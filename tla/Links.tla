------------------------------- MODULE Links -------------------------------
(***************************************************************************)
(* vmess:// links: the three formats the HTTP server writes                *)
(* (http/server.rs) and the parser that reads them, here or in another     *)
(* instance that subscribes to this one (subscription/parser.rs).          *)
(*                                                                         *)
(* A link is what Url::parse makes of it, with the base64 payload decoded. *)
(* A name is a sequence of characters, some of which have to be escaped in *)
(* a URL; the other texts have no such characters.  Hosts are the kinds of *)
(* address of Process.                                                     *)
(***************************************************************************)
EXTENDS Process

Formats == {"v2rayn", "standard", "shadowrocket"}

MaxPort == 65535   \* u16::MAX

\* percent_encode_query_component, and set_fragment, which escapes less.
Escape(text, reserved) ==
  Concat([i \in DOMAIN text |-> IF text[i] \in reserved THEN <<"%", text[i]>> ELSE <<text[i]>>])
PercentEncode(text) == Escape(text, {" ", "%", "+", "#", "&"})
FragmentEncode(text) == Escape(text, {" "})

\* query_pairs: a character after "%" stands for itself, "+" for a space.
DecodeNext(acc, c) ==
  IF acc.escaped THEN [out |-> Append(acc.out, c), escaped |-> FALSE]
  ELSE IF c = "%" THEN [out |-> acc.out, escaped |-> TRUE]
  ELSE [out |-> Append(acc.out, IF c = "+" THEN " " ELSE c), escaped |-> FALSE]

PercentDecode(text) ==
  LET after[k \in 0..Len(text)] ==
        IF k = 0 THEN [out |-> <<>>, escaped |-> FALSE] ELSE DecodeNext(after[k - 1], text[k])
  IN after[Len(text)].out

FormatUrlHost(host) == IF host \in {"v6", "[v6]"} THEN "[v6]" ELSE host
-----------------------------------------------------------------------------
(* Writing a link for a node and an output; relay is [network, service].   *)

IsGrpc(relay) == relay.network = "grpc"

\* append_pair, push_query_pair: more pairs for a query, if the condition holds.
AppendIf(query, condition, pairs) ==
  IF ~condition THEN query
  ELSE [key \in DOMAIN query \cup DOMAIN pairs |-> IF key \in DOMAIN query THEN query[key] ELSE pairs[key]]

\* The mark of an output that skips the verification of certificates is left out:
\* the parser does not read it.
BuildVmessJsonLink(node, output, relay) ==
  [user |-> "", query |-> <<>>,
   payload |-> [ps |-> node.name, add |-> output.host, port |-> output.port, id |-> node.uuid,
                aid |-> node.alterId, net |-> IF IsGrpc(relay) THEN "grpc" ELSE "tcp",
                host |-> "", path |-> IF IsGrpc(relay) THEN relay.service ELSE "",
                tls |-> IF IsGrpc(relay) THEN "tls" ELSE "",
                sni |-> IF IsGrpc(relay) /\ output.sni # NoValue THEN output.sni ELSE "",
                scy |-> node.security, packet |-> "default"]]

BuildVmessUrlLink(node, output, relay) ==
  [user |-> node.uuid, host |-> FormatUrlHost(output.host), port |-> output.port,
   query |-> LET always == [type |-> IF IsGrpc(relay) THEN "grpc" ELSE "tcp",
                            security |-> IF IsGrpc(relay) THEN "tls" ELSE "none",
                            encryption |-> node.security]
                 service == AppendIf(always, IsGrpc(relay), [serviceName |-> relay.service])
             IN AppendIf(service, IsGrpc(relay) /\ output.sni # NoValue, [sni |-> output.sni]),
   fragment |-> FragmentEncode(node.name)]

ShadowrocketUdp(packet) ==
  CASE packet = "default" -> "1" [] packet = "packetaddr" -> "2" [] packet = "xudp" -> "3"

BuildShadowrocketLink(node, output, relay) ==
  [user |-> "", fragment |-> <<>>,
   payload |-> [security |-> node.security, user |-> node.uuid,
                host |-> FormatUrlHost(output.host), port |-> output.port],
   query |-> LET always == [obfs |-> IF IsGrpc(relay) THEN "grpc" ELSE "tcp",
                            tls |-> IF IsGrpc(relay) THEN "1" ELSE "0",
                            udp |-> ShadowrocketUdp(node.packet), alterId |-> node.alterId]
                 path == AppendIf(always, IsGrpc(relay), [path |-> relay.service])
                 remarks == AppendIf(path, node.name # <<>>, [remarks |-> PercentEncode(node.name)])
             IN AppendIf(remarks, IsGrpc(relay) /\ output.sni # NoValue,
                         [obfsParam |-> output.sni, peer |-> output.sni])]

Link(format, node, output, relay) ==
  CASE format = "v2rayn" -> BuildVmessJsonLink(node, output, relay)
    [] format = "standard" -> BuildVmessUrlLink(node, output, relay)
    [] format = "shadowrocket" -> BuildShadowrocketLink(node, output, relay)
-----------------------------------------------------------------------------
(* Reading: the node in a one-element sequence, or <<>> for an error.      *)

TlsEnabledByName(tls) == tls \in {"tls", "true"}   \* (mutant) "1" is not known

TlsEnabled(tls) == tls \in {"tls", "true", "1"}

BuildNode(opts) ==
  IF opts.port <= 0 \/ opts.port > MaxPort \/ opts.add = "" \/ opts.id = "" THEN <<>>
  ELSE LET network == IF opts.net = "" THEN "tcp" ELSE opts.net
       IN <<[name |-> opts.ps, server |-> opts.add, port |-> opts.port, uuid |-> opts.id,
             alterId |-> IF opts.aid > 0 THEN opts.aid ELSE 0,
             security |-> IF opts.scy = "" THEN "auto" ELSE opts.scy,
             network |-> network, tls |-> TlsEnabled(opts.tls),
             sni |-> IF opts.sni # "" THEN opts.sni ELSE IF opts.host # "" THEN opts.host ELSE opts.add,
             service |-> IF network = "grpc" THEN opts.path ELSE NoValue,
             wsPath |-> IF network = "ws" THEN opts.path ELSE NoValue,
             wsHost |-> IF network = "ws" /\ opts.host # "" THEN opts.host ELSE NoValue,
             packet |-> opts.packet]>>

\* query.get(key), or else what another key or the default has.
Get(query, key, other) == IF key \in DOMAIN query THEN query[key] ELSE other

Remarks(link) ==
  IF {"remarks", "ps"} \cap DOMAIN link.query = {} THEN link.fragment
  ELSE PercentDecode(Get(link.query, "remarks", Get(link.query, "ps", <<>>)))

ParseUrlFormat(link) ==
  LET q == link.query
  IN BuildNode([id |-> link.user, add |-> link.host, port |-> link.port, ps |-> Remarks(link),
                aid |-> Get(q, "aid", 0), net |-> Get(q, "type", Get(q, "net", "tcp")),
                host |-> Get(q, "host", ""), path |-> Get(q, "path", Get(q, "serviceName", "")),
                tls |-> Get(q, "security", Get(q, "tls", "")), sni |-> Get(q, "sni", ""),
                scy |-> Get(q, "encryption", Get(q, "scy", "")),
                packet |-> Get(q, "packetEncoding", Get(q, "packetencoding", "default"))])

ParseShadowrocketUdp(value) ==
  CASE value = "2" -> "packetaddr" [] value = "3" -> "xudp" [] OTHER -> "default"

ParseShadowrocketFormat(link) ==
  LET q == link.query
      built == BuildNode(
        [id |-> link.payload.user, add |-> link.payload.host, port |-> link.payload.port,
         ps |-> Remarks(link), aid |-> Get(q, "alterId", Get(q, "aid", 0)),
         net |-> Get(q, "obfs", Get(q, "type", "tcp")), host |-> "",
         path |-> Get(q, "path", Get(q, "serviceName", "")), tls |-> Get(q, "tls", Get(q, "security", "")),
         sni |-> Get(q, "peer", Get(q, "obfsParam", Get(q, "sni", ""))), scy |-> link.payload.security,
         packet |-> "default"])
  IN [i \in DOMAIN built |->
        [built[i] EXCEPT !.packet = ParseShadowrocketUdp(Get(q, "udp", ""))]]

\* The format is told by the user of the URL and its query.
ParseVmessLink(link) ==
  IF link.user # "" THEN ParseUrlFormat(link)
  ELSE IF DOMAIN link.query # {} THEN ParseShadowrocketFormat(link)
  ELSE BuildNode(link.payload)

\* Links that do not parse are skipped.
ParseSubscription(links) == Concat([i \in DOMAIN links |-> ParseVmessLink(links[i])])
=============================================================================

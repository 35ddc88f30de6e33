------------------------------ MODULE Validator ------------------------------
(***************************************************************************)
(* The routing table (vmess/validator.rs, vmess/auth.rs) and how it is     *)
(* built from nodes (build_validator of subscription/manager.rs).          *)
(*                                                                         *)
(* A UUID is its text and the key its 32 hex digits make (NoKey when there *)
(* are not 32).  An auth ID is the key it was encrypted with and its time  *)
(* stamp: under another key the checksum does not match.                   *)
(***************************************************************************)
EXTENDS Integers, Sequences

CONSTANTS NoKey, Refused

Window == 120   \* seconds

\* AuthVerifier::verify.
Verify(key, auth, now) == auth.key = key /\ now - auth.time \in -Window..Window

\* build_validator: "server:port" must parse as a socket address, which neither a
\* domain nor an IPv6 address without brackets does.
AddrParses(node) == node.server \in {"v4", "[v6]"}

\* node_transport: the request URI of a gRPC node is made of its SNI, the port and
\* the service name.  Refused stands for a text that the URI parser does not take
\* (a blank, a control character); an empty SNI is no authority either.
UriParses(node) ==
  node.network = "grpc" => node.sni \notin {"", Refused} /\ node.service # Refused

Upstream(node) ==
  [addr |-> node.addr, network |-> node.network,
   sni |-> IF node.network = "grpc" THEN node.sni ELSE "",
   service |-> IF node.network = "grpc" THEN node.service ELSE ""]

\* (mutant) duplicates are not looked for
DistinctNever(nodes, i) == TRUE

\* Validator::new compares the texts.
Distinct(nodes, i) == \A j \in DOMAIN nodes \ {i} : nodes[j].uuid.text # nodes[i].uuid.text

\* What build_validator and Validator::new require of a node.
Accepted(nodes, i) ==
  /\ AddrParses(nodes[i]) /\ UriParses(nodes[i])
  /\ Distinct(nodes, i) /\ nodes[i].uuid.key # NoKey

\* Any error is the result of the whole.
Builds(nodes) == \A i \in DOMAIN nodes : Accepted(nodes, i)

\* Else there is one entry for each node, in their order.
BuildValidator(nodes) ==
  [i \in DOMAIN nodes |-> [uuid |-> nodes[i].uuid, upstream |-> Upstream(nodes[i])]]

\* match_auth_id: the first entry that verifies; an empty set for None.
MatchAuthId(entries, auth, now) ==
  LET matching == {i \in DOMAIN entries : Verify(entries[i].uuid.key, auth, now)}
      first == CHOOSE i \in matching : \A j \in matching \ {i} : i < j
  IN IF matching = {} THEN {} ELSE {entries[first].upstream}
=============================================================================

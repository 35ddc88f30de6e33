----------------------------- MODULE HttpServer -----------------------------
(***************************************************************************)
(* The HTTP server that hands out the node lists (http/server.rs): the     *)
(* state is rendered when a reload installs it; a request takes a copy of  *)
(* the state, authenticates, routes and answers, while reloads go on.      *)
(*                                                                         *)
(* A path is its non-empty segments; a request has the segment Escaped[n]  *)
(* where it names the output n, as URLs have it.  The links are those of   *)
(* Links.  Requests do not affect each other: there is one.                *)
(***************************************************************************)
EXTENDS Links

CONSTANTS
  Generations,  \* what the reloads install: a sequence of
                \* [users, outputs, nodes, relay]
  Escaped,      \* Escaped[n]: the name n in a URL
  Requests,     \* [auth, path, agent]
  BadHosts,     \* hosts that no URL can have
  Every         \* not a name: a route that names no output

All == {Every}         \* a user's outputs: None
NoAuth == <<>>         \* no Authorization header, or one that does not parse

PacketEncodings == {"default", "packetaddr", "xudp"}

\* A node as the parser makes it.
IsNode(node) ==
  /\ {"name", "uuid", "alterId", "security", "packet"} \subseteq DOMAIN node
  /\ node = [field \in DOMAIN node |-> node[field]]
  /\ IsList(node.name) /\ node.uuid # "" /\ node.alterId \in Nat
  /\ node.packet \in PacketEncodings

\* A step as the configuration has it; a rule turns names into names.
IsStep(step) ==
  /\ step.packet \in PacketEncodings \cup {NoValue}
  /\ IsList(step.rename)
  /\ \A k \in DOMAIN step.rename : \A name \in DOMAIN step.rename[k].to :
       IsList(step.rename[k].to[name])

ASSUME HttpAssumption ==
  /\ IsList(Generations) /\ Generations # <<>>
  /\ \A g \in 1..Len(Generations) :
       /\ DOMAIN Generations[g] = {"users", "outputs", "nodes", "relay"}
       /\ IsList(Generations[g].users) /\ IsList(Generations[g].outputs)
       /\ IsList(Generations[g].nodes)
       /\ \A i \in DOMAIN Generations[g].nodes : IsNode(Generations[g].nodes[i])
       /\ \A i \in DOMAIN Generations[g].outputs :
            LET output == Generations[g].outputs[i]
            IN /\ IsList(output.process) /\ output.port \in Nat /\ output.port <= MaxPort
               /\ \A k \in DOMAIN output.process : IsStep(output.process[k])
       /\ Generations[g].relay.network \in {"tcp", "grpc"}
  /\ "" \in BadHosts

ASSUME EveryAssumption ==
  /\ \A g \in 1..Len(Generations) : \A j \in DOMAIN Generations[g].outputs :
       Generations[g].outputs[j].name # Every
  /\ \A r \in Requests : \A i \in DOMAIN r.path : r.path[i] # Every

VARIABLES
  up,       \* is the daemon running?
  gen,      \* the reloads so far
  state,    \* the HttpState they installed: [users, outputs]
  request,  \* the request
  pc,       \* "none", "wait", "serve", "done"
  snap,     \* its copy of the state
  since,    \* history: gen when the request came
  answer    \* [status, links]

vars == <<up, gen, state, request, pc, snap, since, answer>>
-----------------------------------------------------------------------------
(* Rendering *)

RenderOutput(output, nodes, relay) ==
  LET processed == ApplyPipeline(nodes, output.process)
  IN [name |-> output.name,
      links |-> [f \in Formats |->
                  [i \in DOMAIN processed |-> Link(f, processed[i], output, relay)]]]

NewState(g) ==
  [users |-> g.users,
   outputs |-> [i \in DOMAIN g.outputs |-> RenderOutput(g.outputs[i], g.nodes, g.relay)]]

\* build_vmess_url_link expects that its URL parses.
Panics(g) ==
  \E i \in DOMAIN g.outputs : /\ g.outputs[i].host \in BadHosts
                              /\ ApplyPipeline(g.nodes, g.outputs[i].process) # <<>>
-----------------------------------------------------------------------------
(* Answering *)

\* The user's outputs in a one-element sequence, or <<>> if there is no such
\* user: the first entry with both name and password.
Authenticate(auth, users) ==
  LET matching == {i \in DOMAIN users : auth = <<users[i].username, users[i].password>>}
      matched == CHOOSE i \in matching : \A j \in matching : i <= j
  IN IF users = <<>> THEN <<All>>
     ELSE IF matching = {} THEN <<>> ELSE <<users[matched].outputs>>

\* The format a segment asks for.
FormatOf(segment) ==
  CASE segment \in {"base64", "v2rayn"} -> "v2rayn"
    [] segment \in {"standard", "url"} -> "standard"
    [] segment = "shadowrocket" -> "shadowrocket"
    [] OTHER -> "auto"

\* The format and the output a path asks for, or that there is no such route.
NotFound == [format |-> "none", name |-> Every]

\* (mutant) a name without a format is not looked at
RouteAll(path) ==
  CASE path = <<"sub">> -> [format |-> "auto", name |-> Every]
    [] Len(path) = 2 /\ path[1] = "sub" -> [format |-> FormatOf(path[2]), name |-> Every]
    [] OTHER -> NotFound

Route(path) ==
  CASE path = <<"sub">> -> [format |-> "auto", name |-> Every]
    [] Len(path) = 2 /\ path[1] = "sub" ->
         [format |-> FormatOf(path[2]), name |-> IF FormatOf(path[2]) = "auto" THEN path[2] ELSE Every]
    [] Len(path) = 3 /\ path[1] = "sub" /\ FormatOf(path[3]) # "auto" ->
         [format |-> FormatOf(path[3]), name |-> path[2]]
    [] OTHER -> NotFound

\* RequestedFormat::resolve
Resolve(format, agent) ==
  IF format # "auto" THEN format ELSE IF agent = "shadowrocket" THEN "shadowrocket" ELSE "v2rayn"

\* (mutant) a name in the URL replaces the user's restriction
NameOnly(output, name, granted) ==
  IF name # Every THEN output.name = name ELSE granted = All \/ output.name \in granted

Allowed(output, name, granted) ==
  /\ name = Every \/ output.name = name
  /\ granted = All \/ output.name \in granted

\* flat_map: the links of the allowed outputs, in the order of the outputs.
LinksOf(outputs, allowed, format) ==
  Concat([i \in DOMAIN outputs |-> IF i \in allowed THEN outputs[i].links[format] ELSE <<>>])

BuildSubscriptionResponse(s, granted, name, format) ==
  LET allowed == {i \in DOMAIN s.outputs : Allowed(s.outputs[i], name, granted)}
  IN IF allowed = {} THEN [status |-> 404, links |-> <<>>]
     ELSE [status |-> 200, links |-> LinksOf(s.outputs, allowed, format)]

Dispatch(s, r) ==
  LET granted == Authenticate(r.auth, s.users)
      route == Route(r.path)
  IN CASE granted = <<>> -> [status |-> 401, links |-> <<>>]
       [] granted # <<>> /\ route = NotFound -> [status |-> 404, links |-> <<>>]
       [] OTHER -> BuildSubscriptionResponse(s, granted[1], route.name, Resolve(route.format, r.agent))
-----------------------------------------------------------------------------
Arrive ==
  /\ up /\ pc = "none"
  /\ since' = gen
  /\ pc' = "wait"
  /\ UNCHANGED <<up, gen, state, request, snap, answer>>

\* state.read().await.clone()
TakeSnapshot ==
  /\ up /\ pc = "wait"
  /\ snap' = state
  /\ pc' = "serve"
  /\ UNCHANGED <<up, gen, state, request, since, answer>>

\* (mutant) users from the copy, outputs from the state as it is by now
SeenTorn == [users |-> snap.users, outputs |-> state.outputs]

\* The state the answer is made from.
Seen == snap

Respond ==
  /\ up /\ pc = "serve"
  /\ answer' = Dispatch(Seen, request)
  /\ pc' = "done"
  /\ UNCHANGED <<up, gen, state, request, snap, since>>

\* A reload installs the next state, or its rendering panics in main.
Reload ==
  /\ up /\ gen < Len(Generations)
  /\ gen' = gen + 1
  /\ \/ /\ ~Panics(Generations[gen + 1])
        /\ state' = NewState(Generations[gen + 1])
        /\ UNCHANGED up
     \/ /\ Panics(Generations[gen + 1])
        /\ up' = FALSE
        /\ UNCHANGED state
  /\ UNCHANGED <<request, pc, snap, since, answer>>

Init ==
  /\ up = TRUE /\ gen = 1 /\ state = NewState(Generations[1])
  /\ ~Panics(Generations[1])
  /\ request \in Requests /\ pc = "none" /\ snap = NewState(Generations[1])
  /\ since = 1 /\ answer = [status |-> 404, links |-> <<>>]

Next == Arrive \/ TakeSnapshot \/ Respond \/ Reload

Spec == Init /\ [][Next]_vars
-----------------------------------------------------------------------------
(* Properties *)

\* May the bearer of these credentials see the output of that name?  The first
\* entry with the credentials decides.
Granted(g, auth, name) ==
  \/ g.users = <<>>
  \/ \E i \in DOMAIN g.users :
       /\ auth = <<g.users[i].username, g.users[i].password>>
       /\ \A j \in 1..(i - 1) : auth # <<g.users[j].username, g.users[j].password>>
       /\ g.users[i].outputs = All \/ name \in g.users[i].outputs

\* The nodes of an output, in terms of the configuration.
NodesOf(g, output) == ApplyPipeline(g.nodes, output.process)

\* Every answer is that of one configuration which was in force while the
\* request was being served: users and links are never of different reloads.
OneGeneration ==
  pc = "done" => \E g \in since..gen : answer = Dispatch(NewState(Generations[g]), request)

\* Whatever the path and format, a link is handed out only for an output the
\* bearer may see, and for a node its pipeline keeps, both of one configuration.
OnlyWhatIsGranted ==
  (pc = "done" /\ answer.status = 200) =>
    \E g \in since..gen : LET c == Generations[g] IN
      \A i \in DOMAIN answer.links : \E j \in DOMAIN c.outputs :
        /\ Granted(c, request.auth, c.outputs[j].name)
        /\ \E k \in DOMAIN NodesOf(c, c.outputs[j]), f \in Formats :
             answer.links[i] = Link(f, NodesOf(c, c.outputs[j])[k], c.outputs[j], c.relay)

\* /sub/<name> answers with the nodes of the output of that name, all of them and
\* no others, in the format of the client, when the bearer may see it.
NamedOutputServed ==
  (pc = "done" /\ since = gen) =>
    LET c == Generations[gen]
        format == IF request.agent = "shadowrocket" THEN "shadowrocket" ELSE "v2rayn"
    IN \A j \in DOMAIN c.outputs :
      (/\ request.path = <<"sub", Escaped[c.outputs[j].name]>>
       /\ Granted(c, request.auth, c.outputs[j].name)) =>
         /\ answer.status = 200
         /\ answer.links = [i \in DOMAIN NodesOf(c, c.outputs[j]) |->
                              Link(format, NodesOf(c, c.outputs[j])[i], c.outputs[j], c.relay)]

\* What the parser makes of a node's link: the node, reached through the relay.
\* The standard format has neither alterId nor packet encoding, the v2rayN
\* format no packet encoding, and the escapes of a fragment are not undone.
ReadBack(format, node, output, relay) ==
  LET server == IF format = "v2rayn" THEN output.host ELSE FormatUrlHost(output.host)
      named == relay.network = "grpc" /\ output.sni \notin {NoValue, ""}
  IN [name |-> IF format = "standard" THEN FragmentEncode(node.name) ELSE node.name,
      server |-> server, port |-> output.port, uuid |-> node.uuid,
      alterId |-> IF format = "standard" THEN 0 ELSE node.alterId,
      security |-> IF node.security = "" THEN "auto" ELSE node.security,
      network |-> relay.network, tls |-> relay.network = "grpc",
      sni |-> IF named THEN output.sni ELSE server,
      service |-> IF relay.network = "grpc" THEN relay.service ELSE NoValue,
      wsPath |-> NoValue, wsHost |-> NoValue,
      packet |-> IF format = "shadowrocket" THEN node.packet ELSE "default"]

\* The parser reads back what the server writes, in all three formats: an
\* instance that subscribes to another gets the same nodes in the same order,
\* each with the relay as its server; a port of 0 loses them all.
LinksParseBack ==
  up =>
    LET c == Generations[gen] IN
    \A j \in DOMAIN c.outputs, f \in Formats :
      ParseSubscription(state.outputs[j].links[f]) =
        IF c.outputs[j].port = 0 THEN <<>>
        ELSE [i \in DOMAIN NodesOf(c, c.outputs[j]) |->
                ReadBack(f, NodesOf(c, c.outputs[j])[i], c.outputs[j], c.relay)]
=============================================================================

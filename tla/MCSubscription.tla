--------------------------- MODULE MCSubscription ---------------------------
(* Subscription with two sources whose nodes share names and UUIDs.        *)
EXTENDS Subscription, TLC

MCSources == <<"s", "t">>

Node(name, uuid, key, server, network) ==
  [name |-> <<name>>, source |-> "", server |-> server, addr |-> name, sni |-> "sni", service |-> "",
   uuid |-> [text |-> uuid, key |-> key], network |-> network,
   security |-> "auto", packet |-> ""]

A == Node("a", "u1", 1, "v4", "tcp")
B == Node("b", "u2", 2, "[v6]", "grpc")
A2 == Node("a", "u3", 3, "v4", "tcp")
Dup == Node("c", "u1", 1, "v4", "tcp")         \* A's UUID
Spelt == Node("e", "U2", 2, "v4", "tcp")       \* B's UUID in upper case
Domain == Node("d", "u4", 4, "domain", "tcp")  \* its address does not parse
Odd == [Node("f", "u5", 5, "v4", "grpc") EXCEPT !.service = Refused]  \* nor this one's URI

MCFeeds == ("s" :> {<<>>, <<A>>, <<A, B>>}) @@ ("t" :> {<<A2>>, <<Dup>>, <<A2, Spelt>>, <<Domain>>, <<Odd>>})

Step == [filter |-> {}, filterSource |-> {}, invert |-> FALSE, remove |-> FALSE,
         rename |-> <<>>, removeEmoji |-> FALSE, security |-> NoValue, packet |-> NoValue]

\* Source t sets a security.
MCSteps == ("s" :> <<>>) @@ ("t" :> <<[Step EXCEPT !.security = "none"]>>)
=============================================================================

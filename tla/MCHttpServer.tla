---------------------------- MODULE MCHttpServer ----------------------------
(* HttpServer with users with and without a restriction, and reloads that    *)
(* swap the users' rights, drop an output, replace nodes, change the network *)
(* and at last bring an output whose host has a space.                       *)
EXTENDS HttpServer

Node(name, uuid, security, packet) ==
  [name |-> name, source |-> "s", uuid |-> uuid, alterId |-> Len(name),
   security |-> security, packet |-> packet]
X == Node(<<"x">>, "1", "none", "xudp")
Y == Node(<<"y", " ", "%", "+">>, "2", "", "packetaddr")
Z == Node(<<>>, "3", "auto", "default")

Keep == [filter |-> {}, filterSource |-> {}, invert |-> FALSE, remove |-> FALSE,
         rename |-> <<>>, removeEmoji |-> FALSE, security |-> NoValue, packet |-> NoValue]
Drop(name) == [Keep EXCEPT !.filter = {[valid |-> TRUE, matches |-> {name}]}, !.remove = TRUE]

Output(name, host, port, sni, process) ==
  [name |-> name, host |-> host, port |-> port, sni |-> sni, process |-> process]
M == Output("m", "domain", 443, "sni.example", <<>>)
N == Output("n", "v6", 65535, NoValue, <<Drop(<<"x">>)>>)
P == Output("p", "[v6]", 1, "", <<[Keep EXCEPT !.security = "aes-128-gcm"]>>)
O == Output("o", "v4", 0, NoValue, <<>>)

User(name, outputs) == [username |-> name, password |-> "p", outputs |-> outputs]
G(users, outputs, nodes, network) ==
  [users |-> users, outputs |-> outputs, nodes |-> nodes,
   relay |-> [network |-> network, service |-> "gun"]]

MCGenerations ==
  << G(<<User("u", All), User("v", {"n"})>>, <<M, N, P>>, <<X, Y, Z>>, "grpc"),
     G(<<User("u", {"m"}), User("u", {"n"}), User("v", All)>>, <<M, N, O>>, <<Z, Y>>, "tcp"),
     G(<<>>, <<N, M>>, <<X, X, Y>>, "grpc"),
     G(<<>>, <<Output("m", "a b", 1, NoValue, <<>>)>>, <<X>>, "tcp") >>

MCEscaped == [n \in {"m", "n", "o", "p"} |-> n]

MCRequests ==
  [auth : {NoAuth, <<"u", "p">>, <<"v", "p">>, <<"u", "q">>},
   path : {<<"sub">>, <<"sub", "n">>, <<"sub", "m">>, <<"sub", "o">>, <<"sub", "url">>,
           <<"sub", "m", "shadowrocket">>, <<"sub", "n", "x">>, <<"x">>},
   agent : {"shadowrocket", "other"}]
=============================================================================

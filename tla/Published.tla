------------------------------ MODULE Published ------------------------------
(***************************************************************************)
(* What the daemon promises about the node list it relays for and the      *)
(* links it hands out: a new list is first accepted by the relay and then  *)
(* served over HTTP, one list at a time, always a newer one, and the links *)
(* always name the listener that is bound.                                 *)
(***************************************************************************)
EXTENDS Integers

CONSTANT Listeners

VARIABLES
  up,          \* is the daemon up?
  bound,       \* the settings of the relay listener
  advertised,  \* the settings the links are made for
  accepted,    \* number of the node list the relay accepts
  served       \* number of the node list the HTTP server hands out

vars == <<up, bound, advertised, accepted, served>>

Init ==
  /\ ~up /\ accepted = 0 /\ served = 0
  /\ bound \in Listeners /\ advertised = bound

Start ==
  /\ ~up /\ up'
  /\ accepted' = 1 /\ served' = 1
  /\ bound' \in Listeners /\ advertised' = bound'

Accept ==
  /\ up /\ served = accepted
  /\ accepted' \in Nat /\ accepted' > accepted
  /\ UNCHANGED <<up, bound, advertised, served>>

Publish ==
  /\ up /\ served < accepted
  /\ served' = accepted
  /\ UNCHANGED <<up, bound, advertised, accepted>>

Next == Start \/ Accept \/ Publish

Spec == Init /\ [][Next]_vars
=============================================================================

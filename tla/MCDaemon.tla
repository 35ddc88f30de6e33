------------------------------ MODULE MCDaemon ------------------------------
(* Daemon on a small instance.                                             *)
EXTENDS Daemon

\* Two listeners, two bodies, with and without a timer; the second is also
\* what an empty, just truncated file means: all defaults.
MCConfigs ==
  {[listener |-> "l1", timer |-> TRUE,  body |-> "b1"],
   [listener |-> "l2", timer |-> FALSE, body |-> "b2"]}
=============================================================================

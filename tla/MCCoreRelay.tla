---------------------------- MODULE MCCoreRelay ----------------------------
(* CoreRelay on small instances, given by the configurations.              *)
EXTENDS CoreRelay
=============================================================================

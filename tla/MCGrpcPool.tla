----------------------------- MODULE MCGrpcPool -----------------------------
(* Instances of GrpcPool for TLC: each relay dials at most twice and makes *)
(* at most two slots, so the bounds on both are never met.                 *)
EXTENDS GrpcPool, TLC

RelaySymmetry == Permutations(Relays)
=============================================================================

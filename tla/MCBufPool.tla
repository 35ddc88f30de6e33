----------------------------- MODULE MCBufPool -----------------------------
(* BufPool on a small instance: two size classes and capacities beyond    *)
(* the larger one.                                                         *)
EXTENDS BufPool, TLC

MCSizes == <<1, 2>>

UserSymmetry == Permutations(Users)
=============================================================================

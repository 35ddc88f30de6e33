------------------------------ MODULE MCRelay ------------------------------
(* Relay on a small instance, given by the configuration.                  *)
EXTENDS Relay
=============================================================================

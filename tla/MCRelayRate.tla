---------------------------- MODULE MCRelayRate ----------------------------
(* A small instance of RelayRate for TLC.                                  *)
EXTENDS RelayRate
=============================================================================

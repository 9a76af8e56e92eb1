------------------------------ MODULE MCRelay ------------------------------
(* Small instances of Relay for TLC.                                       *)
EXTENDS Relay, TLC

\* Sockets are interchangeable: no action names one of them.
SocketSymmetry == Permutations(Sockets)
=============================================================================

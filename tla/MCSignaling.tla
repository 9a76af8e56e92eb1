---------------------------- MODULE MCSignaling ----------------------------
(* Small instances of Signaling for TLC.                                   *)
EXTENDS Signaling, TLC

CONSTANTS a, b, c

\* All nicknames differ, or two peers chose the same one.
Guests == (Host :> "h") @@ (a :> "x") @@ (b :> "y") @@ (c :> "z")
Namesakes == (Host :> "h") @@ (a :> "x") @@ (b :> "x")

Same == Permutations(Peers)
=============================================================================

---------------------------- MODULE MCMediaPlane ----------------------------
(* Instances of MediaPlane for TLC.                                        *)
EXTENDS MediaPlane, TLC

CONSTANTS host, ann, bob, a, b, i1, i2

OneStream == a :> ann
TwoStreams == a :> ann @@ b :> host
=============================================================================

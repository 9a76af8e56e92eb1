---------------------------- MODULE MCRateLimit ----------------------------
(* Small instances of RateLimit for TLC.                                   *)
EXTENDS RateLimit, TLC

CONSTANTS c1, c2, c3, shared, own

\* Two clients that the limiter cannot tell apart, as all of them are over the relay, and
\* one with a key of its own, as over a local server.
SharedKey == (c1 :> shared) @@ (c2 :> shared) @@ (c3 :> own)
=============================================================================

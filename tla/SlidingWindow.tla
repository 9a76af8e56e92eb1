--------------------------- MODULE SlidingWindow ---------------------------
(***************************************************************************)
(* The stamps of a sliding window, as both rate limiters keep them: the    *)
(* relay's #allow and the host's RateLimiter filter an array of times by   *)
(* "now - t < window", oldest first.                                       *)
(*                                                                         *)
(* A stamp is kept as its age, which grows with the clock up to the length *)
(* of the window: beyond it the code cannot tell two ages apart.           *)
(***************************************************************************)
EXTENDS Integers, Sequences

Ages(window) == 0..window

\* filter((t) => now - t < window): the entries that are younger, in their order.
Recent(ages, window) ==
    LET kept[n \in 0..Len(ages)] ==
            IF n = 0 THEN <<>>
            ELSE IF ages[n] < window THEN Append(kept[n - 1], ages[n])
            ELSE kept[n - 1]
    IN  kept[Len(ages)]

\* every((t) => now - t >= window).
NoneRecent(ages, window) == \A i \in DOMAIN ages : ~(ages[i] < window)

\* Time passes for a sequence of stamps.
Older(ages, window) ==
    [i \in DOMAIN ages |-> IF ages[i] < window THEN ages[i] + 1 ELSE window]
=============================================================================

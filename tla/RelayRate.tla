----------------------------- MODULE RelayRate -----------------------------
(***************************************************************************)
(* The relay's per-address rate limiter: #allow and the bucket half of     *)
(* sweep() in server/src/relay.ts.  Relay takes its verdict as an input.   *)
(***************************************************************************)
EXTENDS SlidingWindow

CONSTANTS
    Addresses,          \* client addresses, the keys of #rate
    CreatesPerWindow,   \* limits.roomCreatesPerWindow
    JoinsPerWindow,     \* limits.joinsPerWindow
    RateWindow          \* limits.rateWindowMs, in ticks

ASSUME RateAssumption ==
    /\ CreatesPerWindow \in Nat \ {0}
    /\ JoinsPerWindow \in Nat \ {0}
    /\ RateWindow \in Nat \ {0}

VARIABLES
    rate,       \* #rate: the buckets that exist, by address
    granted     \* history: how long ago each address was allowed what

rateVars == <<rate, granted>>

Kinds == {"creates", "joins"}
EmptyBucket == [kind \in Kinds |-> <<>>]
Bucket(ip) == IF ip \in DOMAIN rate THEN rate[ip] ELSE EmptyBucket
Cap(kind) == IF kind = "creates" THEN CreatesPerWindow ELSE JoinsPerWindow

Fresh(ip, kind) == Recent(Bucket(ip)[kind], RateWindow)

RateTypeOK ==
    /\ DOMAIN rate \subseteq Addresses
    /\ \A ip \in DOMAIN rate :
          /\ rate[ip] \in [Kinds -> Seq(Ages(RateWindow))]
          /\ \A kind \in Kinds : Len(rate[ip][kind]) <= Cap(kind)
    /\ granted \in [Addresses -> [Kinds -> Seq(Ages(RateWindow))]]

RateInit ==
    /\ rate = [ip \in {} |-> EmptyBucket]
    /\ granted = [ip \in Addresses |-> EmptyBucket]

\* The bucket is created on first use.
SetStamps(ip, kind, stamps) ==
    rate' = [a \in DOMAIN rate \cup {ip} |->
                IF a = ip THEN [Bucket(ip) EXCEPT ![kind] = stamps] ELSE rate[a]]

\* Mutant of Allow: a denied request renews the stamp of the last one that was allowed.
Allow_RenewsDenied(ip, kind) ==
    \/ /\ Len(Fresh(ip, kind)) >= Cap(kind)
       /\ SetStamps(ip, kind, Append(Tail(Fresh(ip, kind)), 0))
       /\ UNCHANGED granted
    \/ /\ Len(Fresh(ip, kind)) < Cap(kind)
       /\ SetStamps(ip, kind, Append(Fresh(ip, kind), 0))
       /\ granted' = [granted EXCEPT ![ip][kind] = Append(@, 0)]

\* Expired stamps are dropped, whether or not there is room for one more.
Allow(ip, kind) ==
    \/ /\ Len(Fresh(ip, kind)) >= Cap(kind)
       /\ SetStamps(ip, kind, Fresh(ip, kind))
       /\ UNCHANGED granted
    \/ /\ Len(Fresh(ip, kind)) < Cap(kind)
       /\ SetStamps(ip, kind, Append(Fresh(ip, kind), 0))
       /\ granted' = [granted EXCEPT ![ip][kind] = Append(@, 0)]

\* Mutants of IsIdle: one kind is enough; only an empty bucket is idle.
IsIdle_EitherKind(ip) ==
    \E kind \in Kinds : NoneRecent(rate[ip][kind], RateWindow)
IsIdle_Empty(ip) == \A kind \in Kinds : rate[ip][kind] = <<>>

IsIdle(ip) == \A kind \in Kinds : NoneRecent(rate[ip][kind], RateWindow)

SweepBuckets ==
    /\ rate' = [ip \in {a \in DOMAIN rate : ~IsIdle(a)} |-> rate[ip]]
    /\ UNCHANGED granted

\* Time passes for the stamps of all buckets; the history keeps the last rateWindowMs.
RateTick ==
    /\ rate' = [ip \in DOMAIN rate |-> [kind \in Kinds |-> Older(rate[ip][kind], RateWindow)]]
    /\ granted' = [ip \in Addresses |->
                      [kind \in Kinds |-> Recent(Older(granted[ip][kind], RateWindow), RateWindow)]]

RateNext ==
    \/ \E ip \in Addresses, kind \in Kinds : Allow(ip, kind)
    \/ SweepBuckets
    \/ RateTick

RateSpec == RateInit /\ [][RateNext]_rateVars

\* The sweep timer keeps firing and time passes.
FairRateSpec == RateSpec /\ WF_rateVars(SweepBuckets) /\ WF_rateVars(RateTick)

-----------------------------------------------------------------------------

\* In no window of rateWindowMs is an address allowed more than its limit: not
\* even when the sweep drops its bucket between two requests, or when creates
\* and joins share a bucket.
NoWindowExceeds ==
    \A ip \in Addresses, kind \in Kinds : Len(granted[ip][kind]) <= Cap(kind)

\* An address at its limit is let in again, however often it knocks in between.
Throttled(ip, kind) == Len(Fresh(ip, kind)) >= Cap(kind)

ThrottleLifts ==
    \A ip \in Addresses, kind \in Kinds : Throttled(ip, kind) ~> ~Throttled(ip, kind)

\* An address that stops asking is forgotten: the map does not keep an entry for
\* every address that was ever seen.
Quiet(ip) == ip \in DOMAIN rate /\ \A kind \in Kinds : Fresh(ip, kind) = <<>>

BucketsForgotten == \A ip \in Addresses : Quiet(ip) ~> ~Quiet(ip)
=============================================================================

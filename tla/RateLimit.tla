----------------------------- MODULE RateLimit -----------------------------
(***************************************************************************)
(* The host's handshake rate limiter (src/main/signaling/rate-limit.ts) as *)
(* the server uses it (server.ts, #handleConnection): one attempt per      *)
(* connection, cleared when a handshake succeeds.  A client is known to    *)
(* the limiter by a key: its address over a local server, the constant     *)
(* 'relay' for everybody over the relay (relay-link.ts).                   *)
(*                                                                         *)
(* Time is relative: a hit is kept as its age, a block as the time that is *)
(* left of it.                                                             *)
(***************************************************************************)
EXTENDS SlidingWindow, FiniteSetsExt

CONSTANTS
    Clients,            \* who connects
    Keys,               \* what the limiter tells apart
    KeyOf,              \* the key of each client
    Burst,              \* cfg.burst
    Window,             \* cfg.windowMs, in ticks
    BaseBackoff,        \* cfg.baseBackoffMs, in ticks
    MaxBackoff,         \* cfg.maxBackoffMs, in ticks
    MaxOverflow         \* bound: overflowCount is not told apart beyond

ASSUME RateLimitAssumption ==
    /\ KeyOf \in [Clients -> Keys]
    /\ Burst \in Nat \ {0}
    /\ Window \in Nat \ {0}
    /\ BaseBackoff \in Nat \ {0}
    /\ MaxBackoff \in Nat /\ MaxBackoff >= BaseBackoff
    /\ MaxOverflow \in Nat

\* 2 ** n, for the counts that are told apart.
PowerOfTwo[n \in 0..MaxOverflow] == IF n = 0 THEN 1 ELSE 2 * PowerOfTwo[n - 1]

ASSUME OverflowAssumption == BaseBackoff * PowerOfTwo[MaxOverflow] >= MaxBackoff

VARIABLES
    buckets,            \* #buckets: those that exist, by key
    handshaking,        \* the clients whose attempt was let through and is running
    grants,             \* history: the ages of what a key was granted since its last clear
    lastBlock           \* history: the length of a key's last block since then

history == <<grants, lastBlock>>
rateLimitVars == <<buckets, handshaking, history>>

NotBlocked == -1        \* the instant blockedUntil is past
Buckets == [hits : Seq(Ages(Window)), blocked : NotBlocked..MaxBackoff, overflowCount : 0..MaxOverflow]
NewBucket == [hits |-> <<>>, blocked |-> NotBlocked, overflowCount |-> 0]
BucketOf(k) == IF k \in DOMAIN buckets THEN buckets[k] ELSE NewBucket
Hits(k) == Recent(BucketOf(k).hits, Window)

Backoff(k) == Min({BaseBackoff * PowerOfTwo[BucketOf(k).overflowCount], MaxBackoff})

RateLimitTypeOK ==
    /\ DOMAIN buckets \subseteq Keys
    /\ \A k \in DOMAIN buckets : buckets[k] \in Buckets
    /\ handshaking \subseteq Clients
    /\ grants \in [Keys -> Seq(Ages(Window))]
    /\ lastBlock \in [Keys -> 0..MaxBackoff]

RateLimitInit ==
    /\ buckets = [k \in {} |-> NewBucket]
    /\ handshaking = {}
    /\ grants = [k \in Keys |-> <<>>]
    /\ lastBlock = [k \in Keys |-> 0]

-----------------------------------------------------------------------------

Store(k, b) == buckets' = [j \in DOMAIN buckets \cup {k} |-> IF j = k THEN b ELSE buckets[j]]

\* Mutant of Blocked: knocking during a block starts it afresh.
Blocked_Restarts(k) ==
    /\ BucketOf(k).blocked > 0
    /\ Store(k, [BucketOf(k) EXCEPT !.blocked = Backoff(k)])
    /\ UNCHANGED lastBlock

\* take(key) while the key is blocked: nothing but the bucket's existence changes.
Blocked(k) ==
    /\ BucketOf(k).blocked > 0
    /\ Store(k, BucketOf(k))
    /\ UNCHANGED lastBlock

\* Mutant of Overflow: each block starts at the base again.
Overflow_Constant(k) ==
    /\ BucketOf(k).blocked <= 0
    /\ Len(Hits(k)) >= Burst
    /\ Store(k, [hits |-> Hits(k), blocked |-> BaseBackoff,
                 overflowCount |-> BucketOf(k).overflowCount])
    /\ lastBlock' = [lastBlock EXCEPT ![k] = BaseBackoff]

\* take(key) with the burst used up: a backoff that doubles each time.
Overflow(k) ==
    /\ BucketOf(k).blocked <= 0
    /\ Len(Hits(k)) >= Burst
    /\ Store(k, [hits |-> Hits(k), blocked |-> Backoff(k),
                 overflowCount |-> Min({BucketOf(k).overflowCount + 1, MaxOverflow})])
    /\ lastBlock' = [lastBlock EXCEPT ![k] = Backoff(k)]

\* Mutant of Grant: each attempt starts the window afresh.
Grant_ForgetsHits(k) ==
    /\ BucketOf(k).blocked <= 0
    /\ Len(Hits(k)) < Burst
    /\ Store(k, [BucketOf(k) EXCEPT !.hits = <<0>>])

\* take(key) with room in the window.
Grant(k) ==
    /\ BucketOf(k).blocked <= 0
    /\ Len(Hits(k)) < Burst
    /\ Store(k, [BucketOf(k) EXCEPT !.hits = Append(Hits(k), 0)])

\* A connection of the client arrives.
Take(c) ==
    /\ c \notin handshaking
    /\ \/ /\ Blocked(KeyOf[c]) \/ Overflow(KeyOf[c])
          /\ UNCHANGED <<handshaking, grants>>
       \/ /\ Grant(KeyOf[c])
          /\ handshaking' = handshaking \cup {c}
          /\ grants' = [grants EXCEPT ![KeyOf[c]] = Append(@, 0)]
          /\ UNCHANGED lastBlock

\* The handshake succeeded: clear(key).
Succeed(c) ==
    /\ c \in handshaking
    /\ handshaking' = handshaking \ {c}
    /\ buckets' = [k \in DOMAIN buckets \ {KeyOf[c]} |-> buckets[k]]
    /\ grants' = [grants EXCEPT ![KeyOf[c]] = <<>>]
    /\ lastBlock' = [lastBlock EXCEPT ![KeyOf[c]] = 0]

\* The handshake failed, timed out or its connection closed.
Fail(c) ==
    /\ c \in handshaking
    /\ handshaking' = handshaking \ {c}
    /\ UNCHANGED <<buckets, history>>

\* sweep(): buckets that are idle go.  No caller in the application.
Idle(k) ==
    /\ buckets[k].blocked = NotBlocked
    /\ NoneRecent(buckets[k].hits, Window)

SweepLimiter ==
    /\ buckets' = [k \in {j \in DOMAIN buckets : ~Idle(j)} |-> buckets[k]]
    /\ lastBlock' = [k \in Keys |-> IF k \in DOMAIN buckets /\ Idle(k) THEN 0 ELSE lastBlock[k]]
    /\ UNCHANGED <<handshaking, grants>>

LimiterTick ==
    /\ buckets' = [k \in DOMAIN buckets |->
                      [buckets[k] EXCEPT !.hits = Older(@, Window), !.blocked = Max({@ - 1, NotBlocked})]]
    /\ grants' = [k \in Keys |-> Recent(Older(grants[k], Window), Window)]
    /\ UNCHANGED <<handshaking, lastBlock>>

RateLimitNext ==
    \/ \E c \in Clients : Take(c) \/ Succeed(c) \/ Fail(c)
    \/ SweepLimiter
    \/ LimiterTick

RateLimitSpec == RateLimitInit /\ [][RateLimitNext]_rateLimitVars

\* Time passes.
FairRateLimitSpec == RateLimitSpec /\ WF_rateLimitVars(LimiterTick)

-----------------------------------------------------------------------------

\* Between two successes, no window of windowMs lets a key through more than
\* burst times, however attempts, blocks and sweeps fall.
BurstHolds == \A k \in Keys : Len(grants[k]) <= Burst

\* Until it is cleared or swept, each block of a key lasts twice as long as the
\* one before, up to the longest: also when the key behaved in between.
BackoffGrows ==
    [][\A k \in Keys :
          /\ k \in DOMAIN buckets' /\ buckets'[k].blocked > BucketOf(k).blocked
          /\ lastBlock[k] > 0
          => lastBlock'[k] = Min({2 * lastBlock[k], MaxBackoff})]_rateLimitVars

\* A refused key is let in again, however often it knocks meanwhile: a refusal
\* adds no hit, so the blocks end with the window.  Over the relay everybody has one
\* key: who knocks on and on does not keep the others out for ever.
Refuses(k) == BucketOf(k).blocked > 0 \/ Len(Hits(k)) >= Burst

RefusalEnds == \A k \in Keys : Refuses(k) ~> ~Refuses(k)
=============================================================================

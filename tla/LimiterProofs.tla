---------------------------- MODULE LimiterProofs ----------------------------
(***************************************************************************)
(* The two rate limiters never let more through in a window than they are  *)
(* configured for, for every limit and every length of the window.         *)
(***************************************************************************)
EXTENDS RateLimit, RelayRate, SequenceLemmas, TLAPS

\* What the filter keeps of the first n entries.
Kept(f, ages, window) ==
    f = [n \in 0..Len(ages) |->
            IF n = 0 THEN <<>>
            ELSE IF ages[n] < window THEN Append(f[n - 1], ages[n])
            ELSE f[n - 1]]

\* What it makes of the next entry.
LEMMA KeptNext ==
    ASSUME NEW V, NEW ages \in Seq(V), NEW window, NEW f, Kept(f, ages, window)
    PROVE  /\ f[0] = <<>>
           /\ \A i \in 0..(Len(ages) - 1) :
                 f[i + 1] = IF ages[i + 1] < window THEN Append(f[i], ages[i + 1]) ELSE f[i]
<1>1. Len(ages) \in Nat
  OBVIOUS
<1>2. f[0] = <<>>
  BY <1>1 DEF Kept
<1>3. ASSUME NEW i \in 0..(Len(ages) - 1)
      PROVE  f[i + 1] = IF ages[i + 1] < window THEN Append(f[i], ages[i + 1]) ELSE f[i]
  <2>1. i + 1 \in 0..Len(ages) /\ i + 1 # 0 /\ (i + 1) - 1 = i
    BY <1>1
  <2>2. f[i + 1] = IF i + 1 = 0 THEN <<>>
                   ELSE IF ages[i + 1] < window THEN Append(f[(i + 1) - 1], ages[i + 1])
                   ELSE f[(i + 1) - 1]
    BY <2>1 DEF Kept
  <2> QED
    BY <2>1, <2>2
<1> QED
  BY <1>2, <1>3

\* The filter's recursive function exists.
LEMMA Keeps ==
    ASSUME NEW V, NEW ages \in Seq(V), NEW window
    PROVE  \E f \in [0..Len(ages) -> Seq(V)] :
               Kept(f, ages, window) /\ Recent(ages, window) = f[Len(ages)]
<1> DEFINE n == Len(ages)
           step == [p \in (1..n) \X Seq(V) |->
                       IF ages[p[1]] < window THEN Append(p[2], ages[p[1]]) ELSE p[2]]
<1>1. n \in Nat /\ <<>> \in Seq(V)
  OBVIOUS
<1>2. step \in [(1..n) \X Seq(V) -> Seq(V)]
  OBVIOUS
<1>3. PICK f \in [0..n -> Seq(V)] : Iteration(f, n, <<>>, step)
  <2> HIDE DEF step, n
  <2> QED
    BY <1>1, <1>2, Iterates
<1>4. ASSUME NEW i \in 1..n
      PROVE  step[<<i, f[i - 1]>>] = IF ages[i] < window THEN Append(f[i - 1], ages[i]) ELSE f[i - 1]
  <2>1. f[i - 1] \in Seq(V)
    BY <1>1
  <2>2. <<i, f[i - 1]>> \in (1..n) \X Seq(V)
    BY <2>1
  <2> QED
    BY <2>2
<1>5. f = [i \in 0..n |-> IF i = 0 THEN <<>> ELSE step[<<i, f[i - 1]>>]]
  BY <1>3 DEF Iteration
<1>6. \A i \in 0..n : i # 0 => i \in 1..n
  BY <1>1
<1>7. Kept(f, ages, window)
  <2> HIDE DEF step
  <2> QED
    BY <1>4, <1>5, <1>6 DEF Kept
<1> DEFINE chosen == CHOOSE g : Kept(g, ages, window)
<1>8. Kept(chosen, ages, window)
  BY <1>7
<1>9. Recent(ages, window) = chosen[n]
  BY DEF Recent, Kept
<1> HIDE DEF chosen
<1>10. \A i \in 0..n : chosen[i] = f[i]
  <2> DEFINE S == {i \in 0..n : chosen[i] = f[i]}
  <2>1. 0 \in S
    BY <1>1, <1>7, <1>8, KeptNext
  <2>2. ASSUME NEW i \in 0..(n - 1), i \in S PROVE i + 1 \in S
    <3>1. i + 1 \in 0..n /\ i + 1 # 0 /\ (i + 1) - 1 = i /\ chosen[i] = f[i]
      BY <1>1, <2>2
    <3>2. chosen[i + 1] = f[i + 1]
      BY <3>1, <1>7, <1>8, KeptNext
    <3> QED
      BY <3>1, <3>2
  <2> HIDE DEF S
  <2>3. \A i \in 0..n : i \in S
    BY <1>1, <2>1, <2>2, ReachingAll
  <2> QED
    BY <2>3 DEF S
<1> QED
  BY <1>1, <1>7, <1>9, <1>10

\* Nothing is kept of nothing.
LEMMA RecentOfNone == ASSUME NEW window PROVE Recent(<<>>, window) = <<>>
<1>1. <<>> \in Seq(Nat) /\ Len(<<>>) = 0
  OBVIOUS
<1>2. PICK f \in [0..Len(<<>>) -> Seq(Nat)] : Kept(f, <<>>, window) /\ Recent(<<>>, window) = f[Len(<<>>)]
  BY <1>1, Keeps
<1>3. f[0] = <<>>
  BY <1>1, <1>2, KeptNext
<1> QED
  BY <1>1, <1>2, <1>3

\* One more entry is kept or not, and nothing else changes.
LEMMA RecentOfOneMore ==
    ASSUME NEW V, NEW ages \in Seq(V), NEW age \in V, NEW window
    PROVE  Recent(Append(ages, age), window) =
               IF age < window THEN Append(Recent(ages, window), age) ELSE Recent(ages, window)
<1> DEFINE n == Len(ages)
           more == Append(ages, age)
<1>1. n \in Nat /\ more \in Seq(V) /\ Len(more) = n + 1 /\ more[n + 1] = age
      /\ \A i \in 1..n : more[i] = ages[i]
  OBVIOUS
<1>2. PICK f \in [0..n -> Seq(V)] : Kept(f, ages, window) /\ Recent(ages, window) = f[n]
  BY Keeps
<1> HIDE DEF more
<1>3. PICK g \in [0..Len(more) -> Seq(V)] :
          Kept(g, more, window) /\ Recent(more, window) = g[Len(more)]
  BY <1>1, Keeps
<1> HIDE DEF n
<1>moreKept. more \in Seq(V) /\ Kept(g, more, window)
  BY <1>1, <1>3
<1>recursionF. \A i \in 0..(Len(ages) - 1) :
          f[i + 1] = IF ages[i + 1] < window THEN Append(f[i], ages[i + 1]) ELSE f[i]
  BY <1>2, KeptNext DEF n
<1>recursionG. \A i \in 0..(Len(more) - 1) :
          g[i + 1] = IF more[i + 1] < window THEN Append(g[i], more[i + 1]) ELSE g[i]
  BY <1>moreKept, KeptNext
<1>4. \A i \in 0..n : g[i] = f[i]
  <2> DEFINE S == {i \in 0..n : g[i] = f[i]}
  <2>1. 0 \in S
    BY <1>1, <1>2, <1>3, KeptNext
  <2>2. ASSUME NEW i \in 0..(n - 1), i \in S PROVE i + 1 \in S
    <3>1. /\ i + 1 \in 0..n /\ i + 1 \in 0..(n + 1) /\ i + 1 # 0 /\ (i + 1) - 1 = i
          /\ g[i] = f[i] /\ more[i + 1] = ages[i + 1]
      BY <1>1, <2>2
    <3>2. g[i + 1] = f[i + 1]
      <4>1. i \in 0..(Len(ages) - 1) /\ i \in 0..(Len(more) - 1)
        BY <1>1 DEF n
      <4>2. f[i + 1] = IF ages[i + 1] < window THEN Append(f[i], ages[i + 1]) ELSE f[i]
        BY <4>1, <1>recursionF
      <4>3. g[i + 1] = IF more[i + 1] < window THEN Append(g[i], more[i + 1]) ELSE g[i]
        BY <4>1, <1>recursionG
      <4> QED
        BY <3>1, <4>2, <4>3
    <3> QED
      BY <3>1, <3>2
  <2> HIDE DEF S
  <2>3. \A i \in 0..n : i \in S
    BY <1>1, <2>1, <2>2, ReachingAll
  <2> QED
    BY <2>3 DEF S
<1>5. g[n + 1] = IF age < window THEN Append(g[n], age) ELSE g[n]
  <2>1. n \in 0..(Len(more) - 1)
    BY <1>1
  <2>2. g[n + 1] = IF more[n + 1] < window THEN Append(g[n], more[n + 1]) ELSE g[n]
    BY <2>1, <1>recursionG
  <2> QED
    BY <1>1, <2>2
<1>6. g[n] = f[n]
  BY <1>1, <1>4
<1> QED
  BY <1>1, <1>2, <1>3, <1>5, <1>6 DEF more, n

\* The filter keeps stamps, all of them recent, and no more than there were.
LEMMA RecentIsRecent ==
    ASSUME NEW window \in Nat, NEW ages \in Seq(Ages(window))
    PROVE  /\ Recent(ages, window) \in Seq(Ages(window))
           /\ \A i \in DOMAIN Recent(ages, window) : Recent(ages, window)[i] < window
           /\ Len(Recent(ages, window)) <= Len(ages)
<1> DEFINE Good(s) == /\ Recent(s, window) \in Seq(Ages(window))
                      /\ \A i \in DOMAIN Recent(s, window) : Recent(s, window)[i] < window
                      /\ Len(Recent(s, window)) <= Len(s)
           T == {s \in Seq(Ages(window)) : Good(s)}
<1>1. <<>> \in T
  <2>1. Recent(<<>>, window) = <<>>
    BY RecentOfNone
  <2>2. \A r : r = <<>> => /\ r \in Seq(Ages(window)) /\ Len(r) <= 0
                            /\ \A i \in DOMAIN r : r[i] < window
    OBVIOUS
  <2>3. Good(<<>>) /\ <<>> \in Seq(Ages(window))
    BY <2>1, <2>2
  <2> HIDE DEF Good
  <2> QED
    BY <2>3
<1>2. ASSUME NEW s \in Seq(Ages(window)), NEW x \in Ages(window), s \in T PROVE Append(s, x) \in T
  <2>1. /\ Append(s, x) \in Seq(Ages(window)) /\ Len(Append(s, x)) = Len(s) + 1
        /\ Len(s) \in Nat /\ Good(s)
    BY <1>2
  <2>2. Recent(Append(s, x), window) =
            IF x < window THEN Append(Recent(s, window), x) ELSE Recent(s, window)
    BY RecentOfOneMore
  <2>3. Good(Append(s, x))
    <3>1. CASE x < window
      <4> DEFINE r == Recent(s, window)
      <4>1. r \in Seq(Ages(window)) /\ (\A i \in DOMAIN r : r[i] < window) /\ Len(r) <= Len(s)
        BY <2>1
      <4>2. Recent(Append(s, x), window) = Append(r, x)
        BY <2>2, <3>1
      <4> HIDE DEF r
      <4>3. /\ Append(r, x) \in Seq(Ages(window)) /\ Len(Append(r, x)) <= Len(s) + 1
            /\ \A i \in DOMAIN Append(r, x) : Append(r, x)[i] < window
        BY <4>1, <3>1, <2>1
      <4> QED
        BY <2>1, <4>2, <4>3
    <3>2. CASE ~(x < window)
      BY <2>1, <2>2, <3>2
    <3> QED
      BY <3>1, <3>2
  <2> QED
    BY <2>1, <2>3
<1> HIDE DEF T
<1>3. Seq(Ages(window)) \subseteq T
  BY <1>1, <1>2, SequenceInduction
<1> QED
  BY <1>3 DEF T

\* What is recent already is left as it is.
LEMMA RecentOfRecent ==
    ASSUME NEW window \in Nat, NEW ages \in Seq(Ages(window)), \A i \in DOMAIN ages : ages[i] < window
    PROVE  Recent(ages, window) = ages
<1> DEFINE AllRecent(s) == \A i \in DOMAIN s : s[i] < window
           T == {s \in Seq(Ages(window)) : AllRecent(s) => Recent(s, window) = s}
<1>1. <<>> \in T
  BY RecentOfNone
<1>2. ASSUME NEW s \in Seq(Ages(window)), NEW x \in Ages(window), s \in T PROVE Append(s, x) \in T
  <2>1. Append(s, x) \in Seq(Ages(window))
    OBVIOUS
  <2>2. SUFFICES ASSUME AllRecent(Append(s, x)) PROVE Recent(Append(s, x), window) = Append(s, x)
    BY <2>1
  <2>3. AllRecent(s)
    <3>1. \A i \in DOMAIN s : i \in DOMAIN Append(s, x) /\ Append(s, x)[i] = s[i]
      OBVIOUS
    <3> QED
      BY <2>2, <3>1
  <2>4. x < window
    <3>1. Len(s) + 1 \in DOMAIN Append(s, x) /\ Append(s, x)[Len(s) + 1] = x
      OBVIOUS
    <3> QED
      BY <2>2, <3>1
  <2>5. Recent(s, window) = s
    BY <1>2, <2>3
  <2> QED
    BY <2>4, <2>5, RecentOfOneMore
<1> HIDE DEF T
<1>3. Seq(Ages(window)) \subseteq T
  BY <1>1, <1>2, SequenceInduction
<1> QED
  BY <1>3 DEF T

\* Where nothing is recent, nothing is kept.
LEMMA RecentOfExpired ==
    ASSUME NEW window \in Nat, NEW ages \in Seq(Ages(window)), NoneRecent(ages, window)
    PROVE  Recent(ages, window) = <<>>
<1> DEFINE T == {s \in Seq(Ages(window)) : NoneRecent(s, window) => Recent(s, window) = <<>>}
<1>1. <<>> \in T
  BY RecentOfNone
<1>2. ASSUME NEW s \in Seq(Ages(window)), NEW x \in Ages(window), s \in T PROVE Append(s, x) \in T
  <2>1. Append(s, x) \in Seq(Ages(window))
    OBVIOUS
  <2>2. SUFFICES ASSUME NoneRecent(Append(s, x), window)
                 PROVE  Recent(Append(s, x), window) = <<>>
    BY <2>1
  <2>3. NoneRecent(s, window)
    <3>1. \A i \in DOMAIN s : i \in DOMAIN Append(s, x) /\ Append(s, x)[i] = s[i]
      OBVIOUS
    <3> QED
      BY <2>2, <3>1 DEF NoneRecent
  <2>4. ~(x < window)
    <3>1. Len(s) + 1 \in DOMAIN Append(s, x) /\ Append(s, x)[Len(s) + 1] = x
      OBVIOUS
    <3> QED
      BY <2>2, <3>1 DEF NoneRecent
  <2>5. Recent(s, window) = <<>>
    BY <1>2, <2>3
  <2> QED
    BY <2>4, <2>5, RecentOfOneMore
<1> HIDE DEF T
<1>3. Seq(Ages(window)) \subseteq T
  BY <1>1, <1>2, SequenceInduction
<1> QED
  BY <1>3 DEF T

\* Stamps grow older one by one, and stay stamps of the window.
LEMMA OlderStamps ==
    ASSUME NEW window \in Nat, NEW ages \in Seq(Ages(window))
    PROVE  /\ Older(ages, window) \in Seq(Ages(window))
           /\ Len(Older(ages, window)) = Len(ages)
           /\ Older(<<>>, window) = <<>>
           /\ \A x \in Ages(window) :
                 Older(Append(ages, x), window) =
                     Append(Older(ages, window), IF x < window THEN x + 1 ELSE window)
<1>1. Older(ages, window) \in Seq(Ages(window)) /\ Len(Older(ages, window)) = Len(ages)
  <2>1. \A i \in 1..Len(ages) :
           (IF ages[i] < window THEN ages[i] + 1 ELSE window) \in Ages(window)
    <3>1. TAKE i \in 1..Len(ages)
    <3>2. ages[i] \in Ages(window)
      OBVIOUS
    <3> QED
      BY <3>2 DEF Ages
  <2> QED
    BY <2>1 DEF Older
<1>2. Older(<<>>, window) = <<>>
  BY DEF Older
<1>3. ASSUME NEW x \in Ages(window)
      PROVE  Older(Append(ages, x), window) =
                 Append(Older(ages, window), IF x < window THEN x + 1 ELSE window)
  BY DEF Older
<1> QED
  BY <1>1, <1>2, <1>3

\* It makes no difference to what is recent next whether the expired stamps were dropped
\* before time passed.
LEMMA RecentAfterTick ==
    ASSUME NEW window \in Nat, NEW ages \in Seq(Ages(window))
    PROVE  Recent(Older(Recent(ages, window), window), window) = Recent(Older(ages, window), window)
<1> DEFINE Same(s) == Recent(Older(Recent(s, window), window), window) = Recent(Older(s, window), window)
           T == {s \in Seq(Ages(window)) : Same(s)}
<1>1. <<>> \in T
  BY RecentOfNone
<1>2. ASSUME NEW s \in Seq(Ages(window)), NEW x \in Ages(window), s \in T PROVE Append(s, x) \in T
  <2> DEFINE older == IF x < window THEN x + 1 ELSE window
             r == Recent(s, window)
  <2>0. older \in Ages(window)
    BY DEF Ages
  <2> HIDE DEF older
  <2>1. /\ Append(s, x) \in Seq(Ages(window)) /\ older \in Ages(window)
        /\ r \in Seq(Ages(window)) /\ Recent(Older(r, window), window) = Recent(Older(s, window), window)
    BY <1>2, <2>0, RecentIsRecent
  <2>2. /\ Older(Append(s, x), window) = Append(Older(s, window), older)
        /\ Older(s, window) \in Seq(Ages(window))
    BY OlderStamps DEF older
  <2>3. Recent(Append(Older(s, window), older), window) =
            IF older < window THEN Append(Recent(Older(s, window), window), older)
            ELSE Recent(Older(s, window), window)
    BY <2>1, <2>2, RecentOfOneMore
  <2>4. Recent(Append(s, x), window) = IF x < window THEN Append(r, x) ELSE r
    BY RecentOfOneMore
  <2>5. Same(Append(s, x))
    <3> HIDE DEF r
    <3>1. CASE x < window
      <4>1. Older(Append(r, x), window) = Append(Older(r, window), older) /\ Older(r, window) \in Seq(Ages(window))
        BY <2>1, OlderStamps DEF older
      <4>2. Recent(Append(Older(r, window), older), window) =
                IF older < window THEN Append(Recent(Older(r, window), window), older)
                ELSE Recent(Older(r, window), window)
        BY <2>1, <4>1, RecentOfOneMore
      <4> QED
        BY <2>1, <2>2, <2>3, <2>4, <3>1, <4>1, <4>2
    <3>2. CASE ~(x < window)
      <4>1. ~(older < window)
        BY <3>2 DEF older
      <4> QED
        BY <2>1, <2>2, <2>3, <2>4, <3>2, <4>1
    <3> QED
      BY <3>1, <3>2
  <2> QED
    BY <2>1, <2>5
<1> HIDE DEF T
<1>3. Seq(Ages(window)) \subseteq T
  BY <1>1, <1>2, SequenceInduction
<1> QED
  BY <1>3 DEF T

-----------------------------------------------------------------------------

\* What an address was allowed in this window is what its bucket remembers of it, and is
\* within the limit.
Remembered(ip, kind) ==
    /\ granted[ip][kind] = Fresh(ip, kind)
    /\ Len(granted[ip][kind]) <= Cap(kind)

RateInv == RateTypeOK /\ \A ip \in Addresses, kind \in Kinds : Remembered(ip, kind)

\* A bucket, whether it exists or not, holds stamps; the limits are positive.
LEMMA BucketType ==
    ASSUME RateTypeOK, NEW ip \in Addresses, NEW kind \in Kinds
    PROVE  /\ Bucket(ip) \in [Kinds -> Seq(Ages(RateWindow))]
           /\ \A k \in Kinds : Len(Bucket(ip)[k]) <= Cap(k)
           /\ Fresh(ip, kind) \in Seq(Ages(RateWindow)) /\ Len(Fresh(ip, kind)) \in Nat
           /\ \A i \in DOMAIN Fresh(ip, kind) : Fresh(ip, kind)[i] < RateWindow
           /\ Cap(kind) \in Nat \ {0} /\ RateWindow \in Nat \ {0}
<1>1. /\ Bucket(ip) \in [Kinds -> Seq(Ages(RateWindow))]
      /\ \A k \in Kinds : Len(Bucket(ip)[k]) <= Cap(k)
  <2>1. CASE ip \in DOMAIN rate
    BY <2>1 DEF RateTypeOK, Bucket
  <2>2. CASE ip \notin DOMAIN rate
    <3>1. Len(<<>>) = 0 /\ \A k \in Kinds : Cap(k) \in Nat
      BY RateAssumption DEF Cap
    <3> QED
      BY <2>2, <3>1 DEF Bucket, EmptyBucket
  <2> QED
    BY <2>1, <2>2
<1>2. Cap(kind) \in Nat \ {0} /\ RateWindow \in Nat \ {0}
  BY RateAssumption DEF Cap
<1>3. /\ Fresh(ip, kind) \in Seq(Ages(RateWindow))
      /\ \A i \in DOMAIN Fresh(ip, kind) : Fresh(ip, kind)[i] < RateWindow
  <2>1. Bucket(ip)[kind] \in Seq(Ages(RateWindow)) /\ RateWindow \in Nat
    BY <1>1, <1>2
  <2> QED
    BY <2>1, RecentIsRecent DEF Fresh
<1>4. Len(Fresh(ip, kind)) \in Nat
  BY <1>3
<1> QED
  BY <1>1, <1>2, <1>3, <1>4

\* Whatever SetStamps stores, the bucket of no other address and kind changes.
LEMMA StampsSet ==
    ASSUME RateTypeOK, NEW ip \in Addresses, NEW kind \in Kinds, NEW stamps \in Seq(Ages(RateWindow)),
           Len(stamps) <= Cap(kind), SetStamps(ip, kind, stamps)
    PROVE  /\ UNCHANGED granted => RateTypeOK'
           /\ granted' \in [Addresses -> [Kinds -> Seq(Ages(RateWindow))]] => RateTypeOK'
           /\ Fresh(ip, kind)' = Recent(stamps, RateWindow)
           /\ \A a \in Addresses, k \in Kinds :
                 (a # ip \/ k # kind) => Fresh(a, k)' = Fresh(a, k)
<1>1. /\ Bucket(ip) \in [Kinds -> Seq(Ages(RateWindow))]
      /\ \A k \in Kinds : Len(Bucket(ip)[k]) <= Cap(k)
  BY BucketType
<1>2. Bucket(ip)' = [Bucket(ip) EXCEPT ![kind] = stamps]
  BY DEF SetStamps, Bucket
<1>3. \A a \in Addresses : a # ip => Bucket(a)' = Bucket(a)
  BY DEF SetStamps, Bucket
<1>4. DOMAIN rate' \subseteq Addresses
  BY DEF SetStamps, RateTypeOK
<1>5. ASSUME NEW a \in DOMAIN rate'
      PROVE  /\ rate'[a] \in [Kinds -> Seq(Ages(RateWindow))]
             /\ \A k \in Kinds : Len(rate'[a][k]) <= Cap(k)
  <2>1. CASE a = ip
    BY <2>1, <1>1 DEF SetStamps
  <2>2. CASE a # ip
    BY <2>2 DEF SetStamps, RateTypeOK
  <2> QED
    BY <2>1, <2>2
<1>8. granted' \in [Addresses -> [Kinds -> Seq(Ages(RateWindow))]] => RateTypeOK'
  BY <1>4, <1>5 DEF RateTypeOK, Cap
<1>9. UNCHANGED granted => granted' \in [Addresses -> [Kinds -> Seq(Ages(RateWindow))]]
  BY DEF RateTypeOK
<1>6. Fresh(ip, kind)' = Recent(stamps, RateWindow)
  BY <1>1, <1>2 DEF Fresh
<1>7. ASSUME NEW a \in Addresses, NEW k \in Kinds, a # ip \/ k # kind
      PROVE  Fresh(a, k)' = Fresh(a, k)
  <2>1. Bucket(a)'[k] = Bucket(a)[k]
    BY <1>1, <1>2, <1>3, <1>7
  <2> QED
    BY <2>1 DEF Fresh
<1> QED
  BY <1>6, <1>7, <1>8, <1>9

\* A request that is denied only drops expired stamps; one that is allowed adds its own.
LEMMA AllowKeeps ==
    ASSUME RateInv, NEW ip \in Addresses, NEW kind \in Kinds, Allow(ip, kind)
    PROVE  RateInv'
<1> DEFINE fresh == Fresh(ip, kind)
<1>1. /\ fresh \in Seq(Ages(RateWindow)) /\ Len(fresh) \in Nat /\ (\A i \in DOMAIN fresh : fresh[i] < RateWindow)
      /\ Cap(kind) \in Nat \ {0} /\ RateWindow \in Nat /\ RateWindow > 0
  BY BucketType DEF RateInv
<1>2. RateTypeOK /\ granted[ip][kind] = fresh /\ Len(fresh) <= Cap(kind)
  BY DEF RateInv, Remembered
<1> HIDE DEF fresh
<1>3. CASE Len(fresh) >= Cap(kind)
  <2>1. SetStamps(ip, kind, fresh) /\ UNCHANGED granted
    BY <1>3, <1>1 DEF Allow, fresh
  <2>2. Recent(fresh, RateWindow) = fresh
    BY <1>1, RecentOfRecent
  <2>3. \A a \in Addresses, k \in Kinds : Fresh(a, k)' = Fresh(a, k)
    BY <1>1, <1>2, <2>1, <2>2, StampsSet DEF fresh
  <2>4. RateTypeOK'
    BY <1>1, <1>2, <2>1, StampsSet DEF fresh
  <2> QED
    BY <2>1, <2>3, <2>4 DEF RateInv, Remembered
<1>4. CASE Len(fresh) < Cap(kind)
  <2> DEFINE more == Append(fresh, 0)
  <2>1. /\ SetStamps(ip, kind, more)
        /\ granted' = [granted EXCEPT ![ip][kind] = Append(@, 0)]
    BY <1>4, <1>1 DEF Allow, fresh
  <2>2. /\ more \in Seq(Ages(RateWindow)) /\ Len(more) = Len(fresh) + 1
        /\ \A i \in DOMAIN more : more[i] < RateWindow
    <3>1. 0 \in Ages(RateWindow)
      BY <1>1 DEF Ages
    <3> QED
      BY <1>1, <3>1
  <2> HIDE DEF more
  <2>3. Recent(more, RateWindow) = more
    BY <1>1, <2>2, RecentOfRecent
  <2>4. /\ Fresh(ip, kind)' = more
        /\ \A a \in Addresses, k \in Kinds : (a # ip \/ k # kind) => Fresh(a, k)' = Fresh(a, k)
    BY <1>1, <1>2, <1>4, <2>1, <2>2, <2>3, StampsSet
  <2>5. granted'[ip][kind] = more
    BY <1>2, <2>1 DEF RateTypeOK, more
  <2>6. \A a \in Addresses, k \in Kinds :
           (a # ip \/ k # kind) => granted'[a][k] = granted[a][k]
    BY <1>2, <2>1 DEF RateTypeOK
  <2>7. RateTypeOK'
    <3>1. granted' \in [Addresses -> [Kinds -> Seq(Ages(RateWindow))]]
      BY <1>2, <2>1, <2>2 DEF RateTypeOK, more
    <3> QED
      BY <1>1, <1>2, <1>4, <2>1, <2>2, <3>1, StampsSet
  <2>8. ASSUME NEW a \in Addresses, NEW k \in Kinds PROVE Remembered(a, k)'
    <3>1. CASE a = ip /\ k = kind
      BY <3>1, <1>1, <1>4, <2>2, <2>4, <2>5 DEF Remembered
    <3>2. CASE a # ip \/ k # kind
      BY <3>2, <2>4, <2>6 DEF Remembered, RateInv
    <3> QED
      BY <3>1, <3>2
  <2> QED
    BY <2>7, <2>8 DEF RateInv
<1> QED
  BY <1>1, <1>3, <1>4

\* Only a bucket nothing is remembered in is dropped.
LEMMA SweepKeepsBuckets == ASSUME RateInv, SweepBuckets PROVE RateInv'
<1>1. RateTypeOK /\ UNCHANGED granted
  BY DEF RateInv, SweepBuckets
<1>2. RateTypeOK'
  BY <1>1 DEF RateTypeOK, SweepBuckets
<1>3. ASSUME NEW ip \in Addresses, NEW kind \in Kinds PROVE Fresh(ip, kind)' = Fresh(ip, kind)
  <2>1. CASE ip \in DOMAIN rate /\ IsIdle(ip)
    <3>1. Bucket(ip)' = EmptyBucket
      BY <2>1 DEF SweepBuckets, Bucket
    <3>2. Fresh(ip, kind)' = <<>>
      BY <3>1, RecentOfNone DEF Fresh, EmptyBucket
    <3>3. Bucket(ip)[kind] \in Seq(Ages(RateWindow)) /\ RateWindow \in Nat
      BY <1>1, BucketType
    <3>4. Fresh(ip, kind) = <<>>
      BY <2>1, <3>3, RecentOfExpired DEF IsIdle, Fresh, Bucket
    <3> QED
      BY <3>2, <3>4
  <2>2. CASE ~(ip \in DOMAIN rate /\ IsIdle(ip))
    <3>1. Bucket(ip)' = Bucket(ip)
      BY <2>2 DEF SweepBuckets, Bucket
    <3> QED
      BY <3>1 DEF Fresh
  <2> QED
    BY <2>1, <2>2
<1> QED
  BY <1>1, <1>2, <1>3 DEF RateInv, Remembered

\* As time passes, the history and the buckets lose the same stamps.
LEMMA RateTickKeeps == ASSUME RateInv, RateTick PROVE RateInv'
<1>1. RateTypeOK
  BY DEF RateInv
<1>2. RateWindow \in Nat
  BY RateAssumption
<1>3. ASSUME NEW ip \in Addresses, NEW kind \in Kinds
      PROVE  Remembered(ip, kind)' /\ granted'[ip][kind] \in Seq(Ages(RateWindow))
  <2> DEFINE stamps == Bucket(ip)[kind]
  <2>1. stamps \in Seq(Ages(RateWindow)) /\ Fresh(ip, kind) = Recent(stamps, RateWindow) /\ Fresh(ip, kind) \in Seq(Ages(RateWindow))
    BY <1>1, BucketType DEF Fresh
  <2>2. Bucket(ip)'[kind] = Older(stamps, RateWindow)
    <3>1. CASE ip \in DOMAIN rate
      BY <3>1 DEF RateTick, Bucket
    <3>2. CASE ip \notin DOMAIN rate
      <4>1. stamps = <<>> /\ Bucket(ip)'[kind] = <<>>
        BY <3>2 DEF RateTick, Bucket, EmptyBucket
      <4>2. Older(<<>>, RateWindow) = <<>>
        BY <1>2, <2>1, OlderStamps
      <4> QED
        BY <4>1, <4>2
    <3> QED
      BY <3>1, <3>2
  <2>3. Fresh(ip, kind)' = Recent(Older(stamps, RateWindow), RateWindow)
    BY <2>2 DEF Fresh
  <2> HIDE DEF stamps
  <2>4. granted'[ip][kind] = Recent(Older(Recent(stamps, RateWindow), RateWindow), RateWindow)
    BY <2>1 DEF RateTick, RateInv, Remembered
  <2>5. granted'[ip][kind] = Fresh(ip, kind)'
    BY <1>2, <2>1, <2>3, <2>4, RecentAfterTick
  <2>6. /\ Len(granted'[ip][kind]) <= Len(Older(Fresh(ip, kind), RateWindow))
        /\ granted'[ip][kind] \in Seq(Ages(RateWindow))
        /\ Len(Older(Fresh(ip, kind), RateWindow)) = Len(Fresh(ip, kind))
    BY <1>2, <2>1, <2>4, OlderStamps, RecentIsRecent
  <2>7. Len(Fresh(ip, kind)) <= Cap(kind) /\ Cap(kind) \in Nat /\ Len(Fresh(ip, kind)) \in Nat
    BY <1>1, BucketType DEF RateInv, Remembered
  <2>8. Len(granted'[ip][kind]) \in Nat
    BY <2>6
  <2>9. Len(granted'[ip][kind]) <= Cap(kind) /\ Cap(kind)' = Cap(kind)
    BY <2>6, <2>7, <2>8 DEF Cap
  <2> QED
    BY <2>5, <2>6, <2>9 DEF Remembered
<1>4. RateTypeOK'
  <2>1. granted' \in [Addresses -> [Kinds -> Seq(Ages(RateWindow))]]
    BY <1>3 DEF RateTick
  <2>2. ASSUME NEW ip \in DOMAIN rate'
        PROVE  /\ rate'[ip] \in [Kinds -> Seq(Ages(RateWindow))]
               /\ \A kind \in Kinds : Len(rate'[ip][kind]) <= Cap(kind)
    <3>1. ip \in DOMAIN rate /\ rate'[ip] = [kind \in Kinds |-> Older(rate[ip][kind], RateWindow)]
      BY DEF RateTick
    <3>2. \A kind \in Kinds : /\ Older(rate[ip][kind], RateWindow) \in Seq(Ages(RateWindow))
                               /\ Len(Older(rate[ip][kind], RateWindow)) = Len(rate[ip][kind])
      BY <1>1, <1>2, <3>1, OlderStamps DEF RateTypeOK
    <3>3. \A kind \in Kinds : Len(rate[ip][kind]) <= Cap(kind)
      BY <1>1, <3>1 DEF RateTypeOK
    <3> QED
      BY <3>1, <3>2, <3>3
  <2>3. DOMAIN rate' \subseteq Addresses
    BY <1>1 DEF RateTick, RateTypeOK
  <2> QED
    BY <2>1, <2>2, <2>3 DEF RateTypeOK, Cap
<1> QED
  BY <1>3, <1>4 DEF RateInv

\* The history and the buckets agree in every state.
LEMMA RateInvariant == RateSpec => []RateInv
<1>1. RateInit => RateInv
  <2>1. SUFFICES ASSUME RateInit PROVE RateInv
    OBVIOUS
  <2>2. RateTypeOK
    BY <2>1 DEF RateInit, RateTypeOK, EmptyBucket
  <2>3. ASSUME NEW ip \in Addresses, NEW kind \in Kinds PROVE Remembered(ip, kind)
    <3>1. granted[ip][kind] = <<>> /\ Bucket(ip)[kind] = <<>>
      BY <2>1 DEF RateInit, Bucket, EmptyBucket
    <3>2. Fresh(ip, kind) = <<>>
      BY <3>1, RecentOfNone DEF Fresh
    <3>3. Len(<<>>) <= Cap(kind)
      BY RateAssumption DEF Cap
    <3> QED
      BY <3>1, <3>2, <3>3 DEF Remembered
  <2> QED
    BY <2>2, <2>3 DEF RateInv
<1>2. RateInv /\ [RateNext]_rateVars => RateInv'
  <2>1. SUFFICES ASSUME RateInv, [RateNext]_rateVars PROVE RateInv'
    OBVIOUS
  <2>2. CASE \E ip \in Addresses, kind \in Kinds : Allow(ip, kind)
    BY <2>1, <2>2, AllowKeeps
  <2>3. CASE SweepBuckets
    BY <2>1, <2>3, SweepKeepsBuckets
  <2>4. CASE RateTick
    BY <2>1, <2>4, RateTickKeeps
  <2>5. CASE UNCHANGED rateVars
    BY <2>1, <2>5 DEF RateInv, RateTypeOK, Remembered, Fresh, Bucket, Cap, rateVars
  <2> QED
    BY <2>1, <2>2, <2>3, <2>4, <2>5 DEF RateNext
<1> QED
  BY <1>1, <1>2, PTL DEF RateSpec

\* Every bucket of the relay holds two sequences of stamps within the limits.
THEOREM RelayRateTypes == RateSpec => []RateTypeOK
<1>1. RateInv => RateTypeOK
  BY DEF RateInv
<1> QED
  BY <1>1, RateInvariant, PTL

\* In no window of rateWindowMs does the relay allow an address more creates or joins than
\* its limits, however requests, sweeps and the clock interleave: a sweep only drops buckets
\* in which nothing counts any more.
THEOREM RelayLimitHolds == RateSpec => []NoWindowExceeds
<1>1. RateInv => NoWindowExceeds
  BY DEF RateInv, Remembered, NoWindowExceeds
<1> QED
  BY <1>1, RateInvariant, PTL

-----------------------------------------------------------------------------

\* The smaller and the larger of two numbers.
LEMMA MinOfTwo ==
    ASSUME NEW a \in Int, NEW b \in Int
    PROVE  Min({a, b}) = IF a <= b THEN a ELSE b
<1>1. CASE a <= b
  BY <1>1 DEF Min
<1>2. CASE ~(a <= b)
  BY <1>2 DEF Min
<1> QED
  BY <1>1, <1>2

LEMMA MaxOfTwo ==
    ASSUME NEW a \in Int, NEW b \in Int
    PROVE  Max({a, b}) = IF a >= b THEN a ELSE b
<1>1. CASE a >= b
  BY <1>1 DEF Max
<1>2. CASE ~(a >= b)
  BY <1>2 DEF Max
<1> QED
  BY <1>1, <1>2

\* The powers of two that the backoff uses: each is twice the one before.
LEMMA PowersOfTwo ==
    /\ PowerOfTwo \in [0..MaxOverflow -> Nat \ {0}]
    /\ PowerOfTwo[0] = 1
    /\ \A n \in 0..(MaxOverflow - 1) : PowerOfTwo[n + 1] = 2 * PowerOfTwo[n]
<1> DEFINE V == Nat \ {0}
           step == [p \in (1..MaxOverflow) \X V |-> 2 * p[2]]
           Powers(g) == g = [n \in 0..MaxOverflow |-> IF n = 0 THEN 1 ELSE 2 * g[n - 1]]
<1>1. MaxOverflow \in Nat /\ 1 \in V
  BY RateLimitAssumption
<1>2. step \in [(1..MaxOverflow) \X V -> V]
  OBVIOUS
<1>3. PICK f \in [0..MaxOverflow -> V] : Iteration(f, MaxOverflow, 1, step)
  <2> HIDE DEF step, V
  <2> QED
    BY <1>1, <1>2, Iterates
<1>4. \A i \in 1..MaxOverflow : step[<<i, f[i - 1]>>] = 2 * f[i - 1]
  <2>1. TAKE i \in 1..MaxOverflow
  <2>2. f[i - 1] \in V
    BY <1>1
  <2>3. <<i, f[i - 1]>> \in (1..MaxOverflow) \X V
    BY <2>2
  <2> QED
    BY <2>3
<1>5. f = [i \in 0..MaxOverflow |-> IF i = 0 THEN 1 ELSE step[<<i, f[i - 1]>>]]
  BY <1>3 DEF Iteration
<1>6. \A i \in 0..MaxOverflow : i # 0 => i \in 1..MaxOverflow
  BY <1>1
<1>7. Powers(f)
  <2> HIDE DEF step
  <2> QED
    BY <1>4, <1>5, <1>6
<1>8. PowerOfTwo = CHOOSE g : Powers(g)
  BY DEF PowerOfTwo
<1>9. Powers(PowerOfTwo)
  <2> HIDE DEF Powers
  <2> QED
    BY <1>7, <1>8
<1>10. /\ PowerOfTwo[0] = 1
       /\ \A n \in 0..(MaxOverflow - 1) : PowerOfTwo[n + 1] = 2 * PowerOfTwo[n]
  <2>1. PowerOfTwo[0] = 1
    BY <1>1, <1>9
  <2>2. ASSUME NEW n \in 0..(MaxOverflow - 1) PROVE PowerOfTwo[n + 1] = 2 * PowerOfTwo[n]
    <3>1. n + 1 \in 0..MaxOverflow /\ n + 1 # 0 /\ (n + 1) - 1 = n
      BY <1>1
    <3>2. PowerOfTwo[n + 1] = IF n + 1 = 0 THEN 1 ELSE 2 * PowerOfTwo[(n + 1) - 1]
      BY <3>1, <1>9
    <3> QED
      BY <3>1, <3>2
  <2> QED
    BY <2>1, <2>2
<1>11. PowerOfTwo \in [0..MaxOverflow -> V]
  <2> DEFINE S == {i \in 0..MaxOverflow : PowerOfTwo[i] \in V}
  <2>1. 0 \in S
    BY <1>1, <1>10
  <2>2. ASSUME NEW i \in 0..(MaxOverflow - 1), i \in S PROVE i + 1 \in S
    BY <1>1, <1>10, <2>2
  <2> HIDE DEF S
  <2>3. \A i \in 0..MaxOverflow : i \in S
    BY <1>1, <2>1, <2>2, ReachingAll
  <2>4. DOMAIN PowerOfTwo = 0..MaxOverflow /\ PowerOfTwo = [i \in DOMAIN PowerOfTwo |-> PowerOfTwo[i]]
    BY <1>9
  <2>5. \A i \in 0..MaxOverflow : PowerOfTwo[i] \in V
    BY <2>3 DEF S
  <2> HIDE DEF V
  <2> QED
    BY <2>4, <2>5
<1> QED
  BY <1>10, <1>11

-----------------------------------------------------------------------------

\* The part of RateLimitTypeOK that is about the buckets.
LimitType ==
    /\ DOMAIN buckets \subseteq Keys
    /\ \A k \in DOMAIN buckets : buckets[k] \in Buckets
    /\ grants \in [Keys -> Seq(Ages(Window))]
    /\ lastBlock \in [Keys -> 0..MaxBackoff]

\* What a key was granted in this window is what its bucket remembers of it, and no more
\* than the burst.
GrantsRemembered(k) == grants[k] = Hits(k) /\ Len(grants[k]) <= Burst

\* A key that was blocked has a bucket, and its next block will be twice as long as the last.
NextBlockDoubles(k) ==
    lastBlock[k] > 0 =>
        k \in DOMAIN buckets /\ Backoff(k) = Min({2 * lastBlock[k], MaxBackoff})

LimitInv ==
    /\ LimitType
    /\ \A k \in Keys : GrantsRemembered(k) /\ NextBlockDoubles(k)

\* A bucket, whether it exists or not, is a bucket; the stamps it counts are recent.
LEMMA LimiterType ==
    ASSUME LimitType, NEW k \in Keys
    PROVE  /\ BucketOf(k) \in Buckets
           /\ Hits(k) \in Seq(Ages(Window)) /\ Len(Hits(k)) \in Nat
           /\ \A i \in DOMAIN Hits(k) : Hits(k)[i] < Window
           /\ Backoff(k) \in 1..MaxBackoff
           /\ Burst \in Nat \ {0} /\ Window \in Nat \ {0} /\ MaxBackoff \in Nat \ {0}
<1>1. /\ Burst \in Nat \ {0} /\ Window \in Nat \ {0} /\ MaxOverflow \in Nat
      /\ BaseBackoff \in Nat \ {0} /\ MaxBackoff \in Nat \ {0}
  BY RateLimitAssumption
<1>2. BucketOf(k) \in Buckets
  <2>1. NewBucket \in Buckets
    BY <1>1 DEF NewBucket, Buckets, NotBlocked
  <2> QED
    BY <2>1 DEF BucketOf, LimitType
<1>3. Hits(k) \in Seq(Ages(Window)) /\ \A i \in DOMAIN Hits(k) : Hits(k)[i] < Window
  <2>1. BucketOf(k).hits \in Seq(Ages(Window)) /\ Window \in Nat
    BY <1>1, <1>2 DEF Buckets
  <2> QED
    BY <2>1, RecentIsRecent DEF Hits
<1>4. Backoff(k) \in 1..MaxBackoff
  <2> DEFINE power == PowerOfTwo[BucketOf(k).overflowCount]
  <2>1. power \in Nat \ {0}
    BY <1>2, PowersOfTwo DEF Buckets
  <2> HIDE DEF power
  <2>2. BaseBackoff * power \in Nat \ {0}
    BY <1>1, <2>1
  <2>3. Backoff(k) = Min({BaseBackoff * power, MaxBackoff})
    BY DEF Backoff, power
  <2> QED
    BY <1>1, <2>2, <2>3, MinOfTwo
<1>5. Len(Hits(k)) \in Nat
  BY <1>3
<1> QED
  BY <1>1, <1>2, <1>3, <1>4, <1>5

\* Whatever Store puts into a bucket, no other key's bucket changes.
LEMMA Stored ==
    ASSUME LimitType, NEW k \in Keys, NEW b \in Buckets, Store(k, b)
    PROVE  /\ DOMAIN buckets' = DOMAIN buckets \cup {k}
           /\ DOMAIN buckets' \subseteq Keys
           /\ \A j \in DOMAIN buckets' : buckets'[j] \in Buckets
           /\ BucketOf(k)' = b
           /\ \A j \in Keys \ {k} : BucketOf(j)' = BucketOf(j)
  BY DEF Store, LimitType, BucketOf

\* The part of the invariant about a key whose bucket and history stay as they are.
LEMMA OthersKeep ==
    ASSUME LimitInv, NEW k \in Keys, BucketOf(k)' = BucketOf(k),
           grants'[k] = grants[k], lastBlock'[k] = lastBlock[k],
           k \in DOMAIN buckets => k \in DOMAIN buckets'
    PROVE  GrantsRemembered(k)' /\ NextBlockDoubles(k)'
  BY DEF LimitInv, GrantsRemembered, NextBlockDoubles, Hits, Backoff

\* An attempt while the key is blocked.
LEMMA BlockedKeeps ==
    ASSUME LimitInv, NEW k \in Keys, Blocked(k), UNCHANGED grants
    PROVE  LimitInv'
<1>1. LimitType /\ BucketOf(k) \in Buckets /\ Store(k, BucketOf(k)) /\ UNCHANGED lastBlock
  BY LimiterType DEF LimitInv, Blocked
<1>2. \A j \in Keys : BucketOf(j)' = BucketOf(j)
  BY <1>1, Stored
<1>3. DOMAIN buckets' = DOMAIN buckets \cup {k}
  BY <1>1, Stored
<1>4. LimitType'
  BY <1>1, Stored DEF LimitType
<1>5. \A j \in Keys : GrantsRemembered(j)' /\ NextBlockDoubles(j)'
  BY <1>1, <1>2, <1>3, OthersKeep
<1> QED
  BY <1>4, <1>5 DEF LimitInv

\* What a block of the key makes of its bucket.
Blocking(k) ==
    [hits |-> Hits(k), blocked |-> Backoff(k),
     overflowCount |-> Min({BucketOf(k).overflowCount + 1, MaxOverflow})]

\* After a block, the next one is twice as long: either the count went up, or it is at the
\* bound, where every block is the longest.
LEMMA BackoffDoubles ==
    ASSUME LimitType, NEW k \in Keys
    PROVE  /\ Blocking(k) \in Buckets
           /\ Min({BaseBackoff * PowerOfTwo[Blocking(k).overflowCount], MaxBackoff}) =
                  Min({2 * Backoff(k), MaxBackoff})
<1> DEFINE count == BucketOf(k).overflowCount
           next == Blocking(k).overflowCount
<1>1. /\ MaxOverflow \in Nat /\ BaseBackoff \in Nat \ {0} /\ MaxBackoff \in Nat
      /\ count \in 0..MaxOverflow
  BY RateLimitAssumption, LimiterType DEF Buckets
<1>2. next = IF count + 1 <= MaxOverflow THEN count + 1 ELSE MaxOverflow
  BY <1>1, MinOfTwo DEF Blocking
<1>3. next \in 0..MaxOverflow
  BY <1>1, <1>2
<1>4. Blocking(k) \in Buckets
  BY <1>1, <1>3, LimiterType DEF Blocking, Buckets, NotBlocked
<1>5. Backoff(k) = Min({BaseBackoff * PowerOfTwo[count], MaxBackoff})
  BY DEF Backoff
<1> HIDE DEF count, next
<1> DEFINE a == BaseBackoff * PowerOfTwo[count]
           b == BaseBackoff * PowerOfTwo[next]
<1>6. a \in Nat /\ b \in Nat /\ PowerOfTwo[count] \in Nat /\ PowerOfTwo[next] \in Nat
  BY <1>1, <1>3, PowersOfTwo
<1>7. CASE count + 1 <= MaxOverflow
  <2>1. next = count + 1 /\ count \in 0..(MaxOverflow - 1)
    BY <1>1, <1>2, <1>7
  <2>2. PowerOfTwo[next] = 2 * PowerOfTwo[count]
    BY <2>1, PowersOfTwo
  <2>3. b = 2 * a
    BY <1>1, <1>6, <2>2
  <2> HIDE DEF a, b
  <2>4. Min({b, MaxBackoff}) = Min({2 * Min({a, MaxBackoff}), MaxBackoff})
    BY <1>1, <1>6, <2>3, MinOfTwo
  <2> QED
    BY <1>4, <1>5, <2>4 DEF a, b, next
<1>8. CASE ~(count + 1 <= MaxOverflow)
  <2>1. next = MaxOverflow /\ count = MaxOverflow
    BY <1>1, <1>2, <1>8
  <2>2. a >= MaxBackoff /\ b >= MaxBackoff
    BY <2>1, OverflowAssumption
  <2> HIDE DEF a, b
  <2>3. Min({b, MaxBackoff}) = Min({2 * Min({a, MaxBackoff}), MaxBackoff})
    BY <1>1, <1>6, <2>2, MinOfTwo
  <2> QED
    BY <1>4, <1>5, <2>3 DEF a, b, next
<1> QED
  BY <1>7, <1>8

\* An attempt with the burst used up: the key is blocked.
LEMMA OverflowKeeps ==
    ASSUME LimitInv, NEW k \in Keys, Overflow(k), UNCHANGED grants
    PROVE  LimitInv'
<1>1. /\ LimitType /\ Store(k, Blocking(k)) /\ Blocking(k) \in Buckets
      /\ lastBlock' = [lastBlock EXCEPT ![k] = Backoff(k)]
  BY BackoffDoubles DEF LimitInv, Overflow, Blocking
<1>2. /\ BucketOf(k)' = Blocking(k) /\ \A j \in Keys \ {k} : BucketOf(j)' = BucketOf(j)
      /\ DOMAIN buckets' = DOMAIN buckets \cup {k}
  BY <1>1, Stored
<1>3. Backoff(k) \in 1..MaxBackoff /\ MaxBackoff \in Nat
  BY <1>1, LimiterType
<1>4. LimitType'
  <2>1. Backoff(k) \in 0..MaxBackoff
    BY <1>3
  <2>2. lastBlock' \in [Keys -> 0..MaxBackoff]
    BY <1>1, <2>1 DEF LimitType
  <2>3. DOMAIN buckets' \subseteq Keys /\ \A j \in DOMAIN buckets' : buckets'[j] \in Buckets
    BY <1>1, Stored
  <2>4. grants' \in [Keys -> Seq(Ages(Window))]
    BY <1>1 DEF LimitType
  <2> QED
    BY <2>2, <2>3, <2>4 DEF LimitType
<1>5. GrantsRemembered(k)'
  <2>1. /\ Hits(k) \in Seq(Ages(Window)) /\ Window \in Nat /\ \A i \in DOMAIN Hits(k) : Hits(k)[i] < Window
    BY <1>1, LimiterType
  <2>2. Hits(k)' = Hits(k)
    BY <1>2, <2>1, RecentOfRecent DEF Hits, Blocking
  <2> QED
    BY <2>2 DEF LimitInv, GrantsRemembered
<1>6. NextBlockDoubles(k)'
  <2>1. lastBlock'[k] = Backoff(k)
    BY <1>1 DEF LimitType
  <2>2. Backoff(k)' = Min({2 * Backoff(k), MaxBackoff})
    BY <1>1, <1>2, BackoffDoubles DEF Backoff
  <2> QED
    BY <1>2, <2>1, <2>2 DEF NextBlockDoubles
<1>7. \A j \in Keys \ {k} : GrantsRemembered(j)' /\ NextBlockDoubles(j)'
  <2>1. TAKE j \in Keys \ {k}
  <2>2. lastBlock'[j] = lastBlock[j] /\ BucketOf(j)' = BucketOf(j)
    BY <1>1, <1>2 DEF LimitType
  <2> QED
    BY <1>2, <2>2, OthersKeep
<1> QED
  BY <1>4, <1>5, <1>6, <1>7 DEF LimitInv

\* An attempt with room in the window: the bucket and the history gain the same hit.
LEMMA GrantKeeps ==
    ASSUME LimitInv, NEW k \in Keys, Grant(k),
           grants' = [grants EXCEPT ![k] = Append(@, 0)], UNCHANGED lastBlock
    PROVE  LimitInv'
<1> DEFINE hits == Hits(k)
           more == Append(hits, 0)
           counted == [BucketOf(k) EXCEPT !.hits = more]
<1>1. /\ LimitType /\ Store(k, counted) /\ grants[k] = hits /\ Len(hits) < Burst
      /\ BucketOf(k) \in Buckets /\ Burst \in Nat /\ Window \in Nat \ {0}
      /\ hits \in Seq(Ages(Window)) /\ Len(hits) \in Nat /\ \A i \in DOMAIN hits : hits[i] < Window
  BY LimiterType DEF LimitInv, Grant, GrantsRemembered
<1> HIDE DEF hits
<1>2. /\ more \in Seq(Ages(Window)) /\ Len(more) = Len(hits) + 1 /\ \A i \in DOMAIN more : more[i] < Window
  <2>1. 0 \in Ages(Window)
    BY <1>1 DEF Ages
  <2> QED
    BY <1>1, <2>1
<1>3. /\ counted \in Buckets /\ counted.hits = more
      /\ counted.overflowCount = BucketOf(k).overflowCount
  BY <1>1, <1>2 DEF Buckets
<1> HIDE DEF more, counted
<1>4. /\ BucketOf(k)' = counted /\ \A j \in Keys \ {k} : BucketOf(j)' = BucketOf(j)
      /\ DOMAIN buckets' = DOMAIN buckets \cup {k}
  BY <1>1, <1>3, Stored
<1>5. grants' \in [Keys -> Seq(Ages(Window))] /\ grants'[k] = more
  BY <1>1, <1>2 DEF LimitType, more
<1>6. LimitType'
  BY <1>1, <1>3, <1>5, Stored DEF LimitType
<1>7. GrantsRemembered(k)'
  <2>1. Recent(more, Window) = more
    BY <1>1, <1>2, RecentOfRecent
  <2>2. Hits(k)' = more
    BY <1>3, <1>4, <2>1 DEF Hits
  <2> QED
    BY <1>1, <1>2, <1>5, <2>2 DEF GrantsRemembered
<1>8. NextBlockDoubles(k)'
  <2>1. Backoff(k)' = Backoff(k)
    BY <1>3, <1>4 DEF Backoff
  <2> QED
    BY <1>4, <2>1 DEF LimitInv, NextBlockDoubles
<1>9. \A j \in Keys \ {k} : GrantsRemembered(j)' /\ NextBlockDoubles(j)'
  <2>1. TAKE j \in Keys \ {k}
  <2>2. grants'[j] = grants[j]
    BY <1>1 DEF LimitType
  <2> QED
    BY <1>4, <2>2, OthersKeep
<1> QED
  BY <1>6, <1>7, <1>8, <1>9 DEF LimitInv

\* A connection arrives.
LEMMA TakeKeeps == ASSUME LimitInv, NEW c \in Clients, Take(c) PROVE LimitInv'
<1>1. KeyOf[c] \in Keys
  BY RateLimitAssumption
<1>2. CASE Blocked(KeyOf[c]) /\ UNCHANGED grants
  BY <1>1, <1>2, BlockedKeeps
<1>3. CASE Overflow(KeyOf[c]) /\ UNCHANGED grants
  BY <1>1, <1>3, OverflowKeeps
<1>4. CASE /\ Grant(KeyOf[c]) /\ grants' = [grants EXCEPT ![KeyOf[c]] = Append(@, 0)]
           /\ UNCHANGED lastBlock
  BY <1>1, <1>4, GrantKeeps
<1> QED
  BY <1>2, <1>3, <1>4 DEF Take

\* The key of a bucket that is gone starts afresh.
LEMMA Cleared ==
    ASSUME LimitType, NEW k \in Keys, k \notin DOMAIN buckets', grants'[k] = <<>>, lastBlock'[k] = 0
    PROVE  GrantsRemembered(k)' /\ NextBlockDoubles(k)'
<1>1. BucketOf(k)' = NewBucket
  BY DEF BucketOf
<1>2. Hits(k)' = <<>>
  BY <1>1, RecentOfNone DEF Hits, NewBucket
<1>3. Len(<<>>) <= Burst
  BY RateLimitAssumption
<1> QED
  BY <1>2, <1>3 DEF GrantsRemembered, NextBlockDoubles

\* clear() drops the bucket and, with it, what the history keeps of the key.
LEMMA SucceedKeeps == ASSUME LimitInv, NEW c \in Clients, Succeed(c) PROVE LimitInv'
<1> DEFINE k == KeyOf[c]
<1>1. k \in Keys /\ LimitType
  BY RateLimitAssumption DEF LimitInv
<1>2. /\ buckets' = [j \in DOMAIN buckets \ {k} |-> buckets[j]]
      /\ grants' = [grants EXCEPT ![k] = <<>>] /\ lastBlock' = [lastBlock EXCEPT ![k] = 0]
  BY DEF Succeed
<1> HIDE DEF k
<1>3. LimitType'
  <2>1. \A j \in DOMAIN buckets' : j \in DOMAIN buckets /\ buckets'[j] = buckets[j]
    BY <1>2
  <2>2. grants' \in [Keys -> Seq(Ages(Window))] /\ lastBlock' \in [Keys -> 0..MaxBackoff]
    BY <1>1, <1>2, RateLimitAssumption DEF LimitType
  <2> QED
    BY <1>1, <2>1, <2>2 DEF LimitType
<1>4. GrantsRemembered(k)' /\ NextBlockDoubles(k)'
  <2>1. k \notin DOMAIN buckets' /\ grants'[k] = <<>> /\ lastBlock'[k] = 0
    BY <1>1, <1>2 DEF LimitType
  <2> QED
    BY <1>1, <2>1, Cleared
<1>5. \A j \in Keys \ {k} : GrantsRemembered(j)' /\ NextBlockDoubles(j)'
  <2>1. TAKE j \in Keys \ {k}
  <2>2. /\ BucketOf(j)' = BucketOf(j) /\ grants'[j] = grants[j] /\ lastBlock'[j] = lastBlock[j]
        /\ (j \in DOMAIN buckets => j \in DOMAIN buckets')
    BY <1>1, <1>2 DEF LimitType, BucketOf
  <2> QED
    BY <2>2, OthersKeep
<1> QED
  BY <1>3, <1>4, <1>5 DEF LimitInv

\* sweep() only drops a bucket in which nothing counts any more.
LEMMA SweepKeepsLimits == ASSUME LimitInv, SweepLimiter PROVE LimitInv'
<1>1. LimitType
  BY DEF LimitInv
<1>2. /\ buckets' = [k \in {j \in DOMAIN buckets : ~Idle(j)} |-> buckets[k]]
      /\ lastBlock' = [k \in Keys |-> IF k \in DOMAIN buckets /\ Idle(k) THEN 0 ELSE lastBlock[k]]
      /\ grants' = grants
  BY DEF SweepLimiter
<1>3. LimitType'
  <2>1. \A j \in DOMAIN buckets' : j \in DOMAIN buckets /\ buckets'[j] = buckets[j]
    BY <1>2
  <2>2. lastBlock' \in [Keys -> 0..MaxBackoff]
    BY <1>1, <1>2, RateLimitAssumption DEF LimitType
  <2> QED
    BY <1>1, <1>2, <2>1, <2>2 DEF LimitType
<1>4. ASSUME NEW k \in Keys PROVE GrantsRemembered(k)' /\ NextBlockDoubles(k)'
  <2>1. CASE k \in DOMAIN buckets /\ Idle(k)
    <3>1. BucketOf(k).hits \in Seq(Ages(Window)) /\ Window \in Nat /\ NoneRecent(BucketOf(k).hits, Window)
      BY <1>1, <2>1, LimiterType DEF BucketOf, Buckets, Idle
    <3>2. Hits(k) = <<>>
      BY <3>1, RecentOfExpired DEF Hits
    <3>3. k \notin DOMAIN buckets' /\ lastBlock'[k] = 0
      BY <1>2, <2>1
    <3>4. grants'[k] = <<>>
      BY <1>2, <3>2 DEF LimitInv, GrantsRemembered
    <3> QED
      BY <1>1, <3>3, <3>4, Cleared
  <2>2. CASE ~(k \in DOMAIN buckets /\ Idle(k))
    <3>1. BucketOf(k)' = BucketOf(k) /\ (k \in DOMAIN buckets => k \in DOMAIN buckets')
      BY <1>2, <2>2 DEF BucketOf
    <3>2. lastBlock'[k] = lastBlock[k] /\ grants'[k] = grants[k]
      BY <1>2, <2>2
    <3> QED
      BY <3>1, <3>2, OthersKeep
  <2> QED
    BY <2>1, <2>2
<1> QED
  BY <1>3, <1>4 DEF LimitInv

\* What time makes of a bucket.
Aged(b) == [b EXCEPT !.hits = Older(@, Window), !.blocked = Max({@ - 1, NotBlocked})]

\* It stays a bucket, blocked for no longer than before.
LEMMA AgedBucket ==
    ASSUME NEW b \in Buckets
    PROVE  /\ Aged(b) \in Buckets
           /\ Aged(b).hits = Older(b.hits, Window)
           /\ Aged(b).overflowCount = b.overflowCount
           /\ Aged(b).blocked <= b.blocked
<1>1. /\ b.hits \in Seq(Ages(Window)) /\ b.blocked \in NotBlocked..MaxBackoff
      /\ Window \in Nat /\ MaxBackoff \in Nat
  BY RateLimitAssumption DEF Buckets
<1>2. Older(b.hits, Window) \in Seq(Ages(Window))
  BY <1>1, OlderStamps
<1> DEFINE left == Max({b.blocked - 1, NotBlocked})
<1>3. left \in NotBlocked..MaxBackoff /\ left <= b.blocked
  <2>1. b.blocked \in Int /\ b.blocked - 1 \in Int /\ NotBlocked \in Int
    BY <1>1 DEF NotBlocked
  <2>2. left = IF b.blocked - 1 >= NotBlocked THEN b.blocked - 1 ELSE NotBlocked
    BY <2>1, MaxOfTwo
  <2> HIDE DEF left
  <2> QED
    BY <1>1, <2>2 DEF NotBlocked
<1>4. Aged(b) = [b EXCEPT !.hits = Older(b.hits, Window), !.blocked = left]
  BY DEF Aged
<1> HIDE DEF left
<1> QED
  BY <1>2, <1>3, <1>4 DEF Buckets

\* As time passes, the history and the buckets lose the same hits.
LEMMA LimiterTickKeeps == ASSUME LimitInv, LimiterTick PROVE LimitInv'
<1>1. LimitType /\ Window \in Nat /\ Burst \in Nat
  BY RateLimitAssumption DEF LimitInv
<1>2. /\ buckets' = [k \in DOMAIN buckets |-> Aged(buckets[k])]
      /\ grants' = [k \in Keys |-> Recent(Older(grants[k], Window), Window)]
      /\ lastBlock' = lastBlock
  BY DEF LimiterTick, Aged
<1>3. ASSUME NEW k \in Keys
      PROVE  /\ GrantsRemembered(k)' /\ NextBlockDoubles(k)'
             /\ grants'[k] \in Seq(Ages(Window))
  <2> DEFINE hits == BucketOf(k).hits
  <2>1. hits \in Seq(Ages(Window)) /\ Hits(k) = Recent(hits, Window) /\ Hits(k) \in Seq(Ages(Window)) /\ Len(Hits(k)) \in Nat
    BY <1>1, LimiterType DEF Hits, Buckets
  <2>2. BucketOf(k)'.hits = Older(hits, Window) /\ BucketOf(k)'.overflowCount = BucketOf(k).overflowCount
    <3>1. CASE k \in DOMAIN buckets
      BY <1>1, <1>2, <3>1, AgedBucket DEF BucketOf, LimitType
    <3>2. CASE k \notin DOMAIN buckets
      <4>1. BucketOf(k) = NewBucket /\ BucketOf(k)' = NewBucket
        BY <1>2, <3>2 DEF BucketOf
      <4>2. Older(<<>>, Window) = <<>>
        BY <1>1, <2>1, OlderStamps
      <4> QED
        BY <4>1, <4>2 DEF NewBucket
    <3> QED
      BY <3>1, <3>2
  <2>3. Hits(k)' = Recent(Older(hits, Window), Window)
    BY <2>2 DEF Hits
  <2> HIDE DEF hits
  <2>4. grants'[k] = Recent(Older(Recent(hits, Window), Window), Window)
    BY <1>2, <2>1 DEF LimitInv, GrantsRemembered
  <2>5. grants'[k] = Hits(k)'
    BY <1>1, <2>1, <2>3, <2>4, RecentAfterTick
  <2>6. /\ Len(grants'[k]) <= Len(Older(Hits(k), Window)) /\ grants'[k] \in Seq(Ages(Window))
        /\ Len(Older(Hits(k), Window)) = Len(Hits(k))
    BY <1>1, <2>1, <2>4, OlderStamps, RecentIsRecent
  <2>7. Len(Hits(k)) <= Burst /\ Len(grants'[k]) \in Nat
    BY <2>6 DEF LimitInv, GrantsRemembered
  <2>8. Len(grants'[k]) <= Burst
    BY <1>1, <2>1, <2>6, <2>7
  <2>9. NextBlockDoubles(k)'
    <3>1. Backoff(k)' = Backoff(k) /\ DOMAIN buckets' = DOMAIN buckets
      BY <1>2, <2>2 DEF Backoff
    <3> QED
      BY <1>2, <3>1 DEF LimitInv, NextBlockDoubles
  <2> QED
    BY <2>5, <2>6, <2>8, <2>9 DEF GrantsRemembered
<1>4. LimitType'
  <2>1. grants' \in [Keys -> Seq(Ages(Window))]
    BY <1>2, <1>3
  <2>2. \A k \in DOMAIN buckets' : buckets'[k] \in Buckets
    BY <1>1, <1>2, AgedBucket DEF LimitType
  <2> QED
    BY <1>1, <1>2, <2>1, <2>2 DEF LimitType
<1> QED
  BY <1>3, <1>4 DEF LimitInv

\* The history and the buckets agree, and the backoffs double, in every state.
LEMMA LimitInvariant ==
    /\ RateLimitInit => LimitInv
    /\ LimitInv /\ [RateLimitNext]_rateLimitVars => LimitInv'
<1>1. RateLimitInit => LimitInv
  <2>1. SUFFICES ASSUME RateLimitInit PROVE LimitInv
    OBVIOUS
  <2>2. LimitType
    BY <2>1, RateLimitAssumption DEF RateLimitInit, LimitType
  <2>3. ASSUME NEW k \in Keys PROVE GrantsRemembered(k) /\ NextBlockDoubles(k)
    <3>1. grants[k] = <<>> /\ BucketOf(k).hits = <<>> /\ lastBlock[k] = 0
      BY <2>1 DEF RateLimitInit, BucketOf, NewBucket
    <3>2. Hits(k) = <<>> /\ Len(<<>>) <= Burst
      BY <3>1, RecentOfNone, RateLimitAssumption DEF Hits
    <3> QED
      BY <3>1, <3>2 DEF GrantsRemembered, NextBlockDoubles
  <2> QED
    BY <2>2, <2>3 DEF LimitInv
<1>2. ASSUME LimitInv, [RateLimitNext]_rateLimitVars PROVE LimitInv'
  <2>1. CASE \E c \in Clients : Take(c)
    BY <1>2, <2>1, TakeKeeps
  <2>2. CASE \E c \in Clients : Succeed(c)
    BY <1>2, <2>2, SucceedKeeps
  <2>3. CASE (\E c \in Clients : Fail(c)) \/ UNCHANGED rateLimitVars
    BY <1>2, <2>3 DEF Fail, rateLimitVars, history, LimitInv, LimitType, GrantsRemembered,
                      NextBlockDoubles, Hits, Backoff, BucketOf
  <2>4. CASE SweepLimiter
    BY <1>2, <2>4, SweepKeepsLimits
  <2>5. CASE LimiterTick
    BY <1>2, <2>5, LimiterTickKeeps
  <2> QED
    BY <1>2, <2>1, <2>2, <2>3, <2>4, <2>5 DEF RateLimitNext
<1> QED
  BY <1>1, <1>2

\* Every bucket of the host is a bucket: what it counts are stamps, its block is no longer
\* than the longest, and only clients have attempts that run.
THEOREM LimiterTypes == RateLimitSpec => []RateLimitTypeOK
<1> DEFINE Attempts == handshaking \subseteq Clients
<1>1. RateLimitInit => Attempts
  BY DEF RateLimitInit
<1>2. Attempts /\ [RateLimitNext]_rateLimitVars => Attempts'
  BY DEF RateLimitNext, Take, Succeed, Fail, SweepLimiter, LimiterTick, rateLimitVars, history
<1>3. LimitInv /\ Attempts => RateLimitTypeOK
  BY DEF LimitInv, LimitType, RateLimitTypeOK
<1> QED
  BY <1>1, <1>2, <1>3, LimitInvariant, PTL DEF RateLimitSpec

\* Between two successes, no window of windowMs lets a key through more than burst times,
\* however attempts, blocks, sweeps and the clock interleave.
THEOREM BurstNeverExceeded == RateLimitSpec => []BurstHolds
<1>1. LimitInv => BurstHolds
  BY DEF LimitInv, GrantsRemembered, BurstHolds
<1> QED
  BY <1>1, LimitInvariant, PTL DEF RateLimitSpec

\* What BackoffGrows says of one step and one key.
BlockGrows(k) ==
    /\ k \in DOMAIN buckets' /\ buckets'[k].blocked > BucketOf(k).blocked
    /\ lastBlock[k] > 0
    => lastBlock'[k] = Min({2 * lastBlock[k], MaxBackoff})

\* A step that leaves the key's bucket no longer blocked than it was says nothing of it.
LEMMA NotLonger ==
    ASSUME LimitInv, NEW k \in Keys,
           k \in DOMAIN buckets' =>
               buckets'[k].blocked \in Int /\ buckets'[k].blocked <= BucketOf(k).blocked
    PROVE  BlockGrows(k)
<1>1. BucketOf(k).blocked \in Int
  BY LimiterType, RateLimitAssumption DEF LimitInv, Buckets, NotBlocked
<1> QED
  BY <1>1 DEF BlockGrows

\* An attempt makes a block longer only when the burst is used up.
LEMMA TakeGrows ==
    ASSUME LimitInv, NEW c \in Clients, Take(c), NEW k \in Keys
    PROVE  BlockGrows(k)
<1> DEFINE own == KeyOf[c]
<1>1. LimitType /\ own \in Keys
  BY RateLimitAssumption DEF LimitInv
<1>2. BucketOf(k) \in Buckets /\ BucketOf(own) \in Buckets /\ BucketOf(k).blocked \in Int
  BY <1>1, LimiterType, RateLimitAssumption DEF Buckets, NotBlocked
<1>3. ASSUME NEW b \in Buckets, Store(own, b), k # own \/ b.blocked = BucketOf(own).blocked
      PROVE  BlockGrows(k)
  <2>1. k \in DOMAIN buckets' => buckets'[k].blocked = BucketOf(k).blocked
    BY <1>3 DEF Store, BucketOf
  <2> QED
    BY <1>2, <2>1, NotLonger
<1>4. CASE Blocked(own)
  BY <1>2, <1>3, <1>4 DEF Blocked
<1>5. CASE Overflow(own)
  <2>1. /\ Store(own, Blocking(own)) /\ Blocking(own) \in Buckets
        /\ lastBlock' = [lastBlock EXCEPT ![own] = Backoff(own)]
    BY <1>1, <1>5, BackoffDoubles DEF Overflow, Blocking
  <2>2. CASE k # own
    BY <1>3, <2>1, <2>2
  <2>3. CASE k = own
    <3>1. lastBlock'[own] = Backoff(own)
      BY <1>1, <2>1 DEF LimitType
    <3>2. NextBlockDoubles(own)
      BY <1>1 DEF LimitInv
    <3> QED
      BY <2>3, <3>1, <3>2 DEF NextBlockDoubles, BlockGrows
  <2> QED
    BY <2>2, <2>3
<1>6. CASE Grant(own)
  <2> DEFINE b == [BucketOf(own) EXCEPT !.hits = Append(Hits(own), 0)]
  <2>1. Append(Hits(own), 0) \in Seq(Ages(Window))
    <3>1. Hits(own) \in Seq(Ages(Window)) /\ 0 \in Ages(Window)
      BY <1>1, LimiterType DEF Ages
    <3> QED
      BY <3>1
  <2>2. b \in Buckets /\ b.blocked = BucketOf(own).blocked
    <3>1. \A h \in Seq(Ages(Window)), a \in Buckets :
             [a EXCEPT !.hits = h] \in Buckets /\ [a EXCEPT !.hits = h].blocked = a.blocked
      BY DEF Buckets
    <3> QED
      BY <1>2, <2>1, <3>1
  <2>3. Store(own, b)
    BY <1>6 DEF Grant
  <2> HIDE DEF b
  <2> QED
    BY <1>3, <2>2, <2>3
<1> QED
  BY <1>4, <1>5, <1>6 DEF Take

\* Until a key is cleared or swept, each of its blocks lasts twice as long as the one before,
\* up to the longest, also when the key behaved in between: overflowCount goes up with every
\* block and nothing but the bucket's end takes it down.
THEOREM BackoffsDouble == RateLimitSpec => BackoffGrows
<1>1. ASSUME LimitInv, [RateLimitNext]_rateLimitVars, NEW k \in Keys PROVE BlockGrows(k)
  <2>1. LimitType /\ (k \in DOMAIN buckets => BucketOf(k) = buckets[k] /\ buckets[k] \in Buckets)
    BY <1>1 DEF LimitInv, LimitType, BucketOf
  <2>2. \A b \in Buckets : b.blocked \in Int
    BY RateLimitAssumption DEF Buckets, NotBlocked
  <2>3. CASE \E c \in Clients : Take(c)
    BY <1>1, <2>3, TakeGrows
  <2>4. CASE \/ \E c \in Clients : Succeed(c) \/ Fail(c)
             \/ SweepLimiter
             \/ UNCHANGED rateLimitVars
    <3>1. k \in DOMAIN buckets' => k \in DOMAIN buckets /\ buckets'[k] = buckets[k]
      BY <2>4 DEF Succeed, Fail, SweepLimiter, rateLimitVars
    <3> QED
      BY <1>1, <2>1, <2>2, <3>1, NotLonger
  <2>5. CASE LimiterTick
    <3>1. k \in DOMAIN buckets' => k \in DOMAIN buckets /\ buckets'[k] = Aged(buckets[k])
      BY <2>5 DEF LimiterTick, Aged
    <3>2. k \in DOMAIN buckets' => buckets'[k].blocked \in Int /\ buckets'[k].blocked <= BucketOf(k).blocked
      BY <2>1, <2>2, <3>1, AgedBucket
    <3> QED
      BY <1>1, <3>2, NotLonger
  <2> QED
    BY <1>1, <2>3, <2>4, <2>5 DEF RateLimitNext
<1>2. LimitInv /\ [RateLimitNext]_rateLimitVars =>
          [\A k \in Keys :
              /\ k \in DOMAIN buckets' /\ buckets'[k].blocked > BucketOf(k).blocked
              /\ lastBlock[k] > 0
              => lastBlock'[k] = Min({2 * lastBlock[k], MaxBackoff})]_rateLimitVars
  BY <1>1 DEF BlockGrows
<1> QED
  BY <1>2, LimitInvariant, PTL DEF RateLimitSpec, BackoffGrows
=============================================================================

-------------------------- MODULE ConnectionProofs --------------------------
(***************************************************************************)
(* One control connection is a secure channel, for every number of early   *)
(* frames that are kept, of data messages and of strays.                   *)
(*                                                                         *)
(* The sealed frames of one direction are numbered.  The invariant follows *)
(* the numbers through every place a frame can be in: got, the inbox, the  *)
(* frames that came before the keys, and the wire are runs of numbers, each*)
(* beginning where the one before it ends.  The frames are replayed by a   *)
(* recursive function, about which the provers cannot reason by induction: *)
(* Reaching stands in for it, with a pigeonhole argument on finite sets.   *)
(***************************************************************************)
EXTENDS Connection, SequenceLemmas

\* The deliveries are made one by one.
Replayed(c, e, frames) ==
    \E d : /\ d[0] = c /\ DeliveredAll(c, e, frames) = d[Len(frames)]
           /\ \A i \in 1..Len(frames) : d[i] = Delivered(d[i - 1], e, frames[i])

\* DeliveredAll delivers one frame after the other, the first to c.
LEMMA Replays ==
    ASSUME NEW c, NEW e, NEW frames, Len(frames) \in Nat
    PROVE  Replayed(c, e, frames)
<1> DEFINE n == Len(frames)
           Step(d, k) == d = [i \in 0..k |-> IF i = 0 THEN c ELSE Delivered(d[i - 1], e, frames[i])]
           S == {k \in 0..n : \E d : Step(d, k)}
<1>1. 0 \in S
  <2>1. Step([i \in 0..0 |-> c], 0)
    OBVIOUS
  <2> HIDE DEF Step
  <2>2. \E d : Step(d, 0)
    BY <2>1
  <2> QED
    BY <2>2
<1>2. ASSUME NEW k \in 0..(n - 1), k \in S PROVE k + 1 \in S
  <2>1. PICK d : Step(d, k)
    BY <1>2
  <2> DEFINE g == [i \in 0..(k + 1) |-> IF i <= k THEN d[i] ELSE Delivered(d[k], e, frames[k + 1])]
  <2>2. \A i \in 0..k : d[i] = IF i = 0 THEN c ELSE Delivered(d[i - 1], e, frames[i])
    BY <2>1
  <2> HIDE DEF Step
  <2>3. ASSUME NEW i \in 0..(k + 1)
        PROVE g[i] = IF i = 0 THEN c ELSE Delivered(g[i - 1], e, frames[i])
    <3>1. CASE i = 0
      BY <3>1, <2>2
    <3>2. CASE i # 0 /\ i <= k
      <4>1. g[i] = d[i] /\ g[i - 1] = d[i - 1] /\ i \in 0..k
        BY <3>2
      <4> QED
        BY <4>1, <3>2, <2>2
    <3>3. CASE i = k + 1
      <4>1. g[i] = Delivered(d[k], e, frames[k + 1]) /\ g[i - 1] = d[k] /\ i # 0
        BY <3>3
      <4> QED
        BY <4>1, <3>3
    <3> QED
      BY <3>1, <3>2, <3>3
  <2>4. Step(g, k + 1)
    BY <2>3 DEF Step
  <2> QED
    BY <2>4
<1>3. n \in S
  <2> HIDE DEF S
  <2> QED
    BY <1>1, <1>2, Reaching
<1>4. PICK d : Step(d, n)
  BY <1>3
<1> DEFINE after == CHOOSE a : Step(a, n)
<1>5. Step(after, n)
  BY <1>4
<1>6. DeliveredAll(c, e, frames) = after[n]
  BY DEF DeliveredAll
<1>7. after[0] = c /\ \A i \in 1..n : after[i] = Delivered(after[i - 1], e, frames[i])
  <2> HIDE DEF after
  <2> QED
    BY <1>5
<1> QED
  BY <1>6, <1>7 DEF Replayed

(***************************************************************************)
(* Frames in order.                                                        *)
(***************************************************************************)

Letters == [kind : {"text", "sealed", "stray", "gone"},
            type : TextSteps \cup SealedSteps \cup {"handshake_reject", "rejected", "data", "close"},
            n : Nat]

\* What is sealed in q has the numbers from a up to but not including b, in order: r counts
\* them.
Counts(r, q, a, b) ==
    /\ r \in [0..Len(q) -> Nat] /\ r[0] = a /\ r[Len(q)] = b
    /\ \A i, j \in 0..Len(q) : i <= j => r[i] <= r[j]
    /\ \A i \in 1..Len(q) : IF q[i].kind = "sealed" THEN q[i].n = r[i - 1] /\ r[i] = r[i - 1] + 1
                            ELSE r[i] = r[i - 1]
Runs(q, a, b) == \E r : Counts(r, q, a, b)

\* Nothing in q is sealed.
Plain(q) == \A i \in DOMAIN q : q[i].kind # "sealed"

\* Numbers only go up.
LEMMA RunsUp ==
    ASSUME NEW q \in Seq(Letters), NEW a, NEW b, Runs(q, a, b)
    PROVE  a \in Nat /\ b \in Nat /\ a <= b
<1>1. PICK r : Counts(r, q, a, b)
  BY DEF Runs
<1>2. Len(q) \in Nat /\ 0 \in 0..Len(q) /\ Len(q) \in 0..Len(q)
  OBVIOUS
<1> QED
  BY <1>1, <1>2 DEF Counts

\* Where there is no frame nothing is counted.
LEMMA RunsNone ==
    ASSUME NEW a \in Nat
    PROVE  Runs(<<>>, a, a) /\ \A b : Runs(<<>>, a, b) => a = b
<1>1. Counts([i \in 0..0 |-> a], <<>>, a, a)
  BY DEF Counts
<1> QED
  BY <1>1 DEF Runs, Counts

\* Nothing sealed counts nothing, and the other way round.
LEMMA RunsPlain ==
    ASSUME NEW q \in Seq(Letters), NEW a \in Nat
    PROVE  Plain(q) <=> Runs(q, a, a)
<1>0. Len(q) \in Nat /\ DOMAIN q = 1..Len(q)
  OBVIOUS
<1>1. ASSUME Plain(q) PROVE Runs(q, a, a)
  <2>1. Counts([i \in 0..Len(q) |-> a], q, a, a)
    BY <1>0, <1>1 DEF Counts, Plain
  <2> QED
    BY <2>1 DEF Runs
<1>2. ASSUME Runs(q, a, a) PROVE Plain(q)
  <2>1. PICK r : Counts(r, q, a, a)
    BY <1>2 DEF Runs
  <2>2. \A i \in 0..Len(q) : r[i] = a
    BY <2>1, <1>0 DEF Counts
  <2> QED
    BY <2>1, <2>2, <1>0 DEF Counts, Plain
<1> QED
  BY <1>1, <1>2

\* Without its head, a run goes on from the next number.
LEMMA RunsTail ==
    ASSUME NEW q \in Seq(Letters), q # <<>>, NEW a, NEW b, Runs(q, a, b)
    PROVE  IF Head(q).kind = "sealed" THEN Head(q).n = a /\ Runs(Tail(q), a + 1, b)
           ELSE Runs(Tail(q), a, b)
<1>1. PICK r : Counts(r, q, a, b)
  BY DEF Runs
<1> DEFINE p == Tail(q)
           s == [i \in 0..Len(p) |-> r[i + 1]]
<1>2. /\ Len(q) \in Nat \ {0} /\ Len(p) = Len(q) - 1 /\ p \in Seq(Letters) /\ Head(q) = q[1]
      /\ \A i \in 1..Len(p) : p[i] = q[i + 1]
  OBVIOUS
<1>3. /\ r \in [0..Len(q) -> Nat] /\ r[0] = a /\ r[Len(q)] = b
      /\ \A i, j \in 0..Len(q) : i <= j => r[i] <= r[j]
      /\ \A i \in 1..Len(q) : IF q[i].kind = "sealed" THEN q[i].n = r[i - 1] /\ r[i] = r[i - 1] + 1
                              ELSE r[i] = r[i - 1]
  BY <1>1 DEF Counts
<1> HIDE DEF p
<1>4. \A i \in 0..Len(p) : i + 1 \in 0..Len(q)
  BY <1>2
<1>5. s \in [0..Len(p) -> Nat] /\ \A i \in 0..Len(p) : s[i] = r[i + 1]
  BY <1>3, <1>4
<1> HIDE DEF s
<1>6. s[0] = r[1] /\ s[Len(p)] = b
  BY <1>2, <1>3, <1>5
<1>7. \A i, j \in 0..Len(p) : i <= j => s[i] <= s[j]
  BY <1>2, <1>3, <1>4, <1>5
<1>8. ASSUME NEW i \in 1..Len(p)
      PROVE  IF p[i].kind = "sealed" THEN p[i].n = s[i - 1] /\ s[i] = s[i - 1] + 1 ELSE s[i] = s[i - 1]
  <2>1. i + 1 \in 1..Len(q) /\ (i + 1) - 1 = i /\ i \in 0..Len(p) /\ i - 1 \in 0..Len(p) /\ (i - 1) + 1 = i
    BY <1>2
  <2>2. p[i] = q[i + 1] /\ s[i] = r[i + 1] /\ s[i - 1] = r[i]
    BY <2>1, <1>2, <1>5
  <2> QED
    BY <2>1, <2>2, <1>3
<1>9. Counts(s, p, r[1], b)
  BY <1>5, <1>6, <1>7, <1>8 DEF Counts
<1>10. IF Head(q).kind = "sealed" THEN Head(q).n = a /\ r[1] = a + 1 ELSE r[1] = a
  BY <1>2, <1>3
<1> QED
  BY <1>9, <1>10 DEF Runs, p

\* A run and one that goes on where it ends are a run.
LEMMA RunsOn ==
    ASSUME NEW p \in Seq(Letters), NEW q \in Seq(Letters), NEW a, NEW b, NEW c,
           Runs(p, a, b), Runs(q, b, c)
    PROVE  Runs(p \o q, a, c)
<1>1. PICK r, s : Counts(r, p, a, b) /\ Counts(s, q, b, c)
  BY DEF Runs
<1> DEFINE m == Len(p)
           k == Len(q)
           z == p \o q
           t == [i \in 0..(m + k) |-> IF i <= m THEN r[i] ELSE s[i - m]]
<1>2. /\ m \in Nat /\ k \in Nat /\ Len(z) = m + k /\ z \in Seq(Letters)
      /\ (\A i \in 1..m : z[i] = p[i]) /\ (\A i \in (m + 1)..(m + k) : z[i] = q[i - m])
  OBVIOUS
<1>3. a \in Nat /\ b \in Nat /\ c \in Nat
  BY RunsUp
<1>4. /\ r \in [0..m -> Nat] /\ r[0] = a /\ r[m] = b
      /\ s \in [0..k -> Nat] /\ s[0] = b /\ s[k] = c
  BY <1>1 DEF Counts
<1>5. /\ \A i, j \in 0..m : i <= j => r[i] <= r[j]
      /\ \A i, j \in 0..k : i <= j => s[i] <= s[j]
  BY <1>1 DEF Counts
<1>6. /\ \A i \in 1..m : IF p[i].kind = "sealed" THEN p[i].n = r[i - 1] /\ r[i] = r[i - 1] + 1
                         ELSE r[i] = r[i - 1]
      /\ \A i \in 1..k : IF q[i].kind = "sealed" THEN q[i].n = s[i - 1] /\ s[i] = s[i - 1] + 1
                         ELSE s[i] = s[i - 1]
  BY <1>1 DEF Counts
<1> HIDE DEF z, m, k
<1>7. \A i \in 0..m : t[i] = r[i]
  BY <1>2
<1>8. \A i \in m..(m + k) : t[i] = s[i - m]
  BY <1>2, <1>4
<1>9. t \in [0..(m + k) -> Nat] /\ t[0] = a /\ t[m + k] = c
  <2>1. ASSUME NEW i \in 0..(m + k) PROVE t[i] \in Nat
    <3>1. CASE i <= m
      <4>1. i \in 0..m
        BY <3>1, <1>2
      <4> QED
        BY <4>1, <1>4, <1>7
    <3>2. CASE i > m
      <4>1. i \in m..(m + k) /\ i - m \in 0..k
        BY <3>2, <1>2
      <4> QED
        BY <4>1, <1>4, <1>8
    <3> QED
      BY <3>1, <3>2, <1>2
  <2>2. t = [i \in 0..(m + k) |-> t[i]]
    OBVIOUS
  <2>3. t[0] = r[0] /\ t[m + k] = s[k]
    <3>1. 0 \in 0..m /\ m + k \in m..(m + k) /\ (m + k) - m = k
      BY <1>2
    <3> HIDE DEF t
    <3> QED
      BY <3>1, <1>7, <1>8
  <2> HIDE DEF t
  <2> QED
    BY <2>1, <2>2, <2>3, <1>4
<1> HIDE DEF t
<1>10. \A i, j \in 0..(m + k) : i <= j => t[i] <= t[j]
  <2> SUFFICES ASSUME NEW i \in 0..(m + k), NEW j \in 0..(m + k), i <= j PROVE t[i] <= t[j]
    OBVIOUS
  <2>1. CASE j <= m
    <3>1. i \in 0..m /\ j \in 0..m
      BY <2>1, <1>2
    <3> QED
      BY <3>1, <1>5, <1>7
  <2>2. CASE i >= m
    <3>1. i \in m..(m + k) /\ j \in m..(m + k) /\ i - m \in 0..k /\ j - m \in 0..k /\ i - m <= j - m
      BY <2>2, <1>2
    <3> QED
      BY <3>1, <1>5, <1>8
  <2>3. CASE i <= m /\ j > m
    <3>1. /\ i \in 0..m /\ m \in 0..m /\ j \in m..(m + k) /\ j - m \in 0..k
          /\ 0 \in 0..k /\ 0 <= j - m
      BY <2>3, <1>2
    <3>2. t[i] = r[i] /\ r[i] <= r[m] /\ r[i] \in Nat
      BY <3>1, <2>3, <1>4, <1>5, <1>7
    <3>3. t[j] = s[j - m] /\ s[0] <= s[j - m] /\ s[j - m] \in Nat
      BY <3>1, <1>4, <1>5, <1>8
    <3> QED
      BY <3>2, <3>3, <1>3, <1>4
  <2> QED
    BY <2>1, <2>2, <2>3, <1>2
<1>11. \A i \in 1..(m + k) : IF z[i].kind = "sealed" THEN z[i].n = t[i - 1] /\ t[i] = t[i - 1] + 1
                             ELSE t[i] = t[i - 1]
  <2> SUFFICES ASSUME NEW i \in 1..(m + k)
               PROVE IF z[i].kind = "sealed" THEN z[i].n = t[i - 1] /\ t[i] = t[i - 1] + 1
                     ELSE t[i] = t[i - 1]
    OBVIOUS
  <2>1. CASE i <= m
    <3>1. i \in 1..m /\ i \in 0..m /\ i - 1 \in 0..m
      BY <2>1, <1>2
    <3> QED
      BY <3>1, <1>2, <1>6, <1>7
  <2>2. CASE i > m
    <3>1. /\ i \in (m + 1)..(m + k) /\ i \in m..(m + k) /\ i - 1 \in m..(m + k)
          /\ i - m \in 1..k /\ (i - 1) - m = (i - m) - 1
      BY <2>2, <1>2
    <3>2. z[i] = q[i - m] /\ t[i] = s[i - m] /\ t[i - 1] = s[(i - m) - 1]
      BY <3>1, <1>2, <1>8
    <3> QED
      BY <3>1, <3>2, <1>6
  <2> QED
    BY <2>1, <2>2, <1>2
<1>12. Counts(t, z, a, c)
  BY <1>2, <1>9, <1>10, <1>11 DEF Counts
<1> QED
  BY <1>12 DEF Runs, z

\* One more frame: the next number if it is sealed.
LEMMA RunsAppend ==
    ASSUME NEW q \in Seq(Letters), NEW f \in Letters, NEW a, NEW b, Runs(q, a, b)
    PROVE  /\ (f.kind = "sealed" /\ f.n = b) => Runs(Append(q, f), a, b + 1)
           /\ f.kind # "sealed" => Runs(Append(q, f), a, b)
<1> DEFINE p == <<f>>
<1>1. p \in Seq(Letters) /\ Len(p) = 1 /\ p[1] = f /\ Append(q, f) = q \o p
  OBVIOUS
<1>2. b \in Nat
  BY RunsUp
<1> HIDE DEF p
<1>3. ASSUME NEW c \in {b, b + 1}, IF f.kind = "sealed" THEN f.n = b /\ c = b + 1 ELSE c = b
      PROVE  Runs(Append(q, f), a, c)
  <2> DEFINE s == [i \in 0..1 |-> IF i = 0 THEN b ELSE c]
  <2>1. Counts(s, p, b, c)
    BY <1>1, <1>2, <1>3 DEF Counts
  <2>2. Runs(p, b, c)
    BY <2>1 DEF Runs
  <2> QED
    BY <1>1, <2>2, RunsOn
<1> QED
  BY <1>2, <1>3

\* What is left of a run whose end was lost is a run that stops earlier.
LEMMA RunsCut ==
    ASSUME NEW q \in Seq(Letters), NEW a, NEW b, Runs(q, a, b), NEW k \in 0..Len(q)
    PROVE  \E c \in Nat : Runs(SubSeq(q, 1, k), a, c) /\ c <= b
<1>1. PICK r : Counts(r, q, a, b)
  BY DEF Runs
<1> DEFINE p == SubSeq(q, 1, k)
           s == [i \in 0..k |-> r[i]]
<1>2. Len(q) \in Nat /\ k \in Nat /\ k <= Len(q) /\ Len(p) = k /\ \A i \in 1..k : p[i] = q[i]
  OBVIOUS
<1>3. /\ r \in [0..Len(q) -> Nat] /\ r[0] = a /\ r[Len(q)] = b
      /\ \A i, j \in 0..Len(q) : i <= j => r[i] <= r[j]
      /\ \A i \in 1..Len(q) : IF q[i].kind = "sealed" THEN q[i].n = r[i - 1] /\ r[i] = r[i - 1] + 1
                              ELSE r[i] = r[i - 1]
  BY <1>1 DEF Counts
<1>4. (\A i \in 0..k : i \in 0..Len(q)) /\ (\A i \in 1..k : i \in 1..Len(q) /\ i \in 0..k /\ i - 1 \in 0..k)
  BY <1>2
<1>9. s \in [0..k -> Nat] /\ \A i \in 0..k : s[i] = r[i]
  BY <1>3, <1>4
<1> HIDE DEF p, s
<1>5. \A i, j \in 0..k : i <= j => s[i] <= s[j]
  BY <1>3, <1>4, <1>9
<1>6. \A i \in 1..k : IF p[i].kind = "sealed" THEN p[i].n = s[i - 1] /\ s[i] = s[i - 1] + 1
                      ELSE s[i] = s[i - 1]
  BY <1>2, <1>3, <1>4, <1>9
<1>7. Counts(s, p, a, r[k])
  BY <1>2, <1>3, <1>4, <1>5, <1>6, <1>9 DEF Counts
<1>8. r[k] \in Nat /\ r[k] <= b
  BY <1>2, <1>3
<1> QED
  BY <1>7, <1>8 DEF Runs, p

\* A run without sealed frames ends at the number it began with.
LEMMA RunsOne ==
    ASSUME NEW q \in Seq(Letters), NEW a, NEW b, Runs(q, a, b), Plain(q)
    PROVE  a = b
<1>1. PICK r : Counts(r, q, a, b)
  BY DEF Runs
<1> DEFINE n == Len(q)
           S == {i \in 0..n : r[i] = a}
<1>2. n \in Nat /\ DOMAIN q = 1..n
  OBVIOUS
<1>3. r[0] = a /\ r[n] = b /\ \A i \in 1..n : r[i] = r[i - 1]
  BY <1>1, <1>2 DEF Counts, Plain
<1> HIDE DEF n
<1>4. 0 \in S
  BY <1>2, <1>3
<1>5. ASSUME NEW i \in 0..(n - 1), i \in S PROVE i + 1 \in S
  <2>1. i + 1 \in 1..n /\ i + 1 \in 0..n /\ (i + 1) - 1 = i
    BY <1>2
  <2> QED
    BY <2>1, <1>3, <1>5
<1>6. n \in S
  <2> HIDE DEF S
  <2> QED
    BY <1>2, <1>4, <1>5, Reaching
<1> QED
  BY <1>3, <1>6

(***************************************************************************)
(* What an end keeps in order, while messages are delivered inside it.     *)
(***************************************************************************)

EndType == [step : Steps, due : BOOLEAN, secure : BOOLEAN, closed : BOOLEAN,
            early : Seq(Letters), inbox : Seq(Letters), got : Seq(Nat), sent : Nat]

\* A frame that may be handed to a listener, when G are the text messages the other end may
\* have sent.
Fits(f, G) == f.kind = "sealed" \/ (f.kind = "text" /\ f.type \in G)

\* Up to a, what was sealed for this end was taken or waits in the inbox, in order.
Orderly(c, a, G) ==
    /\ c \in EndType
    /\ c.got = Counters(Len(c.got)) /\ Len(c.got) <= a
    /\ \A i \in DOMAIN c.inbox : Fits(c.inbox[i], G) /\ ~Listens(c, c.inbox[i].kind)
    /\ c.due => (c.step \in TextSteps \cap G) \/ (c.step \in SealedSteps /\ c.got # <<>>)
    /\ c.step = "failed" \/ Runs(c.inbox, Len(c.got), a)

\* What deliveries leave alone.
Follows(c, d) ==
    /\ d.secure = c.secure /\ d.early = c.early /\ d.sent = c.sent
    /\ d.step = c.step \/ (d.step = "failed" /\ c.step \notin {"serving", "over"})
    /\ c.closed => d.closed
    /\ Len(c.got) <= Len(d.got)
    /\ c.step \in TextSteps \cup {"failed"} => d.got = c.got

\* Counters(k) are the k numbers from 0 on, and k comes next.
LEMMA CountersAppend ==
    ASSUME NEW k \in Nat
    PROVE  /\ Append(Counters(k), k) = Counters(k + 1) /\ Len(Counters(k)) = k
           /\ Counters(k) \in Seq(Nat)
<1>1. Counters(k) \in Seq(Nat) /\ Len(Counters(k)) = k /\ \A i \in 1..k : Counters(k)[i] = i - 1
  BY DEF Counters
<1>2. Counters(k + 1) \in Seq(Nat) /\ Len(Counters(k + 1)) = k + 1
      /\ \A i \in 1..(k + 1) : Counters(k + 1)[i] = i - 1
  BY DEF Counters
<1> DEFINE s == Append(Counters(k), k)
           t == Counters(k + 1)
<1>3. s \in Seq(Nat) /\ Len(s) = k + 1 /\ (\A i \in 1..k : s[i] = i - 1) /\ s[k + 1] = k
  BY <1>1
<1>4. \A i \in 1..(k + 1) : s[i] = t[i]
  BY <1>2, <1>3
<1>5. s = t
  <2> HIDE DEF s, t
  <2> QED
    BY <1>2, <1>3, <1>4 DEF t
<1> QED
  BY <1>1, <1>5

\* One frame is delivered, the next in number if it is sealed.
LEMMA DeliveredOrderly ==
    ASSUME NEW c, NEW e \in Ends, NEW a, NEW b \in Nat, NEW G, Orderly(c, a, G),
           NEW f \in Letters, Fits(f, G), a \in Nat,
           IF f.kind = "sealed" THEN f.n = a /\ b = a + 1 ELSE b = a
    PROVE  Orderly(Delivered(c, e, f), b, G) /\ Follows(c, Delivered(c, e, f))
<1> DEFINE d == Delivered(c, e, f)
           k == Len(c.got)
<1>1. c \in EndType /\ c.inbox \in Seq(Letters) /\ c.got \in Seq(Nat) /\ c.got = Counters(k) /\ k \in Nat /\ k <= a
  BY DEF Orderly, EndType
<1>2. ASSUME ~Listens(c, f.kind)
      PROVE  Orderly(d, b, G) /\ Follows(c, d)
  <2>1. d = [c EXCEPT !.inbox = Append(c.inbox, f)]
    BY <1>2 DEF Delivered
  <2>2. /\ d \in EndType /\ d.got = c.got /\ d.inbox = Append(c.inbox, f) /\ d.step = c.step /\ d.due = c.due
        /\ d.secure = c.secure /\ d.early = c.early /\ d.sent = c.sent /\ d.closed = c.closed
    <3>1. Append(c.inbox, f) \in Seq(Letters)
      BY <1>1
    <3> HIDE DEF d
    <3> QED
      BY <1>1, <2>1, <3>1 DEF EndType
  <2>6. Follows(c, d)
    BY <1>1, <2>2 DEF Follows
  <2> HIDE DEF d
  <2>3. \A kind : Listens(d, kind) = Listens(c, kind)
    BY <2>2 DEF Listens
  <2>4. \A i \in DOMAIN d.inbox : d.inbox[i] = f \/ (i \in DOMAIN c.inbox /\ d.inbox[i] = c.inbox[i])
    BY <1>1, <2>2
  <2>5. c.step # "failed" => Runs(d.inbox, k, b)
    BY <1>1, <2>2, RunsAppend DEF Orderly
  <2> QED
    BY <1>1, <1>2, <2>2, <2>3, <2>4, <2>5, <2>6 DEF Orderly
<1>3. ASSUME Listens(c, f.kind)
      PROVE  Orderly(d, b, G) /\ Follows(c, d)
  <2> DEFINE took == IF f.kind = "sealed" THEN [c EXCEPT !.got = Append(c.got, f.n)] ELSE c
  <2>1. c.step # "failed" /\ Runs(c.inbox, k, a)
    BY <1>3 DEF Listens, Orderly, TextSteps, SealedSteps
  <2>2. f.kind = "sealed" => a = k
    <3> SUFFICES ASSUME f.kind = "sealed" PROVE a = k
      OBVIOUS
    <3>1. Plain(c.inbox)
      BY <1>3 DEF Orderly, Plain
    <3> QED
      BY <1>1, <2>1, <3>1, RunsOne
  <2>3. /\ took \in EndType /\ took.inbox = c.inbox /\ took.step = c.step /\ took.due = c.due
        /\ took.secure = c.secure /\ took.early = c.early /\ took.sent = c.sent /\ took.closed = c.closed
        /\ took.got = IF f.kind = "sealed" THEN Append(c.got, f.n) ELSE c.got
    <3>1. Append(c.got, f.n) \in Seq(Nat)
      BY <1>1 DEF Letters
    <3> QED
      BY <1>1, <3>1 DEF EndType
  <2>4. took.got = Counters(Len(took.got)) /\ Len(took.got) <= b /\ k <= Len(took.got)
    <3>1. CASE f.kind = "sealed"
      <4>1. took.got = Append(Counters(k), k) /\ b = k + 1
        BY <1>1, <2>2, <2>3, <3>1
      <4> HIDE DEF took, k
      <4>2. Append(Counters(k), k) = Counters(k + 1)
        BY <1>1, CountersAppend
      <4>3. k + 1 \in Nat /\ Len(Counters(k + 1)) = k + 1
        BY <1>1, CountersAppend
      <4> QED
        BY <1>1, <4>1, <4>2, <4>3
    <3>2. CASE f.kind # "sealed"
      BY <1>1, <3>2
    <3> QED
      BY <3>1, <3>2
  <2>5. Runs(c.inbox, Len(took.got), b)
    <3>1. CASE f.kind = "sealed"
      <4>1. Plain(c.inbox) /\ Len(took.got) = k + 1 /\ b = k + 1
        BY <1>1, <1>3, <2>2, <3>1 DEF Orderly, Plain, EndType
      <4> QED
        BY <1>1, <4>1, RunsPlain
    <3>2. CASE f.kind # "sealed"
      BY <2>1, <3>2
    <3> QED
      BY <3>1, <3>2
  <2>6. ~c.due /\ (f.kind = "sealed" => took.got # <<>> /\ c.step \notin TextSteps)
        /\ (f.kind # "sealed" => took = c /\ c.step \in TextSteps /\ f.type \in G)
    <3>1. ~c.due
      BY <1>3 DEF Listens, Orderly, TextSteps, SealedSteps
    <3>2. f.kind = "sealed" => took.got # <<>>
      BY <1>1 DEF EndType
    <3>3. f.kind = "sealed" => c.step \notin TextSteps
      BY <1>3 DEF Listens, TextSteps, SealedSteps
    <3>4. f.kind # "sealed" => took = c /\ c.step \in TextSteps /\ f.type \in G
      BY <1>3 DEF Listens, TextSteps, SealedSteps, Fits
    <3> QED
      BY <3>1, <3>2, <3>3, <3>4
  <2>7. d = Emit(c, e, f)
    BY <1>3 DEF Delivered
  <2>8. /\ c.step \in TextSteps \cup {"failed"} => took.got = c.got
        /\ c.step \in Steps
    BY <2>1, <2>6, <1>1 DEF EndType
  <2>9. CASE d = took
    <3>1. \A kind : Listens(d, kind) = Listens(c, kind)
      BY <2>9, <2>3 DEF Listens
    <3> HIDE DEF d, took
    <3>2. Orderly(d, b, G)
      BY <2>9, <2>3, <2>4, <2>5, <2>6, <3>1 DEF Orderly
    <3>3. Follows(c, d)
      BY <2>9, <2>3, <2>4, <2>8 DEF Follows
    <3> QED
      BY <3>2, <3>3
  <2>10. CASE c.step \notin {"serving", "over"} /\ f.type = c.step
    <3>1. d = [took EXCEPT !.due = TRUE]
      BY <2>7, <2>10 DEF Emit
    <3> HIDE DEF took
    <3>2. /\ d \in EndType /\ d.inbox = c.inbox /\ d.step = c.step /\ d.due = TRUE /\ d.got = took.got
          /\ d.secure = c.secure /\ d.early = c.early /\ d.sent = c.sent /\ d.closed = c.closed
      BY <2>3, <3>1 DEF EndType
    <3> HIDE DEF d
    <3>3. \A kind : ~Listens(d, kind)
      BY <2>10, <3>2 DEF Listens
    <3>4. (d.step \in TextSteps \cap G) \/ (d.step \in SealedSteps /\ d.got # <<>>)
      <4>1. CASE f.kind = "sealed"
        BY <4>1, <1>3, <2>6, <2>10, <3>2 DEF Listens
      <4>2. CASE f.kind # "sealed"
        BY <4>2, <2>6, <2>10, <3>2
      <4> QED
        BY <4>1, <4>2
    <3>5. Orderly(d, b, G)
      BY <2>3, <2>4, <2>5, <3>2, <3>3, <3>4 DEF Orderly
    <3>6. Follows(c, d)
      BY <2>4, <2>8, <3>2 DEF Follows
    <3> QED
      BY <3>5, <3>6
  <2>11. CASE d = Failed(took, e) /\ c.step \notin {"serving", "over"}
    <3> HIDE DEF took
    <3>1. /\ d \in EndType /\ d.inbox = c.inbox /\ d.step = "failed" /\ d.due = FALSE /\ d.got = took.got
          /\ d.secure = c.secure /\ d.early = c.early /\ d.sent = c.sent /\ (c.closed => d.closed)
      BY <2>3, <2>11 DEF EndType, Failed, Steps
    <3> HIDE DEF d
    <3>2. \A kind : ~Listens(d, kind)
      BY <3>1 DEF Listens, TextSteps, SealedSteps
    <3>3. Orderly(d, b, G)
      BY <2>3, <2>4, <3>1, <3>2 DEF Orderly
    <3>4. Follows(c, d)
      BY <2>4, <2>8, <2>11, <3>1 DEF Follows
    <3> QED
      BY <3>3, <3>4
  <2> QED
    <3> HIDE DEF d
    <3>1. d = took \/ (c.step \notin {"serving", "over"} /\ f.type = c.step)
          \/ (d = Failed(took, e) /\ c.step \notin {"serving", "over"})
      BY <2>7 DEF Emit
    <3> QED
      BY <2>9, <2>10, <2>11, <3>1
<1> QED
  BY <1>2, <1>3

\* Frames are delivered that go on where the inbox ends.
LEMMA ReplayOrderly ==
    ASSUME NEW c, NEW e \in Ends, NEW a, NEW b, NEW G, a \in Nat, Orderly(c, a, G),
           NEW q \in Seq(Letters), \A i \in DOMAIN q : Fits(q[i], G), Runs(q, a, b)
    PROVE  Orderly(DeliveredAll(c, e, q), b, G) /\ Follows(c, DeliveredAll(c, e, q))
<1>0. Len(q) \in Nat
  OBVIOUS
<1>2. PICK r : Counts(r, q, a, b)
  BY DEF Runs
<1>3. PICK d : /\ d[0] = c /\ DeliveredAll(c, e, q) = d[Len(q)]
               /\ \A i \in 1..Len(q) : d[i] = Delivered(d[i - 1], e, q[i])
  <2>1. Replayed(c, e, q)
    BY <1>0, Replays
  <2> QED
    BY <2>1 DEF Replayed
<1> DEFINE n == Len(q)
           S == {i \in 0..n : Orderly(d[i], r[i], G) /\ Follows(c, d[i])}
<1>1. n \in Nat /\ DOMAIN q = 1..n
  OBVIOUS
<1> HIDE DEF n
<1>4. /\ r[0] = a /\ r[n] = b /\ \A i \in 0..n : r[i] \in Nat
      /\ \A i \in 1..n : IF q[i].kind = "sealed" THEN q[i].n = r[i - 1] /\ r[i] = r[i - 1] + 1
                         ELSE r[i] = r[i - 1]
  BY <1>1, <1>2 DEF Counts, n
<1>5. d[0] = c /\ \A i \in 1..n : d[i] = Delivered(d[i - 1], e, q[i])
  BY <1>3 DEF n
<1>6. 0 \in S
  <2>1. Len(c.got) \in Nat
    BY DEF Orderly, EndType
  <2> QED
    BY <1>1, <1>4, <1>5, <2>1 DEF Follows
<1>7. ASSUME NEW i \in 0..(n - 1), i \in S PROVE i + 1 \in S
  <2>1. /\ i + 1 \in 1..n /\ i + 1 \in 0..n /\ (i + 1) - 1 = i /\ i \in 0..n
        /\ q[i + 1] \in Letters /\ Fits(q[i + 1], G)
    BY <1>1
  <2> DEFINE x == d[i]
             y == d[i + 1]
  <2>2. y = Delivered(x, e, q[i + 1]) /\ r[i] \in Nat /\ r[i + 1] \in Nat
        /\ IF q[i + 1].kind = "sealed" THEN q[i + 1].n = r[i] /\ r[i + 1] = r[i] + 1 ELSE r[i + 1] = r[i]
    BY <2>1, <1>4, <1>5
  <2>3. Orderly(x, r[i], G) /\ Follows(c, x)
    BY <1>7
  <2> HIDE DEF x, y
  <2>4. Orderly(y, r[i + 1], G) /\ Follows(x, y)
    BY <2>1, <2>2, <2>3, DeliveredOrderly
  <2>5. Follows(c, y)
    <3>1. Len(c.got) \in Nat
      BY DEF Orderly, EndType
    <3>2. Len(x.got) \in Nat
      BY <2>3 DEF Orderly, EndType
    <3>3. Len(y.got) \in Nat
      BY <2>4 DEF Orderly, EndType
    <3> QED
      BY <2>3, <2>4, <3>1, <3>2, <3>3 DEF Follows, TextSteps
  <2> QED
    BY <2>1, <2>4, <2>5 DEF y
<1>8. n \in S
  <2> HIDE DEF S
  <2> QED
    BY <1>1, <1>6, <1>7, Reaching
<1> QED
  BY <1>3, <1>4, <1>8 DEF n

\* The code behind an await waits for the next message: the inbox is handed out again.
LEMMA AwaitOrderly ==
    ASSUME NEW c, NEW e \in Ends, NEW a, NEW G, a \in Nat, Orderly(c, a, G), c.step # "failed",
           NEW step \in Steps \ {"failed"}
    PROVE  /\ Orderly(Await(c, e, step), a, G)
           /\ Follows([c EXCEPT !.step = step, !.due = FALSE], Await(c, e, step))
<1> DEFINE x == [c EXCEPT !.step = step, !.due = FALSE]
           y == [x EXCEPT !.inbox = <<>>]
           d == Await(c, e, step)
<1>1. c \in EndType /\ c.inbox \in Seq(Letters) /\ c.got \in Seq(Nat) /\ Len(c.got) \in Nat
  BY DEF Orderly, EndType
<1>2. d = DeliveredAll(y, e, c.inbox)
  BY <1>1 DEF Await, Flush, EndType
<1>3. /\ x \in EndType /\ x.got = c.got /\ x.step = step /\ x.due = FALSE /\ x.sent = c.sent
      /\ x.secure = c.secure /\ x.early = c.early /\ x.closed = c.closed
  BY <1>1 DEF EndType
<1> HIDE DEF x, d
<1>4. /\ y \in EndType /\ y.got = c.got /\ y.inbox = <<>> /\ y.due = FALSE /\ y.step = step
      /\ y.sent = c.sent /\ y.secure = c.secure /\ y.early = c.early /\ y.closed = c.closed
  <2>1. <<>> \in Seq(Letters)
    OBVIOUS
  <2> QED
    BY <1>3, <2>1 DEF EndType
<1> HIDE DEF y
<1>5. Orderly(y, Len(c.got), G)
  BY <1>1, <1>4, RunsNone DEF Orderly
<1>6. Runs(c.inbox, Len(c.got), a) /\ \A i \in DOMAIN c.inbox : Fits(c.inbox[i], G)
  BY DEF Orderly
<1>7. Orderly(d, a, G) /\ Follows(y, d)
  BY <1>1, <1>2, <1>5, <1>6, ReplayOrderly
<1>8. Follows(x, d)
  BY <1>3, <1>4, <1>7 DEF Follows
<1> QED
  BY <1>7, <1>8 DEF x, d

\* An end that fails, or has failed.
LEMMA FailedOrderly ==
    ASSUME NEW c, NEW e \in Ends, NEW a, NEW G, Orderly(c, a, G)
    PROVE  /\ Orderly(Failed(c, e), a, G)
           /\ Failed(c, e).step = "failed" /\ Failed(c, e).secure = c.secure
           /\ Failed(c, e).early = c.early /\ Failed(c, e).got = c.got /\ Failed(c, e).sent = c.sent
           /\ c.closed => Failed(c, e).closed
<1> DEFINE d == Failed(c, e)
<1>1. c \in EndType
  BY DEF Orderly
<1>2. /\ d \in EndType /\ d.inbox = c.inbox /\ d.step = "failed" /\ d.due = FALSE /\ d.got = c.got
      /\ d.secure = c.secure /\ d.early = c.early /\ d.sent = c.sent /\ (c.closed => d.closed)
  BY <1>1 DEF EndType, Failed, Steps
<1> HIDE DEF d
<1>3. \A kind : ~Listens(d, kind)
  BY <1>2 DEF Listens, TextSteps, SealedSteps
<1>4. Orderly(d, a, G)
  BY <1>2, <1>3 DEF Orderly
<1> QED
  BY <1>2, <1>4 DEF d

\* The keys are there: what came early goes to the inbox.
LEMMA UpgradeOrderly ==
    ASSUME NEW c, NEW e \in Ends, NEW a, NEW m, NEW G, a \in Nat, m \in Nat, a <= m,
           Orderly(c, a, G), Runs(c.early, a, m), c.step \in TextSteps
    PROVE  LET up == Upgrade(c, e) IN
           /\ Orderly(up, m, G) /\ up.secure /\ up.early = <<>> /\ up.sent = c.sent
           /\ up.step \in {c.step, "failed"} /\ up.got = c.got /\ (c.closed => up.closed)
<1> DEFINE x == [c EXCEPT !.secure = TRUE, !.early = <<>>]
           up == Upgrade(c, e)
<1>1. c \in EndType /\ c.early \in Seq(Letters) /\ c.inbox \in Seq(Letters) /\ Len(c.got) \in Nat
  BY DEF Orderly, EndType
<1>2. /\ x \in EndType /\ x.got = c.got /\ x.inbox = c.inbox /\ x.due = c.due /\ x.step = c.step /\ x.sent = c.sent
      /\ x.secure = TRUE /\ x.early = <<>> /\ x.closed = c.closed
  <2>1. <<>> \in Seq(Letters)
    OBVIOUS
  <2> QED
    BY <1>1, <2>1 DEF EndType
<1>3. up = IF \A i \in DOMAIN c.early : Opens(c.early[i]) THEN DeliveredAll(x, e, c.early) ELSE Failed(x, e)
  BY DEF Upgrade
<1> HIDE DEF x, up
<1>4. \A kind : Listens(x, kind) = Listens(c, kind)
  BY <1>2 DEF Listens
<1>5. Orderly(x, a, G)
  BY <1>2, <1>4 DEF Orderly
<1>6. CASE \A i \in DOMAIN c.early : Opens(c.early[i])
  <2>1. up = DeliveredAll(x, e, c.early)
    BY <1>3, <1>6
  <2>2. \A i \in DOMAIN c.early : Fits(c.early[i], G)
    BY <1>6 DEF Opens, Fits
  <2>3. Orderly(up, m, G) /\ Follows(x, up)
    BY <1>1, <1>5, <2>1, <2>2, ReplayOrderly
  <2> QED
    BY <1>2, <2>3 DEF Follows, up
<1>7. CASE ~\A i \in DOMAIN c.early : Opens(c.early[i])
  <2>1. up = Failed(x, e)
    BY <1>3, <1>7
  <2>2. Orderly(up, a, G) /\ up.step = "failed"
    BY <1>5, <2>1, FailedOrderly
  <2>3. Orderly(up, m, G)
    <3>1. Len(up.got) \in Nat
      BY <2>2 DEF Orderly, EndType
    <3> QED
      BY <2>2, <3>1 DEF Orderly
  <2>4. /\ up.secure = x.secure /\ up.early = x.early /\ up.got = x.got /\ up.sent = x.sent
        /\ x.closed => up.closed
    BY <1>5, <2>1, FailedOrderly
  <2> QED
    BY <1>2, <2>2, <2>3, <2>4 DEF up
<1> QED
  BY <1>6, <1>7

(***************************************************************************)
(* The invariant, in terms of both ends and of what is on its way.         *)
(***************************************************************************)

Trusted == {"target", "hardening", "password"} \subseteq agree

\* The text messages that may have been sent to e, when the peer is at step p.
Said(e, p) ==
    {t \in TextSteps \cup {"handshake_reject"} :
        IF e = "peer" THEN \/ t = "handshake_reject" \/ (t = "hello_ack" /\ "target" \in agree)
                           \/ (t = "pake_host" /\ {"target", "hardening"} \subseteq agree)
        ELSE \/ t = "hello" \/ (t = "pake_peer" /\ {"target", "hardening"} \subseteq agree)
             \/ (t = "pake_confirm" /\ {"target", "hardening"} \subseteq agree /\ p \notin TextSteps)}

\* What end e is by itself: keys only for who is trusted, and nothing sealed or taken before.
Settled(e, c, p) ==
    /\ IF c.secure
       THEN c.early = <<>> /\ c.step \notin TextSteps /\ Trusted /\ (e = "host" => p \notin TextSteps)
       ELSE c.step \in TextSteps \cup {"failed"} /\ c.got = <<>> /\ c.sent = 0
    /\ c.sent > (IF e = "host" THEN 0 ELSE 1) => c.step \in {"serving", "over"}
    /\ c.step \in {"serving", "over"} => c.got # <<>>

\* What comes to end e, from its inbox over #pendingBinary to the wire w, are the s messages
\* that were sealed for it, in order, as far as nothing was cut off.  Only the join of a
\* peer can be lost, when #pendingBinary of the host is full.
Toward(e, c, w, s, shut, G) ==
    /\ w \in Seq(Letters) /\ \A i \in DOMAIN w : w[i].kind = "text" => w[i].type \in G
    /\ \E a \in 0..s :
          /\ Orderly(c, a, G)
          /\ c.step # "failed" =>
                \E m, b \in 0..s : /\ Runs(c.early, a, m) /\ Runs(w, m, b)
                                   /\ b = s \/ shut \/ (e = "host" /\ c.got = <<>> /\ b = 0)

\* An end stays orderly when the other one may have said more.
LEMMA OrderlyMore ==
    ASSUME NEW c, NEW a, NEW G, NEW G2, Orderly(c, a, G), G \subseteq G2
    PROVE  Orderly(c, a, G2)
BY DEF Orderly, Fits

\* What comes to an end stays in order when the other one may have said more, or a close is on its way.
LEMMA TowardMore ==
    ASSUME NEW e, NEW c, NEW w, NEW s, NEW shut, NEW G, Toward(e, c, w, s, shut, G),
           NEW shut2, NEW G2, shut => shut2, G \subseteq G2
    PROVE  Toward(e, c, w, s, shut2, G2)
<1>1. PICK a \in 0..s :
         /\ Orderly(c, a, G)
         /\ c.step # "failed" =>
               \E m, b \in 0..s : /\ Runs(c.early, a, m) /\ Runs(w, m, b)
                                  /\ b = s \/ shut \/ (e = "host" /\ c.got = <<>> /\ b = 0)
  BY DEF Toward
<1>2. Orderly(c, a, G2)
  BY <1>1, OrderlyMore
<1> QED
  BY <1>1, <1>2 DEF Toward

\* The end itself goes on.
LEMMA TowardTurned ==
    ASSUME NEW e, NEW c, NEW w, NEW s \in Nat, NEW shut, NEW G, Toward(e, c, w, s, shut, G),
           NEW d, d.early = c.early, c.step = "failed" => d.step = "failed",
           \A a \in Nat : Orderly(c, a, G) => Orderly(d, a, G)
    PROVE  Toward(e, d, w, s, shut, G)
<1>1. PICK a \in 0..s :
         /\ Orderly(c, a, G)
         /\ c.step # "failed" =>
               \E m, b \in 0..s : /\ Runs(c.early, a, m) /\ Runs(w, m, b)
                                  /\ b = s \/ shut \/ (e = "host" /\ c.got = <<>> /\ b = 0)
  BY DEF Toward
<1>2. Orderly(d, a, G)
  BY <1>1
<1>3. ASSUME d.step # "failed"
      PROVE  \E m, b \in 0..s : /\ Runs(d.early, a, m) /\ Runs(w, m, b)
                                /\ b = s \/ shut \/ (e = "host" /\ d.got = <<>> /\ b = 0)
  <2>1. PICK m \in 0..s, b \in 0..s : /\ Runs(c.early, a, m) /\ Runs(w, m, b)
                                      /\ b = s \/ shut \/ (e = "host" /\ c.got = <<>> /\ b = 0)
    BY <1>1, <1>3
  <2>2. w \in Seq(Letters) /\ c.early \in Seq(Letters)
    BY <1>1 DEF Toward, Orderly, EndType
  <2>3. a <= m /\ m <= b
    BY <2>1, <2>2, RunsUp
  <2>4. b = 0 => d.got = <<>>
    <3>1. d.got \in Seq(Nat) /\ Len(d.got) <= a
      BY <1>2 DEF Orderly, EndType
    <3> QED
      BY <2>3, <3>1
  <2> QED
    BY <2>1, <2>4
<1> QED
  BY <1>2, <1>3 DEF Toward

\* The end gets its keys.
LEMMA TowardUpgraded ==
    ASSUME NEW e \in Ends, NEW c, NEW w, NEW s \in Nat, NEW shut, NEW G, Toward(e, c, w, s, shut, G),
           c.step \in TextSteps
    PROVE  LET up == Upgrade(c, e) IN
           /\ Toward(e, up, w, s, shut, G) /\ up.secure /\ up.early = <<>> /\ up.sent = c.sent
           /\ up.step \in {c.step, "failed"} /\ up.got = c.got /\ (c.closed => up.closed)
<1>1. c.step # "failed"
  BY DEF TextSteps
<1>2. PICK a \in 0..s, m \in 0..s, b \in 0..s :
         /\ Orderly(c, a, G) /\ Runs(c.early, a, m) /\ Runs(w, m, b)
         /\ b = s \/ shut \/ (e = "host" /\ c.got = <<>> /\ b = 0)
  BY <1>1 DEF Toward
<1>3. c.early \in Seq(Letters) /\ a <= m /\ a \in Nat /\ m \in Nat
  BY <1>2, RunsUp DEF Orderly, EndType
<1> DEFINE up == Upgrade(c, e)
<1>4. /\ Orderly(up, m, G) /\ up.secure /\ up.early = <<>> /\ up.sent = c.sent
      /\ up.step \in {c.step, "failed"} /\ up.got = c.got /\ (c.closed => up.closed)
  BY <1>2, <1>3, UpgradeOrderly
<1> HIDE DEF up
<1>5. Runs(up.early, m, m)
  BY <1>4, RunsNone
<1>6. Toward(e, up, w, s, shut, G)
  BY <1>2, <1>4, <1>5 DEF Toward
<1> QED
  BY <1>4, <1>6 DEF up

\* The end no longer hears what was on its way.
LEMMA TowardEmptied ==
    ASSUME NEW e, NEW c, NEW w, NEW s \in Nat, NEW shut, NEW G, Toward(e, c, w, s, shut, G)
    PROVE  Toward(e, c, <<>>, s, TRUE, G)
<1>1. PICK a \in 0..s :
         /\ Orderly(c, a, G)
         /\ c.step # "failed" => \E m \in 0..s : Runs(c.early, a, m)
  BY DEF Toward
<1>2. \A m \in 0..s : Runs(<<>>, m, m)
  BY RunsNone
<1>3. <<>> \in Seq(Letters) /\ DOMAIN <<>> = {}
  OBVIOUS
<1> QED
  BY <1>1, <1>2, <1>3 DEF Toward

\* What an end can become without a delivery.
LEMMA OrderlyLike ==
    ASSUME NEW c, NEW a, NEW G, Orderly(c, a, G), NEW d \in EndType,
           d.got = c.got, d.inbox = c.inbox, d.due = c.due,
           d.step = c.step \/ (c.step = "serving" /\ d.step = "over")
                           \/ (d.step = "failed" /\ ~c.due)
    PROVE  Orderly(d, a, G)
<1>1. CASE d.step = c.step \/ (c.step = "serving" /\ d.step = "over")
  <2>1. \A kind : Listens(d, kind) = Listens(c, kind)
    BY <1>1 DEF Listens, TextSteps, SealedSteps
  <2>2. d.due => d.step = c.step
    BY <1>1 DEF Orderly, TextSteps, SealedSteps
  <2> QED
    BY <1>1, <2>1, <2>2 DEF Orderly
<1>2. CASE d.step = "failed" /\ ~c.due
  <2>1. \A kind : ~Listens(d, kind)
    BY <1>2 DEF Listens, TextSteps, SealedSteps
  <2> QED
    BY <1>2, <2>1 DEF Orderly
<1> QED
  BY <1>1, <1>2

\* #fail, whether or not somebody listens, takes nothing and loses nothing.
LEMMA FaultedOrderly ==
    ASSUME NEW c, NEW e \in Ends, NEW a, NEW G, Orderly(c, a, G)
    PROVE  LET d == Faulted(c, e) IN
           /\ Orderly(d, a, G)
           /\ d.secure = c.secure /\ d.early = c.early /\ d.got = c.got /\ d.sent = c.sent
           /\ d.step = c.step \/ (d.step = "failed" /\ c.step \notin {"serving", "over"})
           /\ c.closed => d.closed
<1> DEFINE d == Faulted(c, e)
           x == Failed(c, e)
<1>1. c \in EndType
  BY DEF Orderly
<1>2. CASE d = c
  BY <1>2
<1>3. CASE d = [c EXCEPT !.closed = TRUE]
  <2>1. /\ d \in EndType /\ d.inbox = c.inbox /\ d.step = c.step /\ d.due = c.due /\ d.got = c.got
        /\ d.secure = c.secure /\ d.early = c.early /\ d.sent = c.sent /\ d.closed
    BY <1>1, <1>3 DEF EndType
  <2> HIDE DEF d
  <2>2. Orderly(d, a, G)
    BY <2>1, OrderlyLike
  <2> QED
    BY <2>1, <2>2 DEF d
<1>4. CASE d = [x EXCEPT !.closed = TRUE] /\ c.step \notin {"serving", "over"}
  <2>1. Orderly(x, a, G) /\ x.step = "failed" /\ x.secure = c.secure /\ x.early = c.early /\ x.got = c.got
        /\ x.sent = c.sent
    BY FailedOrderly
  <2> HIDE DEF x
  <2>2. /\ d \in EndType /\ d.inbox = x.inbox /\ d.step = x.step /\ d.due = x.due /\ d.got = x.got
        /\ d.secure = x.secure /\ d.early = x.early /\ d.sent = x.sent /\ d.closed
    BY <2>1, <1>4 DEF EndType, Orderly
  <2> HIDE DEF d
  <2>3. Orderly(d, a, G)
    BY <2>1, <2>2, OrderlyLike
  <2> QED
    BY <1>4, <2>1, <2>2, <2>3 DEF d
<1>5. d = c \/ d = [c EXCEPT !.closed = TRUE] \/ (d = [x EXCEPT !.closed = TRUE] /\ c.step \notin {"serving", "over"})
  BY DEF Faulted, Listens, TextSteps
<1> QED
  BY <1>2, <1>3, <1>4, <1>5

\* Once the head of the wire is gone and was nothing sealed, or was the join of a peer that
\* the host can never take.
LEMMA TowardDropped ==
    ASSUME NEW e \in Ends, NEW c, NEW w, NEW s \in Nat, NEW shut, NEW G, Toward(e, c, w, s, shut, G),
           w # <<>>,
           Head(w).kind = "sealed" /\ c.step # "failed" => e = "host" /\ c.got = <<>> /\ s <= 1
    PROVE  Toward(e, c, Tail(w), s, shut, G)
<1>1. PICK a \in 0..s :
         /\ Orderly(c, a, G)
         /\ c.step # "failed" =>
               \E m, b \in 0..s : /\ Runs(c.early, a, m) /\ Runs(w, m, b)
                                  /\ b = s \/ shut \/ (e = "host" /\ c.got = <<>> /\ b = 0)
  BY DEF Toward
<1>2. /\ w \in Seq(Letters) /\ Tail(w) \in Seq(Letters)
      /\ \A i \in DOMAIN Tail(w) : i + 1 \in DOMAIN w /\ Tail(w)[i] = w[i + 1]
  BY DEF Toward
<1>3. \A i \in DOMAIN Tail(w) : Tail(w)[i].kind = "text" => Tail(w)[i].type \in G
  BY <1>2 DEF Toward
<1>4. ASSUME c.step # "failed"
      PROVE  \E m, b \in 0..s : /\ Runs(c.early, a, m) /\ Runs(Tail(w), m, b)
                                /\ b = s \/ shut \/ (e = "host" /\ c.got = <<>> /\ b = 0)
  <2>1. PICK m \in 0..s, b \in 0..s : /\ Runs(c.early, a, m) /\ Runs(w, m, b)
                                      /\ b = s \/ shut \/ (e = "host" /\ c.got = <<>> /\ b = 0)
    BY <1>1, <1>4
  <2>2. CASE Head(w).kind # "sealed"
    <3>1. Runs(Tail(w), m, b)
      BY <1>2, <2>1, <2>2, RunsTail
    <3> QED
      BY <2>1, <3>1
  <2>3. CASE Head(w).kind = "sealed"
    <3>1. Runs(Tail(w), m + 1, b)
      BY <1>2, <2>1, <2>3, RunsTail
    <3>2. m + 1 <= b
      BY <1>2, <3>1, RunsUp
    <3>3. m = 0 /\ b = 1 /\ e = "host" /\ c.got = <<>>
      BY <1>4, <2>3, <3>2
    <3>4. Runs(Tail(w), 0, 0)
      <4>1. Runs(Tail(w), 1, 1) /\ 1 \in Nat /\ 0 \in Nat
        BY <3>1, <3>3
      <4>2. Plain(Tail(w))
        BY <1>2, <4>1, RunsPlain
      <4> QED
        BY <1>2, <4>1, <4>2, RunsPlain
    <3> QED
      BY <2>1, <3>3, <3>4
  <2> QED
    BY <2>2, <2>3
<1> QED
  BY <1>1, <1>2, <1>3, <1>4 DEF Toward

\* A frame arrives.
LEMMA TowardReceived ==
    ASSUME NEW e \in Ends, NEW c, NEW w, NEW s \in Nat, NEW shut, NEW G, Toward(e, c, w, s, shut, G),
           w # <<>>, NEW p, Settled(e, c, p),
           ~c.secure /\ c.step # "failed" => s = 0 \/ (e = "host" /\ s <= 1)
    PROVE  LET d == Received(c, e, Head(w)) IN
           /\ Toward(e, d, Tail(w), s, shut, G)
           /\ d.secure = c.secure /\ d.sent = c.sent /\ (c.secure => d.early = c.early)
           /\ d.step = c.step \/ (d.step = "failed" /\ c.step \notin {"serving", "over"})
           /\ c.closed => d.closed
           /\ Len(c.got) <= Len(d.got) /\ (~c.secure => d.got = c.got)
<1> DEFINE f == Head(w)
           d == Received(c, e, f)
           v == Tail(w)
<1>1. PICK a \in 0..s :
         /\ Orderly(c, a, G)
         /\ c.step # "failed" =>
               \E m, b \in 0..s : /\ Runs(c.early, a, m) /\ Runs(w, m, b)
                                  /\ b = s \/ shut \/ (e = "host" /\ c.got = <<>> /\ b = 0)
  BY DEF Toward
<1>2. /\ w \in Seq(Letters) /\ v \in Seq(Letters) /\ f \in Letters /\ f = w[1] /\ 1 \in DOMAIN w
      /\ \A i \in DOMAIN v : i + 1 \in DOMAIN w /\ v[i] = w[i + 1]
  BY DEF Toward
<1>3. /\ \A i \in DOMAIN v : v[i].kind = "text" => v[i].type \in G
      /\ f.kind = "text" => f.type \in G
  BY <1>2 DEF Toward
<1>4. c \in EndType /\ c.early \in Seq(Letters) /\ c.inbox \in Seq(Letters) /\ c.got \in Seq(Nat)
  BY <1>1 DEF Orderly, EndType
<1> HIDE DEF f, d, v
<1>5. ASSUME Fits(f, G), d = Delivered(c, e, f), c.secure <=> f.kind = "sealed"
      PROVE  Toward(e, d, v, s, shut, G) /\ Follows(c, d)
  <2>1. CASE c.step = "failed"
    <3>1. d = [c EXCEPT !.inbox = Append(c.inbox, f)]
      BY <1>5, <2>1 DEF Delivered, Listens, TextSteps, SealedSteps
    <3>2. Append(c.inbox, f) \in Seq(Letters)
      BY <1>2, <1>4
    <3>3. /\ d \in EndType /\ d.got = c.got /\ d.inbox = Append(c.inbox, f) /\ d.step = "failed" /\ d.due = c.due
          /\ d.secure = c.secure /\ d.early = c.early /\ d.sent = c.sent /\ d.closed = c.closed
      BY <1>4, <2>1, <3>1, <3>2 DEF EndType
    <3>4. \A kind : ~Listens(d, kind)
      BY <3>3 DEF Listens, TextSteps, SealedSteps
    <3>5. \A i \in DOMAIN d.inbox : d.inbox[i] = f \/ (i \in DOMAIN c.inbox /\ d.inbox[i] = c.inbox[i])
      BY <1>2, <1>4, <3>3
    <3>6. Orderly(d, a, G)
      BY <1>1, <1>5, <2>1, <3>3, <3>4, <3>5 DEF Orderly
    <3>7. Follows(c, d)
      BY <1>4, <2>1, <3>3 DEF Follows
    <3> QED
      BY <1>2, <1>3, <3>3, <3>6, <3>7 DEF Toward
  <2>2. CASE c.step # "failed"
    <3>1. PICK m \in 0..s, b \in 0..s : /\ Runs(c.early, a, m) /\ Runs(w, m, b)
                                        /\ b = s \/ shut \/ (e = "host" /\ c.got = <<>> /\ b = 0)
      BY <1>1, <2>2
    <3>2. CASE f.kind = "sealed"
      <4>1. c.early = <<>>
        BY <1>5, <3>2 DEF Settled
      <4>2. m = a
        BY <3>1, <4>1, RunsNone
      <4>3. f.n = a /\ Runs(v, a + 1, b)
        BY <1>2, <3>1, <3>2, <4>2, RunsTail DEF f, v
      <4>4. a + 1 <= b /\ a + 1 \in 0..s
        BY <1>2, <4>3, RunsUp
      <4>5. Orderly(d, a + 1, G) /\ Follows(c, d)
        <5>1. a \in Nat /\ a + 1 \in Nat /\ Orderly(c, a, G) /\ f \in Letters /\ Fits(f, G)
          BY <1>1, <1>2, <1>5
        <5>2. Orderly(Delivered(c, e, f), a + 1, G) /\ Follows(c, Delivered(c, e, f))
          BY <3>2, <4>3, <5>1, DeliveredOrderly
        <5> QED
          BY <1>5, <5>2
      <4>6. Runs(d.early, a + 1, a + 1)
        BY <4>1, <4>4, <4>5, RunsNone DEF Follows
      <4> QED
        BY <1>2, <1>3, <3>1, <4>3, <4>4, <4>5, <4>6 DEF Toward
    <3>3. CASE f.kind # "sealed"
      <4>1. Runs(v, m, b)
        BY <1>2, <3>1, <3>3, RunsTail DEF f, v
      <4>2. Orderly(d, a, G) /\ Follows(c, d)
        <5>1. a \in Nat /\ Orderly(c, a, G) /\ f \in Letters /\ Fits(f, G)
          BY <1>1, <1>2, <1>5
        <5>2. Orderly(Delivered(c, e, f), a, G) /\ Follows(c, Delivered(c, e, f))
          BY <3>3, <5>1, DeliveredOrderly
        <5> QED
          BY <1>5, <5>2
      <4>3. d.early = c.early /\ d.got = c.got
        BY <1>5, <3>3, <4>2 DEF Follows, Settled
      <4> QED
        BY <1>2, <1>3, <3>1, <4>1, <4>2, <4>3 DEF Toward
    <3> QED
      BY <3>2, <3>3
  <2> QED
    BY <2>1, <2>2
<1>6. ASSUME d = Faulted(c, e), f.kind = "sealed" => ~c.secure
      PROVE  /\ Toward(e, d, v, s, shut, G) /\ d.got = c.got
             /\ d.secure = c.secure /\ d.sent = c.sent /\ d.early = c.early
             /\ d.step = c.step \/ (d.step = "failed" /\ c.step \notin {"serving", "over"})
             /\ c.closed => d.closed
  <2>1. f.kind = "sealed" /\ c.step # "failed" => e = "host" /\ c.got = <<>> /\ s <= 1
    <3> SUFFICES ASSUME f.kind = "sealed", c.step # "failed" PROVE e = "host" /\ c.got = <<>> /\ s <= 1
      OBVIOUS
    <3>1. c.got = <<>>
      BY <1>6 DEF Settled
    <3>2. s # 0
      <4>1. PICK m \in 0..s, b \in 0..s : Runs(w, m, b)
        BY <1>1
      <4>2. Runs(v, m + 1, b)
        BY <1>2, <4>1, RunsTail DEF f, v
      <4>3. m + 1 <= b
        BY <1>2, <4>2, RunsUp
      <4> QED
        BY <4>3
    <3> QED
      BY <1>6, <3>1, <3>2
  <2>2. Toward(e, c, v, s, shut, G)
    BY <2>1, TowardDropped DEF f, v
  <2>3. \A x \in Nat : Orderly(c, x, G) => Orderly(d, x, G)
    BY <1>6, FaultedOrderly
  <2>4. /\ d.secure = c.secure /\ d.early = c.early /\ d.got = c.got /\ d.sent = c.sent
        /\ d.step = c.step \/ (d.step = "failed" /\ c.step \notin {"serving", "over"})
        /\ c.closed => d.closed
    BY <1>1, <1>6, FaultedOrderly
  <2>5. Toward(e, d, v, s, shut, G)
    BY <2>2, <2>3, <2>4, TowardTurned
  <2> QED
    BY <2>4, <2>5
<1>7. ASSUME d = [c EXCEPT !.early = Append(c.early, f)], ~c.secure
      PROVE  /\ Toward(e, d, v, s, shut, G) /\ d.got = c.got
             /\ d.secure = c.secure /\ d.sent = c.sent
             /\ d.step = c.step /\ c.closed = d.closed
  <2>1. Append(c.early, f) \in Seq(Letters)
    BY <1>2, <1>4
  <2>2. /\ d \in EndType /\ d.got = c.got /\ d.inbox = c.inbox /\ d.step = c.step /\ d.due = c.due
        /\ d.secure = c.secure /\ d.early = Append(c.early, f) /\ d.sent = c.sent /\ d.closed = c.closed
    BY <1>4, <1>7, <2>1 DEF EndType
  <2>3. Orderly(d, a, G)
    BY <1>1, <2>2, OrderlyLike
  <2>4. ASSUME d.step # "failed"
        PROVE  \E m, b \in 0..s : /\ Runs(d.early, a, m) /\ Runs(v, m, b)
                                  /\ b = s \/ shut \/ (e = "host" /\ d.got = <<>> /\ b = 0)
    <3>1. PICK m \in 0..s, b \in 0..s : /\ Runs(c.early, a, m) /\ Runs(w, m, b)
                                        /\ b = s \/ shut \/ (e = "host" /\ c.got = <<>> /\ b = 0)
      BY <1>1, <2>2, <2>4
    <3>2. CASE f.kind = "sealed"
      <4>1. f.n = m /\ Runs(v, m + 1, b)
        BY <1>2, <3>1, <3>2, RunsTail DEF f, v
      <4>2. m + 1 <= b /\ m + 1 \in 0..s
        BY <1>2, <4>1, RunsUp
      <4>3. Runs(d.early, a, m + 1)
        BY <1>2, <1>4, <2>2, <3>1, <3>2, <4>1, RunsAppend
      <4> QED
        BY <2>2, <3>1, <4>1, <4>2, <4>3
    <3>3. CASE f.kind # "sealed"
      <4>1. Runs(v, m, b)
        BY <1>2, <3>1, <3>3, RunsTail DEF f, v
      <4>2. Runs(d.early, a, m)
        BY <1>2, <1>4, <2>2, <3>1, <3>3, RunsAppend
      <4> QED
        BY <2>2, <3>1, <4>1, <4>2
    <3> QED
      BY <3>2, <3>3
  <2> QED
    BY <1>2, <1>3, <2>2, <2>3, <2>4 DEF Toward
<1>8. \/ Fits(f, G) /\ d = Delivered(c, e, f) /\ (c.secure <=> f.kind = "sealed")
      \/ d = Faulted(c, e) /\ (f.kind = "sealed" => ~c.secure)
      \/ d = [c EXCEPT !.early = Append(c.early, f)] /\ ~c.secure
  BY <1>3 DEF Received, Opens, Fits, d
<1>9. ~c.secure => c.step \in TextSteps \cup {"failed"}
  BY DEF Settled
<1>10. Len(c.got) \in Nat
  BY <1>4
<1> QED
  <2>1. CASE Fits(f, G) /\ d = Delivered(c, e, f) /\ (c.secure <=> f.kind = "sealed")
    BY <2>1, <1>5, <1>9 DEF Follows, d, f, v
  <2>2. CASE d = Faulted(c, e) /\ (f.kind = "sealed" => ~c.secure)
    BY <2>2, <1>6, <1>10 DEF d, f, v
  <2>3. CASE d = [c EXCEPT !.early = Append(c.early, f)] /\ ~c.secure
    BY <2>3, <1>7, <1>10 DEF d, f, v
  <2> QED
    BY <1>8, <2>1, <2>2, <2>3

\* The other end sends v, and sealed the messages from s on.
LEMMA TowardSent ==
    ASSUME NEW e, NEW c, NEW w, NEW s \in Nat, NEW shut, NEW G, Toward(e, c, w, s, shut, G),
           NEW v \in Seq(Letters), NEW t \in Nat, s <= t,
           \A i \in DOMAIN v : v[i].kind = "text" => v[i].type \in G,
           \/ Plain(v) /\ (t = s \/ shut)
           \/ ~shut /\ Runs(v, s, t) /\ (t = s \/ s = 0 \/ e = "peer" \/ c.got # <<>>)
    PROVE  Toward(e, c, w \o v, t, shut, G)
<1>1. PICK a \in 0..s :
         /\ Orderly(c, a, G)
         /\ c.step # "failed" =>
               \E m, b \in 0..s : /\ Runs(c.early, a, m) /\ Runs(w, m, b)
                                  /\ b = s \/ shut \/ (e = "host" /\ c.got = <<>> /\ b = 0)
  BY DEF Toward
<1> DEFINE z == w \o v
<1>2. /\ w \in Seq(Letters) /\ z \in Seq(Letters)
      /\ \A i \in DOMAIN z : (i \in DOMAIN w /\ z[i] = w[i])
                             \/ (i - Len(w) \in DOMAIN v /\ z[i] = v[i - Len(w)])
  BY DEF Toward
<1> HIDE DEF z
<1>3. \A i \in DOMAIN z : z[i].kind = "text" => z[i].type \in G
  BY <1>2 DEF Toward
<1>4. ASSUME c.step # "failed"
      PROVE  \E m, b \in 0..t : /\ Runs(c.early, a, m) /\ Runs(z, m, b)
                                /\ b = t \/ shut \/ (e = "host" /\ c.got = <<>> /\ b = 0)
  <2>1. PICK m \in 0..s, b \in 0..s : /\ Runs(c.early, a, m) /\ Runs(w, m, b)
                                      /\ b = s \/ shut \/ (e = "host" /\ c.got = <<>> /\ b = 0)
    BY <1>1, <1>4
  <2>2. m \in 0..t /\ b \in 0..t /\ b \in Nat
    OBVIOUS
  <2>3. CASE Plain(v) /\ (t = s \/ shut)
    <3>1. Runs(v, b, b)
      BY <2>2, <2>3, RunsPlain
    <3>2. Runs(z, m, b)
      BY <1>2, <2>1, <3>1, RunsOn DEF z
    <3> QED
      BY <2>1, <2>2, <2>3, <3>2
  <2>4. CASE b = s /\ Runs(v, s, t)
    <3>1. Runs(z, m, t)
      BY <1>2, <2>1, <2>4, RunsOn DEF z
    <3> QED
      BY <2>1, <2>2, <3>1
  <2>5. CASE e = "host" /\ c.got = <<>> /\ b = 0 /\ t = s /\ Runs(v, s, t)
    <3>1. Runs(v, 0, 0)
      <4>1. Plain(v)
        BY <2>5, RunsPlain
      <4> QED
        BY <4>1, RunsPlain
    <3>2. Runs(z, m, 0)
      BY <1>2, <2>1, <2>5, <3>1, RunsOn DEF z
    <3> QED
      BY <2>1, <2>2, <2>5, <3>2
  <2> QED
    BY <2>1, <2>3, <2>4, <2>5
<1>5. a \in 0..t
  OBVIOUS
<1> QED
  BY <1>1, <1>2, <1>3, <1>4, <1>5 DEF Toward, z

\* Nothing more goes between the ends.
Quiet(E, W) == \E e \in Ends : E[e].closed \/ \E i \in DOMAIN W[e] : W[e][i] = Gone

Holds(E, W) ==
    /\ E \in [Ends -> EndType] /\ W \in [Ends -> Seq(Letters)]
    /\ \A e \in Ends : Settled(e, E[e], E["peer"].step)
    /\ \A e \in Ends : Toward(e, E[e], W[e], E[Other(e)].sent, Quiet(E, W), Said(e, E["peer"].step))

\* What a step never undoes.
Forward(c, d) ==
    /\ c.secure => d.secure
    /\ c.closed => d.closed
    /\ c.sent <= d.sent /\ Len(c.got) <= Len(d.got)
    /\ c.step \notin TextSteps => d.step \notin TextSteps

\* The further the peer is, the more may have been said.
LEMMA SaidMore ==
    ASSUME NEW e, NEW p, NEW q, p \notin TextSteps => q \notin TextSteps
    PROVE  Said(e, p) \subseteq Said(e, q)
BY DEF Said

\* What the ends took tells what they sent.
LEMMA BothServe ==
    ASSUME NEW E, NEW W, Holds(E, W)
    PROVE  /\ E["peer"].sent > 1 => E["host"].sent > 0
           /\ \A e \in Ends : ~E[e].secure /\ E[e].step # "failed" =>
                 E[Other(e)].sent = 0 \/ (e = "host" /\ E[Other(e)].sent <= 1)
<1> DEFINE h == E["host"]
           p == E["peer"]
<1>1. h \in EndType /\ p \in EndType /\ Settled("host", h, p.step) /\ Settled("peer", p, p.step)
  BY DEF Holds, Ends
<1>2. \E a \in 0..h.sent : Orderly(p, a, Said("peer", p.step))
  BY DEF Holds, Toward, Ends, Other
<1>3. h.sent \in Nat /\ p.sent \in Nat /\ p.got \in Seq(Nat) /\ Len(p.got) <= h.sent
  BY <1>1, <1>2 DEF EndType, Orderly
<1> HIDE DEF h, p
<1>4. p.sent > 1 => h.sent > 0
  <2>1. p.got # <<>> => Len(p.got) > 0
    BY <1>3
  <2> QED
    BY <1>1, <1>3, <2>1 DEF Settled
<1>5. h.sent > 0 => h.got # <<>> /\ h.secure
  BY <1>1, <1>3 DEF Settled
<1>6. ~p.secure /\ p.step # "failed" => h.sent = 0
  BY <1>1, <1>3, <1>5 DEF Settled
<1>7. ~h.secure => p.sent <= 1
  BY <1>3, <1>4, <1>5
<1> QED
  BY <1>4, <1>5, <1>6, <1>7 DEF Ends, Other, h, p

Goes == Holds(end', wire') /\ \A i \in Ends : Forward(end[i], end'[i])

\* Once nothing goes between the ends, a move of one of them does not change that.
LEMMA QuietStays ==
    ASSUME Holds(end, wire), NEW e \in Ends, NEW o, o = Other(e), NEW d, NEW v \in Seq(Letters),
           end' = [end EXCEPT ![e] = d], wire'[o] = wire[o] \o v, end[e].closed => d.closed,
           d.closed \/ \A i \in DOMAIN wire[e] :
                          wire[e][i] = Gone => \E k \in DOMAIN wire'[e] : wire'[e][k] = Gone,
           Quiet(end, wire)
    PROVE  Quiet(end', wire')
<1>1. o \in Ends /\ o # e /\ Ends = {e, o}
  BY DEF Ends, Other
<1>2. end \in [Ends -> EndType] /\ wire \in [Ends -> Seq(Letters)] /\ end'[e] = d /\ end'[o] = end[o]
  BY <1>1 DEF Holds
<1>3. ASSUME NEW i \in DOMAIN wire[o] PROVE i \in DOMAIN wire'[o] /\ wire'[o][i] = wire[o][i]
  BY <1>1, <1>2
<1>4. PICK q \in Ends : end[q].closed \/ \E i \in DOMAIN wire[q] : wire[q][i] = Gone
  BY DEF Quiet
<1>5. CASE q = o
  BY <1>1, <1>2, <1>3, <1>4, <1>5 DEF Quiet
<1>6. CASE q = e
  BY <1>2, <1>4, <1>6 DEF Quiet
<1> QED
  BY <1>1, <1>5, <1>6

\* End e becomes d, and v goes to the other one.
LEMMA Moves ==
    ASSUME Holds(end, wire), NEW e \in Ends, NEW o, o = Other(e), NEW d \in EndType, NEW v \in Seq(Letters),
           end' = [end EXCEPT ![e] = d], wire' \in [Ends -> Seq(Letters)], wire'[o] = wire[o] \o v,
           Quiet(end, wire) => Quiet(end', wire'), Forward(end[e], d), Settled(e, d, end'["peer"].step),
           Toward(e, d, wire'[e], end[o].sent, Quiet(end', wire'), Said(e, end["peer"].step)),
           \A i \in DOMAIN v : v[i].kind = "text" => v[i].type \in Said(o, end'["peer"].step),
           \/ Plain(v) /\ (d.sent = end[e].sent \/ Quiet(end, wire))
           \/ ~Quiet(end, wire) /\ Runs(v, end[e].sent, d.sent)
    PROVE  Goes
<1>1. o \in Ends /\ o # e /\ Other(o) = e /\ Ends = {e, o} /\ "peer" \in {e, o} /\ "host" \in {e, o}
  BY DEF Ends, Other
<1>2. end \in [Ends -> EndType] /\ wire \in [Ends -> Seq(Letters)] /\ end' \in [Ends -> EndType] /\ end'[e] = d /\ end'[o] = end[o]
  BY <1>1 DEF Holds
<1>3. end[e].sent \in Nat /\ d.sent \in Nat /\ end[o].sent \in Nat /\ end[e].sent <= d.sent
      /\ end[o].got \in Seq(Nat) /\ d.got \in Seq(Nat) /\ Len(end[o].got) \in Nat
  BY <1>1, <1>2 DEF EndType, Forward
<1>4. end["peer"].step \notin TextSteps => end'["peer"].step \notin TextSteps
  BY <1>1, <1>2 DEF Forward
<1>5. \A i \in Ends : Said(i, end["peer"].step) \subseteq Said(i, end'["peer"].step)
  BY <1>4, SaidMore
<1>6. \A i \in Ends : Forward(end[i], end'[i])
  BY <1>1, <1>2, <1>3 DEF Forward
<1>7. Settled(o, end'[o], end'["peer"].step)
  <2>1. Settled(o, end[o], end["peer"].step)
    BY <1>1 DEF Holds
  <2> QED
    BY <1>2, <1>4, <2>1 DEF Settled
<1>8. Toward(e, end'[e], wire'[e], end'[o].sent, Quiet(end', wire'), Said(e, end'["peer"].step))
  BY <1>1, <1>2, <1>5, TowardMore
<1> DEFINE shut == Quiet(end, wire)
           G == Said(o, end'["peer"].step)
<1>9. Toward(o, end[o], wire[o], end[e].sent, shut, G)
  <2>1. Toward(o, end[o], wire[o], end[e].sent, shut, Said(o, end["peer"].step))
    BY <1>1 DEF Holds
  <2>2. Said(o, end["peer"].step) \subseteq G
    BY <1>1, <1>5
  <2> HIDE DEF shut, G
  <2> QED
    BY <2>1, <2>2, TowardMore
<1>10. d.sent = end[e].sent \/ end[e].sent = 0 \/ o = "peer" \/ end[o].got # <<>>
  <2> SUFFICES ASSUME d.sent > end[e].sent, end[e].sent > 0, e = "peer", end[o].got = <<>> PROVE FALSE
    BY <1>1, <1>3 DEF Ends, Other
  <2>1. o = "host" /\ d.sent > 1 /\ d.got # <<>>
    BY <1>3 DEF Other, Settled
  <2>2. Len(d.got) <= end[o].sent
    BY <1>3 DEF Toward, Orderly
  <2>3. end[o].sent > 0
    BY <1>3, <2>1, <2>2
  <2> QED
    BY <1>2, <1>3, <1>7, <2>1, <2>3 DEF Settled
<1>11. Toward(o, end[o], wire'[o], d.sent, shut, G)
  <2> HIDE DEF shut, G
  <2>1. \/ Plain(v) /\ (d.sent = end[e].sent \/ shut)
        \/ ~shut /\ Runs(v, end[e].sent, d.sent)
           /\ (d.sent = end[e].sent \/ end[e].sent = 0 \/ o = "peer" \/ end[o].got # <<>>)
    BY <1>10 DEF shut
  <2>2. \A i \in DOMAIN v : v[i].kind = "text" => v[i].type \in G
    BY DEF G
  <2>3. Toward(o, end[o], wire[o] \o v, d.sent, shut, G)
    BY <1>3, <1>9, <2>1, <2>2, TowardSent
  <2> QED
    BY <2>3
<1>12. shut => Quiet(end', wire')
  OBVIOUS
<1>13. Toward(o, end'[o], wire'[o], end'[e].sent, Quiet(end', wire'), G)
  BY <1>2, <1>11, <1>12, TowardMore
<1>14. \A i \in Ends : Settled(i, end'[i], end'["peer"].step)
  BY <1>1, <1>2, <1>7
<1>15. \A i \in Ends : Toward(i, end'[i], wire'[i], end'[Other(i)].sent, Quiet(end', wire'), Said(i, end'["peer"].step))
  BY <1>1, <1>8, <1>13
<1> QED
  BY <1>2, <1>6, <1>14, <1>15 DEF Holds, Goes

(***************************************************************************)
(* The moves of an end, and what they do to what comes to it.              *)
(***************************************************************************)

\* The code behind an await goes on: what comes to the end stays in order.
LEMMA TowardAwait ==
    ASSUME NEW e \in Ends, NEW c, NEW w, NEW s \in Nat, NEW shut, NEW G, Toward(e, c, w, s, shut, G),
           c.step # "failed", NEW step \in Steps \ {"failed"}
    PROVE  LET d == Await(c, e, step) IN
           /\ Toward(e, d, w, s, shut, G) /\ d \in EndType
           /\ d.secure = c.secure /\ d.early = c.early /\ d.sent = c.sent
           /\ d.step = step \/ (d.step = "failed" /\ step \notin {"serving", "over"})
           /\ c.closed => d.closed
           /\ Len(c.got) <= Len(d.got) /\ (c.got # <<>> => d.got # <<>>)
           /\ step \in TextSteps => d.got = c.got
<1> DEFINE d == Await(c, e, step)
           x == [c EXCEPT !.step = step, !.due = FALSE]
<1>1. PICK a \in Nat : Orderly(c, a, G)
  BY DEF Toward
<1>2. c \in EndType /\ c.got \in Seq(Nat)
  BY <1>1 DEF Orderly, EndType
<1>3. \A i \in Nat : Orderly(c, i, G) => Orderly(d, i, G)
  BY AwaitOrderly
<1>4. Follows(x, d)
  BY <1>1, AwaitOrderly
<1>5. d \in EndType /\ d.got \in Seq(Nat)
  BY <1>1, <1>3 DEF Orderly, EndType
<1>6. /\ x.got = c.got /\ x.step = step /\ x.sent = c.sent
      /\ x.secure = c.secure /\ x.early = c.early /\ x.closed = c.closed
  BY <1>2 DEF EndType
<1> HIDE DEF d, x
<1>7. /\ d.secure = c.secure /\ d.early = c.early /\ d.sent = c.sent
      /\ d.step = step \/ (d.step = "failed" /\ step \notin {"serving", "over"})
      /\ c.closed => d.closed
      /\ Len(c.got) <= Len(d.got)
      /\ step \in TextSteps => d.got = c.got
  BY <1>4, <1>6 DEF Follows
<1>8. c.got # <<>> => d.got # <<>>
  BY <1>2, <1>5, <1>7
<1>9. Toward(e, d, w, s, shut, G)
  BY <1>3, <1>7, TowardTurned
<1> QED
  BY <1>5, <1>7, <1>8, <1>9 DEF d

\* An end gives up: what comes to it no longer matters.
LEMMA TowardFailed ==
    ASSUME NEW e \in Ends, NEW c, NEW w, NEW s \in Nat, NEW shut, NEW G, Toward(e, c, w, s, shut, G)
    PROVE  LET d == Failed(c, e) IN
           /\ Toward(e, d, w, s, shut, G) /\ d \in EndType
           /\ d.secure = c.secure /\ d.early = c.early /\ d.sent = c.sent /\ d.got = c.got
           /\ d.step = "failed" /\ (c.closed => d.closed)
<1> DEFINE d == Failed(c, e)
<1>1. PICK a \in Nat : Orderly(c, a, G)
  BY DEF Toward
<1>2. \A i \in Nat : Orderly(c, i, G) => Orderly(d, i, G)
  BY FailedOrderly
<1>3. /\ d.secure = c.secure /\ d.early = c.early /\ d.sent = c.sent /\ d.got = c.got
      /\ d.step = "failed" /\ (c.closed => d.closed)
  BY <1>1, FailedOrderly
<1>4. d \in EndType
  BY <1>1, <1>2 DEF Orderly
<1> HIDE DEF d
<1>5. Toward(e, d, w, s, shut, G)
  BY <1>2, <1>3, TowardTurned
<1> QED
  BY <1>3, <1>4, <1>5 DEF d

\* An end that only counts, closes, or goes from serving to over or to failed.
LEMMA TowardLike ==
    ASSUME NEW e \in Ends, NEW c, NEW w, NEW s \in Nat, NEW shut, NEW G, Toward(e, c, w, s, shut, G),
           NEW d \in EndType, d.got = c.got, d.inbox = c.inbox, d.due = c.due, d.early = c.early,
           d.step = c.step \/ (c.step = "serving" /\ d.step = "over")
                           \/ (d.step = "failed" /\ ~c.due)
    PROVE  Toward(e, d, w, s, shut, G)
<1>1. \A i \in Nat : Orderly(c, i, G) => Orderly(d, i, G)
  BY OrderlyLike
<1>2. c.step = "failed" => d.step = "failed"
  OBVIOUS
<1> QED
  BY <1>1, <1>2, TowardTurned

\* What the invariant says of one end.
LEMMA Knows ==
    ASSUME Holds(end, wire), NEW e \in Ends, NEW o, o = Other(e)
    PROVE  LET c == end[e]  p == end["peer"].step IN
           /\ c \in EndType /\ Settled(e, c, p) /\ c.sent \in Nat /\ c.got \in Seq(Nat) /\ Len(c.got) \in Nat
           /\ end[o].sent \in Nat
           /\ Toward(e, c, wire[e], end[o].sent, Quiet(end, wire), Said(e, p))
           /\ c.due => (c.step \in TextSteps /\ c.step \in Said(e, p)) \/ (c.step \in SealedSteps /\ c.got # <<>>)
<1>1. o \in Ends
  BY DEF Ends, Other
<1>2. /\ end[e] \in EndType /\ end[o] \in EndType /\ Settled(e, end[e], end["peer"].step)
      /\ Toward(e, end[e], wire[e], end[o].sent, Quiet(end, wire), Said(e, end["peer"].step))
  BY <1>1 DEF Holds
<1>3. \E a : Orderly(end[e], a, Said(e, end["peer"].step))
  BY <1>2 DEF Toward
<1>4. end[e].due => \/ end[e].step \in TextSteps /\ end[e].step \in Said(e, end["peer"].step)
                    \/ end[e].step \in SealedSteps /\ end[e].got # <<>>
  BY <1>3 DEF Orderly
<1>5. end[e].sent \in Nat /\ end[e].got \in Seq(Nat) /\ end[o].sent \in Nat
  BY <1>2 DEF EndType
<1> QED
  BY <1>2, <1>4, <1>5

\* Moves, for the actions that are written with Becomes: closing adds a Gone, and nothing is
\* sent over what is closed.
LEMMA BecomesMoves ==
    ASSUME Holds(end, wire), NEW e \in Ends, NEW o, o = Other(e),
           NEW d \in EndType, NEW frames \in Seq(Letters), Becomes(e, d, frames),
           Forward(end[e], d), Settled(e, d, end["peer"].step),
           Toward(e, d, wire[e], end[o].sent, Quiet(end, wire), Said(e, end["peer"].step)),
           \A i \in DOMAIN frames : frames[i].kind = "text" => frames[i].type \in Said(o, d.step),
           Runs(frames, end[e].sent, d.sent)
    PROVE  Goes
<1> DEFINE out == IF Shut THEN <<>>
                  ELSE IF d.closed THEN Append(frames, Gone) ELSE frames
           w == IF e = "host" /\ d.closed THEN <<>> ELSE wire[e]
<1>1. /\ end' = [end EXCEPT ![e] = d]
      /\ wire' = [wire EXCEPT ![o] = wire[o] \o out, ![e] = IF e = "host" /\ d.closed THEN <<>> ELSE @]
  BY DEF Becomes
<1>2. o \in Ends /\ o # e /\ Ends = {e, o} /\ (e = "peer" \/ o = "peer") /\ (e = "host" \/ o = "host")
  BY DEF Ends, Other
<1>3. Gone \in Letters /\ Gone.kind = "gone"
  BY DEF Gone, Letters
<1>4. out \in Seq(Letters)
  <2>1. <<>> \in Seq(Letters) /\ Append(frames, Gone) \in Seq(Letters)
    BY <1>3
  <2> QED
    BY <2>1
<1>5. Shut <=> Quiet(end, wire)
  BY DEF Quiet, Shut
<1>6. \/ Plain(out) /\ Quiet(end, wire)
      \/ ~Quiet(end, wire) /\ Runs(out, end[e].sent, d.sent)
  <2>1. CASE Quiet(end, wire)
    <3>1. out = <<>>
      BY <1>5, <2>1
    <3> QED
      BY <2>1, <3>1 DEF Plain
  <2>2. CASE ~Quiet(end, wire)
    <3>1. out = IF d.closed THEN Append(frames, Gone) ELSE frames
      BY <1>5, <2>2
    <3> HIDE DEF out
    <3>2. Runs(out, end[e].sent, d.sent)
      BY <1>3, <3>1, RunsAppend
    <3> QED
      BY <2>2, <3>2
  <2> QED
    BY <2>1, <2>2
<1>7. \A i \in DOMAIN out : out[i].kind = "text" => out[i].type \in Said(o, d.step)
  <2>1. \A i \in DOMAIN Append(frames, Gone) : Append(frames, Gone)[i] = Gone
                                               \/ (i \in DOMAIN frames /\ Append(frames, Gone)[i] = frames[i])
    BY <1>3
  <2> QED
    BY <1>3, <2>1
<1>8. wire \in [Ends -> Seq(Letters)] /\ end \in [Ends -> EndType]
  BY DEF Holds
<1> HIDE DEF out
<1>9. wire' \in [Ends -> Seq(Letters)] /\ wire'[e] = w /\ wire'[o] = wire[o] \o out
  <2>1. wire[o] \o out \in Seq(Letters) /\ <<>> \in Seq(Letters)
    BY <1>2, <1>4, <1>8
  <2> QED
    BY <1>1, <1>2, <1>8, <2>1
<1>10. end'[e] = d /\ end'[o] = end[o]
  BY <1>1, <1>2, <1>8
<1>11. Said(o, d.step) = Said(o, end'["peer"].step)
  BY <1>2, <1>10 DEF Said
<1>12. Settled(e, d, end'["peer"].step)
  BY <1>2, <1>10 DEF Settled
<1>q. Quiet(end, wire) => Quiet(end', wire')
  <2>1. d.closed \/ wire'[e] = wire[e]
    BY <1>9
  <2>2. end[e].closed => d.closed
    BY DEF Forward
  <2> QED
    BY <1>1, <1>4, <1>9, <2>1, <2>2, QuietStays
<1>13. Toward(e, d, w, end[o].sent, Quiet(end', wire'), Said(e, end["peer"].step))
  <2>0. end[o].sent \in Nat
    BY Knows
  <2>1. CASE e = "host" /\ d.closed
    <3>1. w = <<>> /\ Quiet(end', wire')
      BY <1>2, <1>10, <2>1 DEF Quiet
    <3>2. Toward(e, d, <<>>, end[o].sent, TRUE, Said(e, end["peer"].step))
      BY <2>0, TowardEmptied
    <3> QED
      BY <3>1, <3>2, TowardMore
  <2>2. CASE ~(e = "host" /\ d.closed)
    <3>1. w = wire[e]
      BY <2>2
    <3> HIDE DEF w
    <3> QED
      BY <1>q, <3>1, TowardMore
  <2> QED
    BY <2>1, <2>2
<1> HIDE DEF w
<1>14. /\ \A i \in DOMAIN out : out[i].kind = "text" => out[i].type \in Said(o, end'["peer"].step)
       /\ \/ Plain(out) /\ (d.sent = end[e].sent \/ Quiet(end, wire))
          \/ ~Quiet(end, wire) /\ Runs(out, end[e].sent, d.sent)
  BY <1>6, <1>7, <1>11
<1> QED
  BY <1>1, <1>4, <1>9, <1>12, <1>13, <1>14, <1>q, Moves

\* A text message is a frame that counts for nothing.
LEMMA OneText ==
    ASSUME NEW t \in TextSteps \cup {"handshake_reject"}
    PROVE  /\ <<Text(t)>> \in Seq(Letters) /\ Plain(<<Text(t)>>) /\ \A k \in Nat : Runs(<<Text(t)>>, k, k)
           /\ \A i \in DOMAIN <<Text(t)>> : <<Text(t)>>[i].kind = "text" => <<Text(t)>>[i].type = t
<1>1. Text(t) \in Letters /\ Text(t).kind = "text" /\ Text(t).type = t
  BY DEF Text, Letters
<1> DEFINE q == <<Text(t)>>
<1>2. q \in Seq(Letters) /\ DOMAIN q = {1} /\ q[1] = Text(t)
  BY <1>1
<1> HIDE DEF q
<1>3. Plain(q)
  BY <1>1, <1>2 DEF Plain
<1>4. \A k \in Nat : Runs(q, k, k)
  BY <1>2, <1>3, RunsPlain
<1> QED
  BY <1>1, <1>2, <1>3, <1>4 DEF q

\* No frames at all.
LEMMA Nothing ==
    /\ <<>> \in Seq(Letters) /\ \A k \in Nat : Runs(<<>>, k, k)
    /\ DOMAIN <<>> = {}
<1>1. \A k \in Nat : Runs(<<>>, k, k)
  BY RunsNone
<1> QED
  BY <1>1

\* A sealed frame counts one.
LEMMA OneSealed ==
    ASSUME NEW t \in SealedSteps \cup {"rejected", "data"}, NEW k \in Nat
    PROVE  /\ Sealed(t, k) \in Letters /\ Sealed(t, k).kind = "sealed" /\ Sealed(t, k).n = k
           /\ <<Sealed(t, k)>> \in Seq(Letters) /\ Runs(<<Sealed(t, k)>>, k, k + 1)
           /\ \A i \in DOMAIN <<Sealed(t, k)>> : <<Sealed(t, k)>>[i].kind # "text"
<1>1. Sealed(t, k) \in Letters /\ Sealed(t, k).kind = "sealed" /\ Sealed(t, k).n = k
  BY DEF Sealed, Letters
<1>2. Append(<<>>, Sealed(t, k)) = <<Sealed(t, k)>>
  BY <1>1
<1>3. Runs(Append(<<>>, Sealed(t, k)), k, k + 1)
  BY <1>1, Nothing, RunsAppend
<1> QED
  BY <1>1, <1>2, <1>3

\* An end fails, and perhaps says a last text message.
LEMMA FailsGoes ==
    ASSUME Holds(end, wire), NEW e \in Ends, NEW o, o = Other(e), NEW c, c = end[e],
           c.step \notin {"serving", "over"}, NEW frames \in Seq(Letters), Plain(frames),
           \A i \in DOMAIN frames : frames[i].kind = "text" => frames[i].type \in Said(o, "failed"),
           Becomes(e, Failed(c, e), frames)
    PROVE  Goes
<1> DEFINE d == Failed(c, e)
<1>1. /\ c \in EndType /\ Settled(e, c, end["peer"].step) /\ c.sent \in Nat /\ Len(c.got) \in Nat
      /\ end[o].sent \in Nat
      /\ Toward(e, c, wire[e], end[o].sent, Quiet(end, wire), Said(e, end["peer"].step))
  BY Knows
<1>2. /\ Toward(e, d, wire[e], end[o].sent, Quiet(end, wire), Said(e, end["peer"].step)) /\ d \in EndType
      /\ d.secure = c.secure /\ d.early = c.early /\ d.sent = c.sent /\ d.got = c.got
      /\ d.step = "failed" /\ (c.closed => d.closed)
  BY <1>1, TowardFailed
<1> HIDE DEF d
<1>3. Forward(c, d)
  BY <1>1, <1>2 DEF Forward, TextSteps
<1>4. Settled(e, d, end["peer"].step)
  BY <1>1, <1>2 DEF Settled, TextSteps
<1>5. Runs(frames, c.sent, d.sent)
  BY <1>1, <1>2, RunsPlain
<1> QED
  BY <1>2, <1>3, <1>4, <1>5, BecomesMoves DEF d

\* SendData preserves the invariant: the frame has the next number.
LEMMA SendDataGoes ==
    ASSUME Holds(end, wire), NEW e \in Ends, SendData(e)
    PROVE  Goes
<1> DEFINE c == end[e]
           o == Other(e)
           d == [c EXCEPT !.sent = c.sent + 1]
<1>1. /\ c \in EndType /\ Settled(e, c, end["peer"].step) /\ c.sent \in Nat /\ Len(c.got) \in Nat
      /\ end[o].sent \in Nat
      /\ Toward(e, c, wire[e], end[o].sent, Quiet(end, wire), Said(e, end["peer"].step))
  BY Knows
<1>2. c.step = "serving" /\ Becomes(e, d, <<Sealed("data", c.sent)>>)
  BY DEF SendData
<1>3. /\ d \in EndType /\ d.secure = c.secure /\ d.early = c.early /\ d.sent = c.sent + 1 /\ d.got = c.got
      /\ d.step = c.step /\ d.closed = c.closed /\ d.inbox = c.inbox /\ d.due = c.due
  <2>1. c.sent + 1 \in Nat
    BY <1>1
  <2> HIDE DEF c
  <2> QED
    BY <1>1, <2>1 DEF EndType
<1> HIDE DEF c, d, o
<1>4. Toward(e, d, wire[e], end[o].sent, Quiet(end, wire), Said(e, end["peer"].step))
  BY <1>1, <1>3, TowardLike
<1>5. Forward(c, d)
  BY <1>1, <1>3 DEF Forward
<1>6. Settled(e, d, end["peer"].step)
  BY <1>1, <1>2, <1>3 DEF Settled, TextSteps
<1>7. <<Sealed("data", c.sent)>> \in Seq(Letters) /\ Runs(<<Sealed("data", c.sent)>>, c.sent, d.sent)
      /\ \A i \in DOMAIN <<Sealed("data", c.sent)>> : <<Sealed("data", c.sent)>>[i].kind # "text"
  <2>1. "data" \in SealedSteps \cup {"rejected", "data"} /\ c.sent \in Nat
    BY <1>1
  <2> QED
    BY <1>3, <2>1, OneSealed
<1> QED
  BY <1>2, <1>3, <1>4, <1>5, <1>6, <1>7, BecomesMoves DEF c, o

\* An end that says nothing more.
LEMMA EndsGoes ==
    ASSUME Holds(end, wire), NEW e \in Ends, NEW c, c = end[e], NEW d \in EndType, Becomes(e, d, <<>>),
           d.secure = c.secure, d.early = c.early, d.sent = c.sent, d.got = c.got,
           d.inbox = c.inbox, d.due = c.due, c.closed => d.closed,
           d.step = c.step \/ (c.step = "serving" /\ d.step = "over")
    PROVE  Goes
<1> DEFINE o == Other(e)
<1>1. /\ c \in EndType /\ Settled(e, c, end["peer"].step) /\ c.sent \in Nat /\ Len(c.got) \in Nat
      /\ end[o].sent \in Nat
      /\ Toward(e, c, wire[e], end[o].sent, Quiet(end, wire), Said(e, end["peer"].step))
  BY Knows
<1> HIDE DEF o
<1>2. Toward(e, d, wire[e], end[o].sent, Quiet(end, wire), Said(e, end["peer"].step))
  BY <1>1, TowardLike
<1>3. Forward(c, d)
  BY <1>1 DEF Forward, TextSteps
<1>4. Settled(e, d, end["peer"].step)
  BY <1>1 DEF Settled, TextSteps
<1>5. Runs(<<>>, c.sent, d.sent)
  BY <1>1, Nothing
<1> QED
  BY <1>2, <1>3, <1>4, <1>5, Nothing, BecomesMoves DEF o

\* HeartbeatDies preserves the invariant.
LEMMA HeartbeatDiesGoes ==
    ASSUME Holds(end, wire), NEW e \in Ends, HeartbeatDies(e)
    PROVE  Goes
<1> DEFINE c == end[e]
<1>1. c \in EndType /\ c.step = "serving"
  BY Knows DEF HeartbeatDies
<1>2. PICK d : d \in {[c EXCEPT !.closed = TRUE, !.step = "over"], [c EXCEPT !.step = "over"]} /\ Becomes(e, d, <<>>)
  BY DEF HeartbeatDies
<1> HIDE DEF c
<1>3. /\ d \in EndType /\ d.secure = c.secure /\ d.early = c.early /\ d.sent = c.sent /\ d.got = c.got
      /\ d.inbox = c.inbox /\ d.due = c.due /\ (c.closed => d.closed) /\ d.step = "over"
  BY <1>1, <1>2 DEF EndType, Steps
<1> QED
  BY <1>1, <1>2, <1>3, EndsGoes DEF c

\* PeerLeaves, and HostLeaves of a member, preserve the invariant.
LEMMA LeavesGoes ==
    ASSUME Holds(end, wire), PeerLeaves \/ (HostLeaves /\ end["host"].step = "serving")
    PROVE  Goes
<1>0. PICK e \in Ends : \E d :
         /\ d.step = end[e].step \/ (end[e].step = "serving" /\ d.step = "over")
         /\ d = [end[e] EXCEPT !.closed = TRUE, !.step = d.step]
         /\ Becomes(e, d, <<>>)
  <2>1. ASSUME PeerLeaves PROVE \E d :
         /\ d.step = end["peer"].step \/ (end["peer"].step = "serving" /\ d.step = "over")
         /\ d = [end["peer"] EXCEPT !.closed = TRUE, !.step = d.step]
         /\ Becomes("peer", d, <<>>)
    <3> DEFINE c == end["peer"]
               d == [c EXCEPT !.closed = TRUE, !.step = IF @ = "serving" THEN "over" ELSE @]
    <3>1. c \in EndType /\ Becomes("peer", d, <<>>)
      BY <2>1, Knows DEF PeerLeaves, Ends
    <3>2. d = [c EXCEPT !.closed = TRUE, !.step = d.step] /\ d.step = IF c.step = "serving" THEN "over" ELSE c.step
      BY <3>1 DEF EndType
    <3> HIDE DEF d
    <3> QED
      BY <3>1, <3>2
  <2>2. ASSUME HostLeaves, end["host"].step = "serving" PROVE \E d :
         /\ d.step = end["host"].step \/ (end["host"].step = "serving" /\ d.step = "over")
         /\ d = [end["host"] EXCEPT !.closed = TRUE, !.step = d.step]
         /\ Becomes("host", d, <<>>)
    <3> DEFINE c == end["host"]
               d == [c EXCEPT !.closed = TRUE, !.step = "over"]
    <3>1. c \in EndType /\ c.step = "serving" /\ Becomes("host", d, <<>>)
      BY <2>2, Knows DEF HostLeaves, Ends, Awaiting, TextSteps, SealedSteps
    <3>2. d = [c EXCEPT !.closed = TRUE, !.step = d.step] /\ d.step = "over"
      BY <3>1 DEF EndType
    <3> HIDE DEF d
    <3> QED
      BY <3>1, <3>2
  <2> QED
    BY <2>1, <2>2 DEF Ends
<1>1. PICK d :
         /\ d.step = end[e].step \/ (end[e].step = "serving" /\ d.step = "over")
         /\ d = [end[e] EXCEPT !.closed = TRUE, !.step = d.step]
         /\ Becomes(e, d, <<>>)
  BY <1>0
<1> DEFINE c == end[e]
<1>2. c \in EndType /\ d.step \in Steps
  BY <1>1, Knows DEF EndType, Steps
<1> HIDE DEF c
<1>3. /\ d \in EndType /\ d.secure = c.secure /\ d.early = c.early /\ d.sent = c.sent /\ d.got = c.got
      /\ d.inbox = c.inbox /\ d.due = c.due /\ d.closed
  BY <1>1, <1>2 DEF EndType, c
<1> QED
  BY <1>1, <1>2, <1>3, EndsGoes DEF c

\* An end says a text message and waits for the next one.
LEMMA AsksGoes ==
    ASSUME Holds(end, wire), NEW e \in Ends, NEW o, o = Other(e), NEW c, c = end[e], c.step \in TextSteps,
           NEW step \in TextSteps, NEW t \in TextSteps, \A p : t \in Said(o, p),
           Becomes(e, Await(c, e, step), <<Text(t)>>)
    PROVE  Goes
<1> DEFINE d == Await(c, e, step)
<1>1. /\ c \in EndType /\ Settled(e, c, end["peer"].step) /\ c.sent \in Nat /\ Len(c.got) \in Nat
      /\ end[o].sent \in Nat
      /\ Toward(e, c, wire[e], end[o].sent, Quiet(end, wire), Said(e, end["peer"].step))
  BY Knows
<1>2. c.step # "failed" /\ step \in Steps \ {"failed"} /\ step \notin {"serving", "over"}
  BY DEF Steps, Awaiting, TextSteps
<1>3. /\ Toward(e, d, wire[e], end[o].sent, Quiet(end, wire), Said(e, end["peer"].step)) /\ d \in EndType
      /\ d.secure = c.secure /\ d.early = c.early /\ d.sent = c.sent
      /\ d.step = step \/ d.step = "failed"
      /\ c.closed => d.closed
      /\ Len(c.got) <= Len(d.got) /\ d.got = c.got
  <2> DEFINE w == wire[e]
             s == end[o].sent
             shut == Quiet(end, wire)
             G == Said(e, end["peer"].step)
  <2>1. Toward(e, c, w, s, shut, G) /\ s \in Nat
    BY <1>1
  <2> HIDE DEF w, s, shut, G
  <2>2. Toward(e, d, w, s, shut, G)
    BY <1>2, <2>1, TowardAwait
  <2>3. /\ d \in EndType /\ d.secure = c.secure /\ d.early = c.early /\ d.sent = c.sent
        /\ d.step = step \/ (d.step = "failed" /\ step \notin {"serving", "over"})
        /\ c.closed => d.closed
        /\ Len(c.got) <= Len(d.got) /\ (step \in TextSteps => d.got = c.got)
    BY <1>2, <2>1, <2>2, TowardAwait
  <2> QED
    BY <2>2, <2>3 DEF w, s, shut, G
<1> HIDE DEF d
<1>4. Forward(c, d)
  BY <1>1, <1>3 DEF Forward
<1>5. Settled(e, d, end["peer"].step)
  <2>1. ~c.secure
    BY <1>1 DEF Settled
  <2> QED
    BY <1>1, <1>2, <1>3, <2>1 DEF Settled, TextSteps
<1>6. /\ <<Text(t)>> \in Seq(Letters) /\ Runs(<<Text(t)>>, c.sent, d.sent)
      /\ \A i \in DOMAIN <<Text(t)>> : <<Text(t)>>[i].kind = "text" => <<Text(t)>>[i].type \in Said(o, d.step)
  BY <1>1, <1>3, OneText
<1> QED
  BY <1>3, <1>4, <1>5, <1>6, BecomesMoves DEF d

\* HostAnswersHello and HostAnswersPake preserve the invariant.
LEMMA HostAsksGoes ==
    ASSUME Holds(end, wire), HostAnswersHello \/ HostAnswersPake
    PROVE  Goes
<1> DEFINE c == end["host"]
<1>0. "host" \in Ends /\ Other("host") = "peer"
  BY DEF Ends, Other
<1>1. c.due => (c.step \in TextSteps /\ c.step \in Said("host", end["peer"].step)) \/ c.step \in SealedSteps
  BY <1>0, Knows
<1>2. CASE HostAnswersHello /\ "target" \in agree
  <2>1. Becomes("host", Await(c, "host", "pake_peer"), <<Text("hello_ack")>>) /\ c.step = "hello"
    BY <1>2 DEF HostAnswersHello
  <2>2. \A p : "hello_ack" \in Said("peer", p)
    BY <1>2 DEF Said, TextSteps
  <2>3. "hello" \in TextSteps /\ "pake_peer" \in TextSteps /\ "hello_ack" \in TextSteps
    BY DEF TextSteps
  <2> HIDE DEF c
  <2> QED
    BY <1>0, <2>1, <2>2, <2>3, AsksGoes DEF c
<1>3. CASE HostAnswersHello /\ "target" \notin agree
  <2>1. Becomes("host", Failed(c, "host"), <<Text("handshake_reject")>>) /\ c.step = "hello"
    BY <1>3 DEF HostAnswersHello
  <2>2. "handshake_reject" \in Said("peer", "failed")
    BY DEF Said
  <2>3. /\ <<Text("handshake_reject")>> \in Seq(Letters) /\ Plain(<<Text("handshake_reject")>>)
        /\ \A i \in DOMAIN <<Text("handshake_reject")>> : <<Text("handshake_reject")>>[i].kind = "text"
              => <<Text("handshake_reject")>>[i].type \in Said("peer", "failed")
    BY <2>2, OneText
  <2> HIDE DEF c
  <2> QED
    BY <1>0, <2>1, <2>3, FailsGoes DEF c
<1>4. CASE HostAnswersPake
  <2>1. Becomes("host", Await(c, "host", "pake_confirm"), <<Text("pake_host")>>) /\ c.step = "pake_peer" /\ c.due
    BY <1>4 DEF HostAnswersPake
  <2>2. {"target", "hardening"} \subseteq agree
    BY <1>1, <2>1 DEF Said, SealedSteps
  <2>3. \A p : "pake_host" \in Said("peer", p)
    BY <2>2 DEF Said, TextSteps
  <2>4. "pake_confirm" \in TextSteps /\ "pake_peer" \in TextSteps /\ "pake_host" \in TextSteps
    BY DEF TextSteps
  <2> HIDE DEF c
  <2> QED
    BY <1>0, <2>1, <2>3, <2>4, AsksGoes DEF c
<1> QED
  BY <1>2, <1>3, <1>4

\* PeerAnswersAck preserves the invariant.
LEMMA PeerAnswersAckGoes ==
    ASSUME Holds(end, wire), PeerAnswersAck
    PROVE  Goes
<1> DEFINE c == end["peer"]
<1>0. "peer" \in Ends /\ Other("peer") = "host"
  BY DEF Ends, Other
<1>1. c.step = "hello_ack" /\ c.due
  BY DEF PeerAnswersAck
<1>2. "target" \in agree
  <2>1. c.due => (c.step \in TextSteps /\ c.step \in Said("peer", c.step)) \/ c.step \in SealedSteps
    BY <1>0, Knows
  <2> QED
    BY <1>1, <2>1 DEF Said, SealedSteps
<1>3. CASE "hardening" \in agree
  <2>1. Becomes("peer", Await(c, "peer", "pake_host"), <<Text("pake_peer")>>)
    BY <1>3 DEF PeerAnswersAck
  <2>2. \A p : "pake_peer" \in Said("host", p)
    BY <1>2, <1>3 DEF Said, TextSteps
  <2>3. "hello_ack" \in TextSteps /\ "pake_peer" \in TextSteps /\ "pake_host" \in TextSteps
    BY DEF TextSteps
  <2> HIDE DEF c
  <2> QED
    BY <1>0, <1>1, <2>1, <2>2, <2>3, AsksGoes DEF c
<1>4. CASE "hardening" \notin agree
  <2>1. Becomes("peer", Failed(c, "peer"), <<>>)
    BY <1>4 DEF PeerAnswersAck
  <2>2. Plain(<<>>)
    BY Nothing DEF Plain
  <2> HIDE DEF c
  <2> QED
    BY <1>0, <1>1, <2>1, <2>2, Nothing, FailsGoes DEF c
<1> QED
  BY <1>3, <1>4

\* TimeOut preserves the invariant.
LEMMA TimeOutGoes ==
    ASSUME Holds(end, wire), NEW e \in Ends, TimeOut(e)
    PROVE  Goes
<1>1. Becomes(e, Failed(end[e], e), <<>>) /\ end[e].step \notin {"serving", "over"}
  BY DEF TimeOut, Awaiting, TextSteps, SealedSteps
<1>2. Plain(<<>>)
  BY Nothing DEF Plain
<1> QED
  BY <1>1, <1>2, Nothing, FailsGoes

\* Only who knows the password is confirmed.
LEMMA ConfirmedKnows ==
    ASSUME NEW e \in Ends, Confirmed(e)
    PROVE  "password" \in agree
<1> DEFINE o == Other(e)
<1>1. o # e
  BY DEF Ends, Other
<1>2. Isk(e) = Isk(o)
  BY DEF Confirmed, Mac
<1>3. SharedSecret(e) = SharedSecret(o)
  BY <1>2 DEF Isk
<1>4. SharedSecret(e).base = Generator(o) /\ SharedSecret(o).base = Generator(e)
  BY DEF SharedSecret, Share, Ends, Other
<1>5. PasswordKey(e) = PasswordKey(o)
  BY <1>3, <1>4 DEF Generator
<1> QED
  BY <1>1, <1>5 DEF PasswordKey

\* HostConfirms preserves the invariant: there are keys only if the peer confirmed.
LEMMA HostConfirmsGoes ==
    ASSUME Holds(end, wire), HostConfirms
    PROVE  Goes
<1> DEFINE c == end["host"]
           up == Upgrade(c, "host")
           s == end["peer"].sent
           p == end["peer"].step
           w == wire["host"]
           shut == Quiet(end, wire)
           G == Said("host", p)
<1>0. "host" \in Ends /\ Other("host") = "peer"
  BY DEF Ends, Other
<1>1. /\ c \in EndType /\ Settled("host", c, p) /\ c.sent \in Nat /\ Len(c.got) \in Nat /\ s \in Nat
      /\ Toward("host", c, w, s, shut, G)
      /\ c.due => (c.step \in TextSteps /\ c.step \in G) \/ c.step \in SealedSteps
  BY <1>0, Knows
<1>2. /\ c.due /\ c.step = "pake_confirm" /\ c.step \in TextSteps
      /\ Becomes("host", IF ~Confirmed("host") THEN Failed(c, "host")
                         ELSE IF up.step = "failed" THEN up ELSE Await(up, "host", "join"), <<>>)
  BY DEF HostConfirms, TextSteps
<1>3. {"target", "hardening"} \subseteq agree /\ p \notin TextSteps
  BY <1>1, <1>2 DEF Said, SealedSteps
<1> HIDE DEF c, up, s, p, w, shut, G
<1>4. Plain(<<>>) /\ <<>> \in Seq(Letters) /\ DOMAIN <<>> = {} /\ \A k \in Nat : Runs(<<>>, k, k)
  BY Nothing DEF Plain
<1>5. CASE ~Confirmed("host")
  <2>1. Becomes("host", Failed(c, "host"), <<>>) /\ c.step \notin {"serving", "over"}
    BY <1>2, <1>5
  <2> QED
    BY <1>0, <1>4, <2>1, FailsGoes DEF c
<1>6. CASE Confirmed("host")
  <2>1. Trusted
    BY <1>0, <1>3, <1>6, ConfirmedKnows DEF Trusted
  <2>2. Toward("host", up, w, s, shut, G)
    BY <1>0, <1>1, <1>2, TowardUpgraded DEF up
  <2>3. /\ up.secure /\ up.early = <<>> /\ up.sent = c.sent
        /\ up.step \in {c.step, "failed"} /\ up.got = c.got /\ (c.closed => up.closed)
    BY <1>0, <1>1, <1>2, <2>2, TowardUpgraded DEF up
  <2>4. up \in EndType
    BY <2>2 DEF Toward, Orderly
  <2>5. c.sent = 0
    BY <1>1, <1>2 DEF Settled
  <2>6. CASE up.step = "failed"
    <3>1. Becomes("host", up, <<>>)
      BY <1>2, <1>6, <2>6
    <3>2. Forward(c, up) /\ Settled("host", up, p)
      BY <1>1, <1>3, <2>1, <2>3, <2>5, <2>6 DEF Forward, Settled, TextSteps
    <3>3. Runs(<<>>, c.sent, up.sent)
      BY <1>1, <1>4, <2>3
    <3> QED
      BY <1>0, <1>4, <2>2, <2>4, <3>1, <3>2, <3>3, BecomesMoves DEF c, s, p, w, shut, G
  <2>7. CASE up.step # "failed"
    <3> DEFINE d == Await(up, "host", "join")
    <3>1. Becomes("host", d, <<>>)
      BY <1>2, <1>6, <2>7
    <3>2. "join" \in Steps \ {"failed"}
      BY DEF Steps, Awaiting, SealedSteps
    <3>3. Toward("host", d, w, s, shut, G)
      BY <1>0, <1>1, <2>2, <2>7, <3>2, TowardAwait
    <3>4. /\ d \in EndType /\ d.secure = up.secure /\ d.early = up.early /\ d.sent = up.sent
          /\ d.step = "join" \/ d.step = "failed"
          /\ up.closed => d.closed
          /\ Len(up.got) <= Len(d.got)
      BY <1>0, <1>1, <2>2, <2>7, <3>2, <3>3, TowardAwait
    <3> HIDE DEF d
    <3>5. Forward(c, d) /\ Settled("host", d, p)
      BY <1>1, <1>3, <2>1, <2>3, <2>5, <3>4 DEF Forward, Settled, TextSteps
    <3>6. Runs(<<>>, c.sent, d.sent)
      BY <1>1, <1>4, <2>3, <3>4
    <3> QED
      BY <1>0, <1>4, <3>1, <3>3, <3>4, <3>5, <3>6, BecomesMoves DEF c, s, p, w, shut, G
  <2> QED
    BY <2>6, <2>7
<1> QED
  BY <1>5, <1>6

\* PeerConfirms preserves the invariant: join is the first frame the peer seals.
LEMMA PeerConfirmsGoes ==
    ASSUME Holds(end, wire), PeerConfirms
    PROVE  Goes
<1> DEFINE c == end["peer"]
           up == Upgrade(c, "peer")
           said == [up EXCEPT !.sent = up.sent + 1]
           s == end["host"].sent
           p == end["peer"].step
           w == wire["peer"]
           shut == Quiet(end, wire)
           G == Said("peer", p)
           confirm == <<Text("pake_confirm")>>
           join == Sealed("join", up.sent)
<1>0. "peer" \in Ends /\ Other("peer") = "host"
  BY DEF Ends, Other
<1>1. /\ c \in EndType /\ Settled("peer", c, p) /\ c.sent \in Nat /\ Len(c.got) \in Nat /\ s \in Nat
      /\ Toward("peer", c, w, s, shut, G)
      /\ c.due => (c.step \in TextSteps /\ c.step \in G) \/ c.step \in SealedSteps
  BY <1>0, Knows
<1>2. /\ c.due /\ c.step = "pake_host" /\ c.step \in TextSteps
      /\ IF ~Confirmed("peer") THEN Becomes("peer", Failed(c, "peer"), confirm)
         ELSE IF up.step = "failed" THEN Becomes("peer", up, confirm)
         ELSE Becomes("peer", Await(said, "peer", "joined"), <<Text("pake_confirm"), join>>)
  BY DEF PeerConfirms, TextSteps
<1>3. {"target", "hardening"} \subseteq agree
  BY <1>1, <1>2 DEF Said, SealedSteps
<1>4. /\ confirm \in Seq(Letters) /\ Plain(confirm) /\ (\A k \in Nat : Runs(confirm, k, k))
      /\ \A i \in DOMAIN confirm : confirm[i].kind = "text" => confirm[i].type = "pake_confirm"
  BY OneText DEF TextSteps
<1>5. \A q : q \notin TextSteps => "pake_confirm" \in Said("host", q)
  BY <1>3 DEF Said, TextSteps
<1> HIDE DEF c, up, said, s, p, w, shut, G, confirm, join
<1>6. CASE ~Confirmed("peer")
  <2>1. Becomes("peer", Failed(c, "peer"), confirm) /\ c.step \notin {"serving", "over"}
    BY <1>2, <1>6
  <2>2. "pake_confirm" \in Said("host", "failed")
    BY <1>5 DEF TextSteps
  <2> QED
    BY <1>0, <1>4, <2>1, <2>2, FailsGoes DEF c
<1>7. CASE Confirmed("peer")
  <2>1. Trusted
    BY <1>0, <1>3, <1>7, ConfirmedKnows DEF Trusted
  <2>2. Toward("peer", up, w, s, shut, G)
    BY <1>0, <1>1, <1>2, TowardUpgraded DEF up
  <2>3. /\ up.secure /\ up.early = <<>> /\ up.sent = c.sent
        /\ up.step \in {c.step, "failed"} /\ up.got = c.got /\ (c.closed => up.closed)
    BY <1>0, <1>1, <1>2, <2>2, TowardUpgraded DEF up
  <2>4. up \in EndType
    BY <2>2 DEF Toward, Orderly
  <2>5. c.sent = 0
    BY <1>1, <1>2 DEF Settled
  <2>6. CASE up.step = "failed"
    <3>1. Becomes("peer", up, confirm)
      BY <1>2, <1>7, <2>6
    <3>2. Forward(c, up) /\ Settled("peer", up, p)
      BY <1>1, <1>3, <2>1, <2>3, <2>5, <2>6 DEF Forward, Settled, TextSteps
    <3>3. Runs(confirm, c.sent, up.sent)
      BY <1>1, <1>4, <2>3
    <3>4. "pake_confirm" \in Said("host", up.step)
      BY <1>5, <2>6 DEF TextSteps
    <3> QED
      BY <1>0, <1>4, <2>2, <2>4, <3>1, <3>2, <3>3, <3>4, BecomesMoves DEF c, s, p, w, shut, G
  <2>7. CASE up.step # "failed"
    <3> DEFINE d == Await(said, "peer", "joined")
               frames == <<Text("pake_confirm"), join>>
    <3>1. Becomes("peer", d, frames)
      BY <1>2, <1>7, <2>7
    <3>2. "joined" \in Steps \ {"failed"}
      BY DEF Steps, Awaiting, SealedSteps
    <3>3. /\ said \in EndType /\ said.got = up.got /\ said.inbox = up.inbox /\ said.due = up.due
          /\ said.early = up.early /\ said.step = up.step /\ said.sent = 1 /\ said.secure = up.secure
          /\ said.closed = up.closed
      <4>1. said = [up EXCEPT !.sent = 1]
        BY <2>3, <2>5 DEF said
      <4> QED
        BY <2>4, <4>1 DEF EndType
    <3>4. Toward("peer", said, w, s, shut, G)
      BY <1>0, <1>1, <2>2, <3>3, TowardLike
    <3>5. Toward("peer", d, w, s, shut, G)
      BY <1>0, <1>1, <2>7, <3>2, <3>3, <3>4, TowardAwait
    <3>6. /\ d \in EndType /\ d.secure = said.secure /\ d.early = said.early /\ d.sent = said.sent
          /\ d.step = "joined" \/ d.step = "failed"
          /\ said.closed => d.closed
          /\ Len(said.got) <= Len(d.got)
      BY <1>0, <1>1, <2>7, <3>2, <3>3, <3>4, <3>5, TowardAwait
    <3> HIDE DEF d
    <3>7. Forward(c, d) /\ Settled("peer", d, p)
      BY <1>1, <2>1, <2>3, <2>5, <3>3, <3>6 DEF Forward, Settled, TextSteps
    <3>8. join \in Letters /\ join.kind = "sealed" /\ join.n = 0
      <4>1. join = Sealed("join", 0) /\ "join" \in SealedSteps \cup {"rejected", "data"} /\ 0 \in Nat
        BY <2>3, <2>5 DEF join, SealedSteps
      <4> HIDE DEF join
      <4> QED
        BY <4>1, OneSealed
    <3>9. frames = Append(confirm, join) /\ frames \in Seq(Letters)
      BY <1>4, <3>8 DEF confirm
    <3>10. Runs(frames, c.sent, d.sent)
      <4>1. Runs(confirm, 0, 0)
        BY <1>4
      <4>2. Runs(Append(confirm, join), 0, 0 + 1)
        BY <1>4, <3>8, <4>1, RunsAppend
      <4>3. c.sent = 0 /\ d.sent = 0 + 1
        BY <2>5, <3>3, <3>6
      <4> HIDE DEF frames
      <4> QED
        BY <3>9, <4>2, <4>3
    <3>11. \A i \in DOMAIN frames : frames[i].kind = "text" => frames[i].type = "pake_confirm"
      BY <1>4, <3>8, <3>9
    <3>12. "pake_confirm" \in Said("host", d.step)
      BY <1>5, <3>6 DEF TextSteps
    <3> HIDE DEF frames
    <3>13. \A i \in DOMAIN frames : frames[i].kind = "text" => frames[i].type \in Said("host", d.step)
      BY <3>11, <3>12
    <3> QED
      BY <1>0, <3>1, <3>5, <3>6, <3>7, <3>9, <3>10, <3>13, BecomesMoves DEF c, s, p, w, shut, G
  <2> QED
    BY <2>6, <2>7
<1> QED
  BY <1>6, <1>7

\* PeerJoined preserves the invariant.
LEMMA PeerJoinedGoes ==
    ASSUME Holds(end, wire), PeerJoined
    PROVE  Goes
<1> DEFINE c == end["peer"]
           s == end["host"].sent
           p == end["peer"].step
           w == wire["peer"]
           shut == Quiet(end, wire)
           G == Said("peer", p)
<1>0. "peer" \in Ends /\ Other("peer") = "host"
  BY DEF Ends, Other
<1>1. /\ c \in EndType /\ Settled("peer", c, p) /\ c.sent \in Nat /\ Len(c.got) \in Nat /\ s \in Nat
      /\ Toward("peer", c, w, s, shut, G)
      /\ c.due => c.step \in TextSteps \/ (c.step \in SealedSteps /\ c.got # <<>>)
  BY <1>0, Knows
<1>2. /\ c.due /\ c.step = "joined"
      /\ Becomes("peer", IF "epoch" \in agree THEN Await(c, "peer", "serving")
                         ELSE [Failed(c, "peer") EXCEPT !.closed = TRUE], <<>>)
  BY DEF PeerJoined
<1>3. c.got # <<>> /\ c.secure
  BY <1>1, <1>2 DEF Settled, TextSteps
<1> HIDE DEF c, s, p, w, shut, G
<1>4. CASE "epoch" \in agree
  <2> DEFINE d == Await(c, "peer", "serving")
  <2>1. Becomes("peer", d, <<>>)
    BY <1>2, <1>4
  <2>2. "serving" \in Steps \ {"failed"}
    BY DEF Steps
  <2>3. Toward("peer", d, w, s, shut, G)
    BY <1>0, <1>1, <1>2, <2>2, TowardAwait
  <2>4. /\ d \in EndType /\ d.secure = c.secure /\ d.early = c.early /\ d.sent = c.sent
        /\ d.step = "serving" /\ (c.closed => d.closed)
        /\ Len(c.got) <= Len(d.got) /\ (c.got # <<>> => d.got # <<>>)
    <3>1. c.step # "failed"
      BY <1>2
    <3> QED
      BY <1>0, <1>1, <2>2, <2>3, <3>1, TowardAwait
  <2> HIDE DEF d
  <2>5. Forward(c, d) /\ Settled("peer", d, p)
    BY <1>1, <1>3, <2>4 DEF Forward, Settled, TextSteps
  <2>6. Runs(<<>>, c.sent, d.sent)
    BY <1>1, <2>4, Nothing
  <2> QED
    BY <1>0, <2>1, <2>3, <2>4, <2>5, <2>6, Nothing, BecomesMoves DEF c, s, p, w, shut, G
<1>5. CASE "epoch" \notin agree
  <2> DEFINE x == Failed(c, "peer")
             d == [x EXCEPT !.closed = TRUE]
  <2>1. Becomes("peer", d, <<>>)
    BY <1>2, <1>5
  <2>2. Toward("peer", x, w, s, shut, G)
    BY <1>0, <1>1, TowardFailed
  <2>3. /\ x \in EndType /\ x.secure = c.secure /\ x.early = c.early /\ x.sent = c.sent /\ x.got = c.got
        /\ x.step = "failed"
    BY <1>0, <1>1, <2>2, TowardFailed
  <2> HIDE DEF x
  <2>4. /\ d \in EndType /\ d.secure = x.secure /\ d.early = x.early /\ d.sent = x.sent /\ d.got = x.got
        /\ d.step = x.step /\ d.inbox = x.inbox /\ d.due = x.due /\ d.closed
    BY <2>3 DEF EndType
  <2> HIDE DEF d
  <2>5. Toward("peer", d, w, s, shut, G)
    BY <1>0, <1>1, <2>2, <2>4, TowardLike
  <2>6. Forward(c, d) /\ Settled("peer", d, p)
    BY <1>1, <1>2, <1>3, <2>3, <2>4 DEF Forward, Settled, TextSteps
  <2>7. Runs(<<>>, c.sent, d.sent)
    BY <1>1, <2>3, <2>4, Nothing
  <2> QED
    BY <1>0, <2>1, <2>4, <2>5, <2>6, <2>7, Nothing, BecomesMoves DEF c, s, p, w, shut, G
<1> QED
  BY <1>4, <1>5

\* A host that rejects a join has nothing sealed left to hear.
LEMMA HostAdmitsGoes ==
    ASSUME Holds(end, wire), HostAdmits
    PROVE  Goes
<1> DEFINE c == end["host"]
           said == [c EXCEPT !.sent = c.sent + 1]
           s == end["peer"].sent
           p == end["peer"].step
           w == wire["host"]
           shut == Quiet(end, wire)
           G == Said("host", p)
<1>0. "host" \in Ends /\ Other("host") = "peer"
  BY DEF Ends, Other
<1>1. /\ c \in EndType /\ Settled("host", c, p) /\ c.sent \in Nat /\ c.got \in Seq(Nat) /\ s \in Nat
      /\ Toward("host", c, w, s, shut, G)
      /\ c.due => c.step \in TextSteps \/ (c.step \in SealedSteps /\ c.got # <<>>)
  BY <1>0, Knows
<1>2. /\ c.due /\ c.step = "join"
      /\ \/ Becomes("host", Await(said, "host", "serving"), <<Sealed("joined", c.sent)>>)
         \/ Becomes("host", [Failed(said, "host") EXCEPT !.step = "over"], <<Sealed("rejected", c.sent)>>)
  BY DEF HostAdmits
<1>3. c.got # <<>> /\ c.secure /\ c.sent = 0
  BY <1>1, <1>2 DEF Settled, TextSteps
<1>4. s <= 1
  <2>1. end["peer"].sent > 1 => end["host"].sent > 0
    BY BothServe
  <2> QED
    BY <1>1, <1>3, <2>1
<1>5. /\ said \in EndType /\ said.got = c.got /\ said.inbox = c.inbox /\ said.due = c.due
      /\ said.early = c.early /\ said.step = c.step /\ said.sent = 1 /\ said.secure = c.secure
      /\ said.closed = c.closed
  <2>1. said = [c EXCEPT !.sent = 1]
    BY <1>3
  <2> HIDE DEF c, said
  <2> QED
    BY <1>1, <2>1 DEF EndType
<1> HIDE DEF c, said, s, p, w, shut, G
<1>6. Toward("host", said, w, s, shut, G)
  BY <1>0, <1>1, <1>5, TowardLike
<1>7. CASE Becomes("host", Await(said, "host", "serving"), <<Sealed("joined", c.sent)>>)
  <2> DEFINE d == Await(said, "host", "serving")
  <2>1. Becomes("host", d, <<Sealed("joined", 0)>>)
    BY <1>3, <1>7
  <2>2. "serving" \in Steps \ {"failed"} /\ said.step # "failed"
    BY <1>2, <1>5 DEF Steps
  <2>3. Toward("host", d, w, s, shut, G)
    BY <1>0, <1>1, <1>6, <2>2, TowardAwait
  <2>4. /\ d \in EndType /\ d.secure = said.secure /\ d.early = said.early /\ d.sent = said.sent
        /\ d.step = "serving" /\ (said.closed => d.closed)
        /\ Len(said.got) <= Len(d.got) /\ (said.got # <<>> => d.got # <<>>)
    BY <1>0, <1>1, <1>6, <2>2, <2>3, TowardAwait
  <2> HIDE DEF d
  <2>5. Forward(c, d) /\ Settled("host", d, p)
    BY <1>1, <1>3, <1>5, <2>4 DEF Forward, Settled, TextSteps
  <2>6. /\ <<Sealed("joined", 0)>> \in Seq(Letters)
        /\ \A i \in DOMAIN <<Sealed("joined", 0)>> : <<Sealed("joined", 0)>>[i].kind # "text"
        /\ Runs(<<Sealed("joined", 0)>>, 0, 0 + 1)
    <3>1. "joined" \in SealedSteps \cup {"rejected", "data"} /\ 0 \in Nat
      BY DEF SealedSteps
    <3> QED
      BY <3>1, OneSealed
  <2>7. Runs(<<Sealed("joined", 0)>>, c.sent, d.sent)
    <3>1. d.sent = 0 + 1
      BY <1>5, <2>4
    <3> QED
      BY <1>3, <2>6, <3>1
  <2> QED
    BY <1>0, <2>1, <2>3, <2>4, <2>5, <2>6, <2>7, BecomesMoves DEF c, s, p, w, shut, G
<1>8. CASE Becomes("host", [Failed(said, "host") EXCEPT !.step = "over"], <<Sealed("rejected", c.sent)>>)
  <2> DEFINE x == Failed(said, "host")
             d == [x EXCEPT !.step = "over"]
  <2>1. Becomes("host", d, <<Sealed("rejected", 0)>>)
    BY <1>3, <1>8
  <2>2. /\ d \in EndType /\ d.got = c.got /\ d.inbox = c.inbox /\ d.due = FALSE /\ d.early = c.early
        /\ d.step = "over" /\ d.secure = c.secure /\ d.sent = 1 /\ (c.closed => d.closed)
    <3>1. /\ x \in EndType /\ x.got = c.got /\ x.inbox = c.inbox /\ x.due = FALSE /\ x.early = c.early
          /\ x.secure = c.secure /\ x.sent = 1 /\ (c.closed => x.closed)
      BY <1>5 DEF EndType, Failed, Steps
    <3> HIDE DEF x
    <3> QED
      BY <3>1 DEF EndType, Steps
  <2> HIDE DEF d
  <2>3. Plain(c.inbox)
    <3>1. PICK a \in 0..s : Orderly(c, a, G)
      BY <1>1 DEF Toward
    <3>2. Len(c.got) = 1 /\ a = 1 /\ c.inbox \in Seq(Letters) /\ Runs(c.inbox, Len(c.got), a)
      BY <1>1, <1>2, <1>3, <1>4, <3>1 DEF Orderly, EndType
    <3>3. Runs(c.inbox, 1, 1) /\ 1 \in Nat
      BY <3>2
    <3> QED
      BY <3>2, <3>3, RunsPlain
  <2>4. ASSUME NEW a \in Nat, Orderly(c, a, G) PROVE Orderly(d, a, G)
    <3>1. \A i \in DOMAIN d.inbox : Fits(d.inbox[i], G) /\ ~Listens(d, d.inbox[i].kind)
      BY <2>2, <2>3, <2>4 DEF Orderly, Plain, Fits, Listens, TextSteps
    <3> QED
      BY <1>2, <2>2, <2>4, <3>1 DEF Orderly
  <2>5. c.step # "failed" /\ d.early = c.early
    BY <1>2, <2>2
  <2>6. Toward("host", d, w, s, shut, G)
    BY <1>1, <2>4, <2>5, TowardTurned
  <2>7. Forward(c, d) /\ Settled("host", d, p)
    BY <1>1, <1>3, <2>2 DEF Forward, Settled, TextSteps
  <2>8. /\ <<Sealed("rejected", 0)>> \in Seq(Letters)
        /\ \A i \in DOMAIN <<Sealed("rejected", 0)>> : <<Sealed("rejected", 0)>>[i].kind # "text"
        /\ Runs(<<Sealed("rejected", 0)>>, 0, 0 + 1)
    <3>1. "rejected" \in SealedSteps \cup {"rejected", "data"} /\ 0 \in Nat
      OBVIOUS
    <3> QED
      BY <3>1, OneSealed
  <2>9. Runs(<<Sealed("rejected", 0)>>, c.sent, d.sent)
    <3>1. d.sent = 0 + 1
      BY <2>2
    <3> QED
      BY <1>3, <2>8, <3>1
  <2> QED
    BY <1>0, <2>1, <2>2, <2>6, <2>7, <2>8, <2>9, BecomesMoves DEF c, s, p, w, shut, G
<1> QED
  BY <1>2, <1>7, <1>8

\* HearClose preserves the invariant.
LEMMA HearCloseGoes ==
    ASSUME Holds(end, wire), NEW e \in Ends, HearClose(e)
    PROVE  Goes
<1> DEFINE c == end[e]
           o == Other(e)
           s == end[o].sent
           p == end["peer"].step
           shut == Quiet(end, wire)
           G == Said(e, p)
           step == IF c.closed \/ c.due THEN c.step ELSE IF c.step \in Awaiting THEN "failed"
                   ELSE IF c.step = "serving" THEN "over" ELSE c.step
           d == [c EXCEPT !.closed = TRUE, !.step = step]
<1>1. /\ c \in EndType /\ Settled(e, c, p) /\ c.sent \in Nat /\ Len(c.got) \in Nat /\ s \in Nat
      /\ Toward(e, c, wire[e], s, shut, G)
  BY Knows
<1>2. o \in Ends /\ o # e
  BY DEF Ends, Other
<1>3. wire \in [Ends -> Seq(Letters)] /\ end \in [Ends -> EndType]
  BY DEF Holds
<1>4. end' = [end EXCEPT ![e] = d]
  BY <1>1, <1>3 DEF HearClose, EndType
<1>5. wire[e] # <<>> /\ Head(wire[e]) = Gone /\ wire' = [wire EXCEPT ![e] = Tail(@)]
  BY DEF HearClose
<1>6. wire' \in [Ends -> Seq(Letters)] /\ wire'[e] = Tail(wire[e]) /\ wire'[o] = wire[o] \o <<>>
  <2>1. Tail(wire[e]) \in Seq(Letters) /\ wire[o] \o <<>> = wire[o]
    BY <1>2, <1>3, <1>5
  <2> QED
    BY <1>2, <1>3, <1>5, <2>1
<1>7. step \in Steps /\ \/ step = c.step \/ (c.step = "serving" /\ step = "over")
                        \/ (step = "failed" /\ ~c.due /\ c.step \in Awaiting)
  BY <1>1 DEF EndType, Steps
<1> HIDE DEF c, o, s, p, shut, G, step
<1>8. /\ d \in EndType /\ d.got = c.got /\ d.inbox = c.inbox /\ d.due = c.due /\ d.early = c.early
      /\ d.step = step /\ d.secure = c.secure /\ d.sent = c.sent /\ d.closed = TRUE
  BY <1>1, <1>7 DEF EndType
<1> HIDE DEF d
<1>9. Toward(e, c, Tail(wire[e]), s, shut, G)
  BY <1>1, <1>5, TowardDropped DEF Gone
<1>10. Toward(e, d, Tail(wire[e]), s, shut, G)
  <2>1. d.step = c.step \/ (c.step = "serving" /\ d.step = "over") \/ (d.step = "failed" /\ ~c.due)
    BY <1>7, <1>8
  <2> QED
    BY <1>1, <1>8, <1>9, <2>1, TowardLike
<1>11. Quiet(end', wire')
  BY <1>3, <1>4, <1>8 DEF Quiet, Ends
<1>12. Toward(e, d, wire'[e], s, Quiet(end', wire'), G)
  BY <1>6, <1>10, <1>11, TowardMore
<1>13. Forward(c, d)
  BY <1>1, <1>7, <1>8 DEF Forward, TextSteps
<1>14. \A q : Settled(e, c, q) => Settled(e, d, q)
  BY <1>1, <1>7, <1>8 DEF Settled, TextSteps, SealedSteps, Awaiting
<1>15. Settled(e, d, end'["peer"].step)
  <2>1. Settled(e, d, p)
    BY <1>1, <1>14
  <2>2. e = "host" => end'["peer"].step = p
    BY <1>3, <1>4 DEF Ends, p
  <2> QED
    BY <2>1, <2>2 DEF Settled, Ends
<1>16. Plain(<<>>) /\ <<>> \in Seq(Letters) /\ DOMAIN <<>> = {}
  BY Nothing DEF Plain
<1> QED
  BY <1>4, <1>6, <1>8, <1>11, <1>12, <1>13, <1>15, <1>16, Moves DEF c, o, s, p, G

\* Receive preserves the invariant.
LEMMA ReceiveGoes ==
    ASSUME Holds(end, wire), NEW e \in Ends, Receive(e)
    PROVE  Goes
<1> DEFINE c == end[e]
           o == Other(e)
           s == end[o].sent
           p == end["peer"].step
           shut == Quiet(end, wire)
           G == Said(e, p)
           d == Received(c, e, Head(wire[e]))
           tells == d.closed /\ ~Shut
           v == IF tells THEN <<Gone>> ELSE <<>>
<1>1. /\ c \in EndType /\ Settled(e, c, p) /\ c.sent \in Nat /\ Len(c.got) \in Nat /\ s \in Nat
      /\ Toward(e, c, wire[e], s, shut, G)
  BY Knows
<1>2. o \in Ends /\ o # e
  BY DEF Ends, Other
<1>3. wire \in [Ends -> Seq(Letters)] /\ end \in [Ends -> EndType]
  BY DEF Holds
<1>4. /\ wire[e] # <<>> /\ Head(wire[e]) # Gone /\ end' = [end EXCEPT ![e] = d]
      /\ wire' = [wire EXCEPT ![e] = IF e = "host" /\ d.closed THEN <<>> ELSE Tail(@),
                              ![o] = IF tells THEN Append(@, Gone) ELSE @]
  BY DEF Receive
<1>5. Gone \in Letters /\ Gone.kind = "gone"
  BY DEF Gone, Letters
<1>6. ~c.secure /\ c.step # "failed" => s = 0 \/ (e = "host" /\ s <= 1)
  BY BothServe
<1> HIDE DEF c, o, s, p, shut, G, d, tells
<1>7. v \in Seq(Letters) /\ Plain(v) /\ \A i \in DOMAIN v : v[i].kind # "text"
  BY <1>5 DEF Plain
<1>8. /\ wire' \in [Ends -> Seq(Letters)] /\ wire'[o] = wire[o] \o v
      /\ wire'[e] = IF e = "host" /\ d.closed THEN <<>> ELSE Tail(wire[e])
  <2>1. /\ Tail(wire[e]) \in Seq(Letters) /\ <<>> \in Seq(Letters) /\ wire[o] \in Seq(Letters)
        /\ Append(wire[o], Gone) \in Seq(Letters)
    BY <1>2, <1>3, <1>4, <1>5
  <2>2. wire[o] \o <<>> = wire[o] /\ Append(wire[o], Gone) = wire[o] \o <<Gone>>
    BY <1>5, <2>1
  <2> QED
    BY <1>2, <1>3, <1>4, <2>1, <2>2
<1>9. Toward(e, d, Tail(wire[e]), s, shut, G)
  BY <1>1, <1>4, <1>6, TowardReceived DEF d
<1>10. /\ d.secure = c.secure /\ d.sent = c.sent /\ (c.secure => d.early = c.early)
       /\ d.step = c.step \/ (d.step = "failed" /\ c.step \notin {"serving", "over"})
       /\ c.closed => d.closed
       /\ Len(c.got) <= Len(d.got) /\ (~c.secure => d.got = c.got)
  BY <1>1, <1>4, <1>6, <1>9, TowardReceived DEF d
<1>11. d \in EndType /\ d.got \in Seq(Nat) /\ c.got \in Seq(Nat)
  BY <1>1, <1>9 DEF Toward, Orderly, EndType
<1>12. Forward(c, d)
  BY <1>1, <1>10 DEF Forward, TextSteps
<1>13. Settled(e, d, p)
  <2>1. c.got # <<>> => d.got # <<>>
    BY <1>10, <1>11
  <2> QED
    BY <1>1, <1>10, <2>1 DEF Settled, TextSteps
<1>14. Settled(e, d, end'["peer"].step)
  <2>1. e = "host" => end'["peer"].step = p
    BY <1>3, <1>4 DEF Ends, p
  <2> QED
    BY <1>13, <2>1 DEF Settled, Ends
<1>q. shut => Quiet(end', wire')
  <2>1. CASE d.closed
    BY <1>2, <1>3, <1>4, <2>1 DEF Quiet
  <2>2. CASE ~d.closed
    <3>1. wire[e] \in Seq(Letters) /\ wire'[e] = Tail(wire[e])
      BY <1>3, <1>8, <2>2
    <3>2. ASSUME NEW i \in DOMAIN wire[e], wire[e][i] = Gone
          PROVE  \E k \in DOMAIN wire'[e] : wire'[e][k] = Gone
      <4>1. i # 1
        BY <1>4, <3>1, <3>2
      <4>2. i - 1 \in DOMAIN Tail(wire[e]) /\ Tail(wire[e])[i - 1] = Gone
        BY <1>4, <3>1, <3>2, <4>1
      <4> QED
        BY <3>1, <4>2
    <3>3. end[e].closed => d.closed
      BY <1>10 DEF c
    <3>4. wire'[o] = wire[o] \o v /\ v \in Seq(Letters) /\ o = Other(e) /\ end' = [end EXCEPT ![e] = d]
      BY <1>4, <1>7, <1>8 DEF o
    <3> HIDE DEF v
    <3> QED
      BY <3>2, <3>3, <3>4, QuietStays DEF shut
  <2> QED
    BY <2>1, <2>2
<1>15. Toward(e, d, wire'[e], s, Quiet(end', wire'), G)
  <2>1. end'[e] = d /\ end'[o] = end[o]
    BY <1>2, <1>3, <1>4
  <2>2. CASE e = "host" /\ d.closed
    <3>1. Quiet(end', wire') /\ wire'[e] = <<>>
      BY <1>2, <1>8, <2>1, <2>2 DEF Quiet
    <3>2. Toward(e, d, <<>>, s, TRUE, G)
      BY <1>1, <1>9, TowardEmptied
    <3> QED
      BY <3>1, <3>2, TowardMore
  <2>3. CASE ~(e = "host" /\ d.closed)
    <3>1. wire'[e] = Tail(wire[e])
      BY <1>8, <2>3
    <3> QED
      BY <1>9, <1>q, <3>1, TowardMore
  <2> QED
    BY <2>2, <2>3
<1> HIDE DEF v
<1>16. /\ \A i \in DOMAIN v : v[i].kind = "text" => v[i].type \in Said(o, end'["peer"].step)
       /\ Plain(v) /\ d.sent = end[e].sent
  BY <1>7, <1>10 DEF c
<1>17. end' = [end EXCEPT ![e] = d]
  BY <1>4
<1>18. wire' \in [Ends -> Seq(Letters)] /\ wire'[o] = wire[o] \o v /\ v \in Seq(Letters) /\ o = Other(e)
  BY <1>7, <1>8 DEF o
<1>19. Forward(end[e], d)
       /\ Toward(e, d, wire'[e], end[o].sent, Quiet(end', wire'), Said(e, end["peer"].step))
  BY <1>12, <1>15 DEF c, s, p, G
<1>20. Quiet(end, wire) => Quiet(end', wire')
  BY <1>q DEF shut
<1> QED
  BY <1>11, <1>14, <1>16, <1>17, <1>18, <1>19, <1>20, Moves

\* OldHostWrites preserves the invariant: a stray is not sealed in this session.
LEMMA OldHostWritesGoes ==
    ASSUME Holds(end, wire), OldHostWrites
    PROVE  Goes
<1> DEFINE d == end["host"]
           v == <<Stray>>
<1>0. "host" \in Ends /\ "peer" \in Ends /\ Other("host") = "peer"
  BY DEF Ends, Other
<1>1. wire \in [Ends -> Seq(Letters)] /\ end \in [Ends -> EndType]
  BY DEF Holds
<1>2. /\ d \in EndType /\ Settled("host", d, end["peer"].step) /\ d.sent \in Nat /\ Len(d.got) \in Nat
      /\ Toward("host", d, wire["host"], end["peer"].sent, Quiet(end, wire), Said("host", end["peer"].step))
  BY <1>0, Knows
<1>3. end' = end /\ wire' = [wire EXCEPT !["peer"] = Append(@, Stray)]
  BY DEF OldHostWrites
<1>4. end' = [end EXCEPT !["host"] = d]
  BY <1>1, <1>3
<1>5. v \in Seq(Letters) /\ Plain(v) /\ \A i \in DOMAIN v : v[i].kind # "text"
  BY DEF Plain, Stray, Letters
<1>6. wire' \in [Ends -> Seq(Letters)] /\ wire'["peer"] = wire["peer"] \o v /\ wire'["host"] = wire["host"]
  <2>1. Stray \in Letters /\ wire["peer"] \in Seq(Letters)
    BY <1>0, <1>1 DEF Stray, Letters
  <2>2. Append(wire["peer"], Stray) = wire["peer"] \o v /\ Append(wire["peer"], Stray) \in Seq(Letters)
    BY <2>1
  <2> HIDE DEF v
  <2> QED
    BY <1>0, <1>1, <1>3, <2>2
<1>7. Quiet(end, wire) => Quiet(end', wire')
  BY <1>0, <1>2, <1>4, <1>5, <1>6, QuietStays
<1>8. Forward(d, d)
  BY <1>2 DEF Forward
<1>9. Toward("host", d, wire'["host"], end["peer"].sent, Quiet(end', wire'), Said("host", end["peer"].step))
  BY <1>2, <1>6, <1>7, TowardMore
<1>10. Settled("host", d, end'["peer"].step)
  BY <1>2, <1>3
<1> HIDE DEF v
<1> QED
  BY <1>0, <1>2, <1>4, <1>5, <1>6, <1>7, <1>8, <1>9, <1>10, Moves

\* A connection that is severed keeps the invariant: what is lost is the end of a run,
\* and nothing follows any more.
LEMMA SeveredGoes ==
    ASSUME Holds(end, wire), end' = end, NEW told \in {<<>>, <<Gone>>}, Severed(told)
    PROVE  Goes
<1>1. PICK j \in 0..Len(wire["host"]), k \in 0..Len(wire["peer"]) :
         wire' = [host |-> SubSeq(wire["host"], 1, j) \o told,
                  peer |-> Append(SubSeq(wire["peer"], 1, k), Gone)]
  BY DEF Severed
<1>2. wire \in [Ends -> Seq(Letters)] /\ end \in [Ends -> EndType]
  BY DEF Holds
<1>3. ASSUME NEW e \in Ends
      PROVE  \E l \in 0..Len(wire[e]), y \in {<<>>, <<Gone>>} : wire'[e] = SubSeq(wire[e], 1, l) \o y
  <2>1. wire["host"] \in Seq(Letters) /\ wire["peer"] \in Seq(Letters) /\ Gone \in Letters
    BY <1>2 DEF Ends, Gone, Letters
  <2>2. SubSeq(wire["peer"], 1, k) \in Seq(Letters)
    BY <2>1
  <2>3. Append(SubSeq(wire["peer"], 1, k), Gone) = SubSeq(wire["peer"], 1, k) \o <<Gone>>
    BY <2>1, <2>2
  <2>4. wire'["host"] = SubSeq(wire["host"], 1, j) \o told
        /\ wire'["peer"] = SubSeq(wire["peer"], 1, k) \o <<Gone>>
    BY <1>1, <2>3
  <2>5. CASE e = "host"
    BY <2>4, <2>5
  <2>6. CASE e = "peer"
    BY <2>4, <2>6
  <2> QED
    BY <2>5, <2>6 DEF Ends
<1>q. Quiet(end', wire')
  <2>0. "peer" \in Ends /\ Gone \in Letters /\ wire["peer"] \in Seq(Letters)
    BY <1>2 DEF Ends, Gone, Letters
  <2>1. SubSeq(wire["peer"], 1, k) \in Seq(Letters) /\ "peer" \in Ends /\ Gone \in Letters
    BY <2>0
  <2> DEFINE x == SubSeq(wire["peer"], 1, k)
             z == Append(x, Gone)
  <2>2. wire'["peer"] = z
    BY <1>1
  <2> HIDE DEF x
  <2>3. Len(x) + 1 \in DOMAIN z /\ z[Len(x) + 1] = Gone
    BY <2>1 DEF x
  <2> HIDE DEF z
  <2> QED
    BY <2>1, <2>2, <2>3 DEF Quiet
<1>4. ASSUME NEW e \in Ends
      PROVE  /\ wire'[e] \in Seq(Letters)
             /\ Toward(e, end[e], wire'[e], end[Other(e)].sent, Quiet(end', wire'), Said(e, end["peer"].step))
  <2> DEFINE c == end[e]
             w == wire[e]
             s == end[Other(e)].sent
             shut == Quiet(end, wire)
             G == Said(e, end["peer"].step)
  <2>1. PICK l \in 0..Len(w), y \in {<<>>, <<Gone>>} : wire'[e] = SubSeq(w, 1, l) \o y
    BY <1>3
  <2>2. w \in Seq(Letters) /\ Toward(e, c, w, s, shut, G) /\ s \in Nat
    BY <1>2, Knows
  <2>3. Gone \in Letters /\ Gone.kind = "gone"
    BY DEF Gone, Letters
  <2> DEFINE x == SubSeq(w, 1, l)
             z == x \o y
  <2> HIDE DEF c, w, s, shut, G
  <2>y. y \in Seq(Letters) /\ Plain(y) /\ \A i \in DOMAIN y : y[i] = Gone
    <3>1. CASE y = <<>>
      BY <3>1, Nothing DEF Plain
    <3>2. CASE y = <<Gone>>
      <4> HIDE DEF x, z
      <4>1. y \in Seq(Letters) /\ DOMAIN y = {1} /\ y[1] = Gone
        BY <2>3, <3>2
      <4> QED
        BY <2>3, <4>1 DEF Plain
    <3> QED
      BY <2>1, <3>1, <3>2
  <2>4. /\ x \in Seq(Letters) /\ z \in Seq(Letters)
        /\ \A i \in DOMAIN z : z[i] = Gone \/ (i \in DOMAIN w /\ z[i] = w[i])
    <3>1. x \in Seq(Letters) /\ Len(x) = l /\ l \in Nat /\ \A i \in 1..l : x[i] = w[i] /\ i \in DOMAIN w
      BY <2>2
    <3>2. z \in Seq(Letters)
          /\ \A i \in DOMAIN z : (i \in DOMAIN x /\ z[i] = x[i])
                                \/ (i - Len(x) \in DOMAIN y /\ z[i] = y[i - Len(x)])
      <4> HIDE DEF x
      <4> QED
        BY <2>y, <3>1
    <3> HIDE DEF x, z
    <3> QED
      BY <2>y, <3>1, <3>2
  <2> HIDE DEF x, z
  <2>5. PICK a \in 0..s :
           /\ Orderly(c, a, G)
           /\ c.step # "failed" => \E m, b \in 0..s : Runs(c.early, a, m) /\ Runs(w, m, b)
    BY <2>2 DEF Toward
  <2>6. ASSUME c.step # "failed" PROVE \E m, b \in 0..s : Runs(c.early, a, m) /\ Runs(z, m, b)
    <3>1. PICK m \in 0..s, b \in 0..s : Runs(c.early, a, m) /\ Runs(w, m, b)
      BY <2>5, <2>6
    <3>2. PICK n \in Nat : Runs(x, m, n) /\ n <= b
      BY <2>2, <3>1, RunsCut DEF x
    <3>3. Runs(z, m, n)
      <4>1. Runs(y, n, n)
        BY <2>y, <3>2, RunsPlain
      <4> QED
        BY <2>y, <2>4, <3>2, <4>1, RunsOn DEF z
    <3>4. n \in 0..s
      BY <2>2, <3>2
    <3> QED
      BY <3>1, <3>3, <3>4
  <2>7. Quiet(end', wire')
    BY <1>q
  <2>8. \A i \in DOMAIN z : z[i].kind = "text" => z[i].type \in G
    BY <2>2, <2>3, <2>4 DEF Toward
  <2>9. Toward(e, c, z, s, Quiet(end', wire'), G)
    BY <2>4, <2>5, <2>6, <2>7, <2>8 DEF Toward
  <2> QED
    BY <2>1, <2>4, <2>9 DEF c, w, s, G, x, z
<1>5. wire' \in [Ends -> Seq(Letters)]
  <2>1. wire' = [e \in Ends |-> wire'[e]]
    BY <1>1 DEF Ends
  <2> QED
    BY <1>4, <2>1
<1>6. \A e \in Ends : Settled(e, end[e], end["peer"].step)
  BY DEF Holds
<1>7. \A e \in Ends : Forward(end[e], end[e])
  <2> SUFFICES ASSUME NEW e \in Ends PROVE Forward(end[e], end[e])
    OBVIOUS
  <2>1. end[e].sent \in Nat /\ Len(end[e].got) \in Nat
    BY Knows
  <2> QED
    BY <2>1 DEF Forward
<1> QED
  BY <1>2, <1>4, <1>5, <1>6, <1>7 DEF Goes, Holds

(***************************************************************************)
(* The invariant holds.                                                    *)
(***************************************************************************)

\* Both ends, and what comes to them, are as they should be.
ConnectionInv == Holds(end, wire)

\* An end at which nothing has happened yet.
Idle(c, step) ==
    /\ c \in EndType /\ c.step = step /\ c.due = FALSE /\ c.secure = FALSE
    /\ c.early = <<>> /\ c.inbox = <<>> /\ c.got = <<>> /\ c.sent = 0

\* Nothing has happened at a new connection, nor at one that was closed at once.
LEMMA FreshIdle ==
    ASSUME NEW step \in Steps
    PROVE  Idle(Fresh(step), step) /\ Idle([Fresh(step) EXCEPT !.closed = TRUE], step)
<1> DEFINE c == Fresh(step)
           d == [Fresh(step) EXCEPT !.closed = TRUE]
<1>1. <<>> \in Seq(Letters) /\ <<>> \in Seq(Nat) /\ 0 \in Nat
  OBVIOUS
<1> HIDE DEF Steps, Letters
<1>2. c \in EndType
  BY <1>1 DEF Fresh, EndType
<1>3. /\ c.step = step /\ c.due = FALSE /\ c.secure = FALSE
      /\ c.early = <<>> /\ c.inbox = <<>> /\ c.got = <<>> /\ c.sent = 0
  BY DEF Fresh
<1> HIDE DEF c
<1> DEFINE f == [c EXCEPT !.closed = TRUE]
<1>4. f \in EndType
  BY <1>2 DEF EndType
<1>5. /\ f.step = step /\ f.due = FALSE /\ f.secure = FALSE
      /\ f.early = <<>> /\ f.inbox = <<>> /\ f.got = <<>> /\ f.sent = 0
  BY <1>2, <1>3 DEF EndType
<1>6. f = d
  BY DEF c
<1> HIDE DEF d, f
<1>7. Idle(c, step)
  BY <1>2, <1>3 DEF Idle
<1>8. Idle(f, step)
  BY <1>4, <1>5 DEF Idle
<1> QED
  BY <1>6, <1>7, <1>8 DEF c, d

\* What comes to an idle end is in order as long as nothing of it is sealed.
LEMMA IdleToward ==
    ASSUME NEW e, NEW step, NEW c, Idle(c, step), NEW w \in Seq(Letters), Plain(w), NEW G,
           \A i \in DOMAIN w : w[i].kind = "text" => w[i].type \in G, NEW gone
    PROVE  Toward(e, c, w, 0, gone, G)
<1>1. Counters(0) = <<>>
  <2>1. Len(Counters(0)) = 0 /\ Counters(0) \in Seq(Nat)
    BY CountersAppend
  <2> QED
    BY <2>1
<1>2. Runs(<<>>, 0, 0) /\ Runs(w, 0, 0) /\ DOMAIN <<>> = {} /\ Len(<<>>) = 0
  BY Nothing, RunsPlain
<1>3. Orderly(c, 0, G)
  BY <1>1, <1>2 DEF Orderly, Idle
<1>4. 0 \in 0..0
  OBVIOUS
<1>5. c.early = <<>>
  BY DEF Idle
<1> QED
  BY <1>2, <1>3, <1>4, <1>5 DEF Toward

\* One more at the end of a sequence.
LEMMA OneMore ==
    ASSUME NEW q \in Seq(Letters), NEW f \in Letters
    PROVE  /\ q \o <<f>> \in Seq(Letters) /\ Len(q \o <<f>>) = Len(q) + 1
           /\ \A i \in 1..Len(q) : (q \o <<f>>)[i] = q[i]
           /\ (q \o <<f>>)[Len(q) + 1] = f
<1>1. <<f>> \in Seq(Letters) /\ Len(<<f>>) = 1 /\ <<f>>[1] = f /\ Append(q, f) = q \o <<f>>
  OBVIOUS
<1>2. /\ Append(q, f) \in Seq(Letters) /\ Len(Append(q, f)) = Len(q) + 1
      /\ \A i \in 1..Len(q) : Append(q, f)[i] = q[i]
      /\ Append(q, f)[Len(q) + 1] = f
  OBVIOUS
<1> QED
  BY <1>1, <1>2, Zenon

\* The two ends and the two wires at the start.
Begun(h, p, st, w, v) ==
    /\ end = [host |-> h, peer |-> p] /\ Idle(h, st) /\ Idle(p, "hello_ack")
    /\ st \in {"hello", "failed"} /\ w \in Seq(Letters) /\ v \in Seq(Letters)
    /\ wire = [host |-> w, peer |-> v]
    /\ Plain(w) /\ Plain(v)
    /\ \A i \in DOMAIN w : w[i].kind = "text" => w[i].type = "hello"
    /\ \A i \in DOMAIN v : v[i].kind = "text" => v[i].type = "handshake_reject"

\* The invariant holds at the start, where both ends are idle.
LEMMA InitHolds == ConnectionInit => ConnectionInv /\ \A e \in Ends : \E step : Idle(end[e], step)
<1> SUFFICES ASSUME ConnectionInit PROVE ConnectionInv /\ \A e \in Ends : \E step : Idle(end[e], step)
  OBVIOUS
<1>1. <<>> \in Seq(Letters) /\ Plain(<<>>) /\ DOMAIN <<>> = {}
  BY Nothing DEF Plain
<1>2. "hello" \in Steps /\ "hello_ack" \in Steps /\ "failed" \in Steps
  BY DEF Steps, Awaiting, TextSteps
<1>3. /\ Idle(Fresh("hello"), "hello") /\ Idle(Fresh("hello_ack"), "hello_ack")
      /\ Idle([Fresh("failed") EXCEPT !.closed = TRUE], "failed")
  BY <1>2, FreshIdle
<1>4. PICK h, p, st, w, v : Begun(h, p, st, w, v)
  <2>1. CASE "welcome" \in agree
    <3>1. PICK k \in 0..MaxStrays :
             wire = [host |-> [i \in 1..k |-> Stray] \o <<Text("hello")>>, peer |-> <<>>]
      BY <2>1 DEF ConnectionInit
    <3>2. end = [host |-> Fresh("hello"), peer |-> Fresh("hello_ack")]
      BY <2>1 DEF ConnectionInit
    <3> DEFINE x == [i \in 1..k |-> Stray]
               t == <<Text("hello")>>
               w == x \o t
    <3>3. k \in Nat
      BY ConnectionAssumption
    <3>4. Stray \in Letters /\ Stray.kind = "stray" /\ Text("hello") \in Letters /\ Text("hello").kind = "text"
          /\ Text("hello").type = "hello"
      BY DEF Stray, Text, Letters, TextSteps
    <3>5. x \in Seq(Letters) /\ Len(x) = k /\ \A i \in 1..k : x[i] = Stray
      BY <3>3, <3>4
    <3> HIDE DEF x
    <3>6. w \in Seq(Letters) /\ Len(w) = k + 1 /\ (\A i \in 1..k : w[i] = x[i]) /\ w[k + 1] = Text("hello")
      BY <3>4, <3>5, OneMore
    <3> HIDE DEF t
    <3>7. w \in Seq(Letters) /\ Len(w) = k + 1 /\ DOMAIN w = 1..(k + 1)
      BY <3>6
    <3>8. \A i \in 1..k : w[i] = Stray
      BY <3>5, <3>6
    <3>9. w[k + 1] = Text("hello")
      BY <3>6
    <3>10. wire = [host |-> w, peer |-> <<>>]
      BY <3>1 DEF x, t
    <3> HIDE DEF w
    <3>11. \A i \in DOMAIN w : w[i] = Stray \/ w[i] = Text("hello")
      <4> SUFFICES ASSUME NEW i \in 1..(k + 1) PROVE w[i] = Stray \/ w[i] = Text("hello")
        BY <3>7
      <4>1. i \in 1..k \/ i = k + 1
        BY <3>3
      <4> QED
        BY <4>1, <3>8, <3>9
    <3>12. Plain(w) /\ \A i \in DOMAIN w : w[i].kind = "text" => w[i].type = "hello"
      BY <3>4, <3>11 DEF Plain
    <3>13. DOMAIN <<>> = {} /\ <<>> \in Seq(Letters) /\ Plain(<<>>)
      BY <1>1
    <3>14. Begun(Fresh("hello"), Fresh("hello_ack"), "hello", w, <<>>)
      BY <1>3, <3>2, <3>7, <3>10, <3>12, <3>13 DEF Begun
    <3> QED
      BY <3>14
  <2>2. CASE "welcome" \notin agree
    <3> DEFINE v == <<Text("handshake_reject"), Gone>>
    <3>1. /\ end = [host |-> [Fresh("failed") EXCEPT !.closed = TRUE], peer |-> Fresh("hello_ack")]
          /\ wire = [host |-> <<>>, peer |-> v]
      BY <2>2 DEF ConnectionInit
    <3>2. Gone \in Letters /\ Gone.kind = "gone" /\ Text("handshake_reject") \in Letters
          /\ Text("handshake_reject").kind = "text" /\ Text("handshake_reject").type = "handshake_reject"
      BY DEF Gone, Text, Letters
    <3>3. v \in Seq(Letters) /\ Plain(v) /\ \A i \in DOMAIN v : v[i].kind = "text" => v[i].type = "handshake_reject"
      BY <3>2 DEF Plain
    <3> HIDE DEF v
    <3>4. Begun([Fresh("failed") EXCEPT !.closed = TRUE], Fresh("hello_ack"), "failed", <<>>, v)
      BY <1>1, <1>3, <3>1, <3>3 DEF Begun
    <3> QED
      BY <3>4
  <2> QED
    BY <2>1, <2>2
<1>5. end["host"] = h /\ end["peer"] = p /\ wire["host"] = w /\ wire["peer"] = v
  BY <1>4 DEF Begun
<1>6. Idle(h, st) /\ Idle(p, "hello_ack") /\ st \in {"hello", "failed"}
  BY <1>4 DEF Begun
<1>7. h.step = st /\ p.step = "hello_ack"
  BY <1>6 DEF Idle
<1>8. \A i \in DOMAIN w : w[i].kind = "text" => w[i].type \in Said("host", p.step)
  BY <1>4, <1>7 DEF Begun, Said, TextSteps
<1>9. \A i \in DOMAIN v : v[i].kind = "text" => v[i].type \in Said("peer", p.step)
  BY <1>4, <1>7 DEF Begun, Said
<1> DEFINE S == Quiet(end, wire)
           T == Quiet(end, wire)
           F == Said("host", p.step)
           G == Said("peer", p.step)
<1>10. Plain(w) /\ Plain(v) /\ w \in Seq(Letters) /\ v \in Seq(Letters)
  BY <1>4 DEF Begun
<1> HIDE DEF S, T, F, G
<1>11. Toward("host", h, w, 0, S, F)
  BY <1>6, <1>8, <1>10, IdleToward DEF F
<1>12. Toward("peer", p, v, 0, T, G)
  BY <1>6, <1>9, <1>10, IdleToward DEF G
<1>13. Settled("host", h, p.step) /\ Settled("peer", p, p.step)
  BY <1>6, <1>7 DEF Settled, TextSteps, Idle
<1>14. h \in EndType /\ p \in EndType /\ h.sent = 0 /\ p.sent = 0
  BY <1>6 DEF Idle
<1>15. end \in [Ends -> EndType] /\ wire \in [Ends -> Seq(Letters)]
  <2>1. end = [e \in Ends |-> end[e]] /\ wire = [e \in Ends |-> wire[e]]
    BY <1>4 DEF Begun, Ends
  <2>2. \A e \in Ends : end[e] \in EndType /\ wire[e] \in Seq(Letters)
    BY <1>5, <1>10, <1>14 DEF Ends
  <2> QED
    BY <2>1, <2>2
<1>16. \A e \in Ends : Settled(e, end[e], end["peer"].step)
  BY <1>5, <1>13 DEF Ends
<1>17. ASSUME NEW e \in Ends
       PROVE  Toward(e, end[e], wire[e], end[Other(e)].sent, Quiet(end, wire), Said(e, end["peer"].step))
  <2>1. CASE e = "host"
    BY <2>1, <1>5, <1>11, <1>14 DEF Other, S, F
  <2>2. CASE e = "peer"
    BY <2>2, <1>5, <1>12, <1>14 DEF Other, T, G
  <2> QED
    BY <2>1, <2>2 DEF Ends
<1>18. \A e \in Ends : \E step : Idle(end[e], step)
  BY <1>5, <1>6 DEF Ends
<1> QED
  BY <1>15, <1>16, <1>17, <1>18 DEF ConnectionInv, Holds

\* Every step leads to the invariant, with no end going back on anything; the facts stay.
LEMMA StepGoes ==
    ASSUME ConnectionInv, [ConnectionNext]_connectionVars
    PROVE  Goes /\ agree' = agree
<1>0. Holds(end, wire)
  BY DEF ConnectionInv
<1>1. CASE UNCHANGED connectionVars
  <2>1. end' = end /\ wire' = wire /\ agree' = agree
    BY <1>1 DEF connectionVars
  <2>2. ASSUME NEW e \in Ends PROVE Forward(end[e], end'[e])
    <3>1. end[e].sent \in Nat /\ Len(end[e].got) \in Nat
      BY <1>0, Knows
    <3> QED
      BY <2>1, <3>1 DEF Forward
  <2> QED
    BY <1>0, <2>1, <2>2 DEF Goes
<1>2. ASSUME NEW e \in Ends, Receive(e) PROVE Goes /\ agree' = agree
  BY <1>0, <1>2, ReceiveGoes DEF Receive
<1>3. ASSUME NEW e \in Ends, HearClose(e) PROVE Goes /\ agree' = agree
  BY <1>0, <1>3, HearCloseGoes DEF HearClose
<1>4. ASSUME NEW e \in Ends, TimeOut(e) PROVE Goes /\ agree' = agree
  BY <1>0, <1>4, TimeOutGoes DEF TimeOut
<1>5. ASSUME NEW e \in Ends, SendData(e) PROVE Goes /\ agree' = agree
  BY <1>0, <1>5, SendDataGoes DEF SendData
<1>6. ASSUME NEW e \in Ends, HeartbeatDies(e) PROVE Goes /\ agree' = agree
  BY <1>0, <1>6, HeartbeatDiesGoes DEF HeartbeatDies
<1>7. CASE HostAnswersHello \/ HostAnswersPake
  BY <1>0, <1>7, HostAsksGoes DEF HostAnswersHello, HostAnswersPake
<1>8. CASE HostConfirms
  BY <1>0, <1>8, HostConfirmsGoes DEF HostConfirms
<1>9. CASE HostAdmits
  BY <1>0, <1>9, HostAdmitsGoes DEF HostAdmits
<1>10. CASE PeerAnswersAck
  BY <1>0, <1>10, PeerAnswersAckGoes DEF PeerAnswersAck
<1>11. CASE PeerConfirms
  BY <1>0, <1>11, PeerConfirmsGoes DEF PeerConfirms
<1>12. CASE PeerJoined
  BY <1>0, <1>12, PeerJoinedGoes DEF PeerJoined
<1>13. CASE PeerLeaves \/ HostLeaves
  <2>1. agree' = agree
    BY <1>13 DEF PeerLeaves, HostLeaves
  <2>2. PeerLeaves \/ (HostLeaves /\ end["host"].step = "serving") \/ (end' = end /\ Severed(<<>>))
    BY <1>13 DEF HostLeaves
  <2> QED
    BY <1>0, <2>1, <2>2, LeavesGoes, SeveredGoes
<1>14. CASE OldHostWrites
  BY <1>0, <1>14, OldHostWritesGoes DEF OldHostWrites
<1>15. CASE Cut
  BY <1>0, <1>15, SeveredGoes DEF Cut
<1> QED
  BY <1>1, <1>2, <1>3, <1>4, <1>5, <1>6, <1>7, <1>8, <1>9, <1>10, <1>11, <1>12, <1>13, <1>14, <1>15
     DEF ConnectionNext, Resume

\* The invariant is inductive.
LEMMA StepHolds == ConnectionInv /\ [ConnectionNext]_connectionVars => ConnectionInv'
<1> SUFFICES ASSUME ConnectionInv, [ConnectionNext]_connectionVars PROVE ConnectionInv'
  OBVIOUS
<1>1. Holds(end', wire') /\ agree' = agree
  BY StepGoes DEF Goes
<1>2. Trusted' = Trusted
  BY <1>1 DEF Trusted
<1>3. (\A e \in Ends : Settled(e, end[e], end["peer"].step))'
  BY <1>1, <1>2 DEF Holds, Settled
<1>4. (\A e \in Ends : Toward(e, end[e], wire[e], end[Other(e)].sent, Quiet(end, wire), Said(e, end["peer"].step)))'
  BY <1>1 DEF Holds, Said
<1> QED
  BY <1>1, <1>3, <1>4 DEF Holds, ConnectionInv

\* The invariant of the connection: what is sealed for an end was taken, waits at it or is on its
\* way, each number once and in order, up to the last one sent or to a close; an end has keys
\* only when both know the password, and text messages only go as far as the handshake got.
THEOREM ConnectionHolds == ConnectionSpec => []ConnectionInv
<1> QED
  BY InitHolds, StepHolds, PTL DEF ConnectionSpec

\* Nothing that arrived is held back from an end that could take it.
THEOREM NothingHeldBack == ConnectionSpec => []NothingIsHeldBack
<1>1. ConnectionInv => NothingIsHeldBack
  <2> SUFFICES ASSUME ConnectionInv, NEW e \in Ends
               PROVE  /\ end[e].secure => end[e].early = <<>>
                      /\ \A i \in DOMAIN end[e].inbox : ~Listens(end[e], end[e].inbox[i].kind)
    BY DEF NothingIsHeldBack
  <2>1. Settled(e, end[e], end["peer"].step)
        /\ Toward(e, end[e], wire[e], end[Other(e)].sent, Quiet(end, wire), Said(e, end["peer"].step))
    BY DEF ConnectionInv, Holds
  <2>2. \E a, G : Orderly(end[e], a, G)
    BY <2>1 DEF Toward
  <2> QED
    BY <2>1, <2>2 DEF Settled, Orderly
<1> QED
  BY <1>1, ConnectionHolds, PTL
(***************************************************************************)
(* The connection is a secure channel.                                     *)
(***************************************************************************)

\* The first numbers are the beginning of more of them.
LEMMA CountersPrefix ==
    ASSUME NEW j \in Nat, NEW k \in Nat, j <= k
    PROVE  IsPrefix(Counters(j), Counters(k))
<1>1. /\ Counters(j) \in Seq(Nat) /\ Len(Counters(j)) = j
      /\ Counters(k) \in Seq(Nat) /\ Len(Counters(k)) = k
  BY CountersAppend
<1>2. SubSeq(Counters(j), 1, j) = Counters(j)
  BY DEF Counters
<1>3. SubSeq(Counters(k), 1, j) = Counters(j)
  BY DEF Counters
<1> QED
  BY <1>1, <1>2, <1>3 DEF IsPrefix

\* What the invariant says of what an end has sent and taken.
LEMMA Exchanged ==
    ASSUME NEW E, NEW W, Holds(E, W), NEW e \in Ends
    PROVE  /\ E[e].sent \in Nat /\ Len(E[e].got) \in Nat /\ E[e].got = Counters(Len(E[e].got))
           /\ Len(E[e].got) <= E[Other(e)].sent /\ E[Other(e)].sent \in Nat
           /\ IF E[e].secure THEN Trusted ELSE E[e].sent = 0
<1>1. Other(e) \in Ends
  BY DEF Ends, Other
<1>2. /\ E[e] \in EndType /\ E[Other(e)] \in EndType /\ Settled(e, E[e], E["peer"].step)
      /\ Toward(e, E[e], W[e], E[Other(e)].sent, Quiet(E, W), Said(e, E["peer"].step))
  BY <1>1 DEF Holds
<1>3. PICK a \in 0..E[Other(e)].sent : Orderly(E[e], a, Said(e, E["peer"].step))
  BY <1>2 DEF Toward
<1>4. E[e].got = Counters(Len(E[e].got)) /\ Len(E[e].got) <= a
  BY <1>3 DEF Orderly
<1>5. E[e].sent \in Nat /\ E[e].got \in Seq(Nat) /\ Len(E[e].got) \in Nat /\ E[Other(e)].sent \in Nat
  BY <1>2 DEF EndType
<1>6. IF E[e].secure THEN Trusted ELSE E[e].sent = 0
  BY <1>2 DEF Settled
<1> QED
  BY <1>3, <1>4, <1>5, <1>6

\* The abstract channel starts with nothing open, sealed or taken.
LEMMA ChannelStarts == ConnectionInit => Channel!ChannelInit
<1> SUFFICES ASSUME ConnectionInit PROVE Channel!ChannelInit
  OBVIOUS
<1>1. ASSUME NEW e \in Ends PROVE ~end[e].secure /\ end[e].sent = 0 /\ end[e].got = <<>>
  BY InitHolds DEF Idle
<1>2. Counters(0) = <<>>
  <2>1. Len(Counters(0)) = 0 /\ Counters(0) \in Seq(Nat)
    BY CountersAppend
  <2> QED
    BY <2>1
<1>3. {e \in Ends : end[e].secure} = {}
  BY <1>1
<1>4. [e \in Ends |-> Counters(end[e].sent)] = [e \in Ends |-> <<>>]
  BY <1>1, <1>2
<1>5. [e \in Ends |-> end[e].got] = [e \in Ends |-> <<>>]
  BY <1>1
<1>6. ({"target", "hardening", "password"} \subseteq agree) \in BOOLEAN
  OBVIOUS
<1> QED
  BY <1>3, <1>4, <1>5, <1>6 DEF Channel!ChannelInit

\* Every step is a step of the abstract channel.
LEMMA ChannelGoesOn == ConnectionInv /\ [ConnectionNext]_connectionVars => Channel!ChannelNext
<1> SUFFICES ASSUME ConnectionInv, [ConnectionNext]_connectionVars PROVE Channel!ChannelNext
  OBVIOUS
<1>1. Holds(end, wire) /\ Holds(end', wire') /\ (\A e \in Ends : Forward(end[e], end'[e])) /\ agree' = agree
  BY StepGoes DEF Goes, ConnectionInv
<1>2. ({"target", "hardening", "password"} \subseteq agree') = ({"target", "hardening", "password"} \subseteq agree)
  BY <1>1
<1>3. {e \in Ends : end[e].secure} \subseteq {e \in Ends : end'[e].secure}
  BY <1>1 DEF Forward
<1>4. ASSUME {e \in Ends : end'[e].secure} # {} PROVE {"target", "hardening", "password"} \subseteq agree
  <2>1. PICK e \in Ends : end'[e].secure
    BY <1>4
  <2>2. Trusted
    BY <1>1, <2>1, Exchanged
  <2> QED
    BY <2>2 DEF Trusted
<1>5. ASSUME NEW e \in Ends
      PROVE  /\ IsPrefix(Counters(end[e].sent), Counters(end'[e].sent))
             /\ Counters(end'[e].sent) # Counters(end[e].sent) => end'[e].secure
             /\ IsPrefix(end[e].got, end'[e].got)
             /\ IsPrefix(end'[e].got, Counters(end'[Other(e)].sent))
  <2>1. /\ end[e].sent \in Nat /\ Len(end[e].got) \in Nat /\ end[e].got = Counters(Len(end[e].got))
    BY <1>1, Exchanged
  <2>2. /\ end'[e].sent \in Nat /\ Len(end'[e].got) \in Nat /\ end'[e].got = Counters(Len(end'[e].got))
        /\ Len(end'[e].got) <= end'[Other(e)].sent /\ end'[Other(e)].sent \in Nat
        /\ IF end'[e].secure THEN Trusted ELSE end'[e].sent = 0
    BY <1>1, Exchanged
  <2>3. end[e].sent <= end'[e].sent /\ Len(end[e].got) <= Len(end'[e].got)
    BY <1>1 DEF Forward
  <2>4. IsPrefix(Counters(end[e].sent), Counters(end'[e].sent))
    BY <2>1, <2>2, <2>3, CountersPrefix
  <2>5. end'[e].sent # end[e].sent => end'[e].secure
    BY <2>1, <2>2, <2>3
  <2>6. IsPrefix(Counters(Len(end[e].got)), Counters(Len(end'[e].got)))
    BY <2>1, <2>2, <2>3, CountersPrefix
  <2>7. IsPrefix(Counters(Len(end'[e].got)), Counters(end'[Other(e)].sent))
    BY <2>2, CountersPrefix
  <2>8. IsPrefix(end[e].got, end'[e].got)
    BY <2>1, <2>2, <2>6
  <2>9. IsPrefix(end'[e].got, Counters(end'[Other(e)].sent))
    BY <2>2, <2>7
  <2> QED
    BY <2>4, <2>5, <2>8, <2>9
<1>6. \A e \in Ends : Other(e) \in Ends
  BY DEF Ends, Other
<1>7. \A s, t : Channel!IsPrefix(s, t) = IsPrefix(s, t)
  BY DEF Channel!IsPrefix, IsPrefix
<1>8. ASSUME NEW e \in Ends
      PROVE  /\ Channel!IsPrefix([i \in Ends |-> Counters(end[i].sent)][e], [i \in Ends |-> Counters(end'[i].sent)][e])
             /\ [i \in Ends |-> Counters(end'[i].sent)][e] # [i \in Ends |-> Counters(end[i].sent)][e]
                   => e \in {i \in Ends : end'[i].secure}
             /\ Channel!IsPrefix([i \in Ends |-> end[i].got][e], [i \in Ends |-> end'[i].got][e])
             /\ Channel!IsPrefix([i \in Ends |-> end'[i].got][e], [i \in Ends |-> Counters(end'[i].sent)][Other(e)])
  BY <1>5, <1>6, <1>7
<1> HIDE DEF Counters, Trusted, ConnectionInv, ConnectionNext
<1> QED
  BY <1>2, <1>3, <1>4, <1>8 DEF Channel!ChannelNext

\* The connection implements the secure channel: nothing is sealed unless both ends know the
\* same secret, and an end takes what the other end sealed for it, in order, once, without a gap.
THEOREM ConnectionRefines == ConnectionSpec => ImplementsChannel
<1>1. ConnectionInv /\ [ConnectionNext]_connectionVars => [Channel!ChannelNext]_Channel!channelVars
  BY ChannelGoesOn
<1> QED
  BY ChannelStarts, ConnectionHolds, <1>1, PTL DEF ConnectionSpec, ImplementsChannel, Channel!ChannelSpec
=============================================================================

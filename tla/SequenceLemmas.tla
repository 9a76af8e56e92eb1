--------------------------- MODULE SequenceLemmas ---------------------------
(***************************************************************************)
(* Induction in a form the provers can use: over sets instead of over      *)
(* predicates.  A statement about every number or every sequence is proved *)
(* by showing that the set it holds for is closed under "the next one".    *)
(***************************************************************************)
EXTENDS Integers, Sequences, FiniteSetTheorems, TLAPS

\* What begins at 0 and goes on to the next number reaches n: otherwise "the next number"
\* would map a finite set into itself less an element.
LEMMA Reaching ==
    ASSUME NEW n \in Nat, NEW S, 0 \in S, \A i \in 0..(n - 1) : i \in S => i + 1 \in S
    PROVE  n \in S
<1> DEFINE T == S \cap (0..n)
           next == [i \in T |-> i + 1]
<1>1. SUFFICES ASSUME n \notin S PROVE FALSE
  OBVIOUS
<1>2. T \subseteq Nat /\ 0 \in T /\ \A i \in T : i <= n
  OBVIOUS
<1>3. \A i \in T : i \in 0..(n - 1) /\ i + 1 \in T \ {0}
  BY <1>1
<1>4. next \in [T -> T \ {0}]
  BY <1>3
<1>5. IsFiniteSet(T)
  BY <1>2, FS_BoundedSetOfNaturals
<1>6. IsFiniteSet(T \ {0}) /\ Cardinality(T \ {0}) = Cardinality(T) - 1 /\ Cardinality(T) \in Nat
  BY <1>2, <1>5, FS_RemoveElement, FS_CardinalityType
<1> HIDE DEF T
<1>7. PICK x \in T, y \in T : x # y /\ next[x] = next[y]
  <2>1. Cardinality(T \ {0}) < Cardinality(T)
    BY <1>6
  <2> HIDE DEF next
  <2> QED
    BY <2>1, <1>4, <1>5, <1>6, FS_PigeonHole
<1>8. x \in Nat /\ y \in Nat /\ x + 1 = y + 1
  BY <1>2, <1>7
<1> QED
  BY <1>7, <1>8

\* The same for every number up to n.
LEMMA ReachingAll ==
    ASSUME NEW n \in Nat, NEW S, 0 \in S, \A i \in 0..(n - 1) : i \in S => i + 1 \in S
    PROVE  \A i \in 0..n : i \in S
<1>1. TAKE i \in 0..n
<1>2. i \in Nat /\ \A j \in 0..(i - 1) : j \in S => j + 1 \in S
  OBVIOUS
<1> QED
  BY <1>2, Reaching

\* The iteration of step from first, as a function of the number of steps made.
Iteration(f, n, first, step) ==
    f = [i \in 0..n |-> IF i = 0 THEN first ELSE step[<<i, f[i - 1]>>]]

\* A recursive function on 0..n exists.
LEMMA Iterates ==
    ASSUME NEW n \in Nat, NEW V, NEW first \in V, NEW step \in [(1..n) \X V -> V]
    PROVE  \E f \in [0..n -> V] : Iteration(f, n, first, step)
<1> DEFINE S == {k \in 0..n : \E f \in [0..k -> V] : Iteration(f, k, first, step)}
<1>1. 0 \in S
  <2>1. [i \in 0..0 |-> first] \in [0..0 -> V]
    OBVIOUS
  <2>2. Iteration([i \in 0..0 |-> first], 0, first, step)
    BY DEF Iteration
  <2> QED
    BY <2>1, <2>2
<1>2. ASSUME NEW k \in 0..(n - 1), k \in S PROVE k + 1 \in S
  <2>1. PICK f \in [0..k -> V] : Iteration(f, k, first, step)
    BY <1>2
  <2>2. \A i \in 0..k : f[i] = IF i = 0 THEN first ELSE step[<<i, f[i - 1]>>]
    BY <2>1 DEF Iteration
  <2> DEFINE g == [i \in 0..(k + 1) |-> IF i <= k THEN f[i] ELSE step[<<k + 1, f[k]>>]]
  <2>3. f[k] \in V /\ step[<<k + 1, f[k]>>] \in V
    <3>1. f[k] \in V /\ k + 1 \in 1..n
      OBVIOUS
    <3>2. <<k + 1, f[k]>> \in (1..n) \X V
      BY <3>1
    <3> QED
      BY <3>1, <3>2
  <2>4. g \in [0..(k + 1) -> V]
    BY <2>3
  <2>5. ASSUME NEW i \in 0..(k + 1)
        PROVE  g[i] = IF i = 0 THEN first ELSE step[<<i, g[i - 1]>>]
    <3>1. CASE i = 0
      <4>1. g[i] = f[i] /\ i \in 0..k
        BY <3>1
      <4> QED
        BY <4>1, <3>1, <2>2
    <3>2. CASE i # 0 /\ i <= k
      <4>1. g[i] = f[i] /\ g[i - 1] = f[i - 1] /\ i \in 0..k
        BY <3>2
      <4> QED
        BY <4>1, <3>2, <2>2
    <3>3. CASE i = k + 1
      <4>1. g[i] = step[<<k + 1, f[k]>>] /\ g[i - 1] = f[k] /\ i # 0
        BY <3>3
      <4> QED
        BY <4>1, <3>3
    <3> QED
      BY <3>1, <3>2, <3>3
  <2>6. Iteration(g, k + 1, first, step)
    BY <2>5 DEF Iteration
  <2> HIDE DEF g
  <2> QED
    BY <2>4, <2>6
<1>3. n \in S
  <2> HIDE DEF S
  <2> QED
    BY <1>1, <1>2, Reaching
<1> QED
  BY <1>3

\* What holds of the empty sequence, and of a sequence with one more entry whenever it holds
\* of the sequence, holds of every sequence.
LEMMA SequenceInduction ==
    ASSUME NEW V, NEW T, <<>> \in T,
           \A s \in Seq(V), x \in V : s \in T => Append(s, x) \in T
    PROVE  Seq(V) \subseteq T
<1>1. SUFFICES ASSUME NEW s \in Seq(V) PROVE s \in T
  OBVIOUS
<1> DEFINE initial(k) == SubSeq(s, 1, k)
           S == {k \in 0..Len(s) : initial(k) \in T}
<1>2. Len(s) \in Nat
  OBVIOUS
<1>3. 0 \in S
  <2>1. initial(0) = <<>>
    OBVIOUS
  <2> HIDE DEF initial
  <2> QED
    BY <2>1, <1>2
<1>4. ASSUME NEW k \in 0..(Len(s) - 1), k \in S PROVE k + 1 \in S
  <2>1. k + 1 \in 1..Len(s) /\ s[k + 1] \in V /\ initial(k) \in Seq(V)
    BY <1>2
  <2>2. initial(k + 1) = Append(initial(k), s[k + 1])
    BY <1>2, <2>1
  <2> HIDE DEF initial
  <2>3. initial(k) \in T
    BY <1>4
  <2>4. Append(initial(k), s[k + 1]) \in T
    BY <2>1, <2>3
  <2>5. k + 1 \in 0..Len(s)
    BY <2>1, <1>2
  <2> QED
    BY <2>2, <2>4, <2>5
<1>5. Len(s) \in S
  <2> HIDE DEF S
  <2> QED
    BY <1>2, <1>3, <1>4, Reaching
<1>6. initial(Len(s)) = s
  OBVIOUS
<1> HIDE DEF initial
<1> QED
  BY <1>5, <1>6
=============================================================================

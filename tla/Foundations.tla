------------------------------ MODULE Foundations -----------------------------
(***************************************************************************)
(* Facts the proofs of several modules rest on: least members of finite    *)
(* sets, induction over a set of numbers (from the well-foundedness of     *)
(* strict inclusion, as a minimal counterexample), the existence and the   *)
(* uniqueness of functions that recur over 0..N, and what FlattenSeq of a  *)
(* sequence of sequences holds, in which order.                            *)
(***************************************************************************)
EXTENDS Integers, FiniteSets, SequencesExt, FiniteSetTheorems, WellFoundedInduction, TLAPS

-------------------------------------------------------------------------------
(* Least members and induction                                               *)

(* A finite, nonempty family of subsets has one that holds no other.         *)
LEMMA Minimal ==
    ASSUME NEW S, IsFiniteSet(S)
    PROVE  \A T \in SUBSET SUBSET S : T # {} =>
             \E U \in T : \A V \in T : ~(V \subseteq U /\ V # U)
<1>. SUFFICES ASSUME NEW T \in SUBSET SUBSET S, T # {}
              PROVE  \E U \in T : \A V \in T : ~(V \subseteq U /\ V # U)
  OBVIOUS
<1>1. IsWellFoundedOn(StrictSubsetOrdering(S), FiniteSubsetsOf(S))
  BY FS_StrictSubsetOrderingWellFounded
<1>2. T \subseteq FiniteSubsetsOf(S)
  BY FS_FiniteSubsetsOfFinite
<1>3. \E U \in T : \A V \in T : ~(<<V, U>> \in StrictSubsetOrdering(S))
  BY <1>1, <1>2, WFMin
<1>4. QED
  BY <1>3 DEF StrictSubsetOrdering

(* A finite set of numbers has a first and a last.                           *)
LEMMA FirstAndLast ==
    \A S : S \subseteq Nat /\ IsFiniteSet(S) /\ S # {}
             => /\ \E n \in S : \A m \in S : n <= m
                /\ \E n \in S : \A m \in S : m <= n
<1>1. SUFFICES ASSUME NEW S, S \subseteq Nat, IsFiniteSet(S), S # {}
               PROVE  /\ \E n \in S : \A m \in S : n <= m
                      /\ \E n \in S : \A m \in S : m <= n
  OBVIOUS
<1>. DEFINE Upto(n) == {m \in S : m <= n}
            From(n) == {m \in S : n <= m}
            T == {Upto(n) : n \in S}
            F == {From(n) : n \in S}
<1>2. /\ T \in SUBSET SUBSET S /\ T # {}
      /\ F \in SUBSET SUBSET S /\ F # {}
  BY <1>1
<1>3. /\ \E U \in T : \A V \in T : ~(V \subseteq U /\ V # U)
      /\ \E U \in F : \A V \in F : ~(V \subseteq U /\ V # U)
  <2>1. IsFiniteSet(S)
    BY <1>1
  <2>. HIDE DEF T, F
  <2>. QED
    BY <2>1, <1>2, Minimal
<1>4. \E n \in S : \A m \in S : n <= m
  <2>1. PICK n \in S : \A V \in T : ~(V \subseteq Upto(n) /\ V # Upto(n))
    BY <1>3
  <2>2. ASSUME NEW m \in S, m < n PROVE FALSE
    <3>1. m \in Nat /\ n \in Nat
      BY <1>1
    <3>2. (\A k \in Upto(m) : k \in Upto(n)) /\ n \in Upto(n) /\ n \notin Upto(m)
      BY <1>1, <2>2, <3>1
    <3>3. QED
      BY <2>1, <3>2
  <2>3. QED
    BY <1>1, <2>2
<1>5. \E n \in S : \A m \in S : m <= n
  <2>1. PICK n \in S : \A V \in F : ~(V \subseteq From(n) /\ V # From(n))
    BY <1>3
  <2>2. ASSUME NEW m \in S, n < m PROVE FALSE
    <3>1. m \in Nat /\ n \in Nat
      BY <1>1
    <3>2. (\A k \in From(m) : k \in From(n)) /\ n \in From(n) /\ n \notin From(m)
      BY <1>1, <2>2, <3>1
    <3>3. QED
      BY <2>1, <3>2
  <2>3. QED
    BY <1>1, <2>2
<1>6. QED
  BY <1>4, <1>5

(* What holds of zero, and of the next of every number it holds of.          *)
LEMMA Induction ==
    ASSUME NEW N \in Nat, NEW S,
           0 \in S,
           \A i \in 1..N : i - 1 \in S => i \in S
    PROVE  0..N \subseteq S
<1>. DEFINE bad == (0..N) \ S
<1>1. SUFFICES ASSUME bad # {} PROVE FALSE
  OBVIOUS
<1>2. bad \subseteq Nat /\ IsFiniteSet(bad)
  <2>1. IsFiniteSet(0..N)
    BY FS_Interval
  <2>2. bad \subseteq 0..N
    OBVIOUS
  <2>. QED
    BY <2>1, <2>2, FS_Subset
<1>3. PICK n \in bad : \A m \in bad : n <= m
  BY <1>1, <1>2, FirstAndLast
<1>4. n \in 1..N /\ n - 1 \in 0..N
  BY <1>3
<1>5. n - 1 \notin bad
  BY <1>3, <1>4
<1>. QED
  BY <1>3, <1>4, <1>5

-------------------------------------------------------------------------------
(* Recursion over 0..N                                                       *)

\* f starts at base and goes from one number to the next by the steps.
Recurs(f, N, base, step) ==
    f[0] = base /\ \A i \in 1..N : f[i] = step[i][f[i - 1]]

(* Steps that keep to a set define a function on 0..N.                       *)
LEMMA Recursion ==
    ASSUME NEW N \in Nat, NEW T, NEW base \in T, NEW step \in [1..N -> [T -> T]]
    PROVE  \E f \in [0..N -> T] : Recurs(f, N, base, step)
<1>. DEFINE Upto(n, f) ==
              /\ f \in [0..N -> T]
              /\ f[0] = base
              /\ \A i \in 1..n : f[i] = step[i][f[i - 1]]
            S == {n \in 0..N : \E f : Upto(n, f)}
<1>1. 0 \in S
  <2>1. Upto(0, [i \in 0..N |-> base])
    OBVIOUS
  <2>2. \E f : Upto(0, f)
    <3>. HIDE DEF Upto
    <3>. QED
      BY <2>1
  <2>. QED
    BY <2>2
<1>2. ASSUME NEW n \in 1..N, n - 1 \in S PROVE n \in S
  <2>1. PICK f : Upto(n - 1, f)
    BY <1>2
  <2>. DEFINE g == [f EXCEPT ![n] = step[n][f[n - 1]]]
  <2>2. step[n] \in [T -> T] /\ f[n - 1] \in T
    BY <2>1
  <2>3. step[n][f[n - 1]] \in T
    BY <2>2
  <2>4. g \in [0..N -> T] /\ g[0] = base
    BY <2>1, <2>3
  <2>5. ASSUME NEW i \in 1..n PROVE g[i] = step[i][g[i - 1]]
    <3>1. g[i - 1] = f[i - 1]
      BY <2>1
    <3>2. i # n => g[i] = f[i] /\ i \in 1..(n - 1)
      BY <2>1
    <3>. QED
      BY <2>1, <2>5, <3>1, <3>2
  <2>6. Upto(n, g)
    <3>. HIDE DEF g
    <3>. QED
      BY <2>4, <2>5
  <2>7. \E h : Upto(n, h)
    <3>. HIDE DEF Upto, g
    <3>. QED
      BY <2>6
  <2>. QED
    BY <2>7
<1>3. N \in S
  <2>. HIDE DEF S
  <2>1. 0..N \subseteq S
    BY <1>1, <1>2, Induction
  <2>. QED
    BY <2>1
<1>4. PICK f : Upto(N, f)
  BY <1>3
<1>5. f \in [0..N -> T] /\ Recurs(f, N, base, step)
  BY <1>4 DEF Recurs
<1>. QED
  BY <1>5

-------------------------------------------------------------------------------
(* Flattening                                                                *)

(* FlattenSeq appends one sequence after the other.                          *)
LEMMA FlattenSteps ==
    ASSUME NEW T, NEW s \in Seq(Seq(T))
    PROVE  \E h \in [0..Len(s) -> Seq(T)] :
              /\ h[0] = <<>>
              /\ \A i \in 1..Len(s) : h[i] = h[i - 1] \o s[i]
              /\ FlattenSeq(s) = h[Len(s)]
<1>. DEFINE N == Len(s)
            Q == Seq(T)
            Joins(h) == /\ h[0] = <<>>
                        /\ \A i \in 1..N : h[i] = h[i - 1] \o s[i]
            step == [i \in 1..N |-> [t \in Q |-> t \o s[i]]]
            Flattens(h) == h = [i \in 1..N |-> IF i = 1 THEN s[i] ELSE h[i - 1] \o s[i]]
<1>1. /\ N \in Nat /\ \A i \in 1..N : s[i] \in Q
      /\ <<>> \in Q /\ \A t \in Q, v \in Q : t \o v \in Q
      /\ \A t \in Q : <<>> \o t = t
  OBVIOUS
<1>2. step \in [1..N -> [Q -> Q]]
  <2>. HIDE DEF Q, N
  <2>. QED
    BY <1>1
<1>3. \E f \in [0..N -> Q] : Recurs(f, N, <<>>, step)
  <2>1. N \in Nat /\ <<>> \in Q
    BY <1>1
  <2>. HIDE DEF step, N, Q
  <2>. QED
    BY <2>1, <1>2, Recursion
<1>4. PICK f \in [0..N -> Q] : Recurs(f, N, <<>>, step)
  <2>. HIDE DEF step, N, Q
  <2>. QED
    BY <1>3
<1>5. f[0] = <<>> /\ \A i \in 1..N : f[i] = step[i][f[i - 1]] /\ f[i - 1] \in Q
  <2>1. \A i \in 1..N : i - 1 \in 0..N
    BY <1>1
  <2>. HIDE DEF step, Q, N
  <2>. QED
    BY <1>4, <2>1 DEF Recurs
<1>6. Joins(f)
  <2>. HIDE DEF N, Q
  <2>. QED
    BY <1>5
<1>7. CASE N = 0
  <2>1. FlattenSeq(s) = <<>>
    BY <1>7 DEF FlattenSeq
  <2>2. FlattenSeq(s) = f[N]
    BY <2>1, <1>5, <1>7
  <2>. HIDE DEF Joins, N, Q
  <2>3. \E h \in [0..N -> Q] : Joins(h) /\ FlattenSeq(s) = h[N]
    BY <1>6, <2>2
  <2>. QED
    BY <2>3 DEF Joins, N, Q
<1>8. CASE N # 0
  <2>. DEFINE g == [i \in 1..N |-> f[i]]
  <2>1. ASSUME NEW i \in 1..N
        PROVE  g[i] = IF i = 1 THEN s[i] ELSE g[i - 1] \o s[i]
    <3>1. s[i] \in Q /\ f[i] = f[i - 1] \o s[i] /\ f[0] = <<>>
      BY <1>1, <1>6
    <3>2. i = 1 => f[i] = s[i]
      <4>. HIDE DEF Q
      <4>. QED
        BY <1>1, <3>1
    <3>3. i # 1 => i - 1 \in 1..N
      BY <1>1
    <3>. HIDE DEF N, Q, step
    <3>. QED
      BY <3>1, <3>2, <3>3
  <2>2. Flattens(g)
    <3>1. g = [i \in 1..N |-> g[i]]
      OBVIOUS
    <3>. HIDE DEF g, N
    <3>. QED
      BY <2>1, <3>1
  <2>. DEFINE h == CHOOSE x : Flattens(x)
  <2>3. Flattens(h)
    <3>. HIDE DEF g, Flattens
    <3>. QED
      BY <2>2
  <2>4. FlattenSeq(s) = h[N]
    BY <1>8 DEF FlattenSeq
  <2>5. \A i \in 1..N : h[i] = IF i = 1 THEN s[i] ELSE h[i - 1] \o s[i]
    <3>. HIDE DEF h, N
    <3>. QED
      BY <2>3
  <2>. DEFINE same == {i \in 0..N : i = 0 \/ h[i] = f[i]}
  <2>6. 0..N \subseteq same
    <3>. HIDE DEF h, Q, Joins
    <3>0. f[0] = <<>> /\ \A i \in 1..N : f[i] = f[i - 1] \o s[i]
      BY <1>6 DEF Joins
    <3>1. 0 \in same
      BY <1>1
    <3>2. ASSUME NEW i \in 1..N, i - 1 \in same PROVE i \in same
      <4>0. i \in 0..N
        BY <1>1
      <4>1. CASE i = 1
        <5>1. h[i] = s[i] /\ f[i] = f[0] \o s[i] /\ f[0] = <<>> /\ s[i] \in Q
          <6>1. i - 1 = 0 /\ h[i] = s[i]
            <7>. HIDE DEF N
            <7>. QED
              BY <4>1, <2>5
          <6>. QED
            BY <6>1, <1>1, <3>0
        <5>2. f[i] = s[i]
          BY <5>1, <1>1
        <5>. QED
          BY <5>1, <5>2
      <4>2. CASE i # 1
        <5>1. h[i - 1] = f[i - 1]
          BY <1>1, <3>2, <4>2
        <5>2. h[i] = h[i - 1] \o s[i] /\ f[i] = f[i - 1] \o s[i]
          BY <3>0, <2>5, <4>2
        <5>. QED
          BY <5>1, <5>2, <4>0
      <4>. QED
        BY <4>1, <4>2
    <3>. HIDE DEF same, N
    <3>. QED
      BY <1>1, <3>1, <3>2, Induction
  <2>7. h[N] = f[N]
    <3>. HIDE DEF h
    <3>. QED
      BY SMTT(20), <1>1, <1>8, <2>6
  <2>. HIDE DEF Joins, N, Q
  <2>8. \E x \in [0..N -> Q] : Joins(x) /\ FlattenSeq(s) = x[N]
    BY <1>6, <2>4, <2>7
  <2>. QED
    BY <2>8 DEF Joins, N, Q
<1>. QED
  BY <1>7, <1>8

===============================================================================

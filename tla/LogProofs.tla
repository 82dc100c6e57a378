------------------------------ MODULE LogProofs -----------------------------
(***************************************************************************)
(* Theorems about module LogShipping, for any number of units, log writers *)
(* and connections and every bound: what reaches the files is in order,    *)
(* what does not is bounded, and the files are what was recorded last.     *)
(*                                                                         *)
(* First the rest of the induction that LogOrder begins: no piece is lost  *)
(* but by a mishap (Counted), and the files are pieces of the record and   *)
(* stay so in the middle of a rotation (Rotates, Stored, Sunk, Sized).     *)
(* Then IInv holds always, and each theorem follows from a part of it.     *)
(***************************************************************************)
EXTENDS LogOrder

-------------------------------------------------------------------------------
(* Counts                                                                    *)

\* A piece of a unit in some line.
InLines(x, u, lines) ==
    \E i \in DOMAIN lines : lines[i].unit = u /\ x \in Range(lines[i].line)

\* A piece of a start in some partial line.
InSources(x, u, g, sources) ==
    \E i \in DOMAIN sources :
        sources[i].unit = u /\ sources[i].gen = g /\ x \in Range(sources[i].partial)

\* What a log writer holds of a start.
LEMMA PartsMembers ==
    ASSUME NEW u, NEW g, NEW lines, NEW sources
    PROVE  /\ \A x : x \in Pieces(PendingOf(u, lines)) <=> InLines(x, u, lines)
           /\ \A x : x \in PartsOf(u, g, lines, sources) <=>
                 x.gen = g /\ (InLines(x, u, lines) \/ InSources(x, u, g, sources))
<1>. DEFINE L == PendingOf(u, lines)
            R == PartialOf(u, g, sources)
<1>1. Range(<<>>) = {}
  BY DEF Range
<1>2. /\ DOMAIN L = DOMAIN lines
      /\ \A i \in DOMAIN L : L[i] = IF lines[i].unit = u THEN lines[i].line ELSE <<>>
  BY DEF PendingOf
<1>3. /\ DOMAIN R = DOMAIN sources
      /\ \A i \in DOMAIN R :
            R[i] = IF sources[i].unit = u /\ sources[i].gen = g THEN sources[i].partial ELSE <<>>
  BY DEF PartialOf
<1>4. \A x : x \in PartsOf(u, g, lines, sources) <=>
               x.gen = g /\ (x \in Pieces(L) \/ x \in Pieces(R))
  BY DEF PartsOf
<1>. HIDE DEF L, R
<1>5. \A x : x \in Pieces(L) <=> \E i \in DOMAIN L : x \in Range(L[i])
  BY DEF Pieces
<1>6. \A x : x \in Pieces(R) <=> \E i \in DOMAIN R : x \in Range(R[i])
  BY DEF Pieces
<1>7. \A x : x \in Pieces(L) <=> InLines(x, u, lines)
  <2>. SUFFICES ASSUME NEW x PROVE x \in Pieces(L) <=> InLines(x, u, lines)
    OBVIOUS
  <2>1. ASSUME NEW i \in DOMAIN L PROVE x \in Range(L[i]) <=> lines[i].unit = u /\ x \in Range(lines[i].line)
    BY <1>1, <1>2
  <2>. QED
    BY <1>2, <1>5, <2>1 DEF InLines
<1>8. \A x : x \in Pieces(R) <=> InSources(x, u, g, sources)
  <2>. SUFFICES ASSUME NEW x PROVE x \in Pieces(R) <=> InSources(x, u, g, sources)
    OBVIOUS
  <2>1. ASSUME NEW i \in DOMAIN R
        PROVE  x \in Range(R[i]) <=> sources[i].unit = u /\ sources[i].gen = g /\ x \in Range(sources[i].partial)
    BY <1>1, <1>3
  <2>. QED
    BY <1>3, <1>6, <2>1 DEF InSources
<1>. QED
  BY <1>4, <1>7, <1>8 DEF L

\* The rest of what there is of a start, apart from one log writer.
Rest(u, g, w) == UNION {Parts(u, g, v) : v \in Writers \ {w}}

\* What there is of a start, one log writer's part apart from the others'.
LEMMA PresentApart ==
    ASSUME NEW u, NEW g, NEW w \in Writers
    PROVE  Present(u, g) = Stock(u, g) \cup Parts(u, g, w) \cup Rest(u, g, w)
  BY DEF Present, Rest

\* A step of one log writer leaves what the others hold.
LEMMA RestKept ==
    ASSUME NEW u, NEW g, NEW w \in Writers, Others(w)
    PROVE  /\ \A v \in Writers \ {w} : Parts(u, g, v)' = Parts(u, g, v)
           /\ Rest(u, g, w)' = Rest(u, g, w)
           /\ Present(u, g)' = Stock(u, g)' \cup Parts(u, g, w)' \cup Rest(u, g, w)
<1>1. \A v \in Writers \ {w} : Parts(u, g, v)' = Parts(u, g, v)
  BY DEF Others, Parts
<1>2. Rest(u, g, w)' = Rest(u, g, w)
  BY <1>1 DEF Rest
<1>3. Present(u, g)' = Stock(u, g)' \cup Parts(u, g, w)' \cup Rest(u, g, w)'
  BY DEF Present, Rest
<1>. QED
  BY <1>1, <1>2, <1>3

\* Deaths and refused records are counted, one at a time.
LEMMA MishapsFacts ==
    ASSUME Types
    PROVE  /\ Mishaps \in Nat /\ Share \in Nat
           /\ crashes' = crashes /\ odd' = odd => Mishaps' = Mishaps
           /\ crashes' = crashes /\ odd' # "record" /\ odd = "none" => Mishaps' = Mishaps
           /\ crashes' = crashes /\ odd' = "record" /\ odd = "none" => Mishaps' = Mishaps + 1
           /\ crashes' = crashes + 1 /\ odd' = odd => Mishaps' = Mishaps + 1
<1>1. crashes \in Nat
  BY DEF Types
<1>2. Share \in Nat
  BY Constants DEF Share
<1>. QED
  BY <1>1, <1>2 DEF Mishaps

\* Nothing lost: what there is, and what was written of it, are as before.
LEMMA CountKept ==
    ASSUME Types, NEW u \in Units, NEW g \in DOMAIN pipes[u], Count(u, g),
           pipes'[u][g].wrote = pipes[u][g].wrote, pipes'[u][g].lost = pipes[u][g].lost,
           Mishaps' = Mishaps, Present(u, g)' = Present(u, g),
           \A v \in Writers : Cardinality(Parts(u, g, v)') <= Share
    PROVE  Count(u, g)'
<1>1. Share' = Share
  BY DEF Share
<1>. QED
  BY <1>1 DEF Count

\* What no log writer and no file changes of.
LEMMA CountSame ==
    ASSUME Types, NEW u \in Units, NEW g \in DOMAIN pipes[u], Count(u, g),
           pipes'[u][g].wrote = pipes[u][g].wrote, pipes'[u][g].lost = pipes[u][g].lost,
           pipes'[u][g].data = pipes[u][g].data,
           recorded'[u] = recorded[u], Mishaps' = Mishaps,
           \A v \in Writers : /\ writer'[v].lines = writer[v].lines
                              /\ writer'[v].sources = writer[v].sources
    PROVE  Count(u, g)'
<1>1. \A v \in Writers : Parts(u, g, v)' = Parts(u, g, v)
  BY DEF Parts
<1>2. Stock(u, g)' = Stock(u, g)
  BY DEF Stock
<1>3. Present(u, g)' = Present(u, g)
  BY <1>1, <1>2 DEF Present
<1>4. \A v \in Writers : Cardinality(Parts(u, g, v)') <= Share
  BY <1>1 DEF Count
<1>. QED
  BY <1>3, <1>4, CountKept

\* What a log writer moves from one place to another.
LEMMA CountMoved ==
    ASSUME Types, NEW u \in Units, NEW g \in DOMAIN pipes[u], NEW w \in Writers, Others(w),
           Count(u, g), pipes'[u][g].wrote = pipes[u][g].wrote,
           pipes'[u][g].lost = pipes[u][g].lost, Mishaps' = Mishaps,
           Stock(u, g)' \cup Parts(u, g, w)' = Stock(u, g) \cup Parts(u, g, w),
           Cardinality(Parts(u, g, w)') <= Share
    PROVE  Count(u, g)'
<1>1. Present(u, g)' = Present(u, g)
  <2>1. Present(u, g)' = Stock(u, g)' \cup Parts(u, g, w)' \cup Rest(u, g, w)
    BY RestKept
  <2>2. Present(u, g) = Stock(u, g) \cup Parts(u, g, w) \cup Rest(u, g, w)
    BY PresentApart
  <2>. QED
    BY <2>1, <2>2
<1>2. \A v \in Writers : Cardinality(Parts(u, g, v)') <= Share
  BY RestKept DEF Count
<1>. QED
  BY <1>1, <1>2, CountKept

\* No part of a finite set is larger than it.
LEMMA Smaller ==
    ASSUME NEW S, IsFiniteSet(S), NEW T, T \subseteq S
    PROVE  IsFiniteSet(T) /\ Cardinality(T) <= Cardinality(S)
           /\ Cardinality(T) \in Nat /\ Cardinality(S) \in Nat
  BY FS_Subset, FS_CardinalityType

\* What is left of a set that lost a part.
LEMMA LeftOver ==
    ASSUME NEW P, IsFiniteSet(P), NEW Q, Q \subseteq P, NEW L, L \subseteq P, P \ L \subseteq Q
    PROVE  /\ IsFiniteSet(Q) /\ Cardinality(Q) \in Nat /\ Cardinality(P) \in Nat
           /\ Cardinality(L) \in Nat
           /\ Cardinality(Q) <= Cardinality(P)
           /\ Cardinality(P) <= Cardinality(Q) + Cardinality(L)
<1>1. IsFiniteSet(Q) /\ IsFiniteSet(L)
  BY FS_Subset
<1>2. Cardinality(Q \cup L) = Cardinality(Q) + Cardinality(L) - Cardinality(Q \cap L)
      /\ IsFiniteSet(Q \cup L)
  BY <1>1, FS_Union
<1>3. P = Q \cup L
  OBVIOUS
<1>4. Q \cap L \subseteq Q
  OBVIOUS
<1>5. Cardinality(Q \cap L) \in Nat
  BY <1>1, <1>4, Smaller
<1>6. Cardinality(Q) \in Nat /\ Cardinality(L) \in Nat /\ Cardinality(P) \in Nat
      /\ Cardinality(Q) <= Cardinality(P)
  BY <1>1, Smaller
<1>. QED
  BY <1>1, <1>2, <1>3, <1>5, <1>6

\* No more pieces than places.
LEMMA RangeSize ==
    ASSUME NEW T, NEW s \in Seq(T)
    PROVE  /\ IsFiniteSet(Range(s)) /\ Cardinality(Range(s)) \in Nat
           /\ Cardinality(Range(s)) <= Len(s)
<1>1. Len(s) \in Nat /\ DOMAIN s = 1..Len(s) /\ s = [i \in 1..Len(s) |-> s[i]]
  OBVIOUS
<1>2. IsFiniteSet(1..Len(s)) /\ Cardinality(1..Len(s)) = Len(s)
  <2>. DEFINE n == Len(s)
  <2>1. 1 \in Int /\ n \in Int /\ n \in Nat
    BY <1>1
  <2>. HIDE DEF n
  <2>2. IsFiniteSet(1..n) /\ Cardinality(1..n) = IF 1 > n THEN 0 ELSE n - 1 + 1
    BY <2>1, FS_Interval
  <2>3. Cardinality(1..n) = n
    BY <2>1, <2>2
  <2>. QED
    BY <2>2, <2>3 DEF n
<1>3. s \in Surjection(1..Len(s), Range(s))
  <2>1. s \in [1..Len(s) -> Range(s)]
    <3>1. \A i \in 1..Len(s) : s[i] \in Range(s)
      BY <1>1 DEF Range
    <3>. QED
      BY <1>1, <3>1
  <2>2. \A t \in Range(s) : \E i \in 1..Len(s) : s[i] = t
    BY <1>1 DEF Range
  <2>. QED
    BY <2>1, <2>2 DEF Surjection
<1>4. IsFiniteSet(Range(s)) /\ Cardinality(Range(s)) <= Cardinality(1..Len(s))
  BY <1>2, <1>3, FS_Surjection
<1>. QED
  BY <1>2, <1>4, FS_CardinalityType

\* The numbers that bound the losses, before a step and after it.
LEMMA Allowance ==
    ASSUME Types, Types'
    PROVE  /\ Share \in Nat /\ Share' = Share
           /\ Mishaps \in Nat /\ Mishaps' \in Nat
           /\ Mishaps * Share \in Nat /\ Mishaps' * Share \in Nat
<1>1. Mishaps \in Nat /\ Share \in Nat
  BY MishapsFacts
<1>2. Mishaps' \in Nat
  <2>1. crashes' \in Nat
    BY DEF Types
  <2>2. \A x \in Nat : x + 1 \in Nat /\ x + 0 \in Nat
    OBVIOUS
  <2>3. Mishaps' = crashes' + 1 \/ Mishaps' = crashes' + 0
    BY Zenon DEF Mishaps
  <2>. QED
    BY <2>1, <2>2, <2>3, Zenon
<1>3. Share' = Share
  BY DEF Share
<1>4. \A x, y \in Nat : x * y \in Nat
  OBVIOUS
<1>. QED
  BY <1>1, <1>2, <1>3, <1>4, Zenon

\* What is lost is less than what is added to the allowance.
LEMMA CountLoses ==
    ASSUME Types, Types', NEW u \in Units, NEW g \in DOMAIN pipes[u], g \in DOMAIN pipes'[u],
           Count(u, g), pipes'[u][g].wrote = pipes[u][g].wrote,
           Present(u, g)' \subseteq Present(u, g),
           NEW L, L \subseteq Present(u, g), Present(u, g) \ L \subseteq Present(u, g)',
           NEW k \in Nat, Cardinality(L) <= k,
           pipes[u][g].lost + Mishaps * Share + k <= pipes'[u][g].lost + Mishaps' * Share,
           \A v \in Writers : Cardinality(Parts(u, g, v)') <= Share
    PROVE  Count(u, g)'
<1>. DEFINE P == Present(u, g)
            Q == Present(u, g)'
<1>1. /\ IsFiniteSet(P) /\ Cardinality(P) <= pipes[u][g].wrote
      /\ pipes[u][g].wrote <= Cardinality(P) + pipes[u][g].lost + Mishaps * Share
  BY DEF Count
<1>2. /\ IsFiniteSet(Q) /\ Cardinality(Q) \in Nat /\ Cardinality(P) \in Nat
      /\ Cardinality(L) \in Nat
      /\ Cardinality(Q) <= Cardinality(P)
      /\ Cardinality(P) <= Cardinality(Q) + Cardinality(L)
  <2>1. IsFiniteSet(P) /\ Q \subseteq P /\ L \subseteq P /\ P \ L \subseteq Q
    BY <1>1
  <2>. HIDE DEF P, Q
  <2>. QED
    BY <2>1, LeftOver
<1>3. /\ Share' = Share
      /\ Mishaps * Share \in Nat /\ Mishaps' * Share \in Nat
  BY Allowance, Zenon
<1>4. pipes[u][g] \in PipeEnd /\ pipes'[u][g] \in PipeEnd
  <2>1. pipes[u] \in Seq(PipeEnd) /\ pipes'[u] \in Seq(PipeEnd)
    BY DEF Types
  <2>. QED
    BY <2>1
<1>5. pipes[u][g].wrote \in Nat /\ pipes[u][g].lost \in Nat /\ pipes'[u][g].lost \in Nat
  BY <1>4 DEF PipeEnd
<1>. DEFINE a == Mishaps * Share
            b == Mishaps' * Share
<1>6. a \in Nat /\ b \in Nat
  BY <1>3, Zenon
<1>. DEFINE wr == pipes[u][g].wrote
            lost == pipes[u][g].lost
            more == pipes'[u][g].lost
<1>7. Cardinality(Q) <= wr /\ wr <= Cardinality(Q) + more + b
  <2>1. wr \in Nat /\ lost \in Nat /\ more \in Nat
    BY <1>5
  <2>2. lost + a + k <= more + b
    OBVIOUS
  <2>3. Cardinality(P) <= wr /\ wr <= Cardinality(P) + lost + a
    BY <1>1
  <2>. DEFINE p == Cardinality(P)
              q == Cardinality(Q)
              l == Cardinality(L)
  <2>4. /\ p \in Nat /\ q \in Nat /\ l \in Nat /\ l <= k
        /\ q <= p /\ p <= q + l
    BY <1>2
  <2>5. p <= wr /\ wr <= p + lost + a
    BY <2>3
  <2>. HIDE DEF p, q, l, a, b, wr, lost, more
  <2>6. q <= wr /\ wr <= q + more + b
    BY <1>6, <2>1, <2>2, <2>4, <2>5
  <2>. QED
    BY <2>6 DEF q
<1>8. \A v \in Writers : Cardinality(Parts(u, g, v)') <= Share'
  BY <1>3
<1>9. pipes'[u][g].wrote = wr
  OBVIOUS
<1>10. /\ IsFiniteSet(Present(u, g)')
       /\ Cardinality(Present(u, g)') <= pipes'[u][g].wrote
       /\ pipes'[u][g].wrote <= Cardinality(Present(u, g)') + pipes'[u][g].lost + Mishaps' * Share'
  <2>1. Share' = Share
    BY <1>3
  <2>. QED
    BY <1>2, <1>7, <1>9, <2>1, Zenon
<1>. QED
  BY <1>8, <1>10, Zenon DEF Count

\* A mishap costs what the log writer it happens to held, and the end of the
\* last read end of a pipe costs what is in it.
LEMMA CountLost ==
    ASSUME Types, Types', NEW u \in Units, NEW g \in DOMAIN pipes[u], g \in DOMAIN pipes'[u],
           NEW w \in Writers, Others(w), Count(u, g), recorded'[u] = recorded[u],
           pipes'[u][g] = pipes[u][g] \/ pipes'[u][g] = Destroyed(pipes[u][g]),
           Parts(u, g, w)' \subseteq Parts(u, g, w),
           \/ Mishaps' = Mishaps + 1
           \/ Mishaps' = Mishaps /\ Parts(u, g, w)' = Parts(u, g, w)
    PROVE  Count(u, g)'
<1>. DEFINE P == Present(u, g)
            Q == Present(u, g)'
            data == pipes[u][g].data
            gone == pipes'[u][g] # pipes[u][g]
            mishap == Mishaps' = Mishaps + 1
            D == IF gone THEN {p \in Range(data) : p.gen = g} ELSE {}
            M == IF mishap THEN Parts(u, g, w) ELSE {}
            d == IF gone THEN Len(data) ELSE 0
            m == IF mishap THEN Share ELSE 0
<1>1. pipes[u][g] \in PipeEnd
  <2>1. pipes[u] \in Seq(PipeEnd)
    BY DEF Types
  <2>. QED
    BY <2>1
<1>2. data \in Seq(Piece) /\ pipes[u][g].lost \in Nat /\ Len(data) \in Nat
  BY <1>1 DEF PipeEnd, Line
<1>3. gone => pipes'[u][g] = Destroyed(pipes[u][g])
  OBVIOUS
<1>4. /\ pipes'[u][g].wrote = pipes[u][g].wrote
      /\ pipes'[u][g].lost = pipes[u][g].lost + d
      /\ gone => pipes'[u][g].data = <<>>
  <2>1. CASE gone
    BY <1>1, <1>3, <2>1, DestroyedFacts
  <2>2. CASE ~gone
    BY <1>2, <2>2
  <2>. QED
    BY <2>1, <2>2
<1>5. Mishaps \in Nat /\ Share \in Nat
  BY MishapsFacts
<1>6. Range(<<>>) = {}
  BY DEF Range
<1>7. /\ P = Stock(u, g) \cup Parts(u, g, w) \cup Rest(u, g, w)
      /\ Q = Stock(u, g)' \cup Parts(u, g, w)' \cup Rest(u, g, w)
  BY PresentApart, RestKept
<1>8. Stock(u, g)' \subseteq Stock(u, g) /\ Stock(u, g) \ D \subseteq Stock(u, g)' /\ D \subseteq Stock(u, g)
  <2>1. CASE gone
    BY <1>4, <1>6, <2>1 DEF Stock
  <2>2. CASE ~gone
    BY <2>2 DEF Stock
  <2>. QED
    BY <2>1, <2>2
<1>9. /\ Parts(u, g, w) \ M \subseteq Parts(u, g, w)' /\ M \subseteq Parts(u, g, w)
      /\ Mishaps' = IF mishap THEN Mishaps + 1 ELSE Mishaps
  OBVIOUS
<1>10. IsFiniteSet(D) /\ Cardinality(D) <= d
  <2>1. CASE gone
    <3>1. IsFiniteSet(Range(data)) /\ Cardinality(Range(data)) <= Len(data)
      BY <1>2, RangeSize
    <3>2. {p \in Range(data) : p.gen = g} \subseteq Range(data)
      OBVIOUS
    <3>. DEFINE R == Range(data)
                S == {p \in Range(data) : p.gen = g}
    <3>3. IsFiniteSet(S) /\ Cardinality(S) <= Cardinality(R) /\ Cardinality(S) \in Nat
          /\ Cardinality(R) \in Nat
      <4>1. IsFiniteSet(R) /\ S \subseteq R
        BY <3>1, <3>2
      <4>. HIDE DEF R, S
      <4>. QED
        BY <4>1, Smaller
    <3>4. Cardinality(R) <= Len(data)
      BY <3>1
    <3>. HIDE DEF R, S
    <3>5. IsFiniteSet(S) /\ Cardinality(S) <= Len(data)
      BY <1>2, <3>3, <3>4
    <3>. QED
      BY <2>1, <3>5 DEF S
  <2>2. CASE ~gone
    BY <2>2, FS_EmptySet
  <2>. QED
    BY <2>1, <2>2
<1>11. IsFiniteSet(P) /\ \A v \in Writers : Cardinality(Parts(u, g, v)) <= Share
  BY DEF Count
<1>12. IsFiniteSet(M) /\ Cardinality(M) <= m
  <2>1. CASE mishap
    <3>1. Parts(u, g, w) \subseteq P
      BY <1>7
    <3>2. IsFiniteSet(Parts(u, g, w))
      BY <1>11, <3>1, FS_Subset
    <3>. QED
      BY <1>11, <2>1, <3>2
  <2>2. CASE ~mishap
    BY <2>2, FS_EmptySet
  <2>. QED
    BY <2>1, <2>2
<1>13. \A v \in Writers : Cardinality(Parts(u, g, v)') <= Share
  <2>. SUFFICES ASSUME NEW v \in Writers PROVE Cardinality(Parts(u, g, v)') <= Share
    OBVIOUS
  <2>1. CASE v = w
    <3>. DEFINE A == Parts(u, g, w)
                B == Parts(u, g, w)'
    <3>1. A \subseteq P /\ B \subseteq A /\ Cardinality(A) <= Share
      BY <1>7, <1>11
    <3>2. IsFiniteSet(A)
      BY <1>11, <3>1, FS_Subset
    <3>3. Cardinality(B) <= Cardinality(A) /\ Cardinality(B) \in Nat /\ Cardinality(A) \in Nat
      <4>. HIDE DEF A, B
      <4>. QED
        BY <3>1, <3>2, Smaller
    <3>. HIDE DEF A
    <3>4. Cardinality(B) <= Share
      BY <1>5, <3>1, <3>3
    <3>. QED
      BY <2>1, <3>4
  <2>2. CASE v # w
    BY <1>11, <2>2, RestKept
  <2>. QED
    BY <2>1, <2>2
<1>14. d \in Nat /\ m \in Nat
  BY <1>2, <1>5
<1>15. pipes[u][g].lost + Mishaps * Share + (d + m) <= pipes'[u][g].lost + Mishaps' * Share
  <2>1. Mishaps' * Share = Mishaps * Share + m /\ Mishaps * Share \in Nat
    <3>. DEFINE a == Mishaps
    <3>1. a \in Nat /\ (a + 1) * Share = a * Share + Share /\ a * Share \in Nat
      BY <1>5
    <3>2. Mishaps' = IF mishap THEN a + 1 ELSE a
      BY <1>9
    <3>. HIDE DEF a, mishap
    <3>3. Mishaps' * Share = a * Share + m
      BY <1>5, <3>1, <3>2
    <3>. QED
      BY <3>1, <3>3 DEF a
  <2>. DEFINE x == Mishaps * Share
              y == Mishaps' * Share
  <2>2. x \in Nat /\ y = x + m /\ pipes'[u][g].lost = pipes[u][g].lost + d
    BY <1>4, <2>1
  <2>. HIDE DEF x, y, d, m
  <2>3. pipes[u][g].lost + x + (d + m) <= pipes'[u][g].lost + y
    BY <1>2, <1>14, <2>2
  <2>. QED
    BY <2>3 DEF x, y
<1>. HIDE DEF D, M, d, m
<1>16. Cardinality(D \cup M) <= d + m
  <2>1. /\ Cardinality(D \cup M) = Cardinality(D) + Cardinality(M) - Cardinality(D \cap M)
        /\ Cardinality(D) \in Nat /\ Cardinality(M) \in Nat
    BY <1>10, <1>12, FS_Union, FS_CardinalityType
  <2>2. D \cap M \subseteq D
    OBVIOUS
  <2>3. Cardinality(D \cap M) \in Nat
    BY <1>10, <2>2, Smaller
  <2>. QED
    BY <1>10, <1>12, <1>14, <2>1, <2>3
<1>17. /\ Q \subseteq P /\ D \cup M \subseteq P /\ P \ (D \cup M) \subseteq Q
  BY <1>7, <1>8, <1>9
<1>18. d + m \in Nat
  BY <1>14
<1>. DEFINE L == D \cup M
            k == d + m
<1>19. /\ L \subseteq P /\ P \ L \subseteq Q /\ k \in Nat /\ Cardinality(L) <= k
       /\ pipes[u][g].lost + Mishaps * Share + k <= pipes'[u][g].lost + Mishaps' * Share
  BY <1>15, <1>16, <1>17, <1>18
<1>. HIDE DEF L, k
<1>. QED
  BY <1>4, <1>13, <1>17, <1>19, CountLoses

\* What there is of a start was written by it.
LEMMA PartsKnown ==
    ASSUME Types, NEW u \in Units, NEW g, NEW w \in Writers, Reads(w), Places(u, w),
           NEW x \in Parts(u, g, w)
    PROVE  /\ x.n <= sent[u] /\ x.gen = g /\ x.gen <= Len(pipes[u])
           /\ x \in Pieces(Pending(u, w)) \/ InSources(x, u, g, writer[w].sources)
<1>1. /\ x.gen = g
      /\ InLines(x, u, writer[w].lines) \/ InSources(x, u, g, writer[w].sources)
  BY PartsMembers DEF Parts
<1>2. CASE InLines(x, u, writer[w].lines)
  <2>1. x \in Pieces(Pending(u, w))
    BY <1>2, PartsMembers DEF Pending
  <2>2. x.n <= sent[u] /\ x.gen <= Len(pipes[u])
    BY <2>1 DEF Places, Taken, Known
  <2>. QED
    BY <1>1, <2>1, <2>2
<1>3. CASE InSources(x, u, g, writer[w].sources)
  <2>1. PICK i \in DOMAIN writer[w].sources :
              /\ writer[w].sources[i].unit = u /\ writer[w].sources[i].gen = g
              /\ x \in Range(writer[w].sources[i].partial)
    BY <1>3 DEF InSources
  <2>2. x.n <= sent[u]
    BY <2>1 DEF Places, Begun
  <2>3. x.gen <= Len(pipes[u])
    BY <1>1, <2>1 DEF Reads
  <2>. QED
    BY <1>1, <1>3, <2>2, <2>3
<1>. QED
  BY <1>1, <1>2, <1>3

\* Nothing there is of a start is newer than what was sent.
LEMMA PresentKnown ==
    ASSUME IInv, NEW u \in Units, NEW g, NEW x,
           \/ x \in Pieces(recorded[u])
           \/ g \in DOMAIN pipes[u] /\ x \in Range(pipes[u][g].data)
           \/ \E w \in Writers : x \in Parts(u, g, w)
    PROVE  x.n <= sent[u] /\ x.gen <= Len(pipes[u])
<1>1. CASE x \in Pieces(recorded[u])
  BY <1>1 DEF IInv, Filed, Known
<1>2. CASE g \in DOMAIN pipes[u] /\ x \in Range(pipes[u][g].data)
  <2>1. x.gen = g /\ x.n <= sent[u]
    BY <1>2 DEF IInv, Piped
  <2>2. pipes[u] \in Seq(PipeEnd)
    BY DEF IInv, Types
  <2>3. g <= Len(pipes[u])
    BY <1>2, <2>2
  <2>. QED
    BY <2>1, <2>3
<1>3. CASE \E w \in Writers : x \in Parts(u, g, w)
  <2>1. PICK w \in Writers : x \in Parts(u, g, w)
    BY <1>3
  <2>2. Types /\ Reads(w) /\ Places(u, w)
    BY DEF IInv
  <2>. QED
    BY <2>1, <2>2, PartsKnown
<1>. QED
  BY <1>1, <1>2, <1>3

\* A new start has written nothing.
LEMMA CountedStart ==
    ASSUME IInv, Types', NEW v \in Units, Start(v), NEW u \in Units, NEW g \in DOMAIN pipes'[u]
    PROVE  Count(u, g)'
<1>1. /\ Types /\ Offers /\ Counted
  BY DEF IInv
<1>. DEFINE G == Len(pipes[v]) + 1
<1>2. /\ \A h \in DOMAIN pipes[v] :
            pipes'[v][h] = pipes[v][h] \/ pipes'[v][h] = Destroyed(pipes[v][h])
      /\ Len(pipes'[v]) = G
      /\ pipes'[v][G].data = <<>> /\ pipes'[v][G].wrote = 0 /\ pipes'[v][G].lost = 0
      /\ \A x \in Units \ {v} : pipes'[x] = pipes[x]
  BY <1>1, StartEffect
<1>3. recorded' = recorded /\ crashes' = crashes /\ odd' = odd /\ writer' = writer
  BY DEF Start
<1>4. Mishaps' = Mishaps /\ Mishaps \in Nat /\ Share \in Nat
  BY <1>1, <1>3, MishapsFacts
<1>5. pipes[v] \in Seq(PipeEnd) /\ pipes'[v] \in Seq(PipeEnd)
  BY <1>1 DEF Types
<1>6. CASE g \in DOMAIN pipes[u]
  <2>1. pipes'[u][g] = pipes[u][g] \/ pipes'[u][g] = Destroyed(pipes[u][g])
    BY <1>2, <1>6
  <2>2. Oxlogd \in Writers /\ Others(Oxlogd) /\ Parts(u, g, Oxlogd)' = Parts(u, g, Oxlogd)
    BY <1>3, Constants DEF Others, Parts
  <2>. QED
    BY <1>1, <1>3, <1>4, <1>6, <2>1, <2>2, CountLost DEF Counted
<1>7. CASE g \notin DOMAIN pipes[u]
  <2>1. u = v
    BY <1>2, <1>7
  <2>2. g = G
    <3>1. DOMAIN pipes[v] = 1..Len(pipes[v]) /\ DOMAIN pipes'[v] = 1..G /\ Len(pipes[v]) \in Nat
      BY <1>2, <1>5
    <3>. QED
      BY <1>7, <2>1, <3>1
  <2>3. Len(pipes[v]) \in Nat
    BY <1>5
  <2>4. \A w \in Writers : Parts(u, g, w)' = {}
    <3>. SUFFICES ASSUME NEW w \in Writers, NEW x \in Parts(u, g, w)' PROVE FALSE
      OBVIOUS
    <3>1. x \in Parts(u, g, w)
      BY <1>3 DEF Parts
    <3>2. x.gen = g /\ x.gen <= Len(pipes[u])
      BY <1>1, <3>1, PartsKnown DEF IInv
    <3>. QED
      BY <2>1, <2>2, <2>3, <3>2
  <2>5. Stock(u, g)' = {}
    <3>1. Range(<<>>) = {}
      BY DEF Range
    <3>2. Stock(u, g)' = {p \in Pieces(recorded[u]) : p.gen = g}
      BY <1>2, <1>3, <2>1, <2>2, <3>1 DEF Stock
    <3>. SUFFICES ASSUME NEW x \in Pieces(recorded[u]), x.gen = g PROVE FALSE
      BY <3>2
    <3>3. x.gen <= Len(pipes[u])
      BY PresentKnown
    <3>. QED
      BY <2>1, <2>2, <2>3, <3>3
  <2>6. Present(u, g)' = {}
    BY <2>4, <2>5 DEF Present
  <2>7. pipes'[u][g].wrote = 0 /\ pipes'[u][g].lost = 0
    BY <1>2, <2>1, <2>2
  <2>8. IsFiniteSet({}) /\ Cardinality({}) = 0
    BY FS_EmptySet
  <2>9. Share' = Share /\ Mishaps' * Share' \in Nat
    BY <1>4 DEF Share
  <2>10. /\ IsFiniteSet(Present(u, g)')
         /\ Cardinality(Present(u, g)') <= pipes'[u][g].wrote
         /\ pipes'[u][g].wrote
               <= Cardinality(Present(u, g)') + pipes'[u][g].lost + Mishaps' * Share'
    BY <2>6, <2>7, <2>8, <2>9
  <2>11. ASSUME NEW w \in Writers PROVE Cardinality(Parts(u, g, w)') <= Share'
    BY <1>4, <2>4, <2>8, <2>9
  <2>. QED
    BY <2>10, <2>11 DEF Count
<1>. QED
  BY <1>6, <1>7

\* One piece more was written, and is there.
LEMMA CountedWrite ==
    ASSUME IInv, Types', NEW v \in Units, NEW G \in DOMAIN pipes[v], Write(v, G),
           NEW u \in Units, NEW g \in DOMAIN pipes'[u]
    PROVE  Count(u, g)'
<1>1. /\ Types /\ Counted
  BY DEF IInv
<1>2. PICK piece \in Piece :
           /\ piece.n = sent[v] + 1 /\ piece.gen = G
           /\ \A x \in Units : DOMAIN pipes'[x] = DOMAIN pipes[x]
           /\ pipes'[v][G].data = Append(pipes[v][G].data, piece)
           /\ pipes'[v][G].wrote = pipes[v][G].wrote + 1
           /\ pipes'[v][G].lost = pipes[v][G].lost
           /\ \A x \in Units : \A h \in DOMAIN pipes[x] :
                 x # v \/ h # G => pipes'[x][h] = pipes[x][h]
  BY <1>1, WriteEffect
<1>3. recorded' = recorded /\ crashes' = crashes /\ odd' = odd /\ writer' = writer
  BY DEF Write
<1>4. Mishaps' = Mishaps /\ Mishaps \in Nat /\ Share \in Nat /\ Share' = Share
  BY <1>1, <1>3, MishapsFacts DEF Share
<1>5. g \in DOMAIN pipes[u] /\ Count(u, g)
  BY <1>1, <1>2 DEF Counted
<1>6. CASE u # v \/ g # G
  <2>1. pipes'[u][g] = pipes[u][g]
    BY <1>2, <1>5, <1>6
  <2>. QED
    BY <1>1, <1>3, <1>4, <1>5, <2>1, CountSame
<1>7. CASE u = v /\ g = G
  <2>1. \A w \in Writers : Parts(u, g, w)' = Parts(u, g, w)
    BY <1>3 DEF Parts
  <2>2. Stock(u, g)' = Stock(u, g) \cup {piece}
    <3>1. pipes[u][g] \in PipeEnd
      <4>1. pipes[u] \in Seq(PipeEnd)
        BY <1>1 DEF Types
      <4>. QED
        BY <1>5, <4>1
    <3>2. pipes[u][g].data \in Seq(Piece)
      BY <3>1 DEF PipeEnd, Line
    <3>3. Range(Append(pipes[u][g].data, piece)) = Range(pipes[u][g].data) \cup {piece}
      BY <3>2, RangeFacts
    <3>4. Range(pipes'[u][g].data) = Range(pipes[u][g].data) \cup {piece}
      BY <1>2, <1>7, <3>3
    <3>. QED
      BY <1>2, <1>3, <1>7, <3>4 DEF Stock
  <2>3. Present(u, g)' = Present(u, g) \cup {piece}
    BY <2>1, <2>2 DEF Present
  <2>4. piece \notin Present(u, g)
    <3>1. SUFFICES ASSUME piece \in Present(u, g) PROVE FALSE
      OBVIOUS
    <3>2. \/ piece \in Pieces(recorded[u])
          \/ g \in DOMAIN pipes[u] /\ piece \in Range(pipes[u][g].data)
          \/ \E w \in Writers : piece \in Parts(u, g, w)
      BY <1>5, <3>1 DEF Present, Stock
    <3>3. piece.n <= sent[u]
      BY <3>2, PresentKnown
    <3>4. sent[u] \in Nat
      BY <1>1 DEF Types
    <3>. QED
      BY <1>2, <1>7, <3>3, <3>4
  <2>5. IsFiniteSet(Present(u, g)) /\ Cardinality(Present(u, g)) \in Nat
    BY <1>5, FS_CardinalityType DEF Count
  <2>6. /\ IsFiniteSet(Present(u, g)')
        /\ Cardinality(Present(u, g)') = Cardinality(Present(u, g)) + 1
    BY <2>3, <2>4, <2>5, FS_AddElement
  <2>7. /\ pipes'[u][g].wrote = pipes[u][g].wrote + 1 /\ pipes[u][g].wrote \in Nat
        /\ pipes'[u][g].lost = pipes[u][g].lost /\ pipes[u][g].lost \in Nat
    <3>1. pipes[u] \in Seq(PipeEnd)
      BY <1>1 DEF Types
    <3>2. pipes[u][g] \in PipeEnd
      BY <1>5, <3>1
    <3>. QED
      BY <1>2, <1>7, <3>2 DEF PipeEnd
  <2>8. Mishaps * Share \in Nat /\ Mishaps' * Share' = Mishaps * Share
    BY <1>4
  <2>9. /\ Cardinality(Present(u, g)') <= pipes'[u][g].wrote
        /\ pipes'[u][g].wrote
              <= Cardinality(Present(u, g)') + pipes'[u][g].lost + Mishaps' * Share'
    BY <1>5, <2>5, <2>6, <2>7, <2>8 DEF Count
  <2>10. \A w \in Writers : Cardinality(Parts(u, g, w)') <= Share'
    BY <1>4, <1>5, <2>1 DEF Count
  <2>. QED
    BY <2>6, <2>9, <2>10 DEF Count
<1>. QED
  BY <1>6, <1>7

\* Steps that neither read, record, write nor lose anything.
LEMMA CountedQuiet ==
    ASSUME IInv, Types', NEW u \in Units, NEW g \in DOMAIN pipes[u],
           \/ \E v \in Units : \E h \in DOMAIN pipes[v] : Exit(v, h)
           \/ \E registered \in BOOLEAN : OnShipper(registered)
           \/ OnShipperGone
           \/ \E w \in Writers : Connect(w) \/ Poll(w) \/ Rotate(w)
           \/ \E w \in Writers : WriteLine(w) /\ recorded' = recorded
           \/ UNCHANGED vars
    PROVE  Count(u, g)'
<1>1. /\ Types /\ Linked /\ Count(u, g) /\ \A w \in Writers : Reads(w)
  BY DEF IInv, Counted
<1>2. \/ \E v \in Units : \E h \in DOMAIN pipes[v] : Exit(v, h)
      \/ /\ pipes' = pipes
         /\ crashes' = crashes /\ (odd' = odd \/ (odd = "none" /\ odd' # "record"))
  BY Zenon DEF OnShipper, OnShipperGone, Connect, Poll, Rotate, WriteLine, vars
<1>3. CASE \E v \in Units : \E h \in DOMAIN pipes[v] : Exit(v, h)
  <2>1. /\ pipes'[u][g].data = pipes[u][g].data /\ pipes'[u][g].wrote = pipes[u][g].wrote
        /\ pipes'[u][g].lost = pipes[u][g].lost
    BY <1>1, <1>3, ExitEffect
  <2>2. recorded' = recorded /\ crashes' = crashes /\ odd' = odd /\ writer' = writer
    BY <1>3 DEF Exit
  <2>3. Mishaps' = Mishaps
    BY <1>1, <2>2, MishapsFacts
  <2>. QED
    BY <1>1, <2>1, <2>2, <2>3, CountSame
<1>4. CASE pipes' = pipes /\ crashes' = crashes /\ (odd' = odd \/ (odd = "none" /\ odd' # "record"))
  <2>1. Mishaps' = Mishaps
    BY <1>1, <1>4, MishapsFacts
  <2>2. CASE ~ \E v \in Units : \E h \in DOMAIN pipes[v] : Exit(v, h)
    <3>1. recorded' = recorded
      BY <2>2 DEF OnShipper, OnShipperGone, Connect, Poll, Rotate, vars
    <3>2. \A v \in Writers : /\ writer'[v].lines = writer[v].lines
                             /\ writer'[v].sources = writer[v].sources
      <4>1. CASE \E registered \in BOOLEAN : OnShipper(registered)
        BY <4>1 DEF OnShipper
      <4>2. CASE OnShipperGone
        BY <4>2 DEF OnShipperGone
      <4>3. CASE UNCHANGED vars
        BY <4>3 DEF vars
      <4>4. ASSUME NEW w \in Writers, Connect(w)
            PROVE  \A v \in Writers : /\ writer'[v].lines = writer[v].lines
                                      /\ writer'[v].sources = writer[v].sources
        <5>1. PICK c \in Conns : /\ writer[w] = Down /\ Others(w)
                                 /\ writer'[w] = [Down EXCEPT !.pc = "poll", !.conn = c]
          BY <1>1, <4>4, ConnectEffect
        <5>2. writer'[w].lines = writer[w].lines /\ writer'[w].sources = writer[w].sources
          BY <5>1 DEF Down
        <5>. QED
          BY <5>1, <5>2 DEF Others
      <4>5. ASSUME NEW w \in Writers, Poll(w)
            PROVE  \A v \in Writers : /\ writer'[v].lines = writer[v].lines
                                      /\ writer'[v].sources = writer[v].sources
        <5>1. /\ Others(w) /\ writer'[w].sources = writer[w].sources
              /\ writer'[w].lines = writer[w].lines
          BY <1>1, <4>5, PollEffect
        <5>. QED
          BY <5>1 DEF Others
      <4>6. ASSUME NEW w \in Writers, Rotate(w)
            PROVE  \A v \in Writers : /\ writer'[v].lines = writer[v].lines
                                      /\ writer'[v].sources = writer[v].sources
        <5>1. /\ Others(w) /\ writer'[w].sources = writer[w].sources
              /\ writer'[w].lines = writer[w].lines
          BY <1>1, <4>6, RotateEffect
        <5>. QED
          BY <5>1 DEF Others
      <4>7. ASSUME NEW w \in Writers, WriteLine(w), recorded' = recorded
            PROVE  \A v \in Writers : /\ writer'[v].lines = writer[v].lines
                                      /\ writer'[v].sources = writer[v].sources
        <5>1. /\ Others(w) /\ writer'[w].sources = writer[w].sources
              /\ writer[w].lines[1].unit \in Units
              /\ \/ writer'[w].lines = writer[w].lines
                 \/ recorded'[writer[w].lines[1].unit]
                       = Append(recorded[writer[w].lines[1].unit], writer[w].lines[1].line)
          BY <1>1, <4>7, WriteLineEffect
        <5>2. \A v \in Units : recorded[v] \in Seq(Seq(Piece))
          BY <1>1 DEF Types
        <5>3. \A v \in Units : \A l : recorded[v] # Append(recorded[v], l)
          <6>. SUFFICES ASSUME NEW v \in Units, NEW l, recorded[v] = Append(recorded[v], l) PROVE FALSE
            OBVIOUS
          <6>1. Len(Append(recorded[v], l)) = Len(recorded[v]) + 1 /\ Len(recorded[v]) \in Nat
            BY <5>2
          <6>. QED
            BY <6>1
        <5>. QED
          BY <4>7, <5>1, <5>3 DEF Others
      <4>. QED
        BY <2>2, <4>1, <4>2, <4>3, <4>4, <4>5, <4>6, <4>7
    <3>. QED
      BY <1>1, <1>4, <2>1, <3>1, <3>2, CountSame
  <2>. QED
    BY <1>3, <2>2
<1>. QED
  BY <1>2, <1>3, <1>4

\* A log writer that returned has written all it read; pipes that only it had go.
LEMMA CountedLeave ==
    ASSUME IInv, Types', NEW u \in Units, NEW g \in DOMAIN pipes[u], NEW w \in Writers, Leave(w)
    PROVE  Count(u, g)'
<1>1. /\ Types /\ Linked /\ Offers /\ Count(u, g) /\ Reads(w)
  BY DEF IInv, Counted
<1>2. /\ recorded' = recorded /\ crashes' = crashes /\ odd' = odd /\ held' = held
      /\ writer[w].pc = "leave" /\ writer[w].lines = <<>> /\ Ended(w) /\ Up(w)
  BY DEF Leave, Up, pid1
<1>3. Mishaps' = Mishaps
  BY <1>1, <1>2, MishapsFacts
<1>4. Others(w) /\ writer'[w] = Down
  BY <1>1, <1>2, EndedEffect
<1>5. /\ g \in DOMAIN pipes'[u]
      /\ pipes'[u][g] = pipes[u][g] \/ pipes'[u][g] = Destroyed(pipes[u][g])
  BY <1>1, <1>2, EndedPipes DEF Narrowed
<1>6. \A n \in DOMAIN writer[w].sources : writer[w].sources[n].partial = <<>>
  BY <1>1, <1>2 DEF Reads
<1>7. Range(<<>>) = {}
  BY DEF Range
<1>8. \A x : ~InLines(x, u, writer[w].lines) /\ ~InSources(x, u, g, writer[w].sources)
  BY <1>2, <1>6, <1>7 DEF InLines, InSources
<1>9. \A x : ~InLines(x, u, writer'[w].lines) /\ ~InSources(x, u, g, writer'[w].sources)
  <2>1. writer'[w].lines = <<>> /\ writer'[w].sources = <<>>
    BY <1>4, DownIsIdle
  <2>. QED
    BY <2>1 DEF InLines, InSources
<1>10. Parts(u, g, w) = {}
  BY <1>8, PartsMembers DEF Parts
<1>11. Parts(u, g, w)' = {}
  <2>1. \A x : x \notin PartsOf(u, g, writer'[w].lines, writer'[w].sources)
    BY <1>9, PartsMembers
  <2>. QED
    BY <2>1 DEF Parts
<1>. QED
  BY <1>1, <1>2, <1>3, <1>4, <1>5, <1>10, <1>11, CountLost

\* What a mishap costs was held by one log writer.
LEMMA CountedMishap ==
    ASSUME IInv, Types', NEW u \in Units, NEW g \in DOMAIN pipes[u], NEW w \in Writers,
           RecordRefused(w) \/ Crash(w)
    PROVE  Count(u, g)'
<1>1. /\ Types /\ Linked /\ Offers /\ Count(u, g)
  BY DEF IInv, Counted
<1>2. /\ recorded' = recorded /\ held' = held
      /\ \/ crashes' = crashes /\ odd = "none" /\ odd' = "record"
         \/ crashes' = crashes + 1 /\ odd' = odd
  BY DEF RecordRefused, Crash, pid1
<1>3. Mishaps' = Mishaps + 1
  BY <1>1, <1>2, MishapsFacts
<1>4. /\ g \in DOMAIN pipes'[u]
      /\ pipes'[u][g] = pipes[u][g] \/ pipes'[u][g] = Destroyed(pipes[u][g])
  <2>1. CASE RecordRefused(w)
    BY <2>1 DEF RecordRefused
  <2>2. CASE Crash(w)
    <3>1. Ended(w)
      BY <2>2 DEF Crash
    <3>. QED
      BY <1>1, <1>2, <3>1, EndedPipes DEF Narrowed
  <2>. QED
    BY <2>1, <2>2
<1>5. /\ Others(w)
      /\ \A x : InLines(x, u, writer'[w].lines) => InLines(x, u, writer[w].lines)
      /\ \A x : InSources(x, u, g, writer'[w].sources) => InSources(x, u, g, writer[w].sources)
  <2>1. CASE RecordRefused(w)
    <3>1. /\ Others(w) /\ writer[w].lines # <<>> /\ writer'[w].lines = Tail(writer[w].lines)
          /\ writer'[w].sources = writer[w].sources
      BY <1>1, <2>1, RecordRefusedEffect
    <3>2. writer[w].lines \in Seq(Output)
      BY <1>1 DEF Types, Process
    <3>3. \A i \in DOMAIN Tail(writer[w].lines) :
             i + 1 \in DOMAIN writer[w].lines /\ Tail(writer[w].lines)[i] = writer[w].lines[i + 1]
      BY <3>1, <3>2, HeadAndTail
    <3>4. \A x : InLines(x, u, writer'[w].lines) => InLines(x, u, writer[w].lines)
      BY <3>1, <3>3 DEF InLines
    <3>. QED
      BY <3>1, <3>4
  <2>2. CASE Crash(w)
    <3>1. Up(w) /\ Ended(w)
      BY <2>2 DEF Crash, Up
    <3>2. Others(w) /\ writer'[w] = Down
      BY <1>1, <3>1, EndedEffect
    <3>3. \A x : ~InLines(x, u, <<>>) /\ ~InSources(x, u, g, <<>>)
      BY DEF InLines, InSources
    <3>4. writer'[w].lines = <<>> /\ writer'[w].sources = <<>>
      BY <3>2, DownIsIdle
    <3>. QED
      BY <3>2, <3>3, <3>4
  <2>. QED
    BY <2>1, <2>2
<1>6. Parts(u, g, w)' \subseteq Parts(u, g, w)
  <2>1. \A x \in Parts(u, g, w)' : x.gen = g /\ (InLines(x, u, writer'[w].lines)
                                                \/ InSources(x, u, g, writer'[w].sources))
    BY PartsMembers DEF Parts
  <2>2. \A x : x.gen = g /\ (InLines(x, u, writer[w].lines) \/ InSources(x, u, g, writer[w].sources))
               => x \in Parts(u, g, w)
    BY PartsMembers DEF Parts
  <2>. QED
    BY <1>5, <2>1, <2>2
<1>. QED
  BY <1>1, <1>2, <1>3, <1>4, <1>5, <1>6, CountLost

\* A line recorded was to be written.
LEMMA CountedWriteLine ==
    ASSUME IInv, NEW u \in Units, NEW g \in DOMAIN pipes[u], NEW w \in Writers, WriteLine(w),
           recorded' # recorded
    PROVE  Count(u, g)'
<1>1. /\ Types /\ Count(u, g)
  BY DEF IInv, Counted
<1>2. pipes' = pipes /\ crashes' = crashes /\ odd' = odd
  BY DEF WriteLine
<1>3. Mishaps' = Mishaps
  BY <1>1, <1>2, MishapsFacts
<1>. DEFINE lines == writer[w].lines
            v == lines[1].unit
            line == lines[1].line
<1>4. /\ Others(w) /\ lines # <<>> /\ v \in Units /\ line \in Line
      /\ writer'[w].lines = Tail(lines) /\ writer'[w].sources = writer[w].sources
      /\ recorded'[v] = Append(recorded[v], line)
      /\ \A x \in Units \ {v} : recorded'[x] = recorded[x]
  BY <1>1, WriteLineEffect
<1>5. lines \in Seq(Output)
  BY <1>1 DEF Types, Process
<1>6. /\ 1 \in DOMAIN lines
      /\ Len(Tail(lines)) = Len(lines) - 1 /\ Tail(lines) \in Seq(Output)
      /\ \A i \in DOMAIN Tail(lines) : i + 1 \in DOMAIN lines /\ Tail(lines)[i] = lines[i + 1]
  <2>. HIDE DEF lines
  <2>. QED
    BY <1>4, <1>5, HeadAndTail
<1>7. \A i \in DOMAIN lines : i = 1 \/ (i - 1 \in DOMAIN Tail(lines) /\ lines[i] = Tail(lines)[i - 1])
  <2>. HIDE DEF lines
  <2>1. DOMAIN lines = 1..Len(lines) /\ DOMAIN Tail(lines) = 1..(Len(lines) - 1) /\ Len(lines) \in Nat
    BY <1>5, <1>6
  <2>. QED
    BY <2>1, <1>6
<1>8. \A x : InLines(x, u, lines) <=> (v = u /\ x \in Range(line)) \/ InLines(x, u, Tail(lines))
  <2>. SUFFICES ASSUME NEW x
                PROVE  InLines(x, u, lines) <=> (v = u /\ x \in Range(line)) \/ InLines(x, u, Tail(lines))
    OBVIOUS
  <2>. DEFINE r == Tail(lines)
  <2>1. InLines(x, u, lines) => (v = u /\ x \in Range(line)) \/ InLines(x, u, r)
    <3>. HIDE DEF r, lines
    <3>. QED
      BY <1>7 DEF InLines, r
  <2>2. (v = u /\ x \in Range(line)) \/ InLines(x, u, r) => InLines(x, u, lines)
    <3>. HIDE DEF r, lines
    <3>. QED
      BY <1>6 DEF InLines, r
  <2>. QED
    BY <2>1, <2>2
<1>9. \A x : x \in Pieces(recorded'[u]) <=> x \in Pieces(recorded[u]) \/ (v = u /\ x \in Range(line))
  <2>1. CASE v = u
    <3>1. recorded[u] \in Seq(Seq(Piece)) /\ line \in Seq(Piece)
      BY <1>1, <1>4 DEF Types, Line
    <3>2. Pieces(Append(recorded[u], line)) = Pieces(recorded[u]) \cup Range(line)
      BY <3>1, PiecesFacts
    <3>. QED
      BY <1>4, <2>1, <3>2
  <2>2. CASE v # u
    BY <1>4, <2>2
  <2>. QED
    BY <2>1, <2>2
<1>. HIDE DEF lines, v, line
<1>. DEFINE old == writer[w].sources
            D == Range(pipes[u][g].data)
<1>10. \A x : x \in Parts(u, g, w) <=> x.gen = g /\ (InLines(x, u, lines) \/ InSources(x, u, g, old))
  BY PartsMembers DEF Parts, lines
<1>11. \A x : x \in Parts(u, g, w)' <=> x.gen = g /\ (InLines(x, u, Tail(lines)) \/ InSources(x, u, g, old))
  BY <1>4, PartsMembers DEF Parts
<1>12. \A x : x \in Stock(u, g) <=> x.gen = g /\ (x \in Pieces(recorded[u]) \/ x \in D)
  BY DEF Stock
<1>13. \A x : x \in Stock(u, g)' <=> x.gen = g /\ (x \in Pieces(recorded'[u]) \/ x \in D)
  BY <1>2 DEF Stock
<1>14. Stock(u, g)' \cup Parts(u, g, w)' = Stock(u, g) \cup Parts(u, g, w)
  <2>. HIDE DEF old, D
  <2>. QED
    BY <1>8, <1>9, <1>10, <1>11, <1>12, <1>13
<1>15. Parts(u, g, w)' \subseteq Parts(u, g, w)
  <2>. HIDE DEF old, D
  <2>. QED
    BY <1>8, <1>10, <1>11
<1>16. Cardinality(Parts(u, g, w)') <= Share
  <2>1. Parts(u, g, w) \subseteq Present(u, g)
    BY DEF Present
  <2>2. IsFiniteSet(Parts(u, g, w))
    BY <1>1, <2>1, FS_Subset DEF Count
  <2>3. /\ Cardinality(Parts(u, g, w)') <= Cardinality(Parts(u, g, w))
        /\ Cardinality(Parts(u, g, w)') \in Nat /\ Cardinality(Parts(u, g, w)) \in Nat
    BY <1>15, <2>2, Smaller
  <2>4. Cardinality(Parts(u, g, w)) <= Share /\ Share \in Nat
    BY <1>1, MishapsFacts DEF Count
  <2>. QED
    BY <2>3, <2>4
<1>17. pipes'[u][g].wrote = pipes[u][g].wrote /\ pipes'[u][g].lost = pipes[u][g].lost
  BY <1>2
<1>. QED
  BY <1>1, <1>3, <1>4, <1>14, <1>16, <1>17, CountMoved

\* Partial lines become the last lines; closed sources had none.
LEMMA CountedAccept ==
    ASSUME IInv, NEW u \in Units, NEW g \in DOMAIN pipes[u], NEW w \in Writers, Accept(w)
    PROVE  Count(u, g)'
<1>1. /\ Types /\ Linked /\ Count(u, g) /\ Reads(w) /\ Places(u, w)
  BY DEF IInv, Counted
<1>2. pipes' = pipes /\ crashes' = crashes /\ odd' = odd /\ recorded' = recorded
  BY DEF Accept
<1>3. Mishaps' = Mishaps
  BY <1>1, <1>2, MishapsFacts
<1>4. /\ Stock(u, g)' = Stock(u, g) /\ pipes'[u][g].wrote = pipes[u][g].wrote
      /\ pipes'[u][g].lost = pipes[u][g].lost
  BY <1>2 DEF Stock
<1>. DEFINE s == writer[w].sources
            k == Kept(w)
            q == Queue(w)
            r == Received(Head(q))
            last == LastLines(k)
            lines == writer'[w].lines
            t == writer'[w].sources
<1>5. /\ Others(w) /\ writer[w].lines = <<>> /\ k \in Seq(Source)
      /\ \/ lines = <<>> /\ t = k
         \/ lines = <<>> /\ t = Append(k, r) /\ r \in Source
         \/ lines = last /\ t = Flushed(k)
  BY <1>1, AcceptEffect
<1>6. PICK f : Selects(w, f)
  BY <1>1, KeptFacts
<1>7. /\ \A i \in DOMAIN k : f[i] \in DOMAIN s \ writer[w].closed /\ k[i] = s[f[i]]
      /\ \A n \in DOMAIN s \ writer[w].closed : \E i \in DOMAIN k : f[i] = n
  BY <1>6 DEF Selects, Enumerates
<1>8. /\ \A n \in DOMAIN s : n \in writer[w].closed => s[n].partial = <<>>
      /\ \A n \in DOMAIN s : s[n].unit = u =>
            \A p \in Range(s[n].partial) : p.gen = s[n].gen
  BY <1>1 DEF Reads, Places, Begun
<1>9. Range(<<>>) = {}
  BY DEF Range
<1>10. PICK h : LET S == {n \in DOMAIN k : k[n].partial # <<>>}
                IN  /\ Enumerates(h, S) /\ Cardinality(S) \in Nat
                    /\ DOMAIN last = 1..Cardinality(S)
                    /\ \A i \in DOMAIN last :
                          /\ last[i].unit = k[h[i]].unit
                          /\ last[i].line = k[h[i]].partial
  BY <1>5, LastLinesFacts
<1>11. /\ \A i \in DOMAIN last : h[i] \in DOMAIN k
             /\ last[i].unit = k[h[i]].unit /\ last[i].line = k[h[i]].partial
       /\ \A n \in DOMAIN k : k[n].partial # <<>> => \E i \in DOMAIN last : h[i] = n
  BY <1>10 DEF Enumerates
<1>12. r.partial = <<>>
  BY DEF Received
<1>13. \A x : ~InLines(x, u, <<>>) /\ ~InSources(x, u, g, <<>>)
  BY DEF InLines, InSources
<1>. HIDE DEF s, k, q, r, last, lines, t
<1>14. \A x : InSources(x, u, g, k) <=> InSources(x, u, g, s)
  <2>. SUFFICES ASSUME NEW x PROVE InSources(x, u, g, k) <=> InSources(x, u, g, s)
    OBVIOUS
  <2>1. ASSUME InSources(x, u, g, k) PROVE InSources(x, u, g, s)
    BY <1>7, <2>1 DEF InSources
  <2>2. ASSUME InSources(x, u, g, s) PROVE InSources(x, u, g, k)
    <3>1. PICK n \in DOMAIN s : s[n].unit = u /\ s[n].gen = g /\ x \in Range(s[n].partial)
      BY <2>2 DEF InSources
    <3>2. n \notin writer[w].closed
      BY <1>8, <1>9, <3>1
    <3>3. PICK i \in DOMAIN k : f[i] = n
      BY <1>7, <3>2
    <3>. QED
      BY <1>7, <3>1, <3>3 DEF InSources
  <2>. QED
    BY <2>1, <2>2
<1>15. r \in Source => \A x : InSources(x, u, g, Append(k, r)) <=> InSources(x, u, g, k)
  <2>1. ASSUME r \in Source
        PROVE  /\ DOMAIN k = 1..Len(k) /\ DOMAIN Append(k, r) = 1..(Len(k) + 1)
               /\ \A i \in DOMAIN k : Append(k, r)[i] = k[i]
               /\ Append(k, r)[Len(k) + 1] = r /\ Len(k) \in Nat
    BY <1>5, <2>1
  <2>2. ASSUME NEW x, r \in Source PROVE InSources(x, u, g, Append(k, r)) => InSources(x, u, g, k)
    <3>1. SUFFICES ASSUME NEW i \in DOMAIN Append(k, r),
                          /\ Append(k, r)[i].unit = u /\ Append(k, r)[i].gen = g
                          /\ x \in Range(Append(k, r)[i].partial)
                   PROVE  InSources(x, u, g, k)
      BY DEF InSources
    <3>2. i # Len(k) + 1
      BY <1>9, <1>12, <2>1, <2>2, <3>1
    <3>3. i \in DOMAIN k
      BY <2>1, <2>2, <3>2
    <3>. QED
      BY <2>1, <2>2, <3>1, <3>3 DEF InSources
  <2>3. ASSUME NEW x, r \in Source PROVE InSources(x, u, g, k) => InSources(x, u, g, Append(k, r))
    <3>1. SUFFICES ASSUME NEW i \in DOMAIN k,
                          k[i].unit = u /\ k[i].gen = g /\ x \in Range(k[i].partial)
                   PROVE  InSources(x, u, g, Append(k, r))
      BY DEF InSources
    <3>2. i \in DOMAIN Append(k, r) /\ Append(k, r)[i] = k[i]
      BY <2>1, <2>3
    <3>. QED
      BY <3>1, <3>2 DEF InSources
  <2>. QED
    BY <2>2, <2>3
<1>16. \A x : x.gen = g => (InLines(x, u, last) <=> InSources(x, u, g, k))
  <2>. SUFFICES ASSUME NEW x, x.gen = g PROVE InLines(x, u, last) <=> InSources(x, u, g, k)
    OBVIOUS
  <2>1. ASSUME InLines(x, u, last) PROVE InSources(x, u, g, k)
    <3>1. PICK i \in DOMAIN last : last[i].unit = u /\ x \in Range(last[i].line)
      BY <2>1 DEF InLines
    <3>2. h[i] \in DOMAIN k /\ k[h[i]].unit = u /\ x \in Range(k[h[i]].partial)
      BY <1>11, <3>1
    <3>3. k[h[i]].gen = g
      BY <1>7, <1>8, <3>2
    <3>. QED
      BY <3>2, <3>3 DEF InSources
  <2>2. ASSUME InSources(x, u, g, k) PROVE InLines(x, u, last)
    <3>1. PICK n \in DOMAIN k : k[n].unit = u /\ x \in Range(k[n].partial)
      BY <2>2 DEF InSources
    <3>2. k[n].partial # <<>>
      BY <1>9, <3>1
    <3>3. PICK i \in DOMAIN last : h[i] = n
      BY <1>11, <3>2
    <3>. QED
      BY <1>11, <3>1, <3>3 DEF InLines
  <2>. QED
    BY <2>1, <2>2
<1>21. \A x : ~InSources(x, u, g, Flushed(k))
  <2>1. /\ DOMAIN Flushed(k) = DOMAIN k
        /\ \A n \in DOMAIN k : Flushed(k)[n].partial = <<>>
    BY <1>5, FlushedFacts
  <2>. QED
    BY <1>9, <2>1 DEF InSources
<1>17. \A x : x \in Parts(u, g, w) <=> x.gen = g /\ InSources(x, u, g, s)
  <2>1. \A x : x \in Parts(u, g, w) <=> x.gen = g /\ (InLines(x, u, <<>>) \/ InSources(x, u, g, s))
    BY <1>5, PartsMembers DEF Parts, s
  <2>. QED
    BY <1>13, <2>1
<1>18. \A x : x \in Parts(u, g, w)' <=> x.gen = g /\ (InLines(x, u, lines) \/ InSources(x, u, g, t))
  BY PartsMembers DEF Parts, lines, t
<1>19. Parts(u, g, w)' = Parts(u, g, w)
  <2>1. \A x : x.gen = g => (InLines(x, u, lines) \/ InSources(x, u, g, t) <=> InSources(x, u, g, s))
    <3>1. CASE lines = <<>> /\ t = k
      BY <1>13, <1>14, <3>1
    <3>2. CASE lines = <<>> /\ t = Append(k, r) /\ r \in Source
      BY <1>13, <1>14, <1>15, <3>2
    <3>3. CASE lines = last /\ t = Flushed(k)
      BY <1>14, <1>16, <1>21, <3>3
    <3>. QED
      BY <1>5, <3>1, <3>2, <3>3
  <2>. QED
    BY <1>17, <1>18, <2>1
<1>20. Cardinality(Parts(u, g, w)') <= Share
  BY <1>1, <1>19 DEF Count
<1>. QED
  BY <1>1, <1>3, <1>4, <1>5, <1>19, <1>20, CountMoved

\* A read loses nothing, and takes no more than one read and one line.
LEMMA DrainsAll ==
    ASSUME Types, NEW w \in Writers, Reads(w), NEW m \in DOMAIN writer[w].sources,
           Drains(w, m)
    PROVE  LET s == writer[w].sources[m]
               d == Drained(s)
               AB == Pieces(d.lines) \cup Range(d.partial)
               E == Range(pipes'[s.unit][s.gen].data)
           IN  /\ AB \cup E = Range(s.partial) \cup Range(Pipe(s).data)
               /\ Range(s.partial) \subseteq AB
               /\ IsFiniteSet(AB) /\ Cardinality(AB) <= Share
<1>. DEFINE s == writer[w].sources[m]
            d == Drained(s)
            data == Pipe(s).data
            AB == Pieces(d.lines) \cup Range(d.partial)
            chunk == SubSeq(data, 1, d.size)
            rest == SubSeq(data, d.size + 1, Len(data))
<1>1. /\ s.partial \in Line /\ Pipe(s) \in PipeEnd
  BY SourceFacts
<1>2. Len(s.partial) < MaxLine
  BY DEF Reads
<1>3. /\ pipes'[s.unit][s.gen].data = rest
      /\ Rising(s.partial) /\ Rising(data) /\ Above(Range(s.partial), Range(data))
  BY Zenon DEF Drains
<1>4. data \in Line
  BY <1>1 DEF PipeEnd
<1>5. /\ d.size \in 0..Len(data) /\ d.size <= ReadSize
      /\ Content(d) = Range(s.partial) \cup Range(chunk)
  BY Zenon, <1>1, <1>2, <1>3, <1>4, DrainedFacts
<1>. HIDE DEF d, data
<1>6. /\ Range(data) = Range(chunk) \cup Range(rest)
      /\ chunk \in Line /\ Len(chunk) = d.size
  BY Zenon, <1>3, <1>4, <1>5, ReadInTwo
<1>7. AB = Range(s.partial) \cup Range(chunk)
  BY <1>5 DEF Content
<1>8. /\ IsFiniteSet(Range(s.partial)) /\ Cardinality(Range(s.partial)) \in Nat
      /\ Cardinality(Range(s.partial)) <= Len(s.partial)
  <2>. HIDE DEF s
  <2>1. s.partial \in Seq(Piece)
    BY <1>1 DEF Line
  <2>. QED
    BY <2>1, RangeSize
<1>9. /\ IsFiniteSet(Range(chunk)) /\ Cardinality(Range(chunk)) \in Nat
      /\ Cardinality(Range(chunk)) <= Len(chunk)
  <2>. HIDE DEF chunk
  <2>1. chunk \in Seq(Piece)
    BY <1>6 DEF Line
  <2>. QED
    BY <2>1, RangeSize
<1>. HIDE DEF chunk, rest, AB, s
<1>10. /\ IsFiniteSet(Range(s.partial) \cup Range(chunk))
       /\ Cardinality(Range(s.partial) \cup Range(chunk))
            = Cardinality(Range(s.partial)) + Cardinality(Range(chunk))
                - Cardinality(Range(s.partial) \cap Range(chunk))
  BY <1>8, <1>9, FS_Union
<1>11. Cardinality(Range(s.partial) \cap Range(chunk)) \in Nat
  <2>1. Range(s.partial) \cap Range(chunk) \subseteq Range(chunk)
    OBVIOUS
  <2>. QED
    BY <1>9, <2>1, Smaller
<1>12. IsFiniteSet(AB) /\ Cardinality(AB) <= Share
  <2>1. Len(s.partial) \in Nat /\ d.size \in Nat
    <3>1. Len(data) \in Nat
      BY <1>4 DEF Line
    <3>. QED
      BY <1>1, <1>5, <3>1 DEF Line
  <2>2. ReadSize \in Nat /\ MaxLine \in Nat
    BY Constants
  <2>3. Cardinality(AB) <= (MaxLine - 1) + ReadSize
    <3>. DEFINE A == Cardinality(Range(s.partial))
                B == Cardinality(Range(chunk))
                both == Cardinality(Range(s.partial) \cap Range(chunk))
                l == Len(s.partial)
    <3>1. A \in Nat /\ B \in Nat /\ both \in Nat /\ l \in Nat
      BY <1>8, <1>9, <1>11, <2>1
    <3>2. l < MaxLine /\ A <= l
      BY <1>2, <1>8 DEF s
    <3>3. B <= d.size /\ d.size <= ReadSize /\ d.size \in Nat
      BY <1>5, <1>6, <1>9, <2>1
    <3>4. Cardinality(AB) = A + B - both
      BY <1>7, <1>10
    <3>. HIDE DEF A, B, both, l
    <3>. QED
      BY <2>2, <3>1, <3>2, <3>3, <3>4
  <2>. QED
    BY <1>7, <1>10, <2>2, <2>3 DEF Share
<1>13. AB \cup Range(pipes'[s.unit][s.gen].data) = Range(s.partial) \cup Range(data)
  BY <1>3, <1>6, <1>7
<1>14. Range(s.partial) \subseteq AB
  BY <1>7
<1>. QED
  BY <1>12, <1>13, <1>14 DEF AB, data, d, s

\* What a read took is in the lines or in the partial line.
LEMMA CountedDrain ==
    ASSUME IInv, NEW u \in Units, NEW g \in DOMAIN pipes[u], NEW w \in Writers, Drain(w)
    PROVE  Count(u, g)'
<1>1. /\ Types /\ Linked /\ Piped /\ Count(u, g) /\ Reads(w)
      /\ \A v \in Units : Places(v, w) /\ Filed(v)
  BY DEF IInv, Counted
<1>2. crashes' = crashes /\ odd' = odd /\ recorded' = recorded
  BY Zenon DEF Drain
<1>3. Mishaps' = Mishaps
  BY <1>1, <1>2, MishapsFacts
<1>4. PICK m \in DOMAIN writer[w].sources : Drains(w, m)
  BY <1>1, DrainEffect
<1>. DEFINE old == writer[w].sources
            t == writer'[w].sources
            s == old[m]
            d == Drained(s)
            A == Pieces(d.lines)
            B == Range(d.partial)
            AB == A \cup B
            P == Range(s.partial)
            D == Range(pipes[s.unit][s.gen].data)
            E == Range(pipes'[s.unit][s.gen].data)
<1>5. /\ Others(w) /\ writer[w].lines = <<>>
      /\ writer'[w].lines = Lines(s.unit, d.lines)
      /\ pipes'[u][g].wrote = pipes[u][g].wrote /\ pipes'[u][g].lost = pipes[u][g].lost
      /\ u # s.unit \/ g # s.gen => pipes'[u][g].data = pipes[u][g].data
  BY Zenon, <1>4 DEF Drains
<1>6. /\ DOMAIN t = DOMAIN old
      /\ \A n \in DOMAIN old : t[n].unit = old[n].unit /\ t[n].gen = old[n].gen
      /\ \A n \in DOMAIN old \ {m} : t[n] = old[n]
      /\ t[m].partial = d.partial
      /\ \A n \in DOMAIN old \ {m} : old[n].unit # s.unit \/ old[n].gen # s.gen
  BY <1>1, <1>4, DrainsSources
<1>7. /\ s \in Source /\ s.unit \in Units /\ Pipe(s) = pipes[s.unit][s.gen]
  BY <1>1, SourceFacts
<1>8. Begun(s.unit, w, m) /\ Filed(s.unit) /\ Taken(s.unit, w)
  BY <1>1, <1>7 DEF Places
<1>9. /\ d.lines \in Seq(Line)
      /\ AB \subseteq P \cup Range(Pipe(s).data)
      /\ \A p \in P \cup Range(Pipe(s).data) : p.gen = s.gen
  BY Zenon, <1>1, <1>4, <1>8, DrainsContent
<1>10. /\ AB \cup E = P \cup Range(Pipe(s).data)
       /\ P \subseteq AB
       /\ IsFiniteSet(AB) /\ Cardinality(AB) <= Share
  BY <1>1, <1>4, DrainsAll
<1>11. AB \cup E = P \cup D /\ \A p \in P \cup D : p.gen = s.gen
  BY Zenon, <1>7, <1>9, <1>10
<1>12. \A x : InLines(x, u, Lines(s.unit, d.lines)) <=> s.unit = u /\ x \in A
  <2>1. s.unit = u => PendingOf(u, Lines(s.unit, d.lines)) = d.lines
    <3>1. s.unit \in Units /\ d.lines \in Seq(Line)
      BY Zenon, <1>7, <1>9
    <3>. HIDE DEF s, d
    <3>. QED
      BY <3>1, LinesFacts
  <2>2. s.unit # u => Pieces(PendingOf(u, Lines(s.unit, d.lines))) = {}
    BY Zenon, <1>7, <1>9, LinesFacts
  <2>3. \A x : x \in Pieces(PendingOf(u, Lines(s.unit, d.lines))) <=> InLines(x, u, Lines(s.unit, d.lines))
    BY Zenon, PartsMembers
  <2>. QED
    BY <2>1, <2>2, <2>3
<1>13. \A x : ~InLines(x, u, <<>>)
  BY DEF InLines
<1>. HIDE DEF d, A, B, P, D, E
<1>14. u = s.unit /\ g = s.gen =>
          \A x : /\ InSources(x, u, g, old) <=> x \in P
                 /\ InSources(x, u, g, t) <=> x \in B
  BY <1>6 DEF InSources, P, B
<1>15. u # s.unit \/ g # s.gen =>
          \A x : InSources(x, u, g, old) <=> InSources(x, u, g, t)
  <2>. SUFFICES ASSUME u # s.unit \/ g # s.gen, NEW x
                PROVE  InSources(x, u, g, old) <=> InSources(x, u, g, t)
    OBVIOUS
  <2>. HIDE DEF old, t
  <2>. QED
    BY <1>6 DEF InSources, s
<1>16. \A x : x \in Parts(u, g, w) <=> x.gen = g /\ InSources(x, u, g, old)
  <2>1. \A x : x \in Parts(u, g, w) <=> x.gen = g /\ (InLines(x, u, <<>>) \/ InSources(x, u, g, old))
    BY <1>5, PartsMembers DEF Parts
  <2>. QED
    BY <1>13, <2>1
<1>17. \A x : x \in Parts(u, g, w)' <=>
          x.gen = g /\ ((s.unit = u /\ x \in A) \/ InSources(x, u, g, t))
  <2>1. \A x : x \in Parts(u, g, w)' <=>
          x.gen = g /\ (InLines(x, u, Lines(s.unit, d.lines)) \/ InSources(x, u, g, t))
    BY <1>5, PartsMembers DEF Parts
  <2>. QED
    BY <1>12, <2>1
<1>. DEFINE R == Pieces(recorded[u])
            F == Range(pipes[u][g].data)
            G == Range(pipes'[u][g].data)
<1>18. \A x : x \in Stock(u, g) <=> x.gen = g /\ (x \in R \/ x \in F)
  BY DEF Stock
<1>19. \A x : x \in Stock(u, g)' <=> x.gen = g /\ (x \in R \/ x \in G)
  BY <1>2 DEF Stock
<1>. HIDE DEF old, t, R
<1>20. CASE u = s.unit /\ g = s.gen
  <2>1. F = D /\ G = E
    BY <1>20 DEF D, E
  <2>. HIDE DEF F, G, s
  <2>2. \A x \in AB : x.gen = g
    BY <1>11, <1>20
  <2>3. Parts(u, g, w)' = AB
    BY <1>14, <1>17, <1>20, <2>2
  <2>4. Parts(u, g, w) = P
    BY <1>11, <1>14, <1>16, <1>20
  <2>5. Stock(u, g)' \cup Parts(u, g, w)' = Stock(u, g) \cup Parts(u, g, w)
    BY <1>11, <1>18, <1>19, <1>20, <2>1, <2>3, <2>4
  <2>6. Cardinality(Parts(u, g, w)') <= Share
    BY <1>10, <2>3
  <2>. QED
    BY <1>1, <1>3, <1>5, <2>5, <2>6, CountMoved
<1>21. CASE u # s.unit \/ g # s.gen
  <2>1. F = G
    BY <1>5, <1>21
  <2>2. \A x : x.gen = g => ~(s.unit = u /\ x \in A)
    <3>1. A \subseteq P \cup D
      BY <1>11
    <3>. HIDE DEF s
    <3>. QED
      BY <1>11, <1>21, <3>1
  <2>. HIDE DEF F, G, s
  <2>3. Parts(u, g, w)' = Parts(u, g, w)
    BY <1>15, <1>16, <1>17, <1>21, <2>2
  <2>4. Stock(u, g)' = Stock(u, g)
    BY <1>18, <1>19, <2>1
  <2>5. Cardinality(Parts(u, g, w)') <= Share
    BY <1>1, <2>3 DEF Count
  <2>. QED
    BY <1>1, <1>3, <1>5, <2>3, <2>4, <2>5, CountMoved
<1>. QED
  BY <1>20, <1>21

\* Every step keeps count.
LEMMA CountedStep ==
    ASSUME IInv, [Next]_vars, Types'
    PROVE  Counted'
<1>. SUFFICES ASSUME NEW u \in Units, NEW g \in DOMAIN pipes'[u] PROVE Count(u, g)'
  BY DEF Counted
<1>. DEFINE Starts == \E v \in Units : Start(v)
            Writes == \E v \in Units : \E h \in DOMAIN pipes[v] : Write(v, h)
            Exits == \E v \in Units : \E h \in DOMAIN pipes[v] : Exit(v, h)
            Drains1 == \E w \in Writers : Drain(w)
<1>1. CASE Starts
  BY <1>1, CountedStart
<1>2. CASE Writes
  BY <1>2, CountedWrite
<1>3. CASE ~Starts /\ ~Writes
  <2>1. g \in DOMAIN pipes[u]
    <3>1. Types /\ Offers /\ Piped /\ \A w \in Writers : Reads(w) /\ \A v \in Units : Places(v, w)
      BY DEF IInv
    <3>2. \A v \in Units : Len(pipes[v]) \in Nat /\ DOMAIN pipes[v] = 1..Len(pipes[v])
                           /\ Len(pipes'[v]) \in Nat /\ DOMAIN pipes'[v] = 1..Len(pipes'[v])
      <4>1. pipes \in [Units -> Seq(PipeEnd)] /\ pipes' \in [Units -> Seq(PipeEnd)]
        BY <3>1 DEF Types
      <4>. QED
        BY <4>1
    <3>3. Len(pipes'[u]) = Len(pipes[u])
      <4>1. CASE Exits
        BY <3>1, <4>1, ExitEffect
      <4>2. CASE Drains1
        <5>1. PICK w \in Writers : Drain(w)
          BY <4>2
        <5>2. PICK m \in DOMAIN writer[w].sources : Drains(w, m)
          BY <3>1, <5>1, DrainEffect
        <5>. QED
          BY Zenon, <5>2 DEF Drains
      <4>3. CASE Narrowed
        BY <4>3 DEF Narrowed
      <4>4. Starts \/ Writes \/ Exits \/ Drains1 \/ Narrowed
        BY <3>1, PipesCases
      <4>. HIDE DEF Starts, Writes, Exits, Drains1
      <4>. QED
        BY <1>3, <4>1, <4>2, <4>3, <4>4
    <3>. QED
      BY <3>2, <3>3
  <2>2. \/ Exits
        \/ \E registered \in BOOLEAN : OnShipper(registered)
        \/ OnShipperGone
        \/ \E w \in Writers : Connect(w) \/ Poll(w) \/ Rotate(w)
        \/ \E w \in Writers : Leave(w)
        \/ Drains1
        \/ \E w \in Writers : Accept(w)
        \/ \E w \in Writers : WriteLine(w)
        \/ \E w \in Writers : RecordRefused(w) \/ Crash(w)
        \/ UNCHANGED vars
    BY <1>3 DEF Next, WriterStep
  <2>3. Exits \/ UNCHANGED vars => Count(u, g)'
    BY <2>1, CountedQuiet
  <2>4. (\E registered \in BOOLEAN : OnShipper(registered)) \/ OnShipperGone => Count(u, g)'
    BY <2>1, CountedQuiet
  <2>5. (\E w \in Writers : Connect(w) \/ Poll(w) \/ Rotate(w)) => Count(u, g)'
    BY <2>1, CountedQuiet
  <2>6. (\E w \in Writers : WriteLine(w)) => Count(u, g)'
    BY <2>1, CountedQuiet, CountedWriteLine
  <2>7. Drains1 \/ (\E w \in Writers : Accept(w)) => Count(u, g)'
    BY <2>1, CountedDrain, CountedAccept
  <2>8. (\E w \in Writers : Leave(w)) => Count(u, g)'
    BY <2>1, CountedLeave
  <2>9. (\E w \in Writers : RecordRefused(w) \/ Crash(w)) => Count(u, g)'
    BY <2>1, CountedMishap
  <2>. HIDE DEF Exits, Drains1
  <2>. QED
    BY <2>2, <2>3, <2>4, <2>5, <2>6, <2>7, <2>8, <2>9
<1>. QED
  BY <1>1, <1>2, <1>3

-------------------------------------------------------------------------------
(* Files                                                                     *)

\* What a step that writes no file does to a log writer's rotation.
Undisturbed(v) ==
    \/ /\ writer'[v].moves = <<>> /\ DOMAIN writer'[v].sinks = {}
       /\ crashes' = crashes => writer[v].moves = <<>>
    \/ /\ writer'[v].moves = writer[v].moves /\ writer'[v].sinks = writer[v].sinks
       /\ writer[v].moves # <<>> => writer'[v].lines = writer[v].lines

\* The steps that change a file.
LEMMA FilesCases ==
    ASSUME IInv, [Next]_vars
    PROVE  \/ \E w \in Writers : WriteLine(w) \/ Rotate(w)
           \/ /\ disk' = disk /\ recorded' = recorded
              /\ crashes' = crashes \/ crashes' = crashes + 1
              /\ \A v \in Writers : Undisturbed(v)
<1>1. /\ Types /\ Linked /\ Piped /\ \A v \in Writers : Reads(v)
      /\ \A u \in Units, v \in Writers : Places(u, v)
  BY DEF IInv
<1>2. SUFFICES ASSUME ~ \E w \in Writers : WriteLine(w) \/ Rotate(w)
               PROVE  /\ disk' = disk /\ recorded' = recorded
                      /\ crashes' = crashes \/ crashes' = crashes + 1
                      /\ \A v \in Writers : Undisturbed(v)
  OBVIOUS
<1>3. /\ disk' = disk /\ recorded' = recorded
      /\ crashes' = crashes \/ crashes' = crashes + 1
  BY Zenon, <1>2 DEF Next, WriterStep, Start, Write, Exit, OnShipper, OnShipperGone, Connect, Poll,
              Drain, Accept, Leave, RecordRefused, Crash, vars
<1>4. ASSUME NEW v \in Writers PROVE Undisturbed(v)
  <2>1. CASE Elsewhere(v)
    BY <2>1 DEF Elsewhere, Undisturbed
  <2>2. CASE Connect(v)
    <3>1. PICK c \in Conns : writer[v] = Down /\ writer'[v] = [Down EXCEPT !.pc = "poll", !.conn = c]
      BY <1>1, <2>2, ConnectEffect
    <3>2. /\ writer'[v].moves = Down.moves /\ writer'[v].sinks = Down.sinks
      BY <3>1 DEF Down
    <3>. QED
      BY <3>1, <3>2, DownIsIdle DEF Undisturbed
  <2>3. CASE Poll(v)
    BY <1>1, <2>3, PollEffect DEF Undisturbed
  <2>4. CASE Drain(v)
    <3>1. PICK m \in DOMAIN writer[v].sources : Drains(v, m)
      BY <1>1, <2>4, DrainEffect
    <3>2. writer[v].lines = <<>> /\ writer'[v].moves = writer[v].moves
          /\ writer'[v].sinks = writer[v].sinks
      BY Zenon, <3>1 DEF Drains
    <3>3. writer[v].moves = <<>>
      BY <1>1, <3>2 DEF Reads
    <3>. QED
      BY <3>2, <3>3 DEF Undisturbed
  <2>5. CASE Accept(v)
    <3>1. writer[v].lines = <<>> /\ writer'[v].moves = writer[v].moves
          /\ writer'[v].sinks = writer[v].sinks
      BY <1>1, <2>5, AcceptEffect
    <3>2. writer[v].moves = <<>>
      BY <1>1, <3>1 DEF Reads
    <3>. QED
      BY <3>1, <3>2 DEF Undisturbed
  <2>6. CASE RecordRefused(v)
    <3>1. writer[v].moves = <<>> /\ writer'[v].moves = writer[v].moves
          /\ writer'[v].sinks = writer[v].sinks
      BY <1>1, <2>6, RecordRefusedEffect
    <3>. QED
      BY <3>1 DEF Undisturbed
  <2>7. CASE Leave(v)
    <3>1. writer[v].lines = <<>> /\ Ended(v) /\ Up(v)
      BY <2>7 DEF Leave, Up
    <3>2. writer[v].moves = <<>>
      BY <1>1, <3>1 DEF Reads
    <3>3. writer'[v] = Down
      BY <1>1, <3>1, EndedEffect
    <3>. QED
      BY <3>2, <3>3, DownIsIdle DEF Undisturbed
  <2>8. CASE Crash(v)
    <3>1. Ended(v) /\ Up(v) /\ crashes' = crashes + 1
      BY <2>8 DEF Crash, Up
    <3>2. writer'[v] = Down
      BY <1>1, <3>1, EndedEffect
    <3>3. crashes' # crashes
      <4>1. crashes \in Nat
        BY <1>1 DEF Types
      <4>. QED
        BY <3>1, <4>1
    <3>. QED
      BY <3>2, <3>3, DownIsIdle DEF Undisturbed
  <2>. QED
    BY <1>2, <2>1, <2>2, <2>3, <2>4, <2>5, <2>6, <2>7, <2>8, WriterCases
<1>. QED
  BY <1>3, <1>4

\* While one log writer has something to write, no other has anything open.
LEMMA BusyAlone ==
    ASSUME Types, Linked, NEW w \in Writers, writer[w].lines # <<>>
    PROVE  \A v \in Writers \ {w} : /\ writer[v].moves = <<>>
                                    /\ DOMAIN writer[v].sinks = {}
<1>1. ~Idle(w)
  BY DEF Idle
<1>. SUFFICES ASSUME NEW v \in Writers \ {w} PROVE Idle(v)
  BY DEF Idle
<1>. QED
  BY <1>1, OneBusy

\* Every step keeps the moves of a rotation the end of its plan.
LEMMA RotatesStep ==
    ASSUME IInv, [Next]_vars
    PROVE  \A w \in Writers : Rotates(w)'
<1>1. /\ Types /\ Linked /\ \A v \in Writers : Reads(v) /\ Rotates(v)
  BY DEF IInv
<1>. SUFFICES ASSUME NEW v \in Writers, writer'[v].moves # <<>> PROVE Rotates(v)'
  BY DEF Rotates
<1>2. Plan \in Seq(Move) /\ Len(Plan) = Keep + 1 /\ Keep \in Nat
  BY PlanFacts, Constants
<1>3. CASE disk' = disk /\ Undisturbed(v)
  BY <1>1, <1>3 DEF Rotates, Undisturbed
<1>4. ASSUME NEW w \in Writers, WriteLine(w) PROVE Rotates(v)'
  <2>1. /\ Others(w) /\ writer[w].lines # <<>> /\ writer[w].moves = <<>>
        /\ writer'[w].moves = Plan \/ writer'[w].moves = writer[w].moves
    BY <1>1, <1>4, WriteLineEffect
  <2>2. v = w
    BY <1>1, <2>1, BusyAlone DEF Others
  <2>3. writer'[w].moves = Plan
    BY <2>1, <2>2
  <2>4. Plan = SubSeq(Plan, 1, Keep + 1)
    BY <1>2
  <2>5. 1 \in 1..(Keep + 1) /\ ~(1 >= 2)
    BY <1>2
  <2>. QED
    BY <2>2, <2>3, <2>4, <2>5 DEF Rotates
<1>5. ASSUME NEW w \in Writers, Rotate(w) PROVE Rotates(v)'
  <2>. DEFINE u == writer[w].lines[1].unit
              move == writer[w].moves[1]
  <2>1. /\ Others(w) /\ writer[w].lines # <<>> /\ writer[w].moves # <<>>
        /\ u \in Units /\ move \in Move
        /\ writer'[w].lines = writer[w].lines /\ writer'[w].moves = Tail(writer[w].moves)
        /\ disk'[u] = Moved(disk[u], move)
    BY <1>1, <1>5, RotateEffect
  <2>2. v = w
    BY <1>1, <2>1, BusyAlone DEF Others
  <2>3. PICK k \in 1..(Keep + 1) :
           /\ writer[w].moves = SubSeq(Plan, k, Keep + 1)
           /\ k >= 2 => Keep + 2 - k \notin DOMAIN disk[u]
    BY <1>1, <2>1 DEF Rotates
  <2>4. /\ move = Plan[k]
        /\ Tail(writer[w].moves) = SubSeq(Plan, k + 1, Keep + 1)
        /\ Tail(writer[w].moves) # <<>> => k + 1 \in 1..(Keep + 1)
    <3>. DEFINE P == Plan
    <3>1. P \in Seq(Move) /\ Len(P) = Keep + 1 /\ k \in 1..(Keep + 1)
      BY <1>2
    <3>. HIDE DEF P
    <3>2. /\ SubSeq(P, k, Keep + 1) \in Seq(Move)
          /\ Len(SubSeq(P, k, Keep + 1)) = Keep + 2 - k
          /\ \A i \in 1..(Keep + 2 - k) : SubSeq(P, k, Keep + 1)[i] = P[k + i - 1]
      BY <1>2, <3>1
    <3>3. SubSeq(P, k, Keep + 1)[1] = P[k]
      BY <1>2, <3>1, <3>2
    <3>4. Tail(SubSeq(P, k, Keep + 1)) = SubSeq(P, k + 1, Keep + 1)
      BY <1>2, <3>1, <3>2
    <3>5. SubSeq(P, k + 1, Keep + 1) # <<>> => k + 1 \in 1..(Keep + 1)
      BY <1>2, <3>1
    <3>. QED
      BY <2>3, <3>3, <3>4, <3>5 DEF P
  <2>5. Keep + 1 - k \notin DOMAIN disk'[u]
    <3>1. move.from = Keep + 1 - k /\ (move.to = move.from \/ move.to = Keep + 2 - k)
      <4>1. CASE k = 1
        BY <1>2, <2>4, <4>1, PlanFacts DEF Unlink
      <4>2. CASE k # 1
        <5>1. k \in 2..(Keep + 1)
          BY <1>2, <4>2
        <5>2. move = Rename(Keep + 1 - k)
          BY <2>4, <5>1, PlanFacts
        <5>3. move.from = Keep + 1 - k /\ move.to = (Keep + 1 - k) + 1
          BY <5>2 DEF Rename
        <5>. QED
          BY <1>2, <5>3
      <4>. QED
        BY <4>1, <4>2
    <3>2. disk[u] \in Files
      BY <1>1, <2>1 DEF Types
    <3>3. DOMAIN Moved(disk[u], move) \subseteq (DOMAIN disk[u] \ {move.from}) \cup ({move.to} \ {move.from})
      <4>. DEFINE f == disk[u]
                  g == Moved(f, move)
      <4>1. /\ move.from \notin DOMAIN f => g = f
            /\ move.from \in DOMAIN f /\ move.from = move.to => DOMAIN g = DOMAIN f \ {move.from}
            /\ move.from \in DOMAIN f /\ move.from # move.to =>
                  DOMAIN g = (DOMAIN f \ {move.from}) \cup {move.to}
        <5>1. f \in Files /\ move \in Move
          BY <2>1, <3>2
        <5>. HIDE DEF f, move
        <5>. QED
          BY <5>1, MovedFacts
      <4>. HIDE DEF f, g, move
      <4>2. DOMAIN g \subseteq (DOMAIN f \ {move.from}) \cup ({move.to} \ {move.from})
        BY <4>1
      <4>. QED
        BY <4>2 DEF f, g, move
    <3>. QED
      BY <2>1, <3>1, <3>3
  <2>6. writer'[w].moves # <<>>
    BY <2>2
  <2>7. /\ k + 1 \in 1..(Keep + 1)
        /\ writer'[w].moves = SubSeq(Plan, k + 1, Keep + 1)
        /\ Keep + 2 - (k + 1) = Keep + 1 - k
    <3>1. Tail(writer[w].moves) # <<>> /\ k \in Nat
      BY <2>1, <2>6
    <3>2. k + 1 \in 1..(Keep + 1) /\ writer'[w].moves = SubSeq(Plan, k + 1, Keep + 1)
      BY <2>1, <2>4, <3>1
    <3>3. Keep + 2 - (k + 1) = Keep + 1 - k
      BY <1>2, <3>1
    <3>. QED
      BY <3>2, <3>3
  <2>8. Keep + 2 - (k + 1) \notin DOMAIN disk'[writer'[w].lines[1].unit]
    BY <2>1, <2>5, <2>7
  <2>9. Plan' = Plan /\ Keep' = Keep
    BY DEF Plan, Unlink, Rename
  <2>. QED
    BY <2>2, <2>7, <2>8, <2>9 DEF Rotates
<1>. QED
  BY <1>3, <1>4, <1>5, FilesCases

\* The size a log writer has of a file is the file's.
LEMMA OpenedSizeFacts ==
    ASSUME Types, NEW w \in Writers, Sunk(w), writer[w].moves = <<>>, NEW u \in Units
    PROVE  /\ Opened(disk[u]) \in Files /\ DOMAIN Opened(disk[u]) = DOMAIN disk[u] \cup {0}
           /\ \A n \in DOMAIN disk[u] : Opened(disk[u])[n] = disk[u][n]
           /\ 0 \notin DOMAIN disk[u] => Opened(disk[u])[0] = <<>>
           /\ Opened(disk[u])[0] \in Seq(Line)
           /\ OpenedSize(w, u) = FileSize(Opened(disk[u])[0])
<1>1. disk[u] \in Files
  BY DEF Types
<1>2. /\ Opened(disk[u]) \in Files /\ DOMAIN Opened(disk[u]) = DOMAIN disk[u] \cup {0}
      /\ \A n \in DOMAIN disk[u] : Opened(disk[u])[n] = disk[u][n]
      /\ 0 \notin DOMAIN disk[u] => Opened(disk[u])[0] = <<>>
      /\ Opened(disk[u])[0] \in Seq(Line)
  BY <1>1, OpenedFacts
<1>3. FileSize(<<>>) = 0
  <2>1. <<>> \in Seq(Seq(Piece)) /\ <<>> \in Seq(Piece)
    OBVIOUS
  <2>. QED
    BY <2>1, FileSizeFacts
<1>4. u \in DOMAIN writer[w].sinks =>
         0 \in DOMAIN disk[u] /\ writer[w].sinks[u] = FileSize(disk[u][0])
  BY DEF Sunk, Rotating
<1>5. OpenedSize(w, u) = FileSize(Opened(disk[u])[0])
  BY <1>2, <1>3, <1>4 DEF OpenedSize
<1>. QED
  BY <1>2, <1>5

\* What an append makes of the live file.
LEMMA AppendedFacts ==
    ASSUME NEW f \in Files, 0 \in DOMAIN f, NEW line \in Line
    PROVE  LET g == [f EXCEPT ![0] = Append(@, line)]
           IN  /\ DOMAIN g = DOMAIN f
               /\ g[0] = Append(f[0], line) /\ g[0] \in Seq(Line)
               /\ \A n \in DOMAIN f \ {0} : g[n] = f[n]
               /\ FileSize(g[0]) = FileSize(f[0]) + RecordSize(line)
               /\ FileSize(f[0]) \in Nat /\ (FileSize(f[0]) = 0 => f[0] = <<>>)
<1>1. f = [n \in DOMAIN f |-> f[n]] /\ f[0] \in Seq(Line)
  BY FilesFacts
<1>. DEFINE g == [f EXCEPT ![0] = Append(@, line)]
<1>2. /\ DOMAIN g = DOMAIN f /\ g[0] = Append(f[0], line)
      /\ \A n \in DOMAIN f \ {0} : g[n] = f[n]
  BY <1>1
<1>3. Append(f[0], line) \in Seq(Line)
  BY <1>1
<1>4. f[0] \in Seq(Seq(Piece)) /\ line \in Seq(Piece)
  BY <1>1 DEF Line
<1>5. /\ FileSize(Append(f[0], line)) = FileSize(f[0]) + RecordSize(line)
      /\ FileSize(f[0]) \in Nat /\ (FileSize(f[0]) = 0 => f[0] = <<>>)
  BY <1>4, FileSizeFacts
<1>. QED
  BY <1>2, <1>3, <1>5

\* One size more, or another.
Knows(t, s, u, size) ==
    /\ DOMAIN t = DOMAIN s \cup {u}
    /\ t[u] = size
    /\ \A x \in DOMAIN s : x # u => t[x] = s[x]

\* The size of the file just written is remembered.
LEMMA SinkAdded ==
    ASSUME NEW s \in Sinks, NEW u \in Units, NEW size \in Nat
    PROVE  Knows(WithSink(s, u, size), s, u, size)
  BY Zenon, SinksFacts DEF Knows

\* Every step keeps the remembered sizes those of the files.
LEMMA SunkStep ==
    ASSUME IInv, [Next]_vars
    PROVE  \A w \in Writers : Sunk(w)'
<1>1. /\ Types /\ Linked /\ \A v \in Writers : Reads(v) /\ Sunk(v)
  BY DEF IInv
<1>. SUFFICES ASSUME NEW v \in Writers PROVE Sunk(v)'
  OBVIOUS
<1>2. CASE DOMAIN writer'[v].sinks = {}
  BY <1>2 DEF Sunk
<1>3. CASE disk' = disk /\ Undisturbed(v)
  <2>1. CASE writer'[v].moves = writer[v].moves /\ writer'[v].sinks = writer[v].sinks
             /\ (writer[v].moves # <<>> => writer'[v].lines = writer[v].lines)
    BY <1>1, <1>3, <2>1 DEF Sunk, Rotating
  <2>. QED
    BY <1>2, <1>3, <2>1 DEF Undisturbed
<1>4. ASSUME NEW w \in Writers, WriteLine(w) PROVE Sunk(v)'
  <2>. DEFINE u == writer[w].lines[1].unit
              line == writer[w].lines[1].line
              size == OpenedSize(w, u)
              s == writer[w].sinks
              t == writer'[w].sinks
              o == Opened(disk[u])
  <2>1. /\ Others(w) /\ writer[w].lines # <<>> /\ writer[w].moves = <<>>
        /\ u \in Units /\ line \in Line /\ size \in Nat
        /\ \A x \in Units \ {u} : disk'[x] = disk[x]
        /\ \/ /\ writer'[w].moves = Plan /\ writer'[w].lines = writer[w].lines
              /\ t = WithSink(s, u, size)
           \/ /\ writer'[w].moves = writer[w].moves
              /\ t = WithSink(s, u, size + RecordSize(line))
              /\ disk'[u] = [o EXCEPT ![0] = Append(@, line)]
    BY Zenon, <1>1, <1>4, WriteLineEffect
  <2>2. CASE v # w
    <3>1. DOMAIN writer'[v].sinks = {}
      BY <1>1, <2>1, <2>2, BusyAlone DEF Others
    <3>. QED
      BY <1>2, <3>1
  <2>3. CASE v = w
    <3>1. s \in Sinks
      BY <1>1 DEF Types, Process
    <3>2. DOMAIN s \subseteq Units
      BY Zenon, <2>1, <3>1, SinksFacts
    <3>3. \A x \in DOMAIN s : 0 \in DOMAIN disk[x] /\ s[x] = FileSize(disk[x][0])
      BY <1>1, <2>1 DEF Sunk, Rotating
    <3>4. CASE /\ writer'[w].moves = Plan /\ writer'[w].lines = writer[w].lines
               /\ t = WithSink(s, u, size)
      <4>1. Plan # <<>>
        BY PlanFacts, Constants
      <4>2. \A x : x = u => Rotating(w, x)'
        BY <3>4, <4>1 DEF Rotating
      <4>3. /\ DOMAIN t = DOMAIN s \cup {u}
            /\ \A x \in DOMAIN s : x # u => t[x] = s[x]
        <5>1. s \in Sinks /\ u \in Units /\ size \in Nat
          BY <2>1, <3>1
        <5>2. t = WithSink(s, u, size)
          BY <3>4
        <5>3. Knows(t, s, u, size)
          <6>. HIDE DEF s, u, size, t
          <6>. QED
            BY <5>1, <5>2, SinkAdded
        <5>. QED
          BY <5>3 DEF Knows
      <4>4. ASSUME NEW x \in DOMAIN t, x # u
            PROVE  0 \in DOMAIN disk'[x] /\ t[x] = FileSize(disk'[x][0])
        <5>1. x \in DOMAIN s /\ t[x] = s[x] /\ disk'[x] = disk[x]
          BY <2>1, <3>2, <4>3, <4>4
        <5>. QED
          BY <3>3, <5>1
      <4>. QED
        <5>1. \A x \in DOMAIN t : ~Rotating(w, x)' => 0 \in DOMAIN disk'[x] /\ t[x] = FileSize(disk'[x][0])
          BY <4>2, <4>4
        <5>. QED
          BY <2>3, <5>1 DEF Sunk
    <3>5. CASE /\ t = WithSink(s, u, size + RecordSize(line))
               /\ disk'[u] = [o EXCEPT ![0] = Append(@, line)]
      <4>1. o \in Files /\ DOMAIN o = DOMAIN disk[u] \cup {0} /\ size = FileSize(o[0])
        BY Zenon, <1>1, <2>1, OpenedSizeFacts
      <4>2. size + RecordSize(line) \in Nat
        <5>1. size \in Nat /\ RecordSize(line) \in Nat
          BY Zenon, <2>1, RecordSizeFacts
        <5>. HIDE DEF size, line
        <5>. QED
          BY <5>1
      <4>3. /\ DOMAIN t = DOMAIN s \cup {u}
            /\ t[u] = size + RecordSize(line)
            /\ \A x \in DOMAIN s : x # u => t[x] = s[x]
        <5>. DEFINE grown == size + RecordSize(line)
        <5>1. s \in Sinks /\ u \in Units /\ grown \in Nat /\ t = WithSink(s, u, grown)
          BY <2>1, <3>1, <3>5, <4>2
        <5>2. Knows(t, s, u, grown)
          <6>. HIDE DEF s, u, grown, t
          <6>. QED
            BY <5>1, SinkAdded
        <5>. QED
          BY <5>2 DEF Knows
      <4>4. 0 \in DOMAIN disk'[u] /\ FileSize(disk'[u][0]) = size + RecordSize(line)
        <5>1. o \in Files /\ 0 \in DOMAIN o /\ line \in Line
          BY Zenon, <2>1, <4>1
        <5>2. /\ DOMAIN disk'[u] = DOMAIN o
              /\ FileSize(disk'[u][0]) = FileSize(o[0]) + RecordSize(line)
          <6>. HIDE DEF o, line
          <6>. QED
            BY <3>5, <5>1, AppendedFacts
        <5>. QED
          BY <4>1, <5>1, <5>2
      <4>5. ASSUME NEW x \in DOMAIN t, x # u
            PROVE  0 \in DOMAIN disk'[x] /\ t[x] = FileSize(disk'[x][0])
        <5>1. x \in DOMAIN s /\ t[x] = s[x] /\ disk'[x] = disk[x]
          BY Zenon, <2>1, <3>2, <4>3, <4>5
        <5>. QED
          BY <3>3, <5>1
      <4>. QED
        BY <2>3, <4>3, <4>4, <4>5 DEF Sunk
    <3>. QED
      BY <2>1, <3>4, <3>5
  <2>. QED
    BY <2>2, <2>3
<1>5. ASSUME NEW w \in Writers, Rotate(w) PROVE Sunk(v)'
  <2>. DEFINE u == writer[w].lines[1].unit
              s == writer[w].sinks
              t == writer'[w].sinks
              rest == Tail(writer[w].moves)
  <2>1. /\ Others(w) /\ writer[w].lines # <<>> /\ writer[w].moves # <<>> /\ u \in Units
        /\ writer'[w].lines = writer[w].lines /\ writer'[w].moves = rest
        /\ rest # <<>> => t = s
        /\ rest = <<>> => t = [x \in DOMAIN s \ {u} |-> s[x]]
        /\ \A x \in Units \ {u} : disk'[x] = disk[x]
    BY <1>1, <1>5, RotateEffect
  <2>2. CASE v # w
    <3>1. DOMAIN writer'[v].sinks = {}
      BY <1>1, <2>1, <2>2, BusyAlone DEF Others
    <3>. QED
      BY <1>2, <3>1
  <2>3. CASE v = w
    <3>1. s \in Sinks
      BY <1>1 DEF Types, Process
    <3>2. DOMAIN s \subseteq Units
      BY <2>1, <3>1, SinksFacts, Constants
    <3>3. \A x \in DOMAIN s : x # u => 0 \in DOMAIN disk[x] /\ s[x] = FileSize(disk[x][0])
      BY <1>1 DEF Sunk, Rotating
    <3>4. ASSUME NEW x \in DOMAIN t, ~Rotating(w, x)'
          PROVE  0 \in DOMAIN disk'[x] /\ t[x] = FileSize(disk'[x][0])
      <4>1. x \in DOMAIN s /\ x # u /\ t[x] = s[x]
        <5>1. CASE rest # <<>>
          BY <2>1, <3>4, <5>1 DEF Rotating
        <5>2. CASE rest = <<>>
          BY <2>1, <3>4, <5>2
        <5>. QED
          BY <5>1, <5>2
      <4>2. disk'[x] = disk[x]
        BY <2>1, <3>2, <4>1
      <4>. QED
        BY <3>3, <4>1, <4>2
    <3>. QED
      BY <2>3, <3>4 DEF Sunk
  <2>. QED
    BY <2>2, <2>3
<1>. QED
  BY <1>3, <1>4, <1>5, FilesCases

\* Every step keeps the files within their size.
LEMMA SizedStep ==
    ASSUME IInv, [Next]_vars
    PROVE  Sized'
<1>1. /\ Types /\ Linked /\ Sized /\ \A v \in Writers : Reads(v) /\ Sunk(v)
  BY DEF IInv
<1>2. CASE disk' = disk
  BY <1>1, <1>2 DEF Sized
<1>. DEFINE Fits(file) == FileSize(file) <= MaxSize \/ Len(file) <= 1
<1>3. \A x \in Units : \A n \in DOMAIN disk[x] : Fits(disk[x][n])
  BY <1>1 DEF Sized
<1>4. \A x \in Units : disk[x] \in Files
  BY <1>1 DEF Types
<1>5. Fits(<<>>)
  OBVIOUS
<1>6. ASSUME NEW w \in Writers, WriteLine(w) PROVE Sized'
  <2>. DEFINE u == writer[w].lines[1].unit
              line == writer[w].lines[1].line
              size == OpenedSize(w, u)
              o == Opened(disk[u])
  <2>1. /\ writer[w].moves = <<>>
        /\ u \in Units /\ line \in Line
        /\ \A x \in Units \ {u} : disk'[x] = disk[x]
        /\ \/ disk'[u] = o
           \/ /\ ~ShouldRotate(size, line)
              /\ disk'[u] = [o EXCEPT ![0] = Append(@, line)]
    BY Zenon, <1>1, <1>6, WriteLineEffect
  <2>2. /\ o \in Files /\ DOMAIN o = DOMAIN disk[u] \cup {0} /\ size = FileSize(o[0])
        /\ \A n \in DOMAIN disk[u] : o[n] = disk[u][n]
        /\ 0 \notin DOMAIN disk[u] => o[0] = <<>>
    BY ZenonT(30), <1>1, <2>1, OpenedSizeFacts
  <2>3. \A n \in DOMAIN o : Fits(o[n])
    <3>. HIDE DEF Fits, o, u
    <3>. QED
      BY <1>3, <1>5, <2>1, <2>2
  <2>4. CASE disk'[u] = o
    <3>1. \A x \in Units : \A n \in DOMAIN disk'[x] : Fits(disk'[x][n])
      <4>. HIDE DEF Fits, o, u
      <4>. QED
        BY <1>3, <2>1, <2>3, <2>4
    <3>. QED
      BY <3>1 DEF Sized
  <2>5. CASE ~ShouldRotate(size, line) /\ disk'[u] = [o EXCEPT ![0] = Append(@, line)]
    <3>1. /\ DOMAIN disk'[u] = DOMAIN o
          /\ disk'[u][0] = Append(o[0], line)
          /\ \A n \in DOMAIN o \ {0} : disk'[u][n] = o[n]
          /\ FileSize(disk'[u][0]) = FileSize(o[0]) + RecordSize(line)
          /\ FileSize(o[0]) \in Nat /\ (FileSize(o[0]) = 0 => o[0] = <<>>)
      <4>1. 0 \in DOMAIN o
        BY <2>2
      <4>. HIDE DEF o, line, u
      <4>. QED
        BY <2>1, <2>2, <2>5, <4>1, AppendedFacts
    <3>2. RecordSize(line) \in Nat
      BY Zenon, <2>1, RecordSizeFacts
    <3>3. FileSize(o[0]) = 0 \/ FileSize(o[0]) + RecordSize(line) <= MaxSize
      <4>1. ~ShouldRotate(FileSize(o[0]), line)
        BY Zenon, <2>2, <2>5
      <4>2. ~(FileSize(o[0]) > 0 /\ FileSize(o[0]) + RecordSize(line) > MaxSize)
        BY <4>1 DEF ShouldRotate
      <4>3. MaxSize \in Nat /\ FileSize(o[0]) \in Nat /\ RecordSize(line) \in Nat
        BY Zenon, <3>1, <3>2, Constants
      <4>. HIDE DEF o, line
      <4>. QED
        BY <4>2, <4>3
    <3>4. o[0] = <<>> => Len(Append(o[0], line)) = 1
      OBVIOUS
    <3>5. Fits(disk'[u][0])
      <4>1. CASE FileSize(o[0]) = 0
        <5>1. disk'[u][0] = Append(<<>>, line)
          BY Zenon, <3>1, <4>1
        <5>2. Len(Append(<<>>, line)) = 1
          BY Zenon, <3>1, <3>4, <4>1
        <5>. QED
          BY <5>1, <5>2
      <4>2. CASE FileSize(o[0]) + RecordSize(line) <= MaxSize
        BY Zenon, <3>1, <4>2
      <4>. QED
        BY <3>3, <4>1, <4>2
    <3>6. \A x \in Units : \A n \in DOMAIN disk'[x] : Fits(disk'[x][n])
      <4>. HIDE DEF Fits, o, u
      <4>. QED
        BY <1>3, <2>1, <2>3, <3>1, <3>5
    <3>. QED
      BY <3>6 DEF Sized
  <2>. QED
    BY <2>1, <2>4, <2>5
<1>7. ASSUME NEW w \in Writers, Rotate(w) PROVE Sized'
  <2>. DEFINE u == writer[w].lines[1].unit
              move == writer[w].moves[1]
              f == disk[u]
              g == disk'[u]
  <2>1. /\ u \in Units /\ move \in Move /\ g = Moved(f, move)
        /\ \A x \in Units \ {u} : disk'[x] = disk[x]
    BY <1>1, <1>7, RotateEffect
  <2>2. \A n \in DOMAIN g : \E m \in DOMAIN f : g[n] = f[m]
    <3>1. f \in Files
      BY <1>4, <2>1
    <3>. HIDE DEF f, g, move
    <3>2. move.from \notin DOMAIN f => g = f
      BY <2>1, <3>1, MovedFacts
    <3>3. move.from \in DOMAIN f /\ move.from = move.to =>
             /\ DOMAIN g = DOMAIN f \ {move.from}
             /\ \A n \in DOMAIN f \ {move.from} : g[n] = f[n]
      BY <2>1, <3>1, MovedFacts
    <3>4. move.from \in DOMAIN f /\ move.from # move.to =>
             /\ DOMAIN g = (DOMAIN f \ {move.from}) \cup {move.to}
             /\ g[move.to] = f[move.from]
             /\ \A n \in DOMAIN f \ {move.from} : n # move.to => g[n] = f[n]
      BY <2>1, <3>1, MovedFacts
    <3>. QED
      BY <3>2, <3>3, <3>4
  <2>3. \A x \in Units : \A n \in DOMAIN disk'[x] : Fits(disk'[x][n])
    <3>1. ASSUME NEW x \in Units, x # u PROVE \A n \in DOMAIN disk'[x] : Fits(disk'[x][n])
      <4>. HIDE DEF Fits, u
      <4>. QED
        BY <1>3, <2>1, <3>1
    <3>2. \A n \in DOMAIN g : Fits(g[n])
      <4>1. \A m \in DOMAIN f : Fits(f[m])
        BY <1>3, <2>1
      <4>. HIDE DEF Fits, f, g
      <4>. QED
        BY <2>2, <4>1
    <3>. HIDE DEF Fits, u
    <3>. QED
      BY <3>1, <3>2
  <2>. QED
    BY <2>3 DEF Sized
<1>. QED
  BY <1>2, <1>6, <1>7, FilesCases

\* A file opened is one more, and empty.
LEMMA CutOpened ==
    ASSUME NEW record \in Seq(Line), NEW f \in Files, NEW ends \in Marks, CutAt(record, f, ends)
    PROVE  CutAt(record, Opened(f), ends)
<1>. DEFINE o == Opened(f)
<1>1. /\ DOMAIN o = DOMAIN f \cup {0}
      /\ \A n \in DOMAIN f : o[n] = f[n]
      /\ 0 \notin DOMAIN f => o[0] = <<>>
  BY OpenedFacts
<1>2. /\ ends[0] = Len(record)
      /\ \A n \in 0..Keep :
           /\ ends[n + 1] <= ends[n]
           /\ n \in DOMAIN f => f[n] = SubSeq(record, ends[n + 1] + 1, ends[n])
           /\ n \notin DOMAIN f => ends[n + 1] = ends[n]
  BY DEF CutAt
<1>3. 0 \in 0..Keep
  BY Constants
<1>4. 0 \notin DOMAIN f => SubSeq(record, ends[1] + 1, ends[0]) = <<>>
  <2>1. SubSeq(record, Len(record) + 1, Len(record)) = <<>>
    OBVIOUS
  <2>2. 0 \notin DOMAIN f => ends[0 + 1] = ends[0]
    BY <1>2, <1>3
  <2>. QED
    BY <1>2, <2>1, <2>2
<1>. HIDE DEF o
<1>5. ASSUME NEW n \in 0..Keep
      PROVE  /\ ends[n + 1] <= ends[n]
             /\ n \in DOMAIN o => o[n] = SubSeq(record, ends[n + 1] + 1, ends[n])
             /\ n \notin DOMAIN o => ends[n + 1] = ends[n]
  <2>1. CASE n = 0 /\ 0 \notin DOMAIN f
    <3>1. ends[0 + 1] = ends[1] /\ ends[0 + 1] <= ends[0]
      BY <1>2, <1>3
    <3>. QED
      BY <1>1, <1>4, <2>1, <3>1
  <2>2. CASE n # 0 \/ 0 \in DOMAIN f
    <3>1. n \in DOMAIN o <=> n \in DOMAIN f
      BY <1>1, <2>2
    <3>. QED
      BY <1>1, <1>2, <3>1
  <2>. QED
    BY <2>1, <2>2
<1>. QED
  BY <1>2, <1>5 DEF CutAt, o

\* A record more is one at the end of the live file.
LEMMA CutAppended ==
    ASSUME NEW record \in Seq(Line), NEW f \in Files, NEW ends \in Marks, CutAt(record, f, ends),
           0 \in DOMAIN f, NEW line \in Line
    PROVE  /\ CutAt(Append(record, line), [f EXCEPT ![0] = Append(@, line)],
                    [ends EXCEPT ![0] = @ + 1])
           /\ [ends EXCEPT ![0] = @ + 1] \in Marks
           /\ [ends EXCEPT ![0] = @ + 1][Keep + 1] = ends[Keep + 1]
<1>. DEFINE g == [f EXCEPT ![0] = Append(@, line)]
            e == [ends EXCEPT ![0] = @ + 1]
            r == Append(record, line)
            L == Len(record)
<1>1. /\ DOMAIN g = DOMAIN f /\ g[0] = Append(f[0], line)
      /\ \A n \in DOMAIN f \ {0} : g[n] = f[n]
  BY AppendedFacts
<1>2. /\ ends[0] = L
      /\ \A n \in 0..Keep :
           /\ ends[n + 1] <= ends[n]
           /\ n \in DOMAIN f => f[n] = SubSeq(record, ends[n + 1] + 1, ends[n])
           /\ n \notin DOMAIN f => ends[n + 1] = ends[n]
  BY DEF CutAt
<1>3. Keep \in Nat /\ 0 \in 0..Keep /\ L \in Nat
  BY Constants
<1>4. ends \in [0..(Keep + 1) -> Nat]
  BY DEF Marks
<1>5. e \in [0..(Keep + 1) -> Nat] /\ e[0] = L + 1
      /\ \A n \in 1..(Keep + 1) : e[n] = ends[n]
  BY <1>2, <1>3, <1>4
<1>6. Len(r) = L + 1 /\ \A i \in 1..L : r[i] = record[i]
  OBVIOUS
<1>7. r \in Seq(Line) /\ r[L + 1] = line
  OBVIOUS
<1>8. \A a, b \in 0..L : SubSeq(r, a + 1, b) = SubSeq(record, a + 1, b)
  <2>. HIDE DEF r
  <2>. SUFFICES ASSUME NEW a \in 0..L, NEW b \in 0..L
                PROVE  SubSeq(r, a + 1, b) = SubSeq(record, a + 1, b)
    OBVIOUS
  <2>1. \A i \in 1..(b - a) : r[(a + 1) + i - 1] = record[(a + 1) + i - 1]
    BY SMTT(20), <1>3, <1>6
  <2>2. SubSeq(r, a + 1, b) = [i \in 1..(b - a) |-> r[(a + 1) + i - 1]]
    BY <1>3, <1>7
  <2>3. SubSeq(record, a + 1, b) = [i \in 1..(b - a) |-> record[(a + 1) + i - 1]]
    BY <1>3
  <2>. QED
    BY <2>1, <2>2, <2>3
<1>9. \A a \in 0..L : SubSeq(r, a + 1, L + 1) = Append(SubSeq(record, a + 1, L), line)
  <2>. SUFFICES ASSUME NEW a \in 0..L
                PROVE  SubSeq(r, a + 1, L + 1) = Append(SubSeq(record, a + 1, L), line)
    OBVIOUS
  <2>. DEFINE x == SubSeq(r, a + 1, L + 1)
              y == SubSeq(record, a + 1, L)
              z == Append(y, line)
  <2>1. /\ x \in Seq(Line) /\ Len(x) = L + 1 - a
        /\ \A i \in 1..(L + 1 - a) : x[i] = r[a + i]
    <3>. HIDE DEF r
    <3>. QED
      BY <1>3, <1>6, <1>7
  <2>2. /\ y \in Seq(Line) /\ Len(y) = L - a
        /\ \A i \in 1..(L - a) : y[i] = record[a + i]
    BY <1>3
  <2>. HIDE DEF x, y
  <2>3. /\ z \in Seq(Line) /\ Len(z) = L + 1 - a
        /\ \A i \in 1..(L - a) : z[i] = y[i]
        /\ z[L + 1 - a] = line
    BY <1>3, <2>2
  <2>. HIDE DEF z, r
  <2>4. \A i \in 1..(L + 1 - a) : x[i] = z[i]
    <3>. SUFFICES ASSUME NEW i \in 1..(L + 1 - a) PROVE x[i] = z[i]
      OBVIOUS
    <3>1. CASE i = L + 1 - a
      <4>1. a + i = L + 1
        BY <1>3, <3>1
      <4>. QED
        BY <1>7, <2>1, <2>3, <3>1, <4>1
    <3>2. CASE i # L + 1 - a
      <4>1. i \in 1..(L - a) /\ a + i \in 1..L
        BY <1>3, <3>2
      <4>. QED
        BY <1>6, <2>1, <2>2, <2>3, <4>1
    <3>. QED
      BY <3>1, <3>2
  <2>5. x = z
    BY <2>1, <2>3, <2>4
  <2>. QED
    BY <2>5 DEF x, y, z
<1>. DEFINE P(n) == ends[n] \in 0..L
<1>10. \A n \in 0..(Keep + 1) : P(n)
  <2>. DEFINE S == {n \in 0..(Keep + 1) : P(n)}
  <2>1. 0 \in S
    BY <1>2, <1>3
  <2>2. ASSUME NEW n \in 1..(Keep + 1), n - 1 \in S PROVE n \in S
    <3>1. n - 1 \in 0..Keep /\ (n - 1) + 1 = n
      BY <1>3
    <3>2. ends[n] <= ends[n - 1]
      BY <1>2, <3>1
    <3>3. ends[n] \in Nat /\ ends[n - 1] \in 0..L
      BY <1>3, <1>4, <2>2
    <3>. QED
      BY <1>3, <3>2, <3>3
  <2>3. 0..(Keep + 1) \subseteq S
    <3>1. Keep + 1 \in Nat
      BY <1>3
    <3>. HIDE DEF S
    <3>. QED
      BY <3>1, <2>1, <2>2, Induction
  <2>. QED
    BY <2>3
<1>. HIDE DEF g, e, r
<1>11. ASSUME NEW n \in 0..Keep
       PROVE  /\ e[n + 1] <= e[n]
              /\ n \in DOMAIN g => g[n] = SubSeq(r, e[n + 1] + 1, e[n])
              /\ n \notin DOMAIN g => e[n + 1] = e[n]
  <2>1. n + 1 \in 1..(Keep + 1) /\ e[n + 1] = ends[n + 1] /\ ends[n + 1] \in 0..L
    BY <1>3, <1>5, <1>10
  <2>2. CASE n = 0
    <3>1. ends[1] \in 0..L /\ e[1] = ends[1] /\ e[0] = L + 1
      BY <1>5, <2>1, <2>2
    <3>2. f[0] = SubSeq(record, ends[1] + 1, L)
      <4>1. f[0] = SubSeq(record, ends[0 + 1] + 1, ends[0])
        BY <1>2, <1>3
      <4>. QED
        BY <1>2, <4>1
    <3>3. g[0] = SubSeq(r, e[1] + 1, e[0])
      BY <1>1, <1>9, <3>1, <3>2
    <3>. QED
      BY <1>1, <1>3, <2>2, <3>1, <3>3
  <2>3. CASE n # 0
    <3>1. n \in 1..(Keep + 1) /\ e[n] = ends[n] /\ ends[n] \in 0..L
      BY <1>3, <1>5, <1>10, <2>3
    <3>2. SubSeq(r, e[n + 1] + 1, e[n]) = SubSeq(record, ends[n + 1] + 1, ends[n])
      BY <1>8, <2>1, <3>1
    <3>. QED
      BY <1>1, <1>2, <2>1, <2>3, <3>1, <3>2
  <2>. QED
    BY <2>2, <2>3
<1>12. e[0] = Len(r)
  BY <1>5, <1>6
<1>13. CutAt(r, g, e) /\ e \in Marks /\ e[Keep + 1] = ends[Keep + 1]
  BY <1>3, <1>5, <1>11, <1>12 DEF CutAt, Marks
<1>. QED
  BY <1>13 DEF r, g, e

\* The move that is next when k are to go: the oldest file goes, and each of
\* the others is renamed into the place of the one before it.
MoveTo(k) == IF k = Keep + 1 THEN Unlink(Keep) ELSE Rename(k - 1)

\* What a move does, as a file that leaves one place for the next.
LEMMA MoveToFacts ==
    ASSUME NEW f \in Files, NEW k \in 1..(Keep + 1)
    PROVE  LET g == Moved(f, MoveTo(k))
           IN  /\ k - 1 \notin DOMAIN f => g = f
               /\ k - 1 \in DOMAIN f /\ k = Keep + 1 => DOMAIN g = DOMAIN f \ {k - 1}
               /\ k - 1 \in DOMAIN f /\ k # Keep + 1 =>
                     DOMAIN g = (DOMAIN f \ {k - 1}) \cup {k} /\ g[k] = f[k - 1]
               /\ k - 1 \in DOMAIN f =>
                     \A n \in DOMAIN f \ {k - 1} : n # k => g[n] = f[n]
<1>1. Keep \in Nat /\ k \in Nat /\ k - 1 \in 0..Keep
  BY Constants
<1>. DEFINE m == MoveTo(k)
            g == Moved(f, m)
<1>2. /\ m \in Move /\ m.from = k - 1
      /\ k = Keep + 1 => m.to = k - 1
      /\ k # Keep + 1 => m.to = k /\ k \in 0..Keep
  <2>1. CASE k = Keep + 1
    <3>1. m = [from |-> Keep, to |-> Keep] /\ Keep \in 0..Keep
      BY <1>1, <2>1 DEF MoveTo, Unlink
    <3>. QED
      BY <1>1, <2>1, <3>1 DEF Move
  <2>2. CASE k # Keep + 1
    <3>1. m = [from |-> k - 1, to |-> (k - 1) + 1]
      BY <2>2 DEF MoveTo, Rename
    <3>2. (k - 1) + 1 = k /\ k \in 0..Keep
      BY <1>1, <2>2
    <3>. QED
      BY <1>1, <2>2, <3>1, <3>2 DEF Move
  <2>. QED
    BY <2>1, <2>2
<1>. HIDE DEF m
<1>3. k - 1 # k
  BY <1>1
<1>4. /\ m.from \notin DOMAIN f => g = f
      /\ m.from \in DOMAIN f /\ m.from = m.to =>
            /\ DOMAIN g = DOMAIN f \ {m.from}
            /\ \A n \in DOMAIN f \ {m.from} : g[n] = f[n]
      /\ m.from \in DOMAIN f /\ m.from # m.to =>
            /\ DOMAIN g = (DOMAIN f \ {m.from}) \cup {m.to}
            /\ g[m.to] = f[m.from]
            /\ \A n \in DOMAIN f \ {m.from} : n # m.to => g[n] = f[n]
  BY <1>2, MovedFacts
<1>. HIDE DEF g
<1>5. /\ k - 1 \notin DOMAIN f => g = f
      /\ k - 1 \in DOMAIN f /\ k = Keep + 1 => DOMAIN g = DOMAIN f \ {k - 1}
      /\ k - 1 \in DOMAIN f /\ k # Keep + 1 =>
            DOMAIN g = (DOMAIN f \ {k - 1}) \cup {k} /\ g[k] = f[k - 1]
      /\ k - 1 \in DOMAIN f =>
            \A n \in DOMAIN f \ {k - 1} : n # k => g[n] = f[n]
  BY <1>2, <1>3, <1>4
<1>. QED
  BY <1>5 DEF g, m

\* A file moved takes its mark along.
LEMMA CutMoved ==
    ASSUME NEW record \in Seq(Line), NEW f \in Files, NEW ends \in Marks, CutAt(record, f, ends),
           NEW k \in 1..(Keep + 1), k \notin DOMAIN f
    PROVE  /\ CutAt(record, Moved(f, MoveTo(k)), [ends EXCEPT ![k] = ends[k - 1]])
           /\ [ends EXCEPT ![k] = ends[k - 1]] \in Marks
           /\ [ends EXCEPT ![k] = ends[k - 1]][Keep + 1] = ends[Keep + 1]
                \/ (k = Keep + 1 /\ Keep \in DOMAIN f)
<1>. DEFINE g == Moved(f, MoveTo(k))
            e == [ends EXCEPT ![k] = ends[k - 1]]
<1>1. Keep \in Nat /\ k \in Nat /\ k - 1 \in 0..Keep /\ (k - 1) + 1 = k
  BY Constants
<1>2. /\ ends[0] = Len(record)
      /\ \A n \in 0..Keep :
           /\ ends[n + 1] <= ends[n]
           /\ n \in DOMAIN f => f[n] = SubSeq(record, ends[n + 1] + 1, ends[n])
           /\ n \notin DOMAIN f => ends[n + 1] = ends[n]
  BY DEF CutAt
<1>3. /\ k - 1 \notin DOMAIN f => g = f
      /\ k - 1 \in DOMAIN f /\ k = Keep + 1 => DOMAIN g = DOMAIN f \ {k - 1}
      /\ k - 1 \in DOMAIN f /\ k # Keep + 1 =>
            DOMAIN g = (DOMAIN f \ {k - 1}) \cup {k} /\ g[k] = f[k - 1]
      /\ k - 1 \in DOMAIN f =>
            \A n \in DOMAIN f \ {k - 1} : n # k => g[n] = f[n]
  BY MoveToFacts
<1>4. ends \in [0..(Keep + 1) -> Nat]
  BY DEF Marks
<1>5. k \in 0..(Keep + 1) /\ k - 1 \in 0..(Keep + 1) /\ ends[k - 1] \in Nat
  BY <1>1, <1>4
<1>6. /\ e \in [0..(Keep + 1) -> Nat] /\ e[k] = ends[k - 1]
      /\ \A n \in 0..(Keep + 1) : n # k => e[n] = ends[n]
  BY <1>4, <1>5
<1>. HIDE DEF g, e
<1>7. e[0] = Len(record)
  BY <1>1, <1>2, <1>6
<1>8. CASE k - 1 \notin DOMAIN f
  <2>1. ends[k] = ends[k - 1]
    BY <1>1, <1>2, <1>8
  <2>2. \A n \in 0..(Keep + 1) : e[n] = ends[n]
    BY <1>6, <2>1
  <2>3. e = ends
    <3>1. e = [n \in 0..(Keep + 1) |-> e[n]] /\ ends = [n \in 0..(Keep + 1) |-> ends[n]]
      BY <1>4, <1>6
    <3>. QED
      BY <2>2, <3>1
  <2>4. Keep + 1 \in 0..(Keep + 1)
    BY <1>1
  <2>5. CutAt(record, g, e) /\ e \in Marks /\ e[Keep + 1] = ends[Keep + 1]
    BY <1>3, <1>8, <2>3
  <2>. QED
    BY <2>5 DEF g, e
<1>9. CASE k - 1 \in DOMAIN f
  <2>1. ASSUME NEW n \in 0..Keep
        PROVE  /\ e[n + 1] <= e[n]
               /\ n \in DOMAIN g => g[n] = SubSeq(record, e[n + 1] + 1, e[n])
               /\ n \notin DOMAIN g => e[n + 1] = e[n]
    <3>0. n \in 0..(Keep + 1) /\ n + 1 \in 0..(Keep + 1) /\ n \in Nat
      BY <1>1
    <3>1. CASE n = k - 1
      <4>1. n \notin DOMAIN g
        <5>1. k # k - 1
          BY <1>1
        <5>. QED
          BY <1>3, <1>9, <3>1, <5>1
      <4>2. e[n + 1] = ends[k - 1] /\ e[n] = ends[k - 1]
        BY <1>1, <1>6, <3>0, <3>1
      <4>3. ends[k - 1] \in Nat
        BY <1>5
      <4>. QED
        BY <4>1, <4>2, <4>3
    <3>2. CASE n = k
      <4>1. k # Keep + 1
        BY <1>1, <3>2
      <4>2. n \in DOMAIN g /\ g[n] = f[k - 1]
        BY <1>3, <1>9, <3>2, <4>1
      <4>3. f[k - 1] = SubSeq(record, ends[k] + 1, ends[k - 1])
        BY <1>1, <1>2, <1>9
      <4>4. ends[k + 1] = ends[k] /\ ends[k] <= ends[k - 1]
        <5>1. ends[(k - 1) + 1] <= ends[k - 1]
          BY <1>1, <1>2
        <5>. QED
          BY <1>1, <1>2, <3>2, <5>1
      <4>5. e[n + 1] = ends[k] /\ e[n] = ends[k - 1]
        <5>1. k + 1 # k /\ k + 1 \in 0..(Keep + 1)
          BY <1>1, <3>0, <3>2
        <5>. QED
          BY <1>6, <3>2, <4>4, <5>1
      <4>. QED
        BY <4>2, <4>3, <4>4, <4>5
    <3>3. CASE n # k /\ n # k - 1
      <4>1. n + 1 # k
        BY <1>1, <3>0, <3>3
      <4>2. e[n + 1] = ends[n + 1] /\ e[n] = ends[n]
        BY <1>6, <3>0, <3>3, <4>1
      <4>3. n \in DOMAIN g <=> n \in DOMAIN f
        BY <1>3, <1>9, <3>3
      <4>4. n \in DOMAIN f => g[n] = f[n]
        BY <1>3, <1>9, <3>3
      <4>. QED
        BY <1>2, <4>2, <4>3, <4>4
    <3>. QED
      BY <3>1, <3>2, <3>3
  <2>2. CutAt(record, g, e) /\ e \in Marks
    BY <1>6, <1>7, <2>1 DEF CutAt, Marks
  <2>3. e[Keep + 1] = ends[Keep + 1] \/ (k = Keep + 1 /\ Keep \in DOMAIN f)
    <3>1. CASE k = Keep + 1
      BY <1>1, <1>9, <3>1
    <3>2. CASE k # Keep + 1
      BY <1>1, <1>6, <3>2
    <3>. QED
      BY <3>1, <3>2
  <2>. QED
    BY <2>2, <2>3 DEF g, e
<1>. QED
  BY <1>8, <1>9

\* Where the files are, from the first move of a rotation to the last.
LEMMA RotationBegins ==
    ASSUME NEW m \in 0..Keep, NEW D, Settled(D, m)
    PROVE  Halfway(D \cup {0}, m, Keep + 1) /\ Settled(D \cup {0}, m)
<1>1. Keep \in Nat /\ m \in Nat /\ m <= Keep
  BY Constants
<1>2. D \cup {0} = 0..m
  BY <1>1 DEF Settled
<1>3. 0..Less(m, (Keep + 1) - 1) = 0..m /\ ((Keep + 1) + 1)..Less(m + 1, Keep) = {}
  BY <1>1 DEF Less
<1>. QED
  BY <1>2, <1>3 DEF Halfway, Settled

\* One move of a rotation, and what is left of it.
LEMMA RotationGoesOn ==
    ASSUME NEW m \in 0..Keep, NEW f \in Files, NEW k \in 1..(Keep + 1), Halfway(DOMAIN f, m, k)
    PROVE  LET D == DOMAIN Moved(f, MoveTo(k))
           IN  /\ k # 1 => Halfway(D, m, k - 1)
               /\ k = 1 => Settled(D, Less(m + 1, Keep))
               /\ Keep \in DOMAIN f /\ k = Keep + 1 => m = Keep
<1>1. Keep \in Nat /\ m \in Nat /\ m <= Keep /\ k \in Nat /\ k >= 1 /\ k <= Keep + 1
  BY Constants
<1>. DEFINE F == DOMAIN f
            D == DOMAIN Moved(f, MoveTo(k))
<1>2. /\ k - 1 \notin F => D = F
      /\ k - 1 \in F /\ k = Keep + 1 => D = F \ {k - 1}
      /\ k - 1 \in F /\ k # Keep + 1 => D = (F \ {k - 1}) \cup {k}
  BY MoveToFacts
<1>. HIDE DEF F, D
<1>3. F = (0..Less(m, k - 1)) \cup ((k + 1)..Less(m + 1, Keep))
  BY DEF Halfway, F
<1>4. \A x : x \in F <=> \/ x \in Nat /\ x <= m /\ x <= k - 1
                         \/ x \in Nat /\ k + 1 <= x /\ x <= m + 1 /\ x <= Keep
  BY <1>1, <1>3 DEF Less
<1>5. \A x : x \in D <=> \/ x \in Nat /\ x <= m /\ x <= k - 2
                         \/ x \in Nat /\ k <= x /\ x <= m + 1 /\ x <= Keep
  BY <1>1, <1>2, <1>4
<1>6. D = (0..Less(m, k - 2)) \cup (k..Less(m + 1, Keep))
  BY <1>1, <1>5 DEF Less
<1>7. k # 1 => Halfway(D, m, k - 1)
  <2>1. (k - 1) - 1 = k - 2 /\ (k - 1) + 1 = k
    BY <1>1
  <2>. QED
    BY <1>6, <2>1 DEF Halfway
<1>8. k = 1 => D = 1..Less(m + 1, Keep)
  <2>1. k = 1 => 0..Less(m, k - 2) = {}
    BY <1>1 DEF Less
  <2>. QED
    BY <1>6, <2>1
<1>9. Keep \in F /\ k = Keep + 1 => m = Keep
  BY <1>1, <1>4
<1>. QED
  BY <1>7, <1>8, <1>9 DEF F, D, Settled

\* While one log writer has something to write, only its own rotation goes on.
LEMMA RotatingAlone ==
    ASSUME Types, Linked, NEW w \in Writers, writer[w].lines # <<>>, Others(w),
           NEW v \in Writers, v # w, NEW x
    PROVE  ~Rotating(v, x) /\ ~Rotating(v, x)'
<1>1. writer[v].moves = <<>> /\ writer'[v] = writer[v]
  BY BusyAlone DEF Others
<1>. QED
  BY <1>1 DEF Rotating

\* A record is appended to the live file, or a rotation begins.
LEMMA StoredWriteLine ==
    ASSUME IInv, [Next]_vars, NEW w \in Writers, WriteLine(w), NEW x \in Units
    PROVE  Stored(x)'
<1>1. /\ Types /\ Linked /\ Stored(x) /\ Reads(w) /\ Sunk(w)
  BY DEF IInv
<1>. DEFINE u == writer[w].lines[1].unit
            line == writer[w].lines[1].line
            o == Opened(disk[u])
<1>2. /\ Others(w) /\ writer[w].lines # <<>> /\ writer[w].moves = <<>>
      /\ u \in Units /\ line \in Line
      /\ \A y \in Units \ {u} : disk'[y] = disk[y]
      /\ \/ /\ writer'[w].moves = Plan /\ writer'[w].lines = writer[w].lines
            /\ disk'[u] = o /\ recorded' = recorded
         \/ /\ writer'[w].moves = writer[w].moves
            /\ disk'[u] = [o EXCEPT ![0] = Append(@, line)]
            /\ recorded'[u] = Append(recorded[u], line)
            /\ \A y \in Units \ {u} : recorded'[y] = recorded[y]
  BY Zenon, <1>1, WriteLineEffect
<1>3. \A v \in Writers : \A y : v # w => ~Rotating(v, y) /\ ~Rotating(v, y)'
  BY Zenon, <1>1, <1>2, RotatingAlone
<1>4. \A y : ~Rotating(w, y)
  BY Zenon, <1>2 DEF Rotating
<1>5. PICK ends \in Marks :
         /\ CutAt(recorded[x], disk[x], ends)
         /\ crashes = 0 => \E m \in 0..Keep : (ends[Keep + 1] = 0 \/ m = Keep) /\ There(x, m)
  BY <1>1 DEF Stored
<1>6. crashes' = crashes
  BY DEF WriteLine
<1>7. recorded[x] \in Seq(Line) /\ disk[x] \in Files
  BY <1>1 DEF Types, Line
<1>8. \A m : There(x, m) => Settled(DOMAIN disk[x], m)
  BY <1>3, <1>4 DEF There
<1>. HIDE DEF line, o
<1>9. CASE x # u
  <2>1. disk'[x] = disk[x] /\ recorded'[x] = recorded[x]
    BY Zenon, <1>2, <1>9
  <2>2. ~Rotating(w, x)'
    <3>1. \/ writer'[w].lines = writer[w].lines
          \/ writer'[w].moves = <<>>
      BY Zenon, <1>2
    <3>. QED
      BY <1>9, <3>1 DEF Rotating
  <2>3. \A v \in Writers : ~Rotating(v, x)'
    BY <1>3, <2>2
  <2>4. \A m : There(x, m) => There(x, m)'
    BY <1>8, <2>1, <2>3 DEF There
  <2>5. crashes' = 0 => \E m \in 0..Keep : (ends[Keep + 1] = 0 \/ m = Keep) /\ There(x, m)'
    BY <1>5, <1>6, <2>4
  <2>6. CutAt(recorded'[x], disk'[x], ends)
    BY <1>5, <2>1
  <2>. QED
    BY <2>5, <2>6 DEF Stored
<1>10. CASE x = u
  <2>1. CutAt(recorded[x], o, ends) /\ o \in Files /\ DOMAIN o = DOMAIN disk[x] \cup {0}
    <3>1. o = Opened(disk[x])
      BY <1>10 DEF o
    <3>. QED
      BY <1>5, <1>7, <3>1, CutOpened, OpenedFacts
  <2>2. ASSUME NEW m \in 0..Keep, There(x, m)
        PROVE  Settled(DOMAIN o, m) /\ Halfway(DOMAIN o, m, Keep + 1)
    BY <1>8, <2>1, <2>2, RotationBegins
  <2>3. CASE /\ writer'[w].moves = Plan /\ writer'[w].lines = writer[w].lines
             /\ disk'[u] = o /\ recorded' = recorded
    <3>1. Len(writer'[w].moves) = Keep + 1 /\ writer'[w].moves # <<>>
      BY <2>3, PlanFacts, Constants
    <3>2. Rotating(w, x)'
      BY <1>10, <2>3, <3>1 DEF Rotating
    <3>3. \A m \in 0..Keep : There(x, m) => There(x, m)'
      BY <1>2, <1>3, <1>10, <2>2, <2>3, <3>1, <3>2 DEF There
    <3>4. crashes' = 0 => \E m \in 0..Keep : (ends[Keep + 1] = 0 \/ m = Keep) /\ There(x, m)'
      BY <1>5, <1>6, <3>3
    <3>5. CutAt(recorded'[x], disk'[x], ends)
      BY <1>10, <2>1, <2>3
    <3>. QED
      BY <3>4, <3>5 DEF Stored
  <2>4. CASE /\ writer'[w].moves = writer[w].moves
             /\ disk'[u] = [o EXCEPT ![0] = Append(@, line)]
             /\ recorded'[u] = Append(recorded[u], line)
    <3>. DEFINE e == [ends EXCEPT ![0] = @ + 1]
    <3>1. /\ CutAt(Append(recorded[x], line), [o EXCEPT ![0] = Append(@, line)], e)
          /\ e \in Marks /\ e[Keep + 1] = ends[Keep + 1]
      <4>1. 0 \in DOMAIN o
        BY <2>1
      <4>. QED
        BY ZenonT(30), <1>2, <1>7, <2>1, <4>1, CutAppended
    <3>2. DOMAIN disk'[x] = DOMAIN o
      <4>1. 0 \in DOMAIN o
        BY <2>1
      <4>. QED
        BY Zenon, <1>2, <1>10, <2>1, <2>4, <4>1, AppendedFacts
    <3>3. \A v \in Writers : ~Rotating(v, x)'
      <4>1. ~Rotating(w, x)'
        BY <1>2, <2>4 DEF Rotating
      <4>. QED
        BY <1>3, <4>1
    <3>4. \A m \in 0..Keep : There(x, m) => There(x, m)'
      BY <2>2, <3>2, <3>3 DEF There
    <3>. HIDE DEF e
    <3>5. crashes' = 0 => \E m \in 0..Keep : (e[Keep + 1] = 0 \/ m = Keep) /\ There(x, m)'
      BY <1>5, <1>6, <3>1, <3>4
    <3>6. CutAt(recorded'[x], disk'[x], e)
      BY <1>10, <2>4, <3>1
    <3>. QED
      BY <3>1, <3>5, <3>6 DEF Stored
  <2>. QED
    BY Zenon, <1>2, <2>3, <2>4
<1>. QED
  BY <1>9, <1>10

\* Where a rotation is, from the number of its moves to go.
LEMMA RotationAt ==
    ASSUME Types, NEW w \in Writers, Rotates(w), writer[w].moves # <<>>,
           writer[w].lines[1].unit \in Units
    PROVE  \E k \in 1..(Keep + 1) :
              /\ Len(writer[w].moves) = k /\ writer[w].moves[1] = MoveTo(k)
              /\ Len(Tail(writer[w].moves)) = k - 1
              /\ Tail(writer[w].moves) = <<>> <=> k = 1
              /\ k \notin DOMAIN disk[writer[w].lines[1].unit]
<1>. DEFINE u == writer[w].lines[1].unit
            moves == writer[w].moves
<1>1. PICK j \in 1..(Keep + 1) :
         /\ moves = SubSeq(Plan, j, Keep + 1)
         /\ j >= 2 => Keep + 2 - j \notin DOMAIN disk[u]
  BY DEF Rotates
<1>2. Keep \in Nat /\ j \in Nat /\ Keep + 2 - j \in 1..(Keep + 1)
  BY Constants
<1>3. Plan \in Seq(Move) /\ Len(Plan) = Keep + 1
  BY PlanFacts
<1>. DEFINE P == Plan
            k == Keep + 2 - j
<1>4. moves \in Seq(Move) /\ Len(moves) = k /\ moves[1] = P[j]
  <2>1. P \in Seq(Move) /\ Len(P) = Keep + 1 /\ moves = SubSeq(P, j, Keep + 1)
    BY <1>1, <1>3
  <2>. HIDE DEF P, moves
  <2>2. /\ SubSeq(P, j, Keep + 1) \in Seq(Move)
        /\ Len(SubSeq(P, j, Keep + 1)) = Keep + 2 - j
        /\ \A i \in 1..(Keep + 2 - j) : SubSeq(P, j, Keep + 1)[i] = P[j + i - 1]
    <3>1. \A i \in j..(Keep + 1) : P[i] \in Move
      BY <1>2, <2>1
    <3>2. SubSeq(P, j, Keep + 1) = [i \in 1..(Keep + 2 - j) |-> P[j + i - 1]]
      BY <1>2, <2>1
    <3>3. \A i \in 1..(Keep + 2 - j) : j + i - 1 \in j..(Keep + 1)
      BY <1>2
    <3>. DEFINE n == Keep + 2 - j
                X == [i \in 1..n |-> P[j + i - 1]]
    <3>4. n \in Nat /\ \A i \in 1..n : X[i] \in Move
      BY <1>2, <3>1, <3>3
    <3>5. X \in Seq(Move) /\ Len(X) = n /\ \A i \in 1..n : X[i] = P[j + i - 1]
      <4>. HIDE DEF n
      <4>. QED
        BY <3>4
    <3>. QED
      BY Zenon, <3>2, <3>5
  <2>3. SubSeq(P, j, Keep + 1)[1] = P[j]
    BY <1>2, <2>2
  <2>. QED
    BY <2>1, <2>2, <2>3
<1>5. P[j] = MoveTo(k)
  <2>1. CASE j = 1
    <3>1. k = Keep + 1
      BY <1>2, <2>1
    <3>. QED
      BY <2>1, <3>1, PlanFacts DEF MoveTo
  <2>2. CASE j # 1
    <3>1. j \in 2..(Keep + 1) /\ k # Keep + 1 /\ k - 1 = Keep + 1 - j
      BY <1>2, <2>2
    <3>. QED
      BY <3>1, PlanFacts DEF MoveTo
  <2>. QED
    BY <2>1, <2>2
<1>6. k \notin DOMAIN disk[u]
  <2>1. DOMAIN disk[u] \subseteq 0..Keep
    <3>1. disk[u] \in Files
      BY DEF Types
    <3>. QED
      BY <3>1, FilesFacts
  <2>2. CASE j >= 2
    BY <1>1, <2>2
  <2>3. CASE j < 2
    <3>1. k = Keep + 1
      BY <1>2, <2>3
    <3>. QED
      BY <1>2, <2>1, <3>1
  <2>. QED
    BY <1>2, <2>2, <2>3
<1>7. Len(Tail(moves)) = k - 1 /\ (Tail(moves) = <<>> <=> k = 1)
  <2>. HIDE DEF moves, P
  <2>1. moves # <<>>
    BY DEF moves
  <2>2. Len(Tail(moves)) = k - 1 /\ Tail(moves) \in Seq(Move)
    BY <1>4, <2>1
  <2>3. Tail(moves) = <<>> <=> Len(Tail(moves)) = 0
    <3>1. \A s \in Seq(Move) : s = <<>> <=> Len(s) = 0
      OBVIOUS
    <3>. QED
      BY <2>2, <3>1
  <2>. QED
    BY <1>2, <2>2, <2>3
<1>. HIDE DEF moves, P, u
<1>8. k \in 1..(Keep + 1)
  BY <1>2
<1>. HIDE DEF k
<1>. QED
  BY <1>4, <1>5, <1>6, <1>7, <1>8 DEF moves, u

\* A move keeps the files pieces of the record, in its order.
LEMMA StoredRotate ==
    ASSUME IInv, [Next]_vars, NEW w \in Writers, Rotate(w), NEW x \in Units
    PROVE  Stored(x)'
<1>1. /\ Types /\ Linked /\ Stored(x) /\ Reads(w) /\ Rotates(w)
  BY DEF IInv
<1>. DEFINE u == writer[w].lines[1].unit
            move == writer[w].moves[1]
            rest == Tail(writer[w].moves)
<1>2. /\ Others(w) /\ writer[w].lines # <<>> /\ writer[w].moves # <<>>
      /\ u \in Units
      /\ writer'[w].lines = writer[w].lines /\ writer'[w].moves = rest
      /\ disk'[u] = Moved(disk[u], move)
      /\ \A y \in Units \ {u} : disk'[y] = disk[y]
  BY <1>1, RotateEffect
<1>3. \A v \in Writers : \A y : v # w => ~Rotating(v, y) /\ ~Rotating(v, y)'
  BY <1>1, <1>2, RotatingAlone
<1>4. recorded' = recorded /\ crashes' = crashes
  BY DEF Rotate
<1>5. PICK ends \in Marks :
         /\ CutAt(recorded[x], disk[x], ends)
         /\ crashes = 0 => \E m \in 0..Keep : (ends[Keep + 1] = 0 \/ m = Keep) /\ There(x, m)
  BY <1>1 DEF Stored
<1>6. recorded[x] \in Seq(Line) /\ disk[x] \in Files
  BY <1>1 DEF Types, Line
<1>7. CASE x # u
  <2>1. disk'[x] = disk[x] /\ recorded'[x] = recorded[x]
    BY <1>2, <1>4, <1>7
  <2>2. \A v \in Writers : ~Rotating(v, x)' /\ ~Rotating(v, x)
    <3>1. ~Rotating(w, x)' /\ ~Rotating(w, x)
      BY <1>2, <1>7 DEF Rotating
    <3>. QED
      BY <1>3, <3>1
  <2>3. \A m : There(x, m) => There(x, m)'
    BY <2>1, <2>2 DEF There
  <2>4. crashes' = 0 => \E m \in 0..Keep : (ends[Keep + 1] = 0 \/ m = Keep) /\ There(x, m)'
    BY <1>4, <1>5, <2>3
  <2>5. CutAt(recorded'[x], disk'[x], ends)
    BY <1>5, <2>1
  <2>. QED
    BY <2>4, <2>5 DEF Stored
<1>8. CASE x = u
  <2>1. PICK k \in 1..(Keep + 1) :
           /\ Len(writer[w].moves) = k /\ move = MoveTo(k)
           /\ Len(rest) = k - 1 /\ (rest = <<>> <=> k = 1)
           /\ k \notin DOMAIN disk[u]
    BY <1>1, <1>2, RotationAt
  <2>. DEFINE e == [ends EXCEPT ![k] = ends[k - 1]]
              g == Moved(disk[x], MoveTo(k))
  <2>2. disk'[x] = g
    BY <1>2, <1>8, <2>1
  <2>3. /\ CutAt(recorded[x], g, e) /\ e \in Marks
        /\ e[Keep + 1] = ends[Keep + 1] \/ (k = Keep + 1 /\ Keep \in DOMAIN disk[x])
    <3>. DEFINE r == recorded[x]
                f == disk[x]
    <3>1. /\ r \in Seq(Line) /\ f \in Files /\ ends \in Marks /\ CutAt(r, f, ends)
          /\ k \in 1..(Keep + 1) /\ k \notin DOMAIN f
      BY <1>5, <1>6, <1>8, <2>1
    <3>. HIDE DEF r, f
    <3>2. /\ CutAt(r, Moved(f, MoveTo(k)), e) /\ e \in Marks
          /\ e[Keep + 1] = ends[Keep + 1] \/ (k = Keep + 1 /\ Keep \in DOMAIN f)
      BY <3>1, CutMoved
    <3>. HIDE DEF e
    <3>. QED
      BY <3>2 DEF r, f
  <2>4. Rotating(w, x)
    BY <1>2, <1>8 DEF Rotating
  <2>5. ASSUME NEW m \in 0..Keep, There(x, m)
        PROVE  /\ k # 1 => Halfway(DOMAIN g, m, k - 1)
               /\ k = 1 => Settled(DOMAIN g, Less(m + 1, Keep))
               /\ Keep \in DOMAIN disk[x] /\ k = Keep + 1 => m = Keep
    <3>1. Halfway(DOMAIN disk[x], m, k)
      BY <2>1, <2>4, <2>5 DEF There
    <3>. QED
      BY <1>6, <2>5, <3>1, RotationGoesOn
  <2>. HIDE DEF e, g
  <2>6. k # 1 => \A m \in 0..Keep : There(x, m) => There(x, m)'
    <3>. SUFFICES ASSUME k # 1, NEW m \in 0..Keep, There(x, m) PROVE There(x, m)'
      OBVIOUS
    <3>1. rest # <<>>
      BY <2>1
    <3>2. Rotating(w, x)' /\ Len(writer'[w].moves) = k - 1
      BY <1>2, <1>8, <2>1, <3>1 DEF Rotating
    <3>3. Halfway(DOMAIN disk'[x], m, k - 1)
      BY <2>2, <2>5
    <3>. QED
      BY <1>3, <3>2, <3>3 DEF There
  <2>7. k = 1 => \A m \in 0..Keep : There(x, m) => There(x, Less(m + 1, Keep))'
    <3>. SUFFICES ASSUME k = 1, NEW m \in 0..Keep, There(x, m)
                  PROVE  There(x, Less(m + 1, Keep))'
      OBVIOUS
    <3>1. rest = <<>>
      BY <2>1
    <3>2. \A v \in Writers : ~Rotating(v, x)'
      <4>1. ~Rotating(w, x)'
        BY <1>2, <3>1 DEF Rotating
      <4>. QED
        BY <1>3, <4>1
    <3>3. Settled(DOMAIN disk'[x], Less(m + 1, Keep))
      BY <2>2, <2>5
    <3>4. Less(m + 1, Keep)' = Less(m + 1, Keep)
      BY DEF Less
    <3>. QED
      BY <3>2, <3>3, <3>4 DEF There
  <2>8. crashes' = 0 => \E m \in 0..Keep : (e[Keep + 1] = 0 \/ m = Keep) /\ There(x, m)'
    <3>. SUFFICES ASSUME crashes = 0
                  PROVE  \E m \in 0..Keep : (e[Keep + 1] = 0 \/ m = Keep) /\ There(x, m)'
      BY <1>4
    <3>1. PICK m \in 0..Keep : (ends[Keep + 1] = 0 \/ m = Keep) /\ There(x, m)
      BY <1>5
    <3>2. e[Keep + 1] = 0 \/ m = Keep
      BY <2>3, <2>5, <3>1
    <3>3. CASE k # 1
      BY <2>6, <3>1, <3>2, <3>3
    <3>4. CASE k = 1
      <4>1. Keep \in Nat
        BY Constants
      <4>2. Less(m + 1, Keep) \in 0..Keep /\ (m = Keep => Less(m + 1, Keep) = Keep)
        BY <3>1, <4>1 DEF Less
      <4>. QED
        BY <2>7, <3>1, <3>2, <3>4, <4>2
    <3>. QED
      BY <3>3, <3>4
  <2>9. CutAt(recorded'[x], disk'[x], e)
    BY <1>4, <2>2, <2>3
  <2>. QED
    BY <2>3, <2>8, <2>9 DEF Stored
<1>. QED
  BY <1>7, <1>8

\* Every step keeps the files pieces of the record.
LEMMA StoredStep ==
    ASSUME IInv, [Next]_vars
    PROVE  \A u \in Units : Stored(u)'
<1>. SUFFICES ASSUME NEW x \in Units PROVE Stored(x)'
  OBVIOUS
<1>1. Types /\ Stored(x)
  BY DEF IInv
<1>2. CASE /\ disk' = disk /\ recorded' = recorded
           /\ crashes' = crashes \/ crashes' = crashes + 1
           /\ \A v \in Writers : Undisturbed(v)
  <2>1. PICK ends \in Marks :
           /\ CutAt(recorded[x], disk[x], ends)
           /\ crashes = 0 => \E m \in 0..Keep : (ends[Keep + 1] = 0 \/ m = Keep) /\ There(x, m)
    BY <1>1 DEF Stored
  <2>2. CutAt(recorded'[x], disk'[x], ends)
    BY <1>2, <2>1
  <2>3. CASE crashes' = crashes
    <3>1. \A v \in Writers : /\ Rotating(v, x)' <=> Rotating(v, x)
                             /\ Rotating(v, x) => writer'[v].moves = writer[v].moves
      BY <1>2, <2>3 DEF Undisturbed, Rotating
    <3>2. \A m : There(x, m) => There(x, m)'
      BY <1>2, <3>1 DEF There
    <3>3. crashes' = 0 => \E m \in 0..Keep : (ends[Keep + 1] = 0 \/ m = Keep) /\ There(x, m)'
      BY <2>1, <2>3, <3>2
    <3>. QED
      BY <2>2, <3>3 DEF Stored
  <2>4. CASE crashes' = crashes + 1
    <3>1. crashes \in Nat
      BY <1>1 DEF Types
    <3>2. crashes' # 0
      BY <2>4, <3>1
    <3>. QED
      BY <2>2, <3>2 DEF Stored
  <2>. QED
    BY <1>2, <2>3, <2>4
<1>3. ASSUME NEW w \in Writers, WriteLine(w) \/ Rotate(w) PROVE Stored(x)'
  BY <1>3, StoredWriteLine, StoredRotate
<1>. QED
  BY <1>2, <1>3, FilesCases

-------------------------------------------------------------------------------
(* The beginning                                                             *)

\* The record of an earlier boot.
LEMMA EarlierFacts ==
    /\ Earlier \in Line /\ Len(Earlier) = 1
    /\ \A k \in DOMAIN Earlier : Earlier[k].n = 0 /\ Earlier[k].gen = 0
<1>1. [n |-> 0, gen |-> 0, nl |-> TRUE] \in Piece
  BY DEF Piece
<1>. QED
  BY <1>1 DEF Earlier, Line

\* How many files an earlier boot left.
LEMMA FoundFacts == Found \in Nat /\ Keep \in Nat /\ Found <= Keep + 1
  BY Constants, LogShippingAssumption

\* The types hold at first.
LEMMA InitTypes ==
    ASSUME Init
    PROVE  Types
<1>1. pipes \in [Units -> Seq(PipeEnd)] /\ held \in [Units -> Nat] /\ sent \in [Units -> Nat]
  BY DEF Init
<1>2. conns \in [Conns -> Connection]
  <2>1. Free \in Connection
    BY DEF Free, Connection
  <2>. QED
    BY <2>1 DEF Init
<1>3. backlog \in Seq(Conns) /\ shipper \in Conns \cup {None}
  BY DEF Init
<1>4. writer \in [Writers -> Process]
  BY DownIsIdle DEF Init
<1>5. disk \in [Units -> Files]
  <2>1. [n \in 0..(Found - 1) |-> <<Earlier>>] \in Files
    <3>. DEFINE f == [n \in 0..(Found - 1) |-> <<Earlier>>]
    <3>1. DOMAIN f \subseteq 0..Keep /\ \A n \in DOMAIN f : f[n] \in Seq(Line)
      BY FoundFacts, EarlierFacts
    <3>2. f = [n \in DOMAIN f |-> f[n]]
      OBVIOUS
    <3>. HIDE DEF f
    <3>3. f \in Files
      BY <3>1, <3>2, FilesFacts
    <3>. QED
      BY <3>3 DEF f
  <2>. QED
    BY <2>1 DEF Init
<1>6. recorded \in [Units -> Seq(Seq(Piece))]
  <2>1. [i \in 1..Found |-> Earlier] \in Seq(Seq(Piece))
    <3>1. Earlier \in Seq(Piece)
      BY EarlierFacts DEF Line
    <3>. QED
      BY <3>1, FoundFacts
  <2>. QED
    BY <2>1 DEF Init
<1>7. crashes \in Nat /\ odd \in {"none", "second writer", "registration", "record"}
  BY DEF Init
<1>. QED
  BY <1>1, <1>2, <1>3, <1>4, <1>5, <1>6, <1>7 DEF Types

\* There is no pipe, no connection and no count at first.
LEMMA InitPipes ==
    ASSUME Init
    PROVE  Linked /\ Offers /\ Brief /\ Capped /\ CopyKept /\ Piped /\ Counted
<1>1. \A w \in Writers : writer[w] = Down /\ ~Up(w)
  BY DownIsIdle DEF Init, Up
<1>2. \A w \in Writers : Idle(w)
  BY <1>1, DownIsIdle DEF Idle, Queue
<1>3. Linked
  BY <1>1, <1>2 DEF Linked, Init
<1>4. \A u \in Units : pipes[u] = <<>> /\ Len(pipes[u]) = 0 /\ DOMAIN pipes[u] = {} /\ held[u] = 0
  BY DEF Init
<1>5. \A c \in Conns : conns[c].queue = <<>> /\ DOMAIN conns[c].queue = {} /\ Len(conns[c].queue) = 0
  BY DEF Init, Free
<1>6. Offers
  BY <1>4, <1>5, Constants DEF Offers
<1>7. Brief /\ Capped /\ CopyKept /\ Piped /\ Counted
  BY <1>4 DEF Brief, Capped, CopyKept, Piped, Counted
<1>. QED
  BY <1>3, <1>6, <1>7

\* No log writer runs at first.
LEMMA InitWriters ==
    ASSUME Init, NEW w \in Writers
    PROVE  Reads(w) /\ Turns(w) /\ Rotates(w) /\ Sunk(w)
<1>1. /\ writer[w] = Down /\ writer[w].pc = "down" /\ writer[w].sources = <<>>
      /\ writer[w].lines = <<>> /\ writer[w].moves = <<>>
      /\ DOMAIN writer[w].sinks = {} /\ writer[w].ready = {} /\ writer[w].closed = {}
  BY DownIsIdle DEF Init
<1>2. Reads(w)
  BY <1>1 DEF Reads
<1>3. Turns(w)
  BY <1>1 DEF Turns
<1>. QED
  BY <1>1, <1>2, <1>3 DEF Rotates, Sunk

\* What an earlier boot left is in order.
LEMMA InitOutput ==
    ASSUME Init, NEW u \in Units
    PROVE  /\ Filed(u)
           /\ \A w \in Writers : Places(u, w)
           /\ \A p \in Pieces(recorded[u]) : p.n = 0 /\ p.gen = 0
<1>1. recorded[u] = [i \in 1..Found |-> Earlier]
  BY DEF Init
<1>2. \A i \in DOMAIN recorded[u] : recorded[u][i] = Earlier
  BY <1>1
<1>3. \A p \in Pieces(recorded[u]) : p.n = 0 /\ p.gen = 0
  <2>1. \A p \in Range(Earlier) : p.n = 0 /\ p.gen = 0
    BY EarlierFacts DEF Range
  <2>. QED
    BY <1>2, <2>1 DEF Pieces
<1>4. pipes[u] = <<>> /\ DOMAIN pipes[u] = {} /\ Len(pipes[u]) = 0 /\ sent[u] = 0
  BY DEF Init
<1>5. Filed(u)
  <2>1. Ordered(Calm(u), recorded[u])
    <3>. SUFFICES ASSUME NEW i \in DOMAIN recorded[u], NEW j \in DOMAIN recorded[u],
                         NEW k \in DOMAIN recorded[u][i], NEW l \in DOMAIN recorded[u][j]
                  PROVE  Follows(Calm(u), recorded[u][i][k], recorded[u][j][l])
      BY DEF Ordered
    <3>1. recorded[u][i][k].gen = 0 /\ recorded[u][j][l].gen = 0
      BY <1>2, EarlierFacts
    <3>. QED
      BY <3>1 DEF Follows
  <2>2. Known(u, Pieces(recorded[u]))
    BY <1>3, <1>4 DEF Known
  <2>. QED
    BY <1>4, <2>1, <2>2 DEF Filed
<1>6. ASSUME NEW w \in Writers PROVE Places(u, w)
  <2>1. /\ writer[w] = Down /\ writer[w].sources = <<>> /\ writer[w].lines = <<>>
        /\ Queue(w) = <<>>
    BY DownIsIdle DEF Init, Queue, Up
  <2>2. Pending(u, w) = <<>> /\ Pieces(<<>>) = {}
    BY <2>1 DEF Pending, PendingOf, Pieces
  <2>3. Taken(u, w)
    BY <1>4, <2>2 DEF Taken, Ordered, Follow, Known, Below
  <2>. QED
    BY <2>1, <2>3 DEF Places, Due
<1>. QED
  BY <1>3, <1>5, <1>6

\* The files an earlier boot left are pieces of the record.
LEMMA InitFiles ==
    ASSUME Init
    PROVE  Sized /\ \A u \in Units : Stored(u)
<1>1. \A u \in Units : disk[u] = [n \in 0..(Found - 1) |-> <<Earlier>>]
  BY DEF Init
<1>2. Sized
  <2>1. Len(<<Earlier>>) <= 1
    OBVIOUS
  <2>. QED
    BY <1>1, <2>1 DEF Sized
<1>3. ASSUME NEW u \in Units PROVE Stored(u)
  <2>. DEFINE D == 0..(Found - 1)
              ends == [n \in 0..(Keep + 1) |-> IF n <= Found THEN Found - n ELSE 0]
              r == [i \in 1..Found |-> Earlier]
  <2>1. Found \in Nat /\ Keep \in Nat /\ Found <= Keep + 1
    BY FoundFacts
  <2>2. recorded[u] = r /\ disk[u] = [n \in D |-> <<Earlier>>]
    BY <1>1 DEF Init
  <2>3. r \in Seq(Line) /\ Len(r) = Found /\ \A i \in 1..Found : r[i] = Earlier
    BY <2>1, EarlierFacts
  <2>4. ends \in Marks
    BY <2>1 DEF Marks
  <2>5. \A n \in 0..Keep : n \in D => n + 1 <= Found /\ ends[n] = Found - n /\ ends[n + 1] = Found - (n + 1)
    BY <2>1
  <2>6. \A n \in 0..Keep : n \notin D => ends[n] = 0 /\ ends[n + 1] = 0
    BY <2>1
  <2>7. ends[0] = Len(r) /\ (Found <= Keep + 1 => ends[Keep + 1] = 0)
    BY <2>1, <2>3
  <2>. HIDE DEF ends, r
  <2>8. \A n \in D : SubSeq(r, Found - (n + 1) + 1, Found - n) = <<Earlier>>
    <3>. SUFFICES ASSUME NEW n \in D PROVE SubSeq(r, Found - (n + 1) + 1, Found - n) = <<Earlier>>
      OBVIOUS
    <3>. DEFINE i == Found - n
    <3>1. i \in 1..Found /\ Found - (n + 1) + 1 = i
      BY <2>1
    <3>. HIDE DEF i
    <3>2. SubSeq(r, i, i) = <<r[i]>>
      <4>1. i \in Nat /\ i \in 1..(Len(r) + 1) /\ i \in (i - 1)..Len(r) /\ i - i + 1 = 1
        BY <2>1, <2>3, <3>1
      <4>2. /\ SubSeq(r, i, i) \in Seq(Line)
            /\ Len(SubSeq(r, i, i)) = IF i <= i THEN i - i + 1 ELSE 0
            /\ \A k \in 1..(i - i + 1) : SubSeq(r, i, i)[k] = r[i + k - 1]
        BY <2>3, <4>1, SubSeqProperties
      <4>3. Len(SubSeq(r, i, i)) = 1
        BY <4>1, <4>2
      <4>4. SubSeq(r, i, i)[1] = r[i]
        <5>1. 1 \in 1..(i - i + 1) /\ i + 1 - 1 = i
          BY <4>1
        <5>. QED
          BY <4>2, <5>1
      <4>. DEFINE t == SubSeq(r, i, i)
      <4>5. t \in Seq(Line) /\ Len(t) = 1 /\ t[1] = r[i]
        BY <4>2, <4>3, <4>4
      <4>. HIDE DEF t
      <4>6. t = <<r[i]>>
        BY <4>5
      <4>. QED
        BY <4>6 DEF t
    <3>. QED
      BY <2>3, <3>1, <3>2 DEF i
  <2>9. CutAt(recorded[u], disk[u], ends)
    <3>1. ASSUME NEW n \in 0..Keep
          PROVE  /\ ends[n + 1] <= ends[n]
                 /\ n \in DOMAIN disk[u] => disk[u][n] = SubSeq(r, ends[n + 1] + 1, ends[n])
                 /\ n \notin DOMAIN disk[u] => ends[n + 1] = ends[n]
      <4>1. CASE n \in D
        <5>1. n + 1 <= Found /\ ends[n] = Found - n /\ ends[n + 1] = Found - (n + 1)
          BY <2>5, <4>1
        <5>2. n \in Nat /\ ends[n + 1] <= ends[n]
          BY <2>1, <5>1
        <5>3. disk[u][n] = <<Earlier>>
          BY <2>2, <4>1
        <5>4. disk[u][n] = SubSeq(r, ends[n + 1] + 1, ends[n])
          BY <2>8, <4>1, <5>1, <5>3
        <5>. QED
          BY <2>2, <4>1, <5>2, <5>4
      <4>2. CASE n \notin D
        BY <2>2, <2>6, <4>2
      <4>. QED
        BY <4>1, <4>2
    <3>. QED
      BY <2>2, <2>7, <3>1 DEF CutAt
  <2>10. \E m \in 0..Keep : (ends[Keep + 1] = 0 \/ m = Keep) /\ There(u, m)
    <3>. DEFINE m == IF Found = 0 THEN 0 ELSE Found - 1
    <3>1. m \in 0..Keep /\ (D = 0..m \/ D = 1..m)
      BY <2>1
    <3>2. \A w \in Writers : ~Rotating(w, u)
      BY DownIsIdle DEF Init, Rotating
    <3>3. DOMAIN disk[u] = D
      BY <2>2
    <3>. HIDE DEF m, D
    <3>4. There(u, m)
      BY <3>1, <3>2, <3>3 DEF There, Settled
    <3>. QED
      BY <2>1, <2>7, <3>1, <3>4
  <2>. QED
    BY <2>4, <2>9, <2>10 DEF Stored
<1>. QED
  BY <1>2, <1>3

\* The invariant holds at first.
LEMMA InitIInv ==
    ASSUME Init
    PROVE  IInv
  BY InitTypes, InitPipes, InitWriters, InitOutput, InitFiles DEF IInv

\* Every step keeps the invariant.
LEMMA NextIInv ==
    ASSUME IInv, [Next]_vars
    PROVE  IInv'
<1>1. Types'
  BY TypesStep
<1>2. Linked' /\ Offers'
  BY <1>1, LinkedStep, OffersStep
<1>3. Brief' /\ Piped' /\ Capped' /\ CopyKept'
  BY <1>1, PipesStep, CappedStep, CopyStep
<1>4. Counted' /\ Sized'
  BY <1>1, CountedStep, SizedStep
<1>5. \A w \in Writers : Reads(w)' /\ Turns(w)' /\ Rotates(w)' /\ Sunk(w)'
  BY <1>1, ReadsStep, TurnsStep, RotatesStep, SunkStep
<1>6. \A u \in Units : Filed(u)' /\ Stored(u)'
  BY <1>1, <1>2, FiledStep, StoredStep
<1>7. \A u \in Units, w \in Writers : Places(u, w)'
  BY <1>1, <1>2, PlacesStep
<1>. QED
  BY <1>1, <1>2, <1>3, <1>4, <1>5, <1>6, <1>7 DEF IInv

\* So it always holds.
LEMMA Inductive == Spec => []IInv
<1>1. Init => IInv
  BY InitIInv
<1>2. IInv /\ [Next]_vars => IInv'
  BY NextIInv
<1>. QED
  BY <1>1, <1>2, PTL DEF Spec

-------------------------------------------------------------------------------
(* What follows from the invariant                                           *)

\* The types and sizes of the state are part of the invariant.
LEMMA TypesOK ==
    ASSUME IInv
    PROVE  LogTypeOK
<1>1. \A u \in Units : held[u] = Len(pipes[u]) /\ held[u] <= MaxGens
  BY DEF IInv, Offers
<1>2. \A u \in Units : DOMAIN disk[u] \subseteq 0..Keep
  BY FilesFacts DEF IInv, Types
<1>3. shipper # None => conns[shipper].server
  BY DEF IInv, Linked
<1>4. \A c \in Conns : Len(conns[c].queue) <= QueueMax
  BY DEF IInv, Offers
<1>5. ASSUME NEW w \in Writers
      PROVE  /\ writer[w].pc \in {"down", "poll", "drain", "leave"}
             /\ writer[w].pc # "down" => conns[writer[w].conn].client
             /\ \A n \in DOMAIN writer[w].sources : Len(writer[w].sources[n].partial) < MaxLine
             /\ writer[w].moves = <<>> =>
                 \A u \in DOMAIN writer[w].sinks : writer[w].sinks[u] = FileSize(disk[u][0])
  <2>1. writer[w] \in Process
    BY DEF IInv, Types
  <2>2. writer[w].pc \in {"down", "poll", "drain", "leave"}
    BY <2>1 DEF Process
  <2>3. writer[w].pc # "down" => conns[writer[w].conn].client
    BY DEF IInv, Linked, Up
  <2>4. \A n \in DOMAIN writer[w].sources : Len(writer[w].sources[n].partial) < MaxLine
    BY DEF IInv, Reads
  <2>5. writer[w].moves = <<>> =>
            \A u \in DOMAIN writer[w].sinks : writer[w].sinks[u] = FileSize(disk[u][0])
    BY DEF IInv, Sunk, Rotating
  <2>. QED
    BY <2>2, <2>3, <2>4, <2>5
<1>. QED
  BY <1>1, <1>2, <1>3, <1>4, <1>5 DEF LogTypeOK

(* At every moment PID 1 keeps the read end of the latest start of every     *)
(* unit (Logs.held), no queue overflows, no partial line outgrows MaxLine,   *)
(* and between rotations the size a log writer remembers of a file           *)
(* (Sink.size) is the size of the file, whatever crashed before.             *)
THEOREM LogTypes == Spec => []LogTypeOK
  BY Inductive, TypesOK, PTL

\* Starts are in order in the files, as they are wherever output is.
LEMMA OrderedOK ==
    ASSUME IInv
    PROVE  StartsInOrder
<1>. SUFFICES ASSUME NEW u \in Units \ overlapped,
                     NEW i \in DOMAIN recorded[u], NEW j \in DOMAIN recorded[u],
                     NEW k \in DOMAIN recorded[u][i], NEW l \in DOMAIN recorded[u][j],
                     Precedes(i, k, j, l)
              PROVE  recorded[u][i][k].gen <= recorded[u][j][l].gen
  BY DEF StartsInOrder
<1>1. Ordered(Calm(u), recorded[u]) /\ Calm(u)
  BY DEF IInv, Filed, Calm
<1>2. Follows(Calm(u), recorded[u][i][k], recorded[u][j][l])
  BY <1>1 DEF Ordered
<1>. QED
  BY <1>1, <1>2 DEF Follows

(* The comment in serve holds for any number of units, log writers and       *)
(* starts: sources are drained before the socket is read, so in the files    *)
(* the last output of one start is ahead of the next start's, as long as all *)
(* who wrote it were gone when the unit was started again and one read was   *)
(* enough for what was left in the pipe.                                     *)
THEOREM OutputInOrder == Spec => []StartsInOrder
  BY Inductive, OrderedOK, PTL

(* The comment in Logs::pipe, that the shipper has its own copy of a read    *)
(* end that is replaced, holds for any number of units, log writers and      *)
(* connections whenever a log writer is connected and the last offer of the  *)
(* unit found room in its queue: then no replacement destroys any output.    *)
THEOREM CopiesKept == Spec => []CopyKept
<1>1. IInv => CopyKept
  BY DEF IInv
<1>. QED
  BY <1>1, Inductive, PTL

\* Two neighbouring pieces of a record are one.
LEMMA Joined ==
    ASSUME NEW T, NEW r \in Seq(T), NEW a \in Nat, NEW b \in Nat, NEW c \in Nat,
           a <= b, b <= c, c <= Len(r)
    PROVE  SubSeq(r, a + 1, b) \o SubSeq(r, b + 1, c) = SubSeq(r, a + 1, c)
<1>. DEFINE x == SubSeq(r, a + 1, b)
            y == SubSeq(r, b + 1, c)
            z == SubSeq(r, a + 1, c)
<1>1. \A i \in 1..Len(r) : r[i] \in T
  OBVIOUS
<1>2. a + 1 \in Int /\ b + 1 \in Int /\ b \in Int /\ c \in Int /\ Len(r) \in Nat
  OBVIOUS
<1>3. /\ x \in Seq(T) /\ Len(x) = b - a
      /\ \A i \in 1..(b - a) : x[i] = r[a + i]
  <2>1. \A i \in (a + 1)..b : r[i] \in T
    BY <1>1, <1>2
  <2>2. /\ x \in Seq(T) /\ Len(x) = IF a + 1 <= b THEN b - (a + 1) + 1 ELSE 0
        /\ \A i \in 1..(b - (a + 1) + 1) : x[i] = r[a + 1 + i - 1]
    BY <1>2, <2>1, SubSeqProperties
  <2>3. \A i \in Int : a + 1 + i - 1 = a + i
    OBVIOUS
  <2>4. b - (a + 1) + 1 = b - a
    OBVIOUS
  <2>. QED
    BY <2>2, <2>3, <2>4
<1>4. /\ y \in Seq(T) /\ Len(y) = c - b
      /\ \A i \in 1..(c - b) : y[i] = r[b + i]
  <2>1. \A i \in (b + 1)..c : r[i] \in T
    BY <1>1, <1>2
  <2>2. /\ y \in Seq(T) /\ Len(y) = IF b + 1 <= c THEN c - (b + 1) + 1 ELSE 0
        /\ \A i \in 1..(c - (b + 1) + 1) : y[i] = r[b + 1 + i - 1]
    BY <1>2, <2>1, SubSeqProperties
  <2>3. \A i \in Int : b + 1 + i - 1 = b + i
    OBVIOUS
  <2>4. c - (b + 1) + 1 = c - b
    OBVIOUS
  <2>. QED
    BY <2>2, <2>3, <2>4
<1>5. /\ z \in Seq(T) /\ Len(z) = c - a
      /\ \A i \in 1..(c - a) : z[i] = r[a + i]
  <2>1. \A i \in (a + 1)..c : r[i] \in T
    BY <1>1, <1>2
  <2>2. /\ z \in Seq(T) /\ Len(z) = IF a + 1 <= c THEN c - (a + 1) + 1 ELSE 0
        /\ \A i \in 1..(c - (a + 1) + 1) : z[i] = r[a + 1 + i - 1]
    BY <1>2, <2>1, SubSeqProperties
  <2>3. \A i \in Int : a + 1 + i - 1 = a + i
    OBVIOUS
  <2>4. c - (a + 1) + 1 = c - a
    OBVIOUS
  <2>. QED
    BY <2>2, <2>3, <2>4
<1>. HIDE DEF x, y, z
<1>6. /\ x \o y \in Seq(T) /\ Len(x \o y) = Len(x) + Len(y)
      /\ \A i \in 1..(Len(x) + Len(y)) : (x \o y)[i] = IF i <= Len(x) THEN x[i] ELSE y[i - Len(x)]
  BY <1>3, <1>4, ConcatProperties
<1>7. Len(x \o y) = Len(z)
  BY <1>3, <1>4, <1>5, <1>6
<1>8. ASSUME NEW i \in 1..Len(x \o y) PROVE (x \o y)[i] = z[i]
  <2>1. i \in 1..(c - a) /\ i \in Int
    BY <1>5, <1>7
  <2>2. CASE i <= b - a
    BY <1>3, <1>5, <1>6, <1>8, <2>1, <2>2
  <2>3. CASE ~(i <= b - a)
    <3>1. i - (b - a) \in 1..(c - b) /\ b + (i - (b - a)) = a + i
      BY <2>1, <2>3
    <3>2. (x \o y)[i] = y[i - (b - a)]
      BY <1>3, <1>4, <1>6, <1>8, <2>3
    <3>. QED
      BY <1>4, <1>5, <2>1, <3>1, <3>2
  <2>. QED
    BY <2>2, <2>3
<1>. QED
  BY <1>5, <1>6, <1>7, <1>8, SeqEqual DEF x, y, z

\* The last part of a record is a suffix of it, as the library defines that.
LEMMA SuffixOf ==
    ASSUME NEW T, NEW r \in Seq(T), NEW a \in 0..Len(r)
    PROVE  /\ IsSuffix(SubSeq(r, a + 1, Len(r)), r)
           /\ a = 0 => SubSeq(r, a + 1, Len(r)) = r
<1>. DEFINE s == SubSeq(r, a + 1, Len(r))
            L == Len(r)
            m == L - a
            x == Reverse(s)
            y == Reverse(r)
<1>1. L \in Nat /\ a \in Nat /\ a <= L /\ m \in Nat /\ m <= L
  OBVIOUS
<1>2. /\ s \in Seq(T) /\ Len(s) = m
      /\ \A i \in 1..m : s[i] = r[a + i]
  <2>1. \A i \in (a + 1)..L : r[i] \in T
    OBVIOUS
  <2>2. /\ s \in Seq(T) /\ Len(s) = IF a + 1 <= L THEN L - (a + 1) + 1 ELSE 0
        /\ \A i \in 1..(L - (a + 1) + 1) : s[i] = r[a + 1 + i - 1]
    <3>1. a + 1 \in Int /\ L \in Int
      BY <1>1
    <3>. QED
      BY <2>1, <3>1, SubSeqProperties
  <2>3. \A i \in Int : a + 1 + i - 1 = a + i
    BY <1>1
  <2>4. L - (a + 1) + 1 = m /\ (IF a + 1 <= L THEN L - (a + 1) + 1 ELSE 0) = m
    BY <1>1
  <2>5. \A i \in 1..m : a + 1 + i - 1 = a + i
    BY <1>1, <2>3
  <2>. HIDE DEF s, m, L
  <2>6. Len(s) = m
    BY <2>2, <2>4
  <2>7. \A i \in 1..m : s[i] = r[a + i]
    BY <2>2, <2>4, <2>5
  <2>. QED
    BY <2>2, <2>6, <2>7
<1>3. a = 0 => s = r
  BY <1>1, <1>2
<1>4. r \in [1..L -> T] /\ r \in Seq(T)
  OBVIOUS
<1>. HIDE DEF s
<1>5. x = [i \in 1..m |-> s[(m - i) + 1]]
  BY <1>2 DEF Reverse
<1>6. y = [i \in 1..L |-> r[(L - i) + 1]]
  BY DEF Reverse
<1>. HIDE DEF x, y, L
<1>7. x \in Seq(T) /\ Len(x) = m
  <2>1. \A i \in 1..m : (m - i) + 1 \in 1..m
    BY <1>1
  <2>2. \A i \in 1..m : s[(m - i) + 1] \in T
    BY <1>2, <2>1
  <2>. QED
    BY <1>1, <1>5, <2>2
<1>8. y \in Seq(T) /\ Len(y) = L
  <2>1. \A i \in 1..L : (L - i) + 1 \in 1..L
    BY <1>1
  <2>2. \A i \in 1..L : r[(L - i) + 1] \in T
    BY <1>4, <2>1
  <2>. QED
    BY <1>1, <1>6, <2>2
<1>9. \A i \in 1..m : x[i] = y[i]
  <2>. SUFFICES ASSUME NEW i \in 1..m PROVE x[i] = y[i]
    OBVIOUS
  <2>1. (m - i) + 1 \in 1..m /\ a + ((m - i) + 1) = (L - i) + 1 /\ i \in 1..L
    BY <1>1
  <2>. QED
    BY <1>2, <1>5, <1>6, <2>1
<1>10. SubSeq(x, 1, m) = SubSeq(y, 1, m)
  <2>. HIDE DEF m
  <2>1. SubSeq(x, 1, m) \in Seq(T) /\ Len(SubSeq(x, 1, m)) = (IF 1 <= m THEN m - 1 + 1 ELSE 0)
        /\ \A i \in 1..(m - 1 + 1) : SubSeq(x, 1, m)[i] = x[1 + i - 1]
    <3>1. \A i \in 1..m : x[i] \in T
      BY <1>7
    <3>. QED
      BY <1>1, <3>1, SubSeqProperties
  <2>2. SubSeq(y, 1, m) \in Seq(T) /\ Len(SubSeq(y, 1, m)) = (IF 1 <= m THEN m - 1 + 1 ELSE 0)
        /\ \A i \in 1..(m - 1 + 1) : SubSeq(y, 1, m)[i] = y[1 + i - 1]
    <3>1. \A i \in 1..m : y[i] \in T
      BY <1>7, <1>9
    <3>. QED
      BY <1>1, <3>1, SubSeqProperties
  <2>3. m - 1 + 1 = m /\ (IF 1 <= m THEN m - 1 + 1 ELSE 0) = m /\ \A i \in Int : 1 + i - 1 = i
    BY <1>1
  <2>4. \A i \in 1..m : SubSeq(x, 1, m)[i] = SubSeq(y, 1, m)[i]
    BY <1>9, <2>1, <2>2, <2>3
  <2>. DEFINE X == SubSeq(x, 1, m)
              Y == SubSeq(y, 1, m)
  <2>5. X \in Seq(T) /\ Y \in Seq(T) /\ Len(X) = m /\ Len(Y) = m /\ \A i \in 1..Len(X) : X[i] = Y[i]
    BY <2>1, <2>2, <2>3, <2>4
  <2>. HIDE DEF X, Y
  <2>6. X = Y
    BY <2>5, SeqEqual
  <2>. QED
    BY <2>6 DEF X, Y
<1>11. IsSuffix(s, r)
  <2>1. Len(x) <= Len(y) /\ SubSeq(x, 1, Len(x)) = SubSeq(y, 1, Len(x))
    BY <1>1, <1>7, <1>8, <1>10
  <2>. QED
    BY <2>1 DEF IsSuffix, IsPrefix, x, y
<1>. QED
  BY <1>3, <1>11 DEF s, L

\* Where the files of a unit begin and end.
LEMMA MarksFacts ==
    ASSUME NEW record \in Seq(Line), NEW f \in Files, NEW ends \in Marks, CutAt(record, f, ends)
    PROVE  /\ \A n \in 0..(Keep + 1) : ends[n] \in Nat /\ ends[Keep + 1] <= ends[n]
           /\ \A n \in 0..(Keep + 1) : ends[n] <= Len(record)
<1>. DEFINE S == {i \in 0..(Keep + 1) : ends[Keep + 1] <= ends[Keep + 1 - i]}
            R == {n \in 0..(Keep + 1) : ends[n] <= Len(record)}
<1>1. Keep \in Nat /\ Keep + 1 \in Nat /\ Len(record) \in Nat
  BY Constants
<1>2. \A n \in 0..(Keep + 1) : ends[n] \in Nat
  BY DEF Marks
<1>3. \A n \in 0..Keep : ends[n + 1] <= ends[n]
  BY DEF CutAt
<1>4. 0..(Keep + 1) \subseteq S
  <2>1. 0 \in S
    BY <1>1, <1>2
  <2>2. ASSUME NEW i \in 1..(Keep + 1), i - 1 \in S PROVE i \in S
    <3>1. /\ i \in 0..(Keep + 1) /\ Keep + 1 - i \in 0..Keep /\ Keep + 1 - i \in 0..(Keep + 1)
          /\ Keep + 1 - (i - 1) = (Keep + 1 - i) + 1 /\ Keep + 1 - (i - 1) \in 0..(Keep + 1)
          /\ Keep + 1 \in 0..(Keep + 1)
      BY <1>1
    <3>2. ends[(Keep + 1 - i) + 1] <= ends[Keep + 1 - i]
      BY <1>3, <3>1
    <3>3. ends[Keep + 1] <= ends[Keep + 1 - (i - 1)]
      BY <2>2
    <3>4. ends[Keep + 1] <= ends[(Keep + 1 - i) + 1]
      BY <3>1, <3>3
    <3>5. ends[Keep + 1] \in Nat /\ ends[Keep + 1 - i] \in Nat /\ ends[(Keep + 1 - i) + 1] \in Nat
      BY <1>2, <3>1
    <3>6. ends[Keep + 1] <= ends[Keep + 1 - i]
      BY <3>2, <3>4, <3>5
    <3>. QED
      BY <3>1, <3>6
  <2>. HIDE DEF S
  <2>. QED
    BY <1>1, <2>1, <2>2, Induction
<1>5. 0..(Keep + 1) \subseteq R
  <2>1. 0 \in R
    BY <1>1, <1>2 DEF CutAt
  <2>2. ASSUME NEW n \in 1..(Keep + 1), n - 1 \in R PROVE n \in R
    <3>1. n \in 0..(Keep + 1) /\ n - 1 \in 0..Keep /\ n - 1 \in 0..(Keep + 1) /\ (n - 1) + 1 = n
      BY <1>1
    <3>2. ends[(n - 1) + 1] <= ends[n - 1]
      BY <1>3, <3>1
    <3>3. ends[n] <= ends[n - 1] /\ ends[n - 1] <= Len(record) /\ ends[n] \in Nat /\ ends[n - 1] \in Nat
      BY <1>2, <2>2, <3>1, <3>2
    <3>4. ends[n] <= Len(record)
      BY <1>1, <3>3
    <3>. QED
      BY <3>1, <3>4
  <2>. HIDE DEF R
  <2>. QED
    BY <1>1, <2>1, <2>2, Induction
<1>6. \A n \in 0..(Keep + 1) : ends[Keep + 1] <= ends[n]
  <2>. SUFFICES ASSUME NEW n \in 0..(Keep + 1) PROVE ends[Keep + 1] <= ends[n]
    OBVIOUS
  <2>1. Keep + 1 - n \in 0..(Keep + 1) /\ Keep + 1 - (Keep + 1 - n) = n
    BY <1>1
  <2>2. Keep + 1 - n \in S
    BY <1>4, <2>1
  <2>3. ends[Keep + 1] <= ends[Keep + 1 - (Keep + 1 - n)]
    BY <2>2
  <2>. QED
    BY <2>1, <2>3
<1>. QED
  BY <1>2, <1>5, <1>6

\* What the files hold, oldest first, is one piece of the record.
LEMMA HeldFacts ==
    ASSUME NEW record \in Seq(Line), NEW f \in Files, NEW ends \in Marks, CutAt(record, f, ends)
    PROVE  Held(f) = SubSeq(record, ends[Keep + 1] + 1, Len(record)) /\ ends[Keep + 1] \in 0..Len(record)
<1>. DEFINE N == Keep + 1
            s == [i \in 1..(Keep + 1) |->
                     IF Keep + 1 - i \in DOMAIN f THEN f[Keep + 1 - i] ELSE <<>>]
            a == ends[N]
<1>1. Keep \in Nat /\ N \in Nat /\ Len(record) \in Nat
  BY Constants
<1>2. /\ \A n \in 0..N : ends[n] \in Nat /\ a <= ends[n] /\ ends[n] <= Len(record)
      /\ a \in Nat
  <2>1. Keep + 1 \in 0..(Keep + 1)
    BY <1>1
  <2>. QED
    BY <2>1, MarksFacts
<1>3. /\ ends[0] = Len(record)
      /\ \A n \in 0..Keep : /\ ends[n + 1] <= ends[n]
                            /\ n \in DOMAIN f => f[n] = SubSeq(record, ends[n + 1] + 1, ends[n])
                            /\ n \notin DOMAIN f => ends[n + 1] = ends[n]
  BY DEF CutAt
<1>4. \A n \in DOMAIN f : f[n] \in Seq(Line)
  BY FilesFacts
<1>5. s \in Seq(Seq(Line)) /\ Len(s) = N
  <2>1. \A i \in 1..N : s[i] \in Seq(Line)
    BY <1>4
  <2>2. s = [i \in 1..N |-> s[i]] /\ N \in Nat
    BY <1>1
  <2>. HIDE DEF N, s
  <2>. QED
    BY <2>1, <2>2
<1>6. \A i \in 1..N : s[i] = SubSeq(record, ends[N - (i - 1)] + 1, ends[N - i])
  <2>. SUFFICES ASSUME NEW i \in 1..N PROVE s[i] = SubSeq(record, ends[N - (i - 1)] + 1, ends[N - i])
    OBVIOUS
  <2>. DEFINE n == N - i
  <2>1. n \in 0..Keep /\ N - (i - 1) = n + 1 /\ n \in 0..N
    BY <1>1
  <2>2. s[i] = IF n \in DOMAIN f THEN f[n] ELSE <<>>
    <3>1. Keep + 1 - i = n
      BY <1>1
    <3>. HIDE DEF n
    <3>. QED
      BY <3>1
  <2>. HIDE DEF n, s
  <2>3. CASE n \in DOMAIN f
    BY <1>3, <2>1, <2>2, <2>3 DEF n
  <2>4. CASE n \notin DOMAIN f
    <3>1. ends[n + 1] = ends[n] /\ ends[n] \in Nat
      BY <1>2, <1>3, <2>1, <2>4
    <3>2. SubSeq(record, ends[n] + 1, ends[n]) = <<>>
      <4>1. ends[n] + 1 \in Int /\ ends[n] \in Int /\ ends[n] < ends[n] + 1
        BY <3>1
      <4>. QED
        BY <4>1, SubSeqEmpty
    <3>. QED
      BY <2>1, <2>2, <2>4, <3>1, <3>2 DEF n
  <2>. QED
    BY <2>3, <2>4
<1>7. Held(f) = FlattenSeq(s)
  BY DEF Held
<1>. HIDE DEF s
<1>8. PICK h \in [0..Len(s) -> Seq(Line)] :
          /\ h[0] = <<>>
          /\ \A i \in 1..Len(s) : h[i] = h[i - 1] \o s[i]
          /\ FlattenSeq(s) = h[Len(s)]
  <2>1. s \in Seq(Seq(Line))
    BY <1>5
  <2>. QED
    BY <2>1, FlattenSteps DEF Line
<1>. DEFINE S == {i \in 0..N : h[i] = SubSeq(record, a + 1, ends[N - i])}
<1>9. 0 \in S
  <2>1. N - 0 = N /\ 0 \in 0..N
    BY <1>1
  <2>2. SubSeq(record, a + 1, a) = <<>>
    <3>1. a + 1 \in Int /\ a \in Int /\ a < a + 1
      BY <1>2
    <3>. QED
      BY <3>1, SubSeqEmpty
  <2>. QED
    BY <1>8, <2>1, <2>2
<1>10. ASSUME NEW i \in 1..N, i - 1 \in S PROVE i \in S
  <2>. DEFINE b == ends[N - (i - 1)]
              c == ends[N - i]
  <2>1. i \in 0..N /\ N - i \in 0..Keep /\ (N - i) + 1 = N - (i - 1) /\ N - (i - 1) \in 0..N /\ N - i \in 0..N
    BY <1>1
  <2>2. a \in Nat /\ b \in Nat /\ c \in Nat /\ a <= b /\ c <= Len(record)
    BY <1>2, <2>1
  <2>3. b <= c
    BY <1>3, <2>1
  <2>4. h[i] = h[i - 1] \o s[i]
    BY <1>5, <1>8
  <2>5. h[i - 1] = SubSeq(record, a + 1, b) /\ s[i] = SubSeq(record, b + 1, c)
    BY <1>6, <1>10
  <2>6. h[i] = SubSeq(record, a + 1, b) \o SubSeq(record, b + 1, c)
    BY <2>4, <2>5
  <2>. HIDE DEF a, b, c
  <2>7. SubSeq(record, a + 1, b) \o SubSeq(record, b + 1, c) = SubSeq(record, a + 1, c)
    BY <2>2, <2>3, Joined
  <2>. QED
    BY <2>1, <2>6, <2>7 DEF c
<1>11. N \in S
  <2>. HIDE DEF S, N
  <2>1. 0..N \subseteq S
    BY <1>1, <1>9, <1>10, Induction
  <2>. QED
    BY <1>1, <2>1
<1>12. N - N = 0
  BY <1>1
<1>13. h[N] = SubSeq(record, a + 1, Len(record))
  BY <1>3, <1>11, <1>12
<1>14. N \in 0..N
  BY <1>1
<1>. QED
  BY <1>2, <1>5, <1>7, <1>8, <1>13, <1>14

\* The files of a unit are the end of its record.
LEMMA FilesKeptOK ==
    ASSUME IInv
    PROVE  FilesKept
<1>. SUFFICES ASSUME NEW u \in Units
              PROVE  /\ IsSuffix(Held(disk[u]), recorded[u])
                     /\ crashes = 0 /\ (\A w \in Writers : writer[w].moves = <<>>)
                        => Held(disk[u]) = recorded[u] \/ 1..Keep \subseteq DOMAIN disk[u]
  BY DEF FilesKept, IInv, Sized
<1>1. disk[u] \in Files /\ recorded[u] \in Seq(Line) /\ Keep \in Nat
  BY Constants DEF IInv, Types, Line
<1>2. PICK ends \in Marks :
          /\ CutAt(recorded[u], disk[u], ends)
          /\ crashes = 0 => \E m \in 0..Keep : (ends[Keep + 1] = 0 \/ m = Keep) /\ There(u, m)
  BY DEF IInv, Stored
<1>. DEFINE a == ends[Keep + 1]
<1>3. Held(disk[u]) = SubSeq(recorded[u], a + 1, Len(recorded[u])) /\ a \in 0..Len(recorded[u])
  BY <1>1, <1>2, HeldFacts
<1>. HIDE DEF a
<1>4. /\ IsSuffix(SubSeq(recorded[u], a + 1, Len(recorded[u])), recorded[u])
      /\ a = 0 => SubSeq(recorded[u], a + 1, Len(recorded[u])) = recorded[u]
  BY <1>1, <1>3, SuffixOf
<1>5. ASSUME crashes = 0, \A w \in Writers : writer[w].moves = <<>>
      PROVE  Held(disk[u]) = recorded[u] \/ 1..Keep \subseteq DOMAIN disk[u]
  <2>1. PICK m \in 0..Keep : (a = 0 \/ m = Keep) /\ There(u, m)
    BY <1>2, <1>5 DEF a
  <2>2. Settled(DOMAIN disk[u], m)
    BY <1>5, <2>1 DEF There, Rotating
  <2>3. CASE a = 0
    BY <1>3, <1>4, <2>3
  <2>4. CASE m = Keep
    BY <1>1, <2>2, <2>4 DEF Settled
  <2>. QED
    BY <2>1, <2>3, <2>4
<1>. QED
  BY <1>3, <1>4, <1>5

(* rotate, whatever step of it a log writer died in: the files of a unit are *)
(* the end of what was recorded and hold it in its order, none is too large  *)
(* but for a single record, and until a log writer died nothing was rotated  *)
(* away while a generation was missing.                                      *)
THEOREM FilesAreKept == Spec => []FilesKept
  BY Inductive, FilesKeptOK, PTL

\* The order of two runs of lines, one after the other.
Before(gen, A, B) == \A p \in A, q \in B : p.gen = gen /\ q.gen = gen => p.n < q.n

\* What two runs of lines hold.
LEMMA PiecesJoined ==
    ASSUME NEW a \in Seq(Line), NEW b \in Seq(Line)
    PROVE  Pieces(a \o b) = Pieces(a) \cup Pieces(b)
  BY PiecesFacts DEF Line

\* Two runs of lines in order, one before the other, are one in order.
LEMMA InOrderJoined ==
    ASSUME NEW gen, NEW a \in Seq(Line), NEW b \in Seq(Line), InOrder(a, gen), InOrder(b, gen),
           Before(gen, Pieces(a), Pieces(b))
    PROVE  InOrder(a \o b, gen) /\ a \o b \in Seq(Line) /\ Pieces(a \o b) = Pieces(a) \cup Pieces(b)
<1>1. /\ a \o b \in Seq(Line) /\ Len(a \o b) = Len(a) + Len(b)
      /\ \A i \in 1..(Len(a) + Len(b)) : (a \o b)[i] = IF i <= Len(a) THEN a[i] ELSE b[i - Len(a)]
  BY ConcatProperties
<1>2. Pieces(a \o b) = Pieces(a) \cup Pieces(b)
  BY PiecesFacts DEF Line
<1>3. /\ \A i \in DOMAIN a : \A k \in DOMAIN a[i] : a[i][k] \in Pieces(a)
      /\ \A i \in DOMAIN b : \A k \in DOMAIN b[i] : b[i][k] \in Pieces(b)
  BY PiecesFacts DEF Line
<1>4. Len(a) \in Nat /\ Len(b) \in Nat
  OBVIOUS
<1>. DEFINE c == a \o b
<1>5. c \in Seq(Line) /\ DOMAIN c = 1..(Len(a) + Len(b)) /\ DOMAIN a = 1..Len(a) /\ DOMAIN b = 1..Len(b)
  <2>1. DOMAIN c = 1..Len(c)
    BY <1>1
  <2>. QED
    BY <1>1, <2>1
<1>6. \A i \in DOMAIN c : \/ i \in DOMAIN a /\ c[i] = a[i]
                          \/ i - Len(a) \in DOMAIN b /\ c[i] = b[i - Len(a)] /\ i > Len(a)
  <2>. SUFFICES ASSUME NEW i \in DOMAIN c
                PROVE  \/ i \in DOMAIN a /\ c[i] = a[i]
                       \/ i - Len(a) \in DOMAIN b /\ c[i] = b[i - Len(a)] /\ i > Len(a)
    OBVIOUS
  <2>1. i \in 1..(Len(a) + Len(b))
    BY <1>5
  <2>2. c[i] = IF i <= Len(a) THEN a[i] ELSE b[i - Len(a)]
    BY <1>1, <2>1
  <2>. HIDE DEF c
  <2>. QED
    BY <1>4, <1>5, <2>1, <2>2
<1>. HIDE DEF c
<1>7. ASSUME NEW i \in DOMAIN c, NEW j \in DOMAIN c, NEW k \in DOMAIN c[i], NEW l \in DOMAIN c[j],
             Precedes(i, k, j, l), c[i][k].gen = gen, c[j][l].gen = gen
      PROVE  c[i][k].n < c[j][l].n
  <2>1. i \in Int /\ j \in Int /\ (i < j \/ (i = j /\ k < l))
    BY <1>4, <1>5, <1>7 DEF Precedes
  <2>2. CASE i \in DOMAIN a /\ c[i] = a[i] /\ j \in DOMAIN a /\ c[j] = a[j]
    BY <1>7, <2>2 DEF InOrder
  <2>3. CASE i \in DOMAIN a /\ c[i] = a[i] /\ j - Len(a) \in DOMAIN b /\ c[j] = b[j - Len(a)]
    <3>1. c[i][k] \in Pieces(a) /\ c[j][l] \in Pieces(b)
      BY <1>3, <2>3
    <3>. QED
      BY <1>7, <3>1 DEF Before
  <2>4. CASE i - Len(a) \in DOMAIN b /\ c[i] = b[i - Len(a)] /\ i > Len(a)
             /\ j - Len(a) \in DOMAIN b /\ c[j] = b[j - Len(a)]
    <3>. DEFINE x == i - Len(a)
                y == j - Len(a)
    <3>1. Precedes(x, k, y, l)
      BY <1>4, <2>1 DEF Precedes
    <3>2. x \in DOMAIN b /\ y \in DOMAIN b /\ c[i] = b[x] /\ c[j] = b[y]
      BY <2>4
    <3>. HIDE DEF x, y
    <3>3. k \in DOMAIN b[x] /\ l \in DOMAIN b[y] /\ b[x][k].gen = gen /\ b[y][l].gen = gen
      BY <1>7, <3>2
    <3>4. b[x][k].n < b[y][l].n
      BY <3>1, <3>2, <3>3 DEF InOrder
    <3>. QED
      BY <3>2, <3>4
  <2>5. CASE i - Len(a) \in DOMAIN b /\ i > Len(a) /\ j \in DOMAIN a
    <3>1. j <= Len(a)
      BY <1>4, <1>5, <2>5
    <3>. QED
      BY <1>4, <2>1, <2>5, <3>1
  <2>. QED
    BY <1>6, <2>2, <2>3, <2>4, <2>5
<1>8. InOrder(c, gen)
  BY <1>7 DEF InOrder
<1>. QED
  BY <1>1, <1>2, <1>8 DEF c

\* The order the invariant gives, for one start.
LEMMA InOrderOrdered ==
    ASSUME NEW calm, NEW lines, Ordered(calm, lines), NEW gen \in Nat \ {0}
    PROVE  InOrder(lines, gen)
<1>. SUFFICES ASSUME NEW i \in DOMAIN lines, NEW j \in DOMAIN lines,
                     NEW k \in DOMAIN lines[i], NEW l \in DOMAIN lines[j],
                     Precedes(i, k, j, l), lines[i][k].gen = gen, lines[j][l].gen = gen
              PROVE  lines[i][k].n < lines[j][l].n
  BY DEF InOrder
<1>1. Follows(calm, lines[i][k], lines[j][l])
  BY DEF Ordered
<1>. QED
  BY <1>1 DEF Follows

\* The unfinished line of one start.
LEMMA PartialOfFacts ==
    ASSUME IInv, NEW u \in Units, NEW gen \in DOMAIN pipes[u], NEW w \in Writers
    PROVE  LET partials == PartialOf(u, gen, writer[w].sources)
           IN  /\ partials \in Seq(Line)
               /\ InOrder(partials, gen)
               /\ Before(gen, Pieces(recorded[u]) \cup Pieces(Pending(u, w)), Pieces(partials))
               /\ Before(gen, Pieces(partials), Range(pipes[u][gen].data))
<1>. DEFINE sources == writer[w].sources
            partials == PartialOf(u, gen, sources)
            Mine(n) == sources[n].unit = u /\ sources[n].gen = gen
<1>1. sources \in Seq(Source)
  BY DEF IInv, Types, Process
<1>2. /\ DOMAIN sources = 1..Len(sources) /\ Len(sources) \in Nat
      /\ \A n \in DOMAIN sources : sources[n].partial \in Line
      /\ \A n \in DOMAIN sources : sources[n].gen \in Nat
  <2>1. \A n \in DOMAIN sources : sources[n] \in Source
    BY <1>1
  <2>. QED
    BY <1>1, <2>1 DEF Source, Boots
<1>3. partials = [n \in 1..Len(sources) |-> IF Mine(n) THEN sources[n].partial ELSE <<>>]
  BY <1>2 DEF PartialOf
<1>4. <<>> \in Line
  BY DEF Line
<1>5. partials \in Seq(Line)
  <2>1. \A n \in 1..Len(sources) : (IF Mine(n) THEN sources[n].partial ELSE <<>>) \in Line
    BY <1>2, <1>4
  <2>. HIDE DEF partials, sources, Mine
  <2>. QED
    BY <1>2, <1>3, <2>1
<1>6. \A n, m \in DOMAIN sources : Mine(n) /\ Mine(m) => n = m
  <2>. SUFFICES ASSUME NEW n \in DOMAIN sources, NEW m \in DOMAIN sources, Mine(n), Mine(m), n # m
                PROVE  FALSE
    OBVIOUS
  <2>1. n < m \/ m < n
    BY <1>2
  <2>2. sources[n].gen < sources[m].gen \/ sources[m].gen < sources[n].gen
    BY <2>1 DEF IInv, Reads
  <2>. QED
    BY <1>2, <2>2
<1>7. \A n \in DOMAIN sources : Mine(n) =>
          Begun(u, w, n) /\ Pipe(sources[n]) = pipes[u][gen]
  BY DEF IInv, Places, Pipe
<1>8. \A n \in DOMAIN sources : Mine(n) =>
          /\ Rising(sources[n].partial)
          /\ Below(Out(u, w), Range(sources[n].partial))
          /\ Above(Range(sources[n].partial), Range(pipes[u][gen].data))
  BY <1>7 DEF Begun
<1>9. \A n \in DOMAIN partials : n \in DOMAIN sources /\ DOMAIN partials[n] # {} => Mine(n)
  BY <1>3
<1>10. DOMAIN partials = DOMAIN sources
       /\ \A n \in DOMAIN sources : Mine(n) => partials[n] = sources[n].partial
  BY <1>2, <1>3
<1>11. \A x \in Pieces(partials) : \E n \in DOMAIN sources : Mine(n) /\ x \in Range(sources[n].partial)
  <2>. HIDE DEF partials, sources, Mine
  <2>. SUFFICES ASSUME NEW x \in Pieces(partials)
                PROVE  \E n \in DOMAIN sources : Mine(n) /\ x \in Range(sources[n].partial)
    OBVIOUS
  <2>1. PICK n \in DOMAIN partials : \E k \in DOMAIN partials[n] : x = partials[n][k]
    BY DEF Pieces, Range
  <2>2. n \in DOMAIN sources /\ Mine(n)
    BY <1>9, <1>10, <2>1
  <2>3. x \in Range(partials[n])
    BY <2>1 DEF Range
  <2>. QED
    BY <1>10, <2>2, <2>3
<1>12. InOrder(partials, gen)
  <2>. HIDE DEF partials, sources, Mine
  <2>. SUFFICES ASSUME NEW i \in DOMAIN partials, NEW j \in DOMAIN partials,
                       NEW k \in DOMAIN partials[i], NEW l \in DOMAIN partials[j],
                       Precedes(i, k, j, l)
                PROVE  partials[i][k].n < partials[j][l].n
    BY DEF InOrder
  <2>1. i \in DOMAIN sources /\ j \in DOMAIN sources /\ Mine(i) /\ Mine(j)
    BY <1>9, <1>10
  <2>2. i = j /\ i \in Int
    BY <1>2, <1>6, <2>1
  <2>3. k < l
    BY <2>2 DEF Precedes
  <2>4. Rising(partials[i])
    BY <1>8, <1>10, <2>1
  <2>. QED
    BY <2>2, <2>3, <2>4 DEF Rising
<1>13. Before(gen, Pieces(recorded[u]) \cup Pieces(Pending(u, w)), Pieces(partials))
  BY <1>8, <1>11 DEF Before, Below, Out
<1>14. Before(gen, Pieces(partials), Range(pipes[u][gen].data))
  BY <1>8, <1>11 DEF Before, Above
<1>. QED
  BY <1>5, <1>12, <1>13, <1>14

\* The trail of a start is in order, and what it holds is known.
LEMMA TrailFacts ==
    ASSUME IInv, NEW u \in Units, NEW gen \in DOMAIN pipes[u], NEW w \in Writers
    PROVE  /\ InOrder(Trail(u, gen, w), gen)
           /\ Pieces(Trail(u, gen, w)) = Pieces(recorded[u]) \cup Pieces(Pending(u, w))
                \cup Pieces(PartialOf(u, gen, writer[w].sources)) \cup Range(pipes[u][gen].data)
<1>. DEFINE partials == PartialOf(u, gen, writer[w].sources)
            data == pipes[u][gen].data
            a == recorded[u]
            b == Pending(u, w)
<1>1. /\ pipes[u] \in Seq(PipeEnd) /\ pipes[u][gen] \in PipeEnd /\ data \in Line
      /\ gen \in Nat \ {0}
  <2>1. pipes[u] \in Seq(PipeEnd)
    BY DEF IInv, Types
  <2>2. pipes[u][gen] \in PipeEnd /\ gen \in Nat \ {0}
    BY <2>1
  <2>. QED
    BY <2>1, <2>2 DEF PipeEnd
<1>2. a \in Seq(Line)
  BY DEF IInv, Types, Line
<1>3. b \in Seq(Line)
  <2>. DEFINE lines == writer[w].lines
  <2>1. lines \in Seq(Output)
    BY DEF IInv, Types, Process
  <2>2. b = [i \in 1..Len(lines) |-> IF lines[i].unit = u THEN lines[i].line ELSE <<>>]
    BY <2>1 DEF Pending, PendingOf
  <2>3. \A i \in 1..Len(lines) : (IF lines[i].unit = u THEN lines[i].line ELSE <<>>) \in Line
    <3>1. \A i \in 1..Len(lines) : lines[i] \in Output
      BY <2>1
    <3>2. \A i \in 1..Len(lines) : lines[i].line \in Line
      BY <3>1 DEF Output
    <3>3. <<>> \in Line
      BY DEF Line
    <3>. HIDE DEF lines
    <3>. QED
      BY <3>2, <3>3
  <2>. HIDE DEF lines, b
  <2>. QED
    BY <2>1, <2>2, <2>3
<1>4. InOrder(a, gen) /\ InOrder(b, gen)
  BY <1>1, InOrderOrdered DEF IInv, Filed, Places, Taken
<1>5. Before(gen, Pieces(a), Pieces(b))
  <2>1. Follow(Calm(u), Pieces(a), Pieces(b))
    BY DEF IInv, Places, Taken
  <2>. QED
    BY <1>1, <2>1 DEF Follow, Follows, Before
<1>6. /\ partials \in Seq(Line) /\ InOrder(partials, gen)
      /\ Before(gen, Pieces(a) \cup Pieces(b), Pieces(partials))
      /\ Before(gen, Pieces(partials), Range(data))
  BY PartialOfFacts
<1>7. Before(gen, Pieces(a) \cup Pieces(b), Range(data))
  <2>1. Below(Pieces(a), Range(data)) /\ Below(Pieces(b), Range(data))
    BY DEF IInv, Filed, Places, Taken
  <2>. QED
    BY <2>1 DEF Below, Before
<1>8. InOrder(<<data>>, gen) /\ <<data>> \in Seq(Line)
  <2>1. Rising(data)
    BY DEF IInv, Piped
  <2>2. DOMAIN <<data>> = {1} /\ <<data>>[1] = data
    OBVIOUS
  <2>3. \A k, l : Precedes(1, k, 1, l) => k < l
    BY DEF Precedes
  <2>. HIDE DEF data
  <2>. QED
    BY <1>1, <2>1, <2>2, <2>3 DEF InOrder, Rising
<1>9. Pieces(<<data>>) = Range(data)
  <2>1. DOMAIN <<data>> = {1} /\ <<data>>[1] = data
    OBVIOUS
  <2>. HIDE DEF data
  <2>. QED
    BY <2>1 DEF Pieces
<1>10. Trail(u, gen, w) = a \o b \o partials \o <<data>>
  BY DEF Trail, Pending
<1>. HIDE DEF a, b, partials, data
<1>11. /\ InOrder(a \o b, gen) /\ a \o b \in Seq(Line)
       /\ Pieces(a \o b) = Pieces(a) \cup Pieces(b)
  BY <1>2, <1>3, <1>4, <1>5, InOrderJoined
<1>12. /\ InOrder(a \o b \o partials, gen) /\ a \o b \o partials \in Seq(Line)
       /\ Pieces(a \o b \o partials) = Pieces(a) \cup Pieces(b) \cup Pieces(partials)
  <2>. DEFINE t == a \o b
  <2>1. t \in Seq(Line) /\ InOrder(t, gen) /\ Pieces(t) = Pieces(a) \cup Pieces(b)
    BY <1>11
  <2>. HIDE DEF t
  <2>2. Before(gen, Pieces(t), Pieces(partials)) /\ partials \in Seq(Line) /\ InOrder(partials, gen)
    BY <1>6, <2>1
  <2>3. /\ InOrder(t \o partials, gen) /\ t \o partials \in Seq(Line)
        /\ Pieces(t \o partials) = Pieces(t) \cup Pieces(partials)
    <3>1. InOrder(t \o partials, gen)
      BY <2>1, <2>2, InOrderJoined
    <3>2. t \o partials \in Seq(Line)
      BY <2>1, <2>2, ConcatProperties
    <3>3. Pieces(t \o partials) = Pieces(t) \cup Pieces(partials)
      BY <2>1, <2>2, PiecesJoined
    <3>. QED
      BY <3>1, <3>2, <3>3
  <2>. QED
    BY <2>1, <2>3 DEF t
<1>13. Before(gen, Pieces(a \o b \o partials), Pieces(<<data>>))
  BY <1>6, <1>7, <1>9, <1>12 DEF Before
<1>14. /\ InOrder(a \o b \o partials \o <<data>>, gen)
       /\ Pieces(a \o b \o partials \o <<data>>)
            = Pieces(a) \cup Pieces(b) \cup Pieces(partials) \cup Range(data)
  <2>. DEFINE t == a \o b \o partials
              d == <<data>>
  <2>1. t \in Seq(Line) /\ InOrder(t, gen) /\ d \in Seq(Line) /\ InOrder(d, gen)
        /\ Before(gen, Pieces(t), Pieces(d))
    BY <1>8, <1>12, <1>13
  <2>. HIDE DEF t, d
  <2>2. InOrder(t \o d, gen) /\ Pieces(t \o d) = Pieces(t) \cup Pieces(d)
    BY <2>1, InOrderJoined
  <2>. QED
    BY <1>9, <1>12, <2>2 DEF t, d
<1>. QED
  BY <1>10, <1>14 DEF a, b, partials, data

\* What is missing of a start is what is missing of its count.
LEMMA LossBoundedOK ==
    ASSUME IInv
    PROVE  LossBounded
<1>. SUFFICES ASSUME NEW u \in Units, NEW gen \in DOMAIN pipes[u], NEW w \in Writers,
                     Reading(u) \subseteq {w},
                     \A other \in Writers \ {w} : writer[other].lines = <<>>
              PROVE  LET trail == Trail(u, gen, w)
                         known == {piece \in Pieces(trail) : piece.gen = gen}
                         pipe == pipes[u][gen]
                         missing == pipe.wrote - Cardinality(known)
                         mishaps == crashes + (IF odd = "record" THEN 1 ELSE 0)
                     IN  /\ InOrder(trail, gen)
                         /\ 0 <= missing
                         /\ missing <= mishaps * (ReadSize + MaxLine - 1) + pipe.lost
                         /\ pipe.lost <= IF gen < held[u] THEN PipeSize ELSE 0
  BY DEF LossBounded
<1>. DEFINE known == {piece \in Pieces(Trail(u, gen, w)) : piece.gen = gen}
            wrote == pipes[u][gen].wrote
            lost == pipes[u][gen].lost
<1>1. \A v \in Writers \ {w} : Parts(u, gen, v) = {}
  <2>. SUFFICES ASSUME NEW v \in Writers \ {w}, NEW x \in Parts(u, gen, v) PROVE FALSE
    OBVIOUS
  <2>1. InLines(x, u, writer[v].lines) \/ InSources(x, u, gen, writer[v].sources)
    BY PartsMembers DEF Parts
  <2>2. ~InLines(x, u, writer[v].lines)
    BY DEF InLines
  <2>3. v \notin Reading(u)
    OBVIOUS
  <2>4. ~InSources(x, u, gen, writer[v].sources)
    BY <2>3 DEF InSources, Reading
  <2>. QED
    BY <2>1, <2>2, <2>4
<1>2. Present(u, gen) = Stock(u, gen) \cup Parts(u, gen, w)
  <2>1. Rest(u, gen, w) = {}
    BY <1>1 DEF Rest
  <2>2. Present(u, gen) = Stock(u, gen) \cup Parts(u, gen, w) \cup Rest(u, gen, w)
    BY PresentApart
  <2>. QED
    BY <2>1, <2>2
<1>3. known = Present(u, gen)
  BY <1>2, TrailFacts DEF Stock, Parts, PartsOf, Pending
<1>4. Count(u, gen)
  BY DEF IInv, Counted
<1>5. wrote \in Nat /\ lost \in Nat
  <2>1. pipes[u] \in Seq(PipeEnd)
    BY DEF IInv, Types
  <2>2. pipes[u][gen] \in PipeEnd
    BY <2>1
  <2>. QED
    BY <2>2 DEF PipeEnd
<1>6. Mishaps \in Nat /\ Share \in Nat
  BY MishapsFacts DEF IInv
<1>7. /\ IsFiniteSet(known) /\ Cardinality(known) <= wrote
      /\ wrote <= Cardinality(known) + lost + Mishaps * Share
  BY <1>3, <1>4 DEF Count
<1>8. Cardinality(known) \in Nat /\ Mishaps * Share \in Nat
  BY <1>6, <1>7, FS_CardinalityType
<1>9. InOrder(Trail(u, gen, w), gen)
  BY TrailFacts
<1>11. lost <= IF gen < held[u] THEN PipeSize ELSE 0
  <2>1. /\ lost <= PipeSize
        /\ lost # 0 => gen < Len(pipes[u])
    BY DEF IInv, Capped
  <2>2. held[u] = Len(pipes[u])
    BY DEF IInv, Offers
  <2>. QED
    BY <1>5, <2>1, <2>2
<1>. HIDE DEF known, wrote, lost
<1>10. 0 <= wrote - Cardinality(known) /\ wrote - Cardinality(known) <= Mishaps * Share + lost
  <2>. DEFINE a == Cardinality(known)
              b == Mishaps * Share
  <2>1. a \in Nat /\ b \in Nat /\ a <= wrote /\ wrote <= a + lost + b
    BY <1>7, <1>8
  <2>. HIDE DEF a, b
  <2>2. 0 <= wrote - a /\ wrote - a <= b + lost
    BY <1>5, <2>1
  <2>. QED
    BY <2>2 DEF a, b
<1>. QED
  BY <1>9, <1>10, <1>11 DEF known, wrote, lost, Mishaps, Share

(* logs.rs: "a reconnecting oxlogd is handed every descriptor again and the  *)
(* services never notice there was a gap".  Restarts, a second log writer    *)
(* and closed connections neither lose, repeat nor reorder what a start      *)
(* wrote; a death or a refused record costs one read and one partial line;   *)
(* and only a start that was replaced loses more, what was unread in its     *)
(* pipe when the last read end of it was closed, at most a pipe full.        *)
THEOREM LossIsBounded == Spec => []LossBounded
  BY Inductive, LossBoundedOK, PTL
=============================================================================

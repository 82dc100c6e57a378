------------------------------ MODULE LogLemmas -----------------------------
(**************************************************************************)
(* Lemmas about module LogShipping that its theorems rest on: what the    *)
(* operators over lines, queues, sources and files return, and, for each  *)
(* action of the specification, what it changes and what it leaves alone. *)
(* The proofs of LogOrder and LogProofs cite these effects by name and do *)
(* not open the actions again.  The parts of the inductive invariant are  *)
(* defined here, between the two; LogOrder puts them together.            *)
(**************************************************************************)
EXTENDS LogShipping, Foundations, SequenceTheorems

\* A piece of output, and lines of them.
Piece == [n : Nat, gen : Nat, nl : BOOLEAN]
Line == Seq(Piece)

-------------------------------------------------------------------------------
(* Sizes                                                                     *)

\* The size of a record is a number.
LEMMA RecordSizeFacts ==
    ASSUME NEW line \in Line
    PROVE  RecordSize(line) \in Nat
  BY DEF RecordSize, Line

\* The sizes a file goes through as its records are appended.
SizeSteps(file, size) ==
    /\ size[0] = 0
    /\ \A i \in 1..Len(file) : size[i] = size[i - 1] + RecordSize(file[i])

(* FileSize adds up the records.                                             *)
LEMMA FileSizeSteps ==
    ASSUME NEW T, NEW file \in Seq(Seq(T))
    PROVE  \E size \in [0..Len(file) -> Nat] :
              SizeSteps(file, size) /\ FileSize(file) = size[Len(file)]
<1>. DEFINE N == Len(file)
            step == [i \in 1..N |-> [t \in Nat |-> t + RecordSize(file[i])]]
            Sizes(h) == h = [i \in 0..N |-> IF i = 0 THEN 0 ELSE h[i - 1] + RecordSize(file[i])]
<1>1. N \in Nat /\ \A i \in 1..N : RecordSize(file[i]) \in Nat
  BY DEF RecordSize
<1>2. step \in [1..N -> [Nat -> Nat]]
  <2>. HIDE DEF N
  <2>. QED
    BY <1>1
<1>3. PICK f \in [0..N -> Nat] : Recurs(f, N, 0, step)
  <2>. HIDE DEF step, N
  <2>. QED
    BY <1>1, <1>2, Recursion
<1>4. SizeSteps(file, f)
  <2>. HIDE DEF N
  <2>1. \A i \in 1..N : i - 1 \in 0..N
    BY <1>1
  <2>2. \A i \in 1..N : f[i] = f[i - 1] + RecordSize(file[i])
    BY <1>1, <1>3, <2>1 DEF Recurs
  <2>. QED
    BY <1>3, <2>2 DEF SizeSteps, Recurs, N
<1>5. Sizes(f)
  <2>1. \A i \in 0..N : f[i] = IF i = 0 THEN 0 ELSE f[i - 1] + RecordSize(file[i])
    BY <1>1, <1>4 DEF SizeSteps
  <2>. HIDE DEF N
  <2>. QED
    BY <2>1
<1>. DEFINE h == CHOOSE x : Sizes(x)
<1>6. Sizes(h)
  <2>. HIDE DEF Sizes
  <2>. QED
    BY <1>5
<1>7. \A i \in 0..N : h[i] = IF i = 0 THEN 0 ELSE h[i - 1] + RecordSize(file[i])
  <2>. HIDE DEF h, N
  <2>. QED
    BY <1>6
<1>8. FileSize(file) = h[N]
  BY DEF FileSize
<1>. DEFINE same == {i \in 0..N : h[i] = f[i]}
<1>9. 0..N \subseteq same
  <2>. HIDE DEF h, N
  <2>1. 0 \in same
    BY <1>1, <1>7, <1>4 DEF SizeSteps
  <2>2. ASSUME NEW i \in 1..N, i - 1 \in same PROVE i \in same
    BY <1>1, <1>7, <1>4, <2>2 DEF SizeSteps, N
  <2>. HIDE DEF same
  <2>. QED
    BY <1>1, <2>1, <2>2, Induction
<1>10. FileSize(file) = f[N]
  <2>. HIDE DEF h
  <2>. QED
    BY <1>1, <1>8, <1>9
<1>. QED
  BY <1>4, <1>10

(* An empty file has no size, any other has, and a record adds its own.      *)
LEMMA FileSizeFacts ==
    ASSUME NEW T, NEW file \in Seq(Seq(T)), NEW line \in Seq(T)
    PROVE  /\ FileSize(<<>>) = 0
           /\ FileSize(file) \in Nat
           /\ FileSize(file) = 0 => file = <<>>
           /\ FileSize(Append(file, line)) = FileSize(file) + RecordSize(line)
<1>1. FileSize(<<>>) = 0
  <2>1. PICK size \in [0..Len(<<>>) -> Nat] :
             SizeSteps(<<>>, size) /\ FileSize(<<>>) = size[Len(<<>>)]
    <3>1. <<>> \in Seq(Seq(T))
      OBVIOUS
    <3>. QED
      BY <3>1, FileSizeSteps
  <2>. QED
    BY <2>1 DEF SizeSteps
<1>2. PICK size \in [0..Len(file) -> Nat] :
           SizeSteps(file, size) /\ FileSize(file) = size[Len(file)]
  BY FileSizeSteps
<1>3. FileSize(file) \in Nat
  BY <1>2
<1>4. ASSUME FileSize(file) = 0, file # <<>> PROVE FALSE
  <2>1. Len(file) \in 1..Len(file) /\ Len(file) - 1 \in 0..Len(file)
    BY <1>4
  <2>2. size[Len(file)] = size[Len(file) - 1] + RecordSize(file[Len(file)])
    BY <1>2, <2>1 DEF SizeSteps
  <2>3. RecordSize(file[Len(file)]) \in Nat \ {0}
    BY <2>1 DEF RecordSize
  <2>4. size[Len(file) - 1] \in Nat /\ size[Len(file)] = 0
    BY <1>2, <1>4, <2>1
  <2>. QED
    BY <2>2, <2>3, <2>4
<1>5. FileSize(Append(file, line)) = FileSize(file) + RecordSize(line)
  <2>. DEFINE more == Append(file, line)
              N == Len(file)
  <2>1. /\ more \in Seq(Seq(T)) /\ Len(more) = N + 1 /\ more[N + 1] = line
        /\ N \in Nat /\ \A i \in 1..N : more[i] = file[i] /\ RecordSize(file[i]) \in Nat
    BY DEF RecordSize
  <2>. HIDE DEF more
  <2>2. PICK wide \in [0..Len(more) -> Nat] :
             SizeSteps(more, wide) /\ FileSize(more) = wide[Len(more)]
    BY <2>1, FileSizeSteps
  <2>. DEFINE same == {i \in 0..N : wide[i] = size[i]}
  <2>3. 0..N \subseteq same
    <3>1. 0 \in same
      BY <1>2, <2>1, <2>2 DEF SizeSteps
    <3>2. ASSUME NEW i \in 1..N, i - 1 \in same PROVE i \in same
      <4>1. i \in 1..Len(more) /\ i \in 0..N
        BY <2>1
      <4>2. /\ wide[i] = wide[i - 1] + RecordSize(more[i])
            /\ size[i] = size[i - 1] + RecordSize(file[i])
        BY <1>2, <2>2, <4>1 DEF SizeSteps
      <4>3. wide[i - 1] = size[i - 1] /\ more[i] = file[i]
        BY <2>1, <3>2
      <4>. QED
        BY <4>1, <4>2, <4>3
    <3>. HIDE DEF same, N
    <3>. QED
      BY <2>1, <3>1, <3>2, Induction
  <2>4. wide[N] = size[N]
    <3>. HIDE DEF N
    <3>1. N \in 0..N
      BY <2>1
    <3>. QED
      BY <3>1, <2>3
  <2>5. wide[N + 1] = wide[N] + RecordSize(line)
    <3>1. N + 1 \in 1..Len(more) /\ (N + 1) - 1 = N
      BY <2>1
    <3>2. wide[N + 1] = wide[(N + 1) - 1] + RecordSize(more[N + 1])
      BY <2>2, <3>1 DEF SizeSteps
    <3>. QED
      BY <2>1, <3>1, <3>2
  <2>6. FileSize(more) = wide[N + 1] /\ FileSize(file) = size[N]
    BY <1>2, <2>1, <2>2
  <2>. QED
    BY <2>4, <2>5, <2>6 DEF more
<1>. QED
  BY <1>1, <1>3, <1>4, <1>5

-------------------------------------------------------------------------------
(* Lines and their pieces                                                    *)

\* What a sequence holds.
LEMMA RangeFacts ==
    ASSUME NEW T, NEW s \in Seq(T)
    PROVE  /\ Range(s) \subseteq T
           /\ Range(<<>>) = {}
           /\ \A i \in DOMAIN s : s[i] \in Range(s)
           /\ \A x \in Range(s) : \E i \in DOMAIN s : s[i] = x
           /\ \A x : Range(Append(s, x)) = Range(s) \cup {x}
<1>1. Range(<<>>) = {}
  BY DEF Range
<1>2. ASSUME NEW x PROVE Range(Append(s, x)) = Range(s) \cup {x}
  <2>1. ASSUME NEW y \in Range(Append(s, x)) PROVE y \in Range(s) \cup {x}
    BY DEF Range
  <2>2. ASSUME NEW y \in Range(s) \cup {x} PROVE y \in Range(Append(s, x))
    <3>1. CASE y = x
      <4>1. Len(s) + 1 \in DOMAIN Append(s, x) /\ Append(s, x)[Len(s) + 1] = x
        OBVIOUS
      <4>. QED
        BY <3>1, <4>1 DEF Range
    <3>2. CASE y \in Range(s)
      <4>1. PICK i \in DOMAIN s : s[i] = y
        BY <3>2 DEF Range
      <4>2. i \in DOMAIN Append(s, x) /\ Append(s, x)[i] = y
        BY <4>1
      <4>. QED
        BY <4>2 DEF Range
    <3>. QED
      BY <2>2, <3>1, <3>2
  <2>. QED
    BY <2>1, <2>2
<1>3. /\ Range(s) \subseteq T
      /\ \A i \in DOMAIN s : s[i] \in Range(s)
      /\ \A x \in Range(s) : \E i \in DOMAIN s : s[i] = x
  BY DEF Range
<1>. QED
  BY <1>1, <1>2, <1>3

(* Pieces, of a sequence and of one made from others.                        *)
LEMMA PiecesFacts ==
    ASSUME NEW T, NEW a \in Seq(Seq(T)), NEW b \in Seq(Seq(T)), NEW line \in Seq(T)
    PROVE  /\ Pieces(<<>>) = {}
           /\ Pieces(a) \subseteq T
           /\ \A x : x \in Pieces(a) <=> \E i \in DOMAIN a : \E k \in DOMAIN a[i] : x = a[i][k]
           /\ Pieces(Append(a, line)) = Pieces(a) \cup Range(line)
           /\ Pieces(a \o b) = Pieces(a) \cup Pieces(b)
           /\ a # <<>> => Pieces(a) = Range(a[1]) \cup Pieces(Tail(a))
<1>1. Pieces(<<>>) = {}
  BY DEF Pieces
<1>2. \A x : x \in Pieces(a) <=> \E i \in DOMAIN a : \E k \in DOMAIN a[i] : x = a[i][k]
  BY DEF Pieces, Range
<1>3. Pieces(a) \subseteq T
  BY <1>2
<1>4. Pieces(Append(a, line)) = Pieces(a) \cup Range(line)
  <2>. DEFINE c == Append(a, line)
  <2>1. /\ DOMAIN c = DOMAIN a \cup {Len(a) + 1}
        /\ c[Len(a) + 1] = line /\ \A i \in DOMAIN a : c[i] = a[i]
    OBVIOUS
  <2>. HIDE DEF c
  <2>2. \A x : x \in Pieces(c) <=> \E i \in DOMAIN c : x \in Range(c[i])
    BY DEF Pieces
  <2>3. \A x : x \in Pieces(a) <=> \E i \in DOMAIN a : x \in Range(a[i])
    BY DEF Pieces
  <2>4. \A x : x \in Pieces(c) <=> x \in Pieces(a) \cup Range(line)
    BY <2>1, <2>2, <2>3
  <2>. QED
    BY <2>4 DEF c
<1>5. Pieces(a \o b) = Pieces(a) \cup Pieces(b)
  <2>. DEFINE c == a \o b
  <2>1. /\ \A i \in DOMAIN c : IF i \in DOMAIN a THEN c[i] = a[i]
                               ELSE i - Len(a) \in DOMAIN b /\ c[i] = b[i - Len(a)]
        /\ \A i \in DOMAIN a : i \in DOMAIN c /\ c[i] = a[i]
        /\ \A i \in DOMAIN b : i + Len(a) \in DOMAIN c /\ c[i + Len(a)] = b[i]
    BY SMTT(20)
  <2>. HIDE DEF c
  <2>2. \A x : x \in Pieces(c) <=> \E i \in DOMAIN c : x \in Range(c[i])
    BY DEF Pieces
  <2>3. \A x : x \in Pieces(a) <=> \E i \in DOMAIN a : x \in Range(a[i])
    BY DEF Pieces
  <2>4. \A x : x \in Pieces(b) <=> \E i \in DOMAIN b : x \in Range(b[i])
    BY DEF Pieces
  <2>5. ASSUME NEW x \in Pieces(c) PROVE x \in Pieces(a) \cup Pieces(b)
    BY <2>1, <2>2, <2>3, <2>4
  <2>6. ASSUME NEW x \in Pieces(a) \cup Pieces(b) PROVE x \in Pieces(c)
    BY <2>1, <2>2, <2>3, <2>4
  <2>7. Pieces(c) = Pieces(a) \cup Pieces(b)
    BY <2>5, <2>6
  <2>. QED
    BY <2>7 DEF c
<1>6. ASSUME a # <<>> PROVE Pieces(a) = Range(a[1]) \cup Pieces(Tail(a))
  <2>. DEFINE c == Tail(a)
  <2>1. /\ 1 \in DOMAIN a
        /\ \A i \in DOMAIN c : i + 1 \in DOMAIN a /\ c[i] = a[i + 1]
        /\ \A i \in DOMAIN a : i # 1 => i - 1 \in DOMAIN c /\ c[i - 1] = a[i]
    BY <1>6
  <2>. HIDE DEF c
  <2>2. \A x : x \in Pieces(c) <=> \E i \in DOMAIN c : x \in Range(c[i])
    BY DEF Pieces
  <2>3. \A x : x \in Pieces(a) <=> \E i \in DOMAIN a : x \in Range(a[i])
    BY DEF Pieces
  <2>4. ASSUME NEW x \in Pieces(a) PROVE x \in Range(a[1]) \cup Pieces(c)
    BY <2>1, <2>2, <2>3
  <2>5. ASSUME NEW x \in Range(a[1]) \cup Pieces(c) PROVE x \in Pieces(a)
    BY <2>1, <2>2, <2>3
  <2>6. Pieces(a) = Range(a[1]) \cup Pieces(c)
    BY <2>4, <2>5
  <2>. QED
    BY <2>6 DEF c
<1>. QED
  BY <1>1, <1>2, <1>3, <1>4, <1>5, <1>6

-------------------------------------------------------------------------------
(* Splitting                                                                 *)

\* What read from a pipe is split into: whole lines, and the start of one.
Split == [lines : Seq(Line), partial : Line]

\* Pieces in the order they were written.
Rising(line) == \A i, j \in DOMAIN line : i < j => line[i].n < line[j].n

\* Pieces in the order they were written, over several lines.
AllRising(lines) ==
    \A i, j \in DOMAIN lines : \A k \in DOMAIN lines[i], l \in DOMAIN lines[j] :
        Precedes(i, k, j, l) => lines[i][k].n < lines[j][l].n

\* All of A was written before any of B.
Above(A, B) == \A p \in A, q \in B : p.n < q.n

\* All the pieces of a split.
Content(split) == Pieces(split.lines) \cup Range(split.partial)

\* A split holds its pieces in the order they were written.
Sorted(split) ==
    /\ AllRising(split.lines)
    /\ Rising(split.partial)
    /\ Above(Pieces(split.lines), Range(split.partial))

(* A line that rises behind lines that do.                                   *)
LEMMA AllRisingAppend ==
    ASSUME NEW lines \in Seq(Line), NEW line \in Line,
           AllRising(lines), Rising(line), Above(Pieces(lines), Range(line))
    PROVE  AllRising(Append(lines, line))
<1>. DEFINE c == Append(lines, line)
            N == Len(lines) + 1
<1>1. /\ DOMAIN c = DOMAIN lines \cup {N} /\ DOMAIN lines = 1..(N - 1) /\ N \in Nat
      /\ c[N] = line /\ \A i \in DOMAIN lines : c[i] = lines[i] /\ lines[i] \in Line
  OBVIOUS
<1>2. \A i \in DOMAIN lines : \A k \in DOMAIN lines[i] : lines[i][k] \in Pieces(lines)
  BY PiecesFacts DEF Line
<1>3. \A k \in DOMAIN line : line[k] \in Range(line) /\ k \in Nat
  BY DEF Range, Line
<1>. HIDE DEF c, N
<1>4. SUFFICES ASSUME NEW i \in DOMAIN c, NEW j \in DOMAIN c,
                      NEW k \in DOMAIN c[i], NEW l \in DOMAIN c[j], Precedes(i, k, j, l)
               PROVE  c[i][k].n < c[j][l].n
  BY DEF AllRising, c
<1>5. CASE i \in DOMAIN lines /\ j \in DOMAIN lines
  BY <1>1, <1>4, <1>5 DEF AllRising
<1>6. CASE i \in DOMAIN lines /\ j = N
  BY <1>1, <1>2, <1>3, <1>6 DEF Above
<1>7. CASE i = N /\ j = N
  BY <1>1, <1>3, <1>4, <1>7 DEF Rising, Precedes
<1>8. CASE i = N /\ j \in DOMAIN lines
  BY <1>1, <1>4, <1>8 DEF Precedes
<1>. QED
  BY <1>1, <1>5, <1>6, <1>7, <1>8

(* A piece more.                                                             *)
LEMMA RisingAppend ==
    ASSUME NEW line \in Line, NEW piece \in Piece, Rising(line),
           \A p \in Range(line) : p.n < piece.n
    PROVE  /\ Append(line, piece) \in Line /\ Rising(Append(line, piece))
           /\ Range(Append(line, piece)) = Range(line) \cup {piece}
<1>1. Range(Append(line, piece)) = Range(line) \cup {piece}
  BY RangeFacts DEF Line
<1>2. \A i \in DOMAIN line : line[i] \in Range(line)
  BY DEF Range
<1>. DEFINE c == Append(line, piece)
            N == Len(line) + 1
<1>3. /\ DOMAIN c = DOMAIN line \cup {N} /\ DOMAIN line = 1..(N - 1) /\ N \in Nat
      /\ c[N] = piece /\ \A i \in DOMAIN line : c[i] = line[i]
  BY DEF Line
<1>4. c \in Line
  BY DEF Line
<1>. HIDE DEF c, N
<1>5. Rising(c)
  BY <1>2, <1>3 DEF Rising
<1>. QED
  BY <1>1, <1>4, <1>5 DEF c

(* Splitter::push takes one byte after the other.                            *)
LEMMA TookFacts ==
    ASSUME NEW split \in Split, NEW piece \in Piece, Sorted(split),
           \A p \in Content(split) : p.n < piece.n
    PROVE  /\ Took(split, piece) \in Split
           /\ Sorted(Took(split, piece))
           /\ Content(Took(split, piece)) = Content(split) \cup {piece}
<1>. DEFINE line == Append(split.partial, piece)
<1>1. /\ split.lines \in Seq(Line) /\ split.partial \in Line
      /\ AllRising(split.lines) /\ Rising(split.partial)
      /\ Above(Pieces(split.lines), Range(split.partial))
  BY DEF Split, Sorted
<1>2. /\ line \in Line /\ Rising(line) /\ Range(line) = Range(split.partial) \cup {piece}
  BY <1>1, RisingAppend DEF Content
<1>3. Above(Pieces(split.lines), Range(line))
  BY <1>1, <1>2 DEF Above, Content
<1>. HIDE DEF line
<1>4. CASE piece.nl
  <2>1. Took(split, piece) = [lines |-> Append(split.lines, line), partial |-> <<>>]
    BY <1>4 DEF Took, line
  <2>2. AllRising(Append(split.lines, line))
    BY <1>1, <1>2, <1>3, AllRisingAppend
  <2>5. Append(split.lines, line) \in Seq(Line)
    BY <1>1, <1>2
  <2>3. Pieces(Append(split.lines, line)) = Pieces(split.lines) \cup Range(line)
    BY <1>1, <1>2, PiecesFacts DEF Line
  <2>4. Range(<<>>) = {} /\ <<>> \in Line /\ Rising(<<>>)
    BY DEF Range, Line, Rising
  <2>. QED
    BY <1>2, <2>1, <2>2, <2>3, <2>4, <2>5 DEF Split, Sorted, Content, Above
<1>5. CASE ~piece.nl
  <2>1. Took(split, piece) = [lines |-> split.lines, partial |-> line]
    BY <1>5 DEF Took, line, Split
  <2>2. Took(split, piece).lines = split.lines /\ Took(split, piece).partial = line
    BY <2>1
  <2>3. Took(split, piece) \in Split
    BY <1>1, <1>2, <2>1 DEF Split
  <2>4. Sorted(Took(split, piece))
    BY <1>1, <1>2, <1>3, <2>2 DEF Sorted
  <2>. QED
    BY <1>2, <2>2, <2>3, <2>4 DEF Content
<1>. QED
  BY <1>4, <1>5

\* The splits push goes through, one piece of the chunk at a time.
Splits(partial, chunk, split) ==
    /\ split[0] = [lines |-> <<>>, partial |-> partial]
    /\ \A i \in 1..Len(chunk) : split[i] = Took(split[i - 1], chunk[i])

\* What push does at its end with a line that is too long.
Broken(whole) ==
    IF Len(whole.partial) >= MaxLine
    THEN [lines |-> Append(whole.lines, whole.partial), partial |-> <<>>]
    ELSE whole

(* Push follows the chunk piece by piece.                                    *)
LEMMA PushSteps ==
    ASSUME NEW partial \in Line, NEW chunk \in Line
    PROVE  \E split \in [0..Len(chunk) -> Split] :
              Splits(partial, chunk, split) /\ Push(partial, chunk) = Broken(split[Len(chunk)])
<1>. DEFINE N == Len(chunk)
            base == [lines |-> <<>>, partial |-> partial]
            step == [i \in 1..N |-> [t \in Split |-> Took(t, chunk[i])]]
            Pushes(h) == h = [i \in 0..N |-> IF i = 0 THEN base ELSE Took(h[i - 1], chunk[i])]
<1>1. N \in Nat /\ \A i \in 1..N : chunk[i] \in Piece
  BY DEF Line
<1>2. base \in Split
  BY DEF Split, Line
<1>3. ASSUME NEW t \in Split, NEW p \in Piece PROVE Took(t, p) \in Split
  <2>1. t.lines \in Seq(Line) /\ Append(t.partial, p) \in Line
    BY DEF Split, Line
  <2>2. Append(t.lines, Append(t.partial, p)) \in Seq(Line) /\ <<>> \in Line
    BY <2>1 DEF Line
  <2>3. p.nl => Took(t, p) = [lines |-> Append(t.lines, Append(t.partial, p)), partial |-> <<>>]
    BY DEF Took
  <2>4. ~p.nl => Took(t, p) = [lines |-> t.lines, partial |-> Append(t.partial, p)]
    BY DEF Took, Split
  <2>5. [lines |-> Append(t.lines, Append(t.partial, p)), partial |-> <<>>] \in Split
    BY <2>2 DEF Split
  <2>6. [lines |-> t.lines, partial |-> Append(t.partial, p)] \in Split
    BY <2>1 DEF Split
  <2>. QED
    BY <2>3, <2>4, <2>5, <2>6
<1>4. step \in [1..N -> [Split -> Split]]
  <2>. HIDE DEF N
  <2>. QED
    BY <1>1, <1>3
<1>5. PICK f \in [0..N -> Split] : Recurs(f, N, base, step)
  <2>. HIDE DEF step, N, base
  <2>. QED
    BY <1>1, <1>2, <1>4, Recursion
<1>6. f[0] = base /\ \A i \in 1..N : f[i] = Took(f[i - 1], chunk[i])
  <2>. HIDE DEF N, base
  <2>1. \A i \in 1..N : i - 1 \in 0..N
    BY <1>1
  <2>2. \A i \in 1..N : f[i - 1] \in Split /\ f[i] = step[i][f[i - 1]]
    <3>. HIDE DEF step
    <3>. QED
      BY <1>5, <2>1 DEF Recurs
  <2>. QED
    BY <1>5, <2>2 DEF Recurs
<1>7. Pushes(f)
  <2>. HIDE DEF N, base
  <2>1. \A i \in 0..N : f[i] = IF i = 0 THEN base ELSE Took(f[i - 1], chunk[i])
    BY <1>1, <1>6
  <2>. QED
    BY <2>1
<1>. DEFINE h == CHOOSE x : Pushes(x)
<1>8. Pushes(h)
  <2>. HIDE DEF Pushes
  <2>. QED
    BY <1>7
<1>9. \A i \in 0..N : h[i] = IF i = 0 THEN base ELSE Took(h[i - 1], chunk[i])
  <2>. HIDE DEF h, N, base
  <2>. QED
    BY <1>8
<1>10. Push(partial, chunk) = Broken(h[N])
  BY DEF Push, Broken
<1>. DEFINE same == {i \in 0..N : h[i] = f[i]}
<1>11. 0..N \subseteq same
  <2>. HIDE DEF h, N, base
  <2>1. 0 \in same
    BY <1>1, <1>9, <1>6
  <2>2. ASSUME NEW i \in 1..N, i - 1 \in same PROVE i \in same
    BY <1>1, <1>9, <1>6, <2>2
  <2>. HIDE DEF same
  <2>. QED
    BY <1>1, <2>1, <2>2, Induction
<1>12. h[N] = f[N]
  <2>. HIDE DEF h, N
  <2>. QED
    BY <1>1, <1>11
<1>13. Splits(partial, chunk, f) /\ Push(partial, chunk) = Broken(f[N])
  <2>. HIDE DEF h
  <2>. QED
    BY <1>6, <1>10, <1>12 DEF Splits
<1>. QED
  BY <1>13

(* Nothing a read brought is lost, doubled or put out of order, and what is  *)
(* left over is shorter than the longest line.                               *)
LEMMA PushFacts ==
    ASSUME NEW partial \in Line, NEW chunk \in Line, Rising(partial), Rising(chunk),
           Above(Range(partial), Range(chunk))
    PROVE  /\ Push(partial, chunk) \in Split
           /\ Sorted(Push(partial, chunk))
           /\ Content(Push(partial, chunk)) = Range(partial) \cup Range(chunk)
           /\ Len(Push(partial, chunk).partial) < MaxLine
<1>. DEFINE N == Len(chunk)
<1>1. N \in Nat /\ \A i \in 1..N : chunk[i] \in Piece /\ chunk[i] \in Range(chunk)
  BY DEF Line, Range
<1>2. PICK split \in [0..N -> Split] :
           Splits(partial, chunk, split) /\ Push(partial, chunk) = Broken(split[N])
  BY PushSteps
<1>. DEFINE Upto(i) == {chunk[j] : j \in 1..i}
            good == {i \in 0..N : /\ Sorted(split[i])
                                  /\ Content(split[i]) = Range(partial) \cup Upto(i)}
<1>3. 0 \in good
  <2>1. split[0] = [lines |-> <<>>, partial |-> partial]
    BY <1>2 DEF Splits
  <2>2. AllRising(<<>>) /\ Pieces(<<>>) = {}
    BY DEF AllRising, Pieces
  <2>3. Sorted(split[0]) /\ Content(split[0]) = Range(partial)
    BY <2>1, <2>2 DEF Sorted, Content, Above
  <2>4. Upto(0) = {}
    OBVIOUS
  <2>. QED
    BY <1>1, <2>3, <2>4
<1>4. ASSUME NEW i \in 1..N, i - 1 \in good PROVE i \in good
  <2>1. /\ split[i - 1] \in Split /\ Sorted(split[i - 1])
        /\ Content(split[i - 1]) = Range(partial) \cup Upto(i - 1)
    BY <1>1, <1>2, <1>4
  <2>2. split[i] = Took(split[i - 1], chunk[i])
    BY <1>2 DEF Splits
  <2>3. \A p \in Content(split[i - 1]) : p.n < chunk[i].n
    <3>1. \A p \in Range(partial) : p.n < chunk[i].n
      BY <1>1 DEF Above
    <3>2. \A j \in 1..(i - 1) : chunk[j].n < chunk[i].n
      BY <1>1 DEF Rising, Line
    <3>. QED
      BY <2>1, <3>1, <3>2
  <2>4. /\ Sorted(split[i])
        /\ Content(split[i]) = (Range(partial) \cup Upto(i - 1)) \cup {chunk[i]}
    <3>. HIDE DEF Upto, N
    <3>. QED
      BY <1>1, <2>1, <2>2, <2>3, TookFacts
  <2>5. Upto(i) = Upto(i - 1) \cup {chunk[i]}
    <3>1. 1..i = 1..(i - 1) \cup {i}
      BY <1>1
    <3>. QED
      BY <3>1
  <2>. HIDE DEF Upto, N
  <2>. QED
    BY <1>1, <2>4, <2>5
<1>5. N \in good
  <2>. HIDE DEF good, N
  <2>1. 0..N \subseteq good
    BY <1>1, <1>3, <1>4, Induction
  <2>. QED
    BY <1>1, <2>1
<1>. DEFINE whole == split[N]
<1>6. whole \in Split /\ Sorted(whole) /\ Content(whole) = Range(partial) \cup Range(chunk)
  <2>1. Upto(N) = Range(chunk)
    BY DEF Range, Line
  <2>. QED
    BY <1>1, <1>2, <1>5, <2>1
<1>. HIDE DEF whole
<1>7. CASE Len(whole.partial) >= MaxLine
  <2>1. Push(partial, chunk) = [lines |-> Append(whole.lines, whole.partial), partial |-> <<>>]
    BY <1>2, <1>7 DEF Broken, whole
  <2>2. /\ whole.lines \in Seq(Line) /\ whole.partial \in Line
        /\ AllRising(whole.lines) /\ Rising(whole.partial)
        /\ Above(Pieces(whole.lines), Range(whole.partial))
    BY <1>6 DEF Split, Sorted
  <2>3. AllRising(Append(whole.lines, whole.partial))
    BY <2>2, AllRisingAppend
  <2>4. Append(whole.lines, whole.partial) \in Seq(Line)
    BY <2>2
  <2>5. Pieces(Append(whole.lines, whole.partial)) = Content(whole)
    BY <2>2, PiecesFacts DEF Line, Content
  <2>6. Range(<<>>) = {} /\ <<>> \in Line /\ Rising(<<>>) /\ Len(<<>>) < MaxLine
    BY LogFilesAssumption DEF Range, Line, Rising
  <2>. QED
    BY <1>6, <2>1, <2>3, <2>4, <2>5, <2>6 DEF Split, Sorted, Content, Above
<1>8. CASE Len(whole.partial) < MaxLine
  <2>1. Push(partial, chunk) = whole
    BY <1>2, <1>6, <1>8, LogFilesAssumption DEF Broken, whole, Split, Line
  <2>. QED
    BY <1>6, <1>8, <2>1
<1>9. Len(whole.partial) \in Nat /\ MaxLine \in Nat
  BY <1>6, LogFilesAssumption DEF Split, Line
<1>. QED
  BY <1>7, <1>8, <1>9

(* What Ascending is: all of the set, from the smallest.                     *)
Increasing(f) == \A i, j \in DOMAIN f : i < j => f[i] < f[j]

\* f goes through S from the smallest.
Enumerates(f, S) ==
    /\ f \in [1..Cardinality(S) -> S]
    /\ Increasing(f)
    /\ \A x \in S : \E i \in 1..Cardinality(S) : f[i] = x

\* A finite set of places can be gone through from the lowest up.
LEMMA Enumerable ==
    ASSUME NEW N \in Nat, NEW S \in SUBSET (1..N)
    PROVE  /\ IsFiniteSet(S) /\ Cardinality(S) \in Nat
           /\ \E f \in [1..Cardinality(S) -> S] : Increasing(f)
<1>. DEFINE Listed(U) == \E f \in [1..Cardinality(U) -> U] : Increasing(f)
            good == {n \in 0..N : \A U \in SUBSET (1..n) : Listed(U)}
<1>1. ASSUME NEW n \in 0..N, NEW U \in SUBSET (1..n)
      PROVE  IsFiniteSet(U) /\ Cardinality(U) \in Nat
  <2>1. IsFiniteSet(1..n)
    BY FS_Interval
  <2>2. IsFiniteSet(U)
    BY <2>1, FS_Subset
  <2>. QED
    BY <2>2, FS_CardinalityType
<1>2. 0 \in good
  <2>1. ASSUME NEW U \in SUBSET (1..0) PROVE Listed(U)
    <3>1. U = {}
      OBVIOUS
    <3>2. Cardinality(U) = 0
      BY <3>1, FS_EmptySet
    <3>. DEFINE f == [i \in 1..0 |-> i]
    <3>3. f \in [1..Cardinality(U) -> U] /\ Increasing(f)
      BY <3>2 DEF Increasing
    <3>. QED
      BY <3>3
  <2>. HIDE DEF Listed
  <2>. QED
    BY <2>1
<1>3. ASSUME NEW n \in 1..N, n - 1 \in good PROVE n \in good
  <2>0. n \in 0..N /\ n - 1 \in 0..N
    OBVIOUS
  <2>1. ASSUME NEW U \in SUBSET (1..n) PROVE Listed(U)
    <3>1. CASE n \notin U
      <4>1. U \in SUBSET (1..(n - 1))
        BY <3>1
      <4>. HIDE DEF Listed
      <4>. QED
        BY <1>3, <4>1
    <3>2. CASE n \in U
      <4>. DEFINE V == U \ {n}
                  k == Cardinality(V)
      <4>1. V \in SUBSET (1..(n - 1))
        BY <3>2
      <4>2. Listed(V)
        <5>. HIDE DEF Listed, V
        <5>. QED
          BY <1>3, <4>1
      <4>3. /\ k \in Nat /\ Cardinality(U) = k + 1
        <5>1. IsFiniteSet(U) /\ Cardinality(U) \in Nat
          BY <1>1, <2>0
        <5>2. IsFiniteSet(V) /\ Cardinality(V) \in Nat
          BY <1>1, <2>0, <4>1
        <5>3. Cardinality(V) = Cardinality(U) - 1
          BY <5>1, <3>2, FS_RemoveElement
        <5>. HIDE DEF V
        <5>. QED
          BY <5>1, <5>2, <5>3
      <4>4. PICK f \in [1..k -> V] : Increasing(f)
        BY <4>2
      <4>. DEFINE g == [i \in 1..(k + 1) |-> IF i = k + 1 THEN n ELSE f[i]]
      <4>5. ASSUME NEW i \in 1..(k + 1) PROVE g[i] \in U /\ (i # k + 1 => i \in 1..k /\ g[i] = f[i])
        <5>. HIDE DEF k
        <5>. QED
          BY <3>2, <4>3, <4>4
      <4>6. g \in [1..Cardinality(U) -> U]
        BY <4>3, <4>5
      <4>7. Increasing(g)
        <5>1. \A i \in 1..k : f[i] \in 1..(n - 1)
          BY <4>1, <4>4
        <5>2. DOMAIN g = 1..(k + 1) /\ DOMAIN f = 1..k /\ g[k + 1] = n
          BY <4>3, <4>4
        <5>. HIDE DEF g, k, V
        <5>. QED
          BY <4>3, <4>4, <4>5, <5>1, <5>2 DEF Increasing
      <4>. HIDE DEF g
      <4>. QED
        BY <4>6, <4>7
    <3>. QED
      BY <3>1, <3>2
  <2>. HIDE DEF Listed
  <2>. QED
    BY <2>0, <2>1
<1>4. N \in good
  <2>. HIDE DEF good
  <2>1. 0..N \subseteq good
    BY <1>2, <1>3, Induction
  <2>. QED
    BY <2>1
<1>5. Listed(S)
  <2>. HIDE DEF Listed
  <2>. QED
    BY <1>4
<1>. QED
  BY <1>1, <1>5

\* Ascending names each place once, from the lowest up.
LEMMA AscendingFacts ==
    ASSUME NEW N \in Nat, NEW S \in SUBSET (1..N)
    PROVE  IsFiniteSet(S) /\ Cardinality(S) \in Nat /\ Enumerates(Ascending(S), S)
<1>. DEFINE f == Ascending(S)
            k == Cardinality(S)
<1>1. IsFiniteSet(S) /\ k \in Nat
  BY Enumerable
<1>2. f \in [1..k -> S] /\ Increasing(f)
  <2>1. Ascending(S) = CHOOSE x \in [1..Cardinality(S) -> S] : Increasing(x)
    BY DEF Ascending, Increasing
  <2>. HIDE DEF f
  <2>. QED
    BY <2>1, Enumerable DEF f
<1>. HIDE DEF f
<1>3. f \in Injection(1..k, S)
  <2>1. \A i \in 1..k : f[i] \in 1..N
    BY <1>2
  <2>. HIDE DEF k
  <2>. QED
    BY <1>1, <1>2, <2>1 DEF Injection, IsInjective, Increasing
<1>4. Cardinality(1..k) = k
  <2>. HIDE DEF k
  <2>. QED
    BY <1>1, FS_Interval
<1>5. f \in Surjection(1..k, S)
  BY <1>1, <1>3, <1>4, FS_Injection
<1>. QED
  BY <1>1, <1>2, <1>5 DEF Surjection, Enumerates, f

(* Retained keeps the order of what it keeps.                                *)
LEMMA RetainedFacts ==
    ASSUME NEW T, NEW s \in Seq(T), NEW S \in SUBSET DOMAIN s
    PROVE  /\ Retained(s, S) \in Seq(T)
           /\ \E f : /\ Enumerates(f, S)
                     /\ Retained(s, S) = [i \in 1..Cardinality(S) |-> s[f[i]]]
           /\ Cardinality(S) \in Nat
<1>1. S \in SUBSET (1..Len(s)) /\ Len(s) \in Nat
  OBVIOUS
<1>2. Cardinality(S) \in Nat /\ Enumerates(Ascending(S), S)
  BY <1>1, AscendingFacts
<1>3. Retained(s, S) = [i \in 1..Cardinality(S) |-> s[Ascending(S)[i]]]
  BY DEF Retained
<1>4. \A i \in 1..Cardinality(S) : s[Ascending(S)[i]] \in T
  BY <1>1, <1>2 DEF Enumerates
<1>. QED
  BY <1>2, <1>3, <1>4

(* The least and the greatest, as the models pick them.                      *)
LEMMA MinFacts ==
    ASSUME NEW S, S \subseteq Nat, S # {}
    PROVE  Min(S) \in S /\ \A x \in S : Min(S) <= x
<1>. PICK n \in S : TRUE
  OBVIOUS
<1>. DEFINE U == S \cap (0..n)
<1>1. IsFiniteSet(U) /\ U \subseteq Nat /\ U # {}
  <2>1. IsFiniteSet(0..n)
    BY FS_Interval
  <2>. QED
    BY <2>1, FS_Subset
<1>2. PICK m \in U : \A x \in U : m <= x
  BY <1>1, FirstAndLast
<1>3. \A x \in S : m <= x
  BY <1>2
<1>. QED
  BY <1>2, <1>3 DEF Min

\* The smaller of two numbers, as the library defines it.
LEMMA MinOfTwo ==
    ASSUME NEW a \in Nat, NEW b \in Nat
    PROVE  Min({a, b}) = IF a <= b THEN a ELSE b
<1>1. Min({a, b}) \in {a, b} /\ \A x \in {a, b} : Min({a, b}) <= x
  <2>1. {a, b} \subseteq Nat /\ {a, b} # {}
    OBVIOUS
  <2>. QED
    BY <2>1, MinFacts
<1>. QED
  BY <1>1

-------------------------------------------------------------------------------
(* The inductive invariant                                                   *)

\* The types of what the state is made of.
Boots == Nat \ {0}
PipeEnd == [data : Line, open : BOOLEAN, wrote : Nat, lost : Nat]
Message == [unit : Units, gen : Boots]
Source == [unit : Units, gen : Boots, partial : Line]
Output == [unit : Units, line : Line]
Connection == [client : BOOLEAN, server : BOOLEAN, reset : BOOLEAN, queue : Seq(Message)]
Move == [from : 0..Keep, to : 0..Keep]
Files == UNION {[D -> Seq(Line)] : D \in SUBSET (0..Keep)}
Sinks == UNION {[U -> Nat] : U \in SUBSET Units}
Process == [pc : {"down", "poll", "drain", "leave"}, conn : Conns \cup {None},
            sources : Seq(Source), ready : SUBSET Nat, closed : SUBSET Nat,
            lines : Seq(Output), moves : Seq(Move), sinks : Sinks]

\* The types of the state.
Types ==
    /\ pipes \in [Units -> Seq(PipeEnd)]
    /\ held \in [Units -> Nat]
    /\ conns \in [Conns -> Connection]
    /\ backlog \in Seq(Conns)
    /\ shipper \in Conns \cup {None}
    /\ writer \in [Writers -> Process]
    /\ disk \in [Units -> Files]
    /\ recorded \in [Units -> Seq(Seq(Piece))]
    /\ sent \in [Units -> Nat]
    /\ crashes \in Nat
    /\ odd \in {"none", "second writer", "registration", "record"}

\* A log writer runs.
Up(w) == writer[w].pc # "down"

\* What a log writer was sent and has not received.
Queue(w) == IF Up(w) THEN conns[writer[w].conn].queue ELSE <<>>

\* Nothing read, nothing to read, nothing open.
Idle(w) ==
    /\ writer[w].sources = <<>>
    /\ writer[w].lines = <<>>
    /\ writer[w].moves = <<>>
    /\ DOMAIN writer[w].sinks = {}
    /\ Queue(w) = <<>>

(* Connections: each has one writer, the one in service is the shipper's, so *)
(* that only one writer at a time is not idle.                               *)
Linked ==
    /\ \A w \in Writers :
          IF Up(w) THEN writer[w].conn \in Conns /\ conns[writer[w].conn].client
          ELSE writer[w] = Down
    /\ \A v, w \in Writers : Up(v) /\ Up(w) /\ v # w => writer[v].conn # writer[w].conn
    /\ \A i \in DOMAIN backlog :
          /\ backlog[i] # shipper
          /\ conns[backlog[i]].server
          /\ conns[backlog[i]].queue = <<>>
    /\ \A i, j \in DOMAIN backlog : i # j => backlog[i] # backlog[j]
    /\ shipper # None => conns[shipper].server
    /\ \A w \in Writers : Up(w) /\ (\E i \in DOMAIN backlog : backlog[i] = writer[w].conn) => Idle(w)
    /\ \A w \in Writers : Idle(w) \/ writer[w].conn = shipper \/ odd = "registration"
    /\ odd # "second writer" => \A w \in Writers \ {Oxlogd} : ~Up(w)

(* Messages: about starts that were, each unit's in their order.             *)
Offers ==
    /\ \A u \in Units : held[u] = Len(pipes[u]) /\ held[u] <= MaxGens
    /\ \A c \in Conns :
         /\ Len(conns[c].queue) <= QueueMax
         /\ \A i \in DOMAIN conns[c].queue :
               conns[c].queue[i].gen <= Len(pipes[conns[c].queue[i].unit])
         /\ \A i, j \in DOMAIN conns[c].queue :
               i < j /\ conns[c].queue[i].unit = conns[c].queue[j].unit =>
                  conns[c].queue[i].gen < conns[c].queue[j].gen

(* Sources: in the order of their starts, and closed only at their end, as    *)
(* what was readable stays so until it is read.                              *)
Reads(w) ==
    LET sources == writer[w].sources
    IN /\ writer[w].ready \subseteq {0} \cup DOMAIN sources
       /\ writer[w].closed \subseteq DOMAIN sources \ writer[w].ready
       /\ \A n \in DOMAIN sources :
             /\ sources[n].gen <= Len(pipes[sources[n].unit])
             /\ Len(sources[n].partial) < MaxLine
             /\ n \in writer[w].ready => Pipe(sources[n]).data # <<>> \/ ~Pipe(sources[n]).open
             /\ n \in writer[w].closed =>
                   sources[n].partial = <<>> /\ Pipe(sources[n]).data = <<>>
                      /\ ~Pipe(sources[n]).open
       /\ \A n, m \in DOMAIN sources :
             n < m /\ sources[n].unit = sources[m].unit => sources[n].gen < sources[m].gen
       /\ \A n \in DOMAIN sources, i \in DOMAIN Queue(w) :
             sources[n].unit = Queue(w)[i].unit => sources[n].gen < Queue(w)[i].gen
       /\ writer[w].pc = "poll" =>
             writer[w].ready = {} /\ writer[w].closed = {} /\ writer[w].lines = <<>>
       /\ writer[w].pc = "leave" => \A n \in DOMAIN sources : sources[n].partial = <<>>
       /\ writer[w].moves # <<>> => writer[w].lines # <<>>

(* Turns of serve: the pipe of an earlier start was read to its end before   *)
(* the next start's is a source, and is closed before that one is drained.   *)
Turns(w) ==
    LET sources == writer[w].sources
        queue == Queue(w)
        drains == writer[w].pc = "drain"
    IN /\ drains /\ 0 \in writer[w].ready =>
             queue # <<>> \/ ~conns[writer[w].conn].server
       /\ \A n, m \in DOMAIN sources :
             sources[n].unit = sources[m].unit /\ sources[n].unit \notin overlapped /\ n < m =>
                /\ Pipe(sources[n]).data = <<>>
                /\ drains => n \in writer[w].ready \cup writer[w].closed
       /\ drains /\ 0 \in writer[w].ready /\ queue # <<>> /\ queue[1].unit \notin overlapped =>
             \A n \in DOMAIN sources : sources[n].unit = queue[1].unit =>
                n \in writer[w].ready \/ Pipe(sources[n]).data = <<>>

(* One read is enough for what an earlier start left in its pipe, and nobody *)
(* adds to it.                                                               *)
Brief ==
    \A u \in Units \ overlapped : \A g \in DOMAIN pipes[u] :
        g < Len(pipes[u]) => ~pipes[u][g].open /\ Len(pipes[u][g].data) <= ReadSize

(* A pipe holds what fits into it, and only that of a start that was         *)
(* replaced was ever destroyed.                                              *)
Capped ==
    \A u \in Units : \A g \in DOMAIN pipes[u] :
        /\ Len(pipes[u][g].data) <= PipeSize
        /\ pipes[u][g].lost <= PipeSize
        /\ pipes[u][g].lost # 0 =>
              pipes[u][g].data = <<>> /\ ~pipes[u][g].open /\ g < Len(pipes[u])

(* Places: of two pieces of a unit, the one further on was written later by  *)
(* the same start, or by a later start as long as one read was enough.       *)
Calm(u) == u \notin overlapped

Follows(calm, p, q) ==
    /\ p.gen = q.gen /\ p.gen # 0 => p.n < q.n
    /\ calm => p.gen <= q.gen

\* Every piece of B follows every piece of A.
Follow(calm, A, B) == \A p \in A, q \in B : Follows(calm, p, q)

\* Within the lines and from line to line, each piece follows the one before.
Ordered(calm, lines) ==
    \A i, j \in DOMAIN lines : \A k \in DOMAIN lines[i], l \in DOMAIN lines[j] :
        Precedes(i, k, j, l) => Follows(calm, lines[i][k], lines[j][l])

\* Of each start, what is in A was written before what is in B.
Below(A, B) == \A p \in A, q \in B : p.gen = q.gen => p.n < q.n

\* The pieces in A were written, and by a start that was.
Known(u, A) == \A p \in A : p.n <= sent[u] /\ p.gen <= Len(pipes[u])

\* The lines of a unit a log writer has yet to record.
Pending(u, w) == PendingOf(u, writer[w].lines)

\* What of a unit left the sources of a log writer.
Out(u, w) == Pieces(recorded[u]) \cup Pieces(Pending(u, w))

\* A pipe holds what its start wrote, in order.
Piped ==
    \A u \in Units : \A g \in DOMAIN pipes[u] :
        /\ \A p \in Range(pipes[u][g].data) : p.gen = g /\ p.n <= sent[u]
        /\ Rising(pipes[u][g].data)

\* The record is in order, and before anything that is still in a pipe.
Filed(u) ==
    /\ Ordered(Calm(u), recorded[u])
    /\ Known(u, Pieces(recorded[u]))
    /\ \A g \in DOMAIN pipes[u] : Below(Pieces(recorded[u]), Range(pipes[u][g].data))

\* So are the lines to be recorded, and they follow the record.
Taken(u, w) ==
    /\ Ordered(Calm(u), Pending(u, w))
    /\ Follow(Calm(u), Pieces(recorded[u]), Pieces(Pending(u, w)))
    /\ Known(u, Pieces(Pending(u, w)))
    /\ \A g \in DOMAIN pipes[u] : Below(Pieces(Pending(u, w)), Range(pipes[u][g].data))

\* A partial line is its start's, after all that left and before its pipe.
Begun(u, w, n) ==
    LET source == writer[w].sources[n]
    IN  /\ Rising(source.partial)
        /\ \A p \in Range(source.partial) : p.gen = source.gen /\ p.n <= sent[u]
        /\ Below(Out(u, w), Range(source.partial))
        /\ Above(Range(source.partial), Range(Pipe(source).data))
        /\ Calm(u) /\ n \notin writer[w].closed /\ writer[w].pc # "leave" =>
              \A p \in Out(u, w) : p.gen <= source.gen

\* Nothing that left is from a later start than those on offer.
Due(u, w) ==
    Calm(u) =>
        \A i \in DOMAIN Queue(w) : Queue(w)[i].unit = u =>
            \A p \in Out(u, w) : p.gen <= Queue(w)[i].gen

Places(u, w) ==
    /\ Taken(u, w)
    /\ \A n \in DOMAIN writer[w].sources : writer[w].sources[n].unit = u => Begun(u, w, n)
    /\ Due(u, w)

(* Counts: what a start wrote is somewhere, but for what was destroyed with  *)
(* its pipe or lost in a log writer, and that never holds more of it than    *)
(* one read and one line.                                                    *)
PartsOf(u, g, lines, sources) ==
    {p \in Pieces(PendingOf(u, lines)) \cup Pieces(PartialOf(u, g, sources)) : p.gen = g}

\* What of a start a log writer holds.
Parts(u, g, w) == PartsOf(u, g, writer[w].lines, writer[w].sources)

\* What of a start is in the record or in its pipe.
Stock(u, g) == {p \in Pieces(recorded[u]) \cup Range(pipes[u][g].data) : p.gen = g}

\* All there is of a start.
Present(u, g) == Stock(u, g) \cup UNION {Parts(u, g, w) : w \in Writers}

\* How often a log writer died or failed to record.
Mishaps == crashes + (IF odd = "record" THEN 1 ELSE 0)

\* The most a log writer may hold of one start.
Share == ReadSize + MaxLine - 1

Count(u, g) ==
    /\ IsFiniteSet(Present(u, g))
    /\ Cardinality(Present(u, g)) <= pipes[u][g].wrote
    /\ pipes[u][g].wrote <= Cardinality(Present(u, g)) + pipes[u][g].lost + Mishaps * Share
    /\ \A w \in Writers : Cardinality(Parts(u, g, w)) <= Share

Counted == \A u \in Units : \A g \in DOMAIN pipes[u] : Count(u, g)

(* Files: generation n holds what was recorded between ends[n + 1] and       *)
(* ends[n], and until a crash nothing is rotated away before all are there.  *)
Rotating(w, u) == writer[w].moves # <<>> /\ writer[w].lines[1].unit = u

\* The files are the pieces of the record between the ends, newest first.
CutAt(record, files, ends) ==
    /\ ends[0] = Len(record)
    /\ \A n \in 0..Keep :
         /\ ends[n + 1] <= ends[n]
         /\ n \in DOMAIN files => files[n] = SubSeq(record, ends[n + 1] + 1, ends[n])
         /\ n \notin DOMAIN files => ends[n + 1] = ends[n]

Less(a, b) == IF a < b THEN a ELSE b

\* Which files there are, when none is being moved and with k moves to go.
Settled(places, m) == places = 0..m \/ places = 1..m

\* With k moves to go there is a gap at k, and all above it has moved.
Halfway(places, m, k) == places = (0..Less(m, k - 1)) \cup ((k + 1)..Less(m + 1, Keep))

\* The files of a unit, by whether a log writer is at work on them.
There(u, m) ==
    /\ (\A w \in Writers : ~Rotating(w, u)) => Settled(DOMAIN disk[u], m)
    /\ \A w \in Writers : Rotating(w, u) => Halfway(DOMAIN disk[u], m, Len(writer[w].moves))

Marks == [0..(Keep + 1) -> Nat]

\* The files are pieces of the record; none is missing before a death.
Stored(u) ==
    \E ends \in Marks :
        /\ CutAt(recorded[u], disk[u], ends)
        /\ crashes = 0 => \E m \in 0..Keep : (ends[Keep + 1] = 0 \/ m = Keep) /\ There(u, m)

\* What is left of a rotation is the end of its plan.
Rotates(w) ==
    writer[w].moves # <<>> =>
        \E k \in 1..(Keep + 1) :
           /\ writer[w].moves = SubSeq(Plan, k, Keep + 1)
           /\ k >= 2 => Keep + 2 - k \notin DOMAIN disk[writer[w].lines[1].unit]

\* A size remembered is that of the live file.
Sunk(w) ==
    \A u \in DOMAIN writer[w].sinks : ~Rotating(w, u) =>
        0 \in DOMAIN disk[u] /\ writer[w].sinks[u] = FileSize(disk[u][0])

\* No file is too large but for a single record.
Sized ==
    \A u \in Units : \A n \in DOMAIN disk[u] :
        FileSize(disk[u][n]) <= MaxSize \/ Len(disk[u][n]) <= 1

-------------------------------------------------------------------------------
(* What the end of a read end does to pipes                                  *)

\* Every pipe is as it was or was destroyed, the latest start's is as it was.
Narrowed ==
    \A u \in Units :
        /\ Len(pipes'[u]) = Len(pipes[u]) /\ DOMAIN pipes'[u] = DOMAIN pipes[u]
        /\ \A g \in DOMAIN pipes[u] :
              /\ pipes'[u][g] = pipes[u][g] \/ pipes'[u][g] = Destroyed(pipes[u][g])
              /\ g = Len(pipes[u]) => pipes'[u][g] = pipes[u][g]

\* A pipe destroyed is empty, has no writer and remembers what it held.
LEMMA DestroyedFacts ==
    ASSUME NEW p \in PipeEnd
    PROVE  /\ Destroyed(p) \in PipeEnd
           /\ Destroyed(p).data = <<>> /\ ~Destroyed(p).open
           /\ Destroyed(p).wrote = p.wrote /\ Destroyed(p).lost = p.lost + Len(p.data)
<1>. DEFINE more == p.lost + Len(p.data)
            q == [p EXCEPT !.data = <<>>, !.open = FALSE, !.lost = more]
<1>1. more \in Nat /\ <<>> \in Line
  BY DEF PipeEnd, Line
<1>2. Destroyed(p) = q
  BY DEF Destroyed, PipeEnd
<1>. HIDE DEF more
<1>3. q \in PipeEnd /\ q.data = <<>> /\ q.open = FALSE /\ q.wrote = p.wrote /\ q.lost = more
  BY <1>1 DEF PipeEnd
<1>. QED
  BY <1>2, <1>3 DEF more

\* The pipes of a unit after read ends were closed; PID 1 has the latest start's.
LEMMA SweptFacts ==
    ASSUME Types, NEW u \in Units
    PROVE  /\ Swept(u) \in Seq(PipeEnd)
           /\ Len(Swept(u)) = Len(pipes[u]) /\ DOMAIN Swept(u) = DOMAIN pipes[u]
           /\ \A g \in DOMAIN pipes[u] :
                 /\ Swept(u)[g] = pipes[u][g] \/ Swept(u)[g] = Destroyed(pipes[u][g])
                 /\ held'[u] = g => Swept(u)[g] = pipes[u][g]
<1>. DEFINE n == Len(pipes[u])
<1>1. pipes[u] \in Seq(PipeEnd)
  BY DEF Types
<1>2. n \in Nat /\ DOMAIN pipes[u] = 1..n /\ \A g \in 1..n : pipes[u][g] \in PipeEnd
  BY <1>1
<1>. HIDE DEF n
<1>3. /\ DOMAIN Swept(u) = 1..n
      /\ \A g \in 1..n : Swept(u)[g] = IF HasReader(u, g)' THEN pipes[u][g]
                                        ELSE Destroyed(pipes[u][g])
  BY <1>2 DEF Swept
<1>4. \A g \in 1..n : held'[u] = g => HasReader(u, g)'
  BY DEF HasReader
<1>5. \A g \in 1..n : Destroyed(pipes[u][g]) \in PipeEnd
  BY <1>2, DestroyedFacts
<1>6. \A g \in 1..n : Swept(u)[g] \in PipeEnd
  BY <1>2, <1>3, <1>5
<1>7. Swept(u) = [g \in 1..n |-> Swept(u)[g]]
  BY <1>2 DEF Swept
<1>. DEFINE s == Swept(u)
<1>8. s = [g \in 1..n |-> s[g]] /\ \A g \in 1..n : s[g] \in PipeEnd
  BY <1>6, <1>7
<1>. HIDE DEF s
<1>9. s \in Seq(PipeEnd) /\ Len(s) = n
  BY <1>2, <1>8
<1>. QED
  BY <1>2, <1>3, <1>4, <1>9 DEF s, n

\* A log writer's end closes its read ends, and PID 1 keeps its own.
LEMMA EndedPipes ==
    ASSUME Types, Offers, NEW w \in Writers, Ended(w), held' = held
    PROVE  pipes' \in [Units -> Seq(PipeEnd)] /\ Narrowed
<1>1. pipes' = [u \in Units |-> Swept(u)]
  BY DEF Ended
<1>2. \A u \in Units : held'[u] = Len(pipes[u])
  BY DEF Offers
<1>3. \A u \in Units : pipes'[u] = Swept(u)
  BY <1>1
<1>. QED
  BY <1>1, <1>2, <1>3, SweptFacts DEF Narrowed

-------------------------------------------------------------------------------
(* What each step of a log writer does to its process                        *)

\* Only one log writer changes.
Others(w) == \A v \in Writers \ {w} : writer'[v] = writer[v]

\* What is assumed of the constants.
LEMMA Constants ==
    /\ MaxLine \in Nat \ {0} /\ MaxSize \in Nat /\ Keep \in Nat
    /\ Oxlogd \in Writers
    /\ ReadSize \in Nat \ {0} /\ PipeSize \in Nat \ {0} /\ QueueMax \in Nat \ {0}
    /\ None \notin Conns
    /\ MaxGens \in Nat
  BY LogFilesAssumption, LogShippingAssumption DEF None

\* A log writer that does not run has nothing.
LEMMA DownIsIdle ==
    /\ Down \in Process
    /\ Down.pc = "down" /\ Down.sources = <<>> /\ Down.lines = <<>> /\ Down.moves = <<>>
    /\ DOMAIN Down.sinks = {} /\ Down.ready = {} /\ Down.closed = {}
<1>1. <<>> \in Sinks
  <2>1. <<>> \in [{} -> Nat]
    OBVIOUS
  <2>. QED
    BY <2>1 DEF Sinks
<1>. QED
  BY <1>1 DEF Down, Process, None

\* poll: which descriptors are readable, and nothing else.
LEMMA PollEffect ==
    ASSUME Types, NEW w \in Writers, Poll(w)
    PROVE  /\ writer' \in [Writers -> Process] /\ Others(w)
           /\ writer[w].pc = "poll" /\ Readable(w) # {}
           /\ writer'[w].pc = "drain" /\ writer'[w].ready = Readable(w)
           /\ writer'[w].conn = writer[w].conn
           /\ writer'[w].sources = writer[w].sources
           /\ writer'[w].closed = writer[w].closed
           /\ writer'[w].lines = writer[w].lines
           /\ writer'[w].moves = writer[w].moves
           /\ writer'[w].sinks = writer[w].sinks
<1>1. Readable(w) \in SUBSET Nat
  <2>1. Readable(w) \subseteq DOMAIN writer[w].sources \cup {0}
    BY DEF Readable
  <2>2. writer[w].sources \in Seq(Source)
    BY DEF Types, Process
  <2>3. DOMAIN writer[w].sources \subseteq Nat
    BY <2>2
  <2>. QED
    BY <2>1, <2>3
<1>2. writer[w] \in Process
  BY DEF Types
<1>3. [writer[w] EXCEPT !.pc = "drain", !.ready = Readable(w)] \in Process
  BY <1>1, <1>2 DEF Process
<1>4. writer' = [writer EXCEPT ![w] = [writer[w] EXCEPT !.pc = "drain", !.ready = Readable(w)]]
  BY DEF Poll, Types
<1>5. writer'[w] = [writer[w] EXCEPT !.pc = "drain", !.ready = Readable(w)]
  BY <1>4 DEF Types
<1>6. writer' \in [Writers -> Process] /\ Others(w)
  BY <1>3, <1>4 DEF Types, Others
<1>. QED
  BY <1>2, <1>5, <1>6 DEF Process, Poll

\* The end of a process: its socket closes, what it held is gone.
LEMMA EndedEffect ==
    ASSUME Types, Linked, NEW w \in Writers, Up(w), Ended(w)
    PROVE  /\ writer' \in [Writers -> Process] /\ Others(w) /\ writer'[w] = Down
           /\ conns' \in [Conns -> Connection]
           /\ \A c \in Conns \ {writer[w].conn} : conns'[c] = conns[c]
           /\ conns'[writer[w].conn].client = FALSE
           /\ conns'[writer[w].conn].queue = <<>>
           /\ conns'[writer[w].conn].server = conns[writer[w].conn].server
<1>. DEFINE c == writer[w].conn
            gone == [conns[c] EXCEPT !.client = FALSE, !.queue = <<>>,
                                     !.reset = conns[c].queue # <<>>]
<1>1. c \in Conns /\ conns[c] \in Connection
  BY DEF Linked, Types
<1>2. gone \in Connection /\ gone.client = FALSE /\ gone.queue = <<>>
      /\ gone.server = conns[c].server /\ gone.server \in BOOLEAN
  <2>. DEFINE r == conns[c].queue # <<>>
              g == [conns[c] EXCEPT !.client = FALSE, !.queue = <<>>, !.reset = r]
  <2>1. r \in BOOLEAN /\ <<>> \in Seq(Message)
    OBVIOUS
  <2>2. gone = g
    OBVIOUS
  <2>. HIDE DEF r, gone
  <2>3. g \in Connection /\ g.client = FALSE /\ g.queue = <<>> /\ g.server = conns[c].server
    BY <1>1, <2>1 DEF Connection
  <2>4. conns[c].server \in BOOLEAN
    BY <1>1 DEF Connection
  <2>. HIDE DEF g
  <2>. QED
    BY <2>2, <2>3, <2>4
<1>3. Free \in Connection /\ Free.client = FALSE /\ Free.queue = <<>> /\ Free.server = FALSE
  BY DEF Free, Connection
<1>4. writer' = [writer EXCEPT ![w] = Down]
      /\ conns' = [conns EXCEPT ![c] = IF gone.server THEN gone ELSE Free]
  BY DEF Ended
<1>. HIDE DEF gone, c
<1>5. writer' \in [Writers -> Process] /\ Others(w) /\ writer'[w] = Down
  BY <1>4, DownIsIdle DEF Types, Others
<1>6. conns' \in [Conns -> Connection]
  BY <1>1, <1>2, <1>3, <1>4 DEF Types
<1>7. (\A d \in Conns \ {c} : conns'[d] = conns[d])
      /\ conns'[c] = IF gone.server THEN gone ELSE Free
  BY <1>1, <1>4 DEF Types
<1>. QED
  BY <1>2, <1>3, <1>5, <1>6, <1>7 DEF c

\* connect: a free connection, on its way to be accepted.
LEMMA ConnectEffect ==
    ASSUME Types, Linked, NEW w \in Writers, Connect(w)
    PROVE  \E c \in Conns :
           /\ conns[c] = Free /\ writer[w] = Down /\ ~Up(w)
           /\ writer' \in [Writers -> Process] /\ Others(w)
           /\ writer'[w] = [Down EXCEPT !.pc = "poll", !.conn = c]
           /\ conns' \in [Conns -> Connection]
           /\ \A d \in Conns \ {c} : conns'[d] = conns[d]
           /\ conns'[c].client /\ conns'[c].server /\ conns'[c].queue = <<>>
           /\ backlog' = Append(backlog, c)
           /\ w # Oxlogd => odd = "none" /\ odd' = "second writer"
           /\ w = Oxlogd => odd' = odd
<1>. DEFINE c == CHOOSE c \in Conns : conns[c] = Free
<1>1. c \in Conns /\ conns[c] = Free
  BY DEF Connect
<1>2. writer[w] = Down /\ ~Up(w)
  BY DEF Connect, Linked, Up
<1>3. /\ conns' = [conns EXCEPT ![c].client = TRUE, ![c].server = TRUE]
      /\ backlog' = Append(backlog, c)
      /\ writer' = [writer EXCEPT ![w].pc = "poll", ![w].conn = c]
      /\ w # Oxlogd => odd = "none" /\ odd' = "second writer"
      /\ w = Oxlogd => odd' = odd
  BY DEF Connect
<1>. HIDE DEF c
<1>4. conns[c] \in Connection /\ Down \in Process
  BY <1>1, DownIsIdle DEF Types
<1>5. conns'[c] = [conns[c] EXCEPT !.client = TRUE, !.server = TRUE]
      /\ conns'[c] \in Connection
  BY <1>1, <1>3, <1>4 DEF Types, Connection
<1>6. conns'[c].client /\ conns'[c].server /\ conns'[c].queue = <<>>
  BY <1>1, <1>4, <1>5 DEF Connection, Free
<1>7. [Down EXCEPT !.pc = "poll", !.conn = c] \in Process
  BY <1>1, <1>4 DEF Process
<1>8. writer'[w] = [Down EXCEPT !.pc = "poll", !.conn = c] /\ Others(w)
  BY <1>2, <1>3 DEF Types, Others
<1>9. writer' \in [Writers -> Process]
  BY <1>3, <1>7, <1>8 DEF Types, Others
<1>10. conns' \in [Conns -> Connection] /\ \A d \in Conns \ {c} : conns'[d] = conns[d]
  BY <1>1, <1>3, <1>5 DEF Types
<1>. QED
  BY <1>1, <1>2, <1>3, <1>6, <1>8, <1>9, <1>10

(* What a read leaves and takes.                                             *)
LEMMA ReadInTwo ==
    ASSUME NEW data \in Line, NEW size \in 0..Len(data), Rising(data)
    PROVE  /\ SubSeq(data, 1, size) \in Line /\ SubSeq(data, size + 1, Len(data)) \in Line
           /\ Len(SubSeq(data, 1, size)) = size
           /\ Len(SubSeq(data, size + 1, Len(data))) = Len(data) - size
           /\ Rising(SubSeq(data, 1, size)) /\ Rising(SubSeq(data, size + 1, Len(data)))
           /\ Range(data) = Range(SubSeq(data, 1, size)) \cup Range(SubSeq(data, size + 1, Len(data)))
           /\ Above(Range(SubSeq(data, 1, size)), Range(SubSeq(data, size + 1, Len(data))))
<1>. DEFINE N == Len(data)
            a == SubSeq(data, 1, size)
            b == SubSeq(data, size + 1, N)
<1>1. /\ N \in Nat /\ size \in Nat /\ size <= N /\ DOMAIN data = 1..N
      /\ \A i \in 1..N : data[i] \in Piece /\ data[i].n \in Nat
  <2>1. data \in Seq(Piece)
    BY DEF Line
  <2>2. \A i \in 1..N : data[i] \in Piece
    BY <2>1
  <2>. QED
    BY <2>1, <2>2 DEF Piece
<1>2. /\ a \in Line /\ Len(a) = size /\ DOMAIN a = 1..size
      /\ \A i \in 1..size : a[i] = data[i]
  BY <1>1 DEF Line
<1>3. /\ b \in Line /\ Len(b) = N - size /\ DOMAIN b = 1..(N - size)
      /\ \A i \in 1..(N - size) : b[i] = data[i + size]
  <2>1. data \in Seq(Piece) /\ size + 1 \in Nat /\ size + 1 >= 1
    BY <1>1 DEF Line
  <2>. HIDE DEF N
  <2>2. b \in Seq(Piece)
    BY <1>1, <2>1
  <2>3. Len(b) = N - size /\ DOMAIN b = 1..(N - size)
    BY <1>1, <2>1, <2>2
  <2>4. \A i \in 1..(N - size) : b[i] = data[i + size]
    BY <1>1, <2>1, <2>2, <2>3
  <2>. QED
    BY <2>2, <2>3, <2>4 DEF Line
<1>. HIDE DEF a, b, N
<1>4. Rising(a) /\ Rising(b)
  <2>1. \A i, j \in 1..N : i < j => data[i].n < data[j].n
    BY <1>1 DEF Rising
  <2>2. Rising(a)
    BY <1>1, <1>2, <2>1 DEF Rising
  <2>3. ASSUME NEW i \in 1..(N - size), NEW j \in 1..(N - size), i < j PROVE b[i].n < b[j].n
    <3>1. i + size \in 1..N /\ j + size \in 1..N /\ i + size < j + size
      BY <1>1, <2>3
    <3>2. b[i] = data[i + size] /\ b[j] = data[j + size]
      BY <1>3
    <3>. QED
      BY <2>1, <3>1, <3>2
  <2>. QED
    BY <1>3, <2>2, <2>3 DEF Rising
<1>5. \A x \in Range(a) : \E i \in 1..size : x = data[i]
  BY <1>2 DEF Range
<1>6. \A x \in Range(b) : \E i \in (size + 1)..N : x = data[i]
  <2>1. ASSUME NEW x \in Range(b) PROVE \E i \in (size + 1)..N : x = data[i]
    <3>1. PICK j \in 1..(N - size) : x = b[j]
      BY <1>3 DEF Range
    <3>2. j + size \in (size + 1)..N /\ x = data[j + size]
      BY <1>1, <1>3, <3>1
    <3>. QED
      BY <3>2
  <2>. QED
    BY <2>1
<1>7. Above(Range(a), Range(b))
  <2>1. ASSUME NEW x \in Range(a), NEW y \in Range(b) PROVE x.n < y.n
    <3>1. PICK i \in 1..size : x = data[i]
      BY <1>5
    <3>2. PICK j \in (size + 1)..N : y = data[j]
      BY <1>6
    <3>. QED
      BY <1>1, <3>1, <3>2 DEF Rising
  <2>. QED
    BY <2>1 DEF Above
<1>8. \A i \in 1..N : data[i] \in Range(a) \cup Range(b)
  <2>1. ASSUME NEW i \in 1..N PROVE data[i] \in Range(a) \cup Range(b)
    <3>1. CASE i <= size
      <4>1. i \in DOMAIN a /\ a[i] = data[i]
        BY <1>1, <1>2, <3>1
      <4>. QED
        BY <4>1 DEF Range
    <3>2. CASE i > size
      <4>1. i - size \in DOMAIN b /\ b[i - size] = data[i]
        BY <1>1, <1>3, <3>2
      <4>. QED
        BY <4>1 DEF Range
    <3>. QED
      BY <1>1, <3>1, <3>2
  <2>. QED
    BY <2>1
<1>9. Range(data) = Range(a) \cup Range(b)
  <2>1. \A x \in Range(data) : \E i \in 1..N : x = data[i]
    BY <1>1 DEF Range
  <2>2. \A i \in 1..N : data[i] \in Range(data)
    BY <1>1 DEF Range
  <2>3. \A x \in Range(data) : x \in Range(a) \cup Range(b)
    BY <1>8, <2>1
  <2>4. \A i \in 1..size : i \in 1..N
    BY <1>1
  <2>5. \A i \in (size + 1)..N : i \in 1..N
    BY <1>1
  <2>6. \A x \in Range(a) \cup Range(b) : x \in Range(data)
    BY <1>5, <1>6, <2>2, <2>4, <2>5
  <2>. QED
    BY <2>3, <2>6
<1>. QED
  BY <1>2, <1>3, <1>4, <1>7, <1>9 DEF a, b, N

(* drain: what a read takes out of the pipe is in the lines it completed or  *)
(* in the line it began.                                                     *)
LEMMA DrainedFacts ==
    ASSUME NEW source, source.partial \in Line, Len(source.partial) < MaxLine,
           Pipe(source).data \in Line,
           Rising(source.partial), Rising(Pipe(source).data),
           Above(Range(source.partial), Range(Pipe(source).data))
    PROVE  LET data == Pipe(source).data
               d == Drained(source)
           IN  /\ d.size \in 0..Len(data) /\ d.size <= ReadSize
               /\ Len(data) <= ReadSize => d.size = Len(data)
               /\ d.eof \in BOOLEAN /\ (d.eof <=> data = <<>>)
               /\ d.eof => d.partial = <<>>
               /\ d.lines \in Seq(Line) /\ d.partial \in Line /\ Len(d.partial) < MaxLine
               /\ Sorted(d)
               /\ Content(d) = Range(source.partial) \cup Range(SubSeq(data, 1, d.size))
<1>. DEFINE data == Pipe(source).data
            size == Min({ReadSize, Len(data)})
            chunk == SubSeq(data, 1, size)
<1>1. Len(data) \in Nat /\ ReadSize \in Nat \ {0} /\ (data = <<>> <=> Len(data) = 0)
  BY Constants DEF Line
<1>2. size = IF ReadSize <= Len(data) THEN ReadSize ELSE Len(data)
  BY <1>1, MinOfTwo
<1>3. size \in 0..Len(data) /\ size <= ReadSize /\ (size = 0 <=> data = <<>>)
      /\ (Len(data) <= ReadSize => size = Len(data))
  BY <1>1, <1>2
<1>4. CASE data = <<>>
  <2>1. Drained(source) = [size |-> 0, eof |-> TRUE, lines |-> Flush(source.partial), partial |-> <<>>]
    BY <1>3, <1>4 DEF Drained
  <2>2. SubSeq(data, 1, 0) = <<>>
    BY <1>4
  <2>3. Range(<<>>) = {} /\ <<>> \in Line /\ Len(<<>>) < MaxLine /\ Rising(<<>>)
    BY Constants DEF Range, Line, Rising
  <2>4. CASE source.partial = <<>>
    <3>1. Flush(source.partial) = <<>>
      BY <2>4 DEF Flush
    <3>2. Pieces(<<>>) = {} /\ AllRising(<<>>) /\ <<>> \in Seq(Line)
      BY DEF Pieces, AllRising
    <3>. QED
      <4>. DEFINE d == Drained(source)
      <4>1. d.size = 0 /\ d.eof = TRUE /\ d.lines = <<>> /\ d.partial = <<>>
        BY <2>1, <3>1
      <4>. HIDE DEF d
      <4>2. Sorted(d)
        BY <2>3, <3>2, <4>1 DEF Sorted, Above
      <4>3. Content(d) = {}
        BY <2>3, <3>2, <4>1 DEF Content
      <4>4. Range(source.partial) \cup Range(SubSeq(data, 1, d.size)) = Content(d)
        BY <2>2, <2>3, <2>4, <3>2, <4>1, <4>3
      <4>5. d.lines \in Seq(Line) /\ d.partial \in Line /\ Len(d.partial) < MaxLine
        BY <2>3, <3>2, <4>1
      <4>6. /\ d.size \in 0..Len(data) /\ d.size <= ReadSize
            /\ Len(data) <= ReadSize => d.size = Len(data)
        BY <1>1, <1>4, <4>1
      <4>7. d.eof \in BOOLEAN /\ (d.eof <=> data = <<>>) /\ (d.eof => d.partial = <<>>)
        BY <1>4, <4>1
      <4>. HIDE DEF data
      <4>. QED
        BY <4>2, <4>4, <4>5, <4>6, <4>7 DEF d, data
  <2>5. CASE source.partial # <<>>
    <3>. DEFINE l == <<source.partial>>
    <3>1. Flush(source.partial) = l
      BY <2>5 DEF Flush
    <3>2. l \in Seq(Line) /\ DOMAIN l = {1} /\ l[1] = source.partial
      OBVIOUS
    <3>. HIDE DEF l
    <3>3. Pieces(l) = Range(source.partial)
      BY <3>2 DEF Pieces
    <3>4. AllRising(l)
      BY <3>2 DEF AllRising, Rising, Precedes
    <3>. QED
      <4>. DEFINE d == Drained(source)
      <4>1. d.size = 0 /\ d.eof = TRUE /\ d.lines = l /\ d.partial = <<>>
        BY <2>1, <3>1
      <4>. HIDE DEF d
      <4>2. Sorted(d)
        BY <2>3, <3>4, <4>1 DEF Sorted, Above
      <4>3. Content(d) = Range(source.partial)
        BY <2>3, <3>3, <4>1 DEF Content
      <4>4. Range(source.partial) \cup Range(SubSeq(data, 1, d.size)) = Content(d)
        BY <2>2, <2>3, <3>2, <4>1, <4>3
      <4>5. d.lines \in Seq(Line) /\ d.partial \in Line /\ Len(d.partial) < MaxLine
        BY <2>3, <3>2, <4>1
      <4>6. /\ d.size \in 0..Len(data) /\ d.size <= ReadSize
            /\ Len(data) <= ReadSize => d.size = Len(data)
        BY <1>1, <1>4, <4>1
      <4>7. d.eof \in BOOLEAN /\ (d.eof <=> data = <<>>) /\ (d.eof => d.partial = <<>>)
        BY <1>4, <4>1
      <4>. HIDE DEF data
      <4>. QED
        BY <4>2, <4>4, <4>5, <4>6, <4>7 DEF d, data
  <2>. QED
    BY <2>4, <2>5
<1>5. CASE data # <<>>
  <2>. DEFINE p == Push(source.partial, chunk)
  <2>1. Drained(source) = [size |-> size, eof |-> FALSE, lines |-> p.lines, partial |-> p.partial]
    BY <1>3, <1>5 DEF Drained
  <2>2. chunk \in Line /\ Rising(chunk) /\ Range(chunk) \subseteq Range(data)
    <3>1. data \in Line /\ Rising(data)
      OBVIOUS
    <3>. HIDE DEF data, size
    <3>. QED
      BY <3>1, <1>3, ReadInTwo
  <2>3. Above(Range(source.partial), Range(chunk))
    BY <2>2 DEF Above
  <2>4. p \in Split /\ Sorted(p) /\ Content(p) = Range(source.partial) \cup Range(chunk)
        /\ Len(p.partial) < MaxLine
    <3>. HIDE DEF chunk, data
    <3>. QED
      BY <2>2, <2>3, PushFacts
  <2>5. p.lines \in Seq(Line) /\ p.partial \in Line
    BY <2>4 DEF Split
  <2>. DEFINE d == Drained(source)
  <2>6. d.size = size /\ d.eof = FALSE /\ d.lines = p.lines /\ d.partial = p.partial
    BY <2>1
  <2>. HIDE DEF p, d, data
  <2>7. Sorted(d) /\ Content(d) = Range(source.partial) \cup Range(SubSeq(data, 1, d.size))
    BY <2>4, <2>6 DEF Sorted, Content
  <2>. HIDE DEF size
  <2>8. QED
    BY <1>3, <1>5, <2>4, <2>5, <2>6, <2>7 DEF d, data
<1>. QED
  BY <1>4, <1>5

\* What a read of the n-th source by a log writer does.
Drains(w, n) ==
    LET s == writer[w].sources[n]
        t == writer'[w]
        d == Drained(s)
    IN  /\ writer[w].pc = "drain" /\ writer[w].lines = <<>>
        /\ n \in writer[w].ready /\ \A m \in writer[w].ready \ {0} : n <= m
        /\ s \in Source /\ s.gen \in DOMAIN pipes[s.unit] /\ Pipe(s) \in PipeEnd
        /\ writer' \in [Writers -> Process] /\ Others(w)
        /\ t.pc = "drain" /\ t.conn = writer[w].conn
        /\ t.moves = writer[w].moves /\ t.sinks = writer[w].sinks
        /\ t.sources = [writer[w].sources EXCEPT ![n].partial = d.partial]
        /\ t.lines = Lines(s.unit, d.lines)
        /\ t.closed = IF d.eof THEN writer[w].closed \cup {n} ELSE writer[w].closed
        /\ t.ready = writer[w].ready \ {n}
        /\ pipes' \in [Units -> Seq(PipeEnd)]
        /\ \A u \in Units : Len(pipes'[u]) = Len(pipes[u])
        /\ \A u \in Units : \A g \in DOMAIN pipes[u] :
              /\ pipes'[u][g].open = pipes[u][g].open
              /\ pipes'[u][g].wrote = pipes[u][g].wrote
              /\ pipes'[u][g].lost = pipes[u][g].lost
              /\ u # s.unit \/ g # s.gen => pipes'[u][g].data = pipes[u][g].data
        /\ pipes'[s.unit][s.gen].data = SubSeq(Pipe(s).data, d.size + 1, Len(Pipe(s).data))
        /\ Rising(s.partial) /\ Rising(Pipe(s).data)
        /\ Above(Range(s.partial), Range(Pipe(s).data))

\* drain: one read of the first readable source.
LEMMA DrainEffect ==
    ASSUME Types, Piped, NEW w \in Writers, Reads(w), Drain(w),
           \A u \in Units : Places(u, w)
    PROVE  \E n \in DOMAIN writer[w].sources : Drains(w, n)
<1>. DEFINE n == NextReady(writer[w].ready \ {0})
            s == writer[w].sources[n]
            d == Drained(s)
<1>1. writer[w] \in Process /\ writer[w].sources \in Seq(Source)
  BY DEF Types, Process
<1>2. n \in writer[w].ready \ {0} /\ \A m \in writer[w].ready \ {0} : n <= m
  <2>1. writer[w].ready \ {0} \subseteq Nat /\ writer[w].ready \ {0} # {}
    BY Zenon, <1>1 DEF Drain, Process
  <2>. QED
    BY <2>1, MinFacts DEF NextReady
<1>3. n \in DOMAIN writer[w].sources
  BY <1>2 DEF Reads
<1>4. s \in Source
  <2>. HIDE DEF n
  <2>. QED
    BY <1>1, <1>3
<1>5. s.unit \in Units /\ s.gen \in DOMAIN pipes[s.unit] /\ Pipe(s) \in PipeEnd
      /\ Pipe(s) = pipes[s.unit][s.gen]
  <2>1. s.unit \in Units /\ s.gen \in Boots
    BY <1>4 DEF Source
  <2>2. s.gen <= Len(pipes[s.unit]) /\ pipes[s.unit] \in Seq(PipeEnd)
    BY <1>3, <2>1 DEF Reads, Types
  <2>3. s.gen \in DOMAIN pipes[s.unit]
    BY <2>1, <2>2 DEF Boots
  <2>. HIDE DEF s
  <2>. QED
    BY <2>1, <2>2, <2>3 DEF Pipe
<1>6. Begun(s.unit, w, n)
  BY <1>3, <1>5 DEF Places
<1>7. Rising(s.partial) /\ Above(Range(s.partial), Range(Pipe(s).data))
  BY <1>6 DEF Begun
<1>8. Rising(Pipe(s).data)
  BY Zenon, <1>5 DEF Piped
<1>9. /\ d.size \in 0..Len(Pipe(s).data)
      /\ d.partial \in Line /\ d.lines \in Seq(Line)
  <2>1. s.partial \in Line /\ Len(s.partial) < MaxLine /\ Pipe(s).data \in Line
    BY Zenon, <1>3, <1>4, <1>5 DEF Source, PipeEnd, Reads
  <2>. HIDE DEF s
  <2>. QED
    BY <2>1, <1>7, <1>8, DrainedFacts
<1>10. Lines(s.unit, d.lines) \in Seq(Output)
  <2>. HIDE DEF s, d
  <2>1. \A i \in DOMAIN d.lines : [unit |-> s.unit, line |-> d.lines[i]] \in Output
    BY <1>5, <1>9 DEF Output
  <2>2. DOMAIN d.lines = 1..Len(d.lines) /\ Len(d.lines) \in Nat
    BY <1>9
  <2>. QED
    BY <2>1, <2>2 DEF Lines
<1>. DEFINE X == [writer[w] EXCEPT
                    !.sources[n].partial = d.partial,
                    !.lines = Lines(s.unit, d.lines),
                    !.closed = IF d.eof THEN @ \cup {n} ELSE @,
                    !.ready = @ \ {n}]
            closed == IF d.eof THEN writer[w].closed \cup {n} ELSE writer[w].closed
            sources == [writer[w].sources EXCEPT ![n].partial = d.partial]
            lines == Lines(s.unit, d.lines)
            rest == SubSeq(Pipe(s).data, d.size + 1, Len(Pipe(s).data))
<1>11. /\ writer' = [writer EXCEPT ![w] = X]
       /\ pipes' = [pipes EXCEPT ![s.unit][s.gen].data = rest]
       /\ writer[w].pc = "drain" /\ writer[w].lines = <<>>
  BY Zenon, <1>5 DEF Drain, Types
<1>12. closed \in SUBSET Nat /\ sources \in Seq(Source) /\ writer[w].ready \ {n} \in SUBSET Nat
       /\ rest \in Line
  <2>1. closed \in SUBSET Nat
    BY <1>1, <1>3 DEF Process
  <2>2. [s EXCEPT !.partial = d.partial] \in Source
    <3>. HIDE DEF s, d
    <3>. QED
      BY <1>4, <1>9 DEF Source
  <2>3. sources \in Seq(Source)
    <3>. HIDE DEF d
    <3>. QED
      BY <1>1, <1>3, <2>2
  <2>4. Pipe(s).data \in Line
    BY Zenon, <1>5 DEF PipeEnd
  <2>5. rest \in Line
    <3>. HIDE DEF s, d
    <3>. QED
      BY <1>9, <2>4 DEF Line
  <2>. QED
    BY <1>1, <2>1, <2>3, <2>5 DEF Process
<1>13. /\ X \in Process /\ X.pc = writer[w].pc /\ X.conn = writer[w].conn
       /\ X.moves = writer[w].moves /\ X.sinks = writer[w].sinks
       /\ X.sources = sources /\ X.lines = lines /\ X.closed = closed
       /\ X.ready = writer[w].ready \ {n}
  <2>1. X = [writer[w] EXCEPT !.sources = sources, !.lines = lines, !.closed = closed,
                              !.ready = writer[w].ready \ {n}]
    BY <1>1 DEF Process
  <2>. HIDE DEF X, sources, lines, closed, n
  <2>2. lines \in Seq(Output)
    BY <1>10 DEF lines
  <2>. QED
    BY <1>1, <1>12, <2>1, <2>2 DEF Process
<1>14. writer' \in [Writers -> Process] /\ Others(w) /\ writer'[w] = X
  <2>. HIDE DEF X
  <2>. QED
    BY Zenon, <1>11, <1>13 DEF Types, Others
<1>15. /\ pipes' \in [Units -> Seq(PipeEnd)]
       /\ \A u \in Units : Len(pipes'[u]) = Len(pipes[u])
       /\ \A u \in Units : \A g \in DOMAIN pipes[u] :
             /\ pipes'[u][g].open = pipes[u][g].open
             /\ pipes'[u][g].wrote = pipes[u][g].wrote
             /\ pipes'[u][g].lost = pipes[u][g].lost
             /\ u # s.unit \/ g # s.gen => pipes'[u][g].data = pipes[u][g].data
       /\ pipes'[s.unit][s.gen].data = rest
  <2>. HIDE DEF s, rest
  <2>1. pipes[s.unit] \in Seq(PipeEnd) /\ pipes[s.unit][s.gen] \in PipeEnd
    BY <1>5 DEF Types
  <2>2. [pipes[s.unit][s.gen] EXCEPT !.data = rest] \in PipeEnd
    BY <1>12, <2>1 DEF PipeEnd
  <2>. DEFINE P == [pipes[s.unit] EXCEPT ![s.gen] = [pipes[s.unit][s.gen] EXCEPT !.data = rest]]
  <2>3. pipes' = [pipes EXCEPT ![s.unit] = P]
    BY <1>11, <1>5 DEF Types
  <2>4. /\ P \in Seq(PipeEnd) /\ Len(P) = Len(pipes[s.unit])
        /\ \A g \in DOMAIN pipes[s.unit] :
              P[g] = IF g = s.gen THEN [pipes[s.unit][g] EXCEPT !.data = rest] ELSE pipes[s.unit][g]
    BY <1>5, <2>1, <2>2
  <2>. HIDE DEF P
  <2>5. pipes' \in [Units -> Seq(PipeEnd)]
        /\ \A u \in Units : pipes'[u] = IF u = s.unit THEN P ELSE pipes[u]
    BY <1>5, <2>3, <2>4 DEF Types
  <2>6. \A u \in Units : \A g \in DOMAIN pipes[u] : pipes[u][g] \in PipeEnd
    <3>1. \A u \in Units : pipes[u] \in Seq(PipeEnd)
      BY DEF Types
    <3>. QED
      BY <3>1
  <2>7. \A u \in Units : \A g \in DOMAIN pipes[u] :
           pipes'[u][g] = IF u = s.unit /\ g = s.gen THEN [pipes[u][g] EXCEPT !.data = rest]
                          ELSE pipes[u][g]
    BY <2>4, <2>5
  <2>8. \A u \in Units : Len(pipes'[u]) = Len(pipes[u])
    BY <2>4, <2>5
  <2>9. ASSUME NEW u \in Units, NEW g \in DOMAIN pipes[u]
        PROVE  /\ pipes'[u][g].open = pipes[u][g].open
               /\ pipes'[u][g].wrote = pipes[u][g].wrote
               /\ pipes'[u][g].lost = pipes[u][g].lost
               /\ pipes'[u][g].data = IF u = s.unit /\ g = s.gen THEN rest ELSE pipes[u][g].data
    <3>. DEFINE e == pipes[u][g]
                f == pipes'[u][g]
                mine == u = s.unit /\ g = s.gen
    <3>1. e \in PipeEnd /\ f = IF mine THEN [e EXCEPT !.data = rest] ELSE e
      BY <2>6, <2>7
    <3>. HIDE DEF e, f, mine
    <3>2. f.open = e.open /\ f.wrote = e.wrote /\ f.lost = e.lost /\ f.data = IF mine THEN rest ELSE e.data
      BY <3>1 DEF PipeEnd
    <3>. QED
      BY <3>2 DEF e, f, mine
  <2>10. pipes'[s.unit][s.gen].data = rest
    BY <1>5, <2>9
  <2>11. \A u \in Units : \A g \in DOMAIN pipes[u] :
             /\ pipes'[u][g].open = pipes[u][g].open
             /\ pipes'[u][g].wrote = pipes[u][g].wrote
             /\ pipes'[u][g].lost = pipes[u][g].lost
             /\ u # s.unit \/ g # s.gen => pipes'[u][g].data = pipes[u][g].data
    BY <2>9
  <2>. QED
    BY <2>5, <2>8, <2>10, <2>11
<1>. HIDE DEF X, n
<1>16. Drains(w, n)
  BY Zenon, <1>2, <1>3, <1>4, <1>5, <1>7, <1>8, <1>11, <1>13, <1>14, <1>15 DEF Drains
<1>. QED
  BY <1>3, <1>16

\* The connection of a log writer that runs.
LEMMA UpIsLinked ==
    ASSUME Types, Linked, NEW w \in Writers, Up(w)
    PROVE  /\ writer[w] \in Process /\ writer[w].conn \in Conns
           /\ conns[writer[w].conn] \in Connection /\ conns[writer[w].conn].client
           /\ Queue(w) = conns[writer[w].conn].queue /\ Queue(w) \in Seq(Message)
<1>1. writer[w] \in Process /\ writer[w].conn \in Conns /\ conns[writer[w].conn].client
  BY DEF Types, Linked
<1>2. conns[writer[w].conn] \in Connection
  BY <1>1 DEF Types
<1>3. Queue(w) = conns[writer[w].conn].queue
  BY DEF Queue
<1>. QED
  BY <1>1, <1>2, <1>3 DEF Connection

\* What drain_all makes of the sources.
LEMMA LastLinesFacts ==
    ASSUME NEW sources \in Seq(Source)
    PROVE  /\ LastLines(sources) \in Seq(Output)
           /\ \E f : LET S == {n \in DOMAIN sources : sources[n].partial # <<>>}
                         last == LastLines(sources)
                     IN  /\ Enumerates(f, S) /\ Cardinality(S) \in Nat
                         /\ DOMAIN last = 1..Cardinality(S)
                         /\ \A i \in DOMAIN last :
                               /\ last[i].unit = sources[f[i]].unit
                               /\ last[i].line = sources[f[i]].partial
<1>. DEFINE S == {n \in DOMAIN sources : sources[n].partial # <<>>}
            left == Retained(sources, S)
<1>1. S \in SUBSET DOMAIN sources
  OBVIOUS
<1>2. /\ left \in Seq(Source) /\ Cardinality(S) \in Nat
      /\ \E f : Enumerates(f, S) /\ left = [i \in 1..Cardinality(S) |-> sources[f[i]]]
  <2>. HIDE DEF S
  <2>. QED
    BY <1>1, RetainedFacts
<1>3. PICK f : Enumerates(f, S) /\ left = [i \in 1..Cardinality(S) |-> sources[f[i]]]
  BY <1>2
<1>4. LastLines(sources) = [i \in DOMAIN left |-> [unit |-> left[i].unit, line |-> left[i].partial]]
  BY DEF LastLines
<1>. HIDE DEF left
<1>5. \A i \in DOMAIN left : [unit |-> left[i].unit, line |-> left[i].partial] \in Output
  <2>1. \A i \in DOMAIN left : left[i] \in Source
    BY <1>2
  <2>. QED
    BY <2>1 DEF Source, Output
<1>6. LastLines(sources) \in Seq(Output)
  <2>1. DOMAIN left = 1..Len(left) /\ Len(left) \in Nat
    BY <1>2
  <2>. QED
    BY <1>4, <1>5, <2>1
<1>7. DOMAIN LastLines(sources) = 1..Cardinality(S)
      /\ \A i \in 1..Cardinality(S) : /\ LastLines(sources)[i].unit = sources[f[i]].unit
                                      /\ LastLines(sources)[i].line = sources[f[i]].partial
  BY <1>3, <1>4
<1>. QED
  BY <1>2, <1>3, <1>6, <1>7

\* The sources once their partial lines were taken.
LEMMA FlushedFacts ==
    ASSUME NEW sources \in Seq(Source)
    PROVE  /\ Flushed(sources) \in Seq(Source) /\ Len(Flushed(sources)) = Len(sources)
           /\ DOMAIN Flushed(sources) = DOMAIN sources
           /\ \A n \in DOMAIN sources : /\ Flushed(sources)[n].unit = sources[n].unit
                                         /\ Flushed(sources)[n].gen = sources[n].gen
                                         /\ Flushed(sources)[n].partial = <<>>
<1>. DEFINE e(n) == [sources[n] EXCEPT !.partial = <<>>]
            k == Len(sources)
<1>1. k \in Nat /\ DOMAIN sources = 1..k /\ \A n \in 1..k : sources[n] \in Source
  OBVIOUS
<1>2. \A n \in 1..k : /\ e(n) \in Source /\ e(n).unit = sources[n].unit
                        /\ e(n).gen = sources[n].gen /\ e(n).partial = <<>>
  <2>1. <<>> \in Line
    BY DEF Line
  <2>. HIDE DEF k
  <2>. QED
    BY <1>1, <2>1 DEF Source
<1>. HIDE DEF k
<1>3. Flushed(sources) = [n \in 1..k |-> e(n)]
  BY <1>1 DEF Flushed
<1>. HIDE DEF e
<1>4. Flushed(sources) \in Seq(Source) /\ Len(Flushed(sources)) = k
  BY <1>1, <1>2, <1>3
<1>. QED
  BY <1>1, <1>2, <1>3, <1>4 DEF k

\* serve after its sources: back to poll, one message taken, or on the way out.
LEMMA AcceptEffect ==
    ASSUME Types, Linked, NEW w \in Writers, Accept(w)
    PROVE  LET s == writer[w]
               t == writer'[w]
           IN  /\ Up(w) /\ s.pc = "drain" /\ s.lines = <<>> /\ s.ready \subseteq {0}
               /\ writer' \in [Writers -> Process] /\ Others(w)
               /\ t.conn = s.conn /\ t.moves = s.moves /\ t.sinks = s.sinks
               /\ t.closed = {} /\ t.ready = {}
               /\ Kept(w) \in Seq(Source)
               /\ conns' \in [Conns -> Connection]
               /\ \A c \in Conns \ {s.conn} : conns'[c] = conns[c]
               /\ conns'[s.conn].client = conns[s.conn].client
               /\ conns'[s.conn].server = conns[s.conn].server
               /\ \/ /\ s.ready = {}
                     /\ t.pc = "poll" /\ t.lines = <<>> /\ t.sources = Kept(w)
                     /\ conns' = conns
                  \/ /\ s.ready = {0} /\ Queue(w) # <<>>
                     /\ t.pc = "poll" /\ t.lines = <<>>
                     /\ t.sources = Append(Kept(w), Received(Head(Queue(w))))
                     /\ Received(Head(Queue(w))) \in Source
                     /\ conns'[s.conn].queue = Tail(Queue(w))
                  \/ /\ s.ready = {0} /\ Queue(w) = <<>>
                     /\ t.pc = "leave" /\ t.sources = Flushed(Kept(w))
                     /\ t.lines = LastLines(Kept(w))
                     /\ conns' = conns
<1>. DEFINE s == writer[w]
            c == s.conn
            q == conns[c].queue
<1>1. s.pc = "drain" /\ s.lines = <<>> /\ s.ready \subseteq {0} /\ Up(w)
  BY DEF Accept, Up
<1>2. s \in Process /\ c \in Conns /\ conns[c] \in Connection /\ q = Queue(w) /\ q \in Seq(Message)
  BY <1>1, UpIsLinked
<1>3. Kept(w) \in Seq(Source)
  <2>1. s.sources \in Seq(Source)
    BY <1>2 DEF Process
  <2>. QED
    BY <2>1, RetainedFacts DEF Kept
<1>4. Received(Head(q)) \in Source \/ q = <<>>
  <2>1. q # <<>> => Head(q) \in Message
    BY <1>2
  <2>2. <<>> \in Line
    BY DEF Line
  <2>. HIDE DEF q
  <2>. QED
    BY <2>1, <2>2 DEF Message, Source, Received
<1>. DEFINE turn == [s EXCEPT !.sources = Kept(w), !.closed = {}, !.ready = {}]
            a == [turn EXCEPT !.pc = "poll"]
            b == [turn EXCEPT !.pc = "poll", !.sources = Append(@, Received(Head(q)))]
            d == [turn EXCEPT !.pc = "leave", !.lines = LastLines(turn.sources),
                             !.sources = Flushed(turn.sources)]
<1>5. \/ s.ready = {} /\ writer' = [writer EXCEPT ![w] = a] /\ conns' = conns
      \/ /\ s.ready = {0} /\ q # <<>> /\ writer' = [writer EXCEPT ![w] = b]
         /\ conns' = [conns EXCEPT ![c].queue = Tail(@)]
      \/ s.ready = {0} /\ q = <<>> /\ writer' = [writer EXCEPT ![w] = d] /\ conns' = conns
  BY <1>1 DEF Accept
<1>6. turn.sources = Kept(w)
  BY <1>2 DEF Process
<1>7. a \in Process /\ a.pc = "poll" /\ a.conn = c /\ a.sources = Kept(w) /\ a.lines = s.lines
      /\ a.closed = {} /\ a.ready = {} /\ a.moves = s.moves /\ a.sinks = s.sinks
  <2>. HIDE DEF s
  <2>. QED
    BY <1>2, <1>3 DEF Process, s
<1>8. q # <<>> => /\ b \in Process /\ b.pc = "poll" /\ b.conn = c
                  /\ b.sources = Append(Kept(w), Received(Head(q))) /\ b.lines = s.lines
                  /\ b.closed = {} /\ b.ready = {} /\ b.moves = s.moves /\ b.sinks = s.sinks
  <2>. HIDE DEF s, q
  <2>1. q # <<>> => Append(Kept(w), Received(Head(q))) \in Seq(Source)
    BY <1>3, <1>4
  <2>2. b = [s EXCEPT !.pc = "poll", !.sources = Append(Kept(w), Received(Head(q))),
                      !.closed = {}, !.ready = {}]
    BY <1>2 DEF Process
  <2>. HIDE DEF b
  <2>. QED
    BY <1>2, <2>1, <2>2 DEF Process, s
<1>9. /\ d \in Process /\ d.pc = "leave" /\ d.conn = c /\ d.sources = Flushed(Kept(w))
      /\ d.lines = LastLines(Kept(w))
      /\ d.closed = {} /\ d.ready = {} /\ d.moves = s.moves /\ d.sinks = s.sinks
  <2>1. LastLines(Kept(w)) \in Seq(Output) /\ Flushed(Kept(w)) \in Seq(Source)
    BY <1>3, LastLinesFacts, FlushedFacts
  <2>. HIDE DEF s
  <2>2. d = [s EXCEPT !.pc = "leave", !.sources = Flushed(Kept(w)), !.lines = LastLines(Kept(w)),
                      !.closed = {}, !.ready = {}]
    BY <1>2, <1>6 DEF Process
  <2>. HIDE DEF d
  <2>. QED
    BY <1>2, <2>1, <2>2 DEF Process, s
<1>10. writer \in [Writers -> Process] /\ conns \in [Conns -> Connection]
  BY DEF Types
<1>11. q # <<>> => Tail(q) \in Seq(Message)
  <2>. HIDE DEF q
  <2>. QED
    BY <1>2
<1>. HIDE DEF a, b, d, q
<1>12. CASE s.ready = {} /\ writer' = [writer EXCEPT ![w] = a] /\ conns' = conns
  <2>1. writer'[w] = a /\ writer' \in [Writers -> Process] /\ Others(w)
    BY <1>7, <1>10, <1>12 DEF Others
  <2>. QED
    BY <1>1, <1>2, <1>3, <1>7, <1>10, <1>12, <2>1
<1>13. CASE /\ s.ready = {0} /\ q # <<>> /\ writer' = [writer EXCEPT ![w] = b]
            /\ conns' = [conns EXCEPT ![c].queue = Tail(q)]
  <2>1. writer'[w] = b /\ writer' \in [Writers -> Process] /\ Others(w)
    BY <1>8, <1>10, <1>13 DEF Others
  <2>. DEFINE e == [conns[c] EXCEPT !.queue = Tail(q)]
  <2>2. conns' = [conns EXCEPT ![c] = e]
    BY <1>13
  <2>3. e \in Connection /\ e.queue = Tail(q)
        /\ e.client = conns[c].client /\ e.server = conns[c].server
    BY <1>2, <1>11, <1>13 DEF Connection
  <2>. HIDE DEF e
  <2>4. conns' \in [Conns -> Connection] /\ conns'[c] = e
        /\ \A x \in Conns \ {c} : conns'[x] = conns[x]
    BY <1>2, <1>10, <2>2, <2>3
  <2>. QED
    BY <1>1, <1>2, <1>3, <1>4, <1>8, <1>13, <2>1, <2>3, <2>4 DEF q
<1>14. CASE s.ready = {0} /\ q = <<>> /\ writer' = [writer EXCEPT ![w] = d] /\ conns' = conns
  <2>1. writer'[w] = d /\ writer' \in [Writers -> Process] /\ Others(w)
    BY <1>9, <1>10, <1>14 DEF Others
  <2>. QED
    BY <1>1, <1>2, <1>3, <1>9, <1>10, <1>14, <2>1 DEF q
<1>. QED
  BY <1>5, <1>12, <1>13, <1>14 DEF q

-------------------------------------------------------------------------------
(* Files                                                                     *)

\* A set of files, and what is in each.
LEMMA FilesFacts ==
    ASSUME NEW f
    PROVE  f \in Files <=> /\ DOMAIN f \subseteq 0..Keep
                           /\ f = [n \in DOMAIN f |-> f[n]]
                           /\ \A n \in DOMAIN f : f[n] \in Seq(Line)
<1>1. ASSUME f \in Files
      PROVE  /\ DOMAIN f \subseteq 0..Keep
             /\ f = [n \in DOMAIN f |-> f[n]]
             /\ \A n \in DOMAIN f : f[n] \in Seq(Line)
  BY <1>1 DEF Files
<1>2. ASSUME DOMAIN f \subseteq 0..Keep, f = [n \in DOMAIN f |-> f[n]],
             \A n \in DOMAIN f : f[n] \in Seq(Line)
      PROVE  f \in Files
  <2>. DEFINE D == DOMAIN f
  <2>1. D \in SUBSET (0..Keep) /\ f = [n \in D |-> f[n]] /\ \A n \in D : f[n] \in Seq(Line)
    BY <1>2
  <2>. HIDE DEF D
  <2>2. f \in [D -> Seq(Line)]
    BY <2>1
  <2>. QED
    BY <2>1, <2>2 DEF Files
<1>. QED
  BY <1>1, <1>2

\* A file opened is there, and the others are as they were.
LEMMA OpenedFacts ==
    ASSUME NEW f \in Files
    PROVE  /\ Opened(f) \in Files /\ DOMAIN Opened(f) = DOMAIN f \cup {0}
           /\ \A n \in DOMAIN f : Opened(f)[n] = f[n]
           /\ 0 \notin DOMAIN f => Opened(f)[0] = <<>>
           /\ Opened(f)[0] \in Seq(Line)
<1>1. DOMAIN f \subseteq 0..Keep /\ \A n \in DOMAIN f : f[n] \in Seq(Line)
  BY FilesFacts
<1>. DEFINE D == DOMAIN f \cup {0}
            g == Opened(f)
<1>2. g = [n \in D |-> IF n \in DOMAIN f THEN f[n] ELSE <<>>]
  BY DEF Opened
<1>3. <<>> \in Seq(Line) /\ 0 \in 0..Keep
  BY Constants
<1>4. /\ DOMAIN g = D /\ g = [n \in DOMAIN g |-> g[n]]
      /\ \A n \in D : g[n] = IF n \in DOMAIN f THEN f[n] ELSE <<>>
  <2>. HIDE DEF g, D
  <2>. QED
    BY <1>2
<1>. HIDE DEF g
<1>5. g \in Files
  BY <1>1, <1>3, <1>4, FilesFacts
<1>6. g[0] \in Seq(Line)
  BY <1>1, <1>3, <1>4
<1>. QED
  BY <1>4, <1>5, <1>6 DEF g

\* One move of a rotation: a rename, an unlink, or nothing for want of a file.
LEMMA MovedFacts ==
    ASSUME NEW f \in Files, NEW m \in Move
    PROVE  /\ Moved(f, m) \in Files
           /\ m.from \notin DOMAIN f => Moved(f, m) = f
           /\ m.from \in DOMAIN f /\ m.from = m.to =>
                 /\ DOMAIN Moved(f, m) = DOMAIN f \ {m.from}
                 /\ \A n \in DOMAIN f \ {m.from} : Moved(f, m)[n] = f[n]
           /\ m.from \in DOMAIN f /\ m.from # m.to =>
                 /\ DOMAIN Moved(f, m) = (DOMAIN f \ {m.from}) \cup {m.to}
                 /\ Moved(f, m)[m.to] = f[m.from]
                 /\ \A n \in DOMAIN f \ {m.from} : n # m.to => Moved(f, m)[n] = f[n]
<1>1. DOMAIN f \subseteq 0..Keep /\ \A n \in DOMAIN f : f[n] \in Seq(Line)
  BY FilesFacts
<1>2. m.from \in 0..Keep /\ m.to \in 0..Keep
  BY DEF Move
<1>3. CASE m.from \notin DOMAIN f
  <2>1. DOMAIN f \ {m.from} = DOMAIN f /\ f = [n \in DOMAIN f |-> f[n]]
    BY <1>3, FilesFacts
  <2>2. Moved(f, m) = f
    BY <1>3, <2>1 DEF Moved
  <2>. QED
    BY <1>3, <2>2
<1>4. CASE m.from \in DOMAIN f /\ m.from = m.to
  <2>1. Moved(f, m) = [n \in DOMAIN f \ {m.from} |-> f[n]]
    BY <1>4 DEF Moved
  <2>. DEFINE g == Moved(f, m)
  <2>2. DOMAIN g = DOMAIN f \ {m.from} /\ \A n \in DOMAIN f \ {m.from} : g[n] = f[n]
    BY <2>1
  <2>3. g = [n \in DOMAIN g |-> g[n]]
    BY <2>1
  <2>. HIDE DEF g
  <2>4. g \in Files
    BY <1>1, <2>2, <2>3, FilesFacts
  <2>. QED
    BY <1>4, <2>2, <2>4 DEF g
<1>5. CASE m.from \in DOMAIN f /\ m.from # m.to
  <2>. DEFINE D == (DOMAIN f \ {m.from}) \cup {m.to}
              g == Moved(f, m)
  <2>1. g = [n \in D |-> IF n = m.to THEN f[m.from] ELSE f[n]]
    BY <1>5 DEF Moved
  <2>2. DOMAIN g = D /\ \A n \in D : g[n] = IF n = m.to THEN f[m.from] ELSE f[n]
    BY <2>1
  <2>3. g = [n \in DOMAIN g |-> g[n]]
    BY <2>1
  <2>. HIDE DEF g
  <2>4. g \in Files
    BY <1>1, <1>2, <1>5, <2>2, <2>3, FilesFacts
  <2>. QED
    BY <1>5, <2>2, <2>4 DEF g
<1>. QED
  BY <1>3, <1>4, <1>5

\* The moves of a rotation: the last generation away, and the others one on.
LEMMA PlanFacts ==
    /\ Plan \in Seq(Move) /\ Len(Plan) = Keep + 1
    /\ Plan[1] = Unlink(Keep)
    /\ \A k \in 2..(Keep + 1) : Plan[k] = Rename(Keep + 1 - k)
<1>0. Keep \in Nat
  BY Constants
<1>1. CASE Keep = 0
  <2>1. Plan = <<Unlink(0)>> /\ Unlink(0) \in Move
    BY <1>1 DEF Plan, Unlink, Move
  <2>. QED
    BY <1>1, <2>1
<1>2. CASE Keep # 0
  <2>. DEFINE a == <<Unlink(Keep)>>
              b == [i \in 1..Keep |-> Rename(Keep - i)]
  <2>1. Plan = a \o b
    BY <1>2 DEF Plan
  <2>2. a \in Seq(Move) /\ Len(a) = 1 /\ a[1] = Unlink(Keep)
    BY <1>0 DEF Unlink, Move
  <2>3. \A i \in 1..Keep : Rename(Keep - i) \in Move
    BY <1>0 DEF Rename, Move
  <2>4. b \in Seq(Move) /\ Len(b) = Keep
    BY <1>0, <2>3
  <2>5. \A i \in 1..Keep : b[i] = Rename(Keep - i)
    OBVIOUS
  <2>. HIDE DEF a, b
  <2>. HIDE DEF a, b
  <2>6. a \o b \in Seq(Move) /\ Len(a \o b) = Len(a) + Len(b)
        /\ \A i \in 1..Len(a) + Len(b) : (a \o b)[i] = IF i <= Len(a) THEN a[i] ELSE b[i - Len(a)]
    BY <2>2, <2>4, ConcatProperties
  <2>7. (a \o b)[1] = Unlink(Keep)
    BY <1>0, <2>2, <2>4, <2>6
  <2>8. ASSUME NEW k \in 2..(Keep + 1) PROVE (a \o b)[k] = Rename(Keep + 1 - k)
    <3>1. (a \o b)[k] = b[k - 1] /\ k - 1 \in 1..Keep
      BY <1>0, <2>2, <2>4, <2>6
    <3>2. Keep - (k - 1) = Keep + 1 - k
      BY <1>0
    <3>. QED
      BY <2>5, <3>1, <3>2
  <2>. QED
    BY <1>0, <2>1, <2>2, <2>4, <2>6, <2>7, <2>8
<1>. QED
  BY <1>1, <1>2

\* Open files.
LEMMA SinksFacts ==
    ASSUME NEW s \in Sinks, NEW u \in Units, NEW size \in Nat
    PROVE  /\ WithSink(s, u, size) \in Sinks
           /\ DOMAIN WithSink(s, u, size) = DOMAIN s \cup {u}
           /\ WithSink(s, u, size)[u] = size
           /\ \A v \in DOMAIN s : v # u => WithSink(s, u, size)[v] = s[v]
           /\ [v \in DOMAIN s \ {u} |-> s[v]] \in Sinks
           /\ DOMAIN s \subseteq Units /\ \A v \in DOMAIN s : s[v] \in Nat
<1>1. DOMAIN s \subseteq Units /\ \A v \in DOMAIN s : s[v] \in Nat
  BY DEF Sinks
<1>. DEFINE D == DOMAIN s \cup {u}
            t == WithSink(s, u, size)
            E == DOMAIN s \ {u}
            r == [v \in E |-> s[v]]
<1>2. t = [v \in D |-> IF v = u THEN size ELSE s[v]]
  BY DEF WithSink
<1>3. D \in SUBSET Units /\ E \in SUBSET Units
  BY <1>1
<1>4. t \in [D -> Nat] /\ r \in [E -> Nat]
  BY <1>1, <1>2
<1>5. t \in Sinks /\ r \in Sinks
  <2>. HIDE DEF D, E, t, r
  <2>. QED
    BY <1>3, <1>4 DEF Sinks
<1>6. DOMAIN t = D /\ t[u] = size /\ \A v \in DOMAIN s : v # u => t[v] = s[v]
  BY <1>2
<1>. QED
  BY <1>1, <1>5, <1>6

\* write: the record is appended, or a rotation begins.
LEMMA WriteLineEffect ==
    ASSUME Types, NEW w \in Writers, WriteLine(w)
    PROVE  LET s == writer[w]
               t == writer'[w]
               u == s.lines[1].unit
               line == s.lines[1].line
               size == OpenedSize(w, u)
           IN  /\ s.lines # <<>> /\ s.moves = <<>> /\ s.lines[1] \in Output
               /\ u \in Units /\ line \in Line /\ size \in Nat
               /\ writer' \in [Writers -> Process] /\ Others(w)
               /\ t.pc = s.pc /\ t.conn = s.conn /\ t.sources = s.sources
               /\ t.ready = s.ready /\ t.closed = s.closed
               /\ disk' \in [Units -> Files]
               /\ \A v \in Units \ {u} : disk'[v] = disk[v]
               /\ recorded' \in [Units -> Seq(Seq(Piece))]
               /\ \/ /\ ShouldRotate(size, line)
                     /\ t.moves = Plan /\ t.lines = s.lines
                     /\ t.sinks = WithSink(s.sinks, u, size)
                     /\ disk'[u] = Opened(disk[u])
                     /\ recorded' = recorded
                  \/ /\ ~ShouldRotate(size, line)
                     /\ t.moves = s.moves /\ t.lines = Tail(s.lines)
                     /\ t.sinks = WithSink(s.sinks, u, size + RecordSize(line))
                     /\ disk'[u] = [Opened(disk[u]) EXCEPT ![0] = Append(@, line)]
                     /\ recorded'[u] = Append(recorded[u], line)
                     /\ \A v \in Units \ {u} : recorded'[v] = recorded[v]
<1>. DEFINE s == writer[w]
            u == s.lines[1].unit
            line == s.lines[1].line
            size == OpenedSize(w, u)
            files == Opened(disk[u])
            more == [files EXCEPT ![0] = Append(@, line)]
<1>1. s \in Process /\ s.lines \in Seq(Output) /\ s.moves \in Seq(Move) /\ s.sinks \in Sinks
  BY DEF Types, Process
<1>2. s.lines # <<>> /\ s.moves = <<>>
  BY DEF WriteLine
<1>3. Head(s.lines) = s.lines[1] /\ s.lines[1] \in Output /\ Tail(s.lines) \in Seq(Output)
  <2>1. s.lines \in Seq(Output) /\ s.lines # <<>>
    BY <1>1, <1>2
  <2>. HIDE DEF s
  <2>. QED
    BY <2>1
<1>4. u \in Units /\ line \in Line
  BY <1>3 DEF Output
<1>. DEFINE a == [s EXCEPT !.moves = Plan, !.sinks = WithSink(@, u, size)]
            b == [s EXCEPT !.lines = Tail(@), !.sinks = WithSink(@, u, size + RecordSize(line))]
<1>5. \/ /\ ShouldRotate(size, line) /\ writer' = [writer EXCEPT ![w] = a]
         /\ disk' = [disk EXCEPT ![u] = files] /\ recorded' = recorded
      \/ /\ ~ShouldRotate(size, line) /\ writer' = [writer EXCEPT ![w] = b]
         /\ disk' = [disk EXCEPT ![u] = more]
         /\ recorded' = [recorded EXCEPT ![u] = Append(@, line)]
  BY Zenon, <1>3 DEF WriteLine
<1>6. disk \in [Units -> Files] /\ disk[u] \in Files /\ recorded \in [Units -> Seq(Seq(Piece))]
      /\ writer \in [Writers -> Process]
  BY <1>4 DEF Types
<1>7. size \in Nat
  <2>1. u \in DOMAIN s.sinks => s.sinks[u] \in Nat
    BY <1>1, <1>4, SinksFacts
  <2>2. 0 \in DOMAIN disk[u] => FileSize(disk[u][0]) \in Nat
    <3>1. 0 \in DOMAIN disk[u] => disk[u][0] \in Seq(Line)
      BY <1>6, FilesFacts
    <3>2. \A f \in Seq(Seq(Piece)) : FileSize(f) \in Nat
      <4>1. <<>> \in Seq(Piece)
        OBVIOUS
      <4>. QED
        BY <4>1, FileSizeFacts
    <3>. QED
      BY <3>1, <3>2 DEF Line
  <2>. QED
    BY <2>1, <2>2 DEF OpenedSize
<1>8. files \in Files /\ files[0] \in Seq(Line) /\ 0 \in DOMAIN files
  BY <1>6, OpenedFacts
<1>9. more \in Files
  <2>. HIDE DEF files, line
  <2>1. Append(files[0], line) \in Seq(Line)
    BY <1>4, <1>8
  <2>. DEFINE g == more
  <2>2. /\ DOMAIN g = DOMAIN files /\ g = [n \in DOMAIN g |-> g[n]]
        /\ \A n \in DOMAIN g : g[n] = files[n] \/ g[n] = Append(files[0], line)
    <3>1. files = [n \in DOMAIN files |-> files[n]]
      BY <1>8, FilesFacts
    <3>. QED
      BY <1>8, <3>1
  <2>3. DOMAIN files \subseteq 0..Keep /\ \A n \in DOMAIN files : files[n] \in Seq(Line)
    BY <1>8, FilesFacts
  <2>. HIDE DEF g
  <2>4. g \in Files
    BY <2>1, <2>2, <2>3, FilesFacts
  <2>. QED
    BY <2>4 DEF g
<1>10. RecordSize(line) \in Nat
  BY Zenon, <1>4, RecordSizeFacts
<1>11. /\ WithSink(s.sinks, u, size) \in Sinks
       /\ WithSink(s.sinks, u, size + RecordSize(line)) \in Sinks
  <2>. HIDE DEF s, u, size, line
  <2>1. size + RecordSize(line) \in Nat
    BY <1>7, <1>10
  <2>. QED
    BY <1>1, <1>4, <1>7, <2>1, SinksFacts
<1>12. /\ a \in Process /\ a.moves = Plan /\ a.lines = s.lines
       /\ a.sinks = WithSink(s.sinks, u, size)
       /\ a.pc = s.pc /\ a.conn = s.conn /\ a.sources = s.sources
       /\ a.ready = s.ready /\ a.closed = s.closed
  <2>. HIDE DEF s, u, size
  <2>. QED
    BY <1>1, <1>11, PlanFacts DEF Process
<1>13. /\ b \in Process /\ b.moves = s.moves /\ b.lines = Tail(s.lines)
       /\ b.sinks = WithSink(s.sinks, u, size + RecordSize(line))
       /\ b.pc = s.pc /\ b.conn = s.conn /\ b.sources = s.sources
       /\ b.ready = s.ready /\ b.closed = s.closed
  <2>. HIDE DEF s, u, size, line
  <2>. QED
    BY <1>1, <1>3, <1>11 DEF Process
<1>14. Append(recorded[u], line) \in Seq(Seq(Piece))
  <2>1. recorded[u] \in Seq(Seq(Piece)) /\ line \in Seq(Piece)
    BY <1>4, <1>6 DEF Line
  <2>. HIDE DEF u, line
  <2>. QED
    BY <2>1
<1>15. CASE /\ ShouldRotate(size, line) /\ writer' = [writer EXCEPT ![w] = a]
            /\ disk' = [disk EXCEPT ![u] = files] /\ recorded' = recorded
  <2>. HIDE DEF s, u, line, size, files, a
  <2>1. writer'[w] = a /\ writer' \in [Writers -> Process] /\ Others(w)
    BY <1>6, <1>12, <1>15 DEF Others
  <2>2. disk' \in [Units -> Files] /\ disk'[u] = files /\ \A v \in Units \ {u} : disk'[v] = disk[v]
    BY <1>4, <1>6, <1>8, <1>15
  <2>. QED
    BY <1>1, <1>2, <1>3, <1>4, <1>6, <1>7, <1>12, <1>15, <2>1, <2>2 DEF s, u, line, size, files
<1>16. CASE /\ ~ShouldRotate(size, line) /\ writer' = [writer EXCEPT ![w] = b]
            /\ disk' = [disk EXCEPT ![u] = more]
            /\ recorded' = [recorded EXCEPT ![u] = Append(@, line)]
  <2>. HIDE DEF s, u, line, size, files, b, more
  <2>1. writer'[w] = b /\ writer' \in [Writers -> Process] /\ Others(w)
    BY <1>6, <1>13, <1>16 DEF Others
  <2>2. disk' \in [Units -> Files] /\ disk'[u] = more /\ \A v \in Units \ {u} : disk'[v] = disk[v]
    BY <1>4, <1>6, <1>9, <1>16
  <2>3. recorded' \in [Units -> Seq(Seq(Piece))] /\ recorded'[u] = Append(recorded[u], line)
        /\ \A v \in Units \ {u} : recorded'[v] = recorded[v]
    BY <1>4, <1>6, <1>14, <1>16
  <2>. QED
    BY Zenon, <1>1, <1>2, <1>3, <1>4, <1>6, <1>7, <1>13, <1>16, <2>1, <2>2, <2>3
       DEF s, u, line, size, files, more
<1>. QED
  BY Zenon, <1>5, <1>15, <1>16

\* rotate: one move; the handle is dropped after the last.
LEMMA RotateEffect ==
    ASSUME Types, NEW w \in Writers, Reads(w), Rotate(w)
    PROVE  LET s == writer[w]
               t == writer'[w]
               u == s.lines[1].unit
               move == s.moves[1]
           IN  /\ s.lines # <<>> /\ s.moves # <<>> /\ u \in Units /\ move \in Move
               /\ writer' \in [Writers -> Process] /\ Others(w)
               /\ t.pc = s.pc /\ t.conn = s.conn /\ t.sources = s.sources
               /\ t.ready = s.ready /\ t.closed = s.closed /\ t.lines = s.lines
               /\ t.moves = Tail(s.moves)
               /\ Tail(s.moves) # <<>> => t.sinks = s.sinks
               /\ Tail(s.moves) = <<>> => t.sinks = [v \in DOMAIN s.sinks \ {u} |-> s.sinks[v]]
               /\ disk' \in [Units -> Files] /\ disk'[u] = Moved(disk[u], move)
               /\ \A v \in Units \ {u} : disk'[v] = disk[v]
<1>. DEFINE s == writer[w]
            u == s.lines[1].unit
            move == s.moves[1]
            rest == Tail(s.moves)
            sinks == IF rest # <<>> THEN s.sinks ELSE [v \in DOMAIN s.sinks \ {u} |-> s.sinks[v]]
            X == [s EXCEPT !.moves = rest, !.sinks = sinks]
<1>1. s \in Process /\ s.lines \in Seq(Output) /\ s.moves \in Seq(Move) /\ s.sinks \in Sinks
  BY DEF Types, Process
<1>2. s.moves # <<>> /\ s.lines # <<>>
  BY DEF Rotate, Reads
<1>3. /\ Head(s.lines) = s.lines[1] /\ s.lines[1] \in Output
      /\ Head(s.moves) = move /\ move \in Move /\ rest \in Seq(Move)
  <2>1. s.lines \in Seq(Output) /\ s.lines # <<>> /\ s.moves \in Seq(Move) /\ s.moves # <<>>
    BY <1>1, <1>2
  <2>. HIDE DEF s
  <2>. QED
    BY <2>1
<1>4. u \in Units
  BY <1>3 DEF Output
<1>5. disk' = [disk EXCEPT ![u] = Moved(@, move)] /\ writer' = [writer EXCEPT ![w] = X]
  BY <1>3 DEF Rotate
<1>6. sinks \in Sinks
  <2>1. 0 \in Nat
    OBVIOUS
  <2>2. [v \in DOMAIN s.sinks \ {u} |-> s.sinks[v]] \in Sinks
    BY <1>1, <1>4, <2>1, SinksFacts
  <2>. QED
    BY <1>1, <2>2
<1>7. /\ X \in Process /\ X.moves = rest /\ X.sinks = sinks /\ X.lines = s.lines
      /\ X.pc = s.pc /\ X.conn = s.conn /\ X.sources = s.sources
      /\ X.ready = s.ready /\ X.closed = s.closed
  <2>. HIDE DEF s, sinks, rest
  <2>. QED
    BY <1>1, <1>3, <1>6 DEF Process
<1>8. writer \in [Writers -> Process] /\ disk \in [Units -> Files] /\ disk[u] \in Files
  BY <1>4 DEF Types
<1>9. Moved(disk[u], move) \in Files
  BY <1>3, <1>8, MovedFacts
<1>10. disk' \in [Units -> Files] /\ disk'[u] = Moved(disk[u], move)
       /\ \A v \in Units \ {u} : disk'[v] = disk[v]
  <2>. HIDE DEF u, move
  <2>. QED
    BY <1>4, <1>5, <1>8, <1>9
<1>11. writer'[w] = X /\ writer' \in [Writers -> Process] /\ Others(w)
  <2>. HIDE DEF X
  <2>. QED
    BY <1>5, <1>7, <1>8 DEF Others
<1>12. /\ rest # <<>> => sinks = s.sinks
       /\ rest = <<>> => sinks = [v \in DOMAIN s.sinks \ {u} |-> s.sinks[v]]
  OBVIOUS
<1>. HIDE DEF X, sinks
<1>. QED
  BY <1>2, <1>3, <1>4, <1>7, <1>10, <1>11, <1>12

\* A failed write: the record is gone.
LEMMA RecordRefusedEffect ==
    ASSUME Types, NEW w \in Writers, RecordRefused(w)
    PROVE  LET s == writer[w]
               t == writer'[w]
           IN  /\ s.lines # <<>> /\ s.moves = <<>>
               /\ writer' \in [Writers -> Process] /\ Others(w)
               /\ t.pc = s.pc /\ t.conn = s.conn /\ t.sources = s.sources
               /\ t.ready = s.ready /\ t.closed = s.closed /\ t.lines = Tail(s.lines)
               /\ t.moves = s.moves /\ t.sinks = s.sinks
<1>. DEFINE s == writer[w]
            X == [s EXCEPT !.lines = Tail(s.lines)]
<1>1. s \in Process /\ s.lines \in Seq(Output) /\ s.lines # <<>> /\ s.moves = <<>>
  BY DEF Types, Process, RecordRefused
<1>2. Tail(s.lines) \in Seq(Output)
  <2>. HIDE DEF s
  <2>. QED
    BY <1>1
<1>3. writer' = [writer EXCEPT ![w] = X]
  BY DEF RecordRefused
<1>4. /\ X \in Process /\ X.lines = Tail(s.lines)
      /\ X.pc = s.pc /\ X.conn = s.conn /\ X.sources = s.sources
      /\ X.ready = s.ready /\ X.closed = s.closed /\ X.moves = s.moves /\ X.sinks = s.sinks
  <2>. HIDE DEF s
  <2>. QED
    BY <1>1, <1>2 DEF Process
<1>5. writer'[w] = X /\ writer' \in [Writers -> Process] /\ Others(w)
  <2>. HIDE DEF X
  <2>1. writer \in [Writers -> Process]
    BY DEF Types
  <2>. QED
    BY <1>3, <1>4, <2>1 DEF Others
<1>. QED
  BY <1>1, <1>4, <1>5

-------------------------------------------------------------------------------
(* What the services and PID 1 do                                            *)

\* One pipe is something else.
LEMMA PipeChange ==
    ASSUME Types, NEW u \in Units, NEW g \in DOMAIN pipes[u], NEW e \in PipeEnd,
           pipes' = [pipes EXCEPT ![u][g] = e]
    PROVE  /\ pipes' \in [Units -> Seq(PipeEnd)]
           /\ \A v \in Units : Len(pipes'[v]) = Len(pipes[v]) /\ DOMAIN pipes'[v] = DOMAIN pipes[v]
           /\ pipes'[u][g] = e
           /\ \A v \in Units : \A h \in DOMAIN pipes[v] :
                 v # u \/ h # g => pipes'[v][h] = pipes[v][h]
<1>1. pipes \in [Units -> Seq(PipeEnd)] /\ pipes[u] \in Seq(PipeEnd)
  BY DEF Types
<1>. DEFINE P == [pipes[u] EXCEPT ![g] = e]
<1>2. /\ P \in Seq(PipeEnd) /\ Len(P) = Len(pipes[u]) /\ P[g] = e
      /\ \A h \in DOMAIN pipes[u] : h # g => P[h] = pipes[u][h]
  BY <1>1
<1>3. pipes' = [pipes EXCEPT ![u] = P]
  OBVIOUS
<1>. HIDE DEF P
<1>4. pipes' \in [Units -> Seq(PipeEnd)]
      /\ \A v \in Units : pipes'[v] = IF v = u THEN P ELSE pipes[v]
  BY <1>1, <1>2, <1>3
<1>5. \A v \in Units : pipes'[v] \in Seq(PipeEnd) /\ pipes[v] \in Seq(PipeEnd)
  BY <1>1, <1>4
<1>6. \A v \in Units : Len(pipes'[v]) = Len(pipes[v])
  BY <1>2, <1>4
<1>7. \A v \in Units : DOMAIN pipes'[v] = DOMAIN pipes[v]
  BY <1>5, <1>6
<1>. QED
  BY <1>2, <1>4, <1>6, <1>7

\* A service writes one piece into the pipe of one of its starts.
LEMMA WriteEffect ==
    ASSUME Types, NEW u \in Units, NEW G \in DOMAIN pipes[u], Write(u, G)
    PROVE  \E piece \in Piece :
               /\ piece.n = sent[u] + 1 /\ piece.gen = G
               /\ pipes[u][G].open /\ Len(pipes[u][G].data) < PipeSize
               /\ pipes' \in [Units -> Seq(PipeEnd)]
               /\ \A v \in Units : Len(pipes'[v]) = Len(pipes[v]) /\ DOMAIN pipes'[v] = DOMAIN pipes[v]
               /\ pipes'[u][G].data = Append(pipes[u][G].data, piece)
               /\ pipes'[u][G].open = pipes[u][G].open
               /\ pipes'[u][G].wrote = pipes[u][G].wrote + 1
               /\ pipes'[u][G].lost = pipes[u][G].lost
               /\ \A v \in Units : \A h \in DOMAIN pipes[v] :
                     v # u \/ h # G => pipes'[v][h] = pipes[v][h]
               /\ sent' \in [Units -> Nat] /\ sent'[u] = sent[u] + 1
               /\ \A v \in Units \ {u} : sent'[v] = sent[v]
<1>. DEFINE nl == sent[u] + 1 \in Ends
            piece == [n |-> sent[u] + 1, gen |-> G, nl |-> nl]
            old == pipes[u][G]
            e == [old EXCEPT !.data = Append(@, piece), !.wrote = @ + 1]
<1>1. old \in PipeEnd /\ old.open /\ Len(old.data) < PipeSize /\ G \in Nat
  <2>1. pipes[u] \in Seq(PipeEnd)
    BY DEF Types
  <2>2. old \in PipeEnd /\ G \in Nat
    BY <2>1
  <2>. QED
    BY <2>2 DEF Write
<1>2. sent \in [Units -> Nat] /\ sent[u] \in Nat
  BY DEF Types
<1>3. piece \in Piece /\ piece.n = sent[u] + 1 /\ piece.gen = G
  <2>1. nl \in BOOLEAN
    OBVIOUS
  <2>. HIDE DEF nl
  <2>. QED
    BY <1>1, <1>2, <2>1 DEF Piece
<1>4. pipes' = [pipes EXCEPT ![u][G] = e] /\ sent' = [sent EXCEPT ![u] = @ + 1]
  BY DEF Write
<1>. HIDE DEF piece, old
<1>5. e \in PipeEnd /\ e.data = Append(old.data, piece) /\ e.open = old.open
      /\ e.wrote = old.wrote + 1 /\ e.lost = old.lost
  <2>1. old.data \in Line /\ old.wrote \in Nat
    BY <1>1 DEF PipeEnd
  <2>2. Append(old.data, piece) \in Line
    BY <1>3, <2>1 DEF Line
  <2>. DEFINE a == Append(old.data, piece)
              b == old.wrote + 1
  <2>3. e = [old EXCEPT !.data = a, !.wrote = b] /\ a \in Line /\ b \in Nat
    BY <2>1, <2>2
  <2>. HIDE DEF e, a, b
  <2>4. e \in PipeEnd /\ e.data = a /\ e.open = old.open /\ e.wrote = b /\ e.lost = old.lost
    BY <1>1, <2>3 DEF PipeEnd
  <2>. QED
    BY <2>4 DEF a, b
<1>. HIDE DEF e
<1>6. /\ pipes' \in [Units -> Seq(PipeEnd)]
      /\ \A v \in Units : Len(pipes'[v]) = Len(pipes[v]) /\ DOMAIN pipes'[v] = DOMAIN pipes[v]
      /\ pipes'[u][G] = e
      /\ \A v \in Units : \A h \in DOMAIN pipes[v] :
            v # u \/ h # G => pipes'[v][h] = pipes[v][h]
  BY <1>4, <1>5, PipeChange
<1>7. sent' \in [Units -> Nat] /\ sent'[u] = sent[u] + 1 /\ \A v \in Units \ {u} : sent'[v] = sent[v]
  BY <1>2, <1>4
<1>. QED
  BY <1>1, <1>3, <1>5, <1>6, <1>7 DEF old

\* The last process of a start is gone: its pipe has no writer left.
LEMMA ExitEffect ==
    ASSUME Types, NEW u \in Units, NEW G \in DOMAIN pipes[u], Exit(u, G)
    PROVE  /\ pipes' \in [Units -> Seq(PipeEnd)]
           /\ \A v \in Units : Len(pipes'[v]) = Len(pipes[v]) /\ DOMAIN pipes'[v] = DOMAIN pipes[v]
           /\ \A v \in Units : \A h \in DOMAIN pipes[v] :
                 /\ pipes'[v][h].data = pipes[v][h].data
                 /\ pipes'[v][h].wrote = pipes[v][h].wrote
                 /\ pipes'[v][h].lost = pipes[v][h].lost
                 /\ ~pipes[v][h].open => ~pipes'[v][h].open
<1>. DEFINE old == pipes[u][G]
            e == [old EXCEPT !.open = FALSE]
<1>1. old \in PipeEnd
  <2>1. pipes[u] \in Seq(PipeEnd)
    BY DEF Types
  <2>. QED
    BY <2>1
<1>2. pipes' = [pipes EXCEPT ![u][G] = e]
  BY DEF Exit
<1>. HIDE DEF old
<1>3. e \in PipeEnd /\ e.data = old.data /\ e.wrote = old.wrote /\ e.lost = old.lost /\ e.open = FALSE
  BY <1>1 DEF PipeEnd
<1>. HIDE DEF e
<1>4. /\ pipes' \in [Units -> Seq(PipeEnd)]
      /\ \A v \in Units : Len(pipes'[v]) = Len(pipes[v]) /\ DOMAIN pipes'[v] = DOMAIN pipes[v]
      /\ pipes'[u][G] = e
      /\ \A v \in Units : \A h \in DOMAIN pipes[v] :
            v # u \/ h # G => pipes'[v][h] = pipes[v][h]
  BY <1>2, <1>3, PipeChange
<1>5. ASSUME NEW v \in Units, NEW h \in DOMAIN pipes[v]
      PROVE  /\ pipes'[v][h].data = pipes[v][h].data
             /\ pipes'[v][h].wrote = pipes[v][h].wrote
             /\ pipes'[v][h].lost = pipes[v][h].lost
             /\ ~pipes[v][h].open => ~pipes'[v][h].open
  <2>1. CASE v = u /\ h = G
    BY <1>3, <1>4, <2>1 DEF old
  <2>2. CASE v # u \/ h # G
    BY <1>4, <2>2
  <2>. QED
    BY <2>1, <2>2
<1>. QED
  BY <1>4, <1>5

\* Logs::pipe: one pipe more, offered to the shipper if there is room, in place
\* of the one before, which is destroyed if nobody else has it.
LEMMA StartEffect ==
    ASSUME Types, Offers, NEW u \in Units, Start(u)
    PROVE  LET G == Len(pipes[u]) + 1
           IN  /\ G \in Boots /\ G <= MaxGens
               /\ pipes' \in [Units -> Seq(PipeEnd)]
               /\ Len(pipes'[u]) = G
               /\ \A g \in DOMAIN pipes[u] :
                     \/ pipes'[u][g] = pipes[u][g]
                     \/ pipes'[u][g] = Destroyed(pipes[u][g])
               /\ pipes'[u][G].data = <<>> /\ pipes'[u][G].wrote = 0 /\ pipes'[u][G].lost = 0
               /\ \A v \in Units \ {u} : pipes'[v] = pipes[v]
               /\ held' \in [Units -> Nat] /\ held'[u] = G
               /\ \A v \in Units \ {u} : held'[v] = held[v]
               /\ conns' \in [Conns -> Connection]
               /\ \A c \in Conns :
                    /\ conns'[c].client = conns[c].client
                    /\ conns'[c].server = conns[c].server
                    /\ \/ conns'[c].queue = conns[c].queue
                       \/ /\ c = shipper /\ Len(conns[c].queue) < QueueMax
                          /\ conns'[c].queue = Append(conns[c].queue, [unit |-> u, gen |-> G])
               /\ overlapped \subseteq overlapped' /\ overlapped' \subseteq overlapped \cup {u}
               /\ u \notin overlapped' =>
                     \A g \in DOMAIN pipes[u] :
                         ~pipes'[u][g].open /\ Len(pipes'[u][g].data) <= ReadSize
<1>. DEFINE G == Len(pipes[u]) + 1
            S == Swept(u)
            m == [unit |-> u, gen |-> G]
<1>1. pipes \in [Units -> Seq(PipeEnd)] /\ pipes[u] \in Seq(PipeEnd) /\ held \in [Units -> Nat]
      /\ conns \in [Conns -> Connection] /\ shipper \in Conns \cup {None}
  BY DEF Types
<1>2. G \in Boots /\ G <= MaxGens
  BY <1>1 DEF Boots, Start
<1>3. /\ S \in Seq(PipeEnd) /\ Len(S) = Len(pipes[u]) /\ DOMAIN S = DOMAIN pipes[u]
      /\ \A g \in DOMAIN pipes[u] : S[g] = pipes[u][g] \/ S[g] = Destroyed(pipes[u][g])
  BY SweptFacts
<1>4. NewPipe \in PipeEnd /\ NewPipe.data = <<>> /\ NewPipe.wrote = 0 /\ NewPipe.lost = 0
  BY DEF PipeEnd, Line, NewPipe
<1>5. /\ pipes' = [pipes EXCEPT ![u] = Append(S, NewPipe)]
      /\ overlapped' = IF \E earlier \in DOMAIN pipes[u] :
                              S[earlier].open \/ Len(S[earlier].data) > ReadSize
                       THEN overlapped \cup {u} ELSE overlapped
  BY DEF Start
<1>. HIDE DEF S
<1>6. /\ pipes' \in [Units -> Seq(PipeEnd)] /\ pipes'[u] = Append(S, NewPipe)
      /\ \A v \in Units \ {u} : pipes'[v] = pipes[v]
  <2>1. Append(S, NewPipe) \in Seq(PipeEnd)
    BY <1>3, <1>4
  <2>. QED
    BY <1>1, <1>5, <2>1
<1>7. Len(pipes'[u]) = G /\ pipes'[u][G] = NewPipe
      /\ \A g \in DOMAIN pipes[u] : pipes'[u][g] = S[g]
  <2>. DEFINE q == Append(S, NewPipe)
  <2>2. Len(q) = Len(S) + 1 /\ q[Len(S) + 1] = NewPipe /\ \A g \in DOMAIN S : q[g] = S[g]
    BY <1>3, <1>4
  <2>. QED
    BY <1>3, <1>6, <2>2
<1>8. held' \in [Units -> Nat] /\ held'[u] = G /\ \A v \in Units \ {u} : held'[v] = held[v]
  BY <1>1, <1>2 DEF Start, Boots
<1>9. m \in Message
  BY <1>2 DEF Message
<1>. HIDE DEF m
<1>. DEFINE Effect ==
              /\ pipes' \in [Units -> Seq(PipeEnd)]
              /\ Len(pipes'[u]) = G
              /\ \A g \in DOMAIN pipes[u] :
                     \/ pipes'[u][g] = pipes[u][g]
                     \/ pipes'[u][g] = Destroyed(pipes[u][g])
              /\ pipes'[u][G].data = <<>> /\ pipes'[u][G].wrote = 0 /\ pipes'[u][G].lost = 0
              /\ \A v \in Units \ {u} : pipes'[v] = pipes[v]
              /\ overlapped \subseteq overlapped' /\ overlapped' \subseteq overlapped \cup {u}
              /\ u \notin overlapped' =>
                    \A g \in DOMAIN pipes[u] :
                        ~pipes'[u][g].open /\ Len(pipes'[u][g].data) <= ReadSize
<1>12. Effect
  <2>1. \A g \in DOMAIN pipes[u] : Len(S[g].data) \in Nat /\ ReadSize \in Nat
    <3>1. \A g \in DOMAIN pipes[u] : S[g] \in PipeEnd
      BY <1>3
    <3>2. \A g \in DOMAIN pipes[u] : S[g].data \in Line
      BY <3>1 DEF PipeEnd
    <3>. QED
      BY <3>2, Constants DEF Line
  <2>2. pipes'[u][G].data = <<>> /\ pipes'[u][G].wrote = 0 /\ pipes'[u][G].lost = 0
    BY <1>4, <1>7
  <2>. HIDE DEF G
  <2>3. overlapped \subseteq overlapped' /\ overlapped' \subseteq overlapped \cup {u}
        /\ (u \notin overlapped' =>
              \A g \in DOMAIN pipes[u] : ~S[g].open /\ Len(S[g].data) <= ReadSize)
    BY <1>5, <2>1
  <2>4. \A g \in DOMAIN pipes[u] :
            pipes'[u][g] = pipes[u][g] \/ pipes'[u][g] = Destroyed(pipes[u][g])
    BY <1>3, <1>7
  <2>5. u \notin overlapped' =>
            \A g \in DOMAIN pipes[u] : ~pipes'[u][g].open /\ Len(pipes'[u][g].data) <= ReadSize
    BY <1>7, <2>3
  <2>. QED
    BY <1>6, <1>7, <2>2, <2>3, <2>4, <2>5
<1>10. CASE shipper = None
  <2>1. conns' = conns
    BY <1>10 DEF Start
  <2>. HIDE DEF Effect
  <2>. QED
    BY <1>1, <1>2, <1>8, <1>12, <2>1 DEF Effect
<1>11. CASE shipper # None
  <2>. DEFINE c == shipper
              o == Offered(conns[c], u, G)
  <2>1. c \in Conns /\ conns[c] \in Connection /\ conns' = [conns EXCEPT ![c] = o]
    BY <1>1, <1>11 DEF Start
  <2>2. /\ o \in Connection /\ o.client = conns[c].client /\ o.server = conns[c].server
        /\ \/ o.queue = conns[c].queue
           \/ Len(conns[c].queue) < QueueMax /\ o.queue = Append(conns[c].queue, m)
    <3>1. Len(conns[c].queue) <= QueueMax /\ Len(conns[c].queue) \in Nat /\ QueueMax \in Nat
      BY <2>1, Constants DEF Offers, Connection
    <3>2. CASE conns[c].client /\ ~Full(conns[c])
      <4>1. o = [conns[c] EXCEPT !.queue = Append(@, m)]
        BY <3>2 DEF Offered, m
      <4>2. conns[c].queue \in Seq(Message)
        BY <2>1 DEF Connection
      <4>3. Append(conns[c].queue, m) \in Seq(Message)
        BY <1>9, <4>2
      <4>4. Len(conns[c].queue) < QueueMax
        BY <3>1, <3>2 DEF Full
      <4>. HIDE DEF o, c
      <4>5. o \in Connection /\ o.client = conns[c].client /\ o.server = conns[c].server
            /\ o.queue = Append(conns[c].queue, m)
        BY <2>1, <4>1, <4>3 DEF Connection
      <4>. QED
        BY <4>4, <4>5
    <3>3. CASE ~(conns[c].client /\ ~Full(conns[c]))
      BY <2>1, <3>3 DEF Offered
    <3>. QED
      BY <3>2, <3>3
  <2>. HIDE DEF o
  <2>3. conns' \in [Conns -> Connection] /\ conns'[c] = o /\ \A x \in Conns \ {c} : conns'[x] = conns[x]
    BY <1>1, <2>1, <2>2
  <2>5. ASSUME NEW x \in Conns
        PROVE  /\ conns'[x].client = conns[x].client
               /\ conns'[x].server = conns[x].server
               /\ \/ conns'[x].queue = conns[x].queue
                  \/ /\ x = shipper /\ Len(conns[x].queue) < QueueMax
                     /\ conns'[x].queue = Append(conns[x].queue, m)
    BY <2>2, <2>3
  <2>. HIDE DEF c, G
  <2>. QED
    BY <1>2, <1>8, <1>12, <2>3, <2>5 DEF m, G
<1>. QED
  BY <1>10, <1>11

\* What is offered to a shipper that connects: every unit's latest start, once.
LEMMA OfferedAllFacts ==
    ASSUME Types, NEW conn \in Connection, conn.queue = <<>>,
           NEW order \in SetToSeqs({u \in Units : held[u] # 0})
    PROVE  LET o == OfferedAll(conn, order)
           IN  /\ o \in Connection /\ o.client = conn.client
               /\ Len(o.queue) <= QueueMax
               /\ \A i \in DOMAIN o.queue : o.queue[i].gen = held[o.queue[i].unit]
               /\ \A i, j \in DOMAIN o.queue : i # j => o.queue[i].unit # o.queue[j].unit
               /\ conn.client => \A u \in Units : held[u] # 0 =>
                     u \in Range(order) /\ (Full(o) \/ InQueue(o, u, held[u]))
<1>. DEFINE S == {u \in Units : held[u] # 0}
            k == Cardinality(S)
            all == [i \in DOMAIN order |-> [unit |-> order[i], gen |-> held[order[i]]]]
            offers == conn.queue \o all
            size == Min({QueueMax, Len(offers)})
            q == SubSeq(offers, 1, size)
<1>1. k \in Nat
  <2>1. IsFiniteSet(S)
    BY LogShippingAssumption, FS_Subset
  <2>. QED
    BY <2>1, FS_CardinalityType
<1>2. order \in [1..k -> S] /\ \A i, j \in 1..k : i # j => order[i] # order[j]
  BY DEF SetToSeqs
<1>0. \A u \in S : \E i \in 1..k : order[i] = u
  <2>1. IsFiniteSet(S)
    BY LogShippingAssumption, FS_Subset
  <2>2. Cardinality(1..k) = k
    BY <1>1, FS_Interval
  <2>3. order \in Injection(1..k, S)
    BY <1>2 DEF Injection, IsInjective
  <2>4. order \in Surjection(1..k, S)
    <3>1. Cardinality(1..k) = Cardinality(S)
      BY <2>2
    <3>. HIDE DEF S, k
    <3>. QED
      BY <2>1, <2>3, <3>1, FS_Injection
  <2>. QED
    BY <2>4 DEF Surjection
<1>. HIDE DEF k
<1>3. \A i \in 1..k : [unit |-> order[i], gen |-> held[order[i]]] \in Message
  <2>1. held \in [Units -> Nat]
    BY DEF Types
  <2>. QED
    BY <1>2, <2>1 DEF Message, Boots
<1>4. /\ all \in Seq(Message) /\ Len(all) = k
      /\ \A i \in 1..k : all[i].unit = order[i] /\ all[i].gen = held[order[i]]
  BY <1>1, <1>2, <1>3
<1>. HIDE DEF all
<1>5. offers = all
  BY <1>4
<1>6. size \in 0..k /\ size <= QueueMax /\ (size = k \/ size = QueueMax)
  <2>1. Len(offers) = k /\ QueueMax \in Nat
    BY <1>4, <1>5, Constants
  <2>2. size = IF QueueMax <= k THEN QueueMax ELSE k
    BY <1>1, <2>1, MinOfTwo
  <2>. QED
    BY <1>1, <2>1, <2>2
<1>. HIDE DEF size, offers
<1>7. q \in Seq(Message) /\ Len(q) = size /\ \A i \in 1..size : q[i] = all[i]
  <2>1. q = SubSeq(all, 1, size)
    BY <1>5
  <2>. HIDE DEF q
  <2>. QED
    BY <1>1, <1>4, <1>6, <2>1
<1>. HIDE DEF q
<1>8. \A i \in DOMAIN q : i \in 1..k /\ q[i].unit = order[i] /\ q[i].gen = held[order[i]]
  <2>1. DOMAIN q = 1..size
    BY <1>7
  <2>. QED
    BY <1>1, <1>4, <1>6, <1>7, <2>1
<1>9. CASE conn.client
  <2>1. OfferedAll(conn, order) = [conn EXCEPT !.queue = q]
    BY <1>9 DEF OfferedAll, q, offers, size, all
  <2>. DEFINE o == OfferedAll(conn, order)
  <2>2. o \in Connection /\ o.client = conn.client /\ o.queue = q
    BY <1>7, <2>1 DEF Connection
  <2>. HIDE DEF o
  <2>3. \A i \in DOMAIN o.queue : o.queue[i].gen = held[o.queue[i].unit]
    BY <1>8, <2>2
  <2>4. \A i, j \in DOMAIN o.queue : i # j => o.queue[i].unit # o.queue[j].unit
    BY <1>2, <1>8, <2>2
  <2>5. ASSUME NEW u \in Units, held[u] # 0
        PROVE  u \in Range(order) /\ (Full(o) \/ InQueue(o, u, held[u]))
    <3>1. PICK i \in 1..k : order[i] = u
      BY <1>0, <2>5
    <3>2. u \in Range(order)
      BY <1>2, <3>1 DEF Range
    <3>3. CASE i \in 1..size
      <4>1. i \in DOMAIN o.queue /\ o.queue[i] \in Message
        BY <1>7, <2>2, <3>3
      <4>2. o.queue[i].unit = u /\ o.queue[i].gen = held[u]
        BY <1>8, <2>2, <3>1, <4>1
      <4>3. o.queue[i] = [unit |-> u, gen |-> held[u]]
        BY <4>1, <4>2 DEF Message
      <4>. QED
        BY <3>2, <4>1, <4>3 DEF InQueue
    <3>4. CASE i \notin 1..size
      <4>1. size = QueueMax
        BY <1>6, <3>1, <3>4
      <4>. QED
        BY <1>7, <1>9, <2>2, <3>2, <4>1 DEF Full
    <3>. QED
      BY <3>3, <3>4
  <2>. QED
    BY <1>6, <1>7, <2>2, <2>3, <2>4, <2>5 DEF o
<1>10. CASE ~conn.client
  <2>1. OfferedAll(conn, order) = conn
    BY <1>10 DEF OfferedAll
  <2>2. DOMAIN <<>> = {} /\ Len(<<>>) = 0 /\ QueueMax \in Nat
    BY Constants
  <2>. DEFINE o == OfferedAll(conn, order)
  <2>3. o \in Connection /\ o.client = conn.client /\ o.queue = <<>>
    BY <2>1
  <2>. HIDE DEF o
  <2>4. /\ Len(o.queue) <= QueueMax
        /\ \A i \in DOMAIN o.queue : o.queue[i].gen = held[o.queue[i].unit]
        /\ \A i, j \in DOMAIN o.queue : i # j => o.queue[i].unit # o.queue[j].unit
    BY <2>2, <2>3
  <2>. QED
    BY <1>10, <2>3, <2>4 DEF o
<1>. QED
  BY <1>9, <1>10

\* on_shipper: refused, accepted with everything offered, or not registered.
LEMMA OnShipperEffect ==
    ASSUME Types, Linked, NEW registered \in BOOLEAN, OnShipper(registered)
    PROVE  LET c == backlog[1]
           IN  /\ backlog # <<>> /\ c \in Conns /\ c # shipper
               /\ backlog' = Tail(backlog)
               /\ conns' \in [Conns -> Connection]
               /\ \A x \in Conns \ {c} : conns'[x] = conns[x]
               /\ conns[c].queue = <<>>
               /\ conns'[c].client = conns[c].client
               /\ Len(conns'[c].queue) <= QueueMax
               /\ \A i \in DOMAIN conns'[c].queue :
                     conns'[c].queue[i].gen = held[conns'[c].queue[i].unit]
               /\ \A i, j \in DOMAIN conns'[c].queue :
                     i # j => conns'[c].queue[i].unit # conns'[c].queue[j].unit
               /\ \/ shipper # None /\ shipper' = shipper /\ odd' = odd
                        /\ conns'[c].queue = <<>>
                  \/ shipper = None /\ shipper' = c /\ odd' = odd /\ conns'[c].server
                  \/ shipper = None /\ shipper' = None /\ odd = "none" /\ odd' = "registration"
<1>. DEFINE c == backlog[1]
<1>1. backlog \in Seq(Conns) /\ backlog # <<>> /\ backlog' = Tail(backlog)
  BY DEF Types, OnShipper
<1>2. 1 \in DOMAIN backlog /\ c \in Conns /\ Head(backlog) = c
  BY <1>1
<1>3. c # shipper /\ conns[c].queue = <<>>
  BY <1>2 DEF Linked
<1>4. conns \in [Conns -> Connection] /\ conns[c] \in Connection
  BY <1>2 DEF Types
<1>. HIDE DEF c
<1>5. CASE Refused
  <2>1. conns' = [conns EXCEPT ![c].server = FALSE, ![c].reset = FALSE]
        /\ shipper' = shipper /\ shipper # None /\ odd' = odd
    BY <1>2, <1>5 DEF OnShipper, Refused
  <2>. DEFINE e == [conns[c] EXCEPT !.server = FALSE, !.reset = FALSE]
  <2>2. conns' = [conns EXCEPT ![c] = e]
    BY <1>2, <1>4, <2>1
  <2>3. e \in Connection /\ e.client = conns[c].client /\ e.queue = <<>>
    BY <1>3, <1>4 DEF Connection
  <2>. HIDE DEF e
  <2>4. conns' \in [Conns -> Connection] /\ conns'[c] = e /\ \A x \in Conns \ {c} : conns'[x] = conns[x]
    BY <1>2, <1>4, <2>2, <2>3
  <2>5. DOMAIN <<>> = {} /\ Len(<<>>) <= QueueMax
    BY Constants
  <2>. QED
    BY <1>1, <1>2, <1>3, <2>1, <2>3, <2>4, <2>5 DEF c
<1>6. CASE ~Refused
  <2>1. PICK order \in SetToSeqs({u \in Units : held[u] # 0}) :
           LET conn == OfferedAll(conns[c], order)
           IN  /\ conns' = [conns EXCEPT ![c] = [conn EXCEPT !.server = registered]]
               /\ shipper' = IF registered THEN c ELSE shipper
    BY <1>2, <1>6 DEF OnShipper
  <2>. DEFINE o == OfferedAll(conns[c], order)
              e == [o EXCEPT !.server = registered]
  <2>2. /\ o \in Connection /\ o.client = conns[c].client
        /\ Len(o.queue) <= QueueMax
        /\ \A i \in DOMAIN o.queue : o.queue[i].gen = held[o.queue[i].unit]
        /\ \A i, j \in DOMAIN o.queue : i # j => o.queue[i].unit # o.queue[j].unit
    BY <1>3, <1>4, OfferedAllFacts
  <2>. HIDE DEF o
  <2>3. e \in Connection /\ e.client = conns[c].client /\ e.queue = o.queue /\ e.server = registered
    BY <2>2 DEF Connection
  <2>4. conns' = [conns EXCEPT ![c] = e]
    BY <2>1 DEF o
  <2>. HIDE DEF e
  <2>5. conns' \in [Conns -> Connection] /\ conns'[c] = e /\ \A x \in Conns \ {c} : conns'[x] = conns[x]
    BY <1>2, <1>4, <2>3, <2>4
  <2>6. shipper = None /\ shipper' = (IF registered THEN c ELSE shipper)
        /\ (registered \/ odd = "none") /\ odd' = (IF registered THEN odd ELSE "registration")
    BY <1>6, <2>1 DEF OnShipper, Refused
  <2>. QED
    BY <1>1, <1>2, <1>3, <2>2, <2>3, <2>5, <2>6 DEF c
<1>. QED
  BY <1>5, <1>6

\* on_shipper_gone: the error first, then the end of file.
LEMMA OnShipperGoneEffect ==
    ASSUME Types, OnShipperGone
    PROVE  /\ shipper \in Conns /\ shipper # None /\ ~conns[shipper].client
           /\ conns' \in [Conns -> Connection]
           /\ \A x \in Conns \ {shipper} : conns'[x] = conns[x]
           /\ \/ /\ shipper' = shipper
                 /\ conns'[shipper].client = conns[shipper].client
                 /\ conns'[shipper].server = conns[shipper].server
                 /\ conns'[shipper].queue = conns[shipper].queue
              \/ shipper' = None /\ conns'[shipper] = Free
<1>. DEFINE c == shipper
<1>1. c \in Conns /\ c # None /\ ~conns[c].client /\ conns[c] \in Connection
      /\ conns \in [Conns -> Connection]
  BY DEF Types, OnShipperGone
<1>2. Free \in Connection
  BY DEF Free, Connection
<1>3. CASE conns[c].reset
  <2>. DEFINE e == [conns[c] EXCEPT !.reset = FALSE]
  <2>1. conns' = [conns EXCEPT ![c] = e] /\ shipper' = shipper
    BY <1>3 DEF OnShipperGone
  <2>2. e \in Connection /\ e.client = conns[c].client /\ e.server = conns[c].server
        /\ e.queue = conns[c].queue
    BY <1>1 DEF Connection
  <2>. HIDE DEF e
  <2>. QED
    BY <1>1, <2>1, <2>2
<1>4. CASE ~conns[c].reset
  <2>1. conns' = [conns EXCEPT ![c] = Free] /\ shipper' = None
    BY <1>4 DEF OnShipperGone
  <2>. QED
    BY <1>1, <1>2, <2>1
<1>. QED
  BY <1>3, <1>4
=============================================================================

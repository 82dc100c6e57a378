------------------------------ MODULE LogFiles ------------------------------
(***************************************************************************)
(* The parts of the log writer that touch no descriptor: splitting reads   *)
(* into lines, and the rotation of one unit's files (crate oxinit-log).    *)
(*                                                                         *)
(* Output is a sequence of pieces.  A piece is some text with its place    *)
(* `n` in everything its unit wrote, the start `gen` of the unit it was    *)
(* written by, and whether it ends a line (`nl`).  A line is a sequence of *)
(* pieces; a record is a line with its timestamp, of which only the length *)
(* matters here.  The files of a unit are a function from 0 (the live one) *)
(* and the generations 1..Keep to the lines they hold.                     *)
(***************************************************************************)
EXTENDS Naturals, Sequences, SequencesExt

CONSTANTS
    MaxLine,    \* MAX_LINE: the partial line kept before it is broken
    MaxSize,    \* Rotation::max_size
    Keep        \* Rotation::keep

ASSUME LogFilesAssumption ==
    /\ MaxLine \in Nat \ {0}
    /\ MaxSize \in Nat
    /\ Keep \in Nat

(* Splitter::push: every complete line of a read, and what is left over.   *)
(* The length is checked once, after the whole read was taken in.          *)
Took(split, piece) ==
    LET line == Append(split.partial, piece)
    IN  IF piece.nl
        THEN [lines |-> Append(split.lines, line), partial |-> <<>>]
        ELSE [split EXCEPT !.partial = line]

Push(partial, chunk) ==
    LET split[i \in 0..Len(chunk)] ==
            IF i = 0 THEN [lines |-> <<>>, partial |-> partial]
            ELSE Took(split[i - 1], chunk[i])
        whole == split[Len(chunk)]
    IN  IF Len(whole.partial) >= MaxLine
        THEN [lines |-> Append(whole.lines, whole.partial), partial |-> <<>>]
        ELSE whole

(* Splitter::flush, as the lines it yields: none or one.                   *)
Flush(partial) == IF partial = <<>> THEN <<>> ELSE <<partial>>

(* record: the line with its stamp in front and a newline behind.          *)
RecordSize(line) == Len(line) + 1

FileSize(file) ==
    LET size[i \in 0..Len(file)] ==
            IF i = 0 THEN 0 ELSE size[i - 1] + RecordSize(file[i])
    IN  size[Len(file)]

(* Asked before the write, so that a file does not overshoot by the length *)
(* of its last record; an empty file takes a record of any length.         *)
ShouldRotate(size, line) ==
    /\ size > 0
    /\ size + RecordSize(line) > MaxSize

Unlink(n) == [from |-> n, to |-> n]
Rename(n) == [from |-> n, to |-> n + 1]

(* Mutant: the live file first.                                            *)
Plan_LowestFirst ==
    IF Keep = 0
    THEN <<Unlink(0)>>
    ELSE <<Unlink(Keep)>> \o [i \in 1..Keep |-> Rename(i - 1)]

(* Rotation::plan: highest generation first, the live file last.           *)
Plan ==
    IF Keep = 0
    THEN <<Unlink(0)>>
    ELSE <<Unlink(Keep)>> \o [i \in 1..Keep |-> Rename(Keep - i)]

(* One move of a rotation.  A file that is not there yet is the normal     *)
(* case, and the error is ignored.                                         *)
Moved(files, move) ==
    LET gone == DOMAIN files \ {move.from}
    IN  CASE move.from \notin DOMAIN files -> files
          [] move.from = move.to -> [n \in gone |-> files[n]]
          [] OTHER -> [n \in gone \cup {move.to} |->
                          IF n = move.to THEN files[move.from] ELSE files[n]]

(* OpenOptions::create(true).append(true) of the live file.                *)
Opened(files) ==
    [n \in DOMAIN files \cup {0} |-> IF n \in DOMAIN files THEN files[n] ELSE <<>>]

(* Everything the files hold, oldest generation first.                     *)
Held(files) ==
    FlattenSeq([i \in 1..(Keep + 1) |->
        IF Keep + 1 - i \in DOMAIN files THEN files[Keep + 1 - i] ELSE <<>>])
=============================================================================

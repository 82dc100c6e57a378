---------------------------- MODULE LogShipping -----------------------------
(***************************************************************************)
(* How the output of services gets into files.  PID 1 makes one pipe per   *)
(* start, keeps the read end and offers it to whichever log writer is      *)
(* connected (oxinit's logs.rs); the log writer, oxlogd, polls, reads,     *)
(* splits and writes (oxlogd's main.rs), and may die at any point of that, *)
(* a rotation included.  A second log writer may be run by hand.           *)
(*                                                                         *)
(* Steps are those of three kinds of actor: PID 1's handlers run whole,    *)
(* because nothing interrupts them; a service writes or exits; a log       *)
(* writer's loop is cut at every system call a crash could fall between.   *)
(***************************************************************************)
EXTENDS LogFiles, FiniteSets, FiniteSetsExt

CONSTANTS
    Units,      \* services with output = "log"
    Writers,    \* processes that may run oxlogd
    Oxlogd,     \* the one PID 1 supervises
    Conns,      \* names of connections (bound: how many exist at once)
    ReadSize,   \* READ_SIZE: pieces taken by one read
    PipeSize,   \* pieces a pipe holds before its writer blocks
    QueueMax,   \* messages a connection holds before DONTWAIT gives up
    Found,      \* how many files of each unit an earlier boot left
    Ends,       \* which of the pieces a unit writes end a line
    MaxPieces,  \* bound: pieces a unit ever writes
    MaxGens,    \* bound: starts of a unit
    MaxCrashes  \* bound: deaths of a log writer

ASSUME LogShippingAssumption ==
    /\ IsFiniteSet(Units)
    /\ Oxlogd \in Writers
    /\ "none" \notin Conns
    /\ {ReadSize, PipeSize, QueueMax} \subseteq Nat \ {0}
    /\ Found \in 0..(Keep + 1)
    /\ {MaxPieces, MaxGens, MaxCrashes} \subseteq Nat

VARIABLES
    pipes,      \* unit -> its pipes, one per start: what is in them, whether anyone can
                \* write, and (history) how much was written and how much destroyed unread
    held,       \* Logs.held: unit -> the start whose read end PID 1 keeps
    conns,      \* connection -> its two ends and the messages on their way
    backlog,    \* connections waiting to be accepted
    shipper,    \* Logs.shipper
    writer,     \* writer -> the state of its process
    disk,       \* unit -> its files
    recorded,   \* history: unit -> every line ever written to its files
    overlapped, \* history: units started before their earlier starts were done: with
                \* someone left who writes, or more than one read left in a pipe
    missed,     \* history: units whose last offer found the queue of a live shipper full
    sent,       \* unit -> pieces written so far
    crashes,    \* deaths of a log writer so far
    odd         \* bound: the one thing out of the ordinary that has happened

pid1 == <<held, shipper, backlog>>
vars == <<pipes, held, conns, backlog, shipper, writer, disk, recorded, overlapped, missed, sent, crashes, odd>>

None == "none"

Free == [client |-> FALSE, server |-> FALSE, reset |-> FALSE, queue |-> <<>>]
Down == [pc |-> "down", conn |-> None, sources |-> <<>>, ready |-> {}, closed |-> {},
         lines |-> <<>>, moves |-> <<>>, sinks |-> <<>>]

(* What an earlier boot left: files of one short line each.                *)
Earlier == <<[n |-> 0, gen |-> 0, nl |-> TRUE]>>

Init ==
    /\ pipes = [u \in Units |-> <<>>]
    /\ held = [u \in Units |-> 0]
    /\ conns = [c \in Conns |-> Free]
    /\ backlog = <<>>
    /\ shipper = None
    /\ writer = [w \in Writers |-> Down]
    /\ disk = [u \in Units |-> [n \in 0..(Found - 1) |-> <<Earlier>>]]
    /\ recorded = [u \in Units |-> [i \in 1..Found |-> Earlier]]
    /\ overlapped = {}
    /\ missed = {}
    /\ sent = [u \in Units |-> 0]
    /\ crashes = 0
    /\ odd = "none"

-----------------------------------------------------------------------------
(* PID 1: logs.rs.                                                          *)

Full(conn) == conn.client /\ Len(conn.queue) = QueueMax

(* offer: one message, never waiting for room.  A peer that is gone, or a  *)
(* full queue, costs the message and nothing else.                          *)
Offered(conn, u, gen) ==
    IF conn.client /\ ~Full(conn)
    THEN [conn EXCEPT !.queue = Append(@, [unit |-> u, gen |-> gen])]
    ELSE conn

InQueue(conn, u, gen) == \E i \in DOMAIN conn.queue : conn.queue[i] = [unit |-> u, gen |-> gen]

(* Who has the read end of a start's pipe: PID 1 that of the latest start, *)
(* a log writer those it received, a connection those on their way.        *)
HasReader(u, gen) ==
    \/ held[u] = gen
    \/ \E c \in Conns : InQueue(conns[c], u, gen)
    \/ \E w \in Writers : \E n \in DOMAIN writer[w].sources :
            writer[w].sources[n].unit = u /\ writer[w].sources[n].gen = gen

(* The kernel's part: with the last read end goes what nobody read, and    *)
(* who still writes gets SIGPIPE.                                           *)
Destroyed(pipe) == [pipe EXCEPT !.data = <<>>, !.open = FALSE, !.lost = @ + Len(pipe.data)]

Swept(u) ==
    [gen \in DOMAIN pipes[u] |->
        IF HasReader(u, gen)' THEN pipes[u][gen] ELSE Destroyed(pipes[u][gen])]

NewPipe == [data |-> <<>>, open |-> TRUE, wrote |-> 0, lost |-> 0]

(* Logs::pipe, for a start of the unit: offered first, then kept in place  *)
(* of the previous start's, whose read end is closed whether or not a log  *)
(* writer has one.  Someone may still hold the write end of an earlier     *)
(* start: what it forked, or the process itself (runs start and second).   *)
Start(u) ==
    LET gen == Len(pipes[u]) + 1
    IN  /\ gen <= MaxGens
        /\ UNCHANGED <<backlog, shipper, writer, disk, recorded, sent, crashes, odd>>
        /\ conns' = IF shipper = None THEN conns
                    ELSE [conns EXCEPT ![shipper] = Offered(@, u, gen)]
        /\ held' = [held EXCEPT ![u] = gen]
        /\ missed' = IF shipper # None /\ Full(conns[shipper])
                     THEN missed \cup {u} ELSE missed \ {u}
        /\ pipes' = [pipes EXCEPT ![u] = Append(Swept(u), NewPipe)]
        /\ overlapped' =
                IF \E earlier \in DOMAIN pipes[u] :
                        Swept(u)[earlier].open \/ Len(Swept(u)[earlier].data) > ReadSize
                THEN overlapped \cup {u} ELSE overlapped

(* Mutant: only starts to come are offered.                                *)
OfferedAll_None(conn, order) == conn

(* Everything already running, when a shipper connects.  The order of      *)
(* Logs.held among units is that of their last starts; any order is taken. *)
(* Each is offered as a start is, so the first that fit are in the queue.  *)
OfferedAll(conn, order) ==
    LET offers == conn.queue \o [i \in DOMAIN order |->
                                     [unit |-> order[i], gen |-> held[order[i]]]]
    IN  IF conn.client
        THEN [conn EXCEPT !.queue = SubSeq(offers, 1, Min({QueueMax, Len(offers)}))]
        ELSE conn

(* One at a time: a second shipper is closed again.                        *)
Refused == shipper # None

(* on_shipper and Logs::accept; registered is whether epoll took the       *)
(* descriptor.  If not, what was offered stays in the queue and the        *)
(* connection is closed behind it.                                         *)
OnShipper(registered) ==
    /\ backlog # <<>>
    /\ registered \/ (odd = "none" /\ ~Refused)
    /\ odd' = IF registered THEN odd ELSE "registration"
    /\ backlog' = Tail(backlog)
    /\ LET c == Head(backlog)
       IN  IF Refused
           THEN /\ conns' = [conns EXCEPT ![c].server = FALSE, ![c].reset = FALSE]
                /\ UNCHANGED <<shipper, missed>>
           ELSE \E order \in SetToSeqs({u \in Units : held[u] # 0}) :
                LET conn == OfferedAll(conns[c], order)
                IN  /\ conns' = [conns EXCEPT ![c] = [conn EXCEPT !.server = registered]]
                    /\ shipper' = IF registered THEN c ELSE shipper
                    /\ missed' = {u \in Range(order) : Full(conn) /\ ~InQueue(conn, u, held[u])}
    /\ UNCHANGED <<pipes, held, writer, disk, recorded, overlapped, sent, crashes>>

(* on_shipper_gone: the socket is readable because its peer closed.  A     *)
(* peer that left messages unread is an error first, which                 *)
(* still_connected takes for a peer that is there; the socket stays        *)
(* readable, and the next turn of the loop reads the end of file.          *)
OnShipperGone ==
    /\ shipper # None
    /\ ~conns[shipper].client
    /\ IF conns[shipper].reset
       THEN /\ conns' = [conns EXCEPT ![shipper].reset = FALSE]
            /\ UNCHANGED shipper
       ELSE /\ conns' = [conns EXCEPT ![shipper] = Free]
            /\ shipper' = None
    /\ UNCHANGED <<pipes, held, backlog, writer, disk, recorded, overlapped, missed, sent, crashes, odd>>

-----------------------------------------------------------------------------
(* A service: its end of the pipe.  A process of an earlier start that is  *)
(* still there writes into the pipe it was started with.                   *)

Write(u, gen) ==
    /\ pipes[u][gen].open
    /\ Len(pipes[u][gen].data) < PipeSize
    /\ sent[u] < MaxPieces
    /\ LET piece == [n |-> sent[u] + 1, gen |-> gen, nl |-> sent[u] + 1 \in Ends]
       IN  pipes' = [pipes EXCEPT ![u][gen].data = Append(@, piece), ![u][gen].wrote = @ + 1]
    /\ sent' = [sent EXCEPT ![u] = @ + 1]
    /\ UNCHANGED <<pid1, conns, writer, disk, recorded, overlapped, missed, crashes, odd>>

(* The last write end of a start's pipe is closed.                         *)
Exit(u, gen) ==
    /\ pipes[u][gen].open
    /\ pipes' = [pipes EXCEPT ![u][gen].open = FALSE]
    /\ UNCHANGED <<pid1, conns, writer, disk, recorded, overlapped, missed, sent, crashes, odd>>

-----------------------------------------------------------------------------
(* A log writer: oxlogd's main.rs.                                         *)

(* The process ends: its socket closes, what it had not read of it is the  *)
(* peer's error, and the read ends it had or was sent are closed.          *)
Ended(w) ==
    LET c == writer[w].conn
        gone == [conns[c] EXCEPT !.client = FALSE, !.queue = <<>>,
                                 !.reset = conns[c].queue # <<>>]
    IN  /\ writer' = [writer EXCEPT ![w] = Down]
        /\ conns' = [conns EXCEPT ![c] = IF gone.server THEN gone ELSE Free]
        /\ pipes' = [u \in Units |-> Swept(u)]

(* run, connect.  The supervised one is started again only after PID 1     *)
(* has seen the hangup of the last: a process closes its socket before its *)
(* SIGCHLD is sent, and restart-sec passes in between.                     *)
Connect(w) ==
    /\ writer[w].pc = "down"
    /\ IF w = Oxlogd
       THEN /\ shipper # None => conns[shipper].client
            /\ UNCHANGED odd
       ELSE odd = "none" /\ odd' = "second writer"
    /\ \E c \in Conns : conns[c] = Free
    /\ LET c == CHOOSE c \in Conns : conns[c] = Free
       IN  /\ conns' = [conns EXCEPT ![c].client = TRUE, ![c].server = TRUE]
           /\ backlog' = Append(backlog, c)
           /\ writer' = [writer EXCEPT ![w].pc = "poll", ![w].conn = c]
    /\ UNCHANGED <<pipes, held, shipper, disk, recorded, overlapped, missed, sent, crashes>>

Pipe(source) == pipes[source.unit][source.gen]

(* poll: one flag per descriptor.  Index 0 is the socket, index n the n-th *)
(* source; an end of file is readiness too.                                 *)
Readable(w) ==
    LET c == conns[writer[w].conn]
    IN  {n \in DOMAIN writer[w].sources :
            LET pipe == Pipe(writer[w].sources[n]) IN pipe.data # <<>> \/ ~pipe.open}
        \cup (IF c.queue # <<>> \/ ~c.server THEN {0} ELSE {})

Poll(w) ==
    /\ writer[w].pc = "poll"
    /\ Readable(w) # {}
    /\ writer' = [writer EXCEPT ![w].pc = "drain", ![w].ready = Readable(w)]
    /\ UNCHANGED <<pipes, pid1, conns, disk, recorded, overlapped, missed, sent, crashes, odd>>

Lines(u, lines) == [i \in DOMAIN lines |-> [unit |-> u, line |-> lines[i]]]

(* Mutant: a short read is taken for the end of file.                      *)
Drained_ShortRead(source) ==
    LET pipe == Pipe(source)
        size == Min({ReadSize, Len(pipe.data)})
        split == Push(source.partial, SubSeq(pipe.data, 1, size))
    IN  IF size < ReadSize
        THEN [size |-> size, eof |-> TRUE, lines |-> split.lines \o Flush(split.partial),
              partial |-> <<>>]
        ELSE [size |-> size, eof |-> FALSE, lines |-> split.lines, partial |-> split.partial]

(* drain: one read of one source, and the lines it completes; at the end   *)
(* of file the line that never was.                                         *)
Drained(source) ==
    LET pipe == Pipe(source)
        size == Min({ReadSize, Len(pipe.data)})
        split == Push(source.partial, SubSeq(pipe.data, 1, size))
    IN  IF size = 0
        THEN [size |-> 0, eof |-> TRUE, lines |-> Flush(source.partial), partial |-> <<>>]
        ELSE [size |-> size, eof |-> FALSE, lines |-> split.lines, partial |-> split.partial]

(* Mutant: newest first.                                                   *)
NextReady_Newest(indices) == Max(indices)

(* Sources are gone through in the order they were received.               *)
NextReady(indices) == Min(indices)

Drain(w) ==
    /\ writer[w].pc = "drain"
    /\ writer[w].lines = <<>>
    /\ writer[w].ready \ {0} # {}
    /\ LET n == NextReady(writer[w].ready \ {0})
           source == writer[w].sources[n]
           drained == Drained(source)
       IN   /\ pipes' = [pipes EXCEPT ![source.unit][source.gen].data =
                            SubSeq(@, drained.size + 1, Len(@))]
            /\ writer' = [writer EXCEPT
                    ![w].sources[n].partial = drained.partial,
                    ![w].lines = Lines(source.unit, drained.lines),
                    ![w].closed = IF drained.eof THEN @ \cup {n} ELSE @,
                    ![w].ready = @ \ {n}]
    /\ UNCHANGED <<pid1, conns, disk, recorded, overlapped, missed, sent, crashes, odd>>

(* retain: the elements at some places of a sequence, in its order.        *)
Ascending(places) ==
    CHOOSE f \in [1..Cardinality(places) -> places] :
        \A i, j \in DOMAIN f : i < j => f[i] < f[j]

Retained(s, places) == [i \in 1..Cardinality(places) |-> s[Ascending(places)[i]]]

Kept(w) == Retained(writer[w].sources, DOMAIN writer[w].sources \ writer[w].closed)

(* Mutant: partial lines are dropped on the way out.                       *)
LastLines_None(sources) == <<>>

(* drain_all: despite its name, the partial lines and not the pipes.       *)
LastLines(sources) ==
    LET left == Retained(sources, {n \in DOMAIN sources : sources[n].partial # <<>>})
    IN  [i \in DOMAIN left |-> [unit |-> left[i].unit, line |-> left[i].partial]]

Flushed(sources) == [n \in DOMAIN sources |-> [sources[n] EXCEPT !.partial = <<>>]]

Received(message) == [unit |-> message.unit, gen |-> message.gen, partial |-> <<>>]

(* serve, after the sources: those at their end are dropped, and the       *)
(* socket is read if it was ready.                                          *)

Accept(w) ==
    LET c == writer[w].conn
        turn == [writer[w] EXCEPT !.sources = Kept(w), !.closed = {}, !.ready = {}]
    IN  /\ writer[w].pc = "drain"
        /\ writer[w].lines = <<>>
        /\ writer[w].ready \subseteq {0}
        /\ IF writer[w].ready = {}
           THEN /\ writer' = [writer EXCEPT ![w] = [turn EXCEPT !.pc = "poll"]]
                /\ UNCHANGED conns
           ELSE IF conns[c].queue # <<>>
           THEN /\ writer' = [writer EXCEPT ![w] = [turn EXCEPT !.pc = "poll",
                        !.sources = Append(@, Received(Head(conns[c].queue)))]]
                /\ conns' = [conns EXCEPT ![c].queue = Tail(@)]
           ELSE /\ writer' = [writer EXCEPT ![w] = [turn EXCEPT !.pc = "leave",
                        !.lines = LastLines(turn.sources),
                        !.sources = Flushed(turn.sources)]]
                /\ UNCHANGED conns
        /\ UNCHANGED <<pipes, pid1, disk, recorded, overlapped, missed, sent, crashes, odd>>

-----------------------------------------------------------------------------
(* write, open and rotate.                                                 *)

(* Mutant: a file opened again is taken to be empty.                       *)
OpenedSize_Zero(w, u) == IF u \in DOMAIN writer[w].sinks THEN writer[w].sinks[u] ELSE 0

(* open: the size is asked of the file system once, and kept from then on. *)
OpenedSize(w, u) ==
    IF u \in DOMAIN writer[w].sinks THEN writer[w].sinks[u]
    ELSE IF 0 \in DOMAIN disk[u] THEN FileSize(disk[u][0]) ELSE 0

WithSink(sinks, u, size) ==
    [v \in DOMAIN sinks \cup {u} |-> IF v = u THEN size ELSE sinks[v]]

(* One record: into the open file if it fits, else after a rotation, whose *)
(* moves are steps of their own.  After them the handle is dropped and the *)
(* file opened anew, empty, where any record fits.                          *)
WriteLine(w) ==
    /\ writer[w].lines # <<>>
    /\ writer[w].moves = <<>>
    /\ LET u == Head(writer[w].lines).unit
           line == Head(writer[w].lines).line
           size == OpenedSize(w, u)
           files == Opened(disk[u])
       IN  IF ShouldRotate(size, line)
           THEN /\ writer' = [writer EXCEPT ![w].moves = Plan,
                                            ![w].sinks = WithSink(@, u, size)]
                /\ disk' = [disk EXCEPT ![u] = files]
                /\ UNCHANGED recorded
           ELSE /\ writer' = [writer EXCEPT ![w].lines = Tail(@),
                        ![w].sinks = WithSink(@, u, size + RecordSize(line))]
                /\ disk' = [disk EXCEPT ![u] = [files EXCEPT ![0] = Append(@, line)]]
                /\ recorded' = [recorded EXCEPT ![u] = Append(@, line)]
    /\ UNCHANGED <<pipes, pid1, conns, overlapped, missed, sent, crashes, odd>>

(* rotate, one move; sinks.remove after the last.                          *)
Rotate(w) ==
    /\ writer[w].moves # <<>>
    /\ LET u == Head(writer[w].lines).unit
           rest == Tail(writer[w].moves)
           sinks == writer[w].sinks
       IN  /\ disk' = [disk EXCEPT ![u] = Moved(@, Head(writer[w].moves))]
           /\ writer' = [writer EXCEPT ![w].moves = rest,
                    ![w].sinks = IF rest # <<>> THEN sinks
                                 ELSE [v \in DOMAIN sinks \ {u} |-> sinks[v]]]
    /\ UNCHANGED <<pipes, pid1, conns, recorded, overlapped, missed, sent, crashes, odd>>

(* open or write_all fails: the record is gone, and the loop goes on.      *)
RecordRefused(w) ==
    /\ writer[w].lines # <<>>
    /\ writer[w].moves = <<>>
    /\ odd = "none"
    /\ odd' = "record"
    /\ writer' = [writer EXCEPT ![w].lines = Tail(@)]
    /\ UNCHANGED <<pipes, pid1, conns, disk, recorded, overlapped, missed, sent, crashes>>

(* The socket was closed and everything buffered was written: run returns. *)
Leave(w) ==
    /\ writer[w].pc = "leave"
    /\ writer[w].lines = <<>>
    /\ UNCHANGED <<pid1, disk, recorded, overlapped, missed, sent, crashes, odd>>
    /\ Ended(w)

Crash(w) ==
    /\ writer[w].pc # "down"
    /\ crashes < MaxCrashes
    /\ crashes' = crashes + 1
    /\ UNCHANGED <<pid1, disk, recorded, overlapped, missed, sent, odd>>
    /\ Ended(w)

-----------------------------------------------------------------------------
WriterStep(w) ==
    \/ Poll(w)
    \/ Drain(w)
    \/ Accept(w)
    \/ WriteLine(w)
    \/ Rotate(w)
    \/ Leave(w)

Next ==
    \/ \E u \in Units : Start(u)
    \/ \E u \in Units : \E gen \in DOMAIN pipes[u] : Write(u, gen)
    \/ \E u \in Units : \E gen \in DOMAIN pipes[u] : Exit(u, gen)
    \/ \E registered \in BOOLEAN : OnShipper(registered)
    \/ OnShipperGone
    \/ \E w \in Writers : Connect(w)
    \/ \E w \in Writers : WriterStep(w)
    \/ \E w \in Writers : RecordRefused(w)
    \/ \E w \in Writers : Crash(w)

(* PID 1's loop answers its descriptors, a log writer that runs goes on    *)
(* running, and the supervised one is restarted (restart = "always").      *)
Fairness ==
    /\ WF_vars(OnShipper(TRUE) \/ OnShipperGone)
    /\ WF_vars(Connect(Oxlogd))
    /\ \A w \in Writers : WF_vars(WriterStep(w))

Spec == Init /\ [][Next]_vars /\ Fairness

-----------------------------------------------------------------------------
(* Types, with the two facts the code's fields stand for: PID 1 keeps the  *)
(* read end of the latest start of every unit (Logs.held), and a size the  *)
(* log writer remembers is the size of the file (Sink.size).               *)
LogTypeOK ==
    /\ \A u \in Units : held[u] = Len(pipes[u]) /\ held[u] <= MaxGens
    /\ \A u \in Units : DOMAIN disk[u] \subseteq 0..Keep
    /\ shipper # None => conns[shipper].server
    /\ \A c \in Conns : Len(conns[c].queue) <= QueueMax
    /\ \A w \in Writers :
        /\ writer[w].pc \in {"down", "poll", "drain", "leave"}
        /\ writer[w].pc # "down" => conns[writer[w].conn].client
        /\ \A n \in DOMAIN writer[w].sources : Len(writer[w].sources[n].partial) < MaxLine
        /\ writer[w].moves = <<>> =>
            \A u \in DOMAIN writer[w].sinks : writer[w].sinks[u] = FileSize(disk[u][0])

(* Output as lines, a sequence of sequences of pieces: the order of two of  *)
(* its places, and what it holds.                                           *)
Precedes(i, k, j, l) == i < j \/ (i = j /\ k < l)

Pieces(lines) == UNION {Range(lines[i]) : i \in DOMAIN lines}

Reading(u) ==
    {w \in Writers : \E n \in DOMAIN writer[w].sources : writer[w].sources[n].unit = u}

PendingOf(u, lines) ==
    [i \in DOMAIN lines |-> IF lines[i].unit = u THEN lines[i].line ELSE <<>>]

PartialOf(u, gen, sources) ==
    [i \in DOMAIN sources |->
        IF sources[i].unit = u /\ sources[i].gen = gen THEN sources[i].partial ELSE <<>>]

(* What is known of the output of one start of a unit, in the order it     *)
(* would be read: what reached the files, what a log writer has read, and  *)
(* what is still in the pipe, which is empty once nobody can read it.      *)
Trail(u, gen, w) ==
    recorded[u] \o PendingOf(u, writer[w].lines)
        \o PartialOf(u, gen, writer[w].sources)
        \o <<pipes[u][gen].data>>

InOrder(lines, gen) ==
    \A i, j \in DOMAIN lines : \A k \in DOMAIN lines[i], l \in DOMAIN lines[j] :
        /\ Precedes(i, k, j, l)
        /\ lines[i][k].gen = gen /\ lines[j][l].gen = gen
        => lines[i][k].n < lines[j][l].n

(* What one start of a service wrote is in the record, in a log writer or  *)
(* in its pipe, once and in order, but for three losses.  A crash of the   *)
(* log writer, or a record the disk refuses, costs it at most what one     *)
(* read took and one unfinished line.  A start that was replaced loses     *)
(* what is unread in its pipe, at most a pipe full, when the last read end *)
(* is closed: with the replacement itself if no log writer had a copy, or  *)
(* else with the log writer that had it.  Nothing else costs it anything:  *)
(* not a restart of oxlogd, a second one, a start beside a process of the  *)
(* one before, or a connection closed with descriptors in flight (logs.rs: *)
(* "a reconnecting oxlogd is handed every descriptor again and the         *)
(* services never notice there was a gap", which is true of the latest     *)
(* start only).                                                            *)
LossBounded ==
    \A u \in Units : \A gen \in DOMAIN pipes[u] : \A w \in Writers :
        LET trail == Trail(u, gen, w)
            pipe == pipes[u][gen]
        IN  (Reading(u) \subseteq {w} /\ \A other \in Writers \ {w} : writer[other].lines = <<>>)
            => LET known == {piece \in Pieces(trail) : piece.gen = gen}
                   missing == pipe.wrote - Cardinality(known)
                   mishaps == crashes + (IF odd = "record" THEN 1 ELSE 0)
               IN  /\ InOrder(trail, gen)
                   /\ 0 <= missing /\ missing <= mishaps * (ReadSize + MaxLine - 1) + pipe.lost
                   /\ pipe.lost <= IF gen < held[u] THEN PipeSize ELSE 0

(* The comment in Logs::pipe, that the shipper "already has its own copy"  *)
(* of the read end a start replaces, is true when, and only when, a log    *)
(* writer is connected and its queue had room for the offer: then the      *)
(* latest start of the unit is in that queue or among the sources of that  *)
(* log writer until its end of file, so that replacing it destroys nothing.*)
CopyKept ==
    \A u \in Units :
        held[u] # 0 /\ shipper # None /\ conns[shipper].client /\ u \notin missed =>
            LET pipe == pipes[u][held[u]]
            IN  \/ InQueue(conns[shipper], u, held[u])
                \/ \E w \in Writers : \E n \in DOMAIN writer[w].sources :
                        /\ writer[w].conn = shipper
                        /\ writer[w].sources[n].unit = u
                        /\ writer[w].sources[n].gen = held[u]
                \/ pipe.data = <<>> /\ ~pipe.open

(* The comment in serve: sources are drained before the socket is read, so *)
(* the last output of one start is in the file ahead of the next start's.  *)
(* True of the services it speaks of, those that have exited when they are *)
(* started again, as long as one read is enough for what they left; a unit *)
(* that was ever started with more unread, or beside a process that still  *)
(* writes into an earlier pipe, is exempt.                                 *)
StartsInOrder ==
    \A u \in Units \ overlapped :
        \A i, j \in DOMAIN recorded[u] :
            \A k \in DOMAIN recorded[u][i], l \in DOMAIN recorded[u][j] :
                Precedes(i, k, j, l) => recorded[u][i][k].gen <= recorded[u][j][l].gen

(* The files of a unit, oldest first, are the end of everything recorded;  *)
(* none is larger than max_size unless it is a single record; and once     *)
(* something was rotated away, every generation is there - whatever step   *)
(* of a rotation a log writer died in (only then one may be missing).      *)
FilesKept ==
    \A u \in Units :
        /\ IsSuffix(Held(disk[u]), recorded[u])
        /\ \A n \in DOMAIN disk[u] : FileSize(disk[u][n]) <= MaxSize \/ Len(disk[u][n]) <= 1
        /\ crashes = 0 /\ (\A w \in Writers : writer[w].moves = <<>>)
           => Held(disk[u]) = recorded[u] \/ 1..Keep \subseteq DOMAIN disk[u]

(* What a service wrote does not stay in its pipe: a pipe with something in *)
(* it is emptied by a log writer - or destroyed, if it is not the latest   *)
(* start's - unless the one message that carries it found the queue full.  *)
Shipped ==
    \A u \in Units : \A gen \in 1..MaxGens :
        LET waiting == gen <= held[u] /\ pipes[u][gen].data # <<>>
        IN  waiting ~> (~waiting \/ u \in missed)
=============================================================================

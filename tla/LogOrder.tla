------------------------------ MODULE LogOrder ------------------------------
(****************************************************************************)
(* The inductive invariant of module LogShipping, IInv, and the steps of    *)
(* the induction that are about who holds what, and in which order:         *)
(*                                                                          *)
(*   Linked, Offers, Reads   who may be at work at once; offers and sources *)
(*                           are in the order of the starts                 *)
(*   Turns, Brief            an earlier start is read to its end before a   *)
(*                           later one is                                   *)
(*   Piped, Filed, Places    where each piece of output may be, and in what *)
(*                           order                                          *)
(*   CopyKept                the latest start's pipe is in the hands of the *)
(*                           log writer in service                          *)
(*                                                                          *)
(* What is left of the induction, and the theorems, are in LogProofs.       *)
(****************************************************************************)
EXTENDS LogLemmas

-------------------------------------------------------------------------------
(* The invariant, and the steps that keep its parts                          *)

\* The inductive invariant.
IInv ==
    /\ Types
    /\ Linked
    /\ Offers
    /\ Brief
    /\ Capped
    /\ CopyKept
    /\ Piped
    /\ Counted
    /\ Sized
    /\ \A w \in Writers : Reads(w) /\ Turns(w) /\ Rotates(w) /\ Sunk(w)
    /\ \A u \in Units : Filed(u) /\ Stored(u)
    /\ \A u \in Units, w \in Writers : Places(u, w)

\* A log writer that does not run is idle.
LEMMA NotUpIsIdle ==
    ASSUME Linked, NEW w \in Writers, ~Up(w)
    PROVE  writer[w] = Down /\ Idle(w) /\ Queue(w) = <<>>
<1>1. writer[w] = Down
  BY DEF Linked
<1>. QED
  BY <1>1, DownIsIdle DEF Idle, Queue

\* The readable indices of a log writer that has nothing.
LEMMA KeptOfNothing ==
    ASSUME Types, NEW w \in Writers, writer[w].sources = <<>>
    PROVE  Kept(w) = <<>> /\ LastLines(Kept(w)) = <<>> /\ Flushed(Kept(w)) = <<>>
<1>1. DOMAIN writer[w].sources = {} /\ Cardinality({}) = 0
  BY FS_EmptySet
<1>2. Kept(w) = <<>>
  BY <1>1 DEF Kept, Retained
<1>3. DOMAIN <<>> = {}
  OBVIOUS
<1>4. Retained(<<>>, {n \in DOMAIN <<>> : <<>>[n].partial # <<>>}) = <<>>
  <2>1. {n \in DOMAIN <<>> : <<>>[n].partial # <<>>} = {}
    OBVIOUS
  <2>. QED
    BY <1>1, <2>1 DEF Retained
<1>5. LastLines(<<>>) = <<>>
  BY <1>4 DEF LastLines
<1>6. Flushed(<<>>) = <<>>
  BY DEF Flushed
<1>. QED
  BY <1>2, <1>5, <1>6

\* Every step keeps the types.
LEMMA TypesStep ==
    ASSUME IInv, [Next]_vars
    PROVE  Types'
<1>0. /\ Types /\ Linked /\ Offers /\ Piped /\ \A w \in Writers : Reads(w)
      /\ \A u \in Units, w \in Writers : Places(u, w)
  BY DEF IInv
<1>1. ASSUME NEW u \in Units, Start(u) PROVE Types'
  BY <1>0, <1>1, StartEffect DEF Types, Start
<1>2. ASSUME NEW u \in Units, NEW g \in DOMAIN pipes[u], Write(u, g) PROVE Types'
  BY Zenon, <1>0, <1>2, WriteEffect DEF Types, Write, pid1
<1>3. ASSUME NEW u \in Units, NEW g \in DOMAIN pipes[u], Exit(u, g) PROVE Types'
  BY <1>0, <1>3, ExitEffect DEF Types, Exit, pid1
<1>4. ASSUME NEW registered \in BOOLEAN, OnShipper(registered) PROVE Types'
  <2>1. Tail(backlog) \in Seq(Conns)
    <3>1. backlog \in Seq(Conns) /\ backlog # <<>>
      BY <1>0, <1>4 DEF Types, OnShipper
    <3>. QED
      BY <3>1
  <2>. QED
    BY <1>0, <1>4, <2>1, OnShipperEffect DEF Types, OnShipper
<1>5. ASSUME OnShipperGone PROVE Types'
  BY <1>0, <1>5, OnShipperGoneEffect DEF Types, OnShipperGone
<1>6. ASSUME NEW w \in Writers, Connect(w) PROVE Types'
  <2>1. \A c \in Conns : Append(backlog, c) \in Seq(Conns)
    <3>1. backlog \in Seq(Conns)
      BY <1>0 DEF Types
    <3>. QED
      BY <3>1
  <2>2. backlog' \in Seq(Conns) /\ writer' \in [Writers -> Process]
        /\ conns' \in [Conns -> Connection] /\ (odd' = odd \/ odd' = "second writer")
    <3>1. PICK c \in Conns :
             /\ writer' \in [Writers -> Process] /\ conns' \in [Conns -> Connection]
             /\ backlog' = Append(backlog, c)
             /\ w # Oxlogd => odd = "none" /\ odd' = "second writer"
             /\ w = Oxlogd => odd' = odd
      BY <1>0, <1>6, ConnectEffect
    <3>. QED
      BY <2>1, <3>1
  <2>. QED
    BY <1>0, <1>6, <2>2 DEF Types, Connect
<1>7. ASSUME NEW w \in Writers, Poll(w) PROVE Types'
  BY <1>0, <1>7, PollEffect DEF Types, Poll, pid1
<1>8. ASSUME NEW w \in Writers, Drain(w) PROVE Types'
  <2>1. writer' \in [Writers -> Process] /\ pipes' \in [Units -> Seq(PipeEnd)]
    BY Zenon, <1>0, <1>8, DrainEffect DEF Drains
  <2>. QED
    BY Zenon, <1>0, <1>8, <2>1 DEF Types, Drain, pid1
<1>9. ASSUME NEW w \in Writers, Accept(w) PROVE Types'
  <2>1. writer' \in [Writers -> Process] /\ conns' \in [Conns -> Connection]
    BY <1>0, <1>9, AcceptEffect
  <2>. QED
    BY <1>0, <1>9, <2>1 DEF Types, Accept, pid1
<1>10. ASSUME NEW w \in Writers, WriteLine(w) PROVE Types'
  <2>1. writer' \in [Writers -> Process] /\ disk' \in [Units -> Files]
        /\ recorded' \in [Units -> Seq(Seq(Piece))]
    BY <1>0, <1>10, WriteLineEffect
  <2>. QED
    BY <1>0, <1>10, <2>1 DEF Types, WriteLine, pid1
<1>11. ASSUME NEW w \in Writers, Rotate(w) PROVE Types'
  <2>1. writer' \in [Writers -> Process] /\ disk' \in [Units -> Files]
    BY <1>0, <1>11, RotateEffect
  <2>. QED
    BY <1>0, <1>11, <2>1 DEF Types, Rotate, pid1
<1>12. ASSUME NEW w \in Writers, RecordRefused(w) PROVE Types'
  <2>1. writer' \in [Writers -> Process]
    BY <1>0, <1>12, RecordRefusedEffect
  <2>. QED
    BY <1>0, <1>12, <2>1 DEF Types, RecordRefused, pid1
<1>13. ASSUME NEW w \in Writers, Leave(w) PROVE Types'
  <2>1. writer' \in [Writers -> Process] /\ conns' \in [Conns -> Connection]
        /\ pipes' \in [Units -> Seq(PipeEnd)]
    BY <1>0, <1>13, EndedEffect, EndedPipes DEF Leave, Up, pid1
  <2>. QED
    BY <1>0, <1>13, <2>1 DEF Types, Leave, pid1
<1>14. ASSUME NEW w \in Writers, Crash(w) PROVE Types'
  <2>1. writer' \in [Writers -> Process] /\ conns' \in [Conns -> Connection]
        /\ pipes' \in [Units -> Seq(PipeEnd)]
    BY <1>0, <1>14, EndedEffect, EndedPipes DEF Crash, Up, pid1
  <2>2. crashes' \in Nat
    <3>1. crashes \in Nat /\ crashes' = crashes + 1
      BY <1>0, <1>14 DEF Types, Crash
    <3>. QED
      BY <3>1
  <2>. QED
    BY <1>0, <1>14, <2>1, <2>2 DEF Types, Crash, pid1
<1>15. CASE UNCHANGED vars
  BY <1>0, <1>15 DEF Types, vars
<1>. QED
  BY <1>1, <1>2, <1>3, <1>4, <1>5, <1>6, <1>7, <1>8, <1>9, <1>10, <1>11, <1>12, <1>13, <1>14, <1>15
     DEF Next, WriterStep

\* The step of a writer that runs, over its own connection.
LEMMA LinkedWriter ==
    ASSUME Types, Linked, NEW w \in Writers, Up(w), Up(w)', Others(w),
           writer'[w].conn = writer[w].conn,
           \A c \in Conns : /\ conns'[c].client = conns[c].client
                            /\ conns'[c].server = conns[c].server,
           \A c \in Conns \ {writer[w].conn} : conns'[c].queue = conns[c].queue,
           Idle(w) => Idle(w)',
           backlog' = backlog, shipper' = shipper,
           odd' = odd \/ (odd = "none" /\ odd' = "record")
    PROVE  Linked'
<1>. DEFINE c == writer[w].conn
<1>1. c \in Conns
  BY DEF Linked
<1>2. ASSUME NEW v \in Writers, v # w
      PROVE  /\ writer'[v] = writer[v] /\ (Up(v)' <=> Up(v))
             /\ Up(v) => writer[v].conn \in Conns \ {c}
             /\ Queue(v)' = Queue(v)
             /\ Idle(v)' <=> Idle(v)
  <2>1. writer'[v] = writer[v]
    BY <1>2 DEF Others
  <2>2. Up(v)' <=> Up(v)
    BY <2>1 DEF Up
  <2>3. Up(v) => writer[v].conn \in Conns \ {c}
    BY <1>2 DEF Linked
  <2>4. Queue(v)' = Queue(v)
    BY <2>1, <2>2, <2>3 DEF Queue
  <2>. QED
    BY <2>1, <2>2, <2>3, <2>4 DEF Idle
<1>3. ASSUME NEW v \in Writers
      PROVE  IF Up(v)' THEN writer'[v].conn \in Conns /\ conns'[writer'[v].conn].client
             ELSE writer'[v] = Down
  <2>1. CASE v = w
    BY <1>1, <2>1 DEF Linked
  <2>2. CASE v # w
    BY <1>2, <2>2 DEF Linked
  <2>. QED
    BY <2>1, <2>2
<1>4. ASSUME NEW v \in Writers, NEW x \in Writers, Up(v)', Up(x)', v # x
      PROVE  writer'[v].conn # writer'[x].conn
  <2>1. \A y \in Writers : Up(y)' => Up(y) /\ writer'[y].conn = writer[y].conn
    BY <1>2
  <2>2. Up(v) /\ Up(x) /\ writer'[v].conn = writer[v].conn /\ writer'[x].conn = writer[x].conn
    BY <1>4, <2>1
  <2>. QED
    BY ZenonT(30), <1>4, <2>2 DEF Linked
<1>5. ASSUME NEW i \in DOMAIN backlog
      PROVE  backlog[i] # shipper /\ conns'[backlog[i]].server /\ conns'[backlog[i]].queue = <<>>
  <2>1. backlog[i] \in Conns
    <3>1. backlog \in Seq(Conns)
      BY DEF Types
    <3>. QED
      BY <3>1
  <2>2. CASE backlog[i] = c
    <3>1. Idle(w)
      BY <2>2 DEF Linked
    <3>2. Queue(w)' = <<>>
      BY <3>1 DEF Idle
    <3>3. conns'[c].queue = <<>>
      BY <3>2 DEF Queue
    <3>. QED
      BY <2>1, <2>2, <3>3 DEF Linked
  <2>3. CASE backlog[i] # c
    BY <2>1, <2>3 DEF Linked
  <2>. QED
    BY <2>2, <2>3
<1>6. ASSUME NEW v \in Writers, Up(v)', \E i \in DOMAIN backlog : backlog[i] = writer'[v].conn
      PROVE  Idle(v)'
  <2>1. CASE v = w
    BY <1>6, <2>1 DEF Linked
  <2>2. CASE v # w
    <3>1. Up(v) /\ \E i \in DOMAIN backlog : backlog[i] = writer[v].conn
      BY <1>2, <1>6, <2>2
    <3>2. Idle(v)
      BY <3>1 DEF Linked
    <3>. QED
      BY <1>2, <2>2, <3>2
  <2>. QED
    BY <2>1, <2>2
<1>7. ASSUME NEW v \in Writers
      PROVE  Idle(v)' \/ writer'[v].conn = shipper \/ odd' = "registration"
  <2>1. CASE v = w
    BY <2>1 DEF Linked
  <2>2. CASE v # w
    BY <1>2, <2>2 DEF Linked
  <2>. QED
    BY <2>1, <2>2
<1>8. odd' # "second writer" => \A v \in Writers \ {Oxlogd} : ~Up(v)'
  BY <1>2 DEF Linked
<1>9. shipper # None => conns'[shipper].server
  BY DEF Linked, Types
<1>10. \A i, j \in DOMAIN backlog : i # j => backlog[i] # backlog[j]
  BY DEF Linked
<1>. QED
  BY <1>3, <1>4, <1>5, <1>6, <1>7, <1>8, <1>9, <1>10 DEF Linked

\* Steps of PID 1 and of services that no connection's ends are changed by.
LEMMA LinkedFrame ==
    ASSUME Types, Linked, writer' = writer,
           \A c \in Conns : /\ conns'[c].client = conns[c].client
                            /\ conns'[c].server = conns[c].server
                            /\ conns'[c].queue = conns[c].queue \/ c = shipper,
           backlog' = backlog, shipper' = shipper, odd' = odd
    PROVE  Linked'
<1>1. ASSUME NEW v \in Writers
      PROVE  /\ Up(v)' <=> Up(v)
             /\ Up(v) => writer[v].conn \in Conns
             /\ Idle(v) /\ writer[v].conn # shipper => Idle(v)'
             /\ ~Up(v) => Idle(v)'
  <2>1. Up(v)' <=> Up(v)
    BY DEF Up
  <2>2. Up(v) => writer[v].conn \in Conns
    BY DEF Linked
  <2>3. Idle(v) /\ writer[v].conn # shipper => Idle(v)'
    BY <2>1, <2>2 DEF Idle, Queue
  <2>4. ~Up(v) => Idle(v)'
    BY <2>1, NotUpIsIdle DEF Idle, Queue
  <2>. QED
    BY <2>1, <2>2, <2>3, <2>4
<1>2. ASSUME NEW i \in DOMAIN backlog
      PROVE  backlog[i] # shipper /\ conns'[backlog[i]].server /\ conns'[backlog[i]].queue = <<>>
  <2>1. backlog[i] \in Conns
    <3>1. backlog \in Seq(Conns)
      BY DEF Types
    <3>. QED
      BY <3>1
  <2>. QED
    BY <2>1 DEF Linked
<1>3. shipper # None => conns'[shipper].server
  BY DEF Linked, Types
<1>4. ASSUME NEW v \in Writers, Up(v)', \E i \in DOMAIN backlog : backlog[i] = writer'[v].conn
      PROVE  Idle(v)'
  BY <1>1, <1>2, <1>4 DEF Linked
<1>5. ASSUME NEW v \in Writers
      PROVE  Idle(v)' \/ writer'[v].conn = shipper \/ odd' = "registration"
  BY <1>1 DEF Linked
<1>6. ASSUME NEW v \in Writers
      PROVE  IF Up(v)' THEN writer'[v].conn \in Conns /\ conns'[writer'[v].conn].client
             ELSE writer'[v] = Down
  BY <1>1 DEF Linked
<1>. QED
  BY <1>1, <1>2, <1>3, <1>4, <1>5, <1>6 DEF Linked

\* A log writer ends: its connection is nobody's.
LEMMA LinkedEnded ==
    ASSUME Types, Linked, NEW w \in Writers, Up(w), Ended(w),
           backlog' = backlog, shipper' = shipper, odd' = odd
    PROVE  Linked'
<1>. DEFINE c == writer[w].conn
<1>1. /\ Others(w) /\ writer'[w] = Down
      /\ \A d \in Conns \ {c} : conns'[d] = conns[d]
      /\ conns'[c].queue = <<>> /\ conns'[c].server = conns[c].server
  BY EndedEffect
<1>2. ~Up(w)' /\ Idle(w)'
  BY <1>1, DownIsIdle DEF Up, Idle, Queue
<1>3. ASSUME NEW v \in Writers, v # w
      PROVE  /\ writer'[v] = writer[v] /\ (Up(v)' <=> Up(v))
             /\ Up(v) => writer[v].conn \in Conns \ {c}
             /\ Idle(v)' <=> Idle(v)
  <2>1. writer'[v] = writer[v]
    BY <1>1, <1>3 DEF Others
  <2>2. Up(v)' <=> Up(v)
    BY <2>1 DEF Up
  <2>3. Up(v) => writer[v].conn \in Conns \ {c}
    BY <1>3 DEF Linked
  <2>4. Queue(v)' = Queue(v)
    BY <1>1, <2>1, <2>2, <2>3 DEF Queue
  <2>. QED
    BY <2>1, <2>2, <2>3, <2>4 DEF Idle
<1>4. ASSUME NEW v \in Writers
      PROVE  IF Up(v)' THEN writer'[v].conn \in Conns /\ conns'[writer'[v].conn].client
             ELSE writer'[v] = Down
  <2>1. CASE v = w
    BY <1>1, <1>2, <2>1 DEF Linked
  <2>2. CASE v # w
    <3>1. Up(v)' => /\ writer[v].conn \in Conns /\ conns[writer[v].conn].client
                    /\ conns'[writer[v].conn] = conns[writer[v].conn]
      BY <1>1, <1>3, <2>2 DEF Linked
    <3>2. ~Up(v) => writer[v] = Down
      BY DEF Linked
    <3>. QED
      BY <1>1, <1>3, <2>2, <3>1, <3>2
  <2>. QED
    BY <2>1, <2>2
<1>5. ASSUME NEW v \in Writers, NEW x \in Writers, Up(v)', Up(x)', v # x
      PROVE  writer'[v].conn # writer'[x].conn
  <2>1. \A y \in Writers : Up(y)' => Up(y) /\ writer'[y].conn = writer[y].conn
    BY <1>2, <1>3
  <2>2. Up(v) /\ Up(x) /\ writer'[v].conn = writer[v].conn /\ writer'[x].conn = writer[x].conn
    BY <1>5, <2>1
  <2>. QED
    BY <1>5, <2>2 DEF Linked
<1>6. ASSUME NEW i \in DOMAIN backlog
      PROVE  backlog[i] # shipper /\ conns'[backlog[i]].server /\ conns'[backlog[i]].queue = <<>>
  <2>1. backlog[i] \in Conns
    <3>1. backlog \in Seq(Conns)
      BY DEF Types
    <3>. QED
      BY <3>1
  <2>. QED
    BY <1>1, <2>1 DEF Linked
<1>7. ASSUME NEW v \in Writers, Up(v)', \E i \in DOMAIN backlog : backlog[i] = writer'[v].conn
      PROVE  Idle(v)'
  <2>1. v # w /\ Up(v) /\ \E i \in DOMAIN backlog : backlog[i] = writer[v].conn
    BY <1>2, <1>3, <1>7
  <2>2. Idle(v)
    BY <2>1 DEF Linked
  <2>. QED
    BY <1>3, <2>1, <2>2
<1>8. ASSUME NEW v \in Writers
      PROVE  Idle(v)' \/ writer'[v].conn = shipper \/ odd' = "registration"
  BY <1>2, <1>3 DEF Linked
<1>9. odd' # "second writer" => \A v \in Writers \ {Oxlogd} : ~Up(v)'
  BY <1>2, <1>3 DEF Linked
<1>10. shipper # None => conns'[shipper].server
  BY <1>1 DEF Linked, Types
<1>11. \A i, j \in DOMAIN backlog : i # j => backlog[i] # backlog[j]
  BY DEF Linked
<1>. QED
  BY <1>4, <1>5, <1>6, <1>7, <1>8, <1>9, <1>10, <1>11 DEF Linked

\* A log writer connects: only the one PID 1 supervises may while another has work.
LEMMA LinkedConnect ==
    ASSUME Types, Linked, NEW w \in Writers, Connect(w)
    PROVE  Linked'
<1>1. PICK c \in Conns :
           /\ conns[c] = Free /\ writer[w] = Down /\ ~Up(w)
           /\ Others(w)
           /\ writer'[w] = [Down EXCEPT !.pc = "poll", !.conn = c]
           /\ \A d \in Conns \ {c} : conns'[d] = conns[d]
           /\ conns'[c].client /\ conns'[c].server /\ conns'[c].queue = <<>>
           /\ backlog' = Append(backlog, c)
           /\ w # Oxlogd => odd = "none" /\ odd' = "second writer"
           /\ w = Oxlogd => odd' = odd
  BY ConnectEffect
<1>2. ~conns[c].client /\ ~conns[c].server
  <2>1. conns[c] = Free
    BY <1>1
  <2>. QED
    BY <2>1 DEF Free
<1>3. /\ writer'[w].pc = "poll" /\ writer'[w].conn = c
      /\ writer'[w].sources = <<>> /\ writer'[w].lines = <<>> /\ writer'[w].moves = <<>>
      /\ DOMAIN writer'[w].sinks = {}
  <2>. DEFINE t == writer'[w]
  <2>1. t = [Down EXCEPT !.pc = "poll", !.conn = c]
    BY <1>1
  <2>. HIDE DEF t
  <2>2. /\ t.pc = "poll" /\ t.conn = c /\ t.sources = <<>> /\ t.lines = <<>> /\ t.moves = <<>>
        /\ DOMAIN t.sinks = {}
    BY <2>1 DEF Down
  <2>. QED
    BY <2>2 DEF t
<1>4. Up(w)' /\ Idle(w)'
  BY <1>1, <1>3 DEF Up, Idle, Queue
<1>5. ASSUME NEW v \in Writers, v # w
      PROVE  /\ writer'[v] = writer[v] /\ (Up(v)' <=> Up(v))
             /\ Up(v) => writer[v].conn \in Conns \ {c}
             /\ Idle(v)' <=> Idle(v)
  <2>1. writer'[v] = writer[v]
    BY <1>1, <1>5 DEF Others
  <2>2. Up(v)' <=> Up(v)
    BY <2>1 DEF Up
  <2>3. Up(v) => writer[v].conn \in Conns \ {c}
    BY <1>2 DEF Linked
  <2>4. Queue(v)' = Queue(v)
    BY <1>1, <2>1, <2>2, <2>3 DEF Queue
  <2>. QED
    BY <2>1, <2>2, <2>3, <2>4 DEF Idle
<1>6. backlog \in Seq(Conns) /\ shipper' = shipper
  BY DEF Types, Connect
<1>7. /\ DOMAIN backlog' = 1..(Len(backlog) + 1) /\ Len(backlog) \in Nat
      /\ \A i \in DOMAIN backlog' : /\ i # Len(backlog) + 1 => i \in DOMAIN backlog /\ backlog'[i] = backlog[i]
                                    /\ i = Len(backlog) + 1 => backlog'[i] = c
  <2>1. backlog' = Append(backlog, c)
    BY <1>1
  <2>. QED
    BY <1>6, <2>1
<1>8. \A i \in DOMAIN backlog : backlog[i] \in Conns \ {c}
  <2>1. \A i \in DOMAIN backlog : backlog[i] \in Conns
    BY <1>6
  <2>2. \A i \in DOMAIN backlog : conns[backlog[i]].server
    BY DEF Linked
  <2>. QED
    BY <1>2, <2>1, <2>2
<1>9. c # shipper
  <2>1. c # None
    BY Constants
  <2>. QED
    BY <1>2, <2>1 DEF Linked
<1>10. ASSUME NEW v \in Writers
      PROVE  IF Up(v)' THEN writer'[v].conn \in Conns /\ conns'[writer'[v].conn].client
             ELSE writer'[v] = Down
  <2>1. CASE v = w
    BY <1>1, <1>3, <1>4, <2>1 DEF Linked
  <2>2. CASE v # w
    <3>1. Up(v)' => /\ writer[v].conn \in Conns /\ conns[writer[v].conn].client
                    /\ conns'[writer[v].conn] = conns[writer[v].conn]
      BY <1>1, <1>5, <2>2 DEF Linked
    <3>2. ~Up(v) => writer[v] = Down
      BY DEF Linked
    <3>. QED
      BY <1>1, <1>5, <2>2, <3>1, <3>2
  <2>. QED
    BY <2>1, <2>2
<1>11. ASSUME NEW v \in Writers, NEW x \in Writers, Up(v)', Up(x)', v # x
       PROVE  writer'[v].conn # writer'[x].conn
  <2>1. \A y \in Writers : Up(y)' /\ y # w => Up(y) /\ writer'[y].conn = writer[y].conn
    BY <1>5
  <2>2. CASE v # w /\ x # w
    <3>1. Up(v) /\ Up(x) /\ writer'[v].conn = writer[v].conn /\ writer'[x].conn = writer[x].conn
      BY <1>11, <2>1, <2>2
    <3>. QED
      BY <1>11, <3>1 DEF Linked
  <2>3. CASE v = w \/ x = w
    BY <1>3, <1>5, <1>11, <2>3
  <2>. QED
    BY <2>2, <2>3
<1>12. ASSUME NEW i \in DOMAIN backlog'
       PROVE  backlog'[i] # shipper /\ conns'[backlog'[i]].server /\ conns'[backlog'[i]].queue = <<>>
  <2>1. CASE i = Len(backlog) + 1
    BY <1>1, <1>7, <1>9, <2>1
  <2>2. CASE i # Len(backlog) + 1
    <3>1. i \in DOMAIN backlog /\ backlog'[i] = backlog[i]
      BY <1>7, <2>2
    <3>. QED
      <4>1. backlog[i] # shipper /\ conns[backlog[i]].server /\ conns[backlog[i]].queue = <<>>
        BY <3>1 DEF Linked
      <4>2. conns'[backlog[i]] = conns[backlog[i]]
        BY <1>1, <1>8, <3>1
      <4>. QED
        BY <3>1, <4>1, <4>2
  <2>. QED
    BY <2>1, <2>2
<1>13. ASSUME NEW i \in DOMAIN backlog', NEW j \in DOMAIN backlog', i # j
       PROVE  backlog'[i] # backlog'[j]
  BY Zenon, <1>7, <1>8, <1>13 DEF Linked
<1>14. ASSUME NEW v \in Writers, Up(v)', \E i \in DOMAIN backlog' : backlog'[i] = writer'[v].conn
       PROVE  Idle(v)'
  <2>1. CASE v = w
    BY <1>4, <2>1
  <2>2. CASE v # w
    <3>1. Up(v) /\ writer[v].conn # c /\ \E i \in DOMAIN backlog' : backlog'[i] = writer[v].conn
      BY <1>5, <1>14, <2>2
    <3>2. \E i \in DOMAIN backlog : backlog[i] = writer[v].conn
      BY <1>7, <3>1
    <3>3. Idle(v)
      BY <3>1, <3>2 DEF Linked
    <3>. QED
      BY <1>5, <2>2, <3>3
  <2>. QED
    BY <2>1, <2>2
<1>15. ASSUME NEW v \in Writers
       PROVE  Idle(v)' \/ writer'[v].conn = shipper \/ odd' = "registration"
  BY <1>1, <1>4, <1>5 DEF Linked
<1>16. odd' # "second writer" => \A v \in Writers \ {Oxlogd} : ~Up(v)'
  BY <1>1, <1>5 DEF Linked
<1>17. shipper # None => conns'[shipper].server
  BY <1>1, <1>9 DEF Linked, Types
<1>. QED
  BY <1>6, <1>10, <1>11, <1>12, <1>13, <1>14, <1>15, <1>16, <1>17 DEF Linked

\* A connection is accepted only when none is in service.
LEMMA LinkedOnShipper ==
    ASSUME Types, Linked, NEW registered \in BOOLEAN, OnShipper(registered)
    PROVE  Linked'
<1>. DEFINE c == backlog[1]
<1>1. /\ backlog # <<>> /\ c \in Conns /\ c # shipper
      /\ backlog' = Tail(backlog)
      /\ \A x \in Conns \ {c} : conns'[x] = conns[x]
      /\ conns'[c].client = conns[c].client
      /\ \/ shipper # None /\ shipper' = shipper /\ odd' = odd /\ conns'[c].queue = <<>>
         \/ shipper = None /\ shipper' = c /\ odd' = odd /\ conns'[c].server
         \/ shipper = None /\ shipper' = None /\ odd = "none" /\ odd' = "registration"
  BY OnShipperEffect
<1>2. writer' = writer /\ backlog \in Seq(Conns)
  BY DEF Types, OnShipper
<1>3. \A i \in DOMAIN backlog' : i + 1 \in DOMAIN backlog /\ backlog'[i] = backlog[i + 1] /\ i + 1 # 1
                                 /\ i \in Nat
  BY <1>1, <1>2
<1>4. \A i \in DOMAIN backlog' : backlog'[i] \in Conns \ {c}
  <2>1. \A i \in DOMAIN backlog : backlog[i] \in Conns
    BY <1>2
  <2>2. 1 \in DOMAIN backlog
    BY <1>1, <1>2
  <2>3. c = backlog[1]
    BY <1>1, <1>2
  <2>4. \A i, j \in DOMAIN backlog : i # j => backlog[i] # backlog[j]
    BY DEF Linked
  <2>. QED
    BY Zenon, <1>3, <2>1, <2>2, <2>3, <2>4
<1>. HIDE DEF c
<1>5. \A v \in Writers : Up(v)' <=> Up(v)
  BY <1>2 DEF Up
<1>6. ASSUME NEW v \in Writers, Up(v), writer[v].conn # c
      PROVE  Idle(v)' <=> Idle(v)
  <2>1. writer[v].conn \in Conns \ {c}
    BY <1>6 DEF Linked
  <2>. QED
    BY <1>1, <1>2, <1>5, <2>1 DEF Idle, Queue
<1>7. ASSUME NEW v \in Writers, ~Up(v) PROVE Idle(v)'
  BY <1>2, <1>5, <1>7, NotUpIsIdle DEF Idle, Queue
<1>8. ASSUME NEW v \in Writers, Up(v), writer[v].conn = c PROVE Idle(v)
  <2>1. 1 \in DOMAIN backlog
    BY <1>1, <1>2
  <2>. QED
    BY <1>8, <2>1 DEF Linked, c
<1>9. ASSUME NEW v \in Writers
      PROVE  IF Up(v)' THEN writer'[v].conn \in Conns /\ conns'[writer'[v].conn].client
             ELSE writer'[v] = Down
  BY <1>1, <1>2, <1>5 DEF Linked
<1>10. \A v, w \in Writers : Up(v)' /\ Up(w)' /\ v # w => writer'[v].conn # writer'[w].conn
  BY <1>2, <1>5 DEF Linked
<1>11. ASSUME NEW i \in DOMAIN backlog'
       PROVE  /\ backlog'[i] # shipper' /\ conns'[backlog'[i]].server
              /\ conns'[backlog'[i]].queue = <<>>
  <2>1. i + 1 \in DOMAIN backlog /\ backlog'[i] = backlog[i + 1] /\ backlog'[i] \in Conns \ {c}
    BY <1>3, <1>4
  <2>2. shipper' = shipper \/ shipper' = c
    BY <1>1
  <2>. QED
    <3>1. backlog[i + 1] # shipper /\ conns[backlog[i + 1]].server /\ conns[backlog[i + 1]].queue = <<>>
      BY <2>1 DEF Linked
    <3>2. conns'[backlog[i + 1]] = conns[backlog[i + 1]]
      BY <1>1, <2>1
    <3>. QED
      BY <2>1, <2>2, <3>1, <3>2
<1>12. ASSUME NEW i \in DOMAIN backlog', NEW j \in DOMAIN backlog', i # j
       PROVE  backlog'[i] # backlog'[j]
  <2>1. i + 1 \in DOMAIN backlog /\ j + 1 \in DOMAIN backlog /\ i + 1 # j + 1
    BY <1>3, <1>12
  <2>2. backlog[i + 1] # backlog[j + 1]
    BY <2>1 DEF Linked
  <2>. QED
    BY <1>3, <2>2
<1>13. shipper' # None => conns'[shipper'].server
  BY <1>1 DEF Linked, Types
<1>14. ASSUME NEW v \in Writers, Up(v)', \E i \in DOMAIN backlog' : backlog'[i] = writer'[v].conn
       PROVE  Idle(v)'
  <2>1. Up(v) /\ writer[v].conn # c /\ \E i \in DOMAIN backlog : backlog[i] = writer[v].conn
    BY <1>2, <1>3, <1>4, <1>5, <1>14
  <2>2. Idle(v)
    BY <2>1 DEF Linked
  <2>. QED
    BY <1>6, <2>1, <2>2
<1>15. ASSUME NEW v \in Writers
       PROVE  Idle(v)' \/ writer'[v].conn = shipper' \/ odd' = "registration"
  <2>1. CASE ~Up(v)
    BY <1>7, <2>1
  <2>2. CASE Up(v) /\ writer[v].conn # c
    <3>1. Idle(v) \/ writer[v].conn = shipper \/ odd = "registration"
      BY DEF Linked
    <3>2. writer[v].conn # None
      BY <2>2, Constants DEF Linked
    <3>. QED
      BY <1>1, <1>2, <1>6, <2>2, <3>1, <3>2
  <2>3. CASE Up(v) /\ writer[v].conn = c
    <3>1. Idle(v) /\ writer'[v].conn = c
      BY <1>2, <1>8, <2>3
    <3>2. conns'[c].queue = <<>> => Idle(v)'
      BY <1>2, <1>5, <2>3, <3>1 DEF Idle, Queue
    <3>. QED
      BY <1>1, <3>1, <3>2
  <2>. QED
    BY <2>1, <2>2, <2>3
<1>16. odd' # "second writer" => \A v \in Writers \ {Oxlogd} : ~Up(v)'
  BY <1>1, <1>5 DEF Linked
<1>. QED
  BY <1>9, <1>10, <1>11, <1>12, <1>13, <1>14, <1>15, <1>16 DEF Linked

\* A connection out of service had no log writer any more.
LEMMA LinkedOnShipperGone ==
    ASSUME Types, Linked, OnShipperGone
    PROVE  Linked'
<1>. DEFINE c == shipper
<1>1. /\ c \in Conns /\ c # None /\ ~conns[c].client
      /\ \A x \in Conns \ {c} : conns'[x] = conns[x]
      /\ \/ /\ shipper' = c
            /\ conns'[c].client = conns[c].client
            /\ conns'[c].server = conns[c].server
            /\ conns'[c].queue = conns[c].queue
         \/ shipper' = None /\ conns'[c] = Free
  BY OnShipperGoneEffect
<1>2. writer' = writer /\ backlog' = backlog /\ odd' = odd /\ backlog \in Seq(Conns)
  BY DEF Types, OnShipperGone
<1>3. ASSUME NEW v \in Writers
      PROVE  /\ Up(v)' <=> Up(v)
             /\ Up(v) => writer[v].conn \in Conns \ {c}
             /\ Idle(v)' <=> Idle(v)
  <2>1. Up(v)' <=> Up(v)
    BY <1>2 DEF Up
  <2>2. Up(v) => writer[v].conn \in Conns \ {c}
    BY <1>1 DEF Linked
  <2>. QED
    BY <1>1, <1>2, <2>1, <2>2 DEF Idle, Queue
<1>4. ASSUME NEW v \in Writers
      PROVE  IF Up(v)' THEN writer'[v].conn \in Conns /\ conns'[writer'[v].conn].client
             ELSE writer'[v] = Down
  BY <1>1, <1>2, <1>3 DEF Linked
<1>5. ASSUME NEW i \in DOMAIN backlog
      PROVE  backlog[i] # shipper' /\ conns'[backlog[i]].server /\ conns'[backlog[i]].queue = <<>>
  <2>1. backlog[i] \in Conns /\ backlog[i] # c
    <3>1. backlog[i] \in Conns
      BY <1>2
    <3>. QED
      BY <3>1 DEF Linked
  <2>2. backlog[i] # None
    BY <2>1, Constants
  <2>. QED
    BY <1>1, <2>1, <2>2 DEF Linked
<1>6. \A i, j \in DOMAIN backlog : i # j => backlog[i] # backlog[j]
  BY DEF Linked
<1>7. shipper' # None => conns'[shipper'].server
  BY <1>1 DEF Linked
<1>8. ASSUME NEW v \in Writers, Up(v)', \E i \in DOMAIN backlog : backlog[i] = writer[v].conn
      PROVE  Idle(v)'
  BY <1>3, <1>8 DEF Linked
<1>9. ASSUME NEW v \in Writers
      PROVE  Idle(v)' \/ writer[v].conn = shipper' \/ odd = "registration"
  <2>1. ~Up(v) => Idle(v)
    BY NotUpIsIdle
  <2>2. Idle(v) \/ writer[v].conn = c \/ odd = "registration"
    BY DEF Linked
  <2>. QED
    BY <1>3, <2>1, <2>2
<1>10. \A v, w \in Writers : Up(v)' /\ Up(w)' /\ v # w => writer'[v].conn # writer'[w].conn
  BY <1>2, <1>3 DEF Linked
<1>11. odd' # "second writer" => \A v \in Writers \ {Oxlogd} : ~Up(v)'
  BY <1>2, <1>3 DEF Linked
<1>. QED
  BY <1>2, <1>4, <1>5, <1>6, <1>7, <1>8, <1>9, <1>10, <1>11 DEF Linked

\* The offers of a start, and what services do, change no end of a connection.
LEMMA LinkedStep ==
    ASSUME IInv, [Next]_vars
    PROVE  Linked'
<1>0. /\ Types /\ Linked /\ Offers /\ Piped /\ \A w \in Writers : Reads(w)
      /\ \A u \in Units, w \in Writers : Places(u, w)
  BY DEF IInv
<1>1. ASSUME NEW u \in Units, Start(u) PROVE Linked'
  <2>1. \A c \in Conns : /\ conns'[c].client = conns[c].client
                         /\ conns'[c].server = conns[c].server
                         /\ conns'[c].queue = conns[c].queue \/ c = shipper
    BY <1>0, <1>1, StartEffect
  <2>. QED
    BY <1>0, <1>1, <2>1, LinkedFrame DEF Start
<1>2. ASSUME NEW u \in Units, NEW g \in DOMAIN pipes[u], Write(u, g) PROVE Linked'
  BY <1>0, <1>2, LinkedFrame DEF Write, pid1
<1>3. ASSUME NEW u \in Units, NEW g \in DOMAIN pipes[u], Exit(u, g) PROVE Linked'
  BY <1>0, <1>3, LinkedFrame DEF Exit, pid1
<1>4. ASSUME NEW registered \in BOOLEAN, OnShipper(registered) PROVE Linked'
  BY <1>0, <1>4, LinkedOnShipper
<1>5. ASSUME OnShipperGone PROVE Linked'
  BY <1>0, <1>5, LinkedOnShipperGone
<1>6. ASSUME NEW w \in Writers, Connect(w) PROVE Linked'
  BY <1>0, <1>6, LinkedConnect
<1>7. ASSUME NEW w \in Writers, Poll(w) PROVE Linked'
  <2>1. /\ Others(w) /\ writer[w].pc = "poll" /\ writer'[w].pc = "drain"
        /\ writer'[w].conn = writer[w].conn /\ writer'[w].sources = writer[w].sources
        /\ writer'[w].lines = writer[w].lines /\ writer'[w].moves = writer[w].moves
        /\ writer'[w].sinks = writer[w].sinks
    BY <1>0, <1>7, PollEffect
  <2>2. /\ conns' = conns /\ backlog' = backlog /\ shipper' = shipper /\ odd' = odd
    BY <1>7 DEF Poll, pid1
  <2>3. Up(w) /\ Up(w)' /\ Queue(w)' = Queue(w)
    BY <2>1, <2>2 DEF Up, Queue
  <2>4. Idle(w) => Idle(w)'
    BY <2>1, <2>3 DEF Idle
  <2>. QED
    BY <1>0, <2>1, <2>2, <2>3, <2>4, LinkedWriter
<1>8. ASSUME NEW w \in Writers, Drain(w) PROVE Linked'
  <2>1. PICK n \in DOMAIN writer[w].sources :
           /\ Others(w) /\ writer[w].pc = "drain" /\ writer'[w].pc = "drain"
           /\ writer'[w].conn = writer[w].conn
    BY Zenon, <1>0, <1>8, DrainEffect DEF Drains
  <2>2. conns' = conns /\ backlog' = backlog /\ shipper' = shipper /\ odd' = odd
    BY Zenon, <1>8 DEF Drain, pid1
  <2>3. Up(w) /\ Up(w)'
    BY <2>1, <2>2 DEF Up
  <2>4. ~Idle(w)
    <3>1. DOMAIN <<>> = {}
      OBVIOUS
    <3>. QED
      BY <2>1, <3>1 DEF Idle
  <2>. QED
    BY <1>0, <2>1, <2>2, <2>3, <2>4, LinkedWriter
<1>9. ASSUME NEW w \in Writers, Accept(w) PROVE Linked'
  <2>. DEFINE s == writer[w]
              t == writer'[w]
  <2>1. /\ Up(w) /\ s.pc = "drain" /\ s.lines = <<>> /\ s.ready \subseteq {0}
        /\ Others(w)
        /\ t.conn = s.conn /\ t.moves = s.moves /\ t.sinks = s.sinks
        /\ \A c \in Conns \ {s.conn} : conns'[c] = conns[c]
        /\ conns'[s.conn].client = conns[s.conn].client
        /\ conns'[s.conn].server = conns[s.conn].server
        /\ \/ /\ t.pc = "poll" /\ t.lines = <<>> /\ t.sources = Kept(w)
              /\ conns' = conns
           \/ /\ s.ready = {0} /\ Queue(w) # <<>> /\ t.pc = "poll"
           \/ /\ s.ready = {0} /\ Queue(w) = <<>>
              /\ t.pc = "leave" /\ t.sources = Flushed(Kept(w))
              /\ t.lines = LastLines(Kept(w))
              /\ conns' = conns
    BY <1>0, <1>9, AcceptEffect
  <2>2. backlog' = backlog /\ shipper' = shipper /\ odd' = odd
    BY <1>9 DEF Accept, pid1
  <2>3. Up(w)'
    BY <2>1 DEF Up
  <2>4. Idle(w) => Idle(w)'
    <3>1. SUFFICES ASSUME Idle(w) PROVE Idle(w)'
      OBVIOUS
    <3>2. Kept(w) = <<>> /\ LastLines(Kept(w)) = <<>> /\ Flushed(Kept(w)) = <<>>
      BY <1>0, <3>1, KeptOfNothing DEF Idle
    <3>3. t.sources = <<>> /\ t.lines = <<>> /\ conns' = conns
      BY <2>1, <3>1, <3>2 DEF Idle
    <3>4. Queue(w)' = Queue(w)
      BY <2>1, <2>3, <3>3 DEF Queue
    <3>. QED
      BY <2>1, <3>1, <3>3, <3>4 DEF Idle
  <2>5. \A c \in Conns : /\ conns'[c].client = conns[c].client
                         /\ conns'[c].server = conns[c].server
    BY <2>1
  <2>6. \A c \in Conns \ {s.conn} : conns'[c].queue = conns[c].queue
    BY <2>1
  <2>. QED
    BY <1>0, <2>1, <2>2, <2>3, <2>4, <2>5, <2>6, LinkedWriter
<1>10. ASSUME NEW w \in Writers, WriteLine(w) PROVE Linked'
  <2>1. /\ writer[w].lines # <<>> /\ Others(w)
        /\ writer'[w].pc = writer[w].pc /\ writer'[w].conn = writer[w].conn
    BY <1>0, <1>10, WriteLineEffect
  <2>2. conns' = conns /\ backlog' = backlog /\ shipper' = shipper /\ odd' = odd
    BY <1>10 DEF WriteLine, pid1
  <2>3. ~Idle(w)
    BY <2>1 DEF Idle
  <2>4. Up(w) /\ Up(w)'
    BY <1>0, <2>1, <2>3, NotUpIsIdle DEF Up
  <2>. QED
    BY <1>0, <2>1, <2>2, <2>3, <2>4, LinkedWriter
<1>11. ASSUME NEW w \in Writers, Rotate(w) PROVE Linked'
  <2>1. /\ writer[w].lines # <<>> /\ Others(w)
        /\ writer'[w].pc = writer[w].pc /\ writer'[w].conn = writer[w].conn
    BY <1>0, <1>11, RotateEffect
  <2>2. conns' = conns /\ backlog' = backlog /\ shipper' = shipper /\ odd' = odd
    BY <1>11 DEF Rotate, pid1
  <2>3. ~Idle(w)
    BY <2>1 DEF Idle
  <2>4. Up(w) /\ Up(w)'
    BY <1>0, <2>1, <2>3, NotUpIsIdle DEF Up
  <2>. QED
    BY <1>0, <2>1, <2>2, <2>3, <2>4, LinkedWriter
<1>12. ASSUME NEW w \in Writers, RecordRefused(w) PROVE Linked'
  <2>1. /\ writer[w].lines # <<>> /\ Others(w)
        /\ writer'[w].pc = writer[w].pc /\ writer'[w].conn = writer[w].conn
    BY <1>0, <1>12, RecordRefusedEffect
  <2>2. conns' = conns /\ backlog' = backlog /\ shipper' = shipper /\ odd = "none" /\ odd' = "record"
    BY <1>12 DEF RecordRefused, pid1
  <2>3. ~Idle(w)
    BY <2>1 DEF Idle
  <2>4. Up(w) /\ Up(w)'
    BY <1>0, <2>1, <2>3, NotUpIsIdle DEF Up
  <2>. QED
    BY <1>0, <2>1, <2>2, <2>3, <2>4, LinkedWriter
<1>13. ASSUME NEW w \in Writers, Leave(w) PROVE Linked'
  BY <1>0, <1>13, LinkedEnded DEF Leave, Up, pid1
<1>14. ASSUME NEW w \in Writers, Crash(w) PROVE Linked'
  BY <1>0, <1>14, LinkedEnded DEF Crash, Up, pid1
<1>15. CASE UNCHANGED vars
  BY <1>0, <1>15 DEF vars, Linked, Up, Idle, Queue
<1>. QED
  BY <1>1, <1>2, <1>3, <1>4, <1>5, <1>6, <1>7, <1>8, <1>9, <1>10, <1>11, <1>12, <1>13, <1>14, <1>15
     DEF Next, WriterStep

\* No two log writers have anything to do at once.
LEMMA OneBusy ==
    ASSUME Types, Linked, NEW v \in Writers, NEW w \in Writers, ~Idle(v), ~Idle(w)
    PROVE  v = w
<1>1. Up(v) /\ Up(w)
  BY NotUpIsIdle
<1>2. CASE odd = "registration"
  <2>1. v = Oxlogd /\ w = Oxlogd
    BY <1>1, <1>2 DEF Linked
  <2>. QED
    BY <2>1
<1>3. CASE odd # "registration"
  <2>1. writer[v].conn = shipper /\ writer[w].conn = shipper
    BY <1>3 DEF Linked
  <2>. QED
    BY <1>1, <2>1 DEF Linked
<1>. QED
  BY <1>2, <1>3

-------------------------------------------------------------------------------
(* Offers                                                                    *)

\* A queue of one offer of every latest start.
Fresh(queue) ==
    /\ Len(queue) <= QueueMax
    /\ \A i \in DOMAIN queue : queue[i].gen = held[queue[i].unit]
    /\ \A i, j \in DOMAIN queue : i # j => queue[i].unit # queue[j].unit

\* Queues that lose their head, are emptied, or hold one offer per unit.
LEMMA OffersFrame ==
    ASSUME Types, Types', Offers, held' = held,
           \A u \in Units : Len(pipes'[u]) = Len(pipes[u]),
           \A c \in Conns : \/ conns'[c].queue = conns[c].queue
                            \/ conns'[c].queue = <<>>
                            \/ conns[c].queue # <<>> /\ conns'[c].queue = Tail(conns[c].queue)
                            \/ Fresh(conns'[c].queue)
    PROVE  Offers'
<1>1. ASSUME NEW u \in Units
      PROVE  held'[u] = Len(pipes'[u]) /\ held'[u] <= MaxGens
  BY DEF Offers
<1>2. ASSUME NEW c \in Conns
      PROVE  /\ Len(conns'[c].queue) <= QueueMax
             /\ \A i \in DOMAIN conns'[c].queue :
                   conns'[c].queue[i].gen <= Len(pipes'[conns'[c].queue[i].unit])
             /\ \A i, j \in DOMAIN conns'[c].queue :
                   i < j /\ conns'[c].queue[i].unit = conns'[c].queue[j].unit =>
                      conns'[c].queue[i].gen < conns'[c].queue[j].gen
  <2>. DEFINE q == conns[c].queue
              r == conns'[c].queue
  <2>1. q \in Seq(Message) /\ r \in Seq(Message)
    <3>1. conns[c] \in Connection /\ conns'[c] \in Connection
      BY DEF Types
    <3>. QED
      BY <3>1 DEF Connection
  <2>2. /\ Len(q) <= QueueMax
        /\ \A i \in DOMAIN q : q[i].gen <= Len(pipes[q[i].unit])
        /\ \A i, j \in DOMAIN q : i < j /\ q[i].unit = q[j].unit => q[i].gen < q[j].gen
    BY DEF Offers
  <2>3. r = q \/ r = <<>> \/ (q # <<>> /\ r = Tail(q)) \/ Fresh(r)
    OBVIOUS
  <2>. HIDE DEF q, r
  <2>4. \A i \in DOMAIN q : q[i] \in Message /\ q[i].unit \in Units
    <3>1. \A i \in DOMAIN q : q[i] \in Message
      BY <2>1
    <3>. QED
      BY <3>1 DEF Message
  <2>5. \A i \in DOMAIN r : r[i] \in Message /\ r[i].unit \in Units /\ i \in Nat
    <3>1. \A i \in DOMAIN r : r[i] \in Message /\ i \in Nat
      BY <2>1
    <3>. QED
      BY <3>1 DEF Message
  <2>6. CASE r = q
    BY <2>2, <2>4, <2>6 DEF r
  <2>7. CASE r = <<>>
    <3>1. Len(<<>>) <= QueueMax /\ DOMAIN <<>> = {}
      BY Constants
    <3>. QED
      BY <2>7, <3>1 DEF r
  <2>8. CASE q # <<>> /\ r = Tail(q)
    <3>1. /\ Len(r) <= Len(q) /\ Len(q) \in Nat /\ Len(r) \in Nat
          /\ \A i \in DOMAIN r : i + 1 \in DOMAIN q /\ r[i] = q[i + 1]
      BY <2>1, <2>8
    <3>2. Len(r) <= QueueMax
      BY <2>2, <3>1, Constants
    <3>3. \A i \in DOMAIN r : r[i].gen <= Len(pipes'[r[i].unit])
      BY <2>2, <2>5, <3>1
    <3>4. ASSUME NEW i \in DOMAIN r, NEW j \in DOMAIN r, i < j, r[i].unit = r[j].unit
          PROVE  r[i].gen < r[j].gen
      <4>1. i + 1 \in DOMAIN q /\ j + 1 \in DOMAIN q /\ i + 1 < j + 1 /\ r[i] = q[i + 1] /\ r[j] = q[j + 1]
        BY <2>5, <3>1, <3>4
      <4>. QED
        BY <2>2, <3>4, <4>1
    <3>. QED
      BY <3>2, <3>3, <3>4 DEF r
  <2>9. CASE Fresh(r)
    <3>1. \A i \in DOMAIN r : r[i].gen <= Len(pipes'[r[i].unit])
      <4>1. \A i \in DOMAIN r : r[i].gen = Len(pipes'[r[i].unit])
        BY <2>5, <2>9 DEF Fresh, Offers
      <4>2. \A i \in DOMAIN r : r[i].gen \in Nat
        BY <2>5 DEF Message, Boots
      <4>. QED
        BY <4>1, <4>2
    <3>2. \A i, j \in DOMAIN r : i < j => r[i].unit # r[j].unit
      BY <2>5, <2>9 DEF Fresh
    <3>. QED
      BY <2>9, <3>1, <3>2 DEF Fresh, r
  <2>. QED
    BY <2>3, <2>6, <2>7, <2>8, <2>9
<1>. QED
  BY <1>1, <1>2 DEF Offers

\* An offer of a new start comes after those of earlier ones.
LEMMA OffersStart ==
    ASSUME Types, Types', Offers, NEW u \in Units, Start(u)
    PROVE  Offers'
<1>. DEFINE G == Len(pipes[u]) + 1
<1>1. /\ G \in Boots /\ G <= MaxGens
      /\ Len(pipes'[u]) = G
      /\ \A v \in Units \ {u} : pipes'[v] = pipes[v]
      /\ held'[u] = G
      /\ \A v \in Units \ {u} : held'[v] = held[v]
      /\ \A c \in Conns :
           \/ conns'[c].queue = conns[c].queue
           \/ /\ Len(conns[c].queue) < QueueMax
              /\ conns'[c].queue = Append(conns[c].queue, [unit |-> u, gen |-> G])
  BY StartEffect
<1>2. ASSUME NEW v \in Units PROVE held'[v] = Len(pipes'[v]) /\ held'[v] <= MaxGens
  BY <1>1 DEF Offers
<1>4. \A v \in Units : Len(pipes[v]) \in Nat /\ Len(pipes[v]) <= Len(pipes'[v])
  <2>1. \A v \in Units : Len(pipes[v]) \in Nat
    <3>1. \A v \in Units : pipes[v] \in Seq(PipeEnd)
      BY DEF Types
    <3>. QED
      BY <3>1
  <2>. QED
    BY <1>1, <2>1
<1>5. ASSUME NEW c \in Conns
      PROVE  /\ Len(conns'[c].queue) <= QueueMax
             /\ \A i \in DOMAIN conns'[c].queue :
                   conns'[c].queue[i].gen <= Len(pipes'[conns'[c].queue[i].unit])
             /\ \A i, j \in DOMAIN conns'[c].queue :
                   i < j /\ conns'[c].queue[i].unit = conns'[c].queue[j].unit =>
                      conns'[c].queue[i].gen < conns'[c].queue[j].gen
  <2>. DEFINE q == conns[c].queue
              r == conns'[c].queue
              m == [unit |-> u, gen |-> G]
  <2>1. q \in Seq(Message) /\ r \in Seq(Message)
    <3>1. conns[c] \in Connection /\ conns'[c] \in Connection
      BY DEF Types
    <3>. QED
      BY <3>1 DEF Connection
  <2>2. /\ Len(q) <= QueueMax
        /\ \A i \in DOMAIN q : q[i].gen <= Len(pipes[q[i].unit])
        /\ \A i, j \in DOMAIN q : i < j /\ q[i].unit = q[j].unit => q[i].gen < q[j].gen
    BY DEF Offers
  <2>3. r = q \/ (Len(q) < QueueMax /\ r = Append(q, m))
    BY <1>1
  <2>4. m \in Message /\ m.unit = u /\ m.gen = Len(pipes'[u]) /\ m.gen = Len(pipes[u]) + 1
    BY <1>1 DEF Message
  <2>. HIDE DEF q, r, m, G
  <2>5. \A i \in DOMAIN q : q[i] \in Message /\ q[i].unit \in Units /\ q[i].gen \in Nat /\ i \in Nat
                            /\ q[i].gen <= Len(pipes'[q[i].unit])
    <3>1. \A i \in DOMAIN q : q[i] \in Message /\ i \in Nat
      BY <2>1
    <3>2. \A i \in DOMAIN q : q[i].unit \in Units /\ q[i].gen \in Nat
      BY <3>1 DEF Message, Boots
    <3>3. \A v \in Units : Len(pipes'[v]) \in Nat
      <4>1. \A v \in Units : pipes'[v] \in Seq(PipeEnd)
        BY DEF Types
      <4>. QED
        BY <4>1
    <3>. QED
      BY <1>4, <2>2, <3>1, <3>2, <3>3
  <2>6. CASE r = q
    BY <2>2, <2>5, <2>6 DEF r
  <2>7. CASE Len(q) < QueueMax /\ r = Append(q, m)
    <3>1. /\ Len(r) = Len(q) + 1 /\ Len(q) \in Nat /\ DOMAIN r = 1..(Len(q) + 1)
          /\ r[Len(q) + 1] = m
          /\ \A i \in DOMAIN r : i # Len(q) + 1 => i \in DOMAIN q /\ r[i] = q[i] /\ i < Len(q) + 1
      BY <2>1, <2>4, <2>7
    <3>2. Len(r) <= QueueMax
      BY <2>7, <3>1, Constants
    <3>3. ASSUME NEW i \in DOMAIN r PROVE r[i].gen <= Len(pipes'[r[i].unit])
      <4>1. CASE i = Len(q) + 1
        <5>1. r[i] = m /\ m.gen \in Nat
          BY <2>4, <3>1, <4>1 DEF Message, Boots
        <5>2. r[i].gen = m.gen /\ Len(pipes'[r[i].unit]) = m.gen
          BY <2>4, <5>1
        <5>. QED
          BY <5>1, <5>2
      <4>2. CASE i # Len(q) + 1
        BY <2>5, <3>1, <4>2
      <4>. QED
        BY <4>1, <4>2
    <3>4. ASSUME NEW i \in DOMAIN r, NEW j \in DOMAIN r, i < j, r[i].unit = r[j].unit
          PROVE  r[i].gen < r[j].gen
      <4>1. i # Len(q) + 1 /\ i \in DOMAIN q /\ r[i] = q[i]
        BY <3>1, <3>4
      <4>2. CASE j = Len(q) + 1
        <5>1. r[j] = m /\ q[i].unit = u /\ q[i].gen <= Len(pipes[u]) /\ Len(pipes[u]) \in Nat
          BY <1>4, <2>2, <2>4, <3>1, <3>4, <4>1, <4>2
        <5>. QED
          BY <2>4, <2>5, <4>1, <5>1
      <4>3. CASE j # Len(q) + 1
        <5>1. j \in DOMAIN q /\ r[j] = q[j]
          BY <3>1, <4>3
        <5>. QED
          BY <2>2, <3>4, <4>1, <5>1
      <4>. QED
        BY <4>2, <4>3
    <3>. QED
      BY <3>2, <3>3, <3>4 DEF r
  <2>. QED
    BY <2>3, <2>6, <2>7
<1>. QED
  BY <1>2, <1>5 DEF Offers

\* Every step keeps the offers in the order of the starts.
LEMMA OffersStep ==
    ASSUME IInv, [Next]_vars, Types'
    PROVE  Offers'
<1>0. /\ Types /\ Linked /\ Offers /\ Piped /\ \A w \in Writers : Reads(w)
      /\ \A u \in Units, w \in Writers : Places(u, w)
  BY DEF IInv
<1>. DEFINE Same == \A u \in Units : Len(pipes'[u]) = Len(pipes[u])
            Queues == \A c \in Conns : \/ conns'[c].queue = conns[c].queue
                                       \/ conns'[c].queue = <<>>
                                       \/ conns[c].queue # <<>> /\ conns'[c].queue = Tail(conns[c].queue)
                                       \/ Fresh(conns'[c].queue)
<1>1. ASSUME NEW u \in Units, Start(u) PROVE Offers'
  BY <1>0, <1>1, OffersStart
<1>2. pipes' = pipes => Same
  OBVIOUS
<1>3. conns' = conns => Queues
  OBVIOUS
<1>4. Same /\ Queues /\ held' = held => Offers'
  BY <1>0, OffersFrame
<1>5. ASSUME NEW u \in Units, NEW g \in DOMAIN pipes[u], Write(u, g)
      PROVE  Same /\ conns' = conns /\ held' = held
  <2>1. conns' = conns /\ held' = held
    BY <1>5 DEF Write, pid1
  <2>. QED
    BY <1>0, <1>5, <2>1, WriteEffect
<1>6. ASSUME NEW u \in Units, NEW g \in DOMAIN pipes[u], Exit(u, g)
      PROVE  Same /\ conns' = conns /\ held' = held
  <2>1. conns' = conns /\ held' = held
    BY <1>6 DEF Exit, pid1
  <2>. QED
    BY <1>0, <1>6, <2>1, ExitEffect
<1>7. ASSUME NEW registered \in BOOLEAN, OnShipper(registered)
      PROVE  pipes' = pipes /\ Queues /\ held' = held
  <2>. DEFINE c == backlog[1]
  <2>1. /\ c \in Conns /\ \A x \in Conns \ {c} : conns'[x] = conns[x]
        /\ Len(conns'[c].queue) <= QueueMax
        /\ \A i \in DOMAIN conns'[c].queue :
              conns'[c].queue[i].gen = held[conns'[c].queue[i].unit]
        /\ \A i, j \in DOMAIN conns'[c].queue :
              i # j => conns'[c].queue[i].unit # conns'[c].queue[j].unit
    BY <1>0, <1>7, OnShipperEffect
  <2>. HIDE DEF c
  <2>2. Fresh(conns'[c].queue)
    BY <2>1 DEF Fresh
  <2>3. pipes' = pipes /\ held' = held
    BY <1>7 DEF OnShipper
  <2>. QED
    BY <2>1, <2>2, <2>3
<1>8. ASSUME OnShipperGone PROVE pipes' = pipes /\ Queues /\ held' = held
  <2>1. Free.queue = <<>>
    BY DEF Free
  <2>2. /\ \A x \in Conns \ {shipper} : conns'[x] = conns[x]
        /\ conns'[shipper].queue = conns[shipper].queue \/ conns'[shipper].queue = <<>>
    BY <1>0, <1>8, <2>1, OnShipperGoneEffect
  <2>3. pipes' = pipes /\ held' = held
    BY <1>8 DEF OnShipperGone
  <2>. QED
    BY <2>2, <2>3
<1>9. ASSUME NEW w \in Writers, Connect(w) PROVE pipes' = pipes /\ Queues /\ held' = held
  <2>1. PICK c \in Conns : /\ \A d \in Conns \ {c} : conns'[d] = conns[d]
                           /\ conns'[c].queue = <<>>
    BY <1>0, <1>9, ConnectEffect
  <2>2. pipes' = pipes /\ held' = held
    BY <1>9 DEF Connect
  <2>. QED
    BY <2>1, <2>2
<1>10. ASSUME NEW w \in Writers, Drain(w) PROVE Same /\ conns' = conns /\ held' = held
  <2>1. \A u \in Units : Len(pipes'[u]) = Len(pipes[u])
    BY ZenonT(30), <1>0, <1>10, DrainEffect DEF Drains
  <2>2. conns' = conns /\ held' = held
    BY Zenon, <1>10 DEF Drain, pid1
  <2>. QED
    BY <2>1, <2>2
<1>11. ASSUME NEW w \in Writers, Accept(w) PROVE pipes' = pipes /\ Queues /\ held' = held
  <2>. DEFINE c == writer[w].conn
  <2>1. /\ \A x \in Conns \ {c} : conns'[x] = conns[x]
        /\ conns' = conns \/ (Queue(w) # <<>> /\ conns'[c].queue = Tail(Queue(w)))
        /\ Up(w)
    BY <1>0, <1>11, AcceptEffect
  <2>2. Queue(w) = conns[c].queue
    BY <2>1 DEF Queue
  <2>3. pipes' = pipes /\ held' = held
    BY <1>11 DEF Accept, pid1
  <2>. HIDE DEF c
  <2>. QED
    BY <2>1, <2>2, <2>3
<1>12. ASSUME NEW w \in Writers, Up(w), Ended(w), held' = held PROVE Same /\ Queues
  <2>1. /\ \A x \in Conns \ {writer[w].conn} : conns'[x] = conns[x]
        /\ conns'[writer[w].conn].queue = <<>>
    BY <1>0, <1>12, EndedEffect
  <2>2. Narrowed
    BY <1>0, <1>12, EndedPipes
  <2>. QED
    BY <2>1, <2>2 DEF Narrowed
<1>13. ASSUME NEW w \in Writers, Leave(w) PROVE Same /\ Queues /\ held' = held
  BY <1>12, <1>13 DEF Leave, Up, pid1
<1>14. ASSUME NEW w \in Writers, Crash(w) PROVE Same /\ Queues /\ held' = held
  BY <1>12, <1>14 DEF Crash, Up, pid1
<1>15. ASSUME NEW w \in Writers, Poll(w) \/ WriteLine(w) \/ Rotate(w) \/ RecordRefused(w)
       PROVE  pipes' = pipes /\ conns' = conns /\ held' = held
  BY Zenon, <1>15 DEF Poll, WriteLine, Rotate, RecordRefused, pid1
<1>16. CASE UNCHANGED vars
  <2>1. pipes' = pipes /\ conns' = conns /\ held' = held
    BY <1>16 DEF vars
  <2>. QED
    BY <1>2, <1>3, <1>4, <2>1
<1>. HIDE DEF Same, Queues
<1>. QED
  BY <1>1, <1>2, <1>3, <1>4, <1>5, <1>6, <1>7, <1>8, <1>9, <1>10, <1>11, <1>13, <1>14, <1>15, <1>16
     DEF Next, WriterStep

-------------------------------------------------------------------------------
(* Pipes                                                                     *)

\* The steps that change what is in a pipe.
LEMMA PipesCases ==
    ASSUME Types, Offers, [Next]_vars
    PROVE  \/ \E u \in Units : Start(u)
           \/ \E u \in Units : \E g \in DOMAIN pipes[u] : Write(u, g)
           \/ \E u \in Units : \E g \in DOMAIN pipes[u] : Exit(u, g)
           \/ \E w \in Writers : Drain(w)
           \/ Narrowed /\ sent' = sent /\ overlapped' = overlapped
<1>. DEFINE Same == pipes' = pipes /\ sent' = sent /\ overlapped' = overlapped
<1>1. CASE UNCHANGED vars
  BY <1>1 DEF vars, Narrowed
<1>2. ASSUME NEW registered \in BOOLEAN, OnShipper(registered) PROVE Same
  BY <1>2 DEF OnShipper
<1>3. ASSUME OnShipperGone PROVE Same
  BY <1>3 DEF OnShipperGone
<1>4. ASSUME NEW w \in Writers, Connect(w) PROVE Same
  BY <1>4 DEF Connect
<1>5. ASSUME NEW w \in Writers,
             Poll(w) \/ Accept(w) \/ WriteLine(w) \/ Rotate(w) \/ RecordRefused(w)
      PROVE  Same
  BY Zenon, <1>5 DEF Poll, Accept, WriteLine, Rotate, RecordRefused
<1>6. Same => Narrowed /\ sent' = sent /\ overlapped' = overlapped
  BY DEF Narrowed
<1>7. ASSUME NEW w \in Writers, Leave(w) \/ Crash(w)
      PROVE  Narrowed /\ sent' = sent /\ overlapped' = overlapped
  <2>1. Ended(w) /\ held' = held /\ sent' = sent /\ overlapped' = overlapped
    BY <1>7 DEF Leave, Crash, pid1
  <2>. QED
    BY <2>1, EndedPipes
<1>. HIDE DEF Same
<1>. QED
  BY <1>1, <1>2, <1>3, <1>4, <1>5, <1>6, <1>7 DEF Next, WriterStep

\* What a step may do to what is in the pipes.
Grown ==
    /\ overlapped \subseteq overlapped'
    /\ \A u \in Units :
         /\ Len(pipes[u]) <= Len(pipes'[u])
         /\ sent[u] <= sent'[u]
         /\ \A g \in DOMAIN pipes[u] :
               /\ g \in DOMAIN pipes'[u]
               /\ ~pipes[u][g].open => ~pipes'[u][g].open
               /\ pipes[u][g].data = <<>> /\ ~pipes[u][g].open => pipes'[u][g].data = <<>>
               /\ \A p \in Range(pipes'[u][g].data) :
                     p \in Range(pipes[u][g].data) \/ sent[u] < p.n
         /\ \A g \in DOMAIN pipes'[u] : g \in DOMAIN pipes[u] \/ pipes'[u][g].data = <<>>

\* Every step keeps what is in the pipes in order, and adds to it only at the end.
LEMMA PipesStep ==
    ASSUME IInv, [Next]_vars, Types'
    PROVE  Piped' /\ Brief' /\ Grown
<1>0. /\ Types /\ Linked /\ Offers /\ Piped /\ Brief /\ \A w \in Writers : Reads(w)
      /\ \A u \in Units, w \in Writers : Places(u, w)
  BY DEF IInv
<1>1. /\ \A u \in Units : pipes[u] \in Seq(PipeEnd) /\ pipes'[u] \in Seq(PipeEnd)
                          /\ sent[u] \in Nat /\ sent'[u] \in Nat
      /\ \A u \in Units : \A g \in DOMAIN pipes[u] : pipes[u][g] \in PipeEnd
      /\ \A u \in Units : DOMAIN pipes[u] = 1..Len(pipes[u]) /\ Len(pipes[u]) \in Nat
                          /\ DOMAIN pipes'[u] = 1..Len(pipes'[u]) /\ Len(pipes'[u]) \in Nat
  <2>1. \A u \in Units : pipes[u] \in Seq(PipeEnd) /\ pipes'[u] \in Seq(PipeEnd)
                          /\ sent[u] \in Nat /\ sent'[u] \in Nat
    BY <1>0 DEF Types
  <2>. QED
    BY <2>1
<1>2. \A u \in Units : \A g \in DOMAIN pipes[u] :
         pipes[u][g].data \in Line /\ Len(pipes[u][g].data) \in Nat
  <2>1. \A u \in Units : \A g \in DOMAIN pipes[u] : pipes[u][g].data \in Line
    BY <1>1 DEF PipeEnd
  <2>. QED
    BY <2>1 DEF Line
<1>3. CASE Narrowed /\ sent' = sent /\ overlapped' = overlapped
  <2>1. \A v \in Units : Len(pipes'[v]) = Len(pipes[v]) /\ DOMAIN pipes'[v] = DOMAIN pipes[v]
    BY <1>3 DEF Narrowed
  <2>2. ASSUME NEW v \in Units, NEW g \in DOMAIN pipes[v]
        PROVE  /\ pipes'[v][g].data = pipes[v][g].data \/ pipes'[v][g].data = <<>>
               /\ ~pipes[v][g].open => ~pipes'[v][g].open
    <3>1. pipes[v][g] \in PipeEnd
      BY <1>1
    <3>2. pipes'[v][g] = pipes[v][g] \/ pipes'[v][g] = Destroyed(pipes[v][g])
      BY <1>3 DEF Narrowed
    <3>. QED
      BY <3>1, <3>2, DestroyedFacts
  <2>3. Range(<<>>) = {} /\ Rising(<<>>) /\ Len(<<>>) <= ReadSize
    BY Constants DEF Range, Rising
  <2>4. Piped'
    BY <1>0, <1>3, <2>1, <2>2, <2>3 DEF Piped
  <2>5. Brief'
    BY <1>0, <1>3, <2>1, <2>2, <2>3 DEF Brief
  <2>6. Grown
    BY <1>1, <1>3, <2>1, <2>2, <2>3 DEF Grown
  <2>. QED
    BY <2>4, <2>5, <2>6
<1>4. ASSUME NEW u \in Units, NEW G \in DOMAIN pipes[u], Exit(u, G) PROVE Piped' /\ Brief' /\ Grown
  <2>1. /\ \A v \in Units : Len(pipes'[v]) = Len(pipes[v]) /\ DOMAIN pipes'[v] = DOMAIN pipes[v]
        /\ \A v \in Units : \A h \in DOMAIN pipes[v] :
                 /\ pipes'[v][h].data = pipes[v][h].data
                 /\ ~pipes[v][h].open => ~pipes'[v][h].open
    BY <1>0, <1>4, ExitEffect
  <2>2. sent' = sent /\ overlapped' = overlapped
    BY <1>4 DEF Exit
  <2>3. Piped' /\ Brief'
    BY SMTT(20), <1>0, <1>1, <2>1, <2>2 DEF Piped, Brief
  <2>4. Grown
    BY <1>1, <2>1, <2>2 DEF Grown
  <2>. QED
    BY <2>3, <2>4
<1>5. ASSUME NEW u \in Units, NEW G \in DOMAIN pipes[u], Write(u, G) PROVE Piped' /\ Brief' /\ Grown
  <2>1. PICK piece \in Piece :
               /\ piece.n = sent[u] + 1 /\ piece.gen = G
               /\ pipes[u][G].open
               /\ \A v \in Units : Len(pipes'[v]) = Len(pipes[v]) /\ DOMAIN pipes'[v] = DOMAIN pipes[v]
               /\ pipes'[u][G].data = Append(pipes[u][G].data, piece)
               /\ pipes'[u][G].open = pipes[u][G].open
               /\ \A v \in Units : \A h \in DOMAIN pipes[v] :
                     v # u \/ h # G => pipes'[v][h] = pipes[v][h]
               /\ sent'[u] = sent[u] + 1
               /\ \A v \in Units \ {u} : sent'[v] = sent[v]
    BY <1>0, <1>5, WriteEffect
  <2>2. overlapped' = overlapped
    BY <1>5 DEF Write
  <2>. DEFINE data == pipes[u][G].data
  <2>3. data \in Line /\ Rising(data) /\ \A p \in Range(data) : p.gen = G /\ p.n <= sent[u]
    BY <1>0, <1>2, <2>1 DEF Piped
  <2>4. \A p \in Range(data) : p.n < piece.n
    <3>1. \A p \in Range(data) : p.n \in Nat /\ p.n <= sent[u]
      <4>1. \A p \in Range(data) : p \in Piece
        BY <2>3, RangeFacts DEF Line
      <4>. QED
        BY <2>3, <4>1 DEF Piece
    <3>. QED
      BY <1>1, <2>1, <3>1
  <2>5. Rising(Append(data, piece)) /\ Range(Append(data, piece)) = Range(data) \cup {piece}
    <3>. HIDE DEF data
    <3>. QED
      BY <2>3, <2>4, RisingAppend
  <2>6. \A v \in Units : \A h \in DOMAIN pipes[v] :
           v # u \/ h # G => \A p \in Range(pipes[v][h].data) : p.gen = h /\ p.n <= sent'[v]
    <3>1. ASSUME NEW v \in Units, NEW h \in DOMAIN pipes[v], NEW p \in Range(pipes[v][h].data)
          PROVE  p.gen = h /\ p.n <= sent'[v]
      <4>1. p.gen = h /\ p.n <= sent[v]
        BY <1>0 DEF Piped
      <4>2. p.n \in Nat
        <5>1. p \in Piece
          BY <1>2, RangeFacts DEF Line
        <5>. QED
          BY <5>1 DEF Piece
      <4>3. sent[v] <= sent'[v]
        BY SMTT(20), <1>1, <2>1
      <4>. QED
        BY <1>1, <4>1, <4>2, <4>3
    <3>. QED
      BY <3>1
  <2>7. ASSUME NEW v \in Units, NEW g \in DOMAIN pipes'[v]
        PROVE  /\ \A p \in Range(pipes'[v][g].data) : p.gen = g /\ p.n <= sent'[v]
               /\ Rising(pipes'[v][g].data)
    <3>1. CASE v = u /\ g = G
      <4>1. \A p \in Range(data) : p.gen = G /\ p.n <= sent'[u]
        <5>1. \A p \in Range(data) : p.n <= piece.n
          <6>1. \A p \in Range(data) : p.n \in Nat
            <7>1. \A p \in Range(data) : p \in Piece
              BY <2>3, RangeFacts DEF Line
            <7>. QED
              BY <7>1 DEF Piece
          <6>2. piece.n \in Nat
            BY DEF Piece
          <6>. QED
            BY <2>4, <6>1, <6>2
        <5>. QED
          BY <2>1, <2>3, <5>1
      <4>2. piece.gen = G /\ piece.n <= sent'[u]
        BY <1>1, <2>1
      <4>. QED
        BY <2>1, <2>5, <3>1, <4>1, <4>2
    <3>2. CASE v # u \/ g # G
      <4>1. g \in DOMAIN pipes[v] /\ pipes'[v][g] = pipes[v][g]
        BY <2>1, <3>2
      <4>. QED
        BY <1>0, <2>6, <3>2, <4>1 DEF Piped
    <3>. QED
      BY <3>1, <3>2
  <2>8. Piped'
    BY <2>7 DEF Piped
  <2>9. ASSUME NEW v \in Units \ overlapped', NEW g \in DOMAIN pipes'[v], g < Len(pipes'[v])
        PROVE  ~pipes'[v][g].open /\ Len(pipes'[v][g].data) <= ReadSize
    <3>1. g \in DOMAIN pipes[v] /\ g < Len(pipes[v]) /\ v \notin overlapped
      BY <2>1, <2>2, <2>9
    <3>2. ~pipes[v][g].open /\ Len(pipes[v][g].data) <= ReadSize
      BY <1>0, <3>1 DEF Brief
    <3>3. v # u \/ g # G
      BY <2>1, <3>2
    <3>. QED
      BY <2>1, <3>1, <3>2, <3>3
  <2>10. Brief'
    BY <2>9 DEF Brief
  <2>11. ASSUME NEW v \in Units
         PROVE  /\ Len(pipes[v]) <= Len(pipes'[v])
                /\ sent[v] <= sent'[v]
                /\ \A g \in DOMAIN pipes[v] :
                      /\ g \in DOMAIN pipes'[v]
                      /\ ~pipes[v][g].open => ~pipes'[v][g].open
                      /\ pipes[v][g].data = <<>> /\ ~pipes[v][g].open
                           => pipes'[v][g].data = <<>>
                      /\ \A p \in Range(pipes'[v][g].data) :
                            p \in Range(pipes[v][g].data) \/ sent[v] < p.n
                /\ \A g \in DOMAIN pipes'[v] : g \in DOMAIN pipes[v] \/ pipes'[v][g].data = <<>>
    <3>1. Len(pipes[v]) <= Len(pipes'[v]) /\ sent[v] <= sent'[v]
      <4>1. Len(pipes'[v]) = Len(pipes[v]) /\ (sent'[v] = sent[v] \/ sent'[v] = sent[v] + 1)
        BY <2>1
      <4>2. Len(pipes[v]) \in Nat /\ sent[v] \in Nat
        BY <1>1
      <4>. QED
        BY <4>1, <4>2
    <3>2. ASSUME NEW g \in DOMAIN pipes[v]
          PROVE  /\ ~pipes[v][g].open => ~pipes'[v][g].open
                 /\ pipes[v][g].data = <<>> /\ ~pipes[v][g].open => pipes'[v][g].data = <<>>
                 /\ \A p \in Range(pipes'[v][g].data) :
                       p \in Range(pipes[v][g].data) \/ sent[v] < p.n
      <4>1. CASE v = u /\ g = G
        <5>1. pipes[v][g].open
          BY <2>1, <4>1
        <5>2. sent[v] < piece.n
          BY <1>1, <2>1, <4>1
        <5>. QED
          BY <2>1, <2>5, <4>1, <5>1, <5>2
      <4>2. CASE v # u \/ g # G
        BY <2>1, <4>2
      <4>. QED
        BY <4>1, <4>2
    <3>. QED
      BY <2>1, <3>1, <3>2
  <2>12. Grown
    BY <2>2, <2>11 DEF Grown
  <2>. QED
    BY <2>8, <2>10, <2>12
<1>6. ASSUME NEW u \in Units, Start(u) PROVE Piped' /\ Brief' /\ Grown
  <2>. DEFINE G == Len(pipes[u]) + 1
  <2>1. /\ G \in Boots
        /\ Len(pipes'[u]) = G
        /\ \A g \in DOMAIN pipes[u] :
              pipes'[u][g] = pipes[u][g] \/ pipes'[u][g] = Destroyed(pipes[u][g])
        /\ pipes'[u][G].data = <<>>
        /\ \A v \in Units \ {u} : pipes'[v] = pipes[v]
        /\ overlapped \subseteq overlapped' /\ overlapped' \subseteq overlapped \cup {u}
        /\ u \notin overlapped' =>
              \A g \in DOMAIN pipes[u] : ~pipes'[u][g].open /\ Len(pipes'[u][g].data) <= ReadSize
    BY <1>0, <1>6, StartEffect
  <2>2. sent' = sent
    BY <1>6 DEF Start
  <2>3. Range(<<>>) = {} /\ Rising(<<>>)
    BY DEF Range, Rising
  <2>4. ASSUME NEW v \in Units, NEW g \in DOMAIN pipes[v]
        PROVE  /\ pipes'[v][g].data = pipes[v][g].data \/ pipes'[v][g].data = <<>>
               /\ ~pipes[v][g].open => ~pipes'[v][g].open
    <3>1. pipes[v][g] \in PipeEnd
      BY <1>1
    <3>2. pipes'[v][g] = pipes[v][g] \/ pipes'[v][g] = Destroyed(pipes[v][g])
      BY <2>1
    <3>. QED
      BY <3>1, <3>2, DestroyedFacts
  <2>5. ASSUME NEW v \in Units, NEW g \in DOMAIN pipes'[v]
        PROVE  g \in DOMAIN pipes[v] \/ (v = u /\ g = G /\ pipes'[v][g].data = <<>>)
    <3>1. CASE v = u
      <4>1. g \in DOMAIN pipes[u] \/ g = G
        BY <1>1, <2>1, <3>1
      <4>. QED
        BY <2>1, <3>1, <4>1
    <3>2. CASE v # u
      BY <2>1, <3>2
    <3>. QED
      BY <3>1, <3>2
  <2>6. Piped'
    BY <1>0, <2>2, <2>3, <2>4, <2>5 DEF Piped
  <2>7. ASSUME NEW v \in Units \ overlapped', NEW g \in DOMAIN pipes'[v], g < Len(pipes'[v])
        PROVE  ~pipes'[v][g].open /\ Len(pipes'[v][g].data) <= ReadSize
    <3>1. CASE v = u
      <4>1. g \in DOMAIN pipes[u]
        BY <1>1, <2>1, <2>7, <3>1
      <4>. QED
        BY <2>1, <3>1, <4>1
    <3>2. CASE v # u
      BY <1>0, <2>1, <2>7, <3>2 DEF Brief
    <3>. QED
      BY <3>1, <3>2
  <2>8. Brief'
    BY <2>7 DEF Brief
  <2>9. ASSUME NEW v \in Units
        PROVE  Len(pipes[v]) <= Len(pipes'[v]) /\ \A g \in DOMAIN pipes[v] : g \in DOMAIN pipes'[v]
    <3>1. CASE v = u
      BY <1>1, <2>1, <3>1
    <3>2. CASE v # u
      BY <1>1, <2>1, <3>2
    <3>. QED
      BY <3>1, <3>2
  <2>10. Grown
    <3>1. \A v \in Units : sent[v] <= sent'[v]
      BY <1>1, <2>2
    <3>2. ASSUME NEW v \in Units, NEW g \in DOMAIN pipes[v]
          PROVE  /\ g \in DOMAIN pipes'[v]
                 /\ ~pipes[v][g].open => ~pipes'[v][g].open
                 /\ pipes[v][g].data = <<>> => pipes'[v][g].data = <<>>
                 /\ \A p \in Range(pipes'[v][g].data) : p \in Range(pipes[v][g].data)
      BY <2>3, <2>4, <2>9
    <3>3. \A v \in Units : \A g \in DOMAIN pipes'[v] : g \in DOMAIN pipes[v] \/ pipes'[v][g].data = <<>>
      BY <2>5
    <3>. QED
      BY <2>1, <2>9, <3>1, <3>2, <3>3 DEF Grown
  <2>. QED
    BY <2>6, <2>8, <2>10
<1>7. ASSUME NEW w \in Writers, Drain(w) PROVE Piped' /\ Brief' /\ Grown
  <2>0. PICK n \in DOMAIN writer[w].sources : Drains(w, n)
    BY <1>0, <1>7, DrainEffect
  <2>. DEFINE s == writer[w].sources[n]
              d == Drained(s)
              u == s.unit
              data == Pipe(s).data
              rest == SubSeq(data, d.size + 1, Len(data))
  <2>1. /\ s \in Source /\ s.gen \in DOMAIN pipes[u]
        /\ \A v \in Units : Len(pipes'[v]) = Len(pipes[v])
        /\ \A v \in Units : \A g \in DOMAIN pipes[v] :
              /\ pipes'[v][g].open = pipes[v][g].open
              /\ v # u \/ g # s.gen => pipes'[v][g].data = pipes[v][g].data
        /\ pipes'[u][s.gen].data = rest
        /\ Rising(s.partial) /\ Rising(data)
        /\ Above(Range(s.partial), Range(data))
    BY Zenon, <2>0 DEF Drains
  <2>2. u \in Units /\ Pipe(s) = pipes[u][s.gen] /\ data \in Line
        /\ s.partial \in Line /\ Len(s.partial) < MaxLine
    <3>1. s \in Source /\ s.gen \in DOMAIN pipes[u]
      BY Zenon, <2>1
    <3>2. u \in Units /\ s.partial \in Line
      BY <3>1 DEF Source
    <3>3. data \in Line
      BY <1>2, <3>1, <3>2 DEF Pipe
    <3>4. Len(s.partial) < MaxLine
      BY <1>0 DEF Reads
    <3>. QED
      BY <3>2, <3>3, <3>4 DEF Pipe
  <2>3. d.size \in 0..Len(data) /\ (data = <<>> => d.size = 0)
    <3>1. d.size \in 0..Len(data)
      <4>. HIDE DEF s
      <4>. QED
        BY Zenon, <2>1, <2>2, DrainedFacts DEF s
    <3>. HIDE DEF data, d
    <3>. QED
      BY <2>2, <3>1
  <2>4. rest \in Line /\ Rising(rest) /\ Range(rest) \subseteq Range(data)
        /\ Len(rest) <= Len(data) /\ (data = <<>> => rest = <<>>)
    <3>1. Rising(data)
      BY Zenon, <2>1
    <3>. HIDE DEF data, d
    <3>2. rest \in Line /\ Rising(rest) /\ Range(rest) \subseteq Range(data)
          /\ Len(rest) = Len(data) - d.size
      <4>. DEFINE k == d.size
                  t == SubSeq(data, k + 1, Len(data))
      <4>1. data \in Line /\ k \in 0..Len(data) /\ Rising(data)
        BY <2>2, <2>3, <3>1
      <4>2. rest = t
        OBVIOUS
      <4>. HIDE DEF k, rest
      <4>3. t \in Line /\ Rising(t) /\ Range(data) = Range(SubSeq(data, 1, k)) \cup Range(t)
            /\ Len(t) = Len(data) - k
        BY <4>1, ReadInTwo
      <4>. HIDE DEF t
      <4>. QED
        BY <4>2, <4>3 DEF k
    <3>3. Len(data) \in Nat /\ d.size \in Nat /\ (data = <<>> => Len(data) = 0)
      BY <2>2, <2>3 DEF Line
    <3>. HIDE DEF rest
    <3>4. Len(rest) = 0 => rest = <<>>
      BY <3>2 DEF Line
    <3>. QED
      BY <2>3, <3>2, <3>3, <3>4
  <2>5. sent' = sent /\ overlapped' = overlapped
    BY Zenon, <1>7 DEF Drain
  <2>6. ASSUME NEW v \in Units
        PROVE  /\ Len(pipes'[v]) = Len(pipes[v]) /\ DOMAIN pipes'[v] = DOMAIN pipes[v]
               /\ \A g \in DOMAIN pipes[v] :
                    /\ pipes'[v][g].open = pipes[v][g].open
                    /\ pipes'[v][g].data = pipes[v][g].data
                          \/ (pipes'[v][g].data = rest /\ pipes[v][g].data = data)
    BY Zenon, <1>1, <2>1, <2>2
  <2>. HIDE DEF s, d, u, data, rest
  <2>7. \A v \in Units : \A g \in DOMAIN pipes[v] :
           /\ Range(pipes'[v][g].data) \subseteq Range(pipes[v][g].data)
           /\ Rising(pipes[v][g].data) => Rising(pipes'[v][g].data)
           /\ Len(pipes'[v][g].data) <= Len(pipes[v][g].data)
           /\ pipes[v][g].data = <<>> => pipes'[v][g].data = <<>>
    <3>1. \A v \in Units : \A g \in DOMAIN pipes[v] : Len(pipes[v][g].data) <= Len(pipes[v][g].data)
      BY <1>2
    <3>. QED
      BY <2>4, <2>6, <3>1
  <2>8. Piped'
    <3>1. ASSUME NEW v \in Units, NEW g \in DOMAIN pipes'[v]
          PROVE  /\ \A p \in Range(pipes'[v][g].data) : p.gen = g /\ p.n <= sent'[v]
                 /\ Rising(pipes'[v][g].data)
      <4>1. g \in DOMAIN pipes[v]
        BY <2>6
      <4>2. /\ \A p \in Range(pipes[v][g].data) : p.gen = g /\ p.n <= sent[v]
            /\ Rising(pipes[v][g].data)
        BY <1>0, <4>1 DEF Piped
      <4>. QED
        BY <2>5, <2>7, <4>1, <4>2
    <3>. QED
      BY <3>1 DEF Piped
  <2>9. Brief'
    <3>1. ASSUME NEW v \in Units \ overlapped', NEW g \in DOMAIN pipes'[v], g < Len(pipes'[v])
          PROVE  ~pipes'[v][g].open /\ Len(pipes'[v][g].data) <= ReadSize
      <4>1. g \in DOMAIN pipes[v] /\ g < Len(pipes[v]) /\ v \in Units \ overlapped
        BY <2>5, <2>6, <3>1
      <4>2. ~pipes[v][g].open /\ Len(pipes[v][g].data) <= ReadSize
        BY <1>0, <4>1 DEF Brief
      <4>3. pipes'[v][g].data = pipes[v][g].data \/ Len(pipes'[v][g].data) \in Nat
        BY <2>4, <2>6, <4>1 DEF Line
      <4>4. ~pipes'[v][g].open
        BY <2>6, <4>1, <4>2
      <4>5. Len(pipes'[v][g].data) <= Len(pipes[v][g].data)
        BY <2>7, <4>1
      <4>. QED
        BY <1>2, <4>1, <4>2, <4>3, <4>4, <4>5, Constants
    <3>. QED
      BY <3>1 DEF Brief
  <2>10. Grown
    <3>1. \A v \in Units : Len(pipes[v]) <= Len(pipes'[v]) /\ sent[v] <= sent'[v]
      BY <1>1, <2>5, <2>6
    <3>2. ASSUME NEW v \in Units, NEW g \in DOMAIN pipes[v]
          PROVE  /\ g \in DOMAIN pipes'[v]
                 /\ ~pipes[v][g].open => ~pipes'[v][g].open
                 /\ pipes[v][g].data = <<>> => pipes'[v][g].data = <<>>
                 /\ \A p \in Range(pipes'[v][g].data) : p \in Range(pipes[v][g].data)
      BY <2>6, <2>7
    <3>3. \A v \in Units : \A g \in DOMAIN pipes'[v] : g \in DOMAIN pipes[v]
      BY <2>6
    <3>. QED
      BY <2>5, <3>1, <3>2, <3>3 DEF Grown
  <2>. QED
    BY <2>8, <2>9, <2>10
<1>8. Types /\ Offers
  BY DEF IInv
<1>. QED
  BY <1>3, <1>4, <1>5, <1>6, <1>7, <1>8, PipesCases

-------------------------------------------------------------------------------
(* What a step of somebody else may do to what a log writer sees             *)

\* Its process is as it was; it may be hung up on, or sent one offer more.
Elsewhere(w) ==
    /\ writer'[w] = writer[w]
    /\ Up(w) /\ ~conns[writer[w].conn].server => ~conns'[writer[w].conn].server
    /\ \/ Queue(w)' = Queue(w)
       \/ \E m \in Message :
             /\ Up(w) /\ conns[writer[w].conn].server
             /\ m.gen = Len(pipes[m.unit]) + 1
             /\ Queue(w)' = Append(Queue(w), m)
       \/ /\ Idle(w) /\ Up(w) /\ conns[writer[w].conn].server
          /\ Fresh(Queue(w)')

\* A step that changes neither a log writer nor its connection.
LEMMA ElsewhereSame ==
    ASSUME NEW w \in Writers, writer'[w] = writer[w],
           Up(w) => conns'[writer[w].conn] = conns[writer[w].conn]
    PROVE  Elsewhere(w)
  BY DEF Elsewhere, Queue, Up

\* A step is a log writer's own or somebody else's.
LEMMA WriterCases ==
    ASSUME IInv, [Next]_vars, NEW w \in Writers
    PROVE  \/ Elsewhere(w)
           \/ Connect(w) \/ Poll(w) \/ Drain(w) \/ Accept(w) \/ WriteLine(w) \/ Rotate(w)
           \/ RecordRefused(w) \/ Leave(w) \/ Crash(w)
<1>0. /\ Types /\ Linked /\ Offers /\ Piped /\ \A v \in Writers : Reads(v)
      /\ \A u \in Units, v \in Writers : Places(u, v)
  BY DEF IInv
<1>1. ASSUME NEW u \in Units, Start(u) PROVE Elsewhere(w)
  <2>. DEFINE m == [unit |-> u, gen |-> Len(pipes[u]) + 1]
  <2>1. /\ Len(pipes[u]) + 1 \in Boots
        /\ \A c \in Conns :
             /\ conns'[c].server = conns[c].server
             /\ \/ conns'[c].queue = conns[c].queue
                \/ /\ c = shipper
                   /\ conns'[c].queue = Append(conns[c].queue, m)
    BY <1>0, <1>1, StartEffect
  <2>2. writer' = writer
    BY <1>1 DEF Start
  <2>3. m \in Message /\ m.gen = Len(pipes[m.unit]) + 1
    BY <2>1 DEF Message
  <2>. HIDE DEF m
  <2>4. CASE ~Up(w)
    BY <2>2, <2>4, ElsewhereSame
  <2>5. CASE Up(w)
    <3>1. writer[w].conn \in Conns /\ writer[w].conn # None
      BY <2>5, Constants, <1>0 DEF Linked
    <3>2. Queue(w) = conns[writer[w].conn].queue /\ Queue(w)' = conns'[writer[w].conn].queue
      BY <2>2, <2>5 DEF Queue, Up
    <3>3. writer[w].conn = shipper => conns[writer[w].conn].server
      BY <1>0, <3>1 DEF Linked
    <3>. QED
      BY <2>1, <2>2, <2>3, <2>5, <3>1, <3>2, <3>3 DEF Elsewhere
  <2>. QED
    BY <2>4, <2>5
<1>2. ASSUME NEW u \in Units, NEW g \in DOMAIN pipes[u], Write(u, g) \/ Exit(u, g)
      PROVE  Elsewhere(w)
  <2>1. writer' = writer /\ conns' = conns
    BY <1>2 DEF Write, Exit
  <2>. QED
    BY <2>1, ElsewhereSame
<1>3. CASE UNCHANGED vars
  <2>1. writer' = writer /\ conns' = conns
    BY <1>3 DEF vars
  <2>. QED
    BY <2>1, ElsewhereSame
<1>4. ASSUME NEW registered \in BOOLEAN, OnShipper(registered) PROVE Elsewhere(w)
  <2>. DEFINE c == backlog[1]
  <2>1. /\ backlog # <<>> /\ c \in Conns /\ \A x \in Conns \ {c} : conns'[x] = conns[x]
        /\ Len(conns'[c].queue) <= QueueMax
        /\ \A i \in DOMAIN conns'[c].queue :
              conns'[c].queue[i].gen = held[conns'[c].queue[i].unit]
        /\ \A i, j \in DOMAIN conns'[c].queue :
              i # j => conns'[c].queue[i].unit # conns'[c].queue[j].unit
    BY <1>0, <1>4, OnShipperEffect
  <2>2. writer' = writer
    BY <1>4 DEF OnShipper
  <2>3. Fresh(conns'[c].queue)
    BY <2>1 DEF Fresh
  <2>4. 1 \in DOMAIN backlog
    <3>1. backlog \in Seq(Conns)
      BY <1>0 DEF Types
    <3>. QED
      BY <2>1, <3>1
  <2>5. CASE Up(w) /\ writer[w].conn = c
    <3>1. Idle(w) /\ conns[c].server
      BY <1>0, <2>4, <2>5 DEF Linked
    <3>2. Queue(w)' = conns'[c].queue
      BY <2>2, <2>5 DEF Queue, Up
    <3>. QED
      BY <2>2, <2>3, <2>5, <3>1, <3>2 DEF Elsewhere
  <2>6. CASE ~(Up(w) /\ writer[w].conn = c)
    <3>1. Up(w) => writer[w].conn \in Conns \ {c}
      BY <1>0, <2>6 DEF Linked
    <3>. QED
      BY <2>1, <2>2, <3>1, ElsewhereSame
  <2>. QED
    BY <2>5, <2>6
<1>5. ASSUME OnShipperGone PROVE Elsewhere(w)
  <2>1. ~conns[shipper].client /\ \A x \in Conns \ {shipper} : conns'[x] = conns[x]
    BY <1>0, <1>5, OnShipperGoneEffect
  <2>2. writer' = writer
    BY <1>5 DEF OnShipperGone
  <2>3. Up(w) => writer[w].conn \in Conns \ {shipper}
    BY <1>0, <2>1 DEF Linked
  <2>. QED
    BY <2>1, <2>2, <2>3, ElsewhereSame
<1>6. ASSUME NEW v \in Writers, v # w, Connect(v) PROVE Elsewhere(w)
  <2>1. PICK c \in Conns : /\ conns[c] = Free /\ Others(v)
                           /\ \A d \in Conns \ {c} : conns'[d] = conns[d]
    BY <1>0, <1>6, ConnectEffect
  <2>2. ~conns[c].client
    BY <2>1 DEF Free
  <2>3. Up(w) => writer[w].conn \in Conns \ {c}
    BY <1>0, <2>2 DEF Linked
  <2>. QED
    BY <1>6, <2>1, <2>3, ElsewhereSame DEF Others
<1>7. ASSUME NEW v \in Writers, v # w, Others(v), Up(v),
             \A d \in Conns \ {writer[v].conn} : conns'[d] = conns[d]
      PROVE  Elsewhere(w)
  <2>1. Up(w) => writer[w].conn \in Conns \ {writer[v].conn}
    BY <1>0, <1>7 DEF Linked
  <2>. QED
    BY <1>7, <2>1, ElsewhereSame DEF Others
<1>8. ASSUME NEW v \in Writers, v # w, Others(v), conns' = conns PROVE Elsewhere(w)
  BY <1>8, ElsewhereSame DEF Others
<1>9. ASSUME NEW v \in Writers, v # w, Poll(v) PROVE Elsewhere(w)
  <2>1. Others(v) /\ conns' = conns
    BY <1>0, <1>9, PollEffect DEF Poll
  <2>. QED
    BY <1>8, <1>9, <2>1
<1>10. ASSUME NEW v \in Writers, v # w, Drain(v) PROVE Elsewhere(w)
  <2>1. Others(v)
    BY Zenon, <1>0, <1>10, DrainEffect DEF Drains
  <2>2. conns' = conns
    BY Zenon, <1>10 DEF Drain
  <2>. QED
    BY <1>8, <1>10, <2>1, <2>2
<1>11. ASSUME NEW v \in Writers, v # w, Accept(v) PROVE Elsewhere(w)
  <2>1. Others(v) /\ Up(v) /\ \A d \in Conns \ {writer[v].conn} : conns'[d] = conns[d]
    BY <1>0, <1>11, AcceptEffect
  <2>. QED
    BY <1>7, <1>11, <2>1
<1>12. ASSUME NEW v \in Writers, v # w, WriteLine(v) PROVE Elsewhere(w)
  <2>1. Others(v)
    BY <1>0, <1>12, WriteLineEffect
  <2>2. conns' = conns
    BY <1>12 DEF WriteLine
  <2>. QED
    BY <1>8, <1>12, <2>1, <2>2
<1>13. ASSUME NEW v \in Writers, v # w, Rotate(v) PROVE Elsewhere(w)
  <2>1. Others(v)
    BY <1>0, <1>13, RotateEffect
  <2>2. conns' = conns
    BY <1>13 DEF Rotate
  <2>. QED
    BY <1>8, <1>13, <2>1, <2>2
<1>14. ASSUME NEW v \in Writers, v # w, RecordRefused(v) PROVE Elsewhere(w)
  <2>1. Others(v)
    BY <1>0, <1>14, RecordRefusedEffect
  <2>2. conns' = conns
    BY <1>14 DEF RecordRefused
  <2>. QED
    BY <1>8, <1>14, <2>1, <2>2
<1>15. ASSUME NEW v \in Writers, v # w, Leave(v) \/ Crash(v) PROVE Elsewhere(w)
  <2>1. Up(v) /\ Ended(v)
    BY <1>15 DEF Leave, Crash, Up
  <2>2. Others(v) /\ \A d \in Conns \ {writer[v].conn} : conns'[d] = conns[d]
    BY <1>0, <2>1, EndedEffect
  <2>. QED
    BY <1>7, <1>15, <2>1, <2>2
<1>. QED
  BY <1>1, <1>2, <1>3, <1>4, <1>5, <1>6, <1>9, <1>10, <1>11, <1>12, <1>13, <1>14, <1>15
     DEF Next, WriterStep

-------------------------------------------------------------------------------
(* Sources                                                                   *)

\* What was readable is, but for what was read.
Fuller ==
    \A u \in Units : \A g \in DOMAIN pipes[u] :
        pipes[u][g].data # <<>> \/ ~pipes[u][g].open =>
            pipes'[u][g].data # <<>> \/ ~pipes'[u][g].open

\* Only a read makes a readable pipe unreadable.
LEMMA FullerStep ==
    ASSUME Types, Offers, [Next]_vars
    PROVE  (\E w \in Writers : Drain(w)) \/ Fuller
<1>1. ASSUME NEW u \in Units, NEW g \in DOMAIN pipes[u],
             pipes'[u][g] = pipes[u][g] \/ pipes'[u][g] = Destroyed(pipes[u][g])
      PROVE  pipes[u][g].data # <<>> \/ ~pipes[u][g].open =>
                pipes'[u][g].data # <<>> \/ ~pipes'[u][g].open
  <2>1. pipes[u] \in Seq(PipeEnd)
    BY DEF Types
  <2>2. pipes[u][g] \in PipeEnd
    BY <2>1
  <2>. QED
    BY <1>1, <2>2, DestroyedFacts
<1>2. ASSUME NEW u \in Units, Start(u) PROVE Fuller
  <2>1. /\ \A g \in DOMAIN pipes[u] :
              pipes'[u][g] = pipes[u][g] \/ pipes'[u][g] = Destroyed(pipes[u][g])
        /\ \A v \in Units \ {u} : pipes'[v] = pipes[v]
    BY <1>2, StartEffect
  <2>. QED
    BY <1>1, <2>1 DEF Fuller
<1>3. ASSUME NEW u \in Units, NEW G \in DOMAIN pipes[u], Write(u, G) PROVE Fuller
  <2>1. PICK piece \in Piece :
           /\ pipes'[u][G].data = Append(pipes[u][G].data, piece)
           /\ \A v \in Units : \A h \in DOMAIN pipes[v] :
                 v # u \/ h # G => pipes'[v][h] = pipes[v][h]
    BY <1>3, WriteEffect
  <2>2. pipes[u][G].data \in Line
    <3>1. pipes[u] \in Seq(PipeEnd)
      BY DEF Types
    <3>2. pipes[u][G] \in PipeEnd
      BY <3>1
    <3>. QED
      BY <3>2 DEF PipeEnd
  <2>3. ASSUME NEW data \in Line PROVE Append(data, piece) # <<>>
    <3>1. data \in Seq(Piece)
      BY DEF Line
    <3>. DEFINE more == Append(data, piece)
    <3>2. Len(more) = Len(data) + 1 /\ Len(data) \in Nat /\ Len(<<>>) = 0
      BY <3>1
    <3>. HIDE DEF more
    <3>3. more # <<>>
      BY <3>2
    <3>. QED
      BY <3>3 DEF more
  <2>4. pipes'[u][G].data # <<>>
    BY <2>1, <2>2, <2>3
  <2>5. ASSUME NEW v \in Units, NEW h \in DOMAIN pipes[v]
        PROVE  pipes[v][h].data # <<>> \/ ~pipes[v][h].open =>
                  pipes'[v][h].data # <<>> \/ ~pipes'[v][h].open
    <3>1. CASE v = u /\ h = G
      BY <2>4, <3>1
    <3>2. CASE v # u \/ h # G
      BY <2>1, <3>2
    <3>. QED
      BY <3>1, <3>2
  <2>. QED
    BY <2>5 DEF Fuller
<1>4. ASSUME NEW u \in Units, NEW G \in DOMAIN pipes[u], Exit(u, G) PROVE Fuller
  BY <1>4, ExitEffect DEF Fuller
<1>5. ASSUME Narrowed PROVE Fuller
  <2>1. ASSUME NEW u \in Units, NEW g \in DOMAIN pipes[u]
        PROVE  pipes'[u][g] = pipes[u][g] \/ pipes'[u][g] = Destroyed(pipes[u][g])
    BY <1>5 DEF Narrowed
  <2>2. ASSUME NEW u \in Units, NEW g \in DOMAIN pipes[u]
        PROVE  pipes[u][g].data # <<>> \/ ~pipes[u][g].open =>
                  pipes'[u][g].data # <<>> \/ ~pipes'[u][g].open
    BY <1>1, <2>1
  <2>. QED
    BY <2>2 DEF Fuller
<1>. QED
  BY <1>2, <1>3, <1>4, <1>5, PipesCases

\* A source is about a start that was.
LEMMA SourceFacts ==
    ASSUME Types, NEW w \in Writers, Reads(w), NEW n \in DOMAIN writer[w].sources
    PROVE  LET s == writer[w].sources[n]
           IN  /\ s \in Source /\ s.unit \in Units /\ s.gen \in Nat /\ s.partial \in Line
               /\ s.gen \in DOMAIN pipes[s.unit] /\ s.gen <= Len(pipes[s.unit])
               /\ Pipe(s) = pipes[s.unit][s.gen] /\ Pipe(s) \in PipeEnd
               /\ n \in Nat /\ n # 0
<1>. DEFINE s == writer[w].sources[n]
<1>1. writer[w].sources \in Seq(Source)
  BY DEF Types, Process
<1>2. s \in Source /\ n \in Nat /\ n # 0
  BY <1>1
<1>3. s.unit \in Units /\ s.gen \in Boots /\ s.partial \in Line
  BY <1>2 DEF Source
<1>4. s.gen <= Len(pipes[s.unit]) /\ pipes[s.unit] \in Seq(PipeEnd)
  BY <1>3 DEF Reads, Types
<1>. HIDE DEF s
<1>5. s.gen \in DOMAIN pipes[s.unit]
  BY <1>3, <1>4 DEF Boots
<1>6. pipes[s.unit][s.gen] \in PipeEnd
  BY <1>4, <1>5
<1>. QED
  BY <1>2, <1>3, <1>4, <1>5, <1>6 DEF Pipe, s, Boots

\* What a pipe holds, and what was destroyed of it, is at most a pipe full.
LEMMA CappedStep ==
    ASSUME IInv, [Next]_vars, Types'
    PROVE  Capped'
<1>0. /\ Types /\ Offers /\ Piped /\ Capped /\ \A w \in Writers : Reads(w)
      /\ \A u \in Units, w \in Writers : Places(u, w)
  BY DEF IInv
<1>. DEFINE C(v, h) == /\ Len(pipes[v][h].data) <= PipeSize
                       /\ pipes[v][h].lost <= PipeSize
                       /\ pipes[v][h].lost # 0 => /\ pipes[v][h].data = <<>>
                                                  /\ ~pipes[v][h].open
                                                  /\ h < Len(pipes[v])
            D(v, h) == /\ Len(pipes'[v][h].data) <= PipeSize
                       /\ pipes'[v][h].lost <= PipeSize
                       /\ pipes'[v][h].lost # 0 => /\ pipes'[v][h].data = <<>>
                                                   /\ ~pipes'[v][h].open
                                                   /\ h < Len(pipes'[v])
            Caps == \A v \in Units : \A h \in DOMAIN pipes'[v] : D(v, h)
<1>1. \A v \in Units : \A h \in DOMAIN pipes[v] :
         /\ C(v, h) /\ pipes[v][h] \in PipeEnd /\ h \in Nat /\ h <= Len(pipes[v])
         /\ pipes[v][h].lost \in Nat /\ pipes[v][h].data \in Line /\ Len(pipes[v][h].data) \in Nat
         /\ pipes[v][h].open \in BOOLEAN
  <2>1. \A v \in Units : pipes[v] \in Seq(PipeEnd)
    BY <1>0 DEF Types
  <2>2. ASSUME NEW v \in Units, NEW h \in DOMAIN pipes[v]
        PROVE  /\ C(v, h) /\ pipes[v][h] \in PipeEnd /\ h \in Nat /\ h <= Len(pipes[v])
               /\ pipes[v][h].lost \in Nat /\ pipes[v][h].data \in Line /\ Len(pipes[v][h].data) \in Nat
               /\ pipes[v][h].open \in BOOLEAN
    <3>1. pipes[v][h] \in PipeEnd /\ h \in Nat /\ h <= Len(pipes[v])
      BY <2>1
    <3>2. pipes[v][h].lost \in Nat /\ pipes[v][h].data \in Line /\ pipes[v][h].open \in BOOLEAN
      BY <3>1 DEF PipeEnd
    <3>3. Len(pipes[v][h].data) \in Nat
      BY <3>2 DEF Line
    <3>. QED
      BY <1>0, <3>1, <3>2, <3>3 DEF Capped
  <2>. QED
    BY <2>2
<1>2. Grown
  BY PipesStep
<1>3. \A v \in Units : /\ Len(pipes[v]) \in Nat /\ Len(pipes'[v]) \in Nat
                       /\ Len(pipes[v]) <= Len(pipes'[v])
                       /\ DOMAIN pipes[v] = 1..Len(pipes[v])
                       /\ DOMAIN pipes'[v] = 1..Len(pipes'[v])
  <2>1. \A v \in Units : pipes[v] \in Seq(PipeEnd) /\ pipes'[v] \in Seq(PipeEnd)
    BY <1>0 DEF Types
  <2>. QED
    BY <1>2, <2>1 DEF Grown
<1>4. Caps => Capped'
  BY DEF Capped
<1>5. ASSUME NEW v \in Units, NEW h \in DOMAIN pipes[v],
             \/ pipes'[v][h] = pipes[v][h]
             \/ pipes'[v][h] = Destroyed(pipes[v][h]) /\ h < Len(pipes'[v])
      PROVE  D(v, h)
  <2>1. CASE pipes'[v][h] = pipes[v][h]
    <3>1. h < Len(pipes[v]) => h < Len(pipes'[v])
      BY <1>1, <1>3
    <3>. QED
      BY <1>1, <2>1, <3>1
  <2>2. CASE pipes'[v][h] = Destroyed(pipes[v][h]) /\ h < Len(pipes'[v])
    <3>1. /\ pipes'[v][h].data = <<>> /\ ~pipes'[v][h].open
          /\ pipes'[v][h].lost = pipes[v][h].lost + Len(pipes[v][h].data)
      BY <1>1, <2>2, DestroyedFacts
    <3>2. pipes[v][h].lost # 0 => Len(pipes[v][h].data) = 0
      BY <1>1
    <3>3. pipes'[v][h].lost <= PipeSize /\ Len(<<>>) <= PipeSize
      BY <1>1, <3>1, <3>2, Constants
    <3>. QED
      BY <2>2, <3>1, <3>3
  <2>. QED
    BY <1>5, <2>1, <2>2
<1>6. ASSUME NEW u \in Units, Start(u) PROVE Caps
  <2>. DEFINE G == Len(pipes[u]) + 1
  <2>1. /\ Len(pipes'[u]) = G
        /\ \A h \in DOMAIN pipes[u] :
              pipes'[u][h] = pipes[u][h] \/ pipes'[u][h] = Destroyed(pipes[u][h])
        /\ pipes'[u][G].data = <<>> /\ pipes'[u][G].lost = 0
        /\ \A v \in Units \ {u} : pipes'[v] = pipes[v]
    BY <1>0, <1>6, StartEffect
  <2>. SUFFICES ASSUME NEW v \in Units, NEW h \in DOMAIN pipes'[v] PROVE D(v, h)
    OBVIOUS
  <2>2. CASE v # u
    <3>1. pipes'[v] = pipes[v]
      BY <2>1, <2>2
    <3>2. h \in DOMAIN pipes[v] /\ pipes'[v][h] = pipes[v][h]
      BY <3>1
    <3>. QED
      BY <1>5, <3>2
  <2>3. CASE v = u /\ h \in DOMAIN pipes[u]
    <3>1. h < Len(pipes'[u])
      BY <1>1, <1>3, <2>1, <2>3
    <3>2. \/ pipes'[v][h] = pipes[v][h]
          \/ pipes'[v][h] = Destroyed(pipes[v][h]) /\ h < Len(pipes'[v])
      BY <2>1, <2>3, <3>1
    <3>. QED
      BY <1>5, <2>3, <3>2
  <2>4. CASE v = u /\ h = G
    <3>1. Len(<<>>) <= PipeSize /\ 0 <= PipeSize
      BY Constants
    <3>. QED
      BY <2>1, <2>4, <3>1
  <2>5. v = u => h \in DOMAIN pipes[u] \/ h = G
    BY <1>3, <2>1
  <2>. QED
    BY <2>2, <2>3, <2>4, <2>5
<1>7. ASSUME NEW u \in Units, NEW G \in DOMAIN pipes[u], Write(u, G) PROVE Caps
  <2>1. PICK piece \in Piece :
           /\ pipes[u][G].open /\ Len(pipes[u][G].data) < PipeSize
           /\ \A v \in Units : DOMAIN pipes'[v] = DOMAIN pipes[v]
           /\ pipes'[u][G].data = Append(pipes[u][G].data, piece)
           /\ pipes'[u][G].lost = pipes[u][G].lost
           /\ \A v \in Units : \A h \in DOMAIN pipes[v] :
                 v # u \/ h # G => pipes'[v][h] = pipes[v][h]
    BY <1>0, <1>7, WriteEffect
  <2>. SUFFICES ASSUME NEW v \in Units, NEW h \in DOMAIN pipes[v] PROVE D(v, h)
    BY <2>1
  <2>2. CASE v # u \/ h # G
    BY <1>5, <2>1, <2>2
  <2>3. CASE v = u /\ h = G
    <3>1. pipes[u][G].lost = 0
      BY <1>1, <2>1
    <3>. DEFINE data == pipes[u][G].data
    <3>2. data \in Seq(Piece) /\ Len(data) \in Nat /\ Len(data) < PipeSize
      BY <1>1, <2>1 DEF Line
    <3>. HIDE DEF data
    <3>3. Len(Append(data, piece)) = Len(data) + 1
      BY <3>2
    <3>4. Len(Append(data, piece)) <= PipeSize /\ 0 <= PipeSize
      BY <3>2, <3>3, Constants
    <3>. QED
      BY <2>1, <2>3, <3>1, <3>4 DEF data
  <2>. QED
    BY <2>2, <2>3
<1>8. ASSUME NEW u \in Units, NEW G \in DOMAIN pipes[u], Exit(u, G) PROVE Caps
  <2>1. /\ \A v \in Units : Len(pipes'[v]) = Len(pipes[v]) /\ DOMAIN pipes'[v] = DOMAIN pipes[v]
        /\ \A v \in Units : \A h \in DOMAIN pipes[v] :
              /\ pipes'[v][h].data = pipes[v][h].data
              /\ pipes'[v][h].lost = pipes[v][h].lost
              /\ ~pipes[v][h].open => ~pipes'[v][h].open
    BY <1>0, <1>8, ExitEffect
  <2>. QED
    BY <1>1, <2>1
<1>9. ASSUME NEW w \in Writers, Drain(w) PROVE Caps
  <2>1. PICK m \in DOMAIN writer[w].sources : Drains(w, m)
    BY <1>0, <1>9, DrainEffect
  <2>. DEFINE s == writer[w].sources[m]
              d == Drained(s)
              data == Pipe(s).data
              rest == SubSeq(data, d.size + 1, Len(data))
  <2>2. s \in Source /\ s.unit \in Units /\ s.gen \in DOMAIN pipes[s.unit] /\ s.partial \in Line
        /\ Pipe(s) = pipes[s.unit][s.gen] /\ data \in Line /\ Len(s.partial) < MaxLine
    <3>1. s \in Source /\ s.unit \in Units /\ s.gen \in DOMAIN pipes[s.unit] /\ s.partial \in Line
          /\ Pipe(s) = pipes[s.unit][s.gen]
      BY <1>0, SourceFacts
    <3>2. Len(s.partial) < MaxLine
      BY <1>0 DEF Reads
    <3>. QED
      BY <1>1, <3>1, <3>2
  <2>3. /\ \A v \in Units : Len(pipes'[v]) = Len(pipes[v])
        /\ \A v \in Units : \A h \in DOMAIN pipes[v] :
              /\ pipes'[v][h].lost = pipes[v][h].lost
              /\ v # s.unit \/ h # s.gen => pipes'[v][h].data = pipes[v][h].data
        /\ pipes'[s.unit][s.gen].data = rest
        /\ Rising(s.partial) /\ Rising(data) /\ Above(Range(s.partial), Range(data))
    BY Zenon, <2>1 DEF Drains
  <2>4. Len(rest) <= Len(data) /\ Len(rest) \in Nat
    <3>1. d.size \in 0..Len(data)
      <4>. HIDE DEF s
      <4>. QED
        BY Zenon, <2>2, <2>3, DrainedFacts
    <3>. DEFINE k == d.size
                l == Len(data)
    <3>. HIDE DEF data, d
    <3>2. data \in Seq(Piece) /\ Len(data) \in Nat
      BY <2>2 DEF Line
    <3>. HIDE DEF k, l
    <3>3. k \in 0..l /\ l \in Nat /\ l = Len(data)
      BY <3>1, <3>2 DEF k, l
    <3>4. Len(SubSeq(data, k + 1, l)) = l - k
      BY <3>2, <3>3, SubSeqProperties
    <3>. QED
      BY <3>3, <3>4 DEF k, l
  <2>. HIDE DEF s, d, data, rest
  <2>5. \A v \in Units : \A h \in DOMAIN pipes[v] :
           Len(pipes'[v][h].data) <= Len(pipes[v][h].data) /\ Len(pipes'[v][h].data) \in Nat
    <3>. SUFFICES ASSUME NEW v \in Units, NEW h \in DOMAIN pipes[v]
                  PROVE  Len(pipes'[v][h].data) <= Len(pipes[v][h].data)
                         /\ Len(pipes'[v][h].data) \in Nat
      OBVIOUS
    <3>1. CASE v # s.unit \/ h # s.gen
      BY <1>1, <2>3, <3>1
    <3>2. CASE v = s.unit /\ h = s.gen
      BY <2>2, <2>3, <2>4, <3>2 DEF data
    <3>. QED
      BY <3>1, <3>2
  <2>6. \A v \in Units : \A h \in DOMAIN pipes[v] :
           /\ ~pipes[v][h].open => ~pipes'[v][h].open
           /\ pipes[v][h].data = <<>> /\ ~pipes[v][h].open => pipes'[v][h].data = <<>>
    BY <1>2 DEF Grown
  <2>7. \A v \in Units : DOMAIN pipes'[v] = DOMAIN pipes[v]
    BY <1>3, <2>3
  <2>. SUFFICES ASSUME NEW v \in Units, NEW h \in DOMAIN pipes[v] PROVE D(v, h)
    BY <2>7
  <2>8. Len(pipes'[v][h].data) <= PipeSize
    BY <1>1, <2>5, Constants
  <2>. QED
    BY <1>1, <2>3, <2>6, <2>8
<1>10. ASSUME Narrowed PROVE Caps
  <2>. SUFFICES ASSUME NEW v \in Units, NEW h \in DOMAIN pipes'[v] PROVE D(v, h)
    OBVIOUS
  <2>1. /\ Len(pipes'[v]) = Len(pipes[v]) /\ h \in DOMAIN pipes[v]
        /\ pipes'[v][h] = pipes[v][h] \/ pipes'[v][h] = Destroyed(pipes[v][h])
        /\ h = Len(pipes[v]) => pipes'[v][h] = pipes[v][h]
    BY <1>10 DEF Narrowed
  <2>2. h # Len(pipes[v]) => h < Len(pipes'[v])
    BY <1>1, <1>3, <2>1
  <2>. QED
    BY <1>5, <2>1, <2>2
<1>. HIDE DEF Caps
<1>. QED
  BY <1>0, <1>4, <1>6, <1>7, <1>8, <1>9, <1>10, PipesCases

\* f goes through the sources serve retains, in their order.
Selects(w, f) ==
    LET S == DOMAIN writer[w].sources \ writer[w].closed
    IN  /\ Enumerates(f, S) /\ Cardinality(S) \in Nat
        /\ Kept(w) \in Seq(Source)
        /\ DOMAIN Kept(w) = 1..Cardinality(S) /\ Len(Kept(w)) = Cardinality(S)
        /\ \A i \in DOMAIN Kept(w) : /\ f[i] \in S
                                     /\ Kept(w)[i] = writer[w].sources[f[i]]
        /\ \A i, j \in DOMAIN Kept(w) : i < j => f[i] < f[j]

\* What is kept of the sources are those not closed, in their order.
LEMMA KeptFacts ==
    ASSUME Types, NEW w \in Writers
    PROVE  \E f : Selects(w, f)
<1>. DEFINE S == DOMAIN writer[w].sources \ writer[w].closed
            s == writer[w].sources
<1>1. s \in Seq(Source)
  BY DEF Types, Process
<1>2. S \in SUBSET DOMAIN s
  OBVIOUS
<1>3. Kept(w) = Retained(s, S)
  BY DEF Kept
<1>. HIDE DEF S, s
<1>4. /\ Retained(s, S) \in Seq(Source) /\ Cardinality(S) \in Nat
      /\ \E f : Enumerates(f, S) /\ Retained(s, S) = [i \in 1..Cardinality(S) |-> s[f[i]]]
  BY <1>1, <1>2, RetainedFacts
<1>5. PICK f : Enumerates(f, S) /\ Retained(s, S) = [i \in 1..Cardinality(S) |-> s[f[i]]]
  BY <1>4
<1>. DEFINE k == Cardinality(S)
            r == Kept(w)
<1>6. r = [i \in 1..k |-> s[f[i]]] /\ r \in Seq(Source) /\ k \in Nat
  BY <1>3, <1>4, <1>5
<1>7. f \in [1..k -> S] /\ Increasing(f)
  BY <1>5 DEF Enumerates
<1>. HIDE DEF k, r
<1>8. DOMAIN r = 1..k /\ Len(r) = k /\ \A i \in DOMAIN r : f[i] \in S /\ r[i] = s[f[i]]
  BY <1>6, <1>7
<1>9. \A i, j \in DOMAIN r : i < j => f[i] < f[j]
  BY <1>7, <1>8 DEF Increasing
<1>10. Selects(w, f)
  BY <1>5, <1>6, <1>8, <1>9 DEF Selects, k, r, S, s
<1>. QED
  BY <1>10

\* Steps that leave the sources as they are.
LEMMA ReadsFrame ==
    ASSUME Types, Types', NEW w \in Writers, Reads(w), Grown,
           writer'[w].sources = writer[w].sources,
           writer'[w].ready = writer[w].ready, writer'[w].closed = writer[w].closed,
           writer'[w].pc = writer[w].pc,
           writer'[w].pc = "poll" => writer'[w].lines = <<>>,
           writer'[w].moves # <<>> => writer'[w].lines # <<>>,
           writer[w].sources = <<>> \/ Fuller,
           \/ writer[w].sources = <<>>
           \/ Queue(w)' = Queue(w)
           \/ Queue(w) \in Seq(Message)
                /\ \E m \in Message : m.gen = Len(pipes[m.unit]) + 1
                                      /\ Queue(w)' = Append(Queue(w), m)
    PROVE  Reads(w)'
<1>. DEFINE s == writer[w].sources
<1>1. s = <<>> => DOMAIN s = {}
  OBVIOUS
<1>2. ASSUME NEW n \in DOMAIN s
      PROVE  /\ s[n].gen <= Len(pipes'[s[n].unit])
             /\ Len(s[n].partial) < MaxLine
             /\ n \in writer[w].ready => Pipe(s[n])'.data # <<>> \/ ~Pipe(s[n])'.open
             /\ n \in writer[w].closed => /\ s[n].partial = <<>> /\ Pipe(s[n])'.data = <<>>
                                          /\ ~Pipe(s[n])'.open
  <2>1. /\ s[n].unit \in Units /\ s[n].gen \in DOMAIN pipes[s[n].unit]
        /\ Pipe(s[n]) = pipes[s[n].unit][s[n].gen]
        /\ s[n].gen \in Nat /\ s[n].gen <= Len(pipes[s[n].unit])
    BY SourceFacts
  <2>2. Pipe(s[n])' = pipes'[s[n].unit][s[n].gen]
    BY DEF Pipe
  <2>3. Len(pipes[s[n].unit]) <= Len(pipes'[s[n].unit])
    BY <2>1 DEF Grown
  <2>4. Len(pipes[s[n].unit]) \in Nat /\ Len(pipes'[s[n].unit]) \in Nat
    <3>1. pipes[s[n].unit] \in Seq(PipeEnd) /\ pipes'[s[n].unit] \in Seq(PipeEnd)
      BY <2>1 DEF Types
    <3>. QED
      BY <3>1
  <2>5. s[n].gen <= Len(pipes'[s[n].unit])
    BY <2>1, <2>3, <2>4
  <2>6. /\ Len(s[n].partial) < MaxLine
        /\ n \in writer[w].ready => Pipe(s[n]).data # <<>> \/ ~Pipe(s[n]).open
        /\ n \in writer[w].closed => /\ s[n].partial = <<>> /\ Pipe(s[n]).data = <<>>
                                     /\ ~Pipe(s[n]).open
    BY DEF Reads
  <2>7. s # <<>>
    BY <1>1
  <2>. HIDE DEF s
  <2>8. n \in writer[w].ready => Pipe(s[n])'.data # <<>> \/ ~Pipe(s[n])'.open
    BY Zenon, <2>1, <2>2, <2>6, <2>7 DEF Fuller, s
  <2>9. n \in writer[w].closed => Pipe(s[n])'.data = <<>> /\ ~Pipe(s[n])'.open
    BY <2>1, <2>2, <2>6 DEF Grown
  <2>. QED
    BY <2>5, <2>6, <2>8, <2>9
<1>3. ASSUME NEW n \in DOMAIN s, NEW i \in DOMAIN Queue(w)', s[n].unit = Queue(w)'[i].unit
      PROVE  s[n].gen < Queue(w)'[i].gen
  <2>1. CASE Queue(w)' = Queue(w)
    BY <1>3, <2>1 DEF Reads
  <2>2. CASE \E m \in Message : m.gen = Len(pipes[m.unit]) + 1 /\ Queue(w)' = Append(Queue(w), m)
    <3>1. PICK m \in Message : m.gen = Len(pipes[m.unit]) + 1 /\ Queue(w)' = Append(Queue(w), m)
      BY <2>2
    <3>2. Queue(w) \in Seq(Message) \/ Queue(w)' = Queue(w)
      BY <1>1
    <3>3. CASE Queue(w) \in Seq(Message)
      <4>1. (i \in DOMAIN Queue(w) /\ Queue(w)'[i] = Queue(w)[i]) \/ Queue(w)'[i] = m
        BY <3>1, <3>3
      <4>2. s[n].gen <= Len(pipes[s[n].unit]) /\ s[n].gen \in Nat /\ Len(pipes[s[n].unit]) \in Nat
        <5>1. s[n].unit \in Units /\ s[n].gen <= Len(pipes[s[n].unit]) /\ s[n].gen \in Nat
          BY SourceFacts
        <5>2. pipes[s[n].unit] \in Seq(PipeEnd)
          BY <5>1 DEF Types
        <5>. HIDE DEF s
        <5>. QED
          BY <5>1, <5>2
      <4>3. CASE i \in DOMAIN Queue(w) /\ Queue(w)'[i] = Queue(w)[i]
        BY <1>3, <4>3 DEF Reads
      <4>4. CASE Queue(w)'[i] = m
        <5>1. m.gen = Len(pipes[s[n].unit]) + 1
          BY <1>3, <3>1, <4>4
        <5>. QED
          BY <4>2, <4>4, <5>1
      <4>. QED
        BY <4>1, <4>3, <4>4
    <3>. QED
      BY <2>1, <3>2, <3>3
  <2>. QED
    BY <1>1, <2>1, <2>2
<1>4. /\ writer[w].ready \subseteq {0} \cup DOMAIN s
      /\ writer[w].closed \subseteq DOMAIN s \ writer[w].ready
      /\ \A n, m \in DOMAIN s : n < m /\ s[n].unit = s[m].unit => s[n].gen < s[m].gen
      /\ writer[w].pc = "poll" => writer[w].ready = {} /\ writer[w].closed = {}
      /\ writer[w].pc = "leave" => \A n \in DOMAIN s : s[n].partial = <<>>
  BY DEF Reads
<1>. HIDE DEF s
<1>. QED
  BY <1>2, <1>3, <1>4 DEF Reads, s

\* A log writer with nothing to read.
LEMMA ReadsNothing ==
    ASSUME NEW w \in Writers, writer'[w].sources = <<>>, writer'[w].ready = {},
           writer'[w].closed = {}, writer'[w].moves = <<>>,
           writer'[w].pc = "poll" => writer'[w].lines = <<>>
    PROVE  Reads(w)'
<1>1. DOMAIN writer'[w].sources = {}
  BY DEF Reads
<1>. QED
  BY <1>1 DEF Reads

\* Steps of others.
LEMMA ReadsElsewhere ==
    ASSUME IInv, [Next]_vars, Types', NEW w \in Writers, Elsewhere(w)
    PROVE  Reads(w)'
<1>1. /\ Types /\ Linked /\ Offers /\ Piped /\ \A v \in Writers : Reads(v)
      /\ \A u \in Units, v \in Writers : Places(u, v)
  BY DEF IInv
<1>2. Grown
  BY PipesStep
<1>3. writer[w].sources = <<>> \/ Fuller
  <2>1. CASE Fuller
    BY <2>1
  <2>2. ASSUME NEW v \in Writers, Drain(v), writer[w].sources # <<>>
        PROVE  FALSE
    <3>1. PICK n \in DOMAIN writer[v].sources : Drains(v, n)
      BY <1>1, <2>2, DrainEffect
    <3>2. n \in writer[v].ready /\ writer'[v].ready = writer[v].ready \ {n}
      BY Zenon, <3>1 DEF Drains
    <3>3. writer[v].sources # <<>>
      OBVIOUS
    <3>4. v = w
      BY <1>1, <2>2, <3>3, OneBusy DEF Idle
    <3>. QED
      BY <3>2, <3>4 DEF Elsewhere
  <2>. QED
    BY <1>1, <2>1, <2>2, FullerStep
<1>4. \/ writer[w].sources = <<>>
      \/ Queue(w)' = Queue(w)
      \/ Queue(w) \in Seq(Message)
            /\ \E m \in Message : m.gen = Len(pipes[m.unit]) + 1
                                  /\ Queue(w)' = Append(Queue(w), m)
  <2>1. Up(w) => Queue(w) \in Seq(Message)
    BY <1>1, UpIsLinked
  <2>. QED
    BY <2>1 DEF Elsewhere, Idle
<1>5. /\ writer'[w] = writer[w]
      /\ writer[w].pc = "poll" => writer[w].lines = <<>>
      /\ writer[w].moves # <<>> => writer[w].lines # <<>>
  BY <1>1 DEF Elsewhere, Reads
<1>. QED
  BY <1>1, <1>2, <1>3, <1>4, <1>5, ReadsFrame

\* Steps of the writer itself that read nothing and take no message.
LEMMA ReadsWriting ==
    ASSUME IInv, [Next]_vars, Types', NEW w \in Writers,
           WriteLine(w) \/ Rotate(w) \/ RecordRefused(w)
    PROVE  Reads(w)'
<1>1. Types /\ Linked /\ Offers /\ Reads(w)
  BY DEF IInv
<1>2. Grown
  BY PipesStep
<1>3. pipes' = pipes /\ conns' = conns
  BY Zenon DEF WriteLine, Rotate, RecordRefused
<1>4. Fuller
  BY <1>3 DEF Fuller
<1>5. /\ writer'[w].sources = writer[w].sources
      /\ writer'[w].ready = writer[w].ready /\ writer'[w].closed = writer[w].closed
      /\ writer'[w].pc = writer[w].pc /\ writer'[w].conn = writer[w].conn
      /\ writer[w].lines # <<>>
      /\ writer'[w].moves # <<>> => writer'[w].lines # <<>>
  <2>1. CASE WriteLine(w)
    <3>1. /\ writer'[w].sources = writer[w].sources
          /\ writer'[w].ready = writer[w].ready /\ writer'[w].closed = writer[w].closed
          /\ writer'[w].pc = writer[w].pc /\ writer'[w].conn = writer[w].conn
          /\ writer[w].lines # <<>> /\ writer[w].moves = <<>>
          /\ \/ writer'[w].lines = writer[w].lines
             \/ writer'[w].moves = writer[w].moves
      BY <1>1, <2>1, WriteLineEffect
    <3>. QED
      BY <3>1
  <2>2. CASE Rotate(w)
    BY <1>1, <2>2, RotateEffect
  <2>3. CASE RecordRefused(w)
    BY <1>1, <2>3, RecordRefusedEffect
  <2>. QED
    BY <2>1, <2>2, <2>3
<1>6. writer[w].pc # "poll"
  BY <1>1, <1>5 DEF Reads
<1>7. Queue(w)' = Queue(w)
  BY <1>3, <1>5 DEF Queue, Up
<1>. QED
  BY <1>1, <1>2, <1>4, <1>5, <1>6, <1>7, ReadsFrame

\* poll finds readable what is.
LEMMA ReadsPoll ==
    ASSUME IInv, [Next]_vars, Types', NEW w \in Writers, Poll(w)
    PROVE  Reads(w)'
<1>1. Types /\ Linked /\ Offers /\ Reads(w)
  BY DEF IInv
<1>. DEFINE s == writer[w].sources
<1>2. pipes' = pipes /\ conns' = conns
  BY DEF Poll
<1>3. /\ writer[w].pc = "poll"
      /\ writer'[w].pc = "drain" /\ writer'[w].ready = Readable(w)
      /\ writer'[w].conn = writer[w].conn
      /\ writer'[w].sources = s
      /\ writer'[w].closed = writer[w].closed
      /\ writer'[w].lines = writer[w].lines
      /\ writer'[w].moves = writer[w].moves
  BY <1>1, PollEffect
<1>4. writer[w].closed = {} /\ (writer[w].moves # <<>> => writer[w].lines # <<>>)
  BY <1>1, <1>3 DEF Reads
<1>5. Queue(w)' = Queue(w)
  BY <1>2, <1>3 DEF Queue, Up
<1>6. Readable(w) \subseteq {0} \cup DOMAIN s
  BY DEF Readable
<1>8. \A n \in DOMAIN s : n \in Readable(w) => Pipe(s[n]).data # <<>> \/ ~Pipe(s[n]).open
  <2>1. \A n \in DOMAIN s : n # 0
    <3>1. s \in Seq(Source)
      BY <1>1 DEF Types, Process
    <3>. QED
      BY <3>1
  <2>. QED
    BY <2>1 DEF Readable
<1>. HIDE DEF s
<1>9. /\ \A n \in DOMAIN s : s[n].gen <= Len(pipes[s[n].unit]) /\ Len(s[n].partial) < MaxLine
      /\ \A n, m \in DOMAIN s : n < m /\ s[n].unit = s[m].unit => s[n].gen < s[m].gen
      /\ \A n \in DOMAIN s, i \in DOMAIN Queue(w) :
             s[n].unit = Queue(w)[i].unit => s[n].gen < Queue(w)[i].gen
  BY <1>1 DEF Reads, s
<1>. QED
  BY <1>2, <1>3, <1>4, <1>5, <1>6, <1>8, <1>9 DEF Reads, Pipe

\* A read that finds the end of file closes its source.
LEMMA ReadsDrain ==
    ASSUME IInv, [Next]_vars, Types', NEW w \in Writers, Drain(w)
    PROVE  Reads(w)'
<1>1. /\ Types /\ Linked /\ Offers /\ Piped /\ Reads(w)
      /\ \A u \in Units : Places(u, w)
  BY DEF IInv
<1>2. PICK m \in DOMAIN writer[w].sources : Drains(w, m)
  BY <1>1, DrainEffect
<1>. DEFINE s == writer[w].sources
            t == writer'[w].sources
            d == Drained(s[m])
            P(n) == pipes'[s[n].unit][s[n].gen]
<1>3. /\ m \in writer[w].ready /\ writer[w].pc = "drain" /\ writer[w].lines = <<>>
      /\ writer'[w].pc = "drain" /\ writer'[w].conn = writer[w].conn
      /\ writer'[w].moves = writer[w].moves
      /\ t = [s EXCEPT ![m].partial = d.partial]
      /\ writer'[w].closed = IF d.eof THEN writer[w].closed \cup {m} ELSE writer[w].closed
      /\ writer'[w].ready = writer[w].ready \ {m}
      /\ \A u \in Units : Len(pipes'[u]) = Len(pipes[u])
      /\ \A u \in Units : \A g \in DOMAIN pipes[u] :
              /\ pipes'[u][g].open = pipes[u][g].open
              /\ u # s[m].unit \/ g # s[m].gen => pipes'[u][g].data = pipes[u][g].data
      /\ Pipe(s[m]).data \in Line
      /\ pipes'[s[m].unit][s[m].gen].data
            = SubSeq(Pipe(s[m]).data, d.size + 1, Len(Pipe(s[m]).data))
      /\ Rising(s[m].partial) /\ Rising(Pipe(s[m]).data)
      /\ Above(Range(s[m].partial), Range(Pipe(s[m]).data))
  <2>1. Drains(w, m) => Pipe(s[m]).data \in Line
    BY Zenon DEF Drains, PipeEnd
  <2>. QED
    BY Zenon, <1>2, <2>1 DEF Drains
<1>4. \A n \in DOMAIN s :
         /\ s[n] \in Source /\ s[n].unit \in Units /\ s[n].gen \in Nat /\ s[n].partial \in Line
         /\ s[n].gen \in DOMAIN pipes[s[n].unit] /\ s[n].gen <= Len(pipes[s[n].unit])
         /\ Pipe(s[n]) = pipes[s[n].unit][s[n].gen]
         /\ n \in Nat /\ n # 0
  BY <1>1, SourceFacts
<1>5. /\ writer[w].ready \subseteq {0} \cup DOMAIN s
      /\ writer[w].closed \subseteq DOMAIN s \ writer[w].ready
      /\ \A n \in DOMAIN s :
             /\ Len(s[n].partial) < MaxLine
             /\ n \in writer[w].ready => Pipe(s[n]).data # <<>> \/ ~Pipe(s[n]).open
             /\ n \in writer[w].closed =>
                   s[n].partial = <<>> /\ Pipe(s[n]).data = <<>> /\ ~Pipe(s[n]).open
      /\ \A n, k \in DOMAIN s : n < k /\ s[n].unit = s[k].unit => s[n].gen < s[k].gen
      /\ \A n \in DOMAIN s, i \in DOMAIN Queue(w) :
             s[n].unit = Queue(w)[i].unit => s[n].gen < Queue(w)[i].gen
      /\ writer[w].moves # <<>> => writer[w].lines # <<>>
  BY <1>1 DEF Reads
<1>6. /\ d.eof <=> Pipe(s[m]).data = <<>>
      /\ d.eof => d.partial = <<>> /\ d.size \in Nat
      /\ Len(d.partial) < MaxLine
  <2>1. /\ s[m].partial \in Line /\ Len(s[m].partial) < MaxLine /\ Pipe(s[m]).data \in Line
        /\ Rising(s[m].partial) /\ Rising(Pipe(s[m]).data)
        /\ Above(Range(s[m].partial), Range(Pipe(s[m]).data))
    BY Zenon, <1>3, <1>4, <1>5
  <2>. HIDE DEF s
  <2>. QED
    BY <2>1, DrainedFacts DEF d
<1>7. /\ DOMAIN t = DOMAIN s
      /\ \A n \in DOMAIN s : t[n].unit = s[n].unit /\ t[n].gen = s[n].gen
      /\ \A n \in DOMAIN s \ {m} : t[n] = s[n]
      /\ t[m].partial = d.partial
  <2>1. s[m] = [unit |-> s[m].unit, gen |-> s[m].gen, partial |-> s[m].partial]
    BY <1>4 DEF Source
  <2>2. s \in Seq(Source)
    BY <1>1 DEF Types, Process
  <2>. HIDE DEF s, d
  <2>3. /\ DOMAIN t = DOMAIN s
        /\ \A n \in DOMAIN s \ {m} : t[n] = s[n]
        /\ t[m] = [s[m] EXCEPT !.partial = d.partial]
    BY Zenon, <1>3 DEF s
  <2>4. t[m] = [unit |-> s[m].unit, gen |-> s[m].gen, partial |-> d.partial]
    BY <2>1, <2>3
  <2>. HIDE DEF t
  <2>. QED
    BY <2>3, <2>4
<1>8. Queue(w)' = Queue(w)
  <2>1. conns' = conns
    BY Zenon DEF Drain
  <2>. QED
    BY Zenon, <1>3, <2>1 DEF Queue, Up
<1>9. \A n \in DOMAIN s : P(n) = pipes'[s[n].unit][s[n].gen]
  OBVIOUS
<1>10. \A n \in DOMAIN s : s[n].gen <= Len(pipes'[s[n].unit])
  BY Zenon, <1>3, <1>4
<1>. HIDE DEF s, t, d, P
<1>11. ASSUME NEW n \in DOMAIN s, n # m
       PROVE  P(n).data = Pipe(s[n]).data /\ P(n).open = Pipe(s[n]).open
  <2>1. s[n].unit # s[m].unit \/ s[n].gen # s[m].gen
    <3>1. n < m \/ m < n
      BY <1>4, <1>11 DEF s
    <3>2. m \in DOMAIN s
      BY DEF s
    <3>. QED
      BY <1>4, <1>5, <3>1, <3>2
  <2>. QED
    <3>1. s[n].unit \in Units /\ s[n].gen \in DOMAIN pipes[s[n].unit]
          /\ Pipe(s[n]) = pipes[s[n].unit][s[n].gen]
      BY Zenon, <1>4
    <3>2. P(n) = pipes'[s[n].unit][s[n].gen]
      BY Zenon, <1>9
    <3>3. /\ pipes'[s[n].unit][s[n].gen].data = pipes[s[n].unit][s[n].gen].data
          /\ pipes'[s[n].unit][s[n].gen].open = pipes[s[n].unit][s[n].gen].open
      BY Zenon, <1>3, <2>1, <3>1
    <3>. QED
      BY Zenon, <3>1, <3>2, <3>3
<1>12. m \in DOMAIN s /\ 0 \notin DOMAIN s
  BY <1>4 DEF s
<1>13. d.eof => P(m).data = <<>> /\ ~P(m).open
  <2>1. SUFFICES ASSUME d.eof PROVE P(m).data = <<>> /\ ~P(m).open
    OBVIOUS
  <2>2. Pipe(s[m]).data = <<>> /\ ~Pipe(s[m]).open
    BY <1>3, <1>5, <1>6, <1>12, <2>1
  <2>3. P(m).open = Pipe(s[m]).open
    BY <1>3, <1>4, <1>9, <1>12
  <2>4. P(m).data = SubSeq(<<>>, d.size + 1, 0)
    BY <1>3, <1>9, <1>12, <2>2
  <2>5. SubSeq(<<>>, d.size + 1, 0) = <<>>
    BY <1>6, <2>1, SubSeqProperties
  <2>. QED
    BY <2>2, <2>3, <2>4, <2>5
<1>14. ASSUME NEW n \in DOMAIN t
       PROVE  /\ t[n].gen <= Len(pipes'[t[n].unit])
              /\ Len(t[n].partial) < MaxLine
              /\ n \in writer'[w].ready => P(n).data # <<>> \/ ~P(n).open
              /\ n \in writer'[w].closed =>
                    t[n].partial = <<>> /\ P(n).data = <<>> /\ ~P(n).open
  <2>1. CASE n = m
    <3>1. n \notin writer'[w].ready
      BY <1>3, <2>1
    <3>2. n \in writer'[w].closed => d.eof
      BY <1>3, <1>5, <2>1
    <3>. QED
      BY <1>6, <1>7, <1>10, <1>12, <1>13, <2>1, <3>1, <3>2
  <2>2. CASE n # m
    <3>1. n \in DOMAIN s /\ t[n] = s[n]
      BY <1>7, <2>2
    <3>2. /\ n \in writer'[w].ready => n \in writer[w].ready
          /\ n \in writer'[w].closed => n \in writer[w].closed
      BY <1>3, <2>2
    <3>. QED
      BY <1>5, <1>10, <1>11, <2>2, <3>1, <3>2
  <2>. QED
    BY <2>1, <2>2
<1>15. /\ writer'[w].ready \subseteq {0} \cup DOMAIN t
       /\ writer'[w].closed \subseteq DOMAIN t \ writer'[w].ready
  BY <1>3, <1>5, <1>7, <1>12
<1>16. /\ \A n, k \in DOMAIN t : n < k /\ t[n].unit = t[k].unit => t[n].gen < t[k].gen
       /\ \A n \in DOMAIN t, i \in DOMAIN Queue(w)' :
             t[n].unit = Queue(w)'[i].unit => t[n].gen < Queue(w)'[i].gen
  BY <1>5, <1>7, <1>8
<1>17. writer'[w].moves = <<>>
  BY <1>3, <1>5
<1>18. \A n \in DOMAIN t : P(n) = pipes'[t[n].unit][t[n].gen]
  BY <1>7, <1>9
<1>19. /\ writer'[w].pc # "poll" /\ writer'[w].pc # "leave"
       /\ \A n \in DOMAIN t :
              /\ t[n].gen <= Len(pipes'[t[n].unit])
              /\ Len(t[n].partial) < MaxLine
              /\ n \in writer'[w].ready => \/ pipes'[t[n].unit][t[n].gen].data # <<>>
                                           \/ ~pipes'[t[n].unit][t[n].gen].open
              /\ n \in writer'[w].closed => /\ t[n].partial = <<>>
                                            /\ pipes'[t[n].unit][t[n].gen].data = <<>>
                                            /\ ~pipes'[t[n].unit][t[n].gen].open
  <2>1. writer'[w].pc # "poll" /\ writer'[w].pc # "leave"
    BY <1>3
  <2>2. ASSUME NEW n \in DOMAIN t
        PROVE  /\ t[n].gen <= Len(pipes'[t[n].unit])
               /\ Len(t[n].partial) < MaxLine
               /\ n \in writer'[w].ready => \/ pipes'[t[n].unit][t[n].gen].data # <<>>
                                            \/ ~pipes'[t[n].unit][t[n].gen].open
               /\ n \in writer'[w].closed => /\ t[n].partial = <<>>
                                             /\ pipes'[t[n].unit][t[n].gen].data = <<>>
                                             /\ ~pipes'[t[n].unit][t[n].gen].open
    <3>1. P(n) = pipes'[t[n].unit][t[n].gen]
      BY <1>18
    <3>. QED
      BY <1>14, <3>1
  <2>. QED
    BY <2>1, <2>2
<1>. QED
  BY Zenon, <1>15, <1>16, <1>17, <1>19 DEF Reads, Pipe, t

\* What is left of the sources stands in their order.
LEMMA ReadsKept ==
    ASSUME Types, NEW w \in Writers, Reads(w)
    PROVE  LET k == Kept(w)
           IN  /\ k \in Seq(Source)
               /\ \A i \in DOMAIN k : /\ k[i].gen <= Len(pipes[k[i].unit])
                                      /\ Len(k[i].partial) < MaxLine
               /\ \A i, j \in DOMAIN k : i < j /\ k[i].unit = k[j].unit => k[i].gen < k[j].gen
               /\ \A i \in DOMAIN k, q \in DOMAIN Queue(w) :
                     k[i].unit = Queue(w)[q].unit => k[i].gen < Queue(w)[q].gen
<1>. DEFINE s == writer[w].sources
            k == Kept(w)
<1>1. PICK f : Selects(w, f)
  BY KeptFacts
<1>2. /\ k \in Seq(Source)
      /\ \A i \in DOMAIN k : f[i] \in DOMAIN s /\ k[i] = s[f[i]]
      /\ \A i, j \in DOMAIN k : i < j => f[i] < f[j]
  BY <1>1 DEF Selects
<1>3. /\ \A n \in DOMAIN s : s[n].gen <= Len(pipes[s[n].unit]) /\ Len(s[n].partial) < MaxLine
      /\ \A n, m \in DOMAIN s : n < m /\ s[n].unit = s[m].unit => s[n].gen < s[m].gen
      /\ \A n \in DOMAIN s, i \in DOMAIN Queue(w) :
             s[n].unit = Queue(w)[i].unit => s[n].gen < Queue(w)[i].gen
  BY DEF Reads
<1>. HIDE DEF s, k
<1>4. \A i, j \in DOMAIN k : i < j /\ k[i].unit = k[j].unit => k[i].gen < k[j].gen
  BY <1>2, <1>3
<1>5. \A i \in DOMAIN k : k[i].gen <= Len(pipes[k[i].unit]) /\ Len(k[i].partial) < MaxLine
  BY <1>2, <1>3
<1>6. \A i \in DOMAIN k, q \in DOMAIN Queue(w) :
                     k[i].unit = Queue(w)[q].unit => k[i].gen < Queue(w)[q].gen
  BY <1>2, <1>3
<1>. QED
  BY <1>2, <1>4, <1>5, <1>6 DEF k

\* A message taken from a queue, and what it leaves.
LEMMA HeadAndTail ==
    ASSUME NEW T, NEW q \in Seq(T), q # <<>>
    PROVE  /\ 1 \in DOMAIN q /\ Head(q) = q[1] /\ q[1] \in T
           /\ Tail(q) \in Seq(T) /\ Len(Tail(q)) = Len(q) - 1
           /\ \A i \in DOMAIN Tail(q) : i \in Nat /\ i >= 1 /\ i + 1 \in DOMAIN q /\ Tail(q)[i] = q[i + 1]
<1>1. Len(q) \in Nat \ {0} /\ Len(Tail(q)) = Len(q) - 1 /\ Tail(q) \in Seq(T)
  OBVIOUS
<1>2. DOMAIN Tail(q) = 1..(Len(q) - 1) /\ DOMAIN q = 1..Len(q)
  BY <1>1
<1>3. \A i \in 1..(Len(q) - 1) : Tail(q)[i] = q[i + 1]
  BY <1>1
<1>. QED
  BY <1>1, <1>2, <1>3

\* A message taken becomes the last source.
LEMMA ReadsAccept ==
    ASSUME IInv, [Next]_vars, Types', NEW w \in Writers, Accept(w)
    PROVE  Reads(w)'
<1>1. Types /\ Linked /\ Offers /\ Reads(w)
  BY DEF IInv
<1>2. pipes' = pipes
  BY DEF Accept
<1>. DEFINE k == Kept(w)
            t == writer'[w].sources
            q == Queue(w)
            qq == Queue(w)'
<1>3. /\ Up(w) /\ writer[w].lines = <<>>
      /\ writer'[w].closed = {} /\ writer'[w].ready = {}
      /\ writer'[w].conn = writer[w].conn /\ writer'[w].moves = writer[w].moves
      /\ \/ /\ writer'[w].pc = "poll" /\ writer'[w].lines = <<>> /\ t = k
            /\ conns' = conns
         \/ /\ q # <<>>
            /\ writer'[w].pc = "poll" /\ writer'[w].lines = <<>>
            /\ t = Append(k, Received(Head(q)))
            /\ Received(Head(q)) \in Source
            /\ conns'[writer[w].conn].queue = Tail(q)
         \/ /\ writer'[w].pc = "leave" /\ t = Flushed(k) /\ q = <<>>
            /\ conns' = conns
  BY <1>1, AcceptEffect
<1>4. writer'[w].moves = <<>>
  BY <1>1, <1>3 DEF Reads
<1>5. q \in Seq(Message) /\ q = conns[writer[w].conn].queue /\ writer[w].conn \in Conns
  BY <1>1, <1>3, UpIsLinked
<1>6. /\ k \in Seq(Source)
      /\ \A i \in DOMAIN k : k[i].gen <= Len(pipes[k[i].unit]) /\ Len(k[i].partial) < MaxLine
      /\ \A i, j \in DOMAIN k : i < j /\ k[i].unit = k[j].unit => k[i].gen < k[j].gen
      /\ \A i \in DOMAIN k, j \in DOMAIN q : k[i].unit = q[j].unit => k[i].gen < q[j].gen
  BY <1>1, ReadsKept
<1>7. CASE writer'[w].pc = "leave" /\ t = Flushed(k) /\ q = <<>> /\ conns' = conns
  <2>1. qq = <<>>
    BY <1>3, <1>7 DEF Queue, Up
  <2>2. DOMAIN qq = {}
    BY <2>1
  <2>3. /\ DOMAIN t = DOMAIN k
        /\ \A i \in DOMAIN k : t[i].unit = k[i].unit /\ t[i].gen = k[i].gen /\ t[i].partial = <<>>
    BY <1>6, <1>7, FlushedFacts
  <2>4. Len(<<>>) < MaxLine
    BY Constants
  <2>. HIDE DEF q, qq, k, t
  <2>5. \A i \in DOMAIN t : /\ t[i].gen <= Len(pipes'[t[i].unit]) /\ Len(t[i].partial) < MaxLine
                           /\ t[i].partial = <<>>
    BY <1>2, <1>6, <2>3, <2>4
  <2>6. \A i, j \in DOMAIN t : i < j /\ t[i].unit = t[j].unit => t[i].gen < t[j].gen
    BY <1>6, <2>3
  <2>. QED
    BY <1>3, <1>4, <1>7, <2>2, <2>5, <2>6 DEF Reads, t, qq
<1>8. CASE writer'[w].pc = "poll" /\ writer'[w].lines = <<>> /\ t = k /\ conns' = conns
  <2>1. qq = q
    BY <1>3, <1>8 DEF Queue, Up
  <2>. HIDE DEF q, qq, k, t
  <2>. QED
    BY <1>2, <1>3, <1>4, <1>6, <1>8, <2>1 DEF Reads, t, qq
<1>9. CASE /\ q # <<>>
           /\ writer'[w].pc = "poll" /\ writer'[w].lines = <<>>
           /\ t = Append(k, Received(Head(q)))
           /\ Received(Head(q)) \in Source
           /\ conns'[writer[w].conn].queue = Tail(q)
  <2>1. qq = Tail(q)
    BY <1>3, <1>9 DEF Queue, Up
  <2>2. /\ \A i \in DOMAIN q : q[i].gen <= Len(pipes[q[i].unit])
        /\ \A i, j \in DOMAIN q : i < j /\ q[i].unit = q[j].unit => q[i].gen < q[j].gen
    BY <1>1, <1>5 DEF Offers
  <2>. DEFINE r == Received(Head(q))
  <2>. HIDE DEF q, qq, k, t
  <2>3. /\ 1 \in DOMAIN q /\ Head(q) = q[1]
        /\ \A i \in DOMAIN qq : i \in Nat /\ i >= 1 /\ i + 1 \in DOMAIN q /\ qq[i] = q[i + 1]
    BY <1>5, <1>9, <2>1, HeadAndTail
  <2>4. r.unit = q[1].unit /\ r.gen = q[1].gen /\ r.partial = <<>> /\ r \in Source
    BY <1>9, <2>3 DEF Received
  <2>. HIDE DEF r
  <2>5. /\ DOMAIN t = 1..(Len(k) + 1) /\ Len(k) \in Nat /\ DOMAIN k = 1..Len(k)
        /\ \A i \in DOMAIN k : t[i] = k[i]
        /\ t[Len(k) + 1] = r
    BY <1>6, <1>9, <2>4 DEF r
  <2>6. ASSUME NEW i \in DOMAIN t
        PROVE  t[i].gen <= Len(pipes'[t[i].unit]) /\ Len(t[i].partial) < MaxLine
    <3>1. CASE i \in DOMAIN k
      BY <1>2, <1>6, <2>5, <3>1
    <3>2. CASE i = Len(k) + 1
      <4>1. Len(<<>>) < MaxLine
        BY Constants
      <4>. QED
        BY <1>2, <2>2, <2>3, <2>4, <2>5, <3>2, <4>1
    <3>. QED
      BY <2>5, <3>1, <3>2
  <2>7. ASSUME NEW i \in DOMAIN t, NEW j \in DOMAIN t, i < j, t[i].unit = t[j].unit
        PROVE  t[i].gen < t[j].gen
    <3>1. i \in DOMAIN k
      BY <2>5, <2>7
    <3>2. CASE j \in DOMAIN k
      BY <1>6, <2>5, <2>7, <3>1, <3>2
    <3>3. CASE j = Len(k) + 1
      BY <1>6, <2>3, <2>4, <2>5, <2>7, <3>1, <3>3
    <3>. QED
      BY <2>5, <3>2, <3>3
  <2>8. ASSUME NEW i \in DOMAIN t, NEW j \in DOMAIN qq, t[i].unit = qq[j].unit
        PROVE  t[i].gen < qq[j].gen
    <3>1. j + 1 \in DOMAIN q /\ qq[j] = q[j + 1] /\ 1 < j + 1
      BY <2>3
    <3>2. CASE i \in DOMAIN k
      BY <1>6, <2>5, <2>8, <3>1, <3>2
    <3>3. CASE i = Len(k) + 1
      BY <2>2, <2>3, <2>4, <2>5, <2>8, <3>1, <3>3
    <3>. QED
      BY <2>5, <3>2, <3>3
  <2>. QED
    BY <1>3, <1>4, <1>9, <2>6, <2>7, <2>8 DEF Reads, t, qq
<1>. QED
  BY <1>3, <1>7, <1>8, <1>9

\* Every step keeps the sources in the order of their starts.
LEMMA ReadsStep ==
    ASSUME IInv, [Next]_vars, Types'
    PROVE  \A w \in Writers : Reads(w)'
<1>. SUFFICES ASSUME NEW w \in Writers PROVE Reads(w)'
  OBVIOUS
<1>1. Types /\ Linked
  BY DEF IInv
<1>2. CASE Leave(w) \/ Crash(w)
  <2>1. Up(w) /\ Ended(w)
    BY <1>2 DEF Leave, Crash, Up
  <2>2. writer'[w] = Down
    BY <1>1, <2>1, EndedEffect
  <2>. QED
    BY <2>2, DownIsIdle, ReadsNothing
<1>3. CASE Connect(w)
  <2>1. PICK c \in Conns : writer'[w] = [Down EXCEPT !.pc = "poll", !.conn = c]
    BY <1>1, <1>3, ConnectEffect
  <2>2. /\ writer'[w].sources = <<>> /\ writer'[w].ready = {} /\ writer'[w].closed = {}
        /\ writer'[w].moves = <<>> /\ writer'[w].lines = <<>>
    BY <2>1 DEF Down
  <2>. QED
    BY <2>2, ReadsNothing
<1>. QED
  BY <1>2, <1>3, WriterCases, ReadsElsewhere, ReadsPoll, ReadsDrain, ReadsAccept, ReadsWriting

-------------------------------------------------------------------------------
(* Turns                                                                     *)

\* A log writer with no source.
LEMMA TurnsNothing ==
    ASSUME NEW w \in Writers, writer'[w].sources = <<>>, writer'[w].pc # "drain"
    PROVE  Turns(w)'
<1>1. DOMAIN writer'[w].sources = {}
  BY DEF Turns
<1>. QED
  BY <1>1 DEF Turns

\* A source whose unit was started since.
Superseded(w, n) ==
    writer[w].sources[n].gen < Len(pipes[writer[w].sources[n].unit])

\* Unless starts overlapped, the pipe of a start that was superseded has no writer, and
\* stays empty once read.
LEMMA SupersededFacts ==
    ASSUME Types, Brief, Grown, NEW w \in Writers, Reads(w), NEW n \in DOMAIN writer[w].sources,
           Superseded(w, n), writer[w].sources[n].unit \notin overlapped
    PROVE  LET s == writer[w].sources[n]
           IN  /\ ~Pipe(s).open
               /\ Pipe(s).data = <<>> => pipes'[s.unit][s.gen].data = <<>>
<1>. DEFINE s == writer[w].sources[n]
<1>1. /\ s.unit \in Units /\ s.gen \in DOMAIN pipes[s.unit]
      /\ Pipe(s) = pipes[s.unit][s.gen]
  BY SourceFacts
<1>2. s.gen < Len(pipes[s.unit]) /\ s.unit \notin overlapped
  BY DEF Superseded
<1>. HIDE DEF s
<1>3. ~pipes[s.unit][s.gen].open
  BY <1>1, <1>2 DEF Brief
<1>4. pipes[s.unit][s.gen].data = <<>> => pipes'[s.unit][s.gen].data = <<>>
  BY <1>1, <1>3 DEF Grown
<1>. QED
  BY Zenon, <1>1, <1>3, <1>4 DEF s

\* The start of an earlier source was superseded.
LEMMA EarlierIsSuperseded ==
    ASSUME Types, Offers, NEW w \in Writers, Reads(w), Queue(w) = <<>> \/ Queue(w) \in Seq(Message),
           NEW n \in DOMAIN writer[w].sources
    PROVE  /\ \A m \in DOMAIN writer[w].sources :
                 n < m /\ writer[w].sources[n].unit = writer[w].sources[m].unit => Superseded(w, n)
           /\ Queue(w) # <<>> /\ Queue(w)[1].unit = writer[w].sources[n].unit
                 /\ Queue(w)[1].gen <= Len(pipes[Queue(w)[1].unit]) => Superseded(w, n)
<1>. DEFINE s == writer[w].sources
            q == Queue(w)
<1>1. \A m \in DOMAIN s : s[m].unit \in Units /\ s[m].gen \in Nat
                          /\ s[m].gen <= Len(pipes[s[m].unit])
  BY SourceFacts
<1>2. \A u \in Units : Len(pipes[u]) \in Nat
  <2>1. \A u \in Units : pipes[u] \in Seq(PipeEnd)
    BY DEF Types
  <2>. QED
    BY <2>1
<1>3. /\ \A m \in DOMAIN s : n < m /\ s[n].unit = s[m].unit => s[n].gen < s[m].gen
      /\ \A i \in DOMAIN q : s[n].unit = q[i].unit => s[n].gen < q[i].gen
  BY DEF Reads
<1>4. q # <<>> => 1 \in DOMAIN q /\ q[1].gen \in Nat
  <2>1. SUFFICES ASSUME q # <<>> PROVE 1 \in DOMAIN q /\ q[1].gen \in Nat
    OBVIOUS
  <2>2. q \in Seq(Message)
    BY <2>1
  <2>. HIDE DEF q
  <2>3. 1 \in DOMAIN q /\ q[1] \in Message
    BY <2>1, <2>2
  <2>. QED
    BY <2>3 DEF Message, Boots
<1>5. n \in DOMAIN s
  OBVIOUS
<1>. HIDE DEF s, q
<1>6. ASSUME NEW m \in DOMAIN s, n < m, s[n].unit = s[m].unit
      PROVE  s[n].gen < Len(pipes[s[n].unit])
  <2>1. s[n].gen < s[m].gen
    BY <1>3, <1>6
  <2>2. s[m].gen <= Len(pipes[s[n].unit])
    BY <1>1, <1>6
  <2>3. s[n].gen \in Nat /\ s[m].gen \in Nat /\ Len(pipes[s[n].unit]) \in Nat
    BY <1>1, <1>2, <1>5
  <2>. QED
    BY <2>1, <2>2, <2>3
<1>7. ASSUME q # <<>>, q[1].unit = s[n].unit, q[1].gen <= Len(pipes[q[1].unit])
      PROVE  s[n].gen < Len(pipes[s[n].unit])
  <2>1. s[n].gen < q[1].gen
    BY <1>3, <1>4, <1>7
  <2>2. q[1].gen <= Len(pipes[s[n].unit])
    BY <1>7
  <2>3. s[n].gen \in Nat /\ q[1].gen \in Nat /\ Len(pipes[s[n].unit]) \in Nat
    BY <1>1, <1>2, <1>4, <1>5, <1>7
  <2>. QED
    BY <2>1, <2>2, <2>3
<1>. QED
  BY <1>6, <1>7 DEF Superseded, s, q

\* What offers are about was started.
LEMMA QueueFacts ==
    ASSUME Types, Linked, Offers, NEW w \in Writers
    PROVE  /\ Queue(w) \in Seq(Message)
           /\ \A i \in DOMAIN Queue(w) :
                 Queue(w)[i].gen <= Len(pipes[Queue(w)[i].unit])
           /\ \A i, j \in DOMAIN Queue(w) :
                 i < j /\ Queue(w)[i].unit = Queue(w)[j].unit => Queue(w)[i].gen < Queue(w)[j].gen
<1>1. CASE ~Up(w)
  BY <1>1 DEF Queue
<1>2. CASE Up(w)
  <2>1. writer[w].conn \in Conns /\ Queue(w) = conns[writer[w].conn].queue
        /\ Queue(w) \in Seq(Message)
    BY <1>2, UpIsLinked
  <2>. QED
    BY <2>1 DEF Offers
<1>. QED
  BY <1>1, <1>2

\* Steps that leave the sources as they are.
LEMMA TurnsFrame ==
    ASSUME Types, Linked, Offers, Brief, Grown, NEW w \in Writers, Reads(w), Turns(w),
           writer'[w].sources = writer[w].sources,
           writer'[w].ready = writer[w].ready, writer'[w].closed = writer[w].closed,
           writer'[w].pc = writer[w].pc, writer'[w].conn = writer[w].conn,
           Up(w) /\ ~conns[writer[w].conn].server => ~conns'[writer[w].conn].server,
           \/ Queue(w)' = Queue(w)
           \/ /\ Up(w) /\ conns[writer[w].conn].server
              /\ \E m \in Message : Queue(w)' = Append(Queue(w), m)
           \/ /\ Idle(w) /\ Up(w) /\ conns[writer[w].conn].server
    PROVE  Turns(w)'
<1>. DEFINE s == writer[w].sources
            q == Queue(w)
            qq == Queue(w)'
            ready == writer[w].ready
            P(n) == pipes'[s[n].unit][s[n].gen]
            drains == writer[w].pc = "drain"
            server == conns[writer[w].conn].server
<1>1. /\ q \in Seq(Message)
      /\ \A i \in DOMAIN q : q[i].gen <= Len(pipes[q[i].unit])
  BY QueueFacts
<1>2. /\ drains /\ 0 \in ready => q # <<>> \/ ~server
      /\ \A n, m \in DOMAIN s : s[n].unit = s[m].unit /\ s[n].unit \notin overlapped /\ n < m =>
            /\ Pipe(s[n]).data = <<>>
            /\ drains => n \in ready \cup writer[w].closed
      /\ drains /\ 0 \in ready /\ q # <<>> /\ q[1].unit \notin overlapped =>
            \A n \in DOMAIN s : s[n].unit = q[1].unit => n \in ready \/ Pipe(s[n]).data = <<>>
  BY DEF Turns
<1>3. \A n \in DOMAIN s : Superseded(w, n) /\ s[n].unit \notin overlapped
                             /\ Pipe(s[n]).data = <<>> => P(n).data = <<>>
  BY SupersededFacts
<1>4. \A n \in DOMAIN s :
         /\ \A m \in DOMAIN s : n < m /\ s[n].unit = s[m].unit => Superseded(w, n)
         /\ q # <<>> /\ q[1].unit = s[n].unit => Superseded(w, n)
  <2>1. \A n \in DOMAIN s :
         /\ \A m \in DOMAIN s : n < m /\ s[n].unit = s[m].unit => Superseded(w, n)
         /\ q # <<>> /\ q[1].unit = s[n].unit /\ q[1].gen <= Len(pipes[q[1].unit]) => Superseded(w, n)
    BY <1>1, EarlierIsSuperseded
  <2>2. q # <<>> => 1 \in DOMAIN q
    <3>. HIDE DEF q
    <3>. QED
      BY <1>1
  <2>. HIDE DEF s, q
  <2>. QED
    BY <1>1, <2>1, <2>2
<1>5. overlapped \subseteq overlapped'
  BY DEF Grown
<1>6. Up(w) /\ ~server => ~conns'[writer[w].conn].server
  OBVIOUS
<1>7. \/ qq = q
      \/ Up(w) /\ server /\ \E m \in Message : qq = Append(q, m)
      \/ s = <<>> /\ q = <<>> /\ Up(w) /\ server
  BY DEF Idle
<1>8. drains => Up(w)
  BY DEF Up
<1>. HIDE DEF s, q, qq, ready, P, drains, server
<1>9. drains /\ 0 \in ready => qq # <<>> \/ ~conns'[writer[w].conn].server
  <2>1. CASE qq = q
    BY <1>2, <1>6, <1>8, <2>1
  <2>2. CASE \E m \in Message : qq = Append(q, m)
    BY <1>1, <2>2
  <2>3. CASE q = <<>> /\ server
    BY <1>2, <2>3
  <2>. QED
    BY <1>7, <2>1, <2>2, <2>3
<1>10. \A n, m \in DOMAIN s : s[n].unit = s[m].unit /\ s[n].unit \notin overlapped' /\ n < m =>
            /\ P(n).data = <<>>
            /\ drains => n \in ready \cup writer[w].closed
  BY <1>2, <1>3, <1>4, <1>5
<1>11. drains /\ 0 \in ready /\ qq # <<>> /\ qq[1].unit \notin overlapped' =>
            \A n \in DOMAIN s : s[n].unit = qq[1].unit => n \in ready \/ P(n).data = <<>>
  <2>1. CASE qq = q
    BY <1>2, <1>3, <1>4, <1>5, <2>1
  <2>2. CASE server /\ \E m \in Message : qq = Append(q, m)
    <3>1. CASE q = <<>>
      BY <1>2, <2>2, <3>1
    <3>2. CASE q # <<>>
      <4>1. qq[1] = q[1]
        BY <1>1, <2>2, <3>2
      <4>. QED
        BY <1>2, <1>3, <1>4, <1>5, <3>2, <4>1
    <3>. QED
      BY <3>1, <3>2
  <2>3. CASE s = <<>>
    BY <2>3
  <2>. QED
    BY <1>7, <2>1, <2>2, <2>3
<1>. QED
  BY Zenon, <1>9, <1>10, <1>11 DEF Turns, Pipe, s, qq, ready, P, drains

\* A turn begins: an earlier start's source is at its end or readable.
LEMMA TurnsPoll ==
    ASSUME IInv, [Next]_vars, Grown, NEW w \in Writers, Poll(w)
    PROVE  Turns(w)'
<1>1. Types /\ Linked /\ Offers /\ Brief /\ Reads(w) /\ Turns(w)
  BY DEF IInv
<1>. DEFINE s == writer[w].sources
            q == Queue(w)
            ready == Readable(w)
            P(n) == pipes[s[n].unit][s[n].gen]
<1>2. pipes' = pipes /\ conns' = conns /\ overlapped' = overlapped
  BY DEF Poll
<1>3. /\ writer[w].pc = "poll"
      /\ writer'[w].pc = "drain" /\ writer'[w].ready = ready
      /\ writer'[w].conn = writer[w].conn
      /\ writer'[w].sources = s
  BY <1>1, PollEffect
<1>4. q = conns[writer[w].conn].queue
  BY <1>3 DEF Queue, Up
<1>5. Queue(w)' = q
  BY <1>2, <1>3 DEF Queue, Up
<1>6. \A n \in DOMAIN s : n # 0
  <2>1. s \in Seq(Source)
    BY <1>1 DEF Types, Process
  <2>. QED
    BY <2>1
<1>7. 0 \in ready => q # <<>> \/ ~conns[writer[w].conn].server
  BY <1>4, <1>6 DEF Readable
<1>8. \A n \in DOMAIN s : n \in ready <=> P(n).data # <<>> \/ ~P(n).open
  BY <1>6 DEF Readable, Pipe
<1>9. \A n, m \in DOMAIN s : s[n].unit = s[m].unit /\ s[n].unit \notin overlapped /\ n < m =>
            P(n).data = <<>> /\ ~P(n).open
  <2>1. \A n, m \in DOMAIN s : s[n].unit = s[m].unit /\ n < m => Superseded(w, n)
    BY <1>1, QueueFacts, EarlierIsSuperseded
  <2>2. \A n \in DOMAIN s : Superseded(w, n) /\ s[n].unit \notin overlapped => ~P(n).open
    BY <1>1, SupersededFacts DEF Pipe
  <2>3. \A n, m \in DOMAIN s : s[n].unit = s[m].unit /\ s[n].unit \notin overlapped /\ n < m =>
            P(n).data = <<>>
    BY <1>1 DEF Turns, Pipe
  <2>. HIDE DEF s, P
  <2>. QED
    BY <2>1, <2>2, <2>3
<1>. HIDE DEF s, q, ready, P
<1>10. \A n \in DOMAIN s : n \in ready \/ P(n).data = <<>>
  BY <1>8
<1>11. \A n, m \in DOMAIN s : s[n].unit = s[m].unit /\ s[n].unit \notin overlapped /\ n < m =>
            P(n).data = <<>> /\ n \in ready
  BY <1>8, <1>9
<1>. QED
  BY <1>2, <1>3, <1>5, <1>7, <1>10, <1>11 DEF Turns, Pipe, P

\* A read empties the pipe of an earlier start.
LEMMA TurnsDrain ==
    ASSUME IInv, [Next]_vars, Grown, NEW w \in Writers, Drain(w)
    PROVE  Turns(w)'
<1>1. /\ Types /\ Linked /\ Offers /\ Piped /\ Brief /\ Reads(w) /\ Turns(w)
      /\ \A u \in Units : Places(u, w)
  BY DEF IInv
<1>2. PICK m \in DOMAIN writer[w].sources : Drains(w, m)
  BY <1>1, DrainEffect
<1>. DEFINE s == writer[w].sources
            t == writer'[w].sources
            q == Queue(w)
            d == Drained(s[m])
            D(n) == Pipe(s[n]).data
            P(n) == pipes'[s[n].unit][s[n].gen].data
            ready == writer[w].ready
            closed == writer[w].closed
<1>3. /\ m \in ready /\ writer[w].pc = "drain"
      /\ writer'[w].pc = "drain" /\ writer'[w].conn = writer[w].conn
      /\ t = [s EXCEPT ![m].partial = d.partial]
      /\ writer'[w].closed = IF d.eof THEN closed \cup {m} ELSE closed
      /\ writer'[w].ready = ready \ {m}
      /\ D(m) \in Line
      /\ P(m) = SubSeq(D(m), d.size + 1, Len(D(m)))
      /\ Rising(s[m].partial) /\ Rising(Pipe(s[m]).data)
      /\ Above(Range(s[m].partial), Range(Pipe(s[m]).data))
  <2>1. Drains(w, m) => Pipe(s[m]).data \in Line
    BY Zenon DEF Drains, PipeEnd
  <2>. QED
    BY Zenon, <1>2, <2>1 DEF Drains
<1>4. \A n \in DOMAIN s :
         /\ s[n] \in Source /\ s[n].unit \in Units /\ s[n].gen \in Nat /\ s[n].partial \in Line
         /\ s[n].gen \in DOMAIN pipes[s[n].unit] /\ s[n].gen <= Len(pipes[s[n].unit])
         /\ Pipe(s[n]) = pipes[s[n].unit][s[n].gen]
         /\ n \in Nat /\ n # 0
  BY <1>1, SourceFacts
<1>5. \A n \in DOMAIN s : Len(s[n].partial) < MaxLine
  BY <1>1 DEF Reads
<1>6. /\ d.eof <=> D(m) = <<>>
      /\ d.size \in Nat /\ Len(D(m)) \in Nat
      /\ Len(D(m)) <= ReadSize => d.size = Len(D(m))
  <2>1. /\ s[m].partial \in Line /\ Len(s[m].partial) < MaxLine /\ Pipe(s[m]).data \in Line
        /\ Rising(s[m].partial) /\ Rising(Pipe(s[m]).data)
        /\ Above(Range(s[m].partial), Range(Pipe(s[m]).data))
    BY Zenon, <1>3, <1>4, <1>5
  <2>2. Len(Pipe(s[m]).data) \in Nat
    BY <2>1 DEF Line
  <2>. HIDE DEF s
  <2>. QED
    BY <2>1, <2>2, DrainedFacts DEF d
<1>7. DOMAIN t = DOMAIN s /\ \A n \in DOMAIN s : t[n].unit = s[n].unit /\ t[n].gen = s[n].gen
  <2>1. s[m] = [unit |-> s[m].unit, gen |-> s[m].gen, partial |-> s[m].partial]
    BY <1>4 DEF Source
  <2>2. s \in Seq(Source)
    BY <1>1 DEF Types, Process
  <2>. HIDE DEF s, d
  <2>3. /\ DOMAIN t = DOMAIN s
        /\ \A n \in DOMAIN s \ {m} : t[n] = s[n]
        /\ t[m] = [s[m] EXCEPT !.partial = d.partial]
    BY Zenon, <1>3 DEF s
  <2>4. t[m] = [unit |-> s[m].unit, gen |-> s[m].gen, partial |-> d.partial]
    BY <2>1, <2>3
  <2>. HIDE DEF t
  <2>. QED
    BY <2>3, <2>4
<1>8. conns' = conns
  BY Zenon DEF Drain
<1>9. Queue(w)' = q
  BY Zenon, <1>3, <1>8 DEF Queue, Up
<1>10. /\ 0 \in ready => q # <<>> \/ ~conns[writer[w].conn].server
       /\ \A n, k \in DOMAIN s : s[n].unit = s[k].unit /\ s[n].unit \notin overlapped /\ n < k =>
            /\ D(n) = <<>> /\ n \in ready \cup closed
       /\ 0 \in ready /\ q # <<>> /\ q[1].unit \notin overlapped =>
            \A n \in DOMAIN s : s[n].unit = q[1].unit => n \in ready \/ D(n) = <<>>
  BY Zenon, <1>1, <1>3 DEF Turns
<1>11. \A n \in DOMAIN s : Superseded(w, n) /\ s[n].unit \notin overlapped /\ D(n) = <<>> => P(n) = <<>>
  BY <1>1, SupersededFacts
<1>12. \A n \in DOMAIN s :
         /\ \A k \in DOMAIN s : n < k /\ s[n].unit = s[k].unit => Superseded(w, n)
         /\ q # <<>> /\ q[1].unit = s[n].unit => Superseded(w, n)
  <2>0. q \in Seq(Message) /\ \A i \in DOMAIN q : q[i].gen <= Len(pipes[q[i].unit])
    BY <1>1, QueueFacts
  <2>1. \A n \in DOMAIN s :
         /\ \A k \in DOMAIN s : n < k /\ s[n].unit = s[k].unit => Superseded(w, n)
         /\ q # <<>> /\ q[1].unit = s[n].unit /\ q[1].gen <= Len(pipes[q[1].unit]) => Superseded(w, n)
    BY <1>1, <2>0, EarlierIsSuperseded
  <2>2. q # <<>> => 1 \in DOMAIN q
    <3>. HIDE DEF q
    <3>. QED
      BY <2>0
  <2>. HIDE DEF s, q
  <2>. QED
    BY <2>0, <2>1, <2>2
<1>13. overlapped \subseteq overlapped'
  BY DEF Grown
<1>14. Superseded(w, m) /\ s[m].unit \notin overlapped => P(m) = <<>>
  <2>1. SUFFICES ASSUME Superseded(w, m), s[m].unit \notin overlapped PROVE P(m) = <<>>
    OBVIOUS
  <2>2. s[m].gen < Len(pipes[s[m].unit])
    BY <2>1 DEF Superseded
  <2>3. m \in DOMAIN s
    OBVIOUS
  <2>. HIDE DEF s, d
  <2>4. Len(D(m)) <= ReadSize
    BY <1>1, <1>4, <2>1, <2>2, <2>3 DEF Brief
  <2>5. P(m) = SubSeq(D(m), Len(D(m)) + 1, Len(D(m)))
    BY <1>3, <1>6, <2>4
  <2>. HIDE DEF D, P
  <2>6. D(m) \in Seq(Piece)
    BY <1>3 DEF Line
  <2>7. Len(P(m)) = 0 /\ P(m) \in Seq(Piece)
    BY <1>6, <2>5, <2>6, SubSeqProperties
  <2>. QED
    BY <2>7
<1>15. m \in DOMAIN s
  OBVIOUS
<1>. HIDE DEF s, t, q, d, D, P, ready, closed
<1>16. 0 \in writer'[w].ready => q # <<>> \/ ~conns[writer[w].conn].server
  BY <1>3, <1>10
<1>17. \A n, k \in DOMAIN s : s[n].unit = s[k].unit /\ s[n].unit \notin overlapped' /\ n < k =>
            P(n) = <<>> /\ n \in writer'[w].ready \cup writer'[w].closed
  <2>. SUFFICES ASSUME NEW n \in DOMAIN s, NEW k \in DOMAIN s,
                       s[n].unit = s[k].unit, s[n].unit \notin overlapped', n < k
                PROVE  P(n) = <<>> /\ n \in writer'[w].ready \cup writer'[w].closed
    OBVIOUS
  <2>1. D(n) = <<>> /\ n \in ready \cup closed /\ Superseded(w, n)
    BY <1>10, <1>12, <1>13
  <2>2. P(n) = <<>>
    BY <1>11, <1>13, <2>1
  <2>3. n = m => d.eof
    BY <1>6, <2>1
  <2>. QED
    BY <1>3, <2>1, <2>2, <2>3
<1>18. 0 \in writer'[w].ready /\ q # <<>> /\ q[1].unit \notin overlapped' =>
            \A n \in DOMAIN s : s[n].unit = q[1].unit => n \in writer'[w].ready \/ P(n) = <<>>
  <2>. SUFFICES ASSUME 0 \in writer'[w].ready, q # <<>>, q[1].unit \notin overlapped',
                       NEW n \in DOMAIN s, s[n].unit = q[1].unit
                PROVE  n \in writer'[w].ready \/ P(n) = <<>>
    OBVIOUS
  <2>1. Superseded(w, n) /\ q[1].unit \notin overlapped /\ s[n].unit \notin overlapped
    BY <1>12, <1>13
  <2>2. n \in ready \/ D(n) = <<>>
    BY <1>3, <1>10, <2>1
  <2>. QED
    BY <1>3, <1>11, <1>14, <2>1, <2>2
<1>19. \A n \in DOMAIN t : t[n].unit = s[n].unit /\ P(n) = pipes'[t[n].unit][t[n].gen].data
  BY <1>7 DEF P
<1>20. \A n, k \in DOMAIN t : t[n].unit = t[k].unit /\ t[n].unit \notin overlapped' /\ n < k =>
            /\ pipes'[t[n].unit][t[n].gen].data = <<>>
            /\ n \in writer'[w].ready \cup writer'[w].closed
  BY <1>7, <1>17, <1>19
<1>21. 0 \in writer'[w].ready /\ q # <<>> /\ q[1].unit \notin overlapped' =>
            \A n \in DOMAIN t : t[n].unit = q[1].unit =>
               n \in writer'[w].ready \/ pipes'[t[n].unit][t[n].gen].data = <<>>
  BY <1>7, <1>18, <1>19
<1>. QED
  BY Zenon, <1>3, <1>8, <1>9, <1>16, <1>20, <1>21 DEF Turns, Pipe, t

\* A message is taken after every source before it was read.
LEMMA TurnsAccept ==
    ASSUME IInv, [Next]_vars, Grown, NEW w \in Writers, Accept(w)
    PROVE  Turns(w)'
<1>1. Types /\ Linked /\ Offers /\ Reads(w) /\ Turns(w)
  BY DEF IInv
<1>2. pipes' = pipes /\ overlapped' = overlapped
  BY DEF Accept
<1>. DEFINE s == writer[w].sources
            k == Kept(w)
            t == writer'[w].sources
            q == Queue(w)
            P(x) == pipes[x.unit][x.gen].data
<1>3. /\ writer[w].pc = "drain" /\ writer'[w].pc # "drain"
      /\ \/ t = k
         \/ /\ q # <<>> /\ writer[w].ready = {0}
            /\ t = Append(k, Received(Head(q)))
            /\ Received(Head(q)) \in Source
         \/ t = Flushed(k)
  BY <1>1, AcceptEffect
<1>4. PICK f : Selects(w, f)
  BY <1>1, KeptFacts
<1>5. /\ k \in Seq(Source)
      /\ \A i \in DOMAIN k : f[i] \in DOMAIN s /\ k[i] = s[f[i]]
      /\ \A i, j \in DOMAIN k : i < j => f[i] < f[j]
  BY <1>4 DEF Selects
<1>6. /\ \A n, m \in DOMAIN s : s[n].unit = s[m].unit /\ s[n].unit \notin overlapped /\ n < m =>
            P(s[n]) = <<>>
      /\ 0 \in writer[w].ready /\ q # <<>> /\ q[1].unit \notin overlapped =>
            \A n \in DOMAIN s : s[n].unit = q[1].unit => n \in writer[w].ready \/ P(s[n]) = <<>>
  BY <1>1, <1>3 DEF Turns, Pipe
<1>7. q \in Seq(Message)
  BY <1>1, QueueFacts
<1>8. \A n \in DOMAIN s : n # 0
  BY <1>1, SourceFacts
<1>. HIDE DEF s, k, t, q, P
<1>9. \A i, j \in DOMAIN k : k[i].unit = k[j].unit /\ k[i].unit \notin overlapped /\ i < j => P(k[i]) = <<>>
  BY <1>5, <1>6
<1>10. \A i, j \in DOMAIN t : t[i].unit = t[j].unit /\ t[i].unit \notin overlapped /\ i < j => P(t[i]) = <<>>
  <2>1. CASE t = k
    BY <1>9, <2>1
  <2>2. CASE t = Flushed(k)
    <3>1. /\ DOMAIN t = DOMAIN k
          /\ \A i \in DOMAIN k : t[i].unit = k[i].unit /\ t[i].gen = k[i].gen
      BY <1>5, <2>2, FlushedFacts
    <3>. QED
      BY <1>9, <3>1 DEF P
  <2>3. CASE /\ q # <<>> /\ writer[w].ready = {0}
             /\ t = Append(k, Received(Head(q)))
             /\ Received(Head(q)) \in Source
    <3>. DEFINE r == Received(Head(q))
    <3>1. r.unit = q[1].unit
      BY <1>7, <2>3, HeadAndTail DEF Received
    <3>. HIDE DEF r
    <3>2. /\ DOMAIN t = 1..(Len(k) + 1) /\ Len(k) \in Nat /\ DOMAIN k = 1..Len(k)
          /\ \A i \in DOMAIN k : t[i] = k[i]
          /\ t[Len(k) + 1] = r
      BY <1>5, <2>3 DEF r
    <3>. SUFFICES ASSUME NEW i \in DOMAIN t, NEW j \in DOMAIN t, i < j,
                         t[i].unit = t[j].unit, t[i].unit \notin overlapped
                  PROVE  P(t[i]) = <<>>
      OBVIOUS
    <3>3. i \in DOMAIN k /\ t[i] = k[i]
      BY <3>2
    <3>4. CASE j \in DOMAIN k
      BY <1>9, <3>2, <3>3, <3>4
    <3>5. CASE j = Len(k) + 1
      <4>1. k[i].unit = q[1].unit /\ q[1].unit \notin overlapped
        BY <3>1, <3>2, <3>3, <3>5
      <4>2. f[i] \in DOMAIN s /\ k[i] = s[f[i]] /\ f[i] # 0
        BY <1>5, <1>8, <3>3
      <4>3. P(s[f[i]]) = <<>>
        BY <1>6, <2>3, <4>1, <4>2
      <4>. QED
        BY <3>3, <4>2, <4>3
    <3>. QED
      BY <3>2, <3>4, <3>5
  <2>. QED
    BY <1>3, <2>1, <2>2, <2>3
<1>. QED
  BY <1>2, <1>3, <1>10 DEF Turns, Pipe, t, P

\* Every step keeps the order of the turn.
LEMMA TurnsStep ==
    ASSUME IInv, [Next]_vars, Types'
    PROVE  \A w \in Writers : Turns(w)'
<1>. SUFFICES ASSUME NEW w \in Writers PROVE Turns(w)'
  OBVIOUS
<1>1. Types /\ Linked /\ Offers /\ Brief /\ Reads(w) /\ Turns(w)
  BY DEF IInv
<1>2. Grown
  BY PipesStep
<1>3. CASE Leave(w) \/ Crash(w)
  <2>1. Up(w) /\ Ended(w)
    BY <1>3 DEF Leave, Crash, Up
  <2>2. writer'[w] = Down
    BY <1>1, <2>1, EndedEffect
  <2>3. writer'[w].sources = <<>> /\ writer'[w].pc # "drain"
    BY <2>2, DownIsIdle
  <2>. QED
    BY <2>3, TurnsNothing
<1>4. CASE Connect(w)
  <2>1. PICK c \in Conns : writer'[w] = [Down EXCEPT !.pc = "poll", !.conn = c]
    BY <1>1, <1>4, ConnectEffect
  <2>2. writer'[w].sources = <<>> /\ writer'[w].pc # "drain"
    BY <2>1 DEF Down
  <2>. QED
    BY <2>2, TurnsNothing
<1>5. CASE Elsewhere(w)
  BY <1>1, <1>2, <1>5, TurnsFrame DEF Elsewhere
<1>6. CASE WriteLine(w) \/ Rotate(w) \/ RecordRefused(w)
  <2>1. conns' = conns
    BY Zenon, <1>6 DEF WriteLine, Rotate, RecordRefused
  <2>2. /\ writer'[w].sources = writer[w].sources
        /\ writer'[w].ready = writer[w].ready /\ writer'[w].closed = writer[w].closed
        /\ writer'[w].pc = writer[w].pc /\ writer'[w].conn = writer[w].conn
    BY Zenon, <1>1, <1>6, WriteLineEffect, RotateEffect, RecordRefusedEffect
  <2>3. Queue(w)' = Queue(w)
    BY <2>1, <2>2 DEF Queue, Up
  <2>. QED
    BY <1>1, <1>2, <2>1, <2>2, <2>3, TurnsFrame
<1>. QED
  BY <1>2, <1>3, <1>4, <1>5, <1>6, WriterCases, TurnsPoll, TurnsDrain, TurnsAccept

-------------------------------------------------------------------------------
(* Places                                                                    *)

\* The lines of one unit among those to be written.
LEMMA PendingFacts ==
    ASSUME NEW lines \in Seq(Output), NEW u \in Units
    PROVE  LET L == PendingOf(u, lines)
           IN  /\ L \in Seq(Line) /\ DOMAIN L = DOMAIN lines /\ DOMAIN lines = 1..Len(lines)
               /\ Len(lines) \in Nat
               /\ \A i \in DOMAIN L : L[i] = IF lines[i].unit = u THEN lines[i].line ELSE <<>>
               /\ \A i \in DOMAIN L : L[i] \in Line
               /\ \A x : x \in Pieces(L) <=> \E i \in DOMAIN L : \E k \in DOMAIN L[i] : x = L[i][k]
               /\ Pieces(L) \subseteq Piece
               /\ lines = <<>> => L = <<>> /\ Pieces(L) = {}
<1>. DEFINE L == PendingOf(u, lines)
<1>1. DOMAIN lines = 1..Len(lines) /\ Len(lines) \in Nat /\ \A i \in DOMAIN lines : lines[i] \in Output
  OBVIOUS
<1>2. L = [i \in 1..Len(lines) |-> IF lines[i].unit = u THEN lines[i].line ELSE <<>>]
  BY <1>1 DEF PendingOf
<1>3. \A i \in DOMAIN lines : lines[i].line \in Line
  BY <1>1 DEF Output
<1>4. <<>> \in Line
  BY DEF Line
<1>. HIDE DEF L
<1>5. \A i \in 1..Len(lines) : (IF lines[i].unit = u THEN lines[i].line ELSE <<>>) \in Line
  BY <1>1, <1>3, <1>4
<1>6. /\ L \in Seq(Line) /\ DOMAIN L = DOMAIN lines
      /\ \A i \in DOMAIN L : L[i] = IF lines[i].unit = u THEN lines[i].line ELSE <<>>
  BY <1>1, <1>2, <1>5
<1>7. L \in Seq(Seq(Piece))
  BY <1>6 DEF Line
<1>8. /\ \A x : x \in Pieces(L) <=> \E i \in DOMAIN L : \E k \in DOMAIN L[i] : x = L[i][k]
      /\ Pieces(L) \subseteq Piece
      /\ Pieces(<<>>) = {}
  <2>1. <<>> \in Seq(Piece)
    OBVIOUS
  <2>2. Pieces(<<>>) = {} /\ Pieces(L) \subseteq Piece
    BY <1>7, <2>1, PiecesFacts
  <2>3. \A x : x \in Pieces(L) <=> \E i \in DOMAIN L : \E k \in DOMAIN L[i] : x = L[i][k]
    BY DEF Pieces, Range
  <2>. QED
    BY <2>2, <2>3
<1>9. lines = <<>> => L = <<>>
  <2>1. lines = <<>> => Len(lines) = 0
    OBVIOUS
  <2>. QED
    BY <1>1, <1>6, <2>1
<1>. QED
  BY <1>1, <1>5, <1>6, <1>8, <1>9 DEF L

\* Lines that are others' from some place on hold no more, and as much in order.
LEMMA OrderedShift ==
    ASSUME NEW calm \in BOOLEAN, NEW still \in BOOLEAN, still => calm,
           NEW a \in Seq(Line), NEW b \in Seq(Line), NEW d \in Nat,
           \A i \in DOMAIN b : i + d \in DOMAIN a /\ b[i] = a[i + d],
           Ordered(calm, a)
    PROVE  Ordered(still, b) /\ Pieces(b) \subseteq Pieces(a)
<1>1. DOMAIN a \subseteq Nat /\ DOMAIN b \subseteq Nat
  OBVIOUS
<1>2. \A i \in DOMAIN a : a[i] \in Seq(Piece)
  BY DEF Line
<1>3. Pieces(b) \subseteq Pieces(a)
  BY DEF Pieces
<1>4. \A i \in DOMAIN b : DOMAIN b[i] \subseteq Nat
  BY <1>2
<1>5. ASSUME NEW i \in DOMAIN b, NEW j \in DOMAIN b, NEW k \in DOMAIN b[i], NEW l \in DOMAIN b[j],
             Precedes(i, k, j, l)
      PROVE  Follows(still, b[i][k], b[j][l])
  <2>1. Precedes(i + d, k, j + d, l)
    BY <1>1, <1>5 DEF Precedes
  <2>2. Follows(calm, a[i + d][k], a[j + d][l])
    BY <2>1 DEF Ordered
  <2>. QED
    BY <2>2 DEF Follows
<1>. QED
  BY <1>3, <1>5 DEF Ordered

\* Once more than a read was left behind, it was.
LEMMA CalmFacts ==
    ASSUME NEW u, overlapped \subseteq overlapped'
    PROVE  Calm(u) \in BOOLEAN /\ Calm(u)' \in BOOLEAN /\ (Calm(u)' => Calm(u))
  BY DEF Calm

\* Less follows what followed.
LEMMA FollowLess ==
    ASSUME NEW calm \in BOOLEAN, NEW still \in BOOLEAN, still => calm,
           NEW A, NEW B, NEW C, NEW D, C \subseteq A, D \subseteq B,
           Follow(calm, A, B)
    PROVE  Follow(still, C, D)
  BY DEF Follow, Follows

\* What the state holds is made of pieces.
LEMMA HoldsPieces ==
    ASSUME Types, NEW u \in Units
    PROVE  /\ recorded[u] \in Seq(Line) /\ Pieces(recorded[u]) \subseteq Piece
           /\ sent[u] \in Nat /\ Len(pipes[u]) \in Nat /\ DOMAIN pipes[u] = 1..Len(pipes[u])
           /\ \A g \in DOMAIN pipes[u] :
                 pipes[u][g].data \in Line /\ Range(pipes[u][g].data) \subseteq Piece
           /\ \A w \in Writers : /\ writer[w].lines \in Seq(Output)
                                 /\ Pending(u, w) \in Seq(Line)
                                 /\ Pieces(Pending(u, w)) \subseteq Piece
                                 /\ Out(u, w) \subseteq Piece
<1>1. recorded[u] \in Seq(Seq(Piece)) /\ pipes[u] \in Seq(PipeEnd) /\ sent[u] \in Nat
  BY DEF Types
<1>2. recorded[u] \in Seq(Line)
  BY <1>1 DEF Line
<1>3. Pieces(recorded[u]) \subseteq Piece
  <2>1. <<>> \in Seq(Piece)
    OBVIOUS
  <2>. QED
    BY <1>1, <2>1, PiecesFacts
<1>4. Len(pipes[u]) \in Nat /\ DOMAIN pipes[u] = 1..Len(pipes[u])
      /\ \A g \in DOMAIN pipes[u] : pipes[u][g] \in PipeEnd
  BY <1>1
<1>5. \A g \in DOMAIN pipes[u] : pipes[u][g].data \in Seq(Piece)
  BY <1>4 DEF PipeEnd, Line
<1>6. \A g \in DOMAIN pipes[u] : Range(pipes[u][g].data) \subseteq Piece
  BY <1>5, RangeFacts
<1>7. ASSUME NEW w \in Writers
      PROVE  /\ writer[w].lines \in Seq(Output)
             /\ Pending(u, w) \in Seq(Line) /\ Pieces(Pending(u, w)) \subseteq Piece
  <2>1. writer[w].lines \in Seq(Output)
    BY DEF Types, Process
  <2>. QED
    BY <2>1, PendingFacts DEF Pending
<1>. QED
  BY <1>1, <1>2, <1>3, <1>4, <1>5, <1>6, <1>7 DEF Out, Line

\* What is read later was written later.
LEMMA BelowGrown ==
    ASSUME Types, Types', Grown, NEW u \in Units, NEW A, A \subseteq Piece, Known(u, A),
           \A g \in DOMAIN pipes[u] : Below(A, Range(pipes[u][g].data))
    PROVE  /\ \A p \in A : p.n <= sent'[u] /\ p.gen <= Len(pipes'[u])
           /\ \A g \in DOMAIN pipes'[u] : Below(A, Range(pipes'[u][g].data))
<1>1. /\ sent[u] \in Nat /\ Len(pipes[u]) \in Nat
      /\ sent'[u] \in Nat
      /\ \A g \in DOMAIN pipes'[u] : pipes'[u][g].data \in Line
      /\ Len(pipes'[u]) \in Nat
  <2>1. sent'[u] \in Nat /\ pipes'[u] \in Seq(PipeEnd)
    BY DEF Types
  <2>2. \A g \in DOMAIN pipes'[u] : pipes'[u][g] \in PipeEnd
    BY <2>1
  <2>. QED
    BY <2>1, <2>2, HoldsPieces DEF PipeEnd
<1>2. \A p \in A : p.n \in Nat /\ p.gen \in Nat /\ p.n <= sent[u] /\ p.gen <= Len(pipes[u])
  BY DEF Piece, Known
<1>3. sent[u] <= sent'[u] /\ Len(pipes[u]) <= Len(pipes'[u])
  BY DEF Grown
<1>4. \A p \in A : p.n <= sent'[u] /\ p.gen <= Len(pipes'[u])
  BY <1>1, <1>2, <1>3
<1>5. ASSUME NEW g \in DOMAIN pipes'[u], NEW p \in A, NEW q \in Range(pipes'[u][g].data),
             p.gen = q.gen
      PROVE  p.n < q.n
  <2>1. q \in Piece
    BY <1>1, RangeFacts DEF Line
  <2>2. q.n \in Nat
    BY <2>1 DEF Piece
  <2>3. CASE g \in DOMAIN pipes[u]
    <3>1. q \in Range(pipes[u][g].data) \/ sent[u] < q.n
      BY <2>3 DEF Grown
    <3>2. CASE q \in Range(pipes[u][g].data)
      BY <1>5, <2>3, <3>2 DEF Below
    <3>3. CASE sent[u] < q.n
      BY <1>1, <1>2, <2>2, <3>3
    <3>. QED
      BY <3>1, <3>2, <3>3
  <2>4. CASE g \notin DOMAIN pipes[u]
    <3>1. pipes'[u][g].data = <<>>
      BY <2>4 DEF Grown
    <3>2. Range(<<>>) = {}
      BY <1>1, RangeFacts DEF Line
    <3>. QED
      BY <3>1, <3>2
  <2>. QED
    BY <2>3, <2>4
<1>. QED
  BY <1>4, <1>5 DEF Below

\* Steps that write no file.
LEMMA FiledFrame ==
    ASSUME Types, Types', Grown, NEW u \in Units, Filed(u), recorded'[u] = recorded[u]
    PROVE  Filed(u)'
<1>. DEFINE r == recorded[u]
<1>1. r \in Seq(Line) /\ Pieces(r) \subseteq Piece
  BY HoldsPieces
<1>2. Ordered(Calm(u), r) /\ Known(u, Pieces(r))
      /\ \A g \in DOMAIN pipes[u] : Below(Pieces(r), Range(pipes[u][g].data))
  BY DEF Filed
<1>3. Calm(u) \in BOOLEAN /\ Calm(u)' \in BOOLEAN /\ (Calm(u)' => Calm(u))
  BY CalmFacts DEF Grown
<1>. HIDE DEF r
<1>4. Ordered(Calm(u)', r)
  <2>1. \A p, q : Follows(Calm(u), p, q) => Follows(Calm(u)', p, q)
    BY <1>3 DEF Follows
  <2>. QED
    BY <1>2, <2>1 DEF Ordered
<1>5. /\ \A p \in Pieces(r) : p.n <= sent'[u] /\ p.gen <= Len(pipes'[u])
      /\ \A g \in DOMAIN pipes'[u] : Below(Pieces(r), Range(pipes'[u][g].data))
  BY <1>1, <1>2, BelowGrown
<1>6. recorded'[u] = r
  BY DEF r
<1>. QED
  BY <1>4, <1>5, <1>6 DEF Filed, Known

\* Steps that leave a source, or move it to another place.
LEMMA BegunFrame ==
    ASSUME Types, Types', Grown, NEW u \in Units, NEW w \in Writers, Reads(w),
           NEW n \in DOMAIN writer[w].sources, writer[w].sources[n].unit = u,
           Begun(u, w, n), NEW i,
           writer'[w].sources[i] = writer[w].sources[n],
           i \in writer'[w].closed \/ n \notin writer[w].closed,
           writer[w].pc = "leave" => writer'[w].pc = "leave",
           Out(u, w)' \subseteq Out(u, w)
    PROVE  Begun(u, w, i)'
<1>. DEFINE s == writer[w].sources[n]
            B == Range(s.partial)
            O == Out(u, w)
            D == Range(Pipe(s).data)
            E == Range(pipes'[s.unit][s.gen].data)
<1>1. /\ s \in Source /\ s.gen \in Nat /\ s.partial \in Line /\ s.unit = u
      /\ s.gen \in DOMAIN pipes[u] /\ Pipe(s) = pipes[u][s.gen]
  BY SourceFacts
<1>2. /\ Rising(s.partial) /\ \A p \in B : p.gen = s.gen /\ p.n <= sent[u]
      /\ Below(O, B) /\ Above(B, D)
      /\ Calm(u) /\ n \notin writer[w].closed /\ writer[w].pc # "leave" =>
            \A p \in O : p.gen <= s.gen
  BY DEF Begun
<1>3. Calm(u)' => Calm(u)
  BY CalmFacts DEF Grown
<1>4. /\ B \subseteq Piece /\ sent[u] \in Nat /\ sent'[u] \in Nat /\ sent[u] <= sent'[u]
      /\ \A q \in E : q \in Piece /\ (q \in D \/ sent[u] < q.n)
  <2>1. B \subseteq Piece
    <3>1. s.partial \in Seq(Piece)
      BY <1>1 DEF Line
    <3>. QED
      BY <3>1, RangeFacts
  <2>2. sent[u] \in Nat /\ sent'[u] \in Nat
    BY DEF Types
  <2>3. sent[u] <= sent'[u] /\ s.gen \in DOMAIN pipes'[u]
        /\ \A q \in E : q \in D \/ sent[u] < q.n
    BY <1>1 DEF Grown
  <2>4. E \subseteq Piece
    <3>1. pipes'[u] \in Seq(PipeEnd)
      BY DEF Types
    <3>2. pipes'[u][s.gen] \in PipeEnd
      BY <2>3, <3>1
    <3>3. pipes'[s.unit][s.gen].data \in Seq(Piece)
      BY <1>1, <3>2 DEF PipeEnd, Line
    <3>. QED
      BY <3>3, RangeFacts
  <2>. QED
    BY <2>1, <2>2, <2>3, <2>4
<1>5. writer'[w].sources[i] = s
  OBVIOUS
<1>. HIDE DEF s, B, O, D, E
<1>6. \A p \in B : p.gen = s.gen /\ p.n <= sent'[u]
  BY <1>2, <1>4 DEF Piece
<1>7. Above(B, E)
  BY <1>2, <1>4 DEF Piece, Above
<1>8. Below(Out(u, w)', B)
  BY <1>2 DEF Below, O
<1>9. Calm(u)' /\ i \notin writer'[w].closed /\ writer'[w].pc # "leave" =>
            \A p \in Out(u, w)' : p.gen <= s.gen
  BY <1>2, <1>3 DEF O
<1>. QED
  BY <1>2, <1>5, <1>6, <1>7, <1>8, <1>9 DEF Begun, Pipe, B, E

\* An offer still to be read is one that was, or is about the latest start or the next.
LEMMA DueFrame ==
    ASSUME Types, Grown, NEW u \in Units, NEW w \in Writers, Due(u, w), Known(u, Out(u, w)),
           Queue(w)' \in Seq(Message),
           Out(u, w)' \subseteq Out(u, w),
           \A i \in DOMAIN Queue(w)' :
              \/ \E j \in DOMAIN Queue(w) : Queue(w)'[i] = Queue(w)[j]
              \/ Len(pipes[Queue(w)'[i].unit]) <= Queue(w)'[i].gen
    PROVE  Due(u, w)'
<1>. DEFINE O == Out(u, w)
            q == Queue(w)
            qq == Queue(w)'
<1>1. O \subseteq Piece /\ Len(pipes[u]) \in Nat
  BY HoldsPieces
<1>2. Calm(u)' => Calm(u)
  BY CalmFacts DEF Grown
<1>3. \A p \in O : p.gen \in Nat /\ p.gen <= Len(pipes[u])
  BY <1>1 DEF Known, Piece
<1>4. Calm(u) => \A i \in DOMAIN q : q[i].unit = u => \A p \in O : p.gen <= q[i].gen
  BY DEF Due
<1>. HIDE DEF q, qq, O
<1>5. \A i \in DOMAIN qq : qq[i].gen \in Nat
  <2>1. qq \in Seq(Message)
    BY DEF qq
  <2>2. \A i \in DOMAIN qq : qq[i] \in Message
    BY <2>1
  <2>. QED
    BY <2>2 DEF Message, Boots
<1>6. ASSUME Calm(u)', NEW i \in DOMAIN qq, qq[i].unit = u, NEW p \in O
      PROVE  p.gen <= qq[i].gen
  <2>1. CASE \E j \in DOMAIN q : qq[i] = q[j]
    BY <1>2, <1>4, <1>6, <2>1
  <2>2. CASE Len(pipes[qq[i].unit]) <= qq[i].gen
    BY <1>1, <1>3, <1>5, <1>6, <2>2
  <2>. QED
    BY <2>1, <2>2 DEF q, qq
<1>. QED
  BY <1>6 DEF Due, O, qq

\* A log writer with nothing.
LEMMA PlacesNothing ==
    ASSUME Types', NEW u \in Units, NEW w \in Writers,
           writer'[w].sources = <<>>, writer'[w].lines = <<>>, Queue(w)' = <<>>
    PROVE  Places(u, w)'
<1>1. PendingOf(u, <<>>) = <<>> /\ Pieces(<<>>) = {}
  <2>1. <<>> \in Seq(Output)
    OBVIOUS
  <2>2. PendingOf(u, <<>>) = <<>> /\ Pieces(PendingOf(u, <<>>)) = {}
    BY <2>1, PendingFacts
  <2>. QED
    BY <2>2
<1>2. Pending(u, w)' = <<>>
  BY <1>1 DEF Pending
<1>3. Taken(u, w)'
  BY <1>1, <1>2 DEF Taken, Ordered, Follow, Known, Below
<1>4. DOMAIN writer'[w].sources = {} /\ DOMAIN Queue(w)' = {}
  OBVIOUS
<1>. QED
  BY <1>3, <1>4 DEF Places, Due

\* Steps that only take from the lines to be written.
LEMMA PlacesFrame ==
    ASSUME Types, Types', Grown, NEW u \in Units, NEW w \in Writers, Reads(w),
           Filed(u), Places(u, w), recorded'[u] = recorded[u],
           Queue(w)' \in Seq(Message),
           writer'[w].sources = writer[w].sources, writer'[w].closed = writer[w].closed,
           writer[w].pc = "leave" => writer'[w].pc = "leave",
           NEW d \in Nat,
           \A i \in DOMAIN writer'[w].lines :
              i + d \in DOMAIN writer[w].lines /\ writer'[w].lines[i] = writer[w].lines[i + d],
           \A i \in DOMAIN Queue(w)' :
              \/ \E j \in DOMAIN Queue(w) : Queue(w)'[i] = Queue(w)[j]
              \/ Len(pipes[Queue(w)'[i].unit]) <= Queue(w)'[i].gen
    PROVE  Places(u, w)'
<1>. DEFINE a == Pending(u, w)
            b == Pending(u, w)'
            r == recorded[u]
<1>0. writer[w].lines \in Seq(Output) /\ writer'[w].lines \in Seq(Output)
  BY DEF Types, Process
<1>1. /\ a \in Seq(Line) /\ DOMAIN a = DOMAIN writer[w].lines
      /\ \A i \in DOMAIN a :
            a[i] = IF writer[w].lines[i].unit = u THEN writer[w].lines[i].line ELSE <<>>
      /\ Pieces(a) \subseteq Piece
  BY <1>0, PendingFacts DEF Pending
<1>2. /\ b \in Seq(Line) /\ DOMAIN b = DOMAIN writer'[w].lines
      /\ \A i \in DOMAIN b :
            b[i] = IF writer'[w].lines[i].unit = u THEN writer'[w].lines[i].line ELSE <<>>
  BY <1>0, PendingFacts DEF Pending
<1>3. Calm(u) \in BOOLEAN /\ Calm(u)' \in BOOLEAN /\ (Calm(u)' => Calm(u))
  BY CalmFacts DEF Grown
<1>4. r \in Seq(Line) /\ Pieces(r) \subseteq Piece /\ Out(u, w) = Pieces(r) \cup Pieces(a)
  BY HoldsPieces DEF Out
<1>5. /\ Ordered(Calm(u), a) /\ Follow(Calm(u), Pieces(r), Pieces(a)) /\ Known(u, Pieces(a))
      /\ \A g \in DOMAIN pipes[u] : Below(Pieces(a), Range(pipes[u][g].data))
      /\ \A n \in DOMAIN writer[w].sources : writer[w].sources[n].unit = u => Begun(u, w, n)
      /\ Due(u, w)
  BY DEF Places, Taken
<1>6. Known(u, Pieces(r))
  BY DEF Filed
<1>7. Out(u, w)' = Pieces(r) \cup Pieces(b)
  BY DEF Out
<1>. HIDE DEF a, b, r
<1>8. \A i \in DOMAIN b : i + d \in DOMAIN a /\ b[i] = a[i + d]
  BY <1>1, <1>2
<1>9. Ordered(Calm(u)', b) /\ Pieces(b) \subseteq Pieces(a)
  <2>. DEFINE c == Calm(u)
              cc == Calm(u)'
  <2>1. c \in BOOLEAN /\ cc \in BOOLEAN /\ (cc => c) /\ Ordered(c, a) /\ d \in Nat
    BY <1>3, <1>5
  <2>2. a \in Seq(Line) /\ b \in Seq(Line)
    BY <1>1, <1>2
  <2>. HIDE DEF c, cc
  <2>3. Ordered(cc, b) /\ Pieces(b) \subseteq Pieces(a)
    BY <2>1, <2>2, <1>8, OrderedShift
  <2>. QED
    BY <2>3 DEF cc
<1>10. Follow(Calm(u)', Pieces(r), Pieces(b))
  BY <1>3, <1>5, <1>9, FollowLess
<1>11. /\ \A p \in Pieces(a) : p.n <= sent'[u] /\ p.gen <= Len(pipes'[u])
       /\ \A g \in DOMAIN pipes'[u] : Below(Pieces(a), Range(pipes'[u][g].data))
  BY <1>1, <1>5, BelowGrown
<1>12. Taken(u, w)'
  <2>1. recorded'[u] = r
    BY DEF r
  <2>2. /\ \A p \in Pieces(b) : p.n <= sent'[u] /\ p.gen <= Len(pipes'[u])
        /\ \A g \in DOMAIN pipes'[u] : Below(Pieces(b), Range(pipes'[u][g].data))
    BY <1>9, <1>11 DEF Below
  <2>. QED
    BY <1>9, <1>10, <2>1, <2>2 DEF Taken, Known, b
<1>13. Out(u, w)' \subseteq Out(u, w)
  BY <1>4, <1>7, <1>9
<1>14. \A n \in DOMAIN writer[w].sources : writer[w].sources[n].unit = u => Begun(u, w, n)'
  <2>. SUFFICES ASSUME NEW n \in DOMAIN writer[w].sources, writer[w].sources[n].unit = u
                PROVE  Begun(u, w, n)'
    OBVIOUS
  <2>1. Begun(u, w, n)
    BY <1>5
  <2>2. writer'[w].sources[n] = writer[w].sources[n]
        /\ (n \in writer'[w].closed \/ n \notin writer[w].closed)
    OBVIOUS
  <2>. QED
    BY <1>13, <2>1, <2>2, BegunFrame
<1>15. Known(u, Out(u, w))
  BY <1>4, <1>5, <1>6 DEF Known
<1>16. Due(u, w)'
  BY <1>5, <1>13, <1>15, DueFrame
<1>. QED
  BY <1>12, <1>14, <1>16 DEF Places

\* What is in a queue are messages.
LEMMA QueueTyped ==
    ASSUME Types', Linked', NEW w \in Writers
    PROVE  Queue(w)' \in Seq(Message)
<1>1. CASE ~Up(w)'
  BY <1>1 DEF Queue
<1>2. CASE Up(w)'
  <2>1. writer'[w].conn \in Conns
    BY <1>2 DEF Linked
  <2>2. conns'[writer'[w].conn] \in Connection
    BY <2>1 DEF Types
  <2>3. Queue(w)' = conns'[writer'[w].conn].queue
    BY <1>2 DEF Queue
  <2>. QED
    BY <2>2, <2>3 DEF Connection
<1>. QED
  BY <1>1, <1>2

\* The only step that records anything writes the first line of some log writer.
LEMMA RecordedCases ==
    ASSUME Types, [Next]_vars, NEW u \in Units
    PROVE  \/ recorded'[u] = recorded[u]
           \/ \E w \in Writers :
                 /\ WriteLine(w)
                 /\ writer[w].lines # <<>> /\ writer[w].lines[1].unit = u
                 /\ writer'[w].lines = Tail(writer[w].lines)
                 /\ recorded'[u] = Append(recorded[u], writer[w].lines[1].line)
<1>1. recorded' = recorded \/ \E w \in Writers : WriteLine(w)
  BY Zenon DEF Next, WriterStep, vars, Start, Write, Exit, OnShipper, OnShipperGone, Connect,
         Poll, Drain, Accept, Rotate, Leave, RecordRefused, Crash
<1>2. ASSUME NEW w \in Writers, WriteLine(w), recorded'[u] # recorded[u]
      PROVE  /\ WriteLine(w)
             /\ writer[w].lines # <<>> /\ writer[w].lines[1].unit = u
             /\ writer'[w].lines = Tail(writer[w].lines)
             /\ recorded'[u] = Append(recorded[u], writer[w].lines[1].line)
  BY <1>2, WriteLineEffect
<1>. QED
  BY <1>1, <1>2

\* Steps of others.
LEMMA PlacesElsewhere ==
    ASSUME IInv, [Next]_vars, Types', Linked', NEW u \in Units, NEW w \in Writers, Elsewhere(w)
    PROVE  Places(u, w)'
<1>1. Types /\ Linked /\ Offers /\ Reads(w) /\ Filed(u) /\ Places(u, w)
  BY DEF IInv
<1>2. Grown
  BY PipesStep
<1>3. writer'[w] = writer[w]
  BY DEF Elsewhere
<1>4. CASE recorded'[u] = recorded[u]
  <2>. DEFINE q == Queue(w)
              qq == Queue(w)'
  <2>1. qq \in Seq(Message) /\ q \in Seq(Message)
    BY <1>1, QueueTyped, QueueFacts
  <2>2. \/ qq = q
        \/ \E m \in Message : m.gen = Len(pipes[m.unit]) + 1 /\ qq = Append(q, m)
        \/ Fresh(qq)
    BY DEF Elsewhere
  <2>3. \A v \in Units : Len(pipes[v]) \in Nat /\ held[v] = Len(pipes[v])
    BY <1>1, HoldsPieces DEF Offers
  <2>. HIDE DEF q, qq
  <2>4. \A i \in DOMAIN qq : qq[i].unit \in Units
    <3>1. \A i \in DOMAIN qq : qq[i] \in Message
      BY <2>1
    <3>. QED
      BY <3>1 DEF Message
  <2>5. ASSUME NEW i \in DOMAIN qq
        PROVE  \/ \E j \in DOMAIN q : qq[i] = q[j]
               \/ Len(pipes[qq[i].unit]) <= qq[i].gen
    <3>1. CASE qq = q
      BY <3>1
    <3>2. CASE \E m \in Message : m.gen = Len(pipes[m.unit]) + 1 /\ qq = Append(q, m)
      <4>1. PICK m \in Message : m.gen = Len(pipes[m.unit]) + 1 /\ qq = Append(q, m)
        BY <3>2
      <4>2. (i \in DOMAIN q /\ qq[i] = q[i]) \/ qq[i] = m
        BY <2>1, <4>1
      <4>. QED
        BY <2>3, <2>4, <4>1, <4>2
    <3>3. CASE Fresh(qq)
      <4>1. qq[i].gen = Len(pipes[qq[i].unit])
        BY <2>3, <2>4, <3>3 DEF Fresh
      <4>. QED
        BY <2>3, <2>4, <4>1
    <3>. QED
      BY <2>2, <3>1, <3>2, <3>3
  <2>6. \A i \in DOMAIN writer'[w].lines :
           i + 0 \in DOMAIN writer[w].lines /\ writer'[w].lines[i] = writer[w].lines[i + 0]
    <3>1. \A i \in DOMAIN writer[w].lines : i \in Nat
      <4>1. writer[w].lines \in Seq(Output)
        BY <1>1 DEF Types, Process
      <4>. QED
        BY <4>1
    <3>. QED
      BY <1>3, <3>1
  <2>. QED
    BY <1>1, <1>2, <1>3, <1>4, <2>1, <2>5, <2>6, PlacesFrame DEF q, qq
<1>5. CASE recorded'[u] # recorded[u]
  <2>1. PICK v \in Writers : /\ WriteLine(v) /\ writer[v].lines # <<>>
                             /\ writer'[v].lines = Tail(writer[v].lines)
    BY <1>1, <1>5, RecordedCases
  <2>2. v # w
    <3>1. writer[v].lines \in Seq(Output)
      BY <1>1 DEF Types, Process
    <3>2. Len(Tail(writer[v].lines)) # Len(writer[v].lines)
      BY <2>1, <3>1
    <3>. QED
      BY <1>3, <2>1, <3>2
  <2>3. Idle(w)
    <3>1. ~Idle(v)
      BY <2>1 DEF Idle
    <3>. QED
      BY <1>1, <2>2, <3>1, OneBusy
  <2>4. conns' = conns
    BY <2>1 DEF WriteLine
  <2>5. Queue(w)' = <<>>
    BY <1>3, <2>3, <2>4 DEF Idle, Queue, Up
  <2>. QED
    BY <1>3, <2>3, <2>5, PlacesNothing DEF Idle
<1>. QED
  BY <1>4, <1>5

\* Steps of the log writer that read nothing and record nothing.
LEMMA PlacesQuiet ==
    ASSUME IInv, [Next]_vars, Types', Linked', NEW u \in Units, NEW w \in Writers,
           \/ Poll(w) \/ Rotate(w) \/ RecordRefused(w)
           \/ WriteLine(w) /\ recorded'[u] = recorded[u]
    PROVE  Places(u, w)'
<1>1. Types /\ Linked /\ Offers /\ Reads(w) /\ Filed(u) /\ Places(u, w)
  BY DEF IInv
<1>2. Grown
  BY PipesStep
<1>3. conns' = conns
  BY Zenon DEF Poll, Rotate, RecordRefused, WriteLine
<1>4. recorded'[u] = recorded[u]
  BY DEF Poll, Rotate, RecordRefused
<1>5. writer[w].lines \in Seq(Output)
  BY <1>1 DEF Types, Process
<1>6. /\ writer'[w].sources = writer[w].sources /\ writer'[w].closed = writer[w].closed
      /\ writer[w].pc = "leave" => writer'[w].pc = "leave"
      /\ Up(w)' = Up(w) /\ writer'[w].conn = writer[w].conn
      /\ \/ writer'[w].lines = writer[w].lines
         \/ writer[w].lines # <<>> /\ writer'[w].lines = Tail(writer[w].lines)
  <2>1. CASE Poll(w)
    BY <1>1, <2>1, PollEffect DEF Up
  <2>2. CASE Rotate(w)
    BY <1>1, <2>2, RotateEffect DEF Up
  <2>3. CASE RecordRefused(w)
    BY <1>1, <2>3, RecordRefusedEffect DEF Up
  <2>4. CASE WriteLine(w)
    BY <1>1, <2>4, WriteLineEffect DEF Up
  <2>. QED
    BY <2>1, <2>2, <2>3, <2>4
<1>7. Queue(w)' = Queue(w) /\ Queue(w)' \in Seq(Message)
  BY <1>3, <1>6, QueueTyped DEF Queue
<1>8. \E d \in Nat : \A i \in DOMAIN writer'[w].lines :
         i + d \in DOMAIN writer[w].lines /\ writer'[w].lines[i] = writer[w].lines[i + d]
  <2>. DEFINE a == writer[w].lines
              b == writer'[w].lines
  <2>. HIDE DEF a, b
  <2>1. CASE b = a
    <3>1. \A i \in DOMAIN b : i + 0 \in DOMAIN a /\ b[i] = a[i + 0]
      BY <1>5, <2>1 DEF a
    <3>. QED
      BY <3>1 DEF a, b
  <2>2. CASE a # <<>> /\ b = Tail(a)
    <3>1. \A i \in DOMAIN b : i + 1 \in DOMAIN a /\ b[i] = a[i + 1]
      BY <1>5, <2>2, HeadAndTail DEF a
    <3>. QED
      BY <3>1 DEF a, b
  <2>. QED
    BY <1>6, <2>1, <2>2 DEF a, b
<1>. QED
  BY <1>1, <1>2, <1>4, <1>6, <1>7, <1>8, PlacesFrame

\* A log writer comes or goes with nothing read.
LEMMA PlacesGone ==
    ASSUME IInv, [Next]_vars, Types', NEW u \in Units, NEW w \in Writers,
           Connect(w) \/ Leave(w) \/ Crash(w)
    PROVE  Places(u, w)'
<1>1. Types /\ Linked
  BY DEF IInv
<1>2. CASE Leave(w) \/ Crash(w)
  <2>1. Up(w) /\ Ended(w)
    BY <1>2 DEF Leave, Crash, Up
  <2>2. writer'[w] = Down
    BY <1>1, <2>1, EndedEffect
  <2>3. writer'[w].sources = <<>> /\ writer'[w].lines = <<>> /\ Queue(w)' = <<>>
    BY <2>2, DownIsIdle DEF Queue, Up
  <2>. QED
    BY <2>3, PlacesNothing
<1>3. CASE Connect(w)
  <2>1. PICK c \in Conns : /\ writer'[w] = [Down EXCEPT !.pc = "poll", !.conn = c]
                           /\ conns'[c].queue = <<>>
    BY <1>1, <1>3, ConnectEffect
  <2>2. writer'[w].sources = <<>> /\ writer'[w].lines = <<>> /\ writer'[w].conn = c
    BY <2>1 DEF Down
  <2>3. Queue(w)' = <<>>
    BY <2>1, <2>2 DEF Queue
  <2>. QED
    BY <2>2, <2>3, PlacesNothing
<1>. QED
  BY <1>2, <1>3

\* A line that follows others.
LEMMA OrderedAppend ==
    ASSUME NEW calm \in BOOLEAN, NEW a \in Seq(Line), NEW line \in Line, Ordered(calm, a),
           Follow(calm, Pieces(a), Range(line)),
           \A k, l \in DOMAIN line : k < l => Follows(calm, line[k], line[l])
    PROVE  Ordered(calm, Append(a, line))
<1>. DEFINE b == Append(a, line)
<1>1. Len(a) \in Nat /\ DOMAIN a = 1..Len(a) /\ \A i \in DOMAIN a : a[i] \in Seq(Piece)
  BY DEF Line
<1>2. /\ DOMAIN b = 1..(Len(a) + 1) /\ \A i \in DOMAIN a : b[i] = a[i]
      /\ b[Len(a) + 1] = line
  OBVIOUS
<1>. HIDE DEF b
<1>3. /\ \A i \in DOMAIN a : \A k \in DOMAIN a[i] : a[i][k] \in Pieces(a)
      /\ \A k \in DOMAIN line : line[k] \in Range(line)
  BY DEF Pieces, Range
<1>4. DOMAIN line \subseteq Nat
  BY DEF Line
<1>5. ASSUME NEW i \in DOMAIN b, NEW j \in DOMAIN b, NEW k \in DOMAIN b[i], NEW l \in DOMAIN b[j],
             Precedes(i, k, j, l)
      PROVE  Follows(calm, b[i][k], b[j][l])
  <2>1. CASE i \in DOMAIN a /\ j \in DOMAIN a
    <3>1. b[i] = a[i] /\ b[j] = a[j]
      BY <1>2, <2>1
    <3>. QED
      BY <1>5, <2>1, <3>1 DEF Ordered
  <2>2. CASE i \in DOMAIN a /\ j = Len(a) + 1
    <3>1. b[i] = a[i] /\ b[j] = line
      BY <1>2, <2>2
    <3>2. b[i][k] \in Pieces(a) /\ b[j][l] \in Range(line)
      BY <1>3, <2>2, <3>1
    <3>. QED
      BY <3>2 DEF Follow
  <2>3. CASE i = Len(a) + 1
    <3>1. j = i /\ k < l
      BY <1>1, <1>2, <1>5, <2>3 DEF Precedes
    <3>2. b[i] = line /\ b[j] = line
      BY <1>2, <2>3, <3>1
    <3>. QED
      BY <3>1, <3>2
  <2>. QED
    BY <1>1, <1>2, <2>1, <2>2, <2>3
<1>. QED
  BY <1>5 DEF Ordered, b

\* The first line to be written follows all that was.
LEMMA WriteLinePlaces ==
    ASSUME IInv, [Next]_vars, Types', Linked', NEW u \in Units, NEW w \in Writers, WriteLine(w),
           writer[w].lines # <<>>, writer[w].lines[1].unit = u,
           writer'[w].lines = Tail(writer[w].lines),
           recorded'[u] = Append(recorded[u], writer[w].lines[1].line)
    PROVE  Filed(u)' /\ Places(u, w)'
<1>1. Types /\ Linked /\ Offers /\ Reads(w) /\ Filed(u) /\ Places(u, w)
  BY DEF IInv
<1>2. Grown
  BY PipesStep
<1>3. pipes' = pipes /\ sent' = sent /\ overlapped' = overlapped /\ conns' = conns
  BY DEF WriteLine
<1>. DEFINE a == Pending(u, w)
            b == Pending(u, w)'
            r == recorded[u]
            line == writer[w].lines[1].line
            calm == Calm(u)
            s == writer[w].lines
<1>4. /\ s \in Seq(Output) /\ Tail(s) \in Seq(Output)
      /\ 1 \in DOMAIN s /\ s[1] \in Output
      /\ \A i \in DOMAIN Tail(s) : i \in Nat /\ i >= 1 /\ i + 1 \in DOMAIN s /\ Tail(s)[i] = s[i + 1]
  <2>1. s \in Seq(Output) /\ s # <<>>
    BY <1>1 DEF Types, Process
  <2>. HIDE DEF s
  <2>. QED
    BY <2>1, HeadAndTail
<1>5. line \in Line /\ s[1].unit = u
  BY <1>4 DEF Output
<1>6. /\ a \in Seq(Line) /\ DOMAIN a = DOMAIN s
      /\ \A i \in DOMAIN a : a[i] = IF s[i].unit = u THEN s[i].line ELSE <<>>
      /\ Pieces(a) \subseteq Piece
  BY <1>4, PendingFacts DEF Pending
<1>7. /\ b \in Seq(Line) /\ DOMAIN b = DOMAIN Tail(s)
      /\ \A i \in DOMAIN b : b[i] = IF Tail(s)[i].unit = u THEN Tail(s)[i].line ELSE <<>>
  <2>1. b = PendingOf(u, Tail(s))
    BY DEF Pending
  <2>. DEFINE rest == Tail(s)
  <2>2. rest \in Seq(Output) /\ b = PendingOf(u, rest)
    BY <1>4, <2>1
  <2>. HIDE DEF rest, b
  <2>3. /\ b \in Seq(Line) /\ DOMAIN b = DOMAIN rest
        /\ \A i \in DOMAIN b : b[i] = IF rest[i].unit = u THEN rest[i].line ELSE <<>>
    BY <2>2, PendingFacts
  <2>. QED
    BY <2>3 DEF rest
<1>8. r \in Seq(Line) /\ Pieces(r) \subseteq Piece /\ Out(u, w) = Pieces(r) \cup Pieces(a)
  BY <1>1, HoldsPieces DEF Out
<1>9. /\ Ordered(calm, a) /\ Follow(calm, Pieces(r), Pieces(a)) /\ Known(u, Pieces(a))
      /\ \A g \in DOMAIN pipes[u] : Below(Pieces(a), Range(pipes[u][g].data))
      /\ \A n \in DOMAIN writer[w].sources : writer[w].sources[n].unit = u => Begun(u, w, n)
      /\ Due(u, w)
  BY <1>1 DEF Places, Taken
<1>10. /\ Ordered(calm, r) /\ Known(u, Pieces(r))
       /\ \A g \in DOMAIN pipes[u] : Below(Pieces(r), Range(pipes[u][g].data))
  BY <1>1 DEF Filed
<1>11. calm \in BOOLEAN /\ Calm(u)' = calm
  BY <1>3 DEF Calm
<1>12. Out(u, w)' = Pieces(Append(r, line)) \cup Pieces(b)
  BY DEF Out
<1>13. a[1] = line /\ 1 \in DOMAIN a
  BY <1>4, <1>5, <1>6
<1>. HIDE DEF a, b, r, line, calm, s
<1>14. Pieces(Append(r, line)) = Pieces(r) \cup Range(line)
  <2>1. r \in Seq(Seq(Piece)) /\ line \in Seq(Piece)
    BY <1>5, <1>8 DEF Line
  <2>. QED
    BY <2>1, PiecesFacts
<1>15. Range(line) \subseteq Pieces(a)
  BY <1>13 DEF Pieces
<1>16. \A i \in DOMAIN b : i \in Nat /\ i >= 1 /\ i + 1 \in DOMAIN a /\ b[i] = a[i + 1]
  BY <1>4, <1>6, <1>7
<1>17. Ordered(calm, b) /\ Pieces(b) \subseteq Pieces(a)
  <2>1. \A i \in DOMAIN b : i + 1 \in DOMAIN a /\ b[i] = a[i + 1]
    BY <1>16
  <2>. QED
    <3>. DEFINE d == 1
    <3>1. /\ calm \in BOOLEAN /\ a \in Seq(Line) /\ b \in Seq(Line) /\ Ordered(calm, a) /\ d \in Nat
          /\ \A i \in DOMAIN b : i + d \in DOMAIN a /\ b[i] = a[i + d]
      BY <1>6, <1>7, <1>9, <1>11, <2>1
    <3>. HIDE DEF d
    <3>. QED
      BY <3>1, OrderedShift
<1>18. Out(u, w)' \subseteq Out(u, w)
  BY <1>8, <1>12, <1>14, <1>15, <1>17
<1>19. Ordered(calm, Append(r, line))
  <2>1. Follow(calm, Pieces(r), Range(line))
    BY <1>9, <1>15 DEF Follow
  <2>2. \A k, l \in DOMAIN line : k < l => Follows(calm, line[k], line[l])
    BY <1>9, <1>13 DEF Ordered, Precedes
  <2>. QED
    BY <1>5, <1>8, <1>10, <1>11, <2>1, <2>2, OrderedAppend
<1>20. Follow(calm, Range(line), Pieces(b))
  <2>. SUFFICES ASSUME NEW p \in Range(line), NEW q \in Pieces(b) PROVE Follows(calm, p, q)
    BY DEF Follow
  <2>1. PICK k \in DOMAIN a[1] : p = a[1][k]
    BY <1>13 DEF Range
  <2>2. PICK j \in DOMAIN b : q \in Range(b[j])
    BY DEF Pieces
  <2>3. PICK l \in DOMAIN b[j] : q = b[j][l]
    BY <2>2 DEF Range
  <2>4. b[j] = a[j + 1] /\ j + 1 \in DOMAIN a /\ 1 < j + 1
    BY <1>16
  <2>. QED
    BY <1>9, <1>13, <2>1, <2>3, <2>4 DEF Ordered, Precedes
<1>21. Follow(calm, Pieces(Append(r, line)), Pieces(b))
  <2>1. Follow(calm, Pieces(r), Pieces(b))
    BY <1>9, <1>17 DEF Follow
  <2>. QED
    BY <1>14, <1>20, <2>1 DEF Follow
<1>22. Filed(u)'
  <2>1. recorded'[u] = Append(r, line)
    BY DEF r, line
  <2>2. \A p \in Pieces(Append(r, line)) : p.n <= sent'[u] /\ p.gen <= Len(pipes'[u])
    BY <1>3, <1>9, <1>10, <1>14, <1>15 DEF Known
  <2>3. \A g \in DOMAIN pipes'[u] : Below(Pieces(Append(r, line)), Range(pipes'[u][g].data))
    BY <1>3, <1>9, <1>10, <1>14, <1>15 DEF Below
  <2>. QED
    BY <1>11, <1>19, <2>1, <2>2, <2>3 DEF Filed, Known, calm
<1>23. Taken(u, w)'
  <2>1. recorded'[u] = Append(r, line)
    BY DEF r, line
  <2>2. \A p \in Pieces(b) : p.n <= sent'[u] /\ p.gen <= Len(pipes'[u])
    BY <1>3, <1>9, <1>17 DEF Known
  <2>3. \A g \in DOMAIN pipes'[u] : Below(Pieces(b), Range(pipes'[u][g].data))
    BY <1>3, <1>9, <1>17 DEF Below
  <2>. QED
    BY <1>11, <1>17, <1>21, <2>1, <2>2, <2>3 DEF Taken, Known, calm, b
<1>24. /\ writer'[w].sources = writer[w].sources /\ writer'[w].closed = writer[w].closed
       /\ writer'[w].pc = writer[w].pc
       /\ Up(w)' = Up(w) /\ writer'[w].conn = writer[w].conn
  BY Zenon, <1>1, WriteLineEffect DEF Up
<1>25. \A n \in DOMAIN writer[w].sources : writer[w].sources[n].unit = u => Begun(u, w, n)'
  <2>. SUFFICES ASSUME NEW n \in DOMAIN writer[w].sources, writer[w].sources[n].unit = u
                PROVE  Begun(u, w, n)'
    OBVIOUS
  <2>1. Begun(u, w, n)
    BY <1>9
  <2>2. writer'[w].sources[n] = writer[w].sources[n]
        /\ (n \in writer'[w].closed \/ n \notin writer[w].closed)
    BY <1>24
  <2>. QED
    BY <1>1, <1>2, <1>18, <1>24, <2>1, <2>2, BegunFrame
<1>26. Due(u, w)'
  <2>1. Queue(w)' = Queue(w) /\ Queue(w)' \in Seq(Message)
    BY <1>3, <1>24, QueueTyped DEF Queue
  <2>2. Known(u, Out(u, w))
    BY <1>8, <1>9, <1>10 DEF Known
  <2>. QED
    BY <1>1, <1>2, <1>9, <1>18, <2>1, <2>2, DueFrame
<1>. QED
  BY <1>22, <1>23, <1>24, <1>25, <1>26 DEF Places

\* Every step keeps the files in order.
LEMMA FiledStep ==
    ASSUME IInv, [Next]_vars, Types', Linked'
    PROVE  \A u \in Units : Filed(u)'
<1>. SUFFICES ASSUME NEW u \in Units PROVE Filed(u)'
  OBVIOUS
<1>1. Types /\ Filed(u)
  BY DEF IInv
<1>2. Grown
  BY PipesStep
<1>3. CASE recorded'[u] = recorded[u]
  BY <1>1, <1>2, <1>3, FiledFrame
<1>. QED
  BY <1>1, <1>3, RecordedCases, WriteLinePlaces

\* The lines of a read, for the unit it was for and for any other.
LEMMA LinesFacts ==
    ASSUME NEW v \in Units, NEW u \in Units, NEW read \in Seq(Line)
    PROVE  /\ Lines(v, read) \in Seq(Output)
           /\ v = u => PendingOf(u, Lines(v, read)) = read
           /\ v # u => /\ Pieces(PendingOf(u, Lines(v, read))) = {}
                       /\ \A calm : Ordered(calm, PendingOf(u, Lines(v, read)))
<1>. DEFINE a == Lines(v, read)
            p == PendingOf(u, a)
<1>1. Len(read) \in Nat /\ DOMAIN read = 1..Len(read) /\ \A i \in DOMAIN read : read[i] \in Line
  OBVIOUS
<1>2. a = [i \in 1..Len(read) |-> [unit |-> v, line |-> read[i]]]
  BY <1>1 DEF Lines
<1>3. \A i \in 1..Len(read) : [unit |-> v, line |-> read[i]] \in Output
  BY <1>1 DEF Output
<1>. HIDE DEF a
<1>4. a \in Seq(Output) /\ DOMAIN a = 1..Len(read)
  BY <1>1, <1>2, <1>3
<1>5. \A i \in DOMAIN a : a[i].unit = v /\ a[i].line = read[i]
  BY <1>2
<1>6. /\ p \in Seq(Line) /\ DOMAIN p = DOMAIN a
      /\ \A i \in DOMAIN p : p[i] = IF a[i].unit = u THEN a[i].line ELSE <<>>
  BY <1>4, PendingFacts
<1>. HIDE DEF p
<1>7. v = u => p = read
  <2>1. v = u => \A i \in 1..Len(read) : p[i] = read[i]
    BY <1>4, <1>5, <1>6
  <2>2. Len(p) = Len(read)
    BY <1>1, <1>4, <1>6
  <2>. QED
    BY <1>1, <1>6, <2>1, <2>2
<1>8. v # u => \A i \in DOMAIN p : p[i] = <<>>
  BY <1>5, <1>6
<1>9. v # u => Pieces(p) = {} /\ \A calm : Ordered(calm, p)
  <2>1. v # u => \A i \in DOMAIN p : DOMAIN p[i] = {}
    BY <1>8
  <2>. QED
    BY <2>1 DEF Pieces, Range, Ordered
<1>. QED
  BY <1>4, <1>7, <1>9 DEF a, p

\* A read leaves the other sources, and puts what it left over in its own.
LEMMA DrainsSources ==
    ASSUME Types, NEW w \in Writers, Reads(w), NEW m \in DOMAIN writer[w].sources, Drains(w, m)
    PROVE  LET s == writer[w].sources
               t == writer'[w].sources
           IN  /\ DOMAIN t = DOMAIN s
               /\ \A n \in DOMAIN s : t[n].unit = s[n].unit /\ t[n].gen = s[n].gen
               /\ \A n \in DOMAIN s \ {m} : t[n] = s[n]
               /\ t[m].partial = Drained(s[m]).partial
               /\ \A n \in DOMAIN s \ {m} : s[n].unit # s[m].unit \/ s[n].gen # s[m].gen
<1>. DEFINE s == writer[w].sources
            t == writer'[w].sources
            d == Drained(s[m])
<1>1. t = [s EXCEPT ![m].partial = d.partial]
  BY Zenon DEF Drains
<1>2. s \in Seq(Source) /\ s[m] \in Source /\ m \in DOMAIN s
  <2>1. s \in Seq(Source)
    BY DEF Types, Process
  <2>. QED
    BY <2>1
<1>3. s[m] = [unit |-> s[m].unit, gen |-> s[m].gen, partial |-> s[m].partial]
  BY <1>2 DEF Source
<1>4. \A n, k \in DOMAIN s : n < k /\ s[n].unit = s[k].unit => s[n].gen < s[k].gen
  BY DEF Reads
<1>5. \A n \in DOMAIN s : n \in Nat /\ s[n].gen \in Nat
  BY SourceFacts
<1>. HIDE DEF s, d, t
<1>6. /\ DOMAIN t = DOMAIN s
      /\ \A n \in DOMAIN s \ {m} : t[n] = s[n]
      /\ t[m] = [s[m] EXCEPT !.partial = d.partial]
  BY <1>1, <1>2
<1>7. t[m] = [unit |-> s[m].unit, gen |-> s[m].gen, partial |-> d.partial]
  BY <1>3, <1>6
<1>8. \A n \in DOMAIN s : t[n].unit = s[n].unit /\ t[n].gen = s[n].gen
  BY <1>6, <1>7
<1>9. ASSUME NEW n \in DOMAIN s \ {m} PROVE s[n].unit # s[m].unit \/ s[n].gen # s[m].gen
  <2>1. n < m \/ m < n
    BY <1>2, <1>5
  <2>. QED
    BY <1>2, <1>4, <1>5, <2>1
<1>. QED
  BY <1>6, <1>7, <1>8, <1>9 DEF s, t, d

\* What a read moved, and where it stands to what was there.
LEMMA DrainsContent ==
    ASSUME Types, Piped, NEW w \in Writers, Reads(w), NEW m \in DOMAIN writer[w].sources,
           Drains(w, m), Begun(writer[w].sources[m].unit, w, m),
           Filed(writer[w].sources[m].unit), Taken(writer[w].sources[m].unit, w)
    PROVE  LET s == writer[w].sources[m]
               d == Drained(s)
               A == Pieces(d.lines)
               B == Range(d.partial)
               C == Range(s.partial) \cup Range(Pipe(s).data)
               E == Range(pipes'[s.unit][s.gen].data)
           IN  /\ d.lines \in Seq(Line) /\ d.partial \in Line
               /\ A \cup B \subseteq C /\ C \subseteq Piece
               /\ \A p \in C : p.gen = s.gen /\ p.n <= sent[s.unit]
               /\ AllRising(d.lines) /\ Rising(d.partial) /\ Above(A, B)
               /\ Above(A \cup B, E)
               /\ Below(Out(s.unit, w), C)
<1>. DEFINE s == writer[w].sources[m]
            d == Drained(s)
            data == Pipe(s).data
            A == Pieces(d.lines)
            B == Range(d.partial)
            C == Range(s.partial) \cup Range(data)
            chunk == SubSeq(data, 1, d.size)
            rest == SubSeq(data, d.size + 1, Len(data))
<1>1. /\ s \in Source /\ s.unit \in Units /\ s.gen \in Nat /\ s.partial \in Line
      /\ s.gen \in DOMAIN pipes[s.unit]
      /\ Pipe(s) = pipes[s.unit][s.gen] /\ Pipe(s) \in PipeEnd
  BY SourceFacts
<1>2. Len(s.partial) < MaxLine
  BY DEF Reads
<1>3. /\ pipes'[s.unit][s.gen].data = rest
      /\ Rising(s.partial) /\ Rising(data) /\ Above(Range(s.partial), Range(data))
  BY Zenon DEF Drains
<1>4. /\ \A p \in Range(s.partial) : p.gen = s.gen /\ p.n <= sent[s.unit]
      /\ Below(Out(s.unit, w), Range(s.partial))
  BY DEF Begun
<1>13. Below(Out(s.unit, w), Range(data))
  <2>1. /\ Below(Pieces(recorded[s.unit]), Range(pipes[s.unit][s.gen].data))
        /\ Below(Pieces(Pending(s.unit, w)), Range(pipes[s.unit][s.gen].data))
    BY Zenon, <1>1 DEF Filed, Taken
  <2>. QED
    BY Zenon, <1>1, <2>1 DEF Below, Out
<1>5. data \in Line /\ \A p \in Range(data) : p.gen = s.gen /\ p.n <= sent[s.unit]
  <2>. HIDE DEF s
  <2>1. data \in Line
    BY <1>1 DEF PipeEnd
  <2>2. \A p \in Range(pipes[s.unit][s.gen].data) : p.gen = s.gen /\ p.n <= sent[s.unit]
    BY <1>1 DEF Piped
  <2>. QED
    BY <1>1, <2>1, <2>2
<1>6. /\ d.size \in 0..Len(data)
      /\ d.lines \in Seq(Line) /\ d.partial \in Line /\ Sorted(d)
      /\ Content(d) = Range(s.partial) \cup Range(chunk)
  BY Zenon, <1>1, <1>2, <1>3, <1>5, DrainedFacts
<1>. HIDE DEF d, data
<1>7. /\ Range(data) = Range(chunk) \cup Range(rest) /\ Above(Range(chunk), Range(rest))
  BY Zenon, <1>3, <1>5, <1>6, ReadInTwo
<1>8. A \cup B = Content(d)
  BY DEF Content
<1>9. AllRising(d.lines) /\ Rising(d.partial) /\ Above(A, B)
  BY <1>6 DEF Sorted
<1>10. C \subseteq Piece
  <2>1. s.partial \in Seq(Piece) /\ data \in Seq(Piece)
    BY <1>1, <1>5 DEF Line
  <2>. QED
    BY <2>1, RangeFacts
<1>. HIDE DEF chunk, rest, A, B
<1>11. A \cup B \subseteq C
  BY <1>6, <1>7, <1>8
<1>12. Above(A \cup B, Range(rest))
  BY <1>3, <1>6, <1>7, <1>8 DEF Above
<1>14. \A p \in C : p.gen = s.gen /\ p.n <= sent[s.unit]
  BY <1>4, <1>5
<1>15. Below(Out(s.unit, w), C)
  BY <1>4, <1>13 DEF Below
<1>16. Above(A \cup B, Range(pipes'[s.unit][s.gen].data))
  BY <1>3, <1>12
<1>. HIDE DEF C
<1>17. /\ d.lines \in Seq(Line) /\ d.partial \in Line
       /\ A \cup B \subseteq C /\ C \subseteq Piece
       /\ \A p \in C : p.gen = s.gen /\ p.n <= sent[s.unit]
       /\ AllRising(d.lines) /\ Rising(d.partial) /\ Above(A, B)
       /\ Above(A \cup B, Range(pipes'[s.unit][s.gen].data))
       /\ Below(Out(s.unit, w), C)
  BY Zenon, <1>6, <1>9, <1>10, <1>11, <1>14, <1>15, <1>16
<1>. QED
  BY Zenon, <1>17 DEF s, d, data, A, B, C

\* A unit whose pipe was not read.
LEMMA PlacesDrainOther ==
    ASSUME IInv, [Next]_vars, Types', Linked', NEW u \in Units, NEW w \in Writers, Drain(w),
           NEW m \in DOMAIN writer[w].sources, Drains(w, m), writer[w].sources[m].unit # u
    PROVE  Places(u, w)'
<1>1. Types /\ Linked /\ Offers /\ Reads(w) /\ Filed(u) /\ Places(u, w)
  BY DEF IInv
<1>2. Grown
  BY PipesStep
<1>. DEFINE s == writer[w].sources
            t == writer'[w].sources
            d == Drained(s[m])
            r == recorded[u]
            b == Pending(u, w)'
<1>3. recorded' = recorded /\ conns' = conns
  BY Zenon DEF Drain
<1>4. /\ writer[w].lines = <<>> /\ writer'[w].lines = Lines(s[m].unit, d.lines)
      /\ writer'[w].conn = writer[w].conn /\ Up(w)' = Up(w)
      /\ writer[w].closed \subseteq writer'[w].closed
      /\ s[m].unit \in Units
  BY Zenon, SourceFacts, <1>1 DEF Drains, Up
<1>5. /\ DOMAIN t = DOMAIN s
      /\ \A n \in DOMAIN s : t[n].unit = s[n].unit /\ t[n].gen = s[n].gen
      /\ \A n \in DOMAIN s \ {m} : t[n] = s[n]
  BY <1>1, DrainsSources
<1>6. d.lines \in Seq(Line)
  <2>1. /\ Types /\ Piped /\ Reads(w) /\ Begun(s[m].unit, w, m)
        /\ Filed(s[m].unit) /\ Taken(s[m].unit, w)
    BY <1>4 DEF IInv, Places
  <2>. QED
    BY <2>1, DrainsContent
<1>7. Pieces(b) = {} /\ \A calm : Ordered(calm, b)
  <2>. DEFINE v == s[m].unit
              read == d.lines
  <2>1. v \in Units /\ read \in Seq(Line) /\ v # u /\ b = PendingOf(u, Lines(v, read))
    BY <1>4, <1>6 DEF Pending
  <2>. HIDE DEF v, read, b
  <2>. QED
    BY <2>1, LinesFacts
<1>8. Queue(w)' = Queue(w) /\ Queue(w)' \in Seq(Message)
  BY <1>3, <1>4, QueueTyped DEF Queue
<1>9. Out(u, w)' = Pieces(r) \cup Pieces(b)
  BY <1>3 DEF Out
<1>. HIDE DEF s, t, d, r, b
<1>10. Out(u, w)' \subseteq Out(u, w)
  BY <1>7, <1>9 DEF Out, r
<1>11. Taken(u, w)'
  BY <1>7 DEF Taken, Follow, Known, Below, b
<1>12. \A n \in DOMAIN t : t[n].unit = u => Begun(u, w, n)'
  <2>. SUFFICES ASSUME NEW n \in DOMAIN t, t[n].unit = u PROVE Begun(u, w, n)'
    OBVIOUS
  <2>1. n \in DOMAIN writer[w].sources /\ writer[w].sources[n].unit = u
        /\ writer'[w].sources[n] = writer[w].sources[n]
    BY <1>5 DEF s, t
  <2>2. Begun(u, w, n)
    BY <1>1, <2>1 DEF Places
  <2>3. n \in writer'[w].closed \/ n \notin writer[w].closed
    BY <1>4
  <2>4. writer[w].pc # "leave"
    BY DEF Drain
  <2>. QED
    BY <1>1, <1>2, <1>10, <2>1, <2>2, <2>3, <2>4, BegunFrame
<1>13. Due(u, w)'
  <2>1. Known(u, Out(u, w)) /\ Due(u, w)
    BY <1>1 DEF Known, Out, Filed, Places, Taken
  <2>. QED
    BY <1>1, <1>2, <1>8, <1>10, <2>1, DueFrame
<1>. QED
  BY <1>11, <1>12, <1>13 DEF Places, t

\* The unit whose pipe was read.
LEMMA PlacesDrainOwn ==
    ASSUME IInv, [Next]_vars, Types', Linked', NEW w \in Writers, Drain(w),
           NEW m \in DOMAIN writer[w].sources, Drains(w, m),
           NEW u \in Units, writer[w].sources[m].unit = u
    PROVE  Places(u, w)'
<1>1. /\ Types /\ Linked /\ Offers /\ Piped /\ Reads(w) /\ Turns(w) /\ Filed(u)
      /\ Taken(u, w) /\ Due(u, w)
      /\ \A n \in DOMAIN writer[w].sources : writer[w].sources[n].unit = u => Begun(u, w, n)
  BY DEF IInv, Places
<1>2. Grown
  BY PipesStep
<1>. DEFINE s == writer[w].sources
            t == writer'[w].sources
            x == s[m]
            d == Drained(x)
            r == recorded[u]
            A == Pieces(d.lines)
            B == Range(d.partial)
            C == Range(x.partial) \cup Range(Pipe(x).data)
            E(g) == Range(pipes'[u][g].data)
            O == Out(u, w)
            closed == writer[w].closed
<1>3. /\ recorded' = recorded /\ conns' = conns /\ sent' = sent /\ overlapped' = overlapped
  BY Zenon DEF Drain
<1>4. /\ writer[w].lines = <<>> /\ writer'[w].lines = Lines(u, d.lines)
      /\ writer[w].pc = "drain" /\ m \in writer[w].ready
      /\ \A n \in writer[w].ready \ {0} : m <= n
      /\ writer'[w].conn = writer[w].conn /\ Up(w)' = Up(w)
      /\ closed \subseteq writer'[w].closed
      /\ \A v \in Units : Len(pipes'[v]) = Len(pipes[v])
      /\ \A g \in DOMAIN pipes[u] : g # x.gen => pipes'[u][g].data = pipes[u][g].data
  BY Zenon DEF Drains, Up
<1>5. /\ DOMAIN t = DOMAIN s
      /\ \A n \in DOMAIN s : t[n].unit = s[n].unit /\ t[n].gen = s[n].gen
      /\ \A n \in DOMAIN s \ {m} : t[n] = s[n]
      /\ t[m].partial = d.partial
      /\ \A n \in DOMAIN s \ {m} : s[n].unit # u \/ s[n].gen # x.gen
  BY <1>1, DrainsSources
<1>6. /\ d.lines \in Seq(Line) /\ d.partial \in Line
      /\ A \cup B \subseteq C /\ C \subseteq Piece
      /\ \A p \in C : p.gen = x.gen /\ p.n <= sent[u]
      /\ AllRising(d.lines) /\ Rising(d.partial) /\ Above(A, B)
      /\ Above(A \cup B, E(x.gen))
      /\ Below(O, C)
  <2>1. Begun(x.unit, w, m) /\ Filed(x.unit) /\ Taken(x.unit, w)
    BY <1>1
  <2>. QED
    BY <1>1, <2>1, DrainsContent
<1>7. Pending(u, w)' = d.lines
  <2>. DEFINE read == d.lines
  <2>1. read \in Seq(Line) /\ Pending(u, w)' = PendingOf(u, Lines(u, read))
    BY Zenon, <1>4, <1>6 DEF Pending
  <2>. HIDE DEF read
  <2>2. Pending(u, w)' = read
    BY <2>1, LinesFacts
  <2>. QED
    BY <2>2 DEF read
<1>8. \A n \in DOMAIN s : /\ s[n].unit \in Units /\ s[n].gen \in Nat
                          /\ s[n].gen \in DOMAIN pipes[s[n].unit]
                          /\ s[n].gen <= Len(pipes[s[n].unit])
                          /\ n \in Nat /\ n # 0
  BY <1>1, SourceFacts
<1>9. /\ m \notin closed
      /\ \A n, k \in DOMAIN s : n < k /\ s[n].unit = s[k].unit => s[n].gen < s[k].gen
      /\ \A n \in DOMAIN s, i \in DOMAIN Queue(w) :
             s[n].unit = Queue(w)[i].unit => s[n].gen < Queue(w)[i].gen
  BY <1>1, <1>4 DEF Reads
<1>10. Calm(u) => \A n \in DOMAIN s : n < m /\ s[n].unit = u => n \in writer[w].ready \cup closed
  BY <1>1, <1>4 DEF Turns, Calm
<1>11. /\ \A n \in DOMAIN s : s[n].unit = u => Begun(u, w, n)
       /\ x.unit = u /\ m \in DOMAIN s
  BY <1>1
<1>12. /\ O = Pieces(r) /\ Out(u, w)' = Pieces(r) \cup A
  <2>1. Pieces(PendingOf(u, <<>>)) = {}
    <3>1. <<>> \in Seq(Output)
      OBVIOUS
    <3>. QED
      BY <3>1, PendingFacts
  <2>. QED
    BY <1>3, <1>4, <1>7, <2>1 DEF Out, Pending
<1>13. /\ sent[u] \in Nat /\ Len(pipes[u]) \in Nat /\ Pieces(r) \subseteq Piece
       /\ DOMAIN pipes[u] = 1..Len(pipes[u]) /\ DOMAIN pipes'[u] = DOMAIN pipes[u]
  <2>1. /\ sent[u] \in Nat /\ Len(pipes[u]) \in Nat /\ Pieces(r) \subseteq Piece
        /\ DOMAIN pipes[u] = 1..Len(pipes[u])
    BY <1>1, HoldsPieces
  <2>2. pipes'[u] \in Seq(PipeEnd) /\ Len(pipes'[u]) = Len(pipes[u])
    BY <1>4 DEF Types
  <2>3. DOMAIN pipes'[u] = 1..Len(pipes[u])
    BY <2>2
  <2>. QED
    BY <2>1, <2>3
<1>14. /\ Known(u, Pieces(r)) /\ Due(u, w)
       /\ \A g \in DOMAIN pipes[u] : \A p \in Range(pipes[u][g].data) : p.gen = g
  BY <1>1 DEF Filed, Piped
<1>15. Calm(u)' = Calm(u) /\ Calm(u) \in BOOLEAN
  BY <1>3 DEF Calm
<1>16. /\ Calm(u) => \A p \in O : p.gen <= x.gen
       /\ \A n \in DOMAIN s : s[n].unit = u =>
             /\ Rising(s[n].partial)
             /\ \A p \in Range(s[n].partial) : p.gen = s[n].gen /\ p.n <= sent[u]
             /\ Below(O, Range(s[n].partial))
             /\ Above(Range(s[n].partial), Range(pipes[s[n].unit][s[n].gen].data))
             /\ Calm(u) /\ n \notin closed => \A p \in O : p.gen <= s[n].gen
  <2>1. \A n \in DOMAIN s : s[n].unit = u =>
             /\ Rising(s[n].partial)
             /\ \A p \in Range(s[n].partial) : p.gen = s[n].gen /\ p.n <= sent[u]
             /\ Below(O, Range(s[n].partial))
             /\ Above(Range(s[n].partial), Range(pipes[s[n].unit][s[n].gen].data))
             /\ Calm(u) /\ n \notin closed => \A p \in O : p.gen <= s[n].gen
    BY <1>4, <1>11 DEF Begun, Pipe
  <2>. HIDE DEF s, O, closed
  <2>2. Calm(u) => \A p \in O : p.gen <= s[m].gen
    BY <2>1, <1>9, <1>11
  <2>. QED
    BY <2>1, <2>2
<1>17. Queue(w)' = Queue(w) /\ Queue(w)' \in Seq(Message)
  BY <1>1, <1>3, <1>4, QueueTyped DEF Queue
<1>. HIDE DEF s, t, x, d, r, A, B, C, E, O, closed
<1>18. \A p \in A : p.gen = x.gen /\ p.n <= sent[u] /\ p.n \in Nat
  BY <1>6 DEF Piece
<1>19. x.gen \in Nat /\ x.gen \in DOMAIN pipes[u] /\ x.gen <= Len(pipes[u])
  BY <1>8, <1>11 DEF x
<1>20. Ordered(Calm(u)', d.lines)
  <2>. SUFFICES ASSUME NEW i \in DOMAIN d.lines, NEW j \in DOMAIN d.lines,
                       NEW k \in DOMAIN d.lines[i], NEW l \in DOMAIN d.lines[j],
                       Precedes(i, k, j, l)
                PROVE  Follows(Calm(u)', d.lines[i][k], d.lines[j][l])
    BY DEF Ordered
  <2>1. d.lines[i][k] \in A /\ d.lines[j][l] \in A
    BY DEF A, Pieces, Range
  <2>2. d.lines[i][k].n < d.lines[j][l].n
    BY <1>6 DEF AllRising
  <2>. QED
    BY <1>18, <1>19, <2>1, <2>2 DEF Follows
<1>21. Follow(Calm(u)', Pieces(r), A)
  <2>. SUFFICES ASSUME NEW p \in Pieces(r), NEW q \in A PROVE Follows(Calm(u)', p, q)
    BY DEF Follow
  <2>1. p.gen = q.gen => p.n < q.n
    BY <1>6, <1>12 DEF Below
  <2>2. Calm(u)' => p.gen <= q.gen
    BY <1>12, <1>15, <1>16, <1>18
  <2>. QED
    BY <2>1, <2>2 DEF Follows
<1>22. /\ \A p \in A : p.n <= sent'[u] /\ p.gen <= Len(pipes'[u])
  BY <1>3, <1>4, <1>11, <1>18, <1>19
<1>23. \A g \in DOMAIN pipes'[u] : Below(A, E(g))
  <2>. SUFFICES ASSUME NEW g \in DOMAIN pipes[u], NEW p \in A, NEW q \in E(g), p.gen = q.gen
                PROVE  p.n < q.n
    BY <1>13 DEF Below
  <2>1. CASE g = x.gen
    BY <1>6, <2>1 DEF Above
  <2>2. CASE g # x.gen
    <3>1. q.gen = g
      BY <1>4, <1>14, <2>2 DEF E
    <3>. QED
      BY <1>18, <2>2, <3>1
  <2>. QED
    BY <2>1, <2>2
<1>24. Taken(u, w)'
  <2>1. recorded'[u] = r
    BY <1>3 DEF r
  <2>. QED
    BY <1>7, <1>20, <1>21, <1>22, <1>23, <2>1 DEF Taken, Known, A, E
<1>25. ASSUME NEW n \in DOMAIN t, t[n].unit = u
       PROVE  /\ Rising(t[n].partial)
              /\ \A p \in Range(t[n].partial) : p.gen = t[n].gen /\ p.n <= sent'[u]
              /\ Below(Pieces(r) \cup A, Range(t[n].partial))
              /\ Above(Range(t[n].partial), E(t[n].gen))
              /\ Calm(u) /\ n \notin writer'[w].closed =>
                    \A p \in Pieces(r) \cup A : p.gen <= t[n].gen
  <2>1. CASE n = m
    <3>1. t[n].partial = d.partial /\ t[n].gen = x.gen /\ Range(t[n].partial) = B
      BY <1>5, <1>11, <2>1 DEF x, B
    <3>2. \A p \in B : p.gen = x.gen /\ p.n <= sent'[u]
      BY <1>3, <1>6
    <3>3. Below(Pieces(r) \cup A, B)
      BY <1>6, <1>12 DEF Below, Above
    <3>4. Above(B, E(x.gen))
      BY <1>6 DEF Above
    <3>5. Calm(u) => \A p \in Pieces(r) \cup A : p.gen <= x.gen
      BY <1>12, <1>16, <1>18, <1>19
    <3>. QED
      BY <1>6, <3>1, <3>2, <3>3, <3>4, <3>5
  <2>2. CASE n # m
    <3>1. n \in DOMAIN s /\ t[n] = s[n] /\ s[n].unit = u /\ s[n].gen # x.gen
      BY <1>5, <1>25, <2>2
    <3>. DEFINE P == Range(s[n].partial)
    <3>2. /\ Rising(s[n].partial)
          /\ \A p \in P : p.gen = s[n].gen /\ p.n <= sent[u]
          /\ Below(O, P)
          /\ Above(P, Range(pipes[u][s[n].gen].data))
          /\ Calm(u) /\ n \notin closed => \A p \in O : p.gen <= s[n].gen
      BY <1>16, <3>1
    <3>. HIDE DEF P
    <3>3. Below(A, P)
      BY <1>18, <3>1, <3>2 DEF Below
    <3>4. E(s[n].gen) = Range(pipes[u][s[n].gen].data)
      BY <1>4, <1>8, <3>1 DEF E
    <3>5. Calm(u) /\ n \notin closed => x.gen <= s[n].gen
      <4>. SUFFICES ASSUME Calm(u), n \notin closed PROVE x.gen <= s[n].gen
        OBVIOUS
      <4>1. CASE n < m
        <5>1. n \in writer[w].ready
          BY <1>10, <3>1, <4>1
        <5>2. m <= n
          BY <1>4, <1>8, <3>1, <5>1
        <5>. QED
          BY <1>8, <1>11, <3>1, <4>1, <5>2
      <4>2. CASE m < n
        <5>1. s[m].gen < s[n].gen
          BY <1>9, <1>11, <3>1, <4>2 DEF x
        <5>2. s[m].gen \in Nat /\ s[n].gen \in Nat /\ x = s[m]
          BY <1>8, <1>11, <3>1 DEF x
        <5>. QED
          BY <5>1, <5>2
      <4>. QED
        BY <1>8, <1>11, <2>2, <3>1, <4>1, <4>2
    <3>6. Below(Pieces(r) \cup A, P)
      BY <1>12, <3>2, <3>3 DEF Below
    <3>7. Calm(u) /\ n \notin writer'[w].closed => \A p \in Pieces(r) \cup A : p.gen <= s[n].gen
      BY <1>4, <1>12, <1>18, <3>2, <3>5
    <3>. QED
      BY <1>3, <3>1, <3>2, <3>4, <3>6, <3>7 DEF P
  <2>. QED
    BY <2>1, <2>2
<1>26. \A n \in DOMAIN t : t[n].unit = u => Begun(u, w, n)'
  <2>. SUFFICES ASSUME NEW n \in DOMAIN t, t[n].unit = u PROVE Begun(u, w, n)'
    OBVIOUS
  <2>1. pipes'[t[n].unit][t[n].gen].data = pipes'[u][t[n].gen].data
    OBVIOUS
  <2>2. /\ Rising(t[n].partial)
        /\ \A p \in Range(t[n].partial) : p.gen = t[n].gen /\ p.n <= sent'[u]
        /\ Below(Out(u, w)', Range(t[n].partial))
        /\ Above(Range(t[n].partial), Range(pipes'[t[n].unit][t[n].gen].data))
        /\ Calm(u)' /\ n \notin writer'[w].closed => \A p \in Out(u, w)' : p.gen <= t[n].gen
    BY <1>12, <1>15, <1>25, <2>1 DEF E
  <2>. QED
    BY <2>2 DEF Begun, Pipe, t
<1>27. Due(u, w)'
  <2>. DEFINE q == Queue(w)
  <2>1. q \in Seq(Message) /\ Calm(u) => \A i \in DOMAIN q : q[i].unit = u => \A p \in O : p.gen <= q[i].gen
    BY <1>14 DEF Due, O
  <2>2. \A i \in DOMAIN q : q[i].unit = u => x.gen < q[i].gen /\ q[i].gen \in Nat
    <3>1. q \in Seq(Message)
      BY <1>17
    <3>. HIDE DEF q
    <3>2. \A i \in DOMAIN q : q[i].gen \in Nat
      <4>1. \A i \in DOMAIN q : q[i] \in Message
        BY <3>1
      <4>. QED
        BY <4>1 DEF Message, Boots
    <3>. QED
      BY <1>9, <1>11, <3>2 DEF x, q
  <2>. HIDE DEF q
  <2>3. Calm(u)' => \A i \in DOMAIN q : q[i].unit = u => \A p \in Pieces(r) \cup A : p.gen <= q[i].gen
    <3>1. q \in Seq(Message)
      BY <1>17 DEF q
    <3>. QED
      BY <1>12, <1>15, <1>18, <1>19, <2>1, <2>2, <3>1
  <2>. QED
    BY <1>12, <1>17, <2>3 DEF Due, q
<1>. QED
  BY <1>24, <1>26, <1>27 DEF Places, t

\* Nothing read stands nowhere.
LEMMA TakenNothing ==
    ASSUME NEW u \in Units, NEW w \in Writers, writer'[w].lines = <<>>
    PROVE  Taken(u, w)' /\ Pieces(Pending(u, w)') = {}
<1>1. PendingOf(u, <<>>) = <<>> /\ Pieces(<<>>) = {}
  <2>1. <<>> \in Seq(Output)
    OBVIOUS
  <2>2. PendingOf(u, <<>>) = <<>> /\ Pieces(PendingOf(u, <<>>)) = {}
    BY <2>1, PendingFacts
  <2>. QED
    BY <2>2
<1>2. Pending(u, w)' = <<>>
  BY <1>1 DEF Pending
<1>. QED
  BY <1>1, <1>2 DEF Taken, Ordered, Follow, Known, Below

\* A source begins with nothing of it read.
LEMMA BegunNew ==
    ASSUME Types, Types', Grown, NEW u \in Units, NEW w \in Writers, NEW i,
           writer'[w].sources[i].unit = u, writer'[w].sources[i].partial = <<>>,
           Calm(u)' /\ writer'[w].pc # "leave" =>
               \A p \in Out(u, w)' : p.gen <= writer'[w].sources[i].gen
    PROVE  Begun(u, w, i)'
<1>1. Range(<<>>) = {} /\ Rising(<<>>)
  BY DEF Rising, Range
<1>. QED
  BY <1>1 DEF Begun, Below, Above

\* A source more, or none: nothing read changes.
LEMMA PlacesAcceptPoll ==
    ASSUME IInv, [Next]_vars, Types', Linked', NEW u \in Units, NEW w \in Writers, Accept(w),
           writer'[w].pc = "poll"
    PROVE  Places(u, w)'
<1>1. /\ Types /\ Linked /\ Offers /\ Reads(w) /\ Filed(u) /\ Places(u, w)
  BY DEF IInv
<1>2. Grown
  BY PipesStep
<1>. DEFINE s == writer[w].sources
            k == Kept(w)
            t == writer'[w].sources
            q == Queue(w)
            qq == Queue(w)'
            r == Received(Head(q))
<1>3. /\ Up(w) /\ writer[w].lines = <<>>
      /\ writer'[w].conn = writer[w].conn
      /\ writer'[w].closed = {}
      /\ writer'[w].lines = <<>>
      /\ \/ t = k /\ conns' = conns
         \/ /\ q # <<>>
            /\ t = Append(k, r) /\ r \in Source
            /\ conns'[writer[w].conn].queue = Tail(q)
  BY <1>1, AcceptEffect
<1>4. recorded' = recorded /\ overlapped' = overlapped
  BY DEF Accept
<1>5. PICK f : Selects(w, f)
  BY <1>1, KeptFacts
<1>6. /\ k \in Seq(Source)
      /\ \A i \in DOMAIN k : f[i] \in DOMAIN s \ writer[w].closed /\ k[i] = s[f[i]]
  BY <1>5 DEF Selects
<1>7. q \in Seq(Message) /\ qq \in Seq(Message)
  BY <1>1, QueueFacts, QueueTyped
<1>8. Taken(u, w)'
  BY <1>3, TakenNothing
<1>9. Out(u, w)' = Out(u, w)
  <2>1. Pieces(PendingOf(u, <<>>)) = Pieces(PendingOf(u, <<>>))
    OBVIOUS
  <2>. QED
    BY <1>3, <1>4 DEF Out, Pending
<1>10. \A n \in DOMAIN s : s[n].unit = u => Begun(u, w, n)
  BY <1>1 DEF Places
<1>11. Calm(u)' = Calm(u) /\ Due(u, w)
  BY <1>1, <1>4 DEF Calm, Places
<1>12. qq = q \/ (q # <<>> /\ qq = Tail(q))
  BY <1>3 DEF Queue, Up
<1>. HIDE DEF s, k, t, q, qq, r
<1>13. q # <<>> => /\ 1 \in DOMAIN q /\ Head(q) = q[1]
                   /\ \A i \in DOMAIN Tail(q) : i + 1 \in DOMAIN q /\ Tail(q)[i] = q[i + 1]
  BY <1>7, HeadAndTail
<1>14. Due(u, w)'
  <2>1. Known(u, Out(u, w))
    BY <1>1 DEF Known, Out, Filed, Places, Taken
  <2>2. \A i \in DOMAIN qq : \E j \in DOMAIN q : qq[i] = q[j]
    BY <1>12, <1>13
  <2>. QED
    BY <1>1, <1>2, <1>7, <1>9, <1>11, <2>1, <2>2, DueFrame DEF q, qq
<1>15. ASSUME NEW i \in DOMAIN k, t[i] = k[i], t[i].unit = u PROVE Begun(u, w, i)'
  <2>1. f[i] \in DOMAIN writer[w].sources /\ f[i] \notin writer[w].closed
        /\ writer'[w].sources[i] = writer[w].sources[f[i]]
        /\ writer[w].sources[f[i]].unit = u
    BY <1>6, <1>15 DEF s, t
  <2>2. Begun(u, w, f[i]) /\ Out(u, w)' \subseteq Out(u, w)
    BY <1>9, <1>10, <2>1 DEF s
  <2>3. writer[w].pc # "leave"
    BY DEF Accept
  <2>. QED
    BY <1>1, <1>2, <2>1, <2>2, <2>3, BegunFrame
<1>16. \A i \in DOMAIN t : t[i].unit = u => Begun(u, w, i)'
  <2>1. CASE t = k
    BY <1>15, <2>1
  <2>2. CASE q # <<>> /\ t = Append(k, r) /\ r \in Source
    <3>1. /\ DOMAIN t = 1..(Len(k) + 1) /\ Len(k) \in Nat /\ DOMAIN k = 1..Len(k)
          /\ \A i \in DOMAIN k : t[i] = k[i]
          /\ t[Len(k) + 1] = r
      BY <1>6, <2>2
    <3>2. r.unit = q[1].unit /\ r.gen = q[1].gen /\ r.partial = <<>>
      BY <1>13, <2>2 DEF r, Received
    <3>3. ASSUME NEW i, i = Len(k) + 1, t[i].unit = u PROVE Begun(u, w, i)'
      <4>1. writer'[w].sources[i].unit = u /\ writer'[w].sources[i].partial = <<>>
            /\ writer'[w].sources[i].gen = q[1].gen /\ q[1].unit = u
        BY <3>1, <3>2, <3>3 DEF t
      <4>2. Calm(u)' => \A p \in Out(u, w)' : p.gen <= q[1].gen
        BY <1>9, <1>11, <1>13, <2>2, <4>1 DEF Due, q
      <4>3. Calm(u)' => \A p \in Out(u, w)' : p.gen <= writer'[w].sources[i].gen
        BY <4>1, <4>2
      <4>. QED
        BY <1>1, <1>2, <4>1, <4>3, BegunNew
    <3>4. \A i \in DOMAIN t : i \in DOMAIN k \/ i = Len(k) + 1
      BY <3>1
    <3>. QED
      BY <1>15, <3>1, <3>3, <3>4
  <2>. QED
    BY <1>3, <2>1, <2>2
<1>. QED
  BY <1>8, <1>14, <1>16 DEF Places, t

\* What is kept of partial lines when the socket is gone.
LEMMA PlacesAcceptLeave ==
    ASSUME IInv, [Next]_vars, Types', Linked', NEW u \in Units, NEW w \in Writers, Accept(w),
           writer'[w].pc = "leave"
    PROVE  Places(u, w)'
<1>1. /\ Types /\ Linked /\ Offers /\ Reads(w) /\ Piped /\ Filed(u) /\ Places(u, w)
  BY DEF IInv
<1>. DEFINE s == writer[w].sources
            k == Kept(w)
            last == LastLines(k)
            r == recorded[u]
            b == PendingOf(u, last)
<1>2. recorded' = recorded /\ overlapped' = overlapped /\ pipes' = pipes /\ sent' = sent
  BY DEF Accept
<1>3. /\ writer[w].lines = <<>> /\ writer'[w].sources = Flushed(k) /\ Queue(w) = <<>>
      /\ writer'[w].conn = writer[w].conn /\ Up(w) /\ conns' = conns
      /\ writer'[w].lines = last /\ writer[w].pc = "drain"
  BY <1>1, AcceptEffect
<1>4. Queue(w)' = <<>>
  BY <1>3 DEF Queue, Up
<1>5. PICK f : Selects(w, f)
  BY <1>1, KeptFacts
<1>6. /\ k \in Seq(Source)
      /\ \A i \in DOMAIN k : f[i] \in DOMAIN s \ writer[w].closed /\ k[i] = s[f[i]]
      /\ \A i, j \in DOMAIN k : i < j => f[i] < f[j]
  BY <1>5 DEF Selects
<1>7. /\ last \in Seq(Output)
      /\ \E g : LET S == {n \in DOMAIN k : k[n].partial # <<>>}
                IN  /\ Enumerates(g, S) /\ Cardinality(S) \in Nat
                    /\ DOMAIN last = 1..Cardinality(S)
                    /\ \A i \in DOMAIN last :
                          /\ last[i].unit = k[g[i]].unit
                          /\ last[i].line = k[g[i]].partial
  <2>. HIDE DEF k
  <2>. QED
    BY <1>6, LastLinesFacts
<1>. DEFINE S == {n \in DOMAIN k : k[n].partial # <<>>}
<1>8. PICK g : /\ Enumerates(g, S) /\ DOMAIN last = 1..Cardinality(S)
               /\ \A i \in DOMAIN last :
                     last[i].unit = k[g[i]].unit /\ last[i].line = k[g[i]].partial
  BY <1>7
<1>9. /\ \A i \in DOMAIN last : g[i] \in DOMAIN k
      /\ \A i, j \in DOMAIN last : i < j => g[i] < g[j]
      /\ \A i \in DOMAIN last : i \in Nat
  <2>1. g \in [1..Cardinality(S) -> S] /\ Increasing(g)
    BY <1>8 DEF Enumerates
  <2>2. S \subseteq DOMAIN k
    OBVIOUS
  <2>3. DOMAIN last = 1..Cardinality(S)
    BY <1>8
  <2>. HIDE DEF S, last, k
  <2>. QED
    BY <2>1, <2>2, <2>3 DEF Increasing
<1>. DEFINE h(i) == f[g[i]]
<1>10. /\ \A i \in DOMAIN last : /\ h(i) \in DOMAIN s \ writer[w].closed
                                 /\ last[i].unit = s[h(i)].unit
                                 /\ last[i].line = s[h(i)].partial
       /\ \A i, j \in DOMAIN last : i < j => h(i) < h(j)
  <2>. HIDE DEF s, k, last
  <2>. QED
    BY <1>6, <1>8, <1>9
<1>11. /\ b \in Seq(Line) /\ DOMAIN b = DOMAIN last
       /\ \A i \in DOMAIN b : b[i] = IF last[i].unit = u THEN last[i].line ELSE <<>>
       /\ \A x : x \in Pieces(b) <=> \E i \in DOMAIN b : \E n \in DOMAIN b[i] : x = b[i][n]
  <2>. HIDE DEF last
  <2>. QED
    BY ZenonT(30), <1>7, PendingFacts
<1>12. Pending(u, w)' = b
  BY <1>3 DEF Pending
<1>13. /\ \A n \in DOMAIN s : s[n].unit = u => Begun(u, w, n)
       /\ \A n, m \in DOMAIN s : n < m /\ s[n].unit = s[m].unit => s[n].gen < s[m].gen
       /\ \A n \in DOMAIN s : s[n].unit \in Units /\ s[n].gen \in Nat
                              /\ s[n].gen <= Len(pipes[s[n].unit])
                              /\ Pipe(s[n]) = pipes[s[n].unit][s[n].gen]
  <2>1. \A n \in DOMAIN s : s[n].unit \in Units /\ s[n].gen \in Nat
                              /\ s[n].gen <= Len(pipes[s[n].unit])
                              /\ Pipe(s[n]) = pipes[s[n].unit][s[n].gen]
    BY <1>1, SourceFacts
  <2>. QED
    BY <1>1, <2>1 DEF Places, Reads
<1>. HIDE DEF s, k, last, h, b
\* Every piece of b is of a source of the unit.
<1>14. ASSUME NEW i \in DOMAIN b, b[i] # <<>>
       PROVE  /\ h(i) \in DOMAIN s /\ s[h(i)].unit = u /\ b[i] = s[h(i)].partial
              /\ Begun(u, w, h(i)) /\ h(i) \notin writer[w].closed
  BY <1>10, <1>11, <1>13, <1>14
<1>15. \A i \in DOMAIN b : \A n \in DOMAIN b[i] :
          /\ b[i] # <<>> /\ b[i][n] \in Range(b[i])
          /\ b[i][n].gen = s[h(i)].gen /\ b[i][n].n <= sent[u]
          /\ \A p \in Pieces(r) : p.gen = b[i][n].gen => p.n < b[i][n].n
          /\ Calm(u) => \A p \in Pieces(r) : p.gen <= s[h(i)].gen
          /\ \A q \in Range(pipes[u][s[h(i)].gen].data) : b[i][n].n < q.n
  <2>. SUFFICES ASSUME NEW i \in DOMAIN b, NEW n \in DOMAIN b[i]
                PROVE  /\ b[i] # <<>> /\ b[i][n] \in Range(b[i])
                       /\ b[i][n].gen = s[h(i)].gen /\ b[i][n].n <= sent[u]
                       /\ \A p \in Pieces(r) : p.gen = b[i][n].gen => p.n < b[i][n].n
                       /\ Calm(u) => \A p \in Pieces(r) : p.gen <= s[h(i)].gen
                       /\ \A q \in Range(pipes[u][s[h(i)].gen].data) : b[i][n].n < q.n
    OBVIOUS
  <2>1. b[i] # <<>> /\ b[i][n] \in Range(b[i])
    BY DEF Range
  <2>. DEFINE x == s[h(i)]
  <2>2. /\ h(i) \in DOMAIN s /\ x.unit = u /\ b[i] = x.partial
        /\ Begun(u, w, h(i)) /\ h(i) \notin writer[w].closed
        /\ Pipe(x) = pipes[u][x.gen]
    BY <1>13, <1>14, <2>1
  <2>3. /\ \A p \in Range(x.partial) : p.gen = x.gen /\ p.n <= sent[u]
        /\ Below(Out(u, w), Range(x.partial))
        /\ Above(Range(x.partial), Range(Pipe(x).data))
        /\ Calm(u) => \A p \in Out(u, w) : p.gen <= x.gen
    BY <1>3, <2>2 DEF Begun, s
  <2>. HIDE DEF x
  <2>4. Pieces(r) \subseteq Out(u, w)
    BY DEF Out
  <2>5. b[i][n] \in Range(x.partial)
    BY <2>1, <2>2
  <2>. QED
    BY <2>1, <2>2, <2>3, <2>4, <2>5 DEF Below, Above, x
<1>16. Ordered(Calm(u)', b)
  <2>. SUFFICES ASSUME NEW i \in DOMAIN b, NEW j \in DOMAIN b,
                       NEW n \in DOMAIN b[i], NEW l \in DOMAIN b[j], Precedes(i, n, j, l)
                PROVE  Follows(Calm(u)', b[i][n], b[j][l])
    BY DEF Ordered
  <2>1. b[i][n].gen = s[h(i)].gen /\ b[j][l].gen = s[h(j)].gen /\ b[i] # <<>> /\ b[j] # <<>>
    BY <1>15
  <2>2. CASE i < j
    <3>1. s[h(i)].gen < s[h(j)].gen
      <4>1. h(i) < h(j)
        BY <1>10, <1>11, <2>2
      <4>. QED
        BY <1>13, <1>14, <2>1, <4>1
    <3>2. s[h(i)].gen \in Nat /\ s[h(j)].gen \in Nat
      BY <1>13, <1>14, <2>1
    <3>. QED
      BY <2>1, <3>1, <3>2 DEF Follows
  <2>3. CASE i = j /\ n < l
    <3>1. Rising(b[i])
      BY <1>14, <2>1 DEF Begun, s
    <3>2. b[i][n].n < b[j][l].n
      BY <2>3, <3>1 DEF Rising
    <3>3. s[h(i)].gen \in Nat
      BY <1>13, <1>14, <2>1
    <3>. QED
      BY <2>1, <2>3, <3>2, <3>3 DEF Follows
  <2>. QED
    BY <2>2, <2>3 DEF Precedes
<1>17. Follow(Calm(u)', Pieces(r), Pieces(b))
  <2>. SUFFICES ASSUME NEW p \in Pieces(r), NEW q \in Pieces(b) PROVE Follows(Calm(u)', p, q)
    BY DEF Follow
  <2>1. PICK i \in DOMAIN b : \E n \in DOMAIN b[i] : q = b[i][n]
    BY <1>11
  <2>2. PICK n \in DOMAIN b[i] : q = b[i][n]
    BY <2>1
  <2>3. Calm(u)' => Calm(u)
    BY <1>2 DEF Calm
  <2>. QED
    BY <1>15, <2>2, <2>3 DEF Follows
<1>18. \A p \in Pieces(b) : p.n <= sent[u] /\ p.gen <= Len(pipes[u])
  <2>. SUFFICES ASSUME NEW p \in Pieces(b) PROVE p.n <= sent[u] /\ p.gen <= Len(pipes[u])
    OBVIOUS
  <2>1. PICK i \in DOMAIN b : \E n \in DOMAIN b[i] : p = b[i][n]
    BY <1>11
  <2>2. PICK n \in DOMAIN b[i] : p = b[i][n]
    BY <2>1
  <2>. QED
    BY <1>13, <1>14, <1>15, <2>2
<1>19. \A y \in DOMAIN pipes[u] : Below(Pieces(b), Range(pipes[u][y].data))
  <2>. SUFFICES ASSUME NEW y \in DOMAIN pipes[u], NEW p \in Pieces(b),
                       NEW q \in Range(pipes[u][y].data), p.gen = q.gen
                PROVE  p.n < q.n
    BY DEF Below
  <2>1. PICK i \in DOMAIN b : \E n \in DOMAIN b[i] : p = b[i][n]
    BY <1>11
  <2>2. PICK n \in DOMAIN b[i] : p = b[i][n]
    BY <2>1
  <2>3. q.gen = y
    BY <1>1 DEF Piped
  <2>. QED
    BY <1>15, <2>2, <2>3
<1>20. Taken(u, w)'
  <2>1. recorded'[u] = r
    BY <1>2 DEF r
  <2>. QED
    BY <1>2, <1>12, <1>16, <1>17, <1>18, <1>19, <2>1 DEF Taken, Known
<1>21. DOMAIN Queue(w)' = {}
  BY <1>4
<1>22. \A i \in DOMAIN writer'[w].sources : writer'[w].sources[i].partial = <<>>
  BY <1>3, <1>6, FlushedFacts
<1>23. Grown
  BY PipesStep
<1>24. \A i \in DOMAIN writer'[w].sources : writer'[w].sources[i].unit = u => Begun(u, w, i)'
  BY <1>1, <1>22, <1>23, BegunNew
<1>. QED
  BY <1>20, <1>21, <1>24 DEF Places, Due

\* Every step keeps what was read behind what was written.
LEMMA PlacesStep ==
    ASSUME IInv, [Next]_vars, Types', Linked'
    PROVE  \A u \in Units, w \in Writers : Places(u, w)'
<1>. SUFFICES ASSUME NEW u \in Units, NEW w \in Writers PROVE Places(u, w)'
  OBVIOUS
<1>1. /\ Types /\ Linked /\ Piped /\ Reads(w) /\ \A v \in Units : Places(v, w)
  BY DEF IInv
<1>2. CASE Drain(w)
  <2>1. PICK m \in DOMAIN writer[w].sources : Drains(w, m)
    BY <1>1, <1>2, DrainEffect
  <2>. QED
    BY <1>2, <2>1, PlacesDrainOwn, PlacesDrainOther
<1>3. CASE Accept(w)
  <2>1. writer'[w].pc = "poll" \/ writer'[w].pc = "leave"
    BY <1>1, <1>3, AcceptEffect
  <2>. QED
    BY <1>3, <2>1, PlacesAcceptPoll, PlacesAcceptLeave
<1>4. CASE WriteLine(w)
  <2>1. CASE recorded'[u] = recorded[u]
    BY <1>4, <2>1, PlacesQuiet
  <2>2. CASE recorded'[u] # recorded[u]
    <3>1. /\ writer[w].lines # <<>> /\ writer[w].lines[1].unit = u
          /\ writer'[w].lines = Tail(writer[w].lines)
          /\ recorded'[u] = Append(recorded[u], writer[w].lines[1].line)
      BY <1>1, <1>4, <2>2, WriteLineEffect
    <3>. QED
      BY <1>4, <3>1, WriteLinePlaces
  <2>. QED
    BY <2>1, <2>2
<1>. QED
  BY <1>2, <1>3, <1>4, WriterCases, PlacesElsewhere, PlacesQuiet, PlacesGone

-------------------------------------------------------------------------------
(* The latest start's pipe is in a log writer's hands                        *)

\* PID 1 has a log writer, whose queue had room for the unit's last offer.
Owed(u) == held[u] # 0 /\ shipper # None /\ conns[shipper].client /\ u \notin missed

\* The log writer PID 1 knows has the read end of the unit's latest start.
Copied(u) ==
    \E w \in Writers : \E n \in DOMAIN writer[w].sources :
        /\ writer[w].conn = shipper
        /\ writer[w].sources[n].unit = u
        /\ writer[w].sources[n].gen = held[u]

\* The pipe of the unit's latest start is at its end of file.
Spent(u) == pipes[u][held[u]].data = <<>> /\ ~pipes[u][held[u]].open

\* The three places CopyKept speaks of.
InHand(u) == InQueue(conns[shipper], u, held[u]) \/ Copied(u) \/ Spent(u)

\* CopyKept in these words.
LEMMA CopyKeptIs ==
    CopyKept <=> \A u \in Units : Owed(u) => InHand(u)
<1>1. ASSUME CopyKept, NEW u \in Units, Owed(u) PROVE InHand(u)
  BY <1>1 DEF CopyKept, Owed, InHand, Copied, Spent
<1>2. ASSUME \A u \in Units : Owed(u) => InHand(u) PROVE CopyKept
  BY <1>2 DEF CopyKept, Owed, InHand, Copied, Spent
<1>. QED
  BY <1>1, <1>2

\* The log writer goes on with the same sources.
SameSources(w) ==
    /\ writer'[w].conn = writer[w].conn
    /\ DOMAIN writer'[w].sources = DOMAIN writer[w].sources
    /\ \A n \in DOMAIN writer[w].sources :
          /\ writer'[w].sources[n].unit = writer[w].sources[n].unit
          /\ writer'[w].sources[n].gen = writer[w].sources[n].gen

\* What is in hand stays there when no queue and no source is lost.
LEMMA CopyFrame ==
    ASSUME IInv, Grown, NEW u \in Units,
           held'[u] = held[u], shipper' = shipper,
           Owed(u)' => Owed(u),
           InQueue(conns[shipper], u, held[u]) => InHand(u)',
           Copied(u) => InHand(u)'
    PROVE  Owed(u)' => InHand(u)'
<1>. SUFFICES ASSUME Owed(u)' PROVE InHand(u)'
  OBVIOUS
<1>1. Owed(u) /\ InHand(u)
  BY CopyKeptIs DEF IInv
<1>2. CASE Spent(u)
  <2>1. held[u] \in DOMAIN pipes[u]
    <3>1. /\ held[u] \in Nat /\ pipes[u] \in Seq(PipeEnd)
          /\ held[u] = Len(pipes[u]) /\ held[u] # 0
      BY <1>1 DEF IInv, Types, Offers, Owed
    <3>. QED
      BY <3>1
  <2>. DEFINE g == held[u]
  <2>2. g \in DOMAIN pipes[u] /\ pipes[u][g].data = <<>> /\ ~pipes[u][g].open
    BY <1>2, <2>1 DEF Spent
  <2>. HIDE DEF g
  <2>3. pipes'[u][g].data = <<>> /\ ~pipes'[u][g].open
    BY <2>2 DEF Grown
  <2>4. Spent(u)'
    BY <2>3 DEF Spent, g
  <2>. QED
    BY <2>4 DEF InHand
<1>. QED
  BY <1>1, <1>2 DEF InHand

\* The sources of the log writers stay.
LEMMA CopiedSame ==
    ASSUME NEW u \in Units, held'[u] = held[u], shipper' = shipper,
           \A w \in Writers : SameSources(w) \/ writer[w].sources = <<>>
                                             \/ writer[w].conn # shipper
    PROVE  Copied(u) => Copied(u)'
<1>. SUFFICES ASSUME Copied(u) PROVE Copied(u)'
  OBVIOUS
<1>1. PICK w \in Writers : \E n \in DOMAIN writer[w].sources :
          /\ writer[w].conn = shipper
          /\ writer[w].sources[n].unit = u
          /\ writer[w].sources[n].gen = held[u]
  BY DEF Copied
<1>2. PICK n \in DOMAIN writer[w].sources :
          /\ writer[w].conn = shipper
          /\ writer[w].sources[n].unit = u
          /\ writer[w].sources[n].gen = held[u]
  BY <1>1
<1>3. SameSources(w)
  <2>1. DOMAIN <<>> = {}
    OBVIOUS
  <2>. QED
    BY <1>2, <2>1
<1>4. /\ n \in DOMAIN writer'[w].sources /\ writer'[w].conn = shipper'
      /\ writer'[w].sources[n].unit = u /\ writer'[w].sources[n].gen = held'[u]
  BY <1>2, <1>3 DEF SameSources
<1>. QED
  BY <1>4 DEF Copied

\* A step of PID 1's or a service's that leaves its shipper's queue.
LEMMA CopyStays ==
    ASSUME IInv, Grown, NEW u \in Units,
           held'[u] = held[u], shipper' = shipper, Owed(u)' => Owed(u),
           InQueue(conns[shipper], u, held[u]) => InQueue(conns'[shipper], u, held[u]),
           \A w \in Writers : SameSources(w) \/ writer[w].sources = <<>>
                                             \/ writer[w].conn # shipper
    PROVE  Owed(u)' => InHand(u)'
<1>1. Copied(u) => Copied(u)'
  BY CopiedSame
<1>2. Copied(u) => InHand(u)'
  BY <1>1 DEF InHand
<1>3. InQueue(conns[shipper], u, held[u]) => InQueue(conns[shipper], u, held[u])'
  OBVIOUS
<1>4. InQueue(conns[shipper], u, held[u]) => InHand(u)'
  BY <1>3 DEF InHand
<1>. QED
  BY <1>2, <1>4, CopyFrame

\* A start is offered to the log writer PID 1 knows, if its queue has room.
LEMMA CopyStart ==
    ASSUME IInv, Types', Grown, NEW v \in Units, Start(v), NEW u \in Units
    PROVE  Owed(u)' => InHand(u)'
<1>1. Types /\ Offers
  BY DEF IInv
<1>2. /\ writer' = writer /\ shipper' = shipper
      /\ conns' = (IF shipper = None THEN conns
                   ELSE [conns EXCEPT ![shipper] = Offered(@, v, Len(pipes[v]) + 1)])
      /\ missed' = (IF shipper # None /\ Full(conns[shipper])
                    THEN missed \cup {v} ELSE missed \ {v})
  BY DEF Start
<1>3. /\ held'[v] = Len(pipes[v]) + 1 /\ \A x \in Units \ {v} : held'[x] = held[x]
      /\ \A c \in Conns : conns'[c].client = conns[c].client
  BY <1>1, StartEffect
<1>. SUFFICES ASSUME Owed(u)' PROVE InHand(u)'
  OBVIOUS
<1>4. /\ shipper \in Conns /\ shipper # None /\ conns[shipper] \in Connection
      /\ conns[shipper].client
  BY <1>1, <1>2, <1>3 DEF Types, Owed
<1>5. conns'[shipper] = Offered(conns[shipper], v, held'[v])
  BY <1>1, <1>2, <1>3, <1>4 DEF Types
<1>6. CASE u = v
  <2>1. ~Full(conns[shipper])
    BY <1>2, <1>4, <1>6 DEF Owed
  <2>. DEFINE m == [unit |-> v, gen |-> held'[v]]
              q == conns[shipper].queue
  <2>2. conns'[shipper].queue = Append(q, m) /\ q \in Seq(Message)
    BY <1>4, <1>5, <2>1 DEF Offered, Connection
  <2>. HIDE DEF m, q
  <2>3. Len(q) + 1 \in DOMAIN conns'[shipper].queue /\ conns'[shipper].queue[Len(q) + 1] = m
    BY <2>2
  <2>4. InQueue(conns[shipper], u, held[u])'
    BY <1>2, <1>6, <2>3 DEF InQueue, m
  <2>. QED
    BY <2>4 DEF InHand
<1>7. CASE u # v
  <2>1. held'[u] = held[u] /\ Owed(u)
    BY <1>2, <1>3, <1>4, <1>7 DEF Owed
  <2>2. ASSUME InQueue(conns[shipper], u, held[u])
        PROVE  InQueue(conns'[shipper], u, held[u])
    <3>. DEFINE q == conns[shipper].queue
                m == [unit |-> v, gen |-> held'[v]]
                r == conns'[shipper].queue
    <3>1. q \in Seq(Message) /\ (r = q \/ r = Append(q, m))
      BY <1>4, <1>5 DEF Offered, Connection
    <3>2. PICK i \in DOMAIN q : q[i] = [unit |-> u, gen |-> held[u]]
      BY <2>2 DEF InQueue
    <3>. HIDE DEF q, m, r
    <3>3. i \in DOMAIN r /\ r[i] = q[i]
      BY <3>1
    <3>. QED
      BY <3>2, <3>3 DEF InQueue, r
  <2>3. \A w \in Writers : SameSources(w)
    BY <1>2 DEF SameSources
  <2>4. Owed(u)' => InHand(u)'
    BY <1>2, <2>1, <2>2, <2>3, CopyStays
  <2>. QED
    BY <2>4
<1>. QED
  BY <1>6, <1>7

\* A connection that is accepted is offered everything that runs.
LEMMA CopyOnShipper ==
    ASSUME IInv, Types', Grown, NEW registered \in BOOLEAN, OnShipper(registered), NEW u \in Units
    PROVE  Owed(u)' => InHand(u)'
<1>. DEFINE c == backlog[1]
<1>1. Types /\ Linked
  BY DEF IInv
<1>2. /\ c \in Conns /\ c # shipper /\ Head(backlog) = c /\ conns[c].queue = <<>>
      /\ conns'[c].client = conns[c].client
      /\ \A x \in Conns \ {c} : conns'[x] = conns[x]
  <2>1. backlog # <<>> /\ backlog \in Seq(Conns)
    BY <1>1, OnShipperEffect DEF Types
  <2>. QED
    BY <1>1, <2>1, OnShipperEffect
<1>3. conns \in [Conns -> Connection] /\ conns[c] \in Connection /\ held' = held
      /\ writer' = writer
  BY <1>1, <1>2 DEF Types, OnShipper
<1>. HIDE DEF c
<1>4. CASE Refused
  <2>1. shipper' = shipper /\ missed' = missed /\ shipper # None
    BY <1>2, <1>4 DEF OnShipper, Refused
  <2>2. conns'[shipper] = conns[shipper]
    BY <1>1, <1>2, <2>1 DEF Types
  <2>3. \A w \in Writers : SameSources(w)
    BY <1>3 DEF SameSources
  <2>4. Owed(u)' => Owed(u)
    BY <1>3, <2>1, <2>2 DEF Owed
  <2>. QED
    BY <1>3, <2>1, <2>2, <2>3, <2>4, CopyStays
<1>5. CASE ~Refused
  <2>. SUFFICES ASSUME Owed(u)' PROVE InHand(u)'
    OBVIOUS
  <2>1. PICK order \in SetToSeqs({x \in Units : held[x] # 0}) :
           LET conn == OfferedAll(conns[c], order)
           IN  /\ conns' = [conns EXCEPT ![c] = [conn EXCEPT !.server = registered]]
               /\ shipper' = IF registered THEN c ELSE shipper
               /\ missed' = {x \in Range(order) : Full(conn) /\ ~InQueue(conn, x, held[x])}
    BY <1>2, <1>5 DEF OnShipper
  <2>2. registered /\ shipper' = c
    BY <1>5, <2>1 DEF Refused, Owed
  <2>. DEFINE o == OfferedAll(conns[c], order)
  <2>3. /\ o \in Connection
        /\ conns[c].client => \A x \in Units : held[x] # 0 =>
              x \in Range(order) /\ (Full(o) \/ InQueue(o, x, held[x]))
    BY <1>1, <1>2, <1>3, OfferedAllFacts
  <2>4. conns'[c] = [o EXCEPT !.server = registered] /\ u \notin {x \in Range(order) : Full(o) /\ ~InQueue(o, x, held[x])}
    <3>1. conns' = [conns EXCEPT ![c] = [o EXCEPT !.server = registered]]
          /\ missed' = {x \in Range(order) : Full(o) /\ ~InQueue(o, x, held[x])}
      BY <2>1
    <3>. HIDE DEF o
    <3>. QED
      BY <1>2, <1>3, <3>1 DEF Owed
  <2>. HIDE DEF o
  <2>5. conns'[c].queue = o.queue /\ conns[c].client /\ held[u] # 0
    BY <1>2, <1>3, <2>2, <2>3, <2>4 DEF Owed, Connection
  <2>6. InQueue(o, u, held[u])
    BY <2>3, <2>4, <2>5
  <2>7. InQueue(conns[shipper], u, held[u])'
    BY <1>3, <2>2, <2>5, <2>6 DEF InQueue
  <2>. QED
    BY <2>7 DEF InHand
<1>. QED
  BY <1>4, <1>5

\* What serve retains is every source that is not at its end of file.
LEMMA KeptHas ==
    ASSUME Types, NEW w \in Writers, NEW n \in DOMAIN writer[w].sources, n \notin writer[w].closed
    PROVE  \E i \in DOMAIN Kept(w) : Kept(w)[i] = writer[w].sources[n]
<1>1. PICK f : Selects(w, f)
  BY KeptFacts
<1>. DEFINE S == DOMAIN writer[w].sources \ writer[w].closed
<1>2. \E i \in 1..Cardinality(S) : f[i] = n
  BY <1>1 DEF Selects, Enumerates
<1>. QED
  BY <1>1, <1>2 DEF Selects

\* The socket is read after the sources: a message becomes the last of them.
LEMMA CopyAccept ==
    ASSUME IInv, Types', Grown, [Next]_vars, NEW w \in Writers, Accept(w), NEW u \in Units
    PROVE  Owed(u)' => InHand(u)'
<1>1. Types /\ Linked /\ Reads(w)
  BY DEF IInv
<1>2. /\ Up(w) /\ Others(w) /\ writer'[w].conn = writer[w].conn
      /\ Kept(w) \in Seq(Source)
      /\ \A c \in Conns \ {writer[w].conn} : conns'[c] = conns[c]
      /\ conns'[writer[w].conn].client = conns[writer[w].conn].client
  BY <1>1, AcceptEffect
<1>3. pipes' = pipes /\ held' = held /\ shipper' = shipper /\ missed' = missed
  BY DEF Accept, pid1
<1>4. Queue(w) = conns[writer[w].conn].queue /\ Queue(w) \in Seq(Message)
  BY <1>1, <1>2, UpIsLinked
<1>5. Owed(u)' => Owed(u)
  BY <1>1, <1>2, <1>3 DEF Owed, Types
<1>6. CASE writer[w].conn # shipper
  <2>1. InQueue(conns[shipper], u, held[u]) /\ Owed(u) => InQueue(conns'[shipper], u, held[u])
    BY <1>1, <1>2, <1>6 DEF Owed, Types
  <2>2. \A x \in Writers : SameSources(x) \/ writer[x].conn # shipper
    BY <1>2, <1>6 DEF Others, SameSources
  <2>. SUFFICES ASSUME Owed(u)' PROVE InHand(u)'
    OBVIOUS
  <2>3. Owed(u)' => InHand(u)'
    BY <1>3, <1>5, <2>1, <2>2, CopyStays
  <2>. QED
    BY <2>3
<1>7. CASE writer[w].conn = shipper
  \* Every kept source is among the new ones.
  <2>1. ASSUME NEW i \in DOMAIN Kept(w), Kept(w)[i].unit = u, Kept(w)[i].gen = held[u]
        PROVE  Copied(u)'
    <3>. DEFINE k == Kept(w)
                t == writer'[w].sources
    <3>1. k \in Seq(Source) /\ (t = k \/ t = Flushed(k) \/ \E m \in Source : t = Append(k, m))
      BY <1>1, <1>2, AcceptEffect
    <3>2. i \in DOMAIN k /\ k[i].unit = u /\ k[i].gen = held[u]
      BY <2>1
    <3>. HIDE DEF k, t
    <3>3. i \in DOMAIN t /\ t[i].unit = u /\ t[i].gen = held[u]
      <4>1. CASE t = Flushed(k)
        BY <3>1, <3>2, <4>1, FlushedFacts
      <4>2. CASE t = k
        BY <3>2, <4>2
      <4>3. CASE \E m \in Source : t = Append(k, m)
        <5>1. PICK m \in Source : t = Append(k, m)
          BY <4>3
        <5>2. i \in DOMAIN t /\ t[i] = k[i]
          BY <3>1, <3>2, <5>1
        <5>. QED
          BY <3>2, <5>2
      <4>. QED
        BY <3>1, <4>1, <4>2, <4>3
    <3>. QED
      BY <1>2, <1>3, <1>7, <3>3 DEF Copied, t
  <2>2. ASSUME Copied(u) PROVE InHand(u)'
    <3>1. PICK x \in Writers : \E n \in DOMAIN writer[x].sources :
              /\ writer[x].conn = shipper
              /\ writer[x].sources[n].unit = u
              /\ writer[x].sources[n].gen = held[u]
      BY <2>2 DEF Copied
    <3>2. PICK n \in DOMAIN writer[x].sources :
              /\ writer[x].conn = shipper
              /\ writer[x].sources[n].unit = u
              /\ writer[x].sources[n].gen = held[u]
      BY <3>1
    <3>3. CASE x # w
      <4>1. writer'[x] = writer[x]
        BY <1>2, <3>3 DEF Others
      <4>2. Copied(u)'
        BY <1>3, <3>2, <4>1 DEF Copied
      <4>. QED
        BY <4>2 DEF InHand
    <3>4. CASE x = w /\ n \notin writer[w].closed
      <4>1. PICK i \in DOMAIN Kept(w) : Kept(w)[i] = writer[w].sources[n]
        BY <1>1, <3>2, <3>4, KeptHas
      <4>2. Copied(u)'
        BY <2>1, <3>2, <3>4, <4>1
      <4>. QED
        BY <4>2 DEF InHand
    <3>5. CASE x = w /\ n \in writer[w].closed
      <4>1. /\ Pipe(writer[w].sources[n]).data = <<>>
            /\ ~Pipe(writer[w].sources[n]).open
        BY <1>1, <3>2, <3>5 DEF Reads
      <4>2. Spent(u)'
        BY <1>3, <3>2, <3>5, <4>1 DEF Spent, Pipe
      <4>. QED
        BY <4>2 DEF InHand
    <3>. QED
      BY <3>3, <3>4, <3>5
  <2>3. ASSUME InQueue(conns[shipper], u, held[u]) PROVE InHand(u)'
    <3>. DEFINE q == conns[shipper].queue
    <3>1. PICK i \in DOMAIN q : q[i] = [unit |-> u, gen |-> held[u]]
      BY <2>3 DEF InQueue
    <3>2. q = Queue(w) /\ q \in Seq(Message)
      BY <1>4, <1>7
    <3>. HIDE DEF q
    <3>3. CASE conns' = conns
      <4>1. InQueue(conns[shipper], u, held[u])'
        BY <1>3, <2>3, <3>3
      <4>. QED
        BY <4>1 DEF InHand
    <3>4. CASE conns' # conns
      <4>1. /\ q # <<>> /\ writer'[w].sources = Append(Kept(w), Received(Head(q)))
            /\ Received(Head(q)) \in Source /\ conns'[writer[w].conn].queue = Tail(q)
        BY <1>1, <3>2, <3>4, AcceptEffect
      <4>2. CASE i = 1
        <5>1. Head(q) = [unit |-> u, gen |-> held[u]]
          BY <3>1, <3>2, <4>1, <4>2
        <5>. DEFINE t == writer'[w].sources
                    s == Received(Head(q))
                    k == Kept(w)
        <5>2. s.unit = u /\ s.gen = held[u]
          BY <5>1 DEF Received
        <5>3. t = Append(k, s) /\ k \in Seq(Source) /\ s \in Source
          BY <1>2, <4>1
        <5>. HIDE DEF s, t, k
        <5>4. Len(k) + 1 \in DOMAIN t /\ t[Len(k) + 1] = s
          BY <5>3
        <5>5. Copied(u)'
          BY <1>2, <1>3, <1>7, <5>2, <5>4 DEF Copied, t
        <5>. QED
          BY <5>5 DEF InHand
      <4>3. CASE i # 1
        <5>1. i - 1 \in DOMAIN Tail(q) /\ Tail(q)[i - 1] = q[i]
          <6>1. i \in DOMAIN q /\ q \in Seq(Message) /\ q # <<>> /\ i # 1
            BY <3>1, <3>2, <4>1, <4>3
          <6>. QED
            BY <6>1
        <5>2. InQueue(conns[shipper], u, held[u])'
          BY <1>3, <1>7, <3>1, <4>1, <5>1 DEF InQueue
        <5>. QED
          BY <5>2 DEF InHand
      <4>. QED
        BY <4>2, <4>3
    <3>. QED
      BY <3>3, <3>4
  <2>. QED
    BY <1>3, <1>5, <2>2, <2>3, CopyFrame
<1>. QED
  BY <1>6, <1>7

\* A log writer that ends takes its own connection with it, and no other.
LEMMA CopyEnded ==
    ASSUME IInv, Types', Grown, NEW w \in Writers, Up(w), Ended(w),
           held' = held, shipper' = shipper, missed' = missed, NEW u \in Units
    PROVE  Owed(u)' => InHand(u)'
<1>1. Types /\ Linked
  BY DEF IInv
<1>2. /\ Others(w) /\ conns'[writer[w].conn].client = FALSE
      /\ \A c \in Conns \ {writer[w].conn} : conns'[c] = conns[c]
  BY <1>1, EndedEffect
<1>. SUFFICES ASSUME Owed(u)' PROVE InHand(u)'
  OBVIOUS
<1>3. writer[w].conn # shipper /\ shipper \in Conns /\ conns'[shipper] = conns[shipper]
  BY <1>1, <1>2 DEF Owed, Types
<1>4. \A x \in Writers : SameSources(x) \/ writer[x].conn # shipper
  BY <1>2, <1>3 DEF Others, SameSources
<1>5. Owed(u)' => Owed(u)
  BY <1>3 DEF Owed
<1>6. Owed(u)' => InHand(u)'
  BY <1>3, <1>4, <1>5, CopyStays
<1>. QED
  BY <1>6

\* Nothing else takes a copy away.
LEMMA CopyStep ==
    ASSUME IInv, [Next]_vars, Types'
    PROVE  CopyKept'
<1>0. Types /\ Linked /\ Piped /\ Grown /\ (\A w \in Writers : Reads(w))
      /\ \A u \in Units, w \in Writers : Places(u, w)
  BY PipesStep DEF IInv
<1>. DEFINE Goal == \A u \in Units : Owed(u)' => InHand(u)'
            Quiet == /\ held' = held /\ shipper' = shipper /\ missed' = missed
                     /\ \A u \in Units : InQueue(conns[shipper], u, held[u]) =>
                                            InQueue(conns'[shipper], u, held[u])
                     /\ shipper # None => conns'[shipper].client = conns[shipper].client
                     /\ \A w \in Writers : SameSources(w) \/ writer[w].sources = <<>>
<1>1. Quiet => Goal
  <2>. SUFFICES ASSUME Quiet, NEW u \in Units PROVE Owed(u)' => InHand(u)'
    OBVIOUS
  <2>1. Owed(u)' => Owed(u)
    BY DEF Owed
  <2>. QED
    BY <1>0, <2>1, CopyStays
<1>2. writer' = writer => \A w \in Writers : SameSources(w)
  BY DEF SameSources
<1>3. ASSUME NEW w \in Writers, Others(w), SameSources(w) PROVE \A x \in Writers : SameSources(x)
  BY <1>3 DEF Others, SameSources
<1>. DEFINE Still == /\ held' = held /\ shipper' = shipper /\ missed' = missed
                     /\ conns' = conns /\ writer' = writer
<1>16. Still => Goal
  <2>1. Still => Quiet
    BY <1>2
  <2>. HIDE DEF Still, Quiet, Goal
  <2>. QED
    BY <1>1, <2>1
<1>4. ASSUME NEW v \in Units, Start(v) PROVE Goal
  BY <1>0, <1>4, CopyStart
<1>5. ASSUME NEW v \in Units, NEW g \in DOMAIN pipes[v], Write(v, g) \/ Exit(v, g) PROVE Goal
  <2>1. Still
    BY <1>5 DEF Write, Exit, pid1
  <2>. HIDE DEF Still, Quiet, Goal
  <2>. QED
    BY <1>16, <2>1
<1>6. ASSUME NEW registered \in BOOLEAN, OnShipper(registered) PROVE Goal
  BY <1>0, <1>6, CopyOnShipper
<1>7. ASSUME OnShipperGone PROVE Goal
  <2>1. \A u \in Units : ~Owed(u)'
    BY <1>0, <1>7, OnShipperGoneEffect DEF Owed
  <2>. QED
    BY <2>1
<1>8. ASSUME NEW w \in Writers, Connect(w) PROVE Goal
  <2>1. PICK c \in Conns :
            /\ conns[c] = Free /\ writer[w] = Down /\ Others(w)
            /\ \A d \in Conns \ {c} : conns'[d] = conns[d]
    BY <1>0, <1>8, ConnectEffect
  <2>2. held' = held /\ shipper' = shipper /\ missed' = missed
    BY <1>8 DEF Connect
  <2>7. shipper # None => conns[shipper].server /\ shipper \in Conns
    BY <1>0 DEF Linked, Types
  <2>8. ~Free.server
    BY DEF Free
  <2>3. shipper # None => shipper # c /\ conns'[shipper] = conns[shipper]
    BY <2>1, <2>7, <2>8
  <2>4. \A x \in Writers : SameSources(x) \/ writer[x].sources = <<>>
    BY <2>1, DownIsIdle DEF Others, SameSources
  <2>. SUFFICES ASSUME NEW u \in Units, Owed(u)' PROVE InHand(u)'
    OBVIOUS
  <2>5. shipper # None /\ conns'[shipper] = conns[shipper] /\ Owed(u)
    BY <2>2, <2>3 DEF Owed
  <2>6. Owed(u)' => InHand(u)'
    BY <1>0, <2>2, <2>4, <2>5, CopyStays
  <2>. QED
    BY <2>6
<1>9. ASSUME NEW w \in Writers, Poll(w) \/ WriteLine(w) \/ Rotate(w) \/ RecordRefused(w) PROVE Goal
  <2>1. held' = held /\ shipper' = shipper /\ missed' = missed /\ conns' = conns
    BY <1>9 DEF Poll, WriteLine, Rotate, RecordRefused, pid1
  <2>2. Others(w) /\ SameSources(w)
    <3>1. CASE Poll(w)
      BY <1>0, <3>1, PollEffect DEF SameSources
    <3>2. CASE WriteLine(w)
      BY <1>0, <3>2, WriteLineEffect DEF SameSources
    <3>3. CASE Rotate(w)
      BY <1>0, <3>3, RotateEffect DEF SameSources
    <3>4. CASE RecordRefused(w)
      BY <1>0, <3>4, RecordRefusedEffect DEF SameSources
    <3>. QED
      BY <1>9, <3>1, <3>2, <3>3, <3>4
  <2>. QED
    BY <1>1, <1>3, <2>1, <2>2
<1>10. ASSUME NEW w \in Writers, Drain(w) PROVE Goal
  <2>1. held' = held /\ shipper' = shipper /\ missed' = missed /\ conns' = conns
    BY <1>10 DEF Drain, pid1
  <2>2. PICK n \in DOMAIN writer[w].sources : Drains(w, n)
    BY <1>0, <1>10, DrainEffect
  <2>3. Others(w) /\ writer'[w].conn = writer[w].conn
        /\ writer'[w].sources = [writer[w].sources EXCEPT
                                    ![n].partial = Drained(writer[w].sources[n]).partial]
    BY <2>2 DEF Drains
  <2>4. SameSources(w)
    <3>. DEFINE s == writer[w].sources
                p == Drained(s[n]).partial
    <3>1. s \in Seq(Source) /\ writer'[w].sources = [s EXCEPT ![n].partial = p]
      BY <1>0, <2>3 DEF Types, Process
    <3>. HIDE DEF s, p
    <3>2. /\ DOMAIN writer'[w].sources = DOMAIN s
          /\ \A m \in DOMAIN s : /\ writer'[w].sources[m].unit = s[m].unit
                                 /\ writer'[w].sources[m].gen = s[m].gen
      BY <3>1 DEF Source
    <3>. QED
      BY <2>3, <3>2 DEF SameSources, s
  <2>. QED
    BY <1>1, <1>3, <2>1, <2>3, <2>4
<1>11. ASSUME NEW w \in Writers, Accept(w) PROVE Goal
  BY <1>0, <1>11, CopyAccept
<1>12. ASSUME NEW w \in Writers, Leave(w) \/ Crash(w) PROVE Goal
  <2>1. held' = held /\ shipper' = shipper /\ missed' = missed /\ Ended(w) /\ Up(w)
    BY <1>12 DEF Leave, Crash, pid1, Up
  <2>. QED
    BY <1>0, <2>1, CopyEnded
<1>13. ASSUME UNCHANGED vars PROVE Goal
  <2>1. Still
    BY <1>13 DEF vars
  <2>. HIDE DEF Still, Quiet, Goal
  <2>. QED
    BY <1>16, <2>1
<1>. HIDE DEF Still, Quiet, Goal
<1>14. Goal
  BY <1>4, <1>5, <1>6, <1>7, <1>8, <1>9, <1>10, <1>11, <1>12, <1>13 DEF Next, WriterStep
<1>15. (\A u \in Units : Owed(u) => InHand(u))'
  BY <1>14 DEF Goal
<1>. QED
  BY <1>15, CopyKeptIs, PTL
=============================================================================

# oxinit in TLA+

Specifications of [oxinit](../src/README.md), a service manager and PID 1, kept
beside its source. They are written from the Rust code (`src/crates/`), module by
module, checked with TLC on small instances and, where a result should hold for
every set of units, proved with TLAPS.

## The system

oxinit is one thread in one process. It sleeps in `epoll_wait`, hands each ready
source to its handler, then drains the start queue, reconciles which sockets are
watched, feeds the hardware watchdog and asks whether a shutdown is over
(`main.rs`, `run`). There are no locks; everything hard comes from the order in
which the world reports things: a process's exit and its cgroup emptying, a
deadline and the event it was meant to bound, a client's request in between.

| Component | State it keeps | Operations | Talks to |
|---|---|---|---|
| Supervisor `oxinit/supervisor.rs` | `instances`, `order`, `pending` (start queue), `pending_restart`, `next_elapse`, `shutdown` | load, pump, start, stop, on_sigchld, on_cgroup, on_notify, on_timer, on_socket, handle (requests), reload, begin_shutdown, settled | all below |
| Unit state machine `oxinit-service/lib.rs` | state, child handle, stop cause, killed, reached, backoff | the `entered_*`, `on_exit`, `deactivated`, `cancel_restart` transitions | called by the supervisor |
| Event loop `oxinit/main.rs`, `event.rs` | epoll set, batch of up to 32 sources | register, wait, dispatch | calls every handler |
| Dependency graph `oxinit-graph` | none (a function at load) | reachable, conflict and socket checks, Kahn's order, cycle report | gives the queue its order |
| Deadlines `oxinit/timer.rs` | two heaps, two timerfds | schedule, expired, wall_expired | calls back by alarm kind |
| Schedules `oxinit-timer` | none | next moment of an interval or calendar entry | timer units |
| Shutdown `oxinit/shutdown.rs` | action, start | overdue, remaining, finalize | settled |
| Hardware watchdog `oxinit-watchdog`, `oxinit/watchdog.rs` | boot state, last pet, last try, device | tick, next_wake, open, release | once per turn |
| Sockets `oxinit/listen.rs` | bound descriptors, armed or not | bind, for_service | activation |
| Notify `oxinit/notify.rs` | datagram socket | drain | READY=1, WATCHDOG=1 |
| Cgroups `oxinit/cgroup.rs`, `oxinit-cgroup` | one cgroup per service | add, populated, kill, apply limits | stop, on_cgroup |
| Control `oxinit/control.rs`, `oxinit-ipc` | client slots | accept, recv, reply, close | handle |
| Log shipping `oxinit/logs.rs`, `oxlogd`, `oxinit-log` | held pipe ends, the one shipper; files | pipe, accept, disconnect; split, record, rotate | start |
| Reaper `oxinit/reap.rs` | none | reap what is not a unit | on_sigchld |
| Unit files `oxinit-unit` | none | parse, validate, load directories | load, reload |
| Early boot, user managers, container detection, `oxctl`, probes, `xtask` | — | straight-line I/O and tools | — |

What makes each part right, and what is hard about it:

- **Supervisor.** A unit never gets stuck: whatever state it is in, something is
  coming that will move it. A stop ends, once, and wins over the restart policy. A
  shutdown only ever goes down, and ends. One main process per unit. Units that
  exclude each other are never both up. A queue that always drains. Hard because an
  exit, a cgroup event, an alarm that nobody cancelled and a request may come in any
  order and in one batch, and because a main process may leave its cgroup.
- **State machine.** Its edges are the supervisor's; the policy is a table. The
  backoff doubles, is capped, and is reset by a long enough run.
- **Graph.** A plan holds exactly what is wanted, in an order that respects every
  edge; a refusal is justified and explained.
- **Deadlines.** No due alarm is lost, none fires early, no zero disarms the clock,
  and a schedule that repeats goes on for ever. Hard because scheduling rearms a
  timerfd that may have fired, and because the wall clock may be set at any point,
  between the read of a timerfd and its rearming included.
- **Hardware watchdog.** Fed often enough for as long as it should be, never once
  the boot is overdue, left in the right state by each kind of shutdown. Hard because
  the loop sleeps until the moment the policy names, and both must agree.
- **Log shipping.** A restart of the shipper loses no line of a running service, a
  death of it at most what it held, and a start that replaces another at most what
  nobody had the means to read. Hard because there are two processes, a pipe per start
  that services may outlive, and a rotation that is several renames.
- **Control and reload.** Slots are bounded and come back; a request is handled at most
  once; a reload changes nothing that runs. Hard because a reload replaces units a
  boot in progress is still working through.

## Modules

| Module | Models | Built on |
|---|---|---|
| `Instance` | one unit's record and the pure transitions on it | — |
| `Supervisor` | `supervisor.rs` under the loop of `main.rs`, with processes, the kernel, clients and time | `Instance` |
| `MCSupBoot`, `MCSupControl`, `MCSupLive`, `MCSupOne`, `MCSupSecond` | unit sets for TLC | `Supervisor` |
| `Graph` | `oxinit-graph`: `resolve_from` | — |
| `MCGraph` | unit sets for TLC | `Graph` |
| `AlarmClock` | what deadlines promise, with no timerfd, heap or loop | — |
| `Calendar` | `oxinit-timer`: calendar entries and schedules | — |
| `Deadlines` | `timer.rs`, and the supervisor's `arm`, `timer_elapsed`, `on_timer`, `on_wall_timer` | `Calendar`, refines `AlarmClock` |
| `Watchdog` | `oxinit-watchdog`: settings and `Policy`, as operators | — |
| `MainLoop` | `run` against the clock, `oxinit/watchdog.rs`, `shutdown.rs` | `Deadlines`, `Watchdog` |
| `MCMainLoop` | two small machines for TLC | `MainLoop` |
| `LogFiles` | `oxinit-log`: splitter, record sizes, rotation plan | — |
| `LogShipping` | `logs.rs` and `oxlogd`, services, crashes | `LogFiles` |
| `MCLogShipping` | one service for TLC | `LogShipping` |
| `UnitFiles` | `oxinit-unit`: which files are units, and which file of a name is in effect | — |
| `ControlPlane` | `control.rs`, `handle`, `reload`, the queue they meet, `oxctl` as a peer | `UnitFiles` |
| `MCControlPlane` | a boot, an operator and three peers for TLC | `ControlPlane` |
| `Foundations` | lemmas: least members, induction over numbers, functions that recur, flattened sequences | — |
| `SupervisorProofs` | theorems: types, shutdown and conflicts; what backs a unit; what a stop means | `Supervisor` |
| `GraphProofs` | theorems: plans, refusals, the cycle walk | `Graph`, `Foundations` |
| `LoopProofs` | theorems: the loop's bounds and the watchdog; the deadlines under the loop | `MainLoop` |
| `ControlProofs` | theorems: connections, the queue, reload | `ControlPlane`, `Foundations` |
| `LogLemmas` | lemmas: the operators over lines, queues, sources and files; what each action changes; the parts of the invariant | `LogShipping`, `Foundations` |
| `LogOrder` | the invariant; lemmas: who holds what, and in which order | `LogLemmas` |
| `LogProofs` | lemmas: counts and files; theorems: order, loss, files, types | `LogOrder` |

### Instance and Supervisor

A unit is one record. Five of its fields are the `Instance` struct; four hold what
the rest of the system has about the same unit, so that a handler is a function
from records to records: `others` (live processes no handle names), `alarms` (how
many deadlines of each kind are in the heap), `ready` (a READY=1 in the notify
socket), `emptied` (the cgroup emptied and its event was not read). `child` merges
the `Option<Child>` with what the process does: alive in its cgroup, alive outside
of it, or exited this way and not reaped.

| Variable | In the code |
|---|---|
| `inst` | `Supervisor.instances`, `Timers.heap`, and the processes |
| `pending`, `pendingRestart`, `shutdown` | the fields of that name |
| `overdue` | `Shutdown::overdue` |
| `conn`, `armed` | the accept queue of a socket unit; `Bound.armed` |
| `pc` | `wait` (epoll_wait), `dispatch` (the batch), `pump`, `down` (`finalize`) |
| `moves` | how much of the bound `MaxMoves` was used |

Each action is a whole handler with everything it calls. `OnSigchld`, for instance,
is the reaping of one child with the forking case, `on_exit`, the scheduling or
cancelling of the restart, and, when the stop is over, `finish_deactivation` with
the start of a pending restart, which itself stops what the unit conflicts with.
`start` and `stop` are functions on all records (`Started`, `StopUnit`) because
both are called from many handlers, and `start` calls `stop`.

Abstractions, each an over-approximation unless it says otherwise:

- *The batch.* A turn is any handlers that have something to handle, in any order,
  then the pump. What was not in the batch is handled in a later turn. An item that
  became ready during the dispatch may be handled in the same turn, which the code
  would leave to the next.
- *Time.* An alarm may fire any time after it was armed. Alarms are counted 0, 1,
  2-or-more per unit and kind, and none is ever cancelled, as in the code. Whether a
  watchdog ping is too old is a free choice.
- *Starts.* Limits, the log pipe, duplication of sockets and exec are one outcome:
  the start works or fails (`MayFail`). For a timer: whether its schedule has a next
  moment.
- *Left out, because they change no modelled state:* refused requests, a second
  shutdown signal, `status` and `report`, console text, STATUS= messages.
- *Not modelled (an under-approximation):* `timers.schedule` failing, a handler that
  panics (caught per source), reuse of a PID, a socket item whose connection was
  accepted by somebody within the same batch. Reload is in `ControlPlane`.
- *Backoff, last_ping* decide how long a wait is, never what comes next.

### Graph

`resolve_from` as a small machine: `reach`, `check`, `sort`, `trace`, one step per
turn of each loop. Names are numbers, their rank in byte order, because a `BTreeMap`
iterates in that order and the cycle walk depends on it. Queues are sets, so TLC
covers every tie-break, of which the code takes one.

### Deadlines, AlarmClock and Calendar

`Deadlines` has the two heaps as sets of entries and the two timerfds as the kernel
keeps them: armed for which moment, readable or not, and for the realtime one
whether it wants to be told of a clock that is set and whether one was. `Armed` and
`WallArmed` are `arm` and `arm_wall`, with the nudge of a due deadline, the disarming
of an empty heap and the `ECANCELED` that a rearming may get. `wall_expired` is two
steps (`OnWallTimer` reads, `WallPop` pops and rearms), because the clock can be set
in between. A timer unit's alarms carry the start they descend from (`chain`).

`AlarmClock` is the abstract specification: a set of alarms that go off at or after
their moment, once. `Deadlines!PromiseKept` says the code's data structures
implement it, under the mapping that forgets heaps and timerfds. The abstract module
has one action, `Lose`, for what the code really does when the clock is set between
read and rearming: the alarms that were already popped are dropped with the error.

`Calendar` has `next_at` and the choice between a delay and a moment as operators;
`Names` says what the words mean without arithmetic on the answer, and the run
compares the two. An hour and a day are constants, so that a few ticks hold several.

### Watchdog and MainLoop

`Watchdog` translates `Settings` and `Policy` operator by operator. `MainLoop` is the
loop around them: `Wake` returns when a source is readable or the timeout (the least
of `next_wake` and the shutdown's bound) has passed; the handlers run; `EndTurn` tells
the policy of a shutdown and of the boot unit, asks `tick`, does it to the device and
looks whether the shutdown is over. The device is a countdown that resets the
machine at zero. Handlers take up to `Slack` ticks a turn together, or one hangs for
ever. What units do is reduced to two events: the boot unit came up, the last unit
stopped. Two ticks are a second, so that half of a timeout is a whole number.

### LogFiles and LogShipping

Output is a sequence of pieces, each with its place in what its unit wrote. PID 1's
handlers (`Start`, `OnShipper`, `OnShipperGone`) are whole, since one thread runs
them. `oxlogd` is cut at every system call: `Poll`, one `Drain` per source, `Accept`
of one message, `WriteLine`, and `Rotate` for each rename. `Crash` may fall between
any two. Its supervised instance connects again only after PID 1 has seen the hangup
of the last (a process closes its socket before its SIGCHLD is sent); a second one run
by hand may connect at any time.

A start looks at nothing that runs: `Start` replaces the read end PID 1 holds, beside
whatever still has the write end of an earlier start (a daemon's children, or the second
process of runs `start` and `second`), which goes on with `Write(u, gen)` and
`Exit(u, gen)`. Who has a read end is `HasReader`: PID 1, a queue, a log writer. When
the last is closed, by a replacement (`Start`) or the end of a log writer (`Ended`), the
kernel destroys what is in the pipe and the writer gets SIGPIPE (`Swept`, `Destroyed`);
`lost` counts what went. Output is kept as lines, sequences of pieces, in the
files, among those to be recorded and as the partial line of a source; `Trail` puts
them behind one another and `InOrder` compares any two places of it. At most one
thing out of the ordinary happens in a behaviour (`odd`): that second writer, a registration epoll refuses, or a record that
cannot be written; a crash comes on top.

### UnitFiles and ControlPlane

A unit file is a record of what its validation tells apart. `Checks` are `parse_in`'s
in their order, and the first of those `Failing` gives the error; `LoadedUnits` and
`LoadErrors` are `load_dirs_in`. `ControlPlane`
puts a disk that an operator edits, a boot that is draining its queue, and peers on
the control socket around `reload`. A unit has its state and its definition; what
processes and alarms do to it is `Turn`, by chance. `Wake` takes what is ready,
`OnConnect` and `OnRequest` handle one event (a peer over the limit is `refused`, with
what it sent unread), `PumpOne` starts or fails one queued
unit. Peers act while the loop sleeps: a handler takes only what was there when
`epoll_wait` returned, so what a peer does in the middle of a turn is as if it had
done it just before or after. Requests are stated as what they do; the text
of the reply is not modelled, that one is sent and the connection closed is. The
queue `Supervisor.pending` begins as a copy of `Supervisor.order` and only loses
members, so it is the set of those still queued, gone through in the order of
`order`; clients are looked up by number or by peer, never by place, so they are a
set as well. Numbers (`nextId`) are unbounded where the code wraps a `u32`: what is
shown of them holds for the first 2^32 connections, after which a client that has been
open all that time could share its number with a new one.

## Runs

| Run | Bound | Shows |
|---|---|---|
| `boot` | 4 units, 3 moves, about 640 k states | `TypeOK`, `NeverStranded`, `WatchdogCovered`, `GoingDown` across a boot with a slow watched database, a service that requires it, a timer that starts the same service, which has no cgroup |
| `control` | 3 units, 4 moves, about 600 k states | `NeverStranded`, `Exclusive`, `Tracking`, `OneProcess`, `RestartPending`, `StopOverridesPolicy` with stops, restarts, connections and a conflict |
| `live` | 3 units, 2 moves, 121 k states | `ShutdownEnds`, `BootDrains`, `StopEnds`, `RestartHonoured`, `ConnectionActivates`, with a service that may survive SIGKILL and a socket-activated one whose stops end with its exit, its cgroup or its stop-sec |
| `loop` | two machines, 6 ticks, one clock set, 1.1 M states | the deadlines and the loop: `Covered`, `OneAlarmPerStart`, `PromiseKept` (refinement), `FirstNamed`; the watchdog and the shutdown: `NoUnwantedReset`, `StarvedForGood`, `NeverPunished`, `NoSpin`, `ShutdownBounded` |
| `logs` | one service, two starts that may overlap, 6 pieces of output, one crash, one oddity, 244 k states | `LossBounded`, `CopyKept`, `StartsInOrder`, `FilesKept`, `Shipped` |
| `units` | 3 units, 2 directories, 3 peers for 2 slots, one edit, one unit that moves, 570 k states | `Accounted`, `StrandedOnlyByReload`, `ReloadApplied`, `Answered` |
| `graph` | 3 names, every `after` relation, 97 k unit sets | `OrderSound`, `PlanIsWhatIsWanted`, `RefusedOnlyIfCyclic`, `WalkEnds` |
| `requires`, `stop`, `start`, `second`, `graph_cycle` | 1 to 3 units | a disagreement of the code with its documentation, see below |

*Why the bounds are enough to matter.* `MaxMoves` counts what the world does of its
own accord: requests, connections, and voluntary exits, forks, messages and moves of
processes. Kills, alarms, reaping, cgroup events, the pump and the shutdown are not
counted. Three moves are a start, a READY=1 and a crash, on top of any deadline and
a shutdown at any point; four are a stop, a restart, a connection and a daemon's
exit. Every kind of unit and every handler occurs: services of all four types,
sockets, timers and a target; services with and without a cgroup; every restart
policy; one-sided conflicts. In `graph`, three units are the smallest with a cycle,
a unit downstream of it and one upstream.

In `loop`, one machine has two timer units, of which one is on both clocks, and an
alarm that is due at once; the other has a watchdog whose settings come from every
layering of the files and the command line, a device that may be late, hide or round
its timeout, or have been left running. Six ticks are a timeout of four, a boot
deadline of three and a shutdown of two in every overlap, and a day and a half of the
calendar's, across the start of a week. In `logs`, the six pieces are short and
unterminated lines, one of them over the line limit, enough to rotate past two
earlier files, more than one read and more than a pipe hold; a process of the first
start may write beside the second until four were written, which is a pipe left behind
with something in it and output in both. In `units`, the one edit
is any of: an ordering the boot did not have, a mistake in a file that overrides
another, a unit the boot had not heard of, a file that is gone; of three peers one
says nothing and holds a slot, one reloads, one asks for a start, a stop, a restart
or sends too much.

`OneProcess` is checked in `control` without a queued unit that something else
starts and without start requests: the two ways in which the code does not keep it
are the runs `start` and `second`.

`CHECK_DEADLOCK FALSE` everywhere: the machine is down, or asleep with nothing left
in the bound to wake it; the resolver has returned.

What the properties of the newer runs exclude is what the code does not give:
`OneAlarmPerStart` counts an alarm that a clock set dropped as lost; `NoUnwantedReset`
exempts a machine that syncs or unmounts longer than its watchdog's timeout;
`StartsInOrder` exempts a unit once it was started with more than one read left in an
earlier pipe, or beside a process that writes to one; `LossBounded` allows a start that
was replaced to lose a pipe full, and `CopyKept` says when it loses nothing;
`Shipped` exempts a pipe whose offer met a full queue, and is content with one
that was destroyed; `Answered` exempts peers that were refused;
`StrandedOnlyByReload` says nothing of a queue a reload stranded; `FilesKept` allows a gap after a crash in the middle of a rotation.

### Fairness

`FairSpec` asks for weak fairness only. Of the loop (`PumpOne \/ EndTurn`): a turn
that began ends; handlers return. Of each handler of an exit, a cgroup event, an
alarm or a connection: epoll sources here are level-triggered and a due alarm stays
due, so what stays ready is handled in some turn. The pump, during which no handler
is enabled, runs at most once per queued unit, so handlers stay enabled for good
once it has ended and weak fairness suffices. Of `DeadlinePasses`: time. Of SIGKILL
reaching a process that is not stuck in the kernel (`Stuck` names those that may
be). Nothing is owed by clients, signals, or processes left to themselves: a service
may never send READY=1, never exit, and never accept.

`LogShipping` asks for weak fairness of PID 1's handlers of the shipper, of the steps
of a log writer that runs, and of `Connect(Oxlogd)`, since the unit is restarted
always; nothing of services or of the second writer. `ControlPlane` asks for weak
fairness of the loop as one action: a single thread that goes on, with an `epoll_wait`
that returns every ready source (its batch of 32 holds them all). Nothing is owed by
peers, units or the operator. `MainLoop` has no liveness property: what must happen
in time is stated as bounds on the clock.

### Where the code and its documentation disagree

- `requires`: a service ordered after its requirement starts when that requirement
  has timed out and is still being stopped (`docs/UNIT_FORMAT.md:246`).
- `stop`: a stop during an `oxctl restart` is accepted and then undone
  (`docs/UNIT_FORMAT.md:319`).
- `start`: `oxctl start` of a unit that is up forks a second process
  (`supervisor.rs:1567`).
- `second`: a connection starts a service that is still queued; the queue starts it
  again (`main.rs:269`).
- Seen in the `units` run, stated there as what the code does keep
  (`StrandedOnlyByReload`): a unit that is queued when its file is deleted and the
  directories are reloaded stays in the start queue and is never startable; what is
  ordered after it waits for good, though `supervisor.rs:287` says of a queued
  dependency "it is going to start, so wait for it".
- Seen in the `logs` run (`LossBounded`, `CopyKept`): the comment in `Logs::pipe` says
  that the shipper "already has its own copy of" the read end a start replaces "and
  will drain to EOF" (`logs.rs:195`). It has one only if it was connected and its queue
  had room at the last offer. Otherwise the replacement closes the last read end: up to
  a pipe full (1 MiB) of what the earlier start wrote is destroyed without a trace, and
  a process of it that still runs gets SIGPIPE. Nor does keeping read ends make
  sure that "a reconnecting `oxlogd` is handed every descriptor again" (`logs.rs:13`):
  it is handed those of the latest starts.
- Seen in the `logs` run (`StartsInOrder`): draining sources before the socket does not
  always keep a start's output "ahead of whatever start oxinit is about to announce"
  (`oxlogd/src/main.rs:206`): one read per source and turn does not drain a source, and
  a process of an earlier start that still writes is read along with the next.
  And `drain_all` writes partial lines, not pipes.
- Seen in the `units` run, whose third peer meets two taken slots (`Answered` exempts
  it): the comment on `BACKLOG` says that a connection over `MAX_CLIENTS` waits in the
  backlog, as "refusing it outright would make `oxctl` fail rather than wait"
  (`control.rs:38`). `accept` takes it out of the backlog and closes it, with its
  request unread, as its own comment says (`control.rs:94`), and `oxctl` fails.
- Seen in the `loop` run (`AlarmClock!Lose`): a clock set between the read and the
  rearming in `wall_expired` drops popped alarms, and with them a timer unit's chain,
  though the comment of that function says nothing else needs doing.
- `graph_cycle`: the reported "cycle path" may be a path that is no cycle
  (`oxinit-graph/src/lib.rs:292`, `docs/UNIT_FORMAT.md:250`).

## Proofs

| Theorem | Says |
|---|---|
| `SupervisorProofs!TypeCorrect` | `Spec => []TypeOK` |
| `SupervisorProofs!NothingComesUpGoingDown` | `Spec => []GoingDown`: once a shutdown began, no unit is up, starting or waiting to restart |
| `SupervisorProofs!ConflictsExclude` | `Spec => []Exclusive`: of two units of which one declares a conflict with the other, at most one is up or coming up |
| `GraphProofs!PlanRespectsOrder` | `Spec => []OrderSound`: nothing is planned ahead of what precedes it |
| `GraphProofs!PlanComplete` | `Spec => []PlanIsWhatIsWanted`: a plan is the least closed set that holds the root, each unit once |
| `LoopProofs!ShutdownOnTime` | `Spec => []ShutdownBounded`: a shutdown is over its deadline by no more than a turn takes |
| `LoopProofs!NoWakeInVain` | `Spec => NoSpin`: the loop never wakes by a timeout it has no use for |
| `LoopProofs!NoBootPunished` | `Spec => NeverPunished`: a boot is overdue only after its deadline, outside a shutdown, with its unit not up when the loop woke |
| `LoopProofs!StarvedStays` | `Spec => StarvedForGood`: nothing feeds the open device of an overdue boot until a shutdown ends |
| `SupervisorProofs!NoUnitStranded` | `Spec => []NeverStranded`: a unit that is not idle has a process, a cgroup or an alarm that will move it on |
| `SupervisorProofs!WatchdogNeverLapses` | `Spec => []WatchdogCovered`: a watched service that is up has its next check in the heap |
| `SupervisorProofs!ChildrenTracked` | `Spec => []Tracking`: no child of a unit that is down or waits, and only a forking service is up without one |
| `SupervisorProofs!OneMainProcess` | `Spec => []OneProcess`, assuming `Undisturbed`: no second main process |
| `SupervisorProofs!RestartsPending` | `Spec => []RestartPending`, assuming no start requests: a remembered restart belongs to a stop in progress |
| `SupervisorProofs!StopsOverridePolicy` | `Spec => StopOverridesPolicy`, assuming no start requests: a requested stop ends down, or in the start an `oxctl restart` is owed |
| `GraphProofs!RefusalsAreCycles` | `Spec => []RefusedOnlyIfCyclic`: what is refused for its order has a cycle |
| `GraphProofs!WalkIsBounded` | `Spec => []WalkEnds`: the walk that looks for the cycle visits no unit twice |
| `GraphProofs!GraphTypes` | `Spec => []TypeOK` of the resolver |
| `LoopProofs!NoOneIsReset` | `Spec => []NoUnwantedReset`, assuming `TurnsAreShort`: the device resets no machine that should go on |
| `LoopProofs!LoopTypes` | `Spec => []MainTypeOK`: types of the loop, the watchdog and the deadlines |
| `LoopProofs!DeadlinesCovered` | `Spec => []Covered`: no alarm is slept over |
| `LoopProofs!CalendarNamesFirst` | `Spec => []FirstNamed`: a calendar answers the first moment its words name |
| `LoopProofs!ImplementsAlarmClock` | `Spec => PromiseKept`: heaps and timerfds implement `AlarmClock` |
| `LoopProofs!OneAlarm` | `Spec => []OneAlarmPerStart`: a repeating schedule neither ends nor doubles |
| `ControlProofs!ConnectionsAccounted` | `Spec => []Accounted`: every connection is waiting, one client, refused or closed, and an event is about what is there |
| `ControlProofs!OnlyReloadsStrand` | `Spec => []StrandedOnlyByReload`: only a reload leaves the queue stuck |
| `ControlProofs!ReloadsApply` | `Spec => ReloadApplied`: a reload is all or nothing, and leaves what runs and what epoll watches alone |
| `LogProofs!OutputInOrder` | `Spec => []StartsInOrder`: what one start wrote last is in the files ahead of the next start's, if it had ended and one read was enough for what it left |
| `LogProofs!LossIsBounded` | `Spec => []LossBounded`: nothing a start wrote is lost, repeated or reordered, but for one read and one partial line per death or refused record, and at most a pipe full once it was replaced |
| `LogProofs!CopiesKept` | `Spec => []CopyKept`: while a log writer is connected and its queue had room, it has, or is sent, the pipe of every latest start, so that replacing one destroys nothing |
| `LogProofs!FilesAreKept` | `Spec => []FilesKept`: the files are the end of the record, within their size, and complete until a log writer died |
| `LogProofs!LogTypes` | `Spec => []LogTypeOK`: types, bounds, the pipe PID 1 keeps, and the size a log writer remembers |

*Supervisor.* The first lemmas say of each transition of a record which states it
leads from and to. On top of them `SupervisorProofs` follows the code rather than the
properties: whatever a handler does to the records is *Steady* (no unit is up
afterwards that was not before) or a Steady change followed by *one* start, which
first stops everything its unit conflicts with, in either direction; together,
`Sound`. One lemma per action shows that it is Sound. Both safety properties then
follow at once, from `Sound` and `TypeOK`. `Exclusive` is kept because at most one
unit comes up in a step and what it excludes is not up then. For `GoingDown`,
`Sound` also says that a start is refused and a policy's restart is cancelled once
`shutdown` is set, so what was calm stays calm; the step that begins the shutdown is
the exception, and it puts every unit down by itself.

*Supervisor, backing.* `NeverStranded`, `WatchdogCovered` and `Tracking` are not
inductive one by one. Their common strengthening is a predicate on one record:
`Tended` (there is a process, a populated cgroup or an unread event wherever the
state waits for one) and `Timed` (the state has its alarm). Each transition of
`Instance` keeps it; a start establishes it whatever was there before. It needs
`GoingDown` in one place: a Restart alarm during a shutdown finds its unit cancelled,
not waiting. `OneProcess` needs more: that a unit that is started is idle and, being
idle and tended, has no process to lose (`Held`, `Sole`). The code does not ensure that
everywhere, so the theorem assumes `Undisturbed`: no client sends `start` (without it:
run `start`), nothing activates a unit of the boot queue (run `second`), and no
process leaves its cgroup while its unit is tracked, since a unit is found empty by
its cgroup. The configuration of `control` satisfies all three.

*Supervisor, stops.* A start request is not refused for a unit that is not idle (run
`start`), and one for a unit that is being stopped parts a remembered restart from its
stop; TLC finds both
`RestartPending` and `StopOverridesPolicy` violated in `control` when `start` is added to its
requests, which is why both theorems assume `"start" \notin Requests`. Every other start
comes from the queue, a timer, a socket, a policy or a remembered restart, and none of them
reaches a unit that is being stopped: `stop` takes it off the queue (`Dequeued`), a
timer and a socket look at its state, and a policy's restart is of a unit that
waits. `KeepsStops` says that of each step, and both properties follow from it.

*Graph.* `OrderSound` is not inductive: it says nothing about why the next unit to
be emitted may be. The strengthening (`Sorting`) is what makes Kahn's loop work:
`remaining[n]` is the number of units before `n` that are still to be emitted, and a
ready unit waits for none and was not emitted. That a freed unit was not emitted
before needs `Ordered` itself: had it been, the unit that frees it would have been
emitted earlier. `Distinct` makes the length of the order the number of its
units, which is what the code compares with the number of wanted ones to tell a plan
from a cycle; `Reaching` is the invariant of the search before it.

For refusals, `Tracing` says that what Kahn's loop leaves behind is blocked by what it
leaves behind: while it sorts, a wanted unit that waits for nothing is ready or out. When
nothing is ready and units are missing, the missing ones are therefore a set in which
each has a predecessor, which is what `Cyclic` says. (The path the walk reports may be
no cycle all the same: run `graph_cycle`.) That the walk has a least predecessor to go
to, and that a finite set of numbers has a least member, would be proved by induction
over the set; it follows from the library's theorem that strict inclusion is
well-founded on finite sets, by a minimal counterexample.

*Loop.* None of its first four properties is inductive: each speaks of a turn, and what
makes it true was settled when the turn began. `IInv` says what that is. `Pace`: the
loop woke no later than just past the deadline of a shutdown, and a turn takes no
longer than `Slack`. `WokenFor`: a loop that woke by its timeout has nothing to
handle, and the moment it woke for, by the policy or by the shutdown, is named by
them still. `Told`: what had happened when the loop woke is in its batch or already
handled. `Typed` is the type of the policy, with the one arithmetic fact the rest
needs: a timeout, set or answered by a driver, is whole seconds, so half of it is a
whole number of ticks. `TurnIsNotInVain` then is a case for each term of `next_wake`:
the moment it names is one at which `tick` acts (`due`, the retry of an open, the
boot's deadline). The assumptions are `WatchdogAssumption` and `MainLoopAssumption`:
the settings have the types their parser gives them.

*Watchdog.* A device that is open was fed (`lastPet`) no longer ago than `interval`
when the loop sleeps, since `next_wake` names that moment, or when it woke
(`FedInTime`); a turn adds at most `Slack`. What is left is that interval and slack are
shorter than the timeout in force, which is a demand on the driver and on the handlers,
not something the code sees to: `TurnsAreShort` says it of every reply a driver may
give, with the interval the code takes from what the driver *says* and the countdown it
*is*. It also says it of a device an initramfs left running, for the first turn
(`FirstTurn`). The configuration of `loop` satisfies it with `Slack = 1`; with
`Slack = 2` it does not, and TLC finds `NoUnwantedReset` violated.

*Deadlines.* `Covered` alone is lost when a clock is set between the read and the
pop. `DInv` adds what holds there (`Read`): what was read is no later than the clock, or a
clock set is still unreported; and that the realtime timerfd asks to be told whenever
something waits for that clock. The refinement then is one case per action:
scheduling is `Set`, popping is `GoOff`, an answered `ECANCELED` is `Notice` or `Lose`,
and the rest is time passing, a clock set or a stutter. `Chains` is the invariant of
`OneAlarm`: an alarm is in one place (`Apart`), no two have the same chain (`OneEach`), and
what goes on has one (`GoesOn`). `CalendarNamesFirst` is arithmetic about `%` and `\div`: rounding
up stops at the first multiple, and a moment of the day or week is reached by one shift.

*Control.* `CInv` has a part for each pair of things that could come apart. `Clients`: the
two ends of a connection, with numbers that are never given twice. `Events`: what a
batch announced is there until it is handled, because nothing else takes it and handling
one event does not touch what another is about. `Units`: definitions on disk and in
memory are ones the parser accepts. `Queued`: of units no reload touched, one that is after
another is also after it in the queue, so that the first of them is startable unless
something is starting. `Watched`: the cgroups epoll watches are the first ones, one
per service of the boot, so that a number keeps its owner when a reload adds some.

*Log shipping.* Apart from `CopyKept`, none of the properties is inductive, and none can be
strengthened alone: that output is in order depends on which pipe is read when, that on who was
offered what, and that on which of several log writers can be at work. `IInv` has
these parts:

- `Linked`: every connection has one writer, the shipper's is the one in service, and
  a log writer that waits in the backlog has nothing. So, but for a registration that
  failed, only one is not idle. This is where the refusal in `accept` and the order
  of hangup and reconnection matter.
- `Offers`, `Reads`: messages and sources of a unit are in the order of its starts,
  the messages behind the sources; what `poll` found readable stays so until it is read.
- `Turns`, `Brief`: of a unit whose starts never overlapped, when a later start is a
  source the pipe of an earlier one is empty, and its end is found in the same pass,
  before the later one is drained; it has no writer, and at most one read was left in it.
- `Capped`: a pipe holds no more than fits, and only that of a start that was replaced
  was ever destroyed. `CopyKept` is a part as it stands: what is offered stays in the
  queue or becomes a source, and a source goes only at its end of file or with its
  log writer, whose end PID 1 sees before it knows another.
- `Piped`, `Filed`, `Places` (`Taken`, `Begun`, `Due`): the places a piece of output can
  be in, from the files over the lines to be recorded and the partial lines to the
  pipes and the offers, and that a piece further on was written later. These are the
  invariants behind both order properties.
- `Counted`: the pieces of a start that are in some place are as many as it wrote, but
  for those destroyed in its pipe (`lost`) and `Mishaps` times the most a log writer ever
  holds of a start (`Share`). A pipe is destroyed (`Narrowed`) only behind the latest one.
- `Rotates`, `Stored`, `Sunk`, `Sized`: there are marks that cut the record into the
  files, generation by generation; what is left of a rotation is the end of its plan, and
  until a death the generations in place have one gap, at the place the next move
  goes to; a remembered size is that of the file.

The proof is by what a step touches. `LogLemmas` says of each action what it does
to the process, the connection, the pipes and the files it is about, and that it leaves
the others alone; each part of `IInv` then has one lemma for the steps of others
(`...Elsewhere`, `...Frame`) and one for each action that disturbs it. `NextIInv` puts
them together. `LossBounded` follows from `Counted`, `Capped` and the order of the trail, for which
the places of all log writers are joined by `InOrderJoined`.

Several operators compute along a sequence: `Push` splits what was read, `FileSize` adds
up, `Held` flattens. The provers cannot instantiate the library's induction over
naturals, so `Foundations` states induction over a *set* of numbers
(`Induction`), from the well-foundedness of strict inclusion on finite sets by a minimal
counterexample, and from it that a function that recurs over `0..N` exists and is unique
(`Recursion`). `Push` and `FileSize` are therefore written as recursive functions over
places, not as folds; `FlattenSeq` of the library is unfolded the same way
(`FlattenSteps`). `serve`'s removal of closed sources is `Retained`, the elements at
some places in ascending order, of which `Enumerable` says that there is such an order
and `AscendingFacts` that it goes through each place once.

All theorems hold for every value of the constants that satisfies the assumptions the
modules name (`UnitsAssumption`, `BoundsAssumption`, `GraphAssumption`, those of the
deadlines, `WatchdogAssumption`, `MainLoopAssumption`, `UnitFilesAssumption`,
`ControlPlaneAssumption`, `LogFilesAssumption`, `LogShippingAssumption`). Most of it is
what the parser, the loader and the graph guarantee: kinds, policies and relations are
over the loaded units, only `notify` services have a watchdog, a file has only sections
there are. Two things go beyond that, since nobody checks them when units are loaded: a
unit does not name itself in `conflicts`, and what a timer starts is a loaded service
(`timer_elapsed` skips one that is not). The rest is that names, units, directories and early connections are finite; of log shipping, that a line, a
read, a pipe and a queue hold at least one thing, that an earlier boot left no more
files than are kept, and that "none" is not a connection. Four theorems have a hypothesis of their
own, explained above: `OneMainProcess`, `RestartsPending`, `StopsOverridePolicy` and
`NoOneIsReset`.

Only model-checked:

- every liveness property (`ShutdownEnds`, `BootDrains`, `StopEnds`, `RestartHonoured`,
  `ConnectionActivates`, `Shipped`, `Answered`) and anything about fairness, which are out
  of the prover's reach. Every invariant and every action property of the passing runs
  is a theorem.

## Plan

Done: the graph, the state machine, the supervisor, reload and the control socket,
deadlines and schedules with their refinement, the hardware watchdog and the loop
over time, log shipping; proofs of every safety property. Next:

1. *Backoff* arithmetic, and a run that tells one stop from the next, for a
   StopTimeout that outlives its stop.
2. `before` over `Graph` and `Supervisor` together.

## Not modelled, and why

Early boot (mounts, console, hand-over of descriptors), container detection, the
lookup of users and paths, raw system calls: straight-line I/O whose state nothing
later depends on. The text of unit files: which file is a unit is modelled by the
checks it passes, not by its TOML. The digits of a timestamp, the spelling of calendar
entries, replies and console lines. Limits, delegation and statistics of cgroups are
file I/O. The probes and `xtask` are tools. The backoff arithmetic decides how long a
wait is, never what follows it.

------------------------------ MODULE LoopProofs ------------------------------
(***************************************************************************)
(* Theorems about module MainLoop, for every setting of the watchdog,      *)
(* every schedule, every set of alarms and every bound.  The loop wakes in *)
(* time for a shutdown, wakes for nothing it asked for in vain, never      *)
(* finds a boot overdue that was not, starves an overdue one for good, and *)
(* feeds the hardware in time.  Under it, a calendar answers the moment it *)
(* names, nothing in a heap is slept over, the heaps and timerfds          *)
(* implement AlarmClock, and a schedule never ends or doubles.             *)
(***************************************************************************)
EXTENDS MainLoop, FiniteSetTheorems, TLAPS

Even == {n \in Nat : n % 2 = 0}

Policies ==
    [config : [timeout : Nat, boot : Option(Nat)], boot : BootState, open : BOOLEAN,
     interval : Nat \ {0}, lastPet : Option(Nat), lastTry : Option(Nat),
     shuttingDown : BOOLEAN]

Typed ==
    /\ now \in Nat
    /\ woke \in Nat
    /\ byBound \in BOOLEAN
    /\ dog \in Option(Policies)
    /\ dev \in [there : BOOLEAN, left : SUBSET Int, is : Nat]
    /\ shutdown \in Option([action : Actions, since : Nat])
    /\ goingDown = (shutdown # {})
    /\ pc = "finalize" => shutdown # {}
    /\ asked \in Actions

(* A shutdown's deadline is not missed: the loop woke no later than just past *)
(* it, and a turn takes no longer than Slack.                                *)
Pace ==
    /\ pc = "wait" => \A s \in shutdown : now <= s.since + ShutdownLimit + 1
    /\ pc = "serve" => /\ woke <= now /\ now <= woke + Slack
                       /\ \A s \in shutdown : woke <= s.since + ShutdownLimit + 1

(* What had happened when the loop woke is handled by the end of the turn.   *)
Told ==
    pc = "serve" /\ "Up" \in known =>
        /\ "Up" \in happened
        /\ "Up" \in pending => "Units" \in batch

(* A loop that woke by its timeout has nothing to handle, and what it woke   *)
(* for is still to be done.                                                  *)
WokenFor ==
    pc = "serve" /\ byBound =>
        /\ batch = {}
        /\ \E w \in (UNION {NextWake(p, woke) : p \in dog}) \cup ShutdownBound : woke >= w

IInv == Typed /\ Pace /\ Told /\ WokenFor

-------------------------------------------------------------------------------
(* Facts about options and the policy                                        *)

(* The least of two options is there if either is, and no larger.            *)
LEMMA LeastOfTwo ==
    ASSUME NEW A \in Option(Int), NEW B \in Option(Int), NEW y \in A \cup B
    PROVE  \E w \in Least(A \cup B) : w <= y
<1> DEFINE L == Least(A \cup B)
<1>1. A \subseteq Int /\ B \subseteq Int /\ (\A a, b \in A : a = b) /\ (\A a, b \in B : a = b)
  BY DEF Option
<1>2. y \in Int
  BY <1>1
<1>3. CASE \A x \in A \cup B : y <= x
  <2>1. y \in L
    BY <1>3 DEF Least
  <2> QED BY <2>1, <1>2
<1>4. CASE \E x \in A \cup B : ~(y <= x)
  <2>1. PICK x \in A \cup B : ~(y <= x)
    BY <1>4
  <2>2. x \in Int /\ x <= y
    BY <2>1, <1>1, <1>2
  <2>3. \A z \in A \cup B : z = x \/ z = y
    BY <2>1, <1>1, <1>2, <2>2
  <2>4. x \in L
    BY <2>2, <2>3 DEF Least
  <2> QED BY <2>4, <2>2
<1> QED BY <1>3, <1>4

(* A set of moments has at most one least one.                               *)
LEMMA LeastIsOption ==
    ASSUME NEW S \in SUBSET Int
    PROVE  Least(S) \in Option(Int)
<1>1. \A x, y \in Least(S) : x = y
  <2> SUFFICES ASSUME NEW x \in Least(S), NEW y \in Least(S) PROVE x = y
    OBVIOUS
  <2>1. x \in Int /\ y \in Int /\ x <= y /\ y <= x
    BY DEF Least
  <2> QED BY <2>1
<1>2. Least(S) \subseteq Int
  BY DEF Least
<1> QED BY <1>1, <1>2 DEF Option

(* What a policy answers is a policy, and it says the truth about the boot.  *)
LEMMA UpdateBootFacts ==
    ASSUME NEW p \in Policies, NEW t \in Nat, NEW up \in BOOLEAN
    PROVE  /\ UpdateBoot(p, t, up) \in Policies
           /\ UpdateBoot(p, t, up) = [p EXCEPT !.boot = UpdateBoot(p, t, up).boot]
           /\ p.boot # "Pending" => UpdateBoot(p, t, up) = p
           /\ p.boot = "Pending" /\ UpdateBoot(p, t, up).boot = "Overdue" =>
                 ~up /\ ~p.shuttingDown /\ \A d \in p.config.boot : t >= d
           /\ p.boot = "Pending" /\ ~p.shuttingDown /\ (\A d \in p.config.boot : t >= d)
                 => UpdateBoot(p, t, up).boot # "Pending"
  BY DEF Policies, UpdateBoot, BootState

LEMMA TickedFacts ==
    ASSUME NEW p \in Policies, NEW t \in Nat
    PROVE  /\ Ticked(p, t) \in Policies
           /\ Ticked(p, t).boot = p.boot /\ Ticked(p, t).open = p.open
           /\ Ticked(p, t).shuttingDown = p.shuttingDown
           /\ Ticked(p, t).config = p.config
<1>1. {t} \in Option(Nat)
  BY DEF Option
<1> QED BY <1>1 DEF Policies, Ticked

LEMMA OpenedFacts ==
    ASSUME NEW p \in Policies, NEW t \in Nat, NEW says \in Option(Even)
    PROVE  /\ Opened(p, t, says) \in Policies /\ OpenFailed(p, t) \in Policies
           /\ Opened(p, t, says).open
           /\ Opened(p, t, says).boot = p.boot /\ OpenFailed(p, t).boot = p.boot
           /\ OpenFailed(p, t).lastTry = {t}
<1>1. {t} \in Option(Nat)
  BY DEF Option
<1> DEFINE intervals == {PetInterval(a) : a \in says}
           i == IF \E a \in says : a > 0 THEN CHOOSE x \in intervals : TRUE
                ELSE UnknownInterval
<1>2. i \in Nat \ {0}
  <2>1. CASE \E a \in says : a > 0
    <3>1. PICK a \in says : a > 0
      BY <2>1
    <3>2. says = {a} /\ a \in Nat /\ a % 2 = 0
      BY <3>1 DEF Option, Even
    <3>3. intervals = {a \div 2}
      BY <3>2 DEF PetInterval
    <3>4. i = a \div 2
      BY <2>1, <3>3
    <3>5. a \div 2 \in Nat \ {0}
      BY <3>1, <3>2
    <3> QED BY <3>4, <3>5
  <2>2. CASE ~ \E a \in says : a > 0
    BY <2>2, WatchdogAssumption
  <2> QED BY <2>1, <2>2
<1>3. Opened(p, t, says) = [p EXCEPT !.open = TRUE, !.lastPet = {t}, !.interval = i]
  BY DEF Opened
<1> QED
  <2> HIDE DEF i
  <2> QED BY <1>1, <1>2, <1>3 DEF Policies, OpenFailed

(* A policy names at most one moment.                                        *)
LEMMA NextWakeIsOption ==
    ASSUME NEW p \in Policies, NEW t \in Nat
    PROVE  NextWake(p, t) \in Option(Int)
<1> DEFINE Interval(last) == IF last = {} THEN {t} ELSE {l + p.interval : l \in last}
           S == (IF ~p.open THEN Interval(p.lastTry)
                 ELSE IF p.boot # "Overdue" THEN Interval(p.lastPet) ELSE {})
                \cup (IF p.boot = "Pending" /\ ~p.shuttingDown THEN p.config.boot ELSE {})
<1>1. p.lastTry \subseteq Nat /\ p.lastPet \subseteq Nat /\ p.interval \in Nat
         /\ p.config.boot \subseteq Nat
  BY DEF Policies, Option
<1>2. Interval(p.lastTry) \subseteq Int /\ Interval(p.lastPet) \subseteq Int
  BY <1>1
<1>3. S \subseteq Int
  BY <1>1, <1>2
<1>4. NextWake(p, t) = Least(S)
  BY DEF NextWake
<1> QED
  <2> HIDE DEF S
  <2> QED BY <1>3, <1>4, LeastIsOption

(* A moment the policy named that has come finds something to do.            *)
LEMMA DutyIsDone ==
    ASSUME NEW p \in Policies, NEW t \in Nat, NEW w \in NextWake(p, t),
           NEW n \in Nat, n >= t, t >= w, NEW up \in BOOLEAN,
           UpdateBoot(p, n, up) = p
    PROVE  Action(p, n) # "Nothing" /\ (Action(p, n) = "Pet" => \A l \in p.lastPet : l # n)
                                   /\ (Action(p, n) = "Open" => \A l \in p.lastTry : l # n)
<1>1. p.lastTry \subseteq Nat /\ p.lastPet \subseteq Nat /\ p.interval \in Nat \ {0}
         /\ p.config.boot \subseteq Nat
         /\ (\A x, y \in p.lastTry : x = y) /\ (\A x, y \in p.lastPet : x = y)
         /\ (\A x, y \in p.config.boot : x = y)
         /\ p.boot \in BootState /\ p.open \in BOOLEAN /\ p.shuttingDown \in BOOLEAN
  BY DEF Policies, Option
<1>2. \/ ~p.open /\ \A l \in p.lastTry : w = l + p.interval
      \/ p.open /\ p.boot # "Overdue" /\ \A l \in p.lastPet : w = l + p.interval
      \/ p.boot = "Pending" /\ ~p.shuttingDown /\ w \in p.config.boot
  BY <1>1 DEF NextWake, Least
<1>3. ~(p.boot = "Pending" /\ ~p.shuttingDown /\ w \in p.config.boot)
  <2> SUFFICES ASSUME p.boot = "Pending", ~p.shuttingDown, w \in p.config.boot PROVE FALSE
    OBVIOUS
  <2>1. \A d \in p.config.boot : n >= d
    BY <1>1
  <2>2. UpdateBoot(p, n, up).boot # "Pending"
    BY <2>1, UpdateBootFacts
  <2> QED BY <2>2
<1>4. CASE ~p.open /\ \A l \in p.lastTry : w = l + p.interval
  <2>1. \A l \in p.lastTry : l # n /\ n - l >= p.interval
    BY <1>1, <1>4
  <2> QED BY <2>1, <1>4 DEF Action, IsDue
<1>5. CASE p.open /\ p.boot # "Overdue" /\ \A l \in p.lastPet : w = l + p.interval
  <2>1. \A l \in p.lastPet : l # n /\ n - l >= p.interval
    BY <1>1, <1>5
  <2> QED BY <2>1, <1>5 DEF Action, IsDue
<1> QED BY <1>2, <1>3, <1>4, <1>5

(* A source that is not broken is one that parsed.                           *)
LEMMA ParsedSource ==
    ASSUME NEW s \in Sources, ~s.broken
    PROVE  s \in [broken : {FALSE}, timeout : Option(Nat), unit : BOOLEAN, boot : Option(Nat)]
<1>1. Broken.broken = TRUE
  BY DEF Broken
<1>2. s # Broken
  BY <1>1, Zenon
<1> QED BY <1>2, Zenon DEF Sources

(* The settings yield at most one policy, with an interval of its own.       *)
LEMMA ResolveFacts ==
    ASSUME NEW s \in Sources
    PROVE  /\ \A c \in Resolve(s) : c \in [timeout : Even \ {0}, boot : Option(Nat)]
           /\ \A c, d \in Resolve(s) : c = d
<1>1. CASE s.broken
  BY <1>1 DEF Resolve
<1>2. CASE ~s.broken
  <2>1. s \in [broken : {FALSE}, timeout : Option(Nat), unit : BOOLEAN, boot : Option(Nat)]
    BY <1>2, ParsedSource
  <2>2. s.boot \ {0} \in Option(Nat) /\ s.timeout \in SUBSET Nat
           /\ \A x, y \in s.timeout : x = y
    BY <2>1 DEF Option
  <2> DEFINE deadline == s.boot \ {0}
             kept == {x \in s.timeout : /\ x # 0 /\ x % 2 = 0 /\ x <= MaxTimeout
                                        /\ deadline # {} => s.unit
                                        /\ s.unit => s.boot # {}}
  <2>3. Resolve(s) = {[timeout |-> t, boot |-> deadline] : t \in kept}
    BY <1>2 DEF Resolve
  <2>4. kept \subseteq Even \ {0} /\ \A x, y \in kept : x = y
    BY <2>2 DEF Even
  <2> HIDE DEF kept, deadline
  <2>5. deadline \in Option(Nat)
    BY <2>2 DEF deadline
  <2> QED BY <2>3, <2>4, <2>5
<1> QED BY <1>1, <1>2

LEMMA NewPolicyFacts ==
    ASSUME NEW c \in [timeout : Even \ {0}, boot : Option(Nat)]
    PROVE  NewPolicy(c) \in Policies
<1>1. c.timeout \in Nat \ {0} /\ c.timeout % 2 = 0
  BY DEF Even
<1>2. c.timeout \div 2 \in Nat \ {0}
  BY <1>1
<1>3. c \in [timeout : Nat, boot : Option(Nat)]
  BY <1>1 DEF Even
<1>4. {} \in Option(Nat)
  BY DEF Option
<1> QED BY <1>2, <1>3, <1>4 DEF NewPolicy, Policies, PetInterval, BootState

LEMMA ConfiguredFacts ==
    ASSUME Configured
    PROVE  dog \in Option(Policies)
<1>1. PICK etc \in EtcFiles, vendor \in VendorFiles, cmdline \in CommandLines :
         dog = IF container THEN {}
               ELSE {NewPolicy(c) : c \in UNION {Resolve(s) : s \in Load(etc, vendor, cmdline)}}
  BY DEF Configured
<1> DEFINE layered == Load(etc, vendor, cmdline)
           configs == UNION {Resolve(s) : s \in layered}
<1>2. etc \in Option(Sources) /\ vendor \in Option(Sources) /\ cmdline \in Sources
  BY MainLoopAssumption
<1>3. layered \in Option(Sources)
  <2> DEFINE file == IF etc # {} THEN etc ELSE IF vendor # {} THEN vendor ELSE {Unsaid}
  <2>1. {} \in Option(Nat) /\ Unsaid \in Sources /\ Broken \in Sources
    BY DEF Option, Unsaid, Sources
  <2>2. file \in Option(Sources)
    BY <1>2, <2>1 DEF Option
  <2>3. \A s \in Sources : ~s.broken /\ ~cmdline.broken => Over(cmdline, s) \in Sources
    <3> SUFFICES ASSUME NEW s \in Sources, ~s.broken, ~cmdline.broken
                 PROVE  Over(cmdline, s) \in Sources
      OBVIOUS
    <3> DEFINE good == [broken : {FALSE}, timeout : Option(Nat), unit : BOOLEAN, boot : Option(Nat)]
    <3>1. s \in good /\ cmdline \in good
      BY <1>2, ParsedSource
    <3>2. Over(cmdline, s) \in good
      BY <3>1 DEF Over
    <3> QED BY <3>2 DEF Sources
  <2>4. layered = {IF s.broken \/ cmdline.broken THEN Broken ELSE Over(cmdline, s) : s \in file}
    BY DEF Load
  <2> HIDE DEF file, layered
  <2>5. \A x \in layered : x \in Sources
    BY <2>1, <2>2, <2>3, <2>4 DEF Option
  <2>6. \A x, y \in layered : x = y
    BY <2>2, <2>4 DEF Option
  <2> QED BY <2>5, <2>6 DEF Option
<1> HIDE DEF layered
<1>4. /\ \A c \in configs : c \in [timeout : Even \ {0}, boot : Option(Nat)]
      /\ \A c, d \in configs : c = d
  BY <1>3, ResolveFacts DEF Option
<1> HIDE DEF configs
<1>5. {NewPolicy(c) : c \in configs} \in Option(Policies)
  <2>1. \A x \in {NewPolicy(c) : c \in configs} : x \in Policies
    BY <1>4, NewPolicyFacts
  <2>2. \A x, y \in {NewPolicy(c) : c \in configs} : x = y
    BY <1>4
  <2> QED BY <2>1, <2>2 DEF Option
<1>6. {} \in Option(Policies)
  BY DEF Option
<1> QED BY <1>1, <1>5, <1>6 DEF configs, layered

-------------------------------------------------------------------------------
(* What a step leaves alone                                                  *)

(* The deadlines and the world of units: no event of a unit handled, no time *)
(* passed, nothing asked of the watchdog.                                    *)
Aside ==
    /\ UNCHANGED <<now, pc, woke, byBound, known, dog, dev, machine, pending, happened,
                   shutdown, goingDown, asked, container>>
    /\ batch' \subseteq batch
    /\ "Units" \in batch => "Units" \in batch'

LEMMA StepKinds ==
    ASSUME [Next]_vars
    PROVE  Wake \/ ServeUnits \/ ServeSignals \/ Hang \/ EndTurn \/ Finalize \/ Elapse
              \/ (\E e \in UnitEvent : Happens(e)) \/ Signal \/ DeviceAppears \/ Aside
<1>1. CASE ServeTimer
  BY <1>1 DEF ServeTimer, Serving, OnTimer, Aside, unitVars, dogVars, setting, clockVars,
              serviceVars
<1>2. CASE ServeWallTimer
  BY <1>2 DEF ServeWallTimer, Serving, OnWallTimer, Aside, unitVars, dogVars, setting,
              clockVars, serviceVars
<1>3. CASE GoOn
  <2>1. UNCHANGED <<now, goingDown>>
    <3>1. CASE WallPop
      BY <3>1 DEF WallPop, clockVars
    <3>2. CASE \E e \in fired : Handle(e)
      BY <3>2 DEF Handle, TimerElapsed, JobDone, clockVars
    <3> QED BY <1>3, <3>1, <3>2 DEF GoOn
  <2> QED BY <1>3, <2>1 DEF GoOn, Aside, loopVars, dogVars, unitVars, setting
<1>4. CASE HandlersSchedule
  <2>1. UNCHANGED <<now, goingDown>>
    BY <1>4 DEF HandlersSchedule, StartTimer, ScheduleJob, clockVars
  <2> QED BY <1>4, <2>1 DEF HandlersSchedule, Aside, loopVars, dogVars, unitVars, setting
<1>5. CASE ClockIsSet
  BY <1>5 DEF ClockIsSet, SetClock, Outside, Aside, loopVars, dogVars, unitVars,
              serviceVars, setting
<1>6. CASE ServiceOfTimerEnds
  BY <1>6 DEF ServiceOfTimerEnds, ServiceEnds, Outside, Aside, loopVars, dogVars, unitVars,
              clockVars, setting
<1>7. CASE UNCHANGED vars
  BY <1>7 DEF vars, deadlineVars, clockVars, loopVars, dogVars, unitVars, Aside, setting
<1> QED BY <1>1, <1>2, <1>3, <1>4, <1>5, <1>6, <1>7 DEF Next

(* Only a turn of the loop changes the policy; besides it only time, a device  *)
(* that appears and the end of a shutdown touch the device.                  *)
LEMMA DogKept ==
    ASSUME [Next]_vars
    PROVE  \/ EndTurn
           \/ Finalize /\ UNCHANGED dog
           \/ Elapse /\ UNCHANGED dog
           \/ DeviceAppears /\ UNCHANGED dog
           \/ UNCHANGED <<dog, dev>>
<1>1. CASE Wake
  BY <1>1 DEF Wake, dogVars
<1>2. CASE ServeUnits
  BY <1>2 DEF ServeUnits, Serving, dogVars
<1>3. CASE ServeSignals
  BY <1>3 DEF ServeSignals, Serving, dogVars
<1>4. CASE Hang
  BY <1>4 DEF Hang, dogVars
<1>5. CASE EndTurn
  BY <1>5
<1>6. CASE Finalize
  <2>1. UNCHANGED dog
    BY <1>6 DEF Finalize
  <2> QED BY <1>6, <2>1
<1>7. CASE Elapse
  <2>1. UNCHANGED dog
    BY <1>7 DEF Elapse
  <2> QED BY <1>7, <2>1
<1>8. CASE \E e \in UnitEvent : Happens(e)
  BY <1>8 DEF Happens, dogVars
<1>9. CASE Signal
  BY <1>9 DEF Signal, dogVars
<1>10. CASE DeviceAppears
  <2>1. UNCHANGED dog
    BY <1>10 DEF DeviceAppears
  <2> QED BY <1>10, <2>1
<1>11. CASE Aside
  BY <1>11 DEF Aside
<1> QED BY <1>1, <1>2, <1>3, <1>4, <1>5, <1>6, <1>7, <1>8, <1>9, <1>10, <1>11, StepKinds

(* What a turn does to the policy and the device.                            *)
LEMMA TurnFacts ==
    ASSUME Typed, EndTurn, NEW p \in dog
    PROVE  /\ dev' \in [there : BOOLEAN, left : SUBSET Int, is : Nat]
           /\ p.boot = "Overdue" /\ p.open => dev' = dev
           /\ \E q \in Policies :
                /\ dog' = {q}
                /\ p.boot # "Pending" => q.boot = p.boot
                /\ p.boot = "Pending" /\ q.boot = "Overdue" =>
                      ~Seen("Up") /\ ~goingDown /\ \A d \in p.config.boot : now >= d
<1> DEFINE told    == IF goingDown THEN [p EXCEPT !.shuttingDown = TRUE] ELSE p
           current == UpdateBoot(told, now, Seen("Up"))
           ticked  == Ticked(current, now)
<1>1. p \in Policies /\ now \in Nat /\ Seen("Up") \in BOOLEAN
         /\ dev \in [there : BOOLEAN, left : SUBSET Int, is : Nat]
  BY DEF Typed, Option, Seen
<1>2. told \in Policies /\ told.boot = p.boot /\ told.config = p.config /\ told.open = p.open
         /\ (goingDown => told.shuttingDown)
  BY <1>1 DEF Policies
<1> HIDE DEF told
<1>3. /\ current \in Policies
      /\ current.open = p.open
      /\ p.boot # "Pending" => current.boot = p.boot
      /\ p.boot = "Pending" /\ current.boot = "Overdue" =>
            ~Seen("Up") /\ ~goingDown /\ \A d \in p.config.boot : now >= d
  <2>1. current = [told EXCEPT !.boot = current.boot]
    BY <1>1, <1>2, UpdateBootFacts
  <2>2. current.open = told.open
    BY <1>2, <2>1 DEF Policies
  <2>3. current \in Policies
    BY <1>1, <1>2, UpdateBootFacts
  <2>4. p.boot # "Pending" => current.boot = p.boot
    BY <1>1, <1>2, UpdateBootFacts
  <2>5. told.boot = "Pending" /\ current.boot = "Overdue" =>
           ~Seen("Up") /\ ~told.shuttingDown /\ \A d \in told.config.boot : now >= d
    BY <1>1, <1>2 DEF UpdateBoot, Policies, BootState
  <2> QED BY <1>2, <2>2, <2>3, <2>4, <2>5
<1> HIDE DEF current
<1>4. ticked \in Policies /\ ticked.boot = current.boot
  BY <1>1, <1>3, TickedFacts
<1> HIDE DEF ticked
<1>5. TickDog(p)
  BY DEF EndTurn, Typed, Option
<1>6. Action(current, now) \in {"Open", "Pet", "Nothing"}
         /\ (p.boot = "Overdue" /\ p.open => Action(current, now) = "Nothing")
  BY <1>3 DEF Action
<1>7. CASE Action(current, now) = "Open"
  <2>1. PICK r \in Replies : Open(ticked, r)
    BY <1>5, <1>7 DEF TickDog, told, current, ticked
  <2>2. r.says \in Option(Even) /\ r.is \in Nat
    BY MainLoopAssumption DEF Even
  <2>3. \/ dog' = {Opened(ticked, now, r.says)} /\ dev' = [dev EXCEPT !.left = {r.is}, !.is = r.is]
        \/ dog' = {OpenFailed(ticked, now)} /\ dev' = dev
    BY <2>1 DEF Open
  <2>4. dev' \in [there : BOOLEAN, left : SUBSET Int, is : Nat]
    <3>1. {r.is} \in SUBSET Int
      BY <2>2
    <3> QED BY <1>1, <2>2, <2>3, <3>1
  <2>5. /\ Opened(ticked, now, r.says) \in Policies /\ OpenFailed(ticked, now) \in Policies
        /\ Opened(ticked, now, r.says).boot = current.boot
        /\ OpenFailed(ticked, now).boot = current.boot
    <3>1. now \in Nat
      BY <1>1
    <3>2. /\ Opened(ticked, now, r.says) \in Policies /\ OpenFailed(ticked, now) \in Policies
          /\ Opened(ticked, now, r.says).boot = ticked.boot
          /\ OpenFailed(ticked, now).boot = ticked.boot
      BY <3>1, <1>4, <2>2, OpenedFacts, Zenon
    <3> QED BY <3>2, <1>4
  <2> QED BY <1>3, <1>6, <1>7, <2>3, <2>4, <2>5
<1>8. CASE Action(current, now) = "Pet"
  <2>1. dog' = {ticked} /\ dev' = [dev EXCEPT !.left = {dev.is}]
    BY <1>5, <1>8 DEF TickDog, told, current, ticked
  <2>2. dev' \in [there : BOOLEAN, left : SUBSET Int, is : Nat]
    BY <1>1, <2>1
  <2> QED BY <1>3, <1>4, <1>6, <1>8, <2>1, <2>2
<1>9. CASE Action(current, now) = "Nothing"
  <2>1. dog' = {ticked} /\ dev' = dev
    BY <1>5, <1>9 DEF TickDog, told, current, ticked
  <2> QED BY <1>1, <1>3, <1>4, <2>1
<1> QED BY <1>6, <1>7, <1>8, <1>9

(* A turn that owes the policy something changes it.                         *)
LEMMA TurnIsNotInVain ==
    ASSUME Typed, EndTurn, NEW p \in dog, NEW w \in NextWake(p, woke), woke >= w, woke <= now
    PROVE  dog' # dog
<1> DEFINE told    == IF goingDown THEN [p EXCEPT !.shuttingDown = TRUE] ELSE p
           current == UpdateBoot(told, now, Seen("Up"))
           ticked  == Ticked(current, now)
<1>1. p \in Policies /\ now \in Nat /\ woke \in Nat /\ Seen("Up") \in BOOLEAN /\ dog = {p}
  BY DEF Typed, Option, Seen
<1>2. told \in Policies /\ told = [p EXCEPT !.shuttingDown = told.shuttingDown]
  BY <1>1 DEF Policies
<1> HIDE DEF told
<1>3. current \in Policies /\ current = [told EXCEPT !.boot = current.boot]
  BY <1>1, <1>2, UpdateBootFacts
<1>4. current = UpdateBoot(told, now, Seen("Up"))
  OBVIOUS
<1> HIDE DEF current
<1>5. /\ ticked \in Policies
      /\ ticked.boot = current.boot /\ ticked.open = current.open
      /\ ticked.shuttingDown = current.shuttingDown
      /\ ticked = CASE Action(current, now) = "Open" -> [current EXCEPT !.lastTry = {now}]
                    [] Action(current, now) = "Pet"  -> [current EXCEPT !.lastPet = {now}]
                    [] OTHER -> current
  BY <1>1, <1>3, TickedFacts DEF Ticked
<1> HIDE DEF ticked
<1>6. TickDog(p)
  BY <1>1 DEF EndTurn
<1>7. SUFFICES ASSUME dog' = {p} PROVE FALSE
  BY <1>1
(* Were the policy unchanged, nothing would have been new to it.             *)
<1>8. ASSUME p.shuttingDown = current.shuttingDown, p.boot = current.boot
      PROVE  current = p /\ UpdateBoot(p, now, Seen("Up")) = p
  <2>1. told.shuttingDown = p.shuttingDown
    BY <1>2, <1>3, <1>8 DEF Policies
  <2>2. told = p
    BY <1>1, <1>2, <2>1 DEF Policies
  <2>3. current = p
    BY <1>1, <1>3, <1>8, <2>2 DEF Policies
  <2> QED BY <1>4, <2>2, <2>3
<1>9. ASSUME current = p, UpdateBoot(p, now, Seen("Up")) = p
      PROVE  /\ Action(current, now) # "Nothing"
             /\ Action(current, now) = "Pet" => \A l \in p.lastPet : l # now
             /\ Action(current, now) = "Open" => \A l \in p.lastTry : l # now
  BY <1>1, <1>9, DutyIsDone
<1>10. Action(current, now) \in {"Open", "Pet", "Nothing"}
         /\ (Action(current, now) = "Open" => ~current.open)
  BY DEF Action
<1>11. CASE Action(current, now) = "Nothing"
  <2>1. current = p
    BY <1>5, <1>6, <1>7, <1>11 DEF TickDog, told, current, ticked
  <2> QED BY <1>8, <1>9, <1>11, <2>1
<1>12. CASE Action(current, now) = "Pet"
  <2>1. ticked = p /\ ticked = [current EXCEPT !.lastPet = {now}]
    BY <1>5, <1>6, <1>7, <1>12 DEF TickDog, told, current, ticked
  <2>2. p.lastPet = {now}
    BY <1>3, <2>1 DEF Policies
  <2> QED BY <1>5, <1>8, <1>9, <1>12, <2>1, <2>2
<1>13. CASE Action(current, now) = "Open"
  <2>1. PICK r \in Replies : Open(ticked, r)
    BY <1>6, <1>13 DEF TickDog, told, current, ticked
  <2>2. r.says \in Option(Even)
    BY MainLoopAssumption DEF Even
  <2>3. p = Opened(ticked, now, r.says) \/ p = OpenFailed(ticked, now)
    BY <1>7, <2>1 DEF Open
  <2>4. CASE p = OpenFailed(ticked, now)
    <3>1. p.boot = ticked.boot /\ p.shuttingDown = ticked.shuttingDown /\ p.lastTry = {now}
      BY <1>5, <2>4 DEF OpenFailed, Policies
    <3> QED BY <1>5, <1>8, <1>9, <1>13, <3>1
  <2>5. CASE p = Opened(ticked, now, r.says)
    <3>1. p.open /\ p.boot = ticked.boot /\ p.shuttingDown = ticked.shuttingDown
      BY <1>5, <2>5 DEF Opened, Policies
    <3> QED BY <1>5, <1>8, <1>10, <1>13, <3>1
  <2> QED BY <2>3, <2>4, <2>5
<1> QED BY <1>10, <1>11, <1>12, <1>13

-------------------------------------------------------------------------------
(* The invariant                                                             *)

LEMMA InitIInv ==
    ASSUME Init
    PROVE  IInv
<1>1. now = 0 /\ woke = 0 /\ byBound = FALSE /\ known = {} /\ shutdown = {} /\ goingDown = FALSE
         /\ pc = "serve"
  BY DEF Init, DeadlinesInit
<1>2. dog \in Option(Policies)
  BY ConfiguredFacts DEF Init
<1>3. dev \in [there : BOOLEAN, left : SUBSET Int, is : Nat]
  <2>1. PICK there \in BOOLEAN, left \in Option(LeftRunning) :
           dev = [there |-> there, left |-> left, is |-> 0]
    BY DEF Init
  <2>2. left \in SUBSET Int
    BY MainLoopAssumption DEF Option
  <2> QED BY <2>1, <2>2
<1>4. shutdown \in Option([action : Actions, since : Nat])
  BY <1>1 DEF Option
<1>5. Typed
  <2>1. asked \in Actions
    BY DEF Init
  <2> QED BY <1>1, <1>2, <1>3, <1>4, <2>1 DEF Typed
<1> QED BY <1>1, <1>5, MainLoopAssumption DEF IInv, Pace, Told, WokenFor

LEMMA TypedStep ==
    ASSUME Typed, [Next]_vars
    PROVE  Typed'
<1> USE DEF Typed, setting
<1>1. CASE Wake
  BY <1>1 DEF Wake, deadlineVars, clockVars, dogVars, unitVars
<1>2. CASE ServeUnits
  BY <1>2 DEF ServeUnits, Serving, deadlineVars, clockVars, dogVars, unitVars
<1>3. CASE ServeSignals
  <2>1. PICK a \in pending \cap Actions :
           shutdown' = IF shutdown = {} THEN {[action |-> a, since |-> now]} ELSE shutdown
    BY <1>3 DEF ServeSignals
  <2> DEFINE s == [action |-> a, since |-> now]
  <2>2. {s} \in Option([action : Actions, since : Nat])
    <3>1. s \in [action : Actions, since : Nat]
      OBVIOUS
    <3> QED BY <3>1 DEF Option
  <2>3. shutdown' \in Option([action : Actions, since : Nat]) /\ shutdown' # {}
    BY <2>1, <2>2
  <2>4. goingDown' = TRUE
    BY <1>3 DEF ServeSignals
  <2>5. UNCHANGED <<now, woke, byBound, dog, dev, pc, asked>>
    BY <1>3 DEF ServeSignals, Serving, clockVars, dogVars
  <2> QED BY <2>3, <2>4, <2>5
<1>4. CASE Hang
  BY <1>4 DEF Hang, deadlineVars, clockVars, dogVars, unitVars
<1>5. CASE EndTurn
  <2>1. UNCHANGED <<now, shutdown, goingDown, asked>> /\ woke' = 0 /\ byBound' = FALSE
         /\ pc' = IF Settled THEN "finalize" ELSE "wait"
    BY <1>5 DEF EndTurn, deadlineVars, clockVars, unitVars
  <2>2. CASE dog = {}
    <3>1. UNCHANGED <<dog, dev>>
      BY <1>5, <2>2 DEF EndTurn
    <3> QED BY <2>1, <3>1 DEF Settled
  <2>3. CASE dog # {}
    <3>1. PICK p \in dog : TRUE
      BY <2>3
    <3>2. /\ dev' \in [there : BOOLEAN, left : SUBSET Int, is : Nat]
          /\ \E q \in Policies : dog' = {q}
      BY <1>5, <3>1, TurnFacts
    <3>3. dog' \in Option(Policies)
      BY <3>2 DEF Option
    <3> QED BY <2>1, <3>2, <3>3 DEF Settled
  <2> QED BY <2>2, <2>3
<1>6. CASE Finalize
  <2>1. UNCHANGED <<now, woke, byBound, dog, shutdown, goingDown, asked>>
         /\ shutdown # {}
    BY <1>6 DEF Running, Finalize, deadlineVars, clockVars, unitVars
  <2>2. dev' \in [there : BOOLEAN, left : SUBSET Int, is : Nat]
    <3>1. CASE container \/ dog = {}
      BY <1>6, <3>1 DEF Finalize
    <3>2. CASE ~(container \/ dog = {})
      <4> DEFINE ends == {Released(p, s.action) : p \in dog, s \in shutdown}
      <4>1. \A d \in ends : d \in [there : BOOLEAN, left : SUBSET Int, is : Nat]
        BY DEF Released
      <4>2. dev' = CHOOSE d \in ends : TRUE
        BY <1>6, <3>2 DEF Finalize
      <4>3. ends # {}
        BY <2>1, <3>2
      <4> QED BY <4>1, <4>2, <4>3
    <3> QED BY <3>1, <3>2
  <2> QED BY <2>1, <2>2
<1>7. CASE Elapse
  <2>1. now' = now + 1 /\ UNCHANGED <<woke, byBound, dog, shutdown, goingDown, pc, asked>>
    BY <1>7 DEF Elapse, ClocksAdvance, loopVars, unitVars
  <2>2. dev' = [dev EXCEPT !.left = {l - 1 : l \in @}]
    BY <1>7 DEF Elapse
  <2>3. {l - 1 : l \in dev.left} \in SUBSET Int
    OBVIOUS
  <2> QED BY <2>1, <2>2, <2>3
<1>8. CASE \E e \in UnitEvent : Happens(e)
  BY <1>8 DEF Happens, Outside, loopVars, deadlineVars, clockVars, dogVars
<1>9. CASE Signal
  BY <1>9 DEF Signal, Outside, loopVars, deadlineVars, clockVars, dogVars
<1>10. CASE DeviceAppears
  BY <1>10 DEF DeviceAppears, Outside, loopVars, deadlineVars, clockVars, unitVars
<1>11. CASE Aside
  BY <1>11 DEF Aside
<1> QED BY <1>1, <1>2, <1>3, <1>4, <1>5, <1>6, <1>7, <1>8, <1>9, <1>10, <1>11, StepKinds

LEMMA PaceStep ==
    ASSUME IInv, [Next]_vars
    PROVE  Pace'
<1> USE DEF Pace
<1>0. Typed /\ Pace
  BY DEF IInv
<1>a. now \in Nat /\ woke \in Nat /\ Slack \in Nat /\ ShutdownLimit \in Nat
         /\ \A s \in shutdown : s.since \in Nat
  BY <1>0, MainLoopAssumption DEF Typed, Option
<1>1. CASE Wake
  BY <1>0, <1>1, <1>a DEF Wake, Running, deadlineVars, clockVars, unitVars
<1>2. CASE ServeUnits
  BY <1>0, <1>2 DEF ServeUnits, Serving, deadlineVars, clockVars
<1>3. CASE ServeSignals
  <2>1. pc = "serve" /\ UNCHANGED <<now, pc, woke>>
    BY <1>3 DEF ServeSignals, Serving, Running, clockVars
  <2>2. \A s \in shutdown' : s \in shutdown \/ s.since = now
    BY <1>3 DEF ServeSignals
  <2> QED BY <1>0, <1>a, <2>1, <2>2
<1>4. CASE Hang
  BY <1>4 DEF Hang
<1>5. CASE EndTurn
  <2>1. UNCHANGED <<now, shutdown>> /\ pc' = IF Settled THEN "finalize" ELSE "wait"
    BY <1>5 DEF EndTurn, deadlineVars, clockVars, unitVars
  <2>2. ~Settled => \A s \in shutdown : ~(now - s.since > ShutdownLimit)
    BY <1>0 DEF Settled, Overdue, Typed
  <2> QED BY <1>a, <2>1, <2>2
<1>6. CASE Finalize
  BY <1>6 DEF Finalize
<1>7. CASE Elapse
  <2>1. now' = now + 1 /\ UNCHANGED <<pc, woke, shutdown>> /\ TimeMayPass
    BY <1>7 DEF Elapse, ClocksAdvance, loopVars, unitVars
  <2>2. CASE pc = "wait"
    <3> SUFFICES ASSUME NEW s \in shutdown PROVE now + 1 <= s.since + ShutdownLimit + 1
      BY <2>1, <2>2
    <3> DEFINE A == UNION {NextWake(p, now) : p \in dog}
               y == s.since + ShutdownLimit + 1
    <3>1. A \in Option(Int)
      <4>1. CASE dog = {}
        <5>1. A = {}
          BY <4>1
        <5> QED BY <5>1 DEF Option
      <4>2. CASE dog # {}
        <5>1. PICK p \in Policies : dog = {p}
          BY <1>0, <4>2 DEF Typed, Option
        <5>2. A = NextWake(p, now)
          BY <5>1
        <5> QED BY <5>2, <1>a, NextWakeIsOption
      <4> QED BY <4>1, <4>2
    <3>2. ShutdownBound \in Option(Int) /\ y \in ShutdownBound
      <4>1. \A x \in ShutdownBound : x \in Int
        BY <1>a DEF ShutdownBound
      <4>2. \A x, z \in ShutdownBound : x = z
        BY <1>0 DEF ShutdownBound, Typed, Option
      <4>3. y \in ShutdownBound
        BY DEF ShutdownBound
      <4> QED BY <4>1, <4>2, <4>3 DEF Option
    <3> HIDE DEF A
    <3>3. PICK w \in Least(A \cup ShutdownBound) : w <= y
      BY <3>1, <3>2, LeastOfTwo
    <3>4. w \in Int
      BY <3>1, <3>2 DEF Least, Option
    <3>5. now < w
      <4>1. WakeAt = Least(A \cup ShutdownBound)
        BY DEF WakeAt, A
      <4>2. \A x \in WakeAt : now < x
        BY <2>1, <2>2 DEF TimeMayPass
      <4> QED BY <3>3, <4>1, <4>2
    <3> QED BY <1>a, <3>3, <3>4, <3>5
  <2>3. CASE pc = "serve"
    BY <1>0, <1>a, <2>1, <2>3 DEF TimeMayPass
  <2> QED BY <2>1, <2>2, <2>3
<1>8. CASE \E e \in UnitEvent : Happens(e)
  BY <1>0, <1>8 DEF Happens, Outside, loopVars, deadlineVars, clockVars
<1>9. CASE Signal
  BY <1>0, <1>9 DEF Signal, Outside, loopVars, deadlineVars, clockVars
<1>10. CASE DeviceAppears
  BY <1>0, <1>10 DEF DeviceAppears, Outside, loopVars, deadlineVars, clockVars, unitVars
<1>11. CASE Aside
  BY <1>0, <1>11 DEF Aside
<1> QED BY <1>1, <1>2, <1>3, <1>4, <1>5, <1>6, <1>7, <1>8, <1>9, <1>10, <1>11, StepKinds

LEMMA ToldStep ==
    ASSUME IInv, [Next]_vars
    PROVE  Told'
<1> USE DEF Told
<1>0. Told
  BY DEF IInv
<1>1. CASE Wake
  BY <1>1 DEF Wake, unitVars, Readable, UnitEvent
<1>2. CASE ServeUnits
  BY <1>0, <1>2 DEF ServeUnits, Serving, UnitEvent
<1>3. CASE ServeSignals
  BY <1>0, <1>3 DEF ServeSignals, Serving, UnitEvent
<1>4. CASE Hang
  BY <1>4 DEF Hang
<1>5. CASE EndTurn
  BY <1>5 DEF EndTurn
<1>6. CASE Finalize
  BY <1>6 DEF Finalize
<1>7. CASE Elapse
  BY <1>0, <1>7 DEF Elapse, loopVars, unitVars
<1>8. CASE \E e \in UnitEvent : Happens(e)
  <2>1. PICK e \in UnitEvent : Happens(e)
    BY <1>8
  <2> QED BY <1>0, <2>1 DEF Happens, Outside, loopVars
<1>9. CASE Signal
  <2>1. asked # "Up"
    BY MainLoopAssumption DEF IInv, Typed
  <2> QED BY <1>0, <1>9, <2>1 DEF Signal, Outside, loopVars
<1>10. CASE DeviceAppears
  BY <1>0, <1>10 DEF DeviceAppears, Outside, loopVars, unitVars
<1>11. CASE Aside
  BY <1>0, <1>11 DEF Aside
<1> QED BY <1>1, <1>2, <1>3, <1>4, <1>5, <1>6, <1>7, <1>8, <1>9, <1>10, <1>11, StepKinds

LEMMA WokenForStep ==
    ASSUME IInv, [Next]_vars
    PROVE  WokenFor'
<1> USE DEF WokenFor
<1>0. WokenFor
  BY DEF IInv
<1> DEFINE Owed == \E w \in (UNION {NextWake(p, woke) : p \in dog}) \cup ShutdownBound : woke >= w
<1>a. ASSUME UNCHANGED <<woke, dog, shutdown>>
      PROVE  Owed => Owed'
  BY <1>a DEF ShutdownBound
<1>1. CASE Wake
  <2>1. UNCHANGED <<dog, shutdown>> /\ woke' = now /\ batch' = Readable
           /\ byBound' = (Readable = {})
           /\ (Readable # {} \/ \E w \in WakeAt : now >= w)
    BY <1>1 DEF Wake, dogVars, unitVars
  <2>2. WakeAt \subseteq (UNION {NextWake(p, now) : p \in dog}) \cup ShutdownBound
    BY DEF WakeAt, Least
  <2>3. ShutdownBound' = ShutdownBound
    BY <2>1 DEF ShutdownBound
  <2> QED BY <2>1, <2>2, <2>3
<1>2. CASE ServeUnits
  BY <1>0, <1>2 DEF ServeUnits, Serving, Running
<1>3. CASE ServeSignals
  BY <1>0, <1>3 DEF ServeSignals, Serving, Running
<1>4. CASE Hang
  BY <1>4 DEF Hang
<1>5. CASE EndTurn
  BY <1>5 DEF EndTurn
<1>6. CASE Finalize
  BY <1>6 DEF Finalize
<1>7. CASE Elapse
  BY <1>0, <1>7, <1>a DEF Elapse, loopVars, unitVars
<1>8. CASE \E e \in UnitEvent : Happens(e)
  BY <1>0, <1>8, <1>a DEF Happens, Outside, loopVars, dogVars
<1>9. CASE Signal
  BY <1>0, <1>9, <1>a DEF Signal, Outside, loopVars, dogVars
<1>10. CASE DeviceAppears
  BY <1>0, <1>10, <1>a DEF DeviceAppears, Outside, loopVars, unitVars
<1>11. CASE Aside
  BY <1>0, <1>11, <1>a DEF Aside
<1> QED BY <1>1, <1>2, <1>3, <1>4, <1>5, <1>6, <1>7, <1>8, <1>9, <1>10, <1>11, StepKinds

LEMMA Invariant == Spec => []IInv
<1>1. Init => IInv
  BY InitIInv
<1>2. IInv /\ [Next]_vars => IInv'
  BY TypedStep, PaceStep, ToldStep, WokenForStep DEF IInv
<1> QED BY <1>1, <1>2, PTL DEF Spec

-------------------------------------------------------------------------------
(* The theorems                                                              *)

(***************************************************************************)
(* Whatever units do, a shutdown is over its deadline by no more than a    *)
(* turn takes, whatever else bounds the loop's sleep (run,                 *)
(* Supervisor::wait_bound, Shutdown::remaining).                           *)
(***************************************************************************)
THEOREM ShutdownOnTime == Spec => []ShutdownBounded
<1>1. IInv => ShutdownBounded
  <2> SUFFICES ASSUME IInv, pc \in {"wait", "serve"}, NEW s \in shutdown
               PROVE  now <= s.since + ShutdownLimit + 1 + Slack
    BY DEF ShutdownBounded
  <2>1. now \in Nat /\ woke \in Nat /\ Slack \in Nat /\ ShutdownLimit \in Nat /\ s.since \in Nat
    BY MainLoopAssumption DEF IInv, Typed, Option
  <2> QED BY <2>1 DEF IInv, Pace
<1> QED BY <1>1, Invariant, PTL

(***************************************************************************)
(* A boot is found overdue only after its deadline, with no shutdown in    *)
(* progress, and never in a wake-up by which its unit was up: the handlers *)
(* of the batch run before the policy is asked (Policy::update_boot, run). *)
(***************************************************************************)
THEOREM NoBootPunished == Spec => NeverPunished
<1> DEFINE Fair == \A p \in dog, q \in dog' : p.boot = "Pending" /\ q.boot = "Overdue" =>
                      /\ \A d \in p.config.boot : now >= d
                      /\ "Up" \notin known
                      /\ ~goingDown
<1>1. IInv /\ [Next]_vars => Fair
  <2> SUFFICES ASSUME IInv, [Next]_vars, NEW p \in dog, NEW q \in dog',
                      p.boot = "Pending", q.boot = "Overdue"
               PROVE  /\ \A d \in p.config.boot : now >= d
                      /\ "Up" \notin known
                      /\ ~goingDown
    OBVIOUS
  <2>1. dog' # dog
    BY DEF IInv, Typed, Option
  <2>2. EndTurn
    BY <2>1, DogKept
  <2>3. PICK r \in Policies :
          /\ dog' = {r}
          /\ p.boot = "Pending" /\ r.boot = "Overdue" =>
                ~Seen("Up") /\ ~goingDown /\ \A d \in p.config.boot : now >= d
    BY <2>2, TurnFacts DEF IInv
  <2>4. ~Seen("Up") /\ ~goingDown /\ \A d \in p.config.boot : now >= d
    BY <2>3
  <2>5. "Up" \notin known
    BY <2>2, <2>4 DEF EndTurn, Running, IInv, Told, Seen
  <2> QED BY <2>4, <2>5
<1>2. IInv /\ [Next]_vars => [Fair]_vars
  BY <1>1
<1> HIDE DEF Fair
<1>3. Spec => [][Fair]_vars
  BY <1>2, Invariant, PTL DEF Spec
<1> QED BY <1>3 DEF NeverPunished, Fair

(***************************************************************************)
(* The verdict over a boot stays, and until the end of a shutdown nothing  *)
(* feeds an open device again (Policy::tick, update_boot).                 *)
(***************************************************************************)
THEOREM StarvedStays == Spec => StarvedForGood
<1> DEFINE Starved == \A p \in dog : p.boot = "Overdue" /\ p.open /\ pc # "finalize" =>
                         /\ \A q \in dog' : q.boot = "Overdue"
                         /\ \A l \in dev.left : \E k \in dev'.left : k <= l
<1>1. IInv /\ [Next]_vars => Starved
  <2> SUFFICES ASSUME IInv, [Next]_vars, NEW p \in dog, p.boot = "Overdue", p.open,
                      pc # "finalize"
               PROVE  /\ \A q \in dog' : q.boot = "Overdue"
                      /\ \A l \in dev.left : \E k \in dev'.left : k <= l
    OBVIOUS
  <2>1. dog = {p} /\ dev.left \subseteq Int
           /\ dev \in [there : BOOLEAN, left : SUBSET Int, is : Nat]
    BY DEF IInv, Typed, Option
  <2>2. CASE EndTurn
    <3>1. dev' = dev /\ \E q \in Policies : dog' = {q} /\ q.boot = p.boot
      BY <2>2, TurnFacts DEF IInv
    <3> QED BY <2>1, <3>1
  <2>3. CASE Elapse
    <3>1. dog' = dog /\ dev' = [dev EXCEPT !.left = {l - 1 : l \in @}]
      BY <2>3 DEF Elapse
    <3>2. dev'.left = {l - 1 : l \in dev.left}
      BY <2>1, <3>1
    <3>3. \A l \in dev.left : l - 1 \in dev'.left /\ l - 1 <= l
      BY <2>1, <3>2
    <3> QED BY <2>1, <3>1, <3>3
  <2>4. CASE DeviceAppears
    <3>1. dog' = dog /\ dev' = [dev EXCEPT !.there = TRUE]
      BY <2>4 DEF DeviceAppears
    <3>2. dev'.left = dev.left
      BY <2>1, <3>1
    <3> QED BY <2>1, <3>1, <3>2
  <2>5. CASE UNCHANGED <<dog, dev>>
    BY <2>1, <2>5
  <2>6. EndTurn \/ Elapse \/ DeviceAppears \/ UNCHANGED <<dog, dev>>
    BY DogKept DEF Finalize, Running
  <2> QED BY <2>2, <2>3, <2>4, <2>5, <2>6
<1>2. IInv /\ [Next]_vars => [Starved]_vars
  BY <1>1
<1> HIDE DEF Starved
<1>3. Spec => [][Starved]_vars
  BY <1>2, Invariant, PTL DEF Spec
<1> QED BY <1>3 DEF StarvedForGood, Starved

(***************************************************************************)
(* The loop never wakes in vain by a timeout it asked for: next_wake names *)
(* no moment at which tick finds nothing to do, and the bound of a         *)
(* shutdown lies past its deadline (wait_bound, remaining).                *)
(***************************************************************************)
THEOREM NoWakeInVain == Spec => NoSpin
<1> DEFINE Useful == EndTurn /\ byBound => dog' # dog \/ pc' = "finalize"
<1>1. IInv /\ [Next]_vars => Useful
  <2> SUFFICES ASSUME IInv, EndTurn, byBound PROVE dog' # dog \/ pc' = "finalize"
    OBVIOUS
  <2>1. pc = "serve" /\ pc' = IF Settled THEN "finalize" ELSE "wait"
    BY DEF EndTurn, Running
  <2>2. PICK w \in (UNION {NextWake(p, woke) : p \in dog}) \cup ShutdownBound : woke >= w
    BY <2>1 DEF IInv, WokenFor
  <2>3. woke <= now /\ woke \in Nat /\ now \in Nat
    BY <2>1 DEF IInv, Pace, Typed
  <2>4. CASE w \in UNION {NextWake(p, woke) : p \in dog}
    BY <2>2, <2>3, <2>4, TurnIsNotInVain DEF IInv
  <2>5. CASE w \in ShutdownBound
    <3>1. PICK s \in shutdown : w = s.since + ShutdownLimit + 1
      BY <2>5 DEF ShutdownBound
    <3>2. s.since \in Nat /\ ShutdownLimit \in Nat /\ goingDown
      BY MainLoopAssumption DEF IInv, Typed, Option
    <3>3. now - s.since > ShutdownLimit
      BY <2>2, <2>3, <3>1, <3>2
    <3> QED BY <2>1, <3>2, <3>3 DEF Settled, Overdue
  <2> QED BY <2>2, <2>4, <2>5
<1>2. IInv /\ [Next]_vars => [Useful]_vars
  BY <1>1
<1> HIDE DEF Useful
<1>3. Spec => [][Useful]_vars
  BY <1>2, Invariant, PTL DEF Spec
<1> QED BY <1>3 DEF NoSpin, Useful

-------------------------------------------------------------------------------
(* The device                                                                *)

(* The countdown is one or none, above zero as long as the machine is up; a  *)
(* device that is not there counts nothing down; what is open is there and   *)
(* has a timeout; a container opens none.                                    *)
Device ==
    /\ dev.left \in Option(Nat)
    /\ machine \in {"up", "reset"}
    /\ machine = "up" => dev.left # {0}
    /\ ~dev.there => dev.left = {}
    /\ \A p \in dog : p.open => dev.there /\ dev.is # 0
    /\ container => dog = {}

(* What feeds the device, by what its driver says.                           *)
FeedEvery(says) ==
    IF \E a \in says : a > 0
    THEN CHOOSE i \in {PetInterval(a) : a \in says} : TRUE
    ELSE UnknownInterval

LEMMA DeviceSteps ==
    ASSUME [Next]_vars
    PROVE  \/ EndTurn /\ UNCHANGED <<now, machine, shutdown, container>>
           \/ Finalize /\ UNCHANGED <<now, dog, machine, shutdown, container>>
           \/ Elapse /\ UNCHANGED <<pc, woke, dog, shutdown, container>>
           \/ DeviceAppears /\ UNCHANGED <<pc, woke, now, dog, machine, shutdown, container>>
           \/ Wake /\ UNCHANGED <<now, dog, dev, machine, shutdown, container>>
           \/ Hang /\ UNCHANGED <<now, dog, dev, machine, shutdown, container>>
           \/ /\ UNCHANGED <<pc, woke, now, dog, dev, machine, container>>
              /\ pc = "serve" \/ UNCHANGED shutdown
<1>1. CASE Wake
  BY <1>1 DEF Wake, deadlineVars, clockVars, dogVars, unitVars, setting
<1>2. CASE ServeUnits
  BY <1>2 DEF ServeUnits, Serving, deadlineVars, clockVars, dogVars, setting
<1>3. CASE ServeSignals
  BY <1>3 DEF ServeSignals, Serving, Running, clockVars, dogVars, setting
<1>4. CASE Hang
  BY <1>4 DEF Hang, deadlineVars, clockVars, dogVars, unitVars, setting
<1>5. CASE EndTurn
  <2>1. UNCHANGED <<now, machine, shutdown, container>>
    BY <1>5 DEF EndTurn, deadlineVars, clockVars, unitVars, setting
  <2> QED BY <1>5, <2>1
<1>6. CASE Finalize
  <2>1. UNCHANGED <<now, dog, machine, shutdown, container>>
    BY <1>6 DEF Finalize, deadlineVars, clockVars, unitVars, setting
  <2> QED BY <1>6, <2>1
<1>7. CASE Elapse
  <2>1. UNCHANGED <<pc, woke, dog, shutdown, container>>
    BY <1>7 DEF Elapse, loopVars, unitVars, setting
  <2> QED BY <1>7, <2>1
<1>8. CASE \E e \in UnitEvent : Happens(e)
  BY <1>8 DEF Happens, Outside, loopVars, deadlineVars, clockVars, dogVars, setting
<1>9. CASE Signal
  BY <1>9 DEF Signal, Outside, loopVars, deadlineVars, clockVars, dogVars, setting
<1>10. CASE DeviceAppears
  <2>1. UNCHANGED <<pc, woke, now, dog, machine, shutdown, container>>
    BY <1>10 DEF DeviceAppears, Outside, loopVars, deadlineVars, clockVars, unitVars, setting
  <2> QED BY <1>10, <2>1
<1>11. CASE Aside
  BY <1>11 DEF Aside
<1> QED BY <1>1, <1>2, <1>3, <1>4, <1>5, <1>6, <1>7, <1>8, <1>9, <1>10, <1>11, StepKinds

(* A turn opens the device, fails to, feeds it or leaves it alone; it leaves *)
(* alone one that is open if the boot is overdue or it was fed recently.     *)
LEMMA TurnFeeds ==
    ASSUME Typed, EndTurn, NEW p \in dog
    PROVE  \E q \in Policies :
        /\ dog' = {q}
        /\ p.boot = "Overdue" => q.boot = "Overdue"
        /\ \/ /\ ~p.open /\ q.open /\ dev.there /\ q.lastPet = {now}
              /\ \E r \in Replies : /\ q.interval = FeedEvery(r.says)
                                    /\ dev' = [dev EXCEPT !.left = {r.is}, !.is = r.is]
           \/ ~p.open /\ ~q.open /\ ~dev.there /\ dev' = dev
           \/ ~p.open /\ ~q.open /\ p.lastTry # {} /\ dev' = dev
           \/ /\ p.open /\ q.open /\ q.lastPet = {now} /\ q.interval = p.interval
              /\ dev' = [dev EXCEPT !.left = {dev.is}]
           \/ /\ p.open /\ q.open /\ q.lastPet = p.lastPet /\ q.interval = p.interval
              /\ dev' = dev
              /\ q.boot = "Overdue" \/ \E l \in p.lastPet : ~(now - l >= p.interval)
<1> DEFINE told    == IF goingDown THEN [p EXCEPT !.shuttingDown = TRUE] ELSE p
           current == UpdateBoot(told, now, Seen("Up"))
           ticked  == Ticked(current, now)
<1>1. p \in Policies /\ now \in Nat /\ Seen("Up") \in BOOLEAN
  BY DEF Typed, Option, Seen
<1>2. told \in Policies /\ told = [p EXCEPT !.shuttingDown = told.shuttingDown]
  BY <1>1 DEF Policies
<1> HIDE DEF told
<1>3. current \in Policies /\ current = [told EXCEPT !.boot = current.boot]
         /\ (told.boot # "Pending" => current = told)
  BY <1>1, <1>2, UpdateBootFacts
<1> HIDE DEF current
<1>4. /\ current.open = p.open /\ current.lastPet = p.lastPet
      /\ current.lastTry = p.lastTry /\ current.interval = p.interval
      /\ p.boot = "Overdue" => current.boot = "Overdue"
  BY <1>1, <1>2, <1>3 DEF Policies
<1>5. /\ ticked \in Policies /\ ticked.boot = current.boot
      /\ ticked = CASE Action(current, now) = "Open" -> [current EXCEPT !.lastTry = {now}]
                    [] Action(current, now) = "Pet"  -> [current EXCEPT !.lastPet = {now}]
                    [] OTHER -> current
  BY <1>1, <1>3, TickedFacts DEF Ticked
<1> HIDE DEF ticked
<1>6. TickDog(p)
  BY DEF EndTurn, Typed, Option
<1>7. /\ Action(current, now) \in {"Open", "Pet", "Nothing"}
      /\ Action(current, now) = "Open" => ~p.open
      /\ Action(current, now) = "Pet" => p.open
  BY <1>4 DEF Action
<1>8. CASE Action(current, now) = "Open"
  <2>1. PICK r \in Replies : Open(ticked, r)
    BY <1>6, <1>8 DEF TickDog, told, current, ticked
  <2>2. r.says \in Option(Even)
    BY MainLoopAssumption DEF Even
  <2>3. CASE dev.there
    <3> DEFINE q == Opened(ticked, now, r.says)
    <3>1. dog' = {q} /\ dev' = [dev EXCEPT !.left = {r.is}, !.is = r.is]
      BY <2>1, <2>3 DEF Open
    <3>2. q \in Policies /\ q.open /\ q.boot = ticked.boot
      BY <1>1, <1>5, <2>2, OpenedFacts
    <3>3. q = [ticked EXCEPT !.open = TRUE, !.lastPet = {now}, !.interval = FeedEvery(r.says)]
      BY DEF Opened, FeedEvery
    <3>4. q.lastPet = {now} /\ q.interval = FeedEvery(r.says)
      BY <1>5, <3>3 DEF Policies
    <3> HIDE DEF q
    <3> QED BY <1>4, <1>5, <1>7, <1>8, <2>3, <3>1, <3>2, <3>4
  <2>4. CASE ~dev.there
    <3> DEFINE q == OpenFailed(ticked, now)
    <3>1. dog' = {q} /\ dev' = dev
      BY <2>1, <2>4 DEF Open
    <3>2. q \in Policies /\ q.boot = ticked.boot
      BY <1>1, <1>5, <2>2, OpenedFacts
    <3>3. ticked.open = p.open
      BY <1>3, <1>4, <1>5, <1>8 DEF Policies
    <3>4. q.open = p.open
      BY <1>5, <3>3 DEF OpenFailed, Policies
    <3> HIDE DEF q
    <3> QED BY <1>4, <1>5, <1>7, <1>8, <2>4, <3>1, <3>2, <3>4
  <2> QED BY <2>3, <2>4
<1>9. CASE Action(current, now) = "Pet"
  <2>1. dog' = {ticked} /\ dev' = [dev EXCEPT !.left = {dev.is}]
    BY <1>6, <1>9 DEF TickDog, told, current, ticked
  <2>2. ticked.open = p.open /\ ticked.lastPet = {now} /\ ticked.interval = p.interval
    BY <1>3, <1>4, <1>5, <1>9 DEF Policies
  <2> QED BY <1>4, <1>5, <1>7, <1>9, <2>1, <2>2
<1>10. CASE Action(current, now) = "Nothing"
  <2>1. dog' = {ticked} /\ dev' = dev
    BY <1>6, <1>10 DEF TickDog, told, current, ticked
  <2>2. ticked = current
    BY <1>5, <1>10
  <2>3. ~p.open => p.lastTry # {}
    BY <1>4, <1>10 DEF Action, IsDue
  <2>4. p.open => ticked.boot = "Overdue" \/ \E l \in p.lastPet : ~(now - l >= p.interval)
    BY <1>4, <1>10, <2>2 DEF Action, IsDue
  <2>5. p.open \in BOOLEAN
    BY <1>1 DEF Policies
  <2> QED BY <1>4, <1>5, <2>1, <2>2, <2>3, <2>4, <2>5
<1> QED BY <1>7, <1>8, <1>9, <1>10

LEMMA ReleasedFacts ==
    ASSUME Typed, Finalize, ~container, dog # {}
    PROVE  \E p \in dog, s \in shutdown : dog = {p} /\ dev' = Released(p, s.action)
<1>1. PICK p \in dog, s \in shutdown : dog = {p} /\ shutdown = {s}
  BY DEF Typed, Option, Finalize, Running
<1>2. {Released(q, t.action) : q \in dog, t \in shutdown} = {Released(p, s.action)}
  BY <1>1
<1>3. dev' = CHOOSE d \in {Released(p, s.action)} : TRUE
  BY <1>2 DEF Finalize
<1> QED BY <1>1, <1>3

LEMMA InitDevice ==
    ASSUME Init
    PROVE  Device
<1>1. PICK there \in BOOLEAN, left \in Option(LeftRunning) :
         /\ ~there => left = {}
         /\ dev = [there |-> there, left |-> left, is |-> 0]
  BY DEF Init
<1>2. left \in Option(Nat) /\ left # {0}
  BY MainLoopAssumption DEF Option
<1>3. \A p \in dog : ~p.open
  BY DEF Init, Configured, NewPolicy
<1>4. container => dog = {}
  BY DEF Init, Configured
<1> QED BY <1>1, <1>2, <1>3, <1>4 DEF Device, Init

LEMMA DeviceStep ==
    ASSUME Typed, Device, [Next]_vars
    PROVE  Device'
<1>0. /\ dev \in [there : BOOLEAN, left : SUBSET Int, is : Nat]
      /\ {} \in Option(Nat) /\ \A n \in Nat : {n} \in Option(Nat)
  BY DEF Typed, Option
<1>1. CASE EndTurn /\ UNCHANGED <<now, machine, shutdown, container>>
  <2>1. CASE dog = {}
    BY <1>1, <2>1 DEF EndTurn, Device
  <2>2. CASE dog # {}
    <3>1. PICK p \in dog : dog = {p}
      BY <2>2 DEF Typed, Option
    <3>2. PICK q \in Policies :
             /\ dog' = {q}
             /\ \/ /\ q.open /\ dev.there
                   /\ \E r \in Replies : dev' = [dev EXCEPT !.left = {r.is}, !.is = r.is]
                \/ ~q.open /\ dev' = dev
                \/ p.open /\ q.open /\ dev' = [dev EXCEPT !.left = {dev.is}]
                \/ p.open /\ q.open /\ dev' = dev
      BY <1>1, <3>1, TurnFeeds
    <3>3. ~container
      BY <2>2 DEF Device
    <3>4. CASE q.open /\ dev.there
               /\ \E r \in Replies : dev' = [dev EXCEPT !.left = {r.is}, !.is = r.is]
      <4>1. PICK r \in Replies : dev' = [dev EXCEPT !.left = {r.is}, !.is = r.is]
        BY <3>4
      <4>2. r.is \in Nat \ {0}
        BY MainLoopAssumption
      <4>3. dev'.there = dev.there /\ dev'.left = {r.is} /\ dev'.is = r.is
        BY <1>0, <4>1
      <4> QED BY <1>0, <1>1, <3>2, <3>3, <3>4, <4>2, <4>3 DEF Device
    <3>5. CASE dev' = dev /\ (q.open => p.open)
      BY <1>1, <3>1, <3>2, <3>3, <3>5 DEF Device
    <3>6. CASE p.open /\ q.open /\ dev' = [dev EXCEPT !.left = {dev.is}]
      <4>1. dev'.there = dev.there /\ dev'.left = {dev.is} /\ dev'.is = dev.is
        BY <1>0, <3>6
      <4> QED BY <1>0, <1>1, <3>1, <3>2, <3>3, <3>6, <4>1 DEF Device
    <3> QED BY <3>2, <3>4, <3>5, <3>6
  <2> QED BY <2>1, <2>2
<1>2. CASE Finalize /\ UNCHANGED <<now, dog, machine, shutdown, container>>
  <2>1. CASE container \/ dog = {}
    BY <1>2, <2>1 DEF Finalize, Device
  <2>2. CASE ~(container \/ dog = {})
    <3>1. PICK p \in dog, s \in shutdown : dog = {p} /\ dev' = Released(p, s.action)
      BY <1>2, <2>2, ReleasedFacts
    <3>2. \/ dev' = dev
          \/ dev' = [dev EXCEPT !.left = {}]
          \/ p.open /\ dev' = [dev EXCEPT !.left = {dev.is}]
      BY <3>1 DEF Released
    <3>3. \/ dev' = dev
          \/ dev'.there = dev.there /\ dev'.is = dev.is /\ dev'.left = {}
          \/ /\ p.open /\ dev'.there = dev.there /\ dev'.is = dev.is
             /\ dev'.left = {dev.is}
      BY <1>0, <3>2
    <3> QED BY <1>0, <1>2, <3>1, <3>3 DEF Device
  <2> QED BY <2>1, <2>2
<1>3. CASE Elapse /\ UNCHANGED <<pc, woke, dog, shutdown, container>>
  <2>1. /\ machine = "up" /\ dev' = [dev EXCEPT !.left = {l - 1 : l \in dev.left}]
        /\ machine' = IF dev'.left = {0} THEN "reset" ELSE "up"
    BY <1>3 DEF Elapse
  <2>2. /\ dev'.there = dev.there /\ dev'.is = dev.is
        /\ dev'.left = {l - 1 : l \in dev.left}
    BY <1>0, <2>1
  <2>3. dev'.left \in Option(Nat) /\ (dev.left = {} => dev'.left = {})
    <3>1. CASE dev.left = {}
      BY <1>0, <2>2, <3>1
    <3>2. CASE dev.left # {}
      <4>1. PICK l \in Nat : dev.left = {l} /\ l # 0
        BY <2>1, <3>2 DEF Device, Option
      <4>2. dev'.left = {l - 1} /\ l - 1 \in Nat
        BY <2>2, <4>1
      <4> QED BY <1>0, <3>2, <4>2
    <3> QED BY <3>1, <3>2
  <2> QED BY <1>3, <2>1, <2>2, <2>3 DEF Device
<1>4. CASE DeviceAppears /\ UNCHANGED <<pc, woke, now, dog, machine, shutdown, container>>
  <2>1. dev' = [dev EXCEPT !.there = TRUE]
    BY <1>4 DEF DeviceAppears
  <2>2. dev'.there = TRUE /\ dev'.left = dev.left /\ dev'.is = dev.is
    BY <1>0, <2>1
  <2> QED BY <1>4, <2>2 DEF Device
<1>5. CASE UNCHANGED <<dog, dev, machine, container>>
  BY <1>5 DEF Device
<1> QED BY <1>1, <1>2, <1>3, <1>4, <1>5, DeviceSteps

LEMMA DeviceKept == Spec => []Device
<1>1. Init => Device
  BY InitDevice
<1>2. IInv /\ Device /\ [Next]_vars => Device'
  BY DeviceStep DEF IInv
<1> QED BY <1>1, <1>2, Invariant, PTL DEF Spec

-------------------------------------------------------------------------------
(* The watchdog is fed in time                                               *)

(* The handlers of a turn leave a feed its margin: half a timeout, or the    *)
(* guess at one, and what an initramfs left outlast a turn.                  *)
TurnsAreShort ==
    /\ \A r \in Replies : FeedEvery(r.says) + Slack < r.is
    /\ \A l \in LeftRunning : Slack < l

(* An open device was fed no longer ago than the interval when the loop      *)
(* sleeps or woke, and its countdown began then.                             *)
FedInTime(p) ==
    \E l \in Nat :
        /\ p.lastPet = {l}
        /\ l <= now
        /\ dev.left = {l + dev.is - now}
        /\ p.interval + Slack < dev.is
        /\ pc = "wait" => now <= l + p.interval
        /\ pc = "serve" => woke <= l + p.interval

(* What an initramfs left running, in the first turn.                        *)
FirstTurn(p) ==
    /\ woke = 0 /\ p.lastTry = {}
    /\ \E l \in LeftRunning : dev.left = {l - now}

Fed ==
    machine = "up" => \A p \in dog :
        \/ p.boot = "Overdue"
        \/ pc = "wait" /\ p.open /\ FedInTime(p)
        \/ pc = "wait" /\ ~p.open /\ dev.left = {}
        \/ pc = "serve" /\ p.open /\ FedInTime(p)
        \/ pc = "serve" /\ ~p.open /\ (dev.left = {} \/ FirstTurn(p))
        \/ pc = "finalize" /\ (p.open \/ dev.left = {})
        \/ pc \in {"hung", "shell"}
        \/ pc = "down" /\ (dev.left = {} \/ \E s \in shutdown : s.action = "Reboot")

LEMMA InitFed ==
    ASSUME Init
    PROVE  Fed
<1>1. PICK left \in Option(LeftRunning), there \in BOOLEAN :
         dev = [there |-> there, left |-> left, is |-> 0]
  BY DEF Init
<1>2. \A l \in LeftRunning : l \in Nat
  BY MainLoopAssumption
<1>3. now = 0 /\ woke = 0 /\ pc = "serve" /\ dev.left = left
  BY <1>1 DEF Init, DeadlinesInit
<1>4. left = {} \/ \E l \in LeftRunning : left = {l - now}
  BY <1>2, <1>3 DEF Option
<1>5. \A p \in dog : ~p.open /\ p.lastTry = {}
  BY DEF Init, Configured, NewPolicy
<1> QED BY <1>3, <1>4, <1>5 DEF Fed, FirstTurn

(* A moment the policy names for feeding is no later than its interval.      *)
LEMMA SleepIsBounded ==
    ASSUME Typed, NEW p \in dog, p.open, p.boot # "Overdue", NEW l \in Nat, p.lastPet = {l},
           \A w \in WakeAt : now < w
    PROVE  now < l + p.interval
<1>1. p \in Policies /\ dog = {p} /\ now \in Nat
  BY DEF Typed, Option
<1>2. p.interval \in Nat /\ p.config.boot \in Option(Int) /\ p.shuttingDown \in BOOLEAN
  BY <1>1 DEF Policies, Option
<1> DEFINE y == l + p.interval
           B == IF p.boot = "Pending" /\ ~p.shuttingDown THEN p.config.boot ELSE {}
<1>3. NextWake(p, now) = Least({y} \cup B)
  <2>1. {x + p.interval : x \in p.lastPet} = {y}
    OBVIOUS
  <2>2. p.lastPet # {}
    OBVIOUS
  <2> QED BY <2>1, <2>2 DEF NextWake
<1>4. {y} \in Option(Int) /\ B \in Option(Int) /\ y \in Int
  BY <1>2 DEF Option
<1> HIDE DEF y, B
<1>5. PICK v \in NextWake(p, now) : v <= y
  BY <1>3, <1>4, LeastOfTwo
<1>6. NextWake(p, now) \in Option(Int)
  BY <1>1, NextWakeIsOption
<1>7. ShutdownBound \in Option(Int)
  <2>1. \A s \in shutdown : s.since + ShutdownLimit + 1 \in Int
    BY MainLoopAssumption DEF Typed, Option
  <2>2. \A s, t \in shutdown : s = t
    BY DEF Typed, Option
  <2> QED BY <2>1, <2>2 DEF ShutdownBound, Option
<1>8. PICK w \in Least(NextWake(p, now) \cup ShutdownBound) : w <= v
  BY <1>5, <1>6, <1>7, LeastOfTwo
<1>9. WakeAt = Least(NextWake(p, now) \cup ShutdownBound)
  <2>1. UNION {NextWake(q, now) : q \in dog} = NextWake(p, now)
    BY <1>1
  <2> QED BY <2>1 DEF WakeAt
<1>10. now < w /\ w \in Int /\ v \in Int
  BY <1>6, <1>7, <1>8, <1>9 DEF Least, Option
<1>11. now < y
  BY <1>1, <1>4, <1>5, <1>8, <1>10
<1> QED BY <1>11 DEF y

(* A turn ends with a device that was just fed, or fed less than its interval *)
(* ago, or with none.                                                        *)
LEMMA EndTurnFed ==
    ASSUME TurnsAreShort, IInv, Device, Fed, EndTurn,
           UNCHANGED <<now, machine, shutdown, container>>
    PROVE  Fed'
<1>1. /\ machine = "up" /\ pc = "serve" /\ pc' \in {"wait", "finalize"}
      /\ dog = {} => dog' = {}
  BY DEF EndTurn, Running
<1>2. SUFFICES ASSUME NEW p \in dog PROVE Fed'
  BY <1>1 DEF Fed
<1>3. PICK q \in Policies :
         /\ dog' = {q}
         /\ p.boot = "Overdue" => q.boot = "Overdue"
         /\ \/ /\ ~p.open /\ q.open /\ dev.there /\ q.lastPet = {now}
               /\ \E r \in Replies : /\ q.interval = FeedEvery(r.says)
                                     /\ dev' = [dev EXCEPT !.left = {r.is}, !.is = r.is]
            \/ ~p.open /\ ~q.open /\ ~dev.there /\ dev' = dev
            \/ ~p.open /\ ~q.open /\ p.lastTry # {} /\ dev' = dev
            \/ /\ p.open /\ q.open /\ q.lastPet = {now} /\ q.interval = p.interval
               /\ dev' = [dev EXCEPT !.left = {dev.is}]
            \/ /\ p.open /\ q.open /\ q.lastPet = p.lastPet /\ q.interval = p.interval
               /\ dev' = dev
               /\ q.boot = "Overdue" \/ \E l \in p.lastPet : ~(now - l >= p.interval)
  BY TurnFeeds DEF IInv
<1>4. /\ dev \in [there : BOOLEAN, left : SUBSET Int, is : Nat] /\ now \in Nat
      /\ p \in Policies /\ q.interval \in Nat /\ p.interval \in Nat
  BY <1>3 DEF IInv, Typed, Option, Policies
<1>5. SUFFICES ASSUME q.boot # "Overdue"
               PROVE  \/ q.open /\ (pc' = "wait" => FedInTime(q)')
                      \/ ~q.open /\ dev'.left = {}
  BY <1>1, <1>3 DEF Fed
<1>6. p.boot # "Overdue"
  BY <1>3, <1>5
<1>7. CASE /\ ~p.open /\ q.open /\ q.lastPet = {now}
           /\ \E r \in Replies : /\ q.interval = FeedEvery(r.says)
                                 /\ dev' = [dev EXCEPT !.left = {r.is}, !.is = r.is]
  <2>1. PICK r \in Replies : /\ q.interval = FeedEvery(r.says)
                             /\ dev' = [dev EXCEPT !.left = {r.is}, !.is = r.is]
    BY <1>7
  <2>2. r.is \in Nat /\ q.interval + Slack < r.is
    BY <2>1, MainLoopAssumption DEF TurnsAreShort
  <2>3. dev'.left = {r.is} /\ dev'.is = r.is
    BY <1>4, <2>1
  <2>4. now + r.is - now = r.is /\ now <= now + q.interval
    BY <1>4, <2>2
  <2>5. ASSUME pc' = "wait" PROVE FedInTime(q)'
    BY <1>4, <1>7, <2>2, <2>3, <2>4, <2>5 DEF FedInTime
  <2> QED BY <1>7, <2>5
<1>8. CASE ~p.open /\ ~q.open /\ ~dev.there /\ dev' = dev
  BY <1>8 DEF Device
<1>9. CASE ~p.open /\ ~q.open /\ p.lastTry # {} /\ dev' = dev
  BY <1>1, <1>6, <1>9 DEF Fed, FirstTurn
<1>10. CASE /\ p.open /\ q.open /\ q.lastPet = {now} /\ q.interval = p.interval
            /\ dev' = [dev EXCEPT !.left = {dev.is}]
  <2>1. p.interval + Slack < dev.is
    BY <1>1, <1>6, <1>10 DEF Fed, FedInTime
  <2>2. dev'.left = {dev.is} /\ dev'.is = dev.is
    BY <1>4, <1>10
  <2>3. now + dev.is - now = dev.is /\ now <= now + q.interval
    BY <1>4
  <2>4. ASSUME pc' = "wait" PROVE FedInTime(q)'
    BY <1>4, <1>10, <2>1, <2>2, <2>3, <2>4 DEF FedInTime
  <2> QED BY <1>10, <2>4
<1>11. CASE /\ p.open /\ q.open /\ q.lastPet = p.lastPet /\ q.interval = p.interval
            /\ dev' = dev
            /\ \E l \in p.lastPet : ~(now - l >= p.interval)
  <2>1. PICK l \in Nat : /\ p.lastPet = {l} /\ l <= now
                         /\ dev.left = {l + dev.is - now}
                         /\ p.interval + Slack < dev.is
    BY <1>1, <1>6, <1>11 DEF Fed, FedInTime
  <2>2. now <= l + p.interval
    BY <1>4, <1>11, <2>1
  <2>3. ASSUME pc' = "wait" PROVE FedInTime(q)'
    BY <1>11, <2>1, <2>2, <2>3 DEF FedInTime
  <2> QED BY <1>11, <2>3
<1> QED BY <1>3, <1>5, <1>7, <1>8, <1>9, <1>10, <1>11

(* Time that passes leaves a countdown that was fed in time above zero.      *)
LEMMA ElapseFed ==
    ASSUME TurnsAreShort, IInv, Device, Fed, NoUnwantedReset, Elapse,
           UNCHANGED <<pc, woke, dog, shutdown, container>>
    PROVE  Fed' /\ NoUnwantedReset'
<1>1. /\ machine = "up" /\ dev' = [dev EXCEPT !.left = {l - 1 : l \in dev.left}]
      /\ machine' = IF dev'.left = {0} THEN "reset" ELSE "up"
      /\ now' = now + 1 /\ TimeMayPass
  BY DEF Elapse, ClocksAdvance
<1>2. /\ dev \in [there : BOOLEAN, left : SUBSET Int, is : Nat] /\ now \in Nat /\ woke \in Nat
      /\ Slack \in Nat
  BY MainLoopAssumption DEF IInv, Typed
<1>3. dev'.left = {l - 1 : l \in dev.left} /\ dev'.is = dev.is
  BY <1>1, <1>2
<1>4. ASSUME dev.left = {} PROVE dev'.left = {}
  BY <1>3, <1>4
<1>5. ASSUME NEW p \in dog
      PROVE  /\ \/ p.boot = "Overdue"
                \/ pc = "wait" /\ p.open /\ FedInTime(p)'
                \/ pc = "wait" /\ ~p.open /\ dev'.left = {}
                \/ pc = "serve" /\ p.open /\ FedInTime(p)'
                \/ pc = "serve" /\ ~p.open /\ (dev'.left = {} \/ FirstTurn(p)')
                \/ pc = "finalize" /\ (p.open \/ dev'.left = {})
                \/ pc \in {"hung", "shell"}
                \/ pc = "down" /\ (dev'.left = {} \/ \E s \in shutdown : s.action = "Reboot")
             /\ dev'.left = {0} =>
                   \/ p.boot = "Overdue"
                   \/ pc \in {"hung", "shell", "finalize"}
                   \/ pc = "down" /\ \E s \in shutdown : s.action = "Reboot"
  <2>1. CASE pc \in {"wait", "serve"} /\ p.open /\ FedInTime(p) /\ p.boot # "Overdue"
    <3>1. PICK l \in Nat :
            /\ p.lastPet = {l} /\ l <= now
            /\ dev.left = {l + dev.is - now}
            /\ p.interval + Slack < dev.is
            /\ pc = "wait" => now <= l + p.interval
            /\ pc = "serve" => woke <= l + p.interval
      BY <2>1 DEF FedInTime
    <3>2. p.interval \in Nat /\ p \in Policies
      BY DEF IInv, Typed, Option, Policies
    <3>3. dev'.left = {l + dev.is - (now + 1)}
      <4>1. dev'.left = {(l + dev.is - now) - 1}
        BY <1>3, <3>1
      <4>2. (l + dev.is - now) - 1 = l + dev.is - (now + 1)
        BY <1>2
      <4> QED BY <4>1, <4>2
    <3>4. pc = "wait" => now + 1 <= l + p.interval
      <4> SUFFICES ASSUME pc = "wait" PROVE now + 1 <= l + p.interval
        OBVIOUS
      <4>1. \A w \in WakeAt : now < w
        BY <1>1 DEF TimeMayPass
      <4>2. now < l + p.interval
        BY <2>1, <3>1, <4>1, SleepIsBounded DEF IInv
      <4> QED BY <1>2, <3>2, <4>2
    <3>5. pc = "serve" => now + 1 <= l + p.interval + Slack
      <4>1. pc = "serve" => now < woke + Slack
        BY <1>1 DEF TimeMayPass
      <4> QED BY <1>2, <3>1, <3>2, <4>1
    <3>6. l + dev.is - (now + 1) # 0
      BY <1>2, <2>1, <3>1, <3>2, <3>4, <3>5
    <3>7. FedInTime(p)'
      <4>1. l <= now + 1
        BY <1>2, <3>1
      <4> QED BY <1>1, <1>3, <3>1, <3>3, <3>4, <4>1 DEF FedInTime
    <3>8. dev'.left # {0}
      BY <3>3, <3>6
    <3> QED BY <2>1, <3>7, <3>8
  <2>2. CASE pc = "serve" /\ ~p.open /\ FirstTurn(p) /\ p.boot # "Overdue"
    <3>1. PICK l \in LeftRunning : dev.left = {l - now}
      BY <2>2 DEF FirstTurn
    <3>2. l \in Nat /\ Slack < l
      BY MainLoopAssumption DEF TurnsAreShort
    <3>3. dev'.left = {l - (now + 1)}
      <4>1. dev'.left = {(l - now) - 1} /\ (l - now) - 1 = l - (now + 1)
        BY <1>2, <1>3, <3>1, <3>2
      <4> QED BY <4>1
    <3>4. now < woke + Slack /\ woke = 0
      BY <1>1, <2>2 DEF TimeMayPass, FirstTurn
    <3>5. l - (now + 1) # 0
      BY <1>2, <3>2, <3>4
    <3>6. FirstTurn(p)'
      BY <1>1, <2>2, <3>3 DEF FirstTurn
    <3>7. dev'.left # {0}
      BY <3>3, <3>5
    <3> QED BY <2>2, <3>6, <3>7
  <2>3. CASE p.boot = "Overdue"
    BY <2>3
  <2>4. CASE dev.left = {}
    <3>1. dev'.left = {} /\ dev'.left # {0}
      BY <1>4, <2>4
    <3> QED BY <1>1, <2>1, <2>3, <2>4, <3>1 DEF Fed
  <2> QED BY <1>1, <2>1, <2>2, <2>3, <2>4 DEF Fed
<1>6. Fed'
  BY <1>5 DEF Fed
<1>7. NoUnwantedReset'
  <2> SUFFICES ASSUME machine' = "reset", NEW p \in dog
               PROVE  \/ p.boot = "Overdue"
                      \/ pc \in {"hung", "shell", "finalize"}
                      \/ pc = "down" /\ \E s \in shutdown : s.action = "Reboot"
    BY DEF NoUnwantedReset
  <2>1. dev'.left = {0}
    BY <1>1
  <2> QED BY <1>5, <2>1
<1> QED BY <1>6, <1>7

(* The end of a shutdown stops what nobody feeds any more, or leaves it to    *)
(* finish a reboot.                                                          *)
LEMMA FinalizeFed ==
    ASSUME IInv, Device, Fed, Finalize, UNCHANGED <<dog, machine, shutdown, container>>
    PROVE  Fed'
<1>1. machine = "up" /\ pc = "finalize" /\ pc' \in {"down", "shell"}
  BY DEF Finalize, Running
<1>2. SUFFICES ASSUME NEW p \in dog, p.boot # "Overdue"
               PROVE  dev'.left = {} \/ \E s \in shutdown : s.action = "Reboot"
  BY <1>1 DEF Fed
<1>3. PICK s \in shutdown : dev' = Released(p, s.action)
  BY <1>2, ReleasedFacts DEF Device, IInv
<1>4. dev \in [there : BOOLEAN, left : SUBSET Int, is : Nat]
  BY DEF IInv, Typed
<1>5. CASE s.action = "Reboot"
  BY <1>5
<1>6. CASE s.action # "Reboot"
  <2>1. dev' = IF ~p.open THEN dev ELSE [dev EXCEPT !.left = {}]
    BY <1>3, <1>6 DEF Released, Release
  <2>2. ~p.open => dev.left = {}
    BY <1>1, <1>2 DEF Fed
  <2> QED BY <1>4, <2>1, <2>2
<1> QED BY <1>5, <1>6

LEMMA FedStep ==
    ASSUME TurnsAreShort, IInv, Device, Fed, NoUnwantedReset, [Next]_vars
    PROVE  Fed' /\ NoUnwantedReset'
<1>1. CASE Elapse /\ UNCHANGED <<pc, woke, dog, shutdown, container>>
  BY <1>1, ElapseFed
<1>2. CASE EndTurn /\ UNCHANGED <<now, machine, shutdown, container>>
  BY <1>2, EndTurnFed DEF EndTurn, Running, NoUnwantedReset
<1>3. CASE Finalize /\ UNCHANGED <<now, dog, machine, shutdown, container>>
  BY <1>3, FinalizeFed DEF Finalize, Running, NoUnwantedReset
<1>4. CASE DeviceAppears /\ UNCHANGED <<pc, woke, now, dog, machine, shutdown, container>>
  <2>1. dev'.left = dev.left /\ dev'.is = dev.is /\ machine = "up"
    BY <1>4 DEF DeviceAppears, Outside, IInv, Typed
  <2> QED BY <1>4, <2>1 DEF Fed, FedInTime, FirstTurn, NoUnwantedReset
<1>5. CASE Wake /\ UNCHANGED <<now, dog, dev, machine, shutdown, container>>
  <2>1. pc = "wait" /\ pc' = "serve" /\ woke' = now /\ machine = "up"
    BY <1>5 DEF Wake, Running
  <2> QED BY <1>5, <2>1 DEF Fed, FedInTime, FirstTurn, NoUnwantedReset
<1>6. CASE Hang /\ UNCHANGED <<now, dog, dev, machine, shutdown, container>>
  BY <1>6 DEF Hang, Running, Fed, NoUnwantedReset
<1>7. CASE /\ UNCHANGED <<pc, woke, now, dog, dev, machine, container>>
           /\ pc = "serve" \/ UNCHANGED shutdown
  BY <1>7 DEF Fed, FedInTime, FirstTurn, NoUnwantedReset
<1> QED BY <1>1, <1>2, <1>3, <1>4, <1>5, <1>6, <1>7, DeviceSteps

(***************************************************************************)
(* If the handlers of a turn together take less than a feed leaves, the    *)
(* hardware never resets a machine that no one wanted reset: for every     *)
(* layering of the settings, every timeout a driver settles on, a device   *)
(* that is there late or was left running, and however long the boot, the  *)
(* shutdown and the sleeps of the loop are (Policy::tick, next_wake,       *)
(* release).                                                               *)
(***************************************************************************)
THEOREM NoOneIsReset ==
    ASSUME TurnsAreShort
    PROVE  Spec => []NoUnwantedReset
<1>1. Init => Fed /\ NoUnwantedReset
  BY InitFed DEF Init, NoUnwantedReset
<1>2. IInv /\ Device /\ Fed /\ NoUnwantedReset /\ [Next]_vars => Fed' /\ NoUnwantedReset'
  BY FedStep
<1> QED BY <1>1, <1>2, Invariant, DeviceKept, PTL DEF Spec

-------------------------------------------------------------------------------
(* Arithmetic of calendars                                                   *)

LEMMA Division ==
    ASSUME NEW a \in Int, NEW b \in Nat \ {0}
    PROVE  /\ a % b \in 0..(b - 1)
           /\ a \div b \in Int
           /\ a = (b * (a \div b)) + (a % b)
  OBVIOUS

LEMMA DivisionIsUnique ==
    ASSUME NEW b \in Nat \ {0}, NEW q \in Int, NEW r \in 0..(b - 1), NEW a,
           a = (b * q) + r
    PROVE  a % b = r
  OBVIOUS

(* Rounding up stops at the first multiple.                                  *)
LEMMA RoundUpIsFirst ==
    ASSUME NEW n \in Int, NEW s \in Nat \ {0}
    PROVE  /\ RoundUp(n, s) \in Int
           /\ RoundUp(n, s) >= n
           /\ RoundUp(n, s) % s = 0
           /\ \A x \in n..(RoundUp(n, s) - 1) : x % s # 0
<1> DEFINE q == n \div s
           r == n % s
<1>1. q \in Int /\ r \in 0..(s - 1) /\ n = (s * q) + r
  BY Division
<1> HIDE DEF q, r
<1>2. CASE r = 0
  BY <1>1, <1>2 DEF RoundUp, r
<1>3. CASE r # 0
  <2>1. RoundUp(n, s) = n + (s - r)
    BY <1>3 DEF RoundUp, r
  <2>2. n + (s - r) = (s * (q + 1)) + 0
    BY <1>1
  <2>3. (n + (s - r)) % s = 0
    BY <1>1, <2>2, DivisionIsUnique
  <2>4. ASSUME NEW x \in n..(n + (s - r) - 1) PROVE x % s # 0
    <3>1. x = (s * q) + (r + (x - n)) /\ r + (x - n) \in 0..(s - 1)
      BY <1>1
    <3>2. x % s = r + (x - n)
      <4> DEFINE e == r + (x - n)
      <4>1. e \in 0..(s - 1) /\ x = (s * q) + e
        BY <3>1
      <4> HIDE DEF e
      <4>2. x % s = e
        BY <1>1, <4>1, DivisionIsUnique
      <4> QED BY <4>2 DEF e
    <3> QED BY <1>1, <1>3, <3>2
  <2> QED BY <1>1, <2>1, <2>3, <2>4
<1> QED BY <1>2, <1>3

(* A Monday of the epoch is a multiple of a week, from three days before it. *)
LEMMA MondayIsAWeekOn ==
    ASSUME NEW x \in Int
    PROVE  (x + WeekShift) % Week = 0 <=> x % Day = 0 /\ (x \div Day + 4) % 7 = 1
<1> DEFINE q == x \div Day
           r == x % Day
           p == (q + 3) \div 7
           d == (q + 3) % 7
<1>1. Day \in Nat \ {0} /\ q \in Int /\ r \in 0..(Day - 1) /\ x = (Day * q) + r
  BY Division, CalendarAssumption
<1> HIDE DEF q, r
<1>2. p \in Int /\ d \in 0..6 /\ q + 3 = (7 * p) + d
  BY <1>1, Division
<1>3. d = 0 <=> (q + 4) % 7 = 1
  BY <1>1, <1>2
<1> HIDE DEF p, d
<1>4. x + WeekShift = (Week * p) + ((Day * d) + r)
  <2>1. x + WeekShift = (Day * q) + r + (3 * Day)
    BY <1>1 DEF WeekShift, Week
  <2>2. Day * (q + 3) = (Day * q) + (3 * Day)
    BY <1>1
  <2>3. Day * (q + 3) = (Day * (7 * p)) + (Day * d)
    BY <1>1, <1>2
  <2>4. Day * (7 * p) = Week * p
    BY <1>1, <1>2 DEF Week
  <2>5. Day * d \in Int /\ Week * p \in Int /\ Day * q \in Int
    BY <1>1, <1>2 DEF Week
  <2> QED BY <1>1, <2>1, <2>2, <2>3, <2>4, <2>5
<1>5. (Day * d) + r \in 0..(Week - 1) /\ ((Day * d) + r = 0 <=> d = 0 /\ r = 0)
  BY <1>1, <1>2 DEF Week
<1>6. Week \in Nat \ {0}
  BY <1>1 DEF Week
<1>7. (x + WeekShift) % Week = (Day * d) + r
  <2> DEFINE e == (Day * d) + r
             y == x + WeekShift
  <2>1. e \in 0..(Week - 1) /\ y = (Week * p) + e
    BY <1>4, <1>5
  <2> HIDE DEF e, y
  <2>2. y % Week = e
    BY <1>2, <1>6, <2>1, DivisionIsUnique
  <2> QED BY <2>2 DEF e, y
<1> QED BY <1>3, <1>5, <1>7 DEF q, r

LEMMA NextAtIsFirst ==
    ASSUME NEW c \in Calendars, NEW n \in Nat
    PROVE  /\ NextAt(c, n) \in Nat
           /\ NextAt(c, n) >= n
           /\ Names(c, NextAt(c, n))
           /\ \A x \in n..(NextAt(c, n) - 1) : ~Names(c, x)
<1>1. Hour \in Nat \ {0} /\ Day \in Nat \ {0} /\ c.offset \in 0..(Day - 1)
         /\ c.every \in {"hourly", "daily", "weekly", "at"}
  BY CalendarAssumption DEF Calendars
<1>2. CASE c.every = "hourly"
  BY <1>1, <1>2, RoundUpIsFirst DEF NextAt, Names
<1>3. CASE c.every = "daily"
  BY <1>1, <1>3, RoundUpIsFirst DEF NextAt, Names
<1>4. CASE c.every = "weekly"
  <2> DEFINE k == WeekShift
             y == RoundUp(n + k, Week)
  <2>1. k \in Nat /\ Week \in Nat \ {0}
    BY <1>1 DEF WeekShift, Week
  <2>2. NextAt(c, n) = y - k
    BY <1>4 DEF NextAt
  <2> HIDE DEF k
  <2>3. y \in Int /\ y >= n + k /\ y % Week = 0
        /\ \A z \in (n + k)..(y - 1) : z % Week # 0
    BY <2>1, RoundUpIsFirst
  <2> HIDE DEF y
  <2>4. \A x \in Int : Names(c, x) <=> (x + k) % Week = 0
    BY <1>4, MondayIsAWeekOn DEF Names, k
  <2>5. Names(c, y - k)
    <3>1. (y - k) + k = y /\ y - k \in Int
      BY <2>1, <2>3
    <3> QED BY <2>3, <2>4, <3>1
  <2>6. ASSUME NEW x \in n..((y - k) - 1) PROVE ~Names(c, x)
    <3>1. x + k \in (n + k)..(y - 1) /\ x \in Int
      BY <2>1, <2>3
    <3> QED BY <2>3, <2>4, <3>1
  <2> QED BY <2>1, <2>2, <2>3, <2>5, <2>6
<1>5. CASE c.every = "at"
  <2> DEFINE q == n \div Day
             r == n % Day
             o == c.offset
  <2>1. q \in Int /\ r \in 0..(Day - 1) /\ n = (Day * q) + r
    BY <1>1, Division
  <2> HIDE DEF q, r
  <2>2. n - (n % Day) = Day * q
    BY <1>1, <2>1 DEF r
  <2>3. NextAt(c, n) = IF (Day * q) + o >= n THEN (Day * q) + o ELSE (Day * q) + Day + o
    BY <1>5, <2>2 DEF NextAt
  <2>4. \A x : Names(c, x) <=> x % Day = o
    BY <1>5 DEF Names
  <2>5. CASE o >= r
    <3>1. NextAt(c, n) = (Day * q) + o
      BY <1>1, <2>1, <2>3, <2>5
    <3>2. \A e \in 0..(Day - 1) : ((Day * q) + e) % Day = e
      BY <1>1, <2>1, DivisionIsUnique
    <3>3. ASSUME NEW x \in n..((Day * q) + o - 1) PROVE x % Day # o
      <4> DEFINE e == r + (x - n)
      <4>1. x = (Day * q) + e /\ e \in 0..(Day - 1) /\ e < o
        BY <1>1, <2>1
      <4> HIDE DEF e
      <4> QED BY <3>2, <4>1
    <3> HIDE DEF o
    <3> QED BY SMTT(20), <1>1, <2>1, <2>4, <2>5, <3>1, <3>2, <3>3 DEF o
  <2>6. CASE o < r
    <3>1. NextAt(c, n) = (Day * q) + Day + o
      BY <1>1, <2>1, <2>3, <2>6
    <3>2. (Day * q) + Day + o = (Day * (q + 1)) + o
      BY <1>1, <2>1
    <3>3. \A p \in Int, e \in 0..(Day - 1) : ((Day * p) + e) % Day = e
      BY <1>1, DivisionIsUnique
    <3>4. ((Day * q) + Day + o) % Day = o
      <4>1. q + 1 \in Int /\ o \in 0..(Day - 1)
        BY <1>1, <2>1
      <4> HIDE DEF o
      <4> QED BY <3>2, <3>3, <4>1
    <3> DEFINE m == (Day * q) + Day + o
    <3>5. ASSUME NEW x \in n..(m - 1) PROVE x % Day # o
      <4> DEFINE e == r + (x - n)
      <4>1. x = (Day * q) + e /\ e \in Int /\ r <= e /\ e < Day + o
        BY <1>1, <2>1
      <4> HIDE DEF e
      <4>2. CASE e < Day
        <5>1. e \in 0..(Day - 1)
          BY <1>1, <2>1, <4>1, <4>2
        <5>2. x % Day = e
          BY <2>1, <3>3, <4>1, <5>1
        <5> QED BY <1>1, <2>1, <2>6, <4>1, <5>2
      <4>3. CASE e >= Day
        <5> DEFINE f == e - Day
        <5>1. f \in 0..(Day - 1) /\ f < o
          BY <1>1, <2>1, <4>1, <4>3
        <5>2. x = (Day * (q + 1)) + f
          BY <1>1, <2>1, <4>1
        <5> HIDE DEF f
        <5>3. x % Day = f
          BY <2>1, <3>3, <5>1, <5>2
        <5> QED BY <1>1, <5>1, <5>3
      <4> QED BY <1>1, <4>1, <4>2, <4>3
    <3>6. m \in Int /\ m >= n
      BY <1>1, <2>1
    <3>7. m % Day = o
      BY <3>4
    <3>8. NextAt(c, n) = m
      BY <3>1
    <3> HIDE DEF m
    <3> QED BY <2>4, <3>5, <3>6, <3>7, <3>8
  <2> QED BY <1>1, <2>1, <2>5, <2>6
<1> QED BY <1>1, <1>2, <1>3, <1>4, <1>5

-------------------------------------------------------------------------------
(* Schedules                                                                 *)

LEMMA SoonerFacts ==
    ASSUME NEW delay \in Option(Nat), NEW at \in Option(Nat), NEW n \in Nat
    PROVE  /\ Sooner(delay, at, n) \in Option(Firing)
           /\ delay # {} \/ at # {} => Sooner(delay, at, n) # {}
<1>1. /\ delay \subseteq Nat /\ at \subseteq Nat
      /\ (\A x, y \in delay : x = y) /\ (\A x, y \in at : x = y)
  BY DEF Option
<1>2. \A f \in Sooner(delay, at, n) :
         \/ \E d \in delay : f = After(d) /\ \A m \in at : n + d <= m
         \/ \E m \in at : f = At(m) /\ \A d \in delay : n + d > m
  BY DEF Sooner
<1>3. /\ \A d \in Nat : After(d) \in Firing
      /\ \A m \in Nat : At(m) \in Firing
  BY DEF After, At, Firing
<1>4. \A f, g \in Sooner(delay, at, n) : f = g
  BY <1>1, <1>2
<1>5. Sooner(delay, at, n) \subseteq Firing
  BY <1>1, <1>2, <1>3
<1>6. ASSUME NEW d \in delay PROVE Sooner(delay, at, n) # {}
  <2>1. CASE \A m \in at : n + d <= m
    BY <1>1, <2>1 DEF Sooner
  <2>2. CASE \E m \in at : ~(n + d <= m)
    BY <1>1, <2>2 DEF Sooner
  <2> QED BY <2>1, <2>2
<1>7. ASSUME NEW m \in at, delay = {} PROVE Sooner(delay, at, n) # {}
  BY <1>7 DEF Sooner
<1> QED BY <1>4, <1>5, <1>6, <1>7 DEF Option

LEMMA CalendarAtFacts ==
    ASSUME NEW s \in Schedules, NEW n \in Nat
    PROVE  /\ CalendarAt(s, n) \in Option(Nat)
           /\ s.calendar # {} => CalendarAt(s, n) # {}
<1>1. s.calendar \subseteq Calendars /\ \A x, y \in s.calendar : x = y
  BY DEF Schedules, Option
<1>2. \A c \in s.calendar : NextAt(c, n + 1) \in Nat
  BY <1>1, NextAtIsFirst
<1> QED BY <1>1, <1>2 DEF CalendarAt, Option

(* A schedule names at most one next moment, and one that repeats names one. *)
LEMMA FiringFacts ==
    ASSUME NEW t \in Timers, NEW n \in Nat
    PROVE  /\ FirstFiring(Schedule[t], n) \in Option(Firing)
           /\ NextFiring(Schedule[t], n) \in Option(Firing)
           /\ Repeats(Schedule[t]) => /\ FirstFiring(Schedule[t], n) # {}
                                      /\ NextFiring(Schedule[t], n) # {}
<1> DEFINE s == Schedule[t]
           first == IF s.onBoot # {} THEN s.onBoot ELSE s.interval
<1>1. s \in Schedules
  BY DeadlinesAssumption
<1>2. /\ s.onBoot \in Option(Nat) /\ s.interval \in Option(Nat)
      /\ first \in Option(Nat) /\ (s.interval # {} => first # {})
  BY <1>1 DEF Schedules
<1>3. /\ CalendarAt(s, n) \in Option(Nat)
      /\ s.calendar # {} => CalendarAt(s, n) # {}
  BY <1>1, CalendarAtFacts
<1>4. FirstFiring(s, n) = Sooner(first, CalendarAt(s, n), n)
  BY DEF FirstFiring
<1>5. NextFiring(s, n) = Sooner(s.interval, CalendarAt(s, n), n)
  BY DEF NextFiring
<1> HIDE DEF s, first
<1> QED BY <1>2, <1>3, <1>4, <1>5, SoonerFacts DEF Repeats, s

-------------------------------------------------------------------------------
(* The timerfds                                                              *)

Fd == [due : Option(Nat), readable : BOOLEAN]

WallFd == [due : Option(Nat), readable : BOOLEAN, told : BOOLEAN, set : BOOLEAN]

(* The timerfd of a heap wakes the loop for its earliest entry, or has.      *)
Wakes(h, f) == f.readable \/ f.due = Earliest(h)

LEMMA EarliestIsOption ==
    ASSUME NEW h \in SUBSET Entries
    PROVE  Earliest(h) \in Option(Nat)
<1>1. \A e \in h : e.at \in Nat
  BY DEF Entries
<1>2. \A m \in Earliest(h) : \E e \in h : m = e.at /\ \A y \in h : e.at <= y.at
  BY DEF Earliest
<1> QED BY <1>1, <1>2 DEF Option

LEMMA ExpireFacts ==
    ASSUME NEW f, f \in Fd \/ f \in WallFd, NEW t \in Nat
    PROVE  /\ f \in Fd => Expire(f, t) \in Fd
           /\ f \in WallFd => /\ Expire(f, t) \in WallFd
                              /\ Expire(f, t).told = f.told
                              /\ Expire(f, t).set = f.set
           /\ \A h : Wakes(h, f) => Wakes(h, Expire(f, t))
<1> DEFINE left == {m \in f.due : m > t}
           fires == f.readable \/ \E m \in f.due : m <= t
           e == Expire(f, t)
<1>1. f.due \subseteq Nat /\ \A x, y \in f.due : x = y
  BY DEF Fd, WallFd, Option
<1>2. left \in Option(Nat) /\ fires \in BOOLEAN
  BY <1>1 DEF Fd, WallFd, Option
<1>3. e = [f EXCEPT !.due = left, !.readable = fires]
  BY DEF Expire
<1>4. ~fires => left = f.due
  BY <1>1
<1> HIDE DEF left, fires
<1>5. f \in Fd => e \in Fd /\ e.due = left /\ e.readable = fires
  BY <1>2, <1>3 DEF Fd
<1>6. f \in WallFd => e \in WallFd /\ e.told = f.told /\ e.set = f.set
                      /\ e.due = left /\ e.readable = fires
  BY <1>2, <1>3 DEF WallFd
<1>7. f.readable => fires
  BY DEF fires
<1> HIDE DEF e
<1> QED BY <1>4, <1>5, <1>6, <1>7 DEF Wakes, e

LEMMA ArmedFdFacts ==
    ASSUME NEW h \in SUBSET Entries, NEW t \in Nat
    PROVE  Armed(h, t) \in Fd /\ Wakes(h, Armed(h, t))
<1> DEFINE f == [due |-> Earliest(h), readable |-> FALSE]
<1>1. f \in Fd /\ Wakes(h, f)
  BY EarliestIsOption DEF Fd, Wakes
<1>2. Armed(h, t) = Expire(f, t)
  BY DEF Armed
<1> HIDE DEF f
<1> QED BY <1>1, <1>2, ExpireFacts

LEMMA WallArmedFacts ==
    ASSUME NEW h \in SUBSET Entries, NEW f \in WallFd, wall \in Nat
    PROVE  /\ WallArmed(h, f) \in WallFd
           /\ Wakes(h, WallArmed(h, f))
           /\ WallArmed(h, f).told <=> h # {}
           /\ WallArmed(h, f).set <=> h = {} /\ f.set
<1> DEFINE g == [due |-> Earliest(h), readable |-> FALSE, told |-> h # {},
                 set |-> h = {} /\ f.set]
<1>1. (h # {}) \in BOOLEAN /\ (h = {} /\ f.set) \in BOOLEAN
  OBVIOUS
<1>2. g \in WallFd /\ Wakes(h, g)
  BY <1>1, EarliestIsOption DEF WallFd, Wakes
<1>3. WallArmed(h, f) = Expire(g, wall)
  BY DEF WallArmed
<1>4. (g.told <=> h # {}) /\ (g.set <=> h = {} /\ f.set)
  OBVIOUS
<1> HIDE DEF g
<1> QED BY <1>2, <1>3, <1>4, ExpireFacts

-------------------------------------------------------------------------------
(* What a step does to the deadlines                                         *)

LEMMA DeadlineSteps ==
    ASSUME [Next]_vars
    PROVE  \/ \E t \in Timers : StartTimer(t) \/ ServiceEnds(t)
           \/ \E j \in Jobs : ScheduleJob(j)
           \/ OnTimer
           \/ OnWallTimer
           \/ WallPop
           \/ \E e \in fired : Handle(e) /\ UNCHANGED goingDown
           \/ ClocksAdvance
           \/ \E w \in Nat : SetClock(w)
           \/ /\ goingDown' \in {goingDown, TRUE}
              /\ UNCHANGED <<now, wall, steps, heap, wallHeap, fd, wallFd, reading,
                             fired, starts, running, listed, lost>>
<1> DEFINE Quiet == UNCHANGED <<now, wall, steps, heap, wallHeap, fd, wallFd, reading,
                                fired, starts, running, listed, lost>>
<1>1. ASSUME UNCHANGED deadlineVars PROVE Quiet /\ goingDown' = goingDown
  BY <1>1 DEF deadlineVars, clockVars, serviceVars
<1>2. CASE \/ Wake \/ ServeUnits \/ Hang \/ EndTurn \/ Finalize \/ Signal \/ DeviceAppears
           \/ (\E e \in UnitEvent : Happens(e)) \/ UNCHANGED vars
  <2>1. UNCHANGED deadlineVars
    BY <1>2 DEF Wake, ServeUnits, Hang, EndTurn, Finalize, Signal, DeviceAppears,
                Happens, vars
  <2> QED BY <1>1, <2>1
<1>3. CASE ServeTimer
  BY <1>3 DEF ServeTimer
<1>4. CASE ServeWallTimer
  BY <1>4 DEF ServeWallTimer
<1>5. CASE GoOn
  <2>1. \A e : Handle(e) => UNCHANGED goingDown
    BY DEF Handle, TimerElapsed, JobDone
  <2> QED BY <1>5, <2>1 DEF GoOn
<1>6. CASE HandlersSchedule
  BY <1>6 DEF HandlersSchedule
<1>7. CASE ServeSignals
  BY <1>7 DEF ServeSignals, clockVars, serviceVars
<1>8. CASE Elapse
  BY <1>8 DEF Elapse
<1>9. CASE ClockIsSet
  BY <1>9 DEF ClockIsSet
<1>10. CASE ServiceOfTimerEnds
  BY <1>10 DEF ServiceOfTimerEnds
<1> QED BY <1>2, <1>3, <1>4, <1>5, <1>6, <1>7, <1>8, <1>9, <1>10 DEF Next

(* The deadlines as a whole: typed; the realtime timerfd wants to be told of *)
(* a clock set as long as something waits for that clock; and between the    *)
(* read and the pop, what was read is no later than the clock, or the clock  *)
(* was set and nobody was told.                                              *)
Read ==
    reading # {} =>
        /\ fired = {}
        /\ \A seen \in reading : wallHeap # {} => wallFd.set \/ seen <= wall

DInv ==
    /\ TypeOK
    /\ wallFd.told <=> wallHeap # {}
    /\ heap # {} => Wakes(heap, fd)
    /\ wallHeap # {} => reading # {} \/ Wakes(wallHeap, wallFd)
    /\ Read

(* The alarms a chain is given: at most one, and one if there is a next.     *)
Given(t, chain, next) ==
    {[clock |-> n.clock, at |-> (IF n.clock = "mono" THEN now ELSE 0) + n.when,
      unit |-> t, chain |-> chain] : n \in next}

LEMMA GivenFacts ==
    ASSUME now \in Nat, NEW t \in Timers, NEW chain \in Nat, NEW next \in Option(Firing)
    PROVE  /\ Given(t, chain, next) \in Option(Entries)
           /\ next # {} => Given(t, chain, next) # {}
           /\ \A e \in Given(t, chain, next) : e.unit = t /\ e.chain = chain
<1>1. next \subseteq Firing /\ \A m, n \in next : m = n
  BY DEF Option
<1> DEFINE g(n) == [clock |-> n.clock, at |-> (IF n.clock = "mono" THEN now ELSE 0) + n.when,
                    unit |-> t, chain |-> chain]
<1>2. ASSUME NEW n \in Firing
      PROVE  g(n) \in Entries /\ g(n).unit = t /\ g(n).chain = chain
  BY DEF Entries, Firing, Owners
<1>3. Given(t, chain, next) = {g(n) : n \in next}
  BY DEF Given
<1> HIDE DEF g
<1> QED BY <1>1, <1>2, <1>3 DEF Option

LEMMA ArmTimerFacts ==
    ASSUME DInv, NEW t \in Timers, NEW chain \in Nat, NEW next \in Option(Firing),
           ArmTimer(t, chain, next), UNCHANGED <<now, wall>>
    PROVE  /\ heap' \in SUBSET {e \in Entries : e.clock = "mono"}
           /\ wallHeap' \in SUBSET {e \in Entries : e.clock = "wall"}
           /\ heap \subseteq heap' /\ wallHeap \subseteq wallHeap'
           /\ heap' \cup wallHeap' = heap \cup wallHeap \cup Given(t, chain, next)
           /\ fd' \in Fd /\ wallFd' \in WallFd
           /\ listed' \in [Timers -> Option(Firing)]
           /\ wallFd'.told <=> wallHeap' # {}
           /\ wallFd'.set \in {wallFd.set, FALSE}
           /\ heap' # {} => Wakes(heap', fd')
           /\ wallHeap' # {} => Wakes(wallHeap', wallFd') \/ reading # {}
<1> DEFINE mono == {e \in Given(t, chain, next) : e.clock = "mono"}
           abs  == {e \in Given(t, chain, next) : e.clock = "wall"}
<1>1. /\ now \in Nat /\ wall \in Nat /\ fd \in Fd /\ wallFd \in WallFd
      /\ heap \subseteq {e \in Entries : e.clock = "mono"}
      /\ wallHeap \subseteq {e \in Entries : e.clock = "wall"}
      /\ listed \in [Timers -> Option(Firing)]
  BY DEF DInv, TypeOK, Fd, WallFd
<1>2. Given(t, chain, next) \subseteq Entries
  BY <1>1, GivenFacts DEF Option
<1>3. Given(t, chain, next) = mono \cup abs
  BY <1>2 DEF Entries
<1>4. next \subseteq Firing
  BY DEF Option
<1>5. mono = {[clock |-> "mono", at |-> now + n.when, unit |-> t, chain |-> chain] :
                 n \in {m \in next : m.clock = "mono"}}
  BY DEF Given
<1>6. abs = {[clock |-> "wall", at |-> 0 + n.when, unit |-> t, chain |-> chain] :
                n \in {m \in next : m.clock = "wall"}}
  BY DEF Given
<1>7. /\ heap' = heap \cup mono
      /\ wallHeap' = wallHeap \cup abs
      /\ fd' = IF mono # {} THEN Armed(heap', now) ELSE fd
      /\ wallFd' = IF abs # {} THEN WallArmed(wallHeap', wallFd) ELSE wallFd
      /\ listed' = IF abs # {} /\ ArmFails(wallHeap', wallFd)
                   THEN listed ELSE [listed EXCEPT ![t] = next]
  BY <1>5, <1>6 DEF ArmTimer
<1>8. /\ mono \subseteq {e \in Entries : e.clock = "mono"}
      /\ abs \subseteq {e \in Entries : e.clock = "wall"}
  BY <1>2
<1> HIDE DEF mono, abs
<1>9. /\ heap' \in SUBSET {e \in Entries : e.clock = "mono"} /\ heap' \in SUBSET Entries
      /\ wallHeap' \in SUBSET {e \in Entries : e.clock = "wall"}
      /\ wallHeap' \in SUBSET Entries
  BY <1>1, <1>7, <1>8
<1>10. fd' \in Fd /\ (heap' # {} => Wakes(heap', fd'))
  BY <1>1, <1>7, <1>9, ArmedFdFacts DEF DInv
<1>11. CASE abs = {}
  BY <1>1, <1>3, <1>7, <1>9, <1>10, <1>11 DEF DInv
<1>12. CASE abs # {}
  <2>1. /\ wallFd' \in WallFd /\ Wakes(wallHeap', wallFd')
        /\ wallFd'.told <=> wallHeap' # {}
        /\ wallFd'.set <=> wallHeap' = {} /\ wallFd.set
    BY <1>1, <1>7, <1>9, <1>12, WallArmedFacts
  <2>2. wallFd'.set \in {wallFd.set, FALSE}
    BY <1>7, <1>12, <2>1 DEF WallFd
  <2> QED BY <1>1, <1>3, <1>7, <1>9, <1>10, <2>1, <2>2
<1> QED BY <1>11, <1>12

-------------------------------------------------------------------------------
(* Every step keeps the deadlines                                            *)

(* The types of the deadlines, as the lemmas above name them.                *)
LEMMA DTypes ==
    TypeOK <=>
        /\ now \in Nat /\ wall \in Nat /\ steps \in Nat
        /\ heap \in SUBSET {e \in Entries : e.clock = "mono"}
        /\ wallHeap \in SUBSET {e \in Entries : e.clock = "wall"}
        /\ heap \in SUBSET Entries /\ wallHeap \in SUBSET Entries
        /\ fd \in Fd /\ wallFd \in WallFd
        /\ reading \in Option(Nat)
        /\ fired \subseteq Entries
        /\ starts \in [Owners -> Nat]
        /\ running \subseteq Timers
        /\ listed \in [Timers -> Option(Firing)]
        /\ lost \subseteq Entries
        /\ goingDown \in BOOLEAN
  BY DEF TypeOK, Fd, WallFd

LEMMA InitDInv == Init => DInv
<1> SUFFICES ASSUME Init PROVE DInv
  OBVIOUS
<1>1. DeadlinesInit /\ starts = [o \in Owners |-> 0]
  BY DEF Init
<1>2. \A S : {} \in Option(S)
  BY DEF Option
<1>3. TypeOK
  <2>1. fd \in Fd /\ wallFd \in WallFd
    BY <1>1, <1>2 DEF DeadlinesInit, Fd, WallFd
  <2> QED BY <1>1, <1>2, <2>1, DTypes, DeadlinesAssumption DEF DeadlinesInit
<1> QED BY <1>1, <1>3 DEF DInv, DeadlinesInit, Read

LEMMA StartTimerKeeps ==
    ASSUME DInv, NEW t \in Timers, StartTimer(t)
    PROVE  DInv'
<1> DEFINE next == FirstFiring(Schedule[t], wall)
<1>1. /\ ArmTimer(t, starts'[t], next) /\ starts' = [starts EXCEPT ![t] = starts[t] + 1]
      /\ UNCHANGED <<now, wall, steps, reading, fired, running, lost, goingDown>>
      /\ reading = {}
  BY DEF StartTimer, clockVars, InHandler
<1>2. TypeOK
  BY DEF DInv
<1>3. starts' \in [Owners -> Nat] /\ starts'[t] \in Nat
  BY <1>1, <1>2, DTypes DEF Owners
<1>4. next \in Option(Firing)
  BY <1>2, DTypes, FiringFacts
<1> HIDE DEF next
<1>5. /\ heap' \in SUBSET {e \in Entries : e.clock = "mono"}
      /\ wallHeap' \in SUBSET {e \in Entries : e.clock = "wall"}
      /\ fd' \in Fd /\ wallFd' \in WallFd /\ listed' \in [Timers -> Option(Firing)]
      /\ wallFd'.told <=> wallHeap' # {}
      /\ heap' # {} => Wakes(heap', fd')
      /\ wallHeap' # {} => Wakes(wallHeap', wallFd') \/ reading # {}
  BY <1>1, <1>3, <1>4, ArmTimerFacts
<1>6. TypeOK'
  BY <1>1, <1>2, <1>3, <1>5, DTypes DEF TypeOK, Fd, WallFd
<1> QED BY <1>1, <1>5, <1>6 DEF DInv, Read, Wakes, Earliest

LEMMA ScheduleJobKeeps ==
    ASSUME DInv, NEW j \in Jobs, ScheduleJob(j)
    PROVE  DInv'
<1> DEFINE e == [clock |-> "mono", at |-> now + JobDelay[j], unit |-> j, chain |-> 1]
<1>1. /\ heap' = heap \cup {e} /\ fd' = Armed(heap', now)
      /\ starts' = [starts EXCEPT ![j] = 1]
      /\ UNCHANGED <<now, wall, steps, wallHeap, wallFd, reading, fired, running, listed,
                     lost, goingDown>>
  BY DEF ScheduleJob, clockVars
<1>2. TypeOK
  BY DEF DInv
<1>3. e \in Entries /\ e.clock = "mono"
  BY <1>2, DeadlinesAssumption DEF Entries, Owners, TypeOK
<1> HIDE DEF e
<1>4. heap' \in SUBSET Entries /\ heap' \in SUBSET {x \in Entries : x.clock = "mono"}
  BY <1>1, <1>2, <1>3, DTypes
<1>5. fd' \in Fd /\ Wakes(heap', fd')
  BY <1>1, <1>2, <1>4, DTypes, ArmedFdFacts
<1>6. starts' \in [Owners -> Nat]
  BY <1>1, <1>2, DTypes
<1>7. TypeOK'
  BY <1>1, <1>2, <1>4, <1>5, <1>6 DEF TypeOK, Fd
<1> QED BY <1>1, <1>5, <1>7 DEF DInv, Read, Wakes, Earliest

LEMMA OnTimerKeeps ==
    ASSUME DInv, OnTimer
    PROVE  DInv'
<1>1. /\ heap' = heap \ Passed(heap, now) /\ fd' = Armed(heap', now)
      /\ fired' = Passed(heap, now)
      /\ UNCHANGED <<now, wall, steps, wallHeap, wallFd, reading, starts, running, listed,
                     lost, goingDown>>
      /\ reading = {}
  BY DEF OnTimer, clockVars, serviceVars, InHandler
<1>2. TypeOK
  BY DEF DInv
<1>3. Passed(heap, now) \subseteq heap
  BY DEF Passed
<1>4. heap' \in SUBSET Entries /\ heap' \subseteq heap /\ fired' \subseteq Entries
  BY <1>1, <1>2, <1>3, DTypes
<1>5. fd' \in Fd /\ Wakes(heap', fd')
  BY <1>1, <1>2, <1>4, DTypes, ArmedFdFacts
<1>6. TypeOK'
  BY <1>1, <1>2, <1>4, <1>5 DEF TypeOK, Fd
<1> QED BY <1>1, <1>5, <1>6 DEF DInv, Read, Wakes, Earliest

LEMMA OnWallTimerKeeps ==
    ASSUME DInv, OnWallTimer
    PROVE  DInv'
<1>1. /\ UNCHANGED <<now, wall, steps, heap, wallHeap, fd, fired, starts, running, listed,
                     lost, goingDown>>
      /\ reading = {} /\ fired = {}
  BY DEF OnWallTimer, clockVars, serviceVars, InHandler
<1>2. TypeOK /\ wallFd \in WallFd /\ wall \in Nat /\ wallHeap \in SUBSET Entries
  BY DTypes DEF DInv
<1>3. CASE wallFd.told /\ wallFd.set
  <2> DEFINE f == [wallFd EXCEPT !.set = FALSE]
  <2>1. f \in WallFd
    BY <1>2 DEF WallFd
  <2>2. wallFd' = WallArmed(wallHeap, f) /\ reading' = reading
    BY <1>3 DEF OnWallTimer
  <2> HIDE DEF f
  <2>3. /\ wallFd' \in WallFd /\ Wakes(wallHeap, wallFd')
        /\ wallFd'.told <=> wallHeap # {}
    BY <1>2, <2>1, <2>2, WallArmedFacts
  <2>4. TypeOK'
    BY <1>1, <1>2, <2>2, <2>3 DEF TypeOK, WallFd
  <2> QED BY <1>1, <2>2, <2>3, <2>4 DEF DInv, Read, Wakes, Earliest
<1>4. CASE ~(wallFd.told /\ wallFd.set)
  <2>1. wallFd' = [wallFd EXCEPT !.readable = FALSE] /\ reading' = {wall}
    BY <1>4 DEF OnWallTimer
  <2>2. wallFd' \in WallFd /\ wallFd'.told = wallFd.told /\ wallFd'.set = wallFd.set
    BY <1>2, <2>1 DEF WallFd
  <2>3. reading' \in Option(Nat)
    BY <1>2, <2>1 DEF Option
  <2>4. TypeOK'
    BY <1>1, <1>2, <2>2, <2>3 DEF TypeOK, WallFd
  <2> QED BY <1>1, <1>2, <2>1, <2>2, <2>4 DEF DInv, Read, Wakes, Earliest
<1> QED BY <1>3, <1>4

LEMMA WallPopKeeps ==
    ASSUME DInv, WallPop
    PROVE  DInv'
<1>1. PICK seen \in reading :
         /\ wallHeap' = wallHeap \ Passed(wallHeap, seen)
         /\ wallFd' = WallArmed(wallHeap', wallFd)
         /\ fired' \in {{}, Passed(wallHeap, seen)}
         /\ lost' \in {lost, lost \cup Passed(wallHeap, seen)}
  BY DEF WallPop
<1>2. /\ reading' = {}
      /\ UNCHANGED <<now, wall, steps, heap, fd, starts, running, listed, goingDown>>
  BY DEF WallPop, clockVars
<1>3. TypeOK /\ wallFd \in WallFd /\ wall \in Nat
  BY DTypes DEF DInv
<1>4. Passed(wallHeap, seen) \subseteq wallHeap
  BY DEF Passed
<1>5. /\ wallHeap' \in SUBSET Entries /\ wallHeap' \subseteq wallHeap
      /\ fired' \subseteq Entries /\ lost' \subseteq Entries
  BY <1>1, <1>3, <1>4, DTypes
<1>6. wallFd' \in WallFd /\ Wakes(wallHeap', wallFd') /\ (wallFd'.told <=> wallHeap' # {})
  BY <1>1, <1>3, <1>5, WallArmedFacts
<1>7. reading' \in Option(Nat)
  BY <1>2 DEF Option
<1>8. TypeOK'
  BY <1>2, <1>3, <1>5, <1>6, <1>7 DEF TypeOK, WallFd
<1> QED BY <1>2, <1>6, <1>8 DEF DInv, Read, Wakes, Earliest

LEMMA HandleKeeps ==
    ASSUME DInv, NEW e \in fired, Handle(e)
    PROVE  DInv'
<1>1. TypeOK /\ reading = {}
  BY DEF DInv, Read
<1>2. fired' = fired \ {e} /\ UNCHANGED <<now, wall, steps, reading, starts, lost>>
  BY DEF Handle, TimerElapsed, JobDone, clockVars, serviceVars
<1>3. CASE UNCHANGED <<heap, wallHeap, fd, wallFd, listed, running, goingDown>>
  <2>1. TypeOK'
    BY <1>1, <1>2, <1>3 DEF TypeOK
  <2> QED BY <1>1, <1>2, <1>3, <2>1 DEF DInv, Read, Wakes, Earliest
<1>4. CASE /\ e.unit \in Timers
           /\ ArmTimer(e.unit, e.chain, Again(e.unit))
           /\ running' = running \cup {e.unit} /\ goingDown' = goingDown
  <2> DEFINE next == Again(e.unit)
  <2>1. e.chain \in Nat /\ wall \in Nat
    BY <1>1, DTypes DEF Entries
  <2>2. next \in Option(Firing)
    BY <1>4, <2>1, FiringFacts DEF Again
  <2>3. ArmTimer(e.unit, e.chain, next)
    BY <1>4
  <2> HIDE DEF next
  <2>4. /\ heap' \in SUBSET {x \in Entries : x.clock = "mono"}
        /\ wallHeap' \in SUBSET {x \in Entries : x.clock = "wall"}
        /\ fd' \in Fd /\ wallFd' \in WallFd /\ listed' \in [Timers -> Option(Firing)]
        /\ wallFd'.told <=> wallHeap' # {}
        /\ heap' # {} => Wakes(heap', fd')
        /\ wallHeap' # {} => Wakes(wallHeap', wallFd') \/ reading # {}
    BY <1>2, <1>4, <2>1, <2>2, <2>3, ArmTimerFacts
  <2>5. TypeOK'
    BY <1>1, <1>2, <1>4, <2>4 DEF TypeOK, Fd, WallFd
  <2> QED BY <1>1, <1>2, <2>4, <2>5 DEF DInv, Read, Wakes, Earliest
<1> QED BY <1>3, <1>4 DEF Handle, TimerElapsed, JobDone, serviceVars

LEMMA TimeKeeps ==
    ASSUME DInv, ClocksAdvance \/ \E w \in Nat : SetClock(w)
    PROVE  DInv'
<1>1. TypeOK /\ fd \in Fd /\ wallFd \in WallFd /\ now \in Nat /\ wall \in Nat
         /\ reading \in Option(Nat)
  BY DTypes DEF DInv
<1>2. UNCHANGED <<heap, wallHeap, reading, fired, starts, running, listed, lost, goingDown>>
  BY DEF ClocksAdvance, SetClock, serviceVars
<1>3. CASE ClocksAdvance
  <2>1. /\ now' = now + 1 /\ wall' = wall + 1 /\ steps' = steps
        /\ fd' = Expire(fd, now') /\ wallFd' = Expire(wallFd, wall')
        /\ now' \in Nat /\ wall' \in Nat
    BY <1>1, <1>3 DEF ClocksAdvance
  <2>2. /\ fd' \in Fd /\ wallFd' \in WallFd
        /\ wallFd'.told = wallFd.told /\ wallFd'.set = wallFd.set
        /\ Wakes(heap, fd) => Wakes(heap, fd')
        /\ Wakes(wallHeap, wallFd) => Wakes(wallHeap, wallFd')
    BY <1>1, <2>1, ExpireFacts
  <2>3. TypeOK'
    BY <1>1, <1>2, <2>1, <2>2 DEF TypeOK, Fd, WallFd
  <2>4. Read'
    <3>1. \A seen \in reading : seen \in Nat
      BY <1>1 DEF Option
    <3> QED BY <1>1, <1>2, <2>1, <2>2, <3>1 DEF DInv, Read
  <2> QED BY <1>2, <2>2, <2>3, <2>4 DEF DInv, Wakes, Earliest
<1>4. CASE \E w \in Nat : SetClock(w)
  <2>1. PICK w \in Nat : SetClock(w)
    BY <1>4
  <2> DEFINE f == Expire(wallFd, w)
  <2>2. /\ f \in WallFd /\ f.told = wallFd.told /\ f.set = wallFd.set
        /\ Wakes(wallHeap, wallFd) => Wakes(wallHeap, f)
    BY <1>1, ExpireFacts
  <2>3. /\ wall' = w /\ steps' = steps + 1 /\ now' = now /\ fd' = fd
        /\ wallFd' = [f EXCEPT !.set = f.set \/ f.told, !.readable = f.readable \/ f.told]
    BY <2>1 DEF SetClock
  <2> HIDE DEF f
  <2>4. /\ wallFd' \in WallFd /\ wallFd'.told = f.told /\ wallFd'.due = f.due
        /\ f.readable => wallFd'.readable
        /\ f.told => wallFd'.set /\ wallFd'.readable
    BY <2>2, <2>3 DEF WallFd
  <2>5. TypeOK'
    BY <1>1, <1>2, <2>3, <2>4 DEF TypeOK, WallFd
  <2>6. Read'
    BY <1>2, <2>2, <2>4 DEF DInv, Read
  <2> QED BY <1>2, <2>2, <2>3, <2>4, <2>5, <2>6 DEF DInv, Wakes, Earliest
<1> QED BY <1>3, <1>4

LEMMA DInvStep ==
    ASSUME DInv, [Next]_vars
    PROVE  DInv'
<1>1. CASE \E t \in Timers : ServiceEnds(t)
  <2>1. TypeOK'
    BY <1>1 DEF ServiceEnds, clockVars, DInv, TypeOK
  <2> QED BY <1>1, <2>1 DEF ServiceEnds, clockVars, DInv, Read, Wakes, Earliest
<1>2. CASE /\ goingDown' \in {goingDown, TRUE}
           /\ UNCHANGED <<now, wall, steps, heap, wallHeap, fd, wallFd, reading,
                          fired, starts, running, listed, lost>>
  <2>1. TypeOK'
    BY <1>2 DEF DInv, TypeOK
  <2> QED BY <1>2, <2>1 DEF DInv, Read, Wakes, Earliest
<1> QED BY <1>1, <1>2, DeadlineSteps, StartTimerKeeps, ScheduleJobKeeps, OnTimerKeeps,
           OnWallTimerKeeps, WallPopKeeps, HandleKeeps, TimeKeeps

LEMMA DeadlinesKept == Spec => []DInv
  BY InitDInv, DInvStep, PTL DEF Spec

-------------------------------------------------------------------------------
(* The theorems                                                              *)

(***************************************************************************)
(* Whatever is in a heap, the loop is woken for it: its timerfd is         *)
(* readable or armed for the earliest entry, or wall_expired is about to   *)
(* rearm it, whatever is scheduled between an expiry and its read and      *)
(* whenever the clock is set (arm, arm_wall, expired, wall_expired).       *)
(***************************************************************************)
THEOREM DeadlinesCovered == Spec => []Covered
<1>1. DInv => Covered
  BY DEF DInv, Covered, Wakes
<1> QED BY <1>1, DeadlinesKept, PTL

(***************************************************************************)
(* Whatever the clock is and is set to, a calendar answers the first       *)
(* moment that its words name, for every length of an hour and a day       *)
(* (next_at).                                                              *)
(***************************************************************************)
THEOREM CalendarNamesFirst == Spec => []FirstNamed
<1>1. DInv => FirstNamed
  BY NextAtIsFirst DEF DInv, TypeOK, FirstNamed
<1> QED BY <1>1, DeadlinesKept, PTL

-------------------------------------------------------------------------------
(* The heaps and the timerfds are an alarm clock                             *)

LEMMA InitPromise == Init => Promise!Init
<1> SUFFICES ASSUME Init PROVE Promise!Init
  OBVIOUS
<1>1. DeadlinesInit
  BY DEF Init
<1> QED BY <1>1, DeadlinesAssumption DEF DeadlinesInit, Promise!Init

(* Whatever the supervisor schedules is an alarm that is set.                *)
LEMMA ArmTimerSets ==
    ASSUME DInv, DInv', NEW t \in Timers, NEW chain \in Nat, NEW next \in Option(Firing),
           ArmTimer(t, chain, next), UNCHANGED <<now, wall>>, fired' \subseteq fired
    PROVE  Promise!Set
<1>1. /\ heap \subseteq heap' /\ wallHeap \subseteq wallHeap'
      /\ wallFd'.set \in {wallFd.set, FALSE}
  BY ArmTimerFacts
<1>2. heap' \subseteq Entries /\ wallHeap' \subseteq Entries
  BY DEF DInv, TypeOK
<1> QED BY <1>1, <1>2 DEF Promise!Set

LEMMA StartTimerSets ==
    ASSUME DInv, DInv', NEW t \in Timers, StartTimer(t)
    PROVE  Promise!Set
<1> DEFINE next == FirstFiring(Schedule[t], wall)
<1>1. /\ ArmTimer(t, starts'[t], next)
      /\ UNCHANGED <<now, wall, fired>>
  BY DEF StartTimer, clockVars
<1>2. starts'[t] \in Nat
  BY DEF DInv, TypeOK, Owners
<1>3. next \in Option(Firing)
  BY DTypes, FiringFacts DEF DInv
<1> HIDE DEF next
<1> QED BY <1>1, <1>2, <1>3, ArmTimerSets

LEMMA ScheduleJobSets ==
    ASSUME DInv', NEW j \in Jobs, ScheduleJob(j)
    PROVE  Promise!Set
<1>1. heap' \subseteq Entries /\ wallHeap' \subseteq Entries
  BY DEF DInv, TypeOK
<1> QED BY <1>1 DEF ScheduleJob, clockVars, Promise!Set

LEMMA HandleSets ==
    ASSUME DInv, DInv', NEW e \in fired, Handle(e)
    PROVE  Promise!Set
<1>1. fired' = fired \ {e} /\ UNCHANGED <<now, wall>>
  BY DEF Handle, TimerElapsed, JobDone, clockVars
<1>2. CASE UNCHANGED <<heap, wallHeap, wallFd>>
  <2>1. heap' \subseteq Entries /\ wallHeap' \subseteq Entries
    BY DEF DInv, TypeOK
  <2> QED BY <1>1, <1>2, <2>1 DEF Promise!Set
<1>3. CASE e.unit \in Timers /\ ArmTimer(e.unit, e.chain, Again(e.unit))
  <2> DEFINE next == Again(e.unit)
  <2>1. e.chain \in Nat /\ wall \in Nat
    BY DTypes DEF DInv, Entries
  <2>2. next \in Option(Firing) /\ ArmTimer(e.unit, e.chain, next)
    BY <1>3, <2>1, FiringFacts DEF Again
  <2> HIDE DEF next
  <2> QED BY <1>1, <1>3, <2>1, <2>2, ArmTimerSets
<1> QED BY <1>2, <1>3 DEF Handle, TimerElapsed, JobDone

(* on_timer pops what is due on the monotonic clock.                         *)
LEMMA OnTimerGoesOff ==
    ASSUME DInv, OnTimer
    PROVE  Promise!GoOff
<1>1. /\ heap' = heap \ Passed(heap, now) /\ fired' = Passed(heap, now) /\ fired = {}
      /\ UNCHANGED <<now, wall, wallHeap, wallFd>>
  BY DEF OnTimer, clockVars, InHandler
<1>2. \A e \in heap : e.clock = "mono"
  BY DEF DInv, TypeOK
<1>3. \A e \in wallHeap : e.clock = "wall"
  BY DEF DInv, TypeOK
<1>4. heap \cap wallHeap = {}
  BY <1>2, <1>3
<1>5. Passed(heap, now) \subseteq heap /\ \A e \in Passed(heap, now) : e.at <= now
  BY DEF Passed
<1>6. (heap \cup wallHeap) \ (heap' \cup wallHeap') = Passed(heap, now)
  BY <1>1, <1>4, <1>5
<1> QED BY <1>1, <1>2, <1>5, <1>6 DEF Promise!GoOff, Promise!Due

(* wall_expired first reads, and what it reads may be that the clock was set.*)
LEMMA OnWallTimerNotices ==
    ASSUME DInv, OnWallTimer
    PROVE  Promise!Notice \/ UNCHANGED Promise!alarmVars
<1>1. UNCHANGED <<now, wall, heap, wallHeap, fired>>
  BY DEF OnWallTimer, clockVars
<1>2. wallFd \in WallFd /\ wall \in Nat /\ wallHeap \in SUBSET Entries
  BY DTypes DEF DInv
<1>3. CASE wallFd.told /\ wallFd.set
  <2> DEFINE f == [wallFd EXCEPT !.set = FALSE]
  <2>1. f \in WallFd /\ f.set = FALSE
    BY <1>2 DEF WallFd
  <2>2. wallFd' = WallArmed(wallHeap, f)
    BY <1>3 DEF OnWallTimer
  <2> HIDE DEF f
  <2>3. wallFd' \in WallFd /\ ~wallFd'.set
    BY <1>2, <2>1, <2>2, WallArmedFacts
  <2>4. wallFd'.set = FALSE
    BY <2>3 DEF WallFd
  <2> QED BY <1>1, <2>4 DEF Promise!Notice
<1>4. CASE ~(wallFd.told /\ wallFd.set)
  <2>1. wallFd'.set = wallFd.set
    BY <1>2, <1>4 DEF OnWallTimer, WallFd
  <2> QED BY <1>1, <2>1 DEF Promise!alarmVars
<1> QED BY <1>3, <1>4

(* Then it pops what had passed when it read; a clock set in between costs    *)
(* what it popped, and is reported by that.                                  *)
LEMMA WallPopGoesOff ==
    ASSUME DInv, WallPop
    PROVE  Promise!GoOff \/ Promise!Lose
<1>1. PICK seen \in reading :
         /\ wallHeap' = wallHeap \ Passed(wallHeap, seen)
         /\ wallFd' = WallArmed(wallHeap', wallFd)
         /\ fired' = IF ArmFails(wallHeap', wallFd) THEN {} ELSE Passed(wallHeap, seen)
  BY DEF WallPop
<1>2. UNCHANGED <<now, wall, heap>>
  BY DEF WallPop, clockVars
<1>3. /\ wallFd \in WallFd /\ wall \in Nat /\ wallHeap \in SUBSET Entries
      /\ seen \in Nat /\ fired = {}
      /\ wallHeap # {} => wallFd.set \/ seen <= wall
  BY DTypes DEF DInv, Read, Option
<1>4. \A e \in wallHeap : e.clock = "wall" /\ e.at \in Nat
  BY DTypes DEF DInv, Entries
<1>5. \A e \in heap : e.clock = "mono"
  BY DEF DInv, TypeOK
<1>6. Passed(wallHeap, seen) \subseteq wallHeap
         /\ \A e \in Passed(wallHeap, seen) : e.at <= seen
  BY DEF Passed
<1>7. (heap \cup wallHeap) \ (heap' \cup wallHeap') = Passed(wallHeap, seen)
  BY <1>1, <1>2, <1>4, <1>5, <1>6
<1>8. wallFd' \in WallFd /\ (wallFd'.set <=> wallHeap' = {} /\ wallFd.set)
  BY <1>1, <1>3, <1>6, WallArmedFacts
<1>9. wallFd.set \in BOOLEAN /\ wallFd'.set \in BOOLEAN
  BY <1>3, <1>8 DEF WallFd
<1>10. CASE ArmFails(wallHeap', wallFd)
  <2>1. wallFd.set /\ wallFd'.set = FALSE
    BY <1>8, <1>9, <1>10 DEF ArmFails
  <2>2. heap' \cup wallHeap' \subseteq heap \cup wallHeap /\ fired' = fired
    BY <1>1, <1>2, <1>3, <1>10
  <2> QED BY <1>2, <1>4, <1>6, <1>7, <2>1, <2>2 DEF Promise!Lose
<1>11. CASE ~ArmFails(wallHeap', wallFd)
  <2>1. wallFd'.set = wallFd.set
    BY <1>8, <1>9, <1>11 DEF ArmFails
  <2>2. \A e \in Passed(wallHeap, seen) : e.at <= wall \/ wallFd.set
    BY <1>3, <1>4, <1>6
  <2>3. \A e \in Passed(wallHeap, seen) : Promise!Due(e)
    BY <1>4, <1>6, <2>2 DEF Promise!Due
  <2>4. heap' \cup wallHeap' \subseteq heap \cup wallHeap
           /\ fired' = fired \cup Passed(wallHeap, seen)
    BY <1>1, <1>2, <1>3, <1>11
  <2> QED BY <1>2, <1>7, <2>1, <2>3, <2>4 DEF Promise!GoOff
<1> QED BY <1>10, <1>11

LEMMA TimePromised ==
    ASSUME DInv, DInv', ClocksAdvance \/ \E w \in Nat : SetClock(w)
    PROVE  Promise!TimePasses \/ Promise!SetClock
<1>1. fd \in Fd /\ wallFd \in WallFd /\ wall \in Nat /\ wall' \in Nat
  BY DTypes DEF DInv, TypeOK
<1>2. CASE ClocksAdvance
  <2>1. wallFd' = Expire(wallFd, wall') /\ now' = now + 1 /\ wall' = wall + 1
           /\ UNCHANGED <<heap, wallHeap, fired>>
    BY <1>2 DEF ClocksAdvance
  <2>2. wallFd'.set = wallFd.set
    BY <1>1, <2>1, ExpireFacts
  <2> QED BY <2>1, <2>2 DEF Promise!TimePasses
<1>3. CASE \E w \in Nat : SetClock(w)
  <2>1. PICK w \in Nat : SetClock(w)
    BY <1>3
  <2> DEFINE f == Expire(wallFd, w)
  <2>2. f \in WallFd /\ f.set = wallFd.set
    BY <1>1, ExpireFacts
  <2>3. /\ wall' = w /\ w # wall
        /\ UNCHANGED <<now, heap, wallHeap, fired>>
        /\ wallFd' = [f EXCEPT !.set = f.set \/ f.told, !.readable = f.readable \/ f.told]
    BY <2>1 DEF SetClock
  <2> HIDE DEF f
  <2>4. wallFd'.set \in {wallFd.set, TRUE}
    BY <2>2, <2>3 DEF WallFd
  <2> QED BY <2>3, <2>4 DEF Promise!SetClock
<1> QED BY <1>2, <1>3

LEMMA PromiseStep ==
    ASSUME DInv, DInv', [Next]_vars
    PROVE  [Promise!Next]_(Promise!alarmVars)
<1>1. CASE \E t \in Timers : ServiceEnds(t)
  BY <1>1 DEF ServiceEnds, clockVars, Promise!alarmVars
<1>2. CASE UNCHANGED <<now, wall, steps, heap, wallHeap, fd, wallFd, reading,
                       fired, starts, running, listed, lost>>
  BY <1>2 DEF Promise!alarmVars
<1>3. CASE (\E t \in Timers : StartTimer(t)) \/ (\E j \in Jobs : ScheduleJob(j))
           \/ (\E e \in fired : Handle(e))
  <2>1. Promise!Set
    BY <1>3, StartTimerSets, ScheduleJobSets, HandleSets
  <2> QED BY <2>1 DEF Promise!Next
<1>4. CASE OnTimer
  BY <1>4, OnTimerGoesOff DEF Promise!Next
<1>5. CASE OnWallTimer
  BY <1>5, OnWallTimerNotices DEF Promise!Next
<1>6. CASE WallPop
  BY <1>6, WallPopGoesOff DEF Promise!Next
<1>7. CASE ClocksAdvance \/ \E w \in Nat : SetClock(w)
  BY <1>7, TimePromised DEF Promise!Next
<1> QED BY <1>1, <1>2, <1>3, <1>4, <1>5, <1>6, <1>7, DeadlineSteps

(***************************************************************************)
(* The heaps, the timerfds and the reads implement the alarm clock, for    *)
(* all schedules and jobs and however the clock is set: no alarm goes off  *)
(* early or twice, and none is lost but by a clock set that was not        *)
(* reported (timer.rs, all of it).                                         *)
(***************************************************************************)
THEOREM ImplementsAlarmClock == Spec => PromiseKept
<1>1. DInv /\ DInv' /\ [Next]_vars => [Promise!Next]_(Promise!alarmVars)
  BY PromiseStep
<1>2. Spec => Promise!Spec
  BY <1>1, InitPromise, DeadlinesKept, PTL DEF Spec, Promise!Spec
<1> QED BY <1>2 DEF PromiseKept

-------------------------------------------------------------------------------
(* One alarm for each start of a timer unit                                  *)

AllAlarms == heap \cup wallHeap \cup fired \cup lost

OneEach ==
    \A e, f \in AllAlarms :
        e.unit \in Timers /\ e.unit = f.unit /\ e.chain = f.chain => e = f

(* Each alarm is in one place: the heap of its clock, popped, or dropped.    *)
Apart ==
    /\ \A e \in lost : e.clock = "wall"
    /\ \A e \in fired : e.unit \in Timers => e \notin heap \cup wallHeap \cup lost
    /\ \A e \in lost : e.unit \in Timers => e \notin wallHeap

Begun == \A e \in AllAlarms : e.unit \in Timers => e.chain \in 1..starts[e.unit]

GoesOn ==
    ~goingDown => \A t \in Timers : Repeats(Schedule[t]) =>
        \A c \in 1..starts[t] : \E e \in AllAlarms : e.unit = t /\ e.chain = c

Chains == OneEach /\ Apart /\ Begun /\ GoesOn

(* A chain without an alarm is given its next one: a new chain, or that of   *)
(* the alarm that is being handled.                                          *)
LEMMA ChainIsGiven ==
    ASSUME DInv, Chains, NEW t \in Timers, NEW c \in Nat, NEW next \in Option(Firing),
           ArmTimer(t, c, next), UNCHANGED <<now, wall, lost, goingDown>>,
           fired' \subseteq fired,
           \A e \in fired \ fired' : e.unit = t /\ e.chain = c,
           \A e \in heap \cup wallHeap \cup fired' \cup lost : ~(e.unit = t /\ e.chain = c),
           c \in 1..starts'[t],
           \A u \in Timers : \A d \in 1..starts[u] : d \in 1..starts'[u],
           \A u \in Timers : \A d \in 1..starts'[u] :
               d \in 1..starts[u] \/ (u = t /\ d = c),
           Repeats(Schedule[t]) => next # {}
    PROVE  Chains'
<1> DEFINE new == Given(t, c, next)
           rest == heap \cup wallHeap \cup fired' \cup lost
<1>1. /\ heap' \cup wallHeap' = heap \cup wallHeap \cup new
      /\ heap' \in SUBSET {e \in Entries : e.clock = "mono"}
      /\ wallHeap' \in SUBSET {e \in Entries : e.clock = "wall"}
  BY ArmTimerFacts
<1>2. /\ \A e, f \in new : e = f
      /\ \A e \in new : e.unit = t /\ e.chain = c
      /\ next # {} => new # {}
  BY GivenFacts, DTypes DEF DInv, Option
<1> HIDE DEF new
<1>3. AllAlarms' = rest \cup new
  BY <1>1 DEF AllAlarms
<1>4. rest \subseteq AllAlarms
  BY DEF AllAlarms
<1>5. \A e \in AllAlarms : e \in rest \/ (e.unit = t /\ e.chain = c)
  BY DEF AllAlarms
<1>6. \A e \in rest : ~(e.unit = t /\ e.chain = c)
  OBVIOUS
<1> HIDE DEF rest
<1>7. OneEach'
  <2>1. \A e, f \in rest \cup new :
           e.unit \in Timers /\ e.unit = f.unit /\ e.chain = f.chain => e = f
    BY <1>2, <1>4, <1>6 DEF Chains, OneEach
  <2> QED BY <1>3, <2>1 DEF OneEach
<1>8. Apart'
  <2>1. \A e \in fired' : e \notin new /\ \A x \in lost : x \notin new
    BY <1>2
  <2>2. \A e \in heap' \cup wallHeap' : e \in heap \cup wallHeap \/ e \in new
    BY <1>1
  <2>3. \A e \in lost : e.clock = "wall"
    BY DEF Chains, Apart
  <2>4. \A e \in lost : e.unit \in Timers => e \notin heap /\ e \notin wallHeap
    BY <2>3 DEF Chains, Apart, DInv, TypeOK
  <2> QED BY <1>2, <2>1, <2>2, <2>4 DEF Chains, Apart
<1>9. Begun'
  <2>1. \A e \in rest \cup new : e.unit \in Timers => e.chain \in 1..starts'[e.unit]
    BY <1>2, <1>4 DEF Chains, Begun
  <2> QED BY <1>3, <2>1 DEF Begun
<1>10. GoesOn'
  <2> SUFFICES ASSUME ~goingDown, NEW u \in Timers, Repeats(Schedule[u]),
                      NEW d \in 1..starts'[u]
               PROVE  \E e \in rest \cup new : e.unit = u /\ e.chain = d
    BY <1>3 DEF GoesOn
  <2>1. CASE u = t /\ d = c
    BY <1>2, <2>1
  <2>2. CASE ~(u = t /\ d = c)
    <3>1. \E e \in AllAlarms : e.unit = u /\ e.chain = d
      BY <2>2 DEF Chains, GoesOn
    <3> QED BY <1>5, <2>2, <3>1
  <2> QED BY <2>1, <2>2
<1> QED BY <1>7, <1>8, <1>9, <1>10 DEF Chains

LEMMA StartTimerChains ==
    ASSUME DInv, Chains, NEW t \in Timers, StartTimer(t)
    PROVE  Chains'
<1> DEFINE next == FirstFiring(Schedule[t], wall)
           c == starts[t] + 1
<1>1. /\ ArmTimer(t, starts'[t], next) /\ starts' = [starts EXCEPT ![t] = starts[t] + 1]
      /\ UNCHANGED <<now, wall, fired, lost, goingDown>>
  BY DEF StartTimer, clockVars
<1>2. starts \in [Owners -> Nat] /\ wall \in Nat /\ Timers \subseteq Owners
  BY DTypes DEF DInv, Owners
<1>3. starts'[t] = c /\ c \in Nat /\ \A u \in Timers : u # t => starts'[u] = starts[u]
  BY <1>1, <1>2
<1>4. next \in Option(Firing) /\ (Repeats(Schedule[t]) => next # {})
  BY <1>2, FiringFacts
<1> HIDE DEF next
<1>5. \A e \in AllAlarms : ~(e.unit = t /\ e.chain = c)
  <2>1. c \notin 1..starts[t]
    BY <1>2
  <2> QED BY <2>1 DEF Chains, Begun
<1>6. \A e \in heap \cup wallHeap \cup fired' \cup lost : ~(e.unit = t /\ e.chain = c)
  BY <1>1, <1>5 DEF AllAlarms
<1>7. /\ c \in 1..starts'[t]
      /\ \A u \in Timers : \A d \in 1..starts[u] : d \in 1..starts'[u]
      /\ \A u \in Timers : \A d \in 1..starts'[u] :
            d \in 1..starts[u] \/ (u = t /\ d = c)
  <2>1. \A u \in Timers : starts[u] \in Nat /\ (u = t => starts'[u] = starts[u] + 1)
                              /\ (u # t => starts'[u] = starts[u])
    BY <1>2, <1>3
  <2> QED BY <1>2, <1>3, <2>1
<1>8. ArmTimer(t, c, next)
  BY <1>1, <1>3
<1> HIDE DEF c
<1> QED BY <1>1, <1>3, <1>4, <1>6, <1>7, <1>8, ChainIsGiven

LEMMA HandleChains ==
    ASSUME DInv, Chains, NEW e \in fired, Handle(e), UNCHANGED goingDown
    PROVE  Chains'
<1>1. fired' = fired \ {e} /\ UNCHANGED <<now, wall, starts, lost>>
  BY DEF Handle, TimerElapsed, JobDone, clockVars, serviceVars
<1>2. CASE /\ e.unit \notin Timers \/ goingDown
           /\ UNCHANGED <<heap, wallHeap>>
  <2>1. AllAlarms' \subseteq AllAlarms
    BY <1>1, <1>2 DEF AllAlarms
  <2>2. OneEach' /\ Begun'
    BY <1>1, <2>1 DEF Chains, OneEach, Begun
  <2>3. Apart'
    BY <1>1, <1>2 DEF Chains, Apart
  <2>4. GoesOn'
    <3>1. \A x \in AllAlarms : x = e \/ x \in AllAlarms'
      BY <1>1, <1>2 DEF AllAlarms
    <3> QED BY <1>1, <1>2, <3>1 DEF Chains, GoesOn
  <2> QED BY <2>2, <2>3, <2>4 DEF Chains
<1>3. CASE e.unit \in Timers /\ ArmTimer(e.unit, e.chain, Again(e.unit))
  <2> DEFINE next == Again(e.unit)
             c == e.chain
             t == e.unit
  <2>1. c \in Nat /\ wall \in Nat
    BY DTypes DEF DInv, Entries
  <2>2. next \in Option(Firing) /\ (Repeats(Schedule[t]) => next # {})
    BY <1>3, <2>1, FiringFacts DEF Again
  <2>3. ArmTimer(t, c, next)
    BY <1>3
  <2> HIDE DEF next
  <2>4. e \in AllAlarms
    BY DEF AllAlarms
  <2>5. \A x \in AllAlarms : x.unit = t /\ x.chain = c => x = e
    BY <1>3, <2>4 DEF Chains, OneEach
  <2>6. e \notin heap \cup wallHeap \cup fired' \cup lost
    BY <1>1, <1>3 DEF Chains, Apart
  <2>7. \A x \in heap \cup wallHeap \cup fired' \cup lost : ~(x.unit = t /\ x.chain = c)
    BY <1>1, <2>5, <2>6 DEF AllAlarms
  <2>8. c \in 1..starts'[t]
    BY <1>1, <1>3, <2>4 DEF Chains, Begun
  <2>9. \A x \in fired \ fired' : x.unit = t /\ x.chain = c
    BY <1>1
  <2>10. t \in Timers
    BY <1>3
  <2> HIDE DEF c, t
  <2> QED BY <1>1, <2>1, <2>2, <2>3, <2>7, <2>8, <2>9, <2>10, ChainIsGiven
<1> QED BY <1>2, <1>3, DeadlinesAssumption DEF Handle, TimerElapsed, JobDone

(* The alarm of a job is none of a timer unit.                               *)
LEMMA ScheduleJobChains ==
    ASSUME DInv, Chains, NEW j \in Jobs, ScheduleJob(j)
    PROVE  Chains'
<1> DEFINE e == [clock |-> "mono", at |-> now + JobDelay[j], unit |-> j, chain |-> 1]
<1>1. /\ heap' = heap \cup {e}
      /\ starts' = [starts EXCEPT ![j] = 1]
      /\ UNCHANGED <<wallHeap, fired, lost, goingDown>>
  BY DEF ScheduleJob
<1>2. e.unit = j
  OBVIOUS
<1>3. j \notin Timers /\ e.unit \notin Timers /\ \A u \in Timers : starts'[u] = starts[u]
  BY <1>1, <1>2, DeadlinesAssumption, DTypes DEF DInv, Owners
<1> HIDE DEF e
<1>4. AllAlarms' = AllAlarms \cup {e}
  BY <1>1 DEF AllAlarms
<1>5. OneEach' /\ Begun' /\ GoesOn'
  BY <1>1, <1>3, <1>4 DEF Chains, OneEach, Begun, GoesOn
<1>6. Apart'
  BY <1>1, <1>3 DEF Chains, Apart
<1> QED BY <1>5, <1>6 DEF Chains

(* What is popped stays one of the alarms.                                   *)
LEMMA PopChains ==
    ASSUME DInv, Chains, OnTimer \/ WallPop
    PROVE  Chains'
<1>1. UNCHANGED <<starts, goingDown>>
  BY DEF OnTimer, WallPop, serviceVars
<1>2. fired = {}
  BY DEF OnTimer, WallPop, InHandler, DInv, Read
<1>3. (\A e \in heap : e.clock = "mono") /\ (\A e \in wallHeap : e.clock = "wall")
  BY DEF DInv, TypeOK
<1>4. \A h, m : Passed(h, m) \subseteq h
  BY DEF Passed
<1>5. AllAlarms' = AllAlarms /\ Apart'
  <2>1. CASE OnTimer
    <3>1. /\ heap' = heap \ Passed(heap, now) /\ fired' = Passed(heap, now)
          /\ UNCHANGED <<wallHeap, lost>>
      BY <2>1 DEF OnTimer, serviceVars
    <3> QED BY <1>2, <1>3, <1>4, <3>1 DEF AllAlarms, Chains, Apart
  <2>2. CASE WallPop
    <3>1. PICK seen \in reading :
             /\ wallHeap' = wallHeap \ Passed(wallHeap, seen)
             /\ \/ fired' = {} /\ lost' = lost \cup Passed(wallHeap, seen)
                \/ fired' = Passed(wallHeap, seen) /\ lost' = lost
      BY <2>2 DEF WallPop
    <3>2. heap' = heap
      BY <2>2 DEF WallPop
    <3> QED BY <1>2, <1>3, <1>4, <3>1, <3>2 DEF AllAlarms, Chains, Apart
  <2> QED BY <2>1, <2>2
<1>6. OneEach' /\ Begun' /\ GoesOn'
  BY <1>1, <1>5 DEF Chains, OneEach, Begun, GoesOn
<1> QED BY <1>5, <1>6 DEF Chains

LEMMA ChainsStep ==
    ASSUME DInv, Chains, [Next]_vars
    PROVE  Chains'
<1>1. CASE /\ goingDown' \in {goingDown, TRUE}
           /\ UNCHANGED <<heap, wallHeap, fired, starts, lost>>
  BY <1>1 DEF Chains, OneEach, Apart, Begun, GoesOn, AllAlarms
<1>2. ASSUME \/ \E t \in Timers : ServiceEnds(t)
             \/ OnWallTimer
             \/ ClocksAdvance
             \/ \E w \in Nat : SetClock(w)
      PROVE  UNCHANGED <<heap, wallHeap, fired, starts, lost, goingDown>>
  BY <1>2 DEF ServiceEnds, OnWallTimer, ClocksAdvance, SetClock, clockVars, serviceVars
<1> QED BY <1>1, <1>2, DeadlineSteps, StartTimerChains, ScheduleJobChains, PopChains,
           HandleChains

LEMMA ChainsKept == Spec => []Chains
<1>1. Init => Chains
  <2> SUFFICES ASSUME Init PROVE Chains
    OBVIOUS
  <2>1. AllAlarms = {} /\ fired = {} /\ lost = {} /\ starts = [o \in Owners |-> 0]
    BY DEF Init, DeadlinesInit, AllAlarms
  <2>2. \A t \in Timers : 1..starts[t] = {}
    BY <2>1 DEF Owners
  <2> QED BY <2>1, <2>2 DEF Chains, OneEach, Apart, Begun, GoesOn
<1>2. DInv /\ Chains /\ [Next]_vars => Chains'
  BY ChainsStep
<1> QED BY <1>1, <1>2, DeadlinesKept, PTL DEF Spec

(***************************************************************************)
(* A schedule that repeats neither ends nor doubles: until a shutdown each *)
(* start of its timer unit has exactly one alarm, set, popped or dropped   *)
(* by a clock set in the middle of wall_expired, whether or not the        *)
(* service it starts is still running (timer_elapsed, arm_timer).          *)
(***************************************************************************)
THEOREM OneAlarm == Spec => []OneAlarmPerStart
<1>1. Chains => OneAlarmPerStart
  <2> SUFFICES ASSUME Chains, NEW t \in Timers, ~goingDown, Repeats(Schedule[t]),
                      NEW c \in 1..starts[t]
               PROVE  Cardinality({e \in AllAlarms : e.unit = t /\ e.chain = c}) = 1
    BY DEF OneAlarmPerStart, AllAlarms
  <2>1. PICK e \in AllAlarms : e.unit = t /\ e.chain = c
    BY DEF Chains, GoesOn
  <2>2. {x \in AllAlarms : x.unit = t /\ x.chain = c} = {e}
    BY <2>1 DEF Chains, OneEach
  <2> QED BY <2>2, FS_Singleton
<1> QED BY <1>1, ChainsKept, PTL

-------------------------------------------------------------------------------
(* The loop as a whole                                                       *)

(* What happens to units and reaches the loop, and the sources it serves.    *)
World ==
    /\ pc \in {"wait", "serve", "finalize", "down", "hung", "shell"}
    /\ batch \subseteq {"Timer", "WallTimer", "Units", "Signals"}
    /\ pending \subseteq UnitEvent \cup Actions
    /\ known \subseteq happened /\ happened \subseteq UnitEvent

LEMMA WorldStep ==
    ASSUME Typed, World, [Next]_vars
    PROVE  World'
<1> USE DEF World
<1>1. CASE Wake
  BY <1>1 DEF Wake, Readable, unitVars
<1>2. CASE ServeUnits
  BY <1>2 DEF ServeUnits, Serving
<1>3. CASE ServeSignals
  BY <1>3 DEF ServeSignals, Serving
<1>4. CASE Hang
  BY <1>4 DEF Hang, unitVars
<1>5. CASE EndTurn
  BY <1>5 DEF EndTurn, unitVars
<1>6. CASE Finalize
  BY <1>6 DEF Finalize, unitVars
<1>7. CASE Elapse
  BY <1>7 DEF Elapse, loopVars, unitVars
<1>8. CASE \E e \in UnitEvent : Happens(e)
  BY <1>8 DEF Happens, Outside, loopVars
<1>9. CASE Signal
  BY <1>9 DEF Signal, Outside, loopVars, Typed
<1>10. CASE DeviceAppears
  BY <1>10 DEF DeviceAppears, Outside, loopVars, unitVars
<1>11. CASE Aside
  BY <1>11 DEF Aside
<1> QED BY <1>1, <1>2, <1>3, <1>4, <1>5, <1>6, <1>7, <1>8, <1>9, <1>10, <1>11, StepKinds

(***************************************************************************)
(* The loop's state stays what the code can represent: no countdown runs   *)
(* below zero, no deadline lies before the epoch, and a container's loop   *)
(* holds no device (run, Policy, Timers, Shutdown).                        *)
(***************************************************************************)
THEOREM LoopTypes == Spec => []MainTypeOK
<1>1. Init => World
  BY DEF Init, World
<1>2. IInv /\ World /\ [Next]_vars => World'
  BY WorldStep DEF IInv
<1>3. IInv /\ DInv /\ Device /\ World => MainTypeOK
  <2> SUFFICES ASSUME IInv, DInv, Device, World PROVE MainTypeOK
    OBVIOUS
  <2>1. dev \in [there : BOOLEAN, left : Option(Nat), is : Nat]
    BY DEF IInv, Typed, Device
  <2>2. \A p \in dog : p.boot \in BootState /\ p.open \in BOOLEAN /\ p.interval \in Nat \ {0}
    BY DEF IInv, Typed, Option, Policies
  <2> QED BY <2>1, <2>2 DEF MainTypeOK, IInv, Typed, DInv, Device, World
<1> QED BY <1>1, <1>2, <1>3, Invariant, DeadlinesKept, DeviceKept, PTL DEF Spec
=============================================================================

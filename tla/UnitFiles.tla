------------------------------ MODULE UnitFiles -----------------------------
(***************************************************************************)
(* Unit files: what makes one a unit, and which of several files of the    *)
(* same name is in effect (crate oxinit-unit: unit.rs, load.rs).           *)
(*                                                                         *)
(* A file is a record of what its validation tells apart; everything else  *)
(* in it is its `text`, so that two versions of a file can differ.         *)
(***************************************************************************)
EXTENDS Naturals, Sequences, SequencesExt, FiniteSets, FiniteSetsExt, TLC

CONSTANTS
    Files,      \* the unit files there may be
    Dirs,       \* the unit directories, lowest precedence first
    UserScope   \* whether this is a user's manager (enum Scope)

Kinds == {"service", "socket", "timer", "target"}

ASSUME UnitFilesAssumption ==
    /\ Dirs \in Seq(Range(Dirs)) /\ Dirs # <<>> /\ IsInjective(Dirs)
    /\ UserScope \in BOOLEAN
    /\ \A file \in Files : file.sections \subseteq Kinds

(* RawFile, with the defaults of a key that is not given.                  *)
Service ==
    [named |-> TRUE, toml |-> TRUE, sections |-> {"service"}, requires |-> {},
     conflicts |-> {}, after |-> {}, resources |-> FALSE, user |-> FALSE,
     tty |-> FALSE, exec |-> TRUE, watchdog |-> FALSE, notify |-> FALSE,
     listen |-> <<>>, datagram |-> FALSE, backlog |-> FALSE,
     calendar |-> "none", monotonic |-> FALSE, text |-> 1]

Is(file, kind) == kind \in file.sections

(* parse_in, in its order; parse_listen is what makes an address "bad".    *)
Checks(file) ==
    <<[error |-> "Name",                  when |-> ~file.named],
      [error |-> "Toml",                  when |-> ~file.toml],
      [error |-> "RequiresAndConflicts",  when |-> file.requires \cap file.conflicts # {}],
      [error |-> "NoKind",                when |-> file.sections = {}],
      [error |-> "MultipleKinds",         when |-> Cardinality(file.sections) > 1],
      [error |-> "ResourcesOnNonService", when |-> file.resources /\ ~Is(file, "service")],
      [error |-> "UserInUserUnit",        when |-> Is(file, "service") /\ UserScope /\ file.user],
      [error |-> "TtyInUserUnit",         when |-> Is(file, "service") /\ UserScope /\ file.tty],
      [error |-> "Exec",                  when |-> Is(file, "service") /\ ~file.exec],
      [error |-> "WatchdogWithoutNotify", when |-> Is(file, "service") /\ file.watchdog /\ ~file.notify],
      [error |-> "EmptyListen",           when |-> Is(file, "socket") /\ file.listen = <<>>],
      [error |-> "BacklogOnDatagram",     when |-> Is(file, "socket") /\ file.backlog /\ file.datagram],
      [error |-> "ListenAddress",         when |-> Is(file, "socket") /\ "bad" \in Range(file.listen)],
      [error |-> "Calendar",              when |-> Is(file, "timer") /\ file.calendar = "bad"],
      [error |-> "EmptySchedule",         when |-> Is(file, "timer") /\ file.calendar = "none"
                                                                     /\ ~file.monotonic]>>

(* Unit: the first check that fails is the error; a file that passes them  *)
(* all is a unit, of which the rest of the system sees this much.          *)
Failing(file) == {i \in DOMAIN Checks(file) : Checks(file)[i].when}

UnitOf(file) ==
    [kind |-> CHOOSE kind \in Kinds : Is(file, kind),
     requires |-> file.requires, conflicts |-> file.conflicts, after |-> file.after,
     text |-> file.text]

Parsed ==
    [file \in Files |->
        IF Failing(file) = {} THEN [ok |-> TRUE, unit |-> UnitOf(file)]
        ELSE [ok |-> FALSE, error |-> Checks(file)[Min(Failing(file))].error]]

-----------------------------------------------------------------------------
(* Files on disk: directory -> the files in it by unit name, or Unreadable *)
(* for one that exists and cannot be read.  A missing directory has none.  *)

Unreadable == [unreadable |-> TRUE]

FilesIn(disk, dir) == IF disk[dir] = Unreadable THEN <<>> ELSE disk[dir]

IsUnit(disk, dir, name) ==
    name \in DOMAIN FilesIn(disk, dir) /\ Parsed[disk[dir][name]].ok

(* load_dirs_in: each directory overrides the ones before it, file by file *)
(* and wholly - where its file is a unit.  One that is not leaves the file *)
(* of an earlier directory in effect, and an error.                        *)
Places(disk, name) == {i \in DOMAIN Dirs : IsUnit(disk, Dirs[i], name)}

LoadedUnits(disk) ==
    [name \in {n \in UNION {DOMAIN FilesIn(disk, dir) : dir \in Range(Dirs)} : Places(disk, n) # {}} |->
        Parsed[disk[Dirs[Max(Places(disk, name))]][name]].unit]

LoadErrors(disk) ==
    {[dir |-> dir, name |-> "", error |-> "Directory"] :
        dir \in {d \in Range(Dirs) : disk[d] = Unreadable}}
    \cup UNION {{[dir |-> dir, name |-> name, error |-> Parsed[disk[dir][name]].error] :
                    name \in {n \in DOMAIN FilesIn(disk, dir) : ~IsUnit(disk, dir, n)}} :
                dir \in Range(Dirs)}
=============================================================================

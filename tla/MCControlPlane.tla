--------------------------- MODULE MCControlPlane ---------------------------
(***************************************************************************)
(* A boot of two services, one overridden, while an operator makes one     *)
(* change to the files and two peers use the control socket, which a third *)
(* that says nothing keeps busy.  The changes are one of every kind of     *)
(* trouble a reload can meet: an ordering the boot did not have, a         *)
(* mistake, a unit the boot had not heard of, a file that is gone.         *)
(***************************************************************************)
EXTENDS ControlPlane

MCDirs == <<"vendor", "etc">>

After(n) == [Service EXCEPT !.after = {n}]

Target == [Service EXCEPT !.sections = {"target"}]

Second == [Service EXCEPT !.text = 2]

Dependent == [After("a") EXCEPT !.requires = {"a"}]

Broken == [Service EXCEPT !.watchdog = TRUE]

Other == [Target EXCEPT !.after = {"a"}, !.conflicts = {"b"}]

MCFiles == {Service, Second, Dependent, After("b"), Broken, Other}

MCFirstDisk ==
    "vendor" :> ("a" :> Service)
    @@ "etc" :> ("a" :> Second @@ "b" :> Dependent)

MCEdits ==
    {[dir |-> "etc", name |-> "a", file |-> Broken],
     [dir |-> "etc", name |-> "b", file |-> After("b")],
     [dir |-> "etc", name |-> "c", file |-> Other]}

Ask(op, unit) == [op |-> op, unit |-> unit]

MCRequests ==
    "p" :> {Ask("start", "c"), Ask("stop", "a"), Ask("restart", "b"), Ask("oversize", "-")}
    @@ "q" :> {Ask("reload", "-")}
    @@ "r" :> {}
=============================================================================

------------------------------ MODULE DaemonLock ------------------------------
(***************************************************************************)
(* ensureSingleInstance: the pid file that keeps a second ports daemon     *)
(* from running in a container.  The file is named by the daemon that      *)
(* created it; it is empty until that daemon has written its pid.          *)
(***************************************************************************)
EXTENDS Naturals, FiniteSets

CONSTANT Daemons    \* daemon processes, each with a pid of its own

NoFile == "none"
ASSUME NoFileAssumption == NoFile \notin Daemons

VARIABLES
    lock,       \* the daemon whose file is at the path, or NoFile
    named,      \* daemons that wrote their pid into the file they created
    at,         \* per daemon: its next step
    saw,        \* per daemon: the pid it read
    contended   \* history: two daemons were inside ensureSingleInstance at once

lockVars == <<lock, named, at, saw, contended>>

Inside(d) == at[d] \in {"create", "write", "read", "stat", "remove"}
Alive(d) == Inside(d) \/ at[d] = "running"

LockInit ==
    /\ lock = NoFile /\ named = {}
    /\ at = [d \in Daemons |-> "off"] /\ saw = [d \in Daemons |-> NoFile]
    /\ contended = FALSE

Moves(d, next) ==
    /\ at' = [at EXCEPT ![d] = next]
    /\ contended' = (contended \/ \E e \in Daemons \ {d} : Inside(e) /\ Inside(d)')

Start(d) == at[d] = "off" /\ Moves(d, "create") /\ UNCHANGED <<lock, named, saw>>

(* OpenFile with O_EXCL. *)
Create(d) ==
    /\ at[d] = "create"
    /\ IF lock = NoFile THEN lock' = d /\ Moves(d, "write") ELSE UNCHANGED lock /\ Moves(d, "read")
    /\ UNCHANGED <<named, saw>>

(* The pid goes into the file this daemon created, wherever its name is     *)
(* now; when that fails the path is removed.                                *)
WritePid(d) ==
    /\ at[d] = "write"
    /\ \/ named' = named \cup {d} /\ Moves(d, "running") /\ UNCHANGED lock
       \/ lock' = NoFile /\ Moves(d, "dead") /\ UNCHANGED named
    /\ UNCHANGED saw

(* A file that is gone, or holds no number, is taken for stale. *)
ReadPid(d) ==
    /\ at[d] = "read"
    /\ IF lock \in named THEN saw' = [saw EXCEPT ![d] = lock] /\ Moves(d, "stat")
       ELSE Moves(d, "remove") /\ UNCHANGED saw
    /\ UNCHANGED <<lock, named>>

(* Mutant of StatProc: a dead process counts as running. *)
StatProcAlways(d) ==
    /\ at[d] = "stat" /\ Moves(d, "refused")
    /\ UNCHANGED <<lock, named, saw>>

(* Mutant of StatProc: the file of a live process is removed as well. *)
StatProcNever(d) ==
    /\ at[d] = "stat" /\ Moves(d, "remove") /\ UNCHANGED <<lock, named, saw>>

StatProc(d) ==
    /\ at[d] = "stat" /\ Moves(d, IF Alive(saw[d]) THEN "refused" ELSE "remove")
    /\ UNCHANGED <<lock, named, saw>>

(* The path is removed, whichever file is there by now. *)
RemoveStale(d) ==
    /\ at[d] = "remove" /\ lock' = NoFile /\ Moves(d, "create")
    /\ UNCHANGED <<named, saw>>

Die(d) == Alive(d) /\ Moves(d, "dead") /\ UNCHANGED <<lock, named, saw>>

Proceed(d) == Create(d) \/ WritePid(d) \/ ReadPid(d) \/ StatProc(d) \/ RemoveStale(d)

LockNext == \E d \in Daemons : Start(d) \/ Proceed(d) \/ Die(d)

LockSpec == LockInit /\ [][LockNext]_lockVars

-----------------------------------------------------------------------------
(* Properties *)

(* As long as no two daemons are inside ensureSingleInstance at once, at    *)
(* most one runs and the pid file is its own, also after others have died   *)
(* and left a file behind, empty or not.                                    *)
LockExclusive ==
    ~contended =>
        /\ Cardinality({d \in Daemons : at[d] = "running"}) <= 1
        /\ \A d \in Daemons : at[d] = "running" => lock = d /\ d \in named

(* A daemon is refused only for one that runs, in whatever order the steps  *)
(* of several fall: they never all give way.                                *)
RefusedForAReason ==
    [][\A d \in Daemons : at[d] # "refused" /\ at'[d] = "refused"
            => \E e \in Daemons \ {d} : at[e] = "running"]_lockVars
=============================================================================

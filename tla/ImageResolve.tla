---------------------------- MODULE ImageResolve ----------------------------
(***************************************************************************)
(* ResolveImageID in several mkenv processes that share the SQLite KVStore *)
(* and the Docker engine: lookup by project key, lookup by Dockerfile key, *)
(* waiting for another builder, claim, build, publication.                 *)
(*                                                                         *)
(* A step is one statement on the store, or one call of Docker.  Nothing   *)
(* locks the store between two of them.                                    *)
(***************************************************************************)
EXTENDS Naturals

CONSTANTS
    Procs,          \* mkenv processes, each resolves one image
    Projects,       \* project signatures: keys of the store
    Dockerfiles,    \* Dockerfile hashes: keys of the store
    StaleAfter,     \* buildingStaleAfter (10 minutes), in ticks
    Horizon         \* bound: the last tick of the clock

ASSUME KeysAssumption == Projects \cap Dockerfiles = {}
ASSUME TicksAssumption == StaleAfter \in Nat /\ Horizon \in Nat

VARIABLES
    now,        \* the clock; newBuildingTag has its resolution
    kv,         \* the kv_store table
    docker,     \* what Docker has under each image tag
    planned,    \* the Dockerfile that Plan derives from a project's files now
    project,    \* per process: its project
    force,      \* processes started with --rebuild
    pc,
    found,      \* per process: what its last Get returned
    df,         \* per process: the Dockerfile it has planned
    tag,        \* per process: its building tag
    result      \* per process: the ImageID it returned

storeVars == <<kv, docker>>
procVars  == <<pc, found, df, tag, result>>
vars == <<now, storeVars, planned, project, force, procVars>>

None == [kind |-> "none"]

(* composeImageTag: the tag is a function of both keys, and Build returns it *)
Image(r, d) == [kind |-> "image", rc |-> r, df |-> d]
Building(t, d) == [kind |-> "building", at |-> t, df |-> d]

Images == [kind : {"image"}, rc : Projects, df : Dockerfiles]
Tags   == [kind : {"building"}, at : 0..Horizon, df : Dockerfiles]
Values == Images \cup Tags \cup {None}
Keys   == Projects \cup Dockerfiles

IsBuilding(v) == v.kind = "building"
IsImage(v) == v.kind = "image"

TypeOK ==
    /\ now \in 0..Horizon
    /\ kv \in [Keys -> Values]
    /\ docker \in [Images -> {"never", "removed", "old", "ok"}]
    /\ planned \in [Projects -> Dockerfiles]
    /\ project \in [Procs -> Projects]
    /\ force \subseteq Procs
    /\ pc \in [Procs -> {"project", "checkRc", "delRc", "plan", "dockerfile", "checkDf",
                         "link", "delDf", "wait", "claimDf", "claimRc", "build",
                         "stopRc", "delRcTag", "stopDf", "delDfTag", "setRc", "setDf",
                         "done", "failed"}]
    /\ found \in [Procs -> Values]
    /\ df \in [Procs -> Dockerfiles]
    /\ tag \in [Procs -> Tags \cup {None}]
    /\ result \in [Procs -> Images \cup {None}]

(* The store is empty, or holds what an earlier mkenv, possibly of an older *)
(* schema version, has left for one project.                                *)
Init ==
    /\ now = 0
    /\ planned \in [Projects -> Dockerfiles]
    /\ project \in [Procs -> Projects]
    /\ force \in SUBSET Procs
    /\ \/ kv = [k \in Keys |-> None] /\ docker = [i \in Images |-> "never"]
       \/ \E i \in Images, s \in {"old", "ok"} :
             /\ docker = [j \in Images |-> IF j = i THEN s ELSE "never"]
             /\ kv = [k \in Keys |-> IF k \in {i.rc, i.df} THEN i ELSE None]
    /\ pc = [p \in Procs |-> "project"]
    /\ found = [p \in Procs |-> None]
    /\ df = [p \in Procs |-> planned[project[p]]]
    /\ tag = [p \in Procs |-> None]
    /\ result = [p \in Procs |-> None]

-----------------------------------------------------------------------------
(* KVStore.  A statement may fail: the context is cancelled (Ctrl-C, which  *)
(* also closes the database) or the database is locked.  The cache logs the *)
(* error and goes on.                                                       *)

(* What Get may return for a key. *)
Got(k) == {kv[k], None}

(* An Upsert of v, or a Delete when v is None. *)
Put(k, v) == kv' \in {kv, [kv EXCEPT ![k] = v]}

(* Mutant of Stale: a building tag never expires. *)
StaleNever(v) == FALSE

(* isBuildingStale *)
Stale(v) == IsBuilding(v) /\ now - v.at > StaleAfter

Goto(p, from, to) == pc[p] = from /\ pc' = [pc EXCEPT ![p] = to]

-----------------------------------------------------------------------------
(* ResolveImageID *)

(* Mutant of GetByProject: --rebuild does not override the lookup. *)
GetByProjectAlways(p) ==
    \E v \in Got(project[p]) :
        /\ found' = [found EXCEPT ![p] = IF IsImage(v) THEN v ELSE None]
        /\ Goto(p, "project", IF v = None THEN "plan" ELSE IF Stale(v) THEN "delRc" ELSE "checkRc")
        /\ UNCHANGED <<now, storeVars, planned, project, force, df, tag, result>>

(* What ResolveImageID keeps of a lookup: only an entry it will look at. *)
Keep(p, v) == found' = [found EXCEPT ![p] = IF IsImage(v) /\ p \notin force THEN v ELSE None]

(* GetByProject: a stale tag is deleted, and counts as not found.  With     *)
(* --rebuild nothing is found.                                              *)
GetByProject(p) ==
    \E v \in Got(project[p]) :
        /\ Keep(p, v)
        /\ Goto(p, "project",
                IF Stale(v) THEN "delRc"
                ELSE IF v = None \/ p \in force THEN "plan" ELSE "checkRc")
        /\ UNCHANGED <<now, storeVars, planned, project, force, df, tag, result>>

(* Mutant of Usable: a cached name is trusted without asking Docker. *)
UsableUnchecked(v) == TRUE

(* ImageExists and IsImageSchemaCompatible: a building tag is no image. *)
Usable(v) == IsImage(v) /\ docker[v] = "ok"

(* Cache hit, or the entry is deleted.  An inspection that fails counts as  *)
(* an image that does not exist.                                            *)
CheckRc(p) ==
    /\ \/ /\ Usable(found[p])
          /\ Goto(p, "checkRc", "done") /\ result' = [result EXCEPT ![p] = found[p]]
       \/ Goto(p, "checkRc", "delRc") /\ UNCHANGED result
    /\ found' = [found EXCEPT ![p] = None]
    /\ UNCHANGED <<now, storeVars, planned, project, force, df, tag>>

DeleteRc(p) ==
    /\ Goto(p, "delRc", "plan")
    /\ Put(project[p], None)
    /\ UNCHANGED <<now, docker, planned, project, force, found, df, tag, result>>

(* Plan and GenerateDockerfile read the files of the project. *)
Plan(p) ==
    /\ Goto(p, "plan", "dockerfile")
    /\ df' = [df EXCEPT ![p] = planned[project[p]]]
    /\ UNCHANGED <<now, storeVars, planned, project, force, found, tag, result>>

PlanFails(p) ==
    /\ Goto(p, "plan", "failed")
    /\ UNCHANGED <<now, storeVars, planned, project, force, found, df, tag, result>>

(* GetByDockerfile; --rebuild ignores what it returns. *)
GetByDockerfile(p) ==
    \E v \in Got(df[p]) :
        /\ Keep(p, v)
        /\ Goto(p, "dockerfile",
                IF Stale(v) THEN "delDf"
                ELSE IF v = None \/ p \in force THEN "claimDf"
                ELSE IF IsBuilding(v) THEN "wait" ELSE "checkDf")
        /\ UNCHANGED <<now, storeVars, planned, project, force, df, tag, result>>

CheckDf(p) ==
    /\ \/ Usable(found[p]) /\ Goto(p, "checkDf", "link") /\ UNCHANGED found
       \/ Goto(p, "checkDf", "delDf") /\ found' = [found EXCEPT ![p] = None]
    /\ UNCHANGED <<now, storeVars, planned, project, force, df, tag, result>>

(* The project key is linked to the image found by Dockerfile. *)
Link(p) ==
    /\ Goto(p, "link", "done")
    /\ Put(project[p], found[p])
    /\ result' = [result EXCEPT ![p] = found[p]]
    /\ found' = [found EXCEPT ![p] = None]
    /\ UNCHANGED <<now, docker, planned, project, force, df, tag>>

DeleteDf(p) ==
    /\ Goto(p, "delDf", "claimDf")
    /\ Put(df[p], None)
    /\ UNCHANGED <<now, docker, planned, project, force, found, df, tag, result>>

(* Another process builds this Dockerfile: try again after a second, or     *)
(* give up when ctx is done.                                                *)
Wait(p) ==
    /\ Goto(p, "wait", "project") \/ Goto(p, "wait", "failed")
    /\ UNCHANGED <<now, storeVars, planned, project, force, found, df, tag, result>>

(* ClaimBuilding, first the Dockerfile key, then the project key.  Bound:   *)
(* no claim so late that it could not become stale before Horizon.          *)
ClaimDf(p) ==
    /\ now + StaleAfter < Horizon
    /\ Goto(p, "claimDf", "claimRc")
    /\ tag' = [tag EXCEPT ![p] = Building(now, df[p])]
    /\ Put(df[p], tag'[p])
    /\ UNCHANGED <<now, docker, planned, project, force, found, df, result>>

ClaimRc(p) ==
    /\ Goto(p, "claimRc", "build")
    /\ Put(project[p], tag[p])
    /\ UNCHANGED <<now, docker, planned, project, force, found, df, tag, result>>

(* Mutant of Built: the image is named after the lookup, not after the plan. *)
BuiltOf(p) == Image(project[p], planned[project[p]])

(* Mutant of Built: the building tag is published. *)
BuiltTag(p) == tag[p]

(* The name BuildImage returns is the tag it was given. *)
Built(p) == Image(project[p], df[p])

BuildImage(p) ==
    /\ Goto(p, "build", "setRc")
    /\ docker' = [docker EXCEPT ![Image(project[p], df[p])] = "ok"]
    /\ UNCHANGED <<now, kv, planned, project, force, found, df, tag, result>>

BuildFails(p) ==
    /\ Goto(p, "build", "stopRc")
    /\ UNCHANGED <<now, storeVars, planned, project, force, found, df, tag, result>>

(* StopBuilding: Get, then Delete when the value is still this tag.         *)
StopRc(p) ==
    \E v \in Got(project[p]) :
        /\ Goto(p, "stopRc", IF v = tag[p] THEN "delRcTag" ELSE "stopDf")
        /\ UNCHANGED <<now, storeVars, planned, project, force, found, df, tag, result>>

DeleteRcTag(p) ==
    /\ Goto(p, "delRcTag", "stopDf")
    /\ Put(project[p], None)
    /\ UNCHANGED <<now, docker, planned, project, force, found, df, tag, result>>

StopDf(p) ==
    \E v \in Got(df[p]) :
        /\ Goto(p, "stopDf", IF v = tag[p] THEN "delDfTag" ELSE "failed")
        /\ UNCHANGED <<now, storeVars, planned, project, force, found, df, tag, result>>

DeleteDfTag(p) ==
    /\ Goto(p, "delDfTag", "failed")
    /\ Put(df[p], None)
    /\ UNCHANGED <<now, docker, planned, project, force, found, df, tag, result>>

(* Both keys are set to the image. *)
SetRc(p) ==
    /\ Goto(p, "setRc", "setDf")
    /\ Put(project[p], Built(p))
    /\ UNCHANGED <<now, docker, planned, project, force, found, df, tag, result>>

SetDf(p) ==
    /\ Goto(p, "setDf", "done")
    /\ Put(df[p], Built(p))
    /\ result' = [result EXCEPT ![p] = Built(p)]
    /\ UNCHANGED <<now, docker, planned, project, force, found, df, tag>>

-----------------------------------------------------------------------------
(* Environment *)

Running(p) == pc[p] \notin {"done", "failed"}

(* The process is killed between two statements. *)
Crash(p) ==
    /\ Running(p)
    /\ pc' = [pc EXCEPT ![p] = "failed"]
    /\ found' = [found EXCEPT ![p] = None]
    /\ UNCHANGED <<now, storeVars, planned, project, force, df, tag, result>>

Tick ==
    /\ now < Horizon
    /\ now' = now + 1
    /\ UNCHANGED <<storeVars, planned, project, force, procVars>>

RemoveImage(i) ==
    /\ docker[i] \in {"old", "ok"}
    /\ docker' = [docker EXCEPT ![i] = "removed"]
    /\ UNCHANGED <<now, kv, planned, project, force, procVars>>

(* The dependency files of a project change. *)
EditProject(r) ==
    /\ \E d \in Dockerfiles \ {planned[r]} : planned' = [planned EXCEPT ![r] = d]
    /\ UNCHANGED <<now, storeVars, project, force, procVars>>

-----------------------------------------------------------------------------
Step(p) ==
    \/ GetByProject(p) \/ CheckRc(p) \/ DeleteRc(p) \/ Plan(p) \/ PlanFails(p)
    \/ GetByDockerfile(p) \/ CheckDf(p) \/ Link(p) \/ DeleteDf(p) \/ Wait(p)
    \/ ClaimDf(p) \/ ClaimRc(p) \/ BuildImage(p) \/ BuildFails(p)
    \/ StopRc(p) \/ DeleteRcTag(p) \/ StopDf(p) \/ DeleteDfTag(p)
    \/ SetRc(p) \/ SetDf(p)

Next ==
    \/ \E p \in Procs : Step(p) \/ Crash(p)
    \/ Tick
    \/ \E i \in Images : RemoveImage(i)
    \/ \E r \in Projects : EditProject(r)

Spec == Init /\ [][Next]_vars

(* A process that runs goes on, and time passes. *)
FairSpec == Spec /\ \A p \in Procs : WF_vars(Step(p)) /\ WF_vars(Tick)

-----------------------------------------------------------------------------
(* Properties *)

(* The store never lies about images, whatever claims, releases, expiries   *)
(* and publications interleave: a cached image was really built, the entry  *)
(* of a Dockerfile names an image built from that Dockerfile, and a         *)
(* building tag is filed under its own Dockerfile.                          *)
CacheSound ==
    /\ \A k \in Keys : IsImage(kv[k]) => docker[kv[k]] # "never"
    /\ \A d \in Dockerfiles : kv[d] # None => kv[d].df = d

(* ResolveImageID returns an image that was built, never a building tag;    *)
(* with --rebuild it is the one this process has built itself.              *)
ResultBuilt ==
    \A p \in Procs : pc[p] = "done" =>
        /\ IsImage(result[p]) /\ docker[result[p]] # "never"
        /\ p \in force => tag[p] # None /\ result[p] = Image(project[p], tag[p].df)

(* No process waits for ever: the tag of a builder that crashed, or that    *)
(* was cancelled and could not release it, expires.                         *)
WaitEnds == \A p \in Procs : pc[p] = "wait" ~> ~Running(p) \/ pc[p] = "claimDf"

(* "Rebuilds only happen when dependency files change": when nobody edits   *)
(* the project during the run, the image was built from its present files.  *)
(* Refuted by Spec: the project key covers no file of the project.          *)
FreshImage ==
    \A p \in Procs : pc[p] = "done" /\ df[p] = planned[project[p]]
        => result[p].df = planned[project[p]]
=============================================================================

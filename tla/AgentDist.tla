------------------------------- MODULE AgentDist -------------------------------
(***************************************************************************)
(* ExtractAgent: mkenv processes of several versions write their embedded  *)
(* agent to one place on the host, through one temporary file, and may be  *)
(* killed at any step.  A file is the number of its inode; what an inode   *)
(* holds is a sequence of blocks.                                          *)
(***************************************************************************)
EXTENDS Naturals, Sequences

CONSTANTS
    Procs,      \* mkenv processes
    Embedded,   \* the versions of the embedded agent
    Blocks      \* writes io.Copy makes for one agent

ASSUME BlocksAssumption == Blocks \in Nat \ {0}

None == "none"
Hole == "hole"  \* a block that was never written
ASSUME AgentAssumption == None \notin Procs /\ None \notin Embedded

VARIABLES
    tmp, dst,   \* the inodes at mkenv.tmp and at mkenv: the process that created it, or None
    sidecar,    \* the hash in mkenv.sha256, or None
    content,    \* per inode: the blocks written
    carries,    \* per process: the version it embeds
    step,       \* per process: the next step of ExtractAgent
    open,       \* per process: the inode it writes
    written,    \* per process: blocks written
    overlap     \* history: two processes were extracting at once

agentVars == <<tmp, dst, sidecar, content, carries, step, open, written, overlap>>

Extracting(p) == step[p] \in {"open", "write", "rename", "sidecar"}

AgentInit ==
    /\ tmp = None /\ dst = None /\ sidecar = None
    /\ content = [p \in Procs |-> <<>>]
    /\ carries \in [Procs -> Embedded]
    /\ step = [p \in Procs |-> "check"] /\ open = [p \in Procs |-> None]
    /\ written = [p \in Procs |-> 0] /\ overlap = FALSE

GoOn(p, next) ==
    /\ step' = [step EXCEPT ![p] = next]
    /\ overlap' = (overlap \/ \E q, r \in Procs : q # r /\ Extracting(q)' /\ Extracting(r)')

(* hashMatches reads the sidecar only. *)
HashMatches(p) ==
    /\ step[p] = "check"
    /\ GoOn(p, IF sidecar = carries[p] THEN "started" ELSE "open")
    /\ UNCHANGED <<tmp, dst, sidecar, content, carries, open, written>>

(* The temporary file is created, or the one that is there truncated. *)
OpenTmp(p) ==
    /\ step[p] = "open"
    /\ LET inode == IF tmp = None THEN p ELSE tmp IN
       /\ tmp' = inode /\ open' = [open EXCEPT ![p] = inode]
       /\ content' = [content EXCEPT ![inode] = <<>>]
    /\ GoOn(p, "write")
    /\ UNCHANGED <<dst, sidecar, carries, written>>

(* One write of io.Copy at the process's own offset. *)
WriteBlock(p) ==
    /\ step[p] = "write" /\ written[p] < Blocks
    /\ LET old == content[open[p]]
           k == written[p] + 1
           size == IF Len(old) > k THEN Len(old) ELSE k
       IN  content' = [content EXCEPT ![open[p]] =
                [i \in 1..size |-> IF i = k THEN carries[p] ELSE IF i <= Len(old) THEN old[i] ELSE Hole]]
    /\ written' = [written EXCEPT ![p] = @ + 1]
    /\ GoOn(p, "write")
    /\ UNCHANGED <<tmp, dst, sidecar, carries, open>>

(* A failed write removes the temporary file and is an error. *)
WriteFails(p) ==
    /\ step[p] = "write" /\ tmp' = None /\ GoOn(p, "failed")
    /\ UNCHANGED <<dst, sidecar, content, carries, open, written>>

CloseTmp(p) ==
    /\ step[p] = "write" /\ written[p] = Blocks /\ GoOn(p, "rename")
    /\ UNCHANGED <<tmp, dst, sidecar, content, carries, open, written>>

(* Mutant of Rename: the hash is written before the agent is in place. *)
RenameLate(p) ==
    /\ step[p] = "rename"
    /\ IF sidecar # carries[p] THEN sidecar' = carries[p] /\ GoOn(p, "rename") /\ UNCHANGED <<tmp, dst>>
       ELSE dst' = tmp /\ tmp' = None /\ GoOn(p, "sidecar") /\ UNCHANGED sidecar
    /\ UNCHANGED <<content, carries, open, written>>

(* The name moves with whatever inode it has.  An error, which there is     *)
(* without one, removes the temporary file.                                 *)
Rename(p) ==
    /\ step[p] = "rename" /\ tmp' = None
    /\ \/ tmp # None /\ dst' = tmp /\ GoOn(p, "sidecar")
       \/ UNCHANGED dst /\ GoOn(p, "failed")
    /\ UNCHANGED <<sidecar, content, carries, open, written>>

(* WriteFile of the hash, which may fail after the file was truncated. *)
WriteSidecar(p) ==
    /\ step[p] = "sidecar"
    /\ \/ sidecar' = carries[p] /\ GoOn(p, "started")
       \/ sidecar' \in {sidecar, None} /\ GoOn(p, "failed")
    /\ UNCHANGED <<tmp, dst, content, carries, open, written>>

Kill(p) ==
    /\ step[p] \notin {"started", "failed"} /\ GoOn(p, "failed")
    /\ UNCHANGED <<tmp, dst, sidecar, content, carries, open, written>>

AgentNext ==
    \E p \in Procs : HashMatches(p) \/ OpenTmp(p) \/ WriteBlock(p) \/ WriteFails(p) \/ CloseTmp(p)
                     \/ Rename(p) \/ WriteSidecar(p) \/ Kill(p)

AgentSpec == AgentInit /\ [][AgentNext]_agentVars

-----------------------------------------------------------------------------
(* Properties *)

Whole(inode) == \E e \in Embedded : content[inode] = [i \in 1..Blocks |-> e]

(* As long as no two processes extract at once, the agent a container is    *)
(* started with is a complete one, and so is the one left on the host,      *)
(* wherever the processes before were killed.                               *)
AgentWhole ==
    ~overlap =>
        /\ dst # None => Whole(dst)
        /\ \A p \in Procs : step[p] = "started" => dst # None
=============================================================================

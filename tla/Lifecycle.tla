------------------------------ MODULE Lifecycle ------------------------------
(***************************************************************************)
(* One `mkenv run` from ContainerOrchestrator.Start to the end of the      *)
(* process: the goroutines of main (Start, Finalize), startEnv and         *)
(* RunContainer, the shutdown hooks and the connections they wait for, and *)
(* the container they drive through the Docker engine.                     *)
(*                                                                         *)
(* A step is one call of Docker, one channel operation or one critical     *)
(* section.  Every call of Docker may fail.                                *)
(***************************************************************************)
EXTENDS Naturals

CONSTANTS
    Clients     \* host programs that connect to a forwarded port

VARIABLES
    ctx,        \* rt.Ctx(), and containerCtx derived from it: "live", "done"
    main,       \* main goroutine: Start, then the deferred Finalize
    env,        \* startEnv goroutine
    run,        \* RunContainer goroutine
    runErr,     \* what RunContainer returned, in errChan
    exitCh,     \* the orchestrator's exit signal, capacity 1
    raw,        \* the terminal is in raw mode
    entered,    \* RunContainer has deferred term.Restore
    container,  \* the container in the Docker engine
    wg,         \* goroutines rt.wg waits for, besides startEnv and RunContainer
    conn,       \* per client: its connection through the forwarder
    faults      \* history: what went wrong, a call of Docker or a panic

procVars == <<ctx, main, env, run, runErr, exitCh, raw, entered>>
vars == <<procVars, container, wg, conn, faults>>

Hooks == {"hookControl", "hookForwarders", "hookProxy"}
Loops == {"acceptControl", "acceptProxy", "acceptForwarder"}

TypeOK ==
    /\ ctx \in {"live", "done"}
    /\ main \in {"start", "restore", "cancel", "wait", "exited", "killed"}
    /\ env \in {"create", "select", "done"}
    /\ run \in {"none", "attach", "start", "raw", "daemon", "wait", "kill", "killed",
                "remove", "return", "done"}
    /\ runErr \in {"none", "ok", "err"}
    /\ exitCh \in {"none", "ok", "err"}
    /\ raw \in BOOLEAN
    /\ entered \in BOOLEAN
    /\ container \in {"none", "created", "running", "exited", "removed"}
    /\ wg \subseteq Hooks \cup Loops \cup {"handler"}
    /\ conn \in [Clients -> {"none", "open", "half", "closed"}]
    /\ faults \subseteq {"docker", "panic"}

(* NewContainerOrchestrator has returned: control server, reverse proxy and *)
(* registry run with their hooks; Start has spawned startEnv.               *)
Init ==
    /\ ctx = "live" /\ main = "start" /\ env = "create" /\ run = "none"
    /\ runErr = "none" /\ exitCh = "none"
    /\ raw = FALSE /\ entered = FALSE
    /\ container = "none"
    /\ wg = Hooks \cup {"acceptControl", "acceptProxy"}
    /\ conn = [c \in Clients |-> "none"]
    /\ faults = {}

Alive == main \notin {"exited", "killed"}

-----------------------------------------------------------------------------
(* startEnv *)

(* CreateContainer; SetContainerID, SetPort; RunContainer is spawned. *)
CreateContainer ==
    /\ Alive /\ env = "create" /\ ctx = "live"
    /\ container' = "created"
    /\ env' = "select" /\ run' = "attach"
    /\ UNCHANGED <<ctx, main, runErr, exitCh, raw, entered, wg, conn, faults>>

(* The error may also reach mkenv after the engine has done its part. *)
CreateFails ==
    /\ Alive /\ env = "create"
    /\ env' = "done" /\ exitCh' = "err"
    /\ faults' = faults \cup {"docker"}
    /\ container' \in {container, "created"}
    /\ UNCHANGED <<ctx, main, run, runErr, raw, entered, wg, conn>>

(* Mutant of EnvExit: the signal is made from the goroutine's state. *)
EnvExitState ==
    /\ Alive /\ env = "select"
    /\ \/ runErr # "none" /\ exitCh' = run
       \/ ctx = "done" /\ UNCHANGED exitCh
    /\ env' = "done"
    /\ UNCHANGED <<ctx, main, run, runErr, raw, entered, container, wg, conn, faults>>

(* The select of startEnv: the result of RunContainer becomes the exit      *)
(* signal, or the context is done and nothing is sent.                      *)
EnvExit ==
    /\ Alive /\ env = "select"
    /\ \/ runErr # "none" /\ exitCh' = runErr
       \/ ctx = "done" /\ UNCHANGED exitCh
    /\ env' = "done"
    /\ UNCHANGED <<ctx, main, run, runErr, raw, entered, container, wg, conn, faults>>

-----------------------------------------------------------------------------
(* RunContainer *)

(* One call of Docker in RunContainer: it succeeds, which a done context    *)
(* prevents, or it fails and RunContainer returns the error.                *)
Succeeds(from, to) == Alive /\ run = from /\ ctx = "live" /\ run' = to
Fails(from) == Alive /\ run = from /\ run' = "return" /\ runErr' = "err" /\ faults' = faults \cup {"docker"}

(* ContainerAttach, then the port reservation is given up. *)
Attach ==
    /\ Succeeds("attach", "start")
    /\ UNCHANGED <<ctx, main, env, runErr, exitCh, raw, entered, container, wg, conn, faults>>

ContainerStart ==
    /\ Succeeds("start", "raw")
    /\ container' = "running"
    /\ UNCHANGED <<ctx, main, env, runErr, exitCh, raw, entered, wg, conn, faults>>

CallFails ==
    /\ \/ Fails("attach") /\ UNCHANGED container
       \/ Fails("start") /\ container' \in {container, "running"}
       \/ Fails("raw") /\ UNCHANGED container
       \/ Fails("daemon") /\ UNCHANGED container
       \/ Fails("wait") /\ UNCHANGED container
    /\ UNCHANGED <<ctx, main, env, exitCh, raw, entered, wg, conn>>

(* EnterRawAndWatch asks no context, and does nothing without a terminal;   *)
(* Restore is deferred.                                                     *)
EnterRaw ==
    /\ Alive /\ run = "raw"
    /\ raw' \in BOOLEAN /\ entered' = TRUE
    /\ run' = "daemon"
    /\ UNCHANGED <<ctx, main, env, runErr, exitCh, container, wg, conn, faults>>

(* startSandboxDaemon: the exec also fails when the container has stopped. *)
StartDaemon ==
    /\ Succeeds("daemon", "wait") /\ container = "running"
    /\ UNCHANGED <<ctx, main, env, runErr, exitCh, raw, entered, container, wg, conn, faults>>

(* Mutant of WaitReturns: nothing is removed after a normal exit. *)
WaitReturnsOnly ==
    /\ Alive /\ run = "wait"
    /\ \/ ctx = "done" /\ run' = "kill" /\ UNCHANGED runErr
       \/ container = "exited" /\ run' = "return" /\ runErr' = "ok"
    /\ UNCHANGED <<ctx, main, env, exitCh, raw, entered, container, wg, conn, faults>>

(* The select of RunContainer: the context, or the exit status.  The error  *)
(* channel is CallFails; a done context makes it ready, too.              *)
WaitReturns ==
    /\ Alive /\ run = "wait"
    /\ \/ ctx = "done" /\ run' = "kill"
       \/ container = "exited" /\ run' = "remove"
    /\ UNCHANGED <<ctx, main, env, runErr, exitCh, raw, entered, container, wg, conn, faults>>

(* KillContainer: the container may outlive SIGTERM.  A kill that fails     *)
(* (always when nothing runs) is returned, and nothing is removed.          *)
Kill ==
    /\ Alive /\ run = "kill"
    /\ \/ /\ container = "running"
          /\ container' \in {"running", "exited"}
          /\ run' = "killed" /\ UNCHANGED <<runErr, faults>>
       \/ run' = "return" /\ runErr' = "err" /\ faults' = faults \cup {"docker"} /\ UNCHANGED container
    /\ UNCHANGED <<ctx, main, env, exitCh, raw, entered, wg, conn>>

(* ContainerRemove with Force; only KillContainer returns its error. *)
Remove ==
    /\ Alive /\ run \in {"remove", "killed"}
    /\ run' = "return"
    /\ \/ container' = "removed" /\ runErr' = "ok" /\ UNCHANGED faults
       \/ /\ runErr' = IF run = "killed" THEN "err" ELSE "ok"
          /\ faults' = faults \cup {"docker"} /\ UNCHANGED container
    /\ UNCHANGED <<ctx, main, env, exitCh, raw, entered, wg, conn>>

(* Mutant of Return: no deferred Restore. *)
ReturnRaw ==
    /\ Alive /\ run = "return"
    /\ run' = "done"
    /\ UNCHANGED <<ctx, main, env, runErr, exitCh, raw, entered, container, wg, conn, faults>>

(* The deferred calls run when RunContainer returns. *)
Return ==
    /\ Alive /\ run = "return"
    /\ run' = "done"
    /\ raw' = (raw /\ ~entered)
    /\ UNCHANGED <<ctx, main, env, runErr, exitCh, entered, container, wg, conn, faults>>

-----------------------------------------------------------------------------
(* main: Start, Finalize *)

(* A nil exit signal cancels the context. *)
StartReturns ==
    /\ main = "start"
    /\ \/ exitCh = "err" /\ UNCHANGED ctx
       \/ exitCh = "ok" /\ ctx' = "done"
       \/ ctx = "done" /\ UNCHANGED ctx
    /\ main' = "restore"
    /\ UNCHANGED <<env, run, runErr, exitCh, raw, entered, container, wg, conn, faults>>

Restore ==
    /\ main = "restore"
    /\ raw' = FALSE
    /\ main' = "cancel"
    /\ UNCHANGED <<ctx, env, run, runErr, exitCh, entered, container, wg, conn, faults>>

CancelCtx ==
    /\ main = "cancel"
    /\ ctx' = "done"
    /\ main' = "wait"
    /\ UNCHANGED <<env, run, runErr, exitCh, raw, entered, container, wg, conn, faults>>

Pumping == \E c \in Clients : conn[c] \in {"open", "half"}

(* Mutant of Waited: Finalize does not wait for RunContainer. *)
WaitedHooks == env = "done" /\ wg = {} /\ ~Pumping

(* rt.wg is empty. *)
Waited == env = "done" /\ run \in {"none", "done"} /\ wg = {} /\ ~Pumping

Exit ==
    /\ main = "wait" /\ Waited
    /\ main' = "exited"
    /\ UNCHANGED <<ctx, env, run, runErr, exitCh, raw, entered, container, wg, conn, faults>>

(* A goroutine of GoNamed panics: its deferred calls run, the goroutine     *)
(* ends without a result, and the first failure cancels the context.  The   *)
(* hooks are left out: one that panics closes nothing.                      *)
Panic ==
    /\ Alive
    /\ ctx' = "done" /\ faults' = faults \cup {"panic"}
    /\ \/ env # "done" /\ env' = "done" /\ UNCHANGED <<run, raw, wg>>
       \/ /\ run \notin {"none", "done"} /\ run' = "done"
          /\ raw' = (raw /\ ~entered) /\ UNCHANGED <<env, wg>>
       \/ \E g \in wg \ Hooks : wg' = wg \ {g} /\ UNCHANGED <<env, run, raw>>
    /\ UNCHANGED <<main, runErr, exitCh, entered, container, conn>>

-----------------------------------------------------------------------------
(* Goroutines of the servers *)

HookRuns(h) ==
    /\ Alive /\ ctx = "done" /\ h \in wg
    /\ wg' = wg \ {h}
    /\ UNCHANGED <<procVars, container, conn, faults>>

(* Mutant of LoopEnds: srv.Close leaves the control listener open. *)
LoopEndsProxies(l) ==
    /\ Alive /\ l \in wg \ {"acceptControl"} /\ ctx = "done"
    /\ wg' = wg \ {l}
    /\ UNCHANGED <<procVars, container, conn, faults>>

(* The control server's loop ends when its hook closes the listener; the    *)
(* listeners of ServeTCP are closed by the context.                         *)
LoopEnds(l) ==
    /\ Alive /\ l \in wg
    /\ IF l = "acceptControl" THEN "hookControl" \notin wg ELSE ctx = "done"
    /\ wg' = wg \ {l}
    /\ UNCHANGED <<procVars, container, conn, faults>>

(* The read loop of a control connection starts a dispatch goroutine, as    *)
(* long as the hook of the control server has not closed the connection.    *)
HandlerStarts ==
    /\ Alive /\ container \in {"running", "exited"} /\ "hookControl" \in wg
    /\ wg' = wg \cup {"handler"}
    /\ UNCHANGED <<procVars, container, conn, faults>>

(* The handler may have added a forwarder, or removed it.  It may end after *)
(* every hook has run.                                                      *)
HandlerEnds ==
    /\ Alive /\ "handler" \in wg
    /\ \E loops \in {wg, wg \cup {"acceptForwarder"}, wg \ {"acceptForwarder"}} :
            wg' = loops \ {"handler"}
    /\ UNCHANGED <<procVars, container, conn, faults>>

(* The accept loop hands a connection to Forwarder.handleConn. *)
Accept(c) ==
    /\ Alive /\ conn[c] = "none"
    /\ "acceptForwarder" \in wg /\ container = "running"
    /\ conn' = [conn EXCEPT ![c] = "open"]
    /\ UNCHANGED <<procVars, container, wg, faults>>

(* PumpBidirectional: the container's end is gone, so one direction is done *)
(* and the client's side is half closed; the other direction still copies.  *)
BackendEnds(c) ==
    /\ Alive /\ conn[c] = "open" /\ container # "running"
    /\ conn' = [conn EXCEPT ![c] = "half"]
    /\ UNCHANGED <<procVars, container, wg, faults>>

ClientCloses(c) ==
    /\ conn[c] \in {"open", "half"}
    /\ conn' = [conn EXCEPT ![c] = "closed"]
    /\ UNCHANGED <<procVars, container, wg, faults>>

-----------------------------------------------------------------------------
(* Environment *)

(* The user leaves the shell, or SIGTERM reaches the handler. *)
ContainerExits ==
    /\ container = "running"
    /\ container' = "exited"
    /\ UNCHANGED <<procVars, wg, conn, faults>>

(* SIGKILL, SIGHUP, or a signal before the terminal is raw. *)
Killed ==
    /\ Alive
    /\ main' = "killed"
    /\ UNCHANGED <<ctx, env, run, runErr, exitCh, raw, entered, container, wg, conn, faults>>

-----------------------------------------------------------------------------
EnvStep == CreateContainer \/ CreateFails \/ EnvExit
RunStep == \/ Attach \/ ContainerStart \/ CallFails \/ EnterRaw \/ StartDaemon
           \/ WaitReturns \/ Kill \/ Remove \/ Return
MainStep == StartReturns \/ Restore \/ CancelCtx \/ Exit

Next ==
    \/ EnvStep \/ RunStep \/ MainStep \/ Panic
    \/ \E h \in Hooks : HookRuns(h)
    \/ \E l \in Loops : LoopEnds(l)
    \/ HandlerStarts \/ HandlerEnds
    \/ \E c \in Clients : Accept(c) \/ BackendEnds(c) \/ ClientCloses(c)
    \/ ContainerExits \/ Killed

Spec == Init /\ [][Next]_vars

(* The goroutines run.  A RunContainer that waits for a running container   *)
(* waits: the failure of ContainerWait is not a step it must take.          *)
Fairness ==
    /\ WF_vars(EnvStep) /\ WF_vars(MainStep)
    /\ WF_vars(run # "wait" /\ RunStep) /\ WF_vars(WaitReturns)
    /\ \A h \in Hooks : WF_vars(HookRuns(h))
    /\ \A l \in Loops : WF_vars(LoopEnds(l))
    /\ WF_vars(HandlerEnds)

(* Clients hang up in the end, as they do after reading end-of-file. *)
FairSpec == Spec /\ Fairness /\ \A c \in Clients : WF_vars(ClientCloses(c))

-----------------------------------------------------------------------------
(* Properties *)

(* mkenv never leaves the terminal in raw mode, even when Finalize restores *)
(* it before RunContainer has entered raw mode.                             *)
TerminalRestored == main = "exited" => ~raw

(* When no call of Docker fails and no goroutine panics, mkenv does not     *)
(* exit before the container is removed.                                    *)
CleanExitRemoves == main = "exited" /\ faults = {} => container = "removed"

(* mkenv ends once its container has stopped or its context is done: no     *)
(* exit signal is lost between RunContainer, startEnv and Start, and no     *)
(* goroutine that Finalize waits for is left without a wake-up.  It needs   *)
(* clients that close their connections.                                    *)
MkenvExits == container = "exited" \/ ctx = "done" ~> ~Alive

(* RunContainer "removes container on exit": once it has entered raw mode,  *)
(* and while nothing panics, mkenv does not exit and leave the container    *)
(* running.  Refuted by Spec: when startSandboxDaemon fails, RunContainer   *)
(* returns the error at once.                                               *)
ContainerDestroyed ==
    main = "exited" /\ entered /\ "panic" \notin faults => container # "running"
=============================================================================

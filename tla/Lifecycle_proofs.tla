-------------------------- MODULE Lifecycle_proofs --------------------------
(***************************************************************************)
(* Safety of the shutdown of `mkenv run`, for any number of clients.       *)
(***************************************************************************)
EXTENDS Lifecycle, TLAPS

(* The terminal is raw only inside RunContainer, between EnterRaw and the   *)
(* deferred Restore, and the process ends after RunContainer.               *)
RawInv ==
    /\ raw => entered /\ run \in {"daemon", "wait", "kill", "killed", "remove",
                               "return"}
    /\ main = "exited" => run \in {"none", "done"}
    /\ env = "create" => run = "none" /\ runErr = "none"

(* Without faults the context is cancelled only by the exit signal, the     *)
(* signal only follows a successful RunContainer, and that the removal.     *)
CleanInv ==
    faults = {} =>
        /\ runErr # "err" /\ exitCh # "err"
        /\ runErr = "ok" => container = "removed" /\ run \in {"return", "done"}
        /\ exitCh = "ok" => runErr = "ok"
        /\ ctx = "done" => exitCh = "ok"
        /\ main \notin {"start", "killed"} => exitCh = "ok"

IInv == TypeOK /\ RawInv /\ CleanInv

(* Every step keeps the variables in their types. *)
LEMMA TypeStep == TypeOK /\ [Next]_vars => TypeOK'
<1> SUFFICES ASSUME TypeOK, [Next]_vars PROVE TypeOK'  OBVIOUS
<1> USE DEF TypeOK, Hooks, Loops, procVars
<1>1. CASE CreateContainer
  BY <1>1 DEF CreateContainer, Alive
<1>2. CASE CreateFails
  BY <1>2 DEF CreateFails, Alive
<1>3. CASE EnvExit
  BY <1>3 DEF EnvExit, Alive
<1>4. CASE Attach
  BY <1>4 DEF Attach, Succeeds, Alive
<1>5. CASE ContainerStart
  BY <1>5 DEF ContainerStart, Succeeds, Alive
<1>6. CASE CallFails
  <2>1. raw' \in BOOLEAN /\ entered' \in BOOLEAN /\ faults' \subseteq {"docker", "panic"}
    BY <1>6, Zenon DEF CallFails, Fails
  <2>2. QED
    BY <1>6, <2>1 DEF CallFails, Fails, Alive
<1>7. CASE EnterRaw
  BY <1>7 DEF EnterRaw, Alive
<1>8. CASE StartDaemon
  BY <1>8 DEF StartDaemon, Succeeds, Alive
<1>9. CASE WaitReturns
  BY <1>9 DEF WaitReturns, Alive
<1>10. CASE Kill
  BY <1>10, ZenonT(60) DEF Kill, Alive
<1>11. CASE Remove
  BY <1>11, ZenonT(60) DEF Remove, Alive
<1>12. CASE Return
  BY <1>12 DEF Return, Alive
<1>13. CASE StartReturns
  BY <1>13 DEF StartReturns
<1>14. CASE Restore
  <2>1. raw' \in BOOLEAN /\ entered' \in BOOLEAN /\ faults' \subseteq {"docker", "panic"}
    BY <1>14, Zenon DEF Restore
  <2>2. QED
    BY <1>14, <2>1 DEF Restore
<1>15. CASE CancelCtx
  BY <1>15 DEF CancelCtx
<1>16. CASE Exit
  BY <1>16 DEF Exit, Waited
<1>17. CASE Panic
  <2>1. /\ raw' \in BOOLEAN /\ entered' \in BOOLEAN
        /\ faults' \subseteq {"docker", "panic"}
    BY <1>17, Zenon DEF Panic
  <2>2. env' \in {"create", "select", "done"} /\ wg' \subseteq wg
    BY <1>17, Zenon DEF Panic
  <2>3. run' \in {"none", "done"} \cup {run}
    BY <1>17, Zenon DEF Panic
  <2>4. QED
    BY <1>17, <2>1, <2>2, <2>3 DEF Panic
<1>18. CASE HandlerStarts
  BY <1>18 DEF HandlerStarts, Alive
<1>18a. CASE HandlerEnds
  BY <1>18a DEF HandlerEnds, Alive
<1>19. CASE ContainerExits
  BY <1>19 DEF ContainerExits
<1>20. CASE Killed
  BY <1>20 DEF Killed, Alive
<1>21. ASSUME NEW h \in Hooks, HookRuns(h) PROVE TypeOK'
  BY <1>21 DEF HookRuns
<1>22. ASSUME NEW l \in Loops, LoopEnds(l) PROVE TypeOK'
  BY <1>22 DEF LoopEnds
<1>23. ASSUME NEW c \in Clients, Accept(c) PROVE TypeOK'
  BY <1>23 DEF Accept
<1>24. ASSUME NEW c \in Clients, BackendEnds(c) PROVE TypeOK'
  BY <1>24 DEF BackendEnds
<1>25. ASSUME NEW c \in Clients, ClientCloses(c) PROVE TypeOK'
  BY <1>25 DEF ClientCloses
<1>26. CASE UNCHANGED vars
  BY <1>26 DEF vars
<1>27. QED
  BY <1>1, <1>2, <1>3, <1>4, <1>5, <1>6, <1>7, <1>8, <1>9, <1>10, <1>11, <1>12,
    <1>13, <1>14, <1>15, <1>16, <1>17, <1>18, <1>18a, <1>19, <1>20, <1>21, <1>22, <1>23,
    <1>24, <1>25, <1>26
  DEF Next, EnvStep, RunStep, MainStep

(* Raw mode stays inside RunContainer, and RunContainer inside the process. *)
LEMMA RawStep == TypeOK /\ RawInv /\ [Next]_vars => RawInv'
<1> SUFFICES ASSUME TypeOK, RawInv, [Next]_vars PROVE RawInv'  OBVIOUS
<1> USE DEF TypeOK, RawInv, procVars
<1>1. CASE CreateContainer
  BY <1>1 DEF CreateContainer, Alive
<1>2. CASE CreateFails
  BY <1>2 DEF CreateFails, Alive
<1>3. CASE EnvExit
  BY <1>3 DEF EnvExit, Alive
<1>4. CASE Attach
  BY <1>4 DEF Attach, Succeeds, Alive
<1>5. CASE ContainerStart
  BY <1>5 DEF ContainerStart, Succeeds, Alive
<1>6. CASE CallFails
  BY <1>6 DEF CallFails, Fails, Alive
<1>7. CASE EnterRaw
  BY <1>7 DEF EnterRaw, Alive
<1>8. CASE StartDaemon
  BY <1>8 DEF StartDaemon, Succeeds, Alive
<1>9. CASE WaitReturns
  BY <1>9 DEF WaitReturns, Alive
<1>10. CASE Kill
  BY <1>10 DEF Kill, Alive
<1>11. CASE Remove
  BY <1>11 DEF Remove, Alive
<1>12. CASE Return
  BY <1>12 DEF Return, Alive
<1>13. CASE StartReturns
  BY <1>13 DEF StartReturns
<1>14. CASE Restore
  BY <1>14 DEF Restore
<1>15. CASE CancelCtx
  BY <1>15 DEF CancelCtx
<1>16. CASE Exit
  BY <1>16 DEF Exit, Waited
<1>17. CASE Panic
  <2> USE <1>17 DEF Panic, Alive
  <2>1. main' = main /\ entered' = entered /\ runErr' = runErr /\ main # "exited"
    OBVIOUS
  <2>2. CASE run' = "done" /\ raw' = (raw /\ ~entered) /\ run # "none" /\ env' = env
    <3>1. ~raw' /\ env' # "create"
      BY <2>2, Zenon
    <3>2. QED
      BY <2>1, <2>2, <3>1
  <2>3. CASE run' = run /\ raw' = raw /\ (env' = env \/ env' = "done")
    BY <2>1, <2>3
  <2>4. QED
    BY <2>2, <2>3, Zenon
<1>18. CASE HandlerStarts
  BY <1>18 DEF HandlerStarts, Alive
<1>18a. CASE HandlerEnds
  BY <1>18a DEF HandlerEnds, Alive
<1>19. CASE ContainerExits
  BY <1>19 DEF ContainerExits
<1>20. CASE Killed
  BY <1>20 DEF Killed, Alive
<1>21. ASSUME NEW h \in Hooks, HookRuns(h) PROVE RawInv'
  BY <1>21 DEF HookRuns
<1>22. ASSUME NEW l \in Loops, LoopEnds(l) PROVE RawInv'
  BY <1>22 DEF LoopEnds
<1>23. ASSUME NEW c \in Clients, Accept(c) PROVE RawInv'
  BY <1>23 DEF Accept
<1>24. ASSUME NEW c \in Clients, BackendEnds(c) PROVE RawInv'
  BY <1>24 DEF BackendEnds
<1>25. ASSUME NEW c \in Clients, ClientCloses(c) PROVE RawInv'
  BY <1>25 DEF ClientCloses
<1>26. CASE UNCHANGED vars
  BY <1>26 DEF vars
<1>27. QED
  BY <1>1, <1>2, <1>3, <1>4, <1>5, <1>6, <1>7, <1>8, <1>9, <1>10, <1>11, <1>12,
    <1>13, <1>14, <1>15, <1>16, <1>17, <1>18, <1>18a, <1>19, <1>20, <1>21, <1>22, <1>23,
    <1>24, <1>25, <1>26
  DEF Next, EnvStep, RunStep, MainStep

(* Without faults, the order removal, result, signal, cancellation is kept. *)
LEMMA CleanStep == TypeOK /\ RawInv /\ CleanInv /\ [Next]_vars => CleanInv'
<1> SUFFICES ASSUME TypeOK, RawInv, CleanInv, [Next]_vars PROVE CleanInv'  OBVIOUS
<1> USE DEF TypeOK, RawInv, CleanInv, procVars
<1>1. CASE CreateContainer
  BY <1>1 DEF CreateContainer, Alive
<1>2. CASE CreateFails
  BY <1>2 DEF CreateFails, Alive
<1>3. CASE EnvExit
  BY <1>3 DEF EnvExit, Alive
<1>4. CASE Attach
  BY <1>4 DEF Attach, Succeeds, Alive
<1>5. CASE ContainerStart
  BY <1>5 DEF ContainerStart, Succeeds, Alive
<1>6. CASE CallFails
  BY <1>6 DEF CallFails, Fails, Alive
<1>7. CASE EnterRaw
  BY <1>7 DEF EnterRaw, Alive
<1>8. CASE StartDaemon
  BY <1>8 DEF StartDaemon, Succeeds, Alive
<1>9. CASE WaitReturns
  BY <1>9 DEF WaitReturns, Alive
<1>10. CASE Kill
  BY <1>10 DEF Kill, Alive
<1>11. CASE Remove
  BY <1>11 DEF Remove, Alive
<1>12. CASE Return
  BY <1>12 DEF Return, Alive
<1>13. CASE StartReturns
  BY <1>13 DEF StartReturns
<1>14. CASE Restore
  BY <1>14 DEF Restore
<1>15. CASE CancelCtx
  BY <1>15 DEF CancelCtx
<1>16. CASE Exit
  BY <1>16 DEF Exit, Waited
<1>17. CASE Panic
  BY <1>17 DEF Panic, Alive
<1>18. CASE HandlerStarts
  BY <1>18 DEF HandlerStarts, Alive
<1>18a. CASE HandlerEnds
  BY <1>18a DEF HandlerEnds, Alive
<1>19. CASE ContainerExits
  BY <1>19 DEF ContainerExits
<1>20. CASE Killed
  BY <1>20 DEF Killed, Alive
<1>21. ASSUME NEW h \in Hooks, HookRuns(h) PROVE CleanInv'
  BY <1>21 DEF HookRuns
<1>22. ASSUME NEW l \in Loops, LoopEnds(l) PROVE CleanInv'
  BY <1>22 DEF LoopEnds
<1>23. ASSUME NEW c \in Clients, Accept(c) PROVE CleanInv'
  BY <1>23 DEF Accept
<1>24. ASSUME NEW c \in Clients, BackendEnds(c) PROVE CleanInv'
  BY <1>24 DEF BackendEnds
<1>25. ASSUME NEW c \in Clients, ClientCloses(c) PROVE CleanInv'
  BY <1>25 DEF ClientCloses
<1>26. CASE UNCHANGED vars
  BY <1>26 DEF vars
<1>27. QED
  BY <1>1, <1>2, <1>3, <1>4, <1>5, <1>6, <1>7, <1>8, <1>9, <1>10, <1>11, <1>12,
    <1>13, <1>14, <1>15, <1>16, <1>17, <1>18, <1>18a, <1>19, <1>20, <1>21, <1>22, <1>23,
    <1>24, <1>25, <1>26
  DEF Next, EnvStep, RunStep, MainStep

(* The state in which Start waits for startEnv. *)
LEMMA InitIInv == Init => IInv
  BY DEF Init, IInv, TypeOK, RawInv, CleanInv, Hooks, Loops

(* IInv is inductive. *)
THEOREM Inductive == Spec => []IInv
<1>1. IInv /\ [Next]_vars => IInv'
  BY TypeStep, RawStep, CleanStep DEF IInv
<1>2. QED
  BY InitIInv, <1>1, PTL DEF Spec

(* Type correctness of the goroutines, channels and the container. *)
THEOREM TypeCorrect == Spec => []TypeOK
<1>1. IInv => TypeOK
  BY DEF IInv
<1>2. QED
  BY Inductive, <1>1, PTL

(* However the goroutines of a run interleave, and whatever fails or        *)
(* panics, the terminal is not raw when the process ends by Finalize.       *)
THEOREM TerminalAlwaysRestored == Spec => []TerminalRestored
<1>1. IInv => TerminalRestored
  BY DEF IInv, RawInv, TerminalRestored
<1>2. QED
  BY Inductive, <1>1, PTL

(* A run without faults ends with its container removed. *)
THEOREM CleanRunRemoves == Spec => []CleanExitRemoves
<1>1. IInv => CleanExitRemoves
  BY DEF IInv, CleanInv, CleanExitRemoves
<1>2. QED
  BY Inductive, <1>1, PTL
=============================================================================

------------------------ MODULE PortForwarding_proofs ------------------------
(***************************************************************************)
(* Safety of the port synchronisation for every set of ports and programs. *)
(***************************************************************************)
EXTENDS PortForwarding, TLAPS

(* What the daemon holds: its proxy port and its prebinds; it is never the  *)
(* target of a kill because no snapshot names it.                           *)
DaemonInv ==
    /\ PrebindsHoldSockets
    /\ ProxyPort \in Ports => contPort[ProxyPort] = Daemon
    /\ daemonUp
    /\ \A p \in Ports : listeners[p] # Daemon

(* One snapshot round at a time: while the handler runs the reporter waits  *)
(* for it (or its connection is gone) and has nothing left to apply.        *)
RoundInv ==
    /\ rep = "mapping" => snapPc = "idle" /\ repTodo = {}
    /\ snapPc # "idle" => /\ rep = "waiting" \/ (rep = "idle" /\ ~connUp)
                          /\ repTodo = {}
    /\ rep = "waiting" => repTodo = {}
    /\ snapPc = "idle" => resp = NoResponse

(* The handler's answers: every listener not yet visited is still to do, an *)
(* "error" belongs to a listener, and only entries without listener go.     *)
AnswerInv ==
    /\ \A p \in Ports : resp[p] = "error" => listeners[p] # Absent
    /\ snapPc = "add" => \A p \in Ports :
            /\ p \in snapTodo => listeners[p] # Absent
            /\ listeners[p] # Absent => p \in snapTodo \/ resp[p] # "none"
    /\ snapPc = "remove" => \A p \in Ports :
            listeners[p] # Absent => p \notin snapTodo /\ resp[p] # "none"

(* A refused port keeps its dead entry until the next round. *)
RefusedDead ==
    host = "up" => \A p \in Ports :
        resp[p] = "error" \/ p \in repTodo => registry[p] = "dead"

IInv == TypeOK /\ ListenersAccounted /\ DaemonInv /\ RoundInv /\ AnswerInv /\ RefusedDead

(* Every step keeps the variables in their types. *)
LEMMA TypeStep == TypeOK /\ [Next]_vars => TypeOK'
<1> SUFFICES ASSUME TypeOK, [Next]_vars PROVE TypeOK'  OBVIOUS
<1> USE PortsAssumption DEF TypeOK, Entries, Own, Holders, PIDs, ListenerPID, NoListeners,
        NoResponse, AllFree, hostVars, snapVars, exposeVars, blockVars,
        contVars, repVars, preVars
<1>1. ASSUME NEW q \in Ports, CloseListener(q) PROVE TypeOK'
  BY <1>1 DEF CloseListener
<1>2. ASSUME NEW q \in Ports, SnapAdd(q) PROVE TypeOK'
  BY <1>2 DEF SnapAdd, Add, AddResult, NothingToAdd, StartedListener
<1>3. ASSUME NEW q \in Ports, SnapRemove(q) PROVE TypeOK'
  BY <1>3 DEF SnapRemove, Stop
<1>4. ASSUME NEW q \in Ports, OnExpose(q) PROVE TypeOK'
  BY <1>4 DEF OnExpose, Add, AddResult, NothingToAdd, StartedListener
<1>5. ASSUME NEW q \in Ports, BlockedFilter(q) PROVE TypeOK'
  BY <1>5 DEF BlockedFilter, Has
<1>6. ASSUME NEW q \in Ports, ApplyRefused(q) PROVE TypeOK'
  BY <1>6, ZenonT(60) DEF ApplyRefused, Kill, ForgetSnapshot, NoListeners
<1>7. ASSUME NEW q \in Ports, PrebindAdd(q) PROVE TypeOK'
  BY <1>7 DEF PrebindAdd
<1>8. ASSUME NEW q \in Ports, OtherBind(q) PROVE TypeOK'
  BY <1>8 DEF OtherBind
<1>9. ASSUME NEW q \in Ports, OtherClose(q) PROVE TypeOK'
  BY <1>9 DEF OtherClose
<1>10. ASSUME NEW q \in Ports, ExposeRequest(q) PROVE TypeOK'
  BY <1>10 DEF ExposeRequest
<1>11. ASSUME NEW q \in Ports, ExposeExit(q) PROVE TypeOK'
  BY <1>11 DEF ExposeExit
<1>12. ASSUME NEW q \in Ports, NEW a \in Apps, AppBind(a, q) PROVE TypeOK'
  BY <1>12 DEF AppBind
<1>13. ASSUME NEW q \in Ports, NEW a \in Apps, AppClose(a, q) PROVE TypeOK'
  BY <1>13 DEF AppClose
<1>14. CASE CancelCtx
  BY <1>14 DEF CancelCtx
<1>15. CASE StopAll
  BY <1>15 DEF StopAll, Stop, List, Has
<1>16. CASE SnapList
  BY <1>16 DEF SnapList, List, Has
<1>17. CASE SnapReply
  BY <1>17 DEF SnapReply, Refused, ForgetSnapshot, NoListeners, NoResponse
<1>18. CASE BlockedScan
  BY <1>18 DEF BlockedScan
<1>19. CASE BlockedScanFails
  BY <1>19 DEF BlockedScanFails
<1>20. CASE BlockedReply
  BY <1>20 DEF BlockedReply, AllFree
<1>21. CASE RaceAbort
  BY <1>21, ZenonT(60) DEF RaceAbort, UnlockedRead, LockedWrite, NoResponse, AllFree
<1>22. CASE Disconnect
  BY <1>22 DEF Disconnect
<1>23. CASE CollectInodes
  BY <1>23 DEF CollectInodes
<1>24. CASE SendSnapshot
  BY <1>24 DEF SendSnapshot, Snapshot, PIDOf, AllFree
<1>25. CASE RequestBlocked
  BY <1>25 DEF RequestBlocked
<1>26. CASE CloseFilter
  BY <1>26 DEF CloseFilter, AllFree
<1>27. CASE UNCHANGED vars
  BY <1>27 DEF vars
<1>28. QED
  BY <1>1, <1>2, <1>3, <1>4, <1>5, <1>6, <1>7, <1>8, <1>9, <1>10, <1>11,
    <1>12, <1>13, <1>14, <1>15, <1>16, <1>17, <1>18, <1>19, <1>20, <1>21,
    <1>22, <1>23, <1>24, <1>25, <1>26, <1>27, PortsAssumption
  DEF Next, HandlerStep, DaemonStep, Environment

(* Add, Remove, StopAll and the asynchronous close keep registry and sockets together. *)
LEMMA ListenersStep == TypeOK /\ ListenersAccounted /\ [Next]_vars => ListenersAccounted'
<1> SUFFICES ASSUME TypeOK, ListenersAccounted, [Next]_vars PROVE ListenersAccounted'  OBVIOUS
<1> USE PortsAssumption DEF ListenersAccounted, TypeOK, Entries, Own, Holders, PIDs,
        ListenerPID, NoListeners, NoResponse, AllFree, Daemon, NoPID,
        Absent, Free, hostVars, snapVars, exposeVars, blockVars, contVars,
        repVars, preVars
<1>1. ASSUME NEW q \in Ports, CloseListener(q) PROVE ListenersAccounted'
  BY <1>1 DEF CloseListener
<1>2. ASSUME NEW q \in Ports, SnapAdd(q) PROVE ListenersAccounted'
  BY <1>2 DEF SnapAdd, Add, AddResult, NothingToAdd, StartedListener
<1>3. ASSUME NEW q \in Ports, SnapRemove(q) PROVE ListenersAccounted'
  BY <1>3 DEF SnapRemove, Stop
<1>4. ASSUME NEW q \in Ports, OnExpose(q) PROVE ListenersAccounted'
  BY <1>4 DEF OnExpose, Add, AddResult, NothingToAdd, StartedListener
<1>5. ASSUME NEW q \in Ports, BlockedFilter(q) PROVE ListenersAccounted'
  BY <1>5 DEF BlockedFilter, Has
<1>6. ASSUME NEW q \in Ports, ApplyRefused(q) PROVE ListenersAccounted'
  BY <1>6 DEF ApplyRefused, Kill, ForgetSnapshot, NoListeners
<1>7. ASSUME NEW q \in Ports, PrebindAdd(q) PROVE ListenersAccounted'
  BY <1>7 DEF PrebindAdd
<1>8. ASSUME NEW q \in Ports, OtherBind(q) PROVE ListenersAccounted'
  BY <1>8 DEF OtherBind
<1>9. ASSUME NEW q \in Ports, OtherClose(q) PROVE ListenersAccounted'
  BY <1>9 DEF OtherClose
<1>10. ASSUME NEW q \in Ports, ExposeRequest(q) PROVE ListenersAccounted'
  BY <1>10 DEF ExposeRequest
<1>11. ASSUME NEW q \in Ports, ExposeExit(q) PROVE ListenersAccounted'
  BY <1>11 DEF ExposeExit
<1>12. ASSUME NEW q \in Ports, NEW a \in Apps, AppBind(a, q) PROVE ListenersAccounted'
  BY <1>12 DEF AppBind
<1>13. ASSUME NEW q \in Ports, NEW a \in Apps, AppClose(a, q) PROVE ListenersAccounted'
  BY <1>13 DEF AppClose
<1>14. CASE CancelCtx
  BY <1>14 DEF CancelCtx
<1>15. CASE StopAll
  BY <1>15 DEF StopAll, Stop, List, Has
<1>16. CASE SnapList
  BY <1>16 DEF SnapList, List, Has
<1>17. CASE SnapReply
  BY <1>17 DEF SnapReply, Refused, ForgetSnapshot, NoListeners, NoResponse
<1>18. CASE BlockedScan
  BY <1>18 DEF BlockedScan
<1>19. CASE BlockedScanFails
  BY <1>19 DEF BlockedScanFails
<1>20. CASE BlockedReply
  BY <1>20 DEF BlockedReply, AllFree
<1>21. CASE RaceAbort
  BY <1>21 DEF RaceAbort, UnlockedRead, LockedWrite, NoResponse, AllFree
<1>22. CASE Disconnect
  BY <1>22 DEF Disconnect
<1>23. CASE CollectInodes
  BY <1>23 DEF CollectInodes
<1>24. CASE SendSnapshot
  BY <1>24 DEF SendSnapshot, Snapshot, PIDOf, AllFree
<1>25. CASE RequestBlocked
  BY <1>25 DEF RequestBlocked
<1>26. CASE CloseFilter
  BY <1>26 DEF CloseFilter, AllFree
<1>27. CASE UNCHANGED vars
  BY <1>27 DEF vars
<1>28. QED
  BY <1>1, <1>2, <1>3, <1>4, <1>5, <1>6, <1>7, <1>8, <1>9, <1>10, <1>11,
    <1>12, <1>13, <1>14, <1>15, <1>16, <1>17, <1>18, <1>19, <1>20, <1>21,
    <1>22, <1>23, <1>24, <1>25, <1>26, <1>27, PortsAssumption
  DEF Next, HandlerStep, DaemonStep, Environment

(* Prebinds and the sockets of the daemon change together. *)
LEMMA DaemonStepInv == TypeOK /\ DaemonInv /\ [Next]_vars => DaemonInv'
<1> SUFFICES ASSUME TypeOK, DaemonInv, [Next]_vars PROVE DaemonInv'  OBVIOUS
<1> USE PortsAssumption DEF DaemonInv, PrebindsHoldSockets, TypeOK, Entries, Own, Holders,
        PIDs, ListenerPID, NoListeners, NoResponse, AllFree, Daemon,
        NoPID, Absent, Free, hostVars, snapVars, exposeVars, blockVars,
        contVars, repVars, preVars
<1>1. ASSUME NEW q \in Ports, CloseListener(q) PROVE DaemonInv'
  BY <1>1 DEF CloseListener
<1>2. ASSUME NEW q \in Ports, SnapAdd(q) PROVE DaemonInv'
  BY <1>2 DEF SnapAdd, Add, AddResult, NothingToAdd, StartedListener
<1>3. ASSUME NEW q \in Ports, SnapRemove(q) PROVE DaemonInv'
  BY <1>3 DEF SnapRemove, Stop
<1>4. ASSUME NEW q \in Ports, OnExpose(q) PROVE DaemonInv'
  BY <1>4 DEF OnExpose, Add, AddResult, NothingToAdd, StartedListener
<1>5. ASSUME NEW q \in Ports, BlockedFilter(q) PROVE DaemonInv'
  BY <1>5 DEF BlockedFilter, Has
<1>6. ASSUME NEW q \in Ports, ApplyRefused(q) PROVE DaemonInv'
  <2> DEFINE pid == listeners[q]
             freed == [p \in Ports |-> IF contPort[p] = pid THEN Free ELSE contPort[p]]
  <2>1. daemonUp' /\ contPort' \in {contPort, freed} /\ prebinds' = prebinds
    BY <1>6 DEF ApplyRefused, Kill, contVars
  <2>2. \A p \in Ports : listeners'[p] # Daemon
    BY <1>6 DEF ApplyRefused, ForgetSnapshot
  <2>3. \A p \in Ports : contPort'[p] = Daemon <=> contPort[p] = Daemon
    BY <2>1
  <2>4. PrebindsHoldSockets'
    BY <2>1, <2>3
  <2>5. QED
    BY <2>1, <2>2, <2>3, <2>4
<1>7. ASSUME NEW q \in Ports, PrebindAdd(q) PROVE DaemonInv'
  BY <1>7 DEF PrebindAdd
<1>8. ASSUME NEW q \in Ports, OtherBind(q) PROVE DaemonInv'
  BY <1>8 DEF OtherBind
<1>9. ASSUME NEW q \in Ports, OtherClose(q) PROVE DaemonInv'
  BY <1>9 DEF OtherClose
<1>10. ASSUME NEW q \in Ports, ExposeRequest(q) PROVE DaemonInv'
  BY <1>10 DEF ExposeRequest
<1>11. ASSUME NEW q \in Ports, ExposeExit(q) PROVE DaemonInv'
  BY <1>11 DEF ExposeExit
<1>12. ASSUME NEW q \in Ports, NEW a \in Apps, AppBind(a, q) PROVE DaemonInv'
  BY <1>12 DEF AppBind
<1>13. ASSUME NEW q \in Ports, NEW a \in Apps, AppClose(a, q) PROVE DaemonInv'
  BY <1>13 DEF AppClose
<1>14. CASE CancelCtx
  BY <1>14 DEF CancelCtx
<1>15. CASE StopAll
  BY <1>15 DEF StopAll, Stop, List, Has
<1>16. CASE SnapList
  BY <1>16 DEF SnapList, List, Has
<1>17. CASE SnapReply
  BY <1>17 DEF SnapReply, Refused, ForgetSnapshot, NoListeners, NoResponse
<1>18. CASE BlockedScan
  BY <1>18 DEF BlockedScan
<1>19. CASE BlockedScanFails
  BY <1>19 DEF BlockedScanFails
<1>20. CASE BlockedReply
  BY <1>20 DEF BlockedReply, AllFree
<1>21. CASE RaceAbort
  BY <1>21 DEF RaceAbort, UnlockedRead, LockedWrite, NoResponse, AllFree
<1>22. CASE Disconnect
  BY <1>22 DEF Disconnect
<1>23. CASE CollectInodes
  BY <1>23 DEF CollectInodes
<1>24. CASE SendSnapshot
  BY <1>24 DEF SendSnapshot, Snapshot, PIDOf, AllFree
<1>25. CASE RequestBlocked
  BY <1>25 DEF RequestBlocked
<1>26. CASE CloseFilter
  BY <1>26 DEF CloseFilter, AllFree
<1>27. CASE UNCHANGED vars
  BY <1>27 DEF vars
<1>28. QED
  BY <1>1, <1>2, <1>3, <1>4, <1>5, <1>6, <1>7, <1>8, <1>9, <1>10, <1>11,
    <1>12, <1>13, <1>14, <1>15, <1>16, <1>17, <1>18, <1>19, <1>20, <1>21,
    <1>22, <1>23, <1>24, <1>25, <1>26, <1>27, PortsAssumption
  DEF Next, HandlerStep, DaemonStep, Environment

(* A new round starts only when the previous one is over. *)
LEMMA RoundStep == TypeOK /\ RoundInv /\ [Next]_vars => RoundInv'
<1> SUFFICES ASSUME TypeOK, RoundInv, [Next]_vars PROVE RoundInv'  OBVIOUS
<1> USE PortsAssumption DEF RoundInv, TypeOK, Entries, Own, Holders, PIDs, ListenerPID,
        NoListeners, NoResponse, AllFree, Daemon, NoPID, Absent, Free,
        hostVars, snapVars, exposeVars, blockVars, contVars, repVars,
        preVars
<1>1. ASSUME NEW q \in Ports, CloseListener(q) PROVE RoundInv'
  BY <1>1 DEF CloseListener
<1>2. ASSUME NEW q \in Ports, SnapAdd(q) PROVE RoundInv'
  BY <1>2 DEF SnapAdd, Add, AddResult, NothingToAdd, StartedListener
<1>3. ASSUME NEW q \in Ports, SnapRemove(q) PROVE RoundInv'
  BY <1>3 DEF SnapRemove, Stop
<1>4. ASSUME NEW q \in Ports, OnExpose(q) PROVE RoundInv'
  BY <1>4 DEF OnExpose, Add, AddResult, NothingToAdd, StartedListener
<1>5. ASSUME NEW q \in Ports, BlockedFilter(q) PROVE RoundInv'
  BY <1>5 DEF BlockedFilter, Has
<1>6. ASSUME NEW q \in Ports, ApplyRefused(q) PROVE RoundInv'
  BY <1>6 DEF ApplyRefused, Kill, ForgetSnapshot, NoListeners
<1>7. ASSUME NEW q \in Ports, PrebindAdd(q) PROVE RoundInv'
  BY <1>7 DEF PrebindAdd
<1>8. ASSUME NEW q \in Ports, OtherBind(q) PROVE RoundInv'
  BY <1>8 DEF OtherBind
<1>9. ASSUME NEW q \in Ports, OtherClose(q) PROVE RoundInv'
  BY <1>9 DEF OtherClose
<1>10. ASSUME NEW q \in Ports, ExposeRequest(q) PROVE RoundInv'
  BY <1>10 DEF ExposeRequest
<1>11. ASSUME NEW q \in Ports, ExposeExit(q) PROVE RoundInv'
  BY <1>11 DEF ExposeExit
<1>12. ASSUME NEW q \in Ports, NEW a \in Apps, AppBind(a, q) PROVE RoundInv'
  BY <1>12 DEF AppBind
<1>13. ASSUME NEW q \in Ports, NEW a \in Apps, AppClose(a, q) PROVE RoundInv'
  BY <1>13 DEF AppClose
<1>14. CASE CancelCtx
  BY <1>14 DEF CancelCtx
<1>15. CASE StopAll
  BY <1>15 DEF StopAll, Stop, List, Has
<1>16. CASE SnapList
  BY <1>16 DEF SnapList, List, Has
<1>17. CASE SnapReply
  BY <1>17 DEF SnapReply, Refused, ForgetSnapshot, NoListeners, NoResponse
<1>18. CASE BlockedScan
  BY <1>18 DEF BlockedScan
<1>19. CASE BlockedScanFails
  BY <1>19 DEF BlockedScanFails
<1>20. CASE BlockedReply
  BY <1>20 DEF BlockedReply, AllFree
<1>21. CASE RaceAbort
  BY <1>21 DEF RaceAbort, UnlockedRead, LockedWrite, NoResponse, AllFree
<1>22. CASE Disconnect
  BY <1>22 DEF Disconnect
<1>23. CASE CollectInodes
  BY <1>23 DEF CollectInodes
<1>24. CASE SendSnapshot
  BY <1>24 DEF SendSnapshot, Snapshot, PIDOf, AllFree
<1>25. CASE RequestBlocked
  BY <1>25 DEF RequestBlocked
<1>26. CASE CloseFilter
  BY <1>26 DEF CloseFilter, AllFree
<1>27. CASE UNCHANGED vars
  BY <1>27 DEF vars
<1>28. QED
  BY <1>1, <1>2, <1>3, <1>4, <1>5, <1>6, <1>7, <1>8, <1>9, <1>10, <1>11,
    <1>12, <1>13, <1>14, <1>15, <1>16, <1>17, <1>18, <1>19, <1>20, <1>21,
    <1>22, <1>23, <1>24, <1>25, <1>26, <1>27, PortsAssumption
  DEF Next, HandlerStep, DaemonStep, Environment

(* The handler answers for every listener and removes none of them. *)
LEMMA AnswerStep == TypeOK /\ RoundInv /\ AnswerInv /\ [Next]_vars => AnswerInv'
<1> SUFFICES ASSUME TypeOK, RoundInv, AnswerInv, [Next]_vars PROVE AnswerInv'  OBVIOUS
<1> USE PortsAssumption DEF RoundInv, AnswerInv, TypeOK, Entries, Own, Holders, PIDs,
        ListenerPID, NoListeners, NoResponse, AllFree, Daemon, NoPID,
        Absent, Free, hostVars, snapVars, exposeVars, blockVars, contVars,
        repVars, preVars
<1>1. ASSUME NEW q \in Ports, CloseListener(q) PROVE AnswerInv'
  BY <1>1 DEF CloseListener
<1>2. ASSUME NEW q \in Ports, SnapAdd(q) PROVE AnswerInv'
  BY <1>2 DEF SnapAdd, Add, AddResult, NothingToAdd, StartedListener
<1>3. ASSUME NEW q \in Ports, SnapRemove(q) PROVE AnswerInv'
  BY <1>3 DEF SnapRemove, Stop
<1>4. ASSUME NEW q \in Ports, OnExpose(q) PROVE AnswerInv'
  BY <1>4 DEF OnExpose, Add, AddResult, NothingToAdd, StartedListener
<1>5. ASSUME NEW q \in Ports, BlockedFilter(q) PROVE AnswerInv'
  BY <1>5 DEF BlockedFilter, Has
<1>6. ASSUME NEW q \in Ports, ApplyRefused(q) PROVE AnswerInv'
  BY <1>6 DEF ApplyRefused, Kill, ForgetSnapshot, NoListeners
<1>7. ASSUME NEW q \in Ports, PrebindAdd(q) PROVE AnswerInv'
  BY <1>7 DEF PrebindAdd
<1>8. ASSUME NEW q \in Ports, OtherBind(q) PROVE AnswerInv'
  BY <1>8 DEF OtherBind
<1>9. ASSUME NEW q \in Ports, OtherClose(q) PROVE AnswerInv'
  BY <1>9 DEF OtherClose
<1>10. ASSUME NEW q \in Ports, ExposeRequest(q) PROVE AnswerInv'
  BY <1>10 DEF ExposeRequest
<1>11. ASSUME NEW q \in Ports, ExposeExit(q) PROVE AnswerInv'
  BY <1>11 DEF ExposeExit
<1>12. ASSUME NEW q \in Ports, NEW a \in Apps, AppBind(a, q) PROVE AnswerInv'
  BY <1>12 DEF AppBind
<1>13. ASSUME NEW q \in Ports, NEW a \in Apps, AppClose(a, q) PROVE AnswerInv'
  BY <1>13 DEF AppClose
<1>14. CASE CancelCtx
  BY <1>14 DEF CancelCtx
<1>15. CASE StopAll
  BY <1>15 DEF StopAll, Stop, List, Has
<1>16. CASE SnapList
  BY <1>16 DEF SnapList, List, Has
<1>17. CASE SnapReply
  BY <1>17 DEF SnapReply, Refused, ForgetSnapshot, NoListeners, NoResponse
<1>18. CASE BlockedScan
  BY <1>18 DEF BlockedScan
<1>19. CASE BlockedScanFails
  BY <1>19 DEF BlockedScanFails
<1>20. CASE BlockedReply
  BY <1>20 DEF BlockedReply, AllFree
<1>21. CASE RaceAbort
  BY <1>21 DEF RaceAbort, UnlockedRead, LockedWrite, NoResponse, AllFree
<1>22. CASE Disconnect
  BY <1>22 DEF Disconnect
<1>23. CASE CollectInodes
  BY <1>23 DEF CollectInodes
<1>24. CASE SendSnapshot
  BY <1>24 DEF SendSnapshot, Snapshot, PIDOf, AllFree
<1>25. CASE RequestBlocked
  BY <1>25 DEF RequestBlocked
<1>26. CASE CloseFilter
  BY <1>26 DEF CloseFilter, AllFree
<1>27. CASE UNCHANGED vars
  BY <1>27 DEF vars
<1>28. QED
  BY <1>1, <1>2, <1>3, <1>4, <1>5, <1>6, <1>7, <1>8, <1>9, <1>10, <1>11,
    <1>12, <1>13, <1>14, <1>15, <1>16, <1>17, <1>18, <1>19, <1>20, <1>21,
    <1>22, <1>23, <1>24, <1>25, <1>26, <1>27, PortsAssumption
  DEF Next, HandlerStep, DaemonStep, Environment

(* Nothing revives or removes a dead entry before the refusal is applied. *)
LEMMA RefusedStep == TypeOK /\ ListenersAccounted /\ RoundInv /\ AnswerInv /\ RefusedDead /\ [Next]_vars => RefusedDead'
<1> SUFFICES ASSUME TypeOK, ListenersAccounted, RoundInv, AnswerInv, RefusedDead, [Next]_vars PROVE RefusedDead'  OBVIOUS
<1> USE PortsAssumption DEF ListenersAccounted, RoundInv, AnswerInv, RefusedDead, TypeOK,
        Entries, Own, Holders, PIDs, ListenerPID, NoListeners, NoResponse,
        AllFree, Daemon, NoPID, Absent, Free, hostVars, snapVars,
        exposeVars, blockVars, contVars, repVars, preVars
<1>1. ASSUME NEW q \in Ports, CloseListener(q) PROVE RefusedDead'
  BY <1>1 DEF CloseListener
<1>2. ASSUME NEW q \in Ports, SnapAdd(q) PROVE RefusedDead'
  BY <1>2 DEF SnapAdd, Add, AddResult, NothingToAdd, StartedListener
<1>3. ASSUME NEW q \in Ports, SnapRemove(q) PROVE RefusedDead'
  BY <1>3 DEF SnapRemove, Stop
<1>4. ASSUME NEW q \in Ports, OnExpose(q) PROVE RefusedDead'
  BY <1>4 DEF OnExpose, Add, AddResult, NothingToAdd, StartedListener
<1>5. ASSUME NEW q \in Ports, BlockedFilter(q) PROVE RefusedDead'
  BY <1>5 DEF BlockedFilter, Has
<1>6. ASSUME NEW q \in Ports, ApplyRefused(q) PROVE RefusedDead'
  BY <1>6 DEF ApplyRefused, Kill, ForgetSnapshot, NoListeners
<1>7. ASSUME NEW q \in Ports, PrebindAdd(q) PROVE RefusedDead'
  BY <1>7 DEF PrebindAdd
<1>8. ASSUME NEW q \in Ports, OtherBind(q) PROVE RefusedDead'
  BY <1>8 DEF OtherBind
<1>9. ASSUME NEW q \in Ports, OtherClose(q) PROVE RefusedDead'
  BY <1>9 DEF OtherClose
<1>10. ASSUME NEW q \in Ports, ExposeRequest(q) PROVE RefusedDead'
  BY <1>10 DEF ExposeRequest
<1>11. ASSUME NEW q \in Ports, ExposeExit(q) PROVE RefusedDead'
  BY <1>11 DEF ExposeExit
<1>12. ASSUME NEW q \in Ports, NEW a \in Apps, AppBind(a, q) PROVE RefusedDead'
  BY <1>12 DEF AppBind
<1>13. ASSUME NEW q \in Ports, NEW a \in Apps, AppClose(a, q) PROVE RefusedDead'
  BY <1>13 DEF AppClose
<1>14. CASE CancelCtx
  BY <1>14 DEF CancelCtx
<1>15. CASE StopAll
  BY <1>15 DEF StopAll, Stop, List, Has
<1>16. CASE SnapList
  BY <1>16 DEF SnapList, List, Has
<1>17. CASE SnapReply
  BY <1>17 DEF SnapReply, Refused, ForgetSnapshot, NoListeners, NoResponse
<1>18. CASE BlockedScan
  BY <1>18 DEF BlockedScan
<1>19. CASE BlockedScanFails
  BY <1>19 DEF BlockedScanFails
<1>20. CASE BlockedReply
  BY <1>20 DEF BlockedReply, AllFree
<1>21. CASE RaceAbort
  BY <1>21 DEF RaceAbort, UnlockedRead, LockedWrite, NoResponse, AllFree
<1>22. CASE Disconnect
  BY <1>22 DEF Disconnect
<1>23. CASE CollectInodes
  BY <1>23 DEF CollectInodes
<1>24. CASE SendSnapshot
  BY <1>24 DEF SendSnapshot, Snapshot, PIDOf, AllFree
<1>25. CASE RequestBlocked
  BY <1>25 DEF RequestBlocked
<1>26. CASE CloseFilter
  BY <1>26 DEF CloseFilter, AllFree
<1>27. CASE UNCHANGED vars
  BY <1>27 DEF vars
<1>28. QED
  BY <1>1, <1>2, <1>3, <1>4, <1>5, <1>6, <1>7, <1>8, <1>9, <1>10, <1>11,
    <1>12, <1>13, <1>14, <1>15, <1>16, <1>17, <1>18, <1>19, <1>20, <1>21,
    <1>22, <1>23, <1>24, <1>25, <1>26, <1>27, PortsAssumption
  DEF Next, HandlerStep, DaemonStep, Environment

LEMMA InitIInv == Init => IInv
  BY PortsAssumption DEF Init, IInv, TypeOK, ListenersAccounted, DaemonInv,
     PrebindsHoldSockets, RoundInv, AnswerInv, RefusedDead, Entries, Own,
     Holders, PIDs, ListenerPID, NoListeners, NoResponse, AllFree,
     Daemon, NoPID, Absent, Free

(* IInv is inductive. *)
THEOREM Inductive == Spec => []IInv
<1>1. IInv /\ [Next]_vars => IInv'
  BY TypeStep, ListenersStep, DaemonStepInv, RoundStep, AnswerStep, RefusedStep
  DEF IInv
<1>2. QED
  BY InitIInv, <1>1, PTL DEF Spec

(* In every behaviour, the variables of the host, of the daemon and of the  *)
(* requests between them keep their types.                                  *)
THEOREM TypeCorrect == Spec => []TypeOK
<1>1. IInv => TypeOK  BY DEF IInv
<1>2. QED  BY Inductive, <1>1, PTL

(* No interleaving of Add, Remove, StopAll, the cancellation and the        *)
(* asynchronous close leaks a forwarder's listener or loses one.            *)
THEOREM NoLeakedListener == Spec => []ListenersAccounted
<1>1. IInv => ListenersAccounted  BY DEF IInv
<1>2. QED  BY Inductive, <1>1, PTL

(* prebinds.ports is exactly what the daemon listens on beside its proxy.   *)
THEOREM PrebindsExact == Spec => []PrebindsHoldSockets
<1>1. IInv => PrebindsHoldSockets  BY DEF IInv, DaemonInv
<1>2. QED  BY Inductive, <1>1, PTL

(* The reporter never kills the daemon it runs in.                          *)
THEOREM NoSelfKill == Spec => []DaemonSurvives
<1>1. IInv => DaemonSurvives  BY DEF IInv, DaemonInv, DaemonSurvives
<1>2. QED  BY Inductive, <1>1, PTL

(* The reporter never kills a program for a port the host forwards.         *)
THEOREM KillsSpareForwarded == Spec => []NoPendingKillForwarded
<1>1. IInv => NoPendingKillForwarded
  BY DEF IInv, RefusedDead, NoPendingKillForwarded, TypeOK
<1>2. QED  BY Inductive, <1>1, PTL
=============================================================================

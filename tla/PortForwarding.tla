--------------------------- MODULE PortForwarding ---------------------------
(***************************************************************************)
(* Port synchronisation between one mkenv host process and the daemon in   *)
(* its container.                                                          *)
(*                                                                         *)
(* Host side: the ForwarderRegistry, and the control handlers that use it  *)
(* (snapshot, expose, list-blocked-ports), each running in a goroutine of  *)
(* its own.  Sandbox side: the snapshot reporter, the prebind loop and its *)
(* prebinds table.  Environment: other programs of the host, the programs  *)
(* of the container, the `mkenv sandbox expose` command.                   *)
(*                                                                         *)
(* A step of a handler is one method of the registry (each holds r.mu) or  *)
(* one unlocked read of it (Has, List).                                    *)
(***************************************************************************)
EXTENDS Naturals, FiniteSets

CONSTANTS
    Ports,          \* port numbers, the same on both sides
    Apps,           \* PIDs of programs in the container other than the daemon
    ProxyPort,      \* hostappconfig.ContainerProxyPort(), 45454
    RevProxyPort,   \* the random port of the host's reverse proxy
    OtherPorts,     \* bound: ports other programs of the host may hold
    ExposedPorts    \* bound: ports the user may ask to expose

Daemon  == "daemon"     \* PID of the daemon (selfPID in CollectSnapshot)
NoPID   == "nopid"      \* listener whose PID was not found (PID = 0)
Absent  == "absent"     \* no listener
Free    == "free"       \* nobody holds the port

ASSUME PortsAssumption ==
    /\ ProxyPort # RevProxyPort
    /\ OtherPorts \subseteq Ports /\ ExposedPorts \subseteq Ports
    /\ {Daemon, NoPID, Absent, Free} \cap Apps = {}

VARIABLES
    host,       \* the host process: "up", "cancelled" (rt.Ctx() done), "stopped", "aborted"
    hostPort,   \* who holds each TCP port of the host
    registry,   \* ForwarderRegistry.forwarders, see Entries
    snapPc,     \* onPortSnapshot goroutine
    snapTodo,   \* ports its current loop has still to visit
    exposing,   \* ports with an onExpose goroutine not yet run
    claims,     \* ports whose expose command got "ok" and still runs
    blockPc,    \* onGetBlockedPorts goroutine
    scan,       \* who held each port when GetHostBusyPorts scanned the host
    blockTodo,  \* scanned ports still to be filtered
    blocked,    \* BlockedPorts.Ports of the current request
    connUp,     \* the daemon's control connection
    daemonUp,   \* the daemon process
    contPort,   \* who holds each TCP port inside the container
    prebinds,   \* keys of prebinds.ports
    rep,        \* snapshot reporter loop
    seen,       \* holder of each socket inode found by addProtoFromProc
    listeners,  \* Snapshot.Listeners: PID per listening port
    resp,       \* OnSnapshotResponse.Response
    repTodo,    \* refused ports the reporter has still to act on
    pre,        \* prebind loop
    preTodo     \* ports of the response it has still to add

hostVars   == <<host, hostPort, registry>>
snapVars   == <<snapPc, snapTodo>>
exposeVars == <<exposing, claims>>
blockVars  == <<blockPc, scan, blockTodo, blocked>>
contVars   == <<contPort, prebinds>>
repVars    == <<rep, seen, listeners, resp, repTodo>>
preVars    == <<pre, preTodo>>
vars == <<hostVars, snapVars, exposeVars, blockVars, connUp, daemonUp,
          contVars, repVars, preVars>>

(* A forwarder is "live" when its Start succeeded, "dead" when Start failed *)
(* and the entry stayed in the map with srv = nil.                          *)
Entries == {"none", "live", "dead"}

(* "fwd": a forwarder's listener; "closing": its context is cancelled and   *)
(* the goroutine of ServeTCP has not closed the socket yet; "rev": the      *)
(* reverse proxy's listener; "other": a program that is not this mkenv.     *)
Own     == {"fwd", "closing", "rev"}
Holders == Own \cup {Free, "other"}

PIDs        == Apps \cup {Daemon}
ListenerPID == PIDs \cup {NoPID, Absent}

TypeOK ==
    /\ host \in {"up", "cancelled", "stopped", "aborted"}
    /\ hostPort \in [Ports -> Holders]
    /\ registry \in [Ports -> Entries]
    /\ snapPc \in {"idle", "add", "remove"}
    /\ snapTodo \subseteq Ports
    /\ exposing \subseteq Ports
    /\ claims \subseteq Ports
    /\ blockPc \in {"idle", "scan", "filter"}
    /\ scan \in [Ports -> Holders]
    /\ blockTodo \subseteq Ports
    /\ blocked \subseteq Ports
    /\ connUp \in BOOLEAN
    /\ daemonUp \in BOOLEAN
    /\ contPort \in [Ports -> PIDs \cup {Free}]
    /\ prebinds \subseteq Ports
    /\ rep \in {"idle", "mapping", "waiting"}
    /\ seen \in [Ports -> PIDs \cup {Free}]
    /\ listeners \in [Ports -> ListenerPID]
    /\ resp \in [Ports -> {"none", "ok", "error"}]
    /\ repTodo \subseteq Ports
    /\ pre \in {"idle", "waiting", "adding"}
    /\ preTodo \subseteq Ports

NoListeners == [p \in Ports |-> Absent]
NoResponse  == [p \in Ports |-> "none"]
AllFree     == [p \in Ports |-> Free]

(* The orchestrator is built: control server and reverse proxy listen, the  *)
(* registry is empty; the daemon is connected and its proxy holds ProxyPort. *)
Init ==
    /\ host = "up"
    /\ hostPort = [p \in Ports |-> IF p = RevProxyPort THEN "rev" ELSE Free]
    /\ registry = [p \in Ports |-> "none"]
    /\ snapPc = "idle" /\ snapTodo = {}
    /\ exposing = {} /\ claims = {}
    /\ blockPc = "idle" /\ scan = AllFree /\ blockTodo = {} /\ blocked = {}
    /\ connUp = TRUE /\ daemonUp = TRUE
    /\ contPort = [p \in Ports |-> IF p = ProxyPort THEN Daemon ELSE Free]
    /\ prebinds = {}
    /\ rep = "idle" /\ seen = AllFree
    /\ listeners = NoListeners /\ resp = NoResponse /\ repTodo = {}
    /\ pre = "idle" /\ preTodo = {}

-----------------------------------------------------------------------------
(* ForwarderRegistry and the TCP listeners of its forwarders *)

(* Add returns nil without starting anything. *)
NothingToAdd(p) == p = ProxyPort \/ registry[p] # "none"

(* Mutant of AddResult: an entry that exists already is an error. *)
AddResultExisting(p) ==
    IF p = ProxyPort \/ (registry[p] = "none" /\ hostPort[p] = Free) THEN "ok" ELSE "error"

(* What Add returns: nil, or the error of net.Listen. *)
AddResult(p) == IF NothingToAdd(p) \/ hostPort[p] = Free THEN "ok" ELSE "error"

(* Mutant of StartedListener: the context derives from context.Background(). *)
StartedDetached == "fwd"

(* The listener's context derives from rt.Ctx(): started after the          *)
(* cancellation it is closed at once.                                       *)
StartedListener == IF host = "up" THEN "fwd" ELSE "closing"

(* The entry is stored before Start is called and stays when Start fails. *)
Add(p) ==
    /\ registry' = [registry EXCEPT ![p] =
            IF NothingToAdd(p) THEN @
            ELSE IF hostPort[p] = Free THEN "live" ELSE "dead"]
    /\ hostPort' = [hostPort EXCEPT ![p] =
            IF ~NothingToAdd(p) /\ @ = Free THEN StartedListener ELSE @]

Has(p) == registry[p] # "none"

List == {p \in Ports : Has(p)}

(* Mutant of Stop: the entry is not deleted. *)
StopKeepsEntry(S) ==
    /\ UNCHANGED registry
    /\ hostPort' = [p \in Ports |->
            IF p \in S /\ hostPort[p] = "fwd" THEN "closing" ELSE hostPort[p]]

(* Forwarder.Stop and delete for every entry of S: a live one cancels the   *)
(* context of its server, a dead one has no server.                         *)
Stop(S) ==
    /\ registry' = [p \in Ports |-> IF p \in S THEN "none" ELSE registry[p]]
    /\ hostPort' = [p \in Ports |->
            IF p \in S /\ hostPort[p] = "fwd" THEN "closing" ELSE hostPort[p]]

(* The goroutine of ServeTCP that waits for ctx.Done() closes the socket. *)
CloseListener(p) ==
    /\ hostPort[p] = "closing"
    /\ hostPort' = [hostPort EXCEPT ![p] = Free]
    /\ UNCHANGED <<host, registry, snapVars, exposeVars, blockVars, connUp,
                   daemonUp, contVars, repVars, preVars>>

(* rt.CancelCtx(): every context derived from rt.Ctx() is done. *)
CancelCtx ==
    /\ host = "up"
    /\ host' = "cancelled"
    /\ hostPort' = [p \in Ports |->
            IF hostPort[p] \in Own THEN "closing" ELSE hostPort[p]]
    /\ claims' = {}
    /\ UNCHANGED <<registry, snapVars, exposing, blockVars, connUp, daemonUp,
                   contVars, repVars, preVars>>

(* The OnShutdown hook of the registry, run once. *)
StopAll ==
    /\ host = "cancelled"
    /\ host' = "stopped"
    /\ Stop(List)
    /\ UNCHANGED <<snapVars, exposeVars, blockVars, connUp, daemonUp, contVars,
                   repVars, preVars>>

-----------------------------------------------------------------------------
(* Control handlers of the host *)

(* onPortSnapshot, first loop: registry.Add for each listener. *)
SnapAdd(p) ==
    /\ snapPc = "add" /\ p \in snapTodo
    /\ Add(p)
    /\ resp' = [resp EXCEPT ![p] = AddResult(p)]
    /\ snapTodo' = snapTodo \ {p}
    /\ UNCHANGED <<host, snapPc, exposeVars, blockVars, connUp, daemonUp,
                   contVars, rep, seen, listeners, repTodo, preVars>>

(* Mutant of SnapList: the cleanup loop is missing. *)
SnapListNoCleanup ==
    /\ snapPc = "add" /\ snapTodo = {}
    /\ snapPc' = "remove"
    /\ UNCHANGED <<snapTodo, hostVars, exposeVars, blockVars, connUp, daemonUp,
                   contVars, repVars, preVars>>

(* registry.List() and the choice of the forwarders to remove. *)
SnapList ==
    /\ snapPc = "add" /\ snapTodo = {}
    /\ snapPc' = "remove"
    /\ snapTodo' = {p \in List : listeners[p] = Absent}
    /\ UNCHANGED <<hostVars, exposeVars, blockVars, connUp, daemonUp, contVars,
                   repVars, preVars>>

(* registry.Remove for one of them. *)
SnapRemove(p) ==
    /\ snapPc = "remove" /\ p \in snapTodo
    /\ Stop({p})
    /\ snapTodo' = snapTodo \ {p}
    /\ UNCHANGED <<host, snapPc, exposeVars, blockVars, connUp, daemonUp,
                   contVars, repVars, preVars>>

(* Ports of the snapshot that the host refused, or did not answer for. *)
Refused == {p \in Ports : listeners[p] # Absent /\ resp[p] # "ok"}

(* The round is over when no refused port is left: snap goes out of scope. *)
ForgetSnapshot == listeners' = IF repTodo' = {} THEN NoListeners ELSE listeners

(* The response reaches the waiting reporter, unless its connection is gone. *)
SnapReply ==
    /\ snapPc = "remove" /\ snapTodo = {}
    /\ snapPc' = "idle"
    /\ rep' = "idle"
    /\ repTodo' = IF rep = "waiting" THEN Refused ELSE {}
    /\ resp' = NoResponse
    /\ ForgetSnapshot
    /\ UNCHANGED <<hostVars, snapTodo, exposeVars, blockVars, connUp, daemonUp,
                   contVars, seen, preVars>>

(* `mkenv sandbox expose p` sends its request on a connection of its own. *)
ExposeRequest(p) ==
    /\ host = "up" /\ p \notin exposing \cup claims
    /\ exposing' = exposing \cup {p}
    /\ UNCHANGED <<hostVars, snapVars, claims, blockVars, connUp, daemonUp,
                   contVars, repVars, preVars>>

(* onExpose: registry.Add; the command keeps running when the answer is     *)
(* "ok" and comes before its timeout.                                       *)
OnExpose(p) ==
    /\ p \in exposing
    /\ Add(p)
    /\ exposing' = exposing \ {p}
    /\ claims' \in IF AddResult(p) = "ok" THEN {claims, claims \cup {p}} ELSE {claims}
    /\ UNCHANGED <<host, snapVars, blockVars, connUp, daemonUp, contVars,
                   repVars, preVars>>

(* The expose command is interrupted: nothing is sent to the host. *)
ExposeExit(p) ==
    /\ p \in claims
    /\ claims' = claims \ {p}
    /\ UNCHANGED <<hostVars, snapVars, exposing, blockVars, connUp, daemonUp,
                   contVars, repVars, preVars>>

(* onGetBlockedPorts: GetHostBusyPorts lists every listening port. *)
BlockedScan ==
    /\ blockPc = "scan"
    /\ blockPc' = "filter"
    /\ scan' = hostPort
    /\ blockTodo' = {p \in Ports : hostPort[p] # Free}
    /\ blocked' = {}
    /\ UNCHANGED <<hostVars, snapVars, exposeVars, connUp, daemonUp, contVars,
                   repVars, preVars>>

(* GetHostBusyPorts fails: the loop gets an error and waits for its next tick. *)
BlockedScanFails ==
    /\ blockPc = "scan"
    /\ blockPc' = "idle"
    /\ pre' = "idle"
    /\ UNCHANGED <<hostVars, snapVars, exposeVars, scan, blockTodo, blocked,
                   connUp, daemonUp, contVars, repVars, preTodo>>

(* One round of the filter loop: Has is read without the lock. *)
BlockedFilter(p) ==
    /\ blockPc = "filter" /\ p \in blockTodo
    /\ blockTodo' = blockTodo \ {p}
    /\ blocked' = IF Has(p) \/ p = RevProxyPort THEN blocked ELSE blocked \cup {p}
    /\ UNCHANGED <<hostVars, snapVars, exposeVars, blockPc, scan, connUp,
                   daemonUp, contVars, repVars, preVars>>

BlockedReply ==
    /\ blockPc = "filter" /\ blockTodo = {}
    /\ blockPc' = "idle"
    /\ IF pre = "waiting"
          THEN pre' = "adding" /\ preTodo' = blocked /\ UNCHANGED <<scan, blocked>>
          ELSE scan' = AllFree /\ blocked' = {} /\ UNCHANGED preVars
    /\ UNCHANGED <<hostVars, snapVars, exposeVars, blockTodo, connUp, daemonUp,
                   contVars, repVars>>

(* Go aborts the process when it notices a map access that races with a     *)
(* write.  Reads without the lock: Has in the filter loop, List.  Writes:   *)
(* Add of a new entry, Remove, StopAll.                                     *)
UnlockedRead == \/ blockPc = "filter" /\ blockTodo # {}
                \/ snapPc = "add" /\ snapTodo = {}
LockedWrite  == \/ snapPc = "remove" /\ snapTodo # {}
                \/ \E p \in exposing : ~NothingToAdd(p)
                \/ snapPc = "add" /\ \E p \in snapTodo : ~NothingToAdd(p)
                \/ host = "cancelled" /\ List # {}

(* The process is gone: its sockets and its goroutines with it. *)
RaceAbort ==
    /\ host # "aborted" /\ UnlockedRead /\ LockedWrite
    /\ host' = "aborted"
    /\ hostPort' = [p \in Ports |-> IF hostPort[p] \in Own THEN Free ELSE hostPort[p]]
    /\ registry' = [p \in Ports |-> "none"]
    /\ snapPc' = "idle" /\ snapTodo' = {}
    /\ exposing' = {} /\ claims' = {}
    /\ blockPc' = "idle" /\ blockTodo' = {}
    /\ connUp' = FALSE
    /\ rep' = IF rep = "waiting" THEN "idle" ELSE rep
    /\ pre' = IF pre = "waiting" THEN "idle" ELSE pre
    /\ resp' = NoResponse
    /\ IF pre = "adding" THEN UNCHANGED <<scan, blocked>>
                         ELSE scan' = AllFree /\ blocked' = {}
    /\ UNCHANGED <<daemonUp, contVars, seen, listeners, repTodo, preTodo>>

(* The control connection ends (srv.Close at shutdown, or the network): a   *)
(* waiting Call returns io.ErrClosedPipe; the daemon never dials again.     *)
Disconnect ==
    /\ connUp
    /\ connUp' = FALSE
    /\ rep' = IF rep = "waiting" THEN "idle" ELSE rep
    /\ pre' = IF pre = "waiting" THEN "idle" ELSE pre
    /\ UNCHANGED <<hostVars, snapVars, exposeVars, blockVars, daemonUp,
                   contVars, seen, listeners, resp, repTodo, preTodo>>

-----------------------------------------------------------------------------
(* The daemon in the container *)

(* CollectSnapshot, first part: /proc/net/* gives inodes and ports.  What a *)
(* failed read leaves out is only logged, and missing from the snapshot.    *)
CollectInodes ==
    /\ daemonUp /\ rep = "idle" /\ repTodo = {}
    /\ connUp
    /\ rep' = "mapping"
    /\ \E unread \in SUBSET Ports :
            seen' = [p \in Ports |-> IF p \in unread THEN Free ELSE contPort[p]]
    /\ UNCHANGED <<hostVars, snapVars, exposeVars, blockVars, connUp, daemonUp,
                   contVars, listeners, resp, repTodo, preVars>>

(* Mutant of PIDOf: whoever holds the port now is taken for its listener. *)
PIDOfNow(p, hidden) == contPort[p]

(* mapInodesToPIDs: a socket that was closed meanwhile, or whose /proc      *)
(* entry is unreadable (hidden), keeps PID 0.                               *)
PIDOf(p, hidden) ==
    IF contPort[p] = seen[p] /\ (seen[p] = Daemon \/ p \notin hidden)
      THEN seen[p] ELSE NoPID

(* Mutant of Snapshot: the daemon's own listeners are reported. *)
SnapshotWithSelf(hidden) ==
    [p \in Ports |-> IF seen[p] = Free THEN Absent ELSE PIDOf(p, hidden)]

(* Listeners of the daemon itself are left out of the snapshot. *)
Snapshot(hidden) ==
    [p \in Ports |-> IF seen[p] = Free \/ PIDOf(p, hidden) = Daemon
                       THEN Absent ELSE PIDOf(p, hidden)]

(* CollectSnapshot, second part, and the request to the host. *)
SendSnapshot ==
    /\ daemonUp /\ rep = "mapping"
    /\ seen' = AllFree
    /\ \/ /\ connUp
          /\ rep' = "waiting" /\ snapPc' = "add"
          /\ \E hidden \in SUBSET Ports : listeners' = Snapshot(hidden)
          /\ snapTodo' = {p \in Ports : listeners'[p] # Absent}
       \/ ~connUp /\ rep' = "idle" /\ UNCHANGED <<snapVars, listeners>>
    /\ UNCHANGED <<hostVars, exposeVars, blockVars, connUp, daemonUp, contVars,
                   resp, repTodo, preVars>>

(* SIGTERM: the process ends and its sockets are closed, or it ignores it. *)
Kill(pid) ==
    /\ daemonUp' = (daemonUp /\ pid # Daemon)
    /\ contPort' \in {contPort,
            [p \in Ports |-> IF contPort[p] = pid THEN Free ELSE contPort[p]]}

(* One refused port: kill the process the snapshot named, unless the daemon *)
(* itself holds the port now or the PID is not known (PID > 1).             *)
ApplyRefused(p) ==
    /\ daemonUp /\ p \in repTodo
    /\ repTodo' = repTodo \ {p}
    /\ IF p \in prebinds \/ listeners[p] \notin PIDs
          THEN UNCHANGED <<daemonUp, contPort>>
          ELSE Kill(listeners[p])
    /\ ForgetSnapshot
    /\ UNCHANGED <<hostVars, snapVars, exposeVars, blockVars, connUp, prebinds,
                   rep, seen, resp, preVars>>

(* Tick of the prebind loop: ListBlockedPorts. *)
RequestBlocked ==
    /\ daemonUp /\ connUp /\ pre = "idle" /\ blockPc = "idle"
    /\ pre' = "waiting"
    /\ blockPc' = "scan"
    /\ UNCHANGED <<hostVars, snapVars, exposeVars, scan, blockTodo, blocked,
                   connUp, daemonUp, contVars, repVars, preTodo>>

(* Mutant of PrebindAdd: the port is stored although it could not be bound. *)
PrebindAddAnyway(p) ==
    /\ daemonUp /\ pre = "adding" /\ p \in preTodo
    /\ preTodo' = preTodo \ {p}
    /\ prebinds' = prebinds \cup {p}
    /\ contPort' = [contPort EXCEPT ![p] = IF @ = Free THEN Daemon ELSE @]
    /\ UNCHANGED <<hostVars, snapVars, exposeVars, blockVars, connUp, daemonUp,
                   repVars, pre>>

(* prebinds.Add: a port that cannot be bound is not stored. *)
PrebindAdd(p) ==
    /\ daemonUp /\ pre = "adding" /\ p \in preTodo
    /\ preTodo' = preTodo \ {p}
    /\ IF p \notin prebinds /\ contPort[p] = Free
          THEN /\ contPort' = [contPort EXCEPT ![p] = Daemon]
               /\ prebinds' = prebinds \cup {p}
          ELSE UNCHANGED contVars
    /\ UNCHANGED <<hostVars, snapVars, exposeVars, blockVars, connUp, daemonUp,
                   repVars, pre>>

(* Mutant of CloseFilter: nothing is released. *)
CloseFilterNever ==
    /\ daemonUp /\ pre = "adding" /\ preTodo = {}
    /\ pre' = "idle"
    /\ scan' = AllFree /\ blocked' = {}
    /\ UNCHANGED <<hostVars, snapVars, exposeVars, blockPc, blockTodo, connUp,
                   daemonUp, contVars, repVars, preTodo>>

(* prebinds.CloseFilter: release what the host did not report this time. *)
CloseFilter ==
    /\ daemonUp /\ pre = "adding" /\ preTodo = {}
    /\ pre' = "idle"
    /\ prebinds' = prebinds \cap blocked
    /\ contPort' = [p \in Ports |->
            IF p \in prebinds \ blocked THEN Free ELSE contPort[p]]
    /\ scan' = AllFree /\ blocked' = {}
    /\ UNCHANGED <<hostVars, snapVars, exposeVars, blockPc, blockTodo, connUp,
                   daemonUp, repVars, preTodo>>

-----------------------------------------------------------------------------
(* Environment *)

OtherBind(p) ==
    /\ hostPort[p] = Free
    /\ hostPort' = [hostPort EXCEPT ![p] = "other"]
    /\ UNCHANGED <<host, registry, snapVars, exposeVars, blockVars, connUp,
                   daemonUp, contVars, repVars, preVars>>

OtherClose(p) ==
    /\ hostPort[p] = "other"
    /\ hostPort' = [hostPort EXCEPT ![p] = Free]
    /\ UNCHANGED <<host, registry, snapVars, exposeVars, blockVars, connUp,
                   daemonUp, contVars, repVars, preVars>>

AppBind(a, p) ==
    /\ contPort[p] = Free
    /\ contPort' = [contPort EXCEPT ![p] = a]
    /\ UNCHANGED <<hostVars, snapVars, exposeVars, blockVars, connUp, daemonUp,
                   prebinds, repVars, preVars>>

AppClose(a, p) ==
    /\ contPort[p] = a
    /\ contPort' = [contPort EXCEPT ![p] = Free]
    /\ UNCHANGED <<hostVars, snapVars, exposeVars, blockVars, connUp, daemonUp,
                   prebinds, repVars, preVars>>

-----------------------------------------------------------------------------
HandlerStep(p) == SnapAdd(p) \/ SnapRemove(p) \/ OnExpose(p) \/ BlockedFilter(p)

DaemonStep == \/ CollectInodes \/ SendSnapshot \/ RequestBlocked \/ CloseFilter
              \/ \E p \in Ports : ApplyRefused(p) \/ PrebindAdd(p)

Environment ==
    \/ \E p \in OtherPorts : OtherBind(p) \/ OtherClose(p)
    \/ \E p \in ExposedPorts : ExposeRequest(p) \/ ExposeExit(p)
    \/ \E p \in Ports, a \in Apps : AppBind(a, p) \/ AppClose(a, p)

Next ==
    \/ \E p \in Ports : CloseListener(p) \/ HandlerStep(p)
    \/ CancelCtx \/ StopAll
    \/ SnapList \/ SnapReply
    \/ BlockedScan \/ BlockedScanFails \/ BlockedReply
    \/ RaceAbort \/ Disconnect
    \/ DaemonStep
    \/ Environment

Spec == Init /\ [][Next]_vars

(* Goroutines, loops with a ticker, and closing sockets make progress; a    *)
(* host scan does not fail for ever; srv.Close runs once rt.Ctx() is done.  *)
(* Nothing is assumed of other programs, of the user or of the network.     *)
Fairness ==
    /\ \A p \in Ports : /\ WF_vars(CloseListener(p))
                         /\ WF_vars(SnapAdd(p)) /\ WF_vars(SnapRemove(p))
                         /\ WF_vars(OnExpose(p)) /\ WF_vars(BlockedFilter(p))
                         /\ WF_vars(ApplyRefused(p)) /\ WF_vars(PrebindAdd(p))
    /\ WF_vars(SnapList) /\ WF_vars(SnapReply)
    /\ SF_vars(BlockedScan) /\ WF_vars(BlockedReply)
    /\ WF_vars(CollectInodes) /\ WF_vars(SendSnapshot)
    /\ WF_vars(RequestBlocked) /\ WF_vars(CloseFilter)
    /\ WF_vars(StopAll) /\ WF_vars(host # "up" /\ Disconnect)

FairSpec == Spec /\ Fairness

-----------------------------------------------------------------------------
(* Properties *)

(* Every listening socket of a forwarder has its live entry in the registry *)
(* (so some later Remove or StopAll reaches it), and while the host is up   *)
(* every live entry has its socket: no interleaving of Add, Remove, StopAll *)
(* and the asynchronous close leaks a listener or loses one.                *)
ListenersAccounted ==
    \A p \in Ports : /\ hostPort[p] = "fwd" => registry[p] = "live"
                     /\ host = "up" /\ registry[p] = "live" => hostPort[p] = "fwd"

(* The prebinds table and the sockets the daemon holds in the container are *)
(* the same set: prebinds.Add and CloseFilter never disagree with the       *)
(* kernel, whatever programs bind and release in between.                   *)
PrebindsHoldSockets ==
    prebinds = {p \in Ports \ {ProxyPort} : contPort[p] = Daemon}

(* The reporter never sends SIGTERM to the daemon, although prebinds open   *)
(* and close between the two passes of CollectSnapshot and before the       *)
(* response is applied.                                                     *)
DaemonSurvives == daemonUp

(* A kill that is still to be executed is never for a port that mkenv       *)
(* forwards: between the failed Add and killProcess no handler turns the    *)
(* port into a live forwarder.                                              *)
NoPendingKillForwarded ==
    host = "up" => \A p \in repTodo : registry[p] # "live"

(* After rt.Ctx() is cancelled mkenv gives back every host port for good,   *)
(* the ones a handler binds after StopAll has run included.                 *)
PortsReleased ==
    host # "up" ~> [](\A p \in Ports : hostPort[p] \notin Own)

(* A port nobody listens on in the container does not stay in the registry  *)
(* while the daemon is connected: the next snapshot removes it.             *)
StaleForwarderRemoved ==
    \A p \in Ports :
        registry[p] # "none" /\ contPort[p] \notin Apps
            ~> \/ registry[p] = "none" \/ contPort[p] \in Apps
               \/ ~connUp \/ host # "up"

(* A port prebound in the container is given back once no other program of  *)
(* the host holds it (and the user stops calling expose for it).            *)
StalePrebindReleased ==
    \A p \in Ports :
        <>[](p \notin exposing) =>
            (p \in prebinds ~> \/ p \notin prebinds \/ hostPort[p] = "other"
                               \/ ~connUp \/ host # "up")

(* "Skip ports already forwarded by us": a port that a forwarder of this    *)
(* process held when the host was scanned is not reported as blocked.       *)
(* Refuted by Spec: Has is asked after the scan.                            *)
OwnForwardNotBlocked ==
    pre = "adding" /\ host = "up" => \A p \in blocked : scan[p] # "fwd"

(* "even when your server stops the port will not be released": while the   *)
(* expose command runs, the host keeps the port.  Refuted by Spec: the next *)
(* snapshot removes it.                                                     *)
ClaimHeld == host = "up" => \A p \in claims : Has(p)

(* Every snapshot has the listener of p: no read of /proc/net fails on it.  *)
ReadCompletely(p) == rep = "mapping" => seen[p] = contPort[p]

(* "mkenv automatically routes localhost:3000 (or any port)": a port that   *)
(* stays open in the container, that every later snapshot lists and that no *)
(* other program of the host holds any more is forwarded in the end.        *)
(* Refuted by FairSpec: a failed net.Listen leaves an entry in the registry *)
(* for which Add does nothing in every later snapshot.                      *)
EventuallyForwarded ==
    \A p \in Ports \ {ProxyPort} :
        /\ \E a \in Apps : <>[](contPort[p] = a)
        /\ <>[]ReadCompletely(p)
        /\ <>[](hostPort[p] # "other")
        /\ [](connUp /\ host = "up")
        => <>(hostPort[p] = "fwd")
=============================================================================

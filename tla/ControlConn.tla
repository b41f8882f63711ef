----------------------------- MODULE ControlConn -----------------------------
(***************************************************************************)
(* The control connection between the sandbox and the host: ControlConn on *)
(* both ends (pending calls, send lock, read loop, Close) and the host's   *)
(* ControlServerProtocol (Serve, dispatch).                                *)
(*                                                                         *)
(* Each call is one goroutine of the client.  muPending is held for a      *)
(* whole blocking write in Send; every other critical section is one step  *)
(* that needs the lock to be free.                                         *)
(***************************************************************************)
EXTENDS Naturals, Sequences

CONSTANTS
    Calls,      \* request IDs (NewID never repeats), each sent once
    Timed,      \* the ones sent with a context that has a deadline
    Cap         \* bound: frames a TCP direction holds before a write blocks

ASSUME CallsAssumption == Timed \subseteq Calls /\ Cap \in Nat \ {0}

None == "none"
ASSUME NoneAssumption == None \notin Calls

VARIABLES
    pc,         \* per call: where its goroutine is
    result,     \* per call: what Call returned
    pending,    \* keys of c.pending on the client
    chan,       \* per call: its response channel
    cMu,        \* the call that holds the client's muPending in a write
    cClose,     \* how far Close has got on the client
    cReader,    \* client readLoop
    cEnv,       \* the envelope it has read
    linkUp,     \* the TCP connection, with the host process behind it
    c2s, s2c,   \* frames in flight
    installed,  \* Serve has called conn.OnMessage
    sReader,    \* host readLoop: "read", "lookup"
    sEnv,       \* the request ID it has read
    sMu,        \* the dispatch that holds the host's muPending in a write
    disp,       \* per call: its dispatch goroutine on the host
    served,     \* per call: what the handler returned
    dropped     \* requests read while no handler was installed

clientVars == <<pc, result, pending, chan, cMu, cClose, cReader, cEnv>>
hostVars   == <<installed, sReader, sEnv, sMu, disp, served, dropped>>
vars == <<clientVars, linkUp, c2s, s2c, hostVars>>

(* A response: "data" is a packed value, "err" an error response, "empty"   *)
(* the second response that dispatch sends after an error.                  *)
Response == [id : Calls, kind : {"data", "err", "empty"}]

NoEnv == [id |-> None, kind |-> None]

CloseSteps == {"open", "swapped", "rawclosed", "purged"}

DispSteps == {None, "running", "unknown", "unkwrite", "err", "errwrite", "resp",
              "respwrite", "done"}

TypeOK ==
    /\ pc \in [Calls -> {"idle", "registered", "locking", "writing", "waiting",
                         "cleanup", "done"}]
    /\ result \in [Calls -> {None, "data", "err", "empty", "closed", "timeout", "senderr", "sent"}]
    /\ pending \subseteq Calls
    /\ chan \in [Calls -> {None, "open", "closed", "data", "err", "empty"}]
    /\ cMu \in Calls \cup {None}
    /\ cClose \in CloseSteps
    /\ cReader \in {"read", "lookup", "deliver", "exited"}
    /\ cEnv \in Response \cup {NoEnv}
    /\ linkUp \in BOOLEAN
    /\ c2s \in Seq(Calls)
    /\ s2c \in Seq(Response)
    /\ installed \in BOOLEAN
    /\ sReader \in {"read", "lookup"}
    /\ sEnv \in Calls \cup {None}
    /\ sMu \in Calls \cup {None}
    /\ disp \in [Calls -> DispSteps]
    /\ served \in [Calls -> {None, "data", "err"}]
    /\ dropped \subseteq Calls

(* Accepted by Serve, readLoop running on both ends, OnMessage not yet set. *)
Init ==
    /\ pc = [c \in Calls |-> "idle"]
    /\ result = [c \in Calls |-> None]
    /\ pending = {}
    /\ chan = [c \in Calls |-> None]
    /\ cMu = None /\ cClose = "open" /\ cReader = "read" /\ cEnv = NoEnv
    /\ linkUp = TRUE
    /\ c2s = <<>> /\ s2c = <<>>
    /\ installed = FALSE
    /\ sReader = "read" /\ sEnv = None /\ sMu = None
    /\ disp = [c \in Calls |-> None]
    /\ served = [c \in Calls |-> None]
    /\ dropped = {}

-----------------------------------------------------------------------------
(* ControlConn.Call on the client *)

RawClosed == cClose \in {"rawclosed", "purged"}

(* A fresh channel is stored in pending under the lock. *)
Register(c) ==
    /\ pc[c] = "idle" /\ cMu = None
    /\ pending' = pending \cup {c}
    /\ chan' = [chan EXCEPT ![c] = "open"]
    /\ pc' = [pc EXCEPT ![c] = "registered"]
    /\ UNCHANGED <<result, cMu, cClose, cReader, cEnv, linkUp, c2s, s2c, hostVars>>

(* SendLog calls Send directly: no channel, no entry in pending. *)
SendLog(c) ==
    /\ pc[c] = "idle"
    /\ pc' = [pc EXCEPT ![c] = "registered"]
    /\ UNCHANGED <<result, pending, chan, cMu, cClose, cReader, cEnv, linkUp, c2s, s2c, hostVars>>

(* Send, before the lock: the closed flag and the frame size. *)
SendCheck(c) ==
    /\ pc[c] = "registered" /\ cClose = "open"
    /\ pc' = [pc EXCEPT ![c] = "locking"]
    /\ UNCHANGED <<result, pending, chan, cMu, cClose, cReader, cEnv, linkUp, c2s, s2c, hostVars>>

(* Refused because the connection is closed or the frame too large. *)
SendRefused(c) ==
    /\ pc[c] = "registered"
    /\ pc' = [pc EXCEPT ![c] = "cleanup"]
    /\ result' = [result EXCEPT ![c] = "senderr"]
    /\ UNCHANGED <<pending, chan, cMu, cClose, cReader, cEnv, linkUp, c2s, s2c, hostVars>>

SendLock(c) ==
    /\ pc[c] = "locking" /\ cMu = None
    /\ cMu' = c
    /\ pc' = [pc EXCEPT ![c] = "writing"]
    /\ UNCHANGED <<result, pending, chan, cClose, cReader, cEnv, linkUp, c2s, s2c, hostVars>>

(* Write and Flush: blocked while the peer does not drain a full buffer. *)
Write(c) ==
    /\ pc[c] = "writing"
    /\ ~RawClosed /\ linkUp /\ Len(c2s) < Cap
    /\ c2s' = Append(c2s, c)
    /\ cMu' = None
    /\ IF chan[c] = None
         THEN pc' = [pc EXCEPT ![c] = "done"] /\ result' = [result EXCEPT ![c] = "sent"]
         ELSE pc' = [pc EXCEPT ![c] = "waiting"] /\ UNCHANGED result
    /\ UNCHANGED <<pending, chan, cClose, cReader, cEnv, linkUp, s2c, hostVars>>

WriteFails(c) ==
    /\ pc[c] = "writing"
    /\ RawClosed \/ ~linkUp
    /\ cMu' = None
    /\ pc' = [pc EXCEPT ![c] = "cleanup"]
    /\ result' = [result EXCEPT ![c] = "senderr"]
    /\ UNCHANGED <<pending, chan, cClose, cReader, cEnv, linkUp, c2s, s2c, hostVars>>

(* Mutant of Receive: the channel is read without waiting for a value. *)
ReceiveNow(c) ==
    /\ pc[c] = "waiting"
    /\ result' = [result EXCEPT ![c] = chan[c]]
    /\ pc' = [pc EXCEPT ![c] = "done"]
    /\ UNCHANGED <<pending, chan, cMu, cClose, cReader, cEnv, linkUp, c2s, s2c, hostVars>>

(* The two cases of the select: the channel, or ctx.Done(). *)
Receive(c) ==
    /\ pc[c] = "waiting" /\ chan[c] # "open"
    /\ result' = [result EXCEPT ![c] = chan[c]]
    /\ pc' = [pc EXCEPT ![c] = "done"]
    /\ UNCHANGED <<pending, chan, cMu, cClose, cReader, cEnv, linkUp, c2s, s2c, hostVars>>

Timeout(c) ==
    /\ pc[c] = "waiting" /\ c \in Timed
    /\ result' = [result EXCEPT ![c] = "timeout"]
    /\ pc' = [pc EXCEPT ![c] = "cleanup"]
    /\ UNCHANGED <<pending, chan, cMu, cClose, cReader, cEnv, linkUp, c2s, s2c, hostVars>>

(* A failed Call deletes its pending entry under the lock. *)
Cleanup(c) ==
    /\ pc[c] = "cleanup" /\ cMu = None
    /\ pending' = pending \ {c}
    /\ pc' = [pc EXCEPT ![c] = "done"]
    /\ UNCHANGED <<result, chan, cMu, cClose, cReader, cEnv, linkUp, c2s, s2c, hostVars>>

-----------------------------------------------------------------------------
(* readLoop and Close on the client *)

ClientRead ==
    /\ cReader = "read" /\ ~RawClosed /\ s2c # <<>>
    /\ cEnv' = Head(s2c)
    /\ s2c' = Tail(s2c)
    /\ cReader' = "lookup"
    /\ UNCHANGED <<pc, result, pending, chan, cMu, cClose, linkUp, c2s, hostVars>>

(* Mutant of ClientLookup: the entry stays in pending. *)
ClientLookupKeeps ==
    /\ cReader = "lookup" /\ cMu = None
    /\ IF cEnv.id \in pending THEN cReader' = "deliver" /\ UNCHANGED cEnv
                              ELSE cReader' = "read" /\ cEnv' = NoEnv
    /\ UNCHANGED <<pc, result, pending, chan, cMu, cClose, linkUp, c2s, s2c, hostVars>>

(* Mutant of ClientLookup: any pending call gets the response. *)
ClientLookupAny ==
    /\ cReader = "lookup" /\ cMu = None
    /\ IF pending # {}
         THEN \E c \in pending : /\ pending' = pending \ {c}
                                 /\ cReader' = "deliver"
                                 /\ cEnv' = [cEnv EXCEPT !.id = c]
         ELSE cReader' = "read" /\ cEnv' = NoEnv /\ UNCHANGED pending
    /\ UNCHANGED <<pc, result, chan, cMu, cClose, linkUp, c2s, s2c, hostVars>>

(* Response path: the entry is deleted before the lock is released.  A      *)
(* response without entry goes to subscribers and to no handler.            *)
ClientLookup ==
    /\ cReader = "lookup" /\ cMu = None
    /\ IF cEnv.id \in pending
         THEN /\ pending' = pending \ {cEnv.id}
              /\ cReader' = "deliver" /\ UNCHANGED cEnv
         ELSE cReader' = "read" /\ cEnv' = NoEnv /\ UNCHANGED pending
    /\ UNCHANGED <<pc, result, chan, cMu, cClose, linkUp, c2s, s2c, hostVars>>

(* ch <- env; close(ch) *)
ClientDeliver ==
    /\ cReader = "deliver"
    /\ chan' = [chan EXCEPT ![cEnv.id] = cEnv.kind]
    /\ cReader' = "read" /\ cEnv' = NoEnv
    /\ UNCHANGED <<pc, result, pending, cMu, cClose, linkUp, c2s, s2c, hostVars>>

(* recvOne fails: readLoop returns and its deferred Close runs. *)
ClientReadFails ==
    /\ cReader = "read"
    /\ RawClosed \/ (~linkUp /\ s2c = <<>>)
    /\ cReader' = "exited"
    /\ cClose' = IF cClose = "open" THEN "swapped" ELSE cClose
    /\ UNCHANGED <<pc, result, pending, chan, cMu, cEnv, linkUp, c2s, s2c, hostVars>>

(* ControlClient.Close, at shutdown or when the command ends. *)
CloseCalled ==
    /\ cClose = "open"
    /\ cClose' = "swapped"
    /\ UNCHANGED <<pc, result, pending, chan, cMu, cReader, cEnv, linkUp, c2s, s2c, hostVars>>

(* Mutant of CloseRaw: Close takes muPending before it closes the socket. *)
CloseRawLocked ==
    /\ cClose = "swapped" /\ cMu = None
    /\ cClose' = "rawclosed"
    /\ UNCHANGED <<pc, result, pending, chan, cMu, cReader, cEnv, linkUp, c2s, s2c, hostVars>>

(* The socket is closed before the lock is taken: a blocked write fails. *)
CloseRaw ==
    /\ cClose = "swapped"
    /\ cClose' = "rawclosed"
    /\ UNCHANGED <<pc, result, pending, chan, cMu, cReader, cEnv, linkUp, c2s, s2c, hostVars>>

(* Mutant of ClosePurge: the entries are deleted, their channels stay open. *)
ClosePurgeNoClose ==
    /\ cClose = "rawclosed" /\ cMu = None
    /\ cClose' = "purged"
    /\ pending' = {}
    /\ UNCHANGED <<pc, result, chan, cMu, cReader, cEnv, linkUp, c2s, s2c, hostVars>>

(* Every channel still pending is closed and forgotten. *)
ClosePurge ==
    /\ cClose = "rawclosed" /\ cMu = None
    /\ cClose' = "purged"
    /\ chan' = [c \in Calls |-> IF c \in pending THEN "closed" ELSE chan[c]]
    /\ pending' = {}
    /\ UNCHANGED <<pc, result, cMu, cReader, cEnv, linkUp, c2s, s2c, hostVars>>

-----------------------------------------------------------------------------
(* The host: Serve, readLoop, dispatch *)

(* Serve installs the handler after NewControlConn has started readLoop. *)
InstallHandler ==
    /\ ~installed
    /\ installed' = TRUE
    /\ UNCHANGED <<clientVars, linkUp, c2s, s2c, sReader, sEnv, sMu, disp, served, dropped>>

HostRead ==
    /\ sReader = "read" /\ linkUp /\ c2s # <<>>
    /\ sEnv' = Head(c2s)
    /\ c2s' = Tail(c2s)
    /\ sReader' = "lookup"
    /\ UNCHANGED <<clientVars, linkUp, s2c, installed, sMu, disp, served, dropped>>

(* No call of the host is pending, so the request goes to onMessage, which  *)
(* starts a dispatch goroutine, or nowhere.                                 *)
HostLookup ==
    /\ sReader = "lookup" /\ sMu = None
    /\ sReader' = "read" /\ sEnv' = None
    /\ IF installed
         THEN disp' = [disp EXCEPT ![sEnv] = "running"] /\ UNCHANGED dropped
         ELSE dropped' = dropped \cup {sEnv} /\ UNCHANGED disp
    /\ UNCHANGED <<clientVars, linkUp, c2s, s2c, installed, sMu, served>>

(* dispatch finds the handler and calls it; a type without handler is an    *)
(* error response and nothing else.  A value that does not fit a frame      *)
(* (1 MB) is packed and then refused by Send, whose error dispatch ignores. *)
HandlerReturns(c) ==
    /\ disp[c] = "running"
    /\ \/ /\ served' = [served EXCEPT ![c] = "data"]
          /\ \E next \in {"resp", "done"} : disp' = [disp EXCEPT ![c] = next]
       \/ /\ served' = [served EXCEPT ![c] = "err"]
          /\ \E next \in {"err", "unknown"} : disp' = [disp EXCEPT ![c] = next]
    /\ UNCHANGED <<clientVars, linkUp, c2s, s2c, installed, sReader, sEnv, sMu, dropped>>

(* Send on the host: the lock, then a write that may block. *)
DispatchLock(c) ==
    /\ disp[c] \in {"unknown", "err", "resp"} /\ sMu = None
    /\ sMu' = c
    /\ disp' = [disp EXCEPT ![c] = IF @ = "err" THEN "errwrite"
                                  ELSE IF @ = "resp" THEN "respwrite" ELSE "unkwrite"]
    /\ UNCHANGED <<clientVars, linkUp, c2s, s2c, installed, sReader, sEnv, served, dropped>>

(* After the handler's error dispatch goes on and sends a second response. *)
AfterWrite(c) == IF disp[c] = "errwrite" THEN "resp" ELSE "done"

(* Mutant of WrittenKind: the packed response goes first. *)
WrittenKindSwapped(c) ==
    IF disp[c] = "errwrite" THEN "empty" ELSE served[c]

WrittenKind(c) ==
    IF disp[c] # "respwrite" THEN "err"
    ELSE IF served[c] = "data" THEN "data" ELSE "empty"

DispatchWrite(c) ==
    /\ disp[c] \in {"unkwrite", "errwrite", "respwrite"}
    /\ \/ /\ linkUp /\ Len(s2c) < Cap
          /\ s2c' = Append(s2c, [id |-> c, kind |-> WrittenKind(c)])
       \/ /\ ~linkUp \/ RawClosed
          /\ UNCHANGED s2c
    /\ sMu' = None
    /\ disp' = [disp EXCEPT ![c] = AfterWrite(c)]
    /\ UNCHANGED <<clientVars, linkUp, c2s, installed, sReader, sEnv, served, dropped>>

(* The network or the host process goes away; unread requests are lost. *)
LinkDown ==
    /\ linkUp
    /\ linkUp' = FALSE
    /\ c2s' = <<>>
    /\ UNCHANGED <<clientVars, s2c, hostVars>>

-----------------------------------------------------------------------------
CallStep(c) ==
    \/ SendCheck(c) \/ SendRefused(c) \/ SendLock(c) \/ Write(c) \/ WriteFails(c)
    \/ Receive(c) \/ Cleanup(c)

ClientStep ==
    \/ ClientRead \/ ClientLookup \/ ClientDeliver \/ ClientReadFails
    \/ CloseRaw \/ ClosePurge

HostStep ==
    \/ InstallHandler \/ HostRead \/ HostLookup
    \/ \E c \in Calls : HandlerReturns(c) \/ DispatchLock(c) \/ DispatchWrite(c)

Next ==
    \/ \E c \in Calls : Register(c) \/ SendLog(c) \/ Timeout(c) \/ CallStep(c)
    \/ ClientStep \/ CloseCalled
    \/ HostStep \/ LinkDown

Spec == Init /\ [][Next]_vars

(* The goroutines of the client run.  Nothing is assumed of the host, which *)
(* may be stuck, of deadlines or of the network.                            *)
ClientFairness ==
    /\ \A c \in Calls : /\ WF_vars(SendCheck(c) \/ SendRefused(c)) /\ WF_vars(SendLock(c))
                        /\ WF_vars(Write(c)) /\ WF_vars(WriteFails(c))
                        /\ WF_vars(Receive(c)) /\ WF_vars(Cleanup(c))
    /\ WF_vars(ClientRead) /\ WF_vars(ClientLookup) /\ WF_vars(ClientDeliver)
    /\ WF_vars(ClientReadFails) /\ WF_vars(CloseRaw) /\ WF_vars(ClosePurge)

FairSpec == Spec /\ ClientFairness

-----------------------------------------------------------------------------
(* Properties *)

(* A channel is closed at most once and never written after that: readLoop, *)
(* Close and a timed-out Call cannot make each other panic.                 *)
ChannelsClosedOnce ==
    /\ \A c \in pending : chan[c] = "open"
    /\ cReader = "deliver" => cEnv.id \notin pending /\ chan[cEnv.id] = "open"

(* Close leaves no caller behind: once the purge is done, a call that still *)
(* waits has its channel closed, or its answer, or readLoop is about to put *)
(* it there.  This needs the closed flag, the raw close, the purge and the  *)
(* registration in exactly the order the code has them.                     *)
NoWaiterLeftBehind ==
    cClose = "purged" => \A c \in Calls :
        pc[c] = "waiting" => \/ chan[c] # "open"
                             \/ cReader = "deliver" /\ cEnv.id = c

(* A failed request is seen as failed: the empty response that dispatch     *)
(* sends after an error response is never what Call returns.                *)
ErrorComesFirst == \A c \in Calls : result[c] # "empty"

(* After Close, or when the read loop ends, every call ends, even if the    *)
(* host is stuck and the send buffer is full.                               *)
CloseUnblocks ==
    cClose # "open" ~> \A c \in Calls : pc[c] \in {"idle", "done"}

(* Call implements the service its callers rely on. *)
Outcome(c) ==
    IF pc[c] = "idle" THEN "idle"
    ELSE IF pc[c] # "done" THEN "open"
    ELSE IF result[c] \in {"data", "err"} THEN result[c] ELSE "unanswered"

Rpc == INSTANCE RpcService WITH outcome <- [c \in Calls |-> Outcome(c)]

CallIsRpc == Rpc!RpcSpec

(* "OnMessage installs a generic handler (server-side) invoked for every    *)
(* message that isn't a direct RPC response."  Refuted by Spec: a request   *)
(* may be read before the handler is installed.                             *)
EveryRequestHandled == dropped = {}
=============================================================================

------------------------- MODULE ControlConn_proofs -------------------------
(***************************************************************************)
(* Safety of ControlConn for every set of calls and every buffer size.     *)
(***************************************************************************)
EXTENDS ControlConn, TLAPS

(* What each end of the connection has read. *)
ReadInv ==
    /\ cReader \in {"lookup", "deliver"} => cEnv \in Response
    /\ sReader = "lookup" => sEnv \in Calls

(* Only a call that has registered has a channel. *)
IdleInv == \A c \in Calls : pc[c] = "idle" => c \notin pending /\ chan[c] = None

(* A call on its way through Send or in its select that has no answer yet   *)
(* is in pending, or in the hands of readLoop.                              *)
HeldInv ==
    \A c \in Calls :
        pc[c] \in {"registered", "locking", "writing", "waiting"} /\ chan[c] = "open"
            => c \in pending \/ (cReader = "deliver" /\ cEnv.id = c)

(* After the purge only calls that Send refuses are registered. *)
PurgeInv ==
    cClose = "purged" => \A c \in pending : pc[c] \in {"registered", "cleanup"}

(* A request is written once: the requests in flight differ, and none of    *)
(* them, nor the one being looked up, has been dispatched yet.              *)
Undispatched(c) ==
    /\ pc[c] \in {"waiting", "cleanup", "done"}
    /\ disp[c] = None /\ served[c] = None

OnceInv ==
    /\ \A i \in DOMAIN c2s : Undispatched(c2s[i])
    /\ \A i, j \in DOMAIN c2s : c2s[i] = c2s[j] => i = j
    /\ sReader = "lookup" => Undispatched(sEnv) /\ \A i \in DOMAIN c2s : c2s[i] # sEnv
    /\ \A c \in Calls : disp[c] # None => pc[c] \in {"waiting", "cleanup", "done"}
    /\ \A c \in Calls : disp[c] \in {None, "running"} => served[c] = None

(* A response other than the empty one says what the handler returned for   *)
(* the call it names, wherever it is on its way; a failed call has failed   *)
(* before its cleanup.                                                      *)
Answers(id, kind) ==
    pc[id] # "idle" /\ (kind # "empty" => served[id] = kind)

AnswerInv ==
    /\ \A c \in Calls : disp[c] \in {"unknown", "unkwrite", "err", "errwrite"} => served[c] = "err"
    /\ \A i \in DOMAIN s2c : Answers(s2c[i].id, s2c[i].kind)
    /\ cReader \in {"lookup", "deliver"} => Answers(cEnv.id, cEnv.kind)
    /\ \A c \in Calls : chan[c] \in {"data", "err"} => served[c] = chan[c]
    /\ \A c \in Calls : pc[c] = "cleanup" => result[c] \in {"senderr", "timeout"}

(* The entry of a call is gone for good. *)
Past(c) == pc[c] # "idle" /\ c \notin pending

(* A response other than the empty one reaches the pending map of the       *)
(* client before anything after the first n frames.                         *)
ErrorAhead(c, n) ==
    \/ Past(c)
    \/ cReader = "lookup" /\ cEnv.id = c /\ cEnv.kind # "empty"
    \/ \E j \in 1..n : s2c[j].id = c /\ s2c[j].kind # "empty"

(* As long as the client reads, the empty response has an error response    *)
(* ahead of it, from the moment the host is about to send it.               *)
OrderInv ==
    /\ ~RawClosed => \A k \in DOMAIN s2c : s2c[k].kind = "empty" => ErrorAhead(s2c[k].id, k - 1)
    /\ ~RawClosed /\ linkUp => \A c \in Calls :
        disp[c] \in {"resp", "respwrite"} /\ served[c] # "data" => ErrorAhead(c, Len(s2c))
    /\ cReader = "lookup" /\ cEnv.kind = "empty" => Past(cEnv.id)
    /\ cReader = "deliver" => cEnv.kind # "empty"
    /\ \A c \in Calls : chan[c] # "empty" /\ result[c] # "empty"

IInv ==
    /\ TypeOK /\ ReadInv /\ IdleInv /\ ChannelsClosedOnce /\ HeldInv /\ PurgeInv
    /\ OnceInv /\ AnswerInv /\ OrderInv

(* A frame of the right type keeps the type of the frames in flight. *)
LEMMA AppendTyped ==
    ASSUME NEW S, NEW s \in Seq(S), NEW e \in S
    PROVE  Append(s, e) \in Seq(S)
  OBVIOUS

(* What the frames on their way to the client are. *)
LEMMA FramesTyped ==
    ASSUME TypeOK, NEW i \in DOMAIN s2c
    PROVE  s2c[i].id \in Calls /\ s2c[i].kind \in {"data", "err", "empty"}
<1>1. s2c[i] \in Response
  BY DEF TypeOK
<1>2. QED
  BY <1>1 DEF Response

(* Every step keeps the variables in their types. *)
LEMMA TypeStep == TypeOK /\ ReadInv /\ [Next]_vars => TypeOK'
<1> SUFFICES ASSUME TypeOK, ReadInv, [Next]_vars PROVE TypeOK'  OBVIOUS
<1> USE CallsAssumption, NoneAssumption DEF TypeOK, Response, NoEnv, CloseSteps, DispSteps, clientVars, hostVars, ReadInv, None
<1>1. ASSUME NEW q \in Calls, Register(q) PROVE TypeOK'
  BY <1>1 DEF Register
<1>2. ASSUME NEW q \in Calls, SendLog(q) PROVE TypeOK'
  BY <1>2 DEF SendLog
<1>3. ASSUME NEW q \in Calls, SendCheck(q) PROVE TypeOK'
  BY <1>3 DEF SendCheck
<1>4. ASSUME NEW q \in Calls, SendRefused(q) PROVE TypeOK'
  BY <1>4 DEF SendRefused
<1>5. ASSUME NEW q \in Calls, SendLock(q) PROVE TypeOK'
  BY <1>5 DEF SendLock
<1>6. ASSUME NEW q \in Calls, Write(q) PROVE TypeOK'
  <2>1. c2s' \in Seq(Calls)
    BY <1>6 DEF Write
  <2>2. pc' \in [Calls -> {"idle", "registered", "locking", "writing", "waiting", "cleanup", "done"}]
        /\ result' \in [Calls -> {None, "data", "err", "empty", "closed", "timeout", "senderr", "sent"}]
    BY <1>6 DEF Write
  <2>3. QED
    BY <1>6, <2>1, <2>2 DEF Write
<1>7. ASSUME NEW q \in Calls, WriteFails(q) PROVE TypeOK'
  BY <1>7 DEF WriteFails, RawClosed
<1>8. ASSUME NEW q \in Calls, Receive(q) PROVE TypeOK'
  BY <1>8 DEF Receive
<1>9. ASSUME NEW q \in Calls, Timeout(q) PROVE TypeOK'
  BY <1>9 DEF Timeout
<1>10. ASSUME NEW q \in Calls, Cleanup(q) PROVE TypeOK'
  BY <1>10 DEF Cleanup
<1>11. ASSUME NEW q \in Calls, HandlerReturns(q) PROVE TypeOK'
  <2>1. served' \in [Calls -> {None, "data", "err"}]
    BY <1>11 DEF HandlerReturns
  <2>2. disp' \in [Calls -> DispSteps]
    BY <1>11, SMTT(60) DEF HandlerReturns
  <2>3. QED
    BY <1>11, <2>1, <2>2 DEF HandlerReturns
<1>12. ASSUME NEW q \in Calls, DispatchLock(q) PROVE TypeOK'
  BY <1>12 DEF DispatchLock
<1>13. ASSUME NEW q \in Calls, DispatchWrite(q) PROVE TypeOK'
  <2> DEFINE env == [id |-> q, kind |-> WrittenKind(q)]
  <2>1. env \in Response
    BY DEF WrittenKind
  <2>2. s2c' = Append(s2c, env) \/ s2c' = s2c
    BY <1>13, Zenon DEF DispatchWrite
  <2>3. disp' \in [Calls -> DispSteps]
    BY <1>13 DEF DispatchWrite, AfterWrite
  <2> HIDE DEF env, Response
  <2>4. s2c' \in Seq(Response)
    <3>1. s2c \in Seq(Response)
      OBVIOUS
    <3>2. Append(s2c, env) \in Seq(Response)
      BY <2>1, <3>1, AppendTyped
    <3>3. QED
      BY <2>2, <3>1, <3>2, Zenon
  <2>5. QED
    BY <1>13, <2>3, <2>4 DEF DispatchWrite
<1>14. CASE ClientRead
  <2> HIDE DEF Response
  <2>1. Head(s2c) \in Response /\ Tail(s2c) \in Seq(Response)
    BY <1>14 DEF ClientRead
  <2>2. QED
    BY <1>14, <2>1 DEF ClientRead
<1>15. CASE ClientLookup
  BY <1>15, ZenonT(60) DEF ClientLookup
<1>16. CASE ClientDeliver
  BY <1>16 DEF ClientDeliver
<1>17. CASE ClientReadFails
  BY <1>17 DEF ClientReadFails, RawClosed
<1>18. CASE CloseRaw
  BY <1>18 DEF CloseRaw
<1>19. CASE ClosePurge
  BY <1>19 DEF ClosePurge
<1>20. CASE CloseCalled
  BY <1>20 DEF CloseCalled
<1>21. CASE InstallHandler
  BY <1>21 DEF InstallHandler
<1>22. CASE HostRead
  BY <1>22 DEF HostRead
<1>23. CASE HostLookup
  <2>1. disp' \in [Calls -> DispSteps]
    BY <1>23, ZenonT(60) DEF HostLookup
  <2>2. dropped' = dropped \/ dropped' = dropped \cup {sEnv}
    BY <1>23, Zenon DEF HostLookup
  <2>3. sEnv \in Calls
    BY <1>23 DEF HostLookup
  <2>4. QED
    BY <1>23, <2>1, <2>2, <2>3, ZenonT(60) DEF HostLookup
<1>24. CASE LinkDown
  <2>1. linkUp' \in BOOLEAN
    BY <1>24, Zenon DEF LinkDown
  <2>2. c2s' \in Seq(Calls)
    BY <1>24 DEF LinkDown
  <2>3. QED
    BY <1>24, <2>1, <2>2 DEF LinkDown
<1>25. CASE UNCHANGED vars
  BY <1>25 DEF vars
<1>26. QED
  BY <1>1, <1>2, <1>3, <1>4, <1>5, <1>6, <1>7, <1>8, <1>9, <1>10, <1>11, <1>12,
    <1>13, <1>14, <1>15, <1>16, <1>17, <1>18, <1>19, <1>20, <1>21, <1>22, <1>23,
    <1>24, <1>25
  DEF Next, CallStep, ClientStep, HostStep

(* The loops only look up what they have read. *)
LEMMA ReadStep == TypeOK /\ ReadInv /\ [Next]_vars => ReadInv'
<1> SUFFICES ASSUME TypeOK, ReadInv, [Next]_vars PROVE ReadInv'  OBVIOUS
<1> USE CallsAssumption, NoneAssumption DEF TypeOK, Response, NoEnv, CloseSteps, DispSteps, clientVars, hostVars, ReadInv, None
<1>1. ASSUME NEW q \in Calls, Register(q) PROVE ReadInv'
  BY <1>1 DEF Register
<1>2. ASSUME NEW q \in Calls, SendLog(q) PROVE ReadInv'
  BY <1>2 DEF SendLog
<1>3. ASSUME NEW q \in Calls, SendCheck(q) PROVE ReadInv'
  BY <1>3 DEF SendCheck
<1>4. ASSUME NEW q \in Calls, SendRefused(q) PROVE ReadInv'
  BY <1>4 DEF SendRefused
<1>5. ASSUME NEW q \in Calls, SendLock(q) PROVE ReadInv'
  BY <1>5 DEF SendLock
<1>6. ASSUME NEW q \in Calls, Write(q) PROVE ReadInv'
  BY <1>6 DEF Write, RawClosed
<1>7. ASSUME NEW q \in Calls, WriteFails(q) PROVE ReadInv'
  BY <1>7 DEF WriteFails, RawClosed
<1>8. ASSUME NEW q \in Calls, Receive(q) PROVE ReadInv'
  BY <1>8 DEF Receive
<1>9. ASSUME NEW q \in Calls, Timeout(q) PROVE ReadInv'
  BY <1>9 DEF Timeout
<1>10. ASSUME NEW q \in Calls, Cleanup(q) PROVE ReadInv'
  BY <1>10 DEF Cleanup
<1>11. ASSUME NEW q \in Calls, HandlerReturns(q) PROVE ReadInv'
  BY <1>11 DEF HandlerReturns
<1>12. ASSUME NEW q \in Calls, DispatchLock(q) PROVE ReadInv'
  BY <1>12 DEF DispatchLock
<1>13. ASSUME NEW q \in Calls, DispatchWrite(q) PROVE ReadInv'
  BY <1>13 DEF DispatchWrite, AfterWrite, WrittenKind, RawClosed
<1>14. CASE ClientRead
  <2> HIDE DEF Response
  <2>1. Head(s2c) \in Response
    BY <1>14 DEF ClientRead
  <2>2. QED
    BY <1>14, <2>1 DEF ClientRead
<1>15. CASE ClientLookup
  BY <1>15 DEF ClientLookup
<1>16. CASE ClientDeliver
  BY <1>16 DEF ClientDeliver
<1>17. CASE ClientReadFails
  BY <1>17 DEF ClientReadFails, RawClosed
<1>18. CASE CloseRaw
  BY <1>18 DEF CloseRaw
<1>19. CASE ClosePurge
  BY <1>19 DEF ClosePurge
<1>20. CASE CloseCalled
  BY <1>20 DEF CloseCalled
<1>21. CASE InstallHandler
  BY <1>21 DEF InstallHandler
<1>22. CASE HostRead
  BY <1>22 DEF HostRead
<1>23. CASE HostLookup
  BY <1>23 DEF HostLookup
<1>24. CASE LinkDown
  BY <1>24 DEF LinkDown
<1>25. CASE UNCHANGED vars
  BY <1>25 DEF vars
<1>26. QED
  BY <1>1, <1>2, <1>3, <1>4, <1>5, <1>6, <1>7, <1>8, <1>9, <1>10, <1>11, <1>12,
    <1>13, <1>14, <1>15, <1>16, <1>17, <1>18, <1>19, <1>20, <1>21, <1>22, <1>23,
    <1>24, <1>25
  DEF Next, CallStep, ClientStep, HostStep

(* A channel is made once, by Register. *)
LEMMA IdleStep == TypeOK /\ ReadInv /\ ChannelsClosedOnce /\ IdleInv /\ [Next]_vars => IdleInv'
<1> SUFFICES ASSUME TypeOK, ReadInv, ChannelsClosedOnce, IdleInv, [Next]_vars PROVE IdleInv'  OBVIOUS
<1> USE CallsAssumption, NoneAssumption DEF TypeOK, Response, NoEnv, CloseSteps, DispSteps, clientVars, hostVars, ReadInv, IdleInv,
        ChannelsClosedOnce, None
<1>1. ASSUME NEW q \in Calls, Register(q) PROVE IdleInv'
  BY <1>1 DEF Register
<1>2. ASSUME NEW q \in Calls, SendLog(q) PROVE IdleInv'
  BY <1>2 DEF SendLog
<1>3. ASSUME NEW q \in Calls, SendCheck(q) PROVE IdleInv'
  BY <1>3 DEF SendCheck
<1>4. ASSUME NEW q \in Calls, SendRefused(q) PROVE IdleInv'
  BY <1>4 DEF SendRefused
<1>5. ASSUME NEW q \in Calls, SendLock(q) PROVE IdleInv'
  BY <1>5 DEF SendLock
<1>6. ASSUME NEW q \in Calls, Write(q) PROVE IdleInv'
  BY <1>6 DEF Write, RawClosed
<1>7. ASSUME NEW q \in Calls, WriteFails(q) PROVE IdleInv'
  BY <1>7 DEF WriteFails, RawClosed
<1>8. ASSUME NEW q \in Calls, Receive(q) PROVE IdleInv'
  BY <1>8 DEF Receive
<1>9. ASSUME NEW q \in Calls, Timeout(q) PROVE IdleInv'
  BY <1>9 DEF Timeout
<1>10. ASSUME NEW q \in Calls, Cleanup(q) PROVE IdleInv'
  BY <1>10 DEF Cleanup
<1>11. ASSUME NEW q \in Calls, HandlerReturns(q) PROVE IdleInv'
  BY <1>11 DEF HandlerReturns
<1>12. ASSUME NEW q \in Calls, DispatchLock(q) PROVE IdleInv'
  BY <1>12 DEF DispatchLock
<1>13. ASSUME NEW q \in Calls, DispatchWrite(q) PROVE IdleInv'
  BY <1>13 DEF DispatchWrite, AfterWrite, WrittenKind, RawClosed
<1>14. CASE ClientRead
  BY <1>14 DEF ClientRead, RawClosed
<1>15. CASE ClientLookup
  BY <1>15 DEF ClientLookup
<1>16. CASE ClientDeliver
  BY <1>16 DEF ClientDeliver
<1>17. CASE ClientReadFails
  BY <1>17 DEF ClientReadFails, RawClosed
<1>18. CASE CloseRaw
  BY <1>18 DEF CloseRaw
<1>19. CASE ClosePurge
  BY <1>19 DEF ClosePurge
<1>20. CASE CloseCalled
  BY <1>20 DEF CloseCalled
<1>21. CASE InstallHandler
  BY <1>21 DEF InstallHandler
<1>22. CASE HostRead
  BY <1>22 DEF HostRead
<1>23. CASE HostLookup
  BY <1>23 DEF HostLookup
<1>24. CASE LinkDown
  BY <1>24 DEF LinkDown
<1>25. CASE UNCHANGED vars
  BY <1>25 DEF vars
<1>26. QED
  BY <1>1, <1>2, <1>3, <1>4, <1>5, <1>6, <1>7, <1>8, <1>9, <1>10, <1>11, <1>12,
    <1>13, <1>14, <1>15, <1>16, <1>17, <1>18, <1>19, <1>20, <1>21, <1>22, <1>23,
    <1>24, <1>25
  DEF Next, CallStep, ClientStep, HostStep

(* readLoop and Close take a channel out of pending before they close it. *)
LEMMA ChannelStep == TypeOK /\ ReadInv /\ IdleInv /\ ChannelsClosedOnce /\ [Next]_vars => ChannelsClosedOnce'
<1> SUFFICES ASSUME TypeOK, ReadInv, IdleInv, ChannelsClosedOnce, [Next]_vars PROVE ChannelsClosedOnce'  OBVIOUS
<1> USE CallsAssumption, NoneAssumption DEF TypeOK, Response, NoEnv, CloseSteps, DispSteps, clientVars, hostVars, ReadInv, IdleInv,
        ChannelsClosedOnce, None
<1>1. ASSUME NEW q \in Calls, Register(q) PROVE ChannelsClosedOnce'
  BY <1>1 DEF Register
<1>2. ASSUME NEW q \in Calls, SendLog(q) PROVE ChannelsClosedOnce'
  BY <1>2 DEF SendLog
<1>3. ASSUME NEW q \in Calls, SendCheck(q) PROVE ChannelsClosedOnce'
  BY <1>3 DEF SendCheck
<1>4. ASSUME NEW q \in Calls, SendRefused(q) PROVE ChannelsClosedOnce'
  BY <1>4 DEF SendRefused
<1>5. ASSUME NEW q \in Calls, SendLock(q) PROVE ChannelsClosedOnce'
  BY <1>5 DEF SendLock
<1>6. ASSUME NEW q \in Calls, Write(q) PROVE ChannelsClosedOnce'
  BY <1>6 DEF Write, RawClosed
<1>7. ASSUME NEW q \in Calls, WriteFails(q) PROVE ChannelsClosedOnce'
  BY <1>7 DEF WriteFails, RawClosed
<1>8. ASSUME NEW q \in Calls, Receive(q) PROVE ChannelsClosedOnce'
  BY <1>8 DEF Receive
<1>9. ASSUME NEW q \in Calls, Timeout(q) PROVE ChannelsClosedOnce'
  BY <1>9 DEF Timeout
<1>10. ASSUME NEW q \in Calls, Cleanup(q) PROVE ChannelsClosedOnce'
  BY <1>10 DEF Cleanup
<1>11. ASSUME NEW q \in Calls, HandlerReturns(q) PROVE ChannelsClosedOnce'
  BY <1>11 DEF HandlerReturns
<1>12. ASSUME NEW q \in Calls, DispatchLock(q) PROVE ChannelsClosedOnce'
  BY <1>12 DEF DispatchLock
<1>13. ASSUME NEW q \in Calls, DispatchWrite(q) PROVE ChannelsClosedOnce'
  BY <1>13 DEF DispatchWrite, AfterWrite, WrittenKind, RawClosed
<1>14. CASE ClientRead
  BY <1>14 DEF ClientRead, RawClosed
<1>15. CASE ClientLookup
  BY <1>15, ZenonT(60) DEF ClientLookup
<1>16. CASE ClientDeliver
  BY <1>16 DEF ClientDeliver
<1>17. CASE ClientReadFails
  BY <1>17 DEF ClientReadFails, RawClosed
<1>18. CASE CloseRaw
  BY <1>18 DEF CloseRaw
<1>19. CASE ClosePurge
  BY <1>19 DEF ClosePurge
<1>20. CASE CloseCalled
  BY <1>20 DEF CloseCalled
<1>21. CASE InstallHandler
  BY <1>21 DEF InstallHandler
<1>22. CASE HostRead
  BY <1>22 DEF HostRead
<1>23. CASE HostLookup
  BY <1>23 DEF HostLookup
<1>24. CASE LinkDown
  BY <1>24 DEF LinkDown
<1>25. CASE UNCHANGED vars
  BY <1>25 DEF vars
<1>26. QED
  BY <1>1, <1>2, <1>3, <1>4, <1>5, <1>6, <1>7, <1>8, <1>9, <1>10, <1>11, <1>12,
    <1>13, <1>14, <1>15, <1>16, <1>17, <1>18, <1>19, <1>20, <1>21, <1>22, <1>23,
    <1>24, <1>25
  DEF Next, CallStep, ClientStep, HostStep

(* No step takes a waiting call out of pending without answering it. *)
LEMMA HeldStep == TypeOK /\ ReadInv /\ IdleInv /\ ChannelsClosedOnce /\ HeldInv /\ [Next]_vars => HeldInv'
<1> SUFFICES ASSUME TypeOK, ReadInv, IdleInv, ChannelsClosedOnce, HeldInv, [Next]_vars PROVE HeldInv'  OBVIOUS
<1> USE CallsAssumption, NoneAssumption DEF TypeOK, Response, NoEnv, CloseSteps, DispSteps, clientVars, hostVars, ReadInv, IdleInv,
        ChannelsClosedOnce, HeldInv, None
<1>1. ASSUME NEW q \in Calls, Register(q) PROVE HeldInv'
  BY <1>1 DEF Register
<1>2. ASSUME NEW q \in Calls, SendLog(q) PROVE HeldInv'
  BY <1>2 DEF SendLog
<1>3. ASSUME NEW q \in Calls, SendCheck(q) PROVE HeldInv'
  BY <1>3 DEF SendCheck
<1>4. ASSUME NEW q \in Calls, SendRefused(q) PROVE HeldInv'
  BY <1>4 DEF SendRefused
<1>5. ASSUME NEW q \in Calls, SendLock(q) PROVE HeldInv'
  BY <1>5 DEF SendLock
<1>6. ASSUME NEW q \in Calls, Write(q) PROVE HeldInv'
  BY <1>6 DEF Write, RawClosed
<1>7. ASSUME NEW q \in Calls, WriteFails(q) PROVE HeldInv'
  BY <1>7 DEF WriteFails, RawClosed
<1>8. ASSUME NEW q \in Calls, Receive(q) PROVE HeldInv'
  BY <1>8 DEF Receive
<1>9. ASSUME NEW q \in Calls, Timeout(q) PROVE HeldInv'
  BY <1>9 DEF Timeout
<1>10. ASSUME NEW q \in Calls, Cleanup(q) PROVE HeldInv'
  BY <1>10 DEF Cleanup
<1>11. ASSUME NEW q \in Calls, HandlerReturns(q) PROVE HeldInv'
  BY <1>11 DEF HandlerReturns
<1>12. ASSUME NEW q \in Calls, DispatchLock(q) PROVE HeldInv'
  BY <1>12 DEF DispatchLock
<1>13. ASSUME NEW q \in Calls, DispatchWrite(q) PROVE HeldInv'
  BY <1>13 DEF DispatchWrite, AfterWrite, WrittenKind, RawClosed
<1>14. CASE ClientRead
  BY <1>14 DEF ClientRead, RawClosed
<1>15. CASE ClientLookup
  BY <1>15 DEF ClientLookup
<1>16. CASE ClientDeliver
  BY <1>16 DEF ClientDeliver
<1>17. CASE ClientReadFails
  BY <1>17 DEF ClientReadFails, RawClosed
<1>18. CASE CloseRaw
  BY <1>18 DEF CloseRaw
<1>19. CASE ClosePurge
  BY <1>19 DEF ClosePurge
<1>20. CASE CloseCalled
  BY <1>20 DEF CloseCalled
<1>21. CASE InstallHandler
  BY <1>21 DEF InstallHandler
<1>22. CASE HostRead
  BY <1>22 DEF HostRead
<1>23. CASE HostLookup
  BY <1>23 DEF HostLookup
<1>24. CASE LinkDown
  BY <1>24 DEF LinkDown
<1>25. CASE UNCHANGED vars
  BY <1>25 DEF vars
<1>26. QED
  BY <1>1, <1>2, <1>3, <1>4, <1>5, <1>6, <1>7, <1>8, <1>9, <1>10, <1>11, <1>12,
    <1>13, <1>14, <1>15, <1>16, <1>17, <1>18, <1>19, <1>20, <1>21, <1>22, <1>23,
    <1>24, <1>25
  DEF Next, CallStep, ClientStep, HostStep

(* Send lets no call pass once Close has begun. *)
LEMMA PurgeStep == TypeOK /\ PurgeInv /\ [Next]_vars => PurgeInv'
<1> SUFFICES ASSUME TypeOK, PurgeInv, [Next]_vars PROVE PurgeInv'  OBVIOUS
<1> USE CallsAssumption, NoneAssumption DEF TypeOK, Response, NoEnv, CloseSteps, DispSteps, clientVars, hostVars, PurgeInv, None
<1>1. ASSUME NEW q \in Calls, Register(q) PROVE PurgeInv'
  BY <1>1 DEF Register
<1>2. ASSUME NEW q \in Calls, SendLog(q) PROVE PurgeInv'
  BY <1>2 DEF SendLog
<1>3. ASSUME NEW q \in Calls, SendCheck(q) PROVE PurgeInv'
  BY <1>3 DEF SendCheck
<1>4. ASSUME NEW q \in Calls, SendRefused(q) PROVE PurgeInv'
  BY <1>4 DEF SendRefused
<1>5. ASSUME NEW q \in Calls, SendLock(q) PROVE PurgeInv'
  BY <1>5 DEF SendLock
<1>6. ASSUME NEW q \in Calls, Write(q) PROVE PurgeInv'
  BY <1>6 DEF Write, RawClosed
<1>7. ASSUME NEW q \in Calls, WriteFails(q) PROVE PurgeInv'
  BY <1>7 DEF WriteFails, RawClosed
<1>8. ASSUME NEW q \in Calls, Receive(q) PROVE PurgeInv'
  BY <1>8 DEF Receive
<1>9. ASSUME NEW q \in Calls, Timeout(q) PROVE PurgeInv'
  BY <1>9 DEF Timeout
<1>10. ASSUME NEW q \in Calls, Cleanup(q) PROVE PurgeInv'
  BY <1>10 DEF Cleanup
<1>11. ASSUME NEW q \in Calls, HandlerReturns(q) PROVE PurgeInv'
  BY <1>11 DEF HandlerReturns
<1>12. ASSUME NEW q \in Calls, DispatchLock(q) PROVE PurgeInv'
  BY <1>12 DEF DispatchLock
<1>13. ASSUME NEW q \in Calls, DispatchWrite(q) PROVE PurgeInv'
  BY <1>13 DEF DispatchWrite, AfterWrite, WrittenKind, RawClosed
<1>14. CASE ClientRead
  BY <1>14 DEF ClientRead, RawClosed
<1>15. CASE ClientLookup
  BY <1>15 DEF ClientLookup
<1>16. CASE ClientDeliver
  BY <1>16 DEF ClientDeliver
<1>17. CASE ClientReadFails
  BY <1>17 DEF ClientReadFails, RawClosed
<1>18. CASE CloseRaw
  BY <1>18 DEF CloseRaw
<1>19. CASE ClosePurge
  BY <1>19 DEF ClosePurge
<1>20. CASE CloseCalled
  BY <1>20 DEF CloseCalled
<1>21. CASE InstallHandler
  BY <1>21 DEF InstallHandler
<1>22. CASE HostRead
  BY <1>22 DEF HostRead
<1>23. CASE HostLookup
  BY <1>23 DEF HostLookup
<1>24. CASE LinkDown
  BY <1>24 DEF LinkDown
<1>25. CASE UNCHANGED vars
  BY <1>25 DEF vars
<1>26. QED
  BY <1>1, <1>2, <1>3, <1>4, <1>5, <1>6, <1>7, <1>8, <1>9, <1>10, <1>11, <1>12,
    <1>13, <1>14, <1>15, <1>16, <1>17, <1>18, <1>19, <1>20, <1>21, <1>22, <1>23,
    <1>24, <1>25
  DEF Next, CallStep, ClientStep, HostStep

(* Write sends a request once, and only HostLookup dispatches it. *)
LEMMA OnceStep == TypeOK /\ ReadInv /\ OnceInv /\ [Next]_vars => OnceInv'
<1> SUFFICES ASSUME TypeOK, ReadInv, OnceInv, [Next]_vars PROVE OnceInv'  OBVIOUS
<1> USE CallsAssumption, NoneAssumption DEF TypeOK, Response, NoEnv, CloseSteps, DispSteps, clientVars, hostVars, ReadInv, None, OnceInv, Undispatched
<1>1. ASSUME NEW q \in Calls, Register(q) PROVE OnceInv'
  BY <1>1 DEF Register
<1>2. ASSUME NEW q \in Calls, SendLog(q) PROVE OnceInv'
  BY <1>2 DEF SendLog
<1>3. ASSUME NEW q \in Calls, SendCheck(q) PROVE OnceInv'
  BY <1>3 DEF SendCheck
<1>4. ASSUME NEW q \in Calls, SendRefused(q) PROVE OnceInv'
  BY <1>4 DEF SendRefused
<1>5. ASSUME NEW q \in Calls, SendLock(q) PROVE OnceInv'
  BY <1>5 DEF SendLock
<1>6. ASSUME NEW q \in Calls, Write(q) PROVE OnceInv'
  <2>1. /\ \A i \in DOMAIN c2s : c2s[i] # q
        /\ sReader = "lookup" => sEnv # q
        /\ disp[q] = None /\ served[q] = None
    BY <1>6, ZenonT(60) DEF Write
  <2>2. /\ DOMAIN c2s' = 1..Len(c2s) + 1 /\ DOMAIN c2s = 1..Len(c2s) /\ Len(c2s) \in Nat
        /\ \A i \in DOMAIN c2s : c2s'[i] = c2s[i]
        /\ c2s'[Len(c2s) + 1] = q
    BY <1>6 DEF Write
  <2>3. /\ pc'[q] \in {"waiting", "done"}
        /\ \A c \in Calls : c # q => pc'[c] = pc[c]
        /\ UNCHANGED <<disp, served, sReader, sEnv>>
    BY <1>6 DEF Write
  <2>4. \A i \in DOMAIN c2s : c2s[i] \in Calls
    BY <2>2
  <2>5. \A i \in DOMAIN c2s' : Undispatched(c2s[i])' \/ i = Len(c2s) + 1
    BY <2>1, <2>2, <2>3, <2>4
  <2>6. \A i \in DOMAIN c2s' : Undispatched(c2s[i])'
    BY <2>1, <2>2, <2>3, <2>5
  <2>7. \A i, j \in DOMAIN c2s' : c2s'[i] = c2s'[j] => i = j
    BY <2>1, <2>2
  <2>8. (sReader = "lookup" => Undispatched(sEnv) /\ \A i \in DOMAIN c2s : c2s[i] # sEnv)'
    BY <2>1, <2>2, <2>3, SMTT(60)
  <2>9. QED
    BY <2>3, <2>6, <2>7, <2>8, SMTT(60)
<1>7. ASSUME NEW q \in Calls, WriteFails(q) PROVE OnceInv'
  BY <1>7 DEF WriteFails, RawClosed
<1>8. ASSUME NEW q \in Calls, Receive(q) PROVE OnceInv'
  BY <1>8 DEF Receive
<1>9. ASSUME NEW q \in Calls, Timeout(q) PROVE OnceInv'
  BY <1>9 DEF Timeout
<1>10. ASSUME NEW q \in Calls, Cleanup(q) PROVE OnceInv'
  BY <1>10 DEF Cleanup
<1>11. ASSUME NEW q \in Calls, HandlerReturns(q) PROVE OnceInv'
  BY <1>11 DEF HandlerReturns
<1>12. ASSUME NEW q \in Calls, DispatchLock(q) PROVE OnceInv'
  BY <1>12 DEF DispatchLock
<1>13. ASSUME NEW q \in Calls, DispatchWrite(q) PROVE OnceInv'
  BY <1>13 DEF DispatchWrite, AfterWrite, WrittenKind, RawClosed
<1>14. CASE ClientRead
  BY <1>14 DEF ClientRead, RawClosed
<1>15. CASE ClientLookup
  BY <1>15 DEF ClientLookup
<1>16. CASE ClientDeliver
  BY <1>16 DEF ClientDeliver
<1>17. CASE ClientReadFails
  BY <1>17 DEF ClientReadFails, RawClosed
<1>18. CASE CloseRaw
  BY <1>18 DEF CloseRaw
<1>19. CASE ClosePurge
  BY <1>19 DEF ClosePurge
<1>20. CASE CloseCalled
  BY <1>20 DEF CloseCalled
<1>21. CASE InstallHandler
  BY <1>21 DEF InstallHandler
<1>22. CASE HostRead
  BY <1>22 DEF HostRead
<1>23. CASE HostLookup
  <2>1. sEnv \in Calls /\ sReader' = "read" /\ UNCHANGED <<c2s, served, pc>>
    BY <1>23 DEF HostLookup
  <2>2. disp' = [disp EXCEPT ![sEnv] = "running"] \/ disp' = disp
    BY <1>23, Zenon DEF HostLookup
  <2>3. \A c \in Calls : c # sEnv => disp'[c] = disp[c]
    BY <2>1, <2>2
  <2>4. disp'[sEnv] \in {None, "running"} /\ Undispatched(sEnv) /\ \A i \in DOMAIN c2s : c2s[i] # sEnv
    BY <2>1, <2>2, <1>23 DEF HostLookup
  <2>5. \A i \in DOMAIN c2s : c2s[i] \in Calls
    OBVIOUS
  <2>6. QED
    BY <2>1, <2>3, <2>4, <2>5
<1>24. CASE LinkDown
  BY <1>24 DEF LinkDown
<1>25. CASE UNCHANGED vars
  BY <1>25 DEF vars
<1>26. QED
  BY <1>1, <1>2, <1>3, <1>4, <1>5, <1>6, <1>7, <1>8, <1>9, <1>10, <1>11, <1>12,
    <1>13, <1>14, <1>15, <1>16, <1>17, <1>18, <1>19, <1>20, <1>21, <1>22, <1>23,
    <1>24, <1>25
  DEF Next, CallStep, ClientStep, HostStep

(* The kind of a response is decided by what the handler returned. *)
LEMMA AnswerStep == TypeOK /\ ReadInv /\ OnceInv /\ AnswerInv /\ [Next]_vars => AnswerInv'
<1> SUFFICES ASSUME TypeOK, ReadInv, OnceInv, AnswerInv, [Next]_vars PROVE AnswerInv'  OBVIOUS
<1> USE CallsAssumption, NoneAssumption DEF TypeOK, Response, NoEnv, CloseSteps, DispSteps, clientVars, hostVars, ReadInv, None, OnceInv, Undispatched, AnswerInv, Answers
<1>1. ASSUME NEW q \in Calls, Register(q) PROVE AnswerInv'
  BY <1>1 DEF Register
<1>2. ASSUME NEW q \in Calls, SendLog(q) PROVE AnswerInv'
  BY <1>2 DEF SendLog
<1>3. ASSUME NEW q \in Calls, SendCheck(q) PROVE AnswerInv'
  BY <1>3 DEF SendCheck
<1>4. ASSUME NEW q \in Calls, SendRefused(q) PROVE AnswerInv'
  BY <1>4 DEF SendRefused
<1>5. ASSUME NEW q \in Calls, SendLock(q) PROVE AnswerInv'
  BY <1>5 DEF SendLock
<1>6. ASSUME NEW q \in Calls, Write(q) PROVE AnswerInv'
  <2>1. /\ pc'[q] \in {"waiting", "done"}
        /\ \A c \in Calls : c # q => pc'[c] = pc[c] /\ result'[c] = result[c]
        /\ UNCHANGED <<s2c, disp, served, chan, cReader, cEnv>>
    BY <1>6 DEF Write
  <2>2. \A i \in DOMAIN s2c : s2c[i].id \in Calls
    BY FramesTyped
  <2>3. QED
    BY <2>1, <2>2
<1>7. ASSUME NEW q \in Calls, WriteFails(q) PROVE AnswerInv'
  BY <1>7 DEF WriteFails, RawClosed
<1>8. ASSUME NEW q \in Calls, Receive(q) PROVE AnswerInv'
  BY <1>8 DEF Receive
<1>9. ASSUME NEW q \in Calls, Timeout(q) PROVE AnswerInv'
  BY <1>9 DEF Timeout
<1>10. ASSUME NEW q \in Calls, Cleanup(q) PROVE AnswerInv'
  BY <1>10 DEF Cleanup
<1>11. ASSUME NEW q \in Calls, HandlerReturns(q) PROVE AnswerInv'
  <2>1. /\ served[q] = None /\ \A c \in Calls : c # q => served'[c] = served[c] /\ disp'[c] = disp[c]
        /\ UNCHANGED <<s2c, pc, chan, result, cReader, cEnv>>
    BY <1>11 DEF HandlerReturns
  <2>2. \/ served'[q] = "data" /\ disp'[q] \in {"resp", "done"}
        \/ served'[q] = "err" /\ disp'[q] \in {"err", "unknown"}
    BY <1>11 DEF HandlerReturns
  <2>3. \A i \in DOMAIN s2c : s2c[i].id \in Calls /\ s2c[i].kind \in {"data", "err", "empty"}
    BY FramesTyped
  <2>4. \A i \in DOMAIN s2c : Answers(s2c[i].id, s2c[i].kind)'
    BY <2>1, <2>3
  <2>5. (cReader \in {"lookup", "deliver"} => Answers(cEnv.id, cEnv.kind))'
    BY <2>1
  <2>6. QED
    BY <2>1, <2>2, <2>4, <2>5
<1>12. ASSUME NEW q \in Calls, DispatchLock(q) PROVE AnswerInv'
  BY <1>12 DEF DispatchLock
<1>13. ASSUME NEW q \in Calls, DispatchWrite(q) PROVE AnswerInv'
  <2>1. /\ \A c \in Calls : c # q => disp'[c] = disp[c]
        /\ disp'[q] \in {"resp", "done"}
        /\ UNCHANGED <<served, pc, chan, result, cReader, cEnv>>
    BY <1>13 DEF DispatchWrite, AfterWrite
  <2>2. pc[q] # "idle" /\ (WrittenKind(q) # "empty" => served[q] = WrittenKind(q))
    BY <1>13 DEF DispatchWrite, WrittenKind
  <2>3. \A i \in DOMAIN s2c' : Answers(s2c[i].id, s2c[i].kind)'
    <3>1. CASE s2c' = s2c
      BY <2>1, <3>1
    <3>2. CASE s2c' = Append(s2c, [id |-> q, kind |-> WrittenKind(q)])
      BY <2>1, <2>2, <3>2
    <3>3. QED
      BY <1>13, <3>1, <3>2 DEF DispatchWrite
  <2>4. QED
    BY <2>1, <2>3
<1>14. CASE ClientRead
  BY <1>14 DEF ClientRead, RawClosed
<1>15. CASE ClientLookup
  BY <1>15 DEF ClientLookup
<1>16. CASE ClientDeliver
  BY <1>16 DEF ClientDeliver
<1>17. CASE ClientReadFails
  BY <1>17 DEF ClientReadFails, RawClosed
<1>18. CASE CloseRaw
  BY <1>18 DEF CloseRaw
<1>19. CASE ClosePurge
  BY <1>19 DEF ClosePurge
<1>20. CASE CloseCalled
  BY <1>20 DEF CloseCalled
<1>21. CASE InstallHandler
  BY <1>21 DEF InstallHandler
<1>22. CASE HostRead
  BY <1>22 DEF HostRead
<1>23. CASE HostLookup
  BY <1>23 DEF HostLookup
<1>24. CASE LinkDown
  BY <1>24 DEF LinkDown
<1>25. CASE UNCHANGED vars
  BY <1>25, SMTT(60) DEF vars
<1>26. QED
  BY <1>1, <1>2, <1>3, <1>4, <1>5, <1>6, <1>7, <1>8, <1>9, <1>10, <1>11, <1>12,
    <1>13, <1>14, <1>15, <1>16, <1>17, <1>18, <1>19, <1>20, <1>21, <1>22, <1>23,
    <1>24, <1>25
  DEF Next, CallStep, ClientStep, HostStep

(* dispatch sends the error response before the empty one, and the frames   *)
(* of a connection keep their order.                                        *)
LEMMA OrderStep == TypeOK /\ ReadInv /\ IdleInv /\ OnceInv /\ AnswerInv /\ OrderInv /\ [Next]_vars => OrderInv'
<1> SUFFICES ASSUME TypeOK, ReadInv, IdleInv, OnceInv, AnswerInv, OrderInv, [Next]_vars PROVE OrderInv'  OBVIOUS
<1> USE CallsAssumption, NoneAssumption DEF TypeOK, Response, NoEnv, CloseSteps, DispSteps, clientVars, hostVars, ReadInv, None, IdleInv, OnceInv, Undispatched, AnswerInv, Answers, OrderInv, ErrorAhead, Past, RawClosed
<1>1. ASSUME NEW q \in Calls, Register(q) PROVE OrderInv'
  BY <1>1 DEF Register
<1>2. ASSUME NEW q \in Calls, SendLog(q) PROVE OrderInv'
  BY <1>2 DEF SendLog
<1>3. ASSUME NEW q \in Calls, SendCheck(q) PROVE OrderInv'
  BY <1>3 DEF SendCheck
<1>4. ASSUME NEW q \in Calls, SendRefused(q) PROVE OrderInv'
  BY <1>4 DEF SendRefused
<1>5. ASSUME NEW q \in Calls, SendLock(q) PROVE OrderInv'
  BY <1>5 DEF SendLock
<1>6. ASSUME NEW q \in Calls, Write(q) PROVE OrderInv'
  <2>1. /\ pc[q] = "writing" /\ pc'[q] # "idle"
        /\ \A c \in Calls : c # q => pc'[c] = pc[c] /\ result'[c] = result[c]
        /\ result'[q] # "empty"
        /\ UNCHANGED <<pending, s2c, disp, served, chan, cReader, cEnv, cClose, linkUp>>
    BY <1>6 DEF Write
  <2>2. \A c \in Calls : Past(c)' = Past(c)
    BY <2>1
  <2>3. \A i \in DOMAIN s2c : s2c[i].id \in Calls
    BY FramesTyped
  <2>4. QED
    BY <2>1, <2>2, <2>3
<1>7. ASSUME NEW q \in Calls, WriteFails(q) PROVE OrderInv'
  BY <1>7 DEF WriteFails, RawClosed
<1>8. ASSUME NEW q \in Calls, Receive(q) PROVE OrderInv'
  BY <1>8 DEF Receive
<1>9. ASSUME NEW q \in Calls, Timeout(q) PROVE OrderInv'
  BY <1>9 DEF Timeout
<1>10. ASSUME NEW q \in Calls, Cleanup(q) PROVE OrderInv'
  BY <1>10 DEF Cleanup
<1>11. ASSUME NEW q \in Calls, HandlerReturns(q) PROVE OrderInv'
  BY <1>11, SMTT(60) DEF HandlerReturns
<1>12. ASSUME NEW q \in Calls, DispatchLock(q) PROVE OrderInv'
  BY <1>12 DEF DispatchLock
<1>13. ASSUME NEW q \in Calls, DispatchWrite(q) PROVE OrderInv'
  <2>1. /\ \A c \in Calls : c # q => disp'[c] = disp[c]
        /\ UNCHANGED <<served, pc, pending, chan, result, cReader, cEnv, cClose, linkUp>>
    BY <1>13 DEF DispatchWrite
  <2>2. CASE s2c' = s2c
    <3>1. disp[q] = "errwrite" => ~linkUp \/ RawClosed
      BY <1>13, <2>2 DEF DispatchWrite
    <3>2. disp'[q] = "resp" => disp[q] = "errwrite"
      BY <1>13 DEF DispatchWrite, AfterWrite
    <3>3. disp'[q] # "respwrite"
      BY <1>13 DEF DispatchWrite, AfterWrite
    <3>4. QED
      BY <2>1, <2>2, <3>1, <3>2, <3>3
  <2>3. CASE linkUp /\ s2c' = Append(s2c, [id |-> q, kind |-> WrittenKind(q)])
    <3>1. /\ Len(s2c) \in Nat /\ DOMAIN s2c = 1..Len(s2c)
          /\ Len(s2c') = Len(s2c) + 1 /\ DOMAIN s2c' = 1..Len(s2c) + 1
          /\ \A i \in 1..Len(s2c) : s2c'[i] = s2c[i]
          /\ s2c'[Len(s2c) + 1] = [id |-> q, kind |-> WrittenKind(q)]
      BY <2>3
    <3>2. \A c, n : n \in 0..Len(s2c) /\ ErrorAhead(c, n) => ErrorAhead(c, n)'
      BY <2>1, <3>1
    <3>3. \A c : ErrorAhead(c, Len(s2c)) => ErrorAhead(c, Len(s2c))'
      BY <2>1, <3>1
    <3>4. ~RawClosed /\ WrittenKind(q) = "empty" => ErrorAhead(q, Len(s2c))
      BY <1>13, <2>3 DEF DispatchWrite, WrittenKind
    <3>5. ~RawClosed => \A k \in DOMAIN s2c' : s2c'[k].kind = "empty" => ErrorAhead(s2c[k].id, k - 1)'
      <4> SUFFICES ASSUME ~RawClosed, NEW k \in DOMAIN s2c', s2c'[k].kind = "empty"
                   PROVE  ErrorAhead(s2c[k].id, k - 1)'
        OBVIOUS
      <4> HIDE DEF ErrorAhead
      <4>1. CASE k \in 1..Len(s2c)
        BY <3>1, <3>2, <4>1, SMTT(60)
      <4>2. CASE k = Len(s2c) + 1
        BY <3>1, <3>2, <3>4, <4>2
      <4>3. QED
        BY <3>1, <4>1, <4>2
    <3>6. disp'[q] = "resp" => disp[q] = "errwrite" /\ WrittenKind(q) = "err"
      BY <1>13 DEF DispatchWrite, AfterWrite, WrittenKind
    <3>7. disp'[q] # "respwrite"
      BY <1>13 DEF DispatchWrite, AfterWrite
    <3>8. disp'[q] = "resp" => ErrorAhead(q, Len(s2c))'
      BY <3>1, <3>6
    <3>9. ~RawClosed /\ linkUp => \A c \in Calls :
            disp'[c] \in {"resp", "respwrite"} /\ served[c] # "data" => ErrorAhead(c, Len(s2c))'
      <4> HIDE DEF ErrorAhead
      <4> QED
        BY <2>1, <3>3, <3>7, <3>8
    <3>10. QED
      <4> HIDE DEF ErrorAhead
      <4> QED
        BY <2>1, <3>5, <3>9
  <2>4. QED
    BY <1>13, <2>2, <2>3 DEF DispatchWrite
<1>14. CASE ClientRead
  <2>1. /\ cReader = "read" /\ ~RawClosed /\ s2c # <<>> /\ cReader' = "lookup"
        /\ cEnv' = s2c[1]
        /\ UNCHANGED <<served, pc, pending, chan, result, disp, cClose, linkUp>>
    BY <1>14 DEF ClientRead
  <2>2. /\ Len(s2c) \in Nat \ {0} /\ DOMAIN s2c = 1..Len(s2c)
        /\ Len(s2c') = Len(s2c) - 1 /\ DOMAIN s2c' = 1..Len(s2c) - 1
        /\ \A i \in 1..Len(s2c) - 1 : s2c'[i] = s2c[i + 1]
    BY <1>14 DEF ClientRead
  <2>3. ASSUME NEW c, NEW n \in 1..Len(s2c), ErrorAhead(c, n)
        PROVE  \/ Past(c)
               \/ s2c[1].id = c /\ s2c[1].kind # "empty"
               \/ \E j \in 1..n - 1 : s2c'[j].id = c /\ s2c'[j].kind # "empty"
    <3>1. CASE Past(c)
      BY <3>1
    <3>2. CASE \E j \in 1..n : s2c[j].id = c /\ s2c[j].kind # "empty"
      <4>1. PICK j \in 1..n : s2c[j].id = c /\ s2c[j].kind # "empty"
        BY <3>2
      <4>2. CASE j # 1
        <5>1. j - 1 \in 1..n - 1 /\ s2c'[j - 1] = s2c[j]
          BY <2>2, <4>1, <4>2
        <5>2. QED
          BY <4>1, <5>1
      <4>3. QED
        BY <4>1, <4>2
    <3>3. QED
      BY <2>1, <2>3, <3>1, <3>2
  <2>4. \A k \in DOMAIN s2c' : s2c'[k].kind = "empty" => ErrorAhead(s2c[k].id, k - 1)'
    <3> SUFFICES ASSUME NEW k \in DOMAIN s2c', s2c'[k].kind = "empty"
                 PROVE  ErrorAhead(s2c[k].id, k - 1)'
      OBVIOUS
    <3>1. k + 1 \in DOMAIN s2c /\ s2c'[k] = s2c[k + 1] /\ k \in 1..Len(s2c) /\ (k + 1) - 1 = k
      BY <2>2
    <3>2. ErrorAhead(s2c[k + 1].id, (k + 1) - 1)
      <4> HIDE DEF ErrorAhead
      <4> QED
        BY <2>1, <3>1
    <3>3. PICK d : d = s2c[k + 1].id
      OBVIOUS
    <3>4. ErrorAhead(d, k)
      BY <3>1, <3>2, <3>3
    <3>5. \/ Past(d)
          \/ s2c[1].id = d /\ s2c[1].kind # "empty"
          \/ \E j \in 1..k - 1 : s2c'[j].id = d /\ s2c'[j].kind # "empty"
      BY <2>3, <3>1, <3>4, SMTT(60)
    <3>6. QED
      BY <2>1, <3>1, <3>3, <3>5
  <2>5. linkUp => \A c \in Calls :
            disp[c] \in {"resp", "respwrite"} /\ served[c] # "data" => ErrorAhead(c, Len(s2c))'
    <3> SUFFICES ASSUME linkUp, NEW c \in Calls, disp[c] \in {"resp", "respwrite"}, served[c] # "data"
                 PROVE  ErrorAhead(c, Len(s2c))'
      OBVIOUS
    <3>1. ErrorAhead(c, Len(s2c))
      BY <2>1
    <3>2. Len(s2c) \in 1..Len(s2c) /\ Len(s2c') = Len(s2c) - 1
      BY <2>2
    <3>3. QED
      BY <2>1, <2>3, <3>1, <3>2
  <2>6. s2c[1].kind = "empty" => Past(s2c[1].id)
    BY <2>1, <2>2
  <2>7. QED
    <3> HIDE DEF ErrorAhead
    <3> QED
      BY <2>1, <2>4, <2>5, <2>6
<1>15. CASE ClientLookup
  BY <1>15 DEF ClientLookup
<1>16. CASE ClientDeliver
  BY <1>16 DEF ClientDeliver
<1>17. CASE ClientReadFails
  BY <1>17 DEF ClientReadFails, RawClosed
<1>18. CASE CloseRaw
  BY <1>18 DEF CloseRaw
<1>19. CASE ClosePurge
  BY <1>19 DEF ClosePurge
<1>20. CASE CloseCalled
  BY <1>20 DEF CloseCalled
<1>21. CASE InstallHandler
  BY <1>21 DEF InstallHandler
<1>22. CASE HostRead
  BY <1>22 DEF HostRead
<1>23. CASE HostLookup
  BY <1>23 DEF HostLookup
<1>24. CASE LinkDown
  BY <1>24 DEF LinkDown
<1>25. CASE UNCHANGED vars
  BY <1>25 DEF vars
<1>26. QED
  BY <1>1, <1>2, <1>3, <1>4, <1>5, <1>6, <1>7, <1>8, <1>9, <1>10, <1>11, <1>12,
    <1>13, <1>14, <1>15, <1>16, <1>17, <1>18, <1>19, <1>20, <1>21, <1>22, <1>23,
    <1>24, <1>25
  DEF Next, CallStep, ClientStep, HostStep

(* A fresh connection. *)
LEMMA InitIInv == Init => IInv
<1> SUFFICES ASSUME Init PROVE IInv  OBVIOUS
<1> USE CallsAssumption, NoneAssumption DEF Init
<1>1. TypeOK
  <2>1. linkUp \in BOOLEAN /\ installed \in BOOLEAN
    BY Zenon
  <2>2. c2s \in Seq(Calls) /\ s2c \in Seq(Response)
    OBVIOUS
  <2>3. QED
    BY <2>1, <2>2 DEF TypeOK, CloseSteps, DispSteps
<1>2. ReadInv /\ IdleInv /\ ChannelsClosedOnce /\ HeldInv /\ PurgeInv
  BY DEF ReadInv, IdleInv, ChannelsClosedOnce, HeldInv, PurgeInv
<1>3. OnceInv /\ AnswerInv /\ OrderInv
  BY DEF OnceInv, AnswerInv, OrderInv, None
<1>4. QED
  BY <1>1, <1>2, <1>3 DEF IInv

(* IInv is inductive. *)
THEOREM Inductive == Spec => []IInv
<1>1. IInv /\ [Next]_vars => IInv'
  BY TypeStep, ReadStep, IdleStep, ChannelStep, HeldStep, PurgeStep,
     OnceStep, AnswerStep, OrderStep DEF IInv
<1>2. QED
  BY InitIInv, <1>1, PTL DEF Spec

(* Type correctness of both ends of the connection. *)
THEOREM TypeCorrect == Spec => []TypeOK
<1>1. IInv => TypeOK
  BY DEF IInv
<1>2. QED
  BY Inductive, <1>1, PTL

(* No response channel is closed twice or written after its close, however  *)
(* many calls, timeouts and closes interleave.                              *)
THEOREM NoDoubleClose == Spec => []ChannelsClosedOnce
<1>1. IInv => ChannelsClosedOnce
  BY DEF IInv
<1>2. QED
  BY Inductive, <1>1, PTL

(* Close answers every call that waits. *)
THEOREM CloseReleasesWaiters == Spec => []NoWaiterLeftBehind
<1>1. IInv => NoWaiterLeftBehind
  BY DEF IInv, HeldInv, PurgeInv, NoWaiterLeftBehind, TypeOK
<1>2. QED
  BY Inductive, <1>1, PTL

(* A failed request is seen as failed: Call never returns the empty         *)
(* response that dispatch sends after the error response, for any number of *)
(* calls, timeouts, frames in flight and closes in between.                 *)
THEOREM ErrorSeenFirst == Spec => []ErrorComesFirst
<1>1. IInv => ErrorComesFirst
  BY DEF IInv, OrderInv, ErrorComesFirst
<1>2. QED
  BY Inductive, <1>1, PTL

(* A step that changes at most the goroutine of q changes only the outcome  *)
(* of q.                                                                    *)
LEMMA OthersKeepOutcome ==
    ASSUME TypeOK, NEW q \in Calls,
           \A c \in Calls : c # q => pc'[c] = pc[c] /\ result'[c] = result[c]
    PROVE  [c \in Calls |-> Outcome(c)]' = [[c \in Calls |-> Outcome(c)] EXCEPT ![q] = Outcome(q)']
<1>1. \A c \in Calls : c # q => Outcome(c)' = Outcome(c)
  BY DEF Outcome
<1>2. QED
  BY <1>1

(* Every step of a call's goroutine is a step of the service or none. *)
LEMMA CallStepRefines ==
    ASSUME IInv, NEW q \in Calls,
           Register(q) \/ SendLog(q) \/ Timeout(q) \/ CallStep(q)
    PROVE  [Rpc!RpcNext]_(Rpc!rpcVars)
<1> USE DEF IInv, TypeOK
<1>1. \A c \in Calls : c # q => pc'[c] = pc[c] /\ result'[c] = result[c]
  BY DEF CallStep, Register, SendLog, SendCheck, SendRefused, SendLock, Write, WriteFails,
         Receive, Timeout, Cleanup
<1>2. UNCHANGED served
  BY DEF CallStep, Register, SendLog, SendCheck, SendRefused, SendLock, Write, WriteFails,
         Receive, Timeout, Cleanup, hostVars
<1>3. [c \in Calls |-> Outcome(c)]' = [[c \in Calls |-> Outcome(c)] EXCEPT ![q] = Outcome(q)']
  BY <1>1, OthersKeepOutcome
<1>4. CASE Outcome(q)' = Outcome(q)
  <2>1. [c \in Calls |-> Outcome(c)]' = [c \in Calls |-> Outcome(c)]
    BY <1>3, <1>4
  <2>2. QED
    BY <1>2, <2>1 DEF Rpc!rpcVars
<1>5. CASE Outcome(q) = "idle" /\ Outcome(q)' = "open"
  <2>1. Rpc!Invoke(q)
    BY <1>2, <1>3, <1>5 DEF Rpc!Invoke
  <2>2. QED
    BY <2>1 DEF Rpc!RpcNext
<1>6. CASE Outcome(q) = "open" /\ Outcome(q)' = "unanswered"
  <2>1. Rpc!Abandon(q)
    BY <1>2, <1>3, <1>6 DEF Rpc!Abandon
  <2>2. QED
    BY <2>1 DEF Rpc!RpcNext
<1>7. CASE Outcome(q) = "open" /\ served[q] # "none" /\ Outcome(q)' = served[q]
  <2>1. Rpc!Answer(q)
    BY <1>2, <1>3, <1>7 DEF Rpc!Answer
  <2>2. QED
    BY <2>1 DEF Rpc!RpcNext
<1>8. CASE Register(q) \/ SendLog(q)
  BY <1>5, <1>8 DEF Register, SendLog, Outcome
<1>9. CASE SendCheck(q) \/ SendRefused(q) \/ SendLock(q) \/ WriteFails(q) \/ Timeout(q)
  BY <1>4, <1>9 DEF SendCheck, SendRefused, SendLock, WriteFails, Timeout, Outcome
<1>10. CASE Write(q)
  BY <1>4, <1>6, <1>10 DEF Write, Outcome
<1>11. CASE Receive(q)
  <2>1. chan[q] \in {"data", "err"} => served[q] = chan[q]
    BY DEF AnswerInv
  <2>2. /\ pc[q] = "waiting" /\ pc'[q] = "done" /\ result'[q] = chan[q]
    BY <1>11 DEF Receive
  <2>3. QED
    BY <1>6, <1>7, <2>1, <2>2 DEF Outcome
<1>12. CASE Cleanup(q)
  <2>1. pc[q] = "cleanup" /\ pc'[q] = "done" /\ result'[q] \in {"senderr", "timeout"}
    BY <1>12 DEF Cleanup, AnswerInv
  <2>2. QED
    BY <1>6, <2>1 DEF Outcome
<1>13. QED
  BY <1>8, <1>9, <1>10, <1>11, <1>12 DEF CallStep

(* Of the other steps only the return of a handler is one of the service. *)
LEMMA OtherStepRefines ==
    ASSUME IInv, ClientStep \/ CloseCalled \/ HostStep \/ LinkDown \/ UNCHANGED vars
    PROVE  [Rpc!RpcNext]_(Rpc!rpcVars)
<1>1. UNCHANGED <<pc, result>>
  BY DEF ClientStep, ClientRead, ClientLookup, ClientDeliver, ClientReadFails, CloseRaw, ClosePurge,
         CloseCalled, HostStep, InstallHandler, HostRead, HostLookup, HandlerReturns, DispatchLock,
         DispatchWrite, LinkDown, clientVars, vars
<1>2. [c \in Calls |-> Outcome(c)]' = [c \in Calls |-> Outcome(c)]
  BY <1>1 DEF Outcome
<1>3. CASE UNCHANGED served
  BY <1>2, <1>3 DEF Rpc!rpcVars
<1>4. ASSUME NEW q \in Calls, HandlerReturns(q) PROVE Rpc!RpcNext
  <2>1. Outcome(q) # "idle" /\ served[q] = "none"
    BY <1>4 DEF HandlerReturns, IInv, TypeOK, OnceInv, Outcome, None
  <2>2. \E r \in {"data", "err"} : served' = [served EXCEPT ![q] = r]
    BY <1>4 DEF HandlerReturns
  <2>3. Rpc!Serve(q)
    BY <1>2, <2>1, <2>2 DEF Rpc!Serve
  <2>4. QED
    BY <2>3 DEF Rpc!RpcNext
<1>5. UNCHANGED served \/ \E q \in Calls : HandlerReturns(q)
  BY DEF ClientStep, ClientRead, ClientLookup, ClientDeliver, ClientReadFails, CloseRaw, ClosePurge,
         CloseCalled, HostStep, InstallHandler, HostRead, HostLookup, DispatchLock,
         DispatchWrite, LinkDown, hostVars, vars
<1>6. QED
  BY <1>3, <1>4, <1>5

(* The control connection implements the service its callers rely on: a     *)
(* call that is answered was carried out by a handler of the host, once,    *)
(* gets the answer to its own request and keeps it.                         *)
THEOREM CallRefinesRpc == Spec => CallIsRpc
<1>1. Init => Rpc!RpcInit
  BY DEF Init, Rpc!RpcInit, Outcome, None
<1>2. IInv /\ [Next]_vars => [Rpc!RpcNext]_(Rpc!rpcVars)
  BY CallStepRefines, OtherStepRefines DEF Next
<1>3. QED
  BY Inductive, <1>1, <1>2, PTL DEF Spec, CallIsRpc, Rpc!RpcSpec
=============================================================================

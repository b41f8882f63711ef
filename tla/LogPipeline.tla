------------------------------ MODULE LogPipeline ------------------------------
(***************************************************************************)
(* The host's logger: the terminal with its live tail box, the log file    *)
(* of the run behind it, and `mkenv logs` reading that file from inside    *)
(* the container.                                                          *)
(*                                                                         *)
(* A logger call holds l.mu, so it is one step; the lines the agent sends  *)
(* go to the writer past the logger.  A row of the terminal and a line of  *)
(* the file are <<kind, number of the call>>.                              *)
(***************************************************************************)
EXTENDS Naturals, Sequences

CONSTANTS
    Threads,        \* goroutines that log, besides the main one
    TailLines,      \* lines a tail box keeps
    InitialLines,   \* `mkenv logs --tail`
    Frame,          \* lines that fit one control frame
    Levels,         \* verbosities the command may run with
    MaxCalls,       \* bound on the lines logged
    MaxFails        \* bound on the failed readings of the file

ASSUME TailAssumption == TailLines \in Nat \ {0} /\ InitialLines \in Nat /\ Frame \in Nat

VARIABLES
    level,      \* Logger.logLevel
    calls,      \* lines logged so far
    main,       \* what the main goroutine is doing
    term,       \* terminal and tail: rows, kept (history), muted, open, buf, height
    buffer,     \* Logger.fullLogBuffer
    writer,     \* the file behind the logger: "none", "open", "stopping", "stopped", "closed"
    file,       \* its lines
    dirty,      \* SyncWriter.dirty
    synced,     \* lines on disk
    issued,     \* history: the calls whose line the full log owes
    long,       \* calls whose line is longer than the reader's scanner takes
    reader,     \* the state of `mkenv logs`
    reply,      \* the answer on its way to the reader
    offset,     \* lines the reader has seen
    printed,    \* the places in the file of the lines it has printed
    fails       \* history: readings of the file that failed

logger == <<level, calls, main, term, buffer>>
disk == <<writer, file, dirty, synced>>
client == <<reader, reply, offset, printed, fails>>
vars == <<logger, disk, issued, long, client>>

NoReply == [start |-> 0, total |-> 0]

Init ==
    /\ level \in Levels /\ calls = 0 /\ main = "free"
    /\ term = [rows |-> <<>>, kept |-> <<>>, muted |-> FALSE,
               open |-> FALSE, buf |-> <<>>, height |-> 0]
    /\ buffer = <<>> /\ writer = "none" /\ file = <<>> /\ dirty = FALSE /\ synced = 0
    /\ issued = {} /\ long = {}
    /\ reader = "start" /\ reply = NoReply /\ offset = 0 /\ printed = <<>> /\ fails = 0

-----------------------------------------------------------------------------
(* The terminal *)

(* Text written to l.out, which is io.Discard while muted. *)
Out(t, rows) ==
    IF t.muted THEN t ELSE [t EXCEPT !.rows = @ \o rows, !.kept = @ \o rows]

(* A title and one row per line kept. *)
renderTailBox(kind, buf) == <<<<kind, 0>>>> \o [i \in DOMAIN buf |-> <<kind, buf[i]>>]

(* Mutant of clearTailBoxLocked: the height is not reset. *)
clearTailBoxTwice(t) ==
    [t EXCEPT !.rows = IF t.muted THEN @ ELSE SubSeq(@, 1, Len(@) - t.height)]

(* The cursor goes up by the height of the last box. *)
clearTailBoxLocked(t) ==
    [t EXCEPT !.rows = IF t.muted THEN @ ELSE SubSeq(@, 1, Len(@) - t.height), !.height = 0]

(* The live box is no part of what must stay on the terminal. *)
drawTailBoxLocked(t) ==
    IF t.buf = <<>> THEN t
    ELSE [Out(t, renderTailBox("live", t.buf)) EXCEPT !.height = Len(t.buf) + 1, !.kept = t.kept]

finalizeTailLocked(t) ==
    LET c == clearTailBoxLocked(t)
        s == IF c.buf = <<>> THEN c ELSE Out(c, renderTailBox("static", c.buf))
    IN  IF t.open THEN [s EXCEPT !.open = FALSE, !.buf = <<>>] ELSE t

(* The terminal side of printLog and Banner: a silent line clears the box   *)
(* too, and leaves the drawing to the next line.                            *)
printLog(t, n, silent) ==
    LET c == IF t.open THEN clearTailBoxLocked(t) ELSE t IN
    IF silent THEN c
    ELSE LET s == Out(c, <<<<"log", n>>>>) IN IF s.open THEN drawTailBoxLocked(s) ELSE s

(* tailHandle.printLocked on the active tail. *)
printLocked(t, n) ==
    LET lines == Append(t.buf, n)
        kept == IF Len(lines) > TailLines THEN Tail(lines) ELSE lines
    IN  drawTailBoxLocked(clearTailBoxLocked([t EXCEPT !.buf = kept]))

-----------------------------------------------------------------------------
(* The full log *)

Full == writer # "none"

(* io.WriteString(l.full, ...) through TimestampWriter and SyncWriter. *)
Write(lines) ==
    /\ file' = file \o lines /\ dirty' = TRUE /\ UNCHANGED <<writer, synced>>

(* Write followed by the forced sync at a tail boundary or a banner. *)
WriteAndSync(lines) ==
    /\ file' = file \o lines /\ synced' = Len(file') /\ dirty' = FALSE /\ UNCHANGED writer

(* A line goes to the file, or to the buffer before there is one. *)
writeFullLogLocked(lines) ==
    IF Full THEN Write(lines) /\ UNCHANGED buffer
    ELSE buffer' = buffer \o lines /\ UNCHANGED disk

Line(n) == <<<<"line", n>>>>
Boundary == <<<<"tail", 0>>>>

(* What finalizeTailLocked adds to the file: title, lines, blank, "end". *)
Snapshot(t) ==
    (IF t.buf = <<>> THEN <<>> ELSE renderTailBox("tail", t.buf) \o Boundary) \o Boundary

(* The next k call numbers are used. *)
NextCalls(k) == calls + k <= MaxCalls /\ calls' = calls + k

(* What docker or the agent writes may be longer than a scanner's line. *)
MaybeLong == long' \in {long, long \cup {calls'}}

(* l.mu is free: Logger.Close keeps it while the file is being closed. *)
Unlocked == writer \in {"none", "open"}

-----------------------------------------------------------------------------
(* Logger calls *)

(* Whether a call of the kind prints, given the verbosity. *)
Silent(kind) ==
    \/ kind \in {"infoSilent", "debugSilent"}
    \/ kind = "info" /\ level < 1
    \/ kind = "warn" /\ level < 2

Dropped(kind) == kind = "debug" /\ level < 3

LogKinds == {"spacer", "error", "info", "warn", "infoSilent", "debug", "debugSilent"}

(* The level methods, called by the main goroutine or by another. *)
Log(kind) ==
    /\ Unlocked /\ ~Dropped(kind) /\ NextCalls(1)
    /\ term' = printLog(term, calls', Silent(kind))
    /\ writeFullLogLocked(Line(calls'))
    /\ issued' = issued \cup {calls'}
    /\ UNCHANGED <<level, main, long, client>>

LogMain == main \in {"free", "left", "done"} /\ \E kind \in LogKinds : Log(kind)
LogOther == Threads # {} /\ \E kind \in LogKinds : Log(kind)

Banner ==
    /\ Unlocked /\ main = "free" /\ NextCalls(1)
    /\ term' = printLog(term, calls', FALSE)
    /\ IF Full THEN WriteAndSync(Line(calls')) /\ UNCHANGED buffer
       ELSE writeFullLogLocked(Line(calls'))
    /\ issued' = issued \cup {calls'}
    /\ UNCHANGED <<level, main, long, client>>

(* ResolveProject opens the log of the run and hands it to the logger, once *)
(* (ResolveProject keeps its project), which flushes what was buffered.     *)
SetFullLogWriter ==
    /\ main = "free" /\ writer = "none"
    /\ writer' = "open" /\ file' = buffer /\ dirty' = (buffer # <<>>) /\ buffer' = <<>>
    /\ UNCHANGED <<synced, level, calls, main, term, issued, long, client>>

-----------------------------------------------------------------------------
(* Tails and prompts of the main goroutine *)

NewTail ==
    /\ main = "free" /\ Unlocked /\ NextCalls(1)
    /\ main' = "tail"
    /\ term' = [finalizeTailLocked(term) EXCEPT !.open = TRUE]
    /\ IF Full THEN WriteAndSync(Boundary) ELSE UNCHANGED disk
    /\ UNCHANGED <<level, buffer, issued, long, client>>

(* A line of the docker build or of the file scanner.  Without a file it    *)
(* is not buffered.                                                         *)
TailPrint ==
    /\ main = "tail" /\ Unlocked /\ NextCalls(1) /\ MaybeLong
    /\ term' = printLocked(term, calls')
    /\ IF Full THEN Write(Line(calls')) /\ issued' = issued \cup {calls'}
       ELSE UNCHANGED <<disk, issued>>
    /\ UNCHANGED <<level, main, buffer, client>>

(* tailHandle.Close, or a docker client that cannot be made for a build and *)
(* leaves the tail open, after which the command only reports the error.    *)
TailClose ==
    /\ main = "tail" /\ Unlocked
    /\ \/ /\ main' = "free" /\ term' = finalizeTailLocked(term)
          /\ IF Full THEN WriteAndSync(Snapshot(term)) ELSE UNCHANGED disk
       \/ main' = "left" /\ UNCHANGED <<term, disk>>
    /\ UNCHANGED <<level, calls, buffer, issued, long, client>>

(* SelectOne, SelectMany and Confirm up to the prompt: no tail is open in   *)
(* the main goroutine, a spacer is printed, the prompt is logged.           *)
Ask ==
    /\ main = "free" /\ Unlocked /\ NextCalls(2)
    /\ main' = "asking"
    /\ term' = Out(printLog(finalizeTailLocked(term), calls + 1, FALSE), <<<<"prompt", calls'>>>>)
    /\ writeFullLogLocked(Line(calls + 1) \o Line(calls'))
    /\ issued' = issued \cup {calls + 1, calls'}
    /\ UNCHANGED <<level, long, client>>

(* The answer is logged; a failed prompt is reported by SelectMany only. *)
Answer ==
    /\ main = "asking" /\ Unlocked
    /\ main' = "free"
    /\ \/ /\ NextCalls(1)
          /\ \E silent \in BOOLEAN : term' = printLog(term, calls', silent)
          /\ writeFullLogLocked(Line(calls'))
          /\ issued' = issued \cup {calls'}
       \/ UNCHANGED <<calls, term, buffer, disk, issued>>
    /\ UNCHANGED <<level, long, client>>

(* The terminal belongs to the container while attached: Mute, restore.     *)
(* The command has nothing left to do but report how it went.               *)
Attach ==
    /\ main = "free" /\ main' = "attached" /\ term' = [term EXCEPT !.muted = TRUE]
    /\ UNCHANGED <<level, calls, buffer, disk, issued, long, client>>

Detach ==
    /\ main = "attached" /\ main' = "done" /\ term' = [term EXCEPT !.muted = FALSE]
    /\ UNCHANGED <<level, calls, buffer, disk, issued, long, client>>

-----------------------------------------------------------------------------
(* SyncWriter *)

(* Mutant of Flushed: the loop leaves without the final sync. *)
FlushedNot ==
    IF writer = "stopping" THEN UNCHANGED <<synced, dirty>>
    ELSE synced' = (IF dirty THEN Len(file) ELSE synced) /\ dirty' = FALSE

Flushed == synced' = (IF dirty THEN Len(file) ELSE synced) /\ dirty' = FALSE

Tick ==
    /\ writer \in {"open", "stopping"} /\ dirty
    /\ Flushed /\ UNCHANGED <<writer, file>>
    /\ UNCHANGED <<logger, issued, long, client>>

(* Logger.Close: the tail is finalized, the sync loop told to stop. *)
Close ==
    /\ main \in {"free", "left", "done"} /\ Unlocked /\ main' = "ended"
    /\ term' = finalizeTailLocked(term)
    /\ IF Full THEN /\ writer' = "stopping"
                    /\ file' = IF term.open THEN file \o Snapshot(term) ELSE file
                    /\ synced' = (IF term.open THEN Len(file') ELSE synced)
                    /\ dirty' = (~term.open /\ dirty)
       ELSE UNCHANGED disk
    /\ UNCHANGED <<level, calls, buffer, issued, long, client>>

StopLoop ==
    /\ writer = "stopping" /\ writer' = "stopped"
    /\ Flushed /\ UNCHANGED file
    /\ UNCHANGED <<logger, issued, long, client>>

CloseFile ==
    /\ writer = "stopped" /\ writer' = "closed"
    /\ UNCHANGED <<file, dirty, synced, logger, issued, long, client>>

(* The container was started before the command attached to it. *)
ContainerUp == main \in {"attached", "done", "ended"}

(* onLog: a line of the agent, written past the logger and its lock. *)
OnLog ==
    /\ ContainerUp /\ writer \in {"open", "stopping", "stopped"}
    /\ NextCalls(1) /\ MaybeLong
    /\ Write(Line(calls')) /\ issued' = issued \cup {calls'}
    /\ UNCHANGED <<level, main, term, buffer, client>>

-----------------------------------------------------------------------------
(* mkenv logs *)

(* The lines bufio.Scanner reads: it gives up at the first long one. *)
Readable ==
    LET cut == {i \in DOMAIN file : file[i][1] = "line" /\ file[i][2] \in long}
        first == CHOOSE i \in cut : \A j \in cut : i <= j
    IN  IF cut = {} THEN file ELSE SubSeq(file, 1, first - 1)

(* FetchLogs: the call has no deadline. *)
FetchLogs ==
    /\ \/ ContainerUp /\ reader = "start" /\ reader' = "first"
       \/ reader = "follow" /\ reader' = "more"
    /\ UNCHANGED <<logger, disk, issued, long, reply, offset, printed, fails>>

(* The answer of onFetchLogs when it has read n lines: those after the      *)
(* offset.  Send refuses one that does not fit a frame, and the handler     *)
(* drops that error.                                                        *)
Respond(n) ==
    /\ reader \in {"first", "more"}
    /\ LET start == IF offset > n THEN n ELSE offset IN
       IF n - start <= Frame
       THEN /\ reply' = [start |-> start, total |-> n]
            /\ reader' = IF reader = "first" THEN "gotFirst" ELSE "gotMore"
       ELSE reader' = "hung" /\ UNCHANGED reply
    /\ UNCHANGED <<logger, disk, issued, long, offset, printed>>

onFetchLogs == Respond(Len(Readable)) /\ UNCHANGED fails

(* The file cannot be opened, or a read of it fails: the answer is made     *)
(* from no line or from the lines before the failure, and says so nowhere.  *)
ReadFails ==
    /\ fails < MaxFails /\ fails' = fails + 1
    /\ \E n \in 0..Len(Readable) : Respond(n)

(* The places of the lines of a file after a, up to b. *)
Places(a, b) == [i \in 1..(b - a) |-> a + i]

(* runTail, and the first answer of runFollow: the last lines only. *)
PrintFirst ==
    /\ reader = "gotFirst" /\ reader' \in {"follow", "ended"}
    /\ LET from == IF reply.total > InitialLines THEN reply.total - InitialLines ELSE 0
       IN  printed' = Places(from, reply.total)
    /\ offset' = reply.total /\ reply' = NoReply
    /\ UNCHANGED <<logger, disk, issued, long, fails>>

(* Mutant of PrintMore: the offset counts what has been printed. *)
PrintMoreCounting ==
    /\ reader = "gotMore" /\ reader' = "follow"
    /\ printed' = printed \o Places(reply.start, reply.total)
    /\ offset' = Len(printed') /\ reply' = NoReply
    /\ UNCHANGED <<logger, disk, issued, long, fails>>

(* Mutant of PrintMore: the loop leaves its round when nothing is new. *)
PrintMoreWaiting ==
    /\ reader = "gotMore" /\ reply.start < reply.total /\ reader' = "follow"
    /\ printed' = printed \o Places(reply.start, reply.total)
    /\ offset' = reply.total /\ reply' = NoReply
    /\ UNCHANGED <<logger, disk, issued, long, fails>>

(* The offset becomes the total of the answer, even when it is smaller. *)
PrintMore ==
    /\ reader = "gotMore" /\ reader' = "follow"
    /\ printed' = printed \o Places(reply.start, reply.total)
    /\ offset' = reply.total /\ reply' = NoReply
    /\ UNCHANGED <<logger, disk, issued, long, fails>>

(* The user stops the reader, or its connection is lost: the first fetch    *)
(* then fails, the loop of runFollow polls a dead connection.               *)
ReaderEnds ==
    /\ reader \notin {"start", "ended"} /\ reader' = "ended" /\ reply' = NoReply
    /\ UNCHANGED <<logger, disk, issued, long, offset, printed, fails>>

-----------------------------------------------------------------------------
Reading == FetchLogs \/ onFetchLogs \/ PrintFirst \/ PrintMore
Syncing == Tick \/ StopLoop \/ CloseFile

Next ==
    \/ LogMain \/ LogOther \/ Banner \/ SetFullLogWriter
    \/ NewTail \/ TailPrint \/ TailClose \/ Ask \/ Answer \/ Attach \/ Detach
    \/ Close \/ OnLog \/ Syncing \/ Reading \/ ReadFails \/ ReaderEnds

Spec == Init /\ [][Next]_vars

(* The sync loop and the reader's requests run whatever the command does. *)
FairSpec == Spec /\ WF_vars(Syncing) /\ WF_vars(Reading)

-----------------------------------------------------------------------------
(* Properties *)

IsLive(row) == row[1] = "live"
IsLine(entry) == entry[1] = "line"

(* Erasing the live tail box never takes a log line, a prompt or a finished *)
(* box with it, and leaves no row of the box behind, whichever goroutine    *)
(* logs in between.                                                         *)
ScreenIntact ==
    LET above == Len(term.rows) - term.height IN
    /\ SubSeq(term.rows, 1, above) = term.kept
    /\ \A i \in DOMAIN term.rows : IsLive(term.rows[i]) <=> i > above

(* s holds the lines of these calls, each once and in the order of the calls. *)
Records(s, numbers) ==
    /\ {s[i][2] : i \in {j \in DOMAIN s : IsLine(s[j])}} = numbers
    /\ \A i, j \in DOMAIN s : i < j /\ IsLine(s[i]) /\ IsLine(s[j]) => s[i][2] < s[j][2]

(* The file and the buffer before it hold every line that was logged, once  *)
(* and in the order of the calls.  `mkenv logs -f` skips none of them: it   *)
(* goes on at the line after the last one printed or, after a failed        *)
(* reading, at an earlier one; while no reading has failed it prints        *)
(* nothing twice, however lines and answers interleave.                     *)
LogsExact ==
    /\ Records(file \o buffer, issued)
    /\ \A i \in DOMAIN printed : printed[i] \in DOMAIN file
    /\ \A i \in 2..Len(printed) :
            /\ printed[i] <= printed[i - 1] + 1
            /\ fails = 0 => printed[i] = printed[i - 1] + 1

(* When the sync loop ends, what was written so far is on disk, whoever     *)
(* wrote it and whichever syncs came before.                                *)
LastRoundSyncs == [][writer = "stopping" /\ writer' = "stopped" => synced' = Len(file)]_vars

(* A line does not stay unsynced: the loop comes round to it, and its last  *)
(* round, when the logger is closed, leaves none behind.                    *)
LinesSynced ==
    /\ []<>(synced = Len(file) \/ writer \in {"stopped", "closed"})
    /\ LastRoundSyncs

(* A reader that follows the log has shown all it can read once the log is  *)
(* quiet, if readings of the file fail only so many times, unless an answer *)
(* outgrew a control frame: then it waits for ever.                         *)
FollowerCatchesUp ==
    <>[][~ReadFails]_vars =>
        []<>(offset = Len(Readable) \/ reader \in {"start", "hung", "ended"})
=============================================================================

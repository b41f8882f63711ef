--------------------------- MODULE Startup_proofs ---------------------------
(***************************************************************************)
(* What a start of mkenv relies on, for any number of processes: the lock  *)
(* of the ports daemon, the extraction of the agent, the version check;    *)
(* the search of the language detectors and the version they settle on,    *)
(* for all files; the filter of the container's output, for all streams.   *)
(***************************************************************************)
EXTENDS VersionCheck, AgentDist, DaemonLock, Detect, AltScreen, Induction

-----------------------------------------------------------------------------
(* The lock of the ports daemon *)

LockSteps == {"off", "create", "write", "read", "stat", "remove", "running", "refused", "dead"}

LockType ==
    /\ lock \in Daemons \cup {NoFile}
    /\ named \subseteq Daemons
    /\ at \in [Daemons -> LockSteps]
    /\ saw \in [Daemons -> Daemons \cup {NoFile}]
    /\ contended \in BOOLEAN

(* A pid is in a file only once its daemon runs, and a daemon starts once;  *)
(* what a daemon stats is such a pid.                                       *)
NamedInv ==
    /\ \A d \in named : at[d] \in {"running", "dead"}
    /\ \A d \in Daemons : at[d] = "stat" => saw[d] \in named

(* Without contention, what the one daemon inside is about to do does not   *)
(* touch the file of one that runs.                                         *)
AloneInv ==
    ~contended =>
        /\ \A d, e \in Daemons : Inside(d) /\ Inside(e) => d = e
        /\ \A d \in Daemons : at[d] = "running" => lock = d /\ d \in named
        /\ \A d \in Daemons : at[d] = "write" => lock = d
        /\ \A d \in Daemons : at[d] = "stat" => saw[d] = lock
        /\ \A d, e \in Daemons : at[d] = "remove" => at[e] # "running"

LockInv == LockType /\ NamedInv /\ AloneInv

LEMMA LockInitInv == LockInit => LockInv
<1> SUFFICES ASSUME LockInit PROVE LockInv  OBVIOUS
<1>1. LockType
  <2>1. contended \in BOOLEAN
    BY Zenon DEF LockInit
  <2>2. QED
    BY <2>1 DEF LockInit, LockType, LockSteps
<1>2. NamedInv /\ AloneInv
  BY DEF LockInit, NamedInv, AloneInv, Inside
<1>3. QED
  BY <1>1, <1>2 DEF LockInv

(* A move of d sets its step, and sees whether another is inside. *)
LEMMA MovesStep ==
    ASSUME LockType, NEW d \in Daemons, NEW next \in LockSteps, Moves(d, next)
    PROVE  /\ at' = [at EXCEPT ![d] = next] /\ at'[d] = next
           /\ \A e \in Daemons : e # d => at'[e] = at[e]
           /\ contended' \in BOOLEAN
           /\ ~contended' => ~contended
           /\ ~contended' => \A e \in Daemons : Inside(d)' /\ Inside(e) => e = d
<1>1. contended' = (contended \/ \E e \in Daemons \ {d} : Inside(e) /\ Inside(d)')
  BY DEF Moves
<1>2. at' = [at EXCEPT ![d] = next]
  BY DEF Moves
<1>3. at'[d] = next /\ \A e \in Daemons : e # d => at'[e] = at[e]
  BY <1>2 DEF LockType
<1>4. contended' \in BOOLEAN
  BY <1>1, Zenon DEF LockType
<1>5. ~contended' => ~contended
  BY <1>1, Zenon
<1>6. ~contended' => \A e \in Daemons : Inside(d)' /\ Inside(e) => e = d
  BY <1>1, Zenon
<1>7. QED
  BY <1>2, <1>3, <1>4, <1>5, <1>6

LEMMA LockStep == LockInv /\ [LockNext]_lockVars => LockInv'
<1> SUFFICES ASSUME LockInv, [LockNext]_lockVars PROVE LockInv'  OBVIOUS
<1> USE NoFileAssumption DEF LockInv, LockType, LockSteps, NamedInv, AloneInv, Inside
<1>1. ASSUME NEW d \in Daemons, Start(d) PROVE LockInv'
  BY <1>1, MovesStep DEF Start, Alive
<1>2. ASSUME NEW d \in Daemons, Create(d) PROVE LockInv'
  BY <1>2, MovesStep DEF Create, Alive
<1>3. ASSUME NEW d \in Daemons, WritePid(d) PROVE LockInv'
  BY <1>3, MovesStep DEF WritePid, Alive
<1>4. ASSUME NEW d \in Daemons, ReadPid(d) PROVE LockInv'
  BY <1>4, MovesStep DEF ReadPid, Alive
<1>5. ASSUME NEW d \in Daemons, StatProc(d) PROVE LockInv'
  BY <1>5, MovesStep DEF StatProc, Alive
<1>6. ASSUME NEW d \in Daemons, RemoveStale(d) PROVE LockInv'
  BY <1>6, MovesStep DEF RemoveStale, Alive
<1>7. ASSUME NEW d \in Daemons, Die(d) PROVE LockInv'
  BY <1>7, MovesStep DEF Die, Alive
<1>8. CASE UNCHANGED lockVars
  BY <1>8 DEF lockVars
<1>9. QED
  BY <1>1, <1>2, <1>3, <1>4, <1>5, <1>6, <1>7, <1>8 DEF LockNext, Proceed

(* What the pid file says of the daemons is inductive, for any number of    *)
(* starts and deaths.                                                       *)
THEOREM LockInductive == LockSpec => []LockInv
  BY LockInitInv, LockStep, PTL DEF LockSpec

(* At most one daemon runs, and the pid file is its own, as long as no two  *)
(* were inside ensureSingleInstance at once, for any number of daemons and  *)
(* wherever others died.                                                    *)
THEOREM OneDaemonRuns == LockSpec => []LockExclusive
<1>1. LockInv => LockExclusive
  <2> SUFFICES ASSUME LockInv, ~contended PROVE LockExclusive
    BY DEF LockExclusive
  <2> DEFINE R == {d \in Daemons : at[d] = "running"}
  <2>1. \A d \in Daemons : at[d] = "running" => lock = d /\ d \in named
    BY DEF LockInv, AloneInv
  <2>2. R = {} \/ R = {lock}
    BY <2>1
  <2>3. Cardinality(R) = 0 \/ Cardinality(R) = 1
    BY <2>2, FS_EmptySet, FS_Singleton
  <2>4. Cardinality(R) <= 1
    BY <2>3
  <2>5. QED
    BY <2>1, <2>4 DEF LockExclusive
<1>2. QED
  BY LockInductive, <1>1, PTL

(* A daemon gives way only to one that runs, contended or not: a pid is in  *)
(* the file only while or after its daemon ran.                             *)
THEOREM GivesWayToARunner == LockSpec => RefusedForAReason
<1> DEFINE Reason == \A d \in Daemons : at[d] # "refused" /\ at'[d] = "refused"
                        => \E e \in Daemons \ {d} : at[e] = "running"
<1>1. LockInv /\ [LockNext]_lockVars => [Reason]_lockVars
  <2> SUFFICES ASSUME LockInv, LockNext PROVE Reason
    OBVIOUS
  <2> SUFFICES ASSUME NEW d \in Daemons, at[d] # "refused", at'[d] = "refused"
               PROVE  \E e \in Daemons \ {d} : at[e] = "running"
    OBVIOUS
  <2>1. PICK m \in Daemons : Start(m) \/ Proceed(m) \/ Die(m)
    BY DEF LockNext
  <2>2. m = d /\ StatProc(m)
    BY <2>1 DEF LockInv, LockType, Start, Proceed, Create, WritePid, ReadPid, StatProc, RemoveStale,
                Die, Moves
  <2>3. at[d] = "stat" /\ Alive(saw[d])
    BY <2>2 DEF LockInv, LockType, StatProc, Moves
  <2>4. saw[d] \in Daemons /\ at[saw[d]] \in {"running", "dead"}
    BY <2>3 DEF LockInv, LockType, NamedInv
  <2>5. at[saw[d]] = "running" /\ saw[d] # d
    BY <2>3, <2>4 DEF Alive, Inside
  <2>6. QED
    BY <2>4, <2>5
<1>2. QED
  BY LockInductive, <1>1, PTL DEF LockSpec, RefusedForAReason

-----------------------------------------------------------------------------
(* The extraction of the agent *)

ExtractSteps == {"check", "open", "write", "rename", "sidecar", "started", "failed"}

AgentType ==
    /\ tmp \in Procs \cup {None} /\ dst \in Procs \cup {None}
    /\ sidecar \in Embedded \cup {None}
    /\ carries \in [Procs -> Embedded]
    /\ step \in [Procs -> ExtractSteps]
    /\ open \in [Procs -> Procs \cup {None}]
    /\ written \in [Procs -> 0..Blocks]
    /\ overlap \in BOOLEAN

(* An inode bears the name of a process that has opened the temporary file, *)
(* and no inode has both names.                                             *)
InodeInv ==
    /\ \A p \in Procs : step[p] \in {"check", "open"} =>
        tmp # p /\ dst # p /\ written[p] = 0
    /\ tmp # None => tmp # dst
    /\ \A p \in Procs : step[p] = "write" => open[p] # None
    /\ \A p \in Procs : step[p] = "rename" => written[p] = Blocks
    /\ sidecar # None => dst # None
    /\ \A p \in Procs : step[p] \in {"sidecar", "started"} => dst # None

(* Without overlap the one process that extracts writes the file under the  *)
(* temporary name, and that file holds what it has written.                 *)
WriterInv ==
    ~overlap =>
        /\ \A p, q \in Procs : Extracting(p) /\ Extracting(q) => p = q
        /\ \A p \in Procs : step[p] \in {"write", "rename"} =>
            /\ tmp # None /\ open[p] = tmp
            /\ content[tmp] = [i \in 1..written[p] |-> carries[p]]
        /\ dst # None => Whole(dst)

Block == Embedded \cup {Hole}
ContentType == content \in [Procs -> Seq(Block)]

AgentInv == AgentType /\ ContentType /\ InodeInv /\ WriterInv

LEMMA AgentInitInv == AgentInit => AgentInv
<1> SUFFICES ASSUME AgentInit PROVE AgentInv  OBVIOUS
<1> USE BlocksAssumption, AgentAssumption DEF AgentInit
<1>1. AgentType
  <2>1. overlap \in BOOLEAN
    BY Zenon
  <2>2. QED
    BY <2>1 DEF AgentType, ExtractSteps
<1>2. ContentType
  BY DEF ContentType
<1>3. InodeInv /\ WriterInv
  BY DEF InodeInv, WriterInv, Extracting
<1>4. QED
  BY <1>1, <1>2, <1>3 DEF AgentInv

(* A step of p sets its place, and sees whether two extract. *)
LEMMA GoOnStep ==
    ASSUME AgentType, NEW p \in Procs, NEW next \in ExtractSteps, GoOn(p, next)
    PROVE  /\ step' \in [Procs -> ExtractSteps] /\ step'[p] = next
           /\ \A q \in Procs : q # p => step'[q] = step[q]
           /\ overlap' \in BOOLEAN
           /\ ~overlap' => ~overlap
           /\ ~overlap' => \A q, r \in Procs : Extracting(q)' /\ Extracting(r)' => q = r
<1>1. overlap' = (overlap \/ \E q, r \in Procs : q # r /\ Extracting(q)' /\ Extracting(r)')
  BY DEF GoOn
<1>2. step' = [step EXCEPT ![p] = next]
  BY DEF GoOn
<1>3. /\ step' \in [Procs -> ExtractSteps] /\ step'[p] = next
      /\ \A q \in Procs : q # p => step'[q] = step[q]
  BY <1>2 DEF AgentType
<1>4. overlap' \in BOOLEAN
  BY <1>1, Zenon DEF AgentType
<1>5. ~overlap' => ~overlap
  BY <1>1, Zenon
<1>6. ~overlap' => \A q, r \in Procs : Extracting(q)' /\ Extracting(r)' => q = r
  BY <1>1, Zenon
<1>7. QED
  BY <1>3, <1>4, <1>5, <1>6

(* A write within a file or beyond its end leaves blocks. *)
LEMMA BlocksSeq ==
    ASSUME NEW S, NEW old \in Seq(S), NEW e \in S, NEW hole \in S, NEW k \in Nat \ {0}
    PROVE  [i \in 1..(IF Len(old) > k THEN Len(old) ELSE k)
                |-> IF i = k THEN e ELSE IF i <= Len(old) THEN old[i] ELSE hole] \in Seq(S)
  OBVIOUS

(* A write at the end of a file of equal blocks gives one more of them. *)
LEMMA BlocksAppend ==
    ASSUME NEW n \in Nat, NEW e, NEW hole, NEW old, old = [i \in 1..n |-> e]
    PROVE  [i \in 1..(IF Len(old) > n + 1 THEN Len(old) ELSE n + 1)
                |-> IF i = n + 1 THEN e ELSE IF i <= Len(old) THEN old[i] ELSE hole]
           = [i \in 1..n + 1 |-> e]
<1>1. Len(old) = n
  OBVIOUS
<1>2. (IF Len(old) > n + 1 THEN Len(old) ELSE n + 1) = n + 1
  BY <1>1
<1>3. \A i \in 1..n + 1 : (IF i = n + 1 THEN e ELSE IF i <= Len(old) THEN old[i] ELSE hole) = e
  BY <1>1
<1>4. QED
  BY <1>2, <1>3

LEMMA AgentStep == AgentInv /\ [AgentNext]_agentVars => AgentInv'
<1> SUFFICES ASSUME AgentInv, [AgentNext]_agentVars PROVE AgentInv'  OBVIOUS
<1> USE BlocksAssumption, AgentAssumption DEF AgentInv
<1>1. ASSUME NEW p \in Procs, HashMatches(p) PROVE AgentInv'
  <2>1. UNCHANGED <<tmp, dst, sidecar, content, carries, open, written>>
    BY <1>1 DEF HashMatches
  <2>2. /\ step' \in [Procs -> ExtractSteps] /\ step'[p] \in {"started", "open"}
        /\ \A q \in Procs : q # p => step'[q] = step[q]
        /\ overlap' \in BOOLEAN /\ (~overlap' => ~overlap)
        /\ ~overlap' => \A q, r \in Procs : Extracting(q)' /\ Extracting(r)' => q = r
    <3>1. \E next \in {"started", "open"} : GoOn(p, next)
      BY <1>1 DEF HashMatches
    <3>2. QED
      BY <3>1, GoOnStep DEF ExtractSteps
  <2>3. step[p] = "check" /\ (step'[p] = "started" => sidecar = carries[p])
    <3>1. step' = [step EXCEPT ![p] = IF sidecar = carries[p] THEN "started" ELSE "open"]
      BY <1>1 DEF HashMatches, GoOn
    <3>2. QED
      BY <1>1, <3>1 DEF HashMatches, AgentType
  <2>4. AgentType' /\ ContentType'
    BY <2>1, <2>2, <2>3 DEF AgentType, ContentType
  <2>5. InodeInv'
    BY <2>1, <2>2, <2>3 DEF AgentType, ExtractSteps, InodeInv
  <2>6. Whole(dst)' = Whole(dst)
    BY <2>1 DEF Whole
  <2>7. WriterInv'
    <3> HIDE DEF Whole
    <3> SUFFICES ASSUME ~overlap' PROVE WriterInv'
      BY DEF WriterInv
    <3>1. \A q \in Procs : step'[q] \in {"write", "rename"} => tmp' = tmp /\ step[q] \in {"write", "rename"}
      BY <2>1, <2>2, <2>3 DEF AgentType, WriterInv, Extracting
    <3>2. QED
      BY <2>1, <2>2, <2>6, <3>1 DEF WriterInv
  <2>8. QED
    BY <2>4, <2>5, <2>7
<1>2. ASSUME NEW p \in Procs, OpenTmp(p) PROVE AgentInv'
  <2> DEFINE inode == IF tmp = None THEN p ELSE tmp
  <2>1. /\ step[p] = "open" /\ GoOn(p, "write")
        /\ inode \in Procs /\ tmp' = inode /\ open' = [open EXCEPT ![p] = inode]
        /\ content' = [content EXCEPT ![inode] = <<>>]
        /\ UNCHANGED <<dst, sidecar, carries, written>>
    BY <1>2 DEF OpenTmp, AgentType
  <2> HIDE DEF inode
  <2>2. /\ step' \in [Procs -> ExtractSteps] /\ step'[p] = "write"
        /\ \A q \in Procs : q # p => step'[q] = step[q]
        /\ overlap' \in BOOLEAN /\ (~overlap' => ~overlap)
        /\ ~overlap' => \A q, r \in Procs : Extracting(q)' /\ Extracting(r)' => q = r
    <3>1. GoOn(p, "write") /\ "write" \in ExtractSteps
      BY <1>2 DEF OpenTmp, ExtractSteps
    <3>2. QED
      BY <3>1, GoOnStep
  <2>3. inode # dst /\ written[p] = 0
    BY <2>1 DEF inode, AgentType, InodeInv
  <2>4. InodeInv'
    <3>1. \A q \in Procs : step[q] \in {"check", "open"} => q = p \/ q # inode
      BY DEF inode, InodeInv
    <3>2. QED
      BY <2>1, <2>2, <2>3, <3>1 DEF AgentType, InodeInv
  <2>5. /\ content'[inode] = <<>> /\ (dst # None => content'[dst] = content[dst])
        /\ ContentType'
    <3>1. <<>> \in Seq(Block)
      OBVIOUS
    <3>2. QED
      BY <2>1, <2>3, <3>1 DEF AgentType, ContentType
  <2>6. WriterInv'
    <3>1. ~overlap' => \A q \in Procs : step'[q] \in {"write", "rename"} => q = p
      BY <2>2 DEF Extracting
    <3>2. content'[tmp'] = [i \in 1..written'[p] |-> carries'[p]]
      BY <2>1, <2>3, <2>5 DEF AgentType
    <3>3. tmp' # None /\ open'[p] = tmp'
      BY <2>1 DEF AgentType
    <3>4. ~overlap' /\ dst' # None => Whole(dst)'
      BY <2>1, <2>2, <2>5 DEF WriterInv, Whole
    <3>5. QED
      BY <2>2, <3>1, <3>2, <3>3, <3>4 DEF WriterInv
  <2>7. AgentType'
    BY <2>1, <2>2 DEF AgentType
  <2>8. QED
    BY <2>4, <2>5, <2>6, <2>7
<1>3. ASSUME NEW p \in Procs, WriteBlock(p) PROVE AgentInv'
  <2> DEFINE old == content[open[p]]
             k == written[p] + 1
             size == IF Len(old) > k THEN Len(old) ELSE k
             new == [i \in 1..size |-> IF i = k THEN carries[p] ELSE IF i <= Len(old) THEN old[i] ELSE Hole]
  <2>1. /\ step[p] = "write" /\ written[p] < Blocks /\ GoOn(p, "write")
        /\ content' = [content EXCEPT ![open[p]] = new]
        /\ written' = [written EXCEPT ![p] = @ + 1]
        /\ UNCHANGED <<tmp, dst, sidecar, carries, open>>
    BY <1>3 DEF WriteBlock
  <2>2. /\ step' \in [Procs -> ExtractSteps] /\ step'[p] = "write"
        /\ \A q \in Procs : q # p => step'[q] = step[q]
        /\ overlap' \in BOOLEAN /\ (~overlap' => ~overlap)
        /\ ~overlap' => \A q, r \in Procs : Extracting(q)' /\ Extracting(r)' => q = r
    <3>1. GoOn(p, "write") /\ "write" \in ExtractSteps
      BY <1>3 DEF WriteBlock, ExtractSteps
    <3>2. QED
      BY <3>1, GoOnStep
  <2>3. open[p] \in Procs
    BY <2>1 DEF AgentType, InodeInv
  <2>4. new \in Seq(Block)
    <3>1. old \in Seq(Block) /\ carries[p] \in Block /\ k \in Nat \ {0}
      BY <2>3 DEF AgentType, ContentType, Block
    <3>2. Hole \in Block
      BY DEF Block
    <3> HIDE DEF old, k
    <3>3. QED
      BY <3>1, <3>2, BlocksSeq DEF new, size
  <2> HIDE DEF new
  <2>5. AgentType' /\ ContentType'
    <3>1. ContentType'
      BY <2>1, <2>4, <2>3 DEF ContentType
    <3>2. written' \in [Procs -> 0..Blocks]
      BY <2>1 DEF AgentType
    <3>3. QED
      BY <2>1, <2>2, <3>1, <3>2 DEF AgentType
  <2>6. InodeInv'
    BY <2>1, <2>2 DEF AgentType, InodeInv
  <2>7. WriterInv'
    <3> SUFFICES ASSUME ~overlap' PROVE WriterInv'
      BY DEF WriterInv
    <3>1. ~overlap /\ \A q, r \in Procs : Extracting(q)' /\ Extracting(r)' => q = r
      BY <2>2
    <3>2. tmp # None /\ open[p] = tmp /\ old = [i \in 1..written[p] |-> carries[p]]
      BY <2>1, <3>1 DEF WriterInv
    <3>3. written[p] \in Nat
      BY DEF AgentType
    <3>4. new = [i \in 1..written[p] + 1 |-> carries[p]]
      <4> HIDE DEF old
      <4>1. QED
        BY <3>2, <3>3, BlocksAppend DEF new, size, k
    <3>5. content'[tmp'] = [i \in 1..written'[p] |-> carries'[p]]
      BY <2>1, <2>3, <3>2, <3>3, <3>4 DEF AgentType, ContentType
    <3>6. \A q \in Procs : step'[q] \in {"write", "rename"} => q = p
      BY <2>2, <3>1 DEF Extracting
    <3>7. dst' # None => Whole(dst)'
      <4>1. dst # None => content'[dst] = content[dst]
        BY <2>1, <2>3, <3>2 DEF AgentType, ContentType, InodeInv
      <4>2. QED
        BY <2>1, <3>1, <4>1 DEF WriterInv, Whole
    <3>8. QED
      <4>1. tmp' # None /\ open'[p] = tmp'
        BY <2>1, <3>2
      <4>2. \A q \in Procs : step'[q] \in {"write", "rename"} =>
                /\ tmp' # None /\ open'[q] = tmp'
                /\ content'[tmp'] = [i \in 1..written'[q] |-> carries'[q]]
        BY <3>5, <3>6, <4>1
      <4>3. QED
        BY <3>1, <3>7, <4>2 DEF WriterInv
  <2>8. QED
    BY <2>5, <2>6, <2>7
<1>4. ASSUME NEW p \in Procs, WriteFails(p) PROVE AgentInv'
  <2>1. UNCHANGED <<dst, sidecar, content, carries, open, written>>
    BY <1>4 DEF WriteFails
  <2>2. /\ step' \in [Procs -> ExtractSteps] /\ step'[p] = "failed"
        /\ \A q \in Procs : q # p => step'[q] = step[q]
        /\ overlap' \in BOOLEAN /\ (~overlap' => ~overlap)
        /\ ~overlap' => \A q, r \in Procs : Extracting(q)' /\ Extracting(r)' => q = r
    <3>1. GoOn(p, "failed") /\ "failed" \in ExtractSteps
      BY <1>4 DEF WriteFails, ExtractSteps
    <3>2. QED
      BY <3>1, GoOnStep
  <2>3. step[p] = "write" /\ tmp' = None
    BY <1>4 DEF WriteFails
  <2>4. AgentType' /\ ContentType'
    BY <2>1, <2>2, <2>3 DEF AgentType, ContentType
  <2>5. InodeInv'
    BY <2>1, <2>2, <2>3 DEF AgentType, ExtractSteps, InodeInv
  <2>6. Whole(dst)' = Whole(dst)
    BY <2>1 DEF Whole
  <2>7. WriterInv'
    <3> HIDE DEF Whole
    <3> SUFFICES ASSUME ~overlap' PROVE WriterInv'
      BY DEF WriterInv
    <3>1. \A q \in Procs : step'[q] \in {"write", "rename"} => tmp' = tmp /\ step[q] \in {"write", "rename"}
      BY <2>1, <2>2, <2>3 DEF AgentType, WriterInv, Extracting
    <3>2. QED
      BY <2>1, <2>2, <2>6, <3>1 DEF WriterInv
  <2>8. QED
    BY <2>4, <2>5, <2>7
<1>5. ASSUME NEW p \in Procs, CloseTmp(p) PROVE AgentInv'
  <2>1. UNCHANGED <<tmp, dst, sidecar, content, carries, open, written>>
    BY <1>5 DEF CloseTmp
  <2>2. /\ step' \in [Procs -> ExtractSteps] /\ step'[p] = "rename"
        /\ \A q \in Procs : q # p => step'[q] = step[q]
        /\ overlap' \in BOOLEAN /\ (~overlap' => ~overlap)
        /\ ~overlap' => \A q, r \in Procs : Extracting(q)' /\ Extracting(r)' => q = r
    <3>1. GoOn(p, "rename") /\ "rename" \in ExtractSteps
      BY <1>5 DEF CloseTmp, ExtractSteps
    <3>2. QED
      BY <3>1, GoOnStep
  <2>3. step[p] = "write" /\ written[p] = Blocks
    BY <1>5 DEF CloseTmp
  <2>4. AgentType' /\ ContentType'
    BY <2>1, <2>2, <2>3 DEF AgentType, ContentType
  <2>5. InodeInv'
    BY <2>1, <2>2, <2>3 DEF AgentType, ExtractSteps, InodeInv
  <2>6. Whole(dst)' = Whole(dst)
    BY <2>1 DEF Whole
  <2>7. WriterInv'
    <3> HIDE DEF Whole
    <3> SUFFICES ASSUME ~overlap' PROVE WriterInv'
      BY DEF WriterInv
    <3>1. \A q \in Procs : step'[q] \in {"write", "rename"} => tmp' = tmp /\ step[q] \in {"write", "rename"}
      BY <2>1, <2>2, <2>3 DEF AgentType, WriterInv, Extracting
    <3>2. QED
      BY <2>1, <2>2, <2>6, <3>1 DEF WriterInv
  <2>8. QED
    BY <2>4, <2>5, <2>7
<1>6. ASSUME NEW p \in Procs, Rename(p) PROVE AgentInv'
  <2>1. /\ step[p] = "rename" /\ tmp' = None
        /\ \/ tmp # None /\ dst' = tmp /\ GoOn(p, "sidecar")
           \/ dst' = dst /\ GoOn(p, "failed")
        /\ UNCHANGED <<sidecar, content, carries, open, written>>
    BY <1>6 DEF Rename
  <2>2. /\ step' \in [Procs -> ExtractSteps] /\ step'[p] \in {"sidecar", "failed"}
        /\ \A q \in Procs : q # p => step'[q] = step[q]
        /\ overlap' \in BOOLEAN /\ (~overlap' => ~overlap)
        /\ ~overlap' => \A q, r \in Procs : Extracting(q)' /\ Extracting(r)' => q = r
    <3>1. \E next \in {"sidecar", "failed"} : GoOn(p, next)
      BY <1>6 DEF Rename
    <3>2. QED
      BY <3>1, GoOnStep DEF ExtractSteps
  <2>3. (dst' = tmp /\ tmp # None) \/ (dst' = dst /\ step'[p] = "failed")
    <3>1. dst' = dst => step'[p] = "failed" \/ (dst' = tmp /\ tmp # None)
      BY <2>1 DEF GoOn, AgentType
    <3>2. QED
      BY <2>1, <3>1
  <2>4. AgentType' /\ ContentType'
    BY <2>1, <2>2, <2>3 DEF AgentType, ContentType
  <2>5. InodeInv'
    BY <2>1, <2>2, <2>3 DEF AgentType, InodeInv
  <2>6. WriterInv'
    <3> SUFFICES ASSUME ~overlap' PROVE WriterInv'
      BY DEF WriterInv
    <3>1. ~overlap /\ \A q, r \in Procs : Extracting(q)' /\ Extracting(r)' => q = r
      BY <2>2
    <3>2. \A q \in Procs : step'[q] \notin {"write", "rename"}
      BY <2>1, <2>2, <3>1 DEF WriterInv, Extracting
    <3>3. tmp # None /\ content[tmp] = [i \in 1..Blocks |-> carries[p]]
      BY <2>1, <3>1 DEF WriterInv, InodeInv
    <3>4. carries[p] \in Embedded
      BY DEF AgentType
    <3>5. Whole(tmp)
      BY <3>3, <3>4 DEF Whole
    <3>6. dst' # None => Whole(dst)'
      BY <2>1, <2>3, <3>1, <3>5 DEF WriterInv, Whole
    <3>7. QED
      BY <3>1, <3>2, <3>6 DEF WriterInv
  <2>7. QED
    BY <2>5, <2>6, <2>4
<1>7. ASSUME NEW p \in Procs, WriteSidecar(p) PROVE AgentInv'
  <2>1. UNCHANGED <<tmp, dst, content, carries, open, written>>
    BY <1>7 DEF WriteSidecar
  <2>2. /\ step' \in [Procs -> ExtractSteps] /\ step'[p] \in {"started", "failed"}
        /\ \A q \in Procs : q # p => step'[q] = step[q]
        /\ overlap' \in BOOLEAN /\ (~overlap' => ~overlap)
        /\ ~overlap' => \A q, r \in Procs : Extracting(q)' /\ Extracting(r)' => q = r
    <3>1. \E next \in {"started", "failed"} : GoOn(p, next)
      BY <1>7 DEF WriteSidecar
    <3>2. QED
      BY <3>1, GoOnStep DEF ExtractSteps
  <2>3. step[p] = "sidecar" /\ sidecar' \in {sidecar, carries[p], None}
    <3>1. sidecar' = carries[p] \/ sidecar' \in {sidecar, None}
      BY <1>7, Zenon DEF WriteSidecar
    <3>2. QED
      BY <1>7, <3>1 DEF WriteSidecar
  <2>4. AgentType' /\ ContentType'
    BY <2>1, <2>2, <2>3 DEF AgentType, ContentType
  <2>5. InodeInv'
    BY <2>1, <2>2, <2>3 DEF AgentType, ExtractSteps, InodeInv
  <2>6. Whole(dst)' = Whole(dst)
    BY <2>1 DEF Whole
  <2>7. WriterInv'
    <3> HIDE DEF Whole
    <3> SUFFICES ASSUME ~overlap' PROVE WriterInv'
      BY DEF WriterInv
    <3>1. \A q \in Procs : step'[q] \in {"write", "rename"} => tmp' = tmp /\ step[q] \in {"write", "rename"}
      BY <2>1, <2>2, <2>3 DEF AgentType, WriterInv, Extracting
    <3>2. QED
      BY <2>1, <2>2, <2>6, <3>1 DEF WriterInv
  <2>8. QED
    BY <2>4, <2>5, <2>7
<1>8. ASSUME NEW p \in Procs, Kill(p) PROVE AgentInv'
  <2>1. UNCHANGED <<tmp, dst, sidecar, content, carries, open, written>>
    BY <1>8 DEF Kill
  <2>2. /\ step' \in [Procs -> ExtractSteps] /\ step'[p] = "failed"
        /\ \A q \in Procs : q # p => step'[q] = step[q]
        /\ overlap' \in BOOLEAN /\ (~overlap' => ~overlap)
        /\ ~overlap' => \A q, r \in Procs : Extracting(q)' /\ Extracting(r)' => q = r
    <3>1. GoOn(p, "failed") /\ "failed" \in ExtractSteps
      BY <1>8 DEF Kill, ExtractSteps
    <3>2. QED
      BY <3>1, GoOnStep
  <2>3. step[p] \notin {"started", "failed"}
    BY <1>8 DEF Kill
  <2>4. AgentType' /\ ContentType'
    BY <2>1, <2>2, <2>3 DEF AgentType, ContentType
  <2>5. InodeInv'
    BY <2>1, <2>2, <2>3 DEF AgentType, ExtractSteps, InodeInv
  <2>6. Whole(dst)' = Whole(dst)
    BY <2>1 DEF Whole
  <2>7. WriterInv'
    <3> HIDE DEF Whole
    <3> SUFFICES ASSUME ~overlap' PROVE WriterInv'
      BY DEF WriterInv
    <3>1. \A q \in Procs : step'[q] \in {"write", "rename"} => tmp' = tmp /\ step[q] \in {"write", "rename"}
      BY <2>1, <2>2, <2>3 DEF AgentType, WriterInv, Extracting
    <3>2. QED
      BY <2>1, <2>2, <2>6, <3>1 DEF WriterInv
  <2>8. QED
    BY <2>4, <2>5, <2>7
<1>9. CASE UNCHANGED agentVars
  <2>1. AgentType' /\ ContentType' /\ InodeInv'
    BY <1>9 DEF agentVars, AgentType, ContentType, InodeInv
  <2>2. WriterInv'
    BY <1>9 DEF agentVars, WriterInv, Extracting, Whole
  <2>3. QED
    BY <2>1, <2>2
<1>10. QED
  BY <1>1, <1>2, <1>3, <1>4, <1>5, <1>6, <1>7, <1>8, <1>9 DEF AgentNext

(* Who writes which inode, and what is at the names, is inductive. *)
THEOREM AgentInductive == AgentSpec => []AgentInv
  BY AgentInitInv, AgentStep, PTL DEF AgentSpec

(* The agent at its place is complete and a started process has one, for    *)
(* any number of processes, versions and writes, wherever processes were    *)
(* killed, as long as no two extracted at once.                             *)
THEOREM AgentIsWhole == AgentSpec => []AgentWhole
<1>1. AgentInv => AgentWhole
  BY DEF AgentInv, InodeInv, WriterInv, AgentWhole
<1>2. QED
  BY AgentInductive, <1>1, PTL

-----------------------------------------------------------------------------
(* The version check *)

Row == [v : Nat, used : Nat, asked : Nat]

CheckType ==
    /\ now \in Nat
    /\ latest \in [Channels -> Nat]
    /\ cache \in [Channels -> Row]
    /\ own \in [Users -> [build : Builds, v : Nat]]
    /\ cmd \in [Users -> {"off", "running", "ended"}]
    /\ check \in [Users -> {"off", "load", "fetch", "save", "sent"}]
    /\ known \in [Users -> Nat]
    /\ banner \in [Users -> Nat]

(* What is cached or at hand was published on the channel of the build, and *)
(* a build without a version asks for nothing.                              *)
PublishedInv ==
    /\ \A c \in Channels : cache[c].v <= latest[c]
    /\ \A p \in Users : known[p] <= latest[Channel(p)]
    /\ \A p \in Users : own[p].build \in {"local", "compiled"} =>
        known[p] = 0 /\ check[p] \in {"off", "load", "sent"}

CheckInv == CheckType /\ PublishedInv /\ BannerIsNews

LEMMA CheckInitInv == CheckInit => CheckInv
<1> SUFFICES ASSUME CheckInit PROVE CheckInv  OBVIOUS
<1>1. CheckType
  BY DEF CheckInit, CheckType, NoRow, Row, Channels
<1>2. PublishedInv /\ BannerIsNews
  BY DEF CheckInit, PublishedInv, BannerIsNews, NoRow, Channels, Channel
<1>3. QED
  BY <1>1, <1>2 DEF CheckInv

LEMMA CheckStep == CheckInv /\ [CheckNext]_checkVars => CheckInv'
<1> SUFFICES ASSUME CheckInv, [CheckNext]_checkVars PROVE CheckInv'  OBVIOUS
<1> USE TTLAssumption DEF CheckInv, CheckType, PublishedInv, BannerIsNews, Row, Channels, Channel
<1>1. ASSUME NEW p \in Users, Execute(p) PROVE CheckInv'
  BY <1>1, SMTT(60) DEF Execute
<1>2. ASSUME NEW p \in Users, Load(p) PROVE CheckInv'
  <2> DEFINE c == Channel(p)
  <2>1. c \in Channels /\ UNCHANGED <<now, latest, own, cmd, banner>>
    BY <1>2 DEF Load
  <2>2. /\ cache' \in [Channels -> Row]
        /\ \A d \in Channels : cache'[d].v = cache[d].v
    <3>1. cache' = cache \/ cache' = [cache EXCEPT ![c].used = now]
      BY <1>2 DEF Load, loadCache
    <3>2. QED
      BY <2>1, <3>1
  <2>3. \E s \in {"fetch", "sent"}, v \in Nat :
            /\ check' = [check EXCEPT ![p] = s] /\ known' = [known EXCEPT ![p] = v]
            /\ v <= latest[c]
            /\ own[p].build \in {"local", "compiled"} => v = 0 /\ s = "sent"
    <3>1. CASE own[p].build \in {"local", "compiled"}
      <4>1. check' = [check EXCEPT ![p] = "sent"] /\ known' = [known EXCEPT ![p] = 0]
        BY <1>2, <3>1 DEF Load, Deliver
      <4>2. 0 <= latest[c]
        BY <2>1
      <4>3. QED
        BY <4>1, <4>2
    <3>2. CASE own[p].build \notin {"local", "compiled"}
      <4>1. cache[c].v \in Nat /\ cache[c].v <= latest[c] /\ known[p] \in Nat /\ known[p] <= latest[c]
        BY <2>1
      <4>2. known = [known EXCEPT ![p] = known[p]]
        OBVIOUS
      <4>3. \/ check' = [check EXCEPT ![p] = "sent"] /\ known' = [known EXCEPT ![p] = cache[c].v]
            \/ check' = [check EXCEPT ![p] = "fetch"] /\ known' = [known EXCEPT ![p] = cache[c].v]
            \/ check' = [check EXCEPT ![p] = "fetch"] /\ known' = known
        BY <1>2, <3>2 DEF Load, Deliver
      <4> HIDE DEF c
      <4>4. QED
        BY <3>2, <4>1, <4>2, <4>3
    <3>3. QED
      BY <3>1, <3>2
  <2>4. QED
    BY <2>1, <2>2, <2>3
<1>3. ASSUME NEW p \in Users, Fetch(p) PROVE CheckInv'
  <2>1. UNCHANGED <<now, latest, cache, own, cmd, age, banner>> /\ check[p] = "fetch"
    BY <1>3 DEF Fetch
  <2>2. \E s \in {"save", "sent"} : check' = [check EXCEPT ![p] = s]
    BY <1>3 DEF Fetch, Deliver
  <2>3. \E v \in {known[p], latest[Channel(p)]} : known' = [known EXCEPT ![p] = v]
    BY <1>3 DEF Fetch, Deliver
  <2>4. CheckType'
    BY <2>1, <2>2, <2>3
  <2>5. PublishedInv'
    BY <2>1, <2>2, <2>3
  <2>6. QED
    BY <2>1, <2>4, <2>5
<1>4. ASSUME NEW p \in Users, Save(p) PROVE CheckInv'
  BY <1>4 DEF Save, Deliver
<1>5. ASSUME NEW p \in Users, CommandEnds(p) PROVE CheckInv'
  BY <1>5 DEF CommandEnds
<1>6. ASSUME NEW p \in Users, PrintUpdateBanner(p) PROVE CheckInv'
  BY <1>6 DEF PrintUpdateBanner, UpdateAvailable
<1>7. ASSUME NEW c \in Channels, Publish(c) PROVE CheckInv'
  BY <1>7 DEF Publish
<1>8. CASE Tick
  BY <1>8 DEF Tick
<1>9. CASE UNCHANGED checkVars
  BY <1>9 DEF checkVars
<1>10. QED
  BY <1>1, <1>2, <1>3, <1>4, <1>5, <1>6, <1>7, <1>8, <1>9 DEF CheckNext

(* What store, request and banner hold are releases their channel has had:  *)
(* inductive.                                                               *)
THEOREM CheckInductive == CheckSpec => []CheckInv
  BY CheckInitInv, CheckStep, PTL DEF CheckSpec

(* A release is announced only to an older process, for any number of       *)
(* processes, releases and upgrades and any age of the cached answer.       *)
THEOREM OnlyNewsAnnounced == CheckSpec => []BannerIsNews
<1>1. CheckInv => BannerIsNews
  BY DEF CheckInv
<1>2. QED
  BY CheckInductive, <1>1, PTL

-----------------------------------------------------------------------------
(* The streaming search *)

(* The text up to p ends with the first b symbols of the pattern. *)
Ends(text, p, pat, b) == b \in 0..p /\ \A x \in 1..b : pat[x] = text[(p - b) + x]

(* b is the longest proper border of the first i symbols of the pattern. *)
Longest(pat, i, b) ==
    /\ b \in 0..(i - 1) /\ Ends(pat, i, pat, b)
    /\ \A d : Ends(pat, i, pat, d) /\ d < i => d <= b

(* The table is right up to n. *)
Bordered(pat, lps, n) == \A k \in 1..n : Longest(pat, k, lps[k])

IsFallback(g, pat, lps, n, c) ==
    g = [k \in 0..n |-> IF k > 0 /\ c # pat[k + 1] THEN g[lps[k]] ELSE k]

(* The loop ends: each round goes to a shorter border. *)
LEMMA LoopEnds ==
    ASSUME NEW pat, NEW lps, NEW n \in Nat, NEW c, \A k \in 1..n : lps[k] \in 0..(k - 1)
    PROVE  IsFallback(Fallback(pat, lps, n, c), pat, lps, n, c)
<1> DEFINE Step(g, k) == IF k > 0 /\ c # pat[k + 1] THEN g[lps[k]] ELSE k
           T == {m \in Nat : m <= n => \E g : g = [k \in 0..m |-> Step(g, k)]}
<1>1. 0 \in T
  <2>1. PICK g : g = [k \in 0..0 |-> 0]
    OBVIOUS
  <2>2. g = [k \in 0..0 |-> Step(g, k)]
    BY <2>1
  <2>3. QED
    BY <2>2
<1>2. ASSUME NEW m \in T PROVE m + 1 \in T
  <2> SUFFICES ASSUME m + 1 <= n PROVE \E g : g = [k \in 0..(m + 1) |-> Step(g, k)]
    OBVIOUS
  <2>1. PICK g : g = [k \in 0..m |-> Step(g, k)]
    OBVIOUS
  <2>2. PICK h : h = [k \in 0..(m + 1) |-> Step(g, k)]
    OBVIOUS
  <2>3. \A k \in 0..m : h[k] = g[k]
    <3>1. \A k \in 0..m : k \in 0..(m + 1)
      OBVIOUS
    <3>2. QED
      BY <2>1, <2>2, <3>1
  <2>4. \A k \in 0..(m + 1) : Step(h, k) = Step(g, k)
    <3>1. ASSUME NEW k \in 0..(m + 1), k > 0 PROVE lps[k] \in 0..m
      BY <3>1
    <3>2. QED
      BY <2>3, <3>1
  <2>5. h = [k \in 0..(m + 1) |-> Step(h, k)]
    BY <2>2, <2>4
  <2>6. QED
    BY <2>5
<1>3. T = Nat
  <2> HIDE DEF T
  <2>0. T \in SUBSET Nat
    BY DEF T
  <2>1. QED
    BY <1>1, <1>2, <2>0, Induct
<1>4. \E g : IsFallback(g, pat, lps, n, c)
  BY <1>3 DEF IsFallback
<1>5. Fallback(pat, lps, n, c) = CHOOSE g : IsFallback(g, pat, lps, n, c)
  BY DEF Fallback, IsFallback
<1>6. QED
  BY <1>4, <1>5

(* What a text ends with, ends with its own shorter borders and no others. *)
LEMMA BorderOfBorder ==
    ASSUME NEW text, NEW p \in Nat, NEW pat, NEW l, Ends(text, p, pat, l)
    PROVE  \A b \in 0..l : Ends(pat, l, pat, b) <=> Ends(text, p, pat, b)
<1>1. l \in Nat /\ l <= p /\ \A x \in 1..l : pat[x] = text[(p - l) + x]
  BY DEF Ends
<1>2. ASSUME NEW b \in 0..l, NEW x \in 1..b
      PROVE  pat[(l - b) + x] = text[(p - b) + x]
  <2>1. PICK y : y = (l - b) + x
    OBVIOUS
  <2>2. y \in 1..l /\ (p - l) + y = (p - b) + x
    BY <1>1, <1>2, <2>1
  <2>3. QED
    BY <1>1, <2>1, <2>2
<1>3. \A b \in 0..l : b \in 0..p
  BY <1>1
<1>4. QED
  BY <1>2, <1>3 DEF Ends

(* One symbol more. *)
LEMMA OneMore ==
    ASSUME NEW text, NEW q \in Nat, NEW p, p = q + 1, NEW pat, NEW b \in Nat, NEW d, d = b + 1
    PROVE  Ends(text, p, pat, d) <=> Ends(text, q, pat, b) /\ pat[d] = text[p]
<1>1. d \in 0..p <=> b \in 0..q
  OBVIOUS
<1>2. p - d = q - b /\ (q - b) + d = p
  OBVIOUS
<1>3. (\A x \in 1..d : pat[x] = text[(q - b) + x])
      <=> (\A x \in 1..b : pat[x] = text[(q - b) + x]) /\ pat[d] = text[p]
  <2>1. \A x : x \in 1..d <=> x \in 1..b \/ x = d
    OBVIOUS
  <2>2. QED
    BY <1>2, <2>1
<1>4. QED
  BY <1>1, <1>2, <1>3 DEF Ends

(* What the text ends with after one more symbol c. *)
Extends(text, p, pat, c) ==
    \A b \in Nat : \A d : d = b + 1 => (Ends(text, p, pat, d) <=> Ends(text, p - 1, pat, b) /\ pat[d] = c)

LEMMA OneMoreOf ==
    ASSUME NEW text, NEW p \in Nat \ {0}, NEW pat
    PROVE  Extends(text, p, pat, text[p])
<1>1. PICK q : q = p - 1
  OBVIOUS
<1>2. q \in Nat /\ p = q + 1
  BY <1>1
<1>3. ASSUME NEW b \in Nat, NEW d, d = b + 1
      PROVE  Ends(text, p, pat, d) <=> Ends(text, q, pat, b) /\ pat[d] = text[p]
  BY <1>2, <1>3, OneMore
<1>4. QED
  BY <1>1, <1>3 DEF Extends

(* The loop finds the longest border that the symbol continues. *)
LEMMA LoopFinds ==
    ASSUME NEW pat, NEW lps, NEW n \in Nat, NEW c, Bordered(pat, lps, n), NEW k \in 0..n
    PROVE  LET r == Fallback(pat, lps, n, c)[k] IN
           /\ r \in 0..k /\ Ends(pat, k, pat, r)
           /\ r = 0 \/ c = pat[r + 1]
           /\ \A b : Ends(pat, k, pat, b) /\ c = pat[b + 1] => b <= r
<1> DEFINE Found(i, r) ==
             /\ r \in 0..i /\ Ends(pat, i, pat, r)
             /\ r = 0 \/ c = pat[r + 1]
             /\ \A b : Ends(pat, i, pat, b) /\ c = pat[b + 1] => b <= r
           T == {m \in Nat : \A i \in 0..n : i <= m => Found(i, Fallback(pat, lps, n, c)[i])}
<1>1. PICK g : g = Fallback(pat, lps, n, c)
  OBVIOUS
<1>2. \A i \in 0..n : g[i] = IF i > 0 /\ c # pat[i + 1] THEN g[lps[i]] ELSE i
  <2>1. \A i \in 1..n : lps[i] \in 0..(i - 1)
    BY DEF Bordered, Longest
  <2>2. IsFallback(g, pat, lps, n, c)
    BY <1>1, <2>1, LoopEnds
  <2>3. QED
    BY <2>2 DEF IsFallback
<1>3. \A i \in 0..n : Ends(pat, i, pat, i) /\ \A b : Ends(pat, i, pat, b) => b \in Nat /\ b <= i
  BY DEF Ends
<1>4. ASSUME NEW i \in 0..n, i = 0 \/ c = pat[i + 1] PROVE Found(i, g[i])
  <2>1. g[i] = i
    BY <1>2, <1>4
  <2>2. QED
    BY <1>3, <1>4, <2>1
<1>5. 0 \in T
  BY <1>1, <1>4
<1>6. ASSUME NEW m \in T PROVE m + 1 \in T
  <2> SUFFICES ASSUME m + 1 \in 0..n PROVE Found(m + 1, g[m + 1])
    BY <1>1
  <2>1. PICK i : i = m + 1
    OBVIOUS
  <2>2. CASE c = pat[i + 1]
    BY <1>4, <2>1, <2>2
  <2>3. CASE c # pat[i + 1]
    <3>1. PICK l : l = lps[i]
      OBVIOUS
    <3>2. i \in 1..n /\ Longest(pat, i, l)
      BY <2>1, <3>1 DEF Bordered
    <3>3. /\ l \in 0..(i - 1) /\ Ends(pat, i, pat, l)
          /\ \A d : Ends(pat, i, pat, d) /\ d < i => d <= l
      BY <3>2 DEF Longest
    <3>4. l \in 0..n /\ l <= m
      BY <2>1, <3>2, <3>3
    <3>5. g[i] = g[l] /\ Found(l, g[l])
      BY <1>1, <1>2, <2>3, <3>1, <3>2, <3>4
    <3>6. PICK r : r = g[l]
      OBVIOUS
    <3>7. r \in 0..l /\ r \in 0..i /\ Ends(pat, l, pat, r) /\ (r = 0 \/ c = pat[r + 1])
      BY <3>2, <3>3, <3>5, <3>6
    <3>8. \A b \in 0..l : Ends(pat, l, pat, b) <=> Ends(pat, i, pat, b)
      BY <3>2, <3>3, BorderOfBorder
    <3>9. ASSUME NEW b, Ends(pat, i, pat, b), c = pat[b + 1] PROVE b <= r
      <4>1. b \in Nat /\ b < i
        BY <1>3, <2>3, <3>2, <3>9
      <4>2. b \in 0..l
        BY <3>3, <3>9, <4>1
      <4>3. QED
        BY <3>5, <3>6, <3>8, <3>9, <4>2
    <3>10. Found(i, r)
      BY <3>7, <3>8, <3>9
    <3>11. QED
      BY <2>1, <3>5, <3>6, <3>10
  <2>4. QED
    BY <2>2, <2>3
<1>7. T = Nat
  <2> HIDE DEF T
  <2>0. T \in SUBSET Nat
    BY DEF T
  <2>1. QED
    BY <1>5, <1>6, <2>0, Induct
<1>8. QED
  BY <1>7

(* The loop reads the table only below where it starts. *)
LEMMA SameLoop ==
    ASSUME NEW pat, NEW g, NEW h, NEW n \in Nat, NEW c, Bordered(pat, g, n),
           \A k \in 1..n : h[k] = g[k], NEW k \in 0..n
    PROVE  Fallback(pat, h, n, c)[k] = Fallback(pat, g, n, c)[k]
<1>1. PICK r, s : r = Fallback(pat, g, n, c)[k] /\ s = Fallback(pat, h, n, c)[k]
  OBVIOUS
<1>2. Bordered(pat, h, n)
  BY DEF Bordered
<1>3. /\ r \in 0..k /\ Ends(pat, k, pat, r) /\ (r = 0 \/ c = pat[r + 1])
      /\ \A b : Ends(pat, k, pat, b) /\ c = pat[b + 1] => b <= r
  BY <1>1, LoopFinds
<1>4. /\ s \in 0..k /\ Ends(pat, k, pat, s) /\ (s = 0 \/ c = pat[s + 1])
      /\ \A b : Ends(pat, k, pat, b) /\ c = pat[b + 1] => b <= s
  BY <1>1, <1>2, LoopFinds
<1>5. r <= s /\ s <= r
  BY <1>3, <1>4
<1>6. QED
  BY <1>1, <1>3, <1>4, <1>5

(* The entry of kmpTable for i, given those before. *)
TableEntry(pat, lps, i) ==
    IF i = 1 THEN 0
    ELSE LET k == Fallback(pat, lps, i - 1, pat[i])[lps[i - 1]]
         IN  IF pat[i] = pat[k + 1] THEN k + 1 ELSE 0

(* A right table goes on with the longest border. *)
LEMMA EntryIsLongest ==
    ASSUME NEW pat, NEW lps, NEW i \in Nat \ {0}, Bordered(pat, lps, i - 1)
    PROVE  Longest(pat, i, TableEntry(pat, lps, i))
<1>1. CASE i = 1
  <2>1. Ends(pat, 1, pat, 0) /\ \A d : Ends(pat, 1, pat, d) /\ d < 1 => d <= 0
    BY DEF Ends
  <2>2. QED
    BY <1>1, <2>1 DEF TableEntry, Longest
<1>2. CASE i # 1
  <2>1. PICK n, l, c : n = i - 1 /\ l = lps[n] /\ c = pat[i]
    OBVIOUS
  <2>2. n \in Nat /\ n >= 1 /\ Longest(pat, n, l) /\ Bordered(pat, lps, n) /\ i = n + 1
    BY <1>2, <2>1 DEF Bordered
  <2>3. /\ l \in 0..(n - 1) /\ Ends(pat, n, pat, l) /\ l \in 0..n
        /\ \A d : Ends(pat, n, pat, d) /\ d < n => d <= l
    BY <2>2 DEF Longest
  <2>4. PICK k : k = Fallback(pat, lps, n, c)[l]
    OBVIOUS
  <2>5. /\ k \in 0..l /\ Ends(pat, l, pat, k) /\ (k = 0 \/ c = pat[k + 1])
        /\ \A b : Ends(pat, l, pat, b) /\ c = pat[b + 1] => b <= k
    BY <2>2, <2>3, <2>4, LoopFinds
  <2>6. \A b \in 0..l : Ends(pat, l, pat, b) <=> Ends(pat, n, pat, b)
    BY <2>2, <2>3, BorderOfBorder
  <2>7. \A b \in Nat : \A d : d = b + 1 => (Ends(pat, i, pat, d) <=> Ends(pat, n, pat, b) /\ pat[d] = c)
    BY <2>1, <2>2, OneMore
  <2>8. ASSUME NEW d, Ends(pat, i, pat, d), d < i, d # 0 PROVE d - 1 <= k /\ d \in Nat /\ pat[d] = c
    <3>1. d \in 0..i
      BY <2>8 DEF Ends
    <3>2. PICK b : b = d - 1
      OBVIOUS
    <3>3. b \in Nat /\ d = b + 1 /\ b < n
      BY <2>2, <2>8, <3>1, <3>2
    <3>4. Ends(pat, n, pat, b) /\ pat[b + 1] = c
      BY <2>7, <2>8, <3>3
    <3>5. b \in 0..l
      BY <2>3, <3>3, <3>4
    <3>6. b <= k
      BY <2>5, <2>6, <3>4, <3>5
    <3>7. QED
      BY <3>2, <3>3, <3>4, <3>6
  <2>9. TableEntry(pat, lps, i) = IF c = pat[k + 1] THEN k + 1 ELSE 0
    BY <1>2, <2>1, <2>4 DEF TableEntry
  <2>10. CASE c = pat[k + 1]
    <3>1. Ends(pat, i, pat, k + 1)
      BY <2>3, <2>5, <2>6, <2>7, <2>10
    <3>2. k + 1 \in 0..(i - 1)
      BY <2>2, <2>3, <2>5
    <3>3. \A d : Ends(pat, i, pat, d) /\ d < i => d <= k + 1
      BY <2>3, <2>5, <2>8
    <3>4. QED
      BY <2>9, <2>10, <3>1, <3>2, <3>3 DEF Longest
  <2>11. CASE c # pat[k + 1]
    <3>1. k = 0
      BY <2>5, <2>11
    <3>2. \A d : Ends(pat, i, pat, d) /\ d < i => d = 0
      BY <2>8, <2>11, <3>1
    <3>3. Ends(pat, i, pat, 0) /\ 0 \in 0..(i - 1)
      BY <2>2 DEF Ends
    <3>4. QED
      BY <2>9, <2>11, <3>2, <3>3 DEF Longest
  <2>12. QED
    BY <2>10, <2>11
<1>3. QED
  BY <1>1, <1>2

IsTable(h, pat, m) == h = [i \in 1..m |-> TableEntry(pat, h, i)]

LEMMA TableIsBordered ==
    ASSUME NEW pat, NEW h, NEW m \in Nat, IsTable(h, pat, m)
    PROVE  Bordered(pat, h, m)
<1> DEFINE T == {n \in Nat : n <= m => Bordered(pat, h, n)}
<1>1. 0 \in T
  BY DEF Bordered
<1>2. ASSUME NEW n \in T PROVE n + 1 \in T
  <2> SUFFICES ASSUME n + 1 <= m PROVE Bordered(pat, h, n + 1)
    OBVIOUS
  <2>1. Bordered(pat, h, n) /\ (n + 1) - 1 = n
    OBVIOUS
  <2>2. Longest(pat, n + 1, TableEntry(pat, h, n + 1))
    BY <2>1, EntryIsLongest
  <2>3. h[n + 1] = TableEntry(pat, h, n + 1)
    BY DEF IsTable
  <2>4. \A k \in 1..(n + 1) : k \in 1..n \/ k = n + 1
    OBVIOUS
  <2>5. QED
    BY <2>1, <2>2, <2>3, <2>4 DEF Bordered
<1>3. T = Nat
  <2> HIDE DEF T
  <2>0. T \in SUBSET Nat
    BY DEF T
  <2>1. QED
    BY <1>1, <1>2, <2>0, Induct
<1>4. QED
  BY <1>3

(* kmpTable computes the longest proper borders. *)
LEMMA TableIsRight ==
    ASSUME NEW pat, Len(pat) \in Nat
    PROVE  Bordered(pat, kmpTable(pat), Len(pat))
<1> DEFINE T == {m \in Nat : \E h : IsTable(h, pat, m)}
<1>1. 0 \in T
  <2>1. PICK h : h = [i \in 1..0 |-> 0]
    OBVIOUS
  <2>2. IsTable(h, pat, 0)
    BY <2>1 DEF IsTable
  <2>3. QED
    BY <2>2
<1>2. ASSUME NEW m \in T PROVE m + 1 \in T
  <2>1. PICK g : IsTable(g, pat, m)
    OBVIOUS
  <2>2. Bordered(pat, g, m)
    BY <2>1, TableIsBordered
  <2>3. PICK h : h = [i \in 1..(m + 1) |-> TableEntry(pat, g, i)]
    OBVIOUS
  <2>4. \A i \in 1..m : h[i] = g[i]
    <3>1. \A i \in 1..m : i \in 1..(m + 1)
      OBVIOUS
    <3>2. QED
      BY <2>1, <2>3, <3>1 DEF IsTable
  <2>5. ASSUME NEW i \in 1..(m + 1) PROVE TableEntry(pat, h, i) = TableEntry(pat, g, i)
    <3>1. CASE i = 1
      BY <3>1 DEF TableEntry
    <3>2. CASE i # 1
      <4>1. PICK n : n = i - 1
        OBVIOUS
      <4>2. n \in Nat /\ n \in 1..m /\ \A k \in 1..n : k \in 1..m
        BY <2>5, <3>2, <4>1
      <4>3. Bordered(pat, g, n) /\ (\A k \in 1..n : h[k] = g[k]) /\ h[n] = g[n]
        BY <2>2, <2>4, <4>2 DEF Bordered
      <4>4. g[n] \in 0..n
        BY <4>2, <4>3 DEF Bordered, Longest
      <4>5. Fallback(pat, h, n, pat[i])[g[n]] = Fallback(pat, g, n, pat[i])[g[n]]
        BY <4>2, <4>3, <4>4, SameLoop
      <4>6. QED
        BY <3>2, <4>1, <4>3, <4>5 DEF TableEntry
    <3>3. QED
      BY <3>1, <3>2
  <2>6. IsTable(h, pat, m + 1)
    BY <2>3, <2>5 DEF IsTable
  <2>7. QED
    BY <2>6
<1>3. T = Nat
  <2> HIDE DEF T
  <2>0. T \in SUBSET Nat
    BY DEF T
  <2>1. QED
    BY <1>1, <1>2, <2>0, Induct
<1>4. \E h : IsTable(h, pat, Len(pat))
  BY <1>3
<1>5. kmpTable(pat) = CHOOSE h : IsTable(h, pat, Len(pat))
  BY DEF kmpTable, IsTable, TableEntry
<1>6. IsTable(kmpTable(pat), pat, Len(pat))
  BY <1>4, <1>5
<1>7. QED
  BY <1>6, TableIsBordered

(* What Find remembers after p symbols, given what it did before. *)
MatchEntry(text, pat, j, p) ==
    IF p = 0 THEN 0
    ELSE IF j[p - 1] = Len(pat) THEN Len(pat)
    ELSE LET k == Fallback(pat, kmpTable(pat), Len(pat) - 1, text[p])[j[p - 1]]
         IN  IF text[p] = pat[k + 1] THEN k + 1 ELSE k

(* b is the longest part of the pattern that the text up to p ends with. *)
Stands(text, p, pat, b) ==
    /\ b \in 0..Len(pat) /\ Ends(text, p, pat, b)
    /\ \A d \in 0..Len(pat) : Ends(text, p, pat, d) => d <= b

LEMMA MatchStep ==
    ASSUME NEW text, NEW pat, Len(pat) \in Nat, NEW j, NEW p \in Nat \ {0},
           j[p - 1] # Len(pat), Stands(text, p - 1, pat, j[p - 1])
    PROVE  Stands(text, p, pat, MatchEntry(text, pat, j, p))
<1>1. PICK n, l, c, lps : n = Len(pat) - 1 /\ l = j[p - 1] /\ c = text[p] /\ lps = kmpTable(pat)
  OBVIOUS
<1>2. /\ l \in Nat /\ l <= n /\ n \in Nat /\ Len(pat) = n + 1 /\ Ends(text, p - 1, pat, l)
      /\ \A d \in 0..Len(pat) : Ends(text, p - 1, pat, d) => d <= l
  BY <1>1 DEF Stands
<1>3. Bordered(pat, lps, n)
  <2>1. Bordered(pat, lps, Len(pat))
    BY <1>1, TableIsRight
  <2>2. \A k \in 1..n : k \in 1..Len(pat)
    BY <1>2
  <2>3. QED
    BY <2>1, <2>2 DEF Bordered
<1>4. PICK k : k = Fallback(pat, lps, n, c)[l]
  OBVIOUS
<1>5. /\ k \in 0..l /\ Ends(pat, l, pat, k) /\ (k = 0 \/ c = pat[k + 1])
      /\ \A b : Ends(pat, l, pat, b) /\ c = pat[b + 1] => b <= k
  BY <1>2, <1>3, <1>4, LoopFinds
<1>6. \A b \in 0..l : Ends(pat, l, pat, b) <=> Ends(text, p - 1, pat, b)
  BY <1>2, BorderOfBorder
<1>7. \A b \in Nat : \A d : d = b + 1 => (Ends(text, p, pat, d) <=> Ends(text, p - 1, pat, b) /\ pat[d] = c)
  <2>1. Extends(text, p, pat, text[p])
    BY OneMoreOf
  <2>2. Extends(text, p, pat, c)
    BY <1>1, <2>1
  <2>3. QED
    BY <2>2 DEF Extends
<1>8. ASSUME NEW d \in 0..Len(pat), Ends(text, p, pat, d), d # 0 PROVE d <= k + 1 /\ pat[d] = c
  <2>1. PICK b : b = d - 1
    OBVIOUS
  <2>2. b \in Nat /\ d = b + 1 /\ b \in 0..Len(pat)
    BY <1>2, <1>8, <2>1
  <2>3. Ends(text, p - 1, pat, b) /\ pat[b + 1] = c
    BY <1>7, <1>8, <2>2
  <2>4. b \in 0..l
    BY <1>2, <2>2, <2>3
  <2>5. b <= k
    BY <1>5, <1>6, <2>3, <2>4
  <2>6. QED
    BY <1>2, <1>5, <2>2, <2>3, <2>5
<1>9. MatchEntry(text, pat, j, p) = IF c = pat[k + 1] THEN k + 1 ELSE k
  BY <1>1, <1>4 DEF MatchEntry
<1>10. CASE c = pat[k + 1]
  <2>0. k \in Nat /\ k + 1 \in 0..Len(pat)
    BY <1>2, <1>5
  <2>1. Ends(text, p, pat, k + 1)
    BY <1>5, <1>6, <1>7, <1>10, <2>0
  <2>2. \A d \in 0..Len(pat) : Ends(text, p, pat, d) => d <= k + 1
    BY <1>8, <2>0
  <2>3. QED
    BY <1>9, <1>10, <2>0, <2>1, <2>2 DEF Stands
<1>11. CASE c # pat[k + 1]
  <2>1. k = 0
    BY <1>5, <1>11
  <2>2. Ends(text, p, pat, 0) /\ 0 \in 0..Len(pat)
    BY <1>2 DEF Ends
  <2>3. \A d \in 0..Len(pat) : Ends(text, p, pat, d) => d = 0
    BY <1>8, <1>11, <2>1
  <2>4. QED
    BY <1>9, <1>11, <2>1, <2>2, <2>3 DEF Stands
<1>12. QED
  BY <1>10, <1>11

IsMatch(j, text, pat, m) == j = [p \in 0..m |-> MatchEntry(text, pat, j, p)]

(* Find computes what it should after every symbol, up to the first time    *)
(* the whole pattern is found.                                              *)
LEMMA MatchIsRight ==
    ASSUME NEW text, Len(text) \in Nat, NEW pat, Len(pat) \in Nat
    PROVE  LET j == Matched(text, pat) IN
           \A p \in 0..Len(text) : p = 0 \/ j[p - 1] # Len(pat) => Stands(text, p, pat, j[p])
<1> DEFINE E == {m \in Nat : \E j : IsMatch(j, text, pat, m)}
<1>1. 0 \in E
  <2>1. PICK j : j = [p \in 0..0 |-> 0]
    OBVIOUS
  <2>2. IsMatch(j, text, pat, 0)
    BY <2>1 DEF IsMatch, MatchEntry
  <2>3. QED
    BY <2>2
<1>2. ASSUME NEW m \in E PROVE m + 1 \in E
  <2>1. PICK g : IsMatch(g, text, pat, m)
    OBVIOUS
  <2>2. PICK j : j = [p \in 0..(m + 1) |-> MatchEntry(text, pat, g, p)]
    OBVIOUS
  <2>3. \A p \in 0..m : j[p] = g[p]
    <3>1. \A p \in 0..m : p \in 0..(m + 1)
      OBVIOUS
    <3>2. QED
      BY <2>1, <2>2, <3>1 DEF IsMatch
  <2>4. \A p \in 0..(m + 1) : MatchEntry(text, pat, j, p) = MatchEntry(text, pat, g, p)
    <3>1. ASSUME NEW p \in 0..(m + 1), p # 0 PROVE j[p - 1] = g[p - 1]
      BY <2>3, <3>1
    <3>2. QED
      BY <3>1 DEF MatchEntry
  <2>5. IsMatch(j, text, pat, m + 1)
    BY <2>2, <2>4 DEF IsMatch
  <2>6. QED
    BY <2>5
<1>3. E = Nat
  <2> HIDE DEF E
  <2>0. E \in SUBSET Nat
    BY DEF E
  <2>1. QED
    BY <1>1, <1>2, <2>0, Induct
<1>4. \E j : IsMatch(j, text, pat, Len(text))
  BY <1>3
<1>5. Matched(text, pat) = CHOOSE j : IsMatch(j, text, pat, Len(text))
  BY DEF Matched, IsMatch, MatchEntry
<1>6. PICK j : j = Matched(text, pat) /\ IsMatch(j, text, pat, Len(text))
  BY <1>4, <1>5
<1>7. \A p \in 0..Len(text) : j[p] = MatchEntry(text, pat, j, p)
  BY <1>6 DEF IsMatch
<1> DEFINE Right(p) == p = 0 \/ j[p - 1] # Len(pat) => Stands(text, p, pat, j[p])
           T == {m \in Nat : m <= Len(text) => Right(m)}
<1>8. 0 \in T
  <2>1. j[0] = 0
    BY <1>7 DEF MatchEntry
  <2>2. Stands(text, 0, pat, 0)
    BY DEF Stands, Ends
  <2>3. QED
    BY <2>1, <2>2
<1>9. ASSUME NEW m \in T PROVE m + 1 \in T
  <2> SUFFICES ASSUME m + 1 <= Len(text), j[m] # Len(pat) PROVE Stands(text, m + 1, pat, j[m + 1])
    OBVIOUS
  <2>1. m \in 0..Len(text) /\ m + 1 \in 0..Len(text) /\ (m + 1) - 1 = m
    OBVIOUS
  <2>2. m = 0 \/ j[m - 1] # Len(pat)
    BY <1>7, <2>1 DEF MatchEntry
  <2>3. Stands(text, m, pat, j[m])
    BY <2>1, <2>2
  <2>4. Stands(text, m + 1, pat, MatchEntry(text, pat, j, m + 1))
    BY <2>1, <2>3, MatchStep
  <2>5. QED
    BY <1>7, <2>1, <2>4
<1>10. T = Nat
  <2> HIDE DEF T
  <2>0. T \in SUBSET Nat
    BY DEF T
  <2>1. QED
    BY <1>8, <1>9, <2>0, Induct
<1>11. \A p \in 0..Len(text) : Right(p)
  BY <1>10
<1>12. QED
  BY <1>6, <1>11

(* For sequences, that is what KmpExact says of the parts. *)
EndsAreParts(text, pat) ==
    \A p \in 0..Len(text), b \in 0..Len(pat) :
        b <= p => (Ends(text, p, pat, b) <=> SubSeq(text, p - b + 1, p) = SubSeq(pat, 1, b))

LEMMA EndsIsPart ==
    ASSUME NEW S, NEW text \in Seq(S), NEW pat \in Seq(S)
    PROVE  EndsAreParts(text, pat)
<1> SUFFICES ASSUME NEW p \in 0..Len(text), NEW b \in 0..Len(pat), b <= p
             PROVE  Ends(text, p, pat, b) <=> SubSeq(text, p - b + 1, p) = SubSeq(pat, 1, b)
  BY DEF EndsAreParts
<1>1. PICK u, v : u = SubSeq(text, p - b + 1, p) /\ v = SubSeq(pat, 1, b)
  OBVIOUS
<1>2. u \in Seq(S) /\ Len(u) = b /\ \A x \in 1..b : u[x] = text[(p - b) + x]
  BY <1>1
<1>3. v \in Seq(S) /\ Len(v) = b /\ \A x \in 1..b : v[x] = pat[x]
  BY <1>1
<1>4. u = v <=> \A x \in 1..b : u[x] = v[x]
  BY <1>2, <1>3
<1>5. QED
  BY <1>1, <1>2, <1>3, <1>4, SMTT(60) DEF Ends

(* What is searched and for what stays what it was. *)
SearchInv == project \in Projects /\ lang \in DOMAIN Detectors

(* The symbols of the prefixes of the detectors. *)
Letters == {"g", "s", "q", "n", "e", "p", "r"}

LEMMA PrefixesAreTexts ==
    \A l \in DOMAIN Detectors : \A i \in DOMAIN Detectors[l] :
        Detectors[l][i].prefix \in Seq(Letters) /\ Len(Detectors[l][i].prefix) # 0
<1>1. DOMAIN Detectors = {"golang", "nodejs", "python", "php"}
  BY DEF Detectors
<1>2. ASSUME NEW i \in DOMAIN Detectors["golang"] PROVE Detectors["golang"][i].prefix = <<"g", "s">>
  BY <1>2 DEF Detectors
<1>3. ASSUME NEW i \in DOMAIN Detectors["nodejs"]
      PROVE  Detectors["nodejs"][i].prefix \in {<<"q", "n", "q">>, <<"n", "e">>}
  BY <1>3 DEF Detectors
<1>4. ASSUME NEW i \in DOMAIN Detectors["python"] PROVE Detectors["python"][i].prefix = <<"p", "r">>
  <2>1. Detectors["python"][1].prefix = <<"p", "r">>
    BY DEF Detectors
  <2>2. \E d : Detectors["python"] = <<d>>
    BY Zenon DEF Detectors
  <2>3. QED
    BY <2>1, <2>2
<1>5. ASSUME NEW i \in DOMAIN Detectors["php"] PROVE Detectors["php"][i].prefix = <<"q", "p", "q">>
  BY <1>5 DEF Detectors
<1>6. ASSUME NEW l \in DOMAIN Detectors, NEW i \in DOMAIN Detectors[l]
      PROVE  Detectors[l][i].prefix
                \in {<<"g", "s">>, <<"q", "n", "q">>, <<"n", "e">>, <<"p", "r">>, <<"q", "p", "q">>}
  BY <1>1, <1>2, <1>3, <1>4, <1>5, <1>6
<1>7. \A S : \A a, b, c \in S : <<a, b>> \in Seq(S) /\ <<a, b, c>> \in Seq(S)
  OBVIOUS
<1>8. "g" \in Letters /\ "s" \in Letters /\ "q" \in Letters /\ "n" \in Letters /\ "e" \in Letters
      /\ "p" \in Letters /\ "r" \in Letters
  BY DEF Letters
<1>9. \A q \in {<<"g", "s">>, <<"q", "n", "q">>, <<"n", "e">>, <<"p", "r">>, <<"q", "p", "q">>} :
        q \in Seq(Letters)
  BY <1>7, <1>8, ZenonT(60)
<1>10. \A q \in {<<"g", "s">>, <<"q", "n", "q">>, <<"n", "e">>, <<"p", "r">>, <<"q", "p", "q">>} :
        Len(q) # 0
  OBVIOUS
<1>11. QED
  BY <1>6, <1>9, <1>10

LEMMA SearchIsRight == SearchInv => KmpExact
<1> SUFFICES ASSUME SearchInv, NEW path \in DOMAIN project,
                    NEW pat \in SearchTexts \cup {Detectors[lang][i].prefix : i \in DOMAIN Detectors[lang]},
                    NEW p \in 0..Len(project[path]),
                    p = 0 \/ Matched(project[path], pat)[p - 1] # Len(pat)
             PROVE  LET text == project[path]
                        b == Matched(text, pat)[p]
                    IN  /\ SubSeq(text, p - b + 1, p) = SubSeq(pat, 1, b)
                        /\ \A n \in b + 1..Len(pat) :
                            n > p \/ SubSeq(text, p - n + 1, p) # SubSeq(pat, 1, n)
  BY DEF KmpExact
<1>0. \A A, B : \A q \in Seq(A) : q \in Seq(A \cup B) /\ q \in Seq(B \cup A)
  OBVIOUS
<1>1. PICK R : pat \in Seq(R)
  BY FilesAssumption, PrefixesAreTexts DEF SearchInv, IsText
<1>2. PICK text, U : text = project[path] /\ text \in Seq(U)
  BY FilesAssumption DEF SearchInv, IsText
<1> PICK S : pat \in Seq(S) /\ text \in Seq(S)
  BY <1>0, <1>1, <1>2
<1>3. PICK b : b = Matched(text, pat)[p]
  OBVIOUS
<1>4. Len(text) \in Nat /\ Len(pat) \in Nat
  OBVIOUS
<1>5. Stands(text, p, pat, b)
  BY <1>2, <1>3, <1>4, MatchIsRight
<1>6. /\ b \in 0..Len(pat) /\ b \in 0..p /\ Ends(text, p, pat, b)
      /\ \A n \in 0..Len(pat) : Ends(text, p, pat, n) => n <= b
  BY <1>5 DEF Stands, Ends
<1>7. \A n \in 0..Len(pat) : n <= p =>
        (Ends(text, p, pat, n) <=> SubSeq(text, p - n + 1, p) = SubSeq(pat, 1, n))
  <2>1. p \in 0..Len(text)
    BY <1>2
  <2>2. EndsAreParts(text, pat)
    BY EndsIsPart
  <2>3. QED
    BY <2>1, <2>2 DEF EndsAreParts
<1>8. SubSeq(text, p - b + 1, p) = SubSeq(pat, 1, b)
  BY <1>6, <1>7
<1>9. ASSUME NEW n \in b + 1..Len(pat), ~(n > p)
      PROVE  SubSeq(text, p - n + 1, p) # SubSeq(pat, 1, n)
  <2>1. n \in 0..Len(pat) /\ n <= p /\ ~(n <= b)
    BY <1>4, <1>6, <1>9
  <2>2. QED
    BY <1>6, <1>7, <2>1
<1>10. QED
  BY <1>2, <1>3, <1>8, <1>9

(* After every byte the streaming search stands at the longest part of the  *)
(* prefix the text ends with, for every file and every text to find.        *)
THEOREM SearchIsExact == DetectSpec => []KmpExact
<1>1. DetectInit => SearchInv
  BY DEF DetectInit, SearchInv
<1>2. SearchInv /\ [DetectNext]_vars => SearchInv'
  BY DEF SearchInv, DetectNext, RunDetector, Scan, vars
<1>3. SearchInv => KmpExact
  BY SearchIsRight
<1>4. QED
  BY <1>1, <1>2, <1>3, PTL DEF DetectSpec

-----------------------------------------------------------------------------
(* The version the detectors settle on *)

Pairs == Nat \X Nat

(* compareVersions orders the versions. *)
LEMMA VersionsOrdered ==
    \A a, b, c \in Pairs :
        /\ AtLeast(a, a) /\ (AtLeast(a, b) \/ AtLeast(b, a))
        /\ AtLeast(a, b) /\ AtLeast(b, a) => a = b
        /\ AtLeast(a, b) /\ AtLeast(b, c) => AtLeast(a, c)
<1>1. ASSUME NEW a \in Pairs, NEW b \in Pairs
      PROVE  /\ a[1] \in Nat /\ a[2] \in Nat
             /\ AtLeast(a, b) <=> a[1] > b[1] \/ (a[1] = b[1] /\ a[2] >= b[2])
             /\ a[1] = b[1] /\ a[2] = b[2] => a = b
  BY DEF Pairs, AtLeast, compareVersions
<1>2. QED
  BY <1>1

LEMMA LargestExists ==
    ASSUME NEW vs, IsFiniteSet(vs), vs \subseteq Pairs, vs # {}
    PROVE  \E m \in vs : \A w \in vs : AtLeast(m, w)
<1>1. PICK n, f : n \in Nat /\ f \in Bijection(1..n, vs)
  BY FS_CardinalityType DEF ExistsBijection
<1>2. (\A i \in 1..n : f[i] \in vs) /\ \A w \in vs : \E i \in 1..n : f[i] = w
  BY <1>1 DEF Bijection, Injection, Surjection
<1> DEFINE T == {m \in Nat : m + 1 \in 1..n =>
                    \E k \in 1..(m + 1) : \A j \in 1..(m + 1) : AtLeast(f[k], f[j])}
<1>3. 0 \in T
  BY <1>2, VersionsOrdered
<1>4. ASSUME NEW m \in T PROVE m + 1 \in T
  <2> SUFFICES ASSUME (m + 1) + 1 \in 1..n
               PROVE  \E k \in 1..((m + 1) + 1) : \A j \in 1..((m + 1) + 1) : AtLeast(f[k], f[j])
    OBVIOUS
  <2>1. PICK k \in 1..(m + 1) : \A j \in 1..(m + 1) : AtLeast(f[k], f[j])
    BY <1>1
  <2>2. PICK l : l = (m + 1) + 1
    OBVIOUS
  <2>3. k \in 1..l /\ l \in 1..l /\ k \in 1..n /\ l \in 1..n /\ \A j \in 1..l : j \in 1..(m + 1) \/ j = l
    BY <1>1, <2>2
  <2>4. f[k] \in Pairs /\ f[l] \in Pairs /\ \A j \in 1..l : j \in 1..n /\ f[j] \in Pairs
    BY <1>1, <1>2, <2>2, <2>3
  <2>5. CASE AtLeast(f[k], f[l])
    BY <2>1, <2>2, <2>3, <2>5
  <2>6. CASE AtLeast(f[l], f[k])
    <3>1. ASSUME NEW j \in 1..l PROVE AtLeast(f[l], f[j])
      BY <2>1, <2>3, <2>4, <2>6, VersionsOrdered
    <3>2. QED
      BY <2>2, <2>3, <3>1
  <2>7. QED
    BY <2>4, <2>5, <2>6, VersionsOrdered
<1> HIDE DEF T
<1>5. T = Nat
  <2>1. T \in SUBSET Nat
    BY DEF T
  <2>2. QED
    BY <1>3, <1>4, <2>1, Induct
<1>6. n # 0
  BY <1>2
<1>7. n - 1 \in T /\ (n - 1) + 1 = n
  BY <1>1, <1>5, <1>6
<1>8. PICK k \in 1..n : \A j \in 1..n : AtLeast(f[k], f[j])
  BY <1>1, <1>6, <1>7 DEF T
<1>9. QED
  BY <1>2, <1>8

LEMMA NoPair == NoVersionFound \notin Pairs
BY DEF Pairs, NoVersionFound

(* pickVersion takes the largest version there is, if there is one. *)
LEMMA PickedIs ==
    ASSUME NEW vs, IsFiniteSet(vs), vs \subseteq Pairs \cup {NoVersionFound}
    PROVE  /\ vs \cap Pairs = {} => pickVersion(vs) = NoVersionFound
           /\ vs \cap Pairs # {} =>
                /\ pickVersion(vs) \in vs \cap Pairs
                /\ \A w \in vs \cap Pairs : AtLeast(pickVersion(vs), w)
<1> DEFINE given == {v \in vs : v # NoVersionFound}
<1>1. pickVersion(vs) = IF given = {} THEN NoVersionFound
                        ELSE CHOOSE v \in given : \A w \in given : AtLeast(v, w)
  BY Zenon DEF pickVersion
<1>2. given = vs \cap Pairs
  BY NoPair
<1> HIDE DEF given
<1>3. IsFiniteSet(given) /\ given \subseteq Pairs
  BY <1>2, FS_Subset
<1>4. given # {} => \E m \in given : \A w \in given : AtLeast(m, w)
  BY <1>3, LargestExists
<1>5. given # {} => /\ pickVersion(vs) \in given
                    /\ \A w \in given : AtLeast(pickVersion(vs), w)
  BY <1>1, <1>4, Zenon
<1>6. QED
  <2>1. given = {} => pickVersion(vs) = NoVersionFound
    BY <1>1
  <2>2. QED
    BY <1>2, <1>5, <2>1, Zenon

LEMMA ImageFinite ==
    ASSUME NEW S, IsFiniteSet(S), NEW f, DOMAIN f = S
    PROVE  IsFiniteSet({f[x] : x \in S})
<1>1. PICK g : g = [x \in S |-> f[x]]
  OBVIOUS
<1>2. g \in Surjection(S, {f[x] : x \in S})
  BY <1>1 DEF Surjection
<1>3. QED
  BY <1>2, FS_Surjection

(* A constraint as Constraint makes it. *)
Operators == {"", "=", ">=", ">", "<", "<=", "^"}
Comparisons == [op : Operators, v : Pairs, partial : BOOLEAN]
IsToken(t) == t \in Seq(Comparisons) /\ Len(t) > 0

LEMMA ComparatorsIn ==
    ASSUME NEW ts, IsFiniteSet(ts), \A t \in ts : IsToken(t)
    PROVE  /\ IsFiniteSet(Comparators(ts)) /\ Comparators(ts) \subseteq Comparisons
           /\ \A t \in ts : \A i \in 1..Len(t) : t[i] \in Comparators(ts)
<1>1. PICK g : g = [t \in ts |-> {t[i] : i \in DOMAIN t}]
  OBVIOUS
<1>2. Comparators(ts) = UNION {g[t] : t \in ts}
  BY <1>1 DEF Comparators
<1>3. ASSUME NEW t \in ts
      PROVE  /\ DOMAIN t = 1..Len(t) /\ Len(t) \in Nat /\ \A i \in 1..Len(t) : t[i] \in Comparisons
             /\ g[t] = {t[i] : i \in DOMAIN t}
  BY <1>1 DEF IsToken
<1>4. ASSUME NEW t \in ts PROVE IsFiniteSet(g[t])
  <2>1. IsFiniteSet(1..Len(t))
    BY <1>3, FS_Interval
  <2>2. IsFiniteSet({t[i] : i \in DOMAIN t})
    <3>1. IsFiniteSet(DOMAIN t)
      BY <1>3, <2>1
    <3>2. QED
      BY <3>1, ImageFinite, Zenon
  <2>3. QED
    BY <1>3, <2>2
<1>5. IsFiniteSet({g[t] : t \in ts})
  <2>1. DOMAIN g = ts
    BY <1>1
  <2>2. QED
    BY <2>1, ImageFinite, Zenon
<1>6. IsFiniteSet(Comparators(ts))
  BY <1>2, <1>4, <1>5, FS_UNION
<1>7. QED
  BY <1>2, <1>3, <1>6

(* The candidates: the literals, and for a strict bound its neighbours,     *)
(* which no literal exceeds only above a ">".                               *)
LEMMA CandidatesAre ==
    ASSUME NEW ts, IsFiniteSet(ts), \A t \in ts : IsToken(t), ts # {}
    PROVE  /\ IsFiniteSet(collectCandidates(ts)) /\ collectCandidates(ts) \subseteq Pairs
           /\ collectCandidates(ts) # {}
           /\ \A c \in Comparators(ts) : c.v \in collectCandidates(ts)
           /\ \A w \in collectCandidates(ts) : \E c \in Comparators(ts) :
                AtLeast(c.v, w) \/ (c.op = ">" /\ w = <<c.v[1] + 1, 0>>)
<1>1. PICK cs : cs = Comparators(ts)
  OBVIOUS
<1>2. IsFiniteSet(cs) /\ cs \subseteq Comparisons
  BY <1>1, ComparatorsIn
<1>3. PICK gts, lts : gts = {d \in cs : d.op = ">"} /\ lts = {d \in cs : d.op = "<" /\ d.v[1] > 0}
  OBVIOUS
<1>4. PICK a, b, d : /\ a = [c \in cs |-> c.v]
                     /\ b = [c \in gts |-> <<c.v[1] + 1, 0>>]
                     /\ d = [c \in lts |-> <<c.v[1] - 1, 0>>]
  OBVIOUS
<1>5. collectCandidates(ts) = {a[c] : c \in cs} \cup {b[c] : c \in gts} \cup {d[c] : c \in lts}
  BY <1>1, <1>3, <1>4, Zenon DEF collectCandidates
<1>6. IsFiniteSet(gts) /\ IsFiniteSet(lts)
  BY <1>2, <1>3, FS_Subset
<1>7. IsFiniteSet({a[c] : c \in cs}) /\ IsFiniteSet({b[c] : c \in gts}) /\ IsFiniteSet({d[c] : c \in lts})
  <2>1. DOMAIN a = cs /\ DOMAIN b = gts /\ DOMAIN d = lts
    BY <1>4
  <2>2. QED
    BY <1>2, <1>6, <2>1, ImageFinite, Zenon
<1>8. IsFiniteSet(collectCandidates(ts))
  <2>1. PICK A, B, C : A = {a[c] : c \in cs} /\ B = {b[c] : c \in gts} /\ C = {d[c] : c \in lts}
    OBVIOUS
  <2>2. IsFiniteSet(A) /\ IsFiniteSet(B) /\ IsFiniteSet(C) /\ collectCandidates(ts) = (A \cup B) \cup C
    BY <1>5, <1>7, <2>1
  <2>3. IsFiniteSet(A \cup B)
    BY <2>2, FS_Union
  <2>4. QED
    BY <2>2, <2>3, FS_Union
<1>9. ASSUME NEW c \in cs PROVE c.v \in Pairs /\ c.v[1] \in Nat /\ c.v[2] \in Nat /\ a[c] = c.v
  BY <1>2, <1>4 DEF Comparisons, Pairs
<1>10. ASSUME NEW c \in gts PROVE c \in cs /\ c.op = ">" /\ b[c] = <<c.v[1] + 1, 0>> /\ b[c] \in Pairs
  BY <1>3, <1>4, <1>9 DEF Pairs
<1>11. ASSUME NEW c \in lts PROVE c \in cs /\ d[c] \in Pairs /\ AtLeast(c.v, d[c])
  <2>1. c \in cs /\ c.v[1] > 0 /\ d[c] = <<c.v[1] - 1, 0>>
    BY <1>3, <1>4
  <2>2. d[c] \in Pairs
    BY <1>9, <2>1 DEF Pairs
  <2>3. AtLeast(c.v, d[c])
    BY <1>9, <2>1 DEF AtLeast, compareVersions
  <2>4. QED
    BY <2>1, <2>2, <2>3
<1>12. collectCandidates(ts) \subseteq Pairs
  BY <1>5, <1>9, <1>10, <1>11
<1>13. \A c \in cs : c.v \in collectCandidates(ts)
  BY <1>5, <1>9
<1>14. ASSUME NEW w \in collectCandidates(ts)
       PROVE  \E c \in cs : AtLeast(c.v, w) \/ (c.op = ">" /\ w = <<c.v[1] + 1, 0>>)
  <2>1. CASE \E c \in cs : w = a[c]
    BY <1>9, <2>1, VersionsOrdered
  <2>2. CASE \E c \in gts : w = b[c]
    BY <1>10, <2>2
  <2>3. CASE \E c \in lts : w = d[c]
    BY <1>11, <2>3
  <2>4. QED
    BY <1>5, <2>1, <2>2, <2>3
<1>15. cs # {}
  <2>1. PICK t \in ts : IsToken(t)
    OBVIOUS
  <2>2. 1 \in 1..Len(t)
    BY <2>1 DEF IsToken
  <2>3. QED
    BY <1>1, <2>2, ComparatorsIn
<1>16. collectCandidates(ts) # {}
  BY <1>13, <1>15
<1>17. QED
  BY <1>1, <1>8, <1>12, <1>13, <1>14, <1>16

(* The largest candidate that satisfies all, or the largest of all. *)
LEMMA SettledIs ==
    ASSUME NEW ts, IsFiniteSet(ts), \A t \in ts : IsToken(t), ts # {}, NEW v, v = MaxVersionFromConstraints(ts)
    PROVE  /\ v \in collectCandidates(ts) /\ v \in Pairs
           /\ (\A t \in ts : Satisfies(v, t)) \/ Satisfying(ts) = {}
           /\ \A w \in collectCandidates(ts) :
                Satisfying(ts) = {} \/ w \in Satisfying(ts) => AtLeast(v, w)
<1>1. PICK good, all : good = Satisfying(ts) /\ all = collectCandidates(ts)
  OBVIOUS
<1>2. /\ IsFiniteSet(all) /\ all \subseteq Pairs /\ all # {} /\ good \subseteq all
      /\ \A w \in good : \A t \in ts : Satisfies(w, t)
  BY <1>1, CandidatesAre DEF Satisfying
<1>3. v = pickVersion(IF good # {} THEN good ELSE all)
  BY <1>1 DEF MaxVersionFromConstraints
<1>4. CASE good # {}
  <2>1. IsFiniteSet(good) /\ good \cap Pairs = good /\ good \subseteq Pairs \cup {NoVersionFound}
    BY <1>2, FS_Subset
  <2>2. v \in good /\ \A w \in good : AtLeast(v, w)
    BY <1>3, <1>4, <2>1, PickedIs
  <2>3. QED
    BY <1>1, <1>2, <1>4, <2>2
<1>5. CASE good = {}
  <2>1. all \cap Pairs = all /\ all \subseteq Pairs \cup {NoVersionFound}
    BY <1>2
  <2>2. v \in all /\ \A w \in all : AtLeast(v, w)
    BY <1>2, <1>3, <1>5, <2>1, PickedIs
  <2>3. QED
    BY <1>1, <1>2, <1>5, <2>2
<1>6. QED
  BY <1>4, <1>5

(* When each constraint begins with a minimum, the version is the largest   *)
(* candidate: it meets all minimums.                                        *)
LEMMA MinimumsMet ==
    ASSUME NEW ts, IsFiniteSet(ts), \A t \in ts : IsToken(t), ts # {}, NEW v, v = MaxVersionFromConstraints(ts),
           \A t \in ts : t[1].op = ">="
    PROVE  /\ \E c \in Comparators(ts) : v = c.v \/ (c.op = ">" /\ v = <<c.v[1] + 1, 0>>)
           /\ \A t \in ts : AtLeast(v, t[1].v)
<1>1. PICK all : all = collectCandidates(ts)
  OBVIOUS
<1>2. IsFiniteSet(all) /\ all \subseteq Pairs /\ all # {} /\ \A c \in Comparators(ts) : c.v \in all
  BY <1>1, CandidatesAre
<1>3. PICK m \in all : \A w \in all : AtLeast(m, w)
  BY <1>2, LargestExists
<1>4. ASSUME NEW t \in ts PROVE t[1] \in Comparators(ts) /\ 1 \in DOMAIN t
  BY ComparatorsIn DEF IsToken
<1>5. ASSUME NEW t \in ts PROVE Satisfies(m, t)
  <2>1. AtLeast(m, t[1].v) /\ t[1].op = ">="
    BY <1>2, <1>3, <1>4
  <2>2. Check(m, t[1])
    BY <2>1 DEF Check
  <2>3. QED
    BY <1>4, <2>2 DEF Satisfies
<1>6. m \in Satisfying(ts)
  BY <1>1, <1>5 DEF Satisfying
<1>7. v \in all /\ AtLeast(v, m) /\ AtLeast(m, v) /\ v \in Pairs /\ m \in Pairs
  BY <1>1, <1>2, <1>3, <1>6, SettledIs
<1>8. v = m
  BY <1>7, VersionsOrdered
<1>9. PICK c \in Comparators(ts) : AtLeast(c.v, v) \/ (c.op = ">" /\ v = <<c.v[1] + 1, 0>>)
  BY <1>1, <1>7, CandidatesAre
<1>10. AtLeast(c.v, v) => v = c.v
  BY <1>2, <1>3, <1>7, <1>8, VersionsOrdered
<1>11. \A t \in ts : AtLeast(v, t[1].v)
  BY <1>2, <1>3, <1>4, <1>8
<1>12. QED
  BY <1>9, <1>10, <1>11

(* Find stops at the first place the text up to which ends with the prefix. *)
LEMMA FindIsFirst ==
    ASSUME NEW S, NEW text \in Seq(S), NEW pat \in Seq(S), Len(pat) # 0,
           NEW ends, ends = {p \in Len(pat)..Len(text) : SubSeq(text, p - Len(pat) + 1, p) = pat},
           NEW h, h = Find(text, pat)
    PROVE  (h = 0 /\ ends = {}) \/ (h \in ends /\ \A q \in ends : h <= q)
<1>1. PICK n, l, j : n = Len(text) /\ l = Len(pat) /\ j = Matched(text, pat)
  OBVIOUS
<1>2. n \in Nat /\ l \in Nat /\ l # 0
  BY <1>1
<1>3. \A p \in 0..n : p = 0 \/ j[p - 1] # l => Stands(text, p, pat, j[p])
  BY <1>1, <1>2, MatchIsRight
<1>4. \A p \in ends : p \in 1..n
  BY <1>1, <1>2
<1>5. \A p \in 1..n : p \in ends <=> Ends(text, p, pat, l)
  <2>1. SubSeq(pat, 1, l) = pat
    BY <1>1
  <2>2. EndsAreParts(text, pat)
    BY EndsIsPart
  <2>3. ASSUME NEW p \in 1..n, l <= p PROVE p \in ends <=> Ends(text, p, pat, l)
    <3>1. p \in 0..Len(text) /\ l \in 0..Len(pat) /\ p \in Len(pat)..Len(text)
      BY <1>1, <1>2, <2>3
    <3>2. Ends(text, p, pat, l) <=> SubSeq(text, p - l + 1, p) = SubSeq(pat, 1, l)
      BY <2>2, <2>3, <3>1 DEF EndsAreParts
    <3>3. QED
      BY <1>1, <2>1, <3>1, <3>2
  <2>4. ASSUME NEW p \in 1..n, ~(l <= p) PROVE p \notin ends /\ ~Ends(text, p, pat, l)
    BY <1>1, <1>2, <2>4 DEF Ends
  <2>5. QED
    BY <2>3, <2>4
<1>6. j[0] # l
  BY <1>2, <1>3 DEF Stands, Ends
<1>7. ASSUME NEW p \in 1..n, \A q \in 1..n : q < p => j[q] # l
      PROVE  p \in ends <=> j[p] = l
  <2>1. j[p - 1] # l /\ p \in 0..n
    BY <1>2, <1>6, <1>7
  <2>2. Stands(text, p, pat, j[p])
    BY <1>3, <2>1
  <2>3. Ends(text, p, pat, j[p]) /\ j[p] \in 0..l /\ (Ends(text, p, pat, l) => l <= j[p])
    BY <1>1, <1>2, <2>2 DEF Stands
  <2>4. QED
    BY <1>2, <1>5, <2>3
<1> DEFINE hits == {p \in 1..Len(text) : j[p] = Len(pat)}
<1>8. h = IF hits = {} THEN 0 ELSE CHOOSE p \in hits : \A q \in hits : p <= q
  <2>1. Find(text, pat) = LET hs == {p \in 1..Len(text) : Matched(text, pat)[p] = Len(pat)}
                          IN  IF hs = {} THEN 0 ELSE CHOOSE p \in hs : \A q \in hs : p <= q
    BY Zenon DEF Find
  <2>2. {p \in 1..Len(text) : Matched(text, pat)[p] = Len(pat)} = hits
    BY <1>1
  <2>3. QED
    BY <2>1, <2>2
<1>9. hits \in SUBSET Nat /\ \A p : p \in hits <=> p \in 1..n /\ j[p] = l
  BY <1>1, <1>2
<1> HIDE DEF hits
<1>10. CASE hits = {}
  BY <1>4, <1>7, <1>8, <1>9, <1>10
<1>11. CASE hits # {}
  <2>1. h \in hits /\ \A q \in hits : h <= q
    <3>1. \E x \in hits : \A q \in hits : x <= q
      BY <1>9, <1>11, Least
    <3>2. QED
      BY <1>8, <1>11, <3>1
  <2>2. h \in 1..n /\ h \in ends
    <3>1. h \in 1..n /\ j[h] = l
      BY <1>9, <2>1
    <3>2. \A q \in 1..n : q < h => ~(h <= q)
      BY <1>2, <3>1
    <3>3. \A q \in 1..n : q < h => j[q] # l
      BY <1>9, <2>1, <3>2
    <3>4. QED
      BY <1>7, <3>1, <3>3
  <2>3. ASSUME NEW q \in ends, ~(h <= q) PROVE FALSE
    <3>1. q \in 1..n /\ \A r \in 1..n : r < q => ~(h <= r)
      BY <1>2, <1>4, <2>2, <2>3
    <3>2. \A r \in 1..n : r < q => j[r] # l
      BY <1>9, <2>1, <3>1
    <3>3. j[q] = l
      BY <1>7, <2>3, <3>1, <3>2
    <3>4. QED
      BY <1>9, <2>1, <2>3, <3>1, <3>3
  <2>4. QED
    BY <2>2, <2>3
<1>12. QED
  BY <1>10, <1>11

(* ReadWhile takes version characters, as many as there are. *)
LEMMA ReadIs ==
    ASSUME NEW text, Len(text) \in Nat, NEW p \in 0..Len(text)
    PROVE  \E k \in 0..(Len(text) - p) :
            /\ ReadWhile(text, p) = SubSeq(text, p + 1, p + k)
            /\ \A i \in 1..k : IsVersionChar(text[p + i])
            /\ p + k + 1 <= Len(text) => ~IsVersionChar(text[p + (k + 1)])
<1> DEFINE stops == {q \in p + 1..Len(text) : ~IsVersionChar(text[q])}
           end == IF stops = {} THEN Len(text) + 1 ELSE CHOOSE q \in stops : \A r \in stops : q <= r
<1>1. ReadWhile(text, p) = SubSeq(text, p + 1, end - 1)
  BY Zenon DEF ReadWhile
<1>2. stops \in SUBSET Nat
  OBVIOUS
<1>3. \A q : q \in stops <=> q \in p + 1..Len(text) /\ ~IsVersionChar(text[q])
  OBVIOUS
<1> HIDE DEF stops
<1>4. stops = {} => end = Len(text) + 1
  OBVIOUS
<1>5. stops # {} => end \in stops /\ \A r \in stops : end <= r
  <2>1. stops # {} => \E q \in stops : \A r \in stops : q <= r
    BY <1>2, Least
  <2>2. QED
    BY <2>1
<1> HIDE DEF end
<1>6. /\ end \in (p + 1)..(Len(text) + 1) /\ \A r \in stops : end <= r
      /\ end <= Len(text) => end \in stops
  BY <1>3, <1>4, <1>5
<1>7. PICK k : k = end - 1 - p
  OBVIOUS
<1>8. k \in 0..(Len(text) - p) /\ p + k = end - 1 /\ p + k + 1 = end /\ p + (k + 1) = end
  BY <1>6, <1>7
<1>9. ASSUME NEW i \in 1..k PROVE IsVersionChar(text[p + i])
  <2>1. p + i \in p + 1..Len(text) /\ ~(end <= p + i)
    BY <1>6, <1>8
  <2>2. QED
    BY <1>3, <1>6, <2>1
<1>10. QED
  BY <1>1, <1>3, <1>6, <1>8, <1>9

(* What is read of a file is the text after the first occurrence. *)
LEMMA TokenIs ==
    ASSUME NEW S, NEW text \in Seq(S), NEW pat \in Seq(S), Len(pat) # 0
    PROVE  FirstToken(text, pat) = IF Find(text, pat) = 0 THEN <<>> ELSE ReadWhile(text, Find(text, pat))
<1> DEFINE ends == {p \in Len(pat)..Len(text) : SubSeq(text, p - Len(pat) + 1, p) = pat}
           p == CHOOSE p \in ends : \A q \in ends : p <= q
           run(n) == SubSeq(text, p + 1, p + n)
           lengths == {n \in 0..Len(text) - p : \A i \in 1..n : IsVersionChar(text[p + i])}
           top == CHOOSE n \in lengths : \A m \in lengths : m <= n
<1>1. FirstToken(text, pat) = IF ends = {} THEN <<>> ELSE run(top)
  BY Zenon DEF FirstToken
<1>2. PICK h : h = Find(text, pat)
  OBVIOUS
<1>3. (h = 0 /\ ends = {}) \/ (h \in ends /\ \A q \in ends : h <= q)
  BY <1>2, FindIsFirst, ZenonT(60)
<1>4. Len(text) \in Nat /\ Len(pat) \in Nat /\ \A q \in ends : q \in 1..Len(text)
  OBVIOUS
<1> HIDE DEF ends
<1>5. CASE ends = {}
  BY <1>1, <1>2, <1>3, <1>5
<1>6. CASE ends # {}
  <2>1. h \in ends /\ h \in 1..Len(text) /\ \A q \in ends : h <= q
    BY <1>3, <1>4, <1>6
  <2>2. p \in ends /\ \A q \in ends : p <= q
    BY <2>1
  <2> HIDE DEF p
  <2>3. p = h
    BY <1>4, <2>1, <2>2
  <2>4. PICK k \in 0..(Len(text) - h) :
            /\ ReadWhile(text, h) = SubSeq(text, h + 1, h + k)
            /\ \A i \in 1..k : IsVersionChar(text[h + i])
            /\ h + k + 1 <= Len(text) => ~IsVersionChar(text[h + (k + 1)])
    <3>1. h \in 0..Len(text)
      BY <1>4, <2>1
    <3>2. QED
      BY <1>4, <3>1, ReadIs
  <2>5. k \in lengths
    BY <2>3, <2>4
  <2>6. ASSUME NEW m \in lengths PROVE m <= k
    <3>1. m \in 0..(Len(text) - h) /\ \A i \in 1..m : IsVersionChar(text[h + i])
      BY <2>3
    <3>2. k + 1 \in 1..m => h + k + 1 <= Len(text)
      BY <1>4, <2>1, <2>4, <3>1
    <3>3. ~(k + 1 \in 1..m)
      BY <2>4, <3>1, <3>2
    <3>4. QED
      BY <2>4, <3>1, <3>3
  <2>7. lengths \in SUBSET Int
    OBVIOUS
  <2> HIDE DEF lengths
  <2>8. top \in lengths /\ \A m \in lengths : m <= top
    BY <2>5, <2>6
  <2> HIDE DEF top
  <2>9. top = k
    BY <2>5, <2>6, <2>7, <2>8
  <2>10. h # 0
    BY <2>1
  <2>11. QED
    BY <1>1, <1>2, <1>6, <2>3, <2>4, <2>9, <2>10
<1>7. QED
  BY <1>5, <1>6

(* The detectors of a language, in a row; Go's only one takes minimums. *)
LEMMA DetectorsAre ==
    /\ \A l \in DOMAIN Detectors : Len(Detectors[l]) \in Nat /\ DOMAIN Detectors[l] = 1..Len(Detectors[l])
    /\ "golang" \in DOMAIN Detectors /\ DOMAIN Detectors["golang"] = {1} /\ Detectors["golang"][1].minimum
<1>1. DOMAIN Detectors = {"golang", "nodejs", "python", "php"}
  BY DEF Detectors
<1>2. \E d : Detectors["golang"] = <<d>> /\ d.minimum
  <2>1. \E d : Detectors["golang"] = <<d>>
    BY Zenon DEF Detectors
  <2>2. Detectors["golang"][1].minimum
    BY DEF Detectors
  <2>3. QED
    BY <2>1, <2>2
<1>3. \E c, d : Detectors["nodejs"] = <<c, d>>
  BY Zenon DEF Detectors
<1>4. \E d : Detectors["python"] = <<d>>
  BY Zenon DEF Detectors
<1>5. \E d : Detectors["php"] = <<d>>
  BY Zenon DEF Detectors
<1>6. QED
  BY <1>1, <1>2, <1>3, <1>4, <1>5

(* The files a detector reads have a token each. *)
LEMMA TokensAre ==
    ASSUME SearchInv, NEW i \in DOMAIN Detectors[lang], NEW d, d = Detectors[lang][i]
    PROVE  /\ LET targets == FindFile(d.target)
                  withPrefix == {f \in targets : Find(project[f], d.prefix) # 0}
                  read == {ReadWhile(project[f], Find(project[f], d.prefix)) : f \in withPrefix}
              IN  Tokens(d) = {t \in read : hasDigit(t)}
           /\ IsFiniteSet(Tokens(d))
           /\ \A t \in Tokens(d) :
                /\ DOMAIN t = 1..Len(t) /\ Len(t) \in Nat \ {0}
                /\ \A x \in 1..Len(t) : IsVersionChar(t[x])
<1> DEFINE targets == FindFile(d.target)
           withPrefix == {f \in targets : Find(project[f], d.prefix) # 0}
           read == {ReadWhile(project[f], Find(project[f], d.prefix)) : f \in withPrefix}
<1>1. IsFiniteSet(DOMAIN project) /\ targets \subseteq DOMAIN project
  BY FilesAssumption DEF SearchInv, FindFile
<1>2. IsFiniteSet(targets)
  BY <1>1, FS_Subset
<1>3. PICK pat : pat = d.prefix
  OBVIOUS
<1>4. pat \in Seq(Letters) /\ Len(pat) # 0
  BY <1>3, PrefixesAreTexts DEF SearchInv
<1>5. ASSUME NEW f \in targets
      PROVE  \E S : project[f] \in Seq(S) /\ pat \in Seq(S)
  <2>1. \A A, B : \A q \in Seq(A) : q \in Seq(A \cup B) /\ q \in Seq(B \cup A)
    OBVIOUS
  <2>2. \E A : project[f] \in Seq(A)
    BY <1>1, FilesAssumption DEF SearchInv, IsText
  <2>3. QED
    BY <1>4, <2>1, <2>2
<1>6. PICK h, w : /\ h = [f \in targets |-> Find(project[f], pat)]
                  /\ w = [f \in targets |-> ReadWhile(project[f], Find(project[f], pat))]
  OBVIOUS
<1>7. ASSUME NEW f \in targets
      PROVE  /\ FirstToken(project[f], pat) = IF h[f] = 0 THEN <<>> ELSE w[f]
             /\ h[f] # 0 =>
                    /\ DOMAIN w[f] = 1..Len(w[f]) /\ Len(w[f]) \in Nat
                    /\ \A x \in 1..Len(w[f]) : IsVersionChar(w[f][x])
  <2>1. PICK S : project[f] \in Seq(S) /\ pat \in Seq(S)
    BY <1>5
  <2>2. PICK text : text = project[f]
    OBVIOUS
  <2>3. text \in Seq(S) /\ h[f] = Find(text, pat) /\ w[f] = ReadWhile(text, h[f])
    BY <1>6, <2>1, <2>2
  <2>4. FirstToken(text, pat) = IF h[f] = 0 THEN <<>> ELSE w[f]
    BY <1>4, <2>1, <2>3, TokenIs
  <2>5. ASSUME h[f] # 0
        PROVE  /\ DOMAIN w[f] = 1..Len(w[f]) /\ Len(w[f]) \in Nat
               /\ \A x \in 1..Len(w[f]) : IsVersionChar(w[f][x])
    <3> DEFINE ends == {p \in Len(pat)..Len(text) : SubSeq(text, p - Len(pat) + 1, p) = pat}
    <3>1. \A p \in ends : p \in 0..Len(text)
      BY <2>1, <2>3
    <3>2. h[f] \in ends
      <4> HIDE DEF ends
      <4>1. \A e, q : e = ends /\ q = Find(text, pat) => (q = 0 /\ e = {}) \/ q \in e
        BY <1>4, <2>1, <2>3, FindIsFirst DEF ends
      <4>2. QED
        BY <2>3, <2>5, <4>1
    <3>3. PICK p : p = h[f] /\ p \in 0..Len(text)
      BY <3>1, <3>2
    <3>4. Len(text) \in Nat
      BY <2>3
    <3>5. PICK k \in 0..(Len(text) - p) :
            /\ ReadWhile(text, p) = SubSeq(text, p + 1, p + k)
            /\ \A x \in 1..k : IsVersionChar(text[p + x])
      BY <3>3, <3>4, ReadIs
    <3>6. PICK t : t = SubSeq(text, p + 1, p + k) /\ t = w[f]
      BY <2>3, <3>3, <3>5
    <3>7. t \in Seq(S) /\ Len(t) = k /\ \A x \in 1..k : t[x] = text[p + x]
      BY <2>3, <3>3, <3>4, <3>6
    <3>8. k \in Nat /\ DOMAIN t = 1..k
      BY <3>3, <3>4, <3>7
    <3>9. \A x \in 1..k : IsVersionChar(t[x])
      BY <3>5, <3>7
    <3>10. QED
      BY <3>6, <3>7, <3>8, <3>9
  <2>6. QED
    BY <2>2, <2>4, <2>5
<1>8. ~hasDigit(<<>>)
  BY DEF hasDigit
<1>9. read = {w[f] : f \in {g \in targets : h[g] # 0}}
  BY <1>3, <1>6
<1>10. Tokens(d) = {t \in read : hasDigit(t)}
  <2>1. Tokens(d) = {t \in {FirstToken(project[f], pat) : f \in targets} : hasDigit(t)}
    BY <1>3 DEF Tokens
  <2>2. \A t : t \in Tokens(d) <=> hasDigit(t) /\ \E f \in targets : t = FirstToken(project[f], pat)
    BY <2>1
  <2>3. \A t : hasDigit(t) => ((\E f \in targets : t = FirstToken(project[f], pat)) <=> t \in read)
    BY <1>7, <1>8, <1>9
  <2>4. QED
    BY <2>2, <2>3
<1>11. IsFiniteSet(Tokens(d))
  <2>1. IsFiniteSet({w[f] : f \in targets})
    <3>1. DOMAIN w = targets
      BY <1>6
    <3>2. QED
      BY <1>2, <3>1, ImageFinite, Zenon
  <2>2. Tokens(d) \subseteq {w[f] : f \in targets}
    BY <1>9, <1>10
  <2>3. QED
    BY <2>1, <2>2, FS_Subset
<1>12. ASSUME NEW t \in Tokens(d)
       PROVE  /\ DOMAIN t = 1..Len(t) /\ Len(t) \in Nat \ {0}
              /\ \A x \in 1..Len(t) : IsVersionChar(t[x])
  <2>1. PICK f \in targets : t = w[f] /\ h[f] # 0 /\ hasDigit(t)
    BY <1>9, <1>10
  <2>2. DOMAIN t # {}
    BY <2>1 DEF hasDigit
  <2>3. QED
    BY <1>7, <2>1, <2>2
<1>13. QED
  BY <1>10, <1>11, <1>12

(* The constraints semver accepts are sequences of comparisons, and a       *)
(* minimum comes first where the detector asks for one.                     *)
LEMMA ConstraintIs ==
    ASSUME NEW d, NEW t, DOMAIN t = 1..Len(t), Len(t) \in Nat \ {0},
           \A x \in 1..Len(t) : IsVersionChar(t[x]), Valid(t, d)
    PROVE  IsToken(Constraint(t, d)) /\ (d.minimum => Constraint(t, d)[1].op = ">=")
<1>1. PICK n, k : n = Len(t) /\ k = Constraint(t, d)
  OBVIOUS
<1>2. \A x \in 1..n : t[x] \in DOMAIN Literal
  <2>1. \A x \in 1..n : t[x] # "dot"
    BY <1>1 DEF Valid, ToSet
  <2>2. QED
    BY <1>1, <2>1 DEF IsVersionChar
<1>3. /\ DOMAIN k = 1..n
      /\ k = [i \in 1..n |-> IF i = 1 /\ d.minimum THEN [Literal[t[i]] EXCEPT !.op = ">="] ELSE Literal[t[i]]]
  BY <1>1 DEF Constraint
<1>4. \A x \in 1..n : Literal[t[x]] \in Comparisons
  BY <1>2, LiteralAssumption DEF Comparisons, Operators, Pairs
<1>5. \A c \in Comparisons : [c EXCEPT !.op = ">="] \in Comparisons /\ [c EXCEPT !.op = ">="].op = ">="
  <2> SUFFICES ASSUME NEW c \in Comparisons
               PROVE  [c EXCEPT !.op = ">="] \in Comparisons /\ [c EXCEPT !.op = ">="].op = ">="
    OBVIOUS
  <2>1. PICK e, b : e = [op |-> ">=", v |-> c.v, partial |-> b] /\ b = c.partial
    OBVIOUS
  <2>2. c.v \in Pairs /\ b \in BOOLEAN /\ c = [op |-> c.op, v |-> c.v, partial |-> b]
    BY <2>1, Zenon DEF Comparisons
  <2>3. [c EXCEPT !.op = ">="] = e
    BY <2>1, <2>2
  <2>4. e \in Comparisons
    BY <2>1, <2>2 DEF Comparisons, Operators
  <2>5. QED
    BY <2>1, <2>3, <2>4
<1>6. \A x \in 1..n : k[x] \in Comparisons
  BY <1>3, <1>4, <1>5
<1>7. k \in Seq(Comparisons) /\ Len(k) = n
  BY <1>1, <1>3, <1>6
<1>8. d.minimum => k[1].op = ">="
  BY <1>1, <1>3, <1>4, <1>5
<1>9. QED
  BY <1>1, <1>7, <1>8 DEF IsToken

(* The constraints one kind of file gives. *)
Asked(d) == {Constraint(t, d) : t \in Tokens(d)}

(* A detector that does not fail settles on the version of its constraints. *)
LEMMA ScanIs ==
    ASSUME SearchInv, NEW i \in DOMAIN Detectors[lang], NEW d, d = Detectors[lang][i],
           NEW r, r = ScanFiles(d), ~r.err
    PROVE  IF Tokens(d) = {} THEN r.version = NoVersionFound
           ELSE /\ r.version = MaxVersionFromConstraints(Asked(d))
                /\ \A t \in Tokens(d) : Valid(t, d)
<1> DEFINE targets == FindFile(d.target)
           withPrefix == {f \in targets : Find(project[f], d.prefix) # 0}
           read == {ReadWhile(project[f], Find(project[f], d.prefix)) : f \in withPrefix}
           tokens == {t \in read : hasDigit(t)}
           tooLong == \E t \in read : Len(t) > MaxToken
           invalid == \E t \in tokens : ~Valid(t, d)
           asked == {Constraint(t, d) : t \in tokens}
<1>1. r = IF targets = {} THEN Answer(FALSE, HasFilesWithExtensions(d.exts), NoVersionFound)
          ELSE IF tooLong \/ invalid THEN Answer(TRUE, FALSE, NoVersionFound)
          ELSE IF tokens = {} THEN Answer(FALSE, TRUE, NoVersionFound)
          ELSE Answer(FALSE, TRUE, MaxVersionFromConstraints(asked))
  BY Zenon DEF ScanFiles
<1>2. Tokens(d) = tokens
  BY TokensAre
<1>3. asked = Asked(d)
  BY <1>2 DEF Asked
<1>4. targets = {} => tokens = {}
  OBVIOUS
<1>5. ~invalid => \A t \in tokens : Valid(t, d)
  OBVIOUS
<1> HIDE DEF targets, tokens, tooLong, invalid, asked
<1>6. CASE targets = {}
  <2>1. r = Answer(FALSE, HasFilesWithExtensions(d.exts), NoVersionFound)
    BY <1>1, <1>6, Zenon
  <2>2. r.version = NoVersionFound
    BY <2>1 DEF Answer
  <2>3. QED
    BY <1>2, <1>4, <1>6, <2>2
<1>7. CASE targets # {}
  <2>1. ASSUME tooLong \/ invalid PROVE FALSE
    <3>1. r = Answer(TRUE, FALSE, NoVersionFound)
      BY <1>1, <1>7, <2>1, Zenon
    <3>2. QED
      BY <3>1 DEF Answer
  <2>2. r = IF tokens = {} THEN Answer(FALSE, TRUE, NoVersionFound)
            ELSE Answer(FALSE, TRUE, MaxVersionFromConstraints(asked))
    BY <1>1, <1>7, <2>1, Zenon
  <2>3. r.version = IF tokens = {} THEN NoVersionFound ELSE MaxVersionFromConstraints(asked)
    BY <2>2 DEF Answer
  <2>4. QED
    BY <1>2, <1>3, <1>5, <2>1, <2>3
<1>8. QED
  BY <1>6, <1>7

LEMMA AskedAre ==
    ASSUME SearchInv, NEW i \in DOMAIN Detectors[lang], NEW d, d = Detectors[lang][i],
           \A t \in Tokens(d) : Valid(t, d)
    PROVE  /\ IsFiniteSet(Asked(d)) /\ (Tokens(d) # {} => Asked(d) # {})
           /\ \A t \in Asked(d) : IsToken(t) /\ (d.minimum => t[1].op = ">=")
<1>1. /\ IsFiniteSet(Tokens(d))
      /\ \A t \in Tokens(d) :
            /\ DOMAIN t = 1..Len(t) /\ Len(t) \in Nat \ {0}
            /\ \A x \in 1..Len(t) : IsVersionChar(t[x])
  BY TokensAre
<1>2. PICK g : g = [t \in Tokens(d) |-> Constraint(t, d)]
  OBVIOUS
<1>3. Asked(d) = {g[t] : t \in Tokens(d)}
  BY <1>2 DEF Asked
<1>4. IsFiniteSet({g[t] : t \in Tokens(d)})
  <2>1. DOMAIN g = Tokens(d) /\ IsFiniteSet(Tokens(d))
    BY <1>1, <1>2
  <2>2. QED
    BY <2>1, ImageFinite, Zenon
<1>5. ASSUME NEW t \in Tokens(d)
      PROVE  g[t] = Constraint(t, d) /\ IsToken(g[t]) /\ (d.minimum => g[t][1].op = ">=")
  BY <1>1, <1>2, ConstraintIs
<1>6. QED
  BY <1>3, <1>4, <1>5

LEMMA ScanSame ==
    ASSUME project' = project
    PROVE  \A d : ScanFiles(d)' = ScanFiles(d)
BY SMT DEF ScanFiles, FindFile, HasFilesWithExtensions

(* What the detectors answered so far, and what is made of it in the end.   *)
Outcomes == {ScanFiles(Detectors[lang][i]) : i \in DOMAIN Detectors[lang]}

DetectInv ==
    /\ SearchInv /\ results \in Seq(Outcomes) /\ Len(results) <= Len(Detectors[lang])
    /\ \A i \in 1..Len(results) : results[i] = ScanFiles(Detectors[lang][i])
    /\ outcome = Pending \/ outcome.err
        \/ /\ Len(results) = Len(Detectors[lang])
           /\ outcome.version = pickVersion({results[i].version : i \in DOMAIN results})
    /\ outcome = Pending \/ ~outcome.err => \A i \in 1..Len(results) : ~results[i].err

LEMMA DetectInitInv == DetectInit => DetectInv
<1> SUFFICES ASSUME DetectInit PROVE DetectInv
  OBVIOUS
<1>1. SearchInv /\ results = <<>> /\ outcome = Pending
  BY DEF DetectInit, SearchInv
<1>2. Len(Detectors[lang]) \in Nat
  BY <1>1, DetectorsAre DEF SearchInv
<1>3. results \in Seq(Outcomes) /\ Len(results) = 0
  BY <1>1
<1>4. QED
  BY <1>1, <1>2, <1>3 DEF DetectInv

LEMMA DetectStep == DetectInv /\ [DetectNext]_vars => DetectInv'
<1> SUFFICES ASSUME DetectInv, [DetectNext]_vars PROVE DetectInv'
  OBVIOUS
<1>1. lang' = lang /\ project' = project
  BY DEF DetectNext, RunDetector, Scan, vars
<1>2. PICK ds : ds = Detectors[lang]
  OBVIOUS
<1>3. Len(ds) \in Nat /\ DOMAIN ds = 1..Len(ds)
  BY <1>2, DetectorsAre DEF DetectInv, SearchInv
<1>4. SearchInv'
  BY <1>1 DEF DetectInv, SearchInv
<1>5. PICK out : /\ out = Outcomes /\ out = Outcomes'
                 /\ \A i \in DOMAIN ds : ScanFiles(ds[i]) \in out
  <2>1. PICK sc : sc = [i \in DOMAIN ds |-> ScanFiles(ds[i])]
    OBVIOUS
  <2>2. Outcomes = {sc[i] : i \in DOMAIN ds}
    BY <1>2, <2>1 DEF Outcomes
  <2>3. \A i \in DOMAIN ds : ScanFiles(ds[i])' = sc[i]
    BY <1>1, <2>1, ScanSame
  <2>4. Outcomes' = {sc[i] : i \in DOMAIN ds}
    BY <1>1, <1>2, <2>3 DEF Outcomes
  <2>5. QED
    BY <2>1, <2>2, <2>4
<1>6. \A i : (ScanFiles(Detectors[lang][i]))' = ScanFiles(ds[i])
  BY <1>1, <1>2, ScanSame
<1>7. CASE UNCHANGED vars
  BY <1>1, <1>2, <1>4, <1>5, <1>6, <1>7 DEF DetectInv, vars
<1>8. CASE RunDetector
  <2>1. PICK n, x : n = Len(results) /\ x = ScanFiles(ds[n + 1])
    OBVIOUS
  <2>2. results' = Append(results, x) /\ n \in Nat /\ n + 1 \in DOMAIN ds /\ outcome = Pending
    BY <1>2, <1>3, <1>5, <1>8, <2>1 DEF RunDetector, DetectInv
  <2>3. results' \in Seq(out) /\ Len(results') = n + 1 /\ results'[n + 1] = x
        /\ \A i \in 1..n : results'[i] = results[i]
    BY <1>5, <2>1, <2>2 DEF DetectInv
  <2>4. outcome' = IF x.err THEN x ELSE Pending
    <3>1. Last(results') = x
      BY <2>3 DEF Last
    <3>2. QED
      BY <1>8, <3>1 DEF RunDetector
  <2>5. \A i \in 1..(n + 1) : results'[i] = ScanFiles(ds[i])
    BY <1>2, <2>1, <2>2, <2>3 DEF DetectInv
  <2>6. \A i \in 1..n : ~results[i].err
    BY <2>1, <2>2 DEF DetectInv
  <2>7. (outcome = Pending \/ ~outcome.err)' => \A i \in 1..(n + 1) : ~results'[i].err
    BY <2>2, <2>3, <2>4, <2>6 DEF Pending, Answer
  <2>8. QED
    BY <1>1, <1>2, <1>3, <1>4, <1>5, <1>6, <2>2, <2>3, <2>4, <2>5, <2>7 DEF DetectInv
<1>9. CASE Scan
  <2>1. results' = results /\ Len(results) = Len(ds) /\ outcome = Pending
    BY <1>2, <1>9 DEF Scan
  <2>2. outcome'.version = pickVersion({results[i].version : i \in DOMAIN results})
    BY <1>9, Zenon DEF Scan, Answer
  <2>3. QED
    BY <1>1, <1>2, <1>4, <1>5, <1>6, <2>1, <2>2 DEF DetectInv
<1>10. QED
  BY <1>7, <1>8, <1>9 DEF DetectNext

LEMMA DetectJustified == DetectInv => VersionJustified
<1> SUFFICES ASSUME DetectInv, outcome # Pending, ~outcome.err PROVE VersionJustified
  BY DEF VersionJustified
<1> DEFINE ds == Detectors[lang]
           v == outcome.version
           n == Len(ds)
           giving == {i \in DOMAIN ds : Tokens(ds[i]) # {}}
           asked(i) == {Constraint(t, ds[i]) : t \in Tokens(ds[i])}
<1> SUFFICES
        /\ v = NoVersionFound <=> giving = {}
        /\ \A i \in giving : v = results[i].version \/ ~AtLeast(results[i].version, v)
        /\ lang = "golang" /\ giving # {} =>
            /\ \E c \in Comparators(asked(1)) : v = c.v \/ (c.op = ">" /\ v = <<c.v[1] + 1, 0>>)
            /\ \A t \in asked(1) : AtLeast(v, t[1].v)
        /\ giving # {} => \E i \in giving :
            \/ \A t \in asked(i) : Satisfies(v, t)
            \/ \A w \in {c.v : c \in Comparators(asked(i))} : \E t \in asked(i) : ~Satisfies(w, t)
  BY Zenon DEF VersionJustified
<1>1. ds = Detectors[lang] /\ v = outcome.version /\ n = Len(ds)
  OBVIOUS
<1>2. giving = {i \in DOMAIN ds : Tokens(ds[i]) # {}}
  OBVIOUS
<1>3. \A i : asked(i) = Asked(ds[i])
  BY DEF Asked
<1> HIDE DEF ds, v, n, giving, asked
<1>4. n \in Nat /\ DOMAIN ds = 1..n
  BY <1>1, DetectorsAre DEF DetectInv, SearchInv
<1>5. /\ DOMAIN results = 1..n /\ v = pickVersion({results[i].version : i \in DOMAIN results})
      /\ \A i \in 1..n : results[i] = ScanFiles(ds[i]) /\ ~results[i].err
  BY <1>1 DEF DetectInv
<1>6. ASSUME NEW i \in DOMAIN ds, i \notin giving PROVE results[i].version = NoVersionFound
  <2>1. Tokens(ds[i]) = {}
    BY <1>2, <1>6
  <2>2. QED
    BY <1>1, <1>4, <1>5, <2>1, ScanIs DEF DetectInv
<1>7. ASSUME NEW i \in giving
      PROVE  /\ i \in DOMAIN ds /\ results[i].version = MaxVersionFromConstraints(Asked(ds[i]))
             /\ IsFiniteSet(Asked(ds[i])) /\ Asked(ds[i]) # {}
             /\ \A t \in Asked(ds[i]) : IsToken(t) /\ (ds[i].minimum => t[1].op = ">=")
  <2>1. i \in DOMAIN ds /\ Tokens(ds[i]) # {}
    BY <1>2
  <2>2. /\ results[i].version = MaxVersionFromConstraints(Asked(ds[i]))
        /\ \A t \in Tokens(ds[i]) : Valid(t, ds[i])
    BY <1>1, <1>4, <1>5, <2>1, ScanIs DEF DetectInv
  <2>3. QED
    BY <1>1, <2>1, <2>2, AskedAre DEF DetectInv
<1>8. \A i \in giving : results[i].version \in Pairs
  BY <1>7, SettledIs
<1>9. PICK vs : vs = {results[i].version : i \in DOMAIN results}
  OBVIOUS
<1>10. IsFiniteSet(vs)
  <2>1. PICK w : w = [i \in 1..n |-> results[i].version]
    OBVIOUS
  <2>2. vs = {w[i] : i \in 1..n} /\ DOMAIN w = 1..n
    BY <1>5, <1>9, <2>1
  <2>3. IsFiniteSet(1..n)
    BY <1>4, FS_Interval
  <2>4. IsFiniteSet({w[i] : i \in 1..n})
    BY <2>2, <2>3, ImageFinite, Zenon
  <2>5. QED
    BY <2>2, <2>4
<1>11. vs \subseteq Pairs \cup {NoVersionFound}
  BY <1>4, <1>5, <1>6, <1>8, <1>9
<1>12. PICK given : given = vs \cap Pairs
  OBVIOUS
<1>13. \A w : w \in given <=> \E i \in giving : w = results[i].version
  BY <1>4, <1>5, <1>6, <1>7, <1>8, <1>9, <1>12, NoPair
<1>14. /\ given = {} => v = NoVersionFound
       /\ given # {} => v \in given /\ \A w \in given : AtLeast(v, w)
  <2>1. v = pickVersion(vs)
    BY <1>5, <1>9
  <2>2. QED
    BY <1>10, <1>11, <1>12, <2>1, PickedIs
<1>15. v = NoVersionFound <=> giving = {}
  <2>1. giving = {} => v = NoVersionFound
    BY <1>13, <1>14
  <2>2. giving # {} => v \in Pairs
    BY <1>12, <1>13, <1>14
  <2>3. QED
    BY <2>1, <2>2, NoPair
<1>16. ASSUME giving # {}
       PROVE  /\ v \in Pairs /\ \E k \in giving : v = results[k].version
              /\ \A i \in giving : AtLeast(v, results[i].version)
  BY <1>12, <1>13, <1>14, <1>16
<1>17. \A i \in giving : v = results[i].version \/ ~AtLeast(results[i].version, v)
  BY <1>8, <1>16, VersionsOrdered
<1>18. ASSUME lang = "golang", giving # {}
       PROVE  /\ \E c \in Comparators(Asked(ds[1])) : v = c.v \/ (c.op = ">" /\ v = <<c.v[1] + 1, 0>>)
              /\ \A t \in Asked(ds[1]) : AtLeast(v, t[1].v)
  <2>1. DOMAIN ds = {1} /\ ds[1].minimum
    BY <1>1, <1>18, DetectorsAre
  <2>2. 1 \in giving /\ v = results[1].version
    BY <1>7, <1>16, <1>18, <2>1
  <2>3. QED
    BY <1>7, <2>1, <2>2, MinimumsMet
<1>19. ASSUME giving # {}
       PROVE  \E i \in giving :
                \/ \A t \in Asked(ds[i]) : Satisfies(v, t)
                \/ \A w \in {c.v : c \in Comparators(Asked(ds[i]))} : \E t \in Asked(ds[i]) : ~Satisfies(w, t)
  <2>1. PICK k \in giving : v = results[k].version
    BY <1>16, <1>19
  <2>2. PICK ts : ts = Asked(ds[k])
    OBVIOUS
  <2>3. IsFiniteSet(ts) /\ ts # {} /\ (\A t \in ts : IsToken(t)) /\ v = MaxVersionFromConstraints(ts)
    BY <1>7, <2>1, <2>2
  <2>4. (\A t \in ts : Satisfies(v, t)) \/ Satisfying(ts) = {}
    BY <2>3, SettledIs
  <2>5. \A c \in Comparators(ts) : c.v \in collectCandidates(ts)
    BY <2>3, CandidatesAre
  <2>6. Satisfying(ts) = {} => \A c \in Comparators(ts) : \E t \in ts : ~Satisfies(c.v, t)
    BY <2>5 DEF Satisfying
  <2>7. QED
    BY <2>2, <2>4, <2>6
<1>20. QED
  BY <1>3, <1>15, <1>17, <1>18, <1>19

(* The version reported is justified by the files of the project: for any   *)
(* files and any constraints written in them.                               *)
THEOREM VersionIsJustified == DetectSpec => []VersionJustified
<1>1. DetectInv => VersionJustified
  BY DetectJustified
<1>2. QED
  BY DetectInitInv, DetectStep, <1>1, PTL DEF DetectSpec

-----------------------------------------------------------------------------
(* The filter of the container's output *)

(* The sequence q stands at position i of the first n symbols of s. *)
Occurs(s, n, i, q) ==
    i \in Nat \ {0} /\ i + Len(q) <= n + 1 /\ \A x \in 1..Len(q) : s[(i - 1) + x] = q[x]

(* No two sequences stand in one another: only the first symbol of one is   *)
(* an escape, and none is the start of the other.                           *)
LEMMA RmcupApart ==
    /\ \A q \in Rmcup : Len(q) \in Nat \ {0} /\ q[1] = "e" /\ \A x \in 2..Len(q) : q[x] # "e"
    /\ \A q, r \in Rmcup : Len(q) <= Len(r) /\ (\A x \in 1..Len(q) : q[x] = r[x]) => q = r
<1>1. PICK a, b : a = <<"e", "[", "?", "1", "0", "4", "9", "l">> /\ b = <<"e", "[", "?", "4", "7", "l">>
  OBVIOUS
<1>2. /\ Len(a) = 8 /\ a[1] = "e" /\ a[2] = "[" /\ a[3] = "?" /\ a[4] = "1"
      /\ a[5] = "0" /\ a[6] = "4" /\ a[7] = "9" /\ a[8] = "l"
  BY <1>1
<1>3. /\ Len(b) = 6 /\ b[1] = "e" /\ b[2] = "[" /\ b[3] = "?" /\ b[4] = "4"
      /\ b[5] = "7" /\ b[6] = "l"
  BY <1>1
<1>4. \A q : q \in Rmcup <=> q = a \/ q = b
  BY <1>1 DEF Rmcup
<1>5. \A x \in 2..8 : a[x] # "e"
  <2>1. \A x \in 2..8 : x = 2 \/ x = 3 \/ x = 4 \/ x = 5 \/ x = 6 \/ x = 7 \/ x = 8
    OBVIOUS
  <2>2. QED
    BY <1>2, <2>1
<1>6. \A x \in 2..6 : b[x] # "e"
  <2>1. \A x \in 2..6 : x = 2 \/ x = 3 \/ x = 4 \/ x = 5 \/ x = 6
    OBVIOUS
  <2>2. QED
    BY <1>3, <2>1
<1>7. a[4] # b[4] /\ 4 \in 1..Len(a) /\ 4 \in 1..Len(b)
  BY <1>2, <1>3
<1>8. \A q \in Rmcup : Len(q) \in Nat \ {0} /\ q[1] = "e" /\ \A x \in 2..Len(q) : q[x] # "e"
  BY <1>2, <1>3, <1>4, <1>5, <1>6
<1>9. \A q, r \in Rmcup : Len(q) <= Len(r) /\ (\A x \in 1..Len(q) : q[x] = r[x]) => q = r
  BY <1>4, <1>7
<1>10. QED
  BY <1>8, <1>9

LEMMA RmcupText == \A q \in Rmcup : \E R : q \in Seq(R)
<1> SUFFICES ASSUME NEW q \in Rmcup PROVE \E R : q \in Seq(R)
  OBVIOUS
<1>1. \A T : \A a, b, c, e \in T : \A f, g, h, k \in T :
          <<a, b, c, e, f, g, h, k>> \in Seq(T) /\ <<a, b, c, e, f, g>> \in Seq(T)
  OBVIOUS
<1>2. PICK R : R = {"e", "[", "?", "1", "0", "4", "9", "7", "l"}
  OBVIOUS
<1>3. "e" \in R /\ "[" \in R /\ "?" \in R /\ "1" \in R /\ "0" \in R /\ "4" \in R /\ "9" \in R
      /\ "7" \in R /\ "l" \in R
  BY <1>2
<1>4. <<"e", "[", "?", "1", "0", "4", "9", "l">> \in Seq(R) /\ <<"e", "[", "?", "4", "7", "l">> \in Seq(R)
  BY <1>1, <1>3
<1>5. q \in Seq(R)
  BY <1>4 DEF Rmcup
<1>6. QED
  BY <1>5

LEMMA RmcupWhole == \A q \in Rmcup : SubSeq(q, 1, Len(q)) = q
<1> SUFFICES ASSUME NEW q \in Rmcup PROVE SubSeq(q, 1, Len(q)) = q
  OBVIOUS
<1>1. PICK R : q \in Seq(R)
  BY RmcupText
<1>2. QED
  BY <1>1

(* IsPrefix, symbol by symbol. *)
LEMMA PrefixOfRest ==
    ASSUME NEW S, NEW d \in Seq(S), NEW i \in 1..(Len(d) + 1), NEW q \in Rmcup
    PROVE  /\ IsPrefix(q, SubSeq(d, i, Len(d))) <=> Occurs(d, Len(d), i, q)
           /\ IsPrefix(SubSeq(d, i, Len(d)), q) <=>
                /\ (Len(d) + 1) - i <= Len(q)
                /\ \A x \in 1..((Len(d) + 1) - i) : d[(i - 1) + x] = q[x]
<1>1. PICK R : q \in Seq(R)
  BY RmcupText
<1>2. PICK u, n : u = SubSeq(d, i, Len(d)) /\ n = (Len(d) + 1) - i
  OBVIOUS
<1>3. u \in Seq(S) /\ Len(u) = n /\ n \in Nat /\ \A x \in 1..n : u[x] = d[(i - 1) + x]
  BY <1>2
<1>4. ASSUME NEW m \in Nat, m <= Len(q), m <= n
      PROVE  SubSeq(q, 1, m) = SubSeq(u, 1, m) <=> \A x \in 1..m : q[x] = u[x]
  <2>1. PICK v, w : v = SubSeq(q, 1, m) /\ w = SubSeq(u, 1, m)
    OBVIOUS
  <2>2. v \in Seq(R) /\ Len(v) = m /\ \A x \in 1..m : v[x] = q[x]
    BY <1>1, <1>4, <2>1
  <2>3. w \in Seq(S) /\ Len(w) = m /\ \A x \in 1..m : w[x] = u[x]
    BY <1>3, <1>4, <2>1
  <2>4. v = w <=> \A x \in 1..m : v[x] = w[x]
    BY <2>2, <2>3
  <2>5. QED
    BY <2>1, <2>2, <2>3, <2>4
<1>5. Len(q) \in Nat
  BY <1>1
<1>6. IsPrefix(q, u) <=> Len(q) <= n /\ \A x \in 1..Len(q) : q[x] = u[x]
  BY <1>3, <1>4, <1>5 DEF IsPrefix
<1>7. IsPrefix(u, q) <=> n <= Len(q) /\ \A x \in 1..n : q[x] = u[x]
  BY <1>3, <1>4, <1>5 DEF IsPrefix
<1>8. Occurs(d, Len(d), i, q) <=> Len(q) <= n /\ \A x \in 1..Len(q) : q[x] = u[x]
  <2>1. i \in Nat \ {0} /\ (i + Len(q) <= Len(d) + 1 <=> Len(q) <= n)
    BY <1>2, <1>5
  <2>2. Len(q) <= n => \A x \in 1..Len(q) : u[x] = d[(i - 1) + x]
    BY <1>3, <1>5
  <2>3. QED
    BY <2>1, <2>2 DEF Occurs
<1>9. QED
  BY <1>2, <1>3, <1>6, <1>7, <1>8

(* The positions of the first n symbols inside a sequence that is among them. *)
Hidden(s, n) == {k \in 1..n : \E i \in 1..k : \E q \in Rmcup : Occurs(s, n, i, q) /\ k < i + Len(q)}

(* One symbol more of s without the positions h. *)
Add(s, h, k, x) == IF k \in h THEN x ELSE Append(x, s[k])

(* s without the positions h, after each of its first n symbols. *)
KeptOf(s, h, n) ==
    LET kept[k \in 0..n] ==
            IF k = 0 THEN <<>> ELSE Add(s, h, k, kept[k - 1])
    IN  kept

LEMMA KeptIs ==
    ASSUME NEW s, NEW h, NEW n \in Nat
    PROVE  LET g == KeptOf(s, h, n) IN
           /\ g[0] = <<>>
           /\ \A k \in 1..n : g[k] = Add(s, h, k, g[k - 1])
<1> DEFINE Step(g, k) == IF k = 0 THEN <<>> ELSE Add(s, h, k, g[k - 1])
           T == {m \in Nat : m <= n => \E g : g = [k \in 0..m |-> Step(g, k)]}
<1>1. 0 \in T
  <2>1. PICK g : g = [k \in 0..0 |-> <<>>]
    OBVIOUS
  <2>2. g = [k \in 0..0 |-> Step(g, k)]
    BY <2>1
  <2>3. QED
    BY <2>2
<1>2. ASSUME NEW m \in T PROVE m + 1 \in T
  <2> SUFFICES ASSUME m + 1 <= n PROVE \E g : g = [k \in 0..(m + 1) |-> Step(g, k)]
    OBVIOUS
  <2>1. PICK g : g = [k \in 0..m |-> Step(g, k)]
    OBVIOUS
  <2>2. PICK f : f = [k \in 0..(m + 1) |-> Step(g, k)]
    OBVIOUS
  <2>3. \A k \in 0..m : f[k] = g[k]
    <3>1. \A k \in 0..m : k \in 0..(m + 1)
      OBVIOUS
    <3>2. QED
      BY <2>1, <2>2, <3>1
  <2>4. \A k \in 0..(m + 1) : Step(f, k) = Step(g, k)
    <3>1. ASSUME NEW k \in 0..(m + 1), k # 0 PROVE f[k - 1] = g[k - 1]
      BY <2>3, <3>1
    <3>2. QED
      BY <3>1
  <2>5. f = [k \in 0..(m + 1) |-> Step(f, k)]
    BY <2>2, <2>4
  <2>6. QED
    BY <2>5
<1>3. T = Nat
  <2> HIDE DEF T
  <2>0. T \in SUBSET Nat
    BY DEF T
  <2>1. QED
    BY <1>1, <1>2, <2>0, Induct
<1>4. \E g : g = [k \in 0..n |-> Step(g, k)]
  BY <1>3, SMTT(60)
<1>5. KeptOf(s, h, n) = CHOOSE g : g = [k \in 0..n |-> Step(g, k)]
  BY DEF KeptOf
<1>6. PICK g : g = KeptOf(s, h, n) /\ g = [k \in 0..n |-> Step(g, k)]
  BY <1>4, <1>5
<1>7. g[0] = <<>>
  BY <1>6
<1>8. \A k \in 1..n : g[k] = Add(s, h, k, g[k - 1])
  BY <1>6
<1>9. QED
  BY <1>6, <1>7, <1>8

(* What is kept of a part depends on that part alone. *)
LEMMA KeptSame ==
    ASSUME NEW s, NEW h, NEW n \in Nat, NEW t, NEW j, NEW m \in Nat, NEW c \in Nat, c <= n, c <= m,
           \A k \in 1..c : s[k] = t[k] /\ (k \in h <=> k \in j)
    PROVE  KeptOf(s, h, n)[c] = KeptOf(t, j, m)[c]
<1>1. PICK f, g : f = KeptOf(s, h, n) /\ g = KeptOf(t, j, m)
  OBVIOUS
<1>2. f[0] = <<>> /\ \A k \in 1..n : f[k] = Add(s, h, k, f[k - 1])
  BY <1>1, KeptIs
<1>3. g[0] = <<>> /\ \A k \in 1..m : g[k] = Add(t, j, k, g[k - 1])
  BY <1>1, KeptIs
<1> DEFINE T == {k \in Nat : k <= c => f[k] = g[k]}
<1>4. 0 \in T
  BY <1>2, <1>3
<1>5. ASSUME NEW k \in T PROVE k + 1 \in T
  <2> SUFFICES ASSUME k + 1 <= c PROVE f[k + 1] = g[k + 1]
    OBVIOUS
  <2>1. PICK l : l = k + 1
    OBVIOUS
  <2>2. l \in 1..c /\ l \in 1..n /\ l \in 1..m /\ l - 1 = k /\ f[k] = g[k]
    BY <2>1
  <2>3. Add(s, h, l, f[k]) = Add(t, j, l, g[k])
    BY <2>2 DEF Add
  <2>4. QED
    BY <1>2, <1>3, <2>1, <2>2, <2>3
<1>6. T = Nat
  <2> HIDE DEF T
  <2>0. T \in SUBSET Nat
    BY DEF T
  <2>1. QED
    BY <1>4, <1>5, <2>0, Induct
<1>7. QED
  BY <1>1, <1>6

(* Kept positions are appended, the others add nothing. *)
RunsFrom(S, g, s, h, n, c) ==
    /\ g[c] \in Seq(S)
    /\ \A m \in c..n :
        /\ (\A k \in (c + 1)..m : k \notin h) => g[m] = g[c] \o SubSeq(s, c + 1, m)
        /\ (\A k \in (c + 1)..m : k \in h) => g[m] = g[c]

LEMMA KeptRun ==
    ASSUME NEW S, NEW s \in Seq(S), NEW h, NEW n \in 0..Len(s), NEW c \in 0..n
    PROVE  RunsFrom(S, KeptOf(s, h, n), s, h, n, c)
<1>0. ASSUME NEW a \in Seq(S), NEW b \in Seq(S), NEW x \in S
      PROVE  Append(a \o b, x) = a \o Append(b, x)
  <2>1. PICK u, v : u = Append(a \o b, x) /\ v = a \o Append(b, x)
    OBVIOUS
  <2>2. PICK l \in Nat : l = Len(a) + Len(b) + 1
    OBVIOUS
  <2>3. u \in Seq(S) /\ v \in Seq(S) /\ Len(u) = l /\ Len(v) = l
    BY <2>1, <2>2
  <2>4. \A k \in 1..l : u[k] = v[k]
    BY <2>1, <2>2
  <2>5. u = v
    BY <2>3, <2>4
  <2>6. QED
    BY <2>1, <2>5
<1>1. PICK g : g = KeptOf(s, h, n)
  OBVIOUS
<1>2. g[0] = <<>> /\ \A k \in 1..n : g[k] = Add(s, h, k, g[k - 1])
  BY <1>1, KeptIs
<1>3. \A k \in 0..n : g[k] \in Seq(S)
  <2> DEFINE T == {k \in Nat : k <= n => g[k] \in Seq(S)}
  <2>1. 0 \in T
    <3>1. g[0] \in Seq(S)
      BY <1>2
    <3>2. QED
      BY <3>1
  <2>2. ASSUME NEW k \in T PROVE k + 1 \in T
    <3> SUFFICES ASSUME k + 1 <= n PROVE g[k + 1] \in Seq(S)
      OBVIOUS
    <3>1. PICK l : l = k + 1
      OBVIOUS
    <3>2. l \in 1..n /\ l \in 1..Len(s) /\ l - 1 = k /\ g[k] \in Seq(S)
      BY <3>1
    <3>3. s[l] \in S
      BY <3>2
    <3>4. Add(s, h, l, g[k]) \in Seq(S)
      BY <3>2, <3>3 DEF Add
    <3>5. QED
      BY <1>2, <3>1, <3>2, <3>4
  <2>3. T = Nat
    <3> HIDE DEF T
    <3>0. T \in SUBSET Nat
      BY DEF T
    <3>1. QED
      BY <2>1, <2>2, <3>0, Induct
  <2>4. QED
    BY <2>3
<1> DEFINE Runs(m) ==
             /\ (\A k \in (c + 1)..m : k \notin h) => g[m] = g[c] \o SubSeq(s, c + 1, m)
             /\ (\A k \in (c + 1)..m : k \in h) => g[m] = g[c]
           T == {d \in Nat : c + d <= n => Runs(c + d)}
<1>4. 0 \in T
  <2>1. g[c] \in Seq(S) /\ SubSeq(s, c + 1, c) = <<>>
    BY <1>3
  <2>2. g[c] \o <<>> = g[c]
    BY <2>1
  <2>3. c + 0 = c /\ Runs(c)
    BY <2>1, <2>2
  <2>4. QED
    <3> HIDE DEF Runs
    <3>1. QED
      BY <2>3
<1>5. ASSUME NEW d \in T PROVE d + 1 \in T
  <2> SUFFICES ASSUME c + (d + 1) <= n PROVE Runs(c + (d + 1))
    <3> HIDE DEF Runs
    <3>1. QED
      OBVIOUS
  <2>1. PICK m, l : m = c + d /\ l = m + 1
    OBVIOUS
  <2>2. /\ m \in c..n /\ l \in 1..n /\ l \in 1..Len(s) /\ l - 1 = m /\ c + (d + 1) = l /\ l \in (c + 1)..l
        /\ \A k \in (c + 1)..m : k \in (c + 1)..l
    BY <2>1
  <2>3. Runs(m)
    <3> HIDE DEF Runs
    <3>1. QED
      BY <2>1, <2>2
  <2>0. g[l] = IF l \in h THEN g[m] ELSE Append(g[m], s[l])
    BY <1>2, <2>2 DEF Add
  <2>4. ASSUME \A k \in (c + 1)..l : k \notin h PROVE g[l] = g[c] \o SubSeq(s, c + 1, l)
    <3>1. g[l] = Append(g[c] \o SubSeq(s, c + 1, m), s[l])
      BY <2>0, <2>2, <2>3, <2>4
    <3>2. PICK u : u = SubSeq(s, c + 1, m)
      OBVIOUS
    <3>3. u \in Seq(S) /\ SubSeq(s, c + 1, l) = Append(u, s[l]) /\ s[l] \in S /\ g[c] \in Seq(S)
      BY <1>3, <2>1, <2>2, <3>2
    <3>4. PICK a, x : a = g[c] /\ x = s[l] /\ a \in Seq(S) /\ x \in S
      BY <3>3
    <3>5. Append(a \o u, x) = a \o Append(u, x)
      BY <1>0, <3>3, <3>4, Zenon
    <3>6. QED
      BY <3>1, <3>2, <3>3, <3>4, <3>5
  <2>5. ASSUME \A k \in (c + 1)..l : k \in h PROVE g[l] = g[c]
    BY <2>0, <2>2, <2>3, <2>5
  <2>6. QED
    BY <2>2, <2>4, <2>5
<1>6. T = Nat
  <2> HIDE DEF T
  <2>0. T \in SUBSET Nat
    BY DEF T
  <2>1. QED
    BY <1>4, <1>5, <2>0, Induct
<1>7. ASSUME NEW m \in c..n PROVE Runs(m)
  <2>1. m - c \in T /\ c + (m - c) = m /\ m <= n
    <3> HIDE DEF T
    <3>1. QED
      BY <1>6
  <2>2. QED
    <3> HIDE DEF Runs
    <3>1. QED
      BY <2>1
<1>8. QED
  BY <1>1, <1>3, <1>7 DEF RunsFrom

(* No sequence begins in the first c symbols and ends after them. *)
Clean(s, c) == \A i \in 1..c : \A q \in Rmcup : Occurs(s, Len(s), i, q) => i + Len(q) <= c + 1

(* What of s is visible, after each symbol, once all of it is known. *)
Seen(s) == KeptOf(s, Hidden(s, Len(s)), Len(s))

LEMMA OccursIn ==
    ASSUME NEW S, NEW s \in Seq(S), NEW n \in 0..Len(s), NEW i, NEW q \in Rmcup
    PROVE  Occurs(s, n, i, q) <=> Occurs(s, Len(s), i, q) /\ i + Len(q) <= n + 1
<1>1. Len(q) \in Nat
  BY RmcupApart
<1>2. QED
  BY <1>1 DEF Occurs

(* What is hidden before a clean cut does not depend on what follows. *)
LEMMA HiddenBefore ==
    ASSUME NEW S, NEW s \in Seq(S), NEW n \in 0..Len(s), NEW c \in 0..n, Clean(s, c)
    PROVE  \A k \in 1..c : k \in Hidden(s, n) <=> k \in Hidden(s, Len(s))
<1>1. \A i : \A q \in Rmcup : Occurs(s, n, i, q) <=> Occurs(s, Len(s), i, q) /\ i + Len(q) <= n + 1
  BY OccursIn
<1>2. \A i \in 1..c : \A q \in Rmcup : Len(q) \in Nat /\ (i + Len(q) <= c + 1 => i + Len(q) <= n + 1)
  BY RmcupApart
<1>3. \A i \in 1..c : \A q \in Rmcup : Occurs(s, n, i, q) <=> Occurs(s, Len(s), i, q)
  BY <1>1, <1>2 DEF Clean
<1>4. \A k \in 1..c : k \in 1..n /\ k \in 1..Len(s) /\ \A i \in 1..k : i \in 1..c
  OBVIOUS
<1>5. QED
  BY <1>3, <1>4 DEF Hidden

(* Visible, by positions of the whole stream. *)
LEMMA VisibleIs ==
    ASSUME NEW S, NEW s \in Seq(S), NEW n \in 0..Len(s)
    PROVE  Visible(SubSeq(s, 1, n)) = KeptOf(s, Hidden(s, n), n)[n]
<1> DEFINE Places(d) == {k \in DOMAIN d : \E i \in 1..k :
                            \E seq \in {q \in Rmcup : IsPrefix(q, SubSeq(d, i, Len(d)))} : k < i + Len(seq)}
<1>1. PICK d : d = SubSeq(s, 1, n)
  OBVIOUS
<1>2. d \in Seq(S) /\ Len(d) = n /\ n \in Nat /\ \A x \in 1..n : d[x] = s[x]
  BY <1>1
<1>3. Visible(d) = KeptOf(d, Places(d), Len(d))[Len(d)]
  BY DEF Visible, KeptOf, Add
<1>4. \A i \in 1..n : \A q \in Rmcup : IsPrefix(q, SubSeq(d, i, Len(d))) <=> Occurs(d, n, i, q)
  BY <1>2, PrefixOfRest
<1>5. \A i \in 1..n : \A q \in Rmcup : Occurs(d, n, i, q) <=> Occurs(s, n, i, q)
  <2>1. ASSUME NEW i \in 1..n, NEW q \in Rmcup, i + Len(q) <= n + 1
        PROVE  \A x \in 1..Len(q) : d[(i - 1) + x] = s[(i - 1) + x]
    <3>1. Len(q) \in Nat
      BY RmcupApart
    <3>2. \A x \in 1..Len(q) : (i - 1) + x \in 1..n
      BY <1>2, <2>1, <3>1
    <3>3. QED
      BY <1>2, <3>2
  <2>2. QED
    BY <2>1 DEF Occurs
<1>6. DOMAIN d = 1..n
  BY <1>2
<1>7. \A k \in 1..n : k \in Places(d) <=> k \in Hidden(s, n)
  <2>1. \A k \in 1..n : \A i \in 1..k : i \in 1..n
    BY <1>2
  <2>2. QED
    BY <1>4, <1>5, <1>6, <2>1 DEF Hidden
<1> HIDE DEF Places
<1>8. KeptOf(d, Places(d), n)[n] = KeptOf(s, Hidden(s, n), n)[n]
  BY <1>2, <1>7, KeptSame
<1>9. QED
  BY <1>1, <1>2, <1>3, <1>8

(* The start of a sequence. *)
Partial(b) == \E q \in Rmcup : Len(b) < Len(q) /\ \A x \in 1..Len(b) : b[x] = q[x]

(* What is held back after a clean cut is visible so far. *)
LEMMA HeldIsVisible ==
    ASSUME NEW S, NEW s \in Seq(S), NEW n \in 0..Len(s), NEW c \in 0..n, Clean(s, c),
           Partial(SubSeq(s, c + 1, n))
    PROVE  Visible(SubSeq(s, 1, n)) = Seen(s)[c] \o SubSeq(s, c + 1, n)
<1>1. PICK b : b = SubSeq(s, c + 1, n)
  OBVIOUS
<1>2. Len(b) = n - c /\ \A x \in 1..(n - c) : b[x] = s[c + x]
  BY <1>1
<1>3. PICK q \in Rmcup : n - c < Len(q) /\ \A x \in 1..(n - c) : s[c + x] = q[x]
  BY <1>1, <1>2 DEF Partial
<1>4. \A k \in (c + 1)..n : k \notin Hidden(s, n)
  <2> SUFFICES ASSUME NEW k \in (c + 1)..n, NEW i \in 1..k, NEW r \in Rmcup,
                      Occurs(s, n, i, r), k < i + Len(r)
               PROVE  FALSE
    BY DEF Hidden
  <2>1. /\ Len(r) \in Nat \ {0} /\ Len(q) \in Nat \ {0} /\ r[1] = "e"
        /\ \A x \in 2..Len(q) : q[x] # "e"
        /\ Len(r) <= Len(q) /\ (\A x \in 1..Len(r) : r[x] = q[x]) => r = q
    BY RmcupApart
  <2>2. i + Len(r) <= n + 1 /\ \A x \in 1..Len(r) : s[(i - 1) + x] = r[x]
    BY DEF Occurs
  <2>3. i > c
    <3> SUFFICES ASSUME i \in 1..c PROVE FALSE
      OBVIOUS
    <3>1. Occurs(s, Len(s), i, r)
      BY OccursIn
    <3>2. i + Len(r) <= c + 1
      BY <3>1 DEF Clean
    <3>3. QED
      BY <2>1, <3>2
  <2>4. i = c + 1
    <3>1. PICK x : x = i - c
      OBVIOUS
    <3>2. x \in 1..(n - c) /\ c + x = i /\ x \in 1..Len(q)
      BY <1>3, <2>1, <2>3, <3>1
    <3>3. s[i] = r[1]
      <4>1. 1 \in 1..Len(r) /\ (i - 1) + 1 = i
        BY <2>1
      <4>2. QED
        BY <2>2, <4>1
    <3>4. q[x] = "e"
      BY <1>3, <2>1, <3>2, <3>3
    <3>5. QED
      BY <2>1, <3>1, <3>2, <3>4
  <2>5. Len(r) <= n - c /\ \A x \in 1..Len(r) : r[x] = q[x]
    <3>1. \A x \in 1..Len(r) : x \in 1..(n - c) /\ (i - 1) + x = c + x
      BY <2>1, <2>2, <2>4
    <3>2. QED
      BY <1>3, <2>1, <2>2, <2>4, <3>1
  <2>6. QED
    BY <1>3, <2>1, <2>5
<1>5. KeptOf(s, Hidden(s, n), n)[c] = Seen(s)[c]
  <2>1. \A k \in 1..c : k \in Hidden(s, n) <=> k \in Hidden(s, Len(s))
    BY HiddenBefore
  <2>2. n \in Nat /\ Len(s) \in Nat /\ c \in Nat /\ c <= n /\ c <= Len(s)
    OBVIOUS
  <2>3. QED
    BY <2>1, <2>2, KeptSame DEF Seen
<1>6. KeptOf(s, Hidden(s, n), n)[n] = KeptOf(s, Hidden(s, n), n)[c] \o SubSeq(s, c + 1, n)
  <2>1. PICK h, g : h = Hidden(s, n) /\ g = KeptOf(s, h, n)
    OBVIOUS
  <2>2. RunsFrom(S, KeptOf(s, h, n), s, h, n, c)
    BY KeptRun
  <2>3. n \in c..n
    OBVIOUS
  <2>4. QED
    BY <1>4, <2>1, <2>2, <2>3 DEF RunsFrom
<1>7. QED
  BY <1>5, <1>6, VisibleIs

(* A clean cut moves on past a sequence, which stays out of sight, and past *)
(* a symbol where none begins, which shows.                                 *)
LEMMA CutMoves ==
    ASSUME NEW S, NEW s \in Seq(S), NEW p \in 0..(Len(s) - 1), Clean(s, p)
    PROVE  /\ \A q \in Rmcup : Occurs(s, Len(s), p + 1, q) =>
                /\ p + Len(q) \in (p + 1)..Len(s)
                /\ Clean(s, p + Len(q)) /\ Seen(s)[p + Len(q)] = Seen(s)[p]
           /\ (\A q \in Rmcup : ~Occurs(s, Len(s), p + 1, q)) =>
                Clean(s, p + 1) /\ Seen(s)[p + 1] = Append(Seen(s)[p], s[p + 1])
<1>1. PICK n, h, g : n = Len(s) /\ h = Hidden(s, n) /\ g = KeptOf(s, h, n)
  OBVIOUS
<1>2. g = Seen(s)
  BY <1>1 DEF Seen
<1>3. /\ g[p] \in Seq(S)
      /\ \A m \in p..n :
            /\ (\A k \in (p + 1)..m : k \notin h) => g[m] = g[p] \o SubSeq(s, p + 1, m)
            /\ (\A k \in (p + 1)..m : k \in h) => g[m] = g[p]
  <2>1. n \in 0..Len(s) /\ p \in 0..n
    BY <1>1
  <2>2. RunsFrom(S, KeptOf(s, h, n), s, h, n, p)
    BY <2>1, KeptRun
  <2>3. QED
    BY <1>1, <2>2 DEF RunsFrom
<1>4. \A q \in Rmcup : Len(q) \in Nat \ {0} /\ q[1] = "e" /\ \A x \in 2..Len(q) : q[x] # "e"
  BY RmcupApart
<1>5. \A i \in 1..p : \A q \in Rmcup : Occurs(s, n, i, q) => i + Len(q) <= p + 1
  BY <1>1 DEF Clean
<1>6. ASSUME NEW q \in Rmcup, Occurs(s, n, p + 1, q)
      PROVE  /\ p + Len(q) \in (p + 1)..n
             /\ Clean(s, p + Len(q)) /\ g[p + Len(q)] = g[p]
  <2>1. /\ (p + 1) + Len(q) <= n + 1 /\ Len(q) \in Nat \ {0}
        /\ \A x \in 1..Len(q) : s[p + x] = q[x]
    BY <1>4, <1>6 DEF Occurs
  <2>2. p + Len(q) \in (p + 1)..n /\ p + Len(q) \in p..n
    BY <1>1, <2>1
  <2>3. \A k \in (p + 1)..(p + Len(q)) : k \in h
    <3>1. \A k \in (p + 1)..(p + Len(q)) : k \in 1..n /\ p + 1 \in 1..k /\ k < (p + 1) + Len(q)
      BY <1>1, <2>1, <2>2
    <3>2. QED
      BY <1>1, <1>6, <3>1 DEF Hidden
  <2>4. ASSUME NEW i \in 1..(p + Len(q)), NEW r \in Rmcup, Occurs(s, n, i, r)
        PROVE  i + Len(r) <= (p + Len(q)) + 1
    <3>1. Len(r) \in Nat \ {0} /\ r[1] = "e" /\ \A x \in 2..Len(q) : q[x] # "e"
      BY <1>4
    <3>2. CASE i \in 1..p
      <4>1. i + Len(r) <= p + 1
        BY <1>5, <2>4, <3>2
      <4>2. QED
        BY <2>1, <3>1, <4>1
    <3>3. CASE i = p + 1
      <4>1. \A x \in 1..Len(r) : s[p + x] = r[x]
        BY <2>4, <3>3 DEF Occurs
      <4>2. Len(q) <= Len(r) => \A x \in 1..Len(q) : q[x] = r[x]
        BY <2>1, <3>1, <4>1
      <4>3. Len(q) <= Len(r) => q = r
        BY <4>2, RmcupApart
      <4>4. QED
        BY <2>1, <3>1, <3>3, <4>3
    <3>4. CASE i > p + 1
      <4>1. PICK x : x = i - p
        OBVIOUS
      <4>2. x \in 2..Len(q) /\ x \in 1..Len(q) /\ p + x = i
        BY <2>1, <3>4, <4>1
      <4>3. s[i] = "e"
        <5>1. \A y \in 1..Len(r) : s[(i - 1) + y] = r[y]
          BY <2>4 DEF Occurs
        <5>2. 1 \in 1..Len(r) /\ (i - 1) + 1 = i
          BY <3>1
        <5>3. QED
          BY <3>1, <5>1, <5>2
      <4>4. QED
        BY <2>1, <3>1, <4>2, <4>3
    <3>5. QED
      BY <3>2, <3>3, <3>4
  <2>5. Clean(s, p + Len(q))
    BY <1>1, <2>4 DEF Clean
  <2>6. QED
    BY <1>3, <2>2, <2>3, <2>5
<1>7. ASSUME \A q \in Rmcup : ~Occurs(s, n, p + 1, q)
      PROVE  Clean(s, p + 1) /\ g[p + 1] = Append(g[p], s[p + 1])
  <2>1. ASSUME NEW i \in 1..(p + 1), NEW r \in Rmcup, Occurs(s, n, i, r)
        PROVE  i \in 1..p /\ i + Len(r) <= p + 1
    <3>1. i \in 1..p
      BY <1>7, <2>1
    <3>2. QED
      BY <1>5, <2>1, <3>1
  <2>2. Clean(s, p + 1)
    <3>1. ASSUME NEW i \in 1..(p + 1), NEW r \in Rmcup, Occurs(s, n, i, r) PROVE i + Len(r) <= (p + 1) + 1
      <4>1. i \in 1..p /\ i + Len(r) <= p + 1 /\ Len(r) \in Nat
        BY <1>4, <2>1, <3>1
      <4>2. QED
        BY <4>1
    <3>2. QED
      BY <1>1, <3>1 DEF Clean
  <2>3. p + 1 \notin h
    <3> SUFFICES ASSUME NEW i \in 1..(p + 1), NEW r \in Rmcup, Occurs(s, n, i, r), p + 1 < i + Len(r)
                 PROVE  FALSE
      BY <1>1 DEF Hidden
    <3>1. i \in 1..p /\ i + Len(r) <= p + 1 /\ Len(r) \in Nat
      BY <1>4, <2>1
    <3>2. QED
      BY <3>1
  <2>5. g[p + 1] = Append(g[p], s[p + 1])
    <3>1. PICK l : l = p + 1
      OBVIOUS
    <3>2. l \in 1..n /\ l - 1 = p
      BY <1>1, <3>1
    <3>3. g[l] = Add(s, h, l, g[l - 1])
      BY <1>1, <3>2, KeptIs
    <3>4. QED
      BY <2>3, <3>1, <3>2, <3>3 DEF Add
  <2>6. QED
    BY <2>2, <2>5
<1>8. QED
  BY <1>1, <1>2, <1>6, <1>7

(* The three things Filtered may do at a position, and where it goes on. *)
Skips(data, i) == data[i] = "e" /\ matchRmcup(SubSeq(data, i, Len(data))) # {}
Jump(data, i) == Len(CHOOSE seq \in matchRmcup(SubSeq(data, i, Len(data))) : TRUE)
Keeps(data, i) == data[i] = "e" /\ couldBeRmcup(SubSeq(data, i, Len(data)))
Put(r, x) == [r EXCEPT !.out = <<x>> \o @]

FilterEntry(data, from, i) ==
    IF i = Len(data) + 1 THEN [out |-> <<>>, buf |-> <<>>]
    ELSE IF Skips(data, i) THEN from[i + Jump(data, i)]
    ELSE IF Keeps(data, i) THEN [out |-> <<>>, buf |-> SubSeq(data, i, Len(data))]
    ELSE Put(from[i + 1], data[i])

LEMMA JumpIs ==
    ASSUME NEW S, NEW d \in Seq(S), NEW i \in 1..Len(d), Skips(d, i)
    PROVE  \E q \in Rmcup : Jump(d, i) = Len(q) /\ Occurs(d, Len(d), i, q)
<1>1. PICK q : q = CHOOSE seq \in matchRmcup(SubSeq(d, i, Len(d))) : TRUE
  OBVIOUS
<1>2. q \in matchRmcup(SubSeq(d, i, Len(d)))
  BY <1>1 DEF Skips
<1>3. q \in Rmcup /\ IsPrefix(q, SubSeq(d, i, Len(d)))
  BY <1>2 DEF matchRmcup
<1>4. i \in 1..(Len(d) + 1)
  OBVIOUS
<1>5. Occurs(d, Len(d), i, q)
  BY <1>3, <1>4, PrefixOfRest
<1>6. QED
  BY <1>1, <1>3, <1>5 DEF Jump

(* Filtered goes on at a later position, never past the end. *)
LEMMA JumpBounds ==
    ASSUME NEW S, NEW d \in Seq(S), NEW i \in 1..Len(d), Skips(d, i)
    PROVE  i + Jump(d, i) \in (i + 1)..(Len(d) + 1)
<1>1. PICK q \in Rmcup : Jump(d, i) = Len(q) /\ Occurs(d, Len(d), i, q)
  BY JumpIs
<1>2. Len(q) \in Nat \ {0} /\ i + Len(q) <= Len(d) + 1
  BY <1>1, RmcupApart DEF Occurs
<1>3. QED
  BY <1>1, <1>2

LEMMA FilterIs ==
    ASSUME NEW S, NEW d \in Seq(S)
    PROVE  \E g : Filtered(d) = g[1] /\ \A i \in 1..(Len(d) + 1) : g[i] = FilterEntry(d, g, i)
<1>1. PICK n : n = Len(d) + 1
  OBVIOUS
<1>2. n \in Nat \ {0} /\ Len(d) \in Nat /\ Len(d) = n - 1
  BY <1>1
<1> DEFINE T == {m \in Nat : m < n => \E g : g = [i \in (n - m)..n |-> FilterEntry(d, g, i)]}
<1>3. ASSUME NEW i \in 1..n, NEW f, NEW g, \A j \in (i + 1)..n : f[j] = g[j]
      PROVE  FilterEntry(d, f, i) = FilterEntry(d, g, i)
  <2>1. CASE i = n
    BY <1>1, <2>1 DEF FilterEntry
  <2>2. CASE i # n
    <3>1. i \in 1..Len(d) /\ i + 1 \in (i + 1)..n
      BY <1>1, <2>2
    <3>2. Skips(d, i) => f[i + Jump(d, i)] = g[i + Jump(d, i)]
      BY <1>1, <1>3, <3>1, JumpBounds
    <3>3. f[i + 1] = g[i + 1]
      BY <1>3, <3>1
    <3>4. QED
      BY <3>2, <3>3 DEF FilterEntry
  <2>3. QED
    BY <2>1, <2>2
<1>4. 0 \in T
  <2>1. PICK g : g = [i \in (n - 0)..n |-> [out |-> <<>>, buf |-> <<>>]]
    OBVIOUS
  <2>2. \A i \in (n - 0)..n : FilterEntry(d, g, i) = [out |-> <<>>, buf |-> <<>>]
    BY <1>1, <1>2 DEF FilterEntry
  <2>3. g = [i \in (n - 0)..n |-> FilterEntry(d, g, i)]
    BY <2>1, <2>2
  <2>4. QED
    BY <2>3
<1>5. ASSUME NEW m \in T PROVE m + 1 \in T
  <2> SUFFICES ASSUME m + 1 < n PROVE \E g : g = [i \in (n - (m + 1))..n |-> FilterEntry(d, g, i)]
    OBVIOUS
  <2>1. PICK g : g = [i \in (n - m)..n |-> FilterEntry(d, g, i)]
    BY <1>2
  <2>2. PICK f : f = [i \in (n - (m + 1))..n |-> FilterEntry(d, g, i)]
    OBVIOUS
  <2>3. \A i \in (n - m)..n : f[i] = g[i]
    <3>1. \A i \in (n - m)..n : i \in (n - (m + 1))..n
      BY <1>2
    <3>2. QED
      BY <2>1, <2>2, <3>1
  <2>4. \A i \in (n - (m + 1))..n : FilterEntry(d, f, i) = FilterEntry(d, g, i)
    <3> SUFFICES ASSUME NEW i \in (n - (m + 1))..n PROVE FilterEntry(d, f, i) = FilterEntry(d, g, i)
      OBVIOUS
    <3>1. i \in 1..n /\ \A j \in (i + 1)..n : j \in (n - m)..n
      BY <1>2
    <3>2. \A j \in (i + 1)..n : f[j] = g[j]
      BY <2>3, <3>1
    <3>3. QED
      BY <1>3, <3>1, <3>2
  <2>5. f = [i \in (n - (m + 1))..n |-> FilterEntry(d, f, i)]
    BY <2>2, <2>4
  <2>6. QED
    BY <2>5
<1>6. T = Nat
  <2> HIDE DEF T
  <2>0. T \in SUBSET Nat
    BY DEF T
  <2>1. QED
    BY <1>4, <1>5, <2>0, Induct
<1>7. \E g : g = [i \in 1..n |-> FilterEntry(d, g, i)]
  <2>1. n - 1 \in Nat /\ n - 1 < n /\ n - (n - 1) = 1
    BY <1>2
  <2>2. n - 1 \in T
    <3> HIDE DEF T
    <3>1. QED
      BY <1>6, <2>1
  <2>3. QED
    BY <2>1, <2>2
<1>8. Filtered(d) = (CHOOSE g : g = [i \in 1..n |-> FilterEntry(d, g, i)])[1]
  BY <1>1 DEF Filtered, FilterEntry, Skips, Jump, Keeps, Put
<1>9. PICK g : g = (CHOOSE h : h = [i \in 1..n |-> FilterEntry(d, h, i)]) /\ g = [i \in 1..n |-> FilterEntry(d, g, i)]
  BY <1>7
<1>10. \A i \in 1..n : g[i] = FilterEntry(d, g, i)
  BY <1>9
<1>11. QED
  BY <1>1, <1>8, <1>9, <1>10, ZenonT(60)

(* What Filtered makes of a chunk that goes from a clean cut p to n. *)
Filters(S, s, p, n, r) ==
    /\ r \in [out : Seq(S), buf : Seq(S)]
    /\ \E b \in p..n :
        /\ Clean(s, b) /\ r.buf = SubSeq(s, b + 1, n) /\ Partial(r.buf)
        /\ Seen(s)[p] \o r.out = Seen(s)[b]

LEMMA SeenType ==
    ASSUME NEW S, NEW s \in Seq(S), NEW p \in 0..Len(s)
    PROVE  Seen(s)[p] \in Seq(S) /\ Seen(s)[p] \o <<>> = Seen(s)[p]
<1>1. Len(s) \in 0..Len(s)
  OBVIOUS
<1>2. RunsFrom(S, KeptOf(s, Hidden(s, Len(s)), Len(s)), s, Hidden(s, Len(s)), Len(s), p)
  BY <1>1, KeptRun
<1>3. Seen(s)[p] \in Seq(S)
  BY <1>2 DEF Seen, RunsFrom
<1>4. \A x \in Seq(S) : x \o <<>> = x
  OBVIOUS
<1>5. QED
  BY <1>3, <1>4

LEMMA EmptyIsPartial == Partial(<<>>)
<1>1. PICK q : q \in Rmcup
  BY DEF Rmcup
<1>2. Len(q) \in Nat \ {0} /\ Len(<<>>) = 0
  BY <1>1, RmcupApart
<1>3. QED
  BY <1>1, <1>2 DEF Partial

LEMMA PartIs ==
    ASSUME NEW S, NEW s \in Seq(S), NEW n \in 0..Len(s), NEW a \in 1..(n + 1)
    PROVE  /\ SubSeq(s, a, n) \in Seq(S) /\ Len(SubSeq(s, a, n)) = (n + 1) - a
           /\ \A x \in 1..((n + 1) - a) : SubSeq(s, a, n)[x] = s[(a - 1) + x]
OBVIOUS

LEMMA PartOfPart ==
    ASSUME NEW S, NEW s \in Seq(S), NEW n \in 0..Len(s), NEW c \in 0..n, NEW l, l = n - c, NEW i \in 1..l
    PROVE  SubSeq(SubSeq(s, c + 1, n), i, l) = SubSeq(s, c + i, n)
<1>1. PICK d, a, b : d = SubSeq(s, a, n) /\ a = c + 1 /\ b = c + i
  OBVIOUS
<1>2. /\ l \in Nat /\ a \in 1..(n + 1) /\ b \in 1..(n + 1) /\ (n + 1) - a = l /\ a - 1 = c
      /\ i \in 1..(l + 1) /\ (n + 1) - b = (l + 1) - i
  BY <1>1
<1>3. d \in Seq(S) /\ Len(d) = l /\ \A x \in 1..l : d[x] = s[c + x]
  BY <1>1, <1>2, PartIs
<1>4. l \in 0..Len(d)
  BY <1>2, <1>3
<1>5. PICK u, v, k : u = SubSeq(d, i, l) /\ v = SubSeq(s, b, n) /\ k = (l + 1) - i
  OBVIOUS
<1>6. u \in Seq(S) /\ Len(u) = k /\ \A x \in 1..k : u[x] = d[(i - 1) + x]
  BY <1>2, <1>3, <1>4, <1>5, PartIs
<1>7. v \in Seq(S) /\ Len(v) = k /\ \A x \in 1..k : v[x] = s[(b - 1) + x]
  BY <1>2, <1>5, PartIs
<1>8. \A x \in 1..k : (i - 1) + x \in 1..l /\ c + ((i - 1) + x) = (b - 1) + x
  BY <1>1, <1>2, <1>5
<1>9. \A x \in 1..k : u[x] = v[x]
  BY <1>3, <1>6, <1>7, <1>8, ZenonT(60)
<1>10. u = v
  BY <1>6, <1>7, <1>9
<1>11. QED
  BY <1>1, <1>5, <1>10

(* However Filtered begins, what it passes on brings the terminal to the    *)
(* next clean cut, and what it keeps is what follows that cut.              *)
LEMMA FilteredIs ==
    ASSUME NEW S, NEW s \in Seq(S), NEW n \in 0..Len(s), NEW c \in 0..n, Clean(s, c)
    PROVE  Filters(S, s, c, n, Filtered(SubSeq(s, c + 1, n)))
<1>1. PICK d, l : d = SubSeq(s, c + 1, n) /\ l = n - c
  OBVIOUS
<1>2. d \in Seq(S) /\ Len(d) = l /\ l \in Nat /\ \A x \in 1..l : d[x] = s[c + x]
  BY <1>1
<1>3. PICK g : Filtered(d) = g[1] /\ \A i \in 1..(l + 1) : g[i] = FilterEntry(d, g, i)
  BY <1>2, FilterIs
<1> DEFINE Good(i) == Clean(s, c + i - 1) => Filters(S, s, c + i - 1, n, g[i])
           T == {m \in Nat : \A i \in 1..(l + 1) : (l + 1) - i <= m => Good(i)}
<1>4. ASSUME NEW i \in 1..l, NEW q \in Rmcup
      PROVE  Occurs(d, l, i, q) <=> Occurs(s, Len(s), c + i, q) /\ (c + i) + Len(q) <= n + 1
  <2>1. Len(q) \in Nat
    BY RmcupApart
  <2>2. i + Len(q) <= l + 1 <=> (c + i) + Len(q) <= n + 1
    BY <1>1, <1>2, <2>1
  <2>3. i + Len(q) <= l + 1 => \A x \in 1..Len(q) : d[(i - 1) + x] = s[((c + i) - 1) + x]
    <3>1. i + Len(q) <= l + 1 => \A x \in 1..Len(q) : (i - 1) + x \in 1..l /\ c + ((i - 1) + x) = ((c + i) - 1) + x
      BY <1>2, <2>1
    <3>2. QED
      BY <1>2, <3>1
  <2>4. c + i \in Nat \ {0} /\ i \in Nat \ {0} /\ ((c + i) + Len(q) <= n + 1 => (c + i) + Len(q) <= Len(s) + 1)
    BY <2>1
  <2>5. QED
    BY <2>2, <2>3, <2>4 DEF Occurs
<1>5. ASSUME NEW i \in 1..l
      PROVE  SubSeq(d, i, l) = SubSeq(s, c + i, n)
  BY <1>1, <1>5, PartOfPart
<1> DEFINE Nothing == [out |-> <<>>, buf |-> <<>>]
<1>6. ASSUME NEW i \in 1..(l + 1)
       PROVE  /\ i = l + 1 => g[i] = Nothing
              /\ i # l + 1 => g[i] = IF Skips(d, i) THEN g[i + Jump(d, i)]
                                     ELSE IF Keeps(d, i) THEN [out |-> <<>>, buf |-> SubSeq(d, i, l)]
                                     ELSE Put(g[i + 1], d[i])
  <2>1. g[i] = FilterEntry(d, g, i) /\ Len(d) = l
    BY <1>2, <1>3
  <2>2. QED
    BY <2>1 DEF FilterEntry
<1>7. ASSUME NEW i \in 1..l, NEW q \in Rmcup
       PROVE  /\ IsPrefix(q, SubSeq(d, i, l)) <=> Occurs(d, l, i, q)
              /\ IsPrefix(SubSeq(d, i, l), q) <=>
                    /\ (l + 1) - i <= Len(q)
                    /\ \A x \in 1..((l + 1) - i) : d[(i - 1) + x] = q[x]
  <2>1. i \in 1..(Len(d) + 1)
    BY <1>2
  <2>2. /\ IsPrefix(q, SubSeq(d, i, Len(d))) <=> Occurs(d, Len(d), i, q)
        /\ IsPrefix(SubSeq(d, i, Len(d)), q) <=>
             /\ (Len(d) + 1) - i <= Len(q)
             /\ \A x \in 1..((Len(d) + 1) - i) : d[(i - 1) + x] = q[x]
    BY <1>2, <2>1, PrefixOfRest, ZenonT(60)
  <2>3. Len(d) = l
    BY <1>2
  <2>4. QED
    BY <2>2, <2>3
<1>8. Good(l + 1)
  <2>1. c + (l + 1) - 1 = n /\ n \in n..n /\ l + 1 \in 1..(l + 1)
    BY <1>1, <1>2
  <2>2. SubSeq(s, n + 1, n) = <<>> /\ <<>> \in Seq(S)
    OBVIOUS
  <2>3. Seen(s)[n] \o <<>> = Seen(s)[n]
    BY SeenType
  <2>4. Nothing \in [out : Seq(S), buf : Seq(S)] /\ Nothing.out = <<>> /\ Nothing.buf = <<>>
    BY <2>2
  <2> HIDE DEF Nothing
  <2>5. g[l + 1] = Nothing
    BY <1>6, <2>1
  <2>6. ASSUME Clean(s, n) PROVE Filters(S, s, n, n, Nothing)
    BY <2>1, <2>2, <2>3, <2>4, <2>6, EmptyIsPartial DEF Filters
  <2>7. QED
    BY <2>1, <2>5, <2>6
<1>9. ASSUME NEW i \in 1..l, \A j \in (i + 1)..(l + 1) : Good(j)
      PROVE  Good(i)
  <2> SUFFICES ASSUME Clean(s, c + i - 1) PROVE Filters(S, s, c + i - 1, n, g[i])
    OBVIOUS
  <2>1. PICK p : p = c + i - 1
    OBVIOUS
  <2>2. p \in 0..(Len(s) - 1) /\ p + 1 = c + i /\ p + 1 <= n /\ p \in 0..n /\ Clean(s, p) /\ p \in Nat /\ p \in p..n
    BY <1>1, <1>2, <2>1
  <2>3. CASE Skips(d, i)
    <3>1. PICK q \in Rmcup : Jump(d, i) = Len(q) /\ Occurs(d, l, i, q)
      BY <1>2, <2>3, JumpIs
    <3>2. Occurs(s, Len(s), p + 1, q) /\ (p + 1) + Len(q) <= n + 1 /\ Len(q) \in Nat \ {0}
      BY <1>4, <2>2, <3>1, RmcupApart
    <3>3. Clean(s, p + Len(q)) /\ Seen(s)[p + Len(q)] = Seen(s)[p]
      BY <2>2, <3>2, CutMoves
    <3>4. PICK j, e : j = i + Len(q) /\ e = p + Len(q)
      OBVIOUS
    <3>5. j \in (i + 1)..(l + 1) /\ c + j - 1 = e /\ e \in p..n
      <4>1. PICK m \in Nat \ {0} : m = Len(q)
        BY <3>2
      <4>2. p + m <= n /\ j = i + m /\ e = p + m /\ p = c + i - 1 /\ l = n - c
        BY <1>1, <2>1, <2>2, <3>2, <3>4, <4>1
      <4>3. i \in Nat /\ l \in Nat /\ p \in Nat /\ c \in Nat /\ n \in Nat
        BY <1>2, <2>2
      <4>4. QED
        BY <4>1, <4>2, <4>3
    <3>6. Filters(S, s, e, n, g[j])
      <4>1. Clean(s, c + j - 1) => Filters(S, s, c + j - 1, n, g[j])
        BY <1>9, <3>5
      <4>2. QED
        BY <3>3, <3>4, <3>5, <4>1
    <3>7. g[i] = g[j]
      <4>1. i \in 1..(l + 1) /\ i # l + 1
        BY <1>2
      <4>2. QED
        BY <1>6, <2>3, <3>1, <3>4, <4>1
    <3>8. \A b \in e..n : b \in p..n
      BY <2>2, <3>5
    <3>9. Filters(S, s, p, n, g[j])
      BY <3>3, <3>4, <3>6, <3>8 DEF Filters
    <3>10. QED
      BY <2>1, <3>7, <3>9
  <2>4. CASE ~Skips(d, i) /\ Keeps(d, i)
    <3>1. g[i] = [out |-> <<>>, buf |-> SubSeq(s, p + 1, n)]
      <4>1. i \in 1..(l + 1) /\ i # l + 1 /\ SubSeq(d, i, l) = SubSeq(s, p + 1, n)
        BY <1>2, <1>5, <2>2
      <4>2. QED
        BY <1>6, <2>4, <4>1
    <3>2. Partial(SubSeq(s, p + 1, n))
      <4>1. PICK u : u = SubSeq(d, i, l)
        OBVIOUS
      <4>2. PICK q \in Rmcup : u # q /\ IsPrefix(u, q)
        BY <1>2, <2>4, <4>1 DEF Keeps, couldBeRmcup
      <4>3. (l + 1) - i <= Len(q) /\ \A x \in 1..((l + 1) - i) : d[(i - 1) + x] = q[x]
        BY <1>7, <4>1, <4>2
      <4>4. Len(u) = (l + 1) - i /\ \A x \in 1..((l + 1) - i) : u[x] = d[(i - 1) + x]
        BY <1>2, <4>1
      <4>5. Len(q) \in Nat
        BY RmcupApart
      <4>6. (l + 1) - i # Len(q)
        <5> SUFFICES ASSUME (l + 1) - i = Len(q) PROVE FALSE
          OBVIOUS
        <5>1. PICK k : k = Len(q)
          OBVIOUS
        <5>2. SubSeq(u, 1, k) = SubSeq(q, 1, k) /\ Len(u) = k
          BY <4>2, <4>4, <5>1 DEF IsPrefix
        <5>3. u \in Seq(S)
          BY <1>2, <4>1
        <5>4. SubSeq(u, 1, k) = u
          BY <5>2, <5>3
        <5>5. SubSeq(q, 1, k) = q
          BY <5>1, RmcupWhole
        <5>6. QED
          BY <4>2, <5>2, <5>4, <5>5
      <4>7. Partial(u)
        <5>1. PICK k \in Nat : k = (l + 1) - i
          BY <1>2
        <5>2. k < Len(q)
          BY <4>3, <4>5, <4>6, <5>1
        <5>3. \A x \in 1..k : u[x] = q[x]
          BY <4>3, <4>4, <5>1
        <5>4. Len(u) = k
          BY <4>4, <5>1
        <5>5. QED
          BY <5>2, <5>3, <5>4 DEF Partial
      <4>8. QED
        BY <1>5, <2>2, <4>1, <4>7
    <3>3. SubSeq(s, p + 1, n) \in Seq(S) /\ <<>> \in Seq(S)
      BY <2>2
    <3>4. Seen(s)[p] \o <<>> = Seen(s)[p]
      BY <2>2, SeenType
    <3>5. Filters(S, s, p, n, g[i])
      <4>1. g[i] \in [out : Seq(S), buf : Seq(S)] /\ g[i].out = <<>> /\ g[i].buf = SubSeq(s, p + 1, n)
        BY <3>1, <3>3, SMTT(60)
      <4>2. QED
        BY <2>2, <3>2, <3>4, <4>1 DEF Filters
    <3>6. QED
      BY <2>1, <3>5
  <2>5. CASE ~Skips(d, i) /\ ~Keeps(d, i)
    <3>1. g[i] = Put(g[i + 1], s[p + 1])
      <4>1. i \in 1..(l + 1) /\ i # l + 1 /\ d[i] = s[p + 1]
        BY <1>2, <2>2
      <4>2. QED
        BY <1>6, <2>5, <4>1
    <3>2. \A q \in Rmcup : ~Occurs(s, Len(s), p + 1, q)
      <4> SUFFICES ASSUME NEW q \in Rmcup, Occurs(s, Len(s), p + 1, q) PROVE FALSE
        OBVIOUS
      <4>1. Len(q) \in Nat \ {0} /\ q[1] = "e" /\ \A x \in 1..Len(q) : s[p + x] = q[x]
        <5>1. (p + 1) - 1 = p
          BY <2>2
        <5>2. QED
          BY <5>1, RmcupApart DEF Occurs
      <4>2. d[i] = "e"
        <5>1. 1 \in 1..Len(q) /\ d[i] = s[p + 1]
          BY <1>2, <2>2, <4>1
        <5>2. QED
          BY <4>1, <5>1
      <4>4. CASE (p + 1) + Len(q) <= n + 1
        <5>1. Occurs(d, l, i, q)
          BY <1>4, <2>2, <4>4
        <5>2. IsPrefix(q, SubSeq(d, i, l))
          BY <1>7, <5>1
        <5>3. QED
          BY <1>2, <2>5, <4>2, <5>2 DEF Skips, matchRmcup
      <4>5. CASE ~((p + 1) + Len(q) <= n + 1)
        <5>1. (l + 1) - i < Len(q)
          BY <1>1, <1>2, <2>1, <4>1, <4>5
        <5>2. \A x \in 1..((l + 1) - i) : d[(i - 1) + x] = q[x]
          <6>1. \A x \in 1..((l + 1) - i) : (i - 1) + x \in 1..l /\ c + ((i - 1) + x) = p + x /\ x \in 1..Len(q)
            BY <1>2, <2>1, <4>1, <5>1
          <6>2. QED
            BY <1>2, <4>1, <6>1
        <5>3. IsPrefix(SubSeq(d, i, l), q)
          <6>1. (l + 1) - i <= Len(q)
            BY <1>2, <4>1, <5>1
          <6>2. QED
            BY <1>7, <5>2, <6>1
        <5>4. Len(SubSeq(d, i, l)) = (l + 1) - i
          BY <1>2
        <5>5. QED
          BY <1>2, <2>5, <4>2, <5>1, <5>3, <5>4 DEF Keeps, couldBeRmcup
      <4>6. QED
        BY <4>4, <4>5
    <3>3. PICK e, x : e = p + 1 /\ x = s[e]
      OBVIOUS
    <3>4. Clean(s, e) /\ Seen(s)[e] = Append(Seen(s)[p], x)
      <4>1. Clean(s, p + 1) /\ Seen(s)[p + 1] = Append(Seen(s)[p], s[p + 1])
        BY <2>2, <3>2, CutMoves
      <4>2. QED
        BY <3>3, <4>1
    <3>5. i + 1 \in (i + 1)..(l + 1) /\ c + (i + 1) - 1 = e /\ e \in 0..Len(s) /\ x \in S
      <4>1. i + 1 \in (i + 1)..(l + 1)
        BY <1>2
      <4>2. e \in 1..Len(s) /\ c + (i + 1) - 1 = e
        BY <2>1, <2>2, <3>3
      <4>3. QED
        BY <3>3, <4>1, <4>2
    <3>6. PICK r : r = g[i + 1]
      OBVIOUS
    <3>7. Filters(S, s, e, n, r)
      <4>1. Clean(s, c + (i + 1) - 1) => Filters(S, s, c + (i + 1) - 1, n, g[i + 1])
        BY <1>9, <3>5
      <4>2. QED
        BY <3>4, <3>5, <3>6, <4>1
    <3>8. PICK b \in e..n : Clean(s, b) /\ r.buf = SubSeq(s, b + 1, n) /\ Partial(r.buf) /\ Seen(s)[e] \o r.out = Seen(s)[b]
      BY <3>7 DEF Filters
    <3>9. r \in [out : Seq(S), buf : Seq(S)]
      BY <3>7 DEF Filters
    <3>10. PICK t : t = Put(r, x)
      OBVIOUS
    <3>11. t \in [out : Seq(S), buf : Seq(S)] /\ t.buf = r.buf /\ t.out = <<x>> \o r.out
      <4>1. PICK o, f : o = r.out /\ f = r.buf /\ r = [out |-> o, buf |-> f] /\ o \in Seq(S) /\ f \in Seq(S)
        BY <3>9
      <4>2. t = [out |-> <<x>> \o o, buf |-> f]
        BY <3>10, <4>1 DEF Put
      <4>3. <<x>> \o o \in Seq(S)
        BY <3>5, <4>1
      <4>4. QED
        BY <4>1, <4>2, <4>3
    <3>12. Seen(s)[p] \in Seq(S)
      BY <2>2, SeenType
    <3>13. \A y, z \in Seq(S) : y \o (<<x>> \o z) = Append(y, x) \o z
      <4>1. ASSUME NEW y \in Seq(S), NEW z \in Seq(S) PROVE y \o (<<x>> \o z) = Append(y, x) \o z
        <5>1. PICK u, v : u = y \o (<<x>> \o z) /\ v = Append(y, x) \o z
          OBVIOUS
        <5>2. PICK k \in Nat : k = Len(y) + Len(z) + 1
          OBVIOUS
        <5>3. u \in Seq(S) /\ v \in Seq(S) /\ Len(u) = k /\ Len(v) = k
          BY <3>5, <5>1, <5>2
        <5>4. \A w \in 1..k : u[w] = v[w]
          BY <3>5, <5>1, <5>2, SMTT(60)
        <5>5. u = v
          BY <5>3, <5>4
        <5>6. QED
          BY <5>1, <5>5
      <4>2. QED
        BY <4>1
    <3>14. Seen(s)[p] \o t.out = Seen(s)[b]
      BY <3>4, <3>8, <3>9, <3>11, <3>12, <3>13
    <3>15. b \in p..n
      BY <2>2, <3>3
    <3>16. Filters(S, s, p, n, t)
      BY <3>8, <3>11, <3>14, <3>15 DEF Filters
    <3>17. QED
      BY <2>1, <2>2, <3>1, <3>3, <3>6, <3>10, <3>16
  <2>6. QED
    BY <2>3, <2>4, <2>5
<1>10. 0 \in T
  <2> HIDE DEF Good
  <2>1. \A i \in 1..(l + 1) : (l + 1) - i <= 0 => i = l + 1
    BY <1>2
  <2>2. QED
    BY <1>8, <2>1
<1>11. ASSUME NEW m \in T PROVE m + 1 \in T
  <2> HIDE DEF Good
  <2> SUFFICES ASSUME NEW i \in 1..(l + 1), (l + 1) - i <= m + 1 PROVE Good(i)
    OBVIOUS
  <2>1. CASE i = l + 1
    BY <1>8, <2>1
  <2>2. CASE i # l + 1
    <3>1. i \in 1..l /\ \A j \in (i + 1)..(l + 1) : j \in 1..(l + 1) /\ (l + 1) - j <= m
      BY <1>2, <2>2
    <3>2. \A j \in (i + 1)..(l + 1) : Good(j)
      BY <3>1
    <3>3. QED
      BY <1>9, <3>1, <3>2
  <2>3. QED
    BY <2>1, <2>2
<1>12. T = Nat
  <2> HIDE DEF T
  <2>0. T \in SUBSET Nat
    BY DEF T
  <2>1. QED
    BY <1>10, <1>11, <2>0, Induct
<1>13. Good(1)
  <2> HIDE DEF Good
  <2>1. l \in T
    <3> HIDE DEF T
    <3>1. QED
      BY <1>2, <1>12
  <2>2. 1 \in 1..(l + 1) /\ (l + 1) - 1 <= l
    BY <1>2
  <2>3. QED
    BY <2>1, <2>2
<1>14. QED
  <2>1. c + 1 - 1 = c
    OBVIOUS
  <2>2. QED
    BY <1>1, <1>3, <1>13, <2>1

(* What has been shown is what is visible up to a clean cut, and what is    *)
(* held back is the rest of what arrived, the start of a sequence.          *)
AltInv ==
    /\ stream \in Streams /\ pos \in 0..Len(stream)
    /\ \E c \in 0..pos :
        /\ Clean(stream, c) /\ held = SubSeq(stream, c + 1, pos) /\ Partial(held)
        /\ shown = Seen(stream)[c]

LEMMA StreamIsText == stream \in Streams => \E S : stream \in Seq(S)
  BY StreamsAssumption

LEMMA PartsJoin ==
    ASSUME NEW S, NEW s \in Seq(S), NEW m \in 0..Len(s), NEW p \in 0..m, NEW c \in 0..p
    PROVE  SubSeq(s, c + 1, p) \o SubSeq(s, p + 1, m) = SubSeq(s, c + 1, m)
<1>1. PICK a, b, u, v : a = SubSeq(s, c + 1, p) /\ b = SubSeq(s, p + 1, m) /\ u = a \o b /\ v = SubSeq(s, c + 1, m)
  OBVIOUS
<1>2. a \in Seq(S) /\ Len(a) = p - c /\ \A x \in 1..(p - c) : a[x] = s[c + x]
  BY <1>1, SMTT(60)
<1>3. b \in Seq(S) /\ Len(b) = m - p /\ \A x \in 1..(m - p) : b[x] = s[p + x]
  BY <1>1, SMTT(60)
<1>4. v \in Seq(S) /\ Len(v) = m - c /\ \A x \in 1..(m - c) : v[x] = s[c + x]
  BY <1>1, SMTT(60)
<1>5. u \in Seq(S) /\ Len(u) = m - c /\ \A x \in 1..(m - c) : u[x] = IF x <= p - c THEN a[x] ELSE b[x - (p - c)]
  <2>1. PICK i, j \in Nat : i = p - c /\ j = m - p
    OBVIOUS
  <2>2. i + j = m - c
    BY <2>1
  <2>3. Len(a) = i /\ Len(b) = j /\ a \in Seq(S) /\ b \in Seq(S)
    BY <1>2, <1>3, <2>1
  <2>4. a \o b \in Seq(S) /\ Len(a \o b) = i + j
        /\ \A x \in 1..(i + j) : (a \o b)[x] = IF x <= i THEN a[x] ELSE b[x - i]
    BY <2>3, SMTT(60)
  <2>5. QED
    BY <1>1, <2>1, <2>2, <2>4
<1>6. ASSUME NEW x \in 1..(m - c) PROVE u[x] = v[x]
  <2>1. CASE x <= p - c
    BY <1>2, <1>4, <1>5, <2>1
  <2>2. CASE ~(x <= p - c)
    <3>1. PICK y : y = x - (p - c)
      OBVIOUS
    <3>2. y \in 1..(m - p) /\ p + y = c + x
      BY <2>2, <3>1
    <3>3. QED
      BY <1>3, <1>4, <1>5, <2>2, <3>1, <3>2
  <2>3. QED
    BY <2>1, <2>2
<1>7. u = v
  BY <1>4, <1>5, <1>6
<1>8. QED
  BY <1>1, <1>7

LEMMA PartialIsPrefix ==
    ASSUME NEW S, NEW b \in Seq(S), NEW q \in Rmcup, Len(b) < Len(q), \A x \in 1..Len(b) : b[x] = q[x]
    PROVE  b # q /\ IsPrefix(b, q)
<1>1. PICK k \in Nat : k = Len(b)
  OBVIOUS
<1>2. SubSeq(b, 1, k) = b /\ (k + 1) - 1 = k /\ 1 \in 1..(k + 1)
  BY <1>1
<1>3. Len(q) \in Nat
  BY RmcupApart
<1>4. k <= Len(q) /\ \A x \in 1..k : b[(1 - 1) + x] = q[x]
  BY <1>1, <1>3
<1>5. IsPrefix(SubSeq(b, 1, k), q) <=> (k + 1) - 1 <= Len(q) /\ \A x \in 1..((k + 1) - 1) : b[(1 - 1) + x] = q[x]
  <2>1. 1 \in 1..(Len(b) + 1)
    BY <1>1, <1>2
  <2>2. IsPrefix(SubSeq(b, 1, Len(b)), q) <=>
            (Len(b) + 1) - 1 <= Len(q) /\ \A x \in 1..((Len(b) + 1) - 1) : b[(1 - 1) + x] = q[x]
    BY <2>1, PrefixOfRest
  <2>3. QED
    BY <1>1, <2>2
<1>6. IsPrefix(SubSeq(b, 1, k), q)
  BY <1>2, <1>4, <1>5
<1>7. IsPrefix(b, q)
  BY <1>2, <1>6
<1>8. QED
  BY <1>3, <1>7

LEMMA AltInitInv == AltInit => AltInv
<1> SUFFICES ASSUME AltInit PROVE AltInv
  OBVIOUS
<1>1. stream \in Streams /\ pos = 0 /\ held = <<>> /\ shown = <<>>
  BY DEF AltInit
<1>2. PICK S : stream \in Seq(S)
  BY <1>1, StreamIsText
<1>3. Seen(stream)[0] = <<>>
  BY <1>2, KeptIs DEF Seen
<1>4. Clean(stream, 0) /\ SubSeq(stream, 0 + 1, 0) = <<>> /\ 0 \in 0..0 /\ 0 \in 0..Len(stream)
  BY <1>2 DEF Clean
<1>5. QED
  BY <1>1, <1>3, <1>4, EmptyIsPartial DEF AltInv

LEMMA AltStep == AltInv /\ [AltNext]_altVars => AltInv'
<1> SUFFICES ASSUME AltInv, [AltNext]_altVars PROVE AltInv'
  OBVIOUS
<1>1. stream \in Streams /\ pos \in 0..Len(stream)
  BY DEF AltInv
<1>2. PICK S : stream \in Seq(S)
  BY <1>1, StreamIsText
<1>3. PICK c \in 0..pos : /\ Clean(stream, c) /\ held = SubSeq(stream, c + 1, pos) /\ Partial(held)
                          /\ shown = Seen(stream)[c]
  BY DEF AltInv
<1>4. ASSUME NEW n \in 1..MaxChunk, pos + n <= Len(stream), pos' = pos + n,
             LET r == Filtered(held \o SubSeq(stream, pos + 1, pos'))
             IN  shown' = shown \o r.out /\ held' = r.buf,
             UNCHANGED stream
      PROVE  AltInv'
  <2>1. PICK m : m = pos + n
    OBVIOUS
  <2>2. m \in 0..Len(stream) /\ c \in 0..m /\ pos' = m
    BY <1>1, <1>2, <1>4, <2>1
  <2>3. held \o SubSeq(stream, pos + 1, m) = SubSeq(stream, c + 1, m)
    <3>1. m \in 0..Len(stream) /\ pos \in 0..m /\ c \in 0..pos
      BY <1>1, <1>2, <2>1, <2>2
    <3>2. SubSeq(stream, c + 1, pos) \o SubSeq(stream, pos + 1, m) = SubSeq(stream, c + 1, m)
      BY <1>2, <3>1, PartsJoin
    <3>3. QED
      BY <1>3, <3>2
  <2>4. PICK r : r = Filtered(SubSeq(stream, c + 1, m))
    OBVIOUS
  <2>5. shown' = shown \o r.out /\ held' = r.buf
    BY <1>4, <2>2, <2>3, <2>4
  <2>6. Filters(S, stream, c, m, r)
    BY <1>2, <1>3, <2>2, <2>4, FilteredIs
  <2>7. PICK b \in c..m : /\ Clean(stream, b) /\ r.buf = SubSeq(stream, b + 1, m) /\ Partial(r.buf)
                          /\ Seen(stream)[c] \o r.out = Seen(stream)[b]
    BY <2>6 DEF Filters
  <2>8. b \in 0..m
    BY <2>2
  <2>9. stream' = stream
    BY <1>4
  <2>10. QED
    BY <1>1, <1>3, <2>2, <2>5, <2>7, <2>8, <2>9 DEF AltInv
<1>5. ASSUME Flush PROVE AltInv'
  <2>1. /\ pos = Len(stream) /\ shown' = shown \o held /\ held' = <<>>
        /\ stream' = stream /\ pos' = pos
    BY <1>5 DEF Flush
  <2>2. Visible(SubSeq(stream, 1, pos)) = Seen(stream)[c] \o SubSeq(stream, c + 1, pos)
    BY <1>1, <1>2, <1>3, HeldIsVisible
  <2>3. Visible(SubSeq(stream, 1, pos)) = Seen(stream)[pos]
    BY <1>1, <1>2, <2>1, VisibleIs DEF Seen
  <2>4. Clean(stream, pos)
    BY <1>2, <2>1 DEF Clean, Occurs
  <2>5. SubSeq(stream, pos + 1, pos) = <<>> /\ pos \in 0..pos
    BY <1>1, <1>2
  <2>6. QED
    BY <1>1, <1>3, <2>1, <2>2, <2>3, <2>4, <2>5, EmptyIsPartial DEF AltInv
<1>6. CASE UNCHANGED altVars
  BY <1>6 DEF AltInv, altVars
<1>7. QED
  BY <1>4, <1>5, <1>6 DEF AltNext, Write

LEMMA AltInvExact == AltInv => FilterExact
<1> SUFFICES ASSUME AltInv PROVE FilterExact
  OBVIOUS
<1>1. stream \in Streams /\ pos \in 0..Len(stream)
  BY DEF AltInv
<1>2. PICK S : stream \in Seq(S)
  BY <1>1, StreamIsText
<1>3. PICK c \in 0..pos : /\ Clean(stream, c) /\ held = SubSeq(stream, c + 1, pos) /\ Partial(held)
                          /\ shown = Seen(stream)[c]
  BY DEF AltInv
<1>4. shown \o held = Visible(SubSeq(stream, 1, pos))
  BY <1>1, <1>2, <1>3, HeldIsVisible
<1>5. PICK q \in Rmcup : Len(held) < Len(q) /\ \A x \in 1..Len(held) : held[x] = q[x]
  BY <1>3 DEF Partial
<1>6. held \in Seq(S)
  BY <1>1, <1>2, <1>3
<1>7. held # q /\ IsPrefix(held, q)
  BY <1>5, <1>6, PartialIsPrefix
<1>8. QED
  BY <1>4, <1>7 DEF FilterExact

(* However the stream is cut, the terminal gets all of it but the complete  *)
(* sequences, and what is held back is only the start of one: for any       *)
(* streams and any sizes of chunks.                                         *)
THEOREM FilterIsExact == AltSpec => []FilterExact
  BY AltInitInv, AltStep, AltInvExact, PTL DEF AltSpec
=============================================================================

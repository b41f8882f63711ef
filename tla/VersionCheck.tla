----------------------------- MODULE VersionCheck -----------------------------
(***************************************************************************)
(* The update check every mkenv command makes in the background: several   *)
(* processes over one cached answer, releases that come out meanwhile,     *)
(* and commands that end without waiting for the check.                    *)
(***************************************************************************)
EXTENDS Naturals

CONSTANTS
    Users,      \* mkenv processes, one after another on the same terminal
    Builds,     \* how a process may be built: "local", "compiled", "source", "dev", "stable"
    CacheTTL,   \* how long an answer is cached, in ticks
    Horizon,    \* bound: the last tick of the clock
    MaxLatest   \* bound: the last release and the last commit

ASSUME TTLAssumption == CacheTTL \in Nat \ {0} /\ Horizon \in Nat /\ MaxLatest \in Nat

VARIABLES
    now,        \* the clock
    latest,     \* per channel: the newest release or commit
    cache,      \* per channel: the row of the store; v = 0 when there is none
    own,        \* per process: how it was built and from which version
    cmd,        \* per process: its command is "off", "running", "ended"
    check,      \* per process: where the goroutine is
    known,      \* per process: the version the goroutine has at hand, 0 for none
    age,        \* history, per process: age of an answer taken without asking
    banner      \* per process: the version announced, 0 for none

checkVars == <<now, latest, cache, own, cmd, check, known, age, banner>>

Channels == {"stable", "dev"}
Channel(p) == IF own[p].build = "stable" THEN "stable" ELSE "dev"
NoRow == [v |-> 0, used |-> 0, asked |-> 0]

CheckInit ==
    /\ now = 0 /\ latest = [c \in Channels |-> 1] /\ cache = [c \in Channels |-> NoRow]
    /\ own \in [Users -> [build : Builds, v : {1}]]
    /\ cmd = [p \in Users |-> "off"] /\ check = [p \in Users |-> "off"]
    /\ known = [p \in Users |-> 0] /\ age = [p \in Users |-> 0] /\ banner = [p \in Users |-> 0]

(* The goroutine has an answer (0: none) and puts it into the channel. *)
Deliver(p, v) == check' = [check EXCEPT ![p] = "sent"] /\ known' = [known EXCEPT ![p] = v]

(* Execute starts the check and the command; the user may have upgraded. *)
Execute(p) ==
    /\ cmd[p] = "off" /\ cmd' = [cmd EXCEPT ![p] = "running"]
    /\ own' \in {own, [own EXCEPT ![p].v = latest[Channel(p)]]}
    /\ check' = [check EXCEPT ![p] = "load"] /\ known' = [known EXCEPT ![p] = 0]
    /\ banner' = [banner EXCEPT ![p] = 0] /\ age' = [age EXCEPT ![p] = 0]
    /\ UNCHANGED <<now, latest, cache>>

(* Reading a row renews its last_used, unless the update fails. *)
loadCache(c) == cache[c].v # 0 /\ cache' \in {cache, [cache EXCEPT ![c].used = now]}

(* Check up to the cache: builds without a version are not checked; an      *)
(* answer that was used less than CacheTTL ago is used.  The store may fail. *)
Load(p) ==
    /\ check[p] = "load"
    /\ LET row == cache[Channel(p)] IN
       \/ own[p].build \in {"local", "compiled"} /\ Deliver(p, 0) /\ UNCHANGED <<cache, age>>
       \/ /\ own[p].build \notin {"local", "compiled"}
          /\ \/ /\ loadCache(Channel(p))
                /\ IF now - row.used < CacheTTL
                   THEN Deliver(p, row.v) /\ age' = [age EXCEPT ![p] = now - row.asked]
                   ELSE /\ check' = [check EXCEPT ![p] = "fetch"]
                        /\ known' = [known EXCEPT ![p] = row.v] /\ UNCHANGED age
             \/ check' = [check EXCEPT ![p] = "fetch"] /\ UNCHANGED <<known, cache, age>>
    /\ UNCHANGED <<now, latest, own, cmd, banner>>

(* fetchLatestRelease, fetchLatestCommit: an answer, or an error after      *)
(* which the cached version is used, if any.                                *)
Fetch(p) ==
    /\ check[p] = "fetch"
    /\ \/ Deliver(p, known[p])
       \/ /\ check' = [check EXCEPT ![p] = "save"]
          /\ known' = [known EXCEPT ![p] = latest[Channel(p)]]
    /\ UNCHANGED <<now, latest, cache, own, cmd, age, banner>>

(* saveCache, whose error is ignored. *)
Save(p) ==
    /\ check[p] = "save"
    /\ cache' \in {cache, [cache EXCEPT ![Channel(p)] = [v |-> known[p], used |-> now, asked |-> now]]}
    /\ Deliver(p, known[p])
    /\ UNCHANGED <<now, latest, own, cmd, age, banner>>

(* Mutant of UpdateAvailable: any other version is an update. *)
UpdateAvailableAny(p) == known[p] # 0 /\ known[p] # own[p].v

(* buildStableResult compares versions, buildCommitResult only equality. *)
UpdateAvailable(p) ==
    /\ known[p] # 0
    /\ IF own[p].build = "stable" THEN known[p] > own[p].v ELSE known[p] # own[p].v

CommandEnds(p) ==
    /\ cmd[p] = "running" /\ cmd' = [cmd EXCEPT ![p] = "ended"]
    /\ UNCHANGED <<now, latest, cache, own, check, known, age, banner>>

(* Mutant of PrintUpdateBanner: the command waits for the answer. *)
PrintUpdateBannerBlocking(p) ==
    /\ cmd[p] = "ended" /\ check[p] = "sent"
    /\ cmd' = [cmd EXCEPT ![p] = "off"] /\ check' = [check EXCEPT ![p] = "off"]
    /\ banner' = [banner EXCEPT ![p] = IF UpdateAvailable(p) THEN known[p] ELSE 0]
    /\ UNCHANGED <<now, latest, cache, own, known, age>>

(* The select with a default case; then the process is gone, its goroutine  *)
(* with it.                                                                 *)
PrintUpdateBanner(p) ==
    /\ cmd[p] = "ended" /\ cmd' = [cmd EXCEPT ![p] = "off"]
    /\ banner' = [banner EXCEPT ![p] = IF check[p] = "sent" /\ UpdateAvailable(p) THEN known[p] ELSE 0]
    /\ check' = [check EXCEPT ![p] = "off"]
    /\ UNCHANGED <<now, latest, cache, own, known, age>>

Publish(c) ==
    /\ latest[c] < MaxLatest /\ latest' = [latest EXCEPT ![c] = @ + 1]
    /\ UNCHANGED <<now, cache, own, cmd, check, known, age, banner>>

Tick ==
    /\ now < Horizon /\ now' = now + 1
    /\ UNCHANGED <<latest, cache, own, cmd, check, known, age, banner>>

CheckNext ==
    \/ \E p \in Users : Execute(p) \/ Load(p) \/ Fetch(p) \/ Save(p) \/ CommandEnds(p)
                        \/ PrintUpdateBanner(p)
    \/ \E c \in Channels : Publish(c)
    \/ Tick

CheckSpec == CheckInit /\ [][CheckNext]_checkVars

(* A process whose command has ended goes on to exit; nothing is promised   *)
(* of the request.                                                          *)
CheckFairness == \A p \in Users : WF_checkVars(PrintUpdateBanner(p))

-----------------------------------------------------------------------------
(* Properties *)

(* A release is announced only to a process that is older than it, whatever *)
(* other processes cached and whenever the user upgraded.  (A build from a  *)
(* commit is only told that another commit was the last one.)               *)
BannerIsNews ==
    \A p \in Users : banner[p] # 0 =>
        /\ banner[p] <= latest[Channel(p)]
        /\ own[p].build = "stable" => own[p].v < banner[p]
        /\ own[p].build \notin {"local", "compiled"} /\ own[p].v # banner[p]

(* A command that has ended exits, also when the request never returns. *)
CheckNeverDelays == \A p \in Users : cmd[p] = "ended" ~> cmd[p] = "off"

(* What the comment of CacheTTL says: it is how long an answer is cached.   *)
(* An answer used without asking again is not older.                        *)
CacheExpires == \A p \in Users : age[p] < CacheTTL
=============================================================================

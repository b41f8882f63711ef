# mkenv: a TLA+ verification project

mkenv runs a project's development environment in a Docker container: `mkenv .`
plans a Dockerfile from the project's files, builds or reuses an image, starts a
container with a terminal attached, and keeps the TCP ports of host and container in
step through a daemon that it starts inside. This directory holds TLA+ models of mkenv:
of the parts where several processes or goroutines meet, and of the algorithms that
decide what goes into an image. TLC configurations check them on small instances, and
TLAPS proofs show the safety of all the concurrent parts for all instances.

Source paths below are relative to the repository's `internal/`.

## 1. Inventory

| Component | State | Operations | Talks to |
|---|---|---|---|
| host port forwarding (`networking/host/forwarder.go`, `busyports.go`, handlers in `dockercontainer/orchestrator.go`) | registry of forwarders, host listeners | Add, Remove, List, Has, StopAll; snapshot, expose, list-blocked-ports handlers | control connection, shutdown hooks |
| sandbox port daemon (`apps/sandbox/cmds/daemon`, `networking/sandbox/ports.go`) | prebinds table, sockets in the container | collect and report a snapshot, kill refused programs, prebind and release | host handlers by RPC, programs of the container |
| control connection (`networking/protocol/control.go`, `sandbox/control_client.go`) | pending calls, channels, closed flag, send lock, read loop; server's handlers | Call, Send, Close, readLoop, Serve, dispatch | both daemons, every handler |
| image cache and resolver (`dockerimage/`, `dockerclient/builder.go`, `client.go`) | SQLite key-value table, images in Docker | ResolveImageID: get, claim, build, publish, release | other mkenv processes through the store |
| container lifecycle (`dockercontainer/orchestrator.go`, `dockerclient/runner.go`, `runtime/runtime.go`, `terminal.go`) | context, WaitGroup, exit channel, terminal mode, container | Start, startEnv, RunContainer, KillContainer, GoNamed, OnShutdown, Finalize | Docker, every goroutine |
| connection pump and proxies (`networking/protocol/proxy.go`, `host/reverse_proxy.go`, `sandbox/proxy.go`) | open connections | header, dial, PumpBidirectional | forwarders, policy |
| daemon single-instance lock (`apps/sandbox/cmds/daemon/daemon.go`) | pid file | ensureSingleInstance | a second daemon |
| environment configuration and guardrails (`runtime/envconfig.go`, `project.go`, `guardrails/`) | `.mkenv` files, policy file, known projects, layered configuration | resolveProject, LoadPolicy, path checks, scan, Merge, applyPolicy, confirmation | user, planner, image key, other processes |
| Dockerfile planner and bricks (`dockerfile/`, `bricksengine/`, `bricks/`) | bricks chosen, plan | estimateBricks, entrypoint choice, buildPlan, GenerateDockerfile | configuration, detectors, resolver |
| language detection (`bricksengine/detector.go`, `filesmanager/`, `versions/`) | scanner position, candidates | FindFile, Find, ReadWhile, ScanFiles, MaxVersionFromConstraints | project's files |
| version check (`versioncheck/`, `apps/mkenv/cmds/root.go`) | cached answer per channel in the store | Check, loadCache, saveCache, PrintUpdateBanner | store, GitHub, other processes |
| terminal output and logs (`ui/`, `logs/`, `apps/sandbox/cmds/logs`) | tail box, full-log buffer, log file, sync loop, reader's offset | level methods, tails, prompts, mute, onLog, onFetchLogs, follow | every goroutine, terminal, container |
| output filter (`runtime/altscreen_filter.go`) | held-back bytes | Write, Flush | container's output |
| agent distribution (`agentdist/`) | agent, temporary file, hash file on the host | ExtractAgent | other processes |
| cache volumes, tunnel, build and website | | | see section 6 |

What is hard here: handlers run in one goroutine per request, with an in-memory
registry that is read without its lock; sockets close asynchronously; the daemon acts
on answers that are one round trip old; one mutex is both send lock and pending-table
lock; processes coordinate through a table without transactions, a pid file and one
temporary file; configuration comes from layers that both enable and disable; the
screen is repaired by cursor arithmetic while any goroutine logs; streams are cut
anywhere; and shutdown is a web of hooks, contexts and a WaitGroup. `PROJECT.json` lists each hazard at its line with
the properties aimed at it.

## 2. Modules

| Module | Models | Depends on |
|---|---|---|
| `PortForwarding` | host registry and handlers, daemon loops, other programs | |
| `RpcService` | abstract: what a caller of `Call` may rely on | |
| `ControlConn` | `ControlConn` on both ends, `Serve`, `dispatch` | instantiates `RpcService` |
| `ImageResolve` | `ResolveImageID` in several processes | |
| `Lifecycle` | one `mkenv run` until the process ends | |
| `EnvConfig` | layered configuration, policy, paths (operators) | extends `Bricks` |
| `Bricks` | the bricks and the options they are built from (operators) | |
| `Planner` | from a configuration to a Dockerfile (operators) | extends `Bricks` |
| `Environment` | `mkenv run` from the project to the binds, in several processes | extends `EnvConfig`, `Planner` |
| `Versions` | version comparison and constraints (operators) | |
| `Detect` | file search, streaming scanner, detectors | extends `Versions` |
| `AltScreen` | the filter of the container's output | |
| `LogPipeline` | logger, tail box, log file, `mkenv logs` | |
| `VersionCheck` | the update check | |
| `AgentDist` | extraction of the agent | |
| `DaemonLock` | the daemon's pid file | |
| `MC*` | the modules above with what TLC needs; `MCStartup` explores five of them side by side | extend them |
| `*_proofs` | inductive invariants and theorems; `Startup_proofs` is about `VersionCheck`, `AgentDist`, `DaemonLock`, `Detect` and `AltScreen` | extend them and TLAPS |
| `Induction` | lemmas for the proofs about sequences | |

A definition named "Mutant of X" in a comment is a plausible bug in X's code. It is not
part of any specification; replacing X by it must make a stated property fail, which
shows that the property depends on that code.

### PortForwarding

`hostPort` and `contPort` say who holds each port on either side. `registry` is the map
of forwarders; its value "dead" is an entry whose `Start` failed, which the code keeps.
A step is one locked method of the registry or one unlocked read, so handlers interleave
as goroutines do:

* `onPortSnapshot` is `SnapAdd` (once per listener), `SnapList`, `SnapRemove` (once per
  stale forwarder), `SnapReply`;
* `onExpose` is `OnExpose`, between `ExposeRequest` and `ExposeExit` of the command;
* `onGetBlockedPorts` is `BlockedScan` or `BlockedScanFails`, `BlockedFilter` per port,
  `BlockedReply`;
* `CollectSnapshot` has two passes, `CollectInodes` and `SendSnapshot`; a socket that is
  closed, or a `/proc` entry that is unreadable, between them keeps PID 0, and a
  `/proc/net` file that cannot be read hides its ports;
* `ApplyRefused` is one refused port: the prebinds check and `killProcess`. A SIGTERM
  ends its process or is ignored;
* the prebind loop is `RequestBlocked`, `PrebindAdd` per port, `CloseFilter`;
* `Stop` only cancels a context; `CloseListener` is the goroutine that closes the socket;
* `CancelCtx`, `StopAll`, `Disconnect` are shutdown. A handler may still run after them.
* `RaceAbort`: Go's runtime may abort the process when a map read races with a write.
  The model allows it whenever an unlocked read and a locked write are both possible.

TCP and UDP sockets of a port are one port; a PID stands for one program and is not
reused; the connections through a forwarder are in `Lifecycle`.

### ControlConn and RpcService

Each call is a goroutine of the client. `cMu` is `muPending` while it is held across a
blocking write; all other critical sections are single steps that need it free. `c2s`
and `s2c` hold at most `Cap` frames, so a write blocks while the peer does not read.
`Close` is `CloseCalled` (or a failing read loop), `CloseRaw`, `ClosePurge`. On the host,
`InstallHandler` is `OnMessage` in `Serve`, which runs after the read loop has started.
`dispatch` is `HandlerReturns`, `DispatchLock`, `DispatchWrite`; after an error it sends
a second response, as the code does. A response that does not fit a frame is dropped.
Log lines (`SendLog`) use the same lock and no pending entry.

`RpcService` is four actions per call: it is invoked, carried out at most once, and ends
once, with the handler's own answer or without one. `CallIsRpc` is the refinement.

Left out: `Subscribe`, `Broadcast` and `Agents`, which nothing calls; a response value
that cannot be encoded (all response types can).

### ImageResolve

A step is one SQL statement or one Docker call of one process. `kv` maps project keys
and Dockerfile keys to an image, a BUILDING tag or nothing; `docker` says whether an
image was never built, was removed, has an old schema or is usable. Every statement may
fail, since the cache logs the error and continues; that is also what Ctrl-C does to the
store. `Crash` ends a process between two statements. `EditProject` changes the
Dockerfile a project plans to, `RemoveImage` is `docker rmi`. An image is identified by
both keys, as `composeImageTag` hashes both. Two tags made in the same tick for the same
Dockerfile are equal, as in the code, whose resolution is a second.

Left out: an empty project key (the signature cannot be computed).

### Lifecycle

The goroutines of main (`Start`, then `Finalize`), `startEnv` and `RunContainer`, and the
members of `rt.wg`: three shutdown hooks, the accept loops, a control handler, and the
connections being pumped. Each Docker call succeeds (only while the context is live) or
fails, possibly after the engine has done its part. `faults` is a history variable: some
call failed, some goroutine panicked. A panic ends its goroutine, after the deferred calls,
and the first one cancels the context; the hooks are left out of this, since one that
panicked would close nothing. `Waited` is `rt.wg` being empty.

Left out: the branch of RunContainer for a nil error from ContainerWait, which the
Docker client never sends; the terminal's resize watcher.

### Environment, EnvConfig, Planner, Bricks

A step of `Environment` is a read of a file or of the database, or an answer of the
user, of one of several processes: `ResolveProject`, `LoadPolicy`,
`ScanSuspiciousFiles`, `ReviewWarnings`, `ResolvePreferencesChain` (which folders have a
`.mkenv` file), `MergePreferences` once per file from the outermost on, `MergeOverride`
(the command line, then the policy), `ConfirmFirstRun`, then either `CacheHit` or
`EstimateBricks` and `PlanImage`, then `MakeBinds`. `Edit` is the
user changing a `.mkenv` file, the policy, the project or a link in between. What happens
between the key and the plan when several processes build is `ImageResolve`.

A configuration is a record with sets of brick ids, an entrypoint, a flag, volumes and
packages. `Merge` unites; only the entrypoint is replaced. A path is a sequence of
names; the variable `real` maps raw paths to what they resolve to at the moment.
`MergeOverride` compares the volumes with the policy by what they resolve to then, and
`MakeBinds` resolves them again. The folder of the project itself is taken not to move
(`ProjectAssumption`). A policy carries `ignore_preferences` as `ignorePrefs`; as in the
code, no step reads it.
`NewDebian`, `NewGolang` and so on are the bricks as lists of options, applied in the
order of the code by `NewBrick`. A shell step is named by what it does; packages, files
and folders by their names. A Dockerfile is a sequence of instructions.

What the project scanner finds and what the detectors report are inputs here.
Left out: `bricks_config`, because `Merge` writes it into the source and so no
configuration ever carries one; the choice of a system, since there is one.

### Detect, Versions, AltScreen

A file is a sequence of symbols: one stands for a version with its operator, "dot" for a
version character without a digit, others for any other byte. `kmpTable` and `Matched`
are the scanner's table and search, written as recursive functions, and `Fallback` is the
loop both contain.
`ScanFiles` and `Scan` are the functions of the code, an error of one file detector
ending the scan. A version is major and minor. `Check`, the constraint test of the
semver library, is external.

`AltScreen` is `Write` on chunks of any length and `Flush` at the end of the stream.

### LogPipeline

A logger call holds `l.mu` and is one step: `Log` for the seven level methods, `Banner`,
`NewTail`, `TailPrint`, `TailClose`, `Ask` and `Answer` (the prompts), `Attach` and
`Detach` (muted while the container has the terminal), `Close`. `OnLog` writes the
agent's lines past the logger. `Tick`, `StopLoop`, `CloseFile` are the sync loop and its
end. `FetchLogs`, `onFetchLogs`, `PrintFirst`, `PrintMore` are `mkenv logs`; `onFetchLogs`
reads the whole file with a scanner that gives up at a long line, and an answer larger
than a frame is never sent, after which the reader is "hung". `ReadFails` is the same
handler when the file cannot be opened (it answers as for an empty file) or a read fails
(as for a shorter one); the reader cannot tell, and its offset goes back. A reply is the
range of lines it holds, and `printed` the places in the file of the lines printed, so
that a repetition shows even where two lines are equal.

`term` holds the rows on the terminal, and `kept`, a history of the rows that must stay.

Left out: box borders and wrapped lines (a box is a title and its lines); short writes.

### VersionCheck, AgentDist, DaemonLock

`VersionCheck` runs `Execute` in several processes on one store: `Load`, `Fetch`, `Save`
are the goroutine, `CommandEnds` and `PrintUpdateBanner` the command. `AgentDist` models
files as inodes, so that a rename moves whatever is at the name and a process keeps
writing to the inode it opened. `DaemonLock` names a pid file by its creator; it is empty
until the pid is written, and `RemoveStale` removes whichever file is there by then.

## 3. Runs

| Run | Checks | Shows |
|---|---|---|
| `ports_safety` | `TypeOK`, `ListenersAccounted`, `PrebindsHoldSockets`, `DaemonSurvives`, `NoPendingKillForwarded` | holds, 2.8 million states |
| `ports_live` | `PortsReleased`, `StaleForwarderRemoved`, `StalePrebindReleased` | holds under fairness |
| `ports_forwarded` | `EventuallyForwarded` | violated: the entry of a failed `net.Listen` stays |
| `control_rpc` | `TypeOK`, `ChannelsClosedOnce`, `NoWaiterLeftBehind`, `ErrorComesFirst`, `CallIsRpc`, `CloseUnblocks` | holds, `Call` implements `RpcService` |
| `image_cache` | `TypeOK`, `CacheSound`, `ResultBuilt` | holds, 1.2 million states |
| `image_live` | `WaitEnds` | holds under fairness |
| `lifecycle` | `TypeOK`, `TerminalRestored`, `CleanExitRemoves`, `MkenvExits` | holds |
| `container_removed` | `ContainerDestroyed` | violated: when the daemon cannot be started, the container runs on |
| `env_plan` | `OnlyApprovedRuns`, `PolicyHasLastWord`, `EntrypointHonoured`, `SameKeySamePlan`, `StepsInBrickOrder` | holds, 2.4 million states |
| `logs` | `ScreenIntact`, `LogsExact`, `LinesSynced`, `FollowerCatchesUp` | holds, the last two under fairness, 0.3 million states |
| `startup` | `BannerIsNews`, `CheckNeverDelays` (update check), `AgentWhole`, `LockExclusive`, `RefusedForAReason`, `KmpExact`, `VersionJustified`, `FilterExact` | holds, 0.7 million states |
| `version_ttl` | `CacheExpires` | violated: reading the answer renews it |

Each violation is a finding in `PROJECT.json` with the line of the repository it
contradicts. What TLC finds in each:

* `ports_forwarded`: the expose command asks for a port that another program of the host
  holds. `net.Listen` fails, and `Add` keeps the entry it has stored. The other program
  ends, the port is in every snapshot, and every `Add` finds the entry and does nothing.
  The property concerns only ports that are in every snapshot from some time on
  (`ReadCompletely`): a `/proc/net` file that can never be read is no fault of mkenv's. With
  the entry dropped when `Start` fails, TLC finds the property to hold on this instance.
* `container_removed`: the container is started and the terminal is in raw mode;
  `startSandboxDaemon` fails and `RunContainer` returns. Nothing kills the container.
  The property leaves runs apart in which a goroutine panicked or raw mode was not
  reached.
* `version_ttl`: two runs within one TTL of each other, again and again.

### Bounds

* Ports: two in `ports_safety`, one of them the proxy's own port, so that the special
  case of `Add` and the daemon's permanent listener occur; the handlers treat other ports
  independently, which the theorems confirm. One port suffices for liveness: every
  property is about one port. One program in the container; a second one adds only
  another PID.
* `Calls`: two, one with a deadline: a response, a timeout and a log line compete for the
  lock. `Cap` is 1, so a buffer is full as soon as one frame is in it.
* Two processes, one project, two Dockerfiles: both keys are contended and the plan can
  change. `StaleAfter` is 0 and `Horizon` 2, so a tag can be fresh, expire, and be
  replaced. `ClaimDf` is not taken so late that its tag could not expire; this is what
  bounding the clock costs. `image_live` has one Dockerfile.
* One client: connections are independent of each other.
* `env_plan`: two processes, two folders with four possible `.mkenv` contents each (absent
  and unreadable ones among them), four policies, two command lines, one edit. They make a
  brick enabled by one layer and disabled by another, an entrypoint named by two, a
  forbidden volume, one without a target, a link that may move out of an allowed mount, a
  shared `nodejs` step in two bricks. One edit lets two processes see different files.
  Processes are symmetric.
* `logs`: three lines, a box of two lines, frames of two, one failed reading: boxes
  scroll, a tail is left open, answers outgrow a frame, a line is too long for the scanner,
  the offset goes back to any earlier line. The proofs have no bound on lines or failures.
* `startup`: two users, two releases and a TTL of one tick, so that an answer can expire
  between two reads; three extracting processes, two agents, two writes each; three
  daemons. Every text of up to six symbols over two letters before a version, every way
  of cutting three joined pieces of escape sequences into chunks. `version_ttl` needs a
  TTL of two ticks and one user.

Deadlock checking is off everywhere, because every modelled system may stop: mkenv
exits, calls end, processes finish.

### Fairness

* `PortForwarding`: weak fairness of the goroutines, the two ticker loops, the sockets
  that close and the shutdown hook; strong fairness of the host scan, so that lsof does
  not fail for ever. None for users, other programs or the network.
* `PortForwarding`, in `EventuallyForwarded` only: the assumption that the port's entry in
  `/proc/net` can be read from some time on, as part of the property.
* `LogPipeline`: weak fairness of the sync loop and of the reader's requests, which run in
  goroutines and processes of their own. None for the command. `FollowerCatchesUp` assumes
  that readings of the log file fail only finitely often, again within the property: each
  failure takes the follower back, so with infinitely many it need never be at the end.
* `VersionCheck`: weak fairness of the end of a command that has returned. None for the
  request, so `CheckNeverDelays` cannot rely on it.
* `ControlConn`: weak fairness of the client's goroutines only. The host may be stuck for
  ever: `CloseUnblocks` must not depend on it.
* `ImageResolve`: weak fairness of each process's next step and of the clock.
* `Lifecycle`: weak fairness of the goroutines; a Docker call returns. Clients of
  forwarded ports hang up eventually. Without that assumption `MkenvExits` fails, since
  `PumpBidirectional` waits for both directions and `Finalize` for the pump; main.go has a
  TODO about mkenv not exiting.

## 4. Proofs

Each proof module defines an inductive invariant (`IInv`, or one named for the
component), proves that `Init` implies it and that every action preserves it, and
derives the properties. TLC checked each of these invariants on the instance of the
component's run before it was proved. Every invariant and every action property of a
passing run is a theorem.

Assumptions are the named `ASSUME`s of the modules: the proxy ports differ, PIDs are not
the reserved names (`PortsAssumption`); deadlines belong to calls and `Cap` is positive
(`CallsAssumption`, `NoneAssumption`); the two kinds of keys are disjoint and ticks are
naturals (`KeysAssumption`, `TicksAssumption`, `TTLAssumption`); no daemon or process has
the name that stands for no file (`NoFileAssumption`, `AgentAssumption`), and an agent has
at least one block (`BlocksAssumption`); the sizes of the tail box, the first answer and
the frame are naturals (`TailAssumption`); what the `.mkenv` files, the policy and the
command line may hold are configurations and policies (`InputAssumption`); the project's
folder does not move (`ProjectAssumption`); the files of a
project and the streams of a container are sequences (`FilesAssumption`,
`StreamsAssumption`), a project has finitely many files, and a literal is a comparison
with a pair of naturals (`LiteralAssumption`).
`RegistryAssumption` and `StepsAssumption` are of a different kind: closed statements about
the bricks that are compiled in. Each brick is registered under its own id, and Debian is
the only system and offers no entrypoint; a step that two bricks share has the same step
before it in both, and no step runs both as root and as the user. TLC evaluates them; the
proofs need no other fact about what the bricks contain. A brick that listed two shared
steps in the other order would break `StepsAssumption`, and then the order of its steps.

* **PortForwarding_proofs**: `NoLeakedListener`, `PrebindsExact`, `NoSelfKill`,
  `KillsSpareForwarded`. The strengthening: what the daemon holds is its table plus the
  proxy port, and it is up (`DaemonInv`); in each phase of a round the reporter and the
  handler agree on what is outstanding (`RoundInv`); an "ok" answer is for a port with an
  entry or the proxy's (`AnswerInv`); and a refused port's entry stays dead until the
  reporter has acted on it (`RefusedDead`), because only the handler it is waiting for
  could remove the entry. This is why a kill cannot hit a port that has meanwhile become
  live, and it would break if the daemon sent a second snapshot before acting.
* **ControlConn_proofs**: `NoDoubleClose`, `CloseReleasesWaiters`, `ErrorSeenFirst`,
  `CallRefinesRpc`. Pending entries have open channels; a waiting call is pending,
  answered, or held by the read loop (`HeldInv`); after the purge only calls that `Send`
  will refuse can register (`PurgeInv`), which needs the order flag, socket, purge in
  `Close`. The second response that `dispatch` sends after an error is harmless because
  the error is ahead of it in the stream, or was delivered and has taken the pending
  entry with it (`OrderInv`). For the refinement, a request is in flight at most once and
  only before it is dispatched (`OnceInv`), and a response carries what the handler
  returned for the call it names (`AnswerInv`).
* **ImageResolve_proofs**: `CacheNeverLies`, `ResultIsBuilt`, for any number of processes.
  `ProcInv` says what a process knows at each program point: what it found is built and
  filed correctly, its tag carries its Dockerfile, and past the build its image exists.
* **Lifecycle_proofs**: `TerminalAlwaysRestored`, `CleanRunRemoves`. Raw mode exists only
  inside `RunContainer`, which `Finalize` waits for (`RawInv`); without faults the context
  ends only through an exit signal, the signal only after a nil result, the nil result
  only after the removal (`CleanInv`).
* **Environment_proofs**: `RunsAreApproved`, `PolicyObeyed`, `OverrideWins`,
  `SignatureStandsForPlan`, `StepsKeepOrder`, for any `.mkenv` files, policies and command
  lines, any depth of folders and any number of processes. A process that takes the
  project for known read a record of it (`ApprovedInv`). Once merged, a configuration
  obeys policy and command line (`Obeys`), and it stays the same to the end of the run;
  the plan is a function of the configuration, the findings and the entrypoint (`RunInv`).
  The rest is about that function: the ids in a plan are the bricks chosen from the
  configuration (`BricksOf`, `OrderOf`), the chosen order lists each of them once
  (`SortedIds`, with `Kept`, which keeps the elements at given positions), and two
  configurations with the same signature choose the same ones. For the order of the steps:
  where one step comes before another in every brick that has it, it does in the lists
  put together (`FlattenIs`, by induction over the bricks) and among the first occurrences
  that are kept (`UniqueIs`); the Dockerfile has those in one block, and no other `RUN` of
  the same step (`UserSteps`).
* **LogPipeline_proofs**: `ScreenStaysIntact`, `LogsAreExact`, and
  `LastRoundLeavesNothing`, the safety half of `LinesSynced`.
  The rows are the kept rows followed by the box of what the tail holds now, if it is
  drawn (`Intact`); each operation of the terminal takes such a screen to such a screen.
  Only the main goroutine opens a tail or mutes the terminal, and never both (`MainInv`);
  this is what makes clearing by height safe, since a box could not be cleared while
  muted. The log records the calls and call numbers only grow (`CallInv`); lines are
  buffered until there is a file, and what is not marked dirty is synced (`DiskInv`). The
  reader's offset is where its output ends, within the lines the scanner gets past, or
  after a failed reading possibly before that end (`ReaderInv`); that stays true because the file
  only grows and a line already written does not become long (`FileKept`). Hence no line
  is skipped, whatever fails.
* **Startup_proofs**: `OneDaemonRuns` and `GivesWayToARunner`: a pid is in a file only
  when its daemon ran (`NamedInv`); uncontended, a running daemon's file
  is at the path and the one inside is about to do nothing to it (`AloneInv`). `AgentIsWhole`: a process that got past the rename left a file there,
  and a temporary inode is never the installed one (`InodeInv`); without overlap the one
  extracting process owns the temporary file (`WriterInv`). `OnlyNewsAnnounced`: neither
  store nor request holds a version its channel has not released (`PublishedInv`).
  `SearchIsExact` is about the algorithm, for every file and prefix. A text ends with the
  borders of what it ends with and with no other shorter part (`BorderOfBorder`), so the
  loop finds the longest border the next symbol continues (`LoopFinds`); by induction over
  the prefix the table is right (`TableIsRight`), and over the text so is the search, up
  to its first hit (`MatchIsRight`). The loop ends because borders get shorter (`LoopEnds`).
  `VersionIsJustified`: the detectors' answers are what `ScanFiles` makes of the project,
  none of them a failure when the scan succeeds (`DetectInv`). `Find` stops at the first
  occurrence (`FindIsFirst`, from the search above), so the tokens read are the ones the
  property speaks of (`TokensAre`); versions are ordered and a finite set has a largest
  one (`LargestExists`), so `pickVersion` and `MaxVersionFromConstraints` are what they
  claim (`PickedIs`, `SettledIs`, `MinimumsMet`).
  `FilterIsExact` is about the filter, for every stream and every sequence of chunk
  sizes. A cut of the stream is clean when no complete sequence begins before it and
  ends after it; a clean cut stays one when more arrives, because what is held back is
  the start of a sequence. The terminal has what is visible up to a clean cut and the
  filter holds the rest (`AltInv`). `CutMoves` takes a clean cut past a character or a
  sequence, `FilteredIs` follows the scan of one chunk by induction over the positions
  from its end, and `HeldIsVisible` says that what is held back counts as visible.
* **Induction**: the library's induction theorems take an operator, which the provers
  cannot instantiate. `Least` gets a least element of a set of naturals from a
  well-founded relation, `Induct` is induction stated with a set, and `Ranks` says that
  counting the chosen positions of a sequence up to a position numbers them in order.

Only model-checked: the liveness properties, since fairness and ENABLED are outside TLAPS's
reach, and what the recursive functions over bricks compute (`NewBrick` is a fold over
options), which the two closed assumptions above stand for.

## 5. Observations

Statements of the repository that a definition of the models refutes, besides the
findings with a run of their own. Each is an invariant TLC refutes when it is added to
the run of its module.

* `OwnForwardNotBlocked` (`PortForwarding`): `dockercontainer/orchestrator.go:251` says
  "Skip ports already forwarded by us". `Has` is asked after the scan and without the lock;
  a snapshot handler that removes the forwarder in between makes mkenv's own port blocked.
* `ClaimHeld` (`PortForwarding`): `apps/sandbox/cmds/expose/expose.go:21` says "even when
  your server stops the port will not be released". The next snapshot removes it.
* `EveryRequestHandled` (`ControlConn`): `networking/protocol/control.go:205` says the
  handler is "invoked for every message that isn't a direct RPC response". A request read
  before `Serve` installs it is dropped, and a `Call` without a deadline waits for ever.
* `MountsAllowed` (`Environment`): `website/docs.html:502` says that if `allowed_mount_paths`
  is set, "only directories under these paths can be mounted", and line 505 "Symlink
  targets are checked against policy". A forbidden volume leaves the loop of `applyPolicy`
  without an error (`runtime/envconfig.go:433`), so it is mounted and those after it are
  not compared. Without one the property fails as well: `mkbinds` resolves the volumes
  again, and a link may have moved since the merge.
* `NothingForbiddenMounted` (`Environment`): `website/docs.html:503` says "Empty list means
  'allow all' (except hardcoded blocked paths like ~/.ssh)", line 378 and `README.md:46`
  that such folders cannot be mounted. Without a list of allowed mounts `applyPolicy`
  looks at no volume (`runtime/envconfig.go:398`), and nothing else does.
* `PreferencesIgnored` (`Environment`): `website/docs.html:537` says of a policy with
  `ignore_preferences` that it "Ignores user preferences to enforce organizational
  standards" (also line 430). No code reads the field (`guardrails/policy.go:74`).
* `FreshImage` (`ImageResolve`): `website/docs.html:291` says "Rebuilds only happen when
  dependency files change". The project key covers no file of the project.

Met while modelling, visible in the definitions:

* `Merge` copies brick configurations into the source instead of the target, so
  `bricks_config` has no effect (`runtime/envconfig.go:180`).
* A brick given on the command line stays disabled when a `.mkenv` file disables it.
* The ohmyzsh brick calls curl and the tmux brick git without asking for the package.
* A brick that the policy enables and a `.mkenv` disables is not installed
  (`PolicyHasLastWord` leaves it out).
* A reading of the log that fails makes `mkenv logs -f` print again, up to the whole log
  (`apps/sandbox/cmds/logs/logs.go:102`). `LogsExact` says that it skips nothing then either.
* Two processes may claim and build one Dockerfile at once, and `StopBuilding` may delete an
  image another process has published in between. Either costs a build; no property of
  `ImageResolve` forbids it.
* The python detector names one target file, a comma-separated list, so no version of
  python is ever detected. `18.x` is read as `18.`, which ends the scan with an error.
* The comment of `collectCandidates` speaks of `>=` and `<=`; the code handles `>` and `<`.
* A silent log line erases the live box and leaves the drawing to the next line.
* Before there is a log file, tail lines are not buffered, and the buffer of the other
  lines is unbounded; the daemon never sets a file.
* A commit build is told of any other commit, also an older cached one.
* Two overlapping extractions share one temporary file, and a crash between rename and
  hash lets a version skip the extraction of its own agent later (`AgentWhole` says what
  remains true).
* With two daemons inside `ensureSingleInstance` at once, both may run: the second may read
  an empty file, or remove the file of the first (`LockExclusive` excludes the overlap,
  `RefusedForAReason` does not).

## 6. Not modelled, and what is left

* Cache volumes and the unused tunnel package: calls to Docker without state of their own.
* `AllowReverseProxy`: a port compared with lists. The other commands of the two programs
  only pass arguments on.
* Tables, styles, wording; generated code; the website.
* `ContainerConfig`: a value and a list of handlers that nobody registers.

`PROJECT.json` gives the reason for each component.

No module uses a RECURSIVE operator, so each can be proved about. Left to prove are the safety
halves of the other liveness properties, as `LastRoundLeavesNothing` is that of `LinesSynced`.

------------------------------ MODULE Environment ------------------------------
(***************************************************************************)
(* `mkenv run` from ResolveProject to the binds of the container, in       *)
(* several processes over one project, while the user edits the .mkenv     *)
(* files, the policy, the project and the links its volumes go through.     *)
(*                                                                         *)
(* A step is a read of a file or of the database, or an answer of the      *)
(* user.  The image cache between the key and the plan is ImageResolve.    *)
(***************************************************************************)
EXTENDS EnvConfig, Planner, Naturals

CONSTANTS
    Procs,          \* mkenv processes
    Project,        \* the raw path of the project
    Prefs,          \* what one .mkenv may hold: configurations, NoFile, Broken
    Levels,         \* number of folders from the root to the project
    Policies,       \* what policy.json may hold: policies, NoPolicy, Unlocked
    Overrides,      \* command lines
    Findings,       \* what the detectors may report: functions on Languages
    Links,          \* what the raw paths may resolve to: values of real
    MaxEdits        \* bound on the user's edits

ASSUME InputAssumption ==
    /\ Levels \in Nat
    /\ \A f \in Prefs : f \notin {NoFile, Broken} => f \in Config
    /\ \A f \in Policies : f \notin {NoPolicy, Unlocked} => f \in Policy
    /\ Overrides \subseteq Config
    /\ Findings \subseteq [Languages -> SUBSET Versions]

(* The folder of the project does not move under a run. *)
ASSUME ProjectAssumption ==
    \A l, m \in Links : /\ Project \in DOMAIN l <=> Project \in DOMAIN m
                        /\ Project \in DOMAIN l => l[Project] = m[Project]

VARIABLES
    prefs, policyFile, found,   \* the files
    edits,      \* edits so far
    db,         \* the project is recorded as known
    approved,   \* history: a user confirmed the first run
    pc,         \* per process: the next step of RunCmdRunE, or how it ended
    override,   \* per process: the command line
    known,      \* per process: Project.known
    policy,     \* per process: the loaded policy
    chain,      \* per process: the folders whose .mkenv is still to be merged
    cfg,        \* per process: the configuration merged so far; Project.envConfig from then on
    scan,       \* per process: what the detectors reported
    entry,      \* per process: the entrypoint brick
    plan,       \* per process: the BuildPlan, noPlan when the image was cached
    binds       \* per process: the host paths mounted

files == <<prefs, policyFile, found, real, edits>>
vars == <<files, db, approved, pc, override, known, policy, chain, cfg, scan, entry, plan, binds>>

Init ==
    /\ prefs \in [1..Levels -> Prefs]
    /\ policyFile \in Policies
    /\ found \in Findings
    /\ real \in Links
    /\ edits = 0
    /\ db = FALSE /\ approved = FALSE
    /\ pc = [p \in Procs |-> "project"]
    /\ override \in [Procs -> Overrides]
    /\ known = [p \in Procs |-> FALSE]
    /\ policy = [p \in Procs |-> defaultPolicy]
    /\ chain = [p \in Procs |-> {}]
    /\ cfg = [p \in Procs |-> buildDefaultEnvConfig]
    /\ scan = [p \in Procs |-> [l \in Languages |-> {}]]
    /\ entry = [p \in Procs |-> NoBrick]
    /\ plan = [p \in Procs |-> noPlan]
    /\ binds = [p \in Procs |-> <<>>]

Goto(p, step) == pc' = [pc EXCEPT ![p] = step]
Here(p, step) == pc[p] = step

-----------------------------------------------------------------------------
(* The project and its configuration *)

(* resolveProject, then SetEnvConfigOverride.  A database that cannot be    *)
(* read counts as unknown.                                                  *)
ResolveProject(p) ==
    /\ Here(p, "project")
    /\ \/ Resolves(Project) /\ Goto(p, "policy") /\ known' \in {[known EXCEPT ![p] = db], known}
       \/ ~Resolves(Project) /\ Goto(p, "failed") /\ UNCHANGED known
    /\ UNCHANGED <<files, db, approved, override, policy, chain, cfg, scan, entry, plan, binds>>

(* The first call of EnvConfig, made for the key of the image cache: an     *)
(* error of resolveEnvConfig is a panic.  LoadPolicy and the path checks.   *)
LoadPolicy(p) ==
    /\ Here(p, "policy")
    /\ policy' = [policy EXCEPT ![p] = IF policyFile \in {NoPolicy, Unlocked}
                                       THEN defaultPolicy ELSE policyFile]
    /\ Goto(p, CASE policyFile = Unlocked \/ ~PathIsSafe(policy'[p], Project) -> "panicked"
                 [] known[p] -> "chain"
                 [] OTHER -> "scan")
    /\ UNCHANGED <<files, db, approved, override, known, chain, cfg, scan, entry, plan, binds>>

(* ScanSuspiciousFiles of an unknown project: a cancelled scan is an error, *)
(* a warning is shown to the user.                                          *)
ScanSuspiciousFiles(p) ==
    /\ Here(p, "scan")
    /\ \E next \in {"chain", "review", "panicked"} : Goto(p, next)
    /\ UNCHANGED <<files, db, approved, override, known, policy, chain, cfg, scan, entry, plan, binds>>

ReviewWarnings(p) ==
    /\ Here(p, "review")
    /\ \E next \in {"chain", "panicked"} : Goto(p, next)
    /\ UNCHANGED <<files, db, approved, override, known, policy, chain, cfg, scan, entry, plan, binds>>

(* The folders with a .mkenv; an error when the project is gone. *)
ResolvePreferencesChain(p) ==
    /\ Here(p, "chain")
    /\ \/ Goto(p, "merge") /\ chain' = [chain EXCEPT ![p] = {i \in 1..Levels : prefs[i] # NoFile}]
       \/ Goto(p, "panicked") /\ UNCHANGED chain
    /\ UNCHANGED <<files, db, approved, override, known, policy, cfg, scan, entry, plan, binds>>

(* One .mkenv, from the root folder down to the project: it may be gone     *)
(* again or broken.                                                         *)
MergePreferences(p) ==
    /\ Here(p, "merge") /\ chain[p] # {}
    /\ LET i == CHOOSE i \in chain[p] : \A j \in chain[p] : i <= j IN
       \/ /\ prefs[i] \notin {NoFile, Broken}
          /\ cfg' = [cfg EXCEPT ![p] = Merge(@, prefs[i])]
          /\ chain' = [chain EXCEPT ![p] = @ \ {i}]
          /\ UNCHANGED pc
       \/ prefs[i] \in {NoFile, Broken} /\ Goto(p, "panicked") /\ UNCHANGED <<cfg, chain>>
    /\ UNCHANGED <<files, db, approved, override, known, policy, scan, entry, plan, binds>>

(* The command line, then the policy. *)
MergeOverride(p) ==
    /\ Here(p, "merge") /\ chain[p] = {}
    /\ LET merged == applyPolicy(Merge(cfg[p], override[p]), policy[p])
           ok == PolicyAccepts(merged, policy[p])
       IN  /\ cfg' = IF ok THEN [cfg EXCEPT ![p] = merged] ELSE cfg
           /\ Goto(p, IF ~ok THEN "panicked" ELSE IF known[p] THEN "image" ELSE "confirm")
    /\ UNCHANGED <<files, db, approved, override, known, policy, chain, scan, entry, plan, binds>>

(* Mutant of ConfirmFirstRun: the project is recorded before the answer. *)
ConfirmFirstRunLate(p) ==
    /\ Here(p, "confirm")
    /\ \E yes \in BOOLEAN :
        /\ approved' = (approved \/ yes)
        /\ Goto(p, IF yes THEN "image" ELSE "exited")
    /\ db' = TRUE /\ known' = [known EXCEPT ![p] = TRUE]
    /\ UNCHANGED <<files, override, policy, chain, cfg, scan, entry, plan, binds>>

(* The prompt of a first run; then SetKnown, whose write may fail.  A       *)
(* prompt that fails is a panic, "no" ends the process.                     *)
ConfirmFirstRun(p) ==
    /\ Here(p, "confirm")
    /\ \/ /\ Goto(p, "image")
          /\ approved' = TRUE
          /\ known' = [known EXCEPT ![p] = TRUE]
          /\ db' \in {db, TRUE}
       \/ /\ \E next \in {"exited", "panicked"} : Goto(p, next)
          /\ UNCHANGED <<approved, known, db>>
    /\ UNCHANGED <<files, override, policy, chain, cfg, scan, entry, plan, binds>>

-----------------------------------------------------------------------------
(* The image *)

(* An image cached for the signature needs no plan. *)
CacheHit(p) ==
    /\ Here(p, "image") /\ Goto(p, "binds")
    /\ UNCHANGED <<files, db, approved, override, known, policy, chain, cfg, scan, entry, plan, binds>>

(* The detectors read the project.  A scan may fail. *)
EstimateBricks(p) ==
    /\ Here(p, "image")
    /\ \/ Goto(p, "entrypoint") /\ scan' = [scan EXCEPT ![p] = found]
       \/ Scanned(cfg[p]) # {} /\ Goto(p, "failed") /\ UNCHANGED scan
    /\ UNCHANGED <<files, db, approved, override, known, policy, chain, cfg, entry, plan, binds>>

(* The entrypoint is decided or asked for ("none" is an answer, a failed    *)
(* prompt an error); then buildPlan.                                        *)
PlanImage(p) ==
    /\ Here(p, "entrypoint")
    /\ LET bricks == estimateBricks(cfg[p], scan[p])
           decided == processEntrypointCandidates(cfg[p], bricks)
       IN  \/ \E e \in IF decided # {} THEN decided
                        ELSE EntrypointCandidates(bricks) \cup {NoBrick} :
                /\ entry' = [entry EXCEPT ![p] = e]
                /\ plan' = [plan EXCEPT ![p] = buildPlan(cfg[p], bricks, e)]
                /\ Goto(p, "binds")
           \/ decided = {} /\ Goto(p, "failed") /\ UNCHANGED <<entry, plan>>
    /\ UNCHANGED <<files, db, approved, override, known, policy, chain, cfg, scan, binds>>

(* mkbinds resolves the volumes again, whatever they were when the policy   *)
(* was compared with them: a volume without a target is a panic, a path that does not      *)
(* resolve is an error, whichever comes first; then ExtractAgent, which may *)
(* fail.  The binds of mkenv itself are left out.                           *)
MakeBinds(p) ==
    /\ Here(p, "binds")
    /\ LET vols == cfg[p].vols
           bad == {i \in DOMAIN vols : vols[i].target = Blank \/ ~Resolves(vols[i].host)}
           first == CHOOSE i \in bad : \A j \in bad : i <= j
       IN  \/ /\ bad = {} /\ Goto(p, "started")
              /\ binds' = [binds EXCEPT ![p] =
                            Append([i \in DOMAIN vols |-> ResolvePathStrict(vols[i].host)],
                                   ResolveFolderStrict(Project))]
           \/ bad = {} /\ Goto(p, "failed") /\ UNCHANGED binds
           \/ /\ bad # {} /\ UNCHANGED binds
              /\ Goto(p, IF vols[first].target = Blank THEN "panicked" ELSE "failed")
    /\ UNCHANGED <<files, db, approved, override, known, policy, chain, cfg, scan, entry, plan>>

-----------------------------------------------------------------------------
(* The user *)

Edit ==
    /\ edits < MaxEdits /\ edits' = edits + 1
    /\ \/ \E i \in 1..Levels, f \in Prefs : prefs' = [prefs EXCEPT ![i] = f]
          /\ UNCHANGED <<policyFile, found, real>>
       \/ policyFile' \in Policies /\ UNCHANGED <<prefs, found, real>>
       \/ found' \in Findings /\ UNCHANGED <<prefs, policyFile, real>>
       \/ real' \in Links /\ UNCHANGED <<prefs, policyFile, found>>
    /\ UNCHANGED <<db, approved, pc, override, known, policy, chain, cfg, scan, entry, plan, binds>>

Next ==
    \/ \E p \in Procs :
        \/ ResolveProject(p) \/ LoadPolicy(p) \/ ScanSuspiciousFiles(p) \/ ReviewWarnings(p)
        \/ ResolvePreferencesChain(p) \/ MergePreferences(p) \/ MergeOverride(p)
        \/ ConfirmFirstRun(p) \/ CacheHit(p) \/ EstimateBricks(p) \/ PlanImage(p) \/ MakeBinds(p)
    \/ Edit

Spec == Init /\ [][Next]_vars

-----------------------------------------------------------------------------
(* Properties *)

Dockerfile(p) == GenerateDockerfile(plan[p])
Planned(p) == plan[p].order # <<>>

(* A project is recorded as known, and an image is resolved for it, only    *)
(* after a user confirmed a first run, in whichever process that was.       *)
OnlyApprovedRuns ==
    /\ db => approved
    /\ \A p \in Procs : pc[p] \in {"image", "entrypoint", "binds", "started"} => approved

(* The policy has the last word: a brick it disables is in no plan, unless  *)
(* it is the system the image is based on, and one it enables is in every   *)
(* plan unless the policy or a .mkenv disables it.                          *)
PolicyHasLastWord ==
    \A p \in Procs : Planned(p) =>
        /\ policy[p].disable \cap ToSet(plan[p].order) \subseteq {"debian"}
        /\ (policy[p].enable \cap Registered) \ cfg[p].disable \subseteq ToSet(plan[p].order)

(* The entrypoint named on the command line wins over those of the .mkenv   *)
(* files and over the prompt, when its brick offers one and is not disabled. *)
EntrypointHonoured ==
    \A p \in Procs : Planned(p) /\ override[p].entry \in Registered \ cfg[p].disable
                     /\ "entrypoint" \in Brick[override[p].entry][NoVersion].kinds
        => entry[p] = override[p].entry

(* Two runs with the same signature, the same detected languages and the    *)
(* same answer write the same Dockerfile: the signature may stand for it.   *)
SameKeySamePlan ==
    \A p, q \in Procs :
        Planned(p) /\ Planned(q) /\ Signature(cfg[p]) = Signature(cfg[q])
            /\ scan[p] = scan[q] /\ entry[p] = entry[q]
        => SameDockerfile(Dockerfile(p), Dockerfile(q))

(* The build steps of a brick run in the order the brick lists them, also   *)
(* when an earlier brick brings some of the same steps.                     *)
StepsInBrickOrder ==
    \A p \in Procs : Planned(p) =>
        LET bricks == estimateBricks(cfg[p], scan[p])
            df == Dockerfile(p)
        IN  \A b \in DOMAIN bricks : \A i \in 2..Len(bricks[b].user) :
                StepAt(df, bricks[b].user[i-1]) < StepAt(df, bricks[b].user[i])

-----------------------------------------------------------------------------
(* What the documentation says and the code does not do *)

Volumes(p) == {binds[p][i] : i \in 1..Len(binds[p]) - 1}

(* Refuted by Spec: with a list of allowed mounts, every volume of a        *)
(* started container lies under one of them.  applyPolicy stops at a        *)
(* forbidden volume without an error and leaves the rest unchecked; and     *)
(* mkbinds resolves the paths a second time.                                *)
MountsAllowed ==
    \A p \in Procs : pc[p] = "started" /\ policy[p].mounts # {} =>
        \A path \in Volumes(p) : \E base \in policy[p].mounts : IsPrefix(base, path)

(* Refuted by Spec: no volume of a started container lies in a forbidden    *)
(* folder, with an empty list of allowed mounts or none.  applyPolicy looks *)
(* at the volumes only when the list has members.                           *)
NothingForbiddenMounted ==
    \A p \in Procs : pc[p] = "started" /\ policy[p].mounts = {} =>
        \A path \in Volumes(p) : ~ForbiddenFolder(FolderOf(path))

(* Refuted by Spec: under a policy with ignore_preferences the .mkenv files *)
(* have no part in the configuration.  No code reads the field.             *)
PreferencesIgnored ==
    \A p \in Procs : policy[p].ignorePrefs /\ pc[p] \in {"confirm", "image", "entrypoint", "binds", "started"} =>
        cfg[p] = applyPolicy(Merge(buildDefaultEnvConfig, override[p]), policy[p])
=============================================================================

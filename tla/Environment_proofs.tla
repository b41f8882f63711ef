-------------------------- MODULE Environment_proofs --------------------------
(***************************************************************************)
(* From the files to a running container, for any number of processes and  *)
(* folders, any contents of the files and any number of edits.             *)
(***************************************************************************)
EXTENDS Environment, Induction

Steps == {"project", "policy", "scan", "review", "chain", "merge", "confirm", "image", "entrypoint",
          "binds", "started", "failed", "panicked", "exited"}

FileType ==
    /\ prefs \in [1..Levels -> Prefs] /\ policyFile \in Policies /\ found \in Findings

RunType ==
    /\ pc \in [Procs -> Steps]
    /\ override \in [Procs -> Overrides]
    /\ chain \in [Procs -> SUBSET (1..Levels)]
    /\ scan \in [Procs -> [Languages -> SUBSET Versions]]
    /\ DOMAIN entry = Procs /\ DOMAIN plan = Procs /\ DOMAIN binds = Procs
PolicyType == policy \in [Procs -> Policy]
ConfigType == cfg \in [Procs -> Config]
KnownType == known \in [Procs -> BOOLEAN] /\ db \in BOOLEAN /\ approved \in BOOLEAN

EnvType == FileType /\ RunType /\ PolicyType /\ ConfigType /\ KnownType

(* A process that takes the project for known read a record of it. *)
ApprovedInv == OnlyApprovedRuns /\ \A p \in Procs : known[p] => approved

Resolved == {"confirm", "image", "entrypoint", "binds", "started"}

(* What the policy and the command line ask for is in the configuration. *)
Obeys(p) ==
    /\ policy[p].disable \ {NoBrick} \subseteq cfg[p].disable
    /\ policy[p].enable \ {NoBrick} \subseteq cfg[p].enable
    /\ override[p].entry # NoBrick => cfg[p].entry = override[p].entry

Decided(p) ==
    LET bricks == estimateBricks(cfg[p], scan[p])
        decided == processEntrypointCandidates(cfg[p], bricks)
    IN  IF decided # {} THEN decided ELSE EntrypointCandidates(bricks) \cup {NoBrick}

(* It stays so to the end of a run, also of one that fails with a plan; a   *)
(* plan is the one of the configuration, the findings and the entrypoint.   *)
RunInv(p) ==
    /\ pc[p] \in Resolved \/ Planned(p) => Obeys(p)
    /\ Planned(p) =>
        /\ pc[p] \in {"binds", "started", "failed", "panicked"}
        /\ plan[p] = buildPlan(cfg[p], estimateBricks(cfg[p], scan[p]), entry[p])
        /\ entry[p] \in Decided(p)

EnvInv == EnvType /\ ApprovedInv /\ \A p \in Procs : RunInv(p)

-----------------------------------------------------------------------------
(* Configurations *)

LEMMA DefaultConfig == buildDefaultEnvConfig \in Config /\ defaultPolicy \in Policy
  BY DEF buildDefaultEnvConfig, Config, defaultPolicy, Policy

(* Merging configurations gives one, and the later entrypoint wins. *)
LEMMA MergeConfig ==
    ASSUME NEW c \in Config, NEW d \in Config
    PROVE  /\ Merge(c, d) \in Config
           /\ d.entry # NoBrick => Merge(c, d).entry = d.entry
  BY DEF Merge, Config

(* A policy only adds to the bricks of a configuration. *)
LEMMA PolicyConfig ==
    ASSUME NEW c \in Config, NEW pol \in Policy
    PROVE  /\ applyPolicy(c, pol) \in Config
           /\ applyPolicy(c, pol).entry = c.entry
           /\ pol.disable \ {NoBrick} \subseteq applyPolicy(c, pol).disable
           /\ pol.enable \ {NoBrick} \subseteq applyPolicy(c, pol).enable
  BY DEF applyPolicy, Config, Policy

-----------------------------------------------------------------------------
(* The invariant *)

LEMMA EnvInit == Init => EnvInv
<1> SUFFICES ASSUME Init PROVE EnvInv  OBVIOUS
<1> USE InputAssumption DEF Init
<1>1. FileType /\ RunType
  BY DEF FileType, RunType, Steps
<1>2. PolicyType /\ ConfigType
  BY DefaultConfig DEF PolicyType, ConfigType
<1>3. KnownType
  <2>1. known \in [Procs -> BOOLEAN] /\ db \in BOOLEAN /\ approved \in BOOLEAN
    OBVIOUS
  <2>2. QED
    BY <2>1 DEF KnownType
<1>4. ApprovedInv
  BY DEF ApprovedInv, OnlyApprovedRuns
<1>5. ASSUME NEW p \in Procs PROVE RunInv(p)
  <2>1. pc[p] = "project" /\ plan[p] = noPlan
    OBVIOUS
  <2>2. ~Planned(p)
    BY <2>1 DEF Planned, noPlan
  <2>3. QED
    BY <2>1, <2>2 DEF RunInv, Resolved
<1>6. QED
  BY <1>1, <1>2, <1>3, <1>4, <1>5 DEF EnvInv, EnvType

(* What a process does not touch. *)
Same(p) ==
    /\ pc'[p] = pc[p] /\ override'[p] = override[p] /\ policy'[p] = policy[p] /\ cfg'[p] = cfg[p]
    /\ scan'[p] = scan[p] /\ entry'[p] = entry[p] /\ plan'[p] = plan[p]

LEMMA SameRun ==
    ASSUME NEW p \in Procs, RunInv(p), Same(p)
    PROVE  RunInv(p)'
  BY DEF Same, RunInv, Obeys, Planned, Decided

StepOf(p) ==
    \/ ResolveProject(p) \/ LoadPolicy(p) \/ ScanSuspiciousFiles(p) \/ ReviewWarnings(p)
    \/ ResolvePreferencesChain(p) \/ MergePreferences(p) \/ MergeOverride(p)
    \/ ConfirmFirstRun(p) \/ CacheHit(p) \/ EstimateBricks(p) \/ PlanImage(p)
    \/ MakeBinds(p)

(* A process leaves the files and the others alone. *)
LEMMA OthersSame ==
    ASSUME RunType, PolicyType, ConfigType, NEW p \in Procs, StepOf(p)
    PROVE  /\ UNCHANGED <<prefs, policyFile, found, override>>
           /\ \A q \in Procs : q # p => Same(q)
<1> USE DEF RunType, PolicyType, ConfigType, Same, Goto, files
<1>1. CASE ResolveProject(p)
  BY <1>1 DEF ResolveProject
<1>2. CASE LoadPolicy(p)
  BY <1>2 DEF LoadPolicy
<1>3. CASE ScanSuspiciousFiles(p)
  BY <1>3 DEF ScanSuspiciousFiles
<1>4. CASE ReviewWarnings(p)
  BY <1>4 DEF ReviewWarnings
<1>5. CASE ResolvePreferencesChain(p)
  BY <1>5 DEF ResolvePreferencesChain
<1>6. CASE MergePreferences(p)
  BY <1>6 DEF MergePreferences
<1>7. CASE MergeOverride(p)
  BY <1>7 DEF MergeOverride
<1>8. CASE ConfirmFirstRun(p)
  BY <1>8 DEF ConfirmFirstRun
<1>9. CASE CacheHit(p)
  BY <1>9 DEF CacheHit
<1>10. CASE EstimateBricks(p)
  BY <1>10 DEF EstimateBricks
<1>11. CASE PlanImage(p)
  BY <1>11 DEF PlanImage
<1>12. CASE MakeBinds(p)
  BY <1>12 DEF MakeBinds
<1>13. QED
  BY <1>1, <1>2, <1>3, <1>4, <1>5, <1>6, <1>7, <1>8, <1>9, <1>10, <1>11, <1>12 DEF StepOf

LEMMA TypeStep ==
    ASSUME EnvType, Next
    PROVE  EnvType'
<1> USE InputAssumption DEF EnvType
<1>1. ASSUME NEW p \in Procs, ResolveProject(p) PROVE EnvType'
  BY <1>1, ZenonT(60) DEF ResolveProject, Goto, files, FileType, RunType, PolicyType, ConfigType, KnownType, Steps
<1>2. ASSUME NEW p \in Procs, LoadPolicy(p) PROVE EnvType'
  <2>1. PolicyType'
    BY <1>2, DefaultConfig DEF LoadPolicy, FileType, PolicyType
  <2>2. \E next \in {"panicked", "chain", "scan"} : Goto(p, next)
    BY <1>2 DEF LoadPolicy
  <2>3. QED
    BY <1>2, <2>1, <2>2 DEF LoadPolicy, Goto, files, FileType, RunType, ConfigType, KnownType, Steps
<1>3. ASSUME NEW p \in Procs, ScanSuspiciousFiles(p) PROVE EnvType'
  BY <1>3 DEF ScanSuspiciousFiles, Goto, files, FileType, RunType, PolicyType, ConfigType, KnownType, Steps
<1>4. ASSUME NEW p \in Procs, ReviewWarnings(p) PROVE EnvType'
  BY <1>4 DEF ReviewWarnings, Goto, files, FileType, RunType, PolicyType, ConfigType, KnownType, Steps
<1>5. ASSUME NEW p \in Procs, ResolvePreferencesChain(p) PROVE EnvType'
  BY <1>5, ZenonT(60) DEF ResolvePreferencesChain, Goto, files, FileType, RunType, PolicyType, ConfigType, KnownType, Steps
<1>6. ASSUME NEW p \in Procs, MergePreferences(p) PROVE EnvType'
  <2> DEFINE i == CHOOSE i \in chain[p] : \A j \in chain[p] : i <= j
  <2>1. i \in 1..Levels
    <3>1. chain[p] \in SUBSET Nat /\ chain[p] # {} /\ chain[p] \subseteq 1..Levels
      BY <1>6 DEF MergePreferences, RunType
    <3>2. \E k \in chain[p] : \A j \in chain[p] : k <= j
      BY <3>1, Least
    <3>3. i \in chain[p]
      BY <3>2
    <3>4. QED
      BY <3>1, <3>3
  <2>2. /\ cfg' = cfg \/ (prefs[i] \notin {NoFile, Broken} /\ cfg' = [cfg EXCEPT ![p] = Merge(@, prefs[i])])
        /\ chain' = chain \/ chain' = [chain EXCEPT ![p] = @ \ {i}]
        /\ pc' = pc \/ pc' = [pc EXCEPT ![p] = "panicked"]
    BY <1>6 DEF MergePreferences, Goto
  <2> HIDE DEF i
  <2>3. prefs[i] \notin {NoFile, Broken} => prefs[i] \in Config
    BY <2>1 DEF FileType
  <2>4. ConfigType'
    BY <2>2, <2>3, MergeConfig DEF ConfigType
  <2>5. RunType'
    <3>1. chain' \in [Procs -> SUBSET (1..Levels)]
      BY <2>2 DEF RunType
    <3>2. pc' \in [Procs -> Steps]
      BY <2>2 DEF RunType, Steps
    <3>3. QED
      BY <1>6, <3>1, <3>2 DEF MergePreferences, RunType
  <2>6. QED
    BY <1>6, <2>4, <2>5 DEF MergePreferences, files, FileType, PolicyType, KnownType
<1>7. ASSUME NEW p \in Procs, MergeOverride(p) PROVE EnvType'
  <2>1. cfg' = cfg \/ cfg' = [cfg EXCEPT ![p] = applyPolicy(Merge(cfg[p], override[p]), policy[p])]
    BY <1>7 DEF MergeOverride
  <2>2. ConfigType'
    <3>1. cfg[p] \in Config /\ override[p] \in Config /\ policy[p] \in Policy
      BY DEF ConfigType, RunType, PolicyType
    <3>2. applyPolicy(Merge(cfg[p], override[p]), policy[p]) \in Config
      BY <3>1, MergeConfig, PolicyConfig
    <3>3. QED
      BY <2>1, <3>2 DEF ConfigType
  <2>3. \E next \in {"panicked", "image", "confirm"} : Goto(p, next)
    BY <1>7 DEF MergeOverride
  <2>4. QED
    BY <1>7, <2>2, <2>3 DEF MergeOverride, Goto, files, FileType, RunType, PolicyType, KnownType, Steps
<1>8. ASSUME NEW p \in Procs, ConfirmFirstRun(p) PROVE EnvType'
  BY <1>8 DEF ConfirmFirstRun, Goto, files, FileType, RunType, PolicyType, ConfigType, KnownType, Steps
<1>9. ASSUME NEW p \in Procs, CacheHit(p) PROVE EnvType'
  BY <1>9 DEF CacheHit, Goto, files, FileType, RunType, PolicyType, ConfigType, KnownType, Steps
<1>10. ASSUME NEW p \in Procs, EstimateBricks(p) PROVE EnvType'
  BY <1>10 DEF EstimateBricks, Goto, files, FileType, RunType, PolicyType, ConfigType, KnownType, Steps
<1>11. ASSUME NEW p \in Procs, PlanImage(p) PROVE EnvType'
  BY <1>11 DEF PlanImage, Goto, files, FileType, RunType, PolicyType, ConfigType, KnownType, Steps
<1>12. ASSUME NEW p \in Procs, MakeBinds(p) PROVE EnvType'
  BY <1>12 DEF MakeBinds, Goto, files, FileType, RunType, PolicyType, ConfigType, KnownType, Steps
<1>13. CASE Edit
  BY <1>13 DEF Edit, FileType, RunType, PolicyType, ConfigType, KnownType
<1>14. QED
  BY <1>1, <1>2, <1>3, <1>4, <1>5, <1>6, <1>7, <1>8, <1>9, <1>10, <1>11, <1>12, <1>13 DEF Next

LEMMA ApprovedStep == EnvInv /\ Next => ApprovedInv'
<1> SUFFICES ASSUME EnvInv, Next PROVE ApprovedInv'  OBVIOUS
<1> USE DEF EnvInv, EnvType, KnownType, ApprovedInv, OnlyApprovedRuns
<1>1. ASSUME NEW p \in Procs, StepOf(p), UNCHANGED <<db, approved, known>>,
             pc'[p] \in {"image", "entrypoint", "binds", "started"}
                => known[p] \/ pc[p] \in {"image", "entrypoint", "binds", "started"}
      PROVE  ApprovedInv'
  <2>1. \A q \in Procs : q # p => pc'[q] = pc[q]
    BY <1>1, OthersSame DEF Same
  <2>2. QED
    BY <1>1, <2>1
<1>2. ASSUME NEW p \in Procs, ResolveProject(p) PROVE ApprovedInv'
  <2>1. pc'[p] \in {"policy", "failed"} /\ \A q \in Procs : q # p => pc'[q] = pc[q]
    BY <1>2 DEF ResolveProject, Goto, RunType
  <2>2. UNCHANGED <<db, approved>> /\ \A q \in Procs : known'[q] => known[q] \/ db
    BY <1>2 DEF ResolveProject
  <2>3. QED
    BY <2>1, <2>2
<1>3. ASSUME NEW p \in Procs, ConfirmFirstRun(p) PROVE ApprovedInv'
  <2>1. CASE approved'
    BY <2>1
  <2>2. CASE ~approved'
    <3>1. UNCHANGED <<approved, known, db>> /\ pc'[p] \in {"exited", "panicked"}
      BY <1>3, <2>2, ZenonT(60) DEF ConfirmFirstRun, Goto, RunType
    <3>2. QED
      BY <1>1, <1>3, <3>1 DEF StepOf
  <2>3. QED
    BY <2>1, <2>2
<1>4. ASSUME NEW p \in Procs, StepOf(p), ~ResolveProject(p), ~ConfirmFirstRun(p) PROVE ApprovedInv'
  <2>1. UNCHANGED <<db, approved, known>>
    BY <1>4 DEF StepOf, LoadPolicy, ScanSuspiciousFiles, ReviewWarnings, ResolvePreferencesChain,
                MergePreferences, MergeOverride, CacheHit, EstimateBricks, PlanImage, MakeBinds
  <2>2. pc'[p] \in {"image", "entrypoint", "binds", "started"}
            => known[p] \/ pc[p] \in {"image", "entrypoint", "binds", "started"}
    BY <1>4 DEF StepOf, LoadPolicy, ScanSuspiciousFiles, ReviewWarnings, ResolvePreferencesChain,
                MergePreferences, MergeOverride, CacheHit, EstimateBricks, PlanImage, MakeBinds,
                Goto, Here, RunType
  <2>3. QED
    BY <1>1, <1>4, <2>1, <2>2
<1>5. CASE Edit
  BY <1>5 DEF Edit
<1>6. QED
  BY <1>2, <1>3, <1>4, <1>5 DEF Next, StepOf

(* Up to the merge of the command line there is no plan. *)
LEMMA EarlyRun ==
    ASSUME NEW p \in Procs, RunInv(p), plan'[p] = plan[p],
           pc[p] \in {"project", "policy", "scan", "review", "chain", "merge"},
           pc'[p] \notin Resolved
    PROVE  RunInv(p)'
<1>1. ~Planned(p) /\ ~Planned(p)'
  BY DEF RunInv, Planned
<1>2. QED
  BY <1>1 DEF RunInv

(* Later steps leave the configuration alone. *)
LEMMA LaterRun ==
    ASSUME NEW p \in Procs, RunInv(p), pc[p] \in Resolved,
           policy'[p] = policy[p], cfg'[p] = cfg[p], override'[p] = override[p]
    PROVE  Obeys(p)'
  BY DEF RunInv, Obeys

LEMMA MergedRun ==
    ASSUME EnvInv, NEW p \in Procs, MergeOverride(p)
    PROVE  RunInv(p)'
<1> USE DEF EnvInv, EnvType, RunType
<1> DEFINE merged == applyPolicy(Merge(cfg[p], override[p]), policy[p])
<1>1. /\ pc[p] = "merge" /\ plan' = plan /\ policy' = policy /\ override' = override
  BY DEF MergeOverride, Here
<1>2. CASE pc'[p] \notin Resolved
  BY <1>1, <1>2, EarlyRun
<1>3. CASE pc'[p] \in Resolved
  <2>1. cfg' = [cfg EXCEPT ![p] = merged]
    BY <1>3 DEF MergeOverride, Goto, Resolved
  <2>2. pc'[p] \in {"image", "confirm"}
    BY <1>3 DEF MergeOverride, Goto, Resolved
  <2>3. ~Planned(p) /\ ~Planned(p)'
    BY <1>1 DEF RunInv, Planned
  <2>4. cfg[p] \in Config /\ override[p] \in Config /\ policy[p] \in Policy
    BY InputAssumption DEF ConfigType, PolicyType
  <2>5. /\ policy[p].disable \ {NoBrick} \subseteq merged.disable
        /\ policy[p].enable \ {NoBrick} \subseteq merged.enable
        /\ override[p].entry # NoBrick => merged.entry = override[p].entry
    <3>1. Merge(cfg[p], override[p]) \in Config
      BY <2>4, MergeConfig
    <3>2. override[p].entry # NoBrick => Merge(cfg[p], override[p]).entry = override[p].entry
      BY <2>4, MergeConfig
    <3>3. PICK m : m = Merge(cfg[p], override[p])
      OBVIOUS
    <3>4. QED
      BY <2>4, <3>1, <3>2, <3>3, PolicyConfig
  <2> HIDE DEF merged
  <2>6. cfg'[p] = merged
    BY <2>1 DEF ConfigType
  <2>7. Obeys(p)'
    BY <1>1, <2>1, <2>5, <2>6 DEF Obeys
  <2>8. QED
    BY <2>2, <2>3, <2>7 DEF RunInv
<1>4. QED
  BY <1>2, <1>3

LEMMA PlannedRun ==
    ASSUME EnvInv, NEW p \in Procs, PlanImage(p)
    PROVE  RunInv(p)'
<1> USE DEF EnvInv, EnvType, RunType
<1>1. pc[p] = "entrypoint" /\ UNCHANGED <<policy, cfg, override, scan>>
  BY DEF PlanImage, Here
<1>2. Obeys(p)'
  BY <1>1, LaterRun DEF Resolved
<1>3. ~Planned(p)
  BY <1>1 DEF RunInv
<1>4. CASE pc'[p] = "failed" /\ UNCHANGED <<entry, plan>>
  BY <1>2, <1>3, <1>4 DEF RunInv, Planned
<1>5. ASSUME NEW e \in Decided(p), entry' = [entry EXCEPT ![p] = e],
             plan' = [plan EXCEPT ![p] = buildPlan(cfg[p], estimateBricks(cfg[p], scan[p]), e)],
             Goto(p, "binds")
      PROVE  RunInv(p)'
  <2>1. pc'[p] = "binds" /\ entry'[p] = e
    BY <1>5 DEF Goto
  <2>2. plan'[p] = buildPlan(cfg'[p], estimateBricks(cfg'[p], scan'[p]), entry'[p])
    BY <1>1, <1>5
  <2>3. entry'[p] \in Decided(p)'
    BY <1>1, <2>1 DEF Decided
  <2>4. QED
    BY <1>2, <2>1, <2>2, <2>3 DEF RunInv
<1>6. QED
  BY <1>4, <1>5 DEF PlanImage, Goto, Decided

LEMMA BoundRun ==
    ASSUME EnvInv, NEW p \in Procs, MakeBinds(p)
    PROVE  RunInv(p)'
<1> USE DEF EnvInv, EnvType, RunType
<1>1. pc[p] = "binds" /\ UNCHANGED <<policy, cfg, override, scan, entry, plan>>
  BY DEF MakeBinds, Here
<1>2. Obeys(p)'
  BY <1>1, LaterRun, SMTT(60) DEF Resolved
<1>3. pc'[p] \in {"started", "failed", "panicked"}
  BY DEF MakeBinds, Goto
<1>4. Planned(p)' => /\ plan'[p] = buildPlan(cfg'[p], estimateBricks(cfg'[p], scan'[p]), entry'[p])
                     /\ entry'[p] \in Decided(p)'
  BY <1>1 DEF RunInv, Planned, Decided
<1>5. QED
  BY <1>2, <1>3, <1>4, SMTT(60) DEF RunInv

LEMMA EnvStep == EnvInv /\ [Next]_vars => EnvInv'
<1> SUFFICES ASSUME EnvInv, [Next]_vars PROVE EnvInv'  OBVIOUS
<1> USE DEF EnvInv, EnvType, RunType
<1>1. ASSUME NEW p \in Procs, StepOf(p) PROVE RunInv(p)'
  <2> USE DEF Goto, Here
  <2>1. CASE \/ ResolveProject(p) \/ LoadPolicy(p) \/ ScanSuspiciousFiles(p) \/ ReviewWarnings(p)
             \/ ResolvePreferencesChain(p) \/ MergePreferences(p)
    <3>1. /\ plan' = plan
          /\ pc[p] \in {"project", "policy", "scan", "review", "chain", "merge"}
      BY <2>1 DEF ResolveProject, LoadPolicy, ScanSuspiciousFiles, ReviewWarnings,
                  ResolvePreferencesChain, MergePreferences
    <3>2. pc'[p] \in {"failed", "policy", "panicked", "chain", "scan", "review", "merge"}
      BY <2>1 DEF ResolveProject, LoadPolicy, ScanSuspiciousFiles, ReviewWarnings,
                  ResolvePreferencesChain, MergePreferences
    <3>3. QED
      BY <3>1, <3>2, EarlyRun DEF Resolved
  <2>2. CASE MergeOverride(p)
    BY <2>2, MergedRun
  <2>3. CASE ConfirmFirstRun(p) \/ CacheHit(p) \/ EstimateBricks(p)
    <3>1. /\ pc[p] \in {"confirm", "image"} /\ pc'[p] \notin {"started"}
          /\ UNCHANGED <<policy, cfg, override, plan>>
      BY <2>3 DEF ConfirmFirstRun, CacheHit, EstimateBricks
    <3>2. ~Planned(p) /\ ~Planned(p)'
      BY <3>1 DEF RunInv, Planned
    <3>3. Obeys(p)'
      BY <3>1, LaterRun DEF Resolved
    <3>4. QED
      BY <3>1, <3>2, <3>3 DEF RunInv
  <2>4. CASE PlanImage(p)
    BY <2>4, PlannedRun
  <2>5. CASE MakeBinds(p)
    BY <2>5, BoundRun
  <2>6. QED
    BY <1>1, <2>1, <2>2, <2>3, <2>4, <2>5 DEF StepOf
<1>2. CASE Next
  <2>1. EnvType' /\ ApprovedInv'
    <3> HIDE DEF EnvType, RunType
    <3>1. QED
      BY <1>2, TypeStep, ApprovedStep
  <2>2. ASSUME NEW p \in Procs, StepOf(p) PROVE \A q \in Procs : RunInv(q)'
    BY <1>1, <2>2, OthersSame, SameRun
  <2>3. CASE Edit
    <3>1. UNCHANGED <<pc, override, policy, cfg, scan, entry, plan>>
      BY <2>3 DEF Edit
    <3>2. \A q \in Procs : Same(q)
      BY <3>1 DEF Same
    <3>3. QED
      BY <2>1, <3>2, SameRun
  <2>4. QED
    BY <1>2, <2>1, <2>2, <2>3 DEF Next, StepOf
<1>3. CASE UNCHANGED vars
  <2>1. UNCHANGED <<prefs, policyFile, found, db, approved, pc, override, known, policy, chain, cfg,
                    scan, entry, plan, binds>>
    BY <1>3 DEF vars, files
  <2>2. EnvType' /\ ApprovedInv'
    BY <2>1 DEF FileType, PolicyType, ConfigType, KnownType, ApprovedInv, OnlyApprovedRuns
  <2>3. \A p \in Procs : RunInv(p)'
    BY <2>1, SameRun DEF Same
  <2>4. QED
    BY <2>2, <2>3
<1>4. QED
  BY <1>2, <1>3

(* The invariant of every run. *)
THEOREM EnvInductive == Spec => []EnvInv
  BY EnvInit, EnvStep, PTL DEF Spec

(* Nothing is resolved for a project before a user confirmed a run of it,   *)
(* and it is not recorded as known either, in any process.                  *)
THEOREM RunsAreApproved == Spec => []OnlyApprovedRuns
<1>1. EnvInv => OnlyApprovedRuns
  BY DEF EnvInv, ApprovedInv
<1>2. QED
  BY EnvInductive, <1>1, PTL

-----------------------------------------------------------------------------
(* Plans *)

(* A subsequence holds the elements at the positions it keeps. *)
LEMMA KeptElements ==
    ASSUME NEW S, NEW s \in Seq(S), NEW K, \A k \in K : k \in DOMAIN s
    PROVE  /\ Kept(s, K) \in Seq(S) /\ Len(Kept(s, K)) = Cardinality(K)
           /\ ToSet(Kept(s, K)) = {s[k] : k \in K}
<1> DEFINE r(k) == Cardinality({j \in K : j <= k})
           at(i) == CHOOSE k \in K : r(k) = i
<1>1. Len(s) \in Nat /\ \A k \in K : k \in 1..Len(s)
  OBVIOUS
<1>2. /\ Cardinality(K) \in Nat
      /\ \A i \in 1..Cardinality(K) : \E k \in K : r(k) = i
      /\ \A k \in K : r(k) \in 1..Cardinality(K)
      /\ \A k, l \in K : k < l => r(k) < r(l)
  BY <1>1, Ranks
<1>3. Kept(s, K) = [i \in 1..Cardinality(K) |-> s[at(i)]]
  BY DEF Kept
<1> HIDE DEF r
<1>4. \A i \in 1..Cardinality(K) : at(i) \in K
  BY <1>2
<1>5. \A k \in K : at(r(k)) = k
  <2> SUFFICES ASSUME NEW k \in K PROVE at(r(k)) = k
    OBVIOUS
  <2>1. at(r(k)) \in K /\ r(at(r(k))) = r(k)
    OBVIOUS
  <2> HIDE DEF at
  <2>2. k \in Nat /\ at(r(k)) \in Nat /\ r(k) \in Nat
    BY <1>1, <1>2, <2>1
  <2>3. QED
    BY <1>2, <2>1, <2>2
<1> HIDE DEF at
<1>6. \A i \in 1..Cardinality(K) : s[at(i)] \in S
  BY <1>4
<1>7. Kept(s, K) \in Seq(S) /\ Len(Kept(s, K)) = Cardinality(K)
  BY <1>2, <1>3, <1>6
<1>8. ToSet(Kept(s, K)) = {s[at(i)] : i \in 1..Cardinality(K)}
  BY <1>3 DEF ToSet
<1>9. {s[at(i)] : i \in 1..Cardinality(K)} = {s[k] : k \in K}
  BY <1>2, <1>4, <1>5
<1>10. QED
  BY <1>7, <1>8, <1>9

(* Sorting keeps the ids of registered bricks. *)
LEMMA SortedIds ==
    ASSUME NEW ids, ids \subseteq Registered
    PROVE  Sorted(ids) \in Seq(Registered) /\ ToSet(Sorted(ids)) = ids
<1> DEFINE K == {i \in DOMAIN Registry : Registry[i] \in ids}
<1>1. Registered = {Registry[i] : i \in DOMAIN Registry}
  BY DEF Registered, ToSet
<1>2. Registry \in Seq(Registered)
  <2>1. DOMAIN Registry = 1..12 /\ Registry = [i \in 1..12 |-> Registry[i]]
    BY DEF Registry
  <2>2. \A i \in 1..12 : Registry[i] \in Registered
    BY <1>1, <2>1
  <2>3. QED
    BY <2>1, <2>2
<1>3. Sorted(ids) = Kept(Registry, K)
  BY DEF Sorted
<1>4. {Registry[k] : k \in K} = ids
  <2>1. \A id \in ids : \E k \in DOMAIN Registry : Registry[k] = id
    BY <1>1
  <2>2. QED
    BY <2>1
<1>5. \A k \in K : k \in DOMAIN Registry
  OBVIOUS
<1> HIDE DEF K
<1>6. Kept(Registry, K) \in Seq(Registered) /\ ToSet(Kept(Registry, K)) = {Registry[k] : k \in K}
  BY <1>2, <1>5, KeptElements
<1>7. QED
  BY <1>3, <1>4, <1>6, Zenon

(* The bricks of a plan: registered ones that nothing disables, every       *)
(* enabled one among them and made without a version; one is a system.      *)
LEMMA BricksOf ==
    ASSUME NEW c \in Config, NEW f \in [Languages -> SUBSET Versions],
           NEW bricks, bricks = estimateBricks(c, f)
    PROVE  /\ DOMAIN bricks \subseteq Registered \ c.disable
           /\ (Enabled(c) \cap Registered) \ c.disable \subseteq DOMAIN bricks
           /\ \A id \in DOMAIN bricks : id \in Enabled(c) => bricks[id] = Brick[id][NoVersion]
           /\ OfKind(bricks, "system") = DOMAIN bricks \cap {"debian"}
           /\ \A id \in DOMAIN bricks : bricks[id] \in Made
           /\ "debian" \in DOMAIN bricks => bricks["debian"] = Brick["debian"][NoVersion]
<1> DEFINE ids == (Enabled(c) \cap Registered) \cup {l \in Scanned(c) : f[l] # {}}
           version(id) == IF id \in Scanned(c) THEN CHOOSE v \in f[id] : TRUE ELSE NoVersion
<1>1. bricks = [id \in ids \ c.disable |-> Brick[id][version(id)]]
  BY DEF estimateBricks
<1>2. Scanned(c) \subseteq Languages \ Enabled(c)
  BY DEF Scanned
<1>3. ids \subseteq Registered
  BY <1>2, RegistryAssumption
<1>4. \A id \in ids : version(id) \in Versions
  <2>1. NoVersion \in Versions
    BY DEF Versions
  <2>2. ASSUME NEW id \in ids, id \in Scanned(c) PROVE version(id) \in Versions
    <3>1. f[id] # {} /\ f[id] \subseteq Versions
      BY <1>2, <2>2
    <3>2. QED
      BY <2>2, <3>1
  <2>3. QED
    BY <2>1, <2>2
<1>5. \A id \in Enabled(c) : version(id) = NoVersion
  BY <1>2
<1>6. DOMAIN bricks = ids \ c.disable
  BY <1>1
<1>7. version("debian") = NoVersion
  BY <1>2 DEF Languages
<1>8. (Enabled(c) \cap Registered) \subseteq ids
  OBVIOUS
<1> HIDE DEF ids, version
<1>9. \A id \in DOMAIN bricks : "system" \in bricks[id].kinds <=> id = "debian"
  BY <1>1, <1>3, <1>4, <1>6, RegistryAssumption
<1>10. OfKind(bricks, "system") = DOMAIN bricks \cap {"debian"}
  BY <1>9 DEF OfKind
<1>11. \A id \in DOMAIN bricks : bricks[id] \in Made
  <2>1. \A id \in Registered, v \in Versions : Brick[id][v] \in Made
    BY DEF Made
  <2>2. QED
    BY <1>1, <1>3, <1>4, <1>6, <2>1
<1>12. QED
  BY <1>1, <1>3, <1>5, <1>6, <1>8, <1>10, <1>11, <1>7

(* The order of a plan lists debian and the other bricks. *)
LEMMA OrderOf ==
    ASSUME NEW c, NEW bricks, NEW e, DOMAIN bricks \subseteq Registered,
           OfKind(bricks, "system") = DOMAIN bricks \cap {"debian"}
    PROVE  ToSet(buildPlan(c, bricks, e).order) = {"debian"} \cup DOMAIN bricks
<1> DEFINE ids == Sorted(DOMAIN bricks \ OfKind(bricks, "system"))
           first == processSystemCandidates(bricks).id
<1>1. buildPlan(c, bricks, e).order = <<first>> \o ids
  BY DEF buildPlan
<1>2. ids \in Seq(Registered) /\ ToSet(ids) = DOMAIN bricks \ OfKind(bricks, "system")
  BY SortedIds
<1>3. first = "debian"
  <2>1. NoVersion \in Versions /\ "debian" \in Registered
    BY DEF Versions, Registered, Registry, ToSet
  <2>2. QED
    BY <2>1, RegistryAssumption DEF processSystemCandidates
<1> HIDE DEF ids, first
<1>4. ToSet(<<first>> \o ids) = {first} \cup ToSet(ids)
  <2>1. \A i \in 1..Len(ids) : ids[i] = (<<first>> \o ids)[i + 1] /\ i + 1 \in DOMAIN (<<first>> \o ids)
    BY <1>2
  <2>2. \A i \in DOMAIN (<<first>> \o ids) :
            (<<first>> \o ids)[i] = IF i = 1 THEN first ELSE ids[i - 1]
    BY <1>2
  <2>3. DOMAIN (<<first>> \o ids) = 1..Len(ids) + 1
    BY <1>2
  <2>4. QED
    <3> DEFINE s == <<first>> \o ids
    <3>1. ToSet(s) = {s[i] : i \in DOMAIN s} /\ ToSet(ids) = {ids[i] : i \in DOMAIN ids}
      BY DEF ToSet
    <3>2. Len(ids) \in Nat /\ DOMAIN ids = 1..Len(ids)
      BY <1>2
    <3>3. s[1] = first /\ 1 \in DOMAIN s
      BY <2>2, <2>3, <3>2
    <3>4. \A i \in DOMAIN s : i # 1 => i - 1 \in DOMAIN ids /\ s[i] = ids[i - 1]
      BY <2>2, <2>3, <3>2
    <3>5. \A i \in DOMAIN ids : i + 1 \in DOMAIN s /\ s[i + 1] = ids[i]
      BY <2>1, <3>2
    <3> HIDE DEF s
    <3>6. ToSet(s) \subseteq {first} \cup ToSet(ids)
      BY <3>1, <3>3, <3>4
    <3>7. {first} \cup ToSet(ids) \subseteq ToSet(s)
      BY <3>1, <3>3, <3>5
    <3>8. QED
      BY <3>6, <3>7 DEF s
<1>5. QED
  BY <1>1, <1>2, <1>3, <1>4

(* A brick the policy disables is in no plan, the system apart, and one it  *)
(* enables is in every plan unless something disables it: nothing after the *)
(* policy adds or removes a brick.                                          *)
THEOREM PolicyObeyed == Spec => []PolicyHasLastWord
<1>1. EnvInv => PolicyHasLastWord
  <2> SUFFICES ASSUME EnvInv, NEW p \in Procs, Planned(p)
               PROVE  /\ policy[p].disable \cap ToSet(plan[p].order) \subseteq {"debian"}
                      /\ (policy[p].enable \cap Registered) \ cfg[p].disable \subseteq ToSet(plan[p].order)
    BY DEF PolicyHasLastWord
  <2>1. PICK bricks : bricks = estimateBricks(cfg[p], scan[p])
    OBVIOUS
  <2>2. cfg[p] \in Config /\ scan[p] \in [Languages -> SUBSET Versions] /\ RunInv(p)
    BY DEF EnvInv, EnvType, RunType, ConfigType
  <2>3. Obeys(p) /\ plan[p] = buildPlan(cfg[p], bricks, entry[p])
    BY <2>1, <2>2 DEF RunInv
  <2>4. /\ DOMAIN bricks \subseteq Registered \ cfg[p].disable
        /\ (Enabled(cfg[p]) \cap Registered) \ cfg[p].disable \subseteq DOMAIN bricks
        /\ OfKind(bricks, "system") = DOMAIN bricks \cap {"debian"}
    BY <2>1, <2>2, BricksOf
  <2>5. ToSet(plan[p].order) = {"debian"} \cup DOMAIN bricks
    BY <2>3, <2>4, OrderOf
  <2>6. NoBrick \notin DOMAIN bricks
    BY <2>4, RegistryAssumption
  <2>7. policy[p].disable \cap DOMAIN bricks = {}
    BY <2>3, <2>4, <2>6 DEF Obeys
  <2>8. (policy[p].enable \cap Registered) \subseteq Enabled(cfg[p])
    BY <2>3, RegistryAssumption DEF Obeys, Enabled
  <2>9. QED
    BY <2>4, <2>5, <2>7, <2>8
<1>2. QED
  BY EnvInductive, <1>1, PTL

(* The entrypoint of the command line is the one of the plan, whatever the  *)
(* .mkenv files name, when its brick offers one and is not disabled.        *)
THEOREM OverrideWins == Spec => []EntrypointHonoured
<1>1. EnvInv => EntrypointHonoured
  <2> SUFFICES ASSUME EnvInv, NEW p \in Procs, Planned(p),
                      override[p].entry \in Registered \ cfg[p].disable,
                      "entrypoint" \in Brick[override[p].entry][NoVersion].kinds
               PROVE  entry[p] = override[p].entry
    BY DEF EntrypointHonoured
  <2>1. PICK bricks : bricks = estimateBricks(cfg[p], scan[p])
    OBVIOUS
  <2>2. cfg[p] \in Config /\ scan[p] \in [Languages -> SUBSET Versions] /\ RunInv(p)
    BY DEF EnvInv, EnvType, RunType, ConfigType
  <2>3. Obeys(p) /\ entry[p] \in Decided(p)
    BY <2>1, <2>2 DEF RunInv
  <2>4. PICK e : e = override[p].entry
    OBVIOUS
  <2>5. cfg[p].entry = e /\ e \in Enabled(cfg[p])
    BY <2>3, <2>4, RegistryAssumption DEF Obeys, Enabled
  <2>6. e \in DOMAIN bricks /\ bricks[e] = Brick[e][NoVersion]
    BY <2>1, <2>2, <2>4, <2>5, BricksOf
  <2>7. NoVersion \in Versions /\ e \in Registered
    BY <2>4 DEF Versions
  <2>8. "entrypoint" \in bricks[e].kinds /\ "system" \notin bricks[e].kinds
    BY <2>4, <2>6, <2>7, RegistryAssumption
  <2>9. e \in EntrypointCandidates(bricks)
    BY <2>6, <2>8 DEF EntrypointCandidates, OfKind
  <2>10. processEntrypointCandidates(cfg[p], bricks) = {e}
    BY <2>5, <2>9 DEF processEntrypointCandidates
  <2>11. QED
    BY <2>1, <2>3, <2>4, <2>10 DEF Decided
<1>2. QED
  BY EnvInductive, <1>1, PTL

(* Two runs with the same signature, findings and answer write the same     *)
(* Dockerfile, for any two configurations: what the signature leaves out    *)
(* does not reach the plan.                                                 *)
THEOREM SignatureStandsForPlan == Spec => []SameKeySamePlan
<1>1. EnvInv => SameKeySamePlan
  <2> SUFFICES ASSUME EnvInv, NEW p \in Procs, NEW q \in Procs, Planned(p), Planned(q),
                      Signature(cfg[p]) = Signature(cfg[q]), scan[p] = scan[q], entry[p] = entry[q]
               PROVE  SameDockerfile(Dockerfile(p), Dockerfile(q))
    BY DEF SameKeySamePlan
  <2>1. /\ cfg[p].enable = cfg[q].enable /\ cfg[p].disable = cfg[q].disable
        /\ cfg[p].entry = cfg[q].entry /\ cfg[p].noAuto = cfg[q].noAuto /\ cfg[p].pkgs = cfg[q].pkgs
    <3>1. \A c \in Config : /\ Signature(c).enable = c.enable /\ Signature(c).disable = c.disable
                            /\ Signature(c).entry = c.entry /\ Signature(c).noAuto = c.noAuto
                            /\ Signature(c).pkgs = c.pkgs
      BY DEF Signature, Config
    <3>2. cfg[p] \in Config /\ cfg[q] \in Config
      BY DEF EnvInv, EnvType, ConfigType
    <3>3. QED
      BY <3>1, <3>2
  <2>2. estimateBricks(cfg[p], scan[p]) = estimateBricks(cfg[q], scan[q])
    BY <2>1 DEF estimateBricks, Enabled, Scanned
  <2>3. PICK bricks : bricks = estimateBricks(cfg[p], scan[p])
    OBVIOUS
  <2>4. buildPlan(cfg[p], bricks, entry[p]) = buildPlan(cfg[q], bricks, entry[q])
    BY <2>1 DEF buildPlan
  <2>5. plan[p] = plan[q]
    BY <2>2, <2>3, <2>4 DEF EnvInv, RunInv
  <2>6. QED
    BY <2>5 DEF Dockerfile, SameDockerfile
<1>2. QED
  BY EnvInductive, <1>1, PTL

-----------------------------------------------------------------------------
(* The order of the steps *)

(* Each element kept stands where counting the kept positions puts it. *)
LEMMA KeptAt ==
    ASSUME NEW S, NEW s \in Seq(S), NEW K, \A k \in K : k \in DOMAIN s
    PROVE  \A k \in K : Kept(s, K)[Cardinality({j \in K : j <= k})] = s[k]
<1> DEFINE r(k) == Cardinality({j \in K : j <= k})
           at(i) == CHOOSE k \in K : r(k) = i
<1>1. Len(s) \in Nat /\ \A k \in K : k \in 1..Len(s)
  OBVIOUS
<1>2. /\ Cardinality(K) \in Nat
      /\ \A k \in K : r(k) \in 1..Cardinality(K)
      /\ \A k, l \in K : k < l => r(k) < r(l)
  BY <1>1, Ranks
<1>3. Kept(s, K) = [i \in 1..Cardinality(K) |-> s[at(i)]]
  BY DEF Kept
<1> HIDE DEF r
<1>4. ASSUME NEW k \in K PROVE at(r(k)) = k
  <2>1. at(r(k)) \in K /\ r(at(r(k))) = r(k)
    OBVIOUS
  <2> HIDE DEF at
  <2>2. k \in Nat /\ at(r(k)) \in Nat /\ r(k) \in Nat
    BY <1>1, <1>2, <2>1
  <2>3. QED
    BY <1>2, <2>1, <2>2
<1> HIDE DEF at
<1>5. \A k \in K : Kept(s, K)[r(k)] = s[k]
  BY <1>2, <1>3, <1>4
<1>6. QED
  BY <1>5 DEF r

(* In the list f, the step s always comes before t. *)
Led(f, s, t) == \A k \in 1..Len(f) : f[k] = t => \E l \in 1..k-1 : f[l] = s

(* u has each element once, and what always comes before one in f comes     *)
(* before it in u.                                                          *)
KeepsOrder(u, f) ==
    /\ \A x, y \in 1..Len(u) : u[x] = u[y] => x = y
    /\ \A s : \A p \in 1..Len(f) : Led(f, s, f[p])
            => \E x, y \in 1..Len(u) : x < y /\ u[x] = s /\ u[y] = f[p]

LEMMA UniqueIs ==
    ASSUME NEW S, NEW f \in Seq(S)
    PROVE  Unique(f) \in Seq(S) /\ KeepsOrder(Unique(f), f)
<1>1. PICK u : u = Unique(f)
  OBVIOUS
<1> DEFINE K == {i \in DOMAIN f : \A j \in 1..i-1 : f[j] # f[i]}
           r(k) == Cardinality({j \in K : j <= k})
<1>2. u = Kept(f, K)
  BY <1>1 DEF Unique
<1>3. /\ Len(f) \in Nat /\ DOMAIN f = 1..Len(f)
      /\ \A k : k \in K <=> k \in 1..Len(f) /\ \A j \in 1..k-1 : f[j] # f[k]
  OBVIOUS
<1> HIDE DEF K
<1>4. /\ Cardinality(K) \in Nat
      /\ \A i \in 1..Cardinality(K) : \E k \in K : r(k) = i
      /\ \A k \in K : r(k) \in 1..Cardinality(K)
      /\ \A k, l \in K : k < l => r(k) < r(l)
  BY <1>3, Ranks
<1>5. u \in Seq(S) /\ Len(u) = Cardinality(K)
  BY <1>2, <1>3, KeptElements
<1>6. \A k \in K : u[r(k)] = f[k]
  BY <1>2, <1>3, KeptAt
<1> HIDE DEF r
<1>7. \A k, l \in K : f[k] = f[l] => k = l
  <2> SUFFICES ASSUME NEW k \in K, NEW l \in K, f[k] = f[l] PROVE k = l
    OBVIOUS
  <2>1. k \in 1..Len(f) /\ l \in 1..Len(f)
    BY <1>3
  <2>2. ~(k < l)
    <3>1. k < l => k \in 1..l-1
      BY <1>3, <2>1
    <3>2. QED
      BY <1>3, <3>1
  <2>3. ~(l < k)
    <3>1. l < k => l \in 1..k-1
      BY <1>3, <2>1
    <3>2. QED
      BY <1>3, <3>1
  <2>4. QED
    BY <2>1, <2>2, <2>3
<1>8. ASSUME NEW x \in 1..Len(u), NEW y \in 1..Len(u), u[x] = u[y] PROVE x = y
  <2>1. PICK k, l \in K : r(k) = x /\ r(l) = y
    BY <1>4, <1>5
  <2>2. QED
    BY <1>6, <1>7, <1>8, <2>1
(* The first occurrence of an element is kept. *)
<1>9. ASSUME NEW p \in 1..Len(f) PROVE \E k \in K : k <= p /\ f[k] = f[p]
  <2> DEFINE T == {q \in 1..Len(f) : f[q] = f[p]}
  <2>1. T \in SUBSET Nat /\ p \in T /\ \A q : q \in T <=> q \in 1..Len(f) /\ f[q] = f[p]
    BY <1>3
  <2> HIDE DEF T
  <2>2. PICK k \in T : \A q \in T : k <= q
    BY <2>1, Least
  <2>3. k \in 1..Len(f) /\ f[k] = f[p] /\ k <= p
    BY <2>1, <2>2
  <2>4. ASSUME NEW j \in 1..k-1 PROVE f[j] # f[k]
    <3>1. j \in 1..Len(f) /\ ~(k <= j)
      BY <1>3, <2>3
    <3>2. j \notin T
      BY <2>2, <3>1
    <3>3. QED
      BY <2>1, <2>3, <3>1, <3>2
  <2>5. QED
    BY <1>3, <2>3, <2>4
<1>10. ASSUME NEW s, NEW p \in 1..Len(f), Led(f, s, f[p])
       PROVE  \E x, y \in 1..Len(u) : x < y /\ u[x] = s /\ u[y] = f[p]
  <2>1. PICK l \in K : f[l] = f[p]
    BY <1>9
  <2>2. l \in 1..Len(f)
    BY <1>3
  <2>3. PICK q \in 1..l-1 : f[q] = s
    BY <1>10, <2>1, <2>2 DEF Led
  <2>4. q \in 1..Len(f) /\ q < l
    BY <1>3, <2>2
  <2>5. PICK k \in K : k <= q /\ f[k] = s
    BY <1>9, <2>3, <2>4
  <2>6. k < l
    BY <1>3, <2>2, <2>4, <2>5
  <2>7. r(k) < r(l) /\ r(k) \in 1..Len(u) /\ r(l) \in 1..Len(u)
    BY <1>4, <1>5, <2>6
  <2>8. QED
    BY <1>6, <2>1, <2>5, <2>7
<1>11. QED
  BY <1>1, <1>5, <1>8, <1>10 DEF KeepsOrder

-----------------------------------------------------------------------------
(* What FlattenSeq computes: the lists appended one after the other. *)
IsFlat(g, ss, n) == g = [i \in 1..n |-> IF i = 1 THEN ss[i] ELSE g[i-1] \o ss[i]]

LEMMA FlattenSteps ==
    ASSUME NEW ss, Len(ss) \in Nat \ {0}
    PROVE  \E g : /\ FlattenSeq(ss) = g[Len(ss)] /\ g[1] = ss[1]
                  /\ \A m \in 2..Len(ss) : g[m] = g[m-1] \o ss[m]
<1> DEFINE E == {m \in Nat : \E g : IsFlat(g, ss, m)}
<1>1. 0 \in E
  <2>1. PICK g : g = [i \in 1..0 |-> ss]
    OBVIOUS
  <2>2. IsFlat(g, ss, 0)
    BY <2>1 DEF IsFlat
  <2>3. QED
    BY <2>2
<1>2. ASSUME NEW m \in E PROVE m + 1 \in E
  <2>1. PICK g : IsFlat(g, ss, m)
    OBVIOUS
  <2>2. PICK h : h = [i \in 1..(m + 1) |-> IF i = 1 THEN ss[i] ELSE g[i-1] \o ss[i]]
    OBVIOUS
  <2>3. \A i \in 1..m : h[i] = g[i]
    <3>1. \A i \in 1..m : i \in 1..(m + 1)
      OBVIOUS
    <3>2. QED
      BY <2>1, <2>2, <3>1 DEF IsFlat
  <2>4. \A i \in 1..(m + 1) : i # 1 => h[i-1] = g[i-1]
    <3>1. \A i \in 1..(m + 1) : i # 1 => i - 1 \in 1..m
      OBVIOUS
    <3>2. QED
      BY <2>3, <3>1
  <2>5. IsFlat(h, ss, m + 1)
    BY <2>2, <2>4, Zenon DEF IsFlat
  <2>6. QED
    BY <2>5
<1>3. E = Nat
  <2> HIDE DEF E
  <2>0. E \in SUBSET Nat
    BY DEF E
  <2>1. QED
    BY <1>1, <1>2, <2>0, Induct
<1>4. \E g : IsFlat(g, ss, Len(ss))
  BY <1>3
<1>5. FlattenSeq(ss) = (CHOOSE g : IsFlat(g, ss, Len(ss)))[Len(ss)]
  BY DEF FlattenSeq, IsFlat
<1>6. PICK g : FlattenSeq(ss) = g[Len(ss)] /\ IsFlat(g, ss, Len(ss))
  BY <1>4, <1>5
<1>7. \A i \in 1..Len(ss) : g[i] = IF i = 1 THEN ss[i] ELSE g[i-1] \o ss[i]
  BY <1>6 DEF IsFlat
<1>8. 1 \in 1..Len(ss) /\ \A m \in 2..Len(ss) : m \in 1..Len(ss) /\ m # 1
  OBVIOUS
<1>9. g[1] = ss[1] /\ \A m \in 2..Len(ss) : g[m] = g[m-1] \o ss[m]
  BY <1>7, <1>8, Zenon
<1>10. QED
  BY <1>6, <1>9, Zenon

(* A list appended to another: its elements, and what comes before what. *)
Joins(a, b, c) ==
    /\ Len(c) = Len(a) + Len(b)
    /\ \A k \in 1..Len(a) : k \in 1..Len(c) /\ c[k] = a[k]
    /\ \A k \in 1..Len(b) : Len(a) + k \in 1..Len(c) /\ c[Len(a) + k] = b[k]
    /\ \A k \in 1..Len(c) : k \in 1..Len(a) \/ k - Len(a) \in 1..Len(b)
    /\ \A s, t : Led(a, s, t) /\ Led(b, s, t) => Led(c, s, t)

LEMMA Appended ==
    ASSUME NEW S, NEW a \in Seq(S), NEW b \in Seq(S), NEW c, c = a \o b
    PROVE  c \in Seq(S) /\ Joins(a, b, c)
<1>1. /\ c \in Seq(S) /\ Len(a) \in Nat /\ Len(b) \in Nat /\ Len(c) = Len(a) + Len(b)
      /\ \A k \in 1..Len(c) : c[k] = IF k <= Len(a) THEN a[k] ELSE b[k - Len(a)]
  OBVIOUS
<1>2. /\ \A k \in 1..Len(a) : k \in 1..Len(c) /\ c[k] = a[k]
      /\ \A k \in 1..Len(b) : Len(a) + k \in 1..Len(c) /\ c[Len(a) + k] = b[k]
      /\ \A k \in 1..Len(c) : k \in 1..Len(a) \/ k - Len(a) \in 1..Len(b)
  BY <1>1
<1>3. ASSUME NEW s, NEW t, Led(a, s, t), Led(b, s, t), NEW k \in 1..Len(c), c[k] = t
      PROVE  \E l \in 1..k-1 : c[l] = s
  <2>1. CASE k \in 1..Len(a)
    <3>1. PICK l \in 1..k-1 : a[l] = s
      BY <1>2, <1>3, <2>1 DEF Led
    <3>2. l \in 1..Len(a)
      BY <1>1, <2>1
    <3>3. QED
      BY <1>2, <3>1, <3>2
  <2>2. CASE k \notin 1..Len(a)
    <3>1. k - Len(a) \in 1..Len(b) /\ b[k - Len(a)] = t
      BY <1>1, <1>2, <1>3, <2>2
    <3>2. PICK l \in 1..(k - Len(a))-1 : b[l] = s
      BY <1>3, <3>1 DEF Led
    <3>3. l \in 1..Len(b) /\ Len(a) + l \in 1..k-1
      BY <1>1, <3>1
    <3>4. QED
      BY <1>2, <3>2, <3>3
  <2>3. QED
    BY <2>1, <2>2
<1>4. \A s, t : Led(a, s, t) /\ Led(b, s, t) => Led(c, s, t)
  <2> SUFFICES ASSUME NEW s, NEW t, Led(a, s, t), Led(b, s, t) PROVE Led(c, s, t)
    OBVIOUS
  <2>1. \A k \in 1..Len(c) : c[k] = t => \E l \in 1..k-1 : c[l] = s
    BY <1>3
  <2>2. QED
    BY <2>1 DEF Led
<1>5. QED
  BY <1>1, <1>2, <1>4, Zenon DEF Joins

(* f holds what the lists ss hold, and keeps what comes before what in them. *)
HoldsAll(f, ss) ==
    /\ \A m \in 1..Len(ss) : \A k \in 1..Len(ss[m]) : \E x \in 1..Len(f) : f[x] = ss[m][k]
    /\ \A s, t : (\A m \in 1..Len(ss) : Led(ss[m], s, t)) => Led(f, s, t)

LEMMA FlattenIs ==
    ASSUME NEW S, NEW ss \in Seq(Seq(S)), ss # <<>>
    PROVE  FlattenSeq(ss) \in Seq(S) /\ HoldsAll(FlattenSeq(ss), ss)
<1>1. PICK f : f = FlattenSeq(ss)
  OBVIOUS
<1> DEFINE In(g, n) ==
             /\ g \in Seq(S)
             /\ \A m \in 1..n : \A k \in 1..Len(ss[m]) : \E x \in 1..Len(g) : g[x] = ss[m][k]
             /\ \A s, t : (\A m \in 1..Len(ss) : Led(ss[m], s, t)) => Led(g, s, t)
<1>2. Len(ss) \in Nat \ {0} /\ \A m \in 1..Len(ss) : ss[m] \in Seq(S)
  OBVIOUS
<1>3. PICK g : /\ f = g[Len(ss)] /\ g[1] = ss[1]
               /\ \A m \in 2..Len(ss) : g[m] = g[m-1] \o ss[m]
  BY <1>1, <1>2, FlattenSteps
<1> HIDE DEF In
<1> DEFINE T == {n \in Nat : n + 1 <= Len(ss) => In(g[n + 1], n + 1)}
<1>4. 0 \in T
  <2>1. 1 \in 1..Len(ss) /\ \A m \in 1..1 : m = 1
    BY <1>2
  <2>2. In(g[1], 1)
    BY <1>2, <1>3, <2>1 DEF In
  <2>3. 0 + 1 = 1
    OBVIOUS
  <2>4. QED
    BY <2>2, <2>3
<1>5. ASSUME NEW n \in T PROVE n + 1 \in T
  <2> SUFFICES ASSUME n + 2 <= Len(ss) PROVE In(g[n + 2], n + 2)
    OBVIOUS
  <2>1. PICK a, b, c : a = g[n + 1] /\ b = ss[n + 2] /\ c = g[n + 2]
    OBVIOUS
  <2>2. n \in Nat /\ n + 2 \in 2..Len(ss) /\ n + 2 \in 1..Len(ss) /\ (n + 2) - 1 = n + 1
    OBVIOUS
  <2>3. In(a, n + 1) /\ a \in Seq(S) /\ b \in Seq(S) /\ c = a \o b
    <3>1. n + 1 <= Len(ss)
      BY <1>2, <2>2
    <3>2. In(a, n + 1) /\ b \in Seq(S)
      BY <1>2, <2>1, <2>2, <3>1
    <3>3. c = a \o b
      BY <1>3, <2>1, <2>2
    <3>4. QED
      BY <3>2, <3>3 DEF In
  <2>4. c \in Seq(S) /\ Joins(a, b, c)
    BY <2>3, Appended
  <2>5. ASSUME NEW m \in 1..(n + 2), NEW k \in 1..Len(ss[m]) PROVE \E x \in 1..Len(c) : c[x] = ss[m][k]
    <3>1. CASE m = n + 2
      BY <2>1, <2>4, <3>1 DEF Joins
    <3>2. CASE m # n + 2
      <4>1. m \in 1..(n + 1)
        BY <2>2, <3>2
      <4>2. PICK x \in 1..Len(a) : a[x] = ss[m][k]
        BY <2>3, <4>1 DEF In
      <4>3. QED
        BY <2>4, <4>2 DEF Joins
    <3>3. QED
      BY <3>1, <3>2
  <2>6. ASSUME NEW s, NEW t, \A m \in 1..Len(ss) : Led(ss[m], s, t) PROVE Led(c, s, t)
    <3>1. Led(a, s, t) /\ Led(b, s, t)
      BY <2>1, <2>2, <2>3, <2>6 DEF In
    <3>2. QED
      BY <2>4, <3>1 DEF Joins
  <2>7. In(c, n + 2)
    BY <2>4, <2>5, <2>6 DEF In
  <2>8. QED
    BY <2>1, <2>7
<1>6. T = Nat
  <2> HIDE DEF T
  <2>0. T \in SUBSET Nat
    BY DEF T
  <2>1. QED
    BY <1>4, <1>5, <2>0, Induct
<1>7. In(f, Len(ss))
  <2>1. Len(ss) - 1 \in Nat /\ (Len(ss) - 1) + 1 = Len(ss)
    BY <1>2
  <2>2. \A n \in Nat : n + 1 <= Len(ss) => In(g[n + 1], n + 1)
    BY <1>6
  <2>3. Len(ss) <= Len(ss)
    BY <1>2
  <2>4. QED
    BY <1>3, <2>1, <2>2, <2>3
<1>8. QED
  BY <1>1, <1>7 DEF In, HoldsAll

-----------------------------------------------------------------------------
(* The Dockerfile: where the steps of the user stand *)

RunsNothing(z) == \A k \in 1..Len(z) : z[k].op # "RUN"

(* In d, the RUN instructions are those of the user, from h + 1 on, and     *)
(* some that take a step out of R.                                          *)
RunsUser(d, h, user, R) ==
    /\ \A j \in 1..Len(user) : h + j \in 1..Len(d) /\ d[h + j] = Ins("RUN", user[j])
    /\ \A k \in 1..Len(d) : d[k].op = "RUN" => d[k].arg \in R \/ \E j \in 1..Len(user) : k = h + j

(* d has one instruction for each argument, in their order. *)
OneEach(d, op, args) ==
    Len(d) = Len(args) /\ \A i \in 1..Len(args) : d[i] = Ins(op, args[i])

LEMMA Instructions ==
    ASSUME NEW S, NEW op, NEW T, NEW args \in Seq(T), \A x \in T : Ins(op, x) \in S
    PROVE  /\ Inss(op, args) \in Seq(S) /\ OneEach(Inss(op, args), op, args)
           /\ op # "RUN" => RunsNothing(Inss(op, args))
<1>1. /\ Len(args) \in Nat /\ DOMAIN args = 1..Len(args)
      /\ \A i \in 1..Len(args) : args[i] \in T
  OBVIOUS
<1> DEFINE d == Inss(op, args)
<1>2. d = [i \in 1..Len(args) |-> Ins(op, args[i])]
  BY <1>1 DEF Inss
<1> HIDE DEF d
<1>3. d \in Seq(S) /\ Len(d) = Len(args) /\ \A i \in 1..Len(args) : d[i] = Ins(op, args[i])
  <2>1. \A i \in 1..Len(args) : Ins(op, args[i]) \in S
    BY <1>1
  <2>2. QED
    BY <1>1, <1>2, <2>1
<1>4. op # "RUN" => RunsNothing(d)
  <2>1. \A x : Ins(op, x).op = op
    BY DEF Ins
  <2>2. \A i \in 1..Len(d) : d[i].op = op
    BY <1>3, <2>1
  <2>3. QED
    BY <2>2, Zenon DEF RunsNothing
<1>5. QED
  BY <1>3, <1>4, Zenon DEF d, OneEach

LEMMA OneInstruction ==
    ASSUME NEW S, NEW op, op # "RUN", NEW arg, Ins(op, arg) \in S, NEW cond
    PROVE  /\ <<Ins(op, arg)>> \in Seq(S) /\ RunsNothing(<<Ins(op, arg)>>)
           /\ When(cond, <<Ins(op, arg)>>) \in Seq(S) /\ RunsNothing(When(cond, <<Ins(op, arg)>>))
<1>1. <<Ins(op, arg)>> \in Seq(S) /\ RunsNothing(<<Ins(op, arg)>>)
  BY DEF RunsNothing, Ins
<1>2. <<>> \in Seq(S) /\ RunsNothing(<<>>)
  BY DEF RunsNothing
<1>3. QED
  BY <1>1, <1>2 DEF When

LEMMA MoreNothing ==
    ASSUME NEW S, NEW d \in Seq(S), NEW z \in Seq(S), RunsNothing(z)
    PROVE  /\ d \o z \in Seq(S)
           /\ RunsNothing(d) => RunsNothing(d \o z)
           /\ \A h \in Nat : \A user, R : RunsUser(d, h, user, R) => RunsUser(d \o z, h, user, R)
<1>1. PICK c : c = d \o z
  OBVIOUS
<1>2. c \in Seq(S) /\ Joins(d, z, c)
  BY <1>1, Appended
<1>3. Len(d) \in Nat /\ Len(z) \in Nat
  OBVIOUS
<1>4. \A k \in 1..Len(c) : (k \in 1..Len(d) /\ c[k] = d[k]) \/ c[k].op # "RUN"
  <2> SUFFICES ASSUME NEW k \in 1..Len(c), k \notin 1..Len(d) PROVE c[k].op # "RUN"
    BY <1>2 DEF Joins
  <2>1. k - Len(d) \in 1..Len(z)
    BY <1>2 DEF Joins
  <2>2. Len(d) + (k - Len(d)) = k
    BY <1>3
  <2>3. c[k] = z[k - Len(d)]
    BY <1>2, <2>1, <2>2 DEF Joins
  <2>4. QED
    BY <2>1, <2>3 DEF RunsNothing
<1>5. RunsNothing(d) => RunsNothing(c)
  BY <1>4 DEF RunsNothing
<1>6. ASSUME NEW h \in Nat, NEW user, NEW R, RunsUser(d, h, user, R)
      PROVE  RunsUser(c, h, user, R)
  <2>1. \A j \in 1..Len(user) : h + j \in 1..Len(c) /\ c[h + j] = Ins("RUN", user[j])
    BY <1>2, <1>6 DEF RunsUser, Joins
  <2>2. \A k \in 1..Len(c) : c[k].op = "RUN" => c[k].arg \in R \/ \E j \in 1..Len(user) : k = h + j
    BY <1>4, <1>6 DEF RunsUser
  <2>3. QED
    BY <2>1, <2>2 DEF RunsUser
<1>7. QED
  BY <1>1, <1>2, <1>5, <1>6

(* The steps of root, then those of the user, each added to a list. *)
LEMMA ThenRoot ==
    ASSUME NEW S, NEW d \in Seq(S), RunsNothing(d), NEW z \in Seq(S), NEW R,
           \A i \in 1..Len(z) : z[i].arg \in R
    PROVE  d \o z \in Seq(S) /\ RunsUser(d \o z, 0, <<>>, R)
<1>1. PICK c : c = d \o z
  OBVIOUS
<1>2. c \in Seq(S) /\ Joins(d, z, c)
  BY <1>1, Appended
<1>3. Len(d) \in Nat /\ Len(z) \in Nat /\ Len(<<>>) = 0
  OBVIOUS
<1>4. ASSUME NEW k \in 1..Len(c), c[k].op = "RUN" PROVE c[k].arg \in R
  <2>1. CASE k \in 1..Len(d)
    BY <1>2, <1>4, <2>1 DEF Joins, RunsNothing
  <2>2. CASE k - Len(d) \in 1..Len(z)
    <3>1. Len(d) + (k - Len(d)) = k
      BY <1>3
    <3>2. c[k] = z[k - Len(d)]
      BY <1>2, <2>2, <3>1 DEF Joins
    <3>3. QED
      BY <2>2, <3>2
  <2>3. QED
    BY <1>2, <2>1, <2>2 DEF Joins
<1>5. \A j \in 1..Len(<<>>) : FALSE
  OBVIOUS
<1>6. QED
  BY <1>1, <1>2, <1>4, <1>5 DEF RunsUser

LEMMA ThenUser ==
    ASSUME NEW S, NEW d \in Seq(S), NEW R, RunsUser(d, 0, <<>>, R), NEW z \in Seq(S), NEW user,
           Len(user) = Len(z), \A i \in 1..Len(z) : z[i] = Ins("RUN", user[i])
    PROVE  d \o z \in Seq(S) /\ RunsUser(d \o z, Len(d), user, R)
<1>1. PICK c : c = d \o z
  OBVIOUS
<1>2. c \in Seq(S) /\ Joins(d, z, c)
  BY <1>1, Appended
<1>3. Len(d) \in Nat /\ Len(z) \in Nat
  OBVIOUS
<1>4. \A k \in 1..Len(d) : d[k].op = "RUN" => d[k].arg \in R
  <2>1. \A j \in 1..Len(<<>>) : FALSE
    OBVIOUS
  <2>2. QED
    BY <2>1 DEF RunsUser
<1>5. \A j \in 1..Len(user) : Len(d) + j \in 1..Len(c) /\ c[Len(d) + j] = Ins("RUN", user[j])
  BY <1>2 DEF Joins
<1>6. ASSUME NEW k \in 1..Len(c), c[k].op = "RUN"
      PROVE  c[k].arg \in R \/ \E j \in 1..Len(user) : k = Len(d) + j
  <2>1. CASE k \in 1..Len(d)
    BY <1>2, <1>4, <1>6, <2>1 DEF Joins
  <2>2. CASE k - Len(d) \in 1..Len(z)
    <3>1. Len(d) + (k - Len(d)) = k
      BY <1>3
    <3>2. QED
      BY <2>2, <3>1
  <2>3. QED
    BY <1>2, <2>1, <2>2 DEF Joins
<1>7. RunsUser(c, Len(d), user, R)
  BY <1>5, <1>6 DEF RunsUser
<1>8. QED
  BY <1>1, <1>2, <1>7

LEMMA OrderKept ==
    ASSUME NEW u, NEW f, KeepsOrder(u, f), NEW v, NEW w \in 1..Len(f), Led(f, v, f[w])
    PROVE  \E k, l \in 1..Len(u) : k < l /\ u[k] = v /\ u[l] = f[w]
  BY DEF KeepsOrder

(* The steps of the user stand one after the other, in the order of the     *)
(* plan: a step that always comes before another is run before it.          *)
LEMMA UserSteps ==
    ASSUME NEW R, NEW U, NEW F, R \cap U = {}, NEW p,
           p.root \in Seq(R), p.user \in Seq(U), p.files \in Seq(F),
           NEW f, KeepsOrder(p.user, f), NEW v, NEW w \in 1..Len(f), Led(f, v, f[w])
    PROVE  StepAt(GenerateDockerfile(p), v) < StepAt(GenerateDockerfile(p), f[w])
<1>1. PICK a, b, c : Install(p.pkgs) = <<a, b, c>>
  BY DEF Install
<1> DEFINE S == {Ins("FROM", p.base), Ins("ENV", p.envs), Ins("USER", "dev"), Ins("MKDIR", p.caches),
                 Ins("STORE", p.cacheFiles), Ins("ENTRYPOINT", p.entry), Ins("ATTACH", p.entry),
                 Ins("BRICKS", p.order), Ins("VOLUMES", p.caches), Ins("SCHEMA", 1)}
                \cup {Ins("RUN", x) : x \in R} \cup {Ins("RUN", x) : x \in U}
                \cup {Ins("APPEND", x) : x \in F}
                \cup {Ins("INSTALL", x) : x \in {a, b, c}}
           from == <<Ins("FROM", p.base)>>
           env == When(p.envs # {}, <<Ins("ENV", p.envs)>>)
           root == Inss("RUN", p.root)
           install == Inss("INSTALL", Install(p.pkgs))
           dev == <<Ins("USER", "dev")>>
           user == Inss("RUN", p.user)
           append == Inss("APPEND", p.files)
           mkdir == When(p.caches # <<>>, <<Ins("MKDIR", p.caches)>>)
           store == When(p.cacheFiles # <<>>, <<Ins("STORE", p.cacheFiles)>>)
           start == When(p.entry # Blank, <<Ins("ENTRYPOINT", p.entry), Ins("ATTACH", p.entry)>>)
           bricks == <<Ins("BRICKS", p.order)>>
           volumes == When(p.caches # <<>>, <<Ins("VOLUMES", p.caches)>>)
           schema == <<Ins("SCHEMA", 1)>>
           before == from \o env \o root \o install \o dev
           df == GenerateDockerfile(p)
<1>2. df = before \o user \o append \o mkdir \o store \o start \o bricks \o volumes \o schema
  BY Zenon DEF GenerateDockerfile
<1>3. /\ Ins("FROM", p.base) \in S /\ Ins("ENV", p.envs) \in S /\ Ins("USER", "dev") \in S
      /\ Ins("MKDIR", p.caches) \in S /\ Ins("STORE", p.cacheFiles) \in S
      /\ Ins("ENTRYPOINT", p.entry) \in S /\ Ins("ATTACH", p.entry) \in S
      /\ Ins("BRICKS", p.order) \in S /\ Ins("VOLUMES", p.caches) \in S /\ Ins("SCHEMA", 1) \in S
      /\ \A x \in R : Ins("RUN", x) \in S
      /\ \A x \in U : Ins("RUN", x) \in S
      /\ \A x \in F : Ins("APPEND", x) \in S
      /\ \A x \in {a, b, c} : Ins("INSTALL", x) \in S
  OBVIOUS
<1> HIDE DEF S
<1>4. from \in Seq(S) /\ RunsNothing(from)
  BY <1>3, OneInstruction, Zenon
<1>5. env \in Seq(S) /\ RunsNothing(env)
  BY <1>3, OneInstruction, Zenon
<1>6. dev \in Seq(S) /\ RunsNothing(dev)
  BY <1>3, OneInstruction, Zenon
<1>7. mkdir \in Seq(S) /\ RunsNothing(mkdir)
  BY <1>3, OneInstruction, Zenon
<1>8. store \in Seq(S) /\ RunsNothing(store)
  BY <1>3, OneInstruction, Zenon
<1>9. bricks \in Seq(S) /\ RunsNothing(bricks)
  BY <1>3, OneInstruction, Zenon
<1>10. volumes \in Seq(S) /\ RunsNothing(volumes)
  BY <1>3, OneInstruction, Zenon
<1>11. schema \in Seq(S) /\ RunsNothing(schema)
  BY <1>3, OneInstruction, Zenon
<1>12. start \in Seq(S) /\ RunsNothing(start)
  BY <1>3 DEF When, RunsNothing, Ins
<1>13. append \in Seq(S) /\ RunsNothing(append)
  BY <1>3, Instructions, Zenon
<1>14. install \in Seq(S) /\ RunsNothing(install)
  <2> DEFINE T == {a, b, c}
  <2>1. Install(p.pkgs) \in Seq(T)
    BY <1>1
  <2>2. \A x \in T : Ins("INSTALL", x) \in S
    BY <1>3
  <2> HIDE DEF T
  <2>3. QED
    BY <2>1, <2>2, Instructions, Zenon
<1>15. root \in Seq(S) /\ OneEach(root, "RUN", p.root)
  BY <1>3, Instructions, Zenon
<1>16. user \in Seq(S) /\ OneEach(user, "RUN", p.user)
  BY <1>3, Instructions, Zenon
<1>17. /\ Len(p.root) \in Nat /\ \A i \in 1..Len(p.root) : p.root[i] \in R
      /\ Len(p.user) \in Nat /\ \A i \in 1..Len(p.user) : p.user[i] \in U
  OBVIOUS
<1> HIDE DEF from, env, root, install, dev, user, append, mkdir, store, start, bricks, volumes, schema
<1>18. from \o env \in Seq(S) /\ RunsNothing(from \o env)
  BY <1>4, <1>5, MoreNothing, Zenon
<1>19. from \o env \o root \in Seq(S) /\ RunsUser(from \o env \o root, 0, <<>>, R)
  <2>1. \A i \in 1..Len(root) : root[i].arg \in R
    <3>1. \A i \in 1..Len(root) : root[i] = Ins("RUN", p.root[i]) /\ p.root[i] \in R
      BY <1>17, <1>15 DEF OneEach
    <3>2. \A x : Ins("RUN", x).arg = x
      BY DEF Ins
    <3>3. QED
      BY <3>1, <3>2
  <2>2. QED
    BY <1>15, <1>18, <2>1, ThenRoot, Zenon
<1>20. before \in Seq(S) /\ RunsUser(before, 0, <<>>, R)
  <2>1. 0 \in Nat
    OBVIOUS
  <2>2. /\ from \o env \o root \o install \in Seq(S)
        /\ RunsUser(from \o env \o root \o install, 0, <<>>, R)
    BY <1>14, <1>19, <2>1, MoreNothing, Zenon
  <2>3. QED
    BY <1>6, <2>1, <2>2, MoreNothing, Zenon
<1> HIDE DEF before
<1>21. before \o user \in Seq(S) /\ RunsUser(before \o user, Len(before), p.user, R)
  <2>1. Len(p.user) = Len(user) /\ \A i \in 1..Len(user) : user[i] = Ins("RUN", p.user[i])
    BY <1>16 DEF OneEach
  <2>2. QED
    BY <1>16, <1>20, <2>1, ThenUser, Zenon
<1>22. Len(before) \in Nat
  BY <1>20
<1>23. RunsUser(df, Len(before), p.user, R) /\ df \in Seq(S)
  <2> DEFINE Good(d) == d \in Seq(S) /\ RunsUser(d, Len(before), p.user, R)
  <2>1. \A d, z : Good(d) /\ z \in Seq(S) /\ RunsNothing(z) => Good(d \o z)
    BY <1>22, MoreNothing, Zenon
  <2>2. Good(before \o user)
    BY <1>21
  <2> HIDE DEF Good
  <2>3. Good(before \o user \o append \o mkdir)
    BY <1>7, <1>13, <2>1, <2>2, Zenon
  <2>4. Good(before \o user \o append \o mkdir \o store \o start)
    BY <1>8, <1>12, <2>1, <2>3, Zenon
  <2>5. Good(before \o user \o append \o mkdir \o store \o start \o bricks \o volumes)
    BY <1>9, <1>10, <2>1, <2>4, Zenon
  <2>6. Good(df)
    BY <1>2, <1>11, <2>1, <2>5, Zenon
  <2>7. QED
    BY <2>6 DEF Good
<1> HIDE DEF df
<1>24. ASSUME NEW j \in 1..Len(p.user) PROVE StepAt(df, p.user[j]) = Len(before) + j
  <2> DEFINE at == StepAt(df, p.user[j])
  <2>1. DOMAIN df = 1..Len(df)
    BY <1>23
  <2>2. /\ Len(before) + j \in DOMAIN df
        /\ df[Len(before) + j].op = "RUN" /\ df[Len(before) + j].arg = p.user[j]
    <3>1. Len(before) + j \in DOMAIN df /\ df[Len(before) + j] = Ins("RUN", p.user[j])
      BY <1>23, <2>1, Zenon DEF RunsUser
    <3>2. QED
      BY <3>1 DEF Ins
  <2>3. at \in DOMAIN df /\ df[at].op = "RUN" /\ df[at].arg = p.user[j]
    BY <2>2, Zenon DEF StepAt
  <2> HIDE DEF at
  <2>4. df[at].arg \notin R
    BY <1>17, <2>3
  <2>5. PICK i \in 1..Len(p.user) : at = Len(before) + i
    BY <1>23, <2>1, <2>3, <2>4 DEF RunsUser
  <2>6. p.user[i] = p.user[j]
    <3>1. df[at] = Ins("RUN", p.user[i])
      BY <1>23, <2>5, Zenon DEF RunsUser
    <3>2. QED
      BY <2>3, <3>1 DEF Ins
  <2>7. i = j
    BY <2>6 DEF KeepsOrder
  <2>8. QED
    BY <2>5, <2>7 DEF at
<1>25. PICK k, l \in 1..Len(p.user) : k < l /\ p.user[k] = v /\ p.user[l] = f[w]
  <2>1. PICK u : u = p.user
    OBVIOUS
  <2>2. KeepsOrder(u, f)
    BY <2>1
  <2>3. \E k, l \in 1..Len(u) : k < l /\ u[k] = v /\ u[l] = f[w]
    BY <2>2, OrderKept
  <2>4. QED
    BY <2>1, <2>3
<1>26. Len(before) + k < Len(before) + l
  BY <1>17, <1>22, <1>25
<1>27. StepAt(df, v) < StepAt(df, f[w])
  BY <1>24, <1>25, <1>26
<1>28. QED
  BY <1>27 DEF df

(* The steps of the bricks, one after the other, as buildPlan collects them. *)
LEMMA CollectIs ==
    ASSUME NEW all \in Seq(Made), all # <<>>
    PROVE  \E R, U, F :
             /\ R \cap U = {}
             /\ Collect(all, "root") \in Seq(R) /\ Collect(all, "files") \in Seq(F)
             /\ Collect(all, "user") \in Seq(U)
             /\ HoldsAll(Collect(all, "user"), [m \in 1..Len(all) |-> all[m].user])
<1> DEFINE R == UNION {ToSet(a.root) : a \in Made}
           U == UNION {ToSet(a.user) : a \in Made}
           F == UNION {ToSet(a.files) : a \in Made}
           root == [i \in DOMAIN all |-> all[i].root]
           user == [i \in DOMAIN all |-> all[i].user]
           lists == [i \in DOMAIN all |-> all[i].files]
<1>1. R \cap U = {}
  <2> SUFFICES ASSUME NEW a \in Made, NEW b \in Made, NEW x \in ToSet(a.root), x \in ToSet(b.user)
               PROVE  FALSE
    OBVIOUS
  <2>1. QED
    BY StepsAssumption
<1>2. ASSUME NEW a \in Made PROVE a.root \in Seq(R) /\ a.user \in Seq(U) /\ a.files \in Seq(F)
  <2>1. a.root \in Seq(ToSet(a.root)) /\ a.user \in Seq(ToSet(a.user)) /\ a.files \in Seq(ToSet(a.files))
    BY StepsAssumption
  <2>2. ToSet(a.root) \subseteq R /\ ToSet(a.user) \subseteq U /\ ToSet(a.files) \subseteq F
    OBVIOUS
  <2> HIDE DEF R, U, F
  <2>3. QED
    BY <2>1, <2>2
<1>3. /\ DOMAIN all = 1..Len(all) /\ Len(all) \in Nat /\ Len(all) # 0
      /\ \A i \in 1..Len(all) : all[i] \in Made
  OBVIOUS
<1> HIDE DEF R, U, F
<1>4. root \in Seq(Seq(R)) /\ root # <<>>
  BY <1>2, <1>3
<1>5. user \in Seq(Seq(U)) /\ user # <<>> /\ Len(user) = Len(all) /\ \A i \in 1..Len(all) : user[i] = all[i].user
  BY <1>2, <1>3
<1>6. lists \in Seq(Seq(F)) /\ lists # <<>>
  BY <1>2, <1>3
<1>7. /\ Collect(all, "root") = FlattenSeq(root) /\ Collect(all, "user") = FlattenSeq(user)
      /\ Collect(all, "files") = FlattenSeq(lists)
  BY DEF Collect
<1> HIDE DEF root, user, lists
<1>8. Collect(all, "root") \in Seq(R) /\ Collect(all, "files") \in Seq(F)
  BY <1>4, <1>6, <1>7, FlattenIs, Zenon
<1>9. Collect(all, "user") \in Seq(U) /\ HoldsAll(Collect(all, "user"), user)
  BY <1>5, <1>7, FlattenIs, Zenon
<1>10. user = [m \in 1..Len(all) |-> all[m].user]
  BY <1>3 DEF user
<1>11. QED
  BY <1>1, <1>8, <1>9, <1>10, Zenon

(* In the Dockerfile of a plan, a step that a brick takes stands before the *)
(* next one of the brick.                                                   *)
LEMMA StepsOf ==
    ASSUME NEW c, NEW bricks, NEW e, DOMAIN bricks \subseteq Registered,
           OfKind(bricks, "system") = DOMAIN bricks \cap {"debian"},
           \A id \in DOMAIN bricks : bricks[id] \in Made,
           "debian" \in DOMAIN bricks => bricks["debian"] = Brick["debian"][NoVersion],
           NEW b \in DOMAIN bricks, NEW i \in 2..Len(bricks[b].user)
    PROVE  LET df == GenerateDockerfile(buildPlan(c, bricks, e)) IN
           StepAt(df, bricks[b].user[i-1]) < StepAt(df, bricks[b].user[i])
<1> DEFINE ids == Sorted(DOMAIN bricks \ OfKind(bricks, "system"))
           system == processSystemCandidates(bricks)
           others == [k \in DOMAIN ids |-> bricks[ids[k]]]
           all == <<system>> \o others
           p == buildPlan(c, bricks, e)
           s == bricks[b].user[i-1]
           t == bricks[b].user[i]
<1>1. /\ p.root = Unique(Collect(all, "root")) /\ p.user = Unique(Collect(all, "user"))
      /\ p.files = Unique(Collect(all, "files"))
  BY Zenon DEF buildPlan
<1>2. ids \in Seq(Registered) /\ ToSet(ids) = DOMAIN bricks \ {"debian"}
  BY SortedIds
<1>3. system \in Made /\ system = Brick["debian"][NoVersion]
  <2>1. NoVersion \in Versions /\ "debian" \in Registered
    BY DEF Versions, Registered, Registry, ToSet
  <2>2. QED
    BY <2>1 DEF processSystemCandidates, Made
<1> HIDE DEF ids, system
<1>4. /\ others \in Seq(Made) /\ Len(others) = Len(ids)
      /\ \A k \in 1..Len(ids) : others[k] = bricks[ids[k]] /\ ids[k] \in DOMAIN bricks
  <2>1. /\ Len(ids) \in Nat /\ DOMAIN ids = 1..Len(ids)
        /\ \A k \in 1..Len(ids) : ids[k] \in DOMAIN bricks
    <3>1. \A k \in DOMAIN ids : ids[k] \in ToSet(ids)
      BY DEF ToSet
    <3>2. QED
      BY <1>2, <3>1
  <2>2. \A k \in 1..Len(ids) : bricks[ids[k]] \in Made
    BY <2>1
  <2>3. QED
    BY <2>1, <2>2
<1> HIDE DEF others
<1>5. /\ all \in Seq(Made) /\ all # <<>> /\ all[1] = system /\ Len(all) = Len(others) + 1
      /\ \A k \in 1..Len(others) : all[k + 1] = others[k]
  BY <1>3, <1>4
<1> HIDE DEF all
<1>6. PICK m \in 1..Len(all) : all[m] = bricks[b]
  <2>1. CASE b = "debian"
    <3>1. 1 \in 1..Len(all)
      BY <1>4, <1>5
    <3>2. QED
      BY <1>3, <1>5, <2>1, <3>1
  <2>2. CASE b # "debian"
    <3>1. PICK k \in DOMAIN ids : ids[k] = b
      <4>1. b \in ToSet(ids)
        BY <1>2, <2>2
      <4>2. QED
        BY <4>1 DEF ToSet
    <3>2. k \in 1..Len(ids) /\ k + 1 \in 1..Len(all)
      BY <1>2, <1>4, <1>5
    <3>3. all[k + 1] = bricks[b]
      BY <1>4, <1>5, <3>1, <3>2
    <3>4. QED
      BY <3>2, <3>3
  <2>3. QED
    BY <2>1, <2>2
<1>7. PICK R, U, F :
        /\ R \cap U = {}
        /\ Collect(all, "root") \in Seq(R) /\ Collect(all, "files") \in Seq(F)
        /\ Collect(all, "user") \in Seq(U)
        /\ HoldsAll(Collect(all, "user"), [n \in 1..Len(all) |-> all[n].user])
  BY <1>5, CollectIs, Zenon
<1>8. PICK f, ss : f = Collect(all, "user") /\ ss = [n \in 1..Len(all) |-> all[n].user]
  OBVIOUS
<1>9. f \in Seq(U) /\ HoldsAll(f, ss) /\ Len(ss) = Len(all) /\ \A n \in 1..Len(all) : ss[n] = all[n].user
  BY <1>5, <1>7, <1>8
<1>10. Led(f, s, t)
  <2>1. ASSUME NEW n \in 1..Len(all) PROVE Led(all[n].user, s, t)
    <3>1. PICK a, d \in Made : a = all[n] /\ d = bricks[b]
      BY <1>5
    <3>2. \A k \in 1..Len(a.user), j \in 2..Len(d.user) :
            a.user[k] = d.user[j] => \E l \in 1..k-1 : a.user[l] = d.user[j-1]
      BY StepsAssumption, Zenon
    <3>3. i \in 2..Len(d.user)
      BY <3>1
    <3>4. \A k \in 1..Len(a.user) : a.user[k] = d.user[i] => \E l \in 1..k-1 : a.user[l] = d.user[i-1]
      BY <3>2, <3>3, Zenon
    <3>5. QED
      BY <3>1, <3>4, Zenon DEF Led
  <2>2. \A n \in 1..Len(ss) : Led(ss[n], s, t)
    BY <1>9, <2>1
  <2>3. QED
    BY <1>9, <2>2, Zenon DEF HoldsAll
<1>11. PICK x \in 1..Len(f) : f[x] = t
  <2>1. bricks[b].user \in Seq(ToSet(bricks[b].user))
    BY StepsAssumption
  <2>2. i \in 1..Len(bricks[b].user)
    BY <2>1
  <2>3. m \in 1..Len(ss) /\ i \in 1..Len(ss[m]) /\ ss[m][i] = t
    BY <1>6, <1>9, <2>2
  <2>4. QED
    BY <1>9, <2>3, Zenon DEF HoldsAll
<1>12. p.root \in Seq(R) /\ p.files \in Seq(F) /\ p.user \in Seq(U) /\ KeepsOrder(p.user, f)
  <2>1. Unique(f) \in Seq(U) /\ KeepsOrder(Unique(f), f)
    BY <1>9, UniqueIs, Zenon
  <2>2. Unique(Collect(all, "root")) \in Seq(R)
    BY <1>7, UniqueIs, Zenon
  <2>3. Unique(Collect(all, "files")) \in Seq(F)
    BY <1>7, UniqueIs, Zenon
  <2> HIDE DEF p
  <2>4. QED
    BY <1>1, <1>8, <2>1, <2>2, <2>3
<1>13. StepAt(GenerateDockerfile(p), s) < StepAt(GenerateDockerfile(p), f[x])
  <2>1. R \cap U = {}
    BY <1>7
  <2>2. Led(f, s, f[x])
    BY <1>10, <1>11
  <2> HIDE DEF p, s, t
  <2>3. QED
    BY <1>11, <1>12, <2>1, <2>2, UserSteps
<1>14. QED
  BY <1>11, <1>13, Zenon

(* The build steps of a brick run in the order the brick lists them, in     *)
(* every Dockerfile that a plan generates.                                  *)
THEOREM StepsKeepOrder == Spec => []StepsInBrickOrder
<1>1. EnvInv => StepsInBrickOrder
  <2> SUFFICES ASSUME EnvInv, NEW p \in Procs, Planned(p), NEW bricks,
                      bricks = estimateBricks(cfg[p], scan[p]),
                      NEW b \in DOMAIN bricks, NEW i \in 2..Len(bricks[b].user)
               PROVE  StepAt(Dockerfile(p), bricks[b].user[i-1]) < StepAt(Dockerfile(p), bricks[b].user[i])
    BY Zenon DEF StepsInBrickOrder
  <2>1. cfg[p] \in Config /\ scan[p] \in [Languages -> SUBSET Versions]
    BY DEF EnvInv, EnvType, RunType, ConfigType
  <2>2. plan[p] = buildPlan(cfg[p], bricks, entry[p])
    BY DEF EnvInv, RunInv
  <2>3. /\ DOMAIN bricks \subseteq Registered
        /\ OfKind(bricks, "system") = DOMAIN bricks \cap {"debian"}
        /\ \A id \in DOMAIN bricks : bricks[id] \in Made
        /\ "debian" \in DOMAIN bricks => bricks["debian"] = Brick["debian"][NoVersion]
    BY <2>1, BricksOf
  <2>4. QED
    BY <2>2, <2>3, StepsOf, Zenon DEF Dockerfile
<1>2. QED
  BY EnvInductive, <1>1, PTL
=============================================================================

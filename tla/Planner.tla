-------------------------------- MODULE Planner --------------------------------
(***************************************************************************)
(* From a resolved configuration to a Dockerfile: planner.Plan and         *)
(* BuildPlan.GenerateDockerfile.                                           *)
(*                                                                         *)
(* A configuration has the fields enable, disable (sets of brick ids),     *)
(* entry, noAuto, pkgs.  found[l] is what the detector of language l        *)
(* reports: the set of the versions for its brick, empty when it finds      *)
(* nothing.  A Dockerfile is a sequence of instructions [op, arg].          *)
(***************************************************************************)
EXTENDS Bricks

(* The elements of s at the positions in keep, in the order of s. *)
Kept(s, keep) ==
    [i \in 1..Cardinality(keep) |-> s[CHOOSE k \in keep : Cardinality({j \in keep : j <= k}) = i]]

(* sort.Strings over ids. *)
Sorted(ids) == Kept(Registry, {i \in DOMAIN Registry : Registry[i] \in ids})

-----------------------------------------------------------------------------
(* estimateBricks *)

Enabled(cfg) == (cfg.enable \cup {cfg.entry}) \ {NoBrick}

(* A detector of a brick that is named in the configuration is not run. *)
Scanned(cfg) ==
    IF cfg.noAuto THEN {} ELSE Languages \ (Enabled(cfg) \cup cfg.disable)

(* The bricks that are added, with the version each is made with.  Unknown  *)
(* ids and disabled bricks are skipped.                                     *)
estimateBricks(cfg, found) ==
    LET ids == (Enabled(cfg) \cap Registered) \cup {l \in Scanned(cfg) : found[l] # {}}
    IN  [id \in ids \ cfg.disable |->
            Brick[id][IF id \in Scanned(cfg) THEN CHOOSE v \in found[id] : TRUE ELSE NoVersion]]

OfKind(bricks, kind) == {id \in DOMAIN bricks : kind \in bricks[id].kinds}

(* Only debian is of kind system, so there is one candidate or none; with   *)
(* none the default is debian again.                                        *)
processSystemCandidates(bricks) == Brick["debian"][NoVersion]

EntrypointCandidates(bricks) == OfKind(bricks, "entrypoint") \ OfKind(bricks, "system")

(* The candidates that the code picks without asking; {} means a prompt.    *)
processEntrypointCandidates(cfg, bricks) ==
    LET cands == EntrypointCandidates(bricks) IN
    CASE cands = {} -> {NoBrick}
      [] \E b \in cands : cands = {b} -> cands
      [] cfg.entry \in cands -> {cfg.entry}
      [] OTHER -> {}

-----------------------------------------------------------------------------
(* buildPlan *)

(* Mutant of Unique: the last of equal elements is kept. *)
UniqueKeepLast(s) == Kept(s, {i \in DOMAIN s : \A j \in i+1..Len(s) : s[j] # s[i]})

(* uniquePackages, uniqueCommands, uniqueFileTemplates, uniqueStrings: the   *)
(* first of equal elements is kept.                                         *)
Unique(s) == Kept(s, {i \in DOMAIN s : \A j \in 1..i-1 : s[j] # s[i]})

(* processBrick for each brick in turn: their lists, one after the other.   *)
Collect(bricks, field) == FlattenSeq([i \in DOMAIN bricks |-> bricks[i][field]])

(* AptManager.Install: names are sorted there, so their order is not kept.  *)
Install(pkgs) ==
    <<[does |-> "apt-get update", pkgs |-> {}],
      [does |-> "apt-get install", pkgs |-> ToSet(pkgs)],
      [does |-> "rm lists", pkgs |-> {}]>>

noPlan ==
    [base |-> Blank, order |-> <<>>, pkgs |-> <<>>, envs |-> {}, root |-> <<>>, user |-> <<>>,
     files |-> <<>>, caches |-> <<>>, cacheFiles |-> <<>>, entry |-> Blank]

buildPlan(cfg, bricks, entrypoint) ==
    LET system == processSystemCandidates(bricks)
        ids == Sorted(DOMAIN bricks \ OfKind(bricks, "system"))
        all == <<system>> \o [i \in DOMAIN ids |-> bricks[ids[i]]]
    IN  [base |-> system.base,
         order |-> <<system.id>> \o ids,
         pkgs |-> Unique(Collect(all, "pkgs") \o cfg.pkgs),
         envs |-> UNION {all[i].envs : i \in DOMAIN all},
         root |-> Unique(Collect(all, "root")),
         user |-> Unique(Collect(all, "user")),
         files |-> Unique(Collect(all, "files")),
         caches |-> Unique(Collect(all, "caches")),
         cacheFiles |-> Unique(Collect(all, "cacheFiles")),
         entry |-> IF entrypoint = NoBrick THEN Blank ELSE bricks[entrypoint].entry]

-----------------------------------------------------------------------------
(* GenerateDockerfile *)

Ins(op, arg) == [op |-> op, arg |-> arg]
Inss(op, args) == [i \in DOMAIN args |-> Ins(op, args[i])]
When(cond, instructions) == IF cond THEN instructions ELSE <<>>

(* Root steps, then the packages, then everything else as the user dev;     *)
(* labels carry what attach and the cache volumes need.                     *)
GenerateDockerfile(plan) ==
    <<Ins("FROM", plan.base)>> \o When(plan.envs # {}, <<Ins("ENV", plan.envs)>>)
    \o Inss("RUN", plan.root) \o Inss("INSTALL", Install(plan.pkgs))
    \o <<Ins("USER", "dev")>>
    \o Inss("RUN", plan.user) \o Inss("APPEND", plan.files)
    \o When(plan.caches # <<>>, <<Ins("MKDIR", plan.caches)>>)
    \o When(plan.cacheFiles # <<>>, <<Ins("STORE", plan.cacheFiles)>>)
    \o When(plan.entry # Blank, <<Ins("ENTRYPOINT", plan.entry), Ins("ATTACH", plan.entry)>>)
    \o <<Ins("BRICKS", plan.order)>>
    \o When(plan.caches # <<>>, <<Ins("VOLUMES", plan.caches)>>)
    \o <<Ins("SCHEMA", 1)>>

(* The position of a step. *)
StepAt(df, step) == CHOOSE i \in DOMAIN df : df[i].op = "RUN" /\ df[i].arg = step
SameDockerfile(df, other) ==
    /\ DOMAIN df = DOMAIN other
    /\ \A i \in DOMAIN df : df[i].op = other[i].op
    /\ \A i \in DOMAIN df : df[i].arg = other[i].arg
=============================================================================

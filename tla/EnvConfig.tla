------------------------------- MODULE EnvConfig -------------------------------
(***************************************************************************)
(* The configuration of an environment: the .mkenv files, the command line *)
(* and the policy, merged into one record, and the path checks.            *)
(*                                                                         *)
(* enable, disable: sets of brick ids (UniqueSortedBricks keeps neither     *)
(* duplicates nor order); entry: a brick id or NoBrick; vols, pkgs: sequences;  *)
(* a volume is [host, target], target Blank when the text has no colon.     *)
(* A path is a sequence of names.                                           *)
(***************************************************************************)
EXTENDS Bricks

CONSTANTS
    Files,          \* resolved paths that are files, not folders
    Forbidden,      \* forbiddenRules: records [path, exact, prefix]
    NoPolicy,       \* policy.json does not exist
    Unlocked,       \* its mode is not 0444, or it cannot be read or parsed
    NoFile,         \* no .mkenv in this folder
    Broken          \* .mkenv cannot be read or parsed

VARIABLE
    real            \* raw path -> the path it resolves to now; a raw path outside DOMAIN real is broken

-----------------------------------------------------------------------------
(* paths *)

Resolves(raw) == raw \in DOMAIN real
ResolvePathStrict(raw) == real[raw]
FolderOf(path) == IF path \in Files THEN Front(path) ELSE path
ResolveFolderStrict(raw) == FolderOf(real[raw])

IsUnderPrefix(base, raw) == Resolves(raw) /\ IsPrefix(base, ResolvePathStrict(raw))

(* Pattern rules end in "*" and none does. *)
ForbiddenFolder(dir) ==
    \E rule \in Forbidden :
        \/ rule.exact /\ dir = rule.path
        \/ rule.prefix /\ IsPrefix(rule.path, dir)

(* A path that does not resolve is forbidden. *)
IsAbsolutelyForbidden(raw) == ~Resolves(raw) \/ ForbiddenFolder(ResolveFolderStrict(raw))

-----------------------------------------------------------------------------
(* policy *)

(* ignorePrefs is loaded, and no code reads it. *)
Policy == [disable : SUBSET STRING, enable : SUBSET STRING, noAuto : BOOLEAN,
           mounts : SUBSET Seq(STRING), root : Seq(STRING), ignorePrefs : BOOLEAN]
defaultPolicy == [disable |-> {}, enable |-> {}, noAuto |-> FALSE, mounts |-> {}, root |-> <<>>,
                  ignorePrefs |-> FALSE]

(* AllowedProjectRoot and the forbidden rules, for the project's folder. *)
PathIsSafe(policy, project) ==
    /\ ~IsAbsolutelyForbidden(project)
    /\ policy.root # <<>> => IsUnderPrefix(policy.root, project)

-----------------------------------------------------------------------------
(* configurations *)

Config == [enable : SUBSET STRING, disable : SUBSET STRING, entry : STRING \cup {NoBrick}, noAuto : BOOLEAN,
           vols : Seq([host : Seq(STRING), target : STRING]), pkgs : Seq(STRING)]
buildDefaultEnvConfig ==
    [enable |-> {}, disable |-> {}, entry |-> NoBrick, noAuto |-> FALSE, vols |-> <<>>, pkgs |-> <<>>]

(* Mutant of Merge: the first entrypoint of the chain stays. *)
MergeFirstEntry(cfg, src) ==
    [enable |-> (cfg.enable \cup src.enable) \ {NoBrick},
     disable |-> (cfg.disable \cup src.disable) \ {NoBrick},
     entry |-> IF cfg.entry # NoBrick THEN cfg.entry ELSE src.entry,
     noAuto |-> cfg.noAuto \/ src.noAuto,
     vols |-> cfg.vols \o src.vols,
     pkgs |-> cfg.pkgs \o src.pkgs]

(* A later source adds; only the entrypoint (and the system brick, which     *)
(* nothing but an empty answer to a prompt reads) is replaced.  The brick    *)
(* configurations are written back into the source: none survives.           *)
Merge(cfg, src) ==
    [enable |-> (cfg.enable \cup src.enable) \ {NoBrick},
     disable |-> (cfg.disable \cup src.disable) \ {NoBrick},
     entry |-> IF src.entry # NoBrick THEN src.entry ELSE cfg.entry,
     noAuto |-> cfg.noAuto \/ src.noAuto,
     vols |-> cfg.vols \o src.vols,
     pkgs |-> cfg.pkgs \o src.pkgs]

(* The volumes applyPolicy looks at: a forbidden path ends its loop. *)
CheckedVolumes(vols) ==
    {i \in DOMAIN vols : \A j \in 1..i : ~IsAbsolutelyForbidden(vols[j].host)}

(* Without a list of allowed mounts no volume is looked at. *)
PolicyAccepts(cfg, policy) ==
    policy.mounts # {} =>
        \A i \in CheckedVolumes(cfg.vols) :
            \E base \in policy.mounts : IsUnderPrefix(base, cfg.vols[i].host)

(* Mutant of applyPolicy: what the policy disables stays enabled. *)
applyPolicyEnableOnly(cfg, policy) ==
    [cfg EXCEPT !.enable = @ \cup policy.enable, !.noAuto = @ \/ policy.noAuto]

applyPolicy(cfg, policy) ==
    [cfg EXCEPT !.enable = (@ \cup policy.enable) \ {NoBrick},
                !.disable = (@ \cup policy.disable) \ {NoBrick},
                !.noAuto = @ \/ policy.noAuto]

(* Mutant of Signature: the extra packages are left out. *)
SignatureWithoutPkgs(cfg) == [cfg EXCEPT !.vols = <<>>, !.pkgs = <<>>]

(* The part of the configuration that the key of the image cache hashes. *)
Signature(cfg) == [cfg EXCEPT !.vols = <<>>]
=============================================================================

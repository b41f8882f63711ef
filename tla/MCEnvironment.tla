---------------------------- MODULE MCEnvironment ----------------------------
(* Instances of Environment for TLC. *)
EXTENDS Environment, TLC

home == <<"home">>
proj == <<"home", "project">>

(* A folder, a link that points into it or elsewhere, and a file. *)
LinkTo(path) == (<<"project">> :> proj) @@ (<<"data">> :> <<"home", "data">>)
                @@ (<<"link">> :> path) @@ (<<"ssh">> :> <<"home", ".ssh", "key">>)
MCLinks == {LinkTo(<<"home", "data", "x">>), LinkTo(<<"home", "other">>)}
MCFiles == {<<"home", ".ssh", "key">>}
MCForbidden == {[path |-> <<"home", ".ssh">>, exact |-> FALSE, prefix |-> TRUE],
                [path |-> <<"sock">>, exact |-> TRUE, prefix |-> FALSE]}
MCProject == <<"project">>

Vol(raw, target) == [host |-> raw, target |-> target]
NoPref == buildDefaultEnvConfig

MCPrefs ==
    {NoFile, Broken,
     [NoPref EXCEPT !.enable = {"claude-code", "tmux", "zsh"}, !.disable = {"ohmyzsh"},
                    !.entry = "zsh", !.vols = <<Vol(<<"link">>, "/x")>>],
     [NoPref EXCEPT !.pkgs = <<"jq">>, !.vols = <<Vol(<<"ssh">>, "/k")>>]}

MCPolicies ==
    {NoPolicy, Unlocked,
     [defaultPolicy EXCEPT !.enable = {"codex"}, !.disable = {"ohmyzsh", "debian"},
                            !.noAuto = TRUE, !.ignorePrefs = TRUE],
     [defaultPolicy EXCEPT !.mounts = {<<"home", "data">>}, !.root = home]}

MCOverrides ==
    {[NoPref EXCEPT !.enable = {"ohmyzsh"}, !.vols = <<Vol(<<"gone">>, Blank)>>],
     [NoPref EXCEPT !.enable = {"tmux", "unknown"}, !.entry = "tmux",
                    !.vols = <<Vol(<<"data">>, "/z")>>]}

Nothing == [l \in Languages |-> {}]

(* Processes are interchangeable (safety only). *)
Symmetry == Permutations(Procs)

MCFindings == {Nothing, [Nothing EXCEPT !["nodejs"] = {"1.0"}]}
=============================================================================

-------------------------------- MODULE Bricks --------------------------------
(***************************************************************************)
(* The bricks: what each contributes to an image, and the options they are *)
(* built from.  A brick is a record; a shell step is the tool it sets up    *)
(* and the version it takes; packages, files, folders are their names.      *)
(***************************************************************************)
EXTENDS Sequences, SequencesExt

(* The registered bricks in the order sort.Strings gives their ids. *)
Registry == <<"claude-code", "codex", "debian", "golang", "nodejs", "nvim", "ohmyzsh",
              "php", "pulumi", "python", "tmux", "zsh">>
Registered == ToSet(Registry)
Languages == {"golang", "nodejs", "php", "python"}   \* the bricks with a detector

Blank == ""         \* the empty string
NoVersion == Blank  \* metadata without a version
NoBrick == Blank    \* the empty brick id

EmptyBrick(id) ==
    [id |-> id, err |-> FALSE, kinds |-> {}, base |-> Blank, pkgs |-> <<>>, envs |-> {},
     root |-> <<>>, user |-> <<>>, files |-> <<>>, caches |-> <<>>, cacheFiles |-> <<>>,
     entry |-> Blank, apt |-> FALSE]

(* The options.  Lists are appended to; an environment variable or an       *)
(* entrypoint given twice is an error.  Sub-options of WithBrick run in the *)
(* order of the code and their errors are dropped.                          *)
With(b, field, list) == [b EXCEPT ![field] = @ \o list]
WithKinds(b, kinds) == [b EXCEPT !.kinds = @ \cup kinds]
WithEnv(b, var) == IF var \in b.envs THEN [b EXCEPT !.err = TRUE]
                   ELSE [b EXCEPT !.envs = @ \cup {var}]
WithEntrypoint(b, entry) == IF b.entry # Blank \/ entry = Blank THEN [b EXCEPT !.err = TRUE]
                            ELSE [b EXCEPT !.entry = entry]
WithBrick(b, c) ==
    [b EXCEPT !.kinds = @ \cup c.kinds,
              !.base = c.base,
              !.pkgs = @ \o c.pkgs,
              !.envs = @ \cup c.envs,
              !.root = @ \o c.root,
              !.user = @ \o c.user,
              !.files = @ \o c.files,
              !.entry = IF @ = Blank THEN c.entry ELSE @,
              !.caches = @ \o c.caches,
              !.cacheFiles = @ \o c.cacheFiles]

(* One option of NewBrick: the first error ends the construction. *)
Apply(b, o) ==
    CASE b.err -> b
      [] o.opt = "kinds" -> WithKinds(b, o.arg)
      [] o.opt = "base" -> [b EXCEPT !.base = o.arg]
      [] o.opt = "env" -> WithEnv(b, o.arg)
      [] o.opt = "entrypoint" -> WithEntrypoint(b, o.arg)
      [] o.opt = "manager" -> [b EXCEPT !.apt = TRUE]
      [] o.opt = "brick" -> WithBrick(b, o.arg)
      [] OTHER -> With(b, o.opt, o.arg)

NewBrick(id, opts) == FoldLeft(Apply, EmptyBrick(id), opts)

Opt(opt, arg) == [opt |-> opt, arg |-> arg]
Step(does, version) == [does |-> does, version |-> version]
UserRun(does) == Opt("user", <<Step(does, NoVersion)>>)
RootRun(does) == Opt("root", <<Step(does, NoVersion)>>)
Common == Opt("kinds", {"common"})
OrElse(version, default) == IF version = NoVersion THEN default ELSE version

-----------------------------------------------------------------------------
(* systems *)

NewDebian ==
    NewBrick("debian",
        <<Opt("kinds", {"system"}), Opt("base", "debian:bookworm-slim"), Opt("manager", TRUE),
          Opt("pkgs", <<"procps", "fzf", "ripgrep", "htop", "openssh-client",
                        "netcat-traditional", "tzdata">>),
          Opt("caches", <<".mkenv-pstore">>),
          RootRun("groupadd"), RootRun("useradd"), RootRun("local bin"), RootRun("own local bin"),
          RootRun("local dirs"), RootRun("own local dirs"),
          Opt("files", <<"system config">>)>>)

-----------------------------------------------------------------------------
(* languages *)

NewGolang(version) ==
    NewBrick("golang",
        <<Common,
          Opt("pkgs", <<"curl", "ca-certificates", "git", "build-essential", "binutils",
                        "bsdmainutils", "bison">>),
          Opt("caches", <<".cache/go-build", ".cache/goimports", ".cache/gopls", ".gvm/pkgsets">>),
          Opt("env", "GVM_DIR"),
          Opt("user", <<Step("gvm", OrElse(version, "1.25.3"))>>),
          Opt("files", <<"lang/golang">>)>>)

NewNodejs(version) ==
    NewBrick("nodejs",
        <<Common, Opt("pkgs", <<"curl", "ca-certificates", "git">>),
          Opt("env", "NVM_DIR"),
          Opt("user", <<Step("nvm", OrElse(version, "lts"))>>),
          Opt("files", <<"lang/nodejs">>)>>)

(* The version is part of the package's name. *)
NewPHP(version) ==
    NewBrick("php",
        <<Common,
          Opt("pkgs", <<"curl", "ca-certificates", "git",
                        IF version = NoVersion THEN "php" ELSE "php with a version">>)>>)

NewPython(version) ==
    NewBrick("python",
        <<Common,
          Opt("pkgs", <<"curl", "ca-certificates", "git", "build-essential", "libraries">>),
          Opt("caches", <<".cache/pip", ".pyenv/versions", ".local/share/virtualenvs">>),
          Opt("env", "PYENV_ROOT"),
          Opt("user", <<Step("pyenv", OrElse(version, "3.12"))>>),
          Opt("files", <<"lang/python">>)>>)

-----------------------------------------------------------------------------
(* shells *)

NewZsh ==
    NewBrick("zsh",
        <<Common, Opt("kinds", {"entrypoint"}), Opt("caches", <<".zshcache">>),
          Opt("pkgs", <<"zsh">>),
          RootRun("chsh"), UserRun("mkdir zshcache"), UserRun("link history"),
          Opt("files", <<"zshrc">>), Opt("entrypoint", "zsh")>>)

NewOhMyZsh ==
    NewBrick("ohmyzsh",
        <<Common, Opt("brick", NewZsh), Opt("pkgs", <<"ca-certificates", "git">>),
          UserRun("ohmyzsh"), Opt("files", <<"ohmyzshrc">>)>>)

-----------------------------------------------------------------------------
(* tools *)

NewTmux ==
    NewBrick("tmux",
        <<Common, Opt("kinds", {"entrypoint"}), Opt("pkgs", <<"tmux">>),
          Opt("entrypoint", "tmux"), UserRun("mkdir tmux"), UserRun("clone catppuccin")>>)

NewNvim ==
    NewBrick("nvim",
        <<Common, Opt("pkgs", <<"ca-certificates", "curl", "tar", "build-essential">>),
          Opt("caches", <<".local/share/nvim", ".local/state/nvim", ".cache/nvim">>),
          UserRun("download nvim"), UserRun("mkdir nvim"), UserRun("untar nvim"), UserRun("ls"),
          UserRun("mkdir opt"), UserRun("mv nvim"), UserRun("link nvim"), UserRun("rm nvim"),
          UserRun("mkdir nvim config"),
          Opt("files", <<"nvim aliases">>), Opt("files", <<"set nvim as default editor">>)>>)

NewPulumi ==
    NewBrick("pulumi",
        <<Common, Opt("pkgs", <<"ca-certificates", "curl">>), Opt("caches", <<".pulumi">>),
          UserRun("pulumi"), Opt("files", <<"pulumi">>)>>)

(* Both carry a nodejs brick of their own.  node_version and version come   *)
(* from a brick configuration, which never reaches a factory.               *)
NewClaudeCode ==
    NewBrick("claude-code",
        <<Common, Opt("brick", NewNodejs(NoVersion)), Opt("caches", <<".npm", ".claude">>),
          Opt("cacheFiles", <<".claude.json">>), UserRun("npm claude-code")>>)

NewCodex ==
    NewBrick("codex",
        <<Common, Opt("brick", NewNodejs(NoVersion)), Opt("caches", <<".npm", ".codex">>),
          UserRun("npm codex")>>)

-----------------------------------------------------------------------------
Versions == {NoVersion, "1.0"}      \* what a detector may add to the metadata

(* GetBrickFactory(id)(metadata) *)
Factory(id, version) ==
    CASE id = "claude-code" -> NewClaudeCode
      [] id = "codex" -> NewCodex
      [] id = "debian" -> NewDebian
      [] id = "golang" -> NewGolang(version)
      [] id = "nodejs" -> NewNodejs(version)
      [] id = "nvim" -> NewNvim
      [] id = "ohmyzsh" -> NewOhMyZsh
      [] id = "php" -> NewPHP(version)
      [] id = "pulumi" -> NewPulumi
      [] id = "python" -> NewPython(version)
      [] id = "tmux" -> NewTmux
      [] id = "zsh" -> NewZsh

Brick == [id \in Registered |-> [version \in Versions |-> Factory(id, version)]]

(* The registry, for the proofs: languages are bricks, debian is the only   *)
(* system and no entrypoint, and a brick has the id it is registered under. *)
ASSUME RegistryAssumption ==
    /\ NoBrick \notin Registered /\ Languages \subseteq Registered
    /\ \A id \in Registered, version \in Versions :
        /\ "system" \in Brick[id][version].kinds <=> id = "debian"
        /\ "system" \in Brick[id][version].kinds => "entrypoint" \notin Brick[id][version].kinds
        /\ Brick[id][version].id = id

(* Their steps, for the proofs: a step that two bricks share has the same   *)
(* step before it in both, and no step runs both as root and as the user.   *)
Made == {Brick[id][version] : id \in Registered, version \in Versions}

ASSUME StepsAssumption ==
    \A a, b \in Made :
        /\ a.root \in Seq(ToSet(a.root)) /\ a.user \in Seq(ToSet(a.user))
        /\ a.files \in Seq(ToSet(a.files))
        /\ ToSet(a.root) \cap ToSet(b.user) = {}
        /\ \A k \in 1..Len(a.user), i \in 2..Len(b.user) :
            a.user[k] = b.user[i] => \E l \in 1..k-1 : a.user[l] = b.user[i-1]
=============================================================================

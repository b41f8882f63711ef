------------------------------- MODULE MCDetect -------------------------------
(***************************************************************************)
(* Instances of Detect and AltScreen for TLC, explored by MCStartup.       *)
(***************************************************************************)
EXTENDS Detect, AltScreen, TLC

v(major, minor) == <<major, minor>>
C(op, version, partial) == [op |-> op, v |-> version, partial |-> partial]
MCLiteral == [v1 |-> C("", v(1, 9), FALSE), v2 |-> C("", v(1, 21), FALSE),
              v3 |-> C("", v(3, 0), TRUE), ge |-> C(">=", v(2, 0), TRUE),
              gt |-> C(">", v(1, 0), TRUE), lt |-> C("<", v(3, 0), TRUE),
              le |-> C("<=", v(2, 0), TRUE), up |-> C("^", v(2, 4), FALSE)]
MCExt == [name \in {"package.json", "composer.json"} |-> "json"] @@ ("go.mod" :> "mod")
         @@ (".npmrc" :> "npmrc") @@ ("main.go" :> "go") @@ ("app.js" :> "js")
         @@ ("setup.py" :> "py")

(* Version tokens, stray ones, and one too long. *)
Toks == {<<>>, <<"dot">>, <<"v1", "dot">>, <<"v2">>, <<"v1", "v3">>, <<"v1", "v1", "v1", "v1">>}
NodeToks == {<<"v3">>, <<"gt">>, <<"lt">>, <<"ge">>, <<"up">>, <<"le">>}

GoMods == {<<"g", "x">>} \cup {<<"g", "g", "s">> \o t \o <<"x">> : t \in Toks \cup {<<"v1">>, <<"ge">>}}
(* `"node": "` over every short text of its own symbols. *)
Overlaps == {s \o <<"v2">> : s \in UNION {[1..n -> {"q", "n"}] : n \in 0..6}}
Packages == {<<"x">>, <<"q", "q", "n", "q", "dot">>} \cup {<<"q", "n", "q">> \o t : t \in NodeToks}
Npmrcs == {<<"n", "n", "e">> \o t : t \in {<<"v3">>, <<"v1">>, <<"lt">>, <<>>}}

(* Prefixes with longer borders than the detectors' own. *)
MCSearchTexts == {<<"q", "n", "q", "q">>, <<"q", "q", "q", "n">>, <<"q", "n", "q", "n", "v2">>}

Empty == [path \in {} |-> <<>>]

(* The languages whose detectors read some file of the project. *)
Relevant(p) ==
    {l \in DOMAIN Detectors : \E path \in DOMAIN p : \E i \in DOMAIN Detectors[l] :
        \/ Name(path) = Detectors[l][i].target
        \/ MCExt[Name(path)] \in Detectors[l][i].exts}

MCProjects ==
    [{<<"go.mod">>, <<"sub", "go.mod">>, <<"vendor", "go.mod">>} -> GoMods]
        \cup [{<<"package.json">>, <<"web", "package.json">>, <<".npmrc">>} -> Packages \cup Npmrcs]
        \cup [{<<"package.json">>} -> Overlaps]
        \cup [{<<"composer.json">>, <<"node_modules", "app.js">>} -> {<<"q", "p", "q", "up">>}]
        \cup [{<<"main.go">>, <<"app.js">>, <<"setup.py">>} -> {<<>>}]
        \cup {Empty}

(* \x1b[?1049l and \x1b[?47l, whole, cut short and run together. *)
Long == <<"e", "[", "?", "1", "0", "4", "9", "l">>
Short == <<"e", "[", "?", "4", "7", "l">>
Pieces == {Long, Short, SubSeq(Long, 1, 5), SubSeq(Short, 1, 4), <<"e">>, <<"l">>, <<"[", "?">>}
MCStreams == {a \o b \o c : a, b, c \in Pieces}

(* The filter starts where there is nothing to detect, and reads nothing    *)
(* the detection wrote.                                                     *)
MCDetectInit ==
    /\ DetectInit
    /\ project # Empty => lang \in Relevant(project)
    /\ IF project = Empty THEN AltInit
       ELSE stream = <<>> /\ pos = 0 /\ held = <<>> /\ shown = <<>>

MCDetectNext ==
    \/ DetectNext /\ UNCHANGED altVars
    \/ outcome # Pending /\ AltNext /\ UNCHANGED vars

detectVars == <<vars, altVars>>
=============================================================================

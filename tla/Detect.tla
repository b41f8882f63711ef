-------------------------------- MODULE Detect --------------------------------
(***************************************************************************)
(* Language detection: the detectors of a language read the project with   *)
(* the streaming file scanner and settle on a version to install.          *)
(*                                                                         *)
(* A file is a sequence of symbols.  One symbol stands for a constraint as *)
(* written (a key of Literal), "dot" for a version character without a     *)
(* digit, every other symbol for a byte that ends a version.               *)
(***************************************************************************)
EXTENDS Versions, SequencesExt

CONSTANTS
    Projects,   \* projects: functions from paths (sequences of names) to files
    Ext,        \* the extension of a file name
    Literal,    \* the comparators a constraint symbol stands for
    SearchTexts,   \* other texts a file scanner may be asked to find
    MaxToken    \* symbols ReadWhile accepts before it gives up

ASSUME TokenAssumption == MaxToken \in Nat \ {0}

(* A sequence of symbols. *)
IsText(s) == s \in Seq(ToSet(s))

ASSUME FilesAssumption ==
    /\ \A p \in Projects : IsFiniteSet(DOMAIN p) /\ \A path \in DOMAIN p : IsText(p[path])
    /\ \A t \in SearchTexts : IsText(t)

ASSUME LiteralAssumption ==
    \A sym \in DOMAIN Literal :
        Literal[sym] \in [op : {"", "=", ">=", ">", "<", "<=", "^"}, v : Nat \X Nat, partial : BOOLEAN]

VARIABLES
    lang,       \* the language whose detector runs
    project,    \* the project
    results,    \* what its file detectors answered so far
    outcome     \* what Scan returns

vars == <<lang, project, results, outcome>>

(* NewLangDetector as the languages register it: target file, extensions,   *)
(* text before the version, and whether the version is a minimum.           *)
Detectors ==
    [golang |-> <<[target |-> "go.mod", exts |-> {"go"}, prefix |-> <<"g", "s">>, minimum |-> TRUE]>>,
     nodejs |-> <<[target |-> "package.json", exts |-> {"js"}, prefix |-> <<"q", "n", "q">>,
                   minimum |-> FALSE],
                  [target |-> ".npmrc", exts |-> {"js"}, prefix |-> <<"n", "e">>, minimum |-> FALSE]>>,
     python |-> <<[target |-> "requirements.txt,pyproject.toml,setup.py,Pipfile", exts |-> {"py"},
                   prefix |-> <<"p", "r">>, minimum |-> FALSE]>>,
     php    |-> <<[target |-> "composer.json", exts |-> {"php"}, prefix |-> <<"q", "p", "q">>,
                   minimum |-> FALSE]>>]

-----------------------------------------------------------------------------
(* The project's files *)

Name(path) == path[Len(path)]

(* WalkDir skips these folders at the root of the project only. *)
shouldSkip(path) == path[1] \in {"vendor", "node_modules", ".gomod"}

HasFilesWithExtensions(exts) ==
    \E path \in DOMAIN project : ~shouldSkip(path) /\ Ext[Name(path)] \in exts

FindFile(filename) == {path \in DOMAIN project : ~shouldSkip(path) /\ Name(path) = filename}

-----------------------------------------------------------------------------
(* The file scanner *)

(* Where the loop of kmpTable and Find stops, from each index k up to n:    *)
(* at the end of a border that c continues, or at 0.                        *)
Fallback(pat, lps, n, c) ==
    LET back[k \in 0..n] == IF k > 0 /\ c # pat[k + 1] THEN back[lps[k]] ELSE k
    IN  back

(* lps[i]: the longest proper border of the first i symbols. *)
kmpTable(pat) ==
    LET lps[i \in 1..Len(pat)] ==
            IF i = 1 THEN 0
            ELSE LET k == Fallback(pat, lps, i - 1, pat[i])[lps[i - 1]]
                 IN  IF pat[i] = pat[k + 1] THEN k + 1 ELSE 0
    IN  lps

(* Mutant of Matched: the byte of a mismatch is not compared again. *)
MatchedOnce(text, pat) ==
    LET j[p \in 0..Len(text)] ==
            IF p = 0 THEN 0
            ELSE IF j[p - 1] = Len(pat) THEN Len(pat)
            ELSE IF text[p] = pat[j[p - 1] + 1] THEN j[p - 1] + 1 ELSE 0
    IN  j

(* The index into the prefix after each byte Find has read; it stops at the *)
(* full length.                                                             *)
Matched(text, pat) ==
    LET lps == kmpTable(pat)
        j[p \in 0..Len(text)] ==
            IF p = 0 THEN 0
            ELSE IF j[p - 1] = Len(pat) THEN Len(pat)
            ELSE LET k == Fallback(pat, lps, Len(pat) - 1, text[p])[j[p - 1]]
                 IN  IF text[p] = pat[k + 1] THEN k + 1 ELSE k
    IN  j

(* The position after the prefix, 0 when it is not found. *)
Find(text, pat) ==
    LET j == Matched(text, pat)
        hits == {p \in 1..Len(text) : j[p] = Len(pat)}
    IN  IF hits = {} THEN 0 ELSE CHOOSE p \in hits : \A q \in hits : p <= q

IsVersionChar(sym) == sym = "dot" \/ sym \in DOMAIN Literal

(* The token after position p, whatever its length. *)
ReadWhile(text, p) ==
    LET stops == {q \in p + 1..Len(text) : ~IsVersionChar(text[q])}
        end == IF stops = {} THEN Len(text) + 1 ELSE CHOOSE q \in stops : \A r \in stops : q <= r
    IN  SubSeq(text, p + 1, end - 1)

-----------------------------------------------------------------------------
(* ScanFiles *)

hasDigit(token) == \E i \in DOMAIN token : token[i] \in DOMAIN Literal

(* A token semver takes as a constraint: no stray dot, and no operator      *)
(* after the ">=" a minimum is given.                                       *)
Valid(token, d) ==
    /\ "dot" \notin ToSet(token)
    /\ d.minimum => Literal[token[1]].op = ""

Constraint(token, d) ==
    [i \in DOMAIN token |-> IF i = 1 /\ d.minimum THEN [Literal[token[i]] EXCEPT !.op = ">="]
                            ELSE Literal[token[i]]]

Answer(err, found, version) == [err |-> err, found |-> found, version |-> version]

ScanFiles(d) ==
    LET targets == FindFile(d.target)
        withPrefix == {f \in targets : Find(project[f], d.prefix) # 0}
        read == {ReadWhile(project[f], Find(project[f], d.prefix)) : f \in withPrefix}
        tokens == {t \in read : hasDigit(t)}
        tooLong == \E t \in read : Len(t) > MaxToken
        invalid == \E t \in tokens : ~Valid(t, d)
    IN  IF targets = {} THEN Answer(FALSE, HasFilesWithExtensions(d.exts), NoVersionFound)
        ELSE IF tooLong \/ invalid THEN Answer(TRUE, FALSE, NoVersionFound)
        ELSE IF tokens = {} THEN Answer(FALSE, TRUE, NoVersionFound)
        ELSE Answer(FALSE, TRUE, MaxVersionFromConstraints({Constraint(t, d) : t \in tokens}))

-----------------------------------------------------------------------------
(* Scan *)

Pending == Answer(FALSE, FALSE, <<0>>)

DetectInit ==
    /\ lang \in DOMAIN Detectors
    /\ project \in Projects
    /\ results = <<>> /\ outcome = Pending

(* The next file detector of the language; an error ends the scan. *)
RunDetector ==
    /\ outcome = Pending /\ Len(results) < Len(Detectors[lang])
    /\ results' = Append(results, ScanFiles(Detectors[lang][Len(results) + 1]))
    /\ outcome' = IF Last(results').err THEN Last(results') ELSE Pending
    /\ UNCHANGED <<lang, project>>

(* The larger of the versions the detectors settled on. *)
Scan ==
    /\ outcome = Pending /\ Len(results) = Len(Detectors[lang])
    /\ outcome' = Answer(FALSE, \E i \in DOMAIN results : results[i].found,
                         pickVersion({results[i].version : i \in DOMAIN results}))
    /\ UNCHANGED <<lang, project, results>>

DetectNext == RunDetector \/ Scan

DetectSpec == DetectInit /\ [][DetectNext]_vars

-----------------------------------------------------------------------------
(* Properties *)

(* The first text after the prefix, by what "first occurrence" means. *)
FirstToken(text, pat) ==
    LET ends == {p \in Len(pat)..Len(text) : SubSeq(text, p - Len(pat) + 1, p) = pat}
        p == CHOOSE p \in ends : \A q \in ends : p <= q
        run(n) == SubSeq(text, p + 1, p + n)
        lengths == {n \in 0..Len(text) - p : \A i \in 1..n : IsVersionChar(text[p + i])}
    IN  IF ends = {} THEN <<>> ELSE run(CHOOSE n \in lengths : \A m \in lengths : m <= n)

Tokens(d) ==
    {t \in {FirstToken(project[f], d.prefix) : f \in FindFile(d.target)} : hasDigit(t)}

(* The streaming search is the search for the first occurrence: after every *)
(* byte it stands at the longest part of the prefix the text ends with,     *)
(* also when the prefix overlaps itself.                                    *)
KmpExact ==
    \A path \in DOMAIN project :
        \A pat \in SearchTexts \cup {Detectors[lang][i].prefix : i \in DOMAIN Detectors[lang]} :
        LET text == project[path]
            j == Matched(text, pat)
        IN  \A p \in 0..Len(text) :
                p = 0 \/ j[p - 1] # Len(pat) =>
                    /\ SubSeq(text, p - j[p] + 1, p) = SubSeq(pat, 1, j[p])
                    /\ \A n \in j[p] + 1..Len(pat) :
                        n > p \/ SubSeq(text, p - n + 1, p) # SubSeq(pat, 1, n)

(* A version is reported exactly when some file names one, it is never      *)
(* below one a detector settled on, a Go project gets a version some go.mod *)
(* names (or the next major one after a strict bound) and none below what a *)
(* go.mod asks for, and otherwise the version meets all constraints of one  *)
(* kind of file, unless no mentioned version does.                          *)
VersionJustified ==
    outcome # Pending /\ ~outcome.err =>
        LET ds == Detectors[lang]
            named == {i \in DOMAIN ds : Tokens(ds[i]) # {}}
            asked(i) == {Constraint(t, ds[i]) : t \in Tokens(ds[i])}
            v == outcome.version
        IN  /\ v = NoVersionFound <=> named = {}
            /\ \A i \in named : v = results[i].version \/ ~AtLeast(results[i].version, v)
            /\ lang = "golang" /\ named # {} =>
                /\ \E c \in Comparators(asked(1)) : v = c.v \/ (c.op = ">" /\ v = <<c.v[1] + 1, 0>>)
                /\ \A t \in asked(1) : AtLeast(v, t[1].v)
            /\ named # {} => \E i \in named :
                \/ \A t \in asked(i) : Satisfies(v, t)
                \/ \A w \in {c.v : c \in Comparators(asked(i))} :
                    \E t \in asked(i) : ~Satisfies(w, t)
=============================================================================

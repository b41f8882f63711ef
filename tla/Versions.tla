------------------------------- MODULE Versions -------------------------------
(***************************************************************************)
(* Version strings and constraints.  A version is <<major, minor>> (the    *)
(* patch level behaves as the minor one); a constraint is the sequence of  *)
(* its "||" alternatives, each [op, v, partial], partial when only the     *)
(* major number is written.                                                *)
(***************************************************************************)
EXTENDS Integers, Sequences, FiniteSets

NoVersionFound == <<>>

(* Mutant of compareVersions: only the last number is compared. *)
compareMinors(a, b) ==
    IF a[2] = b[2] THEN 0 ELSE IF a[2] > b[2] THEN 1 ELSE -1

compareVersions(a, b) ==
    IF a = b THEN 0
    ELSE IF a[1] > b[1] \/ (a[1] = b[1] /\ a[2] > b[2]) THEN 1 ELSE -1

AtLeast(a, b) == compareVersions(a, b) # -1

(* MaxVersion of the non-empty strings among vs. *)
pickVersion(vs) ==
    LET given == {v \in vs : v # NoVersionFound} IN
    IF given = {} THEN NoVersionFound
    ELSE CHOOSE v \in given : \A w \in given : AtLeast(v, w)

(* semver's Constraints.Check for one alternative. *)
Check(v, c) ==
    CASE c.op \in {"", "="} -> IF c.partial THEN v[1] = c.v[1] ELSE v = c.v
      [] c.op = ">=" -> AtLeast(v, c.v)
      [] c.op = ">"  -> IF c.partial THEN v[1] > c.v[1] ELSE ~AtLeast(c.v, v)
      [] c.op = "<"  -> ~AtLeast(v, c.v)
      [] c.op = "<=" -> IF c.partial THEN v[1] <= c.v[1] ELSE AtLeast(c.v, v)
      [] c.op = "^"  -> AtLeast(v, c.v) /\ v[1] = c.v[1]

Satisfies(v, token) == \E i \in DOMAIN token : Check(v, token[i])

Comparators(tokens) == UNION {{t[i] : i \in DOMAIN t} : t \in tokens}

(* Every literal, and a neighbouring major version for a strict comparator. *)
collectCandidates(tokens) ==
    LET cs == Comparators(tokens) IN
    {c.v : c \in cs} \cup {<<c.v[1] + 1, 0>> : c \in {d \in cs : d.op = ">"}}
                     \cup {<<c.v[1] - 1, 0>> : c \in {d \in cs : d.op = "<" /\ d.v[1] > 0}}

Satisfying(tokens) == {v \in collectCandidates(tokens) : \A t \in tokens : Satisfies(v, t)}

(* The largest candidate that satisfies every constraint, or, when none     *)
(* does, the largest candidate.                                             *)
MaxVersionFromConstraints(tokens) ==
    pickVersion(IF Satisfying(tokens) # {} THEN Satisfying(tokens) ELSE collectCandidates(tokens))
=============================================================================

-------------------------------- MODULE Versions --------------------------------
(***************************************************************************)
(* Semantic versions and version constraints                               *)
(* (src/infinitas_skill/install/version_constraints.py).                   *)
(***************************************************************************)
EXTENDS Integers, Sequences

\* A version; build metadata is parsed and dropped (parse_semver).  A
\* pre-release part is a number or a word, words in the order of their rank.
Version(major, minor, patch, pre) == [core |-> <<major, minor, patch>>, pre |-> pre]

Number(n) == [word |-> FALSE, rank |-> n]

Word(n) == [word |-> TRUE, rank |-> n]

Sign(left, right) == IF left = right THEN 0 ELSE IF left < right THEN -1 ELSE 1

\* Numbers come before words.
ComparePart(left, right) ==
    IF left.word = right.word THEN Sign(left.rank, right.rank) ELSE IF right.word THEN -1 ELSE 1

\* The sign at the first place where two sequences differ, 0 when one starts
\* the other.
FirstDifference(left, right, Cmp(_, _)) ==
    LET common == 1 .. (IF Len(left) < Len(right) THEN Len(left) ELSE Len(right))
        differ == {n \in common : Cmp(left[n], right[n]) # 0}
    IN  IF differ = {} THEN 0
        ELSE LET n == CHOOSE n \in differ : \A k \in differ : n <= k IN Cmp(left[n], right[n])

\* Mutant: a version without pre-release parts is not special.
ComparePrereleaseByLength(left, right) ==
    IF FirstDifference(left, right, ComparePart) # 0
    THEN FirstDifference(left, right, ComparePart) ELSE Sign(Len(left), Len(right))

\* A release comes after its pre-releases; a longer pre-release after its start.
ComparePrerelease(left, right) ==
    IF left = <<>> \/ right = <<>> THEN Sign(Len(right), Len(left)) ELSE
    IF FirstDifference(left, right, ComparePart) # 0
    THEN FirstDifference(left, right, ComparePart) ELSE Sign(Len(left), Len(right))

CompareVersions(left, right) ==
    IF left.core # right.core THEN FirstDifference(left.core, right.core, Sign)
    ELSE ComparePrerelease(left.pre, right.pre)

\* Mutant: below 1.0.0 a caret allows every minor version.
CaretUpperBoundMajor(v) == Version(v.core[1] + 1, 0, 0, <<>>)

\* The first component that is not zero is the one that may not grow.
CaretUpperBound(v) ==
    IF v.core[1] > 0 THEN Version(v.core[1] + 1, 0, 0, <<>>)
    ELSE IF v.core[2] > 0 THEN Version(0, v.core[2] + 1, 0, <<>>)
    ELSE Version(0, 0, v.core[3] + 1, <<>>)

TildeUpperBound(v) == Version(v.core[1], v.core[2] + 1, 0, <<>>)

\* A constraint is a set of tokens [op, v], empty for "*"; a caret or a tilde
\* stands for two comparators (parse_constraint_expression).
Token(op, v) == [op |-> op, v |-> v]

Comparators(expr) ==
    UNION {CASE t.op = "^" -> {Token(">=", t.v), Token("<", CaretUpperBound(t.v))}
             [] t.op = "~" -> {Token(">=", t.v), Token("<", TildeUpperBound(t.v))}
             [] OTHER -> {t} : t \in expr}

ConstraintIsExact(expr) == \E t \in expr : t.op = "=" /\ Comparators(expr) = {t}

VersionSatisfies(v, expr) ==
    \A t \in Comparators(expr) :
        LET c == CompareVersions(v, t.v) IN
        CASE t.op = "="  -> c = 0
          [] t.op = ">"  -> c > 0
          [] t.op = ">=" -> c >= 0
          [] t.op = "<"  -> c < 0
          [] t.op = "<=" -> c <= 0

-------------------------------------------------------------------------------
(* Properties of any three versions *)

\* compare_versions orders versions: what sorting candidates by it relies on.
VersionOrder(x, y, z) ==
    /\ CompareVersions(x, y) = -CompareVersions(y, x)
    /\ CompareVersions(x, y) = 0 => x = y
    /\ CompareVersions(x, y) <= 0 /\ CompareVersions(y, z) <= 0 => CompareVersions(x, z) <= 0
    /\ CompareVersions(Version(x.core[1], x.core[2], x.core[3], <<>>), x) >= 0

\* How many leading components a caret pins: those up to the first non-zero one.
Pinned(v) == IF v.core[1] > 0 THEN 1 ELSE IF v.core[2] > 0 THEN 2 ELSE 3

\* Among releases, ^v admits exactly the ones from v on that agree with it up
\* to its first non-zero component (caret_upper_bound), and ~v those that agree
\* on major and minor.
RangesNeverBreak(x, y) ==
    x.pre = <<>> =>
        /\ VersionSatisfies(x, {Token("^", y)}) <=>
               /\ CompareVersions(x, y) >= 0
               /\ SubSeq(x.core, 1, Pinned(y)) = SubSeq(y.core, 1, Pinned(y))
        /\ VersionSatisfies(x, {Token("~", y)}) <=>
               /\ CompareVersions(x, y) >= 0
               /\ SubSeq(x.core, 1, 2) = SubSeq(y.core, 1, 2)
===============================================================================

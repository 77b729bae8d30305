------------------------------- MODULE Drift -------------------------------
(***************************************************************************)
(* How the declarations of an ordbok are compared with what a scan found   *)
(* in the code of the target, the spoxis (src/src/drift.c).  A scan has    *)
(* constants, blocks of cases (a switch, a dictionary, a set) and          *)
(* functions.  Names are compared exactly, in camelCase, or without regard *)
(* to case; `Camel' and `Lower' are the tables of those conversions.       *)
(***************************************************************************)
EXTENDS Integers, SequencesExt, FiniteSetsExt

CONSTANTS
    Camel,      \* to_camel: a function on the names of declarations
    Lower,      \* tolower: a function on all names
    None        \* no value, no name

Wild == "_"

ASSUME DriftAssumption == Lower[Wild] = Wild

(* The elements of s that are in T, in their order. *)
Kept(s, T) == FlattenSeq([i \in DOMAIN s |-> IF s[i] \in T THEN <<s[i]>> ELSE <<>>])

(* A declaration, as far as drift and convergence look into it. *)
Decl(type, name) ==
    [type |-> type, name |-> name,
     targets |-> {},       \* the aliases of its @targets comment
     value |-> None,       \* of a kinded value: a string or a number, else None
     members |-> <<>>,     \* of a dimension, [a, b] or a | b
     enum |-> FALSE,       \* a | b: the parser keeps it as EXPR_ENUM
     arms |-> <<>>,        \* of a projection: the first name of every tuple, else None
     params |-> 0,         \* how many parameters
     fields |-> 0,         \* how many fields of a projection
     ok |-> FALSE,         \* exhaustive (a projection), without issues (a meihua)
     sections |-> <<>>]    \* of a traversal: [kind, body, call]

(* What s is, from 0 (the same) to 1 (nothing in common), as a fraction. *)
Fraction(n, d) == [num |-> n, den |-> d]
Entry(d, status, s) == [name |-> d.name, type |-> d.type, status |-> status, s |-> s]

SameName(a, b) == Lower[a] = Lower[b]
Called(d, n) == n \in {Camel[d.name], d.name}
MatchesTarget(d, n) ==
    n = d.name \/ \E t \in {Camel[d.name]} \cup d.targets : SameName(n, t)

-----------------------------------------------------------------------------
(* The first constant of that name is compared, also when others have it. *)
CompareXiConst(d, scan) ==
    LET i == SelectInSeq(scan.consts, LAMBDA c : Called(d, c.name)) IN
    IF i = 0 THEN Entry(d, "ordbok_only", Fraction(1, 1))
    ELSE LET v == scan.consts[i].value IN
         IF None \in {d.value, v} THEN Entry(d, "matched", Fraction(1, 10))
         ELSE IF d.value = v THEN Entry(d, "matched", Fraction(0, 1))
         ELSE Entry(d, "diverged", Fraction(1, 1))

(* A case of the ordbok for every arm that is a tuple and begins with a name
   which is not the wildcard. *)
Cases(d) == Kept(d.arms, Range(d.arms) \ {None, Wild})

Overlap(cases, branches) ==
    Cardinality({p \in (DOMAIN branches) \X (DOMAIN cases) : SameName(branches[p[1]], cases[p[2]])})

Found(cases, branches) ==
    {i \in DOMAIN cases : \E j \in DOMAIN branches : SameName(branches[j], cases[i])}

(* What a block has beyond the cases of the ordbok; its default is no case. *)
Extra(cases, branches) ==
    {j \in DOMAIN branches :
        branches[j] # Wild /\ \A i \in DOMAIN cases : ~SameName(branches[j], cases[i])}

(* The first block that shares more than three cases in ten. *)
CompareProjection(d, scan) ==
    LET cases == Cases(d)
        b == SelectInSeq(scan.switches, LAMBDA w :
                w.var # None /\ 10 * Overlap(cases, w.branches) > 3 * Len(cases))
    IN  IF b = 0 THEN Entry(d, "ordbok_only", Fraction(1, 1))
        ELSE LET branches == scan.switches[b].branches
                 found == Cardinality(Found(cases, branches))
                 extra == Cardinality(Extra(cases, branches))
                 total == Len(cases) + extra
             IN  Entry(d, IF found = total THEN "matched" ELSE "diverged",
                       Fraction(total - found, total))

CompareMeihua(d, scan) ==
    LET i == SelectInSeq(scan.functions, LAMBDA f : Called(d, f.name)) IN
    IF i = 0 THEN Entry(d, "ordbok_only", Fraction(1, 1))
    ELSE IF scan.functions[i].params = d.params THEN Entry(d, "matched", Fraction(0, 1))
    ELSE Entry(d, "diverged", Fraction(1, 2))

(* A shape that is written out as a block or a constant should have been
   derived; one that is computed by a function is as it should be. *)
CompareZeta(d, scan) ==
    IF \E w \in ToSet(scan.switches) : w.var # None /\ MatchesTarget(d, w.var)
    THEN Entry(d, "diverged", Fraction(7, 10))
    ELSE IF \E c \in ToSet(scan.consts) : MatchesTarget(d, c.name)
    THEN Entry(d, "diverged", Fraction(8, 10))
    ELSE IF \E f \in ToSet(scan.functions) : MatchesTarget(d, f.name)
    THEN Entry(d, "matched", Fraction(1, 10))
    ELSE Entry(d, "ordbok_only", Fraction(1, 1))

(* Members that are listed, [a, b]; those of a | b are not looked at. *)
Members(d) == IF d.enum THEN <<>> ELSE d.members

SharedLeft(members, branches) == Len(members)

Shared(members, branches) ==
    Cardinality({j \in DOMAIN branches :
        \E k \in DOMAIN members : SameName(branches[j], members[k])})

(* The block that shares most, the first of them, or 0. *)
BestBlock(share) ==
    SelectInSeq(share, LAMBDA n : n > 0 /\ \A i \in DOMAIN share : share[i] <= n)

(* That block is compared if it shares more than three members in ten.  What
   is counted are its branches, so two spellings of a member count twice. *)
CompareDimension(d, scan) ==
    LET members == Members(d)
        share == [i \in DOMAIN scan.switches |-> Shared(members, scan.switches[i].branches)]
        best == BestBlock(share)
    IN  IF best = 0 \/ 10 * share[best] <= 3 * Len(members)
        THEN Entry(d, "ordbok_only", Fraction(1, 1))
        ELSE LET extra == Len(scan.switches[best].branches) - share[best]
                 whole == share[best] = Len(members) /\ extra = 0
             IN  Entry(d, IF whole THEN "matched" ELSE "diverged",
                       Fraction(Len(members) + extra - share[best], Len(members) + extra))

CompareTraversal(d, scan) ==
    IF \E f \in ToSet(scan.functions) : MatchesTarget(d, f.name)
    THEN Entry(d, "matched", Fraction(0, 1))
    ELSE Entry(d, "ordbok_only", Fraction(1, 2))

Compared == {"xi", "zeta", "projection", "meihua", "dimension", "traversal"}

Compare(d, scan) ==
    CASE d.type = "xi"         -> CompareXiConst(d, scan)
      [] d.type = "zeta"       -> CompareZeta(d, scan)
      [] d.type = "projection" -> CompareProjection(d, scan)
      [] d.type = "meihua"     -> CompareMeihua(d, scan)
      [] d.type = "dimension"  -> CompareDimension(d, scan)
      [] d.type = "traversal"  -> CompareTraversal(d, scan)

Comparable(decls) == Kept(decls, {d \in Range(decls) : d.type \in Compared})

(* drift_compare: an entry for every declaration that can be compared. *)
DriftCompare(decls, scan) ==
    LET ds == Comparable(decls) IN [i \in DOMAIN ds |-> Compare(ds[i], scan)]

Count(report, status) == Cardinality({i \in DOMAIN report : report[i].status = status})

MergeLast(scans) ==   \* each scan replaces the one before
    IF scans = <<>> THEN [consts |-> <<>>, switches |-> <<>>, functions |-> <<>>]
    ELSE Last(scans)

(* What several scans found, one after the other. *)
MergeScans(scans) ==
    [consts    |-> FlattenSeq([i \in DOMAIN scans |-> scans[i].consts]),
     switches  |-> FlattenSeq([i \in DOMAIN scans |-> scans[i].switches]),
     functions |-> FlattenSeq([i \in DOMAIN scans |-> scans[i].functions])]

=============================================================================

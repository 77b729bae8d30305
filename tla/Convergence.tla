---------------------------- MODULE Convergence ----------------------------
(***************************************************************************)
(* The measurements of src/src/convergence.c: the casts of a program (its  *)
(* ΔR.k sections), the possibility spaces of its declarations, and what    *)
(* two measurements that follow each other are said to show.  The          *)
(* declarations are those of Drift.                                        *)
(***************************************************************************)
EXTENDS Drift

Sum(s) == LET upTo[i \in 0 .. Len(s)] == IF i = 0 THEN 0 ELSE upTo[i - 1] + s[i]
          IN  upTo[Len(s)]

Traversals(decls) == {i \in DOMAIN decls : decls[i].type = "traversal"}
HasSection(d, kind) == \E s \in DOMAIN d.sections : d.sections[s].kind = kind

(* A cast is governed when its body is the name of a declaration of the same
   program, whatever it declares, the traversal itself included. *)
Casts(decls) ==
    UNION {{<<i, s>> : s \in {k \in DOMAIN decls[i].sections : decls[i].sections[k].kind = "dR.k"}} :
        i \in Traversals(decls)}
GovernedCasts(decls) ==
    {c \in Casts(decls) : \E j \in DOMAIN decls : decls[j].name = decls[c[1]].sections[c[2]].body}

(* Traversals that read data and give no output. *)
Smegmacra(decls) ==
    {i \in Traversals(decls) : HasSection(decls[i], "x") /\ ~HasSection(decls[i], "omega")}

(* Morphisms that no section of a traversal names or calls. *)
YonedaGaps(decls) ==
    {i \in DOMAIN decls :
        /\ decls[i].type = "morphism"
        /\ \A j \in Traversals(decls) : \A s \in DOMAIN decls[j].sections :
              decls[i].name \notin {decls[j].sections[s].body, decls[j].sections[s].call}}

(* convergence_analyze: the ratio never looks at an earlier build. *)
Analyze(decls) ==
    LET total == Cardinality(Casts(decls))
        governed == Cardinality(GovernedCasts(decls))
    IN  [total |-> total, governed |-> governed, ungoverned |-> total - governed,
         ratio |-> IF total > 0 THEN Fraction(total - governed, total) ELSE Fraction(0, 1),
         smegmacra |-> Cardinality(Smegmacra(decls)),
         yonedaGaps |-> Cardinality(YonedaGaps(decls))]

Less(r, q) == r.num * q.den < q.num * r.den

PrintedWhole(r) == Fraction((2 * r.num + r.den) \div (2 * r.den), 1)     \* with no decimals

(* The ratio goes into the history with four decimals ... *)
Digits == 10000
Printed(r) == Fraction((2 * Digits * r.num + r.den) \div (2 * r.den), Digits)

(* ... and the next build compares its own, which is not rounded, with it. *)
Trend(r, prev) ==
    IF Less(r, prev) THEN "improving" ELSE IF Less(prev, r) THEN "worsening" ELSE "unchanged"
-----------------------------------------------------------------------------
(* count_spaces *)
Spaces(d) ==
    CASE d.type = "dimension" ->
            IF d.members = <<>> THEN 0 ELSE IF d.enum THEN Len(d.members) ELSE 1
      [] d.type = "projection" -> d.fields
      [] d.type \in {"meihua", "zhulin", "songqiao"} -> d.params + 1
      [] d.type = "traversal" -> Len(d.sections)
      [] d.type = "import" -> 1
      [] OTHER -> 0

GovernedSpaces(d) ==
    CASE d.type \in {"dimension", "import"} -> Spaces(d)
      [] d.type \in {"projection", "meihua"} -> IF d.ok THEN 1 ELSE 0
      [] d.type = "traversal" -> IF HasSection(d, "dR.k") THEN Len(d.sections) ELSE 0
      [] OTHER -> 0

Ungoverned(decls) ==
    LET total == Sum([i \in DOMAIN decls |-> Spaces(decls[i])])
        governed == Sum([i \in DOMAIN decls |-> GovernedSpaces(decls[i])])
    IN  IF governed > total THEN 0 ELSE total - governed

TotalSpaces(decls) == Sum([i \in DOMAIN decls |-> Spaces(decls[i])])

(* What convergence_scan_dir says of `now' ungoverned spaces among `total',
   when a baseline was found (has) and what it held (prev).  Without a positive
   number to compare with, the ratio is the share that is ungoverned. *)
Verdict(has, prev, now, total) ==
    LET ratio == IF has /\ prev > 0 THEN Fraction(now, prev)
                 ELSE IF total > 0 THEN Fraction(now, total) ELSE Fraction(0, 1)
    IN  IF ~has THEN "first"
        ELSE IF ratio.num < ratio.den THEN "converging"
        ELSE IF ratio.num > ratio.den THEN "DIVERGING" ELSE "stable"
=============================================================================

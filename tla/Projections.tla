---------------------------- MODULE Projections ----------------------------
(****************************************************************************)
(* One projection declaration on its way through the compiler: the parser   *)
(* collects its case arms, exhaustcheck.c decides whether they cover the    *)
(* declared dimensions, main.c refuses to generate code when an error was   *)
(* reported, and the four emitters translate the arms into programs.  What  *)
(* an emitter writes is modelled by what the written program computes: the  *)
(* number of the arm whose body it returns for an invariant and a context.  *)
(****************************************************************************)
EXTENDS Naturals, Sequences, FiniteSets

CONSTANTS
  Member,      \* the members of the dimension the invariant names
  Setting,     \* the members of the dimension the context names
  Wild,        \* the wildcard _
  Headers,     \* the headers to consider
  Bodies,      \* the kinds of arm body to consider
  MaxArms,     \* bound: case arms of a projection
  MaxCovered,  \* the room for covered members (256)
  MaxPairs     \* the room for pairs of patterns (512)

ASSUME WildAssumption == Wild \notin Member \cup Setting
ASSUME DimensionsAssumption == Member # {} /\ Setting # {}
ASSUME BoundsAssumption == MaxArms \in Nat /\ MaxCovered \in Nat /\ MaxPairs \in Nat

\* How the invariant and the context of a projection name a dimension.  An inflected
\* name differs from the dimension's by a plural s: dim_registry_find of the checkers
\* accepts it, that of emit_c.c does not.
HeaderType == [invariant : {"exact", "inflected", "undeclared"},
               context   : {"absent", "undeclared", "declared"},
               yields    : {"value", "dispatch", "parser_dispatch"}]

\* What an arm yields: a string that names a member of another dimension, any other
\* string, or an expression that is not a string literal.
BodyType == {"member", "text", "name"}

ASSUME HeadersAssumption == Headers \subseteq HeaderType
ASSUME BodiesAssumption == Bodies \subseteq BodyType

\* A pattern is a pair (inv, ctx) or a single identifier or wildcard, which says
\* nothing of the context.
Arm == [shape : {"pair"}, inv : Member \cup {Wild}, ctx : Setting \cup {Wild}, body : Bodies]
       \cup [shape : {"single"}, inv : Member \cup {Wild}, ctx : {Wild}, body : Bodies]

Targets == {"ts", "c", "sql", "asm"}
Fallback == 0      \* no arm: the input itself, "", <unknown>, NULL or 0

VARIABLES
  header,   \* the fields of the declaration
  arms,     \* its case arms, in the order of the source
  phase,    \* how far the compiler is with it
  diags,    \* what exhaustcheck reported
  outputs   \* the program of every target

vars == <<header, arms, phase, diags, outputs>>

----------------------------------------------------------------------------
(* exhaustcheck.c                                                           *)

\* An error, warning or note about a pair, about all pairs of a member (ctx = Wild)
\* or about the missing default arm (both Wild).
Diagnostic == [severity : {"error", "warning", "note"},
               inv : Member \cup {Wild}, ctx : Setting \cup {Wild}]

Report(severity, pairs) ==
  {[severity |-> severity, inv |-> p[1], ctx |-> p[2]] : p \in pairs}

HasWildcardArm(s) == \E k \in DOMAIN s : s[k].inv = Wild

\* The scan of the arms ends when there is no more room.
CoveredMembers(s) ==
  {m \in Member : \E k \in DOMAIN s :
      /\ s[k].inv = m
      /\ Cardinality({s[j].inv : j \in 1..k} \ {Wild}) <= MaxCovered}

MissingMembers(s) == Member \ CoveredMembers(s)

\* Mutant of InvariantAxis: a missing case is a warning, default arm or not.
InvariantAxisWarning(s) ==
  Report("warning", {<<Wild, Wild>>}) \cup Report("warning", MissingMembers(s) \X {Wild})

InvariantAxis(s) ==
  IF HasWildcardArm(s)
  THEN Report("warning", MissingMembers(s) \X {Wild})
  ELSE Report("warning", {<<Wild, Wild>>}) \cup Report("error", MissingMembers(s) \X {Wild})

ArmPairs(s) ==
  {<<s[k].inv, s[k].ctx>> : k \in
     {n \in DOMAIN s : /\ s[n].shape = "pair"
                       /\ Cardinality({j \in 1..n : s[j].shape = "pair"}) <= MaxPairs}}

\* Mutant of CoverageLevel: every (_, ctx) is taken for a default.
CoverageLevelAnyContext(i, c, pairs) ==
  IF <<i, c>> \in pairs THEN 3
  ELSE IF <<i, Wild>> \in pairs THEN 2
  ELSE IF \E p \in pairs : p[1] = Wild THEN 1 ELSE 0

\* Mutant of CoverageLevel: the sentinel of (inv, _) is not recognised.
CoverageLevelSentinel(i, c, pairs) ==
  IF <<i, c>> \in pairs THEN 3
  ELSE IF <<Wild, c>> \in pairs THEN 2
  ELSE IF <<Wild, Wild>> \in pairs THEN 1 ELSE 0

\* Mutant of CoverageLevel: (_, _) counts as a partial wildcard.
CoverageLevelSilent(i, c, pairs) ==
  IF <<i, c>> \in pairs THEN 3
  ELSE IF {<<i, Wild>>, <<Wild, c>>, <<Wild, Wild>>} \cap pairs # {} THEN 2 ELSE 0

CoverageLevel(i, c, pairs) ==
  IF <<i, c>> \in pairs THEN 3
  ELSE IF <<i, Wild>> \in pairs \/ <<Wild, c>> \in pairs THEN 2
  ELSE IF <<Wild, Wild>> \in pairs THEN 1 ELSE 0

AtLevel(level, s) ==
  {p \in Member \X Setting : CoverageLevel(p[1], p[2], ArmPairs(s)) = level}

CrossProduct(s) == Report("error", AtLevel(0, s)) \cup Report("note", AtLevel(1, s))

Diagnostics(h, s) ==
  (IF h.invariant = "undeclared" THEN {} ELSE InvariantAxis(s))
  \cup (IF h.invariant = "undeclared" \/ h.context # "declared" THEN {} ELSE CrossProduct(s))

HasErrors(ds) == \E d \in ds : d.severity = "error"

----------------------------------------------------------------------------
(* The programs the emitters write                                          *)

LoneWildcard(a) == a.shape = "single" /\ a.inv = Wild
IsDefault(a) == a.inv = Wild /\ a.ctx = Wild
Matches(a, i, c) == a.inv \in {Wild, i} /\ a.ctx \in {Wild, c}
IsLiteral(a) == a.body \in {"member", "text"}

First(S) == CHOOSE k \in S : \A j \in S : k <= j
Last(S) == CHOOSE k \in S : \A j \in S : j <= k

\* The first case that applies, else the default that was seen last.
Select(cases, defaults) ==
  IF cases # {} THEN First(cases)
  ELSE IF defaults # {} THEN Last(defaults) ELSE Fallback

\* Mutant of Chain: assignments instead of returns, so the last case that applies wins.
ChainOfAssignments(s, ks) ==
  [p \in Member \X Setting |->
     Select({}, LET cases == {k \in ks : ~IsDefault(s[k]) /\ Matches(s[k], p[1], p[2])}
                IN  IF cases # {} THEN cases ELSE {k \in ks : IsDefault(s[k])})]

\* A chain of conditions over the arms in ks, and a final return of the default.
Chain(s, ks) ==
  [p \in Member \X Setting |->
     Select({k \in ks : ~IsDefault(s[k]) /\ Matches(s[k], p[1], p[2])},
            {k \in ks : IsDefault(s[k])})]

\* A cascade that takes the arms in ks one after the other, the default among them.
Cascade(s, ks) ==
  [p \in Member \X Setting |-> Select({k \in ks : Matches(s[k], p[1], p[2])}, {})]

TsOutput(s) == [valid |-> TRUE, resolve |-> Chain(s, DOMAIN s)]

\* emit_sql.c and the chain of emit_c.c know pairs and the lone wildcard, and bodies
\* that are string literals; the other arms are skipped.
TextArms(s) ==
  {k \in DOMAIN s : IsLiteral(s[k]) /\ (s[k].shape = "pair" \/ LoneWildcard(s[k]))}

\* Without a context there is no parameter that a condition on it could read.
NoContextRead(h, s) == h.context = "absent" => \A k \in TextArms(s) : s[k].ctx = Wild

\* A CASE needs a WHEN, and an ELSE only as its last branch.
SqlOutput(h, s) ==
  [valid |-> /\ NoContextRead(h, s)
             /\ \E k \in TextArms(s) : ~IsDefault(s[k])
             /\ \A k \in TextArms(s) : IsDefault(s[k]) => \A j \in TextArms(s) : j <= k,
   resolve |-> Cascade(s, TextArms(s))]

CChain(h, s) == [valid |-> NoContextRead(h, s), resolve |-> Chain(s, TextArms(s))]

\* The results are members of another dimension: the switch returns its enum.
CodomainMode(s) ==
  LET voting == {k \in DOMAIN s : IsLiteral(s[k]) /\ ~LoneWildcard(s[k])}
  IN  voting # {} /\ \A k \in voting : s[k].body = "member"

SwitchArms(s) ==
  {k \in DOMAIN s : IsLiteral(s[k]) /\ (CodomainMode(s) => s[k].shape = "single")}

Labels(s, ks) == {k \in ks : s[k].inv # Wild}
DefaultLabels(s, ks) == {k \in ks : s[k].inv = Wild}
LabelsDiffer(s, ks) == \A j, k \in ks : s[j].inv = s[k].inv => j = k

Switch(s, ks, defaults) ==
  [p \in Member \X Setting |-> Select({k \in Labels(s, ks) : s[k].inv = p[1]}, defaults)]

\* A default of the enum switch is written as a member of the codomain whatever it is.
CSwitch(s) ==
  LET defaults == DefaultLabels(s, SwitchArms(s))
  IN  [valid |-> /\ LabelsDiffer(s, Labels(s, SwitchArms(s)))
                 /\ CodomainMode(s) /\ defaults # {} => s[Last(defaults)].body = "member",
       resolve |-> Switch(s, SwitchArms(s), defaults)]

\* The wildcard is a label of its own, and parser_dispatch drops its body.
CDispatch(h, s) ==
  LET ks == {k \in DOMAIN s : IsLiteral(s[k]) /\ s[k].shape = "single"}
  IN  [valid |-> LabelsDiffer(s, ks),
       resolve |-> Switch(s, ks, IF h.yields = "dispatch" THEN DefaultLabels(s, ks) ELSE {})]

COutput(h, s) ==
  IF h.context # "absent" \/ h.invariant # "exact" THEN CChain(h, s)
  ELSE IF h.yields = "value" THEN CSwitch(s) ELSE CDispatch(h, s)

\* A pair is not compared with anything: the jump reads flags that nothing has set.
AsmOutput(s) ==
  [valid |-> \A k \in DOMAIN s : s[k].shape = "single", resolve |-> Cascade(s, DOMAIN s)]

Programs(h, s) ==
  [ts |-> TsOutput(s), c |-> COutput(h, s), sql |-> SqlOutput(h, s), asm |-> AsmOutput(s)]

----------------------------------------------------------------------------
(* The compiler                                                             *)

Init ==
  /\ header \in Headers
  /\ arms = <<>>
  /\ phase = "parsing"
  /\ diags = {}
  /\ outputs = [t \in {} |-> {}]

\* parse_projection_cases appends an arm.
ParseArm ==
  /\ phase = "parsing"
  /\ Len(arms) < MaxArms
  /\ \E a \in Arm : arms' = Append(arms, a)
  /\ UNCHANGED <<header, phase, diags, outputs>>

\* exhaustcheck
Check ==
  /\ phase = "parsing"
  /\ phase' = "checked"
  /\ diags' = Diagnostics(header, arms)
  /\ UNCHANGED <<header, arms, outputs>>

\* "errors found -- no code generated"
Refuse ==
  /\ phase = "checked"
  /\ HasErrors(diags)
  /\ phase' = "refused"
  /\ UNCHANGED <<header, arms, diags, outputs>>

\* The driver's emission, once for every target.
Emit ==
  /\ phase = "checked"
  /\ ~HasErrors(diags)
  /\ phase' = "emitted"
  /\ outputs' = Programs(header, arms)
  /\ UNCHANGED <<header, arms, diags>>

Next == ParseArm \/ Check \/ Refuse \/ Emit

Spec == Init /\ [][Next]_vars

----------------------------------------------------------------------------
(* Properties                                                               *)

\* The declaration, the reports and the programs have their types.
TypeOK ==
  /\ header \in HeaderType
  /\ arms \in Seq(Arm) /\ Len(arms) <= MaxArms
  /\ phase \in {"parsing", "checked", "refused", "emitted"}
  /\ diags \subseteq Diagnostic
  /\ phase = "parsing" => diags = {}
  /\ DOMAIN outputs = IF phase = "emitted" THEN Targets ELSE {}
  /\ \A t \in DOMAIN outputs : outputs[t] \in
       [valid : BOOLEAN, resolve : [Member \X Setting -> 0..Len(arms)]]

AllLiteral == \A k \in DOMAIN arms : IsLiteral(arms[k])
AllSingle == \A k \in DOMAIN arms : arms[k].shape = "single"
AllPairs == \A k \in DOMAIN arms : arms[k].shape = "pair"
DefaultIsLast == \A k \in DOMAIN arms : IsDefault(arms[k]) => k = Len(arms)

Total(t) == \A p \in Member \X Setting : outputs[t].resolve[p] # Fallback

\* A projection over two declared dimensions yields an arm for every pair, in TypeScript
\* always, in C and in SQL when all bodies are string literals: what check_cross_product
\* counts as covered the emitters do cover, wildcards on either side and the full arrays
\* of collect_arm_pairs included.
CrossIsTotal ==
  header.context = "declared" =>
    /\ Total("ts")
    /\ AllLiteral => \A t \in {"c", "sql"} : outputs[t].valid => Total(t)

\* A projection over one dimension, with single patterns, yields an arm for every member:
\* in TypeScript and in assembly, and in C when the dimension is named exactly and the
\* bodies are string literals.
SingleAxisIsTotal ==
  header.context = "absent" /\ AllSingle =>
    /\ Total("ts") /\ Total("asm")
    /\ header.invariant = "exact" /\ header.yields # "parser_dispatch" /\ AllLiteral
         => Total("c")

\* No generated function falls through: a projection over declared dimensions for which
\* code is generated, since exhaustcheck found no gap, is total over one axis or two.
CheckedIsTotal ==
  phase = "emitted" /\ header.invariant # "undeclared" => CrossIsTotal /\ SingleAxisIsTotal

\* No false alarm: when code is refused for a projection with patterns in pairs, each
\* error names a gap, that is inputs for which the TypeScript function would fall
\* through all its arms.
ErrorsAreGaps ==
  phase = "refused" /\ AllPairs /\ Len(arms) <= MaxPairs /\ Len(arms) <= MaxCovered =>
    \A d \in diags : d.severity = "error" =>
      \A p \in Member \X Setting :
        p[1] = d.inv /\ d.ctx \in {Wild, p[2]} => TsOutput(arms).resolve[p] = Fallback

\* "Each uncovered member produces a warning" (CONSTITUTION.md): no pair and no member
\* is left to the default arm of the generated function without a report about it.
DefaultsAreAnnounced ==
  phase = "emitted" /\ header.invariant # "undeclared" =>
    \A p \in Member \X Setting :
      LET k == outputs["ts"].resolve[p]
      IN  k # Fallback /\ IsDefault(arms[k]) =>
            /\ header.context = "declared" =>
                 [severity |-> "note", inv |-> p[1], ctx |-> p[2]] \in diags
            /\ AllSingle =>
                 [severity |-> "warning", inv |-> p[1], ctx |-> Wild] \in diags

\* The emitters agree: with string literals as bodies and the default as the last arm,
\* the programs that are valid resolve every input to the same arm, TypeScript, C and
\* SQL for patterns in pairs, TypeScript, C and assembly for single patterns.
TargetsAgree ==
  phase = "emitted" /\ AllLiteral /\ DefaultIsLast =>
    \A t, u \in {v \in Targets : outputs[v].valid} :
      \/ header.context # "absent" /\ AllPairs /\ "asm" \notin {t, u}
      \/ /\ header.context = "absent" /\ AllSingle /\ "sql" \notin {t, u}
         /\ header.invariant = "exact" /\ header.yields # "parser_dispatch"
      => outputs[t].resolve = outputs[u].resolve

\* equations/m2-string-tables.md: kind_name(k) yields its string "in all three targets".
\* Not true of the code, so in no run: emit_sql.c skips every arm with a single pattern.
StringTablesInAllTargets ==
  /\ phase = "emitted" /\ AllLiteral /\ AllSingle /\ DefaultIsLast
  /\ header = [invariant |-> "exact", context |-> "absent", yields |-> "value"]
  /\ LabelsDiffer(arms, DOMAIN arms) /\ \A k \in DOMAIN arms : arms[k].inv # Wild
  => \A t \in {"ts", "c", "sql"} : outputs[t].valid /\ Total(t)

============================================================================

-------------------------- MODULE ProjectionsProofs --------------------------
(****************************************************************************)
(* What the exhaustiveness checker guarantees for dimensions of any size,   *)
(* any number of case arms and any room in the checker's arrays.            *)
(*                                                                          *)
(* The arguments are about one declaration, so the invariant only says that *)
(* the reports and the programs are those of the declaration and that code  *)
(* is generated from a declaration without errors.  What is left is data:   *)
(* the level of a pair is an arm that matches it, and an emitter that       *)
(* selects the first arm that matches, or else a default, finds one.        *)
(****************************************************************************)
EXTENDS Projections, FiniteSetTheorems, WellFoundedInduction, TLAPS

\* The compiler's state is determined by the declaration and the phase.
Inv ==
  /\ header \in Headers
  /\ arms \in Seq(Arm)
  /\ Len(arms) <= MaxArms
  /\ phase \in {"parsing", "checked", "refused", "emitted"}
  /\ diags = IF phase = "parsing" THEN {} ELSE Diagnostics(header, arms)
  /\ outputs = IF phase = "emitted" THEN Programs(header, arms)
               ELSE [t \in {} |-> {}]
  /\ phase = "emitted" => ~HasErrors(diags)

\* The state of the compiler is as described in every step (main.c, exhaustcheck.c).
THEOREM Invariance == Spec => []Inv
<1>1. Init => Inv
  <2> SUFFICES ASSUME Init PROVE Inv
    OBVIOUS
  <2>1. arms \in Seq(Arm) /\ Len(arms) = 0
    BY DEF Init
  <2> QED BY <2>1, BoundsAssumption DEF Init, Inv
<1>2. Inv /\ [Next]_vars => Inv'
  <2> SUFFICES ASSUME Inv, [Next]_vars PROVE Inv'
    OBVIOUS
  <2>1. CASE ParseArm
    <3>1. PICK a \in Arm : arms' = Append(arms, a)
      BY <2>1 DEF ParseArm
    <3>2. arms' \in Seq(Arm) /\ Len(arms') = Len(arms) + 1 /\ Len(arms) \in Nat
      BY <3>1 DEF Inv
    <3> QED BY <2>1, <3>2, BoundsAssumption DEF ParseArm, Inv
  <2>2. CASE Check
    BY <2>2 DEF Check, Inv
  <2>3. CASE Refuse
    BY <2>3 DEF Refuse, Inv
  <2>4. CASE Emit
    BY <2>4 DEF Emit, Inv
  <2>5. CASE UNCHANGED vars
    BY <2>5 DEF vars, Inv
  <2> QED BY <2>1, <2>2, <2>3, <2>4, <2>5 DEF Next
<1> QED BY <1>1, <1>2, PTL DEF Spec

------------------------------------------------------------------------------
(* Selection of an arm *)

\* A set of arm numbers has a least one (the order in which the cases are tested).
LEMMA FirstOne ==
  ASSUME NEW n \in Nat, NEW S \in SUBSET (1..n), S # {}
  PROVE  First(S) \in S /\ \A j \in S : First(S) <= j
<1>1. S \subseteq Nat
  OBVIOUS
<1>2. PICK k \in S : \A j \in S : ~(<<j, k>> \in OpToRel(<, Nat))
  BY <1>1, NatLessThanWellFounded, WFMin
<1>3. \A j \in S : ~(j < k)
  BY <1>1, <1>2 DEF OpToRel
<1>4. \A j \in S : k <= j
  BY <1>1, <1>3
<1> QED BY <1>4 DEF First

\* A set of arm numbers has a greatest one (the default that is seen last).
LEMMA LastOne ==
  ASSUME NEW n \in Nat, NEW S \in SUBSET (1..n), S # {}
  PROVE  Last(S) \in S /\ \A j \in S : j <= Last(S)
<1> DEFINE T == {n - k : k \in S}
<1>1. T \subseteq Nat /\ T # {}
  <2>1. \A k \in S : k \in 1..n
    OBVIOUS
  <2>2. \A k \in S : n - k \in Nat
    BY <2>1
  <2> QED BY <2>2
<1>2. PICK t \in T : \A j \in T : ~(<<j, t>> \in OpToRel(<, Nat))
  <2> HIDE DEF T
  <2> QED BY <1>1, NatLessThanWellFounded, WFMin
<1>3. PICK k \in S : t = n - k
  BY <1>2
<1>4. \A j \in T : ~(j < t)
  BY <1>1, <1>2 DEF OpToRel
<1>5. \A j \in S : ~(n - j < n - k)
  BY <1>3, <1>4
<1>6. \A j \in S : j \in 1..n
  OBVIOUS
<1>7. ASSUME NEW j \in S PROVE j <= k
  <2>1. j \in Nat /\ k \in Nat /\ ~(n - j < n - k)
    BY <1>5, <1>6
  <2> QED BY <2>1
<1> QED BY <1>7 DEF Last

\* An emitted function yields one of the cases if there is one, else one of the
\* defaults, else no arm.
LEMMA Selection ==
  ASSUME NEW n \in Nat, NEW cases \in SUBSET (1..n), NEW defaults \in SUBSET (1..n)
  PROVE  /\ cases # {} => Select(cases, defaults) \in cases
         /\ cases = {} /\ defaults # {} => Select(cases, defaults) \in defaults
         /\ cases = {} /\ defaults = {} => Select(cases, defaults) = Fallback
BY FirstOne, LastOne DEF Select

\* A chain of conditions yields an arm of ks for every pair that one of them matches,
\* and a default only for a pair that no other arm matches.
LEMMA ChainSelects ==
  ASSUME NEW s \in Seq(Arm), NEW ks \in SUBSET (DOMAIN s), NEW p \in Member \X Setting
  PROVE  /\ Chain(s, ks)[p] \in ks \cup {Fallback}
         /\ (\E k \in ks : Matches(s[k], p[1], p[2])) => Chain(s, ks)[p] \in ks
         /\ Chain(s, ks)[p] \in ks => Matches(s[Chain(s, ks)[p]], p[1], p[2])
         /\ \A k \in ks : ~IsDefault(s[k]) /\ Matches(s[k], p[1], p[2])
              => ~IsDefault(s[Chain(s, ks)[p]])
<1> DEFINE cases == {k \in ks : ~IsDefault(s[k]) /\ Matches(s[k], p[1], p[2])}
           defaults == {k \in ks : IsDefault(s[k])}
<1>1. Len(s) \in Nat /\ DOMAIN s = 1..Len(s)
  OBVIOUS
<1>2. Chain(s, ks)[p] = Select(cases, defaults)
  BY DEF Chain
<1>3. /\ cases # {} => Select(cases, defaults) \in cases
      /\ cases = {} /\ defaults # {} => Select(cases, defaults) \in defaults
      /\ cases = {} /\ defaults = {} => Select(cases, defaults) = Fallback
  BY <1>1, Selection
<1>4. \A k \in ks : IsDefault(s[k]) => Matches(s[k], p[1], p[2])
  BY DEF IsDefault, Matches
<1>5. Fallback \notin ks
  BY <1>1 DEF Fallback
<1>6. CASE cases # {}
  <2>1. Chain(s, ks)[p] \in cases
    BY <1>2, <1>3, <1>6
  <2> QED BY <2>1
<1>7. CASE cases = {} /\ defaults # {}
  <2>1. Chain(s, ks)[p] \in defaults
    BY <1>2, <1>3, <1>7
  <2>2. \A k \in ks : ~(~IsDefault(s[k]) /\ Matches(s[k], p[1], p[2]))
    BY <1>7
  <2> QED BY <1>4, <2>1, <2>2
<1>8. CASE cases = {} /\ defaults = {}
  <2>1. Chain(s, ks)[p] = Fallback
    BY <1>2, <1>3, <1>8
  <2>2. \A k \in ks : ~Matches(s[k], p[1], p[2])
    BY <1>8
  <2> QED BY <1>5, <2>1, <2>2
<1> QED BY <1>6, <1>7, <1>8

\* A cascade yields an arm of ks for every pair that one of them matches.
LEMMA CascadeSelects ==
  ASSUME NEW s \in Seq(Arm), NEW ks \in SUBSET (DOMAIN s), NEW p \in Member \X Setting
  PROVE  /\ Cascade(s, ks)[p] \in ks \cup {Fallback}
         /\ (\E k \in ks : Matches(s[k], p[1], p[2])) => Cascade(s, ks)[p] \in ks
<1> DEFINE cases == {k \in ks : Matches(s[k], p[1], p[2])}
<1>1. Len(s) \in Nat /\ DOMAIN s = 1..Len(s)
  OBVIOUS
<1>2. Cascade(s, ks)[p] = Select(cases, {})
  BY DEF Cascade
<1>3. /\ cases # {} => Select(cases, {}) \in cases
      /\ cases = {} => Select(cases, {}) = Fallback
  BY <1>1, Selection
<1> QED BY <1>2, <1>3

------------------------------------------------------------------------------
(* Coverage *)

\* A pair that the checker counts as covered, at any level, is matched by an arm with a
\* pair of patterns, and by one that is no default unless the level is 1.
LEMMA CoveredIsMatched ==
  ASSUME NEW s \in Seq(Arm), NEW p \in Member \X Setting,
         CoverageLevel(p[1], p[2], ArmPairs(s)) # 0
  PROVE  \E k \in DOMAIN s :
           /\ s[k].shape = "pair"
           /\ Matches(s[k], p[1], p[2])
           /\ CoverageLevel(p[1], p[2], ArmPairs(s)) # 1 => ~IsDefault(s[k])
<1> DEFINE covering == {<<p[1], p[2]>>, <<p[1], Wild>>, <<Wild, p[2]>>}
<1>1. p[1] \in Member /\ p[2] \in Setting
  OBVIOUS
<1>2. \A q \in ArmPairs(s) : \E k \in DOMAIN s :
        s[k].shape = "pair" /\ q = <<s[k].inv, s[k].ctx>>
  BY DEF ArmPairs
<1>3. CASE \E q \in covering : q \in ArmPairs(s)
  <2>1. PICK k \in DOMAIN s :
          s[k].shape = "pair" /\ <<s[k].inv, s[k].ctx>> \in covering
    BY <1>2, <1>3
  <2>2. Matches(s[k], p[1], p[2])
    BY <2>1 DEF Matches
  <2>3. ~IsDefault(s[k])
    BY <1>1, <2>1, WildAssumption DEF IsDefault
  <2> QED BY <2>1, <2>2, <2>3
<1>4. CASE \A q \in covering : q \notin ArmPairs(s)
  <2>1. <<Wild, Wild>> \in ArmPairs(s) /\ CoverageLevel(p[1], p[2], ArmPairs(s)) = 1
    BY <1>4 DEF CoverageLevel
  <2>2. PICK k \in DOMAIN s :
          s[k].shape = "pair" /\ <<Wild, Wild>> = <<s[k].inv, s[k].ctx>>
    BY <1>2, <2>1
  <2>3. Matches(s[k], p[1], p[2])
    BY <2>2 DEF Matches
  <2> QED BY <2>1, <2>2, <2>3
<1> QED BY <1>3, <1>4

\* Without errors every pair of two declared dimensions has a level, and one at level 1
\* has a note (check_cross_product).
LEMMA ReportedPairs ==
  ASSUME NEW h \in HeaderType, NEW s \in Seq(Arm), NEW p \in Member \X Setting,
         h.invariant # "undeclared", h.context = "declared",
         ~HasErrors(Diagnostics(h, s))
  PROVE  /\ CoverageLevel(p[1], p[2], ArmPairs(s)) # 0
         /\ CoverageLevel(p[1], p[2], ArmPairs(s)) = 1 =>
              [severity |-> "note", inv |-> p[1], ctx |-> p[2]] \in Diagnostics(h, s)
<1>1. CrossProduct(s) \subseteq Diagnostics(h, s)
  BY DEF Diagnostics
<1>2. ASSUME CoverageLevel(p[1], p[2], ArmPairs(s)) = 0 PROVE FALSE
  <2>1. [severity |-> "error", inv |-> p[1], ctx |-> p[2]] \in CrossProduct(s)
    BY <1>2 DEF CrossProduct, Report, AtLevel
  <2>2. [severity |-> "error", inv |-> p[1], ctx |-> p[2]].severity = "error"
    OBVIOUS
  <2> QED BY <1>1, <2>1, <2>2 DEF HasErrors
<1>3. ASSUME CoverageLevel(p[1], p[2], ArmPairs(s)) = 1
      PROVE  [severity |-> "note", inv |-> p[1], ctx |-> p[2]] \in CrossProduct(s)
  BY <1>3 DEF CrossProduct, Report, AtLevel
<1> QED BY <1>1, <1>2, <1>3

\* A chain of conditions none of which applies ends in the fallback.
LEMMA ChainFallsThrough ==
  ASSUME NEW s \in Seq(Arm), NEW p \in Member \X Setting,
         \A k \in DOMAIN s : ~Matches(s[k], p[1], p[2])
  PROVE  Chain(s, DOMAIN s)[p] = Fallback
BY ChainSelects

\* With the default as the last arm it makes no difference whether the default stands in
\* the cascade or after the chain.
LEMMA LastDefaultCascades ==
  ASSUME NEW s \in Seq(Arm), \A k \in DOMAIN s : IsDefault(s[k]) => k = Len(s)
  PROVE  Cascade(s, DOMAIN s) = Chain(s, DOMAIN s)
<1>1. Len(s) \in Nat /\ DOMAIN s = 1..Len(s)
  OBVIOUS
<1>2. ASSUME NEW p \in Member \X Setting
      PROVE  Cascade(s, DOMAIN s)[p] = Chain(s, DOMAIN s)[p]
  <2> DEFINE all == {k \in DOMAIN s : Matches(s[k], p[1], p[2])}
             cases == {k \in DOMAIN s : ~IsDefault(s[k]) /\ Matches(s[k], p[1], p[2])}
             defaults == {k \in DOMAIN s : IsDefault(s[k])}
  <2>1. Cascade(s, DOMAIN s)[p] = Select(all, {}) /\ Chain(s, DOMAIN s)[p] = Select(cases, defaults)
    BY DEF Cascade, Chain
  <2>2. all = cases \cup defaults
    BY DEF IsDefault, Matches
  <2>3. defaults \subseteq {Len(s)}
    OBVIOUS
  <2>4. all \subseteq 1..Len(s) /\ cases \subseteq 1..Len(s) /\ defaults \subseteq 1..Len(s)
    BY <1>1
  <2> HIDE DEF all, cases, defaults
  <2>5. CASE cases # {}
    <3>1. First(cases) \in cases /\ \A j \in cases : First(cases) <= j
      BY <1>1, <2>4, <2>5, FirstOne
    <3>2. First(all) \in all /\ \A j \in all : First(all) <= j
      BY <1>1, <2>2, <2>4, <2>5, FirstOne
    <3>3. \A j \in all : j \in 1..Len(s)
      BY <2>4
    <3>4. First(cases) \in 1..Len(s) /\ First(all) \in 1..Len(s)
      BY <2>2, <3>1, <3>2, <3>3
    <3>5. First(all) <= First(cases)
      BY <2>2, <3>1, <3>2
    <3>6. First(cases) <= First(all)
      BY <1>1, <2>2, <2>3, <3>1, <3>2, <3>4
    <3>7. First(all) = First(cases)
      BY <3>4, <3>5, <3>6
    <3> QED BY <2>1, <2>2, <2>5, <3>7 DEF Select
  <2>6. CASE cases = {} /\ defaults # {}
    <3>1. all = {Len(s)} /\ defaults = {Len(s)}
      BY <2>2, <2>3, <2>6
    <3>2. First(all) \in all /\ Last(defaults) \in defaults
      BY <1>1, <2>4, <3>1, FirstOne, LastOne
    <3> QED BY <2>1, <2>6, <3>1, <3>2 DEF Select
  <2>7. CASE cases = {} /\ defaults = {}
    BY <2>1, <2>2, <2>7 DEF Select
  <2> QED BY <2>5, <2>6, <2>7
<1> QED BY <1>2 DEF Cascade, Chain

\* For single patterns and string literals every arm is a label or a default of the C
\* switch (emit_c_enum_projection, emit_c_dispatch_projection).
LEMMA SwitchOfAllArms ==
  ASSUME NEW h \in HeaderType, NEW s,
         h.context = "absent", h.invariant = "exact", h.yields # "parser_dispatch",
         \A k \in DOMAIN s : s[k].shape = "single", \A k \in DOMAIN s : IsLiteral(s[k])
  PROVE  COutput(h, s).resolve = Switch(s, DOMAIN s, DefaultLabels(s, DOMAIN s))
<1>1. SwitchArms(s) = DOMAIN s
  BY DEF SwitchArms
<1>2. CASE h.yields = "value"
  BY <1>1, <1>2 DEF COutput, CSwitch
<1>3. CASE h.yields = "dispatch"
  <2>1. {k \in DOMAIN s : IsLiteral(s[k]) /\ s[k].shape = "single"} = DOMAIN s
    OBVIOUS
  <2> QED BY <1>3, <2>1 DEF COutput, CDispatch
<1> QED BY <1>2, <1>3 DEF HeaderType

\* The patterns of no more arms than the room for names all have their room.
LEMMA RoomForMembers ==
  ASSUME NEW s \in Seq(Arm), Len(s) <= MaxCovered, NEW m \in Member,
         NEW n \in DOMAIN s, s[n].inv = m
  PROVE  m \in CoveredMembers(s)
<1> DEFINE seen == {s[j].inv : j \in 1..n} \ {Wild}
<1>1. Len(s) \in Nat /\ n \in 1..Len(s)
  OBVIOUS
<1>2. IsFiniteSet(1..n) /\ Cardinality(1..n) = n
  BY <1>1, FS_Interval
<1>3. IsFiniteSet({s[j].inv : j \in 1..n}) /\ Cardinality({s[j].inv : j \in 1..n}) <= n
  <2> DEFINE names == {s[j].inv : j \in 1..n}
             inv == [j \in 1..n |-> s[j].inv]
  <2>1. inv \in Surjection(1..n, names)
    BY DEF Surjection
  <2> HIDE DEF inv, names
  <2>2. IsFiniteSet(names) /\ Cardinality(names) <= n
    BY <1>2, <2>1, FS_Surjection
  <2> QED BY <2>2 DEF names
<1>4. IsFiniteSet(seen) /\ Cardinality(seen) <= Cardinality({s[j].inv : j \in 1..n})
  BY <1>3, FS_Subset
<1>5. Cardinality(seen) \in Nat /\ Cardinality({s[j].inv : j \in 1..n}) \in Nat
  BY <1>3, <1>4, FS_CardinalityType
<1> HIDE DEF seen
<1>6. Cardinality(seen) <= MaxCovered
  BY <1>1, <1>3, <1>4, <1>5, BoundsAssumption
<1> QED BY <1>6 DEF CoveredMembers, seen

\* The pairs of no more arms than the room for pairs all have their room.
LEMMA RoomForPairs ==
  ASSUME NEW s \in Seq(Arm), Len(s) <= MaxPairs,
         NEW n \in DOMAIN s, s[n].shape = "pair"
  PROVE  <<s[n].inv, s[n].ctx>> \in ArmPairs(s)
<1> DEFINE before == {j \in 1..n : s[j].shape = "pair"}
<1>1. Len(s) \in Nat /\ n \in 1..Len(s)
  OBVIOUS
<1>2. IsFiniteSet(1..n) /\ Cardinality(1..n) = n
  BY <1>1, FS_Interval
<1>3. IsFiniteSet(before) /\ Cardinality(before) <= n
  BY <1>2, FS_Subset
<1>4. Cardinality(before) \in Nat
  BY <1>3, FS_CardinalityType
<1> HIDE DEF before
<1>5. Cardinality(before) <= MaxPairs
  BY <1>1, <1>3, <1>4, BoundsAssumption
<1> QED BY <1>5 DEF ArmPairs, before

------------------------------------------------------------------------------
(* The theorems *)

\* A projection over two declared dimensions for which code is generated yields an arm
\* for every pair (check_cross_product against the three emitters).
LEMMA CrossTotal ==
  ASSUME Inv, phase = "emitted", header.invariant # "undeclared"
  PROVE  CrossIsTotal
<1> SUFFICES ASSUME header.context = "declared"
             PROVE  /\ Total("ts")
                    /\ AllLiteral => \A t \in {"c", "sql"} : outputs[t].valid => Total(t)
  BY DEF CrossIsTotal
<1>1. header \in HeaderType /\ arms \in Seq(Arm) /\ ~HasErrors(Diagnostics(header, arms))
  BY HeadersAssumption DEF Inv
<1>2. outputs["ts"].resolve = Chain(arms, DOMAIN arms)
  BY DEF Inv, Programs, TsOutput
<1>3. outputs["c"].resolve = Chain(arms, TextArms(arms))
  BY DEF Inv, Programs, COutput, CChain
<1>4. outputs["sql"].resolve = Cascade(arms, TextArms(arms))
  BY DEF Inv, Programs, SqlOutput
<1>5. TextArms(arms) \subseteq DOMAIN arms /\ Fallback \notin DOMAIN arms
  BY <1>1 DEF TextArms, Fallback
<1>6. ASSUME NEW p \in Member \X Setting
      PROVE  \E k \in DOMAIN arms : arms[k].shape = "pair" /\ Matches(arms[k], p[1], p[2])
  BY <1>1, ReportedPairs, CoveredIsMatched
<1>7. Total("ts")
  BY <1>1, <1>2, <1>5, <1>6, ChainSelects DEF Total
<1>8. ASSUME AllLiteral PROVE Total("c") /\ Total("sql")
  <2>1. ASSUME NEW p \in Member \X Setting
        PROVE  \E k \in TextArms(arms) : Matches(arms[k], p[1], p[2])
    BY <1>6, <1>8 DEF AllLiteral, TextArms
  <2>2. Total("c")
    BY <1>1, <1>3, <1>5, <2>1, ChainSelects DEF Total
  <2>3. Total("sql")
    BY <1>1, <1>4, <1>5, <2>1, CascadeSelects DEF Total
  <2> QED BY <2>2, <2>3
<1> QED BY <1>7, <1>8

\* A projection over one dimension for which code is generated yields an arm for every
\* member (check_projection_exhaustiveness against emit_ts.c, emit_c.c and emit_asm.c).
LEMMA SingleAxisTotal ==
  ASSUME Inv, phase = "emitted", header.invariant # "undeclared"
  PROVE  SingleAxisIsTotal
<1> SUFFICES ASSUME header.context = "absent", AllSingle
             PROVE  /\ Total("ts") /\ Total("asm")
                    /\ header.invariant = "exact" /\ header.yields # "parser_dispatch"
                          /\ AllLiteral => Total("c")
  BY DEF SingleAxisIsTotal
<1>1. header \in HeaderType /\ arms \in Seq(Arm) /\ ~HasErrors(Diagnostics(header, arms))
  BY HeadersAssumption DEF Inv
<1>2. \A k \in DOMAIN arms : arms[k].shape = "single" /\ arms[k].ctx = Wild
  <2>1. ASSUME NEW k \in DOMAIN arms PROVE arms[k] \in Arm /\ arms[k].shape = "single"
    BY <1>1 DEF AllSingle
  <2> QED BY <2>1 DEF Arm
<1>3. ASSUME NEW p \in Member \X Setting
      PROVE  \E k \in DOMAIN arms : arms[k].inv \in {Wild, p[1]}
  <2>1. CASE HasWildcardArm(arms)
    BY <2>1 DEF HasWildcardArm
  <2>2. CASE ~HasWildcardArm(arms)
    <3>1. ASSUME p[1] \in MissingMembers(arms) PROVE FALSE
      <4>1. <<p[1], Wild>> \in MissingMembers(arms) \X {Wild}
        BY <3>1
      <4>2. [severity |-> "error", inv |-> p[1], ctx |-> Wild]
              \in Report("error", MissingMembers(arms) \X {Wild})
        BY <4>1 DEF Report
      <4>3. [severity |-> "error", inv |-> p[1], ctx |-> Wild] \in Diagnostics(header, arms)
        BY <2>2, <4>2 DEF InvariantAxis, Diagnostics
      <4>4. [severity |-> "error", inv |-> p[1], ctx |-> Wild].severity = "error"
        OBVIOUS
      <4> QED BY <1>1, <4>3, <4>4 DEF HasErrors
    <3>2. p[1] \in CoveredMembers(arms)
      BY <3>1 DEF MissingMembers
    <3> QED BY <3>2 DEF CoveredMembers
  <2> QED BY <2>1, <2>2
<1>4. \A p \in Member \X Setting : \E k \in DOMAIN arms : Matches(arms[k], p[1], p[2])
  BY <1>2, <1>3 DEF Matches
<1>5. Fallback \notin DOMAIN arms
  BY <1>1 DEF Fallback
<1>6. Total("ts")
  <2>1. outputs["ts"].resolve = Chain(arms, DOMAIN arms)
    BY DEF Inv, Programs, TsOutput
  <2> QED BY <1>1, <1>4, <1>5, <2>1, ChainSelects DEF Total
<1>7. Total("asm")
  <2>1. outputs["asm"].resolve = Cascade(arms, DOMAIN arms)
    BY DEF Inv, Programs, AsmOutput
  <2> QED BY <1>1, <1>4, <1>5, <2>1, CascadeSelects DEF Total
<1>8. ASSUME header.invariant = "exact", header.yields # "parser_dispatch", AllLiteral
      PROVE  Total("c")
  <2>1. outputs["c"].resolve = Switch(arms, DOMAIN arms, DefaultLabels(arms, DOMAIN arms))
    <3>1. outputs["c"] = COutput(header, arms)
      BY DEF Inv, Programs
    <3>2. \A k \in DOMAIN arms : IsLiteral(arms[k])
      BY <1>8 DEF AllLiteral
    <3> QED BY <1>1, <1>2, <1>8, <3>1, <3>2, SwitchOfAllArms
  <2>2. ASSUME NEW p \in Member \X Setting PROVE outputs["c"].resolve[p] # Fallback
    <3> DEFINE cases == {k \in Labels(arms, DOMAIN arms) : arms[k].inv = p[1]}
               defaults == DefaultLabels(arms, DOMAIN arms)
    <3>1. cases \subseteq DOMAIN arms /\ defaults \subseteq DOMAIN arms
      BY DEF Labels, DefaultLabels
    <3>2. cases # {} \/ defaults # {}
      <4>1. PICK k \in DOMAIN arms : arms[k].inv \in {Wild, p[1]}
        BY <1>3
      <4>2. CASE arms[k].inv = Wild
        BY <4>2 DEF DefaultLabels
      <4>3. CASE arms[k].inv # Wild
        <5>1. k \in cases
          BY <4>1, <4>3 DEF Labels
        <5> QED BY <5>1
      <4> QED BY <4>2, <4>3
    <3>3. outputs["c"].resolve[p] = Select(cases, defaults)
      BY <2>1 DEF Switch
    <3>4. Len(arms) \in Nat /\ DOMAIN arms = 1..Len(arms)
      BY <1>1
    <3>5. Select(cases, defaults) \in DOMAIN arms
      <4> HIDE DEF cases, defaults
      <4> QED BY <3>1, <3>2, <3>4, Selection
    <3> QED BY <1>5, <3>3, <3>5
  <2> QED BY <2>2 DEF Total
<1> QED BY <1>6, <1>7, <1>8

\* A projection over declared dimensions for which code is generated yields an arm for
\* every member or pair (exhaustcheck.c against the emitters).
THEOREM AcceptedIsTotal == Spec => []CheckedIsTotal
<1>1. Inv => CheckedIsTotal
  BY CrossTotal, SingleAxisTotal DEF CheckedIsTotal
<1> QED BY <1>1, Invariance, PTL

\* No pair and no member is left to a default arm without a note or a warning
\* (check_cross_product, check_projection_exhaustiveness against emit_ts.c).
THEOREM DefaultsAnnounced == Spec => []DefaultsAreAnnounced
<1>1. Inv => DefaultsAreAnnounced
  <2> SUFFICES ASSUME Inv, phase = "emitted", header.invariant # "undeclared",
                      NEW p \in Member \X Setting,
                      outputs["ts"].resolve[p] # Fallback,
                      IsDefault(arms[outputs["ts"].resolve[p]])
               PROVE  /\ header.context = "declared" =>
                           [severity |-> "note", inv |-> p[1], ctx |-> p[2]] \in diags
                      /\ AllSingle =>
                           [severity |-> "warning", inv |-> p[1], ctx |-> Wild] \in diags
    BY DEF DefaultsAreAnnounced
  <2> DEFINE chosen == Chain(arms, DOMAIN arms)[p]
  <2>1. header \in HeaderType /\ arms \in Seq(Arm) /\ ~HasErrors(Diagnostics(header, arms))
    BY HeadersAssumption DEF Inv
  <2>2. diags = Diagnostics(header, arms)
    BY DEF Inv
  <2>3. outputs["ts"].resolve[p] = chosen
    BY DEF Inv, Programs, TsOutput
  <2>4. /\ chosen \in DOMAIN arms \cup {Fallback}
        /\ \A k \in DOMAIN arms : ~IsDefault(arms[k]) /\ Matches(arms[k], p[1], p[2])
             => ~IsDefault(arms[chosen])
    BY <2>1, ChainSelects
  <2>5. chosen \in DOMAIN arms /\ IsDefault(arms[chosen])
    BY <2>3, <2>4
  <2> HIDE DEF chosen
  <2>6. \A k \in DOMAIN arms : Matches(arms[k], p[1], p[2]) => IsDefault(arms[k])
    BY <2>4, <2>5
  <2>7. ASSUME header.context = "declared"
        PROVE  [severity |-> "note", inv |-> p[1], ctx |-> p[2]] \in diags
    <3>1. CoverageLevel(p[1], p[2], ArmPairs(arms)) = 1
      BY <2>1, <2>6, <2>7, ReportedPairs, CoveredIsMatched
    <3> QED BY <2>1, <2>2, <2>7, <3>1, ReportedPairs
  <2>8. ASSUME AllSingle
        PROVE  [severity |-> "warning", inv |-> p[1], ctx |-> Wild] \in diags
    <3>1. p[1] \in Member /\ p[1] # Wild
      BY WildAssumption
    <3>2. \A k \in DOMAIN arms : arms[k].inv # p[1]
      <4>1. SUFFICES ASSUME NEW k \in DOMAIN arms, arms[k].inv = p[1] PROVE FALSE
        OBVIOUS
      <4>2. arms[k] \in Arm /\ arms[k].shape = "single"
        BY <2>1, <2>8 DEF AllSingle
      <4>3. arms[k].ctx = Wild
        BY <4>2 DEF Arm
      <4> QED BY <2>6, <3>1, <4>1, <4>3 DEF Matches, IsDefault
    <3>3. HasWildcardArm(arms)
      BY <2>5 DEF HasWildcardArm, IsDefault
    <3>4. p[1] \in MissingMembers(arms)
      BY <3>1, <3>2 DEF MissingMembers, CoveredMembers
    <3>5. [severity |-> "warning", inv |-> p[1], ctx |-> Wild] \in InvariantAxis(arms)
      <4>1. <<p[1], Wild>> \in MissingMembers(arms) \X {Wild}
        BY <3>4
      <4>2. [severity |-> "warning", inv |-> p[1], ctx |-> Wild]
              \in Report("warning", MissingMembers(arms) \X {Wild})
        BY <4>1 DEF Report
      <4> QED BY <3>3, <4>2 DEF InvariantAxis
    <3> QED BY <2>2, <3>5 DEF Diagnostics
  <2> QED BY <2>7, <2>8
<1> QED BY <1>1, Invariance, PTL

\* No false alarm: every error about a projection with patterns in pairs names inputs for
\* which no arm matches (exhaustcheck.c against emit_ts.c).
THEOREM NoFalseAlarm == Spec => []ErrorsAreGaps
<1>1. Inv => ErrorsAreGaps
  <2> SUFFICES ASSUME Inv, phase = "refused", AllPairs,
                      Len(arms) <= MaxPairs, Len(arms) <= MaxCovered,
                      NEW d \in diags, d.severity = "error",
                      NEW p \in Member \X Setting,
                      p[1] = d.inv, d.ctx \in {Wild, p[2]}
               PROVE  TsOutput(arms).resolve[p] = Fallback
    BY DEF ErrorsAreGaps
  <2>1. header \in HeaderType /\ arms \in Seq(Arm) /\ diags = Diagnostics(header, arms)
    BY HeadersAssumption DEF Inv
  <2>2. Len(arms) \in Nat /\ DOMAIN arms = 1..Len(arms)
    BY <2>1
  <2>3. p[1] \in Member /\ p[2] \in Setting /\ p[1] # Wild /\ p[2] # Wild
    BY WildAssumption
  <2>4. d \in InvariantAxis(arms) \/ d \in CrossProduct(arms)
    BY <2>1 DEF Diagnostics
  <2>5. CASE d \in InvariantAxis(arms)
    <3>1. ~HasWildcardArm(arms) /\ d.inv \in MissingMembers(arms)
      BY <2>5 DEF InvariantAxis, Report
    <3>2. \A k \in DOMAIN arms : arms[k].inv # p[1]
      BY <2>1, <2>3, <3>1, RoomForMembers DEF MissingMembers
    <3>3. \A k \in DOMAIN arms : arms[k].inv # Wild
      BY <3>1 DEF HasWildcardArm
    <3>4. \A k \in DOMAIN arms : ~Matches(arms[k], p[1], p[2])
      BY <3>2, <3>3 DEF Matches
    <3> QED BY <2>1, <3>4, ChainFallsThrough DEF TsOutput
  <2>6. CASE d \in CrossProduct(arms)
    <3>1. d \in Report("error", AtLevel(0, arms))
      BY <2>6 DEF CrossProduct, Report
    <3>2. d.ctx \in Setting /\ <<d.inv, d.ctx>> \in AtLevel(0, arms)
      BY <3>1 DEF Report, AtLevel
    <3>3. d.ctx = p[2]
      BY <3>2, WildAssumption
    <3>4. CoverageLevel(p[1], p[2], ArmPairs(arms)) = 0
      BY <3>2, <3>3 DEF AtLevel
    <3>5. {<<p[1], p[2]>>, <<p[1], Wild>>, <<Wild, p[2]>>, <<Wild, Wild>>} \cap ArmPairs(arms) = {}
      BY <3>4 DEF CoverageLevel
    <3>6. ASSUME NEW k \in DOMAIN arms PROVE ~Matches(arms[k], p[1], p[2])
      <4>1. <<arms[k].inv, arms[k].ctx>> \in ArmPairs(arms)
        BY <2>1, RoomForPairs DEF AllPairs
      <4> QED BY <3>5, <4>1 DEF Matches
    <3> QED BY <2>1, <3>6, ChainFallsThrough DEF TsOutput
  <2> QED BY <2>4, <2>5, <2>6
<1> QED BY <1>1, Invariance, PTL

\* The valid programs of the targets resolve every input to the same arm when the default
\* is the last arm and the bodies are string literals (emit_ts.c, emit_c.c, emit_sql.c,
\* emit_asm.c).
THEOREM EmittersAgree == Spec => []TargetsAgree
<1>1. Inv => TargetsAgree
  <2> SUFFICES ASSUME Inv, phase = "emitted", AllLiteral, DefaultIsLast
               PROVE  \A t, u \in {v \in Targets : outputs[v].valid} :
                        \/ header.context # "absent" /\ AllPairs /\ "asm" \notin {t, u}
                        \/ /\ header.context = "absent" /\ AllSingle /\ "sql" \notin {t, u}
                           /\ header.invariant = "exact" /\ header.yields # "parser_dispatch"
                        => outputs[t].resolve = outputs[u].resolve
    BY DEF TargetsAgree
  <2>1. header \in HeaderType /\ arms \in Seq(Arm)
    BY HeadersAssumption DEF Inv
  <2>2. outputs["ts"].resolve = Chain(arms, DOMAIN arms)
    BY DEF Inv, Programs, TsOutput
  <2>3. Cascade(arms, DOMAIN arms) = Chain(arms, DOMAIN arms)
    BY <2>1, LastDefaultCascades DEF DefaultIsLast
  <2>4. ASSUME header.context # "absent", AllPairs
        PROVE  /\ outputs["c"].resolve = outputs["ts"].resolve
               /\ outputs["sql"].resolve = outputs["ts"].resolve
    <3>1. TextArms(arms) = DOMAIN arms
      BY <2>4 DEF AllLiteral, AllPairs, TextArms
    <3>2. outputs["c"].resolve = Chain(arms, DOMAIN arms)
      BY <2>4, <3>1 DEF Inv, Programs, COutput, CChain
    <3>3. outputs["sql"].resolve = Cascade(arms, DOMAIN arms)
      BY <3>1 DEF Inv, Programs, SqlOutput
    <3> QED BY <2>2, <2>3, <3>2, <3>3
  <2>5. ASSUME header.context = "absent", AllSingle, header.invariant = "exact",
               header.yields # "parser_dispatch"
        PROVE  /\ outputs["c"].resolve = outputs["ts"].resolve
               /\ outputs["asm"].resolve = outputs["ts"].resolve
    <3>1. \A k \in DOMAIN arms : arms[k] \in Arm /\ arms[k].shape = "single"
      BY <2>1, <2>5 DEF AllSingle
    <3>2. \A k \in DOMAIN arms : arms[k].ctx = Wild
      BY <3>1 DEF Arm
    <3>3. outputs["c"].resolve = Switch(arms, DOMAIN arms, DefaultLabels(arms, DOMAIN arms))
      <4>1. outputs["c"] = COutput(header, arms)
        BY DEF Inv, Programs
      <4>2. \A k \in DOMAIN arms : IsLiteral(arms[k])
        BY DEF AllLiteral
      <4> QED BY <2>1, <2>5, <3>1, <4>1, <4>2, SwitchOfAllArms
    <3>4. Switch(arms, DOMAIN arms, DefaultLabels(arms, DOMAIN arms)) = Chain(arms, DOMAIN arms)
      <4>1. ASSUME NEW p \in Member \X Setting
            PROVE  /\ {k \in Labels(arms, DOMAIN arms) : arms[k].inv = p[1]}
                      = {k \in DOMAIN arms : ~IsDefault(arms[k]) /\ Matches(arms[k], p[1], p[2])}
                   /\ DefaultLabels(arms, DOMAIN arms) = {k \in DOMAIN arms : IsDefault(arms[k])}
        BY <3>2, WildAssumption DEF Labels, DefaultLabels, IsDefault, Matches
      <4> QED BY <4>1 DEF Switch, Chain
    <3>5. outputs["asm"].resolve = Cascade(arms, DOMAIN arms)
      BY DEF Inv, Programs, AsmOutput
    <3> QED BY <2>2, <2>3, <3>3, <3>4, <3>5
  <2> QED BY <2>4, <2>5 DEF Targets
<1> QED BY <1>1, Invariance, PTL

------------------------------------------------------------------------------
(* Types *)

\* Every selecting function maps the inputs to arm numbers or the fallback.
LEMMA ProgramTypes ==
  ASSUME NEW s \in Seq(Arm), NEW ks \in SUBSET (DOMAIN s), NEW ds \in SUBSET (DOMAIN s)
  PROVE  /\ Chain(s, ks) \in [Member \X Setting -> 0..Len(s)]
         /\ Cascade(s, ks) \in [Member \X Setting -> 0..Len(s)]
         /\ Switch(s, ks, ds) \in [Member \X Setting -> 0..Len(s)]
<1>1. Len(s) \in Nat /\ DOMAIN s = 1..Len(s)
  OBVIOUS
<1>2. ks \cup {Fallback} \subseteq 0..Len(s) /\ ds \cup {Fallback} \subseteq 0..Len(s)
  BY <1>1 DEF Fallback
<1>3. \A p \in Member \X Setting : Chain(s, ks)[p] \in 0..Len(s)
  BY <1>2, ChainSelects
<1>4. \A p \in Member \X Setting : Cascade(s, ks)[p] \in 0..Len(s)
  BY <1>2, CascadeSelects
<1>5. ASSUME NEW p \in Member \X Setting PROVE Switch(s, ks, ds)[p] \in 0..Len(s)
  <2> DEFINE cases == {k \in Labels(s, ks) : s[k].inv = p[1]}
  <2>1. cases \subseteq ks /\ cases \subseteq 1..Len(s) /\ ds \subseteq 1..Len(s)
    BY <1>1 DEF Labels
  <2>2. Switch(s, ks, ds)[p] = Select(cases, ds)
    BY DEF Switch
  <2> HIDE DEF cases
  <2>3. Select(cases, ds) \in cases \cup ds \cup {Fallback}
    BY <1>1, <2>1, Selection
  <2> QED BY <1>2, <2>1, <2>2, <2>3
<1> QED BY <1>3, <1>4, <1>5 DEF Chain, Cascade, Switch

\* The reports are diagnostics about patterns of the dimensions (exhaustcheck).
LEMMA DiagnosticTypes ==
  ASSUME NEW h, NEW s
  PROVE  Diagnostics(h, s) \subseteq Diagnostic
<1>1. ASSUME NEW severity \in {"error", "warning", "note"},
             NEW pairs \in SUBSET ((Member \cup {Wild}) \X (Setting \cup {Wild}))
      PROVE  Report(severity, pairs) \subseteq Diagnostic
  BY DEF Report, Diagnostic
<1>2. InvariantAxis(s) \subseteq Diagnostic
  <2>1. MissingMembers(s) \X {Wild} \in SUBSET ((Member \cup {Wild}) \X (Setting \cup {Wild}))
    BY DEF MissingMembers
  <2>2. {<<Wild, Wild>>} \in SUBSET ((Member \cup {Wild}) \X (Setting \cup {Wild}))
    OBVIOUS
  <2> QED BY <1>1, <2>1, <2>2 DEF InvariantAxis
<1>3. CrossProduct(s) \subseteq Diagnostic
  <2>1. \A level : AtLevel(level, s) \in SUBSET ((Member \cup {Wild}) \X (Setting \cup {Wild}))
    BY DEF AtLevel
  <2> QED BY <1>1, <2>1 DEF CrossProduct
<1> QED BY <1>2, <1>3 DEF Diagnostics

\* The state of the compiler has its type in every step (main.c, exhaustcheck.c).
THEOREM TypeCorrect == Spec => []TypeOK
<1>1. Inv => TypeOK
  <2> SUFFICES ASSUME Inv PROVE TypeOK
    OBVIOUS
  <2>1. header \in HeaderType /\ arms \in Seq(Arm)
    BY HeadersAssumption DEF Inv
  <2>2. diags \subseteq Diagnostic
    BY DiagnosticTypes DEF Inv
  <2>3. ASSUME phase = "emitted"
        PROVE  /\ DOMAIN outputs = Targets
               /\ \A t \in Targets : outputs[t] \in
                    [valid : BOOLEAN, resolve : [Member \X Setting -> 0..Len(arms)]]
    <3>1. outputs = Programs(header, arms)
      BY <2>3 DEF Inv
    <3> DEFINE Program == [valid : BOOLEAN, resolve : [Member \X Setting -> 0..Len(arms)]]
    <3>2. TsOutput(arms) \in Program
      BY <2>1, ProgramTypes DEF TsOutput
    <3>3. TextArms(arms) \subseteq DOMAIN arms
      BY DEF TextArms
    <3>4. SqlOutput(header, arms) \in Program
      BY <2>1, <3>3, ProgramTypes DEF SqlOutput
    <3>5. CChain(header, arms) \in Program
      BY <2>1, <3>3, ProgramTypes DEF CChain, NoContextRead
    <3>6. CSwitch(arms) \in Program
      <4>1. SwitchArms(arms) \subseteq DOMAIN arms
        BY DEF SwitchArms
      <4>2. DefaultLabels(arms, SwitchArms(arms)) \subseteq DOMAIN arms
        BY <4>1 DEF DefaultLabels
      <4> QED BY <2>1, <4>1, <4>2, ProgramTypes DEF CSwitch
    <3>7. CDispatch(header, arms) \in Program
      <4> DEFINE ks == {k \in DOMAIN arms : IsLiteral(arms[k]) /\ arms[k].shape = "single"}
                 ds == IF header.yields = "dispatch" THEN DefaultLabels(arms, ks) ELSE {}
      <4>1. ks \subseteq DOMAIN arms /\ ds \subseteq DOMAIN arms
        BY DEF DefaultLabels
      <4>2. CDispatch(header, arms)
              = [valid |-> LabelsDiffer(arms, ks), resolve |-> Switch(arms, ks, ds)]
        BY DEF CDispatch
      <4>3. LabelsDiffer(arms, ks) \in BOOLEAN
        BY DEF LabelsDiffer
      <4> HIDE DEF ks, ds
      <4>4. Switch(arms, ks, ds) \in [Member \X Setting -> 0..Len(arms)]
        BY <2>1, <4>1, ProgramTypes
      <4> QED BY <4>2, <4>3, <4>4
    <3>8. COutput(header, arms) \in Program
      BY <3>5, <3>6, <3>7 DEF COutput
    <3>9. AsmOutput(arms) \in Program
      BY <2>1, ProgramTypes DEF AsmOutput
    <3> HIDE DEF Program
    <3>10. \A t \in Targets : outputs[t] \in Program
      BY <3>1, <3>2, <3>4, <3>8, <3>9 DEF Programs, Targets
    <3>11. DOMAIN outputs = Targets
      BY <3>1 DEF Programs, Targets
    <3> QED BY <3>10, <3>11 DEF Program
  <2>4. ASSUME phase # "emitted" PROVE DOMAIN outputs = {}
    BY <2>4 DEF Inv
  <2> QED BY <2>1, <2>2, <2>3, <2>4 DEF Inv, TypeOK
<1> QED BY <1>1, Invariance, PTL

==============================================================================

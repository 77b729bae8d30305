-------------------------- MODULE DeclarationsProofs --------------------------
(****************************************************************************)
(* What names mean, for programs of any length over any names.              *)
(*                                                                          *)
(* The passes run over a program that kindcheck completes one declaration   *)
(* at a time and that nothing changes afterwards, so the invariants say for *)
(* each pass what has been reported when the passes before it are done.     *)
(* The rest is about searches: two searches of one set of declarations find *)
(* something together, and the same when there is only one to find.         *)
(****************************************************************************)
EXTENDS Declarations, WellFoundedInduction, TLAPS

\* Every kind of declaration keeps its shape when its kind is inferred.
LEMMA WithKindType ==
  ASSUME NEW d \in Declaration
  PROVE  WithKind(d) \in Declaration /\ WithKind(d).name = d.name
         /\ WithKind(d).kind \in Kind \ {"none"} /\ d.name \in Name
<1> DEFINE k == InferKind(d.type)
<1>1. k \in Kind \ {"none"}
  BY DEF InferKind, Kind
<1> HIDE DEF k
<1>2. CASE d \in [type : {"unit"}, name : Name, kind : Kind]
  BY <1>1, <1>2 DEF WithKind, Declaration, k
<1>3. CASE d \in [type : {"dimension"}, name : Name, kind : Kind,
                  form : {"enum", "list"}, members : SUBSET Name]
  BY <1>1, <1>3 DEF WithKind, Declaration, k
<1>4. CASE d \in [type : {"perpendicular"}, name : Name, kind : Kind, names : Seq(Name)]
  BY <1>1, <1>4 DEF WithKind, Declaration, k
<1>5. CASE d \in [type : {"projection"}, name : Name, kind : Kind, invariant : Name, value : Name]
  BY <1>1, <1>5 DEF WithKind, Declaration, k
<1>6. CASE d \in [type : {"kinded_value"}, name : Name, kind : Kind \ {"none"}, body : Expr]
  BY <1>1, <1>6 DEF WithKind, Declaration, k
<1>7. CASE d \in [type : ExecType, name : Name, kind : Kind, params : Seq(Name),
                  annotation : Annotation, body : Expr]
  BY <1>1, <1>7 DEF WithKind, Declaration, k
<1>8. CASE d \in [type : {"traversal"}, name : Name, kind : Kind, sections : SUBSET Kind]
  BY <1>1, <1>8 DEF WithKind, Declaration, k
<1> QED BY <1>2, <1>3, <1>4, <1>5, <1>6, <1>7, <1>8 DEF Declaration

\* A search finds something if there is something, and then the first of it.
LEMMA FirstFound ==
  ASSUME NEW S \in SUBSET (Nat \ {0})
  PROVE  /\ S = {} => First(S) = 0
         /\ S # {} => First(S) \in S /\ First(S) # 0 /\ \A j \in S : First(S) <= j
<1>1. CASE S = {}
  BY <1>1 DEF First
<1>2. CASE S # {}
  <2>1. PICK i \in S : \A j \in S : ~(j < i)
    <3>1. IsWellFoundedOn(OpToRel(<, Nat), Nat)
      BY NatLessThanWellFounded
    <3>2. PICK i \in S : \A j \in S : ~(<<j, i>> \in OpToRel(<, Nat))
      BY <1>2, <3>1, WFMin
    <3> QED BY <3>2 DEF OpToRel
  <2>2. \A j \in S : i <= j
    BY <2>1
  <2> QED BY <1>2, <2>1, <2>2 DEF First
<1> QED BY <1>1, <1>2

\* Everything that is visible is somewhere among the positions 1, 2, ...
LEMMA VisibleFacts ==
  ASSUME TypeOK
  PROVE  /\ Visible \in Seq(Declaration)
         /\ Len(Visible) = Len(imported) + Len(locals)
         /\ DOMAIN Visible = 1..(Len(imported) + Len(locals))
         /\ Len(imported) \in Nat /\ Len(locals) \in Nat
         /\ Dimensions \in SUBSET (Nat \ {0})
         /\ \A i \in DOMAIN Visible : Visible[i] \in Declaration /\ Visible[i].name \in Name
<1>1. /\ Visible \in Seq(Declaration)
      /\ Len(Visible) = Len(imported) + Len(locals)
      /\ Len(imported) \in Nat /\ Len(locals) \in Nat
  BY DEF TypeOK, Visible
<1>2. DOMAIN Visible = 1..(Len(imported) + Len(locals))
  BY <1>1
<1>3. Dimensions \in SUBSET (Nat \ {0})
  BY <1>1, <1>2 DEF Dimensions
<1> QED BY <1>1, <1>2, <1>3, WithKindType

------------------------------------------------------------------------------
(* Dimension lookups *)

\* The three tries of dim_registry_find together accept the forms that semcheck.c and
\* emit_ts.c compare with.
LEMMA FormsAreTheTries ==
  ASSUME NEW q \in Name, NEW n \in Name
  PROVE  n \in Forms(q) <=> n = q \/ n = Plural(q) \/ (n[1] = q[1] /\ Plural(n) = q)
<1>1. PICK s \in Stem, k \in 0..MaxPlural : q = <<s, k>>
  BY DEF Name
<1>2. PICK t \in Stem, m \in 0..MaxPlural : n = <<t, m>>
  BY DEF Name
<1>3. k \in Nat /\ m \in Nat
  BY <1>1, <1>2, BoundsAssumption
<1>4. n \in Forms(q) <=> t = s /\ m <= k + 1 /\ k <= m + 1
  BY <1>1, <1>2 DEF Forms
<1>5. /\ n = q <=> t = s /\ m = k
      /\ n = Plural(q) <=> t = s /\ m = k + 1
      /\ n[1] = q[1] /\ Plural(n) = q <=> t = s /\ m + 1 = k
  BY <1>1, <1>2 DEF Plural
<1>6. m <= k + 1 /\ k <= m + 1 <=> m = k \/ m = k + 1 \/ m + 1 = k
  BY <1>3
<1> QED BY <1>4, <1>5, <1>6

\* What each of the three lookups returns.
LEMMA Lookups ==
  ASSUME TypeOK, NEW q \in Name
  PROVE  LET matches == {i \in Dimensions : Visible[i].name \in Forms(q)}
         IN  /\ matches = {} <=> RegistryFind(q) = 0
             /\ matches = {} <=> DeclarationFind(q) = 0
             /\ matches # {} => RegistryFind(q) \in matches /\ DeclarationFind(q) \in matches
             /\ CFind(q) # 0 => /\ CFind(q) \in matches
                                /\ RegistryFind(q) # 0
                                /\ Visible[RegistryFind(q)].name = q
<1> DEFINE matches == {i \in Dimensions : Visible[i].name \in Forms(q)}
<1>1. /\ Dimensions \in SUBSET (Nat \ {0})
      /\ \A i \in Dimensions : Visible[i].name \in Name
  BY VisibleFacts DEF Dimensions
<1>2. matches = Named(q) \cup Named(Plural(q)) \cup WithoutS(q)
  <2>1. \A i \in Dimensions : Visible[i].name \in Forms(q) <=>
          \/ Visible[i].name = q
          \/ Visible[i].name = Plural(q)
          \/ Visible[i].name[1] = q[1] /\ Plural(Visible[i].name) = q
    BY <1>1, FormsAreTheTries
  <2> QED BY <2>1 DEF Named, WithoutS
<1>3. /\ Named(q) \in SUBSET (Nat \ {0})
      /\ Named(Plural(q)) \in SUBSET (Nat \ {0})
      /\ WithoutS(q) \in SUBSET (Nat \ {0})
      /\ matches \in SUBSET (Nat \ {0})
  BY <1>1 DEF Named, WithoutS
<1>4. /\ matches = {} => RegistryFind(q) = 0
      /\ matches # {} => RegistryFind(q) # 0 /\ RegistryFind(q) \in matches
  <2> HIDE DEF matches
  <2> QED BY <1>2, <1>3, FirstFound DEF RegistryFind
<1>5. /\ matches = {} => DeclarationFind(q) = 0
      /\ matches # {} => DeclarationFind(q) # 0 /\ DeclarationFind(q) \in matches
  <2>1. DeclarationFind(q) = IF matches \cap Local # {} THEN First(matches \cap Local)
                             ELSE First(matches)
    BY DEF DeclarationFind
  <2> HIDE DEF matches
  <2>2. matches \cap Local \in SUBSET (Nat \ {0})
    BY <1>3
  <2> QED BY <1>3, <2>1, <2>2, FirstFound
<1>6. CFind(q) # 0 => /\ CFind(q) \in matches
                      /\ RegistryFind(q) # 0
                      /\ Visible[RegistryFind(q)].name = q
  <2> SUFFICES ASSUME CFind(q) # 0
               PROVE  /\ CFind(q) \in Named(q)
                      /\ RegistryFind(q) # 0
                      /\ RegistryFind(q) \in Named(q)
    BY <1>2 DEF Named
  <2> DEFINE C == {i \in Named(q) :
                     /\ CRegistered(i)
                     /\ Cardinality({j \in 1..(i - 1) : CRegistered(j)}) < MaxDims}
  <2>1. C \subseteq Named(q) /\ CFind(q) = First(C)
    BY DEF CFind
  <2>2. C \in SUBSET (Nat \ {0})
    BY <1>3, <2>1
  <2> HIDE DEF C
  <2>3. CFind(q) \in C
    BY <2>1, <2>2, FirstFound
  <2> QED BY <1>3, <2>1, <2>3, FirstFound DEF RegistryFind
<1> QED BY <1>4, <1>5, <1>6

\* However many dimensions are imported and declared, the checkers, the TypeScript
\* emitter and the C emitter look up the same one unless the names are ambiguous.
LEMMA LookupAgreement == TypeOK => LookupsAgree
<1> SUFFICES ASSUME TypeOK, NEW q \in Name
             PROVE  /\ RegistryFind(q) = 0 <=> DeclarationFind(q) = 0
                    /\ CFind(q) # 0 => RegistryFind(q) # 0 /\ Visible[RegistryFind(q)].name = q
                    /\ (\A i, j \in Dimensions :
                          Visible[i].name \in Forms(q) /\ Visible[j].name \in Forms(q) => i = j)
                       => RegistryFind(q) = DeclarationFind(q)
                          /\ CFind(q) \in {0, RegistryFind(q)}
  BY DEF LookupsAgree
<1> DEFINE matches == {i \in Dimensions : Visible[i].name \in Forms(q)}
<1>1. /\ matches = {} <=> RegistryFind(q) = 0
      /\ matches = {} <=> DeclarationFind(q) = 0
      /\ matches # {} => RegistryFind(q) \in matches /\ DeclarationFind(q) \in matches
      /\ CFind(q) # 0 => /\ CFind(q) \in matches
                         /\ RegistryFind(q) # 0
                         /\ Visible[RegistryFind(q)].name = q
  BY Lookups
<1>2. ASSUME \A i, j \in Dimensions :
               Visible[i].name \in Forms(q) /\ Visible[j].name \in Forms(q) => i = j
      PROVE  RegistryFind(q) = DeclarationFind(q) /\ CFind(q) \in {0, RegistryFind(q)}
  <2>1. \A i, j \in matches : i = j
    BY <1>2
  <2> HIDE DEF matches
  <2> QED BY <1>1, <2>1
<1> QED BY <1>1, <1>2

------------------------------------------------------------------------------
(* The passes *)

\* A value is confused if the first declaration of the name up to it is of kind zeta.
FirstNamed(i) == First({k \in 1..i : Visible[k].name = Visible[i].body.left})

ConfusedAt(i) ==
  /\ Visible[i].type = "kinded_value"
  /\ Visible[i].kind \in {"xi", "rk"}
  /\ Visible[i].body.form = "ident"
  /\ Visible[i].body.within \in KindWalk
  /\ FirstNamed(i) # 0
  /\ Visible[FirstNamed(i)].kind = "zeta"

Started ==
  /\ pass = "parse" => diags = {} /\ next = 1
  /\ \A k \in DOMAIN imported : imported[k].kind # "none"

\* kindcheck knows the names of the declarations it has seen and has judged those.
KindsSoFar ==
  /\ pass = "kind" => table = [k \in 1..(Len(imported) + next - 1) |-> Entry(Visible[k])]
  /\ \A i : Reported("scope_confusion", i) <=>
              i \in Local /\ i < Len(imported) + next /\ ConfusedAt(i)
  /\ pass \notin {"parse", "kind"} => next = Len(locals) + 1

\* Before a pass nothing has been reported in its category, and afterwards what it found.
ReportedBy(before, category, found) ==
  \A i : Reported(category, i) <=> pass \notin before /\ i \in found

Crossing == {i \in Comparisons : Crosses(Visible[i].body)}
BadCalls == {i \in Calls(TypeWalk) : WrongArity(i, ExecType)}
BadMeihuaCalls == {i \in MeihuaCalls : WrongArity(i, {"meihua"})}

PassesSoFar ==
  /\ ReportedBy({"parse", "kind", "type"}, "arity_mismatch", BadCalls)
  /\ ReportedBy({"parse", "kind", "type", "perp"}, "perpendicular_cross", Crossing)
  /\ ReportedBy({"parse", "kind", "type", "perp", "exhaust"}, "meihua_arity", BadMeihuaCalls)

Inv == TypeOK /\ Started /\ KindsSoFar /\ PassesSoFar

\* What is visible, and so what the passes find, depends on the declarations alone.
LEMMA SameProgram ==
  ASSUME imported' = imported, locals' = locals
  PROVE  /\ Visible' = Visible
         /\ Local' = Local
         /\ Crossing' = Crossing
         /\ BadCalls' = BadCalls
         /\ BadMeihuaCalls' = BadMeihuaCalls
         /\ \A i : ConfusedAt(i)' <=> ConfusedAt(i)
         /\ UnknownTypes' = UnknownTypes
<1>1. Visible' = Visible /\ Local' = Local
  BY DEF Visible, Local, IsLocal
<1>2. Crossing' = Crossing
  BY <1>1 DEF Crossing, Comparisons, Crosses, FindDim, Spans, Dimensions, ArePerpendicular,
              Perpendiculars, First
<1>3. \A t, name : FindExec(t, name)' = FindExec(t, name)
  BY <1>1 DEF FindExec, First
<1>4. BadCalls' = BadCalls /\ BadMeihuaCalls' = BadMeihuaCalls
  BY <1>1, <1>3 DEF BadCalls, BadMeihuaCalls, MeihuaCalls, Calls, WrongArity
<1>5. \A i : ConfusedAt(i)' <=> ConfusedAt(i)
  BY <1>1 DEF ConfusedAt, FirstNamed, First
<1>6. UnknownTypes' = UnknownTypes
  BY <1>1 DEF UnknownTypes, DeclaredTypes
<1> QED BY <1>1, <1>2, <1>4, <1>5, <1>6

\* The reports of a pass concern visible declarations.
LEMMA PassReports ==
  ASSUME TypeOK
  PROVE  /\ Report("unknown_type", UnknownTypes) \cup Report("arity_mismatch", BadCalls)
              \in SUBSET [category : Category, at : DOMAIN Visible]
         /\ Report("perpendicular_cross", Crossing)
              \in SUBSET [category : Category, at : DOMAIN Visible]
         /\ Report("unknown_function", UnknownFunctions)
              \cup Report("meihua_arity", BadMeihuaCalls)
              \cup Report("undefined_identifier", UndefinedIdentifiers)
              \in SUBSET [category : Category, at : DOMAIN Visible]
         /\ Report("not_a_member", Mismatches)
              \in SUBSET [category : Category, at : DOMAIN Visible]
<1>1. \A c \in Category, S \in SUBSET DOMAIN Visible :
        Report(c, S) \in SUBSET [category : Category, at : DOMAIN Visible]
  BY DEF Report
<1>2. /\ UnknownTypes \in SUBSET DOMAIN Visible
      /\ BadCalls \in SUBSET DOMAIN Visible
      /\ Crossing \in SUBSET DOMAIN Visible
      /\ UnknownFunctions \in SUBSET DOMAIN Visible
      /\ BadMeihuaCalls \in SUBSET DOMAIN Visible
      /\ UndefinedIdentifiers \in SUBSET DOMAIN Visible
      /\ Mismatches \in SUBSET DOMAIN Visible
  BY DEF UnknownTypes, BadCalls, Crossing, UnknownFunctions, BadMeihuaCalls,
         UndefinedIdentifiers, Mismatches, MeihuaCalls, Calls, Comparisons, Local
<1>3. {"unknown_type", "arity_mismatch", "perpendicular_cross", "unknown_function",
       "meihua_arity", "undefined_identifier", "not_a_member"} \subseteq Category
  BY DEF Category
<1> QED BY <1>1, <1>2, <1>3

\* One turn of the loop of kindcheck completes one declaration and judges it by those
\* up to it.
LEMMA CheckKindKeeps ==
  ASSUME Inv, CheckKind
  PROVE  Inv'
<1> SUFFICES ASSUME NEW CONSTANT d, d = WithKind(locals[next]),
                    NEW CONSTANT t, t = Append(table, Entry(d)),
                    NEW CONSTANT at, at = Len(imported) + next
             PROVE  Inv'
  OBVIOUS
<1>1. /\ next \in Nat \ {0} /\ next <= Len(locals)
      /\ Len(imported) \in Nat /\ Len(locals) \in Nat
      /\ locals \in Seq(Declaration) /\ imported \in Seq(Declaration)
      /\ locals[next] \in Declaration
      /\ table \in Seq([name : Name, kind : Kind \ {"none"}])
  BY DEF CheckKind, Inv, TypeOK
<1>2. d \in Declaration /\ d.name \in Name /\ d.kind \in Kind \ {"none"}
  BY <1>1, WithKindType
<1>3. /\ pass = "kind"
      /\ locals' = [locals EXCEPT ![next] = d]
      /\ table' = t
      /\ diags' = diags
           \cup (IF Confused(t, d) THEN Report("scope_confusion", {at}) ELSE {})
           \cup (IF Duplicated(d, next) THEN Report("reduplication", {at}) ELSE {})
           \cup Incomplete(d, {at})
      /\ next' = next + 1
      /\ UNCHANGED <<vocabulary, imported, pass>>
  BY DEF CheckKind
<1>4. locals' \in Seq(Declaration) /\ Len(locals') = Len(locals)
  BY <1>1, <1>2, <1>3
<1>5. /\ Visible \in Seq(Declaration) /\ Visible' \in Seq(Declaration)
      /\ DOMAIN Visible = 1..(Len(imported) + Len(locals))
      /\ DOMAIN Visible' = DOMAIN Visible
      /\ Visible'[at] = d
      /\ \A k \in DOMAIN Visible : k # at => Visible'[k] = Visible[k]
      /\ Local' = Local
  <2>1. /\ Visible = imported \o locals /\ Visible' = imported \o locals'
        /\ Visible \in Seq(Declaration) /\ Visible' \in Seq(Declaration)
        /\ DOMAIN Visible = 1..(Len(imported) + Len(locals))
        /\ DOMAIN Visible' = DOMAIN Visible
    BY <1>1, <1>3, <1>4 DEF Visible
  <2>2. Visible'[at] = d
    BY <1>1, <1>3, <1>4, <2>1
  <2>3. \A k \in DOMAIN Visible : k # at => Visible'[k] = Visible[k]
    BY <1>1, <1>3, <1>4, <2>1
  <2>4. Local' = Local
    BY <1>3, <2>1 DEF Local, IsLocal
  <2> QED BY <2>1, <2>2, <2>3, <2>4
<1>6. at \in DOMAIN Visible /\ at \in Local /\ at \in Nat \ {0}
  BY <1>1, <1>5 DEF Local, IsLocal
<1>7. TypeOK'
  <2>1. table' \in Seq([name : Name, kind : Kind \ {"none"}])
    BY <1>1, <1>2, <1>3 DEF Entry
  <2>2. diags' \in SUBSET [category : Category, at : DOMAIN Visible']
    BY <1>3, <1>5, <1>6 DEF Inv, TypeOK, Report, Category, Incomplete
  <2>3. next' \in 1..(Len(locals') + 1)
    BY <1>1, <1>3, <1>4
  <2> QED BY <1>1, <1>3, <1>4, <2>1, <2>2, <2>3 DEF Inv, TypeOK
<1>8. Started'
  BY <1>3 DEF Inv, Started
<1>9. table' = [k \in 1..at |-> Entry(Visible'[k])]
  <2>1. table = [k \in 1..(at - 1) |-> Entry(Visible[k])]
    BY <1>1, <1>3 DEF Inv, KindsSoFar
  <2>2. Len(table) = at - 1
    BY <1>1, <1>6, <2>1
  <2>3. \A k \in 1..(at - 1) : t[k] = Entry(Visible'[k])
    <3> SUFFICES ASSUME NEW k \in 1..(at - 1)
                 PROVE  t[k] = Entry(Visible'[k])
      OBVIOUS
    <3>1. k \in DOMAIN Visible /\ k # at
      BY <1>5, <1>6
    <3>2. t[k] = table[k]
      BY <1>1, <2>2
    <3>3. Visible'[k] = Visible[k]
      BY <1>5, <3>1
    <3> QED BY <2>1, <3>2, <3>3
  <2>4. t[at] = Entry(Visible'[at])
    BY <1>1, <1>2, <1>5, <1>6, <2>2 DEF Entry
  <2>5. t \in Seq([name : Name, kind : Kind \ {"none"}]) /\ Len(t) = at
    BY <1>1, <1>2, <1>6, <2>2 DEF Entry
  <2>6. t = [k \in 1..at |-> t[k]]
    BY <2>5
  <2>7. \A k \in 1..at : t[k] = Entry(Visible'[k])
    <3> SUFFICES ASSUME NEW k \in 1..at
                 PROVE  t[k] = Entry(Visible'[k])
      OBVIOUS
    <3>1. k \in 1..(at - 1) \/ k = at
      BY <1>6
    <3> QED BY <2>3, <2>4, <3>1
  <2>8. table' = t
    BY <1>3
  <2> HIDE DEF Inv
  <2> QED BY <2>6, <2>7, <2>8
<1>10. Confused(t, d) <=> ConfusedAt(at)'
  <2> DEFINE x == d.body.left
             N == {k \in 1..at : Visible'[k].name = x}
  <2>1. DOMAIN t = 1..at /\ \A k \in 1..at : t[k].name = Visible'[k].name /\ t[k].kind = Visible'[k].kind
    BY <1>3, <1>9 DEF Entry
  <2>2. {k \in DOMAIN t : t[k].name = x} = N
    BY <2>1
  <2>3. N \in SUBSET (Nat \ {0}) /\ N \subseteq 1..at
    BY <1>6
  <2>4. FirstNamed(at)' = First(N)
    BY <1>5 DEF FirstNamed, First
  <2>5. KindLookup(t, x) = IF N = {} THEN "none" ELSE t[First(N)].kind
    BY <2>2 DEF KindLookup
  <2> HIDE DEF N
  <2>6. KindLookup(t, x) = "zeta" <=> First(N) # 0 /\ Visible'[First(N)].kind = "zeta"
    BY <2>1, <2>3, <2>5, FirstFound
  <2> QED BY <1>5, <2>4, <2>6 DEF Confused, ConfusedAt
<1>11. \A i \in Local : i < at => (ConfusedAt(i)' <=> ConfusedAt(i))
  <2> SUFFICES ASSUME NEW i \in Local, i < at
               PROVE  ConfusedAt(i)' <=> ConfusedAt(i)
    OBVIOUS
  <2>1. i \in 1..(at - 1) /\ i \in Nat
    BY <1>5, <1>6 DEF Local
  <2>2. \A k \in 1..i : k \in DOMAIN Visible /\ Visible'[k] = Visible[k]
    BY <1>5, <1>6, <2>1
  <2> DEFINE N == {k \in 1..i : Visible[k].name = Visible[i].body.left}
  <2>3. Visible'[i] = Visible[i]
    BY <2>1, <2>2
  <2>4. {k \in 1..i : Visible'[k].name = Visible'[i].body.left} = N
    BY <2>2, <2>3
  <2>5. FirstNamed(i) = First(N) /\ FirstNamed(i)' = First(N)
    <3>1. FirstNamed(i)' = First({k \in 1..i : Visible'[k].name = Visible'[i].body.left})
      BY DEF FirstNamed, First
    <3>2. FirstNamed(i) = First(N)
      BY DEF FirstNamed
    <3> QED BY <2>4, <3>1, <3>2
  <2>6. N \in SUBSET (Nat \ {0}) /\ N \subseteq 1..i
    BY <2>1
  <2> HIDE DEF N
  <2>7. First(N) # 0 => First(N) \in 1..i
    BY <2>6, FirstFound
  <2>8. First(N) # 0 => Visible'[First(N)] = Visible[First(N)]
    BY <2>2, <2>7
  <2> QED BY <2>3, <2>5, <2>8 DEF ConfusedAt
<1>12. KindsSoFar'
  <2>1. Len(imported') + next' - 1 = at /\ pass' = "kind"
    BY <1>1, <1>3
  <2>2. ASSUME NEW i
        PROVE  Reported("scope_confusion", i)' <=>
                 i \in Local' /\ i < Len(imported') + next' /\ ConfusedAt(i)'
    <3>1. Reported("scope_confusion", i)' <=>
            Reported("scope_confusion", i) \/ (i = at /\ Confused(t, d))
      BY <1>3 DEF Reported, Report, Incomplete
    <3>2. Reported("scope_confusion", i) <=> i \in Local /\ i < at /\ ConfusedAt(i)
      BY DEF Inv, KindsSoFar
    <3>3. i \in Local => (i < Len(imported') + next' <=> i < at \/ i = at)
      <4>1. Len(imported') + next' = at + 1
        BY <1>1, <1>3
      <4>2. i \in Local => i \in Nat
        BY <1>1, <1>5 DEF Local
      <4> QED BY <1>6, <4>1, <4>2
    <3> QED BY <1>5, <1>6, <1>10, <1>11, <3>1, <3>2, <3>3
  <2> QED BY <1>9, <2>1, <2>2 DEF KindsSoFar
<1>13. PassesSoFar'
  <2>1. \A i : /\ ~Reported("arity_mismatch", i)
               /\ ~Reported("perpendicular_cross", i)
               /\ ~Reported("meihua_arity", i)
    BY <1>3 DEF Inv, PassesSoFar, ReportedBy
  <2>2. \A i : /\ ~Reported("arity_mismatch", i)'
               /\ ~Reported("perpendicular_cross", i)'
               /\ ~Reported("meihua_arity", i)'
    BY <1>3, <2>1 DEF Reported, Report, Incomplete
  <2> QED BY <1>3, <2>2 DEF PassesSoFar, ReportedBy
<1> QED BY <1>7, <1>8, <1>12, <1>13 DEF Inv

\* While the program is written nothing is reported.
LEMMA NothingReportedYet ==
  ASSUME diags = {}, pass \in {"parse", "kind"}
  PROVE  PassesSoFar
BY DEF PassesSoFar, ReportedBy, Reported

LEMMA ParseKeepsKinds ==
  ASSUME TypeOK', diags' = {}, next' = 1, pass' \in {"parse", "kind"},
         pass' = "kind" => table' = SeedTable'
  PROVE  KindsSoFar'
<1>1. ASSUME NEW i PROVE Reported("scope_confusion", i)' <=>
        i \in Local' /\ i < Len(imported') + next' /\ ConfusedAt(i)'
  <2>1. imported' \in Seq(Declaration) /\ locals' \in Seq(Declaration)
    BY DEF TypeOK
  <2>2. Visible' \in Seq(Declaration) /\ DOMAIN Visible' = 1..(Len(imported') + Len(locals'))
    BY <2>1 DEF Visible
  <2>3. i \in Local' => ~(i < Len(imported') + next')
    BY <2>1, <2>2 DEF Local, IsLocal
  <2> QED BY <2>3 DEF Reported
<1>2. pass' = "kind" => table' = [k \in 1..(Len(imported') + next' - 1) |-> Entry(Visible'[k])]
  <2> SUFFICES ASSUME pass' = "kind"
               PROVE  table' = [k \in 1..(Len(imported') + next' - 1) |-> Entry(Visible'[k])]
    OBVIOUS
  <2>1. /\ imported' \in Seq(Declaration) /\ locals' \in Seq(Declaration)
        /\ Visible' = imported' \o locals'
        /\ Len(imported') \in Nat /\ DOMAIN imported' = 1..Len(imported')
    BY DEF TypeOK, Visible
  <2>2. Len(imported') + next' - 1 = Len(imported')
    BY <2>1
  <2>3. \A k \in 1..Len(imported') : Visible'[k] = imported'[k]
    BY <2>1
  <2>4. table' = [k \in 1..Len(imported') |-> Entry(imported'[k])]
    BY <2>1 DEF SeedTable
  <2> QED BY <2>2, <2>3, <2>4
<1> QED BY <1>1, <1>2 DEF KindsSoFar

LEMMA ImportKeeps ==
  ASSUME Inv, NEW d \in vocabulary, Import(d)
  PROVE  Inv'
<1>1. /\ pass = "parse" /\ pass' = "parse" /\ diags' = {} /\ next' = 1
      /\ imported \in Seq(Declaration) /\ locals \in Seq(Declaration)
      /\ Len(imported) < MaxImported
  BY DEF Import, Inv, Started, TypeOK
<1>2. d \in Declaration
  BY VocabulariesAssumption DEF Inv, TypeOK
<1> DEFINE w == WithKind(d)
<1>3. w \in Declaration /\ w.kind # "none"
  BY <1>2, WithKindType DEF Kind
<1>4. imported' = Append(imported, w)
  BY DEF Import
<1> HIDE DEF w
<1>5. /\ imported' \in Seq(Declaration) /\ Len(imported') = Len(imported) + 1
      /\ \A k \in DOMAIN imported' : imported'[k] = w \/ (k \in DOMAIN imported /\ imported'[k] = imported[k])
  BY <1>1, <1>3, <1>4
<1>6. TypeOK'
  BY <1>1, <1>5, BoundsAssumption DEF Import, Inv, TypeOK
<1>7. Started'
  BY <1>1, <1>3, <1>5 DEF Inv, Started
<1> QED BY <1>1, <1>6, <1>7, ParseKeepsKinds, NothingReportedYet
        DEF Inv, PassesSoFar, ReportedBy, Reported

LEMMA DeclareKeeps ==
  ASSUME Inv, NEW d \in vocabulary, Declare(d)
  PROVE  Inv'
<1>1. /\ pass = "parse" /\ pass' = "parse" /\ diags' = {} /\ next' = 1
      /\ imported' = imported /\ imported \in Seq(Declaration) /\ locals \in Seq(Declaration)
      /\ Len(locals) < MaxLocals /\ locals' = Append(locals, d)
  BY DEF Declare, Inv, Started, TypeOK
<1>2. d \in Declaration
  BY VocabulariesAssumption DEF Inv, TypeOK
<1>3. locals' \in Seq(Declaration) /\ Len(locals') = Len(locals) + 1
  BY <1>1, <1>2
<1>4. TypeOK'
  BY <1>1, <1>3, BoundsAssumption DEF Declare, Inv, TypeOK
<1>5. Started'
  BY <1>1 DEF Inv, Started
<1> QED BY <1>1, <1>4, <1>5, ParseKeepsKinds DEF Inv, PassesSoFar, ReportedBy, Reported

LEMMA StartKindsKeeps ==
  ASSUME Inv, StartKinds
  PROVE  Inv'
<1>1. /\ pass = "parse" /\ pass' = "kind" /\ diags' = {} /\ next' = 1 /\ diags = {}
      /\ imported' = imported /\ locals' = locals /\ vocabulary' = vocabulary
      /\ table' = SeedTable
  BY DEF StartKinds, Inv, Started
<1>2. SeedTable \in Seq([name : Name, kind : Kind \ {"none"}])
  <2>1. imported \in Seq(Declaration)
    BY DEF Inv, TypeOK
  <2>2. \A k \in DOMAIN imported :
          imported[k].name \in Name /\ imported[k].kind \in Kind \ {"none"}
    <3> SUFFICES ASSUME NEW k \in DOMAIN imported
                 PROVE  imported[k].name \in Name /\ imported[k].kind \in Kind \ {"none"}
      OBVIOUS
    <3>1. imported[k] \in Declaration /\ imported[k].kind # "none"
      BY <2>1 DEF Inv, Started
    <3>2. WithKind(imported[k]) = imported[k]
      BY <3>1 DEF WithKind
    <3> QED BY <3>1, <3>2, WithKindType
  <2>3. \A k \in 1..Len(imported) : Entry(imported[k]) \in [name : Name, kind : Kind \ {"none"}]
    BY <2>1, <2>2 DEF Entry
  <2>4. SeedTable = [k \in 1..Len(imported) |-> Entry(imported[k])] /\ Len(imported) \in Nat
    BY <2>1 DEF SeedTable
  <2> DEFINE T == [name : Name, kind : Kind \ {"none"}]
  <2>5. \A k \in 1..Len(imported) : Entry(imported[k]) \in T
    BY <2>3
  <2> HIDE DEF T
  <2>6. SeedTable \in Seq(T)
    BY <2>4, <2>5
  <2> QED BY <2>6 DEF T
<1>3. TypeOK'
  BY <1>1, <1>2 DEF Inv, TypeOK
<1>4. Started'
  BY <1>1 DEF Inv, Started
<1>5. SeedTable' = SeedTable
  BY <1>1 DEF SeedTable
<1> QED BY <1>1, <1>3, <1>4, <1>5, ParseKeepsKinds DEF Inv, PassesSoFar, ReportedBy, Reported

\* The passes after kindcheck report and change nothing else.
LEMMA PassKeeps ==
  ASSUME Inv, EndKinds \/ Typecheck \/ Perpcheck \/ Exhaustcheck \/ Semcheck \/ UNCHANGED vars
  PROVE  Inv'
<1>1. UNCHANGED <<vocabulary, imported, locals, next, table>>
  BY DEF EndKinds, Typecheck, Perpcheck, Exhaustcheck, Semcheck, Pass, vars
<1>2. /\ Visible' = Visible /\ Local' = Local
      /\ Crossing' = Crossing /\ BadCalls' = BadCalls /\ BadMeihuaCalls' = BadMeihuaCalls
      /\ \A i : ConfusedAt(i)' <=> ConfusedAt(i)
  BY <1>1, SameProgram
<1>3. TypeOK /\ Started /\ KindsSoFar /\ PassesSoFar
  BY DEF Inv
<1>4. CASE UNCHANGED vars
  BY <1>1, <1>2, <1>3, <1>4
     DEF vars, Inv, TypeOK, Started, KindsSoFar, PassesSoFar, ReportedBy, Reported
<1>5. CASE EndKinds
  <2>1. pass = "kind" /\ pass' = "type" /\ diags' = diags /\ next > Len(locals)
    BY <1>5 DEF EndKinds
  <2>2. next' = Len(locals') + 1
    BY <1>1, <1>3, <2>1 DEF TypeOK
  <2>3. TypeOK' /\ Started'
    BY <1>1, <1>2, <1>3, <2>1 DEF TypeOK, Started
  <2>4. KindsSoFar'
    BY <1>1, <1>2, <1>3, <2>1, <2>2 DEF KindsSoFar, Reported
  <2>5. PassesSoFar'
    BY <1>1, <1>2, <1>3, <2>1 DEF PassesSoFar, ReportedBy, Reported
  <2> QED BY <2>3, <2>4, <2>5 DEF Inv
<1>6. ASSUME NEW found \in SUBSET [category : Category, at : DOMAIN Visible],
             pass \in {"type", "perp", "exhaust", "sem"},
             pass' \in {"perp", "exhaust", "sem", "done"},
             diags' = diags \cup found,
             \A r \in found : r.category # "scope_confusion"
      PROVE  TypeOK' /\ Started' /\ KindsSoFar'
  <2>1. TypeOK'
    BY <1>1, <1>2, <1>3, <1>6 DEF TypeOK
  <2>2. Started'
    BY <1>1, <1>3, <1>6 DEF Started
  <2>3. \A i : Reported("scope_confusion", i)' <=> Reported("scope_confusion", i)
    BY <1>6 DEF Reported
  <2> QED BY <1>1, <1>2, <1>3, <1>6, <2>1, <2>2, <2>3 DEF KindsSoFar
<1>7. CASE Typecheck
  <2> DEFINE found == Report("unknown_type", UnknownTypes) \cup Report("arity_mismatch", BadCalls)
  <2>1. pass = "type" /\ pass' = "perp" /\ diags' = diags \cup found
    BY <1>7 DEF Typecheck, Pass, BadCalls
  <2>2. found \in SUBSET [category : Category, at : DOMAIN Visible]
    BY <1>3, PassReports
  <2>3. \A r \in found : r.category \in {"unknown_type", "arity_mismatch"}
    BY DEF Report
  <2>4. \A i : [category |-> "arity_mismatch", at |-> i] \in found <=> i \in BadCalls
    BY DEF Report
  <2> HIDE DEF found
  <2>5. TypeOK' /\ Started' /\ KindsSoFar'
    BY <1>6, <2>1, <2>2, <2>3
  <2>6. PassesSoFar'
    BY <1>2, <1>3, <2>1, <2>3, <2>4 DEF PassesSoFar, ReportedBy, Reported
  <2> QED BY <2>5, <2>6 DEF Inv
<1>8. CASE Perpcheck
  <2> DEFINE found == Report("perpendicular_cross", Crossing)
  <2>1. pass = "perp" /\ pass' = "exhaust" /\ diags' = diags \cup found
    BY <1>8 DEF Perpcheck, Pass, Crossing
  <2>2. found \in SUBSET [category : Category, at : DOMAIN Visible]
    BY <1>3, PassReports
  <2>3. \A r \in found : r.category = "perpendicular_cross"
    BY DEF Report
  <2>4. \A i : [category |-> "perpendicular_cross", at |-> i] \in found <=> i \in Crossing
    BY DEF Report
  <2> HIDE DEF found
  <2>5. TypeOK' /\ Started' /\ KindsSoFar'
    BY <1>6, <2>1, <2>2, <2>3
  <2>6. PassesSoFar'
    BY <1>2, <1>3, <2>1, <2>3, <2>4 DEF PassesSoFar, ReportedBy, Reported
  <2> QED BY <2>5, <2>6 DEF Inv
<1>9. CASE Exhaustcheck
  <2> DEFINE found == Report("unknown_function", UnknownFunctions)
                      \cup Report("meihua_arity", BadMeihuaCalls)
                      \cup Report("undefined_identifier", UndefinedIdentifiers)
  <2>1. pass = "exhaust" /\ pass' = "sem" /\ diags' = diags \cup found
    BY <1>9 DEF Exhaustcheck, Pass, BadMeihuaCalls
  <2>2. found \in SUBSET [category : Category, at : DOMAIN Visible]
    BY <1>3, PassReports
  <2>3. \A r \in found : r.category \in {"unknown_function", "meihua_arity", "undefined_identifier"}
    BY DEF Report
  <2>4. \A i : [category |-> "meihua_arity", at |-> i] \in found <=> i \in BadMeihuaCalls
    BY DEF Report
  <2> HIDE DEF found
  <2>5. TypeOK' /\ Started' /\ KindsSoFar'
    BY <1>6, <2>1, <2>2, <2>3
  <2>6. PassesSoFar'
    BY <1>2, <1>3, <2>1, <2>3, <2>4 DEF PassesSoFar, ReportedBy, Reported
  <2> QED BY <2>5, <2>6 DEF Inv
<1>10. CASE Semcheck
  <2> DEFINE found == Report("not_a_member", Mismatches)
  <2>1. pass = "sem" /\ pass' = "done" /\ diags' = diags \cup found
    BY <1>10 DEF Semcheck, Pass
  <2>2. found \in SUBSET [category : Category, at : DOMAIN Visible]
    BY <1>3, PassReports
  <2>3. \A r \in found : r.category = "not_a_member"
    BY DEF Report
  <2> HIDE DEF found
  <2>4. TypeOK' /\ Started' /\ KindsSoFar'
    BY <1>6, <2>1, <2>2, <2>3
  <2>5. PassesSoFar'
    BY <1>2, <1>3, <2>1, <2>3 DEF PassesSoFar, ReportedBy, Reported
  <2> QED BY <2>4, <2>5 DEF Inv
<1> QED BY <1>4, <1>5, <1>7, <1>8, <1>9, <1>10

\* The state of the passes in every step (kindcheck to semcheck in main.c).
THEOREM Invariance == Spec => []Inv
<1>1. Init => Inv
  <2> SUFFICES ASSUME Init PROVE Inv
    OBVIOUS
  <2>1. TypeOK
    <3>1. /\ imported \in Seq(Declaration) /\ Len(imported) = 0
          /\ locals \in Seq(Declaration) /\ Len(locals) = 0
          /\ table \in Seq([name : Name, kind : Kind \ {"none"}])
      BY DEF Init
    <3> QED BY <3>1, BoundsAssumption DEF Init, TypeOK
  <2>2. Len(imported) = 0 /\ DOMAIN imported = {}
    BY DEF Init
  <2>3. \A i : i \in Local => ~(i < Len(imported) + next)
    <3>1. DOMAIN Visible = {}
      BY DEF Init, Visible
    <3> QED BY <3>1 DEF Local
  <2> QED BY <2>1, <2>2, <2>3
          DEF Init, Inv, Started, KindsSoFar, PassesSoFar, ReportedBy, Reported
<1>2. Inv /\ [Next]_vars => Inv'
  <2> SUFFICES ASSUME Inv, [Next]_vars PROVE Inv'
    OBVIOUS
  <2>1. CASE \E d \in vocabulary : Import(d)
    BY <2>1, ImportKeeps
  <2>2. CASE \E d \in vocabulary : Declare(d)
    BY <2>2, DeclareKeeps
  <2>3. CASE StartKinds
    BY <2>3, StartKindsKeeps
  <2>4. CASE CheckKind
    BY <2>4, CheckKindKeeps
  <2>5. CASE EndKinds \/ Typecheck \/ Perpcheck \/ Exhaustcheck \/ Semcheck \/ UNCHANGED vars
    BY <2>5, PassKeeps
  <2> QED BY <2>1, <2>2, <2>3, <2>4, <2>5 DEF Next
<1> QED BY <1>1, <1>2, PTL DEF Spec

------------------------------------------------------------------------------
(* What follows *)

\* Types of the compiler's state, for programs of any length (ast.h, kindcheck.c).
THEOREM TypeCorrect == Spec => []TypeOK
<1>1. Inv => TypeOK
  BY DEF Inv
<1> QED BY <1>1, Invariance, PTL

\* All lookups of a dimension agree in every program (dim_registry.c, semcheck.c,
\* emit_ts.c and emit_c.c).
THEOREM OneDimensionForAll == Spec => []LookupsAgree
<1>1. TypeOK => LookupsAgree
  BY LookupAgreement
<1> QED BY <1>1, TypeCorrect, PTL

\* A confusion is reported when all declarations before a value say so, and only when
\* one of them does (kindcheck.c).
THEOREM ConfusionsAreFound == Spec => []ConfusionsFound
<1>1. Inv => ConfusionsFound
  <2> SUFFICES ASSUME Inv, pass \notin {"parse", "kind"}, NEW i \in Local
               PROVE  /\ Reported("scope_confusion", i) =>
                           /\ Visible[i].type = "kinded_value"
                           /\ Visible[i].kind \in {"xi", "rk"}
                           /\ "zeta" \in Preceding(i)
                      /\ (/\ Visible[i].type = "kinded_value"
                          /\ Visible[i].kind \in {"xi", "rk"}
                          /\ Visible[i].body.form = "ident"
                          /\ Visible[i].body.within \in KindWalk
                          /\ Preceding(i) = {"zeta"})
                         => Reported("scope_confusion", i)
    BY DEF ConfusionsFound
  <2>1. /\ DOMAIN Visible = 1..(Len(imported) + Len(locals))
        /\ Len(imported) \in Nat /\ Len(locals) \in Nat
    BY VisibleFacts DEF Inv
  <2>2. i < Len(imported) + next /\ i \in Nat
    BY <2>1 DEF Inv, KindsSoFar, Local
  <2>3. Reported("scope_confusion", i) <=> ConfusedAt(i)
    BY <2>2 DEF Inv, KindsSoFar
  <2> DEFINE N == {k \in 1..i : Visible[k].name = Visible[i].body.left}
  <2>4. N \in SUBSET (Nat \ {0}) /\ FirstNamed(i) = First(N)
    BY <2>2 DEF FirstNamed
  <2>5. Preceding(i) = {Visible[k].kind : k \in N}
    BY DEF Preceding
  <2> HIDE DEF N
  <2>6. FirstNamed(i) # 0 => Visible[FirstNamed(i)].kind \in Preceding(i)
    BY <2>4, <2>5, FirstFound
  <2>7. Preceding(i) # {} => FirstNamed(i) # 0
    BY <2>4, <2>5, FirstFound
  <2> QED BY <2>3, <2>6, <2>7 DEF ConfusedAt
<1> QED BY <1>1, Invariance, PTL

\* A comparison across perpendicular dimensions is reported wherever the declaration
\* of perpendicularity stands and whichever side comes first (perpcheck.c).
THEOREM PerpendicularsAreFound == Spec => []PerpendicularsFound
<1>1. Inv => PerpendicularsFound
  <2> SUFFICES ASSUME Inv, pass \in {"exhaust", "sem", "done"},
                      NEW i \in Comparisons, NEW m \in Name, NEW n \in Name,
                      DimensionsOf(Visible[i].body.left) = {m},
                      DimensionsOf(Visible[i].body.right) = {n}
               PROVE  Reported("perpendicular_cross", i) <=> DeclaredPerpendicular(m, n)
    BY DEF PerpendicularsFound
  <2>1. Reported("perpendicular_cross", i) <=> Crosses(Visible[i].body)
    BY DEF Inv, PassesSoFar, ReportedBy, Crossing
  <2>2. ASSUME NEW name, NEW dim, DimensionsOf(name) = {dim}
        PROVE  FindDim(name) # 0 /\ Visible[FindDim(name)].name = dim
    <3> DEFINE S == {k \in DOMAIN Visible : Spans(k, name)}
    <3>1. S \in SUBSET (Nat \ {0}) /\ FindDim(name) = First(S)
      BY VisibleFacts DEF Inv, FindDim
    <3>2. {k \in Dimensions : Spans(k, name)} = S
      BY DEF Dimensions, Spans
    <3>3. DimensionsOf(name) = {Visible[k].name : k \in S}
      BY <3>2 DEF DimensionsOf
    <3> HIDE DEF S
    <3>4. S # {}
      BY <2>2, <3>3
    <3>5. First(S) \in S /\ First(S) # 0
      BY <3>1, <3>4, FirstFound
    <3>6. Visible[First(S)].name \in DimensionsOf(name)
      BY <3>3, <3>5
    <3> QED BY <2>2, <3>1, <3>5, <3>6
  <2>3. Crosses(Visible[i].body) <=> ArePerpendicular(m, n)
    BY <2>2 DEF Crosses
  <2>4. ArePerpendicular(m, n) <=> DeclaredPerpendicular(m, n)
    <3>1. \A s \in Perpendiculars : \E k \in DOMAIN Visible :
            Visible[k].type = "perpendicular" /\ s = Visible[k].names
      BY DEF Perpendiculars
    <3>2. \A k \in DOMAIN Visible :
            Visible[k].type = "perpendicular" =>
              Visible[k].names \in Perpendiculars /\ Visible[k].names \in Seq(Name)
      <4>1. \A k \in DOMAIN Visible : Visible[k] \in Declaration
        BY VisibleFacts DEF Inv
      <4>2. \A k \in DOMAIN Visible :
              Visible[k].type = "perpendicular" => Visible[k].names \in Seq(Name)
        BY <4>1 DEF Declaration, ExecType
      <4> QED BY <4>2 DEF Perpendiculars
    <3>3. ASSUME NEW s \in Seq(Name)
          PROVE  (\E a, b \in DOMAIN s : a < b /\ {s[a], s[b]} = {m, n})
                 <=> (\E a, b \in DOMAIN s : a # b /\ s[a] = m /\ s[b] = n)
      <4>1. DOMAIN s \subseteq Nat
        OBVIOUS
      <4>2. \A a, b \in DOMAIN s : a # b <=> a < b \/ b < a
        BY <4>1
      <4>3. \A a, b : {s[a], s[b]} = {m, n} <=>
              (s[a] = m /\ s[b] = n) \/ (s[a] = n /\ s[b] = m)
        OBVIOUS
      <4>4. ASSUME NEW a \in DOMAIN s, NEW b \in DOMAIN s, a < b, {s[a], s[b]} = {m, n}
            PROVE  \E c, d \in DOMAIN s : c # d /\ s[c] = m /\ s[d] = n
        BY <4>2, <4>3, <4>4, Zenon
      <4>5. ASSUME NEW a \in DOMAIN s, NEW b \in DOMAIN s, a # b, s[a] = m, s[b] = n
            PROVE  \E c, d \in DOMAIN s : c < d /\ {s[c], s[d]} = {m, n}
        <5>1. a < b \/ b < a
          BY <4>2, <4>5
        <5>2. {s[a], s[b]} = {m, n} /\ {s[b], s[a]} = {m, n}
          BY <4>5
        <5> QED BY <5>1, <5>2, Zenon
      <4> QED BY <4>4, <4>5
    <3>4. ArePerpendicular(m, n) => DeclaredPerpendicular(m, n)
      <4> SUFFICES ASSUME ArePerpendicular(m, n) PROVE DeclaredPerpendicular(m, n)
        OBVIOUS
      <4>1. PICK s \in Perpendiculars : \E a, b \in DOMAIN s : a < b /\ {s[a], s[b]} = {m, n}
        BY DEF ArePerpendicular
      <4>2. PICK k \in DOMAIN Visible : Visible[k].type = "perpendicular" /\ s = Visible[k].names
        BY <3>1
      <4>3. s \in Seq(Name)
        BY <3>2, <4>2
      <4>4. \E a, b \in DOMAIN s : a # b /\ s[a] = m /\ s[b] = n
        BY <3>3, <4>1, <4>3
      <4> QED BY <4>2, <4>4 DEF DeclaredPerpendicular
    <3>5. DeclaredPerpendicular(m, n) => ArePerpendicular(m, n)
      BY <3>2, <3>3 DEF ArePerpendicular, DeclaredPerpendicular
    <3> QED BY <3>4, <3>5
  <2> QED BY <2>1, <2>3, <2>4
<1> QED BY <1>1, Invariance, PTL

\* The two judgements of a call's arguments agree (typecheck.c, exhaustcheck.c).
THEOREM CallsAreJudgedAlike == Spec => []CallsJudgedAlike
<1>1. Inv => CallsJudgedAlike
  <2> SUFFICES ASSUME Inv, pass \in {"sem", "done"}, NEW i \in Calls(Surrounding),
                      NEW t, Targets(Visible[i].body.left) = {t}
               PROVE  /\ Reported("arity_mismatch", i) <=>
                           Len(Visible[t].params) # Visible[i].body.args
                      /\ i \in MeihuaCalls /\ Visible[t].type = "meihua" =>
                           (Reported("meihua_arity", i) <=> Reported("arity_mismatch", i))
    BY DEF CallsJudgedAlike
  <2> DEFINE name == Visible[i].body.left
  <2>1. /\ Reported("arity_mismatch", i) <=> WrongArity(i, ExecType)
        /\ i \in MeihuaCalls => (Reported("meihua_arity", i) <=> WrongArity(i, {"meihua"}))
    BY DEF Inv, PassesSoFar, ReportedBy, BadCalls, BadMeihuaCalls, TypeWalk
  <2>2. t \in DOMAIN Visible /\ Visible[t].type \in ExecType /\ Visible[t].name = name
    BY DEF Targets
  <2>3. ASSUME NEW types, types \subseteq ExecType, Visible[t].type \in types
        PROVE  FindExec(types, name) = t /\ t # 0
    <3> DEFINE M == {k \in DOMAIN Visible : Visible[k].type \in types /\ Visible[k].name = name}
    <3>1. M = {t}
      BY <2>2, <2>3 DEF Targets
    <3>2. FindExec(types, name) = IF M \cap Local # {} THEN First(M \cap Local) ELSE First(M)
      BY DEF FindExec
    <3> HIDE DEF M
    <3>3. {t} \in SUBSET (Nat \ {0}) /\ t # 0
      BY <2>2, VisibleFacts DEF Inv
    <3>4. First({t}) = t
      BY <3>3, FirstFound
    <3>5. M \cap Local = {} \/ M \cap Local = {t}
      BY <3>1
    <3> QED BY <3>1, <3>2, <3>3, <3>4, <3>5
  <2>4. WrongArity(i, ExecType) <=> Len(Visible[t].params) # Visible[i].body.args
    BY <2>2, <2>3 DEF WrongArity
  <2>5. Visible[t].type = "meihua" =>
          (WrongArity(i, {"meihua"}) <=> Len(Visible[t].params) # Visible[i].body.args)
    BY <2>3 DEF WrongArity, ExecType
  <2> QED BY <2>1, <2>4, <2>5
<1> QED BY <1>1, Invariance, PTL

=============================================================================

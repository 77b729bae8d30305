---------------------------- MODULE Declarations ----------------------------
(****************************************************************************)
(* What a name means to the passes of the compiler.  A program is the       *)
(* declarations of the modules it imports, one level deep, and its own; the *)
(* passes kindcheck.c, typecheck.c, perpcheck.c, exhaustcheck.c (its check  *)
(* of meihua bodies) and semcheck.c run over it in the order of main.c, and *)
(* each looks names up in a table or with a search of its own.              *)
(*                                                                          *)
(* An expression is an identifier, a comparison of two identifiers or a     *)
(* call, possibly inside one other expression: the passes descend into      *)
(* different kinds of expression.  Positions of diagnostics are positions   *)
(* in Visible, the imported declarations followed by the local ones.        *)
(****************************************************************************)
EXTENDS Naturals, Sequences, FiniteSets

CONSTANTS
  Stem,          \* names without the letters s they end in
  MaxPlural,     \* bound: letters s at the end of a name
  Vocabularies,  \* the sets of declarations that programs are made of
  MaxImported,   \* bound: imported declarations
  MaxLocals,     \* bound: declarations of the program itself
  MaxDims        \* MAX_DIMS, the room of the registry of emit_c.c

Name == Stem \X (0..MaxPlural)

\* The declared type the annotation of a parameter asks for: none without annotation
\* and when it is one of unit, magnitude, vector, dimension and zero.
Annotation == {{}} \cup {{name} : name \in Name}

\* What surrounds an expression, and the surroundings each pass descends into.
Surrounding == {"nothing", "list", "arrow", "if", "decidable"}
KindWalk == {"nothing", "list", "decidable"}
PerpWalk == {"nothing", "list", "arrow"}
TypeWalk == Surrounding
MeihuaWalk == {"nothing", "list", "if"}

Expr == [form : {"ident"}, left : Name, within : Surrounding]
        \cup [form : {"equals"}, left : Name, right : Name, within : Surrounding]
        \cup [form : {"call"}, left : Name, args : Nat, within : Surrounding]

Kind == {"none", "xi", "zeta", "x", "rk", "omega", "delta_rk"}
ExecType == {"meihua", "zhulin", "songqiao"}

Declaration ==
  [type : {"unit"}, name : Name, kind : Kind]
  \cup [type : {"dimension"}, name : Name, kind : Kind,
        form : {"enum", "list"}, members : SUBSET Name]
  \cup [type : {"perpendicular"}, name : Name, kind : Kind, names : Seq(Name)]
  \cup [type : {"projection"}, name : Name, kind : Kind, invariant : Name, value : Name]
  \cup [type : {"traversal"}, name : Name, kind : Kind, sections : SUBSET Kind]
  \cup [type : {"kinded_value"}, name : Name, kind : Kind \ {"none"}, body : Expr]
  \cup [type : ExecType, name : Name, kind : Kind, params : Seq(Name),
        annotation : Annotation, body : Expr]

ASSUME BoundsAssumption == {MaxPlural, MaxImported, MaxLocals, MaxDims} \subseteq Nat
ASSUME VocabulariesAssumption == \A V \in Vocabularies : V \subseteq Declaration

VARIABLES
  vocabulary,  \* what this program is made of
  imported,    \* collect_imported_decls
  locals,      \* prog->decls without the imports
  pass,        \* how far main has come
  next,        \* the declaration kindcheck looks at next
  table,       \* the KindTable
  diags        \* what was reported

vars == <<vocabulary, imported, locals, pass, next, table, diags>>

Visible == imported \o locals
IsLocal(i) == i > Len(imported)
Local == {i \in DOMAIN Visible : IsLocal(i)}

First(S) == IF S = {} THEN 0 ELSE CHOOSE i \in S : \A j \in S : i <= j

Report(category, positions) == {[category |-> category, at |-> i] : i \in positions}

----------------------------------------------------------------------------
(* dim_registry.c, the search of semcheck.c and emit_ts.c, that of emit_c.c *)

Plural(q) == <<q[1], q[2] + 1>>
Forms(q) == {n \in Name : n[1] = q[1] /\ n[2] <= q[2] + 1 /\ q[2] <= n[2] + 1}

Dimensions == {i \in DOMAIN Visible : Visible[i].type = "dimension"}
Named(q) == {i \in Dimensions : Visible[i].name = q}
WithoutS(q) == {i \in Dimensions : Visible[i].name[1] = q[1] /\ Plural(Visible[i].name) = q}

\* Mutant of RegistryFind: the last try, without the trailing s, is missing.
RegistryFindPlural(q) ==
  IF Named(q) # {} THEN First(Named(q)) ELSE First(Named(Plural(q)))

RegistryFind(q) ==
  IF Named(q) # {} THEN First(Named(q))
  ELSE IF Named(Plural(q)) # {} THEN First(Named(Plural(q)))
  ELSE First(WithoutS(q))

\* find_dim and find_dimension_for_field: any form, local declarations first.
DeclarationFind(q) ==
  LET matches == {i \in Dimensions : Visible[i].name \in Forms(q)}
      own     == matches \cap Local
  IN  IF own # {} THEN First(own) ELSE First(matches)

\* The registry of emit_c.c keeps the first declaration of a name that has members,
\* as long as there is room, and compares names exactly.
CRegistered(i) ==
  /\ i \in Dimensions
  /\ Visible[i].members # {}
  /\ \A j \in Named(Visible[i].name) : j < i => Visible[j].members = {}

CFind(q) ==
  First({i \in Named(q) :
           /\ CRegistered(i)
           /\ Cardinality({j \in 1..(i - 1) : CRegistered(j)}) < MaxDims})

----------------------------------------------------------------------------
(* Writing the program                                                      *)

\* kind_inference.h, and the kinds the parser gives execution layers.
InferKind(type) ==
  IF type \in {"unit", "dimension", "perpendicular", "meihua"} THEN "xi"
  ELSE IF type = "songqiao" THEN "zeta" ELSE "rk"

WithKind(d) == IF d.kind = "none" THEN [d EXCEPT !.kind = InferKind(d.type)] ELSE d

Init ==
  /\ vocabulary \in Vocabularies
  /\ imported = << >>
  /\ locals = << >>
  /\ pass = "parse"
  /\ next = 1
  /\ table = << >>
  /\ diags = {}

\* The resolver has already run kindcheck on an imported module.
Import(d) ==
  /\ pass = "parse"
  /\ Len(imported) < MaxImported
  /\ imported' = Append(imported, WithKind(d))
  /\ UNCHANGED <<vocabulary, locals, pass, next, table, diags>>

Declare(d) ==
  /\ pass = "parse"
  /\ Len(locals) < MaxLocals
  /\ locals' = Append(locals, d)
  /\ UNCHANGED <<vocabulary, imported, pass, next, table, diags>>

----------------------------------------------------------------------------
(* kindcheck.c                                                              *)

Entry(d) == [name |-> d.name, kind |-> d.kind]

\* Mutant of SeedTable: the table starts without the imported declarations.
SeedTableEmpty == << >>

SeedTable == [i \in DOMAIN imported |-> Entry(imported[i])]

\* kindcheck, up to its loop.
StartKinds ==
  /\ pass = "parse"
  /\ pass' = "kind"
  /\ table' = SeedTable
  /\ UNCHANGED <<vocabulary, imported, locals, next, diags>>

\* kt_lookup
KindLookup(t, name) ==
  LET entries == {k \in DOMAIN t : t[k].name = name}
  IN  IF entries = {} THEN "none" ELSE t[First(entries)].kind

Confused(t, d) ==
  /\ d.type = "kinded_value"
  /\ d.kind \in {"xi", "rk"}
  /\ d.body.form = "ident"
  /\ d.body.within \in KindWalk
  /\ KindLookup(t, d.body.left) = "zeta"

Duplicated(d, k) ==
  /\ d.kind = "xi"
  /\ \E j \in 1..(k - 1) :
        locals[j].kind = "xi" /\ locals[j].type = d.type /\ locals[j].name = d.name

\* check_traversal_completeness
Incomplete(d, at) ==
  IF d.type # "traversal" THEN {}
  ELSE (IF "delta_rk" \in d.sections THEN {} ELSE Report("missing_cast", at))
       \cup (IF "omega" \in d.sections THEN {} ELSE Report("failure_to_derive", at))

\* One turn of the loop of kindcheck.
CheckKind ==
  /\ pass = "kind"
  /\ next <= Len(locals)
  /\ LET d  == WithKind(locals[next])
         t  == Append(table, Entry(d))
         at == {Len(imported) + next}
     IN  /\ locals' = [locals EXCEPT ![next] = d]
         /\ table' = t
         /\ diags' = diags
              \cup (IF Confused(t, d) THEN Report("scope_confusion", at) ELSE {})
              \cup (IF Duplicated(d, next) THEN Report("reduplication", at) ELSE {})
              \cup Incomplete(d, at)
  /\ next' = next + 1
  /\ UNCHANGED <<vocabulary, imported, pass>>

EndKinds ==
  /\ pass = "kind"
  /\ next > Len(locals)
  /\ pass' = "type"
  /\ UNCHANGED <<vocabulary, imported, locals, next, table, diags>>

\* A pass that only reports.
Pass(from, to, found) ==
  /\ pass = from
  /\ pass' = to
  /\ diags' = diags \cup found
  /\ UNCHANGED <<vocabulary, imported, locals, next, table>>

----------------------------------------------------------------------------
(* typecheck.c and type_registry.c                                          *)

\* The declarations the passes look for calls in.
Calls(within) ==
  {i \in Local : /\ Visible[i].type \in ExecType \cup {"kinded_value"}
                 /\ Visible[i].body.form = "call"
                 /\ Visible[i].body.within \in within}

\* Mutant of FindExec: imported declarations are not searched.
FindExecLocal(types, name) ==
  First({i \in Local : Visible[i].type \in types /\ Visible[i].name = name})

\* The first local declaration of one of the types, else the first imported one.
FindExec(types, name) ==
  LET matches == {i \in DOMAIN Visible : Visible[i].type \in types /\ Visible[i].name = name}
      own     == matches \cap Local
  IN  IF own # {} THEN First(own) ELSE First(matches)

WrongArity(i, types) ==
  LET target == FindExec(types, Visible[i].body.left)
  IN  target # 0 /\ Len(Visible[target].params) # Visible[i].body.args

\* Names of type_registry.c, of which only the existence matters here.
DeclaredTypes == {Visible[i].name : i \in {j \in DOMAIN Visible : Visible[j].type \in {"unit", "dimension"}}}

\* The annotations of the imported declarations are looked up in this program too.
UnknownTypes ==
  {i \in DOMAIN Visible :
     /\ Visible[i].type \in ExecType
     /\ Visible[i].params # << >>
     /\ ~ Visible[i].annotation \subseteq DeclaredTypes}

Typecheck ==
  Pass("type", "perp",
       Report("unknown_type", UnknownTypes)
       \cup Report("arity_mismatch", {i \in Calls(TypeWalk) : WrongArity(i, ExecType)}))

----------------------------------------------------------------------------
(* perpcheck.c                                                              *)

Perpendiculars == {Visible[i].names : i \in {j \in DOMAIN Visible : Visible[j].type = "perpendicular"}}

\* Mutant of ArePerpendicular: only neighbours in a declaration.
ArePerpendicularNeighbours(m, n) ==
  \E s \in Perpendiculars : \E a \in 1..(Len(s) - 1) : {s[a], s[a + 1]} = {m, n}

\* pr_are_perp over the pairs a < b of every declaration.
ArePerpendicular(m, n) ==
  \E s \in Perpendiculars : \E a, b \in DOMAIN s : a < b /\ {s[a], s[b]} = {m, n}

\* pr_find_dim: the first dimension that has the name or has it among its members.
Spans(i, name) == i \in Dimensions /\ name \in Visible[i].members \cup {Visible[i].name}
FindDim(name) == First({i \in DOMAIN Visible : Spans(i, name)})

Crosses(e) ==
  LET l == FindDim(e.left)
      r == FindDim(e.right)
  IN  l # 0 /\ r # 0 /\ ArePerpendicular(Visible[l].name, Visible[r].name)

Comparisons ==
  {i \in Local : /\ Visible[i].type \in ExecType \cup {"kinded_value"}
                 /\ Visible[i].body.form = "equals"
                 /\ Visible[i].body.within \in PerpWalk}

Perpcheck ==
  Pass("perp", "exhaust",
       Report("perpendicular_cross", {i \in Comparisons : Crosses(Visible[i].body)}))

----------------------------------------------------------------------------
(* exhaustcheck.c, the bodies of meihua                                     *)

MeihuaCalls == {i \in Calls(MeihuaWalk) : Visible[i].type = "meihua"}

\* No name stands for one of the mathematical functions of known_functions.
UnknownFunctions == {i \in MeihuaCalls : FindExec({"meihua"}, Visible[i].body.left) = 0}

Identifiers(e) == IF e.form = "call" THEN {} ELSE IF e.form = "ident" THEN {e.left} ELSE {e.left, e.right}

UndefinedIdentifiers ==
  {i \in Local :
     /\ Visible[i].type = "meihua"
     /\ Visible[i].body.within \in MeihuaWalk
     /\ \E name \in Identifiers(Visible[i].body) :
           /\ \A k \in DOMAIN Visible[i].params : Visible[i].params[k] # name
           /\ FindExec({"meihua"}, name) = 0}

Exhaustcheck ==
  Pass("exhaust", "sem",
       Report("unknown_function", UnknownFunctions)
       \cup Report("meihua_arity", {i \in MeihuaCalls : WrongArity(i, {"meihua"})})
       \cup Report("undefined_identifier", UndefinedIdentifiers))

----------------------------------------------------------------------------
(* semcheck.c                                                               *)

\* is_member knows members written a | b only.
IsMember(i, name) == Visible[i].form = "enum" /\ name \in Visible[i].members

Mismatches ==
  {i \in Local :
     /\ Visible[i].type = "projection"
     /\ DeclarationFind(Visible[i].invariant) # 0
     /\ ~ IsMember(DeclarationFind(Visible[i].invariant), Visible[i].value)}

Semcheck == Pass("sem", "done", Report("not_a_member", Mismatches))

Next ==
  \/ \E d \in vocabulary : Import(d)
  \/ \E d \in vocabulary : Declare(d)
  \/ StartKinds
  \/ CheckKind
  \/ EndKinds
  \/ Typecheck
  \/ Perpcheck
  \/ Exhaustcheck
  \/ Semcheck

Spec == Init /\ [][Next]_vars

----------------------------------------------------------------------------
(* Properties                                                               *)

Category == {"scope_confusion", "reduplication", "missing_cast", "failure_to_derive",
             "unknown_type", "arity_mismatch", "perpendicular_cross", "unknown_function",
             "meihua_arity", "undefined_identifier", "not_a_member"}

TypeOK ==
  /\ vocabulary \in Vocabularies
  /\ imported \in Seq(Declaration) /\ Len(imported) <= MaxImported
  /\ locals \in Seq(Declaration) /\ Len(locals) <= MaxLocals
  /\ pass \in {"parse", "kind", "type", "perp", "exhaust", "sem", "done"}
  /\ next \in 1..(Len(locals) + 1)
  /\ table \in Seq([name : Name, kind : Kind \ {"none"}])
  /\ diags \in SUBSET [category : Category, at : DOMAIN Visible]

\* Three implementations search a dimension: the registry behind exhaustcheck.c and
\* perpcheck.c, the search of semcheck.c and the TypeScript emitter, and the registry
\* of the C emitter.  They search in different orders, yet the first two agree whether
\* there is one, no inflected match hides an exact one from the checkers when the C
\* emitter finds it, and all find the same one unless two declarations are in question.
LookupsAgree ==
  \A q \in Name :
    /\ RegistryFind(q) = 0 <=> DeclarationFind(q) = 0
    /\ CFind(q) # 0 => RegistryFind(q) # 0 /\ Visible[RegistryFind(q)].name = q
    /\ (\A i, j \in Dimensions :
          Visible[i].name \in Forms(q) /\ Visible[j].name \in Forms(q) => i = j)
       => RegistryFind(q) = DeclarationFind(q) /\ CFind(q) \in {0, RegistryFind(q)}

Reported(category, i) == [category |-> category, at |-> i] \in diags

\* Scope confusion.  A local value in a xi or R.k position that names a declaration is
\* reported if all declarations of that name which precede it, imported ones included,
\* are of kind zeta, and is not if none of them is.
Preceding(i) == {Visible[j].kind : j \in {k \in 1..i : Visible[k].name = Visible[i].body.left}}

ConfusionsFound ==
  pass \notin {"parse", "kind"} =>
    \A i \in Local :
      /\ Reported("scope_confusion", i) =>
           /\ Visible[i].type = "kinded_value"
           /\ Visible[i].kind \in {"xi", "rk"}
           /\ "zeta" \in Preceding(i)
      /\ (/\ Visible[i].type = "kinded_value"
          /\ Visible[i].kind \in {"xi", "rk"}
          /\ Visible[i].body.form = "ident"
          /\ Visible[i].body.within \in KindWalk
          /\ Preceding(i) = {"zeta"})
         => Reported("scope_confusion", i)

\* Perpendicularity.  When each side of a comparison belongs to one dimension only, the
\* comparison is reported exactly when some declaration, imported or local, before or
\* after, lists the two dimensions in either order.
DimensionsOf(name) == {Visible[i].name : i \in {j \in Dimensions : Spans(j, name)}}

DeclaredPerpendicular(m, n) ==
  \E i \in DOMAIN Visible :
    /\ Visible[i].type = "perpendicular"
    /\ \E a, b \in DOMAIN Visible[i].names :
          a # b /\ Visible[i].names[a] = m /\ Visible[i].names[b] = n

PerpendicularsFound ==
  pass \in {"exhaust", "sem", "done"} =>
    \A i \in Comparisons : \A m, n \in Name :
      DimensionsOf(Visible[i].body.left) = {m} /\ DimensionsOf(Visible[i].body.right) = {n}
        => (Reported("perpendicular_cross", i) <=> DeclaredPerpendicular(m, n))

\* Calls.  typecheck.c and exhaustcheck.c each resolve the target of a call.  When one
\* declaration has its name, a call with too many or too few arguments is an error of
\* the former, and one between meihua is a warning of the latter as well; a call with
\* the right number is neither.
Targets(name) == {i \in DOMAIN Visible : Visible[i].type \in ExecType /\ Visible[i].name = name}

CallsJudgedAlike ==
  pass \in {"sem", "done"} =>
    \A i \in Calls(Surrounding) : \A t \in Targets(Visible[i].body.left) :
      Targets(Visible[i].body.left) = {t} =>
        /\ Reported("arity_mismatch", i) <=> Len(Visible[t].params) # Visible[i].body.args
        /\ i \in MeihuaCalls /\ Visible[t].type = "meihua" =>
             (Reported("meihua_arity", i) <=> Reported("arity_mismatch", i))

\* kindcheck.c:6 says that putting information in the wrong kind is a compile error: a
\* program that nothing is reported of has no xi or R.k value that names a value of kind zeta.
\* Not true of the code, so in no run: names declared further down are not in the table.
NoConfusionAccepted ==
  pass = "done" /\ diags = {} =>
    \A i \in Local :
      Visible[i].type = "kinded_value" /\ Visible[i].kind \in {"xi", "rk"}
      /\ Visible[i].body.form = "ident" /\ Visible[i].body.within \in KindWalk =>
        \A j \in DOMAIN Visible :
          Visible[j].type = "kinded_value" /\ Visible[j].name = Visible[i].body.left
            => Visible[j].kind # "zeta"

=============================================================================

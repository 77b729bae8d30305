------------------------------ MODULE MCDriver ------------------------------
EXTENDS Driver, TLC

Plain == {"t_one", "a", "b", "c", "g", "h", "k", "m", "n", "no", "_"}
LowerTable == [n \in Plain |-> n] @@ ("A" :> "a") @@ ("tOne" :> "tone") @@ ("TONE" :> "tone") @@ ("T_ONE" :> "t_one")
CamelTable == ("t_one" :> "tOne") @@ [n \in Plain |-> n]

One(type) == Decl(type, "t_one")
Prog(decls) == [decls |-> decls, errors |-> FALSE, typeErrors |-> FALSE, warnings |-> FALSE]

(* One declaration of each kind, in the forms that drift.c tells apart. *)
Declared ==
    {[One("xi") EXCEPT !.value = v] : v \in {"v", None}}
    \cup {[One("zeta") EXCEPT !.targets = t] : t \in {{}, {"T_ONE"}}}
    \cup {[One("projection") EXCEPT !.arms = a] :
            a \in {<<"a", "b">>, <<"a", "a", None, "_", "b">>, <<"a", "b", "c", "A">>, <<None>>}}
    \cup {[One("meihua") EXCEPT !.params = n] : n \in 0 .. 1}
    \cup {[One("dimension") EXCEPT !.members = m, !.enum = e] : m \in {<<"a", "b">>}, e \in BOOLEAN}
    \cup {One("traversal"), One("unit")}

Nothing == [consts |-> <<>>, switches |-> <<>>, functions |-> <<>>]
Const(n, v) == [Nothing EXCEPT !.consts = <<[name |-> n, value |-> v]>>]
Block(n, b) == [Nothing EXCEPT !.switches = <<[var |-> n, branches |-> b]>>]
Function(n, k) == [Nothing EXCEPT !.functions = <<[name |-> n, params |-> k]>>]
Scanned1 ==
    {Const(n, v) : n \in {"tOne", "TONE"}, v \in {"v", "w", None}}
    \cup {Block(n, b) : n \in {"tOne", None},
            b \in {<<"a", "b">>, <<"A", "b", "_">>, <<"a", "A">>, <<"a">>, <<"c", "k">>}}
    \cup {Function(n, k) : n \in {"tOne", "T_ONE"}, k \in 0 .. 1}
    \cup {MergeScans(<<Block("k", <<"a", "b">>), Block("k", <<"a", "b", "c">>), Function("tOne", 1)>>),
          Nothing, Absent}

Directory(f, g) == [n \in Files |-> IF n = "f" THEN f ELSE g]
Target(x, y) == [n \in CodeFiles |-> IF n = "x.ts" THEN x ELSE y]

Comparisons ==
    {[dir |-> Directory(Prog(<<d>>), Absent), code |-> Target(x, y), modes |-> {"lint", "map"},
      drafts |-> {}, runs |-> 1, edits |-> 0] : d \in Declared, x \in Scanned1, y \in Scanned1}

(* Programs with casts and spaces, governed and not. *)
Cast(b) == [kind |-> "dR.k", body |-> b, call |-> None]
Input == [kind |-> "x", body |-> None, call |-> "m"]
Casting(bodies) == [Decl("traversal", "g") EXCEPT !.sections = <<Input>> \o [i \in DOMAIN bodies |-> Cast(bodies[i])]]
Wide == [Decl("dimension", "h") EXCEPT !.members = <<"a", "b", "c">>]
Thirds == Prog(<<Casting(<<"g", "g", "no">>), Decl("morphism", "m"), Decl("morphism", "n")>>)
Halves == Prog(<<Casting(<<"g", "no">>), Wide>>)
Governed == Prog(<<Casting(<<"g">>), Decl("import", "k")>>)
Gap == Prog(<<Wide, [One("projection") EXCEPT !.arms = <<"a">>, !.fields = 1]>>)
Uncast == Prog(<<[Wide EXCEPT !.enum = TRUE], Casting(<<>>)>>)
Clean == Prog(<<[One("meihua") EXCEPT !.ok = TRUE]>>)
Issue == Prog(<<Wide, One("meihua")>>)
Broken == [Prog(<<One("traversal")>>) EXCEPT !.errors = TRUE]
IllTyped == [Clean EXCEPT !.typeErrors = TRUE]
Warned == [Clean EXCEPT !.warnings = TRUE]

Statuses ==
    {[dir |-> Directory(f, g), code |-> Target(Function("tOne", k), y),
      modes |-> {"lint", "audit", "diff"}, drafts |-> {}, runs |-> 1, edits |-> 0] :
        f \in {Thirds, Governed, Clean, Broken, IllTyped, Warned}, g \in {Absent, Clean, Warned, Broken},
        k \in 0 .. 1, y \in {Absent, Nothing, Function("tOne", 1)}}

Builds ==
    {[dir |-> Directory(f, g), code |-> Target(Absent, Absent), modes |-> {"compile"},
      drafts |-> {Broken, Gap, Governed}, runs |-> 3, edits |-> 1] :
        f \in {Thirds, Halves}, g \in {Uncast, IllTyped}}
Measures ==
    {[dir |-> Directory(f, g), code |-> Target(Absent, Absent), modes |-> {"convergence"},
      drafts |-> {Governed, Gap}, runs |-> 3, edits |-> 1] :
        f \in {Governed, Gap, Uncast, Issue}, g \in {Absent, Issue, Uncast}}

MCWorlds == Comparisons \cup Statuses \cup Builds \cup Measures
Symmetry == Permutations(Procs) \cup Permutations(Outputs)
=============================================================================

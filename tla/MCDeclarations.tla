--------------------------- MODULE MCDeclarations ---------------------------
(****************************************************************************)
(* Instances for TLC.  A program is drawn from one of three vocabularies:   *)
(* dimensions that differ by a trailing s and what refers to them, values   *)
(* of several kinds, and execution layers that call each other.             *)
(****************************************************************************)
EXTENDS Declarations

CONSTANTS role, hue, p, q, f

MCStem == {role, hue, p, q, f}

Plain(stem) == <<stem, 0>>
Dim(name, form, members) ==
  [type |-> "dimension", name |-> name, kind |-> "none", form |-> form, members |-> members]
Perp(s) == [type |-> "perpendicular", name |-> s[1], kind |-> "none", names |-> s]
Value(stem, kind, e) == [type |-> "kinded_value", name |-> Plain(stem), kind |-> kind, body |-> e]
Ident(stem, within) == [form |-> "ident", left |-> Plain(stem), within |-> within]
Equals(l, r, within) == [form |-> "equals", left |-> Plain(l), right |-> Plain(r), within |-> within]
Call(stem, n, within) == [form |-> "call", left |-> Plain(stem), args |-> n, within |-> within]
Exec(type, stem, params, annotation, e) ==
  [type |-> type, name |-> Plain(stem), kind |-> InferKind(type),
   params |-> params, annotation |-> annotation, body |-> e]

Dimensional ==
  {Dim(Plain(role), "enum", {Plain(p)}), Dim(<<role, 1>>, "list", {Plain(p)}),
   Dim(<<role, 1>>, "enum", {}), Dim(Plain(hue), "enum", {Plain(q)}),
   Perp(<<Plain(role), Plain(hue)>>), Perp(<<Plain(hue), <<role, 1>>, Plain(role)>>),
   Value(f, "xi", Equals(p, q, "list")), Value(f, "xi", Equals(q, p, "if")),
   [type |-> "projection", name |-> Plain(f), kind |-> "none",
    invariant |-> Plain(role), value |-> Plain(p)]}

Kinded ==
  {Value(p, "zeta", Ident(f, "nothing")), Value(p, "xi", Ident(q, "nothing")),
   Value(q, "rk", Ident(p, "list")), Value(q, "xi", Ident(p, "arrow")),
   Value(q, "zeta", Ident(p, "nothing")), Perp(<<Plain(p), Plain(f)>>),
   [type |-> "traversal", name |-> Plain(p), kind |-> "none", sections |-> {"omega"}],
   Exec("songqiao", p, << >>, {}, Ident(q, "nothing"))}

Calling ==
  {Exec("meihua", f, <<Plain(p)>>, {Plain(role)}, Ident(p, "nothing")),
   Exec("zhulin", f, << >>, {}, Call(q, 0, "nothing")),
   Exec("meihua", q, << >>, {}, Call(f, 0, "list")),
   Exec("meihua", q, <<Plain(p)>>, {}, Call(f, 1, "if")),
   Value(p, "omega", Call(q, 1, "decidable")),
   [type |-> "unit", name |-> Plain(role), kind |-> "none"]}

MCVocabularies == {Dimensional, Kinded, Calling}
=============================================================================

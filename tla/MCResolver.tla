------------------------------ MODULE MCResolver ------------------------------
(****************************************************************************)
(* Instances of the resolver for TLC: every import graph over a root and    *)
(* two modules with at most two import declarations per file (repetitions,  *)
(* self-imports and imports of the root included), every choice of the      *)
(* modules that can be read.                                                *)
(****************************************************************************)
EXTENDS ResolverGraph

CONSTANTS root, a, b

MCModule == {root, a, b}
MCImportLists == UNION {[1..n -> MCModule] : n \in 0..2}

==============================================================================

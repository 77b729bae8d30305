----------------------------- MODULE MCDiagLists -----------------------------
(****************************************************************************)
(* Instance of DiagLists for TLC: two categories are interchangeable, and   *)
(* the limits (10 and 50 in the code) are scaled to 2 and 3 so that the     *)
(* limit of a category is met before, at and after the total limit.         *)
(****************************************************************************)
EXTENDS DiagLists, TLC

CONSTANTS c1, c2

MCCategory == {c1, c2}
CategorySymmetry == Permutations(MCCategory)

==============================================================================

---------------------------- MODULE MCProjections ----------------------------
(****************************************************************************)
(* Instances for TLC: dimensions of two members, up to three case arms of   *)
(* every shape and body, and the nine ways the header can name dimensions.  *)
(* Room for two pairs, one less than the arms, so that the arrays of the    *)
(* checker fill up.                                                         *)
(****************************************************************************)
EXTENDS Projections, TLC

CONSTANTS a, b, x, y

MCMember == {a, b}
MCSetting == {x, y}

\* The dispatch modes exist without a context only.
MCHeaders == {h \in HeaderType : h.yields # "value" =>
                                   h.context = "absent" /\ h.invariant = "exact"}

MCSymmetry == Permutations(MCMember) \cup Permutations(MCSetting)

==============================================================================

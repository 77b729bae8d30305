----------------------------- MODULE ModuleLoader -----------------------------
(****************************************************************************)
(* What the import resolver promises: modules are loaded nested, each one   *)
(* at most once, none while it is already being loaded, and every load that *)
(* begins is completed.                                                     *)
(****************************************************************************)
EXTENDS Sequences, Integers

CONSTANT Module

VARIABLES
  loading,  \* the modules being loaded, the innermost last
  shared    \* the modules that were loaded and may be shared

vars == <<loading, shared>>

Init == loading = << >> /\ shared = {}

Begin(m) ==
  /\ m \notin shared
  /\ \A k \in 1..Len(loading) : loading[k] # m
  /\ loading' = Append(loading, m)
  /\ UNCHANGED shared

Complete ==
  /\ loading # << >>
  /\ shared' = shared \cup {loading[Len(loading)]}
  /\ loading' = SubSeq(loading, 1, Len(loading) - 1)

Next == Complete \/ \E m \in Module : Begin(m)

\* A load that is under way is completed.
Spec == Init /\ [][Next]_vars /\ WF_vars(Complete)

==============================================================================

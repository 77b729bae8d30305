---------------------------- MODULE ResolverGraph ----------------------------
(****************************************************************************)
(* What the resolver computes, against the import relation of the files:    *)
(* the reference is the transitive closure of "imports", which the resolver *)
(* never builds.  What is below a module in that relation is the smallest   *)
(* set that has what the module imports, and with every module its imports. *)
(****************************************************************************)
EXTENDS Resolver

\* The files a module imports.  A name without a file imports nothing.
Imported(m) == {imports[m][i] : i \in 1..Len(imports[m])} \cap readable

Closed(S) == \A m \in S : Imported(m) \subseteq S

Below(m) == {n \in Module : \A S \in SUBSET Module : Imported(m) \subseteq S /\ Closed(S) => n \in S}

\* The files the resolution has to read: the root and what it imports, directly
\* or through other modules.
Reachable == {Root} \cup Below(Root)

CyclicImports == \E m \in Reachable : m \in Below(m)

Reported(kind) == \E e \in errors : e.kind = kind

\* A circular import is reported exactly when the files have one, whichever file
\* the resolver enters the cycle through and in whatever order the imports come.
CyclesAreReported == Done => (Reported("circular") <=> CyclicImports)

\* The resolution reads the files it has to, and no other, errors or not.
ReadsTheReachable == Done => {programs[p].mod : p \in 1..Len(programs)} = Reachable

==============================================================================

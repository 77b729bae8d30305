------------------------------ MODULE Recompiler ------------------------------
(****************************************************************************)
(* What a file watcher promises: every file has an output, which is only    *)
(* ever generated anew from a text of the file that is at least as new.     *)
(* Texts are numbers that grow.  Both watchers of watcher.c implement it,   *)
(* whatever they miss: it says what an output may be, not that there is     *)
(* one of each text.                                                        *)
(****************************************************************************)
EXTENDS Integers

CONSTANTS
  File,
  Number  \* the numbers of texts

VARIABLES
  written,  \* the last text written of each file
  output    \* the text the output of each file was generated from

vars == <<written, output>>

Init ==
  /\ written = [f \in File |-> 0]
  /\ output = written

Save(f) ==
  /\ \E n \in Number : n > written[f] /\ written' = [written EXCEPT ![f] = n]
  /\ UNCHANGED output

Recompile(f) ==
  /\ \E n \in Number : /\ output[f] <= n /\ n <= written[f]
                       /\ output' = [output EXCEPT ![f] = n]
  /\ UNCHANGED written

Next == \E f \in File : Save(f) \/ Recompile(f)

Spec == Init /\ [][Next]_vars

\* An output is never replaced by one of an older text.
NeverOlder == [][\A f \in File : output'[f] >= output[f]]_vars

==============================================================================

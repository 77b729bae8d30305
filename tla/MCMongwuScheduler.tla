-------------------------- MODULE MCMongwuScheduler --------------------------
(****************************************************************************)
(* Instances of the scheduler for TLC: the idle process and up to three     *)
(* others, of which the kernel creates two; processes that make the calls   *)
(* the kernel's own processes make, ones that yield or exit as well, and    *)
(* ones that make all calls.                                                *)
(****************************************************************************)
EXTENDS MongwuScheduler

Shipped == {"write", "getpid"}
OnlyShipped == {Shipped}
OnlyExit == {{"exit"}}
AllSets == {Shipped, Shipped \cup {"yield"}, {"exit"}, Shipped \cup {"yield", "exit"}}

==============================================================================

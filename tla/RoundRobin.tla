------------------------------ MODULE RoundRobin ------------------------------
(****************************************************************************)
(* The scheduling policy the kernel's specification declares                *)
(* (ordbok/process.szh: dimension scheduler_policy, meihua next_pid,        *)
(* projection scheduler_action): processes run in the order of their        *)
(* numbers, wrapping around; the turn always passes on, over those that are *)
(* gone, who never come back.  Processes may join before the first turn     *)
(* ends.                                                                    *)
(****************************************************************************)
EXTENDS Integers

VARIABLES
  current,  \* whose turn it is
  count,    \* how many processes there are
  gone      \* the processes that were terminated and get no turn

vars == <<current, count, gone>>

\* next_pid, applied k times.
next_pid(k) == IF current + k >= count THEN current + k - count ELSE current + k

Init == current = 0 /\ count = 1 /\ gone = {}

Join ==
  /\ current = 0
  /\ count' = count + 1
  /\ UNCHANGED <<current, gone>>

Switch ==
  /\ \E k \in 1..count :
       /\ current' = next_pid(k)
       /\ next_pid(k) \notin gone
       /\ \A j \in 1..(k - 1) : next_pid(j) \in gone
  /\ UNCHANGED <<count, gone>>

Terminate ==
  /\ \E p \in 0..(count - 1) : p # current /\ gone' = gone \cup {p}
  /\ UNCHANGED <<current, count>>

Next == Join \/ Switch \/ Terminate

Spec == Init /\ [][Next]_vars /\ WF_vars(Switch)

==============================================================================

------------------------- MODULE MongwuSchedulerProofs -------------------------
(****************************************************************************)
(* What the Mongwu scheduler guarantees for a process table of any size and *)
(* for processes that make any system calls.                                *)
(*                                                                          *)
(* The search of timer_handler ends, because the current process is READY   *)
(* at that moment, and it passes over no process but those that are gone.   *)
(* That follows from the agreement of the table with the processor, which   *)
(* is inductive once the range of the process numbers is known, whatever    *)
(* the kernel stack holds, and whatever number a thread in sys_exit has     *)
(* read before another timer.  Only process 0 is current while others join. *)
(****************************************************************************)
EXTENDS MongwuScheduler, WellFoundedInduction, TLAPS

TableInv ==
  /\ live \in BOOLEAN
  /\ processCount \in 1..MaxProcs
  /\ currentPid \in 0..(processCount - 1)
  /\ procState \in [Pid -> {"RUNNING", "READY", "TERMINATED"}]
  /\ ~live => currentPid = 0
  /\ TableMatchesCpu

------------------------------------------------------------------------------
(* The search for the next process *)

\* .find_next stops at the first READY process after the current one, when that one is
\* READY: the search comes round to it at the latest.
LEMMA FindNextIsFirstReady ==
  ASSUME processCount \in Nat \ {0}, currentPid \in 0..(processCount - 1),
         NEW states, states[currentPid] = "READY"
  PROVE  \E k \in 1..processCount :
            /\ FindNext(states) = Policy!next_pid(k)
            /\ states[Policy!next_pid(k)] = "READY"
            /\ \A j \in 1..(k - 1) : states[Policy!next_pid(j)] # "READY"
<1> DEFINE after(k) == IF currentPid + k < processCount
                       THEN currentPid + k ELSE currentPid + k - processCount
           First(k) == /\ states[after(k)] = "READY"
                       /\ \A j \in 1..(k - 1) : states[after(j)] # "READY"
           ready == {k \in 1..processCount : states[after(k)] = "READY"}
           d == CHOOSE k \in 1..processCount : First(k)
           R == OpToRel(<, Nat)
<1>1. processCount \in ready /\ ready \in SUBSET Nat
  BY DEF after
<1>2. PICK k \in ready : \A j \in ready : ~(j < k)
  <2>1. IsWellFoundedOn(R, Nat)
    BY NatLessThanWellFounded
  <2>2. \A x, y \in Nat : <<x, y>> \in R <=> x < y
    BY DEF OpToRel
  <2> HIDE DEF R, ready
  <2>3. PICK k \in ready : \A j \in ready : ~(<<j, k>> \in R)
    BY <1>1, <2>1, WFMin
  <2> QED BY <1>1, <2>2, <2>3
<1>3. k \in 1..processCount /\ First(k)
  <2>1. \A j \in 1..(k - 1) : j \in 1..processCount /\ j < k
    BY <1>2
  <2> QED BY <1>2, <2>1
<1> HIDE DEF First
<1>4. d \in 1..processCount /\ First(d)
  BY <1>3
<1>5. FindNext(states) = after(d)
  BY DEF FindNext, First
<1> HIDE DEF d
<1>6. \A j \in 1..processCount : after(j) = Policy!next_pid(j)
  BY DEF Policy!next_pid
<1>7. \A j \in 1..(d - 1) : j \in 1..processCount
  BY <1>4
<1> QED BY <1>4, <1>5, <1>6, <1>7 DEF First

\* A context switch: it marks the current process READY, and the next one that is not
\* gone RUNNING (timer_handler).
LEMMA SwitchKeepsTable ==
  ASSUME TableInv, live, NEW t, NEW stack, SwitchFrom(t, stack)
  PROVE  /\ TableInv'
         /\ Policy!Switch
<1> DEFINE states == [procState EXCEPT ![currentPid] = "READY"]
           next   == FindNext(states)
<1>1. /\ procState' = [states EXCEPT ![next] = "RUNNING"] /\ currentPid' = next
      /\ live' = live /\ processCount' = processCount
  BY DEF SwitchFrom
<1>2. /\ processCount \in Nat \ {0} /\ currentPid \in 0..(processCount - 1)
      /\ procState \in [Pid -> {"RUNNING", "READY", "TERMINATED"}]
      /\ 0..(processCount - 1) \subseteq Pid
  BY SchedulerAssumption DEF TableInv, Pid
<1>3. /\ states \in [Pid -> {"RUNNING", "READY", "TERMINATED"}]
      /\ states[currentPid] = "READY"
      /\ \A p \in 0..(processCount - 1) : p # currentPid => states[p] = procState[p]
      /\ \A p \in 0..(processCount - 1) : states[p] # "RUNNING"
  BY <1>2 DEF TableInv, TableMatchesCpu
<1> HIDE DEF states
<1>4. \A p \in 0..(processCount - 1) : states[p] = "READY" <=> p \notin Gone
  BY <1>2, <1>3 DEF Gone
<1>5. PICK k \in 1..processCount :
            /\ next = Policy!next_pid(k)
            /\ states[Policy!next_pid(k)] = "READY"
            /\ \A j \in 1..(k - 1) : states[Policy!next_pid(j)] # "READY"
  BY <1>2, <1>3, FindNextIsFirstReady
<1>6. \A j \in 1..processCount : Policy!next_pid(j) \in 0..(processCount - 1)
  BY <1>2 DEF Policy!next_pid
<1>7. next \in 0..(processCount - 1) /\ states[next] = "READY" /\ next \notin Gone
  BY <1>4, <1>5, <1>6
<1>8. \A j \in 1..(k - 1) : Policy!next_pid(j) \in Gone
  <2>1. \A j \in 1..(k - 1) : j \in 1..processCount
    BY <1>2
  <2> QED BY <1>4, <1>5, <1>6, <2>1
<1> HIDE DEF next
<1>9. /\ procState' \in [Pid -> {"RUNNING", "READY", "TERMINATED"}]
      /\ procState'[next] = "RUNNING"
      /\ \A p \in 0..(processCount - 1) : p # next => procState'[p] = states[p]
  BY <1>1, <1>2, <1>3, <1>7
<1>10. TableMatchesCpu'
  BY <1>1, <1>2, <1>3, <1>7, <1>9 DEF TableMatchesCpu
<1>11. TableInv'
  BY <1>1, <1>2, <1>7, <1>9, <1>10 DEF TableInv
<1>12. Gone' = Gone
  <2>1. \A p \in 0..(processCount - 1) :
           (p # next /\ procState'[p] = "TERMINATED") <=> p \in Gone
    BY <1>3, <1>4, <1>7, <1>9 DEF Gone
  <2>2. Gone \subseteq 0..(processCount - 1)
    BY DEF Gone
  <2>3. Gone' = {p \in 0..(processCount - 1) : p # next /\ procState'[p] = "TERMINATED"}
    BY <1>1 DEF Gone
  <2> QED BY <2>1, <2>2, <2>3
<1>13. Policy!Switch
  BY <1>1, <1>5, <1>7, <1>8, <1>12 DEF Policy!Switch
<1> QED BY <1>11, <1>13

------------------------------------------------------------------------------
(* The invariant *)

\* The idle process alone is in the table, and it runs.
LEMMA TableInit == Init => TableInv
<1> SUFFICES ASSUME Init PROVE TableInv
  OBVIOUS
<1>1. /\ processCount = 1 /\ currentPid = 0 /\ live = FALSE
      /\ procState = [p \in Pid |-> "RUNNING"]
  BY DEF Init
<1>2. 1 \in 1..MaxProcs /\ 0 \in Pid
  BY SchedulerAssumption DEF Pid
<1>3. processCount - 1 = 0 /\ currentPid < processCount /\ currentPid \in 0..(processCount - 1)
  BY <1>1
<1>4. \A p \in 0..0 : procState[p] = "RUNNING" /\ p = currentPid
  BY <1>1, <1>2
<1>5. TableMatchesCpu
  BY <1>3, <1>4 DEF TableMatchesCpu
<1>6. procState \in [Pid -> {"RUNNING", "READY", "TERMINATED"}]
  BY <1>1
<1> QED BY <1>1, <1>2, <1>3, <1>5, <1>6 DEF TableInv

\* A step that changes nothing of the table but one entry, which it marks TERMINATED,
\* while the processor is in sys_exit (.do_exit).
LEMMA MarkKeepsTable ==
  ASSUME TableInv, NEW q, procState' = [procState EXCEPT ![q] = "TERMINATED"],
         cpu'.at \in {"exit", "marking"}, UNCHANGED <<live, processCount, currentPid>>
  PROVE  TableInv' /\ (Policy!Terminate \/ UNCHANGED Policy!vars)
<1>1. /\ processCount \in Nat /\ currentPid \in 0..(processCount - 1)
      /\ procState \in [Pid -> {"RUNNING", "READY", "TERMINATED"}]
      /\ 0..(processCount - 1) \subseteq Pid
  BY SchedulerAssumption DEF TableInv, Pid
<1>2. /\ procState' \in [Pid -> {"RUNNING", "READY", "TERMINATED"}]
      /\ \A p \in Pid : procState'[p] = IF p = q THEN "TERMINATED" ELSE procState[p]
  BY <1>1
<1>3. TableMatchesCpu'
  <2>1. \A p \in 0..(processCount - 1) : procState'[p] = "RUNNING" => p = currentPid
    BY <1>1, <1>2 DEF TableInv, TableMatchesCpu
  <2>2. procState'[currentPid] # "READY"
    BY <1>1, <1>2 DEF TableInv, TableMatchesCpu
  <2> QED BY <1>1, <2>1, <2>2 DEF TableMatchesCpu
<1>4. TableInv'
  BY <1>2, <1>3 DEF TableInv
<1>5. Gone' = {p \in 0..(processCount - 1) : p # currentPid /\ procState'[p] = "TERMINATED"}
  BY DEF Gone
<1>6. CASE q \in 0..(processCount - 1) /\ q # currentPid
  <2>1. Gone' = Gone \cup {q}
    BY <1>1, <1>2, <1>5, <1>6 DEF Gone
  <2> QED BY <1>4, <1>6, <2>1 DEF Policy!Terminate
<1>7. CASE ~(q \in 0..(processCount - 1) /\ q # currentPid)
  <2>1. Gone' = Gone
    BY <1>1, <1>2, <1>5, <1>7 DEF Gone
  <2> QED BY <1>4, <2>1 DEF Policy!vars
<1> QED BY <1>6, <1>7

\* The steps that switch to no other process keep the table in agreement with the
\* processor, and follow the policy.
LEMMA OtherStepsKeepTable ==
  ASSUME TableInv,
         \/ ProcessCreate \/ GoLive \/ Service \/ Exit \/ ReadCurrent \/ Mark
         \/ UNCHANGED vars
  PROVE  TableInv' /\ (Policy!Join \/ Policy!Terminate \/ UNCHANGED Policy!vars)
<1>0. /\ processCount \in 1..MaxProcs /\ currentPid \in 0..(processCount - 1)
      /\ procState \in [Pid -> {"RUNNING", "READY", "TERMINATED"}]
      /\ MaxProcs \in Nat /\ currentPid \in Pid
      /\ \A p \in 0..(processCount - 1) : p \in Pid
  BY SchedulerAssumption DEF TableInv, Pid
<1>1. CASE ProcessCreate
  <2>1. /\ ~live /\ processCount < MaxProcs
        /\ procState' = [procState EXCEPT ![processCount] = "READY"]
        /\ processCount' = processCount + 1
        /\ live' = live /\ currentPid' = currentPid /\ cpu' = cpu
    BY <1>1 DEF ProcessCreate
  <2>2. /\ processCount \in Pid /\ processCount' \in 1..MaxProcs
        /\ currentPid' \in 0..(processCount' - 1)
        /\ currentPid # processCount
        /\ \A p \in 0..(processCount' - 1) : p \in 0..(processCount - 1) \/ p = processCount
        /\ 0..(processCount - 1) \subseteq 0..(processCount' - 1)
        /\ processCount \notin 0..(processCount - 1)
    BY <1>0, <2>1 DEF Pid
  <2>3. /\ procState' \in [Pid -> {"RUNNING", "READY", "TERMINATED"}]
        /\ procState'[processCount] = "READY"
        /\ \A p \in 0..(processCount - 1) : procState'[p] = procState[p]
    BY <1>0, <2>1, <2>2
  <2>4. TableMatchesCpu'
    <3>1. currentPid' < processCount'
      BY <1>0, <2>1
    <3>2. \A p \in 0..(processCount' - 1) : procState'[p] = "RUNNING" => p = currentPid'
      BY <2>1, <2>2, <2>3 DEF TableInv, TableMatchesCpu
    <3>3. procState'[currentPid'] = procState[currentPid]
      BY <1>0, <2>1, <2>3
    <3> QED BY <2>1, <3>1, <3>2, <3>3 DEF TableInv, TableMatchesCpu
  <2>5. Gone' = Gone
    <3>1. Gone' = {p \in 0..(processCount' - 1) : p # currentPid /\ procState'[p] = "TERMINATED"}
      BY <2>1 DEF Gone
    <3> QED BY <2>2, <2>3, <3>1 DEF Gone
  <2>6. Policy!Join
    BY <2>1, <2>5 DEF TableInv, Policy!Join
  <2> QED BY <2>1, <2>2, <2>3, <2>4, <2>6 DEF TableInv
<1>2. CASE GoLive
  BY <1>2 DEF GoLive, TableInv, TableMatchesCpu, Gone, Policy!vars
<1>3. CASE Service
  BY <1>3 DEF Service, TableInv, TableMatchesCpu, Gone, Policy!vars
<1>4. CASE Exit \/ Mark
  <2>1. \E q : procState' = [procState EXCEPT ![q] = "TERMINATED"]
    BY <1>4 DEF Exit, Mark
  <2>2. cpu'.at \in {"exit", "marking"} /\ UNCHANGED <<live, processCount, currentPid>>
    BY <1>4 DEF Exit, Mark
  <2> QED BY <2>1, <2>2, MarkKeepsTable
<1>5. CASE ReadCurrent
  BY <1>5 DEF ReadCurrent, TableInv, TableMatchesCpu, Gone, Policy!vars
<1>6. CASE UNCHANGED vars
  BY <1>6 DEF vars, TableInv, TableMatchesCpu, Gone, Policy!vars
<1> QED BY <1>1, <1>2, <1>3, <1>4, <1>5, <1>6

\* The invariant is preserved, and every step is one of the policy or leaves it alone.
LEMMA TableNext ==
  ASSUME TableInv, [Next]_vars
  PROVE  TableInv' /\ [Policy!Next]_(Policy!vars)
<1>1. CASE Timer
  <2>1. live /\ SwitchFrom(cpu, kernelStack)
    BY <1>1 DEF Timer
  <2> QED BY <2>1, SwitchKeepsTable DEF Policy!Next
<1>2. CASE Yield
  <2>1. live /\ \E t, stack : SwitchFrom(t, stack)
    BY <1>2 DEF Yield, Calls
  <2> QED BY <2>1, SwitchKeepsTable DEF Policy!Next
<1>3. CASE \/ ProcessCreate \/ GoLive \/ Service \/ Exit \/ ReadCurrent \/ Mark
           \/ UNCHANGED vars
  BY <1>3, OtherStepsKeepTable DEF Policy!Next
<1> QED BY <1>1, <1>2, <1>3 DEF Next

------------------------------------------------------------------------------
(* The theorems *)

\* The process table agrees with the processor: no process but the current one is
\* RUNNING, and that one is TERMINATED only inside sys_exit (timer_handler, .do_exit,
\* process_create).
THEOREM TableAgrees == Spec => []TableMatchesCpu
<1>1. TableInv => TableMatchesCpu
  BY DEF TableInv
<1>2. TableInv /\ [Next]_vars => TableInv'
  BY TableNext
<1> QED BY <1>1, <1>2, TableInit, PTL DEF Spec

\* The kernel switches in the order that process.szh declares, for a table of any size,
\* with processes that yield and exit.
THEOREM FollowsThePolicy == Spec => RoundRobinOrder
<1>1. Init => Policy!Init
  BY DEF Init, Policy!Init, Gone
<1>2. TableInv /\ [Next]_vars => TableInv' /\ [Policy!Next]_(Policy!vars)
  BY TableNext
<1> QED BY <1>1, <1>2, TableInit, PTL DEF Spec, RoundRobinOrder

------------------------------------------------------------------------------
(* The kernel stack                                                         *)
(*                                                                          *)
(* A thread is interrupted at the top of the stack, or, in the handler of a *)
(* system call, 11 quadwords below it.  So its registers end at a depth of  *)
(* 20 or 32, a resumed process finds its interrupt frame at 5 or 17, and    *)
(* what lies there is again such a thread, whoever wrote it.                *)

StackThread(t) == t.depth \in {0, 11} /\ (t.at = "yield" => t.depth = 11)

\* What a stack of the kernel looks like, also in the middle of a handler.
StackShape(stack) ==
  /\ DOMAIN stack = 1..64
  /\ \A d \in 1..64 : StackThread(stack[d].of)
  /\ \A d \in 33..64 : stack[d] = Unwritten

StackInv ==
  /\ TableInv
  /\ StackShape(kernelStack)
  /\ StackThread(cpu)
  /\ pcbRsp \in [Pid -> {Zeroed, OwnStack, 0, 20, 32}]
  /\ \A p \in 0..(processCount - 1) : p # currentPid => pcbRsp[p] \in {OwnStack, 20, 32}

LEMMA Lengths ==
  /\ Len(InterruptFrame) = 5 /\ Len(TimerRegisters) = 15 /\ Len(SyscallRegisters) = 6
BY DEF InterruptFrame, TimerRegisters, SyscallRegisters

LEMMA Depths ==
  ASSUME NEW t, StackThread(t)
  PROVE  EntryDepth(t) \in {0, 12} /\ TimerDepth(t) \in {20, 32}
<1>1. 0 % 2 = 0 /\ 11 % 2 = 1
  OBVIOUS
<1>2. EntryDepth(t) \in {0, 12}
  BY <1>1 DEF StackThread, EntryDepth
<1> QED BY <1>2, Lengths DEF TimerDepth

\* Pushes that end above the 33rd quadword keep the shape.
LEMMA PushShape ==
  ASSUME NEW stack, StackShape(stack), NEW d \in Nat, NEW t, StackThread(t), NEW regs,
         Len(regs) \in Nat, d + Len(regs) <= 32
  PROVE  StackShape(Push(stack, d, t, regs))
<1> DEFINE pushed == Push(stack, d, t, regs)
<1>1. DOMAIN pushed = 1..64
  BY DEF Push, StackShape
<1>2. \A q \in 1..64 :
         pushed[q] = IF q \in (d + 1)..(d + Len(regs)) THEN [of |-> t, reg |-> regs[q - d]] ELSE stack[q]
  BY DEF Push, StackShape
<1>3. \A q \in 33..64 : q \in 1..64 /\ q \notin (d + 1)..(d + Len(regs))
  OBVIOUS
<1> HIDE DEF pushed
<1>4. \A q \in 1..64 : pushed[q].of = t \/ pushed[q].of = stack[q].of
  <2> TAKE q \in 1..64
  <2>1. CASE q \in (d + 1)..(d + Len(regs))
    <3>1. pushed[q] = [of |-> t, reg |-> regs[q - d]]
      BY <1>2, <2>1
    <3> QED BY <3>1
  <2>2. CASE q \notin (d + 1)..(d + Len(regs))
    BY <1>2, <2>2
  <2> QED BY <2>1, <2>2
<1> QED BY <1>1, <1>2, <1>3, <1>4 DEF StackShape, StackThread, pushed

LEMMA TimerEntryShape ==
  ASSUME NEW stack, StackShape(stack), NEW t, StackThread(t)
  PROVE  StackShape(TimerEntry(stack, t))
<1>1. EntryDepth(t) \in {0, 12}
  BY Depths
<1>2. EntryDepth(t) \in Nat /\ Len(InterruptFrame) \in Nat /\ EntryDepth(t) + Len(InterruptFrame) <= 32
  BY <1>1, Lengths
<1>3. StackShape(Interrupt(stack, t))
  BY <1>2, PushShape DEF Interrupt
<1>4. /\ EntryDepth(t) + Len(InterruptFrame) \in Nat /\ Len(TimerRegisters) \in Nat
      /\ EntryDepth(t) + Len(InterruptFrame) + Len(TimerRegisters) <= 32
  BY <1>1, Lengths
<1> QED BY <1>3, <1>4, PushShape DEF TimerEntry

LEMMA SyscallEntryShape ==
  ASSUME NEW stack, StackShape(stack), NEW t, StackThread(t), ~InKernel(t)
  PROVE  StackShape(SyscallEntry(stack, t)) /\ SyscallDepth(t) = 11
<1>1. EntryDepth(t) = 0
  BY DEF EntryDepth
<1>2. EntryDepth(t) \in Nat /\ Len(InterruptFrame) \in Nat /\ EntryDepth(t) + Len(InterruptFrame) <= 32
  BY <1>1, Lengths
<1>3. StackShape(Interrupt(stack, t))
  BY <1>2, PushShape DEF Interrupt
<1>4. /\ EntryDepth(t) + Len(InterruptFrame) \in Nat /\ Len(SyscallRegisters) \in Nat
      /\ EntryDepth(t) + Len(InterruptFrame) + Len(SyscallRegisters) <= 32
  BY <1>1, Lengths
<1>5. StackShape(SyscallEntry(stack, t))
  BY <1>3, <1>4, PushShape DEF SyscallEntry
<1> QED BY <1>1, <1>5, Lengths DEF SyscallDepth

\* Whatever was overwritten, a resumed process ends in a thread of the stack's shape.
LEMMA ResumeShape ==
  ASSUME NEW stack, StackShape(stack), NEW d \in {20, 32}
  PROVE  StackThread(Resume(stack, d).thread)
<1> DEFINE t == Iretq(stack, d - 15)
<1>1. StackThread(Fault)
  BY DEF StackThread, Fault
<1>2. \A q \in {5, 17} : StackThread(Iretq(stack, q))
  BY <1>1 DEF StackShape, Iretq
<1>3. StackThread(t)
  BY <1>2
<1> HIDE DEF t
<1>4. t.at = "yield" => SyscallReturn(stack, t.depth) = Iretq(stack, 5)
  BY <1>3, Lengths DEF StackThread, SyscallReturn
<1>5. Resume(stack, d).thread = IF t.at = "yield" THEN SyscallReturn(stack, t.depth) ELSE t
  BY Lengths DEF Resume, t
<1> QED BY <1>2, <1>3, <1>4, <1>5

LEMMA SwitchKeepsStack ==
  ASSUME StackInv, live, NEW t, StackThread(t), NEW stack, StackShape(stack), SwitchFrom(t, stack)
  PROVE  StackInv'
<1> DEFINE saved == TimerEntry(stack, t)
           rsps  == [pcbRsp EXCEPT ![currentPid] = TimerDepth(t)]
           next  == currentPid'
           back  == Resume(saved, rsps[next])
<1>1. /\ kernelStack' = saved /\ pcbRsp' = rsps /\ processCount' = processCount
      /\ cpu' = IF rsps[next] = OwnStack THEN UserThread(next) ELSE back.thread
  BY DEF SwitchFrom
<1>2. TableInv' /\ next \in 0..(processCount - 1)
  BY <1>1, SwitchKeepsTable DEF StackInv, TableInv
<1>3. StackShape(saved) /\ TimerDepth(t) \in {20, 32}
  BY TimerEntryShape, Depths
<1>4. 0..(processCount - 1) \subseteq Pid /\ currentPid \in 0..(processCount - 1)
  BY SchedulerAssumption DEF StackInv, TableInv, Pid
<1>5. /\ rsps \in [Pid -> {Zeroed, OwnStack, 0, 20, 32}]
      /\ \A p \in 0..(processCount - 1) : rsps[p] \in {OwnStack, 20, 32}
  BY <1>3, <1>4 DEF StackInv
<1>6. StackThread(cpu')
  <2>1. CASE rsps[next] = OwnStack
    BY <1>1, <2>1 DEF UserThread, StackThread
  <2>2. CASE rsps[next] # OwnStack
    <3>1. rsps[next] \in {20, 32}
      BY <1>2, <1>5, <2>2
    <3>2. cpu' = Resume(saved, rsps[next]).thread
      BY <1>1, <2>2
    <3> HIDE DEF saved, rsps
    <3> QED BY <1>3, <3>1, <3>2, ResumeShape
  <2> QED BY <2>1, <2>2
<1> HIDE DEF saved, rsps, back
<1>7. StackShape(kernelStack')
  BY <1>1, <1>3
<1>8. /\ pcbRsp' \in [Pid -> {Zeroed, OwnStack, 0, 20, 32}]
      /\ \A p \in 0..(processCount' - 1) : p # currentPid' => pcbRsp'[p] \in {OwnStack, 20, 32}
  BY <1>1, <1>5
<1> QED BY <1>2, <1>6, <1>7, <1>8 DEF StackInv, StackShape, StackThread, Unwritten, NoThread, Zeroed, OwnStack, Pid

LEMMA StackInit == Init => StackInv
<1> SUFFICES ASSUME Init PROVE StackInv
  OBVIOUS
<1>1. TableInv
  BY TableInit
<1>2. /\ kernelStack = [d \in 1..64 |-> Unwritten] /\ cpu = IdleThread
      /\ pcbRsp = [p \in Pid |-> Zeroed] /\ processCount = 1 /\ currentPid = 0
  BY DEF Init, StackSize
<1>3. StackShape(kernelStack) /\ StackThread(cpu)
  BY <1>2 DEF StackShape, StackThread, Unwritten, NoThread, IdleThread
<1>4. pcbRsp \in [Pid -> {Zeroed, OwnStack, 0, 20, 32}]
  BY <1>2
<1> QED BY <1>1, <1>2, <1>3, <1>4 DEF StackInv

\* A system call enters at the top of the stack, since ring 3 made it.
LEMMA CallShape ==
  ASSUME StackInv, NEW name, Calls(name)
  PROVE  StackShape(SyscallEntry(kernelStack, cpu)) /\ SyscallDepth(cpu) = 11
<1>1. ~InKernel(cpu) /\ StackThread(cpu) /\ StackShape(kernelStack)
  BY DEF Calls, InKernel, StackInv
<1> QED BY <1>1, SyscallEntryShape

LEMMA OtherStepsKeepStack ==
  ASSUME StackInv,
         ProcessCreate \/ GoLive \/ Service \/ Exit \/ ReadCurrent \/ Mark \/ UNCHANGED vars
  PROVE  StackInv'
<1>1. TableInv'
  BY OtherStepsKeepTable DEF StackInv
<1>2. StackShape(kernelStack')
  <2>1. CASE Service \/ Exit
    BY <2>1, CallShape DEF Service, Exit
  <2>2. CASE ProcessCreate \/ GoLive \/ ReadCurrent \/ Mark \/ UNCHANGED vars
    BY <2>2 DEF StackInv, ProcessCreate, GoLive, ReadCurrent, Mark, vars
  <2> QED BY <2>1, <2>2
<1>3. StackThread(cpu')
  <2>1. CASE Exit
    <3>1. cpu' = [pid |-> cpu.pid, at |-> "exit", depth |-> 11, rax |-> 0]
      BY <2>1, CallShape DEF Exit
    <3> QED BY <3>1 DEF StackThread
  <2>2. CASE ReadCurrent \/ Mark
    BY <2>2 DEF StackInv, StackThread, ReadCurrent, Mark
  <2>3. CASE ProcessCreate \/ GoLive \/ Service \/ UNCHANGED vars
    BY <2>3 DEF StackInv, ProcessCreate, GoLive, Service, vars
  <2> QED BY <2>1, <2>2, <2>3
<1>4. /\ pcbRsp' \in [Pid -> {Zeroed, OwnStack, 0, 20, 32}]
      /\ \A p \in 0..(processCount' - 1) : p # currentPid' => pcbRsp'[p] \in {OwnStack, 20, 32}
  <2>0. /\ processCount \in 1..MaxProcs /\ MaxProcs \in Nat /\ currentPid \in 0..(processCount - 1)
        /\ pcbRsp \in [Pid -> {Zeroed, OwnStack, 0, 20, 32}]
    BY SchedulerAssumption DEF StackInv, TableInv
  <2>1. CASE ProcessCreate
    <3>1. /\ pcbRsp' = [pcbRsp EXCEPT ![processCount] = OwnStack] /\ processCount' = processCount + 1
          /\ processCount \in Pid /\ currentPid' = currentPid
      BY <2>0, <2>1 DEF ProcessCreate, Pid
    <3>2. \A p \in 0..(processCount' - 1) : p \in Pid /\ (p = processCount \/ p \in 0..(processCount - 1))
      BY <2>0, <3>1 DEF Pid
    <3> QED BY <2>0, <3>1, <3>2 DEF StackInv
  <2>2. CASE GoLive
    <3>1. /\ pcbRsp' = [pcbRsp EXCEPT ![0] = 0] /\ processCount' = processCount
          /\ currentPid' = currentPid /\ currentPid = 0
      BY <2>2 DEF GoLive, StackInv, TableInv
    <3>2. \A p \in 0..(processCount - 1) : p \in Pid
      BY <2>0 DEF Pid
    <3> QED BY <2>0, <3>1, <3>2 DEF StackInv
  <2>3. CASE Service \/ Exit \/ ReadCurrent \/ Mark \/ UNCHANGED vars
    BY <2>3 DEF StackInv, Service, Exit, ReadCurrent, Mark, vars
  <2> QED BY <2>1, <2>2, <2>3
<1> QED BY <1>1, <1>2, <1>3, <1>4 DEF StackInv, StackShape, StackThread, Unwritten, NoThread, Zeroed, OwnStack, Pid

LEMMA StackNext == StackInv /\ [Next]_vars => StackInv'
<1> SUFFICES ASSUME StackInv, [Next]_vars PROVE StackInv'
  OBVIOUS
<1>1. CASE Timer
  BY <1>1, SwitchKeepsStack DEF Timer, StackInv
<1>2. CASE Yield
  <2> DEFINE t == [pid |-> cpu.pid, at |-> "yield", depth |-> SyscallDepth(cpu), rax |-> 0]
  <2>1. live /\ SwitchFrom(t, SyscallEntry(kernelStack, cpu))
    BY <1>2 DEF Yield, Calls
  <2>2. StackShape(SyscallEntry(kernelStack, cpu)) /\ SyscallDepth(cpu) = 11
    BY <1>2, CallShape DEF Yield
  <2>3. StackThread(t)
    BY <2>2 DEF StackThread
  <2> HIDE DEF t
  <2> QED BY <2>1, <2>2, <2>3, SwitchKeepsStack
<1>3. CASE ProcessCreate \/ GoLive \/ Service \/ Exit \/ ReadCurrent \/ Mark \/ UNCHANGED vars
  BY <1>3, OtherStepsKeepStack
<1> QED BY <1>1, <1>2, <1>3 DEF Next

\* However often the processes exit, yield and are preempted, at most two interrupt
\* frames with the registers saved above them are on the kernel stack
\* (timer_handler, syscall_handler).
THEOREM StackIsBounded == Spec => []KernelStackBounded
<1>1. StackInv => KernelStackBounded
  BY DEF StackInv, StackShape, StackThread, KernelStackBounded, StackSize, Zeroed, OwnStack
<1> QED BY <1>1, StackInit, StackNext, PTL DEF Spec

------------------------------------------------------------------------------
(* Contexts, when system calls are answered on the spot                     *)

CalmInv ==
  /\ StackInv
  /\ AnsweredOnTheSpot =>
        /\ intact = TRUE /\ cpu.at \in {"idle", "user"}
        /\ \A p \in 0..(processCount - 1) : p # currentPid => pcbRsp[p] \in {OwnStack, 20}

\* A thread outside the kernel that was just preempted can be resumed: all 20 quadwords
\* are its own.
LEMMA ResumeSaved ==
  ASSUME NEW stack, StackShape(stack), NEW t, t.at \in {"idle", "user"}
  PROVE  /\ Resume(TimerEntry(stack, t), 20).thread = t
         /\ Resume(TimerEntry(stack, t), 20).intact
<1> DEFINE framed == Interrupt(stack, t)
           saved == TimerEntry(stack, t)
<1>1. EntryDepth(t) = 0
  BY DEF EntryDepth, InKernel
<1>2. DOMAIN framed = 1..64 /\ \A q \in 1..5 : framed[q] = [of |-> t, reg |-> InterruptFrame[q]]
  BY <1>1, Lengths DEF Interrupt, Push, StackShape
<1>3. /\ \A q \in 1..5 : saved[q] = framed[q]
      /\ \A q \in 6..20 : saved[q] = [of |-> t, reg |-> TimerRegisters[q - 5]]
  BY <1>1, <1>2, Lengths DEF TimerEntry, Push
<1> HIDE DEF framed, saved
<1>4. saved[5].of = t /\ saved[20].of = t
  BY <1>2, <1>3
<1>5. Holds(saved, 5, InterruptFrame)
  BY <1>2, <1>3, <1>4, Lengths DEF Holds
<1>6. Holds(saved, 20, TimerRegisters)
  <2> SUFFICES ASSUME NEW i \in 1..15
               PROVE  saved[5 + i] = [of |-> t, reg |-> TimerRegisters[i]]
    BY <1>4, Lengths DEF Holds
  <2>1. 5 + i \in 6..20 /\ (5 + i) - 5 = i
    OBVIOUS
  <2> QED BY <1>3, <2>1
<1>7. Iretq(saved, 5) = t
  BY <1>4, <1>5 DEF Iretq
<1>8. Iretq(saved, 20 - Len(TimerRegisters)) = t
  BY <1>7, Lengths
<1>9. Resume(saved, 20) =
        [thread |-> t, intact |-> Holds(saved, 20, TimerRegisters) /\ saved[20].of = t]
  BY <1>8 DEF Resume
<1>10. Resume(saved, 20).thread = t
  BY <1>9
<1>11. Resume(saved, 20).intact = (Holds(saved, 20, TimerRegisters) /\ saved[20].of = t)
  BY <1>9
<1>12. Resume(saved, 20).intact
  BY <1>4, <1>6, <1>11
<1> QED BY <1>10, <1>12 DEF saved

LEMMA CalmSwitch ==
  ASSUME CalmInv, AnsweredOnTheSpot, live, SwitchFrom(cpu, kernelStack)
  PROVE  /\ intact' = TRUE /\ cpu'.at \in {"idle", "user"}
         /\ \A p \in 0..(processCount' - 1) : p # currentPid' => pcbRsp'[p] \in {OwnStack, 20}
<1> DEFINE rsps  == [pcbRsp EXCEPT ![currentPid] = TimerDepth(cpu)]
           next  == currentPid'
           back  == Resume(TimerEntry(kernelStack, cpu), rsps[next])
<1>1. /\ pcbRsp' = rsps /\ processCount' = processCount
      /\ IF rsps[next] = OwnStack THEN cpu' = UserThread(next) /\ intact' = TRUE
         ELSE cpu' = back.thread /\ intact' = back.intact
  BY DEF SwitchFrom
<1>2. TimerDepth(cpu) = 20 /\ cpu.at \in {"idle", "user"}
  BY Lengths DEF CalmInv, TimerDepth, EntryDepth, InKernel
<1>3. next \in 0..(processCount - 1) /\ currentPid \in Pid /\ 0..(processCount - 1) \subseteq Pid
  BY <1>1, SwitchKeepsTable, SchedulerAssumption DEF CalmInv, StackInv, TableInv, Pid
<1>4. \A p \in 0..(processCount - 1) : rsps[p] \in {OwnStack, 20}
  BY <1>2, <1>3 DEF CalmInv, StackInv
<1>5. CASE rsps[next] = OwnStack
  BY <1>1, <1>4, <1>5 DEF UserThread
<1>6. CASE rsps[next] # OwnStack
  <2>1. rsps[next] = 20
    BY <1>3, <1>4, <1>6
  <2>2. cpu' = Resume(TimerEntry(kernelStack, cpu), 20).thread
    BY <1>1, <1>6, <2>1
  <2>3. intact' = Resume(TimerEntry(kernelStack, cpu), 20).intact
    BY <1>1, <1>6, <2>1
  <2>4. StackShape(kernelStack)
    BY DEF CalmInv, StackInv
  <2>5. cpu' = cpu /\ Resume(TimerEntry(kernelStack, cpu), 20).intact
    BY <1>2, <2>2, <2>4, ResumeSaved
  <2>6. intact' = TRUE
    BY <2>3, <2>5 DEF Resume
  <2> HIDE DEF rsps
  <2> QED BY <1>1, <1>2, <1>4, <2>5, <2>6
<1> QED BY <1>5, <1>6

LEMMA CalmNext == CalmInv /\ [Next]_vars => CalmInv'
<1> SUFFICES ASSUME CalmInv, [Next]_vars PROVE CalmInv'
  OBVIOUS
<1>1. StackInv'
  BY StackNext DEF CalmInv
<1>2. syscalls' = syscalls
  BY DEF Next, vars, ProcessCreate, GoLive, Timer, Service, Yield, Exit, ReadCurrent, Mark, SwitchFrom
<1>3. SUFFICES ASSUME AnsweredOnTheSpot
               PROVE  /\ intact' = TRUE /\ cpu'.at \in {"idle", "user"}
                      /\ \A p \in 0..(processCount' - 1) : p # currentPid' => pcbRsp'[p] \in {OwnStack, 20}
  BY <1>1, <1>2 DEF CalmInv, AnsweredOnTheSpot
<1>4. ~Exit /\ ~Yield /\ ~ReadCurrent /\ ~Mark
  BY <1>3 DEF CalmInv, AnsweredOnTheSpot, Exit, Yield, ReadCurrent, Mark, Calls
<1>5. CASE Timer
  BY <1>3, <1>5, CalmSwitch DEF Timer
<1>6. CASE ProcessCreate
  <2>1. /\ pcbRsp' = [pcbRsp EXCEPT ![processCount] = OwnStack] /\ processCount' = processCount + 1
        /\ UNCHANGED <<currentPid, cpu, intact>> /\ processCount < MaxProcs
    BY <1>6 DEF ProcessCreate
  <2>2. /\ processCount \in 1..MaxProcs /\ MaxProcs \in Nat
        /\ DOMAIN pcbRsp = Pid
    BY SchedulerAssumption DEF CalmInv, StackInv, TableInv
  <2>3. \A p \in 0..(processCount' - 1) : p \in Pid /\ (p = processCount \/ p \in 0..(processCount - 1))
    BY <2>1, <2>2 DEF Pid
  <2> QED BY <1>3, <2>1, <2>2, <2>3 DEF CalmInv
<1>7. CASE GoLive
  <2>1. /\ pcbRsp' = [pcbRsp EXCEPT ![0] = 0] /\ UNCHANGED <<processCount, currentPid, cpu, intact>>
        /\ currentPid = 0 /\ pcbRsp \in [Pid -> {Zeroed, OwnStack, 0, 20, 32}]
    BY <1>7 DEF GoLive, CalmInv, StackInv, TableInv
  <2> QED BY <1>3, <2>1 DEF CalmInv
<1>8. CASE Service \/ UNCHANGED vars
  BY <1>3, <1>8 DEF CalmInv, Service, vars
<1> QED BY <1>4, <1>5, <1>6, <1>7, <1>8 DEF Next

\* With the system calls that the kernel's own processes make, a context switch
\* restores one complete set of registers, for a table of any size (timer_handler).
THEOREM ContextsStayWhole == Spec => []ContextsAreWhole
<1>1. Init => CalmInv
  <2> SUFFICES ASSUME Init PROVE CalmInv
    OBVIOUS
  <2>1. processCount = 1 /\ currentPid = 0 /\ cpu = IdleThread /\ intact = TRUE
    BY DEF Init
  <2>2. \A p \in 0..0 : p = 0
    OBVIOUS
  <2> QED BY <2>1, <2>2, StackInit DEF CalmInv, IdleThread
<1>2. CalmInv => ContextsAreWhole
  BY DEF CalmInv, ContextsAreWhole
<1> QED BY <1>1, <1>2, CalmNext, PTL DEF Spec

==============================================================================

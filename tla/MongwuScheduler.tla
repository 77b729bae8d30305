--------------------------- MODULE MongwuScheduler ---------------------------
(****************************************************************************)
(* The scheduler and the system calls of the Mongwu kernel                  *)
(* (mongwu/kernel_entry.asm) on its single processor.                       *)
(*                                                                          *)
(* What a process executes is a thread: whose code it is, where in the code *)
(* it stands and, inside the kernel, how deep the kernel stack is.  Process *)
(* 0 is the idle loop of kernel_main, which runs in ring 0; the others run  *)
(* in ring 3.                                                               *)
(*                                                                          *)
(* There is one kernel stack.  The processor enters the kernel from ring 3  *)
(* with RSP0 of the only TSS, and boot.asm gave the idle loop the same top, *)
(* 0x90000.  kernelStack[d] is the d-th quadword below the top: the value a *)
(* register of some thread had when it was pushed.  Depths are quadwords.   *)
(****************************************************************************)
EXTENDS Integers, Sequences

CONSTANTS
  MaxProcs,    \* MAX_PROCS: entries of the process table
  SyscallSets  \* the sets of system calls the processes may make

ASSUME SchedulerAssumption ==
  /\ MaxProcs \in Nat \ {0}
  /\ SyscallSets \subseteq SUBSET {"write", "getpid", "yield", "exit"}

Pid == 0..(MaxProcs - 1)

\* What the processor pushes on an interrupt, and what the handlers push after it.
InterruptFrame == <<"ss", "rsp", "rflags", "cs", "rip">>
TimerRegisters == <<"rax", "rbx", "rcx", "rdx", "rsi", "rdi", "rbp", "r8", "r9",
                    "r10", "r11", "r12", "r13", "r14", "r15">>
SyscallRegisters == <<"rbx", "rcx", "rdx", "rsi", "rdi", "rbp">>

StackSize == 64  \* bound of the model: quadwords of kernel stack

\* PCB_RSP of a process that never ran, which is the frame process_create built on
\* the process's own stack, and of an entry of the table that is still zero.
OwnStack == -1
Zeroed == -2

\* rax is the process number that a thread has read in sys_exit.
IdleThread == [pid |-> 0, at |-> "idle", depth |-> 0, rax |-> 0]
UserThread(p) == [pid |-> p, at |-> "user", depth |-> 0, rax |-> 0]
InKernel(t) == t.at \in {"exit", "marking", "yield"}

NoThread == [pid |-> 0, at |-> "none", depth |-> 0, rax |-> 0]
Unwritten == [of |-> NoThread, reg |-> "none"]

VARIABLES
  syscalls,     \* the system calls the processes make
  live,         \* interrupts were enabled: the scheduler is live
  processCount, \* process_count
  currentPid,   \* current_pid
  procState,    \* PCB_STATE
  pcbRsp,       \* PCB_RSP: Zeroed, OwnStack, or a depth of the kernel stack
  kernelStack,  \* the quadwords below 0x90000
  cpu,          \* the thread the processor executes, or one that is at "fault"
  intact        \* its registers are the ones it had when it was interrupted

vars == <<syscalls, live, processCount, currentPid, procState, pcbRsp, kernelStack, cpu, intact>>

\* kernel_main has zeroed the process table and filled the entry of process 0.  The
\* state zero is RUNNING.
Init ==
  /\ syscalls \in SyscallSets
  /\ live = FALSE
  /\ processCount = 1
  /\ currentPid = 0
  /\ procState = [p \in Pid |-> "RUNNING"]
  /\ pcbRsp = [p \in Pid |-> Zeroed]
  /\ kernelStack = [d \in 1..StackSize |-> Unwritten]
  /\ cpu = IdleThread
  /\ intact = TRUE

------------------------------------------------------------------------------
(* kernel_main *)

\* process_create for the next process number.
ProcessCreate ==
  /\ ~live
  /\ processCount < MaxProcs
  /\ procState' = [procState EXCEPT ![processCount] = "READY"]
  /\ pcbRsp' = [pcbRsp EXCEPT ![processCount] = OwnStack]
  /\ processCount' = processCount + 1
  /\ UNCHANGED <<syscalls, live, currentPid, kernelStack, cpu, intact>>

\* The stack pointer of the idle loop is saved and interrupts are enabled.
GoLive ==
  /\ ~live
  /\ live' = TRUE
  /\ pcbRsp' = [pcbRsp EXCEPT ![0] = 0]
  /\ UNCHANGED <<syscalls, processCount, currentPid, procState, kernelStack, cpu, intact>>

------------------------------------------------------------------------------
(* The kernel stack *)

\* The depth at which the processor starts to push: RSP0 from ring 3, else the
\* current depth rounded to 16 bytes.
EntryDepth(t) == IF InKernel(t) THEN t.depth + (t.depth % 2) ELSE 0

\* Registers of thread t pushed one below the other, from depth d.
Push(stack, d, t, regs) ==
  [q \in DOMAIN stack |->
     IF q \in (d + 1)..(d + Len(regs)) THEN [of |-> t, reg |-> regs[q - d]] ELSE stack[q]]

Interrupt(stack, t) == Push(stack, EntryDepth(t), t, InterruptFrame)

\* int 0x80 and the pushes of syscall_handler; the depth they leave.
SyscallEntry(stack, t) ==
  Push(Interrupt(stack, t), EntryDepth(t) + Len(InterruptFrame), t, SyscallRegisters)
SyscallDepth(t) == EntryDepth(t) + Len(InterruptFrame) + Len(SyscallRegisters)

\* Vector 32 and the pushes of timer_handler; the depth it stores in PCB_RSP.
TimerEntry(stack, t) ==
  Push(Interrupt(stack, t), EntryDepth(t) + Len(InterruptFrame), t, TimerRegisters)
\* Mutant of TimerDepth: a push without a pop, like that of an error code.
TimerDepthUnbalanced(t) == EntryDepth(t) + Len(InterruptFrame) + Len(TimerRegisters) + 1

TimerDepth(t) == EntryDepth(t) + Len(InterruptFrame) + Len(TimerRegisters)

\* The quadwords from depth d upwards are registers of one thread, as pushed.
Holds(stack, d, regs) ==
  \A i \in 1..Len(regs) :
     stack[d - Len(regs) + i] = [of |-> stack[d].of, reg |-> regs[i]]

\* What iretq at depth d returns to; a frame that was overwritten by something
\* else has no valid selector in the place of CS, and there is no handler for the
\* fault that follows.
Fault == [pid |-> 0, at |-> "fault", depth |-> 0, rax |-> 0]
\* Mutant of Iretq: the kernel stack is not left when ring 3 is returned to.
IretqStaying(stack, d) ==
  IF Holds(stack, d, InterruptFrame) THEN [stack[d].of EXCEPT !.depth = d] ELSE Fault

Iretq(stack, d) == IF Holds(stack, d, InterruptFrame) THEN stack[d].of ELSE Fault

\* A thread that yielded returns from the handler at once, through the quadwords
\* that the depth it resumes at points to.
SyscallReturn(stack, d) == Iretq(stack, d - Len(SyscallRegisters))

\* The whole way back from depth d of the kernel stack (.found_next, and
\* .syscall_ret for a thread in the middle of sys_yield), and whether every
\* register popped on the way belongs to the thread it leads to.
Resume(stack, d) ==
  LET frame == d - Len(TimerRegisters)
      t     == Iretq(stack, frame)
  IN  IF t.at = "yield"
      THEN [thread |-> SyscallReturn(stack, t.depth),
            intact |-> /\ Holds(stack, t.depth, SyscallRegisters)
                       /\ stack[t.depth].of = SyscallReturn(stack, t.depth)]
      ELSE [thread |-> t,
            intact |-> Holds(stack, d, TimerRegisters) /\ stack[d].of = t]

------------------------------------------------------------------------------
(* timer_handler *)

\* Mutants of FindNext: the search starts at the current process; the search
\* wraps around to process 1.
FindNextFromCurrent(states) == currentPid
FindNextWithoutIdle(states) ==
  IF currentPid + 1 < processCount THEN currentPid + 1
  ELSE IF processCount > 1 THEN 1 ELSE 0

\* .find_next: the first READY process after the current one, which is the last to be
\* looked at and READY too.
FindNext(states) ==
  LET after(k) == IF currentPid + k < processCount
                  THEN currentPid + k ELSE currentPid + k - processCount
      d == CHOOSE k \in 1..processCount :
             /\ states[after(k)] = "READY"
             /\ \A j \in 1..(k - 1) : states[after(j)] # "READY"
  IN  after(d)

\* Mutant of SwitchFrom: the next process is not marked RUNNING.
SwitchFromUnmarked(t, stack) ==
  LET saved  == TimerEntry(stack, t)
      rsps   == [pcbRsp EXCEPT ![currentPid] = TimerDepth(t)]
      states == [procState EXCEPT ![currentPid] = "READY"]
      next   == FindNext(states)
      back   == Resume(saved, rsps[next])
  IN  /\ TimerDepth(t) <= StackSize
      /\ kernelStack' = saved
      /\ pcbRsp' = rsps
      /\ procState' = states
      /\ currentPid' = next
      /\ IF rsps[next] = OwnStack
         THEN cpu' = UserThread(next) /\ intact' = TRUE
         ELSE cpu' = back.thread /\ intact' = back.intact
      /\ UNCHANGED <<syscalls, live, processCount>>

\* The body of the handler, entered by thread t on a given stack.
SwitchFrom(t, stack) ==
  LET saved  == TimerEntry(stack, t)
      rsps   == [pcbRsp EXCEPT ![currentPid] = TimerDepth(t)]
      states == [procState EXCEPT ![currentPid] = "READY"]
      next   == FindNext(states)
      back   == Resume(saved, rsps[next])
  IN  /\ TimerDepth(t) <= StackSize
      /\ kernelStack' = saved
      /\ pcbRsp' = rsps
      /\ procState' = [states EXCEPT ![next] = "RUNNING"]
      /\ currentPid' = next
      /\ IF rsps[next] = OwnStack
         THEN cpu' = UserThread(next) /\ intact' = TRUE
         ELSE cpu' = back.thread /\ intact' = back.intact
      /\ UNCHANGED <<syscalls, live, processCount>>

\* The timer fires; the handlers themselves run with interrupts disabled.
Timer ==
  /\ live
  /\ cpu.at \in {"idle", "user", "exit", "marking"}
  /\ SwitchFrom(cpu, kernelStack)

------------------------------------------------------------------------------
(* syscall_handler *)

Calls(name) == live /\ cpu.at = "user" /\ name \in syscalls

\* .do_write, .do_getpid: answered on the spot; the pushes stay in the memory
\* below the top of the stack.
Service ==
  /\ Calls("write") \/ Calls("getpid")
  /\ kernelStack' = SyscallEntry(kernelStack, cpu)
  /\ UNCHANGED <<syscalls, live, processCount, currentPid, procState, pcbRsp, cpu, intact>>

\* .do_yield: int 32 from inside the handler.
Yield ==
  /\ Calls("yield")
  /\ SwitchFrom([pid |-> cpu.pid, at |-> "yield", depth |-> SyscallDepth(cpu), rax |-> 0],
                SyscallEntry(kernelStack, cpu))

\* .do_exit: the current process is marked, interrupts being disabled as in every
\* handler.  Then the handler enables them and waits for the timer.
Exit ==
  /\ Calls("exit")
  /\ kernelStack' = SyscallEntry(kernelStack, cpu)
  /\ procState' = [procState EXCEPT ![currentPid] = "TERMINATED"]
  /\ cpu' = [pid |-> cpu.pid, at |-> "exit", depth |-> SyscallDepth(cpu), rax |-> 0]
  /\ UNCHANGED <<syscalls, live, processCount, currentPid, pcbRsp, intact>>

\* The timer came and went: jmp .do_exit, with interrupts enabled.  The handler reads
\* the number of the process that is current now;
ReadCurrent ==
  /\ cpu.at = "exit"
  /\ cpu' = [pid |-> cpu.pid, at |-> "marking", depth |-> cpu.depth, rax |-> currentPid]
  /\ UNCHANGED <<syscalls, live, processCount, currentPid, procState, pcbRsp, kernelStack, intact>>

\* it marks the process it has read, which after another timer may not be the current
\* one any more, and waits again.
Mark ==
  /\ cpu.at = "marking"
  /\ procState' = [procState EXCEPT ![cpu.rax] = "TERMINATED"]
  /\ cpu' = [pid |-> cpu.pid, at |-> "exit", depth |-> cpu.depth, rax |-> 0]
  /\ UNCHANGED <<syscalls, live, processCount, currentPid, pcbRsp, kernelStack, intact>>

Next == ProcessCreate \/ GoLive \/ Timer \/ Service \/ Yield \/ Exit \/ ReadCurrent \/ Mark

\* kernel_main reaches its sti, and the interval timer is periodic.  Nothing is
\* assumed of the processes.
Spec == Init /\ [][Next]_vars /\ WF_vars(GoLive) /\ WF_vars(Timer)

------------------------------------------------------------------------------
(* Properties *)

Thread == [pid : Pid, at : {"idle", "user", "exit", "marking", "yield", "fault", "none"},
           depth : 0..StackSize, rax : Pid]
Register == {"rax", "rbx", "rcx", "rdx", "rsi", "rdi", "rbp", "r8", "r9", "r10",
             "r11", "r12", "r13", "r14", "r15", "ss", "rsp", "rflags", "cs", "rip", "none"}

TypeOK ==
  /\ syscalls \in SyscallSets
  /\ live \in BOOLEAN
  /\ processCount \in 1..MaxProcs
  /\ currentPid \in Pid
  /\ procState \in [Pid -> {"RUNNING", "READY", "TERMINATED"}]
  /\ pcbRsp \in [Pid -> {Zeroed, OwnStack} \cup 0..StackSize]
  /\ kernelStack \in [1..StackSize -> [of : Thread, reg : Register]]
  /\ cpu \in Thread /\ cpu.at # "none"
  /\ intact \in BOOLEAN

\* The process table agrees with the processor through exits, yields and preemptions:
\* no process but the current one is RUNNING, so no two ever are; the current one is
\* not READY; and it is TERMINATED only while the processor is inside sys_exit, never
\* while it executes the code of a process.
TableMatchesCpu ==
  /\ currentPid < processCount
  /\ \A p \in 0..(processCount - 1) : procState[p] = "RUNNING" => p = currentPid
  /\ procState[currentPid] # "READY"
  /\ procState[currentPid] = "TERMINATED" => cpu.at \in {"exit", "marking"}

\* The one kernel stack never grows: however often processes exit, yield and are
\* preempted, at most two interrupt frames are on it (256 bytes).
KernelStackBounded ==
  /\ \A p \in Pid : pcbRsp[p] <= 32
  /\ cpu.depth <= 11
  /\ \A d \in 33..StackSize : kernelStack[d] = Unwritten

\* What process A and process B call.
AnsweredOnTheSpot == syscalls \subseteq {"write", "getpid"}

\* With the system calls the processes of the kernel make, a context switch always
\* restores one complete set of registers: it never takes the RIP of one thread and
\* the registers of another, though all frames share the same quadwords.
ContextsAreWhole == AnsweredOnTheSpot => intact /\ cpu.at # "fault"

\* The kernel implements the round-robin policy of process.szh, when processes exit,
\* yield and are preempted anywhere: the turn passes to the next process that is not
\* gone.  Gone is who is TERMINATED when it is not its turn: it never gets another one,
\* while a process that is marked in its own turn does (timer_handler makes it READY).
Gone == {p \in 0..(processCount - 1) : p # currentPid /\ procState[p] = "TERMINATED"}

Policy == INSTANCE RoundRobin WITH current <- currentPid, count <- processCount, gone <- Gone
RoundRobinOrder == Policy!Init /\ [][Policy!Next]_(Policy!vars)

\* Every process that was created gets to execute its code, whatever the others call
\* before its first turn: they exit, yield and mark each other, and may crash the
\* kernel, but only after each has had its first turn.
EveryoneStarts ==
  \A p \in Pid : <>(p < processCount) => <>(cpu.pid = p)

\* process.szh: "dimension scheduler_policy : round_robin".  With the system calls that
\* the processes of the kernel make, the code of every process is executed again and
\* again.  Not true of the kernel: current_pid goes round, but after the first round
\* all processes are resumed from the frame of the last one.
EveryoneGetsATurn ==
  \A p \in Pid : AnsweredOnTheSpot => []<>(p < processCount => cpu.pid = p)

\* process.szh: "morphism dispatch : ready -> running", "preserves
\* instruction_pointer", "preserves stack_pointer".  The code that runs is the code
\* of the current process.  Refuted: the frame a process is resumed from was
\* overwritten by the process that was preempted last.
DispatchPreservesContext == cpu.at # "fault" => cpu.pid = currentPid

\* syscall.szh: "sys_exit : terminate calling process (morphism: running ->
\* terminated)".  Refuted: timer_handler marks the process READY again.
TerminatedIsFinal ==
  [][\A p \in Pid : procState[p] = "TERMINATED" => procState'[p] = "TERMINATED"]_vars

==============================================================================

------------------------------- MODULE Thread -------------------------------
(***************************************************************************)
(* The scheduler of thread/thread.c and the timer handler that drives it   *)
(* (device/timer.c), on the one CPU the kernel runs on.                    *)
(*                                                                         *)
(* A state is what the machine is in between two segments of kernel code   *)
(* that nothing can interrupt: a run of instructions with EFLAGS.IF = 0,   *)
(* or one access to shared memory with IF = 1.  pc[t] names the segment    *)
(* thread t runs next.  A failed ASSERT calls panic_spin (kernel/debug.c): *)
(* interrupts off, endless loop.  Here it sets panic, and no action is     *)
(* enabled any more.                                                       *)
(*                                                                         *)
(* This module holds the state of the scheduler and its operations; module *)
(* Sync adds the locks and the code the threads run, and closes the system.*)
(***************************************************************************)
EXTENDS Naturals, SequencesExt

CONSTANTS
  Threads,   \* the pages that are, or will be, a task_struct
  Main,      \* main_thread: the thread the boot code became
  Idle,      \* idle_thread
  NoThread,  \* a NULL task_struct pointer
  Prio       \* Prio[t]: the prio argument thread_start is given for t

ASSUME ThreadAssumption ==
  /\ Main \in Threads
  /\ Idle \in Threads
  /\ Main # Idle
  /\ NoThread \notin Threads
  /\ Prio \in [Threads -> Nat]

VARIABLES
  status,    \* task_struct.status; "NONE" before init_thread has run
  ready,     \* thread_ready_list
  cur,       \* running_thread()
  intr,      \* EFLAGS.IF of the CPU
  ticks,     \* task_struct.ticks
  pc,        \* the segment each thread runs next
  old,       \* the old_status local of the primitive a thread is inside
  panic      \* an ASSERT has failed

threadVars == <<status, ready, cur, intr, ticks, pc, old, panic>>

\* enum task_status; thread_block is only ever called with TASK_BLOCKED, and
\* nothing sets TASK_WAITING, TASK_HANGING or TASK_DIED.
TaskStatus == {"NONE", "RUNNING", "READY", "BLOCKED"}

IntrStatus == {"ON", "OFF"}

\* Where switch_to returns with interrupts still off: in kernel_thread's first
\* instruction, or in schedule() called from sema_down, thread_yield or idle.
\* A thread at any other pc was put aside by the timer handler, so switch_to
\* returns into intr_exit, whose iretd brings IF = 1 back.
Parked == {"start", "wait", "diskwait", "yield", "block"}

ThreadInit ==
  /\ status = [t \in Threads |-> CASE t = Main -> "RUNNING"
                                   [] t = Idle -> "READY"
                                   [] OTHER    -> "NONE"]
  /\ ready = <<Idle>>
  /\ cur = Main
  /\ intr = "OFF"
  /\ ticks = [t \in Threads |-> IF t \in {Main, Idle} THEN Prio[t] ELSE 0]
  /\ pc = [t \in Threads |-> IF t = Main THEN "run" ELSE "start"]
  /\ old = [t \in Threads |-> "OFF"]
  /\ panic = FALSE

-----------------------------------------------------------------------------

\* schedule() called with ready list rd and statuses st.  A thread that is still
\* RUNNING goes to the tail with fresh ticks; one that blocked or yielded was
\* taken care of by its caller.  If nothing is left, idle is unblocked.
Requeue(st) == st[cur] = "RUNNING"

\* Mutants: schedule() forgets a preempted thread; puts it back at the front.
RunnableForgets(rd, st) == IF rd = <<>> THEN <<Idle>> ELSE rd

RunnableInFront(rd, st) ==
  IF Requeue(st) THEN <<cur>> \o rd ELSE IF rd = <<>> THEN <<Idle>> ELSE rd

Runnable(rd, st) ==
  IF Requeue(st) THEN Append(rd, cur) ELSE IF rd = <<>> THEN <<Idle>> ELSE rd

Elected(rd, st) == Head(Runnable(rd, st))

Schedule(rd, st) ==
  /\ cur' = Elected(rd, st)
  /\ ready' = Tail(Runnable(rd, st))
  /\ status' = [(IF Requeue(st) THEN [st EXCEPT ![cur] = "READY"] ELSE st)
                  EXCEPT ![Elected(rd, st)] = "RUNNING"]
  /\ ticks' = IF Requeue(st) THEN [ticks EXCEPT ![cur] = Prio[cur]] ELSE ticks
  /\ intr' = IF pc'[Elected(rd, st)] \in Parked THEN "OFF" ELSE "ON"

\* What schedule() and the thread_unblock(idle_thread) in it assert.
ScheduleAsserts(rd, st) ==
  /\ Requeue(st) => cur \notin ToSet(rd)
  /\ ~Requeue(st) /\ rd = <<>> => st[Idle] = "BLOCKED"

\* thread_block(TASK_BLOCKED) by the running thread.
Block == Schedule(ready, [status EXCEPT ![cur] = "BLOCKED"])
BlockAsserts == ScheduleAsserts(ready, [status EXCEPT ![cur] = "BLOCKED"])

\* thread_unblock(u): to the front of the ready list, ahead of everybody.
Unblock(u) ==
  /\ ready' = <<u>> \o ready
  /\ status' = [status EXCEPT ![u] = "READY"]
UnblockAsserts(u) == status[u] = "BLOCKED" /\ u \notin ToSet(ready)

-----------------------------------------------------------------------------

\* Thread t runs the segment p next.
At(t, p) == ~panic /\ cur = t /\ pc[t] = p

Goto(t, p) == pc' = [pc EXCEPT ![t] = p]

\* intr_timer_handler with ticks left: the slice goes on.  Like every
\* interrupt it wakes a CPU that executed hlt.
AfterInterrupt == pc' = [pc EXCEPT ![cur] = IF @ = "halted" THEN "idle" ELSE @]

TimerTick ==
  /\ ~panic /\ intr = "ON" /\ ticks[cur] > 0
  /\ ticks' = [ticks EXCEPT ![cur] = @ - 1]
  /\ AfterInterrupt
  /\ UNCHANGED <<status, ready, cur, intr, old, panic>>

\* intr_timer_handler at the end of the slice.
TimerPreempt ==
  /\ ~panic /\ intr = "ON" /\ ticks[cur] = 0
  /\ AfterInterrupt
  /\ Schedule(ready, status)
  /\ panic' = ~ScheduleAsserts(ready, status)
  /\ UNCHANGED old

\* A keyboard or disk interrupt ends the hlt of the idle thread.
OtherInterrupt ==
  /\ At(Idle, "halted")
  /\ Goto(Idle, "idle")
  /\ UNCHANGED <<status, ready, cur, intr, ticks, old, panic>>

\* kernel_thread: intr_enable(), then the thread's function.
KernelThread(t) ==
  /\ At(t, "start")
  /\ intr' = "ON"
  /\ Goto(t, IF t = Idle THEN "idle" ELSE "run")
  /\ UNCHANGED <<status, ready, cur, ticks, old, panic>>

\* idle(): thread_block(TASK_BLOCKED) ...
IdleBlock ==
  /\ At(Idle, "idle")
  /\ old' = [old EXCEPT ![Idle] = intr]
  /\ Goto(Idle, "block")
  /\ Block
  /\ panic' = ~BlockAsserts

\* ... whose intr_set_status(old_status) runs once idle is unblocked ...
IdleUnblocked ==
  /\ At(Idle, "block")
  /\ intr' = old[Idle]
  /\ Goto(Idle, "hlt")
  /\ UNCHANGED <<status, ready, cur, ticks, old, panic>>

\* ... and then sti; hlt, which ends with the next interrupt.
IdleHalt ==
  /\ At(Idle, "hlt")
  /\ intr' = "ON"
  /\ Goto(Idle, "halted")
  /\ UNCHANGED <<status, ready, cur, ticks, old, panic>>

\* thread_yield(): to the tail of the ready list, with the ticks it has left.
YieldReady(t) == Append(ready, t)
YieldStatus(t) == [status EXCEPT ![t] = "READY"]

ThreadYield(t) ==
  /\ old' = [old EXCEPT ![t] = intr]
  /\ Goto(t, "yield")
  /\ Schedule(YieldReady(t), YieldStatus(t))
  /\ panic' = ~(t \notin ToSet(ready) /\ ScheduleAsserts(YieldReady(t), YieldStatus(t)))

YieldReturn(t) ==
  /\ At(t, "yield")
  /\ intr' = old[t]
  /\ Goto(t, "run")
  /\ UNCHANGED <<status, ready, cur, ticks, old, panic>>
=============================================================================

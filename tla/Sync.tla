-------------------------------- MODULE Sync --------------------------------
(***************************************************************************)
(* The binary semaphores and re-entrant locks of thread/sync.c, used by    *)
(* threads that the scheduler of module Thread switches: the whole of the  *)
(* kernel's concurrency.                                                   *)
(*                                                                         *)
(* What a thread does between its calls is not modelled, only which calls  *)
(* it makes: a thread may lock, lock again what it holds, unlock, yield    *)
(* (with or without a lock: device/ide.c sleeps holding its channel's      *)
(* lock), start another thread, and, if it is a user process, enter and    *)
(* leave the kernel through int 0x80, whose gate clears IF.  With the lock *)
(* of the disk's channel it may send the disk a command and wait for the   *)
(* interrupt that answers it.  No caller in the kernel takes a second lock *)
(* while it holds one.                                                     *)
(***************************************************************************)
EXTENDS Thread

CONSTANTS
  Locks,     \* every struct lock
  PidLock,   \* pid_lock
  NoLock,    \* not a lock
  Channel,   \* channels[0].lock
  DiskDone,  \* channels[0].disk_done, the one semaphore that is no lock's
  Procs,     \* the threads that are user processes
  Creators,  \* the threads that call thread_start
  Sleepers,  \* the threads that call mtime_sleep, and so thread_yield
  DiskUsers, \* the threads that call ide_read
  MaxDepth   \* bound on how often a thread locks a lock it already holds

ASSUME SyncAssumption ==
  /\ PidLock \in Locks
  /\ NoLock \notin Locks
  /\ Channel \in Locks
  /\ DiskDone \notin Locks \cup {NoLock}
  /\ Procs \subseteq Threads \ {Main, Idle}
  /\ Creators \subseteq Threads \ {Idle}
  /\ Sleepers \subseteq Threads \ {Idle}
  /\ DiskUsers \subseteq Threads \ {Idle}
  /\ MaxDepth \in Nat \ {0}

VARIABLES
  value,     \* semaphore.value, of the locks' semaphores and of DiskDone
  waiters,   \* semaphore.waiters
  holder,    \* lock.holder
  repeat,    \* lock.holder_repeat_nr
  lk,        \* the lock a thread is using: from its call of lock_acquire to the
             \*   return of its last lock_release
  depth,     \* lock_acquire calls returned less lock_release calls made
  job,       \* the thread a thread is creating, in thread_start
  gate,      \* the thread runs a system call, or (main) the boot code: IF = 0
  expecting, \* channels[0].expecting_intr: the disk has a command to answer
  next_pid,  \* allocate_pid's static counter
  pid        \* task_struct.pid; 0 before init_thread has run

lockVars == <<value, waiters, holder, repeat>>
callVars == <<lk, depth, job, gate>>
pidVars  == <<next_pid, pid>>
vars     == <<threadVars, lockVars, callVars, expecting, pidVars>>
schedVars == <<status, ready, cur, ticks>>

PCs == {"start", "run", "down", "wait", "got", "owned", "rel", "up", "yield",
        "disk", "diskwait",
        "count", "counted", "pid", "link", "idle", "block", "hlt", "halted"}

Semas == Locks \cup {DiskDone}

\* thread_init has made main (pid 1) and idle (pid 2); interrupts are still off,
\* nothing has used a lock or the disk.
Init ==
  /\ ThreadInit
  /\ value = [s \in Semas |-> IF s = DiskDone THEN 0 ELSE 1]
  /\ waiters = [s \in Semas |-> <<>>]
  /\ holder = [l \in Locks |-> NoThread]
  /\ repeat = [l \in Locks |-> 0]
  /\ lk = [t \in Threads |-> NoLock]
  /\ depth = [t \in Threads |-> 0]
  /\ job = [t \in Threads |-> NoThread]
  /\ gate = [t \in Threads |-> t = Main]
  /\ expecting = FALSE
  /\ next_pid = 2
  /\ pid = [t \in Threads |-> CASE t = Main -> 1 [] t = Idle -> 2 [] OTHER -> 0]

-----------------------------------------------------------------------------

\* lock_acquire(l) by a thread that is not its holder: it goes on to sema_down.
AcquireMiss(t, l) ==
  /\ holder[l] # t
  /\ lk' = [lk EXCEPT ![t] = l]
  /\ Goto(t, "down")

\* lock_acquire(l) by its holder.
AcquireAgain(t, l) ==
  /\ At(t, "run") /\ lk[t] = l /\ depth[t] > 0 /\ job[t] = NoThread
  /\ depth[t] < MaxDepth
  /\ IF holder[l] = t
       THEN /\ repeat' = [repeat EXCEPT ![l] = @ + 1]
            /\ depth' = [depth EXCEPT ![t] = @ + 1]
            /\ UNCHANGED <<lk, pc>>
       ELSE /\ AcquireMiss(t, l)
            /\ UNCHANGED <<repeat, depth>>
  /\ UNCHANGED <<schedVars, intr, old, panic, value, waiters, holder, job, gate, expecting, pidVars>>

\* Mutant: any holder passes for the running thread.
AcquireHeld(t, l) ==
  /\ At(t, "run") /\ lk[t] = NoLock /\ job[t] = NoThread
  /\ IF holder[l] = NoThread
       THEN AcquireMiss(t, l) /\ UNCHANGED <<repeat, depth>>
       ELSE /\ lk' = [lk EXCEPT ![t] = l]
            /\ repeat' = [repeat EXCEPT ![l] = @ + 1]
            /\ depth' = [depth EXCEPT ![t] = 1]
            /\ UNCHANGED pc
  /\ UNCHANGED <<schedVars, intr, old, panic, value, waiters, holder, job, gate, expecting, pidVars>>

Acquire(t, l) ==
  /\ At(t, "run") /\ lk[t] = NoLock /\ job[t] = NoThread
  /\ AcquireMiss(t, l)
  /\ UNCHANGED <<schedVars, intr, old, panic, lockVars, depth, job, gate, expecting, pidVars>>

\* Mutant: the value is not tested.
SemaLoopUntested(t, s, again, out, oldStatus) ==
  /\ value' = [value EXCEPT ![s] = @ - 1]
  /\ panic' = (value[s] # 1)
  /\ intr' = oldStatus
  /\ Goto(t, out)
  /\ UNCHANGED <<waiters, schedVars>>

\* One turn of sema_down(s)'s loop, interrupts off: take the semaphore and go on
\* at `out' with interrupts as the caller had them (oldStatus), or queue up and
\* block, to try again at `again'.
SemaLoop(t, s, again, out, oldStatus) ==
  IF value[s] = 0
    THEN /\ waiters' = [waiters EXCEPT ![s] = Append(@, t)]
         /\ Goto(t, again)
         /\ Block
         /\ panic' = ~(t \notin ToSet(waiters[s]) /\ BlockAsserts)
         /\ UNCHANGED value
    ELSE /\ value' = [value EXCEPT ![s] = @ - 1]
         /\ panic' = (value[s] # 1)
         /\ intr' = oldStatus
         /\ Goto(t, out)
         /\ UNCHANGED <<waiters, schedVars>>

LockLoop(t, oldStatus) == SemaLoop(t, lk[t], "wait", "got", oldStatus)

\* lock_acquire calls sema_down.
SemaDown(t) ==
  /\ At(t, "down")
  /\ old' = [old EXCEPT ![t] = intr]
  /\ LockLoop(t, intr)
  /\ UNCHANGED <<holder, repeat, callVars, expecting, pidVars>>

\* Mutant: intr_enable() where the saved status belongs.
SemaRetestEnables(t) ==
  /\ At(t, "wait")
  /\ LockLoop(t, "ON")
  /\ UNCHANGED <<old, holder, repeat, callVars, expecting, pidVars>>

\* thread_block has returned inside sema_down: test the value again.
SemaRetest(t) ==
  /\ At(t, "wait")
  /\ LockLoop(t, old[t])
  /\ UNCHANGED <<old, holder, repeat, callVars, expecting, pidVars>>

\* lock_acquire after sema_down: holder first, then the count.
SetHolder(t) ==
  /\ At(t, "got")
  /\ holder' = [holder EXCEPT ![lk[t]] = t]
  /\ Goto(t, "owned")
  /\ UNCHANGED <<schedVars, intr, old, panic, value, waiters, repeat, callVars, expecting, pidVars>>

SetRepeat(t) ==
  /\ At(t, "owned")
  /\ repeat' = [repeat EXCEPT ![lk[t]] = 1]
  /\ panic' = (repeat[lk[t]] # 0)
  /\ depth' = [depth EXCEPT ![t] = 1]
  /\ Goto(t, IF job[t] = NoThread THEN "run" ELSE "count")
  /\ UNCHANGED <<schedVars, intr, old, value, waiters, holder, lk, job, gate, expecting, pidVars>>

\* lock_release(lk[t]): its assertions, then one level less or the holder cleared.
ReleaseAsserts(t) == holder[lk[t]] = t /\ repeat[lk[t]] >= 1

MayRelease(t) ==
  /\ depth[t] > 0
  /\ (At(t, "run") /\ job[t] = NoThread) \/ At(t, "counted")

ReleaseInner(t) ==
  /\ MayRelease(t) /\ repeat[lk[t]] > 1
  /\ repeat' = [repeat EXCEPT ![lk[t]] = @ - 1]
  /\ depth' = [depth EXCEPT ![t] = @ - 1]
  /\ panic' = ~ReleaseAsserts(t)
  /\ UNCHANGED <<schedVars, intr, old, pc, value, waiters, holder, lk, job, gate, expecting, pidVars>>

\* Mutant: the holder is not cleared.
ReleaseLastKeepsHolder(t) ==
  /\ MayRelease(t) /\ repeat[lk[t]] <= 1
  /\ depth' = [depth EXCEPT ![t] = @ - 1]
  /\ panic' = ~ReleaseAsserts(t)
  /\ Goto(t, "rel")
  /\ UNCHANGED <<schedVars, intr, old, value, waiters, holder, repeat, lk, job, gate, expecting, pidVars>>

ReleaseLast(t) ==
  /\ MayRelease(t) /\ repeat[lk[t]] <= 1
  /\ holder' = [holder EXCEPT ![lk[t]] = NoThread]
  /\ depth' = [depth EXCEPT ![t] = @ - 1]
  /\ panic' = ~ReleaseAsserts(t)
  /\ Goto(t, "rel")
  /\ UNCHANGED <<schedVars, intr, old, value, waiters, repeat, lk, job, gate, expecting, pidVars>>

\* Mutant: the count is left at 1.
ClearRepeatForgotten(t) ==
  /\ At(t, "rel")
  /\ Goto(t, "up")
  /\ UNCHANGED <<schedVars, intr, old, panic, lockVars, callVars, expecting, pidVars>>

ClearRepeat(t) ==
  /\ At(t, "rel")
  /\ repeat' = [repeat EXCEPT ![lk[t]] = 0]
  /\ Goto(t, "up")
  /\ UNCHANGED <<schedVars, intr, old, panic, value, waiters, holder, callVars, expecting, pidVars>>

\* Mutants: nobody is woken; the woken thread stays on the waiters list; the
\* semaphore is meant for the woken thread and stays 0.
UpWakesNobody(s) ==
  /\ value' = [value EXCEPT ![s] = @ + 1]
  /\ panic' = (value[s] # 0)
  /\ UNCHANGED <<waiters, ready, status>>

UpWakes(s, rest, v) ==
  IF waiters[s] = <<>>
    THEN UNCHANGED <<ready, status, waiters, panic>> /\ value' = [value EXCEPT ![s] = @ + 1]
    ELSE /\ waiters' = [waiters EXCEPT ![s] = rest]
         /\ Unblock(Head(waiters[s]))
         /\ panic' = ~UnblockAsserts(Head(waiters[s]))
         /\ value' = [value EXCEPT ![s] = v]

UpPeeks(s) == UpWakes(s, waiters[s], 1)

UpHandsOver(s) == UpWakes(s, Tail(waiters[s]), 0)

\* sema_up(s), interrupts off from the first line to the last: the oldest waiter
\* becomes the next thread to run, but it is not given the semaphore.
Up(s) ==
  /\ value' = [value EXCEPT ![s] = @ + 1]
  /\ IF waiters[s] = <<>>
       THEN /\ panic' = (value[s] # 0)
            /\ UNCHANGED <<ready, status, waiters>>
       ELSE /\ waiters' = [waiters EXCEPT ![s] = Tail(@)]
            /\ Unblock(Head(waiters[s]))
            /\ panic' = ~(value[s] = 0 /\ UnblockAsserts(Head(waiters[s])))

\* lock_release ends with sema_up.
SemaUp(t) ==
  /\ At(t, "up")
  /\ Up(lk[t])
  /\ lk' = [lk EXCEPT ![t] = NoLock]
  /\ Goto(t, IF job[t] = NoThread THEN "run" ELSE "pid")
  /\ UNCHANGED <<cur, ticks, intr, old, holder, repeat, depth, job, gate, expecting, pidVars>>

-----------------------------------------------------------------------------

\* ide_read, with the channel locked: cmd_out ...
DiskCommand(t) ==
  /\ At(t, "run") /\ lk[t] = Channel /\ depth[t] > 0 /\ job[t] = NoThread
  /\ expecting' = TRUE
  /\ Goto(t, "disk")
  /\ UNCHANGED <<schedVars, intr, old, panic, lockVars, callVars, pidVars>>

\* ... and sema_down(&disk_done).
DiskLoop(t, oldStatus) == SemaLoop(t, DiskDone, "diskwait", "run", oldStatus)

DiskDown(t) ==
  /\ At(t, "disk")
  /\ old' = [old EXCEPT ![t] = intr]
  /\ DiskLoop(t, intr)
  /\ UNCHANGED <<holder, repeat, callVars, expecting, pidVars>>

DiskRetest(t) ==
  /\ At(t, "diskwait")
  /\ DiskLoop(t, old[t])
  /\ UNCHANGED <<old, holder, repeat, callVars, expecting, pidVars>>

\* Mutant: the handler wakes whoever waits and leaves nothing for one to come.
DiskInterruptLost ==
  /\ ~panic /\ intr = "ON" /\ expecting
  /\ expecting' = FALSE
  /\ AfterInterrupt
  /\ IF waiters[DiskDone] = <<>>
       THEN UNCHANGED <<value, waiters, ready, status, panic>>
       ELSE Up(DiskDone)
  /\ UNCHANGED <<cur, ticks, intr, old, holder, repeat, callVars, pidVars>>

\* intr_hd_handler, on the stack of whoever runs.
DiskInterrupt ==
  /\ ~panic /\ intr = "ON" /\ expecting
  /\ expecting' = FALSE
  /\ AfterInterrupt
  /\ Up(DiskDone)
  /\ UNCHANGED <<cur, ticks, intr, old, holder, repeat, callVars, pidVars>>

-----------------------------------------------------------------------------

\* thread_start: init_thread calls allocate_pid, which takes pid_lock ...
ThreadStart(t, u) ==
  /\ At(t, "run") /\ lk[t] = NoLock /\ job[t] = NoThread
  /\ pid[u] = 0 /\ \A c \in Threads : job[c] # u
  /\ job' = [job EXCEPT ![t] = u]
  /\ AcquireMiss(t, PidLock)
  /\ UNCHANGED <<schedVars, intr, old, panic, lockVars, depth, gate, expecting, pidVars>>

\* ... counts ...
CountPid(t) ==
  /\ At(t, "count")
  /\ next_pid' = next_pid + 1
  /\ Goto(t, "counted")
  /\ UNCHANGED <<schedVars, intr, old, panic, lockVars, callVars, expecting, pid>>

\* ... and after lock_release reads the counter it returns.
InitThread(t) ==
  /\ At(t, "pid")
  /\ pid' = [pid EXCEPT ![job[t]] = next_pid]
  /\ status' = [status EXCEPT ![job[t]] = "READY"]
  /\ ticks' = [ticks EXCEPT ![job[t]] = Prio[job[t]]]
  /\ Goto(t, "link")
  /\ UNCHANGED <<ready, cur, intr, old, panic, lockVars, callVars, expecting, next_pid>>

\* The new thread joins the ready list.
Link(t) ==
  /\ At(t, "link")
  /\ ready' = Append(ready, job[t])
  /\ panic' = (job[t] \in ToSet(ready))
  /\ job' = [job EXCEPT ![t] = NoThread]
  /\ Goto(t, "run")
  /\ UNCHANGED <<status, cur, ticks, intr, old, lockVars, lk, depth, gate, expecting, pidVars>>

\* int 0x80 from user mode, and the iretd that returns to it; for the boot
\* thread, the intr_enable() in main().
SyscallEnter(t) ==
  /\ At(t, "run") /\ lk[t] = NoLock /\ job[t] = NoThread /\ ~gate[t]
  /\ gate' = [gate EXCEPT ![t] = TRUE]
  /\ intr' = "OFF"
  /\ UNCHANGED <<schedVars, pc, old, panic, lockVars, lk, depth, job, expecting, pidVars>>

IntrEnable(t) ==
  /\ At(t, "run") /\ lk[t] = NoLock /\ job[t] = NoThread /\ gate[t]
  /\ gate' = [gate EXCEPT ![t] = FALSE]
  /\ intr' = "ON"
  /\ UNCHANGED <<schedVars, pc, old, panic, lockVars, lk, depth, job, expecting, pidVars>>

Yield(t) ==
  /\ At(t, "run") /\ job[t] = NoThread
  /\ ThreadYield(t)
  /\ UNCHANGED <<lockVars, callVars, expecting, pidVars>>

syncVars == <<lockVars, callVars, expecting, pidVars>>

-----------------------------------------------------------------------------

Timer == (TimerTick \/ TimerPreempt) /\ UNCHANGED syncVars

\* The kernel's own code: once a thread is in it, it runs on.
Kernel(t) ==
  \/ SemaDown(t) \/ SemaRetest(t) \/ SetHolder(t) \/ SetRepeat(t)
  \/ ClearRepeat(t) \/ SemaUp(t)
  \/ DiskDown(t) \/ DiskRetest(t)
  \/ CountPid(t) \/ InitThread(t) \/ Link(t)
  \/ At(t, "counted") /\ (ReleaseInner(t) \/ ReleaseLast(t))
  \/ (KernelThread(t) \/ YieldReturn(t)) /\ UNCHANGED syncVars

IdleLoop == (IdleBlock \/ IdleUnblocked \/ IdleHalt) /\ UNCHANGED syncVars

\* What the code between the calls decides.
Client(t) ==
  \/ \E l \in Locks : Acquire(t, l) \/ AcquireAgain(t, l)
  \/ At(t, "run") /\ (ReleaseInner(t) \/ ReleaseLast(t))
  \/ t \in Creators /\ \E u \in Threads : ThreadStart(t, u)
  \/ t \in Procs /\ SyscallEnter(t)
  \/ IntrEnable(t)
  \/ t \in Sleepers /\ Yield(t)
  \/ t \in DiskUsers /\ DiskCommand(t)

Next ==
  \/ Timer
  \/ DiskInterrupt
  \/ OtherInterrupt /\ UNCHANGED syncVars
  \/ IdleLoop
  \/ \E t \in Threads : Kernel(t) \/ Client(t)

Spec == Init /\ [][Next]_vars

\* The 8259A holds an interrupt that comes while IF = 0 until IF = 1; the timer
\* never stops and the disk answers every command; the CPU does not stop; a
\* system call and the boot code end.
CpuFairness ==
  /\ SF_vars(Timer)
  /\ SF_vars(DiskInterrupt)
  /\ WF_vars(IdleLoop)
  /\ WF_vars(\E t \in Threads : Kernel(t))
  /\ \A t \in Procs \cup {Main} : SF_vars(IntrEnable(t))

\* A slice is many segments long, so a thread that is scheduled
\* again and again gets on; and every thread unlocks as often as it locks.
FairSpec ==
  /\ Spec /\ CpuFairness
  /\ \A t \in Threads : SF_vars(Kernel(t))
  /\ \A t \in Threads \ {Idle} : SF_vars(ReleaseInner(t)) /\ SF_vars(ReleaseLast(t))

-----------------------------------------------------------------------------
(* Safety                                                                  *)

TypeOK ==
  /\ status \in [Threads -> TaskStatus]
  /\ ready \in Seq(Threads)
  /\ cur \in Threads
  /\ intr \in IntrStatus
  /\ ticks \in [Threads -> Nat]
  /\ pc \in [Threads -> PCs]
  /\ old \in [Threads -> IntrStatus]
  /\ panic \in BOOLEAN
  /\ value \in [Semas -> Nat]
  /\ waiters \in [Semas -> Seq(Threads)]
  /\ holder \in [Locks -> Threads \cup {NoThread}]
  /\ repeat \in [Locks -> Nat]
  /\ lk \in [Threads -> Locks \cup {NoLock}]
  /\ depth \in [Threads -> Nat]
  /\ job \in [Threads -> Threads \cup {NoThread}]
  /\ gate \in [Threads -> BOOLEAN]
  /\ expecting \in BOOLEAN
  /\ next_pid \in Nat
  /\ pid \in [Threads -> Nat]

\* No ASSERT of thread.c or sync.c ever fails: no thread is put on a list it is
\* on, no thread is unblocked that is not blocked, a semaphore stays binary, a
\* lock is released by its holder and its count is 0 when a new holder comes.
NoPanic == ~panic

\* The thread thread_start has initialised but not yet put on the ready list.
Linking(u) == \E c \in Threads : job[c] = u /\ pc[c] = "link"

\* thread_ready_list holds every thread that could run, once: nobody that is
\* ready is forgotten, nobody blocked is in it, and only the running thread is
\* TASK_RUNNING (schedule, thread_block, thread_unblock, thread_yield).
ReadyListExact ==
  /\ \A u \in Threads : status[u] = "RUNNING" <=> u = cur
  /\ IsInjective(ready)
  /\ \A u \in Threads : u \in ToSet(ready) <=> status[u] = "READY" /\ ~Linking(u)

\* The semaphore a thread in sema_down wants.
Wants(u) == IF pc[u] = "diskwait" THEN DiskDone ELSE lk[u]

\* A blocked thread is on the waiters list of the semaphore it wants, once, and
\* on no other list: its one general_tag serves all of them.  Only idle may be
\* blocked without waiting for a semaphore.
WaitersExact ==
  \A s \in Semas :
    /\ IsInjective(waiters[s])
    /\ \A u \in Threads :
         u \in ToSet(waiters[s]) <=> status[u] = "BLOCKED" /\ u # Idle /\ Wants(u) = s

\* Inside sema_down, from thread_block to the next test of the value.
Waiting == {"wait", "diskwait"}

\* t is between the return of lock_acquire(l) and its last lock_release(l).
Inside(t, l) == lk[t] = l /\ depth[t] > 0

\* t has taken the semaphore of l and not given it back.
HasSema(t, l) == lk[t] = l /\ (depth[t] > 0 \/ pc[t] \in {"got", "owned", "rel", "up"})

\* What lock_acquire and lock_release are for.
MutualExclusion ==
  \A l \in Locks : \A t, u \in Threads : Inside(t, l) /\ Inside(u, l) => t = u

\* The three words of a lock, written one after the other with interrupts on,
\* agree with what the threads have done: the semaphore is 1 when nobody has
\* it, holder is the thread inside, holder_repeat_nr its unreleased acquires.
LockWordsAgree ==
  \A l \in Locks :
    /\ value[l] = 1 <=> \A t \in Threads : ~HasSema(t, l)
    /\ \A t \in Threads :
         /\ holder[l] = t <=> lk[t] = l /\ (depth[t] > 0 \/ pc[t] = "owned")
         /\ Inside(t, l) => repeat[l] = depth[t]

\* sema_up wakes one waiter and does not hand it the semaphore.  If the
\* semaphore is free while threads still wait, one that was woken is on its
\* way to take it: its sema_up will wake the next.
NoLostWakeup ==
  \A s \in Semas :
    value[s] = 1 /\ waiters[s] # <<>> =>
      \E t \in Threads : pc[t] \in Waiting /\ Wants(t) = s /\ status[t] # "BLOCKED"

\* A thread that asked the disk does not go on before the disk has answered,
\* and is not left asleep when it has: the interrupt may come before sema_down,
\* in it, or while another thread or idle runs.
DiskAnswered ==
  /\ expecting => \E t \in Threads : pc[t] \in {"disk", "diskwait"}
  /\ \A t \in Threads : pc[t] = "diskwait" /\ status[t] = "BLOCKED" => expecting

\* switch_to does not save EFLAGS.  A thread that is switched out inside a
\* primitive still comes back to its caller with the interrupt flag it called
\* with: off in a system call or the boot code, on everywhere else.
IntrRestored ==
  pc[cur] \notin Parked => intr = (IF gate[cur] THEN "OFF" ELSE "ON")

-----------------------------------------------------------------------------
(* Liveness, under FairSpec                                                *)

\* Round robin with preemption: a thread on the ready list gets the CPU, though
\* every woken thread is put ahead of it.
ReadyRuns == \A t \in Threads : t \in ToSet(ready) ~> cur = t

\* A thread that waits for a lock or for the disk is woken, if holders release
\* and the disk answers.
WaiterWoken == \A t \in Threads \ {Idle} : status[t] = "BLOCKED" ~> status[t] # "BLOCKED"

\* A lock somebody was woken for does not stay free.
LockTaken ==
  \A l \in Locks :
    (\E t \in Threads : pc[t] = "wait" /\ lk[t] = l) ~> (\E t \in Threads : Inside(t, l))

-----------------------------------------------------------------------------
(* Sync implements Mutex: a lock is locked when lock_acquire returns and   *)
(* unlocked when lock_release clears its holder.                           *)

Owner == [l \in Locks |-> IF \E t \in Threads : Inside(t, l)
                            THEN CHOOSE t \in Threads : Inside(t, l)
                            ELSE NoThread]

Level == [l \in Locks |-> IF Owner[l] = NoThread THEN 0 ELSE depth[Owner[l]]]

Abstract == INSTANCE Mutex WITH owner <- Owner, level <- Level

\* Seen by its callers, sync.c is a re-entrant mutex and nothing else: every
\* step of the kernel is a step of Mutex or changes no lock.
ImplementsMutex == Abstract!MutexSpec
=============================================================================

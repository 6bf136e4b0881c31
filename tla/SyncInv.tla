------------------------------ MODULE SyncInv -------------------------------
(* The inductive invariant of Sync.                                        *)
EXTENDS Sync

\* In lock_acquire or lock_release, or holding a lock inside thread_start.
LockPCs == {"down", "wait", "got", "owned", "count", "counted", "rel", "up"}
DiskPCs == {"disk", "diskwait"}
IdlePCs == {"idle", "block", "hlt", "halted"}

\* Where a thread is tells which calls it is inside.
ControlOK ==
  \A t \in Threads :
    /\ pc[t] \in LockPCs => lk[t] \in Locks
    /\ pc[t] \in {"start", "pid", "link"} \cup IdlePCs => lk[t] = NoLock
    /\ pc[t] \in {"run", "yield"} => (lk[t] = NoLock <=> depth[t] = 0)
    /\ pc[t] \in {"count", "counted"} => depth[t] = 1
    /\ pc[t] \in DiskPCs => lk[t] = Channel /\ depth[t] > 0 /\ job[t] = NoThread
    /\ depth[t] > 0 => pc[t] \in {"run", "yield", "count", "counted"} \cup DiskPCs
    /\ t = Idle => pc[t] \in IdlePCs \cup {"start"}
    /\ pc[t] \in IdlePCs => t = Idle
    /\ job[t] # NoThread => pc[t] \in LockPCs \cup {"pid", "link"}
    /\ pc[t] \in {"count", "counted", "pid", "link"} => job[t] # NoThread

\* A thread under construction has one creator, does not run, and has no pid
\* until its creator is about to link it.
CreationOK ==
  /\ next_pid >= 2
  /\ \A c \in Threads : job[c] # NoThread =>
       /\ job[c] \notin {Main, Idle}
       /\ pc[c] = "link" => status[job[c]] = "READY" /\ pid[job[c]] # 0 /\ pc[job[c]] = "start"
       /\ pc[c] # "link" => pid[job[c]] = 0
       /\ \A d \in Threads : job[d] = job[c] => d = c
  /\ \A u \in Threads :
       /\ pid[u] = 0 <=> status[u] = "NONE"
       /\ status[u] = "NONE" => pc[u] = "start" /\ ~gate[u] /\ u \notin {Main, Idle}

\* Only a blocked thread is off the ready list, inside thread_block.
BlockedOK == \A u \in Threads : status[u] = "BLOCKED" => pc[u] \in {"wait", "diskwait", "block"}

\* Interrupts are on or off as the context of the running thread says; a thread
\* in a system call is only switched out inside a primitive, which has saved it.
IntrOK ==
  /\ IntrRestored
  /\ pc[cur] \in Parked => intr = "OFF"
  /\ ~gate[Idle]
  /\ \A u \in Threads :
       /\ u # cur /\ gate[u] => pc[u] \in Parked
       /\ pc[u] = "start" => ~gate[u]
       /\ pc[u] \in {"wait", "diskwait", "yield", "block"} => old[u] = (IF gate[u] THEN "OFF" ELSE "ON")

\* One thread at most has the semaphore, and the words of the lock follow it.
LockOKAt(l) ==
  /\ value[l] \in {0, 1}
  /\ value[l] = 1 <=> \A t \in Threads : ~HasSema(t, l)
  /\ value[l] = 1 => repeat[l] = 0
  /\ \A t, u \in Threads : HasSema(t, l) /\ HasSema(u, l) => t = u
  /\ \A t \in Threads :
       /\ holder[l] = t <=> lk[t] = l /\ (depth[t] > 0 \/ pc[t] = "owned")
       /\ lk[t] = l /\ depth[t] > 0 => repeat[l] = depth[t]
       /\ lk[t] = l /\ pc[t] = "rel" => repeat[l] = 1
       /\ lk[t] = l /\ pc[t] \in {"got", "owned", "up"} => repeat[l] = 0

LockOK == \A l \in Locks : LockOKAt(l)

\* The thread that has the channel waits exactly while its command or the
\* answer to it is under way, and never both are.
DiskOK ==
  /\ value[DiskDone] \in {0, 1}
  /\ expecting => value[DiskDone] = 0
  /\ (expecting \/ value[DiskDone] = 1) <=> \E t \in Threads : pc[t] \in DiskPCs

IInv ==
  /\ TypeOK
  /\ NoPanic
  /\ ControlOK
  /\ CreationOK
  /\ ReadyListExact
  /\ BlockedOK
  /\ WaitersExact
  /\ IntrOK
  /\ LockOK
  /\ DiskOK
  /\ NoLostWakeup
=============================================================================

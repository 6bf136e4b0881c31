----------------------------- MODULE SyncProofs -----------------------------
(* Proofs about Sync: the invariant of SyncInv is inductive, so the safety *)
(* properties hold for any number of threads and locks.                    *)
EXTENDS SyncInv, DataLemmas

-----------------------------------------------------------------------------
(* schedule()                                                              *)

\* Called with a ready list rd that is exact for the statuses st (but for a
\* thread that thread_start has yet to link), schedule leaves an exact ready
\* list, one running thread, and every blocked thread but idle blocked.
LEMMA ScheduleFacts ==
  ASSUME ThreadAssumption, TypeOK,
         NEW rd \in Seq(Threads), NEW st \in [Threads -> TaskStatus],
         IsInjective(rd),
         \A u \in Threads : u \in ToSet(rd) <=> st[u] = "READY" /\ ~Linking(u),
         \A u \in Threads : st[u] = "RUNNING" => u = cur,
         ~Linking(cur), ~Linking(Idle),
         ScheduleAsserts(rd, st),
         Schedule(rd, st)
  PROVE  /\ cur' \in Threads
         /\ ready' \in Seq(Threads)
         /\ status' \in [Threads -> TaskStatus]
         /\ ticks' \in [Threads -> Nat]
         /\ IsInjective(ready')
         /\ \A u \in Threads : status'[u] = "RUNNING" <=> u = cur'
         /\ \A u \in Threads : u \in ToSet(ready') <=> status'[u] = "READY" /\ ~Linking(u)
         /\ \A u \in Threads : status'[u] = "BLOCKED" => st[u] = "BLOCKED"
         /\ \A u \in Threads : u # Idle /\ st[u] = "BLOCKED" => status'[u] = "BLOCKED"
         /\ \A u \in Threads : status'[u] = "NONE" <=> st[u] = "NONE"
         /\ \A u \in Threads : Linking(u) => status'[u] = st[u]
         /\ st[cur'] \in {"RUNNING", "READY", "BLOCKED"}
         /\ st[cur'] = "BLOCKED" => cur' = Idle
         /\ intr' = IF pc'[cur'] \in Parked THEN "OFF" ELSE "ON"
<1> DEFINE q == Runnable(rd, st)
           m == IF Requeue(st) THEN [st EXCEPT ![cur] = "READY"] ELSE st
<1>0. cur \in Threads /\ Idle \in Threads /\ Prio \in [Threads -> Nat] /\ ticks \in [Threads -> Nat]
  BY DEF ThreadAssumption, TypeOK
<1>1. /\ q \in Seq(Threads) /\ q # <<>> /\ IsInjective(q)
      /\ \A u \in Threads : u \in ToSet(q) =>
           ~Linking(u) /\ (m[u] = "READY" \/ (u = Idle /\ st[u] = "BLOCKED" /\ ~Requeue(st) /\ rd = <<>>))
      /\ \A u \in Threads : m[u] = "READY" /\ ~Linking(u) => u \in ToSet(q)
      /\ m \in [Threads -> TaskStatus]
      /\ \A u \in Threads : m[u] # "RUNNING"
  <2>0. m \in [Threads -> TaskStatus]
    BY <1>0 DEF TaskStatus
  <2>1. CASE Requeue(st)
    <3>1. q = Append(rd, cur) /\ m = [st EXCEPT ![cur] = "READY"]
      BY <2>1 DEF Runnable
    <3>2. cur \notin ToSet(rd)
      BY <2>1 DEF ScheduleAsserts
    <3>3. /\ q \in Seq(Threads) /\ q # <<>> /\ IsInjective(q)
          /\ \A y : y \in ToSet(q) <=> y \in ToSet(rd) \/ y = cur
      BY <1>0, <3>1, <3>2, AppendFacts
    <3>4. \A u \in Threads : m[u] = IF u = cur THEN "READY" ELSE st[u]
      BY <1>0, <3>1
    <3> HIDE DEF q, m
    <3> QED BY <1>0, <2>0, <2>1, <3>3, <3>4
  <2>2. CASE ~Requeue(st) /\ rd # <<>>
    <3>1. q = rd /\ m = st
      BY <2>2 DEF Runnable
    <3> HIDE DEF q, m
    <3> QED BY <1>0, <2>0, <2>2, <3>1 DEF Requeue
  <2>3. CASE ~Requeue(st) /\ rd = <<>>
    <3>1. q = <<Idle>> /\ m = st
      BY <2>3 DEF Runnable
    <3>2. st[Idle] = "BLOCKED"
      BY <2>3 DEF ScheduleAsserts
    <3>3. <<Idle>> \in Seq(Threads) /\ <<Idle>> # <<>> /\ IsInjective(<<Idle>>)
      BY <1>0 DEF IsInjective
    <3>4. \A y : y \in ToSet(<<Idle>>) <=> y = Idle
      BY DEF ToSet
    <3>5. \A y : y \notin ToSet(<<>>)
      BY DEF ToSet
    <3> HIDE DEF q, m
    <3> QED BY <1>0, <2>0, <2>3, <3>1, <3>2, <3>3, <3>4, <3>5 DEF Requeue
  <2> QED BY <2>1, <2>2, <2>3
<1>2. /\ cur' = Head(q) /\ ready' = Tail(q)
      /\ status' = [m EXCEPT ![cur'] = "RUNNING"]
      /\ ticks' = IF Requeue(st) THEN [ticks EXCEPT ![cur] = Prio[cur]] ELSE ticks
      /\ intr' = IF pc'[cur'] \in Parked THEN "OFF" ELSE "ON"
  BY DEF Schedule, Elected
<1>3. /\ Tail(q) \in Seq(Threads) /\ Head(q) \in Threads /\ Head(q) \in ToSet(q)
      /\ IsInjective(Tail(q))
      /\ \A y : y \in ToSet(Tail(q)) <=> y \in ToSet(q) /\ y # Head(q)
  BY <1>1, PopFacts
<1>4. ticks' \in [Threads -> Nat]
  BY <1>0, <1>2
<1>5. \A u \in Threads : /\ m[u] = "BLOCKED" <=> st[u] = "BLOCKED"
                         /\ m[u] = "NONE" <=> st[u] = "NONE"
                         /\ Linking(u) => m[u] = st[u]
                         /\ m[u] = "READY" => st[u] \in {"READY", "RUNNING"}
  BY <1>0 DEF Requeue
<1> HIDE DEF q, m
<1>6. \A u \in Threads : status'[u] = IF u = cur' THEN "RUNNING" ELSE m[u]
  BY <1>1, <1>2
<1>7. status' \in [Threads -> TaskStatus]
  BY <1>1, <1>2 DEF TaskStatus
<1>8. \A u \in Threads : u \in ToSet(ready') <=> status'[u] = "READY" /\ ~Linking(u)
  <2>1. ASSUME NEW u \in Threads, u \in ToSet(ready')
        PROVE  status'[u] = "READY" /\ ~Linking(u)
    <3>1. u \in ToSet(q) /\ u # cur'
      BY <1>2, <1>3, <2>1
    <3>2. CASE m[u] = "READY"
      BY <1>1, <1>6, <3>1, <3>2
    <3>3. CASE ~Requeue(st) /\ rd = <<>>
      \* the ready list is <<Idle>>, and Idle was elected
      <4>1. q = <<Idle>>
        BY <3>3 DEF q, Runnable
      <4>2. \A y : y \in ToSet(<<Idle>>) <=> y = Idle
        BY DEF ToSet
      <4> QED BY <1>2, <1>3, <3>1, <4>1, <4>2
    <3> QED BY <1>1, <3>1, <3>2, <3>3
  <2>2. ASSUME NEW u \in Threads, status'[u] = "READY", ~Linking(u)
        PROVE  u \in ToSet(ready')
    BY <1>1, <1>2, <1>3, <1>6, <2>2
  <2> QED BY <2>1, <2>2
<1>9. /\ cur' \in Threads /\ ready' \in Seq(Threads) /\ IsInjective(ready')
      /\ intr' = IF pc'[cur'] \in Parked THEN "OFF" ELSE "ON"
      /\ cur' \in ToSet(q)
  BY <1>2, <1>3
<1>10. \A u \in Threads : status'[u] = "RUNNING" <=> u = cur'
  BY <1>1, <1>6
<1>11. /\ m[cur'] = "READY" \/ (cur' = Idle /\ st[cur'] = "BLOCKED")
       /\ ~Linking(cur')
  BY <1>1, <1>9
<1>12. /\ st[cur'] \in {"RUNNING", "READY", "BLOCKED"}
       /\ st[cur'] = "BLOCKED" => cur' = Idle
  BY <1>5, <1>9, <1>11
<1>13. \A u \in Threads : /\ status'[u] = "BLOCKED" => st[u] = "BLOCKED"
                          /\ u # Idle /\ st[u] = "BLOCKED" => status'[u] = "BLOCKED"
                          /\ status'[u] = "NONE" <=> st[u] = "NONE"
                          /\ Linking(u) => status'[u] = st[u]
  BY <1>5, <1>6, <1>9, <1>11, <1>12
<1> QED BY <1>4, <1>7, <1>8, <1>9, <1>10, <1>12, <1>13

-----------------------------------------------------------------------------
(* Steps of the running thread that touch no list.                         *)

\* The lists, the statuses and the threads under construction do not care what
\* the running thread does with its own locals.
LEMMA LocalFrame ==
  ASSUME IInv, ThreadAssumption, NEW t \in Threads, cur = t,
         UNCHANGED <<status, ready, cur, waiters, pid>>,
         next_pid' >= next_pid, next_pid' \in Nat,
         \A u \in Threads : u # t =>
           pc'[u] = pc[u] /\ lk'[u] = lk[u] /\ job'[u] = job[u] /\ (gate'[u] <=> gate[u]),
         pc[t] # "link", pc'[t] # "link"
  PROVE  /\ ReadyListExact' /\ BlockedOK' /\ WaitersExact'
         /\ job' = job => CreationOK'
<1>1. status[t] = "RUNNING"
  BY DEF IInv, ReadyListExact
<1>2. \A u \in Threads : Linking(u)' <=> Linking(u)
  BY DEF Linking
<1>3. ReadyListExact'
  BY <1>2 DEF IInv, ReadyListExact
<1>4. BlockedOK'
  BY <1>1 DEF IInv, BlockedOK
<1>5. WaitersExact'
  BY <1>1 DEF IInv, WaitersExact, Wants
<1>6. ASSUME job' = job PROVE CreationOK'
  <2>1. next_pid' >= 2
    BY DEF IInv, TypeOK, CreationOK
  <2>2. \A c \in Threads : pc'[c] = "link" <=> pc[c] = "link"
    OBVIOUS
  <2>3. \A u \in Threads : status[u] = "NONE" => u # t
    BY <1>1
  <2>4. ASSUME NEW c \in Threads, job[c] # NoThread PROVE job[c] # t
    <3>1. job[c] \in Threads
      BY <2>4 DEF IInv, TypeOK
    <3>2. status[job[c]] = "READY" \/ pid[job[c]] = 0
      BY <2>4 DEF IInv, CreationOK
    <3>3. status[job[c]] \in {"READY", "NONE"}
      BY <3>1, <3>2 DEF IInv, CreationOK
    <3> QED BY <1>1, <3>3
  <2>5. ASSUME NEW c \in Threads, job[c] # NoThread
        PROVE  /\ job[c] \notin {Main, Idle}
               /\ pc'[c] = "link" => status[job[c]] = "READY" /\ pid[job[c]] # 0 /\ pc'[job[c]] = "start"
               /\ pc'[c] # "link" => pid[job[c]] = 0
               /\ \A d \in Threads : job[d] = job[c] => d = c
    <3>1. job[c] \in Threads /\ pc'[job[c]] = pc[job[c]]
      BY <2>4, <2>5 DEF IInv, TypeOK
    <3> QED BY <2>2, <2>5, <3>1 DEF IInv, CreationOK
  <2>6. ASSUME NEW u \in Threads
        PROVE  /\ pid[u] = 0 <=> status[u] = "NONE"
               /\ status[u] = "NONE" => pc'[u] = "start" /\ ~gate'[u] /\ u \notin {Main, Idle}
    BY <2>3 DEF IInv, CreationOK
  <2> QED BY <1>6, <2>1, <2>5, <2>6 DEF CreationOK
<1> QED BY <1>3, <1>4, <1>5, <1>6

\* The words of a lock fit as long as no thread takes or gives its semaphore,
\* or moves between two places the words tell apart.
LEMMA LockFrame ==
  ASSUME LockOK, \A l \in Locks : value'[l] = value[l], UNCHANGED <<holder, repeat, lk, depth>>,
         \A u \in Threads : \A p \in {"got", "owned", "rel", "up"} : pc'[u] = p <=> pc[u] = p
  PROVE  LockOK'
<1> SUFFICES ASSUME NEW l \in Locks PROVE LockOKAt(l)'
  BY DEF LockOK
<1>1. \A u \in Threads : HasSema(u, l)' <=> HasSema(u, l)
  BY DEF HasSema
<1> QED BY <1>1 DEF LockOK, LockOKAt

\* What t does with one lock is nothing to another.
LEMMA OtherLock ==
  ASSUME NEW m \in Locks, NEW t \in Threads, LockOKAt(m),
         value'[m] = value[m], holder'[m] = holder[m], repeat'[m] = repeat[m],
         \A u \in Threads : u # t => pc'[u] = pc[u] /\ lk'[u] = lk[u] /\ depth'[u] = depth[u],
         lk[t] # m, lk'[t] # m
  PROVE  LockOKAt(m)'
<1>1. \A u \in Threads : HasSema(u, m)' <=> HasSema(u, m)
  BY DEF HasSema
<1> QED BY <1>1 DEF LockOKAt

\* A woken thread stays on its way as long as it stays in sema_down.
LEMMA WakeupFrame ==
  ASSUME NoLostWakeup, UNCHANGED <<value, waiters>>,
         \A u \in Threads : pc[u] \in Waiting /\ status[u] # "BLOCKED" =>
           pc'[u] = pc[u] /\ lk'[u] = lk[u] /\ status'[u] # "BLOCKED"
  PROVE  NoLostWakeup'
<1> SUFFICES ASSUME NEW s \in Semas, value[s] = 1, waiters[s] # <<>>
             PROVE  \E t \in Threads : pc'[t] \in Waiting /\ Wants(t)' = s /\ status'[t] # "BLOCKED"
  BY DEF NoLostWakeup
<1>1. PICK t \in Threads : pc[t] \in Waiting /\ Wants(t) = s /\ status[t] # "BLOCKED"
  BY DEF NoLostWakeup
<1> QED BY <1>1 DEF Wants

\* The disk's words fit as long as no thread comes to the driver's wait or
\* leaves it.
LEMMA DiskFrame ==
  ASSUME DiskOK, value'[DiskDone] = value[DiskDone], expecting' = expecting,
         \A u \in Threads : pc'[u] \in DiskPCs <=> pc[u] \in DiskPCs
  PROVE  DiskOK'
BY DEF DiskOK

\* What ControlOK says of a thread inside lock_acquire or lock_release ...
LEMMA InLockCode ==
  ASSUME IInv, NEW t \in Threads, pc[t] \in {"down", "wait", "got", "owned", "rel", "up"}
  PROVE  lk[t] \in Locks /\ depth[t] = 0 /\ t # Idle
<1>1. depth[t] \in Nat
  BY DEF IInv, TypeOK
<1>2. ~(depth[t] > 0)
  BY DEF IInv, ControlOK, DiskPCs
<1>3. lk[t] \in Locks
  BY DEF IInv, ControlOK, LockPCs
<1>4. t # Idle
  BY DEF IInv, ControlOK, DiskPCs, IdlePCs
<1> QED BY <1>1, <1>2, <1>3, <1>4

\* ... inside the disk driver's wait ...
LEMMA InDiskCode ==
  ASSUME IInv, SyncAssumption, NEW t \in Threads, pc[t] \in DiskPCs
  PROVE  lk[t] = Channel /\ Channel \in Locks /\ depth[t] > 0 /\ job[t] = NoThread /\ t # Idle
<1>1. lk[t] = Channel /\ depth[t] > 0 /\ job[t] = NoThread
  BY DEF IInv, ControlOK
<1>2. t # Idle
  BY DEF IInv, ControlOK, DiskPCs, IdlePCs
<1> QED BY <1>1, <1>2 DEF SyncAssumption

\* ... and inside sema_down ...
LEMMA InSemaDown ==
  ASSUME IInv, SyncAssumption, NEW t \in Threads, pc[t] \in Waiting
  PROVE  t # Idle /\ Wants(t) \in Semas
BY InLockCode, InDiskCode DEF Waiting, Wants, Semas, DiskPCs

\* ... with a count of 0 before it is the holder's ...
LEMMA OwnedCount ==
  ASSUME IInv, NEW t \in Threads, pc[t] = "owned"
  PROVE  repeat[lk[t]] = 0
BY InLockCode DEF IInv, LockOK, LockOKAt

\* ... and of one between them; here lock_release's assertions hold.
LEMMA BetweenCalls ==
  ASSUME IInv, SyncAssumption, NEW t \in Threads, depth[t] > 0
  PROVE  /\ lk[t] \in Locks /\ t # Idle /\ pc[t] \in {"run", "yield", "count", "counted"} \cup DiskPCs
         /\ depth[t] \in Nat
         /\ holder[lk[t]] = t /\ repeat[lk[t]] = depth[t] /\ repeat[lk[t]] >= 1
<1>1. depth[t] \in Nat /\ lk[t] \in Locks \cup {NoLock}
  BY DEF IInv, TypeOK
<1>2. pc[t] \in {"run", "yield", "count", "counted"} \cup DiskPCs
  BY DEF IInv, ControlOK
<1>3. lk[t] \in Locks
  BY <1>1, <1>2 DEF IInv, ControlOK, LockPCs
<1>4. t # Idle
  BY <1>2 DEF IInv, ControlOK, DiskPCs, IdlePCs
<1>5. holder[lk[t]] = t /\ repeat[lk[t]] = depth[t]
  BY <1>3 DEF IInv, LockOK, LockOKAt
<1> QED BY <1>1, <1>2, <1>3, <1>4, <1>5

\* A tick with ticks left: intr_timer_handler only counts, and ends a hlt.
LEMMA TimerTickInv ==
  ASSUME IInv, TimerTick, UNCHANGED syncVars
  PROVE  IInv'
<1> USE DEF TimerTick, AfterInterrupt, syncVars, lockVars, callVars, pidVars
<1>1. /\ TypeOK /\ cur \in Threads
      /\ \A u \in Threads : pc'[u] = IF u = cur /\ pc[u] = "halted" THEN "idle" ELSE pc[u]
  BY DEF IInv, TypeOK
<1>2. TypeOK'
  BY DEF IInv, TypeOK, PCs
<1>3. NoPanic'
  BY DEF IInv, NoPanic
<1>4. ControlOK'
  BY <1>1 DEF IInv, ControlOK, LockPCs, DiskPCs, IdlePCs
<1>5. ReadyListExact' /\ BlockedOK' /\ WaitersExact' /\ CreationOK'
  <2>1. CASE pc[cur] = "halted"
    BY <1>1, <2>1, LocalFrame, ThreadAssumption DEF TypeOK
  <2>2. CASE pc[cur] # "halted"
    <3>1. pc' = pc
      BY <1>1, <2>2 DEF TypeOK
    <3> QED BY <3>1 DEF IInv, ReadyListExact, Linking, BlockedOK, WaitersExact, Wants, CreationOK
  <2> QED BY <2>1, <2>2
<1>6. IntrOK'
  BY <1>1 DEF IInv, IntrOK, IntrRestored, Parked
<1>7. LockOK'
  BY <1>1, LockFrame DEF IInv
<1>8. NoLostWakeup' /\ DiskOK'
  BY <1>1, WakeupFrame, DiskFrame DEF IInv, Waiting, DiskPCs
<1> QED BY <1>2, <1>3, <1>4, <1>5, <1>6, <1>7, <1>8 DEF IInv

\* A keyboard interrupt ends idle's hlt and touches nothing else.
LEMMA OtherInterruptInv ==
  ASSUME IInv, OtherInterrupt, UNCHANGED syncVars
  PROVE  IInv'
<1> USE DEF OtherInterrupt, At, Goto, syncVars, lockVars, callVars, pidVars
<1>1. /\ TypeOK /\ cur = Idle /\ Idle \in Threads /\ pc[Idle] = "halted"
      /\ \A u \in Threads : pc'[u] = IF u = Idle THEN "idle" ELSE pc[u]
  BY ThreadAssumption DEF IInv, TypeOK, ThreadAssumption
<1>2. TypeOK'
  BY DEF IInv, TypeOK, PCs
<1>3. NoPanic'
  BY DEF IInv, NoPanic
<1>4. ControlOK'
  BY <1>1 DEF IInv, ControlOK, LockPCs, DiskPCs, IdlePCs
<1>5. ReadyListExact' /\ BlockedOK' /\ WaitersExact' /\ CreationOK'
  BY <1>1, LocalFrame, ThreadAssumption DEF TypeOK
<1>6. IntrOK'
  BY <1>1 DEF IInv, IntrOK, IntrRestored, Parked
<1>7. LockOK'
  BY <1>1, LockFrame DEF IInv
<1>8. NoLostWakeup' /\ DiskOK'
  BY <1>1, WakeupFrame, DiskFrame DEF IInv, Waiting, DiskPCs
<1> QED BY <1>2, <1>3, <1>4, <1>5, <1>6, <1>7, <1>8 DEF IInv

\* thread_block returns in idle and restores its interrupt status.
LEMMA IdleUnblockedInv ==
  ASSUME IInv, IdleUnblocked, UNCHANGED syncVars
  PROVE  IInv'
<1> USE DEF IdleUnblocked, At, Goto, schedVars, lockVars, callVars, pidVars, syncVars
<1>1. /\ TypeOK /\ cur = Idle /\ Idle \in Threads /\ pc[Idle] = "block"
      /\ \A u \in Threads : pc'[u] = IF u = Idle THEN "hlt" ELSE pc[u]
  <2>1. TypeOK /\ Idle \in Threads
    BY ThreadAssumption DEF IInv, ThreadAssumption
  <2>2. cur = Idle /\ pc[Idle] = "block" /\ pc' = [pc EXCEPT ![Idle] = "hlt"]
    OBVIOUS
  <2>3. \A u \in Threads : pc'[u] = IF u = Idle THEN "hlt" ELSE pc[u]
    BY <2>1, <2>2 DEF TypeOK
  <2> QED BY <2>1, <2>2, <2>3
<1>2. TypeOK'
  BY <1>1 DEF IInv, TypeOK, PCs, IntrStatus
<1>3. NoPanic'
  BY <1>1 DEF IInv, NoPanic
<1>4. ControlOK'
  BY <1>1 DEF IInv, ControlOK, LockPCs, DiskPCs, IdlePCs
<1>5. ReadyListExact' /\ BlockedOK' /\ WaitersExact' /\ CreationOK'
  BY <1>1, LocalFrame, ThreadAssumption DEF TypeOK
<1>6. IntrOK'
  BY <1>1 DEF IInv, IntrOK, IntrRestored, Parked
<1>7. LockOK'
  BY <1>1, LockFrame DEF IInv
<1>8. NoLostWakeup' /\ DiskOK'
  BY <1>1, WakeupFrame, DiskFrame DEF IInv, Waiting, DiskPCs
<1> QED BY <1>2, <1>3, <1>4, <1>5, <1>6, <1>7, <1>8 DEF IInv

\* idle executes sti; hlt.
LEMMA IdleHaltInv ==
  ASSUME IInv, IdleHalt, UNCHANGED syncVars
  PROVE  IInv'
<1> USE DEF IdleHalt, At, Goto, schedVars, lockVars, callVars, pidVars, syncVars
<1>1. /\ TypeOK /\ cur = Idle /\ Idle \in Threads /\ pc[Idle] = "hlt"
      /\ \A u \in Threads : pc'[u] = IF u = Idle THEN "halted" ELSE pc[u]
  <2>1. TypeOK /\ Idle \in Threads
    BY ThreadAssumption DEF IInv, ThreadAssumption
  <2>2. cur = Idle /\ pc[Idle] = "hlt" /\ pc' = [pc EXCEPT ![Idle] = "halted"]
    OBVIOUS
  <2>3. \A u \in Threads : pc'[u] = IF u = Idle THEN "halted" ELSE pc[u]
    BY <2>1, <2>2 DEF TypeOK
  <2> QED BY <2>1, <2>2, <2>3
<1>2. TypeOK'
  BY <1>1 DEF IInv, TypeOK, PCs, IntrStatus
<1>3. NoPanic'
  BY <1>1 DEF IInv, NoPanic
<1>4. ControlOK'
  BY <1>1 DEF IInv, ControlOK, LockPCs, DiskPCs, IdlePCs
<1>5. ReadyListExact' /\ BlockedOK' /\ WaitersExact' /\ CreationOK'
  BY <1>1, LocalFrame, ThreadAssumption DEF TypeOK
<1>6. IntrOK'
  BY <1>1 DEF IInv, IntrOK, IntrRestored, Parked
<1>7. LockOK'
  BY <1>1, LockFrame DEF IInv
<1>8. NoLostWakeup' /\ DiskOK'
  BY <1>1, WakeupFrame, DiskFrame DEF IInv, Waiting, DiskPCs
<1> QED BY <1>2, <1>3, <1>4, <1>5, <1>6, <1>7, <1>8 DEF IInv

\* The first instruction of a new thread.
LEMMA KernelThreadInv ==
  ASSUME IInv, NEW t \in Threads, KernelThread(t), UNCHANGED syncVars
  PROVE  IInv'
<1> USE DEF KernelThread, At, Goto, schedVars, lockVars, callVars, pidVars, syncVars
<1>1. /\ TypeOK /\ cur = t /\ pc[t] = "start"
      /\ \A u \in Threads : pc'[u] = IF u = t THEN (IF t = Idle THEN "idle" ELSE "run") ELSE pc[u]
  BY ThreadAssumption, SyncAssumption DEF IInv, TypeOK, ThreadAssumption, SyncAssumption, ControlOK, LockPCs, DiskPCs, IdlePCs
<1>2. TypeOK'
  BY <1>1 DEF IInv, TypeOK, PCs, IntrStatus
<1>3. NoPanic'
  BY <1>1 DEF IInv, NoPanic
<1>4. ControlOK'
  BY <1>1 DEF IInv, TypeOK, ControlOK, LockPCs, DiskPCs, IdlePCs
<1>5. ReadyListExact' /\ BlockedOK' /\ WaitersExact' /\ CreationOK'
  BY <1>1, LocalFrame, ThreadAssumption DEF TypeOK
<1>6. IntrOK'
  BY <1>1 DEF IInv, IntrOK, IntrRestored, Parked
<1>7. LockOK'
  BY <1>1, LockFrame DEF IInv
<1>8. NoLostWakeup' /\ DiskOK'
  BY <1>1, WakeupFrame, DiskFrame DEF IInv, Waiting, DiskPCs
<1> QED BY <1>2, <1>3, <1>4, <1>5, <1>6, <1>7, <1>8 DEF IInv

\* thread_yield returns.
LEMMA YieldReturnInv ==
  ASSUME IInv, NEW t \in Threads, YieldReturn(t), UNCHANGED syncVars
  PROVE  IInv'
<1> USE DEF YieldReturn, At, Goto, schedVars, lockVars, callVars, pidVars, syncVars
<1>1. /\ TypeOK /\ cur = t /\ pc[t] = "yield"
      /\ \A u \in Threads : pc'[u] = IF u = t THEN "run" ELSE pc[u]
  BY ThreadAssumption, SyncAssumption DEF IInv, TypeOK, ThreadAssumption, SyncAssumption, ControlOK, LockPCs, DiskPCs, IdlePCs
<1>2. TypeOK'
  BY <1>1 DEF IInv, TypeOK, PCs, IntrStatus
<1>3. NoPanic'
  BY <1>1 DEF IInv, NoPanic
<1>4. ControlOK'
  BY <1>1 DEF IInv, ControlOK, LockPCs, DiskPCs, IdlePCs
<1>5. ReadyListExact' /\ BlockedOK' /\ WaitersExact' /\ CreationOK'
  BY <1>1, LocalFrame, ThreadAssumption DEF TypeOK
<1>6. IntrOK'
  BY <1>1 DEF IInv, IntrOK, IntrRestored, Parked
<1>7. LockOK'
  BY <1>1, LockFrame DEF IInv
<1>8. NoLostWakeup' /\ DiskOK'
  BY <1>1, WakeupFrame, DiskFrame DEF IInv, Waiting, DiskPCs
<1> QED BY <1>2, <1>3, <1>4, <1>5, <1>6, <1>7, <1>8 DEF IInv

\* lock_acquire by a thread that holds nothing.
LEMMA AcquireInv ==
  ASSUME IInv, NEW t \in Threads, NEW l \in Locks, Acquire(t, l)
  PROVE  IInv'
<1> USE DEF Acquire, AcquireMiss, At, Goto, schedVars, lockVars, callVars, pidVars, syncVars
<1>1. /\ TypeOK /\ cur = t /\ pc[t] = "run" /\ lk[t] = NoLock /\ depth[t] = 0 /\ t # Idle
      /\ \A u \in Threads : lk'[u] = IF u = t THEN l ELSE lk[u]
      /\ \A u \in Threads : pc'[u] = IF u = t THEN "down" ELSE pc[u]
  BY ThreadAssumption, SyncAssumption DEF IInv, TypeOK, ThreadAssumption, SyncAssumption, ControlOK, LockPCs, DiskPCs, IdlePCs
<1>2. TypeOK'
  BY <1>1 DEF IInv, TypeOK, PCs, IntrStatus
<1>3. NoPanic'
  BY <1>1 DEF IInv, NoPanic
<1>4. ControlOK'
  BY <1>1 DEF IInv, ControlOK, LockPCs, DiskPCs, IdlePCs
<1>5. ReadyListExact' /\ BlockedOK' /\ WaitersExact' /\ CreationOK'
  BY <1>1, LocalFrame, ThreadAssumption DEF TypeOK
<1>6. IntrOK'
  BY <1>1 DEF IInv, IntrOK, IntrRestored, Parked
<1>7. LockOK'
  <2> SUFFICES ASSUME NEW m \in Locks PROVE LockOKAt(m)'
    BY DEF LockOK
  <2>1. LockOKAt(m) /\ lk[t] # m
    BY <1>1, SyncAssumption DEF IInv, LockOK, SyncAssumption
  <2>2. CASE m # l
    BY <1>1, <2>1, <2>2, OtherLock
  <2>3. CASE m = l
    <3>1. \A u \in Threads : HasSema(u, m)' <=> HasSema(u, m)
      BY <1>1, <2>1 DEF HasSema
    <3> QED BY <1>1, <2>1, <3>1 DEF LockOKAt
  <2> QED BY <2>2, <2>3
<1>8. NoLostWakeup' /\ DiskOK'
  BY <1>1, WakeupFrame, DiskFrame DEF IInv, Waiting, DiskPCs
<1> QED BY <1>2, <1>3, <1>4, <1>5, <1>6, <1>7, <1>8 DEF IInv

\* int 0x80.
LEMMA SyscallEnterInv ==
  ASSUME IInv, NEW t \in Threads, t # Idle, SyscallEnter(t)
  PROVE  IInv'
<1> USE DEF SyscallEnter, At, Goto, schedVars, lockVars, callVars, pidVars, syncVars
<1>1. /\ TypeOK /\ cur = t /\ pc[t] = "run"
      /\ gate'[t] /\ \A u \in Threads : u # t => gate'[u] <=> gate[u]
      /\ gate' \in [Threads -> BOOLEAN]
  BY ThreadAssumption, SyncAssumption DEF IInv, TypeOK, ThreadAssumption, SyncAssumption, ControlOK, LockPCs, DiskPCs, IdlePCs
<1>2. TypeOK'
  BY <1>1 DEF IInv, TypeOK, PCs, IntrStatus
<1>3. NoPanic'
  BY <1>1 DEF IInv, NoPanic
<1>4. ControlOK'
  BY <1>1 DEF IInv, ControlOK, LockPCs, DiskPCs, IdlePCs
<1>5. ReadyListExact' /\ BlockedOK' /\ WaitersExact' /\ CreationOK'
  BY <1>1, LocalFrame, ThreadAssumption DEF TypeOK
<1>6. IntrOK'
  BY <1>1 DEF IInv, IntrOK, IntrRestored, Parked
<1>7. LockOK'
  BY <1>1, LockFrame DEF IInv
<1>8. NoLostWakeup' /\ DiskOK'
  BY <1>1, WakeupFrame, DiskFrame DEF IInv, Waiting, DiskPCs
<1> QED BY <1>2, <1>3, <1>4, <1>5, <1>6, <1>7, <1>8 DEF IInv

\* The end of a system call or of the boot code.
LEMMA IntrEnableInv ==
  ASSUME IInv, NEW t \in Threads, IntrEnable(t)
  PROVE  IInv'
<1> USE DEF IntrEnable, At, Goto, schedVars, lockVars, callVars, pidVars, syncVars
<1>1. /\ TypeOK /\ cur = t /\ pc[t] = "run"
      /\ ~gate'[t] /\ \A u \in Threads : u # t => gate'[u] <=> gate[u]
      /\ gate' \in [Threads -> BOOLEAN]
  BY ThreadAssumption, SyncAssumption DEF IInv, TypeOK, ThreadAssumption, SyncAssumption, ControlOK, LockPCs, DiskPCs, IdlePCs
<1>2. TypeOK'
  BY <1>1 DEF IInv, TypeOK, PCs, IntrStatus
<1>3. NoPanic'
  BY <1>1 DEF IInv, NoPanic
<1>4. ControlOK'
  BY <1>1 DEF IInv, ControlOK, LockPCs, DiskPCs, IdlePCs
<1>5. ReadyListExact' /\ BlockedOK' /\ WaitersExact' /\ CreationOK'
  BY <1>1, LocalFrame, ThreadAssumption DEF TypeOK
<1>6. IntrOK'
  BY <1>1 DEF IInv, IntrOK, IntrRestored, Parked
<1>7. LockOK'
  BY <1>1, LockFrame DEF IInv
<1>8. NoLostWakeup' /\ DiskOK'
  BY <1>1, WakeupFrame, DiskFrame DEF IInv, Waiting, DiskPCs
<1> QED BY <1>2, <1>3, <1>4, <1>5, <1>6, <1>7, <1>8 DEF IInv

\* next_pid++.
LEMMA CountPidInv ==
  ASSUME IInv, NEW t \in Threads, CountPid(t)
  PROVE  IInv'
<1> USE DEF CountPid, At, Goto, schedVars, lockVars, callVars, pidVars, syncVars
<1>1. /\ TypeOK /\ cur = t /\ pc[t] = "count" /\ next_pid' = next_pid + 1
      /\ \A u \in Threads : pc'[u] = IF u = t THEN "counted" ELSE pc[u]
  BY ThreadAssumption, SyncAssumption DEF IInv, TypeOK, ThreadAssumption, SyncAssumption, ControlOK, LockPCs, DiskPCs, IdlePCs
<1>2. TypeOK'
  BY <1>1 DEF IInv, TypeOK, PCs, IntrStatus
<1>3. NoPanic'
  BY <1>1 DEF IInv, NoPanic
<1>4. ControlOK'
  BY <1>1 DEF IInv, ControlOK, LockPCs, DiskPCs, IdlePCs
<1>5. ReadyListExact' /\ BlockedOK' /\ WaitersExact' /\ CreationOK'
  BY <1>1, LocalFrame, ThreadAssumption DEF TypeOK
<1>6. IntrOK'
  BY <1>1 DEF IInv, IntrOK, IntrRestored, Parked
<1>7. LockOK'
  BY <1>1, LockFrame DEF IInv
<1>8. NoLostWakeup' /\ DiskOK'
  BY <1>1, WakeupFrame, DiskFrame DEF IInv, Waiting, DiskPCs
<1> QED BY <1>2, <1>3, <1>4, <1>5, <1>6, <1>7, <1>8 DEF IInv

\* plock->holder = running_thread().
LEMMA SetHolderInv ==
  ASSUME IInv, NEW t \in Threads, SetHolder(t)
  PROVE  IInv'
<1> USE DEF SetHolder, At, Goto, schedVars, lockVars, callVars, pidVars, syncVars
<1>0. /\ TypeOK /\ cur = t /\ pc[t] = "got" /\ lk[t] \in Locks /\ depth[t] = 0
  BY InLockCode, BetweenCalls, OwnedCount, SyncAssumption DEF IInv, TypeOK, SyncAssumption
<1>1. /\ \A m \in Locks : holder'[m] = IF m = lk[t] THEN t ELSE holder[m]
      /\ \A u \in Threads : pc'[u] = IF u = t THEN "owned" ELSE pc[u]
  BY <1>0 DEF TypeOK
<1>2. TypeOK'
  BY <1>0, <1>1 DEF IInv, TypeOK, PCs, IntrStatus
<1>3. NoPanic'
  BY <1>0, <1>1 DEF IInv, NoPanic
<1>4. ControlOK'
  BY <1>0, <1>1 DEF IInv, ControlOK, LockPCs, DiskPCs, IdlePCs
<1>5. ReadyListExact' /\ BlockedOK' /\ WaitersExact' /\ CreationOK'
  BY <1>0, <1>1, LocalFrame, ThreadAssumption DEF TypeOK
<1>6. IntrOK'
  BY <1>0, <1>1 DEF IInv, IntrOK, IntrRestored, Parked
<1>7. LockOK'
  <2> SUFFICES ASSUME NEW m \in Locks PROVE LockOKAt(m)'
    BY DEF LockOK
  <2>0. LockOKAt(m)
    BY DEF IInv, LockOK
  <2>1. CASE m # lk[t]
    BY <1>0, <1>1, <2>0, <2>1, OtherLock
  <2>2. CASE m = lk[t]
    <3>1. \A u \in Threads : HasSema(u, m)' <=> HasSema(u, m)
      BY <1>0, <1>1, <2>2 DEF HasSema, TypeOK
    <3>2. HasSema(t, m) /\ \A u \in Threads : HasSema(u, m) => u = t
      BY <1>0, <2>0, <2>2 DEF HasSema, LockOKAt
    <3>3. value'[m] = value[m] /\ value[m] = 0
      BY <2>0, <3>2 DEF LockOKAt
    <3>4. \A u \in Threads : u # t =>
            ~(lk'[u] = m /\ (depth'[u] > 0 \/ pc'[u] \in {"got", "owned", "rel", "up"}))
      BY <3>1, <3>2 DEF HasSema
    <3>5. \A u \in Threads : u # t => holder'[m] # u
      BY <1>0, <1>1, <2>0, <2>2, <3>2, ThreadAssumption DEF LockOKAt, HasSema, ThreadAssumption
    <3>6. /\ holder'[m] = t <=> lk'[t] = m /\ (depth'[t] > 0 \/ pc'[t] = "owned")
          /\ lk'[t] = m /\ depth'[t] > 0 => repeat'[m] = depth'[t]
          /\ lk'[t] = m /\ pc'[t] = "rel" => repeat'[m] = 1
          /\ lk'[t] = m /\ pc'[t] \in {"got", "owned", "up"} => repeat'[m] = 0
      BY <1>0, <1>1, <2>0, <2>2, ThreadAssumption DEF LockOKAt, TypeOK, ThreadAssumption
    <3> QED BY <3>1, <3>2, <3>3, <3>4, <3>5, <3>6 DEF LockOKAt
  <2> QED BY <2>1, <2>2
<1>8. NoLostWakeup' /\ DiskOK'
  BY <1>0, <1>1, WakeupFrame, DiskFrame DEF IInv, Waiting, DiskPCs
<1> QED BY <1>2, <1>3, <1>4, <1>5, <1>6, <1>7, <1>8 DEF IInv

\* plock->holder_repeat_nr = 1: lock_acquire returns.
LEMMA SetRepeatInv ==
  ASSUME IInv, NEW t \in Threads, SetRepeat(t)
  PROVE  IInv'
<1> USE DEF SetRepeat, At, Goto, schedVars, lockVars, callVars, pidVars, syncVars
<1>a. cur = t /\ pc[t] = "owned"
  OBVIOUS
<1>0. /\ TypeOK /\ cur = t /\ pc[t] = "owned" /\ lk[t] \in Locks /\ depth[t] = 0 /\ lk[t] # NoLock /\ t # Idle /\ repeat[lk[t]] = 0
  <2>1. lk[t] \in Locks /\ depth[t] = 0 /\ t # Idle /\ repeat[lk[t]] = 0
    BY <1>a, InLockCode, OwnedCount
  <2>2. TypeOK /\ lk[t] # NoLock
    BY <2>1, SyncAssumption DEF IInv, SyncAssumption
  <2> QED BY <1>a, <2>1, <2>2
<1>1. /\ \A m \in Locks : repeat'[m] = IF m = lk[t] THEN 1 ELSE repeat[m]
      /\ \A u \in Threads : depth'[u] = IF u = t THEN 1 ELSE depth[u]
      /\ \A u \in Threads : pc'[u] = IF u = t THEN (IF job[t] = NoThread THEN "run" ELSE "count") ELSE pc[u]
  BY <1>0 DEF TypeOK
<1>2. TypeOK'
  BY <1>0, <1>1 DEF IInv, TypeOK, PCs, IntrStatus
<1>3. NoPanic'
  BY <1>0, <1>1 DEF IInv, NoPanic
<1>4. ControlOK'
  BY <1>0, <1>1 DEF IInv, ControlOK, LockPCs, DiskPCs, IdlePCs
<1>5. ReadyListExact' /\ BlockedOK' /\ WaitersExact' /\ CreationOK'
  BY <1>0, <1>1, LocalFrame, ThreadAssumption DEF TypeOK
<1>6. IntrOK'
  BY <1>0, <1>1 DEF IInv, IntrOK, IntrRestored, Parked
<1>7. LockOK'
  <2> SUFFICES ASSUME NEW m \in Locks PROVE LockOKAt(m)'
    BY DEF LockOK
  <2>0. LockOKAt(m)
    BY DEF IInv, LockOK
  <2>1. CASE m # lk[t]
    BY <1>0, <1>1, <2>0, <2>1, OtherLock
  <2>2. CASE m = lk[t]
    <3>1. \A u \in Threads : HasSema(u, m)' <=> HasSema(u, m)
      BY <1>0, <1>1, <2>2 DEF HasSema, TypeOK
    <3>2. HasSema(t, m) /\ \A u \in Threads : HasSema(u, m) => u = t
      BY <1>0, <2>0, <2>2 DEF HasSema, LockOKAt
    <3>3. value'[m] = value[m] /\ value[m] = 0
      BY <2>0, <3>2 DEF LockOKAt
    <3>4. \A u \in Threads : u # t =>
            ~(lk'[u] = m /\ (depth'[u] > 0 \/ pc'[u] \in {"got", "owned", "rel", "up"}))
      BY <3>1, <3>2 DEF HasSema
    <3>5. \A u \in Threads : u # t => holder'[m] # u
      BY <1>0, <1>1, <2>0, <2>2, <3>2, ThreadAssumption DEF LockOKAt, HasSema, ThreadAssumption
    <3>6. /\ holder'[m] = t <=> lk'[t] = m /\ (depth'[t] > 0 \/ pc'[t] = "owned")
          /\ lk'[t] = m /\ depth'[t] > 0 => repeat'[m] = depth'[t]
          /\ lk'[t] = m /\ pc'[t] = "rel" => repeat'[m] = 1
          /\ lk'[t] = m /\ pc'[t] \in {"got", "owned", "up"} => repeat'[m] = 0
      BY <1>0, <1>1, <2>0, <2>2, ThreadAssumption DEF LockOKAt, TypeOK, ThreadAssumption
    <3> QED BY <3>1, <3>2, <3>3, <3>4, <3>5, <3>6 DEF LockOKAt
  <2> QED BY <2>1, <2>2
<1>8. NoLostWakeup' /\ DiskOK'
  BY <1>0, <1>1, WakeupFrame, DiskFrame DEF IInv, Waiting, DiskPCs
<1> QED BY <1>2, <1>3, <1>4, <1>5, <1>6, <1>7, <1>8 DEF IInv

\* lock_release with more levels to go.
LEMMA ReleaseInnerInv ==
  ASSUME IInv, NEW t \in Threads, ReleaseInner(t)
  PROVE  IInv'
<1> USE DEF ReleaseInner, MayRelease, ReleaseAsserts, At, Goto, schedVars, lockVars, callVars, pidVars, syncVars
<1>0. /\ TypeOK /\ cur = t /\ depth[t] > 0 /\ lk[t] \in Locks /\ pc[t] \in {"run", "counted"}
      /\ holder[lk[t]] = t /\ repeat[lk[t]] = depth[t] /\ repeat[lk[t]] >= 1 /\ depth[t] \in Nat
      /\ depth[t] > 1
  BY InLockCode, BetweenCalls, OwnedCount, SyncAssumption DEF IInv, TypeOK, SyncAssumption
<1>1. /\ \A m \in Locks : repeat'[m] = IF m = lk[t] THEN repeat[m] - 1 ELSE repeat[m]
      /\ \A u \in Threads : depth'[u] = IF u = t THEN depth[u] - 1 ELSE depth[u]
  BY <1>0 DEF TypeOK
<1>2. TypeOK'
  BY <1>0, <1>1 DEF IInv, TypeOK, PCs, IntrStatus
<1>3. NoPanic'
  BY <1>0, <1>1 DEF IInv, NoPanic
<1>4. ControlOK'
  BY <1>0, <1>1 DEF IInv, ControlOK, LockPCs, DiskPCs, IdlePCs
<1>5. ReadyListExact' /\ BlockedOK' /\ WaitersExact' /\ CreationOK'
  BY <1>0, <1>1, LocalFrame, ThreadAssumption DEF TypeOK
<1>6. IntrOK'
  BY <1>0, <1>1 DEF IInv, IntrOK, IntrRestored, Parked
<1>7. LockOK'
  <2> SUFFICES ASSUME NEW m \in Locks PROVE LockOKAt(m)'
    BY DEF LockOK
  <2>0. LockOKAt(m)
    BY DEF IInv, LockOK
  <2>1. CASE m # lk[t]
    BY <1>0, <1>1, <2>0, <2>1, OtherLock
  <2>2. CASE m = lk[t]
    <3>1. \A u \in Threads : HasSema(u, m)' <=> HasSema(u, m)
      <4>1. lk' = lk /\ pc' = pc
        OBVIOUS
      <4>2. \A u \in Threads : depth'[u] > 0 <=> depth[u] > 0
        BY <1>0, <1>1
      <4> QED BY <4>1, <4>2 DEF HasSema
    <3>2. HasSema(t, m) /\ \A u \in Threads : HasSema(u, m) => u = t
      BY <1>0, <2>0, <2>2 DEF HasSema, LockOKAt
    <3>3. value'[m] = value[m] /\ value[m] = 0
      BY <2>0, <3>2 DEF LockOKAt
    <3>4. \A u \in Threads : u # t =>
            ~(lk'[u] = m /\ (depth'[u] > 0 \/ pc'[u] \in {"got", "owned", "rel", "up"}))
      BY <3>1, <3>2 DEF HasSema
    <3>5. \A u \in Threads : u # t => holder'[m] # u
      BY <1>0, <1>1, <2>0, <2>2, <3>2, ThreadAssumption DEF LockOKAt, HasSema, ThreadAssumption
    <3>6. /\ holder'[m] = t <=> lk'[t] = m /\ (depth'[t] > 0 \/ pc'[t] = "owned")
          /\ lk'[t] = m /\ depth'[t] > 0 => repeat'[m] = depth'[t]
          /\ lk'[t] = m /\ pc'[t] = "rel" => repeat'[m] = 1
          /\ lk'[t] = m /\ pc'[t] \in {"got", "owned", "up"} => repeat'[m] = 0
      <4>1. holder'[m] = t /\ depth'[t] > 0 /\ repeat'[m] = depth'[t]
        BY <1>0, <1>1, <2>2
      <4>2. lk'[t] = m /\ pc'[t] \in {"run", "counted"}
        BY <1>0, <2>2
      <4> QED BY <4>1, <4>2
    <3> QED BY <3>1, <3>2, <3>3, <3>4, <3>5, <3>6 DEF LockOKAt
  <2> QED BY <2>1, <2>2
<1>8. NoLostWakeup' /\ DiskOK'
  BY <1>0, <1>1, WakeupFrame, DiskFrame DEF IInv, Waiting, DiskPCs
<1> QED BY <1>2, <1>3, <1>4, <1>5, <1>6, <1>7, <1>8 DEF IInv

\* lock_release clears the holder.
LEMMA ReleaseLastInv ==
  ASSUME IInv, NEW t \in Threads, ReleaseLast(t)
  PROVE  IInv'
<1> USE DEF ReleaseLast, MayRelease, ReleaseAsserts, At, Goto, schedVars, lockVars, callVars, pidVars, syncVars
<1>0. /\ TypeOK /\ cur = t /\ depth[t] > 0 /\ lk[t] \in Locks /\ pc[t] \in {"run", "counted"}
      /\ holder[lk[t]] = t /\ repeat[lk[t]] = depth[t] /\ repeat[lk[t]] >= 1 /\ depth[t] \in Nat
  BY InLockCode, BetweenCalls, OwnedCount, SyncAssumption DEF IInv, TypeOK, SyncAssumption
<1>a. repeat[lk[t]] = 1 /\ depth[t] = 1
  BY <1>0
<1>1. /\ \A m \in Locks : holder'[m] = IF m = lk[t] THEN NoThread ELSE holder[m]
      /\ \A u \in Threads : depth'[u] = IF u = t THEN 0 ELSE depth[u]
      /\ \A u \in Threads : pc'[u] = IF u = t THEN "rel" ELSE pc[u]
  BY <1>0 DEF TypeOK
<1>2. TypeOK'
  BY <1>0, <1>a, <1>1 DEF IInv, TypeOK, PCs, IntrStatus
<1>3. NoPanic'
  BY <1>0, <1>a, <1>1 DEF IInv, NoPanic
<1>4. ControlOK'
  BY <1>0, <1>a, <1>1 DEF IInv, ControlOK, LockPCs, DiskPCs, IdlePCs
<1>5. ReadyListExact' /\ BlockedOK' /\ WaitersExact' /\ CreationOK'
  BY <1>0, <1>a, <1>1, LocalFrame, ThreadAssumption DEF TypeOK
<1>6. IntrOK'
  BY <1>0, <1>a, <1>1 DEF IInv, IntrOK, IntrRestored, Parked
<1>7. LockOK'
  <2> SUFFICES ASSUME NEW m \in Locks PROVE LockOKAt(m)'
    BY DEF LockOK
  <2>0. LockOKAt(m)
    BY DEF IInv, LockOK
  <2>1. CASE m # lk[t]
    BY <1>0, <1>a, <1>1, <2>0, <2>1, OtherLock
  <2>2. CASE m = lk[t]
    <3>1. \A u \in Threads : HasSema(u, m)' <=> HasSema(u, m)
      BY <1>0, <1>a, <1>1, <2>2 DEF HasSema, TypeOK
    <3>2. HasSema(t, m) /\ \A u \in Threads : HasSema(u, m) => u = t
      BY <1>0, <2>0, <2>2 DEF HasSema, LockOKAt
    <3>3. value'[m] = value[m] /\ value[m] = 0
      BY <2>0, <3>2 DEF LockOKAt
    <3>4. \A u \in Threads : u # t =>
            ~(lk'[u] = m /\ (depth'[u] > 0 \/ pc'[u] \in {"got", "owned", "rel", "up"}))
      BY <3>1, <3>2 DEF HasSema
    <3>5. \A u \in Threads : u # t => holder'[m] # u
      BY <1>0, <1>a, <1>1, <2>0, <2>2, <3>2, ThreadAssumption DEF LockOKAt, HasSema, ThreadAssumption
    <3>6. /\ holder'[m] = t <=> lk'[t] = m /\ (depth'[t] > 0 \/ pc'[t] = "owned")
          /\ lk'[t] = m /\ depth'[t] > 0 => repeat'[m] = depth'[t]
          /\ lk'[t] = m /\ pc'[t] = "rel" => repeat'[m] = 1
          /\ lk'[t] = m /\ pc'[t] \in {"got", "owned", "up"} => repeat'[m] = 0
      BY <1>0, <1>a, <1>1, <2>0, <2>2, ThreadAssumption DEF LockOKAt, TypeOK, ThreadAssumption
    <3> QED BY <3>1, <3>2, <3>3, <3>4, <3>5, <3>6 DEF LockOKAt
  <2> QED BY <2>1, <2>2
<1>8. NoLostWakeup' /\ DiskOK'
  BY <1>0, <1>a, <1>1, WakeupFrame, DiskFrame DEF IInv, Waiting, DiskPCs
<1> QED BY <1>2, <1>3, <1>4, <1>5, <1>6, <1>7, <1>8 DEF IInv

\* plock->holder_repeat_nr = 0.
LEMMA ClearRepeatInv ==
  ASSUME IInv, NEW t \in Threads, ClearRepeat(t)
  PROVE  IInv'
<1> USE DEF ClearRepeat, At, Goto, schedVars, lockVars, callVars, pidVars, syncVars
<1>0. /\ TypeOK /\ cur = t /\ pc[t] = "rel" /\ lk[t] \in Locks /\ depth[t] = 0
  BY InLockCode, BetweenCalls, OwnedCount, SyncAssumption DEF IInv, TypeOK, SyncAssumption
<1>1. /\ \A m \in Locks : repeat'[m] = IF m = lk[t] THEN 0 ELSE repeat[m]
      /\ \A u \in Threads : pc'[u] = IF u = t THEN "up" ELSE pc[u]
  BY <1>0 DEF TypeOK
<1>2. TypeOK'
  BY <1>0, <1>1 DEF IInv, TypeOK, PCs, IntrStatus
<1>3. NoPanic'
  BY <1>0, <1>1 DEF IInv, NoPanic
<1>4. ControlOK'
  BY <1>0, <1>1 DEF IInv, ControlOK, LockPCs, DiskPCs, IdlePCs
<1>5. ReadyListExact' /\ BlockedOK' /\ WaitersExact' /\ CreationOK'
  BY <1>0, <1>1, LocalFrame, ThreadAssumption DEF TypeOK
<1>6. IntrOK'
  BY <1>0, <1>1 DEF IInv, IntrOK, IntrRestored, Parked
<1>7. LockOK'
  <2> SUFFICES ASSUME NEW m \in Locks PROVE LockOKAt(m)'
    BY DEF LockOK
  <2>0. LockOKAt(m)
    BY DEF IInv, LockOK
  <2>1. CASE m # lk[t]
    BY <1>0, <1>1, <2>0, <2>1, OtherLock
  <2>2. CASE m = lk[t]
    <3>1. \A u \in Threads : HasSema(u, m)' <=> HasSema(u, m)
      BY <1>0, <1>1, <2>2 DEF HasSema, TypeOK
    <3>2. HasSema(t, m) /\ \A u \in Threads : HasSema(u, m) => u = t
      BY <1>0, <2>0, <2>2 DEF HasSema, LockOKAt
    <3>3. value'[m] = value[m] /\ value[m] = 0
      BY <2>0, <3>2 DEF LockOKAt
    <3>4. \A u \in Threads : u # t =>
            ~(lk'[u] = m /\ (depth'[u] > 0 \/ pc'[u] \in {"got", "owned", "rel", "up"}))
      BY <3>1, <3>2 DEF HasSema
    <3>5. \A u \in Threads : u # t => holder'[m] # u
      BY <1>0, <1>1, <2>0, <2>2, <3>2, ThreadAssumption DEF LockOKAt, HasSema, ThreadAssumption
    <3>6. /\ holder'[m] = t <=> lk'[t] = m /\ (depth'[t] > 0 \/ pc'[t] = "owned")
          /\ lk'[t] = m /\ depth'[t] > 0 => repeat'[m] = depth'[t]
          /\ lk'[t] = m /\ pc'[t] = "rel" => repeat'[m] = 1
          /\ lk'[t] = m /\ pc'[t] \in {"got", "owned", "up"} => repeat'[m] = 0
      <4>1. /\ lk' = lk /\ depth' = depth /\ holder' = holder
            /\ lk[t] = m /\ depth[t] = 0 /\ pc[t] = "rel" /\ pc'[t] = "up" /\ repeat'[m] = 0
        BY <1>0, <1>1, <2>2
      <4>2. holder[m] # t
        BY <2>0, <4>1 DEF LockOKAt
      <4> HIDE DEF ClearRepeat
      <4> QED BY <4>1, <4>2
    <3> QED BY <3>1, <3>2, <3>3, <3>4, <3>5, <3>6 DEF LockOKAt
  <2> QED BY <2>1, <2>2
<1>8. NoLostWakeup' /\ DiskOK'
  BY <1>0, <1>1, WakeupFrame, DiskFrame DEF IInv, Waiting, DiskPCs
<1> QED BY <1>2, <1>3, <1>4, <1>5, <1>6, <1>7, <1>8 DEF IInv

\* lock_acquire by the holder.
LEMMA AcquireAgainInv ==
  ASSUME IInv, NEW t \in Threads, NEW l \in Locks, AcquireAgain(t, l)
  PROVE  IInv'
<1> USE DEF AcquireAgain, At, Goto, schedVars, lockVars, callVars, pidVars, syncVars
<1>0. /\ TypeOK /\ cur = t /\ depth[t] > 0 /\ lk[t] = l /\ pc[t] = "run" /\ holder[l] = t
      /\ repeat[l] = depth[t] /\ depth[t] \in Nat /\ l # NoLock /\ t # Idle
  BY InLockCode, BetweenCalls, OwnedCount, SyncAssumption DEF IInv, TypeOK, SyncAssumption
<1>1. /\ \A m \in Locks : repeat'[m] = IF m = l THEN repeat[m] + 1 ELSE repeat[m]
      /\ \A u \in Threads : depth'[u] = IF u = t THEN depth[u] + 1 ELSE depth[u]
      /\ depth' = [depth EXCEPT ![t] = @ + 1] /\ repeat' = [repeat EXCEPT ![l] = @ + 1]
      /\ UNCHANGED <<status, ready, cur, ticks, intr, old, pc, panic, value, waiters, holder, lk, job, gate,
                   expecting, next_pid, pid>>
  BY <1>0 DEF TypeOK
<1> HIDE DEF AcquireAgain
<1>2. TypeOK'
  BY <1>0, <1>1 DEF IInv, TypeOK, PCs, IntrStatus
<1>3. NoPanic'
  BY <1>0, <1>1 DEF IInv, NoPanic
<1>4. ControlOK'
  BY <1>0, <1>1 DEF IInv, ControlOK, LockPCs, DiskPCs, IdlePCs
<1>5. ReadyListExact' /\ BlockedOK' /\ WaitersExact' /\ CreationOK'
  <2>1. /\ job' = job /\ next_pid' = next_pid /\ pc[t] # "link" /\ pc'[t] # "link"
        /\ UNCHANGED <<status, ready, cur, waiters, pid>>
    BY <1>0, <1>1
  <2>2. /\ next_pid' >= next_pid /\ next_pid' \in Nat
    BY <1>0, <2>1 DEF TypeOK
  <2>3. \A u \in Threads : pc'[u] = pc[u] /\ lk'[u] = lk[u] /\ job'[u] = job[u] /\ (gate'[u] <=> gate[u])
    BY <1>1
  <2> QED BY <1>0, <2>1, <2>2, <2>3, LocalFrame, ThreadAssumption
<1>6. IntrOK'
  BY <1>0, <1>1 DEF IInv, IntrOK, IntrRestored, Parked
<1>7. LockOK'
  <2> SUFFICES ASSUME NEW m \in Locks PROVE LockOKAt(m)'
    BY DEF LockOK
  <2>0. LockOKAt(m)
    BY DEF IInv, LockOK
  <2>1. CASE m # lk[t]
    BY <1>0, <1>1, <2>0, <2>1, OtherLock
  <2>2. CASE m = lk[t]
    <3>1. \A u \in Threads : HasSema(u, m)' <=> HasSema(u, m)
      BY <1>0, <1>1, <2>2 DEF HasSema, TypeOK
    <3>2. HasSema(t, m) /\ \A u \in Threads : HasSema(u, m) => u = t
      BY <1>0, <2>0, <2>2 DEF HasSema, LockOKAt
    <3>3. value'[m] = value[m] /\ value[m] = 0
      BY <1>1, <2>0, <3>2 DEF LockOKAt
    <3>4. \A u \in Threads : u # t =>
            ~(lk'[u] = m /\ (depth'[u] > 0 \/ pc'[u] \in {"got", "owned", "rel", "up"}))
      BY <3>1, <3>2 DEF HasSema
    <3>5. \A u \in Threads : u # t => holder'[m] # u
      BY <1>0, <1>1, <2>0, <2>2, <3>2, ThreadAssumption DEF LockOKAt, HasSema, ThreadAssumption
    <3>6. /\ holder'[m] = t <=> lk'[t] = m /\ (depth'[t] > 0 \/ pc'[t] = "owned")
          /\ lk'[t] = m /\ depth'[t] > 0 => repeat'[m] = depth'[t]
          /\ lk'[t] = m /\ pc'[t] = "rel" => repeat'[m] = 1
          /\ lk'[t] = m /\ pc'[t] \in {"got", "owned", "up"} => repeat'[m] = 0
      BY <1>0, <1>1, <2>0, <2>2, ThreadAssumption DEF LockOKAt, TypeOK, ThreadAssumption
    <3> QED BY <3>1, <3>2, <3>3, <3>4, <3>5, <3>6 DEF LockOKAt
  <2> QED BY <2>1, <2>2
<1>8. NoLostWakeup' /\ DiskOK'
  BY <1>0, <1>1, WakeupFrame, DiskFrame DEF IInv, Waiting, DiskPCs
<1> QED BY <1>2, <1>3, <1>4, <1>5, <1>6, <1>7, <1>8 DEF IInv

-----------------------------------------------------------------------------
(* Steps that switch threads.                                              *)

\* While anybody but idle runs, idle is on the ready list or blocked.
LEMMA IdleBlocked ==
  ASSUME IInv, ThreadAssumption, ready = <<>>, cur # Idle
  PROVE  status[Idle] = "BLOCKED"
<1>1. Idle \in Threads /\ status[Idle] \in TaskStatus /\ Idle # NoThread
  BY ThreadAssumption DEF IInv, TypeOK, ThreadAssumption
<1>2. status[Idle] # "RUNNING"
  BY <1>1 DEF IInv, ReadyListExact
<1>3. status[Idle] # "NONE"
  BY <1>1 DEF IInv, CreationOK
<1>4. ~Linking(Idle)
  BY <1>1 DEF IInv, CreationOK, Linking
<1>5. Idle \notin ToSet(ready)
  BY DEF ToSet
<1>6. status[Idle] # "READY"
  BY <1>1, <1>4, <1>5 DEF IInv, ReadyListExact
<1> QED BY <1>1, <1>2, <1>3, <1>6 DEF TaskStatus

\* The thread that calls schedule() has left the lists in order: rd and st are
\* exact, it is on its way into a primitive or preempted, and it has saved its
\* interrupt status if it is in a system call.
LEMMA SwitchFrame ==
  ASSUME IInv, ThreadAssumption,
         NEW rd \in Seq(Threads), NEW st \in [Threads -> TaskStatus],
         Schedule(rd, st), ScheduleAsserts(rd, st), IsInjective(rd),
         \A u \in Threads : u \in ToSet(rd) <=> st[u] = "READY" /\ ~Linking(u),
         \A u \in Threads : u # cur => st[u] = status[u],
         st[cur] # "NONE",
         UNCHANGED <<job, next_pid, pid, gate>>,
         \A u \in Threads : u # cur => pc'[u] = pc[u] /\ old'[u] = old[u],
         pc'[cur] = "link" <=> pc[cur] = "link",
         pc'[cur] # "start",
         st[cur] = "BLOCKED" => pc'[cur] \in {"wait", "diskwait", "block"},
         gate[cur] => pc'[cur] \in Parked,
         pc'[cur] \in {"wait", "diskwait", "yield", "block"} =>
           old'[cur] = (IF gate[cur] THEN "OFF" ELSE "ON")
  PROVE  /\ status' \in [Threads -> TaskStatus] /\ ready' \in Seq(Threads)
         /\ cur' \in Threads /\ ticks' \in [Threads -> Nat] /\ intr' \in IntrStatus
         /\ ReadyListExact' /\ CreationOK' /\ BlockedOK' /\ IntrOK'
         /\ \A u \in Threads : u # Idle => (status'[u] = "BLOCKED" <=> st[u] = "BLOCKED")
<1>0. TypeOK /\ cur \in Threads /\ Idle \in Threads /\ status[cur] = "RUNNING"
  BY ThreadAssumption DEF IInv, TypeOK, ReadyListExact, ThreadAssumption
<1>1. \A c \in Threads : job[c] # NoThread =>
        /\ job[c] \in Threads \ {Idle, cur}
        /\ pc[c] = "link" => status[job[c]] = "READY"
  <2> SUFFICES ASSUME NEW c \in Threads, job[c] # NoThread
               PROVE  /\ job[c] \in Threads \ {Idle, cur}
                      /\ pc[c] = "link" => status[job[c]] = "READY"
    OBVIOUS
  <2>1. job[c] \in Threads
    BY <1>0 DEF TypeOK
  <2>2. /\ job[c] # Idle
        /\ pc[c] = "link" => status[job[c]] = "READY"
        /\ status[job[c]] = "READY" \/ pid[job[c]] = 0
    BY DEF IInv, CreationOK
  <2>3. status[job[c]] \in {"READY", "NONE"}
    BY <2>1, <2>2 DEF IInv, CreationOK
  <2> QED BY <1>0, <2>1, <2>2, <2>3
<1>2. ~Linking(cur) /\ ~Linking(Idle)
  BY <1>0, <1>1, ThreadAssumption DEF Linking, ThreadAssumption
<1>4. \A u \in Threads : st[u] = "RUNNING" => u = cur
  BY <1>0 DEF IInv, ReadyListExact
<1>5. /\ cur' \in Threads
      /\ ready' \in Seq(Threads)
      /\ status' \in [Threads -> TaskStatus]
      /\ ticks' \in [Threads -> Nat]
      /\ IsInjective(ready')
      /\ \A u \in Threads : status'[u] = "RUNNING" <=> u = cur'
      /\ \A u \in Threads : u \in ToSet(ready') <=> status'[u] = "READY" /\ ~Linking(u)
      /\ \A u \in Threads : status'[u] = "BLOCKED" => st[u] = "BLOCKED"
      /\ \A u \in Threads : u # Idle /\ st[u] = "BLOCKED" => status'[u] = "BLOCKED"
      /\ \A u \in Threads : status'[u] = "NONE" <=> st[u] = "NONE"
      /\ \A u \in Threads : Linking(u) => status'[u] = st[u]
      /\ intr' = IF pc'[cur'] \in Parked THEN "OFF" ELSE "ON"
  BY <1>0, <1>2, <1>4, ScheduleFacts, ThreadAssumption
<1>6. \A u \in Threads : Linking(u)' <=> Linking(u)
  <2>1. \A c \in Threads : pc'[c] = "link" <=> pc[c] = "link"
    OBVIOUS
  <2> QED BY <2>1 DEF Linking
<1>7. ReadyListExact'
  BY <1>5, <1>6 DEF ReadyListExact
<1>8. CreationOK'
  <2>1. next_pid' >= 2
    BY DEF IInv, CreationOK
  <2>2. ASSUME NEW c \in Threads, job'[c] # NoThread
        PROVE  /\ job'[c] \notin {Main, Idle}
               /\ pc'[c] = "link" => status'[job'[c]] = "READY" /\ pid'[job'[c]] # 0 /\ pc'[job'[c]] = "start"
               /\ pc'[c] # "link" => pid'[job'[c]] = 0
               /\ \A d \in Threads : job'[d] = job'[c] => d = c
    <3>1. job[c] \in Threads \ {Idle, cur} /\ pc'[job[c]] = pc[job[c]]
      BY <1>1, <2>2
    <3>2. pc[c] = "link" => status'[job[c]] = "READY"
      <4> SUFFICES ASSUME pc[c] = "link" PROVE status'[job[c]] = "READY"
        OBVIOUS
      <4>1. Linking(job[c])
        BY DEF Linking
      <4>2. status'[job[c]] = st[job[c]]
        BY <1>5, <3>1, <4>1
      <4>3. st[job[c]] = status[job[c]]
        BY <3>1
      <4>4. status[job[c]] = "READY"
        BY <1>1, <2>2
      <4> QED BY <4>2, <4>3, <4>4
    <3>3. pc'[c] = "link" <=> pc[c] = "link"
      OBVIOUS
    <3> QED BY <2>2, <3>1, <3>2, <3>3 DEF IInv, CreationOK
  <2>3. ASSUME NEW u \in Threads
        PROVE  /\ pid'[u] = 0 <=> status'[u] = "NONE"
               /\ status'[u] = "NONE" => pc'[u] = "start" /\ ~gate'[u] /\ u \notin {Main, Idle}
    <3>1. status'[u] = "NONE" <=> status[u] = "NONE"
      BY <1>0, <1>5
    <3>2. status[u] = "NONE" => u # cur
      BY <1>0
    <3> QED BY <3>1, <3>2 DEF IInv, CreationOK
  <2> QED BY <2>1, <2>2, <2>3 DEF CreationOK
<1>9. BlockedOK'
  <2> SUFFICES ASSUME NEW u \in Threads, status'[u] = "BLOCKED" PROVE pc'[u] \in {"wait", "diskwait", "block"}
    BY DEF BlockedOK
  <2>1. st[u] = "BLOCKED"
    BY <1>5
  <2>2. CASE u = cur
    BY <2>1, <2>2
  <2>3. CASE u # cur
    BY <2>1, <2>3 DEF IInv, BlockedOK
  <2> QED BY <2>2, <2>3
<1>10. IntrOK'
  <2>1. /\ \A u \in Threads : u # cur /\ gate[u] => pc'[u] \in Parked
        /\ \A u \in Threads : pc'[u] = "start" => ~gate[u]
        /\ \A u \in Threads : pc'[u] \in {"wait", "diskwait", "yield", "block"} =>
             old'[u] = (IF gate[u] THEN "OFF" ELSE "ON")
        /\ ~gate[Idle]
    BY DEF IInv, IntrOK
  <2>2. \A u \in Threads : gate[u] => pc'[u] \in Parked
    BY <2>1
  <2> QED BY <1>5, <2>1, <2>2 DEF IntrOK, IntrRestored
<1>11. intr' \in IntrStatus
  BY <1>5 DEF IntrStatus
<1> QED BY <1>5, <1>7, <1>8, <1>9, <1>10, <1>11

\* The end of a time slice.
LEMMA TimerPreemptInv ==
  ASSUME IInv, TimerPreempt, UNCHANGED syncVars
  PROVE  IInv'
<1> USE DEF TimerPreempt, AfterInterrupt, syncVars, lockVars, callVars, pidVars
<1>0. /\ TypeOK /\ cur \in Threads /\ status[cur] = "RUNNING" /\ intr = "ON"
  BY DEF IInv, TypeOK, ReadyListExact
<1>1. /\ \A u \in Threads : pc'[u] = IF u = cur /\ pc[u] = "halted" THEN "idle" ELSE pc[u]
      /\ pc' \in [Threads -> PCs]
  BY <1>0 DEF TypeOK, PCs
<1>2. pc[cur] \notin Parked /\ ~gate[cur]
  BY <1>0 DEF IInv, IntrOK, IntrRestored, Parked
<1>3. ~Linking(cur)
  <2> SUFFICES ASSUME NEW c \in Threads, job[c] = cur, pc[c] = "link" PROVE FALSE
    BY DEF Linking
  <2>1. job[c] # NoThread
    BY <1>0, ThreadAssumption DEF ThreadAssumption
  <2>2. status[job[c]] = "READY"
    BY <2>1 DEF IInv, CreationOK
  <2> QED BY <1>0, <2>2
<1>4. ready \in Seq(Threads) /\ status \in [Threads -> TaskStatus] /\ IsInjective(ready)
      /\ \A u \in Threads : u \in ToSet(ready) <=> status[u] = "READY" /\ ~Linking(u)
  BY <1>0 DEF IInv, TypeOK, ReadyListExact
<1>5. Schedule(ready, status) /\ ScheduleAsserts(ready, status)
  <2>1. cur \notin ToSet(ready)
    BY <1>0, <1>4
  <2> QED BY <1>0, <2>1 DEF ScheduleAsserts, Requeue
<1>6. /\ status' \in [Threads -> TaskStatus] /\ ready' \in Seq(Threads)
      /\ cur' \in Threads /\ ticks' \in [Threads -> Nat] /\ intr' \in IntrStatus
      /\ ReadyListExact' /\ CreationOK' /\ BlockedOK' /\ IntrOK'
      /\ \A u \in Threads : u # Idle => (status'[u] = "BLOCKED" <=> status[u] = "BLOCKED")
  <2>1. /\ \A u \in Threads : u # cur => pc'[u] = pc[u] /\ old'[u] = old[u]
        /\ pc'[cur] = "link" <=> pc[cur] = "link"
        /\ pc'[cur] # "start" /\ pc'[cur] \notin {"wait", "diskwait", "yield", "block"}
    BY <1>0, <1>1, <1>2 DEF Parked
  <2> QED BY <1>0, <1>2, <1>4, <1>5, <2>1, SwitchFrame, ThreadAssumption
<1>7. NoPanic'
  BY <1>5 DEF NoPanic
<1>8. TypeOK'
  BY <1>0, <1>1, <1>6 DEF TypeOK
<1>9. ControlOK'
  BY <1>1 DEF IInv, ControlOK, LockPCs, DiskPCs, IdlePCs
<1>10. WaitersExact'
  BY <1>6 DEF IInv, WaitersExact, Wants
<1>11. LockOK'
  BY <1>1, LockFrame DEF IInv
<1>12. NoLostWakeup' /\ DiskOK'
  <2>1. \A u \in Threads : pc[u] \in Waiting => u # Idle
    BY SyncAssumption, InSemaDown
  <2> QED BY <1>1, <1>6, <2>1, WakeupFrame, DiskFrame DEF IInv, Waiting, DiskPCs
<1> QED BY <1>6, <1>7, <1>8, <1>9, <1>10, <1>11, <1>12 DEF IInv

\* idle blocks itself.
LEMMA IdleBlockInv ==
  ASSUME IInv, IdleBlock, UNCHANGED syncVars
  PROVE  IInv'
<1> USE DEF IdleBlock, Block, BlockAsserts, At, Goto, syncVars, lockVars, callVars, pidVars
<1> DEFINE st == [status EXCEPT ![cur] = "BLOCKED"]
<1>0. /\ TypeOK /\ cur = Idle /\ Idle \in Threads /\ status[cur] = "RUNNING" /\ pc[cur] = "idle"
      /\ Schedule(ready, st)
  BY ThreadAssumption DEF IInv, TypeOK, ReadyListExact, ThreadAssumption
<1>1. /\ \A u \in Threads : pc'[u] = IF u = Idle THEN "block" ELSE pc[u]
      /\ \A u \in Threads : old'[u] = IF u = Idle THEN intr ELSE old[u]
      /\ pc' \in [Threads -> PCs] /\ old' \in [Threads -> IntrStatus]
  BY <1>0 DEF TypeOK, PCs
<1>2. ~gate[Idle] /\ intr = "ON"
  BY <1>0 DEF IInv, IntrOK, IntrRestored, Parked
<1>3. /\ st \in [Threads -> TaskStatus] /\ st[cur] = "BLOCKED"
      /\ \A u \in Threads : st[u] = IF u = cur THEN "BLOCKED" ELSE status[u]
  BY <1>0 DEF TypeOK, TaskStatus
<1> HIDE DEF st
<1>4. ready \in Seq(Threads) /\ IsInjective(ready)
      /\ \A u \in Threads : u \in ToSet(ready) <=> st[u] = "READY" /\ ~Linking(u)
  BY <1>0, <1>3 DEF IInv, TypeOK, ReadyListExact
<1>5. ScheduleAsserts(ready, st)
  BY <1>0, <1>3 DEF ScheduleAsserts, Requeue
<1>6. /\ status' \in [Threads -> TaskStatus] /\ ready' \in Seq(Threads)
      /\ cur' \in Threads /\ ticks' \in [Threads -> Nat] /\ intr' \in IntrStatus
      /\ ReadyListExact' /\ CreationOK' /\ BlockedOK' /\ IntrOK'
      /\ \A u \in Threads : u # Idle => (status'[u] = "BLOCKED" <=> st[u] = "BLOCKED")
  <2>1. /\ \A u \in Threads : u # cur => pc'[u] = pc[u] /\ old'[u] = old[u]
        /\ pc'[cur] = "block" /\ pc'[cur] \in Parked /\ old'[cur] = "ON"
    BY <1>0, <1>1, <1>2 DEF Parked
  <2>2. /\ \A u \in Threads : u # cur => st[u] = status[u]
        /\ st[cur] = "BLOCKED" /\ st[cur] # "NONE" /\ ~gate[cur]
        /\ pc'[cur] # "start" /\ pc'[cur] \in {"wait", "diskwait", "block"}
        /\ pc'[cur] = "link" <=> pc[cur] = "link"
        /\ old'[cur] = (IF gate[cur] THEN "OFF" ELSE "ON")
    BY <1>0, <1>2, <1>3, <2>1
  <2> QED BY <1>0, <1>3, <1>4, <1>5, <2>1, <2>2, SwitchFrame, ThreadAssumption
<1>7. NoPanic'
  BY <1>5 DEF NoPanic, st
<1>8. TypeOK'
  BY <1>0, <1>1, <1>6 DEF TypeOK
<1>9. ControlOK'
  BY <1>0, <1>1 DEF IInv, ControlOK, LockPCs, DiskPCs, IdlePCs
<1>10. WaitersExact'
  BY <1>0, <1>3, <1>6 DEF IInv, WaitersExact, Wants
<1>11. LockOK'
  BY <1>0, <1>1, LockFrame DEF IInv
<1>12. NoLostWakeup' /\ DiskOK'
  <2>1. \A u \in Threads : pc[u] \in Waiting => u # Idle
    BY SyncAssumption, InSemaDown
  <2> QED BY <1>0, <1>1, <1>3, <1>6, <2>1, WakeupFrame, DiskFrame DEF IInv, Waiting, DiskPCs
<1> QED BY <1>6, <1>7, <1>8, <1>9, <1>10, <1>11, <1>12 DEF IInv

\* thread_yield, with or without a lock.
LEMMA YieldInv ==
  ASSUME IInv, NEW t \in Threads, Yield(t)
  PROVE  IInv'
<1> USE DEF Yield, ThreadYield, At, Goto, lockVars, callVars, pidVars
<1> DEFINE st == YieldStatus(t)
           rd == YieldReady(t)
<1>0. /\ TypeOK /\ cur = t /\ status[t] = "RUNNING" /\ pc[t] = "run" /\ t # Idle
      /\ Schedule(rd, st)
  BY DEF IInv, TypeOK, ReadyListExact, ControlOK, DiskPCs, IdlePCs
<1>1. /\ \A u \in Threads : pc'[u] = IF u = t THEN "yield" ELSE pc[u]
      /\ \A u \in Threads : old'[u] = IF u = t THEN intr ELSE old[u]
      /\ pc' \in [Threads -> PCs] /\ old' \in [Threads -> IntrStatus]
  BY <1>0 DEF TypeOK, PCs
<1>2. intr = (IF gate[t] THEN "OFF" ELSE "ON")
  BY <1>0 DEF IInv, IntrOK, IntrRestored, Parked
<1>3. /\ st \in [Threads -> TaskStatus]
      /\ \A u \in Threads : st[u] = IF u = t THEN "READY" ELSE status[u]
  BY <1>0 DEF TypeOK, TaskStatus, YieldStatus
<1>4. ready \in Seq(Threads) /\ IsInjective(ready) /\ t \notin ToSet(ready)
      /\ \A u \in Threads : u \in ToSet(ready) <=> status[u] = "READY" /\ ~Linking(u)
  BY <1>0 DEF IInv, TypeOK, ReadyListExact
<1>5. /\ rd \in Seq(Threads) /\ rd # <<>> /\ IsInjective(rd)
      /\ \A y : y \in ToSet(rd) <=> y \in ToSet(ready) \/ y = t
  BY <1>4, AppendFacts DEF YieldReady
<1> HIDE DEF st, rd
<1>6. ~Linking(t)
  <2> SUFFICES ASSUME NEW c \in Threads, job[c] = t, pc[c] = "link" PROVE FALSE
    BY DEF Linking
  <2>1. job[c] # NoThread
    BY ThreadAssumption DEF ThreadAssumption
  <2>2. status[job[c]] = "READY"
    BY <2>1 DEF IInv, CreationOK
  <2> QED BY <1>0, <2>2
<1>7. \A u \in Threads : u \in ToSet(rd) <=> st[u] = "READY" /\ ~Linking(u)
  BY <1>3, <1>4, <1>5, <1>6
<1>8. ScheduleAsserts(rd, st)
  BY <1>0, <1>3, <1>5 DEF ScheduleAsserts, Requeue
<1>9. /\ status' \in [Threads -> TaskStatus] /\ ready' \in Seq(Threads)
      /\ cur' \in Threads /\ ticks' \in [Threads -> Nat] /\ intr' \in IntrStatus
      /\ ReadyListExact' /\ CreationOK' /\ BlockedOK' /\ IntrOK'
      /\ \A u \in Threads : u # Idle => (status'[u] = "BLOCKED" <=> st[u] = "BLOCKED")
  <2>1. /\ \A u \in Threads : u # cur => pc'[u] = pc[u] /\ old'[u] = old[u]
        /\ pc'[cur] = "yield" /\ pc'[cur] \in Parked
        /\ old'[cur] = (IF gate[cur] THEN "OFF" ELSE "ON")
    BY <1>0, <1>1, <1>2 DEF Parked
  <2>2. /\ \A u \in Threads : u # cur => st[u] = status[u]
        /\ st[cur] # "NONE" /\ st[cur] # "BLOCKED"
    BY <1>0, <1>3
  <2> QED BY <1>0, <1>3, <1>5, <1>7, <1>8, <2>1, <2>2, SwitchFrame, ThreadAssumption
<1>10. NoPanic'
  BY <1>4, <1>8 DEF NoPanic, st, rd
<1>11. TypeOK'
  BY <1>0, <1>1, <1>9 DEF TypeOK
<1>12. ControlOK'
  BY <1>0, <1>1 DEF IInv, ControlOK, LockPCs, DiskPCs, IdlePCs
<1>13. WaitersExact'
  <2>1. \A u \in Threads : u # Idle => (status'[u] = "BLOCKED" <=> status[u] = "BLOCKED")
    BY <1>0, <1>3, <1>9
  <2>2. \A u \in Threads : status[u] = "BLOCKED" => Wants(u)' = Wants(u)
    BY <1>0, <1>1 DEF Wants
  <2> QED BY <2>1, <2>2 DEF IInv, WaitersExact
<1>14. LockOK'
  BY <1>0, <1>1, LockFrame DEF IInv
<1>15. NoLostWakeup' /\ DiskOK'
  <2>1. \A u \in Threads : pc[u] \in Waiting => u # Idle
    BY SyncAssumption, InSemaDown
  <2> QED BY <1>0, <1>1, <1>3, <1>9, <2>1, WakeupFrame, DiskFrame DEF IInv, Waiting, DiskPCs
<1> QED BY <1>9, <1>10, <1>11, <1>12, <1>13, <1>14, <1>15 DEF IInv



\* The thread under construction is neither running nor blocked.
LEMMA JobStatus ==
  ASSUME IInv, ThreadAssumption, NEW c \in Threads, job[c] # NoThread
  PROVE  /\ job[c] \in Threads /\ job[c] # cur /\ status[job[c]] \in {"NONE", "READY"}
         /\ pc[job[c]] = "start"
         /\ pc[c] # "link" => status[job[c]] = "NONE"
<1>1. job[c] \in Threads /\ cur \in Threads
  BY DEF IInv, TypeOK
<1>2. /\ status[job[c]] = "READY" \/ pid[job[c]] = 0
      /\ pc[c] = "link" => pc[job[c]] = "start"
      /\ pc[c] # "link" => pid[job[c]] = 0
  BY DEF IInv, CreationOK
<1>3. /\ status[job[c]] \in {"NONE", "READY"} /\ pc[job[c]] = "start"
      /\ pc[c] # "link" => status[job[c]] = "NONE"
  BY <1>1, <1>2 DEF IInv, CreationOK
<1>4. job[c] # cur
  BY <1>1, <1>3 DEF IInv, ReadyListExact
<1> QED BY <1>1, <1>3, <1>4

\* After sema_up nobody has the semaphore.
LEMMA GivenBack ==
  ASSUME NEW l \in Locks, NEW t \in Threads, LockOKAt(l),
         pc[t] = "up", lk[t] = l, depth[t] = 0, repeat[l] = 0,
         value'[l] = 1, holder'[l] = holder[l], repeat'[l] = repeat[l],
         \A u \in Threads : u # t => pc'[u] = pc[u] /\ lk'[u] = lk[u] /\ depth'[u] = depth[u],
         lk'[t] # l
  PROVE  LockOKAt(l)'
<1>1. HasSema(t, l)
  BY DEF HasSema
<1>2. \A u \in Threads : HasSema(u, l) => u = t
  BY <1>1 DEF LockOKAt
<1>3. \A u \in Threads : ~HasSema(u, l)'
  BY <1>2 DEF HasSema
<1>4. \A u \in Threads : ~(lk'[u] = l /\ (depth'[u] > 0 \/ pc'[u] = "owned"))
  BY <1>3 DEF HasSema
<1>5. \A u \in Threads : holder'[l] # u
  <2> SUFFICES ASSUME NEW u \in Threads, holder[l] = u PROVE FALSE
    OBVIOUS
  <2>1. lk[u] = l /\ (depth[u] > 0 \/ pc[u] = "owned")
    BY DEF LockOKAt
  <2>2. HasSema(u, l)
    BY <2>1 DEF HasSema
  <2> QED BY <1>2, <2>1, <2>2
<1>6. \A u \in Threads : ~(lk'[u] = l /\ pc'[u] \in {"got", "owned", "rel", "up"})
  BY <1>3 DEF HasSema
<1> QED BY <1>3, <1>4, <1>5, <1>6 DEF LockOKAt

\* sema_down finds the semaphore taken: the thread joins the waiters and blocks.
\* sv is the semaphore of the lock it wants, or the disk's.
LEMMA SemaBlockInv ==
  ASSUME IInv, NEW t \in Threads, cur = t, NEW sv \in Semas, NEW again,
         \/ pc[t] \in {"down", "wait"} /\ sv = lk[t] /\ again = "wait"
         \/ pc[t] \in DiskPCs /\ sv = DiskDone /\ again = "diskwait",
         value[sv] = 0,
         waiters' = [waiters EXCEPT ![sv] = Append(@, t)],
         Goto(t, again), Block,
         panic' = ~(t \notin ToSet(waiters[sv]) /\ BlockAsserts),
         UNCHANGED <<value, holder, repeat, callVars, expecting, pidVars>>,
         old' \in [Threads -> IntrStatus], \A u \in Threads : u # t => old'[u] = old[u],
         old'[t] = (IF gate[t] THEN "OFF" ELSE "ON")
  PROVE  IInv'
<1> USE DEF Block, BlockAsserts, Goto, callVars, pidVars
<1> DEFINE st == [status EXCEPT ![cur] = "BLOCKED"]
<1>0. /\ TypeOK /\ status[t] = "RUNNING" /\ t # Idle /\ Schedule(ready, st)
      /\ again \in {"wait", "diskwait"} /\ DiskDone \notin Locks \cup {NoLock}
  BY InLockCode, InDiskCode, SyncAssumption DEF IInv, ReadyListExact, SyncAssumption
<1>1. /\ \A u \in Threads : pc'[u] = IF u = t THEN again ELSE pc[u]
      /\ pc' \in [Threads -> PCs]
  BY <1>0 DEF TypeOK, PCs
<1>2. /\ st \in [Threads -> TaskStatus]
      /\ \A u \in Threads : st[u] = IF u = t THEN "BLOCKED" ELSE status[u]
  BY <1>0 DEF TypeOK, TaskStatus
<1>3. ready \in Seq(Threads) /\ IsInjective(ready)
      /\ \A u \in Threads : u \in ToSet(ready) <=> st[u] = "READY" /\ ~Linking(u)
  BY <1>0, <1>2 DEF IInv, TypeOK, ReadyListExact
<1>4. ready = <<>> => st[Idle] = "BLOCKED"
  <2>1. status[Idle] = "BLOCKED" \/ ready # <<>>
    BY <1>0, IdleBlocked, ThreadAssumption
  <2> QED BY <1>0, <1>2, <2>1, ThreadAssumption DEF ThreadAssumption
<1>5. ScheduleAsserts(ready, st)
  BY <1>2, <1>4 DEF ScheduleAsserts, Requeue
<1> HIDE DEF st
<1>6. /\ status' \in [Threads -> TaskStatus] /\ ready' \in Seq(Threads)
      /\ cur' \in Threads /\ ticks' \in [Threads -> Nat] /\ intr' \in IntrStatus
      /\ ReadyListExact' /\ CreationOK' /\ BlockedOK' /\ IntrOK'
      /\ \A u \in Threads : u # Idle => (status'[u] = "BLOCKED" <=> st[u] = "BLOCKED")
  <2>0. pc[t] # "link"
    BY DEF DiskPCs
  <2>1. /\ \A u \in Threads : u # cur => pc'[u] = pc[u] /\ old'[u] = old[u] /\ st[u] = status[u]
        /\ pc'[cur] \in Parked /\ st[cur] = "BLOCKED" /\ st[cur] # "NONE"
        /\ pc'[cur] = "link" <=> pc[cur] = "link"
        /\ pc'[cur] # "start" /\ pc'[cur] \in {"wait", "diskwait", "block"}
        /\ old'[cur] = (IF gate[cur] THEN "OFF" ELSE "ON")
    BY <1>0, <1>1, <1>2, <2>0 DEF Parked
  <2>2. UNCHANGED <<job, next_pid, pid, gate>> /\ Schedule(ready, st) /\ ready \in Seq(Threads)
    BY <1>0, <1>3
  <2> HIDE DEF Block, BlockAsserts, Goto, callVars, pidVars
  <2> QED BY <1>2, <1>3, <1>5, <2>1, <2>2, SwitchFrame, ThreadAssumption
<1>7. \A u \in Threads : u # Idle => (status'[u] = "BLOCKED" <=> u = t \/ status[u] = "BLOCKED")
  BY <1>2, <1>6
<1>8. /\ waiters[sv] \in Seq(Threads) /\ IsInjective(waiters[sv]) /\ t \notin ToSet(waiters[sv])
      /\ waiters \in [Semas -> Seq(Threads)]
  BY <1>0 DEF IInv, TypeOK, WaitersExact
<1>9. /\ Append(waiters[sv], t) \in Seq(Threads) /\ IsInjective(Append(waiters[sv], t))
      /\ \A y : y \in ToSet(Append(waiters[sv], t)) <=> y \in ToSet(waiters[sv]) \/ y = t
  BY <1>8, AppendFacts
<1>10. /\ waiters' \in [Semas -> Seq(Threads)] /\ waiters'[sv] = Append(waiters[sv], t)
       /\ \A m \in Semas : m # sv => waiters'[m] = waiters[m]
  BY <1>0, <1>8, <1>9
<1>11. TypeOK'
  BY <1>0, <1>1, <1>6, <1>10 DEF TypeOK
<1>12. NoPanic'
  BY <1>5, <1>8 DEF NoPanic, st
<1>13. ControlOK'
  BY <1>0, <1>1 DEF IInv, ControlOK, LockPCs, DiskPCs, IdlePCs
<1>14. Wants(t)' = sv /\ \A u \in Threads : u # t => Wants(u)' = Wants(u)
  BY <1>0, <1>1 DEF Wants
<1>15. WaitersExact'
  <2> SUFFICES ASSUME NEW m \in Semas
               PROVE  /\ IsInjective(waiters'[m])
                      /\ \A u \in Threads : u \in ToSet(waiters'[m]) <=>
                            status'[u] = "BLOCKED" /\ u # Idle /\ Wants(u)' = m
    BY DEF WaitersExact
  <2>0. /\ IsInjective(waiters[m])
        /\ \A u \in Threads : u \in ToSet(waiters[m]) <=> status[u] = "BLOCKED" /\ u # Idle /\ Wants(u) = m
    BY DEF IInv, WaitersExact
  <2>1. CASE m = sv
    BY <1>0, <1>7, <1>9, <1>10, <1>14, <2>0, <2>1
  <2>2. CASE m # sv
    BY <1>0, <1>7, <1>10, <1>14, <2>0, <2>2
  <2> QED BY <2>1, <2>2
<1>16. LockOK'
  BY <1>0, <1>1, LockFrame DEF IInv, DiskPCs
<1>17. DiskOK'
  BY <1>0, <1>1, DiskFrame DEF IInv, DiskPCs
<1>18. NoLostWakeup'
  <2> SUFFICES ASSUME NEW m \in Semas, value[m] = 1, waiters'[m] # <<>>
               PROVE  \E u \in Threads : pc'[u] \in Waiting /\ Wants(u)' = m /\ status'[u] # "BLOCKED"
    BY DEF NoLostWakeup
  <2>1. m # sv /\ waiters[m] # <<>>
    BY <1>10
  <2>2. PICK u \in Threads : pc[u] \in Waiting /\ Wants(u) = m /\ status[u] # "BLOCKED"
    BY <2>1 DEF IInv, NoLostWakeup
  <2>3. u # t
    BY <1>0, <2>1, <2>2 DEF Waiting, Wants, DiskPCs
  <2>4. u # Idle
    BY <2>2, InSemaDown, SyncAssumption
  <2> QED BY <1>1, <1>7, <1>14, <2>2, <2>3, <2>4
<1> QED BY <1>6, <1>11, <1>12, <1>13, <1>15, <1>16, <1>17, <1>18 DEF IInv

\* sema_down finds the lock's semaphore free and takes it.
LEMMA SemaTakeInv ==
  ASSUME IInv, NEW t \in Threads, cur = t, pc[t] \in {"down", "wait"}, value[lk[t]] # 0,
         value' = [value EXCEPT ![lk[t]] = @ - 1],
         panic' = (value[lk[t]] # 1),
         intr' = (IF gate[t] THEN "OFF" ELSE "ON"),
         Goto(t, "got"),
         UNCHANGED <<waiters, schedVars, holder, repeat, callVars, expecting, pidVars>>,
         old' \in [Threads -> IntrStatus], \A u \in Threads : u # t => old'[u] = old[u]
  PROVE  IInv'
<1> USE DEF Goto, schedVars, callVars, pidVars
<1> DEFINE l == lk[t]
<1>0. /\ TypeOK /\ status[t] = "RUNNING" /\ l \in Locks /\ t # Idle /\ depth[t] = 0
      /\ LockOKAt(l) /\ value[l] = 1 /\ l \in Semas /\ l # DiskDone
  BY InLockCode, SyncAssumption DEF IInv, ReadyListExact, LockOK, LockOKAt, Semas, SyncAssumption
<1>1. \A u \in Threads : pc'[u] = IF u = t THEN "got" ELSE pc[u]
  BY <1>0 DEF TypeOK
<1>2. /\ value'[l] = 0 /\ \A m \in Semas : m # l => value'[m] = value[m]
      /\ value' \in [Semas -> Nat] /\ value'[DiskDone] = value[DiskDone]
  BY <1>0 DEF TypeOK, Semas
<1>3. TypeOK'
  BY <1>0, <1>2 DEF TypeOK, PCs, IntrStatus
<1>4. NoPanic'
  BY <1>0 DEF NoPanic
<1>5. ControlOK'
  BY <1>0, <1>1 DEF IInv, ControlOK, LockPCs, DiskPCs, IdlePCs
<1>6. ReadyListExact' /\ BlockedOK' /\ WaitersExact' /\ CreationOK'
  BY <1>0, <1>1, LocalFrame, ThreadAssumption DEF TypeOK
<1>7. IntrOK'
  BY <1>0, <1>1 DEF IInv, IntrOK, IntrRestored, Parked
<1>8. LockOK'
  <2>1. ASSUME NEW m \in Locks, m # l PROVE LockOKAt(m)'
    BY <1>0, <1>1, <1>2, <2>1, OtherLock DEF IInv, LockOK, Semas
  <2>2. LockOKAt(l)'
    <3>1. \A u \in Threads : ~HasSema(u, l)
      BY <1>0 DEF LockOKAt
    <3>2. \A u \in Threads : HasSema(u, l)' <=> u = t
      BY <1>0, <1>1, <3>1 DEF HasSema
    <3> QED BY <1>0, <1>1, <1>2, <3>2 DEF LockOKAt
  <2> QED BY <2>1, <2>2 DEF LockOK
<1>9. DiskOK'
  BY <1>0, <1>1, <1>2, DiskFrame DEF IInv, DiskPCs
<1>10. NoLostWakeup'
  <2> SUFFICES ASSUME NEW m \in Semas, value'[m] = 1, waiters[m] # <<>>
               PROVE  \E u \in Threads : pc'[u] \in Waiting /\ Wants(u)' = m /\ status[u] # "BLOCKED"
    BY DEF NoLostWakeup
  <2>1. m # l /\ value[m] = 1
    BY <1>2
  <2>2. PICK u \in Threads : pc[u] \in Waiting /\ Wants(u) = m /\ status[u] # "BLOCKED"
    BY <2>1 DEF IInv, NoLostWakeup
  <2>3. u # t
    BY <2>1, <2>2 DEF Wants
  <2>4. pc'[u] = pc[u] /\ Wants(u)' = Wants(u)
    BY <1>1, <2>3 DEF Wants
  <2> QED BY <2>2, <2>4
<1> QED BY <1>3, <1>4, <1>5, <1>6, <1>7, <1>8, <1>9, <1>10 DEF IInv

\* sema_down, on entry: the interrupt status it saves is the caller's.
LEMMA SemaDownInv ==
  ASSUME IInv, NEW t \in Threads, SemaDown(t)
  PROVE  IInv'
<1> USE DEF SemaDown, At, LockLoop
<1>1. /\ TypeOK /\ cur = t /\ pc[t] = "down" /\ intr = (IF gate[t] THEN "OFF" ELSE "ON")
      /\ lk[t] \in Semas
  BY InLockCode DEF IInv, IntrOK, IntrRestored, Parked, Semas
<1>2. /\ old' \in [Threads -> IntrStatus] /\ \A u \in Threads : u # t => old'[u] = old[u]
      /\ old'[t] = (IF gate[t] THEN "OFF" ELSE "ON")
  BY <1>1 DEF TypeOK
<1>3. CASE value[lk[t]] = 0
  BY <1>1, <1>2, <1>3, SemaBlockInv DEF SemaLoop
<1>4. CASE value[lk[t]] # 0
  BY <1>1, <1>2, <1>4, SemaTakeInv DEF SemaLoop
<1> QED BY <1>3, <1>4

\* sema_down, after thread_block: a semaphore that somebody else took meanwhile
\* is waited for again.
LEMMA SemaRetestInv ==
  ASSUME IInv, NEW t \in Threads, SemaRetest(t)
  PROVE  IInv'
<1> USE DEF SemaRetest, At, LockLoop
<1>1. /\ TypeOK /\ cur = t /\ pc[t] = "wait" /\ old[t] = (IF gate[t] THEN "OFF" ELSE "ON")
      /\ lk[t] \in Semas
  BY InLockCode DEF IInv, IntrOK, Semas
<1>2. /\ old' \in [Threads -> IntrStatus] /\ \A u \in Threads : u # t => old'[u] = old[u]
      /\ old'[t] = (IF gate[t] THEN "OFF" ELSE "ON")
  BY <1>1 DEF TypeOK
<1>3. CASE value[lk[t]] = 0
  BY <1>1, <1>2, <1>3, SemaBlockInv DEF SemaLoop
<1>4. CASE value[lk[t]] # 0
  BY <1>1, <1>2, <1>4, SemaTakeInv DEF SemaLoop
<1> QED BY <1>3, <1>4

\* One call of sema_up(sv) by the running thread or by an interrupt handler on
\* its stack: nobody, or the oldest waiter, leaves the waiters for the front of
\* the ready list, and is the one that NoLostWakeup asks for.
LEMMA UpFacts ==
  ASSUME IInv, ThreadAssumption, SyncAssumption, NEW sv \in Semas, value[sv] = 0, Up(sv),
         UNCHANGED <<cur, job, gate, next_pid, pid>>,
         \A u \in Threads : u # cur => pc'[u] = pc[u] /\ lk'[u] = lk[u],
         pc[cur] \notin Waiting, pc'[cur] = "link" <=> pc[cur] = "link"
  PROVE  /\ value' \in [Semas -> Nat] /\ value'[sv] = 1
         /\ \A m \in Semas : m # sv => value'[m] = value[m]
         /\ waiters' \in [Semas -> Seq(Threads)] /\ ready' \in Seq(Threads)
         /\ status' \in [Threads -> TaskStatus]
         /\ panic' = FALSE
         /\ ReadyListExact' /\ CreationOK' /\ BlockedOK' /\ WaitersExact' /\ NoLostWakeup'
<1>0. /\ TypeOK /\ cur \in Threads /\ status[cur] = "RUNNING" /\ NoThread \notin Threads
      /\ waiters[sv] \in Seq(Threads)
  BY DEF IInv, TypeOK, ReadyListExact, ThreadAssumption
<1>1. /\ value'[sv] = 1 /\ value' \in [Semas -> Nat]
      /\ \A m \in Semas : m # sv => value'[m] = value[m]
  BY <1>0 DEF Up, TypeOK
<1>2. \A u \in Threads : status[u] = "BLOCKED" => pc'[u] = pc[u] /\ Wants(u)' = Wants(u)
  BY <1>0 DEF Wants
<1>3. \A u \in Threads : pc[u] \in Waiting => pc'[u] = pc[u] /\ Wants(u)' = Wants(u)
  BY DEF Wants
<1>4. \A u \in Threads : Linking(u)' <=> Linking(u)
  <2>1. \A c \in Threads : pc'[c] = "link" <=> pc[c] = "link"
    OBVIOUS
  <2> QED BY <2>1 DEF Linking
<1>5. CASE waiters[sv] = <<>>
  <2>1. UNCHANGED <<ready, status, waiters>> /\ panic' = FALSE
    BY <1>5 DEF Up
  <2>2. ReadyListExact' /\ BlockedOK' /\ CreationOK' /\ WaitersExact'
    <3>1. ReadyListExact'
      BY <1>4, <2>1 DEF IInv, ReadyListExact
    <3>2. BlockedOK'
      BY <1>2, <2>1 DEF IInv, BlockedOK
    <3>3. WaitersExact'
      BY <1>2, <2>1 DEF IInv, WaitersExact
    <3>4. CreationOK'
      <4>1. \A c \in Threads : job[c] # NoThread => job[c] \in Threads /\ pc'[job[c]] = pc[job[c]]
        BY JobStatus
      <4>2. \A c \in Threads : pc'[c] = "link" <=> pc[c] = "link"
        OBVIOUS
      <4>3. \A u \in Threads : status[u] = "NONE" => pc'[u] = pc[u]
        BY <1>0
      <4> QED BY <2>1, <4>1, <4>2, <4>3 DEF IInv, CreationOK
    <3> QED BY <3>1, <3>2, <3>3, <3>4
  <2>3. NoLostWakeup'
    <3> SUFFICES ASSUME NEW m \in Semas, value'[m] = 1, waiters[m] # <<>>
                 PROVE  \E u \in Threads : pc'[u] \in Waiting /\ Wants(u)' = m /\ status[u] # "BLOCKED"
      BY <2>1 DEF NoLostWakeup
    <3>1. m # sv /\ value[m] = 1
      BY <1>1, <1>5
    <3>2. PICK u \in Threads : pc[u] \in Waiting /\ Wants(u) = m /\ status[u] # "BLOCKED"
      BY <3>1 DEF IInv, NoLostWakeup
    <3> QED BY <1>3, <3>2
  <2> QED BY <1>0, <1>1, <2>1, <2>2, <2>3 DEF TypeOK
<1>6. CASE waiters[sv] # <<>>
  <2> DEFINE w == Head(waiters[sv])
  <2>1. /\ IsInjective(waiters[sv])
        /\ \A u \in Threads : u \in ToSet(waiters[sv]) <=> status[u] = "BLOCKED" /\ u # Idle /\ Wants(u) = sv
    BY <1>0 DEF IInv, WaitersExact
  <2>2. /\ Tail(waiters[sv]) \in Seq(Threads) /\ w \in Threads /\ w \in ToSet(waiters[sv])
        /\ IsInjective(Tail(waiters[sv]))
        /\ \A y : y \in ToSet(Tail(waiters[sv])) <=> y \in ToSet(waiters[sv]) /\ y # w
    BY <1>0, <1>6, <2>1, PopFacts
  <2>3. status[w] = "BLOCKED" /\ w # Idle /\ Wants(w) = sv /\ w # cur
    BY <1>0, <2>1, <2>2
  <2>4. pc[w] \in Waiting
    <3>1. pc[w] \in {"wait", "diskwait", "block"}
      BY <2>2, <2>3 DEF IInv, BlockedOK
    <3> QED BY <2>2, <2>3, <3>1 DEF IInv, ControlOK, IdlePCs, Waiting
  <2>5. ready \in Seq(Threads) /\ IsInjective(ready)
        /\ \A u \in Threads : u \in ToSet(ready) <=> status[u] = "READY" /\ ~Linking(u)
    BY <1>0 DEF IInv, TypeOK, ReadyListExact
  <2>6. w \notin ToSet(ready)
    BY <2>2, <2>3, <2>5
  <2>7. /\ waiters' = [waiters EXCEPT ![sv] = Tail(@)]
        /\ ready' = <<w>> \o ready
        /\ status' = [status EXCEPT ![w] = "READY"]
        /\ panic' = ~(value[sv] = 0 /\ status[w] = "BLOCKED" /\ w \notin ToSet(ready))
    BY <1>6 DEF Up, Unblock, UnblockAsserts
  <2> HIDE DEF w
  <2>8. /\ waiters' \in [Semas -> Seq(Threads)] /\ waiters'[sv] = Tail(waiters[sv])
        /\ \A m \in Semas : m # sv => waiters'[m] = waiters[m]
    BY <1>0, <2>2, <2>7 DEF TypeOK
  <2>9. /\ status' \in [Threads -> TaskStatus]
        /\ \A u \in Threads : status'[u] = IF u = w THEN "READY" ELSE status[u]
    BY <1>0, <2>2, <2>7 DEF TypeOK, TaskStatus
  <2>10. /\ ready' \in Seq(Threads) /\ IsInjective(ready')
         /\ \A y : y \in ToSet(ready') <=> y \in ToSet(ready) \/ y = w
    BY <2>2, <2>5, <2>6, <2>7, PushFacts
  <2>11. panic' = FALSE
    BY <2>3, <2>6, <2>7
  <2>12. ReadyListExact'
    <3>1. ~Linking(w)
      <4> SUFFICES ASSUME NEW c \in Threads, job[c] = w, pc[c] = "link" PROVE FALSE
        BY DEF Linking
      <4>1. job[c] # NoThread
        BY <1>0, <2>2
      <4> QED BY <2>3, <4>1, JobStatus
    <3>2. \A u \in Threads : u \in ToSet(ready') <=> status'[u] = "READY" /\ ~Linking(u)'
      BY <1>4, <2>2, <2>5, <2>9, <2>10, <3>1
    <3>3. \A u \in Threads : status'[u] = "RUNNING" <=> u = cur'
      BY <1>0, <2>3, <2>9 DEF IInv, ReadyListExact
    <3> QED BY <2>10, <3>2, <3>3 DEF ReadyListExact
  <2>13. CreationOK'
    <3>1. next_pid' >= 2
      BY DEF IInv, CreationOK
    <3>2. ASSUME NEW c \in Threads, job[c] # NoThread
          PROVE  /\ job[c] \notin {Main, Idle}
                 /\ pc'[c] = "link" => status'[job[c]] = "READY" /\ pid[job[c]] # 0 /\ pc'[job[c]] = "start"
                 /\ pc'[c] # "link" => pid[job[c]] = 0
                 /\ \A d \in Threads : job[d] = job[c] => d = c
      <4>1. job[c] \in Threads /\ job[c] # cur /\ status[job[c]] \in {"NONE", "READY"}
        BY <3>2, JobStatus
      <4>2. /\ pc'[job[c]] = pc[job[c]] /\ status'[job[c]] = status[job[c]]
            /\ pc'[c] = "link" <=> pc[c] = "link"
        BY <2>3, <2>9, <4>1
      <4> QED BY <3>2, <4>2 DEF IInv, CreationOK
    <3>3. ASSUME NEW u \in Threads
          PROVE  /\ pid[u] = 0 <=> status'[u] = "NONE"
                 /\ status'[u] = "NONE" => pc'[u] = "start" /\ ~gate[u] /\ u \notin {Main, Idle}
      <4>1. status'[u] = "NONE" <=> status[u] = "NONE"
        BY <2>3, <2>9
      <4>2. status[u] = "NONE" => pc'[u] = pc[u]
        BY <1>0
      <4> QED BY <4>1, <4>2 DEF IInv, CreationOK
    <3> QED BY <3>1, <3>2, <3>3 DEF CreationOK
  <2>14. BlockedOK'
    BY <1>2, <2>9 DEF IInv, BlockedOK
  <2>15. WaitersExact'
    <3> SUFFICES ASSUME NEW m \in Semas
                 PROVE  /\ IsInjective(waiters'[m])
                        /\ \A u \in Threads : u \in ToSet(waiters'[m]) <=>
                              status'[u] = "BLOCKED" /\ u # Idle /\ Wants(u)' = m
      BY DEF WaitersExact
    <3>1. /\ IsInjective(waiters[m])
          /\ \A u \in Threads : u \in ToSet(waiters[m]) <=> status[u] = "BLOCKED" /\ u # Idle /\ Wants(u) = m
      BY DEF IInv, WaitersExact
    <3>2. \A u \in Threads : status'[u] = "BLOCKED" <=> status[u] = "BLOCKED" /\ u # w
      BY <2>9
    <3>3. CASE m = sv
      BY <1>2, <2>2, <2>8, <3>1, <3>2, <3>3
    <3>4. CASE m # sv
      BY <1>2, <2>3, <2>8, <3>1, <3>2, <3>4
    <3> QED BY <3>3, <3>4
  <2>16. NoLostWakeup'
    <3> SUFFICES ASSUME NEW m \in Semas, value'[m] = 1, waiters'[m] # <<>>
                 PROVE  \E u \in Threads : pc'[u] \in Waiting /\ Wants(u)' = m /\ status'[u] # "BLOCKED"
      BY DEF NoLostWakeup
    <3>1. CASE m = sv
      BY <1>3, <2>2, <2>3, <2>4, <2>9, <3>1
    <3>2. CASE m # sv
      <4>1. value[m] = 1 /\ waiters[m] # <<>>
        BY <1>1, <2>8, <3>2
      <4>2. PICK u \in Threads : pc[u] \in Waiting /\ Wants(u) = m /\ status[u] # "BLOCKED"
        BY <4>1 DEF IInv, NoLostWakeup
      <4> QED BY <1>3, <2>9, <4>2
    <3> QED BY <3>1, <3>2
  <2> QED BY <1>1, <2>8, <2>9, <2>10, <2>11, <2>12, <2>13, <2>14, <2>15, <2>16
<1> QED BY <1>5, <1>6

\* lock_release's sema_up gives the lock back.
LEMMA SemaUpInv ==
  ASSUME IInv, NEW t \in Threads, SemaUp(t)
  PROVE  IInv'
<1> USE DEF SemaUp, At, Goto, pidVars
<1> DEFINE l == lk[t]
<1>0. /\ TypeOK /\ cur = t /\ pc[t] = "up" /\ l \in Locks /\ t # Idle /\ depth[t] = 0
      /\ LockOKAt(l) /\ HasSema(t, l) /\ NoLock \notin Locks /\ l \in Semas /\ l # DiskDone
  BY InLockCode, SyncAssumption DEF IInv, LockOK, HasSema, SyncAssumption, Semas
<1>1. value[l] = 0 /\ repeat[l] = 0
  BY <1>0 DEF LockOKAt
<1>2. /\ \A u \in Threads : pc'[u] = IF u = t THEN IF job[t] = NoThread THEN "run" ELSE "pid" ELSE pc[u]
      /\ \A u \in Threads : lk'[u] = IF u = t THEN NoLock ELSE lk[u]
      /\ pc' \in [Threads -> PCs] /\ lk' \in [Threads -> Locks \cup {NoLock}]
  BY <1>0 DEF TypeOK, PCs
<1>3. /\ value' \in [Semas -> Nat] /\ value'[l] = 1
      /\ \A m \in Semas : m # l => value'[m] = value[m]
      /\ waiters' \in [Semas -> Seq(Threads)] /\ ready' \in Seq(Threads)
      /\ status' \in [Threads -> TaskStatus]
      /\ panic' = FALSE
      /\ ReadyListExact' /\ CreationOK' /\ BlockedOK' /\ WaitersExact' /\ NoLostWakeup'
  <2>1. /\ Up(l) /\ pc[cur] \notin Waiting /\ (pc'[cur] = "link" <=> pc[cur] = "link")
        /\ UNCHANGED <<cur, job, gate, next_pid, pid>>
        /\ \A u \in Threads : u # cur => pc'[u] = pc[u] /\ lk'[u] = lk[u]
    BY <1>0, <1>2 DEF Waiting
  <2> QED BY <1>0, <1>1, <2>1, UpFacts, ThreadAssumption, SyncAssumption
<1>4. TypeOK'
  BY <1>0, <1>2, <1>3 DEF TypeOK
<1>5. NoPanic'
  BY <1>3 DEF NoPanic
<1>6. ControlOK'
  BY <1>0, <1>2 DEF IInv, ControlOK, LockPCs, DiskPCs, IdlePCs
<1>7. IntrOK'
  BY <1>0, <1>2 DEF IInv, IntrOK, IntrRestored, Parked
<1>8. LockOK'
  <2>1. ASSUME NEW m \in Locks, m # l PROVE LockOKAt(m)'
    BY <1>0, <1>2, <1>3, <2>1, OtherLock DEF IInv, LockOK, Semas
  <2>2. ASSUME NEW m \in Locks, m = l PROVE LockOKAt(m)'
    <3>1. /\ pc[t] = "up" /\ lk[t] = m /\ depth[t] = 0 /\ repeat[m] = 0
          /\ value'[m] = 1 /\ holder'[m] = holder[m] /\ repeat'[m] = repeat[m] /\ lk'[t] # m
          /\ \A u \in Threads : u # t => pc'[u] = pc[u] /\ lk'[u] = lk[u] /\ depth'[u] = depth[u]
      BY <1>0, <1>1, <1>2, <1>3, <2>2
    <3> QED BY <1>0, <2>2, <3>1, GivenBack
  <2> QED BY <2>1, <2>2 DEF LockOK
<1>9. DiskOK'
  BY <1>0, <1>2, <1>3, DiskFrame DEF IInv, DiskPCs, Semas
<1> QED BY <1>3, <1>4, <1>5, <1>6, <1>7, <1>8, <1>9 DEF IInv

-----------------------------------------------------------------------------
(* The disk's channel.                                                     *)

\* The channel's lock makes the thread in the driver's wait the only one there.
LEMMA OneDiskUser ==
  ASSUME IInv, SyncAssumption, NEW t \in Threads, NEW u \in Threads,
         lk[t] = Channel, depth[t] > 0, pc[u] \in DiskPCs
  PROVE  u = t
<1>1. HasSema(t, Channel) /\ HasSema(u, Channel) /\ Channel \in Locks
  BY InDiskCode DEF HasSema, SyncAssumption
<1> QED BY <1>1 DEF IInv, LockOK, LockOKAt

\* cmd_out: no command and no answer are under way when the next is sent.
LEMMA DiskCommandInv ==
  ASSUME IInv, NEW t \in Threads, DiskCommand(t)
  PROVE  IInv'
<1> USE DEF DiskCommand, At, Goto, schedVars, lockVars, callVars, pidVars
<1>0. TypeOK /\ cur = t /\ pc[t] = "run" /\ lk[t] = Channel /\ depth[t] > 0 /\ t # Idle
  BY DEF IInv, ControlOK, DiskPCs, IdlePCs
<1>1. \A u \in Threads : pc'[u] = IF u = t THEN "disk" ELSE pc[u]
  BY <1>0 DEF TypeOK
<1>2. TypeOK'
  BY <1>0 DEF TypeOK, PCs
<1>3. NoPanic'
  BY DEF IInv, NoPanic
<1>4. ControlOK'
  BY <1>0, <1>1 DEF IInv, ControlOK, LockPCs, DiskPCs, IdlePCs
<1>5. ReadyListExact' /\ BlockedOK' /\ WaitersExact' /\ CreationOK'
  BY <1>0, <1>1, LocalFrame, ThreadAssumption DEF TypeOK
<1>6. IntrOK'
  BY <1>0, <1>1 DEF IInv, IntrOK, IntrRestored, Parked
<1>7. LockOK'
  BY <1>0, <1>1, LockFrame DEF IInv
<1>8. NoLostWakeup'
  BY <1>0, <1>1, WakeupFrame DEF IInv, Waiting
<1>9. DiskOK'
  <2>1. \A u \in Threads : pc[u] \notin DiskPCs
    BY <1>0, OneDiskUser, SyncAssumption DEF DiskPCs
  <2>2. value[DiskDone] = 0 /\ pc'[t] \in DiskPCs
    BY <1>1, <2>1 DEF IInv, DiskOK, DiskPCs
  <2> QED BY <2>2 DEF DiskOK
<1> QED BY <1>2, <1>3, <1>4, <1>5, <1>6, <1>7, <1>8, <1>9 DEF IInv

\* sema_down(&disk_done) finds the answer there.
LEMMA DiskTakeInv ==
  ASSUME IInv, NEW t \in Threads, cur = t, pc[t] \in DiskPCs, value[DiskDone] # 0,
         value' = [value EXCEPT ![DiskDone] = @ - 1],
         panic' = (value[DiskDone] # 1),
         intr' = (IF gate[t] THEN "OFF" ELSE "ON"),
         Goto(t, "run"),
         UNCHANGED <<waiters, schedVars, holder, repeat, callVars, expecting, pidVars>>,
         old' \in [Threads -> IntrStatus], \A u \in Threads : u # t => old'[u] = old[u]
  PROVE  IInv'
<1> USE DEF Goto, schedVars, callVars, pidVars
<1>0. /\ TypeOK /\ lk[t] = Channel /\ depth[t] > 0 /\ job[t] = NoThread /\ t # Idle
      /\ Channel \in Locks /\ DiskDone \notin Locks \cup {NoLock} /\ NoLock \notin Locks
      /\ value[DiskDone] = 1 /\ ~expecting
  BY InDiskCode, SyncAssumption DEF IInv, DiskOK, SyncAssumption
<1>1. \A u \in Threads : pc'[u] = IF u = t THEN "run" ELSE pc[u]
  BY <1>0 DEF TypeOK
<1>2. /\ value'[DiskDone] = 0 /\ \A m \in Semas : m # DiskDone => value'[m] = value[m]
      /\ value' \in [Semas -> Nat]
  BY <1>0 DEF TypeOK, Semas
<1>3. TypeOK'
  BY <1>0, <1>2 DEF TypeOK, PCs, IntrStatus
<1>4. NoPanic'
  BY <1>0 DEF NoPanic
<1>5. ControlOK'
  BY <1>0, <1>1 DEF IInv, ControlOK, LockPCs, DiskPCs, IdlePCs
<1>6. ReadyListExact' /\ BlockedOK' /\ WaitersExact' /\ CreationOK'
  BY <1>0, <1>1, LocalFrame, ThreadAssumption DEF TypeOK, DiskPCs
<1>7. IntrOK'
  BY <1>0, <1>1 DEF IInv, IntrOK, IntrRestored, Parked
<1>8. LockOK'
  <2>1. \A l \in Locks : value'[l] = value[l]
    BY <1>0, <1>2 DEF Semas
  <2> QED BY <1>0, <1>1, <2>1, LockFrame DEF IInv, DiskPCs
<1>9. DiskOK'
  <2>1. \A u \in Threads : pc'[u] \notin DiskPCs
    BY <1>0, <1>1, OneDiskUser, SyncAssumption DEF DiskPCs
  <2> QED BY <1>0, <1>2, <2>1 DEF DiskOK
<1>10. NoLostWakeup'
  <2> SUFFICES ASSUME NEW m \in Semas, value'[m] = 1, waiters[m] # <<>>
               PROVE  \E u \in Threads : pc'[u] \in Waiting /\ Wants(u)' = m /\ status[u] # "BLOCKED"
    BY DEF NoLostWakeup
  <2>1. m # DiskDone /\ value[m] = 1
    BY <1>2
  <2>2. PICK u \in Threads : pc[u] \in Waiting /\ Wants(u) = m /\ status[u] # "BLOCKED"
    BY <2>1 DEF IInv, NoLostWakeup
  <2>3. u # t
    BY <2>1, <2>2 DEF Wants, DiskPCs, Waiting
  <2>4. pc'[u] = pc[u] /\ Wants(u)' = Wants(u)
    BY <1>1, <2>3 DEF Wants
  <2> QED BY <2>2, <2>4
<1> QED BY <1>3, <1>4, <1>5, <1>6, <1>7, <1>8, <1>9, <1>10 DEF IInv

\* sema_down(&disk_done), on entry ...
LEMMA DiskDownInv ==
  ASSUME IInv, NEW t \in Threads, DiskDown(t)
  PROVE  IInv'
<1> USE DEF DiskDown, At, DiskLoop
<1>1. /\ TypeOK /\ cur = t /\ pc[t] \in DiskPCs /\ intr = (IF gate[t] THEN "OFF" ELSE "ON")
      /\ DiskDone \in Semas
  BY DEF IInv, IntrOK, IntrRestored, Parked, Semas, DiskPCs
<1>2. /\ old' \in [Threads -> IntrStatus] /\ \A u \in Threads : u # t => old'[u] = old[u]
      /\ old'[t] = (IF gate[t] THEN "OFF" ELSE "ON")
  BY <1>1 DEF TypeOK
<1>3. CASE value[DiskDone] = 0
  BY <1>1, <1>2, <1>3, SemaBlockInv DEF SemaLoop
<1>4. CASE value[DiskDone] # 0
  BY <1>1, <1>2, <1>4, DiskTakeInv DEF SemaLoop
<1> QED BY <1>3, <1>4

\* ... and after thread_block.
LEMMA DiskRetestInv ==
  ASSUME IInv, NEW t \in Threads, DiskRetest(t)
  PROVE  IInv'
<1> USE DEF DiskRetest, At, DiskLoop
<1>1. /\ TypeOK /\ cur = t /\ pc[t] \in DiskPCs /\ old[t] = (IF gate[t] THEN "OFF" ELSE "ON")
      /\ DiskDone \in Semas
  BY DEF IInv, IntrOK, Semas, DiskPCs
<1>2. /\ old' \in [Threads -> IntrStatus] /\ \A u \in Threads : u # t => old'[u] = old[u]
      /\ old'[t] = (IF gate[t] THEN "OFF" ELSE "ON")
  BY <1>1 DEF TypeOK
<1>3. CASE value[DiskDone] = 0
  BY <1>1, <1>2, <1>3, SemaBlockInv DEF SemaLoop
<1>4. CASE value[DiskDone] # 0
  BY <1>1, <1>2, <1>4, DiskTakeInv DEF SemaLoop
<1> QED BY <1>3, <1>4

\* intr_hd_handler, whoever it interrupts: the command becomes an answer.
LEMMA DiskInterruptInv ==
  ASSUME IInv, DiskInterrupt
  PROVE  IInv'
<1> USE DEF DiskInterrupt, AfterInterrupt, callVars, pidVars
<1>0. /\ TypeOK /\ cur \in Threads /\ intr = "ON" /\ expecting
      /\ value[DiskDone] = 0 /\ DiskDone \in Semas /\ DiskDone \notin Locks
  BY SyncAssumption DEF IInv, TypeOK, DiskOK, Semas, SyncAssumption
<1>1. /\ \A u \in Threads : pc'[u] = IF u = cur /\ pc[u] = "halted" THEN "idle" ELSE pc[u]
      /\ pc' \in [Threads -> PCs]
  BY <1>0 DEF TypeOK, PCs
<1>2. pc[cur] \notin Parked
  BY <1>0 DEF IInv, IntrOK
<1>3. /\ value' \in [Semas -> Nat] /\ value'[DiskDone] = 1
      /\ \A m \in Semas : m # DiskDone => value'[m] = value[m]
      /\ waiters' \in [Semas -> Seq(Threads)] /\ ready' \in Seq(Threads)
      /\ status' \in [Threads -> TaskStatus]
      /\ panic' = FALSE
      /\ ReadyListExact' /\ CreationOK' /\ BlockedOK' /\ WaitersExact' /\ NoLostWakeup'
  <2>1. /\ pc[cur] \notin Waiting /\ (pc'[cur] = "link" <=> pc[cur] = "link")
        /\ UNCHANGED <<cur, job, gate, next_pid, pid>>
        /\ \A u \in Threads : u # cur => pc'[u] = pc[u] /\ lk'[u] = lk[u]
    BY <1>0, <1>1, <1>2 DEF Waiting, Parked
  <2> QED BY <1>0, <2>1, UpFacts, ThreadAssumption, SyncAssumption
<1>4. TypeOK'
  BY <1>0, <1>1, <1>3 DEF TypeOK
<1>5. NoPanic'
  BY <1>3 DEF NoPanic
<1>6. ControlOK'
  BY <1>0, <1>1 DEF IInv, ControlOK, LockPCs, DiskPCs, IdlePCs
<1>7. IntrOK'
  BY <1>0, <1>1 DEF IInv, IntrOK, IntrRestored, Parked
<1>8. LockOK'
  <2>1. \A l \in Locks : value'[l] = value[l]
    BY <1>0, <1>3 DEF Semas
  <2> QED BY <1>1, <2>1, LockFrame DEF IInv
<1>9. DiskOK'
  <2>1. \A u \in Threads : pc'[u] \in DiskPCs <=> pc[u] \in DiskPCs
    BY <1>1 DEF DiskPCs
  <2> QED BY <1>0, <1>3, <2>1 DEF IInv, DiskOK
<1> QED BY <1>3, <1>4, <1>5, <1>6, <1>7, <1>8, <1>9 DEF IInv

-----------------------------------------------------------------------------
(* thread_start                                                            *)


\* thread_start begins: nobody else makes the same thread.
LEMMA ThreadStartInv ==
  ASSUME IInv, NEW t \in Threads, NEW v \in Threads, ThreadStart(t, v)
  PROVE  IInv'
<1> USE DEF ThreadStart, AcquireMiss, At, Goto, schedVars, lockVars, pidVars
<1>1. /\ TypeOK /\ cur = t /\ pc[t] = "run" /\ lk[t] = NoLock /\ t # Idle
      /\ PidLock \in Locks /\ NoLock \notin Locks /\ depth[t] = 0 /\ NoThread \notin Threads
  BY ThreadAssumption, SyncAssumption
     DEF IInv, TypeOK, ThreadAssumption, SyncAssumption, ControlOK, DiskPCs, IdlePCs
<1>2. /\ \A u \in Threads : pc'[u] = IF u = t THEN "down" ELSE pc[u]
      /\ \A u \in Threads : lk'[u] = IF u = t THEN PidLock ELSE lk[u]
      /\ \A u \in Threads : job'[u] = IF u = t THEN v ELSE job[u]
  BY <1>1 DEF TypeOK
<1>3. TypeOK'
  BY <1>1 DEF TypeOK, PCs
<1>4. NoPanic'
  BY DEF IInv, NoPanic
<1>5. ControlOK'
  BY <1>1, <1>2 DEF IInv, ControlOK, LockPCs, DiskPCs, IdlePCs
<1>6. ReadyListExact' /\ BlockedOK' /\ WaitersExact'
  BY <1>1, <1>2, LocalFrame, ThreadAssumption DEF TypeOK
<1>7. CreationOK'
  <2>1. /\ pid[v] = 0 /\ status[v] = "NONE" /\ v \notin {Main, Idle}
        /\ \A c \in Threads : job[c] # v
    BY DEF IInv, CreationOK
  <2>2. status[t] = "RUNNING"
    BY <1>1 DEF IInv, ReadyListExact
  <2>3. next_pid' >= 2
    BY DEF IInv, CreationOK
  <2>4. ASSUME NEW c \in Threads, c # t, job[c] # NoThread
        PROVE  /\ job[c] \notin {Main, Idle}
               /\ pc'[c] = "link" => status[job[c]] = "READY" /\ pid[job[c]] # 0 /\ pc'[job[c]] = "start"
               /\ pc'[c] # "link" => pid[job[c]] = 0
               /\ \A d \in Threads : job'[d] = job[c] => d = c
    <3>1. pc'[job[c]] = pc[job[c]] /\ pc'[c] = pc[c]
      BY <1>1, <1>2, <2>4, JobStatus, ThreadAssumption
    <3> QED BY <1>2, <2>1, <2>4, <3>1 DEF IInv, CreationOK
  <2>5. \A d \in Threads : job'[d] = v => d = t
    BY <1>2, <2>1
  <2>6. ASSUME NEW u \in Threads
        PROVE  /\ pid[u] = 0 <=> status[u] = "NONE"
               /\ status[u] = "NONE" => pc'[u] = "start" /\ ~gate[u] /\ u \notin {Main, Idle}
    BY <1>2, <2>2 DEF IInv, CreationOK
  <2>7. ASSUME NEW c \in Threads, job'[c] # NoThread
        PROVE  /\ job'[c] \notin {Main, Idle}
               /\ pc'[c] = "link" => status[job'[c]] = "READY" /\ pid[job'[c]] # 0 /\ pc'[job'[c]] = "start"
               /\ pc'[c] # "link" => pid[job'[c]] = 0
               /\ \A d \in Threads : job'[d] = job'[c] => d = c
    <3>1. CASE c = t
      BY <1>2, <2>1, <2>5, <3>1
    <3>2. CASE c # t
      <4>1. job'[c] = job[c]
        BY <1>2, <3>2
      <4> QED BY <2>4, <2>7, <3>2, <4>1
    <3> QED BY <3>1, <3>2
  <2> QED BY <2>3, <2>6, <2>7 DEF CreationOK
<1>8. IntrOK'
  BY <1>1, <1>2 DEF IInv, IntrOK, IntrRestored, Parked
<1>9. LockOK'
  <2> SUFFICES ASSUME NEW m \in Locks PROVE LockOKAt(m)'
    BY DEF LockOK
  <2>1. LockOKAt(m)
    BY DEF IInv, LockOK
  <2>2. \A u \in Threads : HasSema(u, m)' <=> HasSema(u, m)
    BY <1>1, <1>2 DEF HasSema
  <2> QED BY <1>1, <1>2, <2>1, <2>2 DEF LockOKAt
<1>10. NoLostWakeup' /\ DiskOK'
  BY <1>1, <1>2, WakeupFrame, DiskFrame DEF IInv, Waiting, DiskPCs
<1> QED BY <1>3, <1>4, <1>5, <1>6, <1>7, <1>8, <1>9, <1>10 DEF IInv

\* init_thread fills in the task_struct: the thread is TASK_READY and on no list.
LEMMA InitThreadInv ==
  ASSUME IInv, NEW t \in Threads, InitThread(t)
  PROVE  IInv'
<1> USE DEF InitThread, At, Goto, lockVars, callVars
<1> DEFINE v == job[t]
<1>0. /\ TypeOK /\ cur = t /\ pc[t] = "pid" /\ lk[t] = NoLock /\ t # Idle /\ v # NoThread
      /\ status[t] = "RUNNING" /\ depth[t] = 0
  <2>1. TypeOK /\ cur = t /\ pc[t] = "pid" /\ status[t] = "RUNNING" /\ depth[t] \in Nat
    BY DEF IInv, TypeOK, ReadyListExact
  <2>2. lk[t] = NoLock /\ t # Idle /\ v # NoThread /\ ~(depth[t] > 0)
    BY <2>1 DEF IInv, ControlOK, DiskPCs, IdlePCs
  <2> QED BY <2>1, <2>2
<1>1. /\ v \in Threads /\ v # t /\ status[v] = "NONE" /\ pc[v] = "start"
      /\ v \notin {Main, Idle} /\ \A d \in Threads : job[d] = v => d = t
  BY <1>0, JobStatus, ThreadAssumption DEF IInv, CreationOK
<1>2. /\ \A u \in Threads : pc'[u] = IF u = t THEN "link" ELSE pc[u]
      /\ \A u \in Threads : status'[u] = IF u = v THEN "READY" ELSE status[u]
      /\ \A u \in Threads : pid'[u] = IF u = v THEN next_pid ELSE pid[u]
      /\ next_pid \in Nat /\ next_pid >= 2
  BY <1>0, <1>1 DEF IInv, TypeOK, CreationOK
<1>3. TypeOK'
  <2>1. /\ ticks' \in [Threads -> Nat] /\ status' \in [Threads -> TaskStatus]
        /\ pid' \in [Threads -> Nat] /\ pc' \in [Threads -> PCs]
    BY <1>0, <1>1, ThreadAssumption DEF TypeOK, ThreadAssumption, TaskStatus, PCs
  <2> QED BY <1>0, <2>1 DEF TypeOK
<1>4. NoPanic'
  BY DEF IInv, NoPanic
<1>5. ControlOK'
  BY <1>0, <1>2 DEF IInv, ControlOK, LockPCs, DiskPCs, IdlePCs
<1>6. ReadyListExact'
  <2>1. \A u \in Threads : Linking(u)' <=> Linking(u) \/ u = v
    BY <1>0, <1>2 DEF Linking
  <2>2. v \notin ToSet(ready)
    BY <1>0, <1>1 DEF IInv, ReadyListExact
  <2>3. \A u \in Threads : u \in ToSet(ready) <=> status[u] = "READY" /\ ~Linking(u)
    BY DEF IInv, ReadyListExact
  <2>4. \A u \in Threads : u \in ToSet(ready) <=> status'[u] = "READY" /\ ~Linking(u)'
    BY <1>2, <2>1, <2>2, <2>3
  <2>5. \A u \in Threads : status'[u] = "RUNNING" <=> u = cur
    BY <1>0, <1>1, <1>2 DEF IInv, ReadyListExact
  <2> QED BY <2>4, <2>5 DEF IInv, ReadyListExact
<1>7. CreationOK'
  <2>1. ASSUME NEW c \in Threads, job[c] # NoThread
        PROVE  /\ job[c] \notin {Main, Idle}
               /\ pc'[c] = "link" => status'[job[c]] = "READY" /\ pid'[job[c]] # 0 /\ pc'[job[c]] = "start"
               /\ pc'[c] # "link" => pid'[job[c]] = 0
               /\ \A d \in Threads : job[d] = job[c] => d = c
    <3>1. CASE c = t
      BY <1>0, <1>1, <1>2, <3>1
    <3>2. CASE c # t
      <4>1. job[c] \in Threads /\ job[c] # t /\ job[c] # v
        BY <1>0, <1>1, <2>1, <3>2, JobStatus, ThreadAssumption
      <4> QED BY <1>2, <2>1, <3>2, <4>1 DEF IInv, CreationOK
    <3> QED BY <3>1, <3>2
  <2>2. ASSUME NEW u \in Threads
        PROVE  /\ pid'[u] = 0 <=> status'[u] = "NONE"
               /\ status'[u] = "NONE" => pc'[u] = "start" /\ ~gate[u] /\ u \notin {Main, Idle}
    BY <1>0, <1>2 DEF IInv, CreationOK
  <2> QED BY <1>2, <2>1, <2>2 DEF CreationOK
<1>8. BlockedOK'
  BY <1>0, <1>2 DEF IInv, BlockedOK
<1>9. WaitersExact'
  <2>1. \A u \in Threads : status'[u] = "BLOCKED" <=> status[u] = "BLOCKED"
    BY <1>1, <1>2
  <2>2. \A u \in Threads : status[u] = "BLOCKED" => Wants(u)' = Wants(u)
    BY <1>0, <1>2 DEF Wants
  <2> QED BY <2>1, <2>2 DEF IInv, WaitersExact
<1>10. IntrOK'
  BY <1>0, <1>2 DEF IInv, IntrOK, IntrRestored, Parked
<1>11. LockOK'
  BY <1>0, <1>2, LockFrame DEF IInv
<1>12. NoLostWakeup' /\ DiskOK'
  <2>1. \A u \in Threads : status[u] # "BLOCKED" => status'[u] # "BLOCKED"
    BY <1>2
  <2> QED BY <1>0, <1>2, <2>1, WakeupFrame, DiskFrame DEF IInv, Waiting, DiskPCs
<1> QED BY <1>3, <1>4, <1>5, <1>6, <1>7, <1>8, <1>9, <1>10, <1>11, <1>12 DEF IInv

\* thread_start puts the finished thread on the ready list, where it was not.
LEMMA LinkInv ==
  ASSUME IInv, NEW t \in Threads, Link(t)
  PROVE  IInv'
<1> USE DEF Link, At, Goto, lockVars, pidVars
<1> DEFINE v == job[t]
<1>0. /\ TypeOK /\ cur = t /\ pc[t] = "link" /\ lk[t] = NoLock /\ t # Idle /\ v # NoThread
      /\ status[t] = "RUNNING" /\ depth[t] = 0 /\ NoThread \notin Threads
  <2>1. TypeOK /\ cur = t /\ pc[t] = "link" /\ status[t] = "RUNNING" /\ depth[t] \in Nat
    BY DEF IInv, TypeOK, ReadyListExact
  <2>2. lk[t] = NoLock /\ t # Idle /\ v # NoThread /\ ~(depth[t] > 0)
    BY <2>1 DEF IInv, ControlOK, DiskPCs, IdlePCs
  <2> QED BY <2>1, <2>2, ThreadAssumption DEF ThreadAssumption
<1>1. /\ v \in Threads /\ v # t /\ status[v] = "READY" /\ pc[v] = "start"
      /\ \A d \in Threads : job[d] = v => d = t
  BY <1>0, JobStatus, ThreadAssumption DEF IInv, CreationOK
<1>2. Linking(v)
  BY <1>0 DEF Linking
<1>3. /\ ready \in Seq(Threads) /\ IsInjective(ready) /\ v \notin ToSet(ready)
      /\ \A u \in Threads : u \in ToSet(ready) <=> status[u] = "READY" /\ ~Linking(u)
  BY <1>0, <1>1, <1>2 DEF IInv, TypeOK, ReadyListExact
<1>4. ready' = Append(ready, v) /\ panic' = (v \in ToSet(ready))
  OBVIOUS
<1>5. /\ \A u \in Threads : pc'[u] = IF u = t THEN "run" ELSE pc[u]
      /\ \A u \in Threads : job'[u] = IF u = t THEN NoThread ELSE job[u]
  BY <1>0 DEF TypeOK
<1> HIDE DEF v
<1>6. /\ ready' \in Seq(Threads) /\ IsInjective(ready')
      /\ \A y : y \in ToSet(ready') <=> y \in ToSet(ready) \/ y = v
  BY <1>1, <1>3, <1>4, AppendFacts
<1>7. TypeOK'
  <2>1. job' \in [Threads -> Threads \cup {NoThread}] /\ pc' \in [Threads -> PCs]
    BY <1>0 DEF TypeOK, PCs
  <2>2. panic' \in BOOLEAN
    BY <1>4
  <2> QED BY <1>0, <1>6, <2>1, <2>2 DEF TypeOK
<1>8. NoPanic'
  BY <1>3, <1>4 DEF NoPanic
<1>9. ControlOK'
  BY <1>0, <1>5 DEF IInv, ControlOK, LockPCs, DiskPCs, IdlePCs
<1>10. ReadyListExact'
  <2>1. \A u \in Threads : Linking(u)' <=> Linking(u) /\ u # v
    <3> SUFFICES ASSUME NEW u \in Threads PROVE Linking(u)' <=> Linking(u) /\ u # v
      OBVIOUS
    <3>1. ASSUME Linking(u)' PROVE Linking(u) /\ u # v
      BY <1>0, <1>1, <1>5, <3>1 DEF Linking
    <3>2. ASSUME Linking(u), u # v PROVE Linking(u)'
      BY <1>0, <1>5, <3>2 DEF Linking, v
    <3> QED BY <3>1, <3>2
  <2>2. \A u \in Threads : u \in ToSet(ready') <=> status[u] = "READY" /\ ~Linking(u)'
    BY <1>1, <1>3, <1>6, <2>1
  <2> QED BY <1>6, <2>2 DEF IInv, ReadyListExact
<1>11. CreationOK'
  <2>1. ASSUME NEW c \in Threads, job'[c] # NoThread
        PROVE  /\ job'[c] \notin {Main, Idle}
               /\ pc'[c] = "link" => status[job'[c]] = "READY" /\ pid[job'[c]] # 0 /\ pc'[job'[c]] = "start"
               /\ pc'[c] # "link" => pid[job'[c]] = 0
               /\ \A d \in Threads : job'[d] = job'[c] => d = c
    <3>1. c # t /\ job'[c] = job[c] /\ pc'[c] = pc[c]
      BY <1>5, <2>1
    <3>2. job[c] \in Threads /\ job[c] # t
      BY <1>0, <2>1, <3>1, JobStatus, ThreadAssumption
    <3> QED BY <1>5, <2>1, <3>1, <3>2 DEF IInv, CreationOK
  <2>2. ASSUME NEW u \in Threads
        PROVE  /\ pid[u] = 0 <=> status[u] = "NONE"
               /\ status[u] = "NONE" => pc'[u] = "start" /\ ~gate[u] /\ u \notin {Main, Idle}
    BY <1>0, <1>5 DEF IInv, CreationOK
  <2>3. next_pid' >= 2
    BY DEF IInv, CreationOK
  <2> QED BY <2>1, <2>2, <2>3 DEF CreationOK
<1>12. BlockedOK'
  BY <1>0, <1>5 DEF IInv, BlockedOK
<1>13. WaitersExact'
  BY DEF IInv, WaitersExact, Wants
<1>14. IntrOK'
  BY <1>0, <1>5 DEF IInv, IntrOK, IntrRestored, Parked
<1>15. LockOK'
  BY <1>0, <1>5, LockFrame DEF IInv
<1>16. NoLostWakeup' /\ DiskOK'
  BY <1>0, <1>5, WakeupFrame, DiskFrame DEF IInv, Waiting, DiskPCs
<1> QED BY <1>7, <1>8, <1>9, <1>10, <1>11, <1>12, <1>13, <1>14, <1>15, <1>16 DEF IInv

-----------------------------------------------------------------------------
(* The invariant is inductive.                                             *)

\* What thread_init leaves behind satisfies it.
LEMMA InitIInv == Init => IInv
<1> SUFFICES ASSUME Init PROVE IInv
  OBVIOUS
<1> USE DEF Init, ThreadInit
<1>0. /\ Main \in Threads /\ Idle \in Threads /\ Main # Idle /\ NoThread \notin Threads
      /\ Prio \in [Threads -> Nat] /\ PidLock \in Locks /\ NoLock \notin Locks
  BY ThreadAssumption, SyncAssumption DEF ThreadAssumption, SyncAssumption
<1>1. \A y : y \notin ToSet(<<>>)
  BY DEF ToSet
<1>2. \A y : y \in ToSet(<<Idle>>) <=> y = Idle
  BY DEF ToSet
<1>3. IsInjective(<<>>) /\ IsInjective(<<Idle>>)
  BY DEF IsInjective
<1>4. TypeOK
  <2>1. ready \in Seq(Threads) /\ waiters \in [Semas -> Seq(Threads)] /\ value \in [Semas -> Nat]
    BY <1>0
  <2>2. /\ status \in [Threads -> TaskStatus] /\ ticks \in [Threads -> Nat]
        /\ pc \in [Threads -> PCs] /\ old \in [Threads -> IntrStatus] /\ intr \in IntrStatus
    BY <1>0 DEF TaskStatus, PCs, IntrStatus
  <2>3. gate \in [Threads -> BOOLEAN] /\ pid \in [Threads -> Nat] /\ next_pid \in Nat
    BY <1>0
  <2> QED BY <1>0, <2>1, <2>2, <2>3 DEF TypeOK
<1>5. NoPanic
  BY DEF NoPanic
<1>6. /\ \A u \in Threads : pc[u] \in {"run", "start"} /\ (pc[u] = "run" <=> u = Main)
      /\ \A u \in Threads : lk[u] = NoLock /\ depth[u] = 0 /\ job[u] = NoThread /\ (gate[u] <=> u = Main)
  BY <1>0
<1>7. ControlOK
  BY <1>0, <1>6 DEF ControlOK, LockPCs, DiskPCs, IdlePCs
<1>8. CreationOK
  BY <1>0, <1>6 DEF CreationOK
<1>9. ReadyListExact
  <2>1. \A u \in Threads : ~Linking(u)
    BY <1>0, <1>6 DEF Linking
  <2>2. \A u \in Threads : u \in ToSet(ready) <=> status[u] = "READY"
    BY <1>0, <1>2
  <2> QED BY <1>0, <1>3, <2>1, <2>2 DEF ReadyListExact
<1>10. \A u \in Threads : status[u] # "BLOCKED"
  BY <1>0
<1>11. BlockedOK
  BY <1>10 DEF BlockedOK
<1>12. WaitersExact
  BY <1>1, <1>3, <1>10 DEF WaitersExact, Semas
<1>13. IntrOK
  BY <1>0, <1>6 DEF IntrOK, IntrRestored, Parked
<1>14. LockOK
  <2> SUFFICES ASSUME NEW l \in Locks PROVE LockOKAt(l)
    BY DEF LockOK
  <2>1. \A u \in Threads : ~HasSema(u, l)
    BY <1>0, <1>6 DEF HasSema
  <2>2. value[l] = 1
    BY SyncAssumption DEF Semas, SyncAssumption
  <2> QED BY <1>0, <1>6, <2>1, <2>2 DEF LockOKAt
<1>15. DiskOK
  BY <1>6 DEF DiskOK, DiskPCs, Semas
<1>16. NoLostWakeup
  <2>1. \A m \in Semas : waiters[m] = <<>>
    OBVIOUS
  <2> QED BY <2>1 DEF NoLostWakeup
<1> QED BY <1>4, <1>5, <1>7, <1>8, <1>9, <1>11, <1>12, <1>13, <1>14, <1>15, <1>16 DEF IInv

\* Every step of the kernel and of the threads that call it keeps it.
LEMMA NextIInv == IInv /\ [Next]_vars => IInv'
<1> SUFFICES ASSUME IInv, [Next]_vars PROVE IInv'
  OBVIOUS
<1>1. CASE Timer
  BY <1>1, TimerTickInv, TimerPreemptInv DEF Timer
<1>2. CASE DiskInterrupt \/ (OtherInterrupt /\ UNCHANGED syncVars)
  BY <1>2, DiskInterruptInv, OtherInterruptInv
<1>3. CASE IdleLoop
  BY <1>3, IdleBlockInv, IdleUnblockedInv, IdleHaltInv DEF IdleLoop
<1>4. ASSUME NEW t \in Threads, Kernel(t) PROVE IInv'
  BY <1>4, SemaDownInv, SemaRetestInv, SetHolderInv, SetRepeatInv, ClearRepeatInv,
     SemaUpInv, DiskDownInv, DiskRetestInv, CountPidInv, InitThreadInv, LinkInv,
     ReleaseInnerInv, ReleaseLastInv, KernelThreadInv, YieldReturnInv DEF Kernel
<1>5. ASSUME NEW t \in Threads, Client(t) PROVE IInv'
  <2>1. ASSUME NEW l \in Locks, Acquire(t, l) \/ AcquireAgain(t, l) PROVE IInv'
    BY <2>1, AcquireInv, AcquireAgainInv
  <2>2. ASSUME ReleaseInner(t) \/ ReleaseLast(t) PROVE IInv'
    BY <2>2, ReleaseInnerInv, ReleaseLastInv
  <2>3. ASSUME NEW u \in Threads, ThreadStart(t, u) PROVE IInv'
    BY <2>3, ThreadStartInv
  <2>4. ASSUME t \in Procs, SyscallEnter(t) PROVE IInv'
    BY <2>4, SyscallEnterInv, SyncAssumption DEF SyncAssumption
  <2>5. ASSUME IntrEnable(t) \/ Yield(t) \/ DiskCommand(t) PROVE IInv'
    BY <2>5, IntrEnableInv, YieldInv, DiskCommandInv
  <2> QED BY <1>5, <2>1, <2>2, <2>3, <2>4, <2>5 DEF Client
<1>6. CASE UNCHANGED vars
  BY <1>6 DEF vars, threadVars, lockVars, callVars, pidVars, IInv, TypeOK, NoPanic,
     ControlOK, CreationOK, ReadyListExact, Linking, BlockedOK, WaitersExact,
     IntrOK, IntrRestored, LockOK, LockOKAt, HasSema, NoLostWakeup, Wants, DiskOK
<1> QED BY <1>1, <1>2, <1>3, <1>4, <1>5, <1>6 DEF Next

\* The invariant holds in every reachable state of the kernel.
LEMMA InvariantHolds == Spec => []IInv
BY InitIInv, NextIInv, PTL DEF Spec

-----------------------------------------------------------------------------
(* What follows, for any number of threads and locks.                      *)

\* Type correctness of the scheduler's and the locks' state.
THEOREM TypeCorrect == Spec => []TypeOK
<1>1. IInv => TypeOK
  BY DEF IInv
<1> QED BY <1>1, InvariantHolds, PTL

\* No ASSERT of thread.c or sync.c can fail: lists, semaphores and locks are
\* always called as their assertions demand.
THEOREM AssertsHold == Spec => []NoPanic
<1>1. IInv => NoPanic
  BY DEF IInv
<1> QED BY <1>1, InvariantHolds, PTL

\* schedule, thread_block, thread_unblock, thread_yield and thread_start keep
\* the ready list exact: nobody runnable is lost, nobody is on it twice.
THEOREM ReadyListCorrect == Spec => []ReadyListExact
<1>1. IInv => ReadyListExact
  BY DEF IInv
<1> QED BY <1>1, InvariantHolds, PTL

\* sema_down and sema_up keep the waiters lists exact, so the one general_tag
\* of a thread is never on two lists.
THEOREM WaitersCorrect == Spec => []WaitersExact
<1>1. IInv => WaitersExact
  BY DEF IInv
<1> QED BY <1>1, InvariantHolds, PTL

\* Between lock_acquire and the last lock_release a thread is alone.
THEOREM MutualExclusionHolds == Spec => []MutualExclusion
<1>1. IInv => MutualExclusion
  BY DEF IInv, LockOK, LockOKAt, MutualExclusion, Inside, HasSema
<1> QED BY <1>1, InvariantHolds, PTL

\* value, holder and holder_repeat_nr, which lock_acquire and lock_release write
\* one after the other with interrupts on, never contradict each other.
THEOREM LockWordsCorrect == Spec => []LockWordsAgree
<1>1. IInv => LockWordsAgree
  BY DEF IInv, LockOK, LockOKAt, LockWordsAgree, Inside
<1> QED BY <1>1, InvariantHolds, PTL

\* A semaphore that sema_up leaves free while threads wait has a woken thread on
\* its way to it: no wakeup is lost though none is handed over.
THEOREM NoWakeupLost == Spec => []NoLostWakeup
<1>1. IInv => NoLostWakeup
  BY DEF IInv
<1> QED BY <1>1, InvariantHolds, PTL

\* Every primitive returns with the interrupt flag it was called with, though
\* switch_to does not save it.
THEOREM InterruptsRestored == Spec => []IntrRestored
<1>1. IInv => IntrRestored
  BY DEF IInv, IntrOK
<1> QED BY <1>1, InvariantHolds, PTL

\* ide_read goes on only when intr_hd_handler has answered its command, and the
\* answer is never lost, whether it comes before, in or after sema_down.
THEOREM DiskAnswersArrive == Spec => []DiskAnswered
<1>1. ASSUME IInv PROVE DiskAnswered
  <2>1. expecting => \E t \in Threads : pc[t] \in {"disk", "diskwait"}
    BY <1>1 DEF IInv, DiskOK, DiskPCs
  <2>2. ASSUME NEW t \in Threads, pc[t] = "diskwait", status[t] = "BLOCKED", ~expecting
        PROVE  FALSE
    <3>1. lk[t] = Channel /\ depth[t] > 0 /\ t # Idle
      BY <1>1, <2>2, InDiskCode, SyncAssumption DEF DiskPCs
    <3>2. value[DiskDone] = 1 /\ DiskDone \in Semas
      BY <1>1, <2>2 DEF IInv, DiskOK, DiskPCs, Semas
    <3>3. t \in ToSet(waiters[DiskDone])
      BY <1>1, <2>2, <3>1, <3>2 DEF IInv, WaitersExact, Wants
    <3>4. waiters[DiskDone] # <<>>
      BY <3>3 DEF ToSet
    <3>5. PICK u \in Threads : pc[u] \in Waiting /\ Wants(u) = DiskDone /\ status[u] # "BLOCKED"
      BY <1>1, <3>2, <3>4 DEF IInv, NoLostWakeup
    <3>6. pc[u] = "diskwait"
      <4>1. pc[u] = "wait" => lk[u] \in Locks
        BY <1>1, InLockCode
      <4> QED BY <3>5, <4>1, SyncAssumption DEF Waiting, Wants, SyncAssumption
    <3>7. u = t
      BY <1>1, <3>1, <3>6, OneDiskUser, SyncAssumption DEF DiskPCs
    <3> QED BY <2>2, <3>5, <3>7
  <2> QED BY <2>1, <2>2 DEF DiskAnswered
<1> QED BY <1>1, InvariantHolds, PTL

-----------------------------------------------------------------------------
(* Sync implements Mutex: the steps in which lock_acquire returns and      *)
(* lock_release begins are the steps of Mutex, and every other step of the *)
(* kernel leaves all locks as they are.                                    *)

\* The owner of a lock is the thread inside it, and its level that thread's
\* count of lock_acquire calls.
OwnerExact ==
  \A l \in Locks :
    /\ \A t \in Threads : Inside(t, l) => Owner[l] = t /\ Level[l] = depth[t]
    /\ (\A t \in Threads : ~Inside(t, l)) => Owner[l] = NoThread /\ Level[l] = 0

\* There is one thread inside at most, so the refinement mapping has no choice.
LEMMA OwnerIsExact == IInv => OwnerExact
<1> SUFFICES ASSUME IInv, NEW l \in Locks
             PROVE  /\ \A t \in Threads : Inside(t, l) => Owner[l] = t /\ Level[l] = depth[t]
                    /\ (\A t \in Threads : ~Inside(t, l)) => Owner[l] = NoThread /\ Level[l] = 0
  BY DEF OwnerExact
<1>1. ASSUME NEW t \in Threads, Inside(t, l) PROVE Owner[l] = t /\ Level[l] = depth[t]
  <2>1. \A u \in Threads : Inside(u, l) => u = t
    BY <1>1 DEF IInv, LockOK, LockOKAt, Inside, HasSema
  <2>2. (CHOOSE u \in Threads : Inside(u, l)) = t
    BY <1>1, <2>1
  <2>3. Owner[l] = t
    BY <1>1, <2>2 DEF Owner
  <2> QED BY <2>3, ThreadAssumption DEF Level, ThreadAssumption
<1>2. ASSUME \A t \in Threads : ~Inside(t, l) PROVE Owner[l] = NoThread /\ Level[l] = 0
  <2>1. Owner[l] = NoThread
    BY <1>2 DEF Owner
  <2> QED BY <2>1 DEF Level
<1> QED BY <1>1, <1>2

\* A step that puts no thread into a lock, takes none out and leaves the counts
\* of those inside alone is no step of Mutex.
LEMMA QuietStep ==
  ASSUME OwnerExact, OwnerExact',
         \A u \in Threads : \A l \in Locks :
           (Inside(u, l)' <=> Inside(u, l)) /\ (Inside(u, l) => depth'[u] = depth[u])
  PROVE  Owner' = Owner /\ Level' = Level
<1>1. ASSUME NEW l \in Locks PROVE Owner'[l] = Owner[l] /\ Level'[l] = Level[l]
  <2>1. CASE \E t \in Threads : Inside(t, l)
    BY <1>1, <2>1 DEF OwnerExact
  <2>2. CASE \A t \in Threads : ~Inside(t, l)
    BY <1>1, <2>2 DEF OwnerExact
  <2> QED BY <2>1, <2>2
<1>2. Owner = [l \in Locks |-> Owner[l]] /\ Owner' = [l \in Locks |-> Owner'[l]]
  BY DEF Owner
<1>3. Level = [l \in Locks |-> Level[l]] /\ Level' = [l \in Locks |-> Level'[l]]
  BY DEF Level
<1> HIDE DEF Owner, Level
<1> QED BY <1>1, <1>2, <1>3

\* A step of t on lock l moves the owner and level of l only, if no other thread
\* goes in or out of a lock.
LEMMA LockStep ==
  ASSUME OwnerExact, OwnerExact', NEW t \in Threads, NEW l \in Locks,
         \A u \in Threads : \A m \in Locks : u # t \/ m # l =>
           (Inside(u, m)' <=> Inside(u, m)) /\ (Inside(u, m) => depth'[u] = depth[u]),
         Inside(t, l) \/ Inside(t, l)'
  PROVE  /\ Owner' = [Owner EXCEPT ![l] = IF Inside(t, l)' THEN t ELSE NoThread]
         /\ Level' = [Level EXCEPT ![l] = IF Inside(t, l)' THEN depth'[t] ELSE 0]
<1>1. ASSUME NEW m \in Locks, m # l PROVE Owner'[m] = Owner[m] /\ Level'[m] = Level[m]
  <2>1. CASE \E u \in Threads : Inside(u, m)
    BY <1>1, <2>1 DEF OwnerExact
  <2>2. CASE \A u \in Threads : ~Inside(u, m)
    BY <1>1, <2>2 DEF OwnerExact
  <2> QED BY <2>1, <2>2
<1>2. /\ Owner'[l] = IF Inside(t, l)' THEN t ELSE NoThread
      /\ Level'[l] = IF Inside(t, l)' THEN depth'[t] ELSE 0
  <2>1. CASE Inside(t, l)'
    BY <2>1 DEF OwnerExact
  <2>2. CASE ~Inside(t, l)'
    <3>1. \A u \in Threads : Inside(u, l) => u = t
      BY <2>2 DEF OwnerExact
    <3>2. \A u \in Threads : ~Inside(u, l)'
      BY <2>2, <3>1
    <3> QED BY <2>2, <3>2 DEF OwnerExact
  <2> QED BY <2>1, <2>2
<1>3. Owner = [m \in Locks |-> Owner[m]] /\ Owner' = [m \in Locks |-> Owner'[m]]
  BY DEF Owner
<1>4. Level = [m \in Locks |-> Level[m]] /\ Level' = [m \in Locks |-> Level'[m]]
  BY DEF Level
<1> HIDE DEF Owner, Level
<1> QED BY <1>1, <1>2, <1>3, <1>4

-----------------------------------------------------------------------------
(* The steps of Mutex.                                                     *)

\* lock_acquire returns in SetRepeat: nobody was inside.
LEMMA SetRepeatLocks ==
  ASSUME IInv, OwnerExact, OwnerExact', NEW t \in Threads, SetRepeat(t)
  PROVE  Abstract!MutexNext
<1>1. pc[t] = "owned" /\ TypeOK
  BY DEF SetRepeat, At, IInv
<1>a. lk[t] \in Locks /\ depth[t] = 0
  BY <1>1, InLockCode
<1>2. PICK l \in Locks : l = lk[t]
  BY <1>a
<1>3. lk' = lk /\ \A u \in Threads : depth'[u] = IF u = t THEN 1 ELSE depth[u]
  BY <1>1 DEF SetRepeat, TypeOK
<1>4. \A u \in Threads : ~Inside(u, l)
  <2> SUFFICES ASSUME NEW u \in Threads, Inside(u, l) PROVE FALSE
    OBVIOUS
  <2>1. HasSema(t, l) /\ HasSema(u, l)
    BY <1>1, <1>2 DEF HasSema, Inside
  <2>2. u = t
    BY <1>2, <2>1 DEF IInv, LockOK, LockOKAt
  <2> QED BY <1>a, <2>2 DEF Inside
<1>5. Inside(t, l)' /\ depth'[t] = 1
  BY <1>2, <1>3 DEF Inside
<1>6. \A u \in Threads : \A m \in Locks : u # t \/ m # l =>
        (Inside(u, m)' <=> Inside(u, m)) /\ (Inside(u, m) => depth'[u] = depth[u])
  BY <1>2, <1>3 DEF Inside
<1>7. Owner[l] = NoThread /\ Level[l] = 0
  BY <1>2, <1>4 DEF OwnerExact
<1>8. Owner' = [Owner EXCEPT ![l] = t] /\ Level' = [Level EXCEPT ![l] = 1]
  BY <1>2, <1>5, <1>6, LockStep
<1>9. Abstract!Lock(t, l)
  BY <1>7, <1>8 DEF Abstract!Lock
<1> QED BY <1>2, <1>9 DEF Abstract!MutexNext

\* lock_acquire by the holder.
LEMMA AcquireAgainLocks ==
  ASSUME IInv, OwnerExact, OwnerExact', NEW t \in Threads, NEW l \in Locks, AcquireAgain(t, l)
  PROVE  Abstract!MutexNext
<1>1. lk[t] = l /\ depth[t] > 0 /\ Inside(t, l) /\ TypeOK
  BY DEF AcquireAgain, IInv, Inside
<1>2. holder[l] = t
  BY <1>1, BetweenCalls, SyncAssumption
<1>3. lk' = lk /\ depth' = [depth EXCEPT ![t] = @ + 1] /\ depth[t] \in Nat
  BY <1>1, <1>2 DEF AcquireAgain, TypeOK
<1>4. \A u \in Threads : depth'[u] = IF u = t THEN depth[t] + 1 ELSE depth[u]
  BY <1>1, <1>3 DEF TypeOK
<1>5. Inside(t, l)'
  BY <1>1, <1>3, <1>4 DEF Inside
<1>6. \A u \in Threads : \A m \in Locks : u # t \/ m # l =>
        (Inside(u, m)' <=> Inside(u, m)) /\ (Inside(u, m) => depth'[u] = depth[u])
  BY <1>1, <1>3, <1>4 DEF Inside
<1>7. Owner[l] = t /\ Level[l] = depth[t]
  BY <1>1 DEF OwnerExact
<1>8. Owner' = [Owner EXCEPT ![l] = t] /\ Level' = [Level EXCEPT ![l] = depth[t] + 1]
  BY <1>1, <1>4, <1>5, <1>6, LockStep
<1>9. Owner' = Owner
  BY <1>7, <1>8 DEF Owner
<1>10. Abstract!LockAgain(t, l)
  BY <1>7, <1>8, <1>9 DEF Abstract!LockAgain
<1> QED BY <1>10 DEF Abstract!MutexNext

\* lock_release, with or without levels to go.
LEMMA ReleaseUnlocks ==
  ASSUME IInv, OwnerExact, OwnerExact', NEW t \in Threads, ReleaseInner(t) \/ ReleaseLast(t)
  PROVE  Abstract!MutexNext
<1>1. depth[t] > 0 /\ TypeOK
  BY DEF ReleaseInner, ReleaseLast, MayRelease, IInv
<1>a. lk[t] \in Locks /\ depth[t] \in Nat /\ repeat[lk[t]] = depth[t]
  BY <1>1, BetweenCalls, SyncAssumption
<1>b. PICK l \in Locks : l = lk[t]
  BY <1>a
<1>2. depth[t] \in Nat /\ repeat[l] = depth[t] /\ Inside(t, l)
  BY <1>1, <1>a, <1>b DEF Inside
<1>3. lk' = lk /\ \A u \in Threads : depth'[u] = IF u = t THEN depth[t] - 1 ELSE depth[u]
  BY <1>1 DEF ReleaseInner, ReleaseLast, TypeOK
<1>4. \A u \in Threads : \A m \in Locks : u # t \/ m # l =>
        (Inside(u, m)' <=> Inside(u, m)) /\ (Inside(u, m) => depth'[u] = depth[u])
  BY <1>b, <1>2, <1>3 DEF Inside
<1>5. Owner[l] = t /\ Level[l] = depth[t]
  BY <1>2 DEF OwnerExact
<1>6. CASE depth[t] > 1
  <2>1. Inside(t, l)'
    BY <1>2, <1>3, <1>6 DEF Inside
  <2>2. Owner' = [Owner EXCEPT ![l] = t] /\ Level' = [Level EXCEPT ![l] = depth[t] - 1]
    BY <1>2, <1>3, <1>4, <2>1, LockStep
  <2>3. Owner' = Owner
    BY <1>5, <2>2 DEF Owner
  <2>4. Abstract!UnlockInner(t, l)
    BY <1>5, <1>6, <2>2, <2>3 DEF Abstract!UnlockInner
  <2> QED BY <1>2, <2>4 DEF Abstract!MutexNext
<1>7. CASE depth[t] = 1
  <2>1. ~Inside(t, l)'
    BY <1>3, <1>7 DEF Inside
  <2>2. Owner' = [Owner EXCEPT ![l] = NoThread] /\ Level' = [Level EXCEPT ![l] = 0]
    BY <1>2, <1>4, <2>1, LockStep
  <2>3. Abstract!Unlock(t, l)
    BY <1>5, <1>7, <2>2 DEF Abstract!Unlock
  <2> QED BY <1>2, <2>3 DEF Abstract!MutexNext
<1> QED BY <1>1, <1>2, <1>6, <1>7

-----------------------------------------------------------------------------
(* The steps that stutter.                                                 *)

\* Nothing but lock_acquire, lock_release and thread_start's own use of them
\* writes what Inside reads.
LEMMA OutsideStep ==
  ASSUME OwnerExact, OwnerExact', lk' = lk, depth' = depth
  PROVE  Owner' = Owner /\ Level' = Level
BY QuietStep DEF Inside

\* lock_acquire begins, and lock_release ends, with the thread outside.
LEMMA EdgeStep ==
  ASSUME OwnerExact, OwnerExact', TypeOK, NEW t \in Threads, NEW l, depth[t] = 0,
         lk' = [lk EXCEPT ![t] = l], depth' = depth
  PROVE  Owner' = Owner /\ Level' = Level
<1>1. \A u \in Threads : u # t => lk'[u] = lk[u]
  BY DEF TypeOK
<1>2. \A u \in Threads : \A m \in Locks :
        (Inside(u, m)' <=> Inside(u, m)) /\ (Inside(u, m) => depth'[u] = depth[u])
  BY <1>1 DEF Inside
<1> QED BY <1>2, QuietStep

\* Every step of the kernel is a step of Mutex or leaves the locks alone.
LEMMA StepRefines ==
  IInv /\ OwnerExact /\ OwnerExact' /\ [Next]_vars
    => Abstract!MutexNext \/ UNCHANGED <<Owner, Level>>
<1> SUFFICES ASSUME IInv, OwnerExact, OwnerExact', [Next]_vars
             PROVE  Abstract!MutexNext \/ (Owner' = Owner /\ Level' = Level)
  OBVIOUS
<1>0. TypeOK
  BY DEF IInv
<1>1. CASE Timer \/ (OtherInterrupt /\ UNCHANGED syncVars) \/ IdleLoop
  BY <1>1, OutsideStep DEF Timer, IdleLoop, syncVars, callVars
<1>2. CASE DiskInterrupt
  BY <1>2, OutsideStep DEF DiskInterrupt, callVars
<1>3. ASSUME NEW t \in Threads, Kernel(t)
      PROVE  Abstract!MutexNext \/ (Owner' = Owner /\ Level' = Level)
  <2>1. CASE SetRepeat(t)
    BY <2>1, SetRepeatLocks
  <2>2. CASE ReleaseInner(t) \/ ReleaseLast(t)
    BY <2>2, ReleaseUnlocks
  <2>3. CASE SemaUp(t)
    <3>1. depth[t] = 0
      BY <2>3, InLockCode DEF SemaUp, At
    <3> QED BY <1>0, <2>3, <3>1, EdgeStep DEF SemaUp
  <2>4. CASE SemaDown(t) \/ SemaRetest(t) \/ DiskDown(t) \/ DiskRetest(t)
    BY <2>4, OutsideStep DEF SemaDown, SemaRetest, DiskDown, DiskRetest, callVars
  <2>5. CASE SetHolder(t) \/ ClearRepeat(t) \/ CountPid(t) \/ InitThread(t) \/ Link(t)
    BY <2>5, OutsideStep DEF SetHolder, ClearRepeat, CountPid, InitThread, Link, callVars
  <2>6. CASE (KernelThread(t) \/ YieldReturn(t)) /\ UNCHANGED syncVars
    BY <2>6, OutsideStep DEF syncVars, callVars
  <2> QED BY <1>3, <2>1, <2>2, <2>3, <2>4, <2>5, <2>6 DEF Kernel
<1>4. ASSUME NEW t \in Threads, Client(t)
      PROVE  Abstract!MutexNext \/ (Owner' = Owner /\ Level' = Level)
  <2>1. ASSUME pc[t] = "run", lk[t] = NoLock PROVE depth[t] = 0
    BY <2>1 DEF IInv, ControlOK
  <2>2. ASSUME NEW l \in Locks, Acquire(t, l) PROVE Owner' = Owner /\ Level' = Level
    <3>1. depth[t] = 0
      BY <2>1, <2>2 DEF Acquire, At
    <3> QED BY <1>0, <2>2, <3>1, EdgeStep DEF Acquire, AcquireMiss
  <2>3. ASSUME NEW l \in Locks, AcquireAgain(t, l) PROVE Abstract!MutexNext
    BY <2>3, AcquireAgainLocks
  <2>4. CASE ReleaseInner(t) \/ ReleaseLast(t)
    BY <2>4, ReleaseUnlocks
  <2>5. ASSUME NEW u \in Threads, ThreadStart(t, u) PROVE Owner' = Owner /\ Level' = Level
    <3>1. depth[t] = 0
      BY <2>1, <2>5 DEF ThreadStart, At
    <3> QED BY <1>0, <2>5, <3>1, EdgeStep DEF ThreadStart, AcquireMiss
  <2>6. CASE SyscallEnter(t) \/ IntrEnable(t) \/ Yield(t) \/ DiskCommand(t)
    BY <2>6, OutsideStep DEF SyscallEnter, IntrEnable, Yield, DiskCommand, callVars
  <2> QED BY <1>4, <2>2, <2>3, <2>4, <2>5, <2>6 DEF Client
<1>5. CASE UNCHANGED vars
  BY <1>5, OutsideStep DEF vars, callVars
<1> QED BY <1>1, <1>2, <1>3, <1>4, <1>5 DEF Next

\* Before the first thread starts, all locks are free in both.
LEMMA InitRefines == Init => Abstract!MutexInit
<1> SUFFICES ASSUME Init PROVE Abstract!MutexInit
  OBVIOUS
<1>1. OwnerExact
  BY InitIInv, OwnerIsExact
<1>2. \A l \in Locks : \A t \in Threads : ~Inside(t, l)
  BY DEF Init, Inside
<1>3. \A l \in Locks : Owner[l] = NoThread /\ Level[l] = 0
  BY <1>1, <1>2 DEF OwnerExact
<1> QED BY <1>3 DEF Abstract!MutexInit, Owner, Level

\* To its callers, sync.c is the re-entrant mutex of Mutex: whatever the
\* scheduler, the interrupts and the other threads do, a lock has one owner, who
\* unlocks it as often as it locked it.
THEOREM SyncImplementsMutex == Spec => ImplementsMutex
<1>1. IInv /\ IInv' /\ [Next]_vars => Abstract!MutexNext \/ UNCHANGED <<Owner, Level>>
  <2>1. IInv' => OwnerExact'
    BY OwnerIsExact, PTL
  <2> QED BY <2>1, OwnerIsExact, StepRefines
<1>2. IInv /\ IInv' /\ [Next]_vars => [Abstract!MutexNext]_(Abstract!mutexVars)
  BY <1>1 DEF Abstract!mutexVars
<1> QED BY <1>2, InitRefines, InvariantHolds, PTL DEF Spec, ImplementsMutex, Abstract!MutexSpec
=============================================================================

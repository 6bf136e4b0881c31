------------------------------- MODULE Mutex --------------------------------
(***************************************************************************)
(* What thread/sync.h promises the code that uses struct lock: a lock is   *)
(* owned by one thread at a time, its owner may lock it again, and it is   *)
(* free when the owner has unlocked it as often as it locked it.  Module   *)
(* Sync implements this specification; the modules of the code that uses   *)
(* locks take their locking steps from here.                               *)
(***************************************************************************)
EXTENDS Naturals

CONSTANTS Threads, Locks, NoThread

VARIABLES
  owner,   \* the thread that owns a lock, or NoThread
  level    \* how often its owner has locked it

mutexVars == <<owner, level>>

MutexInit ==
  /\ owner = [l \in Locks |-> NoThread]
  /\ level = [l \in Locks |-> 0]

Lock(t, l) ==
  /\ owner[l] = NoThread
  /\ owner' = [owner EXCEPT ![l] = t]
  /\ level' = [level EXCEPT ![l] = 1]

LockAgain(t, l) ==
  /\ owner[l] = t
  /\ level' = [level EXCEPT ![l] = @ + 1]
  /\ UNCHANGED owner

UnlockInner(t, l) ==
  /\ owner[l] = t /\ level[l] > 1
  /\ level' = [level EXCEPT ![l] = @ - 1]
  /\ UNCHANGED owner

Unlock(t, l) ==
  /\ owner[l] = t /\ level[l] = 1
  /\ owner' = [owner EXCEPT ![l] = NoThread]
  /\ level' = [level EXCEPT ![l] = 0]

MutexNext ==
  \E t \in Threads, l \in Locks :
    Lock(t, l) \/ LockAgain(t, l) \/ UnlockInner(t, l) \/ Unlock(t, l)

MutexSpec == MutexInit /\ [][MutexNext]_mutexVars
=============================================================================

--------------------------- MODULE PagePoolProofs ---------------------------
(* What is proved of the pages of kernel/memory.c where one lock covers    *)
(* everything that is used (OneLock): the inductive invariant of           *)
(* PagePoolInv and the properties that follow from it.                     *)
EXTENDS PagePoolInv, DataLemmas

USE PagePoolAssumption

-----------------------------------------------------------------------------
(* Scans, frames and page tables.                                          *)

LEMMA MinIsNat ==
  ASSUME NEW n \in Nat, NEW b, NEW cnt \in Nat, FirstRun(b, n, cnt) # -1
  PROVE  FirstRun(b, n, cnt) \in Runs(b, n, cnt)
<1>1. Runs(b, n, cnt) \in SUBSET Nat /\ Runs(b, n, cnt) # {}
  BY DEF FirstRun, Runs
<1> QED BY <1>1, MinFacts DEF FirstRun

\* What bitmap_scan returns for several bits is a run of clear ones, in the
\* bitmap or up to the bit behind it.
LEMMA ScanRun ==
  ASSUME NEW n \in Nat, NEW b, NEW cnt \in Nat \ {0}, FirstRun(b, n, cnt) # -1
  PROVE  LET s == FirstRun(b, n, cnt) IN
           s \in 0 .. n - 1 /\ s + cnt - 1 <= n /\ \A i \in s .. s + cnt - 1 : ~b[i]
<1>1. FirstRun(b, n, cnt) \in Runs(b, n, cnt)
  BY MinIsNat
<1>2. FirstRun(b, n, cnt) \in 0 .. n - 1 /\ FirstRun(b, n, cnt) + cnt <= n + 1
  BY <1>1 DEF Runs
<1> QED BY <1>1, <1>2 DEF Runs

\* And for one bit, it is a clear one, unless all of them are set.
LEMMA ScanOne ==
  ASSUME NEW n \in Nat, NEW b, ~ScanPanics(b, n)
  PROVE  FirstRun(b, n, 1) \in 0 .. n - 1 /\ ~b[FirstRun(b, n, 1)]
<1>1. PICK i \in 0 .. n - 1 : ~b[i]
  BY DEF ScanPanics
<1>2. i \in Runs(b, n, 1)
  BY <1>1 DEF Runs
<1>3. Runs(b, n, 1) \in SUBSET Nat /\ Runs(b, n, 1) # {}
  BY <1>2 DEF Runs
<1>4. FirstRun(b, n, 1) \in Runs(b, n, 1)
  BY <1>3, MinFacts DEF FirstRun
<1>5. FirstRun(b, n, 1) \in 0 .. n - 1
  BY <1>4 DEF Runs
<1> QED BY <1>4, <1>5 DEF Runs

\* A bit of a pool is a frame, and the other way round.
LEMMA FrameOfBit ==
  ASSUME NEW p \in Pools, NEW i \in 0 .. PoolSize(p) - 1
  PROVE  /\ PoolStart(p) + i \in Frames /\ PoolOf(PoolStart(p) + i) = p
         /\ PoolStart(p) + i - PoolStart(p) = i
BY DEF Pools, PoolSize, PoolStart, PoolOf, Frames

LEMMA BitOfFrame ==
  ASSUME NEW f \in Frames
  PROVE  /\ PoolOf(f) \in Pools /\ f - PoolStart(PoolOf(f)) \in 0 .. PoolSize(PoolOf(f)) - 1
         /\ f - PoolStart(PoolOf(f)) \in 0 .. PoolSize(PoolOf(f))
         /\ \A g \in Frames : PoolOf(g) = PoolOf(f) /\ g - PoolStart(PoolOf(g)) = f - PoolStart(PoolOf(f)) => g = f
         /\ f # NoFrame
BY DEF Pools, PoolSize, PoolStart, PoolOf, Frames, NoFrame

\* The page table of a user page is one of the page directory's.
LEMMA TableOfPage ==
  ASSUME NEW s \in Procs, NEW v \in Pages(s)
  PROVE  Table(v) \in Tables
<1>1. v \in 0 .. UPages /\ UPages \in Nat /\ PerTable \in Nat \ {0}
  BY DEF Pages, NPages
<1>2. v \in Nat /\ v <= UPages
  BY <1>1
<1>3. v \div PerTable <= UPages \div PerTable
  BY <1>1, <1>2, DivMonotone
<1>4. v \div PerTable \in Nat /\ UPages \div PerTable \in Nat
  BY <1>1, <1>2, DivMod
<1> QED BY <1>3, <1>4 DEF Table, Tables

LEMMA SpaceFacts ==
  ASSUME NEW t \in Threads
  PROVE  /\ Space(t) \in Spaces /\ Pool(t) \in Pools /\ NPages(Space(t)) \in Nat \ {0}
         /\ t \in Procs => Space(t) = t /\ \A u \in Threads : Space(u) = t => u = t
         /\ StackPage \in Nat /\ StackPage + 1 = UPages
BY DEF Space, Pool, Spaces, Pools, NPages, StackPage

-----------------------------------------------------------------------------
(* The initial states.                                                     *)

LEMMA InitOK ==
  ASSUME OneLock, Init
  PROVE  IInv
<1>0. \A t \in Threads : pc[t] \in Outside /\ call[t] = NoCall /\ (pc[t] = "start" => t \in Procs) /\ held[t] = {}
  BY DEF Init, Outside
<1>1. ShapeOK
  <2>1. owner \in [Pools -> Threads \cup {NoThread}] /\ level \in [Pools -> 0 .. 1]
    BY DEF Init, MutexInit
  <2>2. NoCall \in Calls
    BY DEF NoCall, Calls
  <2>3. call \in [Threads -> Calls] /\ pc \in [Threads -> Working \cup Outside \cup {"lock", "unlock", "vaddr"}]
    BY <2>2 DEF Init, Outside
  <2>4. pde \in [Procs -> [Tables -> Frames \cup {NoFrame}]]
    BY DEF Init
  <2>5. DOMAIN pool = Pools /\ \A p \in Pools : pool[p] \in [0 .. PoolSize(p) -> BOOLEAN]
    BY DEF Init
  <2>6. DOMAIN vmap = Spaces /\ \A s \in Spaces : vmap[s] \in [Pages(s) -> BOOLEAN]
    BY DEF Init
  <2>7. DOMAIN pte = Spaces /\ \A s \in Spaces : pte[s] \in [Pages(s) -> Frames \cup {NoFrame}]
    BY DEF Init
  <2>8. run \in Threads /\ booting \in BOOLEAN /\ DOMAIN held = Threads /\ panic \in {"none", "full", "count"}
    BY DEF Init
  <2> QED BY <2>1, <2>3, <2>4, <2>5, <2>6, <2>7, <2>8 DEF ShapeOK
<1>3. \A t \in Threads : ~Inside(t) /\ ~HasRun(t) /\ pc[t] \notin Working \cup {"lock", "unlock", "vaddr"}
  BY <1>0 DEF Inside, HasRun, Working, HasFrame, Outside
<1>2. LockOK
  <2>1. PICK w \in Worlds : pc = [t \in Threads |-> IF t \notin w THEN "none" ELSE IF t \in Procs THEN "start" ELSE "idle"]
    BY DEF Init
  <2>2. (\A t \in Procs : pc[t] = "none") \/ (\A t \in KThreads : pc[t] = "none")
    BY <2>1 DEF OneLock
  <2>3. booting /\ run = Main
    BY DEF Init
  <2> QED BY <1>0, <1>3, <2>2, <2>3 DEF LockOK
<1>4. /\ \A s \in Spaces : \A v \in Pages(s) : pte[s][v] = NoFrame /\ ~vmap[s][v]
      /\ \A s \in Procs, k \in Tables : pde[s][k] = NoFrame
      /\ \A p \in Pools : \A i \in 0 .. PoolSize(p) : ~pool[p][i]
  BY DEF Init
<1>5. ASSUME NEW t \in Threads PROVE CallOK(t)
  <2>1. pc[t] \notin {"mark", "palloc", "touch", "header", "pfree", "unmap", "vremove"} \cup HasFrame
    BY <1>3 DEF Working
  <2> QED BY <1>0, <1>3, <2>1 DEF CallOK, NoCall
<1>6. ASSUME NEW t \in Threads PROVE RunOK(t) /\ RunApart(t)
  BY <1>3 DEF RunOK, RunApart
<1>7. ASSUME NEW t \in Threads PROVE FrameOK(t)
  BY <1>3 DEF FrameOK, Working, HasFrame, HasTable
<1>8. ASSUME NEW t \in Threads PROVE Fresh(t)
  BY <1>0, <1>4 DEF Fresh, Spaces
<1>9. FramesApart
  <2>1. NoFrame \notin Frames
    BY DEF NoFrame, Frames
  <2> QED BY <1>4, <2>1 DEF FramesApart
<1>10. HeldOK /\ HeldApart
  <2>1. \A t \in Procs : pc[t] \in {"none", "start"}
    BY DEF Init
  <2> QED BY <1>0, <2>1 DEF HeldOK, HeldApart
<1>11. FramesAccounted
  <2>1. \A f \in Frames : ~Marked(f) /\ f # NoFrame
    BY <1>3, BitOfFrame DEF Marked, MarkedBy, HasFrame, HasTable, Working
  <2> QED BY <1>4, <2>1, BitOfFrame DEF FramesAccounted
<1>12. PagesAccounted
  <2>1. \A t \in Threads : InWork(t) = {}
    BY <1>3 DEF InWork, Working, HasFrame
  <2> QED BY <1>4, <2>1 DEF PagesAccounted
<1> QED BY <1>1, <1>2, <1>5, <1>6, <1>7, <1>8, <1>9, <1>10, <1>11, <1>12 DEF IInv

-----------------------------------------------------------------------------
(* What all steps of a thread have in common.                              *)

PCs == Working \cup Outside \cup {"lock", "unlock", "vaddr"}

Moves(t, x, c) == pc' = [pc EXCEPT ![t] = x] /\ call' = [call EXCEPT ![t] = c]

Alone(t) == \A u \in Threads \ {t} : ~Inside(u)

LEMMA MovesFacts ==
  ASSUME ShapeOK, NEW t \in Threads, NEW x \in PCs, NEW c \in Calls, Moves(t, x, c)
  PROVE  /\ pc' \in [Threads -> PCs]
         /\ call' \in [Threads -> Calls]
         /\ pc'[t] = x /\ call'[t] = c
         /\ \A u \in Threads \ {t} : pc'[u] = pc[u] /\ call'[u] = call[u]
<1>1. pc \in [Threads -> PCs] /\ call \in [Threads -> Calls]
  BY DEF ShapeOK, PCs
<1>2. pc' \in [Threads -> PCs] /\ pc'[t] = x /\ \A u \in Threads \ {t} : pc'[u] = pc[u]
  BY <1>1 DEF Moves
<1>3. call' \in [Threads -> Calls] /\ call'[t] = c /\ \A u \in Threads \ {t} : call'[u] = call[u]
  BY <1>1 DEF Moves
<1> QED BY <1>2, <1>3

\* The names of the steps are apart.
LEMMA PcFacts ==
  ASSUME NEW t \in Threads
  PROVE  /\ pc[t] \in Outside \cup {"lock", "unlock"} => ~Inside(t) /\ pc[t] \notin Working
         /\ pc[t] \in Outside \cup {"unlock", "vaddr"} => ~HasRun(t)
         /\ Inside(t) => pc[t] \notin Outside \cup {"lock", "unlock"}
         /\ HasRun(t) /\ pc[t] # "lock" => Inside(t)
         /\ pc[t] \in HasFrame \cup {"mark", "palloc", "touch", "header", "pfree", "unmap", "vremove"} => Inside(t)
         /\ HasTable \subseteq HasFrame
BY DEF Inside, HasRun, Working, HasFrame, HasTable, Outside

\* At most one thread is in a call: the lock of the pool sees to it.
LEMMA OneInside ==
  ASSUME LockOK, NEW t \in Threads, Inside(t)
  PROVE  Alone(t)
<1> SUFFICES ASSUME NEW u \in Threads, u # t, Inside(u) PROVE FALSE
  BY DEF Alone
<1>1. pc[t] \notin Outside /\ pc[u] \notin Outside
  BY PcFacts
<1>2. ~booting
  BY <1>1 DEF LockOK
<1>3. /\ t \in KThreads \cup Procs /\ u \in KThreads \cup Procs
      /\ call[t].lock /\ call[u].lock
  BY <1>1, <1>2 DEF LockOK
<1>4. owner[Pool(t)] = t /\ owner[Pool(u)] = u
  BY <1>3 DEF LockOK
<1>5. pc[t] # "none" /\ pc[u] # "none"
  BY <1>1 DEF Outside
<1>6. Pool(t) = Pool(u)
  BY <1>3, <1>5 DEF LockOK, Pool
<1> QED BY <1>4, <1>6

LEMMA AloneKept ==
  ASSUME ShapeOK, NEW t \in Threads, NEW x \in PCs, NEW c \in Calls, Moves(t, x, c), Alone(t)
  PROVE  Alone(t)'
BY MovesFacts DEF Alone, Inside

\* A step keeps the types if what it writes has its type.
LEMMA ShapeKept ==
  ASSUME ShapeOK, NEW t \in Threads, NEW x \in PCs, NEW c \in Calls, Moves(t, x, c),
         run' = run, booting' \in BOOLEAN, UNCHANGED <<owner, level>>,
         DOMAIN held' = Threads, panic' \in {"none", "full", "count"},
         DOMAIN pool' = Pools /\ \A p \in Pools : pool'[p] \in [0 .. PoolSize(p) -> BOOLEAN],
         DOMAIN vmap' = Spaces /\ \A s \in Spaces : vmap'[s] \in [Pages(s) -> BOOLEAN],
         DOMAIN pte' = Spaces /\ \A s \in Spaces : pte'[s] \in [Pages(s) -> Frames \cup {NoFrame}],
         pde' \in [Procs -> [Tables -> Frames \cup {NoFrame}]]
  PROVE  ShapeOK'
<1>1. pc' \in [Threads -> Working \cup Outside \cup {"lock", "unlock", "vaddr"}] /\ call' \in [Threads -> Calls]
  BY MovesFacts DEF PCs
<1>2. run' \in Threads /\ owner' \in [Pools -> Threads \cup {NoThread}] /\ level' \in [Pools -> 0 .. 1]
  BY DEF ShapeOK
<1> QED BY <1>1, <1>2 DEF ShapeOK

LEMMA QuietShape ==
  ASSUME ShapeOK, NEW t \in Threads, NEW x \in PCs, NEW c \in Calls, Moves(t, x, c),
         run' = run, booting' = booting, UNCHANGED <<owner, level, poolVars>>,
         DOMAIN held' = Threads, panic' \in {"none", "full", "count"}
  PROVE  ShapeOK'
<1>1. /\ DOMAIN pool' = Pools /\ \A p \in Pools : pool'[p] \in [0 .. PoolSize(p) -> BOOLEAN]
      /\ DOMAIN vmap' = Spaces /\ \A s \in Spaces : vmap'[s] \in [Pages(s) -> BOOLEAN]
      /\ DOMAIN pte' = Spaces /\ \A s \in Spaces : pte'[s] \in [Pages(s) -> Frames \cup {NoFrame}]
  BY DEF ShapeOK, poolVars
<1>2. pde' \in [Procs -> [Tables -> Frames \cup {NoFrame}]] /\ booting' \in BOOLEAN
  BY DEF ShapeOK, poolVars
<1> QED BY <1>1, <1>2, ShapeKept

\* A thread in a call goes on in it, or leaves it.
LEMMA LockKept ==
  ASSUME ShapeOK, LockOK, NEW t \in Threads, NEW x \in PCs, NEW c \in Calls, Moves(t, x, c),
         UNCHANGED <<cpuVars, owner>>, Inside(t),
         \/ x \in Working \cup {"vaddr"} /\ c.lock = call[t].lock
         \/ x = "unlock" /\ call[t].lock
         \/ x = "idle"
  PROVE  LockOK'
<1>1. /\ pc'[t] = x /\ call'[t] = c
      /\ \A u \in Threads \ {t} : pc'[u] = pc[u] /\ call'[u] = call[u]
  BY MovesFacts
<1>2. run' = run /\ booting' = booting /\ owner' = owner
  BY DEF cpuVars
<1>3. pc[t] \notin Outside /\ pc[t] # "none"
  BY PcFacts DEF Outside
<1>4. booting => t = Main
  BY <1>3 DEF LockOK
<1>5. (booting => run = Main /\ \A u \in Threads \ {Main} : pc[u] \in Outside)'
  BY <1>1, <1>2, <1>4 DEF LockOK
<1>6. ASSUME NEW u \in Threads
      PROVE  (/\ ~booting /\ pc[u] \notin Outside => u \in KThreads \cup Procs
              /\ ~booting /\ Inside(u) => call[u].lock
              /\ (Inside(u) /\ call[u].lock) \/ pc[u] = "unlock" => owner[Pool(u)] = u)'
  <2>1. CASE u # t
    BY <1>1, <1>2, <2>1 DEF LockOK, Inside
  <2>2. CASE u = t
    <3>1. ~booting => t \in KThreads \cup Procs /\ call[t].lock
      BY <1>3 DEF LockOK
    <3>2. call[t].lock => owner[Pool(t)] = t
      BY DEF LockOK
    <3>3. x = "unlock" \/ x = "idle" => x \notin Working \cup {"vaddr"}
      BY DEF Working, HasFrame
    <3> QED BY <1>1, <1>2, <2>2, <3>1, <3>2, <3>3 DEF Inside
  <2> QED BY <2>1, <2>2
<1>7. ((\A u \in Procs : pc[u] = "none") \/ (\A u \in KThreads : pc[u] = "none"))'
  <2>1. \A u \in Procs \cup KThreads : pc[u] = "none" => u # t /\ u \in Threads \ {t}
    BY <1>3
  <2> QED BY <1>1, <2>1 DEF LockOK
<1> QED BY <1>5, <1>6, <1>7 DEF LockOK

\* A call that keeps its run stays apart from everybody else's.
LEMMA ApartKept ==
  ASSUME ShapeOK, \A u \in Threads : RunApart(u),
         NEW t \in Threads, NEW x \in PCs, NEW c \in Calls, Moves(t, x, c),
         \A u \in Threads : held'[u] \subseteq held[u],
         HasRun(t)' => HasRun(t) /\ c.va = call[t].va /\ c.cnt = call[t].cnt
  PROVE  \A u \in Threads : RunApart(u)'
<1>1. /\ call'[t] = c
      /\ \A u \in Threads \ {t} : pc'[u] = pc[u] /\ call'[u] = call[u]
  BY MovesFacts
<1>2. \A u \in Threads : HasRun(u)' => HasRun(u) /\ CallRun(u)' = CallRun(u)
  BY <1>1 DEF HasRun, CallRun
<1> SUFFICES ASSUME NEW u \in Threads, HasRun(u)', NEW w \in Threads, Space(w) = Space(u)
             PROVE  /\ \A q \in held'[w] : Run(q) \cap CallRun(u)' = {}
                    /\ w # u /\ HasRun(w)' => CallRun(w)' \cap CallRun(u)' = {}
  BY DEF RunApart
<1> QED BY <1>2 DEF RunApart

\* The runs threads have got stay as they are.
LEMMA HeldKept ==
  ASSUME ShapeOK, HeldOK, HeldApart,
         NEW t \in Threads, NEW x \in PCs, NEW c \in Calls, Moves(t, x, c),
         UNCHANGED held,
         \A u \in Threads : \A r \in held[u] : \A v \in Run(r) : pte'[Space(u)][v] = pte[Space(u)][v],
         t \in Procs /\ x \notin {"none", "start"} /\ (c.op # "stack" \/ x = "unlock") =>
           pc[t] \notin {"none", "start"} /\ (call[t].op # "stack" \/ pc[t] = "unlock")
  PROVE  HeldOK' /\ HeldApart'
<1>1. /\ pc'[t] = x /\ call'[t] = c
      /\ \A u \in Threads \ {t} : pc'[u] = pc[u] /\ call'[u] = call[u]
  BY MovesFacts
<1>2. HeldOK'
  <2>1. \A u \in Threads : \A r \in held'[u] : r \in Nat \X (Nat \ {0}) /\ r[1] + r[2] - 1 <= NPages(Space(u))
    BY DEF HeldOK
  <2>2. ASSUME NEW u \in Procs, pc'[u] \notin {"none", "start"}, call'[u].op # "stack" \/ pc'[u] = "unlock"
        PROVE  <<StackPage, 1>> \in held'[u]
    <3>1. pc[u] \notin {"none", "start"} /\ (call[u].op # "stack" \/ pc[u] = "unlock")
      BY <1>1, <2>2
    <3> QED BY <3>1 DEF HeldOK
  <2> QED BY <2>1, <2>2 DEF HeldOK
<1>3. HeldApart'
  BY DEF HeldApart
<1> QED BY <1>2, <1>3

\* A step of a thread in all that it leaves alone of the others.
LEMMA StepDone ==
  ASSUME IInv, NEW t \in Threads, NEW x \in PCs, NEW c \in Calls, Moves(t, x, c),
         \A u \in Threads \ {t} : held'[u] = held[u],
         \/ UNCHANGED <<pte, pde>>
         \/ /\ Inside(t) /\ HasRun(t)
            /\ \A s \in Spaces : \A v \in Pages(s) :
                 pte'[s][v] = pte[s][v] \/ (s = Space(t) /\ v \in CallRun(t)),
         ShapeOK', LockOK', CallOK(t)', RunOK(t)', FrameOK(t)', Fresh(t)', \A u \in Threads : RunApart(u)',
         FramesApart', HeldOK', HeldApart', FramesAccounted', PagesAccounted'
  PROVE  IInv'
<1>0. ShapeOK /\ LockOK
  BY DEF IInv
<1>1. /\ pc'[t] = x /\ call'[t] = c
      /\ \A u \in Threads \ {t} : pc'[u] = pc[u] /\ call'[u] = call[u]
  BY <1>0, MovesFacts
<1>2. UNCHANGED <<pte, pde>> \/ Alone(t)
  BY <1>0, OneInside
<1> SUFFICES ASSUME NEW u \in Threads \ {t}
             PROVE  CallOK(u)' /\ RunOK(u)' /\ FrameOK(u)' /\ Fresh(u)'
  BY DEF IInv
<1>3. pc'[u] = pc[u] /\ call'[u] = call[u] /\ u \in Threads /\ u # t
  BY <1>1
<1>4. CallOK(u) /\ RunOK(u) /\ FrameOK(u) /\ Fresh(u) /\ RunApart(u) /\ RunApart(t)
  BY DEF IInv
<1>5. CallOK(u)'
  BY <1>3, <1>4 DEF CallOK, Inside, HasRun
<1>6. RunOK(u)'
  <2> SUFFICES ASSUME HasRun(u)', NEW v \in CallRun(u)'
               PROVE  (pte[Space(u)][v] # NoFrame <=> GotPage(u, v))'
    BY DEF RunOK
  <2>1. HasRun(u) /\ v \in CallRun(u) /\ (GotPage(u, v)' <=> GotPage(u, v))
    BY <1>3 DEF HasRun, CallRun, GotPage, Page
  <2>2. v \in Pages(Space(u)) /\ Space(u) \in Spaces
    <3>1. call[u].va \in Nat /\ call[u].cnt \in Nat
      BY <1>0 DEF ShapeOK, Calls
    <3>2. call[u].va + call[u].cnt - 1 <= NPages(Space(u)) /\ NPages(Space(u)) \in Nat
      BY <1>4, <2>1, SpaceFacts DEF CallOK
    <3> QED BY <2>1, <3>1, <3>2, SpaceFacts DEF CallRun, Pages
  <2>3. pte'[Space(u)][v] = pte[Space(u)][v]
    BY <1>3, <1>4, <2>1, <2>2 DEF RunApart
  <2> QED BY <1>4, <2>1, <2>3 DEF RunOK
<1>7. FrameOK(u)'
  <2>1. CASE UNCHANGED <<pte, pde>>
    BY <1>3, <1>4, <2>1 DEF FrameOK, Unused, NoTable, Page
  <2>2. CASE Alone(t)
    <3>1. pc[u] \notin HasFrame \cup HasTable \cup {"pfree", "unmap"}
      BY <2>2, PcFacts DEF Alone
    <3> QED BY <1>3, <3>1 DEF FrameOK
  <2> QED BY <1>2, <2>1, <2>2
<1>8. Fresh(u)'
  <2> SUFFICES ASSUME u \in Procs, pc[u] \in {"none", "start"} \/ (pc[u] = "lock" /\ call[u].op = "stack")
               PROVE  held'[u] = {} /\ \A v \in Pages(u) : pte'[u][v] = NoFrame
    BY <1>3 DEF Fresh
  <2>1. u # Space(t) /\ u \in Spaces
    BY <1>3 DEF Space, Spaces
  <2>2. held'[u] = {}
    BY <1>4 DEF Fresh
  <2>3. \A v \in Pages(u) : pte'[u][v] = pte[u][v]
    BY <2>1
  <2> QED BY <1>4, <2>2, <2>3 DEF Fresh
<1> QED BY <1>5, <1>6, <1>7, <1>8

\* A step that leaves the bitmaps and tables alone, and what the thread says of
\* its frames and pages.
LEMMA QuietAccounts ==
  ASSUME ShapeOK, FramesApart, FramesAccounted, PagesAccounted,
         NEW t \in Threads, NEW x \in PCs, NEW c \in Calls, Moves(t, x, c),
         UNCHANGED poolVars,
         \A f \in Frames : MarkedBy(t, f)' <=> MarkedBy(t, f),
         \A s \in Spaces : \A v \in Pages(s) : ReturnedBy(t, s, v)' <=> ReturnedBy(t, s, v),
         InWork(t)' = InWork(t)
  PROVE  FramesApart' /\ FramesAccounted' /\ PagesAccounted'
<1>1. \A u \in Threads \ {t} : pc'[u] = pc[u] /\ call'[u] = call[u]
  BY MovesFacts
<1>2. pool' = pool /\ vmap' = vmap /\ pte' = pte /\ pde' = pde
  BY DEF poolVars
<1>3. \A u \in Threads : \A f \in Frames : MarkedBy(u, f)' <=> MarkedBy(u, f)
  BY <1>1 DEF MarkedBy
<1>4. \A u \in Threads : \A s \in Spaces : \A v \in Pages(s) : ReturnedBy(u, s, v)' <=> ReturnedBy(u, s, v)
  BY <1>1 DEF ReturnedBy, Page
<1>5. \A u \in Threads : InWork(u)' = InWork(u)
  BY <1>1 DEF InWork, Page
<1>6. FramesAccounted'
  <2>1. \A f \in Frames : Marked(f)' <=> Marked(f)
    BY <1>3 DEF Marked
  <2>2. \A s \in Spaces : \A v \in Pages(s) : Returned(s, v)' <=> Returned(s, v)
    BY <1>4 DEF Returned
  <2> QED BY <1>2, <2>1, <2>2 DEF FramesAccounted
<1>7. PagesAccounted'
  BY <1>2, <1>5 DEF PagesAccounted
<1>8. FramesApart'
  BY <1>2 DEF FramesApart
<1> QED BY <1>6, <1>7, <1>8

\* Such a step also keeps the runs of the threads.
LEMMA QuietStep ==
  ASSUME IInv, NEW t \in Threads, NEW x \in PCs, NEW c \in Calls, Moves(t, x, c),
         UNCHANGED <<poolVars, held>>,
         ShapeOK', LockOK', CallOK(t)', RunOK(t)', FrameOK(t)', Fresh(t)', \A u \in Threads : RunApart(u)',
         t \in Procs /\ x \notin {"none", "start"} /\ (c.op # "stack" \/ x = "unlock") =>
           pc[t] \notin {"none", "start"} /\ (call[t].op # "stack" \/ pc[t] = "unlock"),
         \A f \in Frames : MarkedBy(t, f)' <=> MarkedBy(t, f),
         \A s \in Spaces : \A v \in Pages(s) : ReturnedBy(t, s, v)' <=> ReturnedBy(t, s, v),
         InWork(t)' = InWork(t)
  PROVE  IInv'
<1>1. ShapeOK /\ FramesApart /\ FramesAccounted /\ PagesAccounted /\ HeldOK /\ HeldApart
  BY DEF IInv
<1>2. FramesApart' /\ FramesAccounted' /\ PagesAccounted'
  BY <1>1, QuietAccounts
<1>3. pte' = pte /\ pde' = pde /\ held' = held
  BY DEF poolVars
<1>4. HeldOK' /\ HeldApart'
  BY <1>1, <1>3, HeldKept
<1> QED BY <1>2, <1>3, <1>4, StepDone

\* With one thread in a call, the bitmaps know the frames and pages in use, but
\* for those that thread is working on.
FramesOf(t) ==
  \A f \in Frames :
    pool[PoolOf(f)][f - PoolStart(PoolOf(f))] <=>
      \/ \E s \in Spaces : \E v \in Pages(s) : pte[s][v] = f /\ ~ReturnedBy(t, s, v)
      \/ \E s \in Procs, k \in Tables : pde[s][k] = f
      \/ MarkedBy(t, f)

PagesOf(t) ==
  \A s \in Spaces : \A v \in Pages(s) :
    vmap[s][v] <=> pte[s][v] # NoFrame \/ (Space(t) = s /\ v \in InWork(t))

LEMMA AccountsOf ==
  ASSUME NEW t \in Threads, Alone(t)
  PROVE  (FramesAccounted <=> FramesOf(t)) /\ (PagesAccounted <=> PagesOf(t))
<1>1. \A u \in Threads \ {t} : pc[u] \notin HasFrame \cup HasTable \cup {"mark", "palloc", "pfree", "unmap", "vremove"}
  BY PcFacts DEF Alone
<1>2. \A f \in Frames : Marked(f) <=> MarkedBy(t, f)
  BY <1>1 DEF Marked, MarkedBy
<1>3. \A s \in Spaces : \A v \in Pages(s) : Returned(s, v) <=> ReturnedBy(t, s, v)
  BY <1>1 DEF Returned, ReturnedBy
<1>4. \A u \in Threads \ {t} : InWork(u) = {}
  BY <1>1 DEF InWork
<1>5. FramesAccounted <=> FramesOf(t)
  BY <1>2, <1>3 DEF FramesAccounted, FramesOf
<1>6. ASSUME NEW s \in Spaces, NEW v \in Pages(s)
      PROVE  (\E u \in Threads : Space(u) = s /\ v \in InWork(u)) <=> (Space(t) = s /\ v \in InWork(t))
  BY <1>4
<1>7. PagesAccounted <=> PagesOf(t)
  BY <1>6 DEF PagesAccounted, PagesOf
<1> QED BY <1>5, <1>7

LEMMA AccountsNext ==
  ASSUME NEW t \in Threads, Alone(t)'
  PROVE  (FramesAccounted' <=> FramesOf(t)') /\ (PagesAccounted' <=> PagesOf(t)')
<1>1. \A u \in Threads \ {t} : pc'[u] \notin HasFrame \cup HasTable \cup {"mark", "palloc", "pfree", "unmap", "vremove"}
  BY DEF Alone, Inside, Working, HasFrame, HasTable
<1>2. \A f \in Frames : Marked(f)' <=> MarkedBy(t, f)'
  BY <1>1 DEF Marked, MarkedBy
<1>3. \A s \in Spaces : \A v \in Pages(s) : Returned(s, v)' <=> ReturnedBy(t, s, v)'
  BY <1>1 DEF Returned, ReturnedBy
<1>4. \A u \in Threads \ {t} : InWork(u)' = {}
  BY <1>1 DEF InWork
<1>5. FramesAccounted' <=> FramesOf(t)'
  BY <1>2, <1>3 DEF FramesAccounted, FramesOf
<1>6. ASSUME NEW s \in Spaces, NEW v \in Pages(s)
      PROVE  (\E u \in Threads : Space(u) = s /\ v \in InWork(u)') <=> (Space(t) = s /\ v \in InWork(t)')
  BY <1>4
<1>7. PagesAccounted' <=> PagesOf(t)'
  BY <1>6 DEF PagesAccounted, PagesOf
<1> QED BY <1>5, <1>7

-----------------------------------------------------------------------------
(* Calls begin.                                                            *)

LEMMA SetLock ==
  ASSUME NEW d \in Calls, NEW lock \in BOOLEAN
  PROVE  LET c == [d EXCEPT !.lock = lock] IN
           c \in Calls /\ c.op = d.op /\ c.lock = lock /\ c.va = d.va /\ c.cnt = d.cnt /\ c.n = d.n
           /\ c.frame = d.frame /\ c.table = d.table
BY DEF Calls

LEMMA SetVa ==
  ASSUME NEW d \in Calls, NEW va \in Nat
  PROVE  LET c == [d EXCEPT !.va = va] IN
           c \in Calls /\ c.op = d.op /\ c.lock = d.lock /\ c.va = va /\ c.cnt = d.cnt /\ c.n = d.n
           /\ c.frame = d.frame /\ c.table = d.table
BY DEF Calls

LEMMA SetCnt ==
  ASSUME NEW d \in Calls, NEW cnt \in Nat
  PROVE  LET c == [d EXCEPT !.cnt = cnt] IN
           c \in Calls /\ c.op = d.op /\ c.lock = d.lock /\ c.va = d.va /\ c.cnt = cnt /\ c.n = d.n
           /\ c.frame = d.frame /\ c.table = d.table
BY DEF Calls

LockedCall(op, va, cnt) == [NoCall EXCEPT !.op = op, !.lock = TRUE, !.va = va, !.cnt = cnt]
KernelCall == [NoCall EXCEPT !.op = "get", !.lock = FALSE, !.va = 0, !.cnt = 1]

LEMMA NewCall ==
  ASSUME NEW op \in {"get", "stack", "free"}, NEW va \in Nat, NEW cnt \in Nat
  PROVE  LET c == LockedCall(op, va, cnt) IN
           c \in Calls /\ c.op = op /\ c.lock /\ c.va = va /\ c.cnt = cnt /\ c.n = 0
<1> DEFINE c1 == [NoCall EXCEPT !.op = op]
           c2 == [c1 EXCEPT !.lock = TRUE]
           c3 == [c2 EXCEPT !.va = va]
           c4 == [c3 EXCEPT !.cnt = cnt]
<1>0. NoCall \in Calls /\ NoCall.n = 0
  BY DEF NoCall, Calls
<1>1. c1 \in Calls /\ c1.op = op /\ c1.n = 0
  BY <1>0 DEF Calls
<1>2. c2 \in Calls /\ c2.op = op /\ c2.lock /\ c2.n = 0
  <2> HIDE DEF c1
  <2> QED BY <1>1, SetLock
<1>3. c3 \in Calls /\ c3.op = op /\ c3.lock /\ c3.va = va /\ c3.n = 0
  <2> HIDE DEF c2
  <2> QED BY <1>2, SetVa
<1>4. c4 \in Calls /\ c4.op = op /\ c4.lock /\ c4.va = va /\ c4.cnt = cnt /\ c4.n = 0
  <2> HIDE DEF c3
  <2> QED BY <1>3, SetCnt
<1>5. LockedCall(op, va, cnt) = c4
  BY DEF LockedCall
<1> HIDE DEF c4
<1> QED BY <1>4, <1>5

LEMMA NewKernelCall ==
  LET c == KernelCall IN
    c \in Calls /\ c.op = "get" /\ ~c.lock /\ c.va = 0 /\ c.cnt = 1 /\ c.n = 0
BY DEF KernelCall, NoCall, Calls

LEMMA BeginStep ==
  ASSUME IInv, NEW t \in Threads, NEW x \in {"lock", "vaddr"}, NEW c \in Calls, Moves(t, x, c),
         UNCHANGED <<cpuVars, owner, level, poolVars, held, panic>>,
         c.op \in {"get", "stack"}, c.cnt > 0, c.n = 0,
         pc[t] = IF c.op = "get" THEN "idle" ELSE "start",
         c.lock <=> x = "lock",
         IF booting THEN t = Main /\ x = "vaddr" ELSE x = "lock" /\ t \in KThreads \cup Procs,
         c.op = "stack" => x = "lock" /\ t \in Procs /\ c.va = StackPage /\ c.cnt = 1
  PROVE  IInv'
<1>0. ShapeOK /\ LockOK /\ CallOK(t) /\ Fresh(t) /\ \A u \in Threads : RunApart(u)
  BY DEF IInv
<1>1. x \in PCs /\ c.va \in Nat /\ c.cnt \in Nat
  BY DEF PCs, Calls
<1>U. UNCHANGED <<poolVars, held>> /\ UNCHANGED <<cpuVars, owner>> /\ UNCHANGED <<owner, level, poolVars>>
      /\ run' = run /\ booting' = booting /\ owner' = owner /\ panic' = panic /\ held' = held
      /\ pte' = pte /\ pde' = pde
  BY DEF cpuVars, poolVars
<1>3. /\ pc'[t] = x /\ call'[t] = c
      /\ \A u \in Threads \ {t} : pc'[u] = pc[u] /\ call'[u] = call[u]
  BY <1>0, <1>1, MovesFacts
<1>4. ShapeOK'
  <2>1. DOMAIN held' = Threads /\ panic' \in {"none", "full", "count"}
    BY <1>0, <1>U DEF ShapeOK
  <2> QED BY <1>0, <1>1, <1>U, <2>1, QuietShape
<1>5. LockOK'
  <2>1. (booting => run = Main /\ \A u \in Threads \ {Main} : pc[u] \in Outside)'
    BY <1>0, <1>3, <1>U DEF LockOK
  <2>2. ASSUME NEW u \in Threads
        PROVE  (/\ ~booting /\ pc[u] \notin Outside => u \in KThreads \cup Procs
                /\ ~booting /\ Inside(u) => call[u].lock
                /\ (Inside(u) /\ call[u].lock) \/ pc[u] = "unlock" => owner[Pool(u)] = u)'
    <3>1. CASE u # t
      BY <1>0, <1>3, <1>U, <3>1 DEF LockOK, Inside
    <3>2. CASE u = t
      <4>1. "lock" \notin Working \cup {"vaddr"}
        BY DEF Working, HasFrame
      <4> QED BY <1>1, <1>3, <1>U, <3>2, <4>1 DEF Inside
    <3> QED BY <3>1, <3>2
  <2>3. ((\A u \in Procs : pc[u] = "none") \/ (\A u \in KThreads : pc[u] = "none"))'
    <3>1. \A u \in Procs \cup KThreads : pc[u] = "none" => u # t /\ u \in Threads \ {t}
      OBVIOUS
    <3> QED BY <1>0, <1>3, <3>1 DEF LockOK
  <2> QED BY <2>1, <2>2, <2>3 DEF LockOK
<1>6. x \notin Working /\ pc'[t] \notin Working /\ ~HasRun(t)'
  BY <1>1, <1>3 DEF HasRun, Working, HasFrame
<1>7. CallOK(t)'
  <2>1. pc'[t] \notin Outside \cup {"mark", "palloc", "touch", "header", "pfree", "unmap", "vremove", "start"} \cup HasFrame
    BY <1>1, <1>3 DEF Outside, HasFrame
  <2> QED BY <1>1, <1>3, <1>6, <2>1 DEF CallOK, Inside
<1>8. RunOK(t)' /\ FrameOK(t)'
  BY <1>6 DEF RunOK, FrameOK, Working, HasFrame, HasTable
<1>9. Fresh(t)'
  BY <1>0, <1>1, <1>3, <1>U DEF Fresh
<1>10. \A u \in Threads : RunApart(u)'
  BY <1>0, <1>1, <1>6, <1>U, ApartKept
<1>11. t \in Procs /\ x \notin {"none", "start"} /\ (c.op # "stack" \/ x = "unlock") =>
           pc[t] \notin {"none", "start"} /\ (call[t].op # "stack" \/ pc[t] = "unlock")
  <2>1. c.op = "get" => pc[t] = "idle" /\ call[t].op = "get"
    BY <1>0 DEF CallOK, Outside
  <2> QED BY <1>1, <2>1
<1>12. pc[t] \in Outside
  BY DEF Outside
<1>13. /\ \A f \in Frames : MarkedBy(t, f)' <=> MarkedBy(t, f)
       /\ \A s \in Spaces : \A v \in Pages(s) : ReturnedBy(t, s, v)' <=> ReturnedBy(t, s, v)
  BY <1>1, <1>3, <1>12 DEF MarkedBy, ReturnedBy, HasFrame, HasTable, Outside
<1>14. InWork(t)' = InWork(t)
  <2>1. InWork(t) = {}
    BY <1>12 DEF InWork, Outside, HasFrame
  <2>2. InWork(t)' = {}
    BY <1>1, <1>3 DEF InWork, HasFrame
  <2> QED BY <2>1, <2>2
<1> QED BY <1>1, <1>U, <1>4, <1>5, <1>7, <1>8, <1>9, <1>10, <1>11, <1>13, <1>14, QuietStep

LEMMA MallocStep ==
  ASSUME IInv, NEW t \in Threads, NEW cnt \in 1 .. MaxCnt, Malloc(t, cnt)
  PROVE  IInv'
<1>1. PICK c : c = LockedCall("get", 0, cnt)
  OBVIOUS
<1>2. c \in Calls /\ c.op = "get" /\ c.lock /\ c.cnt = cnt /\ c.n = 0
  <2>1. cnt \in Nat /\ 0 \in Nat /\ "get" \in {"get", "stack", "free"}
    OBVIOUS
  <2> QED BY <1>1, <2>1, NewCall
<1>3. Moves(t, "lock", c)
  BY <1>1 DEF Moves, Malloc, Begin, Goto, LockedCall
<1>4. pc[t] = "idle" /\ ~booting /\ t \in KThreads \cup Procs
  BY DEF Malloc, At
<1> QED BY <1>2, <1>3, <1>4, BeginStep DEF Malloc

LEMMA GetKernelPagesStep ==
  ASSUME OneLock, IInv, NEW t \in Threads, GetKernelPages(t)
  PROVE  IInv'
<1>1. PICK c : c = KernelCall
  OBVIOUS
<1>2. c \in Calls /\ c.op = "get" /\ ~c.lock /\ c.cnt = 1 /\ c.n = 0
  BY <1>1, NewKernelCall
<1>3. Moves(t, "vaddr", c)
  BY <1>1 DEF Moves, GetKernelPages, Begin, Goto, KernelCall
<1>4. pc[t] = "idle" /\ booting /\ t = Main
  BY DEF GetKernelPages, At, OneLock
<1> QED BY <1>2, <1>3, <1>4, BeginStep DEF GetKernelPages

LEMMA GetAPageStep ==
  ASSUME IInv, NEW t \in Threads, GetAPage(t)
  PROVE  IInv'
<1>1. PICK c : c = LockedCall("stack", StackPage, 1)
  OBVIOUS
<1>2. c \in Calls /\ c.op = "stack" /\ c.lock /\ c.va = StackPage /\ c.cnt = 1 /\ c.n = 0
  <2>1. 1 \in Nat /\ StackPage \in Nat /\ "stack" \in {"get", "stack", "free"}
    BY SpaceFacts
  <2> QED BY <1>1, <2>1, NewCall
<1>3. Moves(t, "lock", c)
  BY <1>1 DEF Moves, GetAPage, Begin, Goto, LockedCall
<1>4. pc[t] = "start" /\ run = t
  BY DEF GetAPage, At
<1>5. t \in Procs
  BY <1>4 DEF IInv, CallOK
<1>6. ~booting
  <2>1. booting => run = Main
    BY DEF IInv, LockOK
  <2> QED BY <1>4, <1>5, <2>1
<1> QED BY <1>2, <1>3, <1>4, <1>5, <1>6, BeginStep DEF GetAPage

LEMMA FreeStep ==
  ASSUME IInv, NEW t \in Threads, NEW r \in held[t], Free(t, r)
  PROVE  IInv'
<1>0. /\ ShapeOK /\ LockOK /\ CallOK(t) /\ HeldOK /\ HeldApart /\ \A u \in Threads : RunApart(u) /\ CallOK(u)
      /\ FramesApart /\ FramesAccounted /\ PagesAccounted
  BY DEF IInv
<1>1. r \in Nat \X (Nat \ {0}) /\ r[1] + r[2] - 1 <= NPages(Space(t))
  BY <1>0 DEF HeldOK
<1>2. PICK c : c = LockedCall("free", r[1], r[2])
  OBVIOUS
<1>3. c \in Calls /\ c.op = "free" /\ c.lock /\ c.va = r[1] /\ c.cnt = r[2] /\ c.n = 0
  <2>1. r[1] \in Nat /\ r[2] \in Nat /\ "free" \in {"get", "stack", "free"}
    BY <1>1
  <2> QED BY <1>2, <2>1, NewCall
<1>4. Moves(t, "lock", c) /\ "lock" \in PCs
  BY <1>2 DEF Moves, Free, Begin, Goto, LockedCall, PCs
<1>5. pc[t] = "idle" /\ t \in KThreads \cup Procs /\ (t \in Procs => r[1] # StackPage)
  BY DEF Free, At
<1>6. /\ pc'[t] = "lock" /\ call'[t] = c
      /\ \A u \in Threads \ {t} : pc'[u] = pc[u] /\ call'[u] = call[u]
  BY <1>0, <1>3, <1>4, MovesFacts
<1>7. /\ run' = run /\ booting' = booting /\ UNCHANGED <<owner, level, poolVars>> /\ UNCHANGED <<pte, pde>>
      /\ owner' = owner /\ pte' = pte /\ panic' = panic /\ UNCHANGED poolVars
      /\ held' = [held EXCEPT ![t] = @ \ {r}]
  BY DEF Free, cpuVars, poolVars
<1>8. /\ DOMAIN held' = Threads /\ held'[t] = held[t] \ {r}
      /\ \A u \in Threads \ {t} : held'[u] = held[u]
      /\ \A u \in Threads : held'[u] \subseteq held[u]
  BY <1>0, <1>7 DEF ShapeOK
<1>9. ShapeOK'
  <2>1. panic' \in {"none", "full", "count"}
    BY <1>0, <1>7 DEF ShapeOK
  <2> QED BY <1>0, <1>3, <1>4, <1>7, <1>8, <2>1, QuietShape
<1>10. pc[t] \in Outside /\ ~HasRun(t) /\ pc'[t] \notin Working \cup Outside \cup HasFrame \cup {"vaddr", "unlock", "start"}
       /\ ~Inside(t)'
  <2>1. "lock" \notin Working \cup Outside \cup HasFrame \cup {"vaddr", "unlock", "start"}
    BY DEF Working, Outside, HasFrame
  <2> QED BY <1>5, <1>6, <2>1, PcFacts DEF Outside, Inside
<1>11. LockOK'
  <2>1. booting => t = Main
    BY <1>0 DEF Free, At, LockOK
  <2>2. (booting => run = Main /\ \A u \in Threads \ {Main} : pc[u] \in Outside)'
    BY <1>0, <1>6, <1>7, <2>1 DEF LockOK
  <2>3. ASSUME NEW u \in Threads
        PROVE  (/\ ~booting /\ pc[u] \notin Outside => u \in KThreads \cup Procs
                /\ ~booting /\ Inside(u) => call[u].lock
                /\ (Inside(u) /\ call[u].lock) \/ pc[u] = "unlock" => owner[Pool(u)] = u)'
    <3>1. CASE u # t
      BY <1>0, <1>6, <1>7, <3>1 DEF LockOK, Inside
    <3>2. CASE u = t
      BY <1>5, <1>6, <1>10, <3>2
    <3> QED BY <3>1, <3>2
  <2>4. ((\A u \in Procs : pc[u] = "none") \/ (\A u \in KThreads : pc[u] = "none"))'
    <3>1. \A u \in Procs \cup KThreads : pc[u] = "none" => u # t /\ u \in Threads \ {t}
      BY <1>5
    <3> QED BY <1>0, <1>6, <3>1 DEF LockOK
  <2> QED BY <2>2, <2>3, <2>4 DEF LockOK
<1>12. CallOK(t)'
  <2>1. pc'[t] \notin {"mark", "palloc", "touch", "header", "pfree", "unmap", "vremove"}
    BY <1>6
  <2>2. c.cnt > 0 /\ c.va + c.cnt - 1 <= NPages(Space(t))
    BY <1>1, <1>3
  <2> QED BY <1>3, <1>6, <1>10, <2>1, <2>2 DEF CallOK
<1>13. CallRun(t)' = Run(r) /\ HasRun(t)'
  BY <1>3, <1>6 DEF CallRun, Run, HasRun
<1>14. RunOK(t)'
  <2>1. \A v \in Run(r) : pte[Space(t)][v] # NoFrame
    BY <1>0 DEF HeldApart
  <2> QED BY <1>6, <1>7, <1>13, <2>1 DEF RunOK, GotPage
<1>15. \A u \in Threads : RunApart(u)'
  <2>1. \A u \in Threads \ {t} : (HasRun(u)' <=> HasRun(u)) /\ CallRun(u)' = CallRun(u)
    BY <1>6 DEF HasRun, CallRun
  <2>2. ASSUME NEW u \in Threads, Space(u) = Space(t)
        PROVE  /\ \A q \in held'[u] : Run(q) \cap Run(r) = {}
               /\ u # t /\ HasRun(u) => CallRun(u) \cap Run(r) = {}
    <3>1. \A q \in held'[u] : q \in held[u] /\ (u # t \/ q # r)
      BY <1>8
    <3>2. \A q \in held'[u] : Run(q) \cap Run(r) = {}
      BY <1>0, <2>2, <3>1 DEF HeldApart
    <3>3. HasRun(u) => CallRun(u) \cap Run(r) = {}
      BY <1>0, <2>2 DEF RunApart
    <3> QED BY <3>2, <3>3
  <2>3. RunApart(t)'
    BY <1>13, <2>1, <2>2 DEF RunApart
  <2>4. ASSUME NEW u \in Threads \ {t} PROVE RunApart(u)'
    <3> SUFFICES ASSUME HasRun(u), NEW w \in Threads, Space(w) = Space(u)
                 PROVE  /\ \A q \in held'[w] : Run(q) \cap CallRun(u) = {}
                        /\ w # u /\ HasRun(w)' => CallRun(w)' \cap CallRun(u) = {}
      BY <2>1 DEF RunApart
    <3>1. \A q \in held'[w] : Run(q) \cap CallRun(u) = {}
      BY <1>0, <1>8 DEF RunApart
    <3>2. CASE w = t
      BY <1>13, <2>2, <3>1, <3>2
    <3>3. CASE w # t
      BY <1>0, <2>1, <3>1, <3>3 DEF RunApart
    <3> QED BY <3>2, <3>3
  <2> QED BY <2>3, <2>4
<1>16. FrameOK(t)' /\ Fresh(t)'
  <2>1. pc'[t] \notin HasFrame \cup HasTable \cup {"pfree", "unmap", "none", "start"} /\ call'[t].op # "stack"
    BY <1>3, <1>6 DEF HasFrame, HasTable
  <2> QED BY <2>1 DEF FrameOK, Fresh
<1>17. HeldOK'
  <2>1. \A u \in Threads : \A q \in held'[u] : q \in Nat \X (Nat \ {0}) /\ q[1] + q[2] - 1 <= NPages(Space(u))
    BY <1>0, <1>8 DEF HeldOK
  <2>2. ASSUME NEW u \in Procs, pc'[u] \notin {"none", "start"}, call'[u].op # "stack" \/ pc'[u] = "unlock"
        PROVE  <<StackPage, 1>> \in held'[u]
    <3>1. CASE u # t
      BY <1>0, <1>6, <1>8, <2>2, <3>1 DEF HeldOK
    <3>2. CASE u = t
      <4>1. <<StackPage, 1>> \in held[t]
        BY <1>0, <1>5, <3>2 DEF HeldOK, CallOK, Outside
      <4>2. <<StackPage, 1>> # r
        BY <1>5, <3>2
      <4> QED BY <1>8, <3>2, <4>1, <4>2
    <3> QED BY <3>1, <3>2
  <2> QED BY <2>1, <2>2 DEF HeldOK
<1>18. HeldApart'
  BY <1>0, <1>7, <1>8 DEF HeldApart
<1>19. /\ \A f \in Frames : MarkedBy(t, f)' <=> MarkedBy(t, f)
       /\ \A s \in Spaces : \A v \in Pages(s) : ReturnedBy(t, s, v)' <=> ReturnedBy(t, s, v)
  BY <1>5, <1>6 DEF MarkedBy, ReturnedBy, HasFrame, HasTable
<1>20. InWork(t)' = InWork(t)
  <2>1. InWork(t) = {}
    BY <1>5 DEF InWork, HasFrame
  <2>2. InWork(t)' = {}
    BY <1>6 DEF InWork, HasFrame
  <2> QED BY <2>1, <2>2
<1>21. FramesApart' /\ FramesAccounted' /\ PagesAccounted'
  BY <1>0, <1>3, <1>4, <1>7, <1>19, <1>20, QuietAccounts
<1> QED BY <1>3, <1>4, <1>7, <1>8, <1>9, <1>11, <1>12, <1>14, <1>15, <1>16, <1>17, <1>18, <1>21, StepDone

-----------------------------------------------------------------------------
(* The lock of the pool.                                                   *)

LEMMA LockPoolStep ==
  ASSUME IInv, NEW t \in Threads, LockPool(t)
  PROVE  IInv'
<1> DEFINE x == IF call[t].op = "get" THEN "vaddr" ELSE IF call[t].op = "stack" THEN "mark" ELSE "header"
           c == call[t]
<1>0. ShapeOK /\ LockOK /\ CallOK(t) /\ RunOK(t) /\ Fresh(t) /\ \A u \in Threads : RunApart(u)
  BY DEF IInv
<1>1. /\ c \in Calls /\ x \in PCs /\ x \in {"vaddr", "mark", "header"}
      /\ (x = "vaddr" <=> c.op = "get") /\ (x = "mark" <=> c.op = "stack") /\ (x = "header" <=> c.op = "free")
  <2>1. c \in Calls /\ c.op \in {"get", "stack", "free"}
    BY <1>0 DEF ShapeOK, Calls
  <2>2. CASE c.op = "get"
    BY <2>1, <2>2 DEF PCs
  <2>3. CASE c.op = "stack"
    BY <2>1, <2>3 DEF PCs, Working
  <2>4. CASE c.op = "free"
    BY <2>1, <2>4 DEF PCs, Working
  <2> QED BY <2>1, <2>2, <2>3, <2>4
<1>2. Moves(t, x, c)
  <2>1. call' = [call EXCEPT ![t] = c]
    BY <1>0 DEF LockPool, ShapeOK
  <2> QED BY <2>1 DEF Moves, LockPool, Goto
<1>3. /\ pc[t] = "lock" /\ owner[Pool(t)] = NoThread
      /\ owner' = [owner EXCEPT ![Pool(t)] = t] /\ level' = [level EXCEPT ![Pool(t)] = 1]
      /\ run' = run /\ booting' = booting /\ held' = held /\ panic' = panic
      /\ UNCHANGED <<poolVars, held>> /\ pool' = pool /\ vmap' = vmap /\ pte' = pte /\ pde' = pde
  BY DEF LockPool, At, Lock, cpuVars, poolVars
<1> HIDE DEF x, c
<1>4. /\ pc'[t] = x /\ call'[t] = c
      /\ \A u \in Threads \ {t} : pc'[u] = pc[u] /\ call'[u] = call[u]
      /\ pc' \in [Threads -> PCs] /\ call' \in [Threads -> Calls]
  BY <1>0, <1>1, <1>2, MovesFacts
<1>5. c = call[t] /\ c.lock /\ c.cnt > 0 /\ c.n = 0 /\ c.va \in Nat /\ c.cnt \in Nat
  <2>1. c = call[t]
    BY DEF c
  <2> QED BY <1>0, <1>1, <1>3, <2>1 DEF CallOK, Calls
<1>6. ShapeOK'
  <2>1. Pool(t) \in Pools
    BY SpaceFacts
  <2>2. owner' \in [Pools -> Threads \cup {NoThread}] /\ level' \in [Pools -> 0 .. 1]
    BY <1>0, <1>3, <2>1 DEF ShapeOK
  <2>3. pc' \in [Threads -> Working \cup Outside \cup {"lock", "unlock", "vaddr"}]
    BY <1>4 DEF PCs
  <2>4. /\ DOMAIN pool' = Pools /\ \A p \in Pools : pool'[p] \in [0 .. PoolSize(p) -> BOOLEAN]
        /\ DOMAIN vmap' = Spaces /\ \A s \in Spaces : vmap'[s] \in [Pages(s) -> BOOLEAN]
        /\ DOMAIN pte' = Spaces /\ \A s \in Spaces : pte'[s] \in [Pages(s) -> Frames \cup {NoFrame}]
        /\ pde' \in [Procs -> [Tables -> Frames \cup {NoFrame}]]
    BY <1>0, <1>3 DEF ShapeOK
  <2>5. run' \in Threads /\ booting' \in BOOLEAN /\ DOMAIN held' = Threads /\ panic' \in {"none", "full", "count"}
    BY <1>0, <1>3 DEF ShapeOK
  <2> QED BY <1>4, <2>2, <2>3, <2>4, <2>5 DEF ShapeOK
<1>7. LockOK'
  <2>0. pc[t] \notin Outside
    BY <1>3 DEF Outside
  <2>1. (booting => run = Main /\ \A u \in Threads \ {Main} : pc[u] \in Outside)'
    <3>1. booting => t = Main
      BY <1>0, <2>0 DEF LockOK
    <3> QED BY <1>0, <1>3, <1>4, <3>1 DEF LockOK
  <2>2. ASSUME NEW u \in Threads
        PROVE  (/\ ~booting /\ pc[u] \notin Outside => u \in KThreads \cup Procs
                /\ ~booting /\ Inside(u) => call[u].lock
                /\ (Inside(u) /\ call[u].lock) \/ pc[u] = "unlock" => owner[Pool(u)] = u)'
    <3>0. Pool(t) \in Pools /\ owner \in [Pools -> Threads \cup {NoThread}]
      BY <1>0, SpaceFacts DEF ShapeOK
    <3>1. CASE u # t
      <4>1. owner[Pool(u)] = u => owner'[Pool(u)] = u
        <5>1. owner[Pool(u)] = u => Pool(u) # Pool(t)
          BY <1>3
        <5> QED BY <1>3, <3>0, <5>1
      <4>2. /\ ~booting /\ pc[u] \notin Outside => u \in KThreads \cup Procs
            /\ ~booting /\ Inside(u) => call[u].lock
            /\ (Inside(u) /\ call[u].lock) \/ pc[u] = "unlock" => owner[Pool(u)] = u
        BY <1>0 DEF LockOK
      <4> QED BY <1>3, <1>4, <3>1, <4>1, <4>2 DEF Inside
    <3>2. CASE u = t
      <4>1. ~booting => t \in KThreads \cup Procs
        BY <1>0, <2>0 DEF LockOK
      <4>2. owner'[Pool(t)] = t
        BY <1>3, <3>0
      <4> QED BY <1>3, <1>4, <1>5, <3>2, <4>1, <4>2
    <3> QED BY <3>1, <3>2
  <2>3. ((\A u \in Procs : pc[u] = "none") \/ (\A u \in KThreads : pc[u] = "none"))'
    <3>1. \A u \in Procs \cup KThreads : pc[u] = "none" => u # t /\ u \in Threads \ {t}
      BY <1>3
    <3> QED BY <1>0, <1>4, <3>1 DEF LockOK
  <2> QED BY <2>1, <2>2, <2>3 DEF LockOK
<1>8. HasRun(t)' => c.op \in {"stack", "free"}
  BY <1>1, <1>4 DEF HasRun, Working, HasFrame
<1>9. c.op = "stack" => t \in Procs /\ c.va = StackPage /\ c.cnt = 1 /\ held[t] = {} /\ \A v \in Pages(t) : pte[t][v] = NoFrame
  BY <1>0, <1>3, <1>5 DEF CallOK, Fresh
<1>10. c.op = "free" => HasRun(t)
  BY <1>3, <1>5 DEF HasRun
<1>11. CallRun(t)' = CallRun(t) /\ (c.op = "stack" => CallRun(t) = {StackPage})
  <2>1. CallRun(t)' = CallRun(t)
    BY <1>4, <1>5 DEF CallRun
  <2>2. c.op = "stack" => call[t].va = StackPage /\ call[t].cnt = 1 /\ StackPage \in Nat
    BY <1>5, <1>9, SpaceFacts
  <2> QED BY <2>1, <2>2 DEF CallRun
<1>12. CallOK(t)'
  <2>1. x \notin Outside \cup HasFrame \cup {"start", "lock", "unlock", "palloc", "touch", "pfree", "unmap", "vremove"}
    BY <1>1 DEF Outside, HasFrame
  <2>2. c.op = "stack" => c.va + c.cnt - 1 <= NPages(Space(t)) /\ c.va < NPages(Space(t))
    BY <1>5, <1>9, SpaceFacts DEF NPages, Spaces
  <2>3. c.op = "free" => c.va + c.cnt - 1 <= NPages(Space(t))
    BY <1>0, <1>5, <1>10 DEF CallOK
  <2> QED BY <1>1, <1>4, <1>5, <1>8, <1>9, <2>1, <2>2, <2>3 DEF CallOK
<1>13. RunOK(t)'
  <2> SUFFICES ASSUME HasRun(t)', NEW v \in CallRun(t)
               PROVE  pte[Space(t)][v] # NoFrame <=> GotPage(t, v)'
    BY <1>3, <1>11 DEF RunOK
  <2>1. CASE c.op = "stack"
    <3>1. v \in Pages(t) /\ Space(t) = t
      BY <1>9, <1>11, <2>1, SpaceFacts DEF Pages, NPages, Spaces
    <3>2. ~GotPage(t, v)'
      BY <1>1, <1>4, <2>1 DEF GotPage, HasFrame
    <3> QED BY <1>9, <2>1, <3>1, <3>2
  <2>2. CASE c.op = "free"
    <3>1. GotPage(t, v)'
      BY <1>1, <1>4, <2>2 DEF GotPage
    <3>2. GotPage(t, v)
      BY <1>3 DEF GotPage
    <3> QED BY <1>0, <1>10, <2>2, <3>1, <3>2 DEF RunOK
  <2> QED BY <1>8, <2>1, <2>2
<1>14. \A u \in Threads : RunApart(u)'
  <2>1. CASE HasRun(t)' => HasRun(t)
    BY <1>0, <1>1, <1>2, <1>3, <1>5, <2>1, ApartKept
  <2>2. CASE HasRun(t)' /\ ~HasRun(t)
    <3>1. c.op = "stack" /\ t \in Procs /\ Space(t) = t /\ held'[t] = {}
      BY <1>3, <1>8, <1>9, <1>10, <2>2, SpaceFacts
    <3>2. \A u \in Threads : Space(u) = Space(t) => u = t
      BY <3>1, SpaceFacts
    <3>3. RunApart(t)'
      BY <3>1, <3>2 DEF RunApart
    <3>4. ASSUME NEW u \in Threads \ {t} PROVE RunApart(u)'
      <4>1. \A w \in Threads : Space(w) = Space(u) => w # t
        BY <3>2
      <4>2. RunApart(u)
        BY <1>0
      <4>3. \A w \in Threads \ {t} : (HasRun(w)' <=> HasRun(w)) /\ CallRun(w)' = CallRun(w) /\ held'[w] = held[w]
        BY <1>3, <1>4 DEF HasRun, CallRun
      <4> QED BY <4>1, <4>2, <4>3 DEF RunApart
    <3> QED BY <3>3, <3>4
  <2> QED BY <2>1, <2>2
<1>15. FrameOK(t)' /\ Fresh(t)'
  <2>1. pc'[t] \notin HasFrame \cup HasTable \cup {"pfree", "unmap", "none", "start", "lock"}
    BY <1>1, <1>4 DEF HasFrame, HasTable
  <2> QED BY <2>1 DEF FrameOK, Fresh
<1>16. t \in Procs /\ x \notin {"none", "start"} /\ (c.op # "stack" \/ x = "unlock") =>
           pc[t] \notin {"none", "start"} /\ (call[t].op # "stack" \/ pc[t] = "unlock")
  BY <1>1, <1>3, <1>5
<1>17. /\ \A f \in Frames : MarkedBy(t, f)' <=> MarkedBy(t, f)
       /\ \A s \in Spaces : \A v \in Pages(s) : ReturnedBy(t, s, v)' <=> ReturnedBy(t, s, v)
  BY <1>1, <1>3, <1>4 DEF MarkedBy, ReturnedBy, HasFrame, HasTable
<1>18. InWork(t)' = InWork(t)
  <2>1. InWork(t) = {}
    BY <1>3 DEF InWork, HasFrame
  <2>2. InWork(t)' = {}
    BY <1>1, <1>4, <1>5 DEF InWork, HasFrame, Page
  <2> QED BY <2>1, <2>2
<1> QED BY <1>1, <1>2, <1>3, <1>6, <1>7, <1>12, <1>13, <1>14, <1>15, <1>16, <1>17, <1>18, QuietStep

LEMMA UnlockPoolStep ==
  ASSUME IInv, NEW t \in Threads, UnlockPool(t)
  PROVE  IInv'
<1>0. ShapeOK /\ LockOK /\ CallOK(t) /\ \A u \in Threads : RunApart(u)
  BY DEF IInv
<1>1. NoCall \in Calls /\ "idle" \in PCs /\ NoCall.op = "get"
  BY DEF NoCall, Calls, PCs, Outside
<1>2. Moves(t, "idle", NoCall)
  BY DEF Moves, UnlockPool, Goto
<1>3. /\ pc[t] = "unlock" /\ owner[Pool(t)] = t
      /\ owner' = [owner EXCEPT ![Pool(t)] = NoThread] /\ level' = [level EXCEPT ![Pool(t)] = 0]
      /\ run' = run /\ booting' = booting /\ held' = held /\ panic' = panic
      /\ UNCHANGED <<poolVars, held>> /\ pool' = pool /\ vmap' = vmap /\ pte' = pte /\ pde' = pde
  BY DEF UnlockPool, At, Unlock, cpuVars, poolVars
<1>4. /\ pc'[t] = "idle" /\ call'[t] = NoCall
      /\ \A u \in Threads \ {t} : pc'[u] = pc[u] /\ call'[u] = call[u]
      /\ pc' \in [Threads -> PCs] /\ call' \in [Threads -> Calls]
  BY <1>0, <1>1, <1>2, MovesFacts
<1>5. ~Inside(t)' /\ ~HasRun(t)' /\ pc'[t] \in Outside
      /\ pc'[t] \notin HasFrame \cup HasTable \cup {"none", "start", "lock", "unlock", "vaddr"} \cup Working
  BY <1>4 DEF Inside, HasRun, Outside, Working, HasFrame, HasTable
<1>6. ShapeOK'
  <2>1. Pool(t) \in Pools
    BY SpaceFacts
  <2>2. owner' \in [Pools -> Threads \cup {NoThread}] /\ level' \in [Pools -> 0 .. 1]
    BY <1>0, <1>3, <2>1 DEF ShapeOK
  <2>3. pc' \in [Threads -> Working \cup Outside \cup {"lock", "unlock", "vaddr"}]
    BY <1>4 DEF PCs
  <2>4. /\ DOMAIN pool' = Pools /\ \A p \in Pools : pool'[p] \in [0 .. PoolSize(p) -> BOOLEAN]
        /\ DOMAIN vmap' = Spaces /\ \A s \in Spaces : vmap'[s] \in [Pages(s) -> BOOLEAN]
        /\ DOMAIN pte' = Spaces /\ \A s \in Spaces : pte'[s] \in [Pages(s) -> Frames \cup {NoFrame}]
        /\ pde' \in [Procs -> [Tables -> Frames \cup {NoFrame}]]
    BY <1>0, <1>3 DEF ShapeOK
  <2>5. run' \in Threads /\ booting' \in BOOLEAN /\ DOMAIN held' = Threads /\ panic' \in {"none", "full", "count"}
    BY <1>0, <1>3 DEF ShapeOK
  <2> QED BY <1>4, <2>2, <2>3, <2>4, <2>5 DEF ShapeOK
<1>7. LockOK'
  <2>1. (booting => run = Main /\ \A u \in Threads \ {Main} : pc[u] \in Outside)'
    BY <1>0, <1>3, <1>4, <1>5 DEF LockOK
  <2>2. ASSUME NEW u \in Threads
        PROVE  (/\ ~booting /\ pc[u] \notin Outside => u \in KThreads \cup Procs
                /\ ~booting /\ Inside(u) => call[u].lock
                /\ (Inside(u) /\ call[u].lock) \/ pc[u] = "unlock" => owner[Pool(u)] = u)'
    <3>0. Pool(t) \in Pools /\ owner \in [Pools -> Threads \cup {NoThread}] /\ Pool(u) \in Pools
      BY <1>0, SpaceFacts DEF ShapeOK
    <3>1. CASE u # t
      <4>1. owner[Pool(u)] = u => owner'[Pool(u)] = u
        <5>1. owner[Pool(u)] = u => Pool(u) # Pool(t)
          BY <1>3, <3>1
        <5> QED BY <1>3, <3>0, <5>1
      <4>2. /\ ~booting /\ pc[u] \notin Outside => u \in KThreads \cup Procs
            /\ ~booting /\ Inside(u) => call[u].lock
            /\ (Inside(u) /\ call[u].lock) \/ pc[u] = "unlock" => owner[Pool(u)] = u
        BY <1>0 DEF LockOK
      <4> QED BY <1>3, <1>4, <3>1, <4>1, <4>2 DEF Inside
    <3>2. CASE u = t
      BY <1>5, <3>2
    <3> QED BY <3>1, <3>2
  <2>3. ((\A u \in Procs : pc[u] = "none") \/ (\A u \in KThreads : pc[u] = "none"))'
    <3>1. \A u \in Procs \cup KThreads : pc[u] = "none" => u # t /\ u \in Threads \ {t}
      BY <1>3
    <3> QED BY <1>0, <1>4, <3>1 DEF LockOK
  <2> QED BY <2>1, <2>2, <2>3 DEF LockOK
<1>8. CallOK(t)'
  BY <1>1, <1>4, <1>5 DEF CallOK, Working
<1>9. RunOK(t)' /\ FrameOK(t)' /\ Fresh(t)'
  BY <1>5 DEF RunOK, FrameOK, Fresh, Working
<1>10. \A u \in Threads : RunApart(u)'
  BY <1>0, <1>1, <1>2, <1>3, <1>5, ApartKept
<1>11. t \in Procs => pc[t] \notin {"none", "start"} /\ (call[t].op # "stack" \/ pc[t] = "unlock")
  BY <1>3
<1>12. /\ \A f \in Frames : MarkedBy(t, f)' <=> MarkedBy(t, f)
       /\ \A s \in Spaces : \A v \in Pages(s) : ReturnedBy(t, s, v)' <=> ReturnedBy(t, s, v)
  BY <1>3, <1>4 DEF MarkedBy, ReturnedBy, HasFrame, HasTable
<1>13. InWork(t)' = InWork(t)
  <2>1. InWork(t) = {}
    BY <1>3 DEF InWork, HasFrame
  <2>2. InWork(t)' = {}
    BY <1>4 DEF InWork, HasFrame
  <2> QED BY <2>1, <2>2
<1> QED BY <1>1, <1>2, <1>3, <1>6, <1>7, <1>8, <1>9, <1>10, <1>11, <1>12, <1>13, QuietStep

-----------------------------------------------------------------------------
(* Steps that leave all calls alone: a full bitmap, and the processor.     *)

LEMMA CallsStay ==
  ASSUME IInv, UNCHANGED <<owner, level, poolVars, held, pc, call>>,
         run' \in Threads, booting' \in BOOLEAN, panic' \in {"none", "full", "count"}, LockOK'
  PROVE  IInv'
<1>1. /\ pool' = pool /\ vmap' = vmap /\ pte' = pte /\ pde' = pde /\ held' = held
      /\ pc' = pc /\ call' = call /\ owner' = owner /\ level' = level
  BY DEF poolVars
<1>2. ShapeOK'
  <2>0. ShapeOK
    BY DEF IInv
  <2>1. owner' \in [Pools -> Threads \cup {NoThread}] /\ level' \in [Pools -> 0 .. 1]
    BY <1>1, <2>0 DEF ShapeOK
  <2>2. /\ DOMAIN pool' = Pools /\ \A p \in Pools : pool'[p] \in [0 .. PoolSize(p) -> BOOLEAN]
        /\ DOMAIN vmap' = Spaces /\ \A s \in Spaces : vmap'[s] \in [Pages(s) -> BOOLEAN]
        /\ DOMAIN pte' = Spaces /\ \A s \in Spaces : pte'[s] \in [Pages(s) -> Frames \cup {NoFrame}]
        /\ pde' \in [Procs -> [Tables -> Frames \cup {NoFrame}]]
    BY <1>1, <2>0 DEF ShapeOK
  <2>3. pc' \in [Threads -> Working \cup Outside \cup {"lock", "unlock", "vaddr"}] /\ call' \in [Threads -> Calls]
        /\ DOMAIN held' = Threads
    BY <1>1, <2>0 DEF ShapeOK
  <2> QED BY <2>1, <2>2, <2>3 DEF ShapeOK
<1>3. ASSUME NEW t \in Threads PROVE CallOK(t)' /\ RunOK(t)' /\ RunApart(t)' /\ FrameOK(t)' /\ Fresh(t)'
  <2>1. CallOK(t) /\ RunOK(t) /\ RunApart(t) /\ FrameOK(t) /\ Fresh(t)
    BY DEF IInv
  <2>2. CallOK(t)'
    BY <1>1, <2>1 DEF CallOK, Inside, HasRun
  <2>3. RunOK(t)' /\ RunApart(t)'
    BY <1>1, <2>1 DEF RunOK, RunApart, HasRun, CallRun, GotPage, Page
  <2>4. FrameOK(t)' /\ Fresh(t)'
    BY <1>1, <2>1 DEF FrameOK, Fresh, Unused, NoTable, Page
  <2> QED BY <2>2, <2>3, <2>4
<1>4. FramesApart' /\ HeldOK' /\ HeldApart'
  <2>1. FramesApart /\ HeldOK /\ HeldApart
    BY DEF IInv
  <2> QED BY <1>1, <2>1 DEF FramesApart, HeldOK, HeldApart
<1>5. FramesAccounted' /\ PagesAccounted'
  <2>1. FramesAccounted /\ PagesAccounted
    BY DEF IInv
  <2>2. FramesAccounted'
    BY <1>1, <2>1 DEF FramesAccounted, Marked, MarkedBy, Returned, ReturnedBy, Page
  <2>3. PagesAccounted'
    <3>1. \A t \in Threads : InWork(t)' = InWork(t)
      BY <1>1 DEF InWork, Page
    <3> QED BY <1>1, <2>1, <3>1 DEF PagesAccounted
  <2> QED BY <2>2, <2>3
<1> QED BY <1>2, <1>3, <1>4, <1>5 DEF IInv

LEMMA FullStep ==
  ASSUME IInv, UNCHANGED <<cpuVars, owner, level, poolVars, held, pc, call>>, panic' \in {"none", "full", "count"}
  PROVE  IInv'
<1>1. run' = run /\ booting' = booting /\ pc' = pc /\ call' = call /\ owner' = owner
  BY DEF cpuVars
<1>2. run \in Threads /\ booting \in BOOLEAN /\ LockOK
  BY DEF IInv, ShapeOK
<1>3. LockOK'
  BY <1>1, <1>2 DEF LockOK, Inside
<1> QED BY <1>1, <1>2, <1>3, CallsStay

LEMMA SwitchStep ==
  ASSUME IInv, NEW t \in Threads, Switch(t)
  PROVE  IInv'
<1>1. run' = t /\ booting' = booting /\ ~booting /\ pc' = pc /\ call' = call /\ owner' = owner /\ panic' = panic
  BY DEF Switch
<1>2. panic \in {"none", "full", "count"} /\ booting \in BOOLEAN /\ LockOK
  BY DEF IInv, ShapeOK
<1>3. LockOK'
  BY <1>1, <1>2 DEF LockOK, Inside
<1> QED BY <1>1, <1>2, <1>3, CallsStay DEF Switch

LEMMA IntrEnableStep ==
  ASSUME IInv, IntrEnable
  PROVE  IInv'
<1>1. run' = run /\ booting' = FALSE /\ booting /\ pc' = pc /\ call' = call /\ owner' = owner /\ panic' = panic
      /\ pc[Main] = "idle"
  BY DEF IntrEnable, At
<1>2. panic \in {"none", "full", "count"} /\ run \in Threads /\ LockOK
  BY DEF IInv, ShapeOK
<1>3. \A u \in Threads : pc[u] \in Outside
  BY <1>1, <1>2 DEF LockOK, Outside
<1>4. \A u \in Threads : ~Inside(u) /\ pc[u] # "unlock"
  BY <1>3 DEF Outside, Inside, Working, HasFrame
<1>5. LockOK'
  <2>1. \A u \in Threads : ~Inside(u)'
    BY <1>1, <1>4 DEF Inside
  <2> QED BY <1>1, <1>2, <1>3, <1>4, <2>1 DEF LockOK
<1> QED BY <1>1, <1>2, <1>5, CallsStay DEF IntrEnable

-----------------------------------------------------------------------------
(* Steps inside a call.                                                    *)

LEMMA SetN ==
  ASSUME NEW d \in Calls, NEW n \in Nat
  PROVE  LET c == [d EXCEPT !.n = n] IN
           c \in Calls /\ c.op = d.op /\ (c.lock <=> d.lock) /\ c.lock = d.lock /\ c.va = d.va /\ c.cnt = d.cnt /\ c.n = n
           /\ c.frame = d.frame /\ c.table = d.table
BY DEF Calls

LEMMA SetFrame ==
  ASSUME NEW d \in Calls, NEW f \in Frames \cup {NoFrame}
  PROVE  LET c == [d EXCEPT !.frame = f] IN
           c \in Calls /\ c.op = d.op /\ c.lock = d.lock /\ c.va = d.va /\ c.cnt = d.cnt /\ c.n = d.n
           /\ c.frame = f /\ c.table = d.table
BY DEF Calls

LEMMA SetTableFrame ==
  ASSUME NEW d \in Calls, NEW f \in Frames \cup {NoFrame}
  PROVE  LET c == [d EXCEPT !.table = f] IN
           c \in Calls /\ c.op = d.op /\ c.lock = d.lock /\ c.va = d.va /\ c.cnt = d.cnt /\ c.n = d.n
           /\ c.frame = d.frame /\ c.table = f
BY DEF Calls

\* A call that returns says nothing of frames and pages any more.
LEMMA ReturnFacts ==
  ASSUME ShapeOK, LockOK, NEW t \in Threads, CallOK(t), Inside(t), Return(t), UNCHANGED <<cpuVars, owner>>
  PROVE  \E x \in {"unlock", "idle"} : \E c \in Calls :
           /\ x \in PCs /\ Moves(t, x, c) /\ c.op = call[t].op /\ (c.op = "stack" => x = "unlock")
           /\ pc'[t] = x /\ call'[t] = c
           /\ LockOK' /\ CallOK(t)' /\ ~HasRun(t)' /\ RunOK(t)' /\ FrameOK(t)' /\ Fresh(t)'
           /\ \A f \in Frames : ~MarkedBy(t, f)'
           /\ \A s \in Spaces : \A v \in Pages(s) : ~ReturnedBy(t, s, v)'
           /\ InWork(t)' = {}
<1> DEFINE x == IF call[t].lock THEN "unlock" ELSE "idle"
           c == [NoCall EXCEPT !.op = call[t].op]
<1>1. c \in Calls /\ c.op = call[t].op
  <2>1. NoCall \in Calls /\ call[t].op \in {"get", "stack", "free"}
    BY DEF NoCall, Calls, ShapeOK
  <2> QED BY <2>1 DEF Calls
<1>2. x \in {"unlock", "idle"} /\ (x = "unlock" => call[t].lock) /\ (x = "idle" => ~call[t].lock) /\ x \in PCs
  <2>1. CASE call[t].lock
    BY <2>1 DEF PCs
  <2>2. CASE ~call[t].lock
    BY <2>2 DEF PCs, Outside
  <2> QED BY <2>1, <2>2
<1>3. Moves(t, x, c)
  BY DEF Moves, Return, Goto
<1> HIDE DEF x, c
<1>4. pc'[t] = x /\ call'[t] = c
  BY <1>1, <1>2, <1>3, MovesFacts
<1>5. c.op = "stack" \/ c.op = "free" => x = "unlock"
  BY <1>1, <1>2 DEF CallOK
<1>6. LockOK'
  BY <1>1, <1>2, <1>3, LockKept
<1>7. x \notin Working \cup HasFrame \cup HasTable \cup {"none", "start", "lock", "vaddr", "mark", "palloc", "touch", "header", "pfree", "unmap", "vremove"}
  BY <1>2 DEF Working, HasFrame, HasTable
<1>8. ~Inside(t)' /\ ~HasRun(t)'
  BY <1>4, <1>7 DEF Inside, HasRun
<1>9. CallOK(t)'
  <2>1. x = "idle" => c.op = "get"
    <3>1. call[t].op \in {"get", "stack", "free"}
      BY DEF ShapeOK, Calls
    <3> QED BY <1>1, <1>5, <3>1
  <2>2. c.op = "stack" => t \in Procs
    BY <1>1 DEF CallOK
  <2>3. x \in Outside => x = "idle"
    BY <1>2 DEF Outside
  <2> QED BY <1>4, <1>5, <1>7, <1>8, <2>1, <2>2, <2>3 DEF CallOK
<1>10. RunOK(t)' /\ FrameOK(t)' /\ Fresh(t)'
  BY <1>4, <1>7, <1>8 DEF RunOK, FrameOK, Fresh
<1>11. /\ \A f \in Frames : ~MarkedBy(t, f)'
       /\ \A s \in Spaces : \A v \in Pages(s) : ~ReturnedBy(t, s, v)'
       /\ InWork(t)' = {}
  BY <1>4, <1>7 DEF MarkedBy, ReturnedBy, InWork
<1> QED BY <1>1, <1>2, <1>3, <1>4, <1>5, <1>6, <1>8, <1>9, <1>10, <1>11

\* What is true of a thread that is in a call.
LEMMA InCall ==
  ASSUME IInv, NEW t \in Threads, Inside(t)
  PROVE  /\ ShapeOK /\ LockOK /\ CallOK(t) /\ RunOK(t) /\ FrameOK(t) /\ HeldOK /\ HeldApart
         /\ FramesApart /\ FramesAccounted /\ PagesAccounted /\ \A u \in Threads : RunApart(u)
         /\ Alone(t) /\ FramesOf(t) /\ PagesOf(t)
         /\ call[t] \in Calls /\ call[t].va \in Nat /\ call[t].n \in Nat /\ call[t].cnt \in Nat \ {0}
         /\ call[t].n < call[t].cnt /\ Page(t) \in Nat
         /\ (HasRun(t) => Page(t) \in CallRun(t) /\ CallRun(t) \subseteq Pages(Space(t)))
<1>1. /\ ShapeOK /\ LockOK /\ CallOK(t) /\ RunOK(t) /\ FrameOK(t) /\ HeldOK /\ HeldApart
      /\ FramesApart /\ FramesAccounted /\ PagesAccounted /\ \A u \in Threads : RunApart(u)
  BY DEF IInv
<1>2. Alone(t)
  BY <1>1, OneInside
<1>3. FramesOf(t) /\ PagesOf(t)
  BY <1>1, <1>2, AccountsOf
<1>4. call[t] \in Calls /\ call[t].va \in Nat /\ call[t].n \in Nat /\ call[t].cnt \in Nat
  BY <1>1 DEF ShapeOK, Calls
<1>5. call[t].cnt > 0 /\ call[t].n < call[t].cnt
  BY <1>1 DEF CallOK
<1>6. HasRun(t) => Page(t) \in CallRun(t) /\ CallRun(t) \subseteq Pages(Space(t))
  <2> SUFFICES ASSUME HasRun(t) PROVE Page(t) \in CallRun(t) /\ CallRun(t) \subseteq Pages(Space(t))
    OBVIOUS
  <2>1. call[t].va + call[t].cnt - 1 <= NPages(Space(t)) /\ NPages(Space(t)) \in Nat
    BY <1>1, SpaceFacts DEF CallOK
  <2> QED BY <1>4, <1>5, <2>1 DEF Page, CallRun, Pages
<1> QED BY <1>1, <1>2, <1>3, <1>4, <1>5, <1>6 DEF Page

LEMMA ReadHeaderStep ==
  ASSUME IInv, NEW t \in Threads, ReadHeader(t)
  PROVE  IInv'
<1> DEFINE f == pte[Space(t)][call[t].va]
           c == [call[t] EXCEPT !.frame = f]
<1>1. pc[t] = "header" /\ Inside(t) /\ HasRun(t)
  BY DEF ReadHeader, At, Inside, HasRun, Working
<1>2. /\ ShapeOK /\ LockOK /\ CallOK(t) /\ RunOK(t) /\ FramesApart /\ \A u \in Threads : RunApart(u)
      /\ call[t] \in Calls /\ call[t].va \in Nat /\ call[t].cnt \in Nat \ {0} /\ call[t].n = 0
      /\ Page(t) \in CallRun(t) /\ CallRun(t) \subseteq Pages(Space(t)) /\ Page(t) = call[t].va
      /\ call[t].op = "free"
  BY <1>1, InCall DEF CallOK, Page
<1>3. f # NoFrame
  BY <1>1, <1>2 DEF RunOK, GotPage
<1>4. f \in Frames \cup {NoFrame} /\ PoolOf(f) = Pool(t)
  <2>1. Space(t) \in Spaces /\ call[t].va \in Pages(Space(t)) /\ (Space(t) = Kernel <=> t \notin Procs)
    BY <1>2, SpaceFacts DEF Space
  <2>2. pte[Space(t)] \in [Pages(Space(t)) -> Frames \cup {NoFrame}]
    BY <1>2, <2>1 DEF ShapeOK
  <2>3. PoolOf(f) = IF Space(t) = Kernel THEN "kernel" ELSE "user"
    BY <1>2, <1>3, <2>1 DEF FramesApart
  <2> QED BY <2>1, <2>2, <2>3 DEF Pool
<1>5. c \in Calls /\ c.op = call[t].op /\ c.lock = call[t].lock /\ c.va = call[t].va /\ c.cnt = call[t].cnt /\ c.n = call[t].n
      /\ c.frame = f
  <2> HIDE DEF f
  <2> QED BY <1>2, <1>4, SetFrame
<1>6. Moves(t, "pfree", c) /\ "pfree" \in PCs
  BY DEF Moves, ReadHeader, Goto, PCs, Working
<1>7. /\ UNCHANGED <<poolVars, held>> /\ run' = run /\ booting' = booting /\ UNCHANGED <<owner, level, poolVars>>
      /\ held' = held /\ panic' = panic /\ pte' = pte /\ pde' = pde /\ UNCHANGED <<cpuVars, owner>>
  BY DEF ReadHeader, cpuVars, poolVars
<1> HIDE DEF c, f
<1>8. pc'[t] = "pfree" /\ call'[t] = c
  BY <1>2, <1>5, <1>6, MovesFacts
<1>9. ShapeOK'
  <2>1. DOMAIN held' = Threads /\ panic' \in {"none", "full", "count"}
    BY <1>2, <1>7 DEF ShapeOK
  <2> QED BY <1>2, <1>5, <1>6, <1>7, <2>1, QuietShape
<1>10. LockOK'
  <2>1. "pfree" \in Working
    BY DEF Working
  <2> QED BY <1>1, <1>2, <1>5, <1>6, <1>7, <2>1, LockKept
<1>11. CallOK(t)'
  <2>1. "pfree" \notin Outside \cup HasFrame
    BY DEF Outside, HasFrame
  <2>2. call[t].va + call[t].cnt - 1 <= NPages(Space(t))
    BY <1>1, <1>2 DEF CallOK
  <2>3. c.lock
    BY <1>1, <1>2, <1>5 DEF CallOK
  <2> QED BY <1>2, <1>5, <1>8, <2>1, <2>2, <2>3 DEF CallOK
<1>12. CallRun(t)' = CallRun(t)
  BY <1>5, <1>8 DEF CallRun
<1>13. RunOK(t)'
  <2>1. \A v \in CallRun(t) : GotPage(t, v)' /\ GotPage(t, v)
    BY <1>1, <1>2, <1>5, <1>8 DEF GotPage, CallRun, Page
  <2> QED BY <1>1, <1>2, <1>7, <1>12, <2>1 DEF RunOK
<1>14. \A u \in Threads : RunApart(u)'
  BY <1>1, <1>2, <1>5, <1>6, <1>7, ApartKept
<1>15. FrameOK(t)' /\ Fresh(t)'
  BY <1>4, <1>5, <1>8 DEF FrameOK, Fresh, HasFrame, HasTable
<1>16. t \in Procs => pc[t] \notin {"none", "start"} /\ (call[t].op # "stack" \/ pc[t] = "unlock")
  BY <1>1, <1>2
<1>17. /\ \A g \in Frames : MarkedBy(t, g)' <=> MarkedBy(t, g)
       /\ \A s \in Spaces : \A v \in Pages(s) : ReturnedBy(t, s, v)' <=> ReturnedBy(t, s, v)
  BY <1>1, <1>8 DEF MarkedBy, ReturnedBy, HasFrame, HasTable
<1>18. InWork(t)' = InWork(t)
  <2>1. InWork(t) = {}
    BY <1>1 DEF InWork, HasFrame
  <2>2. InWork(t)' = {}
    BY <1>2, <1>5, <1>8 DEF InWork, HasFrame, Page
  <2> QED BY <2>1, <2>2
<1> QED BY <1>5, <1>6, <1>7, <1>9, <1>10, <1>11, <1>13, <1>14, <1>15, <1>16, <1>17, <1>18, QuietStep

LEMMA MallocStopsStep ==
  ASSUME IInv, NEW t \in Threads, MallocStops(t)
  PROVE  IInv'
<1>1. UNCHANGED <<cpuVars, owner, level, poolVars, held, pc, call>> /\ panic' = "count"
  BY DEF MallocStops
<1> QED BY <1>1, FullStep

LEMMA VaddrGetStep ==
  ASSUME IInv, NEW t \in Threads, VaddrGet(t)
  PROVE  IInv'
<1> DEFINE S == Space(t)
           m == vmap[Space(t)]
           s == FirstRun(vmap[Space(t)], NPages(Space(t)), call[t].cnt)
<1>1. pc[t] = "vaddr" /\ Inside(t)
  BY DEF VaddrGet, At, Inside
<1>2. /\ ShapeOK /\ LockOK /\ CallOK(t) /\ PagesOf(t) /\ Alone(t) /\ HeldApart /\ HeldOK
      /\ \A u \in Threads : RunApart(u)
      /\ call[t] \in Calls /\ call[t].va \in Nat /\ call[t].cnt \in Nat \ {0} /\ call[t].n = 0
      /\ call[t].op = "get"
  BY <1>1, InCall DEF CallOK
<1>3. UNCHANGED <<cpuVars, owner, level, poolVars, held>>
  BY DEF VaddrGet
<1>4. CASE panic' = "full" /\ UNCHANGED <<pc, call>>
  BY <1>3, <1>4, FullStep
<1>5. CASE UNCHANGED panic /\ Return(t)
  <2>0. UNCHANGED <<cpuVars, owner>> /\ run' = run /\ booting' = booting /\ UNCHANGED <<poolVars, held>>
        /\ UNCHANGED <<owner, level, poolVars>> /\ held' = held
    BY <1>3 DEF cpuVars
  <2>1. PICK x \in {"unlock", "idle"}, c \in Calls :
           /\ x \in PCs /\ Moves(t, x, c) /\ c.op = call[t].op
           /\ LockOK' /\ CallOK(t)' /\ ~HasRun(t)' /\ RunOK(t)' /\ FrameOK(t)' /\ Fresh(t)'
           /\ \A f \in Frames : ~MarkedBy(t, f)'
           /\ \A r \in Spaces : \A v \in Pages(r) : ~ReturnedBy(t, r, v)'
           /\ InWork(t)' = {}
    BY <1>1, <1>2, <1>5, <2>0, ReturnFacts
  <2>2. ShapeOK'
    <3>1. DOMAIN held' = Threads /\ panic' \in {"none", "full", "count"}
      BY <1>2, <1>5, <2>0 DEF ShapeOK
    <3> QED BY <1>2, <2>0, <2>1, <3>1, QuietShape
  <2>3. \A u \in Threads : RunApart(u)'
    BY <1>2, <2>0, <2>1, ApartKept
  <2>4. /\ \A f \in Frames : MarkedBy(t, f)' <=> MarkedBy(t, f)
        /\ \A r \in Spaces : \A v \in Pages(r) : ReturnedBy(t, r, v)' <=> ReturnedBy(t, r, v)
    BY <1>1, <2>1 DEF MarkedBy, ReturnedBy, HasFrame, HasTable
  <2>5. InWork(t)' = InWork(t)
    BY <1>1, <2>1 DEF InWork, HasFrame
  <2>6. t \in Procs => pc[t] \notin {"none", "start"} /\ call[t].op # "stack"
    BY <1>1, <1>2
  <2> QED BY <2>0, <2>1, <2>2, <2>3, <2>4, <2>5, <2>6, QuietStep
<1>6. CASE UNCHANGED panic /\ s # -1 /\ call' = [call EXCEPT ![t].va = s] /\ Goto(t, "mark")
  <2> DEFINE c == [call[t] EXCEPT !.va = s]
  <2>1. /\ s \in 0 .. NPages(S) - 1 /\ s + call[t].cnt - 1 <= NPages(S)
        /\ \A i \in s .. s + call[t].cnt - 1 : ~m[i]
    BY <1>2, <1>6, ScanRun, SpaceFacts
  <2>2. s \in Nat /\ NPages(S) \in Nat /\ S \in Spaces
    BY <2>1, SpaceFacts
  <2>0. UNCHANGED <<cpuVars, owner>> /\ run' = run /\ booting' = booting /\ UNCHANGED <<poolVars, held>>
        /\ UNCHANGED <<owner, level, poolVars>> /\ held' = held /\ pte' = pte /\ pde' = pde
    BY <1>3 DEF cpuVars, poolVars
  <2>3. Moves(t, "mark", c) /\ "mark" \in PCs
    BY <1>6 DEF Moves, Goto, PCs, Working
  <2> HIDE DEF s, m, S
  <2>4. c \in Calls /\ c.op = "get" /\ c.lock = call[t].lock /\ c.va = s /\ c.cnt = call[t].cnt /\ c.n = 0
    BY <1>2, <2>2, SetVa
  <2> HIDE DEF c
  <2>5. pc'[t] = "mark" /\ call'[t] = c /\ \A u \in Threads \ {t} : pc'[u] = pc[u] /\ call'[u] = call[u]
    BY <1>2, <2>3, <2>4, MovesFacts
  <2>6. ShapeOK'
    <3>1. DOMAIN held' = Threads /\ panic' \in {"none", "full", "count"}
      BY <1>2, <1>6, <2>0 DEF ShapeOK
    <3> QED BY <1>2, <2>0, <2>3, <2>4, <3>1, QuietShape
  <2>7. LockOK'
    <3>1. "mark" \in Working
      BY DEF Working
    <3> QED BY <1>1, <1>2, <2>0, <2>3, <2>4, <3>1, LockKept
  <2>8. CallOK(t)'
    <3>1. "mark" \notin Outside \cup HasFrame
      BY DEF Outside, HasFrame
    <3> QED BY <1>2, <2>1, <2>2, <2>4, <2>5, <3>1 DEF CallOK, S
  <2>9. CallRun(t)' = s .. s + call[t].cnt - 1
    BY <2>4, <2>5 DEF CallRun
  <2>10. \A v \in CallRun(t)' : v \in Pages(S) /\ pte[S][v] = NoFrame
    <3> SUFFICES ASSUME NEW v \in CallRun(t)' PROVE v \in Pages(S) /\ pte[S][v] = NoFrame
      OBVIOUS
    <3>1. v \in s .. s + call[t].cnt - 1
      BY <2>9
    <3>2. v \in Pages(S)
      BY <1>2, <2>1, <2>2, <3>1 DEF Pages
    <3>3. ~vmap[S][v]
      BY <2>1, <3>1 DEF m, S
    <3> QED BY <1>2, <2>2, <3>2, <3>3 DEF PagesOf
  <2>11. RunOK(t)'
    <3>1. \A v \in CallRun(t)' : ~GotPage(t, v)'
      BY <2>5 DEF GotPage, HasFrame
    <3> QED BY <2>0, <2>10, <3>1 DEF RunOK, S
  <2>12. ASSUME NEW u \in Threads, Space(u) = S
         PROVE  /\ \A q \in held[u] : Run(q) \cap CallRun(t)' = {}
                /\ u # t /\ HasRun(u) => CallRun(u) \cap CallRun(t)' = {}
    <3>1. \A q \in held[u] : \A v \in Run(q) : pte[S][v] # NoFrame
      BY <1>2, <2>12 DEF HeldApart
    <3>2. u # t /\ HasRun(u) => \A v \in CallRun(u) : pte[S][v] # NoFrame
      <4> SUFFICES ASSUME u # t, HasRun(u), NEW v \in CallRun(u) PROVE pte[S][v] # NoFrame
        OBVIOUS
      <4>1. pc[u] = "lock"
        BY <1>2, PcFacts DEF Alone
      <4>2. RunOK(u)
        BY DEF IInv
      <4> QED BY <2>12, <4>1, <4>2 DEF RunOK, GotPage
    <3> QED BY <2>10, <3>1, <3>2
  <2>13. \A u \in Threads : RunApart(u)'
    <3>0. \A u \in Threads \ {t} : (HasRun(u)' <=> HasRun(u)) /\ CallRun(u)' = CallRun(u)
      BY <2>5 DEF HasRun, CallRun
    <3>1. RunApart(t)'
      BY <2>0, <2>12, <3>0 DEF RunApart, S
    <3>2. ASSUME NEW u \in Threads \ {t} PROVE RunApart(u)'
      <4> SUFFICES ASSUME HasRun(u), NEW w \in Threads, Space(w) = Space(u)
                   PROVE  /\ \A q \in held[w] : Run(q) \cap CallRun(u) = {}
                          /\ w # u /\ HasRun(w)' => CallRun(w)' \cap CallRun(u) = {}
        BY <2>0, <3>0 DEF RunApart
      <4>1. \A q \in held[w] : Run(q) \cap CallRun(u) = {}
        BY <1>2 DEF RunApart
      <4>2. CASE w = t
        BY <2>12, <4>1, <4>2 DEF S
      <4>3. CASE w # t
        BY <1>2, <3>0, <4>1, <4>3 DEF RunApart
      <4> QED BY <4>2, <4>3
    <3> QED BY <3>1, <3>2
  <2>14. FrameOK(t)' /\ Fresh(t)'
    BY <2>5 DEF FrameOK, Fresh, HasFrame, HasTable
  <2>15. /\ \A f \in Frames : MarkedBy(t, f)' <=> MarkedBy(t, f)
         /\ \A r \in Spaces : \A v \in Pages(r) : ReturnedBy(t, r, v)' <=> ReturnedBy(t, r, v)
    BY <1>1, <2>5 DEF MarkedBy, ReturnedBy, HasFrame, HasTable
  <2>16. InWork(t)' = InWork(t)
    <3>1. InWork(t) = {}
      BY <1>1 DEF InWork, HasFrame
    <3>2. InWork(t)' = {}
      BY <2>2, <2>4, <2>5 DEF InWork, HasFrame, Page
    <3> QED BY <3>1, <3>2
  <2>17. t \in Procs => pc[t] \notin {"none", "start"} /\ call[t].op # "stack"
    BY <1>1, <1>2
  <2> QED BY <2>0, <2>3, <2>4, <2>6, <2>7, <2>8, <2>11, <2>13, <2>14, <2>15, <2>16, <2>17, QuietStep
<1>7. \/ panic' = "full" /\ UNCHANGED <<pc, call>>
      \/ UNCHANGED panic /\ Return(t)
      \/ UNCHANGED panic /\ s # -1 /\ call' = [call EXCEPT ![t].va = s] /\ Goto(t, "mark")
  BY DEF VaddrGet
<1> QED BY <1>4, <1>5, <1>6, <1>7

\* The frame that palloc's scan finds is one that nothing uses.
LEMMA ScanFree ==
  ASSUME NEW t \in Threads, FramesOf(t), \A s \in Spaces : \A v \in Pages(s) : ~ReturnedBy(t, s, v),
         NEW p \in Pools, ~ScanPanics(pool[p], PoolSize(p)),
         NEW f, f = PoolStart(p) + FirstRun(pool[p], PoolSize(p), 1)
  PROVE  Unused(f) /\ PoolOf(f) = p /\ ~MarkedBy(t, f)
<1> DEFINE i == FirstRun(pool[p], PoolSize(p), 1)
<1>1. PoolSize(p) \in Nat
  BY DEF PoolSize, Pools
<1>2. i \in 0 .. PoolSize(p) - 1 /\ ~pool[p][i]
  BY <1>1, ScanOne
<1> HIDE DEF i
<1>3. f = PoolStart(p) + i
  BY DEF i
<1>4. f \in Frames /\ PoolOf(f) = p /\ f - PoolStart(p) = i
  <2>1. i \in 0 .. PoolSize(p) - 1
    BY <1>2
  <2>2. PoolStart(p) + i \in Frames /\ PoolOf(PoolStart(p) + i) = p /\ PoolStart(p) + i - PoolStart(p) = i
    BY <2>1, FrameOfBit
  <2>3. f \in Frames /\ PoolOf(f) = p
    BY <1>3, <2>2
  <2>4. PoolStart(p) \in Nat /\ i \in Nat
    BY <2>1 DEF PoolStart, Pools
  <2> QED BY <1>3, <2>3, <2>4
<1>5. ~pool[PoolOf(f)][f - PoolStart(PoolOf(f))]
  BY <1>2, <1>4
<1> QED BY <1>4, <1>5 DEF FramesOf, Unused

LEMMA PallocStep ==
  ASSUME IInv, NEW t \in Threads, Palloc(t)
  PROVE  IInv'
<1>0. PICK f : f = PoolStart(Pool(t)) + FirstRun(pool[Pool(t)], PoolSize(Pool(t)), 1)
  OBVIOUS
<1> DEFINE c == [call[t] EXCEPT !.frame = f]
<1>1. pc[t] = "palloc" /\ Inside(t) /\ HasRun(t)
  BY DEF Palloc, At, Inside, HasRun, Working
<1>2. /\ ShapeOK /\ LockOK /\ CallOK(t) /\ RunOK(t) /\ FramesOf(t) /\ \A u \in Threads : RunApart(u)
      /\ call[t] \in Calls
  BY <1>1, InCall
<1>3. UNCHANGED <<cpuVars, owner, level, poolVars, held>> /\ UNCHANGED <<cpuVars, owner>>
      /\ run' = run /\ booting' = booting /\ UNCHANGED <<poolVars, held>>
      /\ UNCHANGED <<owner, level, poolVars>> /\ held' = held /\ pte' = pte /\ pde' = pde
  BY DEF Palloc, Scan, cpuVars, poolVars
<1>4. CASE ScanPanics(pool[Pool(t)], PoolSize(Pool(t)))
  BY <1>3, <1>4, FullStep DEF Palloc, Scan
<1>5. CASE ~ScanPanics(pool[Pool(t)], PoolSize(Pool(t)))
  <2>1. panic' = panic /\ call' = [call EXCEPT ![t]["frame"] = f] /\ Goto(t, "take")
    BY <1>0, <1>5 DEF Palloc, Scan
  <2>2. Moves(t, "take", c) /\ "take" \in PCs
    BY <2>1 DEF Moves, Goto, PCs, Working, HasFrame
  <2>3. \A s \in Spaces : \A v \in Pages(s) : ~ReturnedBy(t, s, v)
    BY <1>1 DEF ReturnedBy
  <2>4. Unused(f) /\ PoolOf(f) = Pool(t)
    BY <1>0, <1>2, <1>5, <2>3, ScanFree, SpaceFacts
  <2>5. c \in Calls /\ c.op = call[t].op /\ c.lock = call[t].lock /\ c.va = call[t].va /\ c.cnt = call[t].cnt
        /\ c.n = call[t].n /\ c.frame = f
    BY <1>2, <2>4, SetFrame DEF Unused
  <2> HIDE DEF c
  <2>6. pc'[t] = "take" /\ call'[t] = c
    BY <1>2, <2>2, <2>5, MovesFacts
  <2>7. ShapeOK'
    <3>1. DOMAIN held' = Threads /\ panic' \in {"none", "full", "count"}
      BY <1>2, <1>3, <2>1 DEF ShapeOK
    <3> QED BY <1>2, <1>3, <2>2, <2>5, <3>1, QuietShape
  <2>8. LockOK'
    <3>1. "take" \in Working
      BY DEF Working, HasFrame
    <3> QED BY <1>1, <1>2, <1>3, <2>2, <2>5, <3>1, LockKept
  <2>9. CallOK(t)'
    <3>1. "take" \in HasFrame /\ "take" \notin Outside
      BY DEF Outside, HasFrame
    <3> QED BY <1>1, <1>2, <2>5, <2>6, <3>1 DEF CallOK, Inside, HasRun
  <2>10. CallRun(t)' = CallRun(t)
    BY <2>5, <2>6 DEF CallRun
  <2>11. RunOK(t)'
    <3>1. \A v \in CallRun(t) : GotPage(t, v)' <=> GotPage(t, v)
      BY <1>1, <2>5, <2>6 DEF GotPage, HasFrame, Page
    <3> QED BY <1>1, <1>2, <1>3, <2>10, <3>1 DEF RunOK
  <2>12. \A u \in Threads : RunApart(u)'
    BY <1>1, <1>2, <1>3, <2>2, <2>5, ApartKept
  <2>13. FrameOK(t)' /\ Fresh(t)'
    <3>1. Unused(f)'
      BY <1>3, <2>4 DEF Unused
    <3>2. call'[t].frame = f
      BY <2>5, <2>6
    <3> QED BY <2>4, <2>6, <3>1, <3>2 DEF FrameOK, Fresh, HasFrame, HasTable
  <2>14. /\ \A g \in Frames : MarkedBy(t, g)' <=> MarkedBy(t, g)
         /\ \A s \in Spaces : \A v \in Pages(s) : ReturnedBy(t, s, v)' <=> ReturnedBy(t, s, v)
    BY <1>1, <2>6 DEF MarkedBy, ReturnedBy, HasFrame, HasTable
  <2>15. InWork(t)' = InWork(t)
    BY <1>1, <2>5, <2>6 DEF InWork, HasFrame, Page
  <2>16. t \in Procs /\ c.op # "stack" => pc[t] \notin {"none", "start"} /\ call[t].op # "stack"
    BY <1>1, <2>5
  <2> QED BY <1>3, <2>2, <2>5, <2>7, <2>8, <2>9, <2>11, <2>12, <2>13, <2>14, <2>15, <2>16, QuietStep
<1> QED BY <1>4, <1>5

LEMMA PallocTableStep ==
  ASSUME IInv, NEW t \in Threads, PallocTable(t)
  PROVE  IInv'
<1>0. PICK f : f = PoolStart("kernel") + FirstRun(pool["kernel"], PoolSize("kernel"), 1)
  OBVIOUS
<1> DEFINE c == [call[t] EXCEPT !.table = f]
<1>1. pc[t] = "map" /\ Inside(t) /\ HasRun(t) /\ NoTable(t)
  BY DEF PallocTable, At, Inside, HasRun, Working, HasFrame
<1>2. /\ ShapeOK /\ LockOK /\ CallOK(t) /\ RunOK(t) /\ FrameOK(t) /\ FramesOf(t) /\ \A u \in Threads : RunApart(u)
      /\ call[t] \in Calls
  BY <1>1, InCall
<1>3. UNCHANGED <<cpuVars, owner, level, poolVars, held>> /\ UNCHANGED <<cpuVars, owner>>
      /\ run' = run /\ booting' = booting /\ UNCHANGED <<poolVars, held>>
      /\ UNCHANGED <<owner, level, poolVars>> /\ held' = held /\ pte' = pte /\ pde' = pde
  BY DEF PallocTable, Scan, cpuVars, poolVars
<1>4. CASE ScanPanics(pool["kernel"], PoolSize("kernel"))
  BY <1>3, <1>4, FullStep DEF PallocTable, Scan
<1>5. CASE ~ScanPanics(pool["kernel"], PoolSize("kernel"))
  <2>1. panic' = panic /\ call' = [call EXCEPT ![t]["table"] = f] /\ Goto(t, "taketable")
    BY <1>0, <1>5 DEF PallocTable, Scan
  <2>2. Moves(t, "taketable", c) /\ "taketable" \in PCs
    BY <2>1 DEF Moves, Goto, PCs, Working, HasFrame
  <2>3. \A s \in Spaces : \A v \in Pages(s) : ~ReturnedBy(t, s, v)
    BY <1>1 DEF ReturnedBy
  <2>4. Unused(f) /\ ~MarkedBy(t, f)
    <3>1. "kernel" \in Pools
      BY DEF Pools
    <3> QED BY <1>0, <1>2, <1>5, <2>3, <3>1, ScanFree
  <2>5. f # call[t].frame
    <3>1. MarkedBy(t, call[t].frame)
      BY <1>1 DEF MarkedBy, HasFrame
    <3> QED BY <2>4, <3>1
  <2>6. c \in Calls /\ c.op = call[t].op /\ c.lock = call[t].lock /\ c.va = call[t].va /\ c.cnt = call[t].cnt
        /\ c.n = call[t].n /\ c.frame = call[t].frame /\ c.table = f
    BY <1>2, <2>4, SetTableFrame DEF Unused
  <2> HIDE DEF c
  <2>7. pc'[t] = "taketable" /\ call'[t] = c
    BY <1>2, <2>2, <2>6, MovesFacts
  <2>8. ShapeOK'
    <3>1. DOMAIN held' = Threads /\ panic' \in {"none", "full", "count"}
      BY <1>2, <1>3, <2>1 DEF ShapeOK
    <3> QED BY <1>2, <1>3, <2>2, <2>6, <3>1, QuietShape
  <2>9. LockOK'
    <3>1. "taketable" \in Working
      BY DEF Working, HasFrame
    <3> QED BY <1>1, <1>2, <1>3, <2>2, <2>6, <3>1, LockKept
  <2>10. CallOK(t)'
    <3>1. "taketable" \in HasFrame /\ "map" \in HasFrame /\ "taketable" \notin Outside
      BY DEF Outside, HasFrame
    <3> QED BY <1>1, <1>2, <2>6, <2>7, <3>1 DEF CallOK, Inside, HasRun
  <2>11. CallRun(t)' = CallRun(t)
    BY <2>6, <2>7 DEF CallRun
  <2>12. RunOK(t)'
    <3>1. \A v \in CallRun(t) : GotPage(t, v)' <=> GotPage(t, v)
      BY <1>1, <2>6, <2>7 DEF GotPage, HasFrame, Page
    <3> QED BY <1>1, <1>2, <1>3, <2>11, <3>1 DEF RunOK
  <2>13. \A u \in Threads : RunApart(u)'
    BY <1>1, <1>2, <1>3, <2>2, <2>6, ApartKept
  <2>14. FrameOK(t)' /\ Fresh(t)'
    <3>0. PICK g : g = call[t].frame
      OBVIOUS
    <3>1. Unused(f)' /\ Unused(g)' /\ PoolOf(g) = Pool(t)
      <4>1. Unused(g) /\ PoolOf(g) = Pool(t)
        BY <1>1, <1>2, <3>0 DEF FrameOK, HasFrame
      <4> QED BY <1>3, <2>4, <4>1 DEF Unused
    <3>2. NoTable(t)'
      BY <1>1, <1>3, <2>6, <2>7 DEF NoTable, Page
    <3>3. call'[t].frame = g /\ call'[t].table = f /\ f # g
      BY <2>5, <2>6, <2>7, <3>0
    <3> QED BY <2>7, <3>1, <3>2, <3>3 DEF FrameOK, Fresh
  <2>15. /\ \A g \in Frames : MarkedBy(t, g)' <=> MarkedBy(t, g)
         /\ \A s \in Spaces : \A v \in Pages(s) : ReturnedBy(t, s, v)' <=> ReturnedBy(t, s, v)
    BY <1>1, <2>6, <2>7 DEF MarkedBy, ReturnedBy, HasFrame, HasTable
  <2>16. InWork(t)' = InWork(t)
    BY <1>1, <2>6, <2>7 DEF InWork, HasFrame, Page
  <2>17. t \in Procs /\ c.op # "stack" => pc[t] \notin {"none", "start"} /\ call[t].op # "stack"
    BY <1>1, <2>6
  <2> QED BY <1>3, <2>2, <2>6, <2>8, <2>9, <2>10, <2>12, <2>13, <2>14, <2>15, <2>16, <2>17, QuietStep
<1> QED BY <1>4, <1>5

\* A thread has its pages.
LEMMA GotStep ==
  ASSUME IInv, NEW t \in Threads, pc[t] = "touch", Return(t),
         UNCHANGED <<cpuVars, owner, level, poolVars, panic>>,
         NEW r \in Nat \X (Nat \ {0}), r = <<call[t].va, call[t].cnt>>,
         held' = [held EXCEPT ![t] = @ \cup {r}]
  PROVE  IInv'
<1>1. Inside(t) /\ HasRun(t)
  BY DEF Inside, HasRun, Working
<1>2. /\ ShapeOK /\ LockOK /\ CallOK(t) /\ RunOK(t) /\ HeldOK /\ HeldApart /\ FramesApart
      /\ FramesAccounted /\ PagesAccounted /\ \A u \in Threads : RunApart(u)
      /\ call[t].va \in Nat /\ call[t].cnt \in Nat \ {0}
  BY <1>1, InCall
<1>3. UNCHANGED <<cpuVars, owner>> /\ run' = run /\ booting' = booting /\ UNCHANGED poolVars
      /\ UNCHANGED <<owner, level, poolVars>> /\ pte' = pte /\ pde' = pde /\ panic' = panic
  BY DEF cpuVars, poolVars
<1>4. PICK x \in {"unlock", "idle"}, c \in Calls :
           /\ x \in PCs /\ Moves(t, x, c) /\ c.op = call[t].op
           /\ LockOK' /\ CallOK(t)' /\ ~HasRun(t)' /\ RunOK(t)' /\ FrameOK(t)' /\ Fresh(t)'
           /\ \A f \in Frames : ~MarkedBy(t, f)'
           /\ \A s \in Spaces : \A v \in Pages(s) : ~ReturnedBy(t, s, v)'
           /\ InWork(t)' = {}
  BY <1>1, <1>2, <1>3, ReturnFacts
<1>5. \A u \in Threads \ {t} : pc'[u] = pc[u] /\ call'[u] = call[u]
  BY <1>2, <1>4, MovesFacts
<1>6. /\ DOMAIN held' = Threads /\ held'[t] = held[t] \cup {r}
      /\ \A u \in Threads \ {t} : held'[u] = held[u]
  BY <1>2 DEF ShapeOK
<1>7. Run(r) = CallRun(t)
  BY DEF Run, CallRun
<1>8. ShapeOK'
  <2>1. panic' \in {"none", "full", "count"}
    BY <1>2, <1>3 DEF ShapeOK
  <2> QED BY <1>2, <1>3, <1>4, <1>6, <2>1, QuietShape
<1>9. \A u \in Threads : RunApart(u)'
  <2>1. \A u \in Threads \ {t} : (HasRun(u)' <=> HasRun(u)) /\ CallRun(u)' = CallRun(u)
    BY <1>5 DEF HasRun, CallRun
  <2>2. RunApart(t)'
    BY <1>4 DEF RunApart
  <2>3. ASSUME NEW u \in Threads \ {t} PROVE RunApart(u)'
    <3> SUFFICES ASSUME HasRun(u), NEW w \in Threads, Space(w) = Space(u)
                 PROVE  /\ \A q \in held'[w] : Run(q) \cap CallRun(u) = {}
                        /\ w # u /\ HasRun(w)' => CallRun(w)' \cap CallRun(u) = {}
      BY <2>1 DEF RunApart
    <3>1. \A q \in held[w] : Run(q) \cap CallRun(u) = {}
      BY <1>2 DEF RunApart
    <3>2. CASE w = t
      <4>1. CallRun(t) \cap CallRun(u) = {}
        BY <1>1, <1>2, <3>2 DEF RunApart
      <4> QED BY <1>4, <1>6, <1>7, <3>1, <3>2, <4>1
    <3>3. CASE w # t
      BY <1>2, <1>6, <2>1, <3>1, <3>3 DEF RunApart
    <3> QED BY <3>2, <3>3
  <2> QED BY <2>2, <2>3
<1>10. HeldOK'
  <2>0. r[1] + r[2] - 1 <= NPages(Space(t))
    BY <1>1, <1>2 DEF CallOK
  <2>1. \A u \in Threads : \A q \in held'[u] : q \in Nat \X (Nat \ {0}) /\ q[1] + q[2] - 1 <= NPages(Space(u))
    BY <1>2, <1>6, <2>0 DEF HeldOK
  <2>2. ASSUME NEW u \in Procs, pc'[u] \notin {"none", "start"}, call'[u].op # "stack" \/ pc'[u] = "unlock"
        PROVE  <<StackPage, 1>> \in held'[u]
    <3>1. CASE u # t
      BY <1>2, <1>5, <1>6, <2>2, <3>1 DEF HeldOK
    <3>2. CASE u = t /\ call[t].op # "stack"
      BY <1>2, <1>6, <3>2 DEF HeldOK
    <3>3. CASE u = t /\ call[t].op = "stack"
      <4>1. r = <<StackPage, 1>>
        BY <1>2, <3>3 DEF CallOK
      <4> QED BY <1>6, <3>3, <4>1
    <3> QED BY <3>1, <3>2, <3>3
  <2> QED BY <2>1, <2>2 DEF HeldOK
<1>11. HeldApart'
  <2>1. \A v \in Run(r) : pte'[Space(t)][v] # NoFrame
    BY <1>1, <1>2, <1>3, <1>7 DEF RunOK, GotPage
  <2>2. \A u \in Threads : Space(u) = Space(t) => \A q \in held[u] : Run(q) \cap Run(r) = {}
    BY <1>1, <1>2, <1>7 DEF RunApart
  <2> SUFFICES ASSUME NEW u \in Threads, NEW q \in held'[u]
               PROVE  /\ \A v \in Run(q) : pte'[Space(u)][v] # NoFrame
                      /\ \A w \in Threads : Space(w) = Space(u) =>
                           \A p \in held'[w] : (w # u \/ p # q) => Run(p) \cap Run(q) = {}
    BY DEF HeldApart
  <2>3. q \in held[u] \/ (u = t /\ q = r)
    BY <1>6
  <2>4. \A v \in Run(q) : pte'[Space(u)][v] # NoFrame
    BY <1>2, <1>3, <2>1, <2>3 DEF HeldApart
  <2>5. ASSUME NEW w \in Threads, Space(w) = Space(u), NEW p \in held'[w], w # u \/ p # q
        PROVE  Run(p) \cap Run(q) = {}
    <3>1. p \in held[w] \/ (w = t /\ p = r)
      BY <1>6
    <3>2. CASE p \in held[w] /\ q \in held[u]
      BY <1>2, <2>5, <3>2 DEF HeldApart
    <3>3. CASE p \in held[w] /\ u = t /\ q = r
      BY <2>2, <2>5, <3>3
    <3>4. CASE w = t /\ p = r /\ q \in held[u]
      BY <2>2, <2>5, <3>4
    <3> QED BY <2>3, <2>5, <3>1, <3>2, <3>3, <3>4
  <2> QED BY <2>4, <2>5
<1>12. /\ \A f \in Frames : MarkedBy(t, f)' <=> MarkedBy(t, f)
       /\ \A s \in Spaces : \A v \in Pages(s) : ReturnedBy(t, s, v)' <=> ReturnedBy(t, s, v)
  BY <1>4 DEF MarkedBy, ReturnedBy, HasFrame, HasTable
<1>13. InWork(t)' = InWork(t)
  BY <1>4 DEF InWork, HasFrame
<1>14. FramesApart' /\ FramesAccounted' /\ PagesAccounted'
  BY <1>2, <1>3, <1>4, <1>12, <1>13, QuietAccounts
<1> QED BY <1>3, <1>4, <1>6, <1>8, <1>9, <1>10, <1>11, <1>14, StepDone

LEMMA TouchStep ==
  ASSUME IInv, NEW t \in Threads, Touch(t)
  PROVE  IInv'
<1>1. pc[t] = "touch" /\ Inside(t)
  BY DEF Touch, At, Inside, Working
<1>2. PICK r : r = <<call[t].va, call[t].cnt>>
  OBVIOUS
<1>3. r \in Nat \X (Nat \ {0})
  BY <1>1, <1>2, InCall
<1> QED BY <1>1, <1>2, <1>3, GotStep DEF Touch

LEMMA GotStackStep ==
  ASSUME IInv, NEW t \in Threads, GotStack(t)
  PROVE  IInv'
<1>1. pc[t] = "touch" /\ Inside(t) /\ call[t].op = "stack"
  BY DEF GotStack, At, Inside, Working
<1>2. PICK r : r = <<call[t].va, call[t].cnt>>
  OBVIOUS
<1>3. r \in Nat \X (Nat \ {0})
  BY <1>1, <1>2, InCall
<1>4. r = <<StackPage, 1>>
  BY <1>1, <1>2, InCall DEF CallOK
<1> QED BY <1>1, <1>2, <1>3, <1>4, GotStep DEF GotStack

-----------------------------------------------------------------------------
(* Steps of a call that change a bitmap or a page table.                   *)

\* What is left to show of such a step, which goes on with the pages it has.
LEMMA WorkStep ==
  ASSUME IInv, NEW t \in Threads, Inside(t), HasRun(t),
         NEW x \in Working, NEW c \in Calls, Moves(t, x, c), UNCHANGED <<cpuVars, owner, level, held, panic>>,
         c.op = call[t].op, c.lock = call[t].lock, c.va = call[t].va, c.cnt = call[t].cnt, c.n < c.cnt,
         x \in {"mark", "palloc", "touch"} \cup HasFrame => c.op # "free",
         x \in {"header", "pfree", "unmap", "vremove"} => c.op = "free",
         x = "mark" => pc[t] = "mark", x \in {"header", "touch"} => c.n = 0,
         \A s \in Spaces : \A v \in Pages(s) : pte'[s][v] = pte[s][v] \/ (s = Space(t) /\ v \in CallRun(t)),
         DOMAIN pool' = Pools /\ \A p \in Pools : pool'[p] \in [0 .. PoolSize(p) -> BOOLEAN],
         DOMAIN vmap' = Spaces /\ \A s \in Spaces : vmap'[s] \in [Pages(s) -> BOOLEAN],
         DOMAIN pte' = Spaces /\ \A s \in Spaces : pte'[s] \in [Pages(s) -> Frames \cup {NoFrame}],
         pde' \in [Procs -> [Tables -> Frames \cup {NoFrame}]],
         FramesApart',
         pc'[t] = x /\ call'[t] = c /\ CallRun(t)' = CallRun(t) =>
           RunOK(t)' /\ FrameOK(t)' /\ FramesOf(t)' /\ PagesOf(t)'
  PROVE  IInv'
<1>0. /\ ShapeOK /\ LockOK /\ CallOK(t) /\ HeldOK /\ HeldApart /\ \A u \in Threads : RunApart(u) /\ CallOK(u)
      /\ Alone(t)
  BY InCall DEF IInv
<1>1. x \in PCs
  BY DEF PCs
<1>2. pc'[t] = x /\ call'[t] = c
  BY <1>0, <1>1, MovesFacts
<1>3. UNCHANGED <<cpuVars, owner>> /\ run' = run /\ booting' = booting /\ UNCHANGED <<owner, level>>
      /\ held' = held /\ panic' = panic
  BY DEF cpuVars
<1>4. ShapeOK'
  <2>1. booting' \in BOOLEAN /\ DOMAIN held' = Threads /\ panic' \in {"none", "full", "count"}
    BY <1>0, <1>3 DEF ShapeOK
  <2> QED BY <1>0, <1>1, <1>3, <2>1, ShapeKept
<1>5. LockOK'
  BY <1>0, <1>1, <1>3, LockKept
<1>6. x \notin Outside \cup {"lock", "unlock", "vaddr", "none", "start"} /\ HasRun(t)' /\ Inside(t)'
  <2>1. x \notin Outside \cup {"lock", "unlock", "vaddr", "none", "start"}
    BY DEF Working, HasFrame, Outside
  <2> QED BY <1>2, <2>1 DEF HasRun, Inside
<1>7. CallRun(t)' = CallRun(t)
  BY <1>2 DEF CallRun
<1>8. CallOK(t)'
  <2>1. c.op \in {"get", "stack", "free"} /\ c.cnt \in Nat /\ c.n \in Nat
    BY DEF Calls
  <2>2. c.cnt > 0
    BY <2>1
  <2>3. c.va + c.cnt - 1 <= NPages(Space(t)) /\ (x = "mark" => c.va < NPages(Space(t)))
    BY <1>0 DEF CallOK
  <2>4. /\ ~c.lock => c.op = "get"
        /\ c.op = "stack" => t \in Procs /\ c.va = StackPage /\ c.cnt = 1
    <3>1. pc[t] # "unlock"
      BY PcFacts
    <3> QED BY <1>0, <3>1 DEF CallOK
  <2> QED BY <1>2, <1>6, <2>1, <2>2, <2>3, <2>4 DEF CallOK
<1>9. \A u \in Threads : RunApart(u)'
  BY <1>0, <1>1, <1>3, ApartKept
<1>10. Fresh(t)'
  BY <1>2, <1>6 DEF Fresh
<1>11. HeldOK' /\ HeldApart'
  <2>1. ASSUME NEW u \in Threads, NEW r \in held[u], NEW v \in Run(r)
        PROVE  pte'[Space(u)][v] = pte[Space(u)][v]
    <3>1. v \in Pages(Space(u)) /\ Space(u) \in Spaces
      <4>1. r[1] \in Nat /\ r[2] \in Nat /\ r[1] + r[2] - 1 <= NPages(Space(u)) /\ NPages(Space(u)) \in Nat
        BY <1>0, SpaceFacts DEF HeldOK
      <4> QED BY <4>1, SpaceFacts DEF Run, Pages
    <3>2. Space(u) = Space(t) => v \notin CallRun(t)
      BY <1>0 DEF RunApart
    <3> QED BY <3>1, <3>2
  <2>2. pc[t] \notin {"none", "start"} /\ pc[t] # "unlock"
    BY PcFacts DEF Outside
  <2>3. x # "unlock"
    BY <1>6
  <2> QED BY <1>0, <1>1, <1>3, <2>1, <2>2, <2>3, HeldKept
<1>12. FramesAccounted' /\ PagesAccounted'
  <2>1. Alone(t)'
    BY <1>0, <1>1, AloneKept
  <2> QED BY <1>2, <1>7, <2>1, AccountsNext
<1> QED BY <1>1, <1>2, <1>3, <1>4, <1>5, <1>7, <1>8, <1>9, <1>10, <1>11, <1>12, StepDone

\* The step to the next page of the call, or to the call's next part.
NextN(t) == IF LastPage(t) THEN 0 ELSE call[t].n + 1

LEMMA NextPage ==
  ASSUME NEW t \in Threads, NEW d, d = call[t], d \in Calls, d.n < d.cnt
  PROVE  /\ NextN(t) \in Nat /\ NextN(t) < d.cnt
         /\ LastPage(t) => NextN(t) = 0 /\ Page(t) = d.va + d.cnt - 1
         /\ ~LastPage(t) => NextN(t) = d.n + 1 /\ d.va + NextN(t) = Page(t) + 1 /\ Page(t) < d.va + d.cnt - 1
<1>1. d.n \in Nat /\ d.cnt \in Nat /\ d.va \in Nat
  BY DEF Calls
<1>2. CASE LastPage(t)
  BY <1>1, <1>2 DEF NextN, LastPage, Page
<1>3. CASE ~LastPage(t)
  BY <1>1, <1>3 DEF NextN, LastPage, Page
<1> QED BY <1>2, <1>3

LEMMA MarkPageStep ==
  ASSUME IInv, NEW t \in Threads, MarkPage(t)
  PROVE  IInv'
<1> DEFINE x == IF LastPage(t) THEN "palloc" ELSE "mark"
           c == [call[t] EXCEPT !.n = NextN(t)]
<1>1. pc[t] = "mark" /\ Inside(t) /\ HasRun(t)
  BY DEF MarkPage, At, Inside, HasRun, Working
<1>2. /\ ShapeOK /\ CallOK(t) /\ RunOK(t) /\ HeldOK /\ FramesApart /\ FramesOf(t) /\ PagesOf(t)
      /\ \A u \in Threads : RunApart(u)
      /\ call[t] \in Calls /\ call[t].va \in Nat /\ call[t].n \in Nat /\ call[t].cnt \in Nat \ {0}
      /\ call[t].n < call[t].cnt /\ Page(t) \in Nat
      /\ Page(t) \in CallRun(t) /\ CallRun(t) \subseteq Pages(Space(t))
  BY <1>1, InCall
<1>3. Space(t) \in Spaces /\ Page(t) \in Pages(Space(t))
  BY <1>2, SpaceFacts
<1>4. panic' = panic
  <2>1. ASSUME call[t].op = "get", t \in Procs PROVE call[t].va < StackPage
    <3>1. <<StackPage, 1>> \in held[t]
      BY <1>1, <1>2, <2>1 DEF HeldOK
    <3>2. StackPage \in Run(<<StackPage, 1>>)
      BY SpaceFacts DEF Run
    <3>3. call[t].va \in CallRun(t)
      BY <1>2 DEF CallRun
    <3>4. call[t].va # StackPage
      BY <1>1, <1>2, <3>1, <3>2, <3>3 DEF RunApart
    <3>5. call[t].va < UPages
      <4>1. Space(t) = t /\ t # Kernel
        BY <2>1
          DEF Space
      <4>2. NPages(Space(t)) = UPages
        BY <4>1 DEF NPages
      <4> QED BY <1>1, <1>2, <4>2 DEF CallOK
    <3> QED BY <1>2, <3>4, <3>5, SpaceFacts
  <2>2. call[t].va >= StackPage => ~(call[t].va < StackPage)
    BY <1>2, SpaceFacts
  <2> QED BY <2>1, <2>2 DEF MarkPage
<1>5. /\ UNCHANGED <<cpuVars, owner, level, held, panic>> /\ pool' = pool /\ pte' = pte /\ pde' = pde
      /\ vmap' = [vmap EXCEPT ![Space(t)][Page(t)] = TRUE]
  BY <1>4 DEF MarkPage
<1>6. Moves(t, x, c)
  <2>1. call' = [call EXCEPT ![t].n = NextN(t)]
    BY DEF MarkPage, NextN
  <2>2. pc' = [pc EXCEPT ![t] = x]
    <3>1. CASE LastPage(t)
      BY <3>1 DEF MarkPage, Goto
    <3>2. CASE ~LastPage(t)
      <4>1. pc' = pc /\ x = "mark"
        BY <3>2 DEF MarkPage
      <4> QED BY <1>1, <1>2, <4>1 DEF ShapeOK
    <3> QED BY <3>1, <3>2
  <2> QED BY <2>1, <2>2 DEF Moves
<1>7. /\ NextN(t) \in Nat /\ NextN(t) < call[t].cnt
      /\ LastPage(t) => NextN(t) = 0 /\ Page(t) = call[t].va + call[t].cnt - 1
      /\ ~LastPage(t) => call[t].va + NextN(t) = Page(t) + 1 /\ Page(t) < call[t].va + call[t].cnt - 1
  BY <1>2, NextPage
<1>8. /\ c \in Calls /\ c.op = call[t].op /\ c.lock = call[t].lock /\ c.va = call[t].va /\ c.cnt = call[t].cnt
      /\ c.n = NextN(t)
  BY <1>2, <1>7, SetN
<1>9. x \in {"mark", "palloc"} /\ x \in Working /\ (x = "palloc" <=> LastPage(t)) /\ x \notin HasFrame
  BY DEF Working, HasFrame
<1>10. /\ DOMAIN vmap' = Spaces /\ \A s \in Spaces : vmap'[s] \in [Pages(s) -> BOOLEAN]
       /\ vmap'[Space(t)][Page(t)] = TRUE
       /\ \A s \in Spaces : \A v \in Pages(s) : s # Space(t) \/ v # Page(t) => vmap'[s][v] = vmap[s][v]
  <2>1. DOMAIN vmap = Spaces /\ \A s \in Spaces : vmap[s] \in [Pages(s) -> BOOLEAN]
    BY <1>2 DEF ShapeOK
  <2> QED BY <1>3, <1>5, <2>1
<1> HIDE DEF x, c
<1>11. /\ DOMAIN pool' = Pools /\ \A p \in Pools : pool'[p] \in [0 .. PoolSize(p) -> BOOLEAN]
       /\ DOMAIN pte' = Spaces /\ \A s \in Spaces : pte'[s] \in [Pages(s) -> Frames \cup {NoFrame}]
       /\ pde' \in [Procs -> [Tables -> Frames \cup {NoFrame}]]
       /\ FramesApart'
  BY <1>2, <1>5 DEF ShapeOK, FramesApart
<1>12. ASSUME pc'[t] = x, call'[t] = c, CallRun(t)' = CallRun(t)
       PROVE  RunOK(t)' /\ FrameOK(t)' /\ FramesOf(t)' /\ PagesOf(t)'
  <2>1. RunOK(t)'
    <3>1. \A v \in CallRun(t) : ~GotPage(t, v) /\ ~GotPage(t, v)'
      BY <1>1, <1>2, <1>7, <1>8, <1>9, <1>12 DEF GotPage, CallRun, Page, HasFrame
    <3> QED BY <1>1, <1>2, <1>5, <1>12, <3>1 DEF RunOK
  <2>2. FrameOK(t)'
    BY <1>9, <1>12 DEF FrameOK, HasFrame, HasTable
  <2>3. FramesOf(t)'
    <3>1. /\ \A f \in Frames : MarkedBy(t, f)' <=> MarkedBy(t, f)
          /\ \A s \in Spaces : \A v \in Pages(s) : ReturnedBy(t, s, v)' <=> ReturnedBy(t, s, v)
      BY <1>1, <1>9, <1>12 DEF MarkedBy, ReturnedBy, HasFrame, HasTable
    <3> QED BY <1>2, <1>5, <3>1 DEF FramesOf
  <2>4. PagesOf(t)'
    <3>1. ASSUME NEW v \in CallRun(t)
          PROVE  v \in InWork(t)' <=> v \in InWork(t) \/ v = Page(t)
      <4>0. v \in Int
        BY <1>2 DEF CallRun
      <4>1. v \in InWork(t) <=> v < Page(t)
        BY <1>1 DEF InWork, HasFrame, CallRun
      <4>2. v \in InWork(t)' <=> (x = "mark" /\ v < c.va + c.n) \/ (x = "palloc" /\ v >= c.va + c.n)
        BY <1>8, <1>9, <1>12 DEF InWork, HasFrame, CallRun, Page
      <4>3. CASE LastPage(t)
        <5>1. v \in call[t].va .. Page(t)
          BY <1>2, <1>7, <4>3 DEF CallRun
        <5> QED BY <1>2, <1>7, <1>8, <1>9, <4>0, <4>1, <4>2, <4>3, <5>1
      <4>4. CASE ~LastPage(t)
        BY <1>2, <1>7, <1>8, <1>9, <4>0, <4>1, <4>2, <4>4
      <4> QED BY <4>3, <4>4
    <3>2. InWork(t) \subseteq CallRun(t) /\ InWork(t)' \subseteq CallRun(t)
      BY <1>12 DEF InWork, CallRun
    <3>3. \A v \in Pages(Space(t)) : v \in InWork(t)' <=> v \in InWork(t) \/ v = Page(t)
      BY <1>2, <3>1, <3>2
    <3> QED BY <1>2, <1>3, <1>5, <1>10, <3>3 DEF PagesOf
  <2> QED BY <2>1, <2>2, <2>3, <2>4
<1>13. c.op # "free" /\ \A s \in Spaces : \A v \in Pages(s) : pte'[s][v] = pte[s][v]
  BY <1>1, <1>2, <1>5, <1>8 DEF CallOK
<1>14. c.n < c.cnt
  BY <1>7, <1>8
<1>15. /\ x \in {"mark", "palloc", "touch"} \cup HasFrame => c.op # "free"
       /\ x \in {"header", "pfree", "unmap", "vremove"} => c.op = "free"
       /\ x = "mark" => pc[t] = "mark"
       /\ x \in {"header", "touch"} => c.n = 0
  BY <1>1, <1>9, <1>13
<1>16. \A s \in Spaces : \A v \in Pages(s) : pte'[s][v] = pte[s][v] \/ (s = Space(t) /\ v \in CallRun(t))
  BY <1>13
<1> QED BY <1>1, <1>5, <1>6, <1>8, <1>9, <1>10, <1>11, <1>12, <1>14, <1>15, <1>16, WorkStep

\* A frame's bit is set: the others keep theirs.
LEMMA BitSet ==
  ASSUME ShapeOK, NEW f \in Frames, pool' = [pool EXCEPT ![PoolOf(f)][f - PoolStart(PoolOf(f))] = TRUE]
  PROVE  /\ DOMAIN pool' = Pools /\ \A p \in Pools : pool'[p] \in [0 .. PoolSize(p) -> BOOLEAN]
         /\ \A g \in Frames : pool'[PoolOf(g)][g - PoolStart(PoolOf(g))] <=>
                                (g = f \/ pool[PoolOf(g)][g - PoolStart(PoolOf(g))])
<1> DEFINE p == PoolOf(f)
           i == f - PoolStart(PoolOf(f))
<1>1. DOMAIN pool = Pools /\ \A q \in Pools : pool[q] \in [0 .. PoolSize(q) -> BOOLEAN]
  BY DEF ShapeOK
<1>2. p \in Pools /\ i \in 0 .. PoolSize(p)
  BY BitOfFrame
<1>3. \A g \in Frames : /\ PoolOf(g) \in Pools /\ g - PoolStart(PoolOf(g)) \in 0 .. PoolSize(PoolOf(g))
                        /\ g # f => PoolOf(g) # p \/ g - PoolStart(PoolOf(g)) # i
  BY BitOfFrame
<1>4. pool' = [pool EXCEPT ![p][i] = TRUE]
  OBVIOUS
<1> HIDE DEF p, i
<1>5. /\ DOMAIN pool' = Pools /\ \A q \in Pools : pool'[q] \in [0 .. PoolSize(q) -> BOOLEAN]
      /\ pool'[p][i] = TRUE
      /\ \A q \in Pools : \A j \in 0 .. PoolSize(q) : q # p \/ j # i => pool'[q][j] = pool[q][j]
  <2>1. DOMAIN pool' = Pools /\ pool'[p] = [pool[p] EXCEPT ![i] = TRUE] /\ \A q \in Pools \ {p} : pool'[q] = pool[q]
    BY <1>1, <1>2, <1>4
  <2>2. pool[p] \in [0 .. PoolSize(p) -> BOOLEAN]
    BY <1>1, <1>2
  <2>3. pool'[p] \in [0 .. PoolSize(p) -> BOOLEAN] /\ pool'[p][i] = TRUE
        /\ \A j \in 0 .. PoolSize(p) : j # i => pool'[p][j] = pool[p][j]
    BY <1>2, <2>1, <2>2, Zenon
  <2> QED BY <1>1, <2>1, <2>3
<1>6. ASSUME NEW g \in Frames
      PROVE  pool'[PoolOf(g)][g - PoolStart(PoolOf(g))] <=>
                                (g = f \/ pool[PoolOf(g)][g - PoolStart(PoolOf(g))])
  <2>1. CASE g = f
    BY <1>5, <2>1 DEF p, i
  <2>2. CASE g # f
    <3>1. pool'[PoolOf(g)][g - PoolStart(PoolOf(g))] = pool[PoolOf(g)][g - PoolStart(PoolOf(g))]
      BY <1>3, <1>5, <2>2
    <3> QED BY <2>2, <3>1
  <2> QED BY <2>1, <2>2
<1> QED BY <1>5, <1>6

LEMMA BitCleared ==
  ASSUME ShapeOK, NEW f \in Frames, pool' = [pool EXCEPT ![PoolOf(f)][f - PoolStart(PoolOf(f))] = FALSE]
  PROVE  /\ DOMAIN pool' = Pools /\ \A p \in Pools : pool'[p] \in [0 .. PoolSize(p) -> BOOLEAN]
         /\ \A g \in Frames : pool'[PoolOf(g)][g - PoolStart(PoolOf(g))] <=>
                                (g # f /\ pool[PoolOf(g)][g - PoolStart(PoolOf(g))])
<1> DEFINE p == PoolOf(f)
           i == f - PoolStart(PoolOf(f))
<1>1. DOMAIN pool = Pools /\ \A q \in Pools : pool[q] \in [0 .. PoolSize(q) -> BOOLEAN]
  BY DEF ShapeOK
<1>2. p \in Pools /\ i \in 0 .. PoolSize(p)
  BY BitOfFrame
<1>3. \A g \in Frames : /\ PoolOf(g) \in Pools /\ g - PoolStart(PoolOf(g)) \in 0 .. PoolSize(PoolOf(g))
                        /\ g # f => PoolOf(g) # p \/ g - PoolStart(PoolOf(g)) # i
  BY BitOfFrame
<1>4. pool' = [pool EXCEPT ![p][i] = FALSE]
  OBVIOUS
<1> HIDE DEF p, i
<1>5. /\ DOMAIN pool' = Pools /\ \A q \in Pools : pool'[q] \in [0 .. PoolSize(q) -> BOOLEAN]
      /\ pool'[p][i] = FALSE
      /\ \A q \in Pools : \A j \in 0 .. PoolSize(q) : q # p \/ j # i => pool'[q][j] = pool[q][j]
  <2>1. DOMAIN pool' = Pools /\ pool'[p] = [pool[p] EXCEPT ![i] = FALSE] /\ \A q \in Pools \ {p} : pool'[q] = pool[q]
    BY <1>1, <1>2, <1>4
  <2>2. pool[p] \in [0 .. PoolSize(p) -> BOOLEAN]
    BY <1>1, <1>2
  <2>3. pool'[p] \in [0 .. PoolSize(p) -> BOOLEAN] /\ pool'[p][i] = FALSE
        /\ \A j \in 0 .. PoolSize(p) : j # i => pool'[p][j] = pool[p][j]
    BY <1>2, <2>1, <2>2, Zenon
  <2> QED BY <1>1, <2>1, <2>3
<1>6. ASSUME NEW g \in Frames
      PROVE  pool'[PoolOf(g)][g - PoolStart(PoolOf(g))] <=>
                                (g # f /\ pool[PoolOf(g)][g - PoolStart(PoolOf(g))])
  <2>1. CASE g = f
    BY <1>5, <2>1 DEF p, i
  <2>2. CASE g # f
    <3>1. pool'[PoolOf(g)][g - PoolStart(PoolOf(g))] = pool[PoolOf(g)][g - PoolStart(PoolOf(g))]
      BY <1>3, <1>5, <2>2
    <3> QED BY <2>2, <3>1
  <2> QED BY <2>1, <2>2
<1> QED BY <1>5, <1>6

\* Both frames of a call are taken the same way.
LEMMA TakeStep ==
  ASSUME IInv, NEW t \in Threads, NEW f \in Frames, NEW x \in HasFrame, Take(t, f, x), UNCHANGED <<cpuVars, owner, level>>,
         \/ pc[t] = "take" /\ x = "map" /\ f = call[t].frame
         \/ pc[t] = "taketable" /\ x = "settable" /\ f = call[t].table
  PROVE  IInv'
<1> DEFINE c == call[t]
<1>1. Inside(t) /\ HasRun(t)
  BY DEF Inside, HasRun, Working, HasFrame
<1>2. /\ ShapeOK /\ CallOK(t) /\ RunOK(t) /\ FrameOK(t) /\ FramesApart /\ FramesOf(t) /\ PagesOf(t)
      /\ call[t] \in Calls /\ call[t].n < call[t].cnt
  BY <1>1, InCall
<1>3. /\ UNCHANGED <<cpuVars, owner, level, held, panic>> /\ vmap' = vmap /\ pte' = pte /\ pde' = pde /\ call' = call
      /\ pool' = [pool EXCEPT ![PoolOf(f)][f - PoolStart(PoolOf(f))] = TRUE]
      /\ pc' = [pc EXCEPT ![t] = x]
  BY DEF Take, Goto, mapVars
<1>4. Moves(t, x, c)
  BY <1>2, <1>3 DEF Moves, ShapeOK
<1>5. /\ DOMAIN pool' = Pools /\ \A p \in Pools : pool'[p] \in [0 .. PoolSize(p) -> BOOLEAN]
      /\ \A g \in Frames : pool'[PoolOf(g)][g - PoolStart(PoolOf(g))] <=>
                                (g = f \/ pool[PoolOf(g)][g - PoolStart(PoolOf(g))])
  BY <1>2, <1>3, BitSet
<1>6. /\ DOMAIN vmap' = Spaces /\ \A s \in Spaces : vmap'[s] \in [Pages(s) -> BOOLEAN]
      /\ DOMAIN pte' = Spaces /\ \A s \in Spaces : pte'[s] \in [Pages(s) -> Frames \cup {NoFrame}]
      /\ pde' \in [Procs -> [Tables -> Frames \cup {NoFrame}]]
      /\ FramesApart'
  BY <1>2, <1>3 DEF ShapeOK, FramesApart
<1>7. pc[t] \in HasFrame /\ x \in Working /\ x \notin {"mark", "header", "pfree", "unmap", "vremove", "touch"}
  BY DEF HasFrame, Working
<1>8. ASSUME pc'[t] = x, call'[t] = c, CallRun(t)' = CallRun(t)
      PROVE  RunOK(t)' /\ FrameOK(t)' /\ FramesOf(t)' /\ PagesOf(t)'
  <2>1. RunOK(t)'
    <3>1. \A v \in CallRun(t) : GotPage(t, v) <=> GotPage(t, v)'
      BY <1>7, <1>8 DEF GotPage, Page, HasFrame
    <3> QED BY <1>1, <1>2, <1>3, <1>8, <3>1 DEF RunOK
  <2>2. FrameOK(t)'
    <3>1. x \in HasTable <=> pc[t] \in HasTable
      BY DEF HasTable
    <3>2. Unused(c.frame) /\ PoolOf(c.frame) = Pool(t)
      BY <1>2, <1>7 DEF FrameOK
    <3>3. x \in HasTable => Unused(c.table) /\ c.table # c.frame /\ NoTable(t)
      BY <1>2, <3>1 DEF FrameOK
    <3>4. Unused(call[t].frame)' <=> Unused(call[t].frame)
      BY <1>3 DEF Unused
    <3>5. Unused(call[t].table)' <=> Unused(call[t].table)
      BY <1>3 DEF Unused
    <3>6. NoTable(t)' <=> NoTable(t)
      BY <1>3 DEF NoTable, Page
    <3> QED BY <1>3, <1>7, <1>8, <3>2, <3>3, <3>4, <3>5, <3>6 DEF FrameOK
  <2>3. FramesOf(t)'
    <3>1. \A g \in Frames : MarkedBy(t, g)' <=> (g = f \/ MarkedBy(t, g))
      BY <1>8 DEF MarkedBy, HasFrame, HasTable
    <3>2. \A s \in Spaces : \A v \in Pages(s) : ~ReturnedBy(t, s, v)' /\ ~ReturnedBy(t, s, v)
      BY <1>7, <1>8 DEF ReturnedBy, HasFrame
    <3> QED BY <1>2, <1>3, <1>5, <3>1, <3>2 DEF FramesOf
  <2>4. PagesOf(t)'
    <3>1. InWork(t)' = InWork(t)
      BY <1>7, <1>8 DEF InWork, Page, HasFrame
    <3> QED BY <1>2, <1>3, <3>1 DEF PagesOf
  <2> QED BY <2>1, <2>2, <2>3, <2>4
<1>9. c.op # "free"
  <2>1. c.op \in {"get", "stack"}
    BY <1>2, <1>7 DEF CallOK
  <2> QED BY <2>1
<1>10. c \in Calls /\ c.n < c.cnt /\ c.op = call[t].op /\ c.lock = call[t].lock /\ c.va = call[t].va /\ c.cnt = call[t].cnt
  BY <1>2
<1> HIDE DEF c
<1>11. /\ x \in {"mark", "palloc", "touch"} \cup HasFrame => c.op # "free"
       /\ x \in {"header", "pfree", "unmap", "vremove"} => c.op = "free"
       /\ x = "mark" => pc[t] = "mark"
       /\ x \in {"header", "touch"} => c.n = 0
       /\ \A s \in Spaces : \A v \in Pages(s) : pte'[s][v] = pte[s][v] \/ (s = Space(t) /\ v \in CallRun(t))
  BY <1>3, <1>7, <1>9
<1> QED BY <1>1, <1>3, <1>4, <1>5, <1>6, <1>7, <1>8, <1>10, <1>11, WorkStep

LEMMA TakeFrameStep ==
  ASSUME IInv, NEW t \in Threads, TakeFrame(t)
  PROVE  IInv'
<1>1. pc[t] = "take" /\ Take(t, call[t].frame, "map") /\ Inside(t)
  BY DEF TakeFrame, At, Inside, Working, HasFrame
<1>2. call[t].frame \in Frames /\ "map" \in HasFrame
  BY <1>1, InCall DEF FrameOK, Unused, HasFrame
<1>3. PICK f \in Frames : f = call[t].frame
  BY <1>2
<1> QED BY <1>1, <1>2, <1>3, TakeStep DEF Take

LEMMA TakeTableStep ==
  ASSUME IInv, NEW t \in Threads, TakeTable(t)
  PROVE  IInv'
<1>1. pc[t] = "taketable" /\ Take(t, call[t].table, "settable") /\ Inside(t)
  BY DEF TakeTable, At, Inside, Working, HasFrame
<1>2. call[t].table \in Frames /\ "settable" \in HasFrame
  BY <1>1, InCall DEF FrameOK, Unused, HasFrame, HasTable
<1>3. PICK f \in Frames : f = call[t].table
  BY <1>2
<1> QED BY <1>1, <1>2, <1>3, TakeStep DEF Take

\* page_table_add is done with one page.
LEMMA AdvanceFacts ==
  ASSUME ShapeOK, NEW t \in Threads, call[t].n < call[t].cnt, Advance(t)
  PROVE  \E c \in Calls :
           /\ Moves(t, IF LastPage(t) THEN "touch" ELSE "palloc", c)
           /\ c.op = call[t].op /\ c.lock = call[t].lock /\ c.va = call[t].va /\ c.cnt = call[t].cnt
           /\ c.n = NextN(t)
<1> DEFINE c1 == [call[t] EXCEPT !.n = NextN(t)]
           c2 == [c1 EXCEPT !.frame = NoFrame]
           c3 == [c2 EXCEPT !.table = NoFrame]
<1>0. call[t] \in Calls /\ NextN(t) \in Nat /\ NoFrame \in Frames \cup {NoFrame}
  BY NextPage DEF ShapeOK
<1>1. c1 \in Calls /\ c1.op = call[t].op /\ c1.lock = call[t].lock /\ c1.va = call[t].va /\ c1.cnt = call[t].cnt
      /\ c1.n = NextN(t)
  BY <1>0, SetN
<1>2. c2 \in Calls /\ c2.op = call[t].op /\ c2.lock = call[t].lock /\ c2.va = call[t].va /\ c2.cnt = call[t].cnt
      /\ c2.n = NextN(t)
  <2> HIDE DEF c1
  <2> QED BY <1>0, <1>1, SetFrame
<1>3. c3 \in Calls /\ c3.op = call[t].op /\ c3.lock = call[t].lock /\ c3.va = call[t].va /\ c3.cnt = call[t].cnt
      /\ c3.n = NextN(t)
  <2> HIDE DEF c2
  <2> QED BY <1>0, <1>2, SetTableFrame
<1>4. call' = [call EXCEPT ![t] = c3]
  <2>1. call' = [call EXCEPT ![t].n = NextN(t), ![t].frame = NoFrame, ![t].table = NoFrame]
    BY DEF Advance, NextN
  <2>2. t \in DOMAIN call
    BY DEF ShapeOK
  <2> DEFINE d1 == [call EXCEPT ![t].n = NextN(t)]
             d2 == [d1 EXCEPT ![t].frame = NoFrame]
  <2>3. call' = [d2 EXCEPT ![t].table = NoFrame]
    BY <2>1
  <2>4. d1 = [call EXCEPT ![t] = c1]
    OBVIOUS
  <2>5. d2 = [call EXCEPT ![t] = c2]
    <3> HIDE DEF c1, d1
    <3> QED BY <2>2, <2>4
  <2>6. [d2 EXCEPT ![t].table = NoFrame] = [call EXCEPT ![t] = c3]
    <3> HIDE DEF c2, d2
    <3> QED BY <2>2, <2>5
  <2> QED BY <2>3, <2>6
<1>5. pc' = [pc EXCEPT ![t] = IF LastPage(t) THEN "touch" ELSE "palloc"]
  <2>1. CASE LastPage(t)
    BY <2>1 DEF Advance, Goto
  <2>2. CASE ~LastPage(t)
    BY <2>2 DEF Advance, Goto
  <2> QED BY <2>1, <2>2
<1> HIDE DEF c3
<1> QED BY <1>3, <1>4, <1>5 DEF Moves

\* A page table entry is written.
WriteEntry(s, v, f) == pte' = [pte EXCEPT ![s][v] = f]
WriteTable(s, k, f) == pde' = [pde EXCEPT ![s][k] = f]

LEMMA EntrySet ==
  ASSUME ShapeOK, NEW s \in Spaces, NEW v \in Pages(s), NEW f \in Frames \cup {NoFrame},
         WriteEntry(s, v, f)
  PROVE  /\ DOMAIN pte' = Spaces /\ \A r \in Spaces : pte'[r] \in [Pages(r) -> Frames \cup {NoFrame}]
         /\ pte'[s][v] = f
         /\ \A r \in Spaces : \A w \in Pages(r) : r # s \/ w # v => pte'[r][w] = pte[r][w]
<1>1. DOMAIN pte = Spaces /\ \A r \in Spaces : pte[r] \in [Pages(r) -> Frames \cup {NoFrame}]
  BY DEF ShapeOK
<1>2. DOMAIN pte' = Spaces /\ pte'[s] = [pte[s] EXCEPT ![v] = f] /\ \A r \in Spaces \ {s} : pte'[r] = pte[r]
  BY <1>1 DEF WriteEntry
<1> QED BY <1>1, <1>2

LEMMA TableSet ==
  ASSUME ShapeOK, NEW s \in Procs, NEW k \in Tables, NEW f \in Frames,
         WriteTable(s, k, f)
  PROVE  /\ pde' \in [Procs -> [Tables -> Frames \cup {NoFrame}]]
         /\ pde'[s][k] = f
         /\ \A r \in Procs : \A l \in Tables : r # s \/ l # k => pde'[r][l] = pde[r][l]
<1>1. pde \in [Procs -> [Tables -> Frames \cup {NoFrame}]]
  BY DEF ShapeOK
<1>2. pde'[s] = [pde[s] EXCEPT ![k] = f] /\ \A r \in Procs \ {s} : pde'[r] = pde[r]
  BY <1>1 DEF WriteTable
<1>3. pde[s] \in [Tables -> Frames \cup {NoFrame}]
  BY <1>1
<1>4. pde'[s] \in [Tables -> Frames \cup {NoFrame}]
  BY <1>2, <1>3
<1>5. pde' = [r \in Procs |-> pde'[r]]
  BY <1>1 DEF WriteTable
<1>6. \A r \in Procs : pde'[r] \in [Tables -> Frames \cup {NoFrame}]
  BY <1>1, <1>2, <1>4
<1>7. pde' \in [Procs -> [Tables -> Frames \cup {NoFrame}]]
  BY <1>5, <1>6
<1>8. pde'[s][k] = f /\ \A l \in Tables : l # k => pde'[s][l] = pde[s][l]
  BY <1>2, <1>3
<1> QED BY <1>2, <1>7, <1>8

LEMMA MappedStep ==
  ASSUME IInv, NEW t \in Threads, Mapped(t), UNCHANGED <<cpuVars, owner, level, pool, vmap, held, panic>>,
         \/ pc[t] = "map" /\ pde' = pde
         \/ pc[t] = "settable" /\ pde' = [pde EXCEPT ![t][Table(Page(t))] = call[t].table]
  PROVE  IInv'
<1>0. PICK S, P, f, g, k : S = Space(t) /\ P = Page(t) /\ f = call[t].frame /\ g = call[t].table /\ k = Table(Page(t))
  OBVIOUS
<1>1. Inside(t) /\ HasRun(t) /\ pc[t] \in HasFrame
  BY DEF Inside, HasRun, Working, HasFrame
<1>2. /\ ShapeOK /\ CallOK(t) /\ RunOK(t) /\ FrameOK(t) /\ FramesApart /\ FramesOf(t) /\ PagesOf(t)
      /\ call[t] \in Calls /\ call[t].va \in Nat /\ call[t].n \in Nat /\ call[t].cnt \in Nat \ {0}
      /\ call[t].n < call[t].cnt /\ P \in Nat /\ P = call[t].va + call[t].n
      /\ P \in CallRun(t) /\ CallRun(t) \subseteq Pages(S)
  BY <1>0, <1>1, InCall DEF Page
<1>3. S \in Spaces /\ P \in Pages(S)
  BY <1>0, <1>2, SpaceFacts
<1>4. Unused(f) /\ f \in Frames /\ f # NoFrame /\ PoolOf(f) = Pool(t)
  BY <1>0, <1>1, <1>2, BitOfFrame DEF FrameOK, Unused
<1>5. pte[S][P] = NoFrame
  <2>1. ~GotPage(t, P)
    BY <1>0, <1>1, <1>2 DEF GotPage, HasFrame
  <2> QED BY <1>0, <1>1, <1>2, <2>1 DEF RunOK
<1>6. /\ DOMAIN pte' = Spaces /\ \A r \in Spaces : pte'[r] \in [Pages(r) -> Frames \cup {NoFrame}]
      /\ pte'[S][P] = f
      /\ \A r \in Spaces : \A w \in Pages(r) : r # S \/ w # P => pte'[r][w] = pte[r][w]
  <2>1. WriteEntry(S, P, f)
    BY <1>0 DEF Mapped, WriteEntry
  <2>2. f \in Frames \cup {NoFrame}
    BY <1>4
  <2> QED BY <1>2, <1>3, <2>1, <2>2, EntrySet
<1>7. /\ pde' \in [Procs -> [Tables -> Frames \cup {NoFrame}]]
      /\ \/ pc[t] = "map" /\ \A r \in Procs : \A l \in Tables : pde'[r][l] = pde[r][l]
         \/ /\ pc[t] = "settable" /\ Unused(g) /\ g \in Frames /\ g # f /\ g # NoFrame
            /\ t \in Procs /\ k \in Tables /\ pde[t][k] = NoFrame /\ pde'[t][k] = g
            /\ \A r \in Procs : \A l \in Tables : r # t \/ l # k => pde'[r][l] = pde[r][l]
  <2>1. CASE pc[t] = "map" /\ pde' = pde
    BY <1>2, <2>1 DEF ShapeOK
  <2>2. CASE pc[t] = "settable" /\ pde' = [pde EXCEPT ![t][Table(Page(t))] = call[t].table]
    <3>1. Unused(g) /\ g # f /\ NoTable(t)
      BY <1>0, <1>2, <2>2 DEF FrameOK, HasTable
    <3>2. t \in Procs /\ pde[t][k] = NoFrame
      BY <1>0, <3>1 DEF NoTable
    <3>3. g \in Frames /\ g # NoFrame
      BY <3>1, BitOfFrame DEF Unused
    <3>4. k \in Tables
      <4>1. S = t
        BY <1>0, <3>2, SpaceFacts
      <4> QED BY <1>0, <1>3, <3>2, <4>1, TableOfPage
    <3>5. WriteTable(t, k, g)
      BY <1>0, <2>2 DEF WriteTable
    <3>6. /\ pde' \in [Procs -> [Tables -> Frames \cup {NoFrame}]]
          /\ pde'[t][k] = g
          /\ \A r \in Procs : \A l \in Tables : r # t \/ l # k => pde'[r][l] = pde[r][l]
      BY <1>2, <3>2, <3>3, <3>4, <3>5, TableSet
    <3> QED BY <2>2, <3>1, <3>2, <3>3, <3>4, <3>6
  <2> QED BY <2>1, <2>2
<1>8. FramesApart'
  <2>1. \A s, r \in Spaces : \A v \in Pages(s), w \in Pages(r) :
          pte'[s][v] = pte'[r][w] /\ pte'[s][v] # NoFrame => s = r /\ v = w
    BY <1>2, <1>3, <1>4, <1>6 DEF FramesApart, Unused
  <2>2. \A s, r \in Procs : \A i, l \in Tables :
          pde'[s][i] = pde'[r][l] /\ pde'[s][i] # NoFrame => s = r /\ i = l
    BY <1>2, <1>7 DEF FramesApart, Unused
  <2>3. \A s \in Spaces, r \in Procs : \A v \in Pages(s), l \in Tables :
          pte'[s][v] = pde'[r][l] => pte'[s][v] = NoFrame
    <3> SUFFICES ASSUME NEW s \in Spaces, NEW r \in Procs, NEW v \in Pages(s), NEW l \in Tables,
                        pte'[s][v] = pde'[r][l]
                 PROVE  pte'[s][v] = NoFrame
      OBVIOUS
    <3>1. CASE pde'[r][l] = pde[r][l]
      <4>1. CASE s = S /\ v = P
        BY <1>4, <1>6, <3>1, <4>1 DEF Unused
      <4>2. CASE ~(s = S /\ v = P)
        BY <1>2, <1>6, <3>1, <4>2 DEF FramesApart
      <4> QED BY <4>1, <4>2
    <3>2. CASE pde'[r][l] = g /\ Unused(g) /\ g # f
      <4>1. CASE s = S /\ v = P
        BY <1>6, <3>2, <4>1
      <4>2. CASE ~(s = S /\ v = P)
        BY <1>6, <3>2, <4>2 DEF Unused
      <4> QED BY <4>1, <4>2
    <3> QED BY <1>7, <3>1, <3>2
  <2>4. \A s \in Spaces : \A v \in Pages(s) :
          pte'[s][v] # NoFrame => PoolOf(pte'[s][v]) = IF s = Kernel THEN "kernel" ELSE "user"
    <3>1. PoolOf(f) = IF S = Kernel THEN "kernel" ELSE "user"
      <4>1. S = Kernel <=> t \notin Procs
        BY <1>0 DEF Space
      <4> QED BY <1>4, <4>1 DEF Pool
    <3> SUFFICES ASSUME NEW s \in Spaces, NEW v \in Pages(s), pte'[s][v] # NoFrame
                 PROVE  PoolOf(pte'[s][v]) = IF s = Kernel THEN "kernel" ELSE "user"
      OBVIOUS
    <3>2. CASE s = S /\ v = P
      BY <1>6, <3>1, <3>2
    <3>3. CASE ~(s = S /\ v = P)
      BY <1>2, <1>6, <3>3 DEF FramesApart
    <3> QED BY <3>2, <3>3
  <2> QED BY <2>1, <2>2, <2>3, <2>4 DEF FramesApart
<1>9. PICK x \in {"touch", "palloc"} : (x = "touch" <=> LastPage(t)) /\ x = IF LastPage(t) THEN "touch" ELSE "palloc"
  <2>1. CASE LastPage(t)
    BY <2>1
  <2>2. CASE ~LastPage(t)
    BY <2>2
  <2> QED BY <2>1, <2>2
<1>10. PICK c \in Calls :
           /\ Moves(t, x, c)
           /\ c.op = call[t].op /\ c.lock = call[t].lock /\ c.va = call[t].va /\ c.cnt = call[t].cnt
           /\ c.n = NextN(t)
  BY <1>2, <1>9, AdvanceFacts DEF Mapped
<1>11. /\ NextN(t) \in Nat /\ NextN(t) < call[t].cnt
       /\ LastPage(t) => NextN(t) = 0 /\ P = call[t].va + call[t].cnt - 1
       /\ ~LastPage(t) => call[t].va + NextN(t) = P + 1
  BY <1>0, <1>2, NextPage
<1>12. ASSUME pc'[t] = x, call'[t] = c, CallRun(t)' = CallRun(t)
       PROVE  RunOK(t)' /\ FrameOK(t)' /\ FramesOf(t)' /\ PagesOf(t)'
  <2>0. \A v \in CallRun(t) : v \in Int /\ v >= call[t].va /\ v <= call[t].va + call[t].cnt - 1
    BY <1>2 DEF CallRun
  <2>1. \A v \in CallRun(t) : (GotPage(t, v) <=> v < P) /\ (GotPage(t, v)' <=> v <= P)
    <3> SUFFICES ASSUME NEW v \in CallRun(t) PROVE (GotPage(t, v) <=> v < P) /\ (GotPage(t, v)' <=> v <= P)
      OBVIOUS
    <3>1. GotPage(t, v) <=> v < P
      BY <1>0, <1>1 DEF GotPage, HasFrame
    <3>2. GotPage(t, v)' <=> x = "touch" \/ v < c.va + c.n
      BY <1>9, <1>12 DEF GotPage, HasFrame, Page
    <3>3. CASE LastPage(t)
      BY <1>9, <1>11, <2>0, <3>1, <3>2, <3>3
    <3>4. CASE ~LastPage(t)
      BY <1>2, <1>9, <1>10, <1>11, <2>0, <3>1, <3>2, <3>4
    <3> QED BY <3>3, <3>4
  <2>2. RunOK(t)'
    <3> SUFFICES ASSUME NEW v \in CallRun(t) PROVE pte'[S][v] # NoFrame <=> GotPage(t, v)'
      BY <1>0, <1>12 DEF RunOK
    <3>1. CASE v = P
      BY <1>2, <1>4, <1>6, <2>1, <3>1
    <3>2. CASE v # P
      <4>1. pte'[S][v] = pte[S][v]
        BY <1>2, <1>3, <1>6, <3>2
      <4>2. pte[S][v] # NoFrame <=> GotPage(t, v)
        BY <1>0, <1>1, <1>2 DEF RunOK
      <4> QED BY <1>2, <2>0, <2>1, <3>2, <4>1, <4>2
    <3> QED BY <3>1, <3>2
  <2>3. FrameOK(t)'
    BY <1>12 DEF FrameOK, HasFrame, HasTable
  <2>4. FramesOf(t)'
    <3>1. \A h \in Frames : ~MarkedBy(t, h)'
      BY <1>12 DEF MarkedBy, HasFrame, HasTable
    <3>2. \A s \in Spaces : \A v \in Pages(s) : ~ReturnedBy(t, s, v)' /\ ~ReturnedBy(t, s, v)
      BY <1>1, <1>12 DEF ReturnedBy, HasFrame
    <3> SUFFICES ASSUME NEW h \in Frames
                 PROVE  pool[PoolOf(h)][h - PoolStart(PoolOf(h))] <=>
                          \/ \E s \in Spaces : \E v \in Pages(s) : pte'[s][v] = h
                          \/ \E s \in Procs, l \in Tables : pde'[s][l] = h
      BY <3>1, <3>2 DEF FramesOf
    <3>3. pool[PoolOf(h)][h - PoolStart(PoolOf(h))] <=>
            \/ \E s \in Spaces : \E v \in Pages(s) : pte[s][v] = h
            \/ \E s \in Procs, l \in Tables : pde[s][l] = h
            \/ h = f \/ (pc[t] = "settable" /\ h = g)
      <4>1. MarkedBy(t, h) <=> h = f \/ (pc[t] = "settable" /\ h = g)
        BY <1>0 DEF MarkedBy, HasFrame, HasTable
      <4> QED BY <1>2, <3>2, <4>1 DEF FramesOf
    <3>4. h # NoFrame
      BY BitOfFrame
    <3>5. (\E s \in Spaces : \E v \in Pages(s) : pte'[s][v] = h) <=>
            (\E s \in Spaces : \E v \in Pages(s) : pte[s][v] = h) \/ h = f
      BY <1>3, <1>5, <1>6, <3>4
    <3>6. (\E s \in Procs, l \in Tables : pde'[s][l] = h) <=>
            (\E s \in Procs, l \in Tables : pde[s][l] = h) \/ (pc[t] = "settable" /\ h = g)
      BY <1>7, <3>4
    <3> QED BY <3>3, <3>5, <3>6
  <2>5. PagesOf(t)'
    <3>1. ASSUME NEW v \in CallRun(t)
          PROVE  (v \in InWork(t) <=> v >= P) /\ (v \in InWork(t)' <=> v > P)
      <4>1. v \in InWork(t) <=> v >= P
        BY <1>0, <1>1 DEF InWork, HasFrame, CallRun
      <4>2. v \in InWork(t)' <=> x = "palloc" /\ v >= c.va + c.n
        BY <1>9, <1>10, <1>12 DEF InWork, HasFrame, CallRun, Page
      <4>3. CASE LastPage(t)
        BY <1>2, <1>9, <1>11, <2>0, <4>1, <4>2, <4>3
      <4>4. CASE ~LastPage(t)
        BY <1>2, <1>9, <1>10, <1>11, <2>0, <4>1, <4>2, <4>4
      <4> QED BY <4>3, <4>4
    <3>2. InWork(t) \subseteq CallRun(t) /\ InWork(t)' \subseteq CallRun(t)
      BY <1>12 DEF InWork, CallRun
    <3> SUFFICES ASSUME NEW s \in Spaces, NEW v \in Pages(s)
                 PROVE  vmap[s][v] <=> pte'[s][v] # NoFrame \/ (S = s /\ v \in InWork(t)')
      BY <1>0 DEF PagesOf
    <3>3. vmap[s][v] <=> pte[s][v] # NoFrame \/ (S = s /\ v \in InWork(t))
      BY <1>0, <1>2 DEF PagesOf
    <3>4. CASE s = S /\ v = P
      <4>1. P \in InWork(t)
        BY <1>2, <3>1
      <4> QED BY <1>4, <1>6, <3>3, <3>4, <4>1
    <3>5. CASE ~(s = S /\ v = P)
      <4>1. pte'[s][v] = pte[s][v]
        BY <1>6, <3>5
      <4>2. S = s => (v \in InWork(t) <=> v \in InWork(t)')
        <5> SUFFICES ASSUME v \in CallRun(t), v # P PROVE v \in InWork(t) <=> v \in InWork(t)'
          BY <3>2, <3>5
        <5> QED BY <1>2, <2>0, <3>1
      <4> QED BY <3>3, <4>1, <4>2
    <3> QED BY <3>4, <3>5
  <2> QED BY <2>2, <2>3, <2>4, <2>5
<1>13. c.op # "free" /\ c.n < c.cnt
  BY <1>1, <1>2, <1>10, <1>11 DEF CallOK
<1>14. /\ x \in {"mark", "palloc", "touch"} \cup HasFrame => c.op # "free"
       /\ x \in {"header", "pfree", "unmap", "vremove"} => c.op = "free"
       /\ x = "mark" => pc[t] = "mark"
       /\ x \in {"header", "touch"} => c.n = 0
       /\ x \in Working
  BY <1>9, <1>10, <1>11, <1>13 DEF Working, HasFrame
<1>15. \A s \in Spaces : \A v \in Pages(s) : pte'[s][v] = pte[s][v] \/ (s = Space(t) /\ v \in CallRun(t))
  BY <1>0, <1>2, <1>6
<1>16. /\ DOMAIN pool' = Pools /\ \A p \in Pools : pool'[p] \in [0 .. PoolSize(p) -> BOOLEAN]
       /\ DOMAIN vmap' = Spaces /\ \A s \in Spaces : vmap'[s] \in [Pages(s) -> BOOLEAN]
       /\ UNCHANGED <<cpuVars, owner, level, held, panic>>
  BY <1>2 DEF ShapeOK
<1> QED BY <1>1, <1>6, <1>7, <1>8, <1>10, <1>12, <1>13, <1>14, <1>15, <1>16, WorkStep

LEMMA MapPageStep ==
  ASSUME IInv, NEW t \in Threads, MapPage(t)
  PROVE  IInv'
<1>1. pc[t] = "map" /\ Inside(t) /\ HasRun(t)
  BY DEF MapPage, At, Inside, HasRun, Working, HasFrame
<1>2. pte[Space(t)][Page(t)] = NoFrame
  <2>1. RunOK(t) /\ Page(t) \in CallRun(t) /\ Page(t) \in Nat
    BY <1>1, InCall
  <2>2. ~GotPage(t, Page(t))
    BY <1>1, <2>1 DEF GotPage, HasFrame
  <2> QED BY <1>1, <2>1, <2>2 DEF RunOK
<1> QED BY <1>1, <1>2, MappedStep DEF MapPage

LEMMA SetTableStep ==
  ASSUME IInv, NEW t \in Threads, SetTable(t)
  PROVE  IInv'
<1>1. pc[t] = "settable"
  BY DEF SetTable, At
<1> QED BY <1>1, MappedStep DEF SetTable

LEMMA PFreeStep ==
  ASSUME IInv, NEW t \in Threads, PFree(t)
  PROVE  IInv'
<1>0. PICK S, P, f : S = Space(t) /\ P = Page(t) /\ f = pte[Space(t)][Page(t)]
  OBVIOUS
<1> DEFINE c == call[t]
<1>1. pc[t] = "pfree" /\ Inside(t) /\ HasRun(t)
  BY DEF PFree, At, Inside, HasRun, Working
<1>2. /\ ShapeOK /\ CallOK(t) /\ RunOK(t) /\ FrameOK(t) /\ FramesApart /\ FramesOf(t) /\ PagesOf(t)
      /\ call[t] \in Calls /\ call[t].n < call[t].cnt /\ P \in Nat
      /\ P \in CallRun(t) /\ CallRun(t) \subseteq Pages(S)
  BY <1>0, <1>1, InCall
<1>3. S \in Spaces /\ P \in Pages(S) /\ f = pte[S][P]
  BY <1>0, <1>2, SpaceFacts
<1>4. f # NoFrame
  <2>1. GotPage(t, P)
    BY <1>0, <1>1, <1>2 DEF GotPage
  <2> QED BY <1>0, <1>1, <1>2, <2>1 DEF RunOK
<1>5. f \in Frames
  BY <1>2, <1>3, <1>4 DEF ShapeOK
<1>6. PoolOf(f) = PoolOf(call[t].frame)
  <2>1. PoolOf(f) = IF S = Kernel THEN "kernel" ELSE "user"
    BY <1>2, <1>3, <1>4 DEF FramesApart
  <2>2. S = Kernel <=> t \notin Procs
    BY <1>0 DEF Space
  <2>3. PoolOf(call[t].frame) = Pool(t)
    BY <1>1, <1>2 DEF FrameOK
  <2> QED BY <2>1, <2>2, <2>3 DEF Pool
<1>7. /\ UNCHANGED <<cpuVars, owner, level, held, panic>> /\ vmap' = vmap /\ pte' = pte /\ pde' = pde /\ call' = call
      /\ pool' = [pool EXCEPT ![PoolOf(f)][f - PoolStart(PoolOf(f))] = FALSE]
      /\ pc' = [pc EXCEPT ![t] = "unmap"]
  BY <1>0, <1>4, <1>6 DEF PFree, Goto, mapVars
<1>8. Moves(t, "unmap", c)
  BY <1>2, <1>7 DEF Moves, ShapeOK
<1>9. /\ DOMAIN pool' = Pools /\ \A p \in Pools : pool'[p] \in [0 .. PoolSize(p) -> BOOLEAN]
      /\ \A g \in Frames : pool'[PoolOf(g)][g - PoolStart(PoolOf(g))] <=>
                                (g # f /\ pool[PoolOf(g)][g - PoolStart(PoolOf(g))])
  BY <1>2, <1>5, <1>7, BitCleared
<1>10. /\ DOMAIN vmap' = Spaces /\ \A s \in Spaces : vmap'[s] \in [Pages(s) -> BOOLEAN]
       /\ DOMAIN pte' = Spaces /\ \A s \in Spaces : pte'[s] \in [Pages(s) -> Frames \cup {NoFrame}]
       /\ pde' \in [Procs -> [Tables -> Frames \cup {NoFrame}]]
       /\ FramesApart'
  BY <1>2, <1>7 DEF ShapeOK, FramesApart
<1>11. ASSUME pc'[t] = "unmap", call'[t] = c, CallRun(t)' = CallRun(t)
       PROVE  RunOK(t)' /\ FrameOK(t)' /\ FramesOf(t)' /\ PagesOf(t)'
  <2>1. RunOK(t)'
    <3>1. \A v \in CallRun(t) : GotPage(t, v) <=> GotPage(t, v)'
      BY <1>1, <1>11 DEF GotPage, Page, HasFrame
    <3> QED BY <1>1, <1>2, <1>7, <1>11, <3>1 DEF RunOK
  <2>2. FrameOK(t)'
    BY <1>1, <1>2, <1>11 DEF FrameOK, HasFrame, HasTable
  <2>3. FramesOf(t)'
    <3>1. \A h \in Frames : ~MarkedBy(t, h)' /\ ~MarkedBy(t, h)
      BY <1>1, <1>11 DEF MarkedBy, HasFrame, HasTable
    <3>2. \A s \in Spaces : \A v \in Pages(s) : ~ReturnedBy(t, s, v) /\ (ReturnedBy(t, s, v)' <=> s = S /\ v = P)
      BY <1>0, <1>1, <1>11 DEF ReturnedBy, Page
    <3> SUFFICES ASSUME NEW h \in Frames
                 PROVE  pool'[PoolOf(h)][h - PoolStart(PoolOf(h))] <=>
                          \/ \E s \in Spaces : \E v \in Pages(s) : pte[s][v] = h /\ ~(s = S /\ v = P)
                          \/ \E s \in Procs, l \in Tables : pde[s][l] = h
      BY <1>7, <3>1, <3>2 DEF FramesOf
    <3>3. pool[PoolOf(h)][h - PoolStart(PoolOf(h))] <=>
            \/ \E s \in Spaces : \E v \in Pages(s) : pte[s][v] = h
            \/ \E s \in Procs, l \in Tables : pde[s][l] = h
      BY <1>2, <3>1, <3>2 DEF FramesOf
    <3>4. CASE h = f
      <4>1. \A s \in Spaces : \A v \in Pages(s) : pte[s][v] = h => s = S /\ v = P
        BY <1>2, <1>3, <1>4, <3>4 DEF FramesApart
      <4>2. \A s \in Procs, l \in Tables : pde[s][l] # h
        BY <1>2, <1>3, <1>4, <3>4 DEF FramesApart
      <4> QED BY <1>9, <3>4, <4>1, <4>2
    <3>5. CASE h # f
      <4>1. \A s \in Spaces : \A v \in Pages(s) : pte[s][v] = h => ~(s = S /\ v = P)
        BY <1>3, <3>5
      <4> QED BY <1>9, <3>3, <3>5, <4>1
    <3> QED BY <3>4, <3>5
  <2>4. PagesOf(t)'
    <3>1. InWork(t)' = InWork(t)
      BY <1>1, <1>11 DEF InWork, Page, HasFrame
    <3> QED BY <1>2, <1>7, <3>1 DEF PagesOf
  <2> QED BY <2>1, <2>2, <2>3, <2>4
<1>12. c.op = "free" /\ c \in Calls /\ c.n < c.cnt /\ c.op = call[t].op /\ c.lock = call[t].lock
       /\ c.va = call[t].va /\ c.cnt = call[t].cnt
  BY <1>1, <1>2 DEF CallOK
<1> HIDE DEF c
<1>13. /\ "unmap" \notin {"mark", "palloc", "touch"} \cup HasFrame /\ "unmap" \in Working
       /\ \A s \in Spaces : \A v \in Pages(s) : pte'[s][v] = pte[s][v] \/ (s = Space(t) /\ v \in CallRun(t))
  BY <1>7 DEF Working, HasFrame
<1> QED BY <1>1, <1>7, <1>8, <1>9, <1>10, <1>11, <1>12, <1>13, WorkStep

LEMMA UnmapStep ==
  ASSUME IInv, NEW t \in Threads, Unmap(t)
  PROVE  IInv'
<1>0. PICK S, P, x : S = Space(t) /\ P = Page(t) /\ x = IF LastPage(t) THEN "vremove" ELSE "pfree"
  OBVIOUS
<1> DEFINE c == [call[t] EXCEPT !.n = NextN(t)]
<1>1. pc[t] = "unmap" /\ Inside(t) /\ HasRun(t)
  BY DEF Unmap, At, Inside, HasRun, Working
<1>2. /\ ShapeOK /\ CallOK(t) /\ RunOK(t) /\ FrameOK(t) /\ FramesApart /\ FramesOf(t) /\ PagesOf(t)
      /\ call[t] \in Calls /\ call[t].va \in Nat /\ call[t].n \in Nat /\ call[t].cnt \in Nat \ {0}
      /\ call[t].n < call[t].cnt /\ P \in Nat /\ P = call[t].va + call[t].n
      /\ P \in CallRun(t) /\ CallRun(t) \subseteq Pages(S)
  BY <1>0, <1>1, InCall DEF Page
<1>3. S \in Spaces /\ P \in Pages(S)
  BY <1>0, <1>2, SpaceFacts
<1>4. pte[S][P] # NoFrame
  <2>1. GotPage(t, P)
    BY <1>0, <1>1, <1>2 DEF GotPage
  <2> QED BY <1>0, <1>1, <1>2, <2>1 DEF RunOK
<1>5. /\ UNCHANGED <<cpuVars, owner, level, held, panic>> /\ vmap' = vmap /\ pool' = pool /\ pde' = pde
      /\ WriteEntry(S, P, NoFrame)
  BY <1>0 DEF Unmap, WriteEntry
<1>6. /\ DOMAIN pte' = Spaces /\ \A r \in Spaces : pte'[r] \in [Pages(r) -> Frames \cup {NoFrame}]
      /\ pte'[S][P] = NoFrame
      /\ \A r \in Spaces : \A w \in Pages(r) : r # S \/ w # P => pte'[r][w] = pte[r][w]
  <2>1. NoFrame \in Frames \cup {NoFrame}
    OBVIOUS
  <2> QED BY <1>2, <1>3, <1>5, <2>1, EntrySet
<1>7. x \in {"vremove", "pfree"} /\ (x = "vremove" <=> LastPage(t)) /\ x \in Working /\ x \notin HasFrame
  <2>1. CASE LastPage(t)
    BY <1>0, <2>1 DEF Working, HasFrame
  <2>2. CASE ~LastPage(t)
    BY <1>0, <2>2 DEF Working, HasFrame
  <2> QED BY <2>1, <2>2
<1>8. Moves(t, x, c)
  <2>1. CASE LastPage(t)
    BY <1>0, <2>1 DEF Unmap, Goto, Moves, NextN
  <2>2. CASE ~LastPage(t)
    BY <1>0, <2>2 DEF Unmap, Goto, Moves, NextN
  <2> QED BY <2>1, <2>2
<1>9. /\ NextN(t) \in Nat /\ NextN(t) < call[t].cnt
      /\ LastPage(t) => NextN(t) = 0 /\ P = call[t].va + call[t].cnt - 1
      /\ ~LastPage(t) => call[t].va + NextN(t) = P + 1
  BY <1>0, <1>2, NextPage
<1>10. /\ c \in Calls /\ c.op = call[t].op /\ c.lock = call[t].lock /\ c.va = call[t].va /\ c.cnt = call[t].cnt
       /\ c.n = NextN(t) /\ c.frame = call[t].frame
  BY <1>2, <1>9, SetN
<1> HIDE DEF c
<1>11. FramesApart'
  <2>0. \A s \in Spaces : \A v \in Pages(s) : pte'[s][v] # NoFrame => pte'[s][v] = pte[s][v]
    BY <1>6
  <2>1. \A s, r \in Spaces : \A v \in Pages(s), w \in Pages(r) :
          pte'[s][v] = pte'[r][w] /\ pte'[s][v] # NoFrame => s = r /\ v = w
    BY <1>2, <2>0 DEF FramesApart
  <2>2. \A s, r \in Procs : \A i, l \in Tables :
          pde'[s][i] = pde'[r][l] /\ pde'[s][i] # NoFrame => s = r /\ i = l
    BY <1>2, <1>5 DEF FramesApart
  <2>3. \A s \in Spaces, r \in Procs : \A v \in Pages(s), l \in Tables :
          pte'[s][v] = pde'[r][l] => pte'[s][v] = NoFrame
    BY <1>2, <1>5, <2>0 DEF FramesApart
  <2>4. \A s \in Spaces : \A v \in Pages(s) :
          pte'[s][v] # NoFrame => PoolOf(pte'[s][v]) = IF s = Kernel THEN "kernel" ELSE "user"
    BY <1>2, <2>0 DEF FramesApart
  <2> QED BY <2>1, <2>2, <2>3, <2>4 DEF FramesApart
<1>12. ASSUME pc'[t] = x, call'[t] = c, CallRun(t)' = CallRun(t)
       PROVE  RunOK(t)' /\ FrameOK(t)' /\ FramesOf(t)' /\ PagesOf(t)'
  <2>0. \A v \in CallRun(t) : v \in Int /\ v >= call[t].va /\ v <= call[t].va + call[t].cnt - 1
    BY <1>2 DEF CallRun
  <2>1. ASSUME NEW v \in CallRun(t) PROVE (GotPage(t, v) <=> v >= P) /\ (GotPage(t, v)' <=> v > P)
    <3>1. GotPage(t, v) <=> v >= P
      BY <1>0, <1>1 DEF GotPage, HasFrame
    <3>2. GotPage(t, v)' <=> x = "pfree" /\ v >= c.va + c.n
      BY <1>7, <1>12 DEF GotPage, HasFrame, Page
    <3>0. v \in Int /\ P \in Nat /\ (LastPage(t) => v <= P)
      BY <1>2, <1>9, <2>0
    <3>3. CASE LastPage(t)
      <4>1. x # "pfree" /\ ~(v > P)
        BY <1>7, <3>0, <3>3
      <4> QED BY <3>1, <3>2, <4>1
    <3>4. CASE ~LastPage(t)
      <4>1. x = "pfree" /\ c.va + c.n = P + 1
        BY <1>7, <1>9, <1>10, <3>4
      <4>2. v >= P + 1 <=> v > P
        BY <3>0
      <4> QED BY <3>1, <3>2, <4>1, <4>2
    <3> QED BY <3>3, <3>4
  <2>2. RunOK(t)'
    <3> SUFFICES ASSUME NEW v \in CallRun(t) PROVE pte'[S][v] # NoFrame <=> GotPage(t, v)'
      BY <1>0, <1>12 DEF RunOK
    <3>1. CASE v = P
      BY <1>2, <1>6, <2>1, <3>1
    <3>2. CASE v # P
      <4>1. pte'[S][v] = pte[S][v]
        BY <1>2, <1>3, <1>6, <3>2
      <4>2. pte[S][v] # NoFrame <=> GotPage(t, v)
        BY <1>0, <1>1, <1>2 DEF RunOK
      <4>3. v \in Int /\ P \in Nat
        BY <1>2, <2>0
      <4>4. v >= P <=> v > P
        BY <3>2, <4>3
      <4> QED BY <2>1, <4>1, <4>2, <4>4
    <3> QED BY <3>1, <3>2
  <2>3. FrameOK(t)'
    <3>1. PoolOf(call[t].frame) = Pool(t)
      BY <1>1, <1>2 DEF FrameOK
    <3>2. x \notin HasFrame /\ x \notin HasTable /\ call'[t].frame = call[t].frame
      BY <1>7, <1>10, <1>12 DEF HasFrame, HasTable
    <3> QED BY <1>12, <3>1, <3>2 DEF FrameOK
  <2>4. FramesOf(t)'
    <3>1. \A h \in Frames : ~MarkedBy(t, h)' /\ ~MarkedBy(t, h)
      BY <1>1, <1>7, <1>12 DEF MarkedBy, HasFrame, HasTable
    <3>2. \A s \in Spaces : \A v \in Pages(s) : ~ReturnedBy(t, s, v)' /\ (ReturnedBy(t, s, v) <=> s = S /\ v = P)
      BY <1>0, <1>1, <1>7, <1>12 DEF ReturnedBy, Page
    <3> SUFFICES ASSUME NEW h \in Frames
                 PROVE  pool[PoolOf(h)][h - PoolStart(PoolOf(h))] <=>
                          \/ \E s \in Spaces : \E v \in Pages(s) : pte'[s][v] = h
                          \/ \E s \in Procs, l \in Tables : pde[s][l] = h
      BY <1>5, <3>1, <3>2 DEF FramesOf
    <3>3. pool[PoolOf(h)][h - PoolStart(PoolOf(h))] <=>
            \/ \E s \in Spaces : \E v \in Pages(s) : pte[s][v] = h /\ ~(s = S /\ v = P)
            \/ \E s \in Procs, l \in Tables : pde[s][l] = h
      BY <1>2, <3>1, <3>2 DEF FramesOf
    <3>4. h # NoFrame
      BY BitOfFrame
    <3>5. (\E s \in Spaces : \E v \in Pages(s) : pte'[s][v] = h) <=>
            (\E s \in Spaces : \E v \in Pages(s) : pte[s][v] = h /\ ~(s = S /\ v = P))
      BY <1>3, <1>6, <3>4
    <3> QED BY <3>3, <3>5
  <2>5. PagesOf(t)'
    <3>1. ASSUME NEW v \in CallRun(t)
          PROVE  (v \in InWork(t) <=> v < P) /\ (v \in InWork(t)' <=> v <= P)
      <4>1. v \in InWork(t) <=> v < P
        BY <1>0, <1>1 DEF InWork, HasFrame, CallRun
      <4>2. v \in InWork(t)' <=> (x = "pfree" /\ v < c.va + c.n) \/ (x = "vremove" /\ v >= c.va + c.n)
        BY <1>7, <1>10, <1>12 DEF InWork, HasFrame, CallRun, Page
      <4>0. v \in Int /\ P \in Nat /\ v >= call[t].va /\ (LastPage(t) => v <= P)
        BY <1>2, <1>9, <2>0
      <4>3. CASE LastPage(t)
        <5>1. x = "vremove" /\ c.va + c.n = call[t].va
          BY <1>2, <1>7, <1>9, <1>10, <4>3
        <5> QED BY <4>0, <4>1, <4>2, <4>3, <5>1
      <4>4. CASE ~LastPage(t)
        <5>1. x = "pfree" /\ c.va + c.n = P + 1
          BY <1>7, <1>9, <1>10, <4>4
        <5>2. v < P + 1 <=> v <= P
          BY <4>0
        <5> QED BY <4>1, <4>2, <5>1, <5>2
      <4> QED BY <4>3, <4>4
    <3>2. InWork(t) \subseteq CallRun(t) /\ InWork(t)' \subseteq CallRun(t)
      BY <1>12 DEF InWork, CallRun
    <3> SUFFICES ASSUME NEW s \in Spaces, NEW v \in Pages(s)
                 PROVE  vmap[s][v] <=> pte'[s][v] # NoFrame \/ (S = s /\ v \in InWork(t)')
      BY <1>0, <1>5 DEF PagesOf
    <3>3. vmap[s][v] <=> pte[s][v] # NoFrame \/ (S = s /\ v \in InWork(t))
      BY <1>0, <1>2 DEF PagesOf
    <3>4. CASE s = S /\ v = P
      <4>1. P \in InWork(t)'
        BY <1>2, <3>1
      <4> QED BY <1>4, <3>3, <3>4, <4>1
    <3>5. CASE ~(s = S /\ v = P)
      <4>1. pte'[s][v] = pte[s][v]
        BY <1>6, <3>5
      <4>2. S = s => (v \in InWork(t) <=> v \in InWork(t)')
        <5> SUFFICES ASSUME v \in CallRun(t), v # P PROVE v \in InWork(t) <=> v \in InWork(t)'
          BY <3>2, <3>5
        <5>1. v \in Int /\ P \in Nat
          BY <1>2, <2>0
        <5>2. (v \in InWork(t) <=> v < P) /\ (v \in InWork(t)' <=> v <= P)
          BY <3>1
        <5> QED BY <5>1, <5>2
      <4> QED BY <3>3, <4>1, <4>2
    <3> QED BY <3>4, <3>5
  <2> QED BY <2>2, <2>3, <2>4, <2>5
<1>13. c.op = "free" /\ c.n < c.cnt
  BY <1>1, <1>2, <1>9, <1>10 DEF CallOK
<1>14. /\ x \notin {"mark", "palloc", "touch", "header"} \cup HasFrame
       /\ \A s \in Spaces : \A v \in Pages(s) : pte'[s][v] = pte[s][v] \/ (s = Space(t) /\ v \in CallRun(t))
  BY <1>0, <1>2, <1>6, <1>7
<1>15. /\ DOMAIN pool' = Pools /\ \A p \in Pools : pool'[p] \in [0 .. PoolSize(p) -> BOOLEAN]
       /\ DOMAIN vmap' = Spaces /\ \A s \in Spaces : vmap'[s] \in [Pages(s) -> BOOLEAN]
       /\ pde' \in [Procs -> [Tables -> Frames \cup {NoFrame}]]
  BY <1>2, <1>5 DEF ShapeOK
<1> QED BY <1>1, <1>5, <1>6, <1>7, <1>8, <1>10, <1>11, <1>12, <1>13, <1>14, <1>15, WorkStep

LEMMA VaddrRemoveStep ==
  ASSUME IInv, NEW t \in Threads, VaddrRemove(t)
  PROVE  IInv'
<1>0. PICK S, P : S = Space(t) /\ P = Page(t)
  OBVIOUS
<1>1. pc[t] = "vremove" /\ Inside(t) /\ HasRun(t)
  BY DEF VaddrRemove, At, Inside, HasRun, Working
<1>2. /\ ShapeOK /\ LockOK /\ CallOK(t) /\ RunOK(t) /\ FramesApart /\ FramesOf(t) /\ PagesOf(t) /\ Alone(t)
      /\ HeldOK /\ HeldApart /\ \A u \in Threads : RunApart(u)
      /\ call[t] \in Calls /\ call[t].va \in Nat /\ call[t].n \in Nat /\ call[t].cnt \in Nat \ {0}
      /\ call[t].n < call[t].cnt /\ P \in Nat /\ P = call[t].va + call[t].n
      /\ P \in CallRun(t) /\ CallRun(t) \subseteq Pages(S)
  BY <1>0, <1>1, InCall DEF Page
<1>3. S \in Spaces /\ P \in Pages(S)
  BY <1>0, <1>2, SpaceFacts
<1>4. pte[S][P] = NoFrame
  <2>1. ~GotPage(t, P)
    BY <1>1 DEF GotPage, HasFrame
  <2> QED BY <1>0, <1>1, <1>2, <2>1 DEF RunOK
<1>5. /\ UNCHANGED <<cpuVars, owner, level, held, panic>> /\ pool' = pool /\ pte' = pte /\ pde' = pde
      /\ run' = run /\ booting' = booting /\ UNCHANGED <<owner, level>> /\ UNCHANGED <<cpuVars, owner>>
      /\ held' = held /\ panic' = panic
      /\ vmap' = [vmap EXCEPT ![S][P] = FALSE]
  BY <1>0 DEF VaddrRemove, cpuVars
<1>6. /\ DOMAIN vmap' = Spaces /\ \A s \in Spaces : vmap'[s] \in [Pages(s) -> BOOLEAN]
      /\ vmap'[S][P] = FALSE
      /\ \A s \in Spaces : \A v \in Pages(s) : s # S \/ v # P => vmap'[s][v] = vmap[s][v]
  <2>1. DOMAIN vmap = Spaces /\ \A s \in Spaces : vmap[s] \in [Pages(s) -> BOOLEAN]
    BY <1>2 DEF ShapeOK
  <2> QED BY <1>3, <1>5, <2>1
<1>7. /\ DOMAIN pool' = Pools /\ \A p \in Pools : pool'[p] \in [0 .. PoolSize(p) -> BOOLEAN]
      /\ DOMAIN pte' = Spaces /\ \A s \in Spaces : pte'[s] \in [Pages(s) -> Frames \cup {NoFrame}]
      /\ pde' \in [Procs -> [Tables -> Frames \cup {NoFrame}]]
      /\ FramesApart'
  BY <1>2, <1>5 DEF ShapeOK, FramesApart
<1>8. \A v \in CallRun(t) : v \in Int /\ v >= call[t].va /\ v <= call[t].va + call[t].cnt - 1
  BY <1>2 DEF CallRun
<1>9. /\ NextN(t) \in Nat /\ NextN(t) < call[t].cnt
      /\ LastPage(t) => NextN(t) = 0 /\ P = call[t].va + call[t].cnt - 1
      /\ ~LastPage(t) => NextN(t) = call[t].n + 1 /\ call[t].va + NextN(t) = P + 1
  BY <1>0, <1>2, NextPage
<1>10. \A v \in CallRun(t) : v \in InWork(t) <=> v >= P
  BY <1>0, <1>1 DEF InWork, HasFrame, CallRun
\* What the bitmap says of the pages, once this one's bit is cleared.
<1>11. ASSUME InWork(t)' \subseteq CallRun(t), \A v \in CallRun(t) : v \in InWork(t)' <=> v > P
       PROVE  PagesOf(t)'
  <2> SUFFICES ASSUME NEW s \in Spaces, NEW v \in Pages(s)
               PROVE  vmap'[s][v] <=> pte[s][v] # NoFrame \/ (S = s /\ v \in InWork(t)')
    BY <1>0, <1>5 DEF PagesOf
  <2>1. vmap[s][v] <=> pte[s][v] # NoFrame \/ (S = s /\ v \in InWork(t))
    BY <1>0, <1>2 DEF PagesOf
  <2>2. CASE s = S /\ v = P
    <3>1. ~(P > P)
      BY <1>2
    <3>2. P \notin InWork(t)'
      BY <1>2, <1>11, <3>1
    <3> QED BY <1>4, <1>6, <2>2, <3>2
  <2>3. CASE ~(s = S /\ v = P)
    <3>1. vmap'[s][v] = vmap[s][v]
      BY <1>6, <2>3
    <3>2. S = s => (v \in InWork(t) <=> v \in InWork(t)')
      <4> SUFFICES ASSUME v \in CallRun(t), v # P PROVE v \in InWork(t) <=> v \in InWork(t)'
        <5>1. InWork(t) \subseteq CallRun(t)
          BY DEF InWork, CallRun
        <5> QED BY <1>11, <2>3, <5>1
      <4>1. v \in Int /\ P \in Nat
        BY <1>2, <1>8
      <4>2. v >= P <=> v > P
        BY <4>1
      <4> QED BY <1>10, <1>11, <4>2
    <3> QED BY <2>1, <3>1, <3>2
  <2> QED BY <2>2, <2>3
\* And that nothing changes for the frames.
<1>12. ASSUME \A h \in Frames : ~MarkedBy(t, h)', \A s \in Spaces : \A v \in Pages(s) : ~ReturnedBy(t, s, v)'
       PROVE  FramesOf(t)'
  <2>1. /\ \A h \in Frames : ~MarkedBy(t, h)
        /\ \A s \in Spaces : \A v \in Pages(s) : ~ReturnedBy(t, s, v)
    BY <1>1 DEF MarkedBy, ReturnedBy, HasFrame, HasTable
  <2> QED BY <1>2, <1>5, <1>12, <2>1 DEF FramesOf
<1>13. CASE LastPage(t)
  <2>1. Return(t)
    BY <1>13 DEF VaddrRemove
  <2>2. PICK x \in {"unlock", "idle"}, c \in Calls :
           /\ x \in PCs /\ Moves(t, x, c) /\ c.op = call[t].op
           /\ LockOK' /\ CallOK(t)' /\ ~HasRun(t)' /\ RunOK(t)' /\ FrameOK(t)' /\ Fresh(t)'
           /\ \A f \in Frames : ~MarkedBy(t, f)'
           /\ \A s \in Spaces : \A v \in Pages(s) : ~ReturnedBy(t, s, v)'
           /\ InWork(t)' = {}
    BY <1>1, <1>2, <1>5, <2>1, ReturnFacts
  <2>3. ShapeOK'
    <3>1. booting' \in BOOLEAN /\ DOMAIN held' = Threads /\ panic' \in {"none", "full", "count"}
      BY <1>2, <1>5 DEF ShapeOK
    <3> QED BY <1>2, <1>5, <1>6, <1>7, <2>2, <3>1, ShapeKept
  <2>4. \A u \in Threads : RunApart(u)'
    BY <1>2, <1>5, <2>2, ApartKept
  <2>5. FramesAccounted' /\ PagesAccounted'
    <3>1. FramesOf(t)'
      BY <1>12, <2>2
    <3>2. PagesOf(t)'
      <4>1. \A v \in CallRun(t) : ~(v > P)
        <5> SUFFICES ASSUME NEW v \in CallRun(t) PROVE ~(v > P)
          OBVIOUS
        <5>1. v \in Int /\ P \in Nat /\ v <= P
          BY <1>2, <1>8, <1>9, <1>13
        <5> QED BY <5>1
      <4> QED BY <1>11, <2>2, <4>1
    <3>3. Alone(t)'
      BY <1>2, <2>2, AloneKept
    <3> QED BY <3>1, <3>2, <3>3, AccountsNext
  <2>6. HeldOK' /\ HeldApart'
    <3>1. c.op # "stack" /\ call[t].op # "stack" /\ pc[t] \notin {"none", "start"}
      BY <1>1, <1>2, <2>2 DEF CallOK
    <3>2. UNCHANGED held /\ \A u \in Threads : \A r \in held[u] : \A v \in Run(r) : pte'[Space(u)][v] = pte[Space(u)][v]
      BY <1>5
    <3> QED BY <1>2, <2>2, <3>1, <3>2, HeldKept
  <2>7. UNCHANGED <<pte, pde>> /\ \A u \in Threads \ {t} : held'[u] = held[u]
    BY <1>5
  <2> QED BY <1>7, <2>2, <2>3, <2>4, <2>5, <2>6, <2>7, StepDone
<1>14. CASE ~LastPage(t)
  <2> DEFINE c == [call[t] EXCEPT !.n = NextN(t)]
  <2>1. Moves(t, "vremove", c)
    <3>1. pc' = pc /\ call' = [call EXCEPT ![t].n = NextN(t)]
      BY <1>14 DEF VaddrRemove, NextN
    <3>2. pc' = [pc EXCEPT ![t] = "vremove"]
      BY <1>1, <1>2, <3>1 DEF ShapeOK
    <3> QED BY <3>1, <3>2 DEF Moves
  <2>2. /\ c \in Calls /\ c.op = call[t].op /\ c.lock = call[t].lock /\ c.va = call[t].va /\ c.cnt = call[t].cnt
        /\ c.n = NextN(t) /\ c.frame = call[t].frame
    BY <1>2, <1>9, SetN
  <2> HIDE DEF c
  <2>3. ASSUME pc'[t] = "vremove", call'[t] = c, CallRun(t)' = CallRun(t)
        PROVE  RunOK(t)' /\ FrameOK(t)' /\ FramesOf(t)' /\ PagesOf(t)'
    <3>1. RunOK(t)'
      <4>1. \A v \in CallRun(t) : ~GotPage(t, v) /\ ~GotPage(t, v)'
        BY <1>1, <2>3 DEF GotPage, HasFrame
      <4> QED BY <1>1, <1>2, <1>5, <2>3, <4>1 DEF RunOK
    <3>2. FrameOK(t)'
      BY <2>3 DEF FrameOK, HasFrame, HasTable
    <3>3. FramesOf(t)'
      <4>1. /\ \A h \in Frames : ~MarkedBy(t, h)'
            /\ \A s \in Spaces : \A v \in Pages(s) : ~ReturnedBy(t, s, v)'
        BY <2>3 DEF MarkedBy, ReturnedBy, HasFrame, HasTable
      <4> QED BY <1>12, <4>1
    <3>4. PagesOf(t)'
      <4>1. InWork(t)' \subseteq CallRun(t)
        BY <2>3 DEF InWork, CallRun
      <4>2. ASSUME NEW v \in CallRun(t) PROVE v \in InWork(t)' <=> v > P
        <5>1. v \in InWork(t)' <=> v >= c.va + c.n
          BY <2>3 DEF InWork, HasFrame, CallRun, Page
        <5>2. c.va + c.n = P + 1
          BY <1>9, <1>14, <2>2
        <5>3. v \in Int /\ P \in Nat
          BY <1>2, <1>8
        <5>4. v >= P + 1 <=> v > P
          BY <5>3
        <5> QED BY <5>1, <5>2, <5>4
      <4> QED BY <1>11, <4>1, <4>2
    <3> QED BY <3>1, <3>2, <3>3, <3>4
  <2>4. c.op = "free" /\ c.n < c.cnt
    BY <1>1, <1>2, <1>9, <2>2 DEF CallOK
  <2>5. /\ "vremove" \notin {"mark", "palloc", "touch", "header"} \cup HasFrame /\ "vremove" \in Working
        /\ \A s \in Spaces : \A v \in Pages(s) : pte'[s][v] = pte[s][v] \/ (s = Space(t) /\ v \in CallRun(t))
    BY <1>5 DEF Working, HasFrame
  <2> QED BY <1>1, <1>5, <1>6, <1>7, <2>1, <2>2, <2>3, <2>4, <2>5, WorkStep
<1> QED BY <1>13, <1>14

-----------------------------------------------------------------------------
(* Every step.                                                             *)

LEMMA GetStep ==
  ASSUME IInv, NEW t \in Threads, Get(t)
  PROVE  IInv'
<1>1. CASE VaddrGet(t)
  BY <1>1, VaddrGetStep
<1>2. CASE MarkPage(t)
  BY <1>2, MarkPageStep
<1>3. CASE Palloc(t)
  BY <1>3, PallocStep
<1>4. CASE TakeFrame(t)
  BY <1>4, TakeFrameStep
<1>5. CASE MapPage(t)
  BY <1>5, MapPageStep
<1>6. CASE PallocTable(t)
  BY <1>6, PallocTableStep
<1>7. CASE TakeTable(t)
  BY <1>7, TakeTableStep
<1>8. CASE SetTable(t)
  BY <1>8, SetTableStep
<1>9. CASE Touch(t)
  BY <1>9, TouchStep
<1>10. CASE GotStack(t)
  BY <1>10, GotStackStep
<1>11. CASE MallocStops(t)
  BY <1>11, MallocStopsStep
<1> QED
  BY <1>1, <1>2, <1>3, <1>4, <1>5, <1>6, <1>7, <1>8, <1>9, <1>10, <1>11 DEF Get

LEMMA GiveBackStep ==
  ASSUME IInv, NEW t \in Threads, GiveBack(t)
  PROVE  IInv'
<1>1. CASE ReadHeader(t)
  BY <1>1, ReadHeaderStep
<1>2. CASE PFree(t)
  BY <1>2, PFreeStep
<1>3. CASE Unmap(t)
  BY <1>3, UnmapStep
<1>4. CASE VaddrRemove(t)
  BY <1>4, VaddrRemoveStep
<1> QED
  BY <1>1, <1>2, <1>3, <1>4 DEF GiveBack

LEMMA ThreadStep ==
  ASSUME OneLock, IInv, NEW t \in Threads,
         \/ \E cnt \in 1 .. MaxCnt : Malloc(t, cnt)
         \/ GetKernelPages(t)
         \/ GetAPage(t)
         \/ \E r \in held[t] : Free(t, r)
         \/ LockPool(t) \/ UnlockPool(t)
         \/ Get(t) \/ GiveBack(t)
         \/ Switch(t)
  PROVE  IInv'
<1>1. CASE \E cnt \in 1 .. MaxCnt : Malloc(t, cnt)
  BY <1>1, MallocStep
<1>2. CASE GetKernelPages(t)
  BY <1>2, GetKernelPagesStep
<1>3. CASE GetAPage(t)
  BY <1>3, GetAPageStep
<1>4. CASE \E r \in held[t] : Free(t, r)
  BY <1>4, FreeStep
<1>5. CASE LockPool(t)
  BY <1>5, LockPoolStep
<1>6. CASE UnlockPool(t)
  BY <1>6, UnlockPoolStep
<1>7. CASE Get(t)
  BY <1>7, GetStep
<1>8. CASE GiveBack(t)
  BY <1>8, GiveBackStep
<1>9. CASE Switch(t)
  BY <1>9, SwitchStep
<1> QED
  BY <1>1, <1>2, <1>3, <1>4, <1>5, <1>6, <1>7, <1>8, <1>9

LEMMA StepOK ==
  ASSUME OneLock, IInv, [Next]_vars
  PROVE  IInv'
<1>1. CASE \E t \in Threads :
             \/ \E cnt \in 1 .. MaxCnt : Malloc(t, cnt)
             \/ GetKernelPages(t)
             \/ GetAPage(t)
             \/ \E r \in held[t] : Free(t, r)
             \/ LockPool(t) \/ UnlockPool(t)
             \/ Get(t) \/ GiveBack(t)
             \/ Switch(t)
  BY <1>1, ThreadStep
<1>2. CASE IntrEnable
  BY <1>2, IntrEnableStep
<1>3. CASE UNCHANGED vars
  <2>1. UNCHANGED <<cpuVars, owner, level, poolVars, held, pc, call>>
    BY <1>3 DEF vars
  <2>2. panic' = panic /\ panic \in {"none", "full", "count"}
    BY <1>3 DEF vars, IInv, ShapeOK
  <2> QED
    BY <2>1, <2>2, FullStep
<1>4. CASE Spin
  BY <1>3, <1>4 DEF Spin
<1> QED
  BY <1>1, <1>2, <1>3, <1>4 DEF Next

\* The inductive invariant holds in every reachable state.
LEMMA Invariant == ASSUME OneLock PROVE Spec => []IInv
<1>1. Init => IInv
  BY InitOK
<1>2. IInv /\ [Next]_vars => IInv'
  BY StepOK
<1> QED
  BY <1>1, <1>2, PTL DEF Spec

-----------------------------------------------------------------------------
(* What follows from it in every state.                                    *)

LEMMA TypesHold ==
  ASSUME IInv
  PROVE  TypeOK
<1>1. ShapeOK /\ HeldOK
  BY DEF IInv
<1>2. \A t \in Threads : \A r \in held[t] : Run(r) \subseteq Pages(Space(t))
  <2> TAKE t \in Threads
  <2> TAKE r \in held[t]
  <2>1. r[1] \in Nat /\ r[2] \in Nat \ {0} /\ r[1] + r[2] - 1 <= NPages(Space(t))
    BY <1>1 DEF HeldOK
  <2> QED
    BY <2>1, SpaceFacts DEF Run, Pages
<1>3. \A t \in Threads : call[t] \in Calls
  BY <1>1 DEF ShapeOK
<1> QED
  BY <1>1, <1>2, <1>3 DEF TypeOK, ShapeOK

\* malloc_page's ASSERT stops the kernel in the call that fails it.
LEMMA PanicStep ==
  ASSUME OneLock, IInv, PanicOK, [Next]_vars
  PROVE  PanicOK'
<1>1. panic' \in {"none", "full", "count"}
  BY StepOK DEF IInv, ShapeOK
<1>2. ASSUME NEW t \in Threads, MallocStops(t) PROVE PanicOK'
  <2>1. pc'[t] = "vaddr" /\ panic' = "count" /\ call' = call
    BY <1>2 DEF MallocStops, At
  <2>2. TooMany(t)'
    BY <1>2, <2>1 DEF MallocStops, TooMany
  <2> QED BY <2>1, <2>2 DEF PanicOK
<1>3. ASSUME NEW t \in Threads, VaddrGet(t) \/ Palloc(t) \/ PallocTable(t) PROVE PanicOK'
  BY <1>3 DEF VaddrGet, Palloc, PallocTable, Scan, At, PanicOK
<1>4. ASSUME NEW t \in Threads, MarkPage(t) \/ MapPage(t) \/ PFree(t) PROVE PanicOK'
  <2>1. panic' \in {"none", "pte", "range"}
    BY <1>4 DEF MarkPage, MapPage, PFree, At
  <2> QED BY <1>1, <2>1 DEF PanicOK
<1>5. ASSUME NEW t \in Threads,
             \/ TakeFrame(t) \/ TakeTable(t) \/ SetTable(t) \/ Touch(t) \/ GotStack(t)
             \/ ReadHeader(t) \/ Unmap(t) \/ VaddrRemove(t)
      PROVE  PanicOK'
  BY <1>5 DEF TakeFrame, TakeTable, Take, SetTable, Touch, GotStack, ReadHeader, Unmap, VaddrRemove, At, PanicOK
<1>6. ASSUME NEW t \in Threads,
             \/ \E cnt \in 1 .. MaxCnt : Malloc(t, cnt)
             \/ GetKernelPages(t) \/ GetAPage(t)
             \/ \E r \in held[t] : Free(t, r)
             \/ LockPool(t) \/ UnlockPool(t) \/ Switch(t)
      PROVE  PanicOK'
  BY <1>6 DEF Malloc, GetKernelPages, GetAPage, Free, LockPool, UnlockPool, Switch, At, PanicOK
<1>7. CASE IntrEnable
  BY <1>7 DEF IntrEnable, At, PanicOK
<1>8. CASE UNCHANGED vars
  BY <1>8 DEF PanicOK, TooMany, vars
<1>9. CASE \E t \in Threads : Get(t) \/ GiveBack(t)
  BY <1>2, <1>3, <1>4, <1>5, <1>9 DEF Get, GiveBack
<1> QED BY <1>6, <1>7, <1>8, <1>9 DEF Next, Spin

LEMMA InvariantHolds == ASSUME OneLock PROVE Spec => [](IInv /\ PanicOK)
<1>1. Init => IInv /\ PanicOK
  BY InitOK DEF Init, PanicOK
<1>2. IInv /\ PanicOK /\ [Next]_vars => (IInv /\ PanicOK)'
  BY StepOK, PanicStep
<1> QED BY <1>1, <1>2, PTL DEF Spec

LEMMA Exact ==
  ASSUME IInv, PanicOK
  PROVE  PoolsExact
<1>1. TypeOK
  BY TypesHold
<1> QED
  BY <1>1 DEF IInv, PoolsExact

\* Each kind of use of a frame occurs once at most.
LEMMA UsesSingle ==
  ASSUME IInv, NEW f \in Frames
  PROVE  /\ \A m, n \in MappedTo(f) : m = n
         /\ \A m, n \in TableIn(f) : m = n
         /\ \A t, u \in FoundBy(f) : t = u
         /\ \A t, u \in FoundTable(f) : t = u
<1>1. FramesApart /\ LockOK
  BY DEF IInv
<1>2. f # NoFrame
  BY BitOfFrame
<1>3. ASSUME NEW m \in MappedTo(f), NEW n \in MappedTo(f) PROVE m = n
  <2>1. PICK s \in Spaces : m \in {s} \X Pages(s) /\ pte[m[1]][m[2]] = f
    BY <1>3 DEF MappedTo
  <2>2. PICK r \in Spaces : n \in {r} \X Pages(r) /\ pte[n[1]][n[2]] = f
    BY <1>3 DEF MappedTo
  <2>3. m = <<s, m[2]>> /\ m[1] = s /\ m[2] \in Pages(s) /\ n = <<r, n[2]>> /\ n[1] = r /\ n[2] \in Pages(r)
    BY <2>1, <2>2
  <2>4. s = r /\ m[2] = n[2]
    BY <1>1, <1>2, <2>1, <2>2, <2>3 DEF FramesApart
  <2> QED
    BY <2>3, <2>4
<1>4. ASSUME NEW m \in TableIn(f), NEW n \in TableIn(f) PROVE m = n
  <2>1. /\ m \in Procs \X Tables /\ pde[m[1]][m[2]] = f
        /\ n \in Procs \X Tables /\ pde[n[1]][n[2]] = f
    BY <1>4 DEF TableIn
  <2>2. /\ m = <<m[1], m[2]>> /\ m[1] \in Procs /\ m[2] \in Tables
        /\ n = <<n[1], n[2]>> /\ n[1] \in Procs /\ n[2] \in Tables
    BY <2>1
  <2>3. m[1] = n[1] /\ m[2] = n[2]
    BY <1>1, <1>2, <2>1, <2>2 DEF FramesApart
  <2> QED
    BY <2>2, <2>3
<1>5. ASSUME NEW t \in Threads, NEW u \in Threads, pc[t] \in HasFrame, pc[u] \in HasFrame PROVE t = u
  <2>1. Inside(t) /\ Inside(u)
    BY <1>5, PcFacts
  <2> QED
    BY <1>1, <2>1, OneInside DEF Alone
<1>6. \A t, u \in FoundBy(f) : t = u
  BY <1>5 DEF FoundBy
<1>7. \A t, u \in FoundTable(f) : t = u
  BY <1>5 DEF FoundTable, HasTable, HasFrame
<1> QED
  BY <1>3, <1>4, <1>6, <1>7

\* And only one kind of use at a time.
LEMMA UsesApart ==
  ASSUME IInv, NEW f \in Frames
  PROVE  /\ MappedTo(f) = {} \/ TableIn(f) = {}
         /\ FoundBy(f) # {} => MappedTo(f) = {} /\ TableIn(f) = {} /\ FoundTable(f) = {}
         /\ FoundTable(f) # {} => MappedTo(f) = {} /\ TableIn(f) = {}
<1>1. FramesApart /\ LockOK /\ \A t \in Threads : FrameOK(t)
  BY DEF IInv
<1>2. f # NoFrame
  BY BitOfFrame
<1>3. \A m \in MappedTo(f) : \E s \in Spaces : \E v \in Pages(s) : pte[s][v] = f
  <2> TAKE m \in MappedTo(f)
  <2>1. PICK s \in Spaces : m \in {s} \X Pages(s) /\ pte[m[1]][m[2]] = f
    BY DEF MappedTo
  <2>2. m[1] = s /\ m[2] \in Pages(s)
    BY <2>1
  <2> QED
    BY <2>1, <2>2
<1>4. \A m \in TableIn(f) : \E r \in Procs, k \in Tables : pde[r][k] = f
  BY DEF TableIn
<1>5. MappedTo(f) = {} \/ TableIn(f) = {}
  <2>1. SUFFICES ASSUME MappedTo(f) # {}, TableIn(f) # {} PROVE FALSE
    OBVIOUS
  <2>2. PICK s \in Spaces : \E v \in Pages(s) : pte[s][v] = f
    BY <1>3, <2>1
  <2>3. PICK v \in Pages(s) : pte[s][v] = f
    BY <2>2
  <2>4. PICK r \in Procs, k \in Tables : pde[r][k] = f
    BY <1>4, <2>1
  <2> QED
    BY <1>1, <1>2, <2>3, <2>4 DEF FramesApart
<1>6. Unused(f) => MappedTo(f) = {} /\ TableIn(f) = {}
  BY <1>3, <1>4 DEF Unused
<1>7. ASSUME NEW t \in FoundBy(f) PROVE Unused(f) /\ FoundTable(f) = {}
  <2>1. t \in Threads /\ pc[t] \in HasFrame /\ call[t].frame = f
    BY <1>7 DEF FoundBy
  <2>2. Unused(f)
    BY <1>1, <2>1 DEF FrameOK
  <2>3. ASSUME NEW u \in FoundTable(f) PROVE FALSE
    <3>1. u \in Threads /\ pc[u] \in HasTable /\ call[u].table = f
      BY <2>3 DEF FoundTable
    <3>2. Inside(t) /\ Inside(u)
      BY <2>1, <3>1, PcFacts
    <3>3. u = t
      BY <1>1, <2>1, <3>1, <3>2, OneInside DEF Alone
    <3> QED
      BY <1>1, <2>1, <3>1, <3>3 DEF FrameOK
  <2> QED
    BY <2>2, <2>3
<1>8. ASSUME NEW t \in FoundTable(f) PROVE Unused(f)
  <2>1. t \in Threads /\ pc[t] \in HasTable /\ call[t].table = f
    BY <1>8 DEF FoundTable
  <2> QED
    BY <1>1, <2>1 DEF FrameOK
<1> QED
  BY <1>5, <1>6, <1>7, <1>8

LEMMA OneUse ==
  ASSUME IInv
  PROVE  FrameHasOneUse
<1> SUFFICES ASSUME NEW f \in Frames
             PROVE  Cardinality(MappedTo(f)) + Cardinality(TableIn(f))
                      + Cardinality(FoundBy(f)) + Cardinality(FoundTable(f)) <= 1
  BY DEF FrameHasOneUse
<1>1. Cardinality(MappedTo(f)) \in {0, 1} /\ (Cardinality(MappedTo(f)) = 0 <=> MappedTo(f) = {})
  BY UsesSingle, AtMostOne
<1>2. Cardinality(TableIn(f)) \in {0, 1} /\ (Cardinality(TableIn(f)) = 0 <=> TableIn(f) = {})
  BY UsesSingle, AtMostOne
<1>3. Cardinality(FoundBy(f)) \in {0, 1} /\ (Cardinality(FoundBy(f)) = 0 <=> FoundBy(f) = {})
  BY UsesSingle, AtMostOne
<1>4. Cardinality(FoundTable(f)) \in {0, 1} /\ (Cardinality(FoundTable(f)) = 0 <=> FoundTable(f) = {})
  BY UsesSingle, AtMostOne
<1>5. /\ MappedTo(f) = {} \/ TableIn(f) = {}
      /\ FoundBy(f) # {} => MappedTo(f) = {} /\ TableIn(f) = {} /\ FoundTable(f) = {}
      /\ FoundTable(f) # {} => MappedTo(f) = {} /\ TableIn(f) = {}
  BY UsesApart
<1> QED
  BY <1>1, <1>2, <1>3, <1>4, <1>5

\* Memory that threads have got.
HeldPagesStay == \A u \in Threads : \A r \in held[u] : \A v \in Run(r) : pte'[Space(u)][v] = pte[Space(u)][v]

\* A call writes the entry of one of its own pages, which nobody has got.
LEMMA WriteMissesHeld ==
  ASSUME IInv, NEW t \in Threads, Inside(t), HasRun(t), NEW f,
         pte' = [pte EXCEPT ![Space(t)][Page(t)] = f]
  PROVE  HeldPagesStay
<1> SUFFICES ASSUME NEW u \in Threads, NEW r \in held[u], NEW v \in Run(r)
             PROVE  pte'[Space(u)][v] = pte[Space(u)][v]
  BY DEF HeldPagesStay
<1>1. Page(t) \in CallRun(t) /\ RunApart(t) /\ ShapeOK /\ HeldOK
  BY InCall
<1>2. DOMAIN pte = Spaces /\ \A s \in Spaces : DOMAIN pte[s] = Pages(s)
  BY <1>1 DEF ShapeOK
<1>3. Space(t) \in Spaces /\ Space(u) \in Spaces
  BY SpaceFacts
<1>4. CASE Space(u) # Space(t)
  BY <1>2, <1>3, <1>4
<1>5. CASE Space(u) = Space(t)
  <2>1. Run(r) \cap CallRun(t) = {}
    BY <1>1, <1>5 DEF RunApart
  <2>2. v # Page(t)
    BY <1>1, <2>1
  <2> QED
    BY <1>2, <1>3, <1>5, <2>2
<1> QED
  BY <1>4, <1>5

LEMMA EntriesStay ==
  ASSUME pte' = pte
  PROVE  HeldPagesStay
BY DEF HeldPagesStay

LEMMA HeldPagesStep ==
  ASSUME IInv, [Next]_vars
  PROVE  HeldPagesStay
<1>1. ASSUME NEW t \in Threads, MapPage(t) PROVE HeldPagesStay
  <2>1. Inside(t) /\ HasRun(t)
    BY <1>1 DEF MapPage, At, Inside, HasRun, Working, HasFrame
  <2>2. CASE pte' = pte
    BY <2>2, EntriesStay
  <2>3. CASE pte' = [pte EXCEPT ![Space(t)][Page(t)] = call[t].frame]
    BY <2>1, <2>3, WriteMissesHeld
  <2> QED
    BY <1>1, <2>2, <2>3 DEF MapPage, Mapped
<1>2. ASSUME NEW t \in Threads, SetTable(t) PROVE HeldPagesStay
  <2>1. Inside(t) /\ HasRun(t)
    BY <1>2 DEF SetTable, At, Inside, HasRun, Working, HasFrame
  <2>2. pte' = [pte EXCEPT ![Space(t)][Page(t)] = call[t].frame]
    BY <1>2 DEF SetTable, Mapped
  <2> QED
    BY <2>1, <2>2, WriteMissesHeld
<1>3. ASSUME NEW t \in Threads, Unmap(t) PROVE HeldPagesStay
  <2>1. Inside(t) /\ HasRun(t)
    BY <1>3 DEF Unmap, At, Inside, HasRun, Working
  <2>2. pte' = [pte EXCEPT ![Space(t)][Page(t)] = NoFrame]
    BY <1>3 DEF Unmap
  <2> QED
    BY <2>1, <2>2, WriteMissesHeld
<1>4. ASSUME NEW t \in Threads,
             \/ \E cnt \in 1 .. MaxCnt : Malloc(t, cnt)
             \/ GetKernelPages(t) \/ GetAPage(t)
             \/ \E r \in held[t] : Free(t, r)
             \/ LockPool(t) \/ UnlockPool(t) \/ Switch(t)
      PROVE  pte' = pte
  BY <1>4 DEF Malloc, GetKernelPages, GetAPage, Free, LockPool, UnlockPool, Switch, poolVars
<1>5. ASSUME NEW t \in Threads,
             \/ MallocStops(t) \/ VaddrGet(t) \/ MarkPage(t) \/ Palloc(t) \/ TakeFrame(t)
             \/ PallocTable(t) \/ TakeTable(t) \/ Touch(t) \/ GotStack(t)
             \/ ReadHeader(t) \/ PFree(t) \/ VaddrRemove(t)
      PROVE  pte' = pte
  BY <1>5 DEF MallocStops, VaddrGet, MarkPage, Palloc, TakeFrame, PallocTable, TakeTable, Scan, Take, Touch, GotStack,
              ReadHeader, PFree, VaddrRemove, poolVars, mapVars
<1>6. CASE UNCHANGED vars
  BY <1>6, EntriesStay DEF vars, poolVars
<1>7. CASE IntrEnable
  BY <1>7, EntriesStay DEF IntrEnable, poolVars
<1>8. ASSUME NEW t \in Threads, Get(t) \/ GiveBack(t) PROVE HeldPagesStay
  BY <1>1, <1>2, <1>3, <1>5, <1>8, EntriesStay DEF Get, GiveBack
<1>9. CASE \E t \in Threads :
             \/ \E cnt \in 1 .. MaxCnt : Malloc(t, cnt)
             \/ GetKernelPages(t)
             \/ GetAPage(t)
             \/ \E r \in held[t] : Free(t, r)
             \/ LockPool(t) \/ UnlockPool(t)
             \/ Get(t) \/ GiveBack(t)
             \/ Switch(t)
  BY <1>4, <1>8, <1>9, EntriesStay
<1>10. CASE Spin
  BY <1>6, <1>10 DEF Spin
<1> QED
  BY <1>6, <1>7, <1>9, <1>10 DEF Next

-----------------------------------------------------------------------------
(* The theorems.                                                           *)

\* The types hold, the bitmaps of the two pools know exactly the frames and the
\* bitmaps of the address spaces exactly the pages that are in use, at every step
\* of palloc, vaddr_get, page_table_add, mfree_page and vaddr_remove.  On their way
\* two assertions can fail, bitmap_scan's of a bitmap that is full (bitmap.c:29) and
\* malloc_page's of a request for too many pages (memory.c:124), which fails only in
\* the call that asks for them (memory.c:37-142, 386-473).
THEOREM PoolsStayExact == ASSUME OneLock PROVE Spec => []PoolsExact
<1>1. IInv /\ PanicOK => PoolsExact
  BY Exact
<1> QED
  BY <1>1, InvariantHolds, PTL

\* No frame that palloc returns is a page of two address spaces, or a page and a
\* page table, or about to become either while it is one (memory.c:88-142).
THEOREM FramesHaveOneUse == ASSUME OneLock PROVE Spec => []FrameHasOneUse
<1>1. IInv => FrameHasOneUse
  BY OneUse
<1> QED
  BY <1>1, Invariant, PTL

\* The pages that malloc_page gave a thread are mapped until it frees them, and
\* overlap nothing that malloc_page or get_a_page gave anybody (memory.c:144-204).
THEOREM HeldStaysApart == ASSUME OneLock PROVE Spec => []HeldApart
<1>1. IInv => HeldApart
  BY DEF IInv
<1> QED
  BY <1>1, Invariant, PTL

\* No step of page_table_add or page_table_pte_remove, whoever runs it, changes the
\* entry of a page that a thread has got (memory.c:94-142, 399-404).
THEOREM MappingsStay == ASSUME OneLock PROVE Spec => MappingKept
<1>1. HeldPagesStay => (\A t \in Threads : \A r \in held[t] \cap held'[t] :
                          \A v \in Run(r) : pte'[Space(t)][v] = pte[Space(t)][v])
  BY DEF HeldPagesStay
<1>2. IInv /\ [Next]_vars => [\A t \in Threads : \A r \in held[t] \cap held'[t] :
                                \A v \in Run(r) : pte'[Space(t)][v] = pte[Space(t)][v]]_vars
  BY <1>1, HeldPagesStep
<1> QED
  BY <1>2, Invariant, PTL DEF Spec, MappingKept

=============================================================================

------------------------------ MODULE PagePool ------------------------------
(***************************************************************************)
(* The pages of kernel/memory.c: the two pools of physical frames, the     *)
(* kernel's and every process's bitmap of virtual pages, the page tables,  *)
(* under threads that the timer may switch.                                *)
(*                                                                         *)
(* The functions on this path are malloc_page, mfree_page and get_a_page.  *)
(* sys_malloc and sys_free call the first two with the lock of the pool;   *)
(* get_kernel_pages calls malloc_page without, for every thread that is    *)
(* started (thread_start) and every process (process_execute).  A step is  *)
(* one scan of a bitmap, one bitmap_set or one change of a page table.     *)
(* What sys_malloc does with its page (the arena in it) is not modelled.   *)
(*                                                                         *)
(* Frames are numbered the way their addresses are: the kernel pool's, and *)
(* behind them the user pool's.  The page tables of kernel pages exist     *)
(* from the start and are the same in all page directories.                *)
(***************************************************************************)
EXTENDS BitRuns

CONSTANTS
  Threads,
  Main,      \* the thread of the boot code
  KThreads,  \* kernel threads that call sys_malloc and sys_free
  Starters,  \* threads that call thread_start once interrupts are on
  Procs,     \* user processes
  Worlds,    \* sets of threads: those that are there together
  NoThread,
  Kernel,    \* the kernel's address space, next to those of the processes
  KFrames,   \* number of frames of kernel_pool
  UFrames,   \* number of frames of user_pool
  KPages,    \* length of kernel_vaddr's bitmap
  UPages,    \* length of a process's userprog_vaddr bitmap
  PerTable,  \* user pages that share a page table
  MaxRequest, \* malloc_page's ASSERT takes fewer pages than this (3840)
  MaxCnt     \* bound on the pages of one sys_malloc

ASSUME PagePoolAssumption ==
  /\ Main \in Threads \ Procs
  /\ KThreads \subseteq Threads \ Procs
  /\ Starters \subseteq Threads \ Procs
  /\ Procs \subseteq Threads
  /\ \A w \in Worlds : Main \in w /\ w \subseteq Threads
  /\ NoThread \notin Threads
  /\ Kernel \notin Threads
  /\ KFrames \in Nat \ {0}
  /\ UFrames \in Nat \ {0}
  /\ KPages \in Nat \ {0}
  /\ UPages \in Nat \ {0}
  /\ PerTable \in Nat \ {0}
  /\ MaxRequest \in Nat \ {0, 1}
  /\ MaxCnt \in Nat \ {0}

Pools  == {"kernel", "user"}
Spaces == Procs \cup {Kernel}
Frames == 0 .. KFrames + UFrames - 1
NoFrame == -1

\* phy_addr_start and length of a pool, and the pool pfree gives a frame back to.
PoolStart(p) == IF p = "kernel" THEN 0 ELSE KFrames
PoolSize(p)  == IF p = "kernel" THEN KFrames ELSE UFrames
PoolOf(f)    == IF f >= KFrames THEN "user" ELSE "kernel"

\* Virtual pages by their bit in the bitmap; the last one is behind its end.
NPages(s) == IF s = Kernel THEN KPages ELSE UPages
Pages(s)  == 0 .. NPages(s)
Table(v)  == v \div PerTable
Tables    == 0 .. Table(UPages)

\* The page of USER_STACK3_VADDR.
StackPage == UPages - 1

VARIABLES
  run,       \* running_thread()
  booting,   \* main has not called intr_enable yet
  owner,     \* of the lock of a pool
  level,     \* of the lock of a pool
  pool,      \* pool[p][i]: bit i of the pool's bitmap
  vmap,      \* vmap[s][v]: bit v of the bitmap of an address space
  pte,       \* pte[s][v]: the frame page v is mapped to, or NoFrame
  pde,       \* pde[s][k]: the frame of a process's page table k, or NoFrame
  held,      \* the runs <<first page, pages>> a thread got and has not freed
  pc,        \* what a thread does next
  call,      \* the arguments and local variables of its call
  panic      \* the ASSERT that failed

INSTANCE Mutex WITH Locks <- Pools

poolVars == <<pool, vmap, pte, pde>>
mapVars  == <<vmap, pte, pde, held>>
cpuVars  == <<run, booting>>
vars == <<cpuVars, owner, level, poolVars, held, pc, call, panic>>

\* pf, with or without the lock of its pool, and the size of the request; the
\* first page, the page of it that is being worked on, and its new frame.
\* table is the frame of a new page table.
Calls == [lock : BOOLEAN, op : {"get", "stack", "free"}, cnt : Nat, va : Nat, n : Nat,
          frame : Frames \cup {NoFrame}, table : Frames \cup {NoFrame}]

NoCall == [lock |-> FALSE, op |-> "get", cnt |-> 1, va |-> 0, n |-> 0,
           frame |-> NoFrame, table |-> NoFrame]

Space(t) == IF t \in Procs THEN t ELSE Kernel
Pool(t)  == IF t \in Procs THEN "user" ELSE "kernel"
Page(t)  == call[t].va + call[t].n
LastPage(t) == call[t].n + 1 = call[t].cnt

Init ==
  /\ run = Main
  /\ booting = TRUE
  /\ MutexInit
  /\ pool = [p \in Pools |-> [i \in 0 .. PoolSize(p) |-> FALSE]]
  /\ vmap = [s \in Spaces |-> [v \in Pages(s) |-> FALSE]]
  /\ pte = [s \in Spaces |-> [v \in Pages(s) |-> NoFrame]]
  /\ pde = [s \in Procs |-> [k \in Tables |-> NoFrame]]
  /\ held = [t \in Threads |-> {}]
  /\ \E w \in Worlds :
       pc = [t \in Threads |-> IF t \notin w THEN "none" ELSE IF t \in Procs THEN "start" ELSE "idle"]
  /\ call = [t \in Threads |-> NoCall]
  /\ panic = "none"

-----------------------------------------------------------------------------

At(t, p) == panic = "none" /\ run = t /\ pc[t] = p
Goto(t, p) == pc' = [pc EXCEPT ![t] = p]

\* A call with its arguments; it starts at lock_acquire if the caller locks.
Begin(t, op, locks, va, cnt) ==
  /\ call' = [call EXCEPT ![t] = [NoCall EXCEPT !.op = op, !.lock = locks, !.va = va, !.cnt = cnt]]
  /\ Goto(t, IF locks THEN "lock" ELSE "vaddr")

\* sys_malloc, where it needs pages.
Malloc(t, cnt) ==
  /\ At(t, "idle") /\ ~booting /\ t \in KThreads \cup Procs
  /\ Begin(t, "get", TRUE, 0, cnt)
  /\ UNCHANGED <<cpuVars, owner, level, poolVars, held, panic>>

\* get_kernel_pages(1), for the task_struct of a new thread or process.
GetKernelPages(t) ==
  /\ At(t, "idle") /\ IF booting THEN t = Main ELSE t \in Starters
  /\ Begin(t, "get", FALSE, 0, 1)
  /\ UNCHANGED <<cpuVars, owner, level, poolVars, held, panic>>

\* start_process: get_a_page(PF_USER, USER_STACK3_VADDR).
GetAPage(t) ==
  /\ At(t, "start")
  /\ Begin(t, "stack", TRUE, StackPage, 1)
  /\ UNCHANGED <<cpuVars, owner, level, poolVars, held, panic>>

\* Mutant: one page too many is freed.
FreeOneMore(t, r) ==
  /\ At(t, "idle") /\ r \in held[t] /\ t \in KThreads \cup Procs
  /\ t \in Procs => r[1] # StackPage
  /\ Begin(t, "free", TRUE, r[1], r[2] + 1)
  /\ held' = [held EXCEPT ![t] = @ \ {r}]
  /\ UNCHANGED <<cpuVars, owner, level, poolVars, panic>>

\* sys_free of a block whose pages go back.
Free(t, r) ==
  /\ At(t, "idle") /\ r \in held[t] /\ t \in KThreads \cup Procs
  /\ t \in Procs => r[1] # StackPage
  /\ Begin(t, "free", TRUE, r[1], r[2])
  /\ held' = [held EXCEPT ![t] = @ \ {r}]
  /\ UNCHANGED <<cpuVars, owner, level, poolVars, panic>>

\* Mutant: the lock is not taken.
LockPoolNot(t) ==
  /\ At(t, "lock")
  /\ Goto(t, IF call[t].op = "get" THEN "vaddr" ELSE IF call[t].op = "stack" THEN "mark" ELSE "header")
  /\ UNCHANGED <<cpuVars, owner, level, poolVars, held, call, panic>>

\* lock_acquire(&mem_pool->lock).
LockPool(t) ==
  /\ At(t, "lock")
  /\ Lock(t, Pool(t))
  /\ Goto(t, IF call[t].op = "get" THEN "vaddr" ELSE IF call[t].op = "stack" THEN "mark" ELSE "header")
  /\ UNCHANGED <<cpuVars, poolVars, held, call, panic>>

UnlockPool(t) ==
  /\ At(t, "unlock")
  /\ Unlock(t, Pool(t))
  /\ Goto(t, "idle")
  /\ call' = [call EXCEPT ![t] = NoCall]
  /\ UNCHANGED <<cpuVars, poolVars, held, panic>>

\* The call returns, with the lock released if it was taken; and only
\* which call it was still matters.
Return(t) ==
  /\ call' = [call EXCEPT ![t] = [NoCall EXCEPT !.op = call[t].op]]
  /\ Goto(t, IF call[t].lock THEN "unlock" ELSE "idle")

-----------------------------------------------------------------------------

\* malloc_page's ASSERT on pg_cnt fails, with the lock if it was taken.
TooMany(t) == call[t].cnt >= MaxRequest
MallocStops(t) ==
  /\ At(t, "vaddr") /\ TooMany(t)
  /\ panic' = "count"
  /\ UNCHANGED <<cpuVars, owner, level, poolVars, held, pc, call>>

\* vaddr_get: the scan; NULL if there is no run of cnt pages.
VaddrGet(t) ==
  /\ At(t, "vaddr") /\ ~TooMany(t)
  /\ LET s == FirstRun(vmap[Space(t)], NPages(Space(t)), call[t].cnt) IN
       IF ScanPanics(vmap[Space(t)], NPages(Space(t)))
         THEN panic' = "full" /\ UNCHANGED <<pc, call>>
         ELSE /\ IF s = -1 THEN Return(t) ELSE call' = [call EXCEPT ![t].va = s] /\ Goto(t, "mark")
              /\ UNCHANGED panic
  /\ UNCHANGED <<cpuVars, owner, level, poolVars, held>>

\* Mutant: get_a_page does not mark its page.
MarkPageNotStack(t) ==
  /\ At(t, "mark")
  /\ panic' = panic
  /\ vmap' = IF call[t].op = "stack" THEN vmap ELSE [vmap EXCEPT ![Space(t)][Page(t)] = TRUE]
  /\ IF LastPage(t)
       THEN call' = [call EXCEPT ![t].n = 0] /\ Goto(t, "palloc")
       ELSE call' = [call EXCEPT ![t].n = @ + 1] /\ UNCHANGED pc
  /\ UNCHANGED <<cpuVars, owner, level, pool, pte, pde, held>>

\* vaddr_get and get_a_page: bitmap_set on the pages, one after the other; what
\* vaddr_get returns to a process must be below its stack.
MarkPage(t) ==
  /\ At(t, "mark")
  /\ panic' = IF LastPage(t) /\ call[t].op = "get" /\ t \in Procs /\ call[t].va >= StackPage
                THEN "range" ELSE panic
  /\ vmap' = [vmap EXCEPT ![Space(t)][Page(t)] = TRUE]
  /\ IF LastPage(t)
       THEN call' = [call EXCEPT ![t].n = 0] /\ Goto(t, "palloc")
       ELSE call' = [call EXCEPT ![t].n = @ + 1] /\ UNCHANGED pc
  /\ UNCHANGED <<cpuVars, owner, level, pool, pte, pde, held>>

\* palloc(p)'s scan: the frame is kept in the local `var' ...
Scan(t, p, var, next) ==
  /\ IF ScanPanics(pool[p], PoolSize(p))
       THEN panic' = "full" /\ UNCHANGED <<pc, call>>
       ELSE /\ call' = [call EXCEPT ![t][var] = PoolStart(p) + FirstRun(pool[p], PoolSize(p), 1)]
            /\ Goto(t, next)
            /\ UNCHANGED panic
  /\ UNCHANGED <<cpuVars, owner, level, poolVars, held>>

\* ... and its bitmap_set.
Take(t, f, next) ==
  /\ pool' = [pool EXCEPT ![PoolOf(f)][f - PoolStart(PoolOf(f))] = TRUE]
  /\ Goto(t, next)
  /\ UNCHANGED <<cpuVars, owner, level, mapVars, call, panic>>

Palloc(t) == At(t, "palloc") /\ Scan(t, Pool(t), "frame", "take")
TakeFrame(t) == At(t, "take") /\ Take(t, call[t].frame, "map")

\* page_table_add of one page is done: on to the next, or to the end.
Advance(t) ==
  IF LastPage(t)
    THEN /\ call' = [call EXCEPT ![t].n = 0, ![t].frame = NoFrame, ![t].table = NoFrame]
         /\ Goto(t, "touch")
    ELSE /\ call' = [call EXCEPT ![t].n = @ + 1, ![t].frame = NoFrame, ![t].table = NoFrame]
         /\ Goto(t, "palloc")

Mapped(t) ==
  /\ pte' = [pte EXCEPT ![Space(t)][Page(t)] = call[t].frame]
  /\ Advance(t)

NoTable(t) == t \in Procs /\ pde[t][Table(Page(t))] = NoFrame

\* page_table_add with a page table: the entry must not be in use.
MapPage(t) ==
  /\ At(t, "map") /\ ~NoTable(t)
  /\ IF pte[Space(t)][Page(t)] # NoFrame
       THEN panic' = "pte" /\ UNCHANGED <<pte, pc, call>>
       ELSE Mapped(t) /\ UNCHANGED panic
  /\ UNCHANGED <<cpuVars, owner, level, pool, vmap, pde, held>>

\* page_table_add without: a frame of kernel_pool, whatever pf is, becomes the
\* page table, is cleared, and gets the entry.
PallocTable(t) == At(t, "map") /\ NoTable(t) /\ Scan(t, "kernel", "table", "taketable")

\* Mutant: the frame is not marked.
TakeTableNot(t) == At(t, "taketable") /\ Goto(t, "settable") /\ UNCHANGED <<cpuVars, owner, level, poolVars, held, call, panic>>

TakeTable(t) == At(t, "taketable") /\ Take(t, call[t].table, "settable")

\* Mutant: the memset clears the entries of all tables.
SetTableClears(t) ==
  /\ At(t, "settable")
  /\ pde' = [pde EXCEPT ![t][Table(Page(t))] = call[t].table]
  /\ pte' = [pte EXCEPT ![t] = [v \in Pages(t) |-> IF v = Page(t) THEN call[t].frame ELSE NoFrame]]
  /\ Advance(t)
  /\ UNCHANGED <<cpuVars, owner, level, pool, vmap, held, panic>>

SetTable(t) ==
  /\ At(t, "settable")
  /\ pde' = [pde EXCEPT ![t][Table(Page(t))] = call[t].table]
  /\ Mapped(t)
  /\ UNCHANGED <<cpuVars, owner, level, pool, vmap, held, panic>>

Run(r) == r[1] .. r[1] + r[2] - 1

\* memset(vaddr, 0, pg_cnt * PG_SIZE) by the caller of malloc_page, which then
\* has the pages.
Touch(t) ==
  /\ At(t, "touch") /\ call[t].op = "get"
  /\ held' = [held EXCEPT ![t] = @ \cup {<<call[t].va, call[t].cnt>>}]
  /\ Return(t)
  /\ UNCHANGED <<cpuVars, owner, level, poolVars, panic>>

\* get_a_page returns; the process has its stack and never frees it.
GotStack(t) ==
  /\ At(t, "touch") /\ call[t].op = "stack"
  /\ held' = [held EXCEPT ![t] = @ \cup {<<StackPage, 1>>}]
  /\ Return(t)
  /\ UNCHANGED <<cpuVars, owner, level, poolVars, panic>>

-----------------------------------------------------------------------------

\* sys_free reads the arena's header in the first page and calls mfree_page,
\* which takes the pool of that page's frame for the pool of all of them.
ReadHeader(t) ==
  /\ At(t, "header")
  /\ call' = [call EXCEPT ![t].frame = pte[Space(t)][call[t].va]]
  /\ Goto(t, "pfree")
  /\ UNCHANGED <<cpuVars, owner, level, poolVars, held, panic>>

\* Mutant: the bit is that of the first page's frame.
PFreeFirst(t) ==
  /\ At(t, "pfree")
  /\ LET f == pte[Space(t)][Page(t)] IN
       IF f = NoFrame \/ PoolOf(f) # PoolOf(call[t].frame)
         THEN panic' = "range" /\ UNCHANGED <<pool, pc>>
         ELSE /\ pool' = [pool EXCEPT ![PoolOf(f)][call[t].frame - PoolStart(PoolOf(f))] = FALSE]
              /\ Goto(t, "unmap")
              /\ UNCHANGED panic
  /\ UNCHANGED <<cpuVars, owner, level, mapVars, call>>

\* mfree_page of one page: its frame must be of the pool; pfree clears its bit.
PFree(t) ==
  /\ At(t, "pfree")
  /\ LET f == pte[Space(t)][Page(t)] IN
       IF f = NoFrame \/ PoolOf(f) # PoolOf(call[t].frame)
         THEN panic' = "range" /\ UNCHANGED <<pool, pc>>
         ELSE /\ pool' = [pool EXCEPT ![PoolOf(f)][f - PoolStart(PoolOf(f))] = FALSE]
              /\ Goto(t, "unmap")
              /\ UNCHANGED panic
  /\ UNCHANGED <<cpuVars, owner, level, mapVars, call>>

\* page_table_pte_remove.  What the processor has cached is not modelled: the
\* operand of its invlpg is the variable vaddr, so the page's translation stays
\* until the next switch loads cr3.
Unmap(t) ==
  /\ At(t, "unmap")
  /\ pte' = [pte EXCEPT ![Space(t)][Page(t)] = NoFrame]
  /\ IF LastPage(t)
       THEN call' = [call EXCEPT ![t].n = 0] /\ Goto(t, "vremove")
       ELSE call' = [call EXCEPT ![t].n = @ + 1] /\ Goto(t, "pfree")
  /\ UNCHANGED <<cpuVars, owner, level, pool, vmap, pde, held, panic>>

\* vaddr_remove.
VaddrRemove(t) ==
  /\ At(t, "vremove")
  /\ vmap' = [vmap EXCEPT ![Space(t)][Page(t)] = FALSE]
  /\ IF LastPage(t)
       THEN Return(t)
       ELSE call' = [call EXCEPT ![t].n = @ + 1] /\ UNCHANGED pc
  /\ UNCHANGED <<cpuVars, owner, level, pool, pte, pde, held, panic>>

-----------------------------------------------------------------------------

\* intr_enable in main: the boot code is over.
IntrEnable ==
  /\ At(Main, "idle") /\ booting
  /\ booting' = FALSE
  /\ UNCHANGED <<run, owner, level, poolVars, held, pc, call, panic>>

\* Interrupts are off in the boot code and in system calls; they are on in user
\* programs, kernel threads and start_process.
IntrOn(t) == ~booting /\ (t \in Procs => pc[t] \in {"idle", "start"} \/ call[t].op = "stack")

\* The thread waits for the lock of its pool.
Waits(t) == pc[t] = "lock" /\ owner[Pool(t)] # NoThread

\* The timer, or a lock that is taken, switches to another thread.
Switch(t) ==
  /\ panic = "none" /\ t # run /\ pc[t] # "none"
  /\ ~booting /\ (IntrOn(run) \/ Waits(run)) /\ ~Waits(t)
  /\ run' = t
  /\ UNCHANGED <<booting, owner, level, poolVars, held, pc, call, panic>>

\* panic_spin.
Spin == panic # "none" /\ UNCHANGED vars

Get(t)   == MallocStops(t) \/ VaddrGet(t) \/ MarkPage(t) \/ Palloc(t) \/ TakeFrame(t) \/ MapPage(t)
              \/ PallocTable(t) \/ TakeTable(t) \/ SetTable(t) \/ Touch(t) \/ GotStack(t)
GiveBack(t) == ReadHeader(t) \/ PFree(t) \/ Unmap(t) \/ VaddrRemove(t)

Next ==
  \/ \E t \in Threads :
       \/ \E cnt \in 1 .. MaxCnt : Malloc(t, cnt)
       \/ GetKernelPages(t)
       \/ GetAPage(t)
       \/ \E r \in held[t] : Free(t, r)
       \/ LockPool(t) \/ UnlockPool(t)
       \/ Get(t) \/ GiveBack(t)
       \/ Switch(t)
  \/ IntrEnable
  \/ Spin

Spec == Init /\ [][Next]_vars
=============================================================================

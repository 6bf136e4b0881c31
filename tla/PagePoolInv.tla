---------------------------- MODULE PagePoolInv ----------------------------
(* What PagePool's threads may rely on, and what they must not break.      *)
EXTENDS PagePool

\* Points of a call at which the thread holds a frame that nothing maps yet:
\* the one it has just found, and the one for a page table.
HasFrame == {"take", "map", "taketable", "settable"}
HasTable == {"taketable", "settable"}

\* A frame found but not marked yet is still free in the bitmap.
MarkedBy(t, f) ==
  \/ pc[t] \in HasFrame \ {"take"} /\ call[t].frame = f
  \/ pc[t] \in HasTable \ {"taketable"} /\ call[t].table = f
Marked(f) == \E t \in Threads : MarkedBy(t, f)

\* pfree has cleared the bit of the frame, whose page is still mapped.
ReturnedBy(t, s, v) == pc[t] = "unmap" /\ Space(t) = s /\ Page(t) = v
Returned(s, v) == \E t \in Threads : ReturnedBy(t, s, v)

MappedTo(f) == {m \in UNION {{s} \X Pages(s) : s \in Spaces} : pte[m[1]][m[2]] = f}
TableIn(f)  == {m \in Procs \X Tables : pde[m[1]][m[2]] = f}
FoundBy(f)  == {t \in Threads : pc[t] \in HasFrame /\ call[t].frame = f}
FoundTable(f) == {t \in Threads : pc[t] \in HasTable /\ call[t].table = f}

TypeOK ==
  /\ run \in Threads
  /\ booting \in BOOLEAN
  /\ owner \in [Pools -> Threads \cup {NoThread}]
  /\ level \in [Pools -> 0 .. 1]
  /\ \A p \in Pools : pool[p] \in [0 .. PoolSize(p) -> BOOLEAN]
  /\ \A s \in Spaces : vmap[s] \in [Pages(s) -> BOOLEAN]
  /\ \A s \in Spaces : pte[s] \in [Pages(s) -> Frames \cup {NoFrame}]
  /\ pde \in [Procs -> [Tables -> Frames \cup {NoFrame}]]
  /\ \A t \in Threads : call[t] \in Calls
  /\ \A t \in Threads : \A r \in held[t] : Run(r) \subseteq Pages(Space(t))
  /\ panic \in {"none", "full", "pte", "range", "count"}

\* A frame has one use at a time: one page of one address space, one page
\* table, or one thread that has found it and is about to map it
\* (memory.c:88-142).
FrameHasOneUse ==
  \A f \in Frames :
    Cardinality(MappedTo(f)) + Cardinality(TableIn(f))
      + Cardinality(FoundBy(f)) + Cardinality(FoundTable(f)) <= 1

\* The bitmaps of the pools know exactly the frames in use, at every point a
\* thread can be preempted: none is leaked by a failing or finished call, and
\* none that is still in use is free.
FramesAccounted ==
  \A f \in Frames :
    pool[PoolOf(f)][f - PoolStart(PoolOf(f))] <=>
      \/ \E s \in Spaces : \E v \in Pages(s) : pte[s][v] = f /\ ~Returned(s, v)
      \/ \E s \in Procs, k \in Tables : pde[s][k] = f
      \/ Marked(f)

\* Pages that a call has marked and not mapped yet, or unmapped and not cleared
\* in the bitmap yet.
InWork(t) ==
  {v \in call[t].va .. call[t].va + call[t].cnt - 1 :
     \/ pc[t] \in {"mark", "pfree", "unmap"} /\ v < Page(t)
     \/ pc[t] \in HasFrame \cup {"palloc", "vremove"} /\ v >= Page(t)}

\* The bitmap of an address space knows exactly the pages that are mapped, or
\* that the call in progress is mapping or has unmapped.
PagesAccounted ==
  \A s \in Spaces : \A v \in Pages(s) :
    vmap[s][v] <=>
      \/ pte[s][v] # NoFrame
      \/ \E t \in Threads : Space(t) = s /\ v \in InWork(t)

\* The kernel stops for a full bitmap, or in a call that asks for too many pages.
PanicOK ==
  \/ panic \in {"none", "full"}
  \/ panic = "count" /\ \E t \in Threads : pc[t] = "vaddr" /\ TooMany(t)

\* The types, both bitmaps' agreement with what is in use, and the assertions of
\* vaddr_get, page_table_add and mfree_page (memory.c:68, 106, 442, 461).  That of
\* bitmap_scan fails if a bitmap is full (bitmap.c:29), that of malloc_page for a
\* request of too many pages (memory.c:124).
PoolsExact == TypeOK /\ FramesAccounted /\ PagesAccounted /\ PanicOK

\* Memory that a thread has got is mapped until the thread frees it, and no
\* other run that this or another thread has got overlaps it.
HeldApart ==
  \A t \in Threads : \A r \in held[t] :
    /\ \A v \in Run(r) : pte[Space(t)][v] # NoFrame
    /\ \A u \in Threads : Space(u) = Space(t) =>
         \A q \in held[u] : (u # t \/ q # r) => Run(q) \cap Run(r) = {}

\* What page_table_add asserts (memory.c:106): the page it is to map is not
\* mapped yet.
EntryIsFree == panic # "pte"

\* What palloc says it returns (memory.c:87): a frame of its own, so that no frame
\* is a page of two spaces, or a page and a page table.
FrameMappedOnce ==
  \A f \in Frames : Cardinality(MappedTo(f)) + Cardinality(TableIn(f)) <= 1

\* No step of anybody changes the mapping of memory that a thread has got and
\* goes on having.
MappingKept ==
  [][\A t \in Threads : \A r \in held[t] \cap held'[t] :
       \A v \in Run(r) : pte'[Space(t)][v] = pte[Space(t)][v]]_vars

-----------------------------------------------------------------------------
(* The inductive invariant, where the lock of one pool covers everything:  *)
(* no thread takes kernel pages without it, and kernel threads and user    *)
(* processes do not use the kernel's pages at the same time.               *)

OneLock == Starters = {} /\ \A w \in Worlds : w \cap Procs = {} \/ w \cap KThreads = {}

Working == {"mark", "palloc", "touch", "header", "pfree", "unmap", "vremove"} \cup HasFrame
Outside == {"none", "start", "idle"}
Inside(t) == pc[t] \in Working \cup {"vaddr"}

\* A thread in a call is the boot code, or it has the lock of its pool; and which
\* pools can be in use.
LockOK ==
  /\ booting => run = Main /\ \A t \in Threads \ {Main} : pc[t] \in Outside
  /\ \A t \in Threads :
       /\ ~booting /\ pc[t] \notin Outside => t \in KThreads \cup Procs
       /\ ~booting /\ Inside(t) => call[t].lock
       /\ (Inside(t) /\ call[t].lock) \/ pc[t] = "unlock" => owner[Pool(t)] = t
  /\ (\A t \in Procs : pc[t] = "none") \/ (\A t \in KThreads : pc[t] = "none")

\* The pages a call is about.
CallRun(t) == call[t].va .. call[t].va + call[t].cnt - 1
HasRun(t) == pc[t] \in Working \/ (pc[t] = "lock" /\ call[t].op = "free")

\* A call's arguments and variables at each of its steps.
CallOK(t) ==
  LET c == call[t] IN
    /\ pc[t] \in Outside => c.op = "get"
    /\ pc[t] = "start" => t \in Procs
    /\ pc[t] = "lock" => c.lock
    /\ Inside(t) /\ ~c.lock => c.op = "get"
    /\ Inside(t) \/ pc[t] = "lock" => c.cnt > 0 /\ c.n < c.cnt
    /\ pc[t] \in {"lock", "vaddr", "header", "touch"} => c.n = 0
    /\ pc[t] = "vaddr" => c.op = "get"
    /\ pc[t] \in {"mark", "palloc", "touch"} \cup HasFrame => c.op \in {"get", "stack"}
    /\ pc[t] \in {"header", "pfree", "unmap", "vremove"} => c.op = "free"
    /\ c.op = "stack" => t \in Procs
    /\ c.op = "stack" /\ pc[t] # "unlock" => c.va = StackPage /\ c.cnt = 1
    /\ HasRun(t) => c.va + c.cnt - 1 <= NPages(Space(t))
    /\ pc[t] = "mark" => c.va < NPages(Space(t))

\* The pages of a call that are mapped.
GotPage(t, v) ==
  \/ pc[t] \in {"lock", "header", "touch"}
  \/ pc[t] \in {"palloc"} \cup HasFrame /\ v < Page(t)
  \/ pc[t] \in {"pfree", "unmap"} /\ v >= Page(t)

RunOK(t) == HasRun(t) => \A v \in CallRun(t) : pte[Space(t)][v] # NoFrame <=> GotPage(t, v)

\* Nobody else is working on the pages of a call, or has got them.
RunApart(t) ==
  HasRun(t) =>
    \A u \in Threads : Space(u) = Space(t) =>
      /\ \A q \in held[u] : Run(q) \cap CallRun(t) = {}
      /\ u # t /\ HasRun(u) => CallRun(u) \cap CallRun(t) = {}

\* A frame that was found is one of the right pool that nothing uses.
Unused(f) ==
  /\ f \in Frames
  /\ \A s \in Spaces : \A v \in Pages(s) : pte[s][v] # f
  /\ \A s \in Procs, k \in Tables : pde[s][k] # f

FrameOK(t) ==
  /\ pc[t] \in HasFrame => Unused(call[t].frame) /\ PoolOf(call[t].frame) = Pool(t)
  /\ pc[t] \in HasTable => Unused(call[t].table) /\ call[t].table # call[t].frame /\ NoTable(t)
  /\ pc[t] \in {"pfree", "unmap"} => PoolOf(call[t].frame) = Pool(t)

\* No frame is used twice, and a page's is of the pool of its space.
FramesApart ==
  /\ \A s, r \in Spaces : \A v \in Pages(s), w \in Pages(r) :
       pte[s][v] = pte[r][w] /\ pte[s][v] # NoFrame => s = r /\ v = w
  /\ \A s, r \in Procs : \A k, l \in Tables :
       pde[s][k] = pde[r][l] /\ pde[s][k] # NoFrame => s = r /\ k = l
  /\ \A s \in Spaces, r \in Procs : \A v \in Pages(s), k \in Tables :
       pte[s][v] = pde[r][k] => pte[s][v] = NoFrame
  /\ \A s \in Spaces : \A v \in Pages(s) :
       pte[s][v] # NoFrame => PoolOf(pte[s][v]) = IF s = Kernel THEN "kernel" ELSE "user"

\* What a thread has got are runs of pages of its space; a process has its stack.
HeldOK ==
  \A t \in Threads :
    /\ \A r \in held[t] : r \in Nat \X (Nat \ {0}) /\ r[1] + r[2] - 1 <= NPages(Space(t))
    /\ t \in Procs /\ pc[t] \notin {"none", "start"} /\ (call[t].op # "stack" \/ pc[t] = "unlock") =>
         <<StackPage, 1>> \in held[t]

\* A process that has not marked its stack yet has no pages.
Fresh(t) ==
  t \in Procs /\ (pc[t] \in {"none", "start"} \/ (pc[t] = "lock" /\ call[t].op = "stack")) =>
    held[t] = {} /\ \A v \in Pages(t) : pte[t][v] = NoFrame

ShapeOK ==
  /\ run \in Threads
  /\ booting \in BOOLEAN
  /\ owner \in [Pools -> Threads \cup {NoThread}]
  /\ level \in [Pools -> 0 .. 1]
  /\ DOMAIN pool = Pools /\ \A p \in Pools : pool[p] \in [0 .. PoolSize(p) -> BOOLEAN]
  /\ DOMAIN vmap = Spaces /\ \A s \in Spaces : vmap[s] \in [Pages(s) -> BOOLEAN]
  /\ DOMAIN pte = Spaces /\ \A s \in Spaces : pte[s] \in [Pages(s) -> Frames \cup {NoFrame}]
  /\ pde \in [Procs -> [Tables -> Frames \cup {NoFrame}]]
  /\ DOMAIN held = Threads
  /\ pc \in [Threads -> Working \cup Outside \cup {"lock", "unlock", "vaddr"}]
  /\ call \in [Threads -> Calls]
  /\ panic \in {"none", "full", "count"}

IInv ==
  /\ ShapeOK
  /\ LockOK
  /\ \A t \in Threads : CallOK(t) /\ RunOK(t) /\ RunApart(t) /\ FrameOK(t) /\ Fresh(t)
  /\ FramesApart
  /\ HeldOK
  /\ HeldApart
  /\ FramesAccounted
  /\ PagesAccounted
=============================================================================

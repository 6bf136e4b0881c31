------------------------------- MODULE Arena --------------------------------
(***************************************************************************)
(* sys_malloc and sys_free of kernel/memory.c for the threads that share   *)
(* an address space: an allocation up to the largest block size is a block *)
(* of an arena, a page cut into blocks of one size; a larger one is a run  *)
(* of pages.  Free blocks of a size are on a list; an arena all of whose   *)
(* blocks are free goes back to the pool.                                  *)
(*                                                                         *)
(* The caller's threads may be switched between any two steps; the lock of *)
(* the pool is Mutex's.  malloc_page and mfree_page are one step each on   *)
(* the set of pages in use: PagePool has them step by step.  An ASSERT in  *)
(* malloc_page stops the kernel, with the lock held.                       *)
(***************************************************************************)
EXTENDS Integers, SequencesExt

CONSTANTS
  Threads, NoThread,
  Pages,     \* pages of the heap
  PageSize,  \* PG_SIZE
  Header,    \* sizeof(struct arena)
  MinBlock,  \* the smallest block size
  DescCnt,   \* DESC_CNT
  MaxRequest,  \* the number of pages malloc_page takes stays below it: 3840
  Sizes      \* the sizes that are asked for

Descs == 0 .. DescCnt - 1
NoDesc == -1
PageSet == 0 .. Pages - 1

\* block_desc_init.
BlockSize(d) == MinBlock * 2 ^ d
BlocksPerArena(d) == (PageSize - Header) \div BlockSize(d)
MaxBlock == BlockSize(DescCnt - 1)

\* A page has room for a block of each size behind its struct arena.
ASSUME ArenaAssumption ==
  /\ NoThread \notin Threads
  /\ Pages \in Nat \ {0} /\ PageSize \in Nat \ {0} /\ Header \in Nat /\ DescCnt \in Nat \ {0}
  /\ \A d \in Descs : BlockSize(d) \in 1 .. PageSize - Header
  /\ MaxRequest \in Nat /\ MaxRequest > 1
  /\ Sizes \subseteq 1 .. Pages * PageSize - 1

\* An arena is known by its page, a block by the address of its first byte.
arena2block(a, d, idx) == a * PageSize + Header + idx * BlockSize(d)
block2arena(b) == b \div PageSize

Blocks(a, d) == {arena2block(a, d, i) : i \in 0 .. BlocksPerArena(d) - 1}

\* The descriptor sys_malloc finds for a size, and the pages of a large one.
DescFor(size) == Min({d \in Descs : size <= BlockSize(d)})
\* Mutant: no room for the header.
PageCntNoHeader(size) == (size + PageSize - 1) \div PageSize
PageCnt(size) == (size + Header + PageSize - 1) \div PageSize

Extent(m) == m[1] .. m[1] + m[2] - 1

VARIABLES
  owner, level,  \* of the pool's lock
  free,          \* free[d]: free_list of descriptor d
  head,          \* head[a]: the struct arena in page a
  used,          \* the pages that are allocated
  live,          \* the memory the callers have: <<first byte, length>>
  pc,            \* what a thread does next
  call,          \* the arguments and local variables of its call
  panic          \* the ASSERT that failed

INSTANCE Mutex WITH Locks <- {"pool"}

lockVars == <<owner, level>>
heapVars == <<free, head, used>>
vars == <<lockVars, heapVars, live, pc, call, panic>>

\* size: of the request, 0 for sys_free.  b: the block; a: the arena; i: the
\* block that is worked on.
NoCall == [size |-> 0, b |-> -1, a |-> -1, i |-> 0]
NoHead == [desc |-> NoDesc, cnt |-> 0, large |-> FALSE]

Init ==
  /\ MutexInit
  /\ free = [d \in Descs |-> <<>>]
  /\ head = [a \in PageSet |-> NoHead]
  /\ used = {}
  /\ live = {}
  /\ pc = [t \in Threads |-> "idle"]
  /\ call = [t \in Threads |-> NoCall]
  /\ panic = "none"

-----------------------------------------------------------------------------

At(t, p) == panic = "none" /\ pc[t] = p
Goto(t, p) == pc' = [pc EXCEPT ![t] = p]

\* malloc_page(pf, cnt): the first run of clear bits, if there is one.
FreeRuns(cnt) == {a \in PageSet : a + cnt <= Pages /\ \A p \in a .. a + cnt - 1 : p \notin used}

\* Its ASSERTs: on the number of pages (memory.c:124), and bitmap_scan's that not
\* every bit is set (bitmap.c:29), for the addresses first, where more than one
\* page may then still be refused with NULL, and again for every frame: who has
\* addresses left but too few frames, as a process may, fails it there.
MustStop(cnt) == cnt >= MaxRequest \/ used = PageSet
MayStop(cnt) == MustStop(cnt) \/ Cardinality(PageSet \ used) < cnt

Malloc(t, size) ==
  /\ At(t, "idle")
  /\ call' = [call EXCEPT ![t].size = size]
  /\ Goto(t, "lock")
  /\ UNCHANGED <<lockVars, heapVars, live, panic>>

Free(t, m) ==
  /\ At(t, "idle")
  /\ live' = live \ {m}
  /\ call' = [call EXCEPT ![t].b = m[1]]
  /\ Goto(t, "lock")
  /\ UNCHANGED <<lockVars, heapVars, panic>>

\* What is done under the lock: sys_free, a large block, a block of an arena.
FirstStep(t) ==
  IF call[t].size = 0 THEN "free"
  ELSE IF call[t].size > MaxBlock THEN "large"
  ELSE IF free[DescFor(call[t].size)] = <<>> THEN "arena" ELSE "pop"

LockPool(t) ==
  /\ At(t, "lock")
  /\ Lock(t, "pool")
  /\ Goto(t, FirstStep(t))
  /\ UNCHANGED <<heapVars, live, call, panic>>

\* lock_release, and the return: from here on the caller has the memory.
UnlockPool(t) ==
  /\ At(t, "unlock")
  /\ Unlock(t, "pool")
  /\ live' = IF call[t].size > 0 /\ call[t].b # -1 THEN live \cup {<<call[t].b, call[t].size>>} ELSE live
  /\ call' = [call EXCEPT ![t] = NoCall]
  /\ Goto(t, "idle")
  /\ UNCHANGED <<heapVars, panic>>

LargeArena(t, a, cnt) ==
  /\ used' = used \cup (a .. a + cnt - 1)
  /\ head' = [p \in PageSet |->
                IF p = a THEN [desc |-> NoDesc, cnt |-> cnt, large |-> TRUE]
                ELSE IF p \in a .. a + cnt - 1 THEN NoHead ELSE head[p]]
  /\ call' = [call EXCEPT ![t].b = a * PageSize + Header]
  /\ Goto(t, "unlock")
  /\ UNCHANGED free

\* panic_spin: the lock stays where it is, and so does everything else.
Stops == panic' = "malloc_page" /\ UNCHANGED <<heapVars, pc, call>>

\* Mutant: it tries again instead of returning NULL.
MallocLargeRetries(t) ==
  /\ At(t, "large")
  /\ LET cnt == PageCnt(call[t].size) IN
       \/ MayStop(cnt) /\ Stops
       \/ FreeRuns(cnt) = {} /\ UNCHANGED <<heapVars, pc, call, panic>>
       \/ FreeRuns(cnt) # {} /\ LargeArena(t, Min(FreeRuns(cnt)), cnt) /\ UNCHANGED panic
  /\ UNCHANGED <<lockVars, live>>

\* A block of its own pages, behind the struct arena in the first; or NULL.
MallocLarge(t) ==
  /\ At(t, "large")
  /\ LET cnt == PageCnt(call[t].size) IN
       \/ MayStop(cnt) /\ Stops
       \/ /\ ~MustStop(cnt) /\ UNCHANGED panic
          /\ \/ FreeRuns(cnt) = {} /\ Goto(t, "unlock") /\ UNCHANGED <<heapVars, call>>
             \/ FreeRuns(cnt) # {} /\ LargeArena(t, Min(FreeRuns(cnt)), cnt)
  /\ UNCHANGED <<lockVars, live>>

\* The free list is empty: a new arena.  Without a free page malloc_page does not
\* return, let alone NULL.
NewArena(t) ==
  /\ At(t, "arena")
  /\ LET d == DescFor(call[t].size)
         a == Min(FreeRuns(1)) IN
       IF MustStop(1) THEN Stops
       ELSE /\ used' = used \cup {a}
            /\ head' = [head EXCEPT ![a] = [desc |-> d, cnt |-> BlocksPerArena(d), large |-> FALSE]]
            /\ call' = [call EXCEPT ![t].a = a]
            /\ Goto(t, "split")
            /\ UNCHANGED <<free, panic>>
  /\ UNCHANGED <<lockVars, live>>

\* With interrupts off: every block, which must not be on the list, onto it.
Split(t) ==
  /\ At(t, "split")
  /\ LET d == head[call[t].a].desc
         new == [i \in 1 .. BlocksPerArena(d) |-> arena2block(call[t].a, d, i - 1)] IN
       IF ToSet(new) \cap ToSet(free[d]) # {}
         THEN panic' = "split" /\ UNCHANGED <<free, pc>>
         ELSE free' = [free EXCEPT ![d] = @ \o new] /\ Goto(t, "pop") /\ UNCHANGED panic
  /\ UNCHANGED <<lockVars, head, used, live, call>>

\* list_pop; on an empty list it writes through the tail's null pointer.
Pop(t) ==
  /\ At(t, "pop")
  /\ LET d == DescFor(call[t].size) IN
       IF free[d] = <<>> THEN panic' = "null" /\ UNCHANGED <<free, call, pc>>
       ELSE /\ call' = [call EXCEPT ![t].b = Head(free[d]), ![t].a = -1]
            /\ free' = [free EXCEPT ![d] = Tail(@)]
            /\ Goto(t, "count")
            /\ UNCHANGED panic
  /\ UNCHANGED <<lockVars, head, used, live>>

\* Mutant: cnt is not counted down.
CountDownNot(t) ==
  /\ At(t, "count")
  /\ Goto(t, "unlock")
  /\ UNCHANGED <<lockVars, heapVars, live, call, panic>>

CountDown(t) ==
  /\ At(t, "count")
  /\ head' = [head EXCEPT ![block2arena(call[t].b)].cnt = @ - 1]
  /\ Goto(t, "unlock")
  /\ UNCHANGED <<lockVars, free, used, live, call, panic>>

-----------------------------------------------------------------------------

\* mfree_page of a large block; a small one goes onto its free list.
GiveBlockBack(t) ==
  /\ At(t, "free")
  /\ LET a == block2arena(call[t].b) IN
       IF head[a].desc = NoDesc /\ head[a].large
         THEN /\ used' = used \ (a .. a + head[a].cnt - 1)
              /\ head' = [head EXCEPT ![a] = NoHead]
              /\ Goto(t, "unlock")
              /\ UNCHANGED <<free, call>>
         ELSE /\ free' = [free EXCEPT ![head[a].desc] = Append(@, call[t].b)]
              /\ call' = [call EXCEPT ![t].a = a]
              /\ Goto(t, "recount")
              /\ UNCHANGED <<head, used>>
  /\ UNCHANGED <<lockVars, live, panic>>

\* Mutant: the last block that is free is not noticed.
CountUpLate(t) ==
  /\ At(t, "recount")
  /\ LET h == head[call[t].a] IN
       /\ head' = [head EXCEPT ![call[t].a].cnt = @ + 1]
       /\ Goto(t, IF h.cnt = BlocksPerArena(h.desc) THEN "release" ELSE "unlock")
  /\ UNCHANGED <<lockVars, free, used, live, call, panic>>

CountUp(t) ==
  /\ At(t, "recount")
  /\ LET h == head[call[t].a] IN
       /\ head' = [head EXCEPT ![call[t].a].cnt = @ + 1]
       /\ Goto(t, IF h.cnt + 1 = BlocksPerArena(h.desc) THEN "release" ELSE "unlock")
  /\ UNCHANGED <<lockVars, free, used, live, call, panic>>

\* list_remove of a block that is on the list.
Unlinked(s, b) == RemoveAt(s, CHOOSE i \in DOMAIN s : s[i] = b)

\* Mutant: the first block stays on the list.
UnlinkFromSecond(t) ==
  /\ At(t, "release")
  /\ LET a == call[t].a
         d == head[a].desc
         b == arena2block(a, d, call[t].i) IN
       IF b \notin ToSet(free[d]) THEN panic' = "free" /\ UNCHANGED <<free, call, pc>>
       ELSE /\ free' = IF call[t].i = 0 THEN free ELSE [free EXCEPT ![d] = Unlinked(@, b)]
            /\ call' = [call EXCEPT ![t].i = @ + 1]
            /\ IF call[t].i + 1 = BlocksPerArena(d) THEN Goto(t, "mfree") ELSE UNCHANGED pc
            /\ UNCHANGED panic
  /\ UNCHANGED <<lockVars, head, used, live>>

\* All blocks of the arena are free: one after the other, which must be on the
\* list, leaves it ...
Unlink(t) ==
  /\ At(t, "release")
  /\ LET a == call[t].a
         d == head[a].desc
         b == arena2block(a, d, call[t].i) IN
       IF b \notin ToSet(free[d]) THEN panic' = "free" /\ UNCHANGED <<free, call, pc>>
       ELSE /\ free' = [free EXCEPT ![d] = Unlinked(@, b)]
            /\ call' = [call EXCEPT ![t].i = @ + 1]
            /\ IF call[t].i + 1 = BlocksPerArena(d) THEN Goto(t, "mfree") ELSE UNCHANGED pc
            /\ UNCHANGED panic
  /\ UNCHANGED <<lockVars, head, used, live>>

\* ... and mfree_page(pf, a, 1).
MfreeArena(t) ==
  /\ At(t, "mfree")
  /\ used' = used \ {call[t].a}
  /\ head' = [head EXCEPT ![call[t].a] = NoHead]
  /\ Goto(t, "unlock")
  /\ UNCHANGED <<lockVars, free, live, call, panic>>

-----------------------------------------------------------------------------

Locked(t) ==
  \/ MallocLarge(t) \/ NewArena(t) \/ Split(t) \/ Pop(t) \/ CountDown(t)
  \/ GiveBlockBack(t) \/ CountUp(t) \/ Unlink(t) \/ MfreeArena(t) \/ UnlockPool(t)

\* panic_spin.
Spin == panic # "none" /\ UNCHANGED vars

Next ==
  \/ \E t \in Threads :
       \/ \E size \in Sizes : Malloc(t, size)
       \/ \E m \in live : Free(t, m)
       \/ LockPool(t)
       \/ Locked(t)
  \/ Spin

\* Every thread is switched to again and again, and lock_acquire returns
\* (LockTaken of module Sync); nobody has to call sys_malloc or sys_free.
Fairness == \A t \in Threads : SF_vars(LockPool(t)) /\ WF_vars(Locked(t))

Spec == Init /\ [][Next]_vars /\ Fairness

-----------------------------------------------------------------------------

TypeOK ==
  /\ owner \in [{"pool"} -> Threads \cup {NoThread}]
  /\ \A d \in Descs : ToSet(free[d]) \subseteq UNION {Blocks(a, d) : a \in PageSet}
  /\ \A a \in PageSet :
       head[a].desc \in Descs \cup {NoDesc} /\ head[a].cnt \in Nat /\ head[a].large \in BOOLEAN
  /\ used \subseteq PageSet
  /\ live \subseteq (0 .. Pages * PageSize - 1) \X Sizes
  /\ \A t \in Threads : call[t].b \in -1 .. Pages * PageSize - 1 /\ call[t].a \in PageSet \cup {-1}
  /\ panic \in {"none", "malloc_page", "split", "null", "free"}

Page(x) == x \div PageSize
Disjoint(m, n) == Extent(m) \cap Extent(n) = {}

FreeOf(a) == {b \in ToSet(free[head[a].desc]) : block2arena(b) = a}

\* Memory that a caller has is nobody else's, lies in allocated pages and holds
\* neither a struct arena nor a free block, in which sys_malloc keeps its list
\* (memory.c:367-381).
BlocksApart ==
  \A m \in live :
    /\ \A n \in live \ {m} : Disjoint(m, n)
    /\ \A d \in Descs : \A b \in ToSet(free[d]) : Disjoint(m, <<b, BlockSize(d)>>)
    /\ \A x \in Extent(m) :
         Page(x) \in used /\ (x % PageSize < Header => head[Page(x)] = NoHead)

\* A block on a free list is in an arena that is still allocated and has blocks
\* of that size, and is on the list once: an arena takes its blocks with it when
\* it goes back to the pool (memory.c:508-513).
FreeListsValid ==
  \A d \in Descs :
    /\ \A b \in ToSet(free[d]) : block2arena(b) \in used /\ head[block2arena(b)].desc = d
    /\ \A i, j \in DOMAIN free[d] : free[d][i] = free[d][j] => i = j

\* The count that decides when an arena goes back (memory.c:506) is the number
\* of its blocks on the free list, but for the block that a call has moved and
\* is about to count, and while the arena is cut up or given back.
CountsExact ==
  \A a \in {x \in used : head[x].desc # NoDesc} :
    LET at(p) == {t \in Threads : pc[t] = p /\ block2arena(call[t].b) = a}
        unlinked == {x \in Threads \X (0 .. PageSize - 1) :
                       /\ pc[x[1]] \in {"release", "mfree"} /\ call[x[1]].a = a
                       /\ x[2] < call[x[1]].i}
    IN \/ \E t \in Threads : pc[t] = "split" /\ call[t].a = a
       \/ head[a].cnt + Cardinality(at("recount"))
            = Cardinality(FreeOf(a)) + Cardinality(at("count")) + Cardinality(unlinked)

\* When nobody is in the allocator, every page that is allocated has memory of a
\* caller in it: no sequence of calls, failed ones among them, leaks a page.
NothingLeaked ==
  (owner["pool"] = NoThread /\ \A t \in Threads : pc[t] = "lock" => call[t].size > 0) =>
    \A a \in used : \E m \in live : \E x \in Extent(m) : Page(x) = a

\* A request that malloc_page fails an ASSERT on: it is for too many pages, or for
\* more than are free.
TooMuch(t) ==
  \/ pc[t] = "arena" /\ used = PageSet
  \/ pc[t] = "large" /\ MayStop(PageCnt(call[t].size))

\* The types; the free lists; the counts; and the assertions: the blocks that are
\* cut from a new arena are not on the list, and those of an arena that goes back
\* are (memory.c:368, 510), list_pop never finds it empty (memory.c:375), and
\* malloc_page's fail only in the hands of a call that asks for too much.
ArenasExact ==
  /\ TypeOK /\ FreeListsValid /\ CountsExact
  /\ panic = "none" \/ (panic = "malloc_page" /\ \E t \in Threads : owner["pool"] = t /\ TooMuch(t))

\* A call returns, with memory, with NULL or after a free, unless malloc_page stops
\* the kernel in the middle of it or of another one.
CallReturns == \A t \in Threads : pc[t] # "idle" ~> pc[t] = "idle" \/ panic = "malloc_page"

\* The memory that callers get and give back is a heap's.
heap == INSTANCE Heap WITH Bytes <- Pages * PageSize
ImplementsHeap == heap!HeapSpec
=============================================================================

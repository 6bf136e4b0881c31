------------------------------ MODULE ArenaInv ------------------------------
(***************************************************************************)
(* The inductive invariant of Arena: every page that is in use belongs to  *)
(* one arena or one large allocation, and every block is free, with a      *)
(* caller, or in the hand of one call.                                     *)
(***************************************************************************)
EXTENDS Arena

\* What a thread does with the lock of the pool.
Inside == {"free", "large", "arena", "split", "pop", "count", "recount", "release", "mfree", "unlock"}

Bytes == 0 .. Pages * PageSize - 1
Calls == [size : Sizes \cup {0}, b : Bytes \cup {-1}, a : PageSet \cup {-1}, i : 0 .. PageSize]

StateOK ==
  /\ owner \in [{"pool"} -> Threads \cup {NoThread}]
  /\ level = [l \in {"pool"} |-> IF owner["pool"] = NoThread THEN 0 ELSE 1]
  /\ free \in [Descs -> Seq(Bytes)]
  /\ head \in [PageSet -> [desc : Descs \cup {NoDesc}, cnt : Nat, large : BOOLEAN]]
  /\ used \in SUBSET PageSet
  /\ live \in SUBSET (Bytes \X Sizes)
  /\ pc \in [Threads -> Inside \cup {"idle", "lock"}]
  /\ call \in [Threads -> Calls]
  /\ panic \in {"none", "malloc_page"}

\* One thread is in the allocator, the one that has the lock.
LockOK == \A t \in Threads : pc[t] \in Inside <=> owner["pool"] = t

Small(a) == head[a].desc # NoDesc
Large(a) == head[a].large

\* The pages of a large allocation are its own; all of them are in use.
PagesOK ==
  /\ \A a \in PageSet :
       /\ head[a] # NoHead => a \in used /\ (Small(a) <=> ~Large(a))
       /\ Large(a) => head[a].cnt >= 1 /\ a + head[a].cnt <= Pages
       /\ Large(a) => \A p \in a + 1 .. a + head[a].cnt - 1 : p \in used /\ head[p] = NoHead
  /\ \A p \in used : head[p] = NoHead =>
       \E a \in PageSet : Large(a) /\ p \in a + 1 .. a + head[a].cnt - 1

\* b is the address of a block, or of a large allocation; one that has the size.
IsUnit(b) ==
  LET a == block2arena(b) IN
    /\ b \in Bytes /\ a \in PageSet
    /\ \/ Small(a) /\ b \in Blocks(a, head[a].desc)
       \/ Large(a) /\ b = a * PageSize + Header
Fits(b, size) ==
  LET a == block2arena(b) IN
    IF Large(a) THEN PageCnt(size) = head[a].cnt ELSE size <= BlockSize(head[a].desc)

\* Who may have a unit: a free list, a caller, a call that gives it back or has just
\* taken it; the arena a is being cut up, or given back.
IsFree(b) == \E d \in Descs : b \in ToSet(free[d])
IsLive(b) == \E m \in live : m[1] = b
GivesBack(t) == call[t].size = 0 /\ pc[t] \in {"lock", "free"}
Takes(t) == call[t].size > 0 /\ call[t].b # -1 /\ pc[t] \in {"count", "unlock"}
Holds(t, b) == (GivesBack(t) \/ Takes(t)) /\ call[t].b = b
InHand(b) == \E t \in Threads : Holds(t, b)
Cut(a) == \E t \in Threads : pc[t] = "split" /\ call[t].a = a
Going(a) == \E t \in Threads : pc[t] \in {"release", "mfree"} /\ call[t].a = a

FreeOK ==
  \A d \in Descs :
    /\ \A b \in ToSet(free[d]) : IsUnit(b) /\ head[block2arena(b)].desc = d
    /\ \A i, j \in DOMAIN free[d] : free[d][i] = free[d][j] => i = j

LiveOK ==
  \A m \in live :
    /\ IsUnit(m[1]) /\ Fits(m[1], m[2]) /\ ~IsFree(m[1]) /\ ~InHand(m[1])
    /\ \A n \in live : m[1] = n[1] => m = n

HandOK ==
  \A t \in Threads : \A b \in Bytes \cup {-1} : Holds(t, b) =>
    /\ IsUnit(b) /\ ~IsFree(b)
    /\ \A size \in Sizes : Takes(t) /\ call[t].size = size => Fits(b, size)
    /\ \A u \in Threads : Holds(u, b) => u = t

\* No unit is lost.
AllHeld ==
  \A a \in PageSet :
    /\ Small(a) /\ ~Cut(a) /\ ~Going(a) =>
         \A b \in Blocks(a, head[a].desc) : IsFree(b) \/ IsLive(b) \/ InHand(b)
    /\ Large(a) => LET b == a * PageSize + Header IN IsLive(b) \/ InHand(b)

\* How much a call has put the count of arena a ahead of its free blocks.
AheadBy(t, a) ==
  IF pc[t] = "count" /\ block2arena(call[t].b) = a THEN 1
  ELSE IF pc[t] = "recount" /\ block2arena(call[t].b) = a THEN -1
  ELSE IF pc[t] \in {"release", "mfree"} /\ call[t].a = a THEN call[t].i
  ELSE 0
Ahead(a) == IF owner["pool"] = NoThread THEN 0 ELSE AheadBy(owner["pool"], a)
CountOK ==
  \A a \in PageSet : Small(a) /\ ~Cut(a) => head[a].cnt = Cardinality(FreeOf(a)) + Ahead(a)

\* The count says that all blocks of an arena are free only while it is new, or
\* about to go.
Filled(t, a) ==
  \/ pc[t] \in {"split", "release", "mfree"} /\ call[t].a = a
  \/ pc[t] = "count" /\ block2arena(call[t].b) = a
  \/ pc[t] = "pop" /\ \A b \in ToSet(free[DescFor(call[t].size)]) : block2arena(b) = a
FullOK ==
  \A a \in PageSet :
    Small(a) /\ head[a].cnt = BlocksPerArena(head[a].desc) => \E t \in Threads : Filled(t, a)

\* Where a call is in its way through the allocator.
Asked(t) == call[t].size \in 1 .. MaxBlock
Fresh(t) == call[t].b = -1
CallOK(t) ==
  /\ pc[t] = "idle" => call[t] = NoCall
  /\ pc[t] = "lock" => (call[t].size > 0 => Fresh(t))
  /\ pc[t] = "large" => call[t].size > MaxBlock /\ Fresh(t)
  /\ pc[t] = "arena" => Asked(t) /\ Fresh(t)
  /\ pc[t] \in {"arena", "split"} => free[DescFor(call[t].size)] = <<>>
  /\ pc[t] = "pop" => Asked(t) /\ Fresh(t) /\ free[DescFor(call[t].size)] # <<>>
  /\ pc[t] = "split" =>
       /\ Asked(t) /\ Fresh(t) /\ call[t].a \in PageSet
       /\ head[call[t].a] = [desc |-> DescFor(call[t].size), large |-> FALSE,
                             cnt |-> BlocksPerArena(DescFor(call[t].size))]
       /\ \A b \in Bytes : block2arena(b) = call[t].a => ~IsFree(b) /\ ~IsLive(b) /\ ~InHand(b)
  /\ pc[t] = "count" => Takes(t) /\ head[block2arena(call[t].b)].desc = DescFor(call[t].size) /\ Asked(t)
  /\ pc[t] = "free" => call[t].size = 0
  /\ pc[t] = "recount" =>
       /\ call[t].size = 0 /\ call[t].a = block2arena(call[t].b)
       /\ \A b \in Bytes \cup {-1} : call[t].b = b => IsUnit(b) /\ IsFree(b)
  /\ pc[t] \in {"release", "mfree"} =>
       /\ call[t].size = 0 /\ call[t].a \in PageSet /\ Small(call[t].a)
       /\ \A a \in PageSet, d \in Descs : call[t].a = a /\ head[a].desc = d =>
            /\ \A k \in 0 .. BlocksPerArena(d) - 1 :
                 LET b == arena2block(a, d, k) IN
                   ~IsLive(b) /\ ~InHand(b) /\ (IsFree(b) <=> k >= call[t].i)
            /\ IF pc[t] = "release" THEN call[t].i < BlocksPerArena(d) ELSE call[t].i = BlocksPerArena(d)
  /\ pc[t] \notin {"release", "mfree", "unlock"} => call[t].i = 0
  /\ pc[t] = "unlock" /\ call[t].size > 0 => Fresh(t) \/ Takes(t)

IInv ==
  /\ StateOK /\ LockOK /\ PagesOK /\ FreeOK /\ LiveOK /\ HandOK /\ AllHeld /\ CountOK /\ FullOK
  /\ \A t \in Threads : CallOK(t)

\* When the kernel has stopped, it is for a request that is too much.
PanicOK == panic = "none" \/ (panic = "malloc_page" /\ \E t \in Threads : owner["pool"] = t /\ TooMuch(t))
=============================================================================

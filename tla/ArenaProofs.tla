---------------------------- MODULE ArenaProofs -----------------------------
(* What is proved of sys_malloc and sys_free: the inductive invariant of   *)
(* ArenaInv, the properties that follow from it, and that Arena implements *)
(* the Heap.                                                               *)
EXTENDS ArenaInv, DataLemmas

-----------------------------------------------------------------------------
(* Pages, blocks and the pages of a large allocation.                      *)

LEMMA TimesMonotone ==
  ASSUME NEW a \in Nat, NEW b \in Nat, NEW c \in Nat, a <= b
  PROVE  a * c <= b * c
OBVIOUS

\* A number of pages and an offset.
LEMMA PageAndOffset ==
  ASSUME NEW c \in Nat \ {0}, NEW a \in Nat, NEW o \in 0 .. c - 1
  PROVE  (a * c + o) \div c = a /\ (a * c + o) % c = o
<1>1. a * c + o \in Nat
  OBVIOUS
<1>2. PICK q \in Nat, r \in 0 .. c - 1 :
        q = (a * c + o) \div c /\ r = (a * c + o) % c /\ a * c + o = c * q + r
  BY <1>1, DivMod
<1>3. CASE q < a
  <2>1. (q + 1) * c <= a * c
    BY <1>3, TimesMonotone
  <2>2. (q + 1) * c = c * q + c
    OBVIOUS
  <2> QED BY <1>2, <2>1, <2>2
<1>4. CASE a < q
  <2>1. (a + 1) * c <= q * c
    BY <1>4, TimesMonotone
  <2>2. (a + 1) * c = a * c + c /\ q * c = c * q
    OBVIOUS
  <2> QED BY <1>2, <2>1, <2>2
<1>5. CASE q = a
  BY <1>2, <1>5
<1> QED BY <1>3, <1>4, <1>5

LEMMA Constants ==
  /\ Pages \in Nat \ {0} /\ PageSize \in Nat \ {0} /\ Header \in 0 .. PageSize - 1 /\ DescCnt \in Nat \ {0}
  /\ \A d \in Descs : d \in Nat /\ BlockSize(d) \in 1 .. PageSize - Header
  /\ Sizes \subseteq 1 .. Pages * PageSize - 1
  /\ NoThread \notin Threads
  /\ MaxBlock \in Nat
<1>1. DescCnt - 1 \in Descs
  BY ArenaAssumption DEF Descs
<1>2. 0 \in Descs
  BY ArenaAssumption DEF Descs
<1>3. BlockSize(0) \in 1 .. PageSize - Header
  BY <1>2, ArenaAssumption
<1> QED BY <1>1, <1>3, ArenaAssumption DEF Descs, MaxBlock

LEMMA CallType ==
  ASSUME StateOK, NEW t \in Threads
  PROVE  /\ call[t] \in Calls /\ pc[t] \in Inside \cup {"idle", "lock"}
         /\ call[t].size \in Nat /\ call[t].size \in Sizes \cup {0}
         /\ call[t].b \in Bytes \cup {-1} /\ call[t].a \in PageSet \cup {-1} /\ call[t].i \in 0 .. PageSize
         /\ -1 \notin Bytes /\ 0 \notin Sizes /\ Sizes \subseteq Nat \ {0}
<1>1. call[t] \in Calls /\ pc[t] \in Inside \cup {"idle", "lock"}
  BY DEF StateOK
<1>2. -1 \notin Bytes
  BY DEF Bytes
<1>3. 0 \notin Sizes /\ Sizes \subseteq Nat \ {0}
  BY Constants
<1>4. /\ call[t].size \in Sizes \cup {0}
      /\ call[t].b \in Bytes \cup {-1} /\ call[t].a \in PageSet \cup {-1} /\ call[t].i \in 0 .. PageSize
  BY <1>1 DEF Calls
<1>5. \A z \in Sizes \cup {0} : z \in Nat
  BY <1>3
<1>6. call[t].size \in Nat
  BY <1>4, <1>5
<1> QED BY <1>1, <1>2, <1>3, <1>4, <1>6

\* The bytes of a page are bytes of the heap, of that page.
LEMMA ByteOfPage ==
  ASSUME NEW a \in PageSet, NEW o \in 0 .. PageSize - 1
  PROVE  /\ a * PageSize + o \in Bytes /\ Page(a * PageSize + o) = a
         /\ (a * PageSize + o) % PageSize = o
<1>1. a \in Nat /\ a + 1 <= Pages /\ Pages \in Nat /\ PageSize \in Nat \ {0}
  BY Constants DEF PageSet
<1>2. (a + 1) * PageSize <= Pages * PageSize
  BY <1>1, TimesMonotone
<1>3. (a + 1) * PageSize = a * PageSize + PageSize
  BY <1>1
<1> QED BY <1>1, <1>2, <1>3, PageAndOffset DEF Bytes, Page

LEMMA PageOfByte ==
  ASSUME NEW x \in Bytes
  PROVE  /\ Page(x) \in PageSet /\ x % PageSize \in 0 .. PageSize - 1
         /\ x = Page(x) * PageSize + (x % PageSize)
<1>1. Pages \in Nat /\ PageSize \in Nat \ {0} /\ x \in Nat /\ x < Pages * PageSize
  BY Constants DEF Bytes
<1>2. PICK q \in Nat, r \in 0 .. PageSize - 1 :
        q = x \div PageSize /\ r = x % PageSize /\ x = PageSize * q + r
  BY <1>1, DivMod
<1>3. q < Pages
  <2>1. SUFFICES ASSUME Pages <= q PROVE FALSE
    BY <1>1, <1>2
  <2>2. Pages * PageSize <= q * PageSize
    BY <1>1, <2>1, TimesMonotone
  <2> QED BY <1>1, <1>2, <2>2
<1>4. q \in 0 .. Pages - 1 /\ PageSize * q = q * PageSize
  BY <1>1, <1>2, <1>3
<1> QED BY <1>2, <1>4 DEF Page, PageSet

LEMMA BlocksPerArenaFacts ==
  ASSUME NEW d \in Descs
  PROVE  /\ BlocksPerArena(d) \in 1 .. PageSize
         /\ BlocksPerArena(d) * BlockSize(d) <= PageSize - Header
<1>1. PICK s \in Nat \ {0}, n \in Nat : s = BlockSize(d) /\ n = PageSize - Header /\ s <= n /\ n <= PageSize
  BY Constants
<1>2. PICK q \in Nat, r \in 0 .. s - 1 : q = n \div s /\ n = s * q + r
  BY DivMod
<1>3. q >= 1
  BY <1>1, <1>2
<1>4. q * 1 <= q * s
  BY TimesMonotone
<1>5. q * s <= n
  BY <1>2
<1> QED BY <1>1, <1>2, <1>3, <1>4, <1>5, Constants DEF BlocksPerArena

\* A block lies in its arena's page, behind the struct arena, and the blocks of
\* an arena do not overlap.
LEMMA BlockFacts ==
  ASSUME NEW a \in PageSet, NEW d \in Descs, NEW i \in 0 .. BlocksPerArena(d) - 1
  PROVE  /\ arena2block(a, d, i) \in Bytes /\ block2arena(arena2block(a, d, i)) = a
         /\ arena2block(a, d, i) >= a * PageSize + Header
         /\ arena2block(a, d, i) + BlockSize(d) <= a * PageSize + PageSize
         /\ \A j \in 0 .. BlocksPerArena(d) - 1 :
              i < j => arena2block(a, d, i) + BlockSize(d) <= arena2block(a, d, j)
<1>1. PICK s \in Nat \ {0}, q \in Nat \ {0} : s = BlockSize(d) /\ q = BlocksPerArena(d) /\ q * s <= PageSize - Header
  BY Constants, BlocksPerArenaFacts
<1>2. /\ i \in Nat /\ i + 1 <= q /\ (i + 1) * s <= q * s /\ (i + 1) * s = i * s + s /\ i * s \in Nat
      /\ \A j \in 0 .. q - 1 : i < j => (i + 1) * s <= j * s
  BY <1>1, TimesMonotone
<1>3. Header + i * s \in 0 .. PageSize - 1 /\ a * PageSize \in Nat /\ PageSize \in Nat /\ Header \in Nat
  BY <1>1, <1>2, Constants DEF PageSet
<1>4. arena2block(a, d, i) = a * PageSize + (Header + i * s)
  BY <1>1, <1>2, <1>3 DEF arena2block
<1>5. arena2block(a, d, i) \in Bytes /\ block2arena(arena2block(a, d, i)) = a
  BY <1>3, <1>4, ByteOfPage DEF Page, block2arena
<1>6. ASSUME NEW j \in 0 .. q - 1, i < j
      PROVE  arena2block(a, d, i) + s <= arena2block(a, d, j)
  <2>1. arena2block(a, d, j) = a * PageSize + Header + j * s
    BY <1>1 DEF arena2block
  <2>2. j * s \in Nat /\ i * s + s <= j * s
    BY <1>2, <1>6
  <2> QED BY <1>2, <1>3, <1>4, <2>1, <2>2
<1>7. a * PageSize + (Header + i * s) + s <= a * PageSize + PageSize
  BY <1>1, <1>2, <1>3
<1> QED BY <1>1, <1>2, <1>3, <1>4, <1>5, <1>6, <1>7

LEMMA BlockInjective ==
  ASSUME NEW a \in PageSet, NEW d \in Descs,
         NEW i \in 0 .. BlocksPerArena(d) - 1, NEW j \in 0 .. BlocksPerArena(d) - 1,
         arena2block(a, d, i) = arena2block(a, d, j)
  PROVE  i = j
<1>1. /\ i < j => arena2block(a, d, i) + BlockSize(d) <= arena2block(a, d, j)
      /\ j < i => arena2block(a, d, j) + BlockSize(d) <= arena2block(a, d, i)
      /\ arena2block(a, d, i) \in Nat /\ arena2block(a, d, j) \in Nat
  BY BlockFacts DEF Bytes
<1>2. BlockSize(d) \in Nat \ {0} /\ i \in Int /\ j \in Int
  BY Constants, BlocksPerArenaFacts
<1> QED BY <1>1, <1>2

\* The blocks of an arena are as many as fit.
LEMMA BlocksFinite ==
  ASSUME NEW a \in PageSet, NEW d \in Descs
  PROVE  /\ IsFiniteSet(Blocks(a, d)) /\ Cardinality(Blocks(a, d)) = BlocksPerArena(d)
         /\ \A b \in Blocks(a, d) : b \in Bytes /\ block2arena(b) = a
<1> DEFINE I == 0 .. BlocksPerArena(d) - 1
           f == [i \in I |-> arena2block(a, d, i)]
<1>1. IsFiniteSet(I) /\ Cardinality(I) = BlocksPerArena(d)
  <2>1. PICK n \in Nat \ {0} : n = BlocksPerArena(d)
    BY BlocksPerArenaFacts
  <2>2. IsFiniteSet(0 .. n - 1) /\ Cardinality(0 .. n - 1) = n
    BY FS_Interval
  <2> QED BY <2>1, <2>2
<1>2. f \in Bijection(I, Blocks(a, d))
  <2>1. f \in [I -> Blocks(a, d)]
    BY DEF Blocks
  <2>2. \A i, j \in I : f[i] = f[j] => i = j
    BY BlockInjective
  <2>3. \A b \in Blocks(a, d) : \E i \in I : f[i] = b
    BY DEF Blocks
  <2> HIDE DEF f, I
  <2> QED BY <2>1, <2>2, <2>3 DEF Bijection, Injection, Surjection, IsInjective
<1>3. ExistsBijection(I, Blocks(a, d))
  BY <1>2 DEF ExistsBijection
<1>4. \A b \in Blocks(a, d) : b \in Bytes /\ block2arena(b) = a
  BY BlockFacts DEF Blocks
<1> HIDE DEF I
<1> QED BY <1>1, <1>3, <1>4, FS_Bijection

\* A large allocation reaches into the last of its pages.
LEMMA LargeFacts ==
  ASSUME NEW size \in Nat \ {0}, NEW a \in PageSet
  PROVE  /\ PageCnt(size) \in Nat \ {0}
         /\ a * PageSize + Header + size <= (a + PageCnt(size)) * PageSize
         /\ (a + (PageCnt(size) - 1)) * PageSize < a * PageSize + Header + size
<1>1. PICK n \in Nat, p \in Nat \ {0}, h \in Nat :
        p = PageSize /\ h = Header /\ n = size + Header + PageSize - 1 /\ n = size + h + p - 1
  BY Constants
<1>2. PICK q \in Nat, r \in 0 .. p - 1 : q = n \div p /\ n = p * q + r
  BY DivMod
<1>3. PageCnt(size) = q
  BY <1>1, <1>2 DEF PageCnt
<1>4. q # 0
  BY <1>1, <1>2
<1>5. a \in Nat
  BY DEF PageSet
<1>6. /\ (a + q) * p = a * p + p * q
      /\ (a + (q - 1)) * p = a * p + p * q - p
  BY <1>5
<1>7. p * q >= size + h /\ p * q - p < size + h
  BY <1>1, <1>2
<1>8. p * q \in Int /\ a * p \in Int /\ h \in Int /\ p \in Int
  BY <1>5
<1> QED BY <1>1, <1>3, <1>4, <1>6, <1>7, <1>8

\* The descriptor of a size that is not too large.
LEMMA DescForFacts ==
  ASSUME NEW size \in 1 .. MaxBlock
  PROVE  DescFor(size) \in Descs /\ size <= BlockSize(DescFor(size))
<1> DEFINE S == {d \in Descs : size <= BlockSize(d)}
<1>1. S \in SUBSET Nat
  BY DEF Descs
<1>2. DescCnt - 1 \in S
  BY Constants DEF Descs, MaxBlock
<1>3. Min(S) \in S
  BY <1>1, <1>2, MinFacts
<1> QED BY <1>3 DEF DescFor

\* malloc_page's run of clear bits.
LEMMA FreeRunFacts ==
  ASSUME NEW cnt, FreeRuns(cnt) # {}
  PROVE  Min(FreeRuns(cnt)) \in FreeRuns(cnt) /\ Min(FreeRuns(cnt)) \in PageSet
<1>1. FreeRuns(cnt) \in SUBSET Nat
  BY DEF FreeRuns, PageSet
<1> QED BY <1>1, MinFacts DEF FreeRuns

\* The pages between two page boundaries.
LEMMA PagesBetween ==
  ASSUME NEW a \in Nat, NEW n \in Nat, NEW x \in Bytes, a * PageSize <= x, x < (a + n) * PageSize
  PROVE  Page(x) \in a .. a + n - 1
<1>1. PICK p \in Nat, r \in 0 .. PageSize - 1 : p = Page(x) /\ x = p * PageSize + r
  BY PageOfByte DEF PageSet
<1>2. PageSize \in Nat /\ x \in Nat
  BY Constants DEF Bytes
<1>3. CASE p < a
  <2>1. (p + 1) * PageSize <= a * PageSize
    BY <1>2, <1>3, TimesMonotone
  <2>2. (p + 1) * PageSize = p * PageSize + PageSize
    BY <1>2
  <2> QED BY <1>1, <1>2, <2>1, <2>2
<1>4. CASE a + n <= p
  <2>1. (a + n) * PageSize <= p * PageSize
    BY <1>2, <1>4, TimesMonotone
  <2> QED BY <1>1, <1>2, <2>1
<1> QED BY <1>1, <1>3, <1>4

-----------------------------------------------------------------------------
(* What belongs to whom.                                                   *)

\* The pages that an arena or a large allocation owns, and the bytes of a unit.
Own(a) == IF Large(a) THEN a .. a + head[a].cnt - 1 ELSE {a}
Span(b) ==
  LET a == block2arena(b) IN
    IF Large(a) THEN b .. (a + head[a].cnt) * PageSize - 1 ELSE b .. b + BlockSize(head[a].desc) - 1

LEMMA HeadFacts ==
  ASSUME StateOK, PagesOK, NEW a \in PageSet
  PROVE  /\ head[a] \in [desc : Descs \cup {NoDesc}, cnt : Nat, large : BOOLEAN]
         /\ a \in Nat /\ a < Pages
         /\ head[a] = NoHead <=> ~Small(a) /\ ~Large(a)
         /\ Small(a) => head[a].desc \in Descs /\ ~Large(a) /\ a \in used
         /\ Large(a) => head[a].desc = NoDesc /\ a \in used
<1>0. a \in Nat /\ a < Pages
  BY Constants DEF PageSet
<1>1. head[a] \in [desc : Descs \cup {NoDesc}, cnt : Nat, large : BOOLEAN] /\ a \in Nat /\ a < Pages
  BY <1>0 DEF StateOK
<1>2. head[a] = NoHead => ~Small(a) /\ ~Large(a)
  BY DEF NoHead, Small, Large
<1>3. head[a] # NoHead => a \in used /\ (Small(a) <=> ~Large(a))
  BY DEF PagesOK
<1> QED BY <1>1, <1>2, <1>3 DEF Small, Large

LEMMA UnitFacts ==
  ASSUME StateOK, PagesOK, NEW b, IsUnit(b)
  PROVE  LET a == block2arena(b) IN
           /\ b \in Bytes /\ b \in Nat /\ b # -1 /\ a \in PageSet /\ a \in used /\ head[a] # NoHead
           /\ Small(a) => /\ \E i \in 0 .. BlocksPerArena(head[a].desc) - 1 : b = arena2block(a, head[a].desc, i)
                          /\ head[a].desc \in Descs /\ ~Large(a) /\ b \in Blocks(a, head[a].desc)
           /\ Large(a) => b = a * PageSize + Header /\ ~Small(a)
           /\ Small(a) \/ Large(a)
<1> DEFINE a == block2arena(b)
<1>1. a \in PageSet /\ b \in Bytes /\ b \in Nat /\ b # -1
  BY DEF IsUnit, Bytes
<1>2. /\ head[a] = NoHead <=> ~Small(a) /\ ~Large(a)
      /\ Small(a) => head[a].desc \in Descs /\ ~Large(a) /\ a \in used
      /\ Large(a) => head[a].desc = NoDesc /\ a \in used
  BY <1>1, HeadFacts
<1>3. \/ Small(a) /\ b \in Blocks(a, head[a].desc)
      \/ Large(a) /\ b = a * PageSize + Header
  BY DEF IsUnit
<1> QED BY <1>1, <1>2, <1>3 DEF Blocks, Small

\* Nobody's pages are anybody else's.
LEMMA OwnApart ==
  ASSUME StateOK, PagesOK, NEW a \in PageSet, NEW c \in PageSet, a # c, head[a] # NoHead, head[c] # NoHead
  PROVE  Own(a) \cap Own(c) = {}
<1>1. /\ Large(a) => head[a].cnt \in Nat /\ \A p \in a + 1 .. a + head[a].cnt - 1 : head[p] = NoHead
      /\ Large(c) => head[c].cnt \in Nat /\ \A p \in c + 1 .. c + head[c].cnt - 1 : head[p] = NoHead
  BY HeadFacts DEF PagesOK
<1>2. a \in Nat /\ c \in Nat
  BY DEF PageSet
<1>3. SUFFICES ASSUME NEW p \in Own(a), p \in Own(c) PROVE FALSE
  OBVIOUS
<1>4. CASE Large(a) /\ Large(c)
  <2>1. p \in Nat /\ p >= a /\ p >= c /\ p <= a + head[a].cnt - 1 /\ p <= c + head[c].cnt - 1
    BY <1>1, <1>2, <1>3, <1>4 DEF Own
  <2>2. CASE a < c
    <3>1. c \in a + 1 .. a + head[a].cnt - 1
      BY <1>1, <1>2, <1>4, <2>1, <2>2
    <3> QED BY <1>1, <1>4, <3>1
  <2>3. CASE c < a
    <3>1. a \in c + 1 .. c + head[c].cnt - 1
      BY <1>1, <1>2, <1>4, <2>1, <2>3
    <3> QED BY <1>1, <1>4, <3>1
  <2> QED BY <1>2, <2>2, <2>3
<1>5. CASE Large(a) /\ ~Large(c)
  <2>1. c \in a + 1 .. a + head[a].cnt - 1
    BY <1>1, <1>2, <1>3, <1>5 DEF Own
  <2> QED BY <1>1, <1>5, <2>1
<1>6. CASE ~Large(a) /\ Large(c)
  <2>1. a \in c + 1 .. c + head[c].cnt - 1
    BY <1>1, <1>2, <1>3, <1>6 DEF Own
  <2> QED BY <1>1, <1>6, <2>1
<1>7. CASE ~Large(a) /\ ~Large(c)
  BY <1>3, <1>7 DEF Own
<1> QED BY <1>4, <1>5, <1>6, <1>7

\* The bytes of a unit are in pages of its owner, behind the struct arena.
LEMMA SpanFacts ==
  ASSUME StateOK, PagesOK, NEW b, IsUnit(b), NEW x \in Span(b)
  PROVE  /\ x \in Bytes /\ Page(x) \in Own(block2arena(b)) /\ Page(x) \in used
         /\ x % PageSize < Header => head[Page(x)] = NoHead
<1>1. PICK a \in PageSet : a = block2arena(b)
  BY UnitFacts
<1>2. /\ b \in Bytes /\ a \in used
      /\ Small(a) => \E i \in 0 .. BlocksPerArena(head[a].desc) - 1 : b = arena2block(a, head[a].desc, i)
      /\ Small(a) => head[a].desc \in Descs /\ ~Large(a)
      /\ Large(a) => b = a * PageSize + Header
      /\ Small(a) \/ Large(a)
  BY <1>1, UnitFacts
<1>3. a \in Nat /\ a < Pages /\ head[a].cnt \in Nat /\ a * PageSize \in Nat
  BY HeadFacts, Constants
<1>4. PageSize \in Nat \ {0} /\ Header \in 0 .. PageSize - 1 /\ Pages \in Nat
  BY Constants
<1>5. CASE Small(a)
  <2>1. PICK d \in Descs : d = head[a].desc
    BY <1>2, <1>5
  <2>2. PICK i \in 0 .. BlocksPerArena(d) - 1 : b = arena2block(a, d, i)
    BY <1>2, <1>5, <2>1
  <2>3. /\ b >= a * PageSize + Header /\ b \in Nat
        /\ b + BlockSize(d) <= a * PageSize + PageSize
    BY <2>2, BlockFacts DEF Bytes
  <2>4. x \in b .. b + BlockSize(d) - 1 /\ BlockSize(d) \in Nat
    BY <1>1, <1>2, <1>5, <2>1, Constants DEF Span
  <2>5. PICK o \in 0 .. PageSize - 1 : x = a * PageSize + o /\ o >= Header
    <3>1. x - a * PageSize \in 0 .. PageSize - 1 /\ x - a * PageSize >= Header
      BY <1>3, <1>4, <2>3, <2>4
    <3>2. x = a * PageSize + (x - a * PageSize)
      BY <1>3, <2>3, <2>4
    <3> QED BY <3>1, <3>2
  <2>6. x \in Bytes /\ Page(x) = a /\ x % PageSize = o
    BY <2>5, ByteOfPage
  <2> QED BY <1>1, <1>2, <1>4, <1>5, <2>5, <2>6 DEF Own
<1>6. CASE Large(a)
  <2>1. PICK n \in Nat : n = head[a].cnt /\ n >= 1 /\ a + n <= Pages
    BY <1>3, <1>6 DEF PagesOK
  <2>2. x \in b .. (a + n) * PageSize - 1 /\ b = a * PageSize + Header
    BY <1>1, <1>2, <1>6, <2>1 DEF Span
  <2>3. (a + n) * PageSize \in Nat /\ Pages * PageSize \in Nat /\ (a + n) * PageSize <= Pages * PageSize
    BY <1>3, <1>4, <2>1, TimesMonotone
  <2>4. x \in Bytes /\ a * PageSize <= x /\ x < (a + n) * PageSize
    BY <1>3, <1>4, <2>2, <2>3 DEF Bytes
  <2>5. Page(x) \in a .. a + n - 1
    BY <1>3, <2>4, PagesBetween
  <2>6. Page(x) # a => Page(x) \in a + 1 .. a + n - 1
    BY <1>3, <2>1, <2>5
  <2>7. \A p \in a + 1 .. a + n - 1 : p \in used /\ head[p] = NoHead
    BY <1>6, <2>1 DEF PagesOK
  <2>8. Page(x) = a => ~(x % PageSize < Header)
    <3>1. x % PageSize \in 0 .. PageSize - 1 /\ x = Page(x) * PageSize + (x % PageSize)
      BY <2>4, PageOfByte
    <3> QED BY <1>3, <1>4, <2>2, <3>1
  <2> QED BY <1>1, <1>2, <1>6, <2>1, <2>4, <2>5, <2>6, <2>7, <2>8 DEF Own
<1> QED BY <1>2, <1>5, <1>6

LEMMA SpansApart ==
  ASSUME StateOK, PagesOK, NEW b, IsUnit(b), NEW c, IsUnit(c), b # c
  PROVE  Span(b) \cap Span(c) = {}
<1> SUFFICES ASSUME NEW x \in Span(b), x \in Span(c) PROVE FALSE
  OBVIOUS
<1>1. PICK a \in PageSet : a = block2arena(b)
  BY UnitFacts
<1>2. CASE block2arena(c) # a
  <2>1. block2arena(c) \in PageSet /\ head[block2arena(c)] # NoHead /\ head[a] # NoHead
    BY <1>1, UnitFacts
  <2>2. Page(x) \in Own(a) /\ Page(x) \in Own(block2arena(c))
    BY <1>1, SpanFacts
  <2> QED BY <1>2, <2>1, <2>2, OwnApart
<1>3. CASE block2arena(c) = a
  <2>1. /\ Small(a) => \E i \in 0 .. BlocksPerArena(head[a].desc) - 1 : b = arena2block(a, head[a].desc, i)
        /\ Small(a) => \E i \in 0 .. BlocksPerArena(head[a].desc) - 1 : c = arena2block(a, head[a].desc, i)
        /\ Small(a) => head[a].desc \in Descs /\ ~Large(a)
        /\ Large(a) => b = c
        /\ Small(a) \/ Large(a)
        /\ b \in Nat /\ c \in Nat
    BY <1>1, <1>3, UnitFacts
  <2>2. Small(a)
    BY <2>1
  <2>3. PICK d \in Descs : d = head[a].desc
    BY <2>1, <2>2
  <2>4. PICK i \in 0 .. BlocksPerArena(d) - 1 : b = arena2block(a, d, i)
    BY <2>1, <2>2, <2>3
  <2>5. PICK j \in 0 .. BlocksPerArena(d) - 1 : c = arena2block(a, d, j)
    BY <2>1, <2>2, <2>3
  <2>6. x \in b .. b + BlockSize(d) - 1 /\ x \in c .. c + BlockSize(d) - 1 /\ BlockSize(d) \in Nat
    BY <1>1, <1>3, <2>1, <2>2, <2>3, Constants DEF Span
  <2>7. i < j \/ j < i
    <3>1. i # j
      BY <2>4, <2>5
    <3>2. i \in Int /\ j \in Int
      OBVIOUS
    <3> QED BY <3>1, <3>2
  <2>8. b + BlockSize(d) <= c \/ c + BlockSize(d) <= b
    BY <2>4, <2>5, <2>7, BlockFacts
  <2> QED BY <2>1, <2>6, <2>8
<1> QED BY <1>2, <1>3

\* The memory of a caller is inside its unit.
LEMMA FitsFacts ==
  ASSUME StateOK, PagesOK, NEW b, IsUnit(b), NEW size \in Sizes, Fits(b, size)
  PROVE  /\ Extent(<<b, size>>) \subseteq Span(b)
         /\ b + size <= Pages * PageSize
<1>1. PICK a \in PageSet : a = block2arena(b)
  BY UnitFacts
<1>2. /\ b \in Bytes /\ b \in Nat
      /\ Small(a) => \E i \in 0 .. BlocksPerArena(head[a].desc) - 1 : b = arena2block(a, head[a].desc, i)
      /\ Small(a) => head[a].desc \in Descs /\ ~Large(a)
      /\ Large(a) => b = a * PageSize + Header
      /\ Small(a) \/ Large(a)
  BY <1>1, UnitFacts
<1>3. size \in Nat \ {0} /\ PageSize \in Nat /\ Pages \in Nat /\ a \in Nat /\ a < Pages /\ head[a].cnt \in Nat
  BY Constants, HeadFacts
<1>4. Extent(<<b, size>>) = b .. b + size - 1
  BY DEF Extent
<1>5. CASE Small(a)
  <2>1. PICK d \in Descs : d = head[a].desc
    BY <1>2, <1>5
  <2>2. PICK i \in 0 .. BlocksPerArena(d) - 1 : b = arena2block(a, d, i)
    BY <1>2, <1>5, <2>1
  <2>3. b + BlockSize(d) <= a * PageSize + PageSize /\ BlockSize(d) \in Nat /\ size <= BlockSize(d)
    BY <1>1, <1>2, <1>5, <2>1, <2>2, BlockFacts, Constants DEF Fits
  <2>4. Span(b) = b .. b + BlockSize(d) - 1
    BY <1>1, <1>2, <1>5, <2>1 DEF Span
  <2>5. (a + 1) * PageSize <= Pages * PageSize /\ (a + 1) * PageSize = a * PageSize + PageSize
    BY <1>3, TimesMonotone
  <2>6. a * PageSize \in Nat /\ Pages * PageSize \in Nat
    BY <1>3
  <2>7. b + size <= Pages * PageSize
    BY <1>2, <1>3, <2>3, <2>5, <2>6
  <2>8. b .. b + size - 1 \subseteq b .. b + BlockSize(d) - 1
    BY <1>2, <1>3, <2>3
  <2> QED BY <1>4, <2>4, <2>7, <2>8
<1>6. CASE Large(a)
  <2>1. PICK n \in Nat : n = head[a].cnt /\ n = PageCnt(size) /\ a + n <= Pages
    BY <1>1, <1>3, <1>6 DEF PagesOK, Fits
  <2>2. b + size <= (a + n) * PageSize
    BY <1>2, <1>3, <1>6, <2>1, LargeFacts
  <2>3. (a + n) * PageSize <= Pages * PageSize /\ (a + n) * PageSize \in Nat /\ Pages * PageSize \in Nat
    BY <1>3, <2>1, TimesMonotone
  <2>4. Span(b) = b .. (a + n) * PageSize - 1
    BY <1>1, <1>6, <2>1 DEF Span
  <2>5. b + size <= Pages * PageSize
    BY <1>2, <1>3, <2>2, <2>3
  <2>6. b .. b + size - 1 \subseteq b .. (a + n) * PageSize - 1
    BY <1>2, <1>3, <2>2, <2>3
  <2> QED BY <1>4, <2>4, <2>5, <2>6
<1> QED BY <1>2, <1>5, <1>6

\* A free block is in a small arena, on the list of its size.
LEMMA FreeFacts ==
  ASSUME StateOK, PagesOK, FreeOK, NEW b, IsFree(b)
  PROVE  LET a == block2arena(b) IN
           /\ IsUnit(b) /\ a \in PageSet /\ Small(a) /\ ~Large(a) /\ head[a].desc \in Descs
           /\ b \in Bytes /\ b \in Blocks(a, head[a].desc)
           /\ b \in ToSet(free[head[a].desc])
<1>1. PICK d \in Descs : b \in ToSet(free[d])
  BY DEF IsFree
<1>2. IsUnit(b) /\ head[block2arena(b)].desc = d
  BY <1>1 DEF FreeOK
<1>3. d # NoDesc
  BY Constants DEF NoDesc
<1>4. Small(block2arena(b))
  BY <1>2, <1>3 DEF Small
<1> QED BY <1>1, <1>2, <1>4, UnitFacts

\* The free blocks of an arena are some of its blocks.
LEMMA FreeOfFacts ==
  ASSUME StateOK, PagesOK, FreeOK, NEW a \in PageSet, Small(a)
  PROVE  /\ FreeOf(a) = {b \in Bytes : block2arena(b) = a /\ IsFree(b)}
         /\ FreeOf(a) \subseteq Blocks(a, head[a].desc)
         /\ IsFiniteSet(FreeOf(a)) /\ Cardinality(FreeOf(a)) \in 0 .. BlocksPerArena(head[a].desc)
         /\ Cardinality(FreeOf(a)) = BlocksPerArena(head[a].desc) => FreeOf(a) = Blocks(a, head[a].desc)
<1>1. PICK d \in Descs : d = head[a].desc
  BY HeadFacts
<1>2. ASSUME NEW b, b \in FreeOf(a)
      PROVE  b \in Bytes /\ block2arena(b) = a /\ IsFree(b) /\ b \in Blocks(a, d)
  <2>1. b \in ToSet(free[d]) /\ block2arena(b) = a
    BY <1>1, <1>2 DEF FreeOf
  <2>2. IsFree(b)
    BY <2>1 DEF IsFree
  <2> QED BY <1>1, <2>1, <2>2, FreeFacts
<1>3. ASSUME NEW b \in Bytes, block2arena(b) = a, IsFree(b)
      PROVE  b \in FreeOf(a)
  <2>1. b \in ToSet(free[head[a].desc])
    BY <1>3, FreeFacts
  <2> QED BY <1>3, <2>1 DEF FreeOf
<1>4. FreeOf(a) = {b \in Bytes : block2arena(b) = a /\ IsFree(b)}
  BY <1>2, <1>3
<1>5. FreeOf(a) \in SUBSET Blocks(a, d)
  BY <1>2
<1>6. IsFiniteSet(Blocks(a, d)) /\ Cardinality(Blocks(a, d)) = BlocksPerArena(d)
  BY BlocksFinite
<1>7. /\ IsFiniteSet(FreeOf(a)) /\ Cardinality(FreeOf(a)) <= BlocksPerArena(d)
      /\ BlocksPerArena(d) = Cardinality(FreeOf(a)) => Blocks(a, d) = FreeOf(a)
  BY <1>5, <1>6, FS_Subset
<1>8. Cardinality(FreeOf(a)) \in Nat /\ BlocksPerArena(d) \in Nat
  BY <1>7, FS_CardinalityType, BlocksPerArenaFacts
<1> QED BY <1>1, <1>4, <1>5, <1>7, <1>8

-----------------------------------------------------------------------------
(* What the invariant says about the properties.                           *)

LEMMA InvApart == ASSUME IInv PROVE BlocksApart
<1>0. StateOK /\ PagesOK /\ LiveOK /\ FreeOK
  BY DEF IInv
<1>1. ASSUME NEW m \in live
      PROVE  /\ m[1] \in Bytes /\ m[2] \in Sizes /\ IsUnit(m[1]) /\ ~IsFree(m[1])
             /\ Extent(m) \subseteq Span(m[1])
             /\ \A n \in live : m[1] = n[1] => m = n
  <2>1. PICK b \in Bytes, s \in Sizes : m = <<b, s>>
    BY <1>0 DEF StateOK
  <2>2. IsUnit(b) /\ Fits(b, s) /\ ~IsFree(b) /\ \A n \in live : b = n[1] => m = n
    BY <1>0, <2>1 DEF LiveOK
  <2> QED BY <1>0, <2>1, <2>2, FitsFacts
<1>2. ASSUME NEW m \in live, NEW n \in live \ {m} PROVE Disjoint(m, n)
  <2>1. m[1] # n[1]
    BY <1>1
  <2>2. Span(m[1]) \cap Span(n[1]) = {}
    BY <1>0, <1>1, <2>1, SpansApart
  <2> QED BY <1>1, <2>2 DEF Disjoint
<1>3. ASSUME NEW m \in live, NEW d \in Descs, NEW b \in ToSet(free[d])
      PROVE  Disjoint(m, <<b, BlockSize(d)>>)
  <2>1. IsFree(b) /\ IsUnit(b) /\ head[block2arena(b)].desc = d
    BY <1>0 DEF IsFree, FreeOK
  <2>2. b # m[1]
    BY <1>1, <2>1
  <2>3. Extent(<<b, BlockSize(d)>>) = Span(b)
    <3>1. ~Large(block2arena(b))
      BY <1>0, <2>1, FreeFacts
    <3> QED BY <2>1, <3>1 DEF Extent, Span
  <2>4. Span(m[1]) \cap Span(b) = {}
    BY <1>0, <1>1, <2>1, <2>2, SpansApart
  <2> QED BY <1>1, <2>3, <2>4 DEF Disjoint
<1>4. ASSUME NEW m \in live, NEW x \in Extent(m)
      PROVE  Page(x) \in used /\ (x % PageSize < Header => head[Page(x)] = NoHead)
  BY <1>0, <1>1, <1>4, SpanFacts
<1> QED BY <1>2, <1>3, <1>4 DEF BlocksApart

\* One thread at most has the lock.
LEMMA Alone ==
  ASSUME LockOK, NEW t \in Threads, pc[t] \in Inside
  PROVE  /\ owner["pool"] = t
         /\ \A u \in Threads : u # t => pc[u] \notin Inside
BY DEF LockOK

LEMMA InvCounts == ASSUME IInv PROVE CountsExact
<1>0. StateOK /\ PagesOK /\ LockOK /\ FreeOK /\ CountOK /\ \A t \in Threads : CallOK(t)
  BY DEF IInv
<1> SUFFICES ASSUME NEW a \in used, Small(a), ~Cut(a)
             PROVE  LET at(p) == {t \in Threads : pc[t] = p /\ block2arena(call[t].b) = a}
                        unlinked == {x \in Threads \X (0 .. PageSize - 1) :
                                       /\ pc[x[1]] \in {"release", "mfree"} /\ call[x[1]].a = a
                                       /\ x[2] < call[x[1]].i}
                    IN head[a].cnt + Cardinality(at("recount"))
                         = Cardinality(FreeOf(a)) + Cardinality(at("count")) + Cardinality(unlinked)
  BY DEF CountsExact, Small, Cut
<1> DEFINE rec == {t \in Threads : pc[t] = "recount" /\ block2arena(call[t].b) = a}
           cou == {t \in Threads : pc[t] = "count" /\ block2arena(call[t].b) = a}
           unl == {x \in Threads \X (0 .. PageSize - 1) :
                     /\ pc[x[1]] \in {"release", "mfree"} /\ call[x[1]].a = a
                     /\ x[2] < call[x[1]].i}
           o == owner["pool"]
<1>1. a \in PageSet /\ o \in Threads \cup {NoThread}
  BY <1>0 DEF StateOK
<1>2. head[a].cnt = Cardinality(FreeOf(a)) + Ahead(a) /\ head[a].cnt \in Nat
  BY <1>0, <1>1, HeadFacts DEF CountOK
<1>3. Cardinality(FreeOf(a)) \in Nat
  BY <1>0, <1>1, FreeOfFacts, HeadFacts, BlocksPerArenaFacts
<1>4. \A t \in Threads : pc[t] \in Inside => t = o
  BY <1>0 DEF LockOK
<1>5. /\ IsFiniteSet({}) /\ Cardinality({}) = 0
      /\ IsFiniteSet({o}) /\ Cardinality({o}) = 1
  BY FS_EmptySet, FS_Singleton
<1>6. rec = IF o \in Threads /\ pc[o] = "recount" /\ block2arena(call[o].b) = a THEN {o} ELSE {}
  BY <1>4 DEF Inside
<1>7. cou = IF o \in Threads /\ pc[o] = "count" /\ block2arena(call[o].b) = a THEN {o} ELSE {}
  BY <1>4 DEF Inside
<1>8. CASE o \in Threads /\ pc[o] \in {"release", "mfree"} /\ call[o].a = a
  <2>1. PICK i \in Nat : i = call[o].i /\ i <= PageSize
    BY <1>0, <1>8, Constants DEF StateOK, Calls
  <2>2. unl = {o} \X (0 .. i - 1)
    <3>1. ASSUME NEW x \in unl PROVE x \in {o} \X (0 .. i - 1)
      BY <1>4, <2>1, Constants DEF Inside
    <3>2. ASSUME NEW x \in {o} \X (0 .. i - 1) PROVE x \in unl
      <4>1. PICK k \in 0 .. i - 1 : x = <<o, k>>
        OBVIOUS
      <4>2. k \in 0 .. PageSize - 1 /\ k < i
        BY <2>1, Constants
      <4> QED BY <1>8, <2>1, <4>1, <4>2
    <3> QED BY <3>1, <3>2
  <2>3. IsFiniteSet(0 .. i - 1) /\ Cardinality(0 .. i - 1) = i
    BY FS_Interval
  <2>4. Cardinality(unl) = 1 * i
    <3>1. ASSUME NEW A, NEW B, IsFiniteSet(A), IsFiniteSet(B), Cardinality(A) = 1, Cardinality(B) = i
          PROVE  Cardinality(A \X B) = 1 * i
      BY <3>1, FS_Product
    <3> HIDE DEF unl
    <3> QED BY <1>5, <2>2, <2>3, <3>1
  <2>5. Ahead(a) = i /\ o # NoThread
    BY <1>8, <2>1, Constants DEF Ahead, AheadBy
  <2>6. Cardinality(rec) = 0 /\ Cardinality(cou) = 0
    BY <1>5, <1>6, <1>7, <1>8
  <2>7. Cardinality(unl) = i
    BY <2>1, <2>4
  <2> HIDE DEF rec, cou, unl
  <2>8. head[a].cnt + Cardinality(rec) = Cardinality(FreeOf(a)) + Cardinality(cou) + Cardinality(unl)
    BY <1>2, <1>3, <2>5, <2>6, <2>7
  <2> QED BY <2>8 DEF rec, cou, unl
<1>9. CASE ~(o \in Threads /\ pc[o] \in {"release", "mfree"} /\ call[o].a = a)
  <2>1. unl = {}
    BY <1>4, <1>9 DEF Inside
  <2>2. Cardinality(unl) = 0
    BY <1>5, <2>1
  <2>3. CASE o = NoThread
    <3>1. Ahead(a) = 0
      BY <2>3 DEF Ahead, AheadBy
    <3>2. Cardinality(rec) = 0 /\ Cardinality(cou) = 0
      BY <1>5, <1>6, <1>7, <2>3, Constants
    <3> HIDE DEF rec, cou, unl
    <3>3. head[a].cnt + Cardinality(rec) = Cardinality(FreeOf(a)) + Cardinality(cou) + Cardinality(unl)
      BY <1>2, <1>3, <2>2, <3>1, <3>2
    <3> QED BY <3>3 DEF rec, cou, unl
  <2>4. CASE o \in Threads
    <3>0. o # NoThread
      BY <2>4, Constants
    <3>1. Ahead(a) = Cardinality(cou) - Cardinality(rec)
      <4>1. CASE pc[o] = "count" /\ block2arena(call[o].b) = a
        <5>1. Ahead(a) = 1 /\ Cardinality(cou) = 1 /\ Cardinality(rec) = 0
          BY <1>5, <1>6, <1>7, <2>4, <3>0, <4>1 DEF Ahead, AheadBy
        <5> QED BY <5>1
      <4>2. CASE pc[o] = "recount" /\ block2arena(call[o].b) = a
        <5>1. Ahead(a) = -1 /\ Cardinality(cou) = 0 /\ Cardinality(rec) = 1
          BY <1>5, <1>6, <1>7, <2>4, <3>0, <4>2 DEF Ahead, AheadBy
        <5> QED BY <5>1
      <4>3. CASE ~(pc[o] \in {"count", "recount"} /\ block2arena(call[o].b) = a)
        <5>1. Ahead(a) = 0 /\ Cardinality(cou) = 0 /\ Cardinality(rec) = 0
          BY <1>5, <1>6, <1>7, <1>9, <2>4, <3>0, <4>3 DEF Ahead, AheadBy
        <5> QED BY <5>1
      <4> QED BY <4>1, <4>2, <4>3
    <3>2. Cardinality(rec) \in Nat /\ Cardinality(cou) \in Nat
      <4>1. rec \in {{o}, {}} /\ cou \in {{o}, {}}
        BY <1>6, <1>7
      <4> HIDE DEF rec, cou
      <4> QED BY <1>5, <4>1
    <3> HIDE DEF rec, cou, unl
    <3>3. head[a].cnt + Cardinality(rec) = Cardinality(FreeOf(a)) + Cardinality(cou) + Cardinality(unl)
      BY <1>2, <1>3, <2>2, <3>1, <3>2
    <3> QED BY <3>3 DEF rec, cou, unl
  <2> QED BY <1>1, <2>3, <2>4
<1> QED BY <1>8, <1>9

LEMMA InvExact == ASSUME IInv, PanicOK PROVE ArenasExact
<1>0. StateOK /\ PagesOK /\ FreeOK /\ \A t \in Threads : CallOK(t)
  BY DEF IInv
<1>1. FreeListsValid
  <2> SUFFICES ASSUME NEW d \in Descs, NEW b \in ToSet(free[d])
               PROVE  block2arena(b) \in used /\ head[block2arena(b)].desc = d
    BY <1>0 DEF FreeListsValid, FreeOK
  <2>1. IsUnit(b) /\ head[block2arena(b)].desc = d
    BY <1>0 DEF FreeOK
  <2> QED BY <1>0, <2>1, UnitFacts
<1>2. CountsExact
  BY InvCounts
<1>3. TypeOK
  <2>1. ASSUME NEW d \in Descs, NEW b \in ToSet(free[d])
        PROVE  b \in UNION {Blocks(a, d) : a \in PageSet}
    <3>1. IsFree(b) /\ head[block2arena(b)].desc = d
      BY <1>0 DEF IsFree, FreeOK
    <3>2. block2arena(b) \in PageSet /\ b \in Blocks(block2arena(b), d)
      BY <1>0, <3>1, FreeFacts
    <3> QED BY <3>2
  <2>2. ASSUME NEW a \in PageSet
        PROVE  head[a].desc \in Descs \cup {NoDesc} /\ head[a].cnt \in Nat /\ head[a].large \in BOOLEAN
    BY <1>0, HeadFacts
  <2>3. ASSUME NEW t \in Threads
        PROVE  call[t].b \in -1 .. Pages * PageSize - 1 /\ call[t].a \in PageSet \cup {-1}
    <3>1. call[t] \in Calls
      BY <1>0 DEF StateOK
    <3>2. \A b \in Bytes \cup {-1} : b \in -1 .. Pages * PageSize - 1
      <4>1. Pages * PageSize \in Nat \ {0}
        BY Constants
      <4> QED BY <4>1 DEF Bytes
    <3> QED BY <3>1, <3>2 DEF Calls
  <2>4. live \subseteq (0 .. Pages * PageSize - 1) \X Sizes
    BY <1>0 DEF StateOK, Bytes
  <2>5. owner \in [{"pool"} -> Threads \cup {NoThread}] /\ used \subseteq PageSet
    BY <1>0 DEF StateOK
  <2>6. panic \in {"none", "malloc_page", "split", "null", "free"}
    BY <1>0 DEF StateOK
  <2> QED BY <2>1, <2>2, <2>3, <2>4, <2>5, <2>6 DEF TypeOK
<1> QED BY <1>1, <1>2, <1>3 DEF ArenasExact, PanicOK

LEMMA InvNoLeak == ASSUME IInv PROVE NothingLeaked
<1>0. /\ StateOK /\ PagesOK /\ LockOK /\ FreeOK /\ LiveOK /\ AllHeld /\ CountOK /\ FullOK
      /\ \A t \in Threads : CallOK(t)
  BY DEF IInv
<1> SUFFICES ASSUME owner["pool"] = NoThread, \A t \in Threads : pc[t] = "lock" => call[t].size > 0,
                    NEW a \in used
             PROVE  \E m \in live : \E x \in Extent(m) : Page(x) = a
  BY DEF NothingLeaked
<1>1. \A t \in Threads : pc[t] \notin Inside
  BY <1>0, Constants DEF LockOK
<1>2. \A t \in Threads : ~GivesBack(t) /\ ~Takes(t)
  <2>1. \A t \in Threads : call[t].size \in Nat
    BY <1>0, CallType
  <2> QED BY <1>1, <2>1 DEF GivesBack, Takes, Inside
<1>3. \A b : ~InHand(b)
  BY <1>2 DEF InHand, Holds
<1>4. a \in PageSet /\ a \in Nat /\ a < Pages
  BY <1>0, HeadFacts DEF StateOK
<1>5. ASSUME NEW c \in PageSet, Large(c), NEW p \in Own(c)
      PROVE  \E m \in live : \E x \in Extent(m) : Page(x) = p
  <2>1. IsLive(c * PageSize + Header)
    BY <1>0, <1>3, <1>5 DEF AllHeld
  <2>2. PICK m \in live : m[1] = c * PageSize + Header
    BY <2>1 DEF IsLive
  <2>3. PICK s \in Sizes : m = <<c * PageSize + Header, s>>
    BY <1>0, <2>2 DEF StateOK
  <2>4. s \in Nat \ {0} /\ Header \in 0 .. PageSize - 1 /\ PageSize \in Nat \ {0} /\ c \in Nat /\ Pages \in Nat
    BY Constants DEF PageSet
  <2>5. block2arena(c * PageSize + Header) = c
    BY <2>4, ByteOfPage DEF Page, block2arena
  <2>6. PICK n \in Nat \ {0} : n = head[c].cnt /\ n = PageCnt(s) /\ c + n <= Pages
    <3>1. Fits(c * PageSize + Header, s)
      BY <1>0, <2>2, <2>3 DEF LiveOK
    <3> QED BY <1>0, <1>5, <2>4, <2>5, <3>1, LargeFacts DEF Fits, PagesOK
  <2>7. (c + (n - 1)) * PageSize < c * PageSize + Header + s
    BY <2>4, <2>6, LargeFacts
  <2>8. p \in c .. c + (n - 1) /\ p \in PageSet /\ p \in Nat
    BY <1>5, <2>4, <2>6 DEF Own, PageSet
  <2>9. Extent(m) = c * PageSize + Header .. c * PageSize + Header + s - 1
    BY <2>3 DEF Extent
  <2>10. CASE p = c
    <3>1. c * PageSize + Header \in Extent(m)
      BY <2>4, <2>9
    <3>2. Page(c * PageSize + Header) = p
      BY <2>5, <2>10 DEF Page, block2arena
    <3> QED BY <3>1, <3>2
  <2>11. CASE p # c
    <3>1. (c + 1) * PageSize <= p * PageSize /\ (c + 1) * PageSize = c * PageSize + PageSize
      BY <2>4, <2>8, <2>11, TimesMonotone
    <3>2. p * PageSize <= (c + (n - 1)) * PageSize
      BY <2>4, <2>6, <2>8, TimesMonotone
    <3>3. p * PageSize \in Nat /\ c * PageSize \in Nat /\ (c + (n - 1)) * PageSize \in Nat
      BY <2>4, <2>6, <2>8
    <3>4. p * PageSize \in Extent(m)
      BY <2>4, <2>7, <2>9, <3>1, <3>2, <3>3
    <3>5. Page(p * PageSize) = p
      <4>1. 0 \in 0 .. PageSize - 1
        BY <2>4
      <4>2. Page(p * PageSize + 0) = p
        BY <2>8, <4>1, ByteOfPage
      <4>3. p * PageSize + 0 = p * PageSize
        BY <3>3
      <4> QED BY <4>2, <4>3
    <3> QED BY <3>4, <3>5
  <2> QED BY <2>10, <2>11
<1>6. CASE Small(a)
  <2>1. ~Cut(a) /\ ~Going(a)
    BY <1>1 DEF Cut, Going, Inside
  <2>2. head[a].cnt = Cardinality(FreeOf(a)) /\ head[a].cnt # BlocksPerArena(head[a].desc)
    <3>1. Ahead(a) = 0
      BY DEF Ahead, AheadBy
    <3>2. Cardinality(FreeOf(a)) \in Nat
      BY <1>0, <1>4, <1>6, FreeOfFacts, HeadFacts, BlocksPerArenaFacts
    <3>3. head[a].cnt = Cardinality(FreeOf(a)) + 0
      BY <1>0, <1>4, <1>6, <2>1, <3>1 DEF CountOK
    <3>4. head[a].cnt # BlocksPerArena(head[a].desc)
      BY <1>0, <1>1, <1>4, <1>6, <2>1 DEF FullOK, Filled, Inside
    <3> QED BY <3>2, <3>3, <3>4
  <2>3. PICK b \in Blocks(a, head[a].desc) : b \notin FreeOf(a)
    <3>1. FreeOf(a) # Blocks(a, head[a].desc)
      BY <1>0, <1>4, <1>6, <2>2, HeadFacts, BlocksFinite
    <3> QED BY <1>0, <1>4, <1>6, <3>1, FreeOfFacts
  <2>4. b \in Bytes /\ block2arena(b) = a
    BY <1>0, <1>4, <1>6, HeadFacts, BlocksFinite
  <2>5. ~IsFree(b)
    BY <1>0, <1>4, <1>6, <2>3, <2>4, FreeOfFacts
  <2>6. IsLive(b)
    BY <1>0, <1>3, <1>4, <1>6, <2>1, <2>3, <2>5 DEF AllHeld
  <2>7. PICK m \in live : m[1] = b
    BY <2>6 DEF IsLive
  <2>8. PICK s \in Sizes : m = <<b, s>>
    BY <1>0, <2>7 DEF StateOK
  <2>9. b \in Extent(m)
    <3>1. b \in Nat /\ s \in Nat \ {0}
      BY <2>4, Constants DEF Bytes
    <3> QED BY <2>8, <3>1 DEF Extent
  <2> QED BY <2>4, <2>9 DEF Page, block2arena
<1>7. CASE Large(a)
  <2>1. a \in Own(a)
    <3>1. head[a].cnt \in Nat /\ head[a].cnt >= 1
      BY <1>0, <1>4, <1>7, HeadFacts DEF PagesOK
    <3> QED BY <1>4, <1>7, <3>1 DEF Own
  <2> QED BY <1>4, <1>5, <1>7, <2>1
<1>8. CASE ~Small(a) /\ ~Large(a)
  <2>1. head[a] = NoHead
    BY <1>0, <1>4, <1>8, HeadFacts
  <2>2. PICK c \in PageSet : Large(c) /\ a \in c + 1 .. c + head[c].cnt - 1
    BY <1>0, <2>1 DEF PagesOK
  <2>3. a \in Own(c)
    <3>1. c \in Nat /\ head[c].cnt \in Nat
      BY <1>0, HeadFacts
    <3> QED BY <1>4, <2>2, <3>1 DEF Own
  <2> QED BY <1>5, <2>2, <2>3
<1> QED BY <1>6, <1>7, <1>8

-----------------------------------------------------------------------------
(* What a step leaves alone.                                               *)

\* The places where a call has nothing in progress that the counts must allow for.
Quiet == {"idle", "lock", "free", "large", "arena", "unlock"}

\* Nothing changes hands.
LEMMA HandsSame ==
  ASSUME PagesOK, FreeOK, LiveOK, HandOK, UNCHANGED <<heapVars, live>>,
         \A u \in Threads :
           /\ GivesBack(u)' <=> GivesBack(u)
           /\ Takes(u)' <=> Takes(u)
           /\ GivesBack(u) \/ Takes(u) => call'[u].b = call[u].b /\ call'[u].size = call[u].size
  PROVE  /\ PagesOK' /\ FreeOK' /\ LiveOK' /\ HandOK'
         /\ \A b : InHand(b)' <=> InHand(b)
<1>0. head' = head /\ free' = free /\ used' = used /\ live' = live
  BY DEF heapVars
<1>1. /\ \A b : InHand(b)' <=> InHand(b)
      /\ \A u \in Threads : \A b : Holds(u, b)' <=> Holds(u, b)
  BY DEF InHand, Holds
<1>2. \A b : /\ IsUnit(b)' <=> IsUnit(b)
             /\ IsFree(b)' <=> IsFree(b)
             /\ \A size : Fits(b, size)' <=> Fits(b, size)
  BY <1>0 DEF IsUnit, IsFree, Fits, Small, Large
<1>3. PagesOK'
  BY <1>0 DEF PagesOK, Small, Large
<1>4. FreeOK'
  BY <1>0, <1>2 DEF FreeOK
<1>5. LiveOK'
  BY <1>0, <1>1, <1>2 DEF LiveOK
<1>6. HandOK'
  BY <1>1, <1>2 DEF HandOK, Holds
<1> QED BY <1>1, <1>3, <1>4, <1>5, <1>6

\* And nothing is counted.
LEMMA CountsSame ==
  ASSUME AllHeld, CountOK, FullOK, LockOK, LockOK', UNCHANGED <<heapVars, live>>,
         owner["pool"] \in Threads \cup {NoThread}, owner'["pool"] \in Threads \cup {NoThread},
         \A b : InHand(b)' <=> InHand(b),
         \A u \in Threads :
           \/ pc'[u] = pc[u] /\ call'[u] = call[u]
           \/ pc[u] \in Quiet /\ pc'[u] \in Quiet
  PROVE  AllHeld' /\ CountOK' /\ FullOK'
<1>0. head' = head /\ free' = free /\ used' = used /\ live' = live
  BY DEF heapVars
<1>1. \A a : (Cut(a)' <=> Cut(a)) /\ (Going(a)' <=> Going(a))
  BY DEF Cut, Going, Quiet
<1>2. \A b : (IsFree(b)' <=> IsFree(b)) /\ (IsLive(b)' <=> IsLive(b))
  BY <1>0 DEF IsFree, IsLive
<1>3. AllHeld'
  BY <1>0, <1>1, <1>2 DEF AllHeld, Small, Large
<1>4. ASSUME NEW a PROVE Ahead(a)' = Ahead(a)
  <2>1. NoThread \notin Threads
    BY Constants
  <2>2. CASE owner'["pool"] = owner["pool"]
    <3>1. CASE owner["pool"] = NoThread
      BY <2>2, <3>1 DEF Ahead, AheadBy
    <3>2. CASE owner["pool"] \in Threads
      BY <2>1, <2>2, <3>2 DEF Ahead, AheadBy, Quiet
    <3> QED BY <3>1, <3>2
  <2>3. CASE owner'["pool"] # owner["pool"]
    <3>1. owner["pool"] \in Threads => pc[owner["pool"]] \in Quiet
      BY <2>3 DEF LockOK
    <3>2. owner'["pool"] \in Threads => pc'[owner'["pool"]] \in Quiet
      BY <2>3 DEF LockOK
    <3>3. Ahead(a) = 0
      BY <2>1, <3>1 DEF Ahead, AheadBy, Quiet
    <3>4. Ahead(a)' = 0
      BY <2>1, <3>2 DEF Ahead, AheadBy, Quiet
    <3> QED BY <3>3, <3>4
  <2> QED BY <2>2, <2>3
<1>5. CountOK'
  BY <1>0, <1>1, <1>4 DEF CountOK, FreeOf, Small
<1>6. FullOK'
  BY <1>0 DEF FullOK, Filled, Small, Quiet
<1> QED BY <1>3, <1>5, <1>6

\* A step inside the allocator does not concern the calls outside.
LEMMA OthersOK ==
  ASSUME LockOK, \A u \in Threads : CallOK(u), NEW t \in Threads, pc[t] \in Inside,
         pc \in [Threads -> Inside \cup {"idle", "lock"}],
         \A u \in Threads : u # t => pc'[u] = pc[u] /\ call'[u] = call[u]
  PROVE  \A u \in Threads : u # t => CallOK(u)'
<1> SUFFICES ASSUME NEW u \in Threads, u # t PROVE CallOK(u)'
  OBVIOUS
<1>1. pc[u] \notin Inside
  BY Alone
<1>2. pc[u] \in {"idle", "lock"} /\ pc'[u] = pc[u] /\ call'[u] = call[u]
  BY <1>1
<1>3. /\ pc[u] = "idle" => call[u] = NoCall
      /\ pc[u] = "lock" => (call[u].size > 0 => Fresh(u))
      /\ call[u].i = 0
  BY <1>2 DEF CallOK
<1> QED BY <1>2, <1>3 DEF CallOK, Fresh

-----------------------------------------------------------------------------
(* The steps.                                                              *)

LEMMA MallocStep ==
  ASSUME IInv, NEW t \in Threads, NEW size \in Sizes, Malloc(t, size)
  PROVE  IInv'
<1>0. /\ StateOK /\ LockOK /\ PagesOK /\ FreeOK /\ LiveOK /\ HandOK /\ AllHeld /\ CountOK /\ FullOK
      /\ \A u \in Threads : CallOK(u)
  BY DEF IInv
<1>1. /\ pc[t] = "idle" /\ call[t] = NoCall /\ size \in Nat \ {0}
      /\ pc' = [pc EXCEPT ![t] = "lock"] /\ call' = [call EXCEPT ![t].size = size]
      /\ owner' = owner /\ level' = level /\ free' = free /\ head' = head /\ used' = used
      /\ live' = live /\ panic' = panic
  BY <1>0, CallType DEF Malloc, At, Goto, CallOK, lockVars, heapVars
<1>2. /\ pc'[t] = "lock" /\ call'[t] = [size |-> size, b |-> -1, a |-> -1, i |-> 0]
      /\ \A u \in Threads : u # t => pc'[u] = pc[u] /\ call'[u] = call[u]
  <2>1. DOMAIN call = Threads /\ DOMAIN pc = Threads
    BY <1>0 DEF StateOK
  <2>2. call'[t] = [NoCall EXCEPT !.size = size]
    BY <1>1, <2>1
  <2> QED BY <1>1, <2>1, <2>2 DEF NoCall
<1>3. StateOK'
  <2>1. call'[t] \in Calls /\ call' \in [Threads -> Calls]
    <3>1. call'[t] \in Calls
      BY <1>2, Constants DEF Calls
    <3>2. call \in [Threads -> Calls] /\ DOMAIN call' = Threads
      BY <1>0, <1>1 DEF StateOK
    <3>3. \A u \in Threads : call'[u] \in Calls
      BY <1>2, <3>1, <3>2
    <3>4. call' = [u \in Threads |-> call'[u]]
      BY <1>1, <3>2
    <3> QED BY <3>1, <3>3, <3>4
  <2>2. pc' \in [Threads -> Inside \cup {"idle", "lock"}]
    BY <1>0, <1>1 DEF StateOK
  <2> QED BY <1>0, <1>1, <2>1, <2>2 DEF StateOK
<1>4. LockOK'
  BY <1>0, <1>1, <1>2 DEF LockOK, Inside
<1>5. \A u \in Threads :
        /\ GivesBack(u)' <=> GivesBack(u)
        /\ Takes(u)' <=> Takes(u)
        /\ GivesBack(u) \/ Takes(u) => call'[u].b = call[u].b /\ call'[u].size = call[u].size
  BY <1>1, <1>2 DEF GivesBack, Takes
<1>6. PagesOK' /\ FreeOK' /\ LiveOK' /\ HandOK' /\ \A b : InHand(b)' <=> InHand(b)
  BY <1>0, <1>1, <1>5, HandsSame DEF heapVars
<1>7. AllHeld' /\ CountOK' /\ FullOK'
  <2>1. owner["pool"] \in Threads \cup {NoThread} /\ owner'["pool"] \in Threads \cup {NoThread}
    BY <1>0, <1>1 DEF StateOK
  <2>2. \A u \in Threads :
          \/ pc'[u] = pc[u] /\ call'[u] = call[u]
          \/ pc[u] \in Quiet /\ pc'[u] \in Quiet
    BY <1>1, <1>2 DEF Quiet
  <2> QED BY <1>0, <1>1, <1>4, <1>6, <2>1, <2>2, CountsSame DEF heapVars
<1>8. ASSUME NEW u \in Threads PROVE CallOK(u)'
  <2>1. CASE u = t
    BY <1>2, <2>1 DEF CallOK, Fresh
  <2>2. CASE u # t
    <3>1. pc'[u] = pc[u] /\ call'[u] = call[u] /\ head' = head /\ free' = free
      BY <1>1, <1>2, <2>2
    <3>2. \A b : /\ IsFree(b)' <=> IsFree(b)
                 /\ IsLive(b)' <=> IsLive(b)
                 /\ IsUnit(b)' <=> IsUnit(b)
      BY <1>1 DEF IsFree, IsLive, IsUnit, Small, Large
    <3>3. CallOK(u)
      BY <1>0
    <3> QED BY <1>5, <1>6, <3>1, <3>2, <3>3 DEF CallOK, Asked, Fresh, Small
  <2> QED BY <2>1, <2>2
<1> QED BY <1>3, <1>4, <1>6, <1>7, <1>8 DEF IInv

LEMMA FreeStep ==
  ASSUME IInv, NEW t \in Threads, NEW m \in live, Free(t, m)
  PROVE  IInv'
<1>0. /\ StateOK /\ LockOK /\ PagesOK /\ FreeOK /\ LiveOK /\ HandOK /\ AllHeld /\ CountOK /\ FullOK
      /\ \A u \in Threads : CallOK(u)
  BY DEF IInv
<1>1. /\ pc[t] = "idle" /\ call[t] = NoCall
      /\ pc' = [pc EXCEPT ![t] = "lock"] /\ call' = [call EXCEPT ![t].b = m[1]]
      /\ owner' = owner /\ level' = level /\ free' = free /\ head' = head /\ used' = used
      /\ live' = live \ {m} /\ panic' = panic
  BY <1>0 DEF Free, At, Goto, CallOK, lockVars, heapVars
<1>2. /\ pc'[t] = "lock" /\ call'[t] = [size |-> 0, b |-> m[1], a |-> -1, i |-> 0]
      /\ \A u \in Threads : u # t => pc'[u] = pc[u] /\ call'[u] = call[u]
  BY <1>0, <1>1 DEF StateOK, Calls, NoCall
<1>3. /\ m[1] \in Bytes /\ IsUnit(m[1]) /\ ~IsFree(m[1]) /\ ~InHand(m[1])
      /\ \A n \in live : m[1] = n[1] => m = n
  BY <1>0 DEF StateOK, LiveOK
<1>4. StateOK'
  <2>1. call'[t] \in Calls
    BY <1>2, <1>3, Constants DEF Calls
  <2>2. call' \in [Threads -> Calls]
    <3>1. call \in [Threads -> Calls] /\ DOMAIN call' = Threads
      BY <1>0, <1>1 DEF StateOK
    <3>2. \A u \in Threads : call'[u] \in Calls
      BY <1>2, <2>1, <3>1
    <3>3. call' = [u \in Threads |-> call'[u]]
      BY <1>1, <3>1
    <3> QED BY <3>2, <3>3
  <2>3. pc' \in [Threads -> Inside \cup {"idle", "lock"}]
    BY <1>0, <1>1 DEF StateOK
  <2> QED BY <1>0, <1>1, <2>2, <2>3 DEF StateOK
<1>5. LockOK'
  BY <1>0, <1>1, <1>2 DEF LockOK, Inside
<1>6. \A b : /\ IsFree(b)' <=> IsFree(b)
             /\ IsUnit(b)' <=> IsUnit(b)
             /\ \A size : Fits(b, size)' <=> Fits(b, size)
  BY <1>1 DEF IsUnit, IsFree, Fits, Small, Large
<1>7. /\ GivesBack(t)' /\ ~Takes(t)' /\ ~GivesBack(t) /\ ~Takes(t)
      /\ \A u \in Threads : u # t => /\ GivesBack(u)' <=> GivesBack(u)
                                     /\ Takes(u)' <=> Takes(u)
  BY <1>1, <1>2 DEF GivesBack, Takes
<1>8. \A b : /\ InHand(b)' <=> InHand(b) \/ b = m[1]
             /\ IsLive(b)' <=> IsLive(b) /\ b # m[1]
  <2>1. ASSUME NEW b PROVE InHand(b)' <=> InHand(b) \/ b = m[1]
    BY <1>2, <1>7 DEF InHand, Holds
  <2>2. ASSUME NEW b PROVE IsLive(b)' <=> IsLive(b) /\ b # m[1]
    BY <1>1, <1>3 DEF IsLive
  <2> QED BY <2>1, <2>2
<1>9. PagesOK' /\ FreeOK'
  BY <1>0, <1>1, <1>6 DEF PagesOK, FreeOK, Small, Large
<1>10. LiveOK'
  BY <1>0, <1>1, <1>3, <1>6, <1>8 DEF LiveOK
<1>11. HandOK'
  <2> SUFFICES ASSUME NEW u \in Threads, NEW b \in Bytes \cup {-1}, Holds(u, b)'
               PROVE  /\ IsUnit(b) /\ ~IsFree(b)
                      /\ \A size \in Sizes : (Takes(u) /\ call[u].size = size)' => Fits(b, size)
                      /\ \A v \in Threads : Holds(v, b)' => v = u
    BY <1>6 DEF HandOK
  <2>1. \A v \in Threads : v # t => (Holds(v, b)' <=> Holds(v, b))
    BY <1>2, <1>7 DEF Holds
  <2>2. \A v \in Threads : Holds(v, m[1]) => FALSE
    BY <1>3 DEF InHand
  <2>3. Holds(t, b)' <=> b = m[1]
    BY <1>2, <1>7 DEF Holds
  <2>4. CASE u = t
    BY <1>3, <1>7, <2>1, <2>2, <2>3, <2>4
  <2>5. CASE u # t
    <3>1. Holds(u, b) /\ b # m[1]
      BY <2>1, <2>2, <2>5
    <3>2. /\ IsUnit(b) /\ ~IsFree(b)
          /\ \A size \in Sizes : Takes(u) /\ call[u].size = size => Fits(b, size)
          /\ \A v \in Threads : Holds(v, b) => v = u
      BY <1>0, <3>1 DEF HandOK
    <3> QED BY <1>2, <1>7, <2>1, <2>3, <2>5, <3>1, <3>2
  <2> QED BY <2>4, <2>5
<1>12. \A a : (Cut(a)' <=> Cut(a)) /\ (Going(a)' <=> Going(a))
  BY <1>1, <1>2 DEF Cut, Going
<1>13. AllHeld'
  BY <1>0, <1>1, <1>6, <1>8, <1>12 DEF AllHeld, Small, Large
<1>14. CountOK'
  <2>1. ASSUME NEW a PROVE Ahead(a)' = Ahead(a)
    <3>1. owner["pool"] \in Threads \cup {NoThread} /\ owner["pool"] # t
      BY <1>0, <1>1 DEF StateOK, LockOK, Inside
    <3> QED BY <1>1, <1>2, <3>1, Constants DEF Ahead, AheadBy
  <2> QED BY <1>0, <1>1, <1>12, <2>1 DEF CountOK, FreeOf, Small
<1>15. FullOK'
  BY <1>0, <1>1, <1>2, <1>12 DEF FullOK, Filled, Small
<1>16. ASSUME NEW u \in Threads PROVE CallOK(u)'
  <2>1. CASE u = t
    BY <1>2, <2>1 DEF CallOK, Fresh
  <2>2. CASE u # t
    <3>1. pc'[u] = pc[u] /\ call'[u] = call[u] /\ head' = head /\ free' = free
      BY <1>1, <1>2, <2>2
    <3>2. CallOK(u)
      BY <1>0
    <3>3. IsLive(m[1])
      BY DEF IsLive
    <3>4. \A b : ~IsLive(b) /\ ~InHand(b) => ~IsLive(b)' /\ ~InHand(b)'
      BY <1>8, <3>3
    <3> QED BY <1>6, <1>7, <2>2, <3>1, <3>2, <3>4 DEF CallOK, Asked, Fresh, Small
  <2> QED BY <2>1, <2>2
<1> QED BY <1>4, <1>5, <1>9, <1>10, <1>11, <1>13, <1>14, <1>15, <1>16 DEF IInv

\* A step inside the allocator is told by what its thread does.
LEMMA InsideStep ==
  ASSUME StateOK, LockOK, \A u \in Threads : CallOK(u), NEW t \in Threads,
         pc[t] \in Inside, pc'[t] \in Inside, owner' = owner,
         \A u \in Threads : u # t => pc'[u] = pc[u] /\ call'[u] = call[u]
  PROVE  /\ LockOK'
         /\ \A u \in Threads : u # t => CallOK(u)'
         /\ \A u \in Threads : u # t => /\ Takes(u)' <=> Takes(u)
                                        /\ \A b : Holds(u, b)' <=> Holds(u, b)
         /\ \A a : /\ Cut(a) <=> pc[t] = "split" /\ call[t].a = a
                   /\ Cut(a)' <=> pc'[t] = "split" /\ call'[t].a = a
                   /\ Going(a) <=> pc[t] \in {"release", "mfree"} /\ call[t].a = a
                   /\ Going(a)' <=> pc'[t] \in {"release", "mfree"} /\ call'[t].a = a
                   /\ Ahead(a) = AheadBy(t, a) /\ Ahead(a)' = AheadBy(t, a)'
                   /\ (\E u \in Threads : Filled(u, a)) => Filled(t, a)
<1>1. owner["pool"] = t /\ \A u \in Threads : u # t => pc[u] \notin Inside
  BY Alone
<1>2. owner'["pool"] = t /\ \A u \in Threads : u # t => pc'[u] \notin Inside
  BY <1>1
<1>3. LockOK'
  BY <1>2 DEF LockOK
<1>4. \A u \in Threads : u # t => CallOK(u)'
  <2>1. pc \in [Threads -> Inside \cup {"idle", "lock"}]
    BY DEF StateOK
  <2> QED BY <2>1, OthersOK
<1>5. \A u \in Threads : u # t => /\ Takes(u)' <=> Takes(u)
                                  /\ \A b : Holds(u, b)' <=> Holds(u, b)
  BY DEF Takes, GivesBack, Holds
<1>6. ASSUME NEW a
      PROVE  /\ Cut(a) <=> pc[t] = "split" /\ call[t].a = a
             /\ Cut(a)' <=> pc'[t] = "split" /\ call'[t].a = a
  BY <1>1, <1>2 DEF Cut, Inside
<1>7. ASSUME NEW a
      PROVE  /\ Going(a) <=> pc[t] \in {"release", "mfree"} /\ call[t].a = a
             /\ Going(a)' <=> pc'[t] \in {"release", "mfree"} /\ call'[t].a = a
  BY <1>1, <1>2 DEF Going, Inside
<1>8. \A a : Ahead(a) = AheadBy(t, a) /\ Ahead(a)' = AheadBy(t, a)'
  <2>1. t # NoThread
    BY Constants
  <2> QED BY <1>1, <1>2, <2>1 DEF Ahead, AheadBy
<1>9. \A a : (\E u \in Threads : Filled(u, a)) => Filled(t, a)
  BY <1>1 DEF Filled, Inside
<1> QED BY <1>3, <1>4, <1>5, <1>6, <1>7, <1>8, <1>9

LEMMA LockStep ==
  ASSUME IInv, NEW t \in Threads, LockPool(t)
  PROVE  IInv'
<1>0. /\ StateOK /\ LockOK /\ PagesOK /\ FreeOK /\ LiveOK /\ HandOK /\ AllHeld /\ CountOK /\ FullOK
      /\ \A u \in Threads : CallOK(u)
  BY DEF IInv
<1>1. /\ pc[t] = "lock" /\ owner["pool"] = NoThread
      /\ owner' = [owner EXCEPT !["pool"] = t] /\ level' = [level EXCEPT !["pool"] = 1]
      /\ pc' = [pc EXCEPT ![t] = FirstStep(t)]
      /\ call' = call /\ free' = free /\ head' = head /\ used' = used /\ live' = live /\ panic' = panic
  BY DEF LockPool, Lock, At, Goto, heapVars
<1>2. /\ pc'[t] = FirstStep(t) /\ owner'["pool"] = t
      /\ \A u \in Threads : u # t => pc'[u] = pc[u]
      /\ \A u \in Threads : pc[u] \notin Inside
  <2>1. DOMAIN pc = Threads /\ DOMAIN owner = {"pool"}
    BY <1>0 DEF StateOK
  <2>2. \A u \in Threads : pc[u] \notin Inside
    BY <1>0, <1>1, Constants DEF LockOK
  <2> QED BY <1>1, <2>1, <2>2
<1>3. /\ FirstStep(t) \in {"free", "large", "arena", "pop"}
      /\ FirstStep(t) = "free" <=> call[t].size = 0
      /\ FirstStep(t) = "large" => call[t].size > MaxBlock
      /\ FirstStep(t) \in {"arena", "pop"} => call[t].size \in 1 .. MaxBlock
      /\ FirstStep(t) = "arena" => free[DescFor(call[t].size)] = <<>>
      /\ FirstStep(t) = "pop" => free[DescFor(call[t].size)] # <<>>
  <2>1. call[t].size \in Nat /\ MaxBlock \in Nat
    BY <1>0, CallType, Constants
  <2> QED BY <2>1 DEF FirstStep
<1>4. call[t].size \in Nat /\ call[t].i = 0 /\ (call[t].size > 0 => call[t].b = -1)
  BY <1>0, <1>1, CallType DEF CallOK, Fresh
<1>5. StateOK'
  <2>1. pc' \in [Threads -> Inside \cup {"idle", "lock"}]
    BY <1>0, <1>1, <1>3 DEF StateOK, Inside
  <2>2. owner' \in [{"pool"} -> Threads \cup {NoThread}]
    BY <1>0, <1>1 DEF StateOK
  <2>3. level' = [l \in {"pool"} |-> IF owner'["pool"] = NoThread THEN 0 ELSE 1]
    BY <1>0, <1>1, <1>2, Constants DEF StateOK
  <2> QED BY <1>0, <1>1, <2>1, <2>2, <2>3 DEF StateOK
<1>6. LockOK'
  BY <1>2, <1>3 DEF LockOK, Inside
<1>7. \A u \in Threads :
        /\ GivesBack(u)' <=> GivesBack(u)
        /\ Takes(u)' <=> Takes(u)
        /\ GivesBack(u) \/ Takes(u) => call'[u].b = call[u].b /\ call'[u].size = call[u].size
  BY <1>1, <1>2, <1>3, <1>4 DEF GivesBack, Takes
<1>8. PagesOK' /\ FreeOK' /\ LiveOK' /\ HandOK' /\ \A b : InHand(b)' <=> InHand(b)
  BY <1>0, <1>1, <1>7, HandsSame DEF heapVars
<1>9. AllHeld'
  <2>1. \A a : (Cut(a)' <=> Cut(a)) /\ (Going(a)' <=> Going(a))
    BY <1>1, <1>2, <1>3 DEF Cut, Going
  <2>2. \A b : (IsFree(b)' <=> IsFree(b)) /\ (IsLive(b)' <=> IsLive(b))
    BY <1>1 DEF IsFree, IsLive
  <2> QED BY <1>0, <1>1, <1>8, <2>1, <2>2 DEF AllHeld, Small, Large
<1>10. CountOK'
  <2>1. \A a : (Cut(a)' <=> Cut(a))
    BY <1>1, <1>2, <1>3 DEF Cut
  <2>2. \A a : Ahead(a) = 0 /\ Ahead(a)' = 0
    BY <1>1, <1>2, <1>3 DEF Ahead, AheadBy
  <2> QED BY <1>0, <1>1, <2>1, <2>2 DEF CountOK, FreeOf, Small
<1>11. FullOK'
  <2>1. \A a : ~ \E u \in Threads : Filled(u, a)
    BY <1>2 DEF Filled, Inside
  <2> QED BY <1>0, <1>1, <2>1 DEF FullOK, Small
<1>12. ASSUME NEW u \in Threads PROVE CallOK(u)'
  <2>1. CASE u = t
    <3>1. call'[t] = call[t] /\ free' = free
      BY <1>1
    <3> QED BY <1>2, <1>3, <1>4, <2>1, <3>1 DEF CallOK, Fresh, Asked
  <2>2. CASE u # t
    <3>1. pc'[u] = pc[u] /\ call'[u] = call[u] /\ pc[u] \notin Inside /\ CallOK(u)
      BY <1>0, <1>1, <1>2, <2>2
    <3> QED BY <3>1 DEF CallOK, Fresh, Inside
  <2> QED BY <2>1, <2>2
<1> QED BY <1>5, <1>6, <1>8, <1>9, <1>10, <1>11, <1>12 DEF IInv

LEMMA UnlockStep ==
  ASSUME IInv, NEW t \in Threads, UnlockPool(t)
  PROVE  IInv'
<1>0. /\ StateOK /\ LockOK /\ PagesOK /\ FreeOK /\ LiveOK /\ HandOK /\ AllHeld /\ CountOK /\ FullOK
      /\ \A u \in Threads : CallOK(u)
  BY DEF IInv
<1>1. /\ pc[t] = "unlock" /\ owner["pool"] = t
      /\ owner' = [owner EXCEPT !["pool"] = NoThread] /\ level' = [level EXCEPT !["pool"] = 0]
      /\ pc' = [pc EXCEPT ![t] = "idle"] /\ call' = [call EXCEPT ![t] = NoCall]
      /\ free' = free /\ head' = head /\ used' = used /\ panic' = panic
      /\ live' = IF call[t].size > 0 /\ call[t].b # -1 THEN live \cup {<<call[t].b, call[t].size>>} ELSE live
  BY DEF UnlockPool, Unlock, At, Goto, heapVars
<1>2. /\ pc'[t] = "idle" /\ call'[t] = NoCall /\ owner'["pool"] = NoThread
      /\ \A u \in Threads : u # t => pc'[u] = pc[u] /\ call'[u] = call[u] /\ pc[u] \notin Inside
  <2>1. DOMAIN pc = Threads /\ DOMAIN owner = {"pool"} /\ DOMAIN call = Threads
    BY <1>0 DEF StateOK
  <2>2. \A u \in Threads : u # t => pc[u] \notin Inside
    BY <1>0, <1>1 DEF LockOK
  <2> QED BY <1>1, <2>1, <2>2
<1>3. PICK b \in Bytes \cup {-1}, s \in Sizes \cup {0} : b = call[t].b /\ s = call[t].size
  BY <1>0, CallType
<1>4. /\ Takes(t) <=> s > 0 /\ b # -1
      /\ ~GivesBack(t) /\ ~GivesBack(t)' /\ ~Takes(t)'
      /\ s \in Nat /\ (s > 0 <=> s \in Sizes)
  <2>1. s \in Nat /\ 0 \notin Sizes /\ Sizes \subseteq Nat \ {0}
    BY <1>0, <1>3, CallType
  <2> QED BY <1>1, <1>2, <1>3, <2>1 DEF Takes, GivesBack
<1>5. LockOK'
  <2>1. t # NoThread /\ \A u \in Threads : u # NoThread
    BY Constants
  <2> QED BY <1>2, <2>1 DEF LockOK, Inside
<1>6. /\ pc' \in [Threads -> Inside \cup {"idle", "lock"}]
      /\ owner' \in [{"pool"} -> Threads \cup {NoThread}]
      /\ level' = [l \in {"pool"} |-> IF owner'["pool"] = NoThread THEN 0 ELSE 1]
      /\ call' \in [Threads -> Calls]
  <2>1. pc' \in [Threads -> Inside \cup {"idle", "lock"}] /\ owner' \in [{"pool"} -> Threads \cup {NoThread}]
    BY <1>0, <1>1 DEF StateOK
  <2>2. level' = [l \in {"pool"} |-> IF owner'["pool"] = NoThread THEN 0 ELSE 1]
    BY <1>0, <1>1, <1>2, Constants DEF StateOK
  <2>3. NoCall \in Calls
    BY Constants DEF NoCall, Calls
  <2>4. call' \in [Threads -> Calls]
    BY <1>0, <1>1, <2>3 DEF StateOK
  <2> QED BY <2>1, <2>2, <2>4
<1>7. \A u \in Threads : u # t => /\ GivesBack(u)' <=> GivesBack(u)
                                  /\ Takes(u)' <=> Takes(u)
                                  /\ \A c : Holds(u, c)' <=> Holds(u, c)
  BY <1>2 DEF Takes, GivesBack, Holds
<1>8. /\ \A a : ~Cut(a) /\ ~Cut(a)' /\ ~Going(a) /\ ~Going(a)' /\ Ahead(a) = 0 /\ Ahead(a)' = 0
      /\ \A a : ~ \E u \in Threads : Filled(u, a)
  <2>1. \A u \in Threads : pc[u] \notin {"split", "release", "mfree", "count", "recount", "pop"}
    BY <1>1, <1>2 DEF Inside
  <2>2. \A u \in Threads : pc'[u] \notin {"split", "release", "mfree", "count", "recount", "pop"}
    BY <1>1, <1>2 DEF Inside
  <2>3. \A a : ~Cut(a) /\ ~Cut(a)' /\ ~Going(a) /\ ~Going(a)'
    BY <2>1, <2>2 DEF Cut, Going
  <2>4. \A a : Ahead(a) = 0 /\ Ahead(a)' = 0
    BY <1>1, <1>2 DEF Ahead, AheadBy
  <2>5. \A a : ~ \E u \in Threads : Filled(u, a)
    BY <2>1 DEF Filled
  <2> QED BY <2>3, <2>4, <2>5
<1>9. PagesOK' /\ FreeOK' /\ CountOK' /\ FullOK'
  <2>1. PagesOK' /\ FreeOK'
    BY <1>0, <1>1 DEF PagesOK, FreeOK, IsUnit, Small, Large
  <2>2. CountOK'
    BY <1>0, <1>1, <1>8 DEF CountOK, FreeOf, Small
  <2>3. FullOK'
    BY <1>0, <1>1, <1>8 DEF FullOK, Small
  <2> QED BY <2>1, <2>2, <2>3
<1>10. ASSUME NEW u \in Threads PROVE CallOK(u)'
  <2>1. CASE u = t
    BY <1>2, <2>1 DEF CallOK, NoCall
  <2>2. CASE u # t
    <3>1. pc'[u] = pc[u] /\ call'[u] = call[u] /\ pc[u] \notin Inside /\ CallOK(u)
      BY <1>0, <1>2, <2>2
    <3> QED BY <3>1 DEF CallOK, Fresh, Inside
  <2> QED BY <2>1, <2>2
<1>11. \A c : /\ IsUnit(c)' <=> IsUnit(c)
              /\ IsFree(c)' <=> IsFree(c)
              /\ \A size : Fits(c, size)' <=> Fits(c, size)
  BY <1>1 DEF IsUnit, IsFree, Fits, Small, Large
<1>12. CASE ~Takes(t)
  <2>1. live' = live
    BY <1>1, <1>3, <1>4, <1>12
  <2>2. \A u \in Threads :
          /\ GivesBack(u)' <=> GivesBack(u)
          /\ Takes(u)' <=> Takes(u)
          /\ GivesBack(u) \/ Takes(u) => call'[u].b = call[u].b /\ call'[u].size = call[u].size
    BY <1>2, <1>4, <1>7, <1>12
  <2>3. LiveOK' /\ HandOK' /\ \A c : InHand(c)' <=> InHand(c)
    BY <1>0, <1>1, <2>1, <2>2, HandsSame DEF heapVars
  <2>4. AllHeld'
    <3>1. \A c : IsLive(c)' <=> IsLive(c)
      BY <2>1 DEF IsLive
    <3> QED BY <1>0, <1>1, <1>8, <1>11, <2>3, <3>1 DEF AllHeld, Small, Large
  <2>5. StateOK'
    BY <1>0, <1>1, <1>6, <2>1 DEF StateOK
  <2> QED BY <1>5, <1>9, <1>10, <2>3, <2>4, <2>5 DEF IInv
<1>13. CASE Takes(t)
  <2>1. /\ live' = live \cup {<<b, s>>} /\ b \in Bytes /\ s \in Sizes
    BY <1>1, <1>3, <1>4, <1>13
  <2>2. Holds(t, b)
    BY <1>3, <1>13 DEF Holds
  <2>3. IsUnit(b) /\ ~IsFree(b) /\ Fits(b, s) /\ \A u \in Threads : Holds(u, b) => u = t
    BY <1>0, <1>3, <1>13, <2>1, <2>2 DEF HandOK
  <2>4. ~IsLive(b)
    BY <1>0, <2>2 DEF IsLive, LiveOK, InHand
  <2>5. \A c : /\ IsLive(c)' <=> IsLive(c) \/ c = b
               /\ InHand(c)' <=> InHand(c) /\ c # b
    <3>1. ASSUME NEW c PROVE IsLive(c)' <=> IsLive(c) \/ c = b
      <4>1. <<b, s>>[1] = b /\ <<b, s>> \in live' /\ \A m \in live' : m \in live \/ m = <<b, s>>
        BY <2>1
      <4>2. \A m \in live : m \in live'
        BY <2>1
      <4> QED BY <4>1, <4>2 DEF IsLive
    <3>2. ASSUME NEW c PROVE InHand(c)' <=> InHand(c) /\ c # b
      <4>1. ~Holds(t, c)'
        BY <1>4 DEF Holds
      <4>2. Holds(t, c) <=> c = b
        BY <1>3, <1>13 DEF Holds
      <4> QED BY <1>7, <2>3, <4>1, <4>2 DEF InHand
    <3> QED BY <3>1, <3>2
  <2>6. LiveOK'
    <3> SUFFICES ASSUME NEW m \in live'
                 PROVE  /\ IsUnit(m[1]) /\ Fits(m[1], m[2]) /\ ~IsFree(m[1]) /\ ~InHand(m[1])'
                        /\ \A n \in live' : m[1] = n[1] => m = n
      BY <1>11 DEF LiveOK
    <3>1. \A n \in live : n[1] # b
      BY <2>4 DEF IsLive
    <3>2. CASE m = <<b, s>>
      BY <2>1, <2>3, <2>5, <3>1, <3>2
    <3>3. CASE m # <<b, s>>
      <4>1. m \in live /\ m[1] # b
        BY <2>1, <3>1, <3>3
      <4>2. /\ IsUnit(m[1]) /\ Fits(m[1], m[2]) /\ ~IsFree(m[1]) /\ ~InHand(m[1])
            /\ \A n \in live : m[1] = n[1] => m = n
        BY <1>0, <4>1 DEF LiveOK
      <4> QED BY <2>1, <2>5, <4>1, <4>2
    <3> QED BY <3>2, <3>3
  <2>7. HandOK'
    <3> SUFFICES ASSUME NEW u \in Threads, NEW c \in Bytes \cup {-1}, Holds(u, c)'
                 PROVE  /\ IsUnit(c) /\ ~IsFree(c)
                        /\ \A size \in Sizes : (Takes(u) /\ call[u].size = size)' => Fits(c, size)
                        /\ \A v \in Threads : Holds(v, c)' => v = u
      BY <1>11 DEF HandOK
    <3>1. u # t /\ ~Holds(t, c)'
      BY <1>4 DEF Holds
    <3>2. Holds(u, c)
      BY <1>7, <3>1
    <3>3. /\ IsUnit(c) /\ ~IsFree(c)
          /\ \A size \in Sizes : Takes(u) /\ call[u].size = size => Fits(c, size)
          /\ \A v \in Threads : Holds(v, c) => v = u
      BY <1>0, <3>2 DEF HandOK
    <3> QED BY <1>2, <1>7, <3>1, <3>3
  <2>8. AllHeld'
    <3>1. \A c : IsLive(c) \/ InHand(c) => IsLive(c)' \/ InHand(c)'
      BY <2>5
    <3> QED BY <1>0, <1>1, <1>8, <1>11, <3>1 DEF AllHeld, Small, Large
  <2>9. StateOK'
    BY <1>0, <1>1, <1>6, <2>1 DEF StateOK
  <2> QED BY <1>5, <1>9, <1>10, <2>6, <2>7, <2>8, <2>9 DEF IInv
<1> QED BY <1>12, <1>13

\* The kernel stops, or nothing happens.
LEMMA StopStep ==
  ASSUME IInv, UNCHANGED <<lockVars, heapVars, live, pc, call>>, panic' \in {panic, "malloc_page"}
  PROVE  IInv'
<1>1. /\ owner' = owner /\ level' = level /\ free' = free /\ head' = head /\ used' = used
      /\ live' = live /\ pc' = pc /\ call' = call
  BY DEF lockVars, heapVars
<1>2. StateOK' /\ LockOK' /\ PagesOK'
  BY <1>1 DEF IInv, StateOK, LockOK, PagesOK, Small, Large
<1>3. FreeOK' /\ LiveOK'
  BY <1>1 DEF IInv, FreeOK, LiveOK, IsUnit, Fits, IsFree, InHand, Holds, GivesBack, Takes, Small, Large
<1>4. HandOK'
  BY <1>1 DEF IInv, HandOK, IsUnit, Fits, IsFree, Holds, GivesBack, Takes, Small, Large
<1>5. AllHeld'
  BY <1>1 DEF IInv, AllHeld, Cut, Going, IsFree, IsLive, InHand, Holds, GivesBack, Takes, Small, Large
<1>6. CountOK' /\ FullOK'
  BY <1>1 DEF IInv, CountOK, FullOK, Small, Cut, FreeOf, Ahead, AheadBy, Filled
<1>7. \A t \in Threads : CallOK(t)'
  BY <1>1 DEF IInv, CallOK, Asked, Fresh, Takes, GivesBack, Holds, InHand, IsFree, IsLive, IsUnit, Small, Large
<1> QED BY <1>2, <1>3, <1>4, <1>5, <1>6, <1>7 DEF IInv

\* A call inside the allocator that only goes on.
LEMMA GoOnStep ==
  ASSUME IInv, NEW t \in Threads, pc[t] \in Quiet \cap Inside, call[t].i = 0,
         ~GivesBack(t), ~Takes(t), call[t].b = -1,
         pc' = [pc EXCEPT ![t] = "unlock"], UNCHANGED <<lockVars, heapVars, live, call, panic>>
  PROVE  IInv'
<1>0. /\ StateOK /\ LockOK /\ PagesOK /\ FreeOK /\ LiveOK /\ HandOK /\ AllHeld /\ CountOK /\ FullOK
      /\ \A u \in Threads : CallOK(u)
  BY DEF IInv
<1>1. /\ owner' = owner /\ level' = level /\ free' = free /\ head' = head /\ used' = used /\ live' = live
      /\ call' = call /\ panic' = panic /\ pc'[t] = "unlock"
      /\ \A u \in Threads : u # t => pc'[u] = pc[u] /\ call'[u] = call[u]
  BY <1>0 DEF StateOK, lockVars, heapVars
<1>2. StateOK'
  <2>1. pc' \in [Threads -> Inside \cup {"idle", "lock"}]
    BY <1>0 DEF StateOK, Inside
  <2> QED BY <1>0, <1>1, <2>1 DEF StateOK
<1>3. LockOK' /\ \A u \in Threads : u # t => CallOK(u)'
  <2>1. pc[t] \in Inside /\ pc'[t] \in Inside
    BY <1>1 DEF Inside
  <2> QED BY <1>0, <1>1, <2>1, InsideStep
<1>4. \A u \in Threads :
        /\ GivesBack(u)' <=> GivesBack(u)
        /\ Takes(u)' <=> Takes(u)
        /\ GivesBack(u) \/ Takes(u) => call'[u].b = call[u].b /\ call'[u].size = call[u].size
  BY <1>1 DEF GivesBack, Takes
<1>5. PagesOK' /\ FreeOK' /\ LiveOK' /\ HandOK' /\ \A b : InHand(b)' <=> InHand(b)
  BY <1>0, <1>4, HandsSame
<1>6. AllHeld' /\ CountOK' /\ FullOK'
  <2>1. owner["pool"] \in Threads \cup {NoThread} /\ owner'["pool"] \in Threads \cup {NoThread}
    BY <1>0, <1>1 DEF StateOK
  <2>2. \A u \in Threads :
          \/ pc'[u] = pc[u] /\ call'[u] = call[u]
          \/ pc[u] \in Quiet /\ pc'[u] \in Quiet
    BY <1>1 DEF Quiet
  <2> QED BY <1>0, <1>3, <1>5, <2>1, <2>2, CountsSame
<1>7. CallOK(t)'
  BY <1>1 DEF CallOK, Fresh
<1> QED BY <1>2, <1>3, <1>5, <1>6, <1>7 DEF IInv

\* One page changes its struct arena, while nobody but a call that is about to
\* take it, or gives it back, has anything in it.
LEMMA HeadChange ==
  ASSUME StateOK, PagesOK, FreeOK, LiveOK, HandOK, AllHeld, CountOK, FullOK,
         NEW t \in Threads, NEW a \in PageSet,
         \A p \in PageSet : p # a => head'[p] = head[p],
         free' = free, live' = live,
         \A b : block2arena(b) = a => ~IsFree(b) /\ ~IsLive(b),
         \A u \in Threads : u # t =>
           /\ Takes(u)' <=> Takes(u)
           /\ call'[u] = call[u]
           /\ \A b : Holds(u, b)' <=> Holds(u, b)
           /\ \A b : Holds(u, b) => block2arena(b) # a,
         \A b : Holds(t, b) => block2arena(b) = a,
         \A b \in Bytes \cup {-1} : Holds(t, b)' =>
           /\ block2arena(b) = a /\ IsUnit(b)'
           /\ \A size \in Sizes : (Takes(t) /\ call[t].size = size)' => Fits(b, size)',
         \A p \in PageSet : p # a =>
           /\ Ahead(p)' = Ahead(p)
           /\ Cut(p)' <=> Cut(p)
           /\ Going(p)' <=> Going(p)
           /\ ~ \E u \in Threads : Filled(u, p),
         Small(a)' => Cut(a)' /\ Filled(t, a)',
         Large(a)' => InHand(a * PageSize + Header)',
         call' \in [Threads -> Calls]
  PROVE  FreeOK' /\ LiveOK' /\ HandOK' /\ AllHeld' /\ CountOK' /\ FullOK'
<1>1. ASSUME NEW b, block2arena(b) # a
      PROVE  /\ IsUnit(b)' <=> IsUnit(b)
             /\ \A size : IsUnit(b) => (Fits(b, size)' <=> Fits(b, size))
             /\ block2arena(b) \in PageSet => head'[block2arena(b)] = head[block2arena(b)]
  <2>1. block2arena(b) \in PageSet => head'[block2arena(b)] = head[block2arena(b)]
    BY <1>1
  <2>2. IsUnit(b)' <=> IsUnit(b)
    BY <2>1 DEF IsUnit, Small, Large
  <2>3. IsUnit(b) => block2arena(b) \in PageSet
    BY DEF IsUnit
  <2>4. \A size : IsUnit(b) => (Fits(b, size)' <=> Fits(b, size))
    BY <2>1, <2>3 DEF Fits, Large
  <2> QED BY <2>1, <2>2, <2>4
<1>2. \A b : /\ IsFree(b)' <=> IsFree(b)
             /\ IsLive(b)' <=> IsLive(b)
  BY DEF IsFree, IsLive
<1>3. FreeOK'
  <2> SUFFICES ASSUME NEW d \in Descs, NEW b \in ToSet(free[d])
               PROVE  IsUnit(b)' /\ head'[block2arena(b)].desc = d
    BY DEF FreeOK
  <2>1. IsFree(b) /\ IsUnit(b) /\ head[block2arena(b)].desc = d
    BY DEF IsFree, FreeOK
  <2>2. block2arena(b) # a /\ block2arena(b) \in PageSet
    BY <2>1 DEF IsUnit
  <2> QED BY <1>1, <2>1, <2>2
<1>4. ASSUME NEW b, block2arena(b) # a PROVE InHand(b)' <=> InHand(b)
  <2>1. ~Holds(t, b)
    BY <1>4
  <2>2. ~Holds(t, b)'
    <3>1. ASSUME Holds(t, b)' PROVE b \in Bytes \cup {-1}
      <4>1. b = call'[t].b /\ call'[t] \in Calls
        BY <3>1 DEF Holds
      <4> QED BY <4>1 DEF Calls
    <3> QED BY <1>4, <3>1
  <2> QED BY <2>1, <2>2 DEF InHand
<1>5. LiveOK'
  <2> SUFFICES ASSUME NEW m \in live
               PROVE  IsUnit(m[1])' /\ Fits(m[1], m[2])' /\ ~IsFree(m[1])' /\ ~InHand(m[1])'
    BY DEF LiveOK
  <2>1. IsUnit(m[1]) /\ Fits(m[1], m[2]) /\ ~IsFree(m[1]) /\ ~InHand(m[1]) /\ IsLive(m[1])
    BY DEF LiveOK, IsLive
  <2>2. block2arena(m[1]) # a
    BY <2>1
  <2> QED BY <1>1, <1>2, <1>4, <2>1, <2>2
<1>6. HandOK'
  <2> SUFFICES ASSUME NEW u \in Threads, NEW b \in Bytes \cup {-1}, Holds(u, b)'
               PROVE  /\ IsUnit(b)' /\ ~IsFree(b)'
                      /\ \A size \in Sizes : (Takes(u) /\ call[u].size = size)' => Fits(b, size)'
                      /\ \A v \in Threads : Holds(v, b)' => v = u
    BY DEF HandOK
  <2>1. CASE u = t
    BY <1>2, <2>1
  <2>2. CASE u # t
    <3>1. Holds(u, b) /\ block2arena(b) # a
      BY <2>2
    <3>2. /\ IsUnit(b) /\ ~IsFree(b)
          /\ \A size \in Sizes : Takes(u) /\ call[u].size = size => Fits(b, size)
          /\ \A v \in Threads : Holds(v, b) => v = u
      BY <3>1 DEF HandOK
    <3>3. ~Holds(t, b)'
      BY <3>1
    <3> QED BY <1>1, <1>2, <2>2, <3>1, <3>2, <3>3
  <2> QED BY <2>1, <2>2
<1>7. AllHeld'
  <2> SUFFICES ASSUME NEW p \in PageSet
               PROVE  /\ (Small(p) /\ ~Cut(p) /\ ~Going(p))' =>
                           \A b \in Blocks(p, head'[p].desc) : IsFree(b)' \/ IsLive(b)' \/ InHand(b)'
                      /\ Large(p)' => IsLive(p * PageSize + Header)' \/ InHand(p * PageSize + Header)'
    BY DEF AllHeld
  <2>1. CASE p = a
    BY <2>1
  <2>2. CASE p # a
    <3>1. head'[p] = head[p]
      BY <2>2
    <3>2. ASSUME (Small(p) /\ ~Cut(p) /\ ~Going(p))', NEW b \in Blocks(p, head'[p].desc)
          PROVE  IsFree(b)' \/ IsLive(b)' \/ InHand(b)'
      <4>1. Small(p) /\ ~Cut(p) /\ ~Going(p)
        BY <2>2, <3>1, <3>2 DEF Small
      <4>2. IsFree(b) \/ IsLive(b) \/ InHand(b)
        BY <3>1, <4>1 DEF AllHeld
      <4>3. block2arena(b) = p
        BY <3>1, <4>1, HeadFacts, BlocksFinite
      <4> QED BY <1>2, <1>4, <2>2, <4>2, <4>3
    <3>3. ASSUME Large(p)'
          PROVE  IsLive(p * PageSize + Header)' \/ InHand(p * PageSize + Header)'
      <4>1. Large(p)
        BY <3>1, <3>3 DEF Large
      <4>2. IsLive(p * PageSize + Header) \/ InHand(p * PageSize + Header)
        BY <4>1 DEF AllHeld
      <4>3. block2arena(p * PageSize + Header) = p
        BY Constants, ByteOfPage DEF Page, block2arena
      <4> QED BY <1>2, <1>4, <2>2, <4>2, <4>3
    <3> QED BY <3>2, <3>3
  <2> QED BY <2>1, <2>2
<1>8. CountOK'
  <2> SUFFICES ASSUME NEW p \in PageSet, Small(p)', ~Cut(p)'
               PROVE  head'[p].cnt = Cardinality(FreeOf(p)') + Ahead(p)'
    BY DEF CountOK
  <2>1. p # a /\ head'[p] = head[p]
    OBVIOUS
  <2>2. Small(p) /\ ~Cut(p)
    BY <2>1 DEF Small
  <2>3. FreeOf(p)' = FreeOf(p)
    BY <2>1 DEF FreeOf
  <2> QED BY <2>1, <2>2, <2>3 DEF CountOK
<1>9. FullOK'
  <2> SUFFICES ASSUME NEW p \in PageSet, Small(p)', head'[p].cnt = BlocksPerArena(head'[p].desc)
               PROVE  \E u \in Threads : Filled(u, p)'
    BY DEF FullOK
  <2>1. CASE p = a
    BY <2>1
  <2>2. CASE p # a
    <3>1. head'[p] = head[p] /\ Small(p)
      BY <2>2 DEF Small
    <3> QED BY <2>2, <3>1 DEF FullOK
  <2> QED BY <2>1, <2>2
<1> QED BY <1>3, <1>5, <1>6, <1>7, <1>8, <1>9

\* The thread of a step goes on, with these local variables.
LEMMA CallSet ==
  ASSUME StateOK, NEW t \in Threads, NEW p \in Inside \cup {"idle", "lock"}, NEW c \in Calls,
         pc' = [pc EXCEPT ![t] = p], call' = [call EXCEPT ![t] = c]
  PROVE  /\ pc' \in [Threads -> Inside \cup {"idle", "lock"}] /\ call' \in [Threads -> Calls]
         /\ pc'[t] = p /\ call'[t] = c
         /\ \A u \in Threads : u # t => pc'[u] = pc[u] /\ call'[u] = call[u]
BY DEF StateOK

\* Pages that are not in use have no struct arena.
LEMMA FreePages ==
  ASSUME StateOK, PagesOK, NEW cnt \in Nat \ {0}, FreeRuns(cnt) # {}
  PROVE  LET a == Min(FreeRuns(cnt)) IN
           /\ a \in PageSet /\ a \in Nat /\ a + cnt <= Pages
           /\ \A p \in a .. a + cnt - 1 : p \in PageSet /\ p \notin used /\ head[p] = NoHead
<1>1. PICK a \in PageSet : a = Min(FreeRuns(cnt)) /\ a \in FreeRuns(cnt)
  BY FreeRunFacts
<1>2. a \in Nat /\ a + cnt <= Pages /\ \A p \in a .. a + cnt - 1 : p \notin used
  BY <1>1 DEF FreeRuns, PageSet
<1>3. \A p \in a .. a + cnt - 1 : p \in PageSet
  BY <1>2, Constants DEF PageSet
<1>4. \A p \in PageSet : p \notin used => head[p] = NoHead
  BY DEF PagesOK
<1> QED BY <1>1, <1>2, <1>3, <1>4

\* In a page without a struct arena nobody has anything.
LEMMA NothingThere ==
  ASSUME StateOK, PagesOK, FreeOK, LiveOK, HandOK, NEW a \in PageSet, head[a] = NoHead
  PROVE  /\ \A b : block2arena(b) = a => ~IsUnit(b) /\ ~IsFree(b) /\ ~IsLive(b)
         /\ \A u \in Threads : \A b : Holds(u, b) => block2arena(b) # a
<1>1. \A b : block2arena(b) = a => ~IsUnit(b)
  BY UnitFacts
<1>2. \A b : IsFree(b) => IsUnit(b)
  BY DEF IsFree, FreeOK
<1>3. \A b : IsLive(b) => IsUnit(b)
  BY DEF IsLive, LiveOK
<1>4. \A u \in Threads : \A b : Holds(u, b) => IsUnit(b)
  <2> SUFFICES ASSUME NEW u \in Threads, NEW b, Holds(u, b) PROVE IsUnit(b)
    OBVIOUS
  <2>1. b \in Bytes \cup {-1}
    BY CallType DEF Holds
  <2> QED BY <2>1 DEF HandOK
<1> QED BY <1>1, <1>2, <1>3, <1>4

LEMMA LargeStep ==
  ASSUME IInv, NEW t \in Threads, MallocLarge(t)
  PROVE  IInv'
<1>0. /\ StateOK /\ LockOK /\ PagesOK /\ FreeOK /\ LiveOK /\ HandOK /\ AllHeld /\ CountOK /\ FullOK
      /\ \A u \in Threads : CallOK(u)
  BY DEF IInv
<1>1. PICK size \in Sizes : size = call[t].size /\ size \in Nat \ {0} /\ size > MaxBlock
  <2>1. call[t].size > MaxBlock
    BY <1>0 DEF MallocLarge, At, CallOK
  <2>2. call[t].size \in Sizes \cup {0} /\ call[t].size \in Nat /\ MaxBlock \in Nat
    BY <1>0, CallType, Constants
  <2> QED BY <2>1, <2>2
<1>2. PICK cnt \in Nat \ {0} : cnt = PageCnt(size)
  <2>1. 0 \in PageSet
    BY Constants DEF PageSet
  <2> QED BY <1>1, <2>1, LargeFacts
<1>3. /\ pc[t] = "large" /\ call[t].b = -1 /\ call[t].i = 0
      /\ owner' = owner /\ level' = level /\ live' = live
  BY <1>0 DEF MallocLarge, At, CallOK, Fresh, lockVars
<1>6. CASE MayStop(cnt) /\ Stops
  <2>1. UNCHANGED <<lockVars, heapVars, live, pc, call>> /\ panic' = "malloc_page"
    BY <1>6 DEF Stops, MallocLarge
  <2> QED BY <2>1, StopStep
<1>4. CASE FreeRuns(cnt) = {} /\ Goto(t, "unlock") /\ UNCHANGED <<heapVars, call, panic>>
  <2>1. UNCHANGED <<lockVars, heapVars, live, call, panic>> /\ pc' = [pc EXCEPT ![t] = "unlock"]
    BY <1>4 DEF MallocLarge, Goto
  <2>2. ~GivesBack(t) /\ ~Takes(t) /\ pc[t] \in Quiet \cap Inside
    BY <1>3 DEF GivesBack, Takes, Quiet, Inside
  <2> QED BY <1>3, <2>1, <2>2, GoOnStep
<1>5. CASE FreeRuns(cnt) # {} /\ LargeArena(t, Min(FreeRuns(cnt)), cnt) /\ UNCHANGED panic
  <2>0. pc' = [pc EXCEPT ![t] = "unlock"] /\ panic' = panic
    BY <1>5 DEF LargeArena, Goto
  <2>1. PICK a \in PageSet :
          /\ a = Min(FreeRuns(cnt)) /\ a \in Nat /\ a + cnt <= Pages
          /\ \A p \in a .. a + cnt - 1 : p \in PageSet /\ p \notin used /\ head[p] = NoHead
    BY <1>0, <1>5, FreePages
  <2> DEFINE new == [desc |-> NoDesc, cnt |-> cnt, large |-> TRUE]
             nb == a * PageSize + Header
  <2>2. /\ used' = used \cup (a .. a + cnt - 1) /\ free' = free
        /\ head' = [p \in PageSet |-> IF p = a THEN new
                                      ELSE IF p \in a .. a + cnt - 1 THEN NoHead ELSE head[p]]
        /\ call' = [call EXCEPT ![t].b = nb]
    BY <1>5, <2>1 DEF LargeArena
  <2>3. nb \in Bytes /\ nb # -1 /\ block2arena(nb) = a
    BY Constants, ByteOfPage DEF Page, block2arena, Bytes
  <2> HIDE DEF nb
  <2>4. head'[a] = new /\ head[a] = NoHead /\ \A p \in PageSet : p # a => head'[p] = head[p]
    <3>1. a \in a .. a + cnt - 1
      BY <2>1
    <3> QED BY <2>1, <2>2, <3>1
  <2>5. PICK c \in Calls : /\ c = [call[t] EXCEPT !.b = nb]
                           /\ c.size = size /\ c.b = nb /\ c.a = call[t].a /\ c.i = 0
    <3>1. PICK k \in Calls : k = call[t]
      BY <1>0, CallType
    <3>2. [k EXCEPT !.b = nb] \in Calls
      BY <2>3 DEF Calls
    <3>3. [k EXCEPT !.b = nb].size = k.size /\ [k EXCEPT !.b = nb].b = nb
          /\ [k EXCEPT !.b = nb].a = k.a /\ [k EXCEPT !.b = nb].i = k.i
      BY DEF Calls
    <3> QED BY <1>1, <1>3, <3>1, <3>2, <3>3
  <2>6. call' = [call EXCEPT ![t] = c]
    BY <2>2, <2>5
  <2>7. /\ pc' \in [Threads -> Inside \cup {"idle", "lock"}] /\ call' \in [Threads -> Calls]
        /\ pc'[t] = "unlock" /\ call'[t] = c
        /\ \A u \in Threads : u # t => pc'[u] = pc[u] /\ call'[u] = call[u]
    <3>1. "unlock" \in Inside \cup {"idle", "lock"}
      BY DEF Inside
    <3> QED BY <1>0, <1>3, <2>0, <2>6, <3>1, CallSet
  <2>8. StateOK'
    <3>1. head' \in [PageSet -> [desc : Descs \cup {NoDesc}, cnt : Nat, large : BOOLEAN]]
      <4>1. new \in [desc : Descs \cup {NoDesc}, cnt : Nat, large : BOOLEAN]
        OBVIOUS
      <4>2. NoHead \in [desc : Descs \cup {NoDesc}, cnt : Nat, large : BOOLEAN]
        BY DEF NoHead
      <4> HIDE DEF new
      <4> QED BY <1>0, <2>2, <4>1, <4>2 DEF StateOK
    <3>2. used' \in SUBSET PageSet
      BY <1>0, <2>1, <2>2 DEF StateOK
    <3> QED BY <1>0, <1>3, <2>0, <2>2, <2>7, <3>1, <3>2 DEF StateOK
  <2>9. /\ pc[t] \in Inside /\ pc'[t] \in Inside
        /\ LockOK' /\ \A u \in Threads : u # t => CallOK(u)'
        /\ \A u \in Threads : u # t => /\ Takes(u)' <=> Takes(u)
                                       /\ \A b : Holds(u, b)' <=> Holds(u, b)
        /\ \A p : /\ ~Cut(p) /\ ~Cut(p)' /\ ~Going(p) /\ ~Going(p)'
                  /\ Ahead(p) = 0 /\ Ahead(p)' = 0
                  /\ ~ \E u \in Threads : Filled(u, p)
    <3>1. pc[t] \in Inside /\ pc'[t] \in Inside
      BY <1>3, <2>7 DEF Inside
    <3>2. /\ LockOK' /\ \A u \in Threads : u # t => CallOK(u)'
          /\ \A u \in Threads : u # t => /\ Takes(u)' <=> Takes(u)
                                         /\ \A b : Holds(u, b)' <=> Holds(u, b)
          /\ \A p : /\ Cut(p) <=> pc[t] = "split" /\ call[t].a = p
                    /\ Cut(p)' <=> pc'[t] = "split" /\ call'[t].a = p
                    /\ Going(p) <=> pc[t] \in {"release", "mfree"} /\ call[t].a = p
                    /\ Going(p)' <=> pc'[t] \in {"release", "mfree"} /\ call'[t].a = p
                    /\ Ahead(p) = AheadBy(t, p) /\ Ahead(p)' = AheadBy(t, p)'
                    /\ (\E u \in Threads : Filled(u, p)) => Filled(t, p)
      BY <1>0, <1>3, <2>7, <3>1, InsideStep
    <3>3. \A p : AheadBy(t, p) = 0 /\ AheadBy(t, p)' = 0 /\ ~Filled(t, p)
      BY <1>3, <2>7 DEF AheadBy, Filled
    <3> QED BY <1>3, <2>7, <3>1, <3>2, <3>3
  <2>10. /\ \A b : ~Holds(t, b)
         /\ Takes(t)' /\ \A b : Holds(t, b)' <=> b = nb
    BY <1>1, <1>3, <2>3, <2>5, <2>7 DEF Holds, GivesBack, Takes
  <2>11. /\ ~Small(a)' /\ Large(a)' /\ IsUnit(nb)' /\ Fits(nb, size)'
    <3>1. ~Small(a)' /\ Large(a)'
      BY <2>4 DEF Small, Large
    <3>2. IsUnit(nb)'
      BY <2>3, <3>1 DEF IsUnit, nb
    <3>3. Fits(nb, size)'
      BY <1>2, <2>3, <2>4, <3>1 DEF Fits
    <3> QED BY <3>1, <3>2, <3>3
  <2>12. FreeOK' /\ LiveOK' /\ HandOK' /\ AllHeld' /\ CountOK' /\ FullOK'
    <3>1. /\ \A b : block2arena(b) = a => ~IsFree(b) /\ ~IsLive(b)
          /\ \A u \in Threads : \A b : Holds(u, b) => block2arena(b) # a
      BY <1>0, <2>4, NothingThere
    <3>2. \A b \in Bytes \cup {-1} : Holds(t, b)' =>
            /\ block2arena(b) = a /\ IsUnit(b)'
            /\ \A s \in Sizes : (Takes(t) /\ call[t].size = s)' => Fits(b, s)'
      BY <2>3, <2>5, <2>7, <2>10, <2>11
    <3>3. InHand(a * PageSize + Header)'
      BY <2>10 DEF InHand, nb
    <3>4. free' = free /\ live' = live /\ call' \in [Threads -> Calls]
      BY <1>3, <2>2, <2>7
    <3>5. \A p \in PageSet : p # a => head'[p] = head[p]
      BY <2>4
    <3>6. \A u \in Threads : u # t =>
            /\ Takes(u)' <=> Takes(u)
            /\ call'[u] = call[u]
            /\ \A b : Holds(u, b)' <=> Holds(u, b)
            /\ \A b : Holds(u, b) => block2arena(b) # a
      BY <2>7, <2>9, <3>1
    <3>7. \A p \in PageSet : p # a =>
            /\ Ahead(p)' = Ahead(p)
            /\ Cut(p)' <=> Cut(p)
            /\ Going(p)' <=> Going(p)
            /\ ~ \E u \in Threads : Filled(u, p)
      BY <2>9
    <3>8. ~Small(a)' /\ \A b : ~Holds(t, b)
      BY <2>10, <2>11
    <3> HIDE DEF new
    <3> QED BY <1>0, <3>1, <3>2, <3>3, <3>4, <3>5, <3>6, <3>7, <3>8, HeadChange
  <2>13. PagesOK'
    <3>1. ASSUME NEW p \in PageSet
          PROVE  /\ head'[p] # NoHead => p \in used' /\ (Small(p)' <=> ~Large(p)')
                 /\ Large(p)' => head'[p].cnt >= 1 /\ p + head'[p].cnt <= Pages
                 /\ Large(p)' => \A q \in p + 1 .. p + head'[p].cnt - 1 : q \in used' /\ head'[q] = NoHead
      <4>1. CASE p = a
        <5>1. \A q \in a + 1 .. a + cnt - 1 : q \in used' /\ q \in PageSet /\ q # a /\ head[q] = NoHead
          BY <2>1, <2>2
        <5>2. a \in used'
          BY <2>1, <2>2
        <5> QED BY <2>1, <2>4, <2>11, <4>1, <5>1, <5>2
      <4>2. CASE p # a
        <5>1. head'[p] = head[p]
          BY <2>4, <4>2
        <5>2. head[p] # NoHead => p \in used /\ (Small(p) <=> ~Large(p))
          BY <1>0 DEF PagesOK
        <5>3. Large(p) => /\ head[p].cnt >= 1 /\ p + head[p].cnt <= Pages
                          /\ \A q \in p + 1 .. p + head[p].cnt - 1 : q \in used /\ head[q] = NoHead
          BY <1>0 DEF PagesOK
        <5>4. /\ Small(p)' <=> Small(p)
              /\ Large(p)' <=> Large(p)
          BY <5>1 DEF Small, Large
        <5>5. \A q \in used : q \in used' /\ q # a /\ head'[q] = head[q]
          <6>1. a \in a .. a + cnt - 1
            BY <2>1
          <6> QED BY <1>0, <2>1, <2>2, <2>4, <6>1 DEF StateOK
        <5> QED BY <5>1, <5>2, <5>3, <5>4, <5>5
      <4> QED BY <4>1, <4>2
    <3>2. ASSUME NEW p \in used', head'[p] = NoHead
          PROVE  \E q \in PageSet : Large(q)' /\ p \in q + 1 .. q + head'[q].cnt - 1
      <4>1. CASE p \in a .. a + cnt - 1
        <5>1. p # a
          BY <2>4, <3>2 DEF NoHead
        <5>2. p \in a + 1 .. a + head'[a].cnt - 1
          BY <2>1, <2>4, <4>1, <5>1
        <5> QED BY <2>11, <5>2
      <4>2. CASE p \notin a .. a + cnt - 1
        <5>1. p \in used /\ p \in PageSet /\ p # a /\ head[p] = NoHead
          BY <1>0, <2>1, <2>2, <2>4, <3>2, <4>2 DEF StateOK
        <5>2. PICK q \in PageSet : Large(q) /\ p \in q + 1 .. q + head[q].cnt - 1
          BY <1>0, <5>1 DEF PagesOK
        <5>3. q # a
          BY <2>4, <5>2 DEF Large, NoHead
        <5> QED BY <2>4, <5>2, <5>3 DEF Large
      <4> QED BY <4>1, <4>2
    <3> QED BY <3>1, <3>2 DEF PagesOK
  <2>14. CallOK(t)'
    <3>1. Takes(t)'
      BY <2>10
    <3> QED BY <2>7, <3>1 DEF CallOK
  <2> QED BY <2>8, <2>9, <2>12, <2>13, <2>14 DEF IInv
<1> QED BY <1>1, <1>2, <1>4, <1>5, <1>6 DEF MallocLarge

LEMMA NewArenaStep ==
  ASSUME IInv, NEW t \in Threads, NewArena(t)
  PROVE  IInv'
<1>0. /\ StateOK /\ LockOK /\ PagesOK /\ FreeOK /\ LiveOK /\ HandOK /\ AllHeld /\ CountOK /\ FullOK
      /\ \A u \in Threads : CallOK(u)
  BY DEF IInv
<1>1. /\ pc[t] = "arena" /\ call[t].b = -1 /\ call[t].i = 0 /\ call[t].size \in 1 .. MaxBlock
      /\ free[DescFor(call[t].size)] = <<>>
      /\ owner' = owner /\ level' = level /\ live' = live
  BY <1>0 DEF NewArena, At, CallOK, Fresh, Asked, lockVars
<1>2. PICK d \in Descs : d = DescFor(call[t].size)
  BY <1>1, DescForFacts
<1>3. BlocksPerArena(d) \in Nat \ {0}
  BY BlocksPerArenaFacts
<1>4. CASE MustStop(1)
  <2>1. UNCHANGED <<lockVars, heapVars, live, pc, call>> /\ panic' = "malloc_page"
    BY <1>4 DEF NewArena, Stops
  <2> QED BY <2>1, StopStep
<1>5. CASE ~MustStop(1)
  <2>0. FreeRuns(1) # {}
    <3>1. PICK p \in PageSet : p \notin used
      BY <1>0, <1>5 DEF MustStop, StateOK
    <3>2. p \in Nat /\ p < Pages
      BY Constants DEF PageSet
    <3>3. p \in FreeRuns(1)
      BY <3>1, <3>2, Constants DEF FreeRuns
    <3> QED BY <3>3
  <2>1. PICK a \in PageSet :
          a = Min(FreeRuns(1)) /\ a \in Nat /\ a \notin used /\ head[a] = NoHead
    <3>1. LET a == Min(FreeRuns(1)) IN
            /\ a \in PageSet /\ a \in Nat
            /\ \A p \in a .. a + 1 - 1 : p \notin used /\ head[p] = NoHead
      BY <1>0, <2>0, FreePages
    <3>2. PICK a \in PageSet : a = Min(FreeRuns(1)) /\ a \in Nat
      BY <3>1
    <3>3. a \in a .. a + 1 - 1
      BY <3>2
    <3> QED BY <3>1, <3>2, <3>3
  <2> DEFINE new == [desc |-> d, cnt |-> BlocksPerArena(d), large |-> FALSE]
  <2>2. /\ used' = used \cup {a} /\ free' = free
        /\ head' = [head EXCEPT ![a] = new]
        /\ call' = [call EXCEPT ![t].a = a]
        /\ pc' = [pc EXCEPT ![t] = "split"] /\ panic' = panic
    BY <1>2, <1>5, <2>1 DEF NewArena, Goto
  <2>3. /\ new \in [desc : Descs \cup {NoDesc}, cnt : Nat, large : BOOLEAN]
        /\ new.desc = d /\ new.cnt = BlocksPerArena(d) /\ new.large = FALSE
        /\ d # NoDesc
    BY <1>3, Constants DEF NoDesc
  <2>4. head'[a] = new /\ \A p \in PageSet : p # a => head'[p] = head[p]
    BY <1>0, <2>2 DEF StateOK
  <2>5. PICK c \in Calls : /\ c = [call[t] EXCEPT !.a = a]
                           /\ c.size = call[t].size /\ c.b = -1 /\ c.a = a /\ c.i = 0
    <3>1. PICK k \in Calls : k = call[t]
      BY <1>0, CallType
    <3>2. [k EXCEPT !.a = a] \in Calls
      BY DEF Calls
    <3>3. [k EXCEPT !.a = a].size = k.size /\ [k EXCEPT !.a = a].b = k.b
          /\ [k EXCEPT !.a = a].a = a /\ [k EXCEPT !.a = a].i = k.i
      BY DEF Calls
    <3> QED BY <1>1, <3>1, <3>2, <3>3
  <2>6. call' = [call EXCEPT ![t] = c]
    BY <2>2, <2>5
  <2>7. /\ pc' \in [Threads -> Inside \cup {"idle", "lock"}] /\ call' \in [Threads -> Calls]
        /\ pc'[t] = "split" /\ call'[t] = c
        /\ \A u \in Threads : u # t => pc'[u] = pc[u] /\ call'[u] = call[u]
    <3>1. "split" \in Inside \cup {"idle", "lock"}
      BY DEF Inside
    <3> QED BY <1>0, <2>2, <2>6, <3>1, CallSet
  <2>8. StateOK'
    <3>1. head' \in [PageSet -> [desc : Descs \cup {NoDesc}, cnt : Nat, large : BOOLEAN]]
      <4> HIDE DEF new
      <4> QED BY <1>0, <2>2, <2>3 DEF StateOK
    <3>2. used' \in SUBSET PageSet
      BY <1>0, <2>1, <2>2 DEF StateOK
    <3> QED BY <1>0, <1>1, <2>2, <2>7, <3>1, <3>2 DEF StateOK
  <2>9. pc[t] \in Inside /\ pc'[t] \in Inside
    BY <1>1, <2>7 DEF Inside
  <2>10. /\ LockOK' /\ \A u \in Threads : u # t => CallOK(u)'
         /\ \A u \in Threads : u # t => /\ Takes(u)' <=> Takes(u)
                                        /\ \A b : Holds(u, b)' <=> Holds(u, b)
         /\ \A p : /\ ~Cut(p) /\ (Cut(p)' <=> p = a) /\ ~Going(p) /\ ~Going(p)'
                   /\ Ahead(p) = 0 /\ Ahead(p)' = 0
                   /\ ~ \E u \in Threads : Filled(u, p)
    <3>1. /\ LockOK' /\ \A u \in Threads : u # t => CallOK(u)'
          /\ \A u \in Threads : u # t => /\ Takes(u)' <=> Takes(u)
                                         /\ \A b : Holds(u, b)' <=> Holds(u, b)
          /\ \A p : /\ Cut(p) <=> pc[t] = "split" /\ call[t].a = p
                    /\ Cut(p)' <=> pc'[t] = "split" /\ call'[t].a = p
                    /\ Going(p) <=> pc[t] \in {"release", "mfree"} /\ call[t].a = p
                    /\ Going(p)' <=> pc'[t] \in {"release", "mfree"} /\ call'[t].a = p
                    /\ Ahead(p) = AheadBy(t, p) /\ Ahead(p)' = AheadBy(t, p)'
                    /\ (\E u \in Threads : Filled(u, p)) => Filled(t, p)
      BY <1>0, <1>1, <2>7, <2>9, InsideStep
    <3>2. \A p : AheadBy(t, p) = 0 /\ AheadBy(t, p)' = 0 /\ ~Filled(t, p)
      BY <1>1, <2>7 DEF AheadBy, Filled
    <3> QED BY <1>1, <2>5, <2>7, <3>1, <3>2
  <2>11. \A b : ~Holds(t, b) /\ ~Holds(t, b)'
    BY <1>1, <2>5, <2>7 DEF Holds, GivesBack, Takes
  <2>12. Small(a)' /\ ~Large(a)' /\ Cut(a)' /\ Filled(t, a)'
    BY <2>3, <2>4, <2>5, <2>7, <2>10 DEF Small, Large, Filled
  <2>13. /\ \A b : block2arena(b) = a => ~IsFree(b) /\ ~IsLive(b)
         /\ \A u \in Threads : \A b : Holds(u, b) => block2arena(b) # a
    BY <1>0, <2>1, NothingThere
  <2>14. FreeOK' /\ LiveOK' /\ HandOK' /\ AllHeld' /\ CountOK' /\ FullOK'
    BY <1>0, <1>1, <2>2, <2>4, <2>7, <2>10, <2>11, <2>12, <2>13, HeadChange
  <2>15. PagesOK'
    <3>0. /\ \A p \in used : p \in used' /\ p # a /\ p \in PageSet /\ head'[p] = head[p]
          /\ a \in used' /\ \A p \in used' : p = a \/ p \in used
      BY <1>0, <2>1, <2>2, <2>4 DEF StateOK
    <3>1. ASSUME NEW p \in PageSet
          PROVE  /\ head'[p] # NoHead => p \in used' /\ (Small(p)' <=> ~Large(p)')
                 /\ Large(p)' => head'[p].cnt >= 1 /\ p + head'[p].cnt <= Pages
                 /\ Large(p)' => \A q \in p + 1 .. p + head'[p].cnt - 1 : q \in used' /\ head'[q] = NoHead
      <4>1. CASE p = a
        BY <2>12, <3>0, <4>1
      <4>2. CASE p # a
        <5>1. head'[p] = head[p]
          BY <2>4, <4>2
        <5>2. head[p] # NoHead => p \in used /\ (Small(p) <=> ~Large(p))
          BY <1>0 DEF PagesOK
        <5>3. Large(p) => /\ head[p].cnt >= 1 /\ p + head[p].cnt <= Pages
                          /\ \A q \in p + 1 .. p + head[p].cnt - 1 : q \in used /\ head[q] = NoHead
          BY <1>0 DEF PagesOK
        <5>4. /\ Small(p)' <=> Small(p)
              /\ Large(p)' <=> Large(p)
          BY <5>1 DEF Small, Large
        <5> QED BY <3>0, <5>1, <5>2, <5>3, <5>4
      <4> QED BY <4>1, <4>2
    <3>2. ASSUME NEW p \in used', head'[p] = NoHead
          PROVE  \E q \in PageSet : Large(q)' /\ p \in q + 1 .. q + head'[q].cnt - 1
      <4>1. p # a
        BY <2>3, <2>4, <3>2 DEF NoHead
      <4>2. PICK q \in PageSet : Large(q) /\ p \in q + 1 .. q + head[q].cnt - 1
        BY <1>0, <3>0, <3>2, <4>1 DEF PagesOK
      <4>3. q # a
        BY <2>1, <4>2 DEF Large, NoHead
      <4> QED BY <2>4, <4>2, <4>3 DEF Large
    <3> QED BY <3>1, <3>2 DEF PagesOK
  <2>16. CallOK(t)'
    <3>1. \A b \in Bytes : block2arena(b) = a => ~IsFree(b)' /\ ~IsLive(b)' /\ ~InHand(b)'
      <4>1. \A b : (IsFree(b)' <=> IsFree(b)) /\ (IsLive(b)' <=> IsLive(b))
        BY <1>1, <2>2 DEF IsFree, IsLive
      <4>2. \A b : InHand(b)' => InHand(b)
        BY <2>10, <2>11 DEF InHand
      <4>3. \A b : block2arena(b) = a => ~InHand(b)
        BY <2>13 DEF InHand
      <4> QED BY <2>13, <4>1, <4>2, <4>3
    <3>2. head'[call'[t].a] = [desc |-> d, large |-> FALSE, cnt |-> BlocksPerArena(d)]
      BY <2>4, <2>5, <2>7
    <3>3. DescFor(call'[t].size) = d /\ free'[d] = <<>>
      BY <1>1, <1>2, <2>2, <2>5, <2>7
    <3> QED BY <1>1, <2>5, <2>7, <3>1, <3>2, <3>3 DEF CallOK, Asked, Fresh
  <2> QED BY <2>8, <2>10, <2>14, <2>15, <2>16 DEF IInv
<1> QED BY <1>4, <1>5

\* What owned its pages gives them up.
LEMMA PagesGone ==
  ASSUME StateOK, PagesOK, NEW a \in PageSet, head[a] # NoHead,
         used' = used \ Own(a), head' = [head EXCEPT ![a] = NoHead]
  PROVE  /\ PagesOK' /\ used' \in SUBSET PageSet
         /\ head' \in [PageSet -> [desc : Descs \cup {NoDesc}, cnt : Nat, large : BOOLEAN]]
         /\ head'[a] = NoHead /\ ~Small(a)' /\ ~Large(a)'
         /\ \A p \in PageSet : p # a => head'[p] = head[p]
<1>1. head'[a] = NoHead /\ \A p \in PageSet : p # a => head'[p] = head[p]
  BY DEF StateOK
<1>2. ~Small(a)' /\ ~Large(a)'
  BY <1>1 DEF Small, Large, NoHead
<1>3. /\ used' \in SUBSET PageSet
      /\ head' \in [PageSet -> [desc : Descs \cup {NoDesc}, cnt : Nat, large : BOOLEAN]]
  <2>1. NoHead \in [desc : Descs \cup {NoDesc}, cnt : Nat, large : BOOLEAN]
    BY DEF NoHead
  <2> QED BY <2>1 DEF StateOK
<1>4. \A p \in PageSet : head[p] # NoHead => p \in Own(p)
  <2> SUFFICES ASSUME NEW p \in PageSet, head[p] # NoHead PROVE p \in Own(p)
    OBVIOUS
  <2>1. p \in Nat /\ (Large(p) => head[p].cnt \in Nat /\ head[p].cnt >= 1)
    BY HeadFacts DEF PagesOK
  <2> QED BY <2>1 DEF Own
<1>5. \A p \in PageSet : p # a /\ head[p] # NoHead => \A q \in Own(p) : q \notin Own(a)
  BY OwnApart
<1>6. \A p \in PageSet : Large(p) =>
        head[p] # NoHead /\ head[p].cnt \in Nat /\ \A q \in p + 1 .. p + head[p].cnt - 1 : q \in Own(p)
  <2> SUFFICES ASSUME NEW p \in PageSet, Large(p)
               PROVE  head[p] # NoHead /\ head[p].cnt \in Nat /\ \A q \in p + 1 .. p + head[p].cnt - 1 : q \in Own(p)
    OBVIOUS
  <2>1. head[p] # NoHead /\ head[p].cnt \in Nat /\ p \in Nat
    BY HeadFacts
  <2> QED BY <2>1 DEF Own
<1>7. ASSUME NEW p \in PageSet
      PROVE  /\ head'[p] # NoHead => p \in used' /\ (Small(p)' <=> ~Large(p)')
             /\ Large(p)' => head'[p].cnt >= 1 /\ p + head'[p].cnt <= Pages
             /\ Large(p)' => \A q \in p + 1 .. p + head'[p].cnt - 1 : q \in used' /\ head'[q] = NoHead
  <2>1. CASE p = a
    BY <1>1, <1>2, <2>1
  <2>2. CASE p # a
    <3>1. head'[p] = head[p]
      BY <1>1, <2>2
    <3>2. head[p] # NoHead => p \in used /\ (Small(p) <=> ~Large(p))
      BY DEF PagesOK
    <3>3. Large(p) => /\ head[p].cnt >= 1 /\ p + head[p].cnt <= Pages
                      /\ \A q \in p + 1 .. p + head[p].cnt - 1 : q \in used /\ head[q] = NoHead
      BY DEF PagesOK
    <3>4. /\ Small(p)' <=> Small(p)
          /\ Large(p)' <=> Large(p)
      BY <3>1 DEF Small, Large
    <3>5. head[p] # NoHead => p \in used'
      BY <1>4, <1>5, <2>2, <3>2
    <3>6. ASSUME Large(p), NEW q \in p + 1 .. p + head[p].cnt - 1
          PROVE  q \in used' /\ head'[q] = NoHead
      <4>1. q \notin Own(a) /\ q \in used /\ head[q] = NoHead
        BY <1>5, <1>6, <2>2, <3>3, <3>6
      <4>2. q # a /\ q \in PageSet
        BY <4>1 DEF StateOK
      <4> QED BY <1>1, <4>1, <4>2
    <3> QED BY <3>1, <3>2, <3>3, <3>4, <3>5, <3>6
  <2> QED BY <2>1, <2>2
<1>8. ASSUME NEW p \in used', head'[p] = NoHead
      PROVE  \E q \in PageSet : Large(q)' /\ p \in q + 1 .. q + head'[q].cnt - 1
  <2>1. p \in used /\ p \notin Own(a) /\ p # a /\ p \in PageSet
    BY <1>4 DEF StateOK
  <2>2. head[p] = NoHead
    BY <1>1, <1>8, <2>1
  <2>3. PICK q \in PageSet : Large(q) /\ p \in q + 1 .. q + head[q].cnt - 1
    BY <2>1, <2>2 DEF PagesOK
  <2>4. q # a
    BY <1>6, <2>1, <2>3
  <2> QED BY <1>1, <2>3, <2>4 DEF Large
<1>9. PagesOK'
  BY <1>7, <1>8 DEF PagesOK
<1> QED BY <1>1, <1>2, <1>3, <1>9

LEMMA MfreeStep ==
  ASSUME IInv, NEW t \in Threads, MfreeArena(t)
  PROVE  IInv'
<1>0. /\ StateOK /\ LockOK /\ PagesOK /\ FreeOK /\ LiveOK /\ HandOK /\ AllHeld /\ CountOK /\ FullOK
      /\ \A u \in Threads : CallOK(u)
  BY DEF IInv
<1>1. PICK a \in PageSet :
        /\ a = call[t].a /\ pc[t] = "mfree" /\ call[t].size = 0 /\ Small(a)
        /\ used' = used \ {a} /\ head' = [head EXCEPT ![a] = NoHead]
        /\ pc' = [pc EXCEPT ![t] = "unlock"] /\ call' = call
        /\ owner' = owner /\ level' = level /\ free' = free /\ live' = live /\ panic' = panic
  BY <1>0 DEF MfreeArena, At, Goto, CallOK, lockVars
<1>2. /\ head[a].desc \in Descs /\ ~Large(a) /\ head[a] # NoHead /\ Own(a) = {a}
  BY <1>0, <1>1, HeadFacts DEF Own
<1>3. PICK d \in Descs : d = head[a].desc
  BY <1>2
<1>4. \A b \in Blocks(a, d) : ~IsFree(b) /\ ~IsLive(b) /\ ~InHand(b)
  <2>1. CallOK(t)
    BY <1>0
  <2>2. \A k \in 0 .. BlocksPerArena(d) - 1 :
          LET b == arena2block(a, d, k) IN ~IsLive(b) /\ ~InHand(b) /\ (IsFree(b) <=> k >= call[t].i)
    BY <1>1, <1>3, <2>1 DEF CallOK
  <2>3. call[t].i = BlocksPerArena(d)
    BY <1>1, <1>3, <2>1 DEF CallOK
  <2>4. BlocksPerArena(d) \in Nat
    BY BlocksPerArenaFacts
  <2> QED BY <2>2, <2>3, <2>4 DEF Blocks
<1>5. \A b : IsUnit(b) /\ block2arena(b) = a => b \in Blocks(a, d)
  BY <1>0, <1>1, <1>3, UnitFacts
<1>6. /\ \A b : block2arena(b) = a => ~IsFree(b) /\ ~IsLive(b)
      /\ \A u \in Threads : \A b : Holds(u, b) => block2arena(b) # a
  <2>1. \A b : IsFree(b) \/ IsLive(b) => IsUnit(b)
    BY <1>0 DEF IsFree, IsLive, FreeOK, LiveOK
  <2>2. \A u \in Threads : \A b : Holds(u, b) => IsUnit(b) /\ InHand(b)
    <3> SUFFICES ASSUME NEW u \in Threads, NEW b, Holds(u, b) PROVE IsUnit(b) /\ InHand(b)
      OBVIOUS
    <3>1. b \in Bytes \cup {-1}
      BY <1>0, CallType DEF Holds
    <3> QED BY <1>0, <3>1 DEF HandOK, InHand
  <2> QED BY <1>4, <1>5, <2>1, <2>2
<1>7. /\ PagesOK' /\ used' \in SUBSET PageSet
      /\ head' \in [PageSet -> [desc : Descs \cup {NoDesc}, cnt : Nat, large : BOOLEAN]]
      /\ head'[a] = NoHead /\ ~Small(a)' /\ ~Large(a)'
      /\ \A p \in PageSet : p # a => head'[p] = head[p]
  BY <1>0, <1>1, <1>2, PagesGone
<1>8. /\ pc' \in [Threads -> Inside \cup {"idle", "lock"}] /\ pc'[t] = "unlock"
      /\ \A u \in Threads : u # t => pc'[u] = pc[u] /\ call'[u] = call[u]
  BY <1>0, <1>1 DEF StateOK, Inside
<1>9. StateOK'
  BY <1>0, <1>1, <1>7, <1>8 DEF StateOK
<1>10. pc[t] \in Inside /\ pc'[t] \in Inside
  BY <1>1, <1>8 DEF Inside
<1>11. /\ LockOK' /\ \A u \in Threads : u # t => CallOK(u)'
       /\ \A u \in Threads : u # t => /\ Takes(u)' <=> Takes(u)
                                      /\ \A b : Holds(u, b)' <=> Holds(u, b)
       /\ \A p \in PageSet : p # a =>
            /\ ~Cut(p) /\ ~Cut(p)' /\ ~Going(p) /\ ~Going(p)'
            /\ Ahead(p) = 0 /\ Ahead(p)' = 0
            /\ ~ \E u \in Threads : Filled(u, p)
  <2>1. /\ LockOK' /\ \A u \in Threads : u # t => CallOK(u)'
        /\ \A u \in Threads : u # t => /\ Takes(u)' <=> Takes(u)
                                       /\ \A b : Holds(u, b)' <=> Holds(u, b)
        /\ \A p : /\ Cut(p) <=> pc[t] = "split" /\ call[t].a = p
                  /\ Cut(p)' <=> pc'[t] = "split" /\ call'[t].a = p
                  /\ Going(p) <=> pc[t] \in {"release", "mfree"} /\ call[t].a = p
                  /\ Going(p)' <=> pc'[t] \in {"release", "mfree"} /\ call'[t].a = p
                  /\ Ahead(p) = AheadBy(t, p) /\ Ahead(p)' = AheadBy(t, p)'
                  /\ (\E u \in Threads : Filled(u, p)) => Filled(t, p)
    BY <1>0, <1>1, <1>8, <1>10, InsideStep
  <2>2. \A p : p # a => AheadBy(t, p) = 0 /\ AheadBy(t, p)' = 0 /\ ~Filled(t, p)
    BY <1>1, <1>8 DEF AheadBy, Filled
  <2> QED BY <1>1, <1>8, <2>1, <2>2
<1>12. \A b : ~Holds(t, b) /\ ~Holds(t, b)'
  BY <1>1, <1>8 DEF Holds, GivesBack, Takes
<1>13. FreeOK' /\ LiveOK' /\ HandOK' /\ AllHeld' /\ CountOK' /\ FullOK'
  <2>1. call' \in [Threads -> Calls]
    BY <1>9 DEF StateOK
  <2> QED BY <1>0, <1>1, <1>6, <1>7, <1>8, <1>11, <1>12, <2>1, HeadChange
<1>14. CallOK(t)'
  BY <1>1, <1>8 DEF CallOK
<1> QED BY <1>7, <1>9, <1>11, <1>13, <1>14 DEF IInv

\* The struct arenas stay where they are; a count may change.
ArenasStay ==
  /\ used' = used /\ live' = live
  /\ \A p \in PageSet :
       \/ head'[p] = head[p]
       \/ Small(p) /\ head'[p].desc = head[p].desc /\ head'[p].large = head[p].large

LEMMA SameUnits ==
  ASSUME StateOK, PagesOK, ArenasStay
  PROVE  /\ PagesOK'
         /\ \A p \in PageSet : /\ Small(p)' <=> Small(p)
                               /\ Large(p)' <=> Large(p)
                               /\ head'[p].desc = head[p].desc
         /\ \A b : /\ IsUnit(b)' <=> IsUnit(b)
                   /\ IsLive(b)' <=> IsLive(b)
                   /\ \A size : IsUnit(b) => (Fits(b, size)' <=> Fits(b, size))
<1>1. \A p \in PageSet : /\ Small(p)' <=> Small(p)
                         /\ Large(p)' <=> Large(p)
                         /\ head'[p].desc = head[p].desc
                         /\ ~Small(p) => head'[p] = head[p]
                         /\ head'[p] = NoHead <=> head[p] = NoHead
  BY DEF ArenasStay, Small, Large, NoHead
<1>2. \A p \in PageSet : Large(p) => ~Small(p)
  BY HeadFacts
<1>3. \A b : /\ IsUnit(b)' <=> IsUnit(b)
             /\ IsLive(b)' <=> IsLive(b)
  BY <1>1 DEF ArenasStay, IsUnit, IsLive
<1>4. \A b : \A size : IsUnit(b) => (Fits(b, size)' <=> Fits(b, size))
  BY <1>1, <1>2 DEF IsUnit, Fits
<1>5. PagesOK'
  <2>1. ASSUME NEW p \in PageSet
        PROVE  /\ head'[p] # NoHead => p \in used' /\ (Small(p)' <=> ~Large(p)')
               /\ Large(p)' => head'[p].cnt >= 1 /\ p + head'[p].cnt <= Pages
               /\ Large(p)' => \A q \in p + 1 .. p + head'[p].cnt - 1 : q \in used' /\ head'[q] = NoHead
    <3>1. head[p] # NoHead => p \in used /\ (Small(p) <=> ~Large(p))
      BY DEF PagesOK
    <3>2. Large(p) => /\ head[p].cnt >= 1 /\ p + head[p].cnt <= Pages
                      /\ \A q \in p + 1 .. p + head[p].cnt - 1 : q \in used /\ head[q] = NoHead
      BY DEF PagesOK
    <3>3. used' = used /\ used \subseteq PageSet
      BY DEF ArenasStay, StateOK
    <3> QED BY <1>1, <1>2, <3>1, <3>2, <3>3
  <2>2. ASSUME NEW p \in used', head'[p] = NoHead
        PROVE  \E q \in PageSet : Large(q)' /\ p \in q + 1 .. q + head'[q].cnt - 1
    <3>1. p \in used /\ p \in PageSet
      BY DEF ArenasStay, StateOK
    <3>2. head[p] = NoHead
      BY <1>1, <2>2, <3>1
    <3>3. PICK q \in PageSet : Large(q) /\ p \in q + 1 .. q + head[q].cnt - 1
      BY <3>1, <3>2 DEF PagesOK
    <3> QED BY <1>1, <1>2, <3>3
  <2> QED BY <2>1, <2>2 DEF PagesOK
<1> QED BY <1>1, <1>3, <1>4, <1>5

\* Units stay as they are; who has them changes in the hand of one call only.
LEMMA HoldersOK ==
  ASSUME StateOK, PagesOK, LiveOK, HandOK, ArenasStay, NEW t \in Threads,
         \A b : IsFree(b)' => ~IsLive(b) /\ ~InHand(b)',
         \A b : InHand(b)' => ~IsLive(b),
         \A u \in Threads : u # t =>
           /\ Takes(u)' <=> Takes(u)
           /\ call'[u] = call[u]
           /\ \A b : Holds(u, b)' <=> Holds(u, b),
         \A b \in Bytes \cup {-1} : Holds(t, b)' =>
           /\ IsUnit(b) /\ \A u \in Threads : u # t => ~Holds(u, b)
           /\ \A size \in Sizes : (Takes(t) /\ call[t].size = size)' => Fits(b, size)
  PROVE  PagesOK' /\ LiveOK' /\ HandOK'
<1>1. /\ PagesOK'
      /\ \A b : /\ IsUnit(b)' <=> IsUnit(b)
                /\ IsLive(b)' <=> IsLive(b)
                /\ \A size : IsUnit(b) => (Fits(b, size)' <=> Fits(b, size))
  BY SameUnits
<1>2. LiveOK'
  <2> SUFFICES ASSUME NEW m \in live
               PROVE  IsUnit(m[1])' /\ Fits(m[1], m[2])' /\ ~IsFree(m[1])' /\ ~InHand(m[1])'
    BY DEF LiveOK, ArenasStay
  <2>1. IsUnit(m[1]) /\ Fits(m[1], m[2]) /\ IsLive(m[1])
    BY DEF LiveOK, IsLive
  <2> QED BY <1>1, <2>1
<1>3. HandOK'
  <2> SUFFICES ASSUME NEW u \in Threads, NEW b \in Bytes \cup {-1}, Holds(u, b)'
               PROVE  /\ IsUnit(b)' /\ ~IsFree(b)'
                      /\ \A size \in Sizes : (Takes(u) /\ call[u].size = size)' => Fits(b, size)'
                      /\ \A v \in Threads : Holds(v, b)' => v = u
    BY DEF HandOK
  <2>1. ~IsFree(b)'
    BY DEF InHand
  <2>2. CASE u = t
    BY <1>1, <2>1, <2>2
  <2>3. CASE u # t
    <3>1. Holds(u, b)
      BY <2>3
    <3>2. /\ IsUnit(b)
          /\ \A size \in Sizes : Takes(u) /\ call[u].size = size => Fits(b, size)
          /\ \A v \in Threads : Holds(v, b) => v = u
      BY <3>1 DEF HandOK
    <3>3. ~Holds(t, b)'
      BY <2>3, <3>1
    <3> QED BY <1>1, <2>1, <2>3, <3>2, <3>3
  <2> QED BY <2>2, <2>3
<1> QED BY <1>1, <1>2, <1>3

LEMMA AllHeldKept ==
  ASSUME StateOK, PagesOK, AllHeld, ArenasStay,
         \A b : IsFree(b)' => Small(block2arena(b)),
         \A b : IsFree(b) \/ IsLive(b) \/ InHand(b) =>
           \/ IsFree(b)' \/ IsLive(b)' \/ InHand(b)'
           \/ Small(block2arena(b)) /\ Going(block2arena(b))',
         \A p \in PageSet : Small(p) /\ (Cut(p) \/ Going(p)) =>
           \/ Cut(p)' \/ Going(p)'
           \/ \A b \in Blocks(p, head[p].desc) : IsFree(b)'
  PROVE  AllHeld'
<1>1. \A p \in PageSet : /\ Small(p)' <=> Small(p)
                         /\ Large(p)' <=> Large(p)
                         /\ head'[p].desc = head[p].desc
  BY SameUnits
<1> SUFFICES ASSUME NEW p \in PageSet
             PROVE  /\ (Small(p) /\ ~Cut(p) /\ ~Going(p))' =>
                         \A b \in Blocks(p, head'[p].desc) : IsFree(b)' \/ IsLive(b)' \/ InHand(b)'
                    /\ Large(p)' => IsLive(p * PageSize + Header)' \/ InHand(p * PageSize + Header)'
  BY DEF AllHeld
<1>2. ASSUME (Small(p) /\ ~Cut(p) /\ ~Going(p))', NEW b \in Blocks(p, head[p].desc)
      PROVE  IsFree(b)' \/ IsLive(b)' \/ InHand(b)'
  <2>1. Small(p) /\ block2arena(b) = p
    BY <1>1, <1>2, HeadFacts, BlocksFinite
  <2>2. CASE Cut(p) \/ Going(p)
    BY <1>2, <2>1, <2>2
  <2>3. CASE ~Cut(p) /\ ~Going(p)
    <3>1. IsFree(b) \/ IsLive(b) \/ InHand(b)
      BY <2>1, <2>3 DEF AllHeld
    <3> QED BY <1>2, <2>1, <3>1
  <2> QED BY <2>2, <2>3
<1>3. ASSUME Large(p)'
      PROVE  IsLive(p * PageSize + Header)' \/ InHand(p * PageSize + Header)'
  <2>1. Large(p) /\ ~Small(p)
    BY <1>1, <1>3, HeadFacts
  <2>2. IsLive(p * PageSize + Header) \/ InHand(p * PageSize + Header)
    BY <2>1 DEF AllHeld
  <2>3. block2arena(p * PageSize + Header) = p
    BY Constants, ByteOfPage DEF Page, block2arena
  <2> QED BY <2>1, <2>2, <2>3
<1> QED BY <1>1, <1>2, <1>3

\* One free list changes.
LEMMA ListChange ==
  ASSUME StateOK, PagesOK, FreeOK, ArenasStay, NEW d \in Descs, NEW s \in Seq(Bytes), IsInjective(s),
         free' = [free EXCEPT ![d] = s],
         \A b \in ToSet(s) : IsUnit(b) /\ head[block2arena(b)].desc = d
  PROVE  /\ FreeOK' /\ free' \in [Descs -> Seq(Bytes)]
         /\ \A b : IsFree(b)' <=> b \in ToSet(s) \/ (IsFree(b) /\ b \notin ToSet(free[d]))
         /\ \A b : IsFree(b)' => IsUnit(b) /\ Small(block2arena(b))
         /\ \A p \in PageSet : head[p].desc = d => FreeOf(p)' = {b \in ToSet(s) : block2arena(b) = p}
         /\ \A p \in PageSet :
              (\A b : block2arena(b) = p => (b \in ToSet(s) <=> b \in ToSet(free[d]))) => FreeOf(p)' = FreeOf(p)
<1>1. /\ \A p \in PageSet : head'[p].desc = head[p].desc
      /\ \A b : IsUnit(b)' <=> IsUnit(b)
      /\ \A b : IsUnit(b) => block2arena(b) \in PageSet
  <2>1. \A b : IsUnit(b) => block2arena(b) \in PageSet
    BY DEF IsUnit
  <2> QED BY <2>1, SameUnits
<1>2. free'[d] = s /\ \A e \in Descs : e # d => free'[e] = free[e]
  BY DEF StateOK
<1>3. free' \in [Descs -> Seq(Bytes)]
  BY DEF StateOK
<1>4. FreeOK'
  <2> SUFFICES ASSUME NEW e \in Descs
               PROVE  /\ \A b \in ToSet(free'[e]) : IsUnit(b)' /\ head'[block2arena(b)].desc = e
                      /\ \A i, j \in DOMAIN free'[e] : free'[e][i] = free'[e][j] => i = j
    BY DEF FreeOK
  <2>1. CASE e = d
    BY <1>1, <1>2, <2>1 DEF IsInjective
  <2>2. CASE e # d
    BY <1>1, <1>2, <2>2 DEF FreeOK
  <2> QED BY <2>1, <2>2
<1>5. \A e \in Descs : e # d => \A b \in ToSet(free[e]) : b \notin ToSet(free[d])
  BY DEF FreeOK
<1>6. ASSUME NEW b PROVE IsFree(b)' <=> b \in ToSet(s) \/ (IsFree(b) /\ b \notin ToSet(free[d]))
  <2>1. IsFree(b)' <=> \E e \in Descs : b \in ToSet(free'[e])
    BY DEF IsFree
  <2>2. IsFree(b) <=> \E e \in Descs : b \in ToSet(free[e])
    BY DEF IsFree
  <2> QED BY <1>2, <1>5, <2>1, <2>2
<1>7. \A b : IsFree(b)' => IsUnit(b) /\ Small(block2arena(b))
  <2>1. d # NoDesc
    BY Constants DEF NoDesc
  <2>2. \A b \in ToSet(s) : IsUnit(b) /\ Small(block2arena(b))
    BY <2>1 DEF Small
  <2>3. \A b : IsFree(b) => IsUnit(b) /\ Small(block2arena(b))
    BY FreeFacts
  <2> QED BY <1>6, <2>2, <2>3
<1>8. ASSUME NEW p \in PageSet, head[p].desc = d
      PROVE  FreeOf(p)' = {b \in ToSet(s) : block2arena(b) = p}
  <2>1. FreeOf(p)' = {b \in ToSet(free'[head'[p].desc]) : block2arena(b) = p}
    BY DEF FreeOf
  <2> QED BY <1>1, <1>2, <1>8, <2>1
<1>9. ASSUME NEW p \in PageSet, \A b : block2arena(b) = p => (b \in ToSet(s) <=> b \in ToSet(free[d]))
      PROVE  FreeOf(p)' = FreeOf(p)
  <2>1. CASE head[p].desc = d
    BY <1>8, <1>9, <2>1 DEF FreeOf
  <2>2. CASE head[p].desc # d
    <3>1. free'[head'[p].desc] = free[head[p].desc]
      BY <1>1, <2>2
    <3> QED BY <3>1 DEF FreeOf
  <2> QED BY <2>1, <2>2
<1> QED BY <1>3, <1>4, <1>6, <1>7, <1>8, <1>9

\* The counts of the other arenas.
LEMMA CountKept ==
  ASSUME CountOK, NEW a \in PageSet,
         \A p \in PageSet : p # a =>
           /\ head'[p] = head[p]
           /\ FreeOf(p)' = FreeOf(p)
           /\ Ahead(p)' = Ahead(p)
           /\ Cut(p)' <=> Cut(p),
         Small(a)' /\ ~Cut(a)' => head'[a].cnt = Cardinality(FreeOf(a)') + Ahead(a)'
  PROVE  CountOK'
<1> SUFFICES ASSUME NEW p \in PageSet, Small(p)', ~Cut(p)'
             PROVE  head'[p].cnt = Cardinality(FreeOf(p)') + Ahead(p)'
  BY DEF CountOK
<1>1. CASE p = a
  BY <1>1
<1>2. CASE p # a
  <2>1. Small(p) /\ ~Cut(p)
    BY <1>2 DEF Small
  <2> QED BY <1>2, <2>1 DEF CountOK
<1> QED BY <1>1, <1>2

\* The blocks of a new arena, one behind the other.
LEMMA NewBlocks ==
  ASSUME NEW a \in PageSet, NEW d \in Descs, NEW s,
         s = [i \in 1 .. BlocksPerArena(d) |-> arena2block(a, d, i - 1)]
  PROVE  s \in Seq(Bytes) /\ IsInjective(s) /\ ToSet(s) = Blocks(a, d)
<1>1. PICK n \in Nat : n = BlocksPerArena(d)
  BY BlocksPerArenaFacts
<1>2. \A i \in 1 .. n : i - 1 \in 0 .. n - 1
  OBVIOUS
<1>3. DOMAIN s = 1 .. n /\ \A i \in 1 .. n : s[i] = arena2block(a, d, i - 1)
  BY <1>1
<1>4. \A i \in 1 .. n : s[i] \in Bytes
  BY <1>1, <1>2, <1>3, BlockFacts
<1>5. s \in Seq(Bytes)
  <2>1. s = [i \in 1 .. n |-> s[i]]
    BY <1>1, <1>3
  <2>2. [i \in 1 .. n |-> s[i]] \in Seq(Bytes)
    BY <1>4, IsASeq
  <2> QED BY <2>1, <2>2
<1>6. IsInjective(s)
  <2> SUFFICES ASSUME NEW i \in 1 .. n, NEW j \in 1 .. n, s[i] = s[j] PROVE i = j
    BY <1>3 DEF IsInjective
  <2>1. i - 1 = j - 1
    BY <1>1, <1>2, <1>3, BlockInjective
  <2> QED BY <2>1
<1>7. ToSet(s) = Blocks(a, d)
  <2>1. ASSUME NEW b \in ToSet(s) PROVE b \in Blocks(a, d)
    <3>1. PICK i \in 1 .. n : b = s[i]
      BY <1>3 DEF ToSet
    <3> QED BY <1>1, <1>2, <1>3, <3>1 DEF Blocks
  <2>2. ASSUME NEW b \in Blocks(a, d) PROVE b \in ToSet(s)
    <3>1. PICK k \in 0 .. n - 1 : b = arena2block(a, d, k)
      BY <1>1 DEF Blocks
    <3>2. k + 1 \in 1 .. n /\ (k + 1) - 1 = k
      BY <1>1
    <3>3. s[k + 1] = b
      BY <1>3, <3>1, <3>2
    <3> QED BY <1>3, <3>2, <3>3 DEF ToSet
  <2> QED BY <2>1, <2>2
<1> QED BY <1>5, <1>6, <1>7

LEMMA SplitStep ==
  ASSUME IInv, NEW t \in Threads, Split(t)
  PROVE  IInv'
<1>0. /\ StateOK /\ LockOK /\ PagesOK /\ FreeOK /\ LiveOK /\ HandOK /\ AllHeld /\ CountOK /\ FullOK
      /\ \A u \in Threads : CallOK(u)
  BY DEF IInv
<1>1. PICK a \in PageSet :
        /\ a = call[t].a /\ pc[t] = "split" /\ call[t].b = -1 /\ call[t].i = 0 /\ call[t].size \in 1 .. MaxBlock
        /\ head[a] = [desc |-> DescFor(call[t].size), large |-> FALSE,
                      cnt |-> BlocksPerArena(DescFor(call[t].size))]
        /\ free[DescFor(call[t].size)] = <<>>
        /\ \A b \in Bytes : block2arena(b) = a => ~IsFree(b) /\ ~IsLive(b) /\ ~InHand(b)
        /\ owner' = owner /\ level' = level /\ head' = head /\ used' = used /\ live' = live /\ call' = call
  <2>1. CallOK(t) /\ pc[t] = "split"
    BY <1>0 DEF Split, At
  <2> QED BY <2>1 DEF Split, CallOK, Fresh, Asked, lockVars
<1>2. PICK d \in Descs : d = DescFor(call[t].size)
  BY <1>1, DescForFacts
<1>3. head[a].desc = d /\ head[a].cnt = BlocksPerArena(d) /\ free[d] = <<>> /\ d # NoDesc
  BY <1>1, <1>2, Constants DEF NoDesc
<1>4. Small(a)
  BY <1>3 DEF Small
<1>5. PICK s \in Seq(Bytes) :
        s = [i \in 1 .. BlocksPerArena(d) |-> arena2block(a, d, i - 1)] /\ IsInjective(s) /\ ToSet(s) = Blocks(a, d)
  BY NewBlocks
<1>6. \A b \in Blocks(a, d) : b \in Bytes /\ block2arena(b) = a /\ IsUnit(b) /\ ~IsLive(b) /\ ~InHand(b)
  <2>1. \A b \in Blocks(a, d) : b \in Bytes /\ block2arena(b) = a
    BY BlocksFinite
  <2> QED BY <1>1, <1>3, <1>4, <2>1 DEF IsUnit
<1>7. ToSet(<<>>) = {} /\ IsInjective(<<>>) /\ <<>> \in Seq(Bytes)
  BY DEF ToSet, IsInjective
<1>8. PICK r \in Seq(Bytes) : r = <<>> \o s /\ ToSet(r) = Blocks(a, d) /\ IsInjective(r)
  <2>1. /\ <<>> \o s \in Seq(Bytes)
        /\ \A y : y \in ToSet(<<>> \o s) <=> y \in ToSet(<<>>) \/ y \in ToSet(s)
        /\ IsInjective(<<>> \o s)
    <3>1. ToSet(<<>>) \cap ToSet(s) = {}
      BY <1>7
    <3> QED BY <1>5, <1>7, <3>1, ConcatFacts
  <2>2. ToSet(<<>> \o s) = Blocks(a, d)
    BY <1>5, <1>7, <2>1
  <2> QED BY <2>1, <2>2
<1>9. /\ free' = [free EXCEPT ![d] = r] /\ pc' = [pc EXCEPT ![t] = "pop"] /\ panic' = panic
  <2> DEFINE e == head[call[t].a].desc
             new == [i \in 1 .. BlocksPerArena(e) |-> arena2block(call[t].a, e, i - 1)]
  <2>1. e = d /\ new = s
    BY <1>1, <1>3, <1>5
  <2>2. ToSet(s) \cap ToSet(free[d]) = {}
    BY <1>3, <1>7
  <2>3. IF ToSet(new) \cap ToSet(free[e]) # {}
          THEN panic' = "split" /\ UNCHANGED <<free, pc>>
          ELSE free' = [free EXCEPT ![e] = @ \o new] /\ Goto(t, "pop") /\ UNCHANGED panic
    BY DEF Split
  <2> HIDE DEF e, new
  <2>4. free' = [free EXCEPT ![d] = free[d] \o s] /\ Goto(t, "pop") /\ panic' = panic
    BY <2>1, <2>2, <2>3
  <2> QED BY <1>3, <1>8, <2>4 DEF Goto
<1>10. ArenasStay
  BY <1>1 DEF ArenasStay
<1>11. /\ FreeOK' /\ free' \in [Descs -> Seq(Bytes)]
       /\ \A b : IsFree(b)' <=> b \in ToSet(r) \/ (IsFree(b) /\ b \notin ToSet(free[d]))
       /\ \A b : IsFree(b)' => IsUnit(b) /\ Small(block2arena(b))
       /\ \A p \in PageSet : head[p].desc = d => FreeOf(p)' = {b \in ToSet(r) : block2arena(b) = p}
       /\ \A p \in PageSet :
            (\A b : block2arena(b) = p => (b \in ToSet(r) <=> b \in ToSet(free[d]))) => FreeOf(p)' = FreeOf(p)
  <2>1. \A b \in ToSet(r) : IsUnit(b) /\ head[block2arena(b)].desc = d
    BY <1>3, <1>6, <1>8
  <2> QED BY <1>0, <1>8, <1>9, <1>10, <2>1, ListChange
<1>12. \A b : IsFree(b)' <=> b \in Blocks(a, d) \/ IsFree(b)
  BY <1>3, <1>7, <1>8, <1>11
<1>13. /\ pc' \in [Threads -> Inside \cup {"idle", "lock"}] /\ pc'[t] = "pop"
       /\ \A u \in Threads : u # t => pc'[u] = pc[u] /\ call'[u] = call[u]
  BY <1>0, <1>1, <1>9 DEF StateOK, Inside
<1>14. StateOK'
  BY <1>0, <1>1, <1>9, <1>11, <1>13 DEF StateOK
<1>15. /\ LockOK' /\ \A u \in Threads : u # t => CallOK(u)'
       /\ \A u \in Threads : u # t => /\ Takes(u)' <=> Takes(u)
                                      /\ \A b : Holds(u, b)' <=> Holds(u, b)
       /\ \A p : /\ Cut(p) <=> p = a
                 /\ ~Cut(p)' /\ ~Going(p) /\ ~Going(p)'
                 /\ Ahead(p) = 0 /\ Ahead(p)' = 0
                 /\ (\E u \in Threads : Filled(u, p)) => p = a
  <2>1. pc[t] \in Inside /\ pc'[t] \in Inside
    BY <1>1, <1>13 DEF Inside
  <2>2. /\ LockOK' /\ \A u \in Threads : u # t => CallOK(u)'
        /\ \A u \in Threads : u # t => /\ Takes(u)' <=> Takes(u)
                                       /\ \A b : Holds(u, b)' <=> Holds(u, b)
        /\ \A p : /\ Cut(p) <=> pc[t] = "split" /\ call[t].a = p
                  /\ Cut(p)' <=> pc'[t] = "split" /\ call'[t].a = p
                  /\ Going(p) <=> pc[t] \in {"release", "mfree"} /\ call[t].a = p
                  /\ Going(p)' <=> pc'[t] \in {"release", "mfree"} /\ call'[t].a = p
                  /\ Ahead(p) = AheadBy(t, p) /\ Ahead(p)' = AheadBy(t, p)'
                  /\ (\E u \in Threads : Filled(u, p)) => Filled(t, p)
    BY <1>0, <1>1, <1>13, <2>1, InsideStep
  <2>3. \A p : AheadBy(t, p) = 0 /\ AheadBy(t, p)' = 0 /\ (Filled(t, p) => p = a)
    BY <1>1, <1>13 DEF AheadBy, Filled
  <2> QED BY <1>1, <1>13, <2>2, <2>3
<1>16. \A b : ~Holds(t, b) /\ ~Holds(t, b)'
  BY <1>1, <1>13 DEF Holds, GivesBack, Takes
<1>17. \A b : InHand(b)' <=> InHand(b)
  BY <1>15, <1>16 DEF InHand
<1>18. PagesOK' /\ LiveOK' /\ HandOK'
  <2>1. \A b : IsFree(b) => ~IsLive(b) /\ ~InHand(b)
    <3>1. \A b : IsFree(b) => ~IsLive(b)
      BY <1>0 DEF IsLive, LiveOK
    <3>2. \A b : IsFree(b) => b \in Bytes
      BY <1>0, FreeFacts
    <3> QED BY <1>0, <3>1, <3>2 DEF InHand, HandOK
  <2>2. \A b : IsFree(b)' => ~IsLive(b) /\ ~InHand(b)'
    BY <1>6, <1>12, <1>17, <2>1
  <2>3. \A b : InHand(b)' => ~IsLive(b)
    BY <1>0, <1>17 DEF IsLive, LiveOK
  <2> QED BY <1>0, <1>10, <1>13, <1>15, <1>16, <2>2, <2>3, HoldersOK
<1>19. AllHeld'
  <2>1. \A b : IsFree(b) \/ IsLive(b) \/ InHand(b) => IsFree(b)' \/ IsLive(b)' \/ InHand(b)'
    BY <1>1, <1>12, <1>17 DEF IsLive
  <2>2. \A p \in PageSet : Cut(p) \/ Going(p) => \A b \in Blocks(p, head[p].desc) : IsFree(b)'
    BY <1>3, <1>12, <1>15
  <2> QED BY <1>0, <1>10, <1>11, <2>1, <2>2, AllHeldKept
<1>20. CountOK'
  <2>1. \A p \in PageSet : p # a => FreeOf(p)' = FreeOf(p)
    BY <1>3, <1>6, <1>7, <1>8, <1>11
  <2>2. FreeOf(a)' = Blocks(a, d)
    <3>1. FreeOf(a)' = {b \in ToSet(r) : block2arena(b) = a}
      BY <1>3, <1>11
    <3>2. {b \in ToSet(r) : block2arena(b) = a} = Blocks(a, d)
      BY <1>6, <1>8
    <3> QED BY <3>1, <3>2
  <2>3. head'[a].cnt = Cardinality(FreeOf(a)') + Ahead(a)'
    <3>1. Cardinality(Blocks(a, d)) = BlocksPerArena(d) /\ BlocksPerArena(d) \in Nat
      BY BlocksFinite, BlocksPerArenaFacts
    <3>2. head'[a].cnt = BlocksPerArena(d) /\ Ahead(a)' = 0
      BY <1>1, <1>3, <1>15
    <3> QED BY <2>2, <3>1, <3>2
  <2>4. \A p \in PageSet : p # a => /\ head'[p] = head[p]
                                    /\ FreeOf(p)' = FreeOf(p)
                                    /\ Ahead(p)' = Ahead(p)
                                    /\ Cut(p)' <=> Cut(p)
    BY <1>1, <1>15, <2>1
  <2> QED BY <1>0, <2>3, <2>4, CountKept
<1>21. DescFor(call'[t].size) = d /\ free'[d] = r
  BY <1>0, <1>1, <1>2, <1>9 DEF StateOK
<1>22. FullOK'
  <2>1. Filled(t, a)'
    BY <1>6, <1>8, <1>13, <1>21 DEF Filled
  <2> SUFFICES ASSUME NEW p \in PageSet, Small(p)', head'[p].cnt = BlocksPerArena(head'[p].desc)
               PROVE  p = a
    BY <2>1 DEF FullOK
  <2>2. Small(p) /\ head[p].cnt = BlocksPerArena(head[p].desc)
    BY <1>1 DEF Small
  <2> QED BY <1>0, <1>15, <2>2 DEF FullOK
<1>23. CallOK(t)'
  <2>1. r # <<>>
    <3>1. 0 \in 0 .. BlocksPerArena(d) - 1
      BY BlocksPerArenaFacts
    <3>2. arena2block(a, d, 0) \in ToSet(r)
      BY <1>8, <3>1 DEF Blocks
    <3> QED BY <1>7, <3>2
  <2> QED BY <1>1, <1>13, <1>21, <2>1 DEF CallOK, Asked, Fresh
<1> QED BY <1>11, <1>14, <1>15, <1>18, <1>19, <1>20, <1>22, <1>23 DEF IInv

\* A unit is free, with a caller, or in a hand: one of these.
LEMMA OneHolder ==
  ASSUME StateOK, PagesOK, FreeOK, LiveOK, HandOK
  PROVE  /\ \A b : IsFree(b) => ~IsLive(b) /\ ~InHand(b)
         /\ \A b : InHand(b) => ~IsLive(b)
<1>1. \A b : IsFree(b) => ~IsLive(b)
  BY DEF IsLive, LiveOK
<1>2. \A b : InHand(b) => ~IsLive(b)
  BY DEF IsLive, LiveOK
<1>3. \A b : IsFree(b) => b \in Bytes
  BY FreeFacts
<1> QED BY <1>1, <1>2, <1>3 DEF InHand, HandOK

LEMMA PopStep ==
  ASSUME IInv, NEW t \in Threads, Pop(t)
  PROVE  IInv'
<1>0. /\ StateOK /\ LockOK /\ PagesOK /\ FreeOK /\ LiveOK /\ HandOK /\ AllHeld /\ CountOK /\ FullOK
      /\ \A u \in Threads : CallOK(u)
  BY DEF IInv
<1>1. /\ pc[t] = "pop" /\ call[t].b = -1 /\ call[t].i = 0 /\ call[t].size \in 1 .. MaxBlock
      /\ free[DescFor(call[t].size)] # <<>>
      /\ owner' = owner /\ level' = level /\ head' = head /\ used' = used /\ live' = live
  BY <1>0 DEF Pop, At, CallOK, Fresh, Asked, lockVars
<1>2. PICK d \in Descs : d = DescFor(call[t].size)
  BY <1>1, DescForFacts
<1>3. PICK l \in Seq(Bytes) : l = free[d] /\ l # <<>> /\ IsInjective(l)
  BY <1>0, <1>1, <1>2 DEF StateOK, FreeOK, IsInjective
<1>4. PICK r \in Seq(Bytes), h \in Bytes :
        /\ r = Tail(l) /\ h = Head(l) /\ h \in ToSet(l) /\ IsInjective(r)
        /\ \A y : y \in ToSet(r) <=> y \in ToSet(l) /\ y # h
  <2>1. /\ Tail(l) \in Seq(Bytes) /\ Head(l) \in Bytes /\ Head(l) \in ToSet(l) /\ IsInjective(Tail(l))
        /\ \A y : y \in ToSet(Tail(l)) <=> y \in ToSet(l) /\ y # Head(l)
    BY <1>3, PopFacts
  <2> QED BY <2>1
<1>5. /\ free' = [free EXCEPT ![d] = r] /\ pc' = [pc EXCEPT ![t] = "count"] /\ panic' = panic
      /\ call' = [call EXCEPT ![t].b = h, ![t].a = -1]
  BY <1>1, <1>2, <1>3, <1>4 DEF Pop, Goto
<1>6. PICK a \in PageSet : /\ a = block2arena(h) /\ IsUnit(h) /\ IsFree(h) /\ head[a].desc = d
                           /\ h # -1 /\ Small(a) /\ ~Large(a)
  <2>1. IsFree(h) /\ head[block2arena(h)].desc = d
    BY <1>0, <1>3, <1>4 DEF IsFree, FreeOK
  <2> QED BY <1>0, <2>1, FreeFacts, UnitFacts
<1>7. PICK c \in Calls : /\ c = [call[t] EXCEPT !.b = h, !.a = -1]
                         /\ c.size = call[t].size /\ c.b = h /\ c.a = -1 /\ c.i = 0
  <2>1. PICK k \in Calls : k = call[t]
    BY <1>0, CallType
  <2>2. [k EXCEPT !.b = h, !.a = -1] \in Calls
    BY DEF Calls
  <2>3. /\ [k EXCEPT !.b = h, !.a = -1].size = k.size /\ [k EXCEPT !.b = h, !.a = -1].b = h
        /\ [k EXCEPT !.b = h, !.a = -1].a = -1 /\ [k EXCEPT !.b = h, !.a = -1].i = k.i
    BY DEF Calls
  <2> QED BY <1>1, <2>1, <2>2, <2>3
<1>8. call' = [call EXCEPT ![t] = c]
  BY <1>5, <1>7
<1>9. /\ pc' \in [Threads -> Inside \cup {"idle", "lock"}] /\ call' \in [Threads -> Calls]
      /\ pc'[t] = "count" /\ call'[t] = c
      /\ \A u \in Threads : u # t => pc'[u] = pc[u] /\ call'[u] = call[u]
  <2>1. "count" \in Inside \cup {"idle", "lock"}
    BY DEF Inside
  <2> QED BY <1>0, <1>5, <1>8, <2>1, CallSet
<1>10. ArenasStay
  BY <1>1 DEF ArenasStay
<1>11. /\ FreeOK' /\ free' \in [Descs -> Seq(Bytes)]
       /\ \A b : IsFree(b)' <=> b \in ToSet(r) \/ (IsFree(b) /\ b \notin ToSet(free[d]))
       /\ \A b : IsFree(b)' => IsUnit(b) /\ Small(block2arena(b))
       /\ \A p \in PageSet : head[p].desc = d => FreeOf(p)' = {b \in ToSet(r) : block2arena(b) = p}
       /\ \A p \in PageSet :
            (\A b : block2arena(b) = p => (b \in ToSet(r) <=> b \in ToSet(free[d]))) => FreeOf(p)' = FreeOf(p)
  <2>1. \A b \in ToSet(r) : IsUnit(b) /\ head[block2arena(b)].desc = d
    BY <1>0, <1>3, <1>4 DEF FreeOK
  <2> QED BY <1>0, <1>4, <1>5, <1>10, <2>1, ListChange
<1>12. \A b : IsFree(b)' <=> IsFree(b) /\ b # h
  <2>1. \A b \in ToSet(l) : IsFree(b)
    BY <1>3 DEF IsFree
  <2> QED BY <1>3, <1>4, <1>11, <2>1
<1>13. StateOK'
  BY <1>0, <1>1, <1>5, <1>9, <1>11 DEF StateOK
<1>14. /\ LockOK' /\ \A u \in Threads : u # t => CallOK(u)'
       /\ \A u \in Threads : u # t => /\ Takes(u)' <=> Takes(u)
                                      /\ \A b : Holds(u, b)' <=> Holds(u, b)
       /\ \A p : /\ ~Cut(p) /\ ~Cut(p)' /\ ~Going(p) /\ ~Going(p)'
                 /\ Ahead(p) = 0 /\ Ahead(p)' = IF p = a THEN 1 ELSE 0
                 /\ (\E u \in Threads : Filled(u, p)) => Filled(t, p)
  <2>1. pc[t] \in Inside /\ pc'[t] \in Inside
    BY <1>1, <1>9 DEF Inside
  <2>2. /\ LockOK' /\ \A u \in Threads : u # t => CallOK(u)'
        /\ \A u \in Threads : u # t => /\ Takes(u)' <=> Takes(u)
                                       /\ \A b : Holds(u, b)' <=> Holds(u, b)
        /\ \A p : /\ Cut(p) <=> pc[t] = "split" /\ call[t].a = p
                  /\ Cut(p)' <=> pc'[t] = "split" /\ call'[t].a = p
                  /\ Going(p) <=> pc[t] \in {"release", "mfree"} /\ call[t].a = p
                  /\ Going(p)' <=> pc'[t] \in {"release", "mfree"} /\ call'[t].a = p
                  /\ Ahead(p) = AheadBy(t, p) /\ Ahead(p)' = AheadBy(t, p)'
                  /\ (\E u \in Threads : Filled(u, p)) => Filled(t, p)
    BY <1>0, <1>1, <1>9, <2>1, InsideStep
  <2>3. \A p : AheadBy(t, p) = 0 /\ AheadBy(t, p)' = IF p = a THEN 1 ELSE 0
    BY <1>1, <1>6, <1>7, <1>9 DEF AheadBy
  <2> QED BY <1>1, <1>9, <2>2, <2>3
<1>15. /\ \A b : ~Holds(t, b)
       /\ Takes(t)' /\ \A b : Holds(t, b)' <=> b = h
  <2>1. call[t].size > 0
    BY <1>1, Constants
  <2> QED BY <1>1, <1>6, <1>7, <1>9, <2>1 DEF Holds, GivesBack, Takes
<1>16. \A b : InHand(b)' <=> InHand(b) \/ b = h
  BY <1>14, <1>15 DEF InHand
<1>17. /\ \A b : IsFree(b) => ~IsLive(b) /\ ~InHand(b)
       /\ \A b : InHand(b) => ~IsLive(b)
  BY <1>0, OneHolder
<1>18. PagesOK' /\ LiveOK' /\ HandOK'
  <2>1. \A b : IsFree(b)' => ~IsLive(b) /\ ~InHand(b)'
    BY <1>12, <1>16, <1>17
  <2>2. \A b : InHand(b)' => ~IsLive(b)
    BY <1>6, <1>16, <1>17
  <2>3. \A b \in Bytes \cup {-1} : Holds(t, b)' =>
          /\ IsUnit(b) /\ \A u \in Threads : u # t => ~Holds(u, b)
          /\ \A size \in Sizes : (Takes(t) /\ call[t].size = size)' => Fits(b, size)
    <3>1. \A u \in Threads : ~Holds(u, h)
      BY <1>6, <1>17 DEF InHand
    <3>2. call'[t].size <= BlockSize(d)
      BY <1>1, <1>2, <1>7, <1>9, DescForFacts
    <3>3. Fits(h, call[t].size)
      BY <1>6, <1>7, <1>9, <3>2 DEF Fits
    <3> QED BY <1>6, <1>7, <1>9, <1>15, <3>1, <3>3
  <2> QED BY <1>0, <1>9, <1>10, <1>14, <2>1, <2>2, <2>3, HoldersOK
<1>19. AllHeld'
  <2>1. \A b : IsFree(b) \/ IsLive(b) \/ InHand(b) => IsFree(b)' \/ IsLive(b)' \/ InHand(b)'
    BY <1>1, <1>12, <1>16 DEF IsLive
  <2> QED BY <1>0, <1>10, <1>11, <1>14, <2>1, AllHeldKept
<1>20. CountOK'
  <2>1. \A p \in PageSet : p # a => FreeOf(p)' = FreeOf(p)
    BY <1>3, <1>4, <1>6, <1>11
  <2>2. FreeOf(a)' = FreeOf(a) \ {h} /\ h \in FreeOf(a)
    <3>1. FreeOf(a)' = {b \in ToSet(r) : block2arena(b) = a}
      BY <1>6, <1>11
    <3>2. FreeOf(a) = {b \in ToSet(l) : block2arena(b) = a}
      BY <1>3, <1>6 DEF FreeOf
    <3> QED BY <1>4, <1>6, <3>1, <3>2
  <2>3. IsFiniteSet(FreeOf(a)) /\ Cardinality(FreeOf(a)) \in Nat
    BY <1>0, <1>6, FreeOfFacts, FS_CardinalityType
  <2>4. Cardinality(FreeOf(a)') = Cardinality(FreeOf(a)) - 1
    BY <2>2, <2>3, FS_RemoveElement
  <2>5. head'[a].cnt = Cardinality(FreeOf(a)') + Ahead(a)'
    <3>1. head[a].cnt = Cardinality(FreeOf(a)) + 0
      BY <1>0, <1>6, <1>14 DEF CountOK
    <3>2. Ahead(a)' = 1 /\ head' = head
      BY <1>1, <1>14
    <3> QED BY <2>3, <2>4, <3>1, <3>2
  <2>6. \A p \in PageSet : p # a => /\ head'[p] = head[p]
                                    /\ FreeOf(p)' = FreeOf(p)
                                    /\ Ahead(p)' = Ahead(p)
                                    /\ Cut(p)' <=> Cut(p)
    BY <1>1, <1>14, <2>1
  <2> QED BY <1>0, <2>5, <2>6, CountKept
<1>21. FullOK'
  <2> SUFFICES ASSUME NEW p \in PageSet, Small(p)', head'[p].cnt = BlocksPerArena(head'[p].desc)
               PROVE  Filled(t, p)'
    BY DEF FullOK
  <2>1. Small(p) /\ head[p].cnt = BlocksPerArena(head[p].desc)
    BY <1>1 DEF Small
  <2>2. Filled(t, p)
    BY <1>0, <1>14, <2>1 DEF FullOK
  <2>3. block2arena(h) = p
    BY <1>1, <1>2, <1>3, <1>4, <2>2 DEF Filled
  <2> QED BY <1>7, <1>9, <2>3 DEF Filled
<1>22. CallOK(t)'
  <2>1. DescFor(call'[t].size) = d /\ head'[block2arena(call'[t].b)].desc = d
    BY <1>1, <1>2, <1>6, <1>7, <1>9
  <2> QED BY <1>1, <1>7, <1>9, <1>15, <2>1 DEF CallOK, Asked
<1> QED BY <1>11, <1>13, <1>14, <1>18, <1>19, <1>20, <1>21, <1>22 DEF IInv

\* The count of an arena changes, and nothing else in the heap.
LEMMA CountSet ==
  ASSUME StateOK, PagesOK, FreeOK, NEW a \in PageSet, Small(a), NEW n \in Nat,
         head' = [head EXCEPT ![a].cnt = n], used' = used, live' = live, free' = free
  PROVE  /\ ArenasStay /\ FreeOK'
         /\ head' \in [PageSet -> [desc : Descs \cup {NoDesc}, cnt : Nat, large : BOOLEAN]]
         /\ head'[a].cnt = n /\ head'[a].desc = head[a].desc
         /\ \A p \in PageSet : p # a => head'[p] = head[p]
         /\ \A p \in PageSet : FreeOf(p)' = FreeOf(p)
         /\ \A b : IsFree(b)' <=> IsFree(b)
<1>1. PICK k \in [desc : Descs \cup {NoDesc}, cnt : Nat, large : BOOLEAN] : k = head[a]
  BY HeadFacts
<1>2. PICK m \in [desc : Descs \cup {NoDesc}, cnt : Nat, large : BOOLEAN] :
        m = [k EXCEPT !.cnt = n] /\ m.cnt = n /\ m.desc = k.desc /\ m.large = k.large
  <2>1. [k EXCEPT !.cnt = n] \in [desc : Descs \cup {NoDesc}, cnt : Nat, large : BOOLEAN]
    OBVIOUS
  <2>2. /\ [k EXCEPT !.cnt = n].cnt = n /\ [k EXCEPT !.cnt = n].desc = k.desc
        /\ [k EXCEPT !.cnt = n].large = k.large
    OBVIOUS
  <2> QED BY <2>1, <2>2
<1>3. head' = [head EXCEPT ![a] = m]
  BY <1>1, <1>2
<1>4. /\ head' \in [PageSet -> [desc : Descs \cup {NoDesc}, cnt : Nat, large : BOOLEAN]]
      /\ head'[a] = m /\ \A p \in PageSet : p # a => head'[p] = head[p]
  <2>1. head \in [PageSet -> [desc : Descs \cup {NoDesc}, cnt : Nat, large : BOOLEAN]]
    BY DEF StateOK
  <2>2. head'[a] = m /\ \A p \in PageSet : p # a => head'[p] = head[p]
    BY <1>3, <2>1
  <2>3. head' \in [PageSet -> [desc : Descs \cup {NoDesc}, cnt : Nat, large : BOOLEAN]]
    BY <1>3, <2>1
  <2> QED BY <2>2, <2>3
<1>5. ArenasStay
  BY <1>1, <1>2, <1>4 DEF ArenasStay
<1>6. \A p \in PageSet : head'[p].desc = head[p].desc
  BY <1>1, <1>2, <1>4
<1>7. \A p \in PageSet : FreeOf(p)' = FreeOf(p)
  BY <1>6 DEF FreeOf
<1>8. FreeOK'
  <2>1. \A b : IsUnit(b)' <=> IsUnit(b)
    BY <1>5, SameUnits
  <2>2. \A b : IsUnit(b) => block2arena(b) \in PageSet
    BY DEF IsUnit
  <2> QED BY <1>6, <2>1, <2>2 DEF FreeOK
<1> QED BY <1>1, <1>2, <1>4, <1>5, <1>7, <1>8 DEF IsFree

LEMMA CountDownStep ==
  ASSUME IInv, NEW t \in Threads, CountDown(t)
  PROVE  IInv'
<1>0. /\ StateOK /\ LockOK /\ PagesOK /\ FreeOK /\ LiveOK /\ HandOK /\ AllHeld /\ CountOK /\ FullOK
      /\ \A u \in Threads : CallOK(u)
  BY DEF IInv
<1>1. /\ pc[t] = "count" /\ Takes(t) /\ call[t].i = 0
      /\ pc' = [pc EXCEPT ![t] = "unlock"] /\ call' = call
      /\ owner' = owner /\ level' = level /\ free' = free /\ used' = used /\ live' = live /\ panic' = panic
  BY <1>0 DEF CountDown, At, Goto, CallOK, lockVars
<1>2. PICK b \in Bytes : b = call[t].b /\ Holds(t, b) /\ IsUnit(b) /\ ~IsFree(b)
  <2>1. call[t].b \in Bytes /\ Holds(t, call[t].b)
    BY <1>0, <1>1, CallType DEF Holds, Takes
  <2>2. PICK b \in Bytes : b = call[t].b
    BY <2>1
  <2> QED BY <1>0, <2>1, <2>2 DEF HandOK
<1>3. PICK a \in PageSet : a = block2arena(b) /\ Small(a) /\ ~Large(a) /\ b \in Blocks(a, head[a].desc)
  <2>1. Small(block2arena(b))
    <3>1. head[block2arena(b)].desc = DescFor(call[t].size) /\ Asked(t)
      BY <1>0, <1>1, <1>2 DEF CallOK
    <3>2. DescFor(call[t].size) # NoDesc
      BY <3>1, DescForFacts, Constants DEF Asked, NoDesc
    <3> QED BY <3>1, <3>2 DEF Small
  <2> QED BY <1>0, <1>2, <2>1, UnitFacts
<1>4. /\ pc' \in [Threads -> Inside \cup {"idle", "lock"}] /\ pc'[t] = "unlock"
      /\ \A u \in Threads : u # t => pc'[u] = pc[u] /\ call'[u] = call[u]
  BY <1>0, <1>1 DEF StateOK, Inside
<1>5. /\ LockOK' /\ \A u \in Threads : u # t => CallOK(u)'
      /\ \A u \in Threads : u # t => /\ Takes(u)' <=> Takes(u)
                                     /\ \A x : Holds(u, x)' <=> Holds(u, x)
      /\ \A p : /\ ~Cut(p) /\ ~Cut(p)' /\ ~Going(p) /\ ~Going(p)'
                /\ Ahead(p) = (IF p = a THEN 1 ELSE 0) /\ Ahead(p)' = 0
                /\ (\E u \in Threads : Filled(u, p)) => p = a
  <2>1. pc[t] \in Inside /\ pc'[t] \in Inside
    BY <1>1, <1>4 DEF Inside
  <2>2. /\ LockOK' /\ \A u \in Threads : u # t => CallOK(u)'
        /\ \A u \in Threads : u # t => /\ Takes(u)' <=> Takes(u)
                                       /\ \A x : Holds(u, x)' <=> Holds(u, x)
        /\ \A p : /\ Cut(p) <=> pc[t] = "split" /\ call[t].a = p
                  /\ Cut(p)' <=> pc'[t] = "split" /\ call'[t].a = p
                  /\ Going(p) <=> pc[t] \in {"release", "mfree"} /\ call[t].a = p
                  /\ Going(p)' <=> pc'[t] \in {"release", "mfree"} /\ call'[t].a = p
                  /\ Ahead(p) = AheadBy(t, p) /\ Ahead(p)' = AheadBy(t, p)'
                  /\ (\E u \in Threads : Filled(u, p)) => Filled(t, p)
    BY <1>0, <1>1, <1>4, <2>1, InsideStep
  <2>3. \A p : /\ AheadBy(t, p) = (IF p = a THEN 1 ELSE 0)
               /\ AheadBy(t, p)' = 0
               /\ Filled(t, p) => p = a
    BY <1>1, <1>2, <1>3, <1>4 DEF AheadBy, Filled
  <2> QED BY <1>1, <1>4, <2>2, <2>3
<1>6. PICK n \in Nat : n = Cardinality(FreeOf(a)) /\ head[a].cnt = n + 1
  <2>1. IsFiniteSet(FreeOf(a)) /\ Cardinality(FreeOf(a)) \in Nat
    BY <1>0, <1>3, FreeOfFacts, FS_CardinalityType
  <2> QED BY <1>0, <1>3, <1>5, <2>1 DEF CountOK
<1>7. head' = [head EXCEPT ![a].cnt = n]
  <2>1. head' = [head EXCEPT ![a].cnt = head[a].cnt - 1]
    BY <1>2, <1>3 DEF CountDown
  <2>2. head[a].cnt - 1 = n
    BY <1>6
  <2> QED BY <2>1, <2>2
<1>8. /\ ArenasStay /\ FreeOK'
      /\ head' \in [PageSet -> [desc : Descs \cup {NoDesc}, cnt : Nat, large : BOOLEAN]]
      /\ head'[a].cnt = n /\ head'[a].desc = head[a].desc
      /\ \A p \in PageSet : p # a => head'[p] = head[p]
      /\ \A p \in PageSet : FreeOf(p)' = FreeOf(p)
      /\ \A x : IsFree(x)' <=> IsFree(x)
  BY <1>0, <1>1, <1>3, <1>7, CountSet
<1>9. StateOK'
  BY <1>0, <1>1, <1>4, <1>8 DEF StateOK
<1>10. /\ Takes(t)' /\ \A x : Holds(t, x)' <=> Holds(t, x)
       /\ \A x : InHand(x)' <=> InHand(x)
  <2>1. Takes(t)' /\ \A x : Holds(t, x)' <=> Holds(t, x)
    BY <1>1, <1>4 DEF Holds, GivesBack, Takes
  <2> QED BY <1>5, <2>1 DEF InHand
<1>11. PagesOK' /\ LiveOK' /\ HandOK'
  <2>1. /\ \A x : IsFree(x)' => ~IsLive(x) /\ ~InHand(x)'
        /\ \A x : InHand(x)' => ~IsLive(x)
    BY <1>0, <1>8, <1>10, OneHolder
  <2>2. \A x \in Bytes \cup {-1} : Holds(t, x)' =>
          /\ IsUnit(x) /\ \A u \in Threads : u # t => ~Holds(u, x)
          /\ \A size \in Sizes : (Takes(t) /\ call[t].size = size)' => Fits(x, size)
    BY <1>0, <1>1, <1>10 DEF HandOK
  <2> QED BY <1>0, <1>4, <1>5, <1>8, <2>1, <2>2, HoldersOK
<1>12. AllHeld'
  <2>1. \A x : IsFree(x) \/ IsLive(x) \/ InHand(x) => IsFree(x)' \/ IsLive(x)' \/ InHand(x)'
    BY <1>1, <1>8, <1>10 DEF IsLive
  <2>2. \A x : IsFree(x)' => Small(block2arena(x))
    BY <1>0, <1>8, FreeFacts
  <2> QED BY <1>0, <1>5, <1>8, <2>1, <2>2, AllHeldKept
<1>13. CountOK'
  <2>1. head'[a].cnt = Cardinality(FreeOf(a)') + Ahead(a)'
    BY <1>5, <1>6, <1>8
  <2>2. \A p \in PageSet : p # a => /\ head'[p] = head[p]
                                    /\ FreeOf(p)' = FreeOf(p)
                                    /\ Ahead(p)' = Ahead(p)
                                    /\ Cut(p)' <=> Cut(p)
    BY <1>5, <1>8
  <2> QED BY <1>0, <2>1, <2>2, CountKept
<1>14. FullOK'
  <2> SUFFICES ASSUME NEW p \in PageSet, Small(p)', head'[p].cnt = BlocksPerArena(head'[p].desc)
               PROVE  FALSE
    BY DEF FullOK
  <2>1. CASE p = a
    <3>1. n = BlocksPerArena(head[a].desc)
      BY <1>8, <2>1
    <3>2. b \in FreeOf(a)
      BY <1>0, <1>3, <1>6, <3>1, FreeOfFacts
    <3>3. IsFree(b)
      BY <1>0, <1>3, <3>2, FreeOfFacts
    <3> QED BY <1>2, <3>3
  <2>2. CASE p # a
    <3>1. Small(p) /\ head[p].cnt = BlocksPerArena(head[p].desc)
      BY <1>8, <2>2 DEF Small
    <3> QED BY <1>0, <1>5, <2>2, <3>1 DEF FullOK
  <2> QED BY <2>1, <2>2
<1>15. CallOK(t)'
  BY <1>4, <1>10 DEF CallOK
<1> QED BY <1>5, <1>8, <1>9, <1>11, <1>12, <1>13, <1>14, <1>15 DEF IInv

LEMMA CountUpStep ==
  ASSUME IInv, NEW t \in Threads, CountUp(t)
  PROVE  IInv'
<1>0. /\ StateOK /\ LockOK /\ PagesOK /\ FreeOK /\ LiveOK /\ HandOK /\ AllHeld /\ CountOK /\ FullOK
      /\ \A u \in Threads : CallOK(u)
  BY DEF IInv
<1>1. /\ pc[t] = "recount" /\ call[t].size = 0 /\ call[t].i = 0 /\ call[t].a = block2arena(call[t].b)
      /\ IsUnit(call[t].b) /\ IsFree(call[t].b)
      /\ call' = call
      /\ owner' = owner /\ level' = level /\ free' = free /\ used' = used /\ live' = live /\ panic' = panic
  <2>1. call[t].b \in Bytes \cup {-1}
    BY <1>0, CallType
  <2> QED BY <1>0, <2>1 DEF CountUp, At, CallOK, lockVars
<1>2. PICK a \in PageSet : a = call[t].a /\ a = block2arena(call[t].b)
                           /\ Small(a) /\ ~Large(a) /\ head[a].desc \in Descs
  BY <1>0, <1>1, FreeFacts
<1>3. PICK d \in Descs : d = head[a].desc
  BY <1>2
<1>4. Ahead(a) = -1 /\ ~Cut(a)
  <2>1. pc[t] \in Inside
    BY <1>1 DEF Inside
  <2>2. owner["pool"] = t /\ \A u \in Threads : u # t => pc[u] \notin Inside
    BY <1>0, <2>1, Alone
  <2>3. t # NoThread
    BY Constants
  <2> QED BY <1>1, <1>2, <2>2, <2>3 DEF Ahead, AheadBy, Cut, Inside
<1>5. PICK n \in Nat : n = Cardinality(FreeOf(a)) /\ n = head[a].cnt + 1
  <2>1. IsFiniteSet(FreeOf(a)) /\ Cardinality(FreeOf(a)) \in Nat
    BY <1>0, <1>2, FreeOfFacts, FS_CardinalityType
  <2>2. head[a].cnt = Cardinality(FreeOf(a)) + -1
    BY <1>0, <1>2, <1>4 DEF CountOK
  <2>3. head[a].cnt + 1 = Cardinality(FreeOf(a))
    BY <2>1, <2>2
  <2> QED BY <2>1, <2>3
<1>6. PICK q \in {"release", "unlock"} :
        pc' = [pc EXCEPT ![t] = q] /\ (q = "release" <=> n = BlocksPerArena(d))
  BY <1>2, <1>3, <1>5 DEF CountUp, Goto
<1>7. head' = [head EXCEPT ![a].cnt = n]
  <2>1. head' = [head EXCEPT ![a].cnt = head[a].cnt + 1]
    BY <1>2 DEF CountUp
  <2> QED BY <1>5, <2>1
<1>8. /\ ArenasStay /\ FreeOK'
      /\ head' \in [PageSet -> [desc : Descs \cup {NoDesc}, cnt : Nat, large : BOOLEAN]]
      /\ head'[a].cnt = n /\ head'[a].desc = head[a].desc
      /\ \A p \in PageSet : p # a => head'[p] = head[p]
      /\ \A p \in PageSet : FreeOf(p)' = FreeOf(p)
      /\ \A x : IsFree(x)' <=> IsFree(x)
  BY <1>0, <1>1, <1>2, <1>7, CountSet
<1>9. /\ pc' \in [Threads -> Inside \cup {"idle", "lock"}] /\ pc'[t] = q
      /\ \A u \in Threads : u # t => pc'[u] = pc[u] /\ call'[u] = call[u]
  BY <1>0, <1>1, <1>6 DEF StateOK, Inside
<1>10. StateOK'
  BY <1>0, <1>1, <1>8, <1>9 DEF StateOK
<1>11. /\ LockOK' /\ \A u \in Threads : u # t => CallOK(u)'
       /\ \A u \in Threads : u # t => /\ Takes(u)' <=> Takes(u)
                                      /\ \A x : Holds(u, x)' <=> Holds(u, x)
       /\ \A p : /\ ~Cut(p) /\ ~Cut(p)' /\ ~Going(p)
                 /\ Ahead(p) = (IF p = a THEN -1 ELSE 0) /\ Ahead(p)' = 0
                 /\ ~ \E u \in Threads : Filled(u, p)
  <2>1. pc[t] \in Inside /\ pc'[t] \in Inside
    BY <1>1, <1>6, <1>9 DEF Inside
  <2>2. /\ LockOK' /\ \A u \in Threads : u # t => CallOK(u)'
        /\ \A u \in Threads : u # t => /\ Takes(u)' <=> Takes(u)
                                       /\ \A x : Holds(u, x)' <=> Holds(u, x)
        /\ \A p : /\ Cut(p) <=> pc[t] = "split" /\ call[t].a = p
                  /\ Cut(p)' <=> pc'[t] = "split" /\ call'[t].a = p
                  /\ Going(p) <=> pc[t] \in {"release", "mfree"} /\ call[t].a = p
                  /\ Going(p)' <=> pc'[t] \in {"release", "mfree"} /\ call'[t].a = p
                  /\ Ahead(p) = AheadBy(t, p) /\ Ahead(p)' = AheadBy(t, p)'
                  /\ (\E u \in Threads : Filled(u, p)) => Filled(t, p)
    BY <1>0, <1>1, <1>9, <2>1, InsideStep
  <2>3. \A p : /\ AheadBy(t, p) = (IF p = a THEN -1 ELSE 0)
               /\ AheadBy(t, p)' = 0
               /\ ~Filled(t, p)
    BY <1>1, <1>2, <1>6, <1>9 DEF AheadBy, Filled
  <2> QED BY <1>1, <1>6, <1>9, <2>2, <2>3
<1>12. /\ \A x : ~Holds(t, x) /\ ~Holds(t, x)'
       /\ \A x : InHand(x)' <=> InHand(x)
  <2>1. \A x : ~Holds(t, x) /\ ~Holds(t, x)'
    BY <1>1, <1>6, <1>9 DEF Holds, GivesBack, Takes
  <2> QED BY <1>11, <2>1 DEF InHand
<1>13. PagesOK' /\ LiveOK' /\ HandOK'
  <2>1. /\ \A x : IsFree(x)' => ~IsLive(x) /\ ~InHand(x)'
        /\ \A x : InHand(x)' => ~IsLive(x)
    BY <1>0, <1>8, <1>12, OneHolder
  <2> QED BY <1>0, <1>8, <1>9, <1>11, <1>12, <2>1, HoldersOK
<1>14. AllHeld'
  <2>1. \A x : IsFree(x) \/ IsLive(x) \/ InHand(x) => IsFree(x)' \/ IsLive(x)' \/ InHand(x)'
    BY <1>1, <1>8, <1>12 DEF IsLive
  <2>2. \A x : IsFree(x)' => Small(block2arena(x))
    BY <1>0, <1>8, FreeFacts
  <2> QED BY <1>0, <1>8, <1>11, <2>1, <2>2, AllHeldKept
<1>15. CountOK'
  <2>1. head'[a].cnt = Cardinality(FreeOf(a)') + Ahead(a)'
    <3>1. Cardinality(FreeOf(a)') = n
      BY <1>5, <1>8
    <3>2. Ahead(a)' = 0 /\ head'[a].cnt = n
      BY <1>8, <1>11
    <3>3. n = n + 0
      OBVIOUS
    <3> QED BY <3>1, <3>2, <3>3
  <2>2. \A p \in PageSet : p # a => /\ head'[p] = head[p]
                                    /\ FreeOf(p)' = FreeOf(p)
                                    /\ Ahead(p)' = Ahead(p)
                                    /\ Cut(p)' <=> Cut(p)
    BY <1>8, <1>11
  <2> QED BY <1>0, <2>1, <2>2, CountKept
<1>16. FullOK'
  <2> SUFFICES ASSUME NEW p \in PageSet, Small(p)', head'[p].cnt = BlocksPerArena(head'[p].desc)
               PROVE  Filled(t, p)'
    BY DEF FullOK
  <2>1. CASE p = a
    <3>1. q = "release"
      BY <1>3, <1>6, <1>8, <2>1
    <3> QED BY <1>1, <1>2, <1>9, <2>1, <3>1 DEF Filled
  <2>2. CASE p # a
    <3>1. Small(p) /\ head[p].cnt = BlocksPerArena(head[p].desc)
      BY <1>8, <2>2 DEF Small
    <3> QED BY <1>0, <1>11, <3>1 DEF FullOK
  <2> QED BY <2>1, <2>2
<1>17. CallOK(t)'
  <2>1. CASE q = "unlock"
    BY <1>1, <1>9, <2>1 DEF CallOK
  <2>2. CASE q = "release"
    <3>1. Blocks(a, d) = FreeOf(a)
      BY <1>0, <1>2, <1>3, <1>5, <1>6, <2>2, FreeOfFacts
    <3>2. \A k \in 0 .. BlocksPerArena(d) - 1 :
            LET b == arena2block(a, d, k) IN ~IsLive(b)' /\ ~InHand(b)' /\ IsFree(b)'
      <4> SUFFICES ASSUME NEW k \in 0 .. BlocksPerArena(d) - 1, NEW b, b = arena2block(a, d, k)
                   PROVE  ~IsLive(b)' /\ ~InHand(b)' /\ IsFree(b)'
        OBVIOUS
      <4>1. b \in FreeOf(a)
        BY <3>1 DEF Blocks
      <4>2. IsFree(b)
        BY <1>0, <1>2, <4>1, FreeOfFacts
      <4>3. ~IsLive(b) /\ ~InHand(b)
        BY <1>0, <4>2, OneHolder
      <4> QED BY <1>1, <1>8, <1>12, <4>2, <4>3 DEF IsLive
    <3>3. Small(a)' /\ head'[a].desc = d /\ 0 < BlocksPerArena(d)
      BY <1>2, <1>3, <1>8, BlocksPerArenaFacts DEF Small
    <3>4. \A k \in 0 .. BlocksPerArena(d) - 1 : k >= 0
      BY BlocksPerArenaFacts
    <3> QED BY <1>1, <1>2, <1>9, <2>2, <3>2, <3>3, <3>4 DEF CallOK
  <2> QED BY <2>1, <2>2
<1> QED BY <1>8, <1>10, <1>11, <1>13, <1>14, <1>15, <1>16, <1>17 DEF IInv

LEMMA UnlinkStep ==
  ASSUME IInv, NEW t \in Threads, Unlink(t)
  PROVE  IInv'
<1>0. /\ StateOK /\ LockOK /\ PagesOK /\ FreeOK /\ LiveOK /\ HandOK /\ AllHeld /\ CountOK /\ FullOK
      /\ \A u \in Threads : CallOK(u)
  BY DEF IInv
<1>1. /\ pc[t] = "release" /\ call[t].size = 0 /\ call[t].a \in PageSet /\ Small(call[t].a)
      /\ owner' = owner /\ level' = level /\ head' = head /\ used' = used /\ live' = live
  BY <1>0 DEF Unlink, At, CallOK, lockVars
<1>2. PICK a \in PageSet : a = call[t].a /\ Small(a) /\ ~Large(a) /\ head[a].desc \in Descs
  BY <1>0, <1>1, HeadFacts
<1>3. PICK d \in Descs : d = head[a].desc
  BY <1>2
<1>4. PICK n \in 1 .. PageSize : n = BlocksPerArena(d)
  BY BlocksPerArenaFacts
<1>5. \A k \in 0 .. n - 1 :
        /\ ~IsLive(arena2block(a, d, k)) /\ ~InHand(arena2block(a, d, k))
        /\ IsFree(arena2block(a, d, k)) <=> k >= call[t].i
  <2>1. CallOK(t)
    BY <1>0
  <2>2. \A k \in 0 .. BlocksPerArena(d) - 1 :
          LET b == arena2block(a, d, k) IN ~IsLive(b) /\ ~InHand(b) /\ (IsFree(b) <=> k >= call[t].i)
    BY <1>1, <1>2, <1>3, <2>1 DEF CallOK
  <2> QED BY <1>4, <2>2
<1>6. PICK i \in 0 .. n - 1 : i = call[t].i
  <2>1. call[t].i < n
    BY <1>0, <1>1, <1>2, <1>3, <1>4 DEF CallOK
  <2>2. call[t].i \in 0 .. PageSize /\ PageSize \in Nat
    BY <1>0, CallType, Constants
  <2>3. call[t].i \in 0 .. n - 1
    BY <2>1, <2>2
  <2> QED BY <2>3
<1>7. PICK b \in Bytes : /\ b = arena2block(a, d, i) /\ block2arena(b) = a
                         /\ IsFree(b) /\ ~IsLive(b) /\ ~InHand(b)
  <2>1. i >= i
    OBVIOUS
  <2> QED BY <1>4, <1>5, <1>6, <2>1, BlockFacts
<1>8. PICK l \in Seq(Bytes) : l = free[d] /\ IsInjective(l) /\ b \in ToSet(l)
  <2>1. b \in ToSet(free[d])
    BY <1>0, <1>3, <1>7, FreeFacts
  <2> QED BY <1>0, <2>1 DEF StateOK, FreeOK, IsInjective
<1>9. PICK r \in Seq(Bytes) : /\ r = Unlinked(l, b) /\ IsInjective(r)
                              /\ \A y : y \in ToSet(r) <=> y \in ToSet(l) /\ y # b
  <2> DEFINE j == CHOOSE j \in DOMAIN l : l[j] = b
  <2>1. \E x \in DOMAIN l : l[x] = b
    BY <1>8 DEF ToSet
  <2>2. j \in DOMAIN l /\ l[j] = b
    BY <2>1
  <2>3. Unlinked(l, b) = RemoveAt(l, j)
    BY DEF Unlinked
  <2> HIDE DEF j
  <2>4. /\ RemoveAt(l, j) \in Seq(Bytes) /\ IsInjective(RemoveAt(l, j))
        /\ \A y : y \in ToSet(RemoveAt(l, j)) <=> y \in ToSet(l) /\ y # l[j]
    BY <1>8, <2>2, RemoveAtFacts
  <2> QED BY <2>2, <2>3, <2>4
<1>10. PICK c \in Calls : /\ c = [call[t] EXCEPT !.i = i + 1]
                          /\ c.size = 0 /\ c.b = call[t].b /\ c.a = a /\ c.i = i + 1
  <2>1. PICK k \in Calls : k = call[t]
    BY <1>0, CallType
  <2>2. i + 1 \in 0 .. PageSize
    BY Constants
  <2>3. [k EXCEPT !.i = i + 1] \in Calls
    BY <2>2 DEF Calls
  <2>4. /\ [k EXCEPT !.i = i + 1].size = k.size /\ [k EXCEPT !.i = i + 1].b = k.b
        /\ [k EXCEPT !.i = i + 1].a = k.a /\ [k EXCEPT !.i = i + 1].i = i + 1
    BY DEF Calls
  <2> QED BY <1>1, <1>2, <2>1, <2>3, <2>4
<1>11. /\ free' = [free EXCEPT ![d] = r] /\ panic' = panic
       /\ call' = [call EXCEPT ![t] = c]
       /\ IF i + 1 = n THEN pc' = [pc EXCEPT ![t] = "mfree"] ELSE pc' = pc
  <2>1. arena2block(call[t].a, head[call[t].a].desc, call[t].i) = b
    BY <1>2, <1>3, <1>6, <1>7
  <2>2. b \in ToSet(free[head[call[t].a].desc])
    BY <1>2, <1>3, <1>8
  <2>3. /\ free' = [free EXCEPT ![d] = Unlinked(free[d], b)] /\ panic' = panic
        /\ call' = [call EXCEPT ![t].i = call[t].i + 1]
        /\ IF call[t].i + 1 = BlocksPerArena(d) THEN Goto(t, "mfree") ELSE pc' = pc
    BY <1>2, <1>3, <2>1, <2>2 DEF Unlink
  <2> QED BY <1>4, <1>6, <1>8, <1>9, <1>10, <2>3 DEF Goto
<1>12. PICK q \in {"release", "mfree"} : pc' = [pc EXCEPT ![t] = q] /\ (q = "mfree" <=> i + 1 = n)
  BY <1>0, <1>1, <1>11 DEF StateOK
<1>13. /\ pc' \in [Threads -> Inside \cup {"idle", "lock"}] /\ call' \in [Threads -> Calls]
       /\ pc'[t] = q /\ call'[t] = c
       /\ \A u \in Threads : u # t => pc'[u] = pc[u] /\ call'[u] = call[u]
  <2>1. q \in Inside \cup {"idle", "lock"}
    BY DEF Inside
  <2> QED BY <1>0, <1>11, <1>12, <2>1, CallSet
<1>14. ArenasStay
  BY <1>1 DEF ArenasStay
<1>15. /\ FreeOK' /\ free' \in [Descs -> Seq(Bytes)]
       /\ \A x : IsFree(x)' <=> x \in ToSet(r) \/ (IsFree(x) /\ x \notin ToSet(free[d]))
       /\ \A x : IsFree(x)' => IsUnit(x) /\ Small(block2arena(x))
       /\ \A p \in PageSet : head[p].desc = d => FreeOf(p)' = {x \in ToSet(r) : block2arena(x) = p}
       /\ \A p \in PageSet :
            (\A x : block2arena(x) = p => (x \in ToSet(r) <=> x \in ToSet(free[d]))) => FreeOf(p)' = FreeOf(p)
  <2>1. \A x \in ToSet(r) : IsUnit(x) /\ head[block2arena(x)].desc = d
    BY <1>0, <1>8, <1>9 DEF FreeOK
  <2> QED BY <1>0, <1>9, <1>11, <1>14, <2>1, ListChange
<1>16. \A x : IsFree(x)' <=> IsFree(x) /\ x # b
  <2>1. \A x \in ToSet(l) : IsFree(x)
    BY <1>8 DEF IsFree
  <2> QED BY <1>8, <1>9, <1>15, <2>1
<1>17. StateOK'
  BY <1>0, <1>1, <1>11, <1>13, <1>15 DEF StateOK
<1>18. /\ LockOK' /\ \A u \in Threads : u # t => CallOK(u)'
       /\ \A u \in Threads : u # t => /\ Takes(u)' <=> Takes(u)
                                      /\ \A x : Holds(u, x)' <=> Holds(u, x)
       /\ \A p : /\ ~Cut(p) /\ ~Cut(p)'
                 /\ Going(p) <=> p = a
                 /\ Going(p)' <=> p = a
                 /\ Ahead(p) = (IF p = a THEN i ELSE 0)
                 /\ Ahead(p)' = (IF p = a THEN i + 1 ELSE 0)
                 /\ (\E u \in Threads : Filled(u, p)) => p = a
  <2>1. pc[t] \in Inside /\ pc'[t] \in Inside
    BY <1>1, <1>13 DEF Inside
  <2>2. /\ LockOK' /\ \A u \in Threads : u # t => CallOK(u)'
        /\ \A u \in Threads : u # t => /\ Takes(u)' <=> Takes(u)
                                       /\ \A x : Holds(u, x)' <=> Holds(u, x)
        /\ \A p : /\ Cut(p) <=> pc[t] = "split" /\ call[t].a = p
                  /\ Cut(p)' <=> pc'[t] = "split" /\ call'[t].a = p
                  /\ Going(p) <=> pc[t] \in {"release", "mfree"} /\ call[t].a = p
                  /\ Going(p)' <=> pc'[t] \in {"release", "mfree"} /\ call'[t].a = p
                  /\ Ahead(p) = AheadBy(t, p) /\ Ahead(p)' = AheadBy(t, p)'
                  /\ (\E u \in Threads : Filled(u, p)) => Filled(t, p)
    BY <1>0, <1>1, <1>13, <2>1, InsideStep
  <2>3. \A p : /\ AheadBy(t, p) = (IF p = a THEN i ELSE 0)
               /\ AheadBy(t, p)' = (IF p = a THEN i + 1 ELSE 0)
               /\ Filled(t, p) => p = a
    BY <1>1, <1>2, <1>6, <1>10, <1>13 DEF AheadBy, Filled
  <2> QED BY <1>1, <1>2, <1>10, <1>13, <2>2, <2>3
<1>19. /\ \A x : ~Holds(t, x) /\ ~Holds(t, x)'
       /\ \A x : InHand(x)' <=> InHand(x)
  <2>1. \A x : ~Holds(t, x) /\ ~Holds(t, x)'
    BY <1>1, <1>10, <1>13 DEF Holds, GivesBack, Takes
  <2> QED BY <1>18, <2>1 DEF InHand
<1>20. PagesOK' /\ LiveOK' /\ HandOK'
  <2>1. /\ \A x : IsFree(x)' => ~IsLive(x) /\ ~InHand(x)'
        /\ \A x : InHand(x)' => ~IsLive(x)
    BY <1>0, <1>16, <1>19, OneHolder
  <2> QED BY <1>0, <1>13, <1>14, <1>18, <1>19, <2>1, HoldersOK
<1>21. AllHeld'
  <2>1. Small(block2arena(b)) /\ Going(block2arena(b))'
    BY <1>2, <1>7, <1>18
  <2>2. \A x : IsFree(x) \/ IsLive(x) \/ InHand(x) =>
          \/ IsFree(x)' \/ IsLive(x)' \/ InHand(x)'
          \/ Small(block2arena(x)) /\ Going(block2arena(x))'
    BY <1>1, <1>16, <1>19, <2>1 DEF IsLive
  <2>3. \A p \in PageSet : Small(p) /\ (Cut(p) \/ Going(p)) => Going(p)'
    BY <1>18
  <2> QED BY <1>0, <1>14, <1>15, <2>2, <2>3, AllHeldKept
<1>22. CountOK'
  <2>1. \A p \in PageSet : p # a => FreeOf(p)' = FreeOf(p)
    BY <1>7, <1>8, <1>9, <1>15
  <2>2. FreeOf(a)' = FreeOf(a) \ {b} /\ b \in FreeOf(a)
    <3>1. FreeOf(a)' = {x \in ToSet(r) : block2arena(x) = a}
      BY <1>3, <1>15
    <3>2. FreeOf(a) = {x \in ToSet(l) : block2arena(x) = a}
      BY <1>3, <1>8 DEF FreeOf
    <3> QED BY <1>7, <1>8, <1>9, <3>1, <3>2
  <2>3. IsFiniteSet(FreeOf(a)) /\ Cardinality(FreeOf(a)) \in Nat
    BY <1>0, <1>2, FreeOfFacts, FS_CardinalityType
  <2>4. Cardinality(FreeOf(a)') = Cardinality(FreeOf(a)) - 1
    BY <2>2, <2>3, FS_RemoveElement
  <2>5. head'[a].cnt = Cardinality(FreeOf(a)') + Ahead(a)'
    <3>1. head[a].cnt = Cardinality(FreeOf(a)) + i
      BY <1>0, <1>2, <1>18 DEF CountOK
    <3>2. Ahead(a)' = i + 1 /\ head' = head
      BY <1>1, <1>18
    <3> QED BY <2>3, <2>4, <3>1, <3>2
  <2>6. \A p \in PageSet : p # a => /\ head'[p] = head[p]
                                    /\ FreeOf(p)' = FreeOf(p)
                                    /\ Ahead(p)' = Ahead(p)
                                    /\ Cut(p)' <=> Cut(p)
    BY <1>1, <1>18, <2>1
  <2> QED BY <1>0, <2>5, <2>6, CountKept
<1>23. FullOK'
  <2> SUFFICES ASSUME NEW p \in PageSet, Small(p)', head'[p].cnt = BlocksPerArena(head'[p].desc)
               PROVE  Filled(t, p)'
    BY DEF FullOK
  <2>1. Small(p) /\ head[p].cnt = BlocksPerArena(head[p].desc)
    BY <1>1 DEF Small
  <2>2. p = a
    BY <1>0, <1>18, <2>1 DEF FullOK
  <2> QED BY <1>10, <1>13, <2>2 DEF Filled
<1>24. CallOK(t)'
  <2>1. \A k \in 0 .. n - 1 :
          /\ ~IsLive(arena2block(a, d, k))' /\ ~InHand(arena2block(a, d, k))'
          /\ IsFree(arena2block(a, d, k))' <=> k >= i + 1
    <3> SUFFICES ASSUME NEW k \in 0 .. n - 1, NEW x, x = arena2block(a, d, k)
                 PROVE  /\ ~IsLive(x)' /\ ~InHand(x)'
                        /\ IsFree(x)' <=> k >= i + 1
      OBVIOUS
    <3>1. /\ ~IsLive(x) /\ ~InHand(x)
          /\ IsFree(x) <=> k >= i
      BY <1>5, <1>6
    <3>2. x = b <=> k = i
      BY <1>4, <1>7, BlockInjective
    <3>3. (k >= i /\ k # i) <=> k >= i + 1
      OBVIOUS
    <3> QED BY <1>1, <1>16, <1>19, <3>1, <3>2, <3>3 DEF IsLive
  <2>2. IF q = "release" THEN i + 1 < n ELSE i + 1 = n
    BY <1>12
  <2>3. Small(a)' /\ head'[a].desc = d
    BY <1>1, <1>2, <1>3 DEF Small
  <2> QED BY <1>4, <1>10, <1>13, <2>1, <2>2, <2>3 DEF CallOK
<1> QED BY <1>15, <1>17, <1>18, <1>20, <1>21, <1>22, <1>23, <1>24 DEF IInv

\* What a call gives back is its unit alone.
LEMMA GivenBack ==
  ASSUME IInv, NEW t \in Threads, pc[t] = "free"
  PROVE  /\ call[t].size = 0 /\ call[t].i = 0
         /\ \E b \in Bytes, a \in PageSet :
              /\ b = call[t].b /\ a = block2arena(b) /\ head[a] # NoHead
              /\ IsUnit(b) /\ ~IsFree(b) /\ ~IsLive(b)
              /\ \A x : Holds(t, x) <=> x = b
              /\ \A u \in Threads : u # t => ~Holds(u, b)
<1>0. StateOK /\ PagesOK /\ FreeOK /\ LiveOK /\ HandOK /\ CallOK(t)
  BY DEF IInv
<1>1. call[t].size = 0 /\ call[t].i = 0
  BY <1>0 DEF CallOK
<1>2. \A x : Holds(t, x) <=> x = call[t].b
  BY <1>1 DEF Holds, GivesBack, Takes
<1>3. PICK b \in Bytes \cup {-1} : b = call[t].b
  BY <1>0, CallType
<1>4. /\ IsUnit(b) /\ ~IsFree(b)
      /\ \A u \in Threads : Holds(u, b) => u = t
  BY <1>0, <1>2, <1>3 DEF HandOK
<1>5. ~IsLive(b)
  BY <1>0, <1>2, <1>3, OneHolder DEF InHand
<1>6. b \in Bytes /\ block2arena(b) \in PageSet /\ head[block2arena(b)] # NoHead
  BY <1>0, <1>4, UnitFacts
<1> QED BY <1>1, <1>2, <1>3, <1>4, <1>5, <1>6

LEMMA LargeBackStep ==
  ASSUME IInv, NEW t \in Threads, GiveBlockBack(t), Large(block2arena(call[t].b))
  PROVE  IInv'
<1>0. /\ StateOK /\ LockOK /\ PagesOK /\ FreeOK /\ LiveOK /\ HandOK /\ AllHeld /\ CountOK /\ FullOK
      /\ \A u \in Threads : CallOK(u)
  BY DEF IInv
<1>1. /\ pc[t] = "free" /\ call[t].size = 0 /\ call[t].i = 0
      /\ owner' = owner /\ level' = level /\ live' = live /\ panic' = panic
  BY GivenBack DEF GiveBlockBack, At, lockVars
<1>2. PICK b \in Bytes, a \in PageSet :
        /\ b = call[t].b /\ a = block2arena(b) /\ head[a] # NoHead
        /\ IsUnit(b) /\ ~IsFree(b) /\ ~IsLive(b)
        /\ \A x : Holds(t, x) <=> x = b
        /\ \A u \in Threads : u # t => ~Holds(u, b)
  BY <1>1, GivenBack
<1>3. Large(a) /\ ~Small(a) /\ head[a].desc = NoDesc /\ Own(a) = a .. a + head[a].cnt - 1
  BY <1>0, <1>2, HeadFacts DEF Own
<1>4. /\ used' = used \ Own(a) /\ head' = [head EXCEPT ![a] = NoHead]
      /\ pc' = [pc EXCEPT ![t] = "unlock"] /\ call' = call /\ free' = free
  BY <1>2, <1>3 DEF GiveBlockBack, Goto, Large
<1>5. /\ PagesOK' /\ used' \in SUBSET PageSet
      /\ head' \in [PageSet -> [desc : Descs \cup {NoDesc}, cnt : Nat, large : BOOLEAN]]
      /\ head'[a] = NoHead /\ ~Small(a)' /\ ~Large(a)'
      /\ \A p \in PageSet : p # a => head'[p] = head[p]
  BY <1>0, <1>2, <1>4, PagesGone
<1>6. /\ pc' \in [Threads -> Inside \cup {"idle", "lock"}] /\ pc'[t] = "unlock"
      /\ \A u \in Threads : u # t => pc'[u] = pc[u] /\ call'[u] = call[u]
  BY <1>0, <1>4 DEF StateOK, Inside
<1>7. StateOK'
  BY <1>0, <1>1, <1>4, <1>5, <1>6 DEF StateOK
<1>8. \A x : IsUnit(x) /\ block2arena(x) = a => x = b
  BY <1>0, <1>2, <1>3, UnitFacts
<1>9. /\ \A x : block2arena(x) = a => ~IsFree(x) /\ ~IsLive(x)
      /\ \A u \in Threads : u # t => \A x : Holds(u, x) => block2arena(x) # a
  <2>1. \A x : IsFree(x) \/ IsLive(x) => IsUnit(x)
    BY <1>0 DEF IsFree, IsLive, FreeOK, LiveOK
  <2>2. \A u \in Threads : \A x : Holds(u, x) => IsUnit(x)
    <3> SUFFICES ASSUME NEW u \in Threads, NEW x, Holds(u, x) PROVE IsUnit(x)
      OBVIOUS
    <3>1. x \in Bytes \cup {-1}
      BY <1>0, CallType DEF Holds
    <3> QED BY <1>0, <3>1 DEF HandOK
  <2> QED BY <1>2, <1>8, <2>1, <2>2
<1>10. /\ LockOK' /\ \A u \in Threads : u # t => CallOK(u)'
       /\ \A u \in Threads : u # t => /\ Takes(u)' <=> Takes(u)
                                      /\ \A x : Holds(u, x)' <=> Holds(u, x)
       /\ \A p : /\ ~Cut(p) /\ ~Cut(p)' /\ ~Going(p) /\ ~Going(p)'
                 /\ Ahead(p) = 0 /\ Ahead(p)' = 0
                 /\ ~ \E u \in Threads : Filled(u, p)
  <2>1. pc[t] \in Inside /\ pc'[t] \in Inside
    BY <1>1, <1>6 DEF Inside
  <2>2. /\ LockOK' /\ \A u \in Threads : u # t => CallOK(u)'
        /\ \A u \in Threads : u # t => /\ Takes(u)' <=> Takes(u)
                                       /\ \A x : Holds(u, x)' <=> Holds(u, x)
        /\ \A p : /\ Cut(p) <=> pc[t] = "split" /\ call[t].a = p
                  /\ Cut(p)' <=> pc'[t] = "split" /\ call'[t].a = p
                  /\ Going(p) <=> pc[t] \in {"release", "mfree"} /\ call[t].a = p
                  /\ Going(p)' <=> pc'[t] \in {"release", "mfree"} /\ call'[t].a = p
                  /\ Ahead(p) = AheadBy(t, p) /\ Ahead(p)' = AheadBy(t, p)'
                  /\ (\E u \in Threads : Filled(u, p)) => Filled(t, p)
    BY <1>0, <1>1, <1>6, <2>1, InsideStep
  <2>3. \A p : AheadBy(t, p) = 0 /\ AheadBy(t, p)' = 0 /\ ~Filled(t, p)
    BY <1>1, <1>6 DEF AheadBy, Filled
  <2> QED BY <1>1, <1>6, <2>2, <2>3
<1>11. \A x : ~Holds(t, x)'
  BY <1>1, <1>4, <1>6 DEF Holds, GivesBack, Takes
<1>12. FreeOK' /\ LiveOK' /\ HandOK' /\ AllHeld' /\ CountOK' /\ FullOK'
  <2>1. call' \in [Threads -> Calls]
    BY <1>7 DEF StateOK
  <2>2. \A x : Holds(t, x) => block2arena(x) = a
    BY <1>2
  <2>3. /\ free' = free /\ live' = live
        /\ \A u \in Threads : u # t =>
             /\ Takes(u)' <=> Takes(u)
             /\ call'[u] = call[u]
             /\ \A x : Holds(u, x)' <=> Holds(u, x)
             /\ \A x : Holds(u, x) => block2arena(x) # a
    BY <1>1, <1>4, <1>6, <1>9, <1>10
  <2>4. \A p \in PageSet : p # a =>
          /\ Ahead(p)' = Ahead(p)
          /\ Cut(p)' <=> Cut(p)
          /\ Going(p)' <=> Going(p)
          /\ ~ \E u \in Threads : Filled(u, p)
    BY <1>10
  <2>5. \A x : block2arena(x) = a => ~IsFree(x) /\ ~IsLive(x)
    BY <1>9
  <2> QED BY <1>0, <1>5, <1>11, <2>1, <2>2, <2>3, <2>4, <2>5, HeadChange
<1>13. CallOK(t)'
  BY <1>1, <1>4, <1>6 DEF CallOK
<1> QED BY <1>5, <1>7, <1>10, <1>12, <1>13 DEF IInv

LEMMA SmallBackStep ==
  ASSUME IInv, NEW t \in Threads, GiveBlockBack(t), ~Large(block2arena(call[t].b))
  PROVE  IInv'
<1>0. /\ StateOK /\ LockOK /\ PagesOK /\ FreeOK /\ LiveOK /\ HandOK /\ AllHeld /\ CountOK /\ FullOK
      /\ \A u \in Threads : CallOK(u)
  BY DEF IInv
<1>1. /\ pc[t] = "free" /\ call[t].size = 0 /\ call[t].i = 0
      /\ owner' = owner /\ level' = level /\ live' = live /\ panic' = panic
  BY GivenBack DEF GiveBlockBack, At, lockVars
<1>2. PICK b \in Bytes, a \in PageSet :
        /\ b = call[t].b /\ a = block2arena(b) /\ head[a] # NoHead
        /\ IsUnit(b) /\ ~IsFree(b) /\ ~IsLive(b)
        /\ \A x : Holds(t, x) <=> x = b
        /\ \A u \in Threads : u # t => ~Holds(u, b)
  BY <1>1, GivenBack
<1>3. Small(a) /\ ~Large(a) /\ head[a].desc \in Descs
  BY <1>0, <1>2, UnitFacts
<1>4. PICK d \in Descs : d = head[a].desc
  BY <1>3
<1>5. PICK l \in Seq(Bytes) : l = free[d] /\ IsInjective(l) /\ b \notin ToSet(l)
  BY <1>0, <1>2 DEF StateOK, FreeOK, IsInjective, IsFree
<1>6. PICK r \in Seq(Bytes) : /\ r = Append(l, b) /\ IsInjective(r)
                              /\ \A y : y \in ToSet(r) <=> y \in ToSet(l) \/ y = b
  <2>1. /\ Append(l, b) \in Seq(Bytes) /\ IsInjective(Append(l, b))
        /\ \A y : y \in ToSet(Append(l, b)) <=> y \in ToSet(l) \/ y = b
    BY <1>5, AppendFacts
  <2> QED BY <2>1
<1>7. PICK c \in Calls : /\ c = [call[t] EXCEPT !.a = a]
                         /\ c.size = 0 /\ c.b = b /\ c.a = a /\ c.i = 0
  <2>1. PICK k \in Calls : k = call[t]
    BY <1>0, CallType
  <2>2. [k EXCEPT !.a = a] \in Calls
    BY DEF Calls
  <2>3. /\ [k EXCEPT !.a = a].size = k.size /\ [k EXCEPT !.a = a].b = k.b
        /\ [k EXCEPT !.a = a].a = a /\ [k EXCEPT !.a = a].i = k.i
    BY DEF Calls
  <2> QED BY <1>1, <1>2, <2>1, <2>2, <2>3
<1>8. /\ free' = [free EXCEPT ![d] = r] /\ head' = head /\ used' = used
      /\ call' = [call EXCEPT ![t] = c] /\ pc' = [pc EXCEPT ![t] = "recount"]
  <2>1. /\ free' = [free EXCEPT ![d] = Append(free[d], b)] /\ head' = head /\ used' = used
        /\ call' = [call EXCEPT ![t].a = a] /\ pc' = [pc EXCEPT ![t] = "recount"]
    BY <1>2, <1>3, <1>4 DEF GiveBlockBack, Goto, Large
  <2> QED BY <1>5, <1>6, <1>7, <2>1
<1>9. /\ pc' \in [Threads -> Inside \cup {"idle", "lock"}] /\ call' \in [Threads -> Calls]
      /\ pc'[t] = "recount" /\ call'[t] = c
      /\ \A u \in Threads : u # t => pc'[u] = pc[u] /\ call'[u] = call[u]
  <2>1. "recount" \in Inside \cup {"idle", "lock"}
    BY DEF Inside
  <2> QED BY <1>0, <1>8, <2>1, CallSet
<1>10. ArenasStay
  BY <1>1, <1>8 DEF ArenasStay
<1>11. /\ FreeOK' /\ free' \in [Descs -> Seq(Bytes)]
       /\ \A x : IsFree(x)' <=> x \in ToSet(r) \/ (IsFree(x) /\ x \notin ToSet(free[d]))
       /\ \A x : IsFree(x)' => IsUnit(x) /\ Small(block2arena(x))
       /\ \A p \in PageSet : head[p].desc = d => FreeOf(p)' = {x \in ToSet(r) : block2arena(x) = p}
       /\ \A p \in PageSet :
            (\A x : block2arena(x) = p => (x \in ToSet(r) <=> x \in ToSet(free[d]))) => FreeOf(p)' = FreeOf(p)
  <2>1. \A x \in ToSet(r) : IsUnit(x) /\ head[block2arena(x)].desc = d
    <3>1. \A x \in ToSet(l) : IsUnit(x) /\ head[block2arena(x)].desc = d
      BY <1>0, <1>5 DEF FreeOK
    <3>2. head[block2arena(b)].desc = d
      BY <1>2, <1>4
    <3> QED BY <1>2, <1>6, <3>1, <3>2
  <2> QED BY <1>0, <1>6, <1>8, <1>10, <2>1, ListChange
<1>12. \A x : IsFree(x)' <=> IsFree(x) \/ x = b
  <2>1. \A x \in ToSet(l) : IsFree(x)
    BY <1>5 DEF IsFree
  <2> QED BY <1>5, <1>6, <1>11, <2>1
<1>13. StateOK'
  BY <1>0, <1>1, <1>8, <1>9, <1>11 DEF StateOK
<1>14. /\ LockOK' /\ \A u \in Threads : u # t => CallOK(u)'
       /\ \A u \in Threads : u # t => /\ Takes(u)' <=> Takes(u)
                                      /\ \A x : Holds(u, x)' <=> Holds(u, x)
       /\ \A p : /\ ~Cut(p) /\ ~Cut(p)' /\ ~Going(p) /\ ~Going(p)'
                 /\ Ahead(p) = 0 /\ Ahead(p)' = (IF p = a THEN -1 ELSE 0)
                 /\ ~ \E u \in Threads : Filled(u, p)
  <2>1. pc[t] \in Inside /\ pc'[t] \in Inside
    BY <1>1, <1>9 DEF Inside
  <2>2. /\ LockOK' /\ \A u \in Threads : u # t => CallOK(u)'
        /\ \A u \in Threads : u # t => /\ Takes(u)' <=> Takes(u)
                                       /\ \A x : Holds(u, x)' <=> Holds(u, x)
        /\ \A p : /\ Cut(p) <=> pc[t] = "split" /\ call[t].a = p
                  /\ Cut(p)' <=> pc'[t] = "split" /\ call'[t].a = p
                  /\ Going(p) <=> pc[t] \in {"release", "mfree"} /\ call[t].a = p
                  /\ Going(p)' <=> pc'[t] \in {"release", "mfree"} /\ call'[t].a = p
                  /\ Ahead(p) = AheadBy(t, p) /\ Ahead(p)' = AheadBy(t, p)'
                  /\ (\E u \in Threads : Filled(u, p)) => Filled(t, p)
    BY <1>0, <1>1, <1>9, <2>1, InsideStep
  <2>3. \A p : /\ AheadBy(t, p) = 0
               /\ AheadBy(t, p)' = (IF p = a THEN -1 ELSE 0)
               /\ ~Filled(t, p)
    BY <1>1, <1>2, <1>7, <1>9 DEF AheadBy, Filled
  <2> QED BY <1>1, <1>9, <2>2, <2>3
<1>15. \A x : ~Holds(t, x)'
  BY <1>7, <1>9 DEF Holds, GivesBack, Takes
<1>16. \A x : InHand(x)' <=> InHand(x) /\ x # b
  BY <1>2, <1>14, <1>15 DEF InHand
<1>17. /\ \A x : IsFree(x) => ~IsLive(x) /\ ~InHand(x)
       /\ \A x : InHand(x) => ~IsLive(x)
  BY <1>0, OneHolder
<1>18. PagesOK' /\ LiveOK' /\ HandOK'
  <2>1. \A x : IsFree(x)' => ~IsLive(x) /\ ~InHand(x)'
    BY <1>2, <1>12, <1>16, <1>17
  <2>2. \A x : InHand(x)' => ~IsLive(x)
    BY <1>16, <1>17
  <2> QED BY <1>0, <1>9, <1>10, <1>14, <1>15, <2>1, <2>2, HoldersOK
<1>19. AllHeld'
  <2>1. \A x : IsFree(x) \/ IsLive(x) \/ InHand(x) => IsFree(x)' \/ IsLive(x)' \/ InHand(x)'
    BY <1>1, <1>12, <1>16 DEF IsLive
  <2> QED BY <1>0, <1>10, <1>11, <1>14, <2>1, AllHeldKept
<1>20. CountOK'
  <2>1. \A p \in PageSet : p # a => FreeOf(p)' = FreeOf(p)
    BY <1>2, <1>5, <1>6, <1>11
  <2>2. FreeOf(a)' = FreeOf(a) \cup {b} /\ b \notin FreeOf(a)
    <3>1. FreeOf(a)' = {x \in ToSet(r) : block2arena(x) = a}
      BY <1>4, <1>11
    <3>2. FreeOf(a) = {x \in ToSet(l) : block2arena(x) = a}
      BY <1>4, <1>5 DEF FreeOf
    <3> QED BY <1>2, <1>5, <1>6, <3>1, <3>2
  <2>3. IsFiniteSet(FreeOf(a)) /\ Cardinality(FreeOf(a)) \in Nat
    BY <1>0, <1>3, FreeOfFacts, FS_CardinalityType
  <2>4. Cardinality(FreeOf(a)') = Cardinality(FreeOf(a)) + 1
    BY <2>2, <2>3, FS_AddElement
  <2>5. head'[a].cnt = Cardinality(FreeOf(a)') + Ahead(a)'
    <3>1. head[a].cnt = Cardinality(FreeOf(a)) + 0
      BY <1>0, <1>3, <1>14 DEF CountOK
    <3>2. Ahead(a)' = -1 /\ head' = head
      BY <1>8, <1>14
    <3> QED BY <2>3, <2>4, <3>1, <3>2
  <2>6. \A p \in PageSet : p # a => /\ head'[p] = head[p]
                                    /\ FreeOf(p)' = FreeOf(p)
                                    /\ Ahead(p)' = Ahead(p)
                                    /\ Cut(p)' <=> Cut(p)
    BY <1>8, <1>14, <2>1
  <2> QED BY <1>0, <2>5, <2>6, CountKept
<1>21. FullOK'
  <2> SUFFICES ASSUME NEW p \in PageSet, Small(p)', head'[p].cnt = BlocksPerArena(head'[p].desc)
               PROVE  FALSE
    BY DEF FullOK
  <2>1. Small(p) /\ head[p].cnt = BlocksPerArena(head[p].desc)
    BY <1>8 DEF Small
  <2> QED BY <1>0, <1>14, <2>1 DEF FullOK
<1>22. CallOK(t)'
  <2>1. IsUnit(b)' /\ IsFree(b)'
    BY <1>0, <1>2, <1>10, <1>12, SameUnits
  <2> QED BY <1>2, <1>7, <1>9, <2>1 DEF CallOK
<1> QED BY <1>11, <1>13, <1>14, <1>18, <1>19, <1>20, <1>21, <1>22 DEF IInv

-----------------------------------------------------------------------------
(* The invariant.                                                          *)

LEMMA InitOK == Init => IInv
<1> SUFFICES ASSUME Init PROVE IInv
  OBVIOUS
<1>1. /\ owner = [l \in {"pool"} |-> NoThread] /\ level = [l \in {"pool"} |-> 0]
      /\ free = [d \in Descs |-> <<>>] /\ head = [a \in PageSet |-> NoHead] /\ used = {} /\ live = {}
      /\ pc = [t \in Threads |-> "idle"] /\ call = [t \in Threads |-> NoCall] /\ panic = "none"
  BY DEF Init, MutexInit
<1>2. NoCall \in Calls /\ NoHead \in [desc : Descs \cup {NoDesc}, cnt : Nat, large : BOOLEAN]
  BY Constants DEF NoCall, NoHead, Calls
<1>3. StateOK
  <2>1. owner \in [{"pool"} -> Threads \cup {NoThread}]
    BY <1>1
  <2>2. level = [l \in {"pool"} |-> IF owner["pool"] = NoThread THEN 0 ELSE 1]
    BY <1>1
  <2>3. free \in [Descs -> Seq(Bytes)]
    <3>1. <<>> \in Seq(Bytes)
      OBVIOUS
    <3> QED BY <1>1, <3>1
  <2>4. head \in [PageSet -> [desc : Descs \cup {NoDesc}, cnt : Nat, large : BOOLEAN]]
    BY <1>1, <1>2
  <2>5. pc \in [Threads -> Inside \cup {"idle", "lock"}] /\ call \in [Threads -> Calls]
    BY <1>1, <1>2
  <2> QED BY <1>1, <2>1, <2>2, <2>3, <2>4, <2>5 DEF StateOK
<1>4. \A t \in Threads : pc[t] = "idle" /\ call[t] = NoCall /\ owner["pool"] # t
  BY <1>1, Constants
<1>5. \A b : ~IsFree(b) /\ ~IsLive(b) /\ ~InHand(b)
  <2>1. \A d \in Descs : ToSet(free[d]) = {}
    BY <1>1 DEF ToSet
  <2> QED BY <1>1, <1>4, <2>1 DEF IsFree, IsLive, InHand, Holds, GivesBack, Takes
<1>6. \A a \in PageSet : head[a] = NoHead /\ ~Small(a) /\ ~Large(a)
  BY <1>1 DEF Small, Large, NoHead
<1>7. LockOK
  BY <1>4 DEF LockOK, Inside
<1>8. PagesOK
  BY <1>1, <1>6 DEF PagesOK
<1>9. FreeOK
  BY <1>1, <1>5 DEF FreeOK, IsFree
<1>10. LiveOK
  BY <1>1 DEF LiveOK
<1>11. HandOK
  BY <1>5 DEF HandOK, InHand
<1>12. AllHeld /\ CountOK /\ FullOK
  BY <1>6 DEF AllHeld, CountOK, FullOK
<1>13. \A t \in Threads : CallOK(t)
  BY <1>4 DEF CallOK, NoCall
<1> QED BY <1>3, <1>7, <1>8, <1>9, <1>10, <1>11, <1>12, <1>13 DEF IInv

LEMMA NextStep == IInv /\ [Next]_vars => IInv'
<1> SUFFICES ASSUME IInv, [Next]_vars PROVE IInv'
  OBVIOUS
<1>1. ASSUME NEW t \in Threads, NEW size \in Sizes, Malloc(t, size) PROVE IInv'
  BY <1>1, MallocStep
<1>2. ASSUME NEW t \in Threads, NEW m \in live, Free(t, m) PROVE IInv'
  BY <1>2, FreeStep
<1>3. ASSUME NEW t \in Threads, LockPool(t) PROVE IInv'
  BY <1>3, LockStep
<1>4. ASSUME NEW t \in Threads, Locked(t) PROVE IInv'
  <2>1. CASE MallocLarge(t)
    BY <2>1, LargeStep
  <2>2. CASE NewArena(t)
    BY <2>2, NewArenaStep
  <2>3. CASE Split(t)
    BY <2>3, SplitStep
  <2>4. CASE Pop(t)
    BY <2>4, PopStep
  <2>5. CASE CountDown(t)
    BY <2>5, CountDownStep
  <2>6. CASE GiveBlockBack(t)
    BY <2>6, LargeBackStep, SmallBackStep
  <2>7. CASE CountUp(t)
    BY <2>7, CountUpStep
  <2>8. CASE Unlink(t)
    BY <2>8, UnlinkStep
  <2>9. CASE MfreeArena(t)
    BY <2>9, MfreeStep
  <2>10. CASE UnlockPool(t)
    BY <2>10, UnlockStep
  <2> QED BY <1>4, <2>1, <2>2, <2>3, <2>4, <2>5, <2>6, <2>7, <2>8, <2>9, <2>10 DEF Locked
<1>5. CASE UNCHANGED vars
  BY <1>5, StopStep DEF vars
<1> QED BY <1>1, <1>2, <1>3, <1>4, <1>5 DEF Next, Spin

\* Only malloc_page's assertions fail, in the hands of the call that made them.
LEMMA PanicStep == IInv /\ PanicOK /\ [Next]_vars => PanicOK'
<1> SUFFICES ASSUME IInv, PanicOK, [Next]_vars PROVE PanicOK'
  OBVIOUS
<1>1. StateOK' /\ LockOK
  BY NextStep DEF IInv
<1>2. ASSUME NEW t \in Threads, panic = "none", panic' = "malloc_page",
             UNCHANGED <<lockVars, heapVars, pc, call>>, pc[t] \in Inside, TooMuch(t)
      PROVE  PanicOK'
  <2>1. owner["pool"] = t /\ owner' = owner /\ TooMuch(t)'
    BY <1>1, <1>2 DEF LockOK, TooMuch, MayStop, MustStop, lockVars, heapVars
  <2> QED BY <1>2, <2>1 DEF PanicOK
<1>3. ASSUME NEW t \in Threads, MallocLarge(t) PROVE PanicOK'
  <2>1. CASE panic' = panic
    BY <1>3, <2>1 DEF MallocLarge, At, PanicOK
  <2>2. CASE panic' # panic
    <3>1. /\ panic = "none" /\ panic' = "malloc_page" /\ pc[t] = "large"
          /\ MayStop(PageCnt(call[t].size)) /\ UNCHANGED <<lockVars, heapVars, pc, call>>
      BY <1>3, <2>2 DEF MallocLarge, At, Stops
    <3> QED BY <1>2, <3>1 DEF TooMuch, Inside
  <2> QED BY <2>1, <2>2
<1>4. ASSUME NEW t \in Threads, NewArena(t) PROVE PanicOK'
  <2>1. CASE ~MustStop(1)
    BY <1>4, <2>1 DEF NewArena, At, PanicOK
  <2>2. CASE MustStop(1)
    <3>1. /\ panic = "none" /\ panic' = "malloc_page" /\ pc[t] = "arena"
          /\ UNCHANGED <<lockVars, heapVars, pc, call>>
      BY <1>4, <2>2 DEF NewArena, At, Stops
    <3>2. used = PageSet
      BY <2>2, ArenaAssumption DEF MustStop
    <3> QED BY <1>2, <3>1, <3>2 DEF TooMuch, Inside
  <2> QED BY <2>1, <2>2
<1>5. ASSUME NEW t \in Threads,
             \/ \E size \in Sizes : Malloc(t, size)
             \/ \E m \in live : Free(t, m)
             \/ LockPool(t) \/ CountDown(t) \/ GiveBlockBack(t) \/ CountUp(t) \/ MfreeArena(t) \/ UnlockPool(t)
      PROVE  PanicOK'
  BY <1>5 DEF Malloc, Free, LockPool, CountDown, GiveBlockBack, CountUp, MfreeArena, UnlockPool, At, PanicOK
<1>6. ASSUME NEW t \in Threads, Split(t) \/ Pop(t) \/ Unlink(t) PROVE PanicOK'
  <2>1. panic' \in {"none", "split", "null", "free"}
    BY <1>6 DEF Split, Pop, Unlink, At
  <2> QED BY <1>1, <2>1 DEF StateOK, PanicOK
<1>7. CASE UNCHANGED vars
  BY <1>7 DEF PanicOK, TooMuch, MayStop, MustStop, vars, lockVars, heapVars
<1> QED BY <1>3, <1>4, <1>5, <1>6, <1>7 DEF Next, Locked, Spin

LEMMA InvariantHolds == Spec => [](IInv /\ PanicOK)
<1>1. Init => IInv /\ PanicOK
  BY InitOK DEF Init, PanicOK
<1> QED BY <1>1, NextStep, PanicStep, PTL DEF Spec

-----------------------------------------------------------------------------
(* The theorems.                                                           *)

\* sys_malloc never hands out memory that another caller has, that holds a struct
\* arena, or that is on a free list, whatever the sizes asked for, the number of
\* threads and the order of their calls (memory.c:289-383, 479-517).
THEOREM CallersStayApart == Spec => []BlocksApart
<1>1. IInv => BlocksApart
  BY InvApart
<1> QED BY <1>1, InvariantHolds, PTL

\* The free lists hold blocks of arenas that exist, each once; cnt is the number of
\* free blocks; and no assertion of the allocator can fail but malloc_page's, and those
\* only for a call that asks for too many pages or for more than are free: the blocks
\* cut from a new arena are not on the list, list_pop finds a block, and the blocks of
\* an arena that goes back are on it (memory.c:368, 375, 510).
THEOREM AllocatorStaysExact == Spec => []ArenasExact
<1>1. IInv /\ PanicOK => ArenasExact
  BY InvExact
<1> QED BY <1>1, InvariantHolds, PTL

\* An arena goes back to the pool with its last block (memory.c:506-513): when
\* nobody is in the allocator there is no page without memory of a caller in it.
THEOREM NoPageIsLost == Spec => []NothingLeaked
<1>1. IInv => NothingLeaked
  BY InvNoLeak
<1> QED BY <1>1, InvariantHolds, PTL

\* A caller gets memory of the size it asked for, in the heap and apart from
\* everybody else's, at the moment sys_malloc releases the lock.
LEMMA GiveRefines ==
  ASSUME IInv, NEW t \in Threads, UnlockPool(t)
  PROVE  heap!HeapNext \/ live' = live
<1>0. StateOK /\ PagesOK /\ LiveOK /\ HandOK
  BY DEF IInv
<1>1. CASE ~(call[t].size > 0 /\ call[t].b # -1)
  BY <1>1 DEF UnlockPool
<1>2. CASE call[t].size > 0 /\ call[t].b # -1
  <2>1. Takes(t) /\ Holds(t, call[t].b)
    BY <1>2 DEF UnlockPool, At, Takes, Holds
  <2>2. PICK b \in Bytes, size \in Sizes : b = call[t].b /\ size = call[t].size
    BY <1>0, <1>2, CallType
  <2>3. IsUnit(b) /\ Fits(b, size) /\ ~IsLive(b)
    <3>1. IsUnit(b) /\ Fits(b, size)
      BY <1>0, <2>1, <2>2 DEF HandOK
    <3>2. InHand(b)
      BY <2>1, <2>2 DEF InHand
    <3> QED BY <1>0, <3>1, <3>2 DEF IsLive, LiveOK
  <2>4. Extent(<<b, size>>) \subseteq Span(b) /\ b + size <= Pages * PageSize
    BY <1>0, <2>3, FitsFacts
  <2>5. ASSUME NEW n \in live PROVE heap!Extent(n) \cap heap!Extent(<<b, size>>) = {}
    <3>1. PICK x \in Bytes, s \in Sizes : n = <<x, s>>
      BY <1>0 DEF StateOK
    <3>2. IsUnit(x) /\ Fits(x, s) /\ x # b
      BY <1>0, <2>3, <3>1 DEF LiveOK, IsLive
    <3>3. Extent(<<x, s>>) \subseteq Span(x)
      BY <1>0, <3>2, FitsFacts
    <3>4. Span(x) \cap Span(b) = {}
      BY <1>0, <2>3, <3>2, SpansApart
    <3> QED BY <2>4, <3>1, <3>3, <3>4 DEF Extent, heap!Extent
  <2>6. live' = live \cup {<<b, size>>}
    BY <1>2, <2>2 DEF UnlockPool
  <2>7. b \in 0 .. Pages * PageSize - size
    BY <2>4, Constants DEF Bytes
  <2> QED BY <2>5, <2>6, <2>7 DEF heap!HeapNext, heap!Give
<1> QED BY <1>1, <1>2

LEMMA StepRefines == IInv /\ [Next]_vars => heap!HeapNext \/ live' = live
<1> SUFFICES ASSUME IInv, [Next]_vars PROVE heap!HeapNext \/ live' = live
  OBVIOUS
<1>1. ASSUME NEW t \in Threads, NEW size \in Sizes, Malloc(t, size) PROVE live' = live
  BY <1>1 DEF Malloc
<1>2. ASSUME NEW t \in Threads, NEW m \in live, Free(t, m) PROVE heap!HeapNext
  BY <1>2 DEF Free, heap!HeapNext, heap!TakeBack
<1>3. ASSUME NEW t \in Threads, LockPool(t) PROVE live' = live
  BY <1>3 DEF LockPool
<1>4. ASSUME NEW t \in Threads, Locked(t) PROVE heap!HeapNext \/ live' = live
  <2>1. CASE UnlockPool(t)
    BY <2>1, GiveRefines
  <2>2. CASE MallocLarge(t) \/ NewArena(t) \/ Split(t) \/ Pop(t) \/ CountDown(t)
    BY <2>2 DEF MallocLarge, NewArena, Split, Pop, CountDown
  <2>3. CASE GiveBlockBack(t) \/ CountUp(t) \/ Unlink(t) \/ MfreeArena(t)
    BY <2>3 DEF GiveBlockBack, CountUp, Unlink, MfreeArena
  <2> QED BY <1>4, <2>1, <2>2, <2>3 DEF Locked
<1>5. CASE UNCHANGED vars
  BY <1>5 DEF vars
<1> QED BY <1>1, <1>2, <1>3, <1>4, <1>5 DEF Next, Spin

\* To its callers the allocator is a heap: every step of sys_malloc and sys_free
\* gives a caller memory that nobody has, takes memory back, or changes nothing
\* that a caller sees.
THEOREM ArenaImplementsHeap == Spec => ImplementsHeap
<1>1. Init => heap!HeapInit
  BY DEF Init, heap!HeapInit
<1>2. IInv /\ [Next]_vars => [heap!HeapNext]_live
  BY StepRefines
<1> QED BY <1>1, <1>2, InvariantHolds, PTL DEF Spec, ImplementsHeap, heap!HeapSpec
=============================================================================

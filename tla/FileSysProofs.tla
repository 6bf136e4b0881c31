---------------------------- MODULE FileSysProofs ---------------------------
(***************************************************************************)
(* Proofs about FileSys: the scan of the partition tables, the search for  *)
(* file systems, the formats and the mount keep the inductive invariant of *)
(* FileSysInv, for every number of channels, for all tables that describe  *)
(* partitions, and for any number of power failures.                       *)
(***************************************************************************)
EXTENDS FileSysInv, DataLemmas

Extents == [start : Nat, cnt : Nat]
Calls == [lba : Nat, i : 1 .. 5]
Entries == [type : Nat, start : Nat, cnt : Nat]

-----------------------------------------------------------------------------
(* Prefixes of the partitions that there are.                              *)

\* One more is found.
LEMMA TakenAppend ==
  ASSUME NEW s, NEW r \in Seq(Extents), NEW n \in Nat, NEW x \in Extents,
         Taken(s, r, n), n + 1 <= Len(r), x = r[n + 1]
  PROVE  Taken(Append(s, x), r, n + 1)
<1>1. s \in Seq(Extents) /\ Len(s) = n /\ \A k \in 1 .. n : s[k] = r[k]
  BY DEF Taken, Extents
<1>2. /\ Append(s, x) \in Seq(Extents) /\ Len(Append(s, x)) = n + 1
      /\ \A k \in 1 .. n : Append(s, x)[k] = s[k]
      /\ Append(s, x)[n + 1] = x
  BY <1>1, AppendProperties
<1>3. ASSUME NEW k \in 1 .. n + 1 PROVE Append(s, x)[k] = r[k]
  <2>1. k \in 1 .. n \/ k = n + 1
    OBVIOUS
  <2> QED BY <1>1, <1>2, <2>1
<1> QED BY <1>2, <1>3 DEF Taken, Extents

\* None, and all.
LEMMA TakenEnds ==
  ASSUME NEW s, NEW r \in Seq(Extents)
  PROVE  /\ Taken(<<>>, r, 0)
         /\ Taken(s, r, Len(r)) => s = r
         /\ \A n : Taken(s, r, n) => ToSet(s) \subseteq ToSet(r) /\ IsPrefix(s, r)
<1>1. Len(r) \in Nat /\ DOMAIN r = 1 .. Len(r)
  BY LenProperties
<1>2. Taken(<<>>, r, 0)
  <2>1. <<>> \in Seq(Extents) /\ Len(<<>>) = 0
    BY EmptySeq
  <2> QED BY <1>1, <2>1 DEF Taken, Extents
<1>3. ASSUME Taken(s, r, Len(r)) PROVE s = r
  <2>1. s \in Seq(Extents) /\ Len(s) = Len(r) /\ \A k \in 1 .. Len(s) : s[k] = r[k]
    BY <1>3 DEF Taken, Extents
  <2> QED BY <2>1, SeqEqual
<1>4. ASSUME NEW n, Taken(s, r, n) PROVE ToSet(s) \subseteq ToSet(r) /\ IsPrefix(s, r)
  <2>1. /\ s \in Seq(Extents) /\ Len(s) = n /\ n \in Nat /\ DOMAIN s = 1 .. n
        /\ n <= Len(r) /\ \A k \in 1 .. n : s[k] = r[k]
    BY <1>4, LenProperties DEF Taken, Extents
  <2>2. ToSet(s) \subseteq ToSet(r)
    BY <1>1, <2>1 DEF ToSet
  <2>3. SubSeq(s, 1, n) = SubSeq(r, 1, n)
    <3>1. \A k \in 1 .. n : s[k] \in Extents /\ r[k] \in Extents
      BY <1>1, <2>1, ElementOfSeq
    <3>2. /\ SubSeq(s, 1, n) \in Seq(Extents) /\ Len(SubSeq(s, 1, n)) = n
          /\ \A k \in 1 .. n : SubSeq(s, 1, n)[k] = s[k]
      BY <2>1, <3>1, SubSeqProperties
    <3>3. /\ SubSeq(r, 1, n) \in Seq(Extents) /\ Len(SubSeq(r, 1, n)) = n
          /\ \A k \in 1 .. n : SubSeq(r, 1, n)[k] = r[k]
      BY <2>1, <3>1, SubSeqProperties
    <3> QED BY <2>1, <3>2, <3>3, SeqEqual
  <2> QED BY <2>1, <2>2, <2>3 DEF IsPrefix
<1> QED BY <1>2, <1>3, <1>4

-----------------------------------------------------------------------------
(* The calls of partition_scan.                                            *)

\* The innermost call goes on to its next entry.
LEMMA Bumped ==
  ASSUME NEW s \in Seq(Calls), s # <<>>, s[Len(s)].i <= 4
  PROVE  LET t == [s EXCEPT ![Len(s)].i = @ + 1] IN
           /\ t \in Seq(Calls) /\ Len(t) = Len(s)
           /\ \A k \in 1 .. Len(s) : t[k].lba = s[k].lba /\ (k # Len(s) => t[k] = s[k])
           /\ t[Len(s)].i = s[Len(s)].i + 1
<1> DEFINE n == Len(s)
           c == [s[n] EXCEPT !.i = @ + 1]
<1>1. n \in Nat \ {0} /\ s[n] \in Calls
  BY EmptySeq, ElementOfSeq
<1>2. c \in Calls /\ c.lba = s[n].lba /\ c.i = s[n].i + 1
  BY <1>1 DEF Calls
<1>3. [s EXCEPT ![n].i = @ + 1] = [s EXCEPT ![n] = c]
  OBVIOUS
<1> HIDE DEF c
<1>4. /\ [s EXCEPT ![n] = c] \in Seq(Calls) /\ Len([s EXCEPT ![n] = c]) = n
      /\ \A j \in 1 .. n : [s EXCEPT ![n] = c][j] = IF j = n THEN c ELSE s[j]
  BY <1>1, <1>2, ExceptSeq
<1> QED BY <1>1, <1>2, <1>3, <1>4

\* It calls itself.
LEMMA Called ==
  ASSUME NEW s \in Seq(Calls), s # <<>>, s[Len(s)].i <= 4, NEW at \in Nat
  PROVE  LET t == Append([s EXCEPT ![Len(s)].i = @ + 1], [lba |-> at, i |-> 1]) IN
           /\ t \in Seq(Calls) /\ Len(t) = Len(s) + 1
           /\ \A k \in 1 .. Len(s) : t[k].lba = s[k].lba /\ (k # Len(s) => t[k] = s[k])
           /\ t[Len(s)].i = s[Len(s)].i + 1
           /\ t[Len(s) + 1].lba = at /\ t[Len(s) + 1].i = 1
<1> DEFINE u == [s EXCEPT ![Len(s)].i = @ + 1]
           c == [lba |-> at, i |-> 1]
<1>1. /\ u \in Seq(Calls) /\ Len(u) = Len(s)
      /\ \A k \in 1 .. Len(s) : u[k].lba = s[k].lba /\ (k # Len(s) => u[k] = s[k])
      /\ u[Len(s)].i = s[Len(s)].i + 1
  BY Bumped
<1>2. c \in Calls /\ c.lba = at /\ c.i = 1
  BY DEF Calls
<1> HIDE DEF u, c
<1>3. /\ Append(u, c) \in Seq(Calls) /\ Len(Append(u, c)) = Len(u) + 1
      /\ \A k \in 1 .. Len(u) : Append(u, c)[k] = u[k]
      /\ Append(u, c)[Len(u) + 1] = c
  BY <1>1, <1>2, AppendProperties
<1>4. Len(s) \in Nat \ {0}
  BY EmptySeq
<1>5. \A k \in 1 .. Len(s) : Append(u, c)[k] = u[k]
  BY <1>1, <1>3
<1>6. Append(u, c)[Len(s)] = u[Len(s)] /\ Append(u, c)[Len(s) + 1] = c
  BY <1>1, <1>3, <1>4
<1>7. /\ Append(u, c) \in Seq(Calls) /\ Len(Append(u, c)) = Len(s) + 1
      /\ \A k \in 1 .. Len(s) : Append(u, c)[k].lba = s[k].lba /\ (k # Len(s) => Append(u, c)[k] = s[k])
      /\ Append(u, c)[Len(s)].i = s[Len(s)].i + 1
      /\ Append(u, c)[Len(s) + 1].lba = at /\ Append(u, c)[Len(s) + 1].i = 1
  BY <1>1, <1>2, <1>3, <1>5, <1>6
<1> QED BY <1>7 DEF u, c

\* It returns.
LEMMA Returned ==
  ASSUME NEW s \in Seq(Calls), s # <<>>
  PROVE  /\ Front(s) \in Seq(Calls) /\ Len(Front(s)) = Len(s) - 1
         /\ \A k \in 1 .. Len(s) - 1 : Front(s)[k] = s[k]
<1>1. Len(s) \in Nat \ {0} /\ \A k \in 1 .. Len(s) : s[k] \in Calls
  BY EmptySeq, ElementOfSeq
<1>2. PICK m \in Nat : m = Len(s) - 1
  BY <1>1
<1>3. \A k \in 1 .. m : s[k] \in Calls
  BY <1>1, <1>2
<1>4. /\ SubSeq(s, 1, m) \in Seq(Calls) /\ Len(SubSeq(s, 1, m)) = m
      /\ \A k \in 1 .. m : SubSeq(s, 1, m)[k] = s[k]
  BY <1>3, SubSeqProperties
<1> QED BY <1>2, <1>4 DEF Front

-----------------------------------------------------------------------------
(* The partition tables.                                                   *)

\* What is assumed of a disk.
LEMMA LayoutTypes ==
  ASSUME NEW l \in Layouts
  PROVE  /\ TablesOK(l) /\ PartsOK(l)
         /\ l.chain \in Seq(Nat) /\ l.prims \in Seq(Extents) /\ l.logics \in Seq(Extents)
         /\ \A lba : \A i \in 1 .. 4 : Table(l, lba)[i] \in Entries
<1>1. LayoutOK(l)
  BY FileSysAssumption
<1>2. \A s \in DOMAIN l.tables : l.tables[s] \in [1 .. 4 -> Entries]
  BY <1>1 DEF LayoutOK, TablesOK, Entries
<1>3. NoTable \in [1 .. 4 -> Entries]
  BY DEF NoTable, Empty, Entries
<1>4. ASSUME NEW lba, NEW i \in 1 .. 4 PROVE Table(l, lba)[i] \in Entries
  <2>1. Table(l, lba) \in [1 .. 4 -> Entries]
    BY <1>2, <1>3 DEF Table
  <2> QED BY <2>1
<1> QED BY <1>1, <1>4 DEF LayoutOK, Extents

\* The primary partitions before an entry are finitely many.
LEMMA BeforeFinite ==
  ASSUME NEW l, NEW i \in 1 .. 5
  PROVE  /\ IsFiniteSet(Before(l, i)) /\ Cardinality(Before(l, i)) \in Nat
         /\ Before(l, i) \subseteq Before(l, 5)
         /\ Cardinality(Before(l, 1)) = 0
         /\ Cardinality(Before(l, i)) <= Cardinality(Before(l, 5))
<1>1. ASSUME NEW j \in 1 .. 5 PROVE IsFiniteSet(Before(l, j)) /\ Cardinality(Before(l, j)) \in Nat
  <2>1. IsFiniteSet(1 .. j - 1)
    BY FS_Interval
  <2>2. Before(l, j) \in SUBSET (1 .. j - 1)
    BY DEF Before
  <2> QED BY <2>1, <2>2, FS_Subset, FS_CardinalityType
<1>2. Before(l, i) \subseteq Before(l, 5)
  BY DEF Before
<1>3. Before(l, 1) = {}
  BY DEF Before
<1>4. Cardinality(Before(l, i)) <= Cardinality(Before(l, 5))
  <2>1. IsFiniteSet(Before(l, 5)) /\ Before(l, i) \in SUBSET Before(l, 5)
    BY <1>1, <1>2
  <2> QED BY <2>1, FS_Subset
<1> QED BY <1>1, <1>2, <1>3, <1>4, FS_EmptySet

\* An entry of the master boot record.
LEMMA MasterEntry ==
  ASSUME NEW l \in Layouts, NEW i \in 1 .. 4
  PROVE  LET e == Table(l, 0)[i]
             n == Cardinality(Before(l, i)) IN
           /\ n \in Nat
           /\ IsPart(e) => Cardinality(Before(l, i + 1)) = n + 1 /\ n + 1 <= Len(l.prims)
           /\ ~IsPart(e) => Cardinality(Before(l, i + 1)) = n
           /\ Past(l, i + 1) <=> Past(l, i) \/ e.type = Extended
           /\ e.type = Extended => ~Past(l, i) /\ l.chain # <<>> /\ l.chain[1] = e.start
<1> DEFINE e == Table(l, 0)[i]
           n == Cardinality(Before(l, i))
<1>1. TablesOK(l)
  BY LayoutTypes
<1>2. IsFiniteSet(Before(l, i)) /\ n \in Nat
  BY BeforeFinite
<1>3. i \notin Before(l, i)
  BY DEF Before
<1>4. Past(l, i + 1) <=> Past(l, i) \/ e.type = Extended
  <2>1. \A j : j \in 1 .. (i + 1) - 1 <=> j \in 1 .. i - 1 \/ j = i
    OBVIOUS
  <2> QED BY <2>1 DEF Past
<1>5. ASSUME IsPart(e)
      PROVE  Cardinality(Before(l, i + 1)) = n + 1 /\ n + 1 <= Len(l.prims)
  <2>1. Before(l, i + 1) = Before(l, i) \cup {i}
    BY <1>5 DEF Before
  <2>2. Cardinality(Before(l, i + 1)) = n + 1
    BY <1>2, <1>3, <2>1, FS_AddElement
  <2>3. Cardinality(Before(l, i + 1)) <= Cardinality(Before(l, 5)) /\ Cardinality(Before(l, 5)) = Len(l.prims)
    <3>1. i + 1 \in 1 .. 5
      OBVIOUS
    <3> QED BY <1>1, <3>1, BeforeFinite DEF TablesOK
  <2> QED BY <2>2, <2>3
<1>6. ASSUME ~IsPart(e) PROVE Cardinality(Before(l, i + 1)) = n
  <2>1. Before(l, i + 1) = Before(l, i)
    BY <1>6 DEF Before
  <2> QED BY <2>1
<1>7. ASSUME e.type = Extended
      PROVE  ~Past(l, i) /\ l.chain # <<>> /\ l.chain[1] = e.start
  <2>1. /\ l.chain # <<>> /\ e.start = l.chain[1]
        /\ \A j \in 1 .. 4 : Table(l, 0)[j].type = Extended => j = i
    BY <1>1, <1>7 DEF TablesOK
  <2>2. \A j \in 1 .. i - 1 : j \in 1 .. 4 /\ j # i
    OBVIOUS
  <2> QED BY <2>1, <2>2 DEF Past
<1> QED BY <1>2, <1>4, <1>5, <1>6, <1>7

\* The partition that it describes.
LEMMA MasterPart ==
  ASSUME NEW l \in Layouts, NEW i \in 1 .. 4, IsPart(Table(l, 0)[i]),
         NEW n, n = Cardinality(Before(l, i)) + 1
  PROVE  l.prims[n] = [start |-> Table(l, 0)[i].start, cnt |-> Table(l, 0)[i].cnt]
<1>1. TablesOK(l)
  BY LayoutTypes
<1> QED BY <1>1 DEF TablesOK

\* The ends of the master boot record.
LEMMA MasterEnds ==
  ASSUME NEW l \in Layouts
  PROVE  /\ ~Past(l, 1) /\ Cardinality(Before(l, 1)) = 0
         /\ Cardinality(Before(l, 5)) = Len(l.prims)
         /\ Past(l, 5) <=> l.chain # <<>>
         /\ Len(l.logics) = Len(l.chain)
<1>1. TablesOK(l)
  BY LayoutTypes
<1>2. Past(l, 5) <=> \E j \in 1 .. 4 : Table(l, 0)[j].type = Extended
  BY DEF Past
<1>3. Past(l, 5) <=> l.chain # <<>>
  BY <1>1, <1>2 DEF TablesOK
<1> QED BY <1>1, <1>3, BeforeFinite DEF TablesOK, Past

\* A table that is not the master boot record has a partition in its first entry, and
\* the next table's in its second.
LEMMA OtherEntry ==
  ASSUME NEW l \in Layouts, NEW lba, lba # 0, NEW i \in 1 .. 4
  PROVE  LET e == Table(l, lba)[i] IN
           /\ i = 1 => e.type # Extended
           /\ i # 1 => ~IsPart(e)
           /\ i > 2 => e.type = Empty
<1>1. TablesOK(l)
  BY LayoutTypes
<1>2. CASE lba \in DOMAIN l.tables
  <2>1. /\ l.tables[lba][1].type # Extended /\ ~IsPart(l.tables[lba][2])
        /\ \A k \in 3 .. 4 : l.tables[lba][k].type = Empty
    BY <1>1, <1>2 DEF TablesOK
  <2>2. i = 1 \/ i = 2 \/ i \in 3 .. 4
    OBVIOUS
  <2> QED BY <1>2, <2>1, <2>2 DEF Table, IsPart
<1>3. CASE lba \notin DOMAIN l.tables
  BY <1>3 DEF Table, NoTable, IsPart, Empty, Extended
<1> QED BY <1>2, <1>3

\* The tables of the chain.
LEMMA ChainEntry ==
  ASSUME NEW l \in Layouts, NEW k \in 1 .. Len(l.chain)
  PROVE  LET t == Table(l, l.chain[k]) IN
           /\ l.chain[k] \in Nat \ {0} /\ IsPart(t[1])
           /\ l.logics[k] = [start |-> l.chain[k] + t[1].start, cnt |-> t[1].cnt]
           /\ t[2].type = Extended => k < Len(l.chain) /\ t[2].start + l.chain[1] = l.chain[k + 1]
           /\ t[2].type = Empty => k = Len(l.chain)
<1>1. TablesOK(l) /\ l.chain \in Seq(Nat) /\ Len(l.chain) \in Nat
  BY LayoutTypes, LenProperties
<1>2. l.chain[k] \in Nat
  BY <1>1, ElementOfSeq
<1>3. LET t == Table(l, l.chain[k]) IN
        /\ l.chain[k] # 0 /\ IsPart(t[1])
        /\ l.logics[k] = [start |-> l.chain[k] + t[1].start, cnt |-> t[1].cnt]
        /\ IF k < Len(l.chain) THEN t[2].type = Extended /\ t[2].start + l.chain[1] = l.chain[k + 1]
                               ELSE t[2].type = Empty
  BY <1>1 DEF TablesOK
<1> QED BY <1>1, <1>2, <1>3 DEF Extended, Empty

-----------------------------------------------------------------------------
(* The scan.                                                               *)

\* The innermost call.
LEMMA ScanFacts ==
  ASSUME IInv, phase = "scan", stack # <<>>
  PROVE  /\ layout[ch] \in Layouts /\ ch \in Chans
         /\ stack \in Seq(Calls) /\ Len(stack) \in Nat \ {0} /\ Top = stack[Len(stack)]
         /\ \A k \in 1 .. Len(stack) : stack[k] \in Calls /\ stack[k].lba \in Nat /\ stack[k].i \in 1 .. 5
         /\ Top.lba = 0 <=> Len(stack) = 1
         /\ Top.i <= 4 => /\ Top.i \in 1 .. 4 /\ Entry = Table(layout[ch], Top.lba)[Top.i]
                          /\ Entry.type \in Nat /\ Entry.start \in Nat /\ Entry.cnt \in Nat
         /\ ShapeOK /\ ChainOK
<1>1. StateOK /\ ShapeOK /\ ChainOK
  BY DEF IInv, ScanOK
<1>2. layout[ch] \in Layouts /\ ch \in Chans /\ stack \in Seq(Calls)
  BY <1>1 DEF StateOK, Calls
<1>3. Len(stack) \in Nat \ {0}
  BY <1>2, EmptySeq
<1>4. \A k \in 1 .. Len(stack) : stack[k] \in Calls /\ stack[k].lba \in Nat /\ stack[k].i \in 1 .. 5
  <2>1. \A k \in 1 .. Len(stack) : stack[k] \in Calls
    BY <1>2, ElementOfSeq
  <2> QED BY <2>1 DEF Calls
<1>5. Top = stack[Len(stack)] /\ Len(stack) \in 1 .. Len(stack)
  BY <1>3 DEF Top
<1>6. Top.lba = 0 <=> Len(stack) = 1
  BY <1>1, <1>5 DEF ShapeOK
<1>7. ASSUME Top.i <= 4
      PROVE  /\ Top.i \in 1 .. 4 /\ Entry = Table(layout[ch], Top.lba)[Top.i]
             /\ Entry.type \in Nat /\ Entry.start \in Nat /\ Entry.cnt \in Nat
  <2>1. Top.i \in 1 .. 4
    BY <1>4, <1>5, <1>7
  <2>2. Table(layout[ch], Top.lba)[Top.i] \in Entries
    BY <1>2, <2>1, LayoutTypes
  <2> QED BY <2>1, <2>2 DEF Entry, Entries
<1> QED BY <1>1, <1>2, <1>3, <1>4, <1>5, <1>6, <1>7

\* A scan does not touch the disks.
LEMMA ScanQuiet ==
  ASSUME IInv, phase = "scan", phase' \in {"scan", "panic"}, UNCHANGED <<diskVars, ch, idx, todo, cur>>
  PROVE  /\ SearchOK' /\ DiskOK' /\ FormatOK' /\ MountedWhole'
         /\ layout' = layout /\ ch' = ch /\ idx' = idx /\ idx = 0
<1>1. layout' = layout /\ disk' = disk /\ torn' = torn
  BY DEF diskVars
<1>2. SearchOK' /\ FormatOK' /\ MountedWhole'
  BY DEF SearchOK, Searching, FormatOK, MountedWhole
<1>3. DiskOK'
  BY <1>1 DEF IInv, DiskOK, Clean, HasSuper, Complete, Get, Parts
<1> QED BY <1>1, <1>2, <1>3 DEF IInv, ScanOK

\* Partitions of the disks before and behind stay as they are.
LEMMA ScanOthers ==
  ASSUME IInv, phase = "scan", layout' = layout, ch' = ch,
         \A c \in Chans : c # ch => prim'[c] = prim[c] /\ logic'[c] = logic[c]
  PROVE  \A c \in Chans : (c < ch' => Scanned(c)') /\ (c > ch' => prim'[c] = <<>> /\ logic'[c] = <<>>)
<1>1. \A c \in Chans : (c < ch => Scanned(c)) /\ (c > ch => prim[c] = <<>> /\ logic[c] = <<>>)
  BY DEF IInv, ScanOK
<1>2. ch \in Int /\ \A c \in Chans : c \in Int
  BY DEF IInv, StateOK, Chans
<1>3. \A c \in Chans : c # ch => (Scanned(c)' <=> Scanned(c))
  BY DEF Scanned, Good
<1> QED BY <1>1, <1>2, <1>3

\* ext_lba_base is set once.
LEMMA BaseKept ==
  ASSUME IInv, phase = "scan", layout' = layout, ch' = ch, base # 0 => base' = base
  PROVE  ~Good(ch)' => BaseFrom(ch)'
<1> SUFFICES ASSUME ~Good(ch)' PROVE BaseFrom(ch)'
  OBVIOUS
<1>1. ~Good(ch)
  BY DEF Good
<1>2. PICK d \in 0 .. ch - 1 : layout[d].chain # <<>> /\ base = layout[d].chain[1]
  BY <1>1 DEF IInv, ScanOK, BaseFrom
<1>3. base # 0
  <2>1. layout[d] \in Layouts
    <3>1. d \in Chans
      BY FileSysAssumption DEF IInv, StateOK, Chans
    <3> QED BY <3>1 DEF IInv, StateOK
  <2>2. 1 \in 1 .. Len(layout[d].chain)
    BY <1>2, <2>1, LayoutTypes, EmptySeq
  <2> QED BY <1>2, <2>1, <2>2, ChainEntry
<1> QED BY <1>2, <1>3 DEF BaseFrom

\* The next entry, or a table that ends.
LEMMA ScanEmptyStep ==
  ASSUME IInv, ScanEmpty
  PROVE  IInv'
<1> DEFINE l == layout[ch]
           n == Len(stack)
           i == stack[n].i
<1>0. /\ phase = "scan" /\ stack # <<>> /\ Top.i <= 4 /\ Entry.type = Empty
      /\ stack' = [stack EXCEPT ![n].i = @ + 1]
      /\ UNCHANGED <<diskVars, phase, ch, base, prim, logic, lost, idx, todo, cur>>
  BY DEF ScanEmpty, NextEntry
<1>1. /\ l \in Layouts /\ ch \in Chans /\ stack \in Seq(Calls) /\ n \in Nat \ {0} /\ Top = stack[n]
      /\ \A k \in 1 .. n : stack[k] \in Calls /\ stack[k].lba \in Nat /\ stack[k].i \in 1 .. 5
      /\ Top.lba = 0 <=> n = 1
      /\ i \in 1 .. 4 /\ Entry = Table(l, Top.lba)[i]
      /\ ShapeOK /\ ChainOK
  BY <1>0, ScanFacts
<1>2. /\ SearchOK' /\ DiskOK' /\ FormatOK' /\ MountedWhole'
      /\ layout' = layout /\ ch' = ch /\ idx' = idx /\ idx = 0
  BY <1>0, ScanQuiet
<1>3. /\ stack' \in Seq(Calls) /\ Len(stack') = n
      /\ \A k \in 1 .. n : stack'[k].lba = stack[k].lba /\ (k # n => stack'[k] = stack[k])
      /\ stack'[n].i = i + 1 /\ stack'[n].lba = stack[n].lba
  <2>1. stack[n].i <= 4 /\ n \in 1 .. n
    BY <1>1
  <2> QED BY <1>0, <1>1, <2>1, Bumped
<1>4. StateOK' /\ LimitsOK' /\ PanicExplained'
  BY <1>0, <1>2, <1>3 DEF IInv, StateOK, LimitsOK, PanicExplained, diskVars, Calls
<1>5. Top' = stack'[n] /\ stack' # <<>> /\ prim' = prim /\ logic' = logic /\ base' = base
  <2>1. Top' = stack'[Len(stack')]
    BY DEF Top
  <2> QED BY <1>0, <1>1, <1>3, <2>1, EmptySeq
<1> HIDE DEF l, n, i
<1>6. ~IsPart(Entry) /\ Entry.type # Extended
  BY <1>0 DEF IsPart, Empty, Extended
<1>7. n = 1 => /\ stack'[1].i = i + 1 /\ stack[1].i = i
               /\ Cardinality(Before(l, i + 1)) = Cardinality(Before(l, i))
               /\ Past(l, i + 1) <=> Past(l, i)
  <2>1. LET e == Table(l, 0)[i] IN
          /\ ~IsPart(e) => Cardinality(Before(l, i + 1)) = Cardinality(Before(l, i))
          /\ Past(l, i + 1) <=> Past(l, i) \/ e.type = Extended
    <3>1. l \in Layouts /\ i \in 1 .. 4
      BY <1>1
    <3> QED BY <3>1, MasterEntry
  <2>2. n = 1 => Entry = Table(l, 0)[i] /\ stack'[1].i = i + 1
    BY <1>1, <1>3
  <2>3. n = 1 => stack[1].i = i
    BY DEF i
  <2> QED BY <1>6, <2>1, <2>2, <2>3
<1>8. /\ Cardinality(Before(l, stack'[1].i)) = Cardinality(Before(l, stack[1].i))
      /\ Past(l, stack'[1].i) <=> Past(l, stack[1].i)
  <2>1. n # 1 => stack'[1] = stack[1]
    BY <1>1, <1>3
  <2> QED BY <1>7, <2>1
<1>9. ShapeOK'
  <2>1. \A k \in 1 .. n : stack'[k].lba = 0 <=> k = 1
    BY <1>1, <1>3 DEF ShapeOK, n
  <2>2. \A k \in 2 .. n - 1 : stack'[k].i >= 3
    <3>1. \A k \in 2 .. n - 1 : stack'[k] = stack[k]
      BY <1>1, <1>3
    <3> QED BY <1>1, <3>1 DEF ShapeOK, n
  <2>3. n >= 2 => Past(l, stack'[1].i) /\ base' # 0
    BY <1>1, <1>5, <1>8 DEF ShapeOK, n, l
  <2>4. n >= 2 /\ stack'[n].i <= 2 => Len(logic'[ch]) < MaxLogic
    BY <1>1, <1>3, <1>5 DEF ShapeOK, n, i
  <2>5. /\ Taken(prim'[ch], l.prims, Cardinality(Before(l, stack'[1].i)))
        /\ ~Past(l, stack'[1].i) => logic'[ch] = <<>>
    BY <1>0, <1>1, <1>5, <1>8 DEF ShapeOK, l
  <2> QED BY <1>2, <1>3, <1>5, <2>1, <2>2, <2>3, <2>4, <2>5 DEF ShapeOK, l
<1>10. ChainOK'
  <2> SUFFICES ASSUME Good(ch)
               PROVE  /\ base = IF Past(l, stack[1].i) THEN l.chain[1] ELSE 0
                      /\ \A k \in 2 .. n : k - 1 <= Len(l.chain) /\ stack'[k].lba = l.chain[k - 1]
                      /\ Past(l, stack[1].i) =>
                           Taken(logic[ch], l.logics,
                                 IF n >= 2 /\ i + 1 <= 2 THEN n - 3 + (i + 1) ELSE Final(l))
    BY <1>2, <1>3, <1>5, <1>8 DEF ChainOK, l, Good, Final
  <2>1. /\ base = IF Past(l, stack[1].i) THEN l.chain[1] ELSE 0
        /\ \A k \in 2 .. n : k - 1 <= Len(l.chain) /\ stack[k].lba = l.chain[k - 1]
        /\ Past(l, stack[1].i) =>
             Taken(logic[ch], l.logics, IF n >= 2 /\ i <= 2 THEN n - 3 + i ELSE Final(l))
    BY <1>0, <1>1 DEF ChainOK, l, n, i
  <2>2. \A k \in 2 .. n : stack'[k].lba = l.chain[k - 1]
    BY <1>1, <1>3, <2>1
  <2>3. ASSUME n >= 2, i <= 2, Past(l, stack[1].i)
        PROVE  i = 2 /\ Taken(logic[ch], l.logics, Final(l))
    <3>1. Top.lba = l.chain[n - 1] /\ n - 1 \in 1 .. Len(l.chain)
      <4>1. n \in 2 .. n /\ n - 1 <= Len(l.chain) /\ stack[n].lba = l.chain[n - 1]
        BY <1>1, <2>1, <2>3
      <4>2. Len(l.chain) \in Nat
        BY <1>1, LayoutTypes, LenProperties
      <4> QED BY <1>1, <2>3, <4>1, <4>2
    <3>2. IsPart(Table(l, Top.lba)[1]) /\ (Table(l, Top.lba)[2].type = Empty => n - 1 = Len(l.chain))
      <4>1. PICK k \in 1 .. Len(l.chain) : k = n - 1
        BY <3>1
      <4>2. l \in Layouts
        BY <1>1
      <4>3. IsPart(Table(l, l.chain[k])[1]) /\ (Table(l, l.chain[k])[2].type = Empty => k = Len(l.chain))
        BY <4>2, ChainEntry
      <4> QED BY <3>1, <4>1, <4>3
    <3>3. i = 2
      BY <1>1, <1>6, <2>3, <3>2
    <3>4. n - 1 = Len(l.logics)
      BY <1>0, <1>1, <3>2, <3>3, MasterEnds
    <3>5. Taken(logic[ch], l.logics, n - 1) /\ Len(logic[ch]) < MaxLogic
      <4>1. n - 3 + 2 = n - 1
        BY <1>1
      <4> QED BY <1>1, <2>1, <2>3, <3>3, <4>1 DEF ShapeOK, n, i
    <3>6. Final(l) = n - 1
      BY <3>4, <3>5 DEF Final, Taken
    <3> QED BY <3>3, <3>5, <3>6
  <2>4. ~(n >= 2 /\ i <= 2) => ~(n >= 2 /\ i + 1 <= 2)
    BY <1>1
  <2> QED BY <1>1, <2>1, <2>2, <2>3, <2>4
<1>11. ScanOK'
  BY <1>0, <1>2, <1>5, <1>9, <1>10, ScanOthers, BaseKept DEF ScanOK
<1> QED BY <1>2, <1>4, <1>11 DEF IInv

\* A primary partition is found, or the last that the array can hold.
LEMMA ScanPrimaryStep ==
  ASSUME IInv, ScanPrimary
  PROVE  IInv'
<1> DEFINE l == layout[ch]
           n == Len(stack)
           i == stack[n].i
           m == Cardinality(Before(l, i))
<1>0. /\ phase = "scan" /\ stack # <<>> /\ Top.i <= 4 /\ Entry.type \notin {Empty, Extended} /\ Top.lba = 0
      /\ prim' = [prim EXCEPT ![ch] = Append(@, Found)]
      /\ phase' = IF Len(prim[ch]) + 1 < MaxPrim THEN phase ELSE "panic"
      /\ stack' = [stack EXCEPT ![n].i = @ + 1]
      /\ UNCHANGED <<diskVars, ch, base, logic, lost, idx, todo, cur>>
  BY DEF ScanPrimary, NextEntry
<1>1. /\ l \in Layouts /\ ch \in Chans /\ stack \in Seq(Calls) /\ n = 1 /\ Top = stack[1]
      /\ i \in 1 .. 4 /\ Entry = Table(l, 0)[i] /\ stack[1].i = i
      /\ Entry.start \in Nat /\ Entry.cnt \in Nat
      /\ ShapeOK /\ ChainOK
  BY <1>0, ScanFacts
<1>2. /\ SearchOK' /\ DiskOK' /\ FormatOK' /\ MountedWhole'
      /\ layout' = layout /\ ch' = ch /\ idx' = idx /\ idx = 0
  BY <1>0, ScanQuiet
<1>3. /\ stack' \in Seq(Calls) /\ Len(stack') = 1 /\ stack' # <<>>
      /\ stack'[1].lba = 0 /\ stack'[1].i = i + 1
  <2>1. stack[n].i <= 4 /\ n \in 1 .. n
    BY <1>1
  <2>2. /\ stack' \in Seq(Calls) /\ Len(stack') = n
        /\ stack'[n].lba = stack[n].lba /\ stack'[n].i = i + 1
    BY <1>0, <1>1, <2>1, Bumped
  <2>3. stack' # <<>>
    BY <1>1, <2>2, EmptySeq
  <2> QED BY <1>0, <1>1, <2>2, <2>3
<1>4. /\ prim \in [Chans -> Seq(Extents)] /\ MaxPrim \in Nat \ {0} /\ prim[ch] \in Seq(Extents)
      /\ \A c \in Chans : Len(prim[c]) \in Nat /\ Len(prim[c]) < MaxPrim
  <2>1. prim \in [Chans -> Seq(Extents)]
    BY DEF IInv, StateOK, Extents
  <2>2. \A c \in Chans : Len(prim[c]) < MaxPrim
    BY <1>0 DEF IInv, LimitsOK
  <2>3. \A c \in Chans : Len(prim[c]) \in Nat
    BY <2>1, LenProperties
  <2> QED BY <1>1, <2>1, <2>2, <2>3, FileSysAssumption
<1> HIDE DEF l, n, i, m
<1>5. /\ m \in Nat /\ Cardinality(Before(l, i + 1)) = m + 1 /\ m + 1 <= Len(l.prims)
      /\ Past(l, i + 1) <=> Past(l, i)
      /\ l.prims[m + 1] = [start |-> Entry.start, cnt |-> Entry.cnt]
  <2>1. l \in Layouts /\ i \in 1 .. 4 /\ Entry = Table(l, 0)[i]
    BY <1>1
  <2>2. IsPart(Table(l, 0)[i]) /\ Table(l, 0)[i].type # Extended
    BY <1>0, <2>1 DEF IsPart
  <2>3. /\ m \in Nat /\ Cardinality(Before(l, i + 1)) = m + 1 /\ m + 1 <= Len(l.prims)
        /\ Past(l, i + 1) <=> Past(l, i)
    BY <2>1, <2>2, MasterEntry DEF m
  <2>4. l.prims[m + 1] = [start |-> Entry.start, cnt |-> Entry.cnt]
    BY <2>1, <2>2, MasterPart DEF m
  <2> QED BY <2>3, <2>4
<1>6. Found = l.prims[m + 1] /\ Found \in Extents
  <2>1. Found = [start |-> Entry.start, cnt |-> Entry.cnt]
    BY <1>0, <1>1 DEF Found
  <2> QED BY <1>1, <1>5, <2>1 DEF Extents
<1>7. Taken(prim[ch], l.prims, m) /\ (~Past(l, i) => logic[ch] = <<>>)
  BY <1>0, <1>1 DEF ShapeOK, l, m
<1>8. Taken(Append(prim[ch], Found), l.prims, m + 1) /\ Len(prim[ch]) = m
  <2>1. l.prims \in Seq(Extents)
    BY <1>1, LayoutTypes
  <2>2. /\ m \in Nat /\ m + 1 <= Len(l.prims) /\ Found \in Extents /\ Found = l.prims[m + 1]
        /\ Taken(prim[ch], l.prims, m)
    BY <1>5, <1>6, <1>7
  <2>3. Taken(Append(prim[ch], Found), l.prims, m + 1)
    BY <2>1, <2>2, TakenAppend
  <2> QED BY <2>2, <2>3 DEF Taken
<1>9. /\ prim' \in [Chans -> Seq(Extents)] /\ prim'[ch] = Append(prim[ch], Found)
      /\ \A c \in Chans : c # ch => prim'[c] = prim[c]
      /\ Len(prim'[ch]) = m + 1
  <2>1. Append(prim[ch], Found) \in Seq(Extents) /\ Len(Append(prim[ch], Found)) = m + 1
    BY <1>4, <1>6, <1>8, AppendProperties
  <2> QED BY <1>0, <1>1, <1>4, <2>1
<1>10. StateOK'
  BY <1>0, <1>2, <1>3, <1>9 DEF IInv, StateOK, diskVars, Calls, Extents
<1>11. LimitsOK'
  <2>1. \A c \in Chans : Len(prim'[c]) <= MaxPrim /\ (phase' # "panic" => Len(prim'[c]) < MaxPrim)
    <3> SUFFICES ASSUME NEW c \in Chans
                 PROVE  Len(prim'[c]) <= MaxPrim /\ (phase' # "panic" => Len(prim'[c]) < MaxPrim)
      OBVIOUS
    <3>1. CASE c = ch
      BY <1>0, <1>4, <1>5, <1>8, <1>9, <3>1
    <3>2. CASE c # ch
      BY <1>4, <1>9, <3>2
    <3> QED BY <3>1, <3>2
  <2> QED BY <1>0, <2>1 DEF IInv, LimitsOK
<1>12. PanicExplained'
  <2>1. phase' = "panic" => Len(layout[ch].prims) >= MaxPrim
    <3>1. Len(l.prims) \in Nat
      BY <1>1, LayoutTypes, LenProperties
    <3> QED BY <1>0, <1>4, <1>5, <1>8, <3>1 DEF l
  <2> QED BY <1>1, <1>2, <2>1 DEF PanicExplained
<1>13. ShapeOK'
  <2>1. Taken(prim'[ch], l.prims, Cardinality(Before(l, stack'[1].i)))
    BY <1>3, <1>5, <1>8, <1>9
  <2>2. ~Past(l, stack'[1].i) => logic'[ch] = <<>>
    BY <1>0, <1>3, <1>5, <1>7
  <2> QED BY <1>2, <1>3, <2>1, <2>2 DEF ShapeOK, l
<1>14. ChainOK'
  <2> SUFFICES ASSUME Good(ch)
               PROVE  /\ base = IF Past(l, i) THEN l.chain[1] ELSE 0
                      /\ Past(l, i) => Taken(logic[ch], l.logics, Final(l))
    <3>1. /\ layout'[ch'] = l /\ logic'[ch'] = logic[ch] /\ base' = base /\ (Good(ch') <=> Good(ch))
          /\ Good(ch)' <=> Good(ch)
      BY <1>0, <1>2 DEF l, Good
    <3>2. ~(Len(stack') >= 2) /\ \A k : k \notin 2 .. Len(stack')
      BY <1>3
    <3>3. Past(l, stack'[1].i) <=> Past(l, i)
      BY <1>3, <1>5
    <3> QED BY <3>1, <3>2, <3>3 DEF ChainOK, Final
  <2> QED BY <1>0, <1>1 DEF ChainOK, l, n
<1>15. ScanOK'
  BY <1>0, <1>2, <1>3, <1>9, <1>13, <1>14, ScanOthers, BaseKept DEF ScanOK
<1> QED BY <1>2, <1>10, <1>11, <1>12, <1>15 DEF IInv

\* An extended partition: the first call's, or the one with the next table of the chain.
LEMMA ExtendedFacts ==
  ASSUME IInv, phase = "scan", stack # <<>>, Top.i <= 4, Entry.type = Extended
  PROVE  LET l == layout[ch]
             n == Len(stack) IN
           /\ n = 1 => /\ logic[ch] = <<>> /\ Entry.start = l.chain[1] /\ l.chain[1] \in Nat \ {0}
                       /\ 1 <= Len(l.chain) /\ ~Past(l, stack[1].i)
           /\ n # 1 => n >= 2 /\ base # 0 /\ Top.i = 2 /\ Len(logic[ch]) < MaxLogic
<1> DEFINE l == layout[ch]
           n == Len(stack)
           i == stack[n].i
<1>1. /\ l \in Layouts /\ ch \in Chans /\ n \in Nat \ {0} /\ Top = stack[n]
      /\ Top.lba = 0 <=> n = 1
      /\ i \in 1 .. 4 /\ Top.i = i /\ Entry = Table(l, Top.lba)[i]
      /\ ShapeOK /\ ChainOK
  BY ScanFacts
<1> HIDE DEF l, n, i
<1>2. CASE n = 1
  <2>1. l \in Layouts /\ i \in 1 .. 4 /\ Table(l, 0)[i].type = Extended /\ stack[1].i = i
    BY <1>1, <1>2 DEF n, i
  <2>2. ~Past(l, i) /\ l.chain # <<>> /\ l.chain[1] = Table(l, 0)[i].start
    BY <2>1, MasterEntry
  <2>3. 1 \in 1 .. Len(l.chain)
    BY <2>1, <2>2, LayoutTypes, EmptySeq
  <2>4. l.chain[1] \in Nat \ {0}
    BY <2>1, <2>3, ChainEntry
  <2>5. logic[ch] = <<>>
    BY <1>1, <2>1, <2>2 DEF ShapeOK, l
  <2>6. Entry.start = l.chain[1]
    BY <1>1, <1>2, <2>2
  <2> QED BY <1>2, <2>1, <2>2, <2>3, <2>4, <2>5, <2>6 DEF l, n
<1>3. CASE n # 1
  <2>1. n >= 2
    BY <1>1, <1>3
  <2>2. i = 2
    BY <1>1, <1>3, OtherEntry DEF Empty, Extended
  <2>3. base # 0 /\ Len(logic[ch]) < MaxLogic
    BY <1>1, <2>1, <2>2 DEF ShapeOK, n
  <2> QED BY <1>1, <1>3, <2>1, <2>2, <2>3 DEF n
<1> QED BY <1>2, <1>3

\* If ext_lba_base was 0, it has the place of the next table of the chain.
LEMMA NextTable ==
  ASSUME IInv, phase = "scan", stack # <<>>, Top.i <= 4, Entry.type = Extended, Good(ch)
  PROVE  LET l == layout[ch]
             n == Len(stack) IN
           /\ n <= Len(l.chain) /\ Entry.start + base = l.chain[n]
           /\ Taken(logic[ch], l.logics, n - 1)
<1> DEFINE l == layout[ch]
           n == Len(stack)
           i == stack[n].i
<1>1. /\ l \in Layouts /\ ch \in Chans /\ n \in Nat \ {0} /\ Top = stack[n]
      /\ i \in 1 .. 4 /\ Top.i = i /\ Entry = Table(l, Top.lba)[i]
      /\ ShapeOK /\ ChainOK
  BY ScanFacts
<1>2. /\ n = 1 => /\ logic[ch] = <<>> /\ Entry.start = l.chain[1] /\ l.chain[1] \in Nat \ {0}
                  /\ 1 <= Len(l.chain) /\ ~Past(l, stack[1].i)
      /\ n # 1 => n >= 2 /\ base # 0 /\ i = 2 /\ Len(logic[ch]) < MaxLogic
  BY <1>1, ExtendedFacts
<1>3. /\ base = IF Past(l, stack[1].i) THEN l.chain[1] ELSE 0
      /\ \A k \in 2 .. n : k - 1 <= Len(l.chain) /\ stack[k].lba = l.chain[k - 1]
      /\ Past(l, stack[1].i) =>
           Taken(logic[ch], l.logics, IF n >= 2 /\ i <= 2 THEN n - 3 + i ELSE Final(l))
  BY <1>1 DEF ChainOK, l, n
<1> HIDE DEF l, n, i
<1>4. CASE n = 1
  <2>1. base = 0 /\ Entry.start + base = l.chain[1] /\ n - 1 = 0 /\ n <= Len(l.chain)
    BY <1>2, <1>3, <1>4
  <2>2. l.logics \in Seq(Extents)
    BY <1>1, LayoutTypes
  <2>3. Taken(logic[ch], l.logics, n - 1)
    BY <1>2, <1>4, <2>1, <2>2, TakenEnds
  <2> QED BY <1>4, <2>1, <2>3 DEF l, n
<1>5. CASE n # 1
  <2>1. Past(l, stack[1].i) /\ base = l.chain[1]
    <3>1. Past(l, stack[1].i)
      BY <1>1, <1>2, <1>5 DEF ShapeOK, l, n
    <3> QED BY <1>3, <3>1
  <2>2. n \in 2 .. n /\ n - 3 + i = n - 1 /\ n >= 2 /\ i <= 2
    BY <1>1, <1>2, <1>5
  <2>3. Taken(logic[ch], l.logics, n - 1)
    BY <1>3, <2>1, <2>2
  <2>4. Top.lba = l.chain[n - 1] /\ n - 1 <= Len(l.chain) /\ Len(l.chain) \in Nat
    BY <1>1, <1>3, <2>2, LayoutTypes, LenProperties
  <2>5. PICK k \in 1 .. Len(l.chain) : k = n - 1
    BY <1>1, <2>2, <2>4
  <2>6. Table(l, l.chain[k])[2].type = Extended =>
          k < Len(l.chain) /\ Table(l, l.chain[k])[2].start + l.chain[1] = l.chain[k + 1]
    BY <1>1, ChainEntry
  <2>7. k + 1 = n /\ Entry = Table(l, l.chain[k])[2]
    BY <1>1, <1>2, <1>5, <2>4, <2>5
  <2>8. n <= Len(l.chain) /\ Entry.start + base = l.chain[n]
    BY <1>1, <2>1, <2>4, <2>6, <2>7
  <2> QED BY <2>3, <2>8 DEF l, n
<1> QED BY <1>4, <1>5

\* The call for the extended partition, or for the next table of the chain.
LEMMA ScanExtendedStep ==
  ASSUME IInv, ScanExtended
  PROVE  IInv'
<1> DEFINE l == layout[ch]
           n == Len(stack)
           i == stack[n].i
           at == Entry.start + base
<1>0. /\ phase = "scan" /\ stack # <<>> /\ Top.i <= 4 /\ Entry.type = Extended
      /\ stack' = Append([stack EXCEPT ![n].i = @ + 1], [lba |-> at, i |-> 1])
      /\ base' = IF base # 0 THEN base ELSE Entry.start
      /\ UNCHANGED <<diskVars, phase, ch, prim, logic, lost, idx, todo, cur>>
  BY DEF ScanExtended
<1>1. /\ l \in Layouts /\ ch \in Chans /\ stack \in Seq(Calls) /\ n \in Nat \ {0} /\ Top = stack[n]
      /\ Top.lba = 0 <=> n = 1
      /\ i \in 1 .. 4 /\ Top.i = i /\ Entry = Table(l, Top.lba)[i] /\ Entry.start \in Nat
      /\ ShapeOK /\ ChainOK
  BY <1>0, ScanFacts
<1>2. /\ SearchOK' /\ DiskOK' /\ FormatOK' /\ MountedWhole'
      /\ layout' = layout /\ ch' = ch /\ idx' = idx /\ idx = 0
  BY <1>0, ScanQuiet
<1>3. base \in Nat /\ at \in Nat /\ MaxLogic \in Nat \ {0}
  <2>1. base \in Nat
    BY DEF IInv, StateOK
  <2>2. MaxLogic \in Nat \ {0}
    BY FileSysAssumption
  <2>3. Entry.start \in Nat
    BY <1>1
  <2>4. at \in Nat
    BY <2>1, <2>3
  <2> QED BY <2>1, <2>2, <2>4
<1>4. /\ stack' \in Seq(Calls) /\ Len(stack') = n + 1 /\ stack' # <<>>
      /\ \A k \in 1 .. n : stack'[k].lba = stack[k].lba /\ (k # n => stack'[k] = stack[k])
      /\ stack'[n].i = i + 1
      /\ stack'[n + 1].lba = at /\ stack'[n + 1].i = 1
  <2>1. stack[n].i <= 4 /\ n \in 1 .. n
    BY <1>1
  <2>2. /\ stack' \in Seq(Calls) /\ Len(stack') = n + 1
        /\ \A k \in 1 .. n : stack'[k].lba = stack[k].lba /\ (k # n => stack'[k] = stack[k])
        /\ stack'[n].i = i + 1
        /\ stack'[n + 1].lba = at /\ stack'[n + 1].i = 1
    <3> HIDE DEF at
    <3>1. /\ stack \in Seq(Calls) /\ stack # <<>> /\ stack[n].i <= 4 /\ at \in Nat
          /\ stack' = Append([stack EXCEPT ![n].i = @ + 1], [lba |-> at, i |-> 1])
      BY <1>0, <1>1, <1>3, <2>1
    <3> QED BY <3>1, Called
  <2>3. stack' # <<>>
    BY <1>1, <2>2, EmptySeq
  <2> QED BY <2>2, <2>3
<1>5. StateOK' /\ LimitsOK' /\ PanicExplained'
  <2>1. base' \in Nat
    BY <1>0, <1>1, <1>3
  <2> QED BY <1>0, <1>2, <1>4, <2>1 DEF IInv, StateOK, LimitsOK, PanicExplained, diskVars, Calls
<1>6. Top' = stack'[n + 1] /\ Top'.i = 1 /\ prim' = prim /\ logic' = logic
  <2>1. Top' = stack'[Len(stack')]
    BY DEF Top
  <2> QED BY <1>0, <1>4, <2>1
<1> HIDE DEF l, n, i, at
\* The first call is behind its extended partition.
<1>7. /\ Past(l, stack'[1].i)
      /\ Taken(prim[ch], l.prims, Cardinality(Before(l, stack'[1].i)))
  <2>1. CASE n = 1
    <3>1. l \in Layouts /\ i \in 1 .. 4 /\ Table(l, 0)[i].type = Extended /\ stack[1].i = i
      BY <1>0, <1>1, <2>1 DEF n, i
    <3>2. ~IsPart(Table(l, 0)[i])
      BY <3>1 DEF IsPart
    <3>3. Past(l, i + 1) /\ Cardinality(Before(l, i + 1)) = Cardinality(Before(l, i))
      BY <3>1, <3>2, MasterEntry
    <3>4. Taken(prim[ch], l.prims, Cardinality(Before(l, i)))
      BY <1>0, <1>1, <3>1 DEF ShapeOK, l
    <3> QED BY <1>4, <2>1, <3>3, <3>4
  <2>2. CASE n # 1
    <3>1. stack'[1] = stack[1] /\ n >= 2
      BY <1>1, <1>4, <2>2
    <3> QED BY <1>0, <1>1, <3>1 DEF ShapeOK, l, n
  <2> QED BY <2>1, <2>2
\* Where the next table is.
<1>8. /\ n = 1 => /\ logic[ch] = <<>> /\ Entry.start = l.chain[1] /\ l.chain[1] \in Nat \ {0}
                  /\ 1 <= Len(l.chain) /\ ~Past(l, stack[1].i)
      /\ n # 1 => n >= 2 /\ base # 0 /\ i = 2 /\ Len(logic[ch]) < MaxLogic
  BY <1>0, <1>1, ExtendedFacts DEF l, n
<1>9. at # 0 /\ base' # 0
  <2>1. Entry.start \in Nat /\ base \in Nat /\ (Entry.start # 0 \/ base # 0)
    BY <1>1, <1>3, <1>8
  <2>2. Entry.start + base # 0
    BY <2>1
  <2> QED BY <1>0, <2>1, <2>2 DEF at
<1>10. ShapeOK'
  <2>1. \A k \in 1 .. n + 1 : stack'[k].lba = 0 <=> k = 1
    <3>1. \A k \in 1 .. n : stack'[k].lba = 0 <=> k = 1
      BY <1>1, <1>4 DEF ShapeOK, n
    <3>2. \A k \in 1 .. n + 1 : k \in 1 .. n \/ (k = n + 1 /\ k # 1)
      BY <1>1
    <3> QED BY <1>4, <1>9, <3>1, <3>2
  <2>2. \A k \in 2 .. n : stack'[k].i >= 3
    <3>1. ASSUME NEW k \in 2 .. n - 1 PROVE stack'[k].i >= 3
      <4>1. stack[k].i >= 3
        BY <1>1 DEF ShapeOK, n
      <4>2. k \in 1 .. n /\ k # n
        BY <1>1
      <4>3. stack'[k] = stack[k]
        BY <1>4, <4>2
      <4> QED BY <4>1, <4>3
    <3>2. \A k \in 2 .. n : k \in 2 .. n - 1 \/ (k = n /\ n # 1)
      BY <1>1
    <3>3. n # 1 => stack'[n].i = 3
      BY <1>4, <1>8
    <3> QED BY <3>1, <3>2, <3>3
  <2>3. Len(logic'[ch]) < MaxLogic
    <3>1. Len(<<>>) = 0
      BY EmptySeq
    <3> QED BY <1>3, <1>6, <1>8, <3>1
  <2>4. (n + 1) - 1 = n
    BY <1>1
  <2> QED BY <1>2, <1>4, <1>6, <1>7, <1>9, <2>1, <2>2, <2>3, <2>4 DEF ShapeOK, l
<1>11. ChainOK'
  <2>1. /\ layout'[ch'] = l /\ ch' = ch /\ prim' = prim /\ logic' = logic
        /\ Good(ch)' <=> Good(ch)
    BY <1>0, <1>2 DEF l, Good
  <2>2. Len(stack') = n + 1 /\ n + 1 >= 2 /\ Top'.i <= 2 /\ (n + 1) - 3 + Top'.i = n - 1
    BY <1>1, <1>4, <1>6
  <2>3. ASSUME Good(ch)
        PROVE  /\ base' = l.chain[1]
               /\ n <= Len(l.chain) /\ at = l.chain[n]
               /\ Taken(logic[ch], l.logics, n - 1)
    <3>1. n <= Len(l.chain) /\ at = l.chain[n] /\ Taken(logic[ch], l.logics, n - 1)
      BY <1>0, <2>3, NextTable DEF l, n, at
    <3>2. base' = l.chain[1]
      <4>1. base = IF Past(l, stack[1].i) THEN l.chain[1] ELSE 0
        BY <1>0, <1>1, <2>3 DEF ChainOK, l
      <4>2. n # 1 => Past(l, stack[1].i)
        BY <1>1, <1>8 DEF ShapeOK, l, n
      <4> QED BY <1>0, <1>8, <4>1, <4>2
    <3> QED BY <3>1, <3>2
  <2>4. ASSUME Good(ch), NEW k \in 2 .. n + 1
        PROVE  k - 1 <= Len(l.chain) /\ stack'[k].lba = l.chain[k - 1]
    <3>1. CASE k = n + 1
      <4>1. n <= Len(l.chain) /\ at = l.chain[n]
        BY <2>3, <2>4
      <4>2. n \in Nat
        BY <1>1
      <4>3. k - 1 = n /\ stack'[k].lba = at
        BY <1>4, <3>1, <4>2
      <4> QED BY <4>1, <4>3
    <3>2. CASE k # n + 1
      <4>1. k \in 2 .. n /\ k \in 1 .. n
        BY <1>1, <2>4, <3>2
      <4>2. k - 1 <= Len(l.chain) /\ stack[k].lba = l.chain[k - 1]
        BY <1>0, <1>1, <2>4, <4>1 DEF ChainOK, l, n
      <4> QED BY <1>4, <4>1, <4>2
    <3> QED BY <3>1, <3>2
  <2> QED BY <1>7, <2>1, <2>2, <2>3, <2>4 DEF ChainOK
<1>12. ScanOK'
  BY <1>0, <1>2, <1>4, <1>6, <1>10, <1>11, ScanOthers, BaseKept DEF ScanOK
<1> QED BY <1>2, <1>5, <1>12 DEF IInv

\* A logical partition is found; the call goes on, or returns because that was the
\* last that the array can hold.
LEMMA ScanLogicalStep ==
  ASSUME IInv, ScanLogical
  PROVE  IInv'
<1> DEFINE l == layout[ch]
           n == Len(stack)
           m == Len(logic[ch])
           full == m + 1 >= MaxLogic
<1>0. /\ phase = "scan" /\ stack # <<>> /\ Top.i <= 4 /\ Entry.type \notin {Empty, Extended} /\ Top.lba # 0
      /\ logic' = [logic EXCEPT ![ch] = Append(@, Found)]
      /\ IF full THEN stack' = Front(stack) /\ lost' = lost + 1
                 ELSE stack' = [stack EXCEPT ![n].i = @ + 1] /\ lost' = lost
      /\ UNCHANGED <<diskVars, phase, ch, base, prim, idx, todo, cur>>
  BY DEF ScanLogical, NextEntry
<1>1. /\ l \in Layouts /\ ch \in Chans /\ stack \in Seq(Calls) /\ n \in Nat \ {0} /\ n >= 2 /\ Top = stack[n]
      /\ Top.lba \in Nat
      /\ Top.i \in 1 .. 4 /\ Entry = Table(l, Top.lba)[Top.i]
      /\ Entry.start \in Nat /\ Entry.cnt \in Nat
      /\ ShapeOK /\ ChainOK
  <2>1. /\ l \in Layouts /\ ch \in Chans /\ stack \in Seq(Calls) /\ n \in Nat \ {0} /\ Top = stack[n]
        /\ \A k \in 1 .. n : stack[k].lba \in Nat
        /\ Top.lba = 0 <=> n = 1
        /\ ShapeOK /\ ChainOK
    BY <1>0, ScanFacts
  <2>2. n >= 2 /\ Top.lba \in Nat
    <3>1. n # 1
      BY <1>0, <2>1
    <3>2. n \in Nat \ {0}
      BY <2>1
    <3>3. n >= 2 /\ n \in 1 .. n
      <4> HIDE DEF n
      <4> QED BY <3>1, <3>2
    <3> QED BY <2>1, <3>3
  <2>3. /\ Top.i \in 1 .. 4 /\ Entry = Table(l, Top.lba)[Top.i]
        /\ Entry.start \in Nat /\ Entry.cnt \in Nat
    BY <1>0, ScanFacts
  <2> QED BY <2>1, <2>2, <2>3
<1>2. /\ SearchOK' /\ DiskOK' /\ FormatOK' /\ MountedWhole'
      /\ layout' = layout /\ ch' = ch /\ idx' = idx /\ idx = 0
  BY <1>0, ScanQuiet
<1>3. Top.i = 1
  BY <1>0, <1>1, OtherEntry DEF IsPart
<1>4. /\ logic \in [Chans -> Seq(Extents)] /\ MaxLogic \in Nat \ {0} /\ lost \in Nat
      /\ m \in Nat /\ m < MaxLogic
  <2>1. logic \in [Chans -> Seq(Extents)] /\ lost \in Nat
    BY DEF IInv, StateOK, Extents
  <2>2. m < MaxLogic
    BY <1>1, <1>3 DEF ShapeOK
  <2> QED BY <1>1, <2>1, <2>2, LenProperties, FileSysAssumption
<1>5. /\ logic' \in [Chans -> Seq(Extents)] /\ logic'[ch] = Append(logic[ch], Found)
      /\ \A c \in Chans : c # ch => logic'[c] = logic[c]
      /\ Len(logic'[ch]) = m + 1 /\ Found \in Extents
  <2>1. Found \in Extents
    BY <1>1 DEF Found, Extents
  <2>2. logic[ch] \in Seq(Extents)
    BY <1>1, <1>4
  <2>3. Append(logic[ch], Found) \in Seq(Extents) /\ Len(Append(logic[ch], Found)) = m + 1
    BY <2>1, <2>2, AppendProperties
  <2> QED BY <1>0, <1>1, <1>4, <2>1, <2>3
<1>6. /\ stack' \in Seq(Calls) /\ Len(stack') \in {n - 1, n} /\ stack' # <<>>
      /\ full => Len(stack') = n - 1 /\ \A k \in 1 .. n - 1 : stack'[k] = stack[k]
      /\ ~full => /\ Len(stack') = n /\ stack'[n].i = 2
                  /\ \A k \in 1 .. n : stack'[k].lba = stack[k].lba /\ (k # n => stack'[k] = stack[k])
  <2>1. CASE full
    <3>1. /\ stack' \in Seq(Calls) /\ Len(stack') = n - 1
          /\ \A k \in 1 .. n - 1 : stack'[k] = stack[k]
      BY <1>0, <1>1, <2>1, Returned
    <3>2. stack' # <<>>
      BY <1>1, <3>1, EmptySeq
    <3> QED BY <2>1, <3>1, <3>2
  <2>2. CASE ~full
    <3>1. stack \in Seq(Calls) /\ stack # <<>> /\ stack[n].i = 1 /\ stack[n].i <= 4
      BY <1>0, <1>1, <1>3
    <3>2. stack' = [stack EXCEPT ![n].i = @ + 1]
      BY <1>0, <2>2
    <3>3. /\ stack' \in Seq(Calls) /\ Len(stack') = n
          /\ \A k \in 1 .. n : stack'[k].lba = stack[k].lba /\ (k # n => stack'[k] = stack[k])
          /\ stack'[n].i = 2
      BY <3>1, <3>2, Bumped
    <3>4. stack' # <<>>
      BY <1>1, <3>3, EmptySeq
    <3> QED BY <2>2, <3>3, <3>4
  <2> QED BY <2>1, <2>2
<1> HIDE DEF l, n, m, full
<1>7. StateOK' /\ PanicExplained'
  <2>1. lost' \in Nat /\ stack' \in Seq(Calls)
    BY <1>0, <1>4, <1>6
  <2>2. /\ layout' = layout /\ disk' = disk /\ phase' = phase /\ ch' = ch /\ base' = base
        /\ prim' = prim /\ idx' = idx /\ todo' = todo /\ phase = "scan"
    BY <1>0 DEF diskVars
  <2>3. StateOK'
    BY <1>5, <2>1, <2>2 DEF IInv, StateOK, Calls, Extents
  <2>4. PanicExplained'
    BY <2>2 DEF PanicExplained
  <2> QED BY <2>3, <2>4
<1>8. LimitsOK'
  <2> DEFINE F == {c \in Chans : Len(logic[c]) >= MaxLogic}
             G == {c \in Chans : Len(logic'[c]) >= MaxLogic}
  <2>1. \A c \in Chans : Len(logic'[c]) <= MaxLogic
    <3>1. \A c \in Chans : Len(logic[c]) <= MaxLogic
      BY DEF IInv, LimitsOK
    <3>2. Len(logic'[ch]) <= MaxLogic
      BY <1>4, <1>5
    <3>3. \A c \in Chans : c # ch => Len(logic'[c]) = Len(logic[c])
      BY <1>5
    <3> QED BY <3>1, <3>2, <3>3
  <2>2. lost <= Cardinality(F)
    BY DEF IInv, LimitsOK
  <2>3. ch \notin F /\ IsFiniteSet(F)
    <3>1. IsFiniteSet(Chans) /\ F \in SUBSET Chans
      <4>1. Channels - 1 \in Int /\ 0 \in Int
        BY FileSysAssumption
      <4> QED BY <4>1, FS_Interval DEF Chans
    <3>2. ch \notin F
      BY <1>4 DEF m
    <3> QED BY <3>1, <3>2, FS_Subset
  <2>4. \A c : c \in G <=> c \in F \/ (full /\ c = ch)
    <3>1. ch \in G <=> full
      BY <1>1, <1>5 DEF full
    <3>2. \A c : c # ch => (c \in G <=> c \in F)
      BY <1>5
    <3> QED BY <2>3, <3>1, <3>2
  <2>5. lost' <= Cardinality(G)
    <3>1. CASE full
      <4>1. G = F \cup {ch}
        BY <2>4, <3>1
      <4>2. Cardinality(G) = Cardinality(F) + 1 /\ Cardinality(F) \in Nat
        BY <2>3, <4>1, FS_AddElement, FS_CardinalityType
      <4> HIDE DEF F, G
      <4> QED BY <1>0, <1>4, <2>2, <3>1, <4>2
    <3>2. CASE ~full
      <4>1. G = F
        BY <2>4, <3>2
      <4> HIDE DEF F, G
      <4> QED BY <1>0, <2>2, <3>2, <4>1
    <3> QED BY <3>1, <3>2
  <2>6. prim' = prim /\ phase' = phase
    BY <1>0
  <2> QED BY <2>1, <2>5, <2>6 DEF IInv, LimitsOK
\* The first call is still behind its extended partition.
<1>9. /\ stack'[1].i = stack[1].i /\ Past(l, stack[1].i) /\ base # 0
      /\ Taken(prim[ch], l.prims, Cardinality(Before(l, stack[1].i)))
  <2>1. stack'[1] = stack[1]
    BY <1>1, <1>6
  <2>2. Past(l, stack[1].i) /\ base # 0 /\ Taken(prim[ch], l.prims, Cardinality(Before(l, stack[1].i)))
    BY <1>0, <1>1 DEF ShapeOK, l, n
  <2> QED BY <2>1, <2>2
<1>10. /\ Top' = stack'[Len(stack')] /\ Top'.i \in 1 .. 5
       /\ full /\ n - 1 >= 2 => Top'.i >= 3
       /\ ~full => Top'.i = 2
  <2>1. Top' = stack'[Len(stack')]
    BY DEF Top
  <2>3. stack'[Len(stack')].i \in 1 .. 5
    <3>1. Len(stack') \in 1 .. Len(stack')
      BY <1>1, <1>6
    <3>2. stack'[Len(stack')] \in Calls
      BY <1>6, <3>1, ElementOfSeq
    <3> QED BY <3>2 DEF Calls
  <2>2. ASSUME full, n - 1 >= 2 PROVE stack[n - 1].i >= 3 /\ stack'[n - 1] = stack[n - 1]
    <3>1. n - 1 \in 2 .. n - 1 /\ n - 1 \in 1 .. n - 1
      BY <1>1, <2>2
    <3> QED BY <1>1, <1>6, <2>2, <3>1 DEF ShapeOK, n
  <2> QED BY <1>6, <2>1, <2>2, <2>3
<1>11. ShapeOK'
  <2>1. \A k \in 1 .. Len(stack') : k \in 1 .. n /\ stack'[k].lba = stack[k].lba
    BY <1>1, <1>6
  <2>2. \A k \in 1 .. Len(stack') : stack'[k].lba = 0 <=> k = 1
    BY <1>1, <2>1 DEF ShapeOK, n
  <2>3. \A k \in 2 .. Len(stack') - 1 : stack'[k].i >= 3
    <3>1. ASSUME NEW k \in 2 .. Len(stack') - 1 PROVE k \in 2 .. n - 1 /\ stack'[k] = stack[k]
      <4>1. k \in 2 .. n - 1 /\ k \in 1 .. n - 1 /\ k \in 1 .. n /\ k # n
        BY <1>1, <1>6
      <4> QED BY <1>6, <4>1
    <3> QED BY <1>1, <3>1 DEF ShapeOK, n
  <2>4. ASSUME Len(stack') >= 2, Top'.i <= 2 PROVE Len(logic'[ch]) < MaxLogic
    <3>1. ~full
      <4>1. full => Len(stack') = n - 1 /\ Top' = stack'[n - 1] /\ Top'.i >= 3
        BY <1>6, <1>10, <2>4
      <4> QED BY <1>10, <2>4, <4>1
    <3> QED BY <1>4, <1>5, <3>1 DEF full
  <2>5. prim'[ch] = prim[ch] /\ base' = base
    BY <1>0
  <2> QED BY <1>2, <1>9, <2>2, <2>3, <2>4, <2>5 DEF ShapeOK, l
<1>12. ChainOK'
  <2>1. /\ layout'[ch'] = l /\ ch' = ch /\ base' = base
        /\ Good(ch)' <=> Good(ch)
    BY <1>0, <1>2 DEF l, Good
  <2>2. ASSUME Good(ch)
        PROVE  /\ base = l.chain[1]
               /\ \A k \in 2 .. n : k - 1 <= Len(l.chain) /\ stack[k].lba = l.chain[k - 1]
               /\ Taken(logic[ch], l.logics, n - 2)
    <3> DEFINE d == IF n >= 2 /\ Top.i <= 2 THEN n - 3 + Top.i ELSE Final(l)
    <3>1. d = n - 2
      BY <1>1, <1>3
    <3>2. /\ base = IF Past(l, stack[1].i) THEN l.chain[1] ELSE 0
          /\ \A k \in 2 .. n : k - 1 <= Len(l.chain) /\ stack[k].lba = l.chain[k - 1]
          /\ Past(l, stack[1].i) => Taken(logic[ch], l.logics, d)
      BY <1>0, <1>1, <2>2 DEF ChainOK, l, n
    <3> HIDE DEF d
    <3>3. Past(l, stack[1].i)
      BY <1>9
    <3>4. base = l.chain[1] /\ Taken(logic[ch], l.logics, n - 2)
      BY <3>1, <3>2, <3>3
    <3>5. ASSUME NEW k \in 2 .. n PROVE k - 1 <= Len(l.chain) /\ stack[k].lba = l.chain[k - 1]
      BY <3>2
    <3> QED BY <3>4, <3>5
  <2>3. \A k \in 2 .. Len(stack') : k \in 2 .. n /\ stack'[k].lba = stack[k].lba
    BY <1>1, <1>6
  <2>4. ASSUME Good(ch) PROVE Taken(logic'[ch], l.logics, n - 1) /\ m = n - 2 /\ n - 1 <= Len(l.logics)
    <3>1. /\ Top.lba = l.chain[n - 1] /\ n - 1 <= Len(l.chain)
          /\ Len(l.chain) \in Nat /\ Len(l.logics) = Len(l.chain)
      <4>1. n \in 2 .. n
        BY <1>1
      <4> QED BY <1>1, <2>2, <2>4, <4>1, LayoutTypes, LenProperties, MasterEnds
    <3>2. PICK k \in 1 .. Len(l.chain) : k = n - 1
      BY <1>1, <3>1
    <3>3. /\ l.logics[k] = [start |-> l.chain[k] + Table(l, l.chain[k])[1].start,
                            cnt |-> Table(l, l.chain[k])[1].cnt]
      BY <1>1, ChainEntry
    <3>4. Found = l.logics[k]
      BY <1>1, <1>3, <3>1, <3>2, <3>3 DEF Found
    <3>5. PICK j \in Nat : j = n - 2
      BY <1>1
    <3>6. j + 1 = k /\ j + 1 = n - 1 /\ j + 1 <= Len(l.logics)
      BY <1>1, <3>1, <3>2, <3>5
    <3>7. l.logics \in Seq(Extents)
      BY <1>1, LayoutTypes
    <3>8. Taken(logic[ch], l.logics, j)
      BY <2>2, <2>4, <3>5
    <3>9. Taken(Append(logic[ch], Found), l.logics, j + 1)
      BY <1>5, <3>4, <3>6, <3>7, <3>8, TakenAppend
    <3>10. m = j
      BY <3>8 DEF Taken, m
    <3> QED BY <1>5, <3>5, <3>6, <3>9, <3>10
  <2>5. ASSUME Good(ch)
        PROVE  IF Len(stack') >= 2 /\ Top'.i <= 2 THEN Len(stack') - 3 + Top'.i = n - 1 ELSE Final(l) = n - 1
    <3>1. CASE full
      <4>1. ~(Len(stack') >= 2 /\ Top'.i <= 2)
        BY <1>6, <1>10, <3>1
      <4>2. Final(l) = n - 1
        <5>1. Len(l.logics) \in Nat /\ m = n - 2 /\ n - 1 <= Len(l.logics)
          BY <1>1, <2>4, <2>5, LayoutTypes, LenProperties
        <5> QED BY <1>1, <1>4, <3>1, <5>1 DEF full, Final
      <4> QED BY <4>1, <4>2
    <3>2. CASE ~full
      BY <1>1, <1>6, <1>10, <3>2
    <3> QED BY <3>1, <3>2
  <2>6. ASSUME Good(ch)
        PROVE  Taken(logic'[ch], l.logics,
                     IF Len(stack') >= 2 /\ Top'.i <= 2 THEN Len(stack') - 3 + Top'.i ELSE Final(l))
    BY <2>4, <2>5, <2>6
  <2> QED BY <1>9, <2>1, <2>2, <2>3, <2>6 DEF ChainOK, Final
<1>13. ScanOK'
  BY <1>0, <1>2, <1>5, <1>6, <1>11, <1>12, ScanOthers, BaseKept DEF ScanOK
<1> QED BY <1>2, <1>7, <1>8, <1>13 DEF IInv

\* The end of a table; that of the master boot record ends the scan.
LEMMA ScanReturnStep ==
  ASSUME IInv, ScanReturn
  PROVE  IInv'
<1> DEFINE l == layout[ch]
           n == Len(stack)
<1>0. /\ phase = "scan" /\ stack # <<>> /\ Top.i > 4 /\ stack' = Front(stack)
      /\ UNCHANGED <<diskVars, phase, ch, base, prim, logic, lost, idx, todo, cur>>
  BY DEF ScanReturn
<1>1. /\ l \in Layouts /\ ch \in Chans /\ stack \in Seq(Calls) /\ n \in Nat \ {0} /\ Top = stack[n]
      /\ \A k \in 1 .. n : stack[k].i \in 1 .. 5
      /\ ShapeOK /\ ChainOK
  BY <1>0, ScanFacts
<1>2. /\ SearchOK' /\ DiskOK' /\ FormatOK' /\ MountedWhole'
      /\ layout' = layout /\ ch' = ch /\ idx' = idx /\ idx = 0
  BY <1>0, ScanQuiet
<1>3. /\ stack' \in Seq(Calls) /\ Len(stack') = n - 1
      /\ \A k \in 1 .. n - 1 : stack'[k] = stack[k]
      /\ stack' = <<>> <=> n = 1
  <2>1. /\ stack' \in Seq(Calls) /\ Len(stack') = n - 1
        /\ \A k \in 1 .. n - 1 : stack'[k] = stack[k]
    BY <1>0, <1>1, Returned
  <2>2. stack' = <<>> <=> Len(stack') = 0
    BY <2>1, EmptySeq
  <2> QED BY <1>1, <2>1, <2>2
<1>4. StateOK' /\ LimitsOK' /\ PanicExplained'
  BY <1>0, <1>2, <1>3 DEF IInv, StateOK, LimitsOK, PanicExplained, diskVars, Calls
<1>5. /\ base' = base /\ prim' = prim /\ logic' = logic /\ layout' = layout /\ ch' = ch
      /\ layout'[ch'] = l /\ (Good(ch)' <=> Good(ch)) /\ (Good(ch + 1)' <=> Good(ch + 1))
  BY <1>0, <1>2 DEF l, Good
<1>6. Top.i = 5 /\ ~(n >= 2 /\ Top.i <= 2)
  <2>1. n \in 1 .. n
    BY <1>1
  <2>2. Top.i \in 1 .. 5
    BY <1>1, <2>1
  <2> QED BY <1>0, <2>2
<1> HIDE DEF l, n
<1>7. ASSUME Good(ch)
      PROVE  /\ base = IF Past(l, stack[1].i) THEN l.chain[1] ELSE 0
             /\ \A k \in 2 .. n : k - 1 <= Len(l.chain) /\ stack[k].lba = l.chain[k - 1]
             /\ Past(l, stack[1].i) => Taken(logic[ch], l.logics, Final(l))
  BY <1>0, <1>1, <1>6, <1>7 DEF ChainOK, l, n
<1>8. /\ Taken(prim[ch], l.prims, Cardinality(Before(l, stack[1].i)))
      /\ ~Past(l, stack[1].i) => logic[ch] = <<>>
      /\ n >= 2 => Past(l, stack[1].i) /\ base # 0
  BY <1>0, <1>1 DEF ShapeOK, l, n
<1>9. CASE n = 1
  <2>1. stack[1].i = 5
    BY <1>1, <1>6, <1>9
  <2>2. /\ Cardinality(Before(l, 5)) = Len(l.prims) /\ (Past(l, 5) <=> l.chain # <<>>)
        /\ Len(l.logics) = Len(l.chain) /\ l.logics \in Seq(Extents)
    BY <1>1, MasterEnds, LayoutTypes
  <2>3. Taken(prim[ch], l.prims, Len(l.prims))
    BY <1>8, <2>1, <2>2
  <2>4. ASSUME Good(ch) PROVE Taken(logic[ch], l.logics, Final(l))
    <3>1. CASE Past(l, 5)
      BY <1>7, <2>1, <2>4, <3>1
    <3>2. CASE ~Past(l, 5)
      <4>1. logic[ch] = <<>> /\ l.chain = <<>>
        BY <1>8, <2>1, <2>2, <3>2
      <4>2. Len(l.logics) = 0
        BY <2>2, <4>1, EmptySeq
      <4>3. Final(l) = 0
        BY <4>2, FileSysAssumption DEF Final
      <4> QED BY <2>2, <4>1, <4>3, TakenEnds
    <3> QED BY <3>1, <3>2
  <2>5. IF Good(ch + 1) THEN base = 0 ELSE BaseFrom(ch + 1)
    <3>1. ch \in Nat /\ \A d : d \in 0 .. (ch + 1) - 1 <=> d \in 0 .. ch - 1 \/ d = ch
      BY <1>1, FileSysAssumption DEF Chans
    <3>2. CASE Good(ch)
      <4>1. Good(ch + 1) <=> l.chain = <<>>
        BY <3>1, <3>2 DEF Good, l
      <4>2. base = IF l.chain = <<>> THEN 0 ELSE l.chain[1]
        BY <1>7, <2>1, <2>2, <3>2
      <4>3. l.chain # <<>> => BaseFrom(ch + 1)
        BY <3>1, <4>2 DEF BaseFrom, l
      <4> QED BY <4>1, <4>2, <4>3
    <3>3. CASE ~Good(ch)
      <4>1. BaseFrom(ch)
        BY <1>0, <3>3 DEF IInv, ScanOK
      <4>2. ~Good(ch + 1) /\ BaseFrom(ch + 1)
        BY <3>1, <3>3, <4>1 DEF Good, BaseFrom
      <4> QED BY <4>2
    <3> QED BY <3>2, <3>3
  <2>6. Scanned(ch)' /\ (IF Good(ch + 1) THEN base = 0 ELSE BaseFrom(ch + 1))'
    <3>1. Scanned(ch)
      BY <2>3, <2>4 DEF Scanned, l
    <3>2. Scanned(ch)' <=> Scanned(ch)
      BY <1>5 DEF Scanned
    <3>3. BaseFrom(ch + 1)' <=> BaseFrom(ch + 1)
      BY <1>5 DEF BaseFrom
    <3> QED BY <1>5, <2>5, <3>1, <3>2, <3>3
  <2>7. ShapeOK' /\ ChainOK'
    <3>1. stack' = <<>> /\ Len(stack') = 0
      BY <1>3, <1>9
    <3> QED BY <3>1 DEF ShapeOK, ChainOK
  <2>8. ScanOK'
    BY <1>0, <1>2, <1>5, <2>6, <2>7, ScanOthers, BaseKept DEF ScanOK
  <2> QED BY <1>2, <1>4, <2>8 DEF IInv
<1>10. CASE n # 1
  <2>1. /\ n - 1 \in Nat \ {0} /\ n >= 2 /\ stack' # <<>> /\ stack'[1] = stack[1]
    BY <1>1, <1>3, <1>10
  <2>2. Top' = stack'[n - 1] /\ ~(Len(stack') >= 2 /\ Top'.i <= 2)
    <3>1. Top' = stack'[n - 1]
      BY <1>3 DEF Top
    <3>2. ASSUME n - 1 >= 2 PROVE stack'[n - 1].i >= 3 /\ stack'[n - 1].i \in 1 .. 5
      <4>1. n - 1 \in 2 .. n - 1 /\ n - 1 \in 1 .. n - 1 /\ n - 1 \in 1 .. n
        BY <1>1, <3>2
      <4> QED BY <1>1, <1>3, <4>1 DEF ShapeOK, n
    <3> QED BY <1>3, <3>1, <3>2
  <2>3. ShapeOK'
    <3>1. \A k \in 1 .. n - 1 : stack'[k].lba = 0 <=> k = 1
      <4>1. \A k \in 1 .. n - 1 : k \in 1 .. n /\ stack'[k] = stack[k]
        BY <1>1, <1>3
      <4> QED BY <1>1, <4>1 DEF ShapeOK, n
    <3>2. \A k \in 2 .. (n - 1) - 1 : stack'[k].i >= 3
      <4>1. \A k \in 2 .. (n - 1) - 1 : k \in 2 .. n - 1 /\ k \in 1 .. n - 1
        BY <1>1
      <4>2. \A k \in 2 .. n - 1 : stack[k].i >= 3
        BY <1>1 DEF ShapeOK, n
      <4> QED BY <1>3, <4>1, <4>2
    <3> QED BY <1>3, <1>5, <1>8, <2>1, <2>2, <3>1, <3>2 DEF ShapeOK
  <2>4. ChainOK'
    <3>1. \A k \in 2 .. n - 1 : k \in 2 .. n /\ k \in 1 .. n - 1
      BY <1>1
    <3>2. \A k \in 2 .. n - 1 : stack'[k] = stack[k]
      BY <1>3, <3>1
    <3>3. ASSUME Good(ch)
          PROVE  /\ base = l.chain[1] /\ Taken(logic[ch], l.logics, Final(l))
                 /\ \A k \in 2 .. n - 1 : k - 1 <= Len(l.chain) /\ stack'[k].lba = l.chain[k - 1]
      BY <1>7, <1>8, <2>1, <3>1, <3>2, <3>3
    <3> QED BY <1>3, <1>5, <1>8, <2>1, <2>2, <3>3 DEF ChainOK, Final
  <2>5. ScanOK'
    BY <1>0, <1>2, <1>5, <2>1, <2>3, <2>4, ScanOthers, BaseKept DEF ScanOK
  <2> QED BY <1>2, <1>4, <2>5 DEF IInv
<1> QED BY <1>9, <1>10

\* The next disk, or the last is scanned.
LEMMA NextDiskStep ==
  ASSUME IInv, NextDisk
  PROVE  IInv'
<1>0. /\ phase = "scan" /\ stack = <<>>
      /\ IF ch + 1 < Channels
           THEN ch' = ch + 1 /\ stack' = <<[lba |-> 0, i |-> 1]>> /\ phase' = phase
           ELSE ch' = 0 /\ phase' = "search" /\ stack' = stack
      /\ UNCHANGED <<diskVars, base, prim, logic, lost, idx, todo, cur>>
      /\ layout' = layout /\ disk' = disk /\ torn' = torn
  BY DEF NextDisk, diskVars
<1>1. /\ StateOK /\ LimitsOK /\ DiskOK /\ idx = 0 /\ idx' = 0 /\ ch \in Chans
      /\ \A c \in Chans : (c < ch => Scanned(c)) /\ (c > ch => prim[c] = <<>> /\ logic[c] = <<>>)
      /\ Scanned(ch) /\ IF Good(ch + 1) THEN base = 0 ELSE BaseFrom(ch + 1)
  BY <1>0 DEF IInv, ScanOK, StateOK
<1>2. Channels \in Nat \ {0} /\ MaxPrim \in Nat \ {0} /\ MaxLogic \in Nat \ {0}
  BY FileSysAssumption
<1>3. \A c \in Chans : Scanned(c)' <=> Scanned(c)
  BY <1>0 DEF Scanned, Good
<1>4. StateOK'
  <2>1. ch' \in Chans /\ phase' \in {"scan", "search"} /\ todo' = <<>> /\ todo = <<>>
    <3>1. ch' \in Chans
      BY <1>0, <1>1, <1>2 DEF Chans
    <3>2. phase' \in {"scan", "search"} /\ todo = <<>>
      BY <1>0, <1>1 DEF StateOK
    <3> QED BY <1>0, <3>1, <3>2
  <2>2. stack' \in Seq([lba : Nat, i : 1 .. 5])
    <3>1. <<[lba |-> 0, i |-> 1]>> \in Seq([lba : Nat, i : 1 .. 5])
      OBVIOUS
    <3> QED BY <1>0, <1>1, <3>1 DEF StateOK
  <2> QED BY <1>0, <1>1, <2>1, <2>2 DEF StateOK
<1>5. LimitsOK' /\ PanicExplained' /\ FormatOK' /\ MountedWhole'
  BY <1>0, <1>1 DEF LimitsOK, PanicExplained, FormatOK, MountedWhole
<1>6. DiskOK'
  BY <1>0, <1>1 DEF DiskOK, Clean, HasSuper, Complete, Get, Parts
<1>7. CASE ch + 1 < Channels
  <2>1. /\ ch' = ch + 1 /\ stack' = <<[lba |-> 0, i |-> 1]>> /\ phase' = "scan" /\ ch + 1 \in Chans
        /\ layout[ch + 1] \in Layouts
    <3>1. ch + 1 \in Chans
      BY <1>1, <1>2, <1>7 DEF Chans
    <3> QED BY <1>0, <1>1, <1>7, <3>1 DEF StateOK
  <2>2. /\ Len(stack') = 1 /\ stack'[1].lba = 0 /\ stack'[1].i = 1 /\ stack' # <<>>
    BY <2>1
  <2>3. \A c \in Chans : (c < ch + 1 => Scanned(c)) /\ (c > ch + 1 => prim[c] = <<>> /\ logic[c] = <<>>)
    <3>1. \A c \in Chans : c \in Int /\ ch \in Int
      BY <1>1 DEF Chans
    <3>2. \A c \in Chans : (c < ch + 1 => c < ch \/ c = ch) /\ (c > ch + 1 => c > ch)
      BY <3>1
    <3> QED BY <1>1, <3>2
  <2>4. prim[ch + 1] = <<>> /\ logic[ch + 1] = <<>>
    <3>1. ch + 1 > ch
      BY <1>1 DEF Chans
    <3> QED BY <1>1, <2>1, <3>1
  <2>5. /\ Cardinality(Before(layout[ch + 1], 1)) = 0 /\ ~Past(layout[ch + 1], 1)
        /\ Taken(<<>>, layout[ch + 1].prims, 0)
    BY <2>1, MasterEnds, LayoutTypes, TakenEnds
  <2>6. ShapeOK'
    <3>1. Top' = stack'[1]
      BY <2>2 DEF Top
    <3>2. /\ \A k \in 1 .. 1 : stack'[k].lba = 0 <=> k = 1
          /\ \A k : k \notin 2 .. 1 - 1
      BY <2>2
    <3> QED BY <1>0, <2>1, <2>2, <2>4, <2>5, <3>1, <3>2 DEF ShapeOK
  <2>7. ChainOK'
    <3>1. Good(ch)' => base' = 0
      BY <1>0, <1>1, <2>1 DEF Good
    <3>2. \A k : k \notin 2 .. 1
      OBVIOUS
    <3> QED BY <1>0, <2>1, <2>2, <2>5, <3>1, <3>2 DEF ChainOK
  <2>8. ScanOK'
    <3>1. ~Good(ch)' => BaseFrom(ch)'
      BY <1>0, <1>1, <2>1 DEF Good, BaseFrom
    <3> QED BY <1>0, <1>1, <1>3, <2>1, <2>2, <2>3, <2>6, <2>7, <3>1 DEF ScanOK
  <2>9. SearchOK'
    BY <2>1 DEF SearchOK, Searching
  <2> QED BY <1>4, <1>5, <1>6, <2>8, <2>9 DEF IInv
<1>8. CASE ~(ch + 1 < Channels)
  <2>1. ch' = 0 /\ phase' = "search"
    BY <1>0, <1>8
  <2>2. \A c \in Chans : Scanned(c)
    <3>1. \A c \in Chans : c < ch \/ c = ch
      BY <1>1, <1>2, <1>8 DEF Chans
    <3> QED BY <1>1, <3>1
  <2>3. SearchOK'
    BY <1>1, <1>3, <2>1, <2>2 DEF SearchOK, Searching
  <2>4. ScanOK'
    BY <2>1 DEF ScanOK
  <2> QED BY <1>4, <1>5, <1>6, <2>3, <2>4 DEF IInv
<1> QED BY <1>7, <1>8

\* The kernel stops.
LEMMA StopStep ==
  ASSUME IInv, Stop, PanicExplained', phase = "write" => ~Usable(Entry0(idx))
  PROVE  IInv'
<1>1. /\ phase' = "panic" /\ todo' = <<>> /\ ch' = ch /\ idx' = idx
      /\ layout' = layout /\ disk' = disk /\ torn' = torn
      /\ stack' = stack /\ base' = base /\ prim' = prim /\ logic' = logic /\ lost' = lost
  BY DEF Stop, diskVars, scanVars
<1>2. StateOK'
  BY <1>1 DEF IInv, StateOK
<1>3. LimitsOK'
  BY <1>1 DEF IInv, LimitsOK
<1>4. ScanOK' /\ SearchOK' /\ FormatOK' /\ MountedWhole'
  BY <1>1 DEF ScanOK, SearchOK, Searching, FormatOK, MountedWhole
<1>5. DiskOK'
  <2>1. \A q \in Parts(0) : \/ Clean(q)
                            \/ HasSuper(q) /\ (Complete(0, q) \/ <<0, q.start>> \in torn \/ ~Usable(q))
    BY DEF IInv, DiskOK
  <2>2. /\ \A c \in Chans \ {0} : DOMAIN disk[c] = {}
        /\ \A l \in DOMAIN disk[0] : \E q \in Parts(0) : l \in Sectors(q)
    BY DEF IInv, DiskOK
  <2>3. /\ Parts(0)' = Parts(0)
        /\ \A q : (Clean(q)' <=> Clean(q)) /\ (HasSuper(q)' <=> HasSuper(q))
        /\ \A q : Complete(0, q)' <=> Complete(0, q)
    BY <1>1 DEF Parts, Clean, HasSuper, Complete, Get
  <2> QED BY <1>1, <2>1, <2>2, <2>3 DEF DiskOK
<1> QED BY <1>2, <1>3, <1>4, <1>5 DEF IInv

\* A table that is behind max_lba, or is looked for there.
LEMMA ScanStopsStep ==
  ASSUME IInv, ScanStops
  PROVE  IInv'
<1> DEFINE l == layout[ch]
<1>1. /\ phase = "scan" /\ stack # <<>> /\ Top.i <= 4 /\ Entry.type = Extended
      /\ Entry.start + base > MaxLba /\ Stop /\ layout' = layout
  BY DEF ScanStops, Stop, diskVars
<1>2. /\ l \in Layouts /\ ch \in Chans /\ Len(stack) \in Nat \ {0}
      /\ Top.i \in 1 .. 4 /\ Entry = Table(l, Top.lba)[Top.i]
  BY <1>1, ScanFacts
<1>3. TableBeyond(ch)
  <2>1. CASE Good(ch)
    <3>1. Len(stack) <= Len(l.chain) /\ Entry.start + base = l.chain[Len(stack)]
      BY <1>1, <2>1, NextTable
    <3>2. l.chain[Len(stack)] \in ToSet(l.chain)
      BY <1>2, <3>1, LayoutTypes, LenProperties DEF ToSet
    <3> QED BY <1>1, <3>1, <3>2 DEF TableBeyond
  <2>2. CASE ~Good(ch)
    <3>1. PICK d \in 0 .. ch - 1 : layout[d].chain # <<>> /\ base = layout[d].chain[1]
      BY <1>1, <2>2 DEF IInv, ScanOK, BaseFrom
    <3>2. Top.lba \in DOMAIN l.tables /\ Entry = l.tables[Top.lba][Top.i]
      BY <1>1, <1>2 DEF Table, NoTable, Empty, Extended
    <3> QED BY <1>1, <1>2, <3>1, <3>2 DEF TableBeyond
  <2> QED BY <2>1, <2>2
<1>4. PanicExplained'
  <2>1. PICK c \in Chans : TableBeyond(c)
    BY <1>2, <1>3
  <2>2. TableBeyond(c)'
    BY <1>1, <2>1 DEF TableBeyond
  <2> QED BY <2>2 DEF PanicExplained
<1> QED BY <1>1, <1>4, StopStep

-----------------------------------------------------------------------------
(* The layout of a file system.                                            *)

\* A remainder that wraps.
LEMMA ModWrap ==
  ASSUME NEW w \in Nat \ {0}, NEW a \in Int, -w <= a, a < w
  PROVE  a % w = IF a < 0 THEN a + w ELSE a
OBVIOUS

\* Rounding up, if the sum does not wrap.
LEMMA CeilFacts ==
  ASSUME NEW a \in Nat, NEW b \in Nat \ {0}, a + b <= Word
  PROVE  /\ CeilDiv(a, b) \in Nat /\ CeilDiv(a, b) <= a
         /\ a <= b * CeilDiv(a, b) /\ b * CeilDiv(a, b) <= a + b - 1
<1>1. Word \in Nat \ {0}
  BY FileSysAssumption
<1>2. (a + b - 1) % Word = a + b - 1
  <2>1. PICK s \in Nat : s = a + b - 1 /\ s < Word
    BY <1>1
  <2> QED BY <1>1, <2>1
<1>3. CeilDiv(a, b) = (a + b - 1) \div b
  BY <1>2 DEF CeilDiv
<1>4. PICK s \in Nat : s = a + b - 1
  OBVIOUS
<1>5. s \div b \in Nat /\ a <= b * (s \div b) /\ b * (s \div b) <= s /\ s \div b <= a
  <2>1. s \div b \in Nat /\ a <= b * (s \div b) /\ b * (s \div b) <= s
    BY <1>4
  <2>2. s \div b <= a
    BY <1>4
  <2> QED BY <2>1, <2>2
<1> QED BY <1>3, <1>4, <1>5

\* Rounding up, if it does.
LEMMA CeilWraps ==
  ASSUME NEW a \in Nat, a < Word, a + Bits > Word
  PROVE  CeilDiv(a, Bits) = 0
<1>1. Word \in Nat \ {0} /\ Bits \in Nat \ {0} /\ Bits < Word
  BY FileSysAssumption
<1>2. PICK s \in Nat : s = a + Bits - 1
  BY <1>1
<1>3. s % Word = s - Word /\ s - Word \in 0 .. Bits - 1
  <2>1. s - Word \in 0 .. Word - 1
    BY <1>1, <1>2
  <2>2. s % Word = s - Word
    BY <1>1, <2>1
  <2> QED BY <1>1, <1>2, <2>2
<1>4. PICK r \in 0 .. Bits - 1 : r = s - Word
  BY <1>3
<1>5. r \div Bits = 0
  BY <1>1, <1>4
<1> QED BY <1>2, <1>3, <1>4, <1>5 DEF CeilDiv

\* The bitmap of a partition with f sectors behind the fixed metadata.
LEMMA Estimates ==
  ASSUME NEW f \in Nat, f <= Word - Bits
  PROVE  /\ BitmapBits(f) \in Nat /\ BitmapBits(f) = f - CeilDiv(f, Bits)
         /\ BitmapSects(f) \in Nat /\ BitmapBits(f) <= BitmapSects(f) * Bits
         /\ CeilDiv(f, Bits) \in Nat /\ BitmapSects(f) <= CeilDiv(f, Bits)
         /\ f < 2 => BitmapSects(f) = 0
         /\ f >= 2 => BitmapBits(f) >= 1 /\ BitmapSects(f) >= 1 /\ BitmapSects(f) + 1 <= f
<1> DEFINE c == CeilDiv(f, Bits)
           b == BitmapBits(f)
           s == BitmapSects(f)
<1>1. Bits \in Nat \ {0} /\ Bits >= 2 /\ Word \in Nat /\ f + Bits <= Word
  BY FileSysAssumption
<1>2. c \in Nat /\ c <= f /\ f <= Bits * c /\ Bits * c <= f + Bits - 1
  BY <1>1, CeilFacts
<1>3. b = f - c /\ b \in Nat /\ b <= f
  BY <1>2 DEF BitmapBits
<1>4. s = CeilDiv(b, Bits)
  BY DEF BitmapSects
<1> HIDE DEF c, b, s
<1>5. s \in Nat /\ s <= b /\ b <= Bits * s /\ Bits * s <= b + Bits - 1
  BY <1>1, <1>3, <1>4, CeilFacts
<1>6. s <= c
  <2> SUFFICES ASSUME c + 1 <= s PROVE FALSE
    BY <1>2, <1>5
  <2>1. Bits * (c + 1) <= Bits * s
    BY <1>1, <1>2, <1>5
  <2>2. Bits * (c + 1) = Bits * c + Bits
    BY <1>1, <1>2
  <2> QED BY <1>1, <1>2, <1>3, <1>5, <2>1, <2>2
<1>7. ASSUME f < 2 PROVE s = 0
  <2>1. f = 0 \/ f = 1
    BY <1>7
  <2>2. b = 0
    <3>1. CASE f = 0
      BY <1>2, <1>3, <3>1
    <3>2. CASE f = 1
      <4>1. c # 0
        BY <1>1, <1>2, <3>2
      <4> QED BY <1>2, <1>3, <3>2, <4>1
    <3> QED BY <2>1, <3>1, <3>2
  <2> QED BY <1>5, <2>2
<1>8. ASSUME f >= 2 PROVE b >= 1 /\ s >= 1 /\ s + 1 <= f
  <2>1. c < f
    <3> SUFFICES ASSUME c = f PROVE FALSE
      BY <1>2
    <3>1. Bits * f <= f + Bits - 1
      BY <1>2
    <3> QED BY <1>1, <1>8, <3>1
  <2>2. c >= 1
    BY <1>1, <1>2, <1>8
  <2>3. b >= 1 /\ b + 1 <= f
    BY <1>2, <1>3, <2>1, <2>2
  <2>4. s >= 1
    <3> SUFFICES ASSUME s = 0 PROVE FALSE
      BY <1>5
    <3>1. Bits * s = 0
      BY <1>1
    <3> QED BY <1>3, <1>5, <2>3, <3>1
  <2> QED BY <1>3, <1>5, <2>3, <2>4
<1>9. Bits * s = s * Bits
  BY <1>1, <1>5
<1> QED BY <1>2, <1>3, <1>5, <1>6, <1>7, <1>8, <1>9 DEF c, b, s

\* The partitions of a disk.
LEMMA PartFacts ==
  ASSUME NEW l \in Layouts, NEW p \in ToSet(l.prims) \cup ToSet(l.logics)
  PROVE  /\ p \in Extents /\ p.start \in Nat /\ p.cnt \in Nat /\ p.cnt >= 2 /\ p.cnt < Word
         /\ \A q \in ToSet(l.prims) \cup ToSet(l.logics) : p # q => Sectors(p) \cap Sectors(q) = {}
         /\ \A x : x \in Sectors(p) <=> x \in Int /\ p.start <= x /\ x < p.start + p.cnt
<1>1. /\ p \in [start : Nat, cnt : 2 .. Word - 1]
      /\ \A q \in ToSet(l.prims) \cup ToSet(l.logics) : p # q => Sectors(p) \cap Sectors(q) = {}
  BY LayoutTypes DEF PartsOK
<1>2. Word \in Nat
  BY FileSysAssumption
<1>3. /\ p \in Extents /\ p.start \in Nat /\ p.cnt \in Nat /\ p.cnt >= 2 /\ p.cnt < Word
  BY <1>1, <1>2 DEF Extents
<1>4. \A x : x \in Sectors(p) <=> x \in Int /\ p.start <= x /\ x < p.start + p.cnt
  BY <1>3 DEF Sectors
<1> QED BY <1>1, <1>3, <1>4

\* The superblock; there is a bitmap and a buffer for it exactly on a partition that
\* is neither too small nor too large.
LEMMA SuperFacts ==
  ASSUME NEW l \in Layouts, NEW p \in ToSet(l.prims) \cup ToSet(l.logics)
  PROVE  LET sb == SuperBlock(p)
             f  == p.cnt - Fixed IN
           /\ sb.kind = "sb" /\ sb.start = p.start /\ sb.cnt = p.cnt /\ Fixed \in Nat
           /\ Held(p) <=> Fits(p)
           /\ Fits(p) => /\ f \in Nat /\ f >= 2 /\ f <= Word - Bits
                           /\ sb.bbmSects = BitmapSects(f) /\ sb.bitLen = BitmapBits(f)
                           /\ sb.bbm = p.start + 2 /\ sb.ibm = p.start + 2 + sb.bbmSects
                           /\ sb.itab = sb.ibm + InodeBitmap /\ sb.data = sb.itab + InodeTable
<1> DEFINE sb == SuperBlock(p)
           f  == p.cnt - Fixed
<1>1. /\ InodeBitmap \in Nat /\ InodeTable \in Nat /\ MaxBuf \in Nat /\ Word \in Nat \ {0}
      /\ Fixed \in Nat /\ Fixed < Word /\ Bits \in Nat /\ Bits < Word /\ Fixed <= Bits + 1
  BY FileSysAssumption DEF Fixed
<1>2. p.start \in Nat /\ p.cnt \in Nat /\ p.cnt >= 2 /\ p.cnt < Word
  BY PartFacts
<1>3. f \in Int /\ -Word <= f /\ f < Word /\ f >= 2 - Fixed
  BY <1>1, <1>2
<1>4. f % Word = IF f < 0 THEN f + Word ELSE f
  BY <1>1, <1>3, ModWrap
<1>5. /\ sb.kind = "sb" /\ sb.start = p.start /\ sb.cnt = p.cnt
      /\ sb.bbmSects = BitmapSects(f % Word) /\ sb.bitLen = BitmapBits(f % Word)
      /\ sb.bbm = p.start + 2 /\ sb.ibm = p.start + 2 + sb.bbmSects
      /\ sb.itab = p.start + 2 + sb.bbmSects + InodeBitmap
      /\ sb.data = p.start + 2 + sb.bbmSects + InodeBitmap + InodeTable
  BY DEF SuperBlock
<1>6. Fits(p) <=> f \in 2 .. Word - Bits /\ BitmapSects(f) <= MaxBuf
  BY DEF Fits
<1> HIDE DEF sb, f
<1>7. CASE f < 0 \/ f > Word - Bits
  <2>1. PICK n \in Nat : n = f % Word /\ n < Word /\ n + Bits > Word
    <3>1. CASE f < 0
      BY <1>1, <1>3, <1>4, <3>1
    <3>2. CASE f > Word - Bits
      BY <1>1, <1>3, <1>4, <3>2
    <3> QED BY <1>7, <3>1, <3>2
  <2>2. CeilDiv(n, Bits) = 0
    BY <2>1, CeilWraps
  <2>3. BitmapSects(n) = 0
    <3>1. BitmapBits(n) = n
      BY <2>1, <2>2 DEF BitmapBits
    <3> QED BY <2>2, <3>1 DEF BitmapSects
  <2>4. ~Held(p)
    BY <1>1, <1>5, <2>1, <2>3 DEF Held, sb
  <2>5. ~Fits(p)
    BY <1>1, <1>3, <1>6, <1>7
  <2> QED BY <1>1, <1>5, <2>4, <2>5 DEF sb, f
<1>8. CASE f >= 0 /\ f <= Word - Bits
  <2>1. f \in Nat /\ f % Word = f
    BY <1>1, <1>3, <1>4, <1>8
  <2>2. BitmapSects(f) \in Nat /\ (f < 2 => BitmapSects(f) = 0) /\ (f >= 2 => BitmapSects(f) >= 1)
    BY <1>8, <2>1, Estimates
  <2>3. Held(p) <=> f >= 2 /\ BitmapSects(f) <= MaxBuf
    BY <1>1, <1>5, <2>1, <2>2 DEF Held, sb
  <2>4. sb.bbmSects = BitmapSects(f) /\ sb.bitLen = BitmapBits(f)
    BY <1>5, <2>1
  <2>5. sb.itab = sb.ibm + InodeBitmap /\ sb.data = sb.itab + InodeTable
    BY <1>5
  <2>6. Fits(p) <=> f >= 2 /\ BitmapSects(f) <= MaxBuf
    BY <1>1, <1>6, <1>8, <2>1
  <2> QED BY <1>1, <1>5, <1>8, <2>1, <2>3, <2>4, <2>5, <2>6 DEF sb, f
<1>9. Word - Bits \in Int
  BY <1>1
<1> QED BY <1>3, <1>7, <1>8, <1>9

\* A sector, and what is to be written to it.
Kinds == {"bbm", "ibm", "itab", "root"}
Writes == Nat \X [kind : Kinds, i : Nat, free : SUBSET Nat]

LEMMA RegionFacts ==
  ASSUME NEW kind \in Kinds, NEW first \in Nat, NEW sects \in Nat, NEW free \in SUBSET Nat
  PROVE  LET r == Region(kind, first, sects, free) IN
           /\ r \in Seq(Writes) /\ Len(r) = sects
           /\ \A i \in 1 .. sects : /\ r[i][1] = first + i - 1
                                    /\ r[i][2].kind = kind
                                    /\ r[i][2].free = {b \in free : b \div Bits = i - 1}
<1> DEFINE w(i) == <<first + i - 1, [kind |-> kind, i |-> i, free |-> {b \in free : b \div Bits = i - 1}]>>
           r == [i \in 1 .. sects |-> w(i)]
<1>1. Region(kind, first, sects, free) = r
  BY DEF Region
<1>2. ASSUME NEW i \in 1 .. sects
      PROVE  /\ w(i) \in Writes /\ w(i)[1] = first + i - 1 /\ w(i)[2].kind = kind
             /\ w(i)[2].free = {b \in free : b \div Bits = i - 1}
  <2>1. {b \in free : b \div Bits = i - 1} \in SUBSET Nat
    OBVIOUS
  <2>2. first + i - 1 \in Nat /\ i \in Nat
    OBVIOUS
  <2> QED BY <2>1, <2>2 DEF Writes
<1> HIDE DEF w
<1>3. r \in [1 .. sects -> Writes]
  BY <1>2
<1>4. r \in Seq(Writes)
  BY <1>3, SeqDef
<1>5. Len(r) = sects
  BY <1>3, <1>4, LenProperties
<1>6. \A i \in 1 .. sects : r[i] = w(i)
  OBVIOUS
<1> HIDE DEF r
<1> QED BY <1>1, <1>2, <1>4, <1>5, <1>6

\* Sectors from the first on, one behind the other, and no superblock.
Placed(r, first, n) ==
  /\ r \in Seq(Writes) /\ Len(r) = n
  /\ \A i \in 1 .. n : r[i][1] = first + i - 1 /\ r[i][2].kind \notin {"sb", "none"}

LEMMA RegionPlaced ==
  ASSUME NEW kind \in Kinds,
         NEW first \in Nat, NEW sects \in Nat, NEW free \in SUBSET Nat
  PROVE  Placed(Region(kind, first, sects, free), first, sects)
<1> DEFINE r == Region(kind, first, sects, free)
<1>1. /\ r \in Seq(Writes) /\ Len(r) = sects
      /\ \A i \in 1 .. sects : r[i][1] = first + i - 1 /\ r[i][2].kind = kind
  BY RegionFacts
<1> HIDE DEF r
<1>2. Placed(r, first, sects)
  BY <1>1 DEF Placed, Kinds
<1> QED BY <1>2 DEF r

LEMMA ConcatPlaced ==
  ASSUME NEW r, NEW t, NEW first \in Nat, NEW n \in Nat, NEW k \in Nat, NEW next \in Nat, NEW m \in Nat,
         next = first + n, m = n + k, Placed(r, first, n), Placed(t, next, k)
  PROVE  Placed(r \o t, first, m)
<1> DEFINE c == r \o t
<1>1. /\ r \in Seq(Writes) /\ Len(r) = n /\ t \in Seq(Writes) /\ Len(t) = k
      /\ \A i \in 1 .. n : r[i][1] = first + i - 1 /\ r[i][2].kind \notin {"sb", "none"}
      /\ \A i \in 1 .. k : t[i][1] = next + i - 1 /\ t[i][2].kind \notin {"sb", "none"}
  BY DEF Placed
<1>2. /\ c \in Seq(Writes) /\ Len(c) = m
      /\ \A i \in 1 .. m : c[i] = IF i <= n THEN r[i] ELSE t[i - n]
  BY <1>1, ConcatProperties
<1> HIDE DEF c
<1>3. ASSUME NEW i \in 1 .. m PROVE c[i][1] = first + i - 1 /\ c[i][2].kind \notin {"sb", "none"}
  <2>1. CASE i <= n
    <3>1. i \in 1 .. n /\ c[i] = r[i]
      BY <1>2, <2>1
    <3> QED BY <1>1, <3>1
  <2>2. CASE i > n
    <3>1. i - n \in 1 .. k /\ c[i] = t[i - n]
      BY <1>2, <2>2
    <3>2. t[i - n][1] = next + (i - n) - 1 /\ t[i - n][2].kind \notin {"sb", "none"}
      BY <1>1, <3>1
    <3> QED BY <3>1, <3>2
  <2> QED BY <2>1, <2>2
<1>4. Placed(c, first, m)
  BY <1>2, <1>3 DEF Placed
<1> QED BY <1>4 DEF c

LEMMA ConcatHead ==
  ASSUME NEW r \in Seq(Writes), NEW t \in Seq(Writes), NEW i \in 1 .. Len(r)
  PROVE  (r \o t)[i] = r[i]
BY ConcatProperties

\* The clear bits.
LEMMA FreeBitsFacts ==
  ASSUME NEW l \in Layouts, NEW p \in ToSet(l.prims) \cup ToSet(l.logics), Fits(p)
  PROVE  LET sb == SuperBlock(p) IN
           /\ sb.bbmSects \in Nat \ {0} /\ sb.bitLen \in Nat /\ sb.bitLen <= sb.bbmSects * Bits
           /\ \A b \in FreeBits(sb) : b \in Nat /\ b \div Bits \in 0 .. sb.bbmSects - 1
<1> DEFINE sb == SuperBlock(p)
           f  == p.cnt - Fixed
           lo == IF sb.bitLen < ByteBits THEN 0 ELSE 1
<1>1. /\ f \in Nat /\ f >= 2 /\ f <= Word - Bits
      /\ sb.bbmSects = BitmapSects(f) /\ sb.bitLen = BitmapBits(f)
      /\ Bits \in Nat \ {0}
  BY SuperFacts, FileSysAssumption
<1> HIDE DEF f
<1>2. /\ sb.bbmSects \in Nat \ {0} /\ sb.bitLen \in Nat /\ sb.bitLen <= sb.bbmSects * Bits
  BY <1>1, Estimates
<1>3. FreeBits(sb) = {b \in lo .. sb.bitLen : b < sb.bbmSects * Bits}
  BY DEF FreeBits
<1> HIDE DEF sb
<1>4. lo \in {0, 1}
  OBVIOUS
<1> HIDE DEF lo
<1>5. ASSUME NEW b \in FreeBits(sb) PROVE b \in Nat /\ b \div Bits \in 0 .. sb.bbmSects - 1
  <2>1. b \in Nat /\ b < sb.bbmSects * Bits
    BY <1>2, <1>3, <1>4, <1>5
  <2>2. PICK q \in Nat, r \in 0 .. Bits - 1 : q = b \div Bits /\ b = Bits * q + r
    <3>1. PICK c \in Nat : c = b
      BY <2>1
    <3>2. c \div Bits \in Nat /\ c % Bits \in 0 .. Bits - 1 /\ c = Bits * (c \div Bits) + (c % Bits)
      BY <1>1, DivMod
    <3> QED BY <3>1, <3>2
  <2>3. q <= sb.bbmSects - 1
    <3> SUFFICES ASSUME sb.bbmSects <= q PROVE FALSE
      BY <1>2
    <3>1. Bits * sb.bbmSects <= Bits * q
      BY <1>1, <1>2
    <3>2. Bits * sb.bbmSects = sb.bbmSects * Bits /\ Bits * q \in Nat /\ Bits * sb.bbmSects \in Nat
      BY <1>1, <1>2
    <3> QED BY <1>1, <2>1, <2>2, <3>1, <3>2
  <2> QED BY <1>2, <2>1, <2>2, <2>3
<1> QED BY <1>2, <1>5 DEF sb

\* The metadata is in the sectors behind the superblock, one behind the other, and
\* within the partition; a sector of data is left.
LEMMA MetadataFacts ==
  ASSUME NEW l \in Layouts, NEW p \in ToSet(l.prims) \cup ToSet(l.logics), Fits(p)
  PROVE  LET sb == SuperBlock(p)
             m  == Metadata(sb) IN
           /\ m \in Seq(Writes) /\ Len(m) = sb.bbmSects + Fixed - 1
           /\ p.start + Len(m) + 1 < p.start + p.cnt
           /\ \A i \in 1 .. Len(m) : /\ m[i][1] = p.start + 1 + i
                                     /\ m[i][2].kind \notin {"sb", "none"}
           /\ \A i \in 1 .. sb.bbmSects :
                m[i][2].kind = "bbm" /\ m[i][2].free = {b \in FreeBits(sb) : b \div Bits = i - 1}
<1> DEFINE sb == SuperBlock(p)
           f  == p.cnt - Fixed
           A  == Region("bbm", sb.bbm, sb.bbmSects, FreeBits(sb))
           B  == Region("ibm", sb.ibm, InodeBitmap, {})
           C  == Region("itab", sb.itab, InodeTable, {})
           D  == Region("root", sb.data, 1, {})
           m  == ((A \o B) \o C) \o D
<1>1. /\ InodeBitmap \in Nat /\ InodeTable \in Nat /\ p.start \in Nat /\ p.cnt \in Nat
      /\ Fixed = 2 + InodeBitmap + InodeTable
  BY FileSysAssumption, PartFacts DEF Fixed
<1>2. /\ f \in Nat /\ f >= 2 /\ f <= Word - Bits /\ sb.bbmSects = BitmapSects(f)
      /\ sb.bbm = p.start + 2 /\ sb.ibm = p.start + 2 + sb.bbmSects
      /\ sb.itab = sb.ibm + InodeBitmap /\ sb.data = sb.itab + InodeTable
  BY SuperFacts
<1>3. sb.bbmSects \in Nat /\ sb.bbmSects + 1 <= f
  <2> HIDE DEF f
  <2> QED BY <1>2, Estimates
<1>4. Metadata(sb) = m
  BY DEF Metadata
<1>5. FreeBits(sb) \in SUBSET Nat
  BY FreeBitsFacts
<1>6. sb.bbm \in Nat /\ sb.ibm \in Nat /\ sb.itab \in Nat /\ sb.data \in Nat
  BY <1>1, <1>2, <1>3
<1> DEFINE s == sb.bbmSects
<1>7. /\ Placed(A, sb.bbm, s) /\ Placed(B, sb.ibm, InodeBitmap)
      /\ Placed(C, sb.itab, InodeTable) /\ Placed(D, sb.data, 1)
  <2> HIDE DEF sb
  <2>1. {} \in SUBSET Nat /\ 1 \in Nat /\ {"bbm", "ibm", "itab", "root"} \subseteq Kinds
    BY DEF Kinds
  <2>2. Placed(A, sb.bbm, s)
    BY <1>3, <1>5, <1>6, <2>1, RegionPlaced
  <2>3. Placed(B, sb.ibm, InodeBitmap)
    BY <1>1, <1>6, <2>1, RegionPlaced
  <2>4. Placed(C, sb.itab, InodeTable)
    BY <1>1, <1>6, <2>1, RegionPlaced
  <2>5. Placed(D, sb.data, 1)
    BY <1>6, <2>1, RegionPlaced
  <2> QED BY <2>2, <2>3, <2>4, <2>5
<1>8. \A i \in 1 .. s : A[i][2].kind = "bbm" /\ A[i][2].free = {b \in FreeBits(sb) : b \div Bits = i - 1}
  <2> HIDE DEF sb
  <2>1. "bbm" \in Kinds
    BY DEF Kinds
  <2> SUFFICES ASSUME NEW i \in 1 .. s
               PROVE  A[i][2].kind = "bbm" /\ A[i][2].free = {b \in FreeBits(sb) : b \div Bits = i - 1}
    OBVIOUS
  <2>2. PICK F \in SUBSET Nat, first \in Nat, n \in Nat : F = FreeBits(sb) /\ first = sb.bbm /\ n = s
    BY <1>3, <1>5, <1>6
  <2>3. PICK k \in Kinds : k = "bbm"
    BY <2>1
  <2>4. i \in 1 .. n
    BY <2>2
  <2>5. /\ Region(k, first, n, F)[i][2].kind = k
        /\ Region(k, first, n, F)[i][2].free = {b \in F : b \div Bits = i - 1}
    BY <2>4, RegionFacts
  <2> QED BY <2>2, <2>3, <2>5
<1> HIDE DEF sb, A, B, C, D, m
<1>9. s \in Nat /\ sb.ibm = sb.bbm + s /\ sb.itab = sb.bbm + s + InodeBitmap
      /\ sb.data = sb.bbm + s + InodeBitmap + InodeTable
  BY <1>1, <1>2, <1>3, <1>6
<1>10. /\ Placed(m, sb.bbm, s + InodeBitmap + InodeTable + 1)
       /\ \A i \in 1 .. s : m[i] = A[i]
  <2>1. PICK first \in Nat, a \in Nat, b \in Nat, c \in Nat, d \in Nat :
          first = sb.bbm /\ a = s /\ b = InodeBitmap /\ c = InodeTable /\ d = 1
    BY <1>1, <1>6, <1>9
  <2>2. /\ Placed(A, first, a) /\ Placed(B, first + a, b)
        /\ Placed(C, first + a + b, c) /\ Placed(D, first + a + b + c, d)
    BY <1>7, <1>9, <2>1
  <2>3. PICK x \in Nat, y \in Nat, z \in Nat, n \in Nat, k \in Nat, h \in Nat :
          /\ x = first + a /\ y = first + a + b /\ z = first + a + b + c
          /\ n = a + b /\ k = a + b + c /\ h = a + b + c + d
    <3>1. /\ first + a \in Nat /\ first + a + b \in Nat /\ first + a + b + c \in Nat
          /\ a + b \in Nat /\ a + b + c \in Nat /\ a + b + c + d \in Nat
      OBVIOUS
    <3> QED BY <3>1
  <2>4. y = first + n /\ z = first + k /\ k = n + c /\ h = k + d
    BY <2>3
  <2>5. Placed(A, first, a) /\ Placed(B, x, b) /\ Placed(C, y, c) /\ Placed(D, z, d)
    BY <2>2, <2>3
  <2>6. PICK AB, ABC : AB = A \o B /\ ABC = AB \o C
    OBVIOUS
  <2>7. Placed(AB, first, n) /\ Placed(ABC, first, k) /\ Placed(ABC \o D, first, h)
    <3>1. Placed(AB, first, n)
      BY <2>3, <2>5, <2>6, ConcatPlaced
    <3>2. Placed(ABC, first, k)
      BY <2>4, <2>5, <2>6, <3>1, ConcatPlaced
    <3> QED BY <2>4, <2>5, <3>1, <3>2, ConcatPlaced
  <2>8. m = ABC \o D
    BY <2>6 DEF m
  <2>9. /\ A \in Seq(Writes) /\ Len(A) = a /\ AB \in Seq(Writes) /\ Len(AB) = n
        /\ ABC \in Seq(Writes) /\ Len(ABC) = k
        /\ B \in Seq(Writes) /\ C \in Seq(Writes) /\ D \in Seq(Writes)
    BY <2>5, <2>7 DEF Placed
  <2>10. ASSUME NEW i \in 1 .. a PROVE m[i] = A[i]
    <3>1. i \in 1 .. n /\ i \in 1 .. k
      BY <2>3
    <3>2. AB[i] = A[i]
      BY <2>6, <2>9, ConcatHead
    <3>3. ABC[i] = AB[i]
      BY <2>6, <2>9, <3>1, ConcatHead
    <3>4. m[i] = ABC[i]
      BY <2>8, <2>9, <3>1, ConcatHead
    <3> QED BY <3>2, <3>3, <3>4
  <2> QED BY <2>1, <2>3, <2>7, <2>8, <2>10
<1> HIDE DEF s
<1>13. ASSUME NEW i \in 1 .. s
       PROVE  m[i][2].kind = "bbm" /\ m[i][2].free = {b \in FreeBits(sb) : b \div Bits = i - 1}
  BY <1>8, <1>10
<1>14. /\ m \in Seq(Writes) /\ Len(m) = s + Fixed - 1 /\ p.start + Len(m) + 1 < p.start + p.cnt
  <2>1. m \in Seq(Writes) /\ Len(m) = s + InodeBitmap + InodeTable + 1
    BY <1>10 DEF Placed
  <2>2. s + 1 <= p.cnt - Fixed
    BY <1>3 DEF s
  <2>3. Len(m) = s + Fixed - 1 /\ s \in Nat
    BY <1>1, <1>9, <2>1
  <2> QED BY <1>1, <2>1, <2>2, <2>3
<1>15. ASSUME NEW i \in 1 .. Len(m)
       PROVE  m[i][1] = p.start + 1 + i /\ m[i][2].kind \notin {"sb", "none"}
  <2>1. m[i][1] = sb.bbm + i - 1 /\ m[i][2].kind \notin {"sb", "none"}
    BY <1>10, <1>14 DEF Placed
  <2> QED BY <1>1, <1>2, <2>1
<1> QED BY <1>4, <1>13, <1>14, <1>15 DEF sb, s, m, A, B, C, D

\* The superblock, the bitmaps, the inode table and a data sector are one behind the other.
LEMMA InOrder ==
  ASSUME NEW l \in Layouts, NEW p \in ToSet(l.prims) \cup ToSet(l.logics), Fits(p)
  PROVE  LET sb == SuperBlock(p) IN
           /\ p.start + 1 < sb.bbm /\ sb.bbm < sb.ibm /\ sb.ibm < sb.itab /\ sb.itab < sb.data
           /\ sb.data = p.start + 1 + Len(Metadata(sb)) /\ sb.data < p.start + p.cnt
           /\ sb.bbm \in Nat /\ sb.ibm \in Nat /\ sb.itab \in Nat /\ sb.data \in Nat
           /\ sb.ibm = sb.bbm + sb.bbmSects /\ sb.itab = sb.ibm + InodeBitmap
           /\ sb.bbmSects \in Nat \ {0}
<1> DEFINE sb == SuperBlock(p)
           n  == Len(Metadata(sb))
<1>1. /\ sb.bbm = p.start + 2 /\ sb.ibm = p.start + 2 + sb.bbmSects
      /\ sb.itab = sb.ibm + InodeBitmap /\ sb.data = sb.itab + InodeTable
  BY SuperFacts
<1>2. n = sb.bbmSects + Fixed - 1 /\ p.start + n + 1 < p.start + p.cnt
  BY MetadataFacts
<1>3. sb.bbmSects \in Nat \ {0}
  BY FreeBitsFacts
<1>4. /\ p.start \in Nat /\ p.cnt \in Nat /\ InodeBitmap \in Nat \ {0} /\ InodeTable \in Nat \ {0}
      /\ Fixed = 2 + InodeBitmap + InodeTable
  BY PartFacts, FileSysAssumption DEF Fixed
<1> HIDE DEF n, sb
<1>5. /\ p.start + 1 < sb.bbm /\ sb.bbm < sb.ibm /\ sb.ibm < sb.itab /\ sb.itab < sb.data
      /\ sb.data = p.start + 1 + n /\ sb.data < p.start + p.cnt
      /\ sb.bbm \in Nat /\ sb.ibm \in Nat /\ sb.itab \in Nat /\ sb.data \in Nat
      /\ sb.ibm = sb.bbm + sb.bbmSects
  BY <1>1, <1>2, <1>3, <1>4
<1> QED BY <1>1, <1>3, <1>5 DEF n, sb

-----------------------------------------------------------------------------
(* The search and the formats.                                             *)

\* The first disk, and the arrays of its partitions.
LEMMA FirstDisk ==
  ASSUME IInv
  PROVE  /\ 0 \in Chans /\ layout[0] \in Layouts
         /\ Parts(0) = ToSet(layout[0].prims) \cup ToSet(layout[0].logics)
         /\ Searching => \A i \in Nat : Entry0(i).cnt # 0 => Entry0(i) \in Parts(0)
         /\ ch = 0 => \A i : Part(i) = Entry0(i)
<1>1. 0 \in Chans
  BY FileSysAssumption DEF Chans
<1>2. layout[0] \in Layouts
  BY <1>1 DEF IInv, StateOK
<1>3. ASSUME Searching, NEW i \in Nat, Entry0(i).cnt # 0
      PROVE  Entry0(i) \in Parts(0)
  <2>1. Scanned(0) /\ Good(0)
    BY <1>1, <1>3 DEF IInv, SearchOK, Good
  <2>2. ToSet(prim[0]) \subseteq Parts(0) /\ ToSet(logic[0]) \subseteq Parts(0)
    BY <1>2, <2>1, TakenEnds, LayoutTypes DEF Scanned, Parts
  <2>3. prim[0] \in Seq(Extents) /\ logic[0] \in Seq(Extents)
    BY <2>1 DEF Scanned, Taken, Extents
  <2>4. \A s \in Seq(Extents) : \A j \in 1 .. Len(s) : s[j] \in ToSet(s)
    BY DEF ToSet
  <2>5. MaxPrim \in Nat /\ Len(prim[0]) \in Nat /\ Len(logic[0]) \in Nat
    BY <2>3, FileSysAssumption
  <2>6. CASE i < MaxPrim
    <3>1. i + 1 <= Len(prim[0]) /\ Entry0(i) = prim[0][i + 1]
      BY <1>3, <2>6 DEF Entry0
    <3>2. i + 1 \in 1 .. Len(prim[0])
      BY <2>5, <3>1
    <3> QED BY <2>2, <2>3, <2>4, <3>1, <3>2
  <2>7. CASE ~(i < MaxPrim)
    <3>1. i - MaxPrim + 1 <= Len(logic[0]) /\ Entry0(i) = logic[0][i - MaxPrim + 1]
      BY <1>3, <2>7 DEF Entry0
    <3>2. i - MaxPrim + 1 \in 1 .. Len(logic[0])
      BY <2>5, <2>7, <3>1
    <3> QED BY <2>2, <2>3, <2>4, <3>1, <3>2
  <2> QED BY <2>6, <2>7
<1>4. ch = 0 => \A i : Part(i) = Entry0(i)
  BY DEF Part, Entry0
<1> QED BY <1>1, <1>2, <1>3, <1>4 DEF Parts

\* A superblock has the magic number; a partition that has it is not as it was.
LEMMA MagicFacts ==
  ASSUME IInv, NEW p \in Parts(0)
  PROVE  /\ HasSuper(p) => Magic(0, p)
         /\ Clean(p) => ~Magic(0, p)
         /\ p.start + 1 \in Sectors(p)
<1>1. p.start + 1 \in Sectors(p)
  BY FirstDisk, PartFacts
<1>2. HasSuper(p) => Magic(0, p)
  BY DEF HasSuper, Magic, SuperBlock
<1>3. Clean(p) => ~Magic(0, p)
  BY <1>1 DEF Clean, Magic, Get
<1> QED BY <1>1, <1>2, <1>3

\* The partition that is formatted.
LEMMA FormatFacts ==
  ASSUME IInv, phase = "write"
  PROVE  /\ ch = 0 /\ Entry0(idx) \in Parts(0) /\ idx \in Nat /\ idx < MaxPrim + MaxLogic
         /\ Part(idx) = Entry0(idx)
<1>1. ch = 0 /\ idx < MaxPrim + MaxLogic /\ Entry0(idx).cnt # 0 /\ Searching
  BY DEF IInv, SearchOK, Searching
<1>2. idx \in Nat
  BY FileSysAssumption DEF IInv, StateOK
<1> QED BY <1>1, <1>2, FirstDisk

\* Steps that leave the disks and what has been scanned as they are.
LEMMA SearchQuiet ==
  ASSUME IInv, UNCHANGED <<diskVars, scanVars>>
  PROVE  /\ layout' = layout /\ disk' = disk /\ torn' = torn
         /\ prim' = prim /\ logic' = logic /\ lost' = lost /\ stack' = stack /\ base' = base
         /\ \A c : Scanned(c)' <=> Scanned(c)
         /\ \A i : Entry0(i)' = Entry0(i)
         /\ \A c, q : (Magic(c, q)' <=> Magic(c, q)) /\ (Complete(c, q)' <=> Complete(c, q))
         /\ \A q : (Clean(q)' <=> Clean(q)) /\ (HasSuper(q)' <=> HasSuper(q))
         /\ phase' # "panic" \/ phase = "panic" => PanicExplained'
         /\ phase # "panic" \/ phase' = "panic" => LimitsOK'
<1>1. /\ layout' = layout /\ disk' = disk /\ torn' = torn
      /\ prim' = prim /\ logic' = logic /\ lost' = lost /\ stack' = stack /\ base' = base
  BY DEF diskVars, scanVars
<1>2. \A c : Scanned(c)' <=> Scanned(c)
  BY <1>1 DEF Scanned, Good
<1>3. \A i : Entry0(i)' = Entry0(i)
  BY <1>1 DEF Entry0
<1>4. \A c, q : (Magic(c, q)' <=> Magic(c, q)) /\ (Complete(c, q)' <=> Complete(c, q))
  BY <1>1 DEF Magic, Complete, Get
<1>5. \A q : (Clean(q)' <=> Clean(q)) /\ (HasSuper(q)' <=> HasSuper(q))
  BY <1>1 DEF Clean, HasSuper, Get
<1>6. phase' # "panic" \/ phase = "panic" => PanicExplained'
  BY <1>1 DEF IInv, PanicExplained, Parts, TableBeyond
<1>7. phase # "panic" \/ phase' = "panic" => LimitsOK'
  BY <1>1 DEF IInv, LimitsOK
<1> QED BY <1>1, <1>2, <1>3, <1>4, <1>5, <1>6, <1>7

\* A partition needs no format.
LEMMA SkipStep ==
  ASSUME IInv, Skip
  PROVE  IInv'
<1>1. /\ phase = "search" /\ idx < MaxPrim + MaxLogic /\ (HasPart => Magic(ch, Part(idx)))
      /\ idx' = idx + 1 /\ phase' = phase /\ ch' = ch /\ todo' = todo /\ cur' = cur
      /\ UNCHANGED <<diskVars, scanVars>>
  BY DEF Skip
<1>2. /\ \A c \in Chans : Scanned(c)
      /\ \A i \in 0 .. idx - 1 : Entry0(i).cnt # 0 => Magic(0, Entry0(i))
      /\ ch = 0 /\ idx \in Nat /\ MaxPrim + MaxLogic \in Nat
  <2>1. idx \in Nat /\ MaxPrim + MaxLogic \in Nat
    BY FileSysAssumption DEF IInv, StateOK
  <2> QED BY <1>1, <2>1 DEF IInv, SearchOK, Searching
<1>3. Entry0(idx).cnt # 0 => Magic(0, Entry0(idx))
  BY <1>1, <1>2, FirstDisk DEF HasPart
<1>4. StateOK'
  <2>1. idx' \in 0 .. MaxPrim + MaxLogic
    BY <1>1, <1>2
  <2> QED BY <1>1, <2>1, SearchQuiet DEF IInv, StateOK
<1>5. SearchOK'
  <2>1. \A i \in 0 .. idx' - 1 : i \in 0 .. idx - 1 \/ i = idx
    BY <1>1, <1>2
  <2>2. \A i \in 0 .. idx' - 1 : Entry0(i)'.cnt # 0 => Magic(0, Entry0(i))'
    <3>1. \A i \in 0 .. idx' - 1 : Entry0(i).cnt # 0 => Magic(0, Entry0(i))
      BY <1>2, <1>3, <2>1
    <3> QED BY <1>1, <3>1, SearchQuiet DEF Magic, Get
  <2> QED BY <1>1, <1>2, <2>2, SearchQuiet DEF SearchOK
<1>6. DiskOK'
  BY <1>1, SearchQuiet DEF IInv, DiskOK, Parts
<1>7. PanicExplained' /\ LimitsOK' /\ ScanOK' /\ FormatOK' /\ MountedWhole'
  BY <1>1, SearchQuiet DEF ScanOK, FormatOK, MountedWhole
<1> QED BY <1>4, <1>5, <1>6, <1>7 DEF IInv

\* The superblock is behind max_lba, and so is all of the rest.
LEMMA SearchStopsStep ==
  ASSUME IInv, SearchStops
  PROVE  IInv'
<1> DEFINE p == Part(idx)
<1>1. /\ phase = "search" /\ idx < MaxPrim + MaxLogic /\ p.cnt # 0 /\ p.start + 1 > MaxLba
      /\ Stop /\ layout' = layout
  BY DEF SearchStops, HasPart, Stop, diskVars
<1>2. p \in Parts(0) /\ 0 \in Chans
  <2>1. idx \in Nat /\ MaxPrim + MaxLogic \in Nat
    BY FileSysAssumption DEF IInv, StateOK
  <2>2. ch = 0 /\ Searching
    BY <1>1, <2>1 DEF IInv, SearchOK, Searching
  <2> QED BY <1>1, <2>1, <2>2, FirstDisk
<1>3. ~Usable(p)
  <2> SUFFICES ASSUME Fits(p) PROVE ~(SuperBlock(p).data <= MaxLba)
    BY DEF Usable
  <2>1. /\ p.start + 1 < SuperBlock(p).bbm /\ SuperBlock(p).bbm < SuperBlock(p).data
        /\ SuperBlock(p).bbm \in Nat /\ SuperBlock(p).data \in Nat /\ p.start \in Nat
    BY <1>2, FirstDisk, InOrder, PartFacts
  <2>2. MaxLba \in Nat
    BY FileSysAssumption
  <2> HIDE DEF p
  <2> QED BY <1>1, <2>1, <2>2
<1>4. PanicExplained'
  <2>1. Parts(0)' = Parts(0)
    BY <1>1 DEF Parts
  <2> HIDE DEF p
  <2> QED BY <1>2, <1>3, <2>1 DEF PanicExplained
<1> QED BY <1>1, <1>4, StopStep

\* A partition without a superblock has nothing else either, and all is to be written.
LEMMA FormatStep ==
  ASSUME IInv, Format
  PROVE  IInv'
<1> DEFINE p == Entry0(idx)
<1>1. /\ phase = "search" /\ idx < MaxPrim + MaxLogic /\ Part(idx).cnt # 0 /\ ~Magic(ch, Part(idx))
      /\ todo' = Whole(SuperBlock(Part(idx))) /\ phase' = "write"
      /\ idx' = idx /\ ch' = ch /\ cur' = cur
      /\ UNCHANGED <<diskVars, scanVars>>
  BY DEF Format, HasPart, Whole
<1>2. /\ \A c \in Chans : Scanned(c)
      /\ \A i \in 0 .. idx - 1 : Entry0(i).cnt # 0 => Magic(0, Entry0(i))
      /\ ch = 0 /\ idx \in Nat /\ Searching
  <2>1. idx \in Nat
    BY FileSysAssumption DEF IInv, StateOK
  <2> QED BY <1>1, <2>1 DEF IInv, SearchOK, Searching
<1>3. Part(idx) = p /\ p \in Parts(0) /\ p.cnt # 0
  BY <1>1, <1>2, FirstDisk
<1>4. Clean(p)
  BY <1>1, <1>2, <1>3, MagicFacts DEF IInv, DiskOK
<1>5. StateOK'
  BY <1>1, SearchQuiet DEF IInv, StateOK
<1>6. SearchOK'
  <2>1. \A i \in 0 .. idx' - 1 : Entry0(i)'.cnt # 0 => Magic(0, Entry0(i))'
    <3>1. \A i \in 0 .. idx' - 1 : Entry0(i).cnt # 0 => Magic(0, Entry0(i))
      BY <1>1, <1>2
    <3> QED BY <1>1, <3>1, SearchQuiet DEF Magic, Get
  <2>2. Entry0(idx)' = p
    BY <1>1, SearchQuiet DEF Entry0
  <2> QED BY <1>1, <1>2, <1>3, <2>1, <2>2, SearchQuiet DEF SearchOK
<1>7. DiskOK'
  BY <1>1, SearchQuiet DEF IInv, DiskOK, Parts
<1>8. FormatOK'
  <2>1. Entry0(idx)' = p
    BY <1>1, SearchQuiet DEF Entry0
  <2>2. todo' = Whole(SuperBlock(p)) /\ Clean(p)'
    BY <1>1, <1>3, <1>4, SearchQuiet
  <2> QED BY <2>1, <2>2 DEF FormatOK
<1>9. PanicExplained' /\ LimitsOK' /\ ScanOK' /\ MountedWhole'
  BY <1>1, SearchQuiet DEF ScanOK, MountedWhole
<1> QED BY <1>5, <1>6, <1>7, <1>8, <1>9 DEF IInv

\* All of a format is written.
LEMMA AllWritten ==
  ASSUME IInv, phase = "write", todo = <<>>
  PROVE  HasSuper(Entry0(idx)) /\ Complete(0, Entry0(idx))
<1> DEFINE p == Entry0(idx)
<1>1. Whole(SuperBlock(p)) # <<>>
  BY DEF Whole
<1>2. ToSet(todo) = {}
  BY DEF ToSet
<1>3. /\ HasSuper(p)
      /\ \A w \in ToSet(Metadata(SuperBlock(p))) : w \in ToSet(todo) \/ Get(0, w[1]) = w[2]
  BY <1>1 DEF IInv, FormatOK
<1>4. SuperBlock(p).start = p.start
  BY DEF SuperBlock
<1> QED BY <1>2, <1>3, <1>4 DEF Complete, HasSuper

\* It is done.
LEMMA FormattedStep ==
  ASSUME IInv, Formatted
  PROVE  IInv'
<1> DEFINE p == Entry0(idx)
<1>1. /\ phase = "write" /\ todo = <<>> /\ phase' = "search" /\ idx' = idx + 1
      /\ ch' = ch /\ todo' = todo /\ cur' = cur
      /\ UNCHANGED <<diskVars, scanVars>>
  BY DEF Formatted
<1>2. /\ \A c \in Chans : Scanned(c)
      /\ \A i \in 0 .. idx - 1 : Entry0(i).cnt # 0 => Magic(0, Entry0(i))
  BY <1>1 DEF IInv, SearchOK, Searching
<1>3. /\ ch = 0 /\ p \in Parts(0) /\ idx \in Nat /\ idx < MaxPrim + MaxLogic
      /\ MaxPrim + MaxLogic \in Nat
  BY <1>1, FormatFacts, FileSysAssumption
<1>4. HasSuper(p) /\ Complete(0, p) /\ Magic(0, p)
  BY <1>1, <1>3, AllWritten, MagicFacts
<1>5. StateOK'
  <2>1. idx' \in 0 .. MaxPrim + MaxLogic
    BY <1>1, <1>3
  <2> QED BY <1>1, <2>1, SearchQuiet DEF IInv, StateOK
<1>6. SearchOK'
  <2>1. \A i \in 0 .. idx' - 1 : i \in 0 .. idx - 1 \/ i = idx
    BY <1>1, <1>3
  <2>2. \A i \in 0 .. idx' - 1 : Entry0(i)'.cnt # 0 => Magic(0, Entry0(i))'
    <3>1. \A i \in 0 .. idx' - 1 : Entry0(i).cnt # 0 => Magic(0, Entry0(i))
      BY <1>2, <1>4, <2>1
    <3> QED BY <1>1, <3>1, SearchQuiet DEF Magic, Get
  <2> QED BY <1>1, <1>2, <1>3, <2>2, SearchQuiet DEF SearchOK
<1>7. DiskOK'
  <2>1. \A q \in Parts(0) : \/ Clean(q)
                            \/ HasSuper(q) /\ (Complete(0, q) \/ <<0, q.start>> \in torn \/ ~Usable(q))
    BY <1>4 DEF IInv, DiskOK
  <2>2. /\ \A c \in Chans \ {0} : DOMAIN disk[c] = {}
        /\ \A l \in DOMAIN disk[0] : \E q \in Parts(0) : l \in Sectors(q)
    BY DEF IInv, DiskOK
  <2> QED BY <1>1, <2>1, <2>2, SearchQuiet DEF DiskOK, Parts
<1>8. PanicExplained' /\ LimitsOK' /\ ScanOK' /\ FormatOK' /\ MountedWhole'
  BY <1>1, SearchQuiet DEF ScanOK, FormatOK, MountedWhole
<1> QED BY <1>5, <1>6, <1>7, <1>8 DEF IInv

\* The next disk, of which nothing is looked at, or the mount.
LEMMA SearchNextStep ==
  ASSUME IInv, SearchNext
  PROVE  IInv'
<1>1. /\ phase = "search" /\ idx = MaxPrim + MaxLogic
      /\ \/ ch + 1 < Channels /\ ch' = ch + 1 /\ phase' = phase
         \/ phase' = "mount" /\ ch' = ch
      /\ idx' = idx /\ todo' = todo /\ cur' = cur
      /\ UNCHANGED <<diskVars, scanVars>>
  BY DEF SearchNext
<1>2. /\ \A c \in Chans : Scanned(c)
      /\ \A i \in 0 .. idx - 1 : Entry0(i).cnt # 0 => Magic(0, Entry0(i))
  BY <1>1 DEF IInv, SearchOK, Searching
<1>3. ch' \in Chans /\ phase' \in {"search", "mount"} /\ todo = <<>>
  <2>1. ch \in Chans /\ Channels \in Nat
    BY FileSysAssumption DEF IInv, StateOK
  <2>2. ch' \in Chans
    BY <1>1, <2>1 DEF Chans
  <2> QED BY <1>1, <2>2 DEF IInv, StateOK
<1>4. StateOK'
  BY <1>1, <1>3, SearchQuiet DEF IInv, StateOK
<1>5. SearchOK'
  <2>1. \A i \in 0 .. idx' - 1 : Entry0(i)'.cnt # 0 => Magic(0, Entry0(i))'
    BY <1>1, <1>2, SearchQuiet DEF Magic, Get
  <2> QED BY <1>1, <1>2, <1>3, <2>1, SearchQuiet DEF SearchOK
<1>6. DiskOK'
  BY <1>1, SearchQuiet DEF IInv, DiskOK, Parts
<1>7. PanicExplained' /\ LimitsOK' /\ ScanOK' /\ FormatOK' /\ MountedWhole'
  BY <1>1, <1>3, SearchQuiet DEF ScanOK, FormatOK, MountedWhole
<1> QED BY <1>4, <1>5, <1>6, <1>7 DEF IInv

\* The sectors of the metadata are those of the partition, behind the superblock's.
LEMMA MetadataWithin ==
  ASSUME IInv, NEW p \in Parts(0), Fits(p), NEW w \in ToSet(Metadata(SuperBlock(p)))
  PROVE  /\ w[1] \in Sectors(p) /\ w[1] # p.start + 1 /\ w[2].kind \notin {"sb", "none"}
         /\ \A v \in ToSet(Metadata(SuperBlock(p))) : v[1] = w[1] => v = w
<1> DEFINE m == Metadata(SuperBlock(p))
<1>1. /\ m \in Seq(Writes) /\ Len(m) \in Nat /\ p.start + Len(m) + 1 < p.start + p.cnt
      /\ \A i \in 1 .. Len(m) : /\ m[i][1] = p.start + 1 + i
                                /\ m[i][2].kind \notin {"sb", "none"}
  BY FirstDisk, MetadataFacts, LenProperties
<1>2. /\ p.start \in Nat /\ p.cnt \in Nat
      /\ \A x : x \in Sectors(p) <=> x \in Int /\ p.start <= x /\ x < p.start + p.cnt
  BY FirstDisk, PartFacts
<1> HIDE DEF m
<1>3. \A v \in ToSet(m) : \E i \in 1 .. Len(m) : v = m[i]
  BY <1>1 DEF ToSet
<1>4. PICK i \in 1 .. Len(m) : w = m[i]
  BY <1>3 DEF m
<1>5. w[1] = p.start + 1 + i /\ w[2].kind \notin {"sb", "none"}
  BY <1>1, <1>4
<1>6. w[1] \in Sectors(p) /\ w[1] # p.start + 1
  <2>1. /\ p.start + 1 + i \in Int /\ p.start <= p.start + 1 + i
        /\ p.start + 1 + i < p.start + p.cnt /\ p.start + 1 + i # p.start + 1
    BY <1>1, <1>2
  <2> QED BY <1>2, <1>5, <2>1
<1>7. ASSUME NEW v \in ToSet(m), v[1] = w[1] PROVE v = w
  <2>1. PICK j \in 1 .. Len(m) : v = m[j]
    BY <1>3
  <2>2. v[1] = p.start + 1 + j
    BY <1>1, <2>1
  <2>3. i = j
    BY <1>2, <1>5, <1>7, <2>2
  <2> QED BY <1>4, <2>1, <2>3
<1> QED BY <1>5, <1>6, <1>7 DEF m

\* A sector of a partition is written.
LEMMA Written ==
  ASSUME IInv, NEW p \in Parts(0), NEW a \in Sectors(p), NEW x,
         disk' = [disk EXCEPT ![0] = Put(@, a, x)], layout' = layout, torn' = torn
  PROVE  /\ \A c \in Chans : disk'[c] = [l \in DOMAIN disk'[c] |-> disk'[c][l]]
         /\ DOMAIN disk' = Chans
         /\ \A c \in Chans \ {0} : disk'[c] = disk[c] /\ DOMAIN disk'[c] = {}
         /\ \A l \in DOMAIN disk'[0] : \E q \in Parts(0)' : l \in Sectors(q)
         /\ Get(0, a)' = x
         /\ \A l : l # a => Get(0, l)' = Get(0, l)
         /\ \A q \in Parts(0) : q # p =>
              /\ (Magic(0, q)' <=> Magic(0, q)) /\ (Clean(q) => Clean(q)') /\ (HasSuper(q) => HasSuper(q)')
              /\ Usable(q) /\ Complete(0, q) => Complete(0, q)'
<1>1. /\ DOMAIN disk = Chans /\ 0 \in Chans /\ layout[0] \in Layouts
      /\ \A c \in Chans : disk[c] = [l \in DOMAIN disk[c] |-> disk[c][l]]
  BY FirstDisk DEF IInv, StateOK
<1>2. /\ disk'[0] = Put(disk[0], a, x) /\ DOMAIN disk' = Chans
      /\ \A c \in Chans \ {0} : disk'[c] = disk[c]
  BY <1>1
<1>3. /\ DOMAIN disk'[0] = DOMAIN disk[0] \cup {a}
      /\ \A l \in DOMAIN disk'[0] : disk'[0][l] = IF l = a THEN x ELSE disk[0][l]
      /\ disk'[0] = [l \in DOMAIN disk'[0] |-> disk'[0][l]]
  BY <1>2 DEF Put
<1>4. \A c \in Chans : disk'[c] = [l \in DOMAIN disk'[c] |-> disk'[c][l]]
  BY <1>1, <1>2, <1>3
<1>5. /\ \A c \in Chans \ {0} : DOMAIN disk[c] = {}
      /\ \A l \in DOMAIN disk[0] : \E q \in Parts(0) : l \in Sectors(q)
  BY DEF IInv, DiskOK
<1>6. Parts(0)' = Parts(0)
  BY DEF Parts
<1>7. \A l \in DOMAIN disk'[0] : \E q \in Parts(0)' : l \in Sectors(q)
  BY <1>3, <1>5, <1>6
<1>8. Get(0, a)' = x /\ \A l : l # a => Get(0, l)' = Get(0, l)
  BY <1>3 DEF Get
<1>9. ASSUME NEW q \in Parts(0), q # p
      PROVE  /\ (Magic(0, q)' <=> Magic(0, q)) /\ (Clean(q) => Clean(q)') /\ (HasSuper(q) => HasSuper(q)')
             /\ Usable(q) /\ Complete(0, q) => Complete(0, q)'
  <2>1. a \notin Sectors(q)
    <3>1. Sectors(p) \cap Sectors(q) = {}
      BY <1>1, <1>9, PartFacts DEF Parts
    <3> QED BY <3>1
  <2>2. q.start + 1 # a
    BY <2>1, MagicFacts
  <2>3. Get(0, q.start + 1)' = Get(0, q.start + 1)
    BY <1>3, <2>2 DEF Get
  <2>4. (Magic(0, q)' <=> Magic(0, q)) /\ (HasSuper(q) => HasSuper(q)')
    BY <2>3 DEF Magic, HasSuper
  <2>5. Clean(q) => Clean(q)'
    BY <1>3, <2>1 DEF Clean
  <2>6. ASSUME Usable(q), Complete(0, q) PROVE Complete(0, q)'
    <3>1. ASSUME NEW w \in ToSet(Metadata(SuperBlock(q))) PROVE Get(0, w[1])' = w[2]
      <4>1. w[1] # a
        BY <2>1, <2>6, MetadataWithin DEF Usable
      <4>2. Get(0, w[1]) = w[2]
        BY <2>6 DEF Complete
      <4> QED BY <1>3, <4>1, <4>2 DEF Get
    <3>2. SuperBlock(q).start = q.start
      BY DEF SuperBlock
    <3> QED BY <2>3, <2>6, <3>1, <3>2 DEF Complete
  <2> QED BY <2>4, <2>5, <2>6
<1> QED BY <1>2, <1>4, <1>5, <1>7, <1>8, <1>9

\* Nothing is written yet: the superblock is the first.
LEMMA WholeFacts ==
  ASSUME IInv, phase = "write", todo = Whole(SuperBlock(Entry0(idx)))
  PROVE  LET p == Entry0(idx)
             m == Metadata(SuperBlock(p)) IN
           /\ Head(todo) = <<p.start + 1, SuperBlock(p)>>
           /\ Tail(todo) = IF Held(p) THEN m ELSE <<>>
           /\ Held(p) => m \in Seq(Writes) /\ Len(m) \in Nat \ {0}
<1> DEFINE p  == Entry0(idx)
           sb == SuperBlock(p)
           m  == Metadata(sb)
           w  == <<sb.start + 1, sb>>
           t  == IF Held(p) THEN m ELSE <<>>
<1>1. p \in Parts(0) /\ layout[0] \in Layouts
      /\ Parts(0) = ToSet(layout[0].prims) \cup ToSet(layout[0].logics)
  BY FormatFacts, FirstDisk
<1>2. sb.kind = "sb" /\ sb.start = p.start
  BY DEF SuperBlock
<1>3. Held(p) => m \in Seq(Writes) /\ Len(m) \in Nat \ {0}
  <2> SUFFICES ASSUME Held(p) PROVE m \in Seq(Writes) /\ Len(m) \in Nat \ {0}
    OBVIOUS
  <2>1. Fits(p)
    BY <1>1, SuperFacts
  <2>2. m \in Seq(Writes) /\ Len(m) = sb.bbmSects + Fixed - 1 /\ Fixed \in Nat /\ sb.bbmSects \in Nat \ {0}
    BY <1>1, <2>1, MetadataFacts, SuperFacts, FreeBitsFacts
  <2>3. Fixed >= 2
    BY FileSysAssumption DEF Fixed
  <2>4. Len(m) \in Nat
    BY <2>2, LenProperties
  <2> QED BY <2>2, <2>3, <2>4
<1>4. todo = <<w>> \o t
  BY DEF Whole, Held
<1> HIDE DEF m, sb
<1> DEFINE X == Writes \cup {w}
<1>5. t \in Seq(X) /\ w \in X
  <2>1. m \in Seq(Writes) => m \in Seq(X)
    BY SeqDef
  <2> QED BY <1>3, <2>1, EmptySeq
<1> HIDE DEF X, w, t
<1>6. Head(todo) = w /\ Tail(todo) = t
  <2>1. <<w>> \in Seq(X) /\ Len(<<w>>) = 1 /\ <<w>>[1] = w
    BY <1>5
  <2>2. /\ todo \in Seq(X) /\ Len(todo) = 1 + Len(t) /\ todo[1] = w
        /\ \A i \in 1 .. 1 + Len(t) : todo[i] = IF i <= 1 THEN <<w>>[i] ELSE t[i - 1]
    BY <1>4, <1>5, <2>1, ConcatProperties
  <2>3. Len(t) \in Nat
    BY <1>5
  <2>4. todo # <<>> /\ Tail(todo) \in Seq(X) /\ Len(Tail(todo)) = Len(t) /\ Head(todo) = w
        /\ \A i \in 1 .. Len(t) : Tail(todo)[i] = todo[i + 1]
    BY <2>2, <2>3, HeadTailProperties, EmptySeq
  <2>5. \A i \in 1 .. Len(t) : Tail(todo)[i] = t[i]
    BY <2>2, <2>3, <2>4
  <2>6. Tail(todo) = t
    BY <1>5, <2>4, <2>5, SeqEqual
  <2> QED BY <2>4, <2>6
<1> QED BY <1>2, <1>3, <1>6 DEF w, t, m, sb

\* The superblock of a partition that had nothing.
LEMMA WriteSuper ==
  ASSUME IInv, Write, todo = Whole(SuperBlock(Entry0(idx))), Clean(Entry0(idx))
  PROVE  LET p == Entry0(idx) IN
           /\ disk' = [disk EXCEPT ![0] = Put(@, p.start + 1, SuperBlock(p))]
           /\ todo' = IF Held(p) THEN Metadata(SuperBlock(p)) ELSE <<>>
           /\ Held(p) => phase' = "write" /\ todo' \in Seq(ToSet(Metadata(SuperBlock(p))))
           /\ ~Held(p) => phase' = "panic"
<1> DEFINE p  == Entry0(idx)
           sb == SuperBlock(p)
           m  == Metadata(sb)
           t  == IF Held(p) THEN m ELSE <<>>
<1>1. phase = "write" /\ ch = 0 /\ sb.kind = "sb"
  BY FormatFacts DEF Write, SuperBlock
<1>2. /\ Head(todo) = <<p.start + 1, sb>> /\ Tail(todo) = t
      /\ Held(p) => m \in Seq(Writes) /\ Len(m) \in Nat \ {0}
  BY <1>1, WholeFacts
<1> HIDE DEF m, sb, t, p
<1>3. Head(todo)[1] = p.start + 1 /\ Head(todo)[2] = sb
  BY <1>2
<1>4. disk' = [disk EXCEPT ![0] = Put(@, p.start + 1, sb)] /\ todo' = t
      /\ phase' = IF t = <<>> THEN "panic" ELSE "write"
  BY <1>1, <1>2, <1>3 DEF Write
<1>5. Held(p) => m \in Seq(ToSet(m)) /\ t # <<>>
  BY <1>2, EmptySeq DEF ToSet, t
<1> QED BY <1>4, <1>5 DEF t, m, sb, p

\* Another sector of it.
LEMMA WriteOther ==
  ASSUME IInv, Write, ~(todo = Whole(SuperBlock(Entry0(idx))) /\ Clean(Entry0(idx)))
  PROVE  LET p == Entry0(idx)
             m == Metadata(SuperBlock(p)) IN
           /\ Fits(p) /\ HasSuper(p) /\ Held(p)
           /\ todo' \in Seq(ToSet(m)) /\ phase' = "write"
           /\ \E w \in ToSet(m) : /\ disk' = [disk EXCEPT ![0] = Put(@, w[1], w[2])]
                                  /\ \A v \in ToSet(m) : v \in ToSet(todo) => v = w \/ v \in ToSet(todo')
           /\ \A v \in ToSet(m) : v \in ToSet(todo) \/ Get(0, v[1]) = v[2]
<1> DEFINE p == Entry0(idx)
           m == Metadata(SuperBlock(p))
           w == Head(todo)
<1>1. /\ phase = "write" /\ todo # <<>> /\ ch = 0 /\ todo' = Tail(todo)
      /\ disk' = [disk EXCEPT ![0] = Put(@, w[1], w[2])]
      /\ phase' = IF w[2].kind = "sb" /\ Tail(todo) = <<>> THEN "panic" ELSE phase
  BY FormatFacts DEF Write
<1>2. /\ p \in Parts(0) /\ layout[0] \in Layouts
      /\ Parts(0) = ToSet(layout[0].prims) \cup ToSet(layout[0].logics)
  BY <1>1, FormatFacts, FirstDisk
<1>3. /\ HasSuper(p) /\ Held(p) /\ todo \in Seq(ToSet(m))
      /\ \A v \in ToSet(m) : v \in ToSet(todo) \/ Get(0, v[1]) = v[2]
  BY <1>1 DEF IInv, FormatOK
<1>4. Fits(p)
  BY <1>2, <1>3, SuperFacts
<1> HIDE DEF m
<1>5. /\ w \in ToSet(m) /\ Tail(todo) \in Seq(ToSet(m)) /\ w = todo[1]
      /\ Len(Tail(todo)) = Len(todo) - 1 /\ \A i \in 1 .. Len(todo) - 1 : Tail(todo)[i] = todo[i + 1]
  <2>1. Len(todo) \in Nat \ {0} /\ \A i \in 1 .. Len(todo) : todo[i] \in ToSet(m)
    BY <1>1, <1>3, EmptySeq, ElementOfSeq
  <2>2. w = todo[1] /\ Tail(todo) \in Seq(ToSet(m)) /\ Len(Tail(todo)) = Len(todo) - 1
        /\ \A i \in 1 .. Len(Tail(todo)) : Tail(todo)[i] = todo[i + 1]
    BY <1>1, <1>3, HeadTailProperties
  <2> QED BY <2>1, <2>2
<1>6. ASSUME NEW v \in ToSet(todo) PROVE v = w \/ v \in ToSet(Tail(todo))
  <2>1. PICK i \in 1 .. Len(todo) : v = todo[i]
    BY <1>3, <1>6 DEF ToSet
  <2>2. CASE i = 1
    BY <1>5, <2>1, <2>2
  <2>3. CASE i # 1
    <3>1. PICK j \in 1 .. Len(todo) - 1 : i = j + 1
      <4>1. i - 1 \in 1 .. Len(todo) - 1 /\ i = (i - 1) + 1
        BY <1>3, <2>3
      <4> QED BY <4>1
    <3>2. Tail(todo)[j] = v /\ j \in 1 .. Len(Tail(todo)) /\ DOMAIN Tail(todo) = 1 .. Len(Tail(todo))
      BY <1>5, <2>1, <3>1
    <3> QED BY <3>2 DEF ToSet
  <2> QED BY <2>2, <2>3
<1>7. w[2].kind # "sb"
  BY <1>2, <1>4, <1>5, MetadataWithin DEF m
<1>8. todo' \in Seq(ToSet(m)) /\ phase' = "write"
  BY <1>1, <1>5, <1>7
<1>9. \E v \in ToSet(m) : /\ disk' = [disk EXCEPT ![0] = Put(@, v[1], v[2])]
                          /\ \A u \in ToSet(m) : u \in ToSet(todo) => u = v \/ u \in ToSet(todo')
  BY <1>1, <1>5, <1>6
<1> QED BY <1>3, <1>4, <1>8, <1>9 DEF m

\* What a write leaves to be shown: the partition that is formatted has its superblock,
\* and the format goes on, or has stopped for a partition that is too small.
LEMMA WriteFrame ==
  ASSUME IInv, Write,
         NEW a \in Sectors(Entry0(idx)), NEW x, disk' = [disk EXCEPT ![0] = Put(@, a, x)],
         HasSuper(Entry0(idx))',
         \/ phase' = "write" /\ FormatOK'
         \/ phase' = "panic" /\ todo' = <<>> /\ ~Usable(Entry0(idx))
  PROVE  IInv'
<1> DEFINE p == Entry0(idx)
<1>1. /\ phase = "write" /\ ch = 0 /\ p \in Parts(0) /\ layout' = layout /\ torn' = torn
      /\ ch' = ch /\ idx' = idx /\ cur' = cur
      /\ stack' = stack /\ base' = base /\ prim' = prim /\ logic' = logic /\ lost' = lost
  BY FormatFacts DEF Write, scanVars
<1>2. /\ \A c \in Chans : Scanned(c)
      /\ \A i \in 0 .. idx - 1 : Entry0(i).cnt # 0 => Magic(0, Entry0(i))
      /\ idx < MaxPrim + MaxLogic /\ p.cnt # 0 /\ Searching /\ idx \in Nat
  BY <1>1, FormatFacts DEF IInv, SearchOK, Searching
<1>3. /\ \A c \in Chans : disk'[c] = [l \in DOMAIN disk'[c] |-> disk'[c][l]]
      /\ DOMAIN disk' = Chans
      /\ \A c \in Chans \ {0} : disk'[c] = disk[c] /\ DOMAIN disk'[c] = {}
      /\ \A l \in DOMAIN disk'[0] : \E q \in Parts(0)' : l \in Sectors(q)
      /\ \A q \in Parts(0) : q # p =>
           /\ (Magic(0, q)' <=> Magic(0, q)) /\ (Clean(q) => Clean(q)') /\ (HasSuper(q) => HasSuper(q)')
           /\ Usable(q) /\ Complete(0, q) => Complete(0, q)'
  BY <1>1, Written
<1>4. (\A c : Scanned(c)' <=> Scanned(c)) /\ (\A i : Entry0(i)' = Entry0(i)) /\ p' = p /\ Parts(0)' = Parts(0)
  <2>1. \A i : Entry0(i)' = Entry0(i)
    BY <1>1 DEF Entry0
  <2>2. p' = p
    BY <1>1 DEF Entry0
  <2> QED BY <1>1, <2>1, <2>2 DEF Scanned, Good, Parts
<1>5. \A q : q = p => Magic(0, q)'
  BY <1>4 DEF HasSuper, Magic, SuperBlock, Get
<1>6. StateOK'
  BY <1>1, <1>3 DEF IInv, StateOK
<1>7. LimitsOK'
  BY <1>1 DEF IInv, LimitsOK
<1>8. SearchOK'
  <2>1. ASSUME NEW i \in 0 .. idx - 1, Entry0(i).cnt # 0 PROVE Magic(0, Entry0(i))'
    <3>1. PICK q : q = Entry0(i)
      OBVIOUS
    <3>2. q \in Parts(0) /\ Magic(0, q)
      <4>1. i \in Nat
        BY <1>2
      <4> QED BY <1>2, <2>1, <3>1, <4>1, FirstDisk
    <3>3. Magic(0, q)'
      BY <1>3, <1>5, <3>2
    <3>4. Entry0(i)' = q
      BY <1>4, <3>1
    <3> QED BY <3>3, <3>4 DEF Magic, Get
  <2>2. \A i \in 0 .. idx' - 1 : Entry0(i)'.cnt # 0 => Magic(0, Entry0(i))'
    BY <1>1, <1>4, <2>1
  <2> QED BY <1>1, <1>2, <1>4, <2>2 DEF SearchOK, Searching
<1>9. DiskOK'
  <2>1. ASSUME NEW q \in Parts(0), q # p
        PROVE  \/ Clean(q)'
               \/ HasSuper(q)' /\ (Complete(0, q)' \/ <<0, q.start>> \in torn' \/ ~Usable(q))
    BY <1>1, <1>3, <2>1 DEF IInv, DiskOK
  <2>2. HasSuper(p)' /\ (~Usable(p) \/ (phase' = "write" /\ p = p'))
    BY <1>4
  <2> QED BY <1>3, <1>4, <2>1, <2>2 DEF DiskOK
<1>10. PanicExplained'
  <2>1. phase' = "panic" => ~Usable(p)
    OBVIOUS
  <2> HIDE DEF p
  <2> QED BY <1>1, <1>4, <2>1, FirstDisk DEF PanicExplained
<1>11. ScanOK' /\ MountedWhole' /\ FormatOK'
  BY DEF ScanOK, MountedWhole, FormatOK
<1> QED BY <1>6, <1>7, <1>8, <1>9, <1>10, <1>11 DEF IInv

\* A sector is written.
LEMMA WriteStep ==
  ASSUME IInv, Write
  PROVE  IInv'
<1> DEFINE p == Entry0(idx)
           m == Metadata(SuperBlock(p))
<1>1. /\ phase = "write" /\ p \in Parts(0) /\ layout[0] \in Layouts /\ p.start + 1 \in Sectors(p)
      /\ Parts(0) = ToSet(layout[0].prims) \cup ToSet(layout[0].logics)
      /\ Entry0(idx)' = p /\ layout' = layout /\ torn' = torn
  <2>1. Entry0(idx)' = p /\ layout' = layout /\ torn' = torn /\ phase = "write"
    BY DEF Write, scanVars, Entry0
  <2> QED BY <2>1, FormatFacts, FirstDisk, MagicFacts
<1>2. CASE todo = Whole(SuperBlock(p)) /\ Clean(p)
  <2>1. /\ disk' = [disk EXCEPT ![0] = Put(@, p.start + 1, SuperBlock(p))]
        /\ todo' = IF Held(p) THEN m ELSE <<>>
        /\ Held(p) => phase' = "write" /\ todo' \in Seq(ToSet(m))
        /\ ~Held(p) => phase' = "panic"
    BY <1>2, WriteSuper
  <2>2. Get(0, p.start + 1)' = SuperBlock(p)
    <3>0. PICK a \in Sectors(p) : a = p.start + 1
      BY <1>1
    <3>1. PICK x : a = p.start + 1 /\ x = SuperBlock(p)
      BY <3>0
    <3>2. disk' = [disk EXCEPT ![0] = Put(@, a, x)]
      BY <2>1, <3>1
    <3>3. Get(0, a)' = x
      BY <1>1, <3>2, Written
    <3>4. p' = p
      BY <1>1
    <3> QED BY <3>1, <3>3, <3>4 DEF Get, SuperBlock
  <2>3. HasSuper(p)'
    BY <1>1, <2>2 DEF HasSuper, Get
  <2>4. CASE Held(p)
    <3>1. FormatOK'
      BY <1>1, <2>1, <2>3, <2>4 DEF FormatOK, Held
    <3> QED BY <1>1, <2>1, <2>3, <2>4, <3>1, WriteFrame
  <2>5. CASE ~Held(p)
    <3>1. ~Usable(p)
      BY <1>1, <2>5, SuperFacts DEF Usable
    <3> QED BY <1>1, <2>1, <2>3, <2>5, <3>1, WriteFrame
  <2> QED BY <2>4, <2>5
<1>3. CASE ~(todo = Whole(SuperBlock(p)) /\ Clean(p))
  <2>1. /\ Fits(p) /\ HasSuper(p) /\ Held(p)
        /\ todo' \in Seq(ToSet(m)) /\ phase' = "write"
        /\ \A v \in ToSet(m) : v \in ToSet(todo) \/ Get(0, v[1]) = v[2]
    BY <1>3, WriteOther
  <2>2. PICK w \in ToSet(m) : /\ disk' = [disk EXCEPT ![0] = Put(@, w[1], w[2])]
                              /\ \A v \in ToSet(m) : v \in ToSet(todo) => v = w \/ v \in ToSet(todo')
    BY <1>3, WriteOther
  <2>3. /\ w[1] \in Sectors(p) /\ w[1] # p.start + 1
        /\ \A v \in ToSet(m) : v[1] = w[1] => v = w
    BY <1>1, <2>1, MetadataWithin
  <2>4. \A l : (l = w[1] => Get(0, l)' = w[2]) /\ (l # w[1] => Get(0, l)' = Get(0, l))
    <3>0. PICK a \in Sectors(p) : a = w[1]
      BY <2>3
    <3>1. PICK x : a = w[1] /\ x = w[2]
      BY <3>0
    <3>2. disk' = [disk EXCEPT ![0] = Put(@, a, x)]
      BY <2>2, <3>1
    <3>3. Get(0, a)' = x /\ \A l : l # a => Get(0, l)' = Get(0, l)
      BY <1>1, <3>2, Written
    <3> QED BY <3>1, <3>3 DEF Get
  <2>5. HasSuper(p)'
    BY <1>1, <2>1, <2>3, <2>4 DEF HasSuper, Get
  <2>6. FormatOK'
    <3>1. \A v \in ToSet(m) : v \in ToSet(todo') \/ Get(0, v[1])' = v[2]
      BY <2>1, <2>2, <2>3, <2>4
    <3> QED BY <1>1, <2>1, <2>5, <3>1 DEF FormatOK, Held, Get
  <2> QED BY <1>1, <2>1, <2>2, <2>3, <2>5, <2>6, WriteFrame
<1> QED BY <1>2, <1>3

\* A sector that is behind max_lba is of a partition that the driver does not reach.
LEMMA WriteStopsStep ==
  ASSUME IInv, WriteStops
  PROVE  IInv'
<1> DEFINE p == Entry0(idx)
           sb == SuperBlock(p)
           m == Metadata(sb)
           w == Head(todo)
<1>1. phase = "write" /\ todo # <<>> /\ w[1] > MaxLba /\ Stop /\ layout' = layout /\ MaxLba \in Nat
  BY FileSysAssumption DEF WriteStops, Refused, Stop, diskVars
<1>2. /\ p \in Parts(0) /\ 0 \in Chans /\ layout[0] \in Layouts
      /\ Parts(0) = ToSet(layout[0].prims) \cup ToSet(layout[0].logics)
  BY <1>1, FormatFacts, FirstDisk
<1>3. ~Usable(p)
  <2> SUFFICES ASSUME Fits(p) PROVE ~(sb.data <= MaxLba)
    BY DEF Usable
  <2>1. /\ p.start \in Nat /\ p.start + 1 < sb.bbm /\ sb.bbm < sb.data /\ sb.bbm \in Nat /\ sb.data \in Nat
        /\ sb.data = p.start + 1 + Len(m)
    BY <1>2, InOrder, PartFacts
  <2>2. /\ m \in Seq(Writes) /\ \A i \in 1 .. Len(m) : m[i][1] = p.start + 1 + i
    BY <1>2, MetadataFacts
  <2>3. CASE todo = Whole(sb)
    <3>1. w[1] = p.start + 1
      BY <1>1, <2>3, WholeFacts
    <3> HIDE DEF p, sb, w, m
    <3> QED BY <1>1, <2>1, <3>1
  <2>4. CASE todo # Whole(sb)
    <3>1. todo \in Seq(ToSet(m))
      BY <1>1, <2>4 DEF IInv, FormatOK
    <3>2. w \in ToSet(m)
      <4> HIDE DEF m
      <4>1. todo[1] \in ToSet(m)
        BY <1>1, <3>1, EmptySeq, ElementOfSeq
      <4> QED BY <4>1
    <3>3. PICK i \in 1 .. Len(m) : w = m[i]
      BY <2>2, <3>2 DEF ToSet
    <3>4. w[1] = p.start + 1 + i /\ Len(m) \in Nat
      BY <2>2, <3>3, LenProperties
    <3> HIDE DEF p, sb, w, m
    <3> QED BY <1>1, <2>1, <3>4
  <2> QED BY <2>3, <2>4
<1>4. PanicExplained'
  <2>1. Parts(0)' = Parts(0)
    BY <1>1 DEF Parts
  <2> HIDE DEF p
  <2> QED BY <1>2, <1>3, <2>1 DEF PanicExplained
<1> QED BY <1>1, <1>3, <1>4, StopStep

-----------------------------------------------------------------------------
(* The mount, and a power failure.                                         *)

\* The bitmap on the disk is the one that was computed.
LEMMA BitmapOnDisk ==
  ASSUME IInv, NEW p \in Parts(0), Fits(p), Complete(0, p)
  PROVE  LET sb == SuperBlock(p) IN
           UNION {LET x == Get(0, l) IN IF x.kind = "bbm" THEN x.free ELSE {} :
                    l \in sb.bbm .. sb.bbm + sb.bbmSects - 1} = FreeBits(sb)
<1> DEFINE sb == SuperBlock(p)
           m  == Metadata(sb)
           free(l) == LET x == Get(0, l) IN IF x.kind = "bbm" THEN x.free ELSE {}
           U == UNION {free(l) : l \in sb.bbm .. sb.bbm + sb.bbmSects - 1}
<1>1. /\ layout[0] \in Layouts /\ Parts(0) = ToSet(layout[0].prims) \cup ToSet(layout[0].logics)
  BY FirstDisk
<1>2. /\ m \in Seq(Writes) /\ Len(m) = sb.bbmSects + Fixed - 1
      /\ \A i \in 1 .. Len(m) : m[i][1] = p.start + 1 + i
      /\ \A i \in 1 .. sb.bbmSects :
           m[i][2].kind = "bbm" /\ m[i][2].free = {b \in FreeBits(sb) : b \div Bits = i - 1}
  BY <1>1, MetadataFacts
<1>3. /\ sb.bbmSects \in Nat \ {0} /\ sb.bbm = p.start + 2 /\ p.start \in Nat
      /\ \A b \in FreeBits(sb) : b \in Nat /\ b \div Bits \in 0 .. sb.bbmSects - 1
      /\ Fixed \in Nat /\ Fixed >= 2
  BY <1>1, SuperFacts, FreeBitsFacts, PartFacts, FileSysAssumption DEF Fixed
<1>4. \A w \in ToSet(m) : Get(0, w[1]) = w[2]
  BY DEF Complete
<1> HIDE DEF m, sb
<1>5. ASSUME NEW i \in 1 .. sb.bbmSects
      PROVE  free(p.start + 1 + i) = {b \in FreeBits(sb) : b \div Bits = i - 1}
  <2>1. i \in 1 .. Len(m)
    BY <1>2, <1>3
  <2>2. m[i] \in ToSet(m)
    BY <1>2, <2>1 DEF ToSet
  <2>3. Get(0, p.start + 1 + i) = m[i][2]
    BY <1>2, <1>4, <2>1, <2>2
  <2> QED BY <1>2, <2>3
<1> HIDE DEF free
<1>6. ASSUME NEW l \in sb.bbm .. sb.bbm + sb.bbmSects - 1 PROVE free(l) \subseteq FreeBits(sb)
  <2>1. PICK i \in 1 .. sb.bbmSects : l = p.start + 1 + i
    <3>1. l - p.start - 1 \in 1 .. sb.bbmSects /\ l = p.start + 1 + (l - p.start - 1)
      BY <1>3
    <3> QED BY <3>1
  <2> QED BY <1>5, <2>1
<1>7. ASSUME NEW b \in FreeBits(sb)
      PROVE  \E l \in sb.bbm .. sb.bbm + sb.bbmSects - 1 : b \in free(l)
  <2>1. PICK q \in 0 .. sb.bbmSects - 1 : q = b \div Bits
    BY <1>3
  <2>2. PICK i \in 1 .. sb.bbmSects : i = q + 1 /\ i - 1 = q
    <3>1. q + 1 \in 1 .. sb.bbmSects /\ (q + 1) - 1 = q
      BY <1>3
    <3> QED BY <3>1
  <2>3. b \in free(p.start + 1 + i)
    BY <1>5, <2>1, <2>2
  <2>4. p.start + 1 + i \in sb.bbm .. sb.bbm + sb.bbmSects - 1
    BY <1>3
  <2> QED BY <2>3, <2>4
<1>8. U = FreeBits(sb)
  BY <1>6, <1>7
<1> QED BY <1>8 DEF free, sb

\* sdb1 is mounted.
LEMMA MountStep ==
  ASSUME IInv, Mount
  PROVE  IInv'
<1> DEFINE p == prim[0][1]
           g == Get(0, p.start + 1)
<1>1. /\ phase = "mount" /\ ch' = ch /\ idx' = idx /\ todo' = todo /\ UNCHANGED <<diskVars, scanVars>>
      /\ \/ prim[0] = <<>> /\ phase' = "up"
         \/ /\ prim[0] # <<>>
            /\ \/ g.kind # "sb" \/ g.bbmSects \notin 1 .. MaxBuf
               \/ Beyond(g.bbm, g.bbmSects) \/ Beyond(g.ibm, InodeBitmap)
            /\ phase' = "panic" /\ cur' = cur
         \/ /\ prim[0] # <<>> /\ g.bbmSects \in 1 .. MaxBuf /\ phase' = "up"
            /\ cur' = [start |-> p.start, sb |-> g,
                       free |-> UNION {LET x == Get(0, l) IN IF x.kind = "bbm" THEN x.free ELSE {} :
                                         l \in g.bbm .. g.bbm + g.bbmSects - 1}]
  BY DEF Mount
<1>2. /\ \A c \in Chans : Scanned(c)
      /\ \A i \in 0 .. idx - 1 : Entry0(i).cnt # 0 => Magic(0, Entry0(i))
      /\ idx = MaxPrim + MaxLogic /\ Searching
  BY <1>1 DEF IInv, SearchOK, Searching
<1>3. ASSUME prim[0] # <<>>
      PROVE  p \in Parts(0) /\ HasSuper(p) /\ g = SuperBlock(p)
  <2>1. MaxPrim \in Nat \ {0} /\ MaxLogic \in Nat \ {0}
    BY FileSysAssumption
  <2>2. prim[0] \in Seq(Extents) /\ Len(prim[0]) \in Nat \ {0}
    BY <1>3, FirstDisk, EmptySeq DEF IInv, StateOK, Extents
  <2>3. Entry0(0) = p
    BY <2>1, <2>2 DEF Entry0
  <2>4. p \in Parts(0) /\ p.cnt # 0
    <3>1. p \in ToSet(prim[0])
      BY <2>2 DEF ToSet
    <3>2. ToSet(prim[0]) \subseteq Parts(0)
      BY <1>2, FirstDisk, TakenEnds, LayoutTypes DEF Scanned, Parts
    <3>3. p \in Parts(0)
      BY <3>1, <3>2
    <3>4. p.cnt \in Nat /\ p.cnt >= 2
      BY <3>3, FirstDisk, PartFacts
    <3> QED BY <3>3, <3>4
  <2>5. Magic(0, p)
    <3>1. 0 \in 0 .. idx - 1
      BY <1>2, <2>1
    <3> QED BY <1>2, <2>3, <2>4, <3>1
  <2>6. HasSuper(p)
    BY <2>4, <2>5, MagicFacts DEF IInv, DiskOK
  <2> QED BY <2>4, <2>6 DEF HasSuper
<1>4. StateOK'
  BY <1>1, SearchQuiet DEF IInv, StateOK
<1>5. LimitsOK' /\ ScanOK' /\ FormatOK'
  BY <1>1, SearchQuiet DEF ScanOK, FormatOK
<1>6. SearchOK'
  <2>1. \A i \in 0 .. idx' - 1 : Entry0(i)'.cnt # 0 => Magic(0, Entry0(i))'
    BY <1>1, <1>2, SearchQuiet DEF Magic, Get
  <2> QED BY <1>1, <1>2, <2>1, SearchQuiet DEF SearchOK, Searching
<1>7. DiskOK'
  BY <1>1, SearchQuiet DEF IInv, DiskOK, Parts
<1>8. PanicExplained'
  <2>1. CASE phase' = "panic"
    <3>1. prim[0] # <<>>
      BY <1>1, <2>1
    <3>2. p \in Parts(0) /\ g = SuperBlock(p) /\ g.kind = "sb"
      BY <1>3, <3>1 DEF SuperBlock
    <3>3. ASSUME Usable(p) PROVE FALSE
      <4>1. Fits(p) /\ g.data <= MaxLba
        BY <3>2, <3>3 DEF Usable
      <4>2. g.bbmSects \in 1 .. MaxBuf
        BY <3>2, <4>1, FirstDisk, SuperFacts DEF Held
      <4>3. /\ g.bbm \in Nat /\ g.ibm \in Nat /\ g.itab \in Nat /\ g.data \in Nat /\ g.bbmSects \in Nat
            /\ g.ibm = g.bbm + g.bbmSects /\ g.itab = g.ibm + InodeBitmap
            /\ g.ibm < g.itab /\ g.itab < g.data
        BY <3>2, <4>1, FirstDisk, InOrder
      <4>4. MaxLba \in Nat /\ InodeBitmap \in Nat
        BY FileSysAssumption
      <4>5. Beyond(g.bbm, g.bbmSects) \/ Beyond(g.ibm, InodeBitmap)
        BY <1>1, <2>1, <3>1, <3>2, <4>2
      <4> HIDE DEF g, p
      <4>6. ~Beyond(g.bbm, g.bbmSects)
        BY <4>1, <4>3, <4>4 DEF Beyond
      <4>7. ~Beyond(g.ibm, InodeBitmap)
        BY <4>1, <4>3, <4>4 DEF Beyond
      <4> QED BY <4>5, <4>6, <4>7
    <3>4. ~Usable(p) /\ p \in Parts(0)' /\ 0 \in Chans
      BY <3>2, <3>3, <1>1, FirstDisk, SearchQuiet DEF Parts
    <3> HIDE DEF p
    <3> QED BY <3>4 DEF PanicExplained
  <2>2. CASE phase' # "panic"
    BY <2>2 DEF PanicExplained
  <2> QED BY <2>1, <2>2
<1>9. MountedWhole'
  <2> SUFFICES ASSUME phase' = "up", prim[0] # <<>>
               PROVE  LET sb == cur'.sb
                      IN /\ p.start + 1 < sb.bbm /\ sb.bbm < sb.ibm /\ sb.ibm < sb.itab /\ sb.itab < sb.data
                         /\ sb.data < p.start + p.cnt
                         /\ Complete(0, p) => cur'.free = FreeBits(sb)
    <3>1. prim' = prim /\ (Complete(0, p)' <=> Complete(0, p))
      BY <1>1, SearchQuiet DEF Complete, Get
    <3> QED BY <3>1 DEF MountedWhole, Complete, Get
  <2>1. /\ p \in Parts(0) /\ g = SuperBlock(p)
        /\ cur'.sb = g /\ g.bbmSects \in 1 .. MaxBuf
        /\ cur'.free = UNION {LET x == Get(0, l) IN IF x.kind = "bbm" THEN x.free ELSE {} :
                                l \in g.bbm .. g.bbm + g.bbmSects - 1}
    BY <1>1, <1>3
  <2>2. Fits(p)
    BY <2>1, FirstDisk, SuperFacts DEF Held
  <2>3. /\ p.start + 1 < g.bbm /\ g.bbm < g.ibm /\ g.ibm < g.itab /\ g.itab < g.data
        /\ g.data < p.start + p.cnt
    BY <2>1, <2>2, FirstDisk, InOrder
  <2>4. Complete(0, p) => cur'.free = FreeBits(g)
    BY <2>1, <2>2, BitmapOnDisk
  <2> HIDE DEF p, g
  <2> QED BY <2>1, <2>3, <2>4
<1> QED BY <1>4, <1>5, <1>6, <1>7, <1>8, <1>9 DEF IInv

\* What is known of the disks does not depend on what the kernel knows when it starts.
LEMMA BootFacts ==
  (layout \in [Chans -> Layouts]) /\ Booting =>
    LimitsOK /\ ScanOK /\ SearchOK /\ FormatOK /\ PanicExplained /\ MountedWhole
<1> SUFFICES ASSUME layout \in [Chans -> Layouts], Booting
             PROVE  LimitsOK /\ ScanOK /\ SearchOK /\ FormatOK /\ PanicExplained /\ MountedWhole
  OBVIOUS
<1>1. /\ phase = "scan" /\ ch = 0 /\ stack = <<[lba |-> 0, i |-> 1]>> /\ base = 0
      /\ prim = [c \in Chans |-> <<>>] /\ logic = [c \in Chans |-> <<>>]
      /\ lost = 0 /\ idx = 0 /\ todo = <<>>
  BY DEF Booting
<1>2. 0 \in Chans /\ layout[0] \in Layouts /\ \A c \in Chans : c \in Nat
  BY FileSysAssumption DEF Chans
<1>3. MaxPrim \in Nat \ {0} /\ MaxLogic \in Nat \ {0}
  BY FileSysAssumption
<1>4. LimitsOK
  <2>1. \A c \in Chans : Len(prim[c]) = 0 /\ Len(logic[c]) = 0
    BY <1>1, EmptySeq
  <2>2. {c \in Chans : Len(logic[c]) >= MaxLogic} = {}
    BY <1>3, <2>1
  <2>3. Cardinality({c \in Chans : Len(logic[c]) >= MaxLogic}) = 0
    BY <2>2, FS_EmptySet
  <2>4. lost <= Cardinality({c \in Chans : Len(logic[c]) >= MaxLogic})
    BY <1>1, <2>3
  <2> QED BY <1>3, <2>1, <2>4 DEF LimitsOK
<1>5. /\ Cardinality(Before(layout[0], 1)) = 0 /\ ~Past(layout[0], 1)
      /\ Taken(<<>>, layout[0].prims, 0)
  BY <1>2, MasterEnds, LayoutTypes, TakenEnds
<1>6. Len(stack) = 1 /\ stack[1].lba = 0 /\ stack[1].i = 1 /\ stack # <<>>
  BY <1>1
<1>7. ShapeOK
  <2>1. /\ \A k \in 1 .. 1 : stack[k].lba = 0 <=> k = 1
        /\ \A k : k \notin 2 .. 1 - 1
    BY <1>6
  <2> QED BY <1>1, <1>2, <1>5, <1>6, <2>1 DEF ShapeOK
<1>8. ChainOK
  <2>1. \A k : k \notin 2 .. 1
    OBVIOUS
  <2> QED BY <1>1, <1>5, <1>6, <2>1 DEF ChainOK
<1>9. ScanOK
  <2>1. \A c \in Chans : ~(c < 0) /\ prim[c] = <<>> /\ logic[c] = <<>>
    BY <1>1, <1>2
  <2>2. Good(ch)
    BY <1>1 DEF Good
  <2> QED BY <1>1, <1>6, <1>7, <1>8, <2>1, <2>2 DEF ScanOK
<1>10. SearchOK /\ FormatOK /\ PanicExplained /\ MountedWhole
  BY <1>1 DEF SearchOK, Searching, FormatOK, PanicExplained, MountedWhole
<1> QED BY <1>4, <1>9, <1>10

\* The power fails: the disks are as they were, and if the superblock of a format is
\* written and not all of the rest, that is known.
LEMMA CrashStep ==
  ASSUME IInv, Crash
  PROVE  IInv'
<1>1. /\ layout' = layout /\ disk' = disk /\ Booting'
      /\ torn' = IF phase = "write" /\ todo # <<>> /\ Magic(ch, Part(idx))
                   THEN torn \cup {<<ch, Part(idx).start>>} ELSE torn
      /\ phase' = "scan" /\ ch' = 0 /\ stack' = <<[lba |-> 0, i |-> 1]>> /\ base' = 0
      /\ prim' = [c \in Chans |-> <<>>] /\ logic' = [c \in Chans |-> <<>>]
      /\ lost' = 0 /\ idx' = 0 /\ todo' = <<>>
  BY DEF Crash, Booting
<1>2. layout' \in [Chans -> Layouts]
  BY <1>1 DEF IInv, StateOK
<1>3. (LimitsOK /\ ScanOK /\ SearchOK /\ FormatOK /\ PanicExplained /\ MountedWhole)'
  <2>1. (layout \in [Chans -> Layouts] /\ Booting)'
    BY <1>1, <1>2
  <2> QED BY <2>1, BootFacts, PTL
<1>4. StateOK'
  <2>1. /\ stack' \in Seq([lba : Nat, i : 1 .. 5]) /\ 0 \in Chans
        /\ 0 \in 0 .. MaxPrim + MaxLogic
    <3>1. <<[lba |-> 0, i |-> 1]>> \in Seq([lba : Nat, i : 1 .. 5])
      OBVIOUS
    <3>2. 0 \in 0 .. MaxPrim + MaxLogic
      BY FileSysAssumption
    <3> QED BY <1>1, <3>1, <3>2, FirstDisk
  <2>2. /\ prim' \in [Chans -> Seq([start : Nat, cnt : Nat])]
        /\ logic' \in [Chans -> Seq([start : Nat, cnt : Nat])]
    <3>1. <<>> \in Seq([start : Nat, cnt : Nat])
      BY EmptySeq
    <3> QED BY <1>1, <3>1
  <2> QED BY <1>1, <1>2, <2>1, <2>2 DEF IInv, StateOK
<1>5. DiskOK'
  <2>1. /\ Parts(0)' = Parts(0)
        /\ \A q : (Clean(q)' <=> Clean(q)) /\ (HasSuper(q)' <=> HasSuper(q))
        /\ \A q : Complete(0, q)' <=> Complete(0, q)
    BY <1>1 DEF Parts, Clean, HasSuper, Complete, Get
  <2>2. ASSUME NEW q \in Parts(0)
        PROVE  \/ Clean(q)
               \/ HasSuper(q) /\ (Complete(0, q) \/ <<0, q.start>> \in torn' \/ ~Usable(q))
    <3>1. CASE phase = "write" /\ q = Entry0(idx) /\ HasSuper(q)
      <4>1. CASE todo = <<>>
        BY <3>1, <4>1, AllWritten
      <4>2. CASE todo # <<>>
        <5>1. Magic(0, q) /\ ch = 0 /\ Part(idx) = q
          BY <3>1, MagicFacts, FormatFacts
        <5>2. <<0, q.start>> \in torn'
          BY <1>1, <3>1, <4>2, <5>1
        <5> QED BY <3>1, <5>2
      <4> QED BY <4>1, <4>2
    <3>2. CASE ~(phase = "write" /\ q = Entry0(idx) /\ HasSuper(q))
      <4>1. torn \subseteq torn'
        BY <1>1
      <4> QED BY <3>2, <4>1 DEF IInv, DiskOK
    <3> QED BY <3>1, <3>2
  <2>3. /\ \A c \in Chans \ {0} : DOMAIN disk[c] = {}
        /\ \A l \in DOMAIN disk[0] : \E q \in Parts(0) : l \in Sectors(q)
    BY DEF IInv, DiskOK
  <2> QED BY <1>1, <2>1, <2>2, <2>3 DEF DiskOK
<1> QED BY <1>3, <1>4, <1>5 DEF IInv

-----------------------------------------------------------------------------
(* The invariant.                                                          *)

\* The disks are empty when the first kernel starts.
LEMMA InitOK == Init => IInv
<1> SUFFICES ASSUME Init PROVE IInv
  OBVIOUS
<1>1. /\ layout \in [Chans -> Layouts] /\ disk = [c \in Chans |-> << >>] /\ Booting
  BY DEF Init
<1>2. LimitsOK /\ ScanOK /\ SearchOK /\ FormatOK /\ PanicExplained /\ MountedWhole
  BY <1>1, BootFacts
<1>3. \A c \in Chans : disk[c] = << >> /\ DOMAIN disk[c] = {} /\ disk[c] = [l \in DOMAIN disk[c] |-> disk[c][l]]
  BY <1>1, EmptySeq
<1>4. 0 \in Chans
  BY FileSysAssumption DEF Chans
<1>5. StateOK
  <2>1. /\ <<[lba |-> 0, i |-> 1]>> \in Seq([lba : Nat, i : 1 .. 5])
        /\ 0 \in 0 .. MaxPrim + MaxLogic /\ <<>> \in Seq([start : Nat, cnt : Nat])
    <3>1. <<[lba |-> 0, i |-> 1]>> \in Seq([lba : Nat, i : 1 .. 5])
      OBVIOUS
    <3>2. 0 \in 0 .. MaxPrim + MaxLogic
      BY FileSysAssumption
    <3> QED BY <3>1, <3>2, EmptySeq
  <2> QED BY <1>1, <1>3, <1>4, <2>1 DEF StateOK, Booting
<1>6. DiskOK
  BY <1>3, <1>4 DEF DiskOK, Clean
<1> QED BY <1>2, <1>5, <1>6 DEF IInv

\* Every step keeps it.
LEMMA NextStep ==
  ASSUME IInv, [Next]_vars
  PROVE  IInv'
<1>1. CASE UNCHANGED vars
  <2>1. /\ layout' = layout /\ disk' = disk /\ torn' = torn /\ phase' = phase /\ ch' = ch
        /\ stack' = stack /\ base' = base /\ prim' = prim /\ logic' = logic /\ lost' = lost
        /\ idx' = idx /\ todo' = todo /\ cur' = cur
    BY <1>1 DEF vars, diskVars, scanVars
  <2>2. StateOK' /\ LimitsOK' /\ PanicExplained' /\ MountedWhole'
    BY <2>1 DEF IInv, StateOK, LimitsOK, PanicExplained, MountedWhole, Parts, TableBeyond, Complete, Get
  <2>3. ScanOK'
    BY <2>1 DEF IInv, ScanOK, ShapeOK, ChainOK, Scanned, Good, BaseFrom, Top
  <2>4. SearchOK' /\ FormatOK'
    BY <2>1 DEF IInv, SearchOK, FormatOK, Searching, Scanned, Good, Entry0, Magic, Get, Clean, HasSuper, Held
  <2>5. DiskOK'
    BY <2>1 DEF IInv, DiskOK, Clean, HasSuper, Complete, Get, Parts, Entry0
  <2> QED BY <2>2, <2>3, <2>4, <2>5 DEF IInv
<1>2. CASE Next
  BY <1>2, ScanStopsStep, SearchStopsStep, WriteStopsStep, ScanExtendedStep, ScanEmptyStep, ScanPrimaryStep, ScanLogicalStep, ScanReturnStep,
     NextDiskStep, SkipStep, FormatStep, WriteStep, FormattedStep, SearchNextStep, MountStep, CrashStep
     DEF Next, Step
<1> QED BY <1>1, <1>2

\* The inductive invariant holds (FileSysInv).
THEOREM InvariantHolds == Spec => []IInv
<1>1. Init => IInv
  BY InitOK
<1>2. IInv /\ [Next]_vars => IInv'
  BY NextStep
<1> QED BY <1>1, <1>2, PTL DEF Spec

-----------------------------------------------------------------------------
(* The properties.                                                         *)

\* What the kernel has found when it searches for file systems are the partitions that
\* the tables describe, in their order, as many as the arrays hold (ide.c:277-317).
THEOREM PartitionsAreFound == Spec => []PartitionsFound
<1>1. ASSUME IInv PROVE PartitionsFound
  <2> SUFFICES ASSUME NEW c \in Chans, phase \in {"search", "write", "mount", "up"},
                      \A d \in 0 .. c - 1 : layout[d].logics = <<>>
               PROVE  /\ prim[c] = layout[c].prims
                      /\ IsPrefix(logic[c], layout[c].logics)
                      /\ Len(logic[c]) = Min({MaxLogic, Len(layout[c].logics)})
    BY DEF PartitionsFound
  <2>1. layout[c] \in Layouts /\ \A d \in Chans : layout[d] \in Layouts
    BY <1>1 DEF IInv, StateOK
  <2>2. Good(c)
    <3> SUFFICES ASSUME NEW d \in 0 .. c - 1 PROVE layout[d].chain = <<>>
      BY DEF Good
    <3>1. d \in Chans
      BY FileSysAssumption DEF Chans
    <3>2. layout[d] \in Layouts /\ layout[d].logics = <<>>
      BY <2>1, <3>1
    <3>3. Len(layout[d].chain) = 0 /\ layout[d].chain \in Seq(Nat)
      BY <3>2, MasterEnds, LayoutTypes
    <3> QED BY <3>3, EmptySeq
  <2>3. /\ Taken(prim[c], layout[c].prims, Len(layout[c].prims))
        /\ Taken(logic[c], layout[c].logics, Final(layout[c]))
    BY <1>1, <2>2 DEF IInv, SearchOK, Searching, Scanned
  <2>4. prim[c] = layout[c].prims /\ IsPrefix(logic[c], layout[c].logics)
    BY <2>1, <2>3, TakenEnds, LayoutTypes
  <2>5. Len(logic[c]) = Final(layout[c])
    BY <2>3 DEF Taken
  <2>6. PICK a \in Nat, b \in Nat : a = MaxLogic /\ b = Len(layout[c].logics)
    <3>1. MaxLogic \in Nat /\ Len(layout[c].logics) \in Nat
      BY <2>1, LayoutTypes, LenProperties, FileSysAssumption
    <3> QED BY <3>1
  <2>7. Min({a, b}) \in {a, b} /\ \A y \in {a, b} : Min({a, b}) <= y
    <3>1. {a, b} \in SUBSET Nat /\ {a, b} # {}
      OBVIOUS
    <3> QED BY <3>1, MinFacts
  <2>8. Min({a, b}) = IF b < a THEN b ELSE a
    BY <2>7
  <2> QED BY <2>4, <2>5, <2>6, <2>8 DEF Final
<1> QED BY <1>1, InvariantHolds, PTL

\* The types, the buffers that a scan may lose, and the reasons for which the kernel
\* stops: the assertion on the number of primary partitions, which stops it for as many
\* as the array has room for; a partition whose metadata does not fit or is behind
\* max_lba; a table that is, or is looked for, behind max_lba (ide.c:277-317, 88, 151,
\* 196, fs.c:73-192).
THEOREM BootStaysInOrder == Spec => []BootInOrder
<1>1. ASSUME IInv PROVE BootInOrder
  <2>1. StateOK /\ LimitsOK /\ PanicExplained
    BY <1>1 DEF IInv
  <2>2. \A k \in 1 .. Len(stack) : stack[k].lba \in Nat /\ stack[k].i \in 1 .. 5
    <3>1. stack \in Seq([lba : Nat, i : 1 .. 5])
      BY <2>1 DEF StateOK
    <3>2. \A k \in 1 .. Len(stack) : stack[k] \in [lba : Nat, i : 1 .. 5]
      BY <3>1, ElementOfSeq
    <3> QED BY <3>2
  <2>3. TypeOK
    BY <2>1, <2>2 DEF TypeOK, StateOK, LimitsOK
  <2>4. BuffersFreed
    BY <2>1 DEF BuffersFreed, LimitsOK
  <2> QED BY <2>1, <2>3, <2>4 DEF BootInOrder
<1> QED BY <1>1, InvariantHolds, PTL

\* When the kernel is up, every partition of the first disk that is large enough, and that
\* the driver reaches, has all of a file system, unless the power failed in the midst of
\* its format (fs.c:195-250).
THEOREM FirstDiskIsFormatted == Spec => []FirstDiskFormatted
<1>1. ASSUME IInv PROVE FirstDiskFormatted
  <2> SUFFICES ASSUME phase = "up", NEW p \in ToSet(prim[0]) \cup ToSet(logic[0]), Usable(p)
               PROVE  Complete(0, p) \/ <<0, p.start>> \in torn
    BY DEF FirstDiskFormatted
  <2>1. /\ \A i \in 0 .. idx - 1 : Entry0(i).cnt # 0 => Magic(0, Entry0(i))
        /\ idx = MaxPrim + MaxLogic /\ Searching /\ Scanned(0) /\ Good(0)
    BY <1>1, FirstDisk DEF IInv, SearchOK, Searching, Good
  <2>2. /\ prim[0] \in Seq(Extents) /\ logic[0] \in Seq(Extents)
        /\ Len(prim[0]) \in Nat /\ Len(logic[0]) \in Nat
        /\ Len(prim[0]) <= MaxPrim /\ Len(logic[0]) <= MaxLogic
    <3>1. prim[0] \in Seq(Extents) /\ logic[0] \in Seq(Extents)
      BY <2>1 DEF Scanned, Taken, Extents
    <3> QED BY <1>1, <3>1, FirstDisk, LenProperties DEF IInv, LimitsOK
  <2>3. ToSet(prim[0]) \subseteq Parts(0) /\ ToSet(logic[0]) \subseteq Parts(0)
    BY <1>1, <2>1, FirstDisk, TakenEnds, LayoutTypes DEF Scanned, Parts
  <2>4. p \in Parts(0) /\ p.cnt # 0
    <3>1. p \in Parts(0)
      BY <2>3
    <3> QED BY <1>1, <3>1, FirstDisk, PartFacts
  <2>5. MaxPrim \in Nat /\ MaxLogic \in Nat
    BY FileSysAssumption
  <2>6. \E i \in 0 .. idx - 1 : Entry0(i) = p
    <3>1. CASE p \in ToSet(prim[0])
      <4>1. PICK j \in 1 .. Len(prim[0]) : p = prim[0][j]
        BY <2>2, <3>1 DEF ToSet
      <4>2. PICK i \in 0 .. idx - 1 : i + 1 = j /\ i < MaxPrim
        <5>1. j - 1 \in 0 .. idx - 1 /\ (j - 1) + 1 = j /\ j - 1 < MaxPrim
          BY <2>1, <2>2, <2>5
        <5> QED BY <5>1
      <4>3. Entry0(i) = p
        BY <4>1, <4>2 DEF Entry0
      <4> QED BY <4>3
    <3>2. CASE p \in ToSet(logic[0])
      <4>1. PICK j \in 1 .. Len(logic[0]) : p = logic[0][j]
        BY <2>2, <3>2 DEF ToSet
      <4>2. PICK i \in 0 .. idx - 1 : i - MaxPrim + 1 = j /\ ~(i < MaxPrim)
        <5>1. PICK i \in Nat : i = MaxPrim + j - 1
          BY <2>5
        <5>2. i \in 0 .. idx - 1 /\ i - MaxPrim + 1 = j /\ ~(i < MaxPrim)
          BY <2>1, <2>2, <2>5, <5>1
        <5> QED BY <5>2
      <4>3. Entry0(i) = p
        BY <4>1, <4>2 DEF Entry0
      <4> QED BY <4>3
    <3> QED BY <3>1, <3>2
  <2>7. Magic(0, p)
    BY <2>1, <2>4, <2>6
  <2> QED BY <1>1, <2>4, <2>7, MagicFacts DEF IInv, DiskOK
<1> QED BY <1>1, InvariantHolds, PTL

\* The metadata that is mounted is inside of the partition, one part behind the other, with a
\* data sector, although the subtraction and the rounding wrap; and if all of it is on
\* the disk, the bitmap that is read is the one the format computed (fs.c:20-69, 79-105).
THEOREM MountIsWhole == Spec => []MountedWhole
<1>1. IInv => MountedWhole
  BY DEF IInv
<1> QED BY <1>1, InvariantHolds, PTL

\* A write goes to a partition of its disk that has no file system yet (fs.c:231-236).
THEOREM OthersAreKept == Spec => OthersKept
<1>1. ASSUME IInv, [Next]_vars
      PROVE  [\A c \in Chans : \A l \in DOMAIN disk'[c] :
                (l \in DOMAIN disk[c] => disk'[c][l] # disk[c][l]) =>
                  \E p \in Parts(c) : l \in Sectors(p) /\ ~Complete(c, p)]_vars
  <2> SUFFICES ASSUME NEW c \in Chans, NEW l \in DOMAIN disk'[c],
                      l \in DOMAIN disk[c] => disk'[c][l] # disk[c][l]
               PROVE  \E p \in Parts(c) : l \in Sectors(p) /\ ~Complete(c, p)
    OBVIOUS
  <2>1. Write
    <3>1. disk' # disk
      OBVIOUS
    <3> QED BY <1>1, <3>1 DEF Next, Step, vars, diskVars, ScanExtended, ScanEmpty, ScanPrimary, ScanLogical,
               ScanReturn, NextDisk, Skip, Format, Formatted, SearchNext, Mount, Crash,
               ScanStops, SearchStops, WriteStops, Stop
  <2> DEFINE p == Entry0(idx)
             m == Metadata(SuperBlock(p))
  <2>2. /\ ch = 0 /\ p \in Parts(0) /\ p.start + 1 \in Sectors(p) /\ DOMAIN disk = Chans
    BY <1>1, <2>1, FormatFacts, MagicFacts DEF Write, IInv, StateOK
  <2>3. CASE todo = Whole(SuperBlock(p)) /\ Clean(p)
    <3>1. disk' = [disk EXCEPT ![0] = Put(@, p.start + 1, SuperBlock(p))]
      BY <1>1, <2>1, <2>3, WriteSuper
    <3>2. c = 0 /\ l = p.start + 1
      BY <2>2, <3>1 DEF Put
    <3>3. ~Complete(0, p)
      <4>1. Get(0, p.start + 1).kind = "none"
        BY <2>2, <2>3 DEF Clean, Get
      <4>2. SuperBlock(p).kind = "sb" /\ SuperBlock(p).start = p.start
        BY DEF SuperBlock
      <4> QED BY <4>1, <4>2 DEF Complete
    <3> QED BY <2>2, <3>2, <3>3
  <2>4. CASE ~(todo = Whole(SuperBlock(p)) /\ Clean(p))
    <3>1. Fits(p) /\ \E w \in ToSet(m) : disk' = [disk EXCEPT ![0] = Put(@, w[1], w[2])]
      BY <1>1, <2>1, <2>4, WriteOther
    <3>2. PICK w \in ToSet(m) : disk' = [disk EXCEPT ![0] = Put(@, w[1], w[2])]
      BY <3>1
    <3>3. w[1] \in Sectors(p) /\ w[2].kind # "none"
      BY <1>1, <2>2, <3>1, MetadataWithin
    <3>4. c = 0 /\ l = w[1] /\ disk'[0][l] = w[2]
      BY <2>2, <3>2 DEF Put
    <3>5. ~Complete(0, p)
      <4> SUFFICES ASSUME Complete(0, p) PROVE FALSE
        OBVIOUS
      <4>1. Get(0, w[1]) = w[2]
        BY DEF Complete
      <4>2. w[1] \in DOMAIN disk[0] /\ disk[0][w[1]] = w[2]
        BY <3>3, <4>1 DEF Get
      <4> QED BY <3>4, <4>2
    <3> QED BY <2>2, <3>3, <3>4, <3>5
  <2> QED BY <2>3, <2>4
<1> QED BY <1>1, InvariantHolds, PTL DEF Spec, OthersKept
=============================================================================

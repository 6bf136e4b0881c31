----------------------------- MODULE FileSysInv -----------------------------
(***************************************************************************)
(* The inductive invariant of FileSys: how far a scan is in the tables of  *)
(* its disk, how far the search and a format are, and what is on the       *)
(* sectors of a partition.                                                 *)
(***************************************************************************)
EXTENDS FileSys

\* s is the first n members of r.
Taken(s, r, n) ==
  /\ s \in Seq([start : Nat, cnt : Nat]) /\ Len(s) = n /\ n <= Len(r)
  /\ \A k \in 1 .. n : s[k] = r[k]

\* ext_lba_base is 0 when the disk of channel c is scanned.
Good(c) == \A d \in 0 .. c - 1 : layout[d].chain = <<>>

\* Otherwise it is where the extended partition of a disk before c begins.
BaseFrom(c) == \E d \in 0 .. c - 1 : layout[d].chain # <<>> /\ base = layout[d].chain[1]

\* As many logical partitions as there are, or as many as there is room for.
Final(l) == IF Len(l.logics) < MaxLogic THEN Len(l.logics) ELSE MaxLogic

Scanned(c) ==
  /\ Taken(prim[c], layout[c].prims, Len(layout[c].prims))
  /\ Good(c) => Taken(logic[c], layout[c].logics, Final(layout[c]))

\* The scan is behind the extended partition of the master boot record.
Past(l, i) == \E j \in 1 .. i - 1 : Table(l, 0)[j].type = Extended

StateOK ==
  /\ layout \in [Chans -> Layouts]
  /\ \A c \in Chans : disk[c] = [l \in DOMAIN disk[c] |-> disk[c][l]]
  /\ DOMAIN disk = Chans
  /\ phase \in {"scan", "search", "write", "mount", "up", "panic"} /\ ch \in Chans
  /\ stack \in Seq([lba : Nat, i : 1 .. 5])
  /\ base \in Nat /\ lost \in Nat
  /\ prim \in [Chans -> Seq([start : Nat, cnt : Nat])]
  /\ logic \in [Chans -> Seq([start : Nat, cnt : Nat])]
  /\ idx \in 0 .. MaxPrim + MaxLogic
  /\ phase # "write" => todo = <<>>

\* What fits: the arrays, and the buffers that are not freed.
LimitsOK ==
  /\ \A c \in Chans : Len(prim[c]) <= MaxPrim /\ Len(logic[c]) <= MaxLogic
  /\ phase # "panic" => \A c \in Chans : Len(prim[c]) < MaxPrim
  /\ lost <= Cardinality({c \in Chans : Len(logic[c]) >= MaxLogic})

\* The calls of partition_scan: one for the master boot record, and one for each table of
\* the chain on the way; all but the last are behind their extended partition.
ShapeOK ==
  /\ \A k \in 1 .. Len(stack) : stack[k].lba = 0 <=> k = 1
  /\ \A k \in 2 .. Len(stack) - 1 : stack[k].i >= 3
  /\ Len(stack) >= 2 => Past(layout[ch], stack[1].i) /\ base # 0
  /\ Len(stack) >= 2 /\ Top.i <= 2 => Len(logic[ch]) < MaxLogic
  /\ stack # <<>> =>
       /\ Taken(prim[ch], layout[ch].prims, Cardinality(Before(layout[ch], stack[1].i)))
       /\ ~Past(layout[ch], stack[1].i) => logic[ch] = <<>>

\* If ext_lba_base was 0: where in the chain they are, and what has been found.
ChainOK ==
  Good(ch) /\ stack # <<>> =>
    /\ base = IF Past(layout[ch], stack[1].i) THEN layout[ch].chain[1] ELSE 0
    /\ \A k \in 2 .. Len(stack) : k - 1 <= Len(layout[ch].chain) /\ stack[k].lba = layout[ch].chain[k - 1]
    /\ Past(layout[ch], stack[1].i) =>
         Taken(logic[ch], layout[ch].logics,
               IF Len(stack) >= 2 /\ Top.i <= 2 THEN Len(stack) - 3 + Top.i ELSE Final(layout[ch]))

ScanOK ==
  phase = "scan" =>
    /\ idx = 0
    /\ \A c \in Chans : (c < ch => Scanned(c)) /\ (c > ch => prim[c] = <<>> /\ logic[c] = <<>>)
    /\ stack = <<>> => /\ Scanned(ch)
                       /\ IF Good(ch + 1) THEN base = 0 ELSE BaseFrom(ch + 1)
    /\ ~Good(ch) => BaseFrom(ch)
    /\ ShapeOK /\ ChainOK

Searching == phase \in {"search", "write", "mount", "up"}

\* Entry i of the first disk's arrays.
Entry0(i) ==
  LET p == IF i < MaxPrim THEN prim[0] ELSE logic[0]
      j == IF i < MaxPrim THEN i + 1 ELSE i - MaxPrim + 1
  IN IF j <= Len(p) THEN p[j] ELSE [start |-> 0, cnt |-> 0]

\* Every partition of the first disk before part_idx has a superblock; no other disk is
\* looked at, because part_idx is at its end when the first is done.
SearchOK ==
  Searching =>
    /\ \A c \in Chans : Scanned(c)
    /\ \A i \in 0 .. idx - 1 : Entry0(i).cnt # 0 => Magic(0, Entry0(i))
    /\ ch # 0 \/ phase \in {"mount", "up"} => idx = MaxPrim + MaxLogic
    /\ phase = "write" => ch = 0 /\ idx < MaxPrim + MaxLogic /\ Entry0(idx).cnt # 0

Clean(p) == \A l \in Sectors(p) : l \notin DOMAIN disk[0]
HasSuper(p) == Get(0, p.start + 1) = SuperBlock(p)
Held(p) == SuperBlock(p).bbmSects \in 1 .. MaxBuf

\* What is on the disks: of a partition nothing, or the superblock; then all, but for the
\* known cases.
DiskOK ==
  /\ \A c \in Chans \ {0} : DOMAIN disk[c] = {}
  /\ \A l \in DOMAIN disk[0] : \E p \in Parts(0) : l \in Sectors(p)
  /\ \A p \in Parts(0) :
       \/ Clean(p)
       \/ /\ HasSuper(p)
          /\ \/ Complete(0, p) \/ <<0, p.start>> \in torn \/ ~Usable(p)
             \/ phase = "write" /\ p = Entry0(idx)

\* A format: all is to be written and nothing is, or the superblock is, and what is
\* not to be written is written.
Whole(sb) == <<<<sb.start + 1, sb>>>> \o IF sb.bbmSects \in 1 .. MaxBuf THEN Metadata(sb) ELSE <<>>
FormatOK ==
  phase = "write" =>
    LET p == Entry0(idx) IN
      \/ todo = Whole(SuperBlock(p)) /\ Clean(p)
      \/ /\ HasSuper(p) /\ Held(p)
         /\ todo \in Seq(ToSet(Metadata(SuperBlock(p))))
         /\ \A w \in ToSet(Metadata(SuperBlock(p))) : w \in ToSet(todo) \/ Get(0, w[1]) = w[2]

IInv ==
  /\ StateOK /\ LimitsOK /\ ScanOK /\ SearchOK /\ DiskOK /\ FormatOK
  /\ PanicExplained /\ MountedWhole
=============================================================================

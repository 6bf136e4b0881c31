------------------------------- MODULE FileSys ------------------------------
(***************************************************************************)
(* What the kernel does with its disks at boot: partition_scan of          *)
(* device/ide.c reads the partition tables, filesys_init of fs/fs.c looks  *)
(* for a file system on every partition, formats those that have none, and *)
(* mounts the first primary partition of the first disk, sdb1.  The power  *)
(* may fail between the writes of any two sectors; the disks keep what was *)
(* written, and the kernel boots again.  The disks have more sectors than  *)
(* the driver accepts: a command that starts behind max_lba fails ide's    *)
(* ASSERT.                                                                 *)
(*                                                                         *)
(* On each channel the second disk is scanned.  ide_read and ide_write are *)
(* Ide's: a sector is a step.  A table is known by the sector it is in, a  *)
(* sector's content by what it is part of.                                 *)
(***************************************************************************)
EXTENDS Integers, SequencesExt

CONSTANTS
  Channels,      \* channel_cnt
  Layouts,       \* the partition tables a disk may have
  MaxPrim,       \* length of prim_parts
  MaxLogic,      \* length of logic_parts
  Bits,          \* BITS_PER_SECTOR
  ByteBits,      \* 8
  InodeBitmap,   \* sectors of the inode bitmap
  InodeTable,    \* sectors of the inode table
  MaxBuf,        \* sectors that sys_malloc can give
  MaxLba,        \* max_lba
  MaxChunk,      \* 256, the sectors of a command
  Word,          \* 2^32
  MaxCrashes     \* bound on the power failures

Chans == 0 .. Channels - 1
Empty == 0
Extended == 5
NoTable == [i \in 1 .. 4 |-> [type |-> Empty, start |-> 0, cnt |-> 0]]
Table(l, lba) == IF lba \in DOMAIN l.tables THEN l.tables[lba] ELSE NoTable
IsPart(e) == e.type \notin {Empty, Extended}

\* The number of sectors of metadata that every partition has.
Fixed == 2 + InodeBitmap + InodeTable

\* DIV_ROUND_UP, whose sum wraps.
CeilDiv(a, b) == ((a + b - 1) % Word) \div b
BitmapBits(sects) == sects - CeilDiv(sects, Bits)
BitmapSects(sects) == CeilDiv(BitmapBits(sects), Bits)

\* A layout has the tables by their sectors, chain, the sectors of those in its
\* extended partition, and prims and logics, the partitions [start, cnt] the tables
\* were made for.  The master boot record has primary partitions and one extended
\* partition at most; a table of the chain a logical one, and the next of the chain,
\* relative to the first.
Before(l, i) == {j \in 1 .. i - 1 : IsPart(Table(l, 0)[j])}
TablesOK(l) ==
  /\ \A s \in DOMAIN l.tables : l.tables[s] \in [1 .. 4 -> [type : Nat, start : Nat, cnt : Nat]]
  /\ \A i \in 1 .. 4 : LET e == Table(l, 0)[i] IN
       /\ IsPart(e) => l.prims[Cardinality(Before(l, i)) + 1] = [start |-> e.start, cnt |-> e.cnt]
       /\ e.type = Extended => /\ l.chain # <<>> /\ e.start = l.chain[1]
                               /\ \A j \in 1 .. 4 : Table(l, 0)[j].type = Extended => j = i
  /\ Len(l.prims) = Cardinality(Before(l, 5))
  /\ l.chain # <<>> => \E i \in 1 .. 4 : Table(l, 0)[i].type = Extended
  /\ \A s \in DOMAIN l.tables \ {0} :
       /\ l.tables[s][1].type # Extended /\ ~IsPart(l.tables[s][2])
       /\ \A i \in 3 .. 4 : l.tables[s][i].type = Empty
  /\ Len(l.logics) = Len(l.chain)
  /\ \A k \in 1 .. Len(l.chain) : LET t == Table(l, l.chain[k]) IN
       /\ l.chain[k] # 0 /\ IsPart(t[1])
       /\ l.logics[k] = [start |-> l.chain[k] + t[1].start, cnt |-> t[1].cnt]
       /\ IF k < Len(l.chain) THEN t[2].type = Extended /\ t[2].start + l.chain[1] = l.chain[k + 1]
                              ELSE t[2].type = Empty

\* The partitions do not overlap and have a sector for the superblock.
Sectors(p) == p.start .. p.start + p.cnt - 1
PartsOK(l) ==
  LET parts == ToSet(l.prims) \cup ToSet(l.logics) IN
    \A p \in parts :
      /\ p \in [start : Nat, cnt : 2 .. Word - 1]
      /\ \A q \in parts : p # q => Sectors(p) \cap Sectors(q) = {}

LayoutOK(l) ==
  /\ l.chain \in Seq(Nat)
  /\ l.prims \in Seq([start : Nat, cnt : Nat]) /\ l.logics \in Seq([start : Nat, cnt : Nat])
  /\ DOMAIN l.tables = {0} \cup ToSet(l.chain)
  /\ TablesOK(l) /\ PartsOK(l)

\* If a partition has less than the metadata, the number of free sectors wraps, and
\* rounding it up wraps once more, to no sectors for the bitmap.
ASSUME FileSysAssumption ==
  /\ Channels \in Nat \ {0}
  /\ MaxPrim \in Nat \ {0} /\ MaxLogic \in Nat \ {0} /\ MaxCrashes \in Nat
  /\ {ByteBits, InodeBitmap, InodeTable, MaxBuf, MaxChunk, Word} \subseteq Nat \ {0} /\ Bits \in Nat \ {0, 1}
  /\ MaxLba \in Nat
  /\ InodeTable <= MaxBuf /\ InodeBitmap <= MaxBuf
  /\ Fixed < Word /\ Bits < Word /\ Fixed <= Bits + 1
  /\ \A l \in Layouts : LayoutOK(l)

VARIABLES
  layout,  \* the partition tables of the channels' disks
  disk,    \* disk[c]: the sectors that the file system code has written
  torn,    \* <<c, start>>: partitions on which a power failure cut a format short
  crashes,
  phase,   \* "scan", "search", "write", "mount", "up" or "panic"
  ch,      \* channel_no
  stack,   \* the calls of partition_scan: their sector, entry, and buffer
  base,    \* ext_lba_base
  prim, logic,  \* prim_parts[0 .. p_no - 1] and logic_parts[0 .. l_no - 1]
  lost,    \* buffers of partition_scan that are not freed
  idx,     \* part_idx
  todo,    \* the sectors partition_format has yet to write
  cur      \* what is mounted: cur_part's superblock and block bitmap

diskVars == <<layout, disk, torn, crashes>>
scanVars == <<stack, base, prim, logic, lost>>
vars == <<diskVars, phase, ch, scanVars, idx, todo, cur>>

NotMounted == [start |-> -1, sb |-> [kind |-> "none"], free |-> {}]

\* What the kernel knows when it starts.
Booting ==
  /\ phase = "scan" /\ ch = 0
  /\ stack = <<[lba |-> 0, i |-> 1]>>
  /\ base = 0
  /\ prim = [c \in Chans |-> <<>>] /\ logic = [c \in Chans |-> <<>>]
  /\ lost = 0 /\ idx = 0 /\ todo = <<>> /\ cur = NotMounted

Init ==
  /\ layout \in [Chans -> Layouts]
  /\ disk = [c \in Chans |-> << >>]
  /\ torn = {} /\ crashes = 0
  /\ Booting

-----------------------------------------------------------------------------

\* partition_scan.  The entry that the innermost call looks at.
Top == stack[Len(stack)]
Entry == Table(layout[ch], Top.lba)[Top.i]

\* The innermost call goes on with its next entry.
NextEntry == stack' = [stack EXCEPT ![Len(stack)].i = @ + 1]

\* panic_spin.
Stop == phase' = "panic" /\ todo' = <<>> /\ UNCHANGED <<diskVars, ch, scanVars, idx, cur>>

\* An extended partition whose table is behind max_lba: ide_read's ASSERT fails.
ScanStops ==
  /\ phase = "scan" /\ stack # <<>> /\ Top.i <= 4 /\ Entry.type = Extended
  /\ Entry.start + base > MaxLba
  /\ Stop

\* Mutant: it is relative to the table it is in.
ScanExtendedHere ==
  /\ phase = "scan" /\ stack # <<>> /\ Top.i <= 4 /\ Entry.type = Extended
  /\ Entry.start + base <= MaxLba
  /\ LET at == Entry.start + IF base # 0 THEN Top.lba ELSE 0 IN
       stack' = Append([stack EXCEPT ![Len(stack)].i = @ + 1], [lba |-> at, i |-> 1])
  /\ base' = IF base # 0 THEN base ELSE Entry.start
  /\ UNCHANGED <<diskVars, phase, ch, prim, logic, lost, idx, todo, cur>>

\* An extended partition: the first one is the base of all others.
ScanExtended ==
  /\ phase = "scan" /\ stack # <<>> /\ Top.i <= 4 /\ Entry.type = Extended
  /\ Entry.start + base <= MaxLba
  /\ LET at == Entry.start + base IN
       stack' = Append([stack EXCEPT ![Len(stack)].i = @ + 1], [lba |-> at, i |-> 1])
  /\ base' = IF base # 0 THEN base ELSE Entry.start
  /\ UNCHANGED <<diskVars, phase, ch, prim, logic, lost, idx, todo, cur>>

ScanEmpty ==
  /\ phase = "scan" /\ stack # <<>> /\ Top.i <= 4 /\ Entry.type = Empty
  /\ NextEntry
  /\ UNCHANGED <<diskVars, phase, ch, base, prim, logic, lost, idx, todo, cur>>

Found == [start |-> Top.lba + Entry.start, cnt |-> Entry.cnt]

\* Mutant: the assertion leaves two out.
ScanPrimaryStrict ==
  /\ phase = "scan" /\ stack # <<>> /\ Top.i <= 4 /\ Entry.type \notin {Empty, Extended}
  /\ Top.lba = 0
  /\ prim' = [prim EXCEPT ![ch] = Append(@, Found)]
  /\ phase' = IF Len(prim[ch]) + 2 < MaxPrim THEN phase ELSE "panic"
  /\ NextEntry
  /\ UNCHANGED <<diskVars, ch, base, logic, lost, idx, todo, cur>>

\* In the master boot record: a primary partition; the assertion behind p_no++
\* leaves no room for the last of the array.
ScanPrimary ==
  /\ phase = "scan" /\ stack # <<>> /\ Top.i <= 4 /\ Entry.type \notin {Empty, Extended}
  /\ Top.lba = 0
  /\ prim' = [prim EXCEPT ![ch] = Append(@, Found)]
  /\ phase' = IF Len(prim[ch]) + 1 < MaxPrim THEN phase ELSE "panic"
  /\ NextEntry
  /\ UNCHANGED <<diskVars, ch, base, logic, lost, idx, todo, cur>>

\* In another: a logical partition, until the array is full; then this call, but
\* not those around it, returns, and its buffer is lost.
ScanLogical ==
  /\ phase = "scan" /\ stack # <<>> /\ Top.i <= 4 /\ Entry.type \notin {Empty, Extended}
  /\ Top.lba # 0
  /\ logic' = [logic EXCEPT ![ch] = Append(@, Found)]
  /\ IF Len(logic[ch]) + 1 >= MaxLogic
       THEN stack' = Front(stack) /\ lost' = lost + 1
       ELSE NextEntry /\ UNCHANGED lost
  /\ UNCHANGED <<diskVars, phase, ch, base, prim, idx, todo, cur>>

\* Mutant: without sys_free.
ScanReturnKeeps ==
  /\ phase = "scan" /\ stack # <<>> /\ Top.i > 4
  /\ stack' = Front(stack) /\ lost' = lost + 1
  /\ UNCHANGED <<diskVars, phase, ch, base, prim, logic, idx, todo, cur>>

\* The end of a table, and sys_free(bs).
ScanReturn ==
  /\ phase = "scan" /\ stack # <<>> /\ Top.i > 4
  /\ stack' = Front(stack)
  /\ UNCHANGED <<diskVars, phase, ch, base, prim, logic, lost, idx, todo, cur>>

\* ide_init: the disk of the next channel, with its own p_no and l_no but with
\* the ext_lba_base of the last; behind the last, filesys_init begins.
NextDisk ==
  /\ phase = "scan" /\ stack = <<>>
  /\ IF ch + 1 < Channels
       THEN ch' = ch + 1 /\ stack' = <<[lba |-> 0, i |-> 1]>> /\ UNCHANGED phase
       ELSE ch' = 0 /\ phase' = "search" /\ UNCHANGED stack
  /\ UNCHANGED <<diskVars, base, prim, logic, lost, idx, todo, cur>>

-----------------------------------------------------------------------------

\* The layout partition_format computes, and the superblock it writes.
SuperBlock(p) ==
  LET freeSects == (p.cnt - Fixed) % Word
      bitLen    == BitmapBits(freeSects)
      sects     == BitmapSects(freeSects)
  IN [kind |-> "sb", start |-> p.start, cnt |-> p.cnt,
      bbm |-> p.start + 2, bbmSects |-> sects,
      ibm |-> p.start + 2 + sects,
      itab |-> p.start + 2 + sects + InodeBitmap,
      data |-> p.start + 2 + sects + InodeBitmap + InodeTable,
      bitLen |-> bitLen]

\* The clear bits of the block bitmap.  Block 0 is the root directory's, but in the
\* first byte the loop that clears the last byte's bits clears its bit again; those
\* behind the last block are set, from bitLen + 1 on, in the last sector.
FreeBits(sb) ==
  {b \in (IF sb.bitLen < ByteBits THEN 0 ELSE 1) .. sb.bitLen : b < sb.bbmSects * Bits}

\* The sectors of a part of the metadata; those of the bitmap have their clear bits.
Region(kind, first, sects, free) ==
  [i \in 1 .. sects |->
    <<first + i - 1, [kind |-> kind, i |-> i, free |-> {b \in free : b \div Bits = i - 1}]>>]
Metadata(sb) ==
  Region("bbm", sb.bbm, sb.bbmSects, FreeBits(sb)) \o Region("ibm", sb.ibm, InodeBitmap, {})
    \o Region("itab", sb.itab, InodeTable, {}) \o Region("root", sb.data, 1, {})

\* The write of a sector, of disk d.
Put(d, lba, x) == [s \in DOMAIN d \cup {lba} |-> IF s = lba THEN x ELSE d[s]]
Get(c, lba) == IF lba \in DOMAIN disk[c] THEN disk[c][lba] ELSE [kind |-> "none"]

\* prim_parts and logic_parts are searched as one array of twelve.
Part(i) ==
  LET p == IF i < MaxPrim THEN prim[ch] ELSE logic[ch]
      j == IF i < MaxPrim THEN i + 1 ELSE i - MaxPrim + 1
  IN IF j <= Len(p) THEN p[j] ELSE [start |-> 0, cnt |-> 0]
HasPart == phase = "search" /\ idx < MaxPrim + MaxLogic /\ Part(idx).cnt # 0
Magic(c, p) == Get(c, p.start + 1).kind = "sb"

\* The superblock of a partition is behind max_lba: ide_read's ASSERT fails.
SearchStops == HasPart /\ Part(idx).start + 1 > MaxLba /\ Stop

\* There is no partition, or it has a file system already.
Skip ==
  /\ phase = "search" /\ idx < MaxPrim + MaxLogic
  /\ HasPart => Part(idx).start + 1 <= MaxLba /\ Magic(ch, Part(idx))
  /\ idx' = idx + 1
  /\ UNCHANGED <<diskVars, phase, ch, scanVars, todo, cur>>

\* Mutant: whatever is on the partition.
FormatAlways ==
  /\ HasPart /\ Part(idx).start + 1 <= MaxLba
  /\ todo' = <<<<Part(idx).start + 1, SuperBlock(Part(idx))>>>> \o Metadata(SuperBlock(Part(idx)))
  /\ phase' = "write"
  /\ UNCHANGED <<diskVars, ch, scanVars, idx, cur>>

\* partition_format: the superblock first, the rest behind it, if there is
\* memory for the buffer (the inode table's size is within it).
Format ==
  /\ HasPart /\ Part(idx).start + 1 <= MaxLba /\ ~Magic(ch, Part(idx))
  /\ LET sb == SuperBlock(Part(idx)) IN
       todo' = <<<<sb.start + 1, sb>>>> \o IF sb.bbmSects \in 1 .. MaxBuf THEN Metadata(sb) ELSE <<>>
  /\ phase' = "write"
  /\ UNCHANGED <<diskVars, ch, scanVars, idx, cur>>

\* The next sector is the first of a command: ide_write and select_sector have an
\* ASSERT on it.
Refused ==
  LET x == Head(todo)[2] IN
    /\ x.kind # "sb" => (x.i - 1) % MaxChunk = 0
    /\ Head(todo)[1] > MaxLba
WriteStops == phase = "write" /\ todo # <<>> /\ Refused /\ Stop

\* One sector of its ide_writes.  Behind the superblock's, if there is no memory for
\* the buffer the kernel writes over itself from address 0; if the block bitmap has
\* no sectors, memset leaves the buffer or ide_write's assertion fails.
Write ==
  /\ phase = "write" /\ todo # <<>> /\ ~Refused
  /\ disk' = [disk EXCEPT ![ch] = Put(@, Head(todo)[1], Head(todo)[2])]
  /\ todo' = Tail(todo)
  /\ phase' = IF Head(todo)[2].kind = "sb" /\ Tail(todo) = <<>> THEN "panic" ELSE phase
  /\ UNCHANGED <<layout, torn, crashes, ch, scanVars, idx, cur>>

\* Mutant: part_idx is counted up twice.
FormattedSkips ==
  /\ phase = "write" /\ todo = <<>>
  /\ phase' = "search" /\ idx' = Min({idx + 2, MaxPrim + MaxLogic})
  /\ UNCHANGED <<diskVars, ch, scanVars, todo, cur>>

Formatted ==
  /\ phase = "write" /\ todo = <<>>
  /\ phase' = "search" /\ idx' = idx + 1
  /\ UNCHANGED <<diskVars, ch, scanVars, todo, cur>>

\* All twelve are done; part_idx is not set back for the next channel's disk.
SearchNext ==
  /\ phase = "search" /\ idx = MaxPrim + MaxLogic
  /\ IF ch + 1 < Channels THEN ch' = ch + 1 /\ UNCHANGED phase ELSE phase' = "mount" /\ UNCHANGED ch
  /\ UNCHANGED <<diskVars, scanVars, idx, todo, cur>>

\* ide_read of n sectors fails an ASSERT.
Beyond(lba, n) == \E k \in 0 .. n - 1 : k % MaxChunk = 0 /\ lba + k > MaxLba

\* Mutant: one sector of the block bitmap is read.
MountOneSector ==
  /\ phase = "mount"
  /\ IF prim[0] = <<>> THEN phase' = "up" /\ UNCHANGED cur
     ELSE LET p == prim[0][1]
              sb == Get(0, p.start + 1) IN
            IF \/ sb.kind # "sb" \/ sb.bbmSects \notin 1 .. MaxBuf
               \/ Beyond(sb.bbm, sb.bbmSects) \/ Beyond(sb.ibm, InodeBitmap)
            THEN phase' = "panic" /\ UNCHANGED cur
            ELSE /\ cur' = [start |-> p.start, sb |-> sb,
                            free |-> UNION {LET x == Get(0, l) IN IF x.kind = "bbm" THEN x.free ELSE {} :
                                              l \in {sb.bbm}}]
                 /\ phase' = "up"
  /\ UNCHANGED <<diskVars, ch, scanVars, idx, todo>>

\* mount_partition of sdb1, if there is one: the superblock is taken as it is.
Mount ==
  /\ phase = "mount"
  /\ IF prim[0] = <<>> THEN phase' = "up" /\ UNCHANGED cur
     ELSE LET p == prim[0][1]
              sb == Get(0, p.start + 1) IN
            IF \/ sb.kind # "sb" \/ sb.bbmSects \notin 1 .. MaxBuf
               \/ Beyond(sb.bbm, sb.bbmSects) \/ Beyond(sb.ibm, InodeBitmap)
            THEN phase' = "panic" /\ UNCHANGED cur
            ELSE /\ cur' = [start |-> p.start, sb |-> sb,
                            free |-> UNION {LET x == Get(0, l) IN IF x.kind = "bbm" THEN x.free ELSE {} :
                                              l \in sb.bbm .. sb.bbm + sb.bbmSects - 1}]
                 /\ phase' = "up"
  /\ UNCHANGED <<diskVars, ch, scanVars, idx, todo>>

\* The power fails, at any time, and the kernel boots again.
Crash ==
  /\ crashes < MaxCrashes
  /\ crashes' = crashes + 1
  /\ torn' = IF phase = "write" /\ todo # <<>> /\ Magic(ch, Part(idx))
               THEN torn \cup {<<ch, Part(idx).start>>} ELSE torn
  /\ phase' = "scan" /\ ch' = 0 /\ stack' = <<[lba |-> 0, i |-> 1]>> /\ base' = 0
  /\ prim' = [c \in Chans |-> <<>>] /\ logic' = [c \in Chans |-> <<>>]
  /\ lost' = 0 /\ idx' = 0 /\ todo' = <<>> /\ cur' = NotMounted
  /\ UNCHANGED <<layout, disk>>

Step ==
  \/ ScanStops \/ SearchStops \/ WriteStops
  \/ ScanExtended \/ ScanEmpty \/ ScanPrimary \/ ScanLogical \/ ScanReturn \/ NextDisk
  \/ Skip \/ Format \/ Write \/ Formatted \/ SearchNext \/ Mount

Next == Step \/ Crash

Spec == Init /\ [][Next]_vars

-----------------------------------------------------------------------------

Parts(c) == ToSet(layout[c].prims) \cup ToSet(layout[c].logics)

\* Large enough for a block bitmap and a data sector, and not so large that there is
\* no memory for the bitmap or the rounding up wraps.
Fits(p) ==
  /\ p.cnt - Fixed \in 2 .. Word - Bits
  /\ BitmapSects(p.cnt - Fixed) <= MaxBuf

\* And the driver can reach all of its metadata.
Usable(p) == Fits(p) /\ SuperBlock(p).data <= MaxLba

\* A table of the disk is behind max_lba, or is where the scan looks for it relative
\* to the extended partition of a disk before.
TableBeyond(c) ==
  \/ \E s \in ToSet(layout[c].chain) : s > MaxLba
  \/ \E d \in 0 .. c - 1, s \in DOMAIN layout[c].tables, i \in 1 .. 4 :
       LET e == layout[c].tables[s][i] IN
         /\ layout[d].chain # <<>> /\ e.type = Extended
         /\ e.start + layout[d].chain[1] > MaxLba

\* All of the file system is on the disk.
Complete(c, p) ==
  LET sb == SuperBlock(p) IN
    /\ Get(c, sb.start + 1) = sb
    /\ \A w \in ToSet(Metadata(sb)) : Get(c, w[1]) = w[2]

TypeOK ==
  /\ phase \in {"scan", "search", "write", "mount", "up", "panic"}
  /\ ch \in Chans
  /\ \A k \in 1 .. Len(stack) : stack[k].lba \in Nat /\ stack[k].i \in 1 .. 5
  /\ idx \in 0 .. MaxPrim + MaxLogic
  /\ \A c \in Chans : Len(prim[c]) <= MaxPrim /\ Len(logic[c]) <= MaxLogic
  /\ phase # "write" => todo = <<>> \/ phase = "panic"

\* A scan finds the partitions that the tables were made for, in their order and
\* as many as the arrays hold; unless a disk before has an extended partition,
\* because ext_lba_base is not reset (ide.c:286-291, 391).
PartitionsFound ==
  \A c \in Chans :
    phase \in {"search", "write", "mount", "up"} /\ (\A d \in 0 .. c - 1 : layout[d].logics = <<>>) =>
      /\ prim[c] = layout[c].prims
      /\ IsPrefix(logic[c], layout[c].logics)
      /\ Len(logic[c]) = Min({MaxLogic, Len(layout[c].logics)})

\* partition_scan frees its buffers, but for that of the call that fills
\* logic_parts (ide.c:311).
BuffersFreed ==
  phase \notin {"scan", "panic"} => lost <= Cardinality({c \in Chans : Len(logic[c]) >= MaxLogic})

\* When the kernel is up, every partition of the first disk that can has all of a file
\* system, if no power failure came between the first and the last write of a
\* format (fs.c:195-250).
FirstDiskFormatted ==
  phase = "up" =>
    \A p \in ToSet(prim[0]) \cup ToSet(logic[0]) :
      Usable(p) => Complete(0, p) \/ <<0, p.start>> \in torn

\* What is mounted is the file system that was made for the partition: whatever the
\* subtraction and the rounding wrap to, its metadata and a data sector are inside of
\* the partition, one part behind the other; and if all of it is on the disk, the
\* block bitmap has exactly the clear bits that the format gave it, of all of its
\* sectors (fs.c:20-69, 79-105).
MountedWhole ==
  phase = "up" /\ prim[0] # <<>> =>
    LET p == prim[0][1]
        sb == cur.sb
    IN /\ p.start + 1 < sb.bbm /\ sb.bbm < sb.ibm /\ sb.ibm < sb.itab /\ sb.itab < sb.data
       /\ sb.data < p.start + p.cnt
       /\ Complete(0, p) => cur.free = FreeBits(sb)

\* The kernel stops only on a disk with as many primary partitions as the array
\* holds, which the comments allow and the assertion does not (ide.c:302); with a
\* partition that is too small for a file system, too large for its bitmap's buffer
\* or whose metadata is behind max_lba; or with a table behind max_lba
\* (ide.c:88, 151, 196, fs.c:81-143).
PanicExplained ==
  phase = "panic" =>
    \E c \in Chans :
      \/ Len(layout[c].prims) >= MaxPrim
      \/ \E p \in Parts(c) : ~Usable(p)
      \/ TableBeyond(c)

\* The types, the buffers and the reasons to stop (ide.c:277-317, fs.c:73-192).
BootInOrder == TypeOK /\ BuffersFreed /\ PanicExplained

\* What the comment at fs.c:228 says the magic number means: there is a file system.
MagicMeansFormatted == phase = "up" /\ prim[0] # <<>> => Complete(0, prim[0][1])

\* A write goes to a partition of that disk that does not have a file system yet:
\* not to a table, to a neighbour or to files (fs.c:231-236).
OthersKept ==
  [][\A c \in Chans : \A l \in DOMAIN disk'[c] :
       (l \in DOMAIN disk[c] => disk'[c][l] # disk[c][l]) =>
         \E p \in Parts(c) : l \in Sectors(p) /\ ~Complete(c, p)]_vars
=============================================================================

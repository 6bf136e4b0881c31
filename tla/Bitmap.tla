------------------------------- MODULE Bitmap -------------------------------
(***************************************************************************)
(* lib/kernel/bitmap.c, used the way vaddr_get and vaddr_remove use it     *)
(* (kernel/memory.c): bitmap_scan for cnt bits in a row, bitmap_set on     *)
(* each of them, and bitmap_set on all of them again when they are freed.  *)
(* The caller holds whatever lock protects the bitmap, so a call is one    *)
(* step here; PagePool has the callers that take no lock.                  *)
(*                                                                         *)
(* The bit behind the bitmap, number Total, belongs to somebody else; it   *)
(* is part of the model because the loop of bitmap_scan reads it.          *)
(***************************************************************************)
EXTENDS BitRuns

CONSTANTS
  Width,    \* bits in a byte
  Bytes,    \* btmp_bytes_len
  Behind,   \* the values the bit behind the bitmap may have
  MaxCnt    \* bound on how many bits a caller asks for

ASSUME BitmapAssumption ==
  /\ Width \in Nat \ {0}
  /\ Bytes \in Nat \ {0}
  /\ Behind \subseteq BOOLEAN
  /\ MaxCnt \in Nat \ {0}

VARIABLES
  bits,    \* bits[i]: bit i is set
  held,    \* the runs <<first bit, number of bits>> callers hold
  panic    \* an ASSERT has failed

bitmapVars == <<bits, held, panic>>

Total == Width * Bytes
Bit == 0 .. Total

-----------------------------------------------------------------------------

\* The byte the first loop stops at, and the bit in it the second one stops at.
FirstByte(b) == Min({k \in 0 .. Bytes - 1 : \E j \in 0 .. Width - 1 : ~b[Width * k + j]})

\* Mutant: the byte's number is not multiplied.
StartInByte(b) ==
  LET k == FirstByte(b) IN k + Min({j \in 0 .. Width - 1 : ~b[Width * k + j]})

Start(b) ==
  LET k == FirstByte(b) IN Width * k + Min({j \in 0 .. Width - 1 : ~b[Width * k + j]})

\* The variable count when the third loop has tested bit i, and the bits it
\* tests: bit_left of them, so the last one is the bit behind the bitmap.
Count(b) ==
  LET count[i \in Start(b) .. Total] ==
        IF i = Start(b) THEN 1 ELSE IF b[i] THEN 0 ELSE count[i - 1] + 1
  IN count

Tested(b) == Start(b) + 1 .. Total

\* Mutant: the position of the last bit of the run is returned.
bitmap_scan_last(b, cnt) ==
  LET count == Count(b)
      hits == {i \in Tested(b) : count[i] = cnt}
  IN IF cnt = 1 THEN Start(b) ELSE IF hits = {} THEN -1 ELSE Min(hits) - 1

bitmap_scan(b, cnt) ==
  LET count == Count(b)
      hits == {i \in Tested(b) : count[i] = cnt}
  IN IF cnt = 1 THEN Start(b) ELSE IF hits = {} THEN -1 ELSE Min(hits) - cnt + 1

\* bitmap_set on cnt bits from s on.
SetRun(b, s, cnt, v) == [i \in Bit |-> IF i \in s .. s + cnt - 1 THEN v ELSE b[i]]

-----------------------------------------------------------------------------

\* bitmap_init.
BitmapInit ==
  /\ \E v \in Behind : bits = [i \in Bit |-> i = Total /\ v]
  /\ held = {}
  /\ panic = FALSE

\* vaddr_get; without a run it fails and changes nothing.
Get(cnt) ==
  /\ ~panic /\ ~ScanPanics(bits, Total)
  /\ LET s == bitmap_scan(bits, cnt) IN
       /\ s # -1
       /\ bits' = SetRun(bits, s, cnt, TRUE)
       /\ held' = held \cup {<<s, cnt>>}
  /\ UNCHANGED panic

GetFromFull ==
  /\ ~panic /\ ScanPanics(bits, Total)
  /\ panic' = TRUE
  /\ UNCHANGED <<bits, held>>

\* vaddr_remove.
VaddrRemove(r) ==
  /\ ~panic /\ r \in held
  /\ bits' = SetRun(bits, r[1], r[2], FALSE)
  /\ held' = held \ {r}
  /\ UNCHANGED panic

BitmapNext ==
  \/ \E cnt \in 1 .. MaxCnt : Get(cnt)
  \/ GetFromFull
  \/ \E r \in held : VaddrRemove(r)

BitmapSpec == BitmapInit /\ [][BitmapNext]_bitmapVars

-----------------------------------------------------------------------------

\* cnt clear bits in a row, from s on, inside the bitmap.
Fits(b, s, cnt) == s + cnt <= Total /\ \A i \in s .. s + cnt - 1 : ~b[i]

\* If cnt bits in a row are free, bitmap_scan finds the first such place,
\* whatever was allocated and freed before (bitmap.c:34-60).
FindsFirstFit ==
  \A cnt \in 1 .. MaxCnt, s \in 0 .. Total - 1 :
    Fits(bits, s, cnt) /\ (\A r \in 0 .. s - 1 : ~Fits(bits, r, cnt))
      => bitmap_scan(bits, cnt) = s

\* The three loops of bitmap_scan together find BitRuns' FirstRun, which the
\* other modules use in their place.
ScanIsFirstRun ==
  ~ScanPanics(bits, Total) => \A cnt \in 1 .. MaxCnt : bitmap_scan(bits, cnt) = FirstRun(bits, Total, cnt)

=============================================================================

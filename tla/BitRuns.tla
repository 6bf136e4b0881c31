------------------------------ MODULE BitRuns ------------------------------
(***************************************************************************)
(* What the bitmap functions of lib/kernel/bitmap.c compute, without their *)
(* loops, for the modules of the code that uses bitmaps.  Module Bitmap    *)
(* has the loops, and its runs compare the two.                            *)
(*                                                                         *)
(* A bitmap of n bits is a function on 0 .. n: the bit behind the bitmap   *)
(* is part of it, because bitmap_scan reads it.                            *)
(***************************************************************************)
EXTENDS Integers, FiniteSetsExt

\* Every bit is set: bitmap_scan's ASSERT fails.
ScanPanics(b, n) == \A i \in 0 .. n - 1 : b[i]

\* The runs of cnt clear bits that bitmap_scan may return.  If cnt > 1 its last
\* loop goes one bit too far, so a run may end in the bit behind the bitmap.
Runs(b, n, cnt) ==
  {s \in 0 .. n - 1 :
     /\ s + cnt <= IF cnt = 1 THEN n ELSE n + 1
     /\ \A i \in s .. s + cnt - 1 : ~b[i]}

\* bitmap_scan: the first of them, or -1.
FirstRun(b, n, cnt) == IF Runs(b, n, cnt) = {} THEN -1 ELSE Min(Runs(b, n, cnt))
=============================================================================

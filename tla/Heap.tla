-------------------------------- MODULE Heap --------------------------------
(***************************************************************************)
(* What sys_malloc and sys_free of kernel/memory.c promise their callers:  *)
(* memory in the heap that nobody else has, for as long as it is not       *)
(* freed.  Module Arena implements this specification.                     *)
(***************************************************************************)
EXTENDS Integers

CONSTANTS
  Bytes,  \* length of the heap
  Sizes   \* sizes that are asked for

VARIABLE live  \* the memory the callers have: <<first byte, length>>

Extent(m) == m[1] .. m[1] + m[2] - 1

HeapInit == live = {}

Give(m) ==
  /\ \A n \in live : Extent(n) \cap Extent(m) = {}
  /\ live' = live \cup {m}

TakeBack(m) == live' = live \ {m}

HeapNext ==
  \/ \E size \in Sizes : \E b \in 0 .. Bytes - size : Give(<<b, size>>)
  \/ \E m \in live : TakeBack(m)

HeapSpec == HeapInit /\ [][HeapNext]_live
=============================================================================

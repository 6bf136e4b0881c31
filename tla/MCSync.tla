------------------------------- MODULE MCSync -------------------------------
(* Small instances of Sync: every slice is Slice ticks plus the last one.  *)
EXTENDS SyncInv

CONSTANT Slice

MCPrio == [t \in Threads |-> IF t = Main THEN Slice ELSE 0]
=============================================================================

------------------------------ MODULE MCPages ------------------------------
(* Threads for PagePool: two kernel threads, or two processes.             *)
EXTENDS PagePoolInv

CONSTANTS a, b, p, q

MCWorlds == {{Main, a, b}, {Main, p, q}}
=============================================================================

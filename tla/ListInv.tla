------------------------------ MODULE ListInv -------------------------------
(***************************************************************************)
(* The inductive invariant of List: the pointers are the lists, a thread   *)
(* is at one place, and a thread in elem_find is at an element that only   *)
(* the scheduler takes from the ready list.                                *)
(***************************************************************************)
EXTENDS List

Items == Threads \cup Blocks
Ptrs == [next : [Nodes -> Nodes \cup {Nil}], prev : [Nodes -> Nodes \cup {Nil}]]

Queues == ToSet(seqs.ready) \cup ToSet(seqs.waiters)

\* Fields p that are the lists s.
Correct(p, s) ==
  /\ p \in Ptrs
  /\ s \in [Names -> Seq(Items)]
  /\ \A l \in Names :
       /\ Linked(p, l, s[l]) /\ IsInjective(s[l])
       /\ \A m \in Names \ {l} : ToSet(s[l]) \cap ToSet(s[m]) = {}

\* Blocks are on the free list only, and threads never.
SortsOK == Queues \subseteq Threads /\ ToSet(seqs.free) \subseteq Blocks

StateOK ==
  /\ cur \in Threads /\ cur \notin Queues
  /\ new \in [Threads -> Threads \cup {Null}]
  /\ at \in [Threads -> Nodes \cup {Nil}]
  /\ moved \in SUBSET Threads

\* The PCB of a thread that is being started is one thread's.
NewOK ==
  \A t \in Threads : new[t] # Null =>
    /\ new[t] # cur /\ new[t] \notin Queues
    /\ \A u \in Threads : new[u] = new[t] => u = t

\* Where an elem_find is: at the tag of the running thread too, which goes to the end
\* of the list before another runs; at its own never, so it does not run from there.
WalkOK ==
  \A t \in Threads \ moved : new[t] # Null =>
    /\ at[t] \in {Elem(u) : u \in ToSet(seqs.ready)} \cup {Tail_("ready"), Elem(cur)}
    /\ at[t] # Elem(t)

IInv == Correct(Fields, seqs) /\ SortsOK /\ StateOK /\ NewOK /\ WalkOK
=============================================================================

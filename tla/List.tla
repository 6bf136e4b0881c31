-------------------------------- MODULE List --------------------------------
(***************************************************************************)
(* lib/kernel/list.c: the pointers of the ready list and a semaphore's     *)
(* waiters, which share the threads' general_tags, and of a free list of   *)
(* sys_malloc; changed as thread.c, sync.c and memory.c change them.       *)
(*                                                                         *)
(* A call that changes pointers turns interrupts off and is one step.      *)
(* elem_find does not (most callers do): thread_start walks the ready      *)
(* list with interrupts on, one pointer at a time, and the timer may       *)
(* switch to threads that change it.  What the list should be, seqs, is    *)
(* kept next to the pointers: Thread, Sync and Arena have sequences only.  *)
(***************************************************************************)
EXTENDS Integers, SequencesExt

CONSTANTS
  Threads,  \* by the general_tags in their PCBs
  Main,     \* the one there is at first
  Blocks,   \* free_elem of the blocks of an arena
  Null

ASSUME ListAssumption ==
  /\ Main \in Threads
  /\ Threads \cap Blocks = {} /\ Null \notin Threads \cup Blocks

Names == {"ready", "waiters", "free"}
Head_(l) == <<"head", l>>
Tail_(l) == <<"tail", l>>
Elem(x) == <<"elem", x>>
Nodes == {Head_(l) : l \in Names} \cup {Tail_(l) : l \in Names} \cup {Elem(x) : x \in Threads \cup Blocks}
Nil == <<"null", Null>>

VARIABLES
  next, prev,  \* the fields of the list_elems
  seqs,        \* what the lists should be
  cur,         \* running_thread()
  new,         \* new[t]: the thread that t is starting, or Null
  at,          \* at[t]: elem of t's elem_find
  moved        \* threads that block while somebody's elem_find is at their tag: that one's

ptrs == <<next, prev>>
vars == <<ptrs, seqs, cur, new, at, moved>>

-----------------------------------------------------------------------------

\* list_insert_before and list_remove on the fields p = [next |->, prev |->].
\* Mutant: before->prev stays.
InsertBeforeOneWay(p, before, e) ==
  [p EXCEPT !.next[p.prev[before]] = e, !.prev[e] = p.prev[before], !.next[e] = before]

InsertBefore(p, before, e) ==
  LET q == [p EXCEPT !.next[p.prev[before]] = e, !.prev[e] = p.prev[before], !.next[e] = before]
  IN [q EXCEPT !.prev[before] = e]

Removed(p, e) == [p EXCEPT !.next[p.prev[e]] = p.next[e], !.prev[p.next[e]] = p.prev[e]]

Pushed(p, l, e) == InsertBefore(p, p.next[Head_(l)], e)
Appended(p, l, e) == InsertBefore(p, Tail_(l), e)
First(p, l) == p.next[Head_(l)]
Popped(p, l) == Removed(p, First(p, l))
IsEmpty(p, l) == First(p, l) = Tail_(l)

Fields == [next |-> next, prev |-> prev]
Set(p) == next' = p.next /\ prev' = p.prev
Entry(e) == e[2]  \* elem2entry

\* list_init.
EmptyFields ==
  [next |-> [n \in Nodes |-> IF n[1] = "head" THEN Tail_(n[2]) ELSE Nil],
   prev |-> [n \in Nodes |-> IF n[1] = "tail" THEN Head_(n[2]) ELSE Nil]]

\* make_main_thread: the running thread is on no list.
Init ==
  /\ next = EmptyFields.next /\ prev = EmptyFields.prev
  /\ seqs = [l \in Names |-> <<>>]
  /\ cur = Main
  /\ new = [t \in Threads |-> Null]
  /\ at = [t \in Threads |-> Nil]
  /\ moved = {}

-----------------------------------------------------------------------------

\* Mutant: list_pop only reads.
ElectStays(p, s) ==
  /\ ~IsEmpty(p, "ready")
  /\ cur' = Entry(First(p, "ready"))
  /\ Set(p)
  /\ seqs' = s

\* schedule; the idle thread, which it unblocks if the list is empty, is left out:
\* the last thread that is ready does not block.
Elect(p, s) ==
  /\ ~IsEmpty(p, "ready")
  /\ cur' = Entry(First(p, "ready"))
  /\ Set(Popped(p, "ready"))
  /\ seqs' = [s EXCEPT !.ready = Tail(@)]

\* The timer, or thread_yield: wherever the thread is.
Switch ==
  /\ Elect(Appended(Fields, "ready", Elem(cur)), [seqs EXCEPT !.ready = Append(@, cur)])
  /\ UNCHANGED <<new, at, moved>>

\* sema_down.  A thread that is starting another does not block on the way.
Block ==
  /\ new[cur] = Null
  /\ Elect(Appended(Fields, "waiters", Elem(cur)), [seqs EXCEPT !.waiters = Append(@, cur)])
  /\ moved' = moved \cup {t \in Threads : at[t] = Elem(cur)}
  /\ UNCHANGED <<new, at>>

\* sema_up and thread_unblock.
Wake ==
  /\ new[cur] = Null /\ ~IsEmpty(Fields, "waiters")
  /\ LET e == First(Fields, "waiters") IN
       /\ Set(Pushed(Popped(Fields, "waiters"), "ready", e))
       /\ seqs' = [seqs EXCEPT !.waiters = Tail(@), !.ready = <<Head(seqs.waiters)>> \o @]
  /\ UNCHANGED <<cur, new, at, moved>>

-----------------------------------------------------------------------------

\* thread_start of u, whose PCB is new: elem_find begins at the first element.
Begin(u) ==
  /\ new[cur] = Null
  /\ u # Main /\ \A t \in Threads : new[t] # u
  /\ u # cur /\ u \notin ToSet(seqs.ready) \cup ToSet(seqs.waiters)
  /\ new' = [new EXCEPT ![cur] = u]
  /\ at' = [at EXCEPT ![cur] = First(Fields, "ready")]
  /\ moved' = moved \ {cur}
  /\ UNCHANGED <<ptrs, seqs, cur>>

\* Mutant: the walk follows prev.
WalkBack ==
  /\ new[cur] # Null /\ at[cur] \notin {Tail_("ready"), Nil}
  /\ at' = [at EXCEPT ![cur] = prev[@]]
  /\ UNCHANGED <<ptrs, seqs, cur, new, moved>>

\* One turn of its loop, which does not find the element of a new PCB; behind NULL
\* it reads what is not a list.
Walk ==
  /\ new[cur] # Null /\ at[cur] \notin {Tail_("ready"), Nil}
  /\ at' = [at EXCEPT ![cur] = next[@]]
  /\ UNCHANGED <<ptrs, seqs, cur, new, moved>>

\* At the tail, list_append.
Link ==
  /\ new[cur] # Null /\ at[cur] = Tail_("ready")
  /\ Set(Appended(Fields, "ready", Elem(new[cur])))
  /\ seqs' = [seqs EXCEPT !.ready = Append(@, new[cur])]
  /\ new' = [new EXCEPT ![cur] = Null] /\ at' = [at EXCEPT ![cur] = Nil]
  /\ UNCHANGED <<cur, moved>>

-----------------------------------------------------------------------------

\* The free list: sys_malloc and sys_free, with the lock of their pool.
GiveBack(b) ==
  /\ new[cur] = Null /\ b \notin ToSet(seqs.free)
  /\ Set(Appended(Fields, "free", Elem(b)))
  /\ seqs' = [seqs EXCEPT !.free = Append(@, b)]
  /\ UNCHANGED <<cur, new, at, moved>>

Take ==
  /\ new[cur] = Null /\ ~IsEmpty(Fields, "free")
  /\ Set(Popped(Fields, "free"))
  /\ seqs' = [seqs EXCEPT !.free = Tail(@)]
  /\ UNCHANGED <<cur, new, at, moved>>

Unlink(b) ==
  /\ new[cur] = Null /\ b \in ToSet(seqs.free)
  /\ Set(Removed(Fields, Elem(b)))
  /\ seqs' = [seqs EXCEPT !.free = RemoveAt(@, CHOOSE i \in DOMAIN @ : @[i] = b)]
  /\ UNCHANGED <<cur, new, at, moved>>

Next ==
  \/ Switch \/ Block \/ Wake \/ Walk \/ Link \/ Take
  \/ \E u \in Threads : Begin(u)
  \/ \E b \in Blocks : GiveBack(b) \/ Unlink(b)

Spec == Init /\ [][Next]_vars

-----------------------------------------------------------------------------

\* The nodes of a list whose elements are those of s: its head is the first, its tail
\* the last.
NodeAt(l, s, i) ==
  IF i = 0 THEN Head_(l) ELSE IF i = Len(s) + 1 THEN Tail_(l) ELSE Elem(s[i])

\* From one to the next and back, and no further than head and tail.
Linked(p, l, s) ==
  /\ p.prev[Head_(l)] = Nil /\ p.next[Tail_(l)] = Nil
  /\ \A i \in 0 .. Len(s) : /\ p.next[NodeAt(l, s, i)] = NodeAt(l, s, i + 1)
                            /\ p.prev[NodeAt(l, s, i + 1)] = NodeAt(l, s, i)

TypeOK ==
  /\ next \in [Nodes -> Nodes \cup {Nil}] /\ prev \in [Nodes -> Nodes \cup {Nil}]
  /\ cur \in Threads
  /\ \A t \in Threads : new[t] \in Threads \cup {Null} /\ at[t] \in Nodes \cup {Nil}
  /\ cur \notin ToSet(seqs.ready) \cup ToSet(seqs.waiters)

\* Forwards from its head and backwards from its tail a list has the elements of its
\* sequence, and nothing else; no element is on two lists or twice on one.
ListsAreSequences ==
  \A l \in Names :
    /\ Linked(Fields, l, seqs[l]) /\ IsInjective(seqs[l])
    /\ \A m \in Names \ {l} : ToSet(seqs[l]) \cap ToSet(seqs[m]) = {}

\* The types, and list.c is what the other modules take it for.
ListsExact == TypeOK /\ ListsAreSequences

\* While a thread runs in elem_find it is at an element of the ready list, or at its
\* tail, however often the list changed in between: unless the thread whose tag it
\* was at has blocked, which moves the tag to another list (thread.c:96).
WalkStaysOnReady ==
  new[cur] # Null /\ cur \notin moved =>
    at[cur] \in {Elem(t) : t \in ToSet(seqs.ready)} \cup {Tail_("ready")}
=============================================================================

---------------------------- MODULE MCFileSys ----------------------------
(* Disks for FileSys.  A partition needs seven sectors.                    *)
EXTENDS FileSys

P(start, cnt) == [type |-> 1, start |-> start, cnt |-> cnt]
E(start, cnt) == [type |-> Extended, start |-> start, cnt |-> cnt]
N == [type |-> Empty, start |-> 0, cnt |-> 0]
At(start, cnt) == [start |-> start, cnt |-> cnt]

\* Two primary partitions.
Plain == [tables |-> (0 :> <<P(1, 15), P(16, 9), N, N>>),
          chain |-> <<>>, prims |-> <<At(1, 15), At(16, 9)>>, logics |-> <<>>]

\* A primary and an extended partition with four logical ones.
Chain == [tables |-> (0 :> <<P(1, 8), E(9, 32), N, N>> @@ 9 :> <<P(1, 7), E(8, 8), N, N>>
                        @@ 17 :> <<P(1, 7), E(16, 8), N, N>> @@ 25 :> <<P(1, 7), E(24, 8), N, N>>
                        @@ 33 :> <<P(1, 7), N, N, N>>),
          chain |-> <<9, 17, 25, 33>>,
          prims |-> <<At(1, 8)>>, logics |-> <<At(10, 7), At(18, 7), At(26, 7), At(34, 7)>>]

\* A partition whose block bitmap has one bit, less than a byte.
Short == [tables |-> (0 :> <<P(1, 7), N, N, N>>), chain |-> <<>>, prims |-> <<At(1, 7)>>, logics |-> <<>>]

\* A partition whose bitmap has a bit less than it has data sectors.
Edge == [tables |-> (0 :> <<P(1, 11), N, N, N>>), chain |-> <<>>, prims |-> <<At(1, 11)>>, logics |-> <<>>]

\* As many primary partitions as the array holds.
Full == [tables |-> (0 :> <<P(1, 7), P(8, 7), P(15, 7), N>>),
         chain |-> <<>>, prims |-> <<At(1, 7), At(8, 7), At(15, 7)>>, logics |-> <<>>]

\* Partitions that are too small: by a sector or two, and so that the number of
\* free sectors is below zero; one too large for its bitmap's buffer; an empty disk.
Small == [tables |-> (0 :> <<P(1, 12), P(13, 6), N, N>>), chain |-> <<>>,
          prims |-> <<At(1, 12), At(13, 6)>>, logics |-> <<>>]
Tiny  == [tables |-> (0 :> <<P(1, 4), N, N, N>>), chain |-> <<>>, prims |-> <<At(1, 4)>>, logics |-> <<>>]
Large == [tables |-> (0 :> <<P(1, 28), N, N, N>>), chain |-> <<>>, prims |-> <<At(1, 28)>>, logics |-> <<>>]
\* Behind max_lba: the metadata of the second or of the first partition from some
\* sector on, a superblock, a table.
Far   == [tables |-> (0 :> <<P(1, 7), P(36, 8), N, N>>), chain |-> <<>>,
          prims |-> <<At(1, 7), At(36, 8)>>, logics |-> <<>>]
First == [tables |-> (0 :> <<P(38, 8), N, N, N>>), chain |-> <<>>, prims |-> <<At(38, 8)>>, logics |-> <<>>]
Super == [tables |-> (0 :> <<P(40, 7), N, N, N>>), chain |-> <<>>, prims |-> <<At(40, 7)>>, logics |-> <<>>]
Away  == [tables |-> (0 :> <<E(41, 8), N, N, N>> @@ 41 :> <<P(1, 7), N, N, N>>),
          chain |-> <<41>>, prims |-> <<>>, logics |-> <<At(42, 7)>>]

\* A table that is not, but is relative to the extended partition of Chain.
High  == [tables |-> (0 :> <<E(32, 8), N, N, N>> @@ 32 :> <<P(1, 7), N, N, N>>),
          chain |-> <<32>>, prims |-> <<>>, logics |-> <<At(33, 7)>>]
Blank == [tables |-> (0 :> NoTable), chain |-> <<>>, prims |-> <<>>, logics |-> <<>>]

MCLayouts == {Plain, Chain, Short, Edge, Full, Small, Tiny, Large, Far, First, Super, Away, High,
              Blank}
=============================================================================

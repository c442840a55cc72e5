------------------------------ MODULE FatTable ------------------------------
(***************************************************************************)
(* The allocation table and the walks ClusterIterator makes over it        *)
(* (fatrs/src/table.rs), as functions of a table.                          *)
(***************************************************************************)
EXTENDS Integers

CONSTANT Total   \* FileSystem.total_clusters

Reserved == 2                              \* RESERVED_FAT_ENTRIES
Clusters == Reserved .. Total + Reserved - 1
Free == 0                                  \* FatValue::Free
EOC == 1                                   \* FatValue::EndOfChain (any other value: Data(n))
None == 0                                  \* no cluster

FreeIn(fat) == {c \in Clusters : fat[c] = Free}

\* get_next_cluster: everything but Data(n) ends the chain.
NextIn(fat, c) == IF fat[c] \in Clusters THEN fat[c] ELSE None

\* The n-th cluster after c, None when the chain is shorter.
Walk(fat, c, n) ==
  LET at[i \in 0 .. n] ==
        IF i = 0 THEN c ELSE IF at[i - 1] = None THEN None ELSE NextIn(fat, at[i - 1])
  IN  at[n]

\* The clusters the iterator meets from c on.  A chain that runs into itself is
\* released once round: the second visit finds a free entry.
ChainFrom(fat, c) ==
  LET reach[n \in 0 .. Total] ==
        IF n = 0 THEN {c}
        ELSE reach[n - 1] \cup ({NextIn(fat, x) : x \in reach[n - 1]} \ {None})
  IN  reach[Total]

\* ClusterIterator::free from c.
Released(fat, c) == [x \in Clusters |-> IF x \in ChainFrom(fat, c) THEN Free ELSE fat[x]]

\* ClusterIterator::truncate at c: c ends the chain, the rest is released.
CutAfter(fat, c) ==
  [x \in Clusters |->
     IF x = c THEN EOC
     ELSE IF NextIn(fat, c) # None /\ x \in ChainFrom(fat, NextIn(fat, c)) THEN Free
     ELSE fat[x]]

\* alloc_cluster: the new cluster ends the chain of prev, or a chain of its own.
Extended(fat, prev, new) ==
  [x \in Clusters |-> IF x = new THEN EOC ELSE IF x = prev THEN new ELSE fat[x]]
=============================================================================

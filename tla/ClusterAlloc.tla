---------------------------- MODULE ClusterAlloc ----------------------------
(***************************************************************************)
(* Allocation and release of clusters: FileSystem::alloc_cluster,          *)
(* truncate_cluster_chain, free_cluster_chain and stats (fatrs/src/fs.rs)  *)
(* over alloc_cluster and ClusterIterator (fatrs/src/table.rs), with the   *)
(* free-cluster bitmap (fatrs/src/cluster_bitmap.rs, feature               *)
(* cluster-bitmap) and the counters of FsInfoSector.                       *)
(*                                                                         *)
(* A task of a single-threaded executor gives way at every .await, so each *)
(* read or write of a FAT entry is a step of its own, those of the search  *)
(* for a free entry included.  FAT16 and FAT32 write an entry whole.       *)
(* FAT12 (Packed) reads the 16-bit word that holds the entry and half of   *)
(* its neighbour, gives way, and writes both back: another operation can   *)
(* come between.  A seek of the disk and the access that follows it        *)
(* (FsIoAdapter takes the disk once for each) are one step: another task's *)
(* seek between the two is not modelled.  Each file is used by one task at *)
(* a time (what an exclusive file lock gives).  An I/O error leaves the    *)
(* FAT entry unchanged: write_cached fails while it loads a sector or      *)
(* evicts another, before it changes the bytes.  Zeroing the data of a     *)
(* directory cluster is left out.                                          *)
(***************************************************************************)
EXTENDS FatTable, Sequences, FiniteSets

CONSTANTS
  Files,         \* files, each with the task that works on it
  Packed,        \* FAT12: an entry shares a byte with its neighbour
  Builds,        \* whether the feature cluster-bitmap is on: the builds considered
  CountKnown,    \* FSInfo had a valid free cluster count at mount
  CountMod,      \* the free count is a machine integer (2^32)
  MaxBusy,       \* how many operations run at once
  MaxAllocators, \* how many of them allocate
  MaxOps,        \* bound: operations in a behaviour
  MaxReadFaults, \* bound: failed reads of the FAT
  MaxWriteFaults \* bound: failed writes of the FAT

ASSUME ClusterAllocAssumption ==
  /\ IsFiniteSet(Files) /\ Total \in Nat \ {0} /\ CountMod \in Nat /\ CountMod > Total
  /\ Packed \in BOOLEAN /\ Builds \subseteq BOOLEAN /\ CountKnown \in BOOLEAN
  /\ MaxBusy \in Nat \ {0} /\ MaxAllocators \in Nat \ {0} /\ MaxOps \in Nat
  /\ MaxReadFaults \in Nat /\ MaxWriteFaults \in Nat

VARIABLES
  fat,       \* the allocation table
  marked,    \* ClusterBitmap: the clusters its bits (0 .. Total - 1) show as free
  count,     \* FsInfoSector.free_cluster_count, or -1 when unknown
  next,      \* FsInfoSector.next_free_cluster
  gen,       \* FileSystem.cluster_generation
  chain,     \* the clusters of each file, as its handle and directory entry have them
  op,        \* the operation in progress on each file
  word,      \* FAT12: the neighbour's entry as an operation read it, to write it back
  since,     \* history: the clusters that became free since a search began
  recount,   \* the result of a count in progress in stats(), or -1
  ops, readFaults, writeFaults

faultVars == <<readFaults, writeFaults>>
vars == <<fat, marked, count, next, gen, chain, op, word, since, recount, ops,
          readFaults, writeFaults>>

-----------------------------------------------------------------------------
\* The locals of an operation: where it is, the position of its iterator and
\* whether that has failed, the cluster to write next, the clusters freed, the
\* clusters collected for the bitmap, the length a truncation keeps - for a
\* search, the cluster it started from.
Idle == [pc |-> "idle", at |-> None, err |-> FALSE, target |-> None,
         freed |-> 0, batch |-> {}, keep |-> 0]

Busy == {f \in Files : op[f].pc # "idle"}
Running == Cardinality(Busy) + (IF recount = -1 THEN 0 ELSE 1)
Searching == {"scan", "rescan"}
Allocating == {f \in Files : op[f].pc \in Searching \cup {"mark", "link", "bit", "count"}}
FreeClusters == FreeIn(fat)
UseBitmap == marked # {}   \* bit 0 stands for no cluster and is always free
ClustersOf(f) == {chain[f][i] : i \in 1 .. Len(chain[f])}
Last(s) == s[Len(s)]
Lowest(S) == CHOOSE x \in S : \A y \in S : x <= y

Unread == -1
Entries == Clusters \cup {Free, EOC}

\* FAT12: the entry whose byte the entry of c shares.
Beside(c) == IF c % 2 = 0 THEN c + 1 ELSE c - 1

\* The entry that the operation on f is about to write.
Writing == {"mark", "link", "teoc", "ffree"}
EntryOf(f) ==
  IF op[f].pc = "link" THEN Last(chain[f])
  ELSE IF op[f].pc = "teoc" THEN chain[f][op[f].keep] ELSE op[f].target

\* The tables that a write of v to the entry of c can leave: a neighbour that
\* has changed since the word was read is half of what it was and half of what
\* it is, which can be any entry.
Written(f, c, v) ==
  IF Packed /\ Beside(c) \in Clusters /\ fat[Beside(c)] # word[f]
  THEN {[fat EXCEPT ![c] = v, ![Beside(c)] = w] : w \in Entries}
  ELSE {[fat EXCEPT ![c] = v]}

\* FatTrait::set_raw, its last step.
Put(f, c, v) ==
  /\ Packed => word[f] # Unread
  /\ fat' \in Written(f, c, v)
  /\ word' = [word EXCEPT ![f] = Unread]

\* The history of the searches.
Remember ==
  since' = [f \in Files |-> IF op'[f].pc \in Searching
                            THEN since[f] \cup (FreeIn(fat') \ FreeClusters) ELSE {}]

\* Mutant: the iterator does not move.
MutNextOf(c) == IF fat[c] \in Clusters THEN c ELSE None

NextOf(c) == NextIn(fat, c)

Init ==
  /\ fat = [c \in Clusters |-> Free]
  /\ \E on \in Builds : marked = IF on THEN 0 .. Total - 1 ELSE {}
  /\ count = IF CountKnown THEN Total ELSE -1
  /\ next = Reserved
  /\ gen = 0
  /\ chain = [f \in Files |-> <<>>]
  /\ op = [f \in Files |-> Idle]
  /\ word = [f \in Files |-> Unread] /\ since = [f \in Files |-> {}]
  /\ recount = -1
  /\ ops = 0 /\ readFaults = 0 /\ writeFaults = 0

CanStart(f) ==
  /\ op[f] = Idle
  /\ ops < MaxOps
  /\ Running < MaxBusy
  /\ ops' = ops + 1

\* map_free_clusters: nothing happens while the count is unknown.
MapCount(delta) == IF count = -1 THEN -1 ELSE (count + delta) % CountMod

-----------------------------------------------------------------------------
(* Allocation: File::write at the end of the chain.                        *)

\* ClusterBitmap::find_free: from the hint up, then from 0.  Bits 0 and 1 stand
\* for no cluster and are always free, so the answer is never "full".
BitmapHint ==
  LET up == {c \in marked : c >= next}
  IN  Lowest(IF up # {} THEN up ELSE marked)

\* alloc_cluster starts at the hint if that is a cluster.
SearchStart ==
  LET hint == IF UseBitmap THEN BitmapHint ELSE next
  IN  IF hint < Total + Reserved THEN hint ELSE Reserved

StartAppend(f) ==
  /\ CanStart(f)
  /\ Cardinality(Allocating) < MaxAllocators
  /\ op' = [op EXCEPT ![f] = [Idle EXCEPT !.pc = "scan", !.at = SearchStart,
                                          !.keep = SearchStart]]
  /\ UNCHANGED <<fat, word, marked, count, next, gen, chain, recount, faultVars>>

\* Mutant: no second search below the hint.
MutNextSearch(f) == Idle

\* alloc_cluster searches below its start when the search above it returns an
\* error: a full table or a failed read.
NextSearch(f) ==
  IF op[f].pc = "scan" /\ op[f].keep > Reserved
  THEN [op[f] EXCEPT !.pc = "rescan", !.at = Reserved] ELSE Idle

SearchEnd(f) == IF op[f].pc = "scan" THEN Total + Reserved ELSE op[f].keep

\* Mutant: the entry at the hint is taken as it is.
MutScan(f) ==
  /\ op[f].pc \in Searching
  /\ op' = [op EXCEPT ![f] = [Idle EXCEPT !.pc = "mark", !.target = op[f].at]]
  /\ UNCHANGED <<fat, marked, count, next, gen, chain, word, recount, ops, faultVars>>

\* find_free reads one entry.  Entries 0 and 1, where a hint of the bitmap can
\* point, hold the media type and an end of chain and are never free.
Scan(f) ==
  /\ op[f].pc \in Searching
  /\ \/ /\ op[f].at \in FreeClusters
        /\ op' = [op EXCEPT ![f] = [Idle EXCEPT !.pc = "mark", !.target = op[f].at]]
     \/ /\ op[f].at \notin FreeClusters
        /\ op' = [op EXCEPT ![f] = IF op[f].at + 1 < SearchEnd(f)
                                   THEN [op[f] EXCEPT !.at = @ + 1] ELSE NextSearch(f)]
  /\ UNCHANGED <<fat, word, marked, count, next, gen, chain, recount, ops, faultVars>>

ScanFails(f) ==
  /\ op[f].pc \in Searching
  /\ readFaults < MaxReadFaults
  /\ readFaults' = readFaults + 1
  /\ op' = [op EXCEPT ![f] = NextSearch(f)]
  /\ UNCHANGED <<fat, word, marked, count, next, gen, chain, recount, ops, writeFaults>>

\* FAT12: set_raw reads the word that the entry shares with its neighbour.
ReadWord(f) ==
  /\ Packed /\ op[f].pc \in Writing /\ word[f] = Unread
  /\ LET c == Beside(EntryOf(f))
     IN  word' = [word EXCEPT ![f] = IF c \in Clusters THEN fat[c] ELSE Free]
  /\ UNCHANGED <<fat, marked, count, next, gen, chain, op, recount, ops, faultVars>>

AfterLink == IF UseBitmap THEN "bit" ELSE "count"

\* The new cluster becomes an end of chain before anything points to it.
MarkNew(f) ==
  /\ op[f].pc = "mark"
  /\ Put(f, op[f].target, EOC)
  /\ op' = [op EXCEPT ![f].pc = IF chain[f] = <<>> THEN AfterLink ELSE "link"]
  /\ UNCHANGED <<marked, count, next, gen, chain, recount, ops, faultVars>>

LinkPrevious(f) ==
  /\ op[f].pc = "link"
  /\ Put(f, Last(chain[f]), op[f].target)
  /\ op' = [op EXCEPT ![f].pc = AfterLink]
  /\ UNCHANGED <<marked, count, next, gen, chain, recount, ops, faultVars>>

\* Mutant: the bit of the new cluster stays free.
MutSetAllocated(f) ==
  /\ op[f].pc = "bit"
  /\ op' = [op EXCEPT ![f].pc = "count"]
  /\ UNCHANGED <<fat, word, marked, count, next, gen, chain, recount, ops, faultVars>>

SetAllocated(f) ==
  /\ op[f].pc = "bit"
  /\ marked' = marked \ {op[f].target}
  /\ op' = [op EXCEPT ![f].pc = "count"]
  /\ UNCHANGED <<fat, word, count, next, gen, chain, recount, ops, faultVars>>

\* Mutant: the hint skips a cluster.
MutFinishAppend(f) ==
  /\ op[f].pc = "count"
  /\ next' = op[f].target + 2
  /\ count' = MapCount(-1)
  /\ chain' = [chain EXCEPT ![f] = Append(@, op[f].target)]
  /\ op' = [op EXCEPT ![f] = Idle]
  /\ UNCHANGED <<fat, word, marked, gen, recount, ops, faultVars>>

\* FsInfo is updated and the cluster returned to the file.
FinishAppend(f) ==
  /\ op[f].pc = "count"
  /\ next' = op[f].target + 1
  /\ count' = MapCount(-1)
  /\ chain' = [chain EXCEPT ![f] = Append(@, op[f].target)]
  /\ op' = [op EXCEPT ![f] = Idle]
  /\ UNCHANGED <<fat, word, marked, gen, recount, ops, faultVars>>

-----------------------------------------------------------------------------
(* Truncation keeps the first k clusters; the iterator starts at the k-th. *)

StartTruncate(f, k) ==
  /\ CanStart(f)
  /\ k \in 1 .. Len(chain[f])
  /\ op' = [op EXCEPT ![f] = [Idle EXCEPT !.pc = "tnext", !.at = chain[f][k], !.keep = k]]
  /\ UNCHANGED <<fat, word, marked, count, next, gen, chain, recount, faultVars>>

TruncateNext(f) ==
  /\ op[f].pc = "tnext"
  /\ op' = [op EXCEPT ![f].pc = "teoc", ![f].at = NextOf(@)]
  /\ UNCHANGED <<fat, word, marked, count, next, gen, chain, recount, ops, faultVars>>

\* Mutant: the kept cluster goes on pointing to the first released one.
MutTruncateEnd(f) ==
  /\ op[f].pc = "teoc"
  /\ chain' = [chain EXCEPT ![f] = SubSeq(@, 1, op[f].keep)]
  /\ op' = [op EXCEPT ![f].pc = "fnext"]
  /\ word' = [word EXCEPT ![f] = Unread]
  /\ UNCHANGED <<fat, marked, count, next, gen, recount, ops, faultVars>>

TruncateEnd(f) ==
  /\ op[f].pc = "teoc"
  /\ Put(f, chain[f][op[f].keep], EOC)
  /\ chain' = [chain EXCEPT ![f] = SubSeq(@, 1, op[f].keep)]
  /\ op' = [op EXCEPT ![f].pc = "fnext"]
  /\ UNCHANGED <<marked, count, next, gen, recount, ops, faultVars>>

\* truncate_cluster_chain adds to the count; neither the bitmap nor the
\* generation change.
FinishTruncate(f) ==
  /\ op[f].pc = "tcount"
  /\ count' = MapCount(op[f].freed)
  /\ op' = [op EXCEPT ![f] = Idle]
  /\ UNCHANGED <<fat, word, marked, next, gen, chain, recount, ops, faultVars>>

-----------------------------------------------------------------------------
(* Release of a whole chain: Dir::remove, and File::truncate at offset 0.   *)

StartRelease(f) ==
  /\ CanStart(f)
  /\ chain[f] # <<>>
  /\ chain' = [chain EXCEPT ![f] = <<>>]
  /\ op' = [op EXCEPT ![f] =
              [Idle EXCEPT !.pc = IF UseBitmap THEN "collect" ELSE "fnext",
                           !.at = chain[f][1], !.target = chain[f][1]]]
  /\ UNCHANGED <<fat, word, marked, count, next, gen, recount, faultVars>>

\* ClusterIterator::next yields the clusters after the first one: that is what
\* the bitmap will learn of.
Collect(f) ==
  /\ op[f].pc = "collect"
  /\ LET n == NextOf(op[f].at)
     IN  \/ n = None /\ op' = [op EXCEPT ![f].pc = "fnext", ![f].at = op[f].target]
         \/ n # None /\ op' = [op EXCEPT ![f].at = n, ![f].batch = @ \cup {n}]
  /\ UNCHANGED <<fat, word, marked, count, next, gen, chain, recount, ops, faultVars>>

\* Mutant: forget where a released chain goes on.
MutFreeNext(f) ==
  /\ op[f].pc = "fnext" /\ op[f].at # None
  /\ op' = [op EXCEPT ![f].pc = "ffree", ![f].target = op[f].at, ![f].at = None]
  /\ UNCHANGED <<fat, word, marked, count, next, gen, chain, recount, ops, faultVars>>

\* ClusterIterator::free: step to the next cluster, then write the one left.
\* After a failed read next() returns at once and the position stays.
FreeNext(f) ==
  /\ op[f].pc = "fnext" /\ op[f].at # None
  /\ op' = [op EXCEPT ![f].pc = "ffree", ![f].target = op[f].at,
                      ![f].at = IF op[f].err THEN @ ELSE NextOf(@)]
  /\ UNCHANGED <<fat, word, marked, count, next, gen, chain, recount, ops, faultVars>>

\* A file that is cut knows the length it keeps; a released one keeps nothing.
FreeWrite(f) ==
  /\ op[f].pc = "ffree"
  /\ Put(f, op[f].target, Free)
  /\ op' = [op EXCEPT ![f].pc = "fnext", ![f].freed = IF op[f].err THEN @ ELSE @ + 1]
  /\ UNCHANGED <<marked, count, next, gen, chain, recount, ops, faultVars>>

FreeEnd(f) ==
  /\ op[f].pc = "fnext" /\ op[f].at = None
  /\ op' = [op EXCEPT ![f].pc = IF op[f].keep > 0 THEN "tcount"
                                ELSE IF UseBitmap THEN "fbits" ELSE "fcount"]
  /\ UNCHANGED <<fat, word, marked, count, next, gen, chain, recount, ops, faultVars>>

SetFree(f) ==
  /\ op[f].pc = "fbits"
  /\ marked' = marked \cup {c \in op[f].batch : c < Total}
  /\ op' = [op EXCEPT ![f].pc = "fcount"]
  /\ UNCHANGED <<fat, word, count, next, gen, chain, recount, ops, faultVars>>

FinishRelease(f) ==
  /\ op[f].pc = "fcount"
  /\ count' = MapCount(op[f].freed)
  /\ gen' = gen + 1
  /\ op' = [op EXCEPT ![f] = Idle]
  /\ UNCHANGED <<fat, word, marked, next, chain, recount, ops, faultVars>>

-----------------------------------------------------------------------------
(* I/O errors.                                                             *)

\* `?` on a failed write, or on the read before it (FAT12, FAT32), returns from
\* the operation: nothing after it happens.
WriteFails(f) ==
  /\ op[f].pc \in {"mark", "link", "teoc", "ffree"}
  /\ writeFaults < MaxWriteFaults
  /\ writeFaults' = writeFaults + 1
  /\ op' = [op EXCEPT ![f] = Idle]
  /\ word' = [word EXCEPT ![f] = Unread]
  /\ UNCHANGED <<fat, marked, count, next, gen, chain, recount, ops, readFaults>>

\* truncate() and free() ignore the result of next(): the iterator stays on its
\* cluster, marked as failed, and they go on.
NextFails(f) ==
  /\ op[f].pc \in {"tnext", "fnext"} /\ op[f].at # None /\ ~op[f].err
  /\ readFaults < MaxReadFaults
  /\ readFaults' = readFaults + 1
  /\ op' = [op EXCEPT ![f].err = TRUE,
                      ![f].pc = IF @ = "tnext" THEN "teoc" ELSE "ffree",
                      ![f].target = op[f].at]
  /\ UNCHANGED <<fat, word, marked, count, next, gen, chain, recount, ops, writeFaults>>

\* The walk for the bitmap does return the error: the chain is not released.
CollectFails(f) ==
  /\ op[f].pc = "collect"
  /\ readFaults < MaxReadFaults
  /\ readFaults' = readFaults + 1
  /\ op' = [op EXCEPT ![f] = Idle]
  /\ UNCHANGED <<fat, word, marked, count, next, gen, chain, recount, ops, writeFaults>>

-----------------------------------------------------------------------------
(* FileSystem::stats counts the free entries when the count is unknown, and *)
(* stores the result after another .await.                                 *)

StartRecount ==
  /\ count = -1 /\ recount = -1
  /\ Running < MaxBusy
  /\ recount' = Cardinality(FreeClusters)
  /\ UNCHANGED <<fat, word, marked, count, next, gen, chain, op, ops, faultVars>>

FinishRecount ==
  /\ recount # -1
  /\ count' = recount
  /\ recount' = -1
  /\ UNCHANGED <<fat, word, marked, next, gen, chain, op, ops, faultVars>>

Step(f) ==
  \/ Scan(f) \/ ReadWord(f) \/ MarkNew(f) \/ LinkPrevious(f) \/ SetAllocated(f)
  \/ FinishAppend(f)
  \/ TruncateNext(f) \/ TruncateEnd(f) \/ FinishTruncate(f)
  \/ Collect(f) \/ FreeNext(f) \/ FreeWrite(f) \/ FreeEnd(f) \/ SetFree(f) \/ FinishRelease(f)

Fails(f) == ScanFails(f) \/ WriteFails(f) \/ NextFails(f) \/ CollectFails(f)

Start(f) ==
  \/ StartAppend(f)
  \/ \E k \in 1 .. Len(chain[f]) : StartTruncate(f, k)
  \/ StartRelease(f)

Next ==
  /\ \/ \E f \in Files : Start(f) \/ Step(f) \/ Fails(f)
     \/ StartRecount \/ FinishRecount
  /\ Remember

Spec == Init /\ [][Next]_vars

\* The executor runs every task that is ready.
FairSpec == Spec /\ \A f \in Files : WF_vars(Step(f) /\ Remember)

-----------------------------------------------------------------------------
Locals ==
  [pc : {"idle", "scan", "rescan", "mark", "link", "bit", "count", "tnext", "teoc", "tcount",
         "collect", "fnext", "ffree", "fbits", "fcount"},
   at : 0 .. Total + Reserved, err : BOOLEAN, target : Clusters \cup {None},
   freed : Nat, batch : SUBSET Clusters, keep : Nat]

TypeOK ==
  /\ fat \in [Clusters -> Entries]
  /\ marked \subseteq 0 .. Total - 1
  /\ count \in -1 .. CountMod - 1
  /\ next \in Reserved .. Total + Reserved
  /\ gen \in 0 .. MaxOps
  /\ chain \in [Files -> Seq(Clusters)]
  /\ op \in [Files -> Locals]
  /\ word \in [Files -> Entries \cup {Unread}] /\ since \in [Files -> SUBSET Clusters]
  /\ recount \in -1 .. Total
  /\ ops \in 0 .. MaxOps
  /\ readFaults \in 0 .. MaxReadFaults /\ writeFaults \in 0 .. MaxWriteFaults

\* The table holds, from the first cluster of a file, the clusters of that file
\* and an end of chain - at every step of every operation, those of other files
\* included, and after a failed write.  A truncation whose iterator has failed
\* is the exception (see IoErrorsEnd).
Intact(f) ==
  LET s == chain[f] IN
  /\ \A i \in 1 .. Len(s) - 1 : fat[s[i]] = s[i + 1]
  /\ s # <<>> => fat[Last(s)] \in {EOC} \cup (IF op[f].pc \in {"bit", "count"}
                                             THEN {op[f].target} ELSE {})
ChainsIntact == \A f \in Files : op[f].err \/ Intact(f)

\* No cluster belongs to two files, to one file twice, or to a file and to an
\* operation that is about to write its entry on behalf of another.
NotCrossLinked ==
  /\ \A f, g \in Files : f # g => ClustersOf(f) \cap ClustersOf(g) = {}
  /\ \A f \in Files : Cardinality(ClustersOf(f)) = Len(chain[f])
  /\ \A f, g \in Files :
       op[f].pc \in {"mark", "ffree"} /\ ~op[f].err => op[f].target \notin ClustersOf(g)

Quiet == Busy = {} /\ recount = -1
NoFaults == readFaults = 0 /\ writeFaults = 0

\* Without I/O errors every allocated entry belongs to a file: alloc, truncate
\* and release lose no cluster, however they interleave.
NoSpaceLost ==
  Quiet /\ NoFaults => \A c \in Clusters : fat[c] # Free => \E f \in Files : c \in ClustersOf(f)

\* ... and the free count of FSInfo is the number of free entries.
FreeCountExact ==
  Quiet /\ NoFaults /\ count # -1 => count = Cardinality(FreeClusters)

\* When nothing runs, and no access failed, no cluster is lost and the free
\* count is exact (alloc_cluster, truncate_cluster_chain, free_cluster_chain).
QuietIsExact == NoSpaceLost /\ FreeCountExact

\* A bit shown as free is the bit of a free entry (bits 0 and 1 apart), so the
\* hint of the bitmap is never an occupied cluster.
HintIsFree ==
  Quiet /\ NoFaults => \A c \in marked \cap Clusters : fat[c] = Free

\* NotEnoughSpace: without failed reads, a search over the two ranges that ends
\* with nothing has missed only what became free after it began, wherever its
\* hint pointed and whatever was released behind it (find_free, entry by entry).
FullMeansFull ==
  [][\A f \in Files : op[f].pc \in Searching /\ op'[f] = Idle /\ readFaults' = 0
                      => FreeClusters \subseteq since[f]]_vars

\* Every operation ends, with a result or with an error, whatever the others do
\* meanwhile - except for an iterator that has failed (see IoErrorsEnd).
OperationsEnd == \A f \in Files : op[f] # Idle ~> op[f] = Idle \/ op[f].err

\* file.rs (truncate, "# Errors"): Error::Io is returned when the storage
\* returns an I/O error.  An operation that met one ends.
IoErrorsEnd == \A f \in Files : op[f].err ~> ~op[f].err
=============================================================================

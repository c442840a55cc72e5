----------------------------- MODULE DirHandles -----------------------------
(***************************************************************************)
(* Open files against the directory entries they cache.  A File            *)
(* (fatrs/src/file.rs) carries a DirEntryEditor (fatrs/src/dir_entry.rs):  *)
(* a copy of its 32-byte entry, the position it was read from and the      *)
(* value of FileSystem.cluster_generation at that time; it writes the copy *)
(* back to that position when the generation is still the same.            *)
(* Dir::remove and Dir::rename (fatrs/src/dir.rs) move and free what these *)
(* positions and cluster numbers refer to.                                 *)
(*                                                                         *)
(* Each operation is one step and its I/O succeeds (ClusterAlloc has the   *)
(* interleavings and the failures).  A file is written cluster by cluster, *)
(* on the path without multi-cluster-io; lengths and offsets are counted   *)
(* in clusters.  Every name takes one slot of one directory.               *)
(***************************************************************************)
EXTENDS FatTable, FiniteSets

CONSTANTS
  Handles,  \* File values a program may hold
  Names,
  NoName,   \* the name of a free entry
  Slots,    \* bound: 1 .. Slots are the entries of the directory
  MaxIds,   \* bound: files created in a behaviour
  MaxLen,   \* bound: clusters of a file
  MaxGen,   \* bound: releases in a behaviour
  Programs  \* what a program may do while files are open: sets of licences

\* free_while_open       clusters are released while another file is open
\* remove_nonempty_open  a file that has clusters is removed while it is open
\* remove_empty_open     a file that has none is
\* rename_open           a file is renamed while it is open
\* truncate_removed      a file that has lost its entry is truncated
Licences == {"free_while_open", "remove_nonempty_open", "remove_empty_open", "rename_open",
             "truncate_removed"}

\* Checked where the constants get their values.
DirHandlesAssumption ==
  /\ Total \in Nat \ {0} /\ Slots \in Nat \ {0}
  /\ MaxIds \in Nat /\ MaxLen \in Nat /\ MaxGen \in Nat
  /\ Programs \subseteq SUBSET Licences /\ NoName \notin Names

VARIABLES
  allowed, \* the licences of the program
  fat,     \* the allocation table
  data,    \* the file each cluster was last written for
  slots,   \* the entries on the volume
  handle,  \* the open files
  gen,     \* FileSystem.cluster_generation
  live,    \* files created and not removed
  ids      \* files created so far

vars == <<allowed, fat, data, slots, handle, gen, live, ids>>

-----------------------------------------------------------------------------
NoEntry == [id |-> 0, name |-> NoName, first |-> None, size |-> 0]
Closed == [id |-> 0, pos |-> 0, entry |-> NoEntry, dirty |-> FALSE, gen |-> 0,
           first |-> None, cur |-> None, off |-> 0, stale |-> FALSE]

Open == {h \in Handles : handle[h] # Closed}
Used == {s \in 1 .. Slots : slots[s] # NoEntry}
IsOpen(id) == \E h \in Open : handle[h].id = id
SlotOf(n) == {s \in Used : slots[s].name = n}
May(what) == what \in allowed

\* DirEntry::to_file: the cursor is before the first cluster.
ToFile(s, entry) ==
  [Closed EXCEPT !.id = entry.id, !.pos = s, !.entry = entry, !.gen = gen, !.first = entry.first]

Init ==
  /\ allowed \in Programs
  /\ fat = [c \in Clusters |-> Free]
  /\ data = [c \in Clusters |-> 0]
  /\ slots = [s \in 1 .. Slots |-> NoEntry]
  /\ handle = [h \in Handles |-> Closed]
  /\ gen = 0 /\ live = {} /\ ids = 0

-----------------------------------------------------------------------------
(* Entries.                                                                *)

\* Mutant: the search stops at the first deleted entry it has seen, used or not.
MutFreeSlots(entries) == {1}

FreeSlots(entries) == {s \in 1 .. Slots : entries[s] = NoEntry}

\* find_free_entries and write_entry: the first free slot.
Placed(entries, entry) ==
  LET s == CHOOSE s \in FreeSlots(entries) : \A t \in FreeSlots(entries) : s <= t
  IN  <<s, [entries EXCEPT ![s] = entry]>>

\* create_file of a name that is not there.
Create(h, n) ==
  /\ h \notin Open /\ SlotOf(n) = {} /\ FreeSlots(slots) # {} /\ ids < MaxIds
  /\ LET entry == [NoEntry EXCEPT !.id = ids + 1, !.name = n]
         placed == Placed(slots, entry)
     IN  /\ slots' = placed[2]
         /\ handle' = [handle EXCEPT ![h] = ToFile(placed[1], entry)]
  /\ ids' = ids + 1
  /\ live' = live \cup {ids + 1}
  /\ UNCHANGED <<fat, data, gen>>

\* open_file, and create_file of a name that is there.  One File per file: what
\* an exclusive lock gives.
OpenFile(h, n) ==
  /\ h \notin Open
  /\ \E s \in SlotOf(n) :
       /\ ~IsOpen(slots[s].id)
       /\ handle' = [handle EXCEPT ![h] = ToFile(s, slots[s])]
  /\ UNCHANGED <<fat, data, slots, gen, live, ids>>

\* remove: the entry, then the clusters it names.  Only a release moves the
\* generation.
Remove(n) ==
  \E s \in SlotOf(n) :
    LET e == slots[s] IN
    /\ IsOpen(e.id) => May(IF e.first = None THEN "remove_empty_open" ELSE "remove_nonempty_open")
    /\ slots' = [slots EXCEPT ![s] = NoEntry]
    /\ live' = live \ {e.id}
    /\ IF e.first = None THEN UNCHANGED <<fat, gen>>
       ELSE /\ gen < MaxGen
            /\ Open # {} => May("free_while_open")
            /\ fat' = Released(fat, e.first)
            /\ gen' = gen + 1
    /\ UNCHANGED <<data, handle, ids>>

\* rename_internal: the source is deleted, then the entry is written under its new
\* name to the first free slot.
Rename(n, m) ==
  /\ SlotOf(m) = {}
  /\ \E s \in SlotOf(n) :
       /\ IsOpen(slots[s].id) => May("rename_open")
       /\ slots' = Placed([slots EXCEPT ![s] = NoEntry], [slots[s] EXCEPT !.name = m])[2]
  /\ UNCHANGED <<fat, data, handle, gen, live, ids>>

-----------------------------------------------------------------------------
(* Files.                                                                  *)

\* DirEntryEditor::write compares generations.
IsCurrent(f, g) == f.gen = g

\* DirEntryEditor::flush: the entries, and the file, afterwards.
FlushedSlots(f) ==
  IF f.dirty /\ IsCurrent(f, gen) THEN [slots EXCEPT ![f.pos] = f.entry] ELSE slots
FlushedFile(f) ==
  IF f.dirty /\ ~IsCurrent(f, gen) THEN [f EXCEPT !.stale = TRUE] \* StaleDirectoryEntry
  ELSE [f EXCEPT !.dirty = FALSE]

\* The entry of f with another first cluster or size, and whether that dirties it.
Edited(f, first, size) ==
  LET e == [f.entry EXCEPT !.first = first, !.size = size]
  IN  [f EXCEPT !.entry = e, !.dirty = @ \/ e # f.entry]

\* update_dir_entry_after_write: a write past the end extends the file.
SizeAfter(f, end) == IF end > f.entry.size THEN end ELSE f.entry.size

\* The bytes go to cluster c; then the cursor moves and the entry is flushed.  The
\* time stamp dirties the entry when the clock has moved since the last one.
WriteTo(h, c) ==
  LET f == handle[h]
      end == f.off + 1
      g == Edited(f, IF f.first = None THEN c ELSE f.entry.first, SizeAfter(f, end))
  IN  \E clockMoved \in BOOLEAN :
        LET w == [g EXCEPT !.off = end, !.cur = c, !.dirty = @ \/ clockMoved,
                           !.first = IF @ = None THEN c ELSE @]
        IN  /\ data' = [data EXCEPT ![c] = f.id]
            /\ slots' = FlushedSlots(w)
            /\ handle' = [handle EXCEPT ![h] = FlushedFile(w)]

\* Mutant: at the start of a file that has clusters, a new one is taken.
MutClusterToWrite(f) == IF f.cur = None THEN None ELSE NextIn(fat, f.cur)

\* At a cluster boundary: the next cluster of the chain, None at its end.
ClusterToWrite(f) == IF f.cur = None THEN f.first ELSE NextIn(fat, f.cur)

\* write: a new cluster may be any free one (ClusterAlloc has the search for it).
FileWrite(h) ==
  /\ h \in Open /\ handle[h].off < MaxLen
  /\ LET f == handle[h]
         c == ClusterToWrite(f)
     IN  IF c # None THEN WriteTo(h, c) /\ UNCHANGED fat
         ELSE \E new \in FreeIn(fat) :
                fat' = Extended(fat, f.cur, new) /\ WriteTo(h, new)
  /\ UNCHANGED <<gen, live, ids>>

ClustersToSkip(n) == n - 1

\* seek to n: walk from the first cluster, stop where the chain ends.
Seek(h, n) ==
  /\ h \in Open
  /\ LET f == handle[h]
         reached == {k \in 0 .. ClustersToSkip(n) : Walk(fat, f.first, k) # None}
         last == CHOOSE k \in reached : \A j \in reached : j <= k
     IN  /\ n \in 0 .. f.entry.size \ {f.off}
         /\ handle' = [handle EXCEPT ![h] =
              IF n = 0 \/ f.first = None THEN [f EXCEPT !.off = 0, !.cur = None]
              ELSE [f EXCEPT !.off = IF last = ClustersToSkip(n) THEN n ELSE last + 1,
                             !.cur = Walk(fat, f.first, last)]]
  /\ UNCHANGED <<fat, data, slots, gen, live, ids>>

\* Mutant: the file keeps the first cluster it has released.
MutContextFirst(f) == f.first

\* truncate clears the first cluster at offset 0 only.
ContextFirst(f) == IF f.cur = None THEN None ELSE f.first

\* Mutant: no refresh_generation.
MutRefreshed(f, g) == f

Refreshed(f, g) == [f EXCEPT !.gen = g]

\* truncate: the entry is edited, not flushed.  Only a release from offset 0 moves
\* the generation; the file takes the present one either way.
Truncate(h) ==
  /\ h \in Open
  /\ LET f == handle[h]
         t == Edited(f, IF f.off = 0 THEN None ELSE f.entry.first, f.off)
         frees == f.cur = None /\ f.first # None
     IN  /\ slots[f.pos].id # f.id => May("truncate_removed")
         /\ frees => gen < MaxGen /\ (Open # {h} => May("free_while_open"))
         /\ fat' = IF f.cur # None THEN CutAfter(fat, f.cur)
                   ELSE IF frees THEN Released(fat, f.first) ELSE fat
         /\ gen' = IF frees THEN gen + 1 ELSE gen
         /\ handle' = [handle EXCEPT ![h] = Refreshed([t EXCEPT !.first = ContextFirst(f)], gen')]
  /\ UNCHANGED <<data, slots, live, ids>>

Flush(h) ==
  /\ h \in Open
  /\ slots' = FlushedSlots(handle[h])
  /\ handle' = [handle EXCEPT ![h] = FlushedFile(@)]
  /\ UNCHANGED <<fat, data, gen, live, ids>>

\* close, or drop: after a flush, or giving up after a refused one.
Close(h) ==
  /\ h \in Open /\ (~handle[h].dirty \/ handle[h].stale)
  /\ handle' = [handle EXCEPT ![h] = Closed]
  /\ UNCHANGED <<fat, data, slots, gen, live, ids>>

Next ==
  /\ \/ \E h \in Handles : \/ \E n \in Names : Create(h, n) \/ OpenFile(h, n)
                           \/ FileWrite(h) \/ Truncate(h) \/ Flush(h) \/ Close(h)
                           \/ \E n \in 0 .. MaxLen : Seek(h, n)
     \/ \E n \in Names : Remove(n) \/ \E m \in Names : Rename(n, m)
  /\ UNCHANGED allowed

Spec == Init /\ [][Next]_vars

-----------------------------------------------------------------------------
EntryType == [id : 0 .. MaxIds, name : Names \cup {NoName},
              first : Clusters \cup {None}, size : 0 .. MaxLen]

TypeOK ==
  /\ fat \in [Clusters -> Clusters \cup {Free, EOC}]
  /\ data \in [Clusters -> 0 .. MaxIds]
  /\ slots \in [1 .. Slots -> EntryType]
  /\ handle \in [Handles -> [id : 0 .. MaxIds, pos : 0 .. Slots, entry : EntryType,
                             dirty : BOOLEAN, gen : 0 .. MaxGen,
                             first : Clusters \cup {None}, cur : Clusters \cup {None},
                             off : 0 .. MaxLen, stale : BOOLEAN]]
  /\ gen \in 0 .. MaxGen
  /\ live \subseteq 1 .. MaxIds
  /\ ids \in 0 .. MaxIds

\* Nothing moves an entry of an open file without moving the generation (such a
\* file is not renamed, nor removed while it is empty), and no file takes the
\* present generation for an entry it has lost: truncate refreshes it unasked.
EntriesStay == allowed \cap {"remove_empty_open", "rename_open", "truncate_removed"} = {}

\* The generation check of DirEntryEditor::write: in a program without those
\* three, no operation on one file writes over, renames or resurrects another,
\* even if files with clusters are removed while they are open and written or
\* flushed afterwards: the entries of the directory are those of the files
\* created and not removed, one each, under different names.
EntriesIntact ==
  EntriesStay =>
    /\ {slots[s].id : s \in Used} = live
    /\ \A s, t \in Used : s # t => slots[s].id # slots[t].id /\ slots[s].name # slots[t].name

\* The entry of a file: what its dirty editor is about to write, else what is on the
\* volume.
View(s) ==
  IF \E h \in Open : handle[h].id = slots[s].id
  THEN handle[CHOOSE h \in Open : handle[h].id = slots[s].id].entry
  ELSE slots[s]

ChainOf(e) == IF e.first = None THEN {} ELSE ChainFrom(fat, e.first)

\* A program that removes and renames no open file, and releases nothing while
\* another is open.
Careful == allowed = {}

\* For a careful program a file of n clusters has a chain of n allocated
\* clusters, no other file has any of them, and every allocated cluster belongs
\* to a file.
ChainsMatchSizes ==
  Careful =>
    /\ \A s \in Used : /\ Cardinality(ChainOf(View(s))) = View(s).size
                       /\ \A c \in ChainOf(View(s)) : fat[c] # Free
    /\ \A s, t \in Used : s # t => ChainOf(View(s)) \cap ChainOf(View(t)) = {}
    /\ \A c \in Clusters : fat[c] # Free => \E s \in Used : c \in ChainOf(View(s))

\* ... and what it holds was written for it.
DataIntact == Careful => \A s \in Used : \A c \in ChainOf(View(s)) : data[c] = slots[s].id

\* error.rs:36: StaleDirectoryEntry says that the position of the entry is stale.
\* When nothing is released under it, a file whose entry is where it was is never
\* refused.
RefusedWhenStale ==
  ~May("free_while_open") =>
    \A h \in Handles : ~handle[h].stale /\ handle'[h].stale
                       => slots[handle[h].pos].id # handle[h].id
StaleOnlyWhenStale == [][RefusedWhenStale]_vars
=============================================================================

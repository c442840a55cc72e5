----------------------------- MODULE DirUpdates -----------------------------
(***************************************************************************)
(* Updates of a volume as the disk sees them: create_file, create_dir,     *)
(* remove and rename of Dir (fatrs/src/dir.rs), the first write to a file  *)
(* and its truncation (fatrs/src/file.rs), flush and the dirty flag        *)
(* (fatrs/src/fs.rs), with the power lost between any two disk writes and  *)
(* a mount afterwards.                                                     *)
(*                                                                         *)
(* Entries are written to the disk at once.  The table is written at once  *)
(* or, with the feature fat-cache, when its sector is evicted or flushed.  *)
(* The directory is the root: of FAT12 or FAT16, a region of fixed size    *)
(* written through FsIoAdapter, which marks the volume dirty after a       *)
(* write; of FAT32, a file, which marks it before, and which has room.     *)
(* Files have at most one cluster.  A long name takes an entry before the  *)
(* short one.  The data of files and the entries "." and ".." are left     *)
(* out; I/O succeeds until the power goes.                                 *)
(***************************************************************************)
EXTENDS Integers, FiniteSets

CONSTANTS
  Tasks,
  Names,        \* valid names
  Length,       \* name -> entries it takes, the long-name ones included
  BadName,      \* a name validate_long_name refuses
  Slots,        \* bound: 1 .. Slots are the entries of the directory
  Total,        \* clusters
  Programs,     \* sets of operations that programs use
  MaxBusy,      \* bound: tasks at work at once
  MaxOps,       \* bound: operations in a behaviour
  MaxCrashes    \* bound: losses of power

None == 0
Clusters == 1 .. Total
Slot == 1 .. Slots
Operations == {"create", "mkdir", "append", "truncate", "remove", "rename", "flush"}

\* Checked where the constants get their values.
DirUpdatesAssumption ==
  /\ Slots \in Nat /\ Total \in Nat /\ MaxBusy \in Nat /\ MaxOps \in Nat /\ MaxCrashes \in Nat
  /\ BadName \notin Names /\ Length \in [Names -> 1 .. Slots]
  /\ Programs \subseteq SUBSET Operations

VARIABLES
  program,  \* the operations of this behaviour
  fat32,    \* FAT32, or FAT12 and FAT16
  cached,   \* the build has fat-cache
  slots,    \* the entries on the disk
  fatDisk,  \* the clusters allocated in the table on the disk
  fatMem,   \* the same, the cache included
  flagDisk, \* the dirty flag in the boot sector
  flagMem,  \* current_status_flags
  infoDisk, \* free_cluster_count of the FSInfo sector
  count,    \* FsInfoSector.free_cluster_count, -1 when unknown
  infoDirty, \* FsInfoSector.dirty
  task,     \* the operations in progress
  live,     \* the files there should be
  damaged,  \* an operation has failed half way or been cut, or a mount found the flag set
  unmarked, \* power has been lost between a write and the mark it was due
  cleared,  \* a flush has taken the mark from a damaged volume
  ops, crashes

confVars == <<program, fat32, cached>>
vars == <<confVars, slots, fatDisk, fatMem, flagDisk, flagMem, infoDisk, count,
          infoDirty, task, live, damaged, unmarked, cleared, ops, crashes>>

-----------------------------------------------------------------------------
FreeEntry == [kind |-> "free", id |-> 0, name |-> BadName, first |-> None]
LongEntry(id) == [FreeEntry EXCEPT !.kind = "long", !.id = id]
Entry(id, n, c) == [kind |-> "short", id |-> id, name |-> n, first |-> c]

\* The locals of an operation: the entry to write and where, the range of the entry to
\* delete, whether the dirty flag is due.
Idle == [op |-> "none", pc |-> "idle", entry |-> FreeEntry, at |-> 0, end |-> 0, to |-> BadName,
         due |-> FALSE]

Busy == {t \in Tasks : task[t] # Idle}
Files == {s \in Slot : slots[s].kind = "short"}
FreeCount(allocated) == Cardinality(Clusters \ allocated)

Init ==
  /\ program \in Programs
  /\ fat32 \in BOOLEAN /\ cached \in BOOLEAN
  /\ slots = [s \in Slot |-> FreeEntry]
  /\ fatDisk = {} /\ fatMem = {}
  /\ flagDisk = FALSE /\ flagMem = FALSE
  /\ infoDisk = Total
  /\ count = IF fat32 THEN Total ELSE -1
  /\ infoDirty = FALSE
  /\ task = [t \in Tasks |-> Idle]
  /\ live = {} /\ damaged = FALSE /\ unmarked = FALSE /\ cleared = FALSE
  /\ ops = 0 /\ crashes = 0

\* The entries of the file whose short entry is at s, found under its long name.
RangeStart(s) == s - Length[slots[s].name] + 1
Found(n) ==
  {s \in Files : /\ slots[s].name = n
                 /\ \A r \in RangeStart(s) .. s - 1 : r \in Slot /\ slots[r] = LongEntry(slots[s].id)}

\* find_free_entries: the first run of k free entries, else the free entries at the end.
Runs(k) == {s \in Slot : s + k - 1 <= Slots /\ \A r \in s .. s + k - 1 : slots[r].kind = "free"}
Tail == CHOOSE s \in 1 .. Slots + 1 :
          /\ \A r \in s .. Slots : slots[r].kind = "free"
          /\ s = 1 \/ slots[s - 1].kind # "free"
FreePlace(k) == IF Runs(k) = {} THEN Tail ELSE CHOOSE s \in Runs(k) : \A r \in Runs(k) : s <= r

Unchanged == UNCHANGED <<confVars, infoDisk, unmarked, cleared, crashes>>

-----------------------------------------------------------------------------
(* Starting an operation: what is looked up first.                         *)

Begin(t, op, locals) ==
  /\ op \in program /\ task[t] = Idle /\ Cardinality(Busy) < MaxBusy /\ ops < MaxOps
  /\ ops' = ops + 1
  /\ task' = [task EXCEPT ![t] = [locals EXCEPT !.op = op]]
  /\ UNCHANGED <<slots, fatDisk, fatMem, flagDisk, flagMem, count, infoDirty, live, damaged>> /\ Unchanged

\* create_file and create_dir of a name that is not there; identifiers count operations.
\* validate_long_name refuses a name before anything is written, but after create_dir has
\* allocated the cluster.
Create(t, n) ==
  /\ Found(n) = {} /\ fat32 => Runs(Length[n]) # {}
  /\ Begin(t, "create", [Idle EXCEPT !.pc = "place", !.entry = Entry(ops + 1, n, None)])

CreateDir(t, n) ==
  /\ n \in Names => Found(n) = {} /\ (fat32 => Runs(Length[n]) # {})
  /\ Begin(t, "mkdir", [Idle EXCEPT !.pc = "alloc", !.entry = Entry(ops + 1, n, None)])

\* The first write to a file marks the volume dirty, then allocates.
Append(t, n) == \E s \in Found(n) :
  /\ slots[s].first = None
  /\ Begin(t, "append", [Idle EXCEPT !.pc = "alloc", !.entry = slots[s], !.at = s])

\* truncate to nothing, and flush of the file.
Truncate(t, n) == \E s \in Found(n) :
  /\ slots[s].first # None
  /\ Begin(t, "truncate", [Idle EXCEPT !.pc = "free", !.entry = slots[s], !.at = s])

Remove(t, n) == \E s \in Found(n) :
  Begin(t, "remove", [Idle EXCEPT !.pc = "delete", !.entry = slots[s], !.at = RangeStart(s), !.end = s])

\* rename: the new name is not looked at before the old entries are gone.
Rename(t, n, m) == \E s \in Found(n) :
  /\ m \in Names => Found(m) = {} /\ (fat32 => Runs(Length[m]) # {})
  /\ Begin(t, "rename", [Idle EXCEPT !.pc = "delete", !.entry = slots[s], !.at = RangeStart(s),
                                     !.end = s, !.to = m])

Flush(t) == Begin(t, "flush", [Idle EXCEPT !.pc = "table"])

-----------------------------------------------------------------------------
(* The dirty flag.                                                         *)

\* File::write marks the volume before it writes or allocates.
FileMarksFirst(t) ==
  \/ task[t].op = "append" /\ task[t].pc = "alloc"
  \/ fat32 /\ task[t].pc \in {"delete", "write"}

MustMark(t) == task[t].due \/ (FileMarksFirst(t) /\ ~flagMem)

\* set_dirty_flag(true).
SetDirty(t) ==
  /\ MustMark(t)
  /\ flagDisk' = TRUE /\ flagMem' = TRUE
  /\ task' = [task EXCEPT ![t].due = FALSE]
  /\ UNCHANGED <<slots, fatDisk, fatMem, count, infoDirty, live, damaged, ops>> /\ Unchanged

\* FsIoAdapter::write compares the flag after the write.
DueAfterWrite == ~flagMem

At(t, pc) == task[t].pc = pc /\ ~MustMark(t)

\* The table with other clusters allocated: on the disk too unless it is cached.
TableWrite(allocated) ==
  /\ fatMem' = allocated
  /\ fatDisk' = IF cached THEN fatDisk ELSE allocated
TableDue == ~cached /\ DueAfterWrite

\* A dirty sector is evicted while the table is in use.
Evict(t) ==
  /\ At(t, "alloc") \/ At(t, "free")
  /\ cached /\ fatDisk # fatMem
  /\ fatDisk' = fatMem
  /\ task' = [task EXCEPT ![t].due = DueAfterWrite]
  /\ UNCHANGED <<slots, fatMem, flagDisk, flagMem, count, infoDirty, live, damaged, ops>> /\ Unchanged

-----------------------------------------------------------------------------
(* The steps of the operations.                                            *)

Known(delta) == IF count = -1 THEN -1 ELSE count + delta

\* Mutant: the search reads the table past the cache.
MutFreeToTake == Clusters \ fatDisk

FreeToTake == Clusters \ fatMem

AfterAlloc(w) ==
  IF w.op = "append" THEN "update" ELSE IF w.entry.name \in Names THEN "place" ELSE "refused"

\* alloc_cluster; without a free cluster the operation fails and has changed nothing.
Alloc(t) ==
  /\ At(t, "alloc")
  /\ IF FreeToTake = {}
     THEN task' = [task EXCEPT ![t] = Idle] /\ UNCHANGED <<fatMem, fatDisk, count, infoDirty>>
     ELSE \E c \in FreeToTake :
            /\ TableWrite(fatMem \cup {c})
            /\ count' = Known(-1)
            /\ infoDirty' = TRUE      \* set_next_free_cluster
            /\ task' = [task EXCEPT ![t].entry.first = c, ![t].due = TableDue, ![t].pc = AfterAlloc(task[t])]
  /\ UNCHANGED <<slots, flagDisk, flagMem, live, damaged, ops>> /\ Unchanged

\* DirEntryEditor::write: in place, straight to the disk.
Update(t) ==
  /\ At(t, "update")
  /\ slots' = [slots EXCEPT ![task[t].at] = task[t].entry]
  /\ task' = [task EXCEPT ![t] = Idle]
  /\ UNCHANGED <<fatDisk, fatMem, flagDisk, flagMem, count, infoDirty, live, damaged, ops>> /\ Unchanged

\* find_free_entries.
Place(t) ==
  /\ At(t, "place")
  /\ LET e == task[t].entry
         s == FreePlace(Length[e.name])
     IN  task' = [task EXCEPT ![t].pc = "write", ![t].at = s, ![t].end = s + Length[e.name] - 1]
  /\ UNCHANGED <<slots, fatDisk, fatMem, flagDisk, flagMem, count, infoDirty, live, damaged, ops>> /\ Unchanged

\* write_entry: the long-name entries, then the short one.  Past the end of the root the
\* write returns nothing and the operation fails: what it has allocated, and a renamed
\* file, are lost.
WriteEntry(t) ==
  /\ At(t, "write")
  /\ LET w == task[t] IN
     IF w.at > Slots
     THEN /\ damaged' = TRUE
          /\ live' = IF w.op = "rename" THEN live \ {w.entry.id} ELSE live
          /\ task' = [task EXCEPT ![t] = Idle]
          /\ UNCHANGED slots
     ELSE /\ slots' = [slots EXCEPT ![w.at] = IF w.at = w.end THEN w.entry ELSE LongEntry(w.entry.id)]
          /\ live' = IF w.at = w.end THEN live \cup {w.entry.id} ELSE live
          /\ task' = [task EXCEPT ![t] = IF w.at < w.end THEN [w EXCEPT !.at = @ + 1, !.due = DueAfterWrite]
                                         ELSE [Idle EXCEPT !.op = w.op, !.pc = "end", !.due = DueAfterWrite]]
          /\ UNCHANGED damaged
  /\ UNCHANGED <<fatDisk, fatMem, flagDisk, flagMem, count, infoDirty, ops>> /\ Unchanged

\* Mutant: one entry too many is deleted.
MutAfterDeletion(w) ==
  IF w.at <= w.end /\ w.at < Slots THEN [w EXCEPT !.at = @ + 1]
  ELSE IF w.op = "rename"
  THEN IF w.to \in Names THEN [w EXCEPT !.pc = "place", !.entry.name = w.to] ELSE [w EXCEPT !.pc = "refused"]
  ELSE [w EXCEPT !.pc = IF w.entry.first = None THEN "end" ELSE "free"]

\* After the last entry is deleted: a rename checks the new name, a removal releases.
AfterDeletion(w) ==
  IF w.at < w.end THEN [w EXCEPT !.at = @ + 1]
  ELSE IF w.op = "rename"
  THEN IF w.to \in Names THEN [w EXCEPT !.pc = "place", !.entry.name = w.to] ELSE [w EXCEPT !.pc = "refused"]
  ELSE [w EXCEPT !.pc = IF w.entry.first = None THEN "end" ELSE "free"]

\* The entries are marked deleted one by one.
Delete(t) ==
  /\ At(t, "delete")
  /\ LET w == task[t] IN
     /\ slots' = [slots EXCEPT ![w.at] = FreeEntry]
     /\ live' = IF w.op = "remove" /\ w.at = w.end THEN live \ {w.entry.id} ELSE live
     /\ task' = [task EXCEPT ![t] = [AfterDeletion(w) EXCEPT !.due = DueAfterWrite]]
  /\ UNCHANGED <<fatDisk, fatMem, flagDisk, flagMem, count, infoDirty, damaged, ops>> /\ Unchanged

\* write_entry refuses the new name of a file whose entries are gone, or the name of a
\* directory that has its cluster.
Refused(t) ==
  /\ At(t, "refused")
  /\ live' = live \ {task[t].entry.id}
  /\ damaged' = TRUE
  /\ task' = [task EXCEPT ![t] = Idle]
  /\ UNCHANGED <<slots, fatDisk, fatMem, flagDisk, flagMem, count, infoDirty, ops>> /\ Unchanged

\* free_cluster_chain, then, in a truncation, the entry.
Free(t) ==
  /\ At(t, "free")
  /\ TableWrite(fatMem \ {task[t].entry.first})
  /\ count' = Known(1)
  /\ infoDirty' = (infoDirty \/ count # -1)
  /\ task' = [task EXCEPT ![t].entry.first = None, ![t].due = TableDue,
                          ![t].pc = IF task[t].op = "truncate" THEN "update" ELSE "end"]
  /\ UNCHANGED <<slots, flagDisk, flagMem, live, damaged, ops>> /\ Unchanged

End(t) ==
  /\ At(t, "end")
  /\ task' = [task EXCEPT ![t] = Idle]
  /\ UNCHANGED <<slots, fatDisk, fatMem, flagDisk, flagMem, count, infoDirty, live, damaged, ops>> /\ Unchanged

-----------------------------------------------------------------------------
(* flush, loss of power, mount.                                            *)

\* FatCache::flush.
FlushTable(t) ==
  /\ At(t, "table")
  /\ fatDisk' = fatMem
  /\ task' = [task EXCEPT ![t].pc = "info", ![t].due = fatDisk # fatMem /\ DueAfterWrite]
  /\ UNCHANGED <<slots, fatMem, flagDisk, flagMem, count, infoDirty, live, damaged, ops>> /\ Unchanged

\* Mutant: FSInfo is left for unmount.
MutInfoWritten == infoDisk

\* flush_fs_info: FAT32 only, and only what has changed since the mount.
InfoWritten == IF fat32 /\ infoDirty THEN count ELSE infoDisk

FlushInfo(t) ==
  /\ At(t, "info")
  /\ infoDisk' = InfoWritten
  /\ infoDirty' = FALSE
  /\ task' = [task EXCEPT ![t].pc = "clean"]
  /\ UNCHANGED <<confVars, slots, fatDisk, fatMem, flagDisk, flagMem, count, live, damaged, unmarked, cleared,
                 ops, crashes>>

\* set_dirty_flag(false).
SetClean(t) ==
  /\ At(t, "clean")
  /\ flagDisk' = IF flagMem THEN FALSE ELSE flagDisk
  /\ flagMem' = FALSE
  /\ cleared' = (cleared \/ (flagMem /\ damaged))
  /\ task' = [task EXCEPT ![t] = Idle]
  /\ UNCHANGED <<confVars, slots, fatDisk, fatMem, infoDisk, count, infoDirty, live, damaged, unmarked,
                 ops, crashes>>

\* Mutant: the count is trusted whatever the flag.
MutCountAtMount == IF fat32 THEN infoDisk ELSE -1

\* FileSystem::new: the count of a volume that is marked dirty is ignored.
CountAtMount == IF fat32 /\ ~flagDisk THEN infoDisk ELSE -1

\* Power is lost and the volume is mounted again.
Crash ==
  /\ crashes < MaxCrashes
  /\ crashes' = crashes + 1
  /\ fatMem' = fatDisk
  /\ flagMem' = flagDisk
  /\ count' = CountAtMount
  /\ infoDirty' = FALSE
  /\ task' = [t \in Tasks |-> Idle]
  /\ live' = {slots[s].id : s \in Files}
  /\ damaged' = (damaged \/ flagDisk \/ Busy # {} \/ fatMem # fatDisk)
  /\ unmarked' = (unmarked \/ \E t \in Tasks : task[t].due)
  /\ UNCHANGED <<confVars, slots, fatDisk, flagDisk, infoDisk, cleared, ops>>

Start(t) ==
  \/ Flush(t)
  \/ \E n \in Names \cup {BadName} : CreateDir(t, n)
  \/ \E n \in Names : \/ Create(t, n) \/ Append(t, n) \/ Truncate(t, n) \/ Remove(t, n)
                      \/ \E m \in Names \cup {BadName} : Rename(t, n, m)

Step(t) ==
  \/ SetDirty(t) \/ Evict(t) \/ Alloc(t) \/ Update(t) \/ Place(t) \/ WriteEntry(t) \/ Delete(t)
  \/ Refused(t) \/ Free(t) \/ End(t) \/ FlushTable(t) \/ FlushInfo(t) \/ SetClean(t)

Next == Crash \/ \E t \in Tasks : Start(t) \/ Step(t)

Spec == Init /\ [][Next]_vars

-----------------------------------------------------------------------------
TypeOK ==
  /\ slots \in [Slot -> [kind : {"free", "long", "short"}, id : 0 .. MaxOps, name : Names \cup {BadName},
                         first : Clusters \cup {None}]]
  /\ fatDisk \subseteq Clusters /\ fatMem \subseteq Clusters
  /\ flagDisk \in BOOLEAN /\ flagMem \in BOOLEAN
  /\ infoDisk \in -1 .. Total /\ count \in -1 .. Total
  /\ \A t \in Tasks : task[t].at \in 0 .. Slots + 1
  /\ live \subseteq 1 .. MaxOps /\ ops \in 0 .. MaxOps

BeingRenamed(id) == \E t \in Tasks : task[t].op = "rename" /\ task[t].entry.id = id

\* Each file that was made and not removed has one entry on the disk, at any time power may
\* go, but the one that is being renamed; and there are no other entries.
EntriesKept ==
  /\ {slots[s].id : s \in Files} \subseteq live
  /\ \A id \in live : BeingRenamed(id) \/ \E s \in Files : slots[s].id = id
  /\ \A r, s \in Files : r # s => slots[r].id # slots[s].id

OnDisk(f) == {slots[s].first : s \in f} \ {None}
Distinct == \A r, s \in Files : r # s /\ slots[r].first # None => slots[r].first # slots[s].first

\* No two files share a cluster and none has one that may be given to another, after losses
\* of power too when the table is not cached.  truncate releases the clusters of a file
\* before its entry is written.
NotShared ==
  (~cached \/ crashes = 0) /\ "truncate" \notin program => Distinct /\ OnDisk(Files) \subseteq fatMem

\* fs.rs:118: a volume that is not marked dirty needs no repair: what the entries name is what
\* the table has, and FSInfo counts the rest.  Said of what calls that were cut or failed have
\* left too, until a flush takes the mark away; and of truncate only where the table is not
\* cached: with fat-cache its entry is on the disk, unmarked, before the table is.  But for the
\* one write that is being marked, or was when the power went.
CleanIsConsistent ==
  /\ ~flagDisk /\ ~unmarked /\ ~cleared
  /\ \A t \in Tasks : ~task[t].due
  => /\ Distinct /\ OnDisk(Files) \subseteq fatDisk
     /\ "truncate" \notin program \/ ~cached => fatDisk \subseteq OnDisk(Files)
     /\ fat32 => infoDisk = FreeCount(fatDisk)

\* fs.rs:597: the count of a volume marked dirty is not trusted, that of any other is exact,
\* unless power was lost between a write and its mark, or again after a flush has marked clean
\* what was mounted dirty (and left FSInfo as it was, when nothing had been allocated).
CountRight ==
  count # -1 /\ ~unmarked /\ (~cleared \/ crashes <= 1) => count = FreeCount(fatMem)

\* dir.rs:774: rename reports what is wrong with the new name or place.  A file ceases to be
\* because it is removed.
OnlyRemovalLosesFiles ==
  [][\A id \in live \ live' :
       crashes' # crashes \/ \E t \in Tasks : task[t].op = "remove" /\ task[t].entry.id = id]_vars
=============================================================================

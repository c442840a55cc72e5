# Formal models of fatrs

fatrs is an asynchronous FAT12/16/32 file system in Rust (`src/fatrs`), with device
adapters (`src/fatrs-adapters`), a FUSE front end (`src/fatrs-fuse`), drivers and tools around
it. This directory holds TLA+ models of its stateful core, TLC configurations that check them
on small instances, and theorems checked by TLAPS. `PROJECT.json` maps every definition to the
lines it models and lists the runs, the theorems, the hazards and the mutants each property was
tried against.

    tlc -workers 2 -config Volume.cfg MCVolume
    tlapm VolumeProofs.tla

## 1. Inventory

The library runs on one executor thread (feature `send` aside). Shared state sits behind
`Shared` mutexes (`share.rs`) that are held for one access, not for an operation: a task
gives way at each `.await`, and the operations of several tasks interleave there.

| Component | State | Operations | Who uses it |
|---|---|---|---|
| Transaction log, `transaction.rs` | log sectors; `entries`, `sequence` | begin, write_intent, mark_in_progress, commit, clear, load | `with_transaction`, `FileSystem::new` (recovery) |
| Allocation table, `table.rs` | FAT entries, 12, 16 or 32 bits each | get, set, find_free, alloc_cluster, `ClusterIterator` next / truncate / free, count_free_clusters | allocation; every walk of a chain |
| Cluster allocation, `fs.rs` | `FsInfoSector` (count, next), `cluster_generation` | alloc_cluster, truncate_cluster_chain, free_cluster_chain, stats | files and directories |
| Free-cluster bitmap, `cluster_bitmap.rs` | a bit per cluster | build_from_fat, find_free, set_allocated, set_free | cluster allocation |
| FAT cache, `fat_cache.rs` | cached sectors, LRU clock, dirty flags | read_cached, write_cached, flush | the table |
| Disk access, `fs.rs` | position of the storage | `DiskSlice` (copies of the table), `FsIoAdapter`: seek, then read or write | everything above |
| Open files, `file.rs` | `FileContext`: first and current cluster, offset, entry | read, write, seek, truncate, flush, close | programs; directories (a directory is a file) |
| Entry editors, `dir_entry.rs` | copy of the 32-byte entry, its position, dirty flag, generation | set_size, set_first_cluster, flush, refresh_generation | open files |
| Multi-cluster I/O, `multi_cluster_io.rs` | none | read_contiguous, write_contiguous | read, write |
| Directories, `dir.rs` | entries on disk | create_file, open_file, create_dir, remove, rename | programs, FUSE |
| Names, `dir.rs`, `dir_entry.rs` | none | long names, checksums, short name generator | directories |
| File locks, `file_locking.rs` | lock table keyed by first cluster | try_lock, unlock; locked open and close | programs |
| Mount and flush, `fs.rs` | dirty flag, FSInfo sector | new, set_dirty_flag, flush, unmount | programs |
| Formatting, `fs.rs`, `boot_sector.rs` | the boot sector | format_volume; validation and geometry at mount | programs, mount |
| Audit log, `audit.rs` | ring of entries, its sectors | log, flush, load, clear | files, directories, flush |
| Page buffer, page streams (adapters) | one page, clean or dirty; a position | load, modify, store, flush, direct reads and writes; read, write, seek | block devices |
| Header rotation, NOR flash (adapters) | current slot; the flash | read, write, erase then program | databases on raw flash |
| FUSE adapter | inode to path, path to inode | lookup, create, mkdir, unlink, rmdir, rename | the kernel |
| Directory cache, drivers, CLI and TUI, time | | | see section 8 |

The behaviours that are hard: tasks interleave inside allocation and release; a File keeps
copies (entry, position, first cluster) of things that other calls move or free; power is
lost between sector writes; `?` leaves an operation half way; the cursor of a file follows a
convention ("a boundary belongs to the cluster before it") that five pieces of code must
share; two copies of one fact (cache and table, two FAT copies, count and table, inode and
path, lock table and open files) must agree across failures; counters wrap and hints go stale.
`PROJECT.json` lists the hazards one by one, at the line where each bites, with the properties
that would catch it going wrong.

## 2. Modules

| Module | Models | State, and what it stands for |
|---|---|---|
| `TransactionLog` | `transaction.rs`, `with_transaction`, the recovery of `FileSystem::new` | `logDisk`/`mem`: log sectors and `entries`; `pc`: where the call that holds the log mutex is; `data`: whether the sectors of an operation are old, half or new; `outcome`: what is known of each call; `fresh`: slots never cleared since the volume was formatted |
| `FatTable` | walks over the table as functions of a table | none; used by the next three |
| `ClusterAlloc` | alloc_cluster, truncate and free of chains, stats, bitmap, FSInfo counters | `fat`, `marked` (bitmap), `count`, `next`, `gen`; `op[f]`: the locals of the operation on file f; `word[f]`: the half of its neighbour that a FAT12 write holds; `recount`: the local of stats(); `since[f]`: what became free since a search began |
| `DirHandles` | open files and their editors against create, open, remove and rename | `slots`: entries on disk; `handle[h]`: a File with its editor; `gen`; `fat`, `data`; `live`, `ids`: the files there should be; `allowed`: the program's discipline |
| `FileStore` | what a file promises: bytes and a position (abstract) | `content`, `pos`, `out` |
| `FileCursor` | read, write, seek and truncate of one file, byte by byte, batched path included | `table`, `disk`, `first`, `cur`, `off`, `size`, `out` |
| `FatStore` | what the table promises through the cache: cells that hold what was written, and a medium that a flush brings up to date (abstract) | `cells`, `medium`, `out` |
| `FatCache` | `fat_cache.rs` over the copies of the table (`DiskSlice`) | `disk`: the copies; `cache`: slots with sector, data, dirty, clock; `call`: the locals of the call that holds the mutex |
| `DirUpdates` | create, mkdir, first write, truncate, remove, rename and flush, disk write by disk write, with the dirty flag, the cached table, FSInfo and the mount after a crash | `slots`, `fatDisk`, `flagDisk`, `infoDisk`: the disk; `fatMem`, `flagMem`, `count`: memory; `task[t]`: the locals of an operation; `live`: the files there should be |
| `NameSpace` | what the calls of `Dir` promise: a tree of names (abstract) | `place`, `isDir`, `reply` |
| `DirTree` | paths, "." and "..", open, create, remove and rename of `dir.rs` | `entries` of each directory, `freed`, `reply` |
| `FuseInodes` | the inode maps of `fatrs-fuse` over `DirTree` | `table`: both maps and next_inode; `known`: inodes the kernel has; `means`: the file each was given out for |
| `FileLocks` | `file_locking.rs` with the locked open, create, write, truncate, remove and close | `locks`: the table; `handle[h]`: an open in progress or an open file; `first`: the first cluster in each entry; `bare`: clusters that an open file got, or gave up, without their lock |
| `ByteStream` | what a page stream promises: a tape of bytes (abstract) | `bytes`, `saved`, `pos`, `reply` |
| `PageStream` | `PageBuffer`, heap and stack buffers and streams | `disk`, `page`, `pos`; `stale`: a direct write over the buffered page failed half way |
| `HeaderRotation` | `HeaderRotatingDevice` over `NorFlashAdapter`, with the owner its documentation asks for | `flash`, `slot`, `todo`: the blocks of the call in progress; `committed`, `known`: what the owner may rely on; `wear` |
| `VolumeLayout` | format_volume, the checks and the geometry of a mount, the placing of both logs | `request`, `volume`: the boot sector; `mounted`; `damaged`: regions a log was written over |
| `FatEntries` | `table.rs` on the bytes of FAT12, FAT16 and FAT32 | `bytes`; `entries`: what each was last given; `marks`, `upper`: the flags and reserved bits found there |
| `AuditLog` | `audit.rs` and its calls in flush and mount | `buffer`, `dirty`, `disk`; `trail`, `flushed`: what was logged and when |
| `EntryNames` | short name generation, long-name slots and their reading | `slots` of a directory |
| `*Proofs` | theorems (section 6) | |

Five composites put components side by side or on top of each other, so that each run asks one
question of a subsystem: `MCAllocation` (three programs over `ClusterAlloc`: FAT16/32 interleaved,
FAT16/32 and FAT12 one operation at a time), `MCOpenFiles` (`DirHandles` under a careful and a bold
program, `FileCursor`), `MCVolume` (`DirUpdates`, `FatCache`, `TransactionLog`), `MCAccess`
(`FileLocks`, `FuseInodes` over `DirTree`, `HeaderRotation`, `PageStream`), `MCImage`
(`VolumeLayout`, `FatEntries`, `AuditLog`, `EntryNames`). Where the
parts share no state in the code, a behaviour chooses one part in its initial state (variable
`part` or `program`) and the others stay where they began: their product would only multiply
states that do not influence each other. Where they do share state they are composed for real:
the walks of `FatTable` inside `ClusterAlloc`, `DirHandles` and `FileCursor`; the table, cached
or not, the entries, the flag and FSInfo inside `DirUpdates`; `DirTree` inside `FuseInodes`.

What each module abstracts:

* `TransactionLog`: an entry is (magic, transaction, state, sequence, whether its CRC matches).
  Neither format_volume nor the mount writes an empty log, so each slot starts as zeros or as
  `initialize` leaves it, which only a program can call. A cut sector write leaves a prefix of the new fields. The update under the intent is two
  sectors. Writes reach the medium in order, so the loss of unflushed writes equals an
  earlier crash. One call at a time: the log mutex is held throughout the call.
* `ClusterAlloc`: each read or write of a FAT entry is a step, the reads of the search included,
  and so is each update behind the mutex of FSInfo or of the bitmap. A FAT12 entry (`Packed`) is
  written in two steps: the word that holds it and half of its neighbour is read (`ReadWord`), and
  written back with the half as it was read (`Put`), whatever came between. A seek of the disk and
  the access that follows it are one step. Failed reads and writes are actions of their own.
* `DirHandles`: each call is one step and its I/O succeeds; lengths are in clusters; one
  directory of single-slot names; one File per file. A truncation does not ask whether the file
  still has its entry, as `File::truncate` does not. `allowed`, a member of
  `Programs`, names what the program does while files are open; each property says of which
  programs it is true.
* `FileCursor`: one file, any free cluster for a new one, buffers of one repeated value. The
  storage may transfer less than asked, but at least one byte. With `Defects = FALSE` the
  batched path is left out exactly where it misplaces the cursor (section 5).
* `FatCache`: the table is a set of cells, an access covers `Width` of them. The mutex of the
  cache makes calls atomic against each other; each sector write to one copy is a step that
  may fail, changed or not. `FatStore` maps a cell to the slot that holds it, else to copy 1.
* `DirUpdates`: one directory, files of at most one cluster, a name takes one or two slots, one
  more name is refused by validate_long_name. A
  table write goes to the disk or, with fat-cache, to memory until it is evicted or flushed at
  any moment. FAT12/16 roots mark the volume dirty after a write, FAT32 directories before.
* `DirTree`: an object is known by its first cluster; names up to case; a call is one step.
* `FuseInodes`: the kernel uses inodes it was given; requests are served one at a time (fuser
  calls with `&mut self`). A rename may name any directory as its destination. The library's own
  client calls `Dir` with any path.
* `FileLocks`: an open is two steps, the read of the entry and the taking of the lock. Files may be
  opened empty, get their first cluster while they are open, and lose it. Release
  builds: unlocking what is not locked has no effect.
* `PageStream`, `HeaderRotation`: bytes and page contents from small sets; a failing write
  leaves any prefix of the blocks of a page, an erase or a program that fails leaves the page
  in any state. The stack stream takes a page to be `N` times the block size, as the code does.
* `VolumeLayout`: sizes in sectors; the writes of format_volume are one step.
* `AuditLog`: an entry is its number in the trail; a cut flush leaves a prefix of the new
  entries, what lies between old and new can be read back as garbage. A flush writes past the
  sectors if the buffer is longer, and `load` refuses what it then finds (`Room`).
* `EntryNames`: names are short sequences over a small alphabet, lengths are parameters; a name may
  end in U+FFFF. The checksum of a short name is any function of it (`SfnSum`), so different names
  may have the same. A name that is empty or begins with a character of several bytes is not created
  (`Panics`). A create is not taken when every numbered form is in use for every checksum: the loop
  of `check_for_existence` then has no end.

## 3. Runs

| Run | Expected | What it shows |
|---|---|---|
| `cluster_alloc` | pass | With and without the bitmap. FAT16/32: two operations interleave at every FAT access, those of a search included, one of them allocating, with a failed write; or one at a time, the count unknown, a failed read. FAT12: one at a time, every write a read and a write, with a failed write. Chains intact, no cluster shared or lost, free count exact when quiet, the bitmap's hint free, full means full, every operation ends |
| `open_files` | pass | With nothing removed or renamed while open, and nothing released while another file is open, entries, chains, data and space are those of the files; with files removed while open, entries still are. A file of up to three clusters is a sequence of bytes with a position |
| `volume` | pass | Power lost between any two disk writes of up to five operations, and a mount after it: entries survive, clusters are not shared, a volume not marked dirty is consistent, counts that are believed are right. The FAT cache implements a plain table over failing writes and a crash, and the copies agree. The intent log, with two crashes and two I/O errors in calls and recoveries: half-done updates are known but in fresh slots (`HalfUpdateIsKnown`), Ok is final, slots are lost only to faults, sequence numbers order what the log holds |
| `access` | pass | Three handles, two clusters that removed files pass on: readers share, a writer is alone, the table holds the locks of the open files only, wherever a lock was taken. The calls of `Dir`, by the library or through inodes, are those of a tree of names, and an inode stands for one file. With failures and a crash in any write of the flash: a header no older than the committed one is found while slots remain, written pages keep their content, slots wear evenly; a page marked clean is stored, a direct write is seen, a heap stream is a tape of bytes |
| `image` | pass | For sizes around every limit: each cluster has a FAT entry, a formatted volume mounts as what it was formatted; FAT bytes hold every value for each type; short names differ and long names are read back beside foreign writers; a flushed trail is read back, or nothing when its sectors have no room |
| `cluster_alloc_race` | violation | Two tasks that allocate at once get the same cluster |
| `cluster_alloc_read_error` | violation | After a failed FAT read in `free()` the release loops for ever |
| `file_cursor_batched` | violation | A batched write of one cluster at offset 0 leaves the cursor unset; the next write overwrites the first cluster |
| `dir_updates_rename` | violation | A rename that fails after it deleted the old entry loses the file |
| `volume_layout_log` | violation | The automatic transaction log lies over the FAT or the root directory |
| `access_rename` | violation | A file renamed to a path of two components is filed in `dst_dir` itself |
| `access_stack` | violation | A stack stream over blocks of two bytes reads nothing past its first page |

Bounds, and why they are enough:

* `Allocation.cfg`: three clusters and two files, builds with and without the bitmap. A release
  meets a chain that has been cut and extended, the volume fills, and bits 0 and 1 of the bitmap
  (no cluster) and the last two clusters (no bit) both matter; on FAT12 two of the clusters share a
  byte and the third has a neighbour that is no cluster. `MaxOps` is 7 interleaved and 6 one at a
  time: enough for the hint to be above the only free cluster, for the volume to be full, and for
  a release behind a search. `MaxBusy = 2`: the hazards of table.rs are between pairs.
  `CountMod = 16` is above every legal count, so a wrap is visible. The theorems of
  `ClusterAllocProofs` remove these bounds, but for `OperationsEnd`.
* `OpenFiles.cfg`: two handles, two slots and three files ever: a slot is vacated and taken by
  another file while an editor still points to it. Two releases in a behaviour. Clusters of two
  bytes, sizes up to 5, buffers of up to 4: offsets inside, at and past each boundary, batches
  of two clusters, a size limit inside a cluster. The bold program has files of one cluster and
  a volume of two (`Small`), which is enough for an editor to outlive its file. `OpenFilesProofs`
  removes these bounds.
* `Volume.cfg`: three entries for a name of one and a name of two, so that the directory fills
  and a long name meets a hole that is too small; two clusters; five operations: a create, an
  append, a remove or rename over them, a flush between. Two crashes, the second after a flush or
  in the middle of another operation. Two slots for three FAT sectors, two copies, two writes, one fault, one
  crash: an access evicts a sector that was written, and either can fail between the copies.
  The log has two slots for three calls, two crashes and two faults: a slot is reused, the log
  fills, and a fault can hit a call, the recovery from it and the call after that.
  `VolumeProofs` and `TransactionLogProofs` remove those bounds.
* `Access.cfg`: three handles, so that a third is refused or admitted because of two; two files
  ever on two clusters, so that a cluster passes from a removed file to a new one between the
  steps of an open. Three objects and paths of two components, destinations of a
  rename too: a directory in a directory, and a file that moves. Four inodes: every object has one
  besides the root. Four pages of flash, rotations of 1, 2 and 3; four headers, so that the slots
  wrap; two failures and a crash. Streams: two pages of two blocks of two bytes, calls of less than
  a block, of parts of a page and of the whole device, one failure and one restart: a call crosses
  a page boundary with a dirty page. `TreeProofs`, `FileLocksProofs` and `AdaptersProofs` remove
  these bounds. `SYMMETRY Alike` permutes the clusters that locks are kept under. `VIEW Seen` leaves
  out the last reply, which no step reads; properties of replies are checked on the steps that give
  them.
* `Image.cfg`: the sizes at which a formula of `boot_sector.rs` changes its branch or rounds the
  other way; sector sizes 512 and 4096; a FAT of three clusters and two spare entries, so that
  an odd and an even last entry exist; three audit slots in sectors with room for two
  entries, as 16 entries have none in 8 sectors, six entries; names of at most five characters, two of
  them with U+FFFF, and a checksum that some short names share, over four-character bases, one form of each numbered kind, six slots: all numbered
  forms are used up and the checksum is changed. `ImageProofs` removes the bounds on sizes and
  options of a format, on the table, on the audit log, and on names and directories.

`CHECK_DEADLOCK FALSE` everywhere: calls, crashes, releases and operations are counted and
bounded, and a system whose program makes no further call rests.

Fairness appears in `ClusterAlloc!FairSpec` and `MCAllocation!FairProgramSpec` only: weak
fairness of `Step(f)` for each file, that is, the executor polls each task that is ready and
the storage answers. No fairness on starting an operation or on failures. It carries
`OperationsEnd` and, for the violation, `IoErrorsEnd`. `OperationsEnd` exempts an iterator that
has failed, which is what `IoErrorsEnd` is about. The other modules have nothing that must
eventually happen but the return of a call, and no call of theirs waits or loops on another's
doing.

Every property of a passing run is tried against a mutant, a definition of the module with a
plausible bug (`Mut...`, placed before the definition it replaces), and TLC finds it violated.

## 4. Refinements

| Detailed | Abstract | Mapping |
|---|---|---|
| `FileCursor` | `FileStore` | `Content`: the bytes along the chain; the offset is the position |
| `FatCache` | `FatStore` | `CellNow`: the slot that holds the cell's sector, else copy 1; the medium is copy 1 |
| `DirTree` | `NameSpace` | where an object's entry is, found through the entries other than "." and ".." |
| `PageStream` | `ByteStream` | the device with the buffered page over it; saved is the device |

TLC checks each as a property of the detailed module's steps, and all four are proved.

## 5. Where the code and its documents disagree

Each with a run that shows it (`findings` in `PROJECT.json` has the quotes):

* `cluster_alloc_race`: table.rs searches and marks in two accesses; lib.rs and
  tests/concurrent_access.rs have tasks create files at once.
* `cluster_alloc_read_error`: table.rs:679 ignores the result of `next()`, so a failed read
  makes the loop write one entry for ever; file.rs:174 says that the error is returned.
* `file_cursor_batched`: file.rs:803 has no `else`, unlike the read path (file.rs:645), and
  the index of the old offset is one too low past the first cluster. Both are the guard of
  `MultiWrite` and `MultiRead` that `Defects` lifts.
* `dir_updates_rename`: `rename_internal` deletes the old entry (dir.rs:861) and only then
  validates the new name and looks for room.
* `volume_layout_log`: `first_data_sector - 4` is in the root directory or the FAT, not in the
  reserved sectors, and is multiplied by 512 on any sector size.
* `access_rename`: `rename` walks the directories of `dst_path` (dir.rs:804) and does not use where
  they lead: the entry goes to `dst_dir` itself under the last component, where dir.rs:767 says that
  the path is relative to `dst_dir`.
* `access_stack`: stack_page_stream.rs:78 takes a page to be `N * BLOCK_SIZE` bytes, where line 20
  says that `N` is the page size in bytes, which the buffer takes it to be: the stream loads the
  wrong pages.

Seen while modelling, and reflected in the guards or hypotheses of the modules:

* Transaction log: recovery (fs.rs:737) clears an intent and neither completes nor undoes its
  operation, where transaction.rs:25 says "either complete fully or not at all"; the sequence
  counter restarts at 1 after a remount of an idle log (cleared entries carry 0). Nothing in the
  library calls `initialize`, and format_volume (fs.rs:1991) does not write the log: `load` keeps the
  magic number of a sector of zeros (transaction.rs:373), `begin_transaction` (409) does not set it and
  `is_valid` (265) asks for it, so the first intent in each such slot is found by no recovery. A
  clear repairs the slot (`fresh` in `HalfUpdateIsKnown`).
* Allocation: a write of a FAT12 entry reads a word, awaits and writes it back with half of the
  neighbour (table.rs:306-322): with two operations at once an update of the neighbour is lost. With
  `Packed = TRUE` and `MaxBusy = 2` TLC finds `ChainsIntact` violated within 15 states; the properties
  are stated of FAT12 with one operation at a time. `alloc_cluster` takes any error of the search
  above the hint for a full table (table.rs:156): after a failed read it searches below the hint, and
  answers NotEnoughSpace when nothing is free there.
* Open files: `remove` moves the generation through `free_cluster_chain` only and
  `rename_internal` not at all, so a File of an empty or renamed entry still writes it back
  (`allowed` with `remove_empty_open` or `rename_open`), where TODO.md:428 says "Both files and
  directories are protected"; one generation serves the volume, so any release refuses the next
  flush of every other open file, where error.rs:36 speaks of the directory of the entry; a
  stale file writes its data before the generation is compared. `truncate` of a file that was removed
  does not ask whether it has its entry, and refreshes its generation (file.rs:207): its next flush
  passes the check (dir_entry.rs:566) and overwrites the entry of the file that took its position
  (`allowed` with `truncate_removed`).
* Checkpoints: seek, read and write take the nearest cluster checkpoint as the position they walk
  from (file.rs:691, 913, 990), and truncate does not clear those of the clusters it frees.
  `FileCursor` has no checkpoints.
* Bitmap: it does not learn of the first cluster of a released chain nor of those of a
  truncation, which hides space from the hint but not from the search (`FullMeansFull` holds).
* FAT cache: fat_cache.rs:324 calls the slice transparent; an access that crosses a sector,
  as one entry in 341 of a FAT12 does, reads or writes its first part only (`Reached`). The
  instance and the theorem have entries that do not cross (`Aligned`).
* Flags: a volume mounted dirty is marked clean by the next flush with the FSInfo count it had and
  with whatever the crash had left allocated (fs.rs:597; `cleared` in `CleanIsConsistent` and
  `CountRight`); a flush that ends inside another task's operation marks the volume clean
  (`DirUpdates` with two tasks). With fat-cache `File::truncate` to 0 and a flush of the file put
  an entry without clusters on the disk and leave the table in memory and the mark clean: the table
  on the disk has a cluster no entry names.
* Directories: `mkdir` allocates its cluster (dir.rs:615) before write_entry validates the name
  (dir.rs:972), so a refused name leaks it; ".." of a directory that gets into another one is not
  rewritten (`MovesDirs`).
* Names: validate_long_name admits U+FFFF at the end of a name (dir.rs:1165) and the reader strips it
  (dir.rs:1317), so such a file is not found under its own name; a short entry of another writer takes
  an orphaned long name when the 8-bit checksums agree (dir.rs:1174), one time in 256; an empty name
  and one that begins with a character of several bytes panic in the generator (`name[1..]`,
  dir.rs:1510) before they are validated (`Panics`).
* Locks: an empty file takes no lock, since the table is keyed by first cluster, so
  create_file_locked of a new file locks nothing (dir.rs:545), where dir.rs:485-489 promises exclusive
  access, and two writers of an empty file are not told apart; its first write does not take one
  either, and the close then releases what was not taken; the lock of a cluster that is truncated
  away stays (`bare`).
* Layout: the sizes 8227 to 8234 sectors and below 42 find no geometry with default options
  and are refused; with_transaction_log on FAT32 sizes without a FAT type reserves five sectors
  where the backup boot sector is the sixth; `fat_type` only chooses the cluster size; an audit
  size of 8 is taken for "automatic" and replaced with the rest of the configuration; the
  audit flush writes as many bytes as the entries need whatever the sectors it was given.
* Audit: `clear()` does not mark the log dirty, so an empty log is not written. The buffer has 16
  entries of more than 512 bytes each (two path arrays, audit.rs:163), and the default log 8 sectors of
  512 bytes, where audit.rs:50 counts on about 40 entries: a flush writes past them, and the next
  mount refuses the length (audit.rs:502) and starts empty (`Loaded`).
* Table: the search of FAT12 shifts an odd entry by 8 bits to count it; only whether it is zero
  matters, so the count is right.
* Streams: a heap write that crosses its page while the page is dirty is refused; a direct
  write over the buffered page that fails leaves a clean page that is not what the device has (`stale`), one that is shorter than
  the page drops a dirty page, and a direct read does not see a dirty page.
* FUSE: inodes below a directory that is renamed keep their old paths (`displaced`); a rename into a
  subdirectory records the path that was asked for, and the file is in the root directory (`Misled`);
  readdir offsets shift when entries go; names that differ in case get two inodes.

## 6. Theorems

The theorems hold for every value of the constants, from the assumptions named; TLC's runs check
the same formulas on one instance each.

`TransactionLogProofs`, from `TransactionLogAssumption` (at least one slot, `NoTx` is no call):

* `TypeCorrect`, action by action (`InitType`, `NextType`).
* `HalfUpdatesKnown`: `LogSpec => []HalfUpdateIsKnown`, of logs whose slots are zeros or
  initialised; an intent in a slot that is still `fresh` is the exception, and `MagicInv` says that
  every other slot has its magic number. The property is not inductive: that a
  half-done update has an intent on disk says nothing of the slot being the one of the
  running call. `IInv` adds `CallInv` (what `pc` says of `cur`, `slot`, the entry in memory
  and the state of the data) and `LogInv` (which entries on disk and in memory may be
  incomplete, and whose they are). One lemma per group of actions (`BeginInv`,
  `OperationInv`, `EndOfCallInv`, `RecoveryInv`, `CrashInv`), put together in `NextInv`.
* `OkStaysOk`: `LogSpec => OkIsFinal`. It needs `OkInv`, that no sector on disk names a call
  that has returned Ok as incomplete, and what a cut write may leave in a sector
  (`InterruptedTx`, `TxOnDisk`).
* `EntriesAreOrdered` (`SequenceOrdersEntries`) and `SlotsComeBack` (`SlotsLostOnlyToFaults`).
  The first follows the numbers through disk and memory (`SeqInv`: at most the number in
  `sequence`, distinct among entries that can be trusted). The second is a budget: `LostInv`
  bounds the slots in use by the crashes and faults there were and one for the call that runs,
  and says in which states of `pc` that one is owed; a crash and a recovery are paid by the
  fault that they are.

`ClusterAllocProofs`, from `ClusterAllocAssumption`, for any number of files, clusters,
operations and failures:

* `TypeCorrect` and `FullStaysFull` (`FullMeansFull`) hold of every interleaving, on every FAT type,
  two tasks that allocate at once included. The search reads one entry at a time while others
  release what lies behind it: `SearchInv` says that every entry it has passed is occupied or has
  become free since the search began (`since`).
* `ChainsStayIntact`, `FilesStayApart` and `SpaceIsKept` assume `Orderly`: on FAT16 and FAT32 one task
  allocates at a time and no read fails, or one operation runs at a time and no write fails; on FAT12
  one operation runs at a time, under the same conditions on failures. Outside of it they are false,
  as `cluster_alloc_race`, `cluster_alloc_read_error` and section 5 (FAT12) show. The invariant
  says that there is for each file a second list, `rest[f]`, of the clusters its operation has
  cut off and not yet released (`ChainInv`; the model keeps no such list, the code neither);
  `FileOK` says for each value of `pc` what of the chain and of `rest[f]` is linked in the table,
  and `Sound` that all those lists, and the cluster an allocation has marked and not linked, are
  disjoint and cover what is allocated. A walk reads only entries of its own lists, which no
  other task writes: that is why interleaving does no harm.
* `CountStaysExact` (`QuietIsExact`): the count differs from the number of free entries by what
  the running operations have marked or released and not yet booked (`Ledger`), modulo
  `CountMod`; when nothing runs, both are below `CountMod`, so they are equal. It assumes `Orderly`
  too, and the count must be
  known at mount, or one operation run at a time: `stats()` counts the table while others
  change it.
* `HintStaysFree`: `HintIsFree` with one operation at a time and no failed write, which is the
  half of the run `cluster_alloc` that states `SerialHintIsFree`. The invariant (`HintInv`): the
  bits of occupied clusters are clear but for the cluster an allocation has just marked, and what
  a release has collected for the bitmap is in no file any more (`BatchInv`).

`VolumeProofs`, the FAT cache, from `FatCacheAssumption` (positive sizes, accesses inside the table, 0 a
value, `NoSector` no sector); the refinement also from `Aligned`, that no access crosses a
sector:

* `CacheTypeCorrect` and `CopiesKept`. `CacheIInv` adds to `CacheTypeOK` and `CopiesAgree`: a sector is held
  once (`HeldOnce`, without which a cell has two values); a clean slot is what copy 1 has
  (`CleanIsStored`); and `InCall`, what the call in progress has done: the slot it writes back
  is dirty and on every copy before the current one, the sector it will load is not held.
* `CacheRefinement`: `CacheSpec => ImplementsFatStore`. Every step maps to one of `FatStore` or a stutter
  (`NextImplements`): a hit and a load to a read or a write (`HitImplements`,
  `LoadImplements`), the copies of a victim to cells that reach the medium, the last copy of
  the last dirty slot to a flush, which is where `CleanIsStored` says that the medium has it
  all.

`FileLocksProofs`, from `FileLocksAssumption`: `TypeCorrect`, `Exclusion` (`MutualExclusion`)
and `NoneLeftBehind` (`LocksAreHeld`). The two properties hold each other up: the count in the
table is that of the open files only if no cluster is held by two files, and a lock is granted
rightly only if the count is. Both are said of the clusters that did not come to an open file, or
leave it, without their lock (`Guarded`): the code gives none to a file opened empty, and its first
write takes none. The invariant adds that a release is never short of a reader
(`Counted`), that from the moment its entry is found a file keeps its first cluster as long as
it is there and the cluster is guarded (`Coherent`), and that a writer is alone under its cluster, removed files included
(`Alone`).

`AdaptersProofs`, header rotation, from `RotationsAssumption`: `RotationTypes`, `HeaderKept`
(`HeaderSurvives`), `PagesKept` (`WrittenPagesKept`), `WearIsEven` (`EvenWear`, until power is
first lost). The invariant
says where the committed header is: as many slots behind the current one as headers were begun
since (`Behind`); what an erased page means for what is known (`InWrite`); and that the slots up
to the current one were erased once more than the others (`Round`).

`VolumeProofs`, directories write by write, from `Serial`: the assumption of the module, and one operation at a time
(`MaxBusy = 1`, as the run has it), for any directory, names, programs and number of losses of
power. With two at once `CleanIsConsistent` is false, as section 5 says of the flag.

* `EntriesSurvive` (`EntriesKept`), `ClustersApart` (`NotShared`), `CleanNeedsNoRepair`
  (`CleanIsConsistent`) and `CountIsRight` (`CountRight`) follow from one invariant `IInv`, in
  seven parts, about `Now`, the locals of the operation in progress if there is one. `OpInv` says
  for each `pc` what the operation still knows of the directory (the slots it will write are
  free, the file it will change is where it was found); `EntryInv` which file has no entry for a
  while. `ChainInv` and `ExactInv` compare the table in memory with the entries: each cluster of
  a file or of the operation is allocated and has one owner, and when nothing was cut no other is
  allocated. `Holds` tells in which states the operation has a cluster that no entry names (a
  renamed file between its old entry and its new one, an allocation not yet written, a removal
  not yet released, a directory whose name is refused), and `Safe` when the first of them can be relied on after a loss of power.
  `DiskInv` is what makes the flag worth having: as long as it is not set, and no mark is due,
  the table on the disk is that of the entries; with the table cached and files truncated, at least
  that of the entries. A flush that marks clean what was damaged ends the promise (`cleared`), as
  does a write that power cut from its mark (`unmarked`). `CountInv` says the count of a mount that
  believes FSInfo is that of the table.
* `NoOtherFileIsLost` (`Losses`): what is left of `OnlyRemovalLosesFiles`, which the finding
  `dir_updates_rename` refutes: the file that is lost is the one that was being renamed.

`AdaptersProofs`, page buffer and streams, from `SizesAssumption`, for pages and blocks of any
size:

* `CleanPagesAreStored` (`CleanPageIsStored`) and `DirectWritesAreSeen` (`DirectWriteIsSeen`).
  The invariant restates the first as what a reader sees: `CleanSeen`, that with a page that is
  clean and not stale the view is the device. That form survives every call by one of four facts:
  storing some of a page's blocks changes no byte of the view (`StoreSeen`), a page that is loaded
  neither (`Loading`), a direct write changes no page it does not name (`DirectlyWritten`), and
  what it names is dropped.
* `StreamIsATape`: `BufferSpec => ImplementsByteStream`. The property is of the streams that divide
  their position by the length of the buffer's page (`Straight`): heap streams, and stack streams over
  blocks of one byte; `access_stack` shows the others. The byte at the position is then byte `OffsetOf` of page `PageOf` (`Position`), which
  rests on the lemmas on division (`Quotient`, `ByteOfPage`).

`ImageProofs`, format and mount, from `LayoutAssumption` (sizes are natural numbers, a sector is 512, 1024,
2048 or 4096 bytes), for devices of any size and any options of format_volume:

* `EveryClusterHasAnEntry` (`FatHoldsEveryCluster`) and `FormattedVolumesMount`
  (`MountsAsFormatted`). The invariant is plain: a boot sector is `Boot(request)`, and a mount
  took type and clusters from it. The work is the arithmetic of `boot_sector.rs`. With the size
  of `determine_sectors_per_fat`, the copies of the FAT take what the clusters leave of the data
  area but for less than a cluster and a sector of FAT (`FatAndData`); the code counts the entries
  that the sectors of a cluster hold, the proof those of one sector (`Densities`); so the last
  sector of a FAT is needed (`FewSectors`), a FAT of FAT12 or FAT16 has at most 256 sectors and
  the cast to the 16-bit field loses nothing (`ShortFats`), and what a mount divides back out are
  the entries it needs (`EntriesFit`). `BootSectorReads` puts it together for the boot sector
  as written, `ReadBackKeeps` for the one read back.
* `OwnSectorsSpareTheVolume`: the counterpart of the finding `volume_layout_log`. It assumes what
  a careful caller can see to: the transaction log has reserved sectors of its own, past FSInfo
  and the backup (`LogsHaveSectors`), sectors have 512 bytes and no audit log is kept. Then
  nothing of the volume is written over (`LogSparesTheVolume`).

`OpenFilesProofs`, the position of a file, from `CursorAssumption` (`FileCursorAssumption`, and
`Defects = FALSE`: the batched path is not taken where `file_cursor_batched` shows that it leaves
the cursor behind), for clusters, files and buffers of any size, batched or not:

* `CursorMatches` (`CursorMatchesOffset`) and `ChainFits` (`ChainFitsSize`, which no run lists). The invariant is that
  there is a list `L` of distinct clusters (`CursorIs`) which the table links one after another
  (`Chain`), that has as many clusters as the size needs and all that are allocated; the cursor
  is the cluster of the byte before the offset in that list. The code walks the table, so the
  lemmas on lists come first: a walk of `n` links from `L[i]` ends at `L[i + n]` or nowhere
  (`WalkOfChain`), the clusters met from `L[0]` are those of `L` (`ChainFromChain`), a list can be
  extended, cut and released (`ExtendedChain`, `CutChain`, `ReleasedChain`), a run of successors in
  the table is a run of consecutive clusters of `L` (`RunOfChain`).
* `FileIsStore`: `CursorSpec => ImplementsFileStore`. Byte `p` of the file is byte
  `p % ClusterSize` of cluster `L[p \div ClusterSize]` (`ContentIs`); one lemma per call says that
  it is the call of `FileStore` and keeps the invariant (`MultiWriteStep`, `WriteHereStep`,
  `WriteNewStep`, `MultiReadStep`, `SingleReadStep`, `SeekStep`, `TruncateStep`). `BytesWritten`
  is where a batch and a file meet: positions that follow each other on the storage are positions
  that follow each other in the file, so long as the clusters are a run.

`OpenFilesProofs`, open files and their entries, from `DirHandlesAssumption`, for any number of
handles, entries, clusters, files and releases:

* `DirTypes`, and `NeverRefused` (`StaleOnlyWhenStale`): when nothing is released under an open
  file every editor has the generation of the volume (`CurrentInv`).
* `EntriesAreIntact` (`EntriesIntact`), of every program that neither renames an open file, nor
  removes an empty one, nor truncates one that has lost its entry. What makes it inductive is `EntryFound`: an editor whose generation is the
  present one finds its own file at its position, since a removal that empties the position moves
  the generation, which is exactly what fails for a renamed or empty file and for one that a
  truncation has given the present generation; and `EntryNamed`: its
  copy has the name the entry has.
* `ChainsAndSizes` (`ChainsMatchSizes`) and `DataIsOfItsFile` (`DataIntact`), of a careful
  program. `VolumeIs` says that each file has a list of clusters (`ChainIs`) that its entry, or the
  editor's copy when the file is open, starts and counts, that the cursor of an open file is on it
  (`AtCursor`), that its clusters hold its data, and that every allocated cluster is in one. No
  invariant says that two files have no cluster in common: a cluster holds data of one file, so
  that follows (`DisjointFiles`). `CarefulState` adds that no file is open twice and that an editor
  that is clean has its copy on the volume. A call on one file is shown for that file alone
  (`WriteOwn`, `FlushOwn`, `SeekOwn`, `TruncateOwn`); that the files it does not touch keep their
  lists is one lemma (`VolumeStep`), used for these and for create, open, remove and rename.

`ImageProofs`, the audit log, from `AuditAssumption` (there is a slot), for a buffer and sectors of any
size, the sectors smaller than the buffer included:

* `FlushesAreRead` (`FlushedIsRead`). The invariant (`AuditInv`) is that memory and sectors hold
  the newest entries of what was logged and of what was flushed, unless a flush was cut short; a mount
  finds those of the last flush, or nothing when they have no room. The work is that the newest entries of a longer trail are those of the shorter one, shifted by one
  (`NewestPushed`).

`ImageProofs`, names, from `NamesAssumption` (lengths that leave room for the number, names that do
not contain the character that marks the end, which validate_long_name refuses), for any checksum,
names, directories and other writers of
any kind and size:

* `ShortNamesDiffer` (`ShortNamesUnique`): whatever form the generator settles on is of no entry
  in use (`FormsAreFree`, `ShortForIsFree`), since padding cannot hide a stem and a number
  (`NumberedIsFree`).
* `EntriesReadBack` (`NamesReadBack`). The invariant (`NamesInv`) says of every slot of a long
  name, complete or not, that the slots before it are those written before it (`LongRuns`): a run
  can be cut at its end by a loss of power, but never at its beginning, because a removal takes
  all slots back to the last one that is not of a long name. And that an entry created here is
  preceded by all of its run (`WholeEntries`). What `LongNameBuilder` has after `n` slots of a run
  is then the end of the name from part `n` on (`RunIsBuilt`, `TextIsName`), and a complete
  sequence that carries the checksum of an entry is a name with a short form of that checksum, less the
  U+FFFF it ends in (`CreatedReadBack`). A step keeps the runs because it writes where nothing is in use
  (`FreeStartIsFree`, `PlacingKeeps`) or deletes with a slot those that follow it (`DeletingKeeps`).

`ImageProofs`, the table of entries, from `EntriesAssumption` (there is a cluster), for entries of
12, 16 and 32 bits, any number of clusters and of entries past the last one:

* `TableOfValues` (`TableIsExact`). Bytes are taken apart into halves (`LowOf`, `HighOf`,
  `Joined`), of which an entry of 12 bits holds three (`PackedGet`, `PackedSet`) and an entry of 32
  bits seven (`LongGet`, `LongSet`). `EntryExact` follows for each width: an entry is read as it was
  written, and neither another entry nor the four upper bits of one change. The invariant
  (`EntriesInv`) is that the raw value of every entry is the encoding of what it was given, the
  entries past the last cluster are full, and entry 1 holds the flags that were found; every value
  has an encoding of its own as no cluster number is as large as a mark (`EncodeIs`). The rolling
  searches of a FAT12 are recursive functions; `RollingIs` gives the word they hold at each cluster
  and `CountingIs` what the count takes for the value of an entry, which is not the value but is
  zero where the value is (`CountedZero`). `FormattedIs` and `FoundIs` are about the table as it is
  formatted and as another system has left it.

`TreeProofs`, paths and inodes, from `FuseAssumption` (the bounds are numbers, no name is "." or
"..") and `~MovesDirs`, for any number of objects, names and inodes and paths of any length,
destinations of a rename included. `~MovesDirs` is what the code needs, not the proof: no directory
gets into another one, since ".." is not rewritten (section 5).

* `CallsAreThoseOfATree`: `Spec => ImplementsNameSpace`. `NameSpace` knows where each object is
  and nothing of entries; `Place` finds that out of them. `TreeInv` says that an object has one
  entry (`OneEntry`), that what is not a directory holds nothing (`OnlyDirs`), and that ".." of a
  directory is the directory that has its entry (`DotsLead`), which is what makes a walk over
  entries (`Walk` of `DirTree`) a walk over places (`PathsAgree`). A call adds, removes or moves one
  entry: `AddedKeeps`, `RemovedKeeps` and `MovedKeeps` keep the invariant, `AddedPlace`,
  `RemovedPlace` and `MovedPlace` say what becomes of `Place`, and one lemma per call
  (`OpenStep`, `CreateStep`, `RemoveStep`, `RenameStep`) that it is the call of `NameSpace`. A rename to several
  components is not: it has the effect `FiledAbove` spells out, that of a rename to the last of them.
* `InodesAlwaysNameTheirFile`: `Spec => []InodesNameTheirFile`. The invariant `AccessInv` adds, for
  the volume of the kernel, `TableInv`: the two maps are inverse but for displaced inodes
  (`MapsAgree`), and every other path of the table leads to the object of its inode (`PathsLead`).
  What it rests on is that paths from the root without "." and ".." are unique: two that end at one
  object are the same (`OnePath`, as two walks that meet have met all along, `WalksMeet`). So the
  path that a call writes is the only one of the table that could change its meaning, and any
  other that does goes through the entry that was written (`ThroughEntry`); those are below a
  directory, which is empty when it is removed and whose inodes are displaced when it is renamed,
  as are those that had the old or the new path of a rename into a subdirectory (`Misled`;
  `AddedPaths`, `RemovedPaths`, `MovedPaths`). `AllocateKeeps`, `ForgetKeeps` and `MoveKeeps` are
  about the maps alone.

Only model-checked: `SerialHintIsFree` as the run states it, for two programs in one state space
(`HintStaysFree` is about one of them by itself). Out of the prover's reach and left to TLC:
liveness (`OperationsEnd`). Every other property of a passing run is stated by a theorem.

Recursive functions can be reasoned about once a lemma shows that a function with their equation
exists (`WalkExists`, by induction over numbers as a least counterexample, `UpTo`); that is done
for walks along chains and along paths, for the copying and reading of names and for the searches
of a FAT12. Where the proofs can, they avoid it: chains are lists that the invariant carries along.

## 7. Plan

What would add most, in this order:

1. FUSE read, write and setattr, whose offsets are clamped by `seek`.
2. `FsIoAdapter` with seek and access as two steps under `ClusterAlloc`.
3. Cluster checkpoints in `FileCursor`, which truncate leaves behind.

## 8. Not modelled

* `dir_cache.rs`: it is filled and invalidated but nothing looks it up.
* `share.rs`: a mutex; its effect is the atomic steps of the modules.
* `fatrs-block-device`, `fatrs-block-platform`, `sd` drivers: hardware and system calls. The
  modules take from them that a call succeeds, fails, or is cut.
* `fatrs-cli`: command parsing, screens and printing over the calls that `DirTree` models.
* `time.rs`, `fmt.rs`, time stamps of entries, labels, boot code: data no property reads.
* `FsIoAdapter`'s two acquisitions of the disk (fs.rs:1486): an access is one step everywhere.
* `PageBuffer::data_mut_no_dirty`, by which a caller changes a page and leaves it marked clean:
  `CleanPageIsStored` is of the other calls.
* Cluster checkpoints of seek, read and write (section 5), and `AuditLog::clear`.
* Growth of a directory by a cluster, and listings that a program keeps open while it changes
  the directory.
* A nested `with_transaction` (fs.rs:1333): it waits for the mutex its caller holds; there is
  no state to explore.

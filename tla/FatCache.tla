------------------------------ MODULE FatCache ------------------------------
(***************************************************************************)
(* The write-back cache of FAT sectors (fatrs/src/fat_cache.rs) over the   *)
(* copies of the table on the volume (fat_slice and DiskSlice of           *)
(* fatrs/src/fs.rs).                                                       *)
(*                                                                         *)
(* The mutex of the cache is held for the whole of a call, so calls do not *)
(* interleave; each sector write to one copy of the table is a step, which *)
(* may fail, and the power may be lost between any two.  The storage reads *)
(* and writes whole sectors.  The table is a set of cells (bytes) with one *)
(* value each; an access covers Width of them.                             *)
(***************************************************************************)
EXTENDS Integers

CONSTANTS
  SectorSize,  \* cells in a sector
  Sectors,     \* sectors of the table
  CacheSlots,  \* FAT_CACHE_SECTORS
  Copies,      \* copies of the table on the volume (mirrors of DiskSlice)
  Width,       \* cells in an access: the bytes of a FAT entry
  Offsets,     \* where accesses start
  Values,      \* contents of a cell; 0 is among them
  NoSector,
  ClockMod,    \* access_counter is a machine integer (2^32)
  MaxWrites,   \* bound: writes in a behaviour
  MaxFaults,   \* bound: storage errors
  MaxLosses    \* bound: losses of power

Sector == 0 .. Sectors - 1
Cells == 0 .. Sectors * SectorSize - 1
CacheSlot == 1 .. CacheSlots
Copy == 1 .. Copies

\* Checked where the constants get their values.
FatCacheAssumption ==
  /\ SectorSize \in Nat \ {0} /\ Sectors \in Nat \ {0} /\ CacheSlots \in Nat \ {0}
  /\ Copies \in Nat \ {0} /\ Width \in Nat \ {0} /\ ClockMod \in Nat \ {0}
  /\ Offsets \subseteq Cells /\ \A o \in Offsets : o .. o + Width - 1 \subseteq Cells
  /\ 0 \in Values /\ NoSector \notin Sector
  /\ MaxWrites \in Nat /\ MaxFaults \in Nat /\ MaxLosses \in Nat

VARIABLES
  disk,    \* the copies of the table
  cache,   \* FatCache.sectors
  clock,   \* access_counter
  call,    \* the call that holds the mutex
  out,     \* the answer to the last call
  writes, faults, losses

cacheVars == <<disk, cache, clock, call, out, writes, faults, losses>>

-----------------------------------------------------------------------------
SectorOf(c) == c \div SectorSize
CellsOf(s) == {c \in Cells : SectorOf(c) = s}

\* A slot of the cache: the sector and the data of its cells.
Empty == [sector |-> NoSector, data |-> <<>>, dirty |-> FALSE, used |-> 0]
NoCall == [kind |-> "idle", pc |-> "idle", off |-> 0, val |-> 0, slot |-> 1, copy |-> 1]

\* find_sector
Holding(s) == {i \in CacheSlot : cache[i].sector = s}
DirtySlots == {i \in CacheSlot : cache[i].dirty}

\* What a cell holds for a caller, and what it holds on the volume: copy 1 is read.
CellNow(c) == IF Holding(SectorOf(c)) = {} THEN disk[1][c]
              ELSE cache[CHOOSE i \in Holding(SectorOf(c)) : TRUE].data[c]

Store == INSTANCE FatStore WITH cells <- [c \in Cells |-> CellNow(c)], medium <- disk[1]

Tick == (clock + 1) % ClockMod

\* find_lru_slot: the first empty slot, else the first of the least recently used.
Victim ==
  LET empty == Holding(NoSector)
      oldest == IF empty # {} THEN empty
                ELSE {i \in CacheSlot : \A j \in CacheSlot : cache[i].used <= cache[j].used}
  IN  CHOOSE i \in oldest : \A j \in oldest : i <= j

\* The part of an access that lies in the sector where it starts: the rest of the
\* buffer is left as it is, and the access reports its full length.
Reached(o) == {c \in Store!Span(o) : SectorOf(c) = SectorOf(o)}

CacheInit ==
  /\ disk = [k \in Copy |-> [c \in Cells |-> 0]]
  /\ cache = [i \in CacheSlot |-> Empty]
  /\ clock = 0
  /\ call = NoCall
  /\ out = Store!NoAnswer
  /\ writes = 0 /\ faults = 0 /\ losses = 0

-----------------------------------------------------------------------------
\* The end of read_cached and of write_cached: slot i holds the sector of the access.
Answer(i, slot, kind, o, v) ==
  IF kind = "read"
  THEN /\ cache' = [cache EXCEPT ![i] = slot]
       /\ out' = Store!ReadAs(o, [c \in Store!Span(o) |-> IF c \in Reached(o) THEN slot.data[c] ELSE 0])
  ELSE /\ cache' = [cache EXCEPT ![i] =
              [slot EXCEPT !.data = [c \in DOMAIN slot.data |-> IF c \in Reached(o) THEN v ELSE slot.data[c]],
                           !.dirty = TRUE]]
       /\ out' = Store!Written(o, v)

\* read_cached and write_cached of the cells from o: a hit is answered at once, a miss
\* writes the victim back when it is dirty, then loads the sector.
Access(kind, o, v) ==
  /\ call = NoCall
  /\ kind = "write" => writes < MaxWrites
  /\ writes' = IF kind = "write" THEN writes + 1 ELSE writes
  /\ IF Holding(SectorOf(o)) # {}
     THEN LET i == CHOOSE i \in Holding(SectorOf(o)) : TRUE IN
          /\ clock' = Tick
          /\ Answer(i, [cache[i] EXCEPT !.used = Tick], kind, o, v)
          /\ UNCHANGED call
     ELSE /\ call' = [NoCall EXCEPT !.kind = kind, !.off = o, !.val = v, !.slot = Victim,
                                  !.pc = IF cache[Victim].dirty THEN "write" ELSE "load"]
          /\ out' = Store!NoAnswer
          /\ UNCHANGED <<cache, clock>>
  /\ UNCHANGED <<disk, faults, losses>>

Read(o) == Access("read", o, 0)
Write(o, v) == Access("write", o, v)

\* flush: the dirty sectors in the order of their slots.
FlushCache ==
  /\ call = NoCall
  /\ IF DirtySlots = {} THEN out' = Store!Flushed /\ UNCHANGED call
     ELSE /\ call' = [NoCall EXCEPT !.kind = "flush", !.pc = "write",
                                  !.slot = CHOOSE i \in DirtySlots : \A j \in DirtySlots : i <= j]
          /\ out' = Store!NoAnswer
  /\ UNCHANGED <<disk, cache, clock, writes, faults, losses>>

\* The sector of slot i on copy k.
WrittenBack(i, k) ==
  [disk EXCEPT ![k] = [c \in Cells |-> IF SectorOf(c) = cache[i].sector THEN cache[i].data[c] ELSE @[c]]]

\* Mutant: an evicted sector goes to the first copy only.
MutLastCopy == call.kind # "flush" \/ call.copy = Copies

LastCopy == call.copy = Copies

\* DiskSlice::write: the copies in turn.  A victim then makes way for the sector that is
\* wanted; a flush goes on with the next dirty sector.
WriteCopy ==
  /\ call.pc = "write"
  /\ disk' = WrittenBack(call.slot, call.copy)
  /\ IF ~LastCopy
     THEN call' = [call EXCEPT !.copy = @ + 1] /\ UNCHANGED <<cache, out>>
     ELSE IF call.kind # "flush"
     THEN call' = [call EXCEPT !.pc = "load"] /\ UNCHANGED <<cache, out>>
     ELSE /\ cache' = [cache EXCEPT ![call.slot].dirty = FALSE]
          /\ LET left == DirtySlots \ {call.slot} IN
             IF left = {} THEN call' = NoCall /\ out' = Store!Flushed
             ELSE /\ call' = [call EXCEPT !.copy = 1, !.slot = CHOOSE i \in left : \A j \in left : i <= j]
                  /\ UNCHANGED out
  /\ UNCHANGED <<clock, writes, faults, losses>>

\* Mutant: the victim is given up before it is safe on the volume.
MutAfterFailure == IF call.kind = "flush" THEN cache ELSE [cache EXCEPT ![call.slot] = Empty]

\* A failed call leaves the slot as it was, dirty where it was.
AfterFailure == cache

\* A write fails, whether or not the sector was changed: FsIoAdapter sets the dirty flag
\* after the write and fails with it.
WriteFails ==
  /\ call.pc = "write" /\ faults < MaxFaults
  /\ disk' \in {disk, WrittenBack(call.slot, call.copy)}
  /\ cache' = AfterFailure
  /\ call' = NoCall
  /\ out' = Store!Failed
  /\ faults' = faults + 1
  /\ UNCHANGED <<clock, writes, losses>>

\* The wanted sector takes the slot.
Load ==
  /\ call.pc = "load"
  /\ clock' = Tick
  /\ Answer(call.slot,
            [sector |-> SectorOf(call.off), data |-> [c \in CellsOf(SectorOf(call.off)) |-> disk[1][c]],
             dirty |-> FALSE, used |-> Tick],
            call.kind, call.off, call.val)
  /\ call' = NoCall
  /\ UNCHANGED <<disk, writes, faults, losses>>

LoadFails ==
  /\ call.pc = "load" /\ faults < MaxFaults
  /\ call' = NoCall
  /\ out' = Store!Failed
  /\ faults' = faults + 1
  /\ UNCHANGED <<disk, cache, clock, writes, losses>>

\* Power is lost; FatCache::new at the next mount.
PowerLoss ==
  /\ losses < MaxLosses
  /\ cache' = [i \in CacheSlot |-> Empty]
  /\ clock' = 0
  /\ call' = NoCall
  /\ out' = Store!NoAnswer
  /\ losses' = losses + 1
  /\ UNCHANGED <<disk, writes, faults>>

CacheNext ==
  \/ \E o \in Offsets : Read(o) \/ \E v \in Values : Write(o, v)
  \/ FlushCache \/ WriteCopy \/ WriteFails \/ Load \/ LoadFails \/ PowerLoss

CacheSpec == CacheInit /\ [][CacheNext]_cacheVars

-----------------------------------------------------------------------------
\* A slot that holds a sector.
Filled(s) ==
  [sector : {s}, data : [CellsOf(s) -> Values], dirty : BOOLEAN, used : 0 .. ClockMod - 1]

SlotType == {Empty} \cup UNION {Filled(s) : s \in Sector}

CacheTypeOK ==
  /\ disk \in [Copy -> [Cells -> Values]]
  /\ cache \in [CacheSlot -> SlotType]
  /\ clock \in 0 .. ClockMod - 1
  /\ call \in [kind : {"idle", "read", "write", "flush"}, pc : {"idle", "write", "load"},
               off : Offsets \cup {0}, val : Values, slot : CacheSlot, copy : Copy]
  /\ call.kind \in {"read", "write"} => call.off \in Offsets
  /\ losses \in 0 .. MaxLosses

\* The cache is not seen (fat_cache.rs:324): every answer is that of a plain table, a failed
\* call changes nothing, and after a flush that reports success a loss of power loses
\* nothing.  For entries that lie in one sector (Aligned): an access that straddles two
\* reads or writes its first part only (Reached).
ImplementsFatStore == Store!StoreSpec

\* The copies of the table differ only in sectors that are still to be written back, as
\* long as power is not lost between the writes of two copies.
CopiesAgree ==
  losses = 0 =>
    \A k \in Copy, c \in Cells :
      disk[k][c] # disk[1][c] => \E i \in DirtySlots : cache[i].sector = SectorOf(c)
=============================================================================

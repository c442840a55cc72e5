---------------------------- MODULE VolumeProofs ----------------------------
(***************************************************************************)
(* Theorems about what a loss of power leaves of a volume.                 *)
(*                                                                         *)
(* FatCache: for tables, caches and sectors of any size, any number of     *)
(* copies and any number of accesses, faults and losses up to the bounds,  *)
(* the cache is a plain table (FatStore), and the copies of the table      *)
(* agree but for what is still to be written back.                         *)
(*                                                                         *)
(* DirUpdates, with one task at a time: for any programs, names, entries   *)
(* and clusters, and any number of operations and losses of power.         *)
(***************************************************************************)
EXTENDS FatCache, DirUpdates, FiniteSetTheorems, WellFoundedInduction, TLAPS

-----------------------------------------------------------------------------
(* The FAT cache.                                                          *)

\* Entries do not straddle sectors: those of FAT16 and FAT32, and of FAT12 in part.
Aligned == \A o \in Offsets : \A c \in Store!Span(o) : SectorOf(c) = SectorOf(o)

\* A sector is held once.
HeldOnce ==
  \A i, j \in CacheSlot : cache[i].sector = cache[j].sector /\ cache[i].sector # NoSector => i = j

\* What slot i holds is on copy k.
On(i, k) == \A c \in Cells : SectorOf(c) = cache[i].sector => disk[k][c] = cache[i].data[c]

CleanIsStored == \A i \in CacheSlot : cache[i].sector # NoSector /\ ~cache[i].dirty => On(i, 1)

\* A call that writes a sector back has a dirty one, and has written it to the copies before
\* the current one; a call that loads one does not hold it yet, and its victim is clean or
\* was written to every copy.
InCall ==
  /\ call.pc = "write" =>
       /\ cache[call.slot].dirty
       /\ \A k \in Copy : k < call.copy => On(call.slot, k)
  /\ call.pc = "load" =>
       /\ call.kind # "flush"
       /\ cache[call.slot].dirty => \A k \in Copy : On(call.slot, k)
  /\ call.pc # "idle" => /\ call.kind \in {"read", "write", "flush"}
                         /\ call.kind # "flush" => Holding(SectorOf(call.off)) = {}

CacheIInv == CacheTypeOK /\ HeldOnce /\ CleanIsStored /\ InCall /\ CopiesAgree

-----------------------------------------------------------------------------
\* Cells are in the sectors of the table.
LEMMA Quotient ==
  ASSUME NEW c \in Nat, NEW n \in Nat \ {0}, NEW m \in Nat, c < m * n
  PROVE  c \div n \in 0 .. m - 1
  OBVIOUS

LEMMA SectorOfCell ==
  ASSUME FatCacheAssumption, NEW c \in Cells
  PROVE  SectorOf(c) \in Sector /\ SectorOf(c) # NoSector
  <1>1. c \in Nat /\ c < Sectors * SectorSize /\ SectorSize \in Nat \ {0} /\ Sectors \in Nat
    BY DEF FatCacheAssumption, Cells
  <1>2. c \div SectorSize \in 0 .. Sectors - 1
    BY <1>1, Quotient
  <1>3. QED
    BY <1>2 DEF SectorOf, Sector, FatCacheAssumption

LEMMA SlotCases ==
  ASSUME FatCacheAssumption
  PROVE  /\ \A x \in SlotType : x = Empty \/ (x.sector \in Sector /\ x \in Filled(x.sector))
         /\ \A s \in Sector : Filled(s) \subseteq SlotType
         /\ Empty.sector = NoSector /\ Empty.dirty = FALSE /\ Empty.used = 0
         /\ NoSector \notin Sector /\ 0 \in 0 .. ClockMod - 1
  <1>1. ASSUME NEW x \in SlotType PROVE x = Empty \/ (x.sector \in Sector /\ x \in Filled(x.sector))
    <2>1. CASE x # Empty
      <3>0. SlotType = {Empty} \cup UNION {Filled(s) : s \in Sector}
        BY DEF SlotType, Filled
      <3>1. PICK s \in Sector : x \in Filled(s)
        BY <2>1, <3>0
      <3>2. x.sector = s
        BY <3>1 DEF Filled
      <3>3. QED
        BY <3>1, <3>2
    <2>2. QED
      BY <2>1
  <1>2. ASSUME NEW s \in Sector PROVE Filled(s) \subseteq SlotType
    BY DEF SlotType, Filled
  <1>3. QED
    BY <1>1, <1>2 DEF Empty, FatCacheAssumption

LEMMA SlotFacts ==
  ASSUME FatCacheAssumption, NEW x \in SlotType
  PROVE  /\ x.sector \in Sector \cup {NoSector} /\ x.dirty \in BOOLEAN
         /\ x.dirty => x.sector # NoSector
         /\ x.sector # NoSector => x.data \in [CellsOf(x.sector) -> Values]
         /\ x.used \in 0 .. ClockMod - 1
  <1>1. CASE x = Empty
    BY <1>1, SlotCases
  <1>2. CASE x.sector \in Sector /\ x \in Filled(x.sector)
    <2>1. /\ x.data \in [CellsOf(x.sector) -> Values] /\ x.dirty \in BOOLEAN
          /\ x.used \in 0 .. ClockMod - 1
      BY <1>2 DEF Filled
    <2>2. QED
      BY <1>2, <2>1, SlotCases
  <1>3. QED
    BY <1>1, <1>2, SlotCases

\* Slots that are given other data or another mark.
LEMMA SlotUpdates ==
  ASSUME FatCacheAssumption, NEW x \in SlotType, x.sector # NoSector, NEW dirty \in BOOLEAN
  PROVE  /\ [x EXCEPT !.dirty = dirty] \in SlotType
         /\ \A data \in [CellsOf(x.sector) -> Values] :
              [x EXCEPT !.data = data, !.dirty = dirty] \in SlotType
  <1>1. x.sector \in Sector /\ x \in Filled(x.sector)
    BY SlotCases
  <1>2. ASSUME NEW data \in [CellsOf(x.sector) -> Values]
        PROVE  [x EXCEPT !.data = data, !.dirty = dirty] \in Filled(x.sector)
    BY <1>1 DEF Filled
  <1>3. [x EXCEPT !.dirty = dirty] \in Filled(x.sector)
    BY <1>1 DEF Filled
  <1>4. QED
    BY <1>1, <1>2, <1>3, SlotCases

LEMMA NewSlot ==
  ASSUME FatCacheAssumption, NEW s \in Sector, NEW data \in [CellsOf(s) -> Values],
         NEW dirty \in BOOLEAN, NEW used \in 0 .. ClockMod - 1
  PROVE  [sector |-> s, data |-> data, dirty |-> dirty, used |-> used] \in SlotType
  <1>1. [sector |-> s, data |-> data, dirty |-> dirty, used |-> used] \in Filled(s)
    BY DEF Filled
  <1>2. QED
    BY <1>1, SlotCases
-----------------------------------------------------------------------------
\* A set of numbers has a least one.
LEMMA LeastOf ==
  ASSUME NEW S \in SUBSET Nat, S # {} PROVE \E x \in S : \A y \in S : x <= y
  <1> DEFINE R == OpToRel(<, Nat)
  <1>1. IsWellFoundedOn(R, Nat)
    BY NatLessThanWellFounded
  <1>2. \A x, y \in Nat : <<y, x>> \in R <=> y < x
    BY DEF OpToRel
  <1> HIDE DEF R
  <1>3. PICK x \in S : \A y \in S : ~ (<<y, x>> \in R)
    BY <1>1, WFMin
  <1>4. ASSUME NEW y \in S PROVE x <= y
    <2>1. ~ (y < x) /\ x \in Nat /\ y \in Nat
      BY <1>2, <1>3
    <2>2. QED
      BY <2>1
  <1>5. QED
    BY <1>4

LEMMA FirstOf ==
  ASSUME FatCacheAssumption, NEW S \in SUBSET CacheSlot, S # {}
  PROVE  (CHOOSE i \in S : \A j \in S : i <= j) \in S
  <1>1. S \in SUBSET Nat
    BY DEF CacheSlot, FatCacheAssumption
  <1>2. QED
    BY <1>1, LeastOf

LEMMA VictimIsSlot == ASSUME FatCacheAssumption, CacheTypeOK PROVE Victim \in CacheSlot
  <1> DEFINE uses == {cache[i].used : i \in CacheSlot}
             oldest == IF Holding(NoSector) # {} THEN Holding(NoSector)
                       ELSE {i \in CacheSlot : \A j \in CacheSlot : cache[i].used <= cache[j].used}
  <1>1. uses \in SUBSET Nat /\ 1 \in CacheSlot
    <2>1. ASSUME NEW i \in CacheSlot PROVE cache[i].used \in Nat
      BY SlotFacts DEF CacheTypeOK, FatCacheAssumption
    <2>2. QED
      BY <2>1 DEF CacheSlot, FatCacheAssumption
  <1>2. PICK u \in uses : \A v \in uses : u <= v
    BY ZenonT(30), <1>1, LeastOf
  <1>3. oldest \in SUBSET CacheSlot /\ oldest # {}
    BY <1>2 DEF Holding
  <1>4. (CHOOSE i \in oldest : \A j \in oldest : i <= j) \in oldest
    BY <1>3, FirstOf
  <1>5. QED
    BY <1>3, <1>4 DEF Victim

-----------------------------------------------------------------------------
\* What a cell holds: what the slot with its sector holds, else what the volume holds.
LEMMA CellNowIs ==
  ASSUME FatCacheAssumption, HeldOnce, NEW c \in Cells
  PROVE  /\ \A i \in CacheSlot : cache[i].sector = SectorOf(c) => CellNow(c) = cache[i].data[c]
         /\ (\A i \in CacheSlot : cache[i].sector # SectorOf(c)) => CellNow(c) = disk[1][c]
  <1>1. ASSUME NEW i \in CacheSlot, cache[i].sector = SectorOf(c)
        PROVE  CellNow(c) = cache[i].data[c]
    <2>1. i \in Holding(SectorOf(c)) /\ \A j \in Holding(SectorOf(c)) : j = i
      BY <1>1, SectorOfCell DEF Holding, HeldOnce
    <2>2. (CHOOSE j \in Holding(SectorOf(c)) : TRUE) = i
      BY <2>1
    <2>3. QED
      BY <2>1, <2>2 DEF CellNow
  <1>2. ASSUME \A i \in CacheSlot : cache[i].sector # SectorOf(c) PROVE CellNow(c) = disk[1][c]
    BY <1>2 DEF CellNow, Holding
  <1>3. QED
    BY <1>1, <1>2

\* The same in the next state.
LEMMA CellNextIs ==
  ASSUME FatCacheAssumption, HeldOnce', NEW c \in Cells
  PROVE  /\ \A i \in CacheSlot : cache'[i].sector = SectorOf(c) => CellNow(c)' = cache'[i].data[c]
         /\ (\A i \in CacheSlot : cache'[i].sector # SectorOf(c)) => CellNow(c)' = disk'[1][c]
  <1>1. ASSUME NEW i \in CacheSlot, cache'[i].sector = SectorOf(c)
        PROVE  CellNow(c)' = cache'[i].data[c]
    <2>1. i \in Holding(SectorOf(c))' /\ \A j \in Holding(SectorOf(c))' : j = i
      BY <1>1, SectorOfCell DEF Holding, HeldOnce
    <2>2. (CHOOSE j \in Holding(SectorOf(c))' : TRUE) = i
      BY <2>1
    <2>3. QED
      BY <2>1, <2>2 DEF CellNow
  <1>2. ASSUME \A i \in CacheSlot : cache'[i].sector # SectorOf(c) PROVE CellNow(c)' = disk'[1][c]
    BY <1>2 DEF CellNow, Holding
  <1>3. QED
    BY <1>1, <1>2

\* A step that changes neither what the slots hold nor the copy that is read.
LEMMA CellsKept ==
  ASSUME FatCacheAssumption, HeldOnce, HeldOnce',
         \A i \in CacheSlot : cache'[i].sector = cache[i].sector /\ cache'[i].data = cache[i].data,
         \A c \in Cells : disk'[1][c] = disk[1][c] \/ \E i \in CacheSlot : cache[i].sector = SectorOf(c)
  PROVE  \A c \in Cells : CellNow(c)' = CellNow(c)
  <1> TAKE c \in Cells
  <1>1. CASE \E i \in CacheSlot : cache[i].sector = SectorOf(c)
    BY <1>1, CellNowIs, CellNextIs
  <1>2. CASE \A i \in CacheSlot : cache[i].sector # SectorOf(c)
    BY <1>2, CellNowIs, CellNextIs
  <1>3. QED
    BY <1>1, <1>2

LEMMA CacheInitIInv == ASSUME FatCacheAssumption, CacheInit PROVE CacheIInv
  <1>1. /\ disk = [k \in Copy |-> [c \in Cells |-> 0]] /\ cache = [i \in CacheSlot |-> Empty]
        /\ clock = 0 /\ call = NoCall
    BY DEF CacheInit
  <1>2. CacheTypeOK
    <2>1. disk \in [Copy -> [Cells -> Values]]
      BY <1>1 DEF FatCacheAssumption
    <2>2. cache \in [CacheSlot -> SlotType] /\ clock \in 0 .. ClockMod - 1
      BY <1>1 DEF SlotType, FatCacheAssumption
    <2>3. 1 \in CacheSlot /\ 1 \in Copy /\ 0 \in Values
      BY DEF CacheSlot, Copy, FatCacheAssumption
    <2>4. call \in [kind : {"idle", "read", "write", "flush"}, pc : {"idle", "write", "load"},
                    off : Offsets \cup {0}, val : Values, slot : CacheSlot, copy : Copy]
      BY <1>1, <2>3 DEF NoCall
    <2>5. call.kind \in {"read", "write"} => call.off \in Offsets
      BY <1>1 DEF NoCall
    <2>6. losses \in 0 .. MaxLosses
      BY DEF CacheInit, FatCacheAssumption
    <2>7. QED
      BY <2>1, <2>2, <2>4, <2>5, <2>6 DEF CacheTypeOK
  <1>3. \A i \in CacheSlot : cache[i].sector = NoSector
    BY <1>1 DEF Empty
  <1>4. HeldOnce /\ CleanIsStored
    BY <1>3 DEF HeldOnce, CleanIsStored
  <1>5. InCall
    BY <1>1 DEF InCall, NoCall
  <1>6. CopiesAgree
    BY <1>1 DEF CopiesAgree, Copy, FatCacheAssumption
  <1>7. QED
    BY <1>2, <1>4, <1>5, <1>6 DEF CacheIInv

\* The table begins as the abstract one does.
LEMMA InitImplements == ASSUME FatCacheAssumption, CacheInit PROVE Store!StoreInit
  <1>1. ASSUME NEW c \in Cells PROVE CellNow(c) = disk[1][c] /\ disk[1][c] = 0
    <2>1. \A i \in CacheSlot : cache[i].sector # SectorOf(c)
      BY SectorOfCell DEF CacheInit, Empty
    <2>2. 1 \in Copy
      BY DEF Copy, FatCacheAssumption
    <2>3. QED
      BY <2>1, <2>2 DEF CellNow, Holding, CacheInit
  <1>2. [c \in Cells |-> CellNow(c)] = [c \in Cells |-> 0]
    BY <1>1
  <1>3. disk[1] = [c \in Cells |-> 0]
    BY DEF CacheInit, Copy, FatCacheAssumption
  <1>4. QED
    BY <1>2, <1>3 DEF Store!StoreInit, CacheInit, FatCacheAssumption

-----------------------------------------------------------------------------
\* A slot that keeps its sector changes: it is dirty then, or keeps its data.
LEMMA SlotChanged ==
  ASSUME FatCacheAssumption, CacheIInv, call.pc = "idle", UNCHANGED <<disk, call, losses>>,
         NEW i \in CacheSlot, NEW x, x.sector = cache[i].sector, cache' = [cache EXCEPT ![i] = x],
         x.dirty = TRUE \/ (x.data = cache[i].data /\ x.dirty = cache[i].dirty)
  PROVE  HeldOnce' /\ CleanIsStored' /\ InCall' /\ CopiesAgree'
  <1>1. cache \in [CacheSlot -> SlotType]
    BY DEF CacheIInv, CacheTypeOK
  <1>2. /\ cache'[i] = x /\ \A j \in CacheSlot : j # i => cache'[j] = cache[j]
        /\ \A j \in CacheSlot : cache'[j].sector = cache[j].sector
    BY <1>1
  <1>3. HeldOnce'
    BY <1>2 DEF CacheIInv, HeldOnce
  <1>4. CleanIsStored'
    BY <1>2 DEF CacheIInv, CleanIsStored, On
  <1>5. InCall'
    BY DEF InCall
  <1>6. CopiesAgree'
    <2>1. \A j \in CacheSlot : cache[j].dirty => cache'[j].dirty
      BY <1>2
    <2>2. QED
      BY <1>2, <2>1 DEF CacheIInv, CopiesAgree, DirtySlots
  <1>7. QED
    BY <1>3, <1>4, <1>5, <1>6

\* A slot takes the sector that is wanted.
LEMMA SlotTaken ==
  ASSUME FatCacheAssumption, CacheIInv, call.pc = "load", UNCHANGED <<disk, losses>>, call' = NoCall,
         NEW x, x.sector = SectorOf(call.off), cache' = [cache EXCEPT ![call.slot] = x],
         x.dirty = TRUE \/ \A c \in CellsOf(SectorOf(call.off)) : x.data[c] = disk[1][c]
  PROVE  HeldOnce' /\ CleanIsStored' /\ InCall' /\ CopiesAgree'
  <1>1. /\ cache \in [CacheSlot -> SlotType] /\ call.slot \in CacheSlot
        /\ \A j \in CacheSlot : cache[j].sector # SectorOf(call.off)
    BY DEF CacheIInv, CacheTypeOK, InCall, Holding
  <1>2. cache'[call.slot] = x /\ \A j \in CacheSlot : j # call.slot => cache'[j] = cache[j]
    BY <1>1
  <1>3. HeldOnce'
    BY <1>1, <1>2 DEF CacheIInv, HeldOnce
  <1>4. CleanIsStored'
    <2>1. SUFFICES ASSUME NEW j \in CacheSlot, cache'[j].sector # NoSector, ~cache'[j].dirty,
                          NEW c \in Cells, SectorOf(c) = cache'[j].sector
                   PROVE  disk[1][c] = cache'[j].data[c]
      BY DEF CleanIsStored, On
    <2>2. CASE j = call.slot
      BY <1>2, <2>1, <2>2 DEF CellsOf
    <2>3. CASE j # call.slot
      BY <1>2, <2>1, <2>3 DEF CacheIInv, CleanIsStored, On
    <2>4. QED
      BY <2>2, <2>3
  <1>5. InCall'
    BY DEF InCall, NoCall
  <1>6. CopiesAgree'
    <2>1. SUFFICES ASSUME losses = 0, NEW k \in Copy, NEW c \in Cells, disk[k][c] # disk[1][c]
                   PROVE  \E j \in CacheSlot : cache'[j].dirty /\ cache'[j].sector = SectorOf(c)
      BY DEF CopiesAgree, DirtySlots
    <2>2. PICK j \in CacheSlot : cache[j].dirty /\ cache[j].sector = SectorOf(c)
      BY <2>1 DEF CacheIInv, CopiesAgree, DirtySlots
    <2>3. j # call.slot
      <3>1. SUFFICES ASSUME j = call.slot PROVE FALSE
        OBVIOUS
      <3>2. On(j, k) /\ On(j, 1)
        BY <2>2, <3>1 DEF CacheIInv, InCall, Copy, FatCacheAssumption
      <3>3. QED
        BY <2>1, <2>2, <3>2 DEF On
    <2>4. QED
      BY <1>2, <2>2, <2>3
  <1>7. QED
    BY <1>3, <1>4, <1>5, <1>6

\* The data of an access to the sector that slot x holds.
Changed(x, o, v) == [c \in DOMAIN x.data |-> IF c \in Reached(o) THEN v ELSE x.data[c]]

Dirtied(x, o, v) == [x EXCEPT !.data = Changed(x, o, v), !.dirty = TRUE]

\* A slot after a write to its sector.
LEMMA Accessed ==
  ASSUME FatCacheAssumption, NEW x \in SlotType, x.sector # NoSector, NEW o, NEW v \in Values
  PROVE  /\ Dirtied(x, o, v) \in SlotType /\ Dirtied(x, o, v).sector = x.sector
         /\ Dirtied(x, o, v).dirty = TRUE /\ Dirtied(x, o, v).data = Changed(x, o, v)
  <1>1. x.data \in [CellsOf(x.sector) -> Values] /\ x.sector \in Sector /\ x \in Filled(x.sector)
    BY SlotFacts, SlotCases
  <1>2. Changed(x, o, v) \in [CellsOf(x.sector) -> Values]
    BY <1>1 DEF Changed
  <1>3. Dirtied(x, o, v) \in SlotType
    BY <1>2, SlotUpdates DEF Dirtied
  <1>4. /\ Dirtied(x, o, v).sector = x.sector
        /\ Dirtied(x, o, v).dirty = TRUE /\ Dirtied(x, o, v).data = Changed(x, o, v)
    BY <1>1 DEF Filled, Dirtied
  <1>5. QED
    BY <1>3, <1>4

LEMMA TickType == ASSUME FatCacheAssumption, CacheTypeOK PROVE Tick \in 0 .. ClockMod - 1
  <1>1. clock + 1 \in Nat /\ ClockMod \in Nat \ {0}
    BY DEF FatCacheAssumption, CacheTypeOK
  <1>2. QED
    BY <1>1 DEF Tick

\* The answer to an access: the slot it leaves.
AfterAccess(x, kind, o, v) == IF kind = "read" THEN x ELSE Dirtied(x, o, v)

LEMMA AnswerIs ==
  ASSUME FatCacheAssumption, NEW x \in SlotType, x.sector # NoSector,
         NEW kind \in {"read", "write"}, NEW o, NEW v \in Values
  PROVE  /\ AfterAccess(x, kind, o, v) \in SlotType
         /\ AfterAccess(x, kind, o, v).sector = x.sector
         /\ kind = "read" => AfterAccess(x, kind, o, v) = x
         /\ kind = "write" => /\ AfterAccess(x, kind, o, v).dirty = TRUE
                              /\ AfterAccess(x, kind, o, v).data = Changed(x, o, v)
  <1>1. CASE kind = "read"
    BY <1>1 DEF AfterAccess
  <1>2. CASE kind = "write"
    <2>1. AfterAccess(x, kind, o, v) = Dirtied(x, o, v)
      BY <1>2 DEF AfterAccess
    <2>2. /\ Dirtied(x, o, v) \in SlotType /\ Dirtied(x, o, v).sector = x.sector
          /\ Dirtied(x, o, v).dirty = TRUE /\ Dirtied(x, o, v).data = Changed(x, o, v)
      BY Accessed
    <2>3. kind # "read"
      BY <1>2
    <2>4. QED
      BY <2>1, <2>2, <2>3
  <1>3. QED
    BY <1>1, <1>2

\* A call in progress: its type.
LEMMA CallType ==
  ASSUME CacheTypeOK
  PROVE  /\ call.kind \in {"idle", "read", "write", "flush"}
         /\ call.pc \in {"idle", "write", "load"} /\ call.off \in Offsets \cup {0}
         /\ call.val \in Values /\ call.slot \in CacheSlot /\ call.copy \in Copy
         /\ NoCall.pc = "idle"
  BY DEF CacheTypeOK, NoCall

\* An access whose sector is held.
LEMMA HitKeeps ==
  ASSUME FatCacheAssumption, CacheIInv, NEW kind \in {"read", "write"}, NEW o \in Offsets,
         NEW v \in Values, Access(kind, o, v), Holding(SectorOf(o)) # {}
  PROVE  /\ CacheIInv'
         /\ \E i \in CacheSlot :
              /\ cache[i].sector = SectorOf(o)
              /\ \A j \in CacheSlot :
                   /\ cache'[j].sector = cache[j].sector
                   /\ j # i => cache'[j].data = cache[j].data
              /\ kind = "read" => cache'[i].data = cache[i].data
              /\ kind = "write" => cache'[i].data = Changed(cache[i], o, v)
  <1> DEFINE i == CHOOSE j \in Holding(SectorOf(o)) : TRUE
             x == [cache[i] EXCEPT !.used = Tick]
  <1>0. i \in Holding(SectorOf(o))
    OBVIOUS
  <1>1. i \in CacheSlot /\ cache[i].sector = SectorOf(o)
    BY <1>0 DEF Holding
  <1>2. CacheTypeOK /\ cache[i] \in SlotType /\ cache[i].sector # NoSector
    <2>1. o \in Cells
      BY DEF FatCacheAssumption
    <2>2. QED
      BY <1>1, <2>1, SectorOfCell DEF CacheIInv, CacheTypeOK
  <1>3. cache[i] \in Filled(cache[i].sector)
    BY <1>2, SlotCases
  <1>4. /\ Answer(i, x, kind, o, v) /\ clock' = Tick
        /\ UNCHANGED <<disk, call, losses>> /\ call = NoCall
    BY DEF Access
  <1> HIDE DEF i
  <1>5. /\ x \in SlotType /\ x.sector = cache[i].sector
        /\ x.data = cache[i].data /\ x.dirty = cache[i].dirty
    <2>1. Tick \in 0 .. ClockMod - 1
      BY <1>2, TickType
    <2>2. x \in Filled(cache[i].sector)
      BY <1>3, <2>1 DEF Filled
    <2>3. QED
      BY <1>2, <1>3, <2>2, SlotCases DEF Filled
  <1> HIDE DEF x
  <1> DEFINE y == AfterAccess(x, kind, o, v)
  <1>6. /\ y \in SlotType /\ y.sector = x.sector
        /\ kind = "read" => y = x
        /\ kind = "write" => y.dirty = TRUE /\ y.data = Changed(x, o, v)
        /\ cache' = [cache EXCEPT ![i] = y]
    <2>1. x \in SlotType /\ x.sector # NoSector /\ Answer(i, x, kind, o, v)
      BY <1>2, <1>4, <1>5
    <2>2. y \in SlotType /\ y.sector = x.sector
      BY ZenonT(30), <2>1, AnswerIs
    <2>3. kind = "read" => y = x
      BY <2>1, AnswerIs
    <2>4. kind = "write" => y.dirty = TRUE /\ y.data = Changed(x, o, v)
      BY <2>1, AnswerIs
    <2>5. cache' = [cache EXCEPT ![i] = y]
      BY <2>1 DEF Answer, AfterAccess, Dirtied, Changed
    <2>6. QED
      BY <2>2, <2>3, <2>4, <2>5
  <1> HIDE DEF y
  <1>7. HeldOnce' /\ CleanIsStored' /\ InCall' /\ CopiesAgree'
    <2>1. y.dirty = TRUE \/ (y.data = cache[i].data /\ y.dirty = cache[i].dirty)
      BY <1>5, <1>6
    <2>2. call.pc = "idle" /\ y.sector = cache[i].sector
      BY <1>4, <1>5, <1>6 DEF NoCall
    <2>3. QED
      BY <1>1, <1>4, <1>6, <2>1, <2>2, SlotChanged
  <1>8. CacheTypeOK'
    <2>1. cache' \in [CacheSlot -> SlotType]
      BY <1>2, <1>6 DEF CacheTypeOK
    <2>2. clock' \in 0 .. ClockMod - 1
      BY <1>2, <1>4, TickType
    <2>3. QED
      BY <1>2, <1>4, <2>1, <2>2 DEF CacheTypeOK
  <1>9. /\ \A j \in CacheSlot :
             /\ cache'[j].sector = cache[j].sector
             /\ j # i => cache'[j].data = cache[j].data
        /\ kind = "read" => cache'[i].data = cache[i].data
        /\ kind = "write" => cache'[i].data = Changed(cache[i], o, v)
    <2>1. cache'[i] = y /\ \A j \in CacheSlot : j # i => cache'[j] = cache[j]
      BY <1>1, <1>2, <1>6 DEF CacheTypeOK
    <2>2. Changed(x, o, v) = Changed(cache[i], o, v)
      BY <1>5 DEF Changed
    <2>3. QED
      BY <1>5, <1>6, <2>1, <2>2
  <1>10. QED
    BY <1>1, <1>7, <1>8, <1>9 DEF CacheIInv

\* An access whose sector is not held: a call begins.
LEMMA MissKeeps ==
  ASSUME FatCacheAssumption, CacheIInv, NEW kind \in {"read", "write"}, NEW o \in Offsets,
         NEW v \in Values, Access(kind, o, v), Holding(SectorOf(o)) = {}
  PROVE  CacheIInv' /\ UNCHANGED <<disk, cache>> /\ out' = Store!NoAnswer
  <1>1. /\ call' = [NoCall EXCEPT !.kind = kind, !.off = o, !.val = v, !.slot = Victim,
                                !.pc = IF cache[Victim].dirty THEN "write" ELSE "load"]
        /\ UNCHANGED <<disk, cache, clock, losses>> /\ out' = Store!NoAnswer
    BY DEF Access
  <1>2. CacheTypeOK /\ Victim \in CacheSlot
    BY VictimIsSlot DEF CacheIInv
  <1>3. call' = [kind |-> kind, pc |-> IF cache[Victim].dirty THEN "write" ELSE "load",
                 off |-> o, val |-> v, slot |-> Victim, copy |-> 1]
    BY <1>1 DEF NoCall
  <1>4. 1 \in Copy
    BY DEF Copy, FatCacheAssumption
  <1>5. /\ call'.kind = kind /\ call'.slot = Victim /\ call'.off = o /\ call'.copy = 1
        /\ call'.pc = IF cache[Victim].dirty THEN "write" ELSE "load"
    BY <1>3
  <1>6. CacheTypeOK'
    <2>1. (IF cache[Victim].dirty THEN "write" ELSE "load") \in {"idle", "write", "load"}
      OBVIOUS
    <2>2. call' \in [kind : {"idle", "read", "write", "flush"}, pc : {"idle", "write", "load"},
                     off : Offsets \cup {0}, val : Values, slot : CacheSlot, copy : Copy]
      BY <1>2, <1>3, <1>4, <2>1
    <2>3. QED
      BY <1>1, <1>2, <1>5, <2>2 DEF CacheTypeOK
  <1>7. InCall'
    <2>1. Holding(SectorOf(o))' = {}
      BY <1>1 DEF Holding
    <2>2. \A k \in Copy : ~(k < 1)
      BY DEF Copy
    <2>3. QED
      BY <1>1, <1>5, <2>1, <2>2 DEF InCall
  <1>8. QED
    BY <1>1, <1>6, <1>7 DEF CacheIInv, HeldOnce, CleanIsStored, On, CopiesAgree, DirtySlots

\* A flush begins with the first dirty slot.
LEMMA FlushKeeps == ASSUME FatCacheAssumption, CacheIInv, FlushCache PROVE CacheIInv'
  <1>1. CacheTypeOK /\ UNCHANGED <<disk, cache, clock, losses>>
    BY DEF CacheIInv, FlushCache
  <1>2. CASE DirtySlots = {}
    BY <1>1, <1>2 DEF FlushCache, CacheIInv, CacheTypeOK, HeldOnce, CleanIsStored, InCall, On, CopiesAgree,
                      DirtySlots, Holding
  <1>3. CASE DirtySlots # {}
    <2> DEFINE first == CHOOSE i \in DirtySlots : \A j \in DirtySlots : i <= j
    <2>1. first \in DirtySlots
      BY <1>3, FirstOf DEF DirtySlots
    <2> HIDE DEF first
    <2>2. call' = [NoCall EXCEPT !.kind = "flush", !.pc = "write", !.slot = first]
      BY <1>3 DEF FlushCache, first
    <2>3. call' = [kind |-> "flush", pc |-> "write", off |-> 0, val |-> 0, slot |-> first, copy |-> 1]
      BY <2>2 DEF NoCall
    <2>4. first \in CacheSlot /\ cache[first].dirty /\ 1 \in Copy /\ 0 \in Values /\ \A k \in Copy : ~(k < 1)
      BY <2>1 DEF DirtySlots, Copy, FatCacheAssumption
    <2>5. CacheTypeOK'
      <3>1. call' \in [kind : {"idle", "read", "write", "flush"}, pc : {"idle", "write", "load"},
                       off : Offsets \cup {0}, val : Values, slot : CacheSlot, copy : Copy]
        BY <2>3, <2>4
      <3>2. QED
        BY <1>1, <2>3, <3>1 DEF CacheTypeOK
    <2>6. InCall'
      BY <1>1, <2>3, <2>4 DEF InCall
    <2>7. QED
      BY <1>1, <2>5, <2>6 DEF CacheIInv, HeldOnce, CleanIsStored, On, CopiesAgree, DirtySlots
  <1>4. QED
    BY <1>2, <1>3

\* One more copy has the sector of the slot; the others are as they were.
LEMMA CopyWritten ==
  ASSUME FatCacheAssumption, CacheTypeOK, NEW i \in CacheSlot, cache[i].sector # NoSector, NEW k \in Copy,
         disk' = WrittenBack(i, k)
  PROVE  /\ disk' \in [Copy -> [Cells -> Values]]
         /\ \A c \in Cells : SectorOf(c) = cache[i].sector => disk'[k][c] = cache[i].data[c]
         /\ \A c \in Cells : SectorOf(c) # cache[i].sector => disk'[k][c] = disk[k][c]
         /\ \A m \in Copy : m # k => disk'[m] = disk[m]
  <1> DEFINE new == [c \in Cells |-> IF SectorOf(c) = cache[i].sector THEN cache[i].data[c] ELSE disk[k][c]]
  <1>1. disk' = [disk EXCEPT ![k] = new] /\ disk \in [Copy -> [Cells -> Values]]
    BY DEF WrittenBack, CacheTypeOK
  <1>2. new \in [Cells -> Values]
    <2>1. ASSUME NEW c \in Cells, SectorOf(c) = cache[i].sector PROVE cache[i].data[c] \in Values
      <3>1. cache[i].data \in [CellsOf(cache[i].sector) -> Values] /\ c \in CellsOf(cache[i].sector)
        BY <2>1, SlotFacts DEF CacheTypeOK, CellsOf
      <3>2. QED
        BY <3>1
    <2>2. \A c \in Cells : disk[k][c] \in Values
      BY <1>1
    <2>3. QED
      BY <2>1, <2>2
  <1>3. \A c \in Cells : new[c] = IF SectorOf(c) = cache[i].sector THEN cache[i].data[c] ELSE disk[k][c]
    OBVIOUS
  <1> HIDE DEF new
  <1>4. disk'[k] = new /\ \A m \in Copy : m # k => disk'[m] = disk[m]
    BY <1>1
  <1>5. QED
    BY <1>1, <1>2, <1>3, <1>4

\* Then what was clean is still stored, and the copies agree but for the slot.
LEMMA OthersStored ==
  ASSUME FatCacheAssumption, CacheIInv, NEW i \in CacheSlot, cache[i].dirty, NEW k \in Copy,
         disk' = disk \/ disk' = WrittenBack(i, k)
  PROVE  /\ disk' \in [Copy -> [Cells -> Values]]
         /\ \A j \in CacheSlot : cache[j].sector # NoSector /\ ~cache[j].dirty =>
              \A c \in Cells : SectorOf(c) = cache[j].sector => disk'[1][c] = cache[j].data[c]
         /\ \A m \in Copy, c \in Cells : SectorOf(c) # cache[i].sector => disk'[m][c] = disk[m][c]
  <1>1. CacheTypeOK /\ cache[i].sector # NoSector /\ 1 \in Copy
    BY SlotFacts DEF CacheIInv, CacheTypeOK, Copy, FatCacheAssumption
  <1>2. disk' \in [Copy -> [Cells -> Values]]
    BY <1>1, CopyWritten DEF CacheTypeOK
  <1>3. \A m \in Copy, c \in Cells : SectorOf(c) # cache[i].sector => disk'[m][c] = disk[m][c]
    BY <1>1, CopyWritten
  <1>4. ASSUME NEW j \in CacheSlot, cache[j].sector # NoSector, ~cache[j].dirty,
               NEW c \in Cells, SectorOf(c) = cache[j].sector
        PROVE  disk'[1][c] = cache[j].data[c]
    <2>1. cache[j].sector # cache[i].sector
      BY <1>4 DEF CacheIInv, HeldOnce
    <2>2. disk[1][c] = cache[j].data[c]
      BY <1>4 DEF CacheIInv, CleanIsStored, On
    <2>3. QED
      BY <1>1, <1>3, <1>4, <2>1, <2>2
  <1>5. QED
    BY <1>2, <1>3, <1>4

\* A call that ends, and leaves the cache as it is.
LEMMA CallEnds ==
  ASSUME FatCacheAssumption, CacheIInv, call.pc = "write", call' = NoCall,
         UNCHANGED <<cache, clock, losses>>,
         disk' = disk \/ disk' = WrittenBack(call.slot, call.copy)
  PROVE  CacheIInv'
  <1>1. /\ CacheTypeOK /\ call.slot \in CacheSlot /\ cache[call.slot].dirty /\ call.copy \in Copy
        /\ 1 \in Copy /\ 0 \in Values /\ 1 \in CacheSlot
    BY CallType DEF CacheIInv, InCall, Copy, CacheSlot, FatCacheAssumption
  <1>2. CacheTypeOK'
    <2>1. disk' \in [Copy -> [Cells -> Values]]
      BY <1>1, OthersStored
    <2>2. NoCall \in [kind : {"idle", "read", "write", "flush"}, pc : {"idle", "write", "load"},
                    off : Offsets \cup {0}, val : Values, slot : CacheSlot, copy : Copy]
          /\ NoCall.kind = "idle"
      BY <1>1 DEF NoCall
    <2>3. QED
      BY <1>1, <2>1, <2>2 DEF CacheTypeOK
  <1>3. HeldOnce' /\ InCall'
    BY DEF CacheIInv, HeldOnce, InCall, NoCall
  <1>4. CleanIsStored'
    BY <1>1, OthersStored DEF CleanIsStored, On
  <1>5. CopiesAgree'
    <2>1. SUFFICES ASSUME losses = 0, NEW k \in Copy, NEW c \in Cells, disk'[k][c] # disk'[1][c],
                          SectorOf(c) # cache[call.slot].sector
                   PROVE  \E j \in CacheSlot : cache[j].dirty /\ cache[j].sector = SectorOf(c)
      BY <1>1 DEF CopiesAgree, DirtySlots
    <2>2. disk'[k][c] = disk[k][c] /\ disk'[1][c] = disk[1][c]
      BY <1>1, <2>1, OthersStored
    <2>3. QED
      BY <2>1, <2>2 DEF CacheIInv, CopiesAgree, DirtySlots
  <1>6. QED
    BY <1>2, <1>3, <1>4, <1>5 DEF CacheIInv

\* A copy is written: all up to it have what the slot holds.
LEMMA UpToCopy ==
  ASSUME FatCacheAssumption, CacheIInv, call.pc = "write", disk' = WrittenBack(call.slot, call.copy)
  PROVE  \A m \in Copy : m <= call.copy =>
           \A c \in Cells : SectorOf(c) = cache[call.slot].sector => disk'[m][c] = cache[call.slot].data[c]
  <1>1. CacheTypeOK /\ call.slot \in CacheSlot /\ call.copy \in Copy /\ cache[call.slot].sector # NoSector
    BY CallType, SlotFacts DEF CacheIInv, InCall, CacheTypeOK
  <1>2. TAKE m \in Copy
  <1>3. HAVE m <= call.copy
  <1>4. CASE m = call.copy
    BY <1>1, <1>4, CopyWritten
  <1>5. CASE m # call.copy
    <2>1. m < call.copy
      BY <1>1, <1>3, <1>5 DEF Copy, FatCacheAssumption
    <2>2. On(call.slot, m) /\ disk'[m] = disk[m]
      BY <1>1, <1>5, <2>1, CopyWritten DEF CacheIInv, InCall
    <2>3. QED
      BY <2>2 DEF On
  <1>6. QED
    BY <1>4, <1>5

\* A copy that is not the last, or the last before a load.
LEMMA WriteOnKeeps ==
  ASSUME FatCacheAssumption, CacheIInv, WriteCopy, ~LastCopy \/ call.kind # "flush" PROVE CacheIInv'
  <1>1. /\ CacheTypeOK /\ call.slot \in CacheSlot /\ call.copy \in Copy /\ cache[call.slot].dirty
        /\ call.pc = "write" /\ disk' = WrittenBack(call.slot, call.copy)
        /\ UNCHANGED <<cache, clock, losses>> /\ 1 \in Copy
        /\ call.kind \in {"read", "write", "flush"}
        /\ (call.kind # "flush" => Holding(SectorOf(call.off)) = {})
    BY CallType DEF CacheIInv, InCall, WriteCopy, Copy, FatCacheAssumption
  <1>2. disk' \in [Copy -> [Cells -> Values]] /\ CleanIsStored' /\ HeldOnce'
    BY <1>1, OthersStored DEF CleanIsStored, On, CacheIInv, HeldOnce
  <1>3. CopiesAgree'
    <2>1. SUFFICES ASSUME losses = 0, NEW k \in Copy, NEW c \in Cells, disk'[k][c] # disk'[1][c],
                          SectorOf(c) # cache[call.slot].sector
                   PROVE  \E j \in CacheSlot : cache[j].dirty /\ cache[j].sector = SectorOf(c)
      BY <1>1 DEF CopiesAgree, DirtySlots
    <2>2. disk'[k][c] = disk[k][c] /\ disk'[1][c] = disk[1][c]
      BY <1>1, <2>1, OthersStored
    <2>3. QED
      BY <2>1, <2>2 DEF CacheIInv, CopiesAgree, DirtySlots
  <1>4. \A m \in Copy : m <= call.copy =>
          \A c \in Cells : SectorOf(c) = cache'[call.slot].sector => disk'[m][c] = cache'[call.slot].data[c]
    BY <1>1, UpToCopy
  <1>5. \A s : Holding(s)' = Holding(s)
    BY <1>1 DEF Holding
  <1>6. CASE ~LastCopy
    <2>1. call' = [call EXCEPT !.copy = call.copy + 1] /\ call.copy + 1 \in Copy
      BY <1>1, <1>6 DEF WriteCopy, LastCopy, Copy, FatCacheAssumption
    <2>2. /\ call'.kind = call.kind /\ call'.pc = "write" /\ call'.off = call.off
          /\ call'.slot = call.slot /\ call'.copy = call.copy + 1
      BY <1>1, <2>1 DEF CacheTypeOK
    <2>3. CacheTypeOK'
      BY <1>1, <1>2, <2>1, <2>2 DEF CacheTypeOK
    <2>4. InCall'
      <3>1. \A m \in Copy : m < call.copy + 1 => m <= call.copy
        BY <1>1 DEF Copy
      <3>2. \A m \in Copy : m < call'.copy =>
              \A c \in Cells : SectorOf(c) = cache'[call'.slot].sector => disk'[m][c] = cache'[call'.slot].data[c]
        BY <1>4, <2>2, <3>1
      <3>3. QED
        BY <1>1, <1>5, <2>2, <3>2 DEF InCall, On
    <2>5. QED
      BY <1>2, <1>3, <2>3, <2>4 DEF CacheIInv
  <1>7. CASE LastCopy /\ call.kind # "flush"
    <2>1. call' = [call EXCEPT !.pc = "load"] /\ call.copy = Copies
      BY <1>1, <1>7 DEF WriteCopy, LastCopy
    <2>2. /\ call'.kind = call.kind /\ call'.pc = "load" /\ call'.off = call.off
          /\ call'.slot = call.slot
      BY <1>1, <2>1 DEF CacheTypeOK
    <2>3. CacheTypeOK'
      BY <1>1, <1>2, <2>1, <2>2 DEF CacheTypeOK
    <2>4. InCall'
      <3>1. \A m \in Copy : m <= call.copy
        BY <2>1 DEF Copy, FatCacheAssumption
      <3>2. \A m \in Copy, c \in Cells :
              SectorOf(c) = cache'[call'.slot].sector => disk'[m][c] = cache'[call'.slot].data[c]
        BY <1>4, <2>2, <3>1
      <3>3. QED
        BY <1>1, <1>5, <1>7, <2>2, <3>2 DEF InCall, On
    <2>5. QED
      BY <1>2, <1>3, <2>3, <2>4 DEF CacheIInv
  <1>8. QED
    BY <1>6, <1>7

\* The last copy of a flush: the slot is clean, and the next dirty one follows.
LEMMA FlushOnKeeps ==
  ASSUME FatCacheAssumption, CacheIInv, WriteCopy, LastCopy, call.kind = "flush" PROVE CacheIInv'
  <1> DEFINE i == call.slot
             left == DirtySlots \ {i}
             next == CHOOSE j \in left : \A k \in left : j <= k
  <1>1. /\ CacheTypeOK /\ i \in CacheSlot /\ cache[i].dirty /\ cache[i].sector # NoSector /\ call.pc = "write"
        /\ disk' = WrittenBack(i, call.copy) /\ call.copy = Copies /\ call.copy \in Copy
        /\ cache' = [cache EXCEPT ![i].dirty = FALSE] /\ UNCHANGED <<clock, losses>>
        /\ 1 \in Copy /\ 0 \in Values /\ 1 \in CacheSlot
    BY CallType, SlotFacts DEF CacheIInv, InCall, WriteCopy, LastCopy, Copy, CacheSlot, CacheTypeOK, FatCacheAssumption
  <1>2. /\ left = {} => call' = NoCall
        /\ left # {} => call' = [call EXCEPT !.copy = 1, !.slot = next]
    BY <1>1 DEF WriteCopy
  <1>3. left # {} => next \in CacheSlot /\ next # i /\ cache[next].dirty
    <2>1. left \in SUBSET CacheSlot
      BY DEF DirtySlots
    <2>2. left # {} => next \in left
      BY <2>1, FirstOf
    <2>3. QED
      BY <2>2 DEF DirtySlots
  <1> HIDE DEF next
  <1>4. cache[i] \in SlotType /\ [cache[i] EXCEPT !.dirty = FALSE] \in SlotType
    BY <1>1, SlotUpdates DEF CacheTypeOK
  <1>5. cache[i] \in Filled(cache[i].sector)
    BY <1>1, <1>4, SlotCases
  <1>6. /\ cache' = [cache EXCEPT ![i] = [cache[i] EXCEPT !.dirty = FALSE]]
        /\ cache'[i] = [cache[i] EXCEPT !.dirty = FALSE]
        /\ \A j \in CacheSlot : j # i => cache'[j] = cache[j]
    BY <1>1 DEF CacheTypeOK
  <1>7. cache'[i].sector = cache[i].sector /\ cache'[i].data = cache[i].data
    BY <1>5, <1>6 DEF Filled
  <1>8. \A m \in Copy, c \in Cells : SectorOf(c) = cache[i].sector => disk'[m][c] = cache[i].data[c]
    BY <1>1, UpToCopy DEF Copy
  <1>9. CacheTypeOK'
    <2>1. disk' \in [Copy -> [Cells -> Values]]
      BY <1>1, OthersStored
    <2>2. cache' \in [CacheSlot -> SlotType]
      BY <1>1, <1>4, <1>6 DEF CacheTypeOK
    <2>3. NoCall \in [kind : {"idle", "read", "write", "flush"}, pc : {"idle", "write", "load"},
                    off : Offsets \cup {0}, val : Values, slot : CacheSlot, copy : Copy]
          /\ NoCall.kind = "idle"
      BY <1>1 DEF NoCall
    <2>4. /\ call' \in [kind : {"idle", "read", "write", "flush"}, pc : {"idle", "write", "load"},
                        off : Offsets \cup {0}, val : Values, slot : CacheSlot, copy : Copy]
          /\ call'.kind = "idle" \/ call'.kind = "flush"
      BY <1>1, <1>2, <1>3, <2>3 DEF CacheTypeOK
    <2>5. QED
      BY <1>1, <2>1, <2>2, <2>4 DEF CacheTypeOK
  <1>10. HeldOnce'
    BY <1>6, <1>7 DEF CacheIInv, HeldOnce
  <1>11. CleanIsStored'
    <2>1. SUFFICES ASSUME NEW j \in CacheSlot, cache'[j].sector # NoSector, ~cache'[j].dirty,
                          NEW c \in Cells, SectorOf(c) = cache'[j].sector
                   PROVE  disk'[1][c] = cache'[j].data[c]
      BY DEF CleanIsStored, On
    <2>2. CASE j = i
      BY <1>1, <1>7, <1>8, <2>1, <2>2
    <2>3. CASE j # i
      BY <1>1, <1>6, <2>1, <2>3, OthersStored
    <2>4. QED
      BY <2>2, <2>3
  <1>12. CopiesAgree'
    <2>1. SUFFICES ASSUME losses = 0, NEW k \in Copy, NEW c \in Cells, disk'[k][c] # disk'[1][c]
                   PROVE  \E j \in CacheSlot : cache'[j].dirty /\ cache'[j].sector = SectorOf(c)
      BY <1>1 DEF CopiesAgree, DirtySlots
    <2>2. SectorOf(c) # cache[i].sector
      BY <1>1, <1>8, <2>1
    <2>3. disk'[k][c] = disk[k][c] /\ disk'[1][c] = disk[1][c]
      BY <1>1, <2>2, OthersStored
    <2>4. PICK j \in CacheSlot : cache[j].dirty /\ cache[j].sector = SectorOf(c)
      BY <2>1, <2>3 DEF CacheIInv, CopiesAgree, DirtySlots
    <2>5. j # i
      BY <2>2, <2>4
    <2>6. QED
      BY <1>6, <2>4, <2>5
  <1>13. InCall'
    <2>1. CASE left = {}
      BY <1>2, <2>1 DEF InCall, NoCall
    <2>2. CASE left # {}
      <3>1. /\ call'.kind = "flush" /\ call'.pc = "write" /\ call'.slot = next /\ call'.copy = 1
        BY <1>1, <1>2, <1>3, <2>2 DEF CacheTypeOK
      <3>2. cache'[next].dirty /\ \A k \in Copy : ~(k < 1)
        BY <1>3, <1>6, <2>2 DEF Copy
      <3>3. QED
        BY <3>1, <3>2 DEF InCall
    <2>3. QED
      BY <2>1, <2>2
  <1>14. QED
    BY <1>9, <1>10, <1>11, <1>12, <1>13 DEF CacheIInv

\* The wanted sector is read.
LEMMA LoadKeeps ==
  ASSUME FatCacheAssumption, CacheIInv, Load
  PROVE  /\ CacheIInv'
         /\ \A j \in CacheSlot : j # call.slot => cache'[j] = cache[j]
         /\ cache'[call.slot].sector = SectorOf(call.off)
         /\ \A c \in CellsOf(SectorOf(call.off)) :
              cache'[call.slot].data[c] =
                IF call.kind = "write" /\ c \in Reached(call.off) THEN call.val ELSE disk[1][c]
  <1> DEFINE s == SectorOf(call.off)
             d == [c \in CellsOf(s) |-> disk[1][c]]
             x == [sector |-> s, data |-> d, dirty |-> FALSE, used |-> Tick]
             y == AfterAccess(x, call.kind, call.off, call.val)
  <1>1. /\ CacheTypeOK /\ call.pc = "load" /\ call.slot \in CacheSlot /\ call.kind \in {"read", "write"}
        /\ call.off \in Offsets /\ call.val \in Values
        /\ clock' = Tick /\ call' = NoCall /\ UNCHANGED <<disk, losses>>
        /\ 1 \in Copy /\ 0 \in Values /\ 1 \in CacheSlot
    BY CallType DEF CacheIInv, InCall, Load, CacheTypeOK, Copy, CacheSlot, FatCacheAssumption
  <1>2. s \in Sector /\ s # NoSector
    <2>1. call.off \in Cells
      BY <1>1 DEF FatCacheAssumption
    <2>2. QED
      BY <2>1, SectorOfCell
  <1>3. d \in [CellsOf(s) -> Values] /\ \A c \in CellsOf(s) : d[c] = disk[1][c]
    BY <1>1 DEF CacheTypeOK, CellsOf
  <1>4. Tick \in 0 .. ClockMod - 1
    BY <1>1, TickType
  <1>5. Answer(call.slot, x, call.kind, call.off, call.val)
    BY DEF Load
  <1> HIDE DEF s, d
  <1>6. x \in SlotType /\ x.sector = s /\ x.data = d
    BY <1>2, <1>3, <1>4, NewSlot
  <1>7. cache' = [cache EXCEPT ![call.slot] = y]
    BY <1>1, <1>5 DEF Answer, AfterAccess, Dirtied, Changed
  <1> HIDE DEF x
  <1>8. /\ y \in SlotType /\ y.sector = s
        /\ call.kind = "read" => y = x
        /\ call.kind = "write" => y.dirty = TRUE /\ y.data = Changed(x, call.off, call.val)
    <2>1. x.sector # NoSector
      BY <1>2, <1>6
    <2>2. ASSUME NEW kind \in {"read", "write"}, NEW o \in Offsets, NEW v \in Values
          PROVE  /\ AfterAccess(x, kind, o, v) \in SlotType
                 /\ AfterAccess(x, kind, o, v).sector = s
                 /\ kind = "read" => AfterAccess(x, kind, o, v) = x
                 /\ kind = "write" => /\ AfterAccess(x, kind, o, v).dirty = TRUE
                                      /\ AfterAccess(x, kind, o, v).data = Changed(x, o, v)
      <3>1. x \in SlotType /\ x.sector = s
        BY <1>6
      <3>2. QED
        BY ONLY FatCacheAssumption, <2>1, <2>2, <3>1, AnswerIs, ZenonT(60)
    <2>3. QED
      BY <1>1, <2>2
  <1> HIDE DEF y
  <1>9. DOMAIN d = CellsOf(s)
    BY <1>3
  <1>10. /\ call.kind = "read" => \A c \in CellsOf(s) : y.data[c] = disk[1][c]
         /\ call.kind = "write" => y.dirty = TRUE /\
              \A c \in CellsOf(s) : y.data[c] = IF c \in Reached(call.off) THEN call.val ELSE disk[1][c]
    BY <1>3, <1>6, <1>8, <1>9 DEF Changed
  <1>11. HeldOnce' /\ CleanIsStored' /\ InCall' /\ CopiesAgree'
    BY <1>1, <1>7, <1>8, <1>10, SlotTaken DEF s
  <1>12. CacheTypeOK'
    <2>1. cache' \in [CacheSlot -> SlotType]
      BY <1>1, <1>7, <1>8 DEF CacheTypeOK
    <2>2. NoCall \in [kind : {"idle", "read", "write", "flush"}, pc : {"idle", "write", "load"},
                    off : Offsets \cup {0}, val : Values, slot : CacheSlot, copy : Copy]
          /\ NoCall.kind = "idle"
      BY <1>1 DEF NoCall
    <2>3. QED
      BY <1>1, <1>4, <2>1, <2>2 DEF CacheTypeOK
  <1>13. cache'[call.slot] = y /\ \A j \in CacheSlot : j # call.slot => cache'[j] = cache[j]
    BY <1>1, <1>7 DEF CacheTypeOK
  <1>14. \A c \in CellsOf(s) :
           y.data[c] = IF call.kind = "write" /\ c \in Reached(call.off) THEN call.val ELSE disk[1][c]
    BY <1>1, <1>10
  <1>15. QED
    BY <1>8, <1>11, <1>12, <1>13, <1>14 DEF CacheIInv, s

\* A sector that cannot be read.
LEMMA LoadFailsKeeps == ASSUME FatCacheAssumption, CacheIInv, LoadFails PROVE CacheIInv'
  <1>1. call' = NoCall /\ UNCHANGED <<disk, cache, clock, losses>>
    BY DEF LoadFails
  <1>2. CacheTypeOK'
    <2>1. 1 \in Copy /\ 0 \in Values /\ 1 \in CacheSlot
      BY DEF Copy, CacheSlot, FatCacheAssumption
    <2>2. NoCall \in [kind : {"idle", "read", "write", "flush"}, pc : {"idle", "write", "load"},
                    off : Offsets \cup {0}, val : Values, slot : CacheSlot, copy : Copy]
          /\ NoCall.kind = "idle"
      BY <2>1 DEF NoCall
    <2>3. QED
      BY <1>1, <2>2 DEF CacheIInv, CacheTypeOK
  <1>3. InCall'
    BY <1>1 DEF InCall, NoCall
  <1>4. QED
    BY <1>1, <1>2, <1>3 DEF CacheIInv, HeldOnce, CleanIsStored, On, CopiesAgree, DirtySlots

\* The cache is empty after a loss of power.
LEMMA CrashKeeps == ASSUME FatCacheAssumption, CacheIInv, PowerLoss PROVE CacheIInv'
  <1>1. /\ cache' = [i \in CacheSlot |-> Empty] /\ clock' = 0 /\ call' = NoCall /\ UNCHANGED disk
        /\ losses' \in 0 .. MaxLosses /\ losses' # 0
    BY DEF PowerLoss, CacheIInv, CacheTypeOK, FatCacheAssumption
  <1>2. CacheTypeOK'
    <2>1. 1 \in Copy /\ 0 \in Values /\ 1 \in CacheSlot /\ 0 \in 0 .. ClockMod - 1
      BY DEF Copy, CacheSlot, FatCacheAssumption
    <2>2. NoCall \in [kind : {"idle", "read", "write", "flush"}, pc : {"idle", "write", "load"},
                    off : Offsets \cup {0}, val : Values, slot : CacheSlot, copy : Copy]
          /\ NoCall.kind = "idle"
      BY <2>1 DEF NoCall
    <2>3. cache' \in [CacheSlot -> SlotType]
      BY <1>1 DEF SlotType
    <2>4. QED
      BY <1>1, <2>1, <2>2, <2>3 DEF CacheIInv, CacheTypeOK
  <1>3. \A i \in CacheSlot : cache'[i].sector = NoSector
    BY <1>1 DEF Empty
  <1>4. HeldOnce' /\ CleanIsStored' /\ InCall'
    BY <1>1, <1>3 DEF HeldOnce, CleanIsStored, InCall, NoCall
  <1>5. CopiesAgree'
    BY <1>1 DEF CopiesAgree
  <1>6. QED
    BY <1>2, <1>4, <1>5 DEF CacheIInv

\* Every step keeps the invariant.
LEMMA CacheNextIInv == ASSUME FatCacheAssumption PROVE CacheIInv /\ [CacheNext]_cacheVars => CacheIInv'
  <1> SUFFICES ASSUME CacheIInv, [CacheNext]_cacheVars PROVE CacheIInv'
    OBVIOUS
  <1>1. ASSUME NEW kind \in {"read", "write"}, NEW o \in Offsets, NEW v \in Values, Access(kind, o, v)
        PROVE  CacheIInv'
    BY <1>1, HitKeeps, MissKeeps
  <1>2. ASSUME NEW o \in Offsets, Read(o) PROVE CacheIInv'
    <2>1. 0 \in Values
      BY DEF FatCacheAssumption
    <2>2. Access("read", o, 0)
      BY <1>2 DEF Read
    <2>3. QED
      BY <1>1, <2>1, <2>2
  <1>3. ASSUME NEW o \in Offsets, NEW v \in Values, Write(o, v) PROVE CacheIInv'
    <2>1. Access("write", o, v)
      BY <1>3 DEF Write
    <2>2. QED
      BY <1>1, <2>1
  <1>4. CASE FlushCache
    BY <1>4, FlushKeeps
  <1>5. CASE WriteCopy
    BY <1>5, WriteOnKeeps, FlushOnKeeps
  <1>6. CASE WriteFails
    <2>1. disk' = disk \/ disk' = WrittenBack(call.slot, call.copy)
      BY <1>6 DEF WriteFails
    <2>2. call.pc = "write" /\ call' = NoCall /\ UNCHANGED <<cache, clock, losses>>
      BY <1>6 DEF WriteFails, AfterFailure
    <2>3. QED
      BY <2>1, <2>2, CallEnds
  <1>7. CASE Load
    BY <1>7, LoadKeeps
  <1>8. CASE LoadFails
    BY <1>8, LoadFailsKeeps
  <1>9. CASE PowerLoss
    BY <1>9, CrashKeeps
  <1>10. CASE UNCHANGED cacheVars
    BY <1>10 DEF cacheVars, CacheIInv, CacheTypeOK, HeldOnce, CleanIsStored, InCall, On, CopiesAgree, DirtySlots, Holding
  <1>11. QED
    BY <1>2, <1>3, <1>4, <1>5, <1>6, <1>7, <1>8, <1>9, <1>10 DEF CacheNext

-----------------------------------------------------------------------------
\* The table that the cache implements.
CacheNow == [c \in Cells |-> CellNow(c)]

\* Cells that keep what they hold.
LEMMA NowKept == ASSUME \A c \in Cells : CellNow(c)' = CellNow(c) PROVE CacheNow' = CacheNow
  BY DEF CacheNow

\* The cells of an access, all in one sector.
LEMMA SpanFacts ==
  ASSUME FatCacheAssumption, Aligned, NEW o \in Offsets
  PROVE  /\ Store!Span(o) \subseteq Cells /\ Reached(o) = Store!Span(o) /\ o \in Cells
         /\ \A c \in Store!Span(o) : SectorOf(c) = SectorOf(o)
  BY DEF FatCacheAssumption, Aligned, Reached, Store!Span

\* An access whose sector is held is answered as the table answers it.
LEMMA HitImplements ==
  ASSUME FatCacheAssumption, Aligned, CacheIInv, NEW kind \in {"read", "write"}, NEW o \in Offsets,
         NEW v \in Values, Access(kind, o, v), Holding(SectorOf(o)) # {}
  PROVE  IF kind = "read" THEN Store!StoreRead(o) ELSE Store!StoreWrite(o, v)
  <1>1. PICK i \in CacheSlot :
              /\ cache[i].sector = SectorOf(o)
              /\ \A j \in CacheSlot :
                   /\ cache'[j].sector = cache[j].sector
                   /\ j # i => cache'[j].data = cache[j].data
              /\ kind = "read" => cache'[i].data = cache[i].data
              /\ kind = "write" => cache'[i].data = Changed(cache[i], o, v)
    BY HitKeeps
  <1>2. HeldOnce /\ HeldOnce' /\ CacheTypeOK /\ disk' = disk
    BY HitKeeps DEF CacheIInv, Access
  <1>3. Store!Span(o) \subseteq Cells /\ Reached(o) = Store!Span(o)
        /\ \A c \in Store!Span(o) : SectorOf(c) = SectorOf(o)
    BY SpanFacts
  <1>4. cache[i].sector # NoSector /\ cache[i].data \in [CellsOf(cache[i].sector) -> Values]
    <2>1. cache[i].sector # NoSector
      BY <1>1, SpanFacts, SectorOfCell
    <2>2. QED
      BY <1>2, <2>1, SlotFacts DEF CacheTypeOK
  <1>5. CASE kind = "read"
    <2>1. \A c \in Cells : CellNow(c)' = CellNow(c)
      BY <1>1, <1>2, <1>5, CellsKept
    <2>2. CacheNow' = CacheNow
      BY <2>1, NowKept
    <2>3. out' = Store!ReadAs(o, [c \in Store!Span(o) |-> CacheNow[c]])
      <3> DEFINE k == CHOOSE j \in Holding(SectorOf(o)) : TRUE
      <3>1. out' = Store!ReadAs(o, [c \in Store!Span(o) |->
                                      IF c \in Reached(o) THEN [cache[k] EXCEPT !.used = Tick].data[c] ELSE 0])
        BY <1>5 DEF Access, Answer
      <3>2. k \in Holding(SectorOf(o))
        OBVIOUS
      <3>3. k \in CacheSlot /\ cache[k].sector = SectorOf(o)
        BY <3>2 DEF Holding
      <3> HIDE DEF k
      <3>4. cache[k] \in Filled(cache[k].sector)
        BY <1>1, <1>2, <1>4, <3>3, SlotCases DEF CacheTypeOK
      <3>5. [cache[k] EXCEPT !.used = Tick].data = cache[k].data
        BY <3>4 DEF Filled
      <3>6. \A c \in Store!Span(o) : cache[k].data[c] = CacheNow[c]
        BY <1>2, <1>3, <3>3, CellNowIs DEF CacheNow
      <3>7. [c \in Store!Span(o) |->
                IF c \in Reached(o) THEN [cache[k] EXCEPT !.used = Tick].data[c] ELSE 0]
            = [c \in Store!Span(o) |-> CacheNow[c]]
        BY <1>3, <3>5, <3>6
      <3>8. QED
        BY <3>1, <3>7
    <2>4. QED
      BY <1>2, <1>5, <2>2, <2>3 DEF Store!StoreRead, CacheNow
  <1>6. CASE kind = "write"
    <2>1. ASSUME NEW c \in Cells
          PROVE  CellNow(c)' = IF c \in Store!Span(o) THEN v ELSE CellNow(c)
      <3>1. CASE SectorOf(c) = SectorOf(o)
        <4>1. CellNow(c) = cache[i].data[c] /\ CellNow(c)' = cache'[i].data[c]
          BY <1>1, <1>2, <3>1, CellNowIs, CellNextIs
        <4>2. c \in DOMAIN cache[i].data
          BY <1>1, <1>4, <3>1 DEF CellsOf
        <4>3. cache'[i].data[c] = IF c \in Reached(o) THEN v ELSE cache[i].data[c]
          BY <1>1, <1>6, <4>2 DEF Changed
        <4>4. QED
          BY <1>3, <4>1, <4>3
      <3>2. CASE SectorOf(c) # SectorOf(o)
        <4>1. c \notin Store!Span(o)
          BY <1>3, <3>2
        <4>2. CASE \E j \in CacheSlot : cache[j].sector = SectorOf(c)
          <5>1. PICK j \in CacheSlot : cache[j].sector = SectorOf(c)
            BY <4>2
          <5>2. j # i /\ cache'[j].sector = SectorOf(c) /\ cache'[j].data = cache[j].data
            BY <1>1, <3>2, <5>1
          <5>3. QED
            BY <1>2, <4>1, <5>1, <5>2, CellNowIs, CellNextIs
        <4>3. CASE \A j \in CacheSlot : cache[j].sector # SectorOf(c)
          BY <1>1, <1>2, <4>1, <4>3, CellNowIs, CellNextIs
        <4>4. QED
          BY <4>2, <4>3
      <3>3. QED
        BY <3>1, <3>2
    <2>2. CacheNow' = [c \in Cells |-> IF c \in Store!Span(o) THEN v ELSE CacheNow[c]]
      BY <2>1 DEF CacheNow
    <2>3. out' = Store!Written(o, v)
      BY <1>6 DEF Access, Answer
    <2>4. QED
      BY <1>2, <1>6, <2>2, <2>3 DEF Store!StoreWrite, CacheNow
  <1>7. QED
    BY <1>5, <1>6

\* So is one whose sector was loaded.
LEMMA LoadImplements ==
  ASSUME FatCacheAssumption, Aligned, CacheIInv, Load
  PROVE  \/ Store!StoreRead(call.off)
         \/ Store!StoreWrite(call.off, call.val)
  <1> DEFINE o == call.off
             v == call.val
             i == call.slot
  <1>1. /\ CacheTypeOK /\ call.pc = "load" /\ call.kind \in {"read", "write"} /\ o \in Offsets
        /\ v \in Values /\ i \in CacheSlot /\ disk' = disk /\ HeldOnce /\ HeldOnce' /\ 1 \in Copy
        /\ Holding(SectorOf(o)) = {}
        /\ (cache[i].sector # NoSector => On(i, 1))
    BY CallType, LoadKeeps DEF CacheIInv, InCall, Load, CacheTypeOK, CleanIsStored, Copy, FatCacheAssumption
  <1>2. /\ \A j \in CacheSlot : j # i => cache'[j] = cache[j]
        /\ cache'[i].sector = SectorOf(o)
        /\ \A c \in CellsOf(SectorOf(o)) :
              cache'[i].data[c] = IF call.kind = "write" /\ c \in Reached(o) THEN v ELSE disk[1][c]
    BY LoadKeeps
  <1>3. Store!Span(o) \subseteq Cells /\ Reached(o) = Store!Span(o)
        /\ \A c \in Store!Span(o) : SectorOf(c) = SectorOf(o)
    BY <1>1, SpanFacts
  <1>4. Answer(i, [sector |-> SectorOf(o), data |-> [c \in CellsOf(SectorOf(o)) |-> disk[1][c]],
                   dirty |-> FALSE, used |-> Tick], call.kind, o, v)
    BY DEF Load
  <1> HIDE DEF o, v, i
  <1>5. ASSUME NEW c \in Cells
        PROVE  CellNow(c)' = IF call.kind = "write" /\ c \in Store!Span(o) THEN v ELSE CellNow(c)
    <2>1. CASE SectorOf(c) = SectorOf(o)
      <3>1. CellNow(c) = disk[1][c]
        BY <1>1, <2>1, CellNowIs DEF Holding
      <3>2. CellNow(c)' = cache'[i].data[c] /\ c \in CellsOf(SectorOf(o))
        BY <1>1, <1>2, <2>1, CellNextIs DEF CellsOf
      <3>3. QED
        BY <1>2, <1>3, <3>1, <3>2
    <2>2. CASE SectorOf(c) # SectorOf(o)
      <3>1. c \notin Store!Span(o)
        BY <1>3, <2>2
      <3>2. CASE cache[i].sector = SectorOf(c)
        <4>1. CellNow(c) = cache[i].data[c] /\ cache[i].data[c] = disk[1][c]
          BY <1>1, <3>2, CellNowIs, SectorOfCell DEF On
        <4>2. \A j \in CacheSlot : cache'[j].sector # SectorOf(c)
          BY <1>1, <1>2, <2>2, <3>2, SectorOfCell DEF HeldOnce
        <4>3. QED
          BY <1>1, <3>1, <4>1, <4>2, CellNextIs
      <3>3. CASE \E j \in CacheSlot : j # i /\ cache[j].sector = SectorOf(c)
        <4>1. PICK j \in CacheSlot : j # i /\ cache[j].sector = SectorOf(c)
          BY <3>3
        <4>2. cache'[j] = cache[j]
          BY <1>2, <4>1
        <4>3. QED
          BY <1>1, <3>1, <4>1, <4>2, CellNowIs, CellNextIs
      <3>4. CASE \A j \in CacheSlot : cache[j].sector # SectorOf(c)
        <4>1. \A j \in CacheSlot : cache'[j].sector # SectorOf(c)
          BY <1>2, <2>2, <3>4
        <4>2. QED
          BY <1>1, <3>1, <3>4, <4>1, CellNowIs, CellNextIs
      <3>5. QED
        BY <3>2, <3>3, <3>4
    <2>3. QED
      BY <2>1, <2>2
  <1>6. CASE call.kind = "read"
    <2>1. CacheNow' = CacheNow
      BY <1>5, <1>6 DEF CacheNow
    <2>2. \A c \in Store!Span(o) : c \in CellsOf(SectorOf(o)) /\ CacheNow[c] = disk[1][c]
      BY <1>1, <1>3, CellNowIs DEF CacheNow, CellsOf, Holding
    <2>3. out' = Store!ReadAs(o, [c \in Store!Span(o) |->
                   IF c \in Reached(o) THEN [d \in CellsOf(SectorOf(o)) |-> disk[1][d]][c] ELSE 0])
      BY <1>4, <1>6 DEF Answer
    <2>4. [c \in Store!Span(o) |->
              IF c \in Reached(o) THEN [d \in CellsOf(SectorOf(o)) |-> disk[1][d]][c] ELSE 0]
          = [c \in Store!Span(o) |-> CacheNow[c]]
      BY <1>3, <2>2
    <2>5. out' = Store!ReadAs(o, [c \in Store!Span(o) |-> CacheNow[c]])
      BY <2>3, <2>4
    <2>6. QED
      BY <1>1, <2>1, <2>5 DEF Store!StoreRead, CacheNow, o
  <1>7. CASE call.kind = "write"
    <2>1. CacheNow' = [c \in Cells |-> IF c \in Store!Span(o) THEN v ELSE CacheNow[c]]
      BY <1>5, <1>7 DEF CacheNow
    <2>2. out' = Store!Written(o, v)
      BY <1>4, <1>7 DEF Answer
    <2>3. QED
      BY <1>1, <2>1, <2>2 DEF Store!StoreWrite, CacheNow, o, v
  <1>8. QED
    BY <1>1, <1>6, <1>7

\* A copy of a sector is written, or its writing fails: some cells reach the volume.
LEMMA CopyImplements ==
  ASSUME FatCacheAssumption, CacheIInv, HeldOnce', call.pc = "write",
         disk' = disk \/ disk' = WrittenBack(call.slot, call.copy),
         \A i \in CacheSlot : cache'[i].sector = cache[i].sector /\ cache'[i].data = cache[i].data
  PROVE  /\ CacheNow' = CacheNow
         /\ \A c \in Cells : disk'[1][c] \in {disk[1][c], CacheNow[c]}
         /\ \A c \in Cells : SectorOf(c) # cache[call.slot].sector => disk'[1][c] = disk[1][c]
  <1>1. /\ CacheTypeOK /\ HeldOnce /\ call.slot \in CacheSlot /\ call.copy \in Copy /\ cache[call.slot].dirty
        /\ cache[call.slot].sector # NoSector /\ 1 \in Copy
    BY CallType, SlotFacts DEF CacheIInv, InCall, CacheTypeOK, Copy, FatCacheAssumption
  <1>2. \A c \in Cells : SectorOf(c) # cache[call.slot].sector => disk'[1][c] = disk[1][c]
    BY <1>1, OthersStored
  <1>3. \A c \in Cells : CellNow(c)' = CellNow(c)
    BY <1>1, <1>2, CellsKept
  <1>4. ASSUME NEW c \in Cells, SectorOf(c) = cache[call.slot].sector
        PROVE  disk'[1][c] \in {disk[1][c], CacheNow[c]}
    <2>1. CacheNow[c] = cache[call.slot].data[c]
      BY <1>1, <1>4, CellNowIs DEF CacheNow
    <2>2. CASE disk' = disk
      BY <2>2
    <2>3. CASE disk' = WrittenBack(call.slot, call.copy)
      <3>1. \A m \in Copy : disk'[m][c] = cache[call.slot].data[c] \/ disk'[m] = disk[m]
        BY <1>1, <1>4, <2>3, CopyWritten
      <3>2. QED
        BY <1>1, <2>1, <3>1
    <2>4. QED
      BY <2>2, <2>3
  <1>5. QED
    BY <1>2, <1>3, <1>4, NowKept

\* Without dirty slots the volume has what the table has.
LEMMA StoredNow ==
  ASSUME FatCacheAssumption, CacheTypeOK, HeldOnce, \A i \in CacheSlot : cache[i].sector # NoSector => On(i, 1)
  PROVE  disk[1] = CacheNow
  <1>1. disk[1] \in [Cells -> Values]
    BY DEF CacheTypeOK, Copy, FatCacheAssumption
  <1>2. ASSUME NEW c \in Cells PROVE CacheNow[c] = disk[1][c]
    <2>1. CASE \E i \in CacheSlot : cache[i].sector = SectorOf(c)
      <3>1. PICK i \in CacheSlot : cache[i].sector = SectorOf(c)
        BY <2>1
      <3>2. CellNow(c) = cache[i].data[c] /\ On(i, 1)
        BY <3>1, CellNowIs, SectorOfCell
      <3>3. QED
        BY <3>1, <3>2 DEF On, CacheNow
    <2>2. CASE \A i \in CacheSlot : cache[i].sector # SectorOf(c)
      BY <2>2, CellNowIs DEF CacheNow
    <2>3. QED
      BY <2>1, <2>2
  <1>3. CacheNow = [c \in Cells |-> disk[1][c]]
    BY <1>2 DEF CacheNow
  <1>4. QED
    BY <1>1, <1>3

\* The same in the next state.
LEMMA StoredNext ==
  ASSUME FatCacheAssumption, CacheTypeOK', HeldOnce',
         \A i \in CacheSlot : cache'[i].sector # NoSector => On(i, 1)'
  PROVE  disk'[1] = CacheNow'
  <1>1. disk'[1] \in [Cells -> Values]
    BY DEF CacheTypeOK, Copy, FatCacheAssumption
  <1>2. ASSUME NEW c \in Cells PROVE CacheNow'[c] = disk'[1][c]
    <2>1. CASE \E i \in CacheSlot : cache'[i].sector = SectorOf(c)
      <3>1. PICK i \in CacheSlot : cache'[i].sector = SectorOf(c)
        BY <2>1
      <3>2. CellNow(c)' = cache'[i].data[c] /\ On(i, 1)'
        BY <3>1, CellNextIs, SectorOfCell
      <3>3. QED
        BY <3>1, <3>2 DEF On, CacheNow
    <2>2. CASE \A i \in CacheSlot : cache'[i].sector # SectorOf(c)
      BY <2>2, CellNextIs DEF CacheNow
    <2>3. QED
      BY <2>1, <2>2
  <1>3. CacheNow' = [c \in Cells |-> disk'[1][c]]
    BY <1>2 DEF CacheNow
  <1>4. QED
    BY <1>1, <1>3

\* A flush without dirty slots has nothing to write.
LEMMA FlushImplements ==
  ASSUME FatCacheAssumption, CacheIInv, FlushCache PROVE Store!StoreCall \/ Store!StoreFlush
  <1>1. CacheTypeOK /\ HeldOnce /\ UNCHANGED <<disk, cache>>
    BY DEF CacheIInv, FlushCache
  <1>2. CacheNow' = CacheNow
    BY <1>1 DEF CacheNow, CellNow, Holding
  <1>3. CASE DirtySlots = {}
    <2>1. \A i \in CacheSlot : cache[i].sector # NoSector => On(i, 1)
      BY <1>3 DEF CacheIInv, CleanIsStored, DirtySlots
    <2>2. disk[1] = CacheNow
      BY <1>1, <2>1, StoredNow
    <2>3. out' = Store!Flushed
      BY <1>3 DEF FlushCache
    <2>4. QED
      BY <1>1, <1>2, <2>2, <2>3 DEF Store!StoreFlush, CacheNow
  <1>4. CASE DirtySlots # {}
    <2>1. out' = Store!NoAnswer
      BY <1>4 DEF FlushCache
    <2>2. QED
      BY <1>1, <1>2, <2>1 DEF Store!StoreCall, CacheNow
  <1>5. QED
    BY <1>3, <1>4

\* The last copy of the last dirty sector ends a flush: the volume has the table.
LEMMA WriteCopyImplements ==
  ASSUME FatCacheAssumption, CacheIInv, WriteCopy PROVE Store!StoreWriteBack \/ Store!StoreFlush
  <1>1. /\ CacheTypeOK /\ call.slot \in CacheSlot /\ call.copy \in Copy /\ cache[call.slot].dirty
        /\ call.pc = "write" /\ disk' = WrittenBack(call.slot, call.copy) /\ 1 \in Copy
        /\ cache[call.slot].sector # NoSector /\ CacheIInv'
    BY SMTT(20), CallType, SlotFacts, CacheNextIInv DEF CacheIInv, InCall, WriteCopy, CacheTypeOK, CacheNext, Copy, FatCacheAssumption
  <1>2. \A i \in CacheSlot : cache'[i].sector = cache[i].sector /\ cache'[i].data = cache[i].data
    <2>1. CASE UNCHANGED cache
      BY <2>1
    <2>2. CASE cache' = [cache EXCEPT ![call.slot].dirty = FALSE]
      <3>1. cache[call.slot] \in Filled(cache[call.slot].sector)
        BY <1>1, SlotCases DEF CacheTypeOK
      <3>2. /\ cache'[call.slot] = [cache[call.slot] EXCEPT !.dirty = FALSE]
            /\ \A j \in CacheSlot : j # call.slot => cache'[j] = cache[j]
        BY <1>1, <2>2 DEF CacheTypeOK
      <3>3. QED
        BY <3>1, <3>2 DEF Filled
    <2>3. QED
      BY <2>1, <2>2 DEF WriteCopy
  <1>3. CacheNow' = CacheNow /\ \A c \in Cells : disk'[1][c] \in {disk[1][c], CacheNow[c]}
    BY <1>1, <1>2, CopyImplements DEF CacheIInv
  <1>4. CASE out' = out
    BY <1>3, <1>4 DEF Store!StoreWriteBack, CacheNow
  <1>5. CASE out' # out
    <2>1. /\ LastCopy /\ call.kind = "flush" /\ DirtySlots \ {call.slot} = {} /\ out' = Store!Flushed
          /\ cache' = [cache EXCEPT ![call.slot].dirty = FALSE]
      BY <1>5 DEF WriteCopy
    <2>2. ASSUME NEW i \in CacheSlot, cache'[i].sector # NoSector PROVE On(i, 1)'
      <3>1. CASE i = call.slot
        <4>1. \A c \in Cells : SectorOf(c) = cache[i].sector => disk'[1][c] = cache[i].data[c]
          BY <1>1, <2>1, <3>1, UpToCopy DEF LastCopy, Copy
        <4>2. QED
          BY <1>2, <4>1 DEF On
      <3>2. CASE i # call.slot
        <4>1. ~cache[i].dirty /\ cache'[i] = cache[i]
          BY <1>1, <2>1, <3>2 DEF DirtySlots, CacheTypeOK
        <4>2. QED
          BY <1>1, <2>2, <4>1 DEF CacheIInv, CleanIsStored
      <3>3. QED
        BY <3>1, <3>2
    <2>3. disk'[1] = CacheNow'
      BY <1>1, <2>2, StoredNext DEF CacheIInv
    <2>4. QED
      BY <1>3, <2>1, <2>3 DEF Store!StoreFlush, CacheNow
  <1>6. QED
    BY <1>4, <1>5

\* A failed call may have written a copy, and answers so.
LEMMA FailureImplements ==
  ASSUME FatCacheAssumption, CacheIInv, WriteFails \/ LoadFails PROVE Store!StoreWriteBack
  <1>1. CacheIInv' /\ cache' = cache /\ out' = Store!Failed
    BY CacheNextIInv DEF WriteFails, LoadFails, AfterFailure, CacheNext
  <1>2. CacheNow' = CacheNow /\ \A c \in Cells : disk'[1][c] \in {disk[1][c], CacheNow[c]}
    <2>1. CASE WriteFails
      <3>1. call.pc = "write" /\ (disk' = disk \/ disk' = WrittenBack(call.slot, call.copy))
        BY <2>1 DEF WriteFails
      <3>2. QED
        BY <1>1, <3>1, CopyImplements DEF CacheIInv
    <2>2. CASE LoadFails
      BY <1>1, <2>2 DEF LoadFails, CacheNow, CellNow, Holding
    <2>3. QED
      BY <2>1, <2>2
  <1>3. QED
    BY <1>1, <1>2 DEF Store!StoreWriteBack, CacheNow

\* A loss of power leaves what the volume has.
LEMMA CrashImplements ==
  ASSUME FatCacheAssumption, CacheIInv, PowerLoss PROVE Store!StoreCrash
  <1>1. /\ cache' = [i \in CacheSlot |-> Empty] /\ disk' = disk /\ out' = Store!NoAnswer /\ CacheIInv'
    BY CacheNextIInv DEF PowerLoss, CacheNext
  <1>2. \A i \in CacheSlot : cache'[i].sector = NoSector
    BY <1>1 DEF Empty
  <1>3. disk'[1] = CacheNow'
    BY <1>1, <1>2, StoredNext DEF CacheIInv
  <1>4. QED
    BY <1>1, <1>3 DEF Store!StoreCrash, CacheNow

\* An access is answered as by a plain table, at once or after a miss.
LEMMA AccessImplements ==
  ASSUME FatCacheAssumption, Aligned, CacheIInv, NEW kind \in {"read", "write"}, NEW o \in Offsets,
         NEW v \in Values, Access(kind, o, v)
  PROVE  Store!StoreNext
  <1>1. CASE Holding(SectorOf(o)) # {}
    BY <1>1, HitImplements DEF Store!StoreNext
  <1>2. CASE Holding(SectorOf(o)) = {}
    <2>1. UNCHANGED <<disk, cache>> /\ out' = Store!NoAnswer
      BY <1>2, MissKeeps
    <2>2. Store!StoreCall
      BY <2>1 DEF Store!StoreCall, CellNow, Holding
    <2>3. QED
      BY <2>2 DEF Store!StoreNext
  <1>3. QED
    BY <1>1, <1>2

\* Every step is one of the table, or none.
LEMMA NextImplements ==
  ASSUME FatCacheAssumption, Aligned PROVE CacheIInv /\ [CacheNext]_cacheVars => [Store!StoreNext]_(Store!storeVars)
  <1> SUFFICES ASSUME CacheIInv, [CacheNext]_cacheVars PROVE [Store!StoreNext]_(Store!storeVars)
    OBVIOUS
  <1>1. ASSUME NEW o \in Offsets, Read(o) PROVE Store!StoreNext
    <2>1. 0 \in Values /\ Access("read", o, 0)
      BY <1>1 DEF FatCacheAssumption, Read
    <2>2. QED
      BY <2>1, AccessImplements
  <1>2. ASSUME NEW o \in Offsets, NEW v \in Values, Write(o, v) PROVE Store!StoreNext
    <2>1. Access("write", o, v)
      BY <1>2 DEF Write
    <2>2. QED
      BY <2>1, AccessImplements
  <1>3. CASE FlushCache
    BY <1>3, FlushImplements DEF Store!StoreNext
  <1>4. CASE WriteCopy
    BY <1>4, WriteCopyImplements DEF Store!StoreNext
  <1>5. CASE WriteFails \/ LoadFails
    BY <1>5, FailureImplements DEF Store!StoreNext
  <1>6. CASE Load
    <2>1. call.off \in Offsets /\ call.val \in Values
      BY <1>6, CallType DEF CacheIInv, InCall, Load, CacheTypeOK
    <2>2. QED
      BY <1>6, <2>1, LoadImplements DEF Store!StoreNext
  <1>7. CASE PowerLoss
    BY <1>7, CrashImplements DEF Store!StoreNext
  <1>8. CASE UNCHANGED cacheVars
    BY <1>8 DEF cacheVars, Store!storeVars, CellNow, Holding
  <1>9. QED
    BY <1>1, <1>2, <1>3, <1>4, <1>5, <1>6, <1>7, <1>8 DEF CacheNext

-----------------------------------------------------------------------------
LEMMA InvariantHolds == ASSUME FatCacheAssumption PROVE CacheSpec => []CacheIInv
  <1>1. CacheInit => CacheIInv
    BY CacheInitIInv
  <1>2. CacheIInv /\ [CacheNext]_cacheVars => CacheIInv'
    BY CacheNextIInv
  <1>3. QED
    BY <1>1, <1>2, PTL DEF CacheSpec

\* Type correctness, of tables and caches of every size: a slot holds exactly the cells of a
\* sector of the table (FatCacheSector), and an access in progress is one of the callers'.
THEOREM CacheTypeCorrect == ASSUME FatCacheAssumption PROVE CacheSpec => []CacheTypeOK
  <1>1. CacheIInv => CacheTypeOK
    BY DEF CacheIInv
  <1>2. QED
    BY <1>1, InvariantHolds, PTL

\* The copies of the table (DiskSlice::write of fs.rs) differ only where the cache still has
\* something to write, whatever writes failed, until power is lost between two of them.
THEOREM CopiesKept == ASSUME FatCacheAssumption PROVE CacheSpec => []CopiesAgree
  <1>1. CacheIInv => CopiesAgree
    BY DEF CacheIInv
  <1>2. QED
    BY <1>1, InvariantHolds, PTL

\* The cache implements a plain table (fat_cache.rs:324): reads see what was written last,
\* evictions and failures change nothing, and a flush that succeeds leaves nothing to lose,
\* when no access straddles two sectors.
THEOREM CacheRefinement == ASSUME FatCacheAssumption, Aligned PROVE CacheSpec => ImplementsFatStore
  <1>1. CacheInit => Store!StoreInit
    BY InitImplements
  <1>2. CacheIInv /\ [CacheNext]_cacheVars => [Store!StoreNext]_(Store!storeVars)
    BY NextImplements
  <1>3. QED
    BY <1>1, <1>2, InvariantHolds, PTL DEF CacheSpec, ImplementsFatStore, Store!StoreSpec

-----------------------------------------------------------------------------
(* Directory updates.                                                      *)

\* What the theorems assume of the constants.
Serial == DirUpdatesAssumption /\ MaxBusy = 1

-----------------------------------------------------------------------------
(* Lemmas about numbers and sets.                                          *)

\* A set of natural numbers has a lowest member: of the sets of members up to
\* one of them, take one that includes no other.
LEMMA LeastMember ==
  ASSUME NEW S \in SUBSET Nat, S # {}
  PROVE  \E i \in S : \A y \in S : i <= y
  <1> DEFINE UpTo(i) == {j \in S : j <= i}
             All == {UpTo(i) : i \in S}
  <1>1. \A i \in S : IsFiniteSet(UpTo(i))
    BY FS_BoundedSetOfNaturals
  <1>2. All \subseteq FiniteSubsetsOf(S) /\ All # {}
    BY <1>1 DEF FiniteSubsetsOf
  <1>3. PICK W \in All : \A X \in All : <<X, W>> \notin StrictSubsetOrdering(S)
    BY <1>2, FS_StrictSubsetOrderingWellFounded, WFMin
  <1>4. PICK i \in S : W = UpTo(i)
    BY <1>3
  <1>5. ASSUME NEW y \in S, y < i PROVE FALSE
    <2>1. i \in Nat /\ y \in Nat
      OBVIOUS
    <2>2. ASSUME NEW j \in UpTo(y) PROVE j \in UpTo(i)
      <3>1. j \in Nat /\ j <= y /\ j \in S
        OBVIOUS
      <3>2. QED
        BY <3>1, <2>1, <1>5
    <2>3. i \notin UpTo(y) /\ i \in UpTo(i)
      BY <2>1, <1>5
    <2>4. <<UpTo(y), W>> \in StrictSubsetOrdering(S)
      BY <2>2, <2>3, <1>4 DEF StrictSubsetOrdering
    <2>5. QED
      BY <2>4, <1>3
  <1>6. QED
    BY <1>5

\* The clusters that are left when some are allocated are counted.
LEMMA FreeCountType ==
  ASSUME Serial, NEW S \in SUBSET Clusters
  PROVE  IsFiniteSet(Clusters \ S) /\ FreeCount(S) \in Nat
  <1>1. IsFiniteSet(Clusters)
    BY FS_Interval DEF Serial, DirUpdatesAssumption, Clusters
  <1>2. QED
    BY <1>1, FS_Subset, FS_CardinalityType DEF FreeCount

LEMMA FreeCountAllocated ==
  ASSUME Serial, NEW S \in SUBSET Clusters, NEW c \in Clusters \ S
  PROVE  FreeCount(S \cup {c}) = FreeCount(S) - 1
  <1>1. Clusters \ (S \cup {c}) = (Clusters \ S) \ {c}
    OBVIOUS
  <1>2. QED
    BY <1>1, FreeCountType, FS_RemoveElement DEF FreeCount

LEMMA FreeCountReleased ==
  ASSUME Serial, NEW S \in SUBSET Clusters, NEW c \in S
  PROVE  FreeCount(S \ {c}) = FreeCount(S) + 1
  <1>1. Clusters \ (S \ {c}) = (Clusters \ S) \cup {c}
    OBVIOUS
  <1>2. c \notin Clusters \ S
    OBVIOUS
  <1>3. QED
    BY <1>1, <1>2, FreeCountType, FS_AddElement DEF FreeCount

-----------------------------------------------------------------------------
(***************************************************************************)
(* The operation in progress, of which there is at most one, and the       *)
(* invariant.                                                              *)
(***************************************************************************)

Now == IF \A t \in Tasks : task[t] = Idle THEN Idle
       ELSE task[CHOOSE t \in Tasks : task[t] # Idle]

EntryType == [kind : {"free", "long", "short"}, id : Nat, name : Names \cup {BadName},
              first : Clusters \cup {None}]
Pcs == {"idle", "place", "alloc", "free", "delete", "table", "write", "update", "end",
        "refused", "info", "clean"}
LocalType == [op : Operations \cup {"none"}, pc : Pcs, entry : EntryType, at : Int, end : Int,
              to : Names \cup {BadName}, due : BOOLEAN]

TypeInv ==
  /\ program \in Programs /\ fat32 \in BOOLEAN /\ cached \in BOOLEAN
  /\ slots \in [Slot -> EntryType]
  /\ fatDisk \in SUBSET Clusters /\ fatMem \in SUBSET Clusters
  /\ flagDisk \in BOOLEAN /\ flagMem = flagDisk
  /\ infoDisk \in Int /\ count \in Int /\ infoDirty \in BOOLEAN
  /\ task \in [Tasks -> LocalType]
  /\ \A t, u \in Tasks : task[t] # Idle /\ task[u] # Idle => t = u
  /\ live \in SUBSET Nat /\ damaged \in BOOLEAN /\ unmarked \in BOOLEAN /\ cleared \in BOOLEAN
  /\ ops \in Nat /\ crashes \in Nat

\* The entry a task is about to write is new: no file has its id.
New == /\ Now.entry.kind = "short" /\ Now.entry.id <= ops
       /\ \A s \in Files : slots[s].id # Now.entry.id
Fresh == New /\ Now.entry.name \in Names

\* What an operation knows of the entries of the directory, by where it is.
OpInv ==
  /\ Now.pc = "idle" => Now = Idle
  /\ Now # Idle => Now.op \in program
  /\ Now.pc \in {"place", "write"} => Now.op \in {"create", "mkdir", "rename"} /\ Fresh
  /\ Now.pc = "write" => /\ Now.at \in 1 .. Slots + 1 /\ Now.at <= Now.end
                         /\ \A r \in Slot : r \in Now.at .. Now.end => slots[r].kind = "free"
  /\ Now.pc = "alloc" => Now.op \in {"mkdir", "append"} /\ Now.entry.first = None
  /\ Now.pc = "alloc" /\ Now.op = "mkdir" => New
  /\ (Now.pc = "alloc" /\ Now.op = "append") \/ (Now.pc = "free" /\ Now.op = "truncate") =>
       Now.at \in Slot /\ Now.entry.kind = "short" /\ slots[Now.at] = Now.entry
  /\ Now.pc = "free" => Now.op \in {"truncate", "remove"} /\ Now.entry.first # None
  /\ Now.pc = "update" =>
       /\ Now.op \in {"append", "truncate"} /\ Now.at \in Slot
       /\ slots[Now.at].kind = "short" /\ Now.entry.kind = "short"
       /\ slots[Now.at].id = Now.entry.id
       /\ Now.op = "append" => slots[Now.at].first = None /\ flagDisk
       /\ Now.op = "truncate" => Now.entry.first = None /\ (cached \/ flagDisk \/ Now.due)
  /\ Now.pc = "delete" =>
       /\ Now.op \in {"remove", "rename"}
       /\ Now.at \in Slot /\ Now.end \in Slot /\ Now.at <= Now.end
       /\ Now.entry.kind = "short" /\ slots[Now.end] = Now.entry
       /\ \A r \in Slot : r \in Now.at .. Now.end - 1 => slots[r].kind = "long"
  /\ Now.pc = "refused" => Now.op \in {"mkdir", "rename"} /\ \A s \in Files : slots[s].id # Now.entry.id
  /\ Now.pc \in {"info", "clean"} => fatDisk = fatMem
  /\ Now.pc = "clean" => ~infoDirty

\* The entries on the disk are those of the files there should be; the one that is being
\* renamed has none for a while.
EntryInv ==
  /\ \A s \in Slot : slots[s].id <= ops
  /\ \A r, s \in Files : r # s => slots[r].id # slots[s].id
  /\ \A s \in Files : slots[s].id \in live
  /\ \A id \in live :
       \/ \E s \in Files : slots[s].id = id
       \/ Now.op = "rename" /\ Now.pc \in {"place", "write", "refused"} /\ Now.entry.id = id

\* The cluster of an entry, as the operation knows it that is about to rewrite it; and
\* whether the operation has a cluster that no entry names.
First(s) == IF Now.pc = "update" /\ Now.at = s THEN None ELSE slots[s].first
Holds == Now.pc \in {"place", "write", "update", "refused"} \/ (Now.pc = "free" /\ Now.op = "remove")

\* The table in memory has the clusters of files and of the operation, each once - always
\* without losses of power, and after some of them; and no others, if nothing was cut.
Trusted == count # -1 /\ ~unmarked /\ (~cleared \/ crashes <= 1)
Safe == \/ crashes = 0 \/ ~damaged \/ Trusted
        \/ ~cached /\ "truncate" \notin program
ChainInv == Safe =>
  /\ \A r, s \in Files : r # s /\ First(r) # None => First(r) # First(s)
  /\ \A s \in Files : First(s) \in fatMem \cup {None}
  /\ Holds => Now.entry.first \in fatMem \cup {None}
  /\ Holds /\ Now.entry.first # None => \A s \in Files : First(s) # Now.entry.first
ExactInv == ~damaged =>
  \A c \in fatMem : (\E s \in Files : First(s) = c) \/ (Holds /\ Now.entry.first = c)

\* What a mount would find of a volume that is not marked dirty.
Reliable == ~unmarked /\ (~cleared \/ crashes = 0)
Clean == ~flagDisk /\ ~Now.due /\ Reliable
DiskInv ==
  /\ ~cached => fatDisk = fatMem
  /\ Clean => Distinct /\ OnDisk(Files) \subseteq fatDisk
  /\ Clean /\ fat32 => infoDisk = FreeCount(fatDisk)
  /\ Clean /\ ~cleared /\ ("truncate" \notin program \/ ~cached) => fatDisk \subseteq OnDisk(Files)

\* The count in memory; it is unknown where the volume was mounted dirty, which is damage.
CountInv ==
  /\ ~fat32 => count = -1
  /\ crashes = 0 => ~unmarked
  /\ Trusted => count = FreeCount(fatMem)
  /\ fat32 /\ crashes = 0 => count # -1 /\ (~infoDirty => infoDisk = count)
  /\ fat32 /\ Reliable => count # -1 \/ flagDisk
  /\ fat32 /\ Reliable /\ ~damaged => count # -1 /\ (~infoDirty => infoDisk = count)

IInv == TypeInv /\ OpInv /\ EntryInv /\ ChainInv /\ ExactInv /\ DiskInv /\ CountInv

-----------------------------------------------------------------------------
(* What each kind of step makes of the operation in progress.              *)

LEMMA IdleType ==
  /\ FreeEntry \in EntryType /\ Idle \in LocalType
  /\ Idle.op = "none" /\ Idle.pc = "idle" /\ Idle.due = FALSE /\ Idle.entry = FreeEntry
  /\ FreeEntry.kind = "free" /\ FreeEntry.id = 0 /\ FreeEntry.first = None /\ FreeEntry.name = BadName
  BY DEF FreeEntry, Idle, EntryType, LocalType, Pcs

\* The step of an operation, of the one in progress if there is one, changes its locals.
LEMMA Moved ==
  ASSUME TypeInv, NEW t \in Tasks, NEW l \in LocalType, task' = [task EXCEPT ![t] = l],
         \A u \in Tasks \ {t} : task[u] = Idle
  PROVE  /\ Now = task[t] /\ Now' = l
         /\ task' \in [Tasks -> LocalType]
         /\ \A u, v \in Tasks : task'[u] # Idle /\ task'[v] # Idle => u = v
  <1>1. task \in [Tasks -> LocalType]
    BY DEF TypeInv
  <1>2. task'[t] = l /\ (\A u \in Tasks \ {t} : task'[u] = Idle) /\ task' \in [Tasks -> LocalType]
    BY <1>1
  <1>3. Now = task[t]
    BY DEF Now
  <1>4. Now' = l
    BY <1>2 DEF Now
  <1>5. QED
    BY <1>2, <1>3, <1>4

LEMMA NobodyElse ==
  ASSUME TypeInv, NEW t \in Tasks, task[t] # Idle
  PROVE  \A u \in Tasks \ {t} : task[u] = Idle
  BY DEF TypeInv

LEMMA NowType ==
  ASSUME TypeInv
  PROVE  /\ Now \in LocalType
         /\ Now # Idle => \E t \in Tasks : task[t] = Now
         /\ \A t \in Tasks : task[t] = Idle \/ task[t] = Now
  <1>1. task \in [Tasks -> LocalType]
    BY DEF TypeInv
  <1>2. CASE \A t \in Tasks : task[t] = Idle
    BY <1>2, IdleType DEF Now
  <1>3. CASE \E t \in Tasks : task[t] # Idle
    <2>1. PICK t \in Tasks : task[t] # Idle
      BY <1>3
    <2>2. Now = task[t]
      BY <2>1, NobodyElse DEF Now
    <2>3. QED
      BY <2>1, <2>2, <1>1, NobodyElse
  <1>4. QED
    BY <1>2, <1>3

\* A call begins when no other is in progress.
LEMMA Begins ==
  ASSUME Serial, TypeInv, NEW t \in Tasks, NEW op \in Operations, NEW l \in LocalType,
         Begin(t, op, l)
  PROVE  /\ Now = Idle /\ op \in program
         /\ Now' = [l EXCEPT !.op = op] /\ Now'.op = op /\ Now'.pc = l.pc
         /\ TypeInv'
  <1>1. \A u \in Tasks : task[u] = Idle
    <2>1. Cardinality(Busy) < 1
      BY DEF Begin, Serial
    <2>2. ASSUME NEW u \in Tasks, task[u] # Idle PROVE FALSE
      <3>1. Busy = {u}
        BY <2>2, NobodyElse DEF Busy
      <3>2. Cardinality({u}) = 1
        BY FS_Singleton
      <3>3. QED
        BY <2>1, <3>1, <3>2
    <2>3. QED
      BY <2>2
  <1> DEFINE m == [l EXCEPT !.op = op]
  <1>2. m \in LocalType /\ m.op = op /\ m.pc = l.pc
    BY DEF LocalType
  <1>3. task' = [task EXCEPT ![t] = m]
    BY DEF Begin
  <1> HIDE DEF m
  <1>4. /\ Now = task[t] /\ Now' = m /\ task' \in [Tasks -> LocalType]
        /\ \A u, v \in Tasks : task'[u] # Idle /\ task'[v] # Idle => u = v
    BY <1>1, <1>2, <1>3, Moved
  <1>5. ops' \in Nat
    BY DEF Begin, TypeInv
  <1>6. TypeInv'
    BY <1>4, <1>5 DEF TypeInv, Begin, Unchanged, confVars
  <1>7. QED
    BY <1>1, <1>2, <1>4, <1>6 DEF Begin, m

\* Beginning a call leaves the disk, the table and the count as they are.
LEMMA StartKeeps ==
  ASSUME IInv, Now = Idle, Now'.pc # "update", Now'.due = FALSE,
         Holds' => Now'.entry.first = None, ops' = ops + 1,
         UNCHANGED <<confVars, slots, fatDisk, fatMem, flagDisk, flagMem, infoDisk, count,
                     infoDirty, live, damaged, unmarked, cleared, crashes>>
  PROVE  EntryInv' /\ ChainInv' /\ ExactInv' /\ DiskInv' /\ CountInv'
  <1>1. Files' = Files /\ Clusters \subseteq Nat /\ None = 0
    BY DEF Files, Clusters, None
  <1>2. Now.pc = "idle" /\ Now.op = "none" /\ Now.due = FALSE /\ ~Holds
    BY IdleType DEF Holds
  <1>3. \A s : First(s) = slots[s].first /\ First(s)' = slots[s].first
    BY <1>2 DEF First
  <1>4. EntryInv'
    <2>1. ASSUME NEW s \in Slot PROVE slots[s].id <= ops'
      <3>1. slots[s].id \in Nat /\ ops \in Nat /\ slots[s].id <= ops
        BY DEF IInv, TypeInv, EntryInv, EntryType
      <3>2. QED
        BY <3>1
    <2>2. QED
      BY <1>1, <1>2, <2>1 DEF IInv, EntryInv
  <1>5. ChainInv'
    BY <1>1, <1>2, <1>3 DEF IInv, ChainInv, Safe, Trusted, confVars
  <1>6. ExactInv'
    BY <1>1, <1>2, <1>3 DEF IInv, ExactInv
  <1>7. DiskInv'
    BY <1>1, <1>2 DEF IInv, DiskInv, Clean, Reliable, Distinct, OnDisk, confVars
  <1>8. CountInv'
    BY DEF IInv, CountInv, Trusted, Reliable, confVars
  <1>9. QED
    BY <1>4, <1>5, <1>6, <1>7, <1>8

\* The entries found under a name are those of a file of that name.
LEMMA FoundFacts ==
  ASSUME Serial, TypeInv, NEW n \in Names, NEW s \in Found(n)
  PROVE  /\ s \in Slot /\ s \in Files /\ slots[s] \in EntryType
         /\ slots[s].kind = "short" /\ slots[s].name = n
         /\ RangeStart(s) \in Slot /\ RangeStart(s) <= s
         /\ \A r \in Slot : r \in RangeStart(s) .. s - 1 => slots[r].kind = "long"
  <1>1. s \in Slot /\ s \in Files /\ slots[s] \in EntryType /\ slots[s].kind = "short" /\ slots[s].name = n
    BY DEF Found, Files, TypeInv
  <1>2. Length[n] \in 1 .. Slots /\ Slots \in Nat
    BY DEF Serial, DirUpdatesAssumption
  <1>3. \A r \in RangeStart(s) .. s - 1 : r \in Slot /\ slots[r] = LongEntry(slots[s].id)
    BY DEF Found
  <1>4. RangeStart(s) \in Int /\ RangeStart(s) <= s
    BY <1>1, <1>2 DEF RangeStart, Slot
  <1>5. RangeStart(s) \in Slot
    <2>1. CASE RangeStart(s) = s
      BY <2>1, <1>1
    <2>2. CASE RangeStart(s) < s
      <3>1. RangeStart(s) \in RangeStart(s) .. s - 1
        BY <2>2, <1>1, <1>4 DEF Slot
      <3>2. QED
        BY <3>1, <1>3
    <2>3. QED
      BY <1>1, <1>4, <2>1, <2>2 DEF Slot
  <1>6. \A i : LongEntry(i).kind = "long"
    BY DEF LongEntry, FreeEntry
  <1>7. QED
    BY <1>1, <1>3, <1>4, <1>5, <1>6

\* What a call that begins may assume.
LEMMA Starting ==
  ASSUME Serial, IInv, NEW t \in Tasks, NEW op \in Operations, NEW l \in LocalType,
         Begin(t, op, l), l.pc # "update", l.due = FALSE,
         l.pc \in {"write", "refused", "place", "free"} =>
           l.entry.first = None \/ (l.pc = "free" /\ op # "remove")
  PROVE  /\ TypeInv' /\ EntryInv' /\ ChainInv' /\ ExactInv' /\ DiskInv' /\ CountInv'
         /\ Now' # Idle => op \in program'
         /\ Now'.op = op /\ Now'.pc = l.pc /\ Now'.entry = l.entry /\ Now'.at = l.at /\ Now'.end = l.end
         /\ Files' = Files /\ slots' = slots /\ fatDisk' = fatDisk /\ fatMem' = fatMem /\ ops' = ops + 1
  <1>1. /\ Now = Idle /\ op \in program /\ Now' = [l EXCEPT !.op = op] /\ Now'.op = op
        /\ Now'.pc = l.pc /\ TypeInv'
    BY Begins DEF IInv
  <1>2. Now'.entry = l.entry /\ Now'.at = l.at /\ Now'.end = l.end /\ Now'.due = l.due
    BY <1>1 DEF LocalType
  <1>3. /\ UNCHANGED <<confVars, slots, fatDisk, fatMem, flagDisk, flagMem, infoDisk, count,
                       infoDirty, live, damaged, unmarked, cleared, crashes>>
        /\ ops' = ops + 1
    BY DEF Begin, Unchanged
  <1>4. Holds' => Now'.entry.first = None
    BY <1>1, <1>2 DEF Holds
  <1>5. EntryInv' /\ ChainInv' /\ ExactInv' /\ DiskInv' /\ CountInv'
    BY <1>1, <1>2, <1>3, <1>4, StartKeeps
  <1>6. QED
    BY <1>1, <1>2, <1>3, <1>5 DEF Files, confVars

\* create_file and create_dir start from a new id.
LEMMA CreateStarts ==
  ASSUME Serial, IInv, NEW t \in Tasks, NEW n \in Names \cup {BadName},
         (n \in Names /\ Create(t, n)) \/ CreateDir(t, n)
  PROVE  IInv'
  <1> DEFINE e == Entry(ops + 1, n, None)
  <1>1. ops \in Nat /\ e \in EntryType /\ e.kind = "short" /\ e.name = n /\ e.id = ops + 1 /\ e.first = None
    BY DEF IInv, TypeInv, Entry, EntryType, None
  <1>2. \A s \in Files : slots[s].id # ops + 1
    <2>1. ASSUME NEW s \in Slot PROVE slots[s].id # ops + 1
      <3>1. slots[s].id \in Nat /\ slots[s].id <= ops
        BY DEF IInv, TypeInv, EntryInv, EntryType
      <3>2. QED
        BY <3>1, <1>1
    <2>2. QED
      BY <2>1 DEF Files
  <1> HIDE DEF e
  <1>3. CASE n \in Names /\ Create(t, n)
    <2> DEFINE l == [Idle EXCEPT !.pc = "place", !.entry = e]
    <2>1. Begin(t, "create", l)
      BY <1>3 DEF Create, e
    <2>2. l \in LocalType /\ l.pc = "place" /\ l.due = FALSE /\ l.entry = e
      BY <1>1, IdleType DEF Idle, LocalType, Pcs
    <2> HIDE DEF l
    <2>3. /\ TypeInv' /\ EntryInv' /\ ChainInv' /\ ExactInv' /\ DiskInv' /\ CountInv'
          /\ Now' # Idle => "create" \in program'
          /\ Now'.op = "create" /\ Now'.pc = "place" /\ Now'.entry = e
          /\ Files' = Files /\ slots' = slots /\ ops' = ops + 1
      BY <1>1, <2>1, <2>2, Starting DEF Operations
    <2>4. Fresh'
      BY <1>1, <1>2, <1>3, <2>3 DEF Fresh, New
    <2>5. OpInv'
      BY <2>3, <2>4 DEF OpInv
    <2>6. QED
      BY <2>3, <2>5 DEF IInv
  <1>4. CASE CreateDir(t, n)
    <2> DEFINE l == [Idle EXCEPT !.pc = "alloc", !.entry = e]
    <2>1. Begin(t, "mkdir", l)
      BY <1>4 DEF CreateDir, e
    <2>2. l \in LocalType /\ l.pc = "alloc" /\ l.due = FALSE /\ l.entry = e
      BY <1>1, IdleType DEF Idle, LocalType, Pcs
    <2> HIDE DEF l
    <2>3. /\ TypeInv' /\ EntryInv' /\ ChainInv' /\ ExactInv' /\ DiskInv' /\ CountInv'
          /\ Now' # Idle => "mkdir" \in program'
          /\ Now'.op = "mkdir" /\ Now'.pc = "alloc" /\ Now'.entry = e
          /\ Files' = Files /\ slots' = slots /\ ops' = ops + 1
      BY <1>1, <2>1, <2>2, Starting DEF Operations
    <2>4. New'
      BY <1>1, <1>2, <2>3 DEF New
    <2>5. OpInv'
      BY <1>1, <2>3, <2>4 DEF OpInv
    <2>6. QED
      BY <2>3, <2>5 DEF IInv
  <1>5. QED
    BY <1>3, <1>4

\* The calls on a file that is there start from its entry.
LEMMA FileStarts ==
  ASSUME Serial, IInv, NEW t \in Tasks, NEW n \in Names,
         \/ Append(t, n) \/ Truncate(t, n) \/ Remove(t, n)
         \/ \E m \in Names \cup {BadName} : Rename(t, n, m)
  PROVE  IInv'
  <1> USE DEF IInv
  <1>1. CASE Append(t, n)
    <2>1. PICK s \in Found(n) :
            /\ slots[s].first = None
            /\ Begin(t, "append", [Idle EXCEPT !.pc = "alloc", !.entry = slots[s], !.at = s])
      BY <1>1 DEF Append
    <2> DEFINE l == [Idle EXCEPT !.pc = "alloc", !.entry = slots[s], !.at = s]
    <2>2. s \in Slot /\ slots[s] \in EntryType /\ slots[s].kind = "short" /\ s \in Int
      BY FoundFacts DEF Slot
    <2>3. l \in LocalType /\ l.pc = "alloc" /\ l.due = FALSE /\ l.entry = slots[s] /\ l.at = s
      BY <2>2, IdleType DEF Idle, LocalType, Pcs
    <2>4. Begin(t, "append", l)
      BY <2>1
    <2> HIDE DEF l
    <2>5. /\ TypeInv' /\ EntryInv' /\ ChainInv' /\ ExactInv' /\ DiskInv' /\ CountInv'
          /\ Now' # Idle => "append" \in program'
          /\ Now'.op = "append" /\ Now'.pc = "alloc" /\ Now'.entry = slots[s] /\ Now'.at = s
          /\ slots' = slots
      BY <2>3, <2>4, Starting DEF Operations
    <2>6. OpInv'
      BY <2>1, <2>2, <2>5 DEF OpInv
    <2>7. QED
      BY <2>5, <2>6
  <1>2. CASE Truncate(t, n)
    <2>1. PICK s \in Found(n) :
            /\ slots[s].first # None
            /\ Begin(t, "truncate", [Idle EXCEPT !.pc = "free", !.entry = slots[s], !.at = s])
      BY <1>2 DEF Truncate
    <2> DEFINE l == [Idle EXCEPT !.pc = "free", !.entry = slots[s], !.at = s]
    <2>2. s \in Slot /\ slots[s] \in EntryType /\ slots[s].kind = "short" /\ s \in Int
      BY FoundFacts DEF Slot
    <2>3. l \in LocalType /\ l.pc = "free" /\ l.due = FALSE /\ l.entry = slots[s] /\ l.at = s
      BY <2>2, IdleType DEF Idle, LocalType, Pcs
    <2>4. Begin(t, "truncate", l)
      BY <2>1
    <2> HIDE DEF l
    <2>5. /\ TypeInv' /\ EntryInv' /\ ChainInv' /\ ExactInv' /\ DiskInv' /\ CountInv'
          /\ Now' # Idle => "truncate" \in program'
          /\ Now'.op = "truncate" /\ Now'.pc = "free" /\ Now'.entry = slots[s] /\ Now'.at = s
          /\ slots' = slots
      BY <2>3, <2>4, Starting DEF Operations
    <2>6. OpInv'
      BY <2>1, <2>2, <2>5 DEF OpInv
    <2>7. QED
      BY <2>5, <2>6
  <1>3. ASSUME NEW op \in {"remove", "rename"}, NEW s \in Found(n), NEW l \in LocalType,
               l.pc = "delete", l.due = FALSE, l.entry = slots[s], l.at = RangeStart(s), l.end = s,
               Begin(t, op, l)
        PROVE  IInv'
    <2>1. /\ s \in Slot /\ slots[s].kind = "short" /\ RangeStart(s) \in Slot /\ RangeStart(s) <= s
          /\ \A r \in Slot : r \in RangeStart(s) .. s - 1 => slots[r].kind = "long"
      BY FoundFacts
    <2>2. /\ TypeInv' /\ EntryInv' /\ ChainInv' /\ ExactInv' /\ DiskInv' /\ CountInv'
          /\ Now' # Idle => op \in program'
          /\ Now'.op = op /\ Now'.pc = "delete" /\ Now'.entry = slots[s] /\ Now'.at = RangeStart(s)
          /\ Now'.end = s /\ slots' = slots
      BY <1>3, Starting DEF Operations
    <2>3. OpInv'
      BY <2>1, <2>2 DEF OpInv
    <2>4. QED
      BY <2>2, <2>3
  <1>4. CASE Remove(t, n)
    <2>1. PICK s \in Found(n) :
            Begin(t, "remove", [Idle EXCEPT !.pc = "delete", !.entry = slots[s],
                                            !.at = RangeStart(s), !.end = s])
      BY <1>4 DEF Remove
    <2> DEFINE l == [Idle EXCEPT !.pc = "delete", !.entry = slots[s], !.at = RangeStart(s), !.end = s]
    <2>2. slots[s] \in EntryType /\ s \in Int /\ RangeStart(s) \in Int
      BY FoundFacts DEF Slot
    <2>3. /\ l \in LocalType /\ l.pc = "delete" /\ l.due = FALSE /\ l.entry = slots[s]
          /\ l.at = RangeStart(s) /\ l.end = s
      BY <2>2, IdleType DEF Idle, LocalType, Pcs
    <2>4. Begin(t, "remove", l)
      BY <2>1
    <2> HIDE DEF l
    <2>5. QED
      BY <1>3, <2>3, <2>4
  <1>5. ASSUME NEW m \in Names \cup {BadName}, Rename(t, n, m) PROVE IInv'
    <2>1. PICK s \in Found(n) :
            Begin(t, "rename", [Idle EXCEPT !.pc = "delete", !.entry = slots[s],
                                            !.at = RangeStart(s), !.end = s, !.to = m])
      BY <1>5 DEF Rename
    <2> DEFINE l == [Idle EXCEPT !.pc = "delete", !.entry = slots[s], !.at = RangeStart(s),
                                 !.end = s, !.to = m]
    <2>2. slots[s] \in EntryType /\ s \in Int /\ RangeStart(s) \in Int
      BY FoundFacts DEF Slot
    <2>3. /\ l \in LocalType /\ l.pc = "delete" /\ l.due = FALSE /\ l.entry = slots[s]
          /\ l.at = RangeStart(s) /\ l.end = s
      BY <2>2, IdleType DEF Idle, LocalType, Pcs
    <2>4. Begin(t, "rename", l)
      BY <2>1
    <2> HIDE DEF l
    <2>5. QED
      BY <1>3, <2>3, <2>4
  <1>6. QED
    BY <1>1, <1>2, <1>4, <1>5

LEMMA StartInv ==
  ASSUME Serial, IInv, NEW t \in Tasks, Start(t)
  PROVE  IInv'
  <1>1. CASE Flush(t)
    <2> DEFINE l == [Idle EXCEPT !.pc = "table"]
    <2>1. Begin(t, "flush", l)
      BY <1>1 DEF Flush
    <2>2. l \in LocalType /\ l.pc = "table" /\ l.due = FALSE
      BY IdleType DEF Idle, LocalType, Pcs
    <2> HIDE DEF l
    <2>3. /\ TypeInv' /\ EntryInv' /\ ChainInv' /\ ExactInv' /\ DiskInv' /\ CountInv'
          /\ Now' # Idle => "flush" \in program'
          /\ Now'.op = "flush" /\ Now'.pc = "table"
      BY <2>1, <2>2, Starting DEF Operations
    <2>4. OpInv'
      BY <2>3 DEF OpInv
    <2>5. QED
      BY <2>3, <2>4 DEF IInv
  <1>2. QED
    BY <1>1, CreateStarts, FileStarts DEF Start

-----------------------------------------------------------------------------
(* The steps that leave the entries and the table in memory as they are.   *)

\* The operation that is at one of its steps is the one in progress.
LEMMA AtWork ==
  ASSUME TypeInv, NEW t \in Tasks, NEW pc \in Pcs \ {"idle"}, At(t, pc)
  PROVE  /\ Now = task[t] /\ Now.pc = pc /\ Now \in LocalType /\ Now # Idle
         /\ \A u \in Tasks \ {t} : task[u] = Idle
         /\ ~Now.due
         /\ pc = "alloc" /\ Now.op = "append" => flagDisk
         /\ fat32 /\ pc \in {"delete", "write"} => flagDisk
  <1>1. task[t] # Idle /\ task[t].pc = pc
    BY IdleType DEF At
  <1>2. \A u \in Tasks \ {t} : task[u] = Idle
    BY <1>1, NobodyElse
  <1>3. Now = task[t] /\ Now \in LocalType
    BY <1>1, NowType
  <1>4. task[t].due \in BOOLEAN
    BY <1>3 DEF LocalType
  <1>5. ~task[t].due /\ (FileMarksFirst(t) => flagDisk)
    BY <1>4 DEF At, MustMark, TypeInv
  <1>6. QED
    BY <1>1, <1>2, <1>3, <1>5 DEF FileMarksFirst

\* A step of the operation in progress that changes its locals to l.
LEMMA StepTo ==
  ASSUME TypeInv, NEW t \in Tasks, task[t] # Idle, NEW l \in LocalType,
         task' = [task EXCEPT ![t] = l]
  PROVE  /\ Now = task[t] /\ Now' = l
         /\ task' \in [Tasks -> LocalType]
         /\ \A u, v \in Tasks : task'[u] # Idle /\ task'[v] # Idle => u = v
  BY NobodyElse, Moved

\* What a step keeps that touches neither the entries nor the table in memory, and what the
\* operation holds stays what it was.
LEMMA Kept ==
  ASSUME IInv, UNCHANGED <<program, cached, slots, fatMem, count, live, damaged, unmarked, ops, crashes>>,
         cleared => cleared',
         Now.pc = "update" \/ Now'.pc = "update" => Now'.pc = Now.pc /\ Now'.at = Now.at,
         Holds <=> Holds', Holds => Now'.entry = Now.entry /\ Now'.op = Now.op,
         Now.pc \in {"place", "write", "refused"} => Now'.pc \in {"place", "write", "refused"}
  PROVE  EntryInv' /\ ChainInv' /\ ExactInv'
  <1>1. Files' = Files
    BY DEF Files
  <1>2. \A s : First(s)' = First(s)
    BY DEF First
  <1>3. EntryInv'
    BY <1>1 DEF IInv, EntryInv, Holds
  <1>4. ChainInv'
    BY <1>1, <1>2 DEF IInv, ChainInv, Safe, Trusted
  <1>5. ExactInv'
    BY <1>1, <1>2 DEF IInv, ExactInv
  <1>6. QED
    BY <1>3, <1>4, <1>5

\* The operation marks the volume dirty, or has a sector of the table evicted.
LEMMA MarkInv ==
  ASSUME IInv, NEW t \in Tasks, SetDirty(t) \/ Evict(t)
  PROVE  IInv'
  <1>1. task[t] # Idle /\ task[t] = Now /\ Now \in LocalType
    <2>1. CASE SetDirty(t)
      <3>1. Idle.due = FALSE /\ Idle.pc = "idle" /\ Idle.op = "none"
        BY IdleType
      <3>2. task[t] # Idle
        BY <2>1, <3>1 DEF SetDirty, MustMark, FileMarksFirst
      <3>3. QED
        BY <3>2, NowType DEF IInv
    <2>2. CASE Evict(t)
      BY <2>2, AtWork DEF Evict, IInv, Pcs
    <2>3. QED
      BY <2>1, <2>2
  <1>2. PICK d \in BOOLEAN : task' = [task EXCEPT ![t] = [Now EXCEPT !.due = d]]
    <2>1. task \in [Tasks -> LocalType] /\ flagMem \in BOOLEAN
      BY DEF IInv, TypeInv
    <2>2. CASE SetDirty(t)
      BY <1>1, <2>1, <2>2 DEF SetDirty
    <2>3. CASE Evict(t)
      BY <1>1, <2>1, <2>3 DEF Evict, DueAfterWrite
    <2>4. QED
      BY <2>2, <2>3
  <1> DEFINE l == [Now EXCEPT !.due = d]
  <1>3. /\ l \in LocalType /\ l.op = Now.op /\ l.pc = Now.pc /\ l.entry = Now.entry
        /\ l.at = Now.at /\ l.end = Now.end /\ l.due = d
    BY <1>1 DEF LocalType
  <1> HIDE DEF l
  <1>4. /\ Now' = l /\ task' \in [Tasks -> LocalType]
        /\ \A u, v \in Tasks : task'[u] # Idle /\ task'[v] # Idle => u = v
    BY <1>1, <1>2, <1>3, StepTo DEF IInv, l
  <1>5. /\ UNCHANGED <<program, fat32, cached, slots, fatMem, infoDisk, count, infoDirty, live,
                       damaged, unmarked, cleared, ops, crashes>>
        /\ flagMem' = flagDisk' /\ flagDisk' \in BOOLEAN /\ (flagDisk => flagDisk')
        /\ fatDisk' \in {fatDisk, fatMem}
    BY DEF SetDirty, Evict, Unchanged, confVars, IInv, TypeInv
  <1>6. TypeInv'
    BY <1>4, <1>5 DEF IInv, TypeInv
  <1>7. EntryInv' /\ ChainInv' /\ ExactInv'
    <2>1. Holds <=> Holds'
      BY <1>3, <1>4 DEF Holds
    <2>2. QED
      BY <1>3, <1>4, <1>5, <2>1, Kept
  <1>8. OpInv'
    <2>1. Files' = Files
      BY <1>5 DEF Files
    <2>2. Now # Idle /\ (Now.pc = "idle" => FALSE)
      BY <1>1 DEF IInv, OpInv
    <2>3. (New => New') /\ (Fresh => Fresh')
      BY <1>3, <1>4, <1>5, <2>1 DEF Fresh, New
    <2>4. fatDisk = fatMem => fatDisk' = fatMem'
      BY <1>5
    <2>5. cached' \/ flagDisk' \/ Now'.due \/ Now.pc # "update"
      <3>1. CASE SetDirty(t)
        BY <3>1 DEF SetDirty
      <3>2. CASE Evict(t)
        BY <3>2, <1>1 DEF Evict, At
      <3>3. QED
        BY <3>1, <3>2
    <2> HIDE DEF Fresh
    <2>6. QED
      BY <1>3, <1>4, <1>5, <2>1, <2>2, <2>3, <2>4, <2>5 DEF IInv, OpInv
  <1>9. DiskInv'
    <2>1. flagDisk' \/ Now'.due
      <3>1. CASE SetDirty(t)
        BY <3>1 DEF SetDirty
      <3>2. CASE Evict(t)
        <4>1. task'[t].due = ~flagMem
          BY <3>2 DEF Evict, DueAfterWrite, IInv, TypeInv
        <4>2. Now' = task'[t]
          BY <1>2, <1>4 DEF IInv, TypeInv, l
        <4>3. flagMem = flagDisk /\ flagDisk' = flagDisk
          BY <3>2 DEF Evict, IInv, TypeInv
        <4>4. QED
          BY <4>1, <4>2, <4>3
      <3>3. QED
        BY <3>1, <3>2
    <2>2. ~cached' => fatDisk' = fatMem'
      BY <1>5 DEF IInv, DiskInv, Clean
    <2>3. QED
      BY <2>1, <2>2 DEF DiskInv, Clean
  <1>10. CountInv'
    BY <1>5 DEF IInv, CountInv, Trusted, Reliable
  <1>11. QED
    BY <1>6, <1>7, <1>8, <1>9, <1>10 DEF IInv

\* find_free_entries: what it returns is free as far as the directory goes.
LEMMA TailFacts ==
  ASSUME Serial, TypeInv
  PROVE  Tail \in 1 .. Slots + 1 /\ \A r \in Tail .. Slots : slots[r].kind = "free"
  <1> DEFINE S == {s \in 1 .. Slots + 1 : \A r \in s .. Slots : slots[r].kind = "free"}
             P(s) == /\ \A r \in s .. Slots : slots[r].kind = "free"
                     /\ s = 1 \/ slots[s - 1].kind # "free"
  <1>1. Slots \in Nat
    BY DEF Serial, DirUpdatesAssumption
  <1>2. Slots + 1 \in S /\ S \subseteq Nat
    BY <1>1
  <1>3. PICK i \in S : \A y \in S : i <= y
    BY <1>2, LeastMember
  <1>4. i \in 1 .. Slots + 1 /\ \A r \in i .. Slots : slots[r].kind = "free"
    BY <1>3
  <1>5. i = 1 \/ slots[i - 1].kind # "free"
    <2> SUFFICES ASSUME i # 1, slots[i - 1].kind = "free" PROVE FALSE
      OBVIOUS
    <2>1. i \in Nat /\ i - 1 \in 1 .. Slots + 1
      BY <1>1, <1>4
    <2>2. ASSUME NEW r \in i - 1 .. Slots PROVE slots[r].kind = "free"
      <3>1. r = i - 1 \/ r \in i .. Slots
        BY <2>1, <1>1
      <3>2. QED
        BY <3>1, <1>4
    <2>3. i - 1 \in S
      BY <2>1, <2>2
    <2>4. i <= i - 1
      BY <2>3, <1>3
    <2>5. QED
      BY <2>1, <2>4
  <1>6. \E s \in 1 .. Slots + 1 : P(s)
    BY <1>4, <1>5
  <1>7. Tail \in 1 .. Slots + 1 /\ P(Tail)
    BY <1>6 DEF Tail
  <1>8. QED
    BY <1>7

LEMMA FreePlaceFacts ==
  ASSUME Serial, TypeInv, NEW k \in 1 .. Slots
  PROVE  /\ FreePlace(k) \in 1 .. Slots + 1
         /\ \A r \in Slot : r \in FreePlace(k) .. FreePlace(k) + k - 1 => slots[r].kind = "free"
  <1>1. Slots \in Nat /\ Slot = 1 .. Slots
    BY DEF Serial, DirUpdatesAssumption, Slot
  <1>2. CASE Runs(k) = {}
    <2>1. FreePlace(k) = Tail
      BY <1>2 DEF FreePlace
    <2>2. QED
      BY <2>1, <1>1, TailFacts
  <1>3. CASE Runs(k) # {}
    <2>1. Runs(k) \subseteq Slot /\ Runs(k) \subseteq Nat
      BY <1>1 DEF Runs
    <2>2. \E s \in Runs(k) : \A r \in Runs(k) : s <= r
      BY <1>3, <2>1, LeastMember
    <2>3. FreePlace(k) \in Runs(k)
      BY <1>3, <2>2 DEF FreePlace
    <2>4. FreePlace(k) \in Slot /\ \A r \in FreePlace(k) .. FreePlace(k) + k - 1 : slots[r].kind = "free"
      BY <2>3 DEF Runs
    <2>5. QED
      BY <2>4, <1>1
  <1>4. QED
    BY <1>2, <1>3

LEMMA PlaceInv ==
  ASSUME Serial, IInv, NEW t \in Tasks, Place(t)
  PROVE  IInv'
  <1> DEFINE k == Length[Now.entry.name]
             s == FreePlace(k)
             l == [Now EXCEPT !.pc = "write", !.at = s, !.end = s + k - 1]
  <1>1. /\ Now = task[t] /\ Now.pc = "place" /\ Now \in LocalType /\ Now # Idle /\ ~Now.due
        /\ task[t] # Idle
    BY AtWork DEF Place, IInv, Pcs
  <1>2. Now.op \in {"create", "mkdir", "rename"} /\ Fresh /\ Now.op \in program
    BY <1>1 DEF IInv, OpInv
  <1>3. k \in 1 .. Slots /\ Slots \in Nat
    BY <1>2 DEF Serial, DirUpdatesAssumption, Fresh, New
  <1>4. s \in 1 .. Slots + 1 /\ \A r \in Slot : r \in s .. s + k - 1 => slots[r].kind = "free"
    BY <1>3, FreePlaceFacts DEF IInv
  <1> HIDE DEF k, s
  <1>5. /\ l \in LocalType /\ l.op = Now.op /\ l.pc = "write" /\ l.entry = Now.entry /\ l.due = Now.due
        /\ l.at = s /\ l.end = s + k - 1 /\ s <= s + k - 1
    <2>1. s \in Int /\ s + k - 1 \in Int /\ s <= s + k - 1
      BY <1>3, <1>4
    <2>2. QED
      BY <1>1, <2>1 DEF LocalType, Pcs
  <1>6. task' = [task EXCEPT ![t] = l]
    BY <1>1 DEF Place, k, s, IInv, TypeInv
  <1> HIDE DEF l
  <1>7. /\ Now' = l /\ task' \in [Tasks -> LocalType]
        /\ \A u, v \in Tasks : task'[u] # Idle /\ task'[v] # Idle => u = v
    BY <1>1, <1>5, <1>6, StepTo DEF IInv
  <1>8. UNCHANGED <<program, fat32, cached, slots, fatDisk, fatMem, flagDisk, flagMem, infoDisk, count,
                    infoDirty, live, damaged, unmarked, cleared, ops, crashes>>
    BY DEF Place, Unchanged, confVars
  <1>9. TypeInv'
    BY <1>7, <1>8 DEF IInv, TypeInv
  <1>10. EntryInv' /\ ChainInv' /\ ExactInv'
    <2>1. Holds /\ Holds'
      BY <1>1, <1>5, <1>7 DEF Holds
    <2>2. QED
      BY <1>1, <1>5, <1>7, <1>8, <2>1, Kept
  <1>11. OpInv'
    <2>1. Fresh' /\ Files' = Files
      BY <1>2, <1>5, <1>7, <1>8 DEF Fresh, New, Files
    <2> HIDE DEF Fresh
    <2>2. QED
      BY <1>2, <1>4, <1>5, <1>7, <1>8, <2>1 DEF OpInv
  <1>12. DiskInv'
    BY <1>1, <1>5, <1>7, <1>8 DEF IInv, DiskInv, Clean, Reliable, Distinct, OnDisk, Files
  <1>13. CountInv'
    BY <1>8 DEF IInv, CountInv, Trusted, Reliable
  <1>14. QED
    BY <1>9, <1>10, <1>11, <1>12, <1>13 DEF IInv

\* A call returns.
LEMMA EndInv ==
  ASSUME IInv, NEW t \in Tasks, End(t)
  PROVE  IInv'
  <1>1. Now = task[t] /\ Now.pc = "end" /\ Now # Idle /\ task[t] # Idle /\ ~Now.due
    BY AtWork DEF End, IInv, Pcs
  <1>2. /\ Now' = Idle /\ task' \in [Tasks -> LocalType]
        /\ \A u, v \in Tasks : task'[u] # Idle /\ task'[v] # Idle => u = v
    BY <1>1, StepTo, IdleType DEF End, IInv
  <1>3. UNCHANGED <<program, fat32, cached, slots, fatDisk, fatMem, flagDisk, flagMem, infoDisk, count,
                    infoDirty, live, damaged, unmarked, cleared, ops, crashes>>
    BY DEF End, Unchanged, confVars
  <1>4. TypeInv'
    BY <1>2, <1>3 DEF IInv, TypeInv
  <1>5. Now'.pc = "idle" /\ Now'.due = FALSE
    BY <1>2, IdleType
  <1>6. EntryInv' /\ ChainInv' /\ ExactInv'
    <2>1. ~Holds /\ ~Holds'
      BY <1>1, <1>5 DEF Holds
    <2>2. QED
      BY <1>1, <1>5, <1>3, <2>1, Kept
  <1>7. OpInv'
    BY <1>2, <1>5 DEF OpInv
  <1>8. DiskInv'
    BY <1>1, <1>3, <1>5 DEF IInv, DiskInv, Clean, Reliable, Distinct, OnDisk, Files
  <1>9. CountInv'
    BY <1>3 DEF IInv, CountInv, Trusted, Reliable
  <1>10. QED
    BY <1>4, <1>6, <1>7, <1>8, <1>9 DEF IInv

\* flush: the table, then FSInfo, then the flag.
LEMMA FlushTableInv ==
  ASSUME IInv, NEW t \in Tasks, FlushTable(t)
  PROVE  IInv'
  <1> DEFINE d == fatDisk # fatMem /\ ~flagDisk
             l == [Now EXCEPT !.pc = "info", !.due = d]
  <1>1. Now = task[t] /\ Now.pc = "table" /\ Now \in LocalType /\ Now # Idle /\ task[t] # Idle /\ ~Now.due
    BY AtWork DEF FlushTable, IInv, Pcs
  <1>2. task' = [task EXCEPT ![t] = l]
    BY <1>1 DEF FlushTable, DueAfterWrite, IInv, TypeInv
  <1>3. l \in LocalType /\ l.op = Now.op /\ l.pc = "info" /\ l.due = d /\ d \in BOOLEAN
    BY <1>1 DEF LocalType, Pcs
  <1> HIDE DEF l
  <1>4. /\ Now' = l /\ task' \in [Tasks -> LocalType]
        /\ \A u, v \in Tasks : task'[u] # Idle /\ task'[v] # Idle => u = v
    BY <1>1, <1>2, <1>3, StepTo DEF IInv
  <1>5. UNCHANGED <<program, fat32, cached, slots, fatMem, flagDisk, flagMem, infoDisk, count,
                    infoDirty, live, damaged, unmarked, cleared, ops, crashes>> /\ fatDisk' = fatMem
    BY DEF FlushTable, Unchanged, confVars
  <1>6. TypeInv'
    BY <1>4, <1>5 DEF IInv, TypeInv
  <1>7. EntryInv' /\ ChainInv' /\ ExactInv'
    <2>1. ~Holds /\ ~Holds'
      BY <1>1, <1>3, <1>4 DEF Holds
    <2>2. QED
      BY <1>1, <1>3, <1>4, <1>5, <2>1, Kept
  <1>8. OpInv'
    BY <1>1, <1>3, <1>4, <1>5 DEF IInv, OpInv
  <1>9. DiskInv'
    <2>1. ~flagDisk' /\ ~Now'.due => fatDisk' = fatDisk
      BY <1>3, <1>4, <1>5
    <2>2. QED
      BY <1>1, <1>5, <2>1 DEF IInv, DiskInv, Clean, Reliable, Distinct, OnDisk, Files
  <1>10. CountInv'
    BY <1>5 DEF IInv, CountInv, Trusted, Reliable
  <1>11. QED
    BY <1>6, <1>7, <1>8, <1>9, <1>10 DEF IInv

LEMMA FlushInfoInv ==
  ASSUME IInv, NEW t \in Tasks, FlushInfo(t)
  PROVE  IInv'
  <1> DEFINE l == [Now EXCEPT !.pc = "clean"]
  <1>1. Now = task[t] /\ Now.pc = "info" /\ Now \in LocalType /\ Now # Idle /\ task[t] # Idle /\ ~Now.due
    BY AtWork DEF FlushInfo, IInv, Pcs
  <1>2. task' = [task EXCEPT ![t] = l]
    BY <1>1 DEF FlushInfo, IInv, TypeInv
  <1>3. l \in LocalType /\ l.op = Now.op /\ l.pc = "clean" /\ l.due = Now.due
    BY <1>1 DEF LocalType, Pcs
  <1> HIDE DEF l
  <1>4. /\ Now' = l /\ task' \in [Tasks -> LocalType]
        /\ \A u, v \in Tasks : task'[u] # Idle /\ task'[v] # Idle => u = v
    BY <1>1, <1>2, <1>3, StepTo DEF IInv
  <1>5. /\ UNCHANGED <<program, fat32, cached, slots, fatDisk, fatMem, flagDisk, flagMem, count,
                       live, damaged, unmarked, cleared, ops, crashes>>
        /\ infoDisk' = (IF fat32 /\ infoDirty THEN count ELSE infoDisk) /\ infoDirty' = FALSE
    BY DEF FlushInfo, InfoWritten, confVars
  <1>6. TypeInv'
    BY <1>4, <1>5 DEF IInv, TypeInv
  <1>7. EntryInv' /\ ChainInv' /\ ExactInv'
    <2>1. ~Holds /\ ~Holds'
      BY <1>1, <1>3, <1>4 DEF Holds
    <2>2. QED
      BY <1>1, <1>3, <1>4, <1>5, <2>1, Kept
  <1>8. fatDisk = fatMem
    BY <1>1 DEF IInv, OpInv
  <1>9. OpInv'
    BY <1>1, <1>3, <1>4, <1>5, <1>8 DEF IInv, OpInv
  <1>10. fat32 /\ crashes = 0 => infoDisk' = FreeCount(fatMem) /\ infoDisk' = count
    <2>1. fat32 /\ crashes = 0 => Trusted
      BY DEF Trusted, IInv, CountInv
    <2>2. QED
      BY <1>5, <2>1 DEF IInv, CountInv
  <1>11. /\ fat32 /\ Reliable /\ count # -1 /\ infoDirty => infoDisk' = FreeCount(fatMem) /\ infoDisk' = count
         /\ fat32 /\ Reliable /\ ~damaged => infoDisk' = count
    BY <1>5 DEF IInv, CountInv, Trusted, Reliable
  <1>12. DiskInv'
    <2>1. Clean' => Clean
      BY <1>1, <1>3, <1>4, <1>5 DEF Clean, Reliable
    <2>2. Clean' /\ fat32 => infoDisk' = FreeCount(fatDisk)
      <3>1. CASE infoDirty
        BY <1>8, <1>11, <2>1, <3>1 DEF IInv, CountInv, Clean
      <3>2. CASE ~infoDirty
        BY <1>5, <2>1, <3>2 DEF IInv, DiskInv
      <3>3. QED
        BY <3>1, <3>2 DEF IInv, TypeInv
    <2>3. Distinct' = Distinct /\ OnDisk(Files)' = OnDisk(Files) /\ FreeCount(fatDisk)' = FreeCount(fatDisk)
      BY <1>5 DEF Distinct, OnDisk, Files
    <2> HIDE DEF Clean, Distinct, OnDisk, FreeCount
    <2>4. QED
      BY <1>5, <2>1, <2>2, <2>3 DEF IInv, DiskInv
  <1>13. CountInv'
    BY <1>5, <1>10, <1>11 DEF IInv, CountInv, Trusted, Reliable
  <1>14. QED
    BY <1>6, <1>7, <1>9, <1>12, <1>13 DEF IInv

\* What is marked clean is consistent: between calls, the table has the clusters of the
\* entries and no others.
LEMMA SetCleanInv ==
  ASSUME IInv, NEW t \in Tasks, SetClean(t)
  PROVE  IInv'
  <1>1. Now = task[t] /\ Now.pc = "clean" /\ Now # Idle /\ task[t] # Idle /\ ~Now.due
    BY AtWork DEF SetClean, IInv, Pcs
  <1>2. /\ Now' = Idle /\ task' \in [Tasks -> LocalType]
        /\ \A u, v \in Tasks : task'[u] # Idle /\ task'[v] # Idle => u = v
    BY <1>1, StepTo, IdleType DEF SetClean, IInv
  <1>3. /\ UNCHANGED <<program, fat32, cached, slots, fatDisk, fatMem, infoDisk, count,
                       infoDirty, live, damaged, unmarked, ops, crashes>>
        /\ flagDisk' = FALSE /\ flagMem' = FALSE
        /\ cleared' = (cleared \/ (flagDisk /\ damaged))
    BY DEF SetClean, confVars, IInv, TypeInv
  <1>4. TypeInv'
    <2>1. cleared' \in BOOLEAN
      BY <1>3 DEF IInv, TypeInv
    <2>2. QED
      BY <1>2, <1>3, <2>1 DEF IInv, TypeInv
  <1>5. Now'.pc = "idle" /\ Now'.due = FALSE
    BY <1>2, IdleType
  <1>6. ~Holds /\ ~Holds'
    BY <1>1, <1>5 DEF Holds
  <1>7. EntryInv' /\ ChainInv' /\ ExactInv'
    BY <1>1, <1>5, <1>3, <1>6, Kept
  <1>8. OpInv'
    BY <1>2, <1>5 DEF OpInv
  <1>9. fatDisk = fatMem /\ ~infoDirty
    BY <1>1 DEF IInv, OpInv
  <1>10. \A s : First(s) = slots[s].first
    BY <1>1 DEF First
  <1>11. Safe => Distinct /\ OnDisk(Files) \subseteq fatMem
    BY <1>10 DEF IInv, ChainInv, Distinct, OnDisk
  <1>12. ~damaged => OnDisk(Files) = fatMem
    <2>1. ~damaged => fatMem \subseteq OnDisk(Files)
      <3> SUFFICES ASSUME ~damaged, NEW c \in fatMem PROVE c \in OnDisk(Files)
        OBVIOUS
      <3>1. PICK s \in Files : slots[s].first = c
        BY <1>6, <1>10 DEF IInv, ExactInv
      <3>2. c # None
        BY DEF IInv, TypeInv, Clusters, None
      <3>3. QED
        BY <3>1, <3>2 DEF OnDisk
    <2>2. QED
      BY <2>1, <1>11 DEF Safe
  <1>13. CASE ~flagDisk
    <2>1. cleared' = cleared /\ flagDisk' = flagDisk
      BY <1>3, <1>13 DEF IInv, TypeInv
    <2>2. DiskInv'
      BY <1>1, <1>3, <1>5, <2>1 DEF IInv, DiskInv, Clean, Reliable, Distinct, OnDisk, Files
    <2>3. CountInv'
      BY <1>3, <2>1 DEF IInv, CountInv, Trusted, Reliable
    <2>4. QED
      BY <1>4, <1>7, <1>8, <2>2, <2>3 DEF IInv
  <1>14. CASE flagDisk
    <2>1. Reliable' => Reliable /\ (crashes = 0 \/ ~damaged)
      BY <1>3, <1>14 DEF Reliable
    <2>2. Reliable' /\ fat32 => count # -1 /\ infoDisk = count
      BY <1>9, <2>1 DEF IInv, CountInv
    <2>3. Trusted' => Trusted
      BY <1>3 DEF Trusted
    <2>4. Reliable' /\ fat32 => infoDisk = FreeCount(fatMem)
      BY <2>1, <2>2 DEF IInv, CountInv, Trusted, Reliable
    <2>5. DiskInv'
      <3>1. (~cached => fatDisk = fatMem)'
        BY <1>3 DEF IInv, DiskInv
      <3>2. Distinct' = Distinct /\ OnDisk(Files)' = OnDisk(Files) /\ FreeCount(fatDisk)' = FreeCount(fatMem)
        BY <1>3, <1>9 DEF Distinct, OnDisk, Files
      <3>3. Clean' => Reliable'
        BY DEF Clean
      <3>4. Clean' /\ ~cleared' => ~damaged
        BY <1>3, <1>14
      <3>5. Clean' => Safe
        BY <2>1, <3>3 DEF Safe
      <3> HIDE DEF Distinct, OnDisk, Safe, Clean, FreeCount
      <3>6. QED
        BY <3>1, <3>2, <3>3, <3>4, <3>5, <1>3, <1>9, <1>11, <1>12, <2>4 DEF DiskInv
    <2>6. CountInv'
      <3>1. Reliable' /\ fat32' => count' # -1 /\ infoDisk' = count'
        BY <1>3, <2>2
      <3>2. Trusted' => count' = FreeCount(fatMem')
        BY <1>3, <2>3 DEF IInv, CountInv
      <3> HIDE DEF Reliable, Trusted
      <3>3. QED
        BY <1>3, <3>1, <3>2 DEF IInv, CountInv
    <2>7. QED
      BY <1>4, <1>7, <1>8, <2>5, <2>6 DEF IInv
  <1>15. QED
    BY <1>13, <1>14 DEF IInv, TypeInv

-----------------------------------------------------------------------------
(* The steps that write entries or the table.                              *)

LEMMA StepsKeep ==
  ASSUME NEW t, Alloc(t) \/ Update(t) \/ WriteEntry(t) \/ Delete(t) \/ Refused(t) \/ Free(t)
  PROVE  UNCHANGED <<program, fat32, cached, infoDisk, unmarked, cleared, crashes, flagDisk, flagMem, ops>>
  BY DEF Alloc, Update, WriteEntry, Delete, Refused, Free, Unchanged, confVars

\* alloc_cluster: the cluster it takes is in no entry.
LEMMA AllocInv ==
  ASSUME Serial, IInv, NEW t \in Tasks, Alloc(t)
  PROVE  IInv'
  <1>1. /\ Now = task[t] /\ Now.pc = "alloc" /\ Now \in LocalType /\ Now # Idle /\ task[t] # Idle
        /\ ~Now.due /\ (Now.op = "append" => flagDisk)
    <2>1. At(t, "alloc") /\ "alloc" \in Pcs \ {"idle"} /\ TypeInv
      BY DEF Alloc, Pcs, IInv
    <2>2. QED
      BY <2>1, AtWork, IdleType
  <1>2. /\ UNCHANGED <<program, fat32, cached, infoDisk, unmarked, cleared, crashes, flagDisk, flagMem, ops>>
        /\ UNCHANGED <<slots, live, damaged>> /\ Files' = Files
    BY StepsKeep DEF Alloc, Files
  <1>3. /\ Now.op \in {"mkdir", "append"} /\ Now.entry.first = None /\ Now.op \in program
        /\ Now.op = "mkdir" => New
        /\ Now.op = "append" => Now.at \in Slot /\ Now.entry.kind = "short" /\ slots[Now.at] = Now.entry
    BY <1>1 DEF IInv, OpInv
  <1>4. ~Holds /\ \A s : First(s) = slots[s].first
    BY <1>1 DEF Holds, First
  <1>5. CASE FreeToTake = {}
    <2>1. task' = [task EXCEPT ![t] = Idle] /\ UNCHANGED <<fatMem, fatDisk, count, infoDirty>>
      BY <1>5 DEF Alloc
    <2>2. /\ Now' = Idle /\ task' \in [Tasks -> LocalType]
          /\ \A u, v \in Tasks : task'[u] # Idle /\ task'[v] # Idle => u = v
      BY <1>1, <2>1, StepTo, IdleType DEF IInv
    <2>3. Now'.pc = "idle" /\ Now'.due = FALSE /\ ~Holds'
      BY <2>2, IdleType DEF Holds
    <2>4. TypeInv'
      BY <1>2, <2>1, <2>2 DEF IInv, TypeInv
    <2>5. EntryInv' /\ ChainInv' /\ ExactInv'
      BY <1>1, <1>2, <1>4, <2>1, <2>3, Kept
    <2>6. OpInv'
      BY <2>2, <2>3 DEF OpInv
    <2>7. DiskInv'
      BY <1>1, <1>2, <2>1, <2>3 DEF IInv, DiskInv, Clean, Reliable, Distinct, OnDisk
    <2>8. CountInv'
      BY <1>2, <2>1 DEF IInv, CountInv, Trusted, Reliable
    <2>9. QED
      BY <2>4, <2>5, <2>6, <2>7, <2>8 DEF IInv
  <1>6. ASSUME NEW c \in FreeToTake, TableWrite(fatMem \cup {c}), count' = Known(-1), infoDirty' = TRUE,
               task' = [task EXCEPT ![t].entry.first = c, ![t].due = TableDue,
                                    ![t].pc = AfterAlloc(task[t])]
        PROVE  IInv'
    <2> DEFINE e == [Now.entry EXCEPT !.first = c]
               p == AfterAlloc(Now)
               l == [Now EXCEPT !.entry = e, !.due = TableDue, !.pc = p]
    <2>1. c \in Clusters /\ c \notin fatMem /\ c # None
      BY <1>6 DEF FreeToTake, Clusters, None
    <2>2. /\ e \in EntryType /\ e.first = c /\ e.kind = Now.entry.kind /\ e.id = Now.entry.id
          /\ e.name = Now.entry.name
      BY <1>1, <2>1 DEF LocalType, EntryType
    <2>3. task' = [task EXCEPT ![t] = l]
      BY <1>1, <1>6 DEF IInv, TypeInv
    <2> HIDE DEF e
    <2>4. TableDue \in BOOLEAN /\ TableDue = (~cached /\ ~flagDisk)
      BY DEF TableDue, DueAfterWrite, IInv, TypeInv
    <2>p. /\ p \in {"place", "refused", "update"} /\ (p = "place" => Now.entry.name \in Names)
          /\ (p = "update" <=> Now.op = "append")
      BY DEF AfterAlloc
    <2> HIDE DEF p
    <2>5. /\ l \in LocalType /\ l.op = Now.op /\ l.pc = p /\ l.entry = e /\ l.at = Now.at
          /\ l.due = TableDue
      BY <1>1, <2>p, <2>2, <2>4 DEF LocalType, Pcs
    <2> HIDE DEF l
    <2>6. /\ Now' = l /\ task' \in [Tasks -> LocalType]
          /\ \A u, v \in Tasks : task'[u] # Idle /\ task'[v] # Idle => u = v
      BY <1>1, <2>3, <2>5, StepTo DEF IInv
    <2>7. fatMem' = fatMem \cup {c} /\ fatDisk' = (IF cached THEN fatDisk ELSE fatMem \cup {c})
      BY <1>6 DEF TableWrite
    <2>8. count' \in Int
      BY <1>6 DEF Known, IInv, TypeInv
    <2>9. TypeInv'
      BY <1>2, <1>6, <2>1, <2>6, <2>7, <2>8 DEF IInv, TypeInv
    <2>10. Holds' /\ Now'.entry.first = c
      BY <2>p, <2>2, <2>5, <2>6 DEF Holds
    <2>11. \A s : First(s)' = slots[s].first
      <3>1. CASE Now.op = "mkdir"
        BY <1>2, <2>p, <2>5, <2>6, <3>1 DEF First
      <3>2. CASE Now.op = "append"
        BY <1>2, <1>3, <2>5, <2>6, <3>2 DEF First
      <3>3. QED
        BY <1>3, <3>1, <3>2
    <2>12. OpInv'
      <3>1. CASE Now.op = "mkdir"
        <4>1. New'
          BY <1>2, <1>3, <2>2, <2>5, <2>6, <3>1 DEF New
        <4>2. /\ Now'.pc \in {"place", "refused"} /\ Now'.op = "mkdir"
              /\ Now'.pc = "place" => Fresh'
          BY <2>p, <2>2, <2>5, <2>6, <3>1, <4>1 DEF Fresh
        <4>3. \A s \in Files' : slots'[s].id # Now'.entry.id
          BY <4>1 DEF New
        <4>4. QED
          BY <1>2, <1>3, <3>1, <4>2, <4>3 DEF OpInv
      <3>2. CASE Now.op = "append"
        <4>1. Now'.pc = "update" /\ Now'.op = "append" /\ Now'.at = Now.at /\ Now'.entry = e
          BY <2>p, <2>5, <2>6, <3>2
        <4>2. Now'.pc = "update" =>
                 /\ slots'[Now.at].kind = "short" /\ slots'[Now.at].id = e.id /\ slots'[Now.at].first = None
                 /\ e.kind = "short" /\ flagDisk'
          BY <1>1, <1>2, <1>3, <2>2, <3>2
        <4>3. QED
          BY <1>2, <1>3, <3>2, <4>1, <4>2 DEF OpInv
      <3>3. QED
        BY <1>3, <3>1, <3>2
    <2>13. EntryInv'
      BY <1>1, <1>2 DEF IInv, EntryInv
    <2>14. Trusted' => Trusted /\ count' = count - 1
      BY <1>2, <1>6 DEF Trusted, Known
    <2>15. ChainInv'
      <3>1. Safe' => Safe
        BY <1>2, <2>14 DEF Safe
      <3> SUFFICES ASSUME Safe
                   PROVE  /\ \A r, s \in Files : r # s /\ slots[r].first # None => slots[r].first # slots[s].first
                          /\ \A s \in Files : slots[s].first \in fatMem' \cup {None}
                          /\ c \in fatMem' \cup {None}
                          /\ \A s \in Files : slots[s].first # c
        BY <1>2, <2>10, <2>11, <3>1 DEF ChainInv
      <3>2. \A s \in Files : slots[s].first \in fatMem \cup {None}
        BY <1>4 DEF IInv, ChainInv
      <3>3. \A r, s \in Files : r # s /\ slots[r].first # None => slots[r].first # slots[s].first
        BY <1>4 DEF IInv, ChainInv
      <3>4. QED
        BY <2>1, <2>7, <3>2, <3>3
    <2>16. ExactInv'
      BY <1>2, <1>4, <2>7, <2>10, <2>11 DEF IInv, ExactInv
    <2>17. DiskInv'
      <3>1. ~cached => fatDisk' = fatMem'
        BY <2>7
      <3>2. ~flagDisk /\ ~Now'.due => fatDisk' = fatDisk
        BY <2>4, <2>5, <2>6, <2>7
      <3>3. QED
        BY <1>1, <1>2, <3>1, <3>2 DEF IInv, DiskInv, Clean, Reliable, Distinct, OnDisk
    <2>18. CountInv'
      <3>1. FreeCount(fatMem') = FreeCount(fatMem) - 1 /\ FreeCount(fatMem') \in Nat
        BY <2>1, <2>7, FreeCountAllocated, FreeCountType DEF IInv, TypeInv
      <3>2. Trusted' => count' = FreeCount(fatMem')
        BY <2>14, <3>1 DEF IInv, CountInv
      <3>3. FreeCount(fatMem) \in Nat
        BY FreeCountType DEF IInv, TypeInv
      <3>4. ~fat32 => count' = -1
        BY <1>6 DEF Known, IInv, CountInv
      <3>5. fat32 /\ crashes = 0 => count' # -1
        <4>1. fat32 /\ crashes = 0 => count # -1 /\ count = FreeCount(fatMem)
          BY DEF Trusted, IInv, CountInv
        <4>2. fat32 /\ crashes = 0 => count' = FreeCount(fatMem')
          BY <1>6, <3>1, <4>1 DEF Known
        <4>3. QED
          BY <3>1, <4>2
      <3>6. /\ fat32 /\ Reliable => count # -1 \/ flagDisk
            /\ fat32 /\ Reliable /\ ~damaged => count # -1
            /\ count # -1 /\ Reliable => count = FreeCount(fatMem)
        BY DEF IInv, CountInv, Trusted, Reliable
      <3>7. count # -1 /\ Reliable => count' # -1
        BY <1>6, <3>1, <3>3, <3>6 DEF Known
      <3>8. Reliable' <=> Reliable
        BY <1>2 DEF Reliable
      <3> HIDE DEF Reliable
      <3>9. QED
        BY <1>2, <1>6, <3>2, <3>4, <3>5, <3>6, <3>7, <3>8 DEF IInv, CountInv
    <2>19. QED
      BY <2>9, <2>12, <2>13, <2>15, <2>16, <2>17, <2>18 DEF IInv
  <1>7. QED
    BY <1>5, <1>6 DEF Alloc

\* DirEntryEditor::write.
LEMMA UpdateInv ==
  ASSUME IInv, NEW t \in Tasks, Update(t)
  PROVE  IInv'
  <1>1. /\ Now = task[t] /\ Now.pc = "update" /\ Now \in LocalType /\ Now # Idle /\ task[t] # Idle
        /\ ~Now.due
    BY AtWork DEF Update, IInv, Pcs
  <1> DEFINE e == Now.entry
  <1>0. PICK a : a = Now.at
    OBVIOUS
  <1>2. /\ UNCHANGED <<program, fat32, cached, infoDisk, unmarked, cleared, crashes, flagDisk, flagMem, ops>>
        /\ UNCHANGED <<fatDisk, fatMem, count, infoDirty, live, damaged>>
        /\ slots' = [slots EXCEPT ![a] = e] /\ task' = [task EXCEPT ![t] = Idle]
    BY <1>0, <1>1, StepsKeep DEF Update
  <1>3. /\ Now.op \in {"append", "truncate"} /\ Now.op \in program /\ a \in Slot
        /\ slots[a].kind = "short" /\ e.kind = "short" /\ slots[a].id = e.id
        /\ Now.op = "append" => flagDisk
        /\ Now.op = "truncate" => e.first = None /\ (cached \/ flagDisk)
    BY <1>0, <1>1 DEF IInv, OpInv
  <1>4. e \in EntryType
    BY <1>1 DEF LocalType
  <1>5. /\ Now' = Idle /\ task' \in [Tasks -> LocalType]
        /\ \A u, v \in Tasks : task'[u] # Idle /\ task'[v] # Idle => u = v
    BY <1>1, <1>2, StepTo, IdleType DEF IInv
  <1>6. Now'.pc = "idle" /\ Now'.due = FALSE /\ ~Holds' /\ Holds
    BY <1>1, <1>5, IdleType DEF Holds
  <1> HIDE DEF e
  <1>7. /\ slots' \in [Slot -> EntryType] /\ slots'[a] = e /\ \A s \in Slot \ {a} : slots'[s] = slots[s]
    BY <1>2, <1>3, <1>4 DEF IInv, TypeInv
  <1>8. Files' = Files /\ a \in Files /\ \A s \in Slot : slots'[s].id = slots[s].id
    BY <1>3, <1>7 DEF Files
  <1>9. TypeInv'
    BY <1>2, <1>5, <1>7 DEF IInv, TypeInv
  <1>10. OpInv'
    BY <1>5, <1>6 DEF OpInv
  <1>11. EntryInv'
    <2>1. Files \subseteq Slot
      BY DEF Files
    <2>2. QED
      BY <1>1, <1>2, <1>8, <2>1 DEF IInv, EntryInv
  <1>12. First(a) = None /\ First(a)' = e.first
    BY <1>0, <1>1, <1>6, <1>7 DEF First
  <1>13. \A s \in Slot \ {a} : First(s) = slots[s].first /\ First(s)' = slots[s].first
    BY <1>0, <1>1, <1>6, <1>7 DEF First
  <1>14. ChainInv'
    <2>1. Safe' => Safe
      BY <1>2 DEF Safe, Trusted
    <2> SUFFICES ASSUME Safe
                 PROVE  /\ \A r, s \in Files : r # s /\ First(r)' # None => First(r)' # First(s)'
                        /\ \A s \in Files : First(s)' \in fatMem \cup {None}
      BY <1>2, <1>6, <1>8, <2>1 DEF ChainInv
    <2>2. /\ \A r, s \in Files : r # s /\ First(r) # None => First(r) # First(s)
          /\ \A s \in Files : First(s) \in fatMem \cup {None}
          /\ e.first \in fatMem \cup {None}
          /\ e.first # None => \A s \in Files : First(s) # e.first
      BY <1>6 DEF IInv, ChainInv, e
    <2>3. \A s \in Files : s # a => First(s)' = First(s)
      BY <1>13 DEF Files
    <2>4. QED
      BY <1>8, <1>12, <2>2, <2>3
  <1>15. ExactInv'
    <2> SUFFICES ASSUME ~damaged, NEW c \in fatMem PROVE \E s \in Files : First(s)' = c
      BY <1>2, <1>8 DEF ExactInv
    <2>1. (\E s \in Files : First(s) = c) \/ e.first = c
      BY DEF IInv, ExactInv, e
    <2>2. c # None
      BY DEF IInv, TypeInv, Clusters, None
    <2>3. \A s \in Files : s # a => First(s)' = First(s)
      BY <1>13 DEF Files
    <2>4. QED
      BY <1>8, <1>12, <2>1, <2>2, <2>3
  <1>16. DiskInv'
    <2>1. CASE Now.op = "append"
      BY <1>2, <1>3, <2>1 DEF IInv, DiskInv, Clean
    <2>2. CASE Now.op = "truncate"
      <3>1. "truncate" \in program /\ e.first = None
        BY <1>3, <2>2
      <3>2. Distinct => Distinct'
        <4>1. \A s \in Files : s # a => slots'[s].first = slots[s].first
          BY <1>7 DEF Files
        <4>2. slots'[a].first = None
          BY <1>7, <3>1
        <4>3. QED
          BY <1>8, <4>1, <4>2 DEF Distinct
      <3>3. OnDisk(Files)' \subseteq OnDisk(Files)
        <4>1. \A s \in Files : s # a => slots'[s].first = slots[s].first
          BY <1>7 DEF Files
        <4>2. slots'[a].first = None
          BY <1>7, <3>1
        <4>3. QED
          BY <1>8, <4>1, <4>2 DEF OnDisk
      <3>4. CASE flagDisk
        BY <1>2, <3>4 DEF IInv, DiskInv, Clean
      <3>5. CASE ~flagDisk
        <4>1. cached /\ "truncate" \in program'
          BY <1>2, <1>3, <2>2, <3>5
        <4>2. Clean' => Clean
          BY <1>1, <1>2, <3>5 DEF Clean, Reliable
        <4> HIDE DEF Distinct, OnDisk
        <4>3. QED
          BY <1>2, <3>2, <3>3, <4>1, <4>2 DEF IInv, DiskInv
      <3>6. QED
        BY <3>4, <3>5
    <2>3. QED
      BY <1>3, <2>1, <2>2
  <1>17. CountInv'
    BY <1>2 DEF IInv, CountInv, Trusted, Reliable
  <1>18. QED
    BY <1>9, <1>10, <1>11, <1>14, <1>15, <1>16, <1>17 DEF IInv

\* An operation gives up half way: a file that is being renamed is lost, and so is what the
\* operation holds.
LEMMA Abandoned ==
  ASSUME IInv, Now.pc \in {"write", "refused"}, ~Now.due, Now' = Idle,
         task' \in [Tasks -> LocalType],
         \A u, v \in Tasks : task'[u] # Idle /\ task'[v] # Idle => u = v,
         live' = (IF Now.op = "rename" THEN live \ {Now.entry.id} ELSE live), damaged' = TRUE,
         UNCHANGED <<program, fat32, cached, slots, fatDisk, fatMem, flagDisk, flagMem, infoDisk, count,
                     infoDirty, unmarked, cleared, ops, crashes>>
  PROVE  IInv'
  <1>1. TypeInv'
    BY DEF IInv, TypeInv
  <1>2. Now'.pc = "idle" /\ Now'.due = FALSE /\ ~Holds' /\ Files' = Files
    BY IdleType DEF Holds, Files
  <1>3. OpInv'
    BY <1>2 DEF OpInv
  <1>4. EntryInv'
    <2>1. \A s \in Files : slots[s].id # Now.entry.id
      BY DEF IInv, OpInv, Fresh, New
    <2>2. QED
      BY <1>2, <2>1 DEF IInv, EntryInv
  <1>5. \A s : First(s) = slots[s].first /\ First(s)' = slots[s].first
    BY <1>2 DEF First
  <1>6. ChainInv'
    BY <1>2, <1>5 DEF IInv, ChainInv, Safe, Trusted
  <1>7. ExactInv'
    BY DEF ExactInv
  <1>8. DiskInv'
    BY <1>2 DEF IInv, DiskInv, Clean, Reliable, Distinct, OnDisk
  <1>9. CountInv'
    BY DEF IInv, CountInv, Trusted, Reliable
  <1>10. QED
    BY <1>1, <1>3, <1>4, <1>6, <1>7, <1>8, <1>9 DEF IInv

LEMMA RefusedInv ==
  ASSUME IInv, NEW t \in Tasks, Refused(t)
  PROVE  IInv'
  <1>1. Now = task[t] /\ Now.pc = "refused" /\ task[t] # Idle /\ ~Now.due
    BY AtWork DEF Refused, IInv, Pcs
  <1>2. /\ Now.op \in {"mkdir", "rename"}
        /\ Now.op = "mkdir" => Now.entry.id \notin live
    <2>1. Now.op \in {"mkdir", "rename"} /\ \A s \in Files : slots[s].id # Now.entry.id
      BY <1>1 DEF IInv, OpInv
    <2>2. QED
      BY <2>1 DEF IInv, EntryInv
  <1>3. /\ UNCHANGED <<program, fat32, cached, slots, fatDisk, fatMem, flagDisk, flagMem, infoDisk, count,
                       infoDirty, unmarked, cleared, ops, crashes>>
        /\ live' = live \ {Now.entry.id} /\ damaged' = TRUE /\ task' = [task EXCEPT ![t] = Idle]
    BY <1>1, StepsKeep DEF Refused
  <1>4. /\ Now' = Idle /\ task' \in [Tasks -> LocalType]
        /\ \A u, v \in Tasks : task'[u] # Idle /\ task'[v] # Idle => u = v
    BY <1>1, <1>3, StepTo, IdleType DEF IInv
  <1>5. QED
    BY <1>1, <1>2, <1>3, <1>4, Abandoned

\* write_entry: each entry it writes was free, and the last is the file's.
LEMMA WriteEntryInv ==
  ASSUME Serial, IInv, NEW t \in Tasks, WriteEntry(t)
  PROVE  IInv'
  <1>1. /\ Now = task[t] /\ Now.pc = "write" /\ Now \in LocalType /\ Now # Idle /\ task[t] # Idle
        /\ ~Now.due
    BY AtWork DEF WriteEntry, IInv, Pcs
  <1>2. PICK a, e : a = Now.at /\ e = Now.entry
    OBVIOUS
  <1>3. /\ UNCHANGED <<program, fat32, cached, infoDisk, unmarked, cleared, crashes, flagDisk, flagMem, ops>>
        /\ UNCHANGED <<fatDisk, fatMem, count, infoDirty>>
    BY StepsKeep DEF WriteEntry
  <1>4. /\ Now.op \in {"create", "mkdir", "rename"} /\ Now.op \in program /\ Fresh
        /\ a \in 1 .. Slots + 1 /\ a <= Now.end
        /\ \A r \in Slot : r \in a .. Now.end => slots[r].kind = "free"
    BY <1>1, <1>2 DEF IInv, OpInv
  <1>5. /\ e \in EntryType /\ e.kind = "short" /\ e.id <= ops /\ e.id \in Nat
        /\ \A s \in Files : slots[s].id # e.id
    BY <1>1, <1>2, <1>4 DEF LocalType, EntryType, Fresh, New
  <1>6. Slots \in Nat /\ Now.end \in Int /\ Now.at = a
    BY <1>1, <1>2 DEF Serial, DirUpdatesAssumption, LocalType
  <1>7. DueAfterWrite = ~flagDisk /\ flagDisk \in BOOLEAN
    BY DEF DueAfterWrite, IInv, TypeInv
  <1>8. Holds /\ \A s : First(s) = slots[s].first
    BY <1>1 DEF Holds, First
  <1>9. CASE a > Slots
    <2>1. /\ damaged' = TRUE /\ live' = (IF Now.op = "rename" THEN live \ {Now.entry.id} ELSE live)
          /\ task' = [task EXCEPT ![t] = Idle] /\ slots' = slots
      BY <1>1, <1>2, <1>9 DEF WriteEntry
    <2>2. /\ Now' = Idle /\ task' \in [Tasks -> LocalType]
          /\ \A u, v \in Tasks : task'[u] # Idle /\ task'[v] # Idle => u = v
      BY <1>1, <2>1, StepTo, IdleType DEF IInv
    <2>3. QED
      BY <1>1, <1>3, <2>1, <2>2, Abandoned
  <1>10. CASE a <= Slots /\ a < Now.end
    <2> DEFINE x == LongEntry(e.id)
               l == [Now EXCEPT !.at = a + 1, !.due = ~flagDisk]
    <2>1. /\ slots' = [slots EXCEPT ![a] = x] /\ UNCHANGED <<live, damaged>>
          /\ task' = [task EXCEPT ![t] = l]
      <3>1. ~(a > Slots) /\ a # Now.end /\ a < Now.end
        BY <1>4, <1>6, <1>10
      <3>2. slots' = [slots EXCEPT ![a] = x] /\ UNCHANGED <<live, damaged>>
        BY <1>1, <1>2, <1>6, <3>1 DEF WriteEntry
      <3>3. task' = [task EXCEPT ![t] = [Now EXCEPT !.at = a + 1, !.due = DueAfterWrite]]
        BY <1>1, <1>6, <3>1 DEF WriteEntry
      <3>4. QED
        BY <1>7, <3>2, <3>3
    <2>2. x \in EntryType /\ x.kind = "long" /\ x.id = e.id
      BY <1>5 DEF LongEntry, FreeEntry, EntryType
    <2>3. /\ l \in LocalType /\ l.op = Now.op /\ l.pc = "write" /\ l.entry = e /\ l.at = a + 1
          /\ l.end = Now.end /\ l.due = ~flagDisk
      <3>1. a + 1 \in Int
        BY <1>4, <1>6
      <3>2. QED
        BY <1>1, <1>2, <1>7, <3>1 DEF LocalType
    <2> HIDE DEF x, l
    <2>4. /\ Now' = l /\ task' \in [Tasks -> LocalType]
          /\ \A u, v \in Tasks : task'[u] # Idle /\ task'[v] # Idle => u = v
      BY <1>1, <2>1, <2>3, StepTo DEF IInv
    <2>5. a \in Slot /\ slots[a].kind = "free"
      BY <1>4, <1>6, <1>10 DEF Slot
    <2>6. slots' \in [Slot -> EntryType] /\ slots'[a] = x /\ \A s \in Slot \ {a} : slots'[s] = slots[s]
      BY <2>1, <2>2, <2>5 DEF IInv, TypeInv
    <2>7. Files' = Files /\ a \notin Files /\ \A s \in Files : slots'[s] = slots[s]
      BY <2>2, <2>5, <2>6 DEF Files
    <2>8. TypeInv'
      BY <1>3, <2>1, <2>4, <2>6 DEF IInv, TypeInv
    <2>9. OpInv'
      <3>1. Fresh'
        BY <1>2, <1>3, <1>4, <1>5, <2>3, <2>4, <2>7 DEF Fresh, New
      <3>2. a + 1 \in 1 .. Slots + 1 /\ a + 1 <= Now.end
        BY <1>4, <1>6, <1>10
      <3>3. \A r \in Slot : r \in a + 1 .. Now.end => slots'[r].kind = "free"
        BY <1>4, <1>6, <2>6
      <3> HIDE DEF Fresh
      <3>4. QED
        BY <1>3, <1>4, <2>3, <2>4, <3>1, <3>2, <3>3 DEF OpInv
    <2>10. EntryInv'
      <3>1. \A s \in Slot : slots'[s].id <= ops
        BY <1>5, <2>2, <2>6 DEF IInv, EntryInv
      <3>2. QED
        BY <1>1, <1>2, <1>3, <2>1, <2>3, <2>4, <2>7, <3>1 DEF IInv, EntryInv
    <2>11. Holds' /\ Now'.entry = Now.entry /\ \A s \in Files : First(s)' = First(s)
      BY <1>2, <1>8, <2>3, <2>4, <2>7 DEF Holds, First
    <2>12. ChainInv'
      BY <1>3, <1>8, <2>1, <2>7, <2>11 DEF IInv, ChainInv, Safe, Trusted
    <2>13. ExactInv'
      BY <1>3, <1>8, <2>1, <2>7, <2>11 DEF IInv, ExactInv
    <2>14. DiskInv'
      BY <1>3, <2>3, <2>4 DEF IInv, DiskInv, Clean
    <2>15. CountInv'
      BY <1>3, <2>1 DEF IInv, CountInv, Trusted, Reliable
    <2>16. QED
      BY <2>8, <2>9, <2>10, <2>12, <2>13, <2>14, <2>15 DEF IInv
  <1>11. CASE a <= Slots /\ a = Now.end
    <2> DEFINE l == [Idle EXCEPT !.op = Now.op, !.pc = "end", !.due = ~flagDisk]
    <2>1. /\ slots' = [slots EXCEPT ![a] = e] /\ live' = live \cup {e.id} /\ damaged' = damaged
          /\ task' = [task EXCEPT ![t] = l]
      BY <1>1, <1>2, <1>6, <1>7, <1>11 DEF WriteEntry
    <2>2. l \in LocalType /\ l.op = Now.op /\ l.pc = "end" /\ l.due = ~flagDisk
      BY <1>1, <1>7, IdleType DEF LocalType, Pcs
    <2> HIDE DEF l
    <2>3. /\ Now' = l /\ task' \in [Tasks -> LocalType]
          /\ \A u, v \in Tasks : task'[u] # Idle /\ task'[v] # Idle => u = v
      BY <1>1, <2>1, <2>2, StepTo DEF IInv
    <2>4. a \in Slot /\ slots[a].kind = "free"
      BY <1>4, <1>6, <1>11 DEF Slot
    <2>5. slots' \in [Slot -> EntryType] /\ slots'[a] = e /\ \A s \in Slot \ {a} : slots'[s] = slots[s]
      BY <1>5, <2>1, <2>4 DEF IInv, TypeInv
    <2>6. Files' = Files \cup {a} /\ a \notin Files /\ \A s \in Files : slots'[s] = slots[s]
      BY <1>5, <2>4, <2>5 DEF Files
    <2>7. TypeInv'
      BY <1>3, <1>5, <2>1, <2>3, <2>5 DEF IInv, TypeInv
    <2>8. OpInv'
      BY <1>3, <1>4, <2>2, <2>3 DEF OpInv
    <2>9. EntryInv'
      <3>1. \A s \in Slot : slots'[s].id <= ops
        BY <1>5, <2>5 DEF IInv, EntryInv
      <3>2. \A r, s \in Files' : r # s => slots'[r].id # slots'[s].id
        BY <1>5, <2>5, <2>6 DEF IInv, EntryInv
      <3>3. \A s \in Files' : slots'[s].id \in live'
        BY <2>1, <2>5, <2>6 DEF IInv, EntryInv
      <3>4. \A id \in live' : \E s \in Files' : slots'[s].id = id
        <4>1. \A id \in live : (\E s \in Files : slots[s].id = id) \/ id = e.id
          BY <1>2 DEF IInv, EntryInv
        <4>2. \A id \in live' : (\E s \in Files : slots'[s].id = id) \/ id = slots'[a].id
          BY <2>1, <2>5, <2>6, <4>1
        <4>3. QED
          BY <2>6, <4>2
      <3>5. QED
        BY <1>3, <3>1, <3>2, <3>3, <3>4 DEF EntryInv
    <2>10. ~Holds' /\ \A s : First(s)' = slots'[s].first
      BY <2>2, <2>3 DEF Holds, First
    <2>11. ChainInv'
      <3>1. Safe' => Safe
        BY <1>3, <2>1 DEF Safe, Trusted
      <3> SUFFICES ASSUME Safe
                   PROVE  /\ \A r, s \in Files' : r # s /\ slots'[r].first # None => slots'[r].first # slots'[s].first
                          /\ \A s \in Files' : slots'[s].first \in fatMem \cup {None}
        BY <1>3, <2>10, <3>1 DEF ChainInv
      <3>2. /\ \A r, s \in Files : r # s /\ slots[r].first # None => slots[r].first # slots[s].first
            /\ \A s \in Files : slots[s].first \in fatMem \cup {None}
            /\ e.first \in fatMem \cup {None}
            /\ e.first # None => \A s \in Files : slots[s].first # e.first
        BY <1>2, <1>8 DEF IInv, ChainInv
      <3>3. QED
        BY <2>5, <2>6, <3>2
    <2>12. ExactInv'
      <3> SUFFICES ASSUME ~damaged, NEW c \in fatMem PROVE \E s \in Files' : slots'[s].first = c
        BY <1>3, <2>1, <2>10 DEF ExactInv
      <3>1. (\E s \in Files : slots[s].first = c) \/ e.first = c
        BY <1>2, <1>8 DEF IInv, ExactInv
      <3>2. QED
        BY <2>5, <2>6, <3>1
    <2>13. DiskInv'
      BY <1>3, <2>2, <2>3 DEF IInv, DiskInv, Clean
    <2>14. CountInv'
      BY <1>3, <2>1 DEF IInv, CountInv, Trusted, Reliable
    <2>15. QED
      BY <2>7, <2>8, <2>9, <2>11, <2>12, <2>13, <2>14 DEF IInv
  <1>12. QED
    BY <1>4, <1>6, <1>9, <1>10, <1>11

\* What comes after an entry is deleted.
LEMMA AfterDeletionIs ==
  ASSUME Serial, IInv, Now.pc = "delete", NEW d \in BOOLEAN
  PROVE  LET l == [AfterDeletion(Now) EXCEPT !.due = d] IN
         /\ l \in LocalType /\ l.due = d /\ l.op = Now.op
         /\ Now.at < Now.end =>
              l.pc = "delete" /\ l.at = Now.at + 1 /\ l.end = Now.end /\ l.entry = Now.entry
         /\ ~(Now.at < Now.end) =>
              /\ l.entry.id = Now.entry.id /\ l.entry.kind = Now.entry.kind
              /\ l.entry.first = Now.entry.first
              /\ IF Now.op = "rename" THEN l.pc \in {"place", "refused"}
                 ELSE l.pc = (IF Now.entry.first = None THEN "end" ELSE "free")
              /\ l.pc = "place" => l.entry.name \in Names
  <1>1. Now \in LocalType /\ Now.entry \in EntryType /\ Now.at \in Int /\ Now.end \in Int
    BY NowType DEF IInv, LocalType
  <1>2. Now.op \in {"remove", "rename"}
    BY DEF IInv, OpInv
  <1> DEFINE m == AfterDeletion(Now)
             l == [m EXCEPT !.due = d]
  <1>3. ASSUME m \in LocalType
        PROVE  /\ l \in LocalType /\ l.due = d /\ l.op = m.op /\ l.pc = m.pc /\ l.at = m.at
               /\ l.end = m.end /\ l.entry = m.entry
    BY <1>3 DEF LocalType
  <1>4. CASE Now.at < Now.end
    <2>1. m = [Now EXCEPT !.at = Now.at + 1]
      BY <1>4 DEF AfterDeletion
    <2>2. m \in LocalType /\ m.op = Now.op /\ m.pc = "delete" /\ m.at = Now.at + 1 /\ m.end = Now.end
          /\ m.entry = Now.entry
      BY <1>1, <2>1 DEF LocalType
    <2> HIDE DEF m
    <2>3. QED
      BY <1>3, <1>4, <2>2 DEF m
  <1>5. CASE ~(Now.at < Now.end) /\ Now.op = "rename" /\ Now.to \in Names
    <2> DEFINE e == [Now.entry EXCEPT !.name = Now.to]
    <2>1. /\ e \in EntryType /\ e.id = Now.entry.id /\ e.kind = Now.entry.kind
          /\ e.first = Now.entry.first /\ e.name \in Names
      BY <1>1, <1>5 DEF EntryType
    <2>2. m = [Now EXCEPT !.pc = "place", !.entry = e]
      BY <1>1, <1>5 DEF AfterDeletion, LocalType
    <2> HIDE DEF e
    <2>3. m \in LocalType /\ m.op = Now.op /\ m.pc = "place" /\ m.entry = e
      BY <1>1, <2>1, <2>2 DEF LocalType, Pcs
    <2> HIDE DEF m
    <2>4. QED
      BY <1>3, <1>5, <2>1, <2>3 DEF m
  <1>6. CASE ~(Now.at < Now.end) /\ ~(Now.op = "rename" /\ Now.to \in Names)
    <2> DEFINE p == IF Now.op = "rename" THEN "refused"
                    ELSE IF Now.entry.first = None THEN "end" ELSE "free"
    <2>1. m = [Now EXCEPT !.pc = p]
      BY <1>6 DEF AfterDeletion
    <2>2. m \in LocalType /\ m.op = Now.op /\ m.pc = p /\ m.entry = Now.entry
      BY <1>1, <2>1 DEF LocalType, Pcs
    <2> HIDE DEF m
    <2>3. QED
      BY <1>3, <1>6, <2>2 DEF m
  <1>7. QED
    BY <1>4, <1>5, <1>6

\* The entries of a file are deleted from the first on, the file's own last.
LEMMA DeleteInv ==
  ASSUME Serial, IInv, NEW t \in Tasks, Delete(t)
  PROVE  IInv'
  <1>1. /\ Now = task[t] /\ Now.pc = "delete" /\ Now \in LocalType /\ Now # Idle /\ task[t] # Idle
        /\ ~Now.due /\ (fat32 => flagDisk)
    BY AtWork DEF Delete, IInv, Pcs
  <1>2. PICK a, e, d : a = Now.at /\ e = Now.entry /\ d = DueAfterWrite
    OBVIOUS
  <1>3. d \in BOOLEAN /\ d = ~flagDisk
    BY <1>2 DEF DueAfterWrite, IInv, TypeInv
  <1>4. /\ UNCHANGED <<program, fat32, cached, infoDisk, unmarked, cleared, crashes, flagDisk, flagMem, ops>>
        /\ UNCHANGED <<fatDisk, fatMem, count, infoDirty, damaged>>
        /\ slots' = [slots EXCEPT ![a] = FreeEntry]
        /\ live' = (IF Now.op = "remove" /\ a = Now.end THEN live \ {e.id} ELSE live)
    BY <1>1, <1>2, StepsKeep DEF Delete
  <1> DEFINE l == [AfterDeletion(Now) EXCEPT !.due = d]
  <1>5. task' = [task EXCEPT ![t] = l]
    BY <1>1, <1>2 DEF Delete
  <1>6. /\ l \in LocalType /\ l.due = d /\ l.op = Now.op
        /\ Now.at < Now.end =>
             l.pc = "delete" /\ l.at = Now.at + 1 /\ l.end = Now.end /\ l.entry = Now.entry
        /\ ~(Now.at < Now.end) =>
             /\ l.entry.id = Now.entry.id /\ l.entry.kind = Now.entry.kind
             /\ l.entry.first = Now.entry.first
             /\ IF Now.op = "rename" THEN l.pc \in {"place", "refused"}
                ELSE l.pc = (IF Now.entry.first = None THEN "end" ELSE "free")
             /\ l.pc = "place" => l.entry.name \in Names
    BY <1>1, <1>3, AfterDeletionIs
  <1> HIDE DEF l
  <1>7. /\ Now' = l /\ task' \in [Tasks -> LocalType]
        /\ \A u, v \in Tasks : task'[u] # Idle /\ task'[v] # Idle => u = v
    BY <1>1, <1>5, <1>6, StepTo DEF IInv
  <1>8. /\ Now.op \in {"remove", "rename"} /\ Now.op \in program
        /\ a \in Slot /\ Now.end \in Slot /\ a <= Now.end
        /\ e.kind = "short" /\ slots[Now.end] = e
        /\ \A r \in Slot : r \in a .. Now.end - 1 => slots[r].kind = "long"
    BY <1>1, <1>2 DEF IInv, OpInv
  <1>9. Slots \in Nat /\ Slot = 1 .. Slots /\ a \in Int /\ Now.end \in Int
    BY <1>8 DEF Serial, DirUpdatesAssumption, Slot
  <1>10. slots' \in [Slot -> EntryType] /\ slots'[a] = FreeEntry /\ \A s \in Slot \ {a} : slots'[s] = slots[s]
    BY <1>4, <1>8, IdleType DEF IInv, TypeInv
  <1>11. Files' = Files \ {a} /\ \A s \in Files' : slots'[s] = slots[s]
    BY <1>10, IdleType DEF Files
  <1>12. live' \in SUBSET Nat
    BY <1>4 DEF IInv, TypeInv
  <1>13. TypeInv'
    BY <1>4, <1>7, <1>10, <1>12 DEF IInv, TypeInv
  <1>14. ~Holds /\ (\A s : First(s) = slots[s].first) /\ \A s : First(s)' = slots'[s].first
    <2>1. l.pc # "update"
      BY <1>6, <1>8
    <2>2. QED
      BY <1>1, <1>7, <2>1 DEF Holds, First
  <1>15. DiskInv'
    BY <1>3, <1>4, <1>6, <1>7 DEF IInv, DiskInv, Clean
  <1>16. CountInv'
    BY <1>4 DEF IInv, CountInv, Trusted, Reliable
  <1>17. Safe' <=> Safe
    BY <1>4 DEF Safe, Trusted
  <1>18. \A s \in Slot : slots'[s].id <= ops
    <2>1. FreeEntry.id <= ops
      BY IdleType DEF IInv, TypeInv
    <2>2. QED
      BY <1>10, <2>1 DEF IInv, EntryInv
  <1>19. CASE a < Now.end
    <2>1. a \in a .. Now.end - 1 /\ slots[a].kind = "long"
      BY <1>8, <1>9, <1>19
    <2>2. Files' = Files
      BY <1>11, <2>1 DEF Files
    <2>3. l.pc = "delete" /\ l.at = a + 1 /\ l.end = Now.end /\ l.entry = e /\ ~Holds'
      BY <1>2, <1>6, <1>7, <1>8, <1>19 DEF Holds
    <2>4. live' = live
      BY <1>4, <1>9, <1>19
    <2>5. OpInv'
      <3>1. a + 1 \in Slot /\ a + 1 <= Now.end /\ Now.end # a
        BY <1>8, <1>9, <1>19
      <3>2. slots'[Now.end] = e
        BY <1>8, <1>10, <3>1
      <3>3. \A r \in Slot : r \in a + 1 .. Now.end - 1 => slots'[r].kind = "long"
        BY <1>8, <1>9, <1>10
      <3>4. QED
        BY <1>4, <1>6, <1>7, <1>8, <2>3, <3>1, <3>2, <3>3 DEF OpInv
    <2>6. EntryInv'
      BY <1>1, <1>4, <1>7, <1>11, <1>18, <2>2, <2>4 DEF IInv, EntryInv
    <2>7. ChainInv'
      BY <1>4, <1>11, <1>14, <1>17, <2>2, <2>3 DEF IInv, ChainInv
    <2>8. ExactInv'
      BY <1>4, <1>11, <1>14, <2>2 DEF IInv, ExactInv
    <2>9. QED
      BY <1>13, <1>15, <1>16, <2>5, <2>6, <2>7, <2>8 DEF IInv
  <1>20. CASE a = Now.end
    <2>1. ~(Now.at < Now.end) /\ slots[a] = e /\ a \in Files
      BY <1>2, <1>8, <1>9, <1>20 DEF Files
    <2>2. /\ l.entry.id = e.id /\ l.entry.kind = "short" /\ l.entry.first = e.first
          /\ IF Now.op = "rename" THEN l.pc \in {"place", "refused"}
             ELSE l.pc = (IF e.first = None THEN "end" ELSE "free")
          /\ l.pc = "place" => l.entry.name \in Names
      BY <1>2, <1>6, <1>8, <2>1
    <2>3. \A s \in Files' : slots'[s].id # e.id
      BY <1>11, <2>1 DEF IInv, EntryInv
    <2>4. e.id <= ops
      BY <1>8, <2>1 DEF IInv, EntryInv
    <2>5. Holds' <=> e.first # None \/ Now.op = "rename"
      BY <1>6, <1>7, <1>8, <2>2 DEF Holds
    <2>6. OpInv'
      <3>1. CASE Now.op = "rename"
        <4>1. l.pc = "place" => Fresh'
          BY <1>4, <1>7, <2>2, <2>3, <2>4 DEF Fresh, New
        <4> HIDE DEF Fresh
        <4>2. QED
          BY <1>4, <1>6, <1>7, <1>8, <2>2, <2>3, <3>1, <4>1 DEF OpInv
      <3>2. CASE Now.op = "remove"
        BY <1>4, <1>6, <1>7, <1>8, <2>2, <3>2 DEF OpInv
      <3>3. QED
        BY <1>8, <3>1, <3>2
    <2>7. EntryInv'
      <3>1. \A r, s \in Files' : r # s => slots'[r].id # slots'[s].id
        BY <1>11 DEF IInv, EntryInv
      <3>2. \A s \in Files' : slots'[s].id \in live'
        BY <1>4, <1>11, <2>3 DEF IInv, EntryInv
      <3>3. \A id \in live : id = e.id \/ \E s \in Files' : slots'[s].id = id
        <4>1. \A id \in live : \E s \in Files : slots[s].id = id
          BY <1>1 DEF IInv, EntryInv
        <4>2. QED
          BY <1>11, <2>1, <4>1
      <3>4. CASE Now.op = "rename"
        BY <1>4, <1>6, <1>7, <1>18, <2>2, <3>1, <3>2, <3>3, <3>4 DEF EntryInv
      <3>5. CASE Now.op = "remove"
        BY <1>4, <1>18, <1>20, <3>1, <3>2, <3>3, <3>5 DEF EntryInv
      <3>6. QED
        BY <1>8, <3>4, <3>5
    <2>8. ChainInv'
      <3> SUFFICES ASSUME Safe
                   PROVE  /\ \A r, s \in Files' : r # s /\ slots'[r].first # None => slots'[r].first # slots'[s].first
                          /\ \A s \in Files' : slots'[s].first \in fatMem \cup {None}
                          /\ e.first \in fatMem \cup {None}
                          /\ e.first # None => \A s \in Files' : slots'[s].first # e.first
        BY <1>4, <1>7, <1>14, <1>17, <2>2 DEF ChainInv
      <3>1. /\ \A r, s \in Files : r # s /\ slots[r].first # None => slots[r].first # slots[s].first
            /\ \A s \in Files : slots[s].first \in fatMem \cup {None}
        BY <1>14 DEF IInv, ChainInv
      <3>2. QED
        BY <1>11, <2>1, <3>1
    <2>9. ExactInv'
      <3> SUFFICES ASSUME ~damaged, NEW c \in fatMem
                   PROVE  (\E s \in Files' : slots'[s].first = c) \/ (Holds' /\ e.first = c)
        BY <1>4, <1>7, <1>14, <2>2 DEF ExactInv
      <3>1. \E s \in Files : slots[s].first = c
        BY <1>14 DEF IInv, ExactInv
      <3>2. c # None
        BY DEF IInv, TypeInv, Clusters, None
      <3>3. QED
        BY <1>11, <2>1, <2>5, <3>1, <3>2
    <2>10. QED
      BY <1>13, <1>15, <1>16, <2>6, <2>7, <2>8, <2>9 DEF IInv
  <1>21. QED
    BY <1>8, <1>9, <1>19, <1>20

\* free_cluster_chain: the cluster it releases is allocated, and in no entry but the one a
\* truncation will rewrite.
LEMMA FreeInv ==
  ASSUME Serial, IInv, NEW t \in Tasks, Free(t)
  PROVE  IInv'
  <1>1. /\ Now = task[t] /\ Now.pc = "free" /\ Now \in LocalType /\ Now # Idle /\ task[t] # Idle
        /\ ~Now.due
    BY AtWork DEF Free, IInv, Pcs
  <1>2. PICK a, c : a = Now.at /\ c = Now.entry.first
    OBVIOUS
  <1>3. /\ Now.op \in {"truncate", "remove"} /\ Now.op \in program /\ c # None
        /\ Now.op = "truncate" => a \in Slot /\ Now.entry.kind = "short" /\ slots[a] = Now.entry
    BY <1>1, <1>2 DEF IInv, OpInv
  <1>4. /\ UNCHANGED <<program, fat32, cached, infoDisk, unmarked, cleared, crashes, flagDisk, flagMem, ops>>
        /\ UNCHANGED <<slots, live, damaged>> /\ Files' = Files
        /\ fatMem' = fatMem \ {c} /\ fatDisk' = (IF cached THEN fatDisk ELSE fatMem \ {c})
        /\ count' = Known(1) /\ infoDirty' = (infoDirty \/ count # -1)
    BY <1>1, <1>2, StepsKeep DEF Free, TableWrite, Files
  <1> DEFINE e == [Now.entry EXCEPT !.first = None]
             p == IF Now.op = "truncate" THEN "update" ELSE "end"
             l == [Now EXCEPT !.entry = e, !.due = TableDue, !.pc = p]
  <1>5. e \in EntryType /\ e.first = None /\ e.kind = Now.entry.kind /\ e.id = Now.entry.id
    BY <1>1 DEF LocalType, EntryType
  <1>6. task' = [task EXCEPT ![t] = l]
    BY <1>1 DEF Free, IInv, TypeInv
  <1> HIDE DEF e
  <1>7. TableDue \in BOOLEAN /\ TableDue = (~cached /\ ~flagDisk)
    BY DEF TableDue, DueAfterWrite, IInv, TypeInv
  <1>8. /\ l \in LocalType /\ l.op = Now.op /\ l.pc = p /\ l.entry = e /\ l.at = a
        /\ l.due = TableDue
    BY <1>1, <1>2, <1>5, <1>7 DEF LocalType, Pcs
  <1> HIDE DEF l
  <1>9. /\ Now' = l /\ task' \in [Tasks -> LocalType]
        /\ \A u, v \in Tasks : task'[u] # Idle /\ task'[v] # Idle => u = v
    BY <1>1, <1>6, <1>8, StepTo DEF IInv
  <1>10. TypeInv'
    <2>1. count' \in Int /\ infoDirty' \in BOOLEAN
      BY <1>4 DEF Known, IInv, TypeInv
    <2>2. QED
      BY <1>4, <1>9, <2>1 DEF IInv, TypeInv
  <1>11. OpInv'
    <2>1. Now.op = "truncate" => cached' \/ flagDisk' \/ Now'.due
      BY <1>4, <1>7, <1>8, <1>9
    <2>2. QED
      BY <1>3, <1>4, <1>5, <1>8, <1>9, <2>1 DEF OpInv
  <1>12. EntryInv'
    BY <1>1, <1>4 DEF IInv, EntryInv
  <1>13. \A s : First(s) = slots[s].first
    BY <1>1 DEF First
  <1>14. Holds' => Now'.entry.first = None
    BY <1>5, <1>8, <1>9
  <1>15. Safe => /\ c \in fatMem
                 /\ \A s \in Files : First(s)' # c /\ First(s)' \in {slots[s].first, None}
    <2>1. CASE Now.op = "truncate"
      <3>1. Now'.pc = "update" /\ Now'.at = a
        BY <1>8, <1>9, <2>1
      <3>2. \A s : First(s)' = IF s = a THEN None ELSE slots[s].first
        BY <1>4, <3>1 DEF First
      <3>3. a \in Files /\ slots[a].first = c
        BY <1>2, <1>3, <2>1 DEF Files
      <3>4. Safe => c \in fatMem /\ \A s \in Files : s # a => slots[s].first # c
        BY <1>3, <1>13, <3>3 DEF IInv, ChainInv
      <3>5. QED
        BY <1>3, <3>2, <3>4
    <2>2. CASE Now.op = "remove"
      <3>1. Now'.pc = "end"
        BY <1>8, <1>9, <2>2
      <3>2. \A s : First(s)' = slots[s].first
        BY <1>4, <3>1 DEF First
      <3>3. Holds
        BY <1>1, <2>2 DEF Holds
      <3>4. Safe => c \in fatMem /\ \A s \in Files : slots[s].first # c
        BY <1>2, <1>3, <1>13, <3>3 DEF IInv, ChainInv
      <3>5. QED
        BY <3>2, <3>4
    <2>3. QED
      BY <1>3, <2>1, <2>2
  <1>16. Trusted' => Trusted /\ count' = count + 1
    BY <1>4 DEF Trusted, Known
  <1>17. Safe' => Safe
    BY <1>4, <1>16 DEF Safe
  <1>18. ChainInv'
    <2> SUFFICES ASSUME Safe
                 PROVE  /\ \A r, s \in Files : r # s /\ First(r)' # None => First(r)' # First(s)'
                        /\ \A s \in Files : First(s)' \in (fatMem \ {c}) \cup {None}
      BY <1>4, <1>14, <1>17 DEF ChainInv
    <2>1. /\ \A r, s \in Files : r # s /\ slots[r].first # None => slots[r].first # slots[s].first
          /\ \A s \in Files : slots[s].first \in fatMem \cup {None}
      BY <1>13 DEF IInv, ChainInv
    <2>2. \A s \in Files : First(s)' # c /\ First(s)' \in {slots[s].first, None}
      BY <1>15
    <2>3. QED
      BY <2>1, <2>2
  <1>19. ExactInv'
    <2> SUFFICES ASSUME ~damaged, NEW x \in fatMem, x # c PROVE \E s \in Files : First(s)' = x
      BY <1>4 DEF ExactInv
    <2>1. \E s \in Files : slots[s].first = x
      BY <1>2, <1>13 DEF IInv, ExactInv
    <2>2. CASE Now.op = "truncate"
      <3>1. Now'.pc = "update" /\ Now'.at = a
        BY <1>8, <1>9, <2>2
      <3>2. \A s : First(s)' = IF s = a THEN None ELSE slots[s].first
        BY <1>4, <3>1 DEF First
      <3>3. slots[a].first = c
        BY <1>2, <1>3, <2>2
      <3>4. QED
        BY <2>1, <3>2, <3>3
    <2>3. CASE Now.op = "remove"
      <3>1. Now'.pc = "end"
        BY <1>8, <1>9, <2>3
      <3>2. \A s : First(s)' = slots[s].first
        BY <1>4, <3>1 DEF First
      <3>3. QED
        BY <2>1, <3>2
    <2>4. QED
      BY <1>3, <2>2, <2>3
  <1>20. DiskInv'
    <2>1. ~cached => fatDisk' = fatMem'
      BY <1>4
    <2>2. ~flagDisk /\ ~Now'.due => fatDisk' = fatDisk
      BY <1>4, <1>7, <1>8, <1>9
    <2>3. QED
      BY <1>1, <1>4, <2>1, <2>2 DEF IInv, DiskInv, Clean, Reliable, Distinct, OnDisk
  <1>21. CountInv'
    <2>1. FreeCount(fatMem) \in Nat
      BY FreeCountType DEF IInv, TypeInv
    <2>2. Safe => FreeCount(fatMem') = FreeCount(fatMem) + 1
      BY <1>4, <1>15, FreeCountReleased DEF IInv, TypeInv
    <2>3. Trusted' => count' = FreeCount(fatMem')
      BY <1>16, <2>2 DEF IInv, CountInv, Safe
    <2>4. ~fat32 => count' = -1
      BY <1>4 DEF Known, IInv, CountInv
    <2>5. fat32 /\ crashes = 0 => count' # -1 /\ infoDirty'
      <3>1. fat32 /\ crashes = 0 => count # -1 /\ count = FreeCount(fatMem)
        BY DEF Trusted, IInv, CountInv
      <3>2. fat32 /\ crashes = 0 => count' = count + 1 /\ infoDirty'
        BY <1>4, <3>1 DEF Known
      <3>3. QED
        BY <2>1, <3>1, <3>2
    <2>6. /\ fat32 /\ Reliable => count # -1 \/ flagDisk
          /\ fat32 /\ Reliable /\ ~damaged => count # -1
          /\ count # -1 /\ Reliable => count \in Nat
      BY <2>1 DEF IInv, CountInv, Trusted, Reliable
    <2>7. count # -1 /\ Reliable => count' # -1 /\ infoDirty'
      <3> SUFFICES ASSUME count # -1, Reliable PROVE count' # -1 /\ infoDirty'
        OBVIOUS
      <3>1. count \in Nat /\ count' = count + 1
        BY <1>4, <2>6 DEF Known
      <3>2. infoDirty'
        BY <1>4
      <3>3. QED
        BY <3>1, <3>2
    <2>8. Reliable' <=> Reliable
      BY <1>4 DEF Reliable
    <2> HIDE DEF Reliable
    <2>9. QED
      BY <1>4, <2>3, <2>4, <2>5, <2>6, <2>7, <2>8 DEF IInv, CountInv
  <1>22. QED
    BY <1>10, <1>11, <1>12, <1>18, <1>19, <1>20, <1>21 DEF IInv

-----------------------------------------------------------------------------
(* The loss of power, and the mount after it.                              *)

LEMMA CrashInv ==
  ASSUME Serial, IInv, Crash
  PROVE  IInv'
  <1>1. /\ UNCHANGED <<program, fat32, cached, slots, fatDisk, flagDisk, infoDisk, cleared, ops>>
        /\ crashes' = crashes + 1 /\ fatMem' = fatDisk /\ flagMem' = flagDisk
        /\ count' = CountAtMount /\ infoDirty' = FALSE /\ live' = {slots[s].id : s \in Files}
        /\ task' = [t \in Tasks |-> Idle] /\ Files' = Files
    BY DEF Crash, confVars, Files, IInv, TypeInv
  <1>2. \A t \in Tasks : task'[t] = Idle
    BY <1>1
  <1>3. Now' = Idle
    BY <1>2 DEF Now
  <1>4. Now'.pc = "idle" /\ Now'.due = FALSE /\ ~Holds'
    BY <1>3, IdleType DEF Holds
  <1>5. crashes \in Nat /\ crashes' \in Nat /\ crashes' # 0 /\ (crashes' <= 1 => crashes = 0)
    BY <1>1 DEF IInv, TypeInv
  <1>6. TypeInv'
    <2>1. live' \in SUBSET Nat
      BY <1>1 DEF IInv, TypeInv, EntryType, Files
    <2>2. count' \in Int
      BY <1>1 DEF CountAtMount, IInv, TypeInv
    <2>3. damaged' \in BOOLEAN /\ unmarked' \in BOOLEAN
      BY DEF Crash, IInv, TypeInv
    <2>4. task' \in [Tasks -> LocalType]
      BY <1>1, IdleType
    <2>5. QED
      BY <1>1, <1>2, <1>5, <2>1, <2>2, <2>3, <2>4 DEF IInv, TypeInv
  <1>7. OpInv'
    BY <1>3, <1>4 DEF OpInv
  <1>8. EntryInv'
    BY <1>1 DEF IInv, EntryInv
  <1>9. \A s : First(s)' = slots[s].first
    BY <1>1, <1>4 DEF First
  <1>10. ~damaged' => ~damaged /\ ~flagDisk /\ Now = Idle /\ fatMem = fatDisk
    BY NowType DEF Crash, Busy, IInv, TypeInv
  <1>u. ~unmarked' => ~unmarked /\ ~Now.due
    <2> SUFFICES ASSUME ~unmarked' PROVE ~unmarked /\ ~Now.due
      OBVIOUS
    <2>1. ~unmarked /\ \A t \in Tasks : ~task[t].due
      BY DEF Crash
    <2>2. ~Now.due
      BY <2>1, NowType, IdleType DEF IInv
    <2>3. QED
      BY <2>1, <2>2
  <1>r. Reliable' => Reliable /\ (~flagDisk => Clean)
    BY <1>1, <1>5, <1>u DEF Reliable, Clean
  <1>11. Trusted' => fat32 /\ Clean /\ count' = infoDisk
    <2> SUFFICES ASSUME Trusted' PROVE fat32 /\ Clean /\ count' = infoDisk
      OBVIOUS
    <2>1. ~unmarked' /\ (~cleared \/ crashes = 0)
      BY <1>1, <1>5 DEF Trusted
    <2>2. fat32 /\ ~flagDisk /\ count' = infoDisk
      BY <1>1 DEF Trusted, CountAtMount
    <2>3. Clean
      BY <1>u, <2>1, <2>2 DEF Clean, Reliable
    <2>4. QED
      BY <2>2, <2>3
  <1>12. Now = Idle => \A s : First(s) = slots[s].first
    BY IdleType DEF First
  <1>13. ChainInv'
    <2> SUFFICES ASSUME Safe'
                 PROVE  /\ \A r, s \in Files : r # s /\ slots[r].first # None => slots[r].first # slots[s].first
                        /\ \A s \in Files : slots[s].first \in fatDisk \cup {None}
      BY <1>1, <1>4, <1>9 DEF ChainInv
    <2>1. CASE ~damaged'
      <3>1. Safe
        BY <1>10, <2>1 DEF Safe
      <3>2. QED
        BY <1>10, <1>12, <2>1, <3>1 DEF IInv, ChainInv
    <2>2. CASE Trusted'
      BY <1>11, <2>2 DEF IInv, DiskInv, Clean, Reliable, Distinct, OnDisk
    <2>3. CASE ~cached /\ "truncate" \notin program
      <3>1. Safe /\ fatDisk = fatMem
        BY <2>3 DEF Safe, IInv, DiskInv
      <3>2. \A s : First(s) = slots[s].first
        <4>1. CASE Now.pc = "update"
          <5>1. Now # Idle /\ Now.op \in program /\ Now.op \in {"append", "truncate"}
            BY <4>1, IdleType DEF IInv, OpInv
          <5>2. slots[Now.at].first = None
            BY <2>3, <4>1, <5>1 DEF IInv, OpInv
          <5>3. QED
            BY <5>2 DEF First
        <4>2. CASE Now.pc # "update"
          BY <4>2 DEF First
        <4>3. QED
          BY <4>1, <4>2
      <3>3. QED
        BY <3>1, <3>2 DEF IInv, ChainInv
    <2>4. QED
      BY <1>1, <1>5, <2>1, <2>2, <2>3 DEF Safe
  <1>14. ExactInv'
    <2> SUFFICES ASSUME ~damaged', NEW c \in fatDisk PROVE \E s \in Files : slots[s].first = c
      BY <1>1, <1>9 DEF ExactInv
    <2>1. ~Holds
      BY <1>10, IdleType DEF Holds
    <2>2. QED
      BY <1>10, <1>12, <2>1 DEF IInv, ExactInv
  <1>15. DiskInv'
    <2>1. Clean' => Clean
      BY <1>1, <1>r DEF Clean
    <2>2. Distinct' = Distinct /\ OnDisk(Files)' = OnDisk(Files) /\ FreeCount(fatDisk)' = FreeCount(fatDisk)
      BY <1>1 DEF Distinct, OnDisk
    <2> HIDE DEF Clean, Distinct, OnDisk, FreeCount
    <2>3. QED
      BY <1>1, <2>1, <2>2 DEF IInv, DiskInv
  <1>16. CountInv'
    <2>1. Trusted' => count' = FreeCount(fatDisk)
      BY <1>11 DEF IInv, DiskInv, Clean
    <2>2. ~fat32 => count' = -1
      BY <1>1 DEF CountAtMount
    <2>3. fat32 /\ Reliable' /\ ~flagDisk' => count' # -1 /\ count' = infoDisk'
      <3> SUFFICES ASSUME fat32, Reliable', ~flagDisk' PROVE count' # -1 /\ count' = infoDisk'
        OBVIOUS
      <3>1. FreeCount(fatDisk) \in Nat
        BY FreeCountType DEF IInv, TypeInv
      <3>2. ~flagDisk /\ infoDisk' = infoDisk /\ count' = infoDisk
        BY <1>1 DEF CountAtMount
      <3>3. infoDisk = FreeCount(fatDisk)
        BY <1>r, <3>2 DEF IInv, DiskInv
      <3>4. QED
        BY <3>1, <3>2, <3>3
    <2>4. ~damaged' => ~flagDisk'
      BY <1>1, <1>10
    <2> HIDE DEF Reliable, Trusted
    <2>5. QED
      BY <1>1, <1>5, <2>1, <2>2, <2>3, <2>4 DEF CountInv
  <1>17. QED
    BY <1>6, <1>7, <1>8, <1>13, <1>14, <1>15, <1>16 DEF IInv

-----------------------------------------------------------------------------
(* The invariant, and what it says.                                        *)

LEMMA InitIInv == ASSUME Serial, Init PROVE IInv
  <1>1. Now = Idle /\ Now.pc = "idle" /\ Now.due = FALSE /\ ~Holds
    BY IdleType DEF Init, Now, Holds
  <1>2. Total \in Nat /\ FreeCount({}) = Total
    <2>1. Total \in Nat /\ Clusters \ {} = 1 .. Total
      BY DEF Serial, DirUpdatesAssumption, Clusters
    <2>2. Cardinality(1 .. Total) = Total
      BY <2>1, FS_Interval
    <2>3. QED
      BY <2>1, <2>2 DEF FreeCount
  <1>3. Files = {} /\ \A s \in Slot : slots[s].id = 0
    BY IdleType DEF Init, Files
  <1>4. TypeInv
    <2>1. slots \in [Slot -> EntryType] /\ task \in [Tasks -> LocalType]
      BY IdleType DEF Init
    <2>2. \A t, u \in Tasks : task[t] # Idle /\ task[u] # Idle => t = u
      BY DEF Init
    <2>3. infoDisk \in Int /\ count \in Int
      BY <1>2 DEF Init
    <2>4. QED
      BY <2>1, <2>2, <2>3 DEF Init, TypeInv
  <1>5. OpInv
    BY <1>1 DEF OpInv
  <1>6. EntryInv
    BY <1>3 DEF Init, EntryInv
  <1>7. ChainInv /\ ExactInv
    BY <1>1, <1>3 DEF Init, ChainInv, ExactInv
  <1>8. DiskInv
    BY <1>2, <1>3 DEF Init, DiskInv, Clean, Distinct, OnDisk
  <1>9. CountInv
    BY <1>2 DEF Init, CountInv, Trusted, Reliable
  <1>10. QED
    BY <1>4, <1>5, <1>6, <1>7, <1>8, <1>9 DEF IInv

LEMMA NextIInv == ASSUME Serial, IInv, [Next]_vars PROVE IInv'
  <1>1. CASE UNCHANGED vars
    <2>1. Now' = Now
      BY <1>1 DEF Now, vars
    <2>2. Files' = Files /\ Holds' = Holds /\ \A s : First(s)' = First(s)
      BY <1>1, <2>1 DEF Files, Holds, First, vars
    <2>3. TypeInv' /\ EntryInv'
      BY <1>1, <2>1, <2>2 DEF IInv, TypeInv, EntryInv, vars, confVars
    <2>4. OpInv'
      BY <1>1, <2>1, <2>2 DEF IInv, OpInv, Fresh, New, vars, confVars
    <2>5. ChainInv' /\ ExactInv'
      BY <1>1, <2>1, <2>2 DEF IInv, ChainInv, ExactInv, Safe, Trusted, vars, confVars
    <2>6. DiskInv' /\ CountInv'
      BY <1>1, <2>1, <2>2 DEF IInv, DiskInv, CountInv, Trusted, Reliable, Clean, Distinct, OnDisk, vars, confVars
    <2>7. QED
      BY <2>3, <2>4, <2>5, <2>6 DEF IInv
  <1>2. ASSUME NEW t \in Tasks, Step(t) PROVE IInv'
    BY <1>2, MarkInv, AllocInv, UpdateInv, PlaceInv, WriteEntryInv, DeleteInv, RefusedInv, FreeInv,
       EndInv, FlushTableInv, FlushInfoInv, SetCleanInv DEF Step
  <1>3. QED
    BY <1>1, <1>2, StartInv, CrashInv DEF Next

LEMMA Invariant == ASSUME Serial PROVE Spec => []IInv
  <1>1. Init => IInv
    BY InitIInv
  <1>2. IInv /\ [Next]_vars => IInv'
    BY NextIInv
  <1>3. QED
    BY <1>1, <1>2, PTL DEF Spec

\* Power may go between any two of the writes of create_file, create_dir, remove
\* and rename, as often as it likes, in a directory of any size: each file that
\* was made and not removed has one entry, except while it is renamed, and what
\* a cut call leaves behind is no file.
THEOREM EntriesSurvive == ASSUME Serial PROVE Spec => []EntriesKept
  <1>1. IInv => EntriesKept
    <2> SUFFICES ASSUME IInv PROVE EntriesKept
      OBVIOUS
    <2>1. ASSUME NEW id \in live, ~BeingRenamed(id) PROVE \E s \in Files : slots[s].id = id
      <3>1. \/ \E s \in Files : slots[s].id = id
            \/ Now.op = "rename" /\ Now.entry.id = id
        BY DEF IInv, EntryInv
      <3>2. ~(Now.op = "rename" /\ Now.entry.id = id)
        BY <2>1, NowType, IdleType DEF IInv, BeingRenamed
      <3>3. QED
        BY <3>1, <3>2
    <2>2. QED
      BY <2>1 DEF IInv, EntryInv, EntriesKept
  <1>2. QED
    BY <1>1, Invariant, PTL

\* No two files share a cluster, and none names one that alloc_cluster may give
\* to another, whenever the power went: with the table written through after any
\* number of losses, with the cache before the first.
THEOREM ClustersApart == ASSUME Serial PROVE Spec => []NotShared
  <1>1. IInv => NotShared
    <2> SUFFICES ASSUME IInv, ~cached \/ crashes = 0, "truncate" \notin program
                 PROVE  Distinct /\ OnDisk(Files) \subseteq fatMem
      BY DEF NotShared
    <2>1. \A s : First(s) = slots[s].first
      <3>1. CASE Now.pc = "update"
        <4>1. Now # Idle /\ Now.op \in program /\ Now.op \in {"append", "truncate"}
          BY <3>1, IdleType DEF IInv, OpInv
        <4>2. slots[Now.at].first = None
          BY <3>1, <4>1 DEF IInv, OpInv
        <4>3. QED
          BY <4>2 DEF First
      <3>2. CASE Now.pc # "update"
        BY <3>2 DEF First
      <3>3. QED
        BY <3>1, <3>2
    <2>2. Safe
      BY DEF Safe
    <2>3. QED
      BY <2>1, <2>2 DEF IInv, ChainInv, Distinct, OnDisk
  <1>2. QED
    BY <1>1, Invariant, PTL

\* A volume whose dirty flag is not set needs no repair, whatever was cut or failed since
\* the last flush that took the flag from a damaged volume: the flag is set before or right
\* after the first write of a call, on FAT12, FAT16 and FAT32, and flush takes it back when
\* table and FSInfo are out.  Where files are truncated and the table is cached, the table
\* may have clusters that no entry names.
THEOREM CleanNeedsNoRepair == ASSUME Serial PROVE Spec => []CleanIsConsistent
  <1>1. IInv => CleanIsConsistent
    <2> SUFFICES ASSUME IInv, ~flagDisk, ~unmarked, ~cleared, \A t \in Tasks : ~task[t].due
                 PROVE  /\ Distinct /\ OnDisk(Files) \subseteq fatDisk
                        /\ "truncate" \notin program \/ ~cached => fatDisk \subseteq OnDisk(Files)
                        /\ fat32 => infoDisk = FreeCount(fatDisk)
      BY DEF CleanIsConsistent
    <2>1. ~Now.due
      BY NowType, IdleType DEF IInv
    <2>2. Clean
      BY <2>1 DEF Clean, Reliable
    <2>3. QED
      BY <2>2 DEF IInv, DiskInv
  <1>2. QED
    BY <1>1, Invariant, PTL

\* The free count of FsInfoSector, when it is known, is that of the table, after any
\* number of losses of power too: FileSystem::new takes the count of FSInfo only
\* when the flag says that flush had written it.
THEOREM CountIsRight == ASSUME Serial PROVE Spec => []CountRight
  <1>1. IInv => CountRight
    BY DEF IInv, CountInv, Trusted, Reliable, CountRight
  <1>2. QED
    BY <1>1, Invariant, PTL

\* A file ceases to be only by a remove of it, or by a rename of it: one that is
\* refused (dir.rs:861), or that is cut by a loss of power.
Losses ==
  [][\A id \in live \ live' :
       /\ \E t \in Tasks : task[t].op \in {"remove", "rename"} /\ task[t].entry.id = id
       /\ crashes' # crashes => BeingRenamed(id)]_vars

THEOREM NoOtherFileIsLost == ASSUME Serial PROVE Spec => Losses
  <1> DEFINE A == \A id \in live \ live' :
                    /\ \E t \in Tasks : task[t].op \in {"remove", "rename"} /\ task[t].entry.id = id
                    /\ crashes' # crashes => BeingRenamed(id)
  <1>1. ASSUME IInv, Next, NEW id \in live \ live'
        PROVE  /\ \E t \in Tasks : task[t].op \in {"remove", "rename"} /\ task[t].entry.id = id
               /\ crashes' # crashes => BeingRenamed(id)
    <2>0. id \in live /\ id \notin live'
      BY <1>1
    <2>1. CASE Crash
      <3>1. live' = {slots[s].id : s \in Files}
        BY <2>1 DEF Crash
      <3>2. Now.op = "rename" /\ Now.entry.id = id
        BY <1>1, <3>1 DEF IInv, EntryInv
      <3>3. \E t \in Tasks : task[t] = Now
        BY <1>1, <3>2, NowType, IdleType DEF IInv
      <3>4. QED
        BY <3>2, <3>3 DEF BeingRenamed
    <2>2. ASSUME NEW t \in Tasks, Step(t)
          PROVE  crashes' = crashes /\ task[t].op \in {"remove", "rename"} /\ task[t].entry.id = id
      <3>1. WriteEntry(t) \/ Delete(t) \/ Refused(t)
        <4>1. (SetDirty(t) => live' = live) /\ (Evict(t) => live' = live) /\ (Update(t) => live' = live)
          BY DEF SetDirty, Evict, Update
        <4>2. Alloc(t) => live' = live
          BY DEF Alloc
        <4>3. Place(t) \/ Free(t) \/ End(t) => live' = live
          BY DEF Place, Free, End
        <4>4. FlushTable(t) \/ FlushInfo(t) \/ SetClean(t) => live' = live
          BY DEF FlushTable, FlushInfo, SetClean
        <4>5. QED
          BY <2>0, <2>2, <4>1, <4>2, <4>3, <4>4 DEF Step
      <3>2. crashes' = crashes
        BY <3>1, StepsKeep
      <3>3. ASSUME WriteEntry(t)
            PROVE  task[t].op = "rename" /\ task[t].entry.id = id
        <4>1. live' \in {IF task[t].op = "rename" THEN live \ {task[t].entry.id} ELSE live,
                         IF task[t].at = task[t].end THEN live \cup {task[t].entry.id} ELSE live}
          BY <3>3 DEF WriteEntry
        <4>2. QED
          BY <2>0, <4>1
      <3>4. ASSUME Delete(t)
            PROVE  task[t].op = "remove" /\ task[t].entry.id = id
        <4>1. live' = IF task[t].op = "remove" /\ task[t].at = task[t].end
                      THEN live \ {task[t].entry.id} ELSE live
          BY <3>4 DEF Delete
        <4>2. QED
          BY <2>0, <4>1
      <3>5. ASSUME Refused(t)
            PROVE  task[t].op = "rename" /\ task[t].entry.id = id
        <4>1. Now = task[t] /\ Now.pc = "refused"
          BY <1>1, <3>5, AtWork DEF Refused, IInv, Pcs
        <4>2. Now.op \in {"mkdir", "rename"} /\ \A s \in Files : slots[s].id # Now.entry.id
          BY <1>1, <4>1 DEF IInv, OpInv
        <4>3. live' = live \ {task[t].entry.id}
          BY <3>5 DEF Refused
        <4>4. Now.op = "mkdir" => Now.entry.id \notin live
          BY <1>1, <4>2 DEF IInv, EntryInv
        <4>5. QED
          BY <2>0, <4>1, <4>2, <4>3, <4>4
      <3>6. QED
        BY <3>1, <3>2, <3>3, <3>4, <3>5
    <2>3. ASSUME NEW t \in Tasks, Start(t) PROVE FALSE
      <3>1. ASSUME NEW o, NEW l, Begin(t, o, l) PROVE live' = live
        BY <3>1 DEF Begin
      <3>2. \A n : Create(t, n) \/ CreateDir(t, n) => live' = live
        BY <3>1 DEF Create, CreateDir
      <3>3. \A n : Append(t, n) \/ Truncate(t, n) \/ Remove(t, n) => live' = live
        BY <3>1 DEF Append, Truncate, Remove
      <3>4. ASSUME NEW n, NEW m, Rename(t, n, m) PROVE live' = live
        <4>1. \E l : Begin(t, "rename", l)
          BY <3>4, Zenon DEF Rename
        <4>2. QED
          BY <3>1, <4>1
      <3>5. Flush(t) => live' = live
        BY <3>1 DEF Flush
      <3>6. QED
        BY <2>0, <2>3, <3>2, <3>3, <3>4, <3>5 DEF Start
    <2>4. QED
      BY <1>1, <2>1, <2>2, <2>3 DEF Next
  <1>2. IInv /\ [Next]_vars => [A]_vars
    BY <1>1
  <1>3. Spec => [][A]_vars
    BY <1>2, Invariant, PTL DEF Spec
  <1>4. QED
    BY <1>3 DEF Losses
=============================================================================

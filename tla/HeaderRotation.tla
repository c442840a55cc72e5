--------------------------- MODULE HeaderRotation ---------------------------
(***************************************************************************)
(* HeaderRotatingDevice over NorFlashAdapter                               *)
(* (fatrs-adapters/src/adapters/header_rotating_device.rs,                 *)
(* nor_flash_adapter.rs): logical page 0, the header of a database, is     *)
(* spread over the first `rotation' pages of the flash, the other logical  *)
(* pages follow.  A page is erased and then programmed; either step may    *)
(* fail, and the power may go at any moment.  Only the flash survives.     *)
(*                                                                         *)
(* The owner of the device is modelled as the module's documentation asks  *)
(* (header_rotating_device.rs:33-67): it numbers its headers, and on       *)
(* startup reads every slot and selects the highest valid number.          *)
(***************************************************************************)
EXTENDS Integers, Sequences

CONSTANTS
  FlashPages,   \* pages of the flash region
  Rotations,    \* values of rotation_pages to be explored
  Data,         \* contents of the pages other than the header
  MaxSeq,       \* bound: header writes begun
  MaxFlashFaults, \* bound: failed flash operations
  MaxCrashes    \* bound: power cuts

ASSUME RotationsAssumption ==
  /\ FlashPages \in Nat
  /\ Rotations \subseteq 1 .. 8
  /\ \A n \in Rotations : n < FlashPages
  /\ MaxSeq \in Nat /\ MaxFlashFaults \in Nat /\ MaxCrashes \in Nat

VARIABLES
  rotation,  \* HeaderRotationConfig.rotation_pages
  flash,     \* what a read of each physical page returns
  slot,      \* HeaderRotatingDevice.current_slot
  todo,      \* blocks of the write call in progress, <<logical page, content>>
  erased,    \* the page of the block at the head of todo has been erased
  up,        \* the owner has scanned the slots since power-up
  seq,       \* number of the last header the owner gave out
  committed, \* number of the last header whose write returned Ok, or the scan
             \* found; 0 when there is none
  confirmed, \* content of each logical page by the calls that returned Ok
  tries,     \* header writes begun since the last that succeeded, or the scan
  wear,      \* erases of each header slot
  flashFaults, crashes

rotationVars == <<rotation, flash, slot, todo, erased, up, seq, committed, confirmed,
                  tries, wear, flashFaults, crashes>>

Physical == 0 .. FlashPages - 1
Header(n) == [kind |-> "header", value |-> n]
Datum(d) == [kind |-> "data", value |-> d]
Erased == [kind |-> "erased", value |-> 0]
Torn == [kind |-> "torn", value |-> 0]     \* cut or failed: no valid content
Unknown == [kind |-> "unknown", value |-> 0]  \* a write of the page did not return Ok

Headers == {Header(n) : n \in 1 .. MaxSeq}
Contents == Headers \cup {Datum(d) : d \in Data} \cup {Erased, Torn}

Slots == 0 .. rotation - 1
Logical == 0 .. FlashPages - rotation           \* size(): the slots count for one
NextSlot == (slot + 1) % rotation
\* Mutant: data pages start one page early, in the last slot.
MutLogicalToPhysical(l, s) == IF l = 0 THEN s ELSE l + rotation - 2

LogicalToPhysical(l, s) == IF l = 0 THEN s ELSE l + rotation - 1

\* What a failed or interrupted erase or program may leave of a page.
Spoilt(old) == {old, Erased, Torn}

RotationInit ==
  /\ rotation \in Rotations
  /\ flash = [p \in Physical |-> Erased]
  /\ slot = 0
  /\ todo = <<>>
  /\ erased = FALSE
  /\ up = TRUE
  /\ seq = 0 /\ committed = 0
  /\ confirmed = [l \in 0 .. FlashPages - rotation |-> Unknown]
  /\ tries = 0
  /\ wear = [s \in 0 .. rotation - 1 |-> 0]
  /\ flashFaults = 0 /\ crashes = 0

(***************************************************************************)
(* BlockDevice::write of one or more consecutive logical blocks.  The      *)
(* header carries a number the owner has not used yet.  NorFlashAdapter    *)
(* checks no address: blocks beyond the device, the last of the call, go   *)
(* to the flash that follows its region, which holds none of these pages.  *)
(***************************************************************************)
Inside(first, n) ==
  1 .. IF first + n - 1 \in Logical THEN n ELSE FlashPages - rotation + 1 - first

WriteBlocks(first, contents) ==
  /\ up /\ todo = <<>>
  /\ todo' = [i \in Inside(first, Len(contents)) |->
                <<first + i - 1, IF first + i - 1 = 0 THEN Header(seq + 1)
                                 ELSE Datum(contents[i])>>]
  /\ IF first = 0 THEN seq < MaxSeq /\ seq' = seq + 1 ELSE seq' = seq
  /\ UNCHANGED <<rotation, flash, slot, erased, up, committed, confirmed, tries,
                 wear, flashFaults, crashes>>

\* Mutant: the slot advances after the write only: the current header is erased.
MutSlotFor(l) == slot

\* The slot that the block at the head of `todo' is written under: a header
\* advances current_slot before anything is written.
SlotFor(l) == IF l = 0 THEN NextSlot ELSE slot

\* The page of the block is now being changed: until the call returns its
\* logical page has no known content.
Begin(l) ==
  /\ slot' = SlotFor(l)
  /\ confirmed' = [confirmed EXCEPT ![l] = Unknown]
  /\ tries' = IF l = 0 THEN tries + 1 ELSE tries
  /\ wear' = IF l = 0 THEN [wear EXCEPT ![SlotFor(l)] = @ + 1] ELSE wear

Erase ==
  /\ todo # <<>> /\ ~erased
  /\ LET l == Head(todo)[1] IN
       /\ Begin(l)
       /\ flash' = [flash EXCEPT ![LogicalToPhysical(l, SlotFor(l))] = Erased]
  /\ erased' = TRUE
  /\ UNCHANGED <<rotation, todo, up, seq, committed, flashFaults, crashes>>

\* The erase reports an error: the call returns, the slot stays advanced.
EraseFails ==
  /\ todo # <<>> /\ ~erased /\ flashFaults < MaxFlashFaults
  /\ LET l == Head(todo)[1]
         p == LogicalToPhysical(l, SlotFor(l)) IN
       /\ Begin(l)
       /\ \E c \in Spoilt(flash[p]) : flash' = [flash EXCEPT ![p] = c]
  /\ todo' = <<>>
  /\ flashFaults' = flashFaults + 1
  /\ UNCHANGED <<rotation, erased, up, seq, committed, crashes>>

Program ==
  /\ todo # <<>> /\ erased
  /\ LET l == Head(todo)[1]
         c == Head(todo)[2] IN
       /\ flash' = [flash EXCEPT ![LogicalToPhysical(l, slot)] = c]
       /\ confirmed' = [confirmed EXCEPT ![l] = c]
       /\ tries' = IF l = 0 THEN 0 ELSE tries
       /\ committed' = IF l = 0 THEN c.value ELSE committed
  /\ todo' = Tail(todo)
  /\ erased' = FALSE
  /\ UNCHANGED <<rotation, slot, up, seq, wear, flashFaults, crashes>>

ProgramFails ==
  /\ todo # <<>> /\ erased /\ flashFaults < MaxFlashFaults
  /\ LET p == LogicalToPhysical(Head(todo)[1], slot) IN
       \E c \in {Erased, Torn, Head(todo)[2]} : flash' = [flash EXCEPT ![p] = c]
  /\ todo' = <<>>
  /\ erased' = FALSE
  /\ flashFaults' = flashFaults + 1
  /\ UNCHANGED <<rotation, slot, up, seq, committed, confirmed, tries, wear,
                 crashes>>

\* Power is lost, also in the middle of an erase or a program.
Crash ==
  /\ up /\ crashes < MaxCrashes
  /\ \/ UNCHANGED <<flash, confirmed, tries>>
     \/ /\ todo # <<>>
        /\ LET l == Head(todo)[1]
               p == LogicalToPhysical(l, IF erased THEN slot ELSE SlotFor(l)) IN
             /\ confirmed' = [confirmed EXCEPT ![l] = Unknown]
             /\ tries' = IF l = 0 /\ ~erased THEN tries + 1 ELSE tries
             /\ \E c \in IF erased THEN {Erased, Torn, Head(todo)[2]}
                         ELSE Spoilt(flash[p]) :
                  flash' = [flash EXCEPT ![p] = c]
  /\ up' = FALSE
  /\ todo' = <<>>
  /\ erased' = FALSE
  /\ slot' = 0                               \* HeaderRotatingDevice::new
  /\ crashes' = crashes + 1
  /\ UNCHANGED <<rotation, seq, committed, wear, flashFaults>>

\* read_header_slot on every slot, then set_current_slot(best_slot): the
\* first slot with the highest valid number, slot 0 when none is valid.
Valid(s) == flash[s] \in Headers
Best(s) ==
  IF \E t \in Slots : Valid(t)
  THEN /\ Valid(s)
       /\ \A t \in Slots : Valid(t) => flash[t].value <= flash[s].value
       /\ \A t \in Slots : Valid(t) /\ flash[t].value = flash[s].value => s <= t
  ELSE s = 0

Scan ==
  /\ ~up
  /\ \E s \in Slots :
       /\ Best(s)
       /\ slot' = s
       /\ confirmed' = [confirmed EXCEPT ![0] = IF Valid(s) THEN flash[s] ELSE Unknown]
       /\ seq' = IF Valid(s) THEN flash[s].value ELSE 0
       /\ committed' = seq'
  /\ up' = TRUE
  /\ tries' = 0
  /\ UNCHANGED <<rotation, flash, todo, erased, wear, flashFaults, crashes>>

RotationNext ==
  \/ \E first \in 0 .. FlashPages - 1, n \in 1 .. 2 :
       \E contents \in [1 .. n -> Data] : WriteBlocks(first, contents)
  \/ Erase \/ EraseFails
  \/ Program \/ ProgramFails
  \/ Crash \/ Scan

RotationSpec == RotationInit /\ [][RotationNext]_rotationVars

-----------------------------------------------------------------------------
Block == {b \in Logical \X Contents : b[1] = 0 => b[2] \in Headers}

(* The state of the device and of its owner is of the declared kind, and   *)
(* current_slot, the header numbers and the blocks being written stay      *)
(* within the configured pages; page 0 only ever holds headers.            *)
RotationTypeOK ==
  /\ rotation \in Rotations
  /\ flash \in [Physical -> Contents]
  /\ slot \in Slots
  /\ todo \in Seq(Block)
  /\ erased \in BOOLEAN /\ up \in BOOLEAN
  /\ seq \in 0 .. MaxSeq /\ committed \in 0 .. MaxSeq
  /\ confirmed \in [Logical -> Contents \cup {Unknown}]
  /\ tries \in Nat
  /\ wear \in [Slots -> Nat]
  /\ flashFaults \in 0 .. MaxFlashFaults /\ crashes \in 0 .. MaxCrashes
  /\ erased => todo # <<>>

\* The last committed header, or a later one, can be read from some slot, as
\* long as fewer header writes than there are slots were begun since: a
\* power cut or an error in a header write leaves the header before it
\* whole.  (With rotation_pages = 1, or after rotation_pages attempts that
\* all failed, nothing is promised: the code erases the last good slot.)
HeaderSurvives ==
  committed > 0 /\ tries < rotation =>
    \E s \in Slots : Valid(s) /\ flash[s].value >= committed

\* A page whose last write returned Ok reads back as written: neither the
\* rotation of the header, nor the erase of another page, nor a power cut
\* touches it (logical_to_physical keeps slots and data pages apart).
WrittenPagesKept ==
  \A l \in Logical :
    confirmed[l] # Unknown /\ (up \/ l # 0) =>
      flash[LogicalToPhysical(l, slot)] = confirmed[l]

\* Until power is first lost, the header slots wear evenly: the header writes
\* are shared out, however many of them fail (header_rotating_device.rs:3-13).
\* (After a power-up the count goes on from the slot of the newest header,
\* which may have been worn already.)
EvenWear ==
  crashes = 0 => \A s, t \in Slots : wear[s] <= wear[t] + 1
=============================================================================

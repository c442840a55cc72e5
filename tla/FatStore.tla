------------------------------ MODULE FatStore ------------------------------
(***************************************************************************)
(* What the allocation table promises to table.rs when it is reached       *)
(* through the FAT cache (fatrs/src/fat_cache.rs): cells that hold what    *)
(* was last written to them.  A cell reaches the medium at some time       *)
(* before the flush that reports success; a crash leaves what the medium   *)
(* has.                                                                    *)
(***************************************************************************)
EXTENDS Integers

CONSTANTS Cells, Offsets, Width, Values

VARIABLES cells, medium, out

storeVars == <<cells, medium, out>>

Span(o) == o .. o + Width - 1

NoAnswer == [kind |-> "none"]
Failed == [kind |-> "failed"]
Written(o, v) == [kind |-> "written", off |-> o, val |-> v]
Flushed == [kind |-> "flushed"]
ReadAs(o, f) == [kind |-> "read", off |-> o, val |-> f]

StoreInit ==
  /\ cells \in [Cells -> Values]
  /\ medium = cells
  /\ out = NoAnswer

\* An access is answered later than it is called: in between there is no answer.
StoreCall == out' = NoAnswer /\ UNCHANGED <<cells, medium>>

StoreRead(o) ==
  /\ out' = ReadAs(o, [c \in Span(o) |-> cells[c]])
  /\ UNCHANGED <<cells, medium>>

StoreWrite(o, v) ==
  /\ cells' = [c \in Cells |-> IF c \in Span(o) THEN v ELSE cells[c]]
  /\ out' = Written(o, v)
  /\ UNCHANGED medium

\* Some cells reach the medium: between the calls, or in a call that then fails.
StoreWriteBack ==
  /\ \A c \in Cells : medium'[c] \in {medium[c], cells[c]}
  /\ out' \in {out, Failed}
  /\ UNCHANGED cells

StoreFlush ==
  /\ medium' = cells
  /\ out' = Flushed
  /\ UNCHANGED cells

StoreCrash ==
  /\ cells' = medium
  /\ out' = NoAnswer
  /\ UNCHANGED medium

StoreNext ==
  \/ StoreCall \/ StoreWriteBack \/ StoreFlush \/ StoreCrash
  \/ \E o \in Offsets : StoreRead(o) \/ \E v \in Values : StoreWrite(o, v)

StoreSpec == StoreInit /\ [][StoreNext]_storeVars
=============================================================================

------------------------------ MODULE AuditLog ------------------------------
(***************************************************************************)
(* The audit log (fatrs/src/audit.rs): a buffer of the newest entries in   *)
(* memory, written as a whole to its sectors by FileSystem::flush, read    *)
(* back when the volume is mounted.  An entry is its place in the trail,   *)
(* the sequence of all operations that the configured level asks for;      *)
(* timestamps, paths and results are left out.  The sectors are blank to   *)
(* start with: format_volume does not write them.                          *)
(*                                                                         *)
(* flush writes the whole buffer, past the sectors of the log if need be   *)
(* (what it may hit there is VolumeLayout's); load refuses what they could *)
(* not hold.  An entry takes more than 512 bytes, so 8 sectors hold 7 of   *)
(* the 16 entries, 16 sectors hold 15.                                     *)
(*                                                                         *)
(* A failing flush, and a crash in it, leave the sectors with a part of    *)
(* the new entries over the old ones.  Nothing guards the sectors: what    *)
(* lies between is read back as an entry, or refused when it cannot be     *)
(* decoded.  fs.flush ignores the error.                                   *)
(***************************************************************************)
EXTENDS Integers, SequencesExt

CONSTANTS
  Slots,      \* entries of the buffer (16 in the code)
  Room,       \* entries that fit the sectors of the log, more or less than Slots
  AuditConfigs, \* AuditConfig: [enabled, level]
  MaxEntries  \* bound: operations logged

\* Checked where the constants get their values.
AuditAssumption == Slots \in Nat \ {0} /\ Room \in Nat

VARIABLES
  config,
  buffer,   \* entries in memory, oldest first
  dirty,
  disk,     \* entries in the sectors of the log
  trail,    \* every operation to be logged since the entries that are left
  flushed,  \* the trail when the sectors were last written
  spoilt    \* memory or disk come from a flush that was cut short

auditVars == <<config, buffer, dirty, disk, trail, flushed, spoilt>>

Garbled == 0
\* should_log: the least level that logs an operation (AuditLevel 1 .. 3).
Operations == [create |-> 1, rename |-> 2, read |-> 3]
Newest(s) == SubSeq(s, IF Len(s) > Slots THEN Len(s) - Slots + 1 ELSE 1, Len(s))

AuditInit ==
  /\ config \in AuditConfigs
  /\ buffer = <<>> /\ disk = <<>> /\ dirty = FALSE
  /\ trail = <<>> /\ flushed = <<>>
  /\ spoilt = [memory |-> FALSE, disk |-> FALSE]

\* log: the buffer is shifted when it is full.
Pushed(b, e) == IF Len(b) < Slots THEN Append(b, e) ELSE Append(Tail(b), e)

NextEntry == IF trail = <<>> THEN 1 ELSE Last(trail) + 1

Log(op) ==
  /\ NextEntry <= MaxEntries
  /\ IF config.enabled /\ Operations[op] <= config.level
     THEN /\ buffer' = Pushed(buffer, NextEntry) /\ dirty' = TRUE
          /\ trail' = Append(trail, NextEntry)
     ELSE UNCHANGED <<buffer, dirty, trail>>
  /\ UNCHANGED <<config, disk, flushed, spoilt>>

\* flush: what is written stays in the buffer.
Flush ==
  /\ dirty /\ config.enabled
  /\ disk' = buffer /\ flushed' = trail /\ dirty' = FALSE
  /\ spoilt' = [spoilt EXCEPT !.disk = spoilt.memory]
  /\ UNCHANGED <<config, buffer, trail>>

\* n entries are written, the next one in part.
CutShort(n) ==
  [i \in 1 .. Len(buffer) |->
     IF i <= n THEN buffer[i]
     ELSE IF i = n + 1 \/ i > Len(disk) THEN Garbled ELSE disk[i]]

FlushFails ==
  /\ dirty /\ config.enabled
  /\ \E n \in 0 .. Len(buffer) - 1 : disk' = CutShort(n)
  /\ spoilt' = [spoilt EXCEPT !.disk = TRUE]
  /\ UNCHANGED <<config, buffer, dirty, trail, flushed>>

\* Mutant: sectors that are full are refused.
MutLoaded(d) == IF Len(d) >= Room THEN <<>> ELSE d

\* load, after AuditLog::new: a length that the sectors cannot hold, and
\* entries that cannot be decoded, leave the buffer empty.
Loaded(d) == IF Len(d) > Room THEN <<>> ELSE d

MountLog ==
  /\ \/ buffer' = Loaded(disk)
     \/ (\E i \in DOMAIN disk : disk[i] = Garbled) /\ buffer' = <<>>
  /\ trail' = IF Len(disk) > Room THEN <<>> ELSE flushed
  /\ dirty' = FALSE
  /\ spoilt' = [spoilt EXCEPT !.memory = spoilt.disk]
  /\ UNCHANGED <<config, disk, flushed>>

AuditNext == (\E op \in DOMAIN Operations : Log(op)) \/ Flush \/ FlushFails \/ MountLog

AuditSpec == AuditInit /\ [][AuditNext]_auditVars

-----------------------------------------------------------------------------
\* A mount finds the entries of the last flush that succeeded, all of them and
\* in order, however long the log has been running and however often it was
\* mounted, and none when the sectors of the log have no room for them: never a
\* part of them, nor entries of an older flush.
FlushRead ==
  MountLog /\ ~spoilt.disk =>
    buffer' = IF Len(Newest(flushed)) <= Room THEN Newest(flushed) ELSE <<>>
FlushedIsRead == [][FlushRead]_auditVars
=============================================================================

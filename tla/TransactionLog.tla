--------------------------- MODULE TransactionLog ---------------------------
(***************************************************************************)
(* The intent log behind FileSystem::with_transaction (feature             *)
(* transaction-safe): TransactionLog in fatrs/src/transaction.rs, the call *)
(* sequence of with_transaction and the recovery of FileSystem::new in     *)
(* fatrs/src/fs.rs.                                                        *)
(*                                                                         *)
(* An entry is abstracted to its transaction (type and affected sectors),  *)
(* its state, its sequence number, whether it carries the magic number and *)
(* whether its CRC matches.  The operation that runs under the intent      *)
(* rewrites two sectors, so it can be cut in half.  The log mutex is held  *)
(* from begin_transaction to the end of the call: one call is in progress  *)
(* at a time.                                                              *)
(*                                                                         *)
(* Neither format_volume nor FileSystem::new writes an empty log: only a   *)
(* program that calls TransactionLog::initialize does.  Every slot starts  *)
(* as a sector of zeros or as an initialised one.                          *)
(*                                                                         *)
(* A crash loses the memory, and cuts the sector write in progress at any  *)
(* field.  The code flushes after each log write and the log write of a    *)
(* commit follows the writes of the operation, so with a device that keeps *)
(* the order of writes a crash that loses a suffix of unflushed writes is  *)
(* the same as an earlier crash: writes are modelled as write-through.     *)
(***************************************************************************)
EXTENDS Integers, FiniteSets

CONSTANTS
  NSlots,         \* MAX_TRANSACTIONS (4 in the code)
  Tx,             \* the calls of with_transaction that are ever made
  NoTx,           \* TransactionType::None
  SeqLimit,       \* the sequence counter is SeqLimit at most (u32::MAX)
  MaxLogCrashes,  \* bound: power losses
  MaxLogFaults    \* bound: I/O errors

ASSUME TransactionLogAssumption ==
  /\ NSlots \in Nat \ {0}
  /\ NoTx \notin Tx
  /\ SeqLimit \in Nat \ {0}
  /\ MaxLogCrashes \in Nat
  /\ MaxLogFaults \in Nat

LogSlots == 0 .. NSlots - 1
States == {"Empty", "Pending", "InProgress", "Committed"}
Seqs == 0 .. SeqLimit
Entries == [magic : BOOLEAN, tx : Tx \cup {NoTx}, state : States, seq : Seqs, crc : BOOLEAN]

VARIABLES
  logDisk,   \* the log sectors
  mem,       \* TransactionLog.entries
  sequence,  \* TransactionLog.sequence (after a crash: the value lost with the memory)
  data,      \* what the sectors of each operation hold: before, half or after the update
  pc,        \* where the call that holds the log mutex is
  cur,       \* its transaction
  slot,      \* its slot
  volume,    \* whether the file system is mounted
  todo,      \* the incomplete slots the recovery has still to clear
  outcome,   \* what is known of each call: its result, or that recovery found it incomplete
  fresh,     \* history: the slots no clear has reached since the volume was formatted
  logCrashes,
  logFaults

logVars == <<logDisk, mem, sequence, data, pc, cur, slot, volume, todo, outcome, fresh,
             logCrashes, logFaults>>

-----------------------------------------------------------------------------
\* Mutant: TransactionType::None where TransactionState::Empty is meant.
MutEmptyEntry == [magic |-> TRUE, tx |-> NoTx, state |-> "None", seq |-> 0, crc |-> TRUE]

\* What clear and initialize write.
EmptyEntry == [magic |-> TRUE, tx |-> NoTx, state |-> "Empty", seq |-> 0, crc |-> TRUE]

\* What deserialize makes of a sector of zeros.
BlankEntry == [magic |-> FALSE, tx |-> NoTx, state |-> "Empty", seq |-> 0, crc |-> FALSE]

\* TransactionEntry::is_valid and get_incomplete_transactions
Incomplete(e) == e.magic /\ e.crc /\ e.state \in {"Pending", "InProgress"}

\* Fields reach the sector in the order magic, type, state, sequence, ..., CRC: a
\* cut write leaves a prefix of the new fields over the old ones.
TornWrites(old, new) ==
  LET cuts == {[old EXCEPT !.magic = new.magic, !.crc = FALSE],
               [old EXCEPT !.magic = new.magic, !.tx = new.tx, !.crc = FALSE],
               [new EXCEPT !.seq = old.seq, !.crc = FALSE],
               [new EXCEPT !.crc = FALSE]}
  IN  {e \in cuts : <<e.magic, e.tx, e.state, e.seq>> # <<old.magic, old.tx, old.state, old.seq>>}

\* The log after a write of e to slot s that was interrupted.
Interrupted(s, e) ==
  {logDisk} \cup {[logDisk EXCEPT ![s] = x] : x \in {e} \cup TornWrites(logDisk[s], e)}

\* The entry that the call in progress is about to write.
EntryToWrite ==
  CASE pc = "intent" -> mem[slot]
    [] pc = "commit" -> [mem[slot] EXCEPT !.state = "Committed"]
    [] OTHER         -> EmptyEntry

Leave(out) ==
  /\ pc' = "idle"
  /\ cur' = NoTx
  /\ outcome' = [outcome EXCEPT ![cur] = out]

-----------------------------------------------------------------------------
LogInit ==
  /\ logDisk \in [LogSlots -> {BlankEntry, EmptyEntry}]
  /\ fresh = {s \in LogSlots : logDisk[s] = BlankEntry}
  /\ mem = logDisk
  /\ sequence = 1
  /\ data = [t \in Tx |-> "old"]
  /\ pc = "idle" /\ cur = NoTx /\ slot = 0
  /\ volume = "up" /\ todo = {}
  /\ outcome = [t \in Tx |-> "uncalled"]
  /\ logCrashes = 0 /\ logFaults = 0

\* begin_transaction: the first Empty slot, else NotEnoughSpace.  The entry keeps
\* the magic number, or the zero, that load found in the slot.
FreeSlots == {s \in LogSlots : mem[s].state = "Empty"}

BeginTransaction(t) ==
  /\ volume = "up" /\ pc = "idle" /\ outcome[t] = "uncalled"
  /\ sequence < SeqLimit
  /\ \E s \in FreeSlots :
       /\ \A r \in FreeSlots : s <= r
       /\ slot' = s
       /\ mem' = [mem EXCEPT ![s] = [magic |-> mem[s].magic, tx |-> t, state |-> "Pending",
                                     seq |-> sequence, crc |-> TRUE]]
  /\ sequence' = sequence + 1
  /\ cur' = t /\ pc' = "intent"
  /\ outcome' = [outcome EXCEPT ![t] = "running"]
  /\ UNCHANGED <<logDisk, data, volume, todo, fresh, logCrashes, logFaults>>

BeginRefused(t) ==
  /\ volume = "up" /\ pc = "idle" /\ outcome[t] = "uncalled"
  /\ FreeSlots = {}
  /\ outcome' = [outcome EXCEPT ![t] = "refused"]
  /\ UNCHANGED <<logDisk, mem, sequence, data, pc, cur, slot, volume, todo, fresh, logCrashes, logFaults>>

\* Mutant: the intent is not on disk when the operation starts.
MutWriteIntent ==
  /\ pc = "intent"
  /\ mem' = [mem EXCEPT ![slot].state = "InProgress"]
  /\ pc' = "operation"
  /\ UNCHANGED <<logDisk, sequence, data, cur, slot, volume, todo, outcome, fresh, logCrashes, logFaults>>

\* write_intent, then mark_in_progress, which touches the memory only.
WriteIntent ==
  /\ pc = "intent"
  /\ logDisk' = [logDisk EXCEPT ![slot] = EntryToWrite]
  /\ mem' = [mem EXCEPT ![slot].state = "InProgress"]
  /\ pc' = "operation"
  /\ UNCHANGED <<sequence, data, cur, slot, volume, todo, outcome, fresh, logCrashes, logFaults>>

\* The closure writes its first, then its second sector.
OperationWrites ==
  /\ pc = "operation"
  /\ \/ data[cur] = "old" /\ data' = [data EXCEPT ![cur] = "half"] /\ pc' = pc
     \/ data[cur] = "half" /\ data' = [data EXCEPT ![cur] = "new"] /\ pc' = "commit"
  /\ UNCHANGED <<logDisk, mem, sequence, cur, slot, volume, todo, outcome, fresh, logCrashes, logFaults>>

\* The closure returns an error; with_transaction goes on to clear the entry.
OperationFails ==
  /\ pc = "operation"
  /\ logFaults < MaxLogFaults
  /\ logFaults' = logFaults + 1
  /\ pc' = "abort"
  /\ outcome' = [outcome EXCEPT ![cur] = "failed"]
  /\ UNCHANGED <<logDisk, mem, sequence, data, cur, slot, volume, todo, fresh, logCrashes>>

\* Mutant: a commit that drops the entry in memory and leaves the intent on disk.
MutCommit ==
  /\ pc = "commit"
  /\ mem' = [mem EXCEPT ![slot] = EmptyEntry]
  /\ Leave("ok")
  /\ UNCHANGED <<logDisk, sequence, data, slot, volume, todo, fresh, logCrashes, logFaults>>

Commit ==
  /\ pc = "commit"
  /\ logDisk' = [logDisk EXCEPT ![slot] = EntryToWrite]
  /\ mem' = [mem EXCEPT ![slot].state = "Committed"]
  /\ pc' = "clear"
  /\ UNCHANGED <<sequence, data, cur, slot, volume, todo, outcome, fresh, logCrashes, logFaults>>

\* Mutant: clear writes the sector and forgets the entry in memory.
MutClear ==
  /\ pc \in {"clear", "abort"}
  /\ logDisk' = [logDisk EXCEPT ![slot] = EntryToWrite]
  /\ fresh' = fresh \ {slot}
  /\ Leave(IF pc = "clear" THEN "ok" ELSE "failed")
  /\ UNCHANGED <<mem, sequence, data, slot, volume, todo, logCrashes, logFaults>>

Clear ==
  /\ pc \in {"clear", "abort"}
  /\ logDisk' = [logDisk EXCEPT ![slot] = EntryToWrite]
  /\ mem' = [mem EXCEPT ![slot] = EmptyEntry]
  /\ fresh' = fresh \ {slot}
  /\ Leave(IF pc = "clear" THEN "ok" ELSE "failed")
  /\ UNCHANGED <<sequence, data, slot, volume, todo, logCrashes, logFaults>>

\* A log write fails: `?` returns from the call.  The entry in memory stays as
\* it is; commit has already marked it Committed.
LogWriteFails ==
  /\ pc \in {"intent", "commit", "clear", "abort"}
  /\ logFaults < MaxLogFaults
  /\ logFaults' = logFaults + 1
  /\ logDisk' \in Interrupted(slot, EntryToWrite)
  /\ mem' = IF pc = "commit" THEN [mem EXCEPT ![slot].state = "Committed"] ELSE mem
  /\ Leave("failed")
  /\ UNCHANGED <<sequence, data, slot, volume, todo, fresh, logCrashes>>

-----------------------------------------------------------------------------
\* Mutant: the counter restarts whatever the log holds.
MutNextSequence(highest) == 1

NextSequence(highest) == IF highest = SeqLimit THEN SeqLimit ELSE highest + 1

\* TransactionLog::load; then the incomplete entries are collected and announced
\* ("Found n incomplete transaction(s)").
LoadLog ==
  /\ volume = "down"
  /\ mem' = logDisk
  /\ \E s \in LogSlots :
       /\ \A r \in LogSlots : logDisk[r].seq <= logDisk[s].seq
       /\ sequence' = NextSequence(logDisk[s].seq)
  /\ todo' = {s \in LogSlots : Incomplete(logDisk[s])}
  /\ outcome' = [t \in Tx |-> IF \E s \in todo' : logDisk[s].tx = t THEN "reported"
                              ELSE outcome[t]]
  /\ volume' = "recovering"
  /\ UNCHANGED <<logDisk, data, pc, cur, slot, fresh, logCrashes, logFaults>>

\* Pending and InProgress are handled alike: the slot is cleared.
RecoverSlot ==
  /\ volume = "recovering"
  /\ \E s \in todo :
       /\ \A r \in todo : s <= r
       /\ logDisk' = [logDisk EXCEPT ![s] = EmptyEntry]
       /\ mem' = [mem EXCEPT ![s] = EmptyEntry]
       /\ todo' = todo \ {s}
       /\ fresh' = fresh \ {s}
  /\ UNCHANGED <<sequence, data, pc, cur, slot, volume, outcome, logCrashes, logFaults>>

\* An I/O error makes FileSystem::new fail: the volume is not mounted.
RecoveryFails ==
  /\ volume = "recovering"
  /\ logFaults < MaxLogFaults
  /\ logFaults' = logFaults + 1
  /\ \E s \in todo :
       /\ \A r \in todo : s <= r
       /\ logDisk' \in Interrupted(s, EmptyEntry)
  /\ volume' = "down" /\ todo' = {}
  /\ UNCHANGED <<mem, sequence, data, pc, cur, slot, outcome, fresh, logCrashes>>

RecoveryDone ==
  /\ volume = "recovering" /\ todo = {}
  /\ volume' = "up"
  /\ UNCHANGED <<logDisk, mem, sequence, data, pc, cur, slot, todo, outcome, fresh, logCrashes, logFaults>>

-----------------------------------------------------------------------------
\* Power is lost, in the middle of a log write if one is in progress.
DiskAfterCrash ==
  IF pc \in {"intent", "commit", "clear", "abort"} THEN Interrupted(slot, EntryToWrite)
  ELSE {logDisk} \cup UNION {Interrupted(s, EmptyEntry) : s \in {r \in todo : \A q \in todo : r <= q}}

LogCrash ==
  /\ volume # "down"
  /\ logCrashes < MaxLogCrashes
  /\ logCrashes' = logCrashes + 1
  /\ logDisk' \in DiskAfterCrash
  /\ mem' = [s \in LogSlots |-> EmptyEntry]
  /\ pc' = "idle" /\ cur' = NoTx
  /\ volume' = "down" /\ todo' = {}
  /\ UNCHANGED <<sequence, data, slot, outcome, fresh, logFaults>>

LogNext ==
  \/ \E t \in Tx : BeginTransaction(t) \/ BeginRefused(t)
  \/ WriteIntent \/ OperationWrites \/ OperationFails
  \/ Commit \/ Clear \/ LogWriteFails
  \/ LoadLog \/ RecoverSlot \/ RecoveryFails \/ RecoveryDone
  \/ LogCrash

LogSpec == LogInit /\ [][LogNext]_logVars

-----------------------------------------------------------------------------
LogTypeOK ==
  /\ logDisk \in [LogSlots -> Entries]
  /\ mem \in [LogSlots -> Entries]
  /\ sequence \in Seqs
  /\ data \in [Tx -> {"old", "half", "new"}]
  /\ pc \in {"idle", "intent", "operation", "commit", "clear", "abort"}
  /\ cur \in Tx \cup {NoTx}
  /\ slot \in LogSlots
  /\ volume \in {"up", "down", "recovering"}
  /\ todo \in SUBSET LogSlots
  /\ outcome \in [Tx -> {"uncalled", "running", "ok", "failed", "refused", "reported"}]
  /\ fresh \in SUBSET LogSlots
  /\ logCrashes \in 0 .. MaxLogCrashes
  /\ logFaults \in 0 .. MaxLogFaults

\* An update cut in half is silent in one case only: its intent stands in a slot
\* that no clear has reached since the volume was formatted.  Otherwise its caller
\* got an error, recovery has found it, or a valid incomplete entry on disk lets
\* the next recovery find it.  (write_intent before the operation, commit only
\* after it, recovery clears a slot only after it has reported it.  begin_transaction
\* does not write the magic number that is_valid asks for; clear does.)
HalfUpdateIsKnown ==
  \A t \in Tx : data[t] = "half" =>
    \/ outcome[t] \in {"failed", "reported"}
    \/ \E s \in LogSlots : Incomplete(logDisk[s]) /\ logDisk[s].tx = t
    \/ \E s \in fresh : logDisk[s].tx = t

\* A call that returned Ok did all of its update, and stays Ok: no later
\* recovery takes it for an incomplete one (commit is written before clear, and
\* the call returns only after the entry is gone).
OkIsFinal ==
  [][\A t \in Tx : outcome[t] = "ok" => outcome'[t] = "ok" /\ data'[t] = "new"]_logVars

\* Slots the running call does not own are lost only to power losses and I/O
\* errors, one each: in their absence the log never fills.
Used == {s \in LogSlots : mem[s].state # "Empty"}
SlotsLostOnlyToFaults ==
  volume = "up" /\ pc = "idle" => Cardinality(Used) <= logCrashes + logFaults

\* The entries in memory that a reader can trust carry different sequence
\* numbers, all below the next one: they can be ordered (load continues from the
\* highest sequence number found, whatever was left behind).
Trusted(e) == e.crc /\ e.state # "Empty"
SequenceOrdersEntries ==
  volume # "down" =>
    \A s \in LogSlots : Trusted(mem[s]) =>
      /\ mem[s].seq < sequence
      /\ \A r \in LogSlots \ {s} : Trusted(mem[r]) => mem[r].seq # mem[s].seq
=============================================================================

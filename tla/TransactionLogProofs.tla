------------------------ MODULE TransactionLogProofs ------------------------
(***************************************************************************)
(* Theorems about TransactionLog, for any number of slots, calls, power    *)
(* losses and I/O errors.                                                  *)
(***************************************************************************)
EXTENDS TransactionLog, FiniteSetTheorems, TLAPS

LEMMA EmptyEntryType == EmptyEntry \in Entries /\ BlankEntry \in Entries
  BY TransactionLogAssumption DEF EmptyEntry, BlankEntry, Entries, States, Seqs

\* Whatever a write of an entry is cut to, the sector holds an entry.
LEMMA InterruptedType ==
  ASSUME LogTypeOK, NEW s \in LogSlots, NEW e \in Entries, NEW d \in Interrupted(s, e)
  PROVE  d \in [LogSlots -> Entries]
  <1>1. logDisk[s] \in Entries
    BY DEF LogTypeOK
  <1>2. ASSUME NEW x \in TornWrites(logDisk[s], e) PROVE x \in Entries
    BY <1>1, <1>2 DEF TornWrites, Entries
  <1>3. QED
    BY <1>2 DEF Interrupted, LogTypeOK

LEMMA EntryToWriteType ==
  ASSUME LogTypeOK PROVE EntryToWrite \in Entries
  BY EmptyEntryType DEF LogTypeOK, EntryToWrite, Entries, States

LEMMA InitType == LogInit => LogTypeOK
  <1> SUFFICES ASSUME LogInit PROVE LogTypeOK
    OBVIOUS
  <1>1. /\ logDisk \in [LogSlots -> Entries] /\ mem \in [LogSlots -> Entries]
    BY EmptyEntryType DEF LogInit
  <1>2. QED
    BY <1>1, TransactionLogAssumption DEF LogInit, LogTypeOK, Seqs, LogSlots

\* Every step keeps the types.
LEMMA NextType == LogTypeOK /\ [LogNext]_logVars => LogTypeOK'
  <1> SUFFICES ASSUME LogTypeOK, [LogNext]_logVars PROVE LogTypeOK'
    OBVIOUS
  <1> USE DEF LogTypeOK
  <1>1. ASSUME NEW t \in Tx, BeginTransaction(t) PROVE LogTypeOK'
    <2>1. PICK s \in FreeSlots :
             /\ slot' = s
             /\ mem' = [mem EXCEPT ![s] = [magic |-> mem[s].magic, tx |-> t, state |-> "Pending",
                                           seq |-> sequence, crc |-> TRUE]]
      BY <1>1 DEF BeginTransaction
    <2>2. [magic |-> mem[s].magic, tx |-> t, state |-> "Pending", seq |-> sequence, crc |-> TRUE] \in Entries
      BY <2>1 DEF Entries, States, FreeSlots
    <2>3. sequence' \in Seqs
      BY <1>1, TransactionLogAssumption DEF BeginTransaction, Seqs
    <2>4. QED
      BY <1>1, <2>1, <2>2, <2>3 DEF BeginTransaction, FreeSlots
  <1>2. ASSUME NEW t \in Tx, BeginRefused(t) PROVE LogTypeOK'
    BY <1>2 DEF BeginRefused
  <1>3. CASE WriteIntent
    <2>1. [mem EXCEPT ![slot].state = "InProgress"] \in [LogSlots -> Entries]
      BY DEF Entries, States
    <2>2. QED
      BY <1>3, <2>1, EntryToWriteType DEF WriteIntent
  <1>4. CASE OperationWrites
    BY <1>4 DEF OperationWrites
  <1>5. CASE OperationFails
    <2>1. logFaults' \in 0 .. MaxLogFaults
      BY <1>5, TransactionLogAssumption DEF OperationFails
    <2>2. outcome' \in [Tx -> {"uncalled", "running", "ok", "failed", "refused", "reported"}]
      BY <1>5 DEF OperationFails
    <2>3. QED
      BY <1>5, <2>1, <2>2 DEF OperationFails
  <1>6. CASE Commit
    <2>1. [mem EXCEPT ![slot].state = "Committed"] \in [LogSlots -> Entries]
      BY DEF Entries, States
    <2>2. QED
      BY <1>6, <2>1, EntryToWriteType DEF Commit
  <1>7. CASE Clear
    BY <1>7, EntryToWriteType, EmptyEntryType DEF Clear, Leave
  <1>8. CASE LogWriteFails
    <2>1. [mem EXCEPT ![slot].state = "Committed"] \in [LogSlots -> Entries]
      BY DEF Entries, States
    <2>2. logDisk' \in [LogSlots -> Entries]
      BY <1>8, EntryToWriteType, InterruptedType DEF LogWriteFails
    <2>3. logFaults' \in 0 .. MaxLogFaults
      BY <1>8, TransactionLogAssumption DEF LogWriteFails
    <2>4. outcome' \in [Tx -> {"uncalled", "running", "ok", "failed", "refused", "reported"}]
      BY <1>8 DEF LogWriteFails, Leave
    <2>5. mem' \in [LogSlots -> Entries]
      BY <1>8, <2>1 DEF LogWriteFails
    <2>6. QED
      BY <1>8, <2>2, <2>3, <2>4, <2>5 DEF LogWriteFails, Leave
  <1>9. CASE LoadLog
    <2>1. ASSUME NEW s \in LogSlots PROVE NextSequence(logDisk[s].seq) \in Seqs
      <3>1. logDisk[s] \in Entries
        OBVIOUS
      <3>2. logDisk[s].seq \in 0 .. SeqLimit
        BY <3>1 DEF Entries, Seqs
      <3>3. QED
        BY <3>2, TransactionLogAssumption DEF NextSequence, Seqs
    <2>2. QED
      BY <1>9, <2>1 DEF LoadLog
  <1>10. CASE RecoverSlot
    BY <1>10, EmptyEntryType DEF RecoverSlot
  <1>11. CASE RecoveryFails
    <2>1. logDisk' \in [LogSlots -> Entries]
      BY <1>11, EmptyEntryType, InterruptedType DEF RecoveryFails
    <2>2. QED
      BY <1>11, <2>1, TransactionLogAssumption DEF RecoveryFails
  <1>12. CASE RecoveryDone
    BY <1>12 DEF RecoveryDone
  <1>13. CASE LogCrash
    <2>1. logDisk' \in [LogSlots -> Entries]
      BY <1>13, EmptyEntryType, EntryToWriteType, InterruptedType DEF LogCrash, DiskAfterCrash
    <2>2. QED
      BY <1>13, <2>1, EmptyEntryType, TransactionLogAssumption DEF LogCrash
  <1>14. CASE UNCHANGED logVars
    BY <1>14 DEF logVars
  <1>15. QED
    BY <1>1, <1>2, <1>3, <1>4, <1>5, <1>6, <1>7, <1>8, <1>9, <1>10, <1>11,
       <1>12, <1>13, <1>14 DEF LogNext

\* The log, the memory and the bookkeeping of a call keep their types.
THEOREM TypeCorrect == LogSpec => []LogTypeOK
  BY InitType, NextType, PTL DEF LogSpec

-----------------------------------------------------------------------------
(***************************************************************************)
(* HalfUpdateIsKnown is not inductive: it has to be known what the log     *)
(* holds for the call in progress, that a slot taken for free in memory is *)
(* empty on disk too (so that no new intent overwrites an entry that still *)
(* waits for recovery), that recovery clears only what it announced, and   *)
(* that an entry without the magic number stands in a slot that no clear   *)
(* has reached.                                                            *)
(***************************************************************************)
\* The entry of a call that has not ended, whether or not recovery would see it.
Recorded(e) == e.crc /\ e.state \in {"Pending", "InProgress"}

CallInv ==
  /\ pc # "idle" =>
       /\ volume = "up" /\ cur \in Tx
       /\ outcome[cur] \in {"running", "failed"}
       /\ mem[slot].tx = cur /\ mem[slot].state # "Empty"
  /\ pc \in {"operation", "commit", "clear", "abort"} => logDisk[slot].tx = cur
  /\ pc = "intent" => logDisk[slot].state = "Empty" /\ data[cur] = "old"
                      /\ mem[slot].state = "Pending" /\ mem[slot].crc
  /\ pc = "operation" => Recorded(logDisk[slot])
  /\ pc \in {"commit", "clear"} => data[cur] = "new"
  /\ pc = "abort" => outcome[cur] = "failed"

LogInv ==
  /\ volume = "up" =>
       \A s \in LogSlots : mem[s].state = "Empty" => logDisk[s].state = "Empty"
  /\ volume = "recovering" => mem = logDisk
  /\ volume = "recovering" =>
       \A s \in todo : logDisk[s].tx \in Tx => outcome[logDisk[s].tx] = "reported"
  /\ volume # "recovering" => todo = {}
  /\ volume = "recovering" => {s \in LogSlots : Incomplete(logDisk[s])} = todo
  /\ \A t \in Tx : outcome[t] = "uncalled" => data[t] = "old"

KnownInv ==
  \A t \in Tx : data[t] = "half" =>
    \/ outcome[t] \in {"failed", "reported"}
    \/ \E s \in LogSlots : Recorded(logDisk[s]) /\ logDisk[s].tx = t

MagicInv ==
  /\ \A s \in LogSlots : ~logDisk[s].magic => s \in fresh
  /\ volume = "up" => \A s \in LogSlots : ~mem[s].magic => s \in fresh

IInv == LogTypeOK /\ CallInv /\ LogInv /\ KnownInv

\* A cut or complete write to slot s leaves the other slots alone.
LEMMA InterruptedElsewhere ==
  ASSUME LogTypeOK, NEW s \in LogSlots, NEW e, NEW d \in Interrupted(s, e), NEW r \in LogSlots, r # s
  PROVE  d[r] = logDisk[r]
  BY DEF Interrupted, LogTypeOK

\* The call in progress writes to a slot that no other transaction needs.
LEMMA OwnSlot ==
  ASSUME LogTypeOK, CallInv, pc # "idle", NEW t \in Tx, t # cur,
         NEW s \in LogSlots, Recorded(logDisk[s]), logDisk[s].tx = t
  PROVE  s # slot
  BY DEF LogTypeOK, CallInv, Recorded

LEMMA InitInv == LogInit => IInv
  <1> SUFFICES ASSUME LogInit PROVE IInv
    OBVIOUS
  <1>1. LogTypeOK
    BY InitType
  <1>2. CallInv /\ KnownInv
    BY DEF LogInit, CallInv, KnownInv
  <1>3. LogInv
    BY DEF LogInit, LogInv, EmptyEntry, BlankEntry
  <1>4. QED
    BY <1>1, <1>2, <1>3 DEF IInv

LEMMA BeginInv ==
  ASSUME IInv, NEW t \in Tx, BeginTransaction(t) \/ BeginRefused(t)
  PROVE  CallInv' /\ LogInv' /\ KnownInv'
  <1> USE DEF IInv
  <1>1. CASE BeginTransaction(t)
    <2>1. PICK s \in LogSlots :
             /\ mem[s].state = "Empty" /\ slot' = s
             /\ mem' = [mem EXCEPT ![s] = [magic |-> mem[s].magic, tx |-> t, state |-> "Pending",
                                           seq |-> sequence, crc |-> TRUE]]
      BY <1>1 DEF BeginTransaction, FreeSlots
    <2>2. CallInv'
      BY <1>1, <2>1 DEF BeginTransaction, CallInv, LogInv, LogTypeOK
    <2>3. LogInv'
      BY <1>1, <2>1 DEF BeginTransaction, LogInv, LogTypeOK
    <2>4. KnownInv'
      BY <1>1 DEF BeginTransaction, KnownInv, LogInv, LogTypeOK
    <2>5. QED
      BY <2>2, <2>3, <2>4
  <1>2. CASE BeginRefused(t)
    <2>1. CallInv'
      BY <1>2 DEF BeginRefused, CallInv, LogTypeOK
    <2>2. LogInv'
      BY <1>2 DEF BeginRefused, LogInv, LogTypeOK
    <2>3. KnownInv'
      BY <1>2 DEF BeginRefused, KnownInv, LogInv, LogTypeOK
    <2>4. QED
      BY <2>1, <2>2, <2>3
  <1>3. QED
    BY <1>1, <1>2

LEMMA OperationInv ==
  ASSUME IInv, WriteIntent \/ OperationWrites \/ OperationFails
  PROVE  CallInv' /\ LogInv' /\ KnownInv'
  <1> USE DEF IInv
  <1>1. CASE WriteIntent
    <2>1. logDisk' = [logDisk EXCEPT ![slot] = mem[slot]]
      BY <1>1 DEF WriteIntent, EntryToWrite
    <2>2. CallInv'
      BY <1>1, <2>1 DEF WriteIntent, CallInv, LogTypeOK, Recorded
    <2>3. LogInv'
      BY <1>1, <2>1 DEF WriteIntent, LogInv, CallInv, LogTypeOK
    <2>4. KnownInv'
      BY <1>1, <2>1, OwnSlot DEF WriteIntent, KnownInv, CallInv, LogTypeOK, Recorded
    <2>5. QED
      BY <2>2, <2>3, <2>4
  <1>2. CASE OperationWrites
    <2>1. CallInv'
      BY <1>2 DEF OperationWrites, CallInv, LogTypeOK
    <2>2. LogInv'
      BY <1>2 DEF OperationWrites, LogInv, CallInv, LogTypeOK
    <2>3. KnownInv'
      BY <1>2 DEF OperationWrites, KnownInv, CallInv, LogTypeOK
    <2>4. QED
      BY <2>1, <2>2, <2>3
  <1>3. CASE OperationFails
    <2>1. CallInv'
      BY <1>3 DEF OperationFails, CallInv, LogTypeOK
    <2>2. LogInv'
      BY <1>3 DEF OperationFails, LogInv, CallInv, LogTypeOK
    <2>3. KnownInv'
      BY <1>3 DEF OperationFails, KnownInv, CallInv, LogTypeOK
    <2>4. QED
      BY <2>1, <2>2, <2>3
  <1>4. QED
    BY <1>1, <1>2, <1>3

LEMMA EndOfCallInv ==
  ASSUME IInv, Commit \/ Clear \/ LogWriteFails
  PROVE  CallInv' /\ LogInv' /\ KnownInv'
  <1> USE DEF IInv
  <1>1. CASE Commit
    <2>1. logDisk' = [logDisk EXCEPT ![slot] = [mem[slot] EXCEPT !.state = "Committed"]]
      BY <1>1 DEF Commit, EntryToWrite
    <2>2. CallInv'
      BY <1>1, <2>1 DEF Commit, CallInv, LogTypeOK, Entries
    <2>3. LogInv'
      BY <1>1, <2>1 DEF Commit, LogInv, CallInv, LogTypeOK
    <2>4. KnownInv'
      BY <1>1, <2>1, OwnSlot DEF Commit, KnownInv, CallInv, LogTypeOK
    <2>5. QED
      BY <2>2, <2>3, <2>4
  <1>2. CASE Clear
    <2>1. logDisk' = [logDisk EXCEPT ![slot] = EmptyEntry]
      BY <1>2 DEF Clear, EntryToWrite
    <2>2. CallInv'
      BY <1>2 DEF Clear, Leave, CallInv
    <2>3. LogInv'
      BY <1>2, <2>1 DEF Clear, Leave, LogInv, CallInv, LogTypeOK, EmptyEntry
    <2>4. KnownInv'
      BY <1>2, <2>1, OwnSlot DEF Clear, Leave, KnownInv, CallInv, LogTypeOK
    <2>5. QED
      BY <2>2, <2>3, <2>4
  <1>3. CASE LogWriteFails
    <2>1. \A r \in LogSlots : r # slot => logDisk'[r] = logDisk[r]
      BY <1>3, InterruptedElsewhere DEF LogWriteFails, LogTypeOK
    <2>2. CallInv'
      BY <1>3 DEF LogWriteFails, Leave, CallInv
    <2>3. LogInv'
      BY <1>3, <2>1 DEF LogWriteFails, Leave, LogInv, CallInv, LogTypeOK
    <2>4. KnownInv'
      BY <1>3, <2>1, OwnSlot DEF LogWriteFails, Leave, KnownInv, CallInv, LogTypeOK
    <2>5. QED
      BY <2>2, <2>3, <2>4
  <1>4. QED
    BY <1>1, <1>2, <1>3

LEMMA RecoveryInv ==
  ASSUME IInv, LoadLog \/ RecoverSlot \/ RecoveryFails \/ RecoveryDone
  PROVE  CallInv' /\ LogInv' /\ KnownInv'
  <1> USE DEF IInv
  <1>1. CASE LoadLog
    <2>1. pc = "idle"
      BY <1>1 DEF LoadLog, CallInv
    <2>2. CallInv'
      BY <1>1, <2>1 DEF LoadLog, CallInv
    <2>3. LogInv'
      BY <1>1 DEF LoadLog, LogInv, LogTypeOK
    <2>4. KnownInv'
      BY <1>1 DEF LoadLog, KnownInv, LogTypeOK
    <2>5. QED
      BY <2>2, <2>3, <2>4
  <1>2. CASE RecoverSlot
    <2>1. pc = "idle"
      BY <1>2 DEF RecoverSlot, CallInv
    <2>2. CallInv'
      BY <1>2, <2>1 DEF RecoverSlot, CallInv
    <2>3. LogInv'
      BY <1>2 DEF RecoverSlot, LogInv, LogTypeOK, EmptyEntry, Incomplete
    <2>4. KnownInv'
      BY <1>2 DEF RecoverSlot, LogInv, KnownInv, LogTypeOK
    <2>5. QED
      BY <2>2, <2>3, <2>4
  <1>3. CASE RecoveryFails
    <2>1. PICK s \in todo : logDisk' \in Interrupted(s, EmptyEntry)
      BY <1>3 DEF RecoveryFails
    <2>2. \A r \in LogSlots : r # s => logDisk'[r] = logDisk[r]
      BY <2>1, InterruptedElsewhere DEF LogTypeOK
    <2>3. CallInv'
      BY <1>3 DEF RecoveryFails, CallInv
    <2>4. LogInv'
      BY <1>3 DEF RecoveryFails, LogInv
    <2>5. KnownInv'
      BY <1>3, <2>1, <2>2 DEF RecoveryFails, LogInv, KnownInv, LogTypeOK
    <2>6. QED
      BY <2>3, <2>4, <2>5
  <1>4. CASE RecoveryDone
    <2>1. CallInv'
      BY <1>4 DEF RecoveryDone, CallInv
    <2>2. LogInv'
      BY <1>4 DEF RecoveryDone, LogInv
    <2>3. KnownInv'
      BY <1>4 DEF RecoveryDone, KnownInv
    <2>4. QED
      BY <2>1, <2>2, <2>3
  <1>5. QED
    BY <1>1, <1>2, <1>3, <1>4

\* Where the power loss cuts a log write, the slot it spares or spoils is the
\* one of the call in progress, or one that recovery has announced.
LEMMA CrashInv ==
  ASSUME IInv, LogCrash
  PROVE  CallInv' /\ LogInv' /\ KnownInv'
  <1> USE DEF IInv
  <1>1. CallInv'
    BY DEF LogCrash, CallInv
  <1>2. LogInv'
    BY DEF LogCrash, LogInv
  <1>3. ASSUME NEW t \in Tx, data[t] = "half", outcome[t] \notin {"failed", "reported"}
        PROVE  \E s \in LogSlots : Recorded(logDisk'[s]) /\ logDisk'[s].tx = t
    <2>1. PICK s \in LogSlots : Recorded(logDisk[s]) /\ logDisk[s].tx = t
      BY <1>3 DEF KnownInv
    <2>2. CASE pc \in {"intent", "commit", "clear", "abort"}
      <3>1. logDisk' \in Interrupted(slot, EntryToWrite) /\ slot \in LogSlots
        BY <2>2 DEF LogCrash, DiskAfterCrash, LogTypeOK
      <3>2. t # cur
        BY <1>3, <2>2 DEF CallInv
      <3>3. s # slot
        BY <2>1, <2>2, <3>2, OwnSlot
      <3>4. logDisk'[s] = logDisk[s]
        BY <3>1, <3>3, InterruptedElsewhere
      <3>5. QED
        BY <2>1, <3>4
    <2>3. CASE pc \notin {"intent", "commit", "clear", "abort"}
      <3>1. s \notin todo
        BY <1>3, <2>1 DEF LogInv
      <3>2. logDisk' = logDisk \/ \E r \in todo : logDisk' \in Interrupted(r, EmptyEntry)
        BY <2>3 DEF LogCrash, DiskAfterCrash
      <3>3. QED
        BY <2>1, <3>1, <3>2, InterruptedElsewhere DEF LogTypeOK
    <2>4. QED
      BY <2>2, <2>3
  <1>4. KnownInv'
    BY <1>3 DEF LogCrash, KnownInv, Recorded
  <1>5. QED
    BY <1>1, <1>2, <1>4

LEMMA NextInv == IInv /\ [LogNext]_logVars => IInv'
  <1> SUFFICES ASSUME IInv, [LogNext]_logVars PROVE IInv'
    OBVIOUS
  <1>1. LogTypeOK'
    BY NextType DEF IInv
  <1>2. CASE UNCHANGED logVars
    <2>1. CallInv'
      BY <1>2 DEF logVars, IInv, CallInv, Recorded
    <2>2. LogInv'
      BY <1>2 DEF logVars, IInv, LogInv, Incomplete
    <2>3. KnownInv'
      BY <1>2 DEF logVars, IInv, KnownInv, Recorded
    <2>4. QED
      BY <1>1, <2>1, <2>2, <2>3 DEF IInv
  <1>3. CASE LogNext
    <2>1. CallInv' /\ LogInv' /\ KnownInv'
      BY <1>3, BeginInv, OperationInv, EndOfCallInv, RecoveryInv, CrashInv DEF LogNext
    <2>2. QED
      BY <1>1, <2>1 DEF IInv
  <1>4. QED
    BY <1>2, <1>3

\* The magic number stays where it is: a write of the call in progress puts back
\* what begin_transaction found in the slot, and a clear adds it.
LEMMA InterruptedMagic ==
  ASSUME LogTypeOK, NEW s \in LogSlots, NEW e \in Entries, NEW d \in Interrupted(s, e)
  PROVE  d[s].magic \in {logDisk[s].magic, e.magic}
  <1>1. ASSUME NEW x \in TornWrites(logDisk[s], e) PROVE x.magic = e.magic
    <2>1. logDisk[s] \in Entries
      BY DEF LogTypeOK
    <2>2. QED
      BY <1>1, <2>1 DEF TornWrites, Entries
  <1>2. QED
    BY <1>1 DEF Interrupted, LogTypeOK

LEMMA NextMagic == IInv /\ MagicInv /\ [LogNext]_logVars => MagicInv'
  <1> SUFFICES ASSUME IInv, MagicInv, [LogNext]_logVars PROVE MagicInv'
    OBVIOUS
  <1> USE DEF IInv
  <1>1. EmptyEntry.magic /\ EmptyEntry \in Entries
    BY EmptyEntryType DEF EmptyEntry
  <1>2. ASSUME pc # "idle", ~EntryToWrite.magic PROVE slot \in fresh
    BY <1>1, <1>2 DEF EntryToWrite, CallInv, MagicInv, LogTypeOK, Entries
  <1>3. ASSUME NEW s \in LogSlots, NEW e \in Entries, NEW d \in Interrupted(s, e),
               ~e.magic => s \in fresh
        PROVE  \A r \in LogSlots : ~d[r].magic => r \in fresh
    BY <1>3, InterruptedElsewhere, InterruptedMagic DEF MagicInv
  <1>4. ASSUME NEW t \in Tx, BeginTransaction(t) PROVE MagicInv'
    BY <1>4 DEF BeginTransaction, FreeSlots, MagicInv, LogTypeOK
  <1>5. CASE WriteIntent \/ Commit
    <2>1. \A s \in LogSlots : mem'[s].magic = mem[s].magic
      <3>1. \A s \in LogSlots : mem[s] \in Entries
        BY DEF LogTypeOK
      <3>2. \/ mem' = [mem EXCEPT ![slot].state = "InProgress"]
            \/ mem' = [mem EXCEPT ![slot].state = "Committed"]
        BY <1>5 DEF WriteIntent, Commit
      <3>3. QED
        BY <3>1, <3>2 DEF LogTypeOK, Entries
    <2>2. \A s \in LogSlots : ~logDisk'[s].magic => s \in fresh
      BY <1>2, <1>5 DEF WriteIntent, Commit, MagicInv, LogTypeOK
    <2>3. QED
      BY <1>5, <2>1, <2>2 DEF WriteIntent, Commit, MagicInv
  <1>6. CASE Clear
    <2>1. EntryToWrite = EmptyEntry
      BY <1>6 DEF Clear, EntryToWrite
    <2>2. QED
      BY <1>1, <1>6, <2>1 DEF Clear, Leave, MagicInv, LogTypeOK
  <1>7. CASE LogWriteFails
    <2>1. \A s \in LogSlots : mem'[s].magic = mem[s].magic
      BY <1>7 DEF LogWriteFails, LogTypeOK, Entries
    <2>2. pc # "idle" /\ logDisk' \in Interrupted(slot, EntryToWrite) /\ UNCHANGED <<fresh, volume>>
      BY <1>7 DEF LogWriteFails
    <2>3. \A s \in LogSlots : ~logDisk'[s].magic => s \in fresh
      BY <1>2, <1>3, <2>2, EntryToWriteType DEF LogTypeOK
    <2>4. QED
      BY <2>1, <2>2, <2>3 DEF MagicInv
  <1>8. CASE LoadLog \/ RecoverSlot
    BY <1>1, <1>8 DEF LoadLog, RecoverSlot, MagicInv, LogTypeOK
  <1>9. CASE RecoveryFails
    <2>1. \A s \in LogSlots : ~logDisk'[s].magic => s \in fresh
      BY <1>1, <1>3, <1>9 DEF RecoveryFails, LogTypeOK
    <2>2. QED
      BY <1>9, <2>1 DEF RecoveryFails, MagicInv
  <1>10. CASE RecoveryDone
    BY <1>10 DEF RecoveryDone, MagicInv, LogInv
  <1>11. CASE LogCrash
    <2>1. \A s \in LogSlots : ~logDisk'[s].magic => s \in fresh
      <3>1. CASE pc \in {"intent", "commit", "clear", "abort"}
        BY <1>2, <1>3, <1>11, <3>1, EntryToWriteType DEF LogCrash, DiskAfterCrash, LogTypeOK
      <3>2. CASE pc \notin {"intent", "commit", "clear", "abort"}
        <4>1. logDisk' = logDisk \/ \E r \in todo : logDisk' \in Interrupted(r, EmptyEntry)
          BY <1>11, <3>2 DEF LogCrash, DiskAfterCrash
        <4>2. QED
          BY <1>1, <1>3, <4>1 DEF MagicInv, LogTypeOK
      <3>3. QED
        BY <3>1, <3>2
    <2>2. QED
      BY <1>11, <2>1 DEF LogCrash, MagicInv
  <1>12. CASE UNCHANGED logVars \/ OperationWrites \/ OperationFails
    BY <1>12 DEF logVars, OperationWrites, OperationFails, MagicInv
  <1>13. ASSUME NEW t \in Tx, BeginRefused(t) PROVE MagicInv'
    BY <1>13 DEF BeginRefused, MagicInv
  <1>14. QED
    BY <1>4, <1>5, <1>6, <1>7, <1>8, <1>9, <1>10, <1>11, <1>12, <1>13 DEF LogNext

\* An operation that was cut in half is never forgotten without a trace: it is
\* on disk for the next recovery until recovery has announced it or its caller
\* has got an error, unless its intent is the first one in a slot that was never
\* initialised, which recovery does not recognise.
THEOREM HalfUpdatesKnown == LogSpec => []HalfUpdateIsKnown
  <1>1. LogInit => MagicInv
    BY DEF LogInit, MagicInv, EmptyEntry, BlankEntry
  <1>2. LogSpec => [](IInv /\ MagicInv)
    BY <1>1, InitInv, NextInv, NextMagic, PTL DEF LogSpec
  <1>3. IInv /\ MagicInv => HalfUpdateIsKnown
    <2> SUFFICES ASSUME IInv, MagicInv, NEW t \in Tx, data[t] = "half",
                        outcome[t] \notin {"failed", "reported"}
                 PROVE  \/ \E s \in LogSlots : Incomplete(logDisk[s]) /\ logDisk[s].tx = t
                        \/ \E s \in fresh : logDisk[s].tx = t
      BY DEF HalfUpdateIsKnown
    <2>1. PICK s \in LogSlots : Recorded(logDisk[s]) /\ logDisk[s].tx = t
      BY DEF IInv, KnownInv
    <2>2. QED
      BY <2>1 DEF MagicInv, Recorded, Incomplete
  <1>4. QED
    BY <1>2, <1>3, PTL

-----------------------------------------------------------------------------
(***************************************************************************)
(* OkIsFinal: the entry of a call is in the slot of the call and nowhere   *)
(* else, and is gone when the call returns Ok.                             *)
(***************************************************************************)
OkInv ==
  /\ \A t \in Tx : outcome[t] = "uncalled" => \A s \in LogSlots : logDisk[s].tx # t
  /\ pc # "idle" => \A s \in LogSlots \ {slot} : logDisk[s].tx # cur
  /\ pc # "idle" => outcome[cur] # "ok"
  /\ \A t \in Tx : outcome[t] = "ok" =>
       data[t] = "new" /\ \A s \in LogSlots : logDisk[s].tx # t

LEMMA InterruptedTx ==
  ASSUME LogTypeOK, NEW s \in LogSlots, NEW e \in Entries, NEW d \in Interrupted(s, e)
  PROVE  d[s].tx \in {logDisk[s].tx, e.tx}
  <1>1. ASSUME NEW x \in TornWrites(logDisk[s], e) PROVE x.tx \in {logDisk[s].tx, e.tx}
    <2>1. logDisk[s] \in Entries
      BY DEF LogTypeOK
    <2>2. \/ x = [logDisk[s] EXCEPT !.magic = e.magic, !.crc = FALSE]
          \/ x = [logDisk[s] EXCEPT !.magic = e.magic, !.tx = e.tx, !.crc = FALSE]
          \/ x = [e EXCEPT !.seq = logDisk[s].seq, !.crc = FALSE]
          \/ x = [e EXCEPT !.crc = FALSE]
      BY <1>1 DEF TornWrites
    <2>3. QED
      BY <2>1, <2>2 DEF Entries
  <1>2. QED
    BY <1>1 DEF Interrupted, LogTypeOK

\* The only transaction a step can add to a sector of the log is that of the
\* call in progress, in its own slot.
LEMMA TxOnDisk ==
  ASSUME IInv, [LogNext]_logVars, NEW s \in LogSlots
  PROVE  \/ logDisk'[s].tx \in {logDisk[s].tx, NoTx}
         \/ pc # "idle" /\ s = slot /\ logDisk'[s].tx = cur
  <1> USE DEF IInv
  <1>1. EmptyEntry.tx = NoTx
    BY DEF EmptyEntry
  <1>2. ASSUME pc # "idle" PROVE EntryToWrite.tx \in {cur, NoTx} /\ slot \in LogSlots
    BY <1>1, <1>2 DEF EntryToWrite, CallInv, LogTypeOK, Entries
  <1>3. CASE UNCHANGED logDisk
    BY <1>3
  <1>4. CASE WriteIntent \/ Commit \/ Clear
    BY <1>2, <1>4 DEF WriteIntent, Commit, Clear, LogTypeOK
  <1>5. CASE LogWriteFails
    BY <1>2, <1>5, EntryToWriteType, InterruptedTx, InterruptedElsewhere DEF LogWriteFails
  <1>6. CASE RecoverSlot
    BY <1>1, <1>6 DEF RecoverSlot, LogTypeOK
  <1>7. ASSUME NEW r \in todo, logDisk' \in Interrupted(r, EmptyEntry)
        PROVE  logDisk'[s].tx \in {logDisk[s].tx, NoTx}
    BY <1>1, <1>7, EmptyEntryType, InterruptedTx, InterruptedElsewhere DEF LogTypeOK
  <1>8. CASE RecoveryFails
    BY <1>7, <1>8 DEF RecoveryFails
  <1>9. CASE LogCrash
    <2>1. CASE pc \in {"intent", "commit", "clear", "abort"}
      BY <1>2, <1>9, <2>1, EntryToWriteType, InterruptedTx, InterruptedElsewhere
      DEF LogCrash, DiskAfterCrash
    <2>2. CASE pc \notin {"intent", "commit", "clear", "abort"}
      BY <1>7, <1>9, <2>2 DEF LogCrash, DiskAfterCrash
    <2>3. QED
      BY <2>1, <2>2
  <1>10. CASE \E t \in Tx : BeginTransaction(t) \/ BeginRefused(t)
    BY <1>3, <1>10 DEF BeginTransaction, BeginRefused
  <1>11. CASE OperationWrites \/ OperationFails \/ LoadLog \/ RecoveryDone \/ UNCHANGED logVars
    BY <1>3, <1>11 DEF OperationWrites, OperationFails, LoadLog, RecoveryDone, logVars
  <1>12. QED
    BY <1>4, <1>5, <1>6, <1>8, <1>9, <1>10, <1>11 DEF LogNext

LEMMA NextOk == IInv /\ OkInv /\ [LogNext]_logVars => OkInv'
  <1> SUFFICES ASSUME IInv, OkInv, [LogNext]_logVars PROVE OkInv'
    OBVIOUS
  <1> USE DEF IInv
  <1>1. NoTx \notin Tx
    BY TransactionLogAssumption
  <1>2. ASSUME NEW t \in Tx, BeginTransaction(t) \/ BeginRefused(t) PROVE OkInv'
    BY <1>2 DEF BeginTransaction, BeginRefused, OkInv, LogTypeOK
  <1>3. CASE WriteIntent \/ OperationWrites \/ OperationFails \/ Commit
    BY <1>1, <1>3, TxOnDisk
    DEF WriteIntent, OperationWrites, OperationFails, Commit, OkInv, CallInv, LogTypeOK
  <1>4. CASE Clear
    <2>1. logDisk' = [logDisk EXCEPT ![slot] = EmptyEntry] /\ EmptyEntry.tx = NoTx
      BY <1>4 DEF Clear, EntryToWrite, EmptyEntry
    <2>2. QED
      BY <1>1, <1>4, <2>1 DEF Clear, Leave, OkInv, CallInv, LogTypeOK
  <1>5. CASE LogWriteFails
    BY <1>1, <1>5, TxOnDisk DEF LogWriteFails, Leave, OkInv, CallInv, LogTypeOK
  <1>6. CASE LoadLog
    BY <1>6 DEF LoadLog, OkInv, CallInv, LogTypeOK
  <1>7. CASE RecoverSlot \/ RecoveryFails \/ RecoveryDone
    BY <1>1, <1>7, TxOnDisk DEF RecoverSlot, RecoveryFails, RecoveryDone, OkInv, CallInv, LogTypeOK
  <1>8. CASE LogCrash
    BY <1>1, <1>8, TxOnDisk DEF LogCrash, OkInv, CallInv, LogTypeOK
  <1>9. CASE UNCHANGED logVars
    BY <1>9 DEF logVars, OkInv
  <1>10. QED
    BY <1>2, <1>3, <1>4, <1>5, <1>6, <1>7, <1>8, <1>9 DEF LogNext

\* The step form of OkIsFinal.
LEMMA OkStep ==
  ASSUME IInv, OkInv, [LogNext]_logVars, NEW t \in Tx, outcome[t] = "ok"
  PROVE  outcome'[t] = "ok" /\ data'[t] = "new"
  <1>1. pc # "idle" => t # cur
    BY DEF OkInv
  <1>2. data[t] = "new" /\ \A s \in LogSlots : logDisk[s].tx # t
    BY DEF OkInv
  <1>3. CASE UNCHANGED logVars
    BY <1>2, <1>3 DEF logVars
  <1>4. CASE LogNext
    BY <1>1, <1>2, <1>4
    DEF LogNext, BeginTransaction, BeginRefused, WriteIntent, OperationWrites, OperationFails,
        Commit, Clear, LogWriteFails, Leave, LoadLog, RecoverSlot, RecoveryFails,
        RecoveryDone, LogCrash, IInv, LogTypeOK
  <1>5. QED
    BY <1>3, <1>4

\* A call that returned Ok has done its whole update, and no later recovery
\* takes it for an incomplete one.
THEOREM OkStaysOk == LogSpec => OkIsFinal
  <1>1. LogInit => OkInv
    BY TransactionLogAssumption DEF LogInit, OkInv, EmptyEntry, BlankEntry
  <1>2. LogSpec => [](IInv /\ OkInv)
    BY <1>1, InitInv, NextInv, NextOk, PTL DEF LogSpec
  <1>3. IInv /\ OkInv /\ [LogNext]_logVars =>
          [\A t \in Tx : outcome[t] = "ok" => outcome'[t] = "ok" /\ data'[t] = "new"]_logVars
    BY OkStep
  <1>4. QED
    BY <1>2, <1>3, PTL DEF LogSpec, OkIsFinal

-----------------------------------------------------------------------------
(***************************************************************************)
(* The entries in order.  Sequence numbers stay below the counter and are  *)
(* never used twice, in memory and on disk: what a cut write leaves of two *)
(* entries has no CRC, so nobody trusts it.                                *)
(***************************************************************************)
Ordered(log) ==
  \A s, r \in LogSlots : s # r /\ Trusted(log[s]) /\ Trusted(log[r]) => log[s].seq # log[r].seq

SeqInv ==
  /\ sequence \in 1 .. SeqLimit
  /\ \A s \in LogSlots : logDisk[s].seq < sequence /\ mem[s].seq < sequence
  /\ Ordered(logDisk) /\ Ordered(mem)
  /\ pc # "idle" => \A r \in LogSlots \ {slot} : Trusted(logDisk[r]) => logDisk[r].seq # mem[slot].seq

\* What is left of entry x of slot s when a write of e to it is cut, or done.
LEMMA WriteLeaves ==
  ASSUME LogTypeOK, NEW s \in LogSlots, NEW e \in Entries, NEW d \in Interrupted(s, e)
  PROVE  /\ d[s].seq \in {logDisk[s].seq, e.seq} /\ d[s].state \in {logDisk[s].state, e.state}
         /\ Trusted(d[s]) => d[s] \in {logDisk[s], e}
  <1>1. logDisk[s] \in Entries
    BY DEF LogTypeOK
  <1>2. ASSUME NEW x \in TornWrites(logDisk[s], e)
        PROVE  x.seq \in {logDisk[s].seq, e.seq} /\ x.state \in {logDisk[s].state, e.state} /\ ~x.crc
    <2>1. \/ x = [logDisk[s] EXCEPT !.magic = e.magic, !.crc = FALSE]
          \/ x = [logDisk[s] EXCEPT !.magic = e.magic, !.tx = e.tx, !.crc = FALSE]
          \/ x = [e EXCEPT !.seq = logDisk[s].seq, !.crc = FALSE]
          \/ x = [e EXCEPT !.crc = FALSE]
      BY <1>2 DEF TornWrites
    <2>2. QED
      BY <1>1, <2>1 DEF Entries
  <1>3. QED
    BY <1>2 DEF Interrupted, LogTypeOK, Trusted

\* A step writes to the slot of the call in progress, or empties one.
LEMMA EntryOnDisk ==
  ASSUME IInv, [LogNext]_logVars, NEW s \in LogSlots
  PROVE  \/ /\ logDisk'[s].seq \in {logDisk[s].seq, 0} /\ logDisk'[s].state \in {logDisk[s].state, "Empty"}
            /\ Trusted(logDisk'[s]) => logDisk'[s] = logDisk[s]
         \/ /\ pc # "idle" /\ s = slot
            /\ logDisk'[s].seq \in {logDisk[s].seq, mem[s].seq, 0}
            /\ Trusted(logDisk'[s]) => logDisk'[s] = logDisk[s] \/ logDisk'[s].seq = mem[s].seq
  <1> USE DEF IInv
  <1>1. EmptyEntry.seq = 0 /\ EmptyEntry.state = "Empty" /\ ~Trusted(EmptyEntry)
    BY DEF EmptyEntry, Trusted
  <1>2. ASSUME pc # "idle"
        PROVE  /\ EntryToWrite \in Entries /\ slot \in LogSlots
               /\ EntryToWrite.seq \in {mem[slot].seq, 0}
               /\ Trusted(EntryToWrite) => EntryToWrite.seq = mem[slot].seq
    BY <1>1, EntryToWriteType DEF EntryToWrite, LogTypeOK, Entries
  <1>3. CASE UNCHANGED logDisk
    BY <1>3
  <1>4. CASE WriteIntent \/ Commit \/ Clear
    BY <1>2, <1>4 DEF WriteIntent, Commit, Clear, LogTypeOK
  <1>5. ASSUME pc # "idle", logDisk' \in Interrupted(slot, EntryToWrite)
        PROVE  \/ s # slot /\ logDisk'[s] = logDisk[s]
               \/ /\ s = slot /\ logDisk'[s].seq \in {logDisk[s].seq, mem[s].seq, 0}
                  /\ Trusted(logDisk'[s]) => logDisk'[s] = logDisk[s] \/ logDisk'[s].seq = mem[s].seq
    <2>1. CASE s # slot
      BY <1>2, <1>5, <2>1, InterruptedElsewhere
    <2>2. CASE s = slot
      BY <1>2, <1>5, <2>2, WriteLeaves
    <2>3. QED
      BY <2>1, <2>2
  <1>6. CASE LogWriteFails
    BY <1>5, <1>6 DEF LogWriteFails
  <1>7. CASE RecoverSlot
    BY <1>1, <1>7 DEF RecoverSlot, LogTypeOK
  <1>8. ASSUME NEW r \in todo, logDisk' \in Interrupted(r, EmptyEntry)
        PROVE  /\ logDisk'[s].seq \in {logDisk[s].seq, 0} /\ logDisk'[s].state \in {logDisk[s].state, "Empty"}
               /\ Trusted(logDisk'[s]) => logDisk'[s] = logDisk[s]
    BY <1>1, <1>8, EmptyEntryType, WriteLeaves, InterruptedElsewhere DEF LogTypeOK
  <1>9. CASE RecoveryFails
    BY <1>8, <1>9 DEF RecoveryFails
  <1>10. CASE LogCrash
    <2>1. CASE pc \in {"intent", "commit", "clear", "abort"}
      BY <1>5, <1>10, <2>1 DEF LogCrash, DiskAfterCrash
    <2>2. CASE pc \notin {"intent", "commit", "clear", "abort"}
      BY <1>3, <1>8, <1>10, <2>2 DEF LogCrash, DiskAfterCrash
    <2>3. QED
      BY <2>1, <2>2
  <1>11. CASE \E t \in Tx : BeginTransaction(t) \/ BeginRefused(t)
    BY <1>3, <1>11 DEF BeginTransaction, BeginRefused
  <1>12. CASE OperationWrites \/ OperationFails \/ LoadLog \/ RecoveryDone \/ UNCHANGED logVars
    BY <1>3, <1>12 DEF OperationWrites, OperationFails, LoadLog, RecoveryDone, logVars
  <1>13. QED
    BY <1>4, <1>6, <1>7, <1>9, <1>10, <1>11, <1>12 DEF LogNext

\* The slot of the call in progress is the only one whose entry in memory can
\* begin to be trusted, with the number that sequence had.
LEMMA SequenceStep ==
  ASSUME IInv, SeqInv, [LogNext]_logVars
  PROVE  /\ sequence' \in 1 .. SeqLimit
         /\ \A s \in LogSlots : logDisk'[s].seq < sequence'
         /\ \A s \in LogSlots : mem'[s].seq < sequence'
         /\ Ordered(mem')
  <1> USE DEF IInv
  <1>1. /\ sequence \in Nat /\ SeqLimit \in Nat \ {0}
        /\ \A s \in LogSlots : logDisk[s].seq \in Nat /\ mem[s].seq \in Nat
    BY TransactionLogAssumption DEF SeqInv, LogTypeOK, Entries, Seqs
  <1>2. \A s \in LogSlots : logDisk'[s].seq < sequence /\ logDisk'[s].seq \in Nat
    BY <1>1, EntryOnDisk DEF SeqInv
  <1>3. ASSUME sequence' = sequence,
               \A s \in LogSlots : /\ mem'[s].seq \in {mem[s].seq, 0}
                                   /\ Trusted(mem'[s]) => Trusted(mem[s]) /\ mem'[s].seq = mem[s].seq
        PROVE  /\ sequence' \in 1 .. SeqLimit
               /\ \A s \in LogSlots : logDisk'[s].seq < sequence' /\ mem'[s].seq < sequence'
               /\ Ordered(mem')
    BY <1>1, <1>2, <1>3 DEF SeqInv, Ordered
  <1>4. CASE UNCHANGED <<mem, sequence>>
    BY <1>3, <1>4
  <1>5. EmptyEntry.seq = 0 /\ ~Trusted(EmptyEntry)
    BY DEF EmptyEntry, Trusted
  <1>6. ASSUME NEW t \in Tx, BeginTransaction(t)
        PROVE  /\ sequence' \in 1 .. SeqLimit
               /\ \A s \in LogSlots : logDisk'[s].seq < sequence' /\ mem'[s].seq < sequence'
               /\ Ordered(mem')
    <2>1. PICK s \in LogSlots : mem' = [mem EXCEPT ![s] = [magic |-> mem[s].magic, tx |-> t, state |-> "Pending",
                                                        seq |-> sequence, crc |-> TRUE]]
      BY <1>6 DEF BeginTransaction, FreeSlots
    <2>2. sequence' = sequence + 1 /\ sequence < SeqLimit
      BY <1>6 DEF BeginTransaction
    <2>3. mem'[s].seq = sequence /\ \A r \in LogSlots \ {s} : mem'[r] = mem[r]
      BY <2>1 DEF LogTypeOK
    <2>4. \A r \in LogSlots : logDisk'[r].seq < sequence' /\ mem'[r].seq < sequence'
      BY <1>1, <1>2, <2>2, <2>3 DEF SeqInv
    <2>5. \A r \in LogSlots \ {s} : mem'[r].seq # mem'[s].seq
      BY <1>1, <2>3 DEF SeqInv
    <2>6. Ordered(mem')
      BY <2>3, <2>5 DEF SeqInv, Ordered
    <2>7. QED
      BY <1>1, <2>2, <2>4, <2>6 DEF SeqInv
  <1>7. CASE WriteIntent \/ Commit \/ LogWriteFails
    <2>1. sequence' = sequence
      BY <1>7 DEF WriteIntent, Commit, LogWriteFails
    <2>2. \/ mem' = mem
          \/ mem' = [mem EXCEPT ![slot].state = "InProgress"]
          \/ mem' = [mem EXCEPT ![slot].state = "Committed"]
      BY <1>7 DEF WriteIntent, Commit, LogWriteFails
    <2>3. mem[slot].state # "Empty" /\ slot \in LogSlots
      BY <1>7 DEF WriteIntent, Commit, LogWriteFails, CallInv, LogTypeOK
    <2>4. \A s \in LogSlots : mem'[s].seq = mem[s].seq /\ (Trusted(mem'[s]) => Trusted(mem[s]))
      BY SMTT(20), <2>2, <2>3 DEF LogTypeOK, Entries, Trusted
    <2>5. QED
      BY <1>3, <2>1, <2>4
  <1>8. CASE Clear \/ RecoverSlot \/ LogCrash
    <2>1. sequence' = sequence /\ \A s \in LogSlots : mem'[s] \in {mem[s], EmptyEntry}
      BY <1>8 DEF Clear, RecoverSlot, LogCrash, LogTypeOK
    <2>2. QED
      BY <1>3, <1>5, <2>1
  <1>9. CASE LoadLog
    <2>1. mem' = logDisk /\ logDisk' = logDisk
      BY <1>9 DEF LoadLog
    <2>2. PICK s \in LogSlots : /\ \A r \in LogSlots : logDisk[r].seq <= logDisk[s].seq
                                /\ sequence' = NextSequence(logDisk[s].seq)
      BY <1>9 DEF LoadLog
    <2>3. logDisk[s].seq < SeqLimit
      BY <1>1 DEF SeqInv
    <2>4. sequence' = logDisk[s].seq + 1
      BY <1>1, <2>2, <2>3 DEF NextSequence
    <2>5. QED
      BY <1>1, <2>1, <2>2, <2>3, <2>4 DEF SeqInv
  <1>10. OperationWrites \/ OperationFails \/ RecoveryFails \/ RecoveryDone \/ UNCHANGED logVars
         => UNCHANGED <<mem, sequence>>
    BY DEF OperationWrites, OperationFails, RecoveryFails, RecoveryDone, logVars
  <1>11. \A t \in Tx : BeginRefused(t) => UNCHANGED <<mem, sequence>>
    BY DEF BeginRefused
  <1>12. QED
    BY <1>4, <1>6, <1>7, <1>8, <1>9, <1>10, <1>11 DEF LogNext

\* Entries on disk keep their order, and that of the call in progress differs
\* from those of the other slots.
LEMMA DiskOrder ==
  ASSUME IInv, SeqInv, [LogNext]_logVars
  PROVE  /\ Ordered(logDisk')
         /\ pc' # "idle" => \A r \in LogSlots \ {slot'} : Trusted(logDisk'[r]) => logDisk'[r].seq # mem'[slot'].seq
  <1> USE DEF IInv
  <1>1. \A s \in LogSlots : s # slot \/ pc = "idle" => (Trusted(logDisk'[s]) => logDisk'[s] = logDisk[s])
    BY EntryOnDisk
  <1>2. pc # "idle" /\ Trusted(logDisk'[slot]) => logDisk'[slot] = logDisk[slot] \/ logDisk'[slot].seq = mem[slot].seq
    BY EntryOnDisk DEF LogTypeOK
  <1>3. Ordered(logDisk')
    BY <1>1, <1>2 DEF SeqInv, Ordered
  <1>4. ASSUME pc' # "idle", pc # "idle", NEW r \in LogSlots \ {slot'}, Trusted(logDisk'[r])
        PROVE  logDisk'[r].seq # mem'[slot'].seq
    <2>1. WriteIntent \/ OperationWrites \/ OperationFails \/ Commit \/ UNCHANGED logVars
      <3>1. volume = "up"
        BY <1>4 DEF CallInv
      <3>2. ~LoadLog /\ ~RecoverSlot /\ ~RecoveryFails /\ ~RecoveryDone
        BY <3>1 DEF LoadLog, RecoverSlot, RecoveryFails, RecoveryDone
      <3>3. ~Clear /\ ~LogWriteFails /\ ~LogCrash
        BY <1>4 DEF Clear, LogWriteFails, Leave, LogCrash
      <3>4. \A t \in Tx : ~BeginTransaction(t) /\ ~BeginRefused(t)
        BY <1>4 DEF BeginTransaction, BeginRefused
      <3>5. QED
        BY <3>2, <3>3, <3>4 DEF LogNext
    <2>2. /\ slot' = slot
          /\ \/ mem' = mem
             \/ mem' = [mem EXCEPT ![slot].state = "InProgress"]
             \/ mem' = [mem EXCEPT ![slot].state = "Committed"]
      BY <2>1 DEF WriteIntent, OperationWrites, OperationFails, Commit, logVars
    <2>3. mem'[slot].seq = mem[slot].seq
      BY <2>2 DEF LogTypeOK, Entries
    <2>4. QED
      BY <1>1, <1>4, <2>2, <2>3 DEF SeqInv
  <1>5. ASSUME pc' # "idle", pc = "idle", NEW r \in LogSlots \ {slot'}, Trusted(logDisk'[r])
        PROVE  logDisk'[r].seq # mem'[slot'].seq
    <2>1. PICK t \in Tx : BeginTransaction(t)
      BY <1>5 DEF LogNext, BeginRefused, WriteIntent, OperationWrites,
         OperationFails, Commit, Clear, LogWriteFails, Leave, LoadLog, RecoverSlot, RecoveryFails,
         RecoveryDone, LogCrash, logVars
    <2>2. mem'[slot'].seq = sequence /\ logDisk' = logDisk
      BY <2>1 DEF BeginTransaction, FreeSlots, LogTypeOK
    <2>3. logDisk[r].seq < sequence /\ logDisk[r].seq \in Nat /\ sequence \in Nat
      BY DEF SeqInv, LogTypeOK, Entries, Seqs
    <2>4. QED
      BY <2>2, <2>3
  <1>6. QED
    BY <1>3, <1>4, <1>5

\* Of the entries in memory that a reader can trust no two carry the same
\* number, and begin_transaction has a higher one to give: load continues from
\* the highest number it finds, whatever power losses and failed writes left.
THEOREM EntriesAreOrdered == LogSpec => []SequenceOrdersEntries
  <1>1. LogInit => SeqInv
    BY TransactionLogAssumption DEF LogInit, SeqInv, Ordered, EmptyEntry, BlankEntry, Trusted
  <1>2. IInv /\ SeqInv /\ [LogNext]_logVars => SeqInv'
    BY SequenceStep, DiskOrder DEF SeqInv, Ordered, Trusted
  <1>3. SeqInv => SequenceOrdersEntries
    BY DEF SeqInv, Ordered, SequenceOrdersEntries
  <1>4. QED
    BY <1>1, <1>2, <1>3, InitInv, NextInv, PTL DEF LogSpec

-----------------------------------------------------------------------------
(***************************************************************************)
(* Slots lost.  The slots in use, in memory and on disk, are at most one   *)
(* for each power loss and each I/O error, that of the call in progress    *)
(* apart.                                                                  *)
(***************************************************************************)
UsedOnDisk == {s \in LogSlots : logDisk[s].state # "Empty"}
Mine == IF pc = "idle" THEN {} ELSE {slot}

LostInv ==
  /\ Cardinality(Used \ Mine) <= logCrashes + logFaults
  /\ Cardinality(UsedOnDisk \ Mine) <= logCrashes + logFaults

LEMMA SlotsFinite ==
  ASSUME NEW S \in SUBSET LogSlots
  PROVE  IsFiniteSet(S) /\ Cardinality(S) \in Nat
  <1>1. IsFiniteSet(LogSlots)
    BY FS_Interval, TransactionLogAssumption DEF LogSlots
  <1>2. QED
    BY <1>1, FS_Subset, FS_CardinalityType

LEMMA NoMore ==
  ASSUME NEW S \in SUBSET LogSlots, NEW R \in SUBSET LogSlots, NEW M \in SUBSET LogSlots, R \subseteq S \cup M
  PROVE  /\ Cardinality(R \ M) <= Cardinality(S \ M)
         /\ \A x \in LogSlots : M \subseteq {x} => Cardinality(R) <= Cardinality(S \ M) + 1
  <1>1. Cardinality(R \ M) <= Cardinality(S \ M)
    <2>1. R \ M \subseteq S \ M
      OBVIOUS
    <2>2. QED
      BY <2>1, SlotsFinite, FS_Subset
  <1>2. ASSUME NEW x \in LogSlots, M \subseteq {x} PROVE Cardinality(R) <= Cardinality(S \ M) + 1
    <2>1. R \subseteq (S \ M) \cup {x}
      BY <1>2
    <2>2. Cardinality(R) <= Cardinality((S \ M) \cup {x})
      BY <2>1, SlotsFinite, FS_Subset
    <2>3. CASE x \in S \ M
      <3>1. (S \ M) \cup {x} = S \ M
        BY <2>3
      <3>2. Cardinality(S \ M) \in Nat /\ Cardinality(R) \in Nat
        BY SlotsFinite
      <3>3. QED
        BY <2>2, <3>1, <3>2
    <2>4. CASE x \notin S \ M
      BY <2>2, <2>4, SlotsFinite, FS_AddElement
    <2>5. QED
      BY <2>3, <2>4
  <1>3. QED
    BY <1>1, <1>2

LEMMA NextLost == IInv /\ LostInv /\ [LogNext]_logVars => LostInv'
  <1> SUFFICES ASSUME IInv, LostInv, [LogNext]_logVars PROVE LostInv'
    OBVIOUS
  <1> USE DEF IInv
  <1>1. UsedOnDisk' \subseteq UsedOnDisk \cup Mine
    BY EntryOnDisk DEF UsedOnDisk, Mine, Trusted
  <1>2. EmptyEntry.state = "Empty" /\ slot \in LogSlots /\ Mine \subseteq {slot}
    BY DEF EmptyEntry, LogTypeOK, Mine
  <1> DEFINE m == logCrashes + logFaults
             n == logCrashes' + logFaults'
  <1>3. m \in Nat /\ n \in Nat
    BY NextType, TransactionLogAssumption DEF LogTypeOK
  <1>4. Used \subseteq LogSlots /\ UsedOnDisk \subseteq LogSlots /\ Used' \subseteq LogSlots /\ UsedOnDisk' \subseteq LogSlots
    BY DEF Used, UsedOnDisk
  <1>5. /\ Cardinality(Used \ Mine) \in Nat /\ Cardinality(UsedOnDisk \ Mine) \in Nat
        /\ Cardinality(Used' \ Mine') \in Nat /\ Cardinality(UsedOnDisk' \ Mine') \in Nat
    BY <1>4, SlotsFinite
  <1>18. Cardinality(Used \ Mine) <= m /\ Cardinality(UsedOnDisk \ Mine) <= m
    BY DEF LostInv
  <1>19. Cardinality(Used' \ Mine') <= n /\ Cardinality(UsedOnDisk' \ Mine') <= n => LostInv'
    BY DEF LostInv
  <1> HIDE DEF m, n
  <1>6. ASSUME Mine' = Mine, Used' \subseteq Used \cup Mine, n \in {m, m + 1} PROVE LostInv'
    <2>1. /\ Cardinality(Used' \ Mine') <= Cardinality(Used \ Mine)
          /\ Cardinality(UsedOnDisk' \ Mine') <= Cardinality(UsedOnDisk \ Mine)
      BY <1>1, <1>2, <1>4, <1>6, NoMore
    <2>2. m <= n
      BY <1>3, <1>6
    <2>3. QED
      BY <1>3, <1>5, <1>18, <1>19, <2>1, <2>2
  <1>7. ASSUME Mine' = {}, Used' \subseteq Used \cup Mine, n = m + 1 PROVE LostInv'
    <2>1. /\ Cardinality(Used') <= Cardinality(Used \ Mine) + 1
          /\ Cardinality(UsedOnDisk') <= Cardinality(UsedOnDisk \ Mine) + 1
      BY <1>1, <1>2, <1>4, <1>7, NoMore
    <2>2. Used' \ Mine' = Used' /\ UsedOnDisk' \ Mine' = UsedOnDisk'
      BY <1>7
    <2>3. QED
      BY <1>3, <1>5, <1>7, <1>18, <1>19, <2>1, <2>2
  <1>8. ASSUME NEW t \in Tx, BeginTransaction(t) PROVE LostInv'
    <2>1. PICK s \in LogSlots : /\ mem[s].state = "Empty" /\ slot' = s
                                /\ \A r \in LogSlots \ {s} : mem'[r] = mem[r]
      BY <1>8 DEF BeginTransaction, FreeSlots, LogTypeOK
    <2>2. Mine = {} /\ Mine' = {s} /\ logDisk' = logDisk /\ UNCHANGED <<logCrashes, logFaults>>
      BY <1>8, <2>1 DEF BeginTransaction, Mine
    <2>3. Used' \ Mine' = Used \ Mine
      BY <2>1, <2>2 DEF Used
    <2>4. UsedOnDisk' \ Mine' = UsedOnDisk \ {s} /\ UsedOnDisk \ Mine = UsedOnDisk
      BY <2>2 DEF UsedOnDisk
    <2>5. Cardinality(UsedOnDisk \ {s}) <= Cardinality(UsedOnDisk)
      BY <1>4, SlotsFinite, FS_Subset
    <2>6. n = m
      BY <2>2 DEF m, n
    <2>7. Cardinality(UsedOnDisk' \ Mine') <= m
      BY <1>3, <1>4, <1>5, <1>18, <2>4, <2>5, SlotsFinite
    <2>8. QED
      BY <1>18, <1>19, <2>3, <2>6, <2>7
  <1>9. CASE WriteIntent \/ Commit
    <2>1. \/ mem' = [mem EXCEPT ![slot].state = "InProgress"]
          \/ mem' = [mem EXCEPT ![slot].state = "Committed"]
      BY <1>9 DEF WriteIntent, Commit
    <2>2. Used' \subseteq Used \cup {slot} /\ Mine = {slot}
      BY <1>9, <2>1 DEF Used, Mine, WriteIntent, Commit, LogTypeOK
    <2>3. UNCHANGED <<slot, logCrashes, logFaults>> /\ pc' # "idle"
      BY <1>9 DEF WriteIntent, Commit
    <2>4. n = m /\ Mine' = Mine
      BY <2>2, <2>3 DEF Mine, m, n
    <2>5. QED
      BY <1>6, <2>2, <2>4
  <1>10. CASE OperationWrites \/ OperationFails
    <2>1. mem' = mem /\ slot' = slot /\ logCrashes' = logCrashes /\ logFaults' \in {logFaults, logFaults + 1}
          /\ pc # "idle" /\ pc' # "idle"
      BY <1>10 DEF OperationWrites, OperationFails
    <2>2. n \in {m, m + 1}
      <3>1. n = logCrashes + logFaults \/ n = logCrashes + (logFaults + 1)
        BY <2>1 DEF n
      <3>2. logCrashes + (logFaults + 1) = m + 1
        BY TransactionLogAssumption DEF LogTypeOK, m
      <3>3. QED
        BY <3>1, <3>2 DEF m
    <2>3. Mine' = Mine /\ Used' = Used
      BY <2>1 DEF Mine, Used
    <2>4. QED
      BY <1>6, <2>2, <2>3
  <1>11. CASE Clear
    <2>1. logDisk' = [logDisk EXCEPT ![slot] = EmptyEntry] /\ mem' = [mem EXCEPT ![slot] = EmptyEntry]
      BY <1>11 DEF Clear, EntryToWrite
    <2>2. Mine = {slot} /\ Mine' = {} /\ UNCHANGED <<logCrashes, logFaults>>
      BY <1>11 DEF Clear, Leave, Mine
    <2>3. Used' \ Mine' = Used \ Mine /\ UsedOnDisk' \ Mine' = UsedOnDisk \ Mine
      BY <1>2, <2>1, <2>2 DEF Used, UsedOnDisk, LogTypeOK
    <2>4. QED
      BY <1>18, <1>19, <2>2, <2>3 DEF m, n
  <1>12. CASE LogWriteFails
    <2>1. mem' = mem \/ mem' = [mem EXCEPT ![slot].state = "Committed"]
      BY <1>12 DEF LogWriteFails
    <2>2. Used' \subseteq Used \cup {slot} /\ Mine = {slot} /\ Mine' = {}
      BY <1>12, <2>1 DEF Used, Mine, LogWriteFails, Leave, LogTypeOK
    <2>3. logCrashes' = logCrashes /\ logFaults' = logFaults + 1
      BY <1>12 DEF LogWriteFails
    <2>4. n = m + 1
      <3>1. n = logCrashes + (logFaults + 1)
        BY <2>3 DEF n
      <3>2. QED
        BY <3>1, TransactionLogAssumption DEF LogTypeOK, m
    <2>5. QED
      BY <1>7, <2>2, <2>4
  <1>13. CASE LoadLog
    <2>1. Mine = {} /\ Mine' = {} /\ Used' = UsedOnDisk /\ UsedOnDisk' = UsedOnDisk
          /\ UNCHANGED <<logCrashes, logFaults>>
      BY <1>13 DEF LoadLog, Mine, CallInv, Used, UsedOnDisk
    <2>2. Used' \ Mine' = UsedOnDisk \ Mine /\ UsedOnDisk' \ Mine' = UsedOnDisk \ Mine
      BY <2>1
    <2>3. n = m
      BY <2>1 DEF m, n
    <2>4. QED
      BY <1>18, <1>19, <2>2, <2>3
  <1>14. CASE RecoverSlot \/ RecoveryFails \/ RecoveryDone
    <2>1. pc = "idle" /\ pc' = pc
      BY <1>14 DEF RecoverSlot, RecoveryFails, RecoveryDone, CallInv
    <2>2. \A s \in LogSlots : mem'[s] \in {mem[s], EmptyEntry}
      BY <1>14 DEF RecoverSlot, RecoveryFails, RecoveryDone, LogTypeOK
    <2>3. logCrashes' = logCrashes /\ logFaults' \in {logFaults, logFaults + 1}
      BY <1>14 DEF RecoverSlot, RecoveryFails, RecoveryDone
    <2>4. Used' \subseteq Used
      BY <1>2, <2>2 DEF Used
    <2>5. n \in {m, m + 1}
      <3>1. n = logCrashes + logFaults \/ n = logCrashes + (logFaults + 1)
        BY <2>3 DEF n
      <3>2. logCrashes + (logFaults + 1) = m + 1
        BY TransactionLogAssumption DEF LogTypeOK, m
      <3>3. QED
        BY <3>1, <3>2 DEF m
    <2>6. Mine' = Mine
      BY <2>1 DEF Mine
    <2>7. QED
      BY <1>6, <2>4, <2>5, <2>6
  <1>15. CASE LogCrash
    <2>1. mem' = [s \in LogSlots |-> EmptyEntry] /\ pc' = "idle" /\ logCrashes' = logCrashes + 1 /\ logFaults' = logFaults
      BY <1>15 DEF LogCrash
    <2>2. Used' = {} /\ Mine' = {}
      BY <1>2, <2>1 DEF Used, Mine
    <2>3. n = m + 1
      <3>1. n = (logCrashes + 1) + logFaults
        BY <2>1 DEF n
      <3>2. QED
        BY <3>1, TransactionLogAssumption DEF LogTypeOK, m
    <2>4. QED
      BY <1>7, <2>2, <2>3
  <1>16. CASE (\E t \in Tx : BeginRefused(t)) \/ UNCHANGED logVars
    <2>1. UNCHANGED <<mem, pc, slot, logCrashes, logFaults>>
      BY <1>16 DEF BeginRefused, logVars
    <2>2. n = m /\ Mine' = Mine /\ Used' = Used
      BY <2>1 DEF Mine, Used, m, n
    <2>3. QED
      BY <1>6, <2>2
  <1>17. QED
    BY <1>8, <1>9, <1>10, <1>11, <1>12, <1>13, <1>14, <1>15, <1>16 DEF LogNext

\* The log fills only through trouble: between calls the slots in use are at
\* most one for each power loss and each I/O error there has been, for any
\* number of slots, whatever recovery did meanwhile.
THEOREM SlotsComeBack == LogSpec => []SlotsLostOnlyToFaults
  <1>1. LogInit => LostInv
    <2> SUFFICES ASSUME LogInit PROVE LostInv
      OBVIOUS
    <2>1. Used = {} /\ UsedOnDisk = {} /\ logCrashes = 0 /\ logFaults = 0
      BY DEF LogInit, Used, UsedOnDisk, EmptyEntry, BlankEntry
    <2>2. QED
      BY <2>1, FS_EmptySet DEF LostInv
  <1>2. LostInv => SlotsLostOnlyToFaults
    <2> SUFFICES ASSUME LostInv, pc = "idle" PROVE Cardinality(Used) <= logCrashes + logFaults
      BY DEF SlotsLostOnlyToFaults
    <2>1. Used \ Mine = Used
      BY DEF Mine
    <2>2. QED
      BY <2>1 DEF LostInv
  <1>3. QED
    BY <1>1, <1>2, InitInv, NextInv, NextLost, PTL DEF LogSpec
=============================================================================

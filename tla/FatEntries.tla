----------------------------- MODULE FatEntries -----------------------------
(***************************************************************************)
(* The bytes of a FAT (fatrs/src/table.rs): how entries of 12, 16 and 32   *)
(* bits are read, written, searched and counted.  Two entries of a FAT12   *)
(* share a byte, so a write rewrites half of a neighbour; its searches     *)
(* read on and carry that half along.  An entry of a FAT32 has four bits   *)
(* that belong to nobody.  FatTable takes entries as whole values: what    *)
(* this module is about is that they are.                                  *)
(*                                                                         *)
(* Left out: the cluster numbers from 16^7 - 16 on, which a FAT32 reads as *)
(* Bad whatever they hold (more clusters than any run can have).           *)
(***************************************************************************)
EXTENDS Integers, FiniteSets

CONSTANTS
  Total,     \* clusters of the volume
  Spare      \* entries of the table past the last cluster

\* Checked where the constants get their values.
EntriesAssumption == Total \in Nat \ {0} /\ Spare \in Nat

VARIABLES
  bits,      \* bits_per_fat_entry
  bytes,     \* the table on the disk
  entries,   \* what each entry was last given: FatValue
  marks,     \* the flags the last user of the volume left in entry 1
  upper      \* the upper four bits of FAT32 entries as they were found

tableVars == <<bits, bytes, entries, marks, upper>>

Clusters == 2 .. Total + 1
All == 0 .. Total + 1 + Spare
Size == ((Total + 2 + Spare) * bits + 7) \div 8
Media == 248

\* The largest raw value of an entry, its upper bits left aside.
Full == CASE bits = 12 -> 4095 [] bits = 16 -> 65535 [] bits = 32 -> 268435455

FatValue == [kind : {"Free", "Bad", "EndOfChain"}] \cup [kind : {"Data"}, next : Clusters]
Encode(v) ==
  CASE v.kind = "Free" -> 0
    [] v.kind = "Bad" -> Full - 8
    [] v.kind = "EndOfChain" -> Full
    [] v.kind = "Data" -> v.next
Decode(raw) ==
  CASE raw = 0 -> [kind |-> "Free"]
    [] raw = Full - 8 -> [kind |-> "Bad"]
    [] raw > Full - 8 -> [kind |-> "EndOfChain"]
    [] OTHER -> [kind |-> "Data", next |-> raw]
-----------------------------------------------------------------------------
\* read_u16_le, and read_u32_le less its upper four bits.
Word(b, i) == b[i] + 256 * b[i + 1]
Long(b, i) == Word(b, i) + 65536 * (b[i + 2] + 256 * (b[i + 3] % 16))
Upper(b, i) == b[i + 3] \div 16

Packed(c) == c + (c \div 2)      \* where a FAT12 entry begins
OfPacked(c, w) == IF c % 2 = 0 THEN w % 4096 ELSE w \div 16

GetRaw(b, c) ==
  CASE bits = 12 -> OfPacked(c, Word(b, Packed(c)))
    [] bits = 16 -> Word(b, 2 * c)
    [] bits = 32 -> Long(b, 4 * c)

WithWord(b, i, w) == [b EXCEPT ![i] = w % 256, ![i + 1] = w \div 256]

\* Mutant: the word is written whole.
MutSetPacked(b, c, raw) == WithWord(b, Packed(c), IF c % 2 = 0 THEN raw ELSE 16 * raw)
\* set_raw of Fat12: the half of the word that is another entry's is kept.
SetPacked(b, c, raw) ==
  LET old == Word(b, Packed(c)) IN
  WithWord(b, Packed(c),
           IF c % 2 = 0 THEN 4096 * (old \div 4096) + raw ELSE (old % 16) + 16 * raw)

SetRaw(b, c, raw) ==
  CASE bits = 12 -> SetPacked(b, c, raw)
    [] bits = 16 -> WithWord(b, 2 * c, raw)
    [] bits = 32 -> [WithWord(WithWord(b, 4 * c, raw % 65536), 4 * c + 2, raw \div 65536)
                       EXCEPT ![4 * c + 3] = (@ % 16) + 16 * Upper(b, 4 * c)]

Get(c) == Decode(GetRaw(bytes, c))
-----------------------------------------------------------------------------
\* What the search of Fat12 holds at each cluster from start on: the word, and
\* where it will read next.
Rolling(start, end) ==
  LET at[c \in start .. end - 1] ==
        IF c = start THEN [word |-> Word(bytes, Packed(c)), next |-> Packed(c) + 2]
        ELSE LET last == at[c - 1] IN
             IF c % 2 = 0 THEN [word |-> Word(bytes, last.next), next |-> last.next + 2]
             ELSE [word |-> (last.word \div 256) + 256 * bytes[last.next], next |-> last.next + 1]
  IN  at

\* find_free: the clusters it would stop at, of those before end.
FoundFree(start, end) ==
  IF bits = 12
  THEN LET at == Rolling(start, end)
       IN  {c \in start .. end - 1 : OfPacked(c, at[c].word) = 0}
  ELSE {c \in start .. end - 1 : GetRaw(bytes, c) = 0}

\* count_free of Fat12: an even cluster reads two bytes, an odd one the third.
CountedPacked ==
  LET at[c \in Clusters] ==
        LET from == IF c = 2 THEN 3 ELSE at[c - 1].next IN
        IF c % 2 = 0
        THEN LET w == Word(bytes, from)
             IN  [read |-> w, value |-> w % 4096, next |-> from + 2]
        ELSE [read |-> bytes[from], next |-> from + 1,
              value |-> 256 * bytes[from] + (at[c - 1].read \div 4096)]
  IN  {c \in Clusters : at[c].value = 0}
CountFree ==
  Cardinality(IF bits = 12 THEN CountedPacked ELSE {c \in Clusters : GetRaw(bytes, c) = 0})

\* read_fat_flags: a flag is raised by clearing its bit of entry 1.
FlagBit(m) == IF m = "dirty" THEN (IF bits = 16 THEN 32768 ELSE 134217728)
              ELSE (IF bits = 16 THEN 16384 ELSE 67108864)
Flags == IF bits = 12 THEN {}
         ELSE {m \in {"dirty", "io_error"} : (GetRaw(bytes, 1) \div FlagBit(m)) % 2 = 0}
-----------------------------------------------------------------------------
\* format_fat of a table of zeros: the first two entries, and the entries past
\* the last cluster, which no file may take.
Zeros == [i \in 0 .. Size - 1 |-> 0]
First ==
  CASE bits = 12 -> [Zeros EXCEPT ![0] = Media, ![1] = 255, ![2] = 255]
    [] bits = 16 -> [Zeros EXCEPT ![0] = Media, ![1] = 255, ![2] = 255, ![3] = 255]
    [] bits = 32 -> [i \in DOMAIN Zeros |->
                       CASE i = 0 -> Media [] i = 3 -> 15 [] i \in 1 .. 7 -> 255 [] OTHER -> 0]
FormattedTable ==
  LET mark[c \in Total + 1 .. Total + 1 + Spare] ==
        IF c = Total + 1 THEN First ELSE SetRaw(mark[c - 1], c, Full)
  IN  mark[Total + 1 + Spare]

\* Another system has since raised flags and used the upper bits.
Lowered == (IF "dirty" \in marks THEN FlagBit("dirty") ELSE 0)
           + (IF "io_error" \in marks THEN FlagBit("io_error") ELSE 0)
Found ==
  LET flagged == SetRaw(FormattedTable, 1, Full - Lowered) IN
  IF bits # 32 THEN flagged
  ELSE [i \in DOMAIN flagged |->
          IF i % 4 = 3 /\ i \div 4 \in Clusters THEN flagged[i] + 16 * upper[i \div 4]
          ELSE flagged[i]]

\* A cluster number is none of the marks (FatType::from_clusters), and no FAT32
\* reaches the numbers that are left out.
NumbersFit == Total + 1 < Full - 8 /\ (bits = 32 => Total + 1 + Spare < Full - 15)

TableInit ==
  /\ bits \in {12, 16, 32} /\ NumbersFit
  /\ marks \in IF bits = 12 THEN {{}} ELSE SUBSET {"dirty", "io_error"}
  /\ upper \in [Clusters -> IF bits = 32 THEN {0, 9} ELSE {0}]
  /\ bytes = Found
  /\ entries = [c \in Clusters |-> [kind |-> "Free"]]

\* write_fat, whichever operation asks for it.
Write(c, v) ==
  /\ bytes' = SetRaw(bytes, c, Encode(v))
  /\ entries' = [entries EXCEPT ![c] = v]
  /\ UNCHANGED <<bits, marks, upper>>

TableNext == \E c \in Clusters, v \in FatValue : Write(c, v)

TableSpec == TableInit /\ [][TableNext]_tableVars
-----------------------------------------------------------------------------
\* Each entry reads as it was last written, whatever was written to the entry
\* that shares a byte with it (get, set).
ReadsBack == \A c \in Clusters : Get(c) = entries[c]

\* A search stops at the free entries of its range, and only at them; the count
\* is their number (find_free, count_free).
SearchIsExact ==
  /\ \A start, end \in Clusters \cup {Total + 2} :
       start < end => FoundFree(start, end) = {c \in start .. end - 1 : entries[c].kind = "Free"}
  /\ CountFree = Cardinality({c \in Clusters : entries[c].kind = "Free"})

\* The entries past the last cluster stay taken, the flags and the upper bits of
\* a FAT32 entry stay as they were found (format_fat, read_fat_flags, set of Fat32).
RestIsKept ==
  /\ \A c \in All \ (0 .. Total + 1) : Get(c) = [kind |-> "EndOfChain"]
  /\ Flags = marks
  /\ bits = 32 => \A c \in Clusters : Upper(bytes, 4 * c) = upper[c]

\* The bytes of a FAT are a table of values (FatTrait), for one caller at a time.  Writes of
\* two neighbours that interleave over the byte they share are those of ClusterAlloc
\* (Packed).
TableIsExact == ReadsBack /\ SearchIsExact /\ RestIsKept
=============================================================================

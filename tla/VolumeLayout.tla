---------------------------- MODULE VolumeLayout ----------------------------
(***************************************************************************)
(* format_volume and FileSystem::new of fatrs: the geometry of a volume    *)
(* (fatrs/src/boot_sector.rs), what is read of it when it is mounted, and  *)
(* the sectors that the transaction log and the audit log take             *)
(* (fatrs/src/fs.rs, audit.rs).                                            *)
(*                                                                         *)
(* Sizes are in sectors where the code computes with bytes: both are       *)
(* powers of two apart, and no rounding differs.  Labels, boot code and    *)
(* the geometry of the drive are left out; the writes of format_volume     *)
(* are one step.                                                           *)
(***************************************************************************)
EXTENDS Integers

CONSTANTS
  Sizes,       \* total_sectors of the devices to be explored
  SectorSizes, \* bytes_per_sector
  ClusterSizes,\* bytes_per_cluster asked for, 0 for the default
  RootSizes,   \* max_root_dir_entries
  Reservations,\* reserved_sectors asked for, 0 for the default, -1 for
               \* with_transaction_log
  Configs,     \* FsOptions: [log, audit, audited], see Mount
  MaxPending   \* bound: entries of the audit log written at once (16 in the code)

ASSUME LayoutAssumption ==
  /\ Sizes \subseteq Nat \ {0}
  /\ SectorSizes \subseteq {512, 1024, 2048, 4096}
  /\ ClusterSizes \subseteq Nat
  /\ RootSizes \subseteq Nat
  /\ Reservations \subseteq Int

Types == {12, 16, 32}     \* FatType, by the bits of an entry
NoType == 0
Failed == [outcome |-> "invalid"]
Panicked == [outcome |-> "panic"]
Max2(a, b) == IF a > b THEN a ELSE b
Min2(a, b) == IF a < b THEN a ELSE b
CeilDiv(a, b) == (a + b - 1) \div b

VARIABLES
  request,  \* the device and the FormatVolumeOptions
  volume,   \* the boot sector on the device, once formatted
  mounted,  \* what FileSystem::new computed from it
  damaged   \* regions of the volume that a log was written over

vars == <<request, volume, mounted, damaged>>

(***************************************************************************)
(* Choice of the cluster size (estimate_fat_type, determine_bytes_per_     *)
(* cluster).                                                               *)
(***************************************************************************)
FromClusters(n) == IF n < 4085 THEN 12 ELSE IF n < 65525 THEN 16 ELSE 32
MaxClusters(t) == CASE t = 12 -> 4084 [] t = 16 -> 65524 [] t = 32 -> 268435444

NextPowerOfTwo(n) ==
  LET k == CHOOSE i \in 0 .. 30 : 2^i >= n /\ \A j \in 0 .. i - 1 : 2^j < n IN 2^k
MB(n, bps) == n * (1048576 \div bps)
GB(n, bps) == n * (1073741824 \div bps)

EstimateFatType(total, bps) ==
  IF total < MB(4, bps) THEN 12 ELSE IF total < MB(512, bps) THEN 16 ELSE 32

BytesPerCluster(total, bps, asked) ==
  LET t == IF asked = NoType THEN EstimateFatType(total, bps) ELSE asked
      p == NextPowerOfTwo(total)
      size == CASE t = 12 -> (p \div MB(1, bps)) * 512
                [] t = 16 -> IF total <= MB(16, bps) THEN 1024
                             ELSE IF total <= MB(128, bps) THEN 2048
                             ELSE (p \div MB(64, bps)) * 1024
                [] t = 32 -> IF total <= MB(260, bps) THEN 512
                             ELSE IF total <= GB(8, bps) THEN 4096
                             ELSE (p \div GB(2, bps)) * 1024 IN
    Min2(Max2(size, bps), 32768)

(***************************************************************************)
(* Geometry for one FAT type (determine_sectors_per_fat, try_fs_geometry): *)
(* t0 sectors are left for the FATs and the data.                          *)
(***************************************************************************)
RootDirSectors(entries, bps) == CeilDiv(entries * 32, bps)

\* Mutant: the two reserved entries of the FAT are forgotten.
MutSectorsPerFat(t0, bps, spc, t, fats) ==
  CeilDiv(t0, (spc * bps * 8) \div t + fats)

SectorsPerFat(t0, bps, spc, t, fats) ==
  CeilDiv(t0 + 2 * spc, (spc * bps * 8) \div t + fats)

ReservedFor(t, asked) ==
  IF asked = 0 THEN (IF t = 32 THEN 8 ELSE 1) ELSE asked

\* Only the clusters that fit count (total_clusters).
DataClusters(t0, spf, spc, fats) == (t0 - fats * spf) \div spc

RootFor(t, entries, bps) == IF t = 32 THEN 0 ELSE RootDirSectors(entries, bps)

HasRoom(t, total, bps, entries, asked) ==
  total > ReservedFor(t, asked) + RootFor(t, entries, bps) + 8

Geometry(t, total, bps, spc, entries, fats, asked) ==
  LET root == RootFor(t, entries, bps)
      reserved == ReservedFor(t, asked)
      t0 == total - reserved - root
      spf == SectorsPerFat(t0, bps, spc, t, fats)
      clusters == DataClusters(t0, spf, spc, fats) IN
    [fits |-> /\ HasRoom(t, total, bps, entries, asked)
              /\ FromClusters(clusters) = t
              /\ clusters <= MaxClusters(t),
     reserved |-> reserved, spf |-> spf]

(***************************************************************************)
(* The boot sector (format_bpb).  The fields of 16 bits keep their width.  *)
(***************************************************************************)
\* reserved_sectors of FormatVolumeOptions: with_transaction_log goes by the
\* FAT type asked for, and takes an open one for FAT12 or FAT16.
ReservedAsked(r) ==
  IF r.reserved = -1 THEN (IF r.fatType = 32 THEN 8 ELSE 1) + 4 ELSE r.reserved

BootSector(r, t, spc, g) ==
  [bps |-> r.bps, spc |-> spc, reserved |-> g.reserved, fats |-> r.fats,
   rootEntries |-> IF t = 32 THEN 0 ELSE r.rootEntries,
   total16 |-> IF r.total < 65536 THEN r.total ELSE 0,
   total32 |-> IF r.total >= 65536 THEN r.total ELSE 0,
   spf16 |-> IF t = 32 THEN 0 ELSE g.spf % 65536,
   spf32 |-> IF t = 32 THEN g.spf ELSE 0,
   fsInfo |-> IF t = 32 THEN 1 ELSE 0,
   backup |-> IF t = 32 THEN 6 ELSE 0]

IsFat32(b) == b.spf16 = 0
SectorsOfFat(b) == IF IsFat32(b) THEN b.spf32 ELSE b.spf16
TotalSectors(b) == IF b.total16 = 0 THEN b.total32 ELSE b.total16
RootDirStart(b) == b.reserved + b.fats * SectorsOfFat(b)
FirstDataSector(b) == RootDirStart(b) + RootDirSectors(b.rootEntries, b.bps)
\* Mutant: a last cluster that is not all there counts.
MutTotalClusters(b) == CeilDiv(TotalSectors(b) - FirstDataSector(b), b.spc)

TotalClusters(b) == (TotalSectors(b) - FirstDataSector(b)) \div b.spc
FatEntries(b) == (SectorsOfFat(b) * b.bps * 8) \div FromClusters(TotalClusters(b))

\* validate: the checks that refuse a boot sector; the others only warn.
ValidSectors(b) ==
  /\ b.bps \in {512, 1024, 2048, 4096}
  /\ b.spc \in {1, 2, 4, 8, 16, 32, 64, 128}
  /\ b.reserved >= 1
  /\ IsFat32(b) => b.backup < b.reserved /\ b.fsInfo < b.reserved
  /\ b.fats # 0
ValidCounts(b) ==
  /\ IsFat32(b) <=> b.rootEntries = 0
  /\ IsFat32(b) => b.total16 = 0
  /\ (b.total16 = 0) # (b.total32 = 0)
  /\ TotalSectors(b) > FirstDataSector(b)
  /\ IsFat32(b) => b.spf32 # 0
  /\ IsFat32(b) <=> FromClusters(TotalClusters(b)) = 32
Valid(b) == ValidSectors(b) /\ ValidCounts(b)

\* deserialize after serialize: without a FAT32 the fields of FAT32 are not kept.
ReadBack(b) == IF IsFat32(b) THEN b ELSE [b EXCEPT !.spf32 = 0, !.fsInfo = 0, !.backup = 0]

(***************************************************************************)
(* format_volume: FAT32, FAT16 and FAT12 are tried in this order, whatever *)
(* type was asked for.                                                     *)
(***************************************************************************)
Boot(r) ==
  LET bpc == IF r.bpc = 0 THEN BytesPerCluster(r.total, r.bps, r.fatType) ELSE r.bpc
      spc == bpc \div r.bps
      Try(t) == Geometry(t, r.total, r.bps, spc, r.rootEntries, r.fats, ReservedAsked(r))
      fitting == {t \in Types : Try(t).fits} IN
    IF spc > 255 THEN Panicked
    ELSE IF spc = 0          \* a sector larger than the cluster: division by zero
    THEN IF \E t \in Types : HasRoom(t, r.total, r.bps, r.rootEntries, ReservedAsked(r))
         THEN Panicked ELSE Failed
    ELSE IF fitting = {} THEN Failed
    ELSE LET t == CHOOSE x \in fitting : \A y \in fitting : y <= x
             b == BootSector(r, t, spc, Try(t)) IN
      IF FromClusters(TotalClusters(b)) = t /\ Valid(b)
      THEN [outcome |-> "formatted", as |-> t, boot |-> b] ELSE Failed

Blank == [outcome |-> "blank"]
Unmounted ==
  [log |-> <<0, 0>>, audit |-> <<0, 0>>, audited |-> FALSE, type |-> NoType, total |-> 0]

Init ==
  /\ request \in [total : Sizes, bps : SectorSizes, bpc : ClusterSizes,
                  fatType : Types \cup {NoType}, rootEntries : RootSizes,
                  fats : {1, 2}, reserved : Reservations]
  /\ volume = Blank
  /\ mounted = Unmounted
  /\ damaged = {}

Format ==
  /\ volume = Blank
  /\ volume' = Boot(request)
  /\ UNCHANGED <<request, mounted, damaged>>

(***************************************************************************)
(* FileSystem::new: the boot sector is validated, the FAT type follows     *)
(* from the number of clusters, and the logs get their place, <<first      *)
(* sector, number of sectors>>: first sector 0 asks for the sectors before *)
(* the data, the audit log below the transaction log.  A configuration of  *)
(* the audit log with the default number of sectors is replaced as a       *)
(* whole, "enabled" included.                                              *)
(***************************************************************************)
DefaultAuditSectors == 8
AuditSectors(total) ==
  IF total < 20480 THEN 8 ELSE IF total < 204800 THEN 16
  ELSE IF total < 2097152 THEN 32 ELSE IF total < 20971520 THEN 64 ELSE 128

LogPlace(b, log) ==
  IF log[1] = 0 THEN <<Max2(FirstDataSector(b) - 4, 0), log[2]>> ELSE log

AuditPlace(b, c) ==
  LET a == IF c.audit[2] = DefaultAuditSectors
           THEN <<0, AuditSectors(TotalSectors(b))>> ELSE c.audit IN
    IF a[1] = 0 THEN <<Max2(LogPlace(b, c.log)[1] - a[2], 0), a[2]>> ELSE a

Audited(c) == c.audited \/ c.audit[2] = DefaultAuditSectors

Mount(c) ==
  /\ volume.outcome = "formatted" /\ mounted = Unmounted
  /\ Valid(ReadBack(volume.boot))
  /\ LET b == ReadBack(volume.boot) IN
       mounted' = [log |-> LogPlace(b, c.log), audit |-> AuditPlace(b, c),
                   audited |-> Audited(c),
                   type |-> FromClusters(TotalClusters(b)), total |-> TotalClusters(b)]
  /\ UNCHANGED <<request, volume, damaged>>

(***************************************************************************)
(* Writes of the logs.  Both multiply the sector by 512, whatever the      *)
(* size of a sector is.                                                    *)
(***************************************************************************)
Regions(b) ==
  {<<"boot", 0, 1>>,
   <<"fat", b.reserved, RootDirStart(b)>>,
   <<"root", RootDirStart(b), FirstDataSector(b)>>,
   <<"data", FirstDataSector(b), TotalSectors(b)>>}
  \cup (IF IsFat32(b)
        THEN {<<"fsinfo", b.fsInfo, b.fsInfo + 1>>, <<"backup", b.backup, b.backup + 1>>}
        ELSE {})

\* The regions that `bytes' bytes from 512 * `sector' on reach into.
Hit(b, sector, bytes) ==
  LET first == (sector * 512) \div b.bps
      end == CeilDiv(sector * 512 + bytes, b.bps) IN
    {g[1] : g \in {h \in Regions(b) : h[2] < end /\ first < h[3] /\ h[2] < h[3]}}

\* write_intent, commit and clear write the slot of the transaction.
MaxTransactions == 4
WriteSlot(slot) ==
  /\ slot < mounted.log[2]
  /\ damaged' = damaged \cup Hit(volume.boot, mounted.log[1] + slot, 512)
  /\ UNCHANGED <<request, volume, mounted>>

\* AuditLog::flush: a length, then every pending entry of more than 512 bytes
\* (two paths of 256), however many sectors the log was given.
EntryBytes == 530
WriteAudit(n) ==
  /\ mounted.audited
  /\ damaged' = damaged \cup Hit(volume.boot, mounted.audit[1], 5 + n * EntryBytes)
  /\ UNCHANGED <<request, volume, mounted>>

Next ==
  \/ Format
  \/ \E c \in Configs : Mount(c)
  \/ \E slot \in 0 .. MaxTransactions - 1 : WriteSlot(slot)
  \/ \E n \in 1 .. MaxPending : WriteAudit(n)

Spec == Init /\ [][Next]_vars

-----------------------------------------------------------------------------
\* The FAT has an entry for every cluster and the two reserved ones, and is
\* at most two sectors larger than that (determine_sectors_per_fat and its
\* test): no cluster is handed out whose entry lies past the end of the FAT.
FatHoldsEveryCluster ==
  volume.outcome = "formatted" =>
    LET b == volume.boot
        perSector == (b.bps * 8) \div volume.as IN
      /\ FatEntries(b) >= TotalClusters(b) + 2
      /\ FatEntries(b) - 2 <= TotalClusters(b) + 2 * perSector

\* A volume that was formatted can be mounted: with the type it was formatted
\* as, and no cluster past the end of the device.
MountsAsFormatted ==
  /\ volume.outcome = "formatted" => Valid(volume.boot)
  /\ mounted.type # NoType =>
       /\ mounted.type = volume.as
       /\ FirstDataSector(volume.boot) + mounted.total * volume.boot.spc <= request.total

\* A transaction log keeps to the reserved sectors ("The transaction log will
\* be automatically placed in reserved sectors before the data area", fs.rs).
LogSparesTheVolume == damaged = {}
=============================================================================

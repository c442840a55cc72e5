----------------------------- MODULE ImageProofs -----------------------------
(***************************************************************************)
(* Theorems about what lies on a volume.  VolumeLayout: devices of any     *)
(* size, any cluster size, root directory and number of reserved sectors   *)
(* asked for; a FAT has an entry for every cluster and is little larger,   *)
(* what is formatted mounts as what it was formatted.  AuditLog: what a    *)
(* flush writes is read back, however long the log has been running.       *)
(* EntryNames: names, parts and directories of any length; short names     *)
(* differ and every entry is read with the name it was created with.       *)
(* FatEntries: the bytes of a FAT of any size hold a value for each entry. *)
(***************************************************************************)
EXTENDS VolumeLayout, FatEntries, AuditLog, EntryNames,
        SequenceTheorems, NaturalsInduction, WellFoundedInduction, TLAPS

-----------------------------------------------------------------------------
(* Lemmas about numbers.                                                   *)

LEMMA Floor ==
  ASSUME NEW p \in Nat \ {0}, NEW b \in Int
  PROVE  /\ b \div p \in Int
         /\ (b \div p) * p <= b /\ b < (b \div p) * p + p
  OBVIOUS

LEMMA ProductIsNat == ASSUME NEW a \in Nat, NEW b \in Nat PROVE a * b \in Nat
  BY SMT

LEMMA ProductIsInt == ASSUME NEW a \in Int, NEW b \in Int PROVE a * b \in Int
  BY SMT

LEMMA TimesMonotone ==
  ASSUME NEW p \in Nat, NEW m \in Int, NEW n \in Int, m <= n
  PROVE  m * p <= n * p
  <1>1. (n - m) * p >= 0
    BY SMT
  <1>2. (n - m) * p = n * p - m * p
    BY SMT
  <1>3. m * p \in Int /\ n * p \in Int
    BY SMT
  <1>4. QED
    BY <1>1, <1>2, <1>3, SMT

\* A factor is taken away.
LEMMA Cancelled ==
  ASSUME NEW p \in Nat \ {0}, NEW m \in Int, NEW n \in Int, m * p < n * p + p
  PROVE  m <= n
  <1>1. SUFFICES ASSUME n + 1 <= m PROVE FALSE
    OBVIOUS
  <1>2. (n + 1) * p <= m * p
    BY <1>1, TimesMonotone
  <1>3. (n + 1) * p = n * p + p /\ m * p \in Int /\ n * p \in Int
    BY SMT
  <1>4. QED
    BY <1>2, <1>3

LEMMA AtLeastFloor ==
  ASSUME NEW p \in Nat \ {0}, NEW b \in Int, NEW n \in Int, n * p <= b
  PROVE  n <= b \div p
  <1> DEFINE q == b \div p
  <1>1. q \in Int /\ b < q * p + p /\ q * p \in Int /\ n * p \in Int
    BY Floor, ProductIsInt
  <1> HIDE DEF q
  <1>2. n <= q
    BY <1>1, Cancelled
  <1>3. QED
    BY <1>2 DEF q

LEMMA AtMostFloor ==
  ASSUME NEW p \in Nat \ {0}, NEW b \in Int, NEW n \in Int, b < n * p + p
  PROVE  b \div p <= n
  <1> DEFINE q == b \div p
  <1>1. q \in Int /\ q * p <= b /\ q * p \in Int /\ n * p \in Int
    BY Floor, ProductIsInt
  <1> HIDE DEF q
  <1>2. q <= n
    BY <1>1, Cancelled
  <1>3. QED
    BY <1>2 DEF q

-----------------------------------------------------------------------------
(* The size of a FAT.  A sector of the device holds `dense' entries at     *)
(* most; the sectors of the clusters that one sector of the FAT stands for *)
(* are `density'.                                                          *)

\* The FAT and its copies take what the clusters leave, but for less than a
\* cluster and less than the sectors of one more sector of the FAT.
SizeOfFat(t0, spc, density, fats) == CeilDiv(t0 + 2 * spc, density + fats)

RightFat(t0, spc, density, fats, spf, clusters) ==
  /\ clusters * spc <= t0 - fats * spf
  /\ (clusters + 2) * spc <= spf * density
  /\ (spf - 1) * density < fats + (clusters + 3) * spc

LEMMA FatAndData ==
  ASSUME NEW t0 \in Nat, NEW spc \in Nat \ {0}, NEW density \in Nat \ {0}, NEW fats \in Nat,
         NEW spf, spf = SizeOfFat(t0, spc, density, fats),
         NEW clusters, clusters = DataClusters(t0, spf, spc, fats)
  PROVE  spf \in Nat \ {0} /\ clusters \in Int /\ RightFat(t0, spc, density, fats, spf, clusters)
  <1> DEFINE wide == density + fats
             need == t0 + 2 * spc
  <1>1. wide \in Nat \ {0} /\ need \in Nat \ {0} /\ need + wide - 1 \in Int
    OBVIOUS
  <1>2. spf = (need + wide - 1) \div wide
    BY DEF CeilDiv, SizeOfFat
  <1>3. spf \in Int /\ spf * wide <= need + wide - 1 /\ need + wide - 1 < spf * wide + wide
    BY <1>1, <1>2, Floor
  <1>4. spf * wide = spf * density + spf * fats /\ spf * density \in Int /\ spf * fats \in Int
    BY <1>3, SMT
  <1>5. spf * fats = fats * spf
    BY <1>3, SMT
  <1>6. spf \in Nat \ {0}
    <2>1. SUFFICES ASSUME spf <= 0 PROVE FALSE
      BY <1>3
    <2>2. spf * wide <= 0 * wide
      BY <1>1, <1>3, <2>1, TimesMonotone
    <2>3. 0 * wide = 0
      BY <1>1, SMT
    <2> HIDE DEF wide, need
    <2>4. spf * wide \in Int
      BY <1>1, <1>3, ProductIsInt
    <2>5. QED
      BY <1>1, <1>3, <2>2, <2>3, <2>4
  <1>7. clusters = (t0 - fats * spf) \div spc /\ t0 - fats * spf \in Int
    BY <1>4, <1>5 DEF DataClusters
  <1>8. /\ clusters \in Int /\ clusters * spc <= t0 - fats * spf
        /\ t0 - fats * spf < clusters * spc + spc
    BY <1>7, Floor
  <1>9. /\ (clusters + 2) * spc = clusters * spc + 2 * spc
        /\ (clusters + 3) * spc = clusters * spc + 3 * spc
        /\ (spf - 1) * density = spf * density - density
        /\ clusters * spc \in Int
    BY <1>3, <1>8, SMT
  <1>10. (clusters + 2) * spc <= spf * density
    BY <1>3, <1>4, <1>5, <1>8, <1>9
  <1>11. (spf - 1) * density < fats + (clusters + 3) * spc
    BY <1>3, <1>4, <1>5, <1>8, <1>9
  <1>12. QED
    BY <1>6, <1>8, <1>10, <1>11 DEF RightFat

\* The entries in a sector of the FAT, and the sectors of their clusters.
Dense(bps, t) == (bps * 8) \div t
Density(spc, bps, t) == (spc * bps * 8) \div t

RightDensities(bps, spc, t, dense, density) ==
  /\ dense \in Nat /\ dense >= 128 /\ dense * t <= bps * 8
  /\ t = 12 => dense >= 341 /\ bps * 8 <= dense * 12 + 11
  /\ t = 16 => dense >= 256
  /\ t # 12 => dense * t = bps * 8
  /\ density \in Nat \ {0} /\ density * t <= spc * (bps * 8)
  /\ spc * dense <= density

LEMMA Densities ==
  ASSUME NEW bps \in {512, 1024, 2048, 4096}, NEW spc \in Nat \ {0}, NEW t \in Types
  PROVE  RightDensities(bps, spc, t, Dense(bps, t), Density(spc, bps, t))
  <1> DEFINE dense == Dense(bps, t)
             density == Density(spc, bps, t)
  <1>1. /\ dense \in Nat /\ dense >= 128 /\ dense * t <= bps * 8
        /\ t = 12 => dense >= 341 /\ bps * 8 <= dense * 12 + 11
        /\ t = 16 => dense >= 256
        /\ t # 12 => dense * t = bps * 8
    <2>1. CASE t = 12
      BY <2>1 DEF Dense
    <2>2. CASE t = 16
      BY <2>2 DEF Dense
    <2>3. CASE t = 32
      BY <2>3 DEF Dense
    <2>4. QED
      BY <2>1, <2>2, <2>3 DEF Types
  <1> HIDE DEF dense
  <1>2. t \in Nat \ {0} /\ bps \in Nat
    BY DEF Types
  <1>3. spc * bps * 8 = spc * (bps * 8) /\ spc * (bps * 8) \in Nat
    BY <1>2, SMT
  <1>4. density \in Int /\ density * t <= spc * (bps * 8)
    BY <1>2, <1>3, Floor DEF density, Density
  <1>5. (spc * dense) * t <= spc * (bps * 8)
    <2>1. (dense * t) * spc <= (bps * 8) * spc
      BY <1>1, <1>2, TimesMonotone, ProductIsNat
    <2>2. (dense * t) * spc = (spc * dense) * t /\ (bps * 8) * spc = spc * (bps * 8)
      BY <1>1, <1>2, SMT
    <2>3. QED
      BY <2>1, <2>2
  <1>6. spc * dense <= density
    BY <1>1, <1>2, <1>3, <1>5, AtLeastFloor, ProductIsInt DEF density, Density
  <1>7. density > 0
    <2>1. 1 * dense <= spc * dense /\ 1 * dense = dense
      BY <1>1, TimesMonotone
    <2>2. spc * dense \in Nat
      BY <1>1, ProductIsNat
    <2>3. QED
      BY <1>1, <1>4, <1>6, <2>1, <2>2
  <1> HIDE DEF density
  <1>8. RightDensities(bps, spc, t, dense, density)
    BY <1>1, <1>4, <1>6, <1>7 DEF RightDensities
  <1>9. QED
    BY <1>8 DEF dense, density

\* The sectors of a FAT but one hold no more entries than clusters and four.
Few(spf, dense, clusters) == (spf - 1) * dense <= clusters + 4

LEMMA FewSectors ==
  ASSUME NEW bps, NEW t, NEW t0, NEW spc \in Nat \ {0}, NEW fats \in {1, 2}, NEW spf \in Nat \ {0},
         NEW clusters \in Int, NEW density, NEW dense, RightDensities(bps, spc, t, dense, density),
         RightFat(t0, spc, density, fats, spf, clusters)
  PROVE  Few(spf, dense, clusters)
  <1> DEFINE m == spf - 1
  <1>1. /\ m \in Nat /\ density \in Nat \ {0} /\ dense \in Nat /\ spc * dense <= density
        /\ m * density < fats + (clusters + 3) * spc
    BY DEF RightDensities, RightFat
  <1>2. (spc * dense) * m <= density * m
    BY <1>1, TimesMonotone, ProductIsNat
  <1>3. (spc * dense) * m = (m * dense) * spc /\ density * m = m * density
    BY <1>1, SMT
  <1>4. (clusters + 3) * spc \in Int /\ (clusters + 4) * spc = (clusters + 3) * spc + spc
        /\ m * dense \in Int /\ (m * dense) * spc \in Int /\ m * density \in Int
    BY <1>1, SMT
  <1>5. (m * dense) * spc < (clusters + 4) * spc + spc
    BY <1>1, <1>2, <1>3, <1>4
  <1>6. clusters + 4 \in Int
    OBVIOUS
  <1> HIDE DEF m
  <1>7. m * dense <= clusters + 4
    BY <1>4, <1>5, <1>6, Cancelled
  <1>8. QED
    BY <1>7 DEF m, Few

\* A FAT of FAT12 or FAT16 fits the 16 bits of its field.
LEMMA ShortFats ==
  ASSUME NEW t \in {12, 16}, NEW spf \in Nat \ {0}, NEW clusters \in Int, clusters <= MaxClusters(t),
         NEW dense \in Nat, t = 12 => dense >= 341, t = 16 => dense >= 256,
         Few(spf, dense, clusters)
  PROVE  spf <= 256 /\ (t = 12 => spf <= 12) /\ spf % 65536 = spf
  <1> DEFINE m == spf - 1
  <1>1. m \in Nat
    OBVIOUS
  <1>2. CASE t = 12
    <2>1. 341 * m <= dense * m /\ dense * m = m * dense
      BY <1>1, <1>2, TimesMonotone, SMT
    <2>2. clusters <= 4084
      BY <1>2 DEF MaxClusters
    <2>3. m * dense \in Nat
      BY <1>1, ProductIsNat
    <2>4. m * dense <= 4088
      BY <2>2, <2>3 DEF Few
    <2> HIDE DEF m
    <2>5. m <= 11
      BY <1>1, <2>1, <2>3, <2>4
    <2>6. QED
      BY <1>2, <2>5 DEF m
  <1>3. CASE t = 16
    <2>1. 256 * m <= dense * m /\ dense * m = m * dense
      BY <1>1, <1>3, TimesMonotone, SMT
    <2>2. clusters <= 65524
      BY <1>3 DEF MaxClusters
    <2>3. m * dense \in Nat
      BY <1>1, ProductIsNat
    <2>4. m * dense <= 65528
      BY <2>2, <2>3 DEF Few
    <2> HIDE DEF m
    <2>5. m <= 255
      BY <1>1, <2>1, <2>3, <2>4
    <2>6. QED
      BY <1>3, <2>5 DEF m
  <1>4. QED
    BY <1>2, <1>3

\* The entries of a FAT are those of the clusters, the two reserved ones, and
\* at most those of two more sectors.
FatFits(spf, bps, t, clusters, dense) ==
  /\ (spf * bps * 8) \div t >= clusters + 2
  /\ (spf * bps * 8) \div t - 2 <= clusters + 2 * dense

LEMMA EntriesFit ==
  ASSUME NEW bps \in {512, 1024, 2048, 4096}, NEW spc \in Nat \ {0}, NEW t \in Types,
         NEW spf \in Nat \ {0}, NEW clusters \in Int, NEW t0, NEW fats,
         NEW dense, NEW density, RightDensities(bps, spc, t, dense, density),
         RightFat(t0, spc, density, fats, spf, clusters), Few(spf, dense, clusters),
         t = 12 => spf <= 12
  PROVE  FatFits(spf, bps, t, clusters, dense)
  <1> DEFINE wide == bps * 8
             room == spf * wide
             all == room \div t
  <1>1. /\ dense \in Nat /\ dense >= 128
        /\ t = 12 => dense >= 341 /\ wide <= dense * 12 + 11
        /\ t # 12 => dense * t = wide
        /\ density \in Nat \ {0} /\ density * t <= spc * wide
    BY DEF RightDensities
  <1>2. (clusters + 2) * spc <= spf * density /\ (spf - 1) * dense <= clusters + 4
    BY DEF RightFat, Few
  <1>3. wide \in Nat /\ t \in Nat \ {0} /\ spf * bps * 8 = spf * wide
    BY SMT DEF Types
  <1> HIDE DEF wide
  <1>4. spf * wide \in Nat
    BY <1>3, ProductIsNat
  <1>5. all >= clusters + 2 /\ all \in Int
    <2>1. ((clusters + 2) * spc) * t <= (spf * density) * t
      BY <1>1, <1>3, <1>2, TimesMonotone, ProductIsInt
    <2>2. (density * t) * spf <= (spc * wide) * spf
      BY <1>1, <1>3, TimesMonotone, ProductIsNat
    <2>3. (spf * density) * t = (density * t) * spf /\ (spc * wide) * spf = (spf * wide) * spc
          /\ ((clusters + 2) * spc) * t = ((clusters + 2) * t) * spc
      BY <1>1, <1>3, SMT
    <2>4. (density * t) * spf \in Int /\ (spf * wide) * spc \in Int /\ (clusters + 2) * t \in Int
          /\ ((clusters + 2) * t) * spc \in Int
      BY <1>1, <1>3, <1>4, ProductIsInt
    <2>5. ((clusters + 2) * t) * spc < (spf * wide) * spc + spc
      BY <2>1, <2>2, <2>3, <2>4
    <2>6. (clusters + 2) * t <= spf * wide
      BY <1>4, <2>4, <2>5, Cancelled
    <2>7. QED
      <3> HIDE DEF room
      <3>1. room \in Int /\ t \in Nat \ {0} /\ (clusters + 2) * t <= room /\ clusters + 2 \in Int
        BY <1>3, <1>4, <2>6 DEF room
      <3>2. QED
        BY <3>1, AtLeastFloor, Floor
  <1>6. all = (spf * bps * 8) \div t
    BY <1>3
  <1>7. (spf - 1) * dense = spf * dense - dense /\ spf * dense \in Nat
    BY <1>1, SMT
  <1>8. ASSUME t # 12 PROVE all - 2 <= clusters + 2 * dense
    <2>1. spf * wide = spf * (dense * t) /\ spf * (dense * t) = (spf * dense) * t
      BY <1>1, <1>3, <1>8, SMT
    <2>2. spf * wide < (spf * dense) * t + t
      BY <1>3, <1>4, <2>1
    <2>3. all <= spf * dense
      <3> HIDE DEF room
      <3>1. /\ room \in Int /\ t \in Nat \ {0} /\ spf * dense \in Int
            /\ room < (spf * dense) * t + t
        BY <1>3, <1>4, <1>7, <2>2 DEF room
      <3>2. QED
        BY <3>1, AtMostFloor
    <2> HIDE DEF all
    <2>4. QED
      BY <1>1, <1>5, <1>7, <1>2, <2>3
  <1>9. ASSUME t = 12 PROVE all - 2 <= clusters + 2 * dense
    <2>1. wide * spf <= (dense * 12 + 11) * spf
      BY <1>1, <1>3, <1>9, TimesMonotone
    <2>2. wide * spf = spf * wide /\ (dense * 12 + 11) * spf = 12 * (spf * dense) + 11 * spf
      BY <1>1, <1>3, SMT
    <2>3. spf * wide < (spf * dense + spf) * 12 + 12
      BY <1>4, <1>7, <2>1, <2>2
    <2>4. all <= spf * dense + spf
      BY <1>3, <1>4, <1>7, <1>9, <2>3, AtMostFloor
    <2> HIDE DEF all
    <2>5. QED
      BY <1>1, <1>5, <1>7, <1>9, <1>2, <2>4
  <1> HIDE DEF all
  <1>10. QED
    BY <1>5, <1>6, <1>8, <1>9 DEF FatFits

-----------------------------------------------------------------------------
(* What a boot sector that was written says of the volume.                 *)

Requests == [total : Sizes, bps : SectorSizes, bpc : ClusterSizes, fatType : Types \cup {NoType},
             rootEntries : RootSizes, fats : {1, 2}, reserved : Reservations]

\* The sectors per cluster and the geometry that format_volume tries for type t.
Spc(r) == (IF r.bpc = 0 THEN BytesPerCluster(r.total, r.bps, r.fatType) ELSE r.bpc) \div r.bps
Tried(r, t) == Geometry(t, r.total, r.bps, Spc(r), r.rootEntries, r.fats, ReservedAsked(r))
Written(r, t) == BootSector(r, t, Spc(r), Tried(r, t))

\* The boot sector was written for a type whose geometry fits, and is valid.
FormattedAs(r, t) ==
  /\ Tried(r, t).fits /\ FromClusters(TotalClusters(Written(r, t))) = t /\ Valid(Written(r, t))
  /\ Boot(r) = [outcome |-> "formatted", as |-> t, boot |-> Written(r, t)]

LEMMA Formatted ==
  ASSUME NEW r \in Requests, Boot(r).outcome = "formatted"
  PROVE  \E t \in Types : FormattedAs(r, t)
  <1> DEFINE spc == Spc(r)
             fitting == {t \in Types : Tried(r, t).fits}
             t == CHOOSE x \in fitting : \A y \in fitting : y <= x
             b == BootSector(r, t, spc, Tried(r, t))
  <1>1. Boot(r) = IF spc > 255 THEN Panicked
                  ELSE IF spc = 0
                  THEN IF \E x \in Types : HasRoom(x, r.total, r.bps, r.rootEntries, ReservedAsked(r))
                       THEN Panicked ELSE Failed
                  ELSE IF fitting = {} THEN Failed
                  ELSE IF FromClusters(TotalClusters(b)) = t /\ Valid(b)
                       THEN [outcome |-> "formatted", as |-> t, boot |-> b] ELSE Failed
    BY DEF Boot, Spc, Tried
  <1>2. Panicked.outcome # "formatted" /\ Failed.outcome # "formatted"
    BY DEF Panicked, Failed
  <1>3. fitting # {} => t \in fitting
    <2>1. \A y \in fitting : y \in {12, 16, 32}
      BY DEF Types
    <2> HIDE DEF fitting
    <2>2. ASSUME fitting # {} PROVE \E x \in fitting : \A y \in fitting : y <= x
      <3>1. CASE 32 \in fitting
        BY <2>1, <3>1
      <3>2. CASE 32 \notin fitting /\ 16 \in fitting
        BY <2>1, <3>2
      <3>3. CASE 32 \notin fitting /\ 16 \notin fitting
        BY <2>1, <2>2, <3>3
      <3>4. QED
        BY <3>1, <3>2, <3>3
    <2>3. QED
      BY <2>2
  <1> HIDE DEF spc, b, t, fitting
  <1>4. /\ fitting # {} /\ FromClusters(TotalClusters(b)) = t /\ Valid(b)
        /\ Boot(r) = [outcome |-> "formatted", as |-> t, boot |-> b]
    BY <1>1, <1>2
  <1>5. t \in Types /\ Tried(r, t).fits
    BY <1>3, <1>4 DEF fitting
  <1>6. b = Written(r, t)
    BY DEF b, spc, Written
  <1>7. QED
    BY <1>4, <1>5, <1>6 DEF FormattedAs

LEMMA CeilDivIsNat ==
  ASSUME NEW a \in Nat, NEW p \in Nat \ {0} PROVE CeilDiv(a, p) \in Nat
  <1>1. a + p - 1 \in Nat
    OBVIOUS
  <1>2. QED
    BY <1>1 DEF CeilDiv

\* The fields of the request and of the geometry.
LEMMA Fields ==
  ASSUME NEW r \in Requests, NEW t \in Types, Tried(r, t).fits, Valid(Written(r, t))
  PROVE  /\ r.bps \in {512, 1024, 2048, 4096} /\ r.total \in Nat \ {0} /\ r.fats \in {1, 2}
         /\ Spc(r) \in Nat \ {0}
         /\ Tried(r, t).reserved \in Int /\ RootFor(t, r.rootEntries, r.bps) \in Nat
         /\ r.total - Tried(r, t).reserved - RootFor(t, r.rootEntries, r.bps) \in Nat
         /\ Written(r, t).spc = Spc(r) /\ Written(r, t).bps = r.bps
  <1>1. /\ r.bps \in {512, 1024, 2048, 4096} /\ r.total \in Nat \ {0} /\ r.fats \in {1, 2}
        /\ r.rootEntries \in Nat /\ r.reserved \in Int
    <2>1. /\ r.bps \in SectorSizes /\ r.total \in Sizes /\ r.fats \in {1, 2}
          /\ r.rootEntries \in RootSizes /\ r.reserved \in Reservations
      BY DEF Requests
    <2>2. /\ \A x \in SectorSizes : x \in {512, 1024, 2048, 4096}
          /\ \A x \in Sizes : x \in Nat \ {0}
          /\ \A x \in RootSizes : x \in Nat
          /\ \A x \in Reservations : x \in Int
      BY LayoutAssumption
    <2>3. QED
      BY <2>1, <2>2
  <1>2. Written(r, t).spc = Spc(r) /\ Written(r, t).bps = r.bps
    BY DEF Written, BootSector
  <1>3. Spc(r) \in Nat \ {0}
    BY <1>2 DEF Valid, ValidSectors
  <1>4. ReservedFor(t, ReservedAsked(r)) \in Int
    BY <1>1 DEF ReservedFor, ReservedAsked
  <1>5. /\ Tried(r, t).reserved = ReservedFor(t, ReservedAsked(r))
        /\ Tried(r, t).fits => HasRoom(t, r.total, r.bps, r.rootEntries, ReservedAsked(r))
    BY DEF Tried, Geometry
  <1>6. RootFor(t, r.rootEntries, r.bps) \in Nat
    <2>1. r.rootEntries * 32 \in Nat /\ r.bps \in Nat \ {0}
      BY <1>1
    <2>2. QED
      BY <2>1, CeilDivIsNat DEF RootFor, RootDirSectors
  <1>7. r.total > Tried(r, t).reserved + RootFor(t, r.rootEntries, r.bps) + 8
    BY <1>5 DEF HasRoom
  <1>8. QED
    BY <1>1, <1>2, <1>3, <1>4, <1>5, <1>6, <1>7

\* The boot sector, read back field by field, is the geometry that was tried.
LEMMA BootSectorReads ==
  ASSUME NEW r \in Requests, NEW t \in Types, Tried(r, t).fits,
         FromClusters(TotalClusters(Written(r, t))) = t, Valid(Written(r, t)),
         NEW b, b = Written(r, t), NEW g, g = Tried(r, t)
  PROVE  /\ g.spf \in Nat \ {0} /\ SectorsOfFat(b) = g.spf
         /\ TotalSectors(b) = r.total
         /\ RootDirSectors(b.rootEntries, b.bps) = RootFor(t, r.rootEntries, r.bps)
         /\ FirstDataSector(b) \in Int
         /\ FirstDataSector(b) + TotalClusters(b) * b.spc <= r.total
         /\ TotalClusters(b) \in Int
         /\ FatFits(g.spf, r.bps, t, TotalClusters(b), Dense(r.bps, t))
  <1> DEFINE spc == Spc(r)
             root == RootFor(t, r.rootEntries, r.bps)
             t0 == r.total - g.reserved - root
             dense == Dense(r.bps, t)
             density == Density(spc, r.bps, t)
             clusters == DataClusters(t0, g.spf, spc, r.fats)
  <1>1. /\ r.bps \in {512, 1024, 2048, 4096} /\ r.total \in Nat \ {0} /\ r.fats \in {1, 2}
        /\ spc \in Nat \ {0} /\ g.reserved \in Int /\ root \in Nat /\ t0 \in Nat
        /\ b.spc = spc /\ b.bps = r.bps
    BY Fields
  <1>2. /\ g.reserved = ReservedFor(t, ReservedAsked(r))
        /\ g.spf = SectorsPerFat(t0, r.bps, spc, t, r.fats)
        /\ g.fits => FromClusters(clusters) = t /\ clusters <= MaxClusters(t)
    BY DEF Tried, Geometry
  <1>3. g.spf = SizeOfFat(t0, spc, density, r.fats) /\ clusters = DataClusters(t0, g.spf, spc, r.fats)
    BY <1>2 DEF SectorsPerFat, Density, SizeOfFat
  <1>4. RightDensities(r.bps, spc, t, dense, density)
    BY <1>1, Densities
  <1> HIDE DEF spc, root, t0, dense, density, clusters
  <1>5. dense \in Nat /\ density \in Nat \ {0} /\ spc * dense <= density /\ r.fats \in Nat
    BY <1>1, <1>4 DEF RightDensities
  <1>6. g.spf \in Nat \ {0} /\ clusters \in Int /\ RightFat(t0, spc, density, r.fats, g.spf, clusters)
    <2>1. t0 \in Nat /\ spc \in Nat \ {0} /\ density \in Nat \ {0} /\ r.fats \in Nat
      BY <1>1, <1>5
    <2>2. QED
      BY <1>3, <2>1, FatAndData
  <1>7. Few(g.spf, dense, clusters)
    BY <1>1, <1>4, <1>6, FewSectors
  <1>8. clusters <= MaxClusters(t)
    BY <1>2
  <1>9. t # 32 => g.spf <= 256 /\ (t = 12 => g.spf <= 12) /\ g.spf % 65536 = g.spf
    <2>1. SUFFICES ASSUME t # 32 PROVE g.spf <= 256 /\ (t = 12 => g.spf <= 12) /\ g.spf % 65536 = g.spf
      OBVIOUS
    <2>2. t \in {12, 16}
      BY <2>1 DEF Types
    <2>3. (t = 12 => dense >= 341) /\ (t = 16 => dense >= 256)
      BY <1>4 DEF RightDensities
    <2>4. QED
      BY <1>5, <1>6, <1>7, <1>8, <2>2, <2>3, ShortFats
  <1>10. /\ b.spf16 = IF t = 32 THEN 0 ELSE g.spf % 65536
         /\ b.spf32 = IF t = 32 THEN g.spf ELSE 0
         /\ b.rootEntries = IF t = 32 THEN 0 ELSE r.rootEntries
         /\ b.reserved = g.reserved /\ b.fats = r.fats
         /\ b.total16 = IF r.total < 65536 THEN r.total ELSE 0
         /\ b.total32 = IF r.total >= 65536 THEN r.total ELSE 0
    BY DEF Written, BootSector
  <1>11. SectorsOfFat(b) = g.spf
    BY <1>6, <1>9, <1>10 DEF SectorsOfFat, IsFat32
  <1>12. TotalSectors(b) = r.total
    BY <1>1, <1>10 DEF TotalSectors
  <1>13. RootDirSectors(b.rootEntries, b.bps) = root
    <2>1. CASE t = 32
      <3>1. RootDirSectors(0, r.bps) = 0
        BY <1>1 DEF RootDirSectors, CeilDiv
      <3>2. QED
        BY <1>1, <1>10, <2>1, <3>1 DEF root, RootFor
    <2>2. CASE t # 32
      BY <1>1, <1>10, <2>2 DEF root, RootFor
    <2>3. QED
      BY <2>1, <2>2
  <1> DEFINE copies == r.fats * g.spf
  <1>14. copies \in Int
    BY <1>1, <1>6, ProductIsInt
  <1>15. FirstDataSector(b) = g.reserved + copies + root
    BY <1>10, <1>11, <1>13 DEF FirstDataSector, RootDirStart
  <1>16. TotalClusters(b) = clusters
    <2>1. clusters = (t0 - copies) \div spc
      BY DEF clusters, DataClusters
    <2> HIDE DEF copies
    <2>2. TotalSectors(b) - FirstDataSector(b) = t0 - copies
      BY <1>1, <1>12, <1>14, <1>15 DEF t0
    <2>3. QED
      BY <1>1, <2>1, <2>2 DEF TotalClusters
  <1>17. FirstDataSector(b) \in Int /\ FirstDataSector(b) + TotalClusters(b) * b.spc <= r.total
    <2>1. clusters * spc \in Int
      BY <1>1, <1>6, ProductIsInt
    <2>2. clusters * spc <= t0 - copies
      BY <1>6 DEF RightFat
    <2> HIDE DEF copies
    <2>3. QED
      BY <1>1, <1>14, <1>15, <1>16, <2>1, <2>2 DEF t0
  <1>18. FatFits(g.spf, r.bps, t, clusters, dense)
    <2>1. t = 12 => g.spf <= 12
      BY <1>9
    <2>2. QED
      BY <1>1, <1>4, <1>6, <1>7, <2>1, EntriesFit
  <1>19. QED
    BY <1>6, <1>11, <1>12, <1>13, <1>16, <1>17, <1>18 DEF root, dense

\* Reading a boot sector back changes nothing that the geometry depends on.
LEMMA ReadBackKeeps ==
  ASSUME NEW r \in Requests, NEW t \in Types, NEW b, b = Written(r, t)
  PROVE  TotalClusters(ReadBack(b)) = TotalClusters(b)
  <1> DEFINE c == ReadBack(b)
  <1>1. /\ c.spf16 = b.spf16 /\ c.spc = b.spc /\ c.bps = b.bps /\ c.fats = b.fats
        /\ c.reserved = b.reserved /\ c.rootEntries = b.rootEntries
        /\ c.total16 = b.total16 /\ c.total32 = b.total32
        /\ b.spf16 = 0 => c.spf32 = b.spf32
    BY DEF ReadBack, IsFat32, Written, BootSector
  <1> HIDE DEF c
  <1>2. SectorsOfFat(c) = SectorsOfFat(b) /\ TotalSectors(c) = TotalSectors(b)
    BY <1>1 DEF SectorsOfFat, IsFat32, TotalSectors
  <1>3. FirstDataSector(c) = FirstDataSector(b)
    BY <1>1, <1>2 DEF FirstDataSector, RootDirStart
  <1>4. TotalClusters(c) = TotalClusters(b)
    BY <1>1, <1>2, <1>3 DEF TotalClusters
  <1>5. QED
    BY <1>4 DEF c

-----------------------------------------------------------------------------
(* The invariant: the boot sector is what format_volume makes of the       *)
(* request, and a mount has read the geometry from it.                     *)
LayoutInv ==
  /\ request \in Requests
  /\ volume = Blank \/ volume = Boot(request)
  /\ \/ mounted = Unmounted
     \/ /\ volume.outcome = "formatted"
        /\ mounted.type = FromClusters(TotalClusters(ReadBack(volume.boot)))
        /\ mounted.total = TotalClusters(ReadBack(volume.boot))

\* The boot sector is what format_volume makes of the request, and a mount
\* takes the type and the number of clusters from it alone.
THEOREM Invariant == Spec => []LayoutInv
  <1>1. Init => LayoutInv
    BY DEF Init, LayoutInv, Requests
  <1>2. LayoutInv /\ [Next]_vars => LayoutInv'
    <2> SUFFICES ASSUME LayoutInv, [Next]_vars PROVE LayoutInv'
      OBVIOUS
    <2>1. CASE Format
      <3>1. volume.outcome # "formatted"
        BY <2>1 DEF Format, Blank
      <3>2. QED
        BY <2>1, <3>1 DEF Format, LayoutInv
    <2>2. ASSUME NEW c \in Configs, Mount(c) PROVE LayoutInv'
      <3> DEFINE b == ReadBack(volume.boot)
      <3>1. /\ volume.outcome = "formatted" /\ UNCHANGED <<request, volume>>
            /\ mounted'.type = FromClusters(TotalClusters(b)) /\ mounted'.total = TotalClusters(b)
        BY <2>2 DEF Mount
      <3>2. QED
        BY <3>1 DEF LayoutInv
    <2>3. CASE UNCHANGED <<request, volume, mounted>>
      BY <2>3 DEF LayoutInv
    <2>4. ASSUME NEW slot, WriteSlot(slot) PROVE UNCHANGED <<request, volume, mounted>>
      BY <2>4 DEF WriteSlot
    <2>5. ASSUME NEW n, WriteAudit(n) PROVE UNCHANGED <<request, volume, mounted>>
      BY <2>5 DEF WriteAudit
    <2>6. CASE UNCHANGED vars
      BY <2>3, <2>6 DEF vars
    <2>7. QED
      BY <2>1, <2>2, <2>3, <2>4, <2>5, <2>6 DEF Next
  <1>3. QED
    BY <1>1, <1>2, PTL DEF Spec

LEMMA FormattedVolume ==
  ASSUME LayoutInv, volume.outcome = "formatted"
  PROVE  /\ request \in Requests
         /\ \E t \in Types : /\ FormattedAs(request, t)
                             /\ volume.as = t /\ volume.boot = Written(request, t)
  <1>1. request \in Requests /\ volume = Boot(request)
    BY DEF LayoutInv, Blank
  <1>2. PICK t \in Types : FormattedAs(request, t)
    BY <1>1, Formatted
  <1>3. volume.as = t /\ volume.boot = Written(request, t)
    BY <1>1, <1>2 DEF FormattedAs
  <1>4. QED
    BY <1>1, <1>2, <1>3

\* No cluster of a volume is handed out whose entry lies past the end of its
\* FAT, and the FAT is not two sectors larger than it must be
\* (determine_sectors_per_fat), whatever the size of the device and the
\* options of format_volume.
THEOREM EveryClusterHasAnEntry == Spec => []FatHoldsEveryCluster
  <1>1. LayoutInv => FatHoldsEveryCluster
    <2> SUFFICES ASSUME LayoutInv, volume.outcome = "formatted" PROVE FatHoldsEveryCluster
      BY DEF FatHoldsEveryCluster
    <2>1. PICK t \in Types : /\ FormattedAs(request, t)
                             /\ volume.as = t /\ volume.boot = Written(request, t)
      BY FormattedVolume
    <2> DEFINE r == request
               b == Written(r, t)
               g == Tried(r, t)
    <2>2. r \in Requests /\ g.fits /\ FromClusters(TotalClusters(b)) = t /\ Valid(b)
      BY <2>1, FormattedVolume DEF FormattedAs
    <2>3. b.bps = r.bps
      BY <2>2, Fields
    <2>4. SectorsOfFat(b) = g.spf /\ FatFits(g.spf, r.bps, t, TotalClusters(b), Dense(r.bps, t))
      BY <2>2, BootSectorReads
    <2>5. volume.boot = b /\ volume.as = t
      BY <2>1
    <2> HIDE DEF b, g
    <2>6. FatEntries(b) = (g.spf * r.bps * 8) \div t /\ (b.bps * 8) \div t = Dense(r.bps, t)
      BY <2>2, <2>3, <2>4 DEF FatEntries, Dense
    <2>7. /\ FatEntries(b) >= TotalClusters(b) + 2
          /\ FatEntries(b) - 2 <= TotalClusters(b) + 2 * ((b.bps * 8) \div t)
      BY <2>4, <2>6 DEF FatFits
    <2>8. QED
      BY <2>5, <2>7 DEF FatHoldsEveryCluster
  <1>2. QED
    BY <1>1, Invariant, PTL

\* A volume that was formatted is valid, is mounted as the type it was
\* formatted as, and has no cluster past the end of the device, whatever the
\* size of the device and the options of format_volume.
THEOREM FormattedVolumesMount == Spec => []MountsAsFormatted
  <1>1. LayoutInv => MountsAsFormatted
    <2> SUFFICES ASSUME LayoutInv PROVE MountsAsFormatted
      OBVIOUS
    <2>1. volume.outcome = "formatted" => Valid(volume.boot)
      BY FormattedVolume DEF FormattedAs
    <2>2. ASSUME mounted.type # NoType
          PROVE  /\ mounted.type = volume.as
                 /\ FirstDataSector(volume.boot) + mounted.total * volume.boot.spc <= request.total
      <3>1. /\ volume.outcome = "formatted"
            /\ mounted.type = FromClusters(TotalClusters(ReadBack(volume.boot)))
            /\ mounted.total = TotalClusters(ReadBack(volume.boot))
        BY <2>2 DEF LayoutInv, Unmounted
      <3>2. PICK t \in Types : /\ FormattedAs(request, t)
                               /\ volume.as = t /\ volume.boot = Written(request, t)
        BY <3>1, FormattedVolume
      <3> DEFINE r == request
                 b == Written(r, t)
      <3>3. r \in Requests /\ Tried(r, t).fits /\ FromClusters(TotalClusters(b)) = t /\ Valid(b)
        BY <3>1, <3>2, FormattedVolume DEF FormattedAs
      <3>4. TotalClusters(ReadBack(b)) = TotalClusters(b)
        BY <3>3, ReadBackKeeps
      <3>5. FirstDataSector(b) + TotalClusters(b) * b.spc <= r.total
        BY <3>3, BootSectorReads
      <3>6. volume.boot = b /\ volume.as = t
        BY <3>2
      <3> HIDE DEF b
      <3>7. QED
        BY <3>1, <3>3, <3>4, <3>5, <3>6, Zenon
    <2>3. QED
      BY <2>1, <2>2 DEF MountsAsFormatted
  <1>2. QED
    BY <1>1, Invariant, PTL

-----------------------------------------------------------------------------
(* The transaction log.                                                    *)

\* A log that was given sectors of its own: reserved ones, past those of the
\* boot sector, of FSInfo and of the backup; and there is no audit log.
OwnSectors(c, b) ==
  /\ c.log[1] \in Nat /\ c.log[2] \in Nat
  /\ c.log[1] > (IF IsFat32(b) THEN Max2(b.fsInfo, b.backup) ELSE 0)
  /\ c.log[1] + c.log[2] <= b.reserved
  /\ ~Audited(c)
LogsHaveSectors == volume.outcome = "formatted" => \A c \in Configs : OwnSectors(c, volume.boot)

LogInv ==
  /\ damaged = {}
  /\ \/ mounted = Unmounted
     \/ /\ volume.outcome = "formatted"
        /\ \E c \in Configs : mounted.log = c.log /\ mounted.audited = Audited(c)

\* The FAT, the root directory and the data follow the reserved sectors.
LEMMA RegionsInOrder ==
  ASSUME LayoutInv, volume.outcome = "formatted", SectorSizes = {512}, NEW b, b = volume.boot
  PROVE  /\ b.reserved \in Int /\ b.bps = 512 /\ RootDirStart(b) \in Int /\ FirstDataSector(b) \in Int
         /\ b.reserved <= RootDirStart(b) /\ RootDirStart(b) <= FirstDataSector(b)
         /\ IsFat32(b) => b.fsInfo = 1 /\ b.backup = 6
  <1>1. PICK t \in Types : FormattedAs(request, t) /\ b = Written(request, t)
    BY FormattedVolume
  <1> DEFINE r == request
             g == Tried(r, t)
  <1>2. r \in Requests /\ g.fits /\ FromClusters(TotalClusters(b)) = t /\ Valid(b)
    BY <1>1, FormattedVolume DEF FormattedAs
  <1>3. /\ r.fats \in {1, 2} /\ g.reserved \in Int /\ RootFor(t, r.rootEntries, r.bps) \in Nat
        /\ b.bps = r.bps
    BY <1>1, <1>2, Fields
  <1>4. r.bps = 512
    BY <1>2 DEF Requests
  <1>5. /\ g.spf \in Nat \ {0} /\ SectorsOfFat(b) = g.spf
        /\ RootDirSectors(b.rootEntries, b.bps) = RootFor(t, r.rootEntries, r.bps)
    BY <1>1, <1>2, BootSectorReads
  <1>6. /\ b.fats = r.fats /\ b.reserved = g.reserved
        /\ b.fsInfo = (IF t = 32 THEN 1 ELSE 0) /\ b.backup = (IF t = 32 THEN 6 ELSE 0)
    BY <1>1 DEF Written, BootSector
  <1>7. IsFat32(b) => t = 32
    BY <1>2 DEF Valid, ValidCounts
  <1> HIDE DEF r, g
  <1>8. r.fats * g.spf \in Nat
    BY <1>3, <1>5, ProductIsNat
  <1>9. RootDirStart(b) = g.reserved + r.fats * g.spf
    BY <1>5, <1>6 DEF RootDirStart
  <1>10. FirstDataSector(b) = RootDirStart(b) + RootFor(t, r.rootEntries, r.bps)
    BY <1>5 DEF FirstDataSector
  <1>11. QED
    BY <1>3, <1>4, <1>6, <1>7, <1>8, <1>9, <1>10

\* A log with sectors of its own damages nothing.
LEMMA NothingHit ==
  ASSUME LayoutInv, volume.outcome = "formatted", SectorSizes = {512}, NEW b, b = volume.boot,
         NEW sector \in Nat, sector < b.reserved,
         sector > (IF IsFat32(b) THEN Max2(b.fsInfo, b.backup) ELSE 0)
  PROVE  Hit(b, sector, 512) = {}
  <1>1. /\ b.reserved \in Int /\ b.bps = 512 /\ RootDirStart(b) \in Int /\ FirstDataSector(b) \in Int
        /\ b.reserved <= RootDirStart(b) /\ RootDirStart(b) <= FirstDataSector(b)
        /\ IsFat32(b) => b.fsInfo = 1 /\ b.backup = 6
    BY RegionsInOrder
  <1>2. (sector * 512) \div b.bps = sector /\ CeilDiv(sector * 512 + 512, b.bps) = sector + 1
    BY <1>1 DEF CeilDiv
  <1>3. sector >= 1 /\ (IsFat32(b) => sector >= 7)
    BY <1>1 DEF Max2
  <1>4. ASSUME NEW h \in Regions(b) PROVE ~(h[2] < sector + 1 /\ sector < h[3])
    <2>1. CASE h = <<"boot", 0, 1>>
      BY <1>3, <2>1
    <2>2. CASE h = <<"fat", b.reserved, RootDirStart(b)>>
      BY <1>1, <2>2
    <2>3. CASE h = <<"root", RootDirStart(b), FirstDataSector(b)>>
      BY <1>1, <2>3
    <2>4. CASE h = <<"data", FirstDataSector(b), TotalSectors(b)>>
      BY <1>1, <2>4
    <2>5. CASE IsFat32(b) /\ h \in {<<"fsinfo", b.fsInfo, b.fsInfo + 1>>, <<"backup", b.backup, b.backup + 1>>}
      BY <1>1, <1>3, <2>5
    <2>6. QED
      BY <2>1, <2>2, <2>3, <2>4, <2>5 DEF Regions
  <1>5. QED
    BY <1>2, <1>4 DEF Hit

\* A transaction log that is given reserved sectors of its own is never
\* written over the volume: what damages it is the automatic placing, sectors
\* of more than 512 bytes, or the audit log.
THEOREM OwnSectorsSpareTheVolume ==
  ASSUME SectorSizes = {512}
  PROVE  Spec /\ []LogsHaveSectors => []LogSparesTheVolume
  <1>1. Init => LogInv
    BY DEF Init, LogInv
  <1>2. LayoutInv /\ LogsHaveSectors /\ LogInv /\ [Next]_vars => LogInv'
    <2> SUFFICES ASSUME LayoutInv, LogsHaveSectors, LogInv, [Next]_vars PROVE LogInv'
      OBVIOUS
    <2>1. CASE Format
      <3>1. volume.outcome # "formatted"
        BY <2>1 DEF Format, Blank
      <3>2. QED
        BY <2>1, <3>1 DEF Format, LogInv
    <2>2. ASSUME NEW c \in Configs, Mount(c) PROVE LogInv'
      <3>1. volume.outcome = "formatted" /\ UNCHANGED <<volume, damaged>>
            /\ mounted'.log = LogPlace(ReadBack(volume.boot), c.log) /\ mounted'.audited = Audited(c)
        BY <2>2 DEF Mount
      <3>2. c.log[1] # 0
        <4>1. OwnSectors(c, volume.boot)
          BY <2>2, <3>1 DEF LogsHaveSectors
        <4>2. IsFat32(volume.boot) => volume.boot.fsInfo = 1 /\ volume.boot.backup = 6
          BY <3>1, RegionsInOrder
        <4>3. QED
          BY <4>1, <4>2 DEF OwnSectors, Max2
      <3>3. mounted'.log = c.log
        BY <3>1, <3>2 DEF LogPlace
      <3>4. QED
        BY <3>1, <3>3 DEF LogInv
    <2>3. ASSUME NEW slot \in 0 .. MaxTransactions - 1, WriteSlot(slot) PROVE LogInv'
      <3>1. slot \in Nat /\ slot < mounted.log[2]
        BY <2>3 DEF WriteSlot, MaxTransactions
      <3>2. mounted # Unmounted
        BY <3>1 DEF Unmounted
      <3>3. PICK c \in Configs : mounted.log = c.log
        BY <3>2 DEF LogInv
      <3>4. volume.outcome = "formatted" /\ OwnSectors(c, volume.boot)
        BY <3>2 DEF LogInv, LogsHaveSectors
      <3> DEFINE sector == mounted.log[1] + slot
                 b == volume.boot
      <3>5. /\ sector \in Nat /\ sector < b.reserved
            /\ sector > (IF IsFat32(b) THEN Max2(b.fsInfo, b.backup) ELSE 0)
        <4>1. /\ c.log[1] \in Nat /\ c.log[2] \in Nat /\ c.log[1] + c.log[2] <= b.reserved
              /\ c.log[1] > (IF IsFat32(b) THEN Max2(b.fsInfo, b.backup) ELSE 0)
          BY <3>4 DEF OwnSectors
        <4>2. b.reserved \in Int /\ (IsFat32(b) => b.fsInfo = 1 /\ b.backup = 6)
          BY <3>4, RegionsInOrder
        <4> HIDE DEF b
        <4>3. QED
          BY <3>1, <3>3, <4>1, <4>2 DEF Max2
      <3> HIDE DEF sector
      <3>6. Hit(b, sector, 512) = {}
        BY <3>4, <3>5, NothingHit
      <3>7. damaged' = damaged \cup Hit(b, sector, 512) /\ UNCHANGED <<volume, mounted>>
        BY <2>3 DEF WriteSlot, sector
      <3>8. QED
        BY <3>6, <3>7 DEF LogInv
    <2>4. ASSUME NEW n, WriteAudit(n) PROVE FALSE
      <3>1. mounted.audited
        BY <2>4 DEF WriteAudit
      <3>2. Unmounted.audited = FALSE
        BY DEF Unmounted
      <3>3. mounted # Unmounted
        BY <3>1, <3>2, Zenon
      <3>4. PICK c \in Configs : mounted.audited = Audited(c)
        BY <3>3 DEF LogInv
      <3>5. volume.outcome = "formatted"
        BY <3>3 DEF LogInv
      <3>6. ~Audited(c)
        BY <3>5 DEF LogsHaveSectors, OwnSectors
      <3>7. QED
        BY <3>1, <3>4, <3>6, Zenon
    <2>5. CASE UNCHANGED vars
      BY <2>5 DEF vars, LogInv
    <2>6. QED
      BY <2>1, <2>2, <2>3, <2>4, <2>5 DEF Next
  <1>3. LogInv => LogSparesTheVolume
    BY DEF LogInv, LogSparesTheVolume
  <1>4. QED
    BY <1>1, <1>2, <1>3, Invariant, PTL DEF Spec

-----------------------------------------------------------------------------
(* The trail of the audit log (AuditLog).                                  *)

Trails == Seq(Nat \ {Garbled})

\* What a flush has written, and what memory holds, are the newest entries, but
\* after a flush that was cut short.
AuditInv ==
  /\ trail \in Trails /\ flushed \in Trails
  /\ spoilt \in [memory : BOOLEAN, disk : BOOLEAN]
  /\ ~spoilt.memory => buffer = Newest(trail)
  /\ ~spoilt.disk => disk = Newest(flushed)

LEMMA NewestAre ==
  ASSUME AuditAssumption, NEW t \in Trails
  PROVE  /\ Newest(t) \in Trails /\ Len(Newest(t)) = (IF Len(t) > Slots THEN Slots ELSE Len(t))
         /\ \A i \in 1 .. Len(Newest(t)) :
              Newest(t)[i] = t[IF Len(t) > Slots THEN Len(t) - Slots + i ELSE i]
  <1> DEFINE m == IF Len(t) > Slots THEN Len(t) - Slots + 1 ELSE 1
             s == SubSeq(t, m, Len(t))
  <1>1. Len(t) \in Nat /\ Slots \in Nat \ {0}
    BY LenProperties DEF Trails, AuditAssumption
  <1>2. m \in Nat \ {0} /\ m <= Len(t) + 1
    BY <1>1
  <1>3. \A i \in m .. Len(t) : t[i] \in Nat \ {Garbled}
    BY <1>1, <1>2, ElementOfSeq DEF Trails
  <1> HIDE DEF m
  <1>4. /\ s \in Seq(Nat \ {Garbled}) /\ Len(s) = IF m <= Len(t) THEN Len(t) - m + 1 ELSE 0
        /\ \A i \in 1 .. Len(t) - m + 1 : s[i] = t[m + i - 1]
    BY <1>1, <1>2, <1>3, SubSeqProperties
  <1>5. Newest(t) = s
    BY DEF Newest, m
  <1> HIDE DEF s
  <1>6. Len(s) = Len(t) - m + 1
    BY <1>1, <1>2, <1>4
  <1>7. Len(s) = (IF Len(t) > Slots THEN Slots ELSE Len(t))
    BY <1>1, <1>6 DEF m
  <1>8. ASSUME NEW i \in 1 .. Len(s)
        PROVE  s[i] = t[IF Len(t) > Slots THEN Len(t) - Slots + i ELSE i]
    <2>1. m + i - 1 = IF Len(t) > Slots THEN Len(t) - Slots + i ELSE i
      BY <1>1 DEF m
    <2>2. QED
      BY <1>4, <1>6, <2>1
  <1>9. QED
    BY <1>4, <1>5, <1>7, <1>8 DEF Trails

\* A full buffer drops its oldest entry, as the newest of a longer trail do.
LEMMA NewestPushed ==
  ASSUME AuditAssumption, NEW t \in Trails, NEW e \in Nat \ {Garbled}
  PROVE  Append(t, e) \in Trails /\ Pushed(Newest(t), e) = Newest(Append(t, e))
  <1> DEFINE a == Append(t, e)
             n == Newest(t)
             p == Pushed(n, e)
             q == Newest(a)
  <1>1. Slots \in Nat \ {0} /\ Len(t) \in Nat
    BY LenProperties DEF AuditAssumption, Trails
  <1>2. a \in Trails /\ Len(a) = Len(t) + 1
        /\ \A i \in 1 .. Len(t) + 1 : a[i] = IF i = Len(t) + 1 THEN e ELSE t[i]
    BY AppendProperties DEF Trails
  <1> HIDE DEF a
  <1>3. n \in Trails /\ Len(n) = (IF Len(t) > Slots THEN Slots ELSE Len(t))
        /\ \A i \in 1 .. Len(n) : n[i] = t[IF Len(t) > Slots THEN Len(t) - Slots + i ELSE i]
    BY NewestAre
  <1>4. q \in Trails /\ Len(q) = (IF Len(a) > Slots THEN Slots ELSE Len(a))
        /\ \A i \in 1 .. Len(q) : q[i] = a[IF Len(a) > Slots THEN Len(a) - Slots + i ELSE i]
    BY <1>2, NewestAre
  <1> HIDE DEF n, q
  <1>5. p \in Trails /\ Len(p) = Len(q) /\ \A i \in 1 .. Len(q) : p[i] = q[i]
    <2>1. CASE Len(n) < Slots
      <3>1. p = Append(n, e)
        BY <2>1 DEF Pushed
      <3>2. p \in Trails /\ Len(p) = Len(n) + 1
            /\ \A i \in 1 .. Len(n) + 1 : p[i] = IF i = Len(n) + 1 THEN e ELSE n[i]
        BY <1>3, <3>1, AppendProperties DEF Trails
      <3> HIDE DEF p
      <3>3. Len(n) = Len(t) /\ Len(t) < Slots
        BY <1>1, <1>3, <2>1
      <3>4. Len(q) = Len(n) + 1
        BY <1>1, <1>2, <1>4, <3>3
      <3>5. ASSUME NEW i \in 1 .. Len(q) PROVE p[i] = q[i]
        <4>1. q[i] = a[i]
          BY <1>1, <1>2, <1>4, <3>3
        <4>2. QED
          BY <4>1, <1>1, <1>2, <1>3, <3>2, <3>3, <3>4
      <3>6. QED
        BY <3>2, <3>4, <3>5
    <2>2. CASE ~(Len(n) < Slots)
      <3>1. Len(n) = Slots /\ Len(t) >= Slots /\ n # <<>>
        BY <1>1, <1>3, <2>2
      <3>2. Tail(n) \in Seq(Nat \ {Garbled}) /\ Len(Tail(n)) = Slots - 1
            /\ \A i \in 1 .. Slots - 1 : Tail(n)[i] = n[i + 1]
        BY <1>3, <3>1, HeadTailProperties DEF Trails
      <3>3. p = Append(Tail(n), e)
        BY <2>2 DEF Pushed
      <3> DEFINE r == Tail(n)
      <3> HIDE DEF r
      <3>4. p \in Trails /\ Len(p) = Slots
            /\ \A i \in 1 .. Slots : p[i] = IF i = Slots THEN e ELSE r[i]
        BY <1>1, <3>2, <3>3, AppendProperties DEF Trails, r
      <3> HIDE DEF p
      <3>5. Len(q) = Slots
        BY <1>1, <1>2, <1>4, <3>1
      <3>6. ASSUME NEW i \in 1 .. Len(q) PROVE p[i] = q[i]
        <4>1. q[i] = a[Len(t) + 1 - Slots + i]
          BY <1>1, <1>2, <1>4, <3>1, <3>5
        <4>2. CASE i = Slots
          BY <4>1, <4>2, <1>1, <1>2, <3>4
        <4>3. CASE i # Slots
          <5>1. p[i] = n[i + 1]
            BY <4>3, <1>1, <3>2, <3>4, <3>5 DEF r
          <5>2. n[i + 1] = t[Len(t) - Slots + i + 1]
            <6>1. i + 1 \in 1 .. Len(n)
              BY <4>3, <1>1, <3>1, <3>5
            <6>2. n[i + 1] = t[IF Len(t) > Slots THEN Len(t) - Slots + (i + 1) ELSE i + 1]
              BY <6>1, <1>3
            <6>3. (IF Len(t) > Slots THEN Len(t) - Slots + (i + 1) ELSE i + 1) = Len(t) - Slots + i + 1
              BY <1>1, <3>1
            <6>4. QED
              BY <6>2, <6>3
          <5>3. a[Len(t) + 1 - Slots + i] = t[Len(t) - Slots + i + 1]
            <6>1. Len(t) + 1 - Slots + i = Len(t) - Slots + i + 1 /\ Len(t) - Slots + i + 1 \in 1 .. Len(t)
              BY <4>3, <1>1, <3>1, <3>5
            <6>2. QED
              BY <6>1, <1>1, <1>2
          <5>4. QED
            BY <4>1, <5>1, <5>2, <5>3
        <4>4. QED
          BY <4>2, <4>3
      <3>7. QED
        BY <3>4, <3>5, <3>6
    <2>3. QED
      BY <2>1, <2>2
  <1> HIDE DEF p
  <1>6. p = q
    BY <1>4, <1>5, SeqEqual DEF Trails
  <1>7. QED
    BY <1>2, <1>6 DEF a, p, n, q

LEMMA NextEntryIs ==
  ASSUME trail \in Trails PROVE NextEntry \in Nat \ {Garbled}
  <1>1. CASE trail = <<>>
    BY <1>1 DEF NextEntry, Garbled
  <1>2. CASE trail # <<>>
    <2>1. Len(trail) \in Nat /\ Len(trail) # 0
      BY <1>2, EmptySeq, LenProperties DEF Trails
    <2>2. Last(trail) \in Nat \ {0}
      BY <2>1, ElementOfSeq DEF Last, Trails, Garbled
    <2>3. QED
      BY <1>2, <2>2 DEF NextEntry, Garbled
  <1>3. QED
    BY <1>1, <1>2

LEMMA NewestOfNone == ASSUME AuditAssumption PROVE Newest(<<>>) = <<>>
  <1>1. <<>> \in Trails /\ Len(<<>>) = 0
    BY EmptySeq DEF Trails
  <1>2. Newest(<<>>) \in Trails /\ Len(Newest(<<>>)) = 0
    BY <1>1, NewestAre DEF AuditAssumption
  <1>3. QED
    BY <1>2, EmptySeq DEF Trails

LEMMA MountReads ==
  ASSUME AuditAssumption, AuditInv, MountLog, ~spoilt.disk
  PROVE  /\ buffer' = IF Len(Newest(flushed)) <= Room THEN Newest(flushed) ELSE <<>>
         /\ buffer' = Newest(trail')
  <1>1. disk = Newest(flushed) /\ flushed \in Trails
    BY DEF AuditInv
  <1>2. disk \in Trails /\ Len(disk) \in Nat /\ Room \in Nat
    BY <1>1, NewestAre, LenProperties DEF AuditAssumption, Trails
  <1>3. ~(\E i \in DOMAIN disk : disk[i] = Garbled)
    BY <1>2, LenProperties, ElementOfSeq DEF Trails
  <1>4. buffer' = Loaded(disk) /\ trail' = IF Len(disk) > Room THEN <<>> ELSE flushed
    BY <1>3 DEF MountLog
  <1>5. CASE Len(disk) > Room
    <2>1. Newest(<<>>) = <<>>
      BY NewestOfNone
    <2>2. buffer' = <<>> /\ trail' = <<>> /\ ~(Len(Newest(flushed)) <= Room)
      BY <1>1, <1>2, <1>4, <1>5 DEF Loaded
    <2>3. QED
      BY <2>1, <2>2
  <1>6. CASE ~(Len(disk) > Room)
    <2>1. buffer' = disk /\ trail' = flushed /\ Len(Newest(flushed)) <= Room
      BY <1>1, <1>2, <1>4, <1>6 DEF Loaded
    <2>2. QED
      BY <1>1, <2>1
  <1>7. QED
    BY <1>5, <1>6

LEMMA AuditStep ==
  ASSUME AuditAssumption, AuditInv, [AuditNext]_auditVars PROVE AuditInv'
  <1>2. ASSUME NEW op \in DOMAIN Operations, Log(op) PROVE AuditInv'
    <2>1. CASE UNCHANGED <<buffer, dirty, trail>>
      BY <1>2, <2>1 DEF AuditInv, Log
    <2>2. CASE buffer' = Pushed(buffer, NextEntry) /\ trail' = Append(trail, NextEntry)
      <3>1. trail' \in Trails /\ Pushed(Newest(trail), NextEntry) = Newest(trail')
        BY <2>2, NextEntryIs, NewestPushed DEF AuditInv
      <3>2. UNCHANGED <<flushed, spoilt, disk>>
        BY <1>2 DEF Log
      <3>3. QED
        BY <2>2, <3>1, <3>2 DEF AuditInv
    <2>3. QED
      BY <1>2, <2>1, <2>2 DEF Log
  <1>3. CASE Flush
    BY <1>3 DEF AuditInv, Flush
  <1>4. CASE FlushFails
    BY <1>4 DEF AuditInv, FlushFails
  <1>5. CASE MountLog
    <2>1. trail' \in Trails /\ flushed' = flushed
      <3>1. <<>> \in Trails
        BY EmptySeq DEF Trails
      <3>2. QED
        BY <3>1, <1>5 DEF AuditInv, MountLog
    <2>2. spoilt' = [spoilt EXCEPT !.memory = spoilt.disk] /\ spoilt \in [memory : BOOLEAN, disk : BOOLEAN]
          /\ disk' = disk
      BY <1>5 DEF MountLog, AuditInv
    <2>3. spoilt' \in [memory : BOOLEAN, disk : BOOLEAN] /\ spoilt'.memory = spoilt.disk /\ spoilt'.disk = spoilt.disk
      BY <2>2
    <2>4. ~spoilt.disk => buffer' = Newest(trail') /\ disk' = Newest(flushed')
      BY <1>5, <2>1, <2>2, MountReads DEF AuditInv
    <2>5. QED
      BY <2>1, <2>3, <2>4 DEF AuditInv
  <1>6. CASE UNCHANGED auditVars
    BY <1>6 DEF AuditInv, auditVars
  <1>7. QED
    BY <1>2, <1>3, <1>4, <1>5, <1>6 DEF AuditNext

LEMMA AuditStarts ==
  ASSUME AuditAssumption, AuditInit PROVE AuditInv
  <1>1. <<>> \in Trails
    BY EmptySeq DEF Trails
  <1>2. QED
    BY <1>1, NewestOfNone DEF AuditInit, AuditInv

\* However long the log has been running, and whatever mounts and failed flushes
\* there were before, the mount after a flush that succeeded reads the entries of
\* that flush, or none if the sectors of the log have no room for them.
THEOREM FlushesAreRead ==
  ASSUME AuditAssumption PROVE AuditSpec => FlushedIsRead
  <1>1. AuditInv /\ [AuditNext]_auditVars => AuditInv' /\ FlushRead
    BY AuditStep, MountReads DEF FlushRead
  <1>2. QED
    BY <1>1, AuditStarts, PTL DEF AuditSpec, FlushedIsRead

LEMMA LeastOf ==
  ASSUME NEW S \in SUBSET Nat, S # {}
  PROVE  \E x \in S : \A y \in S : x <= y
  <1> DEFINE Less == OpToRel(<, Nat)
  <1>1. IsWellFoundedOn(Less, Nat)
    BY NatLessThanWellFounded
  <1>2. \A x, y \in Nat : y < x => <<y, x>> \in Less
    BY DEF OpToRel
  <1> HIDE DEF Less
  <1>3. PICK x \in S : \A y \in S : <<y, x>> \notin Less
    BY <1>1, WFMin
  <1>4. ASSUME NEW y \in S PROVE x <= y
    <2>1. ~(y < x) /\ x \in Nat /\ y \in Nat
      BY <1>2, <1>3
    <2>2. QED
      BY <2>1
  <1>5. QED
    BY <1>4

\* A set of numbers up to a limit has a greatest one.
LEMMA GreatestOf ==
  ASSUME NEW n \in Nat, NEW S \in SUBSET (0 .. n), S # {}
  PROVE  \E x \in S : \A y \in S : y <= x
  <1> DEFINE T == {t \in Nat : \E x \in S : t = n - x}
  <1>2. \A x \in S : n - x \in T
    OBVIOUS
  <1>1. T \in SUBSET Nat /\ T # {}
    BY <1>2
  <1>3. \A t \in T : \E x \in S : t = n - x
    OBVIOUS
  <1> HIDE DEF T
  <1>4. PICK t \in T : \A u \in T : t <= u
    BY <1>1, LeastOf
  <1>5. PICK x \in S : t = n - x
    BY <1>3
  <1>6. \A y \in S : y <= x
    BY <1>2, <1>4, <1>5
  <1>7. QED
    BY <1>6

\* What holds of 0, and of a number when it holds of the one before, holds of
\* all numbers up to n.
LEMMA UpTo ==
  ASSUME NEW n \in Nat, NEW Good, 0 \in Good,
         \A i \in 1 .. n : i - 1 \in Good => i \in Good
  PROVE  \A i \in 0 .. n : i \in Good
  <1> DEFINE Bad == {i \in 0 .. n : i \notin Good}
  <1> SUFFICES ASSUME Bad # {} PROVE FALSE
    OBVIOUS
  <1>0. Bad \in SUBSET Nat
    OBVIOUS
  <1> HIDE DEF Bad
  <1>1. PICK m \in Bad : \A k \in Bad : m <= k
    BY <1>0, LeastOf
  <1> USE DEF Bad
  <1>2. m \in 1 .. n /\ m - 1 \notin Bad
    BY <1>1
  <1>3. QED
    BY <1>1, <1>2

-----------------------------------------------------------------------------
(* Short names (ShortNameGenerator).                                       *)

\* The characters of short names.
Chars == STRING \cup {"_", "~", " "} \cup {ToString(i) : i \in Nat}

\* The states copy_short_name_part goes through.
IsCopy(src, max, n, f) ==
  f = [i \in 0 .. n |->
         IF i = 0 THEN [out |-> <<>>, fits |-> TRUE, lossy |-> FALSE]
         ELSE Copy(src[i], f[i - 1], max)]

LEMMA CopyExists ==
  ASSUME NEW src, NEW max, NEW n \in Nat
  PROVE  \E f : IsCopy(src, max, n, f)
  <1> DEFINE Good == {i \in Nat : \E g : IsCopy(src, max, i, g)}
             start == [out |-> <<>>, fits |-> TRUE, lossy |-> FALSE]
  <1> HIDE DEF start
  <1>1. 0 \in Good
    <2> DEFINE g == [i \in 0 .. 0 |-> start]
    <2>1. g = [i \in 0 .. 0 |-> IF i = 0 THEN start ELSE Copy(src[i], g[i - 1], max)]
      OBVIOUS
    <2>2. QED
      BY <2>1 DEF IsCopy, start
  <1>2. ASSUME NEW i \in 1 .. n, i - 1 \in Good PROVE i \in Good
    <2>1. PICK g : IsCopy(src, max, i - 1, g)
      BY <1>2
    <2> DEFINE f == [j \in 0 .. i |-> IF j = i THEN Copy(src[i], g[i - 1], max) ELSE g[j]]
    <2>2. ASSUME NEW j \in 0 .. i
          PROVE  f[j] = IF j = 0 THEN start ELSE Copy(src[j], f[j - 1], max)
      <3>1. CASE j = i
        <4>1. j # 0 /\ j - 1 \in 0 .. i /\ j - 1 # i
          BY <3>1
        <4>2. QED
          BY <3>1, <4>1
      <3>2. CASE j # i
        <4>1. j \in 0 .. i - 1 /\ (j # 0 => j - 1 \in 0 .. i /\ j - 1 # i)
          BY <3>2
        <4>2. g[j] = IF j = 0 THEN start ELSE Copy(src[j], g[j - 1], max)
          BY <2>1, <4>1 DEF IsCopy, start
        <4>3. QED
          BY <3>2, <4>1, <4>2
      <3>3. QED
        BY <3>1, <3>2
    <2>3. f = [j \in 0 .. i |-> f[j]]
      OBVIOUS
    <2> HIDE DEF f
    <2>4. IsCopy(src, max, i, f)
      BY <2>2, <2>3 DEF IsCopy, start
    <2>5. i \in Nat
      OBVIOUS
    <2>6. QED
      BY <2>4, <2>5
  <1> HIDE DEF Good
  <1>3. n \in Good
    <2>1. \A i \in 0 .. n : i \in Good
      BY <1>1, <1>2, UpTo
    <2>2. QED
      BY <2>1
  <1>4. QED
    BY <1>3 DEF Good

\* copy_short_name_part gives a sequence of characters.
LEMMA CopyGives ==
  ASSUME NEW src \in Seq(Chars), NEW max
  PROVE  CopyPart(src, max).out \in Seq(Chars)
  <1> DEFINE n == Len(src)
             read == CHOOSE f : IsCopy(src, max, n, f)
             Good == {i \in 0 .. n : read[i].out \in Seq(Chars)}
  <1>1. n \in Nat
    BY LenProperties
  <1>2. CopyPart(src, max) = read[n]
    BY DEF CopyPart, IsCopy
  <1>3. IsCopy(src, max, n, read)
    BY <1>1, CopyExists
  <1> HIDE DEF read, n
  <1>4. 0 \in Good
    <2>1. read[0].out = <<>>
      BY <1>1, <1>3 DEF IsCopy
    <2>2. <<>> \in Seq(Chars) /\ 0 \in 0 .. n
      BY <1>1, EmptySeq
    <2>3. QED
      BY <2>1, <2>2
  <1>5. ASSUME NEW i \in 1 .. n, i - 1 \in Good PROVE i \in Good
    <2>1. i \in 0 .. n /\ i # 0 /\ read[i - 1].out \in Seq(Chars)
      BY <1>5
    <2>2. read[i] = Copy(src[i], read[i - 1], max)
      BY <1>3, <2>1 DEF IsCopy
    <2>3. "_" \in Chars
      BY DEF Chars
    <2>4. src[i] \in Chars
      BY ElementOfSeq DEF n
    <2> DEFINE r == read[i - 1]
               c == IF src[i] \in Plain THEN src[i] ELSE "_"
    <2> HIDE DEF r
    <2>5. Copy(src[i], r, max).out \in Seq(Chars)
      <3>1. c \in Chars
        BY <2>3, <2>4
      <3> HIDE DEF c
      <3>2. Append(r.out, c) \in Seq(Chars)
        BY <2>1, <3>1, AppendProperties DEF r
      <3>3. Copy(src[i], r, max).out \in {r.out, Append(r.out, c)}
        BY DEF Copy, c
      <3>4. QED
        BY <2>1, <3>2, <3>3 DEF r
    <2>6. QED
      BY <2>1, <2>2, <2>5 DEF r
  <1> HIDE DEF Good
  <1>6. \A i \in 0 .. n : i \in Good
    BY <1>1, <1>4, <1>5, UpTo
  <1>7. QED
    BY <1>1, <1>2, <1>6 DEF Good

LEMMA SubSeqIs ==
  ASSUME NEW S, NEW s \in Seq(S), NEW m \in Nat, m <= Len(s)
  PROVE  SubSeq(s, 1, m) \in Seq(S)
  <1>1. \A i \in 1 .. m : s[i] \in S
    BY LenProperties, ElementOfSeq
  <1>2. QED
    BY <1>1, SubSeqProperties

LEMMA PrefixIs ==
  ASSUME NEW b, b.base \in Seq(Chars), NEW n \in Nat PROVE Prefix(b, n) \in Seq(Chars)
  <1>1. Len(b.base) \in Nat
    BY LenProperties
  <1>2. QED
    BY <1>1, SubSeqIs DEF Prefix

LEMMA BasisIs ==
  ASSUME NamesAssumption, NEW name \in LongNames PROVE Basis(name).base \in Seq(Chars)
  <1> DEFINE dots == {i \in 2 .. Len(name) : name[i] = "."}
             dot == IF dots = {} THEN Len(name) + 1 ELSE CHOOSE i \in dots : \A j \in dots : j <= i
             src == SubSeq(name, 1, dot - 1)
  <1>1. name \in Seq(STRING) /\ STRING \subseteq Chars
    BY DEF NamesAssumption, Chars
  <1>2. name \in Seq(Chars) /\ Len(name) \in Nat
    BY <1>1, SeqMonotonic, LenProperties
  <1>3. dot \in 1 .. Len(name) + 1
    <2>1. CASE dots = {}
      BY <1>2, <2>1
    <2>2. CASE dots # {}
      <3>1. dots \in SUBSET (0 .. Len(name)) /\ \A i \in dots : i >= 2
        BY <1>2
      <3> HIDE DEF dots
      <3>2. \E i \in dots : \A j \in dots : j <= i
        BY <1>2, <2>2, <3>1, GreatestOf
      <3> DEFINE d == CHOOSE i \in dots : \A j \in dots : j <= i
      <3>3. d \in dots
        BY <3>2
      <3>4. dot = d
        BY <2>2
      <3> HIDE DEF d, dot
      <3>5. d \in 0 .. Len(name) /\ d >= 2
        BY <3>1, <3>3
      <3>6. QED
        BY <1>2, <3>4, <3>5
    <2>3. QED
      BY <2>1, <2>2
  <1>4. Basis(name).base = CopyPart(src, BaseLen).out
    BY DEF Basis
  <1> HIDE DEF dot
  <1>5. src \in Seq(Chars)
    BY <1>2, <1>3, SubSeqIs
  <1>6. QED
    BY <1>4, <1>5, CopyGives

\* What a numbered form begins with: it is found in use if the form is.
LEMMA StemIs ==
  ASSUME NamesAssumption, NEW b, b.base \in Seq(Chars),
         NEW sum, sum = {} \/ \E n \in 0 .. Sums - 1 : sum = {n}, NEW i \in Nat
  PROVE  Stem(b, sum) \o <<"~", ToString(i)>> \in Seq(Chars) \ {<<>>}
  <1>1. PrefixLen \in Nat /\ ShortPrefixLen \in Nat
    BY DEF NamesAssumption
  <1>2. Prefix(b, PrefixLen) \in Seq(Chars) /\ Prefix(b, ShortPrefixLen) \in Seq(Chars)
    BY <1>1, PrefixIs
  <1>3. Stem(b, sum) \in Seq(Chars)
    <2>1. CASE sum = {}
      BY <1>2, <2>1 DEF Stem
    <2>2. ASSUME NEW n \in 0 .. Sums - 1, sum = {n} PROVE Stem(b, sum) \in Seq(Chars)
      <3>1. Hex(n) \in Seq(Chars)
        <4>1. Hex(n) \in Seq(STRING) /\ STRING \subseteq Chars
          BY DEF NamesAssumption, Chars
        <4>2. QED
          BY <4>1, SeqMonotonic
      <3>2. (CHOOSE x \in sum : TRUE) = n /\ sum # {}
        BY <2>2
      <3>3. Stem(b, sum) = Prefix(b, ShortPrefixLen) \o Hex(n)
        BY <3>2 DEF Stem
      <3>4. QED
        BY <1>2, <3>1, <3>3, ConcatProperties
    <2>3. QED
      BY <2>1, <2>2
  <1> DEFINE t == <<"~", ToString(i)>>
  <1>4. t \in Seq(Chars) /\ Len(t) = 2
    <2>1. "~" \in Chars /\ ToString(i) \in Chars
      BY DEF Chars
    <2>2. QED
      BY <2>1
  <1> DEFINE q == Stem(b, sum)
  <1> HIDE DEF t, q
  <1>5. q \o t \in Seq(Chars) /\ Len(q \o t) = Len(q) + 2
    <2>1. q \in Seq(Chars)
      BY <1>3 DEF q
    <2>2. q \o t \in Seq(Chars) /\ Len(q \o t) = Len(q) + Len(t)
      BY <1>4, <2>1, ConcatProperties
    <2>3. QED
      BY <1>4, <2>2
  <1>6. Len(Stem(b, sum)) + 2 # 0 /\ Len(<<>>) = 0
    BY <1>3, LenProperties, EmptySeq
  <1>7. QED
    BY <1>5, <1>6 DEF t, q

LEMMA PadIs ==
  ASSUME NEW k \in Int PROVE [i \in 1 .. k |-> " "] \in Seq(Chars)
  <1> DEFINE f == [i \in 1 .. k |-> " "]
  <1>1. CASE k \in Nat
    <2>1. f \in [1 .. k -> Chars]
      BY DEF Chars
    <2>2. QED
      BY <1>1, <2>1, SeqDef
  <1>2. CASE k < 0
    <2>1. 1 .. k = 1 .. 0
      BY <1>2
    <2>2. f \in [1 .. 0 -> Chars]
      BY <2>1
    <2> HIDE DEF f
    <2>3. f \in Seq(Chars)
      BY <2>2, SeqDef
    <2>4. QED
      BY <2>3 DEF f
  <1>3. k \in Nat \/ k < 0
    OBVIOUS
  <1> HIDE DEF f
  <1>4. QED
    BY <1>1, <1>2, <1>3 DEF f

LEMMA NumberedIsFree ==
  ASSUME NamesAssumption, NEW b, b.base \in Seq(Chars),
         NEW sum, sum = {} \/ \E n \in 0 .. Sums - 1 : sum = {n},
         NEW i \in Nat, NEW used, ~Taken(b, sum, i, used)
  PROVE  Numbered(b, sum, i) \notin used
  <1> SUFFICES ASSUME Numbered(b, sum, i) \in used PROVE FALSE
    OBVIOUS
  <1> DEFINE x == Stem(b, sum) \o <<"~", ToString(i)>>
             pad == [j \in 1 .. BaseLen - Len(x) |-> " "]
             s == Numbered(b, sum, i)
  <1>1. x \in Seq(Chars) /\ x # <<>>
    BY StemIs
  <1>2. s.base = x \o pad /\ s.ext = b.ext
    BY DEF Numbered, Padded
  <1>3. ~IsPrefix(x, s.base)
    BY <1>2 DEF Taken
  <1> HIDE DEF x, s
  <1>4. Len(x) \in Nat \ {0}
    BY <1>1, EmptySeq
  <1>5. pad \in Seq(Chars)
    <2> DEFINE k == BaseLen - Len(x)
    <2>1. k \in Int
      BY <1>4 DEF NamesAssumption
    <2> HIDE DEF k
    <2>2. [j \in 1 .. k |-> " "] \in Seq(Chars)
      BY <2>1, PadIs
    <2>3. QED
      BY <2>2 DEF k
  <1> HIDE DEF pad
  <1>6. Len(x \o pad) = Len(x) + Len(pad) /\ Len(pad) \in Nat
    BY <1>1, <1>5, ConcatProperties, LenProperties
  <1>7. SubSeq(x \o pad, 1, Len(x)) = SubSeq(x, 1, Len(x))
    BY <1>1, <1>4, <1>5, SubSeqOfConcat1
  <1>8. IsPrefix(x, x \o pad)
    BY <1>4, <1>6, <1>7 DEF IsPrefix
  <1>9. QED
    BY <1>2, <1>3, <1>8

\* What generate gives for one checksum is free, and one of the forms of the name.
LEMMA FormsAreFree ==
  ASSUME NamesAssumption, NEW b, b.base \in Seq(Chars), NEW sum \in 0 .. Sums - 1, NEW used,
         NEW s \in FormsFor(b, sum, used)
  PROVE  s \notin used /\ s \in AllForms(b)
  <1> DEFINE long == {i \in 1 .. LongForms : ~Taken(b, {}, i, used)}
             chk == {i \in 1 .. ChkForms : ~Taken(b, {sum}, i, used)}
             Least(S) == CHOOSE i \in S : \A j \in S : i <= j
  <1>1. ASSUME NEW S \in SUBSET Nat, S # {} PROVE Least(S) \in S
    <2>1. \E x \in S : \A y \in S : x <= y
      BY <1>1, LeastOf
    <2>2. QED
      BY <2>1
  <1>2. long \in SUBSET Nat /\ chk \in SUBSET Nat
    BY DEF NamesAssumption
  <1>3. FormsFor(b, sum, used) = IF long # {} THEN {Numbered(b, {}, Least(long))}
                                 ELSE IF chk # {} THEN {Numbered(b, {sum}, Least(chk))} ELSE {}
    BY DEF FormsFor
  <1> HIDE DEF Least
  <1>4. CASE long # {}
    <2>1. Least(long) \in long
      BY <1>1, <1>2, <1>4
    <2>2. s = Numbered(b, {}, Least(long))
      BY <1>3, <1>4
    <2>3. Least(long) \in 1 .. LongForms /\ ~Taken(b, {}, Least(long), used)
      BY <2>1
    <2>4. s \notin used
      BY <1>2, <2>1, <2>2, <2>3, NumberedIsFree
    <2> DEFINE i == Least(long)
    <2> HIDE DEF long, chk, i
    <2>5. s \in {Numbered(b, {}, n) : n \in 1 .. LongForms}
      BY <2>2, <2>3 DEF i
    <2>6. QED
      BY <2>4, <2>5 DEF AllForms
  <1>5. CASE long = {} /\ chk # {}
    <2>1. Least(chk) \in chk
      BY <1>1, <1>2, <1>5
    <2>2. s = Numbered(b, {sum}, Least(chk))
      BY <1>3, <1>5
    <2>3. Least(chk) \in 1 .. ChkForms /\ ~Taken(b, {sum}, Least(chk), used)
      BY <2>1
    <2>4. s \notin used
      BY <1>2, <2>1, <2>2, <2>3, NumberedIsFree
    <2> DEFINE i == Least(chk)
    <2> HIDE DEF long, chk, i
    <2> DEFINE F(c) == {Numbered(b, {c}, n) : n \in 1 .. ChkForms}
    <2>5. s \in F(sum)
      BY <2>2, <2>3 DEF i
    <2> HIDE DEF F
    <2>6. s \in UNION {F(c) : c \in 0 .. Sums - 1}
      BY <2>5
    <2>7. s \in AllForms(b)
      BY <2>6 DEF AllForms, F
    <2>8. QED
      BY <2>4, <2>7
  <1>6. QED
    BY <1>3, <1>4, <1>5

LEMMA ShortForIsFree ==
  ASSUME NamesAssumption, NEW name \in LongNames, NEW used,
         Fits(name, used) \/ Tries(name, used) # {}
  PROVE  ShortFor(name, used) \notin used /\ ShortFor(name, used) \in AllForms(Basis(name))
  <1>1. CASE Fits(name, used)
    BY <1>1 DEF ShortFor, Fits, AllForms
  <1>2. CASE ~Fits(name, used)
    <2> DEFINE T == Tries(name, used)
               k == CHOOSE n \in T : \A m \in T : n <= m
    <2>1. T \in SUBSET Nat /\ T # {}
      BY <1>2 DEF Tries
    <2>2. ShortFor(name, used) = CHOOSE s \in Try(name, used, k) : TRUE
      BY <1>2 DEF ShortFor
    <2>3. \E n \in T : \A m \in T : n <= m
      BY <2>1, LeastOf
    <2>4. k \in T
      BY <2>3
    <2> HIDE DEF k
    <2>5. k \in Nat /\ Try(name, used, k) # {}
      BY <2>1, <2>4 DEF Tries
    <2>6. ShortFor(name, used) \in Try(name, used, k)
      BY <2>2, <2>5
    <2> DEFINE sum == (SumOf(name) + k) % Sums
    <2>7. sum \in 0 .. Sums - 1
      <3>1. SumOf(name) + k \in Nat /\ Sums \in Nat \ {0}
        BY <2>5 DEF NamesAssumption
      <3>2. QED
        BY <3>1
    <2>8. Try(name, used, k) = FormsFor(Basis(name), sum, used)
      BY DEF Try
    <2> HIDE DEF sum
    <2>9. Basis(name).base \in Seq(Chars)
      BY BasisIs
    <2>10. QED
      BY <2>6, <2>7, <2>8, <2>9, FormsAreFree
  <1>3. QED
    BY <1>1, <1>2

-----------------------------------------------------------------------------
(* Slots of a directory.                                                   *)

\* The names that are created: new does not panic.
Creatable == {name \in LongNames : ~Panics(name)}

\* The slots of t up to j end with the first k slots of a long name.
Run(t, j, name, s, k) ==
  /\ k \in 1 .. Parts(name) /\ k <= j
  /\ \A m \in 0 .. k - 1 : t[j - m] = LongSlots(name, s)[k - m]

\* Whatever was cut short or deleted, a slot of a long name follows those that
\* were written before it.
LongRuns(t) ==
  \A j \in DOMAIN t : t[j].kind = "long" =>
    \E name \in Creatable : \E s \in AllForms(Basis(name)) : \E k \in 1 .. Parts(name) :
      Run(t, j, name, s, k)

\* An entry that was created has all slots of its long name before it.
WholeEntries(t) ==
  \A i \in DOMAIN t : t[i].kind = "short" /\ t[i].given # Foreign =>
    /\ t[i].given \in Creatable /\ t[i].short \in AllForms(Basis(t[i].given))
    /\ Run(t, i - 1, t[i].given, t[i].short, Parts(t[i].given))

SlotsInRow == DOMAIN slots = 1 .. Len(slots) /\ Len(slots) \in Nat
NamesInv == SlotsInRow /\ ShortNamesUnique /\ LongRuns(slots) /\ WholeEntries(slots)

Offset(o) == (o - 1) * PartLen

LEMMA SameUpTo ==
  ASSUME NEW m \in Nat, NEW n \in Nat, 1 .. m = 1 .. n PROVE m = n
  <1>1. m # 0 => m \in 1 .. n
    OBVIOUS
  <1>2. n # 0 => n \in 1 .. m
    OBVIOUS
  <1>3. QED
    BY <1>1, <1>2

LEMMA LenIs ==
  ASSUME NEW f, NEW m \in Nat, f = [i \in 1 .. m |-> f[i]] PROVE Len(f) = m
  <1> DEFINE S == {f[i] : i \in 1 .. m}
  <1>1. f \in [1 .. m -> S]
    OBVIOUS
  <1> HIDE DEF S
  <1>2. f \in Seq(S)
    BY <1>1, SeqDef
  <1>3. Len(f) \in Nat /\ DOMAIN f = 1 .. Len(f)
    BY <1>2, LenProperties
  <1>4. 1 .. m = 1 .. Len(f)
    BY <1>1, <1>3
  <1>5. QED
    BY <1>3, <1>4, SameUpTo

\* A name is cut into parts of which only the last can be short.
LEMMA PartsAre ==
  ASSUME NamesAssumption, NEW name \in Creatable
  PROVE  /\ Parts(name) \in Nat \ {0} /\ Offset(1) = 0
         /\ \A o \in Nat : Offset(o + 1) = Offset(o) + PartLen /\ o * PartLen = Offset(o + 1)
         /\ \A o \in 1 .. Parts(name) : Offset(o) \in Nat /\ Offset(o) < Len(name)
         /\ \A o \in 1 .. Parts(name) - 1 : Offset(o + 1) < Len(name)
         /\ Len(name) <= Offset(Parts(name)) + PartLen
         /\ name \in Seq(STRING \cup {"end"}) /\ Len(name) \in Nat \ {0}
  <1>1. PartLen \in Nat \ {0} /\ name \in Seq(STRING) /\ name # <<>>
    BY DEF NamesAssumption, Creatable, Panics
  <1>2. Len(name) \in Nat \ {0}
    BY <1>1, EmptySeq
  <1>3. name \in Seq(STRING \cup {"end"})
    BY <1>1, SeqMonotonic
  <1> DEFINE a == Len(name) + PartLen - 1
             n == Parts(name)
             r == a % PartLen
  <1>4. a \in Nat
    BY <1>1, <1>2
  <1>5. n = a \div PartLen
    BY DEF Parts
  <1>6. n \in Int /\ r \in 0 .. PartLen - 1 /\ a = PartLen * n + r
    BY <1>1, <1>4, <1>5
  <1>7. \A o \in Int : o * PartLen \in Int /\ (o + 1) * PartLen = o * PartLen + PartLen
                       /\ o * PartLen = PartLen * o
    BY <1>1
  <1>8. \A o, q \in Int : o <= q => o * PartLen <= q * PartLen
    BY <1>1, TimesMonotone
  <1> HIDE DEF n, r, a
  <1>9. n >= 1
    <2>1. CASE n < 1
      <3>1. n * PartLen <= 0 * PartLen /\ 0 * PartLen = 0
        BY <1>1, <1>6, <1>8, <2>1
      <3>2. a <= PartLen - 1
        BY <1>1, <1>6, <1>7, <3>1
      <3>3. QED
        BY <3>2, <1>1, <1>2 DEF a
    <2>2. QED
      BY <1>6, <2>1
  <1>10. \A o \in Nat : Offset(o) \in Int /\ Offset(o + 1) = Offset(o) + PartLen
                        /\ o * PartLen = Offset(o + 1)
    <2> SUFFICES ASSUME NEW o \in Nat
                 PROVE  Offset(o) \in Int /\ Offset(o + 1) = Offset(o) + PartLen
                        /\ o * PartLen = Offset(o + 1)
      OBVIOUS
    <2>1. o - 1 \in Int /\ (o - 1) + 1 = o /\ (o + 1) - 1 = o
      OBVIOUS
    <2>2. o * PartLen = (o - 1) * PartLen + PartLen /\ (o - 1) * PartLen \in Int
      BY <1>7, <2>1
    <2>3. QED
      BY <2>1, <2>2 DEF Offset
  <1>11. Offset(1) = 0
    BY <1>1 DEF Offset
  <1>12. \A o \in 1 .. n : Offset(o) \in Nat /\ Offset(o) <= Offset(n)
    <2> SUFFICES ASSUME NEW o \in 1 .. n PROVE Offset(o) \in Nat /\ Offset(o) <= Offset(n)
      OBVIOUS
    <2>1. (1 - 1) * PartLen <= (o - 1) * PartLen /\ (o - 1) * PartLen <= (n - 1) * PartLen
      BY <1>6, <1>8
    <2>2. (1 - 1) * PartLen = 0 /\ (o - 1) * PartLen \in Int
      BY <1>1, <1>7
    <2>3. QED
      BY <2>1, <2>2 DEF Offset
  <1>13. n * PartLen = Offset(n) + PartLen /\ Offset(n) \in Nat
    BY <1>6, <1>9, <1>10, <1>12
  <1>14. Offset(n) < Len(name) /\ Len(name) <= Offset(n) + PartLen
    BY <1>1, <1>2, <1>6, <1>7, <1>13 DEF a
  <1>15. \A o \in 1 .. n : Offset(o) < Len(name)
    BY <1>2, <1>12, <1>13, <1>14
  <1>16. \A o \in 1 .. n - 1 : Offset(o + 1) < Len(name)
    BY <1>6, <1>9, <1>15
  <1>17. n \in Nat \ {0}
    BY <1>6, <1>9
  <1>18. QED
    BY <1>2, <1>3, <1>17, <1>10, <1>11, <1>12, <1>14, <1>15, <1>16 DEF n

\* A slot with part i of a long name, counted from the last part.
LongSlotIs(e, name, s, i) ==
  /\ e.kind = "long" /\ e.order = Parts(name) + 1 - i /\ e.last = (i = 1)
  /\ e.sum = SfnSum(s) /\ e.part = Part(name, Parts(name) + 1 - i)

LEMMA LongSlotsAre ==
  ASSUME NamesAssumption, NEW name \in Creatable, NEW s
  PROVE  /\ LongSlots(name, s) \in Seq({LongSlots(name, s)[i] : i \in 1 .. Parts(name)})
         /\ Len(LongSlots(name, s)) = Parts(name)
         /\ \A i \in 1 .. Parts(name) : LongSlotIs(LongSlots(name, s)[i], name, s, i)
  <1> DEFINE n == Parts(name)
             l == LongSlots(name, s)
             S == {l[i] : i \in 1 .. n}
  <1>1. n \in Nat
    BY PartsAre
  <1> HIDE DEF n
  <1>2. l = [i \in 1 .. n |-> [kind |-> "long", order |-> n + 1 - i, last |-> i = 1,
                               sum |-> SfnSum(s), part |-> Part(name, n + 1 - i)]]
    BY DEF LongSlots, n
  <1>3. \A i \in 1 .. n : l[i] = [kind |-> "long", order |-> n + 1 - i, last |-> i = 1,
                                  sum |-> SfnSum(s), part |-> Part(name, n + 1 - i)]
    BY <1>2
  <1>4. \A i \in 1 .. n : LongSlotIs(l[i], name, s, i)
    <2> SUFFICES ASSUME NEW i \in 1 .. n PROVE LongSlotIs(l[i], name, s, i)
      OBVIOUS
    <2> DEFINE e == l[i]
    <2> HIDE DEF l, e
    <2>1. e = [kind |-> "long", order |-> n + 1 - i, last |-> i = 1,
               sum |-> SfnSum(s), part |-> Part(name, n + 1 - i)]
      BY <1>3 DEF e
    <2>2. /\ e.kind = "long" /\ e.order = n + 1 - i /\ e.last = (i = 1)
          /\ e.sum = SfnSum(s) /\ e.part = Part(name, n + 1 - i)
      BY <2>1
    <2>3. QED
      BY <2>2 DEF LongSlotIs, n, e
  <1>5. l = [i \in 1 .. n |-> l[i]]
    BY <1>2
  <1> HIDE DEF l
  <1>6. l \in [1 .. n -> S]
    BY <1>5
  <1> HIDE DEF S
  <1>7. l \in Seq(S) /\ Len(l) = n
    <2>1. l \in Seq(S)
      BY <1>1, <1>6, SeqDef
    <2>2. Len(l) \in Nat /\ DOMAIN l = 1 .. Len(l)
      BY <2>1, LenProperties
    <2>3. 1 .. n = 1 .. Len(l)
      BY <1>6, <2>2
    <2>4. QED
      BY <1>1, <2>1, <2>2, <2>3, SameUpTo
  <1>8. QED
    BY <1>4, <1>7 DEF S, n, l

\* The text of a name from its part o on, closed if its last part is short.
Closing(name) == IF Len(name) < Offset(Parts(name)) + PartLen THEN <<"end">> ELSE <<>>
TextFrom(name, o) == SubSeq(name, Offset(o) + 1, Len(name)) \o Closing(name)

LEMMA ClosingIs ==
  ASSUME NEW name PROVE Closing(name) \in Seq(STRING \cup {"end"})
                        /\ \A i \in 1 .. Len(Closing(name)) : Closing(name)[i] = "end"
  <1> DEFINE S == STRING \cup {"end"}
             e == <<"end">>
  <1>1. "end" \in S
    OBVIOUS
  <1> HIDE DEF S
  <1>2. e \in Seq(S) /\ Len(e) = 1 /\ e[1] = "end"
    BY <1>1
  <1>3. <<>> \in Seq(S) /\ Len(<<>>) = 0
    BY EmptySeq
  <1> HIDE DEF e
  <1>4. Closing(name) = e \/ Closing(name) = <<>>
    BY DEF Closing, e
  <1> DEFINE c == Closing(name)
  <1> HIDE DEF c
  <1>5. c \in Seq(S)
    BY <1>2, <1>3, <1>4 DEF c
  <1>6. CASE c = e
    <2>1. Len(c) = 1 /\ c[1] = "end"
      BY <1>2, <1>6
    <2>2. \A i \in 1 .. 1 : i = 1
      OBVIOUS
    <2>3. QED
      BY <1>5, <2>1, <2>2 DEF S, c
  <1>7. CASE c = <<>>
    <2>1. 1 .. Len(c) = {}
      BY <1>3, <1>7
    <2>2. QED
      BY <1>5, <2>1 DEF S, c
  <1>8. QED
    BY <1>4, <1>6, <1>7 DEF c

\* The parts are put together from the last one on.
LEMMA PartText ==
  ASSUME NamesAssumption, NEW name \in Creatable, NEW o \in 1 .. Parts(name)
  PROVE  IF o = Parts(name) THEN Part(name, o) = TextFrom(name, o)
         ELSE Part(name, o) \o TextFrom(name, o + 1) = TextFrom(name, o)
  <1> DEFINE S == STRING \cup {"end"}
             n == Parts(name)
             len == Len(name)
             at == Offset(o)
             c == Closing(name)
             stop == IF o = n THEN len ELSE at + PartLen
             p == SubSeq(name, at + 1, stop)
  <1>1. /\ n \in Nat \ {0} /\ len \in Nat \ {0} /\ at \in Nat /\ at < len
        /\ len <= Offset(n) + PartLen /\ name \in Seq(S) /\ PartLen \in Nat \ {0}
        /\ Offset(o + 1) = at + PartLen /\ o * PartLen = at + PartLen
        /\ (o # n => at + PartLen < len)
    <2>1. o \in Nat /\ (o # n => o \in 1 .. n - 1)
      BY PartsAre
    <2>2. PartLen \in Nat \ {0}
      BY DEF NamesAssumption
    <2>3. QED
      BY <2>1, <2>2, PartsAre
  <1>2. c \in Seq(S) /\ "end" \in S
    BY ClosingIs
  <1>3. Part(name, o) = IF Len(p) < PartLen THEN Append(p, "end") ELSE p
    <2>1. (o - 1) * PartLen = at
      BY DEF Offset
    <2>2. Part(name, o) = LET q == SubSeq(name, at + 1, IF o = n THEN len ELSE o * PartLen) IN
                            IF Len(q) < PartLen THEN Append(q, "end") ELSE q
      BY <2>1 DEF Part
    <2>3. o * PartLen = at + PartLen
      BY <1>1
    <2> HIDE DEF at, n, len
    <2>4. QED
      BY <2>2, <2>3
  <1>4. TextFrom(name, o) = SubSeq(name, at + 1, len) \o c
    BY DEF TextFrom
  <1>5. TextFrom(name, o + 1) = SubSeq(name, at + PartLen + 1, len) \o c
    BY <1>1 DEF TextFrom
  <1>6. c = IF len < Offset(n) + PartLen THEN <<"end">> ELSE <<>>
    BY DEF Closing
  <1>7. o = n => at = Offset(n)
    OBVIOUS
  <1> HIDE DEF S, n, len, at, c
  <1>8. \A i \in at + 1 .. len : name[i] \in S
    BY <1>1, ElementOfSeq DEF len
  <1>9. stop \in at + 1 .. len
    BY <1>1
  <1>10. p \in Seq(S) /\ Len(p) = stop - at
    <2> HIDE DEF stop
    <2>1. \A i \in at + 1 .. stop : name[i] \in S
      BY <1>8, <1>9, <1>1
    <2>2. at + 1 \in Int /\ stop \in Int /\ at + 1 <= stop
      BY <1>1, <1>9
    <2>3. p \in Seq(S) /\ Len(p) = IF at + 1 <= stop THEN stop - (at + 1) + 1 ELSE 0
      BY <2>1, <2>2, SubSeqProperties
    <2>4. QED
      BY <1>1, <2>2, <2>3
  <1>11. CASE o = n
    <2>1. stop = len /\ Len(p) = len - at /\ at = Offset(n)
      BY <1>10, <1>11, <1>7
    <2>2. p = SubSeq(name, at + 1, len)
      BY <2>1
    <2> HIDE DEF p, stop
    <2>3. CASE len < at + PartLen
      <3>1. Part(name, o) = Append(p, "end") /\ c = <<"end">>
        BY <1>1, <1>3, <1>6, <2>1, <2>3
      <3>2. Append(p, "end") = p \o <<"end">>
        BY <1>2, <1>10, AppendIsConcat
      <3>3. QED
        BY <1>4, <1>11, <2>2, <3>1, <3>2 DEF n
    <2>4. CASE ~(len < at + PartLen)
      <3>1. Part(name, o) = p /\ c = <<>>
        BY <1>1, <1>3, <1>6, <2>1, <2>4
      <3>2. p \o <<>> = p
        BY <1>10, ConcatEmptySeq
      <3>3. QED
        BY <1>4, <1>11, <2>2, <3>1, <3>2 DEF n
    <2>5. QED
      BY <2>3, <2>4
  <1>12. CASE o # n
    <2>1. stop = at + PartLen /\ Len(p) = PartLen
      BY <1>1, <1>10, <1>12
    <2>2. Part(name, o) = p
      BY <1>1, <1>3, <2>1
    <2>3. p = SubSeq(name, at + 1, at + PartLen)
      BY <2>1
    <2> HIDE DEF p, stop
    <2> DEFINE q == SubSeq(name, at + PartLen + 1, len)
    <2>4. q \in Seq(S)
      <3>1. \A i \in at + PartLen + 1 .. len : name[i] \in S
        BY <1>1, <1>8
      <3>2. at + PartLen + 1 \in Int /\ len \in Int
        BY <1>1
      <3>3. QED
        BY <3>1, <3>2, SubSeqProperties
    <2>5. p \o q = SubSeq(name, at + 1, len)
      <3>1. at + 1 \in 1 .. len + 1 /\ at + PartLen \in at + 1 - 1 .. len /\ len \in at + PartLen .. len
        BY <1>1, <1>12
      <3> DEFINE k == at + PartLen
                 m == at + 1
      <3>2. m \in 1 .. Len(name) + 1 /\ k \in m - 1 .. Len(name) /\ len \in k .. Len(name)
        <4>1. Len(name) = len
          BY DEF len
        <4>2. QED
          BY <3>1, <4>1, <1>1
      <3> HIDE DEF k, m
      <3>3. SubSeq(name, m, k) \o SubSeq(name, k + 1, len) = SubSeq(name, m, len)
        BY <1>1, <3>2, ConcatAdjacentSubSeq
      <3>4. QED
        BY <2>3, <3>3 DEF k, m
    <2> HIDE DEF q
    <2>6. p \o (q \o c) = (p \o q) \o c
      BY <1>2, <1>10, <2>4, ConcatAssociative
    <2>7. TextFrom(name, o + 1) = q \o c
      BY <1>5 DEF q
    <2>8. QED
      BY <1>4, <1>12, <2>2, <2>5, <2>6, <2>7 DEF n
  <1>13. QED
    BY <1>11, <1>12

\* What closes a name is cut off again, with the U+FFFF before it.
LEMMA TextIsName ==
  ASSUME NamesAssumption, NEW name \in Creatable
  PROVE  Truncated(TextFrom(name, 1)) = Truncated(name) /\ Truncated(name) # Foreign
  <1> DEFINE S == STRING \cup {"end"}
             n == Len(name)
             c == Closing(name)
             t == TextFrom(name, 1)
             Text(u) == {i \in 1 .. Len(u) : u[i] \notin {"end", "FFFF"}}
             last == CHOOSE i \in Text(name) : \A j \in Text(name) : j <= i
  <1>1. n \in Nat \ {0} /\ name \in Seq(S) /\ Offset(1) = 0
    BY PartsAre
  <1>2. c \in Seq(S) /\ \A i \in 1 .. Len(c) : c[i] = "end"
    BY ClosingIs
  <1>3. t = name \o c
    <2>1. SubSeq(name, 1, n) = name
      BY <1>1, SubSeqFull
    <2>2. t = SubSeq(name, 1, n) \o c
      BY <1>1 DEF TextFrom
    <2>3. QED
      BY <2>1, <2>2
  <1>4. name[1] \notin {"end", "FFFF"}
    <2>1. 1 \in DOMAIN name /\ name[1] # "end"
      BY <1>1, LenProperties DEF NamesAssumption, Creatable
    <2>2. name[1] = Head(name) /\ Head(name) \notin Wide /\ "FFFF" \in Wide
      BY <1>1 DEF NamesAssumption, Creatable, Panics
    <2>3. QED
      BY <2>1, <2>2
  <1> HIDE DEF t, c, S
  <1>5. /\ t \in Seq(S) /\ Len(t) = n + Len(c) /\ Len(c) \in Nat
        /\ \A i \in 1 .. n + Len(c) : t[i] = IF i <= n THEN name[i] ELSE c[i - n]
    BY <1>1, <1>2, <1>3, ConcatProperties, LenProperties
  <1>6. Text(t) = Text(name)
    <2>1. ASSUME NEW i \in Text(t) PROVE i \in Text(name)
      <3>1. CASE ~(i <= n)
        <4>1. i - n \in 1 .. Len(c) /\ t[i] = c[i - n]
          BY <1>1, <1>5, <3>1
        <4>2. QED
          BY <1>2, <2>1, <4>1
      <3>2. CASE i <= n
        BY <3>2, <2>1, <1>1, <1>5
      <3>3. QED
        BY <3>1, <3>2
    <2>2. ASSUME NEW i \in Text(name) PROVE i \in Text(t)
      <3>1. i \in 1 .. n + Len(c) /\ i <= n /\ name[i] \notin {"end", "FFFF"}
        BY <1>1, <1>5, <2>2
      <3>2. QED
        BY <1>5, <3>1
    <2>3. QED
      BY <2>1, <2>2
  <1>7. last \in 1 .. n /\ Text(name) # {}
    <2>1. 1 \in Text(name) /\ Text(name) \in SUBSET (0 .. n)
      BY <1>1, <1>4
    <2>2. \E i \in Text(name) : \A j \in Text(name) : j <= i
      <3> DEFINE T == Text(name)
      <3> HIDE DEF T, n
      <3>1. n \in Nat /\ T \in SUBSET (0 .. n) /\ T # {}
        BY <1>1, <2>1 DEF T
      <3>2. \E i \in T : \A j \in T : j <= i
        BY <3>1, GreatestOf
      <3>3. QED
        BY <3>2 DEF T
    <2>3. last \in Text(name)
      BY <2>2
    <2>4. QED
      BY <2>1, <2>3
  <1>8. Truncated(t) = SubSeq(t, 1, last) /\ Truncated(name) = SubSeq(name, 1, last)
    BY <1>6, <1>7 DEF Truncated
  <1> HIDE DEF last, Text, n
  <1>9. SubSeq(t, 1, last) = SubSeq(name, 1, last)
    <2>1. 1 \in 1 .. Len(name) /\ last \in 1 .. Len(name)
      BY <1>1, <1>7 DEF n
    <2>2. QED
      BY <1>1, <1>2, <1>3, <2>1, SubSeqOfConcat1
  <1>10. SubSeq(name, 1, last) # <<>>
    <2>1. /\ \A i \in 1 .. last : name[i] \in S
          /\ 1 \in Int /\ last \in Int /\ 1 <= last
      <3>1. \A i \in 1 .. last : i \in 1 .. Len(name)
        BY <1>1, <1>7 DEF n
      <3>2. QED
        BY <1>1, <1>7, <3>1, ElementOfSeq
    <2>2. Len(SubSeq(name, 1, last)) = last
      BY <2>1, SubSeqProperties
    <2>3. Len(<<>>) = 0 /\ last # 0
      BY <1>1, <1>7
    <2>4. QED
      BY <2>2, <2>3, Zenon
  <1>11. QED
    BY <1>8, <1>9, <1>10 DEF t, Foreign

\* find_free_entries gives a place where no slot is in use.
LEMMA FreeStartIsFree ==
  ASSUME SlotsInRow, NEW n \in Nat
  PROVE  /\ FreeStart(n) \in 1 .. Len(slots) + 1
         /\ \A j \in FreeStart(n) .. FreeStart(n) + n - 1 : j \in DOMAIN slots => slots[j] = Deleted
  <1> DEFINE Free(q) == \A j \in q .. q + n - 1 : j \in DOMAIN slots => slots[j] = Deleted
             P == {q \in 1 .. Len(slots) + 1 : Free(q)}
  <1>1. FreeStart(n) = CHOOSE p \in 1 .. Len(slots) + 1 : Free(p) /\ \A q \in 1 .. p - 1 : ~Free(q)
    BY DEF FreeStart
  <1>2. Len(slots) + 1 \in P
    BY DEF SlotsInRow
  <1> HIDE DEF Free
  <1>3. PICK p \in P : \A q \in P : p <= q
    <2>1. P \in SUBSET Nat /\ P # {}
      BY <1>2 DEF SlotsInRow
    <2>2. QED
      BY <2>1, LeastOf
  <1>4. p \in 1 .. Len(slots) + 1 /\ Free(p) /\ \A q \in 1 .. p - 1 : ~Free(q)
    BY <1>3 DEF SlotsInRow
  <1>5. FreeStart(n) \in 1 .. Len(slots) + 1 /\ Free(FreeStart(n))
    BY <1>1, <1>4
  <1>6. QED
    BY <1>5 DEF Free

\* The slots of an entry are the long ones just before it.
LEMMA BeginIs ==
  ASSUME SlotsInRow, NEW i \in DOMAIN slots
  PROVE  /\ Begin(i) \in 1 .. i
         /\ \A j \in Begin(i) .. i - 1 : slots[j].kind = "long"
         /\ \A j \in 1 .. i - 1 : slots[j].kind # "long" => j < Begin(i)
         /\ Begin(i) # 1 => slots[Begin(i) - 1].kind # "long"
  <1> DEFINE ends == {j \in 1 .. i - 1 : slots[j].kind # "long"}
             last == CHOOSE j \in ends : \A k \in ends : k <= j
  <1>1. Begin(i) = 1 + (IF ends = {} THEN 0 ELSE last)
    BY DEF Begin
  <1>2. i \in Nat \ {0}
    BY DEF SlotsInRow
  <1>3. CASE ends = {}
    <2>1. Begin(i) = 1
      BY <1>1, <1>3
    <2>2. QED
      BY <1>2, <1>3, <2>1
  <1>4. CASE ends # {}
    <2>1. ends \in SUBSET (0 .. i)
      BY <1>2
    <2> HIDE DEF ends
    <2>2. \E x \in ends : \A y \in ends : y <= x
      BY <1>2, <1>4, <2>1, GreatestOf
    <2>3. last \in ends /\ \A k \in ends : k <= last
      BY <2>2
    <2> HIDE DEF last
    <2>4. Begin(i) = 1 + last
      BY <1>1, <1>4
    <2>5. QED
      BY <1>2, <2>3, <2>4 DEF ends
  <1>5. QED
    BY <1>3, <1>4

\* The states of the builder before entry i.
IsBuilt(i, n, f) ==
  f = [j \in 0 .. n |-> IF j < Begin(i) THEN NoBuilder ELSE Process(f[j - 1], slots[j])]

LEMMA BuiltExists ==
  ASSUME NEW i, Begin(i) \in Nat \ {0}, NEW n \in Nat
  PROVE  \E f : IsBuilt(i, n, f)
  <1> DEFINE Good == {d \in Nat : \E g : IsBuilt(i, d, g)}
             at == Begin(i)
  <1>0. at \in Nat \ {0}
    OBVIOUS
  <1>1. 0 \in Good
    <2> DEFINE g == [j \in 0 .. 0 |-> NoBuilder]
    <2>1. g = [j \in 0 .. 0 |-> IF j < at THEN NoBuilder ELSE Process(g[j - 1], slots[j])]
      BY <1>0
    <2>2. QED
      BY <2>1 DEF IsBuilt
  <1>2. ASSUME NEW d \in 1 .. n, d - 1 \in Good PROVE d \in Good
    <2>1. PICK g : IsBuilt(i, d - 1, g)
      BY <1>2
    <2> DEFINE e == IF d < at THEN NoBuilder ELSE Process(g[d - 1], slots[d])
               f == [j \in 0 .. d |-> IF j = d THEN e ELSE g[j]]
    <2>2. ASSUME NEW j \in 0 .. d
          PROVE  f[j] = IF j < at THEN NoBuilder ELSE Process(f[j - 1], slots[j])
      <3>1. CASE j = d
        <4>1. j - 1 \in 0 .. d /\ j - 1 # d /\ f[j] = e /\ f[j - 1] = g[d - 1]
          BY <3>1
        <4>2. QED
          BY <3>1, <4>1
      <3>2. CASE j # d
        <4>1. j \in 0 .. d - 1 /\ (~(j < at) => j - 1 \in 0 .. d /\ j - 1 # d)
          BY <1>0, <3>2
        <4>2. g[j] = IF j < at THEN NoBuilder ELSE Process(g[j - 1], slots[j])
          BY <2>1, <4>1 DEF IsBuilt
        <4>3. QED
          BY <3>2, <4>1, <4>2
      <3>3. QED
        BY <3>1, <3>2
    <2>3. f = [j \in 0 .. d |-> f[j]]
      OBVIOUS
    <2> HIDE DEF f
    <2>4. IsBuilt(i, d, f)
      BY <2>2, <2>3 DEF IsBuilt
    <2>5. d \in Nat
      OBVIOUS
    <2>6. QED
      BY <2>4, <2>5
  <1> HIDE DEF Good
  <1>3. n \in Good
    <2>1. \A d \in 0 .. n : d \in Good
      BY <1>1, <1>2, UpTo
    <2>2. QED
      BY <2>1
  <1>4. QED
    BY <1>3 DEF Good

LEMMA BuiltIs ==
  ASSUME SlotsInRow, NEW i \in DOMAIN slots
  PROVE  \E f : IsBuilt(i, i - 1, f) /\ Built(i) = f[i - 1]
  <1> DEFINE after == CHOOSE f : IsBuilt(i, i - 1, f)
  <1>1. Built(i) = after[i - 1]
    BY DEF Built, IsBuilt
  <1>2. Begin(i) \in Nat \ {0} /\ i - 1 \in Nat
    BY BeginIs DEF SlotsInRow
  <1>3. IsBuilt(i, i - 1, after)
    <2>1. \E f : IsBuilt(i, i - 1, f)
      BY <1>2, BuiltExists
    <2>2. QED
      BY <2>1
  <1> HIDE DEF after
  <1>4. QED
    BY <1>1, <1>3

\* LongNameBuilder, given the first k slots of a long name, holds the text from
\* its part Parts + 1 - k on.
LEMMA RunIsBuilt ==
  ASSUME NamesAssumption, SlotsInRow, NEW i \in DOMAIN slots, NEW name \in Creatable, NEW s,
         NEW k, Run(slots, i - 1, name, s, k)
  PROVE  /\ Built(i).index = Parts(name) + 1 - k /\ Built(i).sum = SfnSum(s)
         /\ Built(i).text = TextFrom(name, Parts(name) + 1 - k)
  <1> DEFINE n == Parts(name)
             p == i - 1 - k
             L == LongSlots(name, s)
  <1>1. n \in Nat \ {0} /\ k \in 1 .. n /\ i \in Nat \ {0} /\ p \in Nat
    <2>1. n \in Nat \ {0}
      BY PartsAre
    <2>2. k \in 1 .. n /\ k <= i - 1
      BY DEF Run
    <2>3. i \in Nat \ {0}
      BY DEF SlotsInRow
    <2> HIDE DEF n
    <2>4. QED
      BY <2>1, <2>2, <2>3
  <1>2. ASSUME NEW q \in 1 .. k PROVE slots[p + q] = L[q]
    <2>1. k - q \in 0 .. k - 1 /\ i - 1 - (k - q) = p + q /\ k - (k - q) = q
      BY <1>1
    <2>2. slots[i - 1 - (k - q)] = L[k - (k - q)]
      BY <2>1 DEF Run
    <2>3. QED
      BY <2>1, <2>2
  <1>3. \A q \in 1 .. n : LongSlotIs(L[q], name, s, q)
    BY LongSlotsAre
  <1>4. Begin(i) \in 1 .. p + 1
    <2>1. Begin(i) \in 1 .. i /\ \A j \in Begin(i) .. i - 1 : slots[j].kind = "long"
      BY BeginIs
    <2>2. ASSUME Begin(i) > p + 1 PROVE FALSE
      <3> DEFINE j == Begin(i) - 1
      <3>1. j \in 1 .. i - 1 /\ j - p \in 1 .. k /\ p + (j - p) = j
        BY <1>1, <2>1, <2>2
      <3>2. slots[j] = L[j - p] /\ j - p \in 1 .. n
        BY <1>1, <1>2, <3>1
      <3>3. slots[j].kind = "long"
        BY <1>3, <3>2 DEF LongSlotIs
      <3>4. Begin(i) # 1
        BY <1>1, <2>2
      <3>5. slots[j].kind # "long"
        BY <3>4, BeginIs
      <3>6. QED
        BY <3>3, <3>5
    <2>3. QED
      BY <1>1, <2>1, <2>2
  <1>5. PICK f : IsBuilt(i, i - 1, f) /\ Built(i) = f[i - 1]
    BY BuiltIs
  <1> HIDE DEF n, p, L
  <1> DEFINE Good == {q \in 0 .. k : q = 0 \/ /\ f[p + q].index = n + 1 - q /\ f[p + q].sum = SfnSum(s)
                                              /\ f[p + q].text = TextFrom(name, n + 1 - q)}
  <1>6. 0 \in Good
    BY <1>1
  <1>7. ASSUME NEW q \in 1 .. k, q - 1 \in Good PROVE q \in Good
    <2>1. q \in 1 .. n /\ p + q \in 0 .. i - 1 /\ ~(p + q < Begin(i)) /\ p + q - 1 = p + (q - 1)
      BY <1>1, <1>4 DEF p
    <2>2. f[p + q] = Process(f[p + (q - 1)], L[q])
      <3> DEFINE r == p + q
      <3> HIDE DEF r
      <3>0. r \in 0 .. i - 1 /\ ~(r < Begin(i))
        BY <2>1 DEF r
      <3>1. f[r] = Process(f[r - 1], slots[r])
        BY <1>5, <3>0 DEF IsBuilt
      <3>2. slots[r] = L[q]
        BY <1>2 DEF r
      <3>3. r - 1 = p + (q - 1)
        BY <1>1 DEF r
      <3>4. QED
        BY <3>1, <3>2, <3>3 DEF r
    <2> DEFINE e == L[q]
               b == f[p + (q - 1)]
               o == n + 1 - q
    <2>3. e.order = o /\ e.last = (q = 1) /\ e.sum = SfnSum(s) /\ e.part = Part(name, o)
      BY <1>3, <2>1 DEF LongSlotIs, n
    <2>4. o \in 1 .. n /\ (q = 1 => o = n) /\ (q # 1 => o # n /\ n + 1 - (q - 1) = o + 1)
      BY <1>1, <2>1
    <2>5. o \in 1 .. Parts(name)
      BY <2>4 DEF n
    <2>6. CASE q = 1
      <3>1. e.part = TextFrom(name, o)
        BY <2>3, <2>4, <2>5, <2>6, PartText DEF n
      <3> HIDE DEF e, b, o
      <3>2. Process(b, e) = [index |-> e.order, sum |-> e.sum, text |-> e.part]
        BY <2>3, <2>6 DEF Process
      <3>3. f[p + q].index = o /\ f[p + q].sum = SfnSum(s) /\ f[p + q].text = TextFrom(name, o)
        BY <2>2, <2>3, <3>1, <3>2 DEF e, b
      <3>4. QED
        BY <3>3 DEF o
    <2>7. CASE q # 1
      <3>1. b.index = o + 1 /\ b.sum = SfnSum(s) /\ b.text = TextFrom(name, o + 1)
        BY <1>7, <2>1, <2>4, <2>7
      <3>2. e.part \o b.text = TextFrom(name, o)
        BY <2>3, <2>4, <2>5, <2>7, <3>1, PartText DEF n
      <3> HIDE DEF e, b, o
      <3>3. o \in Nat /\ o + 1 # 0 /\ o = (o + 1) - 1
        BY <2>4
      <3>4. ~e.last /\ ~(b.index = 0 \/ e.order # b.index - 1 \/ e.sum # b.sum)
        BY <2>3, <2>7, <3>1, <3>3
      <3>5. Process(b, e) = [index |-> b.index - 1, sum |-> b.sum, text |-> e.part \o b.text]
        BY <3>4 DEF Process
      <3>6. f[p + q].index = o /\ f[p + q].sum = SfnSum(s) /\ f[p + q].text = TextFrom(name, o)
        BY <2>2, <3>1, <3>2, <3>3, <3>5 DEF e, b
      <3>7. QED
        BY <3>6 DEF o
    <2>8. QED
      BY <2>6, <2>7
  <1> HIDE DEF Good
  <1>8. k \in Good
    <2>1. k \in Nat
      BY <1>1
    <2>2. \A q \in 0 .. k : q \in Good
      BY <1>6, <1>7, <2>1, UpTo
    <2>3. QED
      BY <2>1, <2>2
  <1>9. p + k = i - 1
    BY <1>1 DEF p
  <1>10. QED
    BY <1>1, <1>5, <1>8, <1>9 DEF Good, n

LEMMA CreatedReadBack ==
  ASSUME NamesAssumption, NamesInv PROVE NamesReadBack
  <1>1. SlotsInRow /\ LongRuns(slots) /\ WholeEntries(slots)
    BY DEF NamesInv
  <1> SUFFICES ASSUME NEW i \in DOMAIN slots, IsShort(i)
               PROVE  IF slots[i].given # Foreign THEN LongName(i) = Truncated(slots[i].given)
                      ELSE LongName(i) # Foreign => \E name \in LongNames : TakesOver(i, name)
    BY DEF NamesReadBack
  <1>2. slots[i].kind = "short" /\ i \in Nat \ {0} /\ i \in 1 .. Len(slots)
    BY <1>1 DEF IsShort, SlotsInRow
  <1>3. ASSUME NEW name \in Creatable, NEW s, NEW k, Run(slots, i - 1, name, s, k),
               k = Parts(name), SfnSum(s) = SfnSum(slots[i].short)
        PROVE  LongName(i) = Truncated(name)
    <2> DEFINE n == Parts(name)
    <2>1. Built(i).index = n + 1 - k /\ Built(i).sum = SfnSum(s)
          /\ Built(i).text = TextFrom(name, n + 1 - k)
      BY <1>1, <1>3, RunIsBuilt
    <2>2. n + 1 - k = 1
      <3>1. n \in Nat
        BY PartsAre
      <3>2. QED
        BY <1>3, <3>1
    <2>3. LongName(i) = Truncated(TextFrom(name, 1))
      BY <1>3, <2>1, <2>2 DEF LongName, Belongs
    <2>4. QED
      BY <2>3, TextIsName
  <1>4. CASE slots[i].given # Foreign
    <2>1. slots[i].given \in Creatable
          /\ Run(slots, i - 1, slots[i].given, slots[i].short, Parts(slots[i].given))
      BY <1>1, <1>2, <1>4 DEF WholeEntries
    <2>2. QED
      BY <1>3, <1>4, <2>1
  <1>5. ASSUME LongName(i) # Foreign PROVE \E name \in LongNames : TakesOver(i, name)
    <2>1. Built(i).index = 1 /\ Built(i).sum = SfnSum(slots[i].short)
      BY <1>5 DEF LongName, Belongs
    <2>2. i - 1 \in DOMAIN slots /\ slots[i - 1].kind = "long"
      <3> SUFFICES ASSUME ~(i - 1 \in DOMAIN slots /\ slots[i - 1].kind = "long") PROVE FALSE
        OBVIOUS
      <3>1. Begin(i) = i
        <4>1. Begin(i) \in 1 .. i /\ (i # 1 => i - 1 \in Begin(i) .. i - 1 \/ Begin(i) = i)
          BY <1>1, <1>2, BeginIs
        <4>2. \A j \in Begin(i) .. i - 1 : slots[j].kind = "long"
          BY <1>1, BeginIs
        <4>3. i # 1 => i - 1 \in DOMAIN slots
          BY <1>1, <1>2 DEF SlotsInRow
        <4>4. QED
          BY <1>2, <4>1, <4>2, <4>3
      <3>2. PICK f : IsBuilt(i, i - 1, f) /\ Built(i) = f[i - 1]
        BY <1>1, BuiltIs
      <3>3. f[i - 1] = NoBuilder
        <4>1. i - 1 \in 0 .. i - 1 /\ i - 1 < Begin(i)
          BY <1>2, <3>1
        <4>2. QED
          BY <3>2, <4>1 DEF IsBuilt
      <3>4. QED
        BY <2>1, <3>2, <3>3 DEF NoBuilder
    <2>3. PICK name \in Creatable : \E s \in AllForms(Basis(name)) : \E k \in 1 .. Parts(name) :
            Run(slots, i - 1, name, s, k)
      BY <1>1, <2>2 DEF LongRuns
    <2>4. PICK s \in AllForms(Basis(name)) : \E k \in 1 .. Parts(name) :
            Run(slots, i - 1, name, s, k)
      BY <2>3
    <2>5. PICK k \in 1 .. Parts(name) : Run(slots, i - 1, name, s, k)
      BY <2>4
    <2>6. Built(i).index = Parts(name) + 1 - k /\ Built(i).sum = SfnSum(s)
      BY <1>1, <2>5, RunIsBuilt
    <2>7. k = Parts(name) /\ SfnSum(s) = SfnSum(slots[i].short)
      <3>1. Parts(name) \in Nat
        BY PartsAre
      <3>2. QED
        BY <2>1, <2>6, <3>1
    <2>8. LongName(i) = Truncated(name)
      BY <1>3, <2>5, <2>7
    <2>9. QED
      BY <2>4, <2>7, <2>8 DEF TakesOver, Creatable
  <1>6. QED
    BY <1>4, <1>5

\* The slots of a run are long ones, and those of t.
LEMMA RunIsLong ==
  ASSUME NamesAssumption, NEW name \in Creatable, NEW s, NEW t, NEW j \in Nat, NEW k,
         Run(t, j, name, s, k), NEW m \in 0 .. k - 1
  PROVE  t[j - m].kind = "long" /\ j - m \in 1 .. j
  <1>1. k \in 1 .. Parts(name) /\ k <= j /\ t[j - m] = LongSlots(name, s)[k - m]
    BY DEF Run
  <1>2. Parts(name) \in Nat
    BY PartsAre
  <1>3. k - m \in 1 .. Parts(name) /\ j - m \in 1 .. j
    BY <1>1, <1>2
  <1>4. LongSlotIs(LongSlots(name, s)[k - m], name, s, k - m)
    BY <1>3, LongSlotsAre
  <1>5. QED
    BY <1>1, <1>3, <1>4 DEF LongSlotIs

\* Where the slots of a list go.
LEMMA PlacedAre ==
  ASSUME SlotsInRow, NEW p \in 1 .. Len(slots) + 1, NEW list, NEW n \in Nat \ {0}, n = Len(list),
         slots' = Placed(p, list)
  PROVE  /\ SlotsInRow' /\ \A j \in 1 .. Len(slots) : j \in DOMAIN slots'
         /\ \A j \in p .. p + n - 1 : j \in DOMAIN slots' /\ slots'[j] = list[j - p + 1]
         /\ \A j \in DOMAIN slots' : j \notin p .. p + n - 1 =>
              j \in DOMAIN slots /\ slots'[j] = slots[j]
  <1> DEFINE len == Len(slots)
             max == IF p + n - 1 > len THEN p + n - 1 ELSE len
             t == slots'
  <1>1. len \in Nat /\ p \in Nat \ {0} /\ DOMAIN slots = 1 .. len
    BY DEF SlotsInRow
  <1>2. t = [i \in 1 .. max |-> IF i \in p .. p + n - 1 THEN list[i - p + 1] ELSE slots[i]]
    BY DEF Placed
  <1> HIDE DEF t, len
  <1>3. max \in Nat /\ p + n - 1 <= max /\ len <= max
        /\ \A j \in 1 .. max : j \notin p .. p + n - 1 => j <= len
    BY <1>1
  <1> HIDE DEF max
  <1>4. DOMAIN t = 1 .. max /\ t = [i \in 1 .. max |-> t[i]]
        /\ \A j \in 1 .. max : t[j] = IF j \in p .. p + n - 1 THEN list[j - p + 1] ELSE slots[j]
    BY <1>2
  <1>5. Len(t) = max
    BY <1>3, <1>4, LenIs
  <1>6. SlotsInRow'
    BY <1>3, <1>4, <1>5 DEF SlotsInRow, t
  <1>7. QED
    BY <1>1, <1>3, <1>4, <1>6 DEF t, len

\* A run is a run of any directory with the same slots in those places.
LEMMA RunKept ==
  ASSUME NamesAssumption, NEW name \in Creatable, NEW s, NEW j \in Nat, NEW k,
         Run(slots, j, name, s, k), NEW t,
         \A i \in 1 .. j : i > j - k => t[i] = slots[i]
  PROVE  Run(t, j, name, s, k)
  <1>1. k \in 1 .. Parts(name) /\ k <= j
    BY DEF Run
  <1>2. ASSUME NEW m \in 0 .. k - 1 PROVE t[j - m] = LongSlots(name, s)[k - m]
    <2>1. Parts(name) \in Nat
      BY PartsAre
    <2>2. j - m \in 1 .. j /\ j - m > j - k
      BY <1>1, <2>1
    <2>3. slots[j - m] = LongSlots(name, s)[k - m]
      BY DEF Run
    <2>4. QED
      BY <2>2, <2>3
  <1>3. QED
    BY <1>1, <1>2 DEF Run

\* The slots of a list that is placed are where they were in the list.
LEMMA RunMoved ==
  ASSUME NamesAssumption, NEW name \in Creatable, NEW s, NEW list, NEW q \in Nat, NEW k,
         Run(list, q, name, s, k), NEW p \in Nat \ {0}, NEW t,
         \A j \in p .. p + q - 1 : t[j] = list[j - p + 1]
  PROVE  Run(t, p + q - 1, name, s, k)
  <1>1. k \in 1 .. Parts(name) /\ k <= q /\ Parts(name) \in Nat
    BY PartsAre DEF Run
  <1>2. ASSUME NEW m \in 0 .. k - 1 PROVE t[p + q - 1 - m] = LongSlots(name, s)[k - m]
    <2> DEFINE j == p + q - 1 - m
    <2>1. j \in p .. p + q - 1 /\ j - p + 1 = q - m
      BY <1>1
    <2> HIDE DEF j
    <2>2. t[j] = list[q - m]
      BY <2>1
    <2>3. list[q - m] = LongSlots(name, s)[k - m]
      BY DEF Run
    <2>4. QED
      BY <2>2, <2>3 DEF j
  <1>3. k <= p + q - 1
    BY <1>1
  <1>4. QED
    BY <1>1, <1>2, <1>3 DEF Run

\* What a list must be to be placed: its runs are its own, only its last slot is
\* a short one, and new.
Placeable(list, n) ==
  /\ n = Len(list) /\ n \in Nat \ {0} /\ DOMAIN list = 1 .. n
  /\ LongRuns(list) /\ WholeEntries(list)
  /\ \A q \in 1 .. n : list[q].kind = "short" => q = n /\ list[q].short \notin ShortNames

LEMMA PlacingKeeps ==
  ASSUME NamesAssumption, NamesInv, NEW p \in 1 .. Len(slots) + 1, NEW list, NEW n,
         Placeable(list, n), slots' = Placed(p, list),
         \A j \in p .. p + n - 1 : j \in DOMAIN slots => slots[j] = Deleted
  PROVE  NamesInv'
  <1> DEFINE t == slots'
  <1>1. /\ SlotsInRow /\ ShortNamesUnique /\ LongRuns(slots) /\ WholeEntries(slots)
        /\ p \in Nat \ {0} /\ n \in Nat \ {0} /\ DOMAIN slots = 1 .. Len(slots)
    BY DEF NamesInv, SlotsInRow, Placeable
  <1>2. /\ SlotsInRow' /\ \A j \in 1 .. Len(slots) : j \in DOMAIN t
        /\ \A j \in p .. p + n - 1 : j \in DOMAIN t /\ t[j] = list[j - p + 1]
        /\ \A j \in DOMAIN t : j \notin p .. p + n - 1 => j \in DOMAIN slots /\ t[j] = slots[j]
    BY <1>1, PlacedAre DEF Placeable
  <1>3. DOMAIN t \subseteq Nat \ {0} /\ DOMAIN slots \subseteq Nat \ {0}
    BY <1>2, <1>1 DEF SlotsInRow
  <1>4. \A j \in DOMAIN slots : slots[j].kind # "deleted" => j \notin p .. p + n - 1 /\ j \in DOMAIN t /\ t[j] = slots[j]
    <2> SUFFICES ASSUME NEW j \in DOMAIN slots, slots[j].kind # "deleted"
                 PROVE  j \notin p .. p + n - 1 /\ j \in DOMAIN t
      BY <1>2
    <2>1. slots[j] # Deleted
      BY DEF Deleted
    <2>2. QED
      BY <1>1, <1>2, <2>1
  <1> HIDE DEF t
  <1>5. ASSUME NEW j \in DOMAIN slots, NEW name \in Creatable, NEW s, NEW k, NEW e \in {0, 1},
               Run(slots, j - e, name, s, k)
        PROVE  Run(t, j - e, name, s, k)
    <2>0. j \in Nat \ {0} /\ j <= Len(slots) /\ Len(slots) \in Nat
      BY <1>1, <1>3 DEF SlotsInRow
    <2> DEFINE r == j - e
    <2>1. r \in Nat /\ r <= j
      BY <2>0
    <2> HIDE DEF r
    <2>2. ASSUME NEW i \in 1 .. r, i > r - k PROVE t[i] = slots[i]
      <3>1. k \in Nat
        <4>1. k \in 1 .. Parts(name) /\ Parts(name) \in Nat
          BY <1>5, PartsAre DEF Run
        <4>2. QED
          BY <4>1
      <3>2. r - i \in 0 .. k - 1 /\ r - (r - i) = i
        BY <2>1, <2>2, <3>1
      <3>3. slots[r - (r - i)].kind = "long"
        BY <1>5, <2>1, <3>2, RunIsLong DEF r
      <3>4. i \in DOMAIN slots
        BY <1>1, <2>0, <2>1
      <3>5. QED
        BY <1>4, <3>2, <3>3, <3>4
    <2>3. QED
      BY <1>5, <2>1, <2>2, RunKept DEF r
  <1>6. LongRuns(t)
    <2> SUFFICES ASSUME NEW j \in DOMAIN t, t[j].kind = "long"
                 PROVE  \E name \in Creatable : \E s \in AllForms(Basis(name)) :
                          \E k \in 1 .. Parts(name) : Run(t, j, name, s, k)
      BY DEF LongRuns
    <2>1. CASE j \in p .. p + n - 1
      <3> DEFINE q == j - p + 1
      <3>1. q \in 1 .. n /\ q \in Nat /\ p + q - 1 = j
        BY <1>1, <2>1
      <3> HIDE DEF q
      <3>2. list[q].kind = "long" /\ q \in DOMAIN list
        BY <1>2, <2>1, <3>1 DEF q, Placeable
      <3>3. PICK name \in Creatable : \E s \in AllForms(Basis(name)) :
              \E k \in 1 .. Parts(name) : Run(list, q, name, s, k)
        BY <3>2 DEF Placeable, LongRuns
      <3>4. PICK s \in AllForms(Basis(name)) : \E k \in 1 .. Parts(name) : Run(list, q, name, s, k)
        BY <3>3
      <3>5. PICK k \in 1 .. Parts(name) : Run(list, q, name, s, k)
        BY <3>4
      <3>6. ASSUME NEW i \in p .. p + q - 1 PROVE t[i] = list[i - p + 1]
        <4>1. i \in p .. p + n - 1
          BY <1>1, <3>1
        <4>2. QED
          BY <1>2, <4>1
      <3>7. Run(t, p + q - 1, name, s, k)
        BY <1>1, <3>1, <3>5, <3>6, RunMoved
      <3>8. QED
        BY <3>1, <3>7
    <2>2. CASE j \notin p .. p + n - 1
      <3>1. j \in DOMAIN slots /\ slots[j].kind = "long"
        BY <1>2, <2>2 DEF t
      <3>2. PICK name \in Creatable : \E s \in AllForms(Basis(name)) :
              \E k \in 1 .. Parts(name) : Run(slots, j, name, s, k)
        BY <1>1, <3>1 DEF LongRuns
      <3>3. PICK s \in AllForms(Basis(name)) : \E k \in 1 .. Parts(name) : Run(slots, j, name, s, k)
        BY <3>2
      <3>4. PICK k \in 1 .. Parts(name) : Run(slots, j, name, s, k)
        BY <3>3
      <3>5. j - 0 = j
        BY <1>3
      <3>6. Run(t, j, name, s, k)
        BY <1>5, <3>1, <3>4, <3>5
      <3>7. QED
        BY <3>6
    <2>3. QED
      BY <2>1, <2>2
  <1>7. WholeEntries(t)
    <2> SUFFICES ASSUME NEW j \in DOMAIN t, t[j].kind = "short", t[j].given # Foreign
                 PROVE  /\ t[j].given \in Creatable /\ t[j].short \in AllForms(Basis(t[j].given))
                        /\ Run(t, j - 1, t[j].given, t[j].short, Parts(t[j].given))
      BY DEF WholeEntries
    <2>1. CASE j \in p .. p + n - 1
      <3> DEFINE q == j - p
      <3>0. j \in Nat /\ p <= j /\ j <= p + n - 1 /\ p \in Nat /\ n \in Nat
        BY <1>1, <2>1
      <3>1. q \in Nat /\ q + 1 \in 1 .. n /\ p + q - 1 = j - 1 /\ q + 1 - 1 = q /\ j - p + 1 = q + 1
        BY <3>0
      <3> HIDE DEF q
      <3>2. t[j] = list[q + 1] /\ q + 1 \in DOMAIN list
        BY <1>2, <2>1, <3>1 DEF Placeable
      <3>3. /\ t[j].given \in Creatable /\ t[j].short \in AllForms(Basis(t[j].given))
            /\ Run(list, q, t[j].given, t[j].short, Parts(t[j].given))
        BY <3>1, <3>2 DEF Placeable, WholeEntries
      <3>4. ASSUME NEW i \in p .. p + q - 1 PROVE t[i] = list[i - p + 1]
        <4>1. i \in p .. p + n - 1
          BY <1>1, <3>1
        <4>2. QED
          BY <1>2, <4>1
      <3>5. Run(t, p + q - 1, t[j].given, t[j].short, Parts(t[j].given))
        BY <1>1, <3>1, <3>3, <3>4, RunMoved
      <3>6. QED
        BY <3>1, <3>3, <3>5
    <2>2. CASE j \notin p .. p + n - 1
      <3>1. j \in DOMAIN slots /\ t[j] = slots[j]
        BY <1>2, <2>2 DEF t
      <3>2. /\ t[j].given \in Creatable /\ t[j].short \in AllForms(Basis(t[j].given))
            /\ Run(slots, j - 1, t[j].given, t[j].short, Parts(t[j].given))
        BY <1>1, <3>1 DEF WholeEntries
      <3>3. QED
        BY <1>5, <3>1, <3>2
    <2>3. QED
      BY <2>1, <2>2
  <1>8. ShortNamesUnique'
    <2>1. ASSUME NEW i \in DOMAIN t, t[i].kind = "short", i \notin p .. p + n - 1
          PROVE  i \in DOMAIN slots /\ t[i] = slots[i] /\ IsShort(i) /\ t[i].short \in ShortNames
      <3>1. i \in DOMAIN slots /\ t[i] = slots[i]
        BY <1>2, <2>1 DEF t
      <3>2. IsShort(i)
        BY <2>1, <3>1 DEF IsShort
      <3>3. QED
        BY <3>1, <3>2 DEF ShortNames
    <2>2. ASSUME NEW i \in DOMAIN t, t[i].kind = "short", i \in p .. p + n - 1
          PROVE  i = p + n - 1 /\ t[i].short \notin ShortNames
      <3> DEFINE q == i - p + 1
      <3>1. q \in 1 .. n /\ i = p + q - 1
        BY <1>1, <2>2
      <3> HIDE DEF q
      <3>2. t[i] = list[q]
        BY <1>2, <2>2 DEF t, q
      <3>3. q = n /\ list[q].short \notin ShortNames
        BY <2>2, <3>1, <3>2 DEF Placeable
      <3>4. QED
        BY <3>1, <3>2, <3>3
    <2> SUFFICES ASSUME NEW i \in DOMAIN t, NEW j \in DOMAIN t, t[i].kind = "short",
                        t[j].kind = "short", i # j
                 PROVE  t[i].short # t[j].short
      BY DEF ShortNamesUnique, IsShort, t
    <2>3. CASE i \notin p .. p + n - 1 /\ j \notin p .. p + n - 1
      BY <1>1, <2>1, <2>3 DEF ShortNamesUnique
    <2>4. CASE i \in p .. p + n - 1 \/ j \in p .. p + n - 1
      BY <2>1, <2>2, <2>4
    <2>5. QED
      BY <2>3, <2>4
  <1>9. QED
    BY <1>2, <1>6, <1>7, <1>8 DEF NamesInv, t

\* What create_file writes, the first `done' slots of it.
LEMMA CreatedPlaceable ==
  ASSUME NamesAssumption, NEW name \in Creatable, NEW s \in AllForms(Basis(name)),
         s \notin ShortNames,
         NEW done \in 1 .. Len(Append(LongSlots(name, s), ShortSlot(s, name)))
  PROVE  /\ Placeable(SubSeq(Append(LongSlots(name, s), ShortSlot(s, name)), 1, done), done)
         /\ Len(Append(LongSlots(name, s), ShortSlot(s, name))) \in Nat
  <1> DEFINE n == Parts(name)
             L == LongSlots(name, s)
             e == ShortSlot(s, name)
             S == {L[i] : i \in 1 .. n} \cup {e}
             full == Append(L, e)
             list == SubSeq(full, 1, done)
  <1>1. n \in Nat \ {0}
    BY PartsAre
  <1>2. L \in Seq(S) /\ Len(L) = n
    <2>1. L \in Seq({L[i] : i \in 1 .. n}) /\ Len(L) = n
      BY LongSlotsAre
    <2>2. {L[i] : i \in 1 .. n} \subseteq S
      OBVIOUS
    <2> HIDE DEF L, S, n
    <2>3. QED
      BY <2>1, <2>2, SeqMonotonic
  <1>3. \A i \in 1 .. n : LongSlotIs(L[i], name, s, i)
    BY LongSlotsAre
  <1>4. e \in S
    OBVIOUS
  <1>5. e.kind = "short" /\ e.short = s /\ e.given = name
    BY DEF ShortSlot
  <1> HIDE DEF L, S, n, e
  <1>6. /\ full \in Seq(S) /\ Len(full) = n + 1
        /\ \A i \in 1 .. n : full[i] = L[i]
        /\ full[n + 1] = e
    BY <1>2, <1>4, AppendProperties
  <1> HIDE DEF full
  <1>7. done \in 1 .. n + 1
    BY <1>6 DEF full, L, e
  <1>8. \A i \in 1 .. done : full[i] \in S
    <2>1. \A i \in 1 .. done : i \in 1 .. Len(full)
      BY <1>1, <1>6, <1>7
    <2>2. QED
      BY <1>6, <2>1, ElementOfSeq
  <1>9. /\ list \in Seq(S) /\ Len(list) = done /\ \A i \in 1 .. done : list[i] = full[i]
    <2>1. 1 \in Int /\ done \in Int /\ 1 <= done
      BY <1>1, <1>7
    <2>2. /\ list \in Seq(S) /\ Len(list) = IF 1 <= done THEN done - 1 + 1 ELSE 0
          /\ \A i \in 1 .. done - 1 + 1 : list[i] = full[1 + i - 1]
      BY <1>8, <2>1, SubSeqProperties
    <2>3. QED
      BY <2>1, <2>2
  <1> HIDE DEF list
  <1>10. DOMAIN list = 1 .. done /\ done \in Nat \ {0}
    BY <1>1, <1>7, <1>9, LenProperties
  <1>11. \A i \in 1 .. done : i <= n => i \in 1 .. n /\ list[i] = L[i] /\ list[i].kind = "long"
    BY <1>1, <1>3, <1>6, <1>7, <1>9 DEF LongSlotIs
  <1>12. \A i \in 1 .. done : ~(i <= n) => i = n + 1 /\ i = done /\ list[i] = e
    BY <1>1, <1>6, <1>7, <1>9
  <1>13. ASSUME NEW q \in 1 .. done, q <= n PROVE Run(list, q, name, s, q)
    <2>1. q \in 1 .. n
      BY <1>1, <1>13
    <2>2. ASSUME NEW m \in 0 .. q - 1 PROVE list[q - m] = L[q - m]
      <3>1. q - m \in 1 .. done /\ q - m <= n
        BY <1>1, <1>7, <2>1
      <3>2. QED
        BY <1>11, <3>1
    <2>3. QED
      BY <2>1, <2>2 DEF Run, n, L
  <1>14. LongRuns(list)
    <2> SUFFICES ASSUME NEW q \in 1 .. done, list[q].kind = "long"
                 PROVE  \E x \in Creatable : \E y \in AllForms(Basis(x)) :
                          \E k \in 1 .. Parts(x) : Run(list, q, x, y, k)
      BY <1>10 DEF LongRuns
    <2>1. q <= n
      BY <1>5, <1>12
    <2>2. Run(list, q, name, s, q) /\ q \in 1 .. Parts(name)
      BY <1>11, <1>13, <2>1 DEF n
    <2>3. QED
      BY <2>2
  <1>15. WholeEntries(list)
    <2> SUFFICES ASSUME NEW q \in 1 .. done, list[q].kind = "short"
                 PROVE  /\ list[q].given \in Creatable
                        /\ list[q].short \in AllForms(Basis(list[q].given))
                        /\ Run(list, q - 1, list[q].given, list[q].short, Parts(list[q].given))
      BY <1>10 DEF WholeEntries
    <2>1. ~(q <= n)
      BY <1>11
    <2>2. q = n + 1 /\ q = done /\ list[q] = e
      BY <1>12, <2>1
    <2>3. n \in 1 .. done /\ q - 1 = n
      BY <1>1, <2>2
    <2>4. Run(list, n, name, s, n)
      BY <1>1, <1>13, <2>3
    <2>5. QED
      BY <1>5, <2>2, <2>3, <2>4 DEF n
  <1>16. \A q \in 1 .. done : list[q].kind = "short" => q = done /\ list[q].short \notin ShortNames
    <2> SUFFICES ASSUME NEW q \in 1 .. done, list[q].kind = "short"
                 PROVE  q = done /\ list[q].short \notin ShortNames
      OBVIOUS
    <2>1. ~(q <= n)
      BY <1>11
    <2>2. q = done /\ list[q] = e
      BY <1>12, <2>1
    <2>3. QED
      BY <1>5, <2>2
  <1>17. Placeable(list, done)
    BY <1>9, <1>10, <1>14, <1>15, <1>16 DEF Placeable
  <1>18. QED
    BY <1>1, <1>6, <1>17 DEF list, full, L, e

LEMMA CreateStep ==
  ASSUME NamesAssumption, NamesInv, NEW name \in LongNames, Create(name) PROVE NamesInv'
  <1> DEFINE s == ShortFor(name, ShortNames)
             full == Append(LongSlots(name, s), ShortSlot(s, name))
             p == FreeStart(Len(full))
  <1>1. s \notin ShortNames /\ s \in AllForms(Basis(name)) /\ name \in Creatable
    BY ShortForIsFree DEF Create, Creatable
  <1>2. PICK done \in 1 .. Len(full) : slots' = Placed(p, SubSeq(full, 1, done))
    BY DEF Create
  <1> HIDE DEF s
  <1>3. Placeable(SubSeq(full, 1, done), done) /\ Len(full) \in Nat
    BY <1>1, CreatedPlaceable
  <1> HIDE DEF full
  <1>4. /\ p \in 1 .. Len(slots) + 1
        /\ \A j \in p .. p + Len(full) - 1 : j \in DOMAIN slots => slots[j] = Deleted
    BY <1>3, FreeStartIsFree DEF NamesInv
  <1> HIDE DEF p
  <1>5. \A j \in p .. p + done - 1 : j \in DOMAIN slots => slots[j] = Deleted
    <2>1. p \in Nat /\ \A j \in p .. p + done - 1 : j \in p .. p + Len(full) - 1
      BY <1>3, <1>4 DEF NamesInv, SlotsInRow
    <2>2. QED
      BY <1>4, <2>1
  <1>6. QED
    BY <1>2, <1>3, <1>4, <1>5, PlacingKeeps

LEMMA ForeignCreateStep ==
  ASSUME NamesAssumption, NamesInv, NEW s, ForeignCreate(s) PROVE NamesInv'
  <1> DEFINE e == ShortSlot(s, Foreign)
             list == <<e>>
             p == FreeStart(1)
  <1>1. s \notin ShortNames /\ slots' = Placed(p, list)
    BY DEF ForeignCreate
  <1>2. e.kind = "short" /\ e.short = s /\ e.given = Foreign
    BY DEF ShortSlot
  <1> HIDE DEF e
  <1>3. Len(list) = 1 /\ DOMAIN list = 1 .. 1 /\ list[1] = e /\ \A q \in 1 .. 1 : q = 1
    OBVIOUS
  <1> HIDE DEF list
  <1>4. Placeable(list, 1)
    <2>1. LongRuns(list) /\ WholeEntries(list)
      BY <1>2, <1>3 DEF LongRuns, WholeEntries
    <2>2. QED
      BY <1>1, <1>2, <1>3, <2>1 DEF Placeable
  <1>5. /\ p \in 1 .. Len(slots) + 1
        /\ \A j \in p .. p + 1 - 1 : j \in DOMAIN slots => slots[j] = Deleted
    BY FreeStartIsFree DEF NamesInv
  <1> HIDE DEF p
  <1>6. QED
    BY <1>1, <1>4, <1>5, PlacingKeeps

\* With a slot of a long name go those that follow it.
Detached(gone) ==
  \A j \in DOMAIN slots : \A i \in gone :
    i < j /\ (\A h \in i .. j - 1 : slots[h].kind = "long") => j \in gone

LEMMA DeletingKeeps ==
  ASSUME NamesAssumption, NamesInv, NEW gone \in SUBSET DOMAIN slots,
         slots' = [j \in DOMAIN slots |-> IF j \in gone THEN Deleted ELSE slots[j]],
         Detached(gone)
  PROVE  NamesInv'
  <1> DEFINE t == slots'
  <1>1. /\ SlotsInRow /\ ShortNamesUnique /\ LongRuns(slots) /\ WholeEntries(slots)
        /\ DOMAIN slots = 1 .. Len(slots) /\ Len(slots) \in Nat
    BY DEF NamesInv, SlotsInRow
  <1>2. /\ DOMAIN t = DOMAIN slots /\ t = [i \in 1 .. Len(slots) |-> t[i]]
        /\ \A j \in DOMAIN slots : t[j] = IF j \in gone THEN Deleted ELSE slots[j]
    BY <1>1
  <1> HIDE DEF t
  <1>3. SlotsInRow'
    <2>1. Len(t) = Len(slots)
      BY <1>1, <1>2, LenIs
    <2>2. QED
      BY <1>1, <1>2, <2>1 DEF SlotsInRow, t
  <1>4. \A j \in DOMAIN t : t[j].kind # "deleted" => j \in DOMAIN slots /\ j \notin gone /\ t[j] = slots[j]
    <2>1. Deleted.kind = "deleted"
      BY DEF Deleted
    <2>2. QED
      BY <1>2, <2>1
  <1>5. ASSUME NEW j \in DOMAIN slots, j \notin gone, NEW name \in Creatable, NEW s, NEW k,
               NEW e \in {0, 1}, Run(slots, j - e, name, s, k)
        PROVE  Run(t, j - e, name, s, k)
    <2> DEFINE r == j - e
    <2>1. r \in Nat /\ r <= j /\ j \in 1 .. Len(slots) /\ (r = j \/ r = j - 1)
      BY <1>1
    <2> HIDE DEF r
    <2>2. k \in Nat /\ k <= r
      <3>1. k \in 1 .. Parts(name) /\ k <= r /\ Parts(name) \in Nat
        BY <1>5, PartsAre DEF Run, r
      <3>2. QED
        BY <3>1
    <2>3. ASSUME NEW i \in 1 .. r, i > r - k PROVE slots[i].kind = "long"
      <3> DEFINE m == r - i
      <3>1. m \in 0 .. k - 1 /\ r - m = i
        BY <2>1, <2>2, <2>3
      <3> HIDE DEF m
      <3>2. Run(slots, r, name, s, k)
        BY <1>5 DEF r
      <3>3. r \in Nat /\ m \in 0 .. k - 1
        BY <2>1, <3>1
      <3>4. slots[r - m].kind = "long"
        BY <3>2, <3>3, RunIsLong
      <3>5. QED
        BY <3>1, <3>4
    <2>4. ASSUME NEW i \in 1 .. r, i > r - k PROVE t[i] = slots[i]
      <3>1. i \notin gone
        <4> SUFFICES ASSUME i \in gone PROVE FALSE
          OBVIOUS
        <4>1. i < j
          BY <1>5, <2>1
        <4>2. \A h \in i .. j - 1 : slots[h].kind = "long"
          <5>1. \A h \in i .. j - 1 : h \in 1 .. r /\ h > r - k
            BY <1>1, <2>1, <2>2, <2>4
          <5>2. QED
            BY <2>3, <5>1
        <4>3. QED
          BY <1>5, <4>1, <4>2 DEF Detached
      <3>2. i \in DOMAIN slots
        BY <1>1, <2>1
      <3>3. QED
        BY <1>2, <3>1, <3>2
    <2>5. QED
      BY <1>5, <2>1, <2>4, RunKept DEF r
  <1>6. LongRuns(t)
    <2> SUFFICES ASSUME NEW j \in DOMAIN t, t[j].kind = "long"
                 PROVE  \E name \in Creatable : \E s \in AllForms(Basis(name)) :
                          \E k \in 1 .. Parts(name) : Run(t, j, name, s, k)
      BY DEF LongRuns
    <2>1. j \in DOMAIN slots /\ j \notin gone /\ slots[j].kind = "long"
      BY <1>4
    <2>2. PICK name \in Creatable : \E s \in AllForms(Basis(name)) :
            \E k \in 1 .. Parts(name) : Run(slots, j, name, s, k)
      BY <1>1, <2>1 DEF LongRuns
    <2>3. PICK s \in AllForms(Basis(name)) : \E k \in 1 .. Parts(name) : Run(slots, j, name, s, k)
      BY <2>2
    <2>4. PICK k \in 1 .. Parts(name) : Run(slots, j, name, s, k)
      BY <2>3
    <2>5. j - 0 = j
      BY <1>1, <2>1
    <2>6. Run(t, j, name, s, k)
      BY <1>5, <2>1, <2>4, <2>5
    <2>7. QED
      BY <2>6
  <1>7. WholeEntries(t)
    <2> SUFFICES ASSUME NEW j \in DOMAIN t, t[j].kind = "short", t[j].given # Foreign
                 PROVE  /\ t[j].given \in Creatable /\ t[j].short \in AllForms(Basis(t[j].given))
                        /\ Run(t, j - 1, t[j].given, t[j].short, Parts(t[j].given))
      BY DEF WholeEntries
    <2>1. j \in DOMAIN slots /\ j \notin gone /\ t[j] = slots[j]
      BY <1>4
    <2>2. /\ t[j].given \in Creatable /\ t[j].short \in AllForms(Basis(t[j].given))
          /\ Run(slots, j - 1, t[j].given, t[j].short, Parts(t[j].given))
      BY <1>1, <2>1 DEF WholeEntries
    <2>3. QED
      BY <1>5, <2>1, <2>2
  <1>8. ShortNamesUnique'
    <2> SUFFICES ASSUME NEW i \in DOMAIN t, NEW j \in DOMAIN t, t[i].kind = "short",
                        t[j].kind = "short", i # j
                 PROVE  t[i].short # t[j].short
      BY DEF ShortNamesUnique, IsShort, t
    <2>1. /\ i \in DOMAIN slots /\ t[i] = slots[i] /\ j \in DOMAIN slots /\ t[j] = slots[j]
      BY <1>4
    <2>2. QED
      BY <1>1, <2>1 DEF ShortNamesUnique, IsShort
  <1>9. QED
    BY <1>3, <1>6, <1>7, <1>8 DEF NamesInv, t

LEMMA NamesStep ==
  ASSUME NamesAssumption, NamesInv, [NamesNext]_nameVars PROVE NamesInv'
  <1>1. SlotsInRow /\ DOMAIN slots = 1 .. Len(slots) /\ Len(slots) \in Nat
    BY DEF NamesInv, SlotsInRow
  <1>2. ASSUME NEW i \in DOMAIN slots, RemoveEntry(i) PROVE NamesInv'
    <2> DEFINE gone == {j \in DOMAIN slots : j \in Begin(i) .. i}
    <2>1. slots' = [j \in DOMAIN slots |-> IF j \in gone THEN Deleted ELSE slots[j]]
      BY <1>2 DEF RemoveEntry
    <2>2. Begin(i) \in 1 .. i /\ slots[i].kind = "short"
      BY <1>1, <1>2, BeginIs DEF RemoveEntry, IsShort
    <2>3. ASSUME NEW j \in DOMAIN slots, NEW h \in gone, h < j,
                 \A g \in h .. j - 1 : slots[g].kind = "long"
          PROVE  j \in gone
      <3>1. ~(i < j)
        <4> SUFFICES ASSUME i < j PROVE FALSE
          OBVIOUS
        <4>1. i \in h .. j - 1
          BY <1>1, <2>2
        <4>2. QED
          BY <2>2, <2>3, <4>1
      <3>2. QED
        BY <1>1, <2>2, <2>3, <3>1
    <2> HIDE DEF gone
    <2>4. gone \in SUBSET DOMAIN slots
      BY DEF gone
    <2>5. QED
      BY <2>1, <2>3, <2>4, DeletingKeeps DEF Detached
  <1>3. ASSUME NEW i \in DOMAIN slots, ForeignDelete(i) PROVE NamesInv'
    <2>1. slots[i].kind = "short"
      BY <1>3 DEF ForeignDelete, IsShort
    <2>2. slots' = [j \in DOMAIN slots |-> IF j \in {i} THEN Deleted ELSE slots[j]]
      BY <1>3 DEF ForeignDelete
    <2>3. ASSUME NEW j \in DOMAIN slots, NEW h \in {i}, h < j,
                 \A g \in h .. j - 1 : slots[g].kind = "long"
          PROVE  j \in {i}
      <3>1. i \in h .. j - 1
        BY <1>1, <2>3
      <3>2. QED
        BY <2>1, <2>3, <3>1
    <2>4. {i} \in SUBSET DOMAIN slots
      OBVIOUS
    <2>5. QED
      BY <2>2, <2>3, <2>4, DeletingKeeps DEF Detached
  <1>4. CASE UNCHANGED nameVars
    BY <1>4 DEF nameVars, NamesInv, SlotsInRow, ShortNamesUnique, IsShort
  <1>5. QED
    BY <1>2, <1>3, <1>4, CreateStep, ForeignCreateStep DEF NamesNext

LEMMA NamesStart == ASSUME NamesInit PROVE NamesInv
  <1>1. slots = <<>> /\ DOMAIN slots = {} /\ Len(slots) = 0 /\ 1 .. 0 = {}
    BY DEF NamesInit
  <1>2. QED
    BY <1>1 DEF NamesInv, SlotsInRow, ShortNamesUnique, LongRuns, WholeEntries

\* No two entries of a directory get the same short name, for any names, other
\* writers, crashes and lengths of the forms.
THEOREM ShortNamesDiffer ==
  ASSUME NamesAssumption PROVE NamesSpec => []ShortNamesUnique
  <1>1. NamesInv => ShortNamesUnique
    BY DEF NamesInv
  <1>2. QED
    BY <1>1, NamesStart, NamesStep, PTL DEF NamesSpec

\* Every entry reads back with the name it was created with, less the U+FFFF it
\* ends in; a foreign entry takes a whole name or none, and only if its checksum
\* is that of a short name that could have been given for it, for any checksum.
THEOREM EntriesReadBack ==
  ASSUME NamesAssumption PROVE NamesSpec => []NamesReadBack
  BY CreatedReadBack, NamesStart, NamesStep, PTL DEF NamesSpec

-----------------------------------------------------------------------------
(* The table of entries (FatEntries).  A byte is two halves; what an entry *)
(* of 12 bits holds is three of them, so writing one changes no other.     *)

Byte == 0 .. 255
Nibble == 0 .. 15
Packable == 0 .. 4095
Words == {w \in Nat : w <= 65535}
Longs == {r \in Nat : r <= 268435455}

LowOf(x) == x % 16
HighOf(x) == x \div 16
Joined(l, h) == l + 16 * h
First4(r) == r % 16
Second4(r) == (r \div 16) % 16
Third4(r) == r \div 256
RawOf(n, m, o) == n + 16 * m + 256 * o

LEMMA HalvesAre ==
  /\ \A x \in Byte : LowOf(x) \in Nibble /\ HighOf(x) \in Nibble /\ Joined(LowOf(x), HighOf(x)) = x
  /\ \A l, h \in Nibble : Joined(l, h) \in Byte /\ LowOf(Joined(l, h)) = l /\ HighOf(Joined(l, h)) = h
  BY SMT DEF Byte, Nibble, LowOf, HighOf, Joined

LEMMA ThirdsAre ==
  /\ \A r \in Packable : /\ First4(r) \in Nibble /\ Second4(r) \in Nibble /\ Third4(r) \in Nibble
                         /\ RawOf(First4(r), Second4(r), Third4(r)) = r
  BY SMT DEF Packable, Nibble, First4, Second4, Third4, RawOf

LEMMA HalvesOfWord ==
  ASSUME NEW x \in Byte, NEW y \in Byte
  PROVE  /\ (x + 256 * y) \div 4096 = HighOf(y) /\ (x + 256 * y) % 16 = LowOf(x)
         /\ (x + 256 * y) \div 256 = y
  BY SMT DEF Byte, HighOf, LowOf

LEMMA EvenRead ==
  ASSUME NEW x \in Byte, NEW y \in Byte
  PROVE  (x + 256 * y) % 4096 = RawOf(LowOf(x), HighOf(x), LowOf(y))
  BY SMT DEF Byte, LowOf, HighOf, RawOf

LEMMA OddRead ==
  ASSUME NEW x \in Byte, NEW y \in Byte
  PROVE  (x + 256 * y) \div 16 = RawOf(HighOf(x), LowOf(y), HighOf(y))
  BY SMT DEF Byte, LowOf, HighOf, RawOf

LEMMA ByteOfThirds ==
  ASSUME NEW r \in Packable
  PROVE  r % 256 = Joined(First4(r), Second4(r)) /\ r \div 16 = Joined(Second4(r), Third4(r))
  BY SMT DEF Packable, Joined, First4, Second4, Third4

LEMMA AboveTwelve ==
  ASSUME NEW h \in Nibble, NEW r \in Packable
  PROVE  /\ 4096 * h + r \in Words
         /\ (4096 * h + r) % 256 = r % 256
         /\ (4096 * h + r) \div 256 = 16 * h + (r \div 256)
  <1>1. 4096 * h + r \in Words
    BY SMT DEF Packable, Nibble, Words
  <1>2. (4096 * h + r) % 256 = r % 256
    BY SMT DEF Packable, Nibble
  <1>3. (4096 * h + r) \div 256 = 16 * h + (r \div 256)
    BY SMT DEF Packable, Nibble
  <1>4. QED
    BY ONLY <1>1, <1>2, <1>3, SMT

LEMMA AboveFour ==
  ASSUME NEW l \in Nibble, NEW r \in Packable
  PROVE  /\ l + 16 * r \in Words
         /\ (l + 16 * r) % 256 = l + 16 * (r % 16)
         /\ (l + 16 * r) \div 256 = r \div 16
  <1>1. l + 16 * r \in Words
    BY SMT DEF Packable, Nibble, Words
  <1>2. (l + 16 * r) % 256 = l + 16 * (r % 16)
    BY SMT DEF Packable, Nibble
  <1>3. (l + 16 * r) \div 256 = r \div 16
    BY SMT DEF Packable, Nibble
  <1>4. QED
    BY ONLY <1>1, <1>2, <1>3, SMT

EvenWord(x, y, r) == 4096 * ((x + 256 * y) \div 4096) + r
OddWord(x, y, r) == ((x + 256 * y) % 16) + 16 * r

LEMMA EvenWrite ==
  ASSUME NEW x \in Byte, NEW y \in Byte, NEW r \in Packable
  PROVE  /\ EvenWord(x, y, r) \in Words
         /\ EvenWord(x, y, r) % 256 = Joined(First4(r), Second4(r))
         /\ EvenWord(x, y, r) \div 256 = Joined(Third4(r), HighOf(y))
  <1>1. PICK h \in Nibble : h = HighOf(y)
    BY HalvesAre
  <1>2. EvenWord(x, y, r) = 4096 * h + r
    BY ONLY <1>1, HalvesOfWord, x \in Byte, y \in Byte, SMT DEF EvenWord
  <1>3. Joined(Third4(r), HighOf(y)) = 16 * h + (r \div 256)
    <2>1. r \div 256 \in Int /\ h \in Int
      BY SMT DEF Packable, Nibble
    <2>2. QED
      BY ONLY <1>1, <2>1, SMT DEF Joined, Third4
  <1>4. QED
    BY ONLY <1>2, <1>3, h \in Nibble, r \in Packable, AboveTwelve, ByteOfThirds, SMT

LEMMA OddWrite ==
  ASSUME NEW x \in Byte, NEW y \in Byte, NEW r \in Packable
  PROVE  /\ OddWord(x, y, r) \in Words
         /\ OddWord(x, y, r) % 256 = Joined(LowOf(x), First4(r))
         /\ OddWord(x, y, r) \div 256 = Joined(Second4(r), Third4(r))
  <1>1. PICK l \in Nibble : l = LowOf(x)
    BY HalvesAre
  <1>2. OddWord(x, y, r) = l + 16 * r
    BY ONLY <1>1, HalvesOfWord, x \in Byte, y \in Byte, SMT DEF OddWord
  <1>3. Joined(LowOf(x), First4(r)) = l + 16 * (r % 16)
    BY ONLY <1>1, SMT DEF Joined, First4
  <1>4. QED
    BY ONLY <1>2, <1>3, l \in Nibble, r \in Packable, AboveFour, ByteOfThirds, SMT

LEMMA WordWrite ==
  ASSUME NEW w \in Words
  PROVE  w % 256 \in Byte /\ w \div 256 \in Byte /\ (w % 256) + 256 * (w \div 256) = w
  BY SMT DEF Byte, Words

LEMMA LongWrite ==
  ASSUME NEW r \in Longs
  PROVE  /\ r % 65536 \in Words /\ r \div 65536 \in Packable
         /\ (r % 65536) + 65536 * (r \div 65536) = r
  <1>1. r \in Int /\ 0 <= r /\ r <= 268435455
    BY SMT DEF Longs
  <1>2. PICK q \in Int, t \in Int : q = r \div 65536 /\ t = r % 65536
    BY <1>1, SMT
  <1>3. 0 <= t /\ t < 65536 /\ r = 65536 * q + t
    BY ONLY <1>1, <1>2, SMT
  <1>4. t \in Words
    <2>1. 0 <= t /\ t <= 65535
      BY ONLY <1>3, t \in Int, SMT
    <2>2. QED
      BY ONLY <2>1, t \in Int, SMT DEF Words
  <1>6. 0 <= 65536 * q + t /\ 65536 * q + t <= 268435455
    BY ONLY <1>1, <1>3, SMT
  <1>7. q \in Packable
    BY ONLY <1>3, <1>6, q \in Int, t \in Int, SMT DEF Packable
  <1>5. QED
    BY ONLY <1>2, <1>3, <1>4, <1>7, SMT

LEMMA HighByteIs == \A v \in Packable : v \div 256 \in Nibble /\ (v % 256) + 256 * (v \div 256) = v
  BY SMT DEF Packable, Nibble

LEMMA LowOfNibble == \A v \in Nibble : v % 16 = v /\ LowOf(v) = v /\ HighOf(v) = 0
  BY SMT DEF Nibble, LowOf, HighOf

Bytes == [0 .. Size - 1 -> Byte]
TableTypes == EntriesAssumption /\ bits \in {12, 16, 32}

LEMMA SizeIs ==
  ASSUME TableTypes
  PROVE  /\ Size \in Nat
         /\ \A c \in All : c \in Nat /\ c <= Total + 1 + Spare
         /\ \A c \in Clusters : c \in All /\ c \in Nat /\ 2 <= c /\ c <= Total + 1
         /\ Total \in Nat /\ Spare \in Nat /\ Total >= 1 /\ 1 \in All
  <1>1. Total \in Nat /\ Spare \in Nat /\ Total >= 1
    BY DEF TableTypes, EntriesAssumption
  <1>2. Size \in Nat
    BY <1>1, SMT DEF TableTypes, Size
  <1>3. QED
    BY <1>1, <1>2 DEF All, Clusters

LEMMA Fits16 ==
  ASSUME TableTypes, bits = 16, NEW c \in All
  PROVE  2 * c \in Nat /\ 2 * c + 1 \in 0 .. Size - 1 /\ 2 * c \in 0 .. Size - 1
  <1>1. c \in Nat /\ c <= Total + 1 + Spare /\ Total \in Nat /\ Spare \in Nat
    BY SizeIs
  <1>2. Size = ((Total + 2 + Spare) * 16 + 7) \div 8
    BY DEF Size
  <1>3. Size = 2 * (Total + 2 + Spare)
    BY ONLY <1>1, <1>2, SMT
  <1>4. QED
    BY <1>1, <1>3

LEMMA Fits32 ==
  ASSUME TableTypes, bits = 32, NEW c \in All
  PROVE  4 * c \in Nat /\ \A i \in {4 * c, 4 * c + 1, 4 * c + 2, 4 * c + 3} : i \in 0 .. Size - 1
  <1>1. c \in Nat /\ c <= Total + 1 + Spare /\ Total \in Nat /\ Spare \in Nat
    BY SizeIs
  <1>2. Size = ((Total + 2 + Spare) * 32 + 7) \div 8
    BY DEF Size
  <1>3. Size = 4 * (Total + 2 + Spare)
    BY ONLY <1>1, <1>2, SMT
  <1>4. QED
    BY <1>1, <1>3

\* Two entries of a FAT12 lie in three bytes.
LEMMA PackedIs ==
  ASSUME NEW c \in Nat
  PROVE  \E k \in Nat : \/ c = 2 * k /\ c % 2 = 0 /\ Packed(c) = 3 * k
                        \/ c = 2 * k + 1 /\ c % 2 = 1 /\ Packed(c) = 3 * k + 1
  <1> DEFINE k == c \div 2
  <1>1. k \in Nat /\ ((c = 2 * k /\ c % 2 = 0) \/ (c = 2 * k + 1 /\ c % 2 = 1))
    BY SMT
  <1>2. Packed(c) = c + k
    BY DEF Packed
  <1> HIDE DEF k
  <1>3. Packed(c) = IF c % 2 = 0 THEN 3 * k ELSE 3 * k + 1
    BY <1>1, <1>2
  <1>4. QED
    BY <1>1, <1>3

LEMMA Fits12 ==
  ASSUME TableTypes, bits = 12, NEW c \in All
  PROVE  Packed(c) \in Nat /\ Packed(c) + 1 \in 0 .. Size - 1 /\ Packed(c) \in 0 .. Size - 1
  <1>1. c \in Nat /\ c <= Total + 1 + Spare /\ Total \in Nat /\ Spare \in Nat
    BY SizeIs
  <1> DEFINE n == Total + 2 + Spare
  <1>2. Size = (n * 12 + 7) \div 8 /\ n \in Nat /\ c <= n - 1
    BY <1>1 DEF Size
  <1>3. PICK k \in Nat : \/ c = 2 * k /\ Packed(c) = 3 * k
                         \/ c = 2 * k + 1 /\ Packed(c) = 3 * k + 1
    BY <1>1, PackedIs
  <1> HIDE DEF n
  <1>4. CASE c = 2 * k /\ Packed(c) = 3 * k
    <2>1. (n * 12 + 7) \div 8 >= 3 * k + 2
      BY ONLY <1>2, <1>4, k \in Nat, SMT
    <2>2. QED
      BY <1>2, <1>4, <2>1
  <1>5. CASE c = 2 * k + 1 /\ Packed(c) = 3 * k + 1
    <2>1. (n * 12 + 7) \div 8 >= 3 * k + 3
      BY ONLY <1>2, <1>5, k \in Nat, SMT
    <2>2. QED
      BY <1>2, <1>5, <2>1
  <1>6. QED
    BY <1>3, <1>4, <1>5

\* What a word put into the table leaves.
LEMMA WordPut ==
  ASSUME TableTypes, NEW b \in Bytes, NEW i \in Nat, i + 1 \in 0 .. Size - 1, NEW w \in Words
  PROVE  /\ WithWord(b, i, w) \in Bytes
         /\ WithWord(b, i, w)[i] = w % 256 /\ WithWord(b, i, w)[i + 1] = w \div 256
         /\ \A j \in 0 .. Size - 1 : j # i /\ j # i + 1 => WithWord(b, i, w)[j] = b[j]
  <1>1. PICK x \in Byte, y \in Byte : x = w % 256 /\ y = w \div 256
    BY WordWrite
  <1>2. i \in 0 .. Size - 1 /\ i # i + 1
    BY SizeIs
  <1>3. WithWord(b, i, w) = [b EXCEPT ![i] = x, ![i + 1] = y]
    BY <1>1 DEF WithWord
  <1>4. QED
    BY <1>1, <1>2, <1>3 DEF Bytes

\* The value of a FAT12 entry is three of the six halves of its three bytes.
LEMMA PackedGet ==
  ASSUME TableTypes, bits = 12, NEW b \in Bytes, NEW c \in All
  PROVE  LET x == b[Packed(c)]
             y == b[Packed(c) + 1] IN
         /\ x \in Byte /\ y \in Byte /\ c % 2 \in {0, 1}
         /\ c % 2 = 0 => GetRaw(b, c) = RawOf(LowOf(x), HighOf(x), LowOf(y))
         /\ c % 2 = 1 => GetRaw(b, c) = RawOf(HighOf(x), LowOf(y), HighOf(y))
  <1>1. PICK p \in Nat : p = Packed(c) /\ p \in 0 .. Size - 1 /\ p + 1 \in 0 .. Size - 1
    BY Fits12
  <1>2. PICK x \in Byte, y \in Byte : x = b[p] /\ y = b[p + 1]
    BY <1>1 DEF Bytes
  <1>3. GetRaw(b, c) = IF c % 2 = 0 THEN (x + 256 * y) % 4096 ELSE (x + 256 * y) \div 16
    BY <1>1, <1>2, SMT DEF GetRaw, OfPacked, Word
  <1>4. c % 2 \in {0, 1}
    BY SizeIs
  <1>5. /\ c % 2 = 0 => GetRaw(b, c) = RawOf(LowOf(x), HighOf(x), LowOf(y))
        /\ c % 2 = 1 => GetRaw(b, c) = RawOf(HighOf(x), LowOf(y), HighOf(y))
    BY ONLY <1>3, EvenRead, OddRead, x \in Byte, y \in Byte, SMT
  <1>6. QED
    BY ONLY <1>1, <1>2, <1>4, <1>5

LEMMA PackedSet ==
  ASSUME TableTypes, bits = 12, NEW b \in Bytes, NEW c \in All, NEW r \in Packable
  PROVE  LET p == Packed(c)
             s == SetPacked(b, c, r) IN
         /\ s \in Bytes
         /\ c % 2 = 0 => s[p] = Joined(First4(r), Second4(r)) /\ s[p + 1] = Joined(Third4(r), HighOf(b[p + 1]))
         /\ c % 2 = 1 => s[p] = Joined(LowOf(b[p]), First4(r)) /\ s[p + 1] = Joined(Second4(r), Third4(r))
         /\ \A j \in 0 .. Size - 1 : j # p /\ j # p + 1 => s[j] = b[j]
  <1>1. PICK p \in Nat : p = Packed(c) /\ p \in 0 .. Size - 1 /\ p + 1 \in 0 .. Size - 1
    BY Fits12
  <1>2. PICK x \in Byte, y \in Byte : x = b[p] /\ y = b[p + 1]
    BY <1>1 DEF Bytes
  <1>3. c % 2 \in {0, 1}
    BY SizeIs
  <1>4. SetPacked(b, c, r) = WithWord(b, p, IF c % 2 = 0 THEN EvenWord(x, y, r) ELSE OddWord(x, y, r))
    BY ONLY <1>1, <1>2, SMT DEF SetPacked, Word, EvenWord, OddWord
  <1>5. PICK w \in Words : /\ w = IF c % 2 = 0 THEN EvenWord(x, y, r) ELSE OddWord(x, y, r)
                           /\ c % 2 = 0 => /\ w % 256 = Joined(First4(r), Second4(r))
                                           /\ w \div 256 = Joined(Third4(r), HighOf(y))
                           /\ c % 2 = 1 => /\ w % 256 = Joined(LowOf(x), First4(r))
                                           /\ w \div 256 = Joined(Second4(r), Third4(r))
    BY ONLY <1>3, EvenWrite, OddWrite, x \in Byte, y \in Byte, r \in Packable, SMT
  <1>6. PICK s \in Bytes : s = SetPacked(b, c, r) /\ s = WithWord(b, p, w)
    BY <1>1, <1>4, <1>5, WordPut
  <1>7. /\ s[p] = w % 256 /\ s[p + 1] = w \div 256
        /\ \A j \in 0 .. Size - 1 : j # p /\ j # p + 1 => s[j] = b[j]
    BY <1>1, <1>6, WordPut
  <1>8. QED
    BY ONLY <1>1, <1>2, <1>5, <1>6, <1>7

\* A FAT12: what is put in an entry is read from it, and what it shares bytes with is not changed.
LEMMA PackedExact ==
  ASSUME TableTypes, bits = 12, NEW b \in Bytes, NEW c \in All, NEW r \in Packable, NEW d \in All
  PROVE  GetRaw(SetPacked(b, c, r), d) = IF d = c THEN r ELSE GetRaw(b, d)
  <1>1. PICK s \in Bytes : s = SetPacked(b, c, r)
    BY PackedSet
  <1>2. PICK p \in Nat, q \in Nat : /\ p = Packed(c) /\ p \in 0 .. Size - 1 /\ p + 1 \in 0 .. Size - 1
                                    /\ q = Packed(d) /\ q \in 0 .. Size - 1 /\ q + 1 \in 0 .. Size - 1
    BY Fits12
  <1>3. /\ c % 2 = 0 => s[p] = Joined(First4(r), Second4(r)) /\ s[p + 1] = Joined(Third4(r), HighOf(b[p + 1]))
        /\ c % 2 = 1 => s[p] = Joined(LowOf(b[p]), First4(r)) /\ s[p + 1] = Joined(Second4(r), Third4(r))
    BY <1>1, <1>2, PackedSet
  <1>4. \A j \in 0 .. Size - 1 : j # p /\ j # p + 1 => s[j] = b[j]
    BY <1>1, <1>2, PackedSet
  <1>5. /\ d % 2 = 0 => GetRaw(s, d) = RawOf(LowOf(s[q]), HighOf(s[q]), LowOf(s[q + 1]))
        /\ d % 2 = 1 => GetRaw(s, d) = RawOf(HighOf(s[q]), LowOf(s[q + 1]), HighOf(s[q + 1]))
    BY <1>2, PackedGet
  <1>6. /\ d % 2 = 0 => GetRaw(b, d) = RawOf(LowOf(b[q]), HighOf(b[q]), LowOf(b[q + 1]))
        /\ d % 2 = 1 => GetRaw(b, d) = RawOf(HighOf(b[q]), LowOf(b[q + 1]), HighOf(b[q + 1]))
    BY <1>2, PackedGet
  <1>7. c \in Nat /\ d \in Nat
    BY SizeIs
  <1>8. PICK k \in Nat : \/ c = 2 * k /\ c % 2 = 0 /\ p = 3 * k
                         \/ c = 2 * k + 1 /\ c % 2 = 1 /\ p = 3 * k + 1
    BY <1>2, <1>7, PackedIs
  <1>9. PICK m \in Nat : \/ d = 2 * m /\ d % 2 = 0 /\ q = 3 * m
                         \/ d = 2 * m + 1 /\ d % 2 = 1 /\ q = 3 * m + 1
    BY <1>2, <1>7, PackedIs
  <1>10. b[p] \in Byte /\ b[p + 1] \in Byte
    BY <1>2 DEF Bytes
  <1>11. /\ First4(r) \in Nibble /\ Second4(r) \in Nibble /\ Third4(r) \in Nibble
         /\ RawOf(First4(r), Second4(r), Third4(r)) = r
         /\ LowOf(b[p]) \in Nibble /\ HighOf(b[p + 1]) \in Nibble
    BY <1>10, ThirdsAre, HalvesAre
  <1>12. CASE d = c
    <2>1. p = q
      BY <1>2, <1>12
    <2>2. CASE d % 2 = 0
      BY <1>1, <1>3, <1>5, <1>11, <1>12, <2>1, <2>2, HalvesAre
    <2>3. CASE d % 2 = 1
      BY <1>1, <1>3, <1>5, <1>11, <1>12, <2>1, <2>3, HalvesAre
    <2>4. QED
      BY <1>9, <2>2, <2>3
  <1>13. CASE d # c /\ q # p + 1 /\ q + 1 # p
    <2>1. q # p /\ q + 1 # p + 1
      BY ONLY <1>8, <1>9, <1>13, k \in Nat, m \in Nat, p \in Nat, q \in Nat
    <2>2. s[q] = b[q] /\ s[q + 1] = b[q + 1]
      BY <1>2, <1>4, <1>13, <2>1
    <2>3. QED
      BY <1>1, <1>5, <1>6, <1>9, <1>13, <2>2
  <1>14. CASE q = p + 1
    <2>1. c % 2 = 0 /\ d % 2 = 1 /\ d # c /\ q + 1 # p /\ q + 1 # p + 1
      BY ONLY <1>8, <1>9, <1>14, k \in Nat, m \in Nat, p \in Nat, q \in Nat
    <2>2. s[q + 1] = b[q + 1]
      BY <1>2, <1>4, <2>1
    <2>3. HighOf(s[q]) = HighOf(b[q])
      BY <1>3, <1>11, <1>14, <2>1, HalvesAre
    <2>4. QED
      BY <1>1, <1>5, <1>6, <2>1, <2>2, <2>3
  <1>15. CASE q + 1 = p
    <2>1. c % 2 = 1 /\ d % 2 = 0 /\ d # c /\ q # p /\ q # p + 1
      BY ONLY <1>8, <1>9, <1>15, k \in Nat, m \in Nat, p \in Nat, q \in Nat
    <2>2. s[q] = b[q]
      BY <1>2, <1>4, <2>1
    <2>3. LowOf(s[q + 1]) = LowOf(b[q + 1])
      BY <1>3, <1>11, <1>15, <2>1, HalvesAre
    <2>4. QED
      BY <1>1, <1>5, <1>6, <2>1, <2>2, <2>3
  <1>16. QED
    BY <1>12, <1>13, <1>14, <1>15

\* FAT16
LEMMA WordExact ==
  ASSUME TableTypes, bits = 16, NEW b \in Bytes, NEW c \in All, NEW r \in Words, NEW d \in All
  PROVE  /\ WithWord(b, 2 * c, r) \in Bytes
         /\ GetRaw(WithWord(b, 2 * c, r), d) = IF d = c THEN r ELSE GetRaw(b, d)
  <1>1. PICK p \in Nat, q \in Nat : /\ p = 2 * c /\ p + 1 \in 0 .. Size - 1
                                    /\ q = 2 * d /\ q + 1 \in 0 .. Size - 1 /\ q \in 0 .. Size - 1
    BY Fits16
  <1>2. PICK s \in Bytes : s = WithWord(b, p, r)
    BY <1>1, WordPut
  <1>3. /\ s[p] = r % 256 /\ s[p + 1] = r \div 256
        /\ \A j \in 0 .. Size - 1 : j # p /\ j # p + 1 => s[j] = b[j]
    BY <1>1, <1>2, WordPut
  <1>4. /\ GetRaw(s, d) = s[q] + 256 * s[q + 1]
        /\ GetRaw(b, d) = b[q] + 256 * b[q + 1]
    BY <1>1, SMT DEF GetRaw, Word
  <1>5. CASE d = c
    BY <1>1, <1>2, <1>3, <1>4, <1>5, WordWrite
  <1>6. CASE d # c
    <2>1. q # p /\ q # p + 1 /\ q + 1 # p /\ q + 1 # p + 1
      <3>1. c \in Nat /\ d \in Nat
        BY SizeIs
      <3>2. QED
        BY ONLY <1>1, <1>6, <3>1
    <2>2. s[q] = b[q] /\ s[q + 1] = b[q + 1]
      BY <1>1, <1>3, <2>1
    <2>3. QED
      BY <1>1, <1>2, <1>4, <1>6, <2>2
  <1>7. QED
    BY <1>1, <1>2, <1>5, <1>6

\* FAT32: four bytes, and four bits of the last of them are not of the entry.
LongOf(x, y, z, l) == (x + 256 * y) + 65536 * (z + 256 * l)

LEMMA LongGet ==
  ASSUME TableTypes, bits = 32, NEW b \in Bytes, NEW c \in All
  PROVE  /\ GetRaw(b, c) = LongOf(b[4 * c], b[4 * c + 1], b[4 * c + 2], LowOf(b[4 * c + 3]))
         /\ Upper(b, 4 * c) = HighOf(b[4 * c + 3])
  <1>1. c \in Nat /\ 4 * c + 2 + 1 = 4 * c + 3
    BY SizeIs
  <1>2. GetRaw(b, c) = Long(b, 4 * c)
    BY SMT DEF GetRaw
  <1>3. QED
    BY ONLY <1>1, <1>2, SMT DEF Long, Word, Upper, LongOf, LowOf, HighOf

LEMMA LongIs ==
  ASSUME NEW r \in Longs
  PROVE  LET m == r % 65536
             v == r \div 65536 IN
         /\ m \in Words /\ v \in Words
         /\ v \div 256 \in Nibble
         /\ LongOf(m % 256, m \div 256, v % 256, v \div 256) = r
  <1>1. PICK m \in Words, v \in Packable : m = r % 65536 /\ v = r \div 65536 /\ m + 65536 * v = r
    BY LongWrite
  <1>2. v \in Words
    BY SMT DEF Packable, Words
  <1>3. /\ (m % 256) + 256 * (m \div 256) = m
        /\ v \div 256 \in Nibble /\ (v % 256) + 256 * (v \div 256) = v
    BY WordWrite, HighByteIs, SMT
  <1>4. LongOf(m % 256, m \div 256, v % 256, v \div 256) = r
    BY ONLY <1>1, <1>3, SMT DEF LongOf
  <1>5. QED
    BY ONLY <1>1, <1>2, <1>3, <1>4

LEMMA LongSet ==
  ASSUME TableTypes, bits = 32, NEW b \in Bytes, NEW c \in All, NEW r \in Longs
  PROVE  LET m == r % 65536
             v == r \div 65536
             s == SetRaw(b, c, r)
             p == 4 * c IN
         /\ s \in Bytes
         /\ s[p] = m % 256 /\ s[p + 1] = m \div 256 /\ s[p + 2] = v % 256
         /\ s[p + 3] = Joined(v \div 256, HighOf(b[p + 3]))
         /\ \A j \in 0 .. Size - 1 : j \notin {p, p + 1, p + 2, p + 3} => s[j] = b[j]
  <1>1. PICK p \in Nat : p = 4 * c /\ \A i \in {p, p + 1, p + 2, p + 3} : i \in 0 .. Size - 1
    BY Fits32
  <1>17. p + 1 \in 0 .. Size - 1 /\ p + 2 \in 0 .. Size - 1 /\ p + 3 \in 0 .. Size - 1
    BY <1>1
  <1>2. PICK m \in Words, v \in Words : /\ m = r % 65536 /\ v = r \div 65536 /\ v \div 256 \in Nibble
    BY LongIs
  <1>3. PICK t \in Bytes : t = WithWord(b, p, m)
    BY <1>1, WordPut
  <1>4. /\ t[p] = m % 256 /\ t[p + 1] = m \div 256
        /\ \A j \in 0 .. Size - 1 : j # p /\ j # p + 1 => t[j] = b[j]
    BY ONLY <1>3, <1>17, WordPut, TableTypes, b \in Bytes, p \in Nat, m \in Words
  <1>5. p + 2 \in Nat /\ p + 2 + 1 = p + 3 /\ Size \in Nat
    BY SizeIs
  <1>6. PICK u \in Bytes : u = WithWord(t, p + 2, v)
    BY <1>1, <1>5, WordPut
  <1>7. /\ u[p + 2] = v % 256 /\ u[p + 3] = v \div 256
        /\ \A j \in 0 .. Size - 1 : j # p + 2 /\ j # p + 3 => u[j] = t[j]
    <2>1. PICK k \in Nat : k = p + 2 /\ k + 1 = p + 3 /\ k + 1 \in 0 .. Size - 1
      BY <1>5, <1>17
    <2>2. u = WithWord(t, k, v)
      BY <1>6, <2>1
    <2>3. /\ u[k] = v % 256 /\ u[k + 1] = v \div 256
          /\ \A j \in 0 .. Size - 1 : j # k /\ j # k + 1 => u[j] = t[j]
      BY ONLY <2>1, <2>2, WordPut, TableTypes, t \in Bytes, k \in Nat, v \in Words
    <2>4. QED
      BY ONLY <2>1, <2>3
  <1>8. b[p + 3] \in Byte
    BY <1>1 DEF Bytes
  <1>9. PICK n \in Byte : n = Joined(v \div 256, HighOf(b[p + 3]))
    BY <1>2, <1>8, HalvesAre
  <1>10. (u[p + 3] % 16) + 16 * Upper(b, p) = n
    <2>1. u[p + 3] % 16 = v \div 256
      BY <1>2, <1>7, LowOfNibble
    <2>2. Upper(b, p) = HighOf(b[p + 3])
      BY DEF Upper, HighOf
    <2>3. QED
      BY ONLY <1>9, <2>1, <2>2 DEF Joined
  <1>11. SetRaw(b, c, r) = [WithWord(WithWord(b, 4 * c, r % 65536), 4 * c + 2, r \div 65536)
                              EXCEPT ![4 * c + 3] = (@ % 16) + 16 * Upper(b, 4 * c)]
    BY SMT DEF SetRaw
  <1>12. SetRaw(b, c, r) = [u EXCEPT ![p + 3] = n]
    BY ONLY <1>1, <1>2, <1>3, <1>6, <1>10, <1>11
  <1>13. PICK s \in Bytes : s = SetRaw(b, c, r) /\ s = [u EXCEPT ![p + 3] = n]
    BY <1>12 DEF Bytes
  <1>14. s[p + 3] = n /\ \A j \in 0 .. Size - 1 : j # p + 3 => s[j] = u[j]
    BY <1>1, <1>13 DEF Bytes
  <1>15. /\ s[p] = m % 256 /\ s[p + 1] = m \div 256 /\ s[p + 2] = v % 256
         /\ \A j \in 0 .. Size - 1 : j \notin {p, p + 1, p + 2, p + 3} => s[j] = b[j]
    BY <1>1, <1>4, <1>7, <1>14
  <1>16. QED
    BY ONLY <1>1, <1>2, <1>9, <1>13, <1>14, <1>15

LEMMA LongExact ==
  ASSUME TableTypes, bits = 32, NEW b \in Bytes, NEW c \in All, NEW r \in Longs, NEW d \in All
  PROVE  /\ SetRaw(b, c, r) \in Bytes
         /\ GetRaw(SetRaw(b, c, r), d) = IF d = c THEN r ELSE GetRaw(b, d)
         /\ Upper(SetRaw(b, c, r), 4 * d) = Upper(b, 4 * d)
  <1>1. PICK p \in Nat : p = 4 * c /\ \A i \in {p, p + 1, p + 2, p + 3} : i \in 0 .. Size - 1
    BY Fits32
  <1>2. PICK q \in Nat : q = 4 * d /\ \A i \in {q, q + 1, q + 2, q + 3} : i \in 0 .. Size - 1
    BY Fits32
  <1>3. PICK m \in Words, v \in Words : /\ m = r % 65536 /\ v = r \div 65536 /\ v \div 256 \in Nibble
                                        /\ LongOf(m % 256, m \div 256, v % 256, v \div 256) = r
    BY LongIs
  <1>4. PICK s \in Bytes : s = SetRaw(b, c, r)
    BY LongSet
  <1>5. /\ s[p] = m % 256 /\ s[p + 1] = m \div 256 /\ s[p + 2] = v % 256
        /\ s[p + 3] = Joined(v \div 256, HighOf(b[p + 3]))
        /\ \A j \in 0 .. Size - 1 : j \notin {p, p + 1, p + 2, p + 3} => s[j] = b[j]
    BY <1>1, <1>3, <1>4, LongSet
  <1>6. /\ GetRaw(s, d) = LongOf(s[q], s[q + 1], s[q + 2], LowOf(s[q + 3]))
        /\ GetRaw(b, d) = LongOf(b[q], b[q + 1], b[q + 2], LowOf(b[q + 3]))
        /\ Upper(s, q) = HighOf(s[q + 3]) /\ Upper(b, q) = HighOf(b[q + 3])
    BY <1>2, LongGet
  <1>7. CASE d = c
    <2>1. HighOf(b[p + 3]) \in Nibble
      BY <1>1, HalvesAre DEF Bytes
    <2>2. LowOf(s[p + 3]) = v \div 256 /\ HighOf(s[p + 3]) = HighOf(b[p + 3])
      BY <1>3, <1>5, <2>1, HalvesAre
    <2>3. QED
      BY <1>1, <1>2, <1>3, <1>4, <1>5, <1>6, <1>7, <2>2
  <1>8. CASE d # c
    <2>1. \A i \in {q, q + 1, q + 2, q + 3} : i \notin {p, p + 1, p + 2, p + 3}
      <3>1. c \in Nat /\ d \in Nat
        BY SizeIs
      <3>2. QED
        BY ONLY <1>1, <1>2, <1>8, <3>1
    <2>2. s[q] = b[q] /\ s[q + 1] = b[q + 1] /\ s[q + 2] = b[q + 2] /\ s[q + 3] = b[q + 3]
      BY <1>2, <1>5, <2>1
    <2>3. QED
      BY <1>2, <1>4, <1>6, <1>8, <2>2
  <1>9. QED
    BY <1>7, <1>8

-----------------------------------------------------------------------------
Raws == CASE bits = 12 -> Packable [] bits = 16 -> Words [] bits = 32 -> Longs

\* An entry is read as it was written and no other entry changes, of any width.
LEMMA EntryExact ==
  ASSUME TableTypes, NEW b \in Bytes, NEW c \in All, NEW r \in Raws, NEW d \in All
  PROVE  /\ SetRaw(b, c, r) \in Bytes
         /\ GetRaw(SetRaw(b, c, r), d) = IF d = c THEN r ELSE GetRaw(b, d)
         /\ bits = 32 => Upper(SetRaw(b, c, r), 4 * d) = Upper(b, 4 * d)
  <1>1. CASE bits = 12
    <2>1. SetRaw(b, c, r) = SetPacked(b, c, r) /\ r \in Packable
      BY <1>1, SMT DEF SetRaw, Raws
    <2>2. QED
      BY <1>1, <2>1, PackedSet, PackedExact
  <1>2. CASE bits = 16
    <2>1. SetRaw(b, c, r) = WithWord(b, 2 * c, r) /\ r \in Words
      BY <1>2, SMT DEF SetRaw, Raws
    <2>2. QED
      BY <1>2, <2>1, WordExact
  <1>3. CASE bits = 32
    <2>1. r \in Longs
      BY <1>3, SMT DEF Raws
    <2>2. QED
      BY <1>3, <2>1, LongExact
  <1>4. QED
    BY <1>1, <1>2, <1>3 DEF TableTypes

LEMMA FullIs ==
  ASSUME bits \in {12, 16, 32}
  PROVE  /\ Full \in Nat /\ Full - 8 \in Nat /\ Full - 8 > 0
         /\ \A r \in Nat : r <= Full => r \in Raws
  <1>1. CASE bits = 12
    <2>1. Full = 4095 /\ Raws = Packable
      BY <1>1, SMT DEF Full, Raws
    <2>2. QED
      BY ONLY <2>1, SMT DEF Packable
  <1>2. CASE bits = 16
    <2>1. Full = 65535 /\ Raws = Words
      BY <1>2, SMT DEF Full, Raws
    <2>2. QED
      BY ONLY <2>1, SMT DEF Words
  <1>3. CASE bits = 32
    <2>1. Full = 268435455 /\ Raws = Longs
      BY <1>3, SMT DEF Full, Raws
    <2>2. QED
      BY ONLY <2>1, SMT DEF Longs
  <1>4. QED
    BY ONLY <1>1, <1>2, <1>3, bits \in {12, 16, 32}

LEMMA ValueIs ==
  ASSUME NEW v \in FatValue
  PROVE  \/ v = [kind |-> "Free"] \/ v = [kind |-> "Bad"] \/ v = [kind |-> "EndOfChain"]
         \/ v.kind = "Data" /\ v.next \in Clusters /\ v = [kind |-> "Data", next |-> v.next]
  BY DEF FatValue

\* Every value has an encoding of its own, and only Free is encoded as zero.
LEMMA EncodeIs ==
  ASSUME TableTypes, NumbersFit, NEW v \in FatValue
  PROVE  /\ Encode(v) \in Raws /\ Decode(Encode(v)) = v
         /\ Encode(v) = 0 <=> v.kind = "Free"
  <1>1. PICK m \in Nat : m = Full /\ m - 8 \in Nat /\ m - 8 > 0 /\ \A r \in Nat : r <= m => r \in Raws
    BY FullIs DEF TableTypes
  <1>2. Total + 1 < m - 8 /\ Total \in Nat
    BY <1>1, SizeIs DEF NumbersFit
  <1>3. CASE v = [kind |-> "Free"]
    <2>1. Encode(v) = 0
      BY <1>3 DEF Encode
    <2>2. QED
      BY <1>1, <1>3, <2>1 DEF Decode
  <1>4. CASE v = [kind |-> "Bad"]
    <2>1. Encode(v) = m - 8
      BY <1>1, <1>4 DEF Encode
    <2>2. QED
      BY <1>1, <1>4, <2>1 DEF Decode
  <1>5. CASE v = [kind |-> "EndOfChain"]
    <2>1. Encode(v) = m
      BY <1>1, <1>5 DEF Encode
    <2>2. QED
      BY <1>1, <1>5, <2>1 DEF Decode
  <1>6. CASE v.kind = "Data" /\ v.next \in Clusters /\ v = [kind |-> "Data", next |-> v.next]
    <2>1. PICK n \in Nat : n = v.next /\ 2 <= n /\ n <= Total + 1
      BY <1>6, SizeIs
    <2>2. Encode(v) = n
      BY <1>6, <2>1 DEF Encode
    <2>3. n # 0 /\ n # m - 8 /\ ~(n > m - 8) /\ n <= m
      BY ONLY <1>1, <1>2, <2>1
    <2>4. Decode(n) = [kind |-> "Data", next |-> n]
      BY <1>1, <2>3 DEF Decode
    <2>5. QED
      BY <1>1, <1>6, <2>1, <2>2, <2>3, <2>4
  <1>7. QED
    BY <1>3, <1>4, <1>5, <1>6, ValueIs

LEMMA DecodeFull ==
  ASSUME TableTypes
  PROVE  Decode(Full) = [kind |-> "EndOfChain"] /\ Full \in Raws /\ Full # 0
  <1>1. PICK m \in Nat : m = Full /\ m - 8 \in Nat /\ m - 8 > 0 /\ \A r \in Nat : r <= m => r \in Raws
    BY FullIs DEF TableTypes
  <1>2. m # 0 /\ m # m - 8 /\ m > m - 8 /\ m \in Raws
    BY <1>1
  <1>3. QED
    BY <1>1, <1>2 DEF Decode

-----------------------------------------------------------------------------
\* The flags that a table of this width has.
Marks == IF bits = 12 THEN {{}} ELSE SUBSET {"dirty", "io_error"}

\* The raw value of every entry is the encoding of what it was given.
EntriesInv ==
  /\ TableTypes /\ NumbersFit
  /\ marks \in Marks
  /\ bytes \in Bytes
  /\ entries \in [Clusters -> FatValue]
  /\ \A c \in Clusters : GetRaw(bytes, c) = Encode(entries[c])
  /\ \A c \in All \ (0 .. Total + 1) : GetRaw(bytes, c) = Full
  /\ bits # 12 => GetRaw(bytes, 1) = Full - Lowered
  /\ bits = 32 => \A c \in Clusters : Upper(bytes, 4 * c) = upper[c]

LEMMA FlagsAre ==
  ASSUME bits \in {12, 16, 32}, marks \in Marks, bits # 12 => GetRaw(bytes, 1) = Full - Lowered
  PROVE  Flags = marks
  <1>1. CASE bits = 12
    BY <1>1, SMT DEF Flags, Marks
  <1>2. CASE bits # 12
    <2>1. marks \in SUBSET {"dirty", "io_error"}
      BY <1>2 DEF Marks
    <2> DEFINE d == IF "dirty" \in marks THEN 1 ELSE 0
               e == IF "io_error" \in marks THEN 1 ELSE 0
               raw == Full - Lowered
    <2>2. d \in {0, 1} /\ e \in {0, 1} /\ (d = 1 <=> "dirty" \in marks) /\ (e = 1 <=> "io_error" \in marks)
      OBVIOUS
    <2>3. raw = Full - (FlagBit("dirty") * d + FlagBit("io_error") * e)
      <3>1. FlagBit("dirty") \in Int /\ FlagBit("io_error") \in Int
        BY SMT DEF FlagBit
      <3>2. QED
        BY <3>1 DEF Lowered
    <2> HIDE DEF d, e, raw
    <2>4. /\ (raw \div FlagBit("dirty")) % 2 = 0 <=> d = 1
          /\ (raw \div FlagBit("io_error")) % 2 = 0 <=> e = 1
      <3>1. CASE bits = 16
        <4>1. Full = 65535 /\ FlagBit("dirty") = 32768 /\ FlagBit("io_error") = 16384
          BY <3>1, SMT DEF Full, FlagBit
        <4>2. raw \in {65535, 32767, 49151, 16383}
              /\ (raw = 65535 => d = 0 /\ e = 0) /\ (raw = 32767 => d = 1 /\ e = 0)
              /\ (raw = 49151 => d = 0 /\ e = 1) /\ (raw = 16383 => d = 1 /\ e = 1)
          BY ONLY <2>2, <2>3, <4>1, SMT
        <4>3. /\ (65535 \div 32768) % 2 = 1 /\ (65535 \div 16384) % 2 = 1
              /\ (32767 \div 32768) % 2 = 0 /\ (32767 \div 16384) % 2 = 1
              /\ (49151 \div 32768) % 2 = 1 /\ (49151 \div 16384) % 2 = 0
              /\ (16383 \div 32768) % 2 = 0 /\ (16383 \div 16384) % 2 = 0
          BY SMT
        <4>4. QED
          BY ONLY <2>2, <4>1, <4>2, <4>3, SMT
      <3>2. CASE bits = 32
        <4>1. Full = 268435455 /\ FlagBit("dirty") = 134217728 /\ FlagBit("io_error") = 67108864
          BY <3>2, SMT DEF Full, FlagBit
        <4>2. raw \in {268435455, 134217727, 201326591, 67108863}
              /\ (raw = 268435455 => d = 0 /\ e = 0) /\ (raw = 134217727 => d = 1 /\ e = 0)
              /\ (raw = 201326591 => d = 0 /\ e = 1) /\ (raw = 67108863 => d = 1 /\ e = 1)
          BY ONLY <2>2, <2>3, <4>1, SMT
        <4>3. /\ (268435455 \div 134217728) % 2 = 1 /\ (268435455 \div 67108864) % 2 = 1
              /\ (134217727 \div 134217728) % 2 = 0 /\ (134217727 \div 67108864) % 2 = 1
              /\ (201326591 \div 134217728) % 2 = 1 /\ (201326591 \div 67108864) % 2 = 0
              /\ (67108863 \div 134217728) % 2 = 0 /\ (67108863 \div 67108864) % 2 = 0
          BY SMT
        <4>4. QED
          BY ONLY <2>2, <4>1, <4>2, <4>3, SMT
      <3>3. QED
        BY ONLY <1>2, <3>1, <3>2, bits \in {12, 16, 32}
    <2>5. Flags = {m \in {"dirty", "io_error"} : (raw \div FlagBit(m)) % 2 = 0}
      BY <1>2 DEF Flags, raw
    <2>6. QED
      BY <2>1, <2>2, <2>4, <2>5
  <1>3. QED
    BY ONLY <1>1, <1>2

\* Write, and steps that change nothing.
LEMMA EntriesStep ==
  ASSUME EntriesInv, TableNext PROVE EntriesInv'
  <1>1. PICK c \in Clusters, v \in FatValue : Write(c, v)
    BY DEF TableNext
  <1>2. UNCHANGED <<bits, marks, upper>> /\ bytes' = SetRaw(bytes, c, Encode(v)) /\ entries' = [entries EXCEPT ![c] = v]
    BY <1>1 DEF Write
  <1>3. TableTypes /\ NumbersFit /\ bytes \in Bytes /\ entries \in [Clusters -> FatValue] /\ marks \in Marks
    BY DEF EntriesInv
  <1>4. c \in All /\ c \in Nat /\ 2 <= c /\ c <= Total + 1 /\ Total \in Nat /\ 1 \in All
    BY <1>3, SizeIs
  <1>5. PICK r \in Raws : r = Encode(v)
    BY <1>3, EncodeIs
  <1>6. PICK b \in Bytes, s \in Bytes : b = bytes /\ s = SetRaw(b, c, r) /\ s = bytes'
    BY <1>2, <1>3, <1>4, <1>5, EntryExact
  <1>7. \A d \in All : /\ GetRaw(s, d) = IF d = c THEN r ELSE GetRaw(b, d)
                       /\ bits = 32 => Upper(s, 4 * d) = Upper(b, 4 * d)
    <2>1. ASSUME NEW d \in All
          PROVE  /\ GetRaw(s, d) = IF d = c THEN r ELSE GetRaw(b, d)
                 /\ bits = 32 => Upper(s, 4 * d) = Upper(b, 4 * d)
      <3>1. /\ GetRaw(SetRaw(b, c, r), d) = IF d = c THEN r ELSE GetRaw(b, d)
            /\ bits = 32 => Upper(SetRaw(b, c, r), 4 * d) = Upper(b, 4 * d)
        BY ONLY <1>3, <1>4, EntryExact, b \in Bytes, r \in Raws, d \in All
      <3>2. s = SetRaw(b, c, r)
        BY <1>6
      <3>3. QED
        BY ONLY <3>1, <3>2
    <2>2. QED
      BY <2>1
  <1>8. /\ TableTypes' /\ NumbersFit' /\ (marks \in Marks)' /\ (bytes \in Bytes)' /\ Full' = Full /\ Lowered' = Lowered
        /\ \A d : GetRaw(bytes, d)' = GetRaw(s, d)
        /\ \A e : Encode(e)' = Encode(e)
        /\ \A d : Upper(bytes, 4 * d)' = Upper(s, 4 * d)
    <2>1. TableTypes' /\ (marks \in Marks)'
      BY <1>2, <1>3 DEF TableTypes, Marks
    <2>2. Full' = Full
      BY <1>2, SMT DEF Full
    <2>3. NumbersFit'
      BY <1>2, <1>3, <2>2 DEF NumbersFit
    <2>4. (bytes \in Bytes)'
      BY <1>2, <1>6 DEF Bytes, Size
    <2>5. Lowered' = Lowered
      BY <1>2, SMT DEF Lowered, FlagBit
    <2>6. \A d : GetRaw(bytes, d)' = GetRaw(s, d)
      BY <1>2, <1>6, SMT DEF GetRaw, OfPacked, Word, Long, Packed
    <2>7. \A e : Encode(e)' = Encode(e)
      BY <2>2 DEF Encode
    <2>8. \A d : Upper(bytes, 4 * d)' = Upper(s, 4 * d)
      BY <1>6 DEF Upper
    <2>9. QED
      BY ONLY <2>1, <2>2, <2>3, <2>4, <2>5, <2>6, <2>7, <2>8
  <1>9. entries' \in [Clusters -> FatValue]
    BY <1>2, <1>3
  <1>10. \A d \in Clusters : GetRaw(s, d) = Encode(entries'[d])
    <2>1. ASSUME NEW d \in Clusters PROVE GetRaw(s, d) = Encode(entries'[d])
      <3>1. d \in All /\ GetRaw(b, d) = Encode(entries[d])
        BY <1>3, <1>6, SizeIs DEF EntriesInv
      <3>2. entries'[d] = IF d = c THEN v ELSE entries[d]
        BY <1>2, <1>3
      <3>3. QED
        BY <1>5, <1>7, <3>1, <3>2
    <2>2. QED
      BY <2>1
  <1>11. \A d \in All \ (0 .. Total + 1) : GetRaw(s, d) = Full
    <2>1. ASSUME NEW d \in All \ (0 .. Total + 1) PROVE GetRaw(s, d) = Full
      <3>1. d # c /\ GetRaw(b, d) = Full
        BY <1>4, <1>6 DEF EntriesInv
      <3>2. QED
        BY <1>7, <3>1
    <2>2. QED
      BY <2>1
  <1>12. bits # 12 => GetRaw(s, 1) = Full - Lowered
    <2>1. c # 1
      BY <1>4
    <2>2. QED
      BY <1>4, <1>6, <1>7, <2>1 DEF EntriesInv
  <1>13. bits = 32 => \A d \in Clusters : Upper(s, 4 * d) = upper[d]
    BY <1>3, <1>6, <1>7, SizeIs DEF EntriesInv
  <1>14. QED
    BY <1>2, <1>8, <1>9, <1>10, <1>11, <1>12, <1>13 DEF EntriesInv

-----------------------------------------------------------------------------
\* From one entry of a FAT12 to the next.
LEMMA PackedNext ==
  ASSUME NEW c \in Nat
  PROVE  /\ c % 2 \in {0, 1} /\ (c + 1) % 2 \in {0, 1} /\ Packed(c) \in Nat
         /\ c % 2 = 0 => (c + 1) % 2 = 1 /\ Packed(c + 1) = Packed(c) + 1
         /\ c % 2 = 1 => (c + 1) % 2 = 0 /\ Packed(c + 1) = Packed(c) + 2
  <1>1. PICK k \in Nat : \/ c = 2 * k /\ c % 2 = 0 /\ Packed(c) = 3 * k
                         \/ c = 2 * k + 1 /\ c % 2 = 1 /\ Packed(c) = 3 * k + 1
    BY PackedIs
  <1>2. PICK m \in Nat : \/ c + 1 = 2 * m /\ (c + 1) % 2 = 0 /\ Packed(c + 1) = 3 * m
                         \/ c + 1 = 2 * m + 1 /\ (c + 1) % 2 = 1 /\ Packed(c + 1) = 3 * m + 1
    BY PackedIs
  <1>3. QED
    BY <1>1, <1>2

LEMMA PackedTwo == Packed(2) = 3 /\ 2 % 2 = 0
  BY DEF Packed

\* The word of an entry.
WordOf(b, c) == Word(b, Packed(c))

LEMMA WordOfNext ==
  ASSUME TableTypes, bits = 12, NEW b \in Bytes, NEW c \in Nat, c \in All, c + 1 \in All, c % 2 = 0
  PROVE  /\ (WordOf(b, c) \div 256) + 256 * b[Packed(c) + 2] = WordOf(b, c + 1)
         /\ WordOf(b, c) \div 4096 = HighOf(b[Packed(c + 1)])
  <1>1. PICK p \in Nat : p = Packed(c) /\ p \in 0 .. Size - 1 /\ p + 1 \in 0 .. Size - 1
    BY Fits12
  <1>2. Packed(c + 1) = p + 1 /\ p + 1 + 1 \in 0 .. Size - 1 /\ p + 1 + 1 = p + 2
    BY <1>1, PackedNext, Fits12
  <1>3. PICK x \in Byte, y \in Byte : x = b[p] /\ y = b[p + 1]
    BY <1>1 DEF Bytes
  <1>4. WordOf(b, c) = x + 256 * y /\ WordOf(b, c + 1) = y + 256 * b[p + 2]
    BY ONLY <1>1, <1>2, <1>3 DEF WordOf, Word
  <1>5. (x + 256 * y) \div 256 = y /\ (x + 256 * y) \div 4096 = HighOf(y)
    BY HalvesOfWord
  <1>6. QED
    BY ONLY <1>1, <1>2, <1>3, <1>4, <1>5

IsRolling(f, start, end) ==
  f = [c \in start .. end - 1 |->
         IF c = start THEN [word |-> Word(bytes, Packed(c)), next |-> Packed(c) + 2]
         ELSE LET last == f[c - 1] IN
              IF c % 2 = 0 THEN [word |-> Word(bytes, last.next), next |-> last.next + 2]
              ELSE [word |-> (last.word \div 256) + 256 * bytes[last.next], next |-> last.next + 1]]

Rolled(c) == [word |-> WordOf(bytes, c), next |-> Packed(c) + 2]

\* What the search carries along is the word of the entry it has come to.
LEMMA RollingIs ==
  ASSUME TableTypes, bits = 12, bytes \in Bytes, NEW start \in Clusters, NEW end \in Clusters \cup {Total + 2}
  PROVE  \A c \in start .. end - 1 : Rolling(start, end)[c].word = WordOf(bytes, c)
  <1> DEFINE F == [c \in start .. end - 1 |-> Rolled(c)]
             R == Rolling(start, end)
  <1>1. start \in Nat /\ end \in Nat /\ \A c \in start .. end - 1 : c \in All /\ c \in Nat
    <2>1. start \in Nat /\ 2 <= start /\ Total \in Nat /\ Spare \in Nat /\ end \in Nat /\ end <= Total + 2
      BY SizeIs
    <2>2. QED
      BY <2>1 DEF All
  <1>2. ASSUME NEW c \in start .. end - 1, c # start
        PROVE  Rolled(c) = IF c % 2 = 0 THEN [word |-> Word(bytes, Rolled(c - 1).next),
                                              next |-> Rolled(c - 1).next + 2]
                           ELSE [word |-> (Rolled(c - 1).word \div 256) + 256 * bytes[Rolled(c - 1).next],
                                 next |-> Rolled(c - 1).next + 1]
    <2>1. PICK d \in Nat : d = c - 1 /\ c = d + 1 /\ d \in All /\ c \in All /\ c \in Nat
      BY <1>1, <1>2
    <2>2. /\ d % 2 \in {0, 1} /\ Packed(d) \in Nat
          /\ d % 2 = 0 => c % 2 = 1 /\ Packed(c) = Packed(d) + 1
          /\ d % 2 = 1 => c % 2 = 0 /\ Packed(c) = Packed(d) + 2
      BY <2>1, PackedNext
    <2>3. CASE d % 2 = 0
      <3>1. WordOf(bytes, c) = (WordOf(bytes, d) \div 256) + 256 * bytes[Packed(d) + 2]
        BY <2>1, <2>3, WordOfNext
      <3>2. Packed(c) + 2 = (Packed(d) + 2) + 1
        BY ONLY <2>2, <2>3
      <3>3. QED
        BY ONLY <2>1, <2>2, <2>3, <3>1, <3>2 DEF Rolled
    <2>4. CASE d % 2 = 1
      <3>1. Packed(c) = Packed(d) + 2 /\ c % 2 = 0
        BY ONLY <2>2, <2>4
      <3>2. QED
        BY ONLY <2>1, <3>1 DEF Rolled, WordOf
    <2>5. QED
      BY <2>2, <2>3, <2>4
  <1>3. IsRolling(F, start, end)
    <2>1. ASSUME NEW c \in start .. end - 1
          PROVE  F[c] = IF c = start THEN [word |-> Word(bytes, Packed(c)), next |-> Packed(c) + 2]
                        ELSE LET last == F[c - 1] IN
                             IF c % 2 = 0 THEN [word |-> Word(bytes, last.next), next |-> last.next + 2]
                             ELSE [word |-> (last.word \div 256) + 256 * bytes[last.next], next |-> last.next + 1]
      <3>1. CASE c = start
        BY <3>1 DEF Rolled, WordOf
      <3>2. CASE c # start
        <4>1. c - 1 \in start .. end - 1
          BY <1>1, <3>2
        <4>2. F[c - 1] = Rolled(c - 1) /\ F[c] = Rolled(c)
          BY <4>1
        <4> HIDE DEF F
        <4>3. QED
          BY ONLY <1>2, <3>2, <4>2, c \in start .. end - 1
      <3>3. QED
        BY ONLY <3>1, <3>2
    <2>2. F = [c \in start .. end - 1 |-> F[c]]
      OBVIOUS
    <2> HIDE DEF F
    <2>3. QED
      BY ONLY <2>1, <2>2 DEF IsRolling
  <1>4. R = CHOOSE f : IsRolling(f, start, end)
    BY DEF Rolling, IsRolling
  <1> HIDE DEF F, R
  <1>5. IsRolling(R, start, end)
    BY ONLY <1>3, <1>4
  <1>6. \A c \in start .. end - 1 :
          R[c] = IF c = start THEN Rolled(c)
                 ELSE IF c % 2 = 0 THEN [word |-> Word(bytes, R[c - 1].next), next |-> R[c - 1].next + 2]
                 ELSE [word |-> (R[c - 1].word \div 256) + 256 * bytes[R[c - 1].next], next |-> R[c - 1].next + 1]
    BY ONLY <1>5 DEF IsRolling, Rolled, WordOf
  <1> DEFINE n == end - 1 - start
             Good == {i \in 0 .. n : R[start + i] = Rolled(start + i)}
  <1>7. CASE n \in Nat
    <2>1. 0 \in Good
      <3>1. start \in start .. end - 1 /\ start + 0 = start
        BY <1>1, <1>7
      <3>2. R[start] = Rolled(start)
        BY ONLY <1>6, <3>1
      <3>3. QED
        BY <1>7, <3>1, <3>2
    <2>2. ASSUME NEW i \in 1 .. n, i - 1 \in Good PROVE i \in Good
      <3>1. PICK c \in start .. end - 1 : c = start + i /\ c # start /\ c - 1 = start + (i - 1)
        BY <1>1, <1>7
      <3>2. R[c - 1] = Rolled(c - 1)
        BY <2>2, <3>1
      <3>3. R[c] = Rolled(c)
        <4>1. R[c] = IF c % 2 = 0 THEN [word |-> Word(bytes, R[c - 1].next), next |-> R[c - 1].next + 2]
                     ELSE [word |-> (R[c - 1].word \div 256) + 256 * bytes[R[c - 1].next], next |-> R[c - 1].next + 1]
          BY ONLY <1>6, <3>1, c \in start .. end - 1
        <4>2. Rolled(c) = IF c % 2 = 0 THEN [word |-> Word(bytes, Rolled(c - 1).next),
                                             next |-> Rolled(c - 1).next + 2]
                          ELSE [word |-> (Rolled(c - 1).word \div 256) + 256 * bytes[Rolled(c - 1).next],
                                next |-> Rolled(c - 1).next + 1]
          BY ONLY <1>2, <3>1, c \in start .. end - 1
        <4>3. QED
          BY ONLY <3>2, <4>1, <4>2
      <3>4. QED
        BY <3>1, <3>3
    <2> HIDE DEF Good, n
    <2>3. \A i \in 0 .. n : i \in Good
      BY ONLY <1>7, <2>1, <2>2, UpTo
    <2>4. ASSUME NEW c \in start .. end - 1 PROVE R[c].word = WordOf(bytes, c)
      <3>1. PICK i \in 0 .. n : c = start + i
        BY <1>1 DEF n
      <3>2. R[c] = Rolled(c)
        BY <2>3, <3>1 DEF Good
      <3>3. QED
        BY <3>2 DEF Rolled
    <2>5. QED
      BY <2>4 DEF R
  <1>8. CASE n \notin Nat
    <2>1. start .. end - 1 = {}
      BY <1>1, <1>8
    <2>2. QED
      BY <2>1
  <1>9. QED
    BY <1>7, <1>8

\* The count takes the middle byte of two entries from the word read before.
CountedAt(f, c) ==
  LET from == IF c = 2 THEN 3 ELSE f[c - 1].next IN
  IF c % 2 = 0
  THEN LET w == Word(bytes, from)
       IN  [read |-> w, value |-> w % 4096, next |-> from + 2]
  ELSE [read |-> bytes[from], next |-> from + 1,
        value |-> 256 * bytes[from] + (f[c - 1].read \div 4096)]
IsCounting(f) == f = [c \in Clusters |-> CountedAt(f, c)]

Counted(c) ==
  IF c % 2 = 0
  THEN [read |-> WordOf(bytes, c), value |-> WordOf(bytes, c) % 4096, next |-> Packed(c) + 2]
  ELSE [read |-> bytes[Packed(c) + 1], next |-> Packed(c) + 2,
        value |-> 256 * bytes[Packed(c) + 1] + HighOf(bytes[Packed(c)])]

\* What is to follow an entry that is not the first.
CountedNext(r, c) ==
  IF c % 2 = 0
  THEN [read |-> Word(bytes, r.next), value |-> Word(bytes, r.next) % 4096, next |-> r.next + 2]
  ELSE [read |-> bytes[r.next], next |-> r.next + 1,
        value |-> 256 * bytes[r.next] + (r.read \div 4096)]

LEMMA CountingIs ==
  ASSUME TableTypes, bits = 12, bytes \in Bytes
  PROVE  CountedPacked = {c \in Clusters : Counted(c).value = 0}
  <1> DEFINE F == [c \in Clusters |-> Counted(c)]
             R == CHOOSE f : IsCounting(f)
  <1>1. \A c \in Clusters : c \in All /\ c \in Nat /\ 2 <= c /\ c <= Total + 1
    BY SizeIs
  <1>2. ASSUME NEW c \in Clusters, c # 2 PROVE Counted(c) = CountedNext(Counted(c - 1), c) /\ c - 1 \in Clusters
    <2>1. PICK d \in Nat : d = c - 1 /\ c = d + 1 /\ d \in Clusters /\ d \in All /\ c \in All /\ c \in Nat
      <3>1. Total \in Nat
        BY SizeIs
      <3>2. c - 1 \in Clusters
        BY <1>1, <1>2, <3>1 DEF Clusters
      <3>3. QED
        BY <1>1, <3>2
    <2>2. /\ d % 2 \in {0, 1} /\ Packed(d) \in Nat
          /\ d % 2 = 0 => c % 2 = 1 /\ Packed(c) = Packed(d) + 1
          /\ d % 2 = 1 => c % 2 = 0 /\ Packed(c) = Packed(d) + 2
      BY <2>1, PackedNext
    <2>3. CASE d % 2 = 0
      <3>1. WordOf(bytes, d) \div 4096 = HighOf(bytes[Packed(c)])
        BY <2>1, <2>3, WordOfNext
      <3>2. Packed(c) + 1 = Packed(d) + 2 /\ Packed(c) + 2 = (Packed(d) + 2) + 1
        BY ONLY <2>2, <2>3
      <3>3. Counted(d).next = Packed(d) + 2 /\ Counted(d).read = WordOf(bytes, d)
        BY ONLY <2>3 DEF Counted
      <3>4. Counted(c) = [read |-> bytes[Packed(d) + 2], next |-> (Packed(d) + 2) + 1,
                          value |-> 256 * bytes[Packed(d) + 2] + (WordOf(bytes, d) \div 4096)]
        BY ONLY <2>2, <2>3, <3>1, <3>2 DEF Counted
      <3>5. CountedNext(Counted(d), c) = [read |-> bytes[Packed(d) + 2], next |-> (Packed(d) + 2) + 1,
                          value |-> 256 * bytes[Packed(d) + 2] + (WordOf(bytes, d) \div 4096)]
        BY ONLY <2>2, <2>3, <3>3 DEF CountedNext
      <3>6. QED
        BY ONLY <2>1, <3>4, <3>5
    <2>4. CASE d % 2 = 1
      <3>1. Packed(c) = Packed(d) + 2 /\ c % 2 = 0
        BY ONLY <2>2, <2>4
      <3>2. Counted(d).next = Packed(d) + 2
        BY ONLY <2>4 DEF Counted
      <3>3. CountedNext(Counted(d), c) = [read |-> Word(bytes, Packed(c)), value |-> Word(bytes, Packed(c)) % 4096,
                                          next |-> Packed(c) + 2]
        BY ONLY <3>1, <3>2 DEF CountedNext
      <3>4. Counted(c) = [read |-> Word(bytes, Packed(c)), value |-> Word(bytes, Packed(c)) % 4096,
                          next |-> Packed(c) + 2]
        BY ONLY <3>1 DEF Counted, WordOf
      <3>5. QED
        BY ONLY <2>1, <3>3, <3>4
    <2>5. QED
      BY <2>2, <2>3, <2>4
  <1>3. 2 \in Clusters /\ Counted(2) = [read |-> Word(bytes, 3), value |-> Word(bytes, 3) % 4096, next |-> 5]
    <2>1. 2 \in Clusters
      BY SizeIs DEF Clusters
    <2>2. Packed(2) = 3 /\ 2 % 2 = 0 /\ 3 + 2 = 5
      BY PackedTwo
    <2>3. QED
      BY ONLY <2>1, <2>2 DEF Counted, WordOf
  <1>4. ASSUME NEW f
        PROVE  IsCounting(f) <=>
                 f = [c \in Clusters |-> IF c = 2 THEN Counted(2) ELSE CountedNext(f[c - 1], c)]
    <2>1. ASSUME NEW c \in Clusters
          PROVE  CountedAt(f, c) = IF c = 2 THEN Counted(2) ELSE CountedNext(f[c - 1], c)
      <3>1. CASE c = 2
        <4>1. 2 % 2 = 0 /\ 3 + 2 = 5
          BY PackedTwo
        <4>2. QED
          BY ONLY <1>3, <3>1, <4>1 DEF CountedAt
      <3>2. CASE c # 2
        BY ONLY <3>2 DEF CountedAt, CountedNext
      <3>3. QED
        BY ONLY <3>1, <3>2
    <2>2. QED
      BY ONLY <2>1 DEF IsCounting
  <1>5. IsCounting(F)
    <2>1. ASSUME NEW c \in Clusters
          PROVE  F[c] = IF c = 2 THEN Counted(2) ELSE CountedNext(F[c - 1], c)
      <3>1. CASE c = 2
        BY <3>1
      <3>2. CASE c # 2
        BY <1>2, <3>2
      <3>3. QED
        BY ONLY <3>1, <3>2
    <2>2. F = [c \in Clusters |-> F[c]]
      OBVIOUS
    <2> HIDE DEF F
    <2>3. QED
      BY ONLY <1>4, <2>1, <2>2
  <1>6. CountedPacked = {c \in Clusters : R[c].value = 0}
    BY DEF CountedPacked, IsCounting, CountedAt
  <1> HIDE DEF F, R
  <1>7. \A c \in Clusters : R[c] = IF c = 2 THEN Counted(2) ELSE CountedNext(R[c - 1], c)
    <2>1. IsCounting(R)
      BY ONLY <1>5 DEF R
    <2>2. R = [c \in Clusters |-> IF c = 2 THEN Counted(2) ELSE CountedNext(R[c - 1], c)]
      BY ONLY <1>4, <2>1
    <2>3. QED
      BY ONLY <2>2
  <1> DEFINE n == Total - 1
             Good == {i \in 0 .. n : R[i + 2] = Counted(i + 2)}
  <1>8. n \in Nat
    BY SizeIs
  <1>9. 0 \in Good
    BY <1>3, <1>7, <1>8
  <1>10. ASSUME NEW i \in 1 .. n, i - 1 \in Good PROVE i \in Good
    <2>1. PICK c \in Clusters : c = i + 2 /\ c # 2 /\ c - 1 = (i - 1) + 2
      BY <1>8, SizeIs DEF Clusters
    <2>2. R[c - 1] = Counted(c - 1)
      BY <1>10, <2>1
    <2>3. R[c] = CountedNext(R[c - 1], c)
      BY ONLY <1>7, <2>1, c \in Clusters
    <2>4. Counted(c) = CountedNext(Counted(c - 1), c)
      BY ONLY <1>2, <2>1, c \in Clusters
    <2>5. QED
      BY <2>1, <2>2, <2>3, <2>4
  <1> HIDE DEF Good, n
  <1>11. \A i \in 0 .. n : i \in Good
    BY ONLY <1>8, <1>9, <1>10, UpTo
  <1>12. ASSUME NEW c \in Clusters PROVE R[c] = Counted(c)
    <2>1. PICK i \in 0 .. n : c = i + 2
      BY SizeIs DEF Clusters, n
    <2>2. QED
      BY <1>11, <2>1 DEF Good
  <1>13. QED
    BY ONLY <1>6, <1>12

\* It is zero where the entry is.
LEMMA CountedZero ==
  ASSUME TableTypes, bits = 12, bytes \in Bytes, NEW c \in Clusters
  PROVE  Counted(c).value = 0 <=> GetRaw(bytes, c) = 0
  <1>1. c \in All
    BY SizeIs
  <1>2. PICK p \in Nat : p = Packed(c) /\ p \in 0 .. Size - 1 /\ p + 1 \in 0 .. Size - 1
    BY <1>1, Fits12
  <1>3. PICK x \in Byte, y \in Byte :
          /\ x = bytes[p] /\ y = bytes[p + 1] /\ c % 2 \in {0, 1}
          /\ c % 2 = 0 => GetRaw(bytes, c) = RawOf(LowOf(x), HighOf(x), LowOf(y))
          /\ c % 2 = 1 => GetRaw(bytes, c) = RawOf(HighOf(x), LowOf(y), HighOf(y))
    BY <1>1, <1>2, PackedGet
  <1>4. CASE c % 2 = 0
    <2>1. Counted(c).value = (x + 256 * y) % 4096
      BY ONLY <1>2, <1>3, <1>4, SMT DEF Counted, WordOf, Word
    <2>2. QED
      BY ONLY <1>3, <1>4, <2>1, EvenRead, x \in Byte, y \in Byte, SMT
  <1>5. CASE c % 2 = 1
    <2>1. Counted(c).value = 256 * y + HighOf(x)
      BY ONLY <1>2, <1>3, <1>5, SMT DEF Counted
    <2>2. HighOf(x) \in Nibble /\ LowOf(y) \in Nibble /\ HighOf(y) \in Nibble /\ Joined(LowOf(y), HighOf(y)) = y
      BY HalvesAre
    <2>3. RawOf(HighOf(x), LowOf(y), HighOf(y)) = HighOf(x) + 16 * y
      BY ONLY <2>2, SMT DEF RawOf, Joined, Nibble
    <2>4. QED
      BY ONLY <1>3, <1>5, <2>1, <2>2, <2>3, x \in Byte, y \in Byte, SMT DEF Byte, Nibble
  <1>6. QED
    BY <1>3, <1>4, <1>5

-----------------------------------------------------------------------------
\* What the searches of the table find are the entries that are zero.
LEMMA SearchesFindZeros ==
  ASSUME TableTypes, bytes \in Bytes
  PROVE  /\ \A start, end \in Clusters \cup {Total + 2} :
              start < end => FoundFree(start, end) = {c \in start .. end - 1 : GetRaw(bytes, c) = 0}
         /\ CountFree = Cardinality({c \in Clusters : GetRaw(bytes, c) = 0})
  <1>1. ASSUME NEW start \in Clusters \cup {Total + 2}, NEW end \in Clusters \cup {Total + 2}, start < end
        PROVE  FoundFree(start, end) = {c \in start .. end - 1 : GetRaw(bytes, c) = 0}
    <2>1. CASE bits = 12
      <3>1. start \in Clusters
        <4>1. \A c \in Clusters \cup {Total + 2} : c \in Nat /\ c <= Total + 2
          BY SizeIs
        <4>2. QED
          BY <1>1, <4>1
      <3>2. \A c \in start .. end - 1 : Rolling(start, end)[c].word = WordOf(bytes, c)
        BY <2>1, <3>1, RollingIs
      <3>3. \A c : GetRaw(bytes, c) = OfPacked(c, WordOf(bytes, c))
        BY <2>1, SMT DEF GetRaw, WordOf
      <3>4. FoundFree(start, end) = {c \in start .. end - 1 : OfPacked(c, Rolling(start, end)[c].word) = 0}
        BY <2>1 DEF FoundFree
      <3>5. QED
        BY ONLY <3>2, <3>3, <3>4
    <2>2. CASE bits # 12
      BY <2>2 DEF FoundFree
    <2>3. QED
      BY <2>1, <2>2
  <1>2. CountFree = Cardinality({c \in Clusters : GetRaw(bytes, c) = 0})
    <2>1. CASE bits = 12
      <3>1. CountedPacked = {c \in Clusters : GetRaw(bytes, c) = 0}
        BY <2>1, CountingIs, CountedZero
      <3>2. QED
        BY <2>1, <3>1 DEF CountFree
    <2>2. CASE bits # 12
      BY <2>2 DEF CountFree
    <2>3. QED
      BY <2>1, <2>2
  <1>3. QED
    BY <1>1, <1>2

LEMMA InvIsExact == ASSUME EntriesInv PROVE TableIsExact
  <1>1. TableTypes /\ NumbersFit /\ bytes \in Bytes /\ entries \in [Clusters -> FatValue]
        /\ \A c \in Clusters : GetRaw(bytes, c) = Encode(entries[c])
    BY DEF EntriesInv
  <1>2. \A c \in Clusters : /\ entries[c] \in FatValue
                            /\ Get(c) = entries[c]
                            /\ GetRaw(bytes, c) = 0 <=> entries[c].kind = "Free"
    <2>1. ASSUME NEW c \in Clusters
          PROVE  /\ entries[c] \in FatValue
                 /\ Get(c) = entries[c]
                 /\ GetRaw(bytes, c) = 0 <=> entries[c].kind = "Free"
      <3>1. PICK v \in FatValue : v = entries[c]
        BY <1>1
      <3>2. Decode(Encode(v)) = v /\ (Encode(v) = 0 <=> v.kind = "Free")
        BY ONLY <1>1, EncodeIs, v \in FatValue
      <3>3. Get(c) = Decode(Encode(v)) /\ GetRaw(bytes, c) = Encode(v)
        BY <1>1, <3>1 DEF Get
      <3>4. QED
        BY ONLY <3>1, <3>2, <3>3
    <2>2. QED
      BY <2>1
  <1>3. ReadsBack
    BY <1>2 DEF ReadsBack
  <1>4. SearchIsExact
    <2>1. ASSUME NEW start \in Clusters \cup {Total + 2}, NEW end \in Clusters \cup {Total + 2}, start < end
          PROVE  FoundFree(start, end) = {c \in start .. end - 1 : entries[c].kind = "Free"}
      <3>1. FoundFree(start, end) = {c \in start .. end - 1 : GetRaw(bytes, c) = 0}
        BY <1>1, <2>1, SearchesFindZeros
      <3>2. \A c \in start .. end - 1 : c \in Clusters
        <4>1. \A c \in Clusters \cup {Total + 2} : c \in Nat /\ 2 <= c /\ c <= Total + 2
          BY <1>1, SizeIs
        <4>2. Total \in Nat
          BY <1>1, SizeIs
        <4>3. QED
          BY <4>1, <4>2 DEF Clusters
      <3>3. QED
        BY ONLY <1>2, <3>1, <3>2
    <2>2. CountFree = Cardinality({c \in Clusters : entries[c].kind = "Free"})
      <3>1. CountFree = Cardinality({c \in Clusters : GetRaw(bytes, c) = 0})
        BY <1>1, SearchesFindZeros
      <3>2. {c \in Clusters : GetRaw(bytes, c) = 0} = {c \in Clusters : entries[c].kind = "Free"}
        BY ONLY <1>2
      <3>3. QED
        BY ONLY <3>1, <3>2
    <2>3. QED
      BY ONLY <2>1, <2>2 DEF SearchIsExact
  <1>5. RestIsKept
    <2>1. \A c \in All \ (0 .. Total + 1) : Get(c) = [kind |-> "EndOfChain"]
      BY <1>1, DecodeFull DEF EntriesInv, Get
    <2>2. Flags = marks
      BY <1>1, FlagsAre DEF EntriesInv, TableTypes
    <2>3. bits = 32 => \A c \in Clusters : Upper(bytes, 4 * c) = upper[c]
      BY DEF EntriesInv
    <2>4. QED
      BY ONLY <2>1, <2>2, <2>3 DEF RestIsKept
  <1>6. QED
    BY ONLY <1>3, <1>4, <1>5 DEF TableIsExact

Put(b, i, x) == [b EXCEPT ![i] = x]

LEMMA PutIs ==
  ASSUME NEW b \in Bytes, NEW i \in Nat, NEW x \in Byte
  PROVE  /\ Put(b, i, x) \in Bytes
         /\ \A j \in 0 .. Size - 1 : j # i => Put(b, i, x)[j] = b[j]
  BY DEF Bytes, Put

\* A table as it is formatted, before the entries past the last cluster are marked.
LEMMA FirstIs ==
  ASSUME TableTypes
  PROVE  /\ First \in Bytes
         /\ \A d \in Clusters : GetRaw(First, d) = 0 /\ (bits = 32 => Upper(First, 4 * d) = 0)
  <1> DEFINE start == CASE bits = 12 -> 3 [] bits = 16 -> 4 [] bits = 32 -> 8
  <1>1. First \in Bytes /\ \A i \in 0 .. Size - 1 : i >= start => First[i] = 0
    <2>1. Zeros \in Bytes /\ \A i \in 0 .. Size - 1 : Zeros[i] = 0
      <3>1. 0 \in Byte
        BY DEF Byte
      <3>2. QED
        BY <3>1 DEF Zeros, Bytes
    <2>2. 248 \in Byte /\ 255 \in Byte /\ 15 \in Byte /\ 0 \in Byte /\ Media = 248
      BY SMT DEF Byte, Media
    <2>7. PICK m \in Byte, h \in Byte : m = 248 /\ h = 255
      BY ONLY <2>2
    <2>3. CASE bits = 12
      <3>1. First = [Zeros EXCEPT ![0] = Media, ![1] = 255, ![2] = 255] /\ start = 3
        BY <2>3, SMT DEF First
      <3> HIDE DEF start
      <3>2. PICK a \in Bytes : a = Put(Zeros, 0, m) /\ \A j \in 0 .. Size - 1 : j # 0 => a[j] = Zeros[j]
        BY ONLY <2>1, PutIs, m \in Byte, 0 \in Nat
      <3>3. PICK b \in Bytes : b = Put(a, 1, h) /\ \A j \in 0 .. Size - 1 : j # 1 => b[j] = a[j]
        BY ONLY PutIs, a \in Bytes, h \in Byte, 1 \in Nat
      <3>4. PICK c \in Bytes : c = Put(b, 2, h) /\ \A j \in 0 .. Size - 1 : j # 2 => c[j] = b[j]
        BY ONLY PutIs, b \in Bytes, h \in Byte, 2 \in Nat
      <3>5. First = c
        BY ONLY <2>2, <2>7, <3>1, <3>2, <3>3, <3>4 DEF Put
      <3>6. \A i \in 0 .. Size - 1 : i >= start => i # 0 /\ i # 1 /\ i # 2
        BY <3>1, SizeIs
      <3>7. \A i \in 0 .. Size - 1 : i >= start => c[i] = 0
        BY ONLY <2>1, <3>2, <3>3, <3>4, <3>6
      <3>8. QED
        BY ONLY <3>5, <3>7, c \in Bytes
    <2>4. CASE bits = 16
      <3>1. First = [Zeros EXCEPT ![0] = Media, ![1] = 255, ![2] = 255, ![3] = 255] /\ start = 4
        BY <2>4, SMT DEF First
      <3> HIDE DEF start
      <3>2. PICK a \in Bytes : a = Put(Zeros, 0, m) /\ \A j \in 0 .. Size - 1 : j # 0 => a[j] = Zeros[j]
        BY ONLY <2>1, PutIs, m \in Byte, 0 \in Nat
      <3>3. PICK b \in Bytes : b = Put(a, 1, h) /\ \A j \in 0 .. Size - 1 : j # 1 => b[j] = a[j]
        BY ONLY PutIs, a \in Bytes, h \in Byte, 1 \in Nat
      <3>4. PICK c \in Bytes : c = Put(b, 2, h) /\ \A j \in 0 .. Size - 1 : j # 2 => c[j] = b[j]
        BY ONLY PutIs, b \in Bytes, h \in Byte, 2 \in Nat
      <3>5. PICK d \in Bytes : d = Put(c, 3, h) /\ \A j \in 0 .. Size - 1 : j # 3 => d[j] = c[j]
        BY ONLY PutIs, c \in Bytes, h \in Byte, 3 \in Nat
      <3>6. First = d
        BY ONLY <2>2, <2>7, <3>1, <3>2, <3>3, <3>4, <3>5 DEF Put
      <3>7. \A i \in 0 .. Size - 1 : i >= start => i # 0 /\ i # 1 /\ i # 2 /\ i # 3
        BY <3>1, SizeIs
      <3>8. \A i \in 0 .. Size - 1 : i >= start => d[i] = 0
        BY ONLY <2>1, <3>2, <3>3, <3>4, <3>5, <3>7
      <3>9. QED
        BY ONLY <3>6, <3>8, d \in Bytes
    <2>5. CASE bits = 32
      <3>1. First = [i \in DOMAIN Zeros |->
                       CASE i = 0 -> Media [] i = 3 -> 15 [] i \in 1 .. 7 -> 255 [] OTHER -> 0] /\ start = 8
        BY <2>5, SMT DEF First
      <3>2. DOMAIN Zeros = 0 .. Size - 1
        BY DEF Zeros
      <3> HIDE DEF start
      <3>3. ASSUME NEW i \in 0 .. Size - 1
            PROVE  First[i] \in Byte /\ (i >= start => First[i] = 0)
        <4>1. First[i] = CASE i = 0 -> Media [] i = 3 -> 15 [] i \in 1 .. 7 -> 255 [] OTHER -> 0
          BY <3>1, <3>2
        <4>2. QED
          BY <2>2, <3>1, <4>1, SizeIs, SMT
      <3>4. QED
        BY <3>1, <3>2, <3>3 DEF Bytes
    <2>6. QED
      BY <2>3, <2>4, <2>5 DEF TableTypes
  <1>2. ASSUME NEW d \in Clusters
        PROVE  GetRaw(First, d) = 0 /\ (bits = 32 => Upper(First, 4 * d) = 0)
    <2>1. d \in All /\ d \in Nat /\ 2 <= d
      BY SizeIs
    <2>2. CASE bits = 12
      <3>1. PICK p \in Nat : p = Packed(d) /\ p \in 0 .. Size - 1 /\ p + 1 \in 0 .. Size - 1
        BY <2>1, <2>2, Fits12
      <3>2. p >= 3
        <4>1. PICK k \in Nat : (d = 2 * k /\ p = 3 * k) \/ (d = 2 * k + 1 /\ p = 3 * k + 1)
          BY <2>1, <3>1, PackedIs
        <4>2. QED
          BY <2>1, <4>1
      <3>3. First[p] = 0 /\ First[p + 1] = 0
        BY <1>1, <2>2, <3>1, <3>2
      <3>4. d % 2 \in {0, 1} /\ LowOf(0) = 0 /\ HighOf(0) = 0 /\ RawOf(0, 0, 0) = 0
        BY <2>1, SMT DEF LowOf, HighOf, RawOf
      <3>5. QED
        BY <1>1, <2>1, <2>2, <3>1, <3>3, <3>4, PackedGet
    <2>3. CASE bits = 16
      <3>1. 2 * d >= start /\ 2 * d + 1 >= start
        BY <2>1, <2>3
      <3>2. First[2 * d] = 0 /\ First[2 * d + 1] = 0
        BY <1>1, <2>1, <2>3, <3>1, Fits16
      <3>3. GetRaw(First, d) = First[2 * d] + 256 * First[2 * d + 1]
        BY <2>3, SMT DEF GetRaw, Word
      <3>4. QED
        BY ONLY <2>3, <3>2, <3>3, SMT
    <2>4. CASE bits = 32
      <3>1. PICK p \in Nat : p = 4 * d /\ \A i \in {p, p + 1, p + 2, p + 3} : i \in 0 .. Size - 1
        BY <2>1, <2>4, Fits32
      <3>2. \A i \in {p, p + 1, p + 2, p + 3} : i >= start
        BY <2>1, <2>4, <3>1
      <3>3. First[p] = 0 /\ First[p + 1] = 0 /\ First[p + 2] = 0 /\ First[p + 3] = 0
        BY <1>1, <3>1, <3>2
      <3>4. LowOf(0) = 0 /\ HighOf(0) = 0 /\ LongOf(0, 0, 0, 0) = 0
        BY SMT DEF LowOf, HighOf, LongOf
      <3>5. QED
        BY <1>1, <2>1, <2>4, <3>1, <3>3, <3>4, LongGet
    <2>5. QED
      BY <2>2, <2>3, <2>4 DEF TableTypes
  <1>3. QED
    BY <1>1, <1>2

-----------------------------------------------------------------------------
IsMarking(n, f) ==
  f = [c \in Total + 1 .. Total + 1 + n |->
         IF c = Total + 1 THEN First ELSE SetRaw(f[c - 1], c, Full)]

LEMMA MarkingExists ==
  ASSUME NEW n \in Nat, Total \in Nat
  PROVE  \E f : IsMarking(n, f)
  <1> DEFINE Good == {i \in Nat : \E g : IsMarking(i, g)}
  <1>1. 0 \in Good
    <2> DEFINE g == [c \in Total + 1 .. Total + 1 |-> First]
    <2>1. Total + 1 + 0 = Total + 1
      OBVIOUS
    <2>2. g = [c \in Total + 1 .. Total + 1 |-> IF c = Total + 1 THEN First ELSE SetRaw(g[c - 1], c, Full)]
      OBVIOUS
    <2> HIDE DEF g
    <2>3. IsMarking(0, g)
      BY ONLY <2>1, <2>2 DEF IsMarking
    <2>4. QED
      BY <2>3
  <1>2. ASSUME NEW i \in 1 .. n, i - 1 \in Good PROVE i \in Good
    <2> DEFINE e == Total + 1 + i
    <2>1. PICK g : IsMarking(i - 1, g)
      BY <1>2
    <2>2. Total + 1 + (i - 1) = e - 1 /\ e \in Nat /\ e > Total + 1
      OBVIOUS
    <2> HIDE DEF e
    <2> DEFINE f == [c \in Total + 1 .. e |-> IF c = e THEN SetRaw(g[e - 1], e, Full) ELSE g[c]]
    <2>3. ASSUME NEW c \in Total + 1 .. e
          PROVE  f[c] = IF c = Total + 1 THEN First ELSE SetRaw(f[c - 1], c, Full)
      <3>1. CASE c = e
        <4>1. c # Total + 1 /\ c - 1 \in Total + 1 .. e /\ c - 1 # e
          BY <2>2, <3>1
        <4>2. f[c - 1] = g[c - 1] /\ f[c] = SetRaw(g[e - 1], e, Full)
          BY <3>1, <4>1
        <4> HIDE DEF f
        <4>3. QED
          BY ONLY <3>1, <4>1, <4>2
      <3>2. CASE c # e
        <4>1. c \in Total + 1 .. e - 1 /\ (c # Total + 1 => c - 1 \in Total + 1 .. e /\ c - 1 # e)
          BY <2>2, <3>2
        <4>2. g[c] = IF c = Total + 1 THEN First ELSE SetRaw(g[c - 1], c, Full)
          BY ONLY <2>1, <2>2, <4>1 DEF IsMarking
        <4>3. f[c] = g[c] /\ (c # Total + 1 => f[c - 1] = g[c - 1])
          BY <3>2, <4>1
        <4> HIDE DEF f
        <4>4. QED
          BY ONLY <4>2, <4>3
      <3>3. QED
        BY ONLY <3>1, <3>2
    <2>4. f = [c \in Total + 1 .. e |-> f[c]]
      OBVIOUS
    <2> HIDE DEF f
    <2>5. IsMarking(i, f)
      BY ONLY <2>3, <2>4 DEF IsMarking, e
    <2>6. i \in Nat
      OBVIOUS
    <2>7. QED
      BY <2>5, <2>6
  <1> HIDE DEF Good
  <1>3. \A i \in 0 .. n : i \in Good
    BY ONLY <1>1, <1>2, n \in Nat, UpTo
  <1>4. QED
    BY <1>3 DEF Good

\* Formatting takes the entries past the last cluster, and no others.
LEMMA FormattedIs ==
  ASSUME TableTypes
  PROVE  /\ FormattedTable \in Bytes
         /\ \A d \in Clusters : /\ GetRaw(FormattedTable, d) = 0
                                /\ bits = 32 => Upper(FormattedTable, 4 * d) = 0
         /\ \A d \in All \ (0 .. Total + 1) : GetRaw(FormattedTable, d) = Full
  <1> DEFINE mark == CHOOSE f : IsMarking(Spare, f)
             Right(t, i) ==
               /\ t \in Bytes
               /\ \A d \in Clusters : GetRaw(t, d) = 0 /\ (bits = 32 => Upper(t, 4 * d) = 0)
               /\ \A d \in Total + 2 .. Total + 1 + i : GetRaw(t, d) = Full
             Good == {i \in 0 .. Spare : Right(mark[Total + 1 + i], i)}
  <1>1. Total \in Nat /\ Spare \in Nat /\ \A d \in Clusters : d \in All /\ 2 <= d /\ d <= Total + 1
    BY SizeIs
  <1>2. FormattedTable = mark[Total + 1 + Spare]
    BY DEF FormattedTable, IsMarking
  <1>3. IsMarking(Spare, mark)
    <2>1. \E f : IsMarking(Spare, f)
      BY <1>1, MarkingExists
    <2>2. QED
      BY ONLY <2>1
  <1> HIDE DEF mark
  <1>4. \A c \in Total + 1 .. Total + 1 + Spare :
          mark[c] = IF c = Total + 1 THEN First ELSE SetRaw(mark[c - 1], c, Full)
    BY ONLY <1>3 DEF IsMarking
  <1>5. 0 \in Good
    <2>1. Total + 1 \in Total + 1 .. Total + 1 + Spare /\ Total + 1 + 0 = Total + 1 /\ Total + 2 .. Total + 1 = {}
      BY ONLY <1>1
    <2>2. mark[Total + 1] = First
      BY ONLY <1>4, <2>1
    <2>3. Right(First, 0)
      BY <2>1, FirstIs
    <2>4. 0 \in 0 .. Spare
      BY <1>1
    <2> HIDE DEF Right
    <2>5. QED
      BY <2>1, <2>2, <2>3, <2>4
  <1>6. ASSUME NEW i \in 1 .. Spare, i - 1 \in Good PROVE i \in Good
    <2>1. PICK c \in All : c = Total + 1 + i /\ c # Total + 1 /\ c - 1 = Total + 1 + (i - 1)
                           /\ c \in Total + 1 .. Total + 1 + Spare /\ c \in Nat /\ c > Total + 1
      BY <1>1 DEF All
    <2>2. PICK t : t = mark[c - 1] /\ Right(t, i - 1)
      BY <1>6, <2>1
    <2>3. mark[c] = SetRaw(t, c, Full)
      BY ONLY <1>4, <2>1, <2>2
    <2>4. PICK r \in Raws : r = Full
      BY DecodeFull
    <2>5. PICK s \in Bytes : s = SetRaw(t, c, r)
      BY <2>2, EntryExact
    <2>6. \A d \in All : /\ GetRaw(s, d) = IF d = c THEN r ELSE GetRaw(t, d)
                         /\ bits = 32 => Upper(s, 4 * d) = Upper(t, 4 * d)
      BY <2>2, <2>5, EntryExact
    <2>7. \A d \in Clusters : GetRaw(s, d) = 0 /\ (bits = 32 => Upper(s, 4 * d) = 0)
      <3>1. \A d \in Clusters : d \in All /\ d # c
        BY <1>1, <2>1, SizeIs
      <3>2. QED
        BY ONLY <2>2, <2>6, <3>1
    <2>8. ASSUME NEW d \in Total + 2 .. Total + 1 + i PROVE GetRaw(s, d) = Full
      <3>1. d \in All /\ (d # c => d \in Total + 2 .. Total + 1 + (i - 1))
        BY <1>1, <2>1 DEF All
      <3>2. QED
        BY <2>2, <2>4, <2>6, <3>1
    <2>9. Right(s, i)
      BY <2>7, <2>8
    <2>10. i \in 0 .. Spare
      OBVIOUS
    <2> HIDE DEF Right
    <2>11. QED
      BY <2>1, <2>3, <2>4, <2>5, <2>9, <2>10
  <1> HIDE DEF Good
  <1>7. \A i \in 0 .. Spare : i \in Good
    BY ONLY <1>1, <1>5, <1>6, UpTo
  <1>8. Right(FormattedTable, Spare)
    <2>1. Spare \in Good
      BY <1>1, <1>7
    <2> HIDE DEF Right
    <2>2. QED
      BY <1>2, <2>1 DEF Good
  <1>9. \A d \in All \ (0 .. Total + 1) : d \in Total + 2 .. Total + 1 + Spare
    BY <1>1 DEF All
  <1>10. QED
    BY <1>8, <1>9

LEMMA LoweredIs ==
  ASSUME TableTypes, marks \in Marks
  PROVE  Full - Lowered \in Raws
  <1> DEFINE d == IF "dirty" \in marks THEN 1 ELSE 0
             e == IF "io_error" \in marks THEN 1 ELSE 0
  <1>1. /\ d \in {0, 1} /\ e \in {0, 1}
        /\ Lowered = FlagBit("dirty") * d + FlagBit("io_error") * e
    <2>1. FlagBit("dirty") \in Int /\ FlagBit("io_error") \in Int
      BY SMT DEF FlagBit
    <2>2. QED
      BY <2>1 DEF Lowered
  <1>2. bits = 12 => d = 0 /\ e = 0
    BY DEF Marks
  <1> HIDE DEF d, e
  <1>3. CASE bits = 12
    <2>1. Lowered = 0
      <3>1. FlagBit("dirty") \in Int /\ FlagBit("io_error") \in Int
        BY SMT DEF FlagBit
      <3>2. QED
        BY <1>1, <1>2, <1>3, <3>1
    <2>2. Full \in Int
      BY FullIs DEF TableTypes
    <2>3. QED
      BY <2>1, <2>2, DecodeFull
  <1>4. CASE bits = 16
    <2>1. Full = 65535 /\ FlagBit("dirty") = 32768 /\ FlagBit("io_error") = 16384 /\ Raws = Words
      BY <1>4, SMT DEF Full, FlagBit, Raws
    <2>2. Full - Lowered \in {65535, 32767, 49151, 16383}
      BY ONLY <1>1, <2>1, SMT
    <2>3. Full - Lowered \in Nat /\ Full - Lowered <= 65535
      BY ONLY <2>2, SMT
    <2>4. QED
      BY ONLY <2>1, <2>3, SMT DEF Words
  <1>5. CASE bits = 32
    <2>1. Full = 268435455 /\ FlagBit("dirty") = 134217728 /\ FlagBit("io_error") = 67108864 /\ Raws = Longs
      BY <1>5, SMT DEF Full, FlagBit, Raws
    <2>2. Full - Lowered \in {268435455, 134217727, 201326591, 67108863}
      BY ONLY <1>1, <2>1, SMT
    <2>3. Full - Lowered \in Nat /\ Full - Lowered <= 268435455
      BY ONLY <2>2, SMT
    <2>4. QED
      BY ONLY <2>1, <2>3, SMT DEF Longs
  <1>6. QED
    BY <1>3, <1>4, <1>5 DEF TableTypes

\* The bytes of a FAT32 are four of each entry.
LEMMA LastBytes ==
  ASSUME NEW d \in Nat
  PROVE  /\ (4 * d) % 4 # 3 /\ (4 * d + 1) % 4 # 3 /\ (4 * d + 2) % 4 # 3
         /\ (4 * d + 3) % 4 = 3 /\ (4 * d + 3) \div 4 = d
  OBVIOUS

LEMMA FoundIs ==
  ASSUME TableTypes, marks \in Marks, upper \in [Clusters -> IF bits = 32 THEN {0, 9} ELSE {0}]
  PROVE  /\ Found \in Bytes
         /\ \A d \in Clusters : /\ GetRaw(Found, d) = 0
                                /\ bits = 32 => Upper(Found, 4 * d) = upper[d]
         /\ \A d \in All \ (0 .. Total + 1) : GetRaw(Found, d) = Full
         /\ GetRaw(Found, 1) = Full - Lowered
  <1>1. PICK r \in Raws : r = Full - Lowered
    BY LoweredIs
  <1>2. PICK t \in Bytes : t = FormattedTable
    BY FormattedIs
  <1>3. 1 \in All /\ \A d \in Clusters : d \in All /\ d # 1 /\ d \in Nat
    BY SizeIs
  <1>4. PICK s \in Bytes : s = SetRaw(t, 1, r)
    BY <1>3, EntryExact
  <1>5. \A d \in All : /\ GetRaw(s, d) = IF d = 1 THEN r ELSE GetRaw(t, d)
                       /\ bits = 32 => Upper(s, 4 * d) = Upper(t, 4 * d)
    BY <1>3, <1>4, EntryExact
  <1>6. /\ \A d \in Clusters : GetRaw(s, d) = 0 /\ (bits = 32 => Upper(s, 4 * d) = 0)
        /\ \A d \in All \ (0 .. Total + 1) : GetRaw(s, d) = Full
        /\ GetRaw(s, 1) = Full - Lowered
    <2>1. \A d \in Clusters : GetRaw(s, d) = 0 /\ (bits = 32 => Upper(s, 4 * d) = 0)
      BY <1>2, <1>3, <1>5, FormattedIs
    <2>2. 1 \in 0 .. Total + 1
      BY SizeIs
    <2>3. \A d \in All \ (0 .. Total + 1) : GetRaw(s, d) = Full
      BY <1>2, <1>5, <2>2, FormattedIs
    <2>4. QED
      BY <1>1, <1>3, <1>5, <2>1, <2>3
  <1>7. CASE bits # 32
    <2>1. Found = s
      BY <1>1, <1>2, <1>4, <1>7 DEF Found
    <2>2. QED
      BY <1>6, <1>7, <2>1
  <1>8. CASE bits = 32
    <2>1. Found = [i \in DOMAIN s |-> IF i % 4 = 3 /\ i \div 4 \in Clusters
                                       THEN s[i] + 16 * upper[i \div 4] ELSE s[i]]
      BY <1>1, <1>2, <1>4, <1>8, SMT DEF Found
    <2>2. DOMAIN s = 0 .. Size - 1
      BY DEF Bytes
    <2>3. ASSUME NEW i \in 0 .. Size - 1
          PROVE  Found[i] = IF i % 4 = 3 /\ i \div 4 \in Clusters THEN s[i] + 16 * upper[i \div 4] ELSE s[i]
      BY ONLY <2>1, <2>2, i \in 0 .. Size - 1
    <2>4. ASSUME NEW d \in Clusters
          PROVE  LET l == s[4 * d + 3] IN
                 /\ Found[4 * d + 3] \in Byte
                 /\ LowOf(Found[4 * d + 3]) = LowOf(l) /\ HighOf(Found[4 * d + 3]) = upper[d]
      <3>1. PICK p \in Nat : p = 4 * d + 3 /\ p \in 0 .. Size - 1 /\ p % 4 = 3 /\ p \div 4 = d
        BY <1>3, <1>8, Fits32, LastBytes
      <3>2. HighOf(s[p]) = 0 /\ s[p] \in Byte
        BY <1>3, <1>6, <1>8, <3>1, LongGet DEF Bytes
      <3>3. s[p] = LowOf(s[p]) /\ LowOf(s[p]) \in Nibble
        <4>1. LowOf(s[p]) \in Nibble /\ Joined(LowOf(s[p]), 0) = s[p]
          BY <3>2, HalvesAre
        <4>2. QED
          BY <4>1 DEF Joined, Nibble
      <3>4. PICK h \in Nibble : h = upper[d]
        BY <1>8 DEF Nibble
      <3>5. Found[p] = Joined(LowOf(s[p]), h)
        BY <2>3, <3>1, <3>3, <3>4 DEF Joined
      <3>6. QED
        BY ONLY <3>1, <3>3, <3>4, <3>5, HalvesAre
    <2>5. Found \in Bytes
      <3>1. ASSUME NEW i \in 0 .. Size - 1 PROVE Found[i] \in Byte
        <4>1. CASE i % 4 = 3 /\ i \div 4 \in Clusters
          <5>1. PICK d \in Clusters : d = i \div 4
            BY <4>1
          <5>2. i = 4 * d + 3
            BY <4>1, <5>1, SizeIs
          <5>3. QED
            BY <2>4, <5>2
        <4>2. CASE ~(i % 4 = 3 /\ i \div 4 \in Clusters)
          BY <2>3, <4>2 DEF Bytes
        <4>3. QED
          BY <4>1, <4>2
      <3>2. QED
        BY <2>1, <2>2, <3>1 DEF Bytes
    <2>6. ASSUME NEW d \in All
          PROVE  /\ Found[4 * d] = s[4 * d] /\ Found[4 * d + 1] = s[4 * d + 1] /\ Found[4 * d + 2] = s[4 * d + 2]
                 /\ d \notin Clusters => Found[4 * d + 3] = s[4 * d + 3]
      <3>1. d \in Nat
        BY SizeIs
      <3>2. /\ 4 * d \in 0 .. Size - 1 /\ 4 * d + 1 \in 0 .. Size - 1
            /\ 4 * d + 2 \in 0 .. Size - 1 /\ 4 * d + 3 \in 0 .. Size - 1
        BY <1>8, Fits32
      <3>3. QED
        BY ONLY <2>3, <3>1, <3>2, LastBytes
    <2>7. ASSUME NEW d \in All PROVE GetRaw(Found, d) = GetRaw(s, d)
      <3>1. LowOf(Found[4 * d + 3]) = LowOf(s[4 * d + 3])
        BY <2>4, <2>6
      <3>2. /\ GetRaw(s, d) = LongOf(s[4 * d], s[4 * d + 1], s[4 * d + 2], LowOf(s[4 * d + 3]))
            /\ GetRaw(Found, d) = LongOf(Found[4 * d], Found[4 * d + 1], Found[4 * d + 2], LowOf(Found[4 * d + 3]))
        BY <1>8, <2>5, LongGet
      <3>3. QED
        BY ONLY <2>6, <3>1, <3>2, d \in All
    <2>8. \A d \in Clusters : Upper(Found, 4 * d) = upper[d]
      BY <1>3, <1>8, <2>4, <2>5, LongGet
    <2>9. QED
      BY <1>3, <1>6, <1>8, <2>5, <2>7, <2>8
  <1>9. QED
    BY <1>7, <1>8

LEMMA EntriesStart ==
  ASSUME EntriesAssumption, TableInit PROVE EntriesInv
  <1>1. TableTypes /\ NumbersFit /\ marks \in Marks /\ bytes = Found
    BY DEF TableInit, TableTypes, Marks
  <1>2. upper \in [Clusters -> IF bits = 32 THEN {0, 9} ELSE {0}]
    BY DEF TableInit
  <1>3. /\ bytes \in Bytes
        /\ \A d \in Clusters : /\ GetRaw(bytes, d) = 0
                               /\ bits = 32 => Upper(bytes, 4 * d) = upper[d]
        /\ \A d \in All \ (0 .. Total + 1) : GetRaw(bytes, d) = Full
        /\ GetRaw(bytes, 1) = Full - Lowered
    BY <1>1, <1>2, FoundIs
  <1>4. entries \in [Clusters -> FatValue] /\ \A c \in Clusters : Encode(entries[c]) = 0
    <2>1. entries = [c \in Clusters |-> [kind |-> "Free"]] /\ [kind |-> "Free"] \in FatValue
      BY DEF TableInit, FatValue
    <2>2. Encode([kind |-> "Free"]) = 0
      BY DEF Encode
    <2>3. QED
      BY <2>1, <2>2
  <1>5. QED
    BY <1>1, <1>3, <1>4 DEF EntriesInv

LEMMA EntriesStutter ==
  ASSUME EntriesInv, UNCHANGED tableVars PROVE EntriesInv'
  <1>1. UNCHANGED <<bits, bytes, entries, marks, upper>>
    BY DEF tableVars
  <1>2. TableTypes' /\ (marks \in Marks)'
    BY <1>1 DEF EntriesInv, TableTypes, Marks
  <1>3. Full' = Full
    BY <1>1, SMT DEF Full
  <1>4. NumbersFit'
    BY <1>1, <1>3 DEF EntriesInv, NumbersFit
  <1>5. (bytes \in Bytes)'
    BY <1>1 DEF EntriesInv, Bytes, Size
  <1>6. Lowered' = Lowered
    BY <1>1, SMT DEF Lowered, FlagBit
  <1>7. /\ \A d : GetRaw(bytes, d)' = GetRaw(bytes, d)
        /\ \A d : Upper(bytes, 4 * d)' = Upper(bytes, 4 * d)
    BY <1>1, SMT DEF GetRaw, OfPacked, Word, Long, Packed, Upper
  <1>8. \A e : Encode(e)' = Encode(e)
    BY <1>3 DEF Encode
  <1>9. QED
    BY <1>1, <1>2, <1>3, <1>4, <1>5, <1>6, <1>7, <1>8 DEF EntriesInv

\* The bytes of a FAT are a table of values, in volumes of any size and entries
\* of any width, whatever was written to the entries before.
THEOREM TableOfValues ==
  ASSUME EntriesAssumption PROVE TableSpec => []TableIsExact
  <1>1. TableInit => EntriesInv
    BY EntriesStart
  <1>2. EntriesInv /\ [TableNext]_tableVars => EntriesInv'
    BY EntriesStep, EntriesStutter
  <1>3. EntriesInv => TableIsExact
    BY InvIsExact
  <1>4. QED
    BY <1>1, <1>2, <1>3, PTL DEF TableSpec
=============================================================================

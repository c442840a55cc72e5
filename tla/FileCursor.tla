----------------------------- MODULE FileCursor -----------------------------
(***************************************************************************)
(* The position of an open file (fatrs/src/file.rs): read, write, seek and *)
(* truncate over its cluster chain, with the batched path of the feature   *)
(* multi-cluster-io (fatrs/src/multi_cluster_io.rs).  Bytes are counted    *)
(* one by one; the other users of the volume are left out, but a new       *)
(* cluster may be any free one.  The storage may read or write fewer bytes *)
(* than it is asked to, not fewer than one, and returns no error.          *)
(***************************************************************************)
EXTENDS FatTable, Sequences, FiniteSets

CONSTANTS
  ClusterSize,
  MaxSize,       \* MAX_FILE_SIZE (no multiple of the cluster size)
  MaxBuf,        \* bound: the longest buffer of a call
  Values,        \* what a byte can hold
  MultiCluster,  \* feature multi-cluster-io
  Defects        \* whether the batched path is taken where it misplaces the cursor

\* Checked where the constants get their values.
FileCursorAssumption ==
  /\ Total \in Nat \ {0} /\ ClusterSize \in Nat \ {0} /\ MaxSize \in Nat /\ MaxBuf \in Nat
  /\ MultiCluster \in BOOLEAN /\ Defects \in BOOLEAN

VARIABLES
  table,  \* the allocation table
  disk,   \* the bytes of the clusters
  first,  \* FileContext.first_cluster
  cur,    \* FileContext.current_cluster
  off,    \* FileContext.offset
  size,   \* the size in FileContext.entry
  out     \* what the last call returned

cursorVars == <<table, disk, first, cur, off, size, out>>

-----------------------------------------------------------------------------
Unwritten == 0
Least(a, b) == IF a <= b THEN a ELSE b
CeilDiv(n, d) == (n + d - 1) \div d
ClustersFromBytes(n) == CeilDiv(n, ClusterSize)
Returned(kind, bytes) == [kind |-> kind, bytes |-> bytes]

CursorInit ==
  /\ table = [c \in Clusters |-> Free]
  /\ disk = [c \in Clusters |-> [i \in 0 .. ClusterSize - 1 |-> Unwritten]]
  /\ first = None /\ cur = None /\ off = 0 /\ size = 0
  /\ out = Returned("none", <<>>)

InCluster == off % ClusterSize

\* The cluster at the offset: the next one when it is at a boundary.
Here ==
  IF InCluster # 0 THEN cur
  ELSE IF cur = None THEN first ELSE NextIn(table, cur)

\* The bytes of len positions from `at` of cluster c on, were the clusters that
\* follow c on the storage its successors.
Stored(c, at, len) ==
  [i \in 1 .. len |-> disk[c + (at + i - 1) \div ClusterSize][(at + i - 1) % ClusterSize]]
WithStored(c, at, len, v) ==
  [x \in Clusters |-> [i \in 0 .. ClusterSize - 1 |->
     LET p == (x - c) * ClusterSize + i IN IF p \in at .. at + len - 1 THEN v ELSE disk[x][i]]]

-----------------------------------------------------------------------------
(* multi-cluster-io.                                                       *)

\* Mutant: the clusters of a chain are taken to follow each other.
MutRun(c, max) == Cardinality(ChainFrom(table, c))

\* check_contiguous_run (MAX_CONTIGUOUS_BATCH is longer than any chain of a run).
Run(c, max) ==
  CHOOSE n \in 1 .. max :
    /\ \A i \in 1 .. n - 1 : NextIn(table, c + i - 1) = c + i
    /\ n < max => NextIn(table, c + n - 1) # c + n

\* The length read_contiguous and write_contiguous ask the storage for.
Batch(c, len) ==
  LET inFirst == ClusterSize - InCluster
      rest == IF len > inFirst THEN len - inFirst ELSE 0
  IN  Least(len, inFirst + (Run(c, 1 + ClustersFromBytes(rest)) - 1) * ClusterSize)

\* How many clusters the cursor is moved on from that of the old offset: the
\* index of the old offset is that of the cluster before it, unless it is in the first.
ClusterDelta(new) ==
  LET floor(n) == IF n > 0 THEN n - 1 ELSE 0
      oldIndex == floor(off \div ClusterSize)
      newIndex == IF new > 0 /\ new % ClusterSize = 0 THEN floor(new \div ClusterSize)
                  ELSE new \div ClusterSize
  IN  IF newIndex > oldIndex THEN newIndex - oldIndex ELSE 0

\* As far as the chain goes.
Reach(c, delta) ==
  CHOOSE d \in 0 .. delta : Walk(table, c, d) # None /\ (d < delta => Walk(table, c, d + 1) = None)
Forward(c, delta) == Walk(table, c, Reach(c, delta))

\* Past the first cluster the walk starts one cluster after the one oldIndex names.
OneTooFar(c, new) ==
  off >= ClusterSize /\ ClusterDelta(new) > 0 /\ Walk(table, c, ClusterDelta(new)) # None

\* The storage is filled to the end of the batch before the size is looked at.
MultiWrite(len, v) ==
  LET c == Here
      n == Least(Batch(c, len), MaxSize - off)
  IN  /\ MultiCluster /\ InCluster = 0 /\ len >= ClusterSize /\ off < MaxSize
      /\ c # None
      /\ Defects \/ ~(OneTooFar(c, off + n) \/ (off = 0 /\ ClusterDelta(n) = 0))
      /\ disk' = WithStored(c, 0, Batch(c, len), v)
      /\ off' = off + n
      /\ cur' = IF ClusterDelta(off') > 0 THEN Forward(c, ClusterDelta(off')) ELSE cur
      /\ size' = IF off' > size THEN off' ELSE size
      /\ out' = Returned("wrote", <<>>)
      /\ UNCHANGED <<table, first>>

\* The bytes after the end of the file are dropped.
MultiRead(len) ==
  LET c == Here IN
  /\ MultiCluster /\ len > ClusterSize - InCluster
  /\ c # None
  /\ \E asked \in 1 .. Batch(c, len) :
       LET n == Least(asked, size - off) IN
       /\ Defects \/ ~OneTooFar(c, off + n)
       /\ off' = off + n
       /\ cur' = IF ClusterDelta(off') > 0 THEN Forward(c, ClusterDelta(off')) ELSE c
       /\ out' = IF n = 0 THEN Returned("end", <<>>)
                 ELSE Returned("read", Stored(c, InCluster, n))
  /\ UNCHANGED <<table, disk, first, size>>

-----------------------------------------------------------------------------
(* One cluster.                                                            *)

WriteSize(len) == Least(Least(len, ClusterSize - InCluster), MaxSize - off)

Put(c, len, v) ==
  \E n \in 1 .. WriteSize(len) :
    /\ disk' = WithStored(c, InCluster, n, v)
    /\ off' = off + n
    /\ cur' = c
    /\ size' = IF off' > size THEN off' ELSE size
    /\ out' = Returned("wrote", <<>>)

\* Where the batched path does not apply, or at the end of the chain.
SingleWrite(len, v) ==
  /\ off < MaxSize
  /\ ~(MultiCluster /\ InCluster = 0 /\ len >= ClusterSize /\ Here # None)
  /\ \/ Here # None /\ Put(Here, len, v) /\ UNCHANGED <<table, first>>
     \/ Here = None /\ \E new \in FreeIn(table) :
          /\ Put(new, len, v)
          /\ table' = Extended(table, cur, new)
          /\ first' = IF first = None THEN new ELSE first

WriteNothing ==
  /\ off = MaxSize
  /\ out' = Returned("full", <<>>)
  /\ UNCHANGED <<table, disk, first, cur, off, size>>

SingleRead(len) ==
  /\ ~(MultiCluster /\ len > ClusterSize - InCluster)
  /\ Here # None
  /\ \E n \in 1 .. Least(Least(len, ClusterSize - InCluster), size - off) :
       /\ off' = off + n
       /\ cur' = Here
       /\ out' = Returned("read", Stored(Here, InCluster, n))
  /\ UNCHANGED <<table, disk, first, size>>

ReadNothing ==
  /\ Here = None \/ size = off
  /\ out' = Returned("end", <<>>)
  /\ UNCHANGED <<table, disk, first, cur, off, size>>

-----------------------------------------------------------------------------
\* Mutant: the length in clusters is rounded down.
MutSkip(n) == n \div ClusterSize

\* seek: the clusters between the first one and that of offset n.
Skip(n) == ClustersFromBytes(n) - 1

\* The target has been cut to the size.  The cursor stays in its cluster, or walks
\* from the first one; where the chain ends too early the offset is its end.
SeekTo(n) ==
  /\ n \in 0 .. size
  /\ \/ n = off /\ UNCHANGED <<off, cur>>
     \/ n # off /\ (n = 0 \/ first = None) /\ off' = 0 /\ cur' = None
     \/ /\ n \notin {0, off} /\ first # None
        /\ IF ClustersFromBytes(n) = ClustersFromBytes(off) THEN off' = n /\ cur' = cur
           ELSE LET k == Reach(first, Skip(n)) IN
                /\ off' = IF k < Skip(n) THEN (k + 1) * ClusterSize ELSE n
                /\ cur' = Walk(table, first, k)
  /\ out' = Returned("none", <<>>)
  /\ UNCHANGED <<table, disk, first, size>>

TruncateHere ==
  /\ size' = off
  /\ IF cur # None THEN table' = CutAfter(table, cur) /\ UNCHANGED first
     ELSE /\ table' = IF first = None THEN table ELSE Released(table, first)
          /\ first' = None
  /\ out' = Returned("none", <<>>)
  /\ UNCHANGED <<disk, cur, off>>

CursorNext ==
  \/ \E len \in 1 .. MaxBuf, v \in Values : MultiWrite(len, v) \/ SingleWrite(len, v)
  \/ \E len \in 1 .. MaxBuf : MultiRead(len) \/ SingleRead(len)
  \/ WriteNothing \/ ReadNothing
  \/ \E n \in 0 .. MaxSize : SeekTo(n)
  \/ TruncateHere

CursorSpec == CursorInit /\ [][CursorNext]_cursorVars

-----------------------------------------------------------------------------
CursorTypeOK ==
  /\ table \in [Clusters -> Clusters \cup {Free, EOC}]
  /\ disk \in [Clusters -> [0 .. ClusterSize - 1 -> Values \cup {Unwritten}]]
  /\ first \in Clusters \cup {None} /\ cur \in Clusters \cup {None}
  /\ off \in 0 .. MaxSize /\ size \in 0 .. MaxSize
  /\ out.bytes \in Seq(Values)

\* file.rs:39, "if offset points between clusters current_cluster is the previous
\* cluster": after any sequence of calls the cursor is the cluster of the byte
\* before the offset.
CursorMatchesOffset ==
  cur = IF off = 0 THEN None ELSE Walk(table, first, (off - 1) \div ClusterSize)

\* The chain has the clusters the size needs, and the table no others.
ChainFitsSize ==
  LET chain == IF first = None THEN {} ELSE ChainFrom(table, first) IN
  /\ Cardinality(chain) = ClustersFromBytes(size)
  /\ \A c \in Clusters : table[c] # Free <=> c \in chain

\* The bytes along the chain.
Content ==
  [i \in 1 .. size |->
     LET c == IF first = None THEN None ELSE Walk(table, first, (i - 1) \div ClusterSize)
     IN  IF c = None THEN Unwritten ELSE disk[c][(i - 1) % ClusterSize]]

\* The file is a sequence of bytes with a position: what was written is read back,
\* short reads and writes, seeks and truncations at any offset included.
Store == INSTANCE FileStore WITH content <- Content, pos <- off
ImplementsFileStore == Store!Spec
=============================================================================

------------------------- MODULE ClusterAllocProofs -------------------------
(***************************************************************************)
(* Theorems about ClusterAlloc, for any number of files, clusters,         *)
(* operations and failures.                                                *)
(***************************************************************************)
EXTENDS ClusterAlloc, FiniteSetTheorems, SequenceTheorems, TLAPS

-----------------------------------------------------------------------------
(* Lemmas about numbers and sets.                                          *)

\* A set of natural numbers has a lowest member: of the sets of members up to
\* one of them, take one that includes no other.
LEMMA LowestExists ==
  ASSUME NEW S \in SUBSET Nat, S # {}
  PROVE  Lowest(S) \in S /\ \A y \in S : Lowest(S) <= y
  <1> DEFINE UpTo(i) == {j \in S : j <= i}
             All == {UpTo(i) : i \in S}
  <1>1. \A i \in S : IsFiniteSet(UpTo(i))
    BY FS_BoundedSetOfNaturals
  <1>2. All \subseteq FiniteSubsetsOf(S) /\ All # {}
    BY <1>1 DEF FiniteSubsetsOf
  <1>3. PICK W \in All : \A X \in All : <<X, W>> \notin StrictSubsetOrdering(S)
    BY <1>2, FS_StrictSubsetOrderingWellFounded, WFMin
  <1>4. PICK i \in S : W = UpTo(i)
    BY <1>3
  <1>5. ASSUME NEW y \in S PROVE i <= y
    <2>1. i \in Nat /\ y \in Nat
      OBVIOUS
    <2>2. CASE y < i
      <3>1. ASSUME NEW j \in UpTo(y) PROVE j \in UpTo(i)
        <4>1. j \in Nat /\ j <= y /\ j \in S
          OBVIOUS
        <4>2. QED
          BY <4>1, <2>1, <2>2
      <3>2. ~(i <= y) /\ i <= i
        BY <2>1, <2>2
      <3>3. UpTo(y) \subseteq UpTo(i) /\ i \notin UpTo(y) /\ i \in UpTo(i)
        BY <3>1, <3>2
      <3>4. <<UpTo(y), W>> \in StrictSubsetOrdering(S)
        BY <3>3, <1>4 DEF StrictSubsetOrdering
      <3>5. QED
        BY <3>4, <1>3
    <2>3. QED
      BY <2>1, <2>2
  <1>6. QED
    BY <1>5 DEF Lowest

LEMMA ClustersFinite ==
  ASSUME NEW S \in SUBSET Clusters
  PROVE  IsFiniteSet(S) /\ Cardinality(S) \in 0 .. Total
  <1>1. IsFiniteSet(Clusters) /\ Cardinality(Clusters) = Total
    BY ClusterAllocAssumption, FS_Interval DEF Clusters, Reserved
  <1>2. IsFiniteSet(S) /\ Cardinality(S) <= Total
    BY <1>1, FS_Subset
  <1>3. QED
    BY <1>2, FS_CardinalityType, ClusterAllocAssumption

LEMMA FilesFinite ==
  ASSUME NEW S \in SUBSET Files
  PROVE  IsFiniteSet(S) /\ Cardinality(S) \in Nat
  BY ClusterAllocAssumption, FS_Subset, FS_CardinalityType

-----------------------------------------------------------------------------
(***************************************************************************)
(* Type correctness.  What an operation will write is known from where it  *)
(* is, and each release that has moved the generation was an operation.    *)
(* StateOK is TypeOK without the words read and the histories, which       *)
(* nothing but TypeOK needs.                                               *)
(***************************************************************************)
StateOK ==
  /\ fat \in [Clusters -> Clusters \cup {Free, EOC}]
  /\ marked \subseteq 0 .. Total - 1
  /\ count \in -1 .. CountMod - 1
  /\ next \in Reserved .. Total + Reserved
  /\ gen \in 0 .. MaxOps
  /\ chain \in [Files -> Seq(Clusters)]
  /\ op \in [Files -> Locals]
  /\ recount \in -1 .. Total
  /\ ops \in 0 .. MaxOps
  /\ readFaults \in 0 .. MaxReadFaults /\ writeFaults \in 0 .. MaxWriteFaults

InOperation(f) ==
  /\ op[f].pc = "idle" => op[f] = Idle
  /\ op[f].pc \in {"scan", "rescan"} => op[f].keep \in 0 .. Total + Reserved - 1
  /\ op[f].pc \in {"mark", "link", "bit", "count", "ffree", "collect"} => op[f].target \in Clusters
  /\ op[f].pc \in {"tnext", "collect"} => op[f].at \in Clusters
  /\ op[f].pc \in {"fnext", "ffree", "teoc"} => op[f].at \in Clusters \cup {None}
  /\ op[f].pc = "link" => chain[f] # <<>>
  /\ op[f].pc \in {"tnext", "teoc"} => op[f].keep \in 1 .. Len(chain[f])

GenerationCounts == gen + Cardinality(Busy) <= ops

TypeInv == StateOK /\ (\A f \in Files : InOperation(f)) /\ GenerationCounts

LEMMA Numbers ==
  /\ Clusters \subseteq Nat /\ None \notin Clusters /\ Free \notin Clusters /\ EOC \notin Clusters
  /\ Clusters \subseteq 0 .. Total + Reserved /\ None \in 0 .. Total + Reserved
  /\ Free # EOC /\ Total \in Nat
  BY ClusterAllocAssumption DEF Clusters, Reserved, Free, EOC, None

LEMMA IdleType == Idle \in Locals /\ Idle.pc = "idle" /\ Idle.at = None /\ Idle.err = FALSE
                  /\ Idle.target = None /\ Idle.keep = 0 /\ Idle.freed = 0 /\ Idle.batch = {}
  BY Numbers DEF Idle, Locals

LEMMA NextOfType ==
  ASSUME NEW c PROVE NextOf(c) \in Clusters \cup {None}
  BY DEF NextOf, NextIn

LEMMA InitTypeInv == Init => TypeInv
  <1> SUFFICES ASSUME Init PROVE TypeInv
    OBVIOUS
  <1> USE DEF Init
  <1>1. \A f \in Files : op[f] = Idle
    OBVIOUS
  <1>2. Busy = {} /\ Cardinality(Busy) = 0
    BY <1>1, IdleType, FS_EmptySet DEF Busy
  <1>3. StateOK
    <2>1. fat \in [Clusters -> Clusters \cup {Free, EOC}]
      OBVIOUS
    <2>2. chain \in [Files -> Seq(Clusters)]
      BY EmptySeq
    <2>3. op \in [Files -> Locals]
      BY IdleType
    <2>4. /\ marked \subseteq 0 .. Total - 1
          /\ count \in -1 .. CountMod - 1 /\ next \in Reserved .. Total + Reserved
          /\ gen \in 0 .. MaxOps /\ recount \in -1 .. Total /\ ops \in 0 .. MaxOps
          /\ readFaults \in 0 .. MaxReadFaults /\ writeFaults \in 0 .. MaxWriteFaults
      BY ClusterAllocAssumption DEF Reserved
    <2>5. QED
      BY <2>1, <2>2, <2>3, <2>4 DEF StateOK
  <1>4. ASSUME NEW f \in Files PROVE InOperation(f)
    BY <1>1, IdleType DEF InOperation
  <1>5. QED
    BY <1>2, <1>3, <1>4, ClusterAllocAssumption DEF TypeInv, GenerationCounts

\* The files at work after a step of the operation on f.
LEMMA BusyAfter ==
  ASSUME NEW f \in Files, \A g \in Files \ {f} : op'[g] = op[g]
  PROVE  /\ Busy' = IF op'[f].pc = "idle" THEN Busy \ {f} ELSE Busy \cup {f}
         /\ Cardinality(Busy)' = Cardinality(Busy) + (IF op'[f].pc = "idle" THEN 0 ELSE 1)
                                   - (IF op[f].pc = "idle" THEN 0 ELSE 1)
  <1>1. Busy' = IF op'[f].pc = "idle" THEN Busy \ {f} ELSE Busy \cup {f}
    BY DEF Busy
  <1>2. Cardinality(Busy)' = Cardinality(Busy')
    OBVIOUS
  <1>3. IsFiniteSet(Busy) /\ Cardinality(Busy) \in Nat /\ (f \in Busy <=> op[f].pc # "idle")
    BY FilesFinite DEF Busy
  <1>4. /\ Cardinality(Busy \ {f}) = IF f \in Busy THEN Cardinality(Busy) - 1 ELSE Cardinality(Busy)
        /\ Cardinality(Busy \cup {f}) = IF f \in Busy THEN Cardinality(Busy) ELSE Cardinality(Busy) + 1
    BY <1>3, FS_AddElement, FS_RemoveElement
  <1>5. CASE op'[f].pc = "idle"
    BY <1>1, <1>2, <1>3, <1>4, <1>5
  <1>6. CASE op'[f].pc # "idle"
    BY <1>1, <1>2, <1>3, <1>4, <1>6
  <1>7. QED
    BY <1>5, <1>6

\* A step of one operation leaves what is known of the others.
LEMMA OthersKeep ==
  ASSUME TypeInv, NEW f \in Files,
         \A g \in Files \ {f} : op'[g] = op[g] /\ chain'[g] = chain[g],
         InOperation(f)',
         \/ ops' = ops /\ gen' = gen /\ op[f].pc # "idle"
         \/ ops' = ops /\ gen' = gen + 1 /\ op[f].pc # "idle" /\ op'[f].pc = "idle"
         \/ ops' = ops + 1 /\ gen' = gen
  PROVE  (\A g \in Files : InOperation(g)') /\ GenerationCounts'
  <1>1. ASSUME NEW g \in Files PROVE InOperation(g)'
    BY DEF InOperation, TypeInv
  <1>2. /\ Cardinality(Busy)' \in Nat /\ Cardinality(Busy) \in Nat
        /\ gen \in Nat /\ ops \in Nat
    BY FilesFinite, ClusterAllocAssumption DEF Busy, TypeInv, StateOK
  <1>3. GenerationCounts'
    BY <1>2, BusyAfter DEF TypeInv, GenerationCounts
  <1>4. QED
    BY <1>1, <1>3

LEMMA FreeClustersType == FreeClusters \subseteq Clusters
  BY DEF FreeClusters, FreeIn

LEMMA BitmapHintType ==
  ASSUME StateOK, UseBitmap PROVE BitmapHint \in 0 .. Total + Reserved
  <1> DEFINE up == {c \in marked : c >= next}
             S == IF up # {} THEN up ELSE marked
  <1>1. S \subseteq marked /\ S # {} /\ marked \subseteq 0 .. Total - 1
    BY DEF UseBitmap, StateOK
  <1>2. \A x \in 0 .. Total - 1 : x \in Nat /\ x \in 0 .. Total + Reserved
    BY Numbers DEF Reserved
  <1>3. S \subseteq Nat
    BY <1>1, <1>2
  <1>4. Lowest(S) \in S
    BY <1>1, <1>3, LowestExists
  <1>5. Lowest(S) \in 0 .. Total + Reserved
    BY <1>1, <1>2, <1>4
  <1>6. QED
    BY <1>5 DEF BitmapHint

\* The state of an operation after a step that replaces it, or moves it.
LEMMA Replaced ==
  ASSUME StateOK, NEW f \in Files, NEW r \in Locals, op' = [op EXCEPT ![f] = r]
  PROVE  op' \in [Files -> Locals] /\ op'[f] = r /\ (\A g \in Files \ {f} : op'[g] = op[g])
  BY DEF StateOK

Places == {"idle", "scan", "rescan", "mark", "link", "bit", "count", "tnext", "teoc", "tcount",
           "collect", "fnext", "ffree", "fbits", "fcount"}

LEMMA Moved ==
  ASSUME StateOK, NEW f \in Files, NEW p \in Places, op' = [op EXCEPT ![f].pc = p]
  PROVE  /\ op' \in [Files -> Locals] /\ (\A g \in Files \ {f} : op'[g] = op[g])
         /\ op'[f].pc = p /\ op'[f].at = op[f].at /\ op'[f].err = op[f].err
         /\ op'[f].target = op[f].target /\ op'[f].freed = op[f].freed
         /\ op'[f].batch = op[f].batch /\ op'[f].keep = op[f].keep
  <1> DEFINE r == [op[f] EXCEPT !.pc = p]
  <1>1. /\ r \in Locals /\ r.pc = p /\ r.at = op[f].at /\ r.err = op[f].err
        /\ r.target = op[f].target /\ r.freed = op[f].freed /\ r.batch = op[f].batch
        /\ r.keep = op[f].keep
    BY DEF Locals, StateOK, Places
  <1>2. op' = [op EXCEPT ![f] = r]
    OBVIOUS
  <1> HIDE DEF r
  <1>3. QED
    BY <1>1, <1>2, Replaced

-----------------------------------------------------------------------------
(* What each kind of step makes of the locals of its operation.            *)

LEMMA AppendStarts ==
  ASSUME StateOK, NEW f \in Files, StartAppend(f)
  PROVE  /\ op' \in [Files -> Locals] /\ (\A g \in Files \ {f} : op'[g] = op[g])
         /\ op'[f].pc = "scan" /\ ~op'[f].err /\ op'[f].target = None
         /\ op'[f].freed = 0 /\ op'[f].batch = {}
         /\ op'[f].keep \in 0 .. Total + Reserved - 1 /\ op'[f].at = op'[f].keep
  <1> DEFINE at == SearchStart
             r == [Idle EXCEPT !.pc = "scan", !.at = at, !.keep = at]
  <1>1. at \in 0 .. Total + Reserved - 1
    <2>1. next \in 0 .. Total + Reserved
      BY Numbers DEF StateOK, Reserved
    <2> DEFINE hint == IF UseBitmap THEN BitmapHint ELSE next
    <2>2. hint \in 0 .. Total + Reserved
      BY <2>1, BitmapHintType
    <2>3. at = IF hint < Total + Reserved THEN hint ELSE Reserved
      BY DEF SearchStart
    <2> HIDE DEF hint, at
    <2>4. QED
      BY <2>2, <2>3, ClusterAllocAssumption DEF Reserved
  <1> HIDE DEF at
  <1>2. /\ r \in Locals /\ r.pc = "scan" /\ ~r.err /\ r.target = None
        /\ r.freed = 0 /\ r.batch = {} /\ r.keep = at /\ r.at = at
    <2>1. at \in 0 .. Total + Reserved /\ at \in Nat
      BY <1>1, ClusterAllocAssumption DEF Reserved
    <2>2. QED
      BY <2>1, IdleType DEF Locals
  <1>3. op' = [op EXCEPT ![f] = r]
    BY DEF StartAppend, at
  <1> HIDE DEF r
  <1>4. QED
    BY <1>1, <1>2, <1>3, Replaced

\* An operation that goes on searching keeps all but its position.
GoesOn(f) ==
  /\ op'[f].pc \in Searching /\ op'[f].err = op[f].err /\ op'[f].target = op[f].target
  /\ op'[f].freed = op[f].freed /\ op'[f].batch = op[f].batch /\ op'[f].keep = op[f].keep

LEMMA SearchesBelow ==
  ASSUME StateOK, NEW f \in Files, op[f].pc \in Searching, op' = [op EXCEPT ![f] = NextSearch(f)]
  PROVE  /\ op' \in [Files -> Locals] /\ (\A g \in Files \ {f} : op'[g] = op[g])
         /\ \/ op'[f] = Idle /\ ~(op[f].pc = "scan" /\ op[f].keep > Reserved)
            \/ /\ GoesOn(f) /\ op[f].pc = "scan" /\ op[f].keep > Reserved
               /\ op'[f].pc = "rescan" /\ op'[f].at = Reserved
  <1>1. CASE op[f].pc = "scan" /\ op[f].keep > Reserved
    <2> DEFINE r == [op[f] EXCEPT !.pc = "rescan", !.at = Reserved]
    <2>1. op[f] \in Locals /\ Reserved \in 0 .. Total + Reserved
      BY ClusterAllocAssumption DEF StateOK, Reserved
    <2>2. /\ r \in Locals /\ r.pc = "rescan" /\ r.at = Reserved /\ r.err = op[f].err
          /\ r.target = op[f].target /\ r.freed = op[f].freed /\ r.batch = op[f].batch
          /\ r.keep = op[f].keep
      BY <2>1 DEF Locals
    <2>3. op' = [op EXCEPT ![f] = r]
      BY <1>1 DEF NextSearch
    <2> HIDE DEF r
    <2>4. QED
      BY <1>1, <2>2, <2>3, Replaced DEF GoesOn, Searching
  <1>2. CASE ~(op[f].pc = "scan" /\ op[f].keep > Reserved)
    BY <1>2, IdleType, Replaced DEF NextSearch
  <1>3. QED
    BY <1>1, <1>2

\* A step of a search goes on, ends the operation or settles on a free cluster.
LEMMA SearchEnds ==
  ASSUME StateOK, NEW f \in Files, InOperation(f), Scan(f) \/ ScanFails(f)
  PROVE  /\ op' \in [Files -> Locals] /\ (\A g \in Files \ {f} : op'[g] = op[g])
         /\ \/ op'[f] = Idle
            \/ GoesOn(f)
            \/ /\ op'[f].pc = "mark" /\ ~op'[f].err /\ op'[f].target \in FreeClusters
               /\ op'[f].freed = 0 /\ op'[f].batch = {} /\ op'[f].keep = 0
  <1>0. op[f].pc \in Searching
    BY DEF Scan, ScanFails
  <1>1. CASE op' = [op EXCEPT ![f] = NextSearch(f)]
    BY <1>0, <1>1, SearchesBelow
  <1>2. CASE /\ op[f].at \in FreeClusters
             /\ op' = [op EXCEPT ![f] = [Idle EXCEPT !.pc = "mark", !.target = op[f].at]]
    <2> DEFINE r == [Idle EXCEPT !.pc = "mark", !.target = op[f].at]
    <2>1. /\ r \in Locals /\ r.pc = "mark" /\ ~r.err /\ r.target = op[f].at
          /\ r.freed = 0 /\ r.batch = {} /\ r.keep = 0
      BY <1>2, IdleType, FreeClustersType DEF Locals
    <2>2. op' = [op EXCEPT ![f] = r]
      BY <1>2
    <2> HIDE DEF r
    <2>3. QED
      BY <1>2, <2>1, <2>2, Replaced
  <1>3. CASE /\ op[f].at + 1 < SearchEnd(f)
             /\ op' = [op EXCEPT ![f] = [op[f] EXCEPT !.at = @ + 1]]
    <2> DEFINE r == [op[f] EXCEPT !.at = @ + 1]
    <2>1. op[f] \in Locals
      BY DEF StateOK
    <2>2. op[f].at + 1 \in 0 .. Total + Reserved
      <3>1. op[f].at \in Nat /\ op[f].keep \in 0 .. Total + Reserved - 1
        BY <1>0, <2>1 DEF Locals, InOperation, Searching
      <3>2. QED
        BY <3>1, <1>3, ClusterAllocAssumption DEF SearchEnd, Reserved
    <2>3. /\ r \in Locals /\ r.pc = op[f].pc /\ r.err = op[f].err
          /\ r.target = op[f].target /\ r.freed = op[f].freed /\ r.batch = op[f].batch
          /\ r.keep = op[f].keep
      BY <2>1, <2>2 DEF Locals
    <2>4. op' = [op EXCEPT ![f] = r]
      BY <1>3
    <2> HIDE DEF r
    <2>5. QED
      BY <1>0, <2>3, <2>4, Replaced DEF GoesOn
  <1>4. QED
    BY <1>1, <1>2, <1>3 DEF Scan, ScanFails

-----------------------------------------------------------------------------
(* Writes.                                                                 *)

LEMMA PutType ==
  ASSUME StateOK, NEW f \in Files, NEW c \in Clusters, NEW v \in Entries, Put(f, c, v)
  PROVE  fat' \in [Clusters -> Clusters \cup {Free, EOC}]
  BY DEF Put, Written, StateOK, Entries

\* The entry an operation writes, and nothing else.
Whole ==
  \A f \in Files : \A v : Put(f, EntryOf(f), v) => fat' = [fat EXCEPT ![EntryOf(f)] = v]

LEMMA WholeWrites ==
  ASSUME Whole, NEW f \in Files
  PROVE  /\ MarkNew(f) => fat' = [fat EXCEPT ![op[f].target] = EOC]
         /\ LinkPrevious(f) => fat' = [fat EXCEPT ![Last(chain[f])] = op[f].target]
         /\ TruncateEnd(f) => fat' = [fat EXCEPT ![chain[f][op[f].keep]] = EOC]
         /\ FreeWrite(f) => fat' = [fat EXCEPT ![op[f].target] = Free]
  <1>1. ASSUME MarkNew(f) PROVE fat' = [fat EXCEPT ![op[f].target] = EOC]
    <2>1. EntryOf(f) = op[f].target /\ Put(f, op[f].target, EOC)
      BY <1>1 DEF MarkNew, EntryOf
    <2>2. QED
      BY <2>1 DEF Whole
  <1>2. ASSUME LinkPrevious(f) PROVE fat' = [fat EXCEPT ![Last(chain[f])] = op[f].target]
    <2>1. EntryOf(f) = Last(chain[f]) /\ Put(f, Last(chain[f]), op[f].target)
      BY <1>2 DEF LinkPrevious, EntryOf
    <2>2. QED
      BY <2>1 DEF Whole
  <1>3. ASSUME TruncateEnd(f) PROVE fat' = [fat EXCEPT ![chain[f][op[f].keep]] = EOC]
    <2>1. EntryOf(f) = chain[f][op[f].keep] /\ Put(f, chain[f][op[f].keep], EOC)
      BY <1>3 DEF TruncateEnd, EntryOf
    <2>2. QED
      BY <2>1 DEF Whole
  <1>4. ASSUME FreeWrite(f) PROVE fat' = [fat EXCEPT ![op[f].target] = Free]
    <2>1. EntryOf(f) = op[f].target /\ Put(f, op[f].target, Free)
      BY <1>4 DEF FreeWrite, EntryOf
    <2>2. QED
      BY <2>1 DEF Whole
  <1>5. QED
    BY <1>1, <1>2, <1>3, <1>4

LEMMA MarkMoves ==
  ASSUME StateOK, NEW f \in Files, MarkNew(f)
  PROVE  \E p \in {"link", "bit", "count"} :
           op' = [op EXCEPT ![f].pc = p] /\ (p = "link" <=> chain[f] # <<>>)
  BY DEF MarkNew, AfterLink

LEMMA LinkMoves ==
  ASSUME StateOK, NEW f \in Files, LinkPrevious(f)
  PROVE  \E p \in {"bit", "count"} : op' = [op EXCEPT ![f].pc = p]
  BY DEF LinkPrevious, AfterLink

LEMMA TruncateStarts ==
  ASSUME StateOK, NEW f \in Files, NEW k \in 1 .. Len(chain[f]), StartTruncate(f, k)
  PROVE  /\ op' \in [Files -> Locals] /\ (\A g \in Files \ {f} : op'[g] = op[g])
         /\ op'[f].pc = "tnext" /\ op'[f].at = chain[f][k] /\ chain[f][k] \in Clusters
         /\ ~op'[f].err /\ op'[f].freed = 0 /\ op'[f].batch = {} /\ op'[f].keep = k
  <1> DEFINE r == [Idle EXCEPT !.pc = "tnext", !.at = chain[f][k], !.keep = k]
  <1>1. chain[f][k] \in Clusters /\ k \in Nat
    <2>1. chain[f] \in Seq(Clusters)
      BY DEF StateOK
    <2>2. QED
      BY <2>1, ElementOfSeq, LenProperties
  <1>2. /\ r \in Locals /\ r.pc = "tnext" /\ r.at = chain[f][k] /\ ~r.err
        /\ r.freed = 0 /\ r.batch = {} /\ r.keep = k
    BY <1>1, IdleType, Numbers DEF Locals
  <1>3. op' = [op EXCEPT ![f] = r]
    BY DEF StartTruncate
  <1> HIDE DEF r
  <1>4. QED
    BY <1>1, <1>2, <1>3, Replaced

\* The first read of a truncation, and those of a release.
LEMMA TruncateMoves ==
  ASSUME StateOK, NEW f \in Files, TruncateNext(f)
  PROVE  /\ op' \in [Files -> Locals] /\ (\A g \in Files \ {f} : op'[g] = op[g])
         /\ op'[f].pc = "teoc" /\ op'[f].at = NextOf(op[f].at) /\ op'[f].err = op[f].err
         /\ op'[f].target = op[f].target /\ op'[f].freed = op[f].freed
         /\ op'[f].batch = op[f].batch /\ op'[f].keep = op[f].keep
  <1> DEFINE n == NextOf(op[f].at)
             r == [op[f] EXCEPT !.pc = "teoc", !.at = n]
  <1>1. n \in 0 .. Total + Reserved /\ op[f] \in Locals
    BY NextOfType, Numbers DEF StateOK
  <1>2. op' = [op EXCEPT ![f] = r]
    BY DEF TruncateNext
  <1> HIDE DEF n
  <1>3. /\ r \in Locals /\ r.pc = "teoc" /\ r.at = n /\ r.err = op[f].err
        /\ r.target = op[f].target /\ r.freed = op[f].freed
        /\ r.batch = op[f].batch /\ r.keep = op[f].keep
    BY <1>1 DEF Locals
  <1> HIDE DEF r
  <1>4. QED
    BY <1>2, <1>3, Replaced DEF n

LEMMA ReleaseStarts ==
  ASSUME StateOK, NEW f \in Files, StartRelease(f)
  PROVE  /\ op' \in [Files -> Locals] /\ (\A g \in Files \ {f} : op'[g] = op[g])
         /\ op'[f].pc = (IF UseBitmap THEN "collect" ELSE "fnext") /\ op'[f].at = chain[f][1]
         /\ op'[f].target = chain[f][1] /\ chain[f][1] \in Clusters /\ Len(chain[f]) > 0
         /\ ~op'[f].err /\ op'[f].freed = 0 /\ op'[f].batch = {} /\ op'[f].keep = 0
  <1> DEFINE r == [Idle EXCEPT !.pc = IF UseBitmap THEN "collect" ELSE "fnext",
                               !.at = chain[f][1], !.target = chain[f][1]]
  <1>1. chain[f][1] \in Clusters /\ Len(chain[f]) > 0
    <2>1. chain[f] \in Seq(Clusters) /\ chain[f] # <<>>
      BY DEF StateOK, StartRelease
    <2>2. Len(chain[f]) \in Nat /\ Len(chain[f]) # 0
      BY <2>1, LenProperties, EmptySeq
    <2>3. QED
      BY <2>1, <2>2, ElementOfSeq
  <1>2. /\ r \in Locals /\ r.pc = (IF UseBitmap THEN "collect" ELSE "fnext")
        /\ r.at = chain[f][1] /\ r.target = chain[f][1] /\ ~r.err
        /\ r.freed = 0 /\ r.batch = {} /\ r.keep = 0
    BY <1>1, IdleType, Numbers DEF Locals
  <1>3. op' = [op EXCEPT ![f] = r]
    BY DEF StartRelease
  <1> HIDE DEF r
  <1>4. QED
    BY <1>1, <1>2, <1>3, Replaced

LEMMA CollectMoves ==
  ASSUME StateOK, NEW f \in Files, Collect(f)
  PROVE  /\ op' \in [Files -> Locals] /\ (\A g \in Files \ {f} : op'[g] = op[g])
         /\ op'[f].err = op[f].err /\ op'[f].target = op[f].target
         /\ op'[f].freed = op[f].freed /\ op'[f].keep = op[f].keep
         /\ \/ /\ NextOf(op[f].at) = None /\ op'[f].pc = "fnext"
               /\ op'[f].at = op[f].target /\ op'[f].batch = op[f].batch
            \/ /\ NextOf(op[f].at) \in Clusters /\ op'[f].pc = op[f].pc
               /\ op'[f].at = NextOf(op[f].at)
               /\ op'[f].batch = op[f].batch \cup {NextOf(op[f].at)}
  <1> DEFINE n == NextOf(op[f].at)
  <1>1. n \in Clusters \cup {None} /\ op[f] \in Locals
    BY NextOfType DEF StateOK
  <1>2. \/ n = None /\ op' = [op EXCEPT ![f].pc = "fnext", ![f].at = op[f].target]
        \/ n # None /\ op' = [op EXCEPT ![f].at = n, ![f].batch = @ \cup {n}]
    BY DEF Collect
  <1> HIDE DEF n
  <1>3. CASE n = None
    <2> DEFINE r == [op[f] EXCEPT !.pc = "fnext", !.at = op[f].target]
    <2>1. /\ r \in Locals /\ r.err = op[f].err /\ r.target = op[f].target
          /\ r.freed = op[f].freed /\ r.keep = op[f].keep
          /\ r.pc = "fnext" /\ r.at = op[f].target /\ r.batch = op[f].batch
      BY <1>1, Numbers DEF Locals
    <2>2. op' = [op EXCEPT ![f] = r]
      BY <1>2, <1>3
    <2> HIDE DEF r
    <2>3. QED
      BY <1>3, <2>1, <2>2, Replaced DEF n
  <1>4. CASE n # None
    <2> DEFINE r == [op[f] EXCEPT !.at = n, !.batch = @ \cup {n}]
    <2>0. n \in 0 .. Total + Reserved /\ n \in Clusters
      BY <1>1, <1>4, Numbers
    <2>1. /\ r \in Locals /\ r.err = op[f].err /\ r.target = op[f].target
          /\ r.freed = op[f].freed /\ r.keep = op[f].keep /\ r.pc = op[f].pc
          /\ r.at = n /\ r.batch = op[f].batch \cup {n}
      BY <1>1, <2>0 DEF Locals
    <2>2. op' = [op EXCEPT ![f] = r]
      BY <1>2, <1>4
    <2> HIDE DEF r
    <2>3. QED
      BY <2>0, <2>1, <2>2, Replaced DEF n
  <1>5. QED
    BY <1>3, <1>4

LEMMA FreeMoves ==
  ASSUME StateOK, NEW f \in Files, FreeNext(f), op[f].at \in Clusters \cup {None}
  PROVE  /\ op' \in [Files -> Locals] /\ (\A g \in Files \ {f} : op'[g] = op[g])
         /\ op'[f].pc = "ffree" /\ op'[f].target = op[f].at /\ op[f].at \in Clusters
         /\ op'[f].at = (IF op[f].err THEN op[f].at ELSE NextOf(op[f].at))
         /\ op'[f].err = op[f].err /\ op'[f].freed = op[f].freed
         /\ op'[f].batch = op[f].batch /\ op'[f].keep = op[f].keep
  <1> DEFINE n == IF op[f].err THEN op[f].at ELSE NextOf(op[f].at)
             r == [op[f] EXCEPT !.pc = "ffree", !.target = op[f].at, !.at = n]
  <1>1. n \in 0 .. Total + Reserved /\ op[f] \in Locals /\ op[f].at \in Clusters
    BY NextOfType, Numbers DEF StateOK, FreeNext
  <1>2. op' = [op EXCEPT ![f] = r]
    BY DEF FreeNext
  <1> HIDE DEF n
  <1>3. /\ r \in Locals /\ r.pc = "ffree" /\ r.target = op[f].at /\ r.at = n
        /\ r.err = op[f].err /\ r.freed = op[f].freed
        /\ r.batch = op[f].batch /\ r.keep = op[f].keep
    BY <1>1 DEF Locals
  <1> HIDE DEF r
  <1>4. QED
    BY <1>1, <1>2, <1>3, Replaced DEF n

LEMMA FreeWrites ==
  ASSUME StateOK, NEW f \in Files, FreeWrite(f)
  PROVE  /\ op' \in [Files -> Locals] /\ (\A g \in Files \ {f} : op'[g] = op[g])
         /\ op'[f].pc = "fnext" /\ op'[f].at = op[f].at /\ op'[f].err = op[f].err
         /\ op'[f].target = op[f].target /\ op'[f].batch = op[f].batch
         /\ op'[f].freed = (IF op[f].err THEN op[f].freed ELSE op[f].freed + 1)
         /\ op'[f].keep = op[f].keep
  <1> DEFINE n == IF op[f].err THEN op[f].freed ELSE op[f].freed + 1
             r == [op[f] EXCEPT !.pc = "fnext", !.freed = n]
  <1>1. n \in Nat /\ op[f] \in Locals
    BY DEF StateOK, Locals
  <1>2. op' = [op EXCEPT ![f] = r]
    BY DEF FreeWrite
  <1> HIDE DEF n
  <1>3. /\ r \in Locals /\ r.pc = "fnext" /\ r.at = op[f].at /\ r.err = op[f].err
        /\ r.target = op[f].target /\ r.batch = op[f].batch /\ r.freed = n /\ r.keep = op[f].keep
    BY <1>1 DEF Locals
  <1> HIDE DEF r
  <1>4. QED
    BY <1>2, <1>3, Replaced DEF n

LEMMA FreeEnds ==
  ASSUME StateOK, NEW f \in Files, FreeEnd(f)
  PROVE  \E p \in {"tcount", "fbits", "fcount"} :
           op' = [op EXCEPT ![f].pc = p] /\ (p = "tcount" => op[f].keep > 0)
  BY DEF FreeEnd

LEMMA NextFailsMoves ==
  ASSUME StateOK, NEW f \in Files, NextFails(f), op[f].at \in Clusters \cup {None}
  PROVE  /\ op' \in [Files -> Locals] /\ (\A g \in Files \ {f} : op'[g] = op[g])
         /\ op'[f].pc = (IF op[f].pc = "tnext" THEN "teoc" ELSE "ffree")
         /\ op'[f].at = op[f].at /\ op'[f].err
         /\ op'[f].target = op[f].at /\ op[f].at \in Clusters
         /\ op'[f].freed = op[f].freed /\ op'[f].batch = op[f].batch /\ op'[f].keep = op[f].keep
  <1> DEFINE p == IF op[f].pc = "tnext" THEN "teoc" ELSE "ffree"
             r == [op[f] EXCEPT !.err = TRUE, !.pc = p, !.target = op[f].at]
  <1>1. op[f] \in Locals /\ op[f].at \in Clusters /\ p \in Places
    BY DEF StateOK, NextFails, Places
  <1>2. op' = [op EXCEPT ![f] = r]
    BY DEF NextFails
  <1> HIDE DEF p
  <1>3. /\ r \in Locals /\ r.pc = p /\ r.at = op[f].at /\ r.err
        /\ r.target = op[f].at /\ r.freed = op[f].freed
        /\ r.batch = op[f].batch /\ r.keep = op[f].keep
    BY <1>1 DEF Locals, Places
  <1> HIDE DEF r
  <1>4. QED
    BY <1>1, <1>2, <1>3, Replaced DEF p

-----------------------------------------------------------------------------
(* TypeInv is kept by every step.                                          *)

LEMMA StartCounts ==
  ASSUME StateOK, NEW f \in Files, CanStart(f)
  PROVE  ops' \in 0 .. MaxOps
  <1>1. ops \in 0 .. MaxOps /\ MaxOps \in Nat /\ ops < MaxOps /\ ops' = ops + 1
    BY ClusterAllocAssumption DEF StateOK, CanStart
  <1>2. QED
    BY <1>1

\* A failed access is counted as long as the bound allows.
LEMMA FaultsCount ==
  ASSUME StateOK,
         readFaults' = readFaults \/ (readFaults < MaxReadFaults /\ readFaults' = readFaults + 1),
         writeFaults' = writeFaults \/ (writeFaults < MaxWriteFaults /\ writeFaults' = writeFaults + 1)
  PROVE  readFaults' \in 0 .. MaxReadFaults /\ writeFaults' \in 0 .. MaxWriteFaults
  <1>1. readFaults \in 0 .. MaxReadFaults /\ writeFaults \in 0 .. MaxWriteFaults
    BY DEF StateOK
  <1>2. MaxReadFaults \in Nat /\ MaxWriteFaults \in Nat
    BY ClusterAllocAssumption
  <1>3. QED
    BY <1>1, <1>2

LEMMA SearchType ==
  ASSUME TypeInv, NEW f \in Files, StartAppend(f) \/ Scan(f) \/ ScanFails(f)
  PROVE  TypeInv'
  <1> USE DEF TypeInv
  <1>1. CASE StartAppend(f)
    <2>1. /\ op' \in [Files -> Locals] /\ (\A g \in Files \ {f} : op'[g] = op[g])
          /\ op'[f].pc = "scan" /\ op'[f].keep \in 0 .. Total + Reserved - 1
      BY <1>1, AppendStarts
    <2>2. ops' \in 0 .. MaxOps
      BY <1>1, StartCounts DEF StartAppend
    <2>3. StateOK'
      BY <1>1, <2>1, <2>2 DEF StartAppend, StateOK, faultVars
    <2>4. InOperation(f)'
      BY <2>1 DEF InOperation
    <2>5. QED
      BY <1>1, <2>1, <2>3, <2>4, OthersKeep DEF StartAppend, CanStart
  <1>2. CASE Scan(f) \/ ScanFails(f)
    <2>1. /\ op' \in [Files -> Locals] /\ (\A g \in Files \ {f} : op'[g] = op[g])
          /\ \/ op'[f] = Idle
             \/ GoesOn(f)
             \/ op'[f].pc = "mark" /\ op'[f].target \in FreeClusters
      BY <1>2, SearchEnds
    <2>2. readFaults' \in 0 .. MaxReadFaults
      BY <1>2, FaultsCount DEF Scan, ScanFails, faultVars
    <2>3. StateOK'
      BY <1>2, <2>1, <2>2 DEF Scan, ScanFails, StateOK, faultVars
    <2>4. InOperation(f)'
      <3>1. op[f].pc \in Searching
        BY <1>2 DEF Scan, ScanFails
      <3>2. CASE op'[f] = Idle
        BY <3>2, IdleType DEF InOperation, Searching
      <3>3. CASE GoesOn(f)
        BY <3>1, <3>3 DEF InOperation, Searching, GoesOn
      <3>4. CASE op'[f].pc = "mark" /\ op'[f].target \in FreeClusters
        BY <3>4, FreeClustersType DEF InOperation, Searching
      <3>5. QED
        BY <2>1, <3>2, <3>3, <3>4
    <2>5. op[f].pc # "idle" /\ chain' = chain /\ ops' = ops /\ gen' = gen
      BY <1>2 DEF Scan, ScanFails, Searching
    <2>6. QED
      BY <2>1, <2>3, <2>4, <2>5, OthersKeep
  <1>3. QED
    BY <1>1, <1>2

LEMMA AppendType ==
  ASSUME TypeInv, NEW f \in Files,
         MarkNew(f) \/ LinkPrevious(f) \/ SetAllocated(f) \/ FinishAppend(f)
  PROVE  TypeInv'
  <1> USE DEF TypeInv
  <1>1. CASE MarkNew(f)
    <2>1. PICK p \in {"link", "bit", "count"} :
            op' = [op EXCEPT ![f].pc = p] /\ (p = "link" => chain[f] # <<>>)
      BY <1>1, MarkMoves
    <2>2. /\ op' \in [Files -> Locals] /\ (\A g \in Files \ {f} : op'[g] = op[g])
          /\ op'[f].pc = p /\ op'[f].target = op[f].target
      BY <2>1, Moved DEF Places
    <2>3. op[f].target \in Clusters /\ fat' \in [Clusters -> Clusters \cup {Free, EOC}]
      BY <1>1, PutType DEF MarkNew, InOperation, Entries
    <2>4. StateOK'
      BY <1>1, <2>2, <2>3 DEF MarkNew, StateOK, faultVars
    <2>5. InOperation(f)'
      BY <1>1, <2>1, <2>2, <2>3 DEF MarkNew, InOperation
    <2>6. QED
      BY <1>1, <2>2, <2>4, <2>5, OthersKeep DEF MarkNew
  <1>2. CASE LinkPrevious(f)
    <2>1. PICK p \in {"bit", "count"} : op' = [op EXCEPT ![f].pc = p]
      BY <1>2, LinkMoves
    <2>2. /\ op' \in [Files -> Locals] /\ (\A g \in Files \ {f} : op'[g] = op[g])
          /\ op'[f].pc = p /\ op'[f].target = op[f].target
      BY <2>1, Moved DEF Places
    <2>3. op[f].target \in Clusters /\ fat' \in [Clusters -> Clusters \cup {Free, EOC}]
      <3>1. op[f].target \in Clusters /\ chain[f] # <<>> /\ chain[f] \in Seq(Clusters)
        BY <1>2 DEF LinkPrevious, StateOK, InOperation
      <3>2. Len(chain[f]) \in Nat /\ Len(chain[f]) # 0
        BY <3>1, LenProperties, EmptySeq
      <3>3. Last(chain[f]) \in Clusters
        BY <3>1, <3>2, ElementOfSeq DEF Last
      <3>4. QED
        BY <1>2, <3>1, <3>3, PutType DEF LinkPrevious, Entries
    <2>4. StateOK'
      BY <1>2, <2>2, <2>3 DEF LinkPrevious, StateOK, faultVars
    <2>5. InOperation(f)'
      BY <1>2, <2>1, <2>2, <2>3 DEF LinkPrevious, InOperation
    <2>6. QED
      BY <1>2, <2>2, <2>4, <2>5, OthersKeep DEF LinkPrevious
  <1>3. CASE SetAllocated(f)
    <2>1. /\ op' \in [Files -> Locals] /\ (\A g \in Files \ {f} : op'[g] = op[g])
          /\ op'[f].pc = "count" /\ op'[f].target = op[f].target
      BY <1>3, Moved DEF SetAllocated, Places
    <2>2. StateOK'
      BY <1>3, <2>1 DEF SetAllocated, StateOK, faultVars
    <2>3. InOperation(f)'
      BY <1>3, <2>1 DEF SetAllocated, InOperation
    <2>4. QED
      BY <1>3, <2>1, <2>2, <2>3, OthersKeep DEF SetAllocated
  <1>4. CASE FinishAppend(f)
    <2>1. op' \in [Files -> Locals] /\ (\A g \in Files \ {f} : op'[g] = op[g]) /\ op'[f] = Idle
      BY <1>4, IdleType, Replaced DEF FinishAppend
    <2>2. op[f].target \in Clusters
      BY <1>4 DEF FinishAppend, InOperation
    <2>3. next' \in Reserved .. Total + Reserved
      BY <1>4, <2>2, ClusterAllocAssumption DEF FinishAppend, Clusters, Reserved
    <2>4. count' \in -1 .. CountMod - 1
      BY <1>4, ClusterAllocAssumption DEF FinishAppend, MapCount, StateOK
    <2>5. chain' \in [Files -> Seq(Clusters)] /\ (\A g \in Files \ {f} : chain'[g] = chain[g])
      BY <1>4, <2>2, AppendProperties DEF FinishAppend, StateOK
    <2>6. StateOK'
      BY <1>4, <2>1, <2>3, <2>4, <2>5 DEF FinishAppend, StateOK, faultVars
    <2>7. InOperation(f)'
      BY <2>1, IdleType DEF InOperation
    <2>8. QED
      BY <1>4, <2>1, <2>5, <2>6, <2>7, IdleType, OthersKeep DEF FinishAppend
  <1>5. QED
    BY <1>1, <1>2, <1>3, <1>4

LEMMA TruncateType ==
  ASSUME TypeInv, NEW f \in Files,
         \/ \E k \in 1 .. Len(chain[f]) : StartTruncate(f, k)
         \/ TruncateNext(f) \/ TruncateEnd(f) \/ FinishTruncate(f)
  PROVE  TypeInv'
  <1> USE DEF TypeInv
  <1>1. ASSUME NEW k \in 1 .. Len(chain[f]), StartTruncate(f, k) PROVE TypeInv'
    <2>1. /\ op' \in [Files -> Locals] /\ (\A g \in Files \ {f} : op'[g] = op[g])
          /\ op'[f].pc = "tnext" /\ op'[f].at \in Clusters /\ op'[f].keep = k
      BY <1>1, TruncateStarts
    <2>2. ops' \in 0 .. MaxOps
      BY <1>1, StartCounts DEF StartTruncate
    <2>3. StateOK'
      BY <1>1, <2>1, <2>2 DEF StartTruncate, StateOK, faultVars
    <2>4. InOperation(f)'
      BY <1>1, <2>1 DEF InOperation, StartTruncate
    <2>5. QED
      BY <1>1, <2>1, <2>3, <2>4, OthersKeep DEF StartTruncate, CanStart
  <1>2. CASE TruncateNext(f)
    <2>1. /\ op' \in [Files -> Locals] /\ (\A g \in Files \ {f} : op'[g] = op[g])
          /\ op'[f].pc = "teoc" /\ op'[f].at \in Clusters \cup {None} /\ op'[f].keep = op[f].keep
      BY <1>2, TruncateMoves, NextOfType
    <2>2. StateOK'
      BY <1>2, <2>1 DEF TruncateNext, StateOK, faultVars
    <2>3. InOperation(f)'
      BY <1>2, <2>1 DEF InOperation, TruncateNext
    <2>4. QED
      BY <1>2, <2>1, <2>2, <2>3, OthersKeep DEF TruncateNext
  <1>3. CASE TruncateEnd(f)
    <2>1. /\ op' \in [Files -> Locals] /\ (\A g \in Files \ {f} : op'[g] = op[g])
          /\ op'[f].pc = "fnext" /\ op'[f].at = op[f].at
      BY <1>3, Moved DEF TruncateEnd, Places
    <2>2. chain[f] \in Seq(Clusters) /\ op[f].keep \in 1 .. Len(chain[f])
      BY <1>3 DEF TruncateEnd, StateOK, InOperation
    <2>3. SubSeq(chain[f], 1, op[f].keep) \in Seq(Clusters)
      BY <2>2, LenProperties
    <2>4. chain' \in [Files -> Seq(Clusters)] /\ (\A g \in Files \ {f} : chain'[g] = chain[g])
      BY <1>3, <2>3 DEF TruncateEnd, StateOK
    <2>5. fat' \in [Clusters -> Clusters \cup {Free, EOC}]
      BY <1>3, <2>2, ElementOfSeq, PutType DEF TruncateEnd, Entries
    <2>6. StateOK'
      BY <1>3, <2>1, <2>4, <2>5 DEF TruncateEnd, StateOK, faultVars
    <2>7. InOperation(f)'
      BY <1>3, <2>1 DEF InOperation, TruncateEnd
    <2>8. QED
      BY <1>3, <2>1, <2>4, <2>6, <2>7, OthersKeep DEF TruncateEnd
  <1>4. CASE FinishTruncate(f)
    <2>1. op' \in [Files -> Locals] /\ (\A g \in Files \ {f} : op'[g] = op[g]) /\ op'[f] = Idle
      BY <1>4, IdleType, Replaced DEF FinishTruncate
    <2>2. op[f].freed \in Nat
      BY DEF StateOK, Locals
    <2>3. count' \in -1 .. CountMod - 1
      BY <1>4, <2>2, ClusterAllocAssumption DEF FinishTruncate, MapCount, StateOK
    <2>4. StateOK'
      BY <1>4, <2>1, <2>3 DEF FinishTruncate, StateOK, faultVars
    <2>5. InOperation(f)'
      BY <2>1, IdleType DEF InOperation
    <2>6. QED
      BY <1>4, <2>1, <2>4, <2>5, IdleType, OthersKeep DEF FinishTruncate
  <1>5. QED
    BY <1>1, <1>2, <1>3, <1>4

LEMMA ReleaseType ==
  ASSUME TypeInv, NEW f \in Files,
         StartRelease(f) \/ Collect(f) \/ FreeNext(f) \/ FreeWrite(f) \/ FreeEnd(f)
  PROVE  TypeInv'
  <1> USE DEF TypeInv
  <1>1. CASE StartRelease(f)
    <2>1. /\ op' \in [Files -> Locals] /\ (\A g \in Files \ {f} : op'[g] = op[g])
          /\ op'[f].pc \in {"collect", "fnext"} /\ op'[f].at \in Clusters
          /\ op'[f].target \in Clusters
      BY <1>1, ReleaseStarts
    <2>2. ops' \in 0 .. MaxOps
      BY <1>1, StartCounts DEF StartRelease
    <2>3. chain' \in [Files -> Seq(Clusters)] /\ (\A g \in Files \ {f} : chain'[g] = chain[g])
      BY <1>1, EmptySeq DEF StartRelease, StateOK
    <2>4. StateOK'
      BY <1>1, <2>1, <2>2, <2>3 DEF StartRelease, StateOK, faultVars
    <2>5. InOperation(f)'
      BY <1>1, <2>1 DEF InOperation, StartRelease
    <2>6. QED
      BY <1>1, <2>1, <2>3, <2>4, <2>5, OthersKeep DEF StartRelease, CanStart
  <1>2. CASE Collect(f)
    <2>1. /\ op' \in [Files -> Locals] /\ (\A g \in Files \ {f} : op'[g] = op[g])
          /\ op'[f].pc \in {"collect", "fnext"} /\ op'[f].at \in Clusters
          /\ op'[f].target \in Clusters
      BY <1>2, CollectMoves DEF Collect, InOperation
    <2>2. StateOK'
      BY <1>2, <2>1 DEF Collect, StateOK, faultVars
    <2>3. InOperation(f)'
      BY <1>2, <2>1 DEF InOperation, Collect
    <2>4. QED
      BY <1>2, <2>1, <2>2, <2>3, OthersKeep DEF Collect
  <1>3. CASE FreeNext(f)
    <2>1. op[f].at \in Clusters \cup {None}
      BY <1>3 DEF FreeNext, InOperation
    <2>2. /\ op' \in [Files -> Locals] /\ (\A g \in Files \ {f} : op'[g] = op[g])
          /\ op'[f].pc = "ffree" /\ op'[f].at \in Clusters \cup {None}
          /\ op'[f].target \in Clusters
      BY <1>3, <2>1, FreeMoves, NextOfType
    <2>3. StateOK'
      BY <1>3, <2>2 DEF FreeNext, StateOK, faultVars
    <2>4. InOperation(f)'
      BY <1>3, <2>2 DEF InOperation, FreeNext
    <2>5. QED
      BY <1>3, <2>2, <2>3, <2>4, OthersKeep DEF FreeNext
  <1>4. CASE FreeWrite(f)
    <2>1. /\ op' \in [Files -> Locals] /\ (\A g \in Files \ {f} : op'[g] = op[g])
          /\ op'[f].pc = "fnext" /\ op'[f].at = op[f].at
      BY <1>4, FreeWrites
    <2>2. fat' \in [Clusters -> Clusters \cup {Free, EOC}]
      BY <1>4, PutType DEF FreeWrite, InOperation, Entries
    <2>3. StateOK'
      BY <1>4, <2>1, <2>2 DEF FreeWrite, StateOK, faultVars
    <2>4. InOperation(f)'
      BY <1>4, <2>1 DEF InOperation, FreeWrite
    <2>5. QED
      BY <1>4, <2>1, <2>3, <2>4, OthersKeep DEF FreeWrite
  <1>5. CASE FreeEnd(f)
    <2>1. PICK p \in {"tcount", "fbits", "fcount"} : op' = [op EXCEPT ![f].pc = p]
      BY <1>5, FreeEnds
    <2>2. /\ op' \in [Files -> Locals] /\ (\A g \in Files \ {f} : op'[g] = op[g])
          /\ op'[f].pc = p
      BY <2>1, Moved DEF Places
    <2>3. StateOK'
      BY <1>5, <2>2 DEF FreeEnd, StateOK, faultVars
    <2>4. InOperation(f)'
      BY <2>2 DEF InOperation
    <2>5. QED
      BY <1>5, <2>2, <2>3, <2>4, OthersKeep DEF FreeEnd
  <1>6. QED
    BY <1>1, <1>2, <1>3, <1>4, <1>5

LEMMA FinishType ==
  ASSUME TypeInv, NEW f \in Files,
         SetFree(f) \/ FinishRelease(f) \/ WriteFails(f) \/ NextFails(f) \/ CollectFails(f)
  PROVE  TypeInv'
  <1> USE DEF TypeInv
  <1>1. CASE SetFree(f)
    <2>1. /\ op' \in [Files -> Locals] /\ (\A g \in Files \ {f} : op'[g] = op[g])
          /\ op'[f].pc = "fcount"
      BY <1>1, Moved DEF SetFree, Places
    <2>2. {c \in op[f].batch : c < Total} \subseteq 0 .. Total - 1
      <3>1. op[f].batch \subseteq Clusters
        BY DEF StateOK, Locals
      <3>2. ASSUME NEW c \in Clusters, c < Total PROVE c \in 0 .. Total - 1
        BY <3>2, ClusterAllocAssumption DEF Clusters, Reserved
      <3>3. QED
        BY <3>1, <3>2
    <2>3. StateOK'
      BY <1>1, <2>1, <2>2 DEF SetFree, StateOK, faultVars
    <2>4. InOperation(f)'
      BY <2>1 DEF InOperation
    <2>5. QED
      BY <1>1, <2>1, <2>3, <2>4, OthersKeep DEF SetFree
  <1>2. CASE FinishRelease(f)
    <2>1. op' \in [Files -> Locals] /\ (\A g \in Files \ {f} : op'[g] = op[g]) /\ op'[f] = Idle
      BY <1>2, IdleType, Replaced DEF FinishRelease
    <2>2. op[f].freed \in Nat
      BY DEF StateOK, Locals
    <2>3. count' \in -1 .. CountMod - 1
      BY <1>2, <2>2, ClusterAllocAssumption DEF FinishRelease, MapCount, StateOK
    <2>4. gen' \in 0 .. MaxOps
      <3>1. f \in Busy /\ IsFiniteSet(Busy)
        BY <1>2, FilesFinite DEF FinishRelease, Busy
      <3>2. Cardinality(Busy) # 0 /\ Cardinality(Busy) \in Nat
        BY <3>1, FS_EmptySet, FS_CardinalityType
      <3>3. QED
        BY <1>2, <3>2, ClusterAllocAssumption DEF FinishRelease, GenerationCounts, StateOK
    <2>5. StateOK'
      BY <1>2, <2>1, <2>3, <2>4 DEF FinishRelease, StateOK, faultVars
    <2>6. InOperation(f)'
      BY <2>1, IdleType DEF InOperation
    <2>7. QED
      BY <1>2, <2>1, <2>5, <2>6, IdleType, OthersKeep DEF FinishRelease
  <1>3. CASE WriteFails(f) \/ CollectFails(f)
    <2>1. op' \in [Files -> Locals] /\ (\A g \in Files \ {f} : op'[g] = op[g]) /\ op'[f] = Idle
      BY <1>3, IdleType, Replaced DEF WriteFails, CollectFails
    <2>2. readFaults' \in 0 .. MaxReadFaults /\ writeFaults' \in 0 .. MaxWriteFaults
      BY <1>3, FaultsCount DEF WriteFails, CollectFails
    <2>3. StateOK'
      BY <1>3, <2>1, <2>2 DEF WriteFails, CollectFails, StateOK
    <2>4. InOperation(f)'
      BY <2>1, IdleType DEF InOperation
    <2>5. QED
      BY <1>3, <2>1, <2>3, <2>4, IdleType, OthersKeep DEF WriteFails, CollectFails
  <1>4. CASE NextFails(f)
    <2>1. op[f].at \in Clusters \cup {None}
      BY <1>4 DEF NextFails, InOperation
    <2>2. /\ op' \in [Files -> Locals] /\ (\A g \in Files \ {f} : op'[g] = op[g])
          /\ op'[f].pc = (IF op[f].pc = "tnext" THEN "teoc" ELSE "ffree")
          /\ op'[f].at \in Clusters /\ op'[f].target \in Clusters /\ op'[f].keep = op[f].keep
      BY <1>4, <2>1, NextFailsMoves
    <2>3. readFaults' \in 0 .. MaxReadFaults
      BY <1>4, FaultsCount DEF NextFails
    <2>4. StateOK'
      BY <1>4, <2>2, <2>3 DEF NextFails, StateOK
    <2>5. InOperation(f)'
      BY <1>4, <2>2 DEF InOperation, NextFails
    <2>6. QED
      BY <1>4, <2>2, <2>4, <2>5, OthersKeep DEF NextFails
  <1>5. QED
    BY <1>1, <1>2, <1>3, <1>4

LEMMA RecountType == ASSUME TypeInv, StartRecount \/ FinishRecount PROVE TypeInv'
  <1> USE DEF TypeInv
  <1>1. Cardinality(FreeClusters) \in 0 .. Total
    BY FreeClustersType, ClustersFinite
  <1>2. recount' \in -1 .. Total
    BY <1>1, ClusterAllocAssumption DEF StartRecount, FinishRecount, StateOK
  <1>3. count' \in -1 .. CountMod - 1
    BY ClusterAllocAssumption DEF StartRecount, FinishRecount, StateOK
  <1>4. StateOK'
    BY <1>2, <1>3 DEF StartRecount, FinishRecount, StateOK, faultVars
  <1>5. (\A f \in Files : InOperation(f)') /\ GenerationCounts'
    BY DEF StartRecount, FinishRecount, InOperation, GenerationCounts, Busy
  <1>6. QED
    BY <1>4, <1>5

\* Reading the neighbour's half changes nothing else.
LEMMA WordIsApart ==
  ASSUME NEW f \in Files, ReadWord(f)
  PROVE  /\ fat' = fat /\ marked' = marked /\ count' = count /\ next' = next /\ gen' = gen
         /\ chain' = chain /\ op' = op /\ recount' = recount /\ ops' = ops
         /\ readFaults' = readFaults /\ writeFaults' = writeFaults
         /\ op[f].pc \in Writing
  BY DEF ReadWord, faultVars

LEMMA NextTypeInv == TypeInv /\ [Next]_vars => TypeInv'
  <1> SUFFICES ASSUME TypeInv, [Next]_vars PROVE TypeInv'
    OBVIOUS
  <1>1. CASE UNCHANGED vars
    BY <1>1 DEF vars, TypeInv, StateOK, InOperation, GenerationCounts, Busy
  <1>2. ASSUME NEW f \in Files, Start(f) PROVE TypeInv'
    BY <1>2, SearchType, TruncateType, ReleaseType DEF Start
  <1>0. ASSUME NEW f \in Files, ReadWord(f) PROVE TypeInv'
    BY <1>0, WordIsApart DEF TypeInv, StateOK, InOperation, GenerationCounts, Busy
  <1>3. ASSUME NEW f \in Files, Step(f) PROVE TypeInv'
    BY <1>0, <1>3, SearchType, AppendType, TruncateType, ReleaseType, FinishType DEF Step
  <1>4. ASSUME NEW f \in Files, Fails(f) PROVE TypeInv'
    BY <1>4, SearchType, FinishType DEF Fails
  <1>5. CASE StartRecount \/ FinishRecount
    BY <1>5, RecountType
  <1>6. QED
    BY <1>1, <1>2, <1>3, <1>4, <1>5 DEF Next

\* Every variable keeps its type, whatever the number of files and clusters,
\* with any interleaving and any failure (alloc_cluster,
\* truncate_cluster_chain, free_cluster_chain, stats): the hint stays within one
\* past the last cluster, and the counter modulo 2^32.
THEOREM TypeCorrect == Spec => []TypeOK
  <1> DEFINE Words == word \in [Files -> Entries \cup {Unread}]
             Sinces == since \in [Files -> SUBSET Clusters]
             Inv == TypeInv /\ Words /\ Sinces
  <1>1. Inv => TypeOK
    BY DEF TypeInv, StateOK, TypeOK, Entries
  <1>2. Init => Inv
    BY InitTypeInv DEF Init
  <1>3. Inv /\ [Next]_vars => Inv'
    <2> SUFFICES ASSUME Inv, [Next]_vars PROVE Inv'
      OBVIOUS
    <2>1. TypeInv'
      BY NextTypeInv
    <2>2. CASE UNCHANGED vars
      BY <2>1, <2>2 DEF vars
    <2>3. CASE Next
      <3>1. Sinces'
        BY <2>3 DEF Next, Remember, FreeIn
      <3>2. ASSUME NEW f \in Files, Start(f) PROVE Words'
        BY <3>2 DEF Start, StartAppend, StartTruncate, StartRelease
      <3>3. ASSUME NEW f \in Files, Step(f) PROVE Words'
        <4>1. CASE ReadWord(f)
          BY <4>1 DEF ReadWord, TypeInv, StateOK, Entries
        <4>2. CASE MarkNew(f) \/ LinkPrevious(f) \/ TruncateEnd(f) \/ FreeWrite(f)
          BY <4>2 DEF MarkNew, LinkPrevious, TruncateEnd, FreeWrite, Put
        <4>3. CASE ~ReadWord(f) /\ ~(MarkNew(f) \/ LinkPrevious(f) \/ TruncateEnd(f) \/ FreeWrite(f))
          BY <3>3, <4>3 DEF Step, Scan, SetAllocated, FinishAppend, TruncateNext, FinishTruncate,
             Collect, FreeNext, FreeEnd, SetFree, FinishRelease
        <4>4. QED
          BY <4>1, <4>2, <4>3
      <3>4. ASSUME NEW f \in Files, Fails(f) PROVE Words'
        BY <3>4 DEF Fails, ScanFails, WriteFails, NextFails, CollectFails
      <3>5. ASSUME StartRecount \/ FinishRecount PROVE Words'
        BY <3>5 DEF StartRecount, FinishRecount
      <3>6. QED
        BY <2>1, <2>3, <3>1, <3>2, <3>3, <3>4, <3>5 DEF Next
    <2>4. QED
      BY <2>2, <2>3
  <1>4. QED
    BY <1>1, <1>2, <1>3, PTL DEF Spec

-----------------------------------------------------------------------------
(***************************************************************************)
(* The chains.  While an operation runs, the clusters it has still to      *)
(* release are known to nobody but the table: rest[f] is that chain, and   *)
(* the clusters of f, of rest[f] and the one its operation holds are its   *)
(* own.  A read that fails loses rest[f] (Lost).                           *)
(***************************************************************************)
Members(s) == {s[i] : i \in 1 .. Len(s)}
Distinct(s) == \A i, j \in 1 .. Len(s) : s[i] = s[j] => i = j
Linked(s) == \A i \in 1 .. Len(s) - 1 : fat[s[i]] = s[i + 1]

Holding == {"link", "bit", "count", "ffree"}
Held(f) == IF op[f].err \/ op[f].pc \in Holding THEN {op[f].target} ELSE {}
Own(f, r) == ClustersOf(f) \cup Members(r) \cup Held(f)

Apart(f, r) ==
  /\ Distinct(chain[f]) /\ Distinct(r) /\ ClustersOf(f) \cap Members(r) = {}
  /\ ~op[f].err /\ op[f].pc \in Holding => op[f].target \notin ClustersOf(f) \cup Members(r)

Links(f, r) ==
  /\ Linked(chain[f]) /\ Linked(r)
  /\ r # <<>> => fat[Last(r)] = EOC
  /\ chain[f] # <<>> =>
       fat[Last(chain[f])] = IF op[f].pc \in {"bit", "count"} THEN op[f].target ELSE EOC
  /\ op[f].pc \in {"link", "bit", "count"} => fat[op[f].target] = EOC
  /\ op[f].pc = "ffree" => fat[op[f].target] # Free
  /\ op[f].pc = "mark" => fat[op[f].target] = Free

\* Where the iterator of an operation stands.
Position(f, r) ==
  /\ op[f].pc = "tnext" => op[f].at = chain[f][op[f].keep]
  /\ op[f].pc = "teoc" =>
       op[f].at = IF op[f].keep < Len(chain[f]) THEN chain[f][op[f].keep + 1] ELSE None
  /\ op[f].pc \in {"fnext", "ffree"} => op[f].at = IF r = <<>> THEN None ELSE r[1]
  /\ op[f].pc = "collect" => r # <<>> /\ op[f].target = r[1] /\ op[f].at \in Members(r)
  /\ op[f].pc \notin {"collect", "fnext", "ffree"} => r = <<>>

Lost(f, r) ==
  /\ op[f].pc \in {"teoc", "fnext", "ffree"} /\ op[f].at = op[f].target
  /\ op[f].target \in Clusters /\ r = <<>> /\ ~NoFaults

FileOK(f, r) == Apart(f, r) /\ IF op[f].err THEN Lost(f, r) ELSE Links(f, r) /\ Position(f, r)

\* What a step of the operation on f may do to the table, with r to release
\* before the step and q after it.
StepOn(f, r, q) ==
  /\ \A g \in Files \ {f} : op'[g] = op[g] /\ chain'[g] = chain[g]
  /\ FileOK(f, q)'
  /\ \A c \in Own(f, q)' : c \in Own(f, r) \/ (fat[c] = Free /\ op[f].pc = "mark")
  /\ \A c \in Clusters :
       fat'[c] = fat[c] \/ c \in Own(f, r) \/ (fat[c] = Free /\ op[f].pc = "mark" /\ c \in Own(f, q)')
  /\ NoFaults' => NoFaults /\ \A c \in Own(f, r) : c \in Own(f, q)' \/ fat'[c] = Free

LEMMA EmptyChain ==
  Members(<<>>) = {} /\ Distinct(<<>>) /\ Linked(<<>>) /\ Linked(<<>>)'
  BY EmptySeq DEF Members, Distinct, Linked

LEMMA SeqFacts ==
  ASSUME NEW s \in Seq(Clusters)
  PROVE  /\ Len(s) \in Nat /\ (\A i \in 1 .. Len(s) : s[i] \in Clusters)
         /\ Members(s) \subseteq Clusters /\ (s = <<>> <=> Len(s) = 0)
         /\ s # <<>> => s[1] \in Members(s) /\ Last(s) = s[Len(s)] /\ Last(s) \in Members(s)
  <1>1. Len(s) \in Nat /\ (\A i \in 1 .. Len(s) : s[i] \in Clusters)
    BY LenProperties, ElementOfSeq
  <1>2. s = <<>> <=> Len(s) = 0
    BY EmptySeq, <1>1
  <1>3. QED
    BY <1>1, <1>2 DEF Members, Last

LEMMA ChainType ==
  ASSUME StateOK, NEW f \in Files
  PROVE  chain[f] \in Seq(Clusters) /\ ClustersOf(f) = Members(chain[f])
         /\ ClustersOf(f) \subseteq Clusters
  <1>1. chain[f] \in Seq(Clusters)
    BY DEF StateOK
  <1>2. QED
    BY <1>1, SeqFacts DEF ClustersOf, Members

\* A file whose iterator has not failed owns no free entry.
LEMMA OwnNotFree ==
  ASSUME TypeInv, NEW f \in Files, NEW r \in Seq(Clusters), FileOK(f, r), ~op[f].err
  PROVE  /\ Own(f, r) \subseteq Clusters
         /\ \A c \in Own(f, r) : fat[c] # Free
  <1> USE DEF TypeInv
  <1>1. /\ chain[f] \in Seq(Clusters) /\ ClustersOf(f) = Members(chain[f])
        /\ Links(f, r)
    BY ChainType DEF FileOK
  <1>2. ASSUME NEW s \in Seq(Clusters), Linked(s), s # <<>> => fat[Last(s)] # Free,
               NEW c \in Members(s)
        PROVE  fat[c] # Free
    <2>1. PICK i \in 1 .. Len(s) : c = s[i]
      BY DEF Members
    <2>2. Len(s) \in Nat /\ (\A j \in 1 .. Len(s) : s[j] \in Clusters) /\ s # <<>>
      BY SeqFacts, <2>1
    <2>3. CASE i = Len(s)
      BY <1>2, <2>1, <2>2, <2>3 DEF Last
    <2>4. CASE i # Len(s)
      <3>1. i \in 1 .. Len(s) - 1 /\ i + 1 \in 1 .. Len(s)
        BY <2>2, <2>4
      <3>2. fat[c] \in Clusters
        BY <3>1, <2>1, <2>2, <1>2 DEF Linked
      <3>3. QED
        BY <3>2, Numbers
    <2>5. QED
      BY <2>3, <2>4
  <1>3. Free # EOC /\ (\A c \in Clusters : c # Free)
    BY Numbers
  <1>4. op[f].pc \in Holding => op[f].target \in Clusters /\ fat[op[f].target] # Free
    BY <1>1, <1>3 DEF InOperation, Links, Holding
  <1>5. chain[f] # <<>> => fat[Last(chain[f])] # Free
    BY <1>1, <1>3, <1>4 DEF Links, Holding
  <1>6. r # <<>> => fat[Last(r)] # Free
    BY <1>1, <1>3 DEF Links
  <1>7. \A c \in Members(chain[f]) \cup Members(r) : fat[c] # Free
    BY <1>1, <1>2, <1>5, <1>6 DEF Links
  <1>8. Members(chain[f]) \cup Members(r) \subseteq Clusters
    BY <1>1, SeqFacts
  <1>9. Own(f, r) = Members(chain[f]) \cup Members(r) \cup
                    (IF op[f].pc \in Holding THEN {op[f].target} ELSE {})
    BY <1>1 DEF Own, Held
  <1>10. QED
    BY <1>4, <1>7, <1>8, <1>9

-----------------------------------------------------------------------------
(* Each step of an operation keeps what FileOK says of its file.           *)

\* A step that only moves the operation, holds no more than it did and does
\* not move the iterator of a release.
LEMMA MoveStep ==
  ASSUME TypeInv, NEW f \in Files, NEW r \in Seq(Clusters), FileOK(f, r),
         ~op[f].err, ~op'[f].err, UNCHANGED <<fat, chain>>, NoFaults' => NoFaults,
         \A g \in Files \ {f} : op'[g] = op[g],
         Held(f)' = Held(f), Links(f, r)', Position(f, r)'
  PROVE  StepOn(f, r, r)
  <1>1. Own(f, r)' = Own(f, r)
    BY DEF Own, ClustersOf
  <1>2. Apart(f, r)'
    BY DEF FileOK, Apart, ClustersOf, Held
  <1>3. QED
    BY <1>1, <1>2 DEF StepOn, FileOK

\* The operation is over, and had nothing left to release.
LEMMA EndStep ==
  ASSUME TypeInv, NEW f \in Files, NEW r \in Seq(Clusters), FileOK(f, r),
         ~op[f].err, op'[f] = Idle, UNCHANGED <<fat, chain>>, 
         \A g \in Files \ {f} : op'[g] = op[g],
         NoFaults' => NoFaults /\ r = <<>> /\ Held(f) = {},
         op[f].pc \notin {"bit", "count"}
  PROVE  StepOn(f, r, <<>>)
  <1>1. /\ op'[f].pc = "idle" /\ ~op'[f].err /\ Held(f)' = {}
    BY IdleType DEF Held, Holding
  <1>2. Own(f, <<>>)' = ClustersOf(f) /\ ClustersOf(f)' = ClustersOf(f)
    BY <1>1, EmptyChain DEF Own, ClustersOf
  <1>3. Apart(f, <<>>)'
    BY <1>1, EmptyChain DEF FileOK, Apart, ClustersOf, Holding
  <1>4. Links(f, <<>>)'
    BY <1>1, EmptyChain DEF FileOK, Links, Linked, Last
  <1>5. Position(f, <<>>)'
    BY <1>1 DEF Position
  <1>6. NoFaults' => Own(f, r) = ClustersOf(f)
    BY EmptyChain DEF Own
  <1>7. QED
    BY <1>1, <1>2, <1>3, <1>4, <1>5, <1>6 DEF StepOn, FileOK, Own

LEMMA SearchStep ==
  ASSUME TypeInv, NEW f \in Files, NEW r \in Seq(Clusters), FileOK(f, r),
         StartAppend(f) \/ Scan(f) \/ ScanFails(f)
  PROVE  \E q \in Seq(Clusters) : StepOn(f, r, q)
  <1> USE DEF TypeInv
  <1>1. CASE StartAppend(f)
    <2>1. /\ op'[f].pc = "scan" /\ ~op'[f].err
          /\ (\A g \in Files \ {f} : op'[g] = op[g])
      BY <1>1, AppendStarts
    <2>2. op[f].pc = "idle" /\ ~op[f].err /\ r = <<>>
      BY <1>1, IdleType DEF StartAppend, CanStart, FileOK, Position
    <2>3. Held(f)' = Held(f)
      BY <2>1, <2>2 DEF Held, Holding
    <2>4. Links(f, r)' /\ Position(f, r)'
      BY <1>1, <2>1, <2>2 DEF StartAppend, FileOK, Links, Linked, Position, Last
    <2>5. QED
      BY <1>1, <2>1, <2>2, <2>3, <2>4, MoveStep DEF StartAppend, NoFaults, faultVars
  <1>2. CASE Scan(f) \/ ScanFails(f)
    <2>1. /\ op[f].pc \in Searching /\ ~op[f].err /\ r = <<>> /\ Held(f) = {}
      BY <1>2 DEF Scan, ScanFails, FileOK, Lost, Position, Held, Holding, Searching
    <2>2. UNCHANGED <<fat, chain>> /\ (NoFaults' => NoFaults)
      BY <1>2 DEF Scan, ScanFails, NoFaults, faultVars, StateOK
    <2>3. /\ (\A g \in Files \ {f} : op'[g] = op[g])
          /\ \/ op'[f] = Idle
             \/ GoesOn(f)
             \/ op'[f].pc = "mark" /\ ~op'[f].err /\ op'[f].target \in FreeClusters
      BY <1>2, SearchEnds
    <2>4. CASE op'[f] = Idle
      BY <2>1, <2>2, <2>3, <2>4, EndStep, EmptySeq DEF Searching
    <2>7. CASE GoesOn(f)
      <3>1. op'[f].pc \in Searching /\ ~op'[f].err
        BY <2>1, <2>7 DEF GoesOn
      <3>2. Held(f)' = Held(f)
        BY <2>1, <3>1 DEF Held, Holding, Searching
      <3>3. Links(f, r)'
        BY <2>1, <2>2, <3>1 DEF FileOK, Links, Linked, Last, Searching
      <3>4. Position(f, r)'
        BY <2>1, <3>1 DEF Position, Searching
      <3>5. QED
        BY <2>1, <2>2, <2>3, <3>1, <3>2, <3>3, <3>4, MoveStep
    <2>5. CASE op'[f].pc = "mark" /\ ~op'[f].err /\ op'[f].target \in FreeClusters
      <3>1. Held(f)' = Held(f)
        BY <2>1, <2>5 DEF Held, Holding, Searching
      <3>2. Links(f, r)' /\ Position(f, r)'
        BY <2>1, <2>2, <2>5 DEF FileOK, Links, Linked, Position, Last, FreeClusters, FreeIn, Searching
      <3>3. QED
        BY <2>1, <2>2, <2>3, <2>5, <3>1, <3>2, MoveStep
    <2>6. QED
      BY <2>3, <2>4, <2>5, <2>7
  <1>3. QED
    BY <1>1, <1>2

LEMMA MarkStep ==
  ASSUME TypeInv, Whole, NEW f \in Files, NEW r \in Seq(Clusters), FileOK(f, r), MarkNew(f)
  PROVE  StepOn(f, r, r)
  <1> USE DEF TypeInv
  <1> DEFINE t == op[f].target
  <1>1. /\ op[f].pc = "mark" /\ ~op[f].err /\ r = <<>> /\ Held(f) = {}
        /\ t \in Clusters /\ fat[t] = Free
    BY DEF MarkNew, FileOK, Lost, Position, Held, Holding, Links, InOperation
  <1>2. PICK p \in {"link", "bit", "count"} :
          op' = [op EXCEPT ![f].pc = p] /\ (p = "link" <=> chain[f] # <<>>)
    BY MarkMoves
  <1>3. /\ (\A g \in Files \ {f} : op'[g] = op[g])
        /\ op'[f].pc = p /\ op'[f].target = t /\ ~op'[f].err
    BY <1>1, <1>2, Moved DEF Places
  <1>4. chain[f] \in Seq(Clusters) /\ ClustersOf(f) = Members(chain[f]) /\ ClustersOf(f) \subseteq Clusters
    BY ChainType
  <1>5. t \notin ClustersOf(f)
    BY <1>1, OwnNotFree DEF Own
  <1>6. chain' = chain /\ fat'[t] = EOC /\ (\A c \in Clusters \ {t} : fat'[c] = fat[c])
    <2>1. fat' = [fat EXCEPT ![t] = EOC]
      BY WholeWrites
    <2>2. QED
      BY <1>1, <2>1 DEF MarkNew, StateOK
  <1>7. \A i \in 1 .. Len(chain[f]) : chain[f][i] # t /\ chain[f][i] \in Clusters
    BY <1>4, <1>5, SeqFacts DEF Members
  <1>8. Linked(chain[f])'
    <2>1. ASSUME NEW i \in 1 .. Len(chain[f]) - 1 PROVE fat'[chain[f][i]] = chain[f][i + 1]
      <3>1. i \in 1 .. Len(chain[f]) /\ fat[chain[f][i]] = chain[f][i + 1]
        BY <1>1, <1>4, SeqFacts DEF FileOK, Links, Linked
      <3>2. QED
        BY <1>6, <1>7, <3>1
    <2>2. QED
      BY <2>1, <1>6 DEF Linked
  <1>9. chain[f] # <<>> => fat'[Last(chain[f])] = EOC
    BY <1>1, <1>4, <1>5, <1>6, SeqFacts DEF FileOK, Links
  <1>10. Links(f, r)'
    BY <1>1, <1>2, <1>3, <1>6, <1>8, <1>9, EmptyChain DEF Links
  <1>11. Position(f, r)'
    BY <1>1, <1>3 DEF Position
  <1>12. ClustersOf(f)' = ClustersOf(f) /\ Held(f)' = {t}
    BY <1>3, <1>6 DEF ClustersOf, Held, Holding
  <1>13. Apart(f, r)'
    BY <1>1, <1>3, <1>5, <1>6, <1>12, EmptyChain DEF FileOK, Apart
  <1>14. Own(f, r)' = Own(f, r) \cup {t} /\ t \in Own(f, r)'
    BY <1>1, <1>12 DEF Own
  <1>15. (NoFaults' => NoFaults) /\ (\A g \in Files \ {f} : chain'[g] = chain[g])
    BY <1>6 DEF MarkNew, NoFaults, faultVars
  <1>16. FileOK(f, r)'
    BY <1>3, <1>10, <1>11, <1>13 DEF FileOK
  <1>17. QED
    BY <1>1, <1>3, <1>6, <1>14, <1>15, <1>16 DEF StepOn

LEMMA LinkStep ==
  ASSUME TypeInv, Whole, NEW f \in Files, NEW r \in Seq(Clusters), FileOK(f, r), LinkPrevious(f)
  PROVE  StepOn(f, r, r)
  <1> USE DEF TypeInv
  <1> DEFINE t == op[f].target
             s == chain[f]
  <1>1. /\ op[f].pc = "link" /\ ~op[f].err /\ r = <<>> /\ Held(f) = {t} /\ s # <<>>
        /\ t \in Clusters /\ fat[t] = EOC /\ t \notin ClustersOf(f)
    BY DEF LinkPrevious, FileOK, Apart, Lost, Position, Held, Holding, Links, InOperation
  <1>2. PICK p \in {"bit", "count"} : op' = [op EXCEPT ![f].pc = p]
    BY LinkMoves
  <1>3. /\ (\A g \in Files \ {f} : op'[g] = op[g])
        /\ op'[f].pc = p /\ op'[f].target = t /\ ~op'[f].err
    BY <1>1, <1>2, Moved DEF Places
  <1>4. s \in Seq(Clusters) /\ ClustersOf(f) = Members(s) /\ ClustersOf(f) \subseteq Clusters
    BY ChainType
  <1>5. /\ Len(s) \in Nat /\ Len(s) # 0 /\ Last(s) = s[Len(s)] /\ Last(s) \in Clusters
        /\ Last(s) \in Members(s) /\ Last(s) # t
    BY <1>1, <1>4, SeqFacts
  <1>6. chain' = chain /\ fat'[Last(s)] = t /\ (\A c \in Clusters \ {Last(s)} : fat'[c] = fat[c])
    BY <1>5, WholeWrites DEF LinkPrevious, StateOK
  <1>7. Linked(s)'
    <2>1. ASSUME NEW i \in 1 .. Len(s) - 1 PROVE fat'[s[i]] = s[i + 1]
      <3>1. i \in 1 .. Len(s) /\ Len(s) \in 1 .. Len(s) /\ i # Len(s) /\ fat[s[i]] = s[i + 1]
        BY <1>1, <1>5 DEF FileOK, Links, Linked
      <3>2. s[i] # Last(s) /\ s[i] \in Clusters
        BY <3>1, <1>4, <1>5, SeqFacts DEF FileOK, Apart, Distinct
      <3>3. QED
        BY <1>6, <3>1, <3>2
    <2>2. QED
      BY <2>1, <1>6 DEF Linked
  <1>8. Links(f, r)'
    BY <1>1, <1>2, <1>3, <1>5, <1>6, <1>7, EmptyChain DEF Links
  <1>9. Position(f, r)'
    BY <1>1, <1>3 DEF Position
  <1>10. ClustersOf(f)' = ClustersOf(f) /\ Held(f)' = {t}
    BY <1>3, <1>6 DEF ClustersOf, Held, Holding
  <1>11. Apart(f, r)'
    BY <1>1, <1>3, <1>6, <1>10, EmptyChain DEF FileOK, Apart
  <1>12. Own(f, r)' = Own(f, r) /\ Last(s) \in Own(f, r)
    BY <1>1, <1>4, <1>5, <1>10 DEF Own
  <1>13. (NoFaults' => NoFaults) /\ (\A g \in Files \ {f} : chain'[g] = chain[g])
    BY <1>6 DEF LinkPrevious, NoFaults, faultVars
  <1>14. FileOK(f, r)'
    BY <1>3, <1>8, <1>9, <1>11 DEF FileOK
  <1>15. QED
    BY <1>3, <1>6, <1>12, <1>13, <1>14 DEF StepOn

LEMMA AppendFacts ==
  ASSUME NEW s \in Seq(Clusters), NEW t \in Clusters
  PROVE  /\ Append(s, t) \in Seq(Clusters) /\ Append(s, t) # <<>>
         /\ Len(Append(s, t)) = Len(s) + 1 /\ Last(Append(s, t)) = t
         /\ \A i \in 1 .. Len(s) : Append(s, t)[i] = s[i]
         /\ Append(s, t)[Len(s) + 1] = t
         /\ Members(Append(s, t)) = Members(s) \cup {t}
         /\ Distinct(s) /\ t \notin Members(s) => Distinct(Append(s, t))
  <1>1. /\ Append(s, t) \in Seq(Clusters) /\ Len(Append(s, t)) = Len(s) + 1
        /\ \A i \in 1 .. Len(s) : Append(s, t)[i] = s[i]
        /\ Append(s, t)[Len(s) + 1] = t
    BY AppendProperties
  <1>2. Len(s) \in Nat /\ Append(s, t) # <<>> /\ Last(Append(s, t)) = t
    BY <1>1, SeqFacts DEF Last
  <1> DEFINE a == Append(s, t)
  <1> HIDE DEF a
  <1>3. \A i \in 1 .. Len(a) : i \in 1 .. Len(s) \/ i = Len(s) + 1
    BY <1>1, <1>2 DEF a
  <1>4. \A i \in 1 .. Len(s) : i \in 1 .. Len(a)
    BY <1>1, <1>2 DEF a
  <1>5. Len(s) + 1 \in 1 .. Len(a)
    BY <1>1, <1>2 DEF a
  <1>6. Members(a) = Members(s) \cup {t}
    BY <1>1, <1>3, <1>4, <1>5 DEF Members, a
  <1>7. Distinct(s) /\ t \notin Members(s) => Distinct(a)
    BY <1>1, <1>3 DEF Members, Distinct, a
  <1>8. QED
    BY <1>1, <1>2, <1>6, <1>7 DEF a

LEMMA FinishAppendStep ==
  ASSUME TypeInv, NEW f \in Files, NEW r \in Seq(Clusters), FileOK(f, r), FinishAppend(f)
  PROVE  StepOn(f, r, r)
  <1> USE DEF TypeInv
  <1>1. PICK t : t = op[f].target
    OBVIOUS
  <1>2. PICK s : s = chain[f]
    OBVIOUS
  <1>3. PICK a : a = Append(s, t)
    OBVIOUS
  <1>4. /\ op[f].pc = "count" /\ ~op[f].err /\ r = <<>> /\ Held(f) = {t}
        /\ t \in Clusters /\ fat[t] = EOC /\ t \notin Members(s)
        /\ s \in Seq(Clusters) /\ ClustersOf(f) = Members(s)
    BY <1>1, <1>2, ChainType
       DEF FinishAppend, FileOK, Apart, Lost, Position, Held, Holding, Links, InOperation
  <1>5. /\ (\A g \in Files \ {f} : op'[g] = op[g]) /\ op'[f] = Idle
        /\ op'[f].pc = "idle" /\ ~op'[f].err
    BY IdleType, Replaced DEF FinishAppend
  <1>6. /\ chain'[f] = a /\ (\A g \in Files \ {f} : chain'[g] = chain[g]) /\ fat' = fat
        /\ (NoFaults' => NoFaults)
    BY <1>1, <1>2, <1>3 DEF FinishAppend, StateOK, NoFaults, faultVars
  <1>7. /\ a \in Seq(Clusters) /\ a # <<>> /\ Len(a) = Len(s) + 1 /\ Last(a) = t
        /\ (\A i \in 1 .. Len(s) : a[i] = s[i]) /\ a[Len(s) + 1] = t
        /\ Members(a) = Members(s) \cup {t} /\ Distinct(a) /\ Len(s) \in Nat
    BY <1>2, <1>3, <1>4, AppendFacts, SeqFacts DEF FileOK, Apart
  <1>8. Linked(a)
    <2>1. ASSUME NEW i \in 1 .. Len(a) - 1 PROVE fat[a[i]] = a[i + 1]
      <3>1. i \in 1 .. Len(s) /\ a[i] = s[i]
        BY <1>7
      <3>2. CASE i = Len(s)
        <4>1. s # <<>> /\ Last(s) = s[i] /\ fat[Last(s)] = t
          BY <1>1, <1>2, <1>4, <3>1, <3>2, SeqFacts DEF FileOK, Links
        <4>2. QED
          BY <4>1, <3>1, <3>2, <1>7
      <3>3. CASE i # Len(s)
        <4>1. i \in 1 .. Len(s) - 1 /\ i + 1 \in 1 .. Len(s)
          BY <3>1, <3>3, <1>7
        <4>2. fat[s[i]] = s[i + 1]
          BY <4>1, <1>2, <1>4 DEF FileOK, Links, Linked
        <4>3. QED
          BY <4>1, <4>2, <3>1, <1>7
      <3>4. QED
        BY <3>2, <3>3
    <2>2. QED
      BY <2>1 DEF Linked
  <1>9. Linked(a)'
    BY <1>6, <1>8 DEF Linked
  <1>10. Links(f, r)'
    BY <1>4, <1>5, <1>6, <1>7, <1>9, EmptyChain DEF Links
  <1>11. Position(f, r)'
    BY <1>4, <1>5 DEF Position
  <1>12. ClustersOf(f)' = Members(a) /\ Held(f)' = {}
    BY <1>5, <1>6 DEF ClustersOf, Members, Held, Holding
  <1>13. Apart(f, r)'
    BY <1>4, <1>5, <1>6, <1>7, <1>12, EmptyChain DEF Apart, Holding
  <1>14. Own(f, r)' = Own(f, r)
    BY <1>4, <1>7, <1>12 DEF Own
  <1>15. FileOK(f, r)'
    BY <1>5, <1>10, <1>11, <1>13 DEF FileOK
  <1>16. QED
    BY <1>5, <1>6, <1>14, <1>15 DEF StepOn

LEMMA TruncateStep ==
  ASSUME TypeInv, NEW f \in Files, NEW r \in Seq(Clusters), FileOK(f, r),
         (\E k \in 1 .. Len(chain[f]) : StartTruncate(f, k)) \/ TruncateNext(f)
  PROVE  StepOn(f, r, r)
  <1> USE DEF TypeInv
  <1>0. chain[f] \in Seq(Clusters) /\ Len(chain[f]) \in Nat
    BY ChainType, SeqFacts
  <1>1. ASSUME NEW k \in 1 .. Len(chain[f]), StartTruncate(f, k) PROVE StepOn(f, r, r)
    <2>1. /\ op'[f].pc = "tnext" /\ op'[f].at = chain[f][k] /\ op'[f].keep = k /\ ~op'[f].err
          /\ (\A g \in Files \ {f} : op'[g] = op[g])
      BY <1>1, TruncateStarts
    <2>2. op[f].pc = "idle" /\ ~op[f].err /\ r = <<>>
      BY <1>1, IdleType DEF StartTruncate, CanStart, FileOK, Position
    <2>3. Held(f)' = Held(f)
      BY <2>1, <2>2 DEF Held, Holding
    <2>4. Links(f, r)' /\ Position(f, r)'
      BY <1>1, <2>1, <2>2 DEF StartTruncate, FileOK, Links, Linked, Position, Last
    <2>5. QED
      BY <1>1, <2>1, <2>2, <2>3, <2>4, MoveStep DEF StartTruncate, NoFaults, faultVars
  <1>2. CASE TruncateNext(f)
    <2>1. /\ op'[f].pc = "teoc" /\ op'[f].at = NextOf(op[f].at) /\ op'[f].keep = op[f].keep
          /\ op'[f].err = op[f].err
          /\ (\A g \in Files \ {f} : op'[g] = op[g])
      BY <1>2, TruncateMoves
    <2>2. op[f].pc = "tnext" /\ ~op[f].err /\ r = <<>>
      BY <1>2 DEF TruncateNext, FileOK, Lost, Position
    <2>3. Held(f)' = Held(f)
      BY <2>1, <2>2 DEF Held, Holding
    <2>4. PICK k \in 1 .. Len(chain[f]) : k = op[f].keep
      BY <2>2 DEF InOperation
    <2>5. NextOf(chain[f][k]) = IF k < Len(chain[f]) THEN chain[f][k + 1] ELSE None
      <3>1. CASE k < Len(chain[f])
        <4>1. k \in 1 .. Len(chain[f]) - 1 /\ k + 1 \in 1 .. Len(chain[f])
          BY <1>0, <3>1
        <4>2. fat[chain[f][k]] = chain[f][k + 1] /\ chain[f][k + 1] \in Clusters
          BY <4>1, <2>2, <1>0, SeqFacts DEF FileOK, Links, Linked
        <4>3. QED
          BY <4>2, <3>1 DEF NextOf, NextIn
      <3>2. CASE ~(k < Len(chain[f]))
        <4>1. k = Len(chain[f]) /\ chain[f] # <<>>
          BY <1>0, <3>2, SeqFacts
        <4>2. fat[chain[f][k]] = EOC
          BY <4>1, <2>2 DEF FileOK, Links, Last
        <4>3. QED
          BY <4>2, <3>2, Numbers DEF NextOf, NextIn
      <3>3. QED
        BY <3>1, <3>2
    <2>6. Links(f, r)'
      BY <1>2, <2>1, <2>2 DEF TruncateNext, FileOK, Links, Linked, Last
    <2>7. Position(f, r)'
      BY <1>2, <2>1, <2>2, <2>4, <2>5 DEF TruncateNext, FileOK, Position
    <2>8. QED
      BY <1>2, <2>1, <2>2, <2>3, <2>6, <2>7, MoveStep DEF TruncateNext, NoFaults, faultVars
  <1>3. QED
    BY <1>1, <1>2

\* A chain cut after its k-th cluster.
LEMMA SplitFacts ==
  ASSUME NEW s \in Seq(Clusters), NEW k \in 1 .. Len(s)
  PROVE  LET a == SubSeq(s, 1, k)
             b == SubSeq(s, k + 1, Len(s))
         IN  /\ a \in Seq(Clusters) /\ Len(a) = k /\ (\A i \in 1 .. k : a[i] = s[i])
             /\ b \in Seq(Clusters) /\ Len(b) = Len(s) - k
             /\ (\A i \in 1 .. Len(s) - k : b[i] = s[k + i])
             /\ Members(s) = Members(a) \cup Members(b)
             /\ Distinct(s) => Distinct(a) /\ Distinct(b) /\ Members(a) \cap Members(b) = {}
  <1> DEFINE a == SubSeq(s, 1, k)
             b == SubSeq(s, k + 1, Len(s))
  <1>1. Len(s) \in Nat /\ (\A i \in 1 .. Len(s) : s[i] \in Clusters)
    BY SeqFacts
  <1>2. a \in Seq(Clusters) /\ Len(a) = k /\ (\A i \in 1 .. k : a[i] = s[i])
    BY <1>1
  <1>3. /\ b \in Seq(Clusters) /\ Len(b) = Len(s) - k
        /\ (\A i \in 1 .. Len(s) - k : b[i] = s[k + i])
    BY <1>1
  <1> HIDE DEF a, b
  <1>4. Members(s) = Members(a) \cup Members(b)
    <2>1. ASSUME NEW i \in 1 .. Len(s) PROVE s[i] \in Members(a) \cup Members(b)
      <3>1. CASE i <= k
        <4>1. i \in 1 .. k
          BY <3>1, <1>1
        <4>2. QED
          BY <4>1, <1>2 DEF Members
      <3>2. CASE ~(i <= k)
        <4>1. i - k \in 1 .. Len(s) - k /\ k + (i - k) = i
          BY <3>2, <1>1
        <4>2. b[i - k] = s[i]
          BY <4>1, <1>3
        <4>3. QED
          BY <4>1, <4>2, <1>3 DEF Members
      <3>3. QED
        BY <3>1, <3>2
    <2>2. (\A i \in 1 .. k : i \in 1 .. Len(s)) /\ (\A i \in 1 .. Len(s) - k : k + i \in 1 .. Len(s))
      BY <1>1
    <2>3. QED
      BY <2>1, <2>2, <1>2, <1>3 DEF Members
  <1>5. ASSUME Distinct(s)
        PROVE  Distinct(a) /\ Distinct(b) /\ Members(a) \cap Members(b) = {}
    <2>1. (\A i \in 1 .. k : i \in 1 .. Len(s)) /\ (\A i \in 1 .. Len(s) - k : k + i \in 1 .. Len(s))
      BY <1>1
    <2>2. Distinct(a)
      BY <1>2, <1>5, <2>1 DEF Distinct
    <2>3. Distinct(b)
      <3>1. ASSUME NEW i \in 1 .. Len(s) - k, NEW j \in 1 .. Len(s) - k, b[i] = b[j] PROVE i = j
        <4>1. k + i = k + j
          BY <3>1, <1>3, <1>5, <2>1 DEF Distinct
        <4>2. QED
          BY <4>1
      <3>2. QED
        BY <3>1, <1>3 DEF Distinct
    <2>4. ASSUME NEW i \in 1 .. k, NEW j \in 1 .. Len(s) - k PROVE a[i] # b[j]
      <3>1. i # k + j
        BY <1>1
      <3>2. QED
        BY <3>1, <2>1, <1>2, <1>3, <1>5 DEF Distinct
    <2>5. QED
      BY <2>2, <2>3, <2>4, <1>2, <1>3 DEF Members
  <1>6. QED
    BY <1>2, <1>3, <1>4, <1>5 DEF a, b

LEMMA TruncateEndStep ==
  ASSUME TypeInv, Whole, NEW f \in Files, NEW r \in Seq(Clusters), FileOK(f, r), TruncateEnd(f)
  PROVE  \E q \in Seq(Clusters) : StepOn(f, r, q)
  <1> USE DEF TypeInv
  <1>1. PICK s : s = chain[f]
    OBVIOUS
  <1>2. PICK k : k = op[f].keep
    OBVIOUS
  <1>3. PICK a : a = SubSeq(s, 1, k)
    OBVIOUS
  <1>4. PICK b : b = SubSeq(s, k + 1, Len(s))
    OBVIOUS
  <1>5. /\ s \in Seq(Clusters) /\ ClustersOf(f) = Members(s) /\ k \in 1 .. Len(s)
        /\ Len(s) \in Nat /\ (\A i \in 1 .. Len(s) : s[i] \in Clusters)
        /\ r = <<>> /\ op[f].pc = "teoc" /\ Distinct(s)
    BY <1>1, <1>2, ChainType, SeqFacts
       DEF TruncateEnd, InOperation, FileOK, Lost, Apart, Position
  <1>6. /\ a \in Seq(Clusters) /\ Len(a) = k /\ (\A i \in 1 .. k : a[i] = s[i])
        /\ b \in Seq(Clusters) /\ Len(b) = Len(s) - k
        /\ (\A i \in 1 .. Len(s) - k : b[i] = s[k + i])
        /\ Members(s) = Members(a) \cup Members(b)
        /\ Distinct(a) /\ Distinct(b) /\ Members(a) \cap Members(b) = {}
    BY <1>3, <1>4, <1>5, SplitFacts
  <1>7. /\ (\A g \in Files \ {f} : op'[g] = op[g])
        /\ op'[f].pc = "fnext" /\ op'[f].at = op[f].at /\ op'[f].err = op[f].err
        /\ op'[f].target = op[f].target
    BY Moved DEF TruncateEnd, Places
  <1>8. /\ chain'[f] = a /\ (\A g \in Files \ {f} : chain'[g] = chain[g])
        /\ fat'[s[k]] = EOC /\ (\A c \in Clusters \ {s[k]} : fat'[c] = fat[c])
        /\ (NoFaults' <=> NoFaults)
    <2>1. fat' = [fat EXCEPT ![chain[f][op[f].keep]] = EOC]
      BY WholeWrites
    <2>2. QED
      BY <1>1, <1>2, <1>3, <1>5, <2>1 DEF TruncateEnd, StateOK, NoFaults, faultVars
  <1>9. ClustersOf(f)' = Members(a) /\ s[k] \in Members(s)
    BY <1>5, <1>8 DEF ClustersOf, Members
  <1>10. CASE ~op[f].err
    <2>1. Held(f) = {} /\ Held(f)' = {}
      BY <1>5, <1>7, <1>10 DEF Held, Holding
    <2>2. Own(f, b)' = Own(f, r)
      BY <2>1, <1>5, <1>6, <1>9, EmptyChain DEF Own
    <2>3. Linked(s) /\ fat[s[Len(s)]] = EOC
      BY <1>1, <1>5, <1>10, SeqFacts DEF FileOK, Links
    <2>4. \A i \in 1 .. Len(s) : i # k => fat'[s[i]] = fat[s[i]]
      BY <1>5, <1>8 DEF Distinct
    <2>5. Linked(a)'
      <3>1. ASSUME NEW i \in 1 .. Len(a) - 1 PROVE fat'[a[i]] = a[i + 1]
        <4>1. i \in 1 .. Len(s) - 1 /\ i \in 1 .. Len(s) /\ i # k /\ i \in 1 .. k /\ i + 1 \in 1 .. k
          BY <1>5, <1>6
        <4>2. QED
          BY <4>1, <2>3, <2>4, <1>6 DEF Linked
      <3>2. QED
        BY <3>1 DEF Linked
    <2>6. Linked(b)'
      <3>1. ASSUME NEW i \in 1 .. Len(b) - 1 PROVE fat'[b[i]] = b[i + 1]
        <4>1. /\ k + i \in 1 .. Len(s) - 1 /\ k + i \in 1 .. Len(s) /\ k + i # k
              /\ i \in 1 .. Len(s) - k /\ i + 1 \in 1 .. Len(s) - k /\ (k + i) + 1 = k + (i + 1)
          BY <1>5, <1>6
        <4>2. fat'[s[k + i]] = s[(k + i) + 1]
          BY <4>1, <2>3, <2>4 DEF Linked
        <4>3. b[i] = s[k + i] /\ b[i + 1] = s[k + (i + 1)]
          BY <4>1, <1>6
        <4>4. QED
          BY <4>1, <4>2, <4>3
      <3>2. QED
        BY <3>1 DEF Linked
    <2>7. a # <<>> => fat'[Last(a)] = EOC
      BY <1>5, <1>6, <1>8, SeqFacts DEF Last
    <2>8. b # <<>> => fat'[Last(b)] = EOC
      <3>1. ASSUME b # <<>> PROVE fat'[Last(b)] = EOC
        <4>1. Len(b) \in Nat /\ Len(b) # 0 /\ Last(b) = b[Len(b)]
          BY <3>1, <1>6, SeqFacts
        <4>2. /\ Len(b) \in 1 .. Len(s) - k /\ k + Len(b) = Len(s)
              /\ Len(s) \in 1 .. Len(s) /\ Len(s) # k
          BY <4>1, <1>5, <1>6
        <4>3. Last(b) = s[Len(s)]
          BY <4>1, <4>2, <1>6
        <4>4. QED
          BY <4>2, <4>3, <2>3, <2>4
      <3>2. QED
        BY <3>1
    <2>9. Links(f, b)'
      BY <1>7, <1>8, <2>5, <2>6, <2>7, <2>8 DEF Links
    <2>10. op[f].at = IF b = <<>> THEN None ELSE b[1]
      <3>1. op[f].at = IF k < Len(s) THEN s[k + 1] ELSE None
        BY <1>1, <1>2, <1>5, <1>10 DEF FileOK, Position
      <3>2. b = <<>> <=> ~(k < Len(s))
        BY <1>5, <1>6, SeqFacts
      <3>3. k < Len(s) => b[1] = s[k + 1]
        <4>1. k < Len(s) => 1 \in 1 .. Len(s) - k
          BY <1>5
        <4>2. QED
          BY <4>1, <1>6
      <3>4. QED
        BY <3>1, <3>2, <3>3
    <2>11. Position(f, b)'
      BY <1>7, <2>10 DEF Position
    <2>12. Apart(f, b)'
      BY <1>6, <1>7, <1>8, <1>9 DEF Apart, Holding
    <2>13. FileOK(f, b)'
      BY <1>7, <1>10, <2>9, <2>11, <2>12 DEF FileOK
    <2>14. s[k] \in Own(f, r)
      BY <1>5, <1>9 DEF Own
    <2>15. StepOn(f, r, b)
      BY <1>7, <1>8, <2>2, <2>13, <2>14 DEF StepOn
    <2>16. QED
      BY <2>15, <1>6
  <1>11. CASE op[f].err
    <2>1. Lost(f, r) /\ Held(f) = {op[f].target} /\ Held(f)' = {op[f].target}
      BY <1>7, <1>11 DEF FileOK, Held
    <2>2. FileOK(f, r)'
      BY <1>5, <1>6, <1>7, <1>8, <1>9, <1>11, <2>1, EmptyChain DEF FileOK, Apart, Lost
    <2>3. \A c \in Own(f, r)' : c \in Own(f, r)
      BY <1>5, <1>6, <1>9, <2>1 DEF Own
    <2>4. s[k] \in Own(f, r) /\ ~NoFaults'
      BY <1>5, <1>8, <1>9, <2>1 DEF Own, Lost
    <2>5. StepOn(f, r, r)
      BY <1>7, <1>8, <2>2, <2>3, <2>4 DEF StepOn
    <2>6. QED
      BY <2>5
  <1>12. QED
    BY <1>10, <1>11

LEMMA ReleaseStartStep ==
  ASSUME TypeInv, NEW f \in Files, NEW r \in Seq(Clusters), FileOK(f, r), StartRelease(f)
  PROVE  \E q \in Seq(Clusters) : StepOn(f, r, q)
  <1> USE DEF TypeInv
  <1>1. PICK s : s = chain[f]
    OBVIOUS
  <1>2. /\ s \in Seq(Clusters) /\ ClustersOf(f) = Members(s) /\ s # <<>> /\ s[1] \in Members(s)
        /\ op[f].pc = "idle" /\ ~op[f].err /\ r = <<>>
    BY <1>1, ChainType, SeqFacts, IdleType DEF StartRelease, CanStart, FileOK, Position
  <1>3. /\ (\A g \in Files \ {f} : op'[g] = op[g])
        /\ op'[f].pc \in {"collect", "fnext"} /\ op'[f].at = s[1] /\ op'[f].target = s[1]
        /\ ~op'[f].err
    BY <1>1, ReleaseStarts
  <1>4. /\ chain'[f] = <<>> /\ (\A g \in Files \ {f} : chain'[g] = chain[g]) /\ fat' = fat
        /\ (NoFaults' <=> NoFaults)
    BY DEF StartRelease, StateOK, NoFaults, faultVars
  <1>5. Held(f) = {} /\ Held(f)' = {} /\ ClustersOf(f)' = {}
    BY <1>2, <1>3, <1>4, EmptyChain DEF Held, Holding, ClustersOf, Members
  <1>6. Own(f, s)' = Own(f, r)
    BY <1>2, <1>5, EmptyChain DEF Own
  <1>7. Linked(s)' /\ fat'[Last(s)] = EOC
    BY <1>1, <1>2, <1>4 DEF FileOK, Links, Linked
  <1>8. Links(f, s)'
    BY <1>3, <1>4, <1>7, EmptyChain DEF Links
  <1>9. Position(f, s)'
    BY <1>2, <1>3 DEF Position
  <1>10. Apart(f, s)'
    BY <1>1, <1>2, <1>3, <1>4, <1>5, EmptyChain DEF FileOK, Apart, Holding
  <1>11. FileOK(f, s)'
    BY <1>3, <1>8, <1>9, <1>10 DEF FileOK
  <1>12. StepOn(f, r, s)
    BY <1>3, <1>4, <1>6, <1>11 DEF StepOn
  <1>13. QED
    BY <1>2, <1>12

LEMMA CollectStep ==
  ASSUME TypeInv, NEW f \in Files, NEW r \in Seq(Clusters), FileOK(f, r), Collect(f)
  PROVE  StepOn(f, r, r)
  <1> USE DEF TypeInv
  <1>1. /\ op[f].pc = "collect" /\ ~op[f].err /\ r # <<>> /\ op[f].target = r[1]
        /\ op[f].at \in Members(r) /\ Linked(r) /\ fat[Last(r)] = EOC
    BY DEF Collect, FileOK, Lost, Links, Position
  <1>2. /\ (\A g \in Files \ {f} : op'[g] = op[g])
        /\ op'[f].err = op[f].err /\ op'[f].target = op[f].target
        /\ \/ op'[f].pc = "fnext" /\ op'[f].at = op[f].target
           \/ op'[f].pc = "collect" /\ op'[f].at = NextOf(op[f].at) /\ NextOf(op[f].at) # None
    BY <1>1, CollectMoves, Numbers
  <1>3. Held(f)' = Held(f)
    BY <1>1, <1>2 DEF Held, Holding
  <1>4. NextOf(op[f].at) # None => NextOf(op[f].at) \in Members(r)
    <2>1. PICK i \in 1 .. Len(r) : op[f].at = r[i]
      BY <1>1 DEF Members
    <2>2. CASE i = Len(r)
      <3>1. fat[op[f].at] = EOC
        BY <1>1, <2>1, <2>2, SeqFacts
      <3>2. QED
        BY <3>1, Numbers DEF NextOf, NextIn
    <2>3. CASE i # Len(r)
      <3>1. i \in 1 .. Len(r) - 1 /\ i + 1 \in 1 .. Len(r)
        BY <2>1, <2>3, SeqFacts
      <3>2. fat[r[i]] = r[i + 1] /\ r[i + 1] \in Members(r)
        BY <3>1, <1>1 DEF Linked, Members
      <3>3. QED
        BY <3>2, <2>1 DEF NextOf, NextIn
    <2>4. QED
      BY <2>2, <2>3
  <1>5. Links(f, r)'
    BY <1>1, <1>2 DEF Collect, FileOK, Links, Linked, Last
  <1>6. Position(f, r)'
    BY <1>1, <1>2, <1>4 DEF Position
  <1>7. QED
    BY <1>1, <1>2, <1>3, <1>5, <1>6, MoveStep DEF Collect, NoFaults, faultVars

LEMMA FreeNextStep ==
  ASSUME TypeInv, NEW f \in Files, NEW r \in Seq(Clusters), FileOK(f, r), FreeNext(f)
  PROVE  \E q \in Seq(Clusters) : StepOn(f, r, q)
  <1> USE DEF TypeInv
  <1>1. op[f].pc = "fnext" /\ op[f].at # None /\ op[f].at \in Clusters \cup {None}
    BY DEF FreeNext, InOperation
  <1>2. /\ (\A g \in Files \ {f} : op'[g] = op[g])
        /\ op'[f].pc = "ffree" /\ op'[f].target = op[f].at /\ op[f].at \in Clusters
        /\ op'[f].at = (IF op[f].err THEN op[f].at ELSE NextOf(op[f].at))
        /\ op'[f].err = op[f].err
    BY <1>1, FreeMoves
  <1>3. UNCHANGED <<fat, chain>> /\ (NoFaults' <=> NoFaults) /\ ClustersOf(f)' = ClustersOf(f)
    BY DEF FreeNext, NoFaults, faultVars, ClustersOf
  <1>4. CASE ~op[f].err
    <2>1. PICK k \in 1 .. Len(r) : k = 1 /\ r # <<>> /\ op[f].at = r[1]
      BY <1>1, <1>4, SeqFacts DEF FileOK, Position
    <2>2. PICK b : b = SubSeq(r, k + 1, Len(r))
      OBVIOUS
    <2>3. PICK a : a = SubSeq(r, 1, k)
      OBVIOUS
    <2>4. /\ Len(r) \in Nat /\ Distinct(r) /\ Linked(r) /\ fat[Last(r)] = EOC
          /\ Last(r) = r[Len(r)] /\ (\A i \in 1 .. Len(r) : r[i] \in Clusters)
      BY <1>4, <2>1, SeqFacts DEF FileOK, Apart, Links
    <2>5. /\ Len(a) = 1 /\ a[1] = r[1]
          /\ b \in Seq(Clusters) /\ Len(b) = Len(r) - 1 /\ (\A i \in 1 .. Len(r) - 1 : b[i] = r[1 + i])
          /\ Members(r) = Members(a) \cup Members(b)
          /\ Distinct(b) /\ Members(a) \cap Members(b) = {}
      BY <2>1, <2>2, <2>3, <2>4, SplitFacts
    <2>6. Members(a) = {r[1]}
      BY <2>5 DEF Members
    <2>7. Held(f) = {} /\ Held(f)' = {r[1]}
      BY <1>1, <1>2, <1>4, <2>1 DEF Held, Holding
    <2>8. Own(f, b)' = Own(f, r)
      BY <2>5, <2>6, <2>7, <1>3 DEF Own
    <2>9. Linked(b)
      <3>1. ASSUME NEW i \in 1 .. Len(b) - 1 PROVE fat[b[i]] = b[i + 1]
        <4>1. /\ 1 + i \in 1 .. Len(r) - 1 /\ i \in 1 .. Len(r) - 1 /\ i + 1 \in 1 .. Len(r) - 1
              /\ (1 + i) + 1 = 1 + (i + 1)
          BY <2>4, <2>5
        <4>2. fat[r[1 + i]] = r[(1 + i) + 1]
          BY <4>1, <2>4 DEF Linked
        <4>3. b[i] = r[1 + i] /\ b[i + 1] = r[1 + (i + 1)]
          BY <4>1, <2>5
        <4>4. QED
          BY <4>1, <4>2, <4>3
      <3>2. QED
        BY <3>1 DEF Linked
    <2>10. b # <<>> => fat[Last(b)] = EOC
      <3>1. ASSUME b # <<>> PROVE fat[Last(b)] = EOC
        <4>1. Len(b) # 0 /\ Last(b) = b[Len(b)]
          BY <3>1, <2>5, SeqFacts
        <4>2. Len(b) \in 1 .. Len(r) - 1 /\ 1 + Len(b) = Len(r)
          BY <4>1, <2>4, <2>5
        <4>3. QED
          BY <4>1, <4>2, <2>4, <2>5
      <3>2. QED
        BY <3>1
    <2>11. NextOf(r[1]) = IF b = <<>> THEN None ELSE b[1]
      <3>1. CASE Len(r) = 1
        <4>1. b = <<>> /\ fat[r[1]] = EOC
          BY <3>1, <2>4, <2>5, SeqFacts
        <4>2. QED
          BY <4>1, Numbers DEF NextOf, NextIn
      <3>2. CASE Len(r) # 1
        <4>0. PICK n : n = Len(r)
          OBVIOUS
        <4>1. k \in 1 .. Len(r) - 1 /\ k + 1 \in 1 .. Len(r)
          <5>1. n \in Nat /\ n # 1 /\ k = 1 /\ k \in 1 .. n
            BY <3>2, <4>0, <2>1, <2>4
          <5>2. k \in 1 .. n - 1 /\ k + 1 \in 1 .. n
            BY <5>1
          <5>3. QED
            BY <5>2, <4>0
        <4>2. fat[r[k]] = r[k + 1] /\ r[k + 1] \in Clusters
          BY <4>1, <2>4 DEF Linked
        <4>3. b[k] = r[1 + k] /\ 1 + k = k + 1 /\ b # <<>>
          BY <4>1, <2>1, <2>4, <2>5, SeqFacts
        <4>4. QED
          BY <4>2, <4>3, <2>1 DEF NextOf, NextIn
      <3>3. QED
        BY <3>1, <3>2
    <2>12. fat[r[1]] # Free
      BY <1>4, <2>5, <2>6, OwnNotFree DEF Own
    <2>13. Links(f, b)'
      <3>1. Linked(chain[f]) /\ (chain[f] # <<>> => fat[Last(chain[f])] = EOC)
        BY <1>1, <1>4 DEF FileOK, Links
      <3>2. Linked(b)' /\ Linked(chain[f])'
        BY <1>3, <2>9, <3>1 DEF Linked
      <3>3. QED
        BY <1>2, <1>3, <2>1, <2>10, <2>12, <3>1, <3>2 DEF Links
    <2>14. Position(f, b)'
      BY <1>2, <1>4, <2>1, <2>11 DEF Position
    <2>15. Apart(f, b)'
      BY <1>2, <1>3, <2>1, <2>5, <2>6 DEF FileOK, Apart
    <2>16. FileOK(f, b)'
      BY <1>2, <1>4, <2>13, <2>14, <2>15 DEF FileOK
    <2>17. StepOn(f, r, b)
      BY <1>2, <1>3, <2>8, <2>16 DEF StepOn
    <2>18. QED
      BY <2>5, <2>17
  <1>5. CASE op[f].err
    <2>1. Lost(f, r) /\ Held(f) = {op[f].target} /\ Held(f)' = {op[f].target}
      BY <1>2, <1>5 DEF FileOK, Held, Lost
    <2>2. FileOK(f, r)'
      BY <1>2, <1>3, <1>5, <2>1 DEF FileOK, Apart, Lost
    <2>3. Own(f, r)' = Own(f, r)
      BY <1>3, <2>1 DEF Own
    <2>4. StepOn(f, r, r)
      BY <1>2, <1>3, <2>2, <2>3 DEF StepOn
    <2>5. QED
      BY <2>4
  <1>6. QED
    BY <1>4, <1>5

LEMMA FreeWriteStep ==
  ASSUME TypeInv, Whole, NEW f \in Files, NEW r \in Seq(Clusters), FileOK(f, r), FreeWrite(f)
  PROVE  StepOn(f, r, r)
  <1> USE DEF TypeInv
  <1>1. PICK t : t = op[f].target
    OBVIOUS
  <1>2. PICK s : s = chain[f]
    OBVIOUS
  <1>3. /\ op[f].pc = "ffree" /\ t \in Clusters /\ Held(f) = {t}
        /\ s \in Seq(Clusters) /\ ClustersOf(f) = Members(s)
    BY <1>1, <1>2, ChainType DEF FreeWrite, InOperation, Held, Holding
  <1>4. /\ (\A g \in Files \ {f} : op'[g] = op[g])
        /\ op'[f].pc = "fnext" /\ op'[f].at = op[f].at /\ op'[f].err = op[f].err
        /\ op'[f].target = t
    BY <1>1, FreeWrites
  <1>5. /\ chain' = chain /\ fat'[t] = Free /\ (\A c \in Clusters \ {t} : fat'[c] = fat[c])
        /\ (NoFaults' <=> NoFaults) /\ ClustersOf(f)' = ClustersOf(f)
    <2>1. fat' = [fat EXCEPT ![op[f].target] = Free]
      BY WholeWrites
    <2>2. QED
      BY <1>1, <1>3, <2>1 DEF FreeWrite, StateOK, NoFaults, faultVars, ClustersOf
  <1>6. CASE ~op[f].err
    <2>1. t \notin Members(s) /\ t \notin Members(r)
      BY <1>1, <1>3, <1>6 DEF FileOK, Apart, Holding
    <2>2. ASSUME NEW u \in Seq(Clusters), Linked(u), t \notin Members(u)
          PROVE  Linked(u)' /\ (u # <<>> => fat'[Last(u)] = fat[Last(u)])
      <3>1. \A i \in 1 .. Len(u) : fat'[u[i]] = fat[u[i]]
        BY <2>2, <1>5, SeqFacts DEF Members
      <3>2. \A i \in 1 .. Len(u) - 1 : i \in 1 .. Len(u)
        BY SeqFacts
      <3>3. Linked(u)'
        BY <2>2, <3>1, <3>2 DEF Linked
      <3>4. u # <<>> => Last(u) \in Members(u) /\ Last(u) \in Clusters
        BY SeqFacts
      <3>5. QED
        BY <3>3, <3>4, <2>2, <1>5
    <2>3. Links(f, r)'
      BY <1>2, <1>3, <1>4, <1>5, <1>6, <2>1, <2>2 DEF FileOK, Links
    <2>4. Position(f, r)'
      BY <1>3, <1>4, <1>6 DEF FileOK, Position
    <2>5. Held(f)' = {}
      BY <1>4, <1>6 DEF Held, Holding
    <2>6. Apart(f, r)'
      BY <1>4, <1>5, <2>5 DEF FileOK, Apart, Holding
    <2>7. FileOK(f, r)'
      BY <1>4, <1>6, <2>3, <2>4, <2>6 DEF FileOK
    <2>8. Own(f, r) = Own(f, r)' \cup {t}
      BY <1>3, <1>5, <2>5 DEF Own
    <2>9. QED
      BY <1>4, <1>5, <2>7, <2>8 DEF StepOn
  <1>7. CASE op[f].err
    <2>1. Lost(f, r) /\ Held(f)' = {t} /\ ~NoFaults
      BY <1>4, <1>7 DEF FileOK, Held, Lost
    <2>2. FileOK(f, r)'
      BY <1>1, <1>4, <1>5, <1>7, <2>1 DEF FileOK, Apart, Lost
    <2>3. Own(f, r)' = Own(f, r) /\ t \in Own(f, r)
      BY <1>3, <1>5, <2>1 DEF Own
    <2>4. QED
      BY <1>4, <1>5, <2>1, <2>2, <2>3 DEF StepOn
  <1>8. QED
    BY <1>6, <1>7

\* The steps that leave the table and the chains alone and release nothing.
LEMMA BookStep ==
  ASSUME TypeInv, NEW f \in Files, NEW r \in Seq(Clusters), FileOK(f, r),
         SetAllocated(f) \/ FreeEnd(f) \/ SetFree(f)
  PROVE  StepOn(f, r, r)
  <1> USE DEF TypeInv
  <1>1. op[f].pc \in {"bit", "fnext", "fbits"} /\ ~op[f].err /\ op[f].target = op[f].target
    BY Numbers DEF SetAllocated, FreeEnd, SetFree, FileOK, Lost
  <1>2. r = <<>> \/ op[f].pc # "fnext"
    <2>1. op[f].pc = "fnext" => op[f].at = None /\ op[f].at = IF r = <<>> THEN None ELSE r[1]
      BY <1>1 DEF SetAllocated, FreeEnd, SetFree, FileOK, Position
    <2>2. r # <<>> => r[1] \in Clusters
      BY SeqFacts
    <2>3. QED
      BY <2>1, <2>2, Numbers
  <1>3. r = <<>>
    BY <1>1, <1>2 DEF FileOK, Position
  <1>4. PICK p \in {"count", "tcount", "fbits", "fcount"} :
          /\ op' = [op EXCEPT ![f].pc = p]
          /\ p = "count" <=> op[f].pc = "bit"
    BY FreeEnds DEF SetAllocated, FreeEnd, SetFree
  <1>5. /\ (\A g \in Files \ {f} : op'[g] = op[g])
        /\ op'[f].pc = p /\ op'[f].target = op[f].target /\ ~op'[f].err
    BY <1>1, <1>4, Moved DEF Places
  <1>6. UNCHANGED <<fat, chain>> /\ (NoFaults' => NoFaults)
    BY DEF SetAllocated, FreeEnd, SetFree, NoFaults, faultVars
  <1>7. Held(f)' = Held(f)
    BY <1>1, <1>4, <1>5 DEF Held, Holding
  <1>8. Links(f, r)'
    BY <1>1, <1>3, <1>4, <1>5, <1>6, EmptyChain DEF FileOK, Links, Linked, Last
  <1>9. Position(f, r)'
    BY <1>3, <1>4, <1>5 DEF Position
  <1>10. QED
    BY <1>1, <1>5, <1>6, <1>7, <1>8, <1>9, MoveStep

\* The steps that end an operation, with a result or with an error.
LEMMA FinishStep ==
  ASSUME TypeInv, NEW f \in Files, NEW r \in Seq(Clusters), FileOK(f, r),
         \/ FinishTruncate(f) \/ FinishRelease(f) \/ CollectFails(f)
         \/ WriteFails(f) /\ ~op[f].err
  PROVE  StepOn(f, r, <<>>)
  <1> USE DEF TypeInv
  <1>1. op'[f] = Idle /\ (\A g \in Files \ {f} : op'[g] = op[g]) /\ UNCHANGED <<fat, chain>>
    BY IdleType, Replaced DEF FinishTruncate, FinishRelease, CollectFails, WriteFails
  <1>2. CASE FinishTruncate(f) \/ FinishRelease(f)
    <2>1. ~op[f].err /\ r = <<>> /\ Held(f) = {} /\ op[f].pc \notin {"bit", "count"}
      BY <1>2 DEF FinishTruncate, FinishRelease, FileOK, Lost, Position, Held, Holding
    <2>2. NoFaults' => NoFaults
      BY <1>2 DEF FinishTruncate, FinishRelease, NoFaults, faultVars
    <2>3. QED
      BY <1>1, <2>1, <2>2, EndStep
  <1>3. CASE CollectFails(f) \/ (WriteFails(f) /\ ~op[f].err)
    <2>1. ~op[f].err /\ op[f].pc \notin {"bit", "count"}
      BY <1>3 DEF CollectFails, WriteFails, FileOK, Lost
    <2>2. readFaults \in Nat /\ writeFaults \in Nat
      BY ClusterAllocAssumption DEF StateOK
    <2>3. ~NoFaults'
      BY <1>3, <2>2 DEF CollectFails, WriteFails, NoFaults
    <2>4. QED
      BY <1>1, <2>1, <2>3, EndStep
  <1>4. QED
    BY <1>2, <1>3

LEMMA NextFailsStep ==
  ASSUME TypeInv, NEW f \in Files, NEW r \in Seq(Clusters), FileOK(f, r), NextFails(f)
  PROVE  StepOn(f, r, <<>>)
  <1> USE DEF TypeInv
  <1>1. /\ op[f].pc \in {"tnext", "fnext"} /\ ~op[f].err
        /\ op[f].at # None /\ op[f].at \in Clusters \cup {None}
    BY DEF NextFails, InOperation
  <1>2. /\ (\A g \in Files \ {f} : op'[g] = op[g])
        /\ op'[f].pc = (IF op[f].pc = "tnext" THEN "teoc" ELSE "ffree")
        /\ op'[f].at = op[f].at /\ op'[f].err
        /\ op'[f].target = op[f].at /\ op[f].at \in Clusters
    BY <1>1, NextFailsMoves
  <1>3. /\ UNCHANGED <<fat, chain>> /\ ~NoFaults' /\ ClustersOf(f)' = ClustersOf(f)
    <2>1. readFaults \in Nat
      BY ClusterAllocAssumption DEF StateOK
    <2>2. QED
      BY <2>1 DEF NextFails, NoFaults, ClustersOf
  <1>4. op[f].at \in Own(f, r)
    <2>1. CASE op[f].pc = "tnext"
      BY <1>1, <2>1 DEF FileOK, Position, InOperation, Own, ClustersOf
    <2>2. CASE op[f].pc = "fnext"
      BY <1>1, <2>2, SeqFacts DEF FileOK, Position, Own
    <2>3. QED
      BY <1>1, <2>1, <2>2
  <1>5. Own(f, <<>>)' = ClustersOf(f) \cup {op[f].at}
    BY <1>2, <1>3, EmptyChain DEF Own, Held
  <1>6. FileOK(f, <<>>)'
    BY <1>1, <1>2, <1>3, EmptyChain DEF FileOK, Apart, Lost
  <1>7. QED
    BY <1>2, <1>3, <1>4, <1>5, <1>6 DEF StepOn, Own

-----------------------------------------------------------------------------
(***************************************************************************)
(* The two ways to run the allocator that are safe: operations interleave  *)
(* but one task allocates and the FAT can always be read; or one operation *)
(* runs at a time and the FAT can always be written.  On FAT12 one         *)
(* operation runs at a time.  ClusterAllocRace and ClusterAllocReadError   *)
(* show what happens outside of the two.                                   *)
(***************************************************************************)
Orderly == /\ \/ MaxAllocators = 1 /\ MaxReadFaults = 0
              \/ MaxBusy = 1 /\ MaxWriteFaults = 0
           /\ ~Packed \/ MaxBusy = 1

Regime ==
  /\ \A f \in Files : op[f].err => MaxBusy = 1 /\ MaxWriteFaults = 0
  /\ \A f, g \in Allocating : f = g
  /\ MaxBusy = 1 => (\A f, g \in Busy : f = g) /\ (recount # -1 => Busy = {})

LEMMA InitRegime == Init => Regime
  <1> SUFFICES ASSUME Init PROVE Regime
    OBVIOUS
  <1>1. \A f \in Files : op[f].pc = "idle" /\ ~op[f].err
    BY IdleType DEF Init
  <1>2. QED
    BY <1>1 DEF Regime, Busy, Allocating, Searching

LEMMA FewRun ==
  ASSUME TypeInv, NEW f \in Files, CanStart(f), MaxBusy = 1
  PROVE  Busy = {} /\ recount = -1
  <1>1. IsFiniteSet(Busy) /\ Cardinality(Busy) \in Nat
    BY FilesFinite DEF Busy
  <1>2. Cardinality(Busy) = 0 /\ recount = -1
    BY <1>1 DEF CanStart, Running
  <1>3. QED
    BY <1>1, <1>2, FS_EmptySet

LEMMA FewAllocate ==
  ASSUME TypeInv, NEW f \in Files, StartAppend(f), Orderly
  PROVE  Allocating = {}
  <1>1. IsFiniteSet(Allocating) /\ Cardinality(Allocating) \in Nat
    BY FilesFinite DEF Allocating
  <1>2. CASE MaxAllocators = 1
    <2>1. Cardinality(Allocating) = 0
      BY <1>1, <1>2 DEF StartAppend
    <2>2. QED
      BY <1>1, <2>1, FS_EmptySet
  <1>3. CASE MaxBusy = 1
    BY <1>3, FewRun DEF StartAppend, Busy, Allocating, Searching
  <1>4. QED
    BY <1>2, <1>3 DEF Orderly

\* The steps that read a word change nothing of the rest of the state: Moves are
\* the others.
Moves(f) ==
  \/ Scan(f) \/ MarkNew(f) \/ LinkPrevious(f) \/ SetAllocated(f) \/ FinishAppend(f)
  \/ TruncateNext(f) \/ TruncateEnd(f) \/ FinishTruncate(f)
  \/ Collect(f) \/ FreeNext(f) \/ FreeWrite(f) \/ FreeEnd(f) \/ SetFree(f) \/ FinishRelease(f)

Resting == UNCHANGED <<fat, marked, count, next, gen, chain, op, recount, ops, readFaults,
                       writeFaults>>

LEMMA NextCases ==
  ASSUME [Next]_vars
  PROVE  \/ \E f \in Files : Start(f) \/ Moves(f) \/ Fails(f)
         \/ StartRecount \/ FinishRecount \/ Resting
  <1>1. \A f \in Files : ReadWord(f) => Resting
    BY WordIsApart DEF Resting
  <1>2. \A f \in Files : Step(f) => ReadWord(f) \/ Moves(f)
    BY DEF Step, Moves
  <1>3. CASE UNCHANGED vars
    BY <1>3 DEF vars, Resting
  <1>4. CASE Next
    BY <1>1, <1>2, <1>4 DEF Next
  <1>5. QED
    BY <1>3, <1>4

\* What a step does to the set of files at work.
LEMMA WhoWorks ==
  ASSUME TypeInv, NEW f \in Files, Start(f) \/ Moves(f) \/ Fails(f)
  PROVE  /\ \A g \in Files \ {f} : op'[g] = op[g]
         /\ op'[f].err => op[f].err \/ MaxReadFaults # 0
         /\ op[f].pc = "idle" => CanStart(f)
         /\ Orderly /\ op'[f].pc \in Searching \cup {"mark", "link", "bit", "count"} =>
              f \in Allocating \/ Allocating = {}
         /\ recount' = recount
  <1> USE DEF TypeInv, Searching
  <1> DEFINE Goal == /\ \A g \in Files \ {f} : op'[g] = op[g]
                     /\ op'[f].err => op[f].err \/ MaxReadFaults # 0
                     /\ op[f].pc = "idle" => CanStart(f)
                     /\ Orderly /\ op'[f].pc \in Searching \cup {"mark", "link", "bit", "count"} =>
                          f \in Allocating \/ Allocating = {}
                     /\ recount' = recount
  <1>1. CASE StartAppend(f)
    <2>1. /\ op'[f].pc = "scan" /\ ~op'[f].err
          /\ (\A g \in Files \ {f} : op'[g] = op[g])
      BY <1>1, AppendStarts
    <2>2. CanStart(f) /\ recount' = recount
      BY <1>1 DEF StartAppend
    <2>3. Orderly => Allocating = {}
      BY <1>1, FewAllocate
    <2>4. QED
      BY <2>1, <2>2, <2>3
  <1>2. ASSUME NEW k \in 1 .. Len(chain[f]), StartTruncate(f, k) PROVE Goal
    <2>1. /\ op'[f].pc = "tnext" /\ ~op'[f].err
          /\ (\A g \in Files \ {f} : op'[g] = op[g])
      BY <1>2, TruncateStarts
    <2>2. CanStart(f) /\ recount' = recount
      BY <1>2 DEF StartTruncate
    <2>3. QED
      BY <2>1, <2>2
  <1>3. CASE StartRelease(f)
    <2>1. /\ op'[f].pc \in {"collect", "fnext"} /\ ~op'[f].err
          /\ (\A g \in Files \ {f} : op'[g] = op[g])
      BY <1>3, ReleaseStarts
    <2>2. QED
      BY <1>3, <2>1 DEF StartRelease
  <1>4. CASE Scan(f) \/ ScanFails(f)
    <2>1. (op'[f].err => op[f].err) /\ (\A g \in Files \ {f} : op'[g] = op[g])
      BY <1>4, SearchEnds, IdleType DEF GoesOn
    <2>2. op[f].pc \in Searching /\ recount' = recount
      BY <1>4 DEF Scan, ScanFails
    <2>3. f \in Allocating /\ op[f].pc # "idle"
      BY <2>2 DEF Allocating, Searching
    <2>4. QED
      BY <2>1, <2>2, <2>3
  <1>5. CASE MarkNew(f)
    <2>1. PICK p \in {"link", "bit", "count"} : op' = [op EXCEPT ![f].pc = p]
      BY <1>5, MarkMoves
    <2>2. op'[f].err = op[f].err /\ (\A g \in Files \ {f} : op'[g] = op[g])
      BY <2>1, Moved DEF Places
    <2>3. QED
      BY <1>5, <2>2 DEF MarkNew, Allocating
  <1>6. CASE LinkPrevious(f)
    <2>1. PICK p \in {"bit", "count"} : op' = [op EXCEPT ![f].pc = p]
      BY <1>6, LinkMoves
    <2>2. op'[f].err = op[f].err /\ (\A g \in Files \ {f} : op'[g] = op[g])
      BY <2>1, Moved DEF Places
    <2>3. QED
      BY <1>6, <2>2 DEF LinkPrevious, Allocating
  <1>7. CASE SetAllocated(f)
    <2>1. op'[f].err = op[f].err /\ (\A g \in Files \ {f} : op'[g] = op[g])
      BY <1>7, Moved DEF SetAllocated, Places
    <2>2. QED
      BY <1>7, <2>1 DEF SetAllocated, Allocating
  <1>8. CASE FinishAppend(f) \/ FinishTruncate(f) \/ FinishRelease(f)
    BY <1>8, IdleType, Replaced DEF FinishAppend, FinishTruncate, FinishRelease
  <1>9. CASE TruncateNext(f)
    BY <1>9, TruncateMoves DEF TruncateNext
  <1>10. CASE TruncateEnd(f)
    BY <1>10, Moved DEF TruncateEnd, Places
  <1>11. CASE Collect(f)
    BY <1>11, CollectMoves DEF Collect
  <1>12. CASE FreeNext(f)
    <2>1. op[f].at \in Clusters \cup {None}
      BY <1>12 DEF FreeNext, InOperation
    <2>2. /\ op'[f].pc = "ffree" /\ op'[f].err = op[f].err
          /\ (\A g \in Files \ {f} : op'[g] = op[g])
      BY <1>12, <2>1, FreeMoves
    <2>3. QED
      BY <1>12, <2>2 DEF FreeNext
  <1>13. CASE FreeWrite(f)
    BY <1>13, FreeWrites DEF FreeWrite
  <1>14. CASE FreeEnd(f)
    <2>1. PICK p \in {"tcount", "fbits", "fcount"} : op' = [op EXCEPT ![f].pc = p]
      BY <1>14, FreeEnds
    <2>2. QED
      BY <1>14, <2>1, Moved DEF FreeEnd, Places
  <1>15. CASE SetFree(f)
    BY <1>15, Moved DEF SetFree, Places
  <1>16. CASE WriteFails(f) \/ CollectFails(f)
    <2>1. op'[f] = Idle /\ (\A g \in Files \ {f} : op'[g] = op[g])
      BY <1>16, IdleType, Replaced DEF WriteFails, CollectFails
    <2>2. QED
      BY <1>16, <2>1, IdleType DEF WriteFails, CollectFails
  <1>17. CASE NextFails(f)
    <2>1. op[f].at \in Clusters \cup {None}
      BY <1>17 DEF NextFails, InOperation
    <2>2. MaxReadFaults # 0
      BY <1>17, ClusterAllocAssumption DEF NextFails, StateOK
    <2>3. op'[f].pc \in {"teoc", "ffree"} /\ (\A g \in Files \ {f} : op'[g] = op[g])
      BY <1>17, <2>1, NextFailsMoves
    <2>4. op[f].pc # "idle" /\ recount' = recount
      BY <1>17 DEF NextFails
    <2>5. QED
      BY <2>2, <2>3, <2>4
  <1>18. QED
    BY <1>1, <1>2, <1>3, <1>4, <1>5, <1>6, <1>7, <1>8, <1>9, <1>10, <1>11, <1>12, <1>13,
       <1>14, <1>15, <1>16, <1>17 DEF Start, Moves, Fails

LEMMA NextRegime == ASSUME TypeInv, Regime, Orderly, [Next]_vars PROVE Regime'
  <1>1. ASSUME NEW f \in Files, Start(f) \/ Moves(f) \/ Fails(f) PROVE Regime'
    <2>1. /\ \A g \in Files \ {f} : op'[g] = op[g]
          /\ op'[f].err => op[f].err \/ MaxReadFaults # 0
          /\ op[f].pc = "idle" => CanStart(f)
          /\ op'[f].pc \in Searching \cup {"mark", "link", "bit", "count"} =>
               f \in Allocating \/ Allocating = {}
          /\ recount' = recount
      BY <1>1, WhoWorks
    <2>2. ASSUME NEW g \in Files, op'[g].err PROVE MaxBusy = 1 /\ MaxWriteFaults = 0
      BY <2>1, <2>2 DEF Regime, Orderly
    <2>3. ASSUME NEW g \in Allocating', NEW h \in Allocating' PROVE g = h
      <3>1. (g = f \/ g \in Allocating) /\ (h = f \/ h \in Allocating)
        BY <2>1 DEF Allocating
      <3>2. g = f \/ h = f => (f \in Allocating \/ Allocating = {})
        BY <2>1 DEF Allocating
      <3>3. QED
        BY <3>1, <3>2 DEF Regime
    <2>4. ASSUME MaxBusy = 1
          PROVE  (\A g, h \in Busy' : g = h) /\ (recount' # -1 => Busy' = {})
      <3>1. CASE op[f].pc = "idle"
        <4>1. Busy = {} /\ recount = -1
          BY <2>1, <2>4, <3>1, FewRun
        <4>2. Busy' \subseteq {f}
          BY <2>1, <4>1 DEF Busy
        <4>3. QED
          BY <2>1, <4>1, <4>2
      <3>2. CASE op[f].pc # "idle"
        <4>1. f \in Busy /\ Busy' \subseteq Busy
          BY <2>1, <3>2 DEF Busy
        <4>2. QED
          BY <2>1, <2>4, <4>1 DEF Regime
      <3>3. QED
        BY <3>1, <3>2
    <2>5. QED
      BY <2>2, <2>3, <2>4 DEF Regime
  <1>2. CASE StartRecount
    <2>1. op' = op /\ Running < MaxBusy /\ recount = -1
      BY <1>2 DEF StartRecount
    <2>2. MaxBusy = 1 => Busy = {}
      <3>1. IsFiniteSet(Busy) /\ Cardinality(Busy) \in Nat
        BY FilesFinite DEF Busy
      <3>2. MaxBusy = 1 => Cardinality(Busy) = 0
        BY <2>1, <3>1 DEF Running
      <3>3. QED
        BY <3>1, <3>2, FS_EmptySet
    <2>3. QED
      BY <2>1, <2>2 DEF Regime, Allocating, Busy
  <1>3. CASE FinishRecount
    BY <1>3 DEF FinishRecount, Regime, Allocating, Busy
  <1>4. CASE Resting
    BY <1>4 DEF Resting, Regime, Allocating, Busy
  <1>5. QED
    BY <1>1, <1>2, <1>3, <1>4, NextCases

LEMMA OthersIdle ==
  ASSUME TypeInv, Regime, Orderly, MaxBusy = 1, NEW f \in Files, Start(f) \/ Moves(f) \/ Fails(f)
  PROVE  (\A g \in Files \ {f} : op[g] = Idle /\ op'[g] = Idle) /\ recount = -1
  <1>1. \A g \in Files \ {f} : op'[g] = op[g]
    BY WhoWorks
  <1>2. (\A g \in Files \ {f} : op[g].pc = "idle") /\ recount = -1
    <2>1. CASE op[f].pc = "idle"
      <3>1. CanStart(f)
        BY <2>1, WhoWorks
      <3>2. QED
        BY <3>1, FewRun DEF Busy
    <2>2. CASE op[f].pc # "idle"
      BY <2>2 DEF Regime, Busy
    <2>3. QED
      BY <2>1, <2>2
  <1>3. QED
    BY <1>1, <1>2 DEF TypeInv, InOperation

-----------------------------------------------------------------------------
(***************************************************************************)
(* The words of FAT12.  With one operation at a time nobody writes between *)
(* the read of a word and its write, so a write changes one entry (Whole). *)
(***************************************************************************)
WordInv ==
  /\ word \in [Files -> Entries \cup {Unread}]
  /\ \A f \in Files : word[f] # Unread =>
       /\ Packed /\ op[f].pc \in Writing
       /\ Beside(EntryOf(f)) \in Clusters => word[f] = fat[Beside(EntryOf(f))]

LEMMA InitWordInv == Init => WordInv
  BY DEF Init, WordInv

LEMMA WritesAreWhole ==
  ASSUME WordInv
  PROVE  Whole
  <1>1. ASSUME NEW f \in Files, NEW v, Put(f, EntryOf(f), v)
        PROVE  fat' = [fat EXCEPT ![EntryOf(f)] = v]
    <2>1. PICK c : c = EntryOf(f)
      OBVIOUS
    <2>2. ~(Packed /\ Beside(c) \in Clusters /\ fat[Beside(c)] # word[f])
      BY <1>1, <2>1 DEF Put, WordInv
    <2>3. Written(f, c, v) = {[fat EXCEPT ![c] = v]}
      BY <2>2 DEF Written
    <2>4. QED
      BY <1>1, <2>1, <2>3 DEF Put
  <1>2. QED
    BY <1>1 DEF Whole

\* A step of an operation that is about to write an entry is that write, or its
\* failure.
LEMMA WordsAfter ==
  ASSUME NEW f \in Files, Start(f) \/ Moves(f) \/ Fails(f)
  PROVE  \/ word' = [word EXCEPT ![f] = Unread]
         \/ word' = word /\ op[f].pc \notin Writing
  <1>1. CASE Start(f)
    <2>1. word' = word
      BY <1>1 DEF Start, StartAppend, StartTruncate, StartRelease
    <2>2. op[f] = Idle
      BY <1>1 DEF Start, StartAppend, StartTruncate, StartRelease, CanStart
    <2>3. QED
      BY <2>1, <2>2, IdleType DEF Writing
  <1>2. CASE MarkNew(f) \/ LinkPrevious(f) \/ TruncateEnd(f) \/ FreeWrite(f)
    BY <1>2 DEF MarkNew, LinkPrevious, TruncateEnd, FreeWrite, Put
  <1>3. CASE Scan(f) \/ SetAllocated(f) \/ FinishAppend(f) \/ TruncateNext(f) \/ FinishTruncate(f)
    BY <1>3 DEF Scan, SetAllocated, FinishAppend, TruncateNext, FinishTruncate, Searching, Writing
  <1>4. CASE Collect(f) \/ FreeNext(f) \/ FreeEnd(f) \/ SetFree(f) \/ FinishRelease(f)
    BY <1>4 DEF Collect, FreeNext, FreeEnd, SetFree, FinishRelease, Writing
  <1>5. CASE Fails(f)
    BY <1>5 DEF Fails, ScanFails, WriteFails, NextFails, CollectFails, Searching, Writing
  <1>6. QED
    BY <1>1, <1>2, <1>3, <1>4, <1>5 DEF Moves

LEMMA NextWordInv == ASSUME TypeInv, Regime, Orderly, WordInv, [Next]_vars PROVE WordInv'
  <1>1. ASSUME NEW f \in Files, Start(f) \/ Moves(f) \/ Fails(f) PROVE WordInv'
    <2>1. word'[f] = Unread /\ word' \in [Files -> Entries \cup {Unread}]
      BY <1>1, WordsAfter DEF WordInv
    <2>2. ASSUME NEW g \in Files \ {f} PROVE word'[g] = Unread
      <3>1. word'[g] = word[g]
        BY <1>1, WordsAfter DEF WordInv
      <3>2. CASE ~Packed
        BY <3>1, <3>2 DEF WordInv
      <3>3. CASE MaxBusy = 1
        <4>1. op[g] = Idle
          BY <1>1, <3>3, OthersIdle
        <4>2. QED
          BY <3>1, <4>1, IdleType DEF WordInv, Writing
      <3>4. QED
        BY <3>2, <3>3 DEF Orderly
    <2>3. QED
      BY <2>1, <2>2 DEF WordInv
  <1>2. CASE UNCHANGED <<fat, chain, op, word>>
    <2>1. \A f \in Files : EntryOf(f)' = EntryOf(f)
      BY <1>2 DEF EntryOf
    <2>2. QED
      BY <1>2, <2>1 DEF WordInv
  <1>3. ASSUME NEW f \in Files, ReadWord(f) PROVE WordInv'
    <2>1. fat' = fat /\ op' = op /\ chain' = chain /\ Packed /\ op[f].pc \in Writing
      BY <1>3, WordIsApart DEF ReadWord
    <2>2. \A g \in Files : EntryOf(g)' = EntryOf(g)
      BY <2>1 DEF EntryOf
    <2>3. PICK c : c = Beside(EntryOf(f))
      OBVIOUS
    <2>4. word' = [word EXCEPT ![f] = IF c \in Clusters THEN fat[c] ELSE Free]
      BY <1>3, <2>3 DEF ReadWord
    <2>5. word' \in [Files -> Entries \cup {Unread}]
      BY <2>4 DEF WordInv, TypeInv, StateOK, Entries
    <2>6. c \in Clusters => word'[f] = fat[c]
      BY <2>4 DEF WordInv
    <2>7. \A g \in Files \ {f} : word'[g] = word[g]
      BY <2>4 DEF WordInv
    <2>8. ASSUME NEW g \in Files, word'[g] # Unread
          PROVE  /\ Packed /\ op'[g].pc \in Writing
                 /\ Beside(EntryOf(g)') \in Clusters => word'[g] = fat'[Beside(EntryOf(g)')]
      <3>1. CASE g = f
        BY <2>1, <2>2, <2>3, <2>6, <3>1
      <3>2. CASE g # f
        BY <2>1, <2>2, <2>7, <2>8, <3>2 DEF WordInv
      <3>3. QED
        BY <3>1, <3>2
    <2>9. QED
      BY <2>5, <2>8 DEF WordInv, Beside
  <1>4. CASE StartRecount \/ FinishRecount \/ UNCHANGED vars
    BY <1>2, <1>4 DEF StartRecount, FinishRecount, vars
  <1>5. \A f \in Files : Step(f) => ReadWord(f) \/ Moves(f)
    BY DEF Step, Moves
  <1>6. QED
    BY <1>1, <1>3, <1>4, <1>5 DEF Next

-----------------------------------------------------------------------------
(***************************************************************************)
(* Sound: every file is in order, no two own a cluster, and without faults *)
(* no cluster is lost.                                                     *)
(***************************************************************************)
Sound(rest) ==
  /\ \A f \in Files : FileOK(f, rest[f])
  /\ \A f, g \in Files : f # g => Own(f, rest[f]) \cap Own(g, rest[g]) = {}
  /\ NoFaults => \A c \in Clusters : fat[c] # Free => \E f \in Files : c \in Own(f, rest[f])

ChainInv == \E rest \in [Files -> Seq(Clusters)] : Sound(rest)

\* Every step of an operation is a StepOn of its file.
LEMMA EveryStep ==
  ASSUME TypeInv, Regime, Orderly, Whole, NEW f \in Files, NEW r \in Seq(Clusters), FileOK(f, r),
         Start(f) \/ Moves(f) \/ Fails(f)
  PROVE  \E q \in Seq(Clusters) : StepOn(f, r, q)
  <1>1. <<>> \in Seq(Clusters)
    BY EmptySeq
  <1>2. WriteFails(f) => ~op[f].err
    BY ClusterAllocAssumption DEF WriteFails, Regime, TypeInv, StateOK
  <1>3. CASE StartAppend(f) \/ Scan(f) \/ ScanFails(f)
    BY <1>3, SearchStep
  <1>4. CASE MarkNew(f) \/ LinkPrevious(f) \/ SetAllocated(f) \/ FinishAppend(f)
    BY <1>4, MarkStep, LinkStep, BookStep, FinishAppendStep
  <1>5. CASE (\E k \in 1 .. Len(chain[f]) : StartTruncate(f, k)) \/ TruncateNext(f)
    BY <1>5, TruncateStep
  <1>6. CASE TruncateEnd(f) \/ StartRelease(f) \/ FreeNext(f)
    BY <1>6, TruncateEndStep, ReleaseStartStep, FreeNextStep
  <1>7. CASE Collect(f) \/ FreeWrite(f) \/ FreeEnd(f) \/ SetFree(f)
    BY <1>7, CollectStep, FreeWriteStep, BookStep
  <1>8. CASE FinishTruncate(f) \/ FinishRelease(f) \/ CollectFails(f) \/ WriteFails(f)
    BY <1>1, <1>2, <1>8, FinishStep
  <1>9. CASE NextFails(f)
    BY <1>1, <1>9, NextFailsStep
  <1>10. QED
    BY <1>3, <1>4, <1>5, <1>6, <1>7, <1>8, <1>9 DEF Start, Moves, Fails

\* A file no step is about stays in order when its clusters keep their entries.
LEMMA UntouchedFile ==
  ASSUME TypeInv, NEW g \in Files, NEW r \in Seq(Clusters), FileOK(g, r),
         op'[g] = op[g], chain'[g] = chain[g], op[g].err => ~NoFaults',
         \A c \in Own(g, r) : c \in Clusters => fat'[c] = fat[c],
         op[g].pc = "mark" /\ ~op[g].err => fat'[op[g].target] = fat[op[g].target]
  PROVE  FileOK(g, r)' /\ Own(g, r)' = Own(g, r)
  <1> USE DEF TypeInv
  <1>1. ClustersOf(g)' = ClustersOf(g) /\ Held(g)' = Held(g)
    BY DEF ClustersOf, Held
  <1>2. Own(g, r)' = Own(g, r) /\ Apart(g, r)'
    BY <1>1 DEF Own, FileOK, Apart
  <1>3. Position(g, r)' <=> Position(g, r)
    BY DEF Position
  <1>4. CASE op[g].err
    BY <1>2, <1>4 DEF FileOK, Lost
  <1>5. CASE ~op[g].err
    <2>1. PICK s : s = chain[g]
      OBVIOUS
    <2>2. s \in Seq(Clusters) /\ ClustersOf(g) = Members(s) /\ Links(g, r)
      BY <1>5, <2>1, ChainType DEF FileOK
    <2>3. ASSUME NEW u \in Seq(Clusters), Linked(u), Members(u) \subseteq Own(g, r)
          PROVE  Linked(u)' /\ (u # <<>> => fat'[Last(u)] = fat[Last(u)])
      <3>1. \A i \in 1 .. Len(u) : fat'[u[i]] = fat[u[i]]
        BY <2>3, SeqFacts DEF Members
      <3>2. \A i \in 1 .. Len(u) - 1 : i \in 1 .. Len(u)
        BY SeqFacts
      <3>3. Linked(u)'
        BY <2>3, <3>1, <3>2 DEF Linked
      <3>4. u # <<>> => Last(u) \in Members(u) /\ Last(u) \in Clusters
        BY SeqFacts
      <3>5. QED
        BY <3>3, <3>4, <2>3
    <2>4. Members(s) \subseteq Own(g, r) /\ Members(r) \subseteq Own(g, r)
      BY <2>2 DEF Own
    <2>5. op[g].pc \in Holding => op[g].target \in Own(g, r) /\ op[g].target \in Clusters
      BY DEF Own, Held, Holding, InOperation
    <2>6. op[g].pc \in Holding => fat'[op[g].target] = fat[op[g].target]
      BY <2>5
    <2>7. Linked(s)' /\ Linked(r)'
      BY <2>1, <2>2, <2>3, <2>4 DEF Links
    <2>8. /\ s # <<>> => fat'[Last(s)] = fat[Last(s)]
          /\ r # <<>> => fat'[Last(r)] = fat[Last(r)]
      BY <2>1, <2>2, <2>3, <2>4 DEF Links
    <2>9. Links(g, r)'
      BY <1>5, <2>1, <2>2, <2>6, <2>7, <2>8 DEF Links, Holding
    <2>10. QED
      BY <1>2, <1>3, <1>5, <2>9 DEF FileOK
  <1>6. QED
    BY <1>4, <1>5

LEMMA OwnType ==
  ASSUME TypeInv, NEW f \in Files, NEW r \in Seq(Clusters), FileOK(f, r)
  PROVE  Own(f, r) \subseteq Clusters
  <1>1. op[f].err => op[f].target \in Clusters
    BY DEF FileOK, Lost
  <1>2. op[f].pc \in Holding => op[f].target \in Clusters
    BY DEF TypeInv, InOperation, Holding
  <1>3. QED
    BY <1>1, <1>2, ChainType, SeqFacts DEF Own, Held, TypeInv

LEMMA StepSound ==
  ASSUME TypeInv, Regime, NEW rest \in [Files -> Seq(Clusters)], Sound(rest),
         NEW f \in Files, NEW q \in Seq(Clusters), StepOn(f, rest[f], q)
  PROVE  Sound([rest EXCEPT ![f] = q])'
  <1> DEFINE after == [rest EXCEPT ![f] = q]
  <1>1. /\ after \in [Files -> Seq(Clusters)] /\ after[f] = q
        /\ \A g \in Files \ {f} : after[g] = rest[g]
    OBVIOUS
  <1> HIDE DEF after
  <1>2. /\ FileOK(f, q)'
        /\ \A c \in Own(f, q)' : c \in Own(f, rest[f]) \/ (fat[c] = Free /\ op[f].pc = "mark")
        /\ \A c \in Clusters :
             fat'[c] = fat[c] \/ c \in Own(f, rest[f]) \/ (fat[c] = Free /\ op[f].pc = "mark")
        /\ NoFaults' => NoFaults /\ \A c \in Own(f, rest[f]) : c \in Own(f, q)' \/ fat'[c] = Free
        /\ \A g \in Files \ {f} : op'[g] = op[g] /\ chain'[g] = chain[g]
    BY DEF StepOn
  <1>3. \A g \in Files : FileOK(g, rest[g]) /\ Own(g, rest[g]) \subseteq Clusters
    BY OwnType DEF Sound
  <1>4. \A g \in Files : ~op[g].err => \A c \in Own(g, rest[g]) : fat[c] # Free
    BY <1>3, OwnNotFree
  \* A failed iterator is alone.
  <1>5. \A g \in Files : op[g].err => \A h \in Files \ {g} : op[h].pc = "idle" /\ ~op[h].err
    <2>1. ASSUME NEW g \in Files, op[g].err, NEW h \in Files \ {g} PROVE op[h].pc = "idle" /\ ~op[h].err
      <3>1. op[g].pc # "idle"
        BY <1>3, <2>1 DEF FileOK, Lost
      <3>2. MaxBusy = 1 /\ g \in Busy
        BY <2>1, <3>1 DEF Regime, Busy
      <3>3. op[h].pc = "idle"
        BY <2>1, <3>2 DEF Regime, Busy
      <3>4. QED
        BY <3>3, IdleType DEF TypeInv, InOperation
    <2>2. QED
      BY <2>1
  <1>6. ASSUME NEW g \in Files \ {f}
        PROVE  FileOK(g, rest[g])' /\ Own(g, rest[g])' = Own(g, rest[g])
    <2>1. op[g].err => ~NoFaults'
      BY <1>2, <1>3 DEF FileOK, Lost
    <2>2. \A c \in Own(g, rest[g]) : fat'[c] = fat[c]
      <3>1. ASSUME NEW c \in Own(g, rest[g]), fat'[c] # fat[c] PROVE FALSE
        <4>1. c \in Clusters /\ c \notin Own(f, rest[f])
          BY <1>3 DEF Sound
        <4>2. fat[c] = Free /\ op[f].pc = "mark"
          BY <1>2, <3>1, <4>1
        <4>3. op[g].err
          BY <1>4, <4>2
        <4>4. QED
          BY <1>5, <4>2, <4>3
      <3>2. QED
        BY <3>1
    <2>3. ASSUME op[g].pc = "mark", ~op[g].err PROVE fat'[op[g].target] = fat[op[g].target]
      <3>1. op[g].target \in Clusters /\ fat[op[g].target] = Free
        BY <1>3, <2>3 DEF FileOK, Links, TypeInv, InOperation
      <3>2. op[f].pc # "mark"
        BY <2>3 DEF Regime, Allocating
      <3>3. op[g].target \in Own(f, rest[f]) => op[f].err
        BY <1>4, <3>1
      <3>4. QED
        BY <1>2, <1>5, <2>3, <3>1, <3>2, <3>3
    <2>4. QED
      BY <1>2, <1>3, <2>1, <2>2, <2>3, UntouchedFile
  <1>7. \A g \in Files : FileOK(g, after[g])'
    BY <1>1, <1>2, <1>6
  <1>8. ASSUME NEW g \in Files \ {f} PROVE Own(f, q)' \cap Own(g, rest[g]) = {}
    <2>1. ASSUME NEW c \in Own(f, q)', c \in Own(g, rest[g]) PROVE FALSE
      <3>1. c \notin Own(f, rest[f])
        BY <2>1 DEF Sound
      <3>2. fat[c] = Free /\ op[f].pc = "mark"
        BY <1>2, <2>1, <3>1
      <3>3. op[g].err
        BY <1>4, <2>1, <3>2
      <3>4. QED
        BY <1>5, <3>2, <3>3
    <2>2. QED
      BY <2>1
  <1>9. ASSUME NEW g \in Files, NEW h \in Files, g # h
        PROVE  Own(g, after[g])' \cap Own(h, after[h])' = {}
    <2>1. CASE g # f /\ h # f
      <3>1. Own(g, after[g])' = Own(g, rest[g]) /\ Own(h, after[h])' = Own(h, rest[h])
        BY <1>1, <1>6, <2>1
      <3>2. QED
        BY <3>1, <1>9 DEF Sound
    <2>2. CASE g = f
      <3>1. Own(h, after[h])' = Own(h, rest[h]) /\ Own(g, after[g])' = Own(f, q)'
        BY <1>1, <1>6, <1>9, <2>2
      <3>2. QED
        BY <3>1, <1>8, <1>9, <2>2
    <2>3. CASE h = f
      <3>1. Own(g, after[g])' = Own(g, rest[g]) /\ Own(h, after[h])' = Own(f, q)'
        BY <1>1, <1>6, <1>9, <2>3
      <3>2. QED
        BY <3>1, <1>8, <1>9, <2>3
    <2>4. QED
      BY <2>1, <2>2, <2>3
  <1>10. ASSUME NoFaults', NEW c \in Clusters, fat'[c] # Free
         PROVE  \E g \in Files : c \in Own(g, after[g])'
    <2>1. CASE \E g \in Files \ {f} : c \in Own(g, rest[g])
      <3>1. PICK g \in Files \ {f} : c \in Own(g, rest[g])
        BY <2>1
      <3>2. c \in Own(g, after[g])'
        BY <1>1, <1>6, <3>1
      <3>3. QED
        BY <3>2
    <2>2. CASE c \in Own(f, rest[f])
      <3>1. c \in Own(f, q)'
        BY <1>2, <1>10, <2>2
      <3>2. c \in Own(f, after[f])'
        BY <1>1, <3>1
      <3>3. QED
        BY <3>2
    <2>3. CASE c \notin Own(f, rest[f]) /\ ~\E g \in Files \ {f} : c \in Own(g, rest[g])
      <3>1. fat[c] = Free
        BY <1>2, <1>10, <2>3 DEF Sound
      <3>2. c \in Own(f, q)'
        BY <1>10, <2>3, <3>1 DEF StepOn
      <3>3. c \in Own(f, after[f])'
        BY <1>1, <3>2
      <3>4. QED
        BY <3>3
    <2>4. QED
      BY <2>1, <2>2, <2>3
  <1>11. Sound(after)'
    BY <1>7, <1>9, <1>10 DEF Sound
  <1>12. QED
    BY <1>11 DEF after

LEMMA InitChainInv == Init => ChainInv
  <1> SUFFICES ASSUME Init PROVE ChainInv
    OBVIOUS
  <1>1. PICK rest : rest = [f \in Files |-> <<>>]
    OBVIOUS
  <1>2. rest \in [Files -> Seq(Clusters)]
    BY <1>1, EmptySeq
  <1>3. ASSUME NEW f \in Files
        PROVE  rest[f] = <<>> /\ op[f].pc = "idle" /\ ~op[f].err /\ chain[f] = <<>>
    BY <1>1, IdleType DEF Init
  <1>4. ASSUME NEW f \in Files PROVE FileOK(f, <<>>)
    <2>1. ClustersOf(f) = {}
      BY <1>3, EmptyChain DEF ClustersOf, Members
    <2>2. Apart(f, <<>>)
      BY <1>3, <2>1, EmptyChain DEF Apart, Holding
    <2>3. Links(f, <<>>)
      BY <1>3, EmptyChain DEF Links
    <2>4. Position(f, <<>>)
      BY <1>3 DEF Position
    <2>5. QED
      BY <1>3, <2>2, <2>3, <2>4 DEF FileOK
  <1>5. ASSUME NEW f \in Files PROVE Own(f, <<>>) = {}
    <2>1. ClustersOf(f) = {}
      BY <1>3, EmptyChain DEF ClustersOf, Members
    <2>2. QED
      BY <1>3, <2>1, EmptyChain DEF Own, Held, Holding
  <1>6. \A c \in Clusters : fat[c] = Free
    BY DEF Init
  <1>7. Sound(rest)
    BY <1>3, <1>4, <1>5, <1>6 DEF Sound
  <1>8. QED
    BY <1>2, <1>7 DEF ChainInv

LEMMA NextChainInv ==
  ASSUME TypeInv, Regime, Orderly, Whole, ChainInv, [Next]_vars
  PROVE  ChainInv'
  <1>1. PICK rest \in [Files -> Seq(Clusters)] : Sound(rest)
    BY DEF ChainInv
  <1>2. ASSUME NEW f \in Files, Start(f) \/ Moves(f) \/ Fails(f) PROVE ChainInv'
    <2>1. FileOK(f, rest[f]) /\ rest[f] \in Seq(Clusters)
      BY <1>1 DEF Sound
    <2>2. PICK q \in Seq(Clusters) : StepOn(f, rest[f], q)
      BY <1>2, <2>1, EveryStep
    <2>3. PICK after : after = [rest EXCEPT ![f] = q]
      OBVIOUS
    <2>4. Sound(after)' /\ after \in [Files -> Seq(Clusters)]
      BY <1>1, <2>2, <2>3, StepSound
    <2>5. QED
      BY <2>4 DEF ChainInv
  <1>3. CASE UNCHANGED <<fat, chain, op, faultVars>>
    <2>1. ASSUME NEW f \in Files PROVE FileOK(f, rest[f])' /\ Own(f, rest[f])' = Own(f, rest[f])
      <3>1. op'[f] = op[f] /\ chain'[f] = chain[f] /\ fat' = fat /\ (NoFaults' <=> NoFaults)
        BY <1>3 DEF faultVars, NoFaults
      <3>2. op[f].err => ~NoFaults
        BY <1>1 DEF Sound, FileOK, Lost
      <3>3. QED
        BY <1>1, <3>1, <3>2, UntouchedFile DEF Sound
    <2>2. Sound(rest)'
      BY <1>1, <1>3, <2>1 DEF Sound, NoFaults, faultVars
    <2>3. QED
      BY <2>2 DEF ChainInv
  <1>4. StartRecount \/ FinishRecount \/ Resting => UNCHANGED <<fat, chain, op, faultVars>>
    BY DEF StartRecount, FinishRecount, Resting, faultVars
  <1>5. QED
    BY <1>2, <1>3, <1>4, NextCases

IInv == TypeInv /\ Regime /\ WordInv /\ ChainInv

LEMMA Invariant == ASSUME Orderly PROVE Spec => []IInv
  <1>1. Init => IInv
    BY InitTypeInv, InitRegime, InitWordInv, InitChainInv DEF IInv
  <1>2. IInv /\ [Next]_vars => IInv'
    BY NextTypeInv, NextRegime, NextWordInv, WritesAreWhole, NextChainInv DEF IInv
  <1>3. QED
    BY <1>1, <1>2, PTL DEF Spec

LEMMA SoundChains == ASSUME IInv PROVE ChainsIntact
  <1>1. PICK rest \in [Files -> Seq(Clusters)] : Sound(rest)
    BY DEF IInv, ChainInv
  <1>2. ASSUME NEW f \in Files, ~op[f].err PROVE Intact(f)
    BY <1>1, <1>2 DEF Sound, FileOK, Links, Linked, Intact
  <1>3. QED
    BY <1>2 DEF ChainsIntact

LEMMA DistinctCount ==
  ASSUME NEW s \in Seq(Clusters), Distinct(s)
  PROVE  Cardinality(Members(s)) = Len(s)
  <1>1. Len(s) \in Nat /\ s \in [1 .. Len(s) -> Clusters]
    BY LenProperties
  <1>2. s \in [1 .. Len(s) -> Members(s)]
    BY <1>1 DEF Members
  <1>3. s \in Bijection(1 .. Len(s), Members(s))
    BY <1>2 DEF Distinct, Members, Bijection, Injection, Surjection, IsInjective
  <1>4. ExistsBijection(1 .. Len(s), Members(s))
    BY <1>3 DEF ExistsBijection
  <1>5. IsFiniteSet(1 .. Len(s)) /\ Cardinality(1 .. Len(s)) = Len(s)
    BY <1>1, FS_Interval
  <1>6. QED
    BY <1>4, <1>5, FS_Bijection

LEMMA SoundApart == ASSUME IInv PROVE NotCrossLinked
  <1> USE DEF IInv
  <1>1. PICK rest \in [Files -> Seq(Clusters)] : Sound(rest)
    BY DEF ChainInv
  <1>2. \A f \in Files : FileOK(f, rest[f]) /\ ClustersOf(f) \subseteq Own(f, rest[f])
    BY <1>1 DEF Sound, Own
  <1>3. \A f, g \in Files : f # g => ClustersOf(f) \cap ClustersOf(g) = {}
    BY <1>1, <1>2 DEF Sound
  <1>4. ASSUME NEW f \in Files PROVE Cardinality(ClustersOf(f)) = Len(chain[f])
    BY <1>2, ChainType, DistinctCount DEF FileOK, Apart, TypeInv
  <1>5. ASSUME NEW f \in Files, NEW g \in Files, op[f].pc \in {"mark", "ffree"}, ~op[f].err
        PROVE  op[f].target \notin ClustersOf(g)
    <2>1. CASE op[f].pc = "mark"
      <3>1. fat[op[f].target] = Free
        BY <1>2, <1>5, <2>1 DEF FileOK, Links
      <3>2. CASE ~op[g].err
        BY <1>2, <3>1, <3>2, OwnNotFree
      <3>3. CASE op[g].err
        <4>1. g \in Busy /\ f \in Busy /\ MaxBusy = 1
          BY <1>2, <2>1, <3>3 DEF FileOK, Lost, Busy, Regime
        <4>2. QED
          BY <4>1, <1>5, <3>3 DEF Regime
      <3>4. QED
        BY <3>2, <3>3
    <2>2. CASE op[f].pc = "ffree"
      <3>1. op[f].target \in Own(f, rest[f])
        BY <2>2 DEF Own, Held, Holding
      <3>2. CASE f = g
        BY <1>2, <1>5, <2>2, <3>2 DEF FileOK, Apart, Holding
      <3>3. CASE f # g
        BY <1>1, <1>2, <3>1, <3>3 DEF Sound
      <3>4. QED
        BY <3>2, <3>3
    <2>3. QED
      BY <1>5, <2>1, <2>2
  <1>6. QED
    BY <1>3, <1>4, <1>5 DEF NotCrossLinked

LEMMA SoundSpace == ASSUME IInv PROVE NoSpaceLost
  <1>1. PICK rest \in [Files -> Seq(Clusters)] : Sound(rest)
    BY DEF IInv, ChainInv
  <1>2. ASSUME Quiet, NoFaults, NEW c \in Clusters, fat[c] # Free
        PROVE  \E f \in Files : c \in ClustersOf(f)
    <2>1. PICK f \in Files : c \in Own(f, rest[f])
      BY <1>1, <1>2 DEF Sound
    <2>2. op[f].pc = "idle" /\ ~op[f].err
      BY <1>2, IdleType DEF Quiet, Busy, IInv, TypeInv, InOperation
    <2>3. rest[f] = <<>>
      BY <1>1, <2>2 DEF Sound, FileOK, Position
    <2>4. Own(f, rest[f]) = ClustersOf(f)
      BY <2>2, <2>3, EmptyChain DEF Own, Held, Holding
    <2>5. QED
      BY <2>1, <2>4
  <1>3. QED
    BY <1>2 DEF NoSpaceLost

\* Run in an orderly way, alloc_cluster, truncate_cluster_chain and
\* free_cluster_chain keep the chain of every file in the table at every step of
\* every operation, whatever else runs and whichever write fails.
THEOREM ChainsStayIntact == ASSUME Orderly PROVE Spec => []ChainsIntact
  <1>1. IInv => ChainsIntact
    BY SoundChains
  <1>2. QED
    BY <1>1, Invariant, PTL

\* ... give no cluster to two files, and never write the entry of a cluster that
\* belongs to another file.
THEOREM FilesStayApart == ASSUME Orderly PROVE Spec => []NotCrossLinked
  <1>1. IInv => NotCrossLinked
    BY SoundApart
  <1>2. QED
    BY <1>1, Invariant, PTL

\* ... and lose no cluster when no access fails.
THEOREM SpaceIsKept == ASSUME Orderly PROVE Spec => []NoSpaceLost
  <1>1. IInv => NoSpaceLost
    BY SoundSpace
  <1>2. QED
    BY <1>1, Invariant, PTL

-----------------------------------------------------------------------------
(***************************************************************************)
(* The hint.  With one operation at a time the bits of the bitmap that     *)
(* show a cluster as free are right, but for the cluster an allocation has *)
(* just marked; the clusters a release has collected are in no file.       *)
(***************************************************************************)
Releasing == {"collect", "fnext", "ffree", "fbits", "fcount"}

BatchInv ==
  /\ \A f \in Files :
       op[f].batch # {} \/ op[f].pc = "collect" => op[f].pc \in Releasing /\ op[f].keep = 0
  /\ \A f, g \in Files : op[f].batch \cap ClustersOf(g) = {}

BitsInv ==
  NoFaults => \A c \in marked \cap Clusters :
                fat[c] = Free \/ \E f \in Files : op[f].pc \in {"link", "bit"} /\ op[f].target = c

HintInv == MaxBusy = 1 => BatchInv /\ BitsInv

\* What a step does to the clusters collected for the bitmap.
LEMMA BatchStep ==
  ASSUME TypeInv, NEW f \in Files, Start(f) \/ Moves(f) \/ Fails(f),
         op[f].batch # {} \/ op[f].pc = "collect" => op[f].pc \in Releasing /\ op[f].keep = 0
  PROVE  /\ op'[f].batch # {} \/ op'[f].pc = "collect" => op'[f].pc \in Releasing /\ op'[f].keep = 0
         /\ \/ op'[f].batch = {}
            \/ op'[f].batch = op[f].batch /\ chain' = chain
            \/ /\ Collect(f) /\ op'[f].pc = "collect" /\ chain' = chain
               /\ op'[f].batch = op[f].batch \cup {op'[f].at}
  <1> USE DEF TypeInv
  <1> DEFINE Goal ==
        /\ op'[f].batch # {} \/ op'[f].pc = "collect" => op'[f].pc \in Releasing /\ op'[f].keep = 0
        /\ \/ op'[f].batch = {}
           \/ op'[f].batch = op[f].batch /\ chain' = chain
           \/ /\ Collect(f) /\ op'[f].pc = "collect" /\ chain' = chain
              /\ op'[f].batch = op[f].batch \cup {op'[f].at}
  <1>1. ASSUME op'[f] = Idle PROVE Goal
    BY <1>1, IdleType
  <1>2. CASE StartAppend(f)
    BY <1>2, AppendStarts
  <1>3. ASSUME NEW k \in 1 .. Len(chain[f]), StartTruncate(f, k) PROVE Goal
    BY <1>3, TruncateStarts
  <1>4. CASE StartRelease(f)
    <2>1. op'[f].pc \in {"collect", "fnext"} /\ op'[f].batch = {} /\ op'[f].keep = 0
      BY <1>4, ReleaseStarts
    <2>2. QED
      BY <2>1 DEF Releasing
  <1>5. CASE Scan(f) \/ ScanFails(f)
    <2>1. op[f].pc \in Searching /\ op[f].batch = {}
      BY <1>5 DEF Scan, ScanFails, Searching, Releasing
    <2>2. op'[f] = Idle \/ (op'[f].pc \in Searching \cup {"mark"} /\ op'[f].batch = {})
      BY <1>5, <2>1, SearchEnds DEF GoesOn
    <2>3. QED
      BY <1>1, <2>2 DEF Searching
  <1>6. CASE MarkNew(f) \/ LinkPrevious(f) \/ SetAllocated(f) \/ TruncateEnd(f)
    <2>1. PICK p \in {"link", "bit", "count", "fnext"} : op' = [op EXCEPT ![f].pc = p]
      BY <1>6, MarkMoves, LinkMoves DEF SetAllocated, TruncateEnd
    <2>2. op'[f].pc = p /\ op'[f].batch = op[f].batch
      BY <2>1, Moved DEF Places
    <2>3. op[f].batch = {}
      BY <1>6 DEF MarkNew, LinkPrevious, SetAllocated, TruncateEnd, Releasing
    <2>4. QED
      BY <2>2, <2>3
  <1>7. CASE FinishAppend(f) \/ FinishTruncate(f) \/ FinishRelease(f) \/ WriteFails(f) \/ CollectFails(f)
    BY <1>1, <1>7, IdleType, Replaced
       DEF FinishAppend, FinishTruncate, FinishRelease, WriteFails, CollectFails
  <1>8. CASE TruncateNext(f)
    <2>1. op'[f].pc = "teoc" /\ op'[f].batch = op[f].batch
      BY <1>8, TruncateMoves
    <2>2. op[f].batch = {}
      BY <1>8 DEF TruncateNext, Releasing
    <2>3. QED
      BY <2>1, <2>2
  <1>9. CASE Collect(f)
    BY <1>9, CollectMoves DEF Collect, Releasing
  <1>10. CASE FreeNext(f)
    <2>1. op[f].at \in Clusters \cup {None}
      BY <1>10 DEF FreeNext, InOperation
    <2>2. op'[f].pc = "ffree" /\ op'[f].batch = op[f].batch /\ op'[f].keep = op[f].keep
      BY <1>10, <2>1, FreeMoves
    <2>3. QED
      BY <1>10, <2>2 DEF FreeNext, Releasing
  <1>11. CASE FreeWrite(f)
    BY <1>11, FreeWrites DEF FreeWrite, Releasing
  <1>12. CASE FreeEnd(f) \/ SetFree(f)
    <2>1. PICK p \in {"tcount", "fbits", "fcount"} :
            op' = [op EXCEPT ![f].pc = p] /\ (p = "tcount" => op[f].keep > 0)
      BY <1>12, FreeEnds DEF SetFree
    <2>2. op'[f].pc = p /\ op'[f].batch = op[f].batch /\ op'[f].keep = op[f].keep
      BY <2>1, Moved DEF Places
    <2>3. op[f].batch # {} => p # "tcount"
      BY <2>1
    <2>4. QED
      BY <1>12, <2>1, <2>2, <2>3 DEF FreeEnd, SetFree, Releasing
  <1>13. CASE NextFails(f)
    <2>1. op[f].at \in Clusters \cup {None}
      BY <1>13 DEF NextFails, InOperation
    <2>2. /\ op'[f].pc = (IF op[f].pc = "tnext" THEN "teoc" ELSE "ffree")
          /\ op'[f].batch = op[f].batch /\ op'[f].keep = op[f].keep
      BY <1>13, <2>1, NextFailsMoves
    <2>3. op[f].pc = "tnext" => op[f].batch = {}
      BY DEF Releasing
    <2>4. QED
      BY <1>13, <2>2, <2>3 DEF NextFails, Releasing
  <1>14. QED
    BY <1>2, <1>3, <1>4, <1>5, <1>6, <1>7, <1>8, <1>9, <1>10, <1>11, <1>12, <1>13
       DEF Start, Moves, Fails

\* The steps that write no bit: those at a cluster just marked are failures.
LEMMA BitsKept ==
  ASSUME TypeInv, NEW f \in Files, Start(f) \/ Moves(f) \/ Fails(f), NoFaults',
         ~MarkNew(f), ~LinkPrevious(f), ~SetAllocated(f), ~SetFree(f)
  PROVE  marked' = marked /\ op[f].pc \notin {"mark", "link", "bit"}
  <1>1. readFaults \in Nat /\ writeFaults \in Nat
    BY ClusterAllocAssumption DEF TypeInv, StateOK
  <1>2. ~Fails(f)
    BY <1>1 DEF Fails, ScanFails, WriteFails, NextFails, CollectFails, NoFaults
  <1>3. CASE Start(f)
    BY <1>3, IdleType DEF Start, StartAppend, StartTruncate, StartRelease, CanStart
  <1>4. CASE Moves(f)
    BY <1>4 DEF Moves, Scan, Searching, FinishAppend, TruncateNext, TruncateEnd, FinishTruncate, Collect,
                FreeNext, FreeWrite, FreeEnd, FinishRelease
  <1>5. QED
    BY <1>2, <1>3, <1>4

LEMMA BatchKept ==
  ASSUME IInv, Orderly, MaxBusy = 1, BatchInv, NEW f \in Files, Start(f) \/ Moves(f) \/ Fails(f)
  PROVE  BatchInv'
  <1> USE DEF IInv
  <1>1. PICK rest \in [Files -> Seq(Clusters)] : Sound(rest)
    BY DEF ChainInv
  <1>2. \A g \in Files \ {f} : op'[g] = Idle
    BY OthersIdle
  <1>3. PICK q \in Seq(Clusters) : StepOn(f, rest[f], q)
    BY <1>1, EveryStep, WritesAreWhole DEF Sound
  <1>4. /\ op'[f].batch # {} \/ op'[f].pc = "collect" => op'[f].pc \in Releasing /\ op'[f].keep = 0
        /\ \/ op'[f].batch = {}
           \/ op'[f].batch = op[f].batch /\ chain' = chain
           \/ /\ Collect(f) /\ op'[f].pc = "collect" /\ chain' = chain
              /\ op'[f].batch = op[f].batch \cup {op'[f].at}
    BY BatchStep DEF BatchInv
  <1>5. ASSUME NEW g \in Files PROVE op'[f].batch \cap ClustersOf(g)' = {}
    <2>1. CASE op'[f].batch = {}
      BY <2>1
    <2>2. CASE op'[f].batch = op[f].batch /\ chain' = chain
      BY <2>2 DEF BatchInv, ClustersOf
    <2>3. CASE /\ Collect(f) /\ op'[f].pc = "collect" /\ chain' = chain
               /\ op'[f].batch = op[f].batch \cup {op'[f].at}
      <3>1. ClustersOf(g)' = ClustersOf(g)
        BY <2>3 DEF ClustersOf
      <3>2. StepOn(f, rest[f], rest[f])
        BY <1>1, <2>3, CollectStep DEF Sound
      <3>3. op[f].err = op'[f].err /\ op[f].pc = "collect"
        BY <2>3, CollectMoves DEF Collect, TypeInv
      <3>4. ~op[f].err
        BY <1>1, <3>3 DEF Sound, FileOK, Lost
      <3>5. op'[f].at \in Members(rest[f])
        BY <2>3, <3>2, <3>3, <3>4 DEF StepOn, FileOK, Position
      <3>6. op'[f].at \notin ClustersOf(g)
        <4>1. CASE g = f
          BY <1>1, <3>5, <4>1 DEF Sound, FileOK, Apart
        <4>2. CASE g # f
          BY <1>1, <3>5, <4>2 DEF Sound, Own
        <4>3. QED
          BY <4>1, <4>2
      <3>7. QED
        BY <2>3, <3>1, <3>6 DEF BatchInv
    <2>4. QED
      BY <1>4, <2>1, <2>2, <2>3
  <1>6. QED
    BY <1>2, <1>4, <1>5, IdleType DEF BatchInv

LEMMA HintStep ==
  ASSUME IInv, Orderly, HintInv, NEW f \in Files, Start(f) \/ Moves(f) \/ Fails(f)
  PROVE  HintInv'
  <1> USE DEF IInv
  <1> SUFFICES ASSUME MaxBusy = 1 PROVE BatchInv' /\ BitsInv'
    BY DEF HintInv
  <1>1. PICK rest \in [Files -> Seq(Clusters)] : Sound(rest)
    BY DEF ChainInv
  <1>2. \A g \in Files \ {f} : op[g] = Idle /\ op'[g] = Idle
    BY OthersIdle
  <1>3. PICK q \in Seq(Clusters) : StepOn(f, rest[f], q)
    BY <1>1, EveryStep, WritesAreWhole DEF Sound
  <1>4. BatchInv /\ BitsInv /\ BatchInv'
    BY BatchKept DEF HintInv
  <1>5. ASSUME NoFaults', NEW c \in marked' \cap Clusters,
               ~(\E g \in Files : op'[g].pc \in {"link", "bit"} /\ op'[g].target = c)
        PROVE  fat'[c] = Free
    <2>1. NoFaults /\ FileOK(f, rest[f])
      BY <1>1, <1>3, <1>5 DEF StepOn, Sound
    <2>2. ~op[f].err
      BY <2>1 DEF FileOK, Lost
    <2>3. c \in marked => fat[c] = Free \/ (op[f].pc \in {"link", "bit"} /\ op[f].target = c)
      BY <1>2, <1>4, <1>5, <2>1, IdleType DEF BitsInv
    <2>4. ASSUME fat[c] = Free, op[f].pc # "mark" PROVE fat'[c] = Free
      <3>1. c \notin Own(f, rest[f])
        BY <2>1, <2>2, <2>4, OwnNotFree
      <3>2. QED
        BY <1>3, <1>5, <2>4, <3>1 DEF StepOn
    <2>5. CASE MarkNew(f)
      <3>1. PICK p \in {"link", "bit", "count"} :
              op' = [op EXCEPT ![f].pc = p] /\ (p = "link" <=> chain[f] # <<>>)
        BY <2>5, MarkMoves DEF TypeInv
      <3>2. op'[f].pc = p /\ op'[f].target = op[f].target
        BY <3>1, Moved DEF Places, TypeInv
      <3>3. marked' = marked /\ c \in marked /\ UseBitmap
        BY <1>5, <2>5 DEF MarkNew, UseBitmap
      <3>4. p # "count"
        <4>1. op' = [op EXCEPT ![f].pc = IF chain[f] = <<>> THEN "bit" ELSE "link"]
          BY <2>5, <3>3 DEF MarkNew, AfterLink
        <4>2. op'[f].pc \in {"bit", "link"}
          BY <4>1, Moved DEF Places, TypeInv
        <4>3. QED
          BY <3>2, <4>2
      <3>5. c # op[f].target
        BY <1>5, <3>2, <3>4
      <3>6. fat[c] = Free
        BY <2>3, <2>5, <3>3 DEF MarkNew
      <3>7. fat' = [fat EXCEPT ![op[f].target] = EOC]
        BY <2>5, WritesAreWhole, WholeWrites
      <3>8. QED
        BY <1>5, <3>5, <3>6, <3>7 DEF TypeInv, StateOK
    <2>6. CASE LinkPrevious(f)
      <3>1. marked' = marked /\ c \in marked /\ UseBitmap /\ op[f].pc = "link"
        BY <1>5, <2>6 DEF LinkPrevious, UseBitmap
      <3>2. op' = [op EXCEPT ![f].pc = "bit"]
        BY <2>6, <3>1 DEF LinkPrevious, AfterLink
      <3>3. op'[f].pc = "bit" /\ op'[f].target = op[f].target
        BY <3>2, Moved DEF Places, TypeInv
      <3>4. c # op[f].target
        BY <1>5, <3>3
      <3>5. QED
        BY <2>3, <2>4, <3>1, <3>4
    <2>7. CASE SetAllocated(f)
      <3>1. c \in marked /\ c # op[f].target /\ op[f].pc = "bit"
        BY <1>5, <2>7 DEF SetAllocated
      <3>2. QED
        BY <2>3, <2>4, <3>1
    <2>8. CASE SetFree(f)
      <3>1. op[f].pc = "fbits" /\ marked' = marked \cup {x \in op[f].batch : x < Total} /\ fat' = fat
        BY <2>8 DEF SetFree
      <3>2. CASE c \in marked
        BY <2>3, <3>1, <3>2
      <3>3. CASE c \notin marked
        <4>1. c \in op[f].batch
          BY <1>5, <3>1, <3>3
        <4>2. SUFFICES ASSUME fat[c] # Free PROVE FALSE
          BY <3>1
        <4>3. PICK g \in Files : c \in Own(g, rest[g])
          BY <1>1, <1>5, <2>1, <4>2 DEF Sound
        <4>4. op[g].pc \in {"idle", "fbits"} /\ ~op[g].err
          BY <1>2, <2>2, <3>1, IdleType
        <4>5. rest[g] = <<>>
          BY <1>1, <4>4 DEF Sound, FileOK, Position
        <4>6. Own(g, rest[g]) = ClustersOf(g)
          BY <4>4, <4>5, EmptyChain DEF Own, Held, Holding
        <4>7. QED
          BY <1>4, <4>1, <4>3, <4>6 DEF BatchInv
      <3>4. QED
        BY <3>2, <3>3
    <2>9. CASE ~MarkNew(f) /\ ~LinkPrevious(f) /\ ~SetAllocated(f) /\ ~SetFree(f)
      <3>1. marked' = marked /\ op[f].pc \notin {"mark", "link", "bit"}
        BY <1>5, <2>9, BitsKept
      <3>2. QED
        BY <1>5, <2>3, <2>4, <3>1
    <2>10. QED
      BY <2>5, <2>6, <2>7, <2>8, <2>9
  <1>6. BitsInv'
    BY <1>5 DEF BitsInv
  <1>7. QED
    BY <1>4, <1>6

LEMMA InitHintInv == Init => HintInv
  <1> SUFFICES ASSUME Init PROVE HintInv
    OBVIOUS
  <1>1. \A f \in Files : op[f].batch = {} /\ op[f].pc = "idle"
    BY IdleType DEF Init
  <1>2. \A c \in Clusters : fat[c] = Free
    BY DEF Init
  <1>3. QED
    BY <1>1, <1>2 DEF HintInv, BatchInv, BitsInv

LEMMA NextHintInv == ASSUME IInv, Orderly, HintInv, [Next]_vars PROVE HintInv'
  <1>1. CASE UNCHANGED <<fat, marked, chain, op, faultVars>>
    BY <1>1 DEF HintInv, BatchInv, BitsInv, ClustersOf, NoFaults, faultVars
  <1>2. StartRecount \/ FinishRecount \/ Resting
        => UNCHANGED <<fat, marked, chain, op, faultVars>>
    BY DEF StartRecount, FinishRecount, Resting, faultVars
  <1>3. QED
    BY <1>1, <1>2, HintStep, NextCases

\* One operation at a time: while nothing runs, and no access has failed, every
\* bit ClusterBitmap shows as free is the bit of a free entry, so the hint that
\* find_free gives the search is never an occupied cluster.
THEOREM HintStaysFree ==
  ASSUME MaxBusy = 1, MaxWriteFaults = 0 PROVE Spec => []HintIsFree
  <1>1. Orderly
    BY DEF Orderly
  <1>2. Spec => []IInv
    BY <1>1, Invariant
  <1>3. IInv /\ HintInv /\ [Next]_vars => HintInv'
    BY <1>1, NextHintInv
  <1>4. HintInv => HintIsFree
    BY DEF HintInv, BitsInv, HintIsFree, Quiet, Busy
  <1>5. QED
    BY <1>2, <1>3, <1>4, InitHintInv, PTL DEF Spec

-----------------------------------------------------------------------------
(***************************************************************************)
(* The free count.  It differs from the number of free entries by the      *)
(* clusters marked but not yet counted, and by those released but not yet  *)
(* counted; the counter is a machine integer, so it agrees modulo CountMod.*)
(***************************************************************************)
Taken == {f \in Files : op[f].pc \in {"link", "bit", "count"}}
Pending == {w \in Files \X Nat : 1 <= w[2] /\ w[2] <= op[w[1]].freed}
Ledger == Cardinality(FreeClusters) - Cardinality(Pending) + Cardinality(Taken)
Agrees(n, a) == \E k \in Int : n = a + k * CountMod

Early == {"idle", "scan", "rescan", "mark", "link", "bit", "count", "tnext", "teoc", "collect"}

FreedInv ==
  /\ \A f \in Files : op[f].pc \in Early => op[f].freed = 0
  /\ IsFiniteSet(Pending)

CountInv ==
  NoFaults /\ (CountKnown \/ MaxBusy = 1) =>
    /\ CountKnown => count # -1
    /\ count # -1 => Agrees(count, Ledger)
    /\ recount # -1 => ~CountKnown /\ Busy = {} /\ recount = Cardinality(FreeClusters)

LEMMA DivMod ==
  ASSUME NEW x \in Int, NEW m \in Nat \ {0}
  PROVE  x \div m \in Int /\ x = m * (x \div m) + (x % m) /\ x % m \in 0 .. m - 1
  BY SMT

LEMMA AgreesSelf == ASSUME NEW a \in Int PROVE Agrees(a, a)
  <1>1. 0 * CountMod = 0
    BY ClusterAllocAssumption
  <1>2. a = a + 0 * CountMod
    BY <1>1
  <1>3. QED
    BY <1>2 DEF Agrees

LEMMA ModAgrees ==
  ASSUME NEW n \in Int, NEW a \in Int, NEW d \in Int, Agrees(n, a)
  PROVE  Agrees((n + d) % CountMod, a + d)
  <1> DEFINE m == CountMod
  <1>1. m \in Nat \ {0}
    BY ClusterAllocAssumption
  <1> HIDE DEF m
  <1>2. PICK k \in Int : n = a + k * m
    BY DEF Agrees, m
  <1>3. PICK x \in Int : x = n + d
    OBVIOUS
  <1>4. PICK q \in Int : x = m * q + (x % m) /\ x % m \in Int
    <2>1. x \div m \in Int /\ x = m * (x \div m) + (x % m) /\ x % m \in 0 .. m - 1
      BY <1>1, DivMod
    <2>2. x % m \in Int
      BY <1>1, <2>1
    <2>3. QED
      BY <2>1, <2>2
  <1>5. m * q = q * m /\ k * m - q * m = (k - q) * m /\ k - q \in Int
    BY <1>1
  <1>6. k * m \in Int /\ q * m \in Int
    BY <1>1
  <1>7. x % m = (a + d) + (k - q) * m
    BY <1>2, <1>3, <1>4, <1>5, <1>6
  <1>8. QED
    BY <1>3, <1>5, <1>7 DEF Agrees, m

LEMMA AgreesExactly ==
  ASSUME NEW n \in 0 .. CountMod - 1, NEW a \in 0 .. CountMod - 1, Agrees(n, a)
  PROVE  n = a
  <1> DEFINE m == CountMod
  <1>1. m \in Nat \ {0} /\ n \in 0 .. m - 1 /\ a \in 0 .. m - 1
    BY ClusterAllocAssumption
  <1> HIDE DEF m
  <1>2. PICK k \in Int : n = a + k * m
    BY DEF Agrees, m
  <1>3. CASE k = 0
    BY <1>1, <1>2, <1>3
  <1>4. CASE k >= 1
    <2>1. k * m >= m /\ k * m \in Int
      BY <1>1, <1>4, SMT
    <2>2. QED
      BY <1>1, <1>2, <2>1
  <1>5. CASE k <= -1
    <2>1. k * m <= -m /\ k * m \in Int
      BY <1>1, <1>5, SMT
    <2>2. QED
      BY <1>1, <1>2, <2>1
  <1>6. QED
    BY <1>3, <1>4, <1>5

LEMMA TakenAfter ==
  ASSUME NEW f \in Files, \A g \in Files \ {f} : op'[g] = op[g]
  PROVE  /\ f \in Taken /\ f \in Taken' => Cardinality(Taken)' = Cardinality(Taken)
         /\ f \notin Taken /\ f \notin Taken' => Cardinality(Taken)' = Cardinality(Taken)
         /\ f \notin Taken /\ f \in Taken' => Cardinality(Taken)' = Cardinality(Taken) + 1
         /\ f \in Taken /\ f \notin Taken' => Cardinality(Taken)' = Cardinality(Taken) - 1
  <1>1. IsFiniteSet(Taken) /\ Cardinality(Taken) \in Nat /\ Cardinality(Taken)' = Cardinality(Taken')
    BY FilesFinite DEF Taken
  <1>2. /\ f \in Taken' => Taken' = Taken \cup {f}
        /\ f \notin Taken' => Taken' = Taken \ {f}
    BY DEF Taken
  <1>3. /\ f \in Taken => Taken \cup {f} = Taken
        /\ f \notin Taken => Taken \ {f} = Taken
    OBVIOUS
  <1>4. /\ f \notin Taken => Cardinality(Taken \cup {f}) = Cardinality(Taken) + 1
        /\ f \in Taken => Cardinality(Taken \ {f}) = Cardinality(Taken) - 1
    BY <1>1, FS_AddElement, FS_RemoveElement
  <1>5. QED
    BY <1>1, <1>2, <1>3, <1>4

LEMMA PendingAfter ==
  ASSUME NEW f \in Files, \A g \in Files \ {f} : op'[g] = op[g],
         IsFiniteSet(Pending), op[f].freed \in Nat
  PROVE  /\ op'[f].freed = op[f].freed =>
              IsFiniteSet(Pending') /\ Cardinality(Pending)' = Cardinality(Pending)
         /\ op'[f].freed = op[f].freed + 1 =>
              IsFiniteSet(Pending') /\ Cardinality(Pending)' = Cardinality(Pending) + 1
         /\ op'[f].freed = 0 =>
              /\ IsFiniteSet(Pending')
              /\ Cardinality(Pending)' = Cardinality(Pending) - op[f].freed
  <1>1. PICK n \in Nat : n = op[f].freed
    OBVIOUS
  <1>2. Cardinality(Pending)' = Cardinality(Pending') /\ Cardinality(Pending) \in Nat
    BY FS_CardinalityType
  <1>3. ASSUME op'[f].freed = op[f].freed PROVE Pending' = Pending
    BY <1>3 DEF Pending
  <1>4. ASSUME op'[f].freed = op[f].freed + 1
        PROVE  Pending' = Pending \cup {<<f, n + 1>>} /\ <<f, n + 1>> \notin Pending
    <2>1. ASSUME NEW g \in Files, NEW i \in Nat
          PROVE  (1 <= i /\ i <= op'[g].freed) <=>
                 ((1 <= i /\ i <= op[g].freed) \/ (g = f /\ i = n + 1))
      <3>1. CASE g = f
        BY <1>1, <1>4, <3>1
      <3>2. CASE g # f
        BY <3>2
      <3>3. QED
        BY <3>1, <3>2
    <2>2. \A w \in Files \X Nat : w = <<f, n + 1>> <=> w[1] = f /\ w[2] = n + 1
      OBVIOUS
    <2>3. \A w \in Files \X Nat : w \in Pending' <=> w \in Pending \/ w = <<f, n + 1>>
      BY <2>1, <2>2 DEF Pending
    <2>4. <<f, n + 1>> \in Files \X Nat
      OBVIOUS
    <2>5. <<f, n + 1>> \notin Pending
      BY <1>1 DEF Pending
    <2>6. Pending \subseteq Files \X Nat /\ Pending' \subseteq Files \X Nat
      BY DEF Pending
    <2>7. QED
      BY <2>3, <2>4, <2>5, <2>6
  <1>5. ASSUME op'[f].freed = 0
        PROVE  /\ Pending' = Pending \ ({f} \X (1 .. n))
               /\ Pending \cap ({f} \X (1 .. n)) = {f} \X (1 .. n)
    <2>1. ASSUME NEW w \in Files \X Nat
          PROVE  w \in Pending' <=> w \in Pending /\ w \notin {f} \X (1 .. n)
      <3>1. CASE w[1] = f
        BY <1>1, <1>5, <3>1 DEF Pending
      <3>2. CASE w[1] # f
        <4>1. op'[w[1]] = op[w[1]] /\ w \notin {f} \X (1 .. n)
          BY <3>2
        <4>2. QED
          BY <4>1 DEF Pending
      <3>3. QED
        BY <3>1, <3>2
    <2>2. ASSUME NEW w \in {f} \X (1 .. n) PROVE w \in Pending
      <3>1. w \in Files \X Nat /\ w[1] = f /\ w[2] \in 1 .. n
        BY <1>1
      <3>2. QED
        BY <1>1, <3>1 DEF Pending
    <2>3. Pending \subseteq Files \X Nat /\ Pending' \subseteq Files \X Nat
      BY DEF Pending
    <2>4. QED
      BY <2>1, <2>2, <2>3
  <1>6. IsFiniteSet(1 .. n) /\ Cardinality(1 .. n) = n
    <2>1. Cardinality(1 .. n) = IF 1 > n THEN 0 ELSE n - 1 + 1
      BY FS_Interval
    <2>2. QED
      BY <2>1, FS_Interval
  <1>7. Cardinality({f} \X (1 .. n)) = n
    <2>1. IsFiniteSet({f}) /\ Cardinality({f}) = 1
      BY FS_Singleton
    <2>2. Cardinality({f} \X (1 .. n)) = Cardinality({f}) * Cardinality(1 .. n)
      BY <1>6, <2>1, FS_Product, Zenon
    <2>3. QED
      BY <1>6, <2>1, <2>2
  <1>8. /\ IsFiniteSet(Pending \ ({f} \X (1 .. n)))
        /\ Cardinality(Pending \ ({f} \X (1 .. n))) =
             Cardinality(Pending) - Cardinality(Pending \cap ({f} \X (1 .. n)))
    BY FS_Difference
  <1>9. <<f, n + 1>> \notin Pending =>
          /\ IsFiniteSet(Pending \cup {<<f, n + 1>>})
          /\ Cardinality(Pending \cup {<<f, n + 1>>}) = Cardinality(Pending) + 1
    BY FS_AddElement
  <1>10. QED
    BY <1>1, <1>2, <1>3, <1>4, <1>5, <1>7, <1>8, <1>9

\* What a step does to the number of clusters its operation has freed.
LEMMA FreedStep ==
  ASSUME TypeInv, NEW f \in Files, Start(f) \/ Moves(f) \/ Fails(f),
         op[f].pc \in Early => op[f].freed = 0
  PROVE  /\ op'[f].pc \in Early => op'[f].freed = 0
         /\ op'[f].freed \in {0, op[f].freed, op[f].freed + 1}
  <1> USE DEF TypeInv
  <1> DEFINE Goal == /\ op'[f].pc \in Early => op'[f].freed = 0
                     /\ op'[f].freed \in {0, op[f].freed, op[f].freed + 1}
  <1>1. ASSUME op'[f].freed = 0 PROVE Goal
    BY <1>1
  <1>2. CASE StartAppend(f)
    BY <1>1, <1>2, AppendStarts
  <1>3. ASSUME NEW k \in 1 .. Len(chain[f]), StartTruncate(f, k) PROVE Goal
    BY <1>1, <1>3, TruncateStarts
  <1>4. CASE StartRelease(f)
    BY <1>1, <1>4, ReleaseStarts
  <1>5. CASE Scan(f) \/ ScanFails(f)
    <2>1. op[f].freed = 0
      BY <1>5 DEF Scan, ScanFails, Searching, Early
    <2>2. QED
      BY <1>1, <1>5, <2>1, SearchEnds, IdleType DEF GoesOn
  <1>6. CASE MarkNew(f) \/ LinkPrevious(f) \/ SetAllocated(f) \/ TruncateEnd(f)
    <2>1. PICK p \in {"link", "bit", "count", "fnext"} : op' = [op EXCEPT ![f].pc = p]
      BY <1>6, MarkMoves, LinkMoves DEF SetAllocated, TruncateEnd
    <2>2. op'[f].freed = op[f].freed
      BY <2>1, Moved DEF Places
    <2>3. op[f].pc \in Early
      BY <1>6 DEF MarkNew, LinkPrevious, SetAllocated, TruncateEnd, Early
    <2>4. QED
      BY <1>1, <2>2, <2>3
  <1>7. CASE FinishAppend(f) \/ FinishTruncate(f) \/ FinishRelease(f) \/ WriteFails(f) \/ CollectFails(f)
    <2>1. op'[f] = Idle
      BY <1>7, IdleType, Replaced
         DEF FinishAppend, FinishTruncate, FinishRelease, WriteFails, CollectFails
    <2>2. QED
      BY <1>1, <2>1, IdleType
  <1>8. CASE TruncateNext(f)
    BY <1>1, <1>8, TruncateMoves DEF TruncateNext, Early
  <1>9. CASE Collect(f)
    BY <1>1, <1>9, CollectMoves DEF Collect, Early
  <1>10. CASE FreeNext(f)
    <2>1. op[f].at \in Clusters \cup {None}
      BY <1>10 DEF FreeNext, InOperation
    <2>2. op'[f].pc = "ffree" /\ op'[f].freed = op[f].freed
      BY <1>10, <2>1, FreeMoves
    <2>3. QED
      BY <2>2 DEF Early
  <1>11. CASE FreeWrite(f)
    BY <1>11, FreeWrites DEF Early
  <1>12. CASE FreeEnd(f) \/ SetFree(f)
    <2>1. PICK p \in {"tcount", "fbits", "fcount"} : op' = [op EXCEPT ![f].pc = p]
      BY <1>12, FreeEnds DEF SetFree
    <2>2. op'[f].pc = p /\ op'[f].freed = op[f].freed
      BY <2>1, Moved DEF Places
    <2>3. QED
      BY <2>2 DEF Early
  <1>13. CASE NextFails(f)
    <2>1. op[f].at \in Clusters \cup {None}
      BY <1>13 DEF NextFails, InOperation
    <2>2. /\ op'[f].pc = (IF op[f].pc = "tnext" THEN "teoc" ELSE "ffree")
          /\ op'[f].freed = op[f].freed
      BY <1>13, <2>1, NextFailsMoves
    <2>3. op[f].pc = "tnext" => op'[f].freed = 0
      BY <2>2 DEF Early
    <2>4. op[f].pc # "tnext" => op'[f].pc \notin Early
      BY <2>2 DEF Early
    <2>5. QED
      BY <2>2, <2>3, <2>4
  <1>14. QED
    BY <1>2, <1>3, <1>4, <1>5, <1>6, <1>7, <1>8, <1>9, <1>10, <1>11, <1>12, <1>13
       DEF Start, Moves, Fails

LEMMA FreedKept ==
  ASSUME TypeInv, Orderly, FreedInv, NEW f \in Files, Start(f) \/ Moves(f) \/ Fails(f)
  PROVE  FreedInv'
  <1>1. \A g \in Files \ {f} : op'[g] = op[g]
    BY WhoWorks
  <1>2. op[f].freed \in Nat
    BY DEF TypeInv, StateOK, Locals
  <1>3. /\ op'[f].pc \in Early => op'[f].freed = 0
        /\ op'[f].freed \in {0, op[f].freed, op[f].freed + 1}
    BY FreedStep DEF FreedInv
  <1>4. IsFiniteSet(Pending')
    BY <1>1, <1>2, <1>3, PendingAfter DEF FreedInv
  <1>5. QED
    BY <1>1, <1>3, <1>4 DEF FreedInv

\* How every operation starts.
LEMMA Starts ==
  ASSUME StateOK, NEW f \in Files, Start(f)
  PROVE  /\ op[f].pc = "idle" /\ op[f].freed = 0
         /\ op'[f].pc \in {"scan", "tnext", "collect", "fnext"} /\ op'[f].freed = 0
         /\ UNCHANGED <<fat, count, faultVars>>
  <1>1. CASE StartAppend(f)
    <2>1. op'[f].pc = "scan" /\ op'[f].freed = 0
      BY <1>1, AppendStarts
    <2>2. op[f] = Idle /\ UNCHANGED <<fat, count, faultVars>>
      BY <1>1 DEF StartAppend, CanStart
    <2>3. QED
      BY <2>1, <2>2 DEF Idle
  <1>2. ASSUME NEW k \in 1 .. Len(chain[f]), StartTruncate(f, k)
        PROVE  /\ op[f].pc = "idle" /\ op[f].freed = 0 /\ op'[f].pc = "tnext"
               /\ op'[f].freed = 0 /\ UNCHANGED <<fat, count, faultVars>>
    <2>1. op'[f].pc = "tnext" /\ op'[f].freed = 0
      BY <1>2, TruncateStarts
    <2>2. op[f] = Idle /\ UNCHANGED <<fat, count, faultVars>>
      BY <1>2 DEF StartTruncate, CanStart
    <2>3. QED
      BY <2>1, <2>2 DEF Idle
  <1>3. CASE StartRelease(f)
    <2>1. op'[f].pc \in {"collect", "fnext"} /\ op'[f].freed = 0
      BY <1>3, ReleaseStarts
    <2>2. op[f] = Idle /\ UNCHANGED <<fat, count, faultVars>>
      BY <1>3 DEF StartRelease, CanStart
    <2>3. QED
      BY <2>1, <2>2 DEF Idle
  <1>4. QED
    BY <1>1, <1>2, <1>3 DEF Start

\* A step changes the count and the ledger alike.
LEMMA LedgerStep ==
  ASSUME IInv, Orderly, FreedInv, NEW f \in Files, Start(f) \/ Moves(f) \/ Fails(f), NoFaults'
  PROVE  \/ count' = count /\ Ledger' = Ledger
         \/ \E d \in Int : count' = MapCount(d) /\ Ledger' = Ledger + d
  <1> USE DEF IInv
  <1>1. PICK rest \in [Files -> Seq(Clusters)] : Sound(rest)
    BY DEF ChainInv
  <1>2. FileOK(f, rest[f]) /\ rest[f] \in Seq(Clusters)
    BY <1>1 DEF Sound
  <1>3. PICK q \in Seq(Clusters) : StepOn(f, rest[f], q)
    BY <1>2, EveryStep, WritesAreWhole
  <1>4. ~op[f].err
    BY <1>2, <1>3 DEF StepOn, FileOK, Lost
  <1>5. \A g \in Files \ {f} : op'[g] = op[g]
    BY WhoWorks
  <1>6. /\ IsFiniteSet(FreeClusters) /\ Cardinality(FreeClusters) \in Nat
        /\ Cardinality(FreeClusters)' = Cardinality(FreeClusters')
    BY FreeClustersType, ClustersFinite
  <1>7. /\ Cardinality(Taken) \in Nat /\ Cardinality(Pending) \in Nat /\ op[f].freed \in Nat
    BY FilesFinite, FS_CardinalityType DEF Taken, FreedInv, TypeInv, StateOK, Locals
  <1>8. /\ op'[f].freed = op[f].freed => Cardinality(Pending)' = Cardinality(Pending)
        /\ op'[f].freed = op[f].freed + 1 => Cardinality(Pending)' = Cardinality(Pending) + 1
        /\ op'[f].freed = 0 => Cardinality(Pending)' = Cardinality(Pending) - op[f].freed
    BY <1>5, <1>7, PendingAfter DEF FreedInv
  <1>9. /\ f \in Taken /\ f \in Taken' => Cardinality(Taken)' = Cardinality(Taken)
        /\ f \notin Taken /\ f \notin Taken' => Cardinality(Taken)' = Cardinality(Taken)
        /\ f \notin Taken /\ f \in Taken' => Cardinality(Taken)' = Cardinality(Taken) + 1
        /\ f \in Taken /\ f \notin Taken' => Cardinality(Taken)' = Cardinality(Taken) - 1
    BY <1>5, TakenAfter
  <1>10. /\ f \in Taken <=> op[f].pc \in {"link", "bit", "count"}
         /\ f \in Taken' <=> op'[f].pc \in {"link", "bit", "count"}
    BY DEF Taken
  <1>11. ASSUME FreeClusters' = FreeClusters, count' = count, op'[f].freed = op[f].freed,
                f \in Taken' <=> f \in Taken
         PROVE  count' = count /\ Ledger' = Ledger
    <2>1. Cardinality(FreeClusters)' = Cardinality(FreeClusters)
      BY <1>11, <1>6
    <2>2. QED
      BY <1>11, <1>8, <1>9, <2>1 DEF Ledger
  <1>12. op[f].pc \in Early => op[f].freed = 0
    BY DEF FreedInv
  <1>13. /\ op'[f].pc \in Early => op'[f].freed = 0
         /\ op'[f].freed \in {0, op[f].freed, op[f].freed + 1}
    BY <1>12, FreedStep
  <1>14. ~Fails(f)
    <2>1. readFaults \in Nat /\ writeFaults \in Nat
      BY ClusterAllocAssumption DEF TypeInv, StateOK
    <2>2. QED
      BY <2>1 DEF Fails, ScanFails, WriteFails, NextFails, CollectFails, NoFaults
  <1>15. CASE MarkNew(f)
    <2>1. PICK p \in {"link", "bit", "count"} : op' = [op EXCEPT ![f].pc = p]
      BY <1>15, MarkMoves DEF TypeInv
    <2>2. op'[f].pc = p /\ op'[f].freed = op[f].freed
      BY <2>1, Moved DEF Places, TypeInv
    <2>3. f \notin Taken /\ f \in Taken'
      BY <1>10, <1>15, <2>2 DEF MarkNew
    <2>4. op[f].target \in FreeClusters
      BY <1>2, <1>4, <1>15 DEF MarkNew, FileOK, Links, FreeClusters, FreeIn, TypeInv, InOperation
    <2>5. FreeClusters' = FreeClusters \ {op[f].target}
      <3>1. fat' = [fat EXCEPT ![op[f].target] = EOC]
        BY <1>15, WritesAreWhole, WholeWrites
      <3>2. QED
        BY <2>4, <3>1, Numbers DEF FreeClusters, FreeIn, TypeInv, StateOK
    <2>6. Cardinality(FreeClusters)' = Cardinality(FreeClusters) - 1
      BY <1>6, <2>4, <2>5, FS_RemoveElement
    <2>7. Cardinality(Taken)' = Cardinality(Taken) + 1 /\ Cardinality(Pending)' = Cardinality(Pending)
      BY <1>8, <1>9, <2>2, <2>3
    <2>8. Ledger' = Ledger
      BY <1>6, <1>7, <2>6, <2>7 DEF Ledger
    <2>9. QED
      BY <1>15, <2>8 DEF MarkNew
  <1>16. CASE FinishAppend(f)
    <2>1. op'[f] = Idle
      BY <1>16, IdleType, Replaced DEF FinishAppend, TypeInv
    <2>2. f \in Taken /\ f \notin Taken' /\ op'[f].freed = op[f].freed
      BY <1>10, <1>12, <1>16, <2>1, IdleType DEF FinishAppend, Early
    <2>3. Cardinality(Taken)' = Cardinality(Taken) - 1 /\ Cardinality(Pending)' = Cardinality(Pending)
      BY <1>8, <1>9, <2>2
    <2>4. Cardinality(FreeClusters)' = Cardinality(FreeClusters)
      BY <1>6, <1>16 DEF FinishAppend, FreeClusters
    <2>5. count' = MapCount(-1) /\ Ledger' = Ledger + (-1) /\ -1 \in Int
      BY <1>6, <1>7, <1>16, <2>3, <2>4 DEF FinishAppend, Ledger
    <2>6. QED
      BY <2>5
  <1>17. CASE FreeWrite(f)
    <2>1. op'[f].pc = "fnext" /\ op'[f].freed = op[f].freed + 1 /\ op[f].pc = "ffree"
      BY <1>4, <1>17, FreeWrites DEF FreeWrite, TypeInv
    <2>2. f \notin Taken /\ f \notin Taken'
      BY <1>10, <2>1
    <2>3. op[f].target \notin FreeClusters /\ op[f].target \in Clusters
      BY <1>2, <1>4, <1>17 DEF FreeWrite, FileOK, Links, FreeClusters, FreeIn, TypeInv, InOperation
    <2>4. FreeClusters' = FreeClusters \cup {op[f].target}
      <3>1. fat' = [fat EXCEPT ![op[f].target] = Free]
        BY <1>17, WritesAreWhole, WholeWrites
      <3>2. QED
        BY <2>3, <3>1 DEF FreeClusters, FreeIn, TypeInv, StateOK
    <2>5. Cardinality(FreeClusters)' = Cardinality(FreeClusters) + 1
      BY <1>6, <2>3, <2>4, FS_AddElement
    <2>6. Cardinality(Taken)' = Cardinality(Taken) /\ Cardinality(Pending)' = Cardinality(Pending) + 1
      BY <1>8, <1>9, <2>1, <2>2
    <2>7. Ledger' = Ledger
      BY <1>6, <1>7, <2>5, <2>6 DEF Ledger
    <2>8. QED
      BY <1>17, <2>7 DEF FreeWrite
  <1>18. CASE FinishTruncate(f) \/ FinishRelease(f)
    <2>1. op'[f] = Idle
      BY <1>18, IdleType, Replaced DEF FinishTruncate, FinishRelease, TypeInv
    <2>2. f \notin Taken /\ f \notin Taken' /\ op'[f].freed = 0
      BY <1>10, <1>18, <2>1, IdleType DEF FinishTruncate, FinishRelease
    <2>3. /\ Cardinality(Taken)' = Cardinality(Taken)
          /\ Cardinality(Pending)' = Cardinality(Pending) - op[f].freed
      BY <1>8, <1>9, <2>2
    <2>4. Cardinality(FreeClusters)' = Cardinality(FreeClusters)
      BY <1>6, <1>18 DEF FinishTruncate, FinishRelease, FreeClusters
    <2>5. count' = MapCount(op[f].freed) /\ Ledger' = Ledger + op[f].freed
      BY <1>6, <1>7, <1>18, <2>3, <2>4 DEF FinishTruncate, FinishRelease, Ledger
    <2>6. QED
      BY <1>7, <2>5
  <1>19. CASE LinkPrevious(f) \/ TruncateEnd(f)
    <2>1. PICK p \in {"bit", "count", "fnext"} :
            op' = [op EXCEPT ![f].pc = p] /\ (p = "fnext" <=> op[f].pc = "teoc")
      BY <1>19, LinkMoves DEF LinkPrevious, TruncateEnd, TypeInv
    <2>2. op'[f].pc = p /\ op'[f].freed = op[f].freed
      BY <2>1, Moved DEF Places, TypeInv
    <2>3. f \in Taken' <=> f \in Taken
      BY <1>10, <1>19, <2>1, <2>2 DEF LinkPrevious, TruncateEnd
    <2>4. chain[f] \in Seq(Clusters) /\ ClustersOf(f) = Members(chain[f])
      BY ChainType DEF TypeInv
    <2>5. \E c \in ClustersOf(f), v \in Clusters \cup {EOC} : fat' = [fat EXCEPT ![c] = v]
      <3>1. CASE LinkPrevious(f)
        <4>1. op[f].target \in Clusters /\ chain[f] # <<>>
          BY <3>1 DEF LinkPrevious, TypeInv, InOperation
        <4>2. Last(chain[f]) \in ClustersOf(f)
          BY <2>4, <4>1, SeqFacts
        <4>3. QED
          BY <3>1, <4>1, <4>2, WritesAreWhole, WholeWrites
      <3>2. CASE TruncateEnd(f)
        <4>1. op[f].keep \in 1 .. Len(chain[f])
          BY <3>2 DEF TruncateEnd, TypeInv, InOperation
        <4>2. chain[f][op[f].keep] \in ClustersOf(f)
          BY <4>1 DEF ClustersOf
        <4>3. QED
          BY <3>2, <4>2, WritesAreWhole, WholeWrites
      <3>3. QED
        BY <1>19, <3>1, <3>2
    <2>6. PICK c \in ClustersOf(f), v \in Clusters \cup {EOC} : fat' = [fat EXCEPT ![c] = v]
      BY <2>5
    <2>7. fat[c] # Free /\ v # Free /\ c \in Clusters
      BY <1>2, <1>4, <2>4, OwnNotFree, SeqFacts, Numbers DEF Own
    <2>8. FreeClusters' = FreeClusters
      BY <2>6, <2>7 DEF FreeClusters, FreeIn, TypeInv, StateOK
    <2>9. count' = count
      BY <1>19 DEF LinkPrevious, TruncateEnd
    <2>10. QED
      BY <1>11, <2>2, <2>3, <2>8, <2>9
  <1>20. CASE Start(f) \/ Scan(f) \/ TruncateNext(f) \/ Collect(f) \/ FreeNext(f)
              \/ SetAllocated(f) \/ FreeEnd(f) \/ SetFree(f)
    <2>1. FreeClusters' = FreeClusters /\ count' = count
      BY <1>20, Starts DEF TypeInv, Scan, TruncateNext, Collect, FreeNext, SetAllocated, FreeEnd,
                           SetFree, FreeClusters
    <2>2. op'[f].freed = op[f].freed
      <3>1. CASE FreeEnd(f) \/ SetFree(f) \/ SetAllocated(f)
        <4>1. PICK p \in {"count", "tcount", "fbits", "fcount"} : op' = [op EXCEPT ![f].pc = p]
          BY <3>1, FreeEnds DEF SetFree, SetAllocated, TypeInv
        <4>2. QED
          BY <4>1, Moved DEF Places, TypeInv
      <3>2. CASE FreeNext(f)
        <4>1. op[f].at \in Clusters \cup {None}
          BY <3>2 DEF FreeNext, TypeInv, InOperation
        <4>2. QED
          BY <3>2, <4>1, FreeMoves DEF TypeInv
      <3>3. CASE TruncateNext(f) \/ Collect(f)
        BY <3>3, TruncateMoves, CollectMoves DEF TypeInv
      <3>4. CASE Scan(f)
        <4>1. op[f].freed = 0
          BY <3>4, <1>12 DEF Scan, Early, Searching
        <4>2. QED
          BY <3>4, <4>1, SearchEnds, IdleType DEF TypeInv, GoesOn
      <3>5. CASE Start(f)
        <4>1. op'[f].freed = 0 /\ op[f].freed = 0
          BY <3>5, Starts DEF TypeInv
        <4>2. QED
          BY <4>1
      <3>6. QED
        BY <1>20, <3>1, <3>2, <3>3, <3>4, <3>5
    <2>3. f \in Taken' <=> f \in Taken
      <3>1. CASE SetAllocated(f)
        <4>1. op'[f].pc = "count"
          BY <3>1, Moved DEF SetAllocated, Places, TypeInv
        <4>2. QED
          BY <1>10, <3>1, <4>1 DEF SetAllocated
      <3>2. CASE FreeEnd(f) \/ SetFree(f)
        <4>1. PICK p \in {"tcount", "fbits", "fcount"} : op' = [op EXCEPT ![f].pc = p]
          BY <3>2, FreeEnds DEF SetFree, TypeInv
        <4>2. op'[f].pc = p
          BY <4>1, Moved DEF Places, TypeInv
        <4>3. QED
          BY <1>10, <3>2, <4>2 DEF FreeEnd, SetFree
      <3>3. CASE FreeNext(f)
        <4>1. op[f].at \in Clusters \cup {None}
          BY <3>3 DEF FreeNext, TypeInv, InOperation
        <4>2. op'[f].pc = "ffree"
          BY <3>3, <4>1, FreeMoves DEF TypeInv
        <4>3. QED
          BY <1>10, <3>3, <4>2 DEF FreeNext
      <3>4. CASE TruncateNext(f)
        BY <1>10, <3>4, TruncateMoves DEF TypeInv, TruncateNext
      <3>5. CASE Collect(f)
        <4>1. op[f].pc = "collect" /\ op'[f].pc \in {"collect", "fnext"}
          BY <3>5, CollectMoves DEF TypeInv, Collect
        <4>2. QED
          BY <1>10, <4>1
      <3>6. CASE Scan(f)
        <4>1. op'[f].pc \in Searching \cup {"idle", "mark"}
          BY <3>6, SearchEnds, IdleType DEF TypeInv, GoesOn
        <4>2. op[f].pc \in Searching
          BY <3>6 DEF Scan
        <4>3. QED
          BY <1>10, <4>1, <4>2 DEF Searching
      <3>7. CASE Start(f)
        <4>1. op[f].pc = "idle" /\ op'[f].pc \in {"scan", "tnext", "collect", "fnext"}
          BY <3>7, Starts DEF TypeInv
        <4>2. QED
          BY <1>10, <4>1
      <3>8. QED
        BY <1>20, <3>1, <3>2, <3>3, <3>4, <3>5, <3>6, <3>7
    <2>4. QED
      BY <1>11, <2>1, <2>2, <2>3
  <1>21. QED
    BY <1>14, <1>15, <1>16, <1>17, <1>18, <1>19, <1>20 DEF Moves

LEMMA LedgerType ==
  ASSUME TypeInv, FreedInv
  PROVE  /\ Ledger \in Int /\ count \in Int /\ Cardinality(FreeClusters) \in 0 .. Total
         /\ recount \in Int /\ CountMod \in Nat \ {0}
  <1>1. Cardinality(FreeClusters) \in 0 .. Total
    BY FreeClustersType, ClustersFinite
  <1>2. Cardinality(Taken) \in Nat /\ Cardinality(Pending) \in Nat
    BY FilesFinite, FS_CardinalityType DEF Taken, FreedInv
  <1>3. Total \in Nat /\ CountMod \in Nat \ {0}
    BY ClusterAllocAssumption
  <1>4. count \in -1 .. CountMod - 1 /\ recount \in -1 .. Total
    BY DEF TypeInv, StateOK
  <1>5. QED
    BY <1>1, <1>2, <1>3, <1>4 DEF Ledger

\* While nothing runs there is nothing to count.
LEMMA IdleLedger ==
  ASSUME TypeInv, FreedInv, Busy = {}
  PROVE  Ledger = Cardinality(FreeClusters)
  <1>1. \A g \in Files : op[g].pc = "idle"
    BY DEF Busy
  <1>2. \A g \in Files : op[g].freed = 0
    BY <1>1 DEF FreedInv, Early
  <1>3. Taken = {} /\ Pending = {}
    BY <1>1, <1>2 DEF Taken, Pending
  <1>4. QED
    BY <1>3, FS_EmptySet, LedgerType DEF Ledger

LEMMA FaultsGrow ==
  ASSUME TypeInv, [Next]_vars
  PROVE  /\ readFaults' \in {readFaults, readFaults + 1}
         /\ writeFaults' \in {writeFaults, writeFaults + 1}
         /\ readFaults \in Nat /\ writeFaults \in Nat
  <1>1. readFaults \in Nat /\ writeFaults \in Nat
    BY ClusterAllocAssumption DEF TypeInv, StateOK
  <1>2. ASSUME NEW f \in Files, Start(f) \/ Moves(f) \/ Fails(f)
        PROVE  readFaults' \in {readFaults, readFaults + 1} /\ writeFaults' \in {writeFaults, writeFaults + 1}
    <2>1. CASE Start(f)
      BY <2>1, Starts DEF TypeInv, faultVars
    <2>2. CASE Moves(f)
      <3>1. CASE Scan(f) \/ MarkNew(f) \/ LinkPrevious(f) \/ SetAllocated(f) \/ FinishAppend(f)
                 \/ TruncateNext(f) \/ TruncateEnd(f) \/ FinishTruncate(f)
        BY <3>1 DEF Scan, MarkNew, LinkPrevious, SetAllocated, FinishAppend, TruncateNext,
           TruncateEnd, FinishTruncate, faultVars
      <3>2. CASE Collect(f) \/ FreeNext(f) \/ FreeWrite(f) \/ FreeEnd(f) \/ SetFree(f)
                 \/ FinishRelease(f)
        BY <3>2 DEF Collect, FreeNext, FreeWrite, FreeEnd, SetFree, FinishRelease, faultVars
      <3>3. QED
        BY <2>2, <3>1, <3>2 DEF Moves
    <2>3. CASE Fails(f)
      BY <2>3 DEF Fails, ScanFails, WriteFails, NextFails, CollectFails
    <2>4. QED
      BY <1>2, <2>1, <2>2, <2>3
  <1>3. readFaults' \in {readFaults, readFaults + 1} /\ writeFaults' \in {writeFaults, writeFaults + 1}
    BY <1>2, NextCases DEF StartRecount, FinishRecount, Resting, faultVars
  <1>4. QED
    BY <1>1, <1>3

LEMMA FaultsStay ==
  ASSUME TypeInv, [Next]_vars, NoFaults'
  PROVE  NoFaults
  BY FaultsGrow DEF NoFaults

LEMMA InitCounts == Init => FreedInv /\ CountInv
  <1> SUFFICES ASSUME Init PROVE FreedInv /\ CountInv
    OBVIOUS
  <1>1. \A g \in Files : op[g] = Idle
    BY DEF Init
  <1>2. TypeInv
    BY InitTypeInv
  <1>3. Pending = {} /\ Busy = {}
    BY <1>1, IdleType DEF Pending, Busy, Idle
  <1>4. FreedInv
    BY <1>1, <1>3, FS_EmptySet DEF FreedInv, Idle
  <1>10. recount = -1 /\ count = (IF CountKnown THEN Total ELSE -1)
    BY DEF Init
  <1>5. Ledger = Cardinality(FreeClusters)
    BY <1>2, <1>3, <1>4, IdleLedger
  <1>6. Cardinality(FreeClusters) = Total
    <2>1. FreeClusters = Clusters
      BY DEF Init, FreeClusters, FreeIn
    <2>2. Cardinality(Clusters) = Total
      BY ClusterAllocAssumption, FS_Interval DEF Clusters, Reserved
    <2>3. QED
      BY <2>1, <2>2
  <1>7. Agrees(Total, Total)
    BY AgreesSelf, ClusterAllocAssumption
  <1>8. Total # -1
    BY ClusterAllocAssumption
  <1>9. CountInv
    <2>1. count # -1 => count = Total /\ Ledger = Total
      BY <1>5, <1>6, <1>10
    <2>2. count # -1 => Agrees(count, Ledger)
      BY <1>7, <2>1
    <2>3. QED
      BY <1>8, <1>10, <2>2 DEF CountInv
  <1>11. QED
    BY <1>4, <1>9

LEMMA CountStep ==
  ASSUME IInv, Orderly, FreedInv, CountInv, NEW f \in Files, Start(f) \/ Moves(f) \/ Fails(f),
         [Next]_vars
  PROVE  CountInv'
  <1> USE DEF IInv
  <1> SUFFICES ASSUME NoFaults', CountKnown \/ MaxBusy = 1
               PROVE  /\ CountKnown => count' # -1
                      /\ count' # -1 => Agrees(count', Ledger')
                      /\ recount' # -1 => ~CountKnown /\ Busy' = {}
                                          /\ recount' = Cardinality(FreeClusters')
    BY DEF CountInv, Agrees
  <1>1. NoFaults
    BY FaultsStay
  <1>2. /\ CountKnown => count # -1
        /\ count # -1 => Agrees(count, Ledger)
        /\ recount # -1 => ~CountKnown
    BY <1>1 DEF CountInv
  <1>3. recount' = -1
    <2>1. recount' = recount
      BY WhoWorks
    <2>2. MaxBusy = 1 => recount = -1
      BY OthersIdle
    <2>3. QED
      BY <1>2, <2>1, <2>2
  <1>4. CASE count' = count /\ Ledger' = Ledger
    BY <1>2, <1>3, <1>4
  <1>5. ASSUME NEW d \in Int, count' = MapCount(d), Ledger' = Ledger + d
        PROVE  /\ CountKnown => count' # -1
               /\ count' # -1 => Agrees(count', Ledger')
    <2>1. CASE count = -1
      BY <1>2, <1>5, <2>1 DEF MapCount
    <2>2. CASE count # -1
      <3>1. count' = (count + d) % CountMod
        BY <1>5, <2>2 DEF MapCount
      <3>2. Agrees(count', Ledger')
        BY <1>2, <1>5, <2>2, <3>1, LedgerType, ModAgrees
      <3>3. count' # -1
        <4>1. PICK n \in Int : n = count + d
          BY LedgerType
        <4>2. n % CountMod \in 0 .. CountMod - 1
          BY LedgerType, DivMod
        <4>3. QED
          BY <3>1, <4>1, <4>2, LedgerType
      <3>4. QED
        BY <3>2, <3>3
    <2>3. QED
      BY <2>1, <2>2
  <1>6. QED
    BY <1>3, <1>4, <1>5, LedgerStep

LEMMA CountRecount ==
  ASSUME IInv, Orderly, FreedInv, CountInv, StartRecount \/ FinishRecount \/ Resting
  PROVE  FreedInv' /\ CountInv'
  <1> USE DEF IInv
  <1>1. UNCHANGED <<fat, op, faultVars>>
    BY DEF StartRecount, FinishRecount, Resting, faultVars
  <1>2. /\ FreedInv' = FreedInv /\ Ledger' = Ledger /\ Busy' = Busy
        /\ Cardinality(FreeClusters') = Cardinality(FreeClusters) /\ NoFaults' = NoFaults
    BY <1>1 DEF FreedInv, Ledger, Busy, FreeClusters, FreeIn, Pending, Taken, NoFaults, faultVars
  <1> SUFFICES ASSUME NoFaults, CountKnown \/ MaxBusy = 1
               PROVE  /\ CountKnown => count' # -1
                      /\ count' # -1 => Agrees(count', Ledger)
                      /\ recount' # -1 => ~CountKnown /\ Busy = {}
                                          /\ recount' = Cardinality(FreeClusters)
    BY <1>2 DEF CountInv, Agrees
  <1>3. /\ CountKnown => count # -1
        /\ count # -1 => Agrees(count, Ledger)
        /\ recount # -1 => ~CountKnown /\ Busy = {} /\ recount = Cardinality(FreeClusters)
    BY DEF CountInv
  <1>4. CASE StartRecount
    <2>1. count' = count /\ count = -1 /\ recount' = Cardinality(FreeClusters)
      BY <1>4 DEF StartRecount
    <2>2. ~CountKnown /\ MaxBusy = 1
      BY <1>3, <2>1
    <2>3. Busy = {}
      <3>1. IsFiniteSet(Busy) /\ Cardinality(Busy) \in Nat
        BY FilesFinite DEF Busy
      <3>2. Cardinality(Busy) = 0
        BY <1>4, <2>2, <3>1 DEF StartRecount, Running
      <3>3. QED
        BY <3>1, <3>2, FS_EmptySet
    <2>4. QED
      BY <2>1, <2>2, <2>3
  <1>5. CASE FinishRecount
    <2>1. count' = recount /\ recount' = -1 /\ recount # -1
      BY <1>5 DEF FinishRecount
    <2>2. Ledger = recount
      BY <1>3, <2>1, IdleLedger
    <2>3. Agrees(recount, Ledger)
      BY <2>2, LedgerType, AgreesSelf
    <2>4. QED
      BY <1>3, <2>1, <2>3
  <1>6. CASE Resting
    BY <1>3, <1>6 DEF Resting
  <1>7. QED
    BY <1>4, <1>5, <1>6

\* alloc_cluster takes one from the free count after the entry is marked, and
\* truncate_cluster_chain and free_cluster_chain add what they have freed in one
\* go at the end: whenever nothing runs and no access has failed, no cluster is
\* lost and the count is the number of free entries - for tasks that interleave
\* if the count was known at mount, else for one operation at a time.
THEOREM CountStaysExact ==
  ASSUME Orderly, CountKnown \/ MaxBusy = 1 PROVE Spec => []QuietIsExact
  <1>1. FreedInv /\ CountInv /\ IInv /\ [Next]_vars => FreedInv' /\ CountInv'
    BY FreedKept, CountStep, CountRecount, NextCases DEF IInv
  <1>2. FreedInv /\ CountInv /\ IInv => QuietIsExact
    <2> SUFFICES ASSUME FreedInv, CountInv, IInv, Quiet, NoFaults, count # -1
                 PROVE  count = Cardinality(FreeClusters)
      BY SoundSpace DEF QuietIsExact, FreeCountExact
    <2> USE DEF IInv
    <2>1. Agrees(count, Ledger) /\ Ledger = Cardinality(FreeClusters)
      BY IdleLedger DEF CountInv, Quiet
    <2>2. count \in 0 .. CountMod - 1
      BY LedgerType DEF TypeInv, StateOK
    <2>3. Cardinality(FreeClusters) \in 0 .. CountMod - 1
      BY LedgerType, ClusterAllocAssumption
    <2>4. QED
      BY <2>1, <2>2, <2>3, AgreesExactly
  <1>3. QED
    BY <1>1, <1>2, InitCounts, Invariant, PTL DEF Spec

-----------------------------------------------------------------------------
(***************************************************************************)
(* A full volume.  A search that goes on has not yet passed the clusters   *)
(* that are free and were free when it began: they lie above its position  *)
(* or below its start.                                                     *)
(***************************************************************************)
Ahead(f, c) ==
  IF op[f].pc = "scan" THEN op[f].at <= c \/ c < op[f].keep
  ELSE op[f].at <= c /\ c < op[f].keep

Place(f) ==
  IF op[f].pc = "scan" THEN op[f].at \in op[f].keep .. Total + Reserved - 1
  ELSE op[f].at \in Reserved .. op[f].keep - 1

Missed(f) == \A c \in FreeClusters : c \in since[f] \/ Ahead(f, c)

SearchInv == \A f \in Files : op[f].pc \in Searching => Place(f) /\ (readFaults = 0 => Missed(f))

\* Only the steps of a search lead to one.
LEMMA SearchesOnly ==
  ASSUME TypeInv, NEW f \in Files, Start(f) \/ Moves(f) \/ Fails(f), op'[f].pc \in Searching
  PROVE  StartAppend(f) \/ Scan(f) \/ ScanFails(f)
  <1> USE DEF TypeInv, Searching
  <1>1. ASSUME NEW k \in 1 .. Len(chain[f]), StartTruncate(f, k) PROVE FALSE
    BY <1>1, TruncateStarts
  <1>2. ~StartRelease(f)
    BY ReleaseStarts
  <1>3. ~(FinishAppend(f) \/ FinishTruncate(f) \/ FinishRelease(f))
    BY IdleType, Replaced DEF FinishAppend, FinishTruncate, FinishRelease
  <1>4. ASSUME MarkNew(f) \/ LinkPrevious(f) \/ SetAllocated(f) \/ TruncateEnd(f) PROVE FALSE
    <2>1. PICK p \in {"link", "bit", "count", "fnext"} : op' = [op EXCEPT ![f].pc = p]
      BY <1>4, MarkMoves, LinkMoves DEF SetAllocated, TruncateEnd
    <2>2. QED
      BY <2>1, Moved DEF Places
  <1>5. ~TruncateNext(f) /\ ~Collect(f) /\ ~FreeWrite(f)
    <2>1. ~TruncateNext(f)
      BY TruncateMoves
    <2>2. ~Collect(f)
      BY CollectMoves DEF Collect
    <2>3. ~FreeWrite(f)
      BY FreeWrites
    <2>4. QED
      BY <2>1, <2>2, <2>3
  <1>6. ASSUME FreeNext(f) PROVE FALSE
    <2>1. op[f].at \in Clusters \cup {None}
      BY <1>6 DEF FreeNext, InOperation
    <2>2. QED
      BY <1>6, <2>1, FreeMoves
  <1>7. ASSUME FreeEnd(f) \/ SetFree(f) PROVE FALSE
    <2>1. PICK p \in {"tcount", "fbits", "fcount"} : op' = [op EXCEPT ![f].pc = p]
      BY <1>7, FreeEnds DEF SetFree
    <2>2. QED
      BY <2>1, Moved DEF Places
  <1>8. ~WriteFails(f) /\ ~CollectFails(f)
    BY IdleType, Replaced DEF WriteFails, CollectFails
  <1>9. ASSUME NextFails(f) PROVE FALSE
    <2>1. op[f].at \in Clusters \cup {None}
      BY <1>9 DEF NextFails, InOperation
    <2>2. QED
      BY <1>9, <2>1, NextFailsMoves
  <1>10. QED
    BY <1>1, <1>2, <1>3, <1>4, <1>5, <1>6, <1>7, <1>8, <1>9 DEF Start, Moves, Fails

LEMMA SearchGoesOn ==
  ASSUME TypeInv, NEW f \in Files, op[f].pc \in Searching, Place(f), readFaults = 0 => Missed(f),
         Scan(f) \/ ScanFails(f), op'[f].pc \in Searching, Remember
  PROVE  Place(f)' /\ (readFaults' = 0 => Missed(f)')
  <1> USE DEF TypeInv
  <1>1. op[f] \in Locals /\ InOperation(f) /\ op[f].keep \in 0 .. Total + Reserved - 1
    BY DEF StateOK, InOperation, Searching
  <1>2. FreeClusters' = FreeClusters /\ FreeClusters \subseteq Clusters
    BY FreeClustersType DEF Scan, ScanFails, FreeClusters
  <1>3. since'[f] = since[f] \cup (FreeIn(fat') \ FreeClusters)
    BY DEF Remember
  <1>4. Clusters = Reserved .. Total + Reserved - 1 /\ Reserved \in Nat /\ Total \in Nat
    BY ClusterAllocAssumption DEF Clusters, Reserved
  <1>5. op[f].at \in Nat /\ op[f].keep \in Nat
    BY <1>1 DEF Locals
  <1>6. CASE op' = [op EXCEPT ![f] = NextSearch(f)]
    <2>1. /\ op'[f].pc = "rescan" /\ op'[f].at = Reserved /\ op'[f].keep = op[f].keep
          /\ op[f].pc = "scan" /\ op[f].keep > Reserved
      <3>1. op'[f] # Idle
        BY IdleType DEF Searching
      <3>2. QED
        BY <1>6, <3>1, SearchesBelow DEF GoesOn
    <2>2. Place(f)'
      BY <1>4, <1>5, <2>1 DEF Place
    <2>3. ASSUME readFaults' = 0, NEW c \in FreeClusters PROVE c \in since'[f] \/ Ahead(f, c)'
      <3>1. Scan(f)
        <4>1. readFaults \in Nat
          BY ClusterAllocAssumption DEF StateOK
        <4>2. ScanFails(f) => readFaults' = readFaults + 1
          BY DEF ScanFails
        <4>3. QED
          BY <2>3, <4>1, <4>2
      <3>2. op[f].at \notin FreeClusters /\ ~(op[f].at + 1 < Total + Reserved)
        <4>1. op[f].at \in FreeClusters => op'[f].pc = "mark"
          <5>1. ASSUME op[f].at \in FreeClusters PROVE op'[f].pc = "mark"
            <6> DEFINE r == [Idle EXCEPT !.pc = "mark", !.target = op[f].at]
            <6>1. op' = [op EXCEPT ![f] = r]
              BY <3>1, <5>1 DEF Scan
            <6>2. r.pc = "mark"
              BY DEF Idle
            <6> HIDE DEF r
            <6>3. QED
              BY <6>1, <6>2 DEF StateOK
          <5>2. QED
            BY <5>1
        <4>2. op[f].at + 1 < SearchEnd(f) => op'[f].pc = "scan"
          <5>1. ASSUME op[f].at + 1 < SearchEnd(f), op[f].at \notin FreeClusters
                PROVE  op'[f].pc = "scan"
            <6> DEFINE r == [op[f] EXCEPT !.at = @ + 1]
            <6>1. op' = [op EXCEPT ![f] = r]
              BY <3>1, <5>1 DEF Scan
            <6>2. r.pc = "scan"
              BY <1>1, <2>1 DEF Locals
            <6> HIDE DEF r
            <6>3. QED
              BY <6>1, <6>2 DEF StateOK
          <5>2. QED
            BY <2>1, <4>1, <5>1
        <4>3. SearchEnd(f) = Total + Reserved
          BY <2>1 DEF SearchEnd
        <4>4. QED
          BY <2>1, <4>1, <4>2, <4>3
      <3>3. c \in since[f] \/ op[f].at <= c \/ c < op[f].keep
        BY <2>1, <2>3, <3>1 DEF Missed, Ahead, Scan, faultVars
      <3>4. c \in Reserved .. Total + Reserved - 1 /\ c # op[f].at
        BY <1>2, <1>4, <3>2
      <3>5. c \in since[f] \/ c < op[f].keep
        BY <1>4, <1>5, <3>2, <3>3, <3>4
      <3>6. QED
        BY <1>3, <1>4, <2>1, <3>4, <3>5 DEF Ahead
    <2>4. QED
      BY <1>2, <2>2, <2>3 DEF Missed
  <1>7. CASE /\ op[f].at \notin FreeClusters /\ op[f].at + 1 < SearchEnd(f)
             /\ op' = [op EXCEPT ![f] = [op[f] EXCEPT !.at = @ + 1]] /\ readFaults' = readFaults
    <2>1. op'[f].pc = op[f].pc /\ op'[f].at = op[f].at + 1 /\ op'[f].keep = op[f].keep
      <3> DEFINE r == [op[f] EXCEPT !.at = @ + 1]
      <3>1. r.pc = op[f].pc /\ r.at = op[f].at + 1 /\ r.keep = op[f].keep
        BY <1>1 DEF Locals
      <3>2. op' = [op EXCEPT ![f] = r]
        BY <1>7
      <3> HIDE DEF r
      <3>3. QED
        BY <3>1, <3>2 DEF StateOK
    <2>2. Place(f)'
      BY <1>4, <1>5, <1>7, <2>1 DEF Place, SearchEnd
    <2>3. ASSUME readFaults' = 0, NEW c \in FreeClusters PROVE c \in since'[f] \/ Ahead(f, c)'
      <3>1. c \in since[f] \/ Ahead(f, c)
        BY <1>7, <2>3 DEF Missed
      <3>2. c \in Nat /\ c # op[f].at
        BY <1>2, <1>4, <1>7
      <3>3. QED
        BY <1>3, <1>5, <2>1, <3>1, <3>2 DEF Ahead
    <2>4. QED
      BY <1>2, <2>2, <2>3 DEF Missed
  <1>8. CASE /\ op[f].at \in FreeClusters
             /\ op' = [op EXCEPT ![f] = [Idle EXCEPT !.pc = "mark", !.target = op[f].at]]
    <2> DEFINE r == [Idle EXCEPT !.pc = "mark", !.target = op[f].at]
    <2>1. op' = [op EXCEPT ![f] = r]
      BY <1>8
    <2>2. r.pc = "mark"
      BY DEF Idle
    <2> HIDE DEF r
    <2>3. QED
      BY <2>1, <2>2 DEF StateOK, Searching
  <1>9. QED
    BY <1>6, <1>7, <1>8 DEF Scan, ScanFails, faultVars

LEMMA SearchStarts ==
  ASSUME TypeInv, NEW f \in Files, StartAppend(f)
  PROVE  Place(f)' /\ Missed(f)'
  <1>1. op'[f].pc = "scan" /\ op'[f].keep \in 0 .. Total + Reserved - 1 /\ op'[f].at = op'[f].keep
    BY AppendStarts DEF TypeInv
  <1>2. FreeClusters' \subseteq Nat
    BY Numbers DEF FreeClusters, FreeIn
  <1>3. \A c \in FreeClusters' : op'[f].at <= c \/ c < op'[f].keep
    BY <1>1, <1>2, ClusterAllocAssumption DEF Reserved
  <1>4. QED
    BY <1>1, <1>3, ClusterAllocAssumption DEF Place, Missed, Ahead, Reserved

LEMMA NextSearchInv == ASSUME TypeInv, SearchInv, [Next]_vars PROVE SearchInv'
  <1>1. readFaults' = 0 => readFaults = 0
    BY FaultsGrow
  <1>2. CASE UNCHANGED vars
    BY <1>2 DEF vars, SearchInv, Place, Missed, Ahead, FreeClusters
  <1>3. ASSUME Remember, NEW f \in Files, op'[f] = op[f], op'[f].pc \in Searching
        PROVE  Place(f)' /\ (readFaults' = 0 => Missed(f)')
    <2>1. Place(f)' /\ (readFaults = 0 => Missed(f))
      BY <1>3 DEF SearchInv, Place
    <2>2. since'[f] = since[f] \cup (FreeIn(fat') \ FreeClusters)
      BY <1>3 DEF Remember
    <2>3. FreeClusters' = FreeIn(fat')
      BY DEF FreeClusters
    <2>4. \A c : Ahead(f, c)' <=> Ahead(f, c)
      BY <1>3 DEF Ahead
    <2>5. QED
      BY <1>1, <2>1, <2>2, <2>3, <2>4 DEF Missed
  <1>4. ASSUME Remember, NEW g \in Files, Start(g) \/ Moves(g) \/ Fails(g), NEW f \in Files,
               op'[f].pc \in Searching
        PROVE  Place(f)' /\ (readFaults' = 0 => Missed(f)')
    <2>1. CASE f # g
      BY <1>3, <1>4, <2>1, WhoWorks
    <2>2. CASE f = g
      <3>1. StartAppend(f) \/ Scan(f) \/ ScanFails(f)
        BY <1>4, <2>2, SearchesOnly
      <3>2. CASE StartAppend(f)
        BY <3>2, SearchStarts
      <3>3. CASE Scan(f) \/ ScanFails(f)
        <4>1. op[f].pc \in Searching
          BY <3>3 DEF Scan, ScanFails
        <4>2. QED
          BY <1>4, <3>3, <4>1, SearchGoesOn DEF SearchInv
      <3>4. QED
        BY <3>1, <3>2, <3>3
    <2>3. QED
      BY <2>1, <2>2
  <1>5. CASE Next /\ (StartRecount \/ FinishRecount \/ Resting)
    <2>1. Remember /\ op' = op
      BY <1>5 DEF Next, StartRecount, FinishRecount, Resting
    <2>2. QED
      BY <1>3, <2>1 DEF SearchInv
  <1>6. CASE Next /\ \E g \in Files : Start(g) \/ Moves(g) \/ Fails(g)
    <2>1. Remember
      BY <1>6 DEF Next
    <2>2. QED
      BY <1>4, <1>6, <2>1 DEF SearchInv
  <1>7. QED
    BY <1>2, <1>5, <1>6, NextCases

\* A search that ends with nothing has passed everything.
LEMMA SearchFindsNothing ==
  ASSUME TypeInv, SearchInv, NEW f \in Files, op[f].pc \in Searching, readFaults = 0,
         Scan(f), op'[f] = Idle
  PROVE  FreeClusters \subseteq since[f]
  <1> USE DEF TypeInv
  <1>1. op[f] \in Locals /\ op[f].keep \in 0 .. Total + Reserved - 1 /\ op[f].at \in Nat
    BY DEF StateOK, InOperation, Searching, Locals
  <1>2. op'[f].pc = "idle"
    BY IdleType
  <1>3. op[f].at \notin FreeClusters
    <2>1. ASSUME op[f].at \in FreeClusters PROVE FALSE
      <3> DEFINE r == [Idle EXCEPT !.pc = "mark", !.target = op[f].at]
      <3>1. op' = [op EXCEPT ![f] = r]
        BY <2>1 DEF Scan
      <3>2. r.pc = "mark"
        BY DEF Idle
      <3> HIDE DEF r
      <3>3. QED
        BY <1>2, <3>1, <3>2 DEF StateOK
    <2>2. QED
      BY <2>1
  <1>4. ~(op[f].at + 1 < SearchEnd(f))
    <2>1. ASSUME op[f].at + 1 < SearchEnd(f) PROVE FALSE
      <3> DEFINE r == [op[f] EXCEPT !.at = @ + 1]
      <3>1. op' = [op EXCEPT ![f] = r]
        BY <1>3, <2>1 DEF Scan
      <3>2. r.pc = op[f].pc
        BY <1>1 DEF Locals
      <3> HIDE DEF r
      <3>3. QED
        BY <1>2, <3>1, <3>2 DEF StateOK, Searching
    <2>2. QED
      BY <2>1
  <1>5. op' = [op EXCEPT ![f] = NextSearch(f)]
    BY <1>3, <1>4 DEF Scan
  <1>6. ~(op[f].pc = "scan" /\ op[f].keep > Reserved)
    BY <1>2, <1>5, SearchesBelow
  <1>7. Clusters = Reserved .. Total + Reserved - 1 /\ Reserved \in Nat /\ Total \in Nat
    BY ClusterAllocAssumption DEF Clusters, Reserved
  <1>8. ASSUME NEW c \in FreeClusters PROVE c \in since[f]
    <2>1. c \in Clusters /\ c # op[f].at
      BY <1>3, FreeClustersType
    <2>2. Place(f) /\ (c \in since[f] \/ Ahead(f, c))
      BY DEF SearchInv, Missed
    <2>3. ~Ahead(f, c)
      BY <1>1, <1>4, <1>6, <1>7, <2>1, <2>2 DEF Ahead, Place, SearchEnd
    <2>4. QED
      BY <2>2, <2>3
  <1>9. QED
    BY <1>8

\* An allocation that ends in NotEnoughSpace, no read having failed, has looked
\* at every entry, from the hint up and then from the first cluster, wherever
\* the hint of FsInfo or of the bitmap pointed: what is free has become free
\* since the search began - with any number of operations that interleave with
\* it, on every FAT type.
THEOREM FullStaysFull == Spec => FullMeansFull
  <1>1. ASSUME TypeInv, SearchInv, [Next]_vars, NEW f \in Files, op[f].pc \in Searching,
               op'[f] = Idle, readFaults' = 0
        PROVE  FreeClusters \subseteq since[f]
    <2>1. op'[f] # op[f]
      BY <1>1, IdleType DEF Searching
    <2>2. PICK g \in Files : Start(g) \/ Moves(g) \/ Fails(g)
      BY <1>1, <2>1, NextCases DEF StartRecount, FinishRecount, Resting
    <2>3. g = f
      BY <1>1, <2>1, <2>2, WhoWorks
    <2>4. ~Start(f)
      BY <1>1, Starts DEF TypeInv, Searching
    <2>5. Scan(f) \/ ScanFails(f)
      BY <1>1, <2>2, <2>3, <2>4
         DEF Searching, Moves, MarkNew, LinkPrevious, SetAllocated, FinishAppend, TruncateNext,
             TruncateEnd, FinishTruncate, Collect, FreeNext, FreeWrite, FreeEnd, SetFree,
             FinishRelease, Fails, WriteFails, NextFails, CollectFails
    <2>6. readFaults \in Nat /\ readFaults = 0
      BY <1>1, FaultsGrow
    <2>7. ~ScanFails(f)
      BY <1>1, <2>6 DEF ScanFails
    <2>8. QED
      BY <1>1, <2>5, <2>6, <2>7, SearchFindsNothing
  <1>2. TypeInv /\ SearchInv /\ [Next]_vars
        => [\A f \in Files : op[f].pc \in Searching /\ op'[f] = Idle /\ readFaults' = 0
                             => FreeClusters \subseteq since[f]]_vars
    BY <1>1
  <1>3. Init => TypeInv /\ SearchInv
    BY InitTypeInv, IdleType DEF Init, SearchInv, Searching
  <1>4. TypeInv /\ SearchInv /\ [Next]_vars => TypeInv' /\ SearchInv'
    BY NextTypeInv, NextSearchInv
  <1>5. QED
    BY <1>2, <1>3, <1>4, PTL DEF Spec, FullMeansFull
=============================================================================

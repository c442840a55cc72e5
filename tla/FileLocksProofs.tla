--------------------------- MODULE FileLocksProofs ---------------------------
(***************************************************************************)
(* Theorems about FileLocks, for any number of handles, clusters and files *)
(* and whatever the programs do.                                           *)
(***************************************************************************)
EXTENDS FileLocks, FiniteSetTheorems, TLAPS

File == [pc : {"closed", "found", "open"}, id : 0 .. MaxIds, kind : Kinds,
         first : Clusters \cup {None}]

\* The types, but for the bound on the readers, which follows from Counted.
Types ==
  /\ bare \subseteq Clusters
  /\ locks \in [Clusters -> [readers : Nat, exclusive : BOOLEAN]]
  /\ handle \in [Handles -> File]
  /\ first \in [1 .. MaxIds -> Clusters \cup {None}]
  /\ ids \in 0 .. MaxIds
  /\ live \subseteq 1 .. ids

\* A release is never short of a reader: what a reader adds under its cluster it takes away
\* there.  A file that got its first cluster after the open takes away more.
Counted == \A c \in Clusters : locks[c].readers <= Cardinality(Holders(c, "shared"))

Busy == {h \in Handles : handle[h].pc # "closed"}

\* From the moment its entry is found a file keeps its first cluster, as long as it is there
\* and the cluster is guarded; all who found the file agree on it.
Coherent ==
  /\ \A h \in Busy :
       /\ handle[h].id \in 1 .. ids
       /\ handle[h].id \in live /\ (handle[h].first \in Guarded \/ first[handle[h].id] \in Guarded)
            => first[handle[h].id] = handle[h].first
  /\ \A h, k \in Busy : handle[h].id = handle[k].id /\ handle[h].first \in Guarded
                        => handle[k].first = handle[h].first

\* A writer is alone under its cluster.
Alone ==
  \A h, k \in OpenHandles : h # k /\ handle[h].first = handle[k].first /\ handle[h].first \in Guarded
                     => handle[h].kind = "shared" /\ handle[k].kind = "shared"

IInv == Types /\ Counted /\ Coherent /\ Alone /\ LocksAreHeld

-----------------------------------------------------------------------------
LEMMA HoldersFinite ==
  ASSUME NEW c, NEW kind
  PROVE  /\ IsFiniteSet(Holders(c, kind))
         /\ Cardinality(Holders(c, kind)) \in 0 .. Cardinality(Handles)
  <1>1. Holders(c, kind) \in SUBSET Handles
    BY DEF Holders, OpenHandles
  <1>2. IsFiniteSet(Holders(c, kind)) /\ Cardinality(Holders(c, kind)) <= Cardinality(Handles)
    BY <1>1, FS_Subset, FileLocksAssumption
  <1>3. Cardinality(Holders(c, kind)) \in Nat /\ Cardinality(Handles) \in Nat
    BY <1>2, FS_CardinalityType, FileLocksAssumption
  <1>4. QED
    BY <1>2, <1>3

LEMMA IInvImplies == IInv => TypeOK /\ MutualExclusion
  <1> SUFFICES ASSUME IInv PROVE TypeOK /\ MutualExclusion
    OBVIOUS
  <1>1. ASSUME NEW c \in Clusters PROVE locks[c].readers \in 0 .. Cardinality(Handles)
    <2>1. Cardinality(Holders(c, "shared")) \in 0 .. Cardinality(Handles)
      BY HoldersFinite
    <2>2. locks[c].readers \in Nat /\ locks[c].readers <= Cardinality(Holders(c, "shared"))
      BY DEF IInv, Types, Counted
    <2>3. Cardinality(Handles) \in Nat
      BY FS_CardinalityType, FileLocksAssumption
    <2>4. QED
      BY <2>1, <2>2, <2>3
  <1>2. locks \in [Clusters -> [readers : 0 .. Cardinality(Handles), exclusive : BOOLEAN]]
    BY <1>1 DEF IInv, Types
  <1>3. TypeOK
    BY <1>2, FileLocksAssumption DEF IInv, Types, TypeOK, File
  <1>4. MutualExclusion
    BY DEF IInv, Coherent, Alone, MutualExclusion, Busy, OpenHandles
  <1>5. QED
    BY <1>3, <1>4

LEMMA InitIInv == LocksInit => IInv
  <1> SUFFICES ASSUME LocksInit PROVE IInv
    OBVIOUS
  <1>1. OpenHandles = {} /\ Busy = {}
    BY DEF LocksInit, OpenHandles, Busy, Closed
  <1>2. \A c, kind : Holders(c, kind) = {}
    BY <1>1 DEF Holders
  <1>3. Types
    BY FileLocksAssumption DEF LocksInit, Types, Unlocked, Closed, Kinds, File
  <1>4. \A c \in Clusters : locks[c].readers = 0 /\ locks[c].exclusive = FALSE
    BY DEF LocksInit, Unlocked
  <1>5. \A c, kind : Cardinality(Holders(c, kind)) = 0
    BY <1>2, FS_EmptySet
  <1>6. Counted /\ LocksAreHeld
    <2>1. ASSUME NEW c \in Clusters
          PROVE  locks[c].readers <= Cardinality(Holders(c, "shared"))
      BY <1>4, <1>5
    <2>2. ASSUME NEW c \in Clusters
          PROVE  /\ locks[c].readers = Cardinality(Holders(c, "shared"))
                 /\ locks[c].exclusive = (Holders(c, "exclusive") # {})
      BY <1>2, <1>4, <1>5
    <2>3. QED
      BY <2>1, <2>2 DEF Counted, LocksAreHeld, Guarded
  <1>7. QED
    BY <1>1, <1>3, <1>6 DEF IInv, Coherent, Alone

-----------------------------------------------------------------------------
\* Every step keeps the types.
LEMMA NextTypes == Types /\ [LocksNext]_lockVars => Types'
  <1> SUFFICES ASSUME Types, [LocksNext]_lockVars PROVE Types'
    OBVIOUS
  <1> USE FileLocksAssumption DEF Types
  <1>1. CASE CreateFile
    BY <1>1 DEF CreateFile
  <1>2. ASSUME NEW f \in 1 .. MaxIds, Grow(f) PROVE Types'
    BY <1>2 DEF Grow, FreeClusters
  <1>3. ASSUME NEW f \in 1 .. MaxIds, RemoveFile(f) PROVE Types'
    BY <1>3 DEF RemoveFile
  <1>4. ASSUME NEW h \in Handles, NEW kind \in Kinds, NEW f \in 1 .. MaxIds, Find(h, kind, f)
        PROVE Types'
    BY <1>4 DEF Find, File
  <1>5. ASSUME NEW h \in Handles, Lock(h) PROVE Types'
    <2>1. handle' \in [Handles -> File]
      <3>1. Closed \in File
        BY DEF Closed, Kinds, File
      <3>4. [handle[h] EXCEPT !.pc = "open"] \in File
        BY DEF File
      <3>2. handle' = [handle EXCEPT ![h] = [handle[h] EXCEPT !.pc = "open"]]
            \/ handle' = [handle EXCEPT ![h] = Closed]
        BY <1>5 DEF Lock
      <3>3. QED
        BY <3>1, <3>2, <3>4
    <2>2. ASSUME NEW state \in [readers : Nat, exclusive : BOOLEAN], NEW kind
          PROVE  Taken(state, kind) \in [readers : Nat, exclusive : BOOLEAN]
      BY DEF Taken
    <2>3. locks' \in [Clusters -> [readers : Nat, exclusive : BOOLEAN]]
      <3>1. CASE handle[h].first = None
        BY <1>5, <3>1 DEF Lock
      <3>2. CASE handle[h].first # None
        <4>1. handle[h].first \in Clusters
          BY <3>2 DEF File
        <4>2. \/ locks' = [locks EXCEPT ![handle[h].first] = Taken(locks[handle[h].first], handle[h].kind)]
              \/ locks' = [locks EXCEPT ![handle[h].first] = locks[handle[h].first]]
          BY <1>5, <3>2 DEF Lock, Refused
        <4>3. /\ locks[handle[h].first] \in [readers : Nat, exclusive : BOOLEAN]
              /\ Taken(locks[handle[h].first], handle[h].kind) \in [readers : Nat, exclusive : BOOLEAN]
          BY <2>2, <4>1
        <4>4. QED
          BY <4>1, <4>2, <4>3
      <3>3. QED
        BY <3>1, <3>2
    <2>4. QED
      BY <1>5, <2>1, <2>3 DEF Lock
  <1>6. ASSUME NEW h \in Handles, FirstWrite(h) PROVE Types'
    <2>1. PICK c \in FreeClusters :
            /\ handle' = [handle EXCEPT ![h].first = c]
            /\ first' = [first EXCEPT ![handle[h].id] = c]
      BY <1>6 DEF FirstWrite
    <2>2. c \in Clusters
      BY DEF FreeClusters
    <2>3. handle' \in [Handles -> File]
      BY <2>1, <2>2 DEF File
    <2>4. first' \in [1 .. MaxIds -> Clusters \cup {None}]
      BY <2>1, <2>2
    <2>5. bare' \subseteq Clusters
      BY <1>6, <2>2 DEF FirstWrite, FreeClusters
    <2>6. QED
      BY <1>6, <2>3, <2>4, <2>5 DEF FirstWrite
  <1>7. ASSUME NEW h \in Handles, Truncate(h) PROVE Types'
    BY <1>7 DEF Truncate, File
  <1>8. ASSUME NEW h \in Handles, CloseAndUnlock(h) PROVE Types'
    <2>1. ASSUME NEW state \in [readers : Nat, exclusive : BOOLEAN], NEW kind
          PROVE  Released(state, kind) \in [readers : Nat, exclusive : BOOLEAN]
      BY DEF Released
    <2>2. locks' \in [Clusters -> [readers : Nat, exclusive : BOOLEAN]]
      BY <1>8, <2>1 DEF CloseAndUnlock
    <2>3. Closed \in File
      BY DEF Closed, Kinds, File
    <2>4. QED
      BY <1>8, <2>2, <2>3 DEF CloseAndUnlock
  <1>9. CASE UNCHANGED lockVars
    BY <1>9 DEF lockVars
  <1>10. QED
    BY <1>1, <1>2, <1>3, <1>4, <1>5, <1>6, <1>7, <1>8, <1>9 DEF LocksNext

\* Nothing that leaves the handles and the locks alone matters to who holds what.
LEMMA SameHolders ==
  ASSUME UNCHANGED handle PROVE \A c, kind : Holders(c, kind)' = Holders(c, kind)
  BY DEF Holders, OpenHandles

\* A step of one handle leaves the files of the others as they are.
LEMMA OthersKept ==
  ASSUME Types, NEW h \in Handles, NEW e, handle' = [handle EXCEPT ![h] = e]
  PROVE  /\ handle'[h] = e
         /\ \A k \in Handles \ {h} : handle'[k] = handle[k]
         /\ Busy' \ {h} = Busy \ {h} /\ OpenHandles' \ {h} = OpenHandles \ {h}
         /\ h \in OpenHandles' <=> e.pc = "open"
  <1>1. handle'[h] = e /\ \A k \in Handles \ {h} : handle'[k] = handle[k]
    BY DEF Types
  <1>2. QED
    BY <1>1 DEF OpenHandles, Busy

LEMMA OtherHoldersKept ==
  ASSUME Types, NEW h \in Handles, NEW e, handle' = [handle EXCEPT ![h] = e], NEW c, NEW kind
  PROVE  /\ Holders(c, kind)' \ {h} = Holders(c, kind) \ {h}
         /\ h \in Holders(c, kind)' <=> e.pc = "open" /\ e.first = c /\ e.kind = kind
  <1>1. handle'[h] = e /\ \A k \in Handles \ {h} : handle'[k] = handle[k]
    BY OthersKept
  <1>2. QED
    BY <1>1 DEF Holders, OpenHandles

\* A file that keeps its name and its cluster, or is closed, keeps Coherent.
LEMMA StillCoherent ==
  ASSUME Types, Coherent, NEW h \in Handles, NEW e,
         handle' = [handle EXCEPT ![h] = e], UNCHANGED <<first, live, ids, bare>>,
         \/ e = Closed
         \/ handle[h].pc # "closed" /\ e.id = handle[h].id /\ e.first = handle[h].first
  PROVE  Coherent'
  <1>1. \A k \in Busy' : /\ k \in Busy /\ handle'[k].id = handle[k].id
                         /\ handle'[k].first = handle[k].first
    BY OthersKept DEF Busy, Closed
  <1>2. QED
    BY <1>1 DEF Coherent, Guarded

\* A file that becomes open is one more holder of the lock of its first cluster.
LEMMA OneMore ==
  ASSUME NEW h \in Handles, h \notin OpenHandles, handle'[h].pc = "open",
         \A k \in Handles \ {h} : handle'[k] = handle[k],
         NEW c, NEW kind
  PROVE  /\ handle'[h].first = c /\ handle'[h].kind = kind =>
              /\ Holders(c, kind)' = Holders(c, kind) \cup {h}
              /\ Cardinality(Holders(c, kind)') = Cardinality(Holders(c, kind)) + 1
         /\ ~(handle'[h].first = c /\ handle'[h].kind = kind) =>
              Holders(c, kind)' = Holders(c, kind)
  <1>1. h \notin Holders(c, kind)
    BY DEF Holders
  <1>2. /\ Holders(c, kind)' \ {h} = Holders(c, kind) \ {h}
        /\ h \in Holders(c, kind)' <=> handle'[h].first = c /\ handle'[h].kind = kind
    BY DEF Holders, OpenHandles
  <1>3. CASE handle'[h].first = c /\ handle'[h].kind = kind
    <2>1. Holders(c, kind)' = Holders(c, kind) \cup {h}
      BY <1>1, <1>2, <1>3
    <2>2. QED
      BY ZenonT(30), <1>1, <1>3, <2>1, HoldersFinite, FS_AddElement
  <1>4. CASE ~(handle'[h].first = c /\ handle'[h].kind = kind)
    BY <1>1, <1>2, <1>4
  <1>5. QED
    BY <1>3, <1>4

\* One that is closed is one less.
LEMMA OneLess ==
  ASSUME Types, NEW h \in OpenHandles, handle' = [handle EXCEPT ![h] = Closed], NEW c, NEW kind
  PROVE  /\ handle[h].first = c /\ handle[h].kind = kind =>
              /\ Holders(c, kind)' = Holders(c, kind) \ {h}
              /\ Cardinality(Holders(c, kind)') = Cardinality(Holders(c, kind)) - 1
         /\ ~(handle[h].first = c /\ handle[h].kind = kind) => Holders(c, kind)' = Holders(c, kind)
  <1>0. h \in Handles /\ Closed.pc # "open"
    BY DEF OpenHandles, Closed
  <1>1. /\ Holders(c, kind)' \ {h} = Holders(c, kind) \ {h}
        /\ h \notin Holders(c, kind)'
    BY <1>0, OtherHoldersKept
  <1>2. CASE handle[h].first = c /\ handle[h].kind = kind
    <2>1. h \in Holders(c, kind)
      BY <1>2 DEF Holders
    <2>2. Holders(c, kind)' = Holders(c, kind) \ {h}
      BY <1>1
    <2>3. QED
      BY <1>2, <2>1, <2>2, HoldersFinite, FS_RemoveElement
  <1>3. CASE ~(handle[h].first = c /\ handle[h].kind = kind)
    <2>1. h \notin Holders(c, kind)
      BY <1>3 DEF Holders
    <2>2. QED
      BY <1>1, <1>3, <2>1
  <1>4. QED
    BY <1>2, <1>3

\* An open file gets a first cluster, or loses it, and neither the old nor the new one is
\* guarded afterwards.
Moved(h, c) ==
  /\ h \in OpenHandles /\ handle[h].id \in 1 .. MaxIds
  /\ handle' = [handle EXCEPT ![h].first = c] /\ first' = [first EXCEPT ![handle[h].id] = c]
  /\ Guarded' \subseteq Guarded /\ handle[h].first \notin Guarded' /\ c \notin Guarded'
  /\ UNCHANGED <<live, ids>>

LEMMA MovedAre ==
  ASSUME Types, NEW h, NEW c, Moved(h, c)
  PROVE  /\ handle'[h].first = c /\ h \in Handles
         /\ \A k \in Handles \ {h} : handle'[k] = handle[k]
         /\ \A k \in Handles : /\ handle'[k].pc = handle[k].pc /\ handle'[k].id = handle[k].id
                              /\ handle'[k].kind = handle[k].kind
         /\ OpenHandles' = OpenHandles /\ Busy' = Busy
         /\ first'[handle[h].id] = c
         /\ \A f \in 1 .. MaxIds : f # handle[h].id => first'[f] = first[f]
  <1>1. h \in Handles /\ handle[h] \in File
    BY DEF Moved, OpenHandles, Types
  <1>2. /\ handle'[h] = [handle[h] EXCEPT !.first = c]
        /\ \A k \in Handles \ {h} : handle'[k] = handle[k]
    BY <1>1 DEF Moved, Types
  <1>3. /\ handle'[h].first = c /\ handle'[h].pc = handle[h].pc /\ handle'[h].id = handle[h].id
        /\ handle'[h].kind = handle[h].kind
    BY <1>1, <1>2 DEF File
  <1>4. \A k \in Handles : /\ handle'[k].pc = handle[k].pc /\ handle'[k].id = handle[k].id
                         /\ handle'[k].kind = handle[k].kind
    BY <1>2, <1>3
  <1>5. OpenHandles' = OpenHandles /\ Busy' = Busy
    BY <1>4 DEF OpenHandles, Busy
  <1>6. /\ first'[handle[h].id] = c
        /\ \A f \in 1 .. MaxIds : f # handle[h].id => first'[f] = first[f]
    BY DEF Moved, Types
  <1>7. QED
    BY <1>1, <1>2, <1>3, <1>4, <1>5, <1>6

LEMMA MovedHolders ==
  ASSUME Types, NEW h, NEW c, Moved(h, c)
  PROVE  \A d \in Guarded' : \A kind : d \in Guarded /\ Holders(d, kind)' = Holders(d, kind)
  <1> SUFFICES ASSUME NEW d \in Guarded', NEW kind
               PROVE  d \in Guarded /\ Holders(d, kind)' = Holders(d, kind)
    OBVIOUS
  <1>1. d \in Guarded /\ d # c /\ d # handle[h].first
    BY DEF Moved
  <1>2. \A k \in OpenHandles : handle'[k].first = d <=> handle[k].first = d
    BY <1>1, MovedAre DEF OpenHandles
  <1>3. QED
    BY <1>1, <1>2, MovedAre DEF Holders, OpenHandles

LEMMA MovedKeeps ==
  ASSUME Types, Coherent, Alone, NEW h, NEW c, Moved(h, c) PROVE Coherent' /\ Alone'
  <1>1. h \in Busy /\ Busy \subseteq Handles /\ OpenHandles \subseteq Handles
    BY DEF Moved, Busy, OpenHandles
  <1>2. /\ Guarded' \subseteq Guarded /\ handle[h].first \notin Guarded' /\ c \notin Guarded'
        /\ live' = live /\ ids' = ids
    BY DEF Moved
  <1>3. ASSUME NEW k \in Busy
        PROVE  /\ handle'[k].id \in 1 .. ids
               /\ handle'[k].id \in live
                  /\ (handle'[k].first \in Guarded' \/ first'[handle'[k].id] \in Guarded')
                    => first'[handle'[k].id] = handle'[k].first
    <2>1. /\ handle'[k].id = handle[k].id /\ handle[k].id \in 1 .. ids
          /\ handle[k].id \in live /\ (handle[k].first \in Guarded \/ first[handle[k].id] \in Guarded)
                => first[handle[k].id] = handle[k].first
      BY <1>1, MovedAre DEF Coherent
    <2>2. CASE handle[k].id = handle[h].id
      <3>1. first'[handle'[k].id] = c
        BY <2>1, <2>2, MovedAre
      <3>2. CASE k = h
        BY <2>1, <3>1, <3>2, MovedAre
      <3>3. CASE k # h
        <4>1. handle'[k].first = handle[k].first
          BY <1>1, <3>3, MovedAre
        <4>2. handle[k].first \notin Guarded'
          <5>1. handle[k].first \in Guarded => handle[h].first = handle[k].first
            BY <1>1, <2>2 DEF Coherent
          <5>2. QED
            BY <1>2, <5>1
        <4>3. QED
          BY <1>2, <2>1, <3>1, <4>1, <4>2
      <3>4. QED
        BY <3>2, <3>3
    <2>3. CASE handle[k].id # handle[h].id
      <3>1. handle[k].id \in 1 .. MaxIds
        BY <1>1, <2>1, FileLocksAssumption DEF Types
      <3>2. handle'[k].first = handle[k].first /\ first'[handle[k].id] = first[handle[k].id]
        BY <1>1, <2>3, <3>1, MovedAre
      <3>3. QED
        BY <1>2, <2>1, <3>2
    <2>4. QED
      BY <2>2, <2>3
  <1>4. ASSUME NEW k \in Busy, NEW l \in Busy, handle'[k].id = handle'[l].id,
               handle'[k].first \in Guarded'
        PROVE  handle'[l].first = handle'[k].first
    <2>1. k # h
      BY <1>2, <1>4, MovedAre
    <2>2. handle'[k].first = handle[k].first /\ handle[k].id = handle[l].id
      BY <1>1, <1>4, <2>1, MovedAre
    <2>3. handle[l].first = handle[k].first
      BY <1>2, <1>4, <2>2 DEF Coherent
    <2>4. l # h
      BY <1>2, <1>4, <2>2, <2>3
    <2>5. QED
      BY <1>1, <2>2, <2>3, <2>4, MovedAre
  <1>5. ASSUME NEW k \in OpenHandles, NEW l \in OpenHandles, k # l,
               handle'[k].first = handle'[l].first, handle'[k].first \in Guarded'
        PROVE  handle'[k].kind = "shared" /\ handle'[l].kind = "shared"
    <2>1. k # h /\ l # h
      BY <1>2, <1>5, MovedAre
    <2>2. handle'[k] = handle[k] /\ handle'[l] = handle[l]
      BY <1>1, <2>1, MovedAre
    <2>3. QED
      BY <1>2, <1>5, <2>2 DEF Alone
  <1>6. Coherent'
    BY <1>2, <1>3, <1>4, MovedAre DEF Coherent
  <1>7. Alone'
    BY <1>5, MovedAre DEF Alone
  <1>8. QED
    BY <1>6, <1>7

\* Every step keeps the invariant.
LEMMA NextIInv == IInv /\ [LocksNext]_lockVars => IInv'
  <1> SUFFICES ASSUME IInv, [LocksNext]_lockVars PROVE IInv'
    OBVIOUS
  <1> USE FileLocksAssumption
  <1>0. Types /\ Types'
    BY NextTypes DEF IInv
  <1>1. CASE CreateFile
    <2>1. \A c, kind : Holders(c, kind)' = Holders(c, kind)
      BY <1>1, SameHolders DEF CreateFile
    <2>2. Counted' /\ LocksAreHeld'
      BY <1>1, <2>1 DEF IInv, CreateFile, Counted, LocksAreHeld, Guarded
    <2>3. Coherent'
      BY <1>0, <1>1 DEF IInv, CreateFile, Coherent, Guarded, Busy, Types
    <2>4. Alone'
      BY <1>1 DEF IInv, CreateFile, Alone, Guarded, OpenHandles
    <2>5. QED
      BY <1>0, <2>2, <2>3, <2>4 DEF IInv
  <1>2. ASSUME NEW f \in 1 .. MaxIds, Grow(f) PROVE IInv'
    <2>1. \A c, kind : Holders(c, kind)' = Holders(c, kind)
      BY <1>2, SameHolders DEF Grow
    <2>2. Counted' /\ LocksAreHeld'
      BY <1>2, <2>1 DEF IInv, Grow, Counted, LocksAreHeld, Guarded
    <2>3. Coherent'
      BY <1>0, <1>2 DEF IInv, Grow, Coherent, Guarded, Busy, Types
    <2>4. Alone'
      BY <1>2 DEF IInv, Grow, Alone, Guarded, OpenHandles
    <2>5. QED
      BY <1>0, <2>2, <2>3, <2>4 DEF IInv
  <1>3. ASSUME NEW f \in 1 .. MaxIds, RemoveFile(f) PROVE IInv'
    <2>1. \A c, kind : Holders(c, kind)' = Holders(c, kind)
      BY <1>3, SameHolders DEF RemoveFile
    <2>2. Counted' /\ LocksAreHeld'
      BY <1>3, <2>1 DEF IInv, RemoveFile, Counted, LocksAreHeld, Guarded
    <2>3. Coherent'
      BY <1>0, <1>3 DEF IInv, RemoveFile, Coherent, Guarded, Busy, Types
    <2>4. Alone'
      BY <1>3 DEF IInv, RemoveFile, Alone, Guarded, OpenHandles
    <2>5. QED
      BY <1>0, <2>2, <2>3, <2>4 DEF IInv
  <1>4. ASSUME NEW h \in Handles, NEW kind \in Kinds, NEW f \in 1 .. MaxIds, Find(h, kind, f)
        PROVE IInv'
    <2>1. handle' = [handle EXCEPT ![h] = [pc |-> "found", id |-> f, kind |-> kind, first |-> first[f]]]
      BY <1>4 DEF Find
    <2>2. handle[h].pc # "open" /\ handle'[h].pc # "open"
      BY <1>0, <1>4, <2>1 DEF Find, Closed, Types
    <2>3. \A k \in Handles \ {h} : handle'[k] = handle[k]
      BY <1>0, <2>1 DEF Types
    <2>4. \A c, k : Holders(c, k)' = Holders(c, k)
      BY <2>2, <2>3 DEF Holders, OpenHandles
    <2>5. Counted' /\ LocksAreHeld'
      BY <1>4, <2>4 DEF IInv, Find, Counted, LocksAreHeld, Guarded
    <2>6. Coherent'
      <3>1. f \in live /\ Guarded' = Guarded
        BY <1>4 DEF Find, Guarded
      <3>2. /\ handle'[h].id = f /\ handle'[h].first = first[f]
        BY <1>0, <2>1 DEF Types
      <3>3. \A k \in Busy :
              /\ handle[k].id \in 1 .. ids
              /\ handle[k].id \in live /\ (handle[k].first \in Guarded \/ first[handle[k].id] \in Guarded)
                   => first[handle[k].id] = handle[k].first
        BY DEF IInv, Coherent
      <3>4. \A k, l \in Busy : handle[k].id = handle[l].id /\ handle[k].first \in Guarded
                               => handle[l].first = handle[k].first
        BY DEF IInv, Coherent
      <3>5. Busy' \subseteq Busy \cup {h} /\ Busy \subseteq Handles
        BY <2>3 DEF Busy
      <3>6. ids' = ids /\ live' = live /\ first' = first
        BY <1>4 DEF Find
      <3>7. f \in 1 .. ids
        BY <1>0, <3>1 DEF Types
      <3>8. ASSUME NEW k \in Busy'
            PROVE  /\ handle'[k].id \in 1 .. ids
                   /\ handle'[k].id \in live
                      /\ (handle'[k].first \in Guarded \/ first[handle'[k].id] \in Guarded)
                        => first[handle'[k].id] = handle'[k].first
        <4>1. CASE k = h
          BY <3>1, <3>2, <3>7, <4>1
        <4>2. CASE k # h
          <5>1. k \in Busy /\ handle'[k] = handle[k]
            BY <2>3, <3>5, <4>2
          <5>2. QED
            BY <3>3, <5>1
        <4>3. QED
          BY <4>1, <4>2
      <3>9. ASSUME NEW k \in Busy', NEW l \in Busy', handle'[k].id = handle'[l].id,
                   handle'[k].first \in Guarded
            PROVE  handle'[l].first = handle'[k].first
        <4>1. \A m \in Busy' \ {h} : m \in Busy /\ handle'[m] = handle[m]
          BY <2>3, <3>5
        <4>2. CASE k # h /\ l # h
          BY <3>4, <3>9, <4>1, <4>2
        <4>3. CASE k = h /\ l # h
          BY <3>1, <3>2, <3>3, <3>9, <4>1, <4>3
        <4>4. CASE k # h /\ l = h
          BY <3>1, <3>2, <3>3, <3>9, <4>1, <4>4
        <4>5. QED
          BY <4>2, <4>3, <4>4
      <3>10. QED
        BY <3>1, <3>6, <3>8, <3>9 DEF Coherent
    <2>7. Alone'
      BY <1>4, <2>2, <2>3 DEF IInv, Find, Alone, Guarded, OpenHandles
    <2>8. QED
      BY <1>0, <2>5, <2>6, <2>7 DEF IInv
  <1>5. ASSUME NEW h \in Handles, Lock(h) PROVE IInv'
    <2> DEFINE e == [handle[h] EXCEPT !.pc = "open"]
               c0 == handle[h].first
    <2>0. /\ handle[h].pc = "found" /\ h \notin OpenHandles /\ h \in Busy
          /\ UNCHANGED <<first, live, ids, bare>>
      BY <1>5 DEF Lock, OpenHandles, Busy
    <2>1. /\ e.pc = "open" /\ e.first = c0 /\ e.kind = handle[h].kind /\ e.id = handle[h].id
          /\ e.kind \in Kinds
      BY <1>0 DEF Types, File
    <2> HIDE DEF e, c0
    <2>2. CASE c0 = None
      <3>1. handle' = [handle EXCEPT ![h] = e] /\ locks' = locks
        BY <1>5, <2>2 DEF Lock, e, c0
      <3>3. ASSUME NEW c \in Clusters, NEW kind PROVE Holders(c, kind)' = Holders(c, kind)
        <4>1. h \in Handles /\ h \notin OpenHandles
          BY <2>0
        <4>2. handle'[h] = e /\ \A k \in Handles \ {h} : handle'[k] = handle[k]
          BY <1>0, <3>1, OthersKept
        <4>3. QED
          BY <2>1, <2>2, <4>1, <4>2, OneMore
      <3>4. Counted'
        BY <3>1, <3>3 DEF IInv, Counted
      <3>5. LocksAreHeld'
        BY <2>0, <3>1, <3>3 DEF IInv, LocksAreHeld, Guarded
      <3>6. Coherent'
        BY <1>0, <2>0, <2>1, <3>1, StillCoherent DEF IInv, c0
      <3>7. Alone'
        <4> SUFFICES ASSUME NEW k \in OpenHandles', NEW l \in OpenHandles', k # l,
                            handle'[k].first = handle'[l].first, handle'[k].first \in Guarded'
                     PROVE  handle'[k].kind = "shared" /\ handle'[l].kind = "shared"
          BY DEF Alone
        <4>1. /\ \A m \in OpenHandles' \ {h} : m \in OpenHandles /\ handle'[m] = handle[m]
              /\ handle'[h] = e
          BY ZenonT(30), <1>0, <3>1, OthersKept DEF OpenHandles
        <4>2. Guarded' = Guarded /\ c0 \notin Guarded
          BY <2>0, <2>2, FileLocksAssumption DEF Guarded
        <4>3. k # h /\ l # h
          BY <2>1, <4>1, <4>2
        <4>4. QED
          BY <4>1, <4>2, <4>3 DEF IInv, Alone
      <3>8. QED
        BY <1>0, <3>4, <3>5, <3>6, <3>7 DEF IInv
    <2>3. CASE c0 # None /\ ~Compatible(locks[c0], e.kind)
      <3>1. handle' = [handle EXCEPT ![h] = Closed] /\ locks' = [locks EXCEPT ![c0] = locks[c0]]
        BY <1>5, <2>1, <2>3 DEF Lock, Refused, c0
      <3>2. locks' = locks
        BY <1>0, <3>1 DEF Types
      <3>3. Closed.pc # "open"
        BY DEF Closed
      <3>4. /\ h \notin OpenHandles' /\ OpenHandles' \ {h} = OpenHandles \ {h}
            /\ \A k \in Handles \ {h} : handle'[k] = handle[k]
        BY <1>0, <3>1, <3>3, OthersKept
      <3>5. ASSUME NEW c, NEW kind PROVE Holders(c, kind)' = Holders(c, kind)
        <4>1. h \notin Holders(c, kind) /\ h \notin Holders(c, kind)'
          BY <2>0, <3>4 DEF Holders
        <4>2. Holders(c, kind)' \ {h} = Holders(c, kind) \ {h}
          BY <1>0, <3>1, OtherHoldersKept
        <4>3. /\ Holders(c, kind)' = Holders(c, kind)' \ {h}
              /\ Holders(c, kind) = Holders(c, kind) \ {h}
          BY <4>1
        <4>4. QED
          BY <4>2, <4>3
      <3>6. Counted' /\ LocksAreHeld'
        BY <2>0, <3>2, <3>5 DEF IInv, Counted, LocksAreHeld, Guarded
      <3>7. Coherent'
        BY <1>0, <2>0, <3>1, StillCoherent DEF IInv
      <3>8. Alone'
        <4>1. OpenHandles' = OpenHandles /\ \A k \in OpenHandles : handle'[k] = handle[k]
          BY <2>0, <3>4 DEF OpenHandles
        <4>2. QED
          BY <2>0, <4>1 DEF IInv, Alone, Guarded
      <3>9. QED
        BY <1>0, <3>6, <3>7, <3>8 DEF IInv
    <2>4. CASE c0 # None /\ Compatible(locks[c0], e.kind)
      <3>1. /\ handle' = [handle EXCEPT ![h] = e]
            /\ locks' = [locks EXCEPT ![c0] = Taken(locks[c0], e.kind)]
            /\ c0 \in Clusters
        BY <1>0, <1>5, <2>1, <2>4 DEF Lock, Types, File, e, c0
      <3>2. /\ locks'[c0] = Taken(locks[c0], e.kind)
            /\ \A c \in Clusters \ {c0} : locks'[c] = locks[c]
            /\ locks[c0].readers \in Nat
        BY <1>0, <3>1 DEF Types
      <3>3. ASSUME NEW c, NEW kind
            PROVE  /\ c = c0 /\ kind = e.kind =>
                         /\ Holders(c, kind)' = Holders(c, kind) \cup {h}
                         /\ Cardinality(Holders(c, kind)') = Cardinality(Holders(c, kind)) + 1
                   /\ ~(c = c0 /\ kind = e.kind) => Holders(c, kind)' = Holders(c, kind)
        <4>1. h \in Handles /\ h \notin OpenHandles
          BY <2>0
        <4>2. handle'[h] = e /\ \A k \in Handles \ {h} : handle'[k] = handle[k]
          BY <1>0, <3>1, OthersKept
        <4>3. QED
          BY <2>1, <4>1, <4>2, OneMore
      <3>4. \A c, kind : Cardinality(Holders(c, kind)) \in Nat
        BY HoldersFinite
      <3>5. /\ e.kind = "shared" => /\ locks'[c0].readers = locks[c0].readers + 1
                                   /\ locks'[c0].exclusive = locks[c0].exclusive
            /\ e.kind = "exclusive" => locks'[c0].readers = locks[c0].readers
        <4>1. CASE e.kind = "shared"
          <5>1. locks'[c0] = [readers |-> locks[c0].readers + 1, exclusive |-> locks[c0].exclusive]
            BY <3>2, <4>1 DEF Taken
          <5>2. QED
            BY <4>1, <5>1
        <4>2. CASE e.kind = "exclusive"
          <5>1. locks'[c0] = [readers |-> locks[c0].readers, exclusive |-> TRUE]
            BY <3>2, <4>2 DEF Taken
          <5>2. QED
            BY <4>2, <5>1
        <4>3. QED
          BY <2>1, <4>1, <4>2 DEF Kinds
      <3>6. Counted'
        <4>1. ASSUME NEW c \in Clusters PROVE locks'[c].readers <= Cardinality(Holders(c, "shared")')
          <5>1. locks[c].readers <= Cardinality(Holders(c, "shared")) /\ locks[c].readers \in Nat
            BY <1>0 DEF IInv, Counted, Types
          <5>2. CASE c = c0 /\ e.kind = "shared"
            BY <3>3, <3>4, <3>5, <5>1, <5>2
          <5>3. CASE c # c0
            BY <3>2, <3>3, <5>1, <5>3
          <5>4. CASE c = c0 /\ e.kind = "exclusive"
            BY <3>3, <3>5, <5>1, <5>4
          <5>5. QED
            BY <2>1, <5>2, <5>3, <5>4 DEF Kinds
        <4>2. QED
          BY <4>1 DEF Counted
      <3>7. LocksAreHeld'
        <4> SUFFICES ASSUME NEW c \in Guarded
                     PROVE  /\ locks'[c].readers = Cardinality(Holders(c, "shared")')
                            /\ locks'[c].exclusive = (Holders(c, "exclusive")' # {})
          BY <2>0 DEF LocksAreHeld, Guarded
        <4>0. c \in Clusters
          BY DEF Guarded
        <4>1. /\ locks[c].readers = Cardinality(Holders(c, "shared"))
              /\ locks[c].exclusive = (Holders(c, "exclusive") # {})
          BY DEF IInv, LocksAreHeld
        <4>2. CASE c # c0
          BY <3>2, <3>3, <4>0, <4>1, <4>2
        <4>3. CASE c = c0 /\ e.kind = "shared"
          BY <3>3, <3>5, <4>1, <4>3
        <4>4. CASE c = c0 /\ e.kind = "exclusive"
          <5>1. locks'[c].exclusive = TRUE
            BY <3>2, <4>4 DEF Taken
          <5>2. Holders(c, "exclusive")' # {}
            BY <3>3, <4>4
          <5>3. locks'[c].readers = Cardinality(Holders(c, "shared")')
            BY <3>3, <3>5, <4>1, <4>4
          <5>4. QED
            BY <5>1, <5>2, <5>3
        <4>5. QED
          BY <2>1, <4>2, <4>3, <4>4 DEF Kinds
      <3>8. Coherent'
        BY <1>0, <2>0, <2>1, <3>1, StillCoherent DEF IInv, c0
      <3>9. Alone'
        <4> SUFFICES ASSUME NEW k \in OpenHandles', NEW l \in OpenHandles', k # l,
                            handle'[k].first = handle'[l].first, handle'[k].first \in Guarded
                     PROVE  handle'[k].kind = "shared" /\ handle'[l].kind = "shared"
          BY <2>0 DEF Alone, Guarded
        <4>1. /\ \A m \in OpenHandles' \ {h} : m \in OpenHandles /\ handle'[m] = handle[m] /\ m \in Handles
              /\ handle'[h] = e
          BY ZenonT(30), <1>0, <3>1, OthersKept DEF OpenHandles
        <4>2. c0 \in Guarded => /\ locks[c0].readers = Cardinality(Holders(c0, "shared"))
                                /\ locks[c0].exclusive = (Holders(c0, "exclusive") # {})
          BY <3>1 DEF IInv, LocksAreHeld
        <4>3. ASSUME NEW m \in OpenHandles, handle[m].first = c0, c0 \in Guarded
              PROVE  handle[m].kind = "shared" /\ e.kind = "shared"
          <5>1. handle[m].kind \in Kinds
            BY <1>0 DEF Types, File, OpenHandles
          <5>2. ~locks[c0].exclusive
            BY <2>4 DEF Compatible
          <5>3. m \notin Holders(c0, "exclusive")
            BY <4>2, <4>3, <5>2
          <5>4. handle[m].kind = "shared" /\ m \in Holders(c0, "shared")
            BY <4>3, <5>1, <5>3 DEF Holders, Kinds
          <5>5. Cardinality(Holders(c0, "shared")) # 0
            BY <5>4, HoldersFinite, FS_EmptySet
          <5>6. e.kind = "shared"
            BY <2>4, <4>2, <4>3, <5>5 DEF Compatible
          <5>7. QED
            BY <5>4, <5>6
        <4>4. CASE k # h /\ l # h
          BY <4>1, <4>4 DEF IInv, Alone
        <4>5. CASE k = h /\ l # h
          <5>1. l \in OpenHandles /\ handle'[l] = handle[l] /\ handle[l].first = c0 /\ c0 \in Guarded
            BY <2>1, <4>1, <4>5
          <5>2. handle'[k].kind = e.kind
            BY <4>1, <4>5
          <5>3. QED
            BY <4>3, <5>1, <5>2
        <4>6. CASE k # h /\ l = h
          <5>1. k \in OpenHandles /\ handle'[k] = handle[k] /\ handle[k].first = c0 /\ c0 \in Guarded
            BY <2>1, <4>1, <4>6
          <5>2. handle'[l].kind = e.kind
            BY <4>1, <4>6
          <5>3. QED
            BY <4>3, <5>1, <5>2
        <4>7. QED
          BY <4>4, <4>5, <4>6
      <3>10. QED
        BY <1>0, <3>6, <3>7, <3>8, <3>9 DEF IInv
    <2>5. QED
      BY <2>2, <2>3, <2>4
  <1>6. ASSUME NEW h \in Handles, FirstWrite(h) PROVE IInv'
    <2>1. /\ h \in OpenHandles /\ h \in Busy /\ handle[h].first = None /\ None \notin Guarded
          /\ handle[h].id \in 1 .. MaxIds /\ UNCHANGED <<locks, live, ids>>
      BY <1>0, <1>6 DEF FirstWrite, OpenHandles, Busy, Types, Guarded
    <2>2. PICK c0 \in FreeClusters : /\ handle' = [handle EXCEPT ![h].first = c0]
                                     /\ first' = [first EXCEPT ![handle[h].id] = c0]
                                     /\ bare' = bare \cup {c0}
      BY <1>6 DEF FirstWrite
    <2>7. Moved(h, c0) /\ Guarded' = Guarded \ {c0}
      <3>1. c0 \notin Guarded' /\ None \notin Guarded' /\ Guarded' \subseteq Guarded
        BY <2>2, FileLocksAssumption DEF Guarded
      <3>2. QED
        BY <1>0, <2>1, <2>2, <3>1 DEF Moved, Types, File, OpenHandles, Guarded
    <2>8. Coherent' /\ Alone'
      BY <1>0, <2>7, MovedKeeps DEF IInv
    <2>9. LocksAreHeld'
      BY <2>1, <2>7, MovedHolders, <1>0 DEF IInv, LocksAreHeld
    <2>3. \A c \in Clusters : Holders(c, "shared") \subseteq Holders(c, "shared")'
      BY <1>0, <1>6, <2>2 DEF Holders, OpenHandles, FirstWrite, Types, File
    <2>4. ASSUME NEW c \in Clusters
          PROVE  locks[c].readers <= Cardinality(Holders(c, "shared")')
      <3>1. Holders(c, "shared")' \in SUBSET Handles
        BY DEF Holders, OpenHandles
      <3>2. IsFiniteSet(Holders(c, "shared")')
        BY <3>1, FS_Subset
      <3>3. /\ Cardinality(Holders(c, "shared")) <= Cardinality(Holders(c, "shared")')
            /\ Cardinality(Holders(c, "shared")') \in Nat /\ Cardinality(Holders(c, "shared")) \in Nat
        BY <2>3, <3>2, FS_Subset, FS_CardinalityType, HoldersFinite
      <3>4. locks[c].readers <= Cardinality(Holders(c, "shared")) /\ locks[c].readers \in Nat
        BY <1>0 DEF IInv, Counted, Types
      <3>5. QED
        BY <3>3, <3>4
    <2>5. Counted'
      BY <1>6, <2>4 DEF Counted, FirstWrite
    <2>6. QED
      BY <1>0, <2>5, <2>8, <2>9 DEF IInv
  <1>7. ASSUME NEW h \in Handles, Truncate(h) PROVE IInv'
    <2>1. /\ h \in OpenHandles /\ h \in Busy /\ handle[h].id \in 1 .. MaxIds /\ handle[h].first \in Clusters
          /\ handle' = [handle EXCEPT ![h].first = None]
          /\ first' = [first EXCEPT ![handle[h].id] = None]
          /\ bare' = bare \cup {handle[h].first} /\ UNCHANGED <<locks, live, ids>>
      BY <1>0, <1>7 DEF Truncate, OpenHandles, Busy, Types, File
    <2>5. Moved(h, None) /\ Guarded' = Guarded \ {handle[h].first}
      <3>1. handle[h].first \notin Guarded' /\ None \notin Guarded' /\ Guarded' \subseteq Guarded
        BY <2>1, FileLocksAssumption DEF Guarded
      <3>2. QED
        BY <1>0, <2>1, <3>1 DEF Moved, Types, File, OpenHandles, Guarded
    <2>6. Coherent' /\ Alone'
      BY <1>0, <2>5, MovedKeeps DEF IInv
    <2>7. LocksAreHeld'
      BY <2>1, <2>5, MovedHolders, <1>0 DEF IInv, LocksAreHeld
    <2>2. \A c \in Clusters : Holders(c, "shared")' = Holders(c, "shared")
      BY <1>0, <1>7 DEF Holders, OpenHandles, Truncate, Types, File
    <2>3. Counted'
      BY <1>7, <2>2 DEF IInv, Counted, Truncate
    <2>4. QED
      BY <1>0, <2>3, <2>6, <2>7 DEF IInv
  <1>8. ASSUME NEW h \in Handles, CloseAndUnlock(h) PROVE IInv'
    <2> DEFINE c0 == handle[h].first
               kind0 == handle[h].kind
    <2>0. /\ h \in OpenHandles /\ h \in Busy /\ UNCHANGED <<first, live, ids, bare>>
          /\ handle' = [handle EXCEPT ![h] = Closed]
          /\ kind0 \in Kinds
          /\ locks' = IF c0 = None THEN locks
                      ELSE [locks EXCEPT ![c0] = Released(locks[c0], kind0)]
          /\ c0 \in Clusters \cup {None}
      BY <1>0, <1>8 DEF CloseAndUnlock, OpenHandles, Busy, Types, File
    <2>1. ASSUME NEW c, NEW kind
          PROVE  /\ c0 = c /\ kind0 = kind =>
                      /\ Holders(c, kind)' = Holders(c, kind) \ {h}
                      /\ Cardinality(Holders(c, kind)') = Cardinality(Holders(c, kind)) - 1
                 /\ ~(c0 = c /\ kind0 = kind) => Holders(c, kind)' = Holders(c, kind)
      BY <1>0, <2>0, OneLess
    <2>2. \A c, kind : Cardinality(Holders(c, kind)) \in Nat
      BY HoldersFinite
    <2>3. \A c \in Clusters : c # c0 => locks'[c] = locks[c]
      BY <1>0, <2>0 DEF Types
    <2>4. c0 \in Clusters => locks'[c0] = Released(locks[c0], kind0)
      BY <1>0, <2>0 DEF Types
    <2>5. ASSUME NEW c \in Clusters, c = c0
          PROVE  /\ kind0 = "shared" =>
                      /\ locks'[c].readers = IF locks[c].readers = 0 THEN 0 ELSE locks[c].readers - 1
                      /\ locks'[c].exclusive = locks[c].exclusive
                 /\ kind0 = "exclusive" => locks'[c].readers = locks[c].readers
      BY <2>4, <2>5 DEF Released
    <2>6. ASSUME NEW c \in Clusters, c = c0, kind0 = "exclusive"
          PROVE  locks'[c].exclusive = FALSE
      BY <2>4, <2>6 DEF Released
    <2>7. \A k \in Handles \ {h} : handle'[k] = handle[k]
      BY <1>0, <2>0 DEF Types
    <2>8. OpenHandles' = OpenHandles \ {h}
      <3>1. h \notin OpenHandles'
        <4>1. Closed.pc # "open"
          BY DEF Closed
        <4>2. QED
          BY <1>0, <2>0, <4>1, OthersKept
      <3>2. QED
        BY <2>7, <3>1 DEF OpenHandles
    <2>9. Counted'
      <3>1. ASSUME NEW c \in Clusters PROVE locks'[c].readers <= Cardinality(Holders(c, "shared")')
        <4>1. locks[c].readers <= Cardinality(Holders(c, "shared")) /\ locks[c].readers \in Nat
          BY <1>0 DEF IInv, Counted, Types
        <4>2. CASE c # c0
          BY <2>1, <2>3, <4>1, <4>2
        <4>3. CASE c = c0 /\ kind0 = "shared"
          <5>1. h \in Holders(c, "shared")
            BY <2>0, <4>3 DEF Holders
          <5>2. Cardinality(Holders(c, "shared")) >= 1
            BY <2>2, <5>1, HoldersFinite, FS_EmptySet
          <5>3. QED
            BY <2>1, <2>2, <2>5, <4>1, <4>3, <5>2
        <4>4. CASE c = c0 /\ kind0 = "exclusive"
          BY <2>1, <2>5, <4>1, <4>4
        <4>5. QED
          BY <2>0, <4>2, <4>3, <4>4 DEF Kinds
      <3>2. QED
        BY <3>1 DEF Counted
    <2>10. LocksAreHeld'
      <3> SUFFICES ASSUME NEW c \in Guarded
                   PROVE  /\ locks'[c].readers = Cardinality(Holders(c, "shared")')
                          /\ locks'[c].exclusive = (Holders(c, "exclusive")' # {})
        BY <2>0 DEF LocksAreHeld, Guarded
      <3>0. c \in Clusters
        BY DEF Guarded
      <3>1. /\ locks[c].readers = Cardinality(Holders(c, "shared"))
            /\ locks[c].exclusive = (Holders(c, "exclusive") # {})
        BY DEF IInv, LocksAreHeld
      <3>2. CASE c # c0
        BY <2>1, <2>3, <3>0, <3>1, <3>2
      <3>3. CASE c = c0 /\ kind0 = "shared"
        <4>1. h \in Holders(c, "shared")
          BY <2>0, <3>3 DEF Holders
        <4>2. Cardinality(Holders(c, "shared")) # 0
          BY <4>1, HoldersFinite, FS_EmptySet
        <4>3. Holders(c, "exclusive")' = Holders(c, "exclusive")
          BY <2>1, <3>3
        <4>4. locks'[c].readers = locks[c].readers - 1 /\ locks'[c].exclusive = locks[c].exclusive
          BY <2>5, <3>0, <3>1, <3>3, <4>2
        <4>5. QED
          BY <2>1, <3>1, <3>3, <4>3, <4>4
      <3>4. CASE c = c0 /\ kind0 = "exclusive"
        <4>1. \A k \in Holders(c, "exclusive") : k = h
          BY <2>0, <3>4 DEF IInv, Alone, Holders
        <4>2. Holders(c, "exclusive")' = {}
          BY <2>1, <3>4, <4>1
        <4>3. locks'[c].exclusive = FALSE
          BY <2>6, <3>0, <3>4
        <4>4. locks'[c].readers = Cardinality(Holders(c, "shared")')
          BY <2>1, <2>5, <3>0, <3>1, <3>4
        <4>5. QED
          BY <4>2, <4>3, <4>4
      <3>5. QED
        BY <2>0, <3>2, <3>3, <3>4 DEF Kinds
    <2>11. Coherent'
      BY <1>0, <2>0, StillCoherent DEF IInv
    <2>12. Alone'
      <3>1. \A k \in OpenHandles' : k \in OpenHandles /\ handle'[k] = handle[k]
        BY <2>7, <2>8 DEF OpenHandles
      <3>2. QED
        BY <2>0, <3>1 DEF IInv, Alone, Guarded
    <2>13. QED
      BY <1>0, <2>9, <2>10, <2>11, <2>12 DEF IInv
  <1>9. CASE UNCHANGED lockVars
    <2>1. \A c, kind : Holders(c, kind)' = Holders(c, kind)
      BY <1>9, SameHolders DEF lockVars
    <2>2. Counted' /\ LocksAreHeld'
      BY <1>9, <2>1 DEF IInv, lockVars, Counted, LocksAreHeld, Guarded
    <2>3. Coherent' /\ Alone'
      BY <1>9 DEF IInv, lockVars, Coherent, Alone, Guarded, Busy, OpenHandles
    <2>4. QED
      BY <1>0, <2>2, <2>3 DEF IInv
  <1>10. QED
    BY <1>1, <1>2, <1>3, <1>4, <1>5, <1>6, <1>7, <1>8, <1>9 DEF LocksNext
-----------------------------------------------------------------------------
\* What holds initially and is kept by every step holds always.
LEMMA Always == LocksSpec => []IInv
  BY InitIInv, NextIInv, PTL DEF LocksSpec

\* The table never counts more readers than there are handles, and open files are on files
\* and clusters of the volume (FileLockManager, for every program).
THEOREM TypeCorrect == LocksSpec => []TypeOK
  <1>1. IInv => TypeOK
    BY IInvImplies
  <1>2. QED
    BY <1>1, Always, PTL

\* A writer has its file alone and readers share it, with any number of handles and whatever
\* is removed, created and given the clusters of removed files between the steps of an open
\* (open_file_locked, create_file_locked).  Of a file that was empty when it was opened, or
\* was emptied since, nothing is said: it is open without its lock.
THEOREM Exclusion == LocksSpec => []MutualExclusion
  <1>1. IInv => MutualExclusion
    BY IInvImplies
  <1>2. QED
    BY <1>1, Always, PTL

\* And the table holds exactly the locks of the open files: a release (unlock) never takes
\* away the lock of another, and none stays behind.  Excepted are the clusters that the first
\* write gave to a file opened empty, and those that a file lost while it was open.
THEOREM NoneLeftBehind == LocksSpec => []LocksAreHeld
  <1>1. IInv => LocksAreHeld
    BY DEF IInv
  <1>2. QED
    BY <1>1, Always, PTL
=============================================================================

----------------------------- MODULE FileLocks ------------------------------
(***************************************************************************)
(* Files opened under a lock: FileLockManager                              *)
(* (fatrs/src/file_locking.rs), open_file_locked and create_file_locked    *)
(* (fatrs/src/dir.rs), close_and_unlock (fatrs/src/file.rs).               *)
(*                                                                         *)
(* The lock of a file is the entry of the table under the file's first     *)
(* cluster.  The open reads that cluster from the directory entry and      *)
(* awaits the table before it takes the lock, so each is a step.  Builds   *)
(* without debug assertions, for which a release of a lock that is not     *)
(* held does not panic.  A program closes what it opened under a lock with *)
(* close_and_unlock.                                                       *)
(***************************************************************************)
EXTENDS Integers, FiniteSets

CONSTANTS
  Handles,   \* File values that programs may hold
  Clusters,
  None,      \* no cluster
  MaxIds     \* bound: files created in a behaviour

ASSUME FileLocksAssumption == None \notin Clusters /\ MaxIds \in Nat /\ IsFiniteSet(Handles)

VARIABLES
  locks,   \* FileLockManager.locks: cluster -> state, Unlocked where there is no entry
  handle,  \* the opens in progress and the open files
  first,   \* the first cluster in the entry of each file
  live,    \* the files that exist
  ids,     \* files created so far
  bare     \* history: clusters that an open file got, or gave up, without their lock

lockVars == <<locks, handle, first, live, ids, bare>>

-----------------------------------------------------------------------------
Kinds == {"shared", "exclusive"}
Unlocked == [readers |-> 0, exclusive |-> FALSE]
Closed == [pc |-> "closed", id |-> 0, kind |-> "shared", first |-> None]

OpenHandles == {h \in Handles : handle[h].pc = "open"}
Guarded == Clusters \ bare
FreeClusters == Clusters \ {first[f] : f \in live}

LocksInit ==
  /\ locks = [c \in Clusters |-> Unlocked]
  /\ handle = [h \in Handles |-> Closed]
  /\ first = [f \in 1 .. MaxIds |-> None]
  /\ live = {} /\ ids = 0 /\ bare = {}

-----------------------------------------------------------------------------
\* Mutant: a writer is only kept out by a writer.
MutCompatible(state, kind) == ~state.exclusive

Compatible(state, kind) ==
  IF kind = "shared" THEN ~state.exclusive ELSE ~state.exclusive /\ state.readers = 0

\* try_lock that fails leaves the state.
Refused(state, kind) == state

\* try_lock that succeeds.
Taken(state, kind) ==
  IF kind = "shared" THEN [readers |-> state.readers + 1, exclusive |-> state.exclusive]
  ELSE [readers |-> state.readers, exclusive |-> TRUE]

\* Mutant: the entry goes with the first reader that leaves.
MutReleased(state, kind) == Unlocked

\* unlock: what is not held is not released (saturating_sub).
Released(state, kind) ==
  IF kind = "exclusive" THEN [readers |-> state.readers, exclusive |-> FALSE]
  ELSE [readers |-> IF state.readers = 0 THEN 0 ELSE state.readers - 1,
        exclusive |-> state.exclusive]

\* A file is created; by create_file_locked, its open goes on with Find.
CreateFile ==
  /\ ids < MaxIds
  /\ ids' = ids + 1
  /\ live' = live \cup {ids + 1}
  /\ UNCHANGED <<locks, handle, first, bare>>

\* A file that nobody has opened under a lock gets its first cluster.
Grow(f) ==
  /\ f \in live /\ first[f] = None
  /\ \A h \in Handles : handle[h].id # f
  /\ \E c \in FreeClusters : first' = [first EXCEPT ![f] = c]
  /\ UNCHANGED <<locks, handle, live, ids, bare>>

\* open_file_locked ("shared") and create_file_locked ("exclusive"): the entry is found.
Find(h, kind, f) ==
  /\ handle[h] = Closed /\ f \in live
  /\ handle' = [handle EXCEPT ![h] = [pc |-> "found", id |-> f, kind |-> kind, first |-> first[f]]]
  /\ UNCHANGED <<locks, first, live, ids, bare>>

\* Then the lock of its first cluster is tried; a file without clusters takes none.
Lock(h) ==
  /\ handle[h].pc = "found"
  /\ LET f == handle[h] IN
     IF f.first = None
     THEN handle' = [handle EXCEPT ![h].pc = "open"] /\ UNCHANGED locks
     ELSE IF Compatible(locks[f.first], f.kind)
     THEN /\ handle' = [handle EXCEPT ![h].pc = "open"]
          /\ locks' = [locks EXCEPT ![f.first] = Taken(@, f.kind)]
     ELSE /\ handle' = [handle EXCEPT ![h] = Closed]       \* FileLocked
          /\ locks' = [locks EXCEPT ![f.first] = Refused(@, f.kind)]
  /\ UNCHANGED <<first, live, ids, bare>>

\* The first write to a file that was empty when it was opened: it gets a cluster,
\* and no lock.
FirstWrite(h) ==
  /\ h \in OpenHandles /\ handle[h].first = None /\ handle[h].id \in live
  /\ \E c \in FreeClusters :
       /\ handle' = [handle EXCEPT ![h].first = c]
       /\ first' = [first EXCEPT ![handle[h].id] = c]
       /\ bare' = bare \cup {c}
  /\ UNCHANGED <<locks, live, ids>>

\* truncate at offset 0, and flush, by a writer: the cluster goes, its lock stays.
Truncate(h) ==
  /\ h \in OpenHandles /\ handle[h].kind = "exclusive"
  /\ handle[h].first # None /\ handle[h].id \in live
  /\ handle' = [handle EXCEPT ![h].first = None]
  /\ first' = [first EXCEPT ![handle[h].id] = None]
  /\ bare' = bare \cup {handle[h].first}
  /\ UNCHANGED <<locks, live, ids>>

\* remove: the table of locks is not asked.
RemoveFile(f) ==
  /\ f \in live
  /\ live' = live \ {f}
  /\ first' = [first EXCEPT ![f] = None]
  /\ UNCHANGED <<locks, handle, ids, bare>>

\* close_and_unlock: the entry under the first cluster the file has now.
CloseAndUnlock(h) ==
  /\ h \in OpenHandles
  /\ LET f == handle[h] IN
     locks' = IF f.first = None THEN locks ELSE [locks EXCEPT ![f.first] = Released(@, f.kind)]
  /\ handle' = [handle EXCEPT ![h] = Closed]
  /\ UNCHANGED <<first, live, ids, bare>>

LocksNext ==
  \/ CreateFile
  \/ \E f \in 1 .. MaxIds : Grow(f) \/ RemoveFile(f)
  \/ \E h \in Handles :
       \/ Lock(h) \/ FirstWrite(h) \/ Truncate(h) \/ CloseAndUnlock(h)
       \/ \E kind \in Kinds, f \in 1 .. MaxIds : Find(h, kind, f)

LocksSpec == LocksInit /\ [][LocksNext]_lockVars

-----------------------------------------------------------------------------
TypeOK ==
  /\ locks \in [Clusters -> [readers : 0 .. Cardinality(Handles), exclusive : BOOLEAN]]
  /\ handle \in [Handles -> [pc : {"closed", "found", "open"}, id : 0 .. MaxIds, kind : Kinds,
                             first : Clusters \cup {None}]]
  /\ first \in [1 .. MaxIds -> Clusters \cup {None}]
  /\ live \subseteq 1 .. MaxIds
  /\ ids \in 0 .. MaxIds
  /\ bare \subseteq Clusters

\* Readers share a file and a writer has it alone (file_locking.rs:8), whatever is removed,
\* created and given the clusters of removed files between an open and its lock, or
\* afterwards.  A file without clusters has no lock to take, so this says nothing of one that
\* is opened empty, as a new file is (create_file_locked, dir.rs:545), nor of the cluster its
\* first write gives it, nor of one emptied while it is open: those are not guarded.
MutualExclusion ==
  \A h, k \in OpenHandles :
    h # k /\ handle[h].id = handle[k].id /\ handle[h].first \in Guarded
      => handle[h].kind = "shared" /\ handle[k].kind = "shared"

Holders(c, kind) == {h \in OpenHandles : handle[h].first = c /\ handle[h].kind = kind}

\* The locks in the table are those of the open files, each under the cluster its holder
\* will release: none outlives its holder, none is released by another, but for clusters
\* that came to an open file without their lock, or left it.
LocksAreHeld ==
  \A c \in Guarded : /\ locks[c].readers = Cardinality(Holders(c, "shared"))
                     /\ locks[c].exclusive = (Holders(c, "exclusive") # {})
=============================================================================

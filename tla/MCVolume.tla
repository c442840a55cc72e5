------------------------------ MODULE MCVolume ------------------------------
(* What a loss of power leaves of a volume, one part in each behaviour:    *)
(* of the cached sectors of its table (FatCache), of its directory, table  *)
(* and flags (DirUpdates), of the updates under the intent log             *)
(* (TransactionLog).                                                       *)
EXTENDS FatCache, DirUpdates, TransactionLog, TLC

CONSTANTS a, b    \* a short and a long name; a directory that both fill

MCLength == a :> 1 @@ b :> 2
AllButTruncate == Operations \ {"truncate"}
MCPrograms == {AllButTruncate, {"create", "append", "truncate", "flush"}}

ASSUME PartsAssumption == FatCacheAssumption /\ DirUpdatesAssumption

\* The calls of with_transaction are interchangeable.
Symmetry == Permutations(Tx)

VARIABLE part
allVars == <<part, cacheVars, vars, logVars>>

\* The parts that do not move stay in an initial state.
DirRests == program = AllButTruncate /\ fat32 /\ cached
PartInit ==
  /\ part \in {"cache", "directory", "log"}
  /\ CacheInit /\ Init /\ LogInit
  /\ part = "directory" \/ DirRests
  /\ part = "log" \/ fresh = {}

PartNext ==
  /\ \/ part = "cache" /\ CacheNext /\ UNCHANGED <<vars, logVars>>
     \/ part = "directory" /\ Next /\ UNCHANGED <<cacheVars, logVars>>
     \/ part = "log" /\ LogNext /\ UNCHANGED <<vars, cacheVars>>
  /\ UNCHANGED part

PartSpec == PartInit /\ [][PartNext]_allVars
=============================================================================

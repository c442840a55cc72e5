------------------------------ MODULE MCAccess ------------------------------
(* Several users of a volume and the devices it may lie on, one part in    *)
(* each behaviour: programs that lock files (FileLocks); a kernel that     *)
(* names files by inodes, or the paths of the library itself (FuseInodes); *)
(* the rotated header over NOR flash (HeaderRotation); the page buffer and *)
(* its streams (PageStream).                                               *)
EXTENDS FileLocks, FuseInodes, HeaderRotation, PageStream, TLC

VARIABLE part

allVars == <<part, lockVars, vars, rotationVars, bufferVars>>

ASSUME PartsAssumption == FuseAssumption /\ SizesAssumption

\* Less than a block, a block and a part, a page, the device.
Given == {<<1>>, <<0, 1, 1>>, <<1, 1, 0, 1>>, <<1, 0, 0, 1, 0, 1, 1, 0>>}

Blank == \A i \in DOMAIN disk : disk[i] = 0

\* The part that does not move stays in an initial state.
PartInit ==
  /\ part \in {"locks", "paths", "header", "stream"}
  /\ LocksInit /\ Init /\ RotationInit /\ BufferInit
  /\ part = "paths" \/ client = "fuse"
  /\ part = "header" \/ rotation = 1
  /\ part = "stream" \/ kind = "direct"
  /\ Blank

PartNext ==
  /\ \/ part = "locks" /\ LocksNext /\ UNCHANGED <<vars, rotationVars, bufferVars>>
     \/ part = "paths" /\ Next /\ UNCHANGED <<lockVars, rotationVars, bufferVars>>
     \/ part = "header" /\ RotationNext /\ UNCHANGED <<lockVars, vars, bufferVars>>
     \/ part = "stream" /\ BufferNext /\ UNCHANGED <<lockVars, vars, rotationVars>>
  /\ UNCHANGED part

PartSpec == PartInit /\ [][PartNext]_allVars

\* The clusters that locks are kept under are interchangeable.
Alike == Permutations(Clusters)

\* The last reply is not part of the state: each is checked as it is given.
Seen == <<part, lockVars, entries, isDir, freed, made, client, table, means, known, displaced,
          rotationVars, kind, disk, page, pos, stale, faults, restarts>>
=============================================================================

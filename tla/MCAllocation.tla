---------------------------- MODULE MCAllocation ----------------------------
(* ClusterAlloc under three programs: operations on different files        *)
(* interleave, one of them allocating, after a mount that knows the free   *)
(* count (FAT16, FAT32); or one operation runs at a time, reads fail too,  *)
(* and the count is unknown; or the same on FAT12, where an entry is       *)
(* written together with a half of its neighbour.                          *)
EXTENDS ClusterAlloc

VARIABLE program
allVars == <<vars, program>>

Interleaved == INSTANCE ClusterAlloc WITH
  Packed <- FALSE, CountKnown <- TRUE, MaxBusy <- 2, MaxOps <- 7, MaxReadFaults <- 0
Serial == INSTANCE ClusterAlloc WITH
  Packed <- FALSE, CountKnown <- FALSE, MaxBusy <- 1, MaxOps <- 6, MaxWriteFaults <- 0
Fat12 == INSTANCE ClusterAlloc WITH
  Packed <- TRUE, CountKnown <- FALSE, MaxBusy <- 1, MaxOps <- 6, MaxReadFaults <- 0

ProgramInit ==
  \/ program = "interleaved" /\ Interleaved!Init
  \/ program = "serial" /\ Serial!Init
  \/ program = "fat12" /\ Fat12!Init

ProgramNext ==
  /\ \/ program = "interleaved" /\ Interleaved!Next
     \/ program = "serial" /\ Serial!Next
     \/ program = "fat12" /\ Fat12!Next
  /\ UNCHANGED program

ProgramSpec == ProgramInit /\ [][ProgramNext]_allVars

\* The executor runs every task that is ready.
ProgramStep(f) ==
  /\ \/ program = "fat12" /\ Fat12!Step(f)
     \/ program # "fat12" /\ Serial!Step(f)
  /\ Remember
  /\ UNCHANGED program

FairProgramSpec ==
  /\ ProgramSpec
  /\ \A f \in Files : WF_allVars(ProgramStep(f))

\* One operation at a time leaves no bit of ClusterBitmap set for an occupied
\* cluster, so its hint is free.
SerialHintIsFree == program # "interleaved" => HintIsFree
=============================================================================

----------------------------- MODULE MCOpenFiles -----------------------------
(* What an open File relies on, one part in each behaviour: its directory   *)
(* entry (DirHandles, under a careful and under a bold program) or its     *)
(* position (FileCursor).                                                  *)
EXTENDS DirHandles, FileCursor, TLC

\* No file is removed or renamed while it is open, nothing is released while
\* another file is open; or files with clusters are removed under open files.
MCPrograms == {{}, {"free_while_open", "remove_nonempty_open"}}

ASSUME PartsAssumption == DirHandlesAssumption /\ FileCursorAssumption

VARIABLE part

\* The part that does not move stays in an initial state.
PartInit ==
  /\ Init /\ CursorInit
  /\ \/ part = "entries"
     \/ part = "cursor" /\ Careful

\* Bounds of the second program: files of one cluster, one cluster less.
Small == (\A h \in Handles : handle'[h].off <= 1) /\ fat'[Total + 1] = Free

PartNext ==
  /\ \/ part = "entries" /\ Next /\ (Careful \/ Small) /\ UNCHANGED cursorVars
     \/ part = "cursor" /\ CursorNext /\ UNCHANGED vars
  /\ UNCHANGED part

PartSpec == PartInit /\ [][PartNext]_<<part, vars, cursorVars>>

Symmetry == Permutations(Handles) \cup Permutations(Names) \cup Permutations(Values)
==============================================================================

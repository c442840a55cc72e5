------------------------------ MODULE NameSpace ------------------------------
(***************************************************************************)
(* What the directory operations of fatrs promise, as their documentation  *)
(* in fatrs/src/dir.rs words it: a tree of named files and directories.    *)
(* `reply' holds the arguments and the outcome of the last call; every     *)
(* step is the effect that call should have.                               *)
(***************************************************************************)
EXTENDS Integers, SequencesExt

CONSTANTS
  Objects,  \* files and directories, Root among them
  Root,
  Names     \* the names of entries, "." and ".." aside

NoObject == -1
Nowhere == <<>>

VARIABLES
  place,    \* the directory and the name of each object, or Nowhere
  isDir,    \* which objects are directories
  reply     \* [op, dir, path, toDir, toPath, ok, object]

vars == <<place, isDir, reply>>

Init ==
  /\ place = [o \in Objects |-> Nowhere]
  /\ isDir = [o \in Objects |-> o = Root]
  /\ reply.op = "mount"

\* The object that component n leads to from directory d.
Child(d, n) ==
  IF n = "." /\ d # Root THEN d
  ELSE IF n = ".." /\ d # Root THEN place[d][1]
  ELSE IF \E o \in Objects : place[o] = <<d, n>>
  THEN CHOOSE o \in Objects : place[o] = <<d, n>>
  ELSE NoObject

\* The objects that the components of a path lead to, one after the other.
Walk(d, path) ==
  LET to[i \in 0 .. Len(path)] ==
        IF i = 0 THEN d
        ELSE IF to[i - 1] \in Objects /\ isDir[to[i - 1]] THEN Child(to[i - 1], path[i])
        ELSE NoObject IN
    to

Parent(d, path) == LET p == Walk(d, path)[Len(path) - 1] IN
                   IF p \in Objects /\ isDir[p] THEN p ELSE NoObject
At(d, path) == Walk(d, path)[Len(path)]
Empty(o) == \A x \in Objects : place[x] = Nowhere \/ place[x][1] # o

Unchanged == UNCHANGED <<place, isDir>>

\* open_file, open_dir, open_meta, exists: the object of the asked kind.
Lookup(r) ==
  /\ LET o == At(r.dir, r.path)
         right == o # NoObject /\ (r.op = "open_file" => ~isDir[o])
                               /\ (r.op = "open_dir" => isDir[o]) IN
       r.ok = right /\ r.object = IF right THEN o ELSE NoObject
  /\ Unchanged

\* create_file, create_dir: the object that is there, or a new one.
Create(r) ==
  LET o == At(r.dir, r.path)
      p == Parent(r.dir, r.path)
      dir == r.op = "create_dir" IN
    \/ o # NoObject /\ r.ok = (isDir[o] = dir) /\ (r.ok => r.object = o) /\ Unchanged
    \/ p = NoObject /\ ~r.ok /\ Unchanged
    \/ /\ o = NoObject /\ p # NoObject /\ r.ok
       /\ place[r.object] = Nowhere /\ r.object # Root
       /\ place' = [place EXCEPT ![r.object] = <<p, Last(r.path)>>]
       /\ isDir' = [isDir EXCEPT ![r.object] = dir]

\* remove: a file, or an empty directory.
Removal(r) ==
  LET o == At(r.dir, r.path) IN
    \/ (o = NoObject \/ (isDir[o] /\ ~Empty(o))) /\ ~r.ok /\ Unchanged
    \/ /\ o # NoObject /\ (isDir[o] => Empty(o)) /\ r.ok
       /\ place' = [place EXCEPT ![o] = Nowhere]
       /\ isDir' = [isDir EXCEPT ![o] = FALSE]

\* rename: the object at `path' of `dir' is at `toPath' of `toDir' after it.
Rename(r) ==
  LET o == At(r.dir, r.path)
      t == At(r.toDir, r.toPath)
      p == Parent(r.toDir, r.toPath) IN
    \/ (o = NoObject \/ p = NoObject \/ t \notin {NoObject, o}) /\ ~r.ok /\ Unchanged
    \/ o # NoObject /\ t = o /\ r.ok /\ Unchanged
    \/ /\ o # NoObject /\ t = NoObject /\ p # NoObject /\ r.ok
       /\ place' = [place EXCEPT ![o] = <<p, Last(r.toPath)>>]
       /\ UNCHANGED isDir

Next ==
  \/ reply'.op \in {"open_file", "open_dir", "open_meta"} /\ Lookup(reply')
  \/ reply'.op \in {"create_file", "create_dir"} /\ Create(reply')
  \/ reply'.op = "remove" /\ Removal(reply')
  \/ reply'.op = "rename" /\ Rename(reply')

NameSpaceSpec == Init /\ [][Next]_vars
=============================================================================

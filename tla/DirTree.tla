------------------------------- MODULE DirTree -------------------------------
(***************************************************************************)
(* The directories of a volume as the calls of Dir leave them              *)
(* (fatrs/src/dir.rs): paths are walked entry by entry, "." and ".." are   *)
(* entries like the others, written when a directory is created.  A        *)
(* directory is known by its first cluster.  Names are taken up to case;   *)
(* how entries lie on the disk is the subject of DirUpdates.               *)
(***************************************************************************)
EXTENDS Integers, SequencesExt, Functions

CONSTANTS
  Names,       \* names of entries, as compared (upper case)
  MaxObjects,  \* bound: files and directories ever created
  MaxPath,     \* bound: components of a path
  MaxTarget,   \* bound: components of the destination path of rename
  MovesDirs    \* directories are renamed into other directories: ".." is not rewritten

Root == 0
Objects == 0 .. MaxObjects
NoObject == -1
Dots == {".", ".."}

\* Checked where the constants get their values.
TreeAssumption ==
  MaxObjects \in Nat /\ MaxPath \in Nat /\ MaxTarget \in Nat /\ Names \cap Dots = {}

VARIABLES
  entries,  \* of each directory: name -> object, "." and ".." included
  isDir,
  freed,    \* objects whose clusters have been freed
  made,     \* objects created so far
  reply     \* arguments and outcome of the last call, as in NameSpace

treeVars == <<entries, isDir, freed, made, reply>>

NoEntries == [n \in {} |-> Root]

\* f with its value at x set.
Put(f, x, v) == [y \in DOMAIN f \cup {x} |-> IF y = x THEN v ELSE f[y]]

TreeInit ==
  /\ entries = [o \in Objects |-> NoEntries]
  /\ isDir = [o \in Objects |-> o = Root]
  /\ freed = {} /\ made = 0
  /\ reply = [op |-> "mount"]

Answer(op, d, p, d2, p2, ok, o) ==
  reply' = [op |-> op, dir |-> d, path |-> p, toDir |-> d2, toPath |-> p2,
            ok |-> ok, object |-> o]

\* find_entry(name, None) in directory d, and the walk over the components of
\* a path, each of which must be a directory.
Finds(d, n) == n \in DOMAIN entries[d]
Step(d, n) == IF d # NoObject /\ Finds(d, n) /\ isDir[entries[d][n]]
              THEN entries[d][n] ELSE NoObject
Walk(d, path) ==
  LET to[i \in 0 .. Len(path)] == IF i = 0 THEN d ELSE Step(to[i - 1], path[i]) IN to
ParentOf(d, path) == Walk(d, path)[Len(path) - 1]
Resolve(d, path) ==
  LET p == ParentOf(d, path) IN
    IF p # NoObject /\ Finds(p, Last(path)) THEN entries[p][Last(path)] ELSE NoObject

Unchanged == UNCHANGED <<entries, isDir, freed, made>>

\* open_file, open_dir, open_meta, by the kind they ask for.
Open(op, d, path) ==
  LET o == Resolve(d, path)
      right == /\ o # NoObject
               /\ op = "open_file" => ~isDir[o]
               /\ op = "open_dir" => isDir[o] IN
    /\ Answer(op, d, path, d, <<>>, right, IF right THEN o ELSE NoObject)
    /\ Unchanged

\* Mutant: ".." leads to the grandparent.
MutFirstEntries(o, p) ==
  [n \in Dots |-> IF n = "." THEN o ELSE IF p = Root THEN Root ELSE entries[p][".."]]

\* The entries of a new directory in directory p (create_dir).
FirstEntries(o, p) == [n \in Dots |-> IF n = "." THEN o ELSE p]

\* create_file, create_dir: what is there is opened, a new entry written.
Create(op, d, path) ==
  LET p == ParentOf(d, path)
      o == Resolve(d, path)
      n == made + 1 IN
    \/ /\ p = NoObject \/ (o # NoObject /\ isDir[o] # (op = "create_dir"))
       /\ Answer(op, d, path, d, <<>>, FALSE, NoObject)
       /\ Unchanged
    \/ /\ o # NoObject /\ isDir[o] = (op = "create_dir")
       /\ Answer(op, d, path, d, <<>>, TRUE, o)
       /\ Unchanged
    \/ /\ p # NoObject /\ o = NoObject
       /\ made < MaxObjects /\ made' = n
       /\ isDir' = [isDir EXCEPT ![n] = op = "create_dir"]
       /\ entries' = [entries EXCEPT ![p] = Put(@, Last(path), n),
                        ![n] = IF op = "create_dir" THEN FirstEntries(n, p) ELSE NoEntries]
       /\ Answer(op, d, path, d, <<>>, TRUE, n)
       /\ UNCHANGED freed

\* is_empty skips "." and "..".
IsEmpty(o) == DOMAIN entries[o] \subseteq Dots
Removable(o) == isDir[o] => IsEmpty(o)

\* remove: the entry is deleted, then its clusters are freed.
RemoveEntry(d, path) ==
  LET p == ParentOf(d, path)
      o == Resolve(d, path) IN
    IF o # NoObject /\ Removable(o)
    THEN /\ entries' = [entries EXCEPT ![p] = Restrict(@, DOMAIN @ \ {Last(path)})]
         /\ freed' = freed \cup {o}
         /\ isDir' = [isDir EXCEPT ![o] = FALSE]
         /\ Answer("remove", d, path, d, <<>>, TRUE, o)
         /\ UNCHANGED made
    ELSE Answer("remove", d, path, d, <<>>, FALSE, NoObject) /\ Unchanged

\* rename: the destination path is walked from `self', but only to see that
\* it exists: the entry is looked for and written in dst_dir itself, under
\* the last component (rename_internal).
Rename(d, path, dst, target) ==
  LET p == ParentOf(d, path)
      o == Resolve(d, path)
      name == Last(target) IN
    IF o = NoObject \/ ParentOf(d, target) = NoObject
       \/ (Finds(dst, name) /\ entries[dst][name] # o)
    THEN Answer("rename", d, path, dst, target, FALSE, NoObject) /\ Unchanged
    ELSE /\ entries' = IF Finds(dst, name) THEN entries
                       ELSE LET cut == [entries EXCEPT ![p] =
                                          Restrict(@, DOMAIN @ \ {Last(path)})] IN
                              [cut EXCEPT ![dst] = Put(@, name, o)]
         /\ Answer("rename", d, path, dst, target, TRUE, o)
         /\ UNCHANGED <<isDir, freed, made>>

-----------------------------------------------------------------------------
(* Callers of the library: any directory they hold, any path.  The name    *)
(* that is created, removed or renamed is not "." or "..".                 *)
LiveDirs == {d \in Objects : isDir[d]}
Paths(max) == UNION {[1 .. n -> Names \cup Dots] : n \in 1 .. max}
Named(max) == {q \in Paths(max) : Last(q) \in Names}

\* What MovesDirs = FALSE keeps out: a directory whose entry gets into another
\* directory.
Careful(d, path, dst) ==
  LET o == Resolve(d, path) IN
    MovesDirs \/ (o # NoObject /\ isDir[o] => ParentOf(d, path) = dst)

Call ==
  \/ \E d \in LiveDirs, path \in Paths(MaxPath), op \in {"open_file", "open_dir", "open_meta"} :
       Open(op, d, path)
  \/ \E d \in LiveDirs, path \in Named(MaxPath), op \in {"create_file", "create_dir"} :
       Create(op, d, path)
  \/ \E d \in LiveDirs, path \in Named(MaxPath) : RemoveEntry(d, path)
  \/ \E d, dst \in LiveDirs, path \in Named(MaxPath), target \in Named(MaxTarget) :
       Careful(d, path, dst) /\ Rename(d, path, dst, target)

-----------------------------------------------------------------------------
\* Where an object is, by the one entry that names it.
Place == [o \in Objects |->
            IF \E d \in LiveDirs, n \in Names : Finds(d, n) /\ entries[d][n] = o
            THEN CHOOSE w \in LiveDirs \X Names : Finds(w[1], w[2]) /\ entries[w[1]][w[2]] = o
            ELSE <<>>]

Tree == INSTANCE NameSpace WITH place <- Place

\* What rename does of a destination path with several components: the
\* directories on it must exist below `self', and the entry gets the last
\* component as its name in dst_dir itself.
FiledAbove(r) ==
  /\ Len(r.toPath) > 1
  /\ IF Tree!Parent(r.dir, r.toPath) = NoObject THEN ~r.ok /\ Tree!Unchanged
     ELSE Tree!Rename([r EXCEPT !.toPath = <<Last(r.toPath)>>])

\* Every call has the effect the documentation of Dir gives it: in
\* particular ".." leads to the parent, nothing but an empty directory or a
\* file goes, and a renamed entry is where dst_dir and dst_path say.  The one
\* exception is a rename to a path with several components, FiledAbove.  Said
\* of volumes where no directory gets into another one: rename does not write
\* its ".." anew (MovesDirs).
Effect == Tree!Next \/ (reply'.op = "rename" /\ FiledAbove(reply'))
ImplementsNameSpace == Tree!Init /\ [][Effect]_(Tree!vars)

\* The same of renames that succeed, without the exception: a file is then at
\* `dst_path', "a '/' separated destination file path relative to `dst_dir`"
\* (dir.rs:767), however many components it has.
FilesGoWhereAsked ==
  [][ reply'.op = "rename" /\ reply'.ok /\ ~isDir[reply'.object] => Tree!Rename(reply') ]_treeVars
=============================================================================

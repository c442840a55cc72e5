------------------------------ MODULE FuseInodes ------------------------------
(***************************************************************************)
(* FuseAdapter (fatrs-fuse/src/lib.rs) over the directories of a volume:   *)
(* the kernel names files by inode numbers, the adapter keeps a map from   *)
(* inode to path and back, and turns every request into calls of Dir with  *)
(* a path from the root.  Requests are served one at a time (fuser calls   *)
(* the adapter with &mut self), each of them to its end.                   *)
(*                                                                         *)
(* The kernel asks with the inodes that lookup, create and mkdir have      *)
(* answered with.  Attributes, contents and the offsets of readdir are     *)
(* left out, and so are the entries "." and "..", which the kernel does    *)
(* not look up.  The other `client' calls the library itself.              *)
(***************************************************************************)
EXTENDS DirTree

CONSTANTS
  Clients,    \* users to be explored: "fuse", "library"
  MaxInodes   \* bound: inodes allocated

\* Checked where the constants get their values.
FuseAssumption == TreeAssumption /\ MaxInodes \in Nat

VARIABLES
  client,
  table,      \* inode_to_path, path_to_inode and next_inode
  means,      \* the file each inode was first given out for
  known,      \* inodes the kernel has been told of
  displaced   \* inodes that a rename has left with the path of no file, or of another

vars == <<treeVars, client, table, means, known, displaced>>

RootInode == 1
Mapped(ino) == ino \in DOMAIN table.path

Init ==
  /\ TreeInit
  /\ client \in Clients
  /\ table = [path |-> [i \in {RootInode} |-> <<>>], inode |-> [p \in {<<>>} |-> RootInode],
              next |-> 2]
  /\ means = [i \in {RootInode} |-> Root]
  /\ known = {RootInode}
  /\ displaced = {}

(***************************************************************************)
(* allocate_inode for some <<path, object>>: the paths that have no inode  *)
(* get the next ones.  Any order is allowed for: readdir comes to them in  *)
(* the order of their slots, which DirTree leaves out.                     *)
(***************************************************************************)
Allocate(found) ==
  LET new == {w \in found : w[1] \notin DOMAIN table.inode} IN
    \E next \in table.next .. MaxInodes + 1 :
      \E given \in Bijection(table.next .. next - 1, new) :
        LET Extended(f, field) ==
              [i \in DOMAIN f \cup DOMAIN given |-> IF i \in DOMAIN f THEN f[i] ELSE given[i][field]] IN
        /\ table' = [path |-> Extended(table.path, 1),
                     inode |-> [p \in DOMAIN table.inode \cup {w[1] : w \in new} |->
                                  IF p \in DOMAIN table.inode THEN table.inode[p]
                                  ELSE CHOOSE i \in DOMAIN given : given[i][1] = p],
                     next |-> next]
        /\ means' = Extended(means, 2)

NoAllocation == UNCHANGED <<table, means, known>>

\* The paths of an inode and of a name in a directory.
PathOf(parent, name) == Append(table.path[parent], name)

\* The replies of lookup, create and mkdir tell the kernel the inode.
Entered(path) ==
  IF reply'.ok
  THEN /\ Allocate({<<path, reply'.object>>})
       /\ known' = known \cup {table'.inode[path]}
  ELSE NoAllocation

Lookup(parent, name) ==
  /\ Mapped(parent)
  /\ Open("open_meta", Root, PathOf(parent, name))
  /\ Entered(PathOf(parent, name))
  /\ UNCHANGED displaced

\* create and mkdir: the call, open_meta, and a new inode.
Make(op, parent, name) ==
  /\ Mapped(parent)
  /\ Create(op, Root, PathOf(parent, name))
  /\ Entered(PathOf(parent, name))
  /\ UNCHANGED displaced

\* getattr, read, write and setattr open the path of the inode.
Use(op, ino) ==
  /\ ino # RootInode /\ Mapped(ino)
  /\ Open(op, Root, table.path[ino])
  /\ NoAllocation /\ UNCHANGED displaced

\* readdir: inodes for the entries the reply has room for.
ReadDir(ino) ==
  LET d == IF ino = RootInode THEN Root ELSE Resolve(Root, table.path[ino]) IN
    /\ Mapped(ino) /\ d # NoObject /\ isDir[d]
    /\ \E shown \in SUBSET (DOMAIN entries[d] \ Dots) :
         Allocate({<<PathOf(ino, name), entries[d][name]>> : name \in shown})
    /\ UNCHANGED <<treeVars, known, displaced>>

\* Mutant: the path is left in path_to_inode.
MutForget(path) ==
  [path |-> Restrict(table.path, DOMAIN table.path \ {table.inode[path]}),
   inode |-> table.inode, next |-> table.next]

\* The mapping of a removed path goes, both ways.
Forget(path) ==
  [path |-> Restrict(table.path, DOMAIN table.path \ {table.inode[path]}),
   inode |-> Restrict(table.inode, DOMAIN table.inode \ {path}), next |-> table.next]

\* unlink and rmdir
Unlink(parent, name) ==
  LET path == PathOf(parent, name) IN
    /\ Mapped(parent)
    /\ RemoveEntry(Root, path)
    /\ table' = IF reply'.ok /\ path \in DOMAIN table.inode THEN Forget(path) ELSE table
    /\ displaced' = displaced \cap DOMAIN table'.path
    /\ UNCHANGED <<means, known>>

\* rename: the inode of the old path takes the new one, as it was asked for;
\* the inodes of what is below a directory keep their paths, and so does an
\* inode that had the new path already.
Move(old, new) ==
  LET ino == table.inode[old] IN
    [path |-> [table.path EXCEPT ![ino] = new], next |-> table.next,
     inode |-> Put(Restrict(table.inode, DOMAIN table.inode \ {old}), new, ino)]

Below(path) == {i \in DOMAIN table.path : IsStrictPrefix(path, table.path[i])}

\* The inodes whose paths are wrong after a rename: those below the old path,
\* and those that have the new path when the file is not there but in the root
\* directory, where Dir::rename files it.
Misled(old, new) ==
  IF Len(new) = 1 THEN (IF old = new THEN {} ELSE Below(old))
  ELSE Below(old) \cup {i \in DOMAIN table.path : table.path[i] \in {old, new}}

RenameInode(parent, name, newparent, newname) ==
  LET old == PathOf(parent, name)
      new == PathOf(newparent, newname) IN
    /\ Mapped(parent) /\ Mapped(newparent)
    /\ ~IsPrefix(old, new) \/ old = new          \* the kernel refuses it
    /\ Careful(Root, old, Root)
    /\ Rename(Root, old, Root, new)
    /\ table' = IF reply'.ok /\ old \in DOMAIN table.inode THEN Move(old, new) ELSE table
    /\ displaced' = IF reply'.ok THEN displaced \cup Misled(old, new) ELSE displaced
    /\ UNCHANGED <<means, known>>

Request ==
  \/ \E parent \in known, name \in Names :
       \/ Lookup(parent, name)
       \/ \E op \in {"create_file", "create_dir"} : Make(op, parent, name)
       \/ Unlink(parent, name)
       \/ \E newparent \in known, newname \in Names :
            RenameInode(parent, name, newparent, newname)
  \/ \E ino \in known : ReadDir(ino) \/ \E op \in {"open_meta", "open_file"} : Use(op, ino)

Next ==
  \/ client = "fuse" /\ Request /\ UNCHANGED client
  \/ client = "library" /\ Call /\ UNCHANGED <<client, table, means, known, displaced>>

Spec == Init /\ [][Next]_vars

-----------------------------------------------------------------------------
\* An inode stands for the file it was first given out for, for as long as it
\* is mapped: its path leads to that file and the path leads back to the
\* inode.  So no request is answered from another file.  The exceptions are
\* the inodes below a renamed directory (their paths are not rewritten), and
\* those a rename into a subdirectory gives a path the file is not filed at.
\* And an inode that lookup, create or mkdir would answer with is mapped.
InodesNameTheirFile ==
  client = "fuse" =>
    /\ \A ino \in DOMAIN table.path \ (displaced \cup {RootInode}) :
         /\ Resolve(Root, table.path[ino]) = means[ino]
         /\ table.path[ino] \in DOMAIN table.inode
         /\ table.inode[table.path[ino]] = ino
    /\ \A path \in DOMAIN table.inode :
         Mapped(table.inode[path]) /\ table.path[table.inode[path]] = path
=============================================================================

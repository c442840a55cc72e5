----------------------------- MODULE TreeProofs -----------------------------
(***************************************************************************)
(* Theorems about DirTree and FuseInodes, for any names, number of files,  *)
(* length of paths and number of inodes: the calls of Dir are those of a   *)
(* tree of names (NameSpace) but for renames to several components, and    *)
(* the inodes of FuseAdapter stand for their files.  Directories stay in   *)
(* their directory (~MovesDirs): rename leaves their ".." as it was.       *)
(***************************************************************************)
EXTENDS FuseInodes, SequenceTheorems, NaturalsInduction, WellFoundedInduction, TLAPS

-----------------------------------------------------------------------------
(* Lemmas about numbers and recursion.                                     *)

\* A set of numbers has a least one.
LEMMA LeastOf ==
  ASSUME NEW S \in SUBSET Nat, S # {}
  PROVE  \E x \in S : \A y \in S : x <= y
  <1> DEFINE Less == OpToRel(<, Nat)
  <1>1. IsWellFoundedOn(Less, Nat)
    BY NatLessThanWellFounded
  <1>2. \A x, y \in Nat : y < x => <<y, x>> \in Less
    BY DEF OpToRel
  <1> HIDE DEF Less
  <1>3. PICK x \in S : \A y \in S : <<y, x>> \notin Less
    BY <1>1, WFMin
  <1>4. ASSUME NEW y \in S PROVE x <= y
    <2>1. ~(y < x) /\ x \in Nat /\ y \in Nat
      BY <1>2, <1>3
    <2>2. QED
      BY <2>1
  <1>5. QED
    BY <1>4

\* What holds of 0, and of a number when it holds of the one before, holds of
\* all numbers up to n.
LEMMA UpTo ==
  ASSUME NEW n \in Nat, NEW Good, 0 \in Good,
         \A i \in 1 .. n : i - 1 \in Good => i \in Good
  PROVE  \A i \in 0 .. n : i \in Good
  <1> DEFINE Bad == {i \in 0 .. n : i \notin Good}
  <1> SUFFICES ASSUME Bad # {} PROVE FALSE
    OBVIOUS
  <1>1. Bad \in SUBSET Nat
    OBVIOUS
  <1> HIDE DEF Bad
  <1>2. PICK m \in Bad : \A k \in Bad : m <= k
    BY <1>1, LeastOf
  <1> USE DEF Bad
  <1>3. m \in 1 .. n /\ m - 1 \notin Bad
    BY <1>2
  <1>4. QED
    BY <1>2, <1>3

\* The steps of a walk can be taken one after the other.
IsWalk(S, d, n, g, f) ==
  /\ f \in [0 .. n -> S]
  /\ \A i \in 0 .. n : f[i] = IF i = 0 THEN d ELSE g[i][f[i - 1]]
Closed(S, n, g) == \A i \in 1 .. n : \A x \in S : g[i][x] \in S

LEMMA WalkExists ==
  ASSUME NEW S, NEW d \in S, NEW n \in Nat, NEW g, Closed(S, n, g)
  PROVE  \E f : IsWalk(S, d, n, g, f)
  <1> DEFINE Good == {m \in 0 .. n : \E f : IsWalk(S, d, m, g, f)}
  <1>1. 0 \in Good
    <2> DEFINE f == [i \in 0 .. 0 |-> d]
    <2>1. IsWalk(S, d, 0, g, f)
      BY DEF IsWalk
    <2>2. QED
      BY <2>1
  <1>2. ASSUME NEW m \in 1 .. n, m - 1 \in Good PROVE m \in Good
    <2>1. PICK f : IsWalk(S, d, m - 1, g, f)
      BY <1>2
    <2> DEFINE h == [i \in 0 .. m |-> IF i = m THEN g[m][f[m - 1]] ELSE f[i]]
    <2>2. m - 1 \in 0 .. m - 1 /\ f[m - 1] \in S
      BY <2>1 DEF IsWalk
    <2>3. h \in [0 .. m -> S]
      BY <2>1, <2>2 DEF IsWalk, Closed
    <2>4. ASSUME NEW i \in 0 .. m PROVE h[i] = IF i = 0 THEN d ELSE g[i][h[i - 1]]
      <3>1. CASE i = m
        BY <3>1
      <3>2. CASE i # m
        <4>1. i \in 0 .. m - 1 /\ (i # 0 => i - 1 \in 0 .. m /\ i - 1 # m)
          BY <3>2
        <4>2. QED
          BY <2>1, <3>2, <4>1 DEF IsWalk
      <3>3. QED
        BY <3>1, <3>2
    <2> HIDE DEF h
    <2>5. IsWalk(S, d, m, g, h)
      BY <2>3, <2>4 DEF IsWalk
    <2>6. QED
      BY <2>5
  <1> HIDE DEF Good
  <1>3. n \in Good
    <2>1. \A m \in 0 .. n : m \in Good
      BY <1>1, <1>2, UpTo
    <2>2. QED
      BY <2>1
  <1>4. QED
    BY <1>3 DEF Good

-----------------------------------------------------------------------------
(* The directories (DirTree).                                              *)

TreeTypes ==
  /\ isDir \in [Objects -> BOOLEAN] /\ isDir[Root]
  /\ made \in 0 .. MaxObjects
  /\ DOMAIN entries = Objects
  /\ \A d \in Objects : DOMAIN entries[d] \subseteq Names \cup Dots
  /\ \A d \in Objects : \A n \in DOMAIN entries[d] : entries[d][n] \in 0 .. made

\* Only directories have entries but "." and "..", and those name objects that
\* were created; what was not created is nothing.
OnlyDirs ==
  /\ \A d \in Objects : ~isDir[d] => DOMAIN entries[d] \subseteq Dots
  /\ \A d \in Objects : isDir[d] => d <= made
  /\ DOMAIN entries[Root] \subseteq Names
  /\ \A d \in Objects : \A n \in Names \cap DOMAIN entries[d] : entries[d][n] # Root

\* An object has one entry.
OneEntry ==
  \A d, e \in Objects : \A n \in Names \cap DOMAIN entries[d], m \in Names \cap DOMAIN entries[e] :
    entries[d][n] = entries[e][m] => d = e /\ n = m

\* "." of a directory is the directory, ".." the one that has its entry.
DotsLead ==
  \A d \in Objects \ {Root} : isDir[d] =>
    /\ Dots \subseteq DOMAIN entries[d] /\ entries[d]["."] = d
    /\ \E n \in Names \cap DOMAIN entries[entries[d][".."]] : entries[entries[d][".."]][n] = d

TreeInv == TreeTypes /\ OnlyDirs /\ OneEntry /\ DotsLead

LEMMA ObjectsAre ==
  ASSUME TreeAssumption
  PROVE  /\ Objects \subseteq Nat /\ Root \in Objects /\ NoObject \notin Objects /\ Root = 0
         /\ \A i \in 0 .. MaxObjects : i \in Objects
         /\ \A o \in Objects : o \in Nat /\ o <= MaxObjects
         /\ Names \cap Dots = {} /\ "." \in Dots /\ ".." \in Dots
  BY DEF TreeAssumption, Objects, Root, NoObject, Dots

LEMMA EntriesAre ==
  ASSUME TreeAssumption, TreeTypes
  PROVE  \A d \in Objects : \A n \in DOMAIN entries[d] : entries[d][n] \in Objects
  <1> SUFFICES ASSUME NEW d \in Objects, NEW n \in DOMAIN entries[d] PROVE entries[d][n] \in Objects
    OBVIOUS
  <1>1. entries[d][n] \in 0 .. made /\ made \in 0 .. MaxObjects
    BY DEF TreeTypes
  <1>2. entries[d][n] \in 0 .. MaxObjects
    BY <1>1 DEF TreeAssumption
  <1>3. QED
    BY <1>2 DEF Objects

Reached == Objects \cup {NoObject}
Way == Seq(Names \cup Dots)

\* A walk goes from directory to directory, or nowhere.
LEMMA WalkIs ==
  ASSUME TreeAssumption, TreeTypes, NEW d \in Objects, isDir[d], NEW path \in Way
  PROVE  /\ Len(path) \in Nat /\ DOMAIN path = 1 .. Len(path)
         /\ Walk(d, path) \in [0 .. Len(path) -> Reached] /\ Walk(d, path)[0] = d
         /\ \A i \in 1 .. Len(path) : Walk(d, path)[i] = Step(Walk(d, path)[i - 1], path[i])
         /\ \A i \in 0 .. Len(path) :
              Walk(d, path)[i] # NoObject => Walk(d, path)[i] \in Objects /\ isDir[Walk(d, path)[i]]
  <1> DEFINE L == Len(path)
             g == [i \in 1 .. L |-> [x \in Reached |-> Step(x, path[i])]]
             w == Walk(d, path)
             F(f) == f = [i \in 0 .. L |-> IF i = 0 THEN d ELSE Step(f[i - 1], path[i])]
  <1>1. L \in Nat /\ DOMAIN path = 1 .. L
    BY LenProperties DEF Way
  <1>2. ASSUME NEW x \in Reached, NEW n PROVE /\ Step(x, n) \in Reached
                                              /\ Step(x, n) # NoObject => isDir[Step(x, n)] /\ Step(x, n) \in Objects
    <2>1. x # NoObject /\ Finds(x, n) => entries[x][n] \in Objects
      BY EntriesAre, <1>2 DEF Finds, Reached
    <2>2. QED
      BY <2>1 DEF Step, Reached
  <1>3. \A i \in 1 .. L : \A x \in Reached : g[i][x] = Step(x, path[i]) /\ g[i][x] \in Reached
    BY <1>2
  <1> HIDE DEF g, L
  <1>4. d \in Reached
    BY DEF Reached
  <1>5. Closed(Reached, L, g)
    BY <1>3 DEF Closed
  <1>6. PICK f : IsWalk(Reached, d, L, g, f)
    BY <1>1, <1>4, <1>5, WalkExists
  <1>7. f \in [0 .. L -> Reached] /\ \A i \in 0 .. L : f[i] = IF i = 0 THEN d ELSE g[i][f[i - 1]]
    BY <1>6 DEF IsWalk
  <1>8. \A i \in 0 .. L : f[i] = IF i = 0 THEN d ELSE Step(f[i - 1], path[i])
    <2> SUFFICES ASSUME NEW i \in 0 .. L PROVE f[i] = IF i = 0 THEN d ELSE Step(f[i - 1], path[i])
      OBVIOUS
    <2>1. CASE i = 0
      BY <1>7, <2>1
    <2>2. CASE i # 0
      <3>1. i \in 1 .. L /\ f[i - 1] \in Reached
        BY <1>1, <1>7, <2>2
      <3>2. f[i] = g[i][f[i - 1]]
        BY <1>7, <2>2
      <3>3. QED
        BY <1>3, <2>2, <3>1, <3>2
    <2>3. QED
      BY <2>1, <2>2
  <1>9. F(f)
    BY <1>7, <1>8
  <1>10. w = CHOOSE h : F(h)
    BY DEF Walk, L
  <1> HIDE DEF F, w
  <1>11. F(w)
    BY <1>9, <1>10
  <1>12. w = [i \in 0 .. L |-> IF i = 0 THEN d ELSE Step(w[i - 1], path[i])]
    BY <1>11 DEF F
  <1>13. w[0] = d /\ \A i \in 1 .. L : w[i] = Step(w[i - 1], path[i])
    BY <1>1, <1>12
  <1> DEFINE Good == {i \in 0 .. L : w[i] \in Reached /\ (w[i] # NoObject => isDir[w[i]] /\ w[i] \in Objects)}
  <1>14. \A i \in 0 .. L : i \in Good
    <2>1. 0 \in Good
      BY <1>1, <1>4, <1>13
    <2>2. ASSUME NEW i \in 1 .. L, i - 1 \in Good PROVE i \in Good
      BY <1>2, <1>13, <2>2
    <2> HIDE DEF Good
    <2>3. QED
      BY <1>1, <2>1, <2>2, UpTo
  <1>15. w \in [0 .. L -> Reached]
    BY <1>12, <1>14
  <1>16. QED
    BY <1>1, <1>13, <1>14, <1>15 DEF w, L

\* Where nothing was found, nothing more is.
LEMMA WalkEnds ==
  ASSUME TreeAssumption, TreeTypes, NEW d \in Objects, isDir[d], NEW path \in Way,
         NEW i \in 0 .. Len(path), Walk(d, path)[i] = NoObject
  PROVE  \A j \in i .. Len(path) : Walk(d, path)[j] = NoObject
  <1> DEFINE L == Len(path)
             w == Walk(d, path)
             Good == {k \in 0 .. L - i : w[i + k] = NoObject}
  <1>1. L \in Nat /\ \A j \in 1 .. L : w[j] = Step(w[j - 1], path[j])
    BY WalkIs
  <1>2. w[i] = NoObject /\ i \in 0 .. L
    OBVIOUS
  <1> HIDE DEF w, L
  <1>3. 0 \in Good
    BY <1>1, <1>2
  <1>4. ASSUME NEW k \in 1 .. L - i, k - 1 \in Good PROVE k \in Good
    <2>1. i + k \in 1 .. L /\ i + k - 1 = i + (k - 1)
      BY <1>1, <1>2
    <2>2. w[i + k] = Step(w[i + k - 1], path[i + k])
      BY <1>1, <2>1
    <2>3. QED
      BY <1>4, <2>1, <2>2 DEF Step
  <1> HIDE DEF Good
  <1>5. L - i \in Nat
    BY <1>1, <1>2
  <1>6. \A k \in 0 .. L - i : k \in Good
    BY <1>3, <1>4, <1>5, UpTo
  <1>7. ASSUME NEW j \in i .. L PROVE w[j] = NoObject
    <2>1. j - i \in 0 .. L - i /\ i + (j - i) = j
      BY <1>1, <1>2
    <2>2. QED
      BY <1>6, <2>1 DEF Good
  <1>8. QED
    BY <1>7 DEF w, L

\* What a path that is not empty leads to.
LEMMA ResolveIs ==
  ASSUME TreeAssumption, TreeTypes, NEW d \in Objects, isDir[d], NEW path \in Way, path # <<>>
  PROVE  /\ Len(path) \in Nat \ {0} /\ Last(path) = path[Len(path)] /\ Last(path) \in Names \cup Dots
         /\ ParentOf(d, path) = Walk(d, path)[Len(path) - 1]
         /\ ParentOf(d, path) \in Reached
         /\ ParentOf(d, path) # NoObject => ParentOf(d, path) \in Objects /\ isDir[ParentOf(d, path)]
         /\ Resolve(d, path) \in Reached
         /\ Resolve(d, path) # NoObject =>
              /\ Resolve(d, path) \in Objects /\ ParentOf(d, path) # NoObject
              /\ Last(path) \in DOMAIN entries[ParentOf(d, path)]
              /\ Resolve(d, path) = entries[ParentOf(d, path)][Last(path)]
  <1>1. Len(path) \in Nat \ {0} /\ \A i \in 1 .. Len(path) : path[i] \in Names \cup Dots
    BY LenProperties, EmptySeq DEF Way
  <1>2. Last(path) = path[Len(path)] /\ Last(path) \in Names \cup Dots
    BY <1>1 DEF Last
  <1>3. ParentOf(d, path) = Walk(d, path)[Len(path) - 1]
    BY DEF ParentOf
  <1> DEFINE p == ParentOf(d, path)
  <1>4. p \in Reached /\ (p # NoObject => p \in Objects /\ isDir[p])
    <2>1. Len(path) - 1 \in 0 .. Len(path)
      BY <1>1
    <2> HIDE DEF p
    <2>2. QED
      BY <1>3, <2>1, WalkIs DEF p
  <1>5. p # NoObject /\ Finds(p, Last(path)) => entries[p][Last(path)] \in Objects
    BY <1>4, EntriesAre DEF Finds
  <1> HIDE DEF p
  <1>6. Resolve(d, path) = IF p # NoObject /\ Finds(p, Last(path)) THEN entries[p][Last(path)] ELSE NoObject
    BY DEF Resolve, p
  <1>7. QED
    BY <1>1, <1>2, <1>3, <1>4, <1>5, <1>6 DEF p, Reached, Finds

-----------------------------------------------------------------------------
(* Places and the abstract walk.                                           *)

HasEntry(d, n, o) == n \in DOMAIN entries[d] /\ entries[d][n] = o

PlaceFacts ==
  /\ Place = [o \in Objects |-> Place[o]]
  /\ \A o, d \in Objects : \A n \in Names : Place[o] = <<d, n>> <=> HasEntry(d, n, o)
  /\ \A o \in Objects : Place[o] = <<>> \/ \E d \in Objects : \E n \in Names : Place[o] = <<d, n>>

LEMMA PlaceIs == TreeAssumption => (TreeInv => PlaceFacts)
  <1> SUFFICES ASSUME TreeAssumption, TreeInv PROVE PlaceFacts
    OBVIOUS
  <1> DEFINE Is(o, w) == w \in LiveDirs \X Names /\ Finds(w[1], w[2]) /\ entries[w[1]][w[2]] = o
             Cond(o) == \E d \in LiveDirs, n \in Names : Finds(d, n) /\ entries[d][n] = o
  <1>1. \A o \in Objects : Place[o] = IF Cond(o)
                                      THEN CHOOSE w \in LiveDirs \X Names : Finds(w[1], w[2]) /\ entries[w[1]][w[2]] = o
                                      ELSE <<>>
    BY DEF Place
  <1>2. ASSUME NEW o \in Objects, NEW d \in Objects, NEW n \in Names, HasEntry(d, n, o)
        PROVE  Place[o] = <<d, n>>
    <2>1. d \in LiveDirs
      <3>1. n \notin Dots
        BY ObjectsAre
      <3>2. QED
        BY <1>2, <3>1 DEF LiveDirs, TreeInv, OnlyDirs, HasEntry
    <2>2. Cond(o)
      BY <1>2, <2>1 DEF Finds, HasEntry
    <2>3. Is(o, <<d, n>>)
      BY <1>2, <2>1 DEF Finds, HasEntry
    <2>4. Place[o] = CHOOSE w \in LiveDirs \X Names : Finds(w[1], w[2]) /\ entries[w[1]][w[2]] = o
      BY <1>1, <2>2
    <2>5. Is(o, Place[o])
      BY <2>3, <2>4
    <2> DEFINE e == Place[o][1]
               m == Place[o][2]
    <2>6. Place[o] = <<e, m>> /\ e \in LiveDirs /\ m \in Names /\ m \in DOMAIN entries[e] /\ entries[e][m] = o
      BY <2>5 DEF Finds
    <2> HIDE DEF e, m
    <2>7. e = d /\ m = n
      BY <1>2, <2>6 DEF TreeInv, OneEntry, HasEntry, LiveDirs
    <2>8. QED
      BY <2>6, <2>7
  <1>3. ASSUME NEW o \in Objects, Place[o] # <<>>
        PROVE  \E d \in Objects : \E n \in Names : Place[o] = <<d, n>> /\ HasEntry(d, n, o)
    <2>1. Cond(o)
      BY <1>1, <1>3
    <2>2. PICK d \in LiveDirs, n \in Names : Finds(d, n) /\ entries[d][n] = o
      BY <2>1
    <2>3. d \in Objects /\ HasEntry(d, n, o)
      BY <2>2 DEF LiveDirs, Finds, HasEntry
    <2>4. QED
      BY <1>2, <2>3
  <1>4. Place = [o \in Objects |-> Place[o]]
    BY DEF Place
  <1>5. ASSUME NEW o \in Objects, NEW d \in Objects, NEW n \in Names, Place[o] = <<d, n>>
        PROVE  HasEntry(d, n, o)
    <2>1. Place[o] # <<>>
      BY <1>5
    <2>2. PICK e \in Objects, m \in Names : Place[o] = <<e, m>> /\ HasEntry(e, m, o)
      BY <1>3, <2>1
    <2>3. e = d /\ m = n
      BY <1>5, <2>2
    <2>4. QED
      BY <2>2, <2>3
  <1>6. QED
    BY <1>2, <1>3, <1>4, <1>5 DEF PlaceFacts

\* A component leads to the same object among directories and in the tree.
LEMMA ChildIs ==
  ASSUME TreeAssumption, TreeInv, NEW d \in Objects, isDir[d], NEW n \in Names \cup Dots
  PROVE  Tree!Child(d, n) = IF n \in DOMAIN entries[d] THEN entries[d][n] ELSE NoObject
  <1>1. PlaceFacts
    BY PlaceIs
  <1>2. /\ Dots = {".", ".."} /\ Names \cap Dots = {}
        /\ Tree!NoObject = NoObject
    BY DEF Dots, TreeAssumption, NoObject, Tree!NoObject
  <1> DEFINE Some(m) == \E o \in Objects : Place[o] = <<d, m>>
             One(m) == IF Some(m) THEN CHOOSE o \in Objects : Place[o] = <<d, m>> ELSE NoObject
  <1>3. Tree!Child(d, n) = IF n = "." /\ d # Root THEN d
                           ELSE IF n = ".." /\ d # Root THEN Place[d][1] ELSE One(n)
    BY <1>2 DEF Tree!Child
  <1>4. CASE n \in Names
    <2>1. CASE n \in DOMAIN entries[d]
      <3> DEFINE x == entries[d][n]
      <3>1. x \in Objects /\ HasEntry(d, n, x)
        BY <2>1, EntriesAre DEF TreeInv, HasEntry
      <3> HIDE DEF x
      <3>2. Place[x] = <<d, n>>
        BY <1>1, <1>4, <3>1 DEF PlaceFacts
      <3>3. \A o \in Objects : Place[o] = <<d, n>> => o = x
        BY <1>1, <1>4, <3>1 DEF PlaceFacts, HasEntry
      <3>4. One(n) = x
        BY <3>1, <3>2, <3>3
      <3>5. QED
        BY <1>2, <1>3, <1>4, <2>1, <3>4 DEF x
    <2>2. CASE n \notin DOMAIN entries[d]
      <3>1. ~Some(n)
        BY <1>1, <1>4, <2>2 DEF PlaceFacts, HasEntry
      <3>2. QED
        BY <1>2, <1>3, <1>4, <2>2, <3>1
    <2>3. QED
      BY <2>1, <2>2
  <1>5. CASE n \in Dots /\ d = Root
    <2>1. n \notin DOMAIN entries[d]
      BY <1>2, <1>5 DEF TreeInv, OnlyDirs
    <2>2. ~Some(n)
      <3> SUFFICES ASSUME NEW o \in Objects, Place[o] = <<d, n>> PROVE FALSE
        OBVIOUS
      <3>1. PICK e \in Objects, m \in Names : Place[o] = <<e, m>>
        BY <1>1 DEF PlaceFacts
      <3>2. QED
        BY <1>2, <1>5, <3>1
    <2>3. QED
      BY <1>2, <1>3, <1>5, <2>1, <2>2
  <1>6. CASE n = "." /\ d # Root
    BY <1>2, <1>3, <1>6 DEF TreeInv, DotsLead
  <1>7. CASE n = ".." /\ d # Root
    <2> DEFINE p == entries[d][".."]
    <2>1. ".." \in DOMAIN entries[d]
      BY <1>2, <1>7 DEF TreeInv, DotsLead
    <2>2. p \in Objects
      BY <2>1, EntriesAre DEF TreeInv
    <2>3. PICK m \in Names : HasEntry(p, m, d)
      BY <1>7 DEF TreeInv, DotsLead, HasEntry
    <2> HIDE DEF p
    <2>4. Place[d] = <<p, m>>
      BY <1>1, <2>2, <2>3 DEF PlaceFacts
    <2>5. Place[d][1] = p
      BY <2>4
    <2>6. QED
      BY <1>3, <1>7, <2>1, <2>5 DEF p
  <1>8. QED
    BY <1>2, <1>4, <1>5, <1>6, <1>7

\* The walk in the tree, where it is in a directory, is that of DirTree.
LEMMA WalksAgree ==
  ASSUME TreeAssumption, TreeInv, NEW d \in Objects, isDir[d], NEW path \in Way
  PROVE  /\ Tree!Walk(d, path)[0] = d
         /\ \A i \in 1 .. Len(path) :
              Tree!Walk(d, path)[i] = IF Walk(d, path)[i - 1] # NoObject
                                      THEN Tree!Child(Walk(d, path)[i - 1], path[i]) ELSE NoObject
         /\ \A i \in 0 .. Len(path) :
              Walk(d, path)[i] = IF Tree!Walk(d, path)[i] \in Objects /\ isDir[Tree!Walk(d, path)[i]]
                                 THEN Tree!Walk(d, path)[i] ELSE NoObject
  <1> DEFINE L == Len(path)
             w == Walk(d, path)
             v == Tree!Walk(d, path)
             TreeStep(x, n) == IF x \in Objects /\ isDir[x] THEN Tree!Child(x, n) ELSE Tree!NoObject
             F(f) == f = [i \in 0 .. L |-> IF i = 0 THEN d ELSE TreeStep(f[i - 1], path[i])]
             g == [i \in 1 .. L |-> [x \in Reached |-> TreeStep(x, path[i])]]
  <1>1. /\ L \in Nat /\ DOMAIN path = 1 .. L
        /\ w \in [0 .. L -> Reached] /\ w[0] = d
        /\ \A i \in 1 .. L : w[i] = Step(w[i - 1], path[i])
        /\ \A i \in 1 .. L : path[i] \in Names \cup Dots
    <2>1. TreeTypes
      BY DEF TreeInv
    <2>2. \A i \in 1 .. L : path[i] \in Names \cup Dots
      BY LenProperties DEF Way
    <2>3. QED
      BY <2>1, <2>2, WalkIs
  <1>2. NoObject \notin Objects /\ Tree!NoObject = NoObject
    BY ObjectsAre DEF NoObject, Tree!NoObject
  <1>3. ASSUME NEW x \in Reached, NEW n \in Names \cup Dots
        PROVE  /\ TreeStep(x, n) \in Reached
               /\ Step(IF x \in Objects /\ isDir[x] THEN x ELSE NoObject, n)
                    = IF TreeStep(x, n) \in Objects /\ isDir[TreeStep(x, n)] THEN TreeStep(x, n) ELSE NoObject
    <2>1. CASE x \in Objects /\ isDir[x]
      <3>1. Tree!Child(x, n) = IF n \in DOMAIN entries[x] THEN entries[x][n] ELSE NoObject
        BY <2>1, ChildIs
      <3>2. n \in DOMAIN entries[x] => entries[x][n] \in Objects
        BY <2>1, EntriesAre DEF TreeInv
      <3>3. QED
        BY <1>2, <2>1, <3>1, <3>2 DEF Step, Finds, Reached
    <2>2. CASE ~(x \in Objects /\ isDir[x])
      BY <1>2, <2>2 DEF Step, Reached
    <2>3. QED
      BY <2>1, <2>2
  <1>4. v = CHOOSE h : F(h)
    BY DEF Tree!Walk
  <1>5. \A i \in 1 .. L : \A x \in Reached : g[i][x] = TreeStep(x, path[i]) /\ g[i][x] \in Reached
    BY <1>1, <1>3
  <1> HIDE DEF g, L, v, w, TreeStep
  <1>6. Closed(Reached, L, g) /\ d \in Reached
    BY <1>5 DEF Closed, Reached
  <1>7. PICK f : IsWalk(Reached, d, L, g, f)
    BY <1>1, <1>6, WalkExists
  <1>8. F(f)
    <2>1. \A i \in 0 .. L : f[i] = IF i = 0 THEN d ELSE TreeStep(f[i - 1], path[i])
      <3> SUFFICES ASSUME NEW i \in 0 .. L PROVE f[i] = IF i = 0 THEN d ELSE TreeStep(f[i - 1], path[i])
        OBVIOUS
      <3>1. CASE i = 0
        BY <1>7, <3>1 DEF IsWalk
      <3>2. CASE i # 0
        <4>1. i \in 1 .. L /\ f[i - 1] \in Reached
          BY <1>1, <1>7, <3>2 DEF IsWalk
        <4>2. f[i] = g[i][f[i - 1]]
          BY <1>7, <3>2 DEF IsWalk
        <4>3. QED
          BY <1>5, <3>2, <4>1, <4>2
      <3>3. QED
        BY <3>1, <3>2
    <2>2. f \in [0 .. L -> Reached]
      BY <1>7 DEF IsWalk
    <2>3. QED
      BY <2>1, <2>2
  <1> HIDE DEF F
  <1>9. F(v)
    BY <1>4, <1>8
  <1>10. v = [i \in 0 .. L |-> IF i = 0 THEN d ELSE TreeStep(v[i - 1], path[i])]
    BY <1>9 DEF F
  <1>11. v[0] = d /\ \A i \in 1 .. L : v[i] = TreeStep(v[i - 1], path[i])
    BY <1>1, <1>10
  <1> DEFINE Same(i) == w[i] = IF v[i] \in Objects /\ isDir[v[i]] THEN v[i] ELSE NoObject
             Good == {i \in 0 .. L : v[i] \in Reached /\ Same(i)}
  <1>12. \A i \in 0 .. L : i \in Good
    <2>1. 0 \in Good
      BY <1>1, <1>11 DEF Reached
    <2>2. ASSUME NEW i \in 1 .. L, i - 1 \in Good PROVE i \in Good
      <3>1. v[i - 1] \in Reached /\ w[i - 1] = IF v[i - 1] \in Objects /\ isDir[v[i - 1]] THEN v[i - 1] ELSE NoObject
        BY <2>2
      <3>2. path[i] \in Names \cup Dots /\ v[i] = TreeStep(v[i - 1], path[i]) /\ w[i] = Step(w[i - 1], path[i])
        BY <1>1, <1>11
      <3>3. QED
        BY <1>3, <3>1, <3>2
    <2> HIDE DEF Good
    <2>3. QED
      BY <1>1, <2>1, <2>2, UpTo
  <1>13. ASSUME NEW i \in 1 .. L
         PROVE  v[i] = IF w[i - 1] # NoObject THEN Tree!Child(w[i - 1], path[i]) ELSE NoObject
    <2>1. i - 1 \in Good
      BY <1>1, <1>12
    <2>2. w[i - 1] = IF v[i - 1] \in Objects /\ isDir[v[i - 1]] THEN v[i - 1] ELSE NoObject
      BY <2>1
    <2>3. QED
      BY <1>2, <1>11, <2>2 DEF TreeStep
  <1>14. \A i \in 0 .. L : Same(i)
    BY <1>12
  <1>15. QED
    BY <1>11, <1>13, <1>14 DEF v, w, L

LEMMA PathsAgree ==
  ASSUME TreeAssumption, TreeInv, NEW d \in Objects, isDir[d], NEW path \in Way, path # <<>>
  PROVE  /\ Tree!Parent(d, path) = ParentOf(d, path)
         /\ Tree!At(d, path) = Resolve(d, path)
  <1>1. TreeTypes
    BY DEF TreeInv
  <1>2. /\ Len(path) \in Nat \ {0} /\ Last(path) = path[Len(path)] /\ Last(path) \in Names \cup Dots
        /\ ParentOf(d, path) = Walk(d, path)[Len(path) - 1]
        /\ ParentOf(d, path) # NoObject => ParentOf(d, path) \in Objects /\ isDir[ParentOf(d, path)]
    BY <1>1, ResolveIs
  <1>3. Tree!NoObject = NoObject
    BY DEF NoObject, Tree!NoObject
  <1>4. Len(path) - 1 \in 0 .. Len(path) /\ Len(path) \in 1 .. Len(path)
    BY <1>2
  <1>5. Tree!Parent(d, path) = ParentOf(d, path)
    BY <1>2, <1>3, <1>4, WalksAgree DEF Tree!Parent
  <1>6. Tree!At(d, path) = IF ParentOf(d, path) # NoObject
                           THEN Tree!Child(ParentOf(d, path), Last(path)) ELSE NoObject
    BY <1>2, <1>4, WalksAgree DEF Tree!At
  <1>7. ParentOf(d, path) # NoObject =>
          Tree!Child(ParentOf(d, path), Last(path))
            = IF Last(path) \in DOMAIN entries[ParentOf(d, path)]
              THEN entries[ParentOf(d, path)][Last(path)] ELSE NoObject
    BY <1>2, ChildIs
  <1>8. QED
    BY <1>5, <1>6, <1>7 DEF Resolve, Finds

-----------------------------------------------------------------------------
(* What the calls change.                                                  *)

\* An entry for a new object n in directory p.
Added(p, name, n, dir) ==
  /\ p \in LiveDirs /\ name \in Names \ DOMAIN entries[p]
  /\ made < MaxObjects /\ n = made + 1 /\ made' = n
  /\ isDir' = [isDir EXCEPT ![n] = dir]
  /\ entries' = [entries EXCEPT ![p] = Put(@, name, n),
                                ![n] = IF dir THEN FirstEntries(n, p) ELSE NoEntries]

\* The entry of o goes, and what o was.
Removed(p, name, o) ==
  /\ p \in LiveDirs /\ name \in Names /\ HasEntry(p, name, o) /\ Removable(o)
  /\ entries' = [entries EXCEPT ![p] = Restrict(@, DOMAIN @ \ {name})]
  /\ isDir' = [isDir EXCEPT ![o] = FALSE] /\ made' = made

\* The entry of o moves; a directory stays in its directory.
Moved(p, name, o, dst, new) ==
  /\ p \in LiveDirs /\ name \in Names /\ HasEntry(p, name, o)
  /\ dst \in LiveDirs /\ new \in Names \ DOMAIN entries[dst]
  /\ isDir[o] => dst = p
  /\ entries' = [[entries EXCEPT ![p] = Restrict(@, DOMAIN @ \ {name})]
                   EXCEPT ![dst] = Put(@, new, o)]
  /\ isDir' = isDir /\ made' = made

LEMMA AddedIs ==
  ASSUME TreeAssumption, TreeInv, NEW p, NEW name, NEW n, NEW dir \in BOOLEAN, Added(p, name, n, dir)
  PROVE  /\ p \in Objects /\ isDir[p] /\ p <= made /\ name \in Names /\ name \notin DOMAIN entries[p]
         /\ n \in Objects /\ n # p /\ n # Root /\ n = made + 1 /\ n \in 0 .. MaxObjects /\ made' = n
         /\ isDir' = [isDir EXCEPT ![n] = dir]
         /\ DOMAIN entries' = Objects
         /\ DOMAIN entries'[p] = DOMAIN entries[p] \cup {name}
         /\ DOMAIN entries'[n] = IF dir THEN Dots ELSE {}
         /\ dir => entries'[n]["."] = n /\ entries'[n][".."] = p
         /\ entries'[p][name] = n /\ \A m \in DOMAIN entries[p] : entries'[p][m] = entries[p][m]
         /\ \A e \in Objects \ {p, n} : entries'[e] = entries[e]
  <1>1. p \in Objects /\ isDir[p] /\ name \in Names /\ name \notin DOMAIN entries[p]
    BY DEF Added, LiveDirs
  <1>2. p <= made /\ made \in 0 .. MaxObjects /\ made < MaxObjects /\ n = made + 1
    BY <1>1 DEF TreeInv, TreeTypes, OnlyDirs, Added
  <1>3. n \in Objects /\ n # p /\ n # Root /\ n \in 0 .. MaxObjects
    <2>1. n \in 0 .. MaxObjects
      BY <1>2 DEF TreeAssumption
    <2>2. p \in Nat
      BY <1>1, ObjectsAre
    <2>3. QED
      BY <1>2, <2>1, <2>2, ObjectsAre
  <1> DEFINE new == IF dir THEN FirstEntries(n, p) ELSE NoEntries
             put == Put(entries[p], name, n)
  <1>4. /\ DOMAIN put = DOMAIN entries[p] \cup {name}
        /\ put[name] = n /\ \A m \in DOMAIN entries[p] : put[m] = entries[p][m]
    BY <1>1 DEF Put
  <1>5. DOMAIN new = IF dir THEN Dots ELSE {}
    BY DEF FirstEntries, NoEntries
  <1>6. dir => new["."] = n /\ new[".."] = p
    BY DEF FirstEntries, Dots
  <1> HIDE DEF new, put
  <1>7. DOMAIN entries = Objects
    BY DEF TreeInv, TreeTypes
  <1>8. entries' = [entries EXCEPT ![p] = put, ![n] = new]
    BY DEF Added, put, new
  <1>9. /\ DOMAIN entries' = Objects /\ entries'[p] = put /\ entries'[n] = new
        /\ \A e \in Objects \ {p, n} : entries'[e] = entries[e]
    BY <1>1, <1>3, <1>7, <1>8
  <1>10. isDir' = [isDir EXCEPT ![n] = dir] /\ made' = n
    BY DEF Added
  <1>11. QED
    BY <1>1, <1>2, <1>3, <1>4, <1>5, <1>6, <1>9, <1>10

LEMMA RemovedIs ==
  ASSUME TreeAssumption, TreeInv, NEW p, NEW name, NEW o, Removed(p, name, o)
  PROVE  /\ p \in Objects /\ isDir[p] /\ name \in Names /\ name \in DOMAIN entries[p] /\ entries[p][name] = o
         /\ o \in Objects /\ o # Root /\ (isDir[o] => DOMAIN entries[o] \subseteq Dots) /\ o # p
         /\ isDir' = [isDir EXCEPT ![o] = FALSE] /\ made' = made
         /\ DOMAIN entries' = Objects
         /\ DOMAIN entries'[p] = DOMAIN entries[p] \ {name}
         /\ \A m \in DOMAIN entries'[p] : entries'[p][m] = entries[p][m]
         /\ \A e \in Objects \ {p} : entries'[e] = entries[e]
  <1>1. p \in Objects /\ isDir[p] /\ name \in Names /\ name \in DOMAIN entries[p] /\ entries[p][name] = o
    BY DEF Removed, LiveDirs, HasEntry
  <1>2. o \in Objects /\ o # Root
    BY <1>1, EntriesAre DEF TreeInv, OnlyDirs
  <1>3. isDir[o] => DOMAIN entries[o] \subseteq Dots
    BY DEF Removed, Removable, IsEmpty
  <1>4. o # p
    BY <1>1, <1>3, ObjectsAre
  <1>5. DOMAIN entries = Objects
    BY DEF TreeInv, TreeTypes
  <1> DEFINE cut == Restrict(entries[p], DOMAIN entries[p] \ {name})
  <1>6. /\ DOMAIN cut = DOMAIN entries[p] \ {name}
        /\ \A m \in DOMAIN cut : cut[m] = entries[p][m]
    BY DEF Restrict
  <1> HIDE DEF cut
  <1>7. entries' = [entries EXCEPT ![p] = cut]
    BY DEF Removed, cut
  <1>8. isDir' = [isDir EXCEPT ![o] = FALSE] /\ made' = made
    BY DEF Removed
  <1>9. QED
    BY <1>1, <1>2, <1>3, <1>4, <1>5, <1>6, <1>7, <1>8

LEMMA MovedIs ==
  ASSUME TreeAssumption, TreeInv, NEW p, NEW name, NEW o, NEW dst, NEW new, Moved(p, name, o, dst, new)
  PROVE  /\ p \in Objects /\ isDir[p] /\ name \in Names /\ name \in DOMAIN entries[p] /\ entries[p][name] = o
         /\ dst \in Objects /\ isDir[dst] /\ new \in Names /\ new \notin DOMAIN entries[dst]
         /\ o \in Objects /\ o # Root /\ (isDir[o] => dst = p)
         /\ isDir' = isDir /\ made' = made
         /\ DOMAIN entries' = Objects
         /\ \A e \in Objects :
              DOMAIN entries'[e] = (DOMAIN entries[e] \ (IF e = p THEN {name} ELSE {}))
                                     \cup (IF e = dst THEN {new} ELSE {})
         /\ \A e \in Objects : \A m \in DOMAIN entries'[e] :
              entries'[e][m] = IF e = dst /\ m = new THEN o ELSE entries[e][m]
  <1>1. p \in Objects /\ isDir[p] /\ name \in Names /\ name \in DOMAIN entries[p] /\ entries[p][name] = o
    BY DEF Moved, LiveDirs, HasEntry
  <1>2. dst \in Objects /\ isDir[dst] /\ new \in Names /\ new \notin DOMAIN entries[dst] /\ (isDir[o] => dst = p)
    BY DEF Moved, LiveDirs
  <1>3. o \in Objects /\ o # Root
    BY <1>1, EntriesAre DEF TreeInv, OnlyDirs
  <1>4. DOMAIN entries = Objects
    BY DEF TreeInv, TreeTypes
  <1> DEFINE cut == Restrict(entries[p], DOMAIN entries[p] \ {name})
             less == [entries EXCEPT ![p] = cut]
             put == Put(less[dst], new, o)
  <1>5. /\ DOMAIN cut = DOMAIN entries[p] \ {name}
        /\ \A m \in DOMAIN cut : cut[m] = entries[p][m]
    BY DEF Restrict
  <1>6. entries' = [less EXCEPT ![dst] = put]
    BY DEF Moved
  <1> HIDE DEF cut
  <1>7. /\ DOMAIN less = Objects
        /\ \A e \in Objects : DOMAIN less[e] = DOMAIN entries[e] \ (IF e = p THEN {name} ELSE {})
        /\ \A e \in Objects : \A m \in DOMAIN less[e] : less[e][m] = entries[e][m]
    BY <1>1, <1>4, <1>5
  <1> HIDE DEF less
  <1>8. /\ DOMAIN put = DOMAIN less[dst] \cup {new}
        /\ \A m \in DOMAIN put : put[m] = IF m = new THEN o ELSE less[dst][m]
    BY DEF Put
  <1> HIDE DEF put
  <1>9. DOMAIN entries' = Objects /\ entries'[dst] = put /\ \A e \in Objects \ {dst} : entries'[e] = less[e]
    BY <1>2, <1>6, <1>7
  <1>10. isDir' = isDir /\ made' = made
    BY DEF Moved
  <1>11. ASSUME NEW e \in Objects
         PROVE  /\ DOMAIN entries'[e] = (DOMAIN entries[e] \ (IF e = p THEN {name} ELSE {}))
                                          \cup (IF e = dst THEN {new} ELSE {})
                /\ \A m \in DOMAIN entries'[e] :
                     entries'[e][m] = IF e = dst /\ m = new THEN o ELSE entries[e][m]
    <2>1. CASE e = dst
      BY <1>2, <1>7, <1>8, <1>9, <2>1
    <2>2. CASE e # dst
      BY <1>7, <1>9, <2>2
    <2>3. QED
      BY <2>1, <2>2
  <1>12. QED
    BY <1>1, <1>2, <1>3, <1>9, <1>10, <1>11

-----------------------------------------------------------------------------
(* They keep the invariant.                                                *)

LEMMA AddedKeeps ==
  ASSUME TreeAssumption, TreeInv, NEW p, NEW name, NEW n, NEW dir \in BOOLEAN, Added(p, name, n, dir)
  PROVE  TreeInv'
  <1> USE AddedIs, ObjectsAre
  <1>1. \A e \in Objects : isDir'[e] = IF e = n THEN dir ELSE isDir[e]
    BY DEF TreeInv, TreeTypes
  <1>2. TreeTypes'
    <2>1. isDir' \in [Objects -> BOOLEAN] /\ isDir'[Root] /\ made' \in 0 .. MaxObjects /\ DOMAIN entries' = Objects
      BY <1>1 DEF TreeInv, TreeTypes
    <2>2. ASSUME NEW e \in Objects
          PROVE  DOMAIN entries'[e] \subseteq Names \cup Dots /\ \A m \in DOMAIN entries'[e] : entries'[e][m] \in 0 .. made'
      <3>1. DOMAIN entries[e] \subseteq Names \cup Dots /\ \A m \in DOMAIN entries[e] : entries[e][m] \in 0 .. made
        BY DEF TreeInv, TreeTypes
      <3>2. \A x \in 0 .. made : x \in 0 .. made'
        BY DEF TreeInv, TreeTypes
      <3>3. p \in 0 .. made' /\ n \in 0 .. made'
        BY DEF TreeInv, TreeTypes
      <3>4. CASE e = p
        BY <3>1, <3>2, <3>3, <3>4
      <3>5. CASE e = n
        <4>1. \A m \in DOMAIN entries'[e] : m = "." \/ m = ".."
          BY <3>5 DEF Dots
        <4>2. QED
          BY <3>3, <3>5, <4>1
      <3>6. CASE e \notin {p, n}
        BY <3>1, <3>2, <3>6
      <3>7. QED
        BY <3>4, <3>5, <3>6
    <2>3. QED
      BY <2>1, <2>2 DEF TreeTypes
  <1>3. \A e \in Objects : e # n /\ e # p =>
          DOMAIN entries'[e] = DOMAIN entries[e] /\ \A m \in DOMAIN entries[e] : entries'[e][m] = entries[e][m]
    OBVIOUS
  <1>4. OnlyDirs'
    <2>1. ASSUME NEW e \in Objects, ~isDir'[e] PROVE DOMAIN entries'[e] \subseteq Dots
      BY <1>1, <2>1 DEF TreeInv, OnlyDirs
    <2>2. ASSUME NEW e \in Objects, isDir'[e] PROVE e <= made'
      <3>1. isDir[e] => e <= made
        BY DEF TreeInv, OnlyDirs
      <3>2. made \in Nat /\ e \in Nat
        BY DEF TreeInv, TreeTypes
      <3>3. QED
        BY <1>1, <2>2, <3>1, <3>2
    <2>3. DOMAIN entries'[Root] \subseteq Names
      BY DEF TreeInv, OnlyDirs
    <2>4. ASSUME NEW e \in Objects, NEW m \in Names \cap DOMAIN entries'[e] PROVE entries'[e][m] # Root
      <3>1. m \in DOMAIN entries[e] => entries[e][m] # Root
        BY DEF TreeInv, OnlyDirs
      <3>2. m \notin Dots
        OBVIOUS
      <3>3. QED
        BY <3>1, <3>2
    <2>5. QED
      BY <2>1, <2>2, <2>3, <2>4 DEF OnlyDirs
  <1>5. OneEntry'
    <2>1. ASSUME NEW e \in Objects, NEW m \in Names \cap DOMAIN entries'[e]
          PROVE  \/ e = p /\ m = name /\ entries'[e][m] = n
                 \/ m \in DOMAIN entries[e] /\ entries'[e][m] = entries[e][m] /\ entries[e][m] # n
      <3>1. m \notin Dots /\ \A x \in 0 .. made : x # n
        BY DEF TreeInv, TreeTypes
      <3>2. m \in DOMAIN entries[e] => entries[e][m] # n
        BY <3>1 DEF TreeInv, TreeTypes
      <3>3. QED
        BY <3>1, <3>2
    <2>2. QED
      BY <2>1 DEF TreeInv, OneEntry
  <1>6. DotsLead'
    <2> SUFFICES ASSUME NEW d \in Objects \ {Root}, isDir'[d]
                 PROVE  /\ Dots \subseteq DOMAIN entries'[d] /\ entries'[d]["."] = d
                        /\ \E m \in Names \cap DOMAIN entries'[entries'[d][".."]] : entries'[entries'[d][".."]][m] = d
      BY DEF DotsLead
    <2>1. CASE d = n
      BY <1>1, <2>1
    <2>2. CASE d # n
      <3>1. /\ Dots \subseteq DOMAIN entries[d] /\ entries[d]["."] = d
            /\ \E m \in Names \cap DOMAIN entries[entries[d][".."]] : entries[entries[d][".."]][m] = d
        BY <1>1, <2>2 DEF TreeInv, DotsLead
      <3> DEFINE q == entries[d][".."]
      <3>2. q \in 0 .. made
        BY <3>1 DEF TreeInv, TreeTypes
      <3>3. q # n /\ q \in Objects
        BY <3>2, <3>1, EntriesAre DEF TreeInv, TreeTypes
      <3>4. PICK m \in Names \cap DOMAIN entries[q] : entries[q][m] = d
        BY <3>1
      <3> HIDE DEF q
      <3>5. m \in DOMAIN entries'[q] /\ entries'[q][m] = d
        BY <3>3, <3>4
      <3>6. Dots \subseteq DOMAIN entries'[d] /\ entries'[d]["."] = d /\ entries'[d][".."] = q
        BY <2>2, <3>1 DEF q
      <3>7. QED
        BY <3>4, <3>5, <3>6
    <2>3. QED
      BY <2>1, <2>2
  <1>7. QED
    BY <1>2, <1>4, <1>5, <1>6 DEF TreeInv

LEMMA RemovedKeeps ==
  ASSUME TreeAssumption, TreeInv, NEW p, NEW name, NEW o, Removed(p, name, o)
  PROVE  TreeInv'
  <1> USE RemovedIs, ObjectsAre
  <1>1. /\ isDir' \in [Objects -> BOOLEAN] /\ ~isDir'[o]
        /\ \A e \in Objects : e # o => isDir'[e] = isDir[e]
    <2>1. isDir \in [Objects -> BOOLEAN] /\ isDir' = [isDir EXCEPT ![o] = FALSE] /\ o \in Objects
      BY DEF TreeInv, TreeTypes
    <2>2. QED
      BY ONLY <2>1
  <1>2. ASSUME NEW e \in Objects
        PROVE  /\ DOMAIN entries'[e] \subseteq DOMAIN entries[e]
               /\ \A m \in DOMAIN entries'[e] : entries'[e][m] = entries[e][m]
    <2>1. CASE e = p
      BY <2>1
    <2>2. CASE e # p
      BY <2>2
    <2>3. QED
      BY <2>1, <2>2
  <1>3. TreeTypes'
    <2>1. isDir'[Root]
      BY <1>1 DEF TreeInv, TreeTypes
    <2>2. made' \in 0 .. MaxObjects /\ DOMAIN entries' = Objects
      BY DEF TreeInv, TreeTypes
    <2>3. QED
      BY <1>1, <1>2, <2>1, <2>2 DEF TreeInv, TreeTypes
  <1>4. OnlyDirs'
    <2>1. ASSUME NEW e \in Objects, ~isDir'[e] PROVE DOMAIN entries'[e] \subseteq Dots
      BY <1>1, <1>2, <2>1 DEF TreeInv, OnlyDirs
    <2>2. \A e \in Objects : isDir'[e] => e <= made'
      BY <1>1 DEF TreeInv, OnlyDirs
    <2>3. DOMAIN entries'[Root] \subseteq Names
      BY <1>2 DEF TreeInv, OnlyDirs
    <2>4. \A e \in Objects : \A m \in Names \cap DOMAIN entries'[e] : entries'[e][m] # Root
      BY <1>2 DEF TreeInv, OnlyDirs
    <2>5. QED
      BY <2>1, <2>2, <2>3, <2>4 DEF OnlyDirs
  <1>5. OneEntry'
    BY <1>2 DEF TreeInv, OneEntry
  <1>6. DotsLead'
    <2> SUFFICES ASSUME NEW d \in Objects \ {Root}, isDir'[d]
                 PROVE  /\ Dots \subseteq DOMAIN entries'[d] /\ entries'[d]["."] = d
                        /\ \E m \in Names \cap DOMAIN entries'[entries'[d][".."]] : entries'[entries'[d][".."]][m] = d
      BY DEF DotsLead
    <2>1. isDir[d] /\ d # o
      BY <1>1
    <2>2. /\ Dots \subseteq DOMAIN entries[d] /\ entries[d]["."] = d
          /\ \E m \in Names \cap DOMAIN entries[entries[d][".."]] : entries[entries[d][".."]][m] = d
      BY <2>1 DEF TreeInv, DotsLead
    <2> DEFINE q == entries[d][".."]
    <2>3. q \in Objects
      BY <2>2, EntriesAre DEF TreeInv
    <2>4. PICK m \in Names \cap DOMAIN entries[q] : entries[q][m] = d
      BY <2>2
    <2>5. Dots \subseteq DOMAIN entries'[d]
      BY <2>2
    <2>6. entries'[d]["."] = d /\ entries'[d][".."] = q
      BY <1>2, <2>2, <2>5
    <2> HIDE DEF q
    <2>7. m \in DOMAIN entries'[q] /\ entries'[q][m] = d
      BY <1>2, <2>1, <2>3, <2>4
    <2>8. QED
      BY <2>4, <2>5, <2>6, <2>7
  <1>7. QED
    BY <1>3, <1>4, <1>5, <1>6 DEF TreeInv

LEMMA MovedKeeps ==
  ASSUME TreeAssumption, TreeInv, NEW p, NEW name, NEW o, NEW dst, NEW new, Moved(p, name, o, dst, new)
  PROVE  TreeInv'
  <1> USE MovedIs, ObjectsAre
  <1>1. o \in 0 .. made
    BY DEF TreeInv, TreeTypes
  <1>2. TreeTypes'
    <2>1. ASSUME NEW e \in Objects
          PROVE  DOMAIN entries'[e] \subseteq Names \cup Dots /\ \A m \in DOMAIN entries'[e] : entries'[e][m] \in 0 .. made
      <3>1. DOMAIN entries[e] \subseteq Names \cup Dots /\ \A m \in DOMAIN entries[e] : entries[e][m] \in 0 .. made
        BY DEF TreeInv, TreeTypes
      <3>2. \A m \in DOMAIN entries'[e] : m \in DOMAIN entries[e] \/ (e = dst /\ m = new)
        OBVIOUS
      <3>3. QED
        BY <1>1, <3>1, <3>2
    <2>2. QED
      BY <2>1 DEF TreeInv, TreeTypes
  <1>3. OnlyDirs'
    <2>1. ASSUME NEW e \in Objects, ~isDir'[e] PROVE DOMAIN entries'[e] \subseteq Dots
      BY <2>1 DEF TreeInv, OnlyDirs
    <2>2. QED
      BY <2>1 DEF TreeInv, OnlyDirs
  <1>4. ASSUME NEW e \in Objects, NEW m \in Names \cap DOMAIN entries'[e]
        PROVE  \/ e = dst /\ m = new /\ entries'[e][m] = o
               \/ m \in DOMAIN entries[e] /\ entries'[e][m] = entries[e][m] /\ entries[e][m] # o
    <2>1. CASE e = dst /\ m = new
      BY <2>1
    <2>2. CASE ~(e = dst /\ m = new)
      <3>1. m \in DOMAIN entries[e] /\ entries'[e][m] = entries[e][m] /\ ~(e = p /\ m = name)
        BY <2>2
      <3>2. entries[e][m] # o
        BY <3>1 DEF TreeInv, OneEntry
      <3>3. QED
        BY <3>1, <3>2
    <2>3. QED
      BY <2>1, <2>2
  <1>5. OneEntry'
    BY <1>4 DEF TreeInv, OneEntry
  <1>6. DotsLead'
    <2> SUFFICES ASSUME NEW d \in Objects \ {Root}, isDir[d]
                 PROVE  /\ Dots \subseteq DOMAIN entries'[d] /\ entries'[d]["."] = d
                        /\ \E m \in Names \cap DOMAIN entries'[entries'[d][".."]] : entries'[entries'[d][".."]][m] = d
      BY DEF DotsLead
    <2>2. /\ Dots \subseteq DOMAIN entries[d] /\ entries[d]["."] = d
          /\ \E m \in Names \cap DOMAIN entries[entries[d][".."]] : entries[entries[d][".."]][m] = d
      BY DEF TreeInv, DotsLead
    <2> DEFINE q == entries[d][".."]
    <2>3. q \in Objects
      BY <2>2, EntriesAre DEF TreeInv
    <2>4. PICK m \in Names \cap DOMAIN entries[q] : entries[q][m] = d
      BY <2>2
    <2>5. Dots \subseteq DOMAIN entries'[d] /\ new \notin Dots /\ "." \in DOMAIN entries'[d] /\ ".." \in DOMAIN entries'[d]
      BY <2>2
    <2>6. entries'[d]["."] = d /\ entries'[d][".."] = q
      BY <2>2, <2>5
    <2> HIDE DEF q
    <2>7. CASE d # o
      <3>1. m \in DOMAIN entries'[q] /\ entries'[q][m] = d
        BY <2>3, <2>4, <2>7
      <3>2. QED
        BY <2>4, <2>5, <2>6, <3>1
    <2>8. CASE d = o
      <3>1. q = p
        BY <2>3, <2>4, <2>8 DEF TreeInv, OneEntry
      <3>2. dst = p
        BY <2>8
      <3>3. new \in DOMAIN entries'[q] /\ entries'[q][new] = d
        BY <3>1, <3>2, <2>8
      <3>4. QED
        BY <2>5, <2>6, <3>3
    <2>9. QED
      BY <2>7, <2>8
  <1>7. QED
    BY <1>2, <1>3, <1>5, <1>6 DEF TreeInv

-----------------------------------------------------------------------------
(* Every call is the call of NameSpace.                                    *)

LEMMA TreeStarts == ASSUME TreeAssumption, TreeInit PROVE TreeInv /\ Tree!Init
  <1>1. /\ entries = [o \in Objects |-> NoEntries] /\ isDir = [o \in Objects |-> o = Root] /\ made = 0
        /\ DOMAIN NoEntries = {} /\ reply.op = "mount"
    BY DEF TreeInit, NoEntries
  <1> HIDE DEF NoEntries
  <1>2. \A o \in Objects : isDir[o] <=> o = Root
    BY <1>1
  <1>3. TreeTypes
    <2>1. isDir \in [Objects -> BOOLEAN] /\ isDir[Root]
      BY <1>1, ObjectsAre
    <2>2. made \in 0 .. MaxObjects
      BY <1>1 DEF TreeAssumption
    <2>3. QED
      BY <1>1, <2>1, <2>2 DEF TreeTypes
  <1>4. OnlyDirs /\ OneEntry /\ DotsLead
    BY <1>1, <1>2, ObjectsAre DEF OnlyDirs, OneEntry, DotsLead
  <1>5. TreeInv
    BY <1>3, <1>4 DEF TreeInv
  <1>6. Place = [o \in Objects |-> Tree!Nowhere]
    <2>1. PlaceFacts
      BY <1>5, PlaceIs
    <2>2. ASSUME NEW o \in Objects PROVE Place[o] = <<>>
      <3> SUFFICES ASSUME NEW d \in Objects, NEW n \in Names, Place[o] = <<d, n>> PROVE FALSE
        BY <2>1 DEF PlaceFacts
      <3>1. HasEntry(d, n, o)
        BY <2>1 DEF PlaceFacts
      <3>2. QED
        BY <1>1, <3>1 DEF HasEntry
    <2>3. QED
      BY <2>1, <2>2 DEF PlaceFacts, Tree!Nowhere
  <1>7. QED
    BY <1>1, <1>5, <1>6 DEF Tree!Init

\* All places but that of o are kept.
LEMMA PlacesKept ==
  ASSUME PlaceFacts, PlaceFacts', NEW o \in Objects, NEW v, Place'[o] = v,
         \A x \in Objects \ {o} : \A d \in Objects : \A n \in Names : HasEntry(d, n, x)' <=> HasEntry(d, n, x)
  PROVE  Place' = [Place EXCEPT ![o] = v]
  <1>1. ASSUME NEW x \in Objects, x # o PROVE Place'[x] = Place[x]
    <2>1. CASE \E d \in Objects : \E n \in Names : Place[x] = <<d, n>>
      BY <1>1, <2>1 DEF PlaceFacts
    <2>2. CASE \E d \in Objects : \E n \in Names : Place'[x] = <<d, n>>
      BY <1>1, <2>2 DEF PlaceFacts
    <2>3. CASE Place[x] = <<>> /\ Place'[x] = <<>>
      BY <2>3
    <2>4. QED
      BY <2>1, <2>2, <2>3 DEF PlaceFacts
  <1>2. Place = [x \in Objects |-> Place[x]] /\ Place' = [x \in Objects |-> Place'[x]]
    BY DEF PlaceFacts
  <1>3. QED
    BY <1>1, <1>2

\* What callers give: the directories they hold, and paths.
UserPath(path) == path \in Way /\ path # <<>> /\ Last(path) \in Names

LEMMA Rests ==
  ASSUME TreeInv, UNCHANGED <<entries, isDir, made>> PROVE TreeInv' /\ Place' = Place /\ UNCHANGED <<Place, isDir>>
  <1>1. TreeInv'
    BY DEF TreeInv, TreeTypes, OnlyDirs, OneEntry, DotsLead
  <1>2. Place' = Place
    BY DEF Place, LiveDirs, Finds
  <1>3. QED
    BY <1>1, <1>2

LEMMA ReplyIs ==
  ASSUME NEW op, NEW d, NEW p, NEW d2, NEW p2, NEW ok, NEW o, Answer(op, d, p, d2, p2, ok, o)
  PROVE  /\ reply'.op = op /\ reply'.dir = d /\ reply'.path = p /\ reply'.toDir = d2
         /\ reply'.toPath = p2 /\ reply'.ok = ok /\ reply'.object = o
  BY DEF Answer

LEMMA OpenStep ==
  ASSUME TreeAssumption, TreeInv, NEW d \in LiveDirs, NEW path \in Way, path # <<>>,
         NEW op \in {"open_file", "open_dir", "open_meta"}, Open(op, d, path)
  PROVE  /\ TreeInv' /\ Tree!Next /\ UNCHANGED <<entries, isDir, made>>
         /\ reply'.ok => reply'.object = Resolve(d, path) /\ Resolve(d, path) # NoObject
  <1> DEFINE o == Resolve(d, path)
             right == /\ o # NoObject
                      /\ op = "open_file" => ~isDir[o]
                      /\ op = "open_dir" => isDir[o]
  <1>1. TreeInv' /\ UNCHANGED <<Place, isDir>>
    BY Rests DEF Open, Unchanged
  <1>2. Tree!At(d, path) = o
    BY PathsAgree DEF LiveDirs
  <1>3. Answer(op, d, path, d, <<>>, right, IF right THEN o ELSE NoObject)
    BY DEF Open
  <1>4. /\ reply'.op = op /\ reply'.dir = d /\ reply'.path = path /\ reply'.ok = right
        /\ reply'.object = IF right THEN o ELSE NoObject
    BY <1>3, ReplyIs
  <1> HIDE DEF o
  <1>5. Tree!Lookup(reply')
    BY <1>1, <1>2, <1>4 DEF Tree!Lookup, Tree!Unchanged, Tree!NoObject, NoObject
  <1>6. UNCHANGED <<entries, isDir, made>>
    BY DEF Open, Unchanged
  <1>7. Tree!Next
    BY <1>4, <1>5 DEF Tree!Next
  <1>8. QED
    BY <1>1, <1>4, <1>6, <1>7 DEF o

LEMMA AddedPlace ==
  ASSUME TreeAssumption, TreeInv, NEW p, NEW name, NEW n, NEW dir \in BOOLEAN, Added(p, name, n, dir)
  PROVE  TreeInv' /\ Place[n] = <<>> /\ Place' = [Place EXCEPT ![n] = <<p, name>>]
  <1>1. TreeInv'
    BY AddedKeeps
  <1>2. PlaceFacts /\ PlaceFacts'
    <2>1. (TreeInv => PlaceFacts) /\ (TreeInv => PlaceFacts)'
      BY PlaceIs, PTL
    <2>2. QED
      BY <1>1, <2>1
  <1>3. n \in Objects /\ p \in Objects /\ name \in Names /\ n # p /\ n = made + 1
    BY AddedIs
  <1>4. Place[n] = <<>>
    <2>1. \A e \in Objects : \A m \in DOMAIN entries[e] : entries[e][m] # n
      BY <1>3 DEF TreeInv, TreeTypes
    <2>2. QED
      BY <1>2, <1>3, <2>1 DEF PlaceFacts, HasEntry
  <1>5. HasEntry(p, name, n)'
    BY AddedIs DEF HasEntry
  <1>6. Place'[n] = <<p, name>>
    BY <1>2, <1>3, <1>5 DEF PlaceFacts
  <1>7. ASSUME NEW x \in Objects \ {n}, NEW e \in Objects, NEW m \in Names
        PROVE  HasEntry(e, m, x)' <=> HasEntry(e, m, x)
    <2>1. CASE e = p
      BY <1>7, <2>1, AddedIs DEF HasEntry
    <2>2. CASE e = n
      <3>1. m \notin DOMAIN entries'[n]
        BY AddedIs, ObjectsAre
      <3>2. ~isDir[n]
        BY <1>3 DEF TreeInv, OnlyDirs, TreeTypes
      <3>3. m \notin DOMAIN entries[n]
        BY <1>3, <3>2, ObjectsAre DEF TreeInv, OnlyDirs
      <3>4. QED
        BY <2>2, <3>1, <3>3 DEF HasEntry
    <2>3. CASE e \notin {p, n}
      BY <2>3, AddedIs DEF HasEntry
    <2>4. QED
      BY <2>1, <2>2, <2>3
  <1>8. QED
    BY <1>1, <1>2, <1>3, <1>4, <1>6, <1>7, PlacesKept

LEMMA CreateStep ==
  ASSUME TreeAssumption, TreeInv, NEW d \in LiveDirs, NEW path, UserPath(path),
         NEW op \in {"create_file", "create_dir"}, Create(op, d, path)
  PROVE  /\ TreeInv' /\ Tree!Next
         /\ \/ /\ UNCHANGED <<entries, isDir, made>>
               /\ reply'.ok => reply'.object = Resolve(d, path) /\ Resolve(d, path) # NoObject
            \/ /\ Added(ParentOf(d, path), Last(path), made + 1, op = "create_dir")
               /\ reply'.ok /\ reply'.object = made + 1
  <1> DEFINE p == ParentOf(d, path)
             o == Resolve(d, path)
             n == made + 1
             name == Last(path)
             dir == op = "create_dir"
  <1>1. /\ Tree!At(d, path) = o /\ Tree!Parent(d, path) = p
        /\ p # NoObject => p \in LiveDirs
        /\ o # NoObject => p # NoObject /\ o \in Objects
        /\ p # NoObject /\ o = NoObject => name \notin DOMAIN entries[p]
        /\ name \in Names
    <2>1. TreeTypes /\ d \in Objects /\ isDir[d] /\ path \in Way /\ path # <<>>
      BY DEF TreeInv, LiveDirs, UserPath
    <2>2. Tree!At(d, path) = o /\ Tree!Parent(d, path) = p
      BY <2>1, PathsAgree
    <2>3. /\ p # NoObject => p \in LiveDirs
          /\ o # NoObject => p # NoObject /\ o \in Objects
      BY <2>1, ResolveIs DEF LiveDirs
    <2>4. ASSUME p # NoObject, o = NoObject PROVE name \notin DOMAIN entries[p]
      <3>1. name \in DOMAIN entries[p] => o \in Objects
        BY <2>3, <2>4, EntriesAre DEF Resolve, Finds, TreeInv, LiveDirs
      <3>2. QED
        BY <2>4, <3>1, ObjectsAre
    <2>5. QED
      BY <2>2, <2>3, <2>4 DEF UserPath
  <1>2. dir \in BOOLEAN /\ (op = "create_dir" <=> dir) /\ Tree!NoObject = NoObject
    BY DEF NoObject, Tree!NoObject
  <1>3. CASE /\ p = NoObject \/ (o # NoObject /\ isDir[o] # dir)
             /\ Answer(op, d, path, d, <<>>, FALSE, NoObject) /\ Unchanged
    <2>1. TreeInv' /\ UNCHANGED <<Place, isDir>>
      BY <1>3, Rests DEF Unchanged
    <2>2. reply'.op = op /\ reply'.dir = d /\ reply'.path = path /\ reply'.ok = FALSE
      BY <1>3, ReplyIs
    <2>3. CASE p = NoObject
      <3>1. Tree!Create(reply')
        BY <1>1, <1>2, <2>1, <2>2, <2>3 DEF Tree!Create, Tree!Unchanged
      <3>2. QED
        BY <1>3, <2>1, <2>2, <3>1 DEF Tree!Next, Unchanged
    <2>4. CASE o # NoObject /\ isDir[o] # dir
      <3>1. Tree!Create(reply')
        BY <1>1, <1>2, <2>1, <2>2, <2>4 DEF Tree!Create, Tree!Unchanged
      <3>2. QED
        BY <1>3, <2>1, <2>2, <3>1 DEF Tree!Next, Unchanged
    <2>5. QED
      BY <1>3, <2>3, <2>4
  <1>4. CASE /\ o # NoObject /\ isDir[o] = dir
             /\ Answer(op, d, path, d, <<>>, TRUE, o) /\ Unchanged
    <2>1. TreeInv' /\ UNCHANGED <<Place, isDir>>
      BY <1>4, Rests DEF Unchanged
    <2>2. UNCHANGED <<entries, isDir, made>>
      BY <1>4 DEF Unchanged
    <2>3. Answer(op, d, path, d, <<>>, TRUE, o) /\ o # NoObject /\ isDir[o] = dir
      BY <1>4
    <2> HIDE DEF o
    <2>4. reply'.op = op /\ reply'.dir = d /\ reply'.path = path /\ reply'.ok = TRUE /\ reply'.object = o
      BY ONLY <2>3 DEF Answer
    <2>5. Tree!Create(reply')
      BY <1>1, <1>2, <2>1, <2>3, <2>4 DEF Tree!Create, Tree!Unchanged
    <2>6. QED
      BY <2>1, <2>2, <2>3, <2>4, <2>5 DEF Tree!Next, o
  <1>5. CASE /\ p # NoObject /\ o = NoObject
             /\ made < MaxObjects /\ made' = n
             /\ isDir' = [isDir EXCEPT ![n] = dir]
             /\ entries' = [entries EXCEPT ![p] = Put(@, name, n),
                                           ![n] = IF dir THEN FirstEntries(n, p) ELSE NoEntries]
             /\ Answer(op, d, path, d, <<>>, TRUE, n)
    <2>1. Added(p, name, n, dir)
      BY <1>1, <1>5 DEF Added
    <2>2. Answer(op, d, path, d, <<>>, TRUE, n) /\ p # NoObject /\ o = NoObject
      BY <1>5
    <2>3. name = Last(path) /\ name = Tree!Last(path)
      BY DEF Last, Tree!Last
    <2> HIDE DEF p, o, n, name, dir
    <2>4. TreeInv' /\ Place[n] = <<>> /\ Place' = [Place EXCEPT ![n] = <<p, name>>]
      BY <1>2, <2>1, AddedPlace
    <2>5. reply'.op = op /\ reply'.dir = d /\ reply'.path = path /\ reply'.ok = TRUE /\ reply'.object = n
      BY ONLY <2>2 DEF Answer
    <2>6. n # Root /\ isDir' = [isDir EXCEPT ![n] = dir]
      BY <1>2, <2>1, AddedIs
    <2>7. Tree!Create(reply')
      <3>1. /\ Tree!At(d, path) = Tree!NoObject /\ Tree!Parent(d, path) = p /\ p # Tree!NoObject
            /\ (op = "create_dir") = dir
        BY <1>1, <1>2, <2>2 DEF dir
      <3>2. QED
        BY <2>3, <2>4, <2>5, <2>6, <3>1 DEF Tree!Create, Tree!Nowhere
    <2>8. Tree!Next
      BY <2>5, <2>7 DEF Tree!Next
    <2>9. /\ Added(ParentOf(d, path), Last(path), made + 1, op = "create_dir")
          /\ reply'.ok /\ reply'.object = made + 1
      BY <2>1, <2>5 DEF p, n, name, dir
    <2>10. QED
      BY <2>4, <2>8, <2>9
  <1>6. QED
    BY <1>3, <1>4, <1>5 DEF Create

LEMMA PlacesAre == ASSUME TreeAssumption, TreeInv, TreeInv' PROVE PlaceFacts /\ PlaceFacts'
  <1>1. (TreeInv => PlaceFacts) /\ (TreeInv => PlaceFacts)'
    BY PlaceIs, PTL
  <1>2. QED
    BY <1>1

LEMMA RemovedPlace ==
  ASSUME TreeAssumption, TreeInv, NEW p, NEW name, NEW o, Removed(p, name, o)
  PROVE  TreeInv' /\ Place' = [Place EXCEPT ![o] = <<>>]
  <1>1. TreeInv' /\ PlaceFacts /\ PlaceFacts'
    BY RemovedKeeps, PlacesAre
  <1>2. ASSUME NEW e \in Objects, NEW m \in Names, NEW x \in Objects
        PROVE  HasEntry(e, m, x)' <=> (HasEntry(e, m, x) /\ x # o)
    <2>1. HasEntry(e, m, o) => e = p /\ m = name
      BY RemovedIs DEF TreeInv, OneEntry, HasEntry
    <2>2. CASE e = p
      BY <2>1, <2>2, RemovedIs DEF HasEntry
    <2>3. CASE e # p
      BY <2>1, <2>3, RemovedIs DEF HasEntry
    <2>4. QED
      BY <2>2, <2>3
  <1>3. o \in Objects
    BY RemovedIs
  <1>4. Place'[o] = <<>>
    <2>1. \A d \in Objects : \A n \in Names : ~HasEntry(d, n, o)'
      BY <1>2, <1>3
    <2>2. QED
      BY <1>1, <1>3, <2>1 DEF PlaceFacts
  <1>5. QED
    BY <1>1, <1>2, <1>3, <1>4, PlacesKept

LEMMA MovedPlace ==
  ASSUME TreeAssumption, TreeInv, NEW p, NEW name, NEW o, NEW dst, NEW new, Moved(p, name, o, dst, new)
  PROVE  TreeInv' /\ Place' = [Place EXCEPT ![o] = <<dst, new>>]
  <1>1. TreeInv' /\ PlaceFacts /\ PlaceFacts'
    BY MovedKeeps, PlacesAre
  <1>2. o \in Objects /\ dst \in Objects /\ new \in Names
    BY MovedIs
  <1>3. ASSUME NEW e \in Objects, NEW m \in Names, NEW x \in Objects, x # o
        PROVE  HasEntry(e, m, x)' <=> HasEntry(e, m, x)
    <2>1. CASE e = dst /\ m = new
      BY <1>3, <2>1, MovedIs DEF HasEntry
    <2>2. CASE ~(e = dst /\ m = new)
      BY <1>3, <2>2, MovedIs DEF HasEntry
    <2>3. QED
      BY <2>1, <2>2
  <1>4. HasEntry(dst, new, o)'
    BY MovedIs DEF HasEntry
  <1>5. Place'[o] = <<dst, new>>
    BY <1>1, <1>2, <1>4 DEF PlaceFacts
  <1>6. QED
    BY <1>1, <1>2, <1>3, <1>5, PlacesKept

LEMMA EmptyIs ==
  ASSUME TreeAssumption, TreeInv, NEW o \in Objects PROVE Tree!Empty(o) <=> IsEmpty(o)
  <1>1. PlaceFacts
    BY PlaceIs
  <1>2. ASSUME Tree!Empty(o), NEW n \in DOMAIN entries[o], n \notin Dots PROVE FALSE
    <2>1. n \in Names /\ entries[o][n] \in Objects
      BY <1>2, EntriesAre DEF TreeInv, TreeTypes
    <2>2. HasEntry(o, n, entries[o][n])
      BY <1>2 DEF HasEntry
    <2>3. Place[entries[o][n]] = <<o, n>>
      BY <1>1, <2>1, <2>2 DEF PlaceFacts
    <2>4. QED
      BY <1>2, <2>1, <2>3 DEF Tree!Empty, Tree!Nowhere
  <1>3. ASSUME IsEmpty(o), NEW x \in Objects, Place[x] # <<>>, Place[x][1] = o PROVE FALSE
    <2>1. PICK d \in Objects, n \in Names : Place[x] = <<d, n>>
      BY <1>1, <1>3 DEF PlaceFacts
    <2>2. HasEntry(o, n, x)
      BY <1>1, <1>3, <2>1 DEF PlaceFacts
    <2>3. QED
      BY <1>3, <2>2, ObjectsAre DEF HasEntry, IsEmpty
  <1>4. QED
    BY <1>2, <1>3 DEF IsEmpty, Tree!Empty, Tree!Nowhere

\* What the path of a caller leads to.
LEMMA PathLeads ==
  ASSUME TreeAssumption, TreeInv, NEW d \in LiveDirs, NEW path, UserPath(path)
  PROVE  /\ Tree!At(d, path) = Resolve(d, path) /\ Tree!Parent(d, path) = ParentOf(d, path)
         /\ Last(path) \in Names
         /\ ParentOf(d, path) # NoObject => ParentOf(d, path) \in LiveDirs
         /\ Resolve(d, path) # NoObject =>
              /\ Resolve(d, path) \in Objects /\ ParentOf(d, path) \in LiveDirs
              /\ HasEntry(ParentOf(d, path), Last(path), Resolve(d, path))
         /\ ParentOf(d, path) # NoObject /\ Resolve(d, path) = NoObject =>
              Last(path) \notin DOMAIN entries[ParentOf(d, path)]
  <1>1. TreeTypes /\ d \in Objects /\ isDir[d] /\ path \in Way /\ path # <<>> /\ Last(path) \in Names
    BY DEF TreeInv, LiveDirs, UserPath
  <1>2. Tree!At(d, path) = Resolve(d, path) /\ Tree!Parent(d, path) = ParentOf(d, path)
    BY <1>1, PathsAgree
  <1>3. /\ ParentOf(d, path) # NoObject => ParentOf(d, path) \in LiveDirs
        /\ Resolve(d, path) # NoObject =>
              /\ Resolve(d, path) \in Objects /\ ParentOf(d, path) \in LiveDirs
              /\ HasEntry(ParentOf(d, path), Last(path), Resolve(d, path))
    BY <1>1, ResolveIs DEF LiveDirs, HasEntry
  <1>4. ASSUME ParentOf(d, path) # NoObject, Resolve(d, path) = NoObject
        PROVE  Last(path) \notin DOMAIN entries[ParentOf(d, path)]
    <2>1. Last(path) \in DOMAIN entries[ParentOf(d, path)] => Resolve(d, path) \in Objects
      BY <1>1, <1>3, <1>4, EntriesAre DEF Resolve, Finds, LiveDirs
    <2>2. QED
      BY <1>4, <2>1, ObjectsAre
  <1>5. QED
    BY <1>1, <1>2, <1>3, <1>4

LEMMA RemoveStep ==
  ASSUME TreeAssumption, TreeInv, NEW d \in LiveDirs, NEW path, UserPath(path), RemoveEntry(d, path)
  PROVE  /\ TreeInv' /\ Tree!Next
         /\ \/ UNCHANGED <<entries, isDir, made>> /\ ~reply'.ok
            \/ Removed(ParentOf(d, path), Last(path), Resolve(d, path)) /\ reply'.ok
  <1> DEFINE p == ParentOf(d, path)
             o == Resolve(d, path)
             name == Last(path)
  <1>1. /\ Tree!At(d, path) = o /\ name \in Names
        /\ o # NoObject => o \in Objects /\ p \in LiveDirs /\ HasEntry(p, name, o)
    BY PathLeads
  <1>2. Tree!NoObject = NoObject /\ (o # NoObject => (Tree!Empty(o) <=> IsEmpty(o)))
    BY <1>1, EmptyIs DEF NoObject, Tree!NoObject
  <1>3. CASE o # NoObject /\ Removable(o)
    <2>1. /\ entries' = [entries EXCEPT ![p] = Restrict(@, DOMAIN @ \ {name})]
          /\ isDir' = [isDir EXCEPT ![o] = FALSE]
          /\ Answer("remove", d, path, d, <<>>, TRUE, o)
          /\ UNCHANGED made
      BY <1>3 DEF RemoveEntry
    <2>2. Removed(p, name, o)
      BY <1>1, <1>3, <2>1 DEF Removed
    <2> HIDE DEF o, p, name
    <2>3. TreeInv' /\ Place' = [Place EXCEPT ![o] = <<>>]
      BY <2>2, RemovedPlace
    <2>4. reply'.op = "remove" /\ reply'.dir = d /\ reply'.path = path /\ reply'.ok = TRUE
      BY ONLY <2>1 DEF Answer
    <2>5. Tree!Removal(reply')
      BY <1>1, <1>2, <1>3, <2>1, <2>3, <2>4 DEF Tree!Removal, Tree!Nowhere, Removable
    <2>6. Tree!Next
      BY <2>4, <2>5 DEF Tree!Next
    <2>7. QED
      BY <2>2, <2>3, <2>4, <2>6 DEF o, p, name
  <1>4. CASE ~(o # NoObject /\ Removable(o))
    <2>1. Answer("remove", d, path, d, <<>>, FALSE, NoObject) /\ UNCHANGED <<entries, isDir, made>>
      BY <1>4 DEF RemoveEntry, Unchanged
    <2> HIDE DEF o, p, name
    <2>2. TreeInv' /\ UNCHANGED <<Place, isDir>>
      BY <2>1, Rests
    <2>3. reply'.op = "remove" /\ reply'.dir = d /\ reply'.path = path /\ reply'.ok = FALSE
      BY ONLY <2>1 DEF Answer
    <2>4. Tree!Removal(reply')
      BY <1>1, <1>2, <1>4, <2>2, <2>3 DEF Tree!Removal, Tree!Unchanged, Removable
    <2>5. Tree!Next
      BY <2>3, <2>4 DEF Tree!Next
    <2>6. QED
      BY <2>1, <2>2, <2>3, <2>5
  <1>5. QED
    BY <1>3, <1>4

\* The reply of a rename, as if it had been given the last component alone.
Filed == [reply' EXCEPT !.toPath = <<Last(reply'.toPath)>>]

LEMMA RenameStep ==
  ASSUME TreeAssumption, TreeInv, ~MovesDirs, NEW d \in LiveDirs, NEW path, UserPath(path),
         NEW dst \in LiveDirs, NEW target, UserPath(target),
         Careful(d, path, dst), Rename(d, path, dst, target)
  PROVE  /\ TreeInv' /\ Effect
         /\ \/ UNCHANGED <<entries, isDir, made>> /\ ~reply'.ok
            \/ /\ UNCHANGED <<entries, isDir, made>> /\ reply'.ok
               /\ Resolve(dst, <<Last(target)>>) = Resolve(d, path) /\ Resolve(d, path) # NoObject
            \/ /\ Moved(ParentOf(d, path), Last(path), Resolve(d, path), dst, Last(target)) /\ reply'.ok
               /\ Resolve(dst, <<Last(target)>>) = NoObject
  <1> DEFINE p == ParentOf(d, path)
             o == Resolve(d, path)
             name == Last(path)
             new == Last(target)
             at == <<new>>          \* where the entry is looked for and written
             t == Resolve(dst, at)
             seen == ParentOf(d, target)
  <1>1. /\ Tree!At(d, path) = o /\ name \in Names
        /\ o # NoObject => o \in Objects /\ p \in LiveDirs /\ HasEntry(p, name, o)
    BY PathLeads
  <1>2. new \in Names /\ Tree!Parent(d, target) = seen
    BY PathLeads
  <1>3. UserPath(at) /\ Last(at) = new /\ Len(at) = 1
    <2>1. at \in [1 .. 1 -> Names \cup Dots] /\ at # <<>> /\ Len(at) = 1 /\ Last(at) = new
      BY <1>2 DEF Last
    <2>2. QED
      BY <1>2, <2>1 DEF UserPath, Way
  <1>4. /\ Tree!At(dst, at) = t /\ Tree!Parent(dst, at) = ParentOf(dst, at)
        /\ t # NoObject => t \in Objects
    BY <1>3, PathLeads
  <1>5. d # NoObject /\ dst # NoObject /\ Tree!NoObject = NoObject
    BY ObjectsAre DEF LiveDirs, NoObject, Tree!NoObject
  <1>6. ParentOf(dst, at) = dst /\ (Len(target) = 1 => seen = d)
    <2>1. /\ dst \in Objects /\ isDir[dst] /\ d \in Objects /\ isDir[d] /\ target \in Way /\ at \in Way
          /\ TreeTypes
      BY <1>3 DEF LiveDirs, UserPath, TreeInv
    <2>2. Walk(dst, at)[0] = dst /\ Walk(d, target)[0] = d
      BY <2>1, WalkIs
    <2> HIDE DEF at
    <2>3. Len(at) - 1 = 0 /\ (Len(target) = 1 => Len(target) - 1 = 0)
      BY <1>3
    <2>4. ParentOf(dst, at) = Walk(dst, at)[Len(at) - 1] /\ seen = Walk(d, target)[Len(target) - 1]
      BY DEF ParentOf
    <2>5. QED
      BY <2>2, <2>3, <2>4
  <1>7. Len(target) = 1 => target = at
    <2>1. target \in Seq(Names \cup Dots) /\ at \in Seq(Names \cup Dots) /\ at[1] = new
      BY <1>3 DEF UserPath, Way
    <2>2. Len(target) = 1 => target[1] = new
      BY DEF Last
    <2>3. \A i \in 1 .. 1 : i = 1
      OBVIOUS
    <2>4. QED
      BY <1>3, <2>1, <2>2, <2>3, SeqEqual
  <1>8. Len(target) = 1 \/ Len(target) > 1
    <2>1. PICK n \in Nat \ {0} : n = Len(target)
      BY EmptySeq DEF UserPath, Way
    <2>2. n = 1 \/ n > 1
      BY <2>1
    <2>3. QED
      BY <2>1, <2>2
  <1>9. t = IF new \in DOMAIN entries[dst] THEN entries[dst][new] ELSE NoObject
    BY <1>3, <1>5, <1>6 DEF Resolve, Finds
  <1>10. o # NoObject /\ isDir[o] => dst = p
    BY DEF Careful
  <1>11. new \in DOMAIN entries[dst] => t # NoObject
    <2>1. new \in DOMAIN entries[dst] => entries[dst][new] \in Objects
      BY EntriesAre DEF TreeInv, LiveDirs
    <2>2. QED
      BY <1>9, <2>1, ObjectsAre
  \* The effect of the call, from that of a rename to the last component alone.
  <1> DEFINE Asked(ok) == /\ reply'.op = "rename" /\ reply'.dir = d /\ reply'.path = path /\ reply'.ok = ok
                          /\ reply'.toDir = dst /\ reply'.toPath = target
             Above(ok) == /\ Filed.dir = d /\ Filed.path = path /\ Filed.ok = ok
                          /\ Filed.toDir = dst /\ Filed.toPath = at
  <1>12. ASSUME NEW ok \in BOOLEAN, NEW x, Answer("rename", d, path, dst, target, ok, x)
         PROVE  Asked(ok) /\ Above(ok) /\ (target = at => reply' = Filed)
    <2>1. reply' = [op |-> "rename", dir |-> d, path |-> path, toDir |-> dst, toPath |-> target,
                    ok |-> ok, object |-> x]
      BY <1>12 DEF Answer
    <2> HIDE DEF at, new
    <2>2. Filed = [op |-> "rename", dir |-> d, path |-> path, toDir |-> dst, toPath |-> at,
                   ok |-> ok, object |-> x]
      BY <2>1 DEF Filed, at, new
    <2>3. QED
      BY ONLY <2>1, <2>2
  <1>13. ASSUME NEW ok \in BOOLEAN, Asked(ok), target = at => reply' = Filed,
                seen # NoObject => Tree!Rename(Filed),
                seen = NoObject => ~ok /\ UNCHANGED <<Place, isDir>>
         PROVE  Effect
    <2>1. CASE Len(target) = 1
      <3>1. seen # NoObject /\ reply' = Filed
        BY <1>5, <1>6, <1>7, <1>13, <2>1
      <3>2. Tree!Rename(reply')
        BY <1>13, <3>1
      <3>3. QED
        BY <1>13, <3>2 DEF Effect, Tree!Next
    <2>2. CASE Len(target) > 1
      <3>1. Len(reply'.toPath) > 1 /\ Tree!Parent(reply'.dir, reply'.toPath) = seen
        BY <1>2, <1>13, <2>2
      <3>2. CASE seen = NoObject
        BY <1>5, <1>13, <3>1, <3>2 DEF Effect, FiledAbove, Tree!Unchanged
      <3>3. CASE seen # NoObject
        <4>1. Tree!Rename([reply' EXCEPT !.toPath = <<Last(reply'.toPath)>>])
          BY <1>13, <3>3 DEF Filed
        <4>2. QED
          BY <1>5, <1>13, <3>1, <3>3, <4>1 DEF Effect, FiledAbove
      <3>4. QED
        BY <3>2, <3>3
    <2>3. QED
      BY <1>8, <2>1, <2>2
  <1>14. CASE o = NoObject \/ seen = NoObject \/ t \notin {NoObject, o}
    <2>1. Answer("rename", d, path, dst, target, FALSE, NoObject) /\ UNCHANGED <<entries, isDir, made>>
      BY <1>9, <1>14 DEF Rename, Unchanged, Finds
    <2>2. Asked(FALSE) /\ Above(FALSE) /\ (target = at => reply' = Filed)
      BY <1>12, <2>1
    <2> HIDE DEF o, t, p, name, new, at, seen
    <2>3. TreeInv' /\ UNCHANGED <<Place, isDir>>
      BY <2>1, Rests
    <2>4. seen # NoObject => Tree!Rename(Filed)
      BY <1>1, <1>4, <1>5, <1>14, <2>2, <2>3 DEF Tree!Rename, Tree!Unchanged
    <2>5. Effect
      BY <1>13, <2>2, <2>3, <2>4
    <2>6. QED
      BY <2>1, <2>2, <2>3, <2>5
  <1>15. CASE o # NoObject /\ seen # NoObject /\ t = o
    <2>1. new \in DOMAIN entries[dst] /\ entries[dst][new] = o
      BY <1>9, <1>15
    <2>2. Answer("rename", d, path, dst, target, TRUE, o) /\ UNCHANGED <<entries, isDir, made>>
      BY <1>15, <2>1 DEF Rename, Finds
    <2>3. Asked(TRUE) /\ Above(TRUE) /\ (target = at => reply' = Filed)
      BY <1>12, <2>2
    <2>4. t = o /\ o # NoObject /\ seen # NoObject
      BY <1>15
    <2> HIDE DEF o, t, p, name, new, at, seen
    <2>5. TreeInv' /\ UNCHANGED <<Place, isDir>>
      BY <2>2, Rests
    <2>6. Tree!Rename(Filed)
      BY <1>1, <1>4, <1>5, <2>3, <2>4, <2>5 DEF Tree!Rename, Tree!Unchanged
    <2>7. Effect
      BY <1>13, <2>3, <2>4, <2>6
    <2>8. QED
      BY <2>2, <2>3, <2>4, <2>5, <2>7 DEF o, t, at, new
  <1>16. CASE o # NoObject /\ seen # NoObject /\ t = NoObject
    <2>1. new \notin DOMAIN entries[dst]
      BY <1>11, <1>16
    <2>2. /\ entries' = [[entries EXCEPT ![p] = Restrict(@, DOMAIN @ \ {name})]
                           EXCEPT ![dst] = Put(@, new, o)]
          /\ Answer("rename", d, path, dst, target, TRUE, o)
          /\ isDir' = isDir /\ made' = made
      BY <1>16, <2>1 DEF Rename, Finds
    <2>3. Moved(p, name, o, dst, new)
      BY <1>1, <1>2, <1>10, <1>16, <2>1, <2>2 DEF Moved
    <2>4. Asked(TRUE) /\ Above(TRUE) /\ (target = at => reply' = Filed)
      BY <1>12, <2>2
    <2>5. Tree!Last(at) = new /\ t = NoObject /\ o # NoObject /\ seen # NoObject
      BY <1>16 DEF Tree!Last
    <2> HIDE DEF o, t, p, name, new, at, seen
    <2>6. TreeInv' /\ Place' = [Place EXCEPT ![o] = <<dst, new>>]
      BY <2>3, MovedPlace
    <2>7. Tree!Rename(Filed)
      BY <1>1, <1>4, <1>5, <1>6, <2>2, <2>4, <2>5, <2>6 DEF Tree!Rename
    <2>8. Effect
      BY <1>13, <2>4, <2>5, <2>7
    <2>9. QED
      BY <2>3, <2>4, <2>5, <2>6, <2>8 DEF o, t, p, name, new, at
  <1>17. QED
    BY <1>14, <1>15, <1>16

-----------------------------------------------------------------------------
(* Paths of names from the root, as FuseAdapter makes them.                *)

Plain == Seq(Names)
DirAt(path, i) == Walk(Root, path)[i]

LEMMA PlainIs ==
  ASSUME NEW q \in Plain
  PROVE  /\ q \in Way /\ Len(q) \in Nat /\ DOMAIN q = 1 .. Len(q)
         /\ \A i \in 1 .. Len(q) : q[i] \in Names
         /\ q # <<>> => Len(q) \in Nat \ {0} /\ Last(q) = q[Len(q)] /\ Last(q) \in Names /\ UserPath(q)
  <1>1. Len(q) \in Nat /\ q \in [1 .. Len(q) -> Names] /\ DOMAIN q = 1 .. Len(q)
    BY LenProperties DEF Plain
  <1>2. \A i \in 1 .. Len(q) : q[i] \in Names /\ q[i] \in Names \cup Dots
    BY <1>1
  <1>3. q \in Way
    <2>1. q \in [1 .. Len(q) -> Names \cup Dots]
      BY <1>1, <1>2
    <2>2. QED
      BY <1>1, <2>1 DEF Way
  <1>4. ASSUME q # <<>> PROVE Len(q) \in Nat \ {0} /\ Last(q) = q[Len(q)] /\ Last(q) \in Names
    <2>1. Len(q) \in Nat \ {0}
      BY <1>4, EmptySeq DEF Plain
    <2>2. QED
      BY <1>2, <2>1 DEF Last
  <1>5. QED
    BY <1>1, <1>2, <1>3, <1>4 DEF UserPath

\* The walk from the root.
LEMMA RootWalk ==
  ASSUME TreeAssumption, TreeInv, NEW q \in Plain
  PROVE  /\ DirAt(q, 0) = Root
         /\ \A i \in 0 .. Len(q) : DirAt(q, i) # NoObject => DirAt(q, i) \in Objects /\ isDir[DirAt(q, i)]
         /\ \A i \in 1 .. Len(q) : DirAt(q, i) = Step(DirAt(q, i - 1), q[i])
         /\ \A i \in 1 .. Len(q) : DirAt(q, i) # NoObject =>
              /\ DirAt(q, i - 1) # NoObject /\ DirAt(q, i - 1) \in Objects /\ isDir[DirAt(q, i - 1)]
              /\ q[i] \in Names \cap DOMAIN entries[DirAt(q, i - 1)]
              /\ DirAt(q, i) = entries[DirAt(q, i - 1)][q[i]] /\ DirAt(q, i) # Root
  <1>1. q \in Way /\ Len(q) \in Nat /\ \A i \in 1 .. Len(q) : q[i] \in Names
    BY PlainIs
  <1>2. TreeTypes /\ Root \in Objects /\ isDir[Root]
    BY ObjectsAre DEF TreeInv, TreeTypes
  <1>3. /\ DirAt(q, 0) = Root
        /\ \A i \in 0 .. Len(q) : DirAt(q, i) # NoObject => DirAt(q, i) \in Objects /\ isDir[DirAt(q, i)]
        /\ \A i \in 1 .. Len(q) : DirAt(q, i) = Step(DirAt(q, i - 1), q[i])
    BY <1>1, <1>2, WalkIs DEF DirAt
  <1>4. ASSUME NEW i \in 1 .. Len(q), DirAt(q, i) # NoObject
        PROVE  /\ DirAt(q, i - 1) # NoObject /\ DirAt(q, i - 1) \in Objects /\ isDir[DirAt(q, i - 1)]
               /\ q[i] \in Names \cap DOMAIN entries[DirAt(q, i - 1)]
               /\ DirAt(q, i) = entries[DirAt(q, i - 1)][q[i]] /\ DirAt(q, i) # Root
    <2>1. DirAt(q, i) = Step(DirAt(q, i - 1), q[i]) /\ q[i] \in Names
      BY <1>1, <1>3
    <2>2. DirAt(q, i - 1) # NoObject /\ q[i] \in DOMAIN entries[DirAt(q, i - 1)] /\ DirAt(q, i) = entries[DirAt(q, i - 1)][q[i]]
      BY <1>4, <2>1 DEF Step, Finds
    <2>3. i - 1 \in 0 .. Len(q)
      BY <1>1
    <2>4. DirAt(q, i - 1) \in Objects /\ isDir[DirAt(q, i - 1)]
      BY <1>3, <2>2, <2>3
    <2>5. DirAt(q, i) # Root
      BY <2>1, <2>2, <2>4 DEF TreeInv, OnlyDirs
    <2>6. QED
      BY <2>1, <2>2, <2>4, <2>5
  <1>5. QED
    BY <1>3, <1>4

\* What a path leads to is an entry of what all but its last name leads to.
LEMMA RootResolve ==
  ASSUME TreeAssumption, TreeInv, NEW q \in Plain, q # <<>>
  PROVE  /\ Len(q) \in Nat \ {0} /\ ParentOf(Root, q) = DirAt(q, Len(q) - 1)
         /\ Resolve(Root, q) # NoObject =>
              /\ Resolve(Root, q) \in Objects /\ DirAt(q, Len(q) - 1) # NoObject
              /\ DirAt(q, Len(q) - 1) \in Objects /\ isDir[DirAt(q, Len(q) - 1)]
              /\ q[Len(q)] \in Names \cap DOMAIN entries[DirAt(q, Len(q) - 1)]
              /\ Resolve(Root, q) = entries[DirAt(q, Len(q) - 1)][q[Len(q)]]
              /\ \A i \in 0 .. Len(q) - 1 : DirAt(q, i) # NoObject
         /\ Resolve(Root, q) = IF DirAt(q, Len(q) - 1) # NoObject /\ q[Len(q)] \in DOMAIN entries[DirAt(q, Len(q) - 1)]
                               THEN entries[DirAt(q, Len(q) - 1)][q[Len(q)]] ELSE NoObject
         /\ DirAt(q, Len(q)) = IF Resolve(Root, q) # NoObject /\ isDir[Resolve(Root, q)]
                            THEN Resolve(Root, q) ELSE NoObject
  <1>1. q \in Way /\ Len(q) \in Nat \ {0} /\ Last(q) = q[Len(q)] /\ Last(q) \in Names
    BY PlainIs
  <1>2. TreeTypes /\ Root \in Objects /\ isDir[Root]
    BY ObjectsAre DEF TreeInv, TreeTypes
  <1> DEFINE p == DirAt(q, Len(q) - 1)
             n == q[Len(q)]
             o == Resolve(Root, q)
  <1>3. ParentOf(Root, q) = p
    BY DEF ParentOf, DirAt
  <1>4. o = IF p # NoObject /\ n \in DOMAIN entries[p] THEN entries[p][n] ELSE NoObject
    BY <1>1, <1>3 DEF Resolve, Finds
  <1>5. /\ p # NoObject => p \in Objects /\ isDir[p]
        /\ o # NoObject => o \in Objects
    BY <1>1, <1>2, <1>3, ResolveIs
  <1>6. ASSUME p # NoObject, NEW i \in 0 .. Len(q) - 1 PROVE DirAt(q, i) # NoObject
    <2>1. i \in 0 .. Len(q) /\ Len(q) - 1 \in i .. Len(q)
      BY <1>1
    <2>2. QED
      BY <1>1, <1>2, <1>6, <2>1, WalkEnds DEF DirAt
  <1>7. DirAt(q, Len(q)) = Step(p, n)
    BY <1>1, RootWalk
  <1> HIDE DEF o, p, n
  <1>8. /\ o # NoObject => p # NoObject /\ n \in DOMAIN entries[p] /\ o = entries[p][n]
        /\ n \in Names
    BY <1>1, <1>4 DEF n
  <1>9. p # NoObject /\ n \in DOMAIN entries[p] => entries[p][n] # NoObject
    BY <1>2, <1>5, EntriesAre, ObjectsAre
  <1>10. DirAt(q, Len(q)) = IF o # NoObject /\ isDir[o] THEN o ELSE NoObject
    BY <1>4, <1>7, <1>9 DEF Step, Finds
  <1>11. QED
    BY <1>1, <1>3, <1>4, <1>5, <1>6, <1>8, <1>10 DEF o, p, n

LEMMA EntryOf ==
  ASSUME TreeInv, NEW d \in Objects, NEW n \in Names \cap DOMAIN entries[d],
         NEW e \in Objects, NEW m \in Names \cap DOMAIN entries[e], entries[d][n] = entries[e][m]
  PROVE  d = e /\ n = m
  BY DEF TreeInv, OneEntry

\* Two walks that meet have come the same way.
LEMMA WalksMeet ==
  ASSUME TreeAssumption, TreeInv, NEW q \in Plain, NEW r \in Plain,
         NEW j \in 0 .. Len(q), NEW k \in 0 .. Len(r), DirAt(q, j) # NoObject, DirAt(q, j) = DirAt(r, k)
  PROVE  j = k /\ \A i \in 1 .. j : q[i] = r[i]
  <1> DEFINE Meet(a) == \A b \in 0 .. Len(r) : DirAt(q, a) # NoObject /\ DirAt(q, a) = DirAt(r, b) =>
                          a = b /\ \A i \in 1 .. a : q[i] = r[i]
             Good == {a \in 0 .. j : Meet(a)}
  <1>1. Len(q) \in Nat /\ Len(r) \in Nat /\ j \in 0 .. Len(q) /\ k \in 0 .. Len(r)
    BY PlainIs
  <1>2. 0 \in Good
    <2>1. DirAt(q, 0) = Root /\ \A b \in 1 .. Len(r) : DirAt(r, b) # NoObject => DirAt(r, b) # Root
      BY RootWalk
    <2>2. QED
      BY <1>1, <2>1
  <1>3. ASSUME NEW a \in 1 .. j, a - 1 \in Good PROVE a \in Good
    <2> SUFFICES ASSUME NEW b \in 0 .. Len(r), DirAt(q, a) # NoObject, DirAt(q, a) = DirAt(r, b)
                 PROVE  a = b /\ \A i \in 1 .. a : q[i] = r[i]
      BY <1>3
    <2>1. a \in 1 .. Len(q) /\ a - 1 \in 0 .. j
      BY <1>1
    <2>2. /\ DirAt(q, a - 1) # NoObject /\ DirAt(q, a - 1) \in Objects
          /\ q[a] \in Names \cap DOMAIN entries[DirAt(q, a - 1)]
          /\ DirAt(q, a) = entries[DirAt(q, a - 1)][q[a]] /\ DirAt(q, a) # Root
      BY <2>1, RootWalk
    <2>3. b \in 1 .. Len(r)
      <3>1. DirAt(r, 0) = Root
        BY RootWalk
      <3>2. b # 0
        BY <2>2, <3>1
      <3>3. QED
        BY <1>1, <3>2
    <2>4. /\ DirAt(r, b - 1) # NoObject /\ DirAt(r, b - 1) \in Objects
          /\ r[b] \in Names \cap DOMAIN entries[DirAt(r, b - 1)]
          /\ DirAt(r, b) = entries[DirAt(r, b - 1)][r[b]]
      BY <2>2, <2>3, RootWalk
    <2>5. DirAt(q, a - 1) = DirAt(r, b - 1) /\ q[a] = r[b]
      <3> DEFINE x == DirAt(q, a - 1)
                 y == DirAt(r, b - 1)
                 n == q[a]
                 m == r[b]
      <3>1. x \in Objects /\ n \in Names \cap DOMAIN entries[x] /\ y \in Objects /\ m \in Names \cap DOMAIN entries[y]
        BY ONLY <2>2, <2>4
      <3>2. entries[x][n] = entries[y][m]
        BY <2>2, <2>4
      <3> HIDE DEF x, y, n, m
      <3>3. x = y /\ n = m
        BY <3>1, <3>2, EntryOf
      <3>4. QED
        BY <3>3 DEF x, y, n, m
    <2>6. b - 1 \in 0 .. Len(r)
      BY <1>1, <2>3
    <2>7. a - 1 = b - 1 /\ \A i \in 1 .. a - 1 : q[i] = r[i]
      BY <1>3, <2>2, <2>5, <2>6
    <2>8. a = b
      BY <1>1, <2>3, <2>7
    <2>9. QED
      BY <1>1, <2>5, <2>7, <2>8
  <1> HIDE DEF Good
  <1>4. j \in Nat /\ j \in 0 .. j
    BY <1>1
  <1>5. j \in Good
    <2>1. \A a \in 0 .. j : a \in Good
      BY <1>2, <1>3, <1>4, UpTo
    <2>2. QED
      BY <1>4, <2>1
  <1>6. Meet(j)
    BY <1>5 DEF Good
  <1>7. QED
    BY <1>1, <1>6

LEMMA PrefixBy ==
  ASSUME NEW q \in Plain, NEW r \in Plain, Len(q) <= Len(r), \A i \in 1 .. Len(q) : q[i] = r[i]
  PROVE  IsPrefix(q, r)
  <1>1. Len(q) \in Nat /\ Len(r) \in Nat
    BY PlainIs
  <1>2. SubSeq(q, 1, Len(q)) = [i \in 1 .. Len(q) |-> q[i]] /\ SubSeq(r, 1, Len(q)) = [i \in 1 .. Len(q) |-> r[i]]
    BY <1>1, SubSeqProperties DEF Plain
  <1>3. QED
    BY <1>2 DEF IsPrefix

\* An object has one path.
LEMMA OnePath ==
  ASSUME TreeAssumption, TreeInv, NEW q \in Plain, NEW r \in Plain, q # <<>>, r # <<>>,
         Resolve(Root, q) # NoObject, Resolve(Root, q) = Resolve(Root, r)
  PROVE  q = r
  <1>1. /\ Len(q) \in Nat \ {0} /\ Len(r) \in Nat \ {0}
        /\ DirAt(q, Len(q) - 1) # NoObject
        /\ DirAt(q, Len(q) - 1) = DirAt(r, Len(r) - 1) /\ q[Len(q)] = r[Len(r)]
    BY RootResolve, EntryOf
  <1>2. Len(q) - 1 \in 0 .. Len(q) /\ Len(r) - 1 \in 0 .. Len(r)
    BY <1>1
  <1>3. Len(q) - 1 = Len(r) - 1 /\ \A i \in 1 .. Len(q) - 1 : q[i] = r[i]
    BY <1>1, <1>2, WalksMeet
  <1>4. Len(q) = Len(r) /\ \A i \in 1 .. Len(q) : q[i] = r[i]
    BY <1>1, <1>3
  <1>5. QED
    BY <1>4, SeqEqual DEF Plain

\* A path that goes through an entry, another path's last, starts with that path.
LEMMA ThroughEntry ==
  ASSUME TreeAssumption, TreeInv, NEW q \in Plain, NEW r \in Plain, q # <<>>, Resolve(Root, q) # NoObject,
         NEW k \in 1 .. Len(r), DirAt(r, k - 1) # NoObject,
         DirAt(r, k - 1) = DirAt(q, Len(q) - 1), r[k] = q[Len(q)]
  PROVE  IsPrefix(q, r) /\ (k = Len(r) => q = r)
  <1>1. Len(q) \in Nat \ {0} /\ Len(r) \in Nat
    BY PlainIs
  <1>2. Len(q) - 1 \in 0 .. Len(q) /\ k - 1 \in 0 .. Len(r)
    BY <1>1
  <1>3. Len(q) - 1 = k - 1 /\ \A i \in 1 .. Len(q) - 1 : q[i] = r[i]
    BY <1>2, WalksMeet
  <1>4. Len(q) = k /\ \A i \in 1 .. Len(q) : q[i] = r[i]
    BY <1>1, <1>3
  <1>5. IsPrefix(q, r)
    BY <1>1, <1>4, PrefixBy
  <1>6. QED
    BY <1>4, <1>5, SeqEqual DEF Plain

-----------------------------------------------------------------------------
(* Paths before and after a call.                                          *)

RootFacts ==
  /\ \A q \in Plain : DirAt(q, 0) = Root
  /\ \A q \in Plain : \A i \in 1 .. Len(q) : DirAt(q, i) = Step(DirAt(q, i - 1), q[i])
  /\ \A q \in Plain : q # <<>> =>
       Resolve(Root, q) = IF DirAt(q, Len(q) - 1) # NoObject /\ q[Len(q)] \in DOMAIN entries[DirAt(q, Len(q) - 1)]
                          THEN entries[DirAt(q, Len(q) - 1)][q[Len(q)]] ELSE NoObject

LEMMA RootIs == TreeAssumption => (TreeInv => RootFacts)
  BY RootWalk, RootResolve DEF RootFacts

LEMMA RootsAre == ASSUME TreeAssumption, TreeInv, TreeInv' PROVE RootFacts /\ RootFacts'
  <1>1. (TreeInv => RootFacts) /\ (TreeInv => RootFacts)'
    BY RootIs, PTL
  <1>2. QED
    BY <1>1

Kept(e, n) == n \in DOMAIN entries[e] => n \in DOMAIN entries'[e] /\ entries'[e][n] = entries[e][n]

LEMMA WalkKept ==
  ASSUME TreeAssumption, TreeInv, TreeInv', NEW q \in Plain, NEW k \in 0 .. Len(q), DirAt(q, k) # NoObject,
         \A i \in 1 .. k : Kept(DirAt(q, i - 1), q[i]) /\ isDir'[DirAt(q, i)]
  PROVE  \A i \in 0 .. k : DirAt(q, i)' = DirAt(q, i) /\ DirAt(q, i) # NoObject
  <1>1. RootFacts /\ RootFacts'
    BY RootsAre
  <1>2. Len(q) \in Nat /\ k \in 0 .. Len(q) /\ k \in Nat
    BY PlainIs
  <1>3. \A i \in 0 .. k : DirAt(q, i) # NoObject
    <2> DEFINE Good == {j \in 0 .. k : DirAt(q, k - j) # NoObject}
    <2>1. 0 \in Good
      BY <1>2
    <2>2. ASSUME NEW j \in 1 .. k, j - 1 \in Good PROVE j \in Good
      <3>1. k - (j - 1) \in 1 .. Len(q) /\ k - (j - 1) - 1 = k - j
        BY <1>2
      <3>2. DirAt(q, k - (j - 1)) # NoObject
        BY <2>2
      <3>3. DirAt(q, k - (j - 1) - 1) # NoObject
        BY <3>1, <3>2, RootWalk
      <3>4. QED
        BY <1>2, <3>1, <3>3
    <2> HIDE DEF Good
    <2>3. \A j \in 0 .. k : j \in Good
      BY <1>2, <2>1, <2>2, UpTo
    <2>4. ASSUME NEW i \in 0 .. k PROVE DirAt(q, i) # NoObject
      <3>1. k - i \in 0 .. k /\ k - (k - i) = i
        BY <1>2
      <3>2. QED
        BY <2>3, <3>1 DEF Good
    <2>5. QED
      BY <2>4
  <1> DEFINE Same == {i \in 0 .. k : DirAt(q, i)' = DirAt(q, i)}
  <1>4. 0 \in Same
    BY <1>1, <1>2 DEF RootFacts
  <1>5. ASSUME NEW i \in 1 .. k, i - 1 \in Same PROVE i \in Same
    <2>1. i \in 1 .. Len(q) /\ DirAt(q, i) # NoObject /\ DirAt(q, i - 1)' = DirAt(q, i - 1)
      BY <1>2, <1>3, <1>5
    <2>2. DirAt(q, i) = Step(DirAt(q, i - 1), q[i]) /\ DirAt(q, i)' = Step(DirAt(q, i - 1), q[i])'
      BY <1>1, <2>1 DEF RootFacts
    <2>3. /\ DirAt(q, i - 1) # NoObject /\ q[i] \in DOMAIN entries[DirAt(q, i - 1)]
          /\ DirAt(q, i) = entries[DirAt(q, i - 1)][q[i]]
      BY <2>1, RootWalk
    <2>4. /\ q[i] \in DOMAIN entries'[DirAt(q, i - 1)] /\ DirAt(q, i) = entries'[DirAt(q, i - 1)][q[i]]
          /\ isDir'[DirAt(q, i)]
      BY <2>3 DEF Kept
    <2>5. DirAt(q, i)' = DirAt(q, i)
      BY <2>1, <2>2, <2>3, <2>4 DEF Step, Finds
    <2>6. QED
      BY <2>5
  <1> HIDE DEF Same
  <1>6. \A i \in 0 .. k : i \in Same
    BY <1>2, <1>4, <1>5, UpTo
  <1>7. QED
    BY <1>3, <1>6 DEF Same

LEMMA ResolveKept ==
  ASSUME TreeAssumption, TreeInv, TreeInv', NEW q \in Plain, q # <<>>, NEW o \in Objects, Resolve(Root, q) = o,
         \A i \in 1 .. Len(q) : Kept(DirAt(q, i - 1), q[i]), \A i \in 1 .. Len(q) - 1 : isDir'[DirAt(q, i)]
  PROVE  (Resolve(Root, q) = o)'
  <1>1. RootFacts'
    BY RootsAre
  <1>2. /\ Len(q) \in Nat \ {0} /\ DirAt(q, Len(q) - 1) # NoObject /\ o # NoObject
        /\ q[Len(q)] \in DOMAIN entries[DirAt(q, Len(q) - 1)]
        /\ o = entries[DirAt(q, Len(q) - 1)][q[Len(q)]]
    BY RootResolve, ObjectsAre
  <1>3. Len(q) - 1 \in 0 .. Len(q) /\ Len(q) - 1 \in 0 .. Len(q) - 1 /\ Len(q) \in 1 .. Len(q)
        /\ \A i \in 1 .. Len(q) - 1 : i \in 1 .. Len(q)
    BY <1>2
  <1>4. \A i \in 1 .. Len(q) - 1 : Kept(DirAt(q, i - 1), q[i]) /\ isDir'[DirAt(q, i)]
    BY <1>3
  <1>5. DirAt(q, Len(q) - 1)' = DirAt(q, Len(q) - 1)
    BY <1>2, <1>3, <1>4, WalkKept
  <1>6. Kept(DirAt(q, Len(q) - 1), q[Len(q)])
    BY <1>3
  <1>7. QED
    BY <1>1, <1>2, <1>5, <1>6 DEF RootFacts, Kept

\* Every path leads where it led.
PathsKept(some) ==
  \A q \in some \ {<<>>} : \A o \in Objects : Resolve(Root, q) = o => (Resolve(Root, q) = o)'

\* A new file is at its path, and all other paths are kept.
LEMMA AddedPaths ==
  ASSUME TreeAssumption, TreeInv, NEW r \in Plain, r # <<>>, NEW p, NEW name, NEW n, NEW dir \in BOOLEAN,
         p = ParentOf(Root, r), name = Last(r), Added(p, name, n, dir)
  PROVE  PathsKept(Plain) /\ (Resolve(Root, r) = n)'
  <1>1. TreeInv' /\ RootFacts'
    BY AddedKeeps, RootsAre
  <1>2. ASSUME NEW e \in Objects, isDir[e], NEW m PROVE Kept(e, m)
    <2>1. made \in Nat /\ n = made + 1 /\ e <= made /\ e \in Nat
      BY <1>2, AddedIs, ObjectsAre DEF TreeInv, TreeTypes, OnlyDirs
    <2>2. e # n
      BY <2>1
    <2>3. CASE e = p
      BY <2>3, AddedIs DEF Kept
    <2>4. CASE e # p
      BY <1>2, <2>2, <2>4, AddedIs DEF Kept
    <2>5. QED
      BY <2>3, <2>4
  <1>3. ASSUME NEW e \in Objects, isDir[e] PROVE isDir'[e]
    <2>1. made \in Nat /\ n = made + 1 /\ e <= made /\ e \in Nat
      BY <1>3, AddedIs, ObjectsAre DEF TreeInv, TreeTypes, OnlyDirs
    <2>2. e # n /\ isDir \in [Objects -> BOOLEAN] /\ isDir' = [isDir EXCEPT ![n] = dir]
      BY <2>1, AddedIs DEF TreeInv, TreeTypes
    <2>3. QED
      BY ONLY <1>3, <2>2
  <1>4. ASSUME NEW q \in Plain, NEW k \in 0 .. Len(q), \A i \in 0 .. k : DirAt(q, i) # NoObject
        PROVE  \A i \in 1 .. k : Kept(DirAt(q, i - 1), q[i]) /\ isDir'[DirAt(q, i)]
    <2> SUFFICES ASSUME NEW i \in 1 .. k PROVE Kept(DirAt(q, i - 1), q[i]) /\ isDir'[DirAt(q, i)]
      OBVIOUS
    <2>1. Len(q) \in Nat
      BY PlainIs
    <2>2. i \in 0 .. k /\ i - 1 \in 0 .. k /\ i \in 0 .. Len(q) /\ i - 1 \in 0 .. Len(q)
      BY <2>1
    <2>3. DirAt(q, i) \in Objects /\ isDir[DirAt(q, i)] /\ DirAt(q, i - 1) \in Objects /\ isDir[DirAt(q, i - 1)]
      BY <1>4, <2>2, RootWalk
    <2>4. QED
      BY <1>2, <1>3, <2>3
  <1>5. ASSUME NEW q \in Plain, q # <<>>, NEW o \in Objects, Resolve(Root, q) = o PROVE (Resolve(Root, q) = o)'
    <2>1. /\ Len(q) \in Nat \ {0} /\ \A i \in 0 .. Len(q) - 1 : DirAt(q, i) # NoObject
          /\ DirAt(q, Len(q) - 1) \in Objects /\ isDir[DirAt(q, Len(q) - 1)]
      BY <1>5, RootResolve, ObjectsAre
    <2>2. Len(q) - 1 \in 0 .. Len(q)
      BY <2>1
    <2>3. \A i \in 1 .. Len(q) - 1 : Kept(DirAt(q, i - 1), q[i]) /\ isDir'[DirAt(q, i)]
      BY <1>4, <2>1, <2>2
    <2>4. Kept(DirAt(q, Len(q) - 1), q[Len(q)])
      BY <1>2, <2>1
    <2>5. \A i \in 1 .. Len(q) : i \in 1 .. Len(q) - 1 \/ i = Len(q)
      BY <2>1
    <2>6. \A i \in 1 .. Len(q) : Kept(DirAt(q, i - 1), q[i])
      BY <2>3, <2>4, <2>5
    <2>7. QED
      BY <1>1, <1>5, <2>3, <2>6, ResolveKept
  <1>6. (Resolve(Root, r) = n)'
    <2>1. /\ Len(r) \in Nat \ {0} /\ p = DirAt(r, Len(r) - 1) /\ p # NoObject /\ name = r[Len(r)]
      BY RootResolve, PlainIs, AddedIs, ObjectsAre
    <2>2. Len(r) - 1 \in 0 .. Len(r) /\ Len(r) - 1 \in 0 .. Len(r) - 1
      BY <2>1
    <2>3. \A i \in 0 .. Len(r) - 1 : DirAt(r, i) # NoObject
      <3>1. r \in Way /\ TreeTypes /\ Root \in Objects /\ isDir[Root]
        BY PlainIs, ObjectsAre DEF TreeInv, TreeTypes
      <3> SUFFICES ASSUME NEW i \in 0 .. Len(r) - 1, DirAt(r, i) = NoObject PROVE FALSE
        OBVIOUS
      <3>2. i \in 0 .. Len(r) /\ Len(r) - 1 \in i .. Len(r)
        BY <2>1
      <3>3. DirAt(r, Len(r) - 1) = NoObject
        BY <3>1, <3>2, WalkEnds DEF DirAt
      <3>4. QED
        BY <2>1, <3>3
    <2>4. DirAt(r, Len(r) - 1)' = p
      BY <1>1, <1>4, <2>1, <2>2, <2>3, WalkKept
    <2>5. name \in DOMAIN entries'[p] /\ entries'[p][name] = n
      BY AddedIs
    <2>6. QED
      BY <1>1, <2>1, <2>4, <2>5 DEF RootFacts
  <1>7. QED
    BY <1>5, <1>6 DEF PathsKept

\* What a path goes through: entries of directories, and the last one.
LEMMA PathGoes ==
  ASSUME TreeAssumption, TreeInv, NEW q \in Plain, q # <<>>, NEW x \in Objects, Resolve(Root, q) = x
  PROVE  /\ Len(q) \in Nat \ {0}
         /\ \A i \in 1 .. Len(q) : /\ DirAt(q, i - 1) # NoObject /\ DirAt(q, i - 1) \in Objects /\ isDir[DirAt(q, i - 1)]
                                   /\ q[i] \in Names \cap DOMAIN entries[DirAt(q, i - 1)]
                                   /\ entries[DirAt(q, i - 1)][q[i]] = IF i = Len(q) THEN x ELSE DirAt(q, i)
         /\ \A i \in 1 .. Len(q) - 1 : /\ DirAt(q, i) \in Objects /\ isDir[DirAt(q, i)]
                                       /\ q[i + 1] \in Names \cap DOMAIN entries[DirAt(q, i)]
  <1>1. /\ Len(q) \in Nat \ {0} /\ \A i \in 0 .. Len(q) - 1 : DirAt(q, i) # NoObject
        /\ q[Len(q)] \in DOMAIN entries[DirAt(q, Len(q) - 1)] /\ x = entries[DirAt(q, Len(q) - 1)][q[Len(q)]]
        /\ \A i \in 1 .. Len(q) : q[i] \in Names
    BY RootResolve, ObjectsAre, PlainIs
  <1>2. ASSUME NEW i \in 1 .. Len(q)
        PROVE  /\ DirAt(q, i - 1) # NoObject /\ DirAt(q, i - 1) \in Objects /\ isDir[DirAt(q, i - 1)]
               /\ q[i] \in Names \cap DOMAIN entries[DirAt(q, i - 1)]
               /\ entries[DirAt(q, i - 1)][q[i]] = IF i = Len(q) THEN x ELSE DirAt(q, i)
    <2>1. i - 1 \in 0 .. Len(q) - 1 /\ i - 1 \in 0 .. Len(q)
      BY <1>1
    <2>2. DirAt(q, i - 1) # NoObject /\ DirAt(q, i - 1) \in Objects /\ isDir[DirAt(q, i - 1)]
      BY <1>1, <2>1, RootWalk
    <2>3. CASE i = Len(q)
      BY <1>1, <2>2, <2>3
    <2>4. CASE i # Len(q)
      <3>1. i \in 0 .. Len(q) - 1
        BY <1>1, <2>4
      <3>2. DirAt(q, i) # NoObject
        BY <1>1, <3>1
      <3>3. q[i] \in Names \cap DOMAIN entries[DirAt(q, i - 1)] /\ entries[DirAt(q, i - 1)][q[i]] = DirAt(q, i)
        BY <3>2, RootWalk
      <3>4. QED
        BY <2>2, <2>4, <3>3
    <2>5. QED
      BY <2>3, <2>4
  <1>3. ASSUME NEW i \in 1 .. Len(q) - 1
        PROVE  DirAt(q, i) \in Objects /\ isDir[DirAt(q, i)] /\ q[i + 1] \in Names \cap DOMAIN entries[DirAt(q, i)]
    <2>1. i + 1 \in 1 .. Len(q) /\ (i + 1) - 1 = i
      BY <1>1
    <2>2. DirAt(q, (i + 1) - 1) \in Objects /\ isDir[DirAt(q, (i + 1) - 1)]
          /\ q[i + 1] \in Names \cap DOMAIN entries[DirAt(q, (i + 1) - 1)]
      BY <1>2, <2>1
    <2>3. QED
      BY <2>1, <2>2
  <1>4. QED
    BY <1>1, <1>2, <1>3

\* The entry at r, which is the last that r goes through.
LEMMA EntryAt ==
  ASSUME TreeAssumption, TreeInv, NEW r \in Plain, r # <<>>, NEW p, NEW name, NEW o \in Objects,
         p = ParentOf(Root, r), name = Last(r), o = Resolve(Root, r)
  PROVE  p = DirAt(r, Len(r) - 1) /\ name = r[Len(r)] /\ p \in Objects /\ p # NoObject
  BY RootResolve, PlainIs, ObjectsAre

LEMMA RemovedPaths ==
  ASSUME TreeAssumption, TreeInv, NEW r \in Plain, r # <<>>, NEW p, NEW name, NEW o,
         p = ParentOf(Root, r), name = Last(r), o = Resolve(Root, r), Removed(p, name, o)
  PROVE  PathsKept(Plain \ {r})
  <1>1. TreeInv'
    BY RemovedKeeps
  <1>2. o \in Objects /\ DOMAIN entries[o] \cap Names = {}
    <2>1. ~isDir[o] => DOMAIN entries[o] \subseteq Dots
      BY RemovedIs DEF TreeInv, OnlyDirs
    <2>2. QED
      BY <2>1, RemovedIs, ObjectsAre
  <1>3. ASSUME NEW e \in Objects, NEW m, e # p \/ m # name PROVE Kept(e, m)
    <2>1. CASE e = p
      BY <1>3, <2>1, RemovedIs DEF Kept
    <2>2. CASE e # p
      BY <2>2, RemovedIs DEF Kept
    <2>3. QED
      BY <2>1, <2>2
  <1>4. ASSUME NEW q \in Plain, q # <<>>, q # r, NEW x \in Objects, Resolve(Root, q) = x
        PROVE  (Resolve(Root, q) = x)'
    <2>1. ASSUME NEW i \in 1 .. Len(q) - 1 PROVE DirAt(q, i) # o /\ isDir'[DirAt(q, i)]
      <3>1. DirAt(q, i) \in Objects /\ isDir[DirAt(q, i)] /\ DirAt(q, i) # o
        BY <1>2, <1>4, PathGoes
      <3>2. isDir \in [Objects -> BOOLEAN] /\ isDir' = [isDir EXCEPT ![o] = FALSE]
        BY RemovedIs DEF TreeInv, TreeTypes
      <3>3. isDir'[DirAt(q, i)]
        BY ONLY <3>1, <3>2
      <3>4. QED
        BY <3>1, <3>3
    <2>2. ASSUME NEW i \in 1 .. Len(q) PROVE Kept(DirAt(q, i - 1), q[i])
      <3> SUFFICES ASSUME DirAt(q, i - 1) = p, q[i] = name PROVE FALSE
        BY <1>3, <1>4, PathGoes
      <3>1. Len(q) \in Nat \ {0} /\ entries[p][name] = IF i = Len(q) THEN x ELSE DirAt(q, i)
        BY <1>4, PathGoes
      <3>2. entries[p][name] = o
        BY RemovedIs
      <3>3. CASE i = Len(q)
        <4>1. Resolve(Root, q) = Resolve(Root, r)
          BY <1>4, <3>1, <3>2, <3>3
        <4>2. QED
          BY <1>2, <1>4, <4>1, OnePath, ObjectsAre
      <3>4. CASE i # Len(q)
        <4>1. i \in 1 .. Len(q) - 1
          BY <3>1, <3>4
        <4>2. QED
          BY <2>1, <3>1, <3>2, <3>4, <4>1
      <3>5. QED
        BY <3>3, <3>4
    <2>3. QED
      BY <1>1, <1>4, <2>1, <2>2, ResolveKept
  <1>5. QED
    BY <1>4 DEF PathsKept

LEMMA MovedPaths ==
  ASSUME TreeAssumption, TreeInv, NEW r \in Plain, r # <<>>, NEW p, NEW name, NEW o, NEW new,
         p = ParentOf(Root, r), name = Last(r), o = Resolve(Root, r), Moved(p, name, o, Root, new)
  PROVE  /\ PathsKept({q \in Plain : q # r /\ ~IsStrictPrefix(r, q)})
         /\ (Resolve(Root, <<new>>) = o)'
  <1>1. TreeInv' /\ RootFacts'
    BY MovedKeeps, RootsAre
  <1>2. o \in Objects /\ isDir' = isDir
    BY MovedIs
  <1>3. ASSUME NEW e \in Objects, NEW m, e # p \/ m # name PROVE Kept(e, m)
    <2>1. e # Root \/ m # new \/ m \notin DOMAIN entries[e]
      BY MovedIs
    <2>2. QED
      BY <1>3, <2>1, MovedIs DEF Kept
  <1>4. p = DirAt(r, Len(r) - 1) /\ name = r[Len(r)]
    BY <1>2, EntryAt
  <1>5. ASSUME NEW q \in Plain, q # <<>>, q # r, ~IsStrictPrefix(r, q), NEW x \in Objects, Resolve(Root, q) = x
        PROVE  (Resolve(Root, q) = x)'
    <2>1. ASSUME NEW i \in 1 .. Len(q) - 1 PROVE isDir'[DirAt(q, i)]
      BY <1>2, <1>5, PathGoes
    <2>2. ASSUME NEW i \in 1 .. Len(q) PROVE Kept(DirAt(q, i - 1), q[i])
      <3> SUFFICES ASSUME DirAt(q, i - 1) = p, q[i] = name PROVE FALSE
        BY <1>3, <1>5, PathGoes
      <3>1. DirAt(q, i - 1) # NoObject /\ Resolve(Root, r) # NoObject
        BY <1>2, <1>5, PathGoes, ObjectsAre
      <3>2. IsPrefix(r, q)
        BY <1>4, <3>1, ThroughEntry
      <3>3. QED
        BY <1>5, <3>2 DEF IsStrictPrefix
    <2>3. QED
      BY <1>1, <1>5, <2>1, <2>2, ResolveKept
  <1>6. (Resolve(Root, <<new>>) = o)'
    <2> DEFINE q == <<new>>
    <2>1. q \in Plain /\ q # <<>> /\ Len(q) = 1 /\ q[1] = new
      BY MovedIs DEF Plain
    <2> HIDE DEF q
    <2>2. DirAt(q, 0)' = Root /\ Root # NoObject
      BY <1>1, <2>1, ObjectsAre DEF RootFacts
    <2>3. new \in DOMAIN entries'[Root] /\ entries'[Root][new] = o
      BY MovedIs
    <2>4. (Resolve(Root, q) = o)'
      BY <1>1, <2>1, <2>2, <2>3 DEF RootFacts
    <2>5. QED
      BY <2>4 DEF q
  <1>7. QED
    BY <1>5, <1>6 DEF PathsKept

\* A name in the directory at a path.
LEMMA NameIn ==
  ASSUME TreeAssumption, TreeInv, NEW q \in Plain, NEW d \in Objects, isDir[d],
         d = IF q = <<>> THEN Root ELSE Resolve(Root, q),
         NEW n \in Names \cap DOMAIN entries[d]
  PROVE  Resolve(Root, Append(q, n)) = entries[d][n]
  <1> DEFINE r == Append(q, n)
  <1>1. /\ r \in Plain /\ r # <<>> /\ Len(r) = Len(q) + 1 /\ Len(q) \in Nat
        /\ \A i \in 1 .. Len(q) : r[i] = q[i]
        /\ r[Len(q) + 1] = n
    BY AppendProperties, PlainIs DEF Plain
  <1> HIDE DEF r
  <1> DEFINE Good == {i \in 0 .. Len(q) : DirAt(r, i) = DirAt(q, i)}
  <1>2. 0 \in Good
    BY <1>1, RootWalk
  <1>3. ASSUME NEW i \in 1 .. Len(q), i - 1 \in Good PROVE i \in Good
    <2>1. i \in 1 .. Len(r) /\ r[i] = q[i]
      BY <1>1
    <2>2. DirAt(r, i) = Step(DirAt(r, i - 1), r[i]) /\ DirAt(q, i) = Step(DirAt(q, i - 1), q[i])
      BY <1>1, <2>1, RootWalk
    <2>3. QED
      BY <1>3, <2>1, <2>2
  <1> HIDE DEF Good
  <1>4. DirAt(r, Len(q)) = DirAt(q, Len(q))
    <2>1. \A i \in 0 .. Len(q) : i \in Good
      BY <1>1, <1>2, <1>3, UpTo
    <2>2. Len(q) \in Good
      BY <1>1, <2>1
    <2>3. QED
      BY <2>2 DEF Good
  <1>5. DirAt(q, Len(q)) = d
    <2>1. CASE q = <<>>
      <3>1. Len(q) = 0
        BY <2>1
      <3>2. QED
        BY <2>1, <3>1, RootWalk
    <2>2. CASE q # <<>>
      BY <2>2, RootResolve, ObjectsAre
    <2>3. QED
      BY <2>1, <2>2
  <1>6. Len(r) - 1 = Len(q) /\ r[Len(r)] = n /\ d # NoObject
    BY <1>1, ObjectsAre
  <1>7. DirAt(r, Len(r) - 1) = d
    BY <1>4, <1>5, <1>6
  <1>8. QED
    BY <1>1, <1>6, <1>7, RootResolve DEF r

-----------------------------------------------------------------------------
(* The inodes (FuseInodes).                                                *)

\* The inodes that stand for their file.
Sure == DOMAIN table.path \ (displaced \cup {RootInode})

TableTypes ==
  /\ table.next \in Nat \ {0, 1}
  /\ RootInode \in DOMAIN table.path /\ table.path[RootInode] = <<>>
  /\ DOMAIN table.path \subseteq DOMAIN means /\ DOMAIN means \subseteq 1 .. table.next - 1
  /\ \A i \in DOMAIN table.path : table.path[i] \in Plain /\ (i # RootInode => table.path[i] # <<>>)

MapsAgree ==
  /\ \A i \in Sure : table.path[i] \in DOMAIN table.inode /\ table.inode[table.path[i]] = i
  /\ \A q \in DOMAIN table.inode : table.inode[q] \in DOMAIN table.path /\ table.path[table.inode[q]] = q

PathsLead ==
  \A i \in Sure : /\ means[i] \in Objects
                  /\ \A q \in Plain, o \in Objects : q = table.path[i] /\ o = means[i] => Resolve(Root, q) = o

TableInv == TableTypes /\ MapsAgree /\ PathsLead

\* The paths lead after a call where they led before it.
StillLead ==
  \A i \in Sure : \A q \in Plain, o \in Objects : q = table.path[i] /\ o = means[i] => (Resolve(Root, q) = o)'

LEMMA StillLeads ==
  ASSUME TableInv, NEW some, PathsKept(some), \A i \in Sure : table.path[i] \in some PROVE StillLead
  <1> SUFFICES ASSUME NEW i \in Sure, NEW q \in Plain, NEW o \in Objects, q = table.path[i], o = means[i]
               PROVE  (Resolve(Root, q) = o)'
    BY DEF StillLead
  <1>1. q # <<>> /\ Resolve(Root, q) = o /\ q \in some
    BY DEF TableInv, TableTypes, PathsLead, Sure
  <1>2. QED
    BY <1>1 DEF PathsKept

LEMMA RestPaths ==
  ASSUME TreeAssumption, TreeInv, UNCHANGED <<entries, isDir, made>> PROVE PathsKept(Plain)
  <1> SUFFICES ASSUME NEW q \in Plain, q # <<>>, NEW o \in Objects, Resolve(Root, q) = o
               PROVE  (Resolve(Root, q) = o)'
    BY DEF PathsKept
  <1>1. TreeInv' /\ entries' = entries /\ isDir' = isDir
    BY Rests
  <1>2. \A i \in 1 .. Len(q) : Kept(DirAt(q, i - 1), q[i])
    BY <1>1 DEF Kept
  <1>3. \A i \in 1 .. Len(q) - 1 : isDir'[DirAt(q, i)]
    BY <1>1, PathGoes
  <1>4. QED
    BY <1>1, <1>2, <1>3, ResolveKept

\* The table as it was.
LEMMA TableRests ==
  ASSUME TableInv, StillLead, means' = means, Sure' \subseteq Sure, table'.next = table.next,
         DOMAIN table'.path = DOMAIN table.path, \A i \in DOMAIN table.path : table'.path[i] = table.path[i],
         DOMAIN table'.inode = DOMAIN table.inode, \A q \in DOMAIN table.inode : table'.inode[q] = table.inode[q]
  PROVE  TableInv'
  <1>1. TableTypes'
    BY DEF TableInv, TableTypes, RootInode
  <1>2. Sure \subseteq DOMAIN table.path
    BY DEF Sure
  <1>3. MapsAgree'
    BY <1>2 DEF TableInv, MapsAgree
  <1>4. PathsLead'
    <2> SUFFICES ASSUME NEW i \in Sure' PROVE /\ means'[i] \in Objects
                                              /\ \A q \in Plain, o \in Objects : q = table'.path[i] /\ o = means'[i]
                                                   => (Resolve(Root, q) = o)'
      BY DEF PathsLead
    <2>1. i \in Sure /\ table'.path[i] = table.path[i] /\ means'[i] = means[i]
      BY <1>2
    <2>2. QED
      BY <2>1 DEF TableInv, PathsLead, StillLead
  <1>5. QED
    BY <1>1, <1>3, <1>4 DEF TableInv

LEMMA NoAllocationRests ==
  ASSUME TableInv, StillLead, UNCHANGED <<table, means, displaced>> PROVE TableInv'
  <1>1. Sure' = Sure
    BY DEF Sure
  <1>2. QED
    BY <1>1, TableRests

-----------------------------------------------------------------------------
(* New inodes.                                                             *)

Allocated(found, next, given) ==
  /\ next \in Nat /\ next >= table.next /\ DOMAIN given = table.next .. next - 1
  /\ \A i \in DOMAIN given : given[i] \in found /\ given[i][1] \notin DOMAIN table.inode
  /\ \A i, j \in DOMAIN given : given[i] = given[j] => i = j
  /\ table'.next = next
  /\ DOMAIN table'.path = DOMAIN table.path \cup DOMAIN given
  /\ \A i \in DOMAIN table'.path :
       table'.path[i] = IF i \in DOMAIN table.path THEN table.path[i] ELSE given[i][1]
  /\ DOMAIN means' = DOMAIN means \cup DOMAIN given
  /\ \A i \in DOMAIN means' : means'[i] = IF i \in DOMAIN means THEN means[i] ELSE given[i][2]
  /\ \A q : q \in DOMAIN table'.inode <=> q \in DOMAIN table.inode \/ \E i \in DOMAIN given : given[i][1] = q
  /\ \A q \in DOMAIN table.inode : table'.inode[q] = table.inode[q]
  /\ \A q \in DOMAIN table'.inode \ DOMAIN table.inode :
       table'.inode[q] \in DOMAIN given /\ given[table'.inode[q]][1] = q

LEMMA AllocateIs ==
  ASSUME FuseAssumption, TableTypes, NEW found, Allocate(found)
  PROVE  \E next, given : Allocated(found, next, given)
  <1> DEFINE new == {w \in found : w[1] \notin DOMAIN table.inode}
             Grown(f, given, field) == [i \in DOMAIN f \cup DOMAIN given |->
                                          IF i \in DOMAIN f THEN f[i] ELSE given[i][field]]
             Inodes(given) == [p \in DOMAIN table.inode \cup {w[1] : w \in new} |->
                                 IF p \in DOMAIN table.inode THEN table.inode[p]
                                 ELSE CHOOSE i \in DOMAIN given : given[i][1] = p]
  <1>1. PICK next \in table.next .. MaxInodes + 1 : \E given \in Bijection(table.next .. next - 1, new) :
          /\ table' = [path |-> Grown(table.path, given, 1), inode |-> Inodes(given), next |-> next]
          /\ means' = Grown(means, given, 2)
    BY DEF Allocate
  <1>2. PICK given \in Bijection(table.next .. next - 1, new) :
          /\ table' = [path |-> Grown(table.path, given, 1), inode |-> Inodes(given), next |-> next]
          /\ means' = Grown(means, given, 2)
    BY <1>1
  <1>3. next \in Nat /\ next >= table.next
    BY DEF FuseAssumption, TableTypes
  <1>4. /\ given \in [table.next .. next - 1 -> new]
        /\ \A i, j \in DOMAIN given : given[i] = given[j] => i = j
        /\ \A w \in new : \E i \in table.next .. next - 1 : given[i] = w
    BY DEF Bijection, Injection, Surjection, IsInjective
  <1>5. DOMAIN given = table.next .. next - 1 /\ \A i \in DOMAIN given : given[i] \in new
    BY <1>4
  <1>6. \A w \in new : w \in found /\ w[1] \notin DOMAIN table.inode
    OBVIOUS
  <1> HIDE DEF new
  <1>7. table'.path = Grown(table.path, given, 1) /\ table'.inode = Inodes(given) /\ table'.next = next
    BY <1>2
  <1>8. /\ DOMAIN table'.path = DOMAIN table.path \cup DOMAIN given
        /\ \A i \in DOMAIN table'.path :
             table'.path[i] = IF i \in DOMAIN table.path THEN table.path[i] ELSE given[i][1]
    BY <1>7
  <1>9. /\ DOMAIN means' = DOMAIN means \cup DOMAIN given
        /\ \A i \in DOMAIN means' : means'[i] = IF i \in DOMAIN means THEN means[i] ELSE given[i][2]
    BY <1>2
  <1>10. /\ DOMAIN table'.inode = DOMAIN table.inode \cup {w[1] : w \in new}
        /\ \A q \in DOMAIN table'.inode :
             table'.inode[q] = IF q \in DOMAIN table.inode THEN table.inode[q]
                               ELSE CHOOSE i \in DOMAIN given : given[i][1] = q
    BY <1>7
  <1> HIDE DEF Grown, Inodes
  <1>11. ASSUME NEW q PROVE q \in {w[1] : w \in new} <=> \E i \in DOMAIN given : given[i][1] = q
    BY <1>4, <1>5
  <1>12. \A q \in DOMAIN table'.inode \ DOMAIN table.inode :
           table'.inode[q] \in DOMAIN given /\ given[table'.inode[q]][1] = q
    <2> SUFFICES ASSUME NEW q \in DOMAIN table'.inode \ DOMAIN table.inode
                 PROVE  table'.inode[q] \in DOMAIN given /\ given[table'.inode[q]][1] = q
      OBVIOUS
    <2>1. \E i \in DOMAIN given : given[i][1] = q
      BY <1>10, <1>11
    <2>2. table'.inode[q] = CHOOSE i \in DOMAIN given : given[i][1] = q
      BY <1>10
    <2>3. QED
      BY <2>1, <2>2
  <1>13. Allocated(found, next, given)
    BY <1>3, <1>4, <1>5, <1>6, <1>7, <1>8, <1>9, <1>10, <1>11, <1>12 DEF Allocated
  <1>14. QED
    BY <1>13

\* What is to be given an inode: paths, and the files they lead to.
Found(found) ==
  \A w \in found : \E q \in Plain \ {<<>>} : \E o \in Objects : w = <<q, o>> /\ (Resolve(Root, q) = o)'

LEMMA AllocateKeeps ==
  ASSUME FuseAssumption, TableInv, StillLead, UNCHANGED displaced, NEW found, Found(found), Allocate(found)
  PROVE  TableInv'
  <1>1. PICK next, given : Allocated(found, next, given)
    BY AllocateIs DEF TableInv
  <1>2. /\ next \in Nat \ {0, 1} /\ DOMAIN given = table.next .. next - 1 /\ table'.next = next
        /\ DOMAIN table.path \subseteq DOMAIN means /\ DOMAIN means \subseteq 1 .. table.next - 1
        /\ table.next \in Nat \ {0, 1} /\ next >= table.next
    BY <1>1 DEF Allocated, TableInv, TableTypes
  <1>3. \A i \in DOMAIN given : i \notin DOMAIN means /\ i \notin DOMAIN table.path /\ i # RootInode /\ i \in 1 .. next - 1
    BY <1>2 DEF RootInode
  <1>4. ASSUME NEW i \in DOMAIN given
        PROVE  \E q \in Plain \ {<<>>} : \E o \in Objects : /\ given[i] = <<q, o>> /\ given[i][1] = q /\ given[i][2] = o
                                                            /\ (Resolve(Root, q) = o)'
    BY <1>1 DEF Allocated, Found
  <1>5. DOMAIN table'.path = DOMAIN table.path \cup DOMAIN given /\ DOMAIN means' = DOMAIN means \cup DOMAIN given
    BY <1>1 DEF Allocated
  <1>6. \A i \in DOMAIN table.path : table'.path[i] = table.path[i] /\ i \in DOMAIN means /\ means'[i] = means[i]
    BY <1>1, <1>2 DEF Allocated
  <1>7. \A i \in DOMAIN given : table'.path[i] = given[i][1] /\ means'[i] = given[i][2]
    BY <1>1, <1>3 DEF Allocated
  <1>8. TableTypes'
    <2>1. RootInode \in DOMAIN table'.path /\ table'.path[RootInode] = <<>>
      BY <1>5, <1>6 DEF TableInv, TableTypes
    <2>2. DOMAIN table'.path \subseteq DOMAIN means'
      BY <1>2, <1>5
    <2>3. DOMAIN means' \subseteq 1 .. next - 1
      BY <1>2, <1>3, <1>5
    <2>4. ASSUME NEW i \in DOMAIN table'.path
          PROVE  table'.path[i] \in Plain /\ (i # RootInode => table'.path[i] # <<>>)
      <3>1. CASE i \in DOMAIN table.path
        BY <1>6, <3>1 DEF TableInv, TableTypes
      <3>2. CASE i \in DOMAIN given
        <4>1. PICK q \in Plain \ {<<>>} : given[i][1] = q
          BY <1>4, <3>2
        <4>2. QED
          BY <1>7, <3>2, <4>1
      <3>3. QED
        BY <1>5, <3>1, <3>2
    <2>5. QED
      BY <1>2, <2>1, <2>2, <2>3, <2>4 DEF TableTypes, RootInode
  <1>9. /\ Sure' \subseteq Sure \cup DOMAIN given /\ Sure \subseteq DOMAIN table.path
        /\ \A i \in Sure' : i \in DOMAIN table.path => i \in Sure
    BY <1>5 DEF Sure, RootInode
  <1>10. MapsAgree'
    <2>1. ASSUME NEW i \in Sure' PROVE table'.path[i] \in DOMAIN table'.inode /\ table'.inode[table'.path[i]] = i
      <3>1. CASE i \in Sure
        <4>1. table'.path[i] = table.path[i] /\ table.path[i] \in DOMAIN table.inode /\ table.inode[table.path[i]] = i
          BY <1>6, <1>9, <3>1 DEF TableInv, MapsAgree
        <4>2. QED
          BY <1>1, <4>1 DEF Allocated
      <3>2. CASE i \in DOMAIN given
        <4>1. PICK q \in Plain \ {<<>>}, o \in Objects :
                given[i] = <<q, o>> /\ given[i][1] = q /\ (Resolve(Root, q) = o)'
          BY <1>4, <3>2
        <4>2. table'.path[i] = q /\ q \in DOMAIN table'.inode /\ q \notin DOMAIN table.inode
          BY <1>1, <1>7, <3>2, <4>1 DEF Allocated
        <4>3. PICK j \in DOMAIN given : table'.inode[q] = j /\ given[j][1] = q
          BY <1>1, <4>2 DEF Allocated
        <4>4. PICK q2 \in Plain \ {<<>>}, o2 \in Objects :
                given[j] = <<q2, o2>> /\ given[j][1] = q2 /\ (Resolve(Root, q2) = o2)'
          BY <1>4, <4>3
        <4>5. q2 = q
          BY <4>3, <4>4
        <4>6. given[i] = given[j]
          BY <4>1, <4>4, <4>5
        <4>7. i = j
          BY <1>1, <3>2, <4>3, <4>6 DEF Allocated
        <4>8. QED
          BY <4>2, <4>3, <4>7
      <3>3. QED
        BY <1>9, <3>1, <3>2
    <2>2. ASSUME NEW q \in DOMAIN table'.inode
          PROVE  table'.inode[q] \in DOMAIN table'.path /\ table'.path[table'.inode[q]] = q
      <3>1. CASE q \in DOMAIN table.inode
        <4>1. table.inode[q] \in DOMAIN table.path /\ table.path[table.inode[q]] = q
          BY <3>1 DEF TableInv, MapsAgree
        <4>2. table'.inode[q] = table.inode[q]
          BY <1>1, <3>1 DEF Allocated
        <4>3. QED
          BY <1>5, <1>6, <4>1, <4>2
      <3>2. CASE q \notin DOMAIN table.inode
        <4>1. table'.inode[q] \in DOMAIN given /\ given[table'.inode[q]][1] = q
          BY <1>1, <3>2 DEF Allocated
        <4>2. QED
          BY <1>5, <1>7, <4>1
      <3>3. QED
        BY <3>1, <3>2
    <2>3. QED
      BY <2>1, <2>2 DEF MapsAgree
  <1>11. PathsLead'
    <2> SUFFICES ASSUME NEW i \in Sure' PROVE /\ means'[i] \in Objects
                                              /\ \A q \in Plain, o \in Objects : q = table'.path[i] /\ o = means'[i]
                                                   => (Resolve(Root, q) = o)'
      BY DEF PathsLead
    <2>1. CASE i \in Sure
      <3>1. table'.path[i] = table.path[i] /\ means'[i] = means[i]
        BY <1>6, <1>9, <2>1
      <3>2. QED
        BY <2>1, <3>1 DEF TableInv, PathsLead, StillLead
    <2>2. CASE i \in DOMAIN given
      BY <1>4, <1>7, <2>2
    <2>3. QED
      BY <1>9, <2>1, <2>2
  <1>12. QED
    BY <1>8, <1>10, <1>11 DEF TableInv

-----------------------------------------------------------------------------
(* Inodes whose path changes.                                              *)

LEMMA ForgetKeeps ==
  ASSUME TableInv, NEW r \in Plain \ {<<>>}, PathsKept(Plain \ {r}), means' = means,
         table' = (IF r \in DOMAIN table.inode THEN Forget(r) ELSE table),
         displaced' = displaced \cap DOMAIN table'.path
  PROVE  TableInv'
  <1>1. /\ \A i \in Sure : table.path[i] \in DOMAIN table.inode /\ table.inode[table.path[i]] = i
        /\ \A q \in DOMAIN table.inode : table.inode[q] \in DOMAIN table.path /\ table.path[table.inode[q]] = q
        /\ Sure \subseteq DOMAIN table.path
        /\ table.path[RootInode] = <<>>
        /\ \A i \in DOMAIN table.path : table.path[i] \in Plain /\ (i # RootInode => table.path[i] # <<>>)
    BY DEF TableInv, TableTypes, MapsAgree, Sure
  <1>2. CASE r \notin DOMAIN table.inode
    <2>1. table' = table /\ Sure' = Sure
      BY <1>2 DEF Sure
    <2>2. StillLead
      <3>1. \A i \in Sure : table.path[i] \in Plain \ {r}
        BY <1>1, <1>2
      <3>2. QED
        BY <3>1, StillLeads
    <2>3. QED
      BY <2>1, <2>2, TableRests
  <1>3. CASE r \in DOMAIN table.inode
    <2> DEFINE k == table.inode[r]
    <2>1. k \in DOMAIN table.path /\ table.path[k] = r /\ k # RootInode
      BY <1>1, <1>3
    <2>2. /\ table'.next = table.next
          /\ table'.path = Restrict(table.path, DOMAIN table.path \ {k})
          /\ table'.inode = Restrict(table.inode, DOMAIN table.inode \ {r})
      BY <1>3 DEF Forget
    <2> HIDE DEF k
    <2>3. /\ DOMAIN table'.path = DOMAIN table.path \ {k}
          /\ \A i \in DOMAIN table'.path : table'.path[i] = table.path[i]
          /\ DOMAIN table'.inode = DOMAIN table.inode \ {r}
          /\ \A q \in DOMAIN table'.inode : table'.inode[q] = table.inode[q]
      BY <2>2 DEF Restrict
    <2>4. Sure' \subseteq Sure /\ k \notin Sure'
      BY <2>3 DEF Sure, RootInode
    <2>5. \A i \in DOMAIN table.path : i \in Sure /\ table.path[i] = r => i = k
      BY <1>1 DEF k
    <2>6. TableTypes'
      BY <2>1, <2>2, <2>3 DEF TableInv, TableTypes, RootInode
    <2>7. MapsAgree'
      <3>1. ASSUME NEW i \in Sure' PROVE table'.path[i] \in DOMAIN table'.inode /\ table'.inode[table'.path[i]] = i
        BY <1>1, <2>3, <2>4, <2>5
      <3>2. ASSUME NEW q \in DOMAIN table'.inode
            PROVE  table'.inode[q] \in DOMAIN table'.path /\ table'.path[table'.inode[q]] = q
        BY <1>1, <2>1, <2>3
      <3>3. QED
        BY <3>1, <3>2 DEF MapsAgree
    <2>8. PathsLead'
      <3> SUFFICES ASSUME NEW i \in Sure' PROVE /\ means'[i] \in Objects
                                                /\ \A q \in Plain, o \in Objects : q = table'.path[i] /\ o = means'[i]
                                                     => (Resolve(Root, q) = o)'
        BY DEF PathsLead
      <3>1. i \in Sure /\ i # k /\ table'.path[i] = table.path[i] /\ table.path[i] # r /\ table.path[i] # <<>>
            /\ means'[i] = means[i]
        BY <1>1, <2>3, <2>4, <2>5 DEF Sure
      <3>2. ASSUME NEW q \in Plain, NEW o \in Objects, q = table.path[i], o = means[i]
            PROVE  (Resolve(Root, q) = o)'
        <4>1. q \in Plain \ {r} /\ q # <<>> /\ Resolve(Root, q) = o
          BY <3>1, <3>2 DEF TableInv, PathsLead
        <4>2. QED
          BY <4>1 DEF PathsKept
      <3>3. QED
        BY <3>1, <3>2 DEF TableInv, PathsLead
    <2>9. QED
      BY <2>6, <2>7, <2>8 DEF TableInv
  <1>4. QED
    BY <1>2, <1>3

LEMMA MoveKeeps ==
  ASSUME TreeAssumption, TableInv, NEW r \in Plain \ {<<>>}, NEW s \in Plain \ {<<>>}, NEW o \in Objects, r # s,
         Resolve(Root, r) = o, Resolve(Root, s) = NoObject, (Resolve(Root, s) = o)',
         PathsKept({q \in Plain : q # r /\ ~IsStrictPrefix(r, q)}), means' = means,
         table' = (IF r \in DOMAIN table.inode THEN Move(r, s) ELSE table),
         displaced' = displaced \cup Below(r)
  PROVE  TableInv'
  <1>1. /\ \A i \in Sure : table.path[i] \in DOMAIN table.inode /\ table.inode[table.path[i]] = i
        /\ \A q \in DOMAIN table.inode : table.inode[q] \in DOMAIN table.path /\ table.path[table.inode[q]] = q
        /\ Sure \subseteq DOMAIN table.path
        /\ table.path[RootInode] = <<>>
        /\ \A i \in DOMAIN table.path : table.path[i] \in Plain /\ (i # RootInode => table.path[i] # <<>>)
        /\ \A i \in Sure : i # RootInode
    BY DEF TableInv, TableTypes, MapsAgree, Sure
  \* A sure inode with another path than r is not displaced: it is not below r.
  <1>2. ASSUME NEW i \in Sure, i \notin Below(r), table.path[i] # r, NEW q \in Plain, NEW x \in Objects,
               q = table.path[i], x = means[i]
        PROVE  (Resolve(Root, q) = x)'
    <2>1. q # <<>> /\ Resolve(Root, q) = x /\ ~IsStrictPrefix(r, q) /\ q # r
      BY <1>1, <1>2 DEF TableInv, PathsLead, Below
    <2>2. QED
      BY <2>1 DEF PathsKept
  <1>3. CASE r \notin DOMAIN table.inode
    <2>1. table' = table /\ Sure' \subseteq Sure
      BY <1>3 DEF Sure
    <2>2. \A i \in Sure' : i \in Sure /\ i \notin Below(r) /\ table.path[i] # r
      BY <1>1, <1>3, <2>1 DEF Sure
    <2>3. TableTypes' /\ MapsAgree'
      BY <2>1 DEF TableInv, TableTypes, MapsAgree, RootInode
    <2>4. PathsLead'
      <3> SUFFICES ASSUME NEW i \in Sure' PROVE /\ means'[i] \in Objects
                                                /\ \A q \in Plain, x \in Objects : q = table'.path[i] /\ x = means'[i]
                                                     => (Resolve(Root, q) = x)'
        BY DEF PathsLead
      <3>1. means[i] \in Objects
        BY <2>1 DEF TableInv, PathsLead
      <3>2. QED
        BY <1>2, <2>1, <2>2, <3>1
    <2>5. QED
      BY <2>3, <2>4 DEF TableInv
  <1>4. CASE r \in DOMAIN table.inode
    <2> DEFINE k == table.inode[r]
    <2>1. k \in DOMAIN table.path /\ table.path[k] = r /\ k # RootInode
      BY <1>1, <1>4
    <2>2. /\ table'.next = table.next
          /\ table'.path = [table.path EXCEPT ![k] = s]
          /\ table'.inode = Put(Restrict(table.inode, DOMAIN table.inode \ {r}), s, k)
      BY <1>4 DEF Move
    <2> HIDE DEF k
    <2>3. /\ DOMAIN table'.path = DOMAIN table.path /\ table'.path[k] = s
          /\ \A i \in DOMAIN table.path \ {k} : table'.path[i] = table.path[i]
          /\ DOMAIN table'.inode = (DOMAIN table.inode \ {r}) \cup {s}
          /\ table'.inode[s] = k
          /\ \A q \in DOMAIN table.inode \ {r, s} : table'.inode[q] = table.inode[q]
      <3>1. /\ DOMAIN table'.path = DOMAIN table.path /\ table'.path[k] = s
            /\ \A i \in DOMAIN table.path \ {k} : table'.path[i] = table.path[i]
        BY <2>1, <2>2
      <3> DEFINE D == DOMAIN table.inode \ {r}
                 cut == Restrict(table.inode, D)
      <3>2. DOMAIN cut = D /\ \A q \in D : cut[q] = table.inode[q]
        BY DEF Restrict
      <3>3. table'.inode = Put(cut, s, k)
        BY <2>2
      <3> HIDE DEF cut, D
      <3>4. /\ DOMAIN table'.inode = D \cup {s} /\ table'.inode[s] = k
            /\ \A q \in D : q # s => table'.inode[q] = table.inode[q]
        BY <3>2, <3>3 DEF Put
      <3>5. QED
        BY <3>1, <3>4 DEF D
    <2>4. \A i \in Sure' : i \in Sure /\ i \notin Below(r)
      BY <2>3 DEF Sure, RootInode
    <2>5. \A i \in Sure : i # k => table.path[i] # r
      BY <1>1 DEF k
    <2>6. \A i \in Sure : table.path[i] # s
      <3> SUFFICES ASSUME NEW i \in Sure, table.path[i] = s PROVE FALSE
        OBVIOUS
      <3>1. means[i] \in Objects /\ Resolve(Root, s) = means[i]
        BY DEF TableInv, PathsLead
      <3>2. QED
        BY <3>1, ObjectsAre
    <2>7. TableTypes'
      BY <2>1, <2>2, <2>3 DEF TableInv, TableTypes, RootInode
    <2>8. MapsAgree'
      <3>1. ASSUME NEW i \in Sure' PROVE table'.path[i] \in DOMAIN table'.inode /\ table'.inode[table'.path[i]] = i
        <4>1. CASE i = k
          BY <2>3, <4>1
        <4>2. CASE i # k
          <5>1. i \in Sure /\ table'.path[i] = table.path[i] /\ table.path[i] \in DOMAIN table.inode \ {r, s}
                /\ table.inode[table.path[i]] = i
            BY <1>1, <2>3, <2>4, <2>5, <2>6, <4>2
          <5>2. QED
            BY <2>3, <5>1
        <4>3. QED
          BY <4>1, <4>2
      <3>2. ASSUME NEW q \in DOMAIN table'.inode
            PROVE  table'.inode[q] \in DOMAIN table'.path /\ table'.path[table'.inode[q]] = q
        <4>1. CASE q = s
          BY <2>1, <2>3, <4>1
        <4>2. CASE q # s
          <5>1. q \in DOMAIN table.inode \ {r, s} /\ table'.inode[q] = table.inode[q]
            BY <2>3, <4>2
          <5>2. table.inode[q] \in DOMAIN table.path /\ table.path[table.inode[q]] = q /\ table.inode[q] # k
            BY <1>1, <2>1, <5>1
          <5>3. QED
            BY <2>3, <5>1, <5>2
        <4>3. QED
          BY <4>1, <4>2
      <3>3. QED
        BY <3>1, <3>2 DEF MapsAgree
    <2>9. PathsLead'
      <3> SUFFICES ASSUME NEW i \in Sure' PROVE /\ means'[i] \in Objects
                                                /\ \A q \in Plain, x \in Objects : q = table'.path[i] /\ x = means'[i]
                                                     => (Resolve(Root, q) = x)'
        BY DEF PathsLead
      <3>1. i \in Sure /\ i \notin Below(r) /\ means'[i] = means[i] /\ means[i] \in Objects
        BY <2>4 DEF TableInv, PathsLead
      <3>2. CASE i = k
        <4>1. means[i] = o
          BY <2>1, <3>1, <3>2 DEF TableInv, PathsLead
        <4>2. table'.path[i] = s
          BY <2>3, <3>2
        <4>3. QED
          BY <3>1, <4>1, <4>2
      <3>3. CASE i # k
        <4>1. table'.path[i] = table.path[i] /\ table.path[i] # r
          BY <1>1, <2>3, <2>5, <3>1, <3>3
        <4>2. QED
          BY <1>2, <3>1, <4>1
      <3>4. QED
        BY <3>2, <3>3
    <2>10. QED
      BY <2>7, <2>8, <2>9 DEF TableInv
  <1>5. QED
    BY <1>3, <1>4

\* The rename to a path that the file does not get: the inodes of both paths go
\* with those below the old one.
LEMMA MoveAway ==
  ASSUME TreeAssumption, TableInv, NEW r \in Plain \ {<<>>}, NEW s \in Plain \ {<<>>},
         PathsKept({q \in Plain : q # r /\ ~IsStrictPrefix(r, q)}), means' = means,
         table' = (IF r \in DOMAIN table.inode THEN Move(r, s) ELSE table),
         displaced' = displaced \cup (Below(r) \cup {i \in DOMAIN table.path : table.path[i] \in {r, s}})
  PROVE  TableInv'
  <1>1. /\ \A i \in Sure : table.path[i] \in DOMAIN table.inode /\ table.inode[table.path[i]] = i
        /\ \A q \in DOMAIN table.inode : table.inode[q] \in DOMAIN table.path /\ table.path[table.inode[q]] = q
        /\ \A i \in DOMAIN table.path : table.path[i] \in Plain /\ (i # RootInode => table.path[i] # <<>>)
        /\ table.path[RootInode] = <<>>
    BY DEF TableInv, TableTypes, MapsAgree
  <1> DEFINE Stays == {i \in Sure : i \notin Below(r) /\ table.path[i] \notin {r, s}}
  <1>2. /\ DOMAIN table'.path = DOMAIN table.path /\ table'.next = table.next
        /\ \A i \in DOMAIN table.path : table'.path[i] = table.path[i] \/ (table.path[i] = r /\ table'.path[i] = s)
        /\ table'.path[RootInode] = <<>>
        /\ \A q \in DOMAIN table.inode \ {r, s} : q \in DOMAIN table'.inode /\ table'.inode[q] = table.inode[q]
        /\ \A q \in DOMAIN table'.inode : table'.inode[q] \in DOMAIN table'.path /\ table'.path[table'.inode[q]] = q
    <2>1. CASE r \notin DOMAIN table.inode
      BY <1>1, <2>1
    <2>2. CASE r \in DOMAIN table.inode
      <3> DEFINE k == table.inode[r]
                 D == DOMAIN table.inode \ {r}
                 cut == Restrict(table.inode, D)
      <3>1. k \in DOMAIN table.path /\ table.path[k] = r /\ k # RootInode
        BY <1>1, <2>2
      <3>2. /\ table'.next = table.next /\ table'.path = [table.path EXCEPT ![k] = s]
            /\ table'.inode = Put(cut, s, k)
        BY <2>2 DEF Move
      <3>3. DOMAIN cut = D /\ \A q \in D : cut[q] = table.inode[q]
        BY DEF Restrict
      <3>4. \A q \in D : table.inode[q] # k
        BY <1>1, <3>1
      <3>5. \A q \in D : table.inode[q] \in DOMAIN table.path /\ table.path[table.inode[q]] = q
        BY <1>1
      <3> HIDE DEF cut, D, k
      <3>6. /\ DOMAIN table'.inode = D \cup {s} /\ table'.inode[s] = k
            /\ \A q \in D : q # s => table'.inode[q] = table.inode[q]
        BY <3>2, <3>3 DEF Put
      <3>7. /\ DOMAIN table'.path = DOMAIN table.path /\ table'.path[k] = s
            /\ \A i \in DOMAIN table.path \ {k} : table'.path[i] = table.path[i]
        BY <3>1, <3>2
      <3>8. \A q \in DOMAIN table.inode \ {r, s} : q \in DOMAIN table'.inode /\ table'.inode[q] = table.inode[q]
        BY <3>6 DEF D
      <3>9. \A q \in DOMAIN table'.inode : table'.inode[q] \in DOMAIN table'.path /\ table'.path[table'.inode[q]] = q
        BY <3>1, <3>4, <3>5, <3>6, <3>7
      <3>10. /\ \A i \in DOMAIN table.path : table'.path[i] = table.path[i] \/ (table.path[i] = r /\ table'.path[i] = s)
             /\ table'.path[RootInode] = <<>>
        <4>1. RootInode \in DOMAIN table.path \ {k}
          BY <3>1 DEF TableInv, TableTypes
        <4>2. QED
          BY <1>1, <3>1, <3>7, <4>1
      <3>11. QED
        BY <3>2, <3>7, <3>8, <3>9, <3>10
    <2>3. QED
      BY <2>1, <2>2
  <1>3. Sure' \subseteq Stays
    BY <1>2 DEF Sure, RootInode
  <1>4. TableTypes'
    BY <1>2 DEF TableInv, TableTypes, RootInode
  <1>5. ASSUME NEW i \in Stays
        PROVE  /\ i \in Sure /\ table'.path[i] = table.path[i]
               /\ table.path[i] \in DOMAIN table.inode \ {r, s} /\ table.inode[table.path[i]] = i
    BY <1>1, <1>2 DEF Sure
  <1>6. MapsAgree'
    <2>1. ASSUME NEW i \in Sure' PROVE table'.path[i] \in DOMAIN table'.inode /\ table'.inode[table'.path[i]] = i
      BY <1>2, <1>3, <1>5
    <2>2. QED
      BY <1>2, <2>1 DEF MapsAgree
  <1>7. PathsLead'
    <2> SUFFICES ASSUME NEW i \in Sure' PROVE /\ means'[i] \in Objects
                                              /\ \A q \in Plain, x \in Objects : q = table'.path[i] /\ x = means'[i]
                                                   => (Resolve(Root, q) = x)'
      BY DEF PathsLead
    <2>1. i \in Stays /\ i \in Sure /\ table'.path[i] = table.path[i] /\ means'[i] = means[i] /\ means[i] \in Objects
      BY <1>3, <1>5 DEF TableInv, PathsLead
    <2>2. ASSUME NEW q \in Plain, NEW x \in Objects, q = table.path[i], x = means[i]
          PROVE  (Resolve(Root, q) = x)'
      <3>1. q # <<>> /\ Resolve(Root, q) = x /\ ~IsStrictPrefix(r, q) /\ q # r
        BY <1>1, <2>1, <2>2 DEF TableInv, PathsLead, Below, Sure
      <3>2. QED
        BY <3>1 DEF PathsKept
    <2>3. QED
      BY <2>1, <2>2
  <1>8. QED
    BY <1>4, <1>6, <1>7 DEF TableInv

\* The rename of a name to itself.
LEMMA MoveToItself ==
  ASSUME TableInv, StillLead, NEW r \in Plain \ {<<>>}, means' = means, displaced' = displaced,
         table' = (IF r \in DOMAIN table.inode THEN Move(r, r) ELSE table)
  PROVE  TableInv'
  <1>1. CASE r \notin DOMAIN table.inode
    <2>1. UNCHANGED <<table, means, displaced>>
      BY <1>1
    <2>2. QED
      BY <2>1, NoAllocationRests
  <1>2. CASE r \in DOMAIN table.inode
    <2> DEFINE k == table.inode[r]
    <2>1. k \in DOMAIN table.path /\ table.path[k] = r
      BY <1>2 DEF TableInv, MapsAgree
    <2>2. /\ table'.next = table.next
          /\ table'.path = [table.path EXCEPT ![k] = r]
          /\ table'.inode = Put(Restrict(table.inode, DOMAIN table.inode \ {r}), r, k)
      BY <1>2 DEF Move
    <2>3. /\ DOMAIN table'.path = DOMAIN table.path
          /\ \A i \in DOMAIN table.path : table'.path[i] = table.path[i]
      BY <2>1, <2>2
    <2>4. /\ DOMAIN table'.inode = DOMAIN table.inode
          /\ \A q \in DOMAIN table.inode : table'.inode[q] = table.inode[q]
      BY <1>2, <2>2 DEF Restrict, Put
    <2>5. Sure' = Sure
      BY <2>3 DEF Sure
    <2> HIDE DEF k
    <2>6. QED
      BY <2>2, <2>3, <2>4, <2>5, TableRests
  <1>3. QED
    BY <1>1, <1>2

-----------------------------------------------------------------------------
(* Requests.                                                               *)

LEMMA PathOfIs ==
  ASSUME TableTypes, NEW parent, Mapped(parent), NEW name \in Names
  PROVE  \E q \in Plain \ {<<>>} : q = PathOf(parent, name) /\ Last(q) = name /\ UserPath(q)
  <1>1. table.path[parent] \in Plain
    BY DEF TableTypes, Mapped
  <1> DEFINE q == PathOf(parent, name)
             b == table.path[parent]
  <1>2. q \in Plain /\ q # <<>> /\ Len(q) = Len(b) + 1 /\ q[Len(b) + 1] = name
    <2>1. q = Append(b, name)
      BY DEF PathOf
    <2> HIDE DEF q, b
    <2>2. b \in Seq(Names)
      BY <1>1 DEF Plain, b
    <2>3. QED
      BY <2>1, <2>2, AppendProperties DEF Plain
  <1> HIDE DEF q
  <1>3. Last(q) = name
    BY <1>2 DEF Last
  <1>4. UserPath(q)
    BY <1>2, PlainIs
  <1>5. QED
    BY <1>2, <1>3, <1>4 DEF q

LEMMA RootLives == ASSUME TreeAssumption, TreeInv PROVE Root \in LiveDirs
  BY ObjectsAre DEF TreeInv, TreeTypes, LiveDirs

LEMMA KeptLead == ASSUME TableInv, PathsKept(Plain) PROVE StillLead
  <1>1. \A i \in Sure : table.path[i] \in Plain
    BY DEF TableInv, TableTypes, Sure
  <1>2. QED
    BY <1>1, StillLeads

LEMMA EnteredKeeps ==
  ASSUME FuseAssumption, TableInv, StillLead, UNCHANGED displaced, NEW q \in Plain \ {<<>>}, Entered(q),
         reply'.ok => \E o \in Objects : o = reply'.object /\ (Resolve(Root, q) = o)'
  PROVE  TableInv'
  <1>1. CASE ~reply'.ok
    BY <1>1, NoAllocationRests DEF Entered, NoAllocation
  <1>2. CASE reply'.ok
    <2>1. PICK o \in Objects : o = reply'.object /\ (Resolve(Root, q) = o)'
      BY <1>2
    <2>2. Allocate({<<q, o>>})
      BY <1>2, <2>1 DEF Entered
    <2>3. Found({<<q, o>>})
      BY <2>1 DEF Found
    <2>4. QED
      BY <2>2, <2>3, AllocateKeeps
  <1>3. QED
    BY <1>1, <1>2

\* What a request keeps and does.
Serves == TreeInv' /\ TableInv' /\ (Effect \/ UNCHANGED treeVars)

LEMMA LookupServes ==
  ASSUME FuseAssumption, TreeInv, TableInv, NEW parent, NEW name \in Names, Lookup(parent, name)
  PROVE  Serves
  <1>1. TreeAssumption /\ TableTypes /\ Mapped(parent)
    BY DEF FuseAssumption, TableInv, Lookup
  <1>2. PICK q \in Plain \ {<<>>} : q = PathOf(parent, name) /\ UserPath(q)
    BY <1>1, PathOfIs
  <1>3. Open("open_meta", Root, q) /\ Entered(q) /\ UNCHANGED displaced
    BY <1>2 DEF Lookup
  <1>4. /\ TreeInv' /\ Tree!Next /\ UNCHANGED <<entries, isDir, made>>
        /\ reply'.ok => reply'.object = Resolve(Root, q) /\ Resolve(Root, q) # NoObject
    <2>1. q \in Way /\ q # <<>>
      BY PlainIs
    <2>2. QED
      BY <1>1, <1>3, <2>1, RootLives, OpenStep
  <1>5. PathsKept(Plain)
    BY <1>1, <1>4, RestPaths
  <1>6. ASSUME reply'.ok PROVE \E o \in Objects : o = reply'.object /\ (Resolve(Root, q) = o)'
    <2>1. Resolve(Root, q) \in Objects /\ reply'.object = Resolve(Root, q)
      BY <1>1, <1>4, <1>6, RootResolve
    <2>2. PICK o \in Objects : o = Resolve(Root, q)
      BY <2>1
    <2>3. (Resolve(Root, q) = o)'
      BY <1>5, <2>2 DEF PathsKept
    <2>4. QED
      BY <2>1, <2>2, <2>3
  <1>7. TableInv'
    BY <1>3, <1>5, <1>6, KeptLead, EnteredKeeps
  <1>8. QED
    BY <1>4, <1>7 DEF Serves, Effect

LEMMA MakeServes ==
  ASSUME FuseAssumption, TreeInv, TableInv, NEW op \in {"create_file", "create_dir"}, NEW parent,
         NEW name \in Names, Make(op, parent, name)
  PROVE  Serves
  <1>1. TreeAssumption /\ TableTypes /\ Mapped(parent)
    BY DEF FuseAssumption, TableInv, Make
  <1>2. PICK q \in Plain \ {<<>>} : q = PathOf(parent, name) /\ UserPath(q)
    BY <1>1, PathOfIs
  <1>3. Create(op, Root, q) /\ Entered(q) /\ UNCHANGED displaced
    BY <1>2 DEF Make
  <1>4. /\ TreeInv' /\ Tree!Next
        /\ \/ /\ UNCHANGED <<entries, isDir, made>>
              /\ reply'.ok => reply'.object = Resolve(Root, q) /\ Resolve(Root, q) # NoObject
           \/ /\ Added(ParentOf(Root, q), Last(q), made + 1, op = "create_dir")
              /\ reply'.ok /\ reply'.object = made + 1
    BY <1>1, <1>2, <1>3, RootLives, CreateStep
  <1>5. PathsKept(Plain) /\ (reply'.ok => \E o \in Objects : o = reply'.object /\ (Resolve(Root, q) = o)')
    <2>1. CASE /\ UNCHANGED <<entries, isDir, made>>
               /\ reply'.ok => reply'.object = Resolve(Root, q) /\ Resolve(Root, q) # NoObject
      <3>1. PathsKept(Plain)
        BY <1>1, <2>1, RestPaths
      <3>2. ASSUME reply'.ok PROVE \E o \in Objects : o = reply'.object /\ (Resolve(Root, q) = o)'
        <4>1. Resolve(Root, q) \in Objects /\ reply'.object = Resolve(Root, q)
          BY <1>1, <2>1, <3>2, RootResolve
        <4>2. PICK o \in Objects : o = Resolve(Root, q)
          BY <4>1
        <4>3. (Resolve(Root, q) = o)'
          BY <3>1, <4>2 DEF PathsKept
        <4>4. QED
          BY <4>1, <4>2, <4>3
      <3>3. QED
        BY <3>1, <3>2
    <2>2. CASE /\ Added(ParentOf(Root, q), Last(q), made + 1, op = "create_dir")
               /\ reply'.ok /\ reply'.object = made + 1
      <3>1. PICK p, m, n : p = ParentOf(Root, q) /\ m = Last(q) /\ n = made + 1
        OBVIOUS
      <3> DEFINE dir == op = "create_dir"
      <3>2. dir \in BOOLEAN /\ Added(p, m, n, dir)
        BY <2>2, <3>1
      <3>3. q \in Plain /\ q # <<>> /\ p = ParentOf(Root, q) /\ m = Last(q)
        BY <3>1
      <3> HIDE DEF dir
      <3>4. PathsKept(Plain) /\ (Resolve(Root, q) = n)'
        BY <1>1, <3>2, <3>3, AddedPaths
      <3>5. n \in Objects
        BY <1>1, <3>2, AddedIs
      <3>6. QED
        BY <2>2, <3>1, <3>4, <3>5
    <2>3. QED
      BY <1>4, <2>1, <2>2
  <1>6. TableInv'
    BY <1>3, <1>5, KeptLead, EnteredKeeps
  <1>7. QED
    BY <1>4, <1>6 DEF Serves, Effect

LEMMA UseServes ==
  ASSUME FuseAssumption, TreeInv, TableInv, NEW op \in {"open_meta", "open_file"}, NEW ino, Use(op, ino)
  PROVE  Serves
  <1>1. TreeAssumption /\ TableTypes /\ Mapped(ino) /\ ino # RootInode
    BY DEF FuseAssumption, TableInv, Use
  <1>2. PICK q \in Plain \ {<<>>} : q = table.path[ino]
    BY <1>1 DEF TableTypes, Mapped
  <1>3. Open(op, Root, q) /\ UNCHANGED <<table, means, displaced>>
    BY <1>2 DEF Use, NoAllocation
  <1>4. TreeInv' /\ Tree!Next /\ UNCHANGED <<entries, isDir, made>>
    <2>1. q \in Way /\ q # <<>>
      BY PlainIs
    <2>2. op \in {"open_file", "open_dir", "open_meta"}
      OBVIOUS
    <2>3. QED
      BY <1>1, <1>3, <2>1, <2>2, RootLives, OpenStep
  <1>5. TableInv'
    BY <1>1, <1>3, <1>4, RestPaths, KeptLead, NoAllocationRests
  <1>6. QED
    BY <1>4, <1>5 DEF Serves, Effect

LEMMA ReadDirServes ==
  ASSUME FuseAssumption, TreeInv, TableInv, NEW ino, ReadDir(ino)
  PROVE  Serves
  <1> DEFINE d == IF ino = RootInode THEN Root ELSE Resolve(Root, table.path[ino])
  <1>1. TreeAssumption /\ TableTypes
    BY DEF FuseAssumption, TableInv
  <1>2. /\ Mapped(ino) /\ d # NoObject /\ isDir[d]
        /\ UNCHANGED <<entries, isDir, freed, made, reply, displaced>>
    BY DEF ReadDir, treeVars
  <1>3. PICK shown \in SUBSET (DOMAIN entries[d] \ Dots) :
          Allocate({<<PathOf(ino, name), entries[d][name]>> : name \in shown})
    BY DEF ReadDir
  <1>4. PICK b \in Plain : b = table.path[ino] /\ (ino = RootInode <=> b = <<>>)
    BY <1>1, <1>2 DEF TableTypes, Mapped
  <1>5. d = (IF b = <<>> THEN Root ELSE Resolve(Root, b)) /\ d \in Objects
    BY <1>1, <1>2, <1>4, RootResolve, ObjectsAre
  <1> HIDE DEF d
  <1>6. TreeInv' /\ PathsKept(Plain)
    BY <1>1, <1>2, Rests, RestPaths
  <1>7. ASSUME NEW name \in shown
        PROVE  \E q \in Plain \ {<<>>} : \E o \in Objects : <<PathOf(ino, name), entries[d][name]>> = <<q, o>>
                                                            /\ (Resolve(Root, q) = o)'
    <2>1. name \in Names \cap DOMAIN entries[d] /\ entries[d][name] \in Objects
      BY <1>1, <1>5, EntriesAre DEF TreeInv, TreeTypes
    <2>2. PICK q \in Plain \ {<<>>} : q = PathOf(ino, name)
      BY <1>1, <1>2, <2>1, PathOfIs
    <2>3. Resolve(Root, q) = entries[d][name]
      <3>1. q = Append(b, name)
        BY <1>4, <2>2 DEF PathOf
      <3>2. d \in Objects /\ isDir[d] /\ d = IF b = <<>> THEN Root ELSE Resolve(Root, b)
        BY <1>2, <1>5
      <3>3. QED
        <4>1. Resolve(Root, Append(b, name)) = entries[d][name]
          BY <1>1, <2>1, <3>2, NameIn
        <4>2. QED
          BY <3>1, <4>1
    <2>4. PICK o \in Objects : o = entries[d][name]
      BY <2>1
    <2>5. (Resolve(Root, q) = o)'
      BY <1>6, <2>3, <2>4 DEF PathsKept
    <2>6. QED
      BY <2>2, <2>4, <2>5
  <1>8. PICK found : found = {<<PathOf(ino, name), entries[d][name]>> : name \in shown}
    OBVIOUS
  <1>9. Found(found)
    BY <1>7, <1>8 DEF Found
  <1>10. TableInv'
    <2>1. Allocate(found) /\ UNCHANGED displaced
      BY <1>2, <1>3, <1>8
    <2>2. QED
      BY <1>6, <1>9, <2>1, KeptLead, AllocateKeeps
  <1>11. QED
    BY <1>2, <1>6, <1>10 DEF Serves, Effect, treeVars

LEMMA UnlinkServes ==
  ASSUME FuseAssumption, TreeInv, TableInv, NEW parent, NEW name \in Names, Unlink(parent, name)
  PROVE  Serves
  <1>1. TreeAssumption /\ TableTypes /\ Mapped(parent)
    BY DEF FuseAssumption, TableInv, Unlink
  <1>2. PICK q \in Plain \ {<<>>} : q = PathOf(parent, name) /\ UserPath(q)
    BY <1>1, PathOfIs
  <1>3. /\ RemoveEntry(Root, q) /\ means' = means
        /\ table' = IF reply'.ok /\ q \in DOMAIN table.inode THEN Forget(q) ELSE table
        /\ displaced' = displaced \cap DOMAIN table'.path
    BY <1>2 DEF Unlink
  <1>4. /\ TreeInv' /\ Tree!Next
        /\ \/ UNCHANGED <<entries, isDir, made>> /\ ~reply'.ok
           \/ Removed(ParentOf(Root, q), Last(q), Resolve(Root, q)) /\ reply'.ok
    BY <1>1, <1>2, <1>3, RootLives, RemoveStep
  <1>5. CASE UNCHANGED <<entries, isDir, made>> /\ ~reply'.ok
    <2>1. table' = table
      BY <1>3, <1>5
    <2>2. Sure' = Sure
      BY <1>3, <2>1 DEF Sure
    <2>3. StillLead
      BY <1>1, <1>5, RestPaths, KeptLead
    <2>4. QED
      BY <1>3, <1>4, <2>1, <2>2, <2>3, TableRests DEF Serves, Effect
  <1>6. CASE Removed(ParentOf(Root, q), Last(q), Resolve(Root, q)) /\ reply'.ok
    <2>1. PICK p, m, o : p = ParentOf(Root, q) /\ m = Last(q) /\ o = Resolve(Root, q)
      OBVIOUS
    <2>2. Removed(p, m, o)
      BY <1>6, <2>1
    <2>3. PathsKept(Plain \ {q})
      BY <1>1, <2>1, <2>2, RemovedPaths
    <2>4. table' = (IF q \in DOMAIN table.inode THEN Forget(q) ELSE table)
      BY <1>3, <1>6
    <2>5. TableInv'
      BY <1>3, <2>3, <2>4, ForgetKeeps
    <2>6. QED
      BY <1>4, <2>5 DEF Serves, Effect
  <1>7. QED
    BY <1>4, <1>5, <1>6

LEMMA RenameServes ==
  ASSUME FuseAssumption, ~MovesDirs, TreeInv, TableInv, NEW parent, NEW name \in Names,
         NEW newparent, NEW newname \in Names, RenameInode(parent, name, newparent, newname)
  PROVE  Serves
  <1>1. TreeAssumption /\ TableTypes /\ Mapped(parent) /\ Mapped(newparent)
    BY DEF FuseAssumption, TableInv, RenameInode
  <1>2. PICK r \in Plain \ {<<>>} : r = PathOf(parent, name) /\ UserPath(r)
    BY <1>1, PathOfIs
  <1>3. PICK s \in Plain \ {<<>>} : s = PathOf(newparent, newname) /\ UserPath(s)
    BY <1>1, PathOfIs
  <1>4. /\ Careful(Root, r, Root) /\ Rename(Root, r, Root, s)
        /\ table' = IF reply'.ok /\ r \in DOMAIN table.inode THEN Move(r, s) ELSE table
        /\ displaced' = IF reply'.ok THEN displaced \cup Misled(r, s) ELSE displaced
        /\ means' = means
    BY <1>2, <1>3 DEF RenameInode
  <1>5. PICK at : at = <<Last(s)>>
    OBVIOUS
  <1>6. at \in Plain \ {<<>>} /\ (Len(s) = 1 => s = at)
    <2>1. Last(s) \in Names /\ (Len(s) = 1 => s[1] = Last(s))
      BY PlainIs DEF Last
    <2>2. at \in Plain /\ at # <<>> /\ Len(at) = 1 /\ at[1] = Last(s)
      BY <1>5, <2>1 DEF Plain
    <2>3. \A i \in 1 .. 1 : i = 1
      OBVIOUS
    <2>4. QED
      BY <2>1, <2>2, <2>3, SeqEqual DEF Plain
  <1>7. /\ TreeInv' /\ Effect
        /\ \/ UNCHANGED <<entries, isDir, made>> /\ ~reply'.ok
           \/ /\ UNCHANGED <<entries, isDir, made>> /\ reply'.ok
              /\ Resolve(Root, at) = Resolve(Root, r) /\ Resolve(Root, r) # NoObject
           \/ /\ Moved(ParentOf(Root, r), Last(r), Resolve(Root, r), Root, Last(s)) /\ reply'.ok
              /\ Resolve(Root, at) = NoObject
    BY <1>1, <1>2, <1>3, <1>4, <1>5, RootLives, RenameStep
  <1>8. CASE UNCHANGED <<entries, isDir, made>> /\ ~reply'.ok
    <2>1. UNCHANGED <<table, means, displaced>>
      BY <1>4, <1>8
    <2>2. QED
      BY <1>1, <1>7, <1>8, <2>1, RestPaths, KeptLead, NoAllocationRests DEF Serves
  <1>9. CASE /\ UNCHANGED <<entries, isDir, made>> /\ reply'.ok
             /\ Resolve(Root, at) = Resolve(Root, r) /\ Resolve(Root, r) # NoObject
    <2>1. PathsKept(Plain)
      BY <1>1, <1>9, RestPaths
    <2>2. CASE Len(s) = 1
      <3>1. r = s
        BY <1>1, <1>6, <1>9, <2>2, OnePath
      <3>2. table' = (IF r \in DOMAIN table.inode THEN Move(r, r) ELSE table) /\ displaced' = displaced
        BY <1>4, <1>9, <2>2, <3>1 DEF Misled
      <3>3. QED
        BY <1>1, <1>4, <1>7, <2>1, <3>2, KeptLead, MoveToItself DEF Serves
    <2>3. CASE Len(s) # 1
      <3>1. PathsKept({q \in Plain : q # r /\ ~IsStrictPrefix(r, q)})
        BY <2>1 DEF PathsKept
      <3>2. /\ table' = (IF r \in DOMAIN table.inode THEN Move(r, s) ELSE table)
            /\ displaced' = displaced \cup (Below(r) \cup {i \in DOMAIN table.path : table.path[i] \in {r, s}})
        BY <1>4, <1>9, <2>3 DEF Misled
      <3>3. QED
        BY <1>1, <1>4, <1>7, <3>1, <3>2, MoveAway DEF Serves
    <2>4. QED
      BY <2>2, <2>3
  <1>10. CASE /\ Moved(ParentOf(Root, r), Last(r), Resolve(Root, r), Root, Last(s)) /\ reply'.ok
              /\ Resolve(Root, at) = NoObject
    <2>1. PICK p, m, o, new : p = ParentOf(Root, r) /\ m = Last(r) /\ o = Resolve(Root, r) /\ new = Last(s)
      OBVIOUS
    <2>2. Moved(p, m, o, Root, new)
      BY <1>10, <2>1
    <2>3. o \in Objects
      BY <1>1, <2>2, MovedIs
    <2>4. PathsKept({q \in Plain : q # r /\ ~IsStrictPrefix(r, q)}) /\ (Resolve(Root, <<new>>) = o)'
      BY <1>1, <2>1, <2>2, MovedPaths
    <2>5. CASE Len(s) = 1
      <3>1. (Resolve(Root, s) = o)' /\ Resolve(Root, s) = NoObject /\ r # s
        <4>1. s = at /\ at = <<new>>
          BY <1>5, <1>6, <2>1, <2>5
        <4>2. Resolve(Root, s) = NoObject /\ Resolve(Root, r) = o
          BY <1>10, <2>1, <4>1
        <4>3. (Resolve(Root, s) = o)'
          BY <2>4, <4>1
        <4>4. r # s
          BY <1>1, <2>3, <4>2, ObjectsAre
        <4>5. QED
          BY <4>2, <4>3, <4>4
      <3>2. /\ table' = (IF r \in DOMAIN table.inode THEN Move(r, s) ELSE table)
            /\ displaced' = displaced \cup Below(r)
        BY <1>4, <1>10, <2>5, <3>1 DEF Misled
      <3>3. TableInv'
        BY <1>1, <1>4, <2>1, <2>3, <2>4, <3>1, <3>2, MoveKeeps
      <3>4. QED
        BY <1>7, <3>3 DEF Serves
    <2>6. CASE Len(s) # 1
      <3>1. /\ table' = (IF r \in DOMAIN table.inode THEN Move(r, s) ELSE table)
            /\ displaced' = displaced \cup (Below(r) \cup {i \in DOMAIN table.path : table.path[i] \in {r, s}})
        BY <1>4, <1>10, <2>6 DEF Misled
      <3>2. QED
        BY <1>1, <1>4, <1>7, <2>4, <3>1, MoveAway DEF Serves
    <2>7. QED
      BY <2>5, <2>6
  <1>11. QED
    BY <1>7, <1>8, <1>9, <1>10

-----------------------------------------------------------------------------
(* Calls of the library.                                                   *)

LEMMA PathsAre ==
  ASSUME NEW max \in Nat, NEW q \in Paths(max)
  PROVE  q \in Way /\ q # <<>> /\ (Last(q) \in Names => UserPath(q))
  <1>1. PICK n \in 1 .. max : q \in [1 .. n -> Names \cup Dots]
    BY DEF Paths
  <1>2. n \in Nat /\ n # 0
    OBVIOUS
  <1>3. q \in Way /\ Len(q) = n
    BY <1>1, <1>2 DEF Way
  <1>4. q # <<>>
    BY <1>2, <1>3
  <1>5. QED
    BY <1>2, <1>3, <1>4 DEF UserPath

LEMMA CallServes ==
  ASSUME TreeAssumption, ~MovesDirs, TreeInv, Call PROVE TreeInv' /\ Effect
  <1>1. MaxPath \in Nat /\ MaxTarget \in Nat
    BY DEF TreeAssumption
  <1>2. ASSUME NEW d \in LiveDirs, NEW path \in Paths(MaxPath),
               NEW op \in {"open_file", "open_dir", "open_meta"}, Open(op, d, path)
        PROVE  TreeInv' /\ Effect
    BY <1>1, <1>2, PathsAre, OpenStep DEF Effect
  <1>3. ASSUME NEW d \in LiveDirs, NEW path \in Named(MaxPath), NEW op \in {"create_file", "create_dir"},
               Create(op, d, path)
        PROVE  TreeInv' /\ Effect
    <2>1. UserPath(path)
      BY <1>1, PathsAre DEF Named
    <2>2. QED
      BY <1>3, <2>1, CreateStep DEF Effect
  <1>4. ASSUME NEW d \in LiveDirs, NEW path \in Named(MaxPath), RemoveEntry(d, path)
        PROVE  TreeInv' /\ Effect
    <2>1. UserPath(path)
      BY <1>1, PathsAre DEF Named
    <2>2. QED
      BY <1>4, <2>1, RemoveStep DEF Effect
  <1>5. ASSUME NEW d \in LiveDirs, NEW dst \in LiveDirs, NEW path \in Named(MaxPath), NEW target \in Named(MaxTarget),
               Careful(d, path, dst), Rename(d, path, dst, target)
        PROVE  TreeInv' /\ Effect
    <2>1. UserPath(path)
      BY <1>1, PathsAre DEF Named
    <2>2. UserPath(target)
      BY <1>1, PathsAre DEF Named
    <2>3. QED
      BY <1>5, <2>1, <2>2, RenameStep
  <1>6. QED
    BY <1>2, <1>3, <1>4, <1>5 DEF Call

-----------------------------------------------------------------------------
(* The theorems.                                                           *)

AccessInv == TreeInv /\ (client = "fuse" => TableInv)

LEMMA InitAccessInv == ASSUME FuseAssumption, Init PROVE AccessInv /\ Tree!Init
  <1>1. TreeAssumption /\ TreeInit
    BY DEF FuseAssumption, Init
  <1>2. TreeInv /\ Tree!Init
    BY <1>1, TreeStarts
  <1>3. /\ table = [path |-> [i \in {RootInode} |-> <<>>], inode |-> [p \in {<<>>} |-> RootInode], next |-> 2]
        /\ means = [i \in {RootInode} |-> Root]
    BY DEF Init
  <1>4. /\ DOMAIN table.path = {RootInode} /\ table.path[RootInode] = <<>>
        /\ DOMAIN table.inode = {<<>>} /\ table.inode[<<>>] = RootInode
        /\ table.next = 2 /\ DOMAIN means = {RootInode}
    BY <1>3
  <1>5. Sure = {}
    BY <1>4 DEF Sure
  <1>6. TableTypes
    <2>1. <<>> \in Plain
      BY DEF Plain
    <2>2. RootInode \in 1 .. table.next - 1
      BY <1>4 DEF RootInode
    <2>3. QED
      BY <1>4, <2>1, <2>2 DEF TableTypes
  <1>7. MapsAgree /\ PathsLead
    BY <1>4, <1>5 DEF MapsAgree, PathsLead
  <1>8. QED
    BY <1>2, <1>6, <1>7 DEF AccessInv, TableInv

LEMMA RequestServes ==
  ASSUME FuseAssumption, ~MovesDirs, TreeInv, TableInv, Request PROVE Serves
  <1>1. ASSUME NEW parent \in known, NEW name \in Names, Lookup(parent, name) PROVE Serves
    BY <1>1, LookupServes
  <1>2. ASSUME NEW parent \in known, NEW name \in Names, NEW op \in {"create_file", "create_dir"},
               Make(op, parent, name)
        PROVE  Serves
    BY <1>2, MakeServes
  <1>3. ASSUME NEW parent \in known, NEW name \in Names, Unlink(parent, name) PROVE Serves
    BY <1>3, UnlinkServes
  <1>4. ASSUME NEW parent \in known, NEW name \in Names, NEW newparent \in known, NEW newname \in Names,
               RenameInode(parent, name, newparent, newname)
        PROVE  Serves
    BY <1>4, RenameServes
  <1>5. ASSUME NEW ino \in known, ReadDir(ino) PROVE Serves
    BY <1>5, ReadDirServes
  <1>6. ASSUME NEW ino \in known, NEW op \in {"open_meta", "open_file"}, Use(op, ino) PROVE Serves
    BY <1>6, UseServes
  <1>7. QED
    BY <1>1, <1>2, <1>3, <1>4, <1>5, <1>6 DEF Request

LEMMA NextAccessInv ==
  ASSUME FuseAssumption, ~MovesDirs, AccessInv, [Next]_vars
  PROVE  AccessInv' /\ [Effect]_(Tree!vars)
  <1>1. TreeAssumption /\ TreeInv
    BY DEF FuseAssumption, AccessInv
  <1>2. ASSUME UNCHANGED treeVars PROVE TreeInv' /\ UNCHANGED Tree!vars
    <2>1. UNCHANGED <<entries, isDir, made, reply>>
      BY <1>2 DEF treeVars
    <2>2. QED
      BY <1>1, <2>1, Rests DEF Tree!vars
  <1>3. CASE client = "fuse" /\ Request /\ UNCHANGED client
    <2>1. Serves
      BY <1>1, <1>3, RequestServes DEF AccessInv
    <2>2. QED
      BY <1>2, <2>1 DEF Serves, AccessInv
  <1>4. CASE client = "library" /\ Call /\ UNCHANGED <<client, table, means, known, displaced>>
    <2>1. client' # "fuse"
      BY <1>4
    <2>2. QED
      BY <1>1, <1>4, <2>1, CallServes DEF AccessInv
  <1>5. CASE UNCHANGED vars
    <2>1. UNCHANGED <<table, means, displaced>> /\ client' = client /\ UNCHANGED <<entries, isDir, made>>
      BY <1>5 DEF vars, treeVars
    <2>2. TableInv => TableInv'
      BY <1>1, <2>1, RestPaths, KeptLead, NoAllocationRests
    <2>3. UNCHANGED treeVars
      BY <1>5 DEF vars
    <2>4. QED
      BY <1>2, <2>1, <2>2, <2>3 DEF AccessInv
  <1>6. QED
    BY <1>3, <1>4, <1>5 DEF Next

\* open, create, remove and rename of Dir (dir.rs), on volumes with any number of files and
\* paths of any length, do to the tree of names what their documentation says: a path leads
\* to the object that names lead to, ".." to the parent, a call that fails changes nothing.
\* A rename to a path of several components is the exception: it files the entry in dst_dir
\* itself (FiledAbove).  No directory gets into another one (~MovesDirs).
THEOREM CallsAreThoseOfATree ==
  ASSUME FuseAssumption, ~MovesDirs PROVE Spec => ImplementsNameSpace
  <1>1. Init => AccessInv /\ Tree!Init
    BY InitAccessInv
  <1>2. AccessInv /\ [Next]_vars => AccessInv' /\ [Effect]_(Tree!vars)
    BY NextAccessInv
  <1>3. QED
    BY <1>1, <1>2, PTL DEF Spec, ImplementsNameSpace

LEMMA SureInodes == ASSUME AccessInv PROVE InodesNameTheirFile
  <1> SUFFICES ASSUME client = "fuse", TableInv
               PROVE  /\ \A ino \in Sure : /\ Resolve(Root, table.path[ino]) = means[ino]
                                           /\ table.path[ino] \in DOMAIN table.inode
                                           /\ table.inode[table.path[ino]] = ino
                      /\ \A path \in DOMAIN table.inode :
                           Mapped(table.inode[path]) /\ table.path[table.inode[path]] = path
    BY DEF AccessInv, InodesNameTheirFile, Sure
  <1>1. \A ino \in Sure : Resolve(Root, table.path[ino]) = means[ino]
    BY DEF TableInv, TableTypes, PathsLead, Sure
  <1>2. QED
    BY <1>1 DEF TableInv, MapsAgree, Mapped

\* A kernel that asks FuseAdapter by inode (fatrs-fuse/src/lib.rs) is never answered from
\* another file than the one the inode was given out for, whatever is created, removed and
\* renamed between its requests.  The exceptions are the inodes below a renamed directory,
\* and those that had the old or the new path of a rename into a subdirectory (Misled).  No
\* directory gets into another one (~MovesDirs).
THEOREM InodesAlwaysNameTheirFile ==
  ASSUME FuseAssumption, ~MovesDirs PROVE Spec => []InodesNameTheirFile
  <1>1. Init => AccessInv
    BY InitAccessInv
  <1>2. AccessInv /\ [Next]_vars => AccessInv'
    BY NextAccessInv
  <1>3. AccessInv => InodesNameTheirFile
    BY SureInodes
  <1>4. QED
    BY <1>1, <1>2, <1>3, PTL DEF Spec
=============================================================================

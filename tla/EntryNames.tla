----------------------------- MODULE EntryNames -----------------------------
(***************************************************************************)
(* Names of directory entries (fatrs/src/dir.rs, dir_entry.rs): the short  *)
(* name that is generated for a long one (ShortNameGenerator), the entries *)
(* a long name is cut into (LfnEntriesGenerator) and how they are read     *)
(* back (DirIter::read_dir_entry, LongNameBuilder).                        *)
(*                                                                         *)
(* A directory is the sequence of its slots up to the end mark.  A writer  *)
(* that knows only short names shares the volume: it deletes and creates   *)
(* short entries and leaves the slots of long names as they are.  Names    *)
(* are sequences of characters, up to case; lengths are parameters (8, 3,  *)
(* 6, 2 and 4 in the code).  Names that validate_long_name refuses change  *)
(* nothing and are left out.                                               *)
(***************************************************************************)
EXTENDS Integers, SequencesExt

CONSTANTS
  LongNames,    \* names that are created, those validate_long_name accepts
  Wide,         \* characters of several bytes
  ForeignNames, \* short names that the other writer creates: [base, ext]
  BaseLen, ExtLen,
  PrefixLen,    \* of the form PREFIX~1
  ShortPrefixLen, ChkLen, \* of the form PRcccc~1
  PartLen,      \* characters of a slot (13)
  LongForms, ChkForms,    \* PREFIX~1 .. , PRcccc~1 .. (4 and 9)
  Sums,         \* values of the checksum of a name (2^16)
  SumOf(_),     \* ... of each name
  Hex(_),       \* ... in characters
  SfnSum(_),    \* lfn_checksum of a short name: 8 bits, the same for many
  MaxSlots      \* bound: slots of the directory

\* Checked where the constants get their values.
NamesAssumption ==
  /\ BaseLen \in Nat /\ ExtLen \in Nat /\ PrefixLen \in Nat /\ ShortPrefixLen \in Nat
  /\ ShortPrefixLen + ChkLen + 2 <= BaseLen /\ PrefixLen + 2 <= BaseLen
  /\ PartLen \in Nat \ {0} /\ Sums \in Nat \ {0}
  /\ LongForms \in Nat /\ ChkForms \in Nat
  /\ "FFFF" \in Wide
  \* validate_long_name: no character is the one that ends a name.
  /\ \A name \in LongNames : /\ name \in Seq(STRING) /\ SumOf(name) \in Nat
                             /\ \A i \in DOMAIN name : name[i] # "end"
  /\ \A n \in 0 .. Sums - 1 : Hex(n) \in Seq(STRING)

VARIABLE slots
nameVars == slots

NamesInit == slots = <<>>

-----------------------------------------------------------------------------
(* ShortNameGenerator.                                                     *)
Plain == {"a", "b", "c", "1", "2", "~", "_", "0"}   \* allowed in an 8.3 name

\* copy_short_name_part: spaces and dots are stripped, other characters that
\* are not allowed are replaced.
Copy(c, r, max) ==
  IF ~r.fits THEN r
  ELSE IF Len(r.out) = max THEN [out |-> r.out, fits |-> FALSE, lossy |-> r.lossy]
  ELSE IF c \in {" ", "."} THEN [out |-> r.out, fits |-> TRUE, lossy |-> TRUE]
  ELSE [out |-> Append(r.out, IF c \in Plain THEN c ELSE "_"), fits |-> TRUE,
        lossy |-> r.lossy \/ c \notin Plain]

CopyPart(src, max) ==
  LET read[i \in 0 .. Len(src)] ==
        IF i = 0 THEN [out |-> <<>>, fits |-> TRUE, lossy |-> FALSE]
        ELSE Copy(src[i], read[i - 1], max) IN
    read[Len(src)]

Padded(s, n) == s \o [i \in 1 .. n - Len(s) |-> " "]

\* new panics, before the name is validated: name[1..] is no slice of a name
\* that is empty or begins with a character of several bytes.
Panics(name) == name = <<>> \/ Head(name) \in Wide

\* new: the last dot that is not the first character separates the extension.
Basis(name) ==
  LET dots == {i \in 2 .. Len(name) : name[i] = "."}
      dot == IF dots = {} THEN Len(name) + 1 ELSE CHOOSE i \in dots : \A j \in dots : j <= i
      b == CopyPart(SubSeq(name, 1, dot - 1), BaseLen)
      e == CopyPart(SubSeq(name, dot + 1, Len(name)), ExtLen) IN
    [base |-> b.out, ext |-> Padded(e.out, ExtLen),
     exact |-> b.fits /\ e.fits /\ ~b.lossy /\ ~e.lossy]

Prefix(b, n) == SubSeq(b.base, 1, IF Len(b.base) < n THEN Len(b.base) ELSE n)
Unnumbered(b) == [base |-> Padded(b.base, BaseLen), ext |-> b.ext]
Stem(b, sum) == IF sum = {} THEN Prefix(b, PrefixLen)
                ELSE Prefix(b, ShortPrefixLen) \o Hex(CHOOSE x \in sum : TRUE)

\* build_prefixed_name, without (sum = {}) and with the checksum.
Numbered(b, sum, i) ==
  [base |-> Padded(Stem(b, sum) \o <<"~", ToString(i)>>, BaseLen), ext |-> b.ext]

\* check_for_*_prefix_collision: a name with the same stem and number.
Taken(b, sum, i, used) ==
  \E s \in used : /\ IsPrefix(Stem(b, sum) \o <<"~", ToString(i)>>, s.base)
                  /\ s.ext = b.ext

\* Mutant: short names in use are not looked at.
MutFormsFor(b, sum, used) == {Numbered(b, {}, 1)}

\* generate, for the short names in use and one checksum: the name as
\* it is if it fits, else the first numbered form that is free.
FormsFor(b, sum, used) ==
  LET long == {i \in 1 .. LongForms : ~Taken(b, {}, i, used)}
      chk == {i \in 1 .. ChkForms : ~Taken(b, {sum}, i, used)}
      Least(S) == CHOOSE i \in S : \A j \in S : i <= j IN
    IF long # {} THEN {Numbered(b, {}, Least(long))}
    ELSE IF chk # {} THEN {Numbered(b, {sum}, Least(chk))} ELSE {}

\* The loop of check_for_existence: the next checksum when all are taken, and
\* no end when all are for every checksum.
Fits(name, used) == Basis(name).exact /\ Unnumbered(Basis(name)) \notin used
Try(name, used, n) == FormsFor(Basis(name), (SumOf(name) + n) % Sums, used)
Tries(name, used) == {n \in 0 .. Sums - 1 : Try(name, used, n) # {}}
ShortFor(name, used) ==
  IF Fits(name, used) THEN Unnumbered(Basis(name))
  ELSE LET k == CHOOSE n \in Tries(name, used) : \A m \in Tries(name, used) : n <= m IN
         CHOOSE s \in Try(name, used, k) : TRUE

\* Every short name the generator can give.
AllForms(b) ==
  {Unnumbered(b)}
    \cup {Numbered(b, {}, i) : i \in 1 .. LongForms}
    \cup UNION {{Numbered(b, {c}, i) : i \in 1 .. ChkForms} : c \in 0 .. Sums - 1}

-----------------------------------------------------------------------------
(* Slots.                                                                  *)
Deleted == [kind |-> "deleted"]
Foreign == <<>>     \* the long name of an entry of the other writer
ShortSlot(s, name) == [kind |-> "short", short |-> s, given |-> name]
IsShort(i) == i \in DOMAIN slots /\ slots[i].kind = "short"
ShortNames == {slots[i].short : i \in {j \in DOMAIN slots : IsShort(j)}}

\* LfnEntriesGenerator: the last part first, closed by 0 ("end") if it is short
\* and padded with U+FFFF, which is left out.
Parts(name) == (Len(name) + PartLen - 1) \div PartLen
Part(name, k) ==
  LET stop == IF k = Parts(name) THEN Len(name) ELSE k * PartLen
      p == SubSeq(name, (k - 1) * PartLen + 1, stop) IN
    IF Len(p) < PartLen THEN Append(p, "end") ELSE p
LongSlots(name, s) ==
  [i \in 1 .. Parts(name) |->
     LET k == Parts(name) + 1 - i IN
       [kind |-> "long", order |-> k, last |-> i = 1, sum |-> SfnSum(s), part |-> Part(name, k)]]

(***************************************************************************)
(* LongNameBuilder over the slots before an entry.  `begin' is the first   *)
(* slot that belongs to the entry (offset_range).                          *)
(***************************************************************************)
NoBuilder == [index |-> 0, sum |-> 0, text |-> <<>>]

Process(b, e) ==
  IF e.last THEN [index |-> e.order, sum |-> e.sum, text |-> e.part]
  ELSE IF b.index = 0 \/ e.order # b.index - 1 \/ e.sum # b.sum THEN NoBuilder
  ELSE [index |-> b.index - 1, sum |-> b.sum, text |-> e.part \o b.text]

\* The slots since the last deleted or short one.
Begin(i) == 1 + LET ends == {j \in 1 .. i - 1 : slots[j].kind # "long"} IN
                  IF ends = {} THEN 0 ELSE CHOOSE j \in ends : \A k \in ends : k <= j

\* Mutant: the checksum is not compared.
MutBelongs(b, s) == b.index = 1

\* validate_chksum, into_buf: the text of a sequence that is complete and has
\* the checksum of the short name, up to the last character that is neither 0
\* nor U+FFFF (truncate), which a name may end in.
Belongs(b, s) == b.index = 1 /\ b.sum = SfnSum(s)
Truncated(t) ==
  LET text == {i \in 1 .. Len(t) : t[i] \notin {"end", "FFFF"}} IN
    SubSeq(t, 1, IF text = {} THEN 0 ELSE CHOOSE i \in text : \A j \in text : j <= i)

Built(i) ==
  LET after[j \in 0 .. i - 1] ==
        IF j < Begin(i) THEN NoBuilder ELSE Process(after[j - 1], slots[j]) IN
    after[i - 1]
LongName(i) == IF Belongs(Built(i), slots[i].short) THEN Truncated(Built(i).text) ELSE Foreign

\* ShortName: padding is cut, a dot goes before an extension.
Trimmed(s) == SelectSeq(s, LAMBDA c : c # " ")
Display(s) == Trimmed(s.base) \o
              (IF Trimmed(s.ext) = <<>> THEN <<>> ELSE <<".">> \o Trimmed(s.ext))
EqName(i, name) == LongName(i) = name \/ Display(slots[i].short) = name

-----------------------------------------------------------------------------
(* Operations.                                                             *)
\* find_free_entries: the first run of n deleted slots, or the deleted slots
\* at the end, or the end itself.
FreeStart(n) ==
  CHOOSE p \in 1 .. Len(slots) + 1 :
    LET Free(q) == \A j \in q .. q + n - 1 : j \in DOMAIN slots => slots[j] = Deleted IN
      Free(p) /\ \A q \in 1 .. p - 1 : ~Free(q)

Placed(p, list) ==
  [i \in 1 .. (IF p + Len(list) - 1 > Len(slots) THEN p + Len(list) - 1 ELSE Len(slots)) |->
     IF i \in p .. p + Len(list) - 1 THEN list[i - p + 1] ELSE slots[i]]

\* create_file: the entry that answers to the name, or new slots; a crash
\* leaves the first `done' of them.
Create(name) ==
  /\ ~Panics(name)
  /\ ~\E i \in DOMAIN slots : IsShort(i) /\ EqName(i, name)
  /\ Fits(name, ShortNames) \/ Tries(name, ShortNames) # {}
  /\ LET s == ShortFor(name, ShortNames)
         list == Append(LongSlots(name, s), ShortSlot(s, name))
         p == FreeStart(Len(list)) IN
       /\ p + Len(list) - 1 <= MaxSlots
       /\ \E done \in 1 .. Len(list) : slots' = Placed(p, SubSeq(list, 1, done))

\* remove: all slots of the entry.
RemoveEntry(i) ==
  /\ IsShort(i)
  /\ slots' = [j \in DOMAIN slots |-> IF j \in Begin(i) .. i THEN Deleted ELSE slots[j]]

\* The other writer: a short entry is deleted, or written to the first free slot.
ForeignDelete(i) == IsShort(i) /\ slots' = [slots EXCEPT ![i] = Deleted]
ForeignCreate(s) ==
  /\ s \notin ShortNames
  /\ FreeStart(1) <= MaxSlots
  /\ slots' = Placed(FreeStart(1), <<ShortSlot(s, Foreign)>>)

NamesNext ==
  \/ \E name \in LongNames : Create(name)
  \/ \E i \in DOMAIN slots : RemoveEntry(i) \/ ForeignDelete(i)
  \/ \E s \in ForeignNames : ForeignCreate(s)

NamesSpec == NamesInit /\ [][NamesNext]_nameVars

-----------------------------------------------------------------------------
\* No two entries of a directory have the same short name: neither literal
\* names that look like a numbered form, nor names that share all but their
\* end, nor names of another writer collide (ShortNameGenerator).
ShortNamesUnique ==
  \A i, j \in DOMAIN slots :
    IsShort(i) /\ IsShort(j) /\ i # j => slots[i].short # slots[j].short

\* An entry is read with the name it was created with, less the U+FFFF that
\* the name ends in, whatever slots of other names, of interrupted writes and
\* of foreign deletions lie before it.  An entry of the other writer takes the
\* whole name of a deleted entry or none, and only when the checksums of the
\* two short names are the same (LongNameBuilder).
TakesOver(i, name) ==
  /\ LongName(i) = Truncated(name)
  /\ \E s \in AllForms(Basis(name)) : SfnSum(s) = SfnSum(slots[i].short)
NamesReadBack ==
  \A i \in DOMAIN slots : IsShort(i) =>
    IF slots[i].given # Foreign THEN LongName(i) = Truncated(slots[i].given)
    ELSE LongName(i) # Foreign => \E name \in LongNames : TakesOver(i, name)
=============================================================================

--------------------------- MODULE AdaptersProofs ---------------------------
(***************************************************************************)
(* Theorems about the adapters.  HeaderRotation: flash regions of any      *)
(* size, every number of header slots, and any number of writes, faults    *)
(* and power cuts up to the bounds.  PageStream: the buffered page and the *)
(* device, for pages and blocks of any size, any number of calls, errors   *)
(* and restarts; and that a stream implements ByteStream.                  *)
(***************************************************************************)
EXTENDS HeaderRotation, PageStream, SequenceTheorems, TLAPS

-----------------------------------------------------------------------------
(* Header rotation.                                                        *)

\* The slot that is n steps after s.
After(s, n) == IF s + n < rotation THEN s + n ELSE s + n - rotation

\* Only an owner that has scanned the slots writes.  While a call has erased the page of its
\* block, the page has no known content, and a header being written is one that was begun.
InWrite ==
  /\ todo # <<>> => up
  /\ erased => /\ confirmed[Head(todo)[1]] = Unknown
               /\ Head(todo)[1] = 0 => tries > 0

Good(s) == Valid(s) /\ flash[s].value >= committed

\* The committed header lies as many slots behind current_slot as headers were begun since.
Behind ==
  committed > 0 /\ tries < rotation =>
    \E s \in Slots : Good(s) /\ (up => slot = After(s, tries))

\* The slots up to current_slot were erased once more than those after it.
Round ==
  crashes = 0 => /\ up
                 /\ \A s \in Slots : wear[s] = wear[0] + (IF s \in 1 .. slot THEN 1 ELSE 0)

RotationInv == RotationTypeOK /\ InWrite /\ Behind /\ WrittenPagesKept /\ Round

-----------------------------------------------------------------------------
LEMMA RotationFacts ==
  ASSUME RotationTypeOK
  PROVE  /\ rotation \in 1 .. 8 /\ rotation < FlashPages /\ FlashPages \in Nat
         /\ slot \in 0 .. rotation - 1
         /\ NextSlot = After(slot, 1) /\ NextSlot \in Slots
         /\ Logical = 0 .. FlashPages - rotation /\ 0 \in Logical
  <1>1. rotation \in 1 .. 8 /\ rotation < FlashPages /\ FlashPages \in Nat
    BY RotationsAssumption DEF RotationTypeOK
  <1>2. slot \in 0 .. rotation - 1
    BY DEF RotationTypeOK, Slots
  <1>3. NextSlot = After(slot, 1)
    <2>1. CASE rotation = 1
      BY <1>2, <2>1 DEF NextSlot, After
    <2>2. CASE rotation = 2
      BY <1>2, <2>2 DEF NextSlot, After
    <2>3. CASE rotation = 3
      BY <1>2, <2>3 DEF NextSlot, After
    <2>4. CASE rotation = 4
      BY <1>2, <2>4 DEF NextSlot, After
    <2>5. CASE rotation = 5
      BY <1>2, <2>5 DEF NextSlot, After
    <2>6. CASE rotation = 6
      BY <1>2, <2>6 DEF NextSlot, After
    <2>7. CASE rotation = 7
      BY <1>2, <2>7 DEF NextSlot, After
    <2>8. CASE rotation = 8
      BY <1>2, <2>8 DEF NextSlot, After
    <2>9. QED
      BY <1>1, <2>1, <2>2, <2>3, <2>4, <2>5, <2>6, <2>7, <2>8
  <1>4. NextSlot \in Slots
    BY <1>1, <1>2, <1>3 DEF After, Slots
  <1>5. QED
    BY <1>1, <1>2, <1>3, <1>4 DEF Logical

\* No two logical pages share a page of the flash, whatever the slot of the header.
LEMMA PagesApart ==
  ASSUME RotationTypeOK, NEW l \in Logical, NEW s \in Slots
  PROVE  /\ LogicalToPhysical(l, s) \in Physical
         /\ l = 0 => LogicalToPhysical(l, s) = s
         /\ l # 0 => LogicalToPhysical(l, s) \notin Slots
         /\ \A k \in Logical, t \in Slots :
              k # l => LogicalToPhysical(k, t) # LogicalToPhysical(l, s)
  BY RotationFacts DEF LogicalToPhysical, Physical, Slots, Logical

LEMMA SlotForType ==
  ASSUME RotationTypeOK, NEW l \in Logical PROVE SlotFor(l) \in Slots
  BY RotationFacts DEF SlotFor, RotationTypeOK

LEMMA HeadOfTodo ==
  ASSUME RotationTypeOK, todo # <<>>
  PROVE  /\ Head(todo) \in Block /\ Tail(todo) \in Seq(Block)
         /\ Head(todo)[1] \in Logical /\ Head(todo)[2] \in Contents
         /\ Head(todo)[1] = 0 => Head(todo)[2] \in Headers
  <1>1. Head(todo) \in Block /\ Tail(todo) \in Seq(Block)
    BY HeadTailProperties DEF RotationTypeOK
  <1>2. QED
    BY <1>1 DEF Block

LEMMA InitRotation == RotationInit => RotationInv
  <1> SUFFICES ASSUME RotationInit PROVE RotationInv
    OBVIOUS
  <1>1. rotation \in 1 .. 8 /\ rotation < FlashPages /\ FlashPages \in Nat
    BY RotationsAssumption DEF RotationInit
  <1>2. RotationTypeOK
    <2>1. todo \in Seq(Block)
      BY EmptySeq DEF RotationInit
    <2>2. flash \in [Physical -> Contents] /\ confirmed \in [Logical -> Contents \cup {Unknown}]
      BY DEF RotationInit, Contents, Logical
    <2>3. slot \in Slots /\ wear \in [Slots -> Nat]
      BY <1>1 DEF RotationInit, Slots
    <2>4. /\ rotation \in Rotations /\ erased = FALSE /\ up = TRUE
          /\ seq = 0 /\ committed = 0 /\ tries = 0 /\ flashFaults = 0 /\ crashes = 0
      BY DEF RotationInit
    <2>5. rotation \in Rotations /\ erased \in BOOLEAN /\ up \in BOOLEAN
      BY <2>4
    <2>6. seq \in 0 .. MaxSeq /\ committed \in 0 .. MaxSeq /\ tries \in Nat
      BY <2>4, RotationsAssumption
    <2>7. flashFaults \in 0 .. MaxFlashFaults /\ crashes \in 0 .. MaxCrashes
      BY <2>4, RotationsAssumption
    <2>8. erased => todo # <<>>
      BY <2>4
    <2>9. QED
      BY <2>1, <2>2, <2>3, <2>5, <2>6, <2>7, <2>8 DEF RotationTypeOK
  <1>3. WrittenPagesKept
    BY DEF RotationInit, WrittenPagesKept, Logical
  <1>4. QED
    BY <1>1, <1>2, <1>3 DEF RotationInit, RotationInv, InWrite, Behind, Round, Slots

-----------------------------------------------------------------------------
\* A step that begins the write of a block keeps the types.
LEMMA BeginTypes ==
  ASSUME RotationTypeOK, NEW l \in Logical, Begin(l), UNCHANGED rotation
  PROVE  /\ slot' \in Slots /\ confirmed' \in [Logical -> Contents \cup {Unknown}]
         /\ tries' \in Nat /\ wear' \in [Slots -> Nat]
         /\ Slots' = Slots /\ Logical' = Logical /\ Block' = Block
  <1>1. slot' \in Slots
    BY SlotForType DEF Begin
  <1>2. tries' \in Nat /\ confirmed' \in [Logical -> Contents \cup {Unknown}]
    BY DEF Begin, RotationTypeOK
  <1>3. wear' \in [Slots -> Nat]
    BY SlotForType DEF Begin, RotationTypeOK
  <1>4. QED
    BY <1>1, <1>2, <1>3 DEF Slots, Logical, Block

\* It moves the header to the next slot, which has been erased least.
LEMMA BeginRound ==
  ASSUME RotationTypeOK, Round, NEW l \in Logical, Begin(l), UNCHANGED <<rotation, crashes, up>>
  PROVE  Round'
  <1> SUFFICES ASSUME crashes = 0, NEW s \in Slots
               PROVE  up /\ wear'[s] = wear'[0] + (IF s \in 1 .. slot' THEN 1 ELSE 0)
    BY DEF Round, Slots
  <1>1. up /\ \A t \in Slots : wear[t] = wear[0] + (IF t \in 1 .. slot THEN 1 ELSE 0)
    BY DEF Round
  <1>2. wear \in [Slots -> Nat] /\ 0 \in Slots
    BY SMTT(20), RotationFacts DEF RotationTypeOK, Slots
  <1>3. CASE l # 0
    BY <1>1, <1>3 DEF Begin, SlotFor
  <1>4. CASE l = 0
    <2>1. /\ slot' = After(slot, 1) /\ slot' \in Slots
          /\ wear' = [wear EXCEPT ![slot'] = @ + 1]
      BY <1>4, RotationFacts DEF Begin, SlotFor
    <2>2. \A t \in Slots : wear'[t] = wear[t] + (IF t = slot' THEN 1 ELSE 0)
      BY <1>2, <2>1
    <2>3. wear[s] = wear[0] + (IF s \in 1 .. slot THEN 1 ELSE 0)
      BY <1>1
    <2>4. wear[0] \in Nat /\ s \in 0 .. rotation - 1 /\ rotation \in 1 .. 8 /\ slot \in 0 .. rotation - 1
      BY <1>2, RotationFacts DEF Slots
    <2>5. slot' = IF slot + 1 < rotation THEN slot + 1 ELSE 0
      BY <2>1, <2>4 DEF After
    <2>6. /\ wear'[s] = wear[s] + (IF s = slot' THEN 1 ELSE 0)
          /\ wear'[0] = wear[0] + (IF 0 = slot' THEN 1 ELSE 0)
      BY <1>2, <2>2
    <2>7. QED
      BY <1>1, <2>3, <2>4, <2>5, <2>6
  <1>5. QED
    BY <1>3, <1>4

\* Changing the page of one block leaves what is known of the other pages.
LEMMA OnePageChanged ==
  ASSUME RotationTypeOK, WrittenPagesKept, NEW l \in Logical, NEW t \in Slots, NEW c,
         flash' = [flash EXCEPT ![LogicalToPhysical(l, t)] = c],
         slot' \in Slots, UNCHANGED rotation, up' => up, l # 0 /\ up' => slot' = slot,
         \/ confirmed' = [confirmed EXCEPT ![l] = Unknown]
         \/ confirmed' = [confirmed EXCEPT ![l] = c] /\ (up' => slot' = t)
         \/ confirmed' = confirmed /\ confirmed[l] = Unknown
  PROVE  WrittenPagesKept'
  <1> SUFFICES ASSUME NEW k \in Logical, confirmed'[k] # Unknown, up' \/ k # 0
               PROVE  flash'[LogicalToPhysical(k, slot')] = confirmed'[k]
    BY DEF WrittenPagesKept, Logical, LogicalToPhysical
  <1>1. LogicalToPhysical(k, slot') \in Physical /\ LogicalToPhysical(l, t) \in Physical
    BY PagesApart
  <1>2. CASE k = l
    <2>1. confirmed'[k] = c /\ (up' => slot' = t)
      BY <1>2 DEF RotationTypeOK
    <2>2. LogicalToPhysical(k, slot') = LogicalToPhysical(l, t)
      BY <1>2, <2>1 DEF LogicalToPhysical
    <2>3. QED
      BY <1>1, <2>1, <2>2 DEF RotationTypeOK
  <1>3. CASE k # l
    <2>1. confirmed'[k] = confirmed[k]
      BY <1>3 DEF RotationTypeOK
    <2>2. LogicalToPhysical(k, slot') # LogicalToPhysical(l, t)
      BY <1>3, PagesApart
    <2>3. LogicalToPhysical(k, slot') = LogicalToPhysical(k, slot)
      BY <1>3 DEF LogicalToPhysical
    <2>4. flash[LogicalToPhysical(k, slot)] = confirmed[k]
      BY <2>1 DEF WrittenPagesKept
    <2>5. QED
      BY <1>1, <2>1, <2>2, <2>3, <2>4 DEF RotationTypeOK
  <1>4. QED
    BY <1>2, <1>3

\* A step that begins a block, and changes its page, leaves a slot with the committed header.
LEMMA GoodAfterBegin ==
  ASSUME RotationTypeOK, Behind, up, NEW l \in Logical, NEW c,
         flash' = [flash EXCEPT ![LogicalToPhysical(l, SlotFor(l))] = c],
         tries' = IF l = 0 THEN tries + 1 ELSE tries,
         UNCHANGED <<rotation, committed>>, committed > 0, tries' < rotation
  PROVE  \E s \in Slots : Good(s)' /\ slot = After(s, tries)
  <1>1. tries \in Nat /\ tries < rotation /\ rotation \in 1 .. 8
    BY SMTT(20), RotationFacts DEF RotationTypeOK
  <1>2. PICK s \in Slots : Good(s) /\ slot = After(s, tries)
    BY <1>1 DEF Behind
  <1>3. s \in Physical /\ s \in 0 .. rotation - 1
    BY RotationFacts DEF Slots, Physical
  <1>4. LogicalToPhysical(l, SlotFor(l)) # s
    <2>1. CASE l # 0
      BY <2>1, PagesApart, SlotForType
    <2>2. CASE l = 0
      <3>1. LogicalToPhysical(l, SlotFor(l)) = After(slot, 1) /\ tries + 1 < rotation
        BY <2>2, RotationFacts DEF LogicalToPhysical, SlotFor
      <3>2. QED
        BY <1>1, <1>2, <1>3, <3>1 DEF After
    <2>3. QED
      BY <2>1, <2>2
  <1>5. flash'[s] = flash[s]
    BY <1>3, <1>4 DEF RotationTypeOK
  <1>6. QED
    BY <1>2, <1>5 DEF Good, Valid

\* So does one that changes the page of a block that was begun.
LEMMA GoodAfterSpoil ==
  ASSUME RotationTypeOK, Behind, up, NEW l \in Logical, NEW c, l = 0 => tries > 0,
         flash' = [flash EXCEPT ![LogicalToPhysical(l, slot)] = c],
         UNCHANGED <<rotation, committed>>, committed > 0, tries < rotation
  PROVE  \E s \in Slots : Good(s)' /\ slot = After(s, tries)
  <1>1. tries \in Nat /\ rotation \in 1 .. 8 /\ slot \in Slots
    BY RotationFacts DEF RotationTypeOK
  <1>2. PICK s \in Slots : Good(s) /\ slot = After(s, tries)
    BY DEF Behind
  <1>3. s \in Physical /\ s \in 0 .. rotation - 1
    BY RotationFacts DEF Slots, Physical
  <1>4. LogicalToPhysical(l, slot) # s
    <2>1. CASE l # 0
      BY <1>1, <2>1, PagesApart
    <2>2. CASE l = 0
      BY <1>1, <1>2, <1>3, <2>2 DEF LogicalToPhysical, After
    <2>3. QED
      BY <2>1, <2>2
  <1>5. flash'[s] = flash[s]
    BY <1>3, <1>4 DEF RotationTypeOK
  <1>6. QED
    BY <1>2, <1>5 DEF Good, Valid

\* And the distance grows with current_slot.
LEMMA BeginBehind ==
  ASSUME RotationTypeOK, Behind, up, NEW l \in Logical, NEW c, Begin(l),
         flash' = [flash EXCEPT ![LogicalToPhysical(l, SlotFor(l))] = c],
         UNCHANGED <<rotation, committed>>
  PROVE  Behind'
  <1> SUFFICES ASSUME committed > 0, tries' < rotation
               PROVE  \E s \in Slots : Good(s)' /\ slot' = After(s, tries')
    BY DEF Behind, Slots, After
  <1>1. tries' = IF l = 0 THEN tries + 1 ELSE tries
    BY DEF Begin
  <1>2. PICK s \in Slots : Good(s)' /\ slot = After(s, tries)
    BY <1>1, GoodAfterBegin
  <1>3. /\ s \in 0 .. rotation - 1 /\ tries \in Nat /\ rotation \in 1 .. 8
        /\ slot \in 0 .. rotation - 1
    BY RotationFacts DEF Slots, RotationTypeOK
  <1>4. slot' = IF l = 0 THEN After(slot, 1) ELSE slot
    BY RotationFacts DEF Begin, SlotFor
  <1>5. slot' = After(s, tries')
    BY <1>1, <1>2, <1>3, <1>4 DEF After
  <1>6. QED
    BY <1>2, <1>5

-----------------------------------------------------------------------------
\* A call that starts has changed nothing yet.
LEMMA WriteKeeps ==
  ASSUME RotationInv, NEW fst \in 0 .. FlashPages - 1, NEW n \in 1 .. 2, NEW contents \in [1 .. n -> Data],
         WriteBlocks(fst, contents)
  PROVE  RotationInv'
  <1>1. contents \in Seq(Data)
    <2>1. n \in Nat
      OBVIOUS
    <2>2. QED
      BY <2>1, SeqDef
  <1>2. DOMAIN contents = 1 .. n /\ Len(contents) = n
    BY <1>1, LenProperties
  <1>3. seq \in 0 .. MaxSeq /\ MaxSeq \in Nat /\ (fst = 0 => seq + 1 \in 1 .. MaxSeq)
    BY RotationsAssumption DEF RotationInv, RotationTypeOK, WriteBlocks
  <1> DEFINE m == IF fst + n - 1 \in Logical THEN n ELSE FlashPages - rotation + 1 - fst
  <1>0. m \in Int /\ m <= n /\ Inside(fst, Len(contents)) = 1 .. m
    <2>1. rotation \in Nat /\ FlashPages \in Nat /\ fst \in Nat /\ n \in Nat
      BY RotationFacts DEF RotationInv
    <2>2. m <= n
      BY <2>1, SMTT(20) DEF Logical
    <2>3. QED
      BY <1>2, <2>1, <2>2 DEF Inside
  <1>4. ASSUME NEW i \in 1 .. m
        PROVE  <<fst + i - 1, IF fst + i - 1 = 0 THEN Header(seq + 1) ELSE Datum(contents[i])>> \in Block
    <2>1. fst + i - 1 \in Logical
      <3>1. rotation \in Nat /\ FlashPages \in Nat /\ fst \in Nat /\ n \in Nat
        BY RotationFacts DEF RotationInv
      <3>2. QED
        BY <1>0, <3>1, SMTT(20) DEF Logical
    <2>2. CASE fst + i - 1 = 0
      <3>1. Header(seq + 1) \in Headers
        BY <1>3, <2>2 DEF Headers
      <3>2. QED
        BY <2>1, <2>2, <3>1 DEF Block, Contents
    <2>3. CASE fst + i - 1 # 0
      <3>1. i \in 1 .. n
        BY <1>0
      <3>2. contents[i] \in Data
        BY <3>1
      <3>3. QED
        BY <2>1, <2>3, <3>2 DEF Block, Contents
    <2>4. QED
      BY <2>2, <2>3
  <1> HIDE DEF m
  <1>5. todo' \in [1 .. m -> Block]
    BY <1>0, <1>4 DEF WriteBlocks
  <1>6. todo' \in Seq(Block)
    <2>1. CASE m \in Nat
      BY <1>5, <2>1, SeqDef
    <2>2. CASE m \notin Nat
      <3>1. 1 .. m = 1 .. 0
        BY <1>0, <2>2
      <3>2. QED
        BY <1>5, <3>1, SeqDef
    <2>3. QED
      BY <2>1, <2>2
  <1>7. UNCHANGED <<rotation, flash, slot, erased, up, committed, confirmed, tries, wear, flashFaults, crashes>>
    BY DEF WriteBlocks
  <1>8. seq' \in 0 .. MaxSeq
    BY <1>3 DEF WriteBlocks
  <1>9. up /\ ~erased /\ erased \in BOOLEAN
    BY DEF WriteBlocks, RotationInv, RotationTypeOK
  <1>10. RotationTypeOK'
    BY <1>6, <1>7, <1>8, <1>9 DEF RotationInv, RotationTypeOK, Slots, Logical, Block
  <1>11. InWrite'
    BY <1>7, <1>9 DEF InWrite
  <1>12. Behind' /\ Round'
    BY <1>7 DEF RotationInv, Behind, Round, Good, Valid, Slots, After
  <1>13. WrittenPagesKept'
    BY <1>7 DEF RotationInv, WrittenPagesKept, Logical, LogicalToPhysical
  <1>14. QED
    BY <1>10, <1>11, <1>12, <1>13 DEF RotationInv

\* The first step of a block, whether the erase succeeds or not.
LEMMA EraseKeeps ==
  ASSUME RotationInv, todo # <<>>, ~erased, NEW c \in Contents, NEW l, l = Head(todo)[1], Begin(l),
         flash' = [flash EXCEPT ![LogicalToPhysical(l, SlotFor(l))] = c],
         UNCHANGED <<rotation, up, seq, committed, crashes>>, flashFaults' \in 0 .. MaxFlashFaults,
         \/ erased' = TRUE /\ todo' = todo
         \/ erased' = FALSE /\ todo' = <<>>
  PROVE  RotationInv'
  <1>1. RotationTypeOK /\ Behind /\ Round /\ WrittenPagesKept /\ l \in Logical /\ up
    BY HeadOfTodo DEF RotationInv, InWrite
  <1>2. /\ slot' \in Slots /\ confirmed' \in [Logical -> Contents \cup {Unknown}]
        /\ tries' \in Nat /\ wear' \in [Slots -> Nat]
        /\ Slots' = Slots /\ Logical' = Logical /\ Block' = Block
    BY <1>1, BeginTypes
  <1>3. flash' \in [Physical -> Contents]
    BY <1>1 DEF RotationTypeOK
  <1>4. todo' \in Seq(Block) /\ erased' \in BOOLEAN /\ (erased' => todo' # <<>>)
    BY <1>1, EmptySeq DEF RotationTypeOK
  <1>5. RotationTypeOK'
    BY <1>1, <1>2, <1>3, <1>4 DEF RotationTypeOK
  <1>6. InWrite'
    <2>1. confirmed'[l] = Unknown /\ (l = 0 => tries' > 0)
      BY <1>1 DEF Begin, RotationTypeOK
    <2>2. QED
      BY <1>1, <2>1 DEF InWrite
  <1>7. Behind'
    BY <1>1, BeginBehind
  <1>8. Round'
    BY <1>1, BeginRound
  <1>9. WrittenPagesKept'
    <2>1. SlotFor(l) \in Slots /\ slot' \in Slots /\ (l # 0 => slot' = slot)
      BY <1>1, <1>2, SlotForType DEF Begin, SlotFor
    <2>2. confirmed' = [confirmed EXCEPT ![l] = Unknown]
      BY DEF Begin
    <2>3. QED
      BY <1>1, <2>1, <2>2, OnePageChanged
  <1>10. QED
    BY <1>5, <1>6, <1>7, <1>8, <1>9 DEF RotationInv

\* The block is programmed: a header is the committed one from now on.
LEMMA ProgramKeeps == ASSUME RotationInv, Program PROVE RotationInv'
  <1> DEFINE l == Head(todo)[1]
             c == Head(todo)[2]
  <1>1. /\ RotationTypeOK /\ Behind /\ Round /\ WrittenPagesKept /\ todo # <<>> /\ erased
        /\ l \in Logical /\ up /\ c \in Contents /\ (l = 0 => c \in Headers) /\ slot \in Slots
        /\ Tail(todo) \in Seq(Block) /\ (l = 0 => tries > 0)
    BY HeadOfTodo DEF RotationInv, InWrite, Program, RotationTypeOK
  <1>2. /\ flash' = [flash EXCEPT ![LogicalToPhysical(l, slot)] = c]
        /\ confirmed' = [confirmed EXCEPT ![l] = c]
        /\ tries' = IF l = 0 THEN 0 ELSE tries
        /\ committed' = IF l = 0 THEN c.value ELSE committed
        /\ todo' = Tail(todo) /\ erased' = FALSE
        /\ UNCHANGED <<rotation, slot, up, seq, wear, flashFaults, crashes>>
    BY DEF Program
  <1> HIDE DEF l, c
  <1>3. LogicalToPhysical(l, slot) \in Physical
    BY <1>1, PagesApart
  <1>4. l = 0 => c.value \in 1 .. MaxSeq
    BY <1>1, RotationsAssumption DEF Headers, Header
  <1>5. RotationTypeOK'
    <2>1. flash' \in [Physical -> Contents] /\ confirmed' \in [Logical -> Contents \cup {Unknown}]
      BY <1>1, <1>2 DEF RotationTypeOK
    <2>2. tries' \in Nat /\ committed' \in 0 .. MaxSeq
      BY <1>1, <1>2, <1>4, RotationsAssumption DEF RotationTypeOK
    <2>3. QED
      BY <1>1, <1>2, <2>1, <2>2 DEF RotationTypeOK, Slots, Logical, Block
  <1>6. InWrite'
    BY <1>1, <1>2 DEF InWrite
  <1>7. Behind'
    <2>1. CASE l = 0
      <3>1. flash'[slot] = c /\ slot = After(slot, 0) /\ c \in Headers
        BY SMTT(20), <1>1, <1>2, <1>3, <2>1, RotationFacts DEF LogicalToPhysical, RotationTypeOK, After
      <3>2. Good(slot)' /\ slot' = After(slot, tries')
        <4>1. committed' = c.value /\ slot' = slot /\ tries' = 0 /\ c.value \in Nat
          BY <1>2, <1>4, <2>1
        <4>2. QED
          BY <3>1, <4>1 DEF Good, Valid
      <3>3. QED
        BY <1>1, <1>2, <3>2 DEF Behind, Slots, After
    <2>2. CASE l # 0
      <3>1. SUFFICES ASSUME committed > 0, tries < rotation
                     PROVE  \E s \in Slots : Good(s)' /\ slot = After(s, tries)
        BY <1>2, <2>2 DEF Behind, Slots, After
      <3>2. committed' = committed
        BY <1>2, <2>2
      <3>3. QED
        BY <1>1, <1>2, <2>2, <3>1, <3>2, GoodAfterSpoil
    <2>3. QED
      BY <2>1, <2>2
  <1>8. Round'
    BY <1>1, <1>2 DEF Round, Slots
  <1>9. WrittenPagesKept'
    BY <1>1, <1>2, OnePageChanged
  <1>10. QED
    BY <1>5, <1>6, <1>7, <1>8, <1>9 DEF RotationInv

\* The program step fails: the header that was erased for it was not the committed one.
LEMMA ProgramFailsKeeps == ASSUME RotationInv, ProgramFails PROVE RotationInv'
  <1> DEFINE l == Head(todo)[1]
  <1>1. /\ RotationTypeOK /\ Behind /\ Round /\ WrittenPagesKept /\ todo # <<>> /\ erased
        /\ l \in Logical /\ up /\ Head(todo)[2] \in Contents /\ slot \in Slots
        /\ (l = 0 => tries > 0) /\ confirmed[l] = Unknown
    BY HeadOfTodo DEF RotationInv, InWrite, ProgramFails, RotationTypeOK
  <1>2. PICK c \in Contents : flash' = [flash EXCEPT ![LogicalToPhysical(l, slot)] = c]
    BY <1>1 DEF ProgramFails, Contents
  <1>3. /\ todo' = <<>> /\ erased' = FALSE /\ flashFaults' \in 0 .. MaxFlashFaults
        /\ UNCHANGED <<rotation, slot, up, seq, committed, confirmed, tries, wear, crashes>>
    BY <1>1, RotationsAssumption DEF ProgramFails, RotationTypeOK
  <1> HIDE DEF l
  <1>4. RotationTypeOK'
    <2>1. flash' \in [Physical -> Contents] /\ todo' \in Seq(Block)'
      BY <1>1, <1>2, <1>3, EmptySeq DEF RotationTypeOK
    <2>2. QED
      BY <1>1, <1>3, <2>1 DEF RotationTypeOK, Slots, Logical, Block
  <1>5. InWrite'
    BY <1>3 DEF InWrite
  <1>6. Behind'
    <2>1. SUFFICES ASSUME committed > 0, tries < rotation
                   PROVE  \E s \in Slots : Good(s)' /\ slot = After(s, tries)
      BY <1>3 DEF Behind, Slots, After
    <2>2. QED
      BY <1>1, <1>2, <1>3, <2>1, GoodAfterSpoil
  <1>7. Round'
    BY <1>1, <1>3 DEF Round, Slots
  <1>8. WrittenPagesKept'
    BY <1>1, <1>2, <1>3, OnePageChanged
  <1>9. QED
    BY <1>4, <1>5, <1>6, <1>7, <1>8 DEF RotationInv

\* A power cut costs at most the page that was being changed.
LEMMA CrashKeeps == ASSUME RotationInv, Crash PROVE RotationInv'
  <1> DEFINE l == Head(todo)[1]
             t == IF erased THEN slot ELSE SlotFor(l)
  <1>1. /\ RotationTypeOK /\ Behind /\ WrittenPagesKept /\ up /\ slot \in Slots /\ 0 \in Slots
        /\ tries \in Nat /\ rotation \in 1 .. 8
    BY SMTT(20), RotationFacts DEF RotationInv, Crash, RotationTypeOK, Slots
  <1>2. /\ up' = FALSE /\ todo' = <<>> /\ erased' = FALSE /\ slot' = 0
        /\ crashes' = crashes + 1 /\ crashes' \in 0 .. MaxCrashes /\ crashes' # 0
        /\ UNCHANGED <<rotation, seq, committed, wear, flashFaults>>
    BY <1>1, RotationsAssumption DEF Crash, RotationTypeOK
  <1>3. todo' \in Seq(Block) /\ Slots' = Slots /\ Logical' = Logical /\ Block' = Block
    BY <1>2, EmptySeq DEF Slots, Logical, Block
  <1>4. InWrite' /\ Round'
    BY <1>2 DEF InWrite, Round
  <1>5. CASE UNCHANGED <<flash, confirmed, tries>>
    <2>1. RotationTypeOK'
      BY <1>1, <1>2, <1>3, <1>5 DEF RotationTypeOK
    <2>2. Behind'
      BY <1>1, <1>2, <1>5 DEF Behind, Good, Valid, Slots
    <2>3. WrittenPagesKept'
      BY <1>1, <1>2, <1>5 DEF WrittenPagesKept, Logical, LogicalToPhysical
    <2>4. QED
      BY <1>4, <2>1, <2>2, <2>3 DEF RotationInv
  <1>6. CASE ~UNCHANGED <<flash, confirmed, tries>>
    <2>1. /\ todo # <<>> /\ confirmed' = [confirmed EXCEPT ![l] = Unknown]
          /\ tries' = IF l = 0 /\ ~erased THEN tries + 1 ELSE tries
      BY <1>6 DEF Crash
    <2>2. l \in Logical /\ Head(todo)[2] \in Contents /\ (l = 0 /\ erased => tries > 0)
      BY <1>1, <2>1, HeadOfTodo DEF RotationInv, InWrite
    <2>3. t \in Slots /\ LogicalToPhysical(l, t) \in Physical
      BY <1>1, <2>2, SlotForType, PagesApart
    <2>4. PICK c \in Contents : flash' = [flash EXCEPT ![LogicalToPhysical(l, t)] = c]
      BY <1>1, <1>6, <2>2, <2>3 DEF Crash, Spoilt, Contents, RotationTypeOK
    <2>5. erased \in BOOLEAN
      BY <1>1 DEF RotationTypeOK
    <2>6. RotationTypeOK'
      <3>1. flash' \in [Physical -> Contents] /\ confirmed' \in [Logical -> Contents \cup {Unknown}]
        BY <1>1, <2>1, <2>4 DEF RotationTypeOK
      <3>2. tries' = tries + 1 \/ tries' = tries
        BY <2>1
      <3>3. tries' \in Nat
        BY <1>1, <3>2
      <3>4. QED
        BY <1>1, <1>2, <1>3, <3>1, <3>3 DEF RotationTypeOK
    <2>7. Behind'
      <3>1. SUFFICES ASSUME committed > 0, tries' < rotation
                     PROVE  \E s \in Slots : Good(s)'
        BY <1>2 DEF Behind, Slots
      <3>2. CASE erased
        <4>1. flash' = [flash EXCEPT ![LogicalToPhysical(l, slot)] = c] /\ tries' = tries
          BY <2>1, <2>4, <3>2
        <4>2. QED
          BY <1>1, <1>2, <2>2, <3>1, <3>2, <4>1, GoodAfterSpoil
      <3>3. CASE ~erased
        <4>1. /\ flash' = [flash EXCEPT ![LogicalToPhysical(l, SlotFor(l))] = c]
              /\ tries' = IF l = 0 THEN tries + 1 ELSE tries
          BY <2>1, <2>4, <3>3
        <4>2. QED
          BY <1>1, <1>2, <2>2, <3>1, <4>1, GoodAfterBegin
      <3>4. QED
        BY <3>2, <3>3
    <2>8. WrittenPagesKept'
      BY <1>1, <1>2, <2>1, <2>2, <2>3, <2>4, OnePageChanged
    <2>9. QED
      BY <1>4, <2>6, <2>7, <2>8 DEF RotationInv
  <1>7. QED
    BY <1>5, <1>6

\* The scan takes what it finds for committed.
LEMMA ScanKeeps == ASSUME RotationInv, Scan PROVE RotationInv'
  <1>1. /\ RotationTypeOK /\ WrittenPagesKept /\ ~up /\ todo = <<>> /\ ~erased
        /\ rotation \in 1 .. 8 /\ rotation < FlashPages /\ FlashPages \in Nat /\ crashes # 0
    BY RotationFacts DEF RotationInv, InWrite, Scan, RotationTypeOK, Round
  <1>2. PICK s \in Slots :
          /\ Best(s) /\ slot' = s
          /\ confirmed' = [confirmed EXCEPT ![0] = IF Valid(s) THEN flash[s] ELSE Unknown]
          /\ seq' = IF Valid(s) THEN flash[s].value ELSE 0
          /\ committed' = seq'
    BY DEF Scan
  <1>3. up' = TRUE /\ tries' = 0 /\ UNCHANGED <<rotation, flash, todo, erased, wear, flashFaults, crashes>>
    BY DEF Scan
  <1>4. s \in Physical /\ s \in 0 .. rotation - 1 /\ 0 \in Logical
    BY <1>1 DEF Slots, Physical, Logical
  <1>5. Valid(s) => flash[s].value \in 1 .. MaxSeq /\ flash[s] \in Contents
    BY RotationsAssumption DEF Valid, Headers, Header, Contents
  <1>6. seq' \in 0 .. MaxSeq /\ confirmed' \in [Logical -> Contents \cup {Unknown}]
    <2>0. /\ confirmed \in [Logical -> Contents \cup {Unknown}]
          /\ MaxSeq \in Nat /\ 1 .. MaxSeq \subseteq 0 .. MaxSeq /\ 0 \in 0 .. MaxSeq
      BY <1>1, RotationsAssumption DEF RotationTypeOK
    <2>1. CASE Valid(s)
      <3>1. seq' = flash[s].value /\ confirmed' = [confirmed EXCEPT ![0] = flash[s]]
        BY <1>2, <2>1
      <3>2. QED
        BY <1>5, <2>0, <2>1, <3>1
    <2>2. CASE ~Valid(s)
      <3>1. seq' = 0 /\ confirmed' = [confirmed EXCEPT ![0] = Unknown]
        BY <1>2, <2>2
      <3>2. QED
        BY <2>0, <3>1
    <2>3. QED
      BY <2>1, <2>2
  <1>7. RotationTypeOK'
    BY <1>1, <1>2, <1>3, <1>6 DEF RotationTypeOK, Slots, Logical, Block
  <1>8. InWrite' /\ Round'
    BY <1>1, <1>3 DEF InWrite, Round
  <1>9. Behind'
    <2>1. SUFFICES ASSUME committed' > 0 PROVE Good(s)' /\ slot' = After(s, tries')
      BY <1>3 DEF Behind, Slots, After
    <2>2. Valid(s) /\ committed' = flash[s].value /\ flash[s].value \in 1 .. MaxSeq
      BY <1>2, <1>5, <2>1
    <2>3. slot' = s /\ tries' = 0
      BY <1>2, <1>3
    <2>4. s = After(s, 0)
      BY <1>1, <1>4 DEF After
    <2>5. slot' = After(s, tries')
      BY <2>3, <2>4
    <2>6. Good(s)'
      BY <1>3, <2>2, RotationsAssumption DEF Good, Valid
    <2>7. QED
      BY <2>5, <2>6
  <1>10. WrittenPagesKept'
    <2>1. SUFFICES ASSUME NEW k \in Logical, confirmed'[k] # Unknown
                   PROVE  flash[LogicalToPhysical(k, s)] = confirmed'[k]
      BY <1>2, <1>3 DEF WrittenPagesKept, Logical, LogicalToPhysical
    <2>2. CASE k = 0
      BY <1>1, <1>2, <1>4, <2>1, <2>2 DEF LogicalToPhysical, RotationTypeOK
    <2>3. CASE k # 0
      <3>1. confirmed'[k] = confirmed[k]
        BY <1>1, <1>2, <2>3 DEF RotationTypeOK
      <3>2. flash[LogicalToPhysical(k, slot)] = confirmed[k]
        BY <1>1, <2>1, <2>3, <3>1 DEF WrittenPagesKept
      <3>3. QED
        BY <2>3, <3>1, <3>2 DEF LogicalToPhysical
    <2>4. QED
      BY <2>2, <2>3
  <1>11. QED
    BY <1>7, <1>8, <1>9, <1>10 DEF RotationInv

\* Every step keeps the invariant.
LEMMA NextRotation == RotationInv /\ [RotationNext]_rotationVars => RotationInv'
  <1> SUFFICES ASSUME RotationInv, [RotationNext]_rotationVars PROVE RotationInv'
    OBVIOUS
  <1>1. ASSUME NEW fst \in 0 .. FlashPages - 1, NEW n \in 1 .. 2, NEW contents \in [1 .. n -> Data],
               WriteBlocks(fst, contents)
        PROVE  RotationInv'
    BY <1>1, WriteKeeps
  <1>2. CASE Erase
    <2>1. Erased \in Contents /\ flashFaults \in 0 .. MaxFlashFaults
      BY DEF Contents, RotationInv, RotationTypeOK
    <2>2. QED
      BY <1>2, <2>1, EraseKeeps DEF Erase
  <1>3. CASE EraseFails
    <2> DEFINE l == Head(todo)[1]
    <2>1. l \in Logical /\ SlotFor(l) \in Slots
      BY <1>3, HeadOfTodo, SlotForType DEF EraseFails, RotationInv
    <2>2. LogicalToPhysical(l, SlotFor(l)) \in Physical
      BY <2>1, PagesApart DEF RotationInv
    <2>3. PICK c \in Contents : flash' = [flash EXCEPT ![LogicalToPhysical(l, SlotFor(l))] = c]
      BY <1>3, <2>2 DEF EraseFails, Spoilt, RotationInv, RotationTypeOK, Contents
    <2>4. flashFaults' \in 0 .. MaxFlashFaults
      BY <1>3, RotationsAssumption DEF EraseFails, RotationInv, RotationTypeOK
    <2>5. erased = FALSE
      BY <1>3 DEF EraseFails, RotationInv, RotationTypeOK
    <2>6. QED
      BY <1>3, <2>3, <2>4, <2>5, EraseKeeps DEF EraseFails
  <1>4. CASE Program
    BY <1>4, ProgramKeeps
  <1>5. CASE ProgramFails
    BY <1>5, ProgramFailsKeeps
  <1>6. CASE Crash
    BY <1>6, CrashKeeps
  <1>7. CASE Scan
    BY <1>7, ScanKeeps
  <1>8. CASE UNCHANGED rotationVars
    BY <1>8 DEF rotationVars, RotationInv, RotationTypeOK, InWrite, Behind, WrittenPagesKept, Round, Good, Valid, After,
                Slots, Logical, Block, LogicalToPhysical
  <1>9. QED
    BY <1>1, <1>2, <1>3, <1>4, <1>5, <1>6, <1>7, <1>8 DEF RotationNext

\* The invariant says at least what the properties say.
LEMMA RotationInvSays == RotationInv => HeaderSurvives /\ EvenWear
  <1> SUFFICES ASSUME RotationInv PROVE HeaderSurvives /\ EvenWear
    OBVIOUS
  <1>1. HeaderSurvives
    <2>1. SUFFICES ASSUME committed > 0, tries < rotation PROVE \E s \in Slots : Good(s)
      BY DEF HeaderSurvives, Good
    <2>2. QED
      BY <2>1 DEF RotationInv, Behind
  <1>2. ASSUME crashes = 0, NEW s \in Slots, NEW t \in Slots PROVE wear[s] <= wear[t] + 1
    <2>1. wear[s] \in Nat /\ wear[t] \in Nat /\ wear[0] \in Nat
      <3>1. RotationTypeOK /\ wear \in [Slots -> Nat]
        BY DEF RotationInv, RotationTypeOK
      <3>2. 0 \in Slots
        BY <3>1, RotationFacts DEF Slots
      <3>3. QED
        BY <3>1, <3>2
    <2>2. /\ wear[s] = wear[0] + (IF s \in 1 .. slot THEN 1 ELSE 0)
          /\ wear[t] = wear[0] + (IF t \in 1 .. slot THEN 1 ELSE 0)
      BY <1>2 DEF RotationInv, Round
    <2>3. QED
      BY <2>1, <2>2
  <1>3. QED
    BY <1>1, <1>2 DEF EvenWear

-----------------------------------------------------------------------------
\* What holds initially and is kept by every step holds always.
LEMMA RotationInvariant == RotationSpec => []RotationInv
  BY InitRotation, NextRotation, PTL DEF RotationSpec

\* Page 0 only ever holds headers, current_slot is a header slot, and every block of a call
\* is a page of the device (HeaderRotatingDevice::write, logical_to_physical).
THEOREM RotationTypes == RotationSpec => []RotationTypeOK
  <1>1. RotationInv => RotationTypeOK
    BY DEF RotationInv
  <1>2. QED
    BY <1>1, RotationInvariant, PTL

\* Whatever fails and whenever the power goes, the last committed header or a later one is in
\* some slot, as long as fewer header writes were begun since than there are slots.
THEOREM HeaderKept == RotationSpec => []HeaderSurvives
  <1>1. RotationInv => HeaderSurvives
    BY RotationInvSays
  <1>2. QED
    BY <1>1, RotationInvariant, PTL

\* A page whose last write returned Ok reads back as written, whatever happens to the header
\* and to the other pages.
THEOREM PagesKept == RotationSpec => []WrittenPagesKept
  <1>1. RotationInv => WrittenPagesKept
    BY DEF RotationInv
  <1>2. QED
    BY <1>1, RotationInvariant, PTL

\* Until power is first lost the header slots wear evenly, however many of the writes fail.
THEOREM WearIsEven == RotationSpec => []EvenWear
  <1>1. RotationInv => EvenWear
    BY RotationInvSays
  <1>2. QED
    BY <1>1, RotationInvariant, PTL

-----------------------------------------------------------------------------
(* Page streams.                                                           *)

Disk == [0 .. Size - 1 -> Byte]
RealPage == [number : Numbers, data : [1 .. PageSize -> Byte], dirty : BOOLEAN]
SomePage == {NoPage} \cup RealPage

-----------------------------------------------------------------------------
(* Lemmas about numbers: where a byte falls.                               *)

LEMMA Division ==
  ASSUME NEW p \in Nat \ {0}, NEW b \in Nat
  PROVE  /\ b \div p \in Nat /\ b % p \in 0 .. p - 1
         /\ b = (b \div p) * p + (b % p)
  OBVIOUS

LEMMA TimesMonotone ==
  ASSUME NEW p \in Nat, NEW m \in Int, NEW n \in Int, m <= n
  PROVE  m * p <= n * p
  <1>1. (n - m) * p >= 0
    BY SMT
  <1>2. (n - m) * p = n * p - m * p
    BY SMT
  <1>3. m * p \in Int /\ n * p \in Int
    BY SMT
  <1>4. QED
    BY <1>1, <1>2, <1>3, SMT

LEMMA Quotient ==
  ASSUME NEW p \in Nat \ {0}, NEW b \in Nat, NEW n \in Nat
  PROVE  /\ b \div p = n <=> n * p <= b /\ b < n * p + p
         /\ b \div p = n => b % p = b - n * p
  <1> DEFINE q == b \div p
             r == b % p
  <1>1. q \in Nat /\ r \in 0 .. p - 1 /\ b = q * p + r
    BY Division
  <1>2. q * p \in Nat /\ n * p \in Nat /\ (q + 1) * p = q * p + p /\ (n + 1) * p = n * p + p
    BY <1>1, SMT
  <1> HIDE DEF q, r
  <1>3. ASSUME q < n PROVE ~(n * p <= b)
    <2>1. (q + 1) * p <= n * p
      BY <1>1, <1>3, TimesMonotone
    <2>2. QED
      BY <2>1, <1>1, <1>2
  <1>4. ASSUME n < q PROVE ~(b < n * p + p)
    <2>1. (n + 1) * p <= q * p
      BY <1>1, <1>4, TimesMonotone
    <2>2. QED
      BY <2>1, <1>1, <1>2
  <1>5. q = n => n * p <= b /\ b < n * p + p /\ r = b - n * p
    BY <1>1, <1>2
  <1>6. QED
    BY <1>1, <1>3, <1>4, <1>5 DEF q, r

LEMMA SizesAreNumbers ==
  ASSUME SizesAssumption
  PROVE  /\ PageSize \in Nat \ {0} /\ Size \in Nat /\ StreamPage \in Nat \ {0}
         /\ PageSize = PageBlocks * BlockSize /\ Size = Pages * PageSize
         /\ PageBlocks \in Nat \ {0} /\ BlockSize \in Nat \ {0} /\ Pages \in Nat \ {0}
         /\ 0 \in Byte
  <1>1. PageSize \in Nat \ {0}
    BY SMT DEF SizesAssumption, PageSize
  <1>2. Size \in Nat /\ PageSize * BlockSize \in Nat \ {0}
    BY <1>1, SMT DEF SizesAssumption, Size
  <1>3. QED
    BY <1>1, <1>2 DEF SizesAssumption, PageSize, Size, StreamPage

\* A page of the device lies inside it.
LEMMA PageInside ==
  ASSUME SizesAssumption, NEW n \in Numbers
  PROVE  FirstByte(n) \in Nat /\ FirstByte(n) + PageSize <= Size
  <1>1. n \in Nat /\ n + 1 <= Pages
    BY DEF SizesAssumption, Numbers
  <1>2. (n + 1) * PageSize <= Pages * PageSize
    BY <1>1, SizesAreNumbers, TimesMonotone
  <1>3. (n + 1) * PageSize = n * PageSize + PageSize /\ n * PageSize \in Nat
    BY <1>1, SizesAreNumbers, SMT
  <1>4. QED
    BY <1>2, <1>3, SizesAreNumbers DEF FirstByte

\* The bytes of page n.
LEMMA ByteOfPage ==
  ASSUME SizesAssumption, NEW b \in Nat, NEW n \in Nat
  PROVE  /\ b \div PageSize \in Nat /\ b % PageSize \in 0 .. PageSize - 1
         /\ b \div PageSize = n <=> FirstByte(n) <= b /\ b < FirstByte(n) + PageSize
         /\ b \div PageSize = n => b % PageSize = b - FirstByte(n)
         /\ FirstByte(n) \in Nat
  <1>1. n * PageSize \in Nat
    BY SizesAreNumbers, SMT
  <1>2. QED
    BY <1>1, SizesAreNumbers, Division, Quotient DEF FirstByte

\* A byte of the device is in one of its pages.
LEMMA PageOfByte ==
  ASSUME SizesAssumption, NEW b \in 0 .. Size - 1
  PROVE  b \div PageSize \in Numbers
  <1>1. b \in Nat /\ b < Size /\ Size \in Nat /\ PageSize \in Nat \ {0} /\ Pages \in Nat
    BY SizesAreNumbers
  <1> DEFINE q == b \div PageSize
  <1>2. q \in Nat /\ FirstByte(q) <= b /\ FirstByte(q) \in Nat
    BY <1>1, ByteOfPage
  <1> HIDE DEF q
  <1>3. ASSUME Pages <= q PROVE FALSE
    <2>1. Pages * PageSize <= q * PageSize
      BY <1>1, <1>2, <1>3, TimesMonotone
    <2>2. QED
      BY <2>1, <1>1, <1>2, SizesAreNumbers DEF FirstByte
  <1>4. q \in 0 .. Pages - 1
    BY <1>1, <1>2, <1>3
  <1>5. QED
    BY <1>4 DEF q, Numbers

-----------------------------------------------------------------------------
(***************************************************************************)
(* What a reader sees, as an operator of the page and the device.          *)
(***************************************************************************)
PageOn(d, n) == [i \in 1 .. PageSize |-> d[FirstByte(n) + i - 1]]
Seen(p, d) == [b \in 0 .. Size - 1 |->
                 IF p.number = b \div PageSize THEN p.data[(b % PageSize) + 1] ELSE d[b]]
Over(d, first, data, count) ==
  [b \in 0 .. Size - 1 |->
     IF b \in first .. first + count * BlockSize - 1
     THEN IF b - first < Len(data) THEN data[b - first + 1] ELSE 0
     ELSE d[b]]

LEMMA AsOperators ==
  /\ \A n : OnDisk(n) = PageOn(disk, n)
  /\ View = Seen(page, disk)
  /\ \A first, data, count : Written(first, data, count) = Over(disk, first, data, count)
  BY DEF OnDisk, PageOn, View, Seen, Written, Over

LEMMA AsOperatorsNext == View' = Seen(page', disk')
  BY DEF View, Seen

LEMMA NoPageFields ==
  NoPage.number = -1 /\ NoPage.dirty = FALSE /\ \A p \in RealPage : p # NoPage
  <1>1. NoPage.number = -1 /\ NoPage.dirty = FALSE
    BY DEF NoPage
  <1>2. \A p \in RealPage : p.number # -1
    BY DEF RealPage, Numbers
  <1>3. QED
    BY <1>1, <1>2

\* A byte of the device: seen in the page it is of, or on the device.
LEMMA ByteSeen ==
  ASSUME SizesAssumption, NEW p \in RealPage, NEW d \in Disk, NEW b \in 0 .. Size - 1
  PROVE  /\ p.number = b \div PageSize <=> b \in FirstByte(p.number) .. FirstByte(p.number) + PageSize - 1
         /\ p.number = b \div PageSize =>
              /\ b - FirstByte(p.number) + 1 \in 1 .. PageSize
              /\ Seen(p, d)[b] = p.data[b - FirstByte(p.number) + 1]
              /\ p.data[b - FirstByte(p.number) + 1] \in Byte
         /\ p.number # b \div PageSize => Seen(p, d)[b] = d[b]
  <1>1. /\ b \in Nat /\ p.number \in Nat /\ p.data \in [1 .. PageSize -> Byte]
        /\ Size \in Nat /\ PageSize \in Nat
    BY SizesAreNumbers DEF RealPage, Numbers
  <1>2. Seen(p, d)[b] = IF p.number = b \div PageSize THEN p.data[(b % PageSize) + 1] ELSE d[b]
    BY DEF Seen
  <1>3. FirstByte(p.number) \in Nat
        /\ (b \div PageSize = p.number <=> FirstByte(p.number) <= b /\ b < FirstByte(p.number) + PageSize)
        /\ (b \div PageSize = p.number => b % PageSize = b - FirstByte(p.number))
    BY <1>1, ByteOfPage
  <1>4. QED
    BY <1>1, <1>2, <1>3

LEMMA SeenType ==
  ASSUME SizesAssumption, NEW p \in SomePage, NEW d \in Disk
  PROVE  Seen(p, d) \in Disk /\ Seen(NoPage, d) = d
  <1>1. ASSUME NEW b \in 0 .. Size - 1 PROVE -1 # b \div PageSize
    BY SizesAreNumbers, PageOfByte DEF Numbers
  <1>2. Seen(NoPage, d) = d
    BY <1>1, NoPageFields DEF Seen, Disk
  <1>3. ASSUME p \in RealPage PROVE Seen(p, d) \in Disk
    <2>1. ASSUME NEW b \in 0 .. Size - 1 PROVE Seen(p, d)[b] \in Byte
      <3>1. d[b] \in Byte
        BY DEF Disk
      <3>2. CASE p.number = b \div PageSize
        BY <1>3, <3>2, ByteSeen
      <3>3. CASE p.number # b \div PageSize
        BY <1>3, <3>1, <3>3, ByteSeen
      <3>4. QED
        BY <3>2, <3>3
    <2>2. QED
      BY <2>1 DEF Seen, Disk
  <1>4. QED
    BY <1>2, <1>3 DEF SomePage

\* Only the number and the bytes of a page are seen.
LEMMA SeenSame ==
  ASSUME NEW p, NEW q, p.number = q.number, p.data = q.data, NEW d
  PROVE  Seen(p, d) = Seen(q, d)
  BY DEF Seen

LEMMA Clean ==
  ASSUME SizesAssumption, NEW p \in RealPage, NEW d \in Disk
  PROVE  p.data = PageOn(d, p.number) <=> Seen(p, d) = d
  <1>1. p.data \in [1 .. PageSize -> Byte] /\ p.number \in Numbers /\ Size \in Nat /\ PageSize \in Nat
    BY SizesAreNumbers DEF RealPage
  <1>2. FirstByte(p.number) \in Nat /\ FirstByte(p.number) + PageSize <= Size
    BY <1>1, PageInside
  <1>3. ASSUME p.data = PageOn(d, p.number) PROVE Seen(p, d) = d
    <2>1. ASSUME NEW b \in 0 .. Size - 1 PROVE Seen(p, d)[b] = d[b]
      <3>1. CASE p.number = b \div PageSize
        <4> DEFINE i == b - FirstByte(p.number) + 1
        <4>1. i \in 1 .. PageSize /\ Seen(p, d)[b] = p.data[i]
          BY <3>1, ByteSeen
        <4>2. p.data[i] = d[FirstByte(p.number) + i - 1]
          BY <1>3, <4>1 DEF PageOn
        <4>3. FirstByte(p.number) + i - 1 = b
          BY <1>1, <1>2
        <4>4. QED
          BY <4>1, <4>2, <4>3
      <3>2. CASE p.number # b \div PageSize
        BY <3>2, ByteSeen
      <3>3. QED
        BY <3>1, <3>2
    <2>2. QED
      BY <2>1 DEF Seen, Disk
  <1>4. ASSUME Seen(p, d) = d PROVE p.data = PageOn(d, p.number)
    <2>1. ASSUME NEW i \in 1 .. PageSize PROVE p.data[i] = d[FirstByte(p.number) + i - 1]
      <3> DEFINE b == FirstByte(p.number) + i - 1
      <3>1. b \in 0 .. Size - 1 /\ b \in FirstByte(p.number) .. FirstByte(p.number) + PageSize - 1
            /\ b - FirstByte(p.number) + 1 = i
        BY <1>1, <1>2
      <3> HIDE DEF b
      <3>2. Seen(p, d)[b] = p.data[b - FirstByte(p.number) + 1]
        BY <3>1, ByteSeen
      <3>3. QED
        BY <1>4, <3>1, <3>2 DEF b
    <2>2. QED
      BY <1>1, <2>1 DEF PageOn
  <1>5. QED
    BY <1>3, <1>4

-----------------------------------------------------------------------------
(* What the calls do with the page and the device.                         *)

LEMMA SameBytes ==
  ASSUME NEW d \in Disk, NEW e \in Disk, \A b \in 0 .. Size - 1 : d[b] = e[b]
  PROVE  d = e
  <1> DEFINE S == 0 .. Size - 1
  <1>1. d \in [S -> Byte] /\ e \in [S -> Byte] /\ \A b \in S : d[b] = e[b]
    BY DEF Disk
  <1> HIDE DEF S
  <1>2. QED
    BY <1>1

LEMMA IsSequence ==
  ASSUME NEW S, NEW n \in Nat, NEW f \in [1 .. n -> S]
  PROVE  f \in Seq(S) /\ Len(f) = n
  <1>1. f \in Seq(S)
    OBVIOUS
  <1>2. DOMAIN f = 1 .. n /\ DOMAIN f = 1 .. Len(f) /\ Len(f) \in Nat
    BY <1>1, LenProperties
  <1>3. QED
    BY <1>1, <1>2

LEMMA BlocksOfPage ==
  ASSUME SizesAssumption, NEW count \in 0 .. PageBlocks
  PROVE  count * BlockSize \in 0 .. PageSize /\ (count = PageBlocks => count * BlockSize = PageSize)
  <1>1. count \in Nat /\ count <= PageBlocks /\ count * BlockSize \in Nat
    BY SizesAreNumbers, SMT
  <1>2. count * BlockSize <= PageBlocks * BlockSize
    BY <1>1, SizesAreNumbers, TimesMonotone
  <1>3. QED
    BY <1>1, <1>2, SizesAreNumbers

\* store, of all the blocks of the page or of some: no reader of the page sees
\* a difference, and nothing but bytes of the page reaches the device.
LEMMA StoreSeen ==
  ASSUME SizesAssumption, NEW p \in RealPage, NEW d \in Disk, NEW count \in 0 .. PageBlocks
  PROVE  LET e == Over(d, FirstByte(p.number), p.data, count) IN
           /\ e \in Disk /\ Seen(p, e) = Seen(p, d)
           /\ \A b \in 0 .. Size - 1 : e[b] \in {d[b], Seen(p, d)[b]}
           /\ count = PageBlocks => e = Seen(p, d)
  <1> DEFINE e == Over(d, FirstByte(p.number), p.data, count)
             first == FirstByte(p.number)
             last == first + count * BlockSize - 1
  <1>1. /\ p.data \in [1 .. PageSize -> Byte] /\ Len(p.data) = PageSize /\ first \in Nat
        /\ Size \in Nat /\ PageSize \in Nat
        /\ count * BlockSize \in 0 .. PageSize /\ (count = PageBlocks => count * BlockSize = PageSize)
    BY SizesAreNumbers, PageInside, IsSequence, BlocksOfPage DEF RealPage
  <1>2. ASSUME NEW b \in 0 .. Size - 1
        PROVE  /\ e[b] = IF b \in first .. last THEN Seen(p, d)[b] ELSE d[b]
               /\ b \in first .. last => p.number = b \div PageSize
               /\ count = PageBlocks => (b \in first .. last <=> p.number = b \div PageSize)
    <2>1. e[b] = IF b \in first .. last
                 THEN IF b - first < Len(p.data) THEN p.data[b - first + 1] ELSE 0
                 ELSE d[b]
      BY DEF Over
    <2> HIDE DEF e
    <2>2. /\ p.number = b \div PageSize <=> b \in first .. first + PageSize - 1
          /\ p.number = b \div PageSize => Seen(p, d)[b] = p.data[b - first + 1]
      BY ByteSeen
    <2>3. b \in first .. last => b \in first .. first + PageSize - 1 /\ b - first < PageSize
      BY <1>1
    <2>4. count = PageBlocks => last = first + PageSize - 1
      BY <1>1
    <2> HIDE DEF first, last
    <2>5. QED
      BY <1>1, <2>1, <2>2, <2>3, <2>4
  <1>3. Seen(p, d) \in Disk
    BY SeenType DEF SomePage
  <1>4. ASSUME NEW b \in 0 .. Size - 1 PROVE e[b] \in {d[b], Seen(p, d)[b]} /\ e[b] \in Byte
    BY <1>2, <1>3 DEF Disk
  <1>5. e \in Disk
    BY <1>4 DEF Over, Disk
  <1>6. Seen(p, e) = Seen(p, d)
    <2>1. ASSUME NEW b \in 0 .. Size - 1 PROVE Seen(p, e)[b] = Seen(p, d)[b]
      <3>1. CASE p.number = b \div PageSize
        BY <3>1 DEF Seen
      <3>2. CASE p.number # b \div PageSize
        <4>1. Seen(p, e)[b] = e[b] /\ Seen(p, d)[b] = d[b]
          BY <3>2 DEF Seen
        <4>2. QED
          BY <1>2, <3>2, <4>1
      <3>3. QED
        BY <3>1, <3>2
    <2>2. QED
      BY <2>1 DEF Seen
  <1>7. count = PageBlocks => e = Seen(p, d)
    <2>1. ASSUME count = PageBlocks, NEW b \in 0 .. Size - 1 PROVE e[b] = Seen(p, d)[b]
      <3>1. p.number # b \div PageSize => Seen(p, d)[b] = d[b]
        BY ByteSeen
      <3>2. QED
        BY <1>2, <2>1, <3>1
    <2> DEFINE s == Seen(p, d)
    <2>2. e \in Disk /\ s \in Disk /\ (count = PageBlocks => \A b \in 0 .. Size - 1 : e[b] = s[b])
      BY <1>3, <1>5, <2>1
    <2> HIDE DEF e, s
    <2>3. count = PageBlocks => e = s
      BY <2>2, SameBytes
    <2>4. QED
      BY <2>3 DEF s
  <1>8. QED
    BY <1>4, <1>5, <1>6, <1>7

\* modify, write: the page has the new bytes, and a reader sees them there.
LEMMA ChangedPage ==
  ASSUME SizesAssumption, NEW p \in RealPage, NEW offset \in Nat, NEW new \in Seq(Byte)
  PROVE  /\ Changed(p, offset, new) \in RealPage /\ Changed(p, offset, new).dirty
         /\ Changed(p, offset, new).number = p.number
         /\ \A i \in 1 .. PageSize : Changed(p, offset, new).data[i] =
              IF i \in offset + 1 .. offset + Len(new) THEN new[i - offset] ELSE p.data[i]
  <1> DEFINE q == [i \in 1 .. PageSize |-> IF i \in offset + 1 .. offset + Len(new)
                                          THEN new[i - offset] ELSE p.data[i]]
  <1>1. q \in [1 .. PageSize -> Byte]
    <2>1. ASSUME NEW i \in 1 .. PageSize, i \in offset + 1 .. offset + Len(new)
          PROVE  new[i - offset] \in Byte
      <3>1. Len(new) \in Nat /\ i - offset \in 1 .. Len(new)
        BY <2>1, LenProperties
      <3>2. QED
        BY <3>1, ElementOfSeq
    <2>2. QED
      BY <2>1 DEF RealPage
  <1>2. Changed(p, offset, new) = [p EXCEPT !.data = q, !.dirty = TRUE]
    BY DEF Changed
  <1> HIDE DEF q
  <1>3. /\ Changed(p, offset, new) \in RealPage /\ Changed(p, offset, new).dirty
        /\ Changed(p, offset, new).number = p.number /\ Changed(p, offset, new).data = q
    BY <1>1, <1>2 DEF RealPage
  <1>4. QED
    BY <1>3 DEF q

LEMMA ChangedSeen ==
  ASSUME SizesAssumption, NEW p \in RealPage, NEW d \in Disk, NEW offset \in Nat, NEW new \in Seq(Byte),
         new = <<>> \/ offset + Len(new) <= PageSize
  PROVE  LET at == FirstByte(p.number) + offset IN
         Seen(Changed(p, offset, new), d) =
           [b \in 0 .. Size - 1 |-> IF b \in at .. at + Len(new) - 1 THEN new[b - at + 1] ELSE Seen(p, d)[b]]
  <1> DEFINE q == Changed(p, offset, new)
             first == FirstByte(p.number)
             at == first + offset
  <1>1. /\ q \in RealPage /\ q.number = p.number
        /\ \A i \in 1 .. PageSize : q.data[i] =
              IF i \in offset + 1 .. offset + Len(new) THEN new[i - offset] ELSE p.data[i]
    BY ChangedPage
  <1>2. first \in Nat /\ PageSize \in Nat /\ Size \in Nat /\ Len(new) \in Nat /\ (new = <<>> => Len(new) = 0)
    BY PageInside, SizesAreNumbers, LenProperties DEF RealPage
  <1> HIDE DEF q
  <1>3. ASSUME NEW b \in 0 .. Size - 1
        PROVE  Seen(q, d)[b] = IF b \in at .. at + Len(new) - 1 THEN new[b - at + 1] ELSE Seen(p, d)[b]
    <2>1. /\ p.number = b \div PageSize <=> b \in first .. first + PageSize - 1
          /\ p.number = b \div PageSize => /\ b - first + 1 \in 1 .. PageSize
                                           /\ Seen(p, d)[b] = p.data[b - first + 1]
                                           /\ Seen(q, d)[b] = q.data[b - first + 1]
          /\ p.number # b \div PageSize => Seen(q, d)[b] = d[b] /\ Seen(p, d)[b] = d[b]
      BY <1>1, ByteSeen
    <2>2. b \in at .. at + Len(new) - 1 => b \in first .. first + PageSize - 1
      BY <1>2
    <2>3. /\ b \in at .. at + Len(new) - 1 <=> b - first + 1 \in offset + 1 .. offset + Len(new)
          /\ (b - first + 1) - offset = b - at + 1
      BY <1>2
    <2> HIDE DEF at, first
    <2>4. CASE p.number = b \div PageSize
      <3> DEFINE i == b - first + 1
      <3>1. /\ i \in 1 .. PageSize /\ Seen(p, d)[b] = p.data[i] /\ Seen(q, d)[b] = q.data[i]
            /\ b \in at .. at + Len(new) - 1 <=> i \in offset + 1 .. offset + Len(new)
        BY <2>1, <2>3, <2>4
      <3>0. i - offset = b - at + 1
        BY <2>3
      <3> HIDE DEF i
      <3>2. q.data[i] = IF i \in offset + 1 .. offset + Len(new) THEN new[i - offset] ELSE p.data[i]
        BY <1>1, <3>1
      <3>3. QED
        BY <3>0, <3>1, <3>2
    <2>5. CASE p.number # b \div PageSize
      BY <2>1, <2>2, <2>5
    <2>6. QED
      BY <2>4, <2>5
  <1>4. QED
    BY <1>3 DEF Seen, q

\* The blocks of a direct write lie in the pages it names, and fill them when
\* the data does.
LEMMA BlocksOfWrite ==
  ASSUME SizesAssumption, NEW count \in Nat, NEW len \in Nat, len <= count * PageSize
  PROVE  LET blocks == (len + BlockSize - 1) \div BlockSize IN
           /\ blocks \in Nat /\ blocks * BlockSize <= count * PageSize
           /\ len = count * PageSize => blocks * BlockSize = len
  <1> DEFINE all == count * PageBlocks
             n == len + BlockSize - 1
             blocks == n \div BlockSize
  <1>1. /\ all \in Nat /\ all * BlockSize = count * PageSize /\ BlockSize \in Nat \ {0}
        /\ all * BlockSize \in Nat /\ (all + 1) * BlockSize = all * BlockSize + BlockSize
    BY SizesAreNumbers, SMT
  <1>2. n \in Nat /\ n = len + BlockSize - 1
    BY <1>1
  <1>3. /\ blocks \in Nat /\ blocks * BlockSize <= n /\ blocks * BlockSize \in Nat
        /\ blocks = all <=> all * BlockSize <= n /\ n < all * BlockSize + BlockSize
    <2>1. blocks \in Nat /\ n = blocks * BlockSize + (n % BlockSize) /\ n % BlockSize \in 0 .. BlockSize - 1
      BY <1>1, <1>2, Division
    <2>2. blocks = all <=> all * BlockSize <= n /\ n < all * BlockSize + BlockSize
      BY <1>1, <1>2, Quotient
    <2> HIDE DEF blocks, n, all
    <2>3. blocks * BlockSize \in Nat
      BY <1>1, <2>1, SMT
    <2>4. QED
      BY <1>1, <1>2, <2>1, <2>2, <2>3
  <1> HIDE DEF all, n, blocks
  <1>4. blocks <= all
    <2>1. ASSUME all + 1 <= blocks PROVE FALSE
      <3>1. (all + 1) * BlockSize <= blocks * BlockSize
        BY <1>1, <1>3, <2>1, TimesMonotone
      <3>2. QED
        BY <3>1, <1>1, <1>2, <1>3
    <2>2. QED
      BY <2>1, <1>1, <1>3
  <1>5. blocks * BlockSize <= all * BlockSize
    BY <1>1, <1>3, <1>4, TimesMonotone
  <1>6. len = count * PageSize => blocks * BlockSize = len
    BY <1>1, <1>2, <1>3
  <1>7. blocks \in Nat /\ blocks * BlockSize <= count * PageSize
    BY <1>1, <1>3, <1>5
  <1>8. QED
    BY <1>6, <1>7 DEF blocks, n

\* The bytes of a run of pages.
LEMMA BytesOfPages ==
  ASSUME SizesAssumption, NEW start \in Nat, NEW count \in Nat, NEW b \in 0 .. Size - 1
  PROVE  /\ FirstByte(start) \in Nat /\ count * PageSize \in Nat
         /\ b \div PageSize \in start .. start + count - 1
              <=> b \in FirstByte(start) .. FirstByte(start) + count * PageSize - 1
  <1> DEFINE q == b \div PageSize
  <1>1. PageSize \in Nat \ {0} /\ Size \in Nat /\ b \in Nat
    BY SizesAreNumbers
  <1>2. q \in Nat /\ FirstByte(q) <= b /\ b < FirstByte(q) + PageSize /\ FirstByte(q) \in Nat
    BY <1>1, ByteOfPage
  <1> HIDE DEF q
  <1>3. /\ FirstByte(q) = q * PageSize /\ FirstByte(start) = start * PageSize
        /\ start * PageSize \in Nat /\ count * PageSize \in Nat
        /\ (q + 1) * PageSize = q * PageSize + PageSize
        /\ (start + count) * PageSize = start * PageSize + count * PageSize
    BY <1>1, <1>2, SMT DEF FirstByte
  <1>4. start <= q => start * PageSize <= q * PageSize
    BY <1>1, <1>2, TimesMonotone
  <1>5. q + 1 <= start => (q + 1) * PageSize <= start * PageSize
    BY <1>1, <1>2, TimesMonotone
  <1>6. q + 1 <= start + count => (q + 1) * PageSize <= (start + count) * PageSize
    BY <1>1, <1>2, TimesMonotone
  <1>7. start + count <= q => (start + count) * PageSize <= q * PageSize
    BY <1>1, <1>2, TimesMonotone
  <1>8. q \in start .. start + count - 1 <=> start <= q /\ q + 1 <= start + count
    BY <1>2
  <1>9. b \in start * PageSize .. start * PageSize + count * PageSize - 1
          <=> start * PageSize <= b /\ b < start * PageSize + count * PageSize
    BY <1>1, <1>3
  <1>10. (start <= q \/ q + 1 <= start) /\ (q + 1 <= start + count \/ start + count <= q)
    BY <1>2
  <1>11. QED
    BY <1>1, <1>2, <1>3, <1>4, <1>5, <1>6, <1>7, <1>8, <1>9, <1>10 DEF q

\* The blocks that write_pages_direct wrote of the pages it names leave the
\* others alone, and all of them are what it was given.
RightlyOver(start, count, data, written, d, e) ==
  /\ e \in Disk
  /\ \A b \in 0 .. Size - 1 : b \div PageSize \notin start .. start + count - 1 => e[b] = d[b]
  /\ Len(data) = count * PageSize /\ written = (Len(data) + BlockSize - 1) \div BlockSize =>
       \A b \in 0 .. Size - 1 : /\ b - FirstByte(start) \in 0 .. Len(data) - 1
                                     => e[b] = data[b - FirstByte(start) + 1]
                                /\ b - FirstByte(start) \in 0 .. Len(data) - 1
                                     <=> b \div PageSize \in start .. start + count - 1

LEMMA DirectlyWritten ==
  ASSUME SizesAssumption, NEW start \in Nat, NEW count \in Nat, NEW data \in Seq(Byte), NEW d \in Disk,
         Len(data) <= count * PageSize,
         NEW written \in 0 .. (Len(data) + BlockSize - 1) \div BlockSize
  PROVE  RightlyOver(start, count, data, written, d, Over(d, FirstByte(start), data, written))
  <1> DEFINE first == FirstByte(start)
             e == Over(d, first, data, written)
             blocks == (Len(data) + BlockSize - 1) \div BlockSize
             last == first + written * BlockSize - 1
  <1>1. /\ Len(data) \in Nat /\ blocks \in Nat /\ written \in 0 .. blocks /\ BlockSize \in Nat \ {0}
        /\ blocks * BlockSize <= count * PageSize
        /\ Len(data) = count * PageSize => blocks * BlockSize = Len(data)
        /\ Size \in Nat /\ 0 \in Byte
    BY SizesAreNumbers, LenProperties, BlocksOfWrite
  <1> HIDE DEF blocks
  <1>2. /\ written * BlockSize \in Nat /\ written * BlockSize <= blocks * BlockSize
        /\ blocks * BlockSize \in Nat
    <2>1. written * BlockSize \in Nat /\ blocks * BlockSize \in Nat
      BY <1>1, SMT
    <2>2. QED
      BY <1>1, <2>1, TimesMonotone
  <1>3. ASSUME NEW b \in 0 .. Size - 1
        PROVE  /\ e[b] \in Byte
               /\ b \div PageSize \notin start .. start + count - 1 => e[b] = d[b]
               /\ Len(data) = count * PageSize /\ written = blocks =>
                    /\ b - first \in 0 .. Len(data) - 1 => e[b] = data[b - first + 1]
                    /\ b - first \in 0 .. Len(data) - 1
                         <=> b \div PageSize \in start .. start + count - 1
    <2>1. e[b] = IF b \in first .. last
                 THEN IF b - first < Len(data) THEN data[b - first + 1] ELSE 0
                 ELSE d[b]
      BY DEF Over
    <2> HIDE DEF e
    <2>2. /\ first \in Nat /\ count * PageSize \in Nat
          /\ b \div PageSize \in start .. start + count - 1
              <=> b \in first .. first + count * PageSize - 1
      BY BytesOfPages
    <2> HIDE DEF first
    <2>3. b \in first .. last /\ b - first < Len(data) => data[b - first + 1] \in Byte
      <3>1. b \in first .. last /\ b - first < Len(data) => b - first + 1 \in 1 .. Len(data)
        BY <1>1, <2>2
      <3>2. QED
        BY <3>1, ElementOfSeq
    <2>4. d[b] \in Byte
      BY DEF Disk
    <2>5. e[b] \in Byte
      BY <1>1, <2>1, <2>3, <2>4
    <2>6. b \in first .. last => b \in first .. first + count * PageSize - 1
      <3> DEFINE w == written * BlockSize
                 p == count * PageSize
                 k == blocks * BlockSize
      <3>1. w \in Nat /\ k \in Nat /\ p \in Nat /\ w <= k /\ k <= p /\ first \in Nat
        BY <1>1, <1>2, <2>2
      <3>2. last = first + w - 1 /\ first + count * PageSize - 1 = first + p - 1
        OBVIOUS
      <3> HIDE DEF last, w, p, k
      <3>3. QED
        BY <3>1, <3>2
    <2>7. ASSUME Len(data) = count * PageSize, written = blocks
          PROVE  /\ b - first \in 0 .. Len(data) - 1 <=> b \in first .. last /\ b - first < Len(data)
                 /\ b - first \in 0 .. Len(data) - 1 <=> b \in first .. first + count * PageSize - 1
      <3>1. last = first + Len(data) - 1 /\ first + count * PageSize - 1 = first + Len(data) - 1
        BY <1>1, <2>7
      <3>2. Len(data) \in Nat /\ first \in Nat /\ b \in Int
        BY <1>1, <2>2
      <3> HIDE DEF last
      <3>3. b - first \in 0 .. Len(data) - 1 <=> b \in first .. first + Len(data) - 1
        BY <3>2
      <3>4. b \in first .. first + Len(data) - 1 => b - first < Len(data)
        BY <3>2
      <3>5. QED
        BY <3>1, <3>3, <3>4, Zenon
    <2>8. QED
      BY <2>1, <2>2, <2>5, <2>6, <2>7
  <1>4. e \in Disk
    BY <1>3 DEF Over, Disk
  <1> HIDE DEF e
  <1>5. RightlyOver(start, count, data, written, d, e)
    BY <1>3, <1>4 DEF blocks, RightlyOver
  <1>6. QED
    BY <1>5 DEF e

-----------------------------------------------------------------------------
(***************************************************************************)
(* The invariant: what a reader sees of a clean page is what the device    *)
(* has; a stream never leaves a stale page.                                *)
(***************************************************************************)
CleanSeen == ~page.dirty /\ ~stale => View = disk

StreamInv == BufferTypeOK /\ CleanSeen /\ (Streaming => ~stale) /\ (Direct => pos = 0)

LEMMA PageKinds ==
  ASSUME BufferTypeOK
  PROVE  /\ disk \in Disk /\ page \in SomePage /\ stale \in BOOLEAN /\ page.dirty \in BOOLEAN
         /\ page # NoPage => page \in RealPage
         /\ page.number \in Numbers \cup {-1} /\ (page.number = -1 => page = NoPage)
  <1>1. disk \in Disk /\ page \in SomePage /\ stale \in BOOLEAN /\ kind \in Users
    BY DEF BufferTypeOK, Disk, SomePage, RealPage
  <1>2. page \in RealPage => page.dirty \in BOOLEAN /\ page.number \in Numbers /\ page.number # -1
    BY DEF RealPage, Numbers
  <1>3. QED
    BY <1>1, <1>2, NoPageFields DEF SomePage

LEMMA CleanMeans ==
  ASSUME SizesAssumption, BufferTypeOK
  PROVE  CleanPageIsStored <=> CleanSeen
  <1>1. CASE page = NoPage
    BY <1>1, PageKinds, SeenType, AsOperators DEF CleanPageIsStored, CleanSeen
  <1>2. CASE page \in RealPage
    <2>1. page.data = OnDisk(page.number) <=> View = disk
      BY <1>2, PageKinds, Clean, AsOperators
    <2>2. page # NoPage
      BY <1>2, NoPageFields
    <2>3. QED
      BY <2>1, <2>2 DEF CleanPageIsStored, CleanSeen
  <1>3. QED
    BY <1>1, <1>2, PageKinds

LEMMA InitStream == ASSUME SizesAssumption, BufferInit PROVE StreamInv
  <1>1. BufferTypeOK
    <2>1. 0 \in 0 .. MaxFaults /\ 0 \in 0 .. MaxRestarts
      BY DEF SizesAssumption
    <2>2. kind \in Users /\ disk \in [0 .. Size - 1 -> Byte] /\ page = NoPage
      BY DEF BufferInit
    <2>3. pos = 0 /\ stale = FALSE /\ faults = 0 /\ restarts = 0
      BY DEF BufferInit
    <2>4. QED
      BY <2>1, <2>2, <2>3 DEF BufferTypeOK
  <1>2. CleanSeen
    BY <1>1, PageKinds, SeenType, AsOperators DEF BufferInit, CleanSeen
  <1>3. QED
    BY <1>1, <1>2 DEF BufferInit, StreamInv

LEMMA FaultyType ==
  ASSUME SizesAssumption, BufferTypeOK, NEW failed, Faulty(failed)
  PROVE  faults' \in 0 .. MaxFaults
  BY DEF BufferTypeOK, Faulty, SizesAssumption

\* load: the page is the one in memory or a clean copy of the device's.
LEMMA Loading ==
  ASSUME SizesAssumption, BufferTypeOK, NEW n \in Nat, Loadable(n)
  PROVE  /\ Loaded(n) \in RealPage /\ Loaded(n).number = n
         /\ Held(n) => Loaded(n) = page
         /\ ~Held(n) => Seen(Loaded(n), disk) = disk /\ ~page.dirty
  <1>1. CASE Held(n)
    <2>1. page.number = n /\ n # -1
      BY <1>1 DEF Held
    <2>2. page \in RealPage
      BY <2>1, PageKinds, NoPageFields
    <2>3. QED
      BY <1>1, <2>1, <2>2 DEF Loaded
  <1>2. CASE ~Held(n)
    <2> DEFINE q == [number |-> n, data |-> OnDisk(n), dirty |-> FALSE]
    <2>1. n \in Numbers /\ ~Conflicts(n) /\ Loaded(n) = q
      BY <1>2 DEF Loadable, Loaded
    <2>2. OnDisk(n) \in [1 .. PageSize -> Byte]
      <3>1. FirstByte(n) \in Nat /\ FirstByte(n) + PageSize <= Size /\ PageSize \in Nat /\ Size \in Nat
        BY <2>1, PageInside, SizesAreNumbers
      <3>2. ASSUME NEW i \in 1 .. PageSize PROVE disk[FirstByte(n) + i - 1] \in Byte
        <4>1. FirstByte(n) + i - 1 \in 0 .. Size - 1
          BY <3>1
        <4>2. QED
          BY <4>1, PageKinds DEF Disk
      <3>3. QED
        BY <3>2 DEF OnDisk
    <2>3. q \in RealPage /\ q.number = n /\ q.data = PageOn(disk, n)
      BY <2>1, <2>2, AsOperators DEF RealPage
    <2> HIDE DEF q
    <2>4. Seen(q, disk) = disk
      BY <2>3, Clean, PageKinds
    <2>5. ~page.dirty
      BY <1>2, <2>1, PageKinds, NoPageFields DEF Held, Conflicts
    <2>6. QED
      BY <1>2, <2>1, <2>3, <2>4, <2>5
  <1>3. QED
    BY <1>1, <1>2

\* A stream that loads a page sees what it saw before.
LEMMA LoadingSeen ==
  ASSUME SizesAssumption, BufferTypeOK, CleanSeen, ~stale, NEW n \in Nat, Loadable(n)
  PROVE  Seen(Loaded(n), disk) = View
  <1>1. CASE Held(n)
    BY <1>1, Loading, AsOperators
  <1>2. CASE ~Held(n)
    BY <1>2, Loading DEF CleanSeen
  <1>3. QED
    BY <1>1, <1>2

\* store and flush: some bytes of the page reach the device, all of them when
\* they return Ok; what a reader sees stays.
LEMMA Flushing ==
  ASSUME SizesAssumption, BufferTypeOK, NEW ok \in BOOLEAN, FlushDisk(ok)
  PROVE  /\ disk' \in Disk /\ Seen(page, disk') = View
         /\ \A b \in 0 .. Size - 1 : disk'[b] \in {disk[b], View[b]}
         /\ ok /\ page.dirty => disk' = View
         /\ ~page.dirty => ok /\ disk' = disk
  <1>1. CASE page.dirty
    <2>1. page \in RealPage
      BY <1>1, PageKinds, NoPageFields
    <2>2. PICK count \in 0 .. PageBlocks :
            /\ disk' = Written(FirstByte(page.number), page.data, count)
            /\ ok => count = PageBlocks
      <3>1. PageBlocks \in Nat \ {0}
        BY SizesAreNumbers
      <3>2. CASE ok
        BY <1>1, <3>1, <3>2 DEF FlushDisk, Store
      <3>3. CASE ~ok
        <4>1. PICK count \in 0 .. PageBlocks - 1 : disk' = Written(FirstByte(page.number), page.data, count)
          BY <1>1, <3>3 DEF FlushDisk, Store
        <4>2. count \in 0 .. PageBlocks
          BY <3>1
        <4>3. QED
          BY <3>3, <4>1, <4>2
      <3>4. QED
        BY <3>2, <3>3
    <2>3. disk' = Over(disk, FirstByte(page.number), page.data, count)
      BY <2>2, AsOperators
    <2>4. disk \in Disk
      BY PageKinds
    <2>5. /\ disk' \in Disk /\ Seen(page, disk') = Seen(page, disk)
          /\ \A b \in 0 .. Size - 1 : disk'[b] \in {disk[b], Seen(page, disk)[b]}
          /\ count = PageBlocks => disk' = Seen(page, disk)
      BY <2>1, <2>3, <2>4, StoreSeen
    <2>6. QED
      BY <1>1, <2>2, <2>5, AsOperators
  <1>2. CASE ~page.dirty
    BY <1>2, PageKinds, AsOperators DEF FlushDisk
  <1>3. QED
    BY <1>1, <1>2

LEMMA FlushedPage ==
  ASSUME SizesAssumption, BufferTypeOK, NEW ok \in BOOLEAN
  PROVE  /\ AfterFlush(ok) \in SomePage
         /\ \A d : Seen(AfterFlush(ok), d) = Seen(page, d)
         /\ AfterFlush(ok).dirty <=> page.dirty /\ ~ok
  <1>1. CASE page \in RealPage
    <2>1. /\ AfterFlush(ok) \in RealPage /\ AfterFlush(ok).number = page.number
          /\ AfterFlush(ok).data = page.data /\ (AfterFlush(ok).dirty <=> page.dirty /\ ~ok)
      BY <1>1 DEF AfterFlush, RealPage
    <2>2. QED
      BY <2>1, SeenSame DEF SomePage
  <1>2. CASE page = NoPage
    <2>1. AfterFlush(ok) = NoPage
      BY <1>2 DEF AfterFlush, NoPage
    <2>2. QED
      BY <1>2, <2>1, NoPageFields DEF SomePage
  <1>3. QED
    BY <1>1, <1>2, PageKinds DEF SomePage

LEMMA PositionInPage ==
  ASSUME SizesAssumption, BufferTypeOK
  PROVE  PageOf \in Nat /\ OffsetOf \in 0 .. StreamPage - 1 /\ Available \in 0 .. PageSize
         /\ (Available # 0 => OffsetOf + Available = PageSize)
  <1>1. pos \in Nat /\ StreamPage \in Nat \ {0} /\ PageSize \in Nat \ {0}
    BY SizesAreNumbers DEF BufferTypeOK
  <1>2. PageOf \in Nat /\ OffsetOf \in 0 .. StreamPage - 1
    BY <1>1, Division DEF PageOf, OffsetOf
  <1>3. QED
    BY <1>1, <1>2 DEF Available

-----------------------------------------------------------------------------
(* Every call keeps the invariant.                                         *)

\* What TypeOK says of the next state, by the parts a call changes.
LEMMA TypeNext ==
  ASSUME BufferTypeOK, kind' = kind, disk' \in Disk, page' \in SomePage, pos' \in Nat, stale' \in BOOLEAN,
         faults' \in 0 .. MaxFaults, restarts' \in 0 .. MaxRestarts
  PROVE  BufferTypeOK'
  <1>1. kind' \in Users
    BY DEF BufferTypeOK
  <1>2. QED
    BY <1>1 DEF BufferTypeOK, Disk, SomePage, RealPage

LEMMA FlushInv ==
  ASSUME SizesAssumption, StreamInv, NEW ok \in BOOLEAN, Flush(ok)
  PROVE  StreamInv' /\ View' = View
  <1>1. /\ BufferTypeOK /\ FlushDisk(ok) /\ page' = AfterFlush(ok) /\ Faulty(~ok)
        /\ UNCHANGED <<kind, pos, stale, restarts>>
    BY DEF Flush, StreamInv
  <1>2. View' = View
    BY <1>1, Flushing, FlushedPage, AsOperatorsNext
  <1>3. BufferTypeOK'
    BY <1>1, TypeNext, FaultyType, Flushing, FlushedPage DEF BufferTypeOK
  <1>4. CleanSeen'
    <2>1. ASSUME ~page'.dirty, ~stale PROVE disk' = View
      BY <1>1, <2>1, Flushing, FlushedPage DEF StreamInv, CleanSeen
    <2>2. QED
      BY <1>1, <1>2, <2>1 DEF CleanSeen
  <1>5. QED
    BY <1>1, <1>2, <1>3, <1>4 DEF StreamInv, Streaming, Direct

LEMMA ReadInv ==
  ASSUME SizesAssumption, StreamInv, NEW len \in Nat, Read(len)
  PROVE  StreamInv' /\ View' = View
  <1>1. /\ BufferTypeOK /\ CleanSeen /\ ~stale /\ Streaming /\ ~Direct /\ PageOf \in Nat
        /\ UNCHANGED <<kind, disk, stale, restarts>>
    BY PositionInPage DEF Read, StreamInv, Streaming, Direct
  <1>2. CASE /\ Loadable(PageOf) /\ Faulty(FALSE)
             /\ page' = Loaded(PageOf)
             /\ pos' = pos + Smaller(len, Available)
    <2>1. Loaded(PageOf) \in RealPage /\ Seen(Loaded(PageOf), disk) = View
      BY <1>1, <1>2, Loading, LoadingSeen
    <2>2. pos' \in Nat
      BY <1>1, <1>2, PositionInPage DEF Smaller, BufferTypeOK
    <2>3. BufferTypeOK'
      BY <1>1, <1>2, <2>1, <2>2, TypeNext, FaultyType, PageKinds DEF SomePage, BufferTypeOK
    <2>4. View' = View
      BY <1>1, <1>2, <2>1, AsOperatorsNext
    <2>5. ~page'.dirty => View = disk
      BY <1>1, <1>2, Loading, AsOperators DEF CleanSeen
    <2>6. QED
      BY <1>1, <2>3, <2>4, <2>5 DEF StreamInv, CleanSeen, Streaming, Direct
  <1>3. CASE LoadFails(PageOf) /\ UNCHANGED pos
    <2>1. page' = page /\ (Faulty(TRUE) \/ Faulty(FALSE))
      BY <1>3 DEF LoadFails
    <2>2. BufferTypeOK' /\ View' = View
      BY <1>1, <1>3, <2>1, TypeNext, FaultyType, PageKinds, AsOperators, AsOperatorsNext DEF BufferTypeOK
    <2>3. QED
      BY <1>1, <2>1, <2>2 DEF StreamInv, CleanSeen, Streaming, Direct
  <1>4. QED
    BY <1>2, <1>3 DEF Read

\* What a write takes of the buffer fits in the page.
LEMMA Taken ==
  ASSUME SizesAssumption, BufferTypeOK, NEW data \in Seq(Byte)
  PROVE  LET new == SubSeq(data, 1, Smaller(Len(data), Available)) IN
           /\ new \in Seq(Byte) /\ Len(new) = Smaller(Len(data), Available) /\ Len(new) \in Nat
           /\ new = <<>> \/ OffsetOf + Len(new) <= PageSize
  <1> DEFINE k == Smaller(Len(data), Available)
             new == SubSeq(data, 1, k)
  <1>1. k \in Nat /\ k <= Len(data) /\ k <= Available /\ Len(data) \in Nat
    BY PositionInPage, LenProperties DEF Smaller
  <1> HIDE DEF k
  <1>2. \A i \in 1 .. k : data[i] \in Byte
    <2>1. ASSUME NEW i \in 1 .. k PROVE data[i] \in Byte
      <3>1. i \in 1 .. Len(data)
        BY <1>1
      <3>2. QED
        BY <3>1, ElementOfSeq
    <2>2. QED
      BY <2>1
  <1>3. new \in Seq(Byte) /\ Len(new) = k
    BY <1>1, <1>2, SubSeqProperties
  <1>4. k = 0 => new = <<>>
    BY <1>1, SubSeqEmpty
  <1>5. k # 0 => OffsetOf + k <= PageSize
    BY <1>1, PositionInPage, SMTT(20)
  <1>6. QED
    BY <1>1, <1>3, <1>4, <1>5 DEF k

LEMMA WriteInv ==
  ASSUME SizesAssumption, StreamInv, NEW data \in Seq(Byte), Write(data)
  PROVE  StreamInv'
  <1>1. /\ BufferTypeOK /\ ~stale /\ Streaming /\ ~Direct /\ PageOf \in Nat /\ OffsetOf \in Nat
        /\ UNCHANGED <<kind, disk, stale, restarts>>
    BY PositionInPage DEF Write, StreamInv, Streaming, Direct
  <1> DEFINE new == SubSeq(data, 1, Smaller(Len(data), Available))
  <1>2. new \in Seq(Byte) /\ Len(new) \in Nat
    BY <1>1, Taken
  <1>3. CASE /\ Loadable(PageOf) /\ Faulty(FALSE)
             /\ page' = Changed(Loaded(PageOf), OffsetOf, new)
             /\ pos' = pos + Len(new)
    <2> HIDE DEF new
    <2>1. page' \in RealPage /\ page'.dirty
      BY <1>1, <1>2, <1>3, Loading, ChangedPage
    <2>2. pos' \in Nat
      BY <1>1, <1>2, <1>3 DEF BufferTypeOK
    <2>3. BufferTypeOK'
      BY <1>1, <1>3, <2>1, <2>2, TypeNext, FaultyType, PageKinds DEF SomePage, BufferTypeOK
    <2>4. QED
      BY <1>1, <2>1, <2>3 DEF StreamInv, CleanSeen, Streaming, Direct
  <1>4. CASE LoadFails(PageOf) /\ UNCHANGED pos
    <2>1. page' = page /\ (Faulty(TRUE) \/ Faulty(FALSE))
      BY <1>4 DEF LoadFails
    <2>2. BufferTypeOK' /\ View' = View
      BY <1>1, <1>4, <2>1, TypeNext, FaultyType, PageKinds, AsOperators, AsOperatorsNext DEF BufferTypeOK
    <2>3. QED
      BY <1>1, <2>1, <2>2 DEF StreamInv, CleanSeen, Streaming, Direct
  <1>5. QED
    BY <1>3, <1>4 DEF Write

LEMMA SeekInv ==
  ASSUME SizesAssumption, StreamInv, NEW target \in Int, Seek(target)
  PROVE  /\ StreamInv' /\ View' = View
         /\ \A b \in 0 .. Size - 1 : disk'[b] \in {disk[b], View[b]}
         /\ outcome'.op = "seek" /\ (outcome'.ok => disk' = View) /\ (~outcome'.ok => pos' = pos)
  <1>1. /\ BufferTypeOK /\ CleanSeen /\ ~stale /\ Streaming /\ ~Direct
        /\ UNCHANGED <<kind, stale, restarts>>
    BY DEF Seek, StreamInv, Streaming, Direct
  <1>2. PICK flushed \in BOOLEAN, sized \in BOOLEAN :
          /\ FlushDisk(flushed)
          /\ Faulty(~flushed \/ ~sized)
          /\ page' = IF flushed /\ sized /\ Seekable(target) /\ target \div StreamPage # PageOf THEN NoPage
                     ELSE AfterFlush(flushed)
          /\ pos' = IF flushed /\ sized /\ Seekable(target) THEN target ELSE pos
          /\ Outcome("seek", flushed /\ sized /\ Seekable(target), <<>>)
    BY DEF Seek
  <1>3. outcome'.op = "seek" /\ (outcome'.ok <=> flushed /\ sized /\ Seekable(target))
    BY <1>2 DEF Outcome
  <1>4. page' \in SomePage /\ pos' \in Nat
    BY <1>1, <1>2, FlushedPage DEF SomePage, BufferTypeOK, Seekable
  <1>5. BufferTypeOK'
    BY <1>1, <1>2, <1>4, TypeNext, FaultyType, Flushing DEF BufferTypeOK
  <1>6. flushed => disk' = View
    BY <1>1, <1>2, Flushing, PageKinds DEF CleanSeen
  <1>7. View' = View
    <2>1. CASE page' = AfterFlush(flushed)
      BY <1>1, <1>2, <2>1, Flushing, FlushedPage, AsOperatorsNext
    <2>2. CASE page' = NoPage /\ flushed
      BY <1>1, <1>2, <1>6, <2>2, Flushing, SeenType, AsOperatorsNext DEF SomePage
    <2>3. QED
      BY <1>2, <2>1, <2>2
  <1>8. CleanSeen'
    <2>1. ASSUME ~page'.dirty PROVE disk' = View
      <3>1. flushed \/ (page' = AfterFlush(flushed) /\ ~page.dirty)
        BY <1>1, <1>2, <2>1, FlushedPage
      <3>2. QED
        BY <1>1, <1>2, <1>6, <3>1, Flushing
    <2>2. QED
      BY <1>1, <1>7, <2>1 DEF CleanSeen
  <1>9. QED
    BY <1>1, <1>2, <1>3, <1>5, <1>6, <1>7, <1>8, Flushing DEF StreamInv, Streaming, Direct

\* The direct calls but for write_pages_direct.
LEMMA DirectInv ==
  ASSUME SizesAssumption, StreamInv,
         \/ \E n \in Numbers : Load(n) \/ ReadDirect(n)
         \/ \E offset \in 0 .. PageSize - 1, b \in Byte : Modify(offset, <<b>>)
         \/ Clear
  PROVE  StreamInv'
  <1>1. /\ BufferTypeOK /\ Direct /\ ~Streaming /\ pos = 0 /\ kind' = kind /\ disk' = disk /\ pos' = pos
        /\ restarts' = restarts
    BY DEF StreamInv, Load, ReadDirect, Modify, Clear, Direct, Streaming
  <1>2. ASSUME NEW n \in Numbers, Load(n) PROVE StreamInv'
    <2>1. n \in Nat
      BY DEF Numbers
    <2>2. CASE /\ Loadable(n) /\ Faulty(FALSE)
               /\ page' = Loaded(n)
               /\ stale' = (stale /\ Held(n))
      <3>1. page' \in RealPage
        BY <1>1, <2>1, <2>2, Loading
      <3>2. BufferTypeOK'
        BY <1>1, <2>2, <3>1, TypeNext, FaultyType, PageKinds DEF SomePage, BufferTypeOK
      <3>3. CleanSeen'
        <4>1. CASE Held(n)
          BY <1>1, <2>1, <2>2, <4>1, Loading, AsOperators, AsOperatorsNext DEF StreamInv, CleanSeen
        <4>2. CASE ~Held(n)
          BY <1>1, <2>1, <2>2, <4>2, Loading, AsOperatorsNext DEF CleanSeen
        <4>3. QED
          BY <4>1, <4>2
      <3>4. QED
        BY <1>1, <3>2, <3>3 DEF StreamInv, Streaming, Direct
    <2>3. CASE LoadFails(n) /\ UNCHANGED stale
      <3>1. page' = page /\ (Faulty(TRUE) \/ Faulty(FALSE))
        BY <2>3 DEF LoadFails
      <3>2. BufferTypeOK' /\ View' = View
        BY <1>1, <2>3, <3>1, TypeNext, FaultyType, PageKinds, AsOperators, AsOperatorsNext DEF BufferTypeOK
      <3>3. QED
        BY <1>1, <2>3, <3>1, <3>2 DEF StreamInv, CleanSeen, Streaming, Direct
    <2>4. QED
      BY <1>2, <2>2, <2>3 DEF Load
  <1>3. ASSUME NEW n \in Numbers, ReadDirect(n) PROVE StreamInv'
    <2>1. UNCHANGED <<page, stale, faults>>
      BY <1>3 DEF ReadDirect
    <2>2. BufferTypeOK' /\ View' = View
      BY <1>1, <2>1, TypeNext, PageKinds, AsOperators, AsOperatorsNext DEF BufferTypeOK
    <2>3. QED
      BY <1>1, <2>1, <2>2 DEF StreamInv, CleanSeen, Streaming, Direct
  <1>4. ASSUME NEW offset \in 0 .. PageSize - 1, NEW b \in Byte, Modify(offset, <<b>>) PROVE StreamInv'
    <2>1. page # NoPage /\ page' = Changed(page, offset, <<b>>) /\ UNCHANGED <<stale, faults>>
      BY <1>4 DEF Modify
    <2>2. offset \in Nat /\ <<b>> \in Seq(Byte) /\ page \in RealPage
      BY <1>1, <2>1, PageKinds, SizesAreNumbers
    <2>3. page' \in RealPage /\ page'.dirty
      BY <2>1, <2>2, ChangedPage
    <2>4. BufferTypeOK'
      BY <1>1, <2>1, <2>3, TypeNext, PageKinds DEF SomePage, BufferTypeOK
    <2>5. QED
      BY <1>1, <2>3, <2>4 DEF StreamInv, CleanSeen, Streaming, Direct
  <1>5. ASSUME Clear PROVE StreamInv'
    <2>1. page' = NoPage /\ stale' = FALSE /\ faults' = faults
      BY <1>5 DEF Clear
    <2>2. BufferTypeOK'
      BY <1>1, <2>1, TypeNext, PageKinds DEF SomePage, BufferTypeOK
    <2>3. View' = disk'
      BY <1>1, <2>1, SeenType, PageKinds, AsOperatorsNext DEF SomePage
    <2>4. QED
      BY <1>1, <2>1, <2>2, <2>3 DEF StreamInv, CleanSeen, Streaming, Direct
  <1>6. QED
    BY <1>2, <1>3, <1>4, <1>5

\* Writing elsewhere on the device does not touch a page that is clean.
LEMMA WrittenElsewhere ==
  ASSUME SizesAssumption, NEW p \in SomePage, NEW d \in Disk, NEW e \in Disk, Seen(p, d) = d,
         \A b \in 0 .. Size - 1 : p.number = b \div PageSize => e[b] = d[b]
  PROVE  Seen(p, e) = e
  <1>1. ASSUME NEW b \in 0 .. Size - 1 PROVE Seen(p, e)[b] = e[b]
    <2>1. p.number = b \div PageSize => Seen(p, e)[b] = Seen(p, d)[b]
      BY DEF Seen
    <2>2. p.number # b \div PageSize => Seen(p, e)[b] = e[b]
      BY DEF Seen
    <2>3. QED
      BY <2>1, <2>2
  <1>2. Seen(p, e) \in Disk
    BY SeenType
  <1>3. QED
    BY <1>1, <1>2, SameBytes

LEMMA BuffersAreSequences ==
  ASSUME SizesAssumption, NEW data \in Buffers
  PROVE  data \in Seq(Byte) /\ Len(data) \in Nat
  <1>1. data \in Seq(Byte)
    BY DEF SizesAssumption
  <1>2. QED
    BY <1>1, LenProperties

LEMMA WriteDirectInv ==
  ASSUME SizesAssumption, StreamInv, NEW start \in Numbers, NEW count \in 1 .. Pages, NEW data \in Seq(Byte),
         WriteDirect(start, data, count)
  PROVE  /\ StreamInv'
         /\ outcome'.op = "write_direct" /\ outcome'.ok /\ Len(outcome'.got) = outcome'.pages * PageSize =>
              View' = [b \in 0 .. Size - 1 |->
                         IF b - outcome'.first \in 0 .. Len(outcome'.got) - 1
                         THEN outcome'.got[b - outcome'.first + 1] ELSE View[b]]
  <1> DEFINE blocks == (Len(data) + BlockSize - 1) \div BlockSize
             first == FirstByte(start)
  <1>1. /\ BufferTypeOK /\ Direct /\ ~Streaming /\ pos = 0 /\ kind' = kind /\ pos' = pos /\ restarts' = restarts
        /\ Len(data) <= count * PageSize /\ start \in Nat /\ count \in Nat /\ disk \in Disk
    BY PageKinds, SizesAreNumbers DEF StreamInv, WriteDirect, Direct, Streaming, Numbers
  <1>2. blocks \in Nat
    BY <1>1, LenProperties, BlocksOfWrite
  <1> HIDE DEF blocks
  <1>3. ASSUME NEW written \in 0 .. blocks, disk' = Written(first, data, written)
        PROVE  /\ disk' \in Disk
               /\ \A b \in 0 .. Size - 1 : b \div PageSize \notin start .. start + count - 1 => disk'[b] = disk[b]
               /\ Len(data) = count * PageSize /\ written = blocks =>
                    \A b \in 0 .. Size - 1 : /\ b - first \in 0 .. Len(data) - 1 => disk'[b] = data[b - first + 1]
                                             /\ b - first \in 0 .. Len(data) - 1
                                                  <=> b \div PageSize \in start .. start + count - 1
    <2>1. disk' = Over(disk, first, data, written)
      BY <1>3, AsOperators
    <2>2. written \in 0 .. (Len(data) + BlockSize - 1) \div BlockSize
      BY <1>3 DEF blocks
    <2>3. RightlyOver(start, count, data, written, disk, Over(disk, FirstByte(start), data, written))
      BY <1>1, <2>2, DirectlyWritten
    <2>4. RightlyOver(start, count, data, written, disk, disk')
      BY <2>1, <2>3
    <2> HIDE DEF first
    <2>5. QED
      BY <2>4 DEF RightlyOver, blocks, first
  <1>4. ASSUME disk' \in Disk, page' = page, ~Covers(start, count), stale' = stale,
               \A b \in 0 .. Size - 1 : b \div PageSize \notin start .. start + count - 1 => disk'[b] = disk[b]
        PROVE  CleanSeen'
    <2>1. \A b \in 0 .. Size - 1 : page.number = b \div PageSize => disk'[b] = disk[b]
      BY <1>4 DEF Covers
    <2>2. Seen(page, disk) = disk => Seen(page, disk') = disk'
      BY <1>1, <1>4, <2>1, WrittenElsewhere, PageKinds
    <2>3. QED
      BY <1>4, <2>2, AsOperators, AsOperatorsNext DEF StreamInv, CleanSeen
  <1>5. CASE /\ disk' = Written(first, data, blocks)
             /\ page' = IF Covers(start, count) THEN NoPage ELSE page
             /\ stale' = (stale /\ ~Covers(start, count))
             /\ outcome' = [op |-> "write_direct", ok |-> TRUE, got |-> data,
                          first |-> first, pages |-> count]
             /\ Faulty(FALSE)
    <2>1. /\ disk' \in Disk
          /\ \A b \in 0 .. Size - 1 : b \div PageSize \notin start .. start + count - 1 => disk'[b] = disk[b]
          /\ Len(data) = count * PageSize =>
               \A b \in 0 .. Size - 1 : /\ b - first \in 0 .. Len(data) - 1 => disk'[b] = data[b - first + 1]
                                        /\ b - first \in 0 .. Len(data) - 1
                                             <=> b \div PageSize \in start .. start + count - 1
      BY <1>2, <1>3, <1>5
    <2>2. BufferTypeOK'
      BY <1>1, <1>5, <2>1, TypeNext, FaultyType, PageKinds DEF SomePage, BufferTypeOK
    <2>3. CleanSeen'
      <3>1. CASE Covers(start, count)
        BY <1>5, <2>1, <3>1, SeenType, AsOperatorsNext DEF SomePage, CleanSeen
      <3>2. CASE ~Covers(start, count)
        BY <1>1, <1>4, <1>5, <2>1, <3>2, PageKinds
      <3>3. QED
        BY <3>1, <3>2
    <2>4. ASSUME Len(data) = count * PageSize, NEW b \in 0 .. Size - 1
          PROVE  View'[b] = IF b - first \in 0 .. Len(data) - 1 THEN data[b - first + 1] ELSE View[b]
      <3>1. View'[b] = IF page'.number = b \div PageSize THEN page'.data[(b % PageSize) + 1] ELSE disk'[b]
        BY DEF View
      <3>2. View[b] = IF page.number = b \div PageSize THEN page.data[(b % PageSize) + 1] ELSE disk[b]
        BY DEF View
      <3>3. NoPage.number # b \div PageSize
        BY PageOfByte, NoPageFields DEF Numbers
      <3>4. CASE b \div PageSize \in start .. start + count - 1
        <4>1. page'.number # b \div PageSize
          BY <1>5, <3>3, <3>4 DEF Covers
        <4>2. b - first \in 0 .. Len(data) - 1 /\ disk'[b] = data[b - first + 1]
          BY <2>1, <2>4, <3>4
        <4>3. QED
          BY <3>1, <4>1, <4>2
      <3>5. CASE b \div PageSize \notin start .. start + count - 1
        <4>1. b - first \notin 0 .. Len(data) - 1 /\ disk'[b] = disk[b]
          BY <2>1, <2>4, <3>5
        <4>2. Covers(start, count) => page'.number # b \div PageSize /\ page.number # b \div PageSize
          BY <1>5, <3>3, <3>5 DEF Covers
        <4>3. ~Covers(start, count) => page' = page
          BY <1>5
        <4>4. QED
          BY <3>1, <3>2, <4>1, <4>2, <4>3
      <3>6. QED
        BY <3>4, <3>5
    <2>5. Len(data) = count * PageSize =>
            View' = [b \in 0 .. Size - 1 |-> IF b - first \in 0 .. Len(data) - 1
                                            THEN data[b - first + 1] ELSE View[b]]
      BY <2>4 DEF View
    <2>6. outcome'.got = data /\ outcome'.first = first /\ outcome'.pages = count
      BY <1>5
    <2>7. StreamInv'
      BY <1>1, <2>2, <2>3 DEF StreamInv, Streaming, Direct
    <2>8. QED
      BY <2>5, <2>6, <2>7
  <1>6. CASE /\ \E written \in 0 .. blocks - 1 : disk' = Written(first, data, written)
             /\ stale' = (stale \/ Covers(start, count))
             /\ Outcome("write_direct", FALSE, <<>>)
             /\ Faulty(TRUE)
             /\ UNCHANGED page
    <2>1. PICK written \in 0 .. blocks : disk' = Written(first, data, written)
      BY <1>2, <1>6
    <2>2. /\ disk' \in Disk
          /\ \A b \in 0 .. Size - 1 : b \div PageSize \notin start .. start + count - 1 => disk'[b] = disk[b]
      BY <1>3, <2>1
    <2>3. stale' \in BOOLEAN
      BY <1>1, <1>6, PageKinds DEF Covers
    <2>4. BufferTypeOK'
      BY <1>1, <1>6, <2>2, <2>3, TypeNext, FaultyType, PageKinds DEF BufferTypeOK
    <2>5. CleanSeen'
      <3>1. CASE Covers(start, count)
        BY <1>6, <3>1 DEF CleanSeen
      <3>2. CASE ~Covers(start, count)
        BY <1>1, <1>4, <1>6, <2>2, <3>2, PageKinds
      <3>3. QED
        BY <3>1, <3>2
    <2>6. ~outcome'.ok
      BY <1>6 DEF Outcome
    <2>7. QED
      BY <1>1, <2>4, <2>5, <2>6 DEF StreamInv, Streaming, Direct
  <1>7. QED
    BY <1>5, <1>6 DEF WriteDirect, blocks

LEMMA RestartInv ==
  ASSUME SizesAssumption, StreamInv, Restart
  PROVE  StreamInv' /\ View' = disk /\ disk' = disk /\ pos' = 0 /\ outcome'.op = "open" /\ kind' = kind
  <1>1. /\ BufferTypeOK /\ page' = NoPage /\ stale' = FALSE /\ pos' = 0 /\ UNCHANGED <<kind, disk, faults>>
        /\ restarts < MaxRestarts /\ restarts' = restarts + 1
    BY DEF StreamInv, Restart
  <1>2. restarts' \in 0 .. MaxRestarts
    BY <1>1 DEF BufferTypeOK, SizesAssumption
  <1>3. BufferTypeOK'
    BY <1>1, <1>2, TypeNext, PageKinds DEF SomePage, BufferTypeOK
  <1>4. View' = disk'
    BY <1>1, SeenType, PageKinds, AsOperatorsNext DEF SomePage
  <1>5. QED
    BY <1>1, <1>3, <1>4 DEF StreamInv, CleanSeen, Streaming, Direct, Restart, Outcome

LEMMA NextStream == ASSUME SizesAssumption, StreamInv, [BufferNext]_bufferVars PROVE StreamInv'
  <1>1. CASE BufferNext
    <2>1. ASSUME NEW ok \in BOOLEAN, Flush(ok) PROVE StreamInv'
      BY <2>1, FlushInv
    <2>2. ASSUME NEW len \in 1 .. MaxLen, Read(len) PROVE StreamInv'
      <3>1. len \in Nat
        BY DEF SizesAssumption
      <3>2. QED
        BY <2>2, <3>1, ReadInv
    <2>3. ASSUME NEW data \in Buffers, Write(data) PROVE StreamInv'
      BY <2>3, BuffersAreSequences, WriteInv
    <2>4. ASSUME NEW target \in -1 .. Size, Seek(target) PROVE StreamInv'
      <3>1. target \in Int
        BY SizesAreNumbers
      <3>2. QED
        BY <2>4, <3>1, SeekInv
    <2>5. ASSUME NEW start \in Numbers, NEW count \in 1 .. Pages, NEW data \in Buffers,
                 WriteDirect(start, data, count)
          PROVE  StreamInv'
      BY <2>5, BuffersAreSequences, WriteDirectInv
    <2>6. QED
      BY <1>1, <2>1, <2>2, <2>3, <2>4, <2>5, DirectInv, RestartInv DEF BufferNext
  <1>2. CASE UNCHANGED bufferVars
    BY <1>2 DEF bufferVars, StreamInv, BufferTypeOK, CleanSeen, Streaming, Direct, View
  <1>3. QED
    BY <1>1, <1>2

LEMMA StreamInvariant == ASSUME SizesAssumption PROVE BufferSpec => []StreamInv
  BY InitStream, NextStream, PTL DEF BufferSpec

-----------------------------------------------------------------------------
(* The page buffer.                                                        *)

\* A page that is marked clean is what the device holds, however buffered and
\* direct calls, failed ones included, are mixed (page_buffer.rs:16): load may
\* keep it without reading the device.
THEOREM CleanPagesAreStored == ASSUME SizesAssumption PROVE BufferSpec => []CleanPageIsStored
  <1>1. StreamInv => CleanPageIsStored
    BY CleanMeans DEF StreamInv
  <1>2. QED
    BY <1>1, StreamInvariant, PTL

\* After write_pages_direct of whole pages a reader sees what was written, and
\* elsewhere what it saw before.
THEOREM DirectWritesAreSeen == ASSUME SizesAssumption PROVE BufferSpec => DirectWriteIsSeen
  <1> DEFINE Direction == outcome'.op = "write_direct" /\ outcome'.ok
                          /\ Len(outcome'.got) = outcome'.pages * PageSize
             Result == View' = [b \in 0 .. Size - 1 |->
                                  IF b - outcome'.first \in 0 .. Len(outcome'.got) - 1
                                  THEN outcome'.got[b - outcome'.first + 1] ELSE View[b]]
  <1>1. ASSUME StreamInv, BufferNext, outcome'.op = "write_direct" /\ outcome'.ok
        PROVE  \E start \in Numbers, count \in 1 .. Pages, data \in Buffers : WriteDirect(start, data, count)
    <2>1. \A ok : Flush(ok) => outcome'.op = "flush"
      BY DEF Flush, Outcome
    <2>0. \A op, ok, got : Outcome(op, ok, got) => outcome'.op = op
      BY DEF Outcome
    <2>2. ASSUME NEW len, Read(len) PROVE outcome'.op = "read"
      <3>1. \E ok, got : Outcome("read", ok, got)
        BY <2>2, Zenon DEF Read
      <3>2. QED
        BY <2>0, <3>1
    <2>3. ASSUME NEW data, Write(data) PROVE outcome'.op = "write"
      <3>1. \E ok, got : Outcome("write", ok, got)
        BY <2>3, Zenon DEF Write
      <3>2. QED
        BY <2>0, <3>1
    <2>4. \A target : Seek(target) => outcome'.op = "seek"
      BY DEF Seek, Outcome
    <2>5. ASSUME NEW n PROVE (Load(n) => outcome'.op = "load") /\ (ReadDirect(n) => outcome'.op = "read_direct")
      BY <2>0 DEF Load, ReadDirect
    <2>6. (\A offset, b : Modify(offset, <<b>>) => outcome'.op = "modify") /\ (Clear => outcome'.op = "clear")
          /\ (Restart => outcome'.op = "open")
      BY DEF Modify, Clear, Restart, Outcome
    <2>7. QED
      BY <1>1, <2>1, <2>2, <2>3, <2>4, <2>5, <2>6 DEF BufferNext
  <1>2. StreamInv /\ [BufferNext]_bufferVars => [Direction => Result]_bufferVars
    <2>1. ASSUME StreamInv, BufferNext, Direction PROVE Result
      <3>1. PICK start \in Numbers, count \in 1 .. Pages, data \in Buffers : WriteDirect(start, data, count)
        BY <1>1, <2>1
      <3>2. QED
        BY <2>1, <3>1, BuffersAreSequences, WriteDirectInv
    <2>2. QED
      BY <2>1
  <1>3. BufferSpec => [][Direction => Result]_bufferVars
    BY <1>2, StreamInvariant, PTL DEF BufferSpec
  <1>4. QED
    BY <1>3, PTL DEF DirectWriteIsSeen

-----------------------------------------------------------------------------
(***************************************************************************)
(* The streams that divide their position by the length of the page.       *)
(***************************************************************************)
LEMMA Position ==
  ASSUME SizesAssumption, Straight, BufferTypeOK
  PROVE  /\ StreamPage = PageSize /\ PageOf \in Nat /\ FirstByte(PageOf) \in Nat
         /\ pos \in Nat /\ OffsetOf \in 0 .. PageSize - 1
         /\ pos = FirstByte(PageOf) + OffsetOf
         /\ Available \in Nat \ {0}
  <1>1. StreamPage = PageSize
    BY DEF Straight
  <1>2. pos \in Nat /\ PageSize \in Nat \ {0}
    BY SizesAreNumbers DEF BufferTypeOK
  <1>3. PageOf = pos \div PageSize /\ OffsetOf = pos % PageSize
    BY <1>1 DEF PageOf, OffsetOf
  <1>4. PageOf \in Nat /\ OffsetOf \in 0 .. PageSize - 1 /\ pos = PageOf * PageSize + OffsetOf
    BY <1>2, <1>3, Division
  <1>5. PageOf * PageSize \in Nat
    BY <1>2, <1>4, SMT
  <1>6. Available \in Nat \ {0}
    BY <1>2, <1>4 DEF Available
  <1>7. QED
    BY <1>1, <1>2, <1>4, <1>5, <1>6 DEF FirstByte

\* Whether the stream is one of them does not change.
LEMMA StraightStays == ASSUME kind' = kind PROVE Straight' = Straight
  BY DEF Straight, Streaming, StreamPage

LEMMA ReadImplements ==
  ASSUME SizesAssumption, Straight, StreamInv, NEW len \in Nat \ {0}, Read(len)
  PROVE  Stream!Read
  <1>0. kind' = kind /\ Straight'
    BY StraightStays, Zenon DEF Read
  <1>1. /\ BufferTypeOK /\ CleanSeen /\ ~stale /\ Streaming /\ Streaming' /\ PageOf \in Nat
        /\ kind' = kind /\ disk' = disk
    BY PositionInPage DEF Read, StreamInv, Streaming
  <1>2. View' = View
    BY ReadInv
  <1> DEFINE n == Smaller(len, Available)
  <1>3. CASE /\ Loadable(PageOf)
             /\ page' = Loaded(PageOf)
             /\ Outcome("read", TRUE, SubSeq(page'.data, OffsetOf + 1, OffsetOf + n))
             /\ pos' = pos + n
    <2> DEFINE got == SubSeq(page'.data, OffsetOf + 1, OffsetOf + n)
               first == FirstByte(PageOf)
    <2>1. /\ page' \in RealPage /\ page'.number = PageOf /\ Seen(page', disk) = View
          /\ page'.data \in [1 .. PageSize -> Byte]
      BY <1>1, <1>3, Loading, LoadingSeen DEF RealPage
    <2>2. n \in Nat \ {0} /\ n <= Available /\ (n # 0 => OffsetOf + n <= PageSize) /\ OffsetOf \in Nat
          /\ PageSize \in Nat /\ Size \in Nat
      BY <1>1, Position, PositionInPage, SizesAreNumbers DEF Smaller
    <2> HIDE DEF n
    <2>3. Len(got) = n /\ \A i \in 1 .. n : got[i] = page'.data[OffsetOf + i]
      <3>1. ASSUME NEW i \in OffsetOf + 1 .. OffsetOf + n PROVE page'.data[i] \in Byte
        <4>1. i \in 1 .. PageSize
          BY <2>2
        <4>2. QED
          BY <2>1, <4>1
      <3>2. /\ Len(got) = IF OffsetOf + 1 <= OffsetOf + n THEN OffsetOf + n - (OffsetOf + 1) + 1 ELSE 0
            /\ \A i \in 1 .. OffsetOf + n - (OffsetOf + 1) + 1 : got[i] = page'.data[OffsetOf + 1 + i - 1]
        <4>1. OffsetOf + 1 \in Int /\ OffsetOf + n \in Int
          BY <2>2
        <4> HIDE DEF got
        <4>2. QED
          BY <2>2, <3>1, <4>1, SubSeqProperties DEF got
      <3>3. Len(got) = n
        BY <2>2, <3>2
      <3>4. ASSUME NEW i \in 1 .. n PROVE got[i] = page'.data[OffsetOf + i]
        <4>1. i \in 1 .. OffsetOf + n - (OffsetOf + 1) + 1 /\ OffsetOf + 1 + i - 1 = OffsetOf + i
          BY <2>2
        <4>2. QED
          BY <3>2, <4>1
      <3>5. QED
        BY <3>3, <3>4
    <2>4. ASSUME NEW i \in 1 .. n PROVE pos + i - 1 < Size /\ got[i] = View[pos + i - 1]
      <3> DEFINE b == pos + i - 1
      <3>1. PageOf \in Numbers /\ first \in Nat /\ first + PageSize <= Size
        BY <2>1, PageInside DEF RealPage
      <3>2. pos = first + OffsetOf
        BY <1>1, Position
      <3>3. b \in 0 .. Size - 1 /\ b \in first .. first + PageSize - 1 /\ b - first + 1 = OffsetOf + i
        BY <2>2, <3>1, <3>2
      <3> HIDE DEF b
      <3>4. Seen(page', disk)[b] = page'.data[b - first + 1]
        BY <1>1, <2>1, <3>3, ByteSeen, PageKinds
      <3>5. got[i] = View[b] /\ b < Size
        <4>1. got[i] = page'.data[OffsetOf + i] /\ View = Seen(page', disk)
          BY <2>1, <2>3
        <4>2. b < Size
          BY <2>2, <3>3
        <4> HIDE DEF got
        <4>3. QED
          BY <3>3, <3>4, <4>1, <4>2
      <3>6. QED
        BY <3>5 DEF b
    <2>5. outcome'.op = "read" /\ outcome'.ok /\ outcome'.got = got
      BY <1>3 DEF Outcome
    <2> HIDE DEF got
    <2>6. got # <<>>
      BY <2>2, <2>3, EmptySeq
    <2>7. QED
      BY <1>0, <1>1, <1>2, <1>3, <2>3, <2>4, <2>5, <2>6 DEF Stream!Read
  <1>4. CASE Outcome("read", FALSE, <<>>) /\ UNCHANGED pos
    <2>1. outcome'.op = "read" /\ ~outcome'.ok /\ outcome'.got = <<>> /\ Len(<<>>) = 0 /\ pos \in Nat
      BY <1>1, <1>4, EmptySeq DEF Outcome, BufferTypeOK
    <2>2. pos' = pos + Len(outcome'.got) /\ 1 .. Len(outcome'.got) = {}
      BY <1>4, <2>1
    <2>3. QED
      BY <1>0, <1>1, <1>2, <2>1, <2>2 DEF Stream!Read
  <1>5. QED
    BY <1>3, <1>4 DEF Read

LEMMA WriteImplements ==
  ASSUME SizesAssumption, Straight, StreamInv, NEW data \in Seq(Byte), data # <<>>, Write(data)
  PROVE  Stream!Write
  <1>0. kind' = kind /\ Straight'
    BY StraightStays, Zenon DEF Write
  <1>1. /\ BufferTypeOK /\ CleanSeen /\ ~stale /\ Streaming /\ Streaming' /\ PageOf \in Nat /\ OffsetOf \in Nat
        /\ kind' = kind /\ disk' = disk /\ disk \in Disk /\ pos \in Nat
    BY PositionInPage, PageKinds DEF Write, StreamInv, Streaming, BufferTypeOK
  <1> DEFINE new == SubSeq(data, 1, Smaller(Len(data), Available))
  <1>2. new \in Seq(Byte) /\ Len(new) \in Nat \ {0} /\ OffsetOf + Len(new) <= PageSize /\ new # <<>>
    <2>1. /\ new \in Seq(Byte) /\ Len(new) = Smaller(Len(data), Available) /\ Len(new) \in Nat
          /\ new = <<>> \/ OffsetOf + Len(new) <= PageSize
      BY <1>1, Taken
    <2>2. Len(data) \in Nat \ {0} /\ Available \in Nat \ {0}
      BY <1>1, Position, EmptySeq, LenProperties
    <2> HIDE DEF new
    <2>3. Len(new) # 0
      BY <2>1, <2>2 DEF Smaller
    <2>4. QED
      BY <2>1, <2>3, EmptySeq
  <1>3. CASE /\ Loadable(PageOf)
             /\ page' = Changed(Loaded(PageOf), OffsetOf, new)
             /\ Outcome("write", TRUE, new)
             /\ pos' = pos + Len(new)
    <2> HIDE DEF new
    <2> DEFINE q == Loaded(PageOf)
    <2>1. q \in RealPage /\ q.number = PageOf /\ Seen(q, disk) = View
      BY <1>1, <1>3, Loading, LoadingSeen
    <2>2. PageOf \in Numbers /\ pos = FirstByte(q.number) + OffsetOf
      BY <1>1, <2>1, Position DEF RealPage
    <2>3. page' = Changed(q, OffsetOf, new)
      BY <1>3
    <2> HIDE DEF q
    <2>4. Seen(Changed(q, OffsetOf, new), disk) =
            [b \in 0 .. Size - 1 |-> IF b \in pos .. pos + Len(new) - 1 THEN new[b - pos + 1]
                                     ELSE Seen(q, disk)[b]]
      BY <1>1, <1>2, <2>1, <2>2, ChangedSeen
    <2>5. View' = [b \in 0 .. Size - 1 |-> IF b \in pos .. pos + Len(new) - 1 THEN new[b - pos + 1]
                                          ELSE View[b]]
      BY <1>1, <2>1, <2>3, <2>4, AsOperatorsNext
    <2>6. pos + Len(new) <= Size \/ new = <<>>
      <3>1. FirstByte(PageOf) \in Nat /\ FirstByte(PageOf) + PageSize <= Size /\ PageSize \in Nat /\ Size \in Nat
        BY <2>2, PageInside, SizesAreNumbers
      <3>2. pos = FirstByte(PageOf) + OffsetOf
        BY <2>1, <2>2
      <3>3. QED
        BY <1>1, <1>2, <3>1, <3>2
    <2>7. outcome'.op = "write" /\ outcome'.ok /\ outcome'.got = new
      BY <1>3 DEF Outcome
    <2>8. QED
      BY <1>0, <1>1, <1>2, <1>3, <2>5, <2>6, <2>7 DEF Stream!Write
  <1>4. CASE LoadFails(PageOf) /\ Outcome("write", FALSE, <<>>) /\ UNCHANGED pos
    <2>1. outcome'.op = "write" /\ ~outcome'.ok /\ outcome'.got = <<>> /\ Len(<<>>) = 0
      BY <1>4, EmptySeq DEF Outcome
    <2>2. pos' = pos + Len(outcome'.got) /\ pos .. pos + Len(outcome'.got) - 1 = {}
      BY <1>1, <1>4, <2>1
    <2>3. View' = View
      BY <1>1, <1>4, AsOperators, AsOperatorsNext DEF LoadFails
    <2>4. View = [b \in 0 .. Size - 1 |-> View[b]]
      BY DEF View
    <2>5. QED
      BY <1>0, <1>1, <2>1, <2>2, <2>3, <2>4 DEF Stream!Write
  <1>5. QED
    BY <1>3, <1>4 DEF Write

LEMMA FlushImplements ==
  ASSUME SizesAssumption, StreamInv, Straight, NEW ok \in BOOLEAN, Flush(ok)
  PROVE  Stream!Flush
  <1>0. Streaming /\ kind' = kind /\ Straight'
    BY StraightStays DEF Flush, Straight
  <1>1. /\ BufferTypeOK /\ CleanSeen /\ ~stale /\ Streaming' /\ FlushDisk(ok) /\ pos' = pos
        /\ outcome'.op = "flush" /\ outcome'.ok = ok
    BY <1>0 DEF Flush, StreamInv, Streaming, Outcome
  <1>2. View' = View /\ disk' \in Disk /\ \A b \in 0 .. Size - 1 : disk'[b] \in {disk[b], View[b]}
    BY <1>1, FlushInv, Flushing
  <1>3. ok => disk' = View
    BY <1>1, Flushing, PageKinds DEF CleanSeen
  <1>4. QED
    BY <1>0, <1>1, <1>2, <1>3 DEF Stream!Flush, Stream!Saving, Disk

LEMMA SeekImplements ==
  ASSUME SizesAssumption, StreamInv, Straight, NEW target \in Int, Seek(target)
  PROVE  Stream!Seek
  <1>0. kind' = kind /\ Straight'
    BY StraightStays DEF Seek
  <1>1. BufferTypeOK /\ Streaming /\ Streaming'
    BY DEF Seek, StreamInv, Streaming
  <1>2. /\ View' = View
        /\ \A b \in 0 .. Size - 1 : disk'[b] \in {disk[b], View[b]}
        /\ outcome'.op = "seek" /\ (outcome'.ok => disk' = View) /\ (~outcome'.ok => pos' = pos)
        /\ BufferTypeOK'
    BY SeekInv DEF StreamInv
  <1>3. disk' \in [0 .. Size - 1 -> Byte]
    BY <1>2 DEF BufferTypeOK
  <1>4. QED
    BY <1>0, <1>1, <1>2, <1>3 DEF Stream!Seek, Stream!Saving

\* Direct calls are none of a stream, and a stack stream over larger blocks is
\* none of these.
LEMMA OtherStutters ==
  ASSUME ~Straight, kind' = kind
  PROVE  UNCHANGED Stream!vars
  <1>1. ~Straight'
    BY StraightStays
  <1>2. QED
    BY <1>1 DEF Stream!vars

LEMMA NextImplements ==
  ASSUME SizesAssumption, StreamInv, [BufferNext]_bufferVars
  PROVE  [Stream!Next]_(Stream!vars)
  <1>1. CASE UNCHANGED bufferVars
    <2>1. UNCHANGED <<disk, pos, outcome>> /\ View' = View /\ kind' = kind
      BY <1>1 DEF bufferVars, View
    <2>2. Straight' = Straight
      BY <2>1, StraightStays
    <2>3. QED
      BY <2>1, <2>2 DEF Stream!vars
  <1>2. CASE BufferNext
    <2>1. kind' = kind
      <3>1. /\ \A ok : Flush(ok) => kind' = kind
            /\ \A len : Read(len) => kind' = kind
            /\ \A data : Write(data) => kind' = kind
            /\ \A target : Seek(target) => kind' = kind
        BY DEF Flush, Read, Write, Seek
      <3>2. /\ \A n : Load(n) \/ ReadDirect(n) => kind' = kind
            /\ \A offset, b : Modify(offset, <<b>>) => kind' = kind
            /\ Clear \/ Restart => kind' = kind
        BY DEF Load, ReadDirect, Modify, Clear, Restart
      <3>3. \A start, count, data : WriteDirect(start, data, count) => kind' = kind
        BY DEF WriteDirect
      <3>4. QED
        BY <1>2, <3>1, <3>2, <3>3 DEF BufferNext
    <2>2. CASE ~Straight
      BY <2>1, <2>2, OtherStutters
    <2>3. CASE Straight
      <3>1. ASSUME NEW ok \in BOOLEAN, Flush(ok) PROVE Stream!Next
        BY <2>3, <3>1, FlushImplements DEF Stream!Next
      <3>2. ASSUME NEW len \in 1 .. MaxLen, Read(len) PROVE Stream!Next
        <4>1. len \in Nat \ {0}
          BY DEF SizesAssumption
        <4>2. QED
          BY <2>3, <3>2, <4>1, ReadImplements DEF Stream!Next
      <3>3. ASSUME NEW data \in Buffers, Write(data) PROVE Stream!Next
        <4>1. data \in Seq(Byte) /\ data # <<>>
          BY DEF SizesAssumption
        <4>2. QED
          BY <2>3, <3>3, <4>1, WriteImplements DEF Stream!Next
      <3>4. ASSUME NEW target \in -1 .. Size, Seek(target) PROVE Stream!Next
        <4>1. target \in Int
          BY SizesAreNumbers
        <4>2. QED
          BY <2>3, <3>4, <4>1, SeekImplements DEF Stream!Next
      <3>5. ASSUME Restart PROVE Stream!Next
        <4>1. Straight' /\ Streaming
          BY <2>1, <2>3, StraightStays DEF Straight
        <4>2. Stream!Restart
          BY <2>3, <3>5, <4>1, RestartInv DEF Stream!Restart
        <4>3. QED
          BY <4>2 DEF Stream!Next
      <3>6. ~Direct
        BY <2>3 DEF Straight, Streaming, Direct
      <3>7. /\ \A n : ~Load(n) /\ ~ReadDirect(n)
            /\ \A offset, b : ~Modify(offset, <<b>>)
            /\ ~Clear
            /\ \A start, count, data : ~WriteDirect(start, data, count)
        BY <3>6 DEF Load, ReadDirect, Modify, Clear, WriteDirect
      <3>8. QED
        BY <1>2, <3>1, <3>2, <3>3, <3>4, <3>5, <3>7 DEF BufferNext
    <2>4. QED
      BY <2>2, <2>3
  <1>3. QED
    BY <1>1, <1>2

LEMMA InitImplements == ASSUME SizesAssumption, BufferInit PROVE Stream!Init
  <1>1. disk \in Disk /\ page = NoPage /\ pos = 0 /\ outcome = [op |-> "open", ok |-> TRUE, got |-> <<>>]
    BY DEF BufferInit, Disk
  <1>2. View = disk
    BY <1>1, SeenType, AsOperators DEF SomePage
  <1>3. [b \in 0 .. Size - 1 |-> 0] \in [0 .. Size - 1 -> Byte]
    BY DEF SizesAssumption
  <1>4. QED
    BY <1>1, <1>2, <1>3 DEF Stream!Init, Disk

\* A heap stream, and a stack stream over blocks of one byte, is a tape of
\* bytes: reads, writes, seeks and flushes, that fail or not, and restarts
\* never change or return a byte they are not about, a read or write that
\* returns Ok moves on, and what a flush that returned Ok covers is on the
\* device.
THEOREM StreamIsATape == ASSUME SizesAssumption PROVE BufferSpec => ImplementsByteStream
  <1>1. BufferInit => Stream!Init
    BY InitImplements
  <1>2. StreamInv /\ [BufferNext]_bufferVars => [Stream!Next]_(Stream!vars)
    BY NextImplements
  <1>3. QED
    BY <1>1, <1>2, StreamInvariant, PTL DEF BufferSpec, ImplementsByteStream, Stream!StreamSpec
=============================================================================

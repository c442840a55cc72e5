------------------------------ MODULE PageStream ------------------------------
(***************************************************************************)
(* The page buffer and the streams over it (fatrs-adapters):               *)
(* domain/page_buffer.rs, one page of the device held in memory, clean or  *)
(* dirty; adapters/heap_buffer.rs and stack_buffer.rs, which pass the      *)
(* calls on; infrastructure/streaming/heap_page_stream.rs and              *)
(* stack_page_stream.rs, which add a position.  A write to the device may  *)
(* fail after some of the page's blocks were written, and the program may  *)
(* stop at any moment.                                                     *)
(*                                                                         *)
(* `kind' says who uses the buffer: a "heap" stream, a "stack" stream, or  *)
(* "direct" calls of PageBuffer itself.                                    *)
(***************************************************************************)
EXTENDS Integers, Sequences

CONSTANTS
  Users,      \* the users to be explored
  Byte,
  Pages,      \* pages of the device
  PageBlocks, \* blocks of a page (PageConfig.blocks_per_page)
  BlockSize,  \* bytes of a block
  Buffers,    \* the buffers given to a call that writes
  MaxLen,     \* bound: bytes of the buffer given to one read
  MaxFaults,  \* bound: failed device calls
  MaxRestarts \* bound: restarts

\* Checked where the constants get their values.
SizesAssumption ==
  /\ Users \subseteq {"heap", "stack", "direct"}
  /\ 0 \in Byte    \* what write_blocks fills the last block with
  /\ Pages \in Nat \ {0} /\ PageBlocks \in Nat \ {0} /\ BlockSize \in Nat \ {0}
  /\ \A data \in Buffers : data \in Seq(Byte) /\ data # <<>>
  /\ MaxLen \in Nat /\ MaxFaults \in Nat /\ MaxRestarts \in Nat

VARIABLES
  kind,
  disk,      \* the bytes of the device
  page,      \* PageBuffer.current
  pos,       \* the stream's position
  stale,     \* a direct write over the buffered page failed part-way
  outcome,   \* of the last call, as in ByteStream
  faults, restarts

bufferVars == <<kind, disk, page, pos, stale, outcome, faults, restarts>>

PageSize == PageBlocks * BlockSize
Size == Pages * PageSize
Numbers == 0 .. Pages - 1
NoPage == [number |-> -1, data |-> <<>>, dirty |-> FALSE]

\* The bytes of page n, and the first of them.
FirstByte(n) == n * PageSize
OnDisk(n) == [i \in 1 .. PageSize |-> disk[FirstByte(n) + i - 1]]

\* The page size the stream divides its position by.  The heap stream takes
\* the buffer's; the stack stream takes N * BLOCK_SIZE where the buffer's
\* page has N bytes.
StreamPage == IF kind = "stack" THEN PageSize * BlockSize ELSE PageSize

BufferInit ==
  /\ kind \in Users
  /\ disk \in [0 .. Size - 1 -> Byte]
  /\ page = NoPage
  /\ pos = 0 /\ stale = FALSE
  /\ outcome = [op |-> "open", ok |-> TRUE, got |-> <<>>]
  /\ faults = 0 /\ restarts = 0

Outcome(op, ok, got) == outcome' = [op |-> op, ok |-> ok, got |-> got]

\* The call met a device error, or none.
Faulty(failed) == /\ faults' = faults + (IF failed THEN 1 ELSE 0)
                  /\ faults' <= MaxFaults

-----------------------------------------------------------------------------
(* PageBuffer                                                              *)

\* load(n) finds the page, may replace the one it holds, or must refuse
\* (DirtyPageConflict).  A page outside the device cannot be read.
Held(n) == page.number = n
Conflicts(n) == page.number \notin {-1, n} /\ page.dirty
Loadable(n) == Held(n) \/ (~Conflicts(n) /\ n \in Numbers)
Loaded(n) == IF Held(n) THEN page
             ELSE [number |-> n, data |-> OnDisk(n), dirty |-> FALSE]

\* load(n) does not return Ok: the buffer stays as it was.
LoadFails(n) ==
  /\ ~Held(n)
  /\ IF Loadable(n) THEN Faulty(TRUE) ELSE Faulty(FALSE)
  /\ UNCHANGED page

\* data_mut and a copy into it: the bytes `new' at `offset' of the page q.
Changed(q, offset, new) ==
  [q EXCEPT !.data = [i \in 1 .. PageSize |->
                        IF i \in offset + 1 .. offset + Len(new)
                        THEN new[i - offset] ELSE q.data[i]],
            !.dirty = TRUE]

\* The device with `count' blocks of `data' written from byte `first' on
\* (write_blocks: the end of the last block is filled with zeros).
Written(first, data, count) ==
  [b \in 0 .. Size - 1 |->
     IF b \in first .. first + count * BlockSize - 1
     THEN IF b - first < Len(data) THEN data[b - first + 1] ELSE 0
     ELSE disk[b]]

\* store of the page, or flush when it is dirty: the device may fail when
\* some of the blocks are written, and the page then stays dirty.
Store(ok) ==
  /\ ok => disk' = Written(FirstByte(page.number), page.data, PageBlocks)
  /\ ~ok => \E count \in 0 .. PageBlocks - 1 :
               disk' = Written(FirstByte(page.number), page.data, count)
FlushDisk(ok) == IF page.dirty THEN Store(ok) ELSE ok /\ UNCHANGED disk
\* Mutant: mark_clean comes before the write.
MutAfterFlush(ok) == [page EXCEPT !.dirty = FALSE]

AfterFlush(ok) == IF ok THEN [page EXCEPT !.dirty = FALSE] ELSE page

Flush(ok) ==
  /\ FlushDisk(ok)
  /\ page' = AfterFlush(ok)
  /\ Outcome("flush", ok, <<>>)
  /\ Faulty(~ok)
  /\ UNCHANGED <<kind, pos, stale, restarts>>

-----------------------------------------------------------------------------
(* The streams                                                             *)

Streaming == kind \in {"heap", "stack"}
Smaller(a, b) == IF a < b THEN a ELSE b

\* Where the position falls, and how much of the page there is from there
\* (data.len().saturating_sub(page_offset)).
PageOf == pos \div StreamPage
OffsetOf == pos % StreamPage
Available == IF OffsetOf < PageSize THEN PageSize - OffsetOf ELSE 0

Read(len) ==
  /\ Streaming
  /\ \/ LET n == Smaller(len, Available) IN
          /\ Loadable(PageOf) /\ Faulty(FALSE)
          /\ page' = Loaded(PageOf)
          /\ Outcome("read", TRUE, SubSeq(page'.data, OffsetOf + 1, OffsetOf + n))
          /\ pos' = pos + n
     \/ LoadFails(PageOf) /\ Outcome("read", FALSE, <<>>) /\ UNCHANGED pos
  /\ UNCHANGED <<kind, disk, stale, restarts>>

Write(data) ==
  /\ Streaming
  /\ \/ LET new == SubSeq(data, 1, Smaller(Len(data), Available)) IN
          /\ Loadable(PageOf) /\ Faulty(FALSE)
          /\ page' = Changed(Loaded(PageOf), OffsetOf, new)
          /\ Outcome("write", TRUE, new)
          /\ pos' = pos + Len(new)
     \/ LoadFails(PageOf) /\ Outcome("write", FALSE, <<>>) /\ UNCHANGED pos
  /\ UNCHANGED <<kind, disk, stale, restarts>>

Seekable(target) == target >= 0

\* seek flushes first, asks the device for its size, and refuses a negative
\* target after that.  Leaving the page clears the buffer.
Seek(target) ==
  /\ Streaming
  /\ \E flushed, sized \in BOOLEAN :
       LET ok == flushed /\ sized /\ Seekable(target) IN
         /\ FlushDisk(flushed)
         /\ flushed \/ sized
         /\ Faulty(~flushed \/ ~sized)
         /\ page' = IF ok /\ target \div StreamPage # PageOf THEN NoPage
                    ELSE AfterFlush(flushed)
         /\ pos' = IF ok THEN target ELSE pos
         /\ Outcome("seek", ok, <<>>)
  /\ UNCHANGED <<kind, stale, restarts>>

-----------------------------------------------------------------------------
(* PageBuffer used directly                                                *)

Direct == kind = "direct"

Load(n) ==
  /\ Direct
  /\ \/ /\ Loadable(n) /\ Faulty(FALSE)
        /\ page' = Loaded(n)
        /\ stale' = (stale /\ Held(n))
        /\ Outcome("load", TRUE, <<>>)
     \/ LoadFails(n) /\ Outcome("load", FALSE, <<>>) /\ UNCHANGED stale
  /\ UNCHANGED <<kind, disk, pos, restarts>>

Modify(offset, new) ==
  /\ Direct /\ page # NoPage
  /\ page' = Changed(page, offset, new)
  /\ Outcome("modify", TRUE, <<>>)
  /\ UNCHANGED <<kind, disk, pos, stale, faults, restarts>>

Clear ==
  /\ Direct
  /\ page' = NoPage /\ stale' = FALSE
  /\ Outcome("clear", TRUE, <<>>)
  /\ UNCHANGED <<kind, disk, pos, faults, restarts>>

\* read_pages_direct does not look at the buffered page.
ReadDirect(n) ==
  /\ Direct
  /\ Outcome("read_direct", TRUE, OnDisk(n))
  /\ UNCHANGED <<kind, disk, page, pos, stale, faults, restarts>>

\* Mutant: the last of the pages is not counted.
MutCovers(start, count) == page.number \in start .. start + count - 2

\* write_pages_direct(start, data, count): the buffered page is dropped when
\* it is one of the `count' pages, changes and all, but only when the device
\* reported no error.
Covers(start, count) == page.number \in start .. start + count - 1
WriteDirect(start, data, count) ==
  /\ Direct /\ Len(data) <= count * PageSize
  /\ LET blocks == (Len(data) + BlockSize - 1) \div BlockSize IN
       \/ /\ disk' = Written(FirstByte(start), data, blocks)
          /\ page' = IF Covers(start, count) THEN NoPage ELSE page
          /\ stale' = (stale /\ ~Covers(start, count))
          /\ outcome' = [op |-> "write_direct", ok |-> TRUE, got |-> data,
                       first |-> FirstByte(start), pages |-> count]
          /\ Faulty(FALSE)
       \/ /\ \E written \in 0 .. blocks - 1 :
               disk' = Written(FirstByte(start), data, written)
          /\ stale' = (stale \/ Covers(start, count))
          /\ Outcome("write_direct", FALSE, <<>>)
          /\ Faulty(TRUE)
          /\ UNCHANGED page
  /\ UNCHANGED <<kind, pos, restarts>>

-----------------------------------------------------------------------------
\* The program ends, and opens the device again.
Restart ==
  /\ restarts < MaxRestarts
  /\ page' = NoPage /\ pos' = 0 /\ stale' = FALSE
  /\ Outcome("open", TRUE, <<>>)
  /\ restarts' = restarts + 1
  /\ UNCHANGED <<kind, disk, faults>>

BufferNext ==
  \/ \E ok \in BOOLEAN : Flush(ok)
  \/ \E len \in 1 .. MaxLen : Read(len)
  \/ \E data \in Buffers : Write(data)
  \/ \E target \in -1 .. Size : Seek(target)
  \/ \E n \in Numbers : Load(n) \/ ReadDirect(n)
  \/ \E offset \in 0 .. PageSize - 1, b \in Byte : Modify(offset, <<b>>)
  \/ Clear
  \/ \E start \in Numbers, count \in 1 .. Pages, data \in Buffers :
       start + count <= Pages /\ WriteDirect(start, data, count)
  \/ Restart

BufferSpec == BufferInit /\ [][BufferNext]_bufferVars

-----------------------------------------------------------------------------
(* The page in memory is a page of the device, of full length, and the     *)
(* position, the answer and the counters are in range.                     *)
BufferTypeOK ==
  /\ kind \in Users
  /\ disk \in [0 .. Size - 1 -> Byte]
  /\ page \in {NoPage} \cup [number : Numbers, data : [1 .. PageSize -> Byte], dirty : BOOLEAN]
  /\ pos \in Nat /\ stale \in BOOLEAN
  /\ faults \in 0 .. MaxFaults /\ restarts \in 0 .. MaxRestarts

\* A page that is marked clean is what the device holds, whichever of the
\* buffered and the direct calls were mixed (page_buffer.rs:16-21): a later
\* load of it, which does not read the device, may trust it.  The exception
\* is a direct write over it that failed part-way, which leaves it in place.
CleanPageIsStored ==
  page # NoPage /\ ~page.dirty /\ ~stale => page.data = OnDisk(page.number)

\* What a reader sees: the page in memory, the device elsewhere.
View == [b \in 0 .. Size - 1 |->
           IF page.number = b \div PageSize
           THEN page.data[(b % PageSize) + 1] ELSE disk[b]]

\* After a direct write of whole pages a reader sees what was written there,
\* and elsewhere what it saw before: the buffered page neither hides the
\* pages written nor is lost when it is not one of them.  (Given a slice
\* shorter than the pages it names, the call drops a dirty page it did not
\* write.)
DirectWriteIsSeen ==
  [][ /\ outcome'.op = "write_direct" /\ outcome'.ok
      /\ Len(outcome'.got) = outcome'.pages * PageSize
      => View' = [b \in 0 .. Size - 1 |->
                    IF b - outcome'.first \in 0 .. Len(outcome'.got) - 1
                    THEN outcome'.got[b - outcome'.first + 1] ELSE View[b]] ]_bufferVars

\* The streams that divide their position by the length of the buffer's page:
\* all heap streams, and stack streams over blocks of a single byte.
Straight == Streaming /\ StreamPage = PageSize

\* Such a stream, used in any order of reads, writes, seeks and flushes,
\* through device errors and restarts, is a tape of bytes (ByteStream).  A
\* stack stream over larger blocks is none, see StackIsAStream.
Stream == INSTANCE ByteStream WITH
  bytes <- IF Straight THEN View ELSE [b \in 0 .. Size - 1 |-> 0],
  saved <- IF Straight THEN disk ELSE [b \in 0 .. Size - 1 |-> 0],
  pos <- IF Straight THEN pos ELSE 0,
  reply <- IF Straight THEN outcome
           ELSE [op |-> "open", ok |-> TRUE, got |-> <<>>]
ImplementsByteStream == Stream!StreamSpec

\* A stack stream of pages of N bytes is a tape of bytes, N being the "Page
\* size in bytes" (stack_page_stream.rs:20).
Stack == INSTANCE ByteStream WITH
  bytes <- View, saved <- disk, pos <- pos, reply <- outcome
StackIsAStream == Stack!StreamSpec
=============================================================================

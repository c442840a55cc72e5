------------------------------ MODULE ByteStream ------------------------------
(***************************************************************************)
(* What a stream over a block device promises its user: a tape of bytes    *)
(* with a position.  A call may do less than it was asked to, or fail, but *)
(* it never changes or returns a byte other than those it is about, and    *)
(* what a successful flush covers is there after a restart.                *)
(***************************************************************************)
EXTENDS Integers, Sequences

CONSTANTS Size, Byte

VARIABLES
  bytes,   \* the content, as a reader of the stream sees it
  saved,   \* the content, as it would be found after a restart
  pos,     \* the position of the stream
  reply    \* of the last call: [op, ok, got]

vars == <<bytes, saved, pos, reply>>

Init ==
  /\ bytes \in [0 .. Size - 1 -> Byte]
  /\ saved = bytes
  /\ pos = 0
  /\ reply = [op |-> "open", ok |-> TRUE, got |-> <<>>]

Answered(op, ok, got) == reply' = [op |-> op, ok |-> ok, got |-> got]

\* The bytes in reply.got, at least one unless the call fails, are those from
\* the position on, and the position moves.
Read ==
  /\ reply'.op = "read" /\ pos' = pos + Len(reply'.got)
  /\ reply'.ok <=> reply'.got # <<>>
  /\ \A i \in 1 .. Len(reply'.got) :
       pos + i - 1 < Size /\ reply'.got[i] = bytes[pos + i - 1]
  /\ UNCHANGED <<bytes, saved>>

\* `got' holds what was taken of the buffer, at least a byte unless the call
\* fails: those bytes, and no others, are now at the position.
Write ==
  /\ reply'.op = "write" /\ pos' = pos + Len(reply'.got)
  /\ reply'.ok <=> reply'.got # <<>>
  /\ pos + Len(reply'.got) <= Size \/ reply'.got = <<>>
  /\ bytes' = [b \in 0 .. Size - 1 |->
                 IF b \in pos .. pos + Len(reply'.got) - 1
                 THEN reply'.got[b - pos + 1] ELSE bytes[b]]
  /\ UNCHANGED saved

\* Some bytes reach the device; all of them when the call succeeds.
Saving ==
  /\ saved' \in [0 .. Size - 1 -> Byte]
  /\ \A b \in 0 .. Size - 1 : saved'[b] \in {saved[b], bytes[b]}
  /\ reply'.ok => saved' = bytes
  /\ UNCHANGED bytes

Flush == reply'.op = "flush" /\ Saving /\ UNCHANGED pos
Seek == reply'.op = "seek" /\ Saving /\ (~reply'.ok => pos' = pos)

\* A restart opens the stream again on what was saved.
Restart ==
  /\ reply'.op = "open"
  /\ bytes' = saved /\ pos' = 0
  /\ UNCHANGED saved

Next == Read \/ Write \/ Flush \/ Seek \/ Restart

StreamSpec == Init /\ [][Next]_vars
=============================================================================

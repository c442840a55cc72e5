----------------------------- MODULE FileStore ------------------------------
(***************************************************************************)
(* What an open file promises its user (the io::Read, io::Write and        *)
(* io::Seek traits that File implements, and File::truncate): a sequence   *)
(* of bytes with a position.                                               *)
(***************************************************************************)
EXTENDS Sequences, Integers

CONSTANTS
  Values,   \* what a byte can hold
  MaxSize   \* MAX_FILE_SIZE

VARIABLES
  content,  \* the bytes of the file
  pos,      \* the position
  out       \* what the last call returned: its kind, and the bytes if it was a read

vars == <<content, pos, out>>

Returned(kind, bytes) == [kind |-> kind, bytes |-> bytes]

Init == content = <<>> /\ pos = 0 /\ out = Returned("none", <<>>)

\* Some of the bytes of the buffer, at least one, replace or extend what is there.
Write ==
  \E k \in 1 .. MaxSize - pos, v \in Values :
    /\ content' = [i \in 1 .. (IF pos + k > Len(content) THEN pos + k ELSE Len(content)) |->
                     IF i \in pos + 1 .. pos + k THEN v ELSE content[i]]
    /\ pos' = pos + k
    /\ out' = Returned("wrote", <<>>)

\* Nothing is written only at the largest size a file may have.
WriteNothing ==
  /\ pos = MaxSize
  /\ out' = Returned("full", <<>>)
  /\ UNCHANGED <<content, pos>>

\* The bytes from the position on, at least one; nothing only at the end.
Read ==
  \E k \in 1 .. Len(content) - pos :
    /\ pos' = pos + k
    /\ out' = Returned("read", SubSeq(content, pos + 1, pos + k))
    /\ UNCHANGED content

ReadNothing ==
  /\ pos = Len(content)
  /\ out' = Returned("end", <<>>)
  /\ UNCHANGED <<content, pos>>

\* Inside the file.
Seek ==
  /\ pos' \in 0 .. Len(content)
  /\ out' = Returned("none", <<>>)
  /\ UNCHANGED content

Truncate ==
  /\ content' = SubSeq(content, 1, pos)
  /\ out' = Returned("none", <<>>)
  /\ UNCHANGED pos

Next == Write \/ WriteNothing \/ Read \/ ReadNothing \/ Seek \/ Truncate

Spec == Init /\ [][Next]_vars
=============================================================================

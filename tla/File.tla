-------------------------------- MODULE File --------------------------------
(***************************************************************************)
(* What an open file promises: a sequence of bytes, a position in it, and  *)
(* reads that return what lies at the position and move it forward.        *)
(***************************************************************************)
EXTENDS Integers, Sequences

CONSTANTS
    Contents,   \* what files may hold
    Lens,       \* how many bytes a read may ask for
    Seeks       \* where a seek may go

VARIABLES
    content,    \* the bytes of the open file
    pos,        \* the position, or -1 if no file is open
    asked,      \* how many bytes the last read asked for
    last        \* the bytes it returned

vars == <<content, pos, asked, last>>

Init == content = <<>> /\ pos = -1 /\ asked = 0 /\ last = <<>>

Open == pos = -1 /\ content' \in Contents /\ pos' = 0 /\ UNCHANGED <<asked, last>>

Read(n) ==
    LET end == IF pos + n > Len(content) THEN Len(content) ELSE pos + n
    IN  /\ pos >= 0
        /\ asked' = n
        /\ last' = SubSeq(content, pos + 1, end)
        /\ pos' = end
        /\ UNCHANGED content

\* A seek goes where it is told, or to the end of the file if that is past it.
Seek(o) ==
    /\ pos >= 0
    /\ pos' = IF o > Len(content) THEN Len(content) ELSE o
    /\ UNCHANGED <<content, asked, last>>

Close == pos >= 0 /\ pos' = -1 /\ content' = <<>> /\ UNCHANGED <<asked, last>>

Next ==
    \/ Open
    \/ \E n \in Lens : Read(n)
    \/ \E o \in Seeks : Seek(o)
    \/ Close

Spec == Init /\ [][Next]_vars

=============================================================================

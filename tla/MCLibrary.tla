----------------------------- MODULE MCLibrary ------------------------------
(***************************************************************************)
(* The library, with small words and short formats.                        *)
(***************************************************************************)
EXTENDS Library

\* Blocks as list_create finds them.
SomeRam == {[head |-> NULL, length |-> 0]}

\* The word of a mutex may look locked before mutex_init.
SomeJunk == {0, 1, -5}

\* All numbers of a word of three hexadecimal digits; long arguments fit in half
\* a word, as the kernel's addresses below two gigabytes do.
AllShort == 0 .. 4095

SomeLong == 0 .. 200

\* Characters, conversions that one or the other of the two functions knows, and
\* unknown ones.
SomeTokens ==
    {<<"a">>, <<"%", "c">>, <<"%", "s">>, <<"%", "d">>, <<"%", "x">>, <<"%", "f">>,
     <<"%", "%">>, <<"%", "l", "d">>, <<"%", "l", "x">>, <<"%", "l", "%">>}

SomeTails == {<<>>, <<"%">>, <<"%", "l">>}

\* What the theorems of LibraryProofs suppose.
ASSUME MeetsHypotheses == ZeroedRam /\ N!LongsFit

=============================================================================

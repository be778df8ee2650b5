------------------------------ MODULE Library -------------------------------
(***************************************************************************)
(* What the rest of the kernel is written with: lists, mutexes, numbers in *)
(* text and format strings.                                                *)
(*                                                                         *)
(* The four have no variable in common, so the states that one of them can *)
(* reach do not depend on the others: a behaviour is one in which a single *)
(* one is used and the others stay where they began.                       *)
(***************************************************************************)
EXTENDS List, Mutex

CONSTANTS
    Word, HexDigits, Short, Long,   \* Numerals
    Tokens, Tails, MaxTokens        \* Format

VARIABLES
    unit,       \* what is used
    printer, conversion, arg, itoa, number, negative, str, lo, hi, text,    \* Numerals
    caller, tokens, tail, loop, index, ap, out                              \* Format

numeral   == <<printer, conversion, arg, itoa, number, negative, str, lo, hi, text>>
formatted == <<caller, tokens, tail, loop, index, ap, out>>

all == <<unit, vars, mutexVars, numeral, formatted>>

N == INSTANCE Numerals WITH caller <- printer, pc <- itoa, i <- number

F == INSTANCE Format WITH pc <- loop, i <- index

ASSUME LibraryAssumption ==
    /\ N!NumeralsAssumption /\ F!FormatAssumption
    /\ 0 \in Junk /\ 0 \in Short /\ <<>> \in Tails

-----------------------------------------------------------------------------
\* The call of itoa, and the format, while others are in use.
NumberAtRest ==
    /\ printer = "printf" /\ conversion = "d" /\ arg = 0 /\ itoa = "convert" /\ number = 0
    /\ negative = FALSE /\ str = <<>> /\ lo = 0 /\ hi = 0 /\ text = <<>>

FormatAtRest ==
    /\ caller = "printf" /\ tokens = <<>> /\ tail = <<>>
    /\ loop = "for" /\ index = 0 /\ ap = 0 /\ out = <<>>

LibraryInit ==
    /\ unit \in {"list", "mutex", "numeral", "format"}
    /\ Init
    /\ MutexInit /\ (unit = "mutex" \/ mutex = 0)
    /\ IF unit = "numeral" THEN N!Init ELSE NumberAtRest
    /\ IF unit = "format" THEN F!Init ELSE FormatAtRest

LibraryNext ==
    \/ /\ unit = "list" /\ Next
       /\ UNCHANGED <<unit, mutexVars, numeral, formatted>>
    \/ /\ unit = "mutex" /\ MutexNext
       /\ UNCHANGED <<unit, vars, numeral, formatted>>
    \/ /\ unit = "numeral" /\ N!Next
       /\ UNCHANGED <<unit, vars, mutexVars, formatted>>
    \/ /\ unit = "format" /\ F!Next
       /\ UNCHANGED <<unit, vars, mutexVars, numeral>>

\* The fairness of Numerals and of Format.
LibraryFairness ==
    /\ WF_numeral(unit = "numeral" /\ N!Next)
    /\ WF_formatted(unit = "format" /\ F!Next)

LibrarySpec == LibraryInit /\ [][LibraryNext]_all /\ LibraryFairness

-----------------------------------------------------------------------------
\* The state of all four is well typed.
LibraryTypeOK == TypeOK /\ MutexTypeOK /\ N!TypeOK /\ F!TypeOK

\* list.c behaves as a sequence, whatever is deleted in between, and its nodes
\* agree with that: length is what a walk counts, no node is lost or freed while
\* it is linked, and the links are inverse to each other.
ListRight == IsSequence /\ [](LengthCounts /\ NoNodeLost /\ BackLinked)

\* What printf and sprintf show is what they were given.  A number stands for
\* itself, in full and without a digit too many: zero, numbers of each length
\* and the smallest negative one, which itoa negates to itself.  Each conversion
\* takes its own argument, after the words that the ones before it took, and an
\* unknown or incomplete one hides nothing that follows it.
Printed == N!Denotes /\ N!Plain /\ F!Interpreted

\* No loop over a number or a format is endless: itoa returns, whatever the
\* number, also the smallest negative one, and printf and sprintf return, whatever
\* the format, also with conversions that are unknown or cut short.
Terminates == (unit = "numeral" => N!Returns) /\ (unit = "format" => F!Returns)

=============================================================================

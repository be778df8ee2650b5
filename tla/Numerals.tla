------------------------------ MODULE Numerals ------------------------------
(***************************************************************************)
(* kernel/src/string.c: itoa and reverse, and what printf (display.c) and  *)
(* sprintf (string.c) make of a number with them.                          *)
(*                                                                         *)
(* A digit is its value and a string a sequence of them.  itoa takes an    *)
(* int32_t and computes with it as an unsigned number, which is how C      *)
(* evaluates i % base and i / base for an unsigned base.                   *)
(***************************************************************************)
EXTENDS Integers, Sequences

CONSTANTS
    Word,           \* uint32_t holds 0 .. Word - 1
    HexDigits,      \* the hexadecimal digits of a word
    Short, Long     \* the arguments of %d and %x, and of %ld and %lx

MINUS == -1

\* The words of k hexadecimal digits.
WordsOf[k \in 0 .. HexDigits] == IF k = 0 THEN 1 ELSE 16 * WordsOf[k - 1]

NumeralsAssumption ==
    /\ HexDigits \in Nat \ {0} /\ Word = WordsOf[HexDigits]
    /\ Short \subseteq 0 .. Word - 1 /\ Long \subseteq 0 .. Word * Word - 1

\* What Denotes holds for: long arguments are below half a word.
LongsFit == Long \subseteq 0 .. (Word \div 2) - 1

VARIABLES
    caller,             \* "printf" or "sprintf"
    conversion, arg,    \* how the number is printed, and the number
    pc,
    i, negative,        \* locals of itoa
    str,                \* the digits so far
    lo, hi,             \* locals of reverse
    text                \* what is printed

vars == <<caller, conversion, arg, pc, i, negative, str, lo, hi, text>>

base == IF conversion \in {"d", "ld"} THEN 10 ELSE 16

\* printf pads hexadecimal numbers with zeros, sprintf pads nothing.
Width ==
    CASE caller = "printf" /\ conversion = "x"  -> HexDigits
      [] caller = "printf" /\ conversion = "lx" -> 2 * HexDigits
      [] OTHER -> 0

Init ==
    /\ caller \in {"printf", "sprintf"}
    /\ \/ conversion \in {"d", "x"} /\ arg \in Short
       \/ conversion \in {"ld", "lx"} /\ arg \in Long
    /\ pc = "convert" /\ i = 0 /\ negative = FALSE /\ str = <<>> /\ lo = 0 /\ hi = 0
    /\ text = <<>>

\* The argument becomes itoa's int32_t parameter; one that is negative is
\* negated in base 10, the smallest of them to itself.
Convert ==
    LET n == arg % Word
        isNegative == n >= Word \div 2 /\ base = 10
    IN  /\ pc = "convert" /\ pc' = "digits"
        /\ negative' = isNegative
        /\ i' = IF isNegative THEN (Word - n) % Word ELSE n
        /\ UNCHANGED <<caller, conversion, arg, str, lo, hi, text>>

\* Mutant: the remainder is not taken.
Remainder_Not == i

Remainder == i % base

Digit ==
    /\ pc = "digits" /\ i # 0
    /\ str' = Append(str, Remainder) /\ i' = i \div base
    /\ UNCHANGED <<caller, conversion, arg, pc, negative, lo, hi, text>>

\* Zero, or the sign.
Completed == IF str = <<>> THEN <<0>> ELSE IF negative THEN Append(str, MINUS) ELSE str

Complete ==
    /\ pc = "digits" /\ i = 0
    /\ str' = Completed
    /\ lo' = 1 /\ hi' = Len(Completed)
    /\ pc' = "reverse"
    /\ UNCHANGED <<caller, conversion, arg, i, negative, text>>

\* Mutant: the middle two are not swapped.
Reversing_Short == lo + 1 < hi

Reversing == lo < hi

Swap ==
    /\ pc = "reverse" /\ Reversing
    /\ str' = [str EXCEPT ![lo] = str[hi], ![hi] = str[lo]]
    /\ lo' = lo + 1 /\ hi' = hi - 1
    /\ UNCHANGED <<caller, conversion, arg, pc, i, negative, text>>

\* put_hex, which printf calls for %x and %lx.
Padding == [k \in 1 .. Width - Len(str) |-> 0]

Put ==
    /\ pc = "reverse" /\ ~Reversing
    /\ text' = Padding \o str
    /\ pc' = "done"
    /\ UNCHANGED <<caller, conversion, arg, i, negative, str, lo, hi>>

Next == Convert \/ Digit \/ Complete \/ Swap \/ Put

Spec == Init /\ [][Next]_vars /\ WF_vars(Next)

-----------------------------------------------------------------------------
\* The number that digits stand for.
Value(digits) ==
    LET v[k \in 0 .. Len(digits)] == IF k = 0 THEN 0 ELSE v[k - 1] * base + digits[k]
    IN  v[Len(digits)]

Number(t) == IF t # <<>> /\ t[1] = MINUS THEN -Value(Tail(t)) ELSE Value(t)

\* The argument as the conversion means it: signed in base 10.
Signed(n, w) == IF n >= w \div 2 THEN n - w ELSE n

Meant ==
    CASE conversion = "d"  -> Signed(arg, Word)
      [] conversion = "ld" -> Signed(arg, Word * Word)
      [] OTHER -> arg

\* The state is well typed: digits are below the base.
TypeOK ==
    /\ i \in 0 .. Word - 1 /\ negative \in BOOLEAN
    /\ \A k \in DOMAIN str : str[k] \in {MINUS} \cup 0 .. base - 1
    /\ pc \in {"convert", "digits", "reverse", "done"}

\* The text that is printed stands for the number that was passed: also for
\* zero, for numbers of each length and for the smallest negative number, whose
\* negation is itself.
Denotes == pc = "done" => Number(text) = Meant

\* A number is printed in full: as many digits as it was to be padded to, or,
\* unpadded, with none that could be left out.
Plain ==
    pc = "done" => IF Width > 0 THEN Len(text) = Width
                   ELSE text[1] # 0 \/ text = <<0>>

\* Every call returns.
Returns == <>(pc = "done")

=============================================================================

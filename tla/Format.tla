------------------------------- MODULE Format -------------------------------
(***************************************************************************)
(* The two interpreters of format strings in the kernel: sprintf_va        *)
(* (string.c), which the log uses, and printf (display.c).                 *)
(*                                                                         *)
(* The format is read character by character; ap is the word of the        *)
(* variable arguments that va_arg takes next.  What is written is a        *)
(* sequence of pieces: a character of the format, or a conversion together *)
(* with the word its argument starts at.  How a number becomes digits is   *)
(* the module Numerals.                                                    *)
(***************************************************************************)
EXTENDS Integers, Sequences, SequencesExt

CONSTANTS
    Tokens,     \* what a format is made of: sequences of characters
    Tails,      \* what it may end with
    MaxTokens   \* tokens in a format

\* Every format can be taken apart like this: a token is a character other than %,
\* a % with a character other than l, or a % with an l and a character, and at
\* the end there may be one that is cut short.  Conversions have names that no
\* character has.
FormatAssumption ==
    /\ \A t \in Tokens :
          /\ t \in Seq(STRING)
          /\ \/ Len(t) = 1 /\ t[1] # "%"
             \/ Len(t) = 2 /\ t[1] = "%" /\ t[2] \notin {"l", "ld", "lx"}
             \/ Len(t) = 3 /\ t[1] = "%" /\ t[2] = "l"
    /\ Tails \subseteq {<<>>, <<"%">>, <<"%", "l">>}
    /\ MaxTokens \in Nat

VARIABLES
    caller,         \* "printf" or "sprintf"
    tokens, tail,   \* how the format was put together
    pc, i,          \* where the loop is, and its index from zero
    ap,             \* the next word of the arguments
    out             \* what was written

vars == <<caller, tokens, tail, pc, i, ap, out>>

format == FlattenSeq(tokens) \o tail

len == Len(format)

\* The terminator is the character at len.
NUL == "NUL"

Char(k) == IF k < len THEN format[k + 1] ELSE NUL

Piece(kind, word) == [kind |-> kind, word |-> word]

Init ==
    /\ caller \in {"printf", "sprintf"}
    /\ tokens \in SeqOf(Tokens, MaxTokens) /\ tail \in Tails
    /\ pc = "for" /\ i = 0 /\ ap = 0 /\ out = <<>>

For ==
    /\ pc = "for"
    /\ pc' = IF i >= len THEN "done" ELSE IF caller = "sprintf" THEN "copy" ELSE "print"
    /\ UNCHANGED <<caller, tokens, tail, i, ap, out>>

-----------------------------------------------------------------------------
\* The words an argument takes on the stack: 64 bits are two.
Words(kind) == IF kind \in {"ld", "lx"} THEN 2 ELSE 1

\* The value of one va_arg is written, or becomes the attribute; the for loop
\* steps past the character at last.
Take(kind, last) ==
    /\ out' = Append(out, Piece(kind, ap))
    /\ ap' = ap + Words(kind)
    /\ i' = last + 1 /\ pc' = "for"

\* Mutant: the loop does not step past it.
Skip_Stays(last) ==
    /\ i' = i /\ pc' = "for"
    /\ UNCHANGED <<ap, out>>

\* Nothing is written: an unknown or an incomplete conversion.
Skip(last) ==
    /\ i' = last + 1 /\ pc' = "for"
    /\ UNCHANGED <<ap, out>>

\* sprintf_va: the characters up to the next conversion.
Copying == Char(i) # "%" /\ i < len

Copy ==
    /\ pc = "copy" /\ Copying
    /\ out' = Append(out, Piece(Char(i), -1)) /\ i' = i + 1
    /\ UNCHANGED <<caller, tokens, tail, pc, ap>>

TypeAt == i + 1

Convert ==
    /\ pc = "copy" /\ ~Copying
    /\ \/ TypeAt >= len /\ Skip(TypeAt)
       \/ TypeAt < len /\ Char(TypeAt) \in {"c", "s", "d", "x"} /\ Take(Char(TypeAt), TypeAt)
       \/ TypeAt < len /\ Char(TypeAt) = "l" /\ i' = TypeAt /\ pc' = "long" /\ UNCHANGED <<ap, out>>
       \/ TypeAt < len /\ Char(TypeAt) \notin {"c", "s", "d", "x", "l"} /\ Skip(TypeAt)
    /\ UNCHANGED <<caller, tokens, tail>>

\* The character after an l, for sprintf_va.
ConvertLong ==
    /\ pc = "long"
    /\ \/ i + 1 >= len /\ Skip(i + 1)
       \/ i + 1 < len /\ Char(i + 1) = "d" /\ Take("ld", i + 1)
       \/ i + 1 < len /\ Char(i + 1) = "x" /\ Take("lx", i + 1)
       \/ i + 1 < len /\ Char(i + 1) \notin {"d", "x"} /\ Skip(i + 1)
    /\ UNCHANGED <<caller, tokens, tail>>

-----------------------------------------------------------------------------
IsConversion == Char(i) = "%" /\ i + 1 < len

\* printf: any other character is shown.
PrintChar ==
    /\ pc = "print" /\ ~IsConversion
    /\ out' = Append(out, Piece(Char(i), -1)) /\ i' = i + 1 /\ pc' = "for"
    /\ UNCHANGED <<caller, tokens, tail, ap>>

\* An l with a character after it takes that one too.
AfterLong == i + 2

Directive ==
    /\ pc = "print" /\ IsConversion
    /\ \/ Char(i + 1) \in {"s", "d", "x", "f"} /\ Take(Char(i + 1), i + 1)
       \/ Char(i + 1) = "l" /\ i + 2 >= len /\ Skip(i + 1)
       \/ Char(i + 1) = "l" /\ i + 2 < len
          /\ \/ Char(i + 2) = "d" /\ Take("ld", AfterLong)
             \/ Char(i + 2) = "x" /\ Take("lx", AfterLong)
             \/ Char(i + 2) \notin {"d", "x"} /\ Skip(AfterLong)
       \/ Char(i + 1) \notin {"s", "d", "x", "f", "l"} /\ Skip(i + 1)
    /\ UNCHANGED <<caller, tokens, tail>>

Next == For \/ Copy \/ Convert \/ ConvertLong \/ PrintChar \/ Directive

Spec == Init /\ [][Next]_vars /\ WF_vars(Next)

-----------------------------------------------------------------------------
\* What a token asks for: itself, a conversion, or nothing.
Known == IF caller = "printf" THEN {"s", "d", "x", "ld", "lx", "f"}
         ELSE {"c", "s", "d", "x", "ld", "lx"}

\* The conversion of a token, and "plain" for a plain character.
Conversion(t) ==
    CASE Len(t) = 2 -> t[2]
      [] Len(t) = 3 -> IF t[3] = "d" THEN "ld" ELSE IF t[3] = "x" THEN "lx" ELSE "none"
      [] OTHER -> "plain"

Taken(t) == IF Conversion(t) \notin Known THEN 0 ELSE IF Len(t) = 3 THEN 2 ELSE 1

\* The words that the first k tokens take.
Before[k \in 0 .. MaxTokens] ==
    IF k = 0 THEN 0 ELSE Before[k - 1] + (IF k <= Len(tokens) THEN Taken(tokens[k]) ELSE 0)

Asked(k) ==
    CASE Len(tokens[k]) = 1 -> <<Piece(tokens[k][1], -1)>>
      [] Conversion(tokens[k]) \in Known -> <<Piece(Conversion(tokens[k]), Before[k - 1])>>
      [] OTHER -> <<>>

\* A % with nothing after it is shown by printf and dropped by sprintf; of an
\* incomplete long conversion neither shows anything.
AskedTail == IF caller = "printf" /\ tail = <<"%">> THEN <<Piece("%", -1)>> ELSE <<>>

\* The state is well typed.
TypeOK ==
    /\ pc \in {"for", "copy", "long", "print", "done"}
    /\ i \in 0 .. len + 2
    /\ ap \in 0 .. 2 * MaxTokens
    /\ \A k \in DOMAIN out : out[k].word \in -1 .. ap - 1

\* Every format is interpreted token by token: its characters are written as
\* they are, each conversion that is known takes its own argument (the one
\* after the words that the conversions before it took), and an unknown or
\* incomplete one writes nothing, takes nothing and hides nothing after it.
Interpreted ==
    pc = "done" =>
        out = FlattenSeq([k \in DOMAIN tokens |-> Asked(k)]) \o AskedTail

\* Every call returns.
Returns == <>(pc = "done")

=============================================================================

------------------------------ MODULE Terminal ------------------------------
(***************************************************************************)
(* What a text display promises: a character that it is given goes to the  *)
(* end of the last row, in its colour; a newline or a full row starts      *)
(* another; and when there are more rows than fit, the first one goes.     *)
(***************************************************************************)
EXTENDS Integers, Sequences

CONSTANTS
    Width, Height,
    Cells,      \* the characters that may be given, with their colours
    NEWLINE

VARIABLES
    rows,       \* the rows on the screen, the last one still being filled
    given       \* what is being printed: one cell, or nothing

Init == rows = <<<<>>>> /\ given = <<>>

Scrolled(rs) == IF Len(rs) > Height THEN Tail(rs) ELSE rs

Extended(c) == [rows EXCEPT ![Len(rows)] = Append(@, c)]

\* The rows with cell c at their end.
With(c) ==
    IF c.code = NEWLINE THEN Scrolled(Append(rows, <<>>))
    ELSE IF Len(Extended(c)[Len(rows)]) = Width THEN Scrolled(Append(Extended(c), <<>>))
    ELSE Extended(c)

Give(c) == given = <<>> /\ given' = <<c>> /\ UNCHANGED rows

Show == given # <<>> /\ given' = <<>> /\ rows' = With(given[1])

Next == Show \/ \E c \in Cells : Give(c)

Spec == Init /\ [][Next]_<<rows, given>>

=============================================================================

------------------------------ MODULE ListSeq -------------------------------
(***************************************************************************)
(* What kernel/src/list.c promises: a sequence of values that grows at its *)
(* end and loses the first occurrence of a value.                          *)
(***************************************************************************)
EXTENDS Sequences, SequencesExt

CONSTANT Values

VARIABLES
    values,     \* the values in the list, in order
    dead        \* an operation failed and the program has stopped

vars == <<values, dead>>

Init == values = <<>> /\ dead = FALSE

Insert(v) ==
    /\ ~dead
    /\ values' = Append(values, v)
    /\ UNCHANGED dead

Delete(v) ==
    /\ ~dead
    /\ v \in ToSet(values)
    /\ values' = RemoveFirst(values, v)
    /\ UNCHANGED dead

Clear ==
    /\ ~dead
    /\ values' = <<>>
    /\ UNCHANGED dead

Stop == dead' = TRUE /\ UNCHANGED values

Next == (\E v \in Values : Insert(v) \/ Delete(v)) \/ Clear \/ Stop

Spec == Init /\ [][Next]_vars

=============================================================================

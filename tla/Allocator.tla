----------------------------- MODULE Allocator ------------------------------
(***************************************************************************)
(* What a heap promises its callers, and nothing about how: a block given  *)
(* out lies in the memory the heap was given, overlaps no other block that *)
(* is still held, and stays where it is until it is freed or reallocated.  *)
(* Heap implements this specification.                                     *)
(***************************************************************************)
EXTENDS Integers

CONSTANTS
    Memory,     \* the addresses the heap may hand out
    Sizes       \* the lengths callers ask for

VARIABLES
    blocks,     \* pointer held by a caller -> bytes it asked for
    dead        \* the heap has stopped serving requests

vars == <<blocks, dead>>

Bytes(p, n) == p .. p + n - 1

\* A block of n bytes at p would touch no held block other than those in mine.
Fresh(p, n, mine) ==
    /\ Bytes(p, n) \subseteq Memory
    /\ \A q \in DOMAIN blocks \ mine : Bytes(p, n) \cap Bytes(q, blocks[q]) = {}

Init == blocks = [p \in {} |-> 0] /\ dead = FALSE

Allocate(n) ==
    /\ ~dead
    /\ \E p \in Memory :
          /\ p \notin DOMAIN blocks
          /\ Fresh(p, n, {})
          /\ blocks' = [q \in DOMAIN blocks \cup {p} |->
                           IF q = p THEN n ELSE blocks[q]]
    /\ UNCHANGED dead

Resize(p, n) ==
    /\ ~dead
    /\ Fresh(p, n, {p})
    /\ blocks' = [blocks EXCEPT ![p] = n]
    /\ UNCHANGED dead

\* The new block may not overlap the old one either: its bytes are copied.
Move(p, n) ==
    /\ ~dead
    /\ \E q \in Memory :
          /\ q \notin DOMAIN blocks
          /\ Fresh(q, n, {})
          /\ blocks' = [r \in (DOMAIN blocks \ {p}) \cup {q} |->
                           IF r = q THEN n ELSE blocks[r]]
    /\ UNCHANGED dead

Release(p) ==
    /\ ~dead
    /\ blocks' = [q \in DOMAIN blocks \ {p} |-> blocks[q]]
    /\ UNCHANGED dead

Stop == dead' = TRUE /\ UNCHANGED blocks

Next ==
    \/ \E n \in Sizes \ {0} : Allocate(n)
    \/ \E p \in DOMAIN blocks, n \in Sizes \ {0} : Resize(p, n) \/ Move(p, n)
    \/ \E p \in DOMAIN blocks : Release(p)
    \/ Stop

Spec == Init /\ [][Next]_vars

=============================================================================

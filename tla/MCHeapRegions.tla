--------------------------- MODULE MCHeapRegions ----------------------------
(***************************************************************************)
(* Heap on two memory maps: with one free entry, for which everything is   *)
(* checked, and with two and a hole between them, for which the chain of   *)
(* chunks is (MCHeapGap.cfg has what does not hold there).  The two heaps  *)
(* have no variable in common: in a behaviour one of them is used.         *)
(***************************************************************************)
EXTENDS MCHeap

VARIABLES
    map,                        \* the map that there is
    chain, owned, stopped       \* the heap with two entries

all == <<map, vars, chain, owned, stopped>>

R == INSTANCE Heap WITH
        Mmap <- TwoRegions, chunks <- chain, held <- owned, halted <- stopped

RegionsInit == map \in {"one", "two"} /\ Init /\ R!Init

RegionsNext ==
    \/ map = "one" /\ Next /\ UNCHANGED <<map, chain, owned, stopped>>
    \/ map = "two" /\ R!Next /\ UNCHANGED <<map, vars>>

RegionsSpec == RegionsInit /\ [][RegionsNext]_all

-----------------------------------------------------------------------------

=============================================================================

------------------------------- MODULE MCHeap -------------------------------
(***************************************************************************)
(* Instances of Heap for TLC.  Addresses are a few bytes wide: a header of *)
(* two bytes, so that a rest of exactly one header, one byte less and one  *)
(* byte more all occur when a chunk is split.                              *)
(***************************************************************************)
EXTENDS Heap, Sequences

\* The kernel ends inside a free entry; a reserved one follows.
OneRegion ==
    << [base |-> 0,  len |-> 17, free |-> TRUE],
       [base |-> 17, len |-> 9,  free |-> FALSE] >>

\* The map of a PC: free low memory, a hole reserved for video and the BIOS,
\* free memory from one megabyte on.  The kernel lies in low memory.
TwoRegions ==
    << [base |-> 0,  len |-> 11, free |-> TRUE],
       [base |-> 11, len |-> 3,  free |-> FALSE],
       [base |-> 14, len |-> 9,  free |-> TRUE] >>

=============================================================================

-------------------------------- MODULE Heap --------------------------------
(***************************************************************************)
(* The kernel heap, kernel/src/memory/malloc.c: a doubly linked chain of   *)
(* chunks, each a header followed by len bytes, laid over the free entries *)
(* of the BIOS (E820) memory map.  malloc is first fit with splitting,     *)
(* free coalesces with both neighbours of the chain, realloc allocates,    *)
(* copies and frees.                                                       *)
(*                                                                         *)
(* A call is one step.  malloc.c takes no lock: it counts on main using    *)
(* the heap only before scheduler_enable and on the interrupt handlers     *)
(* that use it (scheduler_stop) running with interrupts off.               *)
(*                                                                         *)
(* chunks  the headers reachable in memory, by address                     *)
(* held    what the callers own: pointer returned -> bytes asked for       *)
(* halted  a failed assert() has executed hlt                              *)
(***************************************************************************)
EXTENDS Integers, FiniteSets

CONSTANTS
    Mmap,       \* sequence of [base, len, free]: the entries of memory_map
    KernelEnd,  \* &KERNEL_END, the first address after the kernel image
    Header,     \* sizeof(memory_chunk)
    Request     \* the lengths callers pass to malloc and realloc

VARIABLES chunks, held, halted

vars == <<chunks, held, halted>>

NULL == 0

-----------------------------------------------------------------------------
(***************************************************************************)
(* malloc_init.  The entries are scanned in order; the first free one that *)
(* contains KERNEL_END gives the start chunk, every later free one another *)
(* chunk.                                                                  *)
(***************************************************************************)
Entries == {i \in DOMAIN Mmap : Mmap[i].free}

Limit(i) == Mmap[i].base + Mmap[i].len

HoldsKernelEnd(i) ==
    /\ i \in Entries
    /\ Mmap[i].base < KernelEnd
    /\ KernelEnd <= Limit(i)

IsStartEntry(i) ==
    /\ HoldsKernelEnd(i)
    /\ \A j \in Entries : j < i => ~HoldsKernelEnd(j)

HeapEntries == {i \in Entries : \E s \in Entries : s <= i /\ IsStartEntry(s)}

EntryAddr(i) == IF IsStartEntry(i) THEN KernelEnd ELSE Mmap[i].base

\* i and j give neighbouring chunks of the initial chain.
Follows(i, j) ==
    /\ i < j
    /\ \A k \in HeapEntries : ~(i < k /\ k < j)

\* The first length of an entry's chunk.
EntryLen(i) == Limit(i) - EntryAddr(i) - Header

InitChunk(i) ==
    [previous_chunk |-> IF \E j \in HeapEntries : Follows(j, i)
                          THEN EntryAddr(CHOOSE j \in HeapEntries : Follows(j, i))
                          ELSE NULL,
     next_chunk     |-> IF \E j \in HeapEntries : Follows(i, j)
                          THEN EntryAddr(CHOOSE j \in HeapEntries : Follows(i, j))
                          ELSE NULL,
     allocated      |-> FALSE,
     len            |-> EntryLen(i)]

InitChunks ==
    [a \in {EntryAddr(i) : i \in HeapEntries} |->
        InitChunk(CHOOSE i \in HeapEntries : EntryAddr(i) = a)]

start_chunk == KernelEnd

(***************************************************************************)
(* What the code takes for granted about its constants.  A free entry      *)
(* shorter than a header would make the unsigned subtraction of malloc_init*)
(* wrap; malloc_init asserts that there is a start chunk.                  *)
(***************************************************************************)
ASSUME SizesAssumption ==
    /\ KernelEnd \in Nat \ {0}
    /\ Header \in Nat \ {0}
    /\ Request \subseteq Nat

ASSUME MmapAssumption ==
    /\ DOMAIN Mmap \subseteq Nat /\ IsFiniteSet(DOMAIN Mmap)
    /\ \A i \in DOMAIN Mmap :
          /\ Mmap[i].base \in Nat
          /\ Mmap[i].len \in Nat
          /\ Mmap[i].free \in BOOLEAN
    /\ \A i, j \in Entries : i < j => Limit(i) <= Mmap[j].base

ASSUME StartAssumption ==
    /\ \E i \in Entries : IsStartEntry(i)
    /\ \A i \in HeapEntries : EntryAddr(i) + Header <= Limit(i)

-----------------------------------------------------------------------------
(***************************************************************************)
(* The chain in memory.                                                    *)
(***************************************************************************)

\* The address after the last byte of chunk c.
End(ch, c) == c + Header + ch[c].len

Neighbour(ch, c) == IF c = NULL THEN NULL ELSE ch[c].next_chunk

\* Step k of the loop "for (chunk = start_chunk; chunk; chunk = next_chunk)".
Visit(ch) ==
    LET at[k \in 0 .. Cardinality(DOMAIN ch)] ==
            IF k = 0 THEN start_chunk ELSE Neighbour(ch, at[k - 1])
    IN  at

\* Mutant: the search takes a free chunk whatever its length.
Fits_AnyLength(ch, c, n) == ~ch[c].allocated

Fits(ch, c, n) == ~ch[c].allocated /\ ch[c].len >= n

\* c is where malloc's search for n bytes stops.
IsFirstFit(ch, c, n) ==
    \E k \in DOMAIN Visit(ch) :
        /\ Visit(ch)[k] = c
        /\ Fits(ch, c, n)
        /\ \A j \in 0 .. k - 1 : ~Fits(ch, Visit(ch)[j], n)

\* The search runs off the end of the chain.
NoneFits(ch, n) ==
    \A k \in DOMAIN Visit(ch) : Visit(ch)[k] # NULL => ~Fits(ch, Visit(ch)[k], n)


\* malloc cuts chunk c after n bytes and links the rest in as a free chunk.
Split(ch, c, n) ==
    LET new == c + n + Header
    IN  [a \in DOMAIN ch \cup {new} |->
           CASE a = new -> [previous_chunk |-> c,
                            next_chunk     |-> ch[c].next_chunk,
                            allocated      |-> FALSE,
                            len            |-> ch[c].len - n - Header]
             [] a = c   -> [ch[c] EXCEPT !.len = n, !.next_chunk = new]
             [] a # c /\ a = ch[c].next_chunk -> [ch[a] EXCEPT !.previous_chunk = new]
             [] OTHER   -> ch[a]]

\* Mutant: a chunk that has no room for the new header is split all the same.
Allocate_AlwaysSplit(ch, c, n) ==
    LET cut == IF ch[c].len > n THEN Split(ch, c, n) ELSE ch
    IN  [cut EXCEPT ![c].allocated = TRUE]

\* malloc splits chunk c if a header and more is left over, and marks it.
Allocate(ch, c, n) ==
    LET cut == IF ch[c].len > n + Header THEN Split(ch, c, n) ELSE ch
    IN  [cut EXCEPT ![c].allocated = TRUE]

\* Mutant: the chunk after the one taken in still points back to it.
Absorb_OneWay(ch, c) ==
    LET gone == ch[c].next_chunk
    IN  [a \in DOMAIN ch \ {gone} |->
           IF a = c THEN [ch[c] EXCEPT !.len = @ + ch[gone].len + Header,
                                       !.next_chunk = ch[gone].next_chunk]
                    ELSE ch[a]]

\* Mutant: the header of the chunk taken in is not given back.
Absorb_LosesHeader(ch, c) ==
    LET gone == ch[c].next_chunk
    IN  [a \in DOMAIN ch \ {gone} |->
           CASE a = c -> [ch[c] EXCEPT !.len = @ + ch[gone].len,
                                       !.next_chunk = ch[gone].next_chunk]
             [] a # c /\ a = ch[gone].next_chunk -> [ch[a] EXCEPT !.previous_chunk = c]
             [] OTHER -> ch[a]]

(***************************************************************************)
(* Chunk c takes in the chunk that follows it in the chain.  free does it  *)
(* at most twice: at the chunk before the freed one and at the result.     *)
(***************************************************************************)
Absorb(ch, c) ==
    LET gone == ch[c].next_chunk
    IN  [a \in DOMAIN ch \ {gone} |->
           CASE a = c -> [ch[c] EXCEPT !.len = @ + ch[gone].len + Header,
                                       !.next_chunk = ch[gone].next_chunk]
             [] a # c /\ a = ch[gone].next_chunk -> [ch[a] EXCEPT !.previous_chunk = c]
             [] OTHER -> ch[a]]

IsFree(ch, c) == c # NULL /\ ~ch[c].allocated

\* Mutant: free without its second merge.
MergeNext_Never(ch, c) == ch

\* The second merge of free, at chunk c.
MergeNext(ch, c) ==
    IF IsFree(ch, ch[c].next_chunk) THEN Absorb(ch, c) ELSE ch

\* free: chunk c is marked free and merged backwards, then forwards.
Release(ch, c) ==
    LET freed == [ch EXCEPT ![c].allocated = FALSE]
        p     == ch[c].previous_chunk
    IN  IF IsFree(freed, p) THEN MergeNext(Absorb(freed, p), p)
                            ELSE MergeNext(freed, c)

-----------------------------------------------------------------------------
Init ==
    /\ chunks = InitChunks
    /\ held = [p \in {} |-> 0]
    /\ halted = FALSE

Extend(f, x, v) == [y \in DOMAIN f \cup {x} |-> IF y = x THEN v ELSE f[y]]

Without(f, x) == [y \in DOMAIN f \ {x} |-> f[y]]

\* malloc(n) finds a chunk and returns the address after its header.
Malloc(n) ==
    /\ ~halted
    /\ n # 0
    /\ \E c \in DOMAIN chunks :
          /\ IsFirstFit(chunks, c, n)
          /\ chunks' = Allocate(chunks, c, n)
          /\ held' = Extend(held, c + Header, n)
    /\ UNCHANGED halted

\* assert(len) or assert(chunk) fails in malloc(n).
MallocHalts(n) ==
    /\ ~halted
    /\ n = 0 \/ NoneFits(chunks, n)
    /\ halted' = TRUE
    /\ UNCHANGED <<chunks, held>>

\* realloc(p, n) of a block that is long enough returns p itself.
ReallocStays(p, n) ==
    /\ ~halted
    /\ n # 0
    /\ n <= chunks[p - Header].len
    /\ held' = [held EXCEPT ![p] = n]
    /\ UNCHANGED <<chunks, halted>>

\* realloc(p, n) of a shorter block: malloc, memcpy, free.
ReallocMoves(p, n) ==
    /\ ~halted
    /\ n > chunks[p - Header].len
    /\ \E c \in DOMAIN chunks :
          /\ IsFirstFit(chunks, c, n)
          /\ chunks' = Release(Allocate(chunks, c, n), p - Header)
          /\ held' = Extend(Without(held, p), c + Header, n)
    /\ UNCHANGED halted

\* assert(len) fails in realloc(p, n), or assert(chunk) in the malloc it calls.
ReallocHalts(p, n) ==
    /\ ~halted
    /\ n = 0 \/ (n > chunks[p - Header].len /\ NoneFits(chunks, n))
    /\ halted' = TRUE
    /\ UNCHANGED <<chunks, held>>

\* free(p) by the caller that holds p.
Free(p) ==
    /\ ~halted
    /\ chunks' = Release(chunks, p - Header)
    /\ held' = Without(held, p)
    /\ UNCHANGED halted

Next ==
    \/ \E n \in Request : Malloc(n) \/ MallocHalts(n)
    \/ \E p \in DOMAIN held, n \in Request :
          ReallocStays(p, n) \/ ReallocMoves(p, n) \/ ReallocHalts(p, n)
    \/ \E p \in DOMAIN held : Free(p)

Spec == Init /\ [][Next]_vars

-----------------------------------------------------------------------------
(***************************************************************************)
(* Properties of a chunk map, then of the state.                           *)
(***************************************************************************)
Chunk == [previous_chunk : Nat, next_chunk : Nat, allocated : BOOLEAN, len : Nat]

\* previous_chunk and next_chunk are inverse to each other.
Linked(ch) ==
    \A c \in DOMAIN ch :
        LET n == ch[c].next_chunk
            p == ch[c].previous_chunk
        IN  /\ n # NULL => n \in DOMAIN ch /\ ch[n].previous_chunk = c
            /\ p # NULL => p \in DOMAIN ch /\ ch[p].next_chunk = c

\* A chunk ends before the next one of the chain begins, and the chain skips
\* no chunk that lies between the two.
Ordered(ch) ==
    \A c \in DOMAIN ch :
        LET n == ch[c].next_chunk
        IN  IF n = NULL THEN \A d \in DOMAIN ch : d <= c
                        ELSE /\ End(ch, c) <= n
                             /\ \A d \in DOMAIN ch : d <= c \/ n <= d

\* No two neighbours that touch are both free.
Merged(ch) ==
    \A c \in DOMAIN ch :
        LET n == ch[c].next_chunk
        IN  n # NULL /\ End(ch, c) = n => ch[c].allocated \/ ch[n].allocated

\* The state is well typed.
TypeOK ==
    /\ DOMAIN chunks \subseteq Nat \ {NULL}
    /\ chunks \in [DOMAIN chunks -> Chunk]
    /\ DOMAIN held \subseteq Nat
    /\ held \in [DOMAIN held -> Nat]
    /\ halted \in BOOLEAN

\* However calls follow each other, the links that malloc and free rewrite in
\* three chunks at a time stay inverse to each other.
ChainLinked == Linked(chunks)

\* Splits and merges never make two chunks overlap, and the chain visits the
\* chunks in the order of their addresses.
ChainOrdered == Ordered(chunks)

\* free's two merges are enough: after any sequence of calls no two free
\* chunks touch, so the longest free run is one chunk that malloc can find.
Coalesced == Merged(chunks)

\* A caller's pointer is the address after the header of an allocated chunk at
\* least as long as it asked for, and no chunk is allocated to nobody.
HeldBlocks ==
    /\ DOMAIN held = {c + Header : c \in {d \in DOMAIN chunks : chunks[d].allocated}}
    /\ \A p \in DOMAIN held : held[p] <= chunks[p - Header].len

\* malloc's walk from start_chunk meets every chunk: none is ever lost.
Reachable == {Visit(chunks)[k] : k \in DOMAIN Visit(chunks)} \ {NULL} = DOMAIN chunks

\* The heap never comes to pieces: the chain is linked both ways, in order and
\* merged, its allocated chunks are what callers hold, no more and no less, and
\* the walk of malloc loses no chunk.
ChainIntact == ChainLinked /\ ChainOrdered /\ Coalesced /\ HeldBlocks /\ Reachable

\* Once callers have freed everything the heap is what malloc_init built: no
\* order of allocations and frees fragments it for good.
FreedIsWhole == DOMAIN held = {} => chunks = InitChunks

\* The bytes of the entries.
HeapMemory == UNION {EntryAddr(i) .. Limit(i) - 1 : i \in HeapEntries}

\* Every chunk, header and data, lies in memory the BIOS reports as free, and
\* the chunks together cover all of that memory: splits and merges neither take
\* in a byte that is none of the heap's nor lose one that is.
Backed ==
    /\ \A c \in DOMAIN chunks : \E i \in HeapEntries :
          EntryAddr(i) <= c /\ End(chunks, c) <= Limit(i)
    /\ HeapMemory \subseteq UNION {c .. End(chunks, c) - 1 : c \in DOMAIN chunks}

\* Heap implements Allocator over the bytes of its entries.
A == INSTANCE Allocator WITH Memory <- HeapMemory, Sizes <- Request,
                             blocks <- held, dead <- halted

\* Whatever malloc, realloc and free do to the chain, callers only ever see
\* blocks of free memory that overlap no other block in use.
Allocates == A!Spec

=============================================================================

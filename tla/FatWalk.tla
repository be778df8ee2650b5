------------------------------- MODULE FatWalk ------------------------------
(***************************************************************************)
(* kernel/src/filesystem/fat12.c: how fat12_open, fat12_opendir and        *)
(* fat12_readdir read directories into blocks of the heap, walk from one   *)
(* to the next and give the blocks back.                                   *)
(*                                                                         *)
(* A block is a number that is never used twice; live holds those that are *)
(* allocated.  A directory is a chain of clusters with some entries each;  *)
(* the root, number 0, is a chain of one.  Names are compared as a whole   *)
(* (FatNames has their characters).                                        *)
(***************************************************************************)
EXTENDS Integers, Sequences, SequencesExt, FiniteSets

CONSTANTS
    Chain,      \* the clusters of each directory, by its first cluster
    Entries,    \* the entries in each cluster: name, attributes and cluster
    Paths,      \* the paths that are opened: sequences of names
    Refused,    \* the names that are too long
    MaxCalls    \* calls of the driver

NULL == 0

DIRECTORY == "DIRECTORY"
ARCHIVE == "ARCHIVE"

\* What a part of a block holds that was never written.
Unwritten == [name |-> "?", attributes |-> "?", cluster |-> 0]

\* What may be read as an entry of a directory.
DirEntry == [name : STRING, attributes : STRING, cluster : Nat] \cup {Unwritten}

\* Entries have names, and those of directories lead to directories.
ASSUME FatWalkAssumption ==
    /\ 0 \in DOMAIN Chain /\ DOMAIN Chain \subseteq Nat /\ Len(Chain[0]) = 1
    /\ \A d \in DOMAIN Chain : Chain[d] \in Seq(DOMAIN Entries) /\ Chain[d] # <<>>
    /\ \A c \in DOMAIN Entries :
          /\ Entries[c] \in Seq(DirEntry)
          /\ \A n \in DOMAIN Entries[c] :
                /\ Entries[c][n].name # ""
                /\ Entries[c][n].attributes = DIRECTORY => Entries[c][n].cluster \in DOMAIN Chain
    /\ Paths \subseteq Seq(STRING)
    /\ MaxCalls \in Nat

\* What the walk is right for: of a directory of more clusters, all but the first
\* are stored elsewhere.
SingleClusters == \A d \in DOMAIN Chain : Len(Chain[d]) = 1

VARIABLES
    pc, op,             \* where the driver is, and what was called
    path, j,            \* the path and the component that is next
    entries, content,   \* the block of the directory, and what is in it
    entry,              \* the index of the entry that was found, or NULL
    cluster,            \* the cluster of the next directory
    live, next,         \* the allocated blocks, and the next number
    held,               \* what callers have: block, kind and, of a directory, its cluster
    base,               \* the first block that the call under way may have allocated
    fault,              \* whether memory was used, freed or stored to that was not the driver's
    calls, result       \* calls made, and the cluster the last one found, or -1

vars == <<pc, op, path, j, entries, content, entry, cluster, live, next, held, base, fault,
          calls, result>>

Init ==
    /\ pc = "idle" /\ op = "open" /\ path = <<>> /\ j = 1
    /\ entries = NULL /\ content = <<>> /\ entry = NULL /\ cluster = 0
    /\ live = {} /\ next = 1 /\ held = {}
    /\ base = 1 /\ fault = FALSE /\ calls = 0 /\ result = -1

-----------------------------------------------------------------------------
\* fat12_read_cluster_chain: the parts of the block.  Only the first is where
\* the entries are; each other is stored at an address that is taken from the
\* memory after the pointer to the block.
Filled(d) ==
    [n \in DOMAIN Chain[d] |->
        IF n = 1 THEN Entries[Chain[d][1]] ELSE <<Unwritten>>]

Wild(d) == Len(Chain[d]) > 1

\* fat12_read_directory: a new block that holds directory d.
Read(d) ==
    /\ entries' = next /\ live' = live \cup {next} /\ next' = next + 1
    /\ content' = FlattenSeq(Filled(d)) /\ fault' = (fault \/ Wild(d))

Call ==
    /\ pc = "idle" /\ calls < MaxCalls
    /\ calls' = calls + 1 /\ j' = 1 /\ base' = next

\* What a caller has: a block that is a file, a directory or a listing.
Thing(block, kind, ref) == [block |-> block, kind |-> kind, ref |-> ref]

Open(p) ==
    /\ Call
    /\ op' = "open" /\ path' = p
    /\ Read(0) /\ pc' = "walk"
    /\ UNCHANGED <<entry, cluster, held, result>>

\* fat12_opendir of an empty path is the root: nothing is read.
OpenRoot ==
    /\ pc = "idle" /\ calls < MaxCalls
    /\ calls' = calls + 1 /\ op' = "opendir" /\ path' = <<>>
    /\ live' = live \cup {next} /\ held' = held \cup {Thing(next, DIRECTORY, 0)}
    /\ next' = next + 1 /\ result' = 0
    /\ UNCHANGED <<pc, j, entries, content, entry, cluster, base, fault>>

OpenDir(p) ==
    /\ p # <<>> /\ Call
    /\ op' = "opendir" /\ path' = p
    /\ Read(0) /\ pc' = "walk"
    /\ UNCHANGED <<entry, cluster, held, result>>

\* Returns NULL: the entries are left allocated.
Fail ==
    /\ pc' = "idle" /\ result' = -1
    /\ UNCHANGED <<op, path, j, entries, content, entry, cluster, live, next, held, base, fault,
                   calls>>

IsEnd == j >= Len(path)

Wanted == IF IsEnd /\ op = "open" THEN ARCHIVE ELSE DIRECTORY

\* The name at j, or the empty one of a path that ends early.
Name == IF j <= Len(path) THEN path[j] ELSE ""

\* A name that is too long or missing.
Refuse ==
    /\ pc = "walk" /\ (Name = "" \/ Name \in Refused)
    /\ Fail

Position ==
    SelectInSeq(content, LAMBDA e : e.attributes = Wanted /\ e.name = Name)

NotFound ==
    /\ pc = "walk" /\ Name # "" /\ Name \notin Refused
    /\ Position = 0
    /\ Fail

\* Mutant: the block is given back first.
Order_FreeFirst == <<"free", "use">>

\* What is done with an entry that was found: it is used, then its block freed.
Order == <<"use", "free">>

Found ==
    /\ pc = "walk" /\ Name # "" /\ Name \notin Refused
    /\ Position # 0
    /\ entry' = Position /\ pc' = Order[1]
    /\ UNCHANGED <<op, path, j, entries, content, cluster, live, next, held, base, fault, calls,
                   result>>

After(step) == IF Order[1] = step THEN Order[2] ELSE "found"

\* The cluster of the entry is taken; at the end of the path a new block for
\* the file or directory is filled from it.
UseEntry ==
    /\ pc = "use"
    /\ fault' = (fault \/ entries \notin live)
    /\ cluster' = content[entry].cluster
    /\ IF IsEnd
       THEN /\ live' = live \cup {next} /\ next' = next + 1
            /\ held' = held \cup {Thing(next, Wanted, cluster')}
       ELSE UNCHANGED <<live, held, next>>
    /\ pc' = After("use")
    /\ UNCHANGED <<op, path, j, entries, content, entry, base, calls, result>>

\* Mutant: the directories on the way are not freed.
Freed_Last == IF IsEnd THEN live \ {entries} ELSE live

\* Mutant: the block that was allocated last is freed.
Freed_Newest == live \ {next - 1}

Freed == live \ {entries}

FreeEntries ==
    /\ pc = "free"
    /\ fault' = (fault \/ entries \notin live)
    /\ live' = Freed
    /\ pc' = After("free")
    /\ UNCHANGED <<op, path, j, entries, content, entry, cluster, next, held, base, calls, result>>

Descend ==
    /\ pc = "found" /\ ~IsEnd
    /\ Read(cluster) /\ j' = j + 1 /\ pc' = "walk"
    /\ UNCHANGED <<op, path, entry, cluster, held, base, calls, result>>

Return ==
    /\ pc = "found" /\ IsEnd
    /\ result' = cluster /\ pc' = "idle"
    /\ UNCHANGED <<op, path, j, entries, content, entry, cluster, live, next, held, base, fault,
                   calls>>

\* fat12_readdir of a directory: the entries are read and stay allocated, and
\* the caller gets a block with the listing, if there is anything to list.
ReadDir(h) ==
    /\ Call /\ op' = "readdir"
    /\ entries' = next /\ content' = FlattenSeq(Filled(h.ref)) /\ fault' = (fault \/ Wild(h.ref))
    /\ LET listed == \E n \in DOMAIN content' :
                        /\ content'[n].attributes \in {DIRECTORY, ARCHIVE}
                        /\ content'[n].name \notin {".", ".."}
           blocks == IF listed THEN {next + 1} ELSE {}
       IN  /\ live' = live \cup {next} \cup blocks
           /\ held' = held \cup {Thing(b, "listing", 0) : b \in blocks}
           /\ next' = next + 2
    /\ UNCHANGED <<pc, path, entry, cluster, result>>

\* fat12_close, fat12_closedir, and free by the caller of fs_readdir.
Close(h) ==
    /\ pc = "idle"
    /\ held' = held \ {h} /\ live' = live \ {h.block}
    /\ UNCHANGED <<pc, op, path, j, entries, content, entry, cluster, next, base, fault, calls,
                   result>>

Next ==
    \/ \E p \in Paths : Open(p) \/ OpenDir(p)
    \/ OpenRoot
    \/ Refuse \/ NotFound \/ Found
    \/ UseEntry \/ FreeEntries \/ Descend \/ Return
    \/ \E h \in held : h.kind = DIRECTORY /\ ReadDir(h)
    \/ \E h \in held : Close(h)

Spec == Init /\ [][Next]_vars

-----------------------------------------------------------------------------
Blocks(things) == {h.block : h \in things}

\* The state is well typed, and callers hold only blocks that are allocated.
TypeOK ==
    /\ pc \in {"idle", "walk", "use", "free", "found"} /\ op \in {"open", "opendir", "readdir"}
    /\ live \subseteq 1 .. next - 1 /\ Blocks(held) \subseteq live
    /\ entries \in 0 .. next - 1
    /\ calls \in 0 .. MaxCalls /\ result \in Nat \cup {-1}

\* No entry is used after its block was freed, no block is freed twice and nothing
\* is stored elsewhere, on any walk through any number of directories.
NoUseAfterFree == ~fault

\* A call that finds what it was asked for leaves nothing behind: of the blocks
\* it allocated, for all the directories on its way, only the one is left that
\* it returns.
Released ==
    [][pc = "found" /\ pc' = "idle" =>
        \A b \in live' : b >= base => b \in Blocks(held')]_vars

\* The directory that all clusters of the chain make.
Whole(d) == FlattenSeq([n \in DOMAIN Chain[d] |-> Entries[Chain[d][n]]])

\* Where a name leads from directory d, by the entries themselves, or -1.
StepTo(d, n, kind) ==
    IF d = -1 \/ n \in Refused THEN -1
    ELSE LET e == SelectInSeq(Whole(d), LAMBDA x : x.attributes = kind /\ x.name = n)
         IN  IF e = 0 THEN -1 ELSE Whole(d)[e].cluster

\* Where a path leads on the volume, by the directories themselves.
Leads(p, kind) ==
    LET d[n \in 0 .. Len(p)] ==
            IF n = 0 THEN 0
            ELSE StepTo(d[n - 1], p[n], IF n = Len(p) THEN kind ELSE DIRECTORY)
    IN  d[Len(p)]

\* What is opened is what the path leads to, and nothing that exists is missed.
Resolves ==
    pc = "idle" /\ calls > 0 /\ op \in {"open", "opendir"} /\ path # <<>> =>
        result = Leads(path, IF op = "open" THEN ARCHIVE ELSE DIRECTORY)

\* Between calls only what the callers hold is allocated.  Does not hold after a
\* call that fails, or a listing: README, "Known violations".
NoLeak == pc = "idle" => live = Blocks(held)

=============================================================================

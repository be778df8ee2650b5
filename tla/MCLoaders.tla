----------------------------- MODULE MCLoaders ------------------------------
(***************************************************************************)
(* The loaders, on small volumes, drives and files.                        *)
(***************************************************************************)
EXTENDS Loaders

-----------------------------------------------------------------------------
(***************************************************************************)
(* FatWalk: a directory in a directory, a file in each, and a file and a   *)
(* directory that share a name.                                            *)
(***************************************************************************)
Entry(n, attributes, first) == [name |-> n, attributes |-> attributes, cluster |-> first]

Clusters ==
    [c \in {0, 2, 3} |->
        CASE c = 0 -> <<Entry("v", "VOLUME_ID", 0), Entry("a", ARCHIVE, 7), Entry("a", DIRECTORY, 2)>>
          [] c = 2 -> <<Entry("..", DIRECTORY, 0), Entry("b", DIRECTORY, 3), Entry("f", ARCHIVE, 8)>>
          [] c = 3 -> <<Entry("..", DIRECTORY, 2), Entry("g", ARCHIVE, 9)>>]

\* Every directory is one cluster.
Single == [d \in {0, 2, 3} |-> <<d>>]

SomePaths ==
    {<<>>, <<"a">>, <<"a", "f">>, <<"a", "b">>, <<"a", "b", "g">>, <<"a", "..", "a">>, <<"b">>,
     <<"a", "h">>, <<"a", "x", "g">>, <<"long">>}

-----------------------------------------------------------------------------
(***************************************************************************)
(* Boot: sectors of eight bytes, two of them a cluster, and two directory  *)
(* entries in a sector, on a floppy disk or a small hard disk.             *)
(***************************************************************************)
EOF == 4095

\* The FAT of a volume with two files, each a sequence of clusters.
Table(init, kernel) ==
    [c \in 0 .. 11 |->
        LET files == {s \in {init, kernel} : \E n \in DOMAIN s : s[n] = c}
            s     == CHOOSE s \in files : TRUE
            n     == SelectInSeq(s, LAMBDA x : x = c)
        IN  IF files # {} THEN (IF n = Len(s) THEN EOF ELSE s[n + 1])
            ELSE IF c < 2 THEN EOF ELSE 0]

\* The files start at clusters 9 and 4 and go on anywhere where the entry of a
\* cluster lies in one sector of the FAT.
Tables ==
    LET whole == {2, 3, 6, 7, 11}
    IN  {Table(<<9, t[1]>>, <<4, t[2], t[3]>>) :
            t \in {t \in whole \X whole \X whole : Cardinality({t[1], t[2], t[3]}) = 3}}

Drive(hdd, s, h, c) == [hdd |-> hdd, sectors |-> s, heads |-> h, cylinders |-> c]

\* The files are last in the root directory.
SomeRoot ==
    <<[name |-> "LABEL", cluster |-> 0], [name |-> "OTHER", cluster |-> 6],
      [name |-> "KERNEL  BIN", cluster |-> 4], [name |-> "INIT    BIN", cluster |-> 9]>>

\* Floppy disks may have so many cylinders that an address needs more than a
\* byte for them.
SomeDrives ==
    {Drive(FALSE, 3, 2, 8), Drive(FALSE, 3, 1, 16), Drive(FALSE, 7, 2, 3),
     Drive(TRUE, 5, 3, 4), Drive(TRUE, 7, 2, 4)}

\* Maps, one with the carry on a later call.
SomeMaps == {<<>>, <<"low">>, <<"low", "hole", "high">>, <<"low", "CF">>}

-----------------------------------------------------------------------------
(***************************************************************************)
(* Elf: code, data and zeroed memory, with gaps between them, in two       *)
(* orders, and all ways to relocate up to two words of code and one of     *)
(* data against symbols in each section and an absolute one.               *)
(***************************************************************************)
Section(type, alloc, addr, size, contents) ==
    [type |-> type, alloc |-> alloc, addr |-> addr, size |-> size, words |-> contents,
     info |-> 1, rels |-> <<>>]

RelSection(info, rels) ==
    [Section("REL", FALSE, 0, Len(rels), <<>>) EXCEPT !.info = info, !.rels = rels]

To(type, sym, offset) == [type |-> type, sym |-> sym, offset |-> offset]

\* Symbols of code (2), data (3) and zeroed memory (4), an absolute one (-1),
\* and one that is defined nowhere (0).
Symbols ==
    <<[shndx |-> 2, value |-> 1], [shndx |-> 3, value |-> 0], [shndx |-> 4, value |-> 0],
      [shndx |-> -1, value |-> 9], [shndx |-> 0, value |-> 0]>>

Object(code, data, zero, more, codeRels, dataRels) ==
    [supported |-> TRUE, entry |-> 1, symbols |-> Symbols,
     sections |-> <<Section("NULL", FALSE, 0, 0, <<>>),
                    Section("PROGBITS", TRUE, code, 2, <<3, 15>>),
                    Section("PROGBITS", TRUE, data, 2, <<0, 6>>),
                    Section("NOBITS", TRUE, zero, 2, <<>>)>> \o more
                  \o <<RelSection(2, codeRels), RelSection(3, dataRels)>>]

Plainest == Object(0, 3, 5, <<>>, <<>>, <<>>)

\* None, one or two relocations of code, of different words.
CodeRels ==
    LET good == {To(t, s, o) : t \in {"32", "PC32"}, s \in 1 .. 4, o \in 0 .. 1}
    IN  {<<>>} \cup {<<r>> : r \in good}
               \cup {r \in good \X good : r[1].offset # r[2].offset /\ r[1].sym <= 2}

DataRels == {<<>>, <<To("32", 1, 1)>>, <<To("NONE", 0, 0), To("PC32", 4, 0)>>}

Comment == Section("PROGBITS", FALSE, 0, 1, <<7>>)

\* Files that can be linked, two with a relocation that cannot be, and two for
\* another machine, of which one has such a relocation.
SomeObjects ==
    {Object(0, 3, 5, <<Comment>>, c, d) : c \in CodeRels, d \in DataRels} \cup
    {Object(5, 0, 2, <<>>, c, d) : c \in CodeRels, d \in DataRels} \cup
    {Object(0, 3, 5, <<>>, <<r>>, <<>>) : r \in {To("32", 5, 0), To("GOT32", 1, 0)}} \cup
    {[o EXCEPT !.supported = FALSE] : o \in {Plainest, Object(0, 3, 5, <<>>, <<To("GOT32", 1, 0)>>, <<>>)}}

-----------------------------------------------------------------------------
(***************************************************************************)
(* FatNames: entries of four characters, two of them the extension, and    *)
(* components of up to five characters whose name, the part before the     *)
(* dot, has at most two.                                                   *)
(***************************************************************************)
Letters == {"A", "B"}

Padded(s, n) == [x \in 1 .. n |-> IF x <= Len(s) THEN s[x] ELSE " "]

SomeComponents ==
    {c \in SeqOf(Letters \cup {".", " "}, 5) : \E n \in 2 .. 3 : n <= Len(c) /\ c[n] = "."}
        \cup SeqOf(Letters, 5)

SomeFiles ==
    {Padded(b, 2) \o Padded(x, 2) :
        b \in {<<"A">>, <<"A", "B">>, <<"B", "A">>}, x \in {<<>>, <<"A">>, <<"A", "B">>}}

SomeDirectories ==
    {Padded(n, 4) : n \in {<<".">>, <<".", ".">>, <<"A">>, <<"B", "A">>, <<"A", "B", "A">>,
                           <<"A", "B", "B", "A">>}}

-----------------------------------------------------------------------------
\* What the theorems of LoadersProofs suppose.
ASSUME MeetsHypotheses == SingleClusters /\ M!NamesFit /\ L!WellFormed /\ B!Bootable

=============================================================================

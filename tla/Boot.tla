-------------------------------- MODULE Boot --------------------------------
(***************************************************************************)
(* boot/src: boot.s finds INIT.BIN and KERNEL.BIN on a FAT12 volume and    *)
(* loads them; init16.s enables the A20 line, reads the memory map from    *)
(* the BIOS and enters protected mode; init32.s calls the kernel.          *)
(*                                                                         *)
(* The BIOS is external: it reads sectors by cylinder, head and sector     *)
(* (int 0x13), tells the geometry of a hard disk, and gives one entry of   *)
(* its memory map at a call (int 0x15).  A sector in memory is represented *)
(* by its address on the disk.                                             *)
(***************************************************************************)
EXTENDS Integers, Sequences, FiniteSets, Functions

CONSTANTS
    BytesPerSector, SectorsPerCluster, ReservedSectors, SectorsPerFat,  \* BPB
    Root,           \* the entries of the root directory: a name and a cluster
    EntrySize,      \* FAT_ENTRY_SIZE
    Fats,           \* file allocation tables: the entries of the FAT, from 0
    Geometries,     \* drives: whether a hard disk; sectors, heads, cylinders
    SectorField, CylinderByte,  \* a cylinder has a byte, and more bits above the sector
    Junk,           \* what the byte after the buffer may be
    Segment,        \* registers hold 0 .. Segment - 1, so this is the length of a segment
    InitOffset,     \* INIT_SEGMENT: where INIT.BIN goes, in segment 0
    StackEnd,       \* what is from here on in segment 0, the loader needs itself
    Clear16,        \* whether the A20 line may be off at first
    MemoryMaps      \* what the BIOS may say of memory, as sequences of entries

INIT   == "INIT    BIN"
KERNEL == "KERNEL  BIN"

\* Where the two files go in their segments, of which only the second is free.
Origin(f) == IF f = INIT THEN InitOffset ELSE 0

Room(f) == IF f = INIT THEN StackEnd ELSE Segment

\* A call of the BIOS for its memory map that comes back with the carry set.
CARRY == "CF"

EntriesPerSector == BytesPerSector \div EntrySize

RootStart == ReservedSectors + 2 * SectorsPerFat

Data == RootStart + (Len(Root) * EntrySize) \div BytesPerSector

\* The root directory fills its sectors.
BootAssumption ==
    /\ {BytesPerSector, SectorsPerCluster, SectorsPerFat, Segment, EntrySize, EntriesPerSector,
        SectorField, CylinderByte} \subseteq Nat \ {0}
    /\ ReservedSectors \in Nat /\ BytesPerSector % EntrySize = 0
    /\ InitOffset \in Nat /\ StackEnd \in Nat /\ InitOffset < StackEnd /\ StackEnd < Segment
    /\ Root \in Seq([name : STRING, cluster : 0 .. 4095])
    /\ Root # <<>> /\ Len(Root) % EntriesPerSector = 0
    /\ \A g \in Geometries : g.sectors \in 1 .. SectorField - 1 /\ {g.heads, g.cylinders} \subseteq Nat \ {0}
    /\ \A t \in Fats : \A c \in DOMAIN t : c \in Nat /\ t[c] \in 0 .. 4095
    /\ Junk \subseteq 0 .. 255
    /\ \A m \in MemoryMaps : m \in Seq(Range(m))

\* The clusters of file f, by the entries of a FAT themselves.
ClusterOf(t, f, n) ==
    LET first == (CHOOSE e \in Range(Root) : e.name = f).cluster
        c[k \in 0 .. n] == IF k = 0 THEN first ELSE t[c[k - 1]]
    IN  c[n]

Capacity(g) == g.cylinders * g.heads * g.sectors

\* The sectors of a drive whose address a register holds.
Reach(g) == IF Capacity(g) <= Segment THEN Capacity(g) ELSE Segment

\* Where the entry of a cluster begins, in bytes from the start of the FAT.
EntryOffset(c) == c + c \div 2

\* What the loader is made for.  A drive has no more cylinders than can be
\* addressed, or on a hard disk than fit in a byte.  No two entries of the root
\* have the name of a file; the file's clusters end, lie on the drive, have
\* addresses of sixteen bits and entries of which none is in two sectors of the
\* FAT, and fill no more than the room there is.
Bootable ==
    /\ \A g \in Geometries :
          g.cylinders <= CylinderByte * (IF g.hdd THEN 1 ELSE 4) /\ Data <= Reach(g)
    /\ \A d, e \in Range(Root) : d.name \in {INIT, KERNEL} /\ d.name = e.name => d = e
    /\ \A t \in Fats, g \in Geometries, f \in {INIT, KERNEL} \cap {e.name : e \in Range(Root)} :
          \E n \in DOMAIN t \ {0} :
             /\ \A k \in 0 .. n - 1 :
                   LET c == ClusterOf(t, f, k)
                   IN  /\ c \in DOMAIN t /\ c \in 2 .. 4079
                       /\ EntryOffset(c) \div BytesPerSector < SectorsPerFat
                       /\ EntryOffset(c) % BytesPerSector # BytesPerSector - 1
                       /\ Data + (c - 1) * SectorsPerCluster <= Reach(g)
             /\ ClusterOf(t, f, n) >= 4080
             /\ Origin(f) + n * (SectorsPerCluster * BytesPerSector) <= Room(f)

VARIABLES
    fat,        \* the FAT of the volume
    drive,      \* the geometry of the boot drive
    bpb,        \* SECTORS_PER_TRACK and HEADS_PER_CYLINDER
    pc,
    file,       \* the file that is being loaded
    find,       \* find_file's ax, di (as an entry of the buffer) and bx
    buffer,     \* the sector in BUFFER
    cluster,
    ax,         \* read_file's ax: the cluster before that
    bx,         \* read_file's destination in its segment
    memory,     \* for each file, what was put at each place of its segment
    last,       \* the sector read16 was asked for last, and the one it read
    a20,
    map,        \* the BIOS's memory map
    entries     \* what has been stored at mmap_entries

load == <<file, find, buffer, cluster, ax, bx, memory, last>>
vars == <<fat, drive, bpb, pc, file, find, buffer, cluster, ax, bx, memory, last, a20, map, entries>>

Unread == -1

FindStart == [ax |-> Len(Root), di |-> EntriesPerSector, bx |-> 0]

\* The machine and the volume.
Given == fat \in Fats /\ drive \in Geometries /\ map \in MemoryMaps

PowerOn ==
    /\ bpb = [track |-> drive.sectors, cylinder |-> drive.heads]
    /\ pc = "start" /\ file = INIT /\ find = FindStart /\ buffer = Unread
    /\ cluster = 0 /\ ax = 0 /\ bx = 0 /\ memory = [f \in {INIT, KERNEL} |-> <<>>]
    /\ last = <<Unread, Unread>>
    /\ a20 \in (IF Clear16 THEN BOOLEAN ELSE {TRUE})
    /\ entries = <<>>

Init == Given /\ PowerOn

-----------------------------------------------------------------------------
(***************************************************************************)
(* read16.                                                                 *)
(***************************************************************************)

\* Mutant: the cylinder loses its highest bits.
CHS_Byte(lba) ==
    LET si    == lba % Segment
        track == si \div bpb.track
    IN  [c |-> (track \div bpb.cylinder) % CylinderByte, h |-> track % bpb.cylinder,
         s |-> (si % bpb.track) + 1]

\* The address that is meant comes in si, computed in sixteen bits.
CHS(lba) ==
    LET si    == lba % Segment
        track == si \div bpb.track
    IN  [c |-> track \div bpb.cylinder, h |-> track % bpb.cylinder, s |-> (si % bpb.track) + 1]

\* The bits of two numbers of two bits each.
Or(m, n) ==
    LET both == 2 * ((m \div 2) * (n \div 2)) + (m % 2) * (n % 2)
    IN  m + n - both

\* What the BIOS reads, or Unread if the drive has no such place.  The sector
\* and the highest bits of the cylinder share a register.
Bios(p) ==
    LET s == p.s % SectorField
        c == (p.c % CylinderByte)
               + CylinderByte * Or((p.c \div CylinderByte) % 4, (p.s \div SectorField) % 4)
    IN  IF s \in 1 .. drive.sectors /\ p.h < drive.heads /\ c < drive.cylinders
          THEN (c * drive.heads + p.h) * drive.sectors + s - 1 ELSE Unread

Read(lba) == Bios(CHS(lba))

\* What follows a read: it is noted, and if it failed that is the end.
Noted(lba, next) ==
    /\ last' = <<lba, Read(lba)>>
    /\ pc' = IF Read(lba) = Unread THEN "error" ELSE next

-----------------------------------------------------------------------------
(***************************************************************************)
(* boot.s.                                                                 *)
(***************************************************************************)

\* What the BIOS tells of a hard disk is stored: of cl all bits, though those
\* above the sector are the highest of the last cylinder.
Parameters ==
    [track |-> drive.sectors + SectorField * ((drive.cylinders - 1) \div CylinderByte),
     cylinder |-> drive.heads]

Start ==
    /\ pc = "start"
    /\ bpb' = IF drive.hdd THEN Parameters ELSE bpb
    /\ pc' = "find"
    /\ UNCHANGED <<fat, drive, load, a20, map, entries>>

\* find_file, beyond the buffer: the next sector of the root directory.
FindSector ==
    /\ pc = "find" /\ find.di >= EntriesPerSector
    /\ Noted(RootStart + find.bx, "find")
    /\ buffer' = Read(RootStart + find.bx)
    /\ find' = [ax |-> find.ax, di |-> 0, bx |-> find.bx + 1]
    /\ UNCHANGED <<fat, drive, bpb, file, cluster, ax, bx, memory, a20, map, entries>>

\* Entry di of the buffer, which holds junk if it is no sector of the root.
Entry ==
    LET k == (buffer - RootStart) * EntriesPerSector + find.di + 1
    IN  IF k \in DOMAIN Root THEN Root[k] ELSE [name |-> "JUNK", cluster |-> 0]

\* Mutant: the last entry is not looked at.
EntriesLeft_Less == find.ax > 2

\* dec ax: whether there are entries after this one.
EntriesLeft == find.ax > 1

FindCompare ==
    /\ pc = "find" /\ find.di < EntriesPerSector
    /\ IF Entry.name = file
         THEN pc' = "read" /\ cluster' = Entry.cluster /\ bx' = Origin(file) /\ UNCHANGED find
         ELSE /\ find' = [ax |-> find.ax - 1, di |-> find.di + 1, bx |-> find.bx]
              /\ pc' = IF EntriesLeft THEN "find" ELSE "error"
              /\ UNCHANGED <<cluster, bx>>
    /\ UNCHANGED <<fat, drive, bpb, file, buffer, ax, memory, last, a20, map, entries>>

\* The address that is meant: si has it modulo Segment.
ClusterLba == Data + (cluster - 2) * SectorsPerCluster

\* read_file: a cluster is read and bx, of sixteen bits, advanced.  A cluster of
\* INIT.BIN that reaches the stack and the code of the loader overwrites them.
ReadCluster ==
    LET from == Read(ClusterLba)
        put  == [k \in {bx + i * BytesPerSector : i \in 0 .. SectorsPerCluster - 1} |->
                    from + (k - bx) \div BytesPerSector]
        over == file = INIT /\ bx + SectorsPerCluster * BytesPerSector > StackEnd
    IN  /\ pc = "read"
        /\ Noted(ClusterLba, IF over THEN "lost" ELSE "next")
        /\ memory' = [memory EXCEPT ![file] = [a \in DOMAIN put \cup DOMAIN @ |->
                                                 IF a \in DOMAIN put THEN put[a] ELSE @[a]]]
        /\ bx' = (bx + SectorsPerCluster * BytesPerSector) % Segment
        /\ UNCHANGED <<fat, drive, bpb, file, find, buffer, cluster, ax, a20, map, entries>>

\* How the volume was made: entries of three half bytes, lowest first.
HalfByte(n) == IF n \div 3 \in DOMAIN fat THEN (fat[n \div 3] \div <<1, 16, 256>>[(n % 3) + 1]) % 16 ELSE 0

FatByte(k) == HalfByte(2 * k) + 16 * HalfByte(2 * k + 1)

\* Byte k of the buffer, if it holds a sector of the FAT.
BufferByte(b, k, junk) ==
    IF k >= BytesPerSector THEN junk ELSE FatByte((b - ReservedSectors) * BytesPerSector + k)

\* The twelve bits of a cluster's entry in the word that holds them.
Twelve(word) == IF cluster % 2 = 1 THEN word \div 16 ELSE word % 4096

\* A cluster from 0xFF0 on ends the file.  The second byte of the entry is taken
\* from after the buffer if the first is its last.
NextCluster(junk) ==
    LET offset == EntryOffset(cluster)
        lba    == ReservedSectors + offset \div BytesPerSector
        at     == offset % BytesPerSector
        next   == Twelve(BufferByte(Read(lba), at, junk) + 256 * BufferByte(Read(lba), at + 1, junk))
        done   == next >= 4080
    IN  /\ pc = "next"
        /\ Noted(lba, IF ~done THEN "read" ELSE IF file = INIT THEN "find" ELSE "a20")
        /\ buffer' = Read(lba)
        /\ cluster' = next /\ ax' = cluster
        /\ file' = IF done THEN KERNEL ELSE file
        /\ find' = IF done THEN FindStart ELSE find
        /\ UNCHANGED <<fat, drive, bpb, bx, memory, a20, map, entries>>

-----------------------------------------------------------------------------
(***************************************************************************)
(* init16.s and init32.s.                                                  *)
(***************************************************************************)

\* The function of int 0x15 that enables the A20 line.
ENABLE_A20 == 9217

\* int 0x15 with what boot.s left in ax: the last cluster of KERNEL.BIN.
EnableA20 ==
    /\ pc = "a20" /\ pc' = "e820"
    /\ a20' = (a20 \/ ax = ENABLE_A20)
    /\ UNCHANGED <<fat, drive, bpb, load, map, entries>>

\* ebx is zero once the last entry has been returned.
Done(k) == k >= Len(map)

\* One turn of read_e820's loop.
read_e820 ==
    LET k == Len(entries) + 1
    IN  /\ pc = "e820" /\ k \in DOMAIN map /\ map[k] # CARRY
        /\ entries' = Append(entries, map[k])
        /\ pc' = IF Done(k) THEN "protected" ELSE "e820"
        /\ UNCHANGED <<fat, drive, bpb, load, a20, map>>

\* Any call that comes back with the carry set, or without "SMAP" as from a BIOS
\* without that function, is an error.
E820Fails ==
    /\ pc = "e820"
    /\ Len(entries) + 1 \in DOMAIN map => map[Len(entries) + 1] = CARRY
    /\ pc' = "error"
    /\ UNCHANGED <<fat, drive, bpb, load, a20, map, entries>>

\* Protected mode is entered, the processor identified and the kernel called.
init32 ==
    /\ pc = "protected" /\ pc' = "kernel"
    /\ UNCHANGED <<fat, drive, bpb, load, a20, map, entries>>

\* error and halt: a loop; so is the kernel, as far as the loader goes.  What the
\* processor does after the loader was overwritten is not followed.
Ended == pc \in {"error", "kernel", "lost"} /\ UNCHANGED vars

Next ==
    \/ Start \/ FindSector \/ FindCompare \/ ReadCluster
    \/ \E junk \in Junk : NextCluster(junk)
    \/ EnableA20
    \/ read_e820 \/ E820Fails \/ init32
    \/ Ended

\* The processor goes on, and the BIOS answers.
Spec == Init /\ [][Next]_vars /\ WF_vars(Next)

-----------------------------------------------------------------------------
\* The state is well typed.
TypeOK ==
    /\ drive \in Geometries /\ bpb \in [track : Nat \ {0}, cylinder : Nat \ {0}]
    /\ pc \in {"start", "find", "read", "next", "a20", "e820", "protected", "kernel", "error", "lost"}
    /\ file \in {INIT, KERNEL} /\ find.di \in 0 .. EntriesPerSector
    /\ cluster \in 0 .. 4095 /\ bx \in 0 .. Segment - 1
    /\ a20 \in BOOLEAN

\* The conversion of an address to a cylinder, a head and a sector is right:
\* the BIOS reads the sector that was meant.
ReadsAsked == last[1] = last[2]

\* The number of clusters of a file, of which each has an entry.
Length(f) ==
    CHOOSE n \in DOMAIN fat \ {0} :
        ClusterOf(fat, f, n) >= 4080 /\ \A k \in 1 .. n - 1 : ClusterOf(fat, f, k) < 4080

\* A file as it should lie in memory.
Image(f) ==
    [a \in {Origin(f) + k * BytesPerSector : k \in 0 .. Length(f) * SectorsPerCluster - 1} |->
        LET k == (a - Origin(f)) \div BytesPerSector
        IN  Data + (ClusterOf(fat, f, k \div SectorsPerCluster) - 2) * SectorsPerCluster
              + (k % SectorsPerCluster)]

\* The kernel is entered with both files in memory, every sector in its place.
Loaded == pc \in {"e820", "protected", "kernel"} => \A f \in {INIT, KERNEL} : memory[f] = Image(f)

\* The kernel is told of all the memory there is, in the BIOS's order.
MapComplete == pc \in {"protected", "kernel"} => entries = map

\* The A20 line is on when the kernel is entered: without it every odd
\* megabyte of the heap is the one before it.  Does not hold on a machine that
\* starts with the line off: README, "Known violations".
A20On == pc = "kernel" => a20

\* With both files in the root directory and a BIOS that tells its memory map
\* without the carry, the kernel is entered.
Boots == (map # <<>> /\ CARRY \notin Range(map)) ~> pc = "kernel"

=============================================================================

------------------------------ MODULE Loaders -------------------------------
(***************************************************************************)
(* How files come into memory: the boot loader, the names and the          *)
(* directories of a FAT12 volume, and the ELF loader.                      *)
(*                                                                         *)
(* The four have no variable in common, so the states that one of them can *)
(* reach do not depend on the others: a behaviour is one in which a single *)
(* one runs and the others stay where they began.                          *)
(***************************************************************************)
EXTENDS FatWalk

CONSTANTS
    BytesPerSector, SectorsPerCluster, ReservedSectors, SectorsPerFat, Root, EntrySize, Fats,
    Geometries, SectorField, CylinderByte, AfterBuffer, Segment, InitOffset, StackEnd,
    Clear16, MemoryMaps,                                                                \* Boot
    Objects, Base, Word,                                                                \* Elf
    FAT12_FILENAME_LENGTH, FAT12_EXTENSION_LENGTH, Files, Directories, Components,
    AfterName                                                                           \* FatNames

VARIABLES
    unit,       \* what runs
    fat, drive, bpb, boot, loading, find, sector, loaded, ax, bx, memory, last, a20, map, mmap, \* Boot
    object, elf, section, rel, image, strays, start,                                            \* Elf
    kind, characters, listed, component, name, index, spot, buffer, ext, matched                \* FatNames

loader == <<fat, drive, bpb, boot, loading, find, sector, loaded, ax, bx, memory, last, a20, map, mmap>>
linker == <<object, elf, section, rel, image, strays, start>>
naming == <<kind, characters, listed, component, name, index, spot, buffer, ext, matched>>

all == <<unit, vars, loader, linker, naming>>

B == INSTANCE Boot WITH
        Junk <- AfterBuffer,
        pc <- boot, file <- loading, buffer <- sector, cluster <- loaded, entries <- mmap

L == INSTANCE Elf WITH
        Files <- Objects,
        file <- object, pc <- elf, i <- section, j <- rel, result <- start

M == INSTANCE FatNames WITH
        Junk <- AfterName,
        entry <- characters, path <- component, pc <- name, i <- index, k <- spot, result <- matched

ASSUME LoadersAssumption ==
    /\ B!BootAssumption /\ L!ElfAssumption /\ M!FatNamesAssumption
    /\ {} \notin {Fats, Geometries, MemoryMaps, Objects, Directories}

-----------------------------------------------------------------------------
LoadersInit ==
    /\ unit \in {"walk", "boot", "elf", "names"}
    /\ IF unit = "boot" THEN B!Given
       ELSE /\ fat = CHOOSE t \in Fats : TRUE
            /\ drive = CHOOSE g \in Geometries : TRUE
            /\ map = CHOOSE s \in MemoryMaps : TRUE
    /\ IF unit = "elf" THEN object \in Objects ELSE object = CHOOSE o \in Objects : TRUE
    /\ IF unit = "names" THEN M!Asked
       ELSE /\ kind = "dir" /\ characters = CHOOSE e \in Directories : TRUE
            /\ listed = TRUE /\ component = M!fat12_format_dir_name(characters)
    /\ B!PowerOn /\ L!Start /\ M!Start
    /\ Init

LoadersNext ==
    \/ /\ unit = "walk" /\ Next
       /\ UNCHANGED <<unit, loader, linker, naming>>
    \/ /\ unit = "boot" /\ B!Next
       /\ UNCHANGED <<unit, vars, linker, naming>>
    \/ /\ unit = "elf" /\ L!Next
       /\ UNCHANGED <<unit, vars, loader, naming>>
    \/ /\ unit = "names" /\ M!Next
       /\ UNCHANGED <<unit, vars, loader, linker>>

\* The fairness of Boot and of Elf.
LoadersFairness ==
    /\ WF_loader(unit = "boot" /\ B!Next)
    /\ WF_linker(unit = "elf" /\ L!Next)

LoadersSpec == LoadersInit /\ [][LoadersNext]_all /\ LoadersFairness

-----------------------------------------------------------------------------
\* The state of all four is well typed.
LoadersTypeOK == TypeOK /\ B!TypeOK /\ L!TypeOK /\ M!TypeOK

\* What is loaded is what was meant.  The boot loader computes cylinder, head
\* and sector right, and enters the kernel with every sector of both files in
\* its place and with all of the memory map, in the BIOS's order.  elf_read
\* stores nothing outside of the image it allocated, whatever the file, and of the
\* files for this machine hands over none unless every word of every section is
\* what it is meant to be at this address, whatever order the sections and the
\* relocations come in.
LoadedRight ==
    /\ B!ReadsAsked /\ B!Loaded /\ B!MapComplete
    /\ L!InImage /\ L!Linked

\* With both files in the root directory and a BIOS that tells its memory map
\* without the carry, the kernel is entered; and elf_read comes to an end, also
\* after a failed assertion, and hands over every file that can be linked.
LoadedInTheEnd == (unit = "boot" => B!Boots) /\ (unit = "elf" => L!Ends)

\* A path leads to the entry it names and to no other.  The walk uses no block
\* it has freed and resolves what can be resolved; the name that a listing shows
\* of an entry opens that entry, unless it is longer than what an entry holds,
\* and a component opens no entry that it does not name.
PathsLead ==
    /\ NoUseAfterFree /\ Resolves
    /\ M!ShortListedOpens /\ M!OwnName

=============================================================================

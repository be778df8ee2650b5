------------------------------- MODULE Fat12 --------------------------------
(***************************************************************************)
(* kernel/src/filesystem: opening, reading, seeking and closing files and  *)
(* listing directories of a FAT12 volume (fat12.c), by way of the table of *)
(* mounted drivers (fs.c) and on top of ata_read, which copies sectors.    *)
(*                                                                         *)
(* The volume is constant: the driver does not write.  A byte of it is     *)
(* represented by where it lies on the disk, so that a buffer records      *)
(* which bytes were copied into it.  The file allocation table (FAT) is    *)
(* kept as the bytes it is made of, three for two entries.  Names are      *)
(* compared as a whole, and components of more than eleven characters are  *)
(* refused: the characters are those of FatNames.  A directory has one     *)
(* cluster, or is the root: chains of clusters, and the blocks directories *)
(* are read into, are those of FatWalk.                                    *)
(*                                                                         *)
(* A read is a loop over the clusters of the file, one step of the model   *)
(* for each, since interrupts come in between.                             *)
(***************************************************************************)
EXTENDS Integers, Sequences, SequencesExt

CONSTANTS
    BytesPerSector, SectorsPerCluster, LbaData,     \* bpb, and lba_data
    Fat,        \* the entries of the FAT, from 0
    Dir,        \* the entries of each directory, by its first cluster; 0 is the root
    Paths,      \* the paths that are opened: a letter and a sequence of names
    Mounts,     \* the letters under which drivers are mounted
    DRIVERS_LENGTH,
    TooLong,    \* the names of more than FAT12_FILENAME_LENGTH characters
    Lens,       \* the lengths that are read
    Seeks,      \* the offsets that are sought
    DirLens,    \* what the *len that is passed to fs_readdir may hold
    Junk,       \* what the byte after a block of the heap may be
    Word        \* uint32_t holds 0 .. Word - 1

ClusterSize == BytesPerSector * SectorsPerCluster

NONE == -1

DRIVER_MOUNT_UNASSIGNED == ""

DIRECTORY == "DIRECTORY"
ARCHIVE   == "ARCHIVE"

\* fat12_directory_entry, without the fields the driver does not look at.
DirEntry == [name : STRING, attributes : STRING, cluster : Nat, size : Nat]

\* A volume as mkfs makes it: the FAT has no holes, and what is marked as a
\* directory is one.
ASSUME Fat12Assumption ==
    /\ {BytesPerSector, SectorsPerCluster} \subseteq Nat \ {0}
    /\ LbaData \in Nat
    /\ \A c \in DOMAIN Fat : c \in Nat /\ Fat[c] \in 0 .. 4095
    /\ Lens \subseteq Nat /\ Seeks \subseteq Nat /\ Junk \subseteq 0 .. 255
    /\ DirLens \subseteq Nat
    /\ Word \in Nat \ {0} /\ DRIVERS_LENGTH \in Nat
    /\ \A c \in DOMAIN Fat : 0 .. c \subseteq DOMAIN Fat
    /\ 0 \in DOMAIN Dir /\ DOMAIN Dir \subseteq Nat
    /\ \A d \in DOMAIN Dir : Dir[d] \in Seq(DirEntry)
    /\ \A d \in DOMAIN Dir : \A k \in DOMAIN Dir[d] :
            Dir[d][k].attributes = DIRECTORY => Dir[d][k].cluster \in DOMAIN Dir
    /\ \A path \in Paths : path.names \in Seq(STRING)

VARIABLES
    drivers,    \* fs.c's drivers: the letters of the mounted ones, in order
    file,       \* fs_file: ref, len, offset and driver, or NoFile
    dir,        \* fs_dir: ref and driver, and the path it was opened by, or NoDir
    dirents,    \* what fs_readdir has listed of it
    rd,         \* the locals of a fat12_read that is under way, or Idle
    asked,      \* the length the last caller asked for
    dest        \* what its buffer holds

vars == <<drivers, file, dir, dirents, rd, asked, dest>>

NoFile == [ref |-> NONE, len |-> 0, offset |-> 0, driver |-> DRIVER_MOUNT_UNASSIGNED]

NoDir == [ref |-> NONE, driver |-> DRIVER_MOUNT_UNASSIGNED, path |-> <<>>]

Idle == [start |-> 0, old |-> <<>>, old_asked |-> 0, i |-> NONE, cluster |-> 0, begin |-> 0,
         offset_begin |-> 0, end |-> 0, offset_end |-> 0, src_offset |-> 0, src_len |-> 0]

Init ==
    /\ drivers = <<>>
    /\ file = NoFile /\ dir = NoDir /\ dirents = <<>>
    /\ rd = Idle /\ asked = 0 /\ dest = <<>>

-----------------------------------------------------------------------------
(***************************************************************************)
(* The file allocation table.                                              *)
(***************************************************************************)

\* How the volume was made: entries of three half bytes, lowest first.
HalfByte(n) ==
    IF n \div 3 \in DOMAIN Fat THEN (Fat[n \div 3] \div <<1, 16, 256>>[1 + (n % 3)]) % 16 ELSE 0

FatByte(k) == HalfByte(2 * k) + 16 * HalfByte(2 * k + 1)

fat12_valid_cluster(c) == c \in 2 .. 4079

\* Mutant: every entry is read like those of even clusters.
fat12_read_fat_Even(c, junk) ==
    LET k == c + c \div 2
    IN  (FatByte(k) + 256 * FatByte(k + 1)) % 4096

\* fat12_read_fat reads two bytes from a buffer of one sector; when the first
\* is the last of the sector, the second is the byte after the buffer.
fat12_read_fat(c, junk) ==
    LET byte_offset   == c + c \div 2
        sector_offset == byte_offset % BytesPerSector
        low  == FatByte(byte_offset)
        high == IF sector_offset + 1 < BytesPerSector THEN FatByte(byte_offset + 1) ELSE junk
        next_cluster == low + 256 * high
    IN  IF c % 2 = 1 THEN next_cluster \div 16 ELSE next_cluster % 4096

fat12_cluster_lba(c) == LbaData + (c - 2) * SectorsPerCluster

\* Byte k of the cluster that ata_read has copied into src_buffer.
SrcByte(c, k) == fat12_cluster_lba(c) * BytesPerSector + k

-----------------------------------------------------------------------------
(***************************************************************************)
(* Mounting, opening and closing.                                          *)
(***************************************************************************)

\* fs_mount: the first place of the table that is free.
fs_mount(mnt) ==
    /\ Len(drivers) < DRIVERS_LENGTH
    /\ drivers' = Append(drivers, mnt)
    /\ UNCHANGED <<file, dir, dirents, rd, asked, dest>>

\* The index of the first entry of that kind and name, or 0.
Find(d, name, kind) ==
    IF name \in TooLong THEN 0
    ELSE SelectInSeq(Dir[d], LAMBDA e : e.attributes = kind /\ e.name = name)

\* fat12_opendir: the cluster of the directory the names lead to from the root.
fat12_opendir(names) ==
    LET d[k \in 0 .. Len(names)] ==
            IF k = 0 THEN 0
            ELSE IF d[k - 1] = NONE THEN NONE
            ELSE LET e == Find(d[k - 1], names[k], DIRECTORY)
                 IN  IF e = 0 THEN NONE ELSE Dir[d[k - 1]][e].cluster
    IN  d[Len(names)]

\* fat12_open: each name but the last leads to a directory, the last to a file.
fat12_open(names) ==
    LET d == IF names = <<>> THEN NONE ELSE fat12_opendir(Front(names))
        e == IF d = NONE THEN 0 ELSE Find(d, Last(names), ARCHIVE)
    IN  IF e = 0 THEN NoFile
        ELSE [NoFile EXCEPT !.ref = Dir[d][e].cluster, !.len = Dir[d][e].size]

\* fs_open and fs_opendir look for the first driver mounted under the letter of
\* the path; a path of another form has no letter.  When the driver finds
\* nothing they store the driver through NULL before they return NULL.
Mounted(path) == path.mnt \in ToSet(drivers)

fs_open(path) ==
    LET f == fat12_open(path.names)
    IN  IF ~Mounted(path) \/ f = NoFile THEN NoFile ELSE [f EXCEPT !.driver = path.mnt]

fs_opendir(path) ==
    LET ref == fat12_opendir(path.names)
    IN  IF ~Mounted(path) \/ ref = NONE THEN NoDir
        ELSE [ref |-> ref, driver |-> path.mnt, path |-> path.names]

\* Bound: a caller has one file or one directory open at a time.
NothingOpen == file = NoFile /\ dir = NoDir

Open(path) ==
    /\ NothingOpen
    /\ file' = fs_open(path)
    /\ UNCHANGED <<drivers, dir, dirents, rd, asked, dest>>

OpenDir(path) ==
    /\ NothingOpen
    /\ dir' = fs_opendir(path)
    /\ UNCHANGED <<drivers, file, dirents, rd, asked, dest>>

Close ==
    /\ file # NoFile /\ rd = Idle
    /\ file' = NoFile
    /\ UNCHANGED <<drivers, dir, dirents, rd, asked, dest>>

\* The caller drops what it listed with the directory.
CloseDir ==
    /\ dir # NoDir
    /\ dir' = NoDir /\ dirents' = <<>>
    /\ UNCHANGED <<drivers, file, rd, asked, dest>>

\* What a listing has of a directory: the files and directories but "." and "..".
Shown(e) == e.attributes \in {DIRECTORY, ARCHIVE} /\ e.name \notin {".", ".."}

Listed(entries) ==
    LET l[k \in 0 .. Len(entries)] ==
            IF k = 0 THEN <<>>
            ELSE IF Shown(entries[k])
                THEN Append(l[k - 1], [name |-> entries[k].name, type |-> entries[k].attributes])
                ELSE l[k - 1]
    IN  l[Len(entries)]

\* An entry of the listing that fat12_readdir did not write.
Unwritten == [name |-> "?", type |-> "?"]

\* fat12_readdir goes on counting where *len stands when it is called, and
\* leaves the entries in front of that as they are.
fat12_readdir(entries, len) == [i \in 1 .. len |-> Unwritten] \o Listed(entries)

ReadDir ==
    /\ dir # NoDir
    /\ \E len \in DirLens : dirents' = fat12_readdir(Dir[dir.ref], len)
    /\ UNCHANGED <<drivers, file, dir, rd, asked, dest>>

\* The sum of two uint32_t.
Sum(a, b) == (a + b) % Word

\* Mutant: a seek goes where it is told.
Seek_Unchecked(o) ==
    /\ file # NoFile /\ rd = Idle
    /\ file' = [file EXCEPT !.offset = o]
    /\ UNCHANGED <<drivers, dir, dirents, rd, asked, dest>>

\* fat12_seek: the offset is absolute, the check adds the current one.
Seek(o) ==
    /\ file # NoFile /\ rd = Idle
    /\ file' = [file EXCEPT !.offset = IF Sum(file.offset, o) > file.len THEN file.len ELSE o]
    /\ UNCHANGED <<drivers, dir, dirents, rd, asked, dest>>

-----------------------------------------------------------------------------
(***************************************************************************)
(* fat12_read.                                                             *)
(***************************************************************************)

\* A read is cut at the end of the file.
Clip(n) == IF Sum(file.offset, n) > file.len THEN file.len - file.offset ELSE n

\* There is nothing to read: the call returns.
ReadNothing(n) ==
    /\ file # NoFile /\ rd = Idle
    /\ Clip(n) = 0
    /\ asked' = n /\ dest' = <<>>
    /\ UNCHANGED <<drivers, file, dir, dirents, rd>>

ReadBegin(n) ==
    LET len == Clip(n)
        end == Sum(file.offset, len)
    IN  /\ file # NoFile /\ rd = Idle
        /\ len # 0
        /\ rd' = [start |-> file.offset, old |-> dest, old_asked |-> asked, i |-> 0,
                  cluster      |-> file.ref,
                  begin        |-> file.offset \div ClusterSize,
                  offset_begin |-> file.offset % ClusterSize,
                  end          |-> end \div ClusterSize,
                  offset_end   |-> end % ClusterSize,
                  src_offset   |-> 0, src_len |-> 0]
        /\ asked' = n /\ dest' = <<>>
        /\ UNCHANGED <<drivers, file, dir, dirents>>

\* Mutant: a length is subtracted the wrong way round.
Slice_Swapped ==
    CASE rd.i = rd.begin /\ rd.i = rd.end -> <<rd.offset_begin, (rd.offset_end - rd.offset_begin) % Word>>
      [] rd.i = rd.begin /\ rd.i # rd.end -> <<rd.offset_begin, rd.offset_begin - ClusterSize>>
      [] rd.i # rd.begin /\ rd.i = rd.end -> <<0, rd.offset_end>>
      [] OTHER -> <<rd.src_offset, rd.src_len>>

\* Mutant: the last cluster is copied whole.
Slice_WholeLast ==
    CASE rd.i = rd.begin -> <<rd.offset_begin, ClusterSize - rd.offset_begin>>
      [] OTHER -> <<0, ClusterSize>>

\* The slice, as offset and length, of the cluster at rd.i that is copied; one
\* that is neither the first nor the last keeps the values it finds.
Slice ==
    CASE rd.i = rd.begin /\ rd.i = rd.end -> <<rd.offset_begin, (rd.offset_end - rd.offset_begin) % Word>>
      [] rd.i = rd.begin /\ rd.i # rd.end -> <<rd.offset_begin, ClusterSize - rd.offset_begin>>
      [] rd.i # rd.begin /\ rd.i = rd.end -> <<0, rd.offset_end>>
      [] OTHER -> <<rd.src_offset, rd.src_len>>

\* One turn of the loop: from rd.begin on the cluster is read and its slice
\* appended to the caller's buffer, then the next cluster is looked up.
ReadCluster(junk) ==
    LET from   == Slice[1]
        count  == Slice[2]
        copies == rd.i >= rd.begin
        next   == [rd EXCEPT !.i = rd.i + 1,
                             !.cluster    = fat12_read_fat(rd.cluster, junk),
                             !.src_offset = IF copies THEN from ELSE @,
                             !.src_len    = IF copies THEN count ELSE @]
    IN  /\ rd # Idle /\ fat12_valid_cluster(rd.cluster)
        /\ dest' = IF copies THEN dest \o [k \in 1 .. count |-> SrcByte(rd.cluster, from + k - 1)]
                             ELSE dest
        /\ file' = [file EXCEPT !.offset = IF copies THEN Sum(@, count) ELSE @]
        /\ rd' = IF rd.i = rd.end THEN Idle ELSE next
        /\ UNCHANGED <<drivers, dir, dirents, asked>>

\* The chain has ended: the call returns, and src_buffer is not freed.
ReadInvalid ==
    /\ rd # Idle /\ ~fat12_valid_cluster(rd.cluster)
    /\ rd' = Idle
    /\ UNCHANGED <<drivers, file, dir, dirents, asked, dest>>

Next ==
    \/ \E mnt \in Mounts : fs_mount(mnt)
    \/ \E path \in Paths : Open(path) \/ OpenDir(path)
    \/ Close
    \/ CloseDir
    \/ ReadDir
    \/ \E o \in Seeks : Seek(o)
    \/ \E n \in Lens : ReadNothing(n) \/ ReadBegin(n)
    \/ \E junk \in Junk : ReadCluster(junk)
    \/ ReadInvalid

Spec == Init /\ [][Next]_vars

-----------------------------------------------------------------------------
\* The state is well typed.
TypeOK ==
    /\ drivers \in Seq(Mounts) /\ Len(drivers) <= DRIVERS_LENGTH
    /\ file \in [ref : Nat \cup {NONE}, len : Nat, offset : Nat,
                driver : Mounts \cup {DRIVER_MOUNT_UNASSIGNED}]
    /\ dir.ref \in DOMAIN Dir \cup {NONE} /\ dir.driver \in Mounts \cup {DRIVER_MOUNT_UNASSIGNED}
    /\ DOMAIN rd = DOMAIN Idle /\ rd.src_offset \in Nat /\ rd.src_len \in Nat
    /\ asked \in Nat /\ dest \in Seq(Int)

\* Reads and seeks, in any order, leave the offset inside the file: were it
\* beyond the end, the clipped length of the next read would wrap around.
OffsetInFile == file.offset <= file.len

\* A read stays inside the buffers: it copies no more than the caller asked
\* for, and takes no slice that exceeds a cluster.
InBuffers ==
    [][rd # Idle => /\ Len(dest') <= asked
                    /\ rd.i >= rd.begin => Slice[1] + Slice[2] <= ClusterSize]_vars

\* What a listing shows can be opened: the path of the directory and the name
\* shown lead to the entry that was listed, and to the right one when a file
\* and a directory share a name.
ListedOpens ==
    \A k \in DOMAIN dirents :
        LET e    == dirents[k]
            path == [mnt |-> dir.driver, names |-> Append(dir.path, e.name)]
            ref  == IF e.type = ARCHIVE THEN fs_open(path).ref ELSE fs_opendir(path).ref
        IN  \E i \in DOMAIN Dir[dir.ref] :
                Dir[dir.ref][i].name = e.name /\ Dir[dir.ref][i].attributes = e.type
                    /\ Dir[dir.ref][i].cluster = ref

\* However a file was reached and moved in, it can be gone on with: what was
\* listed opens, and what is open is not past its end.
Usable == OffsetInFile /\ ListedOpens

\* The clusters of the file at ref, by the entries of the FAT themselves.
ClusterOf(ref, n) ==
    LET c[k \in 0 .. n] == IF k = 0 THEN ref ELSE Fat[c[k - 1]]
    IN  c[n]

\* The bytes of a file.
Content(f) ==
    [k \in 1 .. f.len |-> SrcByte(ClusterOf(f.ref, (k - 1) \div ClusterSize), (k - 1) % ClusterSize)]

F == INSTANCE File WITH
        Contents <- {Content([ref |-> e.cluster, len |-> e.size]) :
                        e \in {x \in UNION {ToSet(Dir[d]) : d \in DOMAIN Dir} :
                                x.attributes = ARCHIVE}},
        content  <- IF file = NoFile THEN <<>> ELSE Content(file),
        pos      <- IF file = NoFile THEN -1 ELSE IF rd = Idle THEN file.offset ELSE rd.start,
        asked    <- IF rd = Idle THEN asked ELSE rd.old_asked,
        last     <- IF rd = Idle THEN dest ELSE rd.old

\* The seeks that fat12_seek gets wrong: the place is in the file, but the check
\* adds the current offset to it, and the file ends up at its end.
StraySeek ==
    \E o \in Seeks : Seek(o) /\ o < file.len /\ file.offset + o > file.len

\* However a file is scattered over the volume, reading it gives its bytes in
\* order and from where the last read or seek left off, and a seek goes where it
\* is told unless it is one of the strayed.
ReadsFile == F!Init /\ [][F!Next \/ StraySeek]_(F!vars)

-----------------------------------------------------------------------------
(***************************************************************************)
(* What the theorems assume of the volume and of the callers.              *)
(***************************************************************************)

\* The sums that are computed in 32 bits do not wrap around: no file and no
\* length that is read or sought comes near the last number.
NoWrap ==
    \A d \in DOMAIN Dir : \A k \in DOMAIN Dir[d] :
        Dir[d][k].size < Word /\ \A n \in Lens \cup Seeks : Dir[d][k].size + n < Word

\* Callers of fs_readdir set *len to 0 first.
LenCleared == DirLens = {0}

\* The listed names are among those that open accepts.
NamesFit ==
    \A d \in DOMAIN Dir : \A k \in DOMAIN Dir[d] : Dir[d][k].name \notin TooLong

\* The chain of a file has a cluster of the volume for each part of its length,
\* and no entry of the FAT that leads from one to the next lies in two sectors.
SoundChains ==
    \A d \in DOMAIN Dir : \A k \in DOMAIN Dir[d] :
        LET f == Dir[d][k]
        IN  f.attributes = ARCHIVE =>
                \A j \in 0 .. f.size :
                    LET c == ClusterOf(f.cluster, j)
                    IN  /\ j * ClusterSize < f.size => fat12_valid_cluster(c)
                        /\ (j + 1) * ClusterSize < f.size =>
                                /\ c \in DOMAIN Fat
                                /\ ((c + c \div 2) % BytesPerSector) + 1 < BytesPerSector

\* No read is longer than a cluster.
ShortReads == \A n \in Lens : n <= ClusterSize

=============================================================================

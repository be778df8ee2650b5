------------------------------ MODULE FatNames ------------------------------
(***************************************************************************)
(* kernel/src/filesystem/fat12.c: the names of files and directories.  An  *)
(* entry of a directory holds eleven characters, name and extension, each  *)
(* padded with spaces.  fat12_format_file_name and fat12_format_dir_name   *)
(* make of them what a listing shows; fat12_open and fat12_opendir make of *)
(* a component of a path what is compared with an entry.                   *)
(*                                                                         *)
(* One component is compared with one entry, step by step.  Indexes count  *)
(* from zero, as in the code.                                              *)
(***************************************************************************)
EXTENDS Integers, Sequences, SequencesExt

CONSTANTS
    FAT12_FILENAME_LENGTH, FAT12_EXTENSION_LENGTH,
    Files, Directories,     \* what entries may hold
    Components,             \* what may be typed in a path
    Junk                    \* the characters that may follow the buffer

BaseLength == FAT12_FILENAME_LENGTH - FAT12_EXTENSION_LENGTH

SPACE == " "
NUL == "NUL"

\* Where the name of a file ends in c: at its first dot but one it begins with.
DotOf(c) == SelectInSubSeq(c, 2, Len(c), LAMBDA x : x = ".")

\* No text has the character that ends it.  The name of a file is not empty, and
\* its dot is not stored.
FatNamesAssumption ==
    /\ FAT12_FILENAME_LENGTH \in Nat
    /\ FAT12_EXTENSION_LENGTH \in Nat \ {0} /\ BaseLength \in Nat \ {0}
    /\ \A s \in Files \cup Directories \cup Components :
          s \in Seq(STRING) /\ \A x \in 1 .. Len(s) : s[x] # NUL
    /\ \A e \in Files \cup Directories : Len(e) = FAT12_FILENAME_LENGTH
    /\ \A e \in Files : e[1] # SPACE /\ \A x \in 1 .. Len(e) : e[x] # "."

\* What OwnName holds for: neither name nor extension is longer than an entry's.
NamesFit ==
    \A c \in Components :
        DotOf(c) # 0 /\ Len(c) <= FAT12_FILENAME_LENGTH =>
            DotOf(c) - 1 <= BaseLength /\ Len(c) - DotOf(c) <= FAT12_EXTENSION_LENGTH

VARIABLES
    kind, entry,    \* "file" or "dir", and the characters of the entry
    listed,         \* whether the component is what a listing shows of the entry
    path,           \* the component
    pc, i, k,       \* where fat12_open is, and its indexes
    buffer, ext,    \* its arrays
    result          \* "none", "opened", "not found" or "refused"

vars == <<kind, entry, listed, path, pc, i, k, buffer, ext, result>>

\* strtrim: without the spaces at the end.
Trimmed(s) ==
    LET n == CHOOSE m \in 0 .. Len(s) :
                /\ m = 0 \/ s[m] # SPACE
                /\ \A x \in m + 1 .. Len(s) : s[x] = SPACE
    IN  SubSeq(s, 1, n)

fat12_format_file_name(src) ==
    Trimmed(SubSeq(src, 1, BaseLength)) \o <<".">> \o SubSeq(src, BaseLength + 1, FAT12_FILENAME_LENGTH)

fat12_format_dir_name(src) == Trimmed(src)

\* What is compared: any component, or what a listing shows of the entry.
Asked ==
    /\ \/ kind = "file" /\ entry \in Files
       \/ kind = "dir" /\ entry \in Directories
    /\ listed \in BOOLEAN
    /\ path \in IF ~listed THEN Components
                ELSE IF kind = "file" THEN {fat12_format_file_name(entry)}
                ELSE {fat12_format_dir_name(entry)}

Start ==
    /\ pc = "copy" /\ i = 0 /\ k = 1
    /\ buffer = [x \in 1 .. FAT12_FILENAME_LENGTH + 1 |-> SPACE]
    /\ ext = [x \in 1 .. FAT12_EXTENSION_LENGTH |-> NUL]
    /\ result = "none"

Init == Asked /\ Start

-----------------------------------------------------------------------------
Full == i = FAT12_FILENAME_LENGTH

\* The characters of the component go to the buffer.
Copy ==
    /\ pc = "copy" /\ i < Len(path) /\ ~Full
    /\ buffer' = [buffer EXCEPT ![i + 1] = path[i + 1]]
    /\ i' = i + 1
    /\ UNCHANGED <<kind, entry, listed, path, pc, k, ext, result>>

\* A component that is longer than an entry's name is refused.
Refuse ==
    /\ pc = "copy" /\ i < Len(path) /\ Full
    /\ pc' = "done" /\ result' = "refused"
    /\ UNCHANGED <<kind, entry, listed, path, i, k, buffer, ext>>

\* The end of the path: fat12_opendir takes the buffer as it is.
Copied ==
    /\ pc = "copy" /\ i = Len(path)
    /\ pc' = IF kind = "file" THEN "extension" ELSE "find"
    /\ UNCHANGED <<kind, entry, listed, path, i, k, buffer, ext, result>>

HasExt == ext[1] # NUL

\* The character at an index of the buffer, or beyond it what lies there.
At(n, junk) == IF n < Len(buffer) THEN buffer[n + 1] ELSE junk

\* A dot: what follows it is the extension, and the dot is looked at again.
FindDot(junk) ==
    /\ pc = "extension" /\ k < FAT12_FILENAME_LENGTH /\ ~HasExt
    /\ buffer[k + 1] = "."
    /\ ext' = [x \in 1 .. FAT12_EXTENSION_LENGTH |-> At(k + x, junk)]
    /\ UNCHANGED <<kind, entry, listed, path, pc, i, k, buffer, result>>

NoDot ==
    /\ pc = "extension" /\ k < FAT12_FILENAME_LENGTH /\ ~HasExt
    /\ buffer[k + 1] # "."
    /\ k' = k + 1
    /\ UNCHANGED <<kind, entry, listed, path, pc, i, buffer, ext, result>>

\* From the dot on the buffer holds spaces and, at its place, the extension.
Placed == IF k >= BaseLength THEN ext[k - BaseLength + 1] ELSE SPACE

Place ==
    /\ pc = "extension" /\ k < FAT12_FILENAME_LENGTH /\ HasExt
    /\ buffer' = [buffer EXCEPT ![k + 1] = Placed]
    /\ k' = k + 1
    /\ UNCHANGED <<kind, entry, listed, path, pc, i, ext, result>>

\* A name without a dot is refused.
PlacedAll ==
    /\ pc = "extension" /\ k = FAT12_FILENAME_LENGTH
    /\ IF HasExt THEN pc' = "find" /\ UNCHANGED result
       ELSE pc' = "done" /\ result' = "refused"
    /\ UNCHANGED <<kind, entry, listed, path, i, k, buffer, ext>>

fat12_strcmp(a, b) == \A x \in 1 .. FAT12_FILENAME_LENGTH : a[x] = b[x]

Find ==
    /\ pc = "find"
    /\ pc' = "done"
    /\ result' = IF fat12_strcmp(entry, buffer) THEN "opened" ELSE "not found"
    /\ UNCHANGED <<kind, entry, listed, path, i, k, buffer, ext>>

Next ==
    \/ Copy \/ Refuse \/ Copied
    \/ \E junk \in Junk : FindDot(junk)
    \/ NoDot \/ Place \/ PlacedAll
    \/ Find

Spec == Init /\ [][Next]_vars

-----------------------------------------------------------------------------
Dot == DotOf(path)

Pad(s, n) == [x \in 1 .. n |-> IF x <= Len(s) THEN s[x] ELSE SPACE]

\* The state is well typed: whatever is typed, both arrays keep their size.
TypeOK ==
    /\ pc \in {"copy", "extension", "find", "done"}
    /\ i \in 0 .. FAT12_FILENAME_LENGTH /\ k \in 1 .. FAT12_FILENAME_LENGTH
    /\ DOMAIN buffer = 1 .. FAT12_FILENAME_LENGTH + 1
    /\ DOMAIN ext = 1 .. FAT12_EXTENSION_LENGTH
    /\ result \in {"none", "opened", "not found", "refused"}

\* What a listing shows of an entry opens that entry: the name that was trimmed
\* is padded again and the extension finds its place.  Does not hold for names
\* of full length: README, "Known violations".
ListedOpens == pc = "done" /\ listed => result = "opened"

\* The same of the names that are shown with no more characters than an entry's.
ShortListedOpens ==
    pc = "done" /\ listed /\ Len(path) <= FAT12_FILENAME_LENGTH => result = "opened"

\* A component opens an entry only if it names it: what is before the dot is
\* the entry's name, and what follows it the extension, and neither is cut.
OwnName ==
    result = "opened" =>
        IF kind = "dir" THEN Pad(path, FAT12_FILENAME_LENGTH) = entry
        ELSE /\ Dot # 0
             /\ Dot - 1 <= BaseLength /\ Len(path) - Dot <= FAT12_EXTENSION_LENGTH
             /\ entry = Pad(SubSeq(path, 1, Dot - 1), BaseLength)
                          \o Pad(SubSeq(path, Dot + 1, Len(path)), FAT12_EXTENSION_LENGTH)

=============================================================================

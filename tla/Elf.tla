-------------------------------- MODULE Elf ---------------------------------
(***************************************************************************)
(* kernel/src/execution/elf.c: a relocatable file is laid out in memory    *)
(* and linked to the address it is loaded at.                              *)
(*                                                                         *)
(* Memory is counted in words, the unit of a relocation.  A section has a  *)
(* type, an address in the image, a size and, if it has contents, words; a *)
(* section of relocations has entries, the index of the section they apply *)
(* to (sh_info) and symbols (those of sh_link).  Indices start with 1.     *)
(***************************************************************************)
EXTENDS Integers, Sequences, FiniteSetsExt

CONSTANTS
    Files,      \* what fs_read may return
    Base,       \* where malloc puts the image
    Word        \* uint32_t holds 0 .. Word - 1

UNDEF == 0
ABS   == -1

\* A section that is copied from the file: part of the image, and has contents.
IsCopied(s) == s.alloc /\ s.type = "PROGBITS"

Section ==
    [type : STRING, alloc : BOOLEAN, addr : Nat, size : Nat, words : Seq(0 .. Word - 1),
     info : Nat, rels : Seq([type : STRING, sym : Nat, offset : Nat])]

\* The numbers of sections and symbols in a file are of ones that it has; number
\* 0 is no symbol.
ElfAssumption ==
    /\ Base \in Nat /\ Word \in Nat \ {0} /\ Base < Word
    /\ \A f \in Files :
          /\ f.entry \in Nat
          /\ f.sections \in Seq(Section) /\ f.sections # <<>>
          /\ f.symbols \in Seq([shndx : Int, value : Nat])
          /\ \A n \in DOMAIN f.symbols : f.symbols[n].shndx \in {UNDEF, ABS} \cup DOMAIN f.sections
          /\ \A n \in DOMAIN f.sections :
                LET s == f.sections[n]
                IN  /\ s.info \in DOMAIN f.sections
                    /\ IsCopied(s) => Len(s.words) = s.size
                    /\ \A e \in DOMAIN s.rels : s.rels[e].sym \in {0} \cup DOMAIN f.symbols

\* What compilers and linkers make sure of: the sections of the image do not
\* overlap, and a relocation applies to a word of one of them and has a symbol,
\* and no other applies to that word.
WellFormed ==
    \A f \in Files : \A m, n \in DOMAIN f.sections :
        LET r == f.sections[m]
            s == f.sections[n]
        IN  /\ m # n /\ r.alloc /\ s.alloc =>
                  r.addr + r.size <= s.addr \/ s.addr + s.size <= r.addr
            /\ r.type = "REL" /\ r.info = n =>
                  \A e \in DOMAIN r.rels : r.rels[e].type # "NONE" =>
                      s.alloc /\ r.rels[e].offset < s.size /\ r.rels[e].sym # 0
            /\ r.type = "REL" /\ s.type = "REL" /\ r.info = s.info =>
                  \A d \in DOMAIN r.rels, e \in DOMAIN s.rels :
                      /\ r.rels[d].type # "NONE" /\ s.rels[e].type # "NONE"
                      /\ r.rels[d].offset = s.rels[e].offset
                      => m = n /\ d = e

VARIABLES
    file,
    pc,
    i, j,       \* the section, and the entry in it, that is next
    image,      \* reloc_buffer
    strays,     \* addresses outside of it that were stored to
    result      \* what the caller gets: an entry point, or UNSET

vars == <<file, pc, i, j, image, strays, result>>

UNSET == -1

Start ==
    /\ pc = "check" /\ i = 1 /\ j = 1
    /\ image = <<>> /\ strays = {} /\ result = UNSET

Init == file \in Files /\ Start

Sections == file.sections

\* elf_check_file and elf_check_support, asserted.
Check ==
    /\ pc = "check"
    /\ pc' = IF file.supported THEN "length" ELSE "halt"
    /\ UNCHANGED <<file, i, j, image, strays, result>>

\* A failed assertion halts the processor until the next interrupt; then elf_read
\* goes on.
Resume ==
    /\ pc = "halt" /\ pc' = "length"
    /\ UNCHANGED <<file, i, j, image, strays, result>>

\* The end of the last section that is part of the image.
ImageLength ==
    Max({0} \cup {Sections[n].addr + Sections[n].size : n \in {n \in DOMAIN Sections : Sections[n].alloc}})

\* The loop over the sections that gives the length, malloc and memset.
Allocate ==
    /\ pc = "length" /\ pc' = "copy"
    /\ image' = [a \in 0 .. ImageLength - 1 |-> 0]
    /\ UNCHANGED <<file, i, j, strays, result>>

\* Stores to image, of which those beyond its end go elsewhere.
StoreAll(words) ==
    /\ image' = [a \in DOMAIN image |-> IF a \in DOMAIN words THEN words[a] ELSE image[a]]
    /\ strays' = strays \cup (DOMAIN words \ DOMAIN image)

Copy ==
    LET s == Sections[i]
    IN  /\ pc = "copy"
        /\ IF IsCopied(s)
             THEN StoreAll([a \in s.addr .. s.addr + s.size - 1 |-> s.words[a - s.addr + 1]])
             ELSE UNCHANGED <<image, strays>>
        /\ IF i = Len(Sections) THEN i' = 1 /\ pc' = "relocate" ELSE i' = i + 1 /\ pc' = pc
        /\ UNCHANGED <<file, j, result>>

-----------------------------------------------------------------------------
RelEntries(n) == IF Sections[n].type = "REL" THEN Sections[n].rels ELSE <<>>

NextSection ==
    /\ pc = "relocate" /\ j > Len(RelEntries(i))
    /\ j' = 1
    /\ IF i = Len(Sections) THEN pc' = "finish" /\ i' = i ELSE i' = i + 1 /\ pc' = pc
    /\ UNCHANGED <<file, image, strays, result>>

Rel == RelEntries(i)[j]

HasEntry == pc = "relocate" /\ j <= Len(RelEntries(i))

\* An entry without a type or a symbol.
SkipEntry ==
    /\ HasEntry /\ (Rel.type = "NONE" \/ Rel.sym = 0)
    /\ j' = j + 1
    /\ UNCHANGED <<file, pc, i, image, strays, result>>

Sym == file.symbols[Rel.sym]

SymbolValue ==
    (IF Sym.shndx = ABS THEN Sym.value ELSE Base + Sym.value + Sections[Sym.shndx].addr) % Word

\* What is stored at address at of the image.
elf_rel_sym(old, at) ==
    CASE Rel.type = "32"   -> (old + SymbolValue) % Word
      [] Rel.type = "PC32" -> (old + SymbolValue - (Base + at)) % Word

Relocate ==
    LET at == Sections[Sections[i].info].addr + Rel.offset
    IN  /\ HasEntry /\ Rel.type \in {"32", "PC32"} /\ Rel.sym # 0 /\ Sym.shndx # UNDEF
        /\ StoreAll([a \in {at} |-> elf_rel_sym(IF at \in DOMAIN image THEN image[at] ELSE 0, at)])
        /\ j' = j + 1
        /\ UNCHANGED <<file, pc, i, result>>

\* An undefined symbol, or a type that is not supported: the call returns, and
\* leaves the image allocated and the caller's variables as they were.
Fails ==
    /\ HasEntry /\ Rel.type # "NONE" /\ Rel.sym # 0
    /\ Sym.shndx = UNDEF \/ Rel.type \notin {"32", "PC32"}
    /\ pc' = "failed"
    /\ UNCHANGED <<file, i, j, image, strays, result>>

\* The entry point is read from the file after its buffer was freed.  It is still
\* there: free stores to headers of chunks only, and nobody else allocates.
Finish ==
    /\ pc = "finish" /\ pc' = "done"
    /\ result' = file.entry
    /\ UNCHANGED <<file, i, j, image, strays>>

Next == Check \/ Resume \/ Allocate \/ Copy \/ NextSection \/ SkipEntry \/ Relocate \/ Fails \/ Finish

Spec == Init /\ [][Next]_vars /\ WF_vars(Next)

-----------------------------------------------------------------------------
\* The state is well typed: memory holds words.
TypeOK ==
    /\ i \in DOMAIN Sections /\ j \in Nat \ {0}
    /\ pc \in {"check", "length", "copy", "relocate", "finish", "done", "failed", "halt"}
    /\ \A a \in DOMAIN image : image[a] \in 0 .. Word - 1
    /\ strays \subseteq Nat /\ result \in Nat \cup {UNSET}

\* Nothing is stored outside of the image.
InImage == strays = {}

\* The relocation of the word at offset k of section n, if there is one.
RelsAt(n, k) ==
    {r \in UNION {{[sec |-> m, k |-> e] : e \in DOMAIN RelEntries(m)} :
                    m \in {m \in DOMAIN Sections : Sections[m].type = "REL" /\ Sections[m].info = n}} :
        RelEntries(r.sec)[r.k].offset = k /\ RelEntries(r.sec)[r.k].type # "NONE"}

\* The word at offset k of section n as the linker meant it.
Meant(n, k) ==
    LET s     == Sections[n]
        word  == IF s.type = "PROGBITS" THEN s.words[k + 1] ELSE 0
        there(sym) == IF sym.shndx = ABS THEN sym.value
                      ELSE Base + Sections[sym.shndx].addr + sym.value
        rels  == RelsAt(n, k)
    IN  IF rels = {} THEN word
        ELSE LET r   == CHOOSE r \in rels : TRUE
                 rel == RelEntries(r.sec)[r.k]
                 to  == there(file.symbols[rel.sym])
             IN  (word + (IF rel.type = "PC32" THEN to - (Base + s.addr + k) ELSE to)) % Word

\* Every relocation has a type that is supported and a symbol that is defined.
CanLink ==
    \A n \in DOMAIN Sections : \A k \in DOMAIN RelEntries(n) :
        LET r == RelEntries(n)[k]
        IN  r.type = "NONE" \/ (r.type \in {"32", "PC32"} /\ file.symbols[r.sym].shndx # UNDEF)

\* A file for this machine that is handed over is linked: every word of every
\* section of the image is what the linker meant it to be at this address, whatever
\* order the sections and the relocations come in; no file is handed over half
\* linked.  A file for another machine is handed over too: README, "Known
\* violations".
Linked ==
    result # UNSET /\ file.supported =>
        /\ CanLink /\ result = file.entry
        /\ \A n \in {n \in DOMAIN Sections : Sections[n].alloc} :
              \A k \in 0 .. Sections[n].size - 1 : image[Sections[n].addr + k] = Meant(n, k)

\* elf_read comes to an end, and hands over every file that can be linked.
Ends == <>(pc = IF CanLink THEN "done" ELSE "failed")

=============================================================================

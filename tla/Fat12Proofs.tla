---------------------------- MODULE Fat12Proofs -----------------------------
(***************************************************************************)
(* Proofs about Fat12, for any volume, any sector and cluster sizes, any   *)
(* paths and any lengths of reads.                                         *)
(***************************************************************************)
EXTENDS Fat12, WellFoundedInduction, TLAPS

(***************************************************************************)
(* Numbers.                                                                *)
(***************************************************************************)

\* A set of naturals with 0 and the successor of each of its members has all.
LEMMA SetInduction ==
    ASSUME NEW S, 0 \in S, \A n \in S : n \in Nat => n + 1 \in S
    PROVE  Nat \subseteq S
  <1> DEFINE R == OpToRel(<, Nat)
             T == Nat \ S
  <1>1. IsWellFoundedOn(R, Nat)
    BY NatLessThanWellFounded
  <1>2. \A x, y \in Nat : y < x => <<y, x>> \in R
    BY DEF OpToRel
  <1> HIDE DEF R
  <1> SUFFICES ASSUME T # {} PROVE FALSE
    OBVIOUS
  <1>3. T \subseteq Nat
    OBVIOUS
  <1>4. PICK x \in T : \A y \in T : ~(<<y, x>> \in R)
    BY <1>1, <1>3, WFMin
  <1>5. x \in Nat /\ x # 0 /\ x - 1 \in Nat /\ x - 1 < x
    OBVIOUS
  <1>6. x - 1 \in S
    BY <1>2, <1>4, <1>5
  <1> QED
    BY <1>5, <1>6

LEMMA Division ==
    ASSUME NEW a \in Int, NEW b \in Nat, b > 0
    PROVE  a = b * (a \div b) + (a % b)
  OBVIOUS

\* A set of naturals that is not empty has a least element.
LEMMA LeastElement ==
    ASSUME NEW T, T \subseteq Nat, T # {}
    PROVE  Min(T) \in T /\ \A y \in T : Min(T) <= y
  <1> DEFINE R == OpToRel(<, Nat)
  <1>1. IsWellFoundedOn(R, Nat)
    BY NatLessThanWellFounded
  <1>2. \A x, y \in Nat : y < x => <<y, x>> \in R
    BY DEF OpToRel
  <1> HIDE DEF R
  <1>3. PICK x \in T : \A y \in T : ~(<<y, x>> \in R)
    BY <1>1, WFMin
  <1>4. ASSUME NEW y \in T PROVE x <= y
    <2>1. ~(<<y, x>> \in R) /\ x \in Nat /\ y \in Nat
      BY <1>3
    <2>2. ~(y < x)
      BY <2>1, <1>2
    <2> QED
      BY <2>1, <2>2
  <1> QED
    BY <1>4 DEF Min

\* The quotient and the remainder of a natural.
LEMMA DivMod ==
    ASSUME NEW a \in Nat, NEW b \in Nat \ {0}
    PROVE  /\ a \div b \in Nat /\ a % b \in 0 .. b - 1
           /\ a = (a \div b) * b + (a % b)
  <1>1. a = b * (a \div b) + (a % b)
    BY Division
  <1>2. a \div b \in Nat /\ a % b \in 0 .. b - 1
    OBVIOUS
  <1> DEFINE q == a \div b
  <1> HIDE DEF q
  <1>3. q \in Nat => b * q = q * b
    OBVIOUS
  <1>4. b * (a \div b) = (a \div b) * b
    BY <1>2, <1>3 DEF q
  <1> QED
    BY <1>1, <1>2, <1>4

\* They are the only ones.
LEMMA DivModUnique ==
    ASSUME NEW q \in Nat, NEW b \in Nat \ {0}, NEW r \in 0 .. b - 1
    PROVE  (q * b + r) \div b = q /\ (q * b + r) % b = r
  OBVIOUS

-----------------------------------------------------------------------------
(***************************************************************************)
(* Paths.                                                                  *)
(***************************************************************************)
Refs == DOMAIN Dir \cup {NONE}

\* Where one component leads from the directory at c.
StepTo(c, name) ==
    IF c = NONE THEN NONE
    ELSE IF Find(c, name, DIRECTORY) = 0 THEN NONE
    ELSE Dir[c][Find(c, name, DIRECTORY)].cluster

\* f follows the first n of the names.
Follows(f, names, n) ==
    f[0] = 0 /\ \A k \in 1 .. n : f[k] = StepTo(f[k - 1], names[k])

Leads(f, names, n) == f \in [0 .. n -> Refs] /\ Follows(f, names, n)

LEMMA ElementIn ==
    ASSUME NEW S, NEW s \in Seq(S), NEW k \in DOMAIN s
    PROVE  s[k] \in S
  OBVIOUS

LEMMA EntryFacts ==
    ASSUME NEW d \in DOMAIN Dir, NEW k \in DOMAIN Dir[d]
    PROVE  Dir[d][k] \in DirEntry /\ Dir[d][k].cluster \in Nat /\ Dir[d][k].size \in Nat
  <1>1. Dir[d] \in Seq(DirEntry)
    BY Fat12Assumption
  <1>2. Dir[d][k] \in DirEntry
    BY <1>1, ElementIn
  <1> QED
    BY <1>2 DEF DirEntry

\* The search finds an entry of that kind and name, if there is one.
LEMMA FindFacts ==
    ASSUME NEW d \in DOMAIN Dir, NEW name, NEW kind
    PROVE  /\ Find(d, name, kind) # 0 =>
                /\ Find(d, name, kind) \in DOMAIN Dir[d]
                /\ Dir[d][Find(d, name, kind)].attributes = kind
                /\ Dir[d][Find(d, name, kind)].name = name
           /\ name \notin TooLong /\ (\E k \in DOMAIN Dir[d] : /\ Dir[d][k].attributes = kind
                                                               /\ Dir[d][k].name = name)
                => Find(d, name, kind) # 0
  <1> DEFINE I == {k \in 1 .. Len(Dir[d]) : Dir[d][k].attributes = kind /\ Dir[d][k].name = name}
  <1>1. Dir[d] \in Seq(DirEntry)
    BY Fat12Assumption
  <1>2. DOMAIN Dir[d] = 1 .. Len(Dir[d]) /\ I \subseteq Nat /\ 0 \notin I
    BY <1>1
  <1>3. Find(d, name, kind) = IF name \in TooLong THEN 0 ELSE IF I # {} THEN Min(I) ELSE 0
    BY DEF Find, SelectInSeq
  <1>4. I # {} => Min(I) \in I
    BY <1>2, LeastElement
  <1> QED
    BY <1>2, <1>3, <1>4

\* A component leads to a directory or nowhere.
LEMMA StepToFacts ==
    ASSUME NEW c \in Refs, NEW name
    PROVE  StepTo(c, name) \in Refs
  <1> SUFFICES ASSUME c # NONE, Find(c, name, DIRECTORY) # 0
               PROVE  Dir[c][Find(c, name, DIRECTORY)].cluster \in Refs
    BY DEF StepTo, Refs
  <1>1. c \in DOMAIN Dir
    BY DEF Refs
  <1>2. /\ Find(c, name, DIRECTORY) \in DOMAIN Dir[c]
        /\ Dir[c][Find(c, name, DIRECTORY)].attributes = DIRECTORY
    BY <1>1, FindFacts
  <1> QED
    BY <1>1, <1>2, Fat12Assumption DEF Refs

\* There is one way along the names, and only one.
LEMMA LeadsExists ==
    ASSUME NEW names \in Seq(STRING)
    PROVE  \E f : Leads(f, names, Len(names))
  <1> DEFINE S == {n \in Nat : n <= Len(names) => \E f : Leads(f, names, n)}
  <1>1. 0 \in S
    <2> DEFINE g == [k \in 0 .. 0 |-> 0]
    <2>1. 0 \in Refs
      BY Fat12Assumption DEF Refs
    <2>2. Leads(g, names, 0)
      BY <2>1 DEF Leads, Follows
    <2> QED
      BY <2>2
  <1>2. ASSUME NEW n \in S, n \in Nat PROVE n + 1 \in S
    <2> SUFFICES ASSUME n + 1 <= Len(names) PROVE \E f : Leads(f, names, n + 1)
      OBVIOUS
    <2>1. Len(names) \in Nat
      OBVIOUS
    <2>2. PICK f : Leads(f, names, n)
      BY <1>2, <2>1
    <2> DEFINE x == StepTo(f[n], names[n + 1])
               g == [k \in 0 .. n + 1 |-> IF k = n + 1 THEN x ELSE f[k]]
    <2>3. f \in [0 .. n -> Refs] /\ f[n] \in Refs
      BY <1>2, <2>2 DEF Leads, Follows
    <2>4. x \in Refs
      BY <2>3, StepToFacts
    <2> HIDE DEF x
    <2>5. g \in [0 .. n + 1 -> Refs] /\ g[0] = 0 /\ g[n + 1] = x
      BY <1>2, <2>2, <2>3, <2>4 DEF Leads, Follows
    <2>6. \A k \in 0 .. n : g[k] = f[k]
      BY <1>2
    <2> HIDE DEF g
    <2>7. ASSUME NEW k \in 1 .. n + 1 PROVE g[k] = StepTo(g[k - 1], names[k])
      <3>1. CASE k = n + 1
        BY <1>2, <2>5, <2>6, <3>1 DEF x
      <3>2. CASE k # n + 1
        <4>1. k \in 1 .. n /\ k \in 0 .. n /\ k - 1 \in 0 .. n
          BY <1>2, <3>2
        <4> QED
          BY <2>2, <2>6, <4>1 DEF Leads, Follows
      <3> QED
        BY <3>1, <3>2
    <2>8. Leads(g, names, n + 1)
      BY <2>5, <2>7 DEF Leads, Follows
    <2> QED
      BY <2>8
  <1>3. Nat \subseteq S
    <2> HIDE DEF S
    <2> QED
      BY <1>1, <1>2, SetInduction
  <1>4. Len(names) \in S
    BY <1>3
  <1> QED
    BY <1>4

LEMMA FollowsUnique ==
    ASSUME NEW names, NEW more, NEW n \in Nat, NEW m \in Nat, n <= m,
           NEW f, NEW g, Follows(f, names, n), Follows(g, more, m),
           \A k \in 1 .. n : names[k] = more[k]
    PROVE  \A k \in 0 .. n : g[k] = f[k]
  <1> DEFINE S == {k \in Nat : k <= n => g[k] = f[k]}
  <1>1. 0 \in S
    BY DEF Leads, Follows
  <1>2. ASSUME NEW k \in S, k \in Nat PROVE k + 1 \in S
    <2> SUFFICES ASSUME k + 1 <= n PROVE g[k + 1] = f[k + 1]
      OBVIOUS
    <2>1. g[k] = f[k] /\ k + 1 \in 1 .. n /\ k + 1 \in 1 .. m /\ (k + 1) - 1 = k
      BY <1>2
    <2> QED
      BY <2>1 DEF Leads, Follows
  <1>3. Nat \subseteq S
    <2> HIDE DEF S
    <2> QED
      BY <1>1, <1>2, SetInduction
  <1> QED
    BY <1>3

\* fat12_opendir goes from each component to the next.
LEMMA OpendirUnfolds ==
    ASSUME NEW names \in Seq(STRING), NEW f, Leads(f, names, Len(names))
    PROVE  fat12_opendir(names) = f[Len(names)]
  <1> DEFINE n    == Len(names)
             D(d) == [k \in 0 .. n |->
                        IF k = 0 THEN 0
                        ELSE IF d[k - 1] = NONE THEN NONE
                        ELSE LET e == Find(d[k - 1], names[k], DIRECTORY)
                             IN  IF e = 0 THEN NONE ELSE Dir[d[k - 1]][e].cluster]
             c    == CHOOSE d : d = D(d)
  <1>1. fat12_opendir(names) = c[n]
    BY DEF fat12_opendir
  <1>2. n \in Nat
    OBVIOUS
  <1>3. \A k \in 1 .. n : f[k] = StepTo(f[k - 1], names[k])
    BY DEF Leads, Follows
  <1>4. f = D(f)
    <2>1. f = [k \in 0 .. n |-> IF k = 0 THEN 0 ELSE StepTo(f[k - 1], names[k])]
      BY <1>2, <1>3 DEF Leads, Follows
    <2> QED
      BY <2>1 DEF StepTo
  <1>5. c = D(c)
    BY <1>4
  <1>6. c[0] = 0 /\ \A k \in 1 .. n : c[k] = StepTo(c[k - 1], names[k])
    <2> HIDE DEF c
    <2>1. \A k \in 0 .. n : c[k] = D(c)[k]
      BY <1>5, Zenon
    <2>2. \A k \in 0 .. n : c[k] = IF k = 0 THEN 0 ELSE StepTo(c[k - 1], names[k])
      BY <2>1 DEF StepTo
    <2> QED
      BY <1>2, <2>2
  <1> HIDE DEF c, D
  <1>7. \A k \in 0 .. n : c[k] = f[k]
    <2>1. n <= n /\ Follows(f, names, n) /\ Follows(c, names, n)
      BY <1>2, <1>6 DEF Leads, Follows
    <2> HIDE DEF n
    <2> QED
      BY <1>2, <2>1, FollowsUnique
  <1> QED
    BY <1>1, <1>2, <1>7

\* A longer sequence.
LEMMA AppendFacts ==
    ASSUME NEW S, NEW s \in Seq(S), NEW x \in S
    PROVE  /\ Append(s, x) \in Seq(S) /\ Append(s, x) # <<>> /\ Len(s) \in Nat
           /\ Len(Append(s, x)) = Len(s) + 1 /\ Append(s, x)[Len(s) + 1] = x
           /\ \A k \in 1 .. Len(s) : s[k] = Append(s, x)[k]
  OBVIOUS

\* fat12_opendir, component by component.
LEMMA OpendirFacts ==
    ASSUME NEW names \in Seq(STRING)
    PROVE  fat12_opendir(names) \in Refs
  <1>1. PICK f : Leads(f, names, Len(names))
    BY LeadsExists
  <1>2. fat12_opendir(names) = f[Len(names)]
    BY <1>1, OpendirUnfolds
  <1> QED
    BY <1>1, <1>2 DEF Leads

LEMMA OpendirAppend ==
    ASSUME NEW names \in Seq(STRING), NEW name \in STRING
    PROVE  fat12_opendir(Append(names, name)) = StepTo(fat12_opendir(names), name)
  <1> DEFINE more == Append(names, name)
             n    == Len(names)
  <1>1. /\ more \in Seq(STRING) /\ Len(more) = n + 1 /\ n \in Nat
        /\ more[n + 1] = name /\ \A k \in 1 .. n : names[k] = more[k]
    <2>1. /\ Append(names, name) \in Seq(STRING) /\ Len(names) \in Nat
          /\ Len(Append(names, name)) = Len(names) + 1
      BY AppendFacts
    <2>2. Append(names, name)[Len(names) + 1] = name
      BY AppendFacts
    <2>3. \A k \in 1 .. Len(names) : names[k] = Append(names, name)[k]
      BY AppendFacts
    <2> QED
      BY <2>1, <2>2, <2>3
  <1> HIDE DEF more
  <1>2. PICK f : Leads(f, names, n)
    BY LeadsExists
  <1>3. PICK g : Leads(g, more, n + 1)
    BY <1>1, LeadsExists
  <1>4. fat12_opendir(names) = f[n] /\ fat12_opendir(more) = g[n + 1]
    BY <1>1, <1>2, <1>3, OpendirUnfolds
  <1>5. n + 1 \in Nat /\ n <= n + 1 /\ Follows(f, names, n) /\ Follows(g, more, n + 1)
    BY <1>1, <1>2, <1>3 DEF Leads
  <1> HIDE DEF n
  <1>6. \A k \in 0 .. n : g[k] = f[k]
    BY <1>1, <1>5, FollowsUnique
  <1>7. g[n + 1] = StepTo(g[n], name)
    <2>1. n + 1 \in 1 .. n + 1 /\ (n + 1) - 1 = n
      BY <1>1
    <2> QED
      BY <1>1, <1>5, <2>1 DEF Follows
  <1> QED
    <2>1. g[n] = f[n]
      BY <1>1, <1>6
    <2> QED
      BY <1>4, <1>7, <2>1 DEF more

\* The path of a file is that of its directory and its name.
LEMMA FrontLast ==
    ASSUME NEW names \in Seq(STRING), names # <<>>
    PROVE  Front(names) \in Seq(STRING) /\ Last(names) \in STRING
  <1>1. Len(names) \in Nat \ {0}
    OBVIOUS
  <1> QED
    BY <1>1 DEF Front, Last

LEMMA FrontAppend ==
    ASSUME NEW names \in Seq(STRING), NEW name \in STRING
    PROVE  /\ Append(names, name) \in Seq(STRING) /\ Append(names, name) # <<>>
           /\ Front(Append(names, name)) = names /\ Last(Append(names, name)) = name
  <1> DEFINE more == Append(names, name)
             n    == Len(names)
  <1>1. /\ more \in Seq(STRING) /\ Len(more) = n + 1 /\ n \in Nat
        /\ more[n + 1] = name /\ \A k \in 1 .. n : names[k] = more[k]
    <2>1. /\ Append(names, name) \in Seq(STRING) /\ Len(names) \in Nat
          /\ Len(Append(names, name)) = Len(names) + 1
      BY AppendFacts
    <2>2. Append(names, name)[Len(names) + 1] = name
      BY AppendFacts
    <2>3. \A k \in 1 .. Len(names) : names[k] = Append(names, name)[k]
      BY AppendFacts
    <2> QED
      BY <2>1, <2>2, <2>3
  <1>0. more # <<>>
    BY AppendFacts
  <1> HIDE DEF more
  <1>2. Last(more) = name
    BY <1>1 DEF Last
  <1>3. /\ SubSeq(more, 1, n) \in Seq(STRING) /\ Len(SubSeq(more, 1, n)) = n
        /\ \A k \in 1 .. n : SubSeq(more, 1, n)[k] = more[k]
    BY <1>1
  <1>4. SubSeq(more, 1, n) = names
    BY <1>1, <1>3
  <1>5. Front(more) = names
    BY <1>1, <1>4 DEF Front
  <1> QED
    BY <1>0, <1>1, <1>2, <1>5 DEF more

\* What fs_open returns for an entry of a directory.
Opened(d, k, mnt) ==
    [ref |-> Dir[d][k].cluster, len |-> Dir[d][k].size, offset |-> 0, driver |-> mnt]

\* fs_open finds a file of a mounted volume, or nothing.
LEMMA OpenFacts ==
    ASSUME NEW path, path.names \in Seq(STRING)
    PROVE  \/ fs_open(path) = NoFile
           \/ /\ path.mnt \in ToSet(drivers)
              /\ \E d \in DOMAIN Dir : \E k \in DOMAIN Dir[d] :
                    /\ Dir[d][k].attributes = ARCHIVE
                    /\ fs_open(path) = Opened(d, k, path.mnt)
  <1> DEFINE names == path.names
             d == fat12_opendir(Front(names))
             e == Find(d, Last(names), ARCHIVE)
  <1> SUFFICES ASSUME Mounted(path), fat12_open(names) # NoFile
               PROVE  \E k \in DOMAIN Dir[d] : /\ d \in DOMAIN Dir
                                               /\ Dir[d][k].attributes = ARCHIVE
                                               /\ fs_open(path) = Opened(d, k, path.mnt)
    BY DEF fs_open, Mounted
  <1>1. names # <<>> /\ d # NONE /\ e # 0
    BY DEF fat12_open
  <1>2. d \in DOMAIN Dir
    BY <1>1, FrontLast, OpendirFacts DEF Refs
  <1>3. e \in DOMAIN Dir[d] /\ Dir[d][e].attributes = ARCHIVE
    BY <1>1, <1>2, FindFacts
  <1>4. fat12_open(names) = [NoFile EXCEPT !.ref = Dir[d][e].cluster, !.len = Dir[d][e].size]
    BY <1>1 DEF fat12_open
  <1>5. fs_open(path) = Opened(d, e, path.mnt)
    BY <1>4 DEF fs_open, Opened, NoFile
  <1> QED
    BY <1>2, <1>3, <1>5

\* fs_opendir finds the directory that the path leads to, or nothing.
LEMMA OpendirFinds ==
    ASSUME NEW path, path.names \in Seq(STRING)
    PROVE  \/ fs_opendir(path) = NoDir
           \/ /\ path.mnt \in ToSet(drivers)
              /\ fat12_opendir(path.names) \in DOMAIN Dir
              /\ fs_opendir(path) = [ref |-> fat12_opendir(path.names), driver |-> path.mnt,
                                     path |-> path.names]
  BY OpendirFacts DEF fs_opendir, Mounted, Refs

-----------------------------------------------------------------------------
(***************************************************************************)
(* Listings.                                                               *)
(***************************************************************************)

\* l is a list of entries that may be shown, each with its name and kind.
ListOf(l, entries) ==
    /\ l \in Seq([name : STRING, type : {DIRECTORY, ARCHIVE}])
    /\ \A k \in DOMAIN l : \E i \in DOMAIN entries :
            entries[i].name = l[k].name /\ entries[i].attributes = l[k].type

\* One more entry leaves it one.
LEMMA ListOfAppend ==
    ASSUME NEW entries, NEW l, ListOf(l, entries), NEW i \in DOMAIN entries,
           entries[i] \in DirEntry, Shown(entries[i])
    PROVE  ListOf(Append(l, [name |-> entries[i].name, type |-> entries[i].attributes]), entries)
  <1> DEFINE S == [name : STRING, type : {DIRECTORY, ARCHIVE}]
             x == [name |-> entries[i].name, type |-> entries[i].attributes]
  <1>1. l \in Seq(S) /\ x \in S /\ x.name = entries[i].name /\ x.type = entries[i].attributes
    BY DEF ListOf, Shown, DirEntry
  <1>2. \A k \in DOMAIN l : \E j \in DOMAIN entries :
            entries[j].name = l[k].name /\ entries[j].attributes = l[k].type
    BY DEF ListOf
  <1> HIDE DEF S, x
  <1>3. /\ Append(l, x) \in Seq(S) /\ DOMAIN Append(l, x) = 1 .. Len(l) + 1
        /\ DOMAIN l = 1 .. Len(l) /\ Len(l) \in Nat
        /\ Append(l, x)[Len(l) + 1] = x /\ \A k \in 1 .. Len(l) : Append(l, x)[k] = l[k]
    BY <1>1
  <1>4. \A k \in DOMAIN Append(l, x) : \E j \in DOMAIN entries :
            entries[j].name = Append(l, x)[k].name /\ entries[j].attributes = Append(l, x)[k].type
    BY <1>1, <1>2, <1>3
  <1> QED
    BY <1>3, <1>4 DEF ListOf, S, x

\* The list after one more entry.
Listing(l, entries, k) ==
    IF Shown(entries[k])
        THEN Append(l, [name |-> entries[k].name, type |-> entries[k].attributes]) ELSE l

Lists(f, entries, n) ==
    f[0] = <<>> /\ \A k \in 1 .. n : f[k] = Listing(f[k - 1], entries, k)

LEMMA ListsExists ==
    ASSUME NEW entries, NEW N \in Nat
    PROVE  \E f : Lists(f, entries, N) /\ f = [k \in 0 .. N |-> f[k]]
  <1> DEFINE S == {n \in Nat : \E f : Lists(f, entries, n) /\ f = [k \in 0 .. n |-> f[k]]}
  <1>1. 0 \in S
    <2> DEFINE g == [k \in 0 .. 0 |-> <<>>]
    <2>1. Lists(g, entries, 0) /\ g = [k \in 0 .. 0 |-> g[k]]
      BY DEF Lists
    <2> QED
      BY <2>1
  <1>2. ASSUME NEW n \in S, n \in Nat PROVE n + 1 \in S
    <2>1. PICK f : Lists(f, entries, n)
      BY <1>2
    <2> DEFINE x == Listing(f[n], entries, n + 1)
               g == [k \in 0 .. n + 1 |-> IF k = n + 1 THEN x ELSE f[k]]
    <2> HIDE DEF x
    <2>2. g = [k \in 0 .. n + 1 |-> g[k]]
      BY <1>2
    <2>3. g[n + 1] = x /\ \A k \in 0 .. n : g[k] = f[k]
      BY <1>2
    <2> HIDE DEF g
    <2>4. g[0] = <<>>
      BY <1>2, <2>1, <2>3 DEF Lists
    <2>5. ASSUME NEW k \in 1 .. n + 1 PROVE g[k] = Listing(g[k - 1], entries, k)
      <3>1. CASE k = n + 1
        <4>1. k - 1 = n /\ n \in 0 .. n
          BY <1>2, <3>1
        <4> QED
          BY <2>3, <3>1, <4>1 DEF x
      <3>2. CASE k # n + 1
        <4>1. k \in 1 .. n /\ k \in 0 .. n /\ k - 1 \in 0 .. n
          BY <1>2, <3>2
        <4> QED
          BY <2>1, <2>3, <4>1 DEF Lists
      <3> QED
        BY <3>1, <3>2
    <2>6. Lists(g, entries, n + 1)
      BY <2>4, <2>5 DEF Lists
    <2> QED
      BY <1>2, <2>2, <2>6
  <1>3. Nat \subseteq S
    <2> HIDE DEF S
    <2> QED
      BY <1>1, <1>2, SetInduction
  <1> QED
    BY <1>3

LEMMA ListsFacts ==
    ASSUME NEW entries \in Seq(DirEntry), NEW f, Lists(f, entries, Len(entries))
    PROVE  ListOf(f[Len(entries)], entries)
  <1> DEFINE N == Len(entries)
             S == {k \in Nat : k <= N => ListOf(f[k], entries)}
  <1>0. N \in Nat /\ DOMAIN entries = 1 .. N /\ \A k \in 1 .. N : entries[k] \in DirEntry
    OBVIOUS
  <1> HIDE DEF N
  <1>1. 0 \in S
    <2>1. ListOf(<<>>, entries)
      BY DEF ListOf
    <2> QED
      BY <2>1 DEF Lists
  <1>2. ASSUME NEW k \in S, k \in Nat PROVE k + 1 \in S
    <2> SUFFICES ASSUME k + 1 <= N PROVE ListOf(f[k + 1], entries)
      OBVIOUS
    <2>1. k + 1 \in 1 .. N /\ (k + 1) - 1 = k /\ k <= N
      BY <1>0, <1>2
    <2>2. ListOf(f[k], entries)
      BY <1>2, <2>1
    <2>3. f[k + 1] = Listing(f[k], entries, k + 1)
      BY <2>1 DEF Lists, N
    <2>4. entries[k + 1] \in DirEntry /\ k + 1 \in DOMAIN entries
      BY <1>0, <2>1
    <2>5. CASE Shown(entries[k + 1])
      BY <2>2, <2>3, <2>4, <2>5, ListOfAppend DEF Listing
    <2>6. CASE ~Shown(entries[k + 1])
      BY <2>2, <2>3, <2>6 DEF Listing
    <2> QED
      BY <2>5, <2>6
  <1>3. Nat \subseteq S
    <2> HIDE DEF S
    <2> QED
      BY <1>1, <1>2, SetInduction
  <1> QED
    BY <1>0, <1>3 DEF N

\* What is listed are entries of the directory.
LEMMA ListedEntries ==
    ASSUME NEW entries \in Seq(DirEntry)
    PROVE  ListOf(Listed(entries), entries)
  <1> DEFINE n    == Len(entries)
             D(l) == [k \in 0 .. n |->
                        IF k = 0 THEN <<>>
                        ELSE IF Shown(entries[k])
                            THEN Append(l[k - 1], [name |-> entries[k].name,
                                                   type |-> entries[k].attributes])
                            ELSE l[k - 1]]
             c    == CHOOSE l : l = D(l)
  <1>1. Listed(entries) = c[n]
    BY DEF Listed
  <1>2. n \in Nat
    OBVIOUS
  <1>3. PICK f : Lists(f, entries, n) /\ f = [k \in 0 .. n |-> f[k]]
    BY <1>2, ListsExists
  <1>4. f = D(f)
    <2>1. \A k \in 0 .. n : k # 0 => k \in 1 .. n
      BY <1>2
    <2>2. f = [k \in 0 .. n |-> IF k = 0 THEN <<>> ELSE Listing(f[k - 1], entries, k)]
      BY <1>3, <2>1 DEF Lists
    <2> QED
      BY <2>2 DEF Listing
  <1>5. c = D(c)
    BY <1>4
  <1>6. Lists(c, entries, n)
    <2> HIDE DEF c
    <2>1. \A k \in 0 .. n : c[k] = D(c)[k]
      BY <1>5, Zenon
    <2>2. \A k \in 0 .. n : c[k] = IF k = 0 THEN <<>> ELSE Listing(c[k - 1], entries, k)
      BY <2>1 DEF Listing
    <2> QED
      BY <1>2, <2>2 DEF Lists
  <1> HIDE DEF c, D
  <1> QED
    BY <1>1, <1>6, ListsFacts

\* A caller that has cleared *len gets no more than that.
LEMMA ReaddirFacts ==
    ASSUME NEW entries \in Seq(DirEntry)
    PROVE  ListOf(fat12_readdir(entries, 0), entries)
  <1> DEFINE l == Listed(entries)
             u == [i \in 1 .. 0 |-> Unwritten]
  <1>1. ListOf(l, entries)
    BY ListedEntries
  <1>2. l \in Seq([name : STRING, type : {DIRECTORY, ARCHIVE}])
    BY <1>1 DEF ListOf
  <1>3. u = <<>>
    OBVIOUS
  <1> HIDE DEF l, u
  <1>4. u \o l = l
    BY <1>2, <1>3
  <1> QED
    BY <1>1, <1>4 DEF fat12_readdir, l, u

-----------------------------------------------------------------------------
(***************************************************************************)
(* The bytes of the FAT.                                                   *)
(***************************************************************************)
LEMMA FatFacts == \A x \in DOMAIN Fat : x \in Nat /\ Fat[x] \in 0 .. 4095
  BY Fat12Assumption

LEMMA HalfByteFacts ==
    ASSUME NEW n \in Nat
    PROVE  HalfByte(n) \in 0 .. 15
  <1> DEFINE c == n \div 3
             w == <<1, 16, 256>>[1 + (n % 3)]
  <1>1. w \in {1, 16, 256}
    <2>1. n % 3 \in 0 .. 2
      OBVIOUS
    <2> QED
      BY <2>1
  <1> HIDE DEF c, w
  <1>2. \A x \in DOMAIN Fat : Fat[x] \in 0 .. 4095
    BY FatFacts
  <1>3. ASSUME c \in DOMAIN Fat PROVE (Fat[c] \div w) % 16 \in 0 .. 15
    <2> DEFINE v == Fat[c]
    <2>1. v \in 0 .. 4095
      BY <1>2, <1>3
    <2> HIDE DEF v
    <2>2. v \div w \in Nat
      BY <1>1, <2>1
    <2>3. (v \div w) % 16 \in 0 .. 15
      BY <2>2
    <2> QED
      BY <2>3 DEF v
  <1> QED
    BY <1>3 DEF HalfByte, c, w

LEMMA ReadFatFacts ==
    ASSUME NEW c \in Nat, NEW junk \in Junk
    PROVE  fat12_read_fat(c, junk) \in Nat
  <1> DEFINE k    == c + c \div 2
             high == IF (k % BytesPerSector) + 1 < BytesPerSector THEN FatByte(k + 1) ELSE junk
  <1>1. k \in Nat
    OBVIOUS
  <1> HIDE DEF k
  <1>2. FatByte(k) \in Nat /\ FatByte(k + 1) \in Nat
    <2>1. {2 * k, 2 * k + 1, 2 * (k + 1), 2 * (k + 1) + 1} \subseteq Nat
      BY <1>1
    <2> QED
      BY <2>1, HalfByteFacts DEF FatByte
  <1>3. high \in Nat
    BY <1>2, Fat12Assumption
  <1> HIDE DEF high
  <1>4. FatByte(k) + 256 * high \in Nat
    BY <1>2, <1>3
  <1> QED
    BY <1>4 DEF fat12_read_fat, k, high

-----------------------------------------------------------------------------
(***************************************************************************)
(* The inductive invariant.                                                *)
(***************************************************************************)

\* The offset in the file at which the read that is under way ends.
Stop == rd.end * ClusterSize + rd.offset_end

RdType ==
    \/ rd = Idle
    \/ rd \in [start : Nat, old : Seq(Int), old_asked : Nat, i : Nat, cluster : Nat, begin : Nat,
               offset_begin : 0 .. ClusterSize - 1, end : Nat, offset_end : 0 .. ClusterSize - 1,
               src_offset : Nat, src_len : Nat]

\* A file is an entry of a directory.
FileFrom ==
    \/ file = NoFile
    \/ /\ file \in [ref : Nat, len : Nat, offset : Nat, driver : Mounts]
       /\ \E d \in DOMAIN Dir : \E k \in DOMAIN Dir[d] :
            /\ Dir[d][k].attributes = ARCHIVE
            /\ file.ref = Dir[d][k].cluster /\ file.len = Dir[d][k].size

\* A directory is the one its path leads to, and what is listed is in it.
DirFrom ==
    \/ dir = NoDir /\ dirents = <<>>
    \/ /\ dir = [ref |-> fat12_opendir(dir.path), driver |-> dir.driver, path |-> dir.path]
       /\ dir.path \in Seq(STRING)
       /\ dir.ref \in DOMAIN Dir
       /\ dir.driver \in ToSet(drivers)
       /\ LenCleared => ListOf(dirents, Dir[dir.ref])

\* How far a read has come: it lies in the file and in what was asked for, its
\* clusters before the first one it copies gave nothing, and each since then no
\* more than lies before its end.
Reading ==
    rd # Idle =>
        /\ file # NoFile
        /\ rd.begin <= rd.end /\ rd.i <= rd.end
        /\ rd.start = rd.begin * ClusterSize + rd.offset_begin
        /\ rd.start < Stop /\ Stop <= file.len /\ Stop <= rd.start + asked
        /\ file.offset = rd.start + Len(dest)
        /\ rd.i <= rd.begin => dest = <<>>
        /\ rd.i > rd.begin => /\ rd.start + Len(dest) <= rd.i * ClusterSize
                              /\ rd.src_offset + rd.src_len <= ClusterSize

Types ==
    /\ drivers \in Seq(Mounts) /\ Len(drivers) <= DRIVERS_LENGTH
    /\ asked \in Nat /\ dest \in Seq(Int)

IInv == Types /\ RdType /\ FileFrom /\ DirFrom /\ OffsetInFile /\ Reading

LEMMA Sizes ==
    /\ ClusterSize \in Nat \ {0} /\ Word \in Nat \ {0} /\ Lens \subseteq Nat /\ Seeks \subseteq Nat
    /\ DRIVERS_LENGTH \in Nat
  <1>1. BytesPerSector \in Nat \ {0} /\ SectorsPerCluster \in Nat \ {0}
    BY Fat12Assumption
  <1>2. BytesPerSector * SectorsPerCluster \in Nat \ {0}
    BY <1>1
  <1> QED
    BY <1>2, Fat12Assumption DEF ClusterSize

LEMMA InvTypes ==
    ASSUME Types, RdType, FileFrom, DirFrom
    PROVE  TypeOK
  <1>1. file \in [ref : Nat \cup {NONE}, len : Nat, offset : Nat,
                  driver : Mounts \cup {DRIVER_MOUNT_UNASSIGNED}]
    BY DEF FileFrom, NoFile
  <1>2. dir.ref \in DOMAIN Dir \cup {NONE} /\ dir.driver \in Mounts \cup {DRIVER_MOUNT_UNASSIGNED}
    <2>1. CASE dir = NoDir
      BY <2>1 DEF NoDir
    <2>2. CASE dir.ref \in DOMAIN Dir /\ dir.driver \in ToSet(drivers)
      BY <2>2 DEF Types, ToSet
    <2> QED
      BY <2>1, <2>2 DEF DirFrom
  <1>3. DOMAIN rd = DOMAIN Idle /\ rd.src_offset \in Nat /\ rd.src_len \in Nat
    BY DEF RdType, Idle
  <1> QED
    BY <1>1, <1>2, <1>3 DEF TypeOK, Types

\* What is listed opens.
LEMMA ListedFacts ==
    ASSUME LenCleared, NamesFit, Types, DirFrom
    PROVE  ListedOpens
  <1> SUFFICES ASSUME NEW k \in DOMAIN dirents
               PROVE  LET e    == dirents[k]
                          path == [mnt |-> dir.driver, names |-> Append(dir.path, e.name)]
                          ref  == IF e.type = ARCHIVE THEN fs_open(path).ref ELSE fs_opendir(path).ref
                      IN  \E i \in DOMAIN Dir[dir.ref] :
                            /\ Dir[dir.ref][i].name = e.name /\ Dir[dir.ref][i].attributes = e.type
                            /\ Dir[dir.ref][i].cluster = ref
    BY DEF ListedOpens
  <1> DEFINE e    == dirents[k]
             d    == dir.ref
             path == [mnt |-> dir.driver, names |-> Append(dir.path, e.name)]
  <1>1. /\ d = fat12_opendir(dir.path) /\ d \in DOMAIN Dir /\ dir.path \in Seq(STRING)
        /\ dir.driver \in ToSet(drivers) /\ ListOf(dirents, Dir[d])
    BY DEF DirFrom
  <1>2. /\ e \in [name : STRING, type : {DIRECTORY, ARCHIVE}]
        /\ \E i \in DOMAIN Dir[d] : Dir[d][i].name = e.name /\ Dir[d][i].attributes = e.type
    <2>1. dirents \in Seq([name : STRING, type : {DIRECTORY, ARCHIVE}])
      BY <1>1 DEF ListOf
    <2>2. e \in [name : STRING, type : {DIRECTORY, ARCHIVE}]
      BY <2>1, ElementIn
    <2>3. \E i \in DOMAIN Dir[d] : Dir[d][i].name = e.name /\ Dir[d][i].attributes = e.type
      BY <1>1 DEF ListOf
    <2> QED
      BY <2>2, <2>3
  <1>3. e.name \in STRING /\ e.type \in {DIRECTORY, ARCHIVE} /\ e.name \notin TooLong
    BY <1>1, <1>2 DEF NamesFit
  <1>4. /\ Find(d, e.name, e.type) # 0
        /\ Find(d, e.name, e.type) \in DOMAIN Dir[d]
        /\ Dir[d][Find(d, e.name, e.type)].attributes = e.type
        /\ Dir[d][Find(d, e.name, e.type)].name = e.name
    BY <1>1, <1>2, <1>3, FindFacts
  <1>5. Dir[d][Find(d, e.name, e.type)].cluster \in Nat
    BY <1>1, <1>4, EntryFacts
  <1>6. Mounted(path) /\ path.mnt = dir.driver /\ path.names = Append(dir.path, e.name)
    BY <1>1 DEF Mounted
  <1>7. NONE \notin Nat /\ d # NONE
    BY <1>1, Fat12Assumption DEF NONE
  <1> HIDE DEF e, d, path
  <1>8. CASE e.type = ARCHIVE
    <2>1. Append(dir.path, e.name) # <<>> /\ Front(Append(dir.path, e.name)) = dir.path
            /\ Last(Append(dir.path, e.name)) = e.name
      BY <1>1, <1>3, FrontAppend
    <2>2. fat12_open(path.names) = [NoFile EXCEPT !.ref = Dir[d][Find(d, e.name, ARCHIVE)].cluster,
                                                  !.len = Dir[d][Find(d, e.name, ARCHIVE)].size]
      BY <1>1, <1>4, <1>6, <1>7, <1>8, <2>1 DEF fat12_open
    <2>3. fat12_open(path.names) # NoFile
      <3>1. fat12_open(path.names).ref \in Nat /\ NoFile.ref = NONE
        BY <1>5, <1>8, <2>2 DEF NoFile
      <3> QED
        BY <1>7, <3>1
    <2>4. fs_open(path).ref = Dir[d][Find(d, e.name, ARCHIVE)].cluster
      BY <1>6, <2>2, <2>3 DEF fs_open, NoFile
    <2> QED
      BY <1>4, <1>8, <2>4 DEF e, d, path
  <1>9. CASE e.type # ARCHIVE
    <2>1. e.type = DIRECTORY
      BY <1>3, <1>9
    <2>2. fat12_opendir(path.names) = Dir[d][Find(d, e.name, DIRECTORY)].cluster
      BY <1>1, <1>3, <1>4, <1>6, <1>7, <2>1, OpendirAppend DEF StepTo
    <2>3. fs_opendir(path).ref = Dir[d][Find(d, e.name, DIRECTORY)].cluster
      BY <1>5, <1>6, <1>7, <2>1, <2>2 DEF fs_opendir
    <2> QED
      BY <1>4, <1>9, <2>1, <2>3 DEF e, d, path
  <1> QED
    BY <1>8, <1>9

-----------------------------------------------------------------------------
(***************************************************************************)
(* A read.                                                                 *)
(***************************************************************************)
LEMMA Product ==
    ASSUME NEW a \in Nat, NEW b \in Nat, NEW c \in Nat
    PROVE  /\ a * c \in Nat /\ (a + 1) * c = a * c + c
           /\ a <= b => a * c <= b * c
           /\ a < b => a * c + c <= b * c
  OBVIOUS

LEMMA AtLeast ==
    ASSUME NEW a \in Nat, NEW c \in Nat \ {0}
    PROVE  a <= a * c
  OBVIOUS

\* The fields of a read that is under way.
LEMMA RdFields ==
    ASSUME RdType, rd # Idle
    PROVE  /\ {rd.start, rd.old_asked, rd.i, rd.cluster, rd.begin, rd.end, rd.src_offset,
               rd.src_len} \subseteq Nat
           /\ rd.old \in Seq(Int)
           /\ rd.offset_begin \in 0 .. ClusterSize - 1 /\ rd.offset_end \in 0 .. ClusterSize - 1
  BY DEF RdType

\* An open file, and the numbers it is about.
LEMMA FileFacts ==
    ASSUME NoWrap, FileFrom, file # NoFile
    PROVE  /\ file \in [ref : Nat, len : Nat, offset : Nat, driver : Mounts]
           /\ file.len < Word /\ \A n \in Lens \cup Seeks : file.len + n < Word
  BY DEF FileFrom, NoWrap

LEMMA SumFacts ==
    ASSUME NEW a \in Nat, NEW b \in Nat, a + b < Word
    PROVE  Sum(a, b) = a + b
  BY Sizes DEF Sum

LEMMA StopFacts ==
    ASSUME RdType, rd # Idle
    PROVE  Stop \in Nat
  <1>1. rd.end \in Nat /\ rd.offset_end \in Nat /\ ClusterSize \in Nat
    BY RdFields, Sizes
  <1>2. rd.end * ClusterSize \in Nat
    BY <1>1, Product
  <1> QED
    BY <1>1, <1>2 DEF Stop

\* A turn of the loop that copies takes a slice of the cluster, and no more
\* than lies before the end of the read and of the cluster.
SliceFits ==
    /\ Slice[1] \in Nat /\ Slice[2] \in Nat /\ Slice[1] + Slice[2] <= ClusterSize
    /\ rd.start + Len(dest) + Slice[2] <= Stop
    /\ rd.i # rd.end => rd.start + Len(dest) + Slice[2] <= (rd.i + 1) * ClusterSize

LEMMA SliceFacts ==
    ASSUME NoWrap, IInv, rd # Idle, rd.i >= rd.begin
    PROVE  SliceFits
  <1> DEFINE C  == ClusterSize
             ob == rd.offset_begin
             oe == rd.offset_end
             n  == Len(dest)
  <1>1. C \in Nat \ {0} /\ n \in Nat /\ ob \in 0 .. C - 1 /\ oe \in 0 .. C - 1
        /\ {rd.start, rd.i, rd.begin, rd.end, rd.src_offset, rd.src_len} \subseteq Nat
    BY Sizes, RdFields DEF IInv, Types
  <1>2. /\ rd.i <= rd.end /\ rd.start = rd.begin * C + ob
        /\ rd.start < rd.end * C + oe /\ rd.end * C + oe <= file.len
        /\ rd.i <= rd.begin => n = 0
        /\ rd.i > rd.begin => rd.start + n <= rd.i * C /\ rd.src_offset + rd.src_len <= C
    BY DEF IInv, Reading, Stop
  <1>3. file.len \in Nat /\ file.len < Word /\ Word \in Nat
    BY FileFacts, Sizes DEF IInv, Reading
  <1>4. /\ rd.i * C \in Nat /\ (rd.i + 1) * C = rd.i * C + C
        /\ rd.i # rd.end => rd.i * C + C <= rd.end * C
        /\ rd.end * C \in Nat /\ rd.begin * C \in Nat
    <2>1. rd.i \in Nat /\ rd.end \in Nat /\ rd.begin \in Nat /\ C \in Nat /\ rd.i <= rd.end
      BY <1>1, <1>2
    <2> HIDE DEF C
    <2>2. rd.i # rd.end => rd.i < rd.end
      BY <2>1
    <2> QED
      BY <2>1, <2>2, Product
  <1> HIDE DEF C, ob, oe, n
  <1>5. SUFFICES /\ Slice[1] \in Nat /\ Slice[2] \in Nat /\ Slice[1] + Slice[2] <= C
                 /\ rd.start + n + Slice[2] <= rd.end * C + oe
                 /\ rd.i # rd.end => rd.start + n + Slice[2] <= rd.i * C + C
    BY <1>4 DEF SliceFits, Stop, C, n, oe
  <1>6. CASE rd.i = rd.begin /\ rd.i = rd.end
    <2>1. ob < oe /\ oe - ob < Word /\ oe - ob \in Nat
      BY <1>1, <1>2, <1>3, <1>4, <1>6
    <2>2. (oe - ob) % Word = oe - ob
      BY <1>3, <2>1
    <2>3. Slice[1] = ob /\ Slice[2] = oe - ob
      BY <1>6, <2>2 DEF Slice, ob, oe
    <2> QED
      BY <1>1, <1>2, <1>4, <1>6, <2>1, <2>3
  <1>7. CASE rd.i = rd.begin /\ rd.i # rd.end
    <2>1. Slice[1] = ob /\ Slice[2] = C - ob
      BY <1>7 DEF Slice, ob, C
    <2> QED
      BY <1>1, <1>2, <1>4, <1>7, <2>1
  <1>8. CASE rd.i # rd.begin /\ rd.i = rd.end
    <2>1. Slice[1] = 0 /\ Slice[2] = oe
      BY <1>8 DEF Slice, oe
    <2> QED
      BY <1>1, <1>2, <1>4, <1>8, <2>1
  <1>9. CASE rd.i # rd.begin /\ rd.i # rd.end
    <2>1. Slice[1] = rd.src_offset /\ Slice[2] = rd.src_len
      BY <1>9 DEF Slice
    <2>2. rd.i > rd.begin /\ rd.src_offset \in Nat /\ rd.src_len \in Nat
      BY <1>1, <1>9
    <2>3. rd.start + n <= rd.i * C /\ rd.src_offset + rd.src_len <= C
      BY <1>2, <2>2
    <2>4. rd.start + n + rd.src_len <= rd.i * C + C /\ rd.i * C + C <= rd.end * C + oe
      BY <1>1, <1>4, <1>9, <2>2, <2>3
    <2> QED
      BY <1>1, <1>4, <2>1, <2>2, <2>3, <2>4
  <1> QED
    BY <1>6, <1>7, <1>8, <1>9

\* A read that begins lies in the file and in what was asked for.
LEMMA BeginFacts ==
    ASSUME NoWrap, IInv, NEW n \in Lens, file # NoFile, rd = Idle
    PROVE  /\ Clip(n) \in Nat /\ Clip(n) <= n /\ file.offset + Clip(n) <= file.len
           /\ Sum(file.offset, Clip(n)) = file.offset + Clip(n)
           /\ Clip(n) = n \/ (file.offset + n > file.len /\ file.offset + Clip(n) = file.len)
  <1>1. /\ file.len \in Nat /\ file.offset \in Nat /\ file.offset <= file.len
        /\ n \in Nat /\ Word \in Nat
    BY FileFacts, Sizes DEF IInv, OffsetInFile
  <1>2. file.len < Word /\ file.len + n < Word
    BY FileFacts DEF IInv
  <1>3. Sum(file.offset, n) = file.offset + n
    BY <1>1, <1>2, SumFacts
  <1>4. /\ Clip(n) \in Nat /\ Clip(n) <= n /\ file.offset + Clip(n) <= file.len
        /\ Clip(n) = n \/ (file.offset + n > file.len /\ file.offset + Clip(n) = file.len)
    <2>1. CASE file.offset + n > file.len
      <3>1. Clip(n) = file.len - file.offset
        BY <1>3, <2>1 DEF Clip
      <3> QED
        BY <1>1, <2>1, <3>1
    <2>2. CASE ~(file.offset + n > file.len)
      <3>1. Clip(n) = n
        BY <1>3, <2>2 DEF Clip
      <3> QED
        BY <1>1, <2>2, <3>1
    <2> QED
      BY <2>1, <2>2
  <1>5. file.offset + Clip(n) < Word
    BY <1>1, <1>2, <1>4
  <1> QED
    BY <1>1, <1>4, <1>5, SumFacts

LEMMA BeginPreserves ==
    ASSUME NoWrap, IInv, NEW n \in Lens, ReadBegin(n)
    PROVE  IInv'
  <1> DEFINE C == ClusterSize
             a == file.offset
             z == file.offset + Clip(n)
  <1>1. /\ file # NoFile /\ rd = Idle /\ Clip(n) # 0
        /\ rd' = [start |-> a, old |-> dest, old_asked |-> asked, i |-> 0,
                  cluster |-> file.ref, begin |-> a \div C, offset_begin |-> a % C,
                  end |-> z \div C, offset_end |-> z % C, src_offset |-> 0, src_len |-> 0]
        /\ asked' = n /\ dest' = <<>> /\ UNCHANGED <<drivers, file, dir, dirents>>
    BY BeginFacts DEF ReadBegin
  <1>2. /\ Clip(n) \in Nat /\ Clip(n) <= n /\ z <= file.len
    BY <1>1, BeginFacts
  <1>3. /\ a \in Nat /\ z \in Nat /\ a < z /\ z <= a + n /\ n \in Nat /\ C \in Nat \ {0}
        /\ file.ref \in Nat /\ file.len \in Nat
    <2>1. /\ file.offset \in Nat /\ file.ref \in Nat /\ file.len \in Nat /\ C \in Nat \ {0}
          /\ n \in Nat
      BY <1>1, FileFacts, Sizes DEF IInv
    <2>2. Clip(n) # 0
      BY <1>1
    <2> QED
      BY <1>2, <2>1, <2>2
  <1> HIDE DEF C, a, z
  <1>4. /\ a \div C \in Nat /\ a % C \in 0 .. C - 1 /\ a = (a \div C) * C + (a % C)
        /\ z \div C \in Nat /\ z % C \in 0 .. C - 1 /\ z = (z \div C) * C + (z % C)
    BY <1>3, DivMod
  <1>5. a \div C <= z \div C
    <2> DEFINE qa == a \div C
               qz == z \div C
    <2>1. qa \in Nat /\ qz \in Nat /\ C \in Nat
      BY <1>3, <1>4
    <2>2. qa * C + (a % C) < qz * C + (z % C)
      BY <1>3, <1>4
    <2> HIDE DEF qa, qz
    <2>3. qz < qa => qz * C + C <= qa * C
      BY <2>1, Product
    <2>4. qa * C \in Nat /\ qz * C \in Nat
      BY <2>1, Product
    <2>5. qa <= qz
      BY <1>3, <1>4, <2>1, <2>2, <2>3, <2>4
    <2> QED
      BY <2>5 DEF qa, qz
  <1>6. Types'
    BY <1>1, <1>3 DEF IInv, Types
  <1>7. RdType'
    BY <1>1, <1>3, <1>4 DEF RdType, IInv, Types, C
  <1>8. FileFrom' /\ OffsetInFile'
    BY <1>1 DEF IInv, FileFrom, OffsetInFile
  <1>9. DirFrom'
    BY <1>1 DEF IInv, DirFrom
  <1>10. Reading'
    <2>1. /\ rd'.begin = a \div C /\ rd'.offset_begin = a % C /\ rd'.start = a /\ rd'.i = 0
          /\ rd'.end = z \div C /\ rd'.offset_end = z % C
      BY <1>1
    <2>2. Stop' = z
      BY <1>4, <2>1 DEF Stop, C
    <2>3. file' # NoFile /\ Len(dest') = 0 /\ file'.offset = a /\ file'.len = file.len
      BY <1>1 DEF a
    <2>4. rd'.i <= rd'.end /\ rd'.begin <= rd'.end /\ ~(rd'.i > rd'.begin)
      BY <1>4, <1>5, <2>1
    <2> QED
      BY <1>1, <1>2, <1>3, <1>4, <2>1, <2>2, <2>3, <2>4 DEF Reading, C
  <1> QED
    BY <1>6, <1>7, <1>8, <1>9, <1>10 DEF IInv

LEMMA ConcatFacts ==
    ASSUME NEW S, NEW s \in Seq(S), NEW t \in Seq(S)
    PROVE  /\ s \o t \in Seq(S) /\ Len(s \o t) = Len(s) + Len(t)
           /\ \A k \in 1 .. Len(s) : (s \o t)[k] = s[k]
           /\ \A k \in 1 .. Len(t) : (s \o t)[Len(s) + k] = t[k]
  OBVIOUS

\* What a turn of the loop that copies does.
LEMMA CopyFacts ==
    ASSUME NoWrap, IInv, NEW junk \in Junk, ReadCluster(junk), rd.i >= rd.begin
    PROVE  /\ dest' \in Seq(Int) /\ Len(dest') = Len(dest) + Slice[2]
           /\ file' = [file EXCEPT !.offset = rd.start + Len(dest')]
           /\ rd.start + Len(dest') <= Stop
  <1> DEFINE m == Slice[2]
             t == [k \in 1 .. m |-> SrcByte(rd.cluster, Slice[1] + k - 1)]
  <1>1. rd # Idle /\ dest' = dest \o t /\ file' = [file EXCEPT !.offset = Sum(@, m)]
    BY DEF ReadCluster
  <1>2. /\ m \in Nat /\ Slice[1] \in Nat /\ rd.start + Len(dest) + m <= Stop
    BY <1>1, SliceFacts DEF SliceFits
  <1>3. /\ rd.start \in Nat /\ rd.cluster \in Nat /\ Stop \in Nat
    BY <1>1, RdFields, StopFacts DEF IInv
  <1>4. \A k \in 1 .. m : SrcByte(rd.cluster, Slice[1] + k - 1) \in Int
    <2>1. BytesPerSector \in Nat /\ SectorsPerCluster \in Nat /\ LbaData \in Nat
      BY Fat12Assumption
    <2> DEFINE c == rd.cluster
               v == Slice[1]
    <2>2. c \in Nat /\ v \in Nat
      BY <1>2, <1>3
    <2> HIDE DEF c, v
    <2>3. (LbaData + (c - 2) * SectorsPerCluster) * BytesPerSector \in Int
      BY <2>1, <2>2
    <2>4. \A k \in 1 .. m : (LbaData + (c - 2) * SectorsPerCluster) * BytesPerSector + (v + k - 1) \in Int
      BY <1>2, <2>2, <2>3
    <2> QED
      BY <2>4 DEF SrcByte, fat12_cluster_lba, c, v
  <1>5. dest \in Seq(Int) /\ Len(dest) \in Nat
    BY DEF IInv, Types
  <1>6. file \in [ref : Nat, len : Nat, offset : Nat, driver : Mounts] /\ file.len < Word
        /\ Stop <= file.len /\ file.offset = rd.start + Len(dest)
    BY <1>1, FileFacts DEF IInv, Reading
  <1> HIDE DEF m
  <1>7. t \in Seq(Int) /\ Len(t) = m
    BY <1>2, <1>4
  <1> HIDE DEF t
  <1>8. dest' \in Seq(Int) /\ Len(dest') = Len(dest) + m
    BY <1>1, <1>5, <1>7, ConcatFacts
  <1>9. Sum(file.offset, m) = file.offset + m
    <2>1. file.offset \in Nat /\ file.offset + m < Word
      BY <1>2, <1>3, <1>5, <1>6, Sizes
    <2> QED
      BY <1>2, <2>1, SumFacts
  <1>10. file.offset + m = rd.start + Len(dest')
    BY <1>2, <1>3, <1>5, <1>6, <1>8
  <1> QED
    BY <1>1, <1>2, <1>3, <1>5, <1>6, <1>8, <1>9, <1>10 DEF m

LEMMA ClusterPreserves ==
    ASSUME NoWrap, IInv, NEW junk \in Junk, ReadCluster(junk)
    PROVE  IInv'
  <1> DEFINE copies == rd.i >= rd.begin
  <1>1. /\ rd # Idle /\ UNCHANGED <<drivers, dir, dirents, asked>>
        /\ ~copies => dest' = dest /\ file' = file
        /\ rd' = IF rd.i = rd.end THEN Idle
                 ELSE [rd EXCEPT !.i = rd.i + 1,
                                 !.cluster    = fat12_read_fat(rd.cluster, junk),
                                 !.src_offset = IF copies THEN Slice[1] ELSE @,
                                 !.src_len    = IF copies THEN Slice[2] ELSE @]
    <2>1. ~copies => file' = [file EXCEPT !.offset = @]
      BY DEF ReadCluster
    <2>2. [file EXCEPT !.offset = @] = file
      BY FileFacts DEF ReadCluster, IInv, Reading
    <2> QED
      BY <2>1, <2>2 DEF ReadCluster
  <1>2. /\ {rd.start, rd.old_asked, rd.i, rd.cluster, rd.begin, rd.end, rd.src_offset,
            rd.src_len} \subseteq Nat
        /\ Len(dest) \in Nat /\ dest \in Seq(Int) /\ asked \in Nat /\ ClusterSize \in Nat
    BY <1>1, RdFields, Sizes DEF IInv, Types
  <1>0. Stop \in Nat
    BY <1>1, StopFacts DEF IInv
  <1>3. /\ file \in [ref : Nat, len : Nat, offset : Nat, driver : Mounts] /\ file # NoFile
        /\ rd.begin <= rd.end /\ rd.i <= rd.end
        /\ rd.start = rd.begin * ClusterSize + rd.offset_begin
        /\ rd.start < Stop /\ Stop <= file.len /\ Stop <= rd.start + asked
        /\ file.offset = rd.start + Len(dest)
        /\ rd.i <= rd.begin => dest = <<>>
    BY <1>1, FileFacts DEF IInv, Reading
  <1>4. copies => /\ dest' \in Seq(Int) /\ Len(dest') = Len(dest) + Slice[2]
                  /\ file' = [file EXCEPT !.offset = rd.start + Len(dest')]
                  /\ rd.start + Len(dest') <= Stop
    BY CopyFacts
  <1>5. copies => SliceFits
    BY <1>1, SliceFacts
  <1>6. Types'
    BY <1>1, <1>4 DEF IInv, Types
  <1>7. file' = [file EXCEPT !.offset = rd.start + Len(dest')]
    <2>1. CASE ~copies
      BY <1>1, <1>3, <2>1
    <2> QED
      BY <1>4, <2>1
  <1>8. rd.start + Len(dest') <= Stop /\ Len(dest') \in Nat
    <2>1. ~copies => dest' = <<>>
      <3>1. ~copies => dest' = dest /\ rd.i <= rd.begin
        BY <1>1, <1>2
      <3>2. rd.i <= rd.begin => dest = <<>>
        BY <1>3
      <3> QED
        BY <3>1, <3>2
    <2>2. ~copies => Len(dest') = 0 /\ rd.start + 0 <= Stop
      BY <1>0, <1>2, <1>3, <2>1
    <2>3. Len(dest') \in Nat
      BY <1>6 DEF Types
    <2> QED
      BY <1>2, <1>4, <2>2, <2>3
  <1>9. /\ file' \in [ref : Nat, len : Nat, offset : Nat, driver : Mounts]
        /\ file'.ref = file.ref /\ file'.len = file.len /\ file'.offset = rd.start + Len(dest')
    <2>1. rd.start + Len(dest') \in Nat
      BY <1>2, <1>8
    <2> QED
      BY <1>3, <1>7, <2>1
  <1>10. file' # NoFile
    <2>1. file'.ref # NONE
      BY <1>9 DEF NONE
    <2> QED
      BY <2>1 DEF NoFile
  <1>11. FileFrom'
    <2>1. \E d \in DOMAIN Dir : \E k \in DOMAIN Dir[d] :
            /\ Dir[d][k].attributes = ARCHIVE
            /\ file.ref = Dir[d][k].cluster /\ file.len = Dir[d][k].size
      BY <1>3 DEF IInv, FileFrom
    <2> QED
      BY <1>9, <2>1 DEF FileFrom
  <1>12. OffsetInFile'
    BY <1>0, <1>2, <1>3, <1>8, <1>9 DEF OffsetInFile
  <1>13. DirFrom'
    BY <1>1 DEF IInv, DirFrom
  <1>14. CASE rd.i = rd.end
    BY <1>1, <1>6, <1>11, <1>12, <1>13, <1>14 DEF IInv, RdType, Reading
  <1>15. CASE rd.i # rd.end
    <2>1. fat12_read_fat(rd.cluster, junk) \in Nat
      BY <1>2, ReadFatFacts
    <2>2. copies => Slice[1] \in Nat /\ Slice[2] \in Nat
      BY <1>5 DEF SliceFits
    <2>3. RdType'
      <3>1. rd \in [start : Nat, old : Seq(Int), old_asked : Nat, i : Nat, cluster : Nat,
                    begin : Nat, offset_begin : 0 .. ClusterSize - 1, end : Nat,
                    offset_end : 0 .. ClusterSize - 1, src_offset : Nat, src_len : Nat]
        BY <1>1 DEF IInv, RdType
      <3> DEFINE c == fat12_read_fat(rd.cluster, junk)
                 u == IF copies THEN Slice[1] ELSE rd.src_offset
                 v == IF copies THEN Slice[2] ELSE rd.src_len
      <3>2. rd' = [rd EXCEPT !.i = rd.i + 1, !.cluster = c, !.src_offset = u, !.src_len = v]
        BY <1>1, <1>15
      <3>3. c \in Nat /\ u \in Nat /\ v \in Nat /\ rd.i + 1 \in Nat
        BY <1>2, <2>1, <2>2
      <3> HIDE DEF c, u, v
      <3> QED
        BY <3>1, <3>2, <3>3 DEF RdType
    <2>4. /\ rd'.start = rd.start /\ rd'.i = rd.i + 1 /\ rd'.begin = rd.begin
          /\ rd'.end = rd.end /\ rd'.offset_begin = rd.offset_begin
          /\ rd'.offset_end = rd.offset_end
          /\ copies => rd'.src_offset = Slice[1] /\ rd'.src_len = Slice[2]
      <3>1. rd \in [start : Nat, old : Seq(Int), old_asked : Nat, i : Nat, cluster : Nat,
                    begin : Nat, offset_begin : 0 .. ClusterSize - 1, end : Nat,
                    offset_end : 0 .. ClusterSize - 1, src_offset : Nat, src_len : Nat]
        BY <1>1 DEF IInv, RdType
      <3> QED
        BY <1>1, <1>15, <3>1
    <2>5. Stop' = Stop
      BY <2>4 DEF Stop
    <2>6. rd'.i <= rd'.end
      BY <1>2, <1>3, <1>15, <2>4
    <2>7. rd'.i <= rd'.begin => dest' = <<>>
      <3>1. rd.i \in Nat /\ rd.begin \in Nat /\ rd'.i = rd.i + 1 /\ rd'.begin = rd.begin
        BY <1>2, <2>4
      <3>2. rd.i < rd.begin => dest' = dest
        BY <1>1, <3>1
      <3>3. rd.i <= rd.begin => dest = <<>>
        BY <1>3
      <3> QED
        BY <3>1, <3>2, <3>3
    <2>8. rd'.i > rd'.begin => /\ rd'.start + Len(dest') <= rd'.i * ClusterSize
                               /\ rd'.src_offset + rd'.src_len <= ClusterSize
      <3>1. rd'.i > rd'.begin => copies
        BY <1>2, <2>4
      <3>2. copies => rd.start + Len(dest) + Slice[2] = rd.start + (Len(dest) + Slice[2])
        BY <1>2, <2>2
      <3> QED
        BY <1>4, <1>5, <1>15, <2>4, <3>1, <3>2 DEF SliceFits
    <2>9. Reading'
      BY <1>1, <1>3, <1>8, <1>9, <1>10, <2>4, <2>5, <2>6, <2>7, <2>8 DEF Reading
    <2> QED
      BY <1>6, <1>11, <1>12, <1>13, <2>3, <2>9 DEF IInv
  <1> QED
    BY <1>14, <1>15

-----------------------------------------------------------------------------
(***************************************************************************)
(* The other operations.                                                   *)
(***************************************************************************)
LEMMA ReadingIdle ==
    ASSUME IInv, file = NoFile
    PROVE  rd = Idle
  BY DEF IInv, Reading

LEMMA MountPreserves ==
    ASSUME IInv, NEW mnt \in Mounts, fs_mount(mnt)
    PROVE  IInv'
  <1>1. /\ Len(drivers) < DRIVERS_LENGTH /\ drivers' = Append(drivers, mnt)
        /\ UNCHANGED <<file, dir, dirents, rd, asked, dest>>
    BY DEF fs_mount
  <1>2. drivers \in Seq(Mounts) /\ DRIVERS_LENGTH \in Nat
    BY Sizes DEF IInv, Types
  <1>3. /\ drivers' \in Seq(Mounts) /\ Len(drivers') = Len(drivers) + 1
        /\ \A k \in 1 .. Len(drivers) : drivers[k] = drivers'[k]
    BY <1>1, <1>2, AppendFacts
  <1>4. Types'
    BY <1>1, <1>2, <1>3 DEF IInv, Types
  <1>5. \A x \in ToSet(drivers) : x \in ToSet(drivers')
    <2>1. DOMAIN drivers = 1 .. Len(drivers) /\ DOMAIN drivers' = 1 .. Len(drivers')
          /\ Len(drivers) \in Nat
      BY <1>2, <1>3
    <2>2. \A k \in DOMAIN drivers : k \in DOMAIN drivers' /\ drivers[k] = drivers'[k]
      BY <1>3, <2>1
    <2> QED
      BY <2>2 DEF ToSet
  <1>6. DirFrom'
    BY <1>1, <1>5 DEF IInv, DirFrom
  <1> QED
    BY <1>1, <1>4, <1>6 DEF IInv, RdType, FileFrom, OffsetInFile, Reading, Stop

LEMMA OpenPreserves ==
    ASSUME IInv, NEW path \in Paths, Open(path)
    PROVE  IInv'
  <1>1. /\ file = NoFile /\ file' = fs_open(path)
        /\ UNCHANGED <<drivers, dir, dirents, rd, asked, dest>>
    BY DEF Open, NothingOpen
  <1>2. path.names \in Seq(STRING)
    BY Fat12Assumption
  <1>3. rd' = Idle
    BY <1>1, ReadingIdle
  <1>4. FileFrom' /\ OffsetInFile'
    <2>1. CASE file' = NoFile
      BY <2>1 DEF FileFrom, OffsetInFile, NoFile
    <2>2. CASE file' # NoFile
      <3>1. /\ path.mnt \in ToSet(drivers)
            /\ \E d \in DOMAIN Dir : \E k \in DOMAIN Dir[d] :
                /\ Dir[d][k].attributes = ARCHIVE
                /\ fs_open(path) = Opened(d, k, path.mnt)
        BY <1>1, <1>2, <2>2, OpenFacts
      <3>0. PICK d \in DOMAIN Dir : \E k \in DOMAIN Dir[d] :
                Dir[d][k].attributes = ARCHIVE /\ file' = Opened(d, k, path.mnt)
        BY <1>1, <3>1
      <3>2. PICK k \in DOMAIN Dir[d] :
                Dir[d][k].attributes = ARCHIVE /\ file' = Opened(d, k, path.mnt)
        BY <3>0
      <3>3. Dir[d][k].cluster \in Nat /\ Dir[d][k].size \in Nat
        BY EntryFacts
      <3>4. path.mnt \in Mounts
        BY <3>1 DEF IInv, Types, ToSet
      <3>5. file' = [ref |-> Dir[d][k].cluster, len |-> Dir[d][k].size, offset |-> 0,
                     driver |-> path.mnt]
        BY <3>2 DEF Opened
      <3>6. file' \in [ref : Nat, len : Nat, offset : Nat, driver : Mounts]
        BY <3>3, <3>4, <3>5
      <3>7. file'.ref = Dir[d][k].cluster /\ file'.len = Dir[d][k].size /\ file'.offset = 0
        BY <3>5
      <3> QED
        BY <3>2, <3>3, <3>6, <3>7 DEF FileFrom, OffsetInFile
    <2> QED
      BY <2>1, <2>2
  <1>5. Types' /\ DirFrom'
    BY <1>1 DEF IInv, Types, DirFrom
  <1> QED
    BY <1>3, <1>4, <1>5 DEF IInv, RdType, Reading

LEMMA OpenDirPreserves ==
    ASSUME IInv, NEW path \in Paths, OpenDir(path)
    PROVE  IInv'
  <1>1. /\ dir = NoDir /\ dir' = fs_opendir(path)
        /\ UNCHANGED <<drivers, file, dirents, rd, asked, dest>>
    BY DEF OpenDir, NothingOpen
  <1>2. path.names \in Seq(STRING)
    BY Fat12Assumption
  <1>3. dirents = <<>>
    <2>1. NoDir.ref \notin DOMAIN Dir
      BY Fat12Assumption DEF NoDir, NONE
    <2> QED
      BY <1>1, <2>1 DEF IInv, DirFrom
  <1>4. ASSUME NEW entries PROVE ListOf(<<>>, entries)
    BY DEF ListOf
  <1>5. DirFrom'
    <2>1. CASE dir' = NoDir
      BY <1>1, <1>3, <2>1 DEF DirFrom
    <2>2. CASE dir' # NoDir
      <3>1. /\ path.mnt \in ToSet(drivers) /\ fat12_opendir(path.names) \in DOMAIN Dir
            /\ dir' = [ref |-> fat12_opendir(path.names), driver |-> path.mnt,
                       path |-> path.names]
        BY <1>1, <1>2, <2>2, OpendirFinds
      <3>2. /\ dir'.ref = fat12_opendir(path.names) /\ dir'.driver = path.mnt
            /\ dir'.path = path.names
        BY <3>1
      <3>3. ListOf(dirents', Dir[dir'.ref])
        BY <1>1, <1>3, <1>4
      <3> QED
        BY <1>1, <1>2, <3>1, <3>2, <3>3 DEF DirFrom
    <2> QED
      BY <2>1, <2>2
  <1> QED
    BY <1>1, <1>5 DEF IInv, Types, RdType, FileFrom, OffsetInFile, Reading, Stop

LEMMA ReadDirPreserves ==
    ASSUME IInv, ReadDir
    PROVE  IInv'
  <1>1. /\ dir # NoDir /\ \E len \in DirLens : dirents' = fat12_readdir(Dir[dir.ref], len)
        /\ UNCHANGED <<drivers, file, dir, rd, asked, dest>>
    BY DEF ReadDir
  <1>2. dir.ref \in DOMAIN Dir
    BY <1>1 DEF IInv, DirFrom
  <1>3. Dir[dir.ref] \in Seq(DirEntry)
    BY <1>2, Fat12Assumption
  <1>4. LenCleared => ListOf(dirents', Dir[dir.ref])
    BY <1>1, <1>3, ReaddirFacts DEF LenCleared
  <1>5. DirFrom'
    BY <1>1, <1>4 DEF IInv, DirFrom
  <1> QED
    BY <1>1, <1>5 DEF IInv, Types, RdType, FileFrom, OffsetInFile, Reading, Stop

LEMMA SeekPreserves ==
    ASSUME NoWrap, IInv, NEW o \in Seeks, Seek(o)
    PROVE  IInv'
  <1> DEFINE x == IF Sum(file.offset, o) > file.len THEN file.len ELSE o
  <1>1. /\ file # NoFile /\ rd = Idle /\ file' = [file EXCEPT !.offset = x]
        /\ UNCHANGED <<drivers, dir, dirents, rd, asked, dest>>
    BY DEF Seek
  <1>2. /\ file \in [ref : Nat, len : Nat, offset : Nat, driver : Mounts]
        /\ file.len + o < Word /\ o \in Nat /\ file.offset <= file.len /\ Word \in Nat
    BY <1>1, FileFacts, Sizes DEF IInv, OffsetInFile
  <1>3. Sum(file.offset, o) = file.offset + o
    <2>1. file.offset + o < Word /\ file.offset \in Nat
      BY <1>2
    <2> QED
      BY <1>2, <2>1, SumFacts
  <1>4. x \in Nat /\ x <= file.len
    BY <1>2, <1>3
  <1> HIDE DEF x
  <1>5. /\ file' \in [ref : Nat, len : Nat, offset : Nat, driver : Mounts]
        /\ file'.ref = file.ref /\ file'.len = file.len /\ file'.offset = x
    BY <1>1, <1>2, <1>4
  <1>6. \E d \in DOMAIN Dir : \E k \in DOMAIN Dir[d] :
            /\ Dir[d][k].attributes = ARCHIVE
            /\ file.ref = Dir[d][k].cluster /\ file.len = Dir[d][k].size
    BY <1>1 DEF IInv, FileFrom
  <1>7. FileFrom' /\ OffsetInFile'
    BY <1>4, <1>5, <1>6 DEF FileFrom, OffsetInFile
  <1>8. Types' /\ DirFrom'
    BY <1>1 DEF IInv, Types, DirFrom
  <1> QED
    BY <1>1, <1>7, <1>8 DEF IInv, RdType, Reading

\* What was copied lies before the end of the read.
LEMMA UnderWay ==
    ASSUME IInv, rd # Idle
    PROVE  rd.start + Len(dest) <= Stop
  <1>1. /\ rd.i <= rd.end /\ rd.start < Stop
        /\ rd.i <= rd.begin => dest = <<>>
        /\ rd.i > rd.begin => rd.start + Len(dest) <= rd.i * ClusterSize
    BY DEF IInv, Reading
  <1>2. /\ rd.i \in Nat /\ rd.begin \in Nat /\ rd.end \in Nat /\ rd.offset_end \in Nat
        /\ ClusterSize \in Nat /\ rd.start \in Nat /\ Stop \in Nat /\ Len(dest) \in Nat
    BY RdFields, StopFacts, Sizes DEF IInv, Types
  <1>3. rd.i * ClusterSize <= rd.end * ClusterSize /\ rd.end * ClusterSize \in Nat
        /\ rd.i * ClusterSize \in Nat
    BY <1>1, <1>2, Product
  <1>4. Stop = rd.end * ClusterSize + rd.offset_end
    BY DEF Stop
  <1>5. CASE rd.i <= rd.begin
    <2>1. Len(dest) = 0
      BY <1>1, <1>5
    <2> QED
      BY <1>1, <1>2, <2>1
  <1>6. CASE rd.i > rd.begin
    BY <1>1, <1>2, <1>3, <1>4, <1>6
  <1> QED
    BY <1>2, <1>5, <1>6

\* Every step preserves the invariant.
LEMMA StepPreserves ==
    ASSUME NoWrap, IInv, [Next]_vars
    PROVE  IInv'
  <1>1. CASE UNCHANGED vars
    BY <1>1 DEF vars, IInv, Types, RdType, FileFrom, DirFrom, OffsetInFile, Reading, Stop
  <1>2. CASE \E mnt \in Mounts : fs_mount(mnt)
    BY <1>2, MountPreserves
  <1>3. CASE \E path \in Paths : Open(path) \/ OpenDir(path)
    BY <1>3, OpenPreserves, OpenDirPreserves
  <1>4. CASE Close
    BY <1>4 DEF Close, IInv, Types, RdType, FileFrom, DirFrom, OffsetInFile, Reading, NoFile
  <1>5. CASE CloseDir
    BY <1>5 DEF CloseDir, IInv, Types, RdType, FileFrom, DirFrom, OffsetInFile, Reading, Stop
  <1>6. CASE ReadDir
    BY <1>6, ReadDirPreserves
  <1>7. CASE \E o \in Seeks : Seek(o)
    BY <1>7, SeekPreserves
  <1>8. CASE \E n \in Lens : ReadNothing(n)
    <2>1. PICK n \in Lens : ReadNothing(n)
      BY <1>8
    <2>2. n \in Nat
      BY Sizes
    <2> QED
      BY <2>1, <2>2 DEF ReadNothing, IInv, Types, RdType, FileFrom, DirFrom, OffsetInFile, Reading
  <1>9. CASE \E n \in Lens : ReadBegin(n)
    BY <1>9, BeginPreserves
  <1>10. CASE \E junk \in Junk : ReadCluster(junk)
    BY <1>10, ClusterPreserves
  <1>11. CASE ReadInvalid
    BY <1>11 DEF ReadInvalid, IInv, Types, RdType, FileFrom, DirFrom, OffsetInFile, Reading
  <1> QED
    BY <1>1, <1>2, <1>3, <1>4, <1>5, <1>6, <1>7, <1>8, <1>9, <1>10, <1>11 DEF Next

LEMMA InitHolds == Init => IInv
  <1> SUFFICES ASSUME Init PROVE IInv
    OBVIOUS
  <1>1. Types
    BY Sizes DEF Init, Types
  <1> QED
    BY <1>1 DEF Init, IInv, RdType, FileFrom, DirFrom, OffsetInFile, Reading, NoFile

-----------------------------------------------------------------------------
(***************************************************************************)
(* The theorems, for volumes and lengths far from the last 32-bit number.  *)
(***************************************************************************)

\* The inductive invariant holds in every reachable state.
THEOREM IInvInvariant ==
    ASSUME NoWrap
    PROVE  Spec => []IInv
  <1>1. IInv /\ [Next]_vars => IInv'
    BY StepPreserves
  <1> QED
    BY <1>1, InitHolds, PTL DEF Spec

\* The state of the file system is always well typed.
THEOREM TypeCorrect ==
    ASSUME NoWrap
    PROVE  Spec => []TypeOK
  <1>1. IInv => TypeOK
    BY InvTypes DEF IInv
  <1> QED
    BY <1>1, IInvInvariant, PTL

\* fat12_seek and fat12_read never leave the offset of a file past its end, in
\* whatever order they are called and however long the reads are, and what
\* fat12_readdir listed can be opened by that name, for every volume, when its
\* callers clear *len.
THEOREM UsableSafe ==
    ASSUME NoWrap, LenCleared, NamesFit
    PROVE  Spec => []Usable
  <1>1. IInv => Usable
    BY ListedFacts DEF IInv, Usable
  <1> QED
    BY <1>1, IInvInvariant, PTL

\* fat12_read writes no more to the caller's buffer than it was asked for and
\* copies nothing from behind the cluster, for reads of any length.
THEOREM InBuffersSafe ==
    ASSUME NoWrap
    PROVE  Spec => InBuffers
  <1> DEFINE P == rd # Idle => /\ Len(dest') <= asked
                               /\ rd.i >= rd.begin => Slice[1] + Slice[2] <= ClusterSize
  <1>1. ASSUME IInv, IInv', [Next]_vars PROVE [P]_vars
    <2> SUFFICES ASSUME Next, rd # Idle
                 PROVE  /\ Len(dest') <= asked
                        /\ rd.i >= rd.begin => Slice[1] + Slice[2] <= ClusterSize
      BY <1>1
    <2>1. rd.i >= rd.begin => Slice[1] + Slice[2] <= ClusterSize
      BY <1>1, SliceFacts DEF SliceFits
    <2>2. /\ Stop \in Nat /\ Stop <= rd.start + asked /\ rd.start \in Nat /\ asked \in Nat
          /\ Len(dest) \in Nat /\ file.offset = rd.start + Len(dest) /\ file # NoFile
          /\ rd.i \in Nat /\ rd.begin \in Nat /\ rd.start < Stop
      BY <1>1, StopFacts, RdFields DEF IInv, Reading, Types
    <2>3. rd.i < rd.begin => Len(dest) = 0
      BY <1>1, <2>2 DEF IInv, Reading
    <2>4. CASE \E junk \in Junk : ReadCluster(junk)
      <3>1. PICK junk \in Junk : ReadCluster(junk)
        BY <2>4
      <3>2. CASE rd.i >= rd.begin
        <4>1. rd.start + Len(dest') <= Stop /\ dest' \in Seq(Int)
          BY <1>1, <3>1, <3>2, CopyFacts
        <4>2. Len(dest') \in Nat
          BY <4>1
        <4>3. Len(dest') <= asked
          BY <2>2, <4>1, <4>2
        <4> QED
          BY <2>1, <4>3
      <3>3. CASE ~(rd.i >= rd.begin)
        <4>1. dest' = dest
          BY <3>1, <3>3 DEF ReadCluster
        <4> QED
          BY <2>1, <2>2, <2>3, <3>3, <4>1
      <3> QED
        BY <3>2, <3>3
    <2>5. CASE UNCHANGED <<dest>>
      <3>1. rd.start + Len(dest) <= Stop
        BY <1>1, <2>2, <2>5, UnderWay
      <3>2. Len(dest) <= asked
        BY <2>2, <3>1
      <3> QED
        BY <2>1, <2>5, <3>2
    <2>6. CASE \E n \in Lens : ReadNothing(n) \/ ReadBegin(n)
      BY <2>6 DEF ReadNothing, ReadBegin
    <2> QED
      BY <2>4, <2>5, <2>6 DEF Next, fs_mount, Open, OpenDir, Close, CloseDir, ReadDir, Seek,
            ReadInvalid
  <1>2. Spec => [][Next]_vars
    BY DEF Spec
  <1>3. Spec => [][P]_vars
    BY <1>1, <1>2, IInvInvariant, PTL
  <1> QED
    BY <1>3 DEF InBuffers

-----------------------------------------------------------------------------
(***************************************************************************)
(* Reading gives the bytes of the file.                                    *)
(***************************************************************************)

\* What a read has copied so far, and where it stands.
Faithful ==
    rd # Idle =>
        /\ asked \in Lens
        /\ rd.end <= rd.begin + 1
        /\ Stop = rd.start + asked \/ (rd.start + asked > file.len /\ Stop = file.len)
        /\ rd.i > rd.begin => rd.start + Len(dest) = rd.i * ClusterSize
        /\ rd.i * ClusterSize < file.len => rd.cluster = ClusterOf(file.ref, rd.i)
        /\ \A k \in 1 .. Len(dest) : dest[k] = Content(file)[rd.start + k]

\* f follows the chain from ref for n clusters.
Chain(f, ref, n) == f[0] = ref /\ \A k \in 1 .. n : f[k] = Fat[f[k - 1]]

LEMMA ChainExists ==
    ASSUME NEW ref, NEW N \in Nat
    PROVE  \E f : Chain(f, ref, N) /\ f = [k \in 0 .. N |-> f[k]]
  <1> DEFINE S == {n \in Nat : \E f : Chain(f, ref, n) /\ f = [k \in 0 .. n |-> f[k]]}
  <1>1. 0 \in S
    <2> DEFINE g == [k \in 0 .. 0 |-> ref]
    <2>1. Chain(g, ref, 0) /\ g = [k \in 0 .. 0 |-> g[k]]
      BY DEF Chain
    <2> QED
      BY <2>1
  <1>2. ASSUME NEW n \in S, n \in Nat PROVE n + 1 \in S
    <2>1. PICK f : Chain(f, ref, n)
      BY <1>2
    <2> DEFINE x == Fat[f[n]]
               g == [k \in 0 .. n + 1 |-> IF k = n + 1 THEN x ELSE f[k]]
    <2> HIDE DEF x
    <2>2. g = [k \in 0 .. n + 1 |-> g[k]]
      BY <1>2
    <2>3. g[n + 1] = x /\ \A k \in 0 .. n : g[k] = f[k]
      BY <1>2
    <2> HIDE DEF g
    <2>4. g[0] = ref
      BY <1>2, <2>1, <2>3 DEF Chain
    <2>5. ASSUME NEW k \in 1 .. n + 1 PROVE g[k] = Fat[g[k - 1]]
      <3>1. CASE k = n + 1
        <4>1. k - 1 = n /\ n \in 0 .. n
          BY <1>2, <3>1
        <4> QED
          BY <2>3, <3>1, <4>1 DEF x
      <3>2. CASE k # n + 1
        <4>1. k \in 1 .. n /\ k \in 0 .. n /\ k - 1 \in 0 .. n
          BY <1>2, <3>2
        <4> QED
          BY <2>1, <2>3, <4>1 DEF Chain
      <3> QED
        BY <3>1, <3>2
    <2>6. Chain(g, ref, n + 1)
      BY <2>4, <2>5 DEF Chain
    <2> QED
      BY <1>2, <2>2, <2>6
  <1>3. Nat \subseteq S
    <2> HIDE DEF S
    <2> QED
      BY <1>1, <1>2, SetInduction
  <1> QED
    BY <1>3

LEMMA ChainUnique ==
    ASSUME NEW ref, NEW n \in Nat, NEW m \in Nat, n <= m, NEW f, NEW g,
           Chain(f, ref, n), Chain(g, ref, m)
    PROVE  \A k \in 0 .. n : g[k] = f[k]
  <1> DEFINE S == {k \in Nat : k <= n => g[k] = f[k]}
  <1>1. 0 \in S
    BY DEF Chain
  <1>2. ASSUME NEW k \in S, k \in Nat PROVE k + 1 \in S
    <2> SUFFICES ASSUME k + 1 <= n PROVE g[k + 1] = f[k + 1]
      OBVIOUS
    <2>1. g[k] = f[k] /\ k + 1 \in 1 .. n /\ k + 1 \in 1 .. m /\ (k + 1) - 1 = k
      BY <1>2
    <2> QED
      BY <2>1 DEF Chain
  <1>3. Nat \subseteq S
    <2> HIDE DEF S
    <2> QED
      BY <1>1, <1>2, SetInduction
  <1> QED
    BY <1>3

LEMMA ClusterOfUnfolds ==
    ASSUME NEW ref, NEW n \in Nat, NEW f, Chain(f, ref, n)
    PROVE  ClusterOf(ref, n) = f[n]
  <1> DEFINE D(c) == [k \in 0 .. n |-> IF k = 0 THEN ref ELSE Fat[c[k - 1]]]
             c    == CHOOSE x : x = D(x)
  <1>1. ClusterOf(ref, n) = c[n]
    BY DEF ClusterOf
  <1>2. PICK g : Chain(g, ref, n) /\ g = [k \in 0 .. n |-> g[k]]
    BY ChainExists
  <1>3. g = D(g)
    <2>1. \A k \in 0 .. n : k # 0 => k \in 1 .. n
      OBVIOUS
    <2> QED
      BY <1>2, <2>1 DEF Chain
  <1>4. c = D(c)
    BY <1>3
  <1>5. Chain(c, ref, n)
    <2> HIDE DEF c
    <2>1. \A k \in 0 .. n : c[k] = D(c)[k]
      BY <1>4, Zenon
    <2> QED
      BY <2>1 DEF Chain
  <1> HIDE DEF c, D
  <1>6. n <= n /\ n \in 0 .. n
    OBVIOUS
  <1>7. c[n] = f[n]
    BY <1>5, <1>6, ChainUnique
  <1> QED
    BY <1>1, <1>7

\* From one cluster of a file to the next.
LEMMA ClusterOfFacts ==
    ASSUME NEW ref, NEW n \in Nat
    PROVE  ClusterOf(ref, 0) = ref /\ ClusterOf(ref, n + 1) = Fat[ClusterOf(ref, n)]
  <1>1. ClusterOf(ref, 0) = ref
    <2>1. 0 \in Nat
      OBVIOUS
    <2>2. PICK f : Chain(f, ref, 0)
      BY <2>1, ChainExists
    <2> QED
      BY <2>1, <2>2, ClusterOfUnfolds DEF Chain
  <1>2. ClusterOf(ref, n + 1) = Fat[ClusterOf(ref, n)]
    <2>1. n + 1 \in Nat /\ n + 1 \in 1 .. n + 1 /\ (n + 1) - 1 = n /\ 1 .. n \subseteq 1 .. n + 1
      OBVIOUS
    <2>2. PICK f : Chain(f, ref, n + 1)
      BY <2>1, ChainExists
    <2>3. Chain(f, ref, n)
      BY <2>1, <2>2 DEF Chain
    <2>4. ClusterOf(ref, n) = f[n] /\ ClusterOf(ref, n + 1) = f[n + 1]
      BY <2>1, <2>2, <2>3, ClusterOfUnfolds
    <2> QED
      BY <2>1, <2>2, <2>4 DEF Chain
  <1> QED
    BY <1>1, <1>2

\* A number of twelve bits and its three half bytes.
LEMMA Digits ==
    ASSUME NEW x \in 0 .. 4095
    PROVE  x = (x % 16) + 16 * ((x \div 16) % 16) + 256 * ((x \div 256) % 16)
  OBVIOUS

LEMMA EntryHalves ==
    ASSUME NEW c \in DOMAIN Fat, c \in Nat
    PROVE  /\ HalfByte(3 * c) = Fat[c] % 16
           /\ HalfByte(3 * c + 1) = (Fat[c] \div 16) % 16
           /\ HalfByte(3 * c + 2) = (Fat[c] \div 256) % 16
  <1>1. (3 * c) \div 3 = c /\ (3 * c + 1) \div 3 = c /\ (3 * c + 2) \div 3 = c
    OBVIOUS
  <1>2. (3 * c) % 3 = 0 /\ (3 * c + 1) % 3 = 1 /\ (3 * c + 2) % 3 = 2
    OBVIOUS
  <1>3. <<1, 16, 256>>[1 + 0] = 1 /\ <<1, 16, 256>>[1 + 1] = 16 /\ <<1, 16, 256>>[1 + 2] = 256
    OBVIOUS
  <1>4. Fat[c] \in 0 .. 4095
    BY FatFacts
  <1> DEFINE x == Fat[c]
  <1>5. x \in 0 .. 4095
    BY <1>4
  <1>6. x \div 1 = x
    <2> HIDE DEF x
    <2> QED
      BY <1>5
  <1> QED
    <2> HIDE DEF x
    <2>1. /\ HalfByte(3 * c) = (x \div <<1, 16, 256>>[1 + 0]) % 16
          /\ HalfByte(3 * c + 1) = (x \div <<1, 16, 256>>[1 + 1]) % 16
          /\ HalfByte(3 * c + 2) = (x \div <<1, 16, 256>>[1 + 2]) % 16
      BY <1>1, <1>2 DEF HalfByte, x
    <2> QED
      BY <2>1, <1>3, <1>6 DEF x

\* fat12_read_fat gives the entry of the FAT, when that lies in one sector.
LEMMA ReadFatRight ==
    ASSUME NEW c \in DOMAIN Fat, c \in Nat, NEW junk \in Junk,
           ((c + c \div 2) % BytesPerSector) + 1 < BytesPerSector
    PROVE  fat12_read_fat(c, junk) = Fat[c]
  <1> DEFINE k  == c + c \div 2
             x  == Fat[c]
             d0 == x % 16
             d1 == (x \div 16) % 16
             d2 == (x \div 256) % 16
  <1>1. fat12_read_fat(c, junk) = IF c % 2 = 1 THEN (FatByte(k) + 256 * FatByte(k + 1)) \div 16
                                  ELSE (FatByte(k) + 256 * FatByte(k + 1)) % 4096
    BY DEF fat12_read_fat
  <1>2. /\ HalfByte(3 * c) = d0 /\ HalfByte(3 * c + 1) = d1 /\ HalfByte(3 * c + 2) = d2
    BY EntryHalves
  <1>3. x \in 0 .. 4095
    BY FatFacts
  <1> HIDE DEF x
  <1>4. x = d0 + 16 * d1 + 256 * d2 /\ d0 \in 0 .. 15 /\ d1 \in 0 .. 15 /\ d2 \in 0 .. 15
    <2>1. x = (x % 16) + 16 * ((x \div 16) % 16) + 256 * ((x \div 256) % 16)
      BY <1>3, Digits
    <2>2. x % 16 \in 0 .. 15 /\ (x \div 16) % 16 \in 0 .. 15 /\ (x \div 256) % 16 \in 0 .. 15
      BY <1>3, Digits
    <2> QED
      BY <2>1, <2>2
  <1> HIDE DEF d0, d1, d2
  <1>5. CASE c % 2 = 1
    <2>1. 2 * k = 3 * c - 1 /\ 2 * k \in Nat /\ k \in Nat
      BY <1>5
    <2> HIDE DEF k
    <2>2. 2 * k + 1 = 3 * c /\ 2 * (k + 1) = 3 * c + 1 /\ 2 * (k + 1) + 1 = 3 * c + 2
      BY <2>1
    <2> DEFINE h == HalfByte(2 * k)
    <2>3. h \in 0 .. 15
      BY <2>1, HalfByteFacts
    <2>4. FatByte(k) = h + 16 * d0 /\ FatByte(k + 1) = d1 + 16 * d2
      BY <1>2, <2>2 DEF FatByte
    <2> HIDE DEF h
    <2>5. FatByte(k) + 256 * FatByte(k + 1) = 16 * x + h
      BY <1>3, <1>4, <2>3, <2>4
    <2>6. (16 * x + h) \div 16 = x
      BY <1>3, <2>3
    <2> QED
      BY <1>1, <1>5, <2>5, <2>6 DEF x
  <1>6. CASE c % 2 # 1
    <2>1. 2 * k = 3 * c /\ 2 * k \in Nat /\ k \in Nat
      BY <1>6
    <2> HIDE DEF k
    <2>2. 2 * k + 1 = 3 * c + 1 /\ 2 * (k + 1) = 3 * c + 2 /\ 2 * (k + 1) + 1 \in Nat
      BY <2>1
    <2> DEFINE h == HalfByte(2 * (k + 1) + 1)
    <2>3. h \in 0 .. 15
      BY <2>2, HalfByteFacts
    <2>4. FatByte(k) = d0 + 16 * d1 /\ FatByte(k + 1) = d2 + 16 * h
      BY <1>2, <2>1, <2>2 DEF FatByte
    <2> HIDE DEF h
    <2>5. FatByte(k) + 256 * FatByte(k + 1) = x + 4096 * h
      BY <1>3, <1>4, <2>3, <2>4
    <2>6. (x + 4096 * h) % 4096 = x
      BY <1>3, <2>3
    <2> QED
      BY <1>1, <1>6, <2>5, <2>6 DEF x
  <1> QED
    BY <1>5, <1>6

\* An open file has a sound chain.
LEMMA SoundFacts ==
    ASSUME SoundChains, FileFrom, file # NoFile, NEW j \in Nat
    PROVE  /\ j * ClusterSize < file.len => fat12_valid_cluster(ClusterOf(file.ref, j))
           /\ (j + 1) * ClusterSize < file.len =>
                LET c == ClusterOf(file.ref, j)
                IN  c \in DOMAIN Fat /\ ((c + c \div 2) % BytesPerSector) + 1 < BytesPerSector
  <1>0. PICK d \in DOMAIN Dir : \E k \in DOMAIN Dir[d] :
            /\ Dir[d][k].attributes = ARCHIVE
            /\ file.ref = Dir[d][k].cluster /\ file.len = Dir[d][k].size
    BY DEF FileFrom
  <1>1. PICK k \in DOMAIN Dir[d] :
            /\ Dir[d][k].attributes = ARCHIVE
            /\ file.ref = Dir[d][k].cluster /\ file.len = Dir[d][k].size
    BY <1>0
  <1> DEFINE f == Dir[d][k]
             c == ClusterOf(f.cluster, j)
  <1>2. \A x \in 0 .. f.size :
            LET y == ClusterOf(f.cluster, x)
            IN  /\ x * ClusterSize < f.size => fat12_valid_cluster(y)
                /\ (x + 1) * ClusterSize < f.size =>
                        /\ y \in DOMAIN Fat
                        /\ ((y + y \div 2) % BytesPerSector) + 1 < BytesPerSector
    BY <1>1, Zenon DEF SoundChains
  <1>3. j * ClusterSize < f.size \/ (j + 1) * ClusterSize < f.size => j \in 0 .. f.size
    <2>1. f.size \in Nat /\ ClusterSize \in Nat \ {0}
      BY EntryFacts, Sizes
    <2>2. j <= j * ClusterSize /\ j * ClusterSize \in Nat
          /\ (j + 1) * ClusterSize = j * ClusterSize + ClusterSize
      BY <2>1, Product, AtLeast
    <2> QED
      BY <2>1, <2>2
  <1> HIDE DEF f
  <1>4. /\ j * ClusterSize < f.size => fat12_valid_cluster(c)
        /\ (j + 1) * ClusterSize < f.size =>
              c \in DOMAIN Fat /\ ((c + c \div 2) % BytesPerSector) + 1 < BytesPerSector
    BY <1>2, <1>3, Zenon
  <1> QED
    BY <1>1, <1>4, Zenon DEF f

LEMMA ContentFacts ==
    ASSUME NEW f, f.len \in Nat
    PROVE  /\ DOMAIN Content(f) = 1 .. f.len /\ Len(Content(f)) = f.len
           /\ \A k \in 1 .. f.len :
                Content(f)[k] = SrcByte(ClusterOf(f.ref, (k - 1) \div ClusterSize),
                                        (k - 1) % ClusterSize)
  <1>1. Content(f) = [k \in 1 .. f.len |->
                        SrcByte(ClusterOf(f.ref, (k - 1) \div ClusterSize), (k - 1) % ClusterSize)]
    BY DEF Content
  <1> DEFINE g(k) == SrcByte(ClusterOf(f.ref, (k - 1) \div ClusterSize), (k - 1) % ClusterSize)
             n    == f.len
  <1>2. Content(f) = [k \in 1 .. n |-> g(k)] /\ n \in Nat
    BY <1>1
  <1> HIDE DEF g, n
  <1>3. DOMAIN Content(f) = 1 .. n /\ Len(Content(f)) = n /\ \A k \in 1 .. n : Content(f)[k] = g(k)
    BY <1>2
  <1> QED
    BY <1>3 DEF g, n

LEMMA ContentSame ==
    ASSUME NEW f, NEW g, f.ref = g.ref, f.len = g.len
    PROVE  Content(f) = Content(g)
  BY DEF Content

\* Where a turn that copies takes its bytes from: where those before it end.
LEMMA SliceRight ==
    ASSUME NoWrap, IInv, Faithful, rd # Idle, rd.i >= rd.begin
    PROVE  /\ rd.start + Len(dest) = rd.i * ClusterSize + Slice[1] \/ Slice[2] = 0
           /\ rd.i = rd.end => rd.start + Len(dest) + Slice[2] = Stop
           /\ rd.i # rd.end => rd.start + Len(dest) + Slice[2] = (rd.i + 1) * ClusterSize
  <1> DEFINE C  == ClusterSize
             ob == rd.offset_begin
             oe == rd.offset_end
             n  == Len(dest)
  <1>1. C \in Nat \ {0} /\ n \in Nat /\ ob \in 0 .. C - 1 /\ oe \in 0 .. C - 1
        /\ rd.start \in Nat /\ rd.i \in Nat /\ rd.begin \in Nat /\ rd.end \in Nat
    BY Sizes, RdFields DEF IInv, Types
  <1>2. /\ rd.i <= rd.end /\ rd.start = rd.begin * C + ob
        /\ rd.start < rd.end * C + oe /\ rd.end * C + oe <= file.len
        /\ rd.i <= rd.begin => n = 0
    BY DEF IInv, Reading, Stop
  <1>3. /\ rd.i > rd.begin => rd.start + n = rd.i * C
        /\ rd.end <= rd.begin + 1
    BY DEF Faithful
  <1>4. file.len \in Nat /\ file.len < Word /\ Word \in Nat
    BY FileFacts, Sizes DEF IInv, Reading
  <1>5. /\ rd.i * C \in Nat /\ (rd.i + 1) * C = rd.i * C + C
        /\ rd.end * C \in Nat /\ rd.begin * C \in Nat
    BY <1>1, Product
  <1>6. Stop = rd.end * C + oe
    BY DEF Stop
  <1> HIDE DEF C, ob, oe, n
  <1>7. SUFFICES /\ rd.start + n = rd.i * C + Slice[1] \/ Slice[2] = 0
                 /\ rd.i = rd.end => rd.start + n + Slice[2] = rd.end * C + oe
                 /\ rd.i # rd.end => rd.start + n + Slice[2] = rd.i * C + C
    BY <1>5, <1>6 DEF C, n
  <1>8. CASE rd.i = rd.begin /\ rd.i = rd.end
    <2>1. ob < oe /\ oe - ob < Word /\ oe - ob \in Nat
      BY <1>1, <1>2, <1>4, <1>5, <1>8
    <2>2. (oe - ob) % Word = oe - ob
      BY <1>4, <2>1
    <2>3. Slice[1] = ob /\ Slice[2] = oe - ob
      BY <1>8, <2>2 DEF Slice, ob, oe
    <2> QED
      BY <1>1, <1>2, <1>5, <1>8, <2>1, <2>3
  <1>9. CASE rd.i = rd.begin /\ rd.i # rd.end
    <2>1. Slice[1] = ob /\ Slice[2] = C - ob
      BY <1>9 DEF Slice, ob, C
    <2> QED
      BY <1>1, <1>2, <1>5, <1>9, <2>1
  <1>10. CASE rd.i # rd.begin
    <2>0. rd.i <= rd.end /\ rd.end <= rd.begin + 1
      BY <1>2, <1>3
    <2>1. rd.i > rd.begin /\ rd.i = rd.end
      BY <1>1, <1>10, <2>0
    <2>2. Slice[1] = 0 /\ Slice[2] = oe
      BY <1>10, <2>1 DEF Slice, oe
    <2> QED
      BY <1>1, <1>3, <1>5, <2>1, <2>2
  <1> QED
    BY <1>8, <1>9, <1>10

LEMMA SeqFrom ==
    ASSUME NEW S, NEW n \in Nat, NEW f, f = [k \in 1 .. n |-> f[k]], \A k \in 1 .. n : f[k] \in S
    PROVE  f \in Seq(S)
  <1>1. f \in [1 .. n -> S]
    OBVIOUS
  <1> QED
    BY <1>1

\* It appends the bytes of the file that follow.
LEMMA CopyRight ==
    ASSUME NoWrap, IInv, Faithful, NEW junk \in Junk, ReadCluster(junk), rd.i >= rd.begin
    PROVE  \A k \in 1 .. Len(dest') : dest'[k] = Content(file)[rd.start + k]
  <1> DEFINE C == ClusterSize
             n == Len(dest)
             m == Slice[2]
             v == Slice[1]
             t == [k \in 1 .. m |-> SrcByte(rd.cluster, v + k - 1)]
  <1>1. rd # Idle /\ dest' = dest \o t
    BY DEF ReadCluster
  <1>2. /\ m \in Nat /\ v \in Nat /\ v + m <= C
        /\ rd.start + n + m <= Stop /\ Stop <= file.len
    BY <1>1, SliceFacts DEF SliceFits, IInv, Reading
  <1>3. /\ rd.start \in Nat /\ rd.i \in Nat /\ n \in Nat /\ C \in Nat \ {0} /\ Stop \in Nat
        /\ dest \in Seq(Int) /\ file.len \in Nat
    BY <1>1, RdFields, Sizes, StopFacts, FileFacts DEF IInv, Types, Reading
  <1>4. Len(dest') = n + m
    BY <1>1, CopyFacts
  <1>5. /\ \A k \in 1 .. n : dest[k] = Content(file)[rd.start + k]
        /\ rd.i * C < file.len => rd.cluster = ClusterOf(file.ref, rd.i)
    BY <1>1 DEF Faithful
  <1>6. rd.start + n = rd.i * C + v \/ m = 0
    BY <1>1, SliceRight
  <1>7. rd.i * C \in Nat
    BY <1>3, Product
  <1> HIDE DEF C, n, m, v
  <1>8. /\ \A k \in 1 .. n : dest'[k] = dest[k]
        /\ \A k \in 1 .. m : dest'[n + k] = SrcByte(rd.cluster, v + k - 1)
    <2>1. DOMAIN dest = 1 .. n
      BY <1>3 DEF n
    <2>2. DOMAIN t = 1 .. m /\ Len(t) = m
      BY <1>2
    <2>3. \A k \in 1 .. m : t[k] = SrcByte(rd.cluster, v + k - 1)
      OBVIOUS
    <2> DEFINE S == Int \cup {t[k] : k \in 1 .. m}
    <2>4. dest \in Seq(S)
      BY <1>3
    <2>5. t \in Seq(S)
      <3>1. t = [k \in 1 .. m |-> t[k]] /\ \A k \in 1 .. m : t[k] \in S
        OBVIOUS
      <3> HIDE DEF S, t
      <3> QED
        BY <1>2, <3>1, SeqFrom
    <2> HIDE DEF S, t
    <2>6. /\ \A k \in 1 .. Len(dest) : (dest \o t)[k] = dest[k]
          /\ \A k \in 1 .. Len(t) : (dest \o t)[Len(dest) + k] = t[k]
      BY <2>4, <2>5, ConcatFacts
    <2> QED
      BY <1>1, <2>2, <2>3, <2>6 DEF n
  <1> SUFFICES ASSUME NEW k \in 1 .. n + m
               PROVE  dest'[k] = Content(file)[rd.start + k]
    BY <1>4
  <1>9. CASE k \in 1 .. n
    BY <1>5, <1>8, <1>9
  <1>10. CASE k \notin 1 .. n
    <2> DEFINE j == k - n
               p == rd.start + k - 1
               r == v + j - 1
    <2>1. j \in 1 .. m /\ k = n + j /\ m # 0
      BY <1>2, <1>3, <1>10
    <2>2. rd.start + n = rd.i * C + v
      BY <1>6, <2>1
    <2>3. p = rd.i * C + r /\ r \in 0 .. C - 1 /\ p + 1 \in 1 .. file.len /\ (p + 1) - 1 = p
          /\ p + 1 = rd.start + k /\ p \in Nat
      <3> DEFINE q == rd.i * C
      <3>1. q \in Nat /\ rd.start + n = q + v
        BY <1>7, <2>2
      <3> HIDE DEF q, j
      <3>2. j \in 1 .. m /\ k = n + j
        BY <2>1
      <3> DEFINE x == rd.start
                 l == file.len
      <3>5. /\ x \in Nat /\ n \in Nat /\ m \in Nat /\ v \in Nat /\ C \in Nat /\ l \in Nat
            /\ v + m <= C /\ x + n = q + v /\ p = x + k - 1
        BY <1>2, <1>3, <3>1
      <3>6. x + n + m <= l
        BY <1>2, <1>3
      <3> HIDE DEF x, l, p
      <3>3. p = q + r /\ r \in 0 .. C - 1
        BY <3>1, <3>2, <3>5
      <3>4. p + 1 \in 1 .. l /\ (p + 1) - 1 = p /\ p + 1 = x + k /\ p \in Nat
        BY <3>1, <3>2, <3>5, <3>6
      <3> QED
        BY <3>3, <3>4 DEF q, x, l
    <2>4. dest'[k] = SrcByte(rd.cluster, r)
      BY <1>8, <2>1
    <2> HIDE DEF j, p, r
    <2>5. p \div C = rd.i /\ p % C = r
      <3>1. rd.i \in Nat /\ C \in Nat \ {0} /\ r \in 0 .. C - 1 /\ p = rd.i * C + r
        BY <1>3, <2>3
      <3> QED
        BY <3>1, DivModUnique
    <2>6. rd.cluster = ClusterOf(file.ref, rd.i)
      <3>1. rd.i * C < file.len
        <4> DEFINE q == rd.i * C
                   l == file.len
        <4>1. p = q + r /\ r \in 0 .. C - 1 /\ p + 1 \in 1 .. l
          BY <2>3
        <4>2. q \in Nat /\ l \in Nat /\ C \in Nat /\ p \in Nat
          BY <1>3, <1>7, <2>3
        <4> HIDE DEF q, l
        <4>3. q < l
          BY <4>1, <4>2
        <4> QED
          BY <4>3 DEF q, l
      <3> QED
        BY <1>5, <3>1
    <2>7. Content(file)[p + 1] = SrcByte(ClusterOf(file.ref, p \div C), p % C)
      BY <1>3, <2>3, ContentFacts DEF C
    <2> QED
      BY <2>3, <2>4, <2>5, <2>6, <2>7
  <1> QED
    BY <1>9, <1>10

LEMMA BeginFaithful ==
    ASSUME NoWrap, ShortReads, IInv, IInv', NEW n \in Lens, ReadBegin(n)
    PROVE  Faithful'
  <1> DEFINE C == ClusterSize
             a == file.offset
             z == file.offset + Clip(n)
             ra == a % C
             rz == z % C
             qa == a \div C
             qz == z \div C
  <1>1. /\ file # NoFile /\ rd = Idle
        /\ rd' = [start |-> a, old |-> dest, old_asked |-> asked, i |-> 0,
                  cluster |-> file.ref, begin |-> qa, offset_begin |-> ra,
                  end |-> qz, offset_end |-> rz, src_offset |-> 0, src_len |-> 0]
        /\ asked' = n /\ dest' = <<>> /\ UNCHANGED <<drivers, file, dir, dirents>>
    BY BeginFacts DEF ReadBegin
  <1>2. /\ Clip(n) \in Nat /\ Clip(n) <= n
        /\ Clip(n) = n \/ (a + n > file.len /\ a + Clip(n) = file.len)
    BY <1>1, BeginFacts
  <1>3. a \in Nat /\ n \in Nat /\ C \in Nat \ {0} /\ n <= C
    BY <1>1, FileFacts, Sizes DEF IInv, ShortReads
  <1>4. z \in Nat /\ z <= a + C
    BY <1>2, <1>3
  <1> HIDE DEF z
  <1>5. /\ qa \in Nat /\ ra \in 0 .. C - 1 /\ a = qa * C + ra
        /\ qz \in Nat /\ rz \in 0 .. C - 1 /\ z = qz * C + rz
    BY <1>3, <1>4, DivMod
  <1> HIDE DEF C, a, qa, qz, ra, rz
  <1>6. qz <= qa + 1
    <2>1. /\ qa * C \in Nat /\ qz * C \in Nat /\ (qa + 1) * C = qa * C + C
          /\ qa + 1 < qz => (qa + 1) * C + C <= qz * C
      BY <1>3, <1>5, Product
    <2> QED
      BY <1>3, <1>4, <1>5, <2>1
  <1>7. /\ rd'.start = a /\ rd'.i = 0 /\ rd'.cluster = file.ref /\ rd'.begin = qa /\ rd'.end = qz
        /\ rd'.offset_end = rz
    BY <1>1
  <1>8. Stop' = z
    BY <1>5, <1>7 DEF Stop, C
  <1>9. Stop' = rd'.start + asked' \/ (rd'.start + asked' > file'.len /\ Stop' = file'.len)
    BY <1>1, <1>2, <1>7, <1>8 DEF z, a
  <1>10. rd'.cluster = ClusterOf(file'.ref, rd'.i)
    <2>1. ClusterOf(file.ref, 0) = file.ref
      BY ClusterOfFacts
    <2> QED
      BY <1>1, <1>7, <2>1
  <1>11. asked' \in Lens /\ rd'.end <= rd'.begin + 1 /\ ~(rd'.i > rd'.begin) /\ Len(dest') = 0
    BY <1>1, <1>5, <1>6, <1>7
  <1> QED
    BY <1>9, <1>10, <1>11 DEF Faithful

LEMMA ClusterFaithful ==
    ASSUME NoWrap, SoundChains, IInv, IInv', Faithful, NEW junk \in Junk, ReadCluster(junk)
    PROVE  Faithful'
  <1> SUFFICES ASSUME rd' # Idle PROVE Faithful'
    BY DEF Faithful
  <1> DEFINE copies == rd.i >= rd.begin
  <1>1. /\ rd # Idle /\ rd.i # rd.end /\ UNCHANGED <<asked>>
        /\ ~copies => dest' = dest
        /\ rd' = [rd EXCEPT !.i = rd.i + 1,
                            !.cluster    = fat12_read_fat(rd.cluster, junk),
                            !.src_offset = IF copies THEN Slice[1] ELSE @,
                            !.src_len    = IF copies THEN Slice[2] ELSE @]
    BY DEF ReadCluster
  <1>2. /\ rd'.start = rd.start /\ rd'.i = rd.i + 1 /\ rd'.begin = rd.begin
        /\ rd'.end = rd.end /\ rd'.offset_end = rd.offset_end
        /\ rd'.cluster = fat12_read_fat(rd.cluster, junk)
    <2>1. rd \in [start : Nat, old : Seq(Int), old_asked : Nat, i : Nat, cluster : Nat,
                  begin : Nat, offset_begin : 0 .. ClusterSize - 1, end : Nat,
                  offset_end : 0 .. ClusterSize - 1, src_offset : Nat, src_len : Nat]
      BY <1>1 DEF IInv, RdType
    <2> QED
      BY <1>1, <2>1
  <1>3. /\ rd.start \in Nat /\ rd.i \in Nat /\ rd.begin \in Nat /\ rd.end \in Nat
        /\ rd.cluster \in Nat /\ ClusterSize \in Nat \ {0} /\ Len(dest) \in Nat
    BY <1>1, RdFields, Sizes DEF IInv, Types
  <1>4. /\ file # NoFile /\ file \in [ref : Nat, len : Nat, offset : Nat, driver : Mounts]
    BY <1>1, FileFacts DEF IInv, Reading
  <1>5. file'.ref = file.ref /\ file'.len = file.len
    BY <1>4 DEF ReadCluster
  <1>6. Stop' = Stop
    BY <1>2 DEF Stop
  <1>7. /\ asked' \in Lens /\ rd'.end <= rd'.begin + 1
        /\ Stop' = rd'.start + asked' \/ (rd'.start + asked' > file'.len /\ Stop' = file'.len)
    BY <1>1, <1>2, <1>5, <1>6 DEF Faithful
  <1>8. rd'.i > rd'.begin => rd'.start + Len(dest') = rd'.i * ClusterSize
    <2> SUFFICES ASSUME rd'.i > rd'.begin PROVE rd.start + Len(dest') = (rd.i + 1) * ClusterSize
      BY <1>2
    <2>1. copies
      BY <1>2, <1>3
    <2>2. rd.start + Len(dest) + Slice[2] = (rd.i + 1) * ClusterSize /\ Slice[2] \in Nat
      BY <1>1, <2>1, SliceRight, SliceFacts DEF SliceFits
    <2>3. Len(dest') = Len(dest) + Slice[2]
      BY <2>1, CopyFacts
    <2> QED
      BY <1>3, <2>2, <2>3
  <1>9. rd'.i * ClusterSize < file'.len => rd'.cluster = ClusterOf(file'.ref, rd'.i)
    <2> SUFFICES ASSUME (rd.i + 1) * ClusterSize < file.len
                 PROVE  fat12_read_fat(rd.cluster, junk) = ClusterOf(file.ref, rd.i + 1)
      BY <1>2, <1>5
    <2> DEFINE c == ClusterOf(file.ref, rd.i)
    <2>1. rd.i * ClusterSize < file.len
      <3>1. /\ rd.i * ClusterSize \in Nat /\ (rd.i + 1) * ClusterSize = rd.i * ClusterSize + ClusterSize
        BY <1>3, Product
      <3> QED
        BY <1>3, <1>4, <3>1
    <2>2. rd.cluster = c
      BY <1>1, <2>1 DEF Faithful
    <2>3. c \in DOMAIN Fat /\ ((c + c \div 2) % BytesPerSector) + 1 < BytesPerSector
      BY <1>3, <1>4, SoundFacts DEF IInv
    <2>4. ClusterOf(file.ref, rd.i + 1) = Fat[c]
      BY <1>3, ClusterOfFacts
    <2> HIDE DEF c
    <2>5. fat12_read_fat(c, junk) = Fat[c]
      BY <1>3, <2>2, <2>3, ReadFatRight
    <2> QED
      BY <2>2, <2>4, <2>5
  <1>10. \A k \in 1 .. Len(dest') : dest'[k] = Content(file')[rd'.start + k]
    <2>1. Content(file') = Content(file)
      BY <1>5, ContentSame
    <2>2. CASE copies
      BY <1>2, <2>1, <2>2, CopyRight
    <2>3. CASE ~copies
      BY <1>1, <1>2, <2>1, <2>3 DEF Faithful
    <2> QED
      BY <2>2, <2>3
  <1> QED
    BY <1>7, <1>8, <1>9, <1>10 DEF Faithful

LEMMA FaithfulStep ==
    ASSUME NoWrap, SoundChains, ShortReads, IInv, IInv', Faithful, [Next]_vars
    PROVE  Faithful'
  <1>1. CASE \E n \in Lens : ReadBegin(n)
    BY <1>1, BeginFaithful
  <1>2. CASE \E junk \in Junk : ReadCluster(junk)
    BY <1>2, ClusterFaithful
  <1>3. CASE rd' = Idle
    BY <1>3 DEF Faithful
  <1>4. CASE UNCHANGED <<file, rd, asked, dest>>
    BY <1>4 DEF Faithful, Stop
  <1>5. file = NoFile => rd = Idle
    BY ReadingIdle
  <1> QED
    BY <1>1, <1>2, <1>3, <1>4, <1>5 DEF Next, vars, fs_mount, Open, OpenDir, NothingOpen, Close,
        CloseDir, ReadDir, Seek, ReadNothing, ReadInvalid

\* A read that ends has copied everything up to where it should end.
LEMMA EndsWhole ==
    ASSUME NoWrap, SoundChains, IInv, Faithful, Next, rd # Idle, rd' = Idle
    PROVE  /\ asked' = asked /\ file'.ref = file.ref /\ file'.len = file.len /\ file' # NoFile
           /\ file'.offset = Stop /\ rd.start + Len(dest') = Stop /\ dest' \in Seq(Int)
           /\ \A k \in 1 .. Len(dest') : dest'[k] = Content(file)[rd.start + k]
  <1>1. /\ rd.start \in Nat /\ rd.i \in Nat /\ rd.begin \in Nat /\ rd.end \in Nat
        /\ rd.offset_begin \in Nat /\ rd.offset_end \in Nat
        /\ ClusterSize \in Nat \ {0} /\ Len(dest) \in Nat /\ dest \in Seq(Int) /\ Stop \in Nat
    BY RdFields, Sizes, StopFacts DEF IInv, Types
  <1>2. /\ file # NoFile /\ file \in [ref : Nat, len : Nat, offset : Nat, driver : Mounts]
        /\ file.offset = rd.start + Len(dest)
    BY FileFacts DEF IInv, Reading
  <1>3. CASE \E junk \in Junk : ReadCluster(junk)
    <2>1. PICK junk \in Junk : ReadCluster(junk)
      BY <1>3
    <2>2. rd.i = rd.end /\ UNCHANGED asked
      <3>1. rd.i # rd.end => rd'.i = rd.i + 1
        <4>1. rd \in [start : Nat, old : Seq(Int), old_asked : Nat, i : Nat, cluster : Nat,
                      begin : Nat, offset_begin : 0 .. ClusterSize - 1, end : Nat,
                      offset_end : 0 .. ClusterSize - 1, src_offset : Nat, src_len : Nat]
          BY DEF IInv, RdType
        <4> QED
          BY <2>1, <4>1 DEF ReadCluster
      <3>2. Idle.i = -1
        BY DEF Idle, NONE
      <3>3. UNCHANGED asked
        BY <2>1 DEF ReadCluster
      <3>4. rd.i # -1 /\ rd.i + 1 # -1
        BY <1>1
      <3> QED
        BY <3>1, <3>2, <3>3, <3>4
    <2>3. rd.i >= rd.begin
      BY <1>1, <2>2 DEF IInv, Reading
    <2>4. rd.start + Len(dest) + Slice[2] = Stop /\ Slice[2] \in Nat
      BY <2>2, <2>3, SliceRight, SliceFacts DEF SliceFits
    <2>5. /\ dest' \in Seq(Int) /\ Len(dest') = Len(dest) + Slice[2]
          /\ file' = [file EXCEPT !.offset = rd.start + Len(dest')]
      BY <2>1, <2>3, CopyFacts
    <2>6. rd.start + Len(dest') = Stop
      BY <1>1, <2>4, <2>5
    <2>7. file'.ref = file.ref /\ file'.len = file.len /\ file'.offset = Stop
      BY <1>2, <2>5, <2>6
    <2>8. file' # NoFile
      <3>1. file'.ref # NONE /\ NoFile.ref = NONE
        BY <1>2, <2>7 DEF NONE, NoFile
      <3> QED
        BY <3>1
    <2>9. \A k \in 1 .. Len(dest') : dest'[k] = Content(file)[rd.start + k]
      BY <2>1, <2>3, CopyRight
    <2> QED
      BY <2>2, <2>5, <2>6, <2>7, <2>8, <2>9
  <1>4. CASE ReadInvalid
    <2>1. ~fat12_valid_cluster(rd.cluster) /\ UNCHANGED <<file, asked, dest>>
      BY <1>4 DEF ReadInvalid
    <2>2. rd.i * ClusterSize >= file.len
      <3>1. rd.i * ClusterSize < file.len => fat12_valid_cluster(rd.cluster)
        BY <1>1, <1>2, SoundFacts DEF Faithful, IInv
      <3>2. rd.i * ClusterSize \in Nat
        BY <1>1, Product
      <3> QED
        BY <1>2, <2>1, <3>1, <3>2
    <2>3. /\ rd.i <= rd.end /\ rd.start = rd.begin * ClusterSize + rd.offset_begin
          /\ rd.start < Stop /\ Stop <= file.len /\ Stop = rd.end * ClusterSize + rd.offset_end
          /\ rd.i > rd.begin => rd.start + Len(dest) = rd.i * ClusterSize
      BY DEF IInv, Reading, Faithful, Stop
    <2>4. /\ rd.i * ClusterSize <= rd.end * ClusterSize /\ rd.i * ClusterSize \in Nat
          /\ rd.end * ClusterSize \in Nat /\ rd.begin * ClusterSize \in Nat
          /\ rd.i <= rd.begin => rd.i * ClusterSize <= rd.begin * ClusterSize
      BY <1>1, <2>3, Product
    <2> DEFINE b == rd.begin * ClusterSize
               e == rd.end * ClusterSize
               i == rd.i * ClusterSize
               l == file.len
    <2>5. /\ b \in Nat /\ e \in Nat /\ i \in Nat /\ l \in Nat /\ i >= l /\ i <= e
          /\ rd.start = b + rd.offset_begin /\ Stop = e + rd.offset_end
          /\ rd.i <= rd.begin => i <= b
          /\ rd.i > rd.begin => rd.start + Len(dest) = i
      BY <1>2, <2>2, <2>3, <2>4
    <2>6. rd.start < Stop /\ Stop <= l
      BY <2>3
    <2> HIDE DEF b, e, i, l
    <2>7. rd.i > rd.begin
      BY <1>1, <2>5, <2>6
    <2>8. rd.start + Len(dest) = Stop
      <3>1. rd.start + Len(dest) = i
        BY <2>5, <2>7
      <3>2. i >= l /\ i <= e /\ Stop = e + rd.offset_end /\ Stop <= l
        BY <2>5, <2>6
      <3>3. i \in Nat /\ e \in Nat /\ l \in Nat /\ rd.offset_end \in Nat
        BY <1>1, <2>5
      <3> QED
        BY <3>1, <3>2, <3>3
    <2> QED
      BY <1>1, <1>2, <2>1, <2>8 DEF Faithful
  <1>5. rd' # rd
    OBVIOUS
  <1> QED
    BY <1>3, <1>4, <1>5 DEF Next, fs_mount, Open, OpenDir, Close, CloseDir, ReadDir, Seek,
        ReadNothing, ReadBegin

\* The part of a file's content that was read.
LEMMA Part ==
    ASSUME NEW f, f.len \in Nat, NEW a \in Nat, NEW b \in Nat, a <= b, b <= f.len,
           NEW t \in Seq(Int), a + Len(t) = b,
           \A k \in 1 .. Len(t) : t[k] = Content(f)[a + k]
    PROVE  t = SubSeq(Content(f), a + 1, b)
  <1> DEFINE c == Content(f)
             n == Len(t)
  <1>1. DOMAIN c = 1 .. f.len /\ Len(c) = f.len /\ n \in Nat
    BY ContentFacts
  <1>2. c = [k \in 1 .. f.len |-> c[k]]
    BY <1>1 DEF Content
  <1> HIDE DEF c
  <1> DEFINE S == {c[k] : k \in 1 .. f.len}
  <1>3. c \in Seq(S)
    BY <1>2, SeqFrom
  <1> HIDE DEF S
  <1> DEFINE u == SubSeq(c, a + 1, b)
  <1>4. /\ u \in Seq(S) /\ Len(u) = n /\ \A k \in 1 .. n : u[k] = c[a + k]
    BY <1>1, <1>3
  <1> HIDE DEF u
  <1>5. u = [k \in 1 .. n |-> u[k]] /\ t = [k \in 1 .. n |-> t[k]]
    BY <1>4
  <1>6. \A k \in 1 .. n : u[k] = t[k]
    BY <1>4 DEF c
  <1>7. u = t
    BY <1>5, <1>6
  <1> QED
    BY <1>7 DEF u, c

\* Every step of the driver is a step of the file, a strayed seek, or none.
LEMMA StepRefines ==
    ASSUME NoWrap, SoundChains, ShortReads, IInv, IInv', Faithful, [Next]_vars
    PROVE  [F!Next \/ StraySeek]_(F!vars)
  <1> DEFINE ct == IF file = NoFile THEN <<>> ELSE Content(file)
             ps == IF file = NoFile THEN -1 ELSE IF rd = Idle THEN file.offset ELSE rd.start
             as == IF rd = Idle THEN asked ELSE rd.old_asked
             la == IF rd = Idle THEN dest ELSE rd.old
  <1>0. UNCHANGED <<ct, ps, as, la>> => UNCHANGED F!vars
    BY DEF F!vars
  <1>1. ASSUME NEW n \in Lens, ct' = ct, as' = n, ps >= 0,
               ps' = IF ps + n > Len(ct) THEN Len(ct) ELSE ps + n,
               la' = SubSeq(ct, ps + 1, ps')
        PROVE  F!Next
    BY <1>1 DEF F!Next, F!Read
  <1>2. ASSUME NEW o \in Seeks, UNCHANGED <<ct, as, la>>, ps >= 0,
               ps' = IF o > Len(ct) THEN Len(ct) ELSE o
        PROVE  F!Next
    BY <1>2 DEF F!Next, F!Seek
  <1>3. ASSUME ps >= 0, ps' = -1, ct' = <<>>, UNCHANGED <<as, la>>
        PROVE  F!Next
    BY <1>3 DEF F!Next, F!Close
  <1>4. CASE UNCHANGED <<file, rd, asked, dest>>
    BY <1>0, <1>4
  <1>5. CASE \E path \in Paths : Open(path)
    <2>1. PICK path \in Paths : Open(path)
      BY <1>5
    <2>2. file = NoFile /\ file' = fs_open(path) /\ UNCHANGED <<rd, asked, dest>> /\ rd = Idle
      BY <2>1, ReadingIdle DEF Open, NothingOpen
    <2>3. CASE file' = NoFile
      BY <1>4, <2>2, <2>3
    <2>4. CASE file' # NoFile
      <3>1. path.names \in Seq(STRING)
        BY Fat12Assumption
      <3>2. PICK d \in DOMAIN Dir : \E k \in DOMAIN Dir[d] :
                Dir[d][k].attributes = ARCHIVE /\ file' = Opened(d, k, path.mnt)
        BY <2>2, <2>4, <3>1, OpenFacts
      <3>3. PICK k \in DOMAIN Dir[d] :
                Dir[d][k].attributes = ARCHIVE /\ file' = Opened(d, k, path.mnt)
        BY <3>2
      <3>4. file'.ref = Dir[d][k].cluster /\ file'.len = Dir[d][k].size /\ file'.offset = 0
        BY <3>3 DEF Opened
      <3> DEFINE e == Dir[d][k]
                 g == [ref |-> e.cluster, len |-> e.size]
      <3>5. e.attributes = ARCHIVE /\ e \in UNION {ToSet(Dir[x]) : x \in DOMAIN Dir}
        BY <3>3 DEF ToSet
      <3>6. g.ref = file'.ref /\ g.len = file'.len
        BY <3>4
      <3>7. Content(file') = Content(g)
        BY <3>6, ContentSame
      <3>8. ct' = Content(g)
        BY <2>4, <3>7
      <3>9. ps = -1 /\ ps' = 0 /\ UNCHANGED <<as, la>>
        BY <2>2, <2>4, <3>4
      <3> HIDE DEF e
      <3> QED
        BY <3>5, <3>8, <3>9 DEF F!Next, F!Open
    <2> QED
      BY <2>3, <2>4
  <1>6. ASSUME file # NoFile
        PROVE  /\ file \in [ref : Nat, len : Nat, offset : Nat, driver : Mounts]
               /\ file.offset <= file.len /\ ct = Content(file) /\ Len(ct) = file.len
    BY <1>6, FileFacts, ContentFacts DEF IInv, OffsetInFile
  <1>7. CASE Close
    <2>1. file # NoFile /\ rd = Idle /\ rd' = Idle /\ file' = NoFile /\ UNCHANGED <<asked, dest>>
      BY <1>7 DEF Close
    <2>2. ps >= 0
      BY <1>6, <2>1
    <2> QED
      BY <1>3, <2>1, <2>2
  <1>8. CASE \E o \in Seeks : Seek(o)
    <2>1. PICK o \in Seeks : Seek(o)
      BY <1>8
    <2> DEFINE x == IF Sum(file.offset, o) > file.len THEN file.len ELSE o
    <2>2. /\ file # NoFile /\ rd = Idle /\ rd' = Idle /\ file' = [file EXCEPT !.offset = x]
          /\ UNCHANGED <<asked, dest>>
      BY <2>1 DEF Seek
    <2>3. \/ x = IF o > file.len THEN file.len ELSE o
          \/ o < file.len /\ file.offset + o > file.len
      <3>1. /\ file.offset \in Nat /\ file.len \in Nat /\ o \in Nat /\ Word \in Nat
            /\ file.offset + o < Word
        BY <1>6, <2>2, FileFacts, Sizes DEF IInv
      <3>2. Sum(file.offset, o) = file.offset + o
        BY <3>1, SumFacts
      <3> QED
        BY <3>1, <3>2
    <2> HIDE DEF x
    <2>4. file'.ref = file.ref /\ file'.len = file.len /\ file'.offset = x
      BY <1>6, <2>2
    <2>5. file' # NoFile
      <3>1. file.ref \in Nat /\ NoFile.ref = NONE /\ NONE \notin Nat
        BY <1>6, <2>2 DEF NoFile, NONE
      <3> QED
        BY <2>4, <3>1
    <2>6. file'.offset <= file'.len
      BY DEF IInv, OffsetInFile
    <2>7. Content(file') = Content(file)
      BY <2>4, ContentSame
    <2>8. /\ ct' = ct /\ as' = as /\ la' = la /\ ps = file.offset /\ ps' = x
          /\ Len(ct) = file.len /\ file.offset \in Nat /\ x <= file.len
      BY <1>6, <2>2, <2>4, <2>5, <2>6, <2>7
    <2>9. ps >= 0
      BY <2>8
    <2>10. CASE x = IF o > file.len THEN file.len ELSE o
      BY <1>2, <2>8, <2>9, <2>10
    <2>11. CASE o < file.len /\ file.offset + o > file.len
      BY <2>1, <2>11 DEF StraySeek
    <2> QED
      BY <2>3, <2>10, <2>11
  <1>9. CASE \E n \in Lens : ReadNothing(n)
    <2>1. PICK n \in Lens : ReadNothing(n)
      BY <1>9
    <2>2. /\ file # NoFile /\ rd = Idle /\ Clip(n) = 0 /\ asked' = n /\ dest' = <<>>
          /\ UNCHANGED <<file, rd>>
      BY <2>1 DEF ReadNothing
    <2>3. n = 0 \/ (file.offset + n > file.len /\ file.offset + 0 = file.len)
      BY <2>2, BeginFacts
    <2>4. /\ ct' = ct /\ ct = Content(file) /\ as' = n /\ ps = file.offset /\ ps' = file.offset
          /\ la' = <<>> /\ Len(ct) = file.len /\ file.offset \in Nat /\ file.len \in Nat
          /\ file.offset <= file.len /\ n \in Nat
      BY <1>6, <2>2, Sizes
    <2>5. ps >= 0 /\ ps' = IF ps + n > Len(ct) THEN Len(ct) ELSE ps + n
      BY <2>3, <2>4
    <2>6. la' = SubSeq(ct, ps + 1, ps')
      <3> DEFINE a == file.offset
                 t == la'
      <3>1. /\ file.len \in Nat /\ a \in Nat /\ a <= a /\ a <= file.len
            /\ t \in Seq(Int) /\ a + Len(t) = a
            /\ \A k \in 1 .. Len(t) : t[k] = Content(file)[a + k]
        <4>1. t = <<>> /\ a \in Nat /\ file.len \in Nat /\ a <= file.len
          BY <2>4
        <4> HIDE DEF a, t
        <4> QED
          BY <4>1
      <3> HIDE DEF a, t
      <3>2. t = SubSeq(Content(file), a + 1, a)
        BY <3>1, Part
      <3> QED
        BY <2>4, <3>2 DEF a, t
    <2> QED
      BY <1>1, <2>4, <2>5, <2>6
  <1>10. CASE \E n \in Lens : ReadBegin(n)
    <2>1. PICK n \in Lens : ReadBegin(n)
      BY <1>10
    <2>2. /\ file # NoFile /\ rd = Idle /\ file' = file
          /\ rd'.start = file.offset /\ rd'.old = dest /\ rd'.old_asked = asked /\ rd'.i = 0
      BY <2>1 DEF ReadBegin
    <2>3. rd' # Idle
      <3>1. Idle.i = -1
        BY DEF Idle, NONE
      <3> QED
        BY <2>2, <3>1
    <2> QED
      BY <1>0, <2>2, <2>3
  <1>11. CASE rd # Idle /\ rd' # Idle /\ \E junk \in Junk : ReadCluster(junk)
    <2>1. PICK junk \in Junk : ReadCluster(junk)
      BY <1>11
    <2>2. rd'.start = rd.start /\ rd'.old = rd.old /\ rd'.old_asked = rd.old_asked
      <3>1. rd \in [start : Nat, old : Seq(Int), old_asked : Nat, i : Nat, cluster : Nat,
                    begin : Nat, offset_begin : 0 .. ClusterSize - 1, end : Nat,
                    offset_end : 0 .. ClusterSize - 1, src_offset : Nat, src_len : Nat]
        BY <1>11 DEF IInv, RdType
      <3> QED
        BY <1>11, <2>1, <3>1 DEF ReadCluster
    <2>3. file # NoFile /\ file' # NoFile
      BY <1>11 DEF IInv, Reading
    <2>4. file'.ref = file.ref /\ file'.len = file.len
      BY <1>6, <2>1, <2>3 DEF ReadCluster
    <2>5. Content(file') = Content(file)
      BY <2>4, ContentSame
    <2> QED
      BY <1>0, <1>11, <2>2, <2>3, <2>5
  <1>12. CASE Next /\ rd # Idle /\ rd' = Idle
    <2>1. /\ asked' = asked /\ file'.ref = file.ref /\ file'.len = file.len /\ file' # NoFile
          /\ file'.offset = Stop /\ rd.start + Len(dest') = Stop /\ dest' \in Seq(Int)
          /\ \A k \in 1 .. Len(dest') : dest'[k] = Content(file)[rd.start + k]
      BY <1>12, EndsWhole
    <2>2. /\ file # NoFile /\ rd.start < Stop /\ Stop <= file.len /\ asked \in Lens
          /\ Stop = rd.start + asked \/ (rd.start + asked > file.len /\ Stop = file.len)
      BY <1>12 DEF IInv, Reading, Faithful
    <2>3. /\ rd.start \in Nat /\ Stop \in Nat /\ file.len \in Nat /\ asked \in Nat
          /\ Len(dest') \in Nat
      BY <1>6, <1>12, <2>1, <2>2, RdFields, StopFacts DEF IInv, Types
    <2>4. Content(file') = Content(file)
      BY <2>1, ContentSame
    <2>5. /\ ct' = ct /\ ct = Content(file) /\ as' = asked /\ ps = rd.start /\ ps' = Stop
          /\ la' = dest' /\ Len(ct) = file.len
      BY <1>6, <1>12, <2>1, <2>2, <2>4
    <2>6. ps >= 0 /\ ps' = IF ps + asked > Len(ct) THEN Len(ct) ELSE ps + asked
      BY <2>2, <2>3, <2>5
    <2>7. dest' = SubSeq(Content(file), rd.start + 1, Stop)
      <3> DEFINE a == rd.start
                 b == Stop
                 t == dest'
      <3>1. /\ file.len \in Nat /\ a \in Nat /\ b \in Nat /\ a <= b /\ b <= file.len
            /\ t \in Seq(Int) /\ a + Len(t) = b
            /\ \A k \in 1 .. Len(t) : t[k] = Content(file)[a + k]
        BY <2>1, <2>2, <2>3
      <3> HIDE DEF a, b, t
      <3>2. t = SubSeq(Content(file), a + 1, b)
        BY <3>1, Part
      <3> QED
        BY <3>2 DEF a, b, t
    <2> QED
      BY <1>1, <2>2, <2>5, <2>6, <2>7
  <1>13. file = NoFile => rd = Idle
    BY ReadingIdle
  <1>14. CASE (\E path \in Paths : OpenDir(path)) \/ CloseDir \/ ReadDir \/ UNCHANGED vars
    BY <1>4, <1>14 DEF OpenDir, CloseDir, ReadDir, vars
  <1>15. CASE \E mnt \in Mounts : fs_mount(mnt)
    BY <1>4, <1>15 DEF fs_mount
  <1>16. CASE \E junk \in Junk : ReadCluster(junk)
    BY <1>11, <1>12, <1>16 DEF ReadCluster, Next
  <1>17. CASE ReadInvalid
    BY <1>12, <1>17 DEF ReadInvalid, Next
  <1> QED
    BY <1>5, <1>7, <1>8, <1>9, <1>10, <1>14, <1>15, <1>16, <1>17 DEF Next

\* However the clusters of a file are scattered over the volume, and in
\* whatever order it is read, sought, closed and opened again, fat12_read gives
\* the bytes of the file from where the last read or seek left off, when no
\* read is longer than a cluster and the chains are sound; and fat12_seek goes
\* where it is told, but for the seeks whose sum with the offset exceeds the file.
THEOREM ReadsFileSafe ==
    ASSUME NoWrap, SoundChains, ShortReads
    PROVE  Spec => ReadsFile
  <1>1. Init => F!Init /\ Faithful
    BY DEF Init, F!Init, Faithful
  <1>2. IInv /\ IInv' /\ Faithful /\ [Next]_vars => Faithful'
    BY FaithfulStep
  <1>3. IInv /\ IInv' /\ Faithful /\ [Next]_vars => [F!Next \/ StraySeek]_(F!vars)
    BY StepRefines
  <1>4. Spec => Init /\ [][Next]_vars
    BY DEF Spec
  <1>5. Spec => F!Init /\ [][F!Next \/ StraySeek]_(F!vars)
    BY <1>1, <1>2, <1>3, <1>4, IInvInvariant, PTL
  <1> QED
    BY <1>5 DEF ReadsFile

=============================================================================

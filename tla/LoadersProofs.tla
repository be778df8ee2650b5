--------------------------- MODULE LoadersProofs ----------------------------
(***************************************************************************)
(* What the walks through directories, the names of entries, the ELF       *)
(* loader and the boot loader do is right for every volume, every object   *)
(* file and every drive that they are made for.                            *)
(***************************************************************************)
EXTENDS Loaders, FiniteSetTheorems, SequenceTheorems, WellFoundedInduction, TLAPS

\* A set of naturals with 0 and the successor of each of its members has all.
LEMMA SetInduction ==
    ASSUME NEW S, 0 \in S, \A n \in S : n \in Nat => n + 1 \in S
    PROVE  Nat \subseteq S
  <1> DEFINE R == OpToRel(<, Nat)
             T == Nat \ S
  <1>1. IsWellFoundedOn(R, Nat)
    BY NatLessThanWellFounded
  <1>2. \A x, y \in Nat : y < x => <<y, x>> \in R
    BY DEF OpToRel
  <1> HIDE DEF R
  <1> SUFFICES ASSUME T # {} PROVE FALSE
    OBVIOUS
  <1>3. T \subseteq Nat
    OBVIOUS
  <1>4. PICK x \in T : \A y \in T : ~(<<y, x>> \in R)
    BY <1>1, <1>3, WFMin
  <1>5. x \in Nat /\ x # 0 /\ x - 1 \in Nat /\ x - 1 < x
    OBVIOUS
  <1>6. x - 1 \in S
    BY <1>2, <1>4, <1>5
  <1> QED
    BY <1>5, <1>6

\* A set of naturals that is not empty has a least member.
LEMMA LeastMember ==
    ASSUME NEW I \in SUBSET Nat, I # {}
    PROVE  Min(I) \in I /\ \A n \in I : Min(I) <= n
  <1> DEFINE R == OpToRel(<, Nat)
  <1>1. IsWellFoundedOn(R, Nat)
    BY NatLessThanWellFounded
  <1>2. \A x, y \in Nat : y < x => <<y, x>> \in R
    BY DEF OpToRel
  <1> HIDE DEF R
  <1>3. PICK x \in I : \A y \in I : ~(<<y, x>> \in R)
    BY <1>1, WFMin
  <1>4. ASSUME NEW y \in I PROVE x <= y
    <2>1. x \in Nat /\ y \in Nat /\ ~(y < x)
      BY <1>2, <1>3
    <2> QED
      BY <2>1
  <1> QED
    BY <1>3, <1>4 DEF Min

-----------------------------------------------------------------------------
(***************************************************************************)
(* FatWalk.                                                                *)
(***************************************************************************)

\* f[n] is the first n of the sequences, one after the other.
Flattens(f, seqs, n) ==
    /\ f = [m \in 1 .. n |-> f[m]]
    /\ \A m \in 1 .. n : f[m] = IF m = 1 THEN seqs[m] ELSE f[m - 1] \o seqs[m]

LEMMA FlattensExists ==
    ASSUME NEW T, NEW seqs \in Seq(Seq(T)), Len(seqs) > 0
    PROVE  \E f : Flattens(f, seqs, Len(seqs))
  <1> DEFINE S == {n \in Nat : n + 1 <= Len(seqs) => \E f : Flattens(f, seqs, n + 1)}
  <1>0. Len(seqs) \in Nat
    OBVIOUS
  <1>1. 0 \in S
    <2>1. Flattens([m \in 1 .. 1 |-> seqs[1]], seqs, 0 + 1)
      BY DEF Flattens
    <2> QED
      BY <2>1
  <1>2. ASSUME NEW n \in S, n \in Nat PROVE n + 1 \in S
    <2> SUFFICES ASSUME (n + 1) + 1 <= Len(seqs) PROVE \E f : Flattens(f, seqs, (n + 1) + 1)
      OBVIOUS
    <2>1. PICK f : Flattens(f, seqs, n + 1)
      BY <1>0, <1>2
    <2> DEFINE g == [m \in 1 .. n + 2 |-> IF m = n + 2 THEN f[n + 1] \o seqs[n + 2] ELSE f[m]]
    <2>2. \A m \in 1 .. n + 1 : f[m] = IF m = 1 THEN seqs[m] ELSE f[m - 1] \o seqs[m]
      BY <2>1 DEF Flattens
    <2>3. ASSUME NEW m \in 1 .. n + 2
          PROVE  g[m] = IF m = 1 THEN seqs[m] ELSE g[m - 1] \o seqs[m]
      <3>1. CASE m = n + 2
        <4>0. n + 2 \in 1 .. n + 2 /\ n + 1 \in 1 .. n + 2 /\ n + 1 # n + 2 /\ (n + 2) - 1 = n + 1 /\ m # 1
          BY <1>2, <3>1
        <4>1. g[n + 2] = f[n + 1] \o seqs[n + 2] /\ g[n + 1] = f[n + 1]
          BY <4>0
        <4> QED
          BY <4>0, <4>1, <3>1
      <3>2. CASE m # n + 2 /\ m # 1
        <4>1. m \in 1 .. n + 1 /\ m - 1 \in 1 .. n + 2 /\ m - 1 # n + 2
          BY <1>2, <3>2
        <4>2. g[m] = f[m] /\ g[m - 1] = f[m - 1]
          BY <4>1, <3>2
        <4> QED
          BY <4>1, <4>2, <2>2, <3>2
      <3>3. CASE m # n + 2 /\ m = 1
        <4>1. g[m] = f[m] /\ m \in 1 .. n + 1
          BY <1>2, <3>3
        <4> QED
          BY <4>1, <2>2, <3>3
      <3> QED
        BY <3>1, <3>2, <3>3
    <2>4. g = [m \in 1 .. n + 2 |-> g[m]] /\ (n + 1) + 1 = n + 2
      BY <1>2
    <2>5. Flattens(g, seqs, (n + 1) + 1)
      <3> HIDE DEF g
      <3> QED
        BY <2>3, <2>4 DEF Flattens
    <2> QED
      BY <2>5
  <1>3. Nat \subseteq S
    <2> HIDE DEF S
    <2> QED
      BY <1>1, <1>2, SetInduction
  <1>4. Len(seqs) - 1 \in Nat /\ (Len(seqs) - 1) + 1 = Len(seqs)
    BY <1>0
  <1>5. Len(seqs) - 1 \in S
    BY <1>3, <1>4
  <1> QED
    BY <1>0, <1>4, <1>5

LEMMA FlattenUnfolds ==
    ASSUME NEW T, NEW seqs \in Seq(Seq(T)), Len(seqs) > 0
    PROVE  \E f : Flattens(f, seqs, Len(seqs)) /\ FlattenSeq(seqs) = f[Len(seqs)]
  <1> DEFINE N    == Len(seqs)
             D(d) == [m \in 1 .. N |-> IF m = 1 THEN seqs[m] ELSE d[m - 1] \o seqs[m]]
             c    == CHOOSE d : d = D(d)
  <1>1. N \in Nat /\ N # 0
    OBVIOUS
  <1>2. FlattenSeq(seqs) = c[N]
    BY <1>1 DEF FlattenSeq
  <1>3. PICK f : Flattens(f, seqs, N)
    BY FlattensExists
  <1>4. f = D(f)
    BY <1>3 DEF Flattens
  <1>5. c = D(c)
    BY <1>4
  <1>6. Flattens(c, seqs, N)
    <2> HIDE DEF c
    <2> QED
      BY <1>5 DEF Flattens
  <1> QED
    BY <1>2, <1>6

\* A sequence of sequences flattens to a sequence of their elements; a single
\* one to itself.
LEMMA FlattenFacts ==
    ASSUME NEW T, NEW seqs \in Seq(Seq(T)), Len(seqs) > 0
    PROVE  /\ FlattenSeq(seqs) \in Seq(T)
           /\ Len(seqs) = 1 => FlattenSeq(seqs) = seqs[1]
  <1>1. PICK f : Flattens(f, seqs, Len(seqs)) /\ FlattenSeq(seqs) = f[Len(seqs)]
    BY FlattenUnfolds
  <1>2. \A m \in 1 .. Len(seqs) : f[m] = IF m = 1 THEN seqs[m] ELSE f[m - 1] \o seqs[m]
    BY <1>1 DEF Flattens
  <1> DEFINE S == {n \in Nat : n + 1 <= Len(seqs) => f[n + 1] \in Seq(T)}
  <1>0. Len(seqs) \in Nat /\ \A m \in 1 .. Len(seqs) : seqs[m] \in Seq(T)
    OBVIOUS
  <1>3. 0 \in S
    BY <1>0, <1>2
  <1>4. ASSUME NEW n \in S, n \in Nat PROVE n + 1 \in S
    <2> SUFFICES ASSUME (n + 1) + 1 <= Len(seqs) PROVE f[(n + 1) + 1] \in Seq(T)
      OBVIOUS
    <2>1. (n + 1) + 1 \in 1 .. Len(seqs) /\ (n + 1) + 1 # 1 /\ ((n + 1) + 1) - 1 = n + 1
      BY <1>0, <1>4
    <2>2. f[n + 1] \in Seq(T) /\ seqs[(n + 1) + 1] \in Seq(T)
      BY <1>0, <1>4, <2>1
    <2>3. f[(n + 1) + 1] = f[n + 1] \o seqs[(n + 1) + 1]
      BY <1>2, <2>1
    <2> QED
      BY <2>2, <2>3, ConcatProperties
  <1>5. Nat \subseteq S
    <2> HIDE DEF S
    <2> QED
      BY <1>3, <1>4, SetInduction
  <1>6. Len(seqs) - 1 \in Nat /\ (Len(seqs) - 1) + 1 = Len(seqs)
    BY <1>0
  <1>7. Len(seqs) - 1 \in S
    BY <1>5, <1>6
  <1>8. f[Len(seqs)] \in Seq(T)
    BY <1>0, <1>6, <1>7
  <1>9. Len(seqs) = 1 => f[Len(seqs)] = seqs[1]
    BY <1>0, <1>2
  <1> QED
    BY <1>1, <1>8, <1>9

-----------------------------------------------------------------------------
\* An entry as a directory holds it.
Leading ==
    {e \in DirEntry : e.name # "" /\ (e.attributes = DIRECTORY => e.cluster \in DOMAIN Chain)}

Kind == IF op = "open" THEN ARCHIVE ELSE DIRECTORY

Things == [block : Nat, kind : {DIRECTORY, ARCHIVE, "listing"}, ref : Nat]

WalkTypes ==
    /\ next \in Nat \ {0} /\ base \in 1 .. next /\ j \in Nat \ {0}
    /\ path \in Seq(STRING) /\ content \in Seq(Leading)
    /\ entry \in Nat /\ cluster \in Nat
    /\ held \subseteq Things
    /\ \A h \in held : h.kind = DIRECTORY => h.ref \in DOMAIN Chain
    /\ pc # "idle" => op \in {"open", "opendir"}

\* Where the block of the directory is, and which blocks the call has allocated.
Owned ==
    /\ \A g, h \in held : g.block = h.block => g = h
    /\ pc \in {"walk", "use", "free"} =>
          /\ entries \in live /\ entries \notin Blocks(held)
          /\ \A b \in live : b >= base => b = entries \/ b \in Blocks(held)
    /\ pc = "found" => \A b \in live : b >= base => b \in Blocks(held)

\* What was found is of the kind that was looked for.
FoundEntry ==
    /\ pc = "use" => entry \in 1 .. Len(content) /\ content[entry].attributes = Wanted
    /\ pc \in {"free", "found"} /\ ~IsEnd => cluster \in DOMAIN Chain

WalkInv == TypeOK /\ WalkTypes /\ Owned /\ FoundEntry /\ NoUseAfterFree

LEMMA FilledFacts ==
    ASSUME NEW d \in DOMAIN Chain
    PROVE  /\ FlattenSeq(Filled(d)) \in Seq(Leading)
           /\ Len(Chain[d]) = 1 => FlattenSeq(Filled(d)) = Whole(d)
           /\ Whole(d) \in Seq(Leading)
  <1> DEFINE c == Chain[d]
             N == Len(c)
             W == [n \in DOMAIN c |-> Entries[c[n]]]
  <1>1. c \in Seq(DOMAIN Entries) /\ c # <<>>
    BY FatWalkAssumption
  <1>2. N \in Nat /\ N > 0 /\ DOMAIN c = 1 .. N /\ \A n \in 1 .. N : c[n] \in DOMAIN Entries
    BY <1>1
  <1>3. \A n \in 1 .. N : Entries[c[n]] \in Seq(Leading)
    <2> SUFFICES ASSUME NEW x \in DOMAIN Entries PROVE Entries[x] \in Seq(Leading)
      BY <1>2
    <2>1. Entries[x] \in Seq(DirEntry)
          /\ \A n \in DOMAIN Entries[x] :
                /\ Entries[x][n].name # ""
                /\ Entries[x][n].attributes = DIRECTORY => Entries[x][n].cluster \in DOMAIN Chain
      BY FatWalkAssumption
    <2> DEFINE s == Entries[x]
    <2> HIDE DEF s
    <2>0. s \in Seq(DirEntry)
      BY <2>1 DEF s
    <2>2. DOMAIN s = 1 .. Len(s) /\ Len(s) \in Nat /\ \A n \in DOMAIN s : s[n] \in DirEntry
      BY <2>0
    <2>3. \A n \in 1 .. Len(s) : s[n] \in Leading
      BY <2>1, <2>2 DEF Leading, s
    <2>4. s = [n \in 1 .. Len(s) |-> s[n]]
      BY <2>0, <2>2
    <2>5. s \in Seq(Leading)
      BY <2>2, <2>3, <2>4
    <2> QED
      BY <2>5 DEF s
  <1>4. <<Unwritten>> \in Seq(Leading)
    <2>1. Unwritten \in DirEntry
      BY DEF DirEntry
    <2>3. Unwritten.name = "?" /\ Unwritten.attributes = "?"
      BY DEF Unwritten
    <2>2. Unwritten \in Leading
      BY <2>1, <2>3 DEF Leading, DIRECTORY
    <2> QED
      BY <2>2
  <1>5. Filled(d) = [n \in 1 .. N |-> IF n = 1 THEN Entries[c[1]] ELSE <<Unwritten>>]
    BY <1>2 DEF Filled
  <1>6. Filled(d) \in Seq(Seq(Leading)) /\ Len(Filled(d)) = N
    BY <1>2, <1>3, <1>4, <1>5
  <1>7. W \in Seq(Seq(Leading)) /\ Len(W) = N
    BY <1>2, <1>3
  <1>8. Whole(d) = FlattenSeq(W)
    BY DEF Whole
  <1>9. FlattenSeq(Filled(d)) \in Seq(Leading) /\ (N = 1 => FlattenSeq(Filled(d)) = Filled(d)[1])
    BY <1>2, <1>6, FlattenFacts
  <1>10. FlattenSeq(W) \in Seq(Leading) /\ (N = 1 => FlattenSeq(W) = W[1])
    <2> HIDE DEF W
    <2> QED
      BY <1>2, <1>7, FlattenFacts
  <1>11. Filled(d)[1] = W[1]
    BY <1>2, <1>5
  <1> QED
    BY <1>8, <1>9, <1>10, <1>11

LEMMA PositionFacts ==
    ASSUME content \in Seq(Leading)
    PROVE  /\ Position \in 0 .. Len(content)
           /\ Position # 0 => content[Position].attributes = Wanted
  <1> DEFINE I == {n \in 1 .. Len(content) : content[n].attributes = Wanted /\ content[n].name = Name}
  <1>1. Position = IF I # {} THEN Min(I) ELSE 0
    BY DEF Position, SelectInSeq
  <1>2. I \in SUBSET Nat /\ Len(content) \in Nat
    OBVIOUS
  <1>3. I # {} => Min(I) \in I
    <2> HIDE DEF I
    <2> QED
      BY <1>2, LeastMember
  <1> QED
    BY <1>1, <1>2, <1>3

\* An entry's number of a cluster.
LEMMA LeadingFacts ==
    ASSUME NEW e \in Leading
    PROVE  /\ e.cluster \in Nat /\ e.name # ""
           /\ e.attributes = DIRECTORY => e.cluster \in DOMAIN Chain
  <1>0. e \in DirEntry /\ e.name # "" /\ (e.attributes = DIRECTORY => e.cluster \in DOMAIN Chain)
    BY DEF Leading
  <1>1. CASE e = Unwritten
    <2>1. e.cluster = 0
      BY <1>1 DEF Unwritten
    <2>2. e.cluster \in Nat
      BY <2>1
    <2> QED
      BY <1>0, <2>2, Zenon
  <1>2. CASE e \in [name : STRING, attributes : STRING, cluster : Nat]
    BY <1>0, <1>2
  <1> QED
    BY <1>0, <1>1, <1>2 DEF DirEntry

LEMMA WalkConstants == MaxCalls \in Nat /\ 0 \in DOMAIN Chain /\ DOMAIN Chain \subseteq Nat
  BY FatWalkAssumption

\* Reading a directory of one cluster stores nothing elsewhere.
LEMMA WalkTame ==
    ASSUME SingleClusters, NEW d \in DOMAIN Chain
    PROVE  ~Wild(d)
  <1>1. Len(Chain[d]) = 1
    BY DEF SingleClusters
  <1> QED
    BY <1>1 DEF Wild

LEMMA WalkInit == Init => WalkInv
  <1> SUFFICES ASSUME Init PROVE WalkInv
    OBVIOUS
  <1>1. TypeOK
    <2>1. Blocks(held) = {}
      BY DEF Init, Blocks
    <2> QED
      BY <2>1, WalkConstants DEF Init, TypeOK, NULL
  <1>2. WalkTypes
    BY DEF Init, WalkTypes, NULL
  <1>3. Owned /\ FoundEntry /\ NoUseAfterFree
    BY DEF Init, Owned, FoundEntry, NoUseAfterFree
  <1> QED
    BY <1>1, <1>2, <1>3 DEF WalkInv

\* A call of fat12_open or fat12_opendir that starts to walk.
LEMMA WalkStarts ==
    ASSUME SingleClusters, WalkInv, NEW p \in Paths, Open(p) \/ OpenDir(p)
    PROVE  WalkInv'
  <1>0. /\ pc = "idle" /\ calls < MaxCalls
        /\ calls' = calls + 1 /\ j' = 1 /\ base' = next
        /\ op' \in {"open", "opendir"} /\ path' = p /\ pc' = "walk"
        /\ entries' = next /\ live' = live \cup {next} /\ next' = next + 1
        /\ content' = FlattenSeq(Filled(0)) /\ fault' = (fault \/ Wild(0))
        /\ entry' = entry /\ cluster' = cluster /\ held' = held
        /\ result' = result
    BY DEF Open, OpenDir, Call, Read
  <1>1. content' \in Seq(Leading)
    BY <1>0, FilledFacts, FatWalkAssumption
  <1>2. p \in Seq(STRING)
    BY FatWalkAssumption
  <1>3. TypeOK'
    <2>1. next \in Nat \ {0} /\ live \subseteq 1 .. next - 1 /\ calls \in 0 .. MaxCalls
      BY DEF WalkInv, WalkTypes, TypeOK
    <2>2. live' \subseteq 1 .. next' - 1 /\ entries' \in 0 .. next' - 1 /\ calls' \in 0 .. MaxCalls
      <3>1. live' \subseteq 1 .. next' - 1
        BY <1>0, <2>1
      <3>2. entries' \in 0 .. next' - 1
        BY <1>0, <2>1
      <3>3. calls' \in 0 .. MaxCalls
        BY <1>0, <2>1, WalkConstants
      <3> QED
        BY <3>1, <3>2, <3>3
    <2>3. Blocks(held)' = Blocks(held)
      BY <1>0 DEF Blocks
    <2> QED
      BY <1>0, <2>2, <2>3 DEF WalkInv, TypeOK
  <1>4. WalkTypes'
    BY <1>0, <1>1, <1>2 DEF WalkInv, WalkTypes
  <1>5. Owned'
    <2>1. next \notin live /\ Blocks(held) \subseteq live /\ \A b \in live : b \in Int /\ b < next
      BY DEF WalkInv, WalkTypes, TypeOK
    <2> QED
      BY <1>0, <2>1 DEF WalkInv, WalkTypes, Owned, Blocks
  <1>6. FoundEntry' /\ NoUseAfterFree'
    <2>1. ~Wild(0)
      BY WalkConstants, WalkTame
    <2>2. ~fault'
      BY <1>0, <2>1, Zenon DEF WalkInv, NoUseAfterFree
    <2> QED
      BY <1>0, <2>2 DEF WalkInv, FoundEntry, NoUseAfterFree
  <1> QED
    BY <1>3, <1>4, <1>5, <1>6 DEF WalkInv

\* Steps that change neither blocks nor what callers have.
LEMMA WalkStays ==
    ASSUME WalkInv,
           (Refuse \/ NotFound \/ Found \/ Return)
    PROVE  WalkInv'
  <1>0. UNCHANGED <<op, path, j, entries, content, cluster, live, next, held, base, fault, calls>>
    BY DEF Refuse, NotFound, Found, Return, Fail
  <1> USE DEF WalkInv
  <1>1. CASE Refuse \/ NotFound
    <2>1. pc' = "idle" /\ result' = -1 /\ entry' = entry
      BY <1>1 DEF Refuse, NotFound, Fail
    <2> QED
      BY <1>0, <2>1 DEF WalkTypes, TypeOK, Owned, FoundEntry, NoUseAfterFree
  <1>2. CASE Found
    <2>1. pc = "walk" /\ pc' = "use" /\ result' = result /\ entry' = Position /\ Position # 0
      BY <1>2 DEF Found, Order
    <2>2. content \in Seq(Leading)
      BY DEF WalkTypes
    <2>3. Position \in 1 .. Len(content) /\ content[Position].attributes = Wanted
      BY <2>1, <2>2, PositionFacts
    <2>4. Wanted' = Wanted
      BY <1>0 DEF Wanted, IsEnd
    <2> QED
      BY <1>0, <2>1, <2>3, <2>4 DEF WalkTypes, TypeOK, Owned, FoundEntry, NoUseAfterFree
  <1>3. CASE Return
    <2>1. pc' = "idle" /\ result' = cluster /\ entry' = entry
      BY <1>3 DEF Return
    <2> QED
      BY <1>0, <2>1 DEF WalkTypes, TypeOK, Owned, FoundEntry, NoUseAfterFree
  <1> QED
    BY <1>1, <1>2, <1>3

LEMMA WalkUses ==
    ASSUME WalkInv, UseEntry
    PROVE  WalkInv'
  <1> USE DEF WalkInv
  <1>0. /\ pc = "use" /\ pc' = "free" /\ fault' = (fault \/ entries \notin live)
        /\ cluster' = content[entry].cluster
        /\ UNCHANGED <<op, path, j, entries, content, entry, base, calls, result>>
    BY DEF UseEntry, After, Order
  <1>1. content[entry] \in Leading /\ content[entry].attributes = Wanted /\ entry \in 1 .. Len(content)
    BY <1>0 DEF WalkTypes, FoundEntry
  <1>2. cluster' \in Nat /\ (Wanted = DIRECTORY => cluster' \in DOMAIN Chain)
    BY <1>0, <1>1, LeadingFacts
  <1>3. fault' = FALSE
    BY <1>0, Zenon DEF Owned, NoUseAfterFree
  <1>4. FoundEntry' /\ NoUseAfterFree'
    BY <1>0, <1>2, <1>3 DEF FoundEntry, NoUseAfterFree, IsEnd, Wanted
  <1>5. CASE IsEnd
    <2> DEFINE t == Thing(next, Wanted, cluster')
    <2>1. live' = live \cup {next} /\ next' = next + 1 /\ held' = held \cup {t}
      BY <1>5 DEF UseEntry
    <2>2. t \in Things /\ t.block = next /\ t.kind = Wanted /\ t.ref = cluster'
      BY <1>2 DEF Thing, Things, WalkTypes, Wanted
    <2>3. Blocks(held') = Blocks(held) \cup {next}
      BY <2>1, <2>2 DEF Blocks
    <2> HIDE DEF t
    <2>4. next \notin live /\ \A b \in live : b \in Int /\ b < next
      BY DEF WalkTypes, TypeOK
    <2>5. TypeOK'
      <3>1. next \in Nat \ {0} /\ live \subseteq 1 .. next - 1 /\ entries \in 0 .. next - 1
        BY DEF WalkTypes, TypeOK
      <3>2. live' \subseteq 1 .. next' - 1 /\ entries' \in 0 .. next' - 1
        BY <1>0, <2>1, <3>1
      <3> QED
        BY <1>0, <2>1, <2>3, <3>2 DEF TypeOK
    <2>6. WalkTypes'
      BY <1>0, <1>2, <2>1, <2>2 DEF WalkTypes
    <2>7. Owned'
      <3>1. \A h \in held : h.block # next
        BY <2>4 DEF TypeOK, Blocks
      <3> QED
        BY <1>0, <2>1, <2>2, <2>3, <2>4, <3>1 DEF Owned, TypeOK
    <2> QED
      BY <1>4, <2>5, <2>6, <2>7
  <1>6. CASE ~IsEnd
    <2>1. UNCHANGED <<live, held, next>>
      BY <1>6 DEF UseEntry
    <2> QED
      BY <1>0, <1>2, <1>4, <2>1 DEF WalkTypes, TypeOK, Owned
  <1> QED
    BY <1>5, <1>6

LEMMA WalkFrees ==
    ASSUME WalkInv, FreeEntries
    PROVE  WalkInv'
  <1> USE DEF WalkInv
  <1>0. /\ pc = "free" /\ pc' = "found" /\ fault' = (fault \/ entries \notin live)
        /\ live' = live \ {entries}
        /\ UNCHANGED <<op, path, j, entries, content, entry, cluster, next, held, base, calls, result>>
    BY DEF FreeEntries, After, Order, Freed
  <1>1. fault' = FALSE
    BY <1>0, Zenon DEF Owned, NoUseAfterFree
  <1>2. FoundEntry' /\ NoUseAfterFree'
    BY <1>0, <1>1 DEF FoundEntry, NoUseAfterFree, IsEnd
  <1>3. TypeOK'
    BY <1>0 DEF TypeOK, Owned
  <1>4. WalkTypes'
    BY <1>0 DEF WalkTypes
  <1>5. Owned'
    BY <1>0 DEF Owned
  <1> QED
    BY <1>2, <1>3, <1>4, <1>5

LEMMA WalkDescends ==
    ASSUME SingleClusters, WalkInv, Descend
    PROVE  WalkInv'
  <1> USE DEF WalkInv
  <1>0. /\ pc = "found" /\ ~IsEnd /\ j' = j + 1 /\ pc' = "walk"
        /\ entries' = next /\ live' = live \cup {next} /\ next' = next + 1
        /\ content' = FlattenSeq(Filled(cluster)) /\ fault' = (fault \/ Wild(cluster))
        /\ UNCHANGED <<op, path, entry, cluster, held, base, calls, result>>
    BY DEF Descend, Read
  <1>1. content' \in Seq(Leading)
    BY <1>0, FilledFacts DEF FoundEntry
  <1>2. next \notin live /\ Blocks(held) \subseteq live /\ \A b \in live : b \in Int /\ b < next
    BY DEF WalkTypes, TypeOK
  <1>3. TypeOK'
    <2>1. next \in Nat \ {0} /\ live \subseteq 1 .. next - 1
      BY DEF WalkTypes, TypeOK
    <2>2. live' \subseteq 1 .. next' - 1 /\ entries' \in 0 .. next' - 1
      <3>1. live' \subseteq 1 .. next' - 1
        BY <1>0, <2>1
      <3>2. entries' \in 0 .. next' - 1
        BY <1>0, <2>1
      <3> QED
        BY <3>1, <3>2
    <2>3. Blocks(held)' = Blocks(held)
      BY <1>0 DEF Blocks
    <2> QED
      BY <1>0, <2>2, <2>3 DEF TypeOK
  <1>4. WalkTypes'
    BY <1>0, <1>1 DEF WalkTypes
  <1>5. Owned'
    BY <1>0, <1>2 DEF WalkTypes, Owned
  <1>6. FoundEntry' /\ NoUseAfterFree'
    <2>1. ~Wild(cluster)
      BY <1>0, WalkTame DEF FoundEntry
    <2>2. ~fault'
      BY <1>0, <2>1, Zenon DEF NoUseAfterFree
    <2> QED
      BY <1>0, <2>2 DEF FoundEntry, NoUseAfterFree
  <1> QED
    BY <1>3, <1>4, <1>5, <1>6

LEMMA WalkOpensRoot ==
    ASSUME WalkInv, OpenRoot
    PROVE  WalkInv'
  <1> USE DEF WalkInv
  <1> DEFINE t == Thing(next, DIRECTORY, 0)
  <1>0. /\ pc = "idle" /\ calls < MaxCalls /\ calls' = calls + 1 /\ op' = "opendir" /\ path' = <<>>
        /\ live' = live \cup {next} /\ held' = held \cup {t} /\ next' = next + 1 /\ result' = 0
        /\ UNCHANGED <<pc, j, entries, content, entry, cluster, base, fault>>
    BY DEF OpenRoot
  <1>1. t \in Things /\ t.block = next /\ t.ref = 0
    BY DEF WalkTypes, Thing, Things
  <1> HIDE DEF t
  <1>2. next \notin live /\ \A b \in live : b \in Int /\ b < next
    BY DEF WalkTypes, TypeOK
  <1>3. Blocks(held') = Blocks(held) \cup {next}
    BY <1>0, <1>1 DEF Blocks
  <1>4. TypeOK'
    <2>1. next \in Nat \ {0} /\ live \subseteq 1 .. next - 1 /\ entries \in 0 .. next - 1 /\ calls \in 0 .. MaxCalls
      BY DEF WalkTypes, TypeOK
    <2>2. live' \subseteq 1 .. next' - 1 /\ entries' \in 0 .. next' - 1 /\ calls' \in 0 .. MaxCalls
      BY <1>0, <2>1, WalkConstants
    <2> QED
      BY <1>0, <1>3, <2>2 DEF TypeOK
  <1>5. WalkTypes'
    BY <1>0, <1>1, WalkConstants DEF WalkTypes
  <1>6. Owned'
    <2>1. \A h \in held : h.block # next
      BY <1>2 DEF TypeOK, Blocks
    <2> QED
      BY <1>0, <1>1, <2>1 DEF Owned
  <1>7. FoundEntry' /\ NoUseAfterFree'
    BY <1>0 DEF FoundEntry, NoUseAfterFree
  <1> QED
    BY <1>4, <1>5, <1>6, <1>7

LEMMA WalkReadsDir ==
    ASSUME SingleClusters, WalkInv, NEW h \in held, h.kind = DIRECTORY, ReadDir(h)
    PROVE  WalkInv'
  <1> USE DEF WalkInv
  <1> DEFINE t == Thing(next + 1, "listing", 0)
  <1>0. PICK bs \in {{}, {next + 1}} :
        /\ pc = "idle" /\ calls < MaxCalls /\ calls' = calls + 1 /\ j' = 1 /\ base' = next
        /\ op' = "readdir" /\ entries' = next /\ content' = FlattenSeq(Filled(h.ref))
        /\ fault' = (fault \/ Wild(h.ref)) /\ live' = live \cup {next} \cup bs
        /\ held' = held \cup {Thing(b, "listing", 0) : b \in bs}
        /\ next' = next + 2
        /\ UNCHANGED <<pc, path, entry, cluster, result>>
    BY DEF ReadDir, Call
  <1>1. content' \in Seq(Leading)
    BY <1>0, FilledFacts DEF WalkTypes
  <1>2. next \in Nat /\ next \notin live /\ next + 1 \notin live /\ \A b \in live : b \in Int /\ b < next
    BY DEF WalkTypes, TypeOK
  <1>3. \A g \in held' : g \in held \/ (g = t /\ next + 1 \in bs)
    BY <1>0
  <1>4. t \in Things /\ t.block = next + 1 /\ t.kind = "listing"
    BY <1>2 DEF Thing, Things
  <1> HIDE DEF t
  <1>5. Blocks(held') \subseteq Blocks(held) \cup bs
    BY <1>3, <1>4 DEF Blocks
  <1>6. TypeOK'
    <2>1. bs \subseteq {next + 1}
      BY <1>0
    <2> QED
      <3>1. next \in Nat \ {0} /\ live \subseteq 1 .. next - 1 /\ calls \in 0 .. MaxCalls
        BY DEF WalkTypes, TypeOK
      <3>2. live' \subseteq 1 .. next' - 1 /\ entries' \in 0 .. next' - 1 /\ calls' \in 0 .. MaxCalls
        <4>1. live' \subseteq 1 .. next' - 1
          BY <1>0, <2>1, <3>1
        <4>2. entries' \in 0 .. next' - 1
          BY <1>0, <3>1
        <4>3. calls' \in 0 .. MaxCalls
          BY <1>0, <3>1, WalkConstants
        <4> QED
          BY <4>1, <4>2, <4>3
      <3>3. Blocks(held)' \subseteq live'
        BY <1>0, <1>5 DEF TypeOK, Blocks
      <3> QED
        BY <1>0, <3>2, <3>3 DEF TypeOK
  <1>7. WalkTypes'
    <2>1. held' \subseteq Things
      BY <1>3, <1>4 DEF WalkTypes
    <2>2. \A g \in held' : g.kind = DIRECTORY => g.ref \in DOMAIN Chain
      BY <1>3, <1>4 DEF WalkTypes, DIRECTORY
    <2> QED
      BY <1>0, <1>1, <1>2, <2>1, <2>2 DEF WalkTypes
  <1>8. Owned'
    <2>1. \A g \in held : g.block # next + 1
      BY <1>2 DEF TypeOK, Blocks
    <2> QED
      BY <1>0, <1>3, <1>4, <2>1 DEF Owned
  <1>9. FoundEntry' /\ NoUseAfterFree'
    <2>1. ~Wild(h.ref)
      BY WalkTame DEF WalkTypes
    <2>2. ~fault'
      BY <1>0, <2>1, Zenon DEF NoUseAfterFree
    <2> QED
      BY <1>0, <2>2 DEF FoundEntry, NoUseAfterFree
  <1> QED
    BY <1>6, <1>7, <1>8, <1>9

LEMMA WalkCloses ==
    ASSUME WalkInv, NEW h \in held, Close(h)
    PROVE  WalkInv'
  <1> USE DEF WalkInv
  <1>0. /\ pc = "idle" /\ held' = held \ {h} /\ live' = live \ {h.block}
        /\ UNCHANGED <<pc, op, path, j, entries, content, entry, cluster, next, base, fault, calls,
                       result>>
    BY DEF Close
  <1>1. Blocks(held') \subseteq live'
    BY <1>0 DEF Owned, TypeOK, Blocks
  <1>2. TypeOK'
    BY <1>0, <1>1 DEF TypeOK
  <1>3. WalkTypes'
    BY <1>0 DEF WalkTypes
  <1>4. Owned' /\ FoundEntry' /\ NoUseAfterFree'
    BY <1>0 DEF Owned, FoundEntry, NoUseAfterFree
  <1> QED
    BY <1>2, <1>3, <1>4

LEMMA WalkStutters ==
    ASSUME WalkInv, UNCHANGED vars
    PROVE  WalkInv'
  BY DEF WalkInv, vars, TypeOK, WalkTypes, Owned, FoundEntry, NoUseAfterFree, Blocks, Wanted, IsEnd

LEMMA WalkStep ==
    ASSUME SingleClusters, WalkInv, [Next]_vars
    PROVE  WalkInv'
  BY WalkStarts, WalkStays, WalkUses, WalkFrees, WalkDescends, WalkOpensRoot, WalkReadsDir,
     WalkCloses, WalkStutters DEF Next

-----------------------------------------------------------------------------
\* What the name at n leads to from directory d, on a path of N names.
LeadsFrom(d, p, n, N, k) == StepTo(d, p[n], IF n = N THEN k ELSE DIRECTORY)

\* f[n] is where the first n names lead, of a path of N.
Follows(f, p, k, n, N) ==
    /\ f = [m \in 0 .. n |-> f[m]]
    /\ f[0] = 0 /\ \A m \in 1 .. n : f[m] = LeadsFrom(f[m - 1], p, m, N, k)

LEMMA FollowsExists ==
    ASSUME NEW p, NEW k, NEW N
    PROVE  \A n \in Nat : \E f : Follows(f, p, k, n, N)
  <1> DEFINE S == {n \in Nat : \E f : Follows(f, p, k, n, N)}
  <1>1. 0 \in S
    <2>1. Follows([m \in 0 .. 0 |-> 0], p, k, 0, N)
      BY DEF Follows
    <2> QED
      BY <2>1
  <1>2. ASSUME NEW n \in S, n \in Nat PROVE n + 1 \in S
    <2>1. PICK f : Follows(f, p, k, n, N)
      BY <1>2
    <2> DEFINE g == [m \in 0 .. n + 1 |-> IF m = n + 1 THEN LeadsFrom(f[n], p, n + 1, N, k) ELSE f[m]]
    <2>2. f[0] = 0 /\ \A m \in 1 .. n : f[m] = LeadsFrom(f[m - 1], p, m, N, k)
      BY <2>1 DEF Follows
    <2>3. ASSUME NEW m \in 1 .. n + 1
          PROVE  g[m] = LeadsFrom(g[m - 1], p, m, N, k)
      <3>1. CASE m = n + 1
        <4>1. g[n + 1] = LeadsFrom(f[n], p, n + 1, N, k) /\ g[n] = f[n] /\ (n + 1) - 1 = n
          BY <1>2
        <4> HIDE DEF g
        <4> QED
          BY <4>1, <3>1
      <3>2. CASE m # n + 1
        <4>1. m \in 1 .. n /\ m \in 0 .. n + 1 /\ m - 1 \in 0 .. n + 1 /\ m - 1 # n + 1
          BY <1>2, <3>2
        <4>2. g[m] = f[m] /\ g[m - 1] = f[m - 1]
          BY <4>1, <3>2
        <4> HIDE DEF g
        <4> QED
          BY <4>1, <4>2, <2>2
      <3> QED
        BY <3>1, <3>2
    <2>4. g = [m \in 0 .. n + 1 |-> g[m]] /\ g[0] = 0
      BY <1>2, <2>2
    <2>5. Follows(g, p, k, n + 1, N)
      <3> HIDE DEF g
      <3> QED
        BY <2>3, <2>4 DEF Follows
    <2> QED
      BY <1>2, <2>5
  <1>3. Nat \subseteq S
    <2> HIDE DEF S
    <2> QED
      BY <1>1, <1>2, SetInduction
  <1> QED
    BY <1>3

\* Where each of the names leads.
Way(p, k) == CHOOSE f : Follows(f, p, k, Len(p), Len(p))

LEMMA WayFacts ==
    ASSUME NEW p \in Seq(STRING), NEW k
    PROVE  /\ Way(p, k)[0] = 0
           /\ \A n \in 1 .. Len(p) : Way(p, k)[n] = LeadsFrom(Way(p, k)[n - 1], p, n, Len(p), k)
           /\ Leads(p, k) = Way(p, k)[Len(p)]
  <1> DEFINE N    == Len(p)
             D(d) == [n \in 0 .. N |->
                        IF n = 0 THEN 0
                        ELSE StepTo(d[n - 1], p[n], IF n = N THEN k ELSE DIRECTORY)]
             c    == CHOOSE d : d = D(d)
             w    == Way(p, k)
  <1>1. N \in Nat
    OBVIOUS
  <1>2. Leads(p, k) = c[N]
    BY DEF Leads
  <1>3. Follows(w, p, k, N, N)
    BY <1>1, FollowsExists DEF Way
  <1>4. \A f : Follows(f, p, k, N, N) => f = D(f)
    BY <1>1 DEF Follows, LeadsFrom
  <1>5. \A f : f = D(f) => Follows(f, p, k, N, N)
    BY <1>1 DEF Follows, LeadsFrom
  <1>6. c = D(c)
    BY <1>3, <1>4
  <1>7. Follows(c, p, k, N, N)
    <2> HIDE DEF c
    <2> QED
      BY <1>5, <1>6
  <1> DEFINE S == {n \in Nat : n <= N => c[n] = w[n]}
  <1> HIDE DEF c, w
  <1>8. 0 \in S
    BY <1>3, <1>7 DEF Follows
  <1>9. ASSUME NEW n \in S, n \in Nat PROVE n + 1 \in S
    <2> SUFFICES ASSUME n + 1 <= N PROVE c[n + 1] = w[n + 1]
      OBVIOUS
    <2>1. n + 1 \in 1 .. N /\ (n + 1) - 1 = n /\ c[n] = w[n]
      BY <1>1, <1>9
    <2> QED
      BY <2>1, <1>3, <1>7 DEF Follows
  <1>10. Nat \subseteq S
    <2> HIDE DEF S
    <2> QED
      BY <1>8, <1>9, SetInduction
  <1>11. c[N] = w[N]
    BY <1>1, <1>10
  <1> QED
    BY <1>2, <1>3, <1>11 DEF Follows, w

\* Once a name leads nowhere the path does.
LEMMA NowhereStays ==
    ASSUME NEW p \in Seq(STRING), NEW k, NEW n \in 1 .. Len(p), Way(p, k)[n] = -1
    PROVE  Leads(p, k) = -1
  <1> DEFINE N == Len(p)
             w == Way(p, k)
             S == {m \in Nat : n + m <= N => w[n + m] = -1}
  <1>0. N \in Nat /\ n \in Nat /\ n <= N
    OBVIOUS
  <1>1. \A m \in 1 .. N : w[m] = LeadsFrom(w[m - 1], p, m, N, k)
    BY WayFacts
  <1> HIDE DEF w, N
  <1>2. 0 \in S
    BY <1>0 DEF w
  <1>3. ASSUME NEW m \in S, m \in Nat PROVE m + 1 \in S
    <2> SUFFICES ASSUME n + (m + 1) <= N PROVE w[n + (m + 1)] = -1
      OBVIOUS
    <2>1. n + (m + 1) \in 1 .. N /\ (n + (m + 1)) - 1 = n + m /\ n + m <= N
      BY <1>0, <1>3
    <2>2. w[n + m] = -1
      BY <1>3, <2>1
    <2>3. w[n + (m + 1)] = LeadsFrom(w[n + m], p, n + (m + 1), N, k)
      BY <1>1, <2>1
    <2> QED
      BY <2>2, <2>3 DEF LeadsFrom, StepTo
  <1>4. Nat \subseteq S
    <2> HIDE DEF S
    <2> QED
      BY <1>2, <1>3, SetInduction
  <1>5. N - n \in Nat /\ n + (N - n) = N
    BY <1>0
  <1>6. N - n \in S
    BY <1>4, <1>5
  <1>7. w[N] = -1
    BY <1>0, <1>5, <1>6
  <1> QED
    BY <1>7, WayFacts DEF w, N

\* The walk is where the path leads.
OnWay ==
    pc # "idle" /\ path # <<>> =>
        LET w == Way(path, Kind)
        IN  /\ j \in 1 .. Len(path)
            /\ pc \in {"walk", "use"} => w[j - 1] \in DOMAIN Chain /\ content = Whole(w[j - 1])
            /\ pc = "use" => entry = Position /\ Position # 0 /\ Name \notin Refused
            /\ pc \in {"free", "found"} => cluster = w[j]

ResolvesInv == OnWay /\ Resolves

\* One step of the path is what the driver does with one directory.
LEMMA StepHere ==
    ASSUME WalkInv, path # <<>>, j \in 1 .. Len(path),
           Way(path, Kind)[j - 1] \in DOMAIN Chain, content = Whole(Way(path, Kind)[j - 1])
    PROVE  /\ Name = path[j]
           /\ Name = "" => Position = 0
           /\ Way(path, Kind)[j] = IF Name \in Refused \/ Position = 0 THEN -1
                                   ELSE content[Position].cluster
  <1> DEFINE w == Way(path, Kind)
             d == w[j - 1]
             v == IF j = Len(path) THEN Kind ELSE DIRECTORY
             I == {n \in 1 .. Len(content) : content[n].attributes = Wanted /\ content[n].name = Name}
  <1>0. path \in Seq(STRING) /\ Len(path) \in Nat /\ content \in Seq(Leading)
    BY DEF WalkInv, WalkTypes
  <1>1. Name = path[j]
    BY DEF Name
  <1>2. Wanted = v
    BY <1>0 DEF Wanted, IsEnd, Kind
  <1>3. w[j] = StepTo(d, Name, Wanted)
    BY <1>0, <1>1, <1>2, WayFacts DEF LeadsFrom
  <1>4. d # -1
    <2>1. d \in Nat
      BY WalkConstants
    <2> QED
      BY <2>1
  <1>5. Position = IF I # {} THEN Min(I) ELSE 0
    BY DEF Position, SelectInSeq
  <1>6. SelectInSeq(Whole(d), LAMBDA x : x.attributes = Wanted /\ x.name = Name) = Position
    BY <1>5 DEF SelectInSeq
  <1>7. ASSUME Name = "" PROVE Position = 0
    <2>1. \A n \in 1 .. Len(content) : content[n] \in Leading
      BY <1>0
    <2>2. I = {}
      BY <1>7, <2>1, LeadingFacts
    <2> QED
      BY <1>5, <2>2
  <1>8. w[j] = IF Name \in Refused \/ Position = 0 THEN -1 ELSE content[Position].cluster
    <2> HIDE DEF w
    <2> QED
      BY <1>3, <1>4, <1>6 DEF StepTo, w
  <1> QED
    BY <1>1, <1>7, <1>8

LEMMA PositionKept ==
    ASSUME UNCHANGED <<op, path, j, content>>
    PROVE  Position' = Position /\ Name' = Name /\ Kind' = Kind
  <1>1. Name' = Name /\ Kind' = Kind /\ Wanted' = Wanted
    BY DEF Name, Kind, Wanted, IsEnd
  <1>2. Position' = Position
    BY <1>1 DEF Position, SelectInSeq
  <1> QED
    BY <1>1, <1>2

LEMMA ResolvesInit == Init => ResolvesInv
  BY DEF Init, ResolvesInv, OnWay, Resolves

LEMMA ResolvesStep ==
    ASSUME SingleClusters, WalkInv, ResolvesInv, [Next]_vars
    PROVE  ResolvesInv'
  <1> USE DEF ResolvesInv
  <1>0. path \in Seq(STRING) /\ Len(path) \in Nat /\ j \in Nat \ {0}
    BY DEF WalkInv, WalkTypes
  <1>1. ASSUME NEW p \in Paths, Open(p) \/ OpenDir(p) PROVE ResolvesInv'
    <2>1. pc' = "walk" /\ j' = 1 /\ path' = p /\ content' = FlattenSeq(Filled(0))
      BY <1>1 DEF Open, OpenDir, Call, Read
    <2>2. p \in Seq(STRING) /\ 0 \in DOMAIN Chain /\ Len(Chain[0]) = 1
      BY FatWalkAssumption
    <2>3. content' = Whole(0)
      BY <2>1, <2>2, FilledFacts
    <2>4. Way(p, Kind')[0] = 0
      BY <2>2, WayFacts
    <2>5. p # <<>> => j' \in 1 .. Len(p)
      BY <2>1, <2>2
    <2>6. OnWay'
      BY <2>1, <2>2, <2>3, <2>4, <2>5 DEF OnWay
    <2>7. Resolves'
      BY <2>1 DEF Resolves
    <2> QED
      BY <2>6, <2>7
  <1>2. CASE OpenRoot
    BY <1>2 DEF OpenRoot, OnWay, Resolves
  <1>3. CASE Refuse \/ NotFound
    <2>1. /\ pc = "walk" /\ pc' = "idle" /\ result' = -1
          /\ UNCHANGED <<op, path, j, calls>>
          /\ Name = "" \/ Name \in Refused \/ Position = 0
      BY <1>3 DEF Refuse, NotFound, Fail
    <2>2. OnWay'
      BY <2>1 DEF OnWay
    <2>3. CASE path # <<>>
      <3>1. /\ j \in 1 .. Len(path) /\ Way(path, Kind)[j - 1] \in DOMAIN Chain
            /\ content = Whole(Way(path, Kind)[j - 1])
        BY <2>1, <2>3 DEF OnWay
      <3>2. Way(path, Kind)[j] = -1
        BY <2>1, <2>3, <3>1, StepHere
      <3>3. Leads(path, Kind) = -1
        BY <1>0, <3>1, <3>2, NowhereStays
      <3> QED
        BY <2>1, <2>2, <3>3 DEF Resolves, Kind
    <2>4. CASE path = <<>>
      BY <2>1, <2>2, <2>4 DEF Resolves
    <2> QED
      BY <2>3, <2>4
  <1>4. CASE Found
    <2>1. /\ pc = "walk" /\ pc' = "use" /\ entry' = Position /\ Position # 0 /\ Name \notin Refused
          /\ UNCHANGED <<op, path, j, content>>
      BY <1>4 DEF Found, Order
    <2>2. Position' = Position /\ Name' = Name /\ Kind' = Kind
      BY <2>1, PositionKept
    <2>3. OnWay'
      BY <2>1, <2>2 DEF OnWay
    <2> QED
      BY <2>1, <2>3 DEF Resolves
  <1>5. CASE UseEntry
    <2>1. /\ pc = "use" /\ pc' = "free" /\ cluster' = content[entry].cluster
          /\ UNCHANGED <<op, path, j, content, entry>>
      BY <1>5 DEF UseEntry, After, Order
    <2>2. Kind' = Kind
      BY <2>1 DEF Kind
    <2>3. ASSUME path # <<>> PROVE cluster' = Way(path, Kind)[j]
      <3>1. /\ j \in 1 .. Len(path) /\ Way(path, Kind)[j - 1] \in DOMAIN Chain
            /\ content = Whole(Way(path, Kind)[j - 1])
            /\ entry = Position /\ Position # 0 /\ Name \notin Refused
        BY <2>1, <2>3 DEF OnWay
      <3>2. Way(path, Kind)[j] = content[Position].cluster
        BY <2>3, <3>1, StepHere
      <3> QED
        BY <2>1, <3>1, <3>2
    <2>4. OnWay'
      BY <2>1, <2>2, <2>3 DEF OnWay
    <2> QED
      BY <2>1, <2>4 DEF Resolves
  <1>6. CASE FreeEntries
    <2>1. /\ pc = "free" /\ pc' = "found"
          /\ UNCHANGED <<op, path, j, cluster>>
      BY <1>6 DEF FreeEntries, After, Order
    <2>2. Kind' = Kind
      BY <2>1 DEF Kind
    <2> QED
      BY <2>1, <2>2 DEF OnWay, Resolves
  <1>7. CASE Descend
    <2>1. /\ pc = "found" /\ ~IsEnd /\ pc' = "walk" /\ j' = j + 1
          /\ content' = FlattenSeq(Filled(cluster))
          /\ UNCHANGED <<op, path>>
      BY <1>7 DEF Descend, Read
    <2>2. Kind' = Kind /\ (j + 1) - 1 = j /\ j + 1 \in 1 .. Len(path)
      BY <1>0, <2>1 DEF Kind, IsEnd
    <2>3. cluster \in DOMAIN Chain
      BY <2>1 DEF WalkInv, FoundEntry
    <2>4. content' = Whole(cluster)
      BY <2>1, <2>3, FilledFacts DEF SingleClusters
    <2>5. OnWay'
      BY <2>1, <2>2, <2>3, <2>4 DEF OnWay
    <2> QED
      BY <2>1, <2>5 DEF Resolves
  <1>8. CASE Return
    <2>1. /\ pc = "found" /\ IsEnd /\ pc' = "idle" /\ result' = cluster
          /\ UNCHANGED <<op, path, calls>>
      BY <1>8 DEF Return
    <2>2. ASSUME path # <<>> PROVE result' = Leads(path, Kind)
      <3>1. j \in 1 .. Len(path) /\ cluster = Way(path, Kind)[j]
        BY <2>1, <2>2 DEF OnWay
      <3>2. j = Len(path)
        BY <1>0, <2>1, <3>1 DEF IsEnd
      <3> QED
        BY <1>0, <2>1, <3>1, <3>2, WayFacts
    <2> QED
      BY <2>1, <2>2 DEF OnWay, Resolves, Kind
  <1>9. ASSUME NEW h \in held, ReadDir(h) PROVE ResolvesInv'
    BY <1>9 DEF ReadDir, Call, OnWay, Resolves
  <1>10. ASSUME NEW h \in held, Close(h) PROVE ResolvesInv'
    BY <1>10 DEF Close, OnWay, Resolves
  <1>11. CASE UNCHANGED vars
    <2>1. UNCHANGED <<pc, op, path, j, content, entry, cluster, calls, result>>
      BY <1>11 DEF vars
    <2>2. Position' = Position /\ Name' = Name /\ Kind' = Kind
      BY <2>1, PositionKept
    <2> QED
      BY <2>1, <2>2 DEF OnWay, Resolves
  <1> QED
    BY <1>1, <1>2, <1>3, <1>4, <1>5, <1>6, <1>7, <1>8, <1>9, <1>10, <1>11 DEF Next

-----------------------------------------------------------------------------
(***************************************************************************)
(* FatNames.                                                               *)
(***************************************************************************)
NameLength == FAT12_FILENAME_LENGTH

ExtLength == FAT12_EXTENSION_LENGTH

Chars == STRING \cup {"."}

LEMMA NameConstants ==
    /\ NameLength \in Nat /\ ExtLength \in Nat /\ ExtLength > 0
    /\ M!BaseLength \in Nat /\ M!BaseLength > 0 /\ NameLength = M!BaseLength + ExtLength
  BY LoadersAssumption DEF M!FatNamesAssumption, M!BaseLength, NameLength, ExtLength

\* A text: a sequence of characters without the one that ends it.
IsText(s) == s \in Seq(Chars) /\ \A x \in 1 .. Len(s) : s[x] # M!NUL

LEMMA GivenTexts ==
    ASSUME NEW s \in Files \cup Directories \cup Components
    PROVE  IsText(s)
  <1>1. s \in Seq(STRING) /\ \A x \in 1 .. Len(s) : s[x] # M!NUL
    BY LoadersAssumption DEF M!FatNamesAssumption
  <1>2. Len(s) \in Nat /\ s = [x \in 1 .. Len(s) |-> s[x]] /\ \A x \in 1 .. Len(s) : s[x] \in Chars
    BY <1>1 DEF Chars
  <1>3. s \in Seq(Chars)
    BY <1>2
  <1> QED
    BY <1>1, <1>3 DEF IsText

LEMMA GivenEntries ==
    ASSUME NEW e \in Files \cup Directories
    PROVE  /\ IsText(e) /\ Len(e) = NameLength
           /\ e \in Files => e[1] # M!SPACE /\ \A x \in 1 .. Len(e) : e[x] # "."
  <1>1. Len(e) = NameLength
    BY LoadersAssumption DEF M!FatNamesAssumption, NameLength
  <1>2. e \in Files => e[1] # M!SPACE /\ \A x \in 1 .. Len(e) : e[x] # "."
    BY LoadersAssumption DEF M!FatNamesAssumption
  <1> QED
    BY <1>1, <1>2, GivenTexts

\* strtrim takes away the spaces at the end, and nothing else.
LEMMA TrimmedFacts ==
    ASSUME NEW s \in Seq(Chars)
    PROVE  /\ M!Trimmed(s) \in Seq(Chars)
           /\ Len(M!Trimmed(s)) \in 0 .. Len(s)
           /\ \A x \in 1 .. Len(M!Trimmed(s)) : M!Trimmed(s)[x] = s[x]
           /\ \A x \in Len(M!Trimmed(s)) + 1 .. Len(s) : s[x] = M!SPACE
           /\ Len(M!Trimmed(s)) > 0 => s[Len(M!Trimmed(s))] # M!SPACE
  <1> DEFINE N == Len(s)
             Q(m) == /\ m = 0 \/ s[m] # M!SPACE
                     /\ \A x \in m + 1 .. N : s[x] = M!SPACE
             I == {m \in 0 .. N : \A x \in m + 1 .. N : s[x] = M!SPACE}
             l == Min(I)
             n == CHOOSE m \in 0 .. N : Q(m)
  <1>1. N \in Nat /\ I \in SUBSET Nat
    OBVIOUS
  <1>2. N \in I
    BY <1>1
  <1>3. l \in I /\ \A m \in I : l <= m
    <2> HIDE DEF I
    <2> QED
      BY <1>1, <1>2, LeastMember
  <1>4. l \in 0 .. N /\ \A x \in l + 1 .. N : s[x] = M!SPACE
    BY <1>3
  <1>5. l = 0 \/ s[l] # M!SPACE
    <2> SUFFICES ASSUME l # 0, s[l] = M!SPACE PROVE FALSE
      OBVIOUS
    <2> HIDE DEF l
    <2>1. l - 1 \in 0 .. N /\ \A x \in (l - 1) + 1 .. N : x = l \/ x \in l + 1 .. N
      BY <1>1, <1>4
    <2>2. l - 1 \in I
      BY <1>4, <2>1
    <2>3. l <= l - 1
      <3> HIDE DEF I
      <3> QED
        BY <1>3, <2>2
    <2> QED
      BY <1>1, <1>4, <2>3
  <1>6. n \in 0 .. N /\ Q(n)
    <2> HIDE DEF l
    <2>1. Q(l)
      BY <1>4, <1>5
    <2> QED
      BY <1>4, <2>1
  <1>7. M!Trimmed(s) = SubSeq(s, 1, n)
    BY DEF M!Trimmed
  <1> HIDE DEF n
  <1>8. /\ M!Trimmed(s) \in Seq(Chars) /\ Len(M!Trimmed(s)) = n
        /\ \A x \in 1 .. n : M!Trimmed(s)[x] = s[x]
    BY <1>1, <1>6, <1>7
  <1> QED
    BY <1>1, <1>6, <1>8

\* The dot of a component.
LEMMA DotFacts ==
    ASSUME NEW c \in Seq(Chars)
    PROVE  /\ M!DotOf(c) \in Nat
           /\ M!DotOf(c) # 0 => /\ M!DotOf(c) \in 2 .. Len(c) /\ c[M!DotOf(c)] = "."
                                /\ \A x \in 2 .. M!DotOf(c) - 1 : c[x] # "."
           /\ M!DotOf(c) = 0 => \A x \in 2 .. Len(c) : c[x] # "."
  <1> DEFINE I == {x \in 2 .. Len(c) : c[x] = "."}
  <1>1. M!DotOf(c) = IF I # {} THEN Min(I) ELSE 0
    BY DEF M!DotOf, M!SelectInSubSeq, M!Min, Min
  <1>2. I \in SUBSET Nat /\ Len(c) \in Nat
    OBVIOUS
  <1>3. I # {} => Min(I) \in I /\ \A x \in I : Min(I) <= x
    <2> HIDE DEF I
    <2> QED
      BY <1>2, LeastMember
  <1>4. CASE I = {}
    BY <1>1, <1>4
  <1>5. CASE I # {}
    <2> DEFINE d == Min(I)
    <2>1. d \in I /\ \A x \in I : d <= x
      BY <1>3, <1>5
    <2> HIDE DEF d
    <2>2. d \in 2 .. Len(c) /\ c[d] = "." /\ \A x \in 2 .. d - 1 : c[x] # "."
      BY <1>2, <2>1
    <2>3. M!DotOf(c) = d
      BY <1>1, <1>5 DEF d
    <2> QED
      BY <1>2, <2>2, <2>3
  <1> QED
    BY <1>4, <1>5

\* What a listing shows of a file: its name, a dot and its extension.
LEMMA ListedFile ==
    ASSUME NEW e \in Files
    PROVE  LET c == M!fat12_format_file_name(e)
               t == M!DotOf(c) - 1
           IN  /\ IsText(c) /\ M!DotOf(c) # 0
               /\ t \in 1 .. M!BaseLength /\ Len(c) = t + 1 + ExtLength
               /\ \A x \in 1 .. t : c[x] = e[x]
               /\ \A x \in t + 1 .. M!BaseLength : e[x] = M!SPACE
               /\ \A x \in 1 .. ExtLength : c[t + 1 + x] = e[M!BaseLength + x]
  <1> DEFINE c == M!fat12_format_file_name(e)
             s == SubSeq(e, 1, M!BaseLength)
             r == M!Trimmed(s)
             t == Len(r)
             u == SubSeq(e, M!BaseLength + 1, NameLength)
             d == <<".">>
  <1>0. /\ NameLength \in Nat /\ ExtLength \in Nat /\ ExtLength > 0
        /\ M!BaseLength \in Nat /\ M!BaseLength > 0 /\ NameLength = M!BaseLength + ExtLength
    BY NameConstants
  <1>1. /\ e \in Seq(Chars) /\ Len(e) = NameLength /\ e[1] # M!SPACE
        /\ \A x \in 1 .. Len(e) : e[x] # "." /\ e[x] # M!NUL
    BY GivenEntries DEF IsText
  <1>2. s \in Seq(Chars) /\ Len(s) = M!BaseLength /\ \A x \in 1 .. M!BaseLength : s[x] = e[x]
    BY <1>0, <1>1
  <1>3. u \in Seq(Chars) /\ Len(u) = ExtLength /\ \A x \in 1 .. ExtLength : u[x] = e[M!BaseLength + x]
    BY <1>0, <1>1
  <1> HIDE DEF s, u
  <1>4. /\ r \in Seq(Chars) /\ t \in 0 .. M!BaseLength
        /\ \A x \in 1 .. t : r[x] = e[x]
        /\ \A x \in t + 1 .. M!BaseLength : e[x] = M!SPACE
    <2>1. /\ r \in Seq(Chars) /\ t \in 0 .. Len(s)
          /\ \A x \in 1 .. t : r[x] = s[x]
          /\ \A x \in t + 1 .. Len(s) : s[x] = M!SPACE
      BY <1>2, TrimmedFacts
    <2> HIDE DEF r
    <2> QED
      BY <1>0, <1>2, <2>1
  <1>5. t \in 1 .. M!BaseLength
    <2> SUFFICES ASSUME t = 0 PROVE FALSE
      BY <1>0, <1>4
    <2>1. 1 \in t + 1 .. M!BaseLength
      BY <1>0
    <2> QED
      BY <1>1, <1>4, <2>1
  <1>6. c = (r \o d) \o u
    BY DEF M!fat12_format_file_name, NameLength, s, u
  <1>7. d \in Seq(Chars) /\ Len(d) = 1 /\ d[1] = "."
    BY DEF Chars
  <1> HIDE DEF c, r, d, t
  <1>8. /\ r \o d \in Seq(Chars) /\ Len(r \o d) = t + 1
        /\ \A x \in 1 .. t : (r \o d)[x] = r[x]
        /\ (r \o d)[t + 1] = "."
    <2>0. r \o d \in Seq(Chars) /\ Len(r \o d) = Len(r) + Len(d)
      BY <1>4, <1>7, ConcatProperties
    <2>1. r \o d \in Seq(Chars) /\ Len(r \o d) = t + 1
      BY <1>7, <2>0 DEF t
    <2>2. \A x \in 1 .. Len(r) + Len(d) : (r \o d)[x] = IF x <= Len(r) THEN r[x] ELSE d[x - Len(r)]
      BY <1>4, <1>7, ConcatProperties
    <2>3. t + 1 \in 1 .. Len(r) + Len(d) /\ ~(t + 1 <= Len(r)) /\ (t + 1) - Len(r) = 1
      BY <1>5, <1>7 DEF t
    <2>4. \A x \in 1 .. t : x \in 1 .. Len(r) + Len(d) /\ x <= Len(r)
      BY <1>5, <1>7 DEF t
    <2>5. \A x \in 1 .. t : (r \o d)[x] = r[x]
      BY <2>2, <2>4
    <2>6. (r \o d)[t + 1] = "."
      BY <1>7, <2>2, <2>3
    <2> QED
      BY <2>1, <2>5, <2>6
  <1>9. /\ c \in Seq(Chars) /\ Len(c) = t + 1 + ExtLength
        /\ \A x \in 1 .. t + 1 : c[x] = (r \o d)[x]
        /\ \A x \in 1 .. ExtLength : c[t + 1 + x] = u[x]
    <2> DEFINE a == r \o d
    <2>1. a \in Seq(Chars) /\ Len(a) = t + 1 /\ c = a \o u
      BY <1>6, <1>8
    <2> HIDE DEF a
    <2>2. c \in Seq(Chars) /\ Len(c) = Len(a) + Len(u)
      BY <2>1, <1>3, ConcatProperties
    <2>3. \A x \in 1 .. Len(c) : c[x] = IF x <= Len(a) THEN a[x] ELSE u[x - Len(a)]
      BY <2>1, <1>3, ConcatProperties
    <2>4. \A x \in 1 .. t + 1 : c[x] = a[x]
      BY <1>0, <1>3, <1>5, <2>1, <2>2, <2>3
    <2>5. ASSUME NEW x \in 1 .. ExtLength PROVE c[t + 1 + x] = u[x]
      <3>1. t + 1 + x \in 1 .. Len(c) /\ ~(t + 1 + x <= Len(a)) /\ (t + 1 + x) - Len(a) = x
        BY <1>0, <1>3, <1>5, <2>1, <2>2
      <3> QED
        BY <2>3, <3>1
    <2> QED
      BY <1>3, <2>1, <2>2, <2>4, <2>5 DEF a
  <1>10. \A x \in 1 .. t : c[x] = e[x]
    <2>1. \A x \in 1 .. t : x \in 1 .. t + 1
      BY <1>5
    <2> QED
      BY <1>4, <1>8, <1>9, <2>1
  <1>11. c[t + 1] = "."
    BY <1>5, <1>8, <1>9
  <1>12. \A x \in 1 .. ExtLength : c[t + 1 + x] = e[M!BaseLength + x]
    BY <1>3, <1>9
  <1>13. IsText(c)
    <2>1. ASSUME NEW x \in 1 .. Len(c) PROVE c[x] # M!NUL
      <3>1. CASE x <= t
        <4>1. x \in 1 .. t /\ x \in 1 .. Len(e)
          BY <1>0, <1>1, <1>5, <3>1
        <4> QED
          BY <1>1, <1>10, <4>1
      <3>2. CASE x = t + 1
        BY <1>11, <3>2 DEF M!NUL
      <3>3. CASE x > t + 1
        <4>1. PICK y \in 1 .. ExtLength : x = t + 1 + y
          <5>1. x - t - 1 \in 1 .. ExtLength /\ x = t + 1 + (x - t - 1)
            BY <1>0, <1>5, <1>9, <3>3
          <5> QED
            BY <5>1
        <4>2. M!BaseLength + y \in 1 .. Len(e)
          BY <1>0, <1>1
        <4> QED
          BY <1>1, <1>12, <4>1, <4>2
      <3> QED
        BY <1>5, <3>1, <3>2, <3>3
    <2> QED
      BY <1>9, <2>1 DEF IsText
  <1>14. M!DotOf(c) = t + 1
    <2> DEFINE o == M!DotOf(c)
    <2>1. /\ o \in Nat
          /\ o # 0 => o \in 2 .. Len(c) /\ c[o] = "." /\ \A x \in 2 .. o - 1 : c[x] # "."
          /\ o = 0 => \A x \in 2 .. Len(c) : c[x] # "."
      BY <1>9, DotFacts
    <2> HIDE DEF o
    <2>2. t + 1 \in 2 .. Len(c)
      BY <1>0, <1>5, <1>9
    <2>3. o # 0
      BY <1>11, <2>1, <2>2
    <2>4. ~(o < t + 1)
      <3> SUFFICES ASSUME o < t + 1 PROVE FALSE
        OBVIOUS
      <3>1. o \in 1 .. t /\ o \in 1 .. Len(e)
        BY <1>0, <1>1, <1>5, <2>1, <2>3
      <3> QED
        BY <1>1, <1>10, <2>1, <2>3, <3>1
    <2>5. ~(t + 1 < o)
      <3> SUFFICES ASSUME t + 1 < o PROVE FALSE
        OBVIOUS
      <3>1. t + 1 \in 2 .. o - 1
        BY <1>5, <2>1
      <3> QED
        BY <1>11, <2>1, <2>3, <3>1
    <2>6. o = t + 1
      BY <1>5, <2>1, <2>4, <2>5
    <2> QED
      BY <2>6 DEF o
  <1>15. M!DotOf(c) - 1 = t /\ M!DotOf(c) # 0
    BY <1>5, <1>14
  <1> QED
    BY <1>4, <1>5, <1>9, <1>10, <1>12, <1>13, <1>15 DEF c

-----------------------------------------------------------------------------
\* The component, padded as the buffer is.
PaddedComponent == M!Pad(component, NameLength + 1)

NoExt == [x \in 1 .. ExtLength |-> M!NUL]

\* What an entry has to hold to be opened.
Expected ==
    [x \in 1 .. NameLength |->
        IF kind = "dir" \/ x < M!Dot THEN PaddedComponent[x]
        ELSE IF x <= M!BaseLength THEN M!SPACE
        ELSE PaddedComponent[M!Dot + (x - M!BaseLength)]]

\* The extension was found, and its characters are put in place up to spot.
Placing ==
    /\ M!Dot # 0 /\ spot >= M!Dot - 1
    /\ ext = [x \in 1 .. ExtLength |-> PaddedComponent[M!Dot + x]]
    /\ buffer = [x \in 1 .. NameLength + 1 |->
                    IF x <= spot /\ x <= NameLength THEN Expected[x] ELSE PaddedComponent[x]]

\* There is no dot up to spot.
Seeking ==
    /\ ext = NoExt /\ buffer = PaddedComponent
    /\ \A x \in 2 .. Len(component) : x <= spot => component[x] # "."

NameInv ==
    /\ M!TypeOK /\ M!Asked /\ IsText(component) /\ index <= Len(component)
    /\ name \in {"copy", "extension", "find"} => matched = "none"
    /\ name = "copy" =>
          /\ spot = 1 /\ ext = NoExt
          /\ buffer = [x \in 1 .. NameLength + 1 |-> IF x <= index THEN component[x] ELSE M!SPACE]
    /\ name \in {"extension", "find"} => Len(component) <= NameLength
    /\ name = "extension" => kind = "file" /\ (Seeking \/ Placing)
    /\ name = "find" => IF kind = "dir" THEN buffer = PaddedComponent
                        ELSE Placing /\ spot = NameLength
    /\ name = "done" =>
          /\ matched # "none"
          /\ matched = "refused" => Len(component) > NameLength \/ (kind = "file" /\ M!Dot = 0)
          /\ matched \in {"opened", "not found"} =>
                /\ Len(component) <= NameLength /\ (kind = "file" => M!Dot # 0)
                /\ matched = "opened" <=> \A x \in 1 .. NameLength : characters[x] = Expected[x]

\* Whatever is asked for is a text, and its parts fit.
LEMMA AskedFacts ==
    ASSUME M!Asked
    PROVE  /\ kind \in {"file", "dir"} /\ characters \in Files \cup Directories
           /\ kind = "file" => characters \in Files
           /\ IsText(component)
           /\ M!NamesFit /\ kind = "file" /\ M!Dot # 0 /\ Len(component) <= NameLength =>
                 M!Dot - 1 <= M!BaseLength /\ Len(component) - M!Dot <= ExtLength
  <1>1. /\ kind \in {"file", "dir"} /\ characters \in Files \cup Directories
        /\ kind = "file" => characters \in Files
    BY DEF M!Asked
  <1>2. CASE ~listed
    <2>1. component \in Components
      BY <1>2 DEF M!Asked
    <2> QED
      BY <1>1, <2>1, GivenTexts DEF M!NamesFit, M!Dot, NameLength, ExtLength
  <1>3. CASE listed /\ kind = "file"
    <2>1. component = M!fat12_format_file_name(characters) /\ characters \in Files
      BY <1>1, <1>3 DEF M!Asked
    <2>2. /\ IsText(component) /\ M!DotOf(component) - 1 \in 1 .. M!BaseLength
          /\ Len(component) = (M!DotOf(component) - 1) + 1 + ExtLength
      BY <2>1, ListedFile
    <2>3. M!DotOf(component) \in Nat
      BY <2>2, DotFacts DEF IsText
    <2> QED
      BY <1>1, <2>2, <2>3, NameConstants DEF M!Dot
  <1>4. CASE listed /\ kind # "file"
    <2>1. component = M!fat12_format_dir_name(characters)
      BY <1>4 DEF M!Asked
    <2>2. IsText(characters)
      BY <1>1, GivenTexts
    <2>3. component = M!Trimmed(characters)
      BY <2>1 DEF M!fat12_format_dir_name
    <2>4. /\ component \in Seq(Chars) /\ Len(component) \in 0 .. Len(characters)
          /\ \A x \in 1 .. Len(component) : component[x] = characters[x]
      BY <2>2, <2>3, TrimmedFacts DEF IsText
    <2>5. \A x \in 1 .. Len(component) : x \in 1 .. Len(characters)
      BY <2>2, <2>4 DEF IsText
    <2>6. IsText(component)
      BY <2>2, <2>4, <2>5 DEF IsText
    <2> QED
      BY <1>1, <1>4, <2>6
  <1> QED
    BY <1>2, <1>3, <1>4 DEF M!Asked

LEMMA PaddedFacts ==
    /\ PaddedComponent = [x \in 1 .. NameLength + 1 |->
                             IF x <= Len(component) THEN component[x] ELSE M!SPACE]
    /\ DOMAIN PaddedComponent = 1 .. NameLength + 1
  BY DEF PaddedComponent, M!Pad

LEMMA NameTypes ==
    M!TypeOK <=> /\ name \in {"copy", "extension", "find", "done"}
                 /\ index \in 0 .. NameLength /\ spot \in 1 .. NameLength
                 /\ DOMAIN buffer = 1 .. NameLength + 1
                 /\ DOMAIN ext = 1 .. ExtLength
                 /\ matched \in {"none", "opened", "not found", "refused"}
  BY DEF M!TypeOK, NameLength, ExtLength

LEMMA NameTypesNext ==
    M!TypeOK' <=> /\ name' \in {"copy", "extension", "find", "done"}
                  /\ index' \in 0 .. NameLength /\ spot' \in 1 .. NameLength
                  /\ DOMAIN buffer' = 1 .. NameLength + 1
                  /\ DOMAIN ext' = 1 .. ExtLength
                  /\ matched' \in {"none", "opened", "not found", "refused"}
  BY DEF M!TypeOK, NameLength, ExtLength

LEMMA NameInit == M!Asked /\ M!Start => NameInv
  <1> SUFFICES ASSUME M!Asked, M!Start PROVE NameInv
    OBVIOUS
  <1>1. IsText(component)
    BY AskedFacts
  <1>2. Len(component) \in Nat
    BY <1>1 DEF IsText
  <1>4. /\ name = "copy" /\ matched = "none" /\ spot = 1 /\ index = 0 /\ ext = NoExt
        /\ buffer = [x \in 1 .. NameLength + 1 |-> M!SPACE]
    BY DEF M!Start, NoExt, NameLength, ExtLength
  <1>5. buffer = [x \in 1 .. NameLength + 1 |-> IF x <= index THEN component[x] ELSE M!SPACE]
    <2>1. \A x \in 1 .. NameLength + 1 : ~(x <= index)
      BY <1>4
    <2> QED
      BY <1>4, <2>1
  <1>3. M!TypeOK
    <2>1. 0 \in 0 .. NameLength /\ 1 \in 1 .. NameLength
      BY NameConstants
    <2>2. DOMAIN buffer = 1 .. NameLength + 1 /\ DOMAIN ext = 1 .. ExtLength
      BY <1>4 DEF NoExt
    <2> QED
      BY <1>4, <2>1, <2>2, NameTypes
  <1>6. index <= Len(component)
    BY <1>2, <1>4
  <1> QED
    BY <1>1, <1>3, <1>4, <1>5, <1>6 DEF NameInv

\* What is compared stays as it is.
NameGiven == UNCHANGED <<kind, characters, listed, component>>

LEMMA NameKept ==
    ASSUME NameGiven
    PROVE  /\ PaddedComponent' = PaddedComponent /\ Expected' = Expected /\ M!Dot' = M!Dot
           /\ M!Asked' = M!Asked /\ IsText(component)' = IsText(component)
  <1>1. PaddedComponent' = PaddedComponent
    BY DEF NameGiven, PaddedComponent, M!Pad
  <1>2. M!Dot' = M!Dot
    BY DEF NameGiven, M!Dot
  <1>3. Expected' = Expected
    BY <1>1, <1>2 DEF Expected, NameGiven
  <1>4. M!Asked' = M!Asked
    BY DEF NameGiven, M!Asked
  <1> QED
    BY <1>1, <1>2, <1>3, <1>4 DEF NameGiven, IsText

LEMMA NameCopies ==
    ASSUME NameInv, M!Copy
    PROVE  NameInv'
  <1>0. /\ name = "copy" /\ index < Len(component) /\ index # NameLength
        /\ buffer' = [buffer EXCEPT ![index + 1] = component[index + 1]] /\ index' = index + 1
        /\ NameGiven /\ UNCHANGED <<name, spot, ext, matched>>
    BY DEF M!Copy, M!Full, NameGiven, NameLength
  <1>1. /\ index \in 0 .. NameLength /\ DOMAIN buffer = 1 .. NameLength + 1 /\ NameLength \in Nat
        /\ IsText(component) /\ Len(component) \in Nat
    <2>1. IsText(component)
      BY DEF NameInv
    <2>2. Len(component) \in Nat
      BY <2>1 DEF IsText
    <2> QED
      BY <2>1, <2>2, NameConstants, NameTypes DEF NameInv
  <1>2. M!TypeOK'
    <2>1. index' \in 0 .. NameLength /\ DOMAIN buffer' = 1 .. NameLength + 1
      BY <1>0, <1>1
    <2> QED
      BY <1>0, <2>1, NameTypes, NameTypesNext DEF NameInv
  <1>3. buffer' = [x \in 1 .. NameLength + 1 |-> IF x <= index' THEN component[x] ELSE M!SPACE]
    <2>1. buffer = [x \in 1 .. NameLength + 1 |-> IF x <= index THEN component[x] ELSE M!SPACE]
      BY <1>0 DEF NameInv
    <2>2. index \in Int /\ index' = index + 1 /\ \A x \in 1 .. NameLength + 1 : x \in Int
      BY <1>0, <1>1
    <2>3. ASSUME NEW x \in 1 .. NameLength + 1
          PROVE  buffer'[x] = IF x <= index' THEN component[x] ELSE M!SPACE
      BY <1>0, <1>1, <2>1, <2>2
    <2>4. buffer' = [x \in 1 .. NameLength + 1 |-> buffer'[x]]
      BY <1>0, <2>1
    <2> QED
      BY <2>3, <2>4
  <1>4. index' <= Len(component)
    BY <1>0, <1>1
  <1>5. M!Asked' /\ IsText(component)' /\ component' = component
    BY <1>0, NameKept DEF NameInv, NameGiven
  <1> QED
    BY <1>0, <1>2, <1>3, <1>4, <1>5 DEF NameInv, NoExt

LEMMA NameRefused ==
    ASSUME NameInv, M!Refuse
    PROVE  NameInv'
  <1>0. /\ name = "copy" /\ index < Len(component) /\ index = NameLength
        /\ name' = "done" /\ matched' = "refused"
        /\ NameGiven /\ UNCHANGED <<index, spot, buffer, ext>>
    BY DEF M!Refuse, M!Full, NameGiven, NameLength
  <1>1. M!TypeOK'
    BY <1>0 DEF NameInv, M!TypeOK
  <1>2. M!Asked' /\ IsText(component)' /\ component' = component
    BY <1>0, NameKept DEF NameInv, NameGiven
  <1>3. Len(component) > NameLength
    BY <1>0, NameConstants DEF IsText, NameInv
  <1> QED
    BY <1>0, <1>1, <1>2, <1>3 DEF NameInv

LEMMA NameCopied ==
    ASSUME NameInv, M!Copied
    PROVE  NameInv'
  <1>0. /\ name = "copy" /\ index = Len(component)
        /\ name' = (IF kind = "file" THEN "extension" ELSE "find")
        /\ NameGiven /\ UNCHANGED <<index, spot, buffer, ext, matched>>
    BY DEF M!Copied, NameGiven
  <1>1. M!TypeOK'
    BY <1>0 DEF NameInv, M!TypeOK
  <1>2. M!Asked' /\ IsText(component)' /\ component' = component /\ kind' = kind
    BY <1>0, NameKept DEF NameInv, NameGiven
  <1>3. buffer = PaddedComponent /\ spot = 1 /\ ext = NoExt /\ matched = "none"
    BY <1>0, PaddedFacts DEF NameInv
  <1>4. Len(component) <= NameLength
    BY <1>0, NameTypes, NameConstants DEF NameInv
  <1>5. Seeking'
    <2>1. \A x \in 2 .. Len(component) : ~(x <= 1)
      OBVIOUS
    <2>2. PaddedComponent' = PaddedComponent
      BY <1>0, NameKept
    <2> QED
      BY <1>0, <1>2, <1>3, <2>1, <2>2 DEF Seeking, NoExt
  <1>6. kind \in {"file", "dir"}
    BY AskedFacts DEF NameInv
  <1>7. PaddedComponent' = PaddedComponent
    BY <1>0, NameKept
  <1> QED
    BY <1>0, <1>1, <1>2, <1>3, <1>4, <1>5, <1>6, <1>7 DEF NameInv

\* Before a dot is found there is no extension, and afterwards there is.
LEMMA HasExtFacts ==
    ASSUME NameInv, M!NamesFit, name = "extension"
    PROVE  /\ Seeking => ~M!HasExt
           /\ Placing => M!HasExt
  <1>1. ASSUME Seeking PROVE ~M!HasExt
    BY <1>1, NameConstants DEF Seeking, NoExt, M!HasExt
  <1>2. ASSUME Placing PROVE M!HasExt
    <2>1. /\ kind = "file" /\ M!Dot # 0 /\ Len(component) <= NameLength /\ IsText(component)
          /\ ext = [x \in 1 .. ExtLength |-> PaddedComponent[M!Dot + x]]
      BY <1>2 DEF NameInv, Placing
    <2>2. M!Dot \in 2 .. Len(component)
      BY <2>1, DotFacts DEF IsText, M!Dot
    <2>3. Len(component) \in Nat /\ M!Dot + 1 \in 1 .. NameLength + 1
      BY <2>1, <2>2, NameConstants DEF IsText
    <2>4. ext[1] = PaddedComponent[M!Dot + 1]
      BY <2>1, NameConstants
    <2>5. PaddedComponent[M!Dot + 1] # M!NUL
      <3> DEFINE y == M!Dot + 1
      <3>1. y \in 1 .. NameLength + 1 /\ (y <= Len(component) => y \in 1 .. Len(component))
        BY <2>3
      <3> HIDE DEF y
      <3>2. PaddedComponent[y] = IF y <= Len(component) THEN component[y] ELSE M!SPACE
        BY <3>1, PaddedFacts
      <3>3. PaddedComponent[y] # M!NUL
        BY <2>1, <3>1, <3>2 DEF IsText, M!SPACE, M!NUL
      <3> QED
        BY <3>3 DEF y
    <2> QED
      BY <2>4, <2>5 DEF M!HasExt
  <1> QED
    BY <1>1, <1>2

LEMMA NameFindsDot ==
    ASSUME NameInv, M!NamesFit, NEW b, M!FindDot(b)
    PROVE  NameInv'
  <1>0. /\ name = "extension" /\ spot < NameLength /\ ~M!HasExt /\ buffer[spot + 1] = "."
        /\ ext' = [x \in 1 .. ExtLength |-> M!At(spot + x, b)]
        /\ NameGiven /\ UNCHANGED <<name, index, spot, buffer, matched>>
    BY DEF M!FindDot, NameGiven, NameLength, ExtLength
  <1>1. /\ kind = "file" /\ Seeking /\ IsText(component) /\ Len(component) <= NameLength
        /\ spot \in 1 .. NameLength /\ Len(component) \in Nat
    <2>1. kind = "file" /\ Seeking
      BY <1>0, HasExtFacts DEF NameInv
    <2>2. IsText(component) /\ Len(component) <= NameLength /\ Len(component) \in Nat
      BY <1>0 DEF NameInv, IsText
    <2>3. spot \in 1 .. NameLength
      BY NameTypes DEF NameInv
    <2> QED
      BY <2>1, <2>2, <2>3
  <1> DEFINE y == spot + 1
  <1>2. y \in 2 .. NameLength /\ y \in 1 .. NameLength + 1
    BY <1>0, <1>1, NameConstants
  <1>3. y <= Len(component) /\ component[y] = "."
    <2>1. PaddedComponent[y] = IF y <= Len(component) THEN component[y] ELSE M!SPACE
      <3> HIDE DEF y
      <3> QED
        BY <1>2, PaddedFacts
    <2>2. PaddedComponent[y] = "."
      BY <1>0, <1>1 DEF Seeking
    <2> QED
      BY <2>1, <2>2 DEF M!SPACE
  <1>4. M!Dot = y
    <2> DEFINE o == M!Dot
    <2>1. /\ o \in Nat
          /\ o # 0 => o \in 2 .. Len(component) /\ component[o] = "." /\ \A x \in 2 .. o - 1 : component[x] # "."
          /\ o = 0 => \A x \in 2 .. Len(component) : component[x] # "."
      BY <1>1, DotFacts DEF IsText, M!Dot
    <2> HIDE DEF o
    <2>2. o # 0
      BY <1>1, <1>2, <1>3, <2>1
    <2>3. ~(o <= spot)
      BY <1>1, <2>1, <2>2 DEF Seeking
    <2>4. ~(y < o)
      <3> HIDE DEF y
      <3> QED
        BY <1>2, <1>3, <2>1, <2>2
    <2>5. o = y
      BY <1>1, <2>1, <2>3, <2>4
    <2> QED
      BY <2>5 DEF o
  <1>5. y - 1 <= M!BaseLength
    <2>0. y # 0
      BY <1>2
    <2>1. M!Asked /\ M!Dot # 0
      BY <2>0, <1>4 DEF NameInv
    <2>2. M!Dot - 1 <= M!BaseLength
      BY <1>1, <2>1, AskedFacts
    <2> QED
      BY <1>4, <2>2
  <1>6. ext' = [x \in 1 .. ExtLength |-> PaddedComponent[y + x]]
    <2>1. ASSUME NEW x \in 1 .. ExtLength PROVE M!At(spot + x, b) = PaddedComponent[y + x]
      <3>1. spot + x < NameLength + 1 /\ (spot + x) + 1 = y + x
        BY <1>1, <1>5, NameConstants
      <3>2. Len(buffer) = NameLength + 1
        BY <1>1, NameConstants, PaddedFacts DEF Seeking
      <3> QED
        BY <1>1, <3>1, <3>2 DEF M!At, Seeking
    <2> QED
      BY <1>0, <2>1
  <1>7. buffer = [x \in 1 .. NameLength + 1 |->
                    IF x <= spot /\ x <= NameLength THEN Expected[x] ELSE PaddedComponent[x]]
    <2>1. \A x \in 1 .. NameLength : x <= spot => x < M!Dot
      BY <1>1, <1>4, NameConstants
    <2>2. \A x \in 1 .. NameLength : x <= spot => Expected[x] = PaddedComponent[x]
      BY <2>1 DEF Expected
    <2>3. \A x \in 1 .. NameLength + 1 :
            PaddedComponent[x] = IF x <= spot /\ x <= NameLength THEN Expected[x] ELSE PaddedComponent[x]
      <3>1. \A x \in 1 .. NameLength + 1 : x <= NameLength => x \in 1 .. NameLength
        BY NameConstants
      <3> QED
        BY <2>2, <3>1
    <2>4. buffer = [x \in 1 .. NameLength + 1 |-> PaddedComponent[x]]
      BY <1>1, PaddedFacts DEF Seeking
    <2> QED
      BY <2>3, <2>4
  <1>8. Placing'
    <2>1. PaddedComponent' = PaddedComponent /\ Expected' = Expected /\ M!Dot' = M!Dot
      BY <1>0, NameKept
    <2>2. M!Dot # 0 /\ spot >= M!Dot - 1
      BY <1>1, <1>2, <1>4
    <2> QED
      BY <1>0, <1>4, <1>6, <1>7, <2>1, <2>2 DEF Placing
  <1>9. M!TypeOK'
    BY <1>0 DEF NameInv, M!TypeOK, ExtLength
  <1>10. M!Asked' /\ IsText(component)' /\ component' = component /\ kind' = kind
    BY <1>0, NameKept DEF NameInv, NameGiven
  <1> QED
    BY <1>0, <1>1, <1>8, <1>9, <1>10 DEF NameInv

LEMMA NameNoDot ==
    ASSUME NameInv, M!NamesFit, M!NoDot
    PROVE  NameInv'
  <1>0. /\ name = "extension" /\ spot < NameLength /\ ~M!HasExt /\ buffer[spot + 1] # "."
        /\ spot' = spot + 1
        /\ NameGiven /\ UNCHANGED <<name, index, buffer, ext, matched>>
    BY DEF M!NoDot, NameGiven, NameLength
  <1>1. Seeking /\ kind = "file"
    BY <1>0, HasExtFacts DEF NameInv
  <1>2. spot \in 1 .. NameLength /\ NameLength \in Nat
    BY NameTypes, NameConstants DEF NameInv
  <1>3. M!TypeOK'
    <2>1. spot' \in 1 .. NameLength
      BY <1>0, <1>2
    <2> QED
      BY <1>0, <2>1, NameTypes, NameTypesNext DEF NameInv
  <1>4. M!Asked' /\ IsText(component)' /\ component' = component /\ kind' = kind
        /\ PaddedComponent' = PaddedComponent
    BY <1>0, NameKept DEF NameInv, NameGiven
  <1>5. Seeking'
    <2>1. ASSUME NEW x \in 2 .. Len(component), x <= spot + 1 PROVE component[x] # "."
      <3>1. CASE x <= spot
        BY <1>1, <3>1 DEF Seeking
      <3>2. CASE x = spot + 1
        <4>1. x \in 1 .. NameLength + 1 /\ x <= Len(component)
          BY <1>0, <1>2, <3>2
        <4>2. buffer[x] = component[x]
          BY <1>1, <4>1, PaddedFacts DEF Seeking
        <4> QED
          BY <1>0, <3>2, <4>2
      <3> QED
        BY <1>2, <2>1, <3>1, <3>2
    <2> QED
      BY <1>0, <1>1, <1>4, <2>1 DEF Seeking, NoExt
  <1> QED
    BY <1>0, <1>1, <1>3, <1>4, <1>5 DEF NameInv

LEMMA NamePlaces ==
    ASSUME NameInv, M!NamesFit, M!Place
    PROVE  NameInv'
  <1>0. /\ name = "extension" /\ spot < NameLength /\ M!HasExt
        /\ buffer' = [buffer EXCEPT ![spot + 1] = M!Placed] /\ spot' = spot + 1
        /\ NameGiven /\ UNCHANGED <<name, index, ext, matched>>
    BY DEF M!Place, NameGiven, NameLength
  <1>1. Placing /\ kind = "file"
    BY <1>0, HasExtFacts DEF NameInv
  <1>2. spot \in 1 .. NameLength /\ NameLength \in Nat /\ DOMAIN buffer = 1 .. NameLength + 1
    BY NameTypes, NameConstants DEF NameInv
  <1>3. M!TypeOK'
    <2>1. spot' \in 1 .. NameLength /\ DOMAIN buffer' = 1 .. NameLength + 1
      BY <1>0, <1>2
    <2> QED
      BY <1>0, <2>1, NameTypes, NameTypesNext DEF NameInv
  <1>4. /\ M!Asked' /\ IsText(component)' /\ component' = component /\ kind' = kind
        /\ PaddedComponent' = PaddedComponent /\ Expected' = Expected /\ M!Dot' = M!Dot
    BY <1>0, NameKept DEF NameInv, NameGiven
  <1>5. M!Dot \in Nat /\ M!Dot - 1 <= spot
    BY <1>1, <1>2, DotFacts DEF NameInv, IsText, M!Dot, Placing
  <1> DEFINE y == spot + 1
  <1>6. y \in 1 .. NameLength /\ ~(y < M!Dot) /\ y \in 1 .. NameLength + 1
    BY <1>0, <1>2, <1>5
  <1>7. M!Placed = Expected[y]
    <2>1. Expected[y] = IF y <= M!BaseLength THEN M!SPACE ELSE PaddedComponent[M!Dot + (y - M!BaseLength)]
      <3> HIDE DEF y
      <3> QED
        BY <1>1, <1>6 DEF Expected
    <2>2. CASE y <= M!BaseLength
      <3>1. ~(spot >= M!BaseLength)
        BY <1>2, <2>2, NameConstants
      <3> QED
        BY <2>1, <2>2, <3>1 DEF M!Placed
    <2>3. CASE ~(y <= M!BaseLength)
      <3>1. spot >= M!BaseLength /\ spot - M!BaseLength + 1 = y - M!BaseLength /\ y - M!BaseLength \in 1 .. ExtLength
        BY <1>0, <1>2, <2>3, NameConstants
      <3>2. M!Placed = ext[y - M!BaseLength]
        BY <3>1 DEF M!Placed
      <3>3. ext[y - M!BaseLength] = PaddedComponent[M!Dot + (y - M!BaseLength)]
        <4> DEFINE z == y - M!BaseLength
        <4> HIDE DEF z
        <4>1. z \in 1 .. ExtLength
          BY <3>1 DEF z
        <4>2. ext[z] = PaddedComponent[M!Dot + z]
          BY <1>1, <4>1 DEF Placing
        <4> QED
          BY <4>2 DEF z
      <3> QED
        BY <2>1, <2>3, <3>2, <3>3
    <2> QED
      BY <2>2, <2>3
  <1>8. buffer' = [x \in 1 .. NameLength + 1 |->
                    IF x <= spot' /\ x <= NameLength THEN Expected[x] ELSE PaddedComponent[x]]
    <2>1. buffer = [x \in 1 .. NameLength + 1 |->
                      IF x <= spot /\ x <= NameLength THEN Expected[x] ELSE PaddedComponent[x]]
      BY <1>1 DEF Placing
    <2>2. ASSUME NEW x \in 1 .. NameLength + 1
          PROVE  buffer'[x] = IF x <= spot' /\ x <= NameLength THEN Expected[x] ELSE PaddedComponent[x]
      <3>1. CASE x = y
        <4>1. buffer'[x] = Expected[y] /\ x <= spot' /\ x <= NameLength
          BY <1>0, <1>2, <1>6, <1>7, <3>1
        <4> QED
          BY <3>1, <4>1
      <3>2. CASE x # y
        <4>1. buffer'[x] = buffer[x] /\ (x <= spot' <=> x <= spot)
          BY <1>0, <1>2, <1>6, <3>2
        <4> QED
          BY <2>1, <4>1
      <3> QED
        BY <3>1, <3>2
    <2>3. buffer' = [x \in 1 .. NameLength + 1 |-> buffer'[x]]
      BY <1>0, <1>2, <2>1
    <2> QED
      BY <2>2, <2>3
  <1>9. Placing'
    <2>1. spot' >= M!Dot - 1
      BY <1>0, <1>2, <1>5
    <2> QED
      BY <1>0, <1>1, <1>4, <1>8, <2>1 DEF Placing
  <1> QED
    BY <1>0, <1>1, <1>3, <1>4, <1>9 DEF NameInv

LEMMA NamePlacedAll ==
    ASSUME NameInv, M!NamesFit, M!PlacedAll
    PROVE  NameInv'
  <1>0. /\ name = "extension" /\ spot = NameLength
        /\ IF M!HasExt THEN name' = "find" /\ matched' = matched
           ELSE name' = "done" /\ matched' = "refused"
        /\ NameGiven /\ UNCHANGED <<index, spot, buffer, ext>>
    BY DEF M!PlacedAll, NameGiven, NameLength
  <1>1. M!TypeOK'
    BY <1>0, NameTypes, NameTypesNext DEF NameInv
  <1>2. /\ M!Asked' /\ IsText(component)' /\ component' = component /\ kind' = kind
        /\ PaddedComponent' = PaddedComponent /\ Expected' = Expected /\ M!Dot' = M!Dot
    BY <1>0, NameKept DEF NameInv, NameGiven
  <1>3. kind = "file" /\ Len(component) <= NameLength /\ IsText(component) /\ matched = "none"
    BY <1>0 DEF NameInv
  <1>4. CASE M!HasExt
    <2>1. Placing
      BY <1>0, <1>4, HasExtFacts DEF NameInv
    <2>2. Placing'
      BY <1>0, <1>2, <2>1 DEF Placing
    <2> QED
      BY <1>0, <1>1, <1>2, <1>3, <1>4, <2>2 DEF NameInv
  <1>5. CASE ~M!HasExt
    <2>1. Seeking
      BY <1>0, <1>5, HasExtFacts DEF NameInv
    <2>2. M!Dot = 0
      <3>1. M!Dot # 0 => M!Dot \in 2 .. Len(component) /\ component[M!Dot] = "."
        BY <1>3, DotFacts DEF IsText, M!Dot
      <3>2. \A x \in 2 .. Len(component) : x <= spot
        BY <1>0, <1>3, NameConstants DEF IsText
      <3> QED
        BY <2>1, <3>1, <3>2 DEF Seeking
    <2> QED
      BY <1>0, <1>1, <1>2, <1>3, <1>5, <2>2 DEF NameInv
  <1> QED
    BY <1>4, <1>5

LEMMA NameFinds ==
    ASSUME NameInv, M!NamesFit, M!Find
    PROVE  NameInv'
  <1>0. /\ name = "find" /\ name' = "done"
        /\ matched' = (IF M!fat12_strcmp(characters, buffer) THEN "opened" ELSE "not found")
        /\ NameGiven /\ UNCHANGED <<index, spot, buffer, ext>>
    BY DEF M!Find, NameGiven
  <1>1. M!TypeOK'
    BY <1>0, NameTypes, NameTypesNext DEF NameInv
  <1>2. /\ M!Asked' /\ IsText(component)' /\ component' = component /\ kind' = kind
        /\ Expected' = Expected /\ M!Dot' = M!Dot /\ characters' = characters
    BY <1>0, NameKept DEF NameInv, NameGiven
  <1>3. kind \in {"file", "dir"} /\ Len(component) <= NameLength
    BY <1>0, AskedFacts DEF NameInv
  <1>4. ASSUME NEW x \in 1 .. NameLength PROVE buffer[x] = Expected[x]
    <2>0. x \in 1 .. NameLength + 1 /\ x <= NameLength
      BY NameConstants
    <2>1. CASE kind = "dir"
      BY <1>0, <2>0, <2>1 DEF NameInv, Expected
    <2>2. CASE kind = "file"
      <3>1. Placing /\ spot = NameLength
        BY <1>0, <2>2 DEF NameInv
      <3> QED
        BY <2>0, <3>1 DEF Placing
    <2> QED
      BY <1>3, <2>1, <2>2
  <1>5. kind = "file" => M!Dot # 0
    BY <1>0 DEF NameInv, Placing
  <1>6. matched' = "opened" <=> \A x \in 1 .. NameLength : characters[x] = Expected[x]
    <2>1. M!fat12_strcmp(characters, buffer) <=> \A x \in 1 .. NameLength : characters[x] = buffer[x]
      BY DEF M!fat12_strcmp, NameLength
    <2> QED
      BY <1>0, <1>4, <2>1
  <1>7. matched' # "none" /\ matched' # "refused"
    BY <1>0
  <1> QED
    BY <1>0, <1>1, <1>2, <1>3, <1>5, <1>6, <1>7 DEF NameInv

LEMMA NameStutters ==
    ASSUME NameInv, UNCHANGED naming
    PROVE  NameInv'
  <1>0. NameGiven /\ UNCHANGED <<name, index, spot, buffer, ext, matched>>
    BY DEF naming, NameGiven
  <1>1. M!TypeOK'
    BY <1>0, NameTypes, NameTypesNext DEF NameInv
  <1>2. /\ M!Asked' /\ IsText(component)' /\ component' = component /\ kind' = kind
        /\ PaddedComponent' = PaddedComponent
        /\ Expected' = Expected /\ M!Dot' = M!Dot /\ characters' = characters
    BY <1>0, NameKept DEF NameInv, NameGiven
  <1>3. Seeking' = Seeking /\ Placing' = Placing
    BY <1>0, <1>2 DEF Seeking, Placing, NoExt
  <1> QED
    BY <1>0, <1>1, <1>2, <1>3 DEF NameInv, NoExt

LEMMA NameStep ==
    ASSUME M!NamesFit, NameInv, [M!Next]_naming
    PROVE  NameInv'
  BY NameCopies, NameRefused, NameCopied, NameFindsDot, NameNoDot, NamePlaces, NamePlacedAll,
     NameFinds, NameStutters DEF M!Next

LEMMA NameTypesStep ==
    ASSUME M!TypeOK, [M!Next]_naming
    PROVE  M!TypeOK'
  <1>0. /\ name \in {"copy", "extension", "find", "done"}
        /\ index \in 0 .. NameLength /\ spot \in 1 .. NameLength
        /\ DOMAIN buffer = 1 .. NameLength + 1 /\ DOMAIN ext = 1 .. ExtLength
        /\ matched \in {"none", "opened", "not found", "refused"} /\ NameLength \in Nat
    BY NameTypes, NameConstants
  <1>1. CASE M!Copy
    <2>1. /\ index # NameLength /\ index' = index + 1 /\ UNCHANGED <<name, spot, ext, matched>>
          /\ DOMAIN buffer' = DOMAIN buffer
      BY <1>1 DEF M!Copy, M!Full, NameLength
    <2>2. index \in 0 .. NameLength /\ NameLength \in Nat /\ index # NameLength /\ index' = index + 1
      BY <1>0, <2>1
    <2>3. index' \in 0 .. NameLength
      BY <2>2
    <2> QED
      BY <1>0, <2>1, <2>3, NameTypesNext
  <1>2. CASE M!Refuse \/ M!Copied \/ M!PlacedAll \/ M!Find
    <2>1. /\ UNCHANGED <<index, spot, buffer, ext>> /\ name' \in {"extension", "find", "done"}
          /\ matched' \in {"opened", "not found", "refused", matched}
      BY <1>2 DEF M!Refuse, M!Copied, M!PlacedAll, M!Find
    <2> QED
      BY <1>0, <2>1, NameTypesNext
  <1>3. ASSUME NEW b, M!FindDot(b) PROVE M!TypeOK'
    <2>1. DOMAIN ext' = 1 .. ExtLength /\ UNCHANGED <<name, index, spot, buffer, matched>>
      BY <1>3 DEF M!FindDot, ExtLength
    <2> QED
      BY <1>0, <2>1, NameTypesNext
  <1>4. CASE M!NoDot \/ M!Place
    <2>1. /\ spot < NameLength /\ spot' = spot + 1 /\ UNCHANGED <<name, index, ext, matched>>
          /\ DOMAIN buffer' = DOMAIN buffer
      BY <1>4 DEF M!NoDot, M!Place, NameLength
    <2>2. spot \in 1 .. NameLength /\ NameLength \in Nat /\ spot < NameLength /\ spot' = spot + 1
      BY <1>0, <2>1
    <2>3. spot' \in 1 .. NameLength
      BY <2>2
    <2> QED
      BY <1>0, <2>1, <2>3, NameTypesNext
  <1>5. CASE UNCHANGED naming
    BY <1>0, <1>5, NameTypesNext DEF naming
  <1> QED
    BY <1>1, <1>2, <1>3, <1>4, <1>5 DEF M!Next

\* What is expected of an entry is what the component names.
LEMMA ExpectedOfFile ==
    ASSUME NameInv, M!NamesFit, kind = "file", M!Dot # 0, Len(component) <= NameLength
    PROVE  LET n == M!Pad(SubSeq(component, 1, M!Dot - 1), M!BaseLength)
               e == M!Pad(SubSeq(component, M!Dot + 1, Len(component)), ExtLength)
           IN  /\ M!Dot - 1 <= M!BaseLength /\ Len(component) - M!Dot <= ExtLength
               /\ Expected = n \o e
  <1> DEFINE d == M!Dot
             a == SubSeq(component, 1, d - 1)
             b == SubSeq(component, d + 1, Len(component))
             n == M!Pad(a, M!BaseLength)
             e == M!Pad(b, ExtLength)
  <1>0. /\ NameLength \in Nat /\ ExtLength \in Nat /\ ExtLength > 0
        /\ M!BaseLength \in Nat /\ M!BaseLength > 0 /\ NameLength = M!BaseLength + ExtLength
    BY NameConstants
  <1>1. component \in Seq(Chars) /\ Len(component) \in Nat /\ M!Asked
    <2>1. IsText(component) /\ M!Asked
      BY DEF NameInv
    <2> QED
      BY <2>1 DEF IsText
  <1>2. d \in 2 .. Len(component)
    BY <1>1, DotFacts DEF M!Dot
  <1>3. d - 1 <= M!BaseLength /\ Len(component) - d <= ExtLength
    BY <1>1, AskedFacts
  <1> HIDE DEF d
  <1>4. Len(a) = d - 1 /\ \A x \in 1 .. d - 1 : a[x] = component[x]
    BY <1>1, <1>2
  <1>5. Len(b) = Len(component) - d /\ \A x \in 1 .. Len(component) - d : b[x] = component[d + x]
    BY <1>1, <1>2
  <1> HIDE DEF a, b
  <1>6. n = [x \in 1 .. M!BaseLength |-> IF x <= d - 1 THEN a[x] ELSE M!SPACE]
    BY <1>4 DEF M!Pad
  <1>7. e = [x \in 1 .. ExtLength |-> IF x <= Len(component) - d THEN b[x] ELSE M!SPACE]
    BY <1>5 DEF M!Pad
  <1> HIDE DEF n, e
  <1>8. n \in Seq(Range(n)) /\ e \in Seq(Range(e)) /\ Len(n) = M!BaseLength /\ Len(e) = ExtLength
    BY <1>0, <1>6, <1>7 DEF Range
  <1>9. n \o e = [x \in 1 .. NameLength |-> IF x <= M!BaseLength THEN n[x] ELSE e[x - M!BaseLength]]
    <2> DEFINE S == Range(n) \cup Range(e)
               w == n \o e
    <2>1. n \in Seq(S) /\ e \in Seq(S)
      BY <1>8
    <2> HIDE DEF S
    <2>2. /\ w \in Seq(S) /\ Len(w) = Len(n) + Len(e)
          /\ \A x \in 1 .. Len(n) + Len(e) : w[x] = IF x <= Len(n) THEN n[x] ELSE e[x - Len(n)]
      BY <2>1, ConcatProperties, Zenon
    <2> HIDE DEF w
    <2>3. w = [x \in 1 .. Len(w) |-> w[x]]
      BY <2>2
    <2>4. Len(w) = NameLength
      BY <1>0, <1>8, <2>2
    <2>5. \A x \in 1 .. NameLength : w[x] = IF x <= M!BaseLength THEN n[x] ELSE e[x - M!BaseLength]
      BY <1>0, <1>8, <2>2
    <2>6. w = [x \in 1 .. NameLength |-> IF x <= M!BaseLength THEN n[x] ELSE e[x - M!BaseLength]]
      BY <2>3, <2>4, <2>5
    <2> QED
      BY <2>6 DEF w
  <1>10. ASSUME NEW x \in 1 .. NameLength
         PROVE  Expected[x] = IF x <= M!BaseLength THEN n[x] ELSE e[x - M!BaseLength]
    <2>0. Expected[x] = IF x < d THEN PaddedComponent[x]
                        ELSE IF x <= M!BaseLength THEN M!SPACE
                        ELSE PaddedComponent[d + (x - M!BaseLength)]
      BY DEF Expected, d
    <2>1. CASE x < d
      <3>1. /\ x \in 1 .. d - 1 /\ x \in 1 .. M!BaseLength /\ x <= Len(component) /\ x <= M!BaseLength
            /\ x <= d - 1 /\ x \in 1 .. NameLength + 1
        BY <1>0, <1>2, <1>3, <2>1
      <3>2. PaddedComponent[x] = component[x]
        BY <3>1, PaddedFacts
      <3>3. n[x] = a[x]
        BY <1>6, <3>1
      <3>4. a[x] = component[x]
        BY <1>4, <3>1
      <3> QED
        BY <2>0, <2>1, <3>1, <3>2, <3>3, <3>4
    <2>2. CASE ~(x < d) /\ x <= M!BaseLength
      <3>1. x \in 1 .. M!BaseLength /\ ~(x <= d - 1)
        BY <1>0, <1>2, <2>2
      <3>2. n[x] = M!SPACE
        BY <1>6, <3>1
      <3> QED
        BY <2>0, <2>2, <3>2
    <2>3. CASE ~(x < d) /\ ~(x <= M!BaseLength)
      <3> DEFINE y == x - M!BaseLength
                 z == d + y
      <3>1. y \in 1 .. ExtLength /\ y \in Int /\ d \in Int
        BY <1>0, <1>2, <2>3
      <3>2. Expected[x] = PaddedComponent[z]
        BY <2>0, <2>3
      <3>3. z \in 1 .. NameLength + 1 /\ (z <= Len(component) <=> y <= Len(component) - d)
        BY <1>0, <1>1, <1>2, <1>3, <3>1
      <3>4. (y <= Len(component) - d) => y \in 1 .. Len(component) - d
        BY <3>1
      <3> HIDE DEF y
      <3>5. e[y] = IF y <= Len(component) - d THEN b[y] ELSE M!SPACE
        BY <1>7, <3>1
      <3>6. (y <= Len(component) - d) => b[y] = component[d + y]
        BY <1>5, <3>4
      <3>7. PaddedComponent[z] = IF z <= Len(component) THEN component[z] ELSE M!SPACE
        <4> HIDE DEF z
        <4> QED
          BY <3>3, PaddedFacts
      <3>8. Expected[x] = e[y]
        BY <3>2, <3>3, <3>5, <3>6, <3>7
      <3> QED
        BY <2>3, <3>8 DEF y
    <2> QED
      BY <2>1, <2>2, <2>3
  <1>11. Expected = [x \in 1 .. NameLength |-> Expected[x]]
    BY DEF Expected
  <1>12. Expected = n \o e
    BY <1>9, <1>10, <1>11
  <1> QED
    BY <1>3, <1>12 DEF n, e, a, b, d

\* A text is what it holds at its places.
LEMMA EntryIsFunction ==
    ASSUME M!Asked
    PROVE  characters = [x \in 1 .. NameLength |-> characters[x]]
  <1>1. characters \in Seq(Chars) /\ Len(characters) = NameLength
    BY AskedFacts, GivenEntries DEF IsText
  <1> QED
    BY <1>1

LEMMA NamesOwn ==
    ASSUME NameInv, M!NamesFit
    PROVE  M!OwnName
  <1> SUFFICES ASSUME matched = "opened"
               PROVE  IF kind = "dir" THEN M!Pad(component, NameLength) = characters
                      ELSE /\ M!Dot # 0
                           /\ M!Dot - 1 <= M!BaseLength /\ Len(component) - M!Dot <= ExtLength
                           /\ characters = M!Pad(SubSeq(component, 1, M!Dot - 1), M!BaseLength)
                                \o M!Pad(SubSeq(component, M!Dot + 1, Len(component)), ExtLength)
    BY DEF M!OwnName, NameLength, ExtLength
  <1>1. name = "done" /\ M!Asked
    BY NameTypes DEF NameInv
  <1>2. /\ Len(component) <= NameLength /\ (kind = "file" => M!Dot # 0)
        /\ \A x \in 1 .. NameLength : characters[x] = Expected[x]
    BY <1>1 DEF NameInv
  <1>3. characters = Expected
    <2>1. Expected = [x \in 1 .. NameLength |-> Expected[x]]
      BY DEF Expected
    <2> QED
      BY <1>1, <1>2, <2>1, EntryIsFunction
  <1>4. kind \in {"file", "dir"}
    BY <1>1, AskedFacts
  <1>5. CASE kind = "dir"
    <2>1. \A x \in 1 .. NameLength : x \in 1 .. NameLength + 1
      BY NameConstants
    <2>2. \A x \in 1 .. NameLength :
            Expected[x] = IF x <= Len(component) THEN component[x] ELSE M!SPACE
      BY <1>5, <2>1, PaddedFacts DEF Expected
    <2>3. Expected = [x \in 1 .. NameLength |-> Expected[x]]
      BY DEF Expected
    <2> QED
      BY <1>3, <1>5, <2>2, <2>3 DEF M!Pad
  <1>6. CASE kind = "file"
    BY <1>2, <1>3, <1>6, ExpectedOfFile
  <1> QED
    BY <1>4, <1>5, <1>6

\* What a listing shows of an entry is what is expected of it.
LEMMA ListedExpected ==
    ASSUME NameInv, M!NamesFit, listed, Len(component) <= NameLength
    PROVE  /\ kind = "file" => M!Dot # 0
           /\ \A x \in 1 .. NameLength : characters[x] = Expected[x]
  <1>0. /\ NameLength \in Nat /\ ExtLength \in Nat /\ ExtLength > 0
        /\ M!BaseLength \in Nat /\ M!BaseLength > 0 /\ NameLength = M!BaseLength + ExtLength
    BY NameConstants
  <1>1. M!Asked /\ kind \in {"file", "dir"} /\ characters \in Files \cup Directories
    BY AskedFacts DEF NameInv
  <1>2. IsText(characters) /\ Len(characters) = NameLength
    BY <1>1, GivenEntries
  <1>3. CASE kind = "dir"
    <2>1. component = M!Trimmed(characters)
      BY <1>1, <1>3 DEF M!Asked, M!fat12_format_dir_name
    <2>2. /\ Len(component) \in 0 .. Len(characters)
          /\ \A x \in 1 .. Len(component) : component[x] = characters[x]
          /\ \A x \in Len(component) + 1 .. Len(characters) : characters[x] = M!SPACE
      BY <1>2, <2>1, TrimmedFacts DEF IsText
    <2>3. ASSUME NEW x \in 1 .. NameLength PROVE characters[x] = Expected[x]
      <3>1. x \in 1 .. NameLength + 1
        BY <1>0
      <3>2. Expected[x] = IF x <= Len(component) THEN component[x] ELSE M!SPACE
        BY <1>3, <3>1, PaddedFacts DEF Expected
      <3>3. x \in 1 .. Len(component) \/ x \in Len(component) + 1 .. Len(characters)
        BY <1>0, <1>2, <2>2
      <3>4. x \in 1 .. Len(component) <=> x <= Len(component)
        BY <1>0, <2>2
      <3> QED
        BY <2>2, <3>2, <3>3, <3>4
    <2> QED
      BY <1>3, <2>3
  <1>4. CASE kind = "file"
    <2>1. component = M!fat12_format_file_name(characters) /\ characters \in Files
      BY <1>1, <1>4, AskedFacts DEF M!Asked
    <2> DEFINE t == M!DotOf(component) - 1
    <2>2. /\ M!DotOf(component) # 0
          /\ t \in 1 .. M!BaseLength /\ Len(component) = t + 1 + ExtLength
          /\ \A x \in 1 .. t : component[x] = characters[x]
          /\ \A x \in t + 1 .. M!BaseLength : characters[x] = M!SPACE
          /\ \A x \in 1 .. ExtLength : component[t + 1 + x] = characters[M!BaseLength + x]
      BY <2>1, ListedFile
    <2>3. M!DotOf(component) \in Nat
      BY DotFacts DEF NameInv, IsText
    <2>4. M!Dot = t + 1
      BY <2>3 DEF M!Dot
    <2> HIDE DEF t
    <2>5. ASSUME NEW x \in 1 .. NameLength PROVE characters[x] = Expected[x]
      <3>0. Expected[x] = IF x < t + 1 THEN PaddedComponent[x]
                          ELSE IF x <= M!BaseLength THEN M!SPACE
                          ELSE PaddedComponent[(t + 1) + (x - M!BaseLength)]
        BY <1>4, <2>4 DEF Expected
      <3>1. CASE x < t + 1
        <4>1. x \in 1 .. t /\ x \in 1 .. NameLength + 1 /\ x <= Len(component)
          BY <1>0, <2>2, <3>1
        <4>2. PaddedComponent[x] = component[x]
          BY <4>1, PaddedFacts
        <4> QED
          BY <2>2, <3>0, <3>1, <4>1, <4>2
      <3>2. CASE ~(x < t + 1) /\ x <= M!BaseLength
        <4>1. x \in t + 1 .. M!BaseLength
          BY <1>0, <2>2, <3>2
        <4> QED
          BY <2>2, <3>0, <3>2, <4>1
      <3>3. CASE ~(x < t + 1) /\ ~(x <= M!BaseLength)
        <4> DEFINE y == x - M!BaseLength
                   z == (t + 1) + y
        <4>1. y \in 1 .. ExtLength /\ M!BaseLength + y = x
          BY <1>0, <3>3
        <4>2. z \in 1 .. NameLength + 1 /\ z <= Len(component)
          BY <1>0, <2>2, <4>1
        <4>3. Expected[x] = PaddedComponent[z]
          BY <3>0, <3>3
        <4>4. PaddedComponent[z] = component[z]
          <5> HIDE DEF z
          <5> QED
            BY <4>2, PaddedFacts
        <4> HIDE DEF y
        <4>5. component[t + 1 + y] = characters[M!BaseLength + y]
          BY <2>2, <4>1
        <4> QED
          BY <4>1, <4>3, <4>4, <4>5
      <3> QED
        BY <3>1, <3>2, <3>3
    <2> QED
      BY <2>2, <2>5 DEF M!Dot
  <1> QED
    BY <1>1, <1>3, <1>4

LEMMA NamesListed ==
    ASSUME NameInv, M!NamesFit
    PROVE  M!ShortListedOpens
  <1> SUFFICES ASSUME name = "done", listed, Len(component) <= NameLength
               PROVE  matched = "opened"
    BY DEF M!ShortListedOpens, NameLength
  <1>1. /\ kind = "file" => M!Dot # 0
        /\ \A x \in 1 .. NameLength : characters[x] = Expected[x]
    BY ListedExpected
  <1>2. matched \in {"none", "opened", "not found", "refused"} /\ matched # "none"
    BY NameTypes DEF NameInv
  <1>3. Len(component) \in Nat /\ NameLength \in Nat
    <2>1. IsText(component)
      BY DEF NameInv
    <2> QED
      BY <2>1, NameConstants DEF IsText
  <1>4. matched # "refused"
    <2>1. ~(Len(component) > NameLength) /\ ~(kind = "file" /\ M!Dot = 0)
      BY <1>1, <1>3
    <2>2. matched = "refused" => Len(component) > NameLength \/ (kind = "file" /\ M!Dot = 0)
      BY DEF NameInv
    <2> QED
      BY <2>1, <2>2
  <1>5. matched # "not found"
    BY <1>1 DEF NameInv
  <1> QED
    BY <1>2, <1>4, <1>5

(***************************************************************************)
LEMMA Division ==
    ASSUME NEW a \in Int, NEW y \in Nat, y > 0
    PROVE  /\ a = y * (a \div y) + (a % y)
           /\ a \div y \in Int /\ a % y \in Int /\ 0 <= a % y /\ a % y < y
  OBVIOUS

\* Factors are ordered as their products are.
LEMMA Factor ==
    ASSUME NEW y \in Nat, NEW p \in Int, NEW q \in Int, p < q
    PROVE  y * p + y <= y * q
  <1>1. PICK e \in Nat : q = p + 1 + e
    <2>1. q - p - 1 \in Nat /\ q = p + 1 + (q - p - 1)
      OBVIOUS
    <2> QED
      BY <2>1
  <1>2. y * q = y * p + y + y * e
    BY <1>1
  <1>3. y * e >= 0
    OBVIOUS
  <1> QED
    BY <1>2, <1>3

\* The quotient and the remainder are the only ones.
LEMMA DivisionUnique ==
    ASSUME NEW y \in Nat, NEW q \in Int, NEW r \in Int, 0 <= r, r < y
    PROVE  (y * q + r) \div y = q /\ (y * q + r) % y = r
  <1> DEFINE a == y * q + r
             s == a \div y
             t == a % y
  <1>1. a \in Int /\ y > 0
    OBVIOUS
  <1>2. y * q + r = y * s + t /\ s \in Int /\ t \in Int /\ 0 <= t /\ t < y
    BY <1>1, Division
  <1> HIDE DEF s, t
  <1>3. ~(s < q)
    <2> SUFFICES ASSUME s < q PROVE FALSE
      OBVIOUS
    <2>1. y * s + y <= y * q
      BY <1>2, Factor
    <2> QED
      BY <2>1, <1>2
  <1>4. ~(q < s)
    <2> SUFFICES ASSUME q < s PROVE FALSE
      OBVIOUS
    <2>1. y * q + y <= y * s
      BY <1>2, Factor
    <2> QED
      BY <2>1, <1>2
  <1>5. s = q
    BY <1>2, <1>3, <1>4
  <1>6. t = r
    BY <1>2, <1>5
  <1> QED
    BY <1>5, <1>6 DEF s, t


-----------------------------------------------------------------------------
(***************************************************************************)
(* Elf.                                                                    *)
(***************************************************************************)
Secs == object.sections

InFile == {n \in DOMAIN Secs : Secs[n].alloc}

LEMMA ElfConstants ==
    /\ Base \in Nat /\ Word \in Nat /\ Word > 0
  BY LoadersAssumption DEF L!ElfAssumption

LEMMA ElfSections ==
    ASSUME object \in Objects
    PROVE  /\ Secs \in Seq(L!Section) /\ Len(Secs) \in Nat /\ Len(Secs) > 0
           /\ DOMAIN Secs = 1 .. Len(Secs) /\ object.entry \in Nat
  <1>1. Secs \in Seq(L!Section) /\ Secs # <<>> /\ object.entry \in Nat
    BY LoadersAssumption DEF L!ElfAssumption, Secs
  <1> QED
    BY <1>1

LEMMA ElfSection ==
    ASSUME object \in Objects, NEW n \in DOMAIN Secs
    PROVE  /\ Secs[n].addr \in Nat /\ Secs[n].size \in Nat /\ Secs[n].alloc \in BOOLEAN
           /\ Secs[n].words \in Seq(0 .. Word - 1)
           /\ Secs[n].info \in DOMAIN Secs
           /\ Secs[n].rels \in Seq([type : STRING, sym : Nat, offset : Nat])
           /\ L!IsCopied(Secs[n]) => Len(Secs[n].words) = Secs[n].size
  <1>1. Secs[n] \in L!Section
    BY ElfSections
  <1>2. /\ Secs[n].info \in DOMAIN Secs
        /\ L!IsCopied(Secs[n]) => Len(Secs[n].words) = Secs[n].size
    BY LoadersAssumption DEF L!ElfAssumption, Secs
  <1> QED
    BY <1>1, <1>2 DEF L!Section

LEMMA ElfRels ==
    ASSUME object \in Objects, NEW n \in DOMAIN Secs
    PROVE  /\ Len(L!RelEntries(n)) \in Nat
           /\ DOMAIN L!RelEntries(n) = 1 .. Len(L!RelEntries(n))
           /\ Secs[n].type # "REL" => L!RelEntries(n) = <<>>
           /\ Secs[n].type = "REL" => L!RelEntries(n) = Secs[n].rels
  <1>1. L!RelEntries(n) = IF Secs[n].type = "REL" THEN Secs[n].rels ELSE <<>>
    BY DEF L!RelEntries, L!Sections, Secs
  <1>2. Secs[n].rels \in Seq([type : STRING, sym : Nat, offset : Nat])
    BY ElfSection
  <1> QED
    BY <1>1, <1>2

\* Members of sequences.
LEMMA MemberOfSeq ==
    ASSUME NEW S, NEW q \in Seq(S), NEW n \in DOMAIN q
    PROVE  q[n] \in S
  OBVIOUS

LEMMA ElfRel ==
    ASSUME object \in Objects, NEW n \in DOMAIN Secs, NEW e \in DOMAIN L!RelEntries(n)
    PROVE  LET r == L!RelEntries(n)[e]
           IN  /\ r.offset \in Nat /\ Secs[n].type = "REL" /\ r = Secs[n].rels[e]
               /\ e \in DOMAIN Secs[n].rels
               /\ r.sym \in {0} \cup DOMAIN object.symbols
               /\ r.sym # 0 => /\ object.symbols[r.sym].value \in Nat
                               /\ object.symbols[r.sym].shndx \in {L!UNDEF, L!ABS} \cup DOMAIN Secs
  <1>1. Secs[n].type = "REL" /\ L!RelEntries(n) = Secs[n].rels
    BY ElfRels
  <1>2. Secs[n].rels[e] \in [type : STRING, sym : Nat, offset : Nat]
    <2>1. Secs[n].rels \in Seq([type : STRING, sym : Nat, offset : Nat])
      BY ElfSection
    <2> DEFINE q == Secs[n].rels
    <2>2. e \in DOMAIN q
      BY <1>1
    <2> HIDE DEF q
    <2>3. q \in Seq([type : STRING, sym : Nat, offset : Nat])
      BY <2>1 DEF q
    <2>4. q[e] \in [type : STRING, sym : Nat, offset : Nat]
      BY <2>2, <2>3, MemberOfSeq
    <2> QED
      BY <2>4 DEF q
  <1>3. Secs[n].rels[e].sym \in {0} \cup DOMAIN object.symbols
    BY <1>1, LoadersAssumption DEF L!ElfAssumption, Secs
  <1>4. ASSUME NEW m \in DOMAIN object.symbols
        PROVE  /\ object.symbols[m].value \in Nat
               /\ object.symbols[m].shndx \in {L!UNDEF, L!ABS} \cup DOMAIN Secs
    <2>1. object.symbols \in Seq([shndx : Int, value : Nat])
      BY LoadersAssumption DEF L!ElfAssumption
    <2>2. object.symbols[m] \in [shndx : Int, value : Nat]
      <3> DEFINE q == object.symbols
      <3>1. m \in DOMAIN q /\ q \in Seq([shndx : Int, value : Nat])
        BY <2>1
      <3> HIDE DEF q
      <3>2. q[m] \in [shndx : Int, value : Nat]
        BY <3>1, MemberOfSeq
      <3> QED
        BY <3>2 DEF q
    <2>3. object.symbols[m].shndx \in {L!UNDEF, L!ABS} \cup DOMAIN Secs
      BY LoadersAssumption DEF L!ElfAssumption, Secs
    <2> QED
      BY <2>2, <2>3
  <1> QED
    BY <1>1, <1>2, <1>3, <1>4

\* The image is long enough for every section that is part of it.
LEMMA ElfImageLength ==
    ASSUME object \in Objects
    PROVE  /\ L!ImageLength \in Nat
           /\ \A n \in InFile : Secs[n].addr + Secs[n].size <= L!ImageLength
  <1> DEFINE S == {0} \cup {Secs[n].addr + Secs[n].size : n \in InFile}
             U == {b \in Nat : \A x \in S : x <= b}
             P == {k \in Nat : k <= Len(Secs) =>
                      \E b \in Nat : \A n \in 1 .. k : n \in InFile => Secs[n].addr + Secs[n].size <= b}
  <1>1. L!ImageLength = L!Max(S)
    BY DEF L!ImageLength, L!Sections, Secs, InFile
  <1>2. Len(Secs) \in Nat /\ DOMAIN Secs = 1 .. Len(Secs)
    BY ElfSections
  <1>3. \A n \in InFile : Secs[n].addr + Secs[n].size \in Nat /\ n \in 1 .. Len(Secs)
    BY <1>2, ElfSection DEF InFile
  <1>4. 0 \in P
    OBVIOUS
  <1>5. ASSUME NEW k \in P, k \in Nat PROVE k + 1 \in P
    <2> SUFFICES ASSUME k + 1 <= Len(Secs)
                 PROVE  \E b \in Nat : \A n \in 1 .. k + 1 :
                            n \in InFile => Secs[n].addr + Secs[n].size <= b
      BY <1>5
    <2>1. PICK b \in Nat : \A n \in 1 .. k : n \in InFile => Secs[n].addr + Secs[n].size <= b
      <3>1. k <= Len(Secs)
        BY <1>2, <1>5
      <3> QED
        BY <1>5, <3>1
    <2>2. CASE k + 1 \notin InFile
      <3>1. \A n \in 1 .. k + 1 : n \in InFile => n \in 1 .. k
        BY <1>5, <2>2
      <3> QED
        BY <2>1, <3>1
    <2>3. CASE k + 1 \in InFile
      <3> DEFINE z == Secs[k + 1].addr + Secs[k + 1].size
      <3>1. z \in Nat
        BY <1>3, <2>3
      <3>2. \A n \in 1 .. k + 1 : n \in InFile /\ n # k + 1 => n \in 1 .. k
        BY <1>5
      <3>3. \A n \in 1 .. k + 1 : n \in InFile => Secs[n].addr + Secs[n].size \in Nat
        BY <1>3
      <3>4. \A n \in 1 .. k + 1 : n \in InFile => Secs[n].addr + Secs[n].size <= b + z
        <4>1. ASSUME NEW n \in 1 .. k + 1, n \in InFile PROVE Secs[n].addr + Secs[n].size <= b + z
          <5>1. CASE n = k + 1
            <6>1. Secs[n].addr + Secs[n].size = z
              BY <5>1
            <6> HIDE DEF z
            <6> QED
              BY <3>1, <6>1
          <5>2. CASE n # k + 1
            <6>1. Secs[n].addr + Secs[n].size <= b /\ Secs[n].addr + Secs[n].size \in Nat
              BY <2>1, <3>2, <3>3, <4>1, <5>2
            <6> HIDE DEF z
            <6> QED
              BY <3>1, <6>1
          <5> QED
            BY <5>1, <5>2
        <4> QED
          BY <4>1
      <3>5. b + z \in Nat
        BY <3>1
      <3> HIDE DEF z
      <3> QED
        BY <3>4, <3>5
    <2> QED
      BY <2>2, <2>3
  <1>6. Len(Secs) \in P
    <2> HIDE DEF P
    <2> QED
      BY <1>2, <1>4, <1>5, SetInduction
  <1>7. PICK b \in Nat : \A n \in 1 .. Len(Secs) : n \in InFile => Secs[n].addr + Secs[n].size <= b
    BY <1>2, <1>6
  <1>8. S \subseteq Nat /\ 0 \in S
    BY <1>3
  <1>9. b \in U
    BY <1>3, <1>7
  <1>10. S = S /\ U \subseteq Nat
    OBVIOUS
  <1> HIDE DEF S
  <1> DEFINE l == Min(U)
  <1>11. l \in U /\ \A n \in U : l <= n
    <2> HIDE DEF U
    <2> QED
      BY <1>9, <1>10, LeastMember
  <1> HIDE DEF l
  <1>12. l \in S
    <2> SUFFICES ASSUME l \notin S PROVE FALSE
      OBVIOUS
    <2>1. l \in Nat /\ l # 0 /\ \A x \in S : x \in Nat /\ x <= l /\ x # l
      BY <1>8, <1>11
    <2>2. l - 1 \in Nat /\ \A x \in S : x <= l - 1
      BY <2>1
    <2>3. l <= l - 1
      BY <1>11, <2>2
    <2> QED
      BY <2>1, <2>3
  <1>13. \A x \in S : l >= x
    BY <1>8, <1>11
  <1>14. L!Max(S) \in S /\ \A x \in S : L!Max(S) >= x
    BY <1>12, <1>13 DEF L!Max
  <1>15. L!ImageLength \in Nat /\ \A x \in S : x <= L!ImageLength
    BY <1>1, <1>8, <1>14
  <1> QED
    BY <1>15 DEF S

-----------------------------------------------------------------------------
\* Memory holds words.
Words(f) == \A a \in DOMAIN f : f[a] \in 0 .. Word - 1

LEMMA ElfTypes ==
    L!TypeOK <=> /\ section \in DOMAIN Secs /\ rel \in Nat \ {0}
                 /\ elf \in {"check", "length", "copy", "relocate", "finish", "done", "failed", "halt"}
                 /\ Words(image) /\ strays \subseteq Nat /\ start \in Nat \cup {-1}
  BY DEF L!TypeOK, L!Sections, Secs, Words, L!UNSET

LEMMA ElfTypesNext ==
    L!TypeOK' <=> /\ section' \in DOMAIN Secs' /\ rel' \in Nat \ {0}
                  /\ elf' \in {"check", "length", "copy", "relocate", "finish", "done", "failed", "halt"}
                  /\ Words(image') /\ strays' \subseteq Nat /\ start' \in Nat \cup {-1}
  BY DEF L!TypeOK, L!Sections, Secs, Words, L!UNSET

LEMMA ElfStores ==
    ASSUME NEW w, L!StoreAll(w), Words(w), Words(image)
    PROVE  Words(image') /\ DOMAIN image' = DOMAIN image
  BY DEF L!StoreAll, Words

\* What Copy stores.
Contents(n) ==
    [a \in Secs[n].addr .. Secs[n].addr + Secs[n].size - 1 |-> Secs[n].words[a - Secs[n].addr + 1]]

LEMMA ElfContents ==
    ASSUME object \in Objects, NEW n \in DOMAIN Secs, L!IsCopied(Secs[n])
    PROVE  Words(Contents(n)) /\ DOMAIN Contents(n) \subseteq Nat
  <1> DEFINE b == Secs[n].addr
             z == Secs[n].size
             q == Secs[n].words
  <1>1. b \in Nat /\ z \in Nat /\ q \in Seq(0 .. Word - 1) /\ Len(q) = z
    BY ElfSection
  <1>2. Contents(n) = [a \in b .. b + z - 1 |-> q[a - b + 1]]
    BY DEF Contents
  <1> HIDE DEF b, z, q
  <1>3. \A a \in b .. b + z - 1 : a - b + 1 \in 1 .. Len(q) /\ a \in Nat
    BY <1>1
  <1>4. \A x \in 1 .. Len(q) : q[x] \in 0 .. Word - 1
    <2> DEFINE W == 0 .. Word - 1
    <2> HIDE DEF W
    <2>1. q \in Seq(W)
      BY <1>1 DEF W
    <2>2. \A x \in 1 .. Len(q) : q[x] \in W
      BY <2>1
    <2> QED
      BY <2>2 DEF W
  <1>5. \A a \in b .. b + z - 1 : q[a - b + 1] \in 0 .. Word - 1
    BY <1>3, <1>4
  <1> QED
    BY <1>2, <1>3, <1>5 DEF Words

\* What Copy does.
LEMMA ElfCopies ==
    ASSUME L!Copy
    PROVE  /\ elf = "copy" /\ UNCHANGED <<object, rel, start>>
           /\ IF L!IsCopied(Secs[section]) THEN L!StoreAll(Contents(section))
              ELSE UNCHANGED <<image, strays>>
           /\ IF section = Len(Secs) THEN section' = 1 /\ elf' = "relocate"
              ELSE section' = section + 1 /\ elf' = elf
  BY DEF L!Copy, L!Sections, Secs, Contents

\* The entry that is next, and the section it applies to.
Applied == Secs[Secs[section].info]

Spot == Applied.addr + L!Rel.offset

Stored == [a \in {Spot} |-> L!elf_rel_sym(IF Spot \in DOMAIN image THEN image[Spot] ELSE 0, Spot)]

LEMMA ElfRelocates ==
    ASSUME L!Relocate
    PROVE  /\ L!HasEntry /\ L!Rel.type \in {"32", "PC32"} /\ L!Rel.sym # 0 /\ L!Sym.shndx # L!UNDEF
           /\ L!StoreAll(Stored) /\ rel' = rel + 1 /\ UNCHANGED <<object, elf, section, start>>
  BY DEF L!Relocate, L!Sections, Secs, Applied, Spot, Stored

LEMMA ElfEntry ==
    ASSUME object \in Objects, L!TypeOK, L!HasEntry
    PROVE  /\ elf = "relocate" /\ section \in DOMAIN Secs /\ rel \in DOMAIN L!RelEntries(section)
           /\ L!Rel = L!RelEntries(section)[rel]
           /\ L!Rel.offset \in Nat
           /\ L!Rel.sym # 0 => L!Sym.value \in Nat /\ L!Sym.shndx \in {L!UNDEF, L!ABS} \cup DOMAIN Secs
  <1>1. elf = "relocate" /\ rel <= Len(L!RelEntries(section))
    BY DEF L!HasEntry
  <1>2. section \in DOMAIN Secs /\ rel \in Nat \ {0}
    BY ElfTypes
  <1>3. rel \in DOMAIN L!RelEntries(section)
    BY <1>1, <1>2, ElfRels
  <1>4. L!Rel = L!RelEntries(section)[rel]
    BY DEF L!Rel
  <1> QED
    BY <1>1, <1>2, <1>3, <1>4, ElfRel DEF L!Sym

\* Where the symbol of the entry is.
SymbolAt ==
    IF L!Sym.shndx = L!ABS THEN L!Sym.value ELSE Base + L!Sym.value + Secs[L!Sym.shndx].addr

LEMMA ElfSymbol ==
    ASSUME object \in Objects, L!TypeOK, L!HasEntry, L!Rel.sym # 0, L!Sym.shndx # L!UNDEF
    PROVE  SymbolAt \in Nat /\ L!SymbolValue = SymbolAt % Word
  <1>1. L!Sym.value \in Nat /\ (L!Sym.shndx = L!ABS \/ L!Sym.shndx \in DOMAIN Secs)
    BY ElfEntry
  <1>2. L!SymbolValue = SymbolAt % Word
    BY DEF L!SymbolValue, SymbolAt, L!Sections, Secs
  <1>3. L!Sym.shndx \in DOMAIN Secs => Secs[L!Sym.shndx].addr \in Nat
    BY ElfSection
  <1>4. SymbolAt \in Nat
    BY <1>1, <1>3, ElfConstants DEF SymbolAt
  <1> QED
    BY <1>2, <1>4

\* A remainder may be taken of a part first.
LEMMA ElfRemainder ==
    ASSUME NEW a \in Int, NEW b \in Int, NEW r, r = b % Word
    PROVE  (a + r) % Word = (a + b) % Word
  <1> DEFINE y == Word
             q == b \div y
             s == (a + r) \div y
             t == (a + r) % y
  <1>0. y \in Nat /\ y > 0
    BY ElfConstants
  <1> HIDE DEF y
  <1>1. b = y * q + r /\ q \in Int /\ r \in Int
    BY <1>0, Division DEF y
  <1>2. a + r = y * s + t /\ s \in Int /\ t \in Int /\ 0 <= t /\ t < y
    <2>1. a + r \in Int
      BY <1>1
    <2> QED
      BY <1>0, <2>1, Division
  <1> HIDE DEF q, s, t
  <1>3. a + b = y * (q + s) + t
    <2>1. y * (q + s) = y * q + y * s
      BY <1>0, <1>1, <1>2
    <2> DEFINE u == y * q
               v == y * s
               w == y * (q + s)
    <2>2. u \in Int /\ v \in Int /\ w = u + v /\ b = u + r /\ a + r = v + t
      BY <1>0, <1>1, <1>2, <2>1
    <2> HIDE DEF u, v, w
    <2>3. a + b = w + t
      BY <1>1, <1>2, <2>2
    <2> QED
      BY <2>3 DEF w
  <1>4. (a + b) % y = t
    <2> DEFINE p == q + s
    <2>1. p \in Int
      BY <1>1, <1>2
    <2> HIDE DEF p
    <2>2. (y * p + t) % y = t
      BY <1>0, <1>2, <2>1, DivisionUnique
    <2> QED
      BY <1>3, <2>2 DEF p
  <1> QED
    BY <1>4 DEF t, y

\* What is stored is a word, with the address of the symbol added to what was there.
LEMMA ElfRelSym ==
    ASSUME object \in Objects, L!TypeOK, L!HasEntry, L!Rel.type \in {"32", "PC32"}, L!Rel.sym # 0,
           L!Sym.shndx # L!UNDEF, NEW old \in Int, NEW at \in Nat
    PROVE  /\ L!elf_rel_sym(old, at) \in 0 .. Word - 1
           /\ L!elf_rel_sym(old, at) =
                 (old + (IF L!Rel.type = "PC32" THEN SymbolAt - (Base + at) ELSE SymbolAt)) % Word
  <1> DEFINE v == SymbolAt
             u == v % Word
  <1>1. v \in Nat /\ L!SymbolValue = u
    BY ElfSymbol
  <1>2. Word \in Nat /\ Word > 0 /\ Base \in Nat
    BY ElfConstants
  <1> HIDE DEF v
  <1>0. v \in Int
    BY <1>1
  <1>3. \A x \in Int : x % Word \in 0 .. Word - 1
    <2> SUFFICES ASSUME NEW x \in Int PROVE x % Word \in 0 .. Word - 1
      OBVIOUS
    <2> DEFINE t == x % Word
    <2>1. t \in Int /\ 0 <= t /\ t < Word
      BY <1>2, Division
    <2> HIDE DEF t
    <2>2. t \in 0 .. Word - 1
      BY <1>2, <2>1
    <2> QED
      BY <2>2 DEF t
  <1>4. u \in 0 .. Word - 1
    BY <1>1, <1>3
  <1>5. CASE L!Rel.type = "32"
    <2>1. L!elf_rel_sym(old, at) = (old + u) % Word
      BY <1>1, <1>5 DEF L!elf_rel_sym
    <2>2. (old + u) % Word = (old + v) % Word
      <3>1. u = v % Word
        OBVIOUS
      <3> HIDE DEF u
      <3> QED
        BY <1>0, <3>1, ElfRemainder
    <2>3. old + v \in Int
      BY <1>1
    <2>4. (old + v) % Word \in 0 .. Word - 1
      BY <1>3, <2>3
    <2> QED
      BY <1>5, <2>1, <2>2, <2>4 DEF v
  <1>6. CASE L!Rel.type = "PC32"
    <2> DEFINE a == old - (Base + at)
               c == v - (Base + at)
    <2>1. a \in Int /\ c \in Int
      BY <1>1, <1>2
    <2>2. L!elf_rel_sym(old, at) = (old + u - (Base + at)) % Word
      BY <1>1, <1>6 DEF L!elf_rel_sym
    <2>3. old + u - (Base + at) = a + u
      <3> HIDE DEF u
      <3> QED
        BY <1>2, <1>4
    <2>4. (a + u) % Word = (a + v) % Word
      <3>1. u = v % Word
        OBVIOUS
      <3> HIDE DEF a, u
      <3> QED
        BY <1>0, <2>1, <3>1, ElfRemainder
    <2>5. a + v = old + c
      BY <1>1, <1>2
    <2>6. old + c \in Int
      BY <1>1, <1>2
    <2> HIDE DEF a, c
    <2>7. (old + c) % Word \in 0 .. Word - 1
      BY <1>3, <2>6
    <2>8. L!elf_rel_sym(old, at) = (old + c) % Word
      BY <2>2, <2>3, <2>4, <2>5
    <2> QED
      BY <1>6, <2>7, <2>8 DEF v, c
  <1> QED
    BY <1>5, <1>6

LEMMA ElfSpot ==
    ASSUME object \in Objects, L!TypeOK, L!HasEntry
    PROVE  Spot \in Nat
  <1>1. section \in DOMAIN Secs /\ L!Rel.offset \in Nat
    BY ElfEntry
  <1>2. Secs[section].info \in DOMAIN Secs
    BY <1>1, ElfSection
  <1>3. Applied.addr \in Nat
    BY <1>2, ElfSection DEF Applied
  <1> QED
    BY <1>1, <1>3 DEF Spot

LEMMA ElfTypesStep ==
    ASSUME object \in Objects, L!TypeOK, [L!Next]_linker
    PROVE  object' = object /\ L!TypeOK'
  <1>0. /\ section \in DOMAIN Secs /\ rel \in Nat \ {0}
        /\ elf \in {"check", "length", "copy", "relocate", "finish", "done", "failed", "halt"}
        /\ Words(image) /\ strays \subseteq Nat /\ start \in Nat \cup {-1}
    BY ElfTypes
  <1>00. Len(Secs) \in Nat /\ Len(Secs) > 0 /\ DOMAIN Secs = 1 .. Len(Secs) /\ object.entry \in Nat
    BY ElfSections
  <1>1. CASE L!Check \/ L!Resume
    <2>1. UNCHANGED <<object, section, rel, image, strays, start>> /\ elf' \in {"length", "halt"}
      BY <1>1 DEF L!Check, L!Resume
    <2> QED
      BY <1>0, <2>1, ElfTypesNext DEF Secs
  <1>2. CASE L!Allocate
    <2>1. UNCHANGED <<object, section, rel, strays, start>> /\ elf' = "copy"
          /\ image' = [a \in 0 .. L!ImageLength - 1 |-> 0]
      BY <1>2 DEF L!Allocate
    <2>2. Words(image')
      BY <2>1, ElfConstants DEF Words
    <2> QED
      BY <1>0, <2>1, <2>2, ElfTypesNext DEF Secs
  <1>3. CASE L!Copy
    <2>1. /\ UNCHANGED <<object, rel, start>> /\ elf' \in {"copy", "relocate"}
          /\ section' = 1 \/ (section # Len(Secs) /\ section' = section + 1)
          /\ IF L!IsCopied(Secs[section]) THEN L!StoreAll(Contents(section))
             ELSE UNCHANGED <<image, strays>>
      BY <1>3, ElfCopies
    <2>2. section' \in DOMAIN Secs
      BY <1>0, <1>00, <2>1
    <2>3. CASE L!IsCopied(Secs[section])
      <3>1. Words(Contents(section)) /\ DOMAIN Contents(section) \subseteq Nat
        BY <1>0, <2>3, ElfContents
      <3>2. Words(image')
        BY <1>0, <2>1, <2>3, <3>1, ElfStores
      <3>3. strays' \subseteq Nat
        BY <1>0, <2>1, <2>3, <3>1 DEF L!StoreAll
      <3> QED
        BY <1>0, <2>1, <2>2, <3>2, <3>3, ElfTypesNext DEF Secs
    <2>4. CASE ~L!IsCopied(Secs[section])
      BY <1>0, <2>1, <2>2, <2>4, ElfTypesNext DEF Secs
    <2> QED
      BY <2>3, <2>4
  <1>4. CASE L!NextSection
    <2>1. /\ UNCHANGED <<object, image, strays, start>> /\ elf' \in {"finish", elf} /\ rel' = 1
          /\ section' = section \/ (section # Len(Secs) /\ section' = section + 1)
      BY <1>4 DEF L!NextSection, L!Sections, Secs
    <2>2. section' \in DOMAIN Secs
      BY <1>0, <1>00, <2>1
    <2> QED
      BY <1>0, <2>1, <2>2, ElfTypesNext DEF Secs
  <1>5. CASE L!SkipEntry
    <2>1. UNCHANGED <<object, elf, section, image, strays, start>> /\ rel' = rel + 1
      BY <1>5 DEF L!SkipEntry
    <2>2. rel' \in Nat \ {0}
      BY <1>0, <2>1
    <2> QED
      BY <1>0, <2>1, <2>2, ElfTypesNext DEF Secs
  <1>6. CASE L!Relocate
    <2>1. /\ L!HasEntry /\ L!Rel.type \in {"32", "PC32"} /\ L!Rel.sym # 0 /\ L!Sym.shndx # L!UNDEF
          /\ L!StoreAll(Stored) /\ rel' = rel + 1 /\ UNCHANGED <<object, elf, section, start>>
      BY <1>6, ElfRelocates
    <2>2. rel' \in Nat \ {0}
      BY <1>0, <2>1
    <2>3. Spot \in Nat
      BY <2>1, ElfSpot
    <2>4. Words(Stored)
      <3> DEFINE old == IF Spot \in DOMAIN image THEN image[Spot] ELSE 0
      <3>1. old \in Int
        BY <1>0, ElfConstants DEF Words
      <3> HIDE DEF old
      <3>2. L!elf_rel_sym(old, Spot) \in 0 .. Word - 1
        BY <2>1, <2>3, <3>1, ElfRelSym
      <3> QED
        BY <3>2 DEF Stored, Words, old
    <2>5. Words(image')
      BY <1>0, <2>1, <2>4, ElfStores
    <2>6. strays' \subseteq Nat
      BY <1>0, <2>1, <2>3 DEF L!StoreAll, Stored
    <2> QED
      BY <1>0, <2>1, <2>2, <2>5, <2>6, ElfTypesNext DEF Secs
  <1>7. CASE L!Fails
    <2>1. UNCHANGED <<object, section, rel, image, strays, start>> /\ elf' = "failed"
      BY <1>7 DEF L!Fails
    <2> QED
      BY <1>0, <2>1, ElfTypesNext DEF Secs
  <1>8. CASE L!Finish
    <2>1. UNCHANGED <<object, section, rel, image, strays>> /\ elf' = "done" /\ start' = object.entry
      BY <1>8 DEF L!Finish
    <2> QED
      BY <1>0, <1>00, <2>1, ElfTypesNext DEF Secs
  <1>9. CASE UNCHANGED linker
    BY <1>0, <1>9, ElfTypesNext DEF linker, Secs
  <1> QED
    BY <1>1, <1>2, <1>3, <1>4, <1>5, <1>6, <1>7, <1>8, <1>9 DEF L!Next

-----------------------------------------------------------------------------
\* The places of a section in the image.
Places(n) == 0 .. Secs[n].size - 1

\* What a section holds before it is linked.
Content(n, k) == IF Secs[n].type = "PROGBITS" THEN Secs[n].words[k + 1] ELSE 0

\* Entry e of section m applies to the word at offset k of section n.
Applies(m, e, n, k) ==
    /\ Secs[m].type = "REL" /\ Secs[m].info = n
    /\ L!RelEntries(m)[e].offset = k /\ L!RelEntries(m)[e].type # "NONE"

LinkableEntry(r) ==
    r.type = "NONE" \/ (r.type \in {"32", "PC32"} /\ object.symbols[r.sym].shndx # L!UNDEF)

\* Where symbol y is, and what a relocation with it makes of the word at k of n.
ThereAt(y) == IF y.shndx = L!ABS THEN y.value ELSE Base + Secs[y.shndx].addr + y.value

Relocated(r, n, k) ==
    (Content(n, k) + (IF r.type = "PC32" THEN ThereAt(object.symbols[r.sym]) - (Base + Secs[n].addr + k)
                      ELSE ThereAt(object.symbols[r.sym]))) % Word

\* Section n is copied before section, and the relocations before rel are done.
ImageHeld == DOMAIN image = 0 .. L!ImageLength - 1

Copying ==
    \A n \in InFile : \A k \in Places(n) :
        image[Secs[n].addr + k] =
            IF n < section /\ Secs[n].type = "PROGBITS" THEN Secs[n].words[k + 1] ELSE 0

RelDone(m, e) == elf \in {"finish", "done"} \/ m < section \/ (m = section /\ e < rel)

LinkedAt(n, k) ==
    \E m \in DOMAIN Secs : \E e \in DOMAIN L!RelEntries(m) : Applies(m, e, n, k) /\ RelDone(m, e)

Linking ==
    /\ \A n \in InFile : \A k \in Places(n) :
          image[Secs[n].addr + k] = IF LinkedAt(n, k) THEN L!Meant(n, k) ELSE Content(n, k)
    /\ \A m \in DOMAIN Secs : \A e \in DOMAIN L!RelEntries(m) :
          RelDone(m, e) => LinkableEntry(L!RelEntries(m)[e])

ElfInv ==
    /\ object \in Objects /\ L!TypeOK /\ strays = {}
    /\ elf \in {"check", "halt", "length"} => section = 1 /\ rel = 1
    /\ elf \in {"copy", "relocate", "finish", "done"} => ImageHeld
    /\ elf = "copy" => rel = 1 /\ Copying
    /\ elf \in {"relocate", "finish", "done"} => Linking
    /\ start = IF elf = "done" THEN object.entry ELSE L!UNSET

\* The relocations of a word as Meant sees them.
LEMMA RelsAtFacts ==
    ASSUME object \in Objects, NEW n, NEW k
    PROVE  /\ \A m \in DOMAIN Secs : \A e \in DOMAIN L!RelEntries(m) :
                 Applies(m, e, n, k) => [sec |-> m, k |-> e] \in L!RelsAt(n, k)
           /\ \A r \in L!RelsAt(n, k) :
                 /\ r.sec \in DOMAIN Secs /\ r.k \in DOMAIN L!RelEntries(r.sec)
                 /\ Applies(r.sec, r.k, n, k)
  <1> DEFINE T == {m \in DOMAIN Secs : Secs[m].type = "REL" /\ Secs[m].info = n}
             P(m) == {[sec |-> m, k |-> e] : e \in DOMAIN L!RelEntries(m)}
             U == UNION {P(m) : m \in T}
  <1>1. L!RelsAt(n, k) = {r \in U : /\ L!RelEntries(r.sec)[r.k].offset = k
                                    /\ L!RelEntries(r.sec)[r.k].type # "NONE"}
    BY DEF L!RelsAt, L!Sections, Secs
  <1>2. ASSUME NEW m \in DOMAIN Secs, NEW e \in DOMAIN L!RelEntries(m), Applies(m, e, n, k)
        PROVE  [sec |-> m, k |-> e] \in L!RelsAt(n, k)
    <2> DEFINE r == [sec |-> m, k |-> e]
    <2>1. m \in T
      BY <1>2 DEF Applies
    <2>2. r \in P(m)
      OBVIOUS
    <2>3. r \in U
      BY <2>1, <2>2
    <2>4. r.sec = m /\ r.k = e
      OBVIOUS
    <2> HIDE DEF r, U
    <2>5. r \in L!RelsAt(n, k)
      BY <1>1, <1>2, <2>3, <2>4 DEF Applies
    <2> QED
      BY <2>5 DEF r
  <1>3. ASSUME NEW r \in L!RelsAt(n, k)
        PROVE  /\ r.sec \in DOMAIN Secs /\ r.k \in DOMAIN L!RelEntries(r.sec)
               /\ Applies(r.sec, r.k, n, k)
    <2>1. r \in U /\ L!RelEntries(r.sec)[r.k].offset = k /\ L!RelEntries(r.sec)[r.k].type # "NONE"
      BY <1>1
    <2>2. PICK m \in T : r \in P(m)
      BY <2>1
    <2>3. PICK e \in DOMAIN L!RelEntries(m) : r = [sec |-> m, k |-> e]
      BY <2>2
    <2>4. r.sec = m /\ r.k = e
      BY <2>3
    <2> QED
      BY <2>1, <2>2, <2>3, <2>4 DEF Applies
  <1> QED
    BY <1>2, <1>3

\* No two relocations apply to a word.
LEMMA AppliesOnce ==
    ASSUME object \in Objects, L!WellFormed, NEW n, NEW k,
           NEW m \in DOMAIN Secs, NEW e \in DOMAIN L!RelEntries(m), Applies(m, e, n, k),
           NEW l \in DOMAIN Secs, NEW d \in DOMAIN L!RelEntries(l), Applies(l, d, n, k)
    PROVE  m = l /\ e = d
  <1> DEFINE r == Secs[m]
             s == Secs[l]
  <1>1. /\ r.type = "REL" /\ s.type = "REL" /\ r.info = s.info
        /\ e \in DOMAIN r.rels /\ d \in DOMAIN s.rels
        /\ L!RelEntries(m) = r.rels /\ L!RelEntries(l) = s.rels
    BY ElfRels DEF Applies
  <1>2. /\ r.rels[e].type # "NONE" /\ s.rels[d].type # "NONE"
        /\ r.rels[e].offset = s.rels[d].offset
    BY <1>1 DEF Applies
  <1>3. \A x \in DOMAIN r.rels, y \in DOMAIN s.rels :
            r.rels[x].type # "NONE" /\ s.rels[y].type # "NONE" /\ r.rels[x].offset = s.rels[y].offset
            => m = l /\ x = y
    BY <1>1 DEF L!WellFormed, Secs
  <1> QED
    BY <1>1, <1>2, <1>3

\* What is meant, without the set of a word's relocations.
LEMMA MeantFacts ==
    ASSUME object \in Objects, L!WellFormed, NEW n \in DOMAIN Secs, NEW k
    PROVE  /\ (\A m \in DOMAIN Secs : \A e \in DOMAIN L!RelEntries(m) : ~Applies(m, e, n, k))
                 => L!Meant(n, k) = Content(n, k)
           /\ \A m \in DOMAIN Secs : \A e \in DOMAIN L!RelEntries(m) :
                 Applies(m, e, n, k) => L!Meant(n, k) = Relocated(L!RelEntries(m)[e], n, k)
  <1> DEFINE R == L!RelsAt(n, k)
             c == CHOOSE r \in R : TRUE
             q == L!RelEntries(c.sec)[c.k]
  <1>1. L!Meant(n, k) = IF R = {} THEN Content(n, k) ELSE Relocated(q, n, k)
    BY DEF L!Meant, L!Sections, Secs, Content, Relocated, ThereAt
  <1>2. ASSUME \A m \in DOMAIN Secs : \A e \in DOMAIN L!RelEntries(m) : ~Applies(m, e, n, k)
        PROVE  L!Meant(n, k) = Content(n, k)
    <2>1. R = {}
      BY <1>2, RelsAtFacts
    <2> QED
      BY <1>1, <2>1
  <1>3. ASSUME NEW m \in DOMAIN Secs, NEW e \in DOMAIN L!RelEntries(m), Applies(m, e, n, k)
        PROVE  L!Meant(n, k) = Relocated(L!RelEntries(m)[e], n, k)
    <2>1. R # {}
      BY <1>3, RelsAtFacts
    <2>2. c \in R
      BY <2>1
    <2>3. /\ c.sec \in DOMAIN Secs /\ c.k \in DOMAIN L!RelEntries(c.sec)
          /\ Applies(c.sec, c.k, n, k)
      BY <2>2, RelsAtFacts
    <2> HIDE DEF R, c
    <2>4. c.sec = m /\ c.k = e
      BY <1>3, <2>3, AppliesOnce
    <2> QED
      BY <1>1, <2>1, <2>4
  <1> QED
    BY <1>2, <1>3

\* The sections of the image do not overlap and lie in it.
LEMMA ElfDisjoint ==
    ASSUME object \in Objects, L!WellFormed, NEW n \in InFile, NEW k \in Places(n),
           NEW m \in InFile, NEW l \in Places(m), Secs[n].addr + k = Secs[m].addr + l
    PROVE  n = m /\ k = l
  <1>1. n \in DOMAIN Secs /\ m \in DOMAIN Secs /\ Secs[n].alloc /\ Secs[m].alloc
    BY DEF InFile
  <1>2. /\ Secs[n].addr \in Nat /\ Secs[n].size \in Nat /\ Secs[m].addr \in Nat /\ Secs[m].size \in Nat
    BY <1>1, ElfSection
  <1>3. n # m => \/ Secs[n].addr + Secs[n].size <= Secs[m].addr
                 \/ Secs[m].addr + Secs[m].size <= Secs[n].addr
    BY <1>1 DEF L!WellFormed, Secs
  <1> DEFINE a == Secs[n].addr
             b == Secs[m].addr
             y == Secs[n].size
             z == Secs[m].size
  <1>4. k \in 0 .. y - 1 /\ l \in 0 .. z - 1 /\ a + k = b + l
    BY DEF Places
  <1>5. n = m => a = b
    OBVIOUS
  <1> HIDE DEF a, b, y, z
  <1>6. a \in Nat /\ b \in Nat /\ y \in Nat /\ z \in Nat /\ (n # m => a + y <= b \/ b + z <= a)
    BY <1>2, <1>3 DEF a, b, y, z
  <1>7. n = m
    BY <1>4, <1>6
  <1> QED
    BY <1>4, <1>5, <1>6, <1>7

LEMMA ElfInside ==
    ASSUME object \in Objects, NEW n \in InFile, NEW k \in Places(n)
    PROVE  /\ Secs[n].addr + k \in 0 .. L!ImageLength - 1
           /\ k \in Nat /\ Secs[n].addr \in Nat /\ n \in DOMAIN Secs
  <1>1. n \in DOMAIN Secs /\ L!ImageLength \in Nat /\ Secs[n].addr + Secs[n].size <= L!ImageLength
    BY ElfImageLength DEF InFile
  <1>2. Secs[n].addr \in Nat /\ Secs[n].size \in Nat
    BY <1>1, ElfSection
  <1>3. k \in 0 .. Secs[n].size - 1
    BY DEF Places
  <1> QED
    BY <1>1, <1>2, <1>3

\* The entry that is next applies to a word of the image.
LEMMA ElfApplies ==
    ASSUME object \in Objects, L!WellFormed, L!TypeOK, L!HasEntry, L!Rel.type # "NONE"
    PROVE  LET n == Secs[section].info
           IN  /\ n \in InFile /\ L!Rel.offset \in Places(n) /\ L!Rel.sym # 0
               /\ Applies(section, rel, n, L!Rel.offset)
  <1> DEFINE n == Secs[section].info
  <1>1. /\ section \in DOMAIN Secs /\ rel \in DOMAIN L!RelEntries(section)
        /\ L!Rel = L!RelEntries(section)[rel] /\ L!Rel.offset \in Nat
    BY ElfEntry
  <1>2. /\ Secs[section].type = "REL" /\ L!Rel = Secs[section].rels[rel]
        /\ rel \in DOMAIN Secs[section].rels
    BY <1>1, ElfRel
  <1>3. n \in DOMAIN Secs
    BY <1>1, ElfSection
  <1>4. Secs[n].alloc /\ L!Rel.offset < Secs[n].size /\ L!Rel.sym # 0
    BY <1>1, <1>2, <1>3 DEF L!WellFormed, Secs
  <1>5. n \in InFile
    BY <1>3, <1>4 DEF InFile
  <1>6. L!Rel.offset \in Places(n)
    <2>1. Secs[n].size \in Nat
      BY <1>3, ElfSection
    <2> QED
      BY <1>1, <1>4, <2>1 DEF Places
  <1>7. Applies(section, rel, n, L!Rel.offset)
    BY <1>1, <1>2 DEF Applies
  <1> QED
    BY <1>4, <1>5, <1>6, <1>7

LEMMA ElfKept ==
    ASSUME object' = object
    PROVE  /\ Secs' = Secs /\ InFile' = InFile /\ L!ImageLength' = L!ImageLength
           /\ \A n, k : Places(n)' = Places(n) /\ Content(n, k)' = Content(n, k)
           /\ \A n : L!RelEntries(n)' = L!RelEntries(n)
  BY DEF Secs, InFile, L!ImageLength, L!Sections, Places, Content, L!RelEntries

LEMMA ElfMeantKept ==
    ASSUME object' = object
    PROVE  /\ \A n, k : L!Meant(n, k)' = L!Meant(n, k)
           /\ \A m, e, n, k : Applies(m, e, n, k)' <=> Applies(m, e, n, k)
           /\ \A r : LinkableEntry(r)' <=> LinkableEntry(r)
  <1>1. \A n, k : L!Meant(n, k)' = L!Meant(n, k)
    BY DEF L!Meant, L!Sections, L!RelsAt, L!RelEntries
  <1>2. \A m, e, n, k : Applies(m, e, n, k)' <=> Applies(m, e, n, k)
    BY DEF Applies, Secs, L!RelEntries, L!Sections
  <1>3. \A r : LinkableEntry(r)' <=> LinkableEntry(r)
    BY DEF LinkableEntry
  <1> QED
    BY <1>1, <1>2, <1>3

\* A step that stores nothing and passes no relocation.
LEMMA ElfLinkingKept ==
    ASSUME object \in Objects, Linking, object' = object, image' = image,
           \A m \in DOMAIN Secs : \A e \in DOMAIN L!RelEntries(m) :
              /\ RelDone(m, e) => RelDone(m, e)'
              /\ RelDone(m, e)' => RelDone(m, e) \/ L!RelEntries(m)[e].type = "NONE"
    PROVE  Linking'
  <1>1. ASSUME NEW n \in InFile, NEW k \in Places(n)
        PROVE  LinkedAt(n, k)' <=> LinkedAt(n, k)
    <2>1. \A m \in DOMAIN Secs : \A e \in DOMAIN L!RelEntries(m) :
              Applies(m, e, n, k) => (RelDone(m, e)' <=> RelDone(m, e))
      BY DEF Applies
    <2> QED
      BY <2>1, ElfKept, ElfMeantKept DEF LinkedAt
  <1>2. \A n \in InFile' : \A k \in Places(n)' :
          image'[Secs'[n].addr + k] = IF LinkedAt(n, k)' THEN L!Meant(n, k)' ELSE Content(n, k)'
    BY <1>1, ElfKept, ElfMeantKept DEF Linking
  <1>3. \A m \in DOMAIN Secs' : \A e \in DOMAIN L!RelEntries(m)' :
          RelDone(m, e)' => LinkableEntry(L!RelEntries(m)[e])'
    <2>1. ASSUME NEW m \in DOMAIN Secs, NEW e \in DOMAIN L!RelEntries(m), RelDone(m, e)'
          PROVE  LinkableEntry(L!RelEntries(m)[e])
      BY <2>1 DEF Linking, LinkableEntry
    <2> QED
      BY <2>1, ElfKept, ElfMeantKept
  <1> QED
    BY <1>2, <1>3 DEF Linking

LEMMA ElfCopying ==
    ASSUME L!WellFormed, ElfInv, L!Copy
    PROVE  /\ strays' = {} /\ DOMAIN image' = DOMAIN image
           /\ \A n \in InFile : \A k \in Places(n) :
                 image'[Secs[n].addr + k] =
                     IF n <= section /\ Secs[n].type = "PROGBITS" THEN Secs[n].words[k + 1] ELSE 0
  <1>0. /\ object \in Objects /\ L!TypeOK /\ strays = {} /\ elf = "copy" /\ ImageHeld /\ Copying
    BY ElfCopies DEF ElfInv
  <1>1. section \in DOMAIN Secs /\ section \in Nat /\ Words(image)
    BY <1>0, ElfTypes, ElfSections
  <1>2. ASSUME NEW n \in InFile PROVE n \in Nat
    BY <1>0, ElfSections DEF InFile
  <1>3. CASE L!IsCopied(Secs[section])
    <2>1. L!StoreAll(Contents(section)) /\ Words(Contents(section))
      BY <1>0, <1>1, <1>3, ElfCopies, ElfContents
    <2>2. section \in InFile /\ Secs[section].type = "PROGBITS"
      BY <1>1, <1>3 DEF L!IsCopied, InFile
    <2> DEFINE b == Secs[section].addr
               z == Secs[section].size
    <2>3. b \in Nat /\ z \in Nat /\ DOMAIN Contents(section) = b .. b + z - 1
      BY <1>0, <1>1, ElfSection DEF Contents
    <2>4. \A a \in b .. b + z - 1 : a \in 0 .. L!ImageLength - 1
      <3>1. b + z <= L!ImageLength /\ L!ImageLength \in Nat
        BY <1>0, <2>2, ElfImageLength
      <3> HIDE DEF b, z
      <3> QED
        BY <2>3, <3>1
    <2>5. strays' = {}
      BY <1>0, <2>1, <2>3, <2>4 DEF L!StoreAll, ImageHeld
    <2>6. DOMAIN image' = DOMAIN image
      BY <1>1, <2>1, ElfStores
    <2>7. ASSUME NEW n \in InFile, NEW k \in Places(n)
          PROVE  image'[Secs[n].addr + k] =
                     IF n <= section /\ Secs[n].type = "PROGBITS" THEN Secs[n].words[k + 1] ELSE 0
      <3> DEFINE x == Secs[n].addr + k
      <3>1. x \in DOMAIN image /\ Secs[n].addr \in Nat /\ k \in Nat
        BY <1>0, ElfInside DEF ImageHeld
      <3>2. image'[x] = IF x \in b .. b + z - 1 THEN Contents(section)[x] ELSE image[x]
        <4> HIDE DEF x
        <4> QED
          BY <2>1, <2>3, <3>1 DEF L!StoreAll
      <3>3. CASE n = section
        <4>1. k \in 0 .. z - 1 /\ x = b + k
          BY <3>3 DEF Places
        <4>2. x \in b .. b + z - 1 /\ x - b + 1 = k + 1
          <5> HIDE DEF b, z, x
          <5> QED
            BY <2>3, <4>1
        <4>3. Contents(section)[x] = Secs[section].words[x - b + 1]
          <5> HIDE DEF x
          <5> QED
            BY <4>2 DEF Contents
        <4>4. image'[x] = Secs[section].words[k + 1]
          BY <3>2, <4>2, <4>3
        <4>5. n <= section /\ Secs[n].type = "PROGBITS"
          BY <1>1, <2>2, <3>3
        <4> QED
          BY <3>3, <4>4, <4>5
      <3>4. CASE n # section
        <4>1. x \notin b .. b + z - 1
          <5> SUFFICES ASSUME x \in b .. b + z - 1 PROVE FALSE
            OBVIOUS
          <5> DEFINE l == x - b
          <5>1. l \in 0 .. z - 1 /\ b + l = x
            <6> HIDE DEF b, z, x
            <6> QED
              BY <2>3
          <5> HIDE DEF l
          <5>2. l \in Places(section) /\ Secs[n].addr + k = Secs[section].addr + l
            BY <5>1 DEF Places
          <5>3. n = section
            BY <1>0, <2>2, <5>2, ElfDisjoint
          <5> QED
            BY <3>4, <5>3
        <4>2. image'[x] = image[x]
          BY <3>2, <4>1
        <4>3. n <= section <=> n < section
          BY <1>1, <1>2, <3>4
        <4> QED
          BY <1>0, <4>2, <4>3 DEF Copying
      <3> QED
        BY <3>3, <3>4
    <2> QED
      BY <2>5, <2>6, <2>7
  <1>4. CASE ~L!IsCopied(Secs[section])
    <2>1. UNCHANGED <<image, strays>>
      BY <1>4, ElfCopies
    <2>2. ASSUME NEW n \in InFile, Secs[n].type = "PROGBITS" PROVE n # section
      BY <1>4, <2>2 DEF L!IsCopied, InFile
    <2>3. ASSUME NEW n \in InFile, Secs[n].type = "PROGBITS" PROVE n <= section <=> n < section
      BY <1>1, <1>2, <2>2, <2>3
    <2> QED
      BY <1>0, <2>1, <2>3 DEF Copying
  <1> QED
    BY <1>3, <1>4

\* A relocation gives its word what is meant, and leaves all others as they are.
LEMMA ElfLinks ==
    ASSUME L!WellFormed, ElfInv, L!Relocate
    PROVE  strays' = {} /\ DOMAIN image' = DOMAIN image /\ Linking'
  <1>0. /\ L!HasEntry /\ L!Rel.type \in {"32", "PC32"} /\ L!Rel.sym # 0 /\ L!Sym.shndx # L!UNDEF
        /\ L!StoreAll(Stored) /\ rel' = rel + 1 /\ UNCHANGED <<object, elf, section, start>>
    BY ElfRelocates
  <1>1. elf = "relocate" /\ object \in Objects /\ L!TypeOK
    BY <1>0 DEF ElfInv, L!HasEntry
  <1>2. strays = {} /\ ImageHeld /\ Linking
    BY <1>1 DEF ElfInv
  <1>a. PICK m, e : m = section /\ e = rel
    OBVIOUS
  <1> DEFINE n == Secs[section].info
             k == L!Rel.offset
             r == L!Rel
  <1>3. /\ m \in DOMAIN Secs /\ m \in Nat /\ e \in DOMAIN L!RelEntries(m) /\ e \in Nat
        /\ r = L!RelEntries(m)[e]
    BY <1>a, <1>0, <1>1, ElfEntry, ElfTypes, ElfSections
  <1>4. n \in InFile /\ k \in Places(n) /\ Applies(m, e, n, k)
    BY <1>a, <1>0, <1>1, ElfApplies
  <1>5. Spot = Secs[n].addr + k
    BY DEF Spot, Applied
  <1>6. Spot \in DOMAIN image /\ Spot \in Nat /\ k \in Nat /\ Secs[n].addr \in Nat /\ n \in DOMAIN Secs
    BY <1>1, <1>2, <1>4, <1>5, ElfInside DEF ImageHeld
  <1>7. ~RelDone(m, e)
    BY <1>a, <1>1, <1>3 DEF RelDone
  <1>8. image[Spot] = Content(n, k)
    <2>1. ~LinkedAt(n, k)
      <3> SUFFICES ASSUME NEW l \in DOMAIN Secs, NEW d \in DOMAIN L!RelEntries(l),
                          Applies(l, d, n, k), RelDone(l, d)
                   PROVE  FALSE
        BY DEF LinkedAt
      <3>1. m = l /\ e = d
        BY <1>1, <1>3, <1>4, AppliesOnce
      <3> QED
        BY <1>7, <3>1
    <2> QED
      BY <1>2, <1>4, <1>5, <2>1 DEF Linking
  <1>9. Content(n, k) \in 0 .. Word - 1
    <2>1. Words(image)
      BY <1>1, ElfTypes
    <2> QED
      BY <1>6, <1>8, <2>1 DEF Words
  <1>10. Stored = [a \in {Spot} |-> L!elf_rel_sym(Content(n, k), Spot)]
    BY <1>6, <1>8 DEF Stored
  <1>11. L!elf_rel_sym(Content(n, k), Spot) = Relocated(r, n, k)
    <2> DEFINE old == Content(n, k)
               p == r.type = "PC32"
               v == SymbolAt
               g == Secs[n].addr
    <2>1. old \in Int
      BY <1>9, ElfConstants
    <2>2. L!elf_rel_sym(old, Spot) = (old + (IF p THEN v - (Base + Spot) ELSE v)) % Word
      <3> HIDE DEF old
      <3> QED
        BY <1>0, <1>1, <1>6, <2>1, ElfRelSym
    <2>3. ThereAt(object.symbols[r.sym]) = v /\ v \in Nat
      <3>1. v \in Nat
        BY <1>0, <1>1, ElfSymbol
      <3>2. L!Sym = object.symbols[r.sym]
        BY DEF L!Sym
      <3>3. L!Sym.value \in Nat /\ (L!Sym.shndx = L!ABS \/ L!Sym.shndx \in DOMAIN Secs)
        BY <1>0, <1>1, ElfEntry
      <3>4. L!Sym.shndx \in DOMAIN Secs => Secs[L!Sym.shndx].addr \in Nat
        BY <1>1, ElfSection
      <3>5. ThereAt(L!Sym) = SymbolAt
        BY <3>3, <3>4, ElfConstants DEF ThereAt, SymbolAt
      <3> QED
        BY <3>1, <3>2, <3>5
    <2>4. Relocated(r, n, k) = (old + (IF p THEN v - (Base + g + k) ELSE v)) % Word
      BY <2>3 DEF Relocated
    <2>5. Base + Spot = Base + g + k
      <3>1. Spot = g + k /\ g \in Nat /\ k \in Nat
        BY <1>5, <1>6
      <3> HIDE DEF g, k
      <3> QED
        BY <3>1, ElfConstants
    <2> QED
      BY <2>2, <2>4, <2>5
  <1>12. L!Meant(n, k) = Relocated(r, n, k)
    BY <1>1, <1>3, <1>4, <1>6, MeantFacts
  <1>13. /\ strays' = {} /\ DOMAIN image' = DOMAIN image
         /\ image' = [a \in DOMAIN image |-> IF a = Spot THEN L!Meant(n, k) ELSE image[a]]
    <2>1. DOMAIN Stored = {Spot} /\ Stored[Spot] = L!Meant(n, k)
      BY <1>10, <1>11, <1>12
    <2>2. /\ strays' = strays \cup (DOMAIN Stored \ DOMAIN image)
          /\ image' = [a \in DOMAIN image |-> IF a \in DOMAIN Stored THEN Stored[a] ELSE image[a]]
      BY <1>0 DEF L!StoreAll
    <2> QED
      BY <1>2, <1>6, <2>1, <2>2
  <1> HIDE DEF n, k, r
  <1>14. ASSUME NEW l \in DOMAIN Secs, NEW d \in DOMAIN L!RelEntries(l)
         PROVE  RelDone(l, d)' <=> RelDone(l, d) \/ (l = m /\ d = e)
    <2>1. l \in Nat /\ d \in Nat
      BY <1>1, ElfSections, ElfRels
    <2> QED
      BY <1>a, <1>0, <1>1, <1>3, <2>1 DEF RelDone
  <1>15. ASSUME NEW x \in InFile, NEW y \in Places(x)
         PROVE  image'[Secs[x].addr + y] = IF LinkedAt(x, y)' THEN L!Meant(x, y) ELSE Content(x, y)
    <2>0. Secs[x].addr + y \in DOMAIN image
      BY <1>1, <1>2, ElfInside DEF ImageHeld
    <2>00. LinkedAt(x, y)' <=> \E l \in DOMAIN Secs : \E d \in DOMAIN L!RelEntries(l) :
                                    Applies(l, d, x, y) /\ RelDone(l, d)'
      BY <1>0, ElfKept, ElfMeantKept DEF LinkedAt
    <2>1. CASE x = n /\ y = k
      <3>1. Applies(m, e, x, y) /\ RelDone(m, e)'
        BY <1>3, <1>4, <1>14, <2>1
      <3>2. LinkedAt(x, y)'
        BY <1>3, <2>00, <3>1
      <3>3. image'[Spot] = L!Meant(n, k)
        BY <1>6, <1>13
      <3> QED
        BY <1>5, <2>1, <3>2, <3>3
    <2>2. CASE ~(x = n /\ y = k)
      <3>1. Secs[x].addr + y # Spot
        BY <1>1, <1>4, <1>5, <2>2, ElfDisjoint
      <3>2. image'[Secs[x].addr + y] = image[Secs[x].addr + y]
        BY <1>13, <2>0, <3>1
      <3>3. ~Applies(m, e, x, y)
        BY <1>4, <2>2 DEF Applies
      <3>4. LinkedAt(x, y)' <=> LinkedAt(x, y)
        BY <1>14, <2>00, <3>3 DEF LinkedAt
      <3> QED
        BY <1>2, <3>2, <3>4 DEF Linking
    <2> QED
      BY <2>1, <2>2
  <1>16. ASSUME NEW l \in DOMAIN Secs, NEW d \in DOMAIN L!RelEntries(l), RelDone(l, d)'
         PROVE  LinkableEntry(L!RelEntries(l)[d])
    <2>1. CASE RelDone(l, d)
      BY <1>2, <2>1 DEF Linking
    <2>2. CASE l = m /\ d = e
      <3>1. L!RelEntries(l)[d] = L!Rel
        BY <1>3, <2>2 DEF r
      <3>2. LinkableEntry(L!Rel)
        BY <1>0 DEF LinkableEntry, L!Sym
      <3> QED
        BY <3>1, <3>2
    <2> QED
      BY <1>14, <1>16, <2>1, <2>2
  <1>17. Linking'
    <2>1. /\ Secs' = Secs /\ InFile' = InFile
          /\ \A x, y : Places(x)' = Places(x) /\ Content(x, y)' = Content(x, y)
          /\ \A x : L!RelEntries(x)' = L!RelEntries(x)
      BY <1>0, ElfKept
    <2>2. /\ \A x, y : L!Meant(x, y)' = L!Meant(x, y)
          /\ \A x : LinkableEntry(x)' <=> LinkableEntry(x)
      BY <1>0, ElfMeantKept
    <2>3. \A x \in InFile' : \A y \in Places(x)' :
            image'[Secs'[x].addr + y] = IF LinkedAt(x, y)' THEN L!Meant(x, y)' ELSE Content(x, y)'
      BY <1>15, <2>1, <2>2
    <2>4. \A x \in DOMAIN Secs' : \A y \in DOMAIN L!RelEntries(x)' :
            RelDone(x, y)' => LinkableEntry(L!RelEntries(x)[y])'
      BY <1>16, <2>1, <2>2
    <2> QED
      BY <2>3, <2>4 DEF Linking
  <1> QED
    BY <1>13, <1>17

LEMMA ElfInit ==
    ASSUME object \in Objects, L!Start
    PROVE  L!TypeOK /\ ElfInv
  <1>1. /\ elf = "check" /\ section = 1 /\ rel = 1 /\ image = <<>> /\ strays = {} /\ start = L!UNSET
    BY DEF L!Start
  <1>2. L!TypeOK
    <2>1. 1 \in DOMAIN Secs
      BY ElfSections
    <2>2. Words(image)
      BY <1>1 DEF Words
    <2> QED
      BY <1>1, <2>1, <2>2, ElfTypes DEF L!UNSET
  <1> QED
    BY <1>1, <1>2 DEF ElfInv

LEMMA ElfCopyStep ==
    ASSUME L!WellFormed, ElfInv, L!Copy
    PROVE  ElfInv'
  <1>0. /\ elf = "copy" /\ UNCHANGED <<object, rel, start>>
        /\ IF section = Len(Secs) THEN section' = 1 /\ elf' = "relocate"
           ELSE section' = section + 1 /\ elf' = elf
    BY ElfCopies
  <1>1. /\ object \in Objects /\ L!TypeOK /\ ImageHeld /\ rel = 1
        /\ start = L!UNSET
    BY <1>0 DEF ElfInv
  <1>2. L!TypeOK'
    BY <1>1, ElfTypesStep DEF L!Next
  <1>3. /\ strays' = {} /\ DOMAIN image' = DOMAIN image
        /\ \A n \in InFile : \A k \in Places(n) :
              image'[Secs[n].addr + k] =
                  IF n <= section /\ Secs[n].type = "PROGBITS" THEN Secs[n].words[k + 1] ELSE 0
    BY ElfCopying
  <1>4. /\ Secs' = Secs /\ InFile' = InFile /\ L!ImageLength' = L!ImageLength
        /\ \A n, k : Places(n)' = Places(n) /\ Content(n, k)' = Content(n, k)
        /\ \A n : L!RelEntries(n)' = L!RelEntries(n)
    BY <1>0, ElfKept
  <1>5. ImageHeld'
    BY <1>1, <1>3, <1>4 DEF ImageHeld
  <1>6. section \in Nat /\ \A n \in InFile : n \in Nat /\ n <= Len(Secs)
    BY <1>1, ElfTypes, ElfSections DEF InFile
  <1>7. CASE section = Len(Secs)
    <2>1. section' = 1 /\ elf' = "relocate" /\ rel' = 1
      BY <1>0, <1>1, <1>7
    <2>2. \A m \in DOMAIN Secs : \A e \in DOMAIN L!RelEntries(m) : ~RelDone(m, e)'
      <3> SUFFICES ASSUME NEW m \in DOMAIN Secs, NEW e \in DOMAIN L!RelEntries(m) PROVE ~RelDone(m, e)'
        OBVIOUS
      <3>1. m \in Nat /\ m > 0 /\ e \in Nat /\ e > 0
        BY <1>1, ElfSections, ElfRels
      <3> QED
        BY <2>1, <3>1 DEF RelDone
    <2>3. \A n, k : ~LinkedAt(n, k)'
      BY <1>4, <2>2 DEF LinkedAt
    <2>4. \A n \in InFile : \A k \in Places(n) : image'[Secs[n].addr + k] = Content(n, k)
      BY <1>3, <1>6, <1>7 DEF Content
    <2>5. \A n \in InFile' : \A k \in Places(n)' :
            image'[Secs'[n].addr + k] = IF LinkedAt(n, k)' THEN L!Meant(n, k)' ELSE Content(n, k)'
      BY <1>4, <2>3, <2>4
    <2>6. \A m \in DOMAIN Secs' : \A e \in DOMAIN L!RelEntries(m)' :
            RelDone(m, e)' => LinkableEntry(L!RelEntries(m)[e])'
      BY <1>4, <2>2
    <2>7. Linking'
      BY <2>5, <2>6 DEF Linking
    <2> QED
      BY <1>0, <1>1, <1>2, <1>3, <1>5, <2>1, <2>7 DEF ElfInv
  <1>8. CASE section # Len(Secs)
    <2>1. section' = section + 1 /\ elf' = "copy" /\ rel' = 1
      BY <1>0, <1>1, <1>8
    <2>2. \A n \in InFile : n < section' <=> n <= section
      BY <1>6, <2>1
    <2>3. Copying'
      BY <1>3, <1>4, <2>2 DEF Copying
    <2> QED
      BY <1>0, <1>1, <1>2, <1>3, <1>5, <2>1, <2>3 DEF ElfInv
  <1> QED
    BY <1>7, <1>8

LEMMA ElfNextSectionStep ==
    ASSUME L!WellFormed, ElfInv, L!NextSection
    PROVE  ElfInv'
  <1>0. /\ elf = "relocate" /\ rel > Len(L!RelEntries(section)) /\ rel' = 1
        /\ IF section = Len(Secs) THEN elf' = "finish" /\ section' = section
           ELSE section' = section + 1 /\ elf' = elf
        /\ UNCHANGED <<object, image, strays, start>>
    BY DEF L!NextSection, L!Sections, Secs
  <1>1. /\ object \in Objects /\ L!TypeOK /\ ImageHeld /\ Linking
        /\ start = L!UNSET /\ strays = {}
    BY <1>0 DEF ElfInv
  <1>2. L!TypeOK'
    BY <1>1, ElfTypesStep DEF L!Next
  <1>3. section \in DOMAIN Secs /\ section \in Nat /\ rel \in Nat /\ Len(Secs) \in Nat
    BY <1>1, ElfTypes, ElfSections
  <1>4. ASSUME NEW m \in DOMAIN Secs, NEW e \in DOMAIN L!RelEntries(m)
        PROVE  RelDone(m, e)' <=> RelDone(m, e)
    <2>1. /\ m \in Nat /\ e \in Nat /\ e > 0 /\ m <= Len(Secs) /\ e <= Len(L!RelEntries(m))
          /\ Len(L!RelEntries(m)) \in Nat
      BY <1>1, ElfSections, ElfRels
    <2>2. m = section => e < rel
      BY <1>0, <1>3, <2>1
    <2>3. RelDone(m, e) <=> m <= section
      BY <1>0, <1>3, <2>1, <2>2 DEF RelDone
    <2>4. CASE section = Len(Secs)
      BY <1>0, <2>1, <2>3, <2>4 DEF RelDone
    <2>5. CASE section # Len(Secs)
      <3>1. elf' = "relocate" /\ section' = section + 1 /\ rel' = 1
        BY <1>0, <2>5
      <3> QED
        BY <1>3, <2>1, <2>3, <3>1 DEF RelDone
    <2> QED
      BY <2>4, <2>5
  <1>5. Linking'
    BY <1>0, <1>1, <1>4, ElfLinkingKept
  <1>6. ImageHeld'
    BY <1>0, <1>1, ElfKept DEF ImageHeld
  <1>7. elf' \in {"relocate", "finish"}
    BY <1>0
  <1> QED
    BY <1>0, <1>1, <1>2, <1>5, <1>6, <1>7 DEF ElfInv

LEMMA ElfSkipStep ==
    ASSUME L!WellFormed, ElfInv, L!SkipEntry
    PROVE  ElfInv'
  <1>0. /\ L!HasEntry /\ (L!Rel.type = "NONE" \/ L!Rel.sym = 0) /\ rel' = rel + 1
        /\ UNCHANGED <<object, elf, section, image, strays, start>>
    BY DEF L!SkipEntry
  <1>1. elf = "relocate"
    BY <1>0 DEF L!HasEntry
  <1>2. /\ object \in Objects /\ L!TypeOK /\ ImageHeld /\ Linking
        /\ start = L!UNSET /\ strays = {}
    BY <1>1 DEF ElfInv
  <1>3. L!TypeOK'
    BY <1>2, ElfTypesStep DEF L!Next
  <1>4. L!Rel.type = "NONE"
    BY <1>0, <1>2, ElfApplies
  <1>5. /\ section \in Nat /\ rel \in Nat /\ L!Rel = L!RelEntries(section)[rel]
    BY <1>0, <1>2, ElfEntry, ElfTypes, ElfSections
  <1>6. ASSUME NEW m \in DOMAIN Secs, NEW e \in DOMAIN L!RelEntries(m)
        PROVE  /\ RelDone(m, e) => RelDone(m, e)'
               /\ RelDone(m, e)' => RelDone(m, e) \/ L!RelEntries(m)[e].type = "NONE"
    <2>1. m \in Nat /\ e \in Nat
      BY <1>2, ElfSections, ElfRels
    <2>2. RelDone(m, e)' <=> RelDone(m, e) \/ (m = section /\ e = rel)
      BY <1>0, <1>1, <1>5, <2>1 DEF RelDone
    <2> QED
      BY <1>4, <1>5, <2>2
  <1>7. Linking'
    BY <1>0, <1>2, <1>6, ElfLinkingKept
  <1>8. ImageHeld'
    BY <1>0, <1>2, ElfKept DEF ImageHeld
  <1> QED
    BY <1>0, <1>1, <1>2, <1>3, <1>7, <1>8 DEF ElfInv

LEMMA ElfRelocateStep ==
    ASSUME L!WellFormed, ElfInv, L!Relocate
    PROVE  ElfInv'
  <1>0. L!HasEntry /\ UNCHANGED <<object, elf, section, start>>
    BY ElfRelocates
  <1>1. elf = "relocate"
    BY <1>0 DEF L!HasEntry
  <1>2. /\ object \in Objects /\ L!TypeOK /\ ImageHeld /\ start = L!UNSET
    BY <1>1 DEF ElfInv
  <1>3. L!TypeOK'
    BY <1>2, ElfTypesStep DEF L!Next
  <1>4. strays' = {} /\ DOMAIN image' = DOMAIN image /\ Linking'
    BY ElfLinks
  <1>5. ImageHeld'
    BY <1>0, <1>2, <1>4, ElfKept DEF ImageHeld
  <1> QED
    BY <1>0, <1>1, <1>2, <1>3, <1>4, <1>5 DEF ElfInv

LEMMA ElfOtherStep ==
    ASSUME L!WellFormed, ElfInv,
           L!Check \/ L!Resume \/ L!Allocate \/ L!Fails \/ L!Finish \/ UNCHANGED linker
    PROVE  ElfInv'
  <1>0. object \in Objects /\ L!TypeOK /\ strays = {}
    BY DEF ElfInv
  <1>1. object' = object /\ L!TypeOK'
    BY <1>0, ElfTypesStep DEF L!Next
  <1>2. CASE L!Check \/ L!Resume
    <2>1. /\ elf \in {"check", "halt"} /\ elf' \in {"length", "halt"}
          /\ UNCHANGED <<object, section, rel, image, strays, start>>
      BY <1>2 DEF L!Check, L!Resume
    <2> QED
      BY <1>0, <1>1, <2>1 DEF ElfInv
  <1>3. CASE L!Allocate
    <2>1. /\ elf = "length" /\ elf' = "copy" /\ image' = [a \in 0 .. L!ImageLength - 1 |-> 0]
          /\ UNCHANGED <<object, section, rel, strays, start>>
      BY <1>3 DEF L!Allocate
    <2>2. section = 1 /\ rel = 1 /\ start = L!UNSET
      BY <2>1 DEF ElfInv
    <2>3. ImageHeld'
      BY <2>1, ElfKept DEF ImageHeld
    <2>4. Copying'
      <3>1. ASSUME NEW n \in InFile, NEW k \in Places(n) PROVE image'[Secs[n].addr + k] = 0 /\ ~(n < 1)
        <4>1. Secs[n].addr + k \in 0 .. L!ImageLength - 1 /\ n \in DOMAIN Secs
          BY <1>0, ElfInside
        <4>2. ~(n < 1)
          BY <1>0, <4>1, ElfSections
        <4> QED
          BY <2>1, <4>1, <4>2
      <3>2. section' = 1
        BY <2>1, <2>2
      <3>3. Secs' = Secs /\ InFile' = InFile /\ \A n : Places(n)' = Places(n)
        BY <2>1, ElfKept
      <3>4. \A n \in InFile' : \A k \in Places(n)' : image'[Secs'[n].addr + k] = 0 /\ ~(n < section')
        BY <3>1, <3>2, <3>3
      <3> QED
        BY <3>4 DEF Copying
    <2> QED
      BY <1>0, <1>1, <2>1, <2>2, <2>3, <2>4 DEF ElfInv
  <1>4. CASE L!Fails
    <2>1. elf = "relocate" /\ elf' = "failed" /\ UNCHANGED <<object, section, rel, image, strays, start>>
      BY <1>4 DEF L!Fails, L!HasEntry
    <2> QED
      BY <1>0, <1>1, <2>1 DEF ElfInv
  <1>5. CASE L!Finish
    <2>1. /\ elf = "finish" /\ elf' = "done" /\ start' = object.entry
          /\ UNCHANGED <<object, section, rel, image, strays>>
      BY <1>5 DEF L!Finish
    <2>2. ImageHeld /\ Linking
      BY <2>1 DEF ElfInv
    <2>3. \A m, e : RelDone(m, e)' <=> RelDone(m, e)
      BY <2>1 DEF RelDone
    <2>4. Linking'
      BY <1>0, <2>1, <2>2, <2>3, ElfLinkingKept
    <2>5. ImageHeld'
      BY <2>1, <2>2, ElfKept DEF ImageHeld
    <2> QED
      BY <1>0, <1>1, <2>1, <2>2, <2>4, <2>5 DEF ElfInv
  <1>6. CASE UNCHANGED linker
    <2>1. UNCHANGED <<object, elf, section, rel, image, strays, start>>
      BY <1>6 DEF linker
    <2>2. \A m, e : RelDone(m, e)' <=> RelDone(m, e)
      BY <2>1 DEF RelDone
    <2>3. Linking => Linking'
      BY <1>0, <2>1, <2>2, ElfLinkingKept
    <2>4. ImageHeld => ImageHeld'
      BY <2>1, ElfKept DEF ImageHeld
    <2>5. Copying => Copying'
      BY <2>1, ElfKept DEF Copying
    <2> QED
      BY <1>0, <1>1, <2>1, <2>3, <2>4, <2>5 DEF ElfInv
  <1> QED
    BY <1>2, <1>3, <1>4, <1>5, <1>6

LEMMA ElfStep ==
    ASSUME L!WellFormed, ElfInv, [L!Next]_linker
    PROVE  ElfInv'
  BY ElfCopyStep, ElfNextSectionStep, ElfSkipStep, ElfRelocateStep, ElfOtherStep DEF L!Next

LEMMA ElfRight ==
    ASSUME L!WellFormed, ElfInv
    PROVE  L!InImage /\ L!Linked
  <1>1. L!InImage
    BY DEF ElfInv, L!InImage
  <1>2. ASSUME start # L!UNSET
        PROVE  /\ L!CanLink /\ start = object.entry
               /\ \A n \in InFile : \A k \in Places(n) : image[Secs[n].addr + k] = L!Meant(n, k)
    <2>1. elf = "done" /\ start = object.entry /\ object \in Objects
      BY <1>2 DEF ElfInv
    <2>2. Linking
      BY <2>1 DEF ElfInv
    <2>3. \A m, e : RelDone(m, e)
      BY <2>1 DEF RelDone
    <2>4. L!CanLink
      <3>1. \A m \in DOMAIN Secs : \A e \in DOMAIN L!RelEntries(m) : LinkableEntry(L!RelEntries(m)[e])
        BY <2>2, <2>3 DEF Linking
      <3> QED
        BY <2>2, <3>1 DEF L!CanLink, LinkableEntry, L!Sections, Secs
    <2>5. ASSUME NEW n \in InFile, NEW k \in Places(n) PROVE image[Secs[n].addr + k] = L!Meant(n, k)
      <3>1. n \in DOMAIN Secs
        BY DEF InFile
      <3>2. CASE LinkedAt(n, k)
        BY <2>2, <3>2 DEF Linking
      <3>3. CASE ~LinkedAt(n, k)
        <4>1. image[Secs[n].addr + k] = Content(n, k)
          BY <2>2, <3>3 DEF Linking
        <4>2. \A m \in DOMAIN Secs : \A e \in DOMAIN L!RelEntries(m) : ~Applies(m, e, n, k)
          BY <2>3, <3>3 DEF LinkedAt
        <4> QED
          BY <2>1, <3>1, <4>1, <4>2, MeantFacts
      <3> QED
        BY <3>2, <3>3
    <2> QED
      BY <2>1, <2>4, <2>5
  <1>3. L!Linked
    BY <1>2 DEF L!Linked, L!Sections, Secs, InFile, Places
  <1> QED
    BY <1>1, <1>3

-----------------------------------------------------------------------------
(***************************************************************************)
(* Boot.                                                                   *)
(***************************************************************************)
PerSector == B!EntriesPerSector

\* What an entry of the FAT holds.
Twelves == 0 .. 4095

LEMMA BootConstants ==
    /\ BytesPerSector \in Nat /\ BytesPerSector > 0 /\ SectorsPerCluster \in Nat /\ SectorsPerCluster > 0
    /\ SectorsPerFat \in Nat /\ SectorsPerFat > 0 /\ Segment \in Nat /\ Segment > 0
    /\ EntrySize \in Nat /\ EntrySize > 0 /\ PerSector \in Nat /\ PerSector > 0
    /\ SectorField \in Nat /\ SectorField > 0 /\ CylinderByte \in Nat /\ CylinderByte > 0
    /\ ReservedSectors \in Nat
  BY LoadersAssumption DEF B!BootAssumption, PerSector

\* A file has a place in its segment and room up to the end of it, or less.
LEMMA BootOrigin ==
    ASSUME NEW f
    PROVE  /\ B!Origin(f) \in Nat /\ B!Room(f) \in Nat
           /\ B!Origin(f) < Segment /\ B!Room(f) <= Segment
  <1>1. /\ InitOffset \in Nat /\ StackEnd \in Nat /\ InitOffset < StackEnd /\ StackEnd < Segment
        /\ Segment \in Nat /\ Segment > 0
    BY LoadersAssumption, BootConstants DEF B!BootAssumption
  <1>2. B!Origin(f) \in {InitOffset, 0} /\ B!Room(f) \in {StackEnd, Segment}
    BY DEF B!Origin, B!Room
  <1> QED
    BY <1>1, <1>2

LEMMA BootRoot ==
    /\ Len(Root) \in Nat /\ Len(Root) > 0 /\ DOMAIN Root = 1 .. Len(Root)
    /\ \A k \in DOMAIN Root : Root[k].cluster \in Twelves
  <1>1. Root \in Seq([name : STRING, cluster : Twelves]) /\ Root # <<>>
    BY LoadersAssumption DEF B!BootAssumption, Twelves
  <1>2. Len(Root) \in Nat /\ Len(Root) > 0 /\ DOMAIN Root = 1 .. Len(Root)
    <2> DEFINE S == [name : STRING, cluster : Twelves]
    <2> HIDE DEF S
    <2>1. Root \in Seq(S) /\ Root # <<>>
      BY <1>1 DEF S
    <2> QED
      BY <2>1
  <1>3. \A k \in DOMAIN Root : Root[k] \in [name : STRING, cluster : Twelves]
    <2> DEFINE S == [name : STRING, cluster : Twelves]
    <2> HIDE DEF S
    <2>1. Root \in Seq(S)
      BY <1>1 DEF S
    <2>2. \A k \in DOMAIN Root : Root[k] \in S
      BY <2>1
    <2> QED
      BY <2>2 DEF S
  <1>4. ASSUME NEW k \in DOMAIN Root PROVE Root[k].cluster \in Twelves
    <2> DEFINE e == Root[k]
    <2>1. e \in [name : STRING, cluster : Twelves]
      BY <1>3
    <2> HIDE DEF e
    <2>2. e.cluster \in Twelves
      BY <2>1
    <2> QED
      BY <2>2 DEF e
  <1> QED
    BY <1>2, <1>4

LEMMA BootDrive ==
    ASSUME NEW g \in Geometries
    PROVE  /\ g.sectors \in Nat /\ g.sectors > 0 /\ g.sectors < SectorField
           /\ g.heads \in Nat /\ g.heads > 0 /\ g.cylinders \in Nat /\ g.cylinders > 0
  <1>1. g.sectors \in 1 .. SectorField - 1 /\ {g.heads, g.cylinders} \subseteq Nat \ {0}
    BY LoadersAssumption DEF B!BootAssumption
  <1> QED
    BY <1>1, BootConstants

LEMMA BootFat ==
    ASSUME NEW t \in Fats, NEW c \in DOMAIN t
    PROVE  c \in Nat /\ t[c] \in Twelves
  <1>1. \A u \in Fats : \A d \in DOMAIN u : d \in Nat /\ u[d] \in Twelves
    <2>1. B!BootAssumption
      BY LoadersAssumption
    <2> QED
      BY <2>1 DEF B!BootAssumption, Twelves
  <1> QED
    BY <1>1

BootPlaces == {"start", "find", "read", "next", "a20", "e820", "protected", "kernel", "error", "lost"}

LEMMA BootStates ==
    B!TypeOK <=> /\ drive \in Geometries /\ bpb \in [track : Nat \ {0}, cylinder : Nat \ {0}]
                 /\ boot \in BootPlaces
                 /\ loading \in {B!INIT, B!KERNEL} /\ find.di \in 0 .. PerSector
                 /\ loaded \in Twelves /\ bx \in 0 .. Segment - 1 /\ a20 \in BOOLEAN
  BY DEF B!TypeOK, PerSector, Twelves, BootPlaces

LEMMA BootStatesNext ==
    B!TypeOK' <=> /\ drive' \in Geometries /\ bpb' \in [track : Nat \ {0}, cylinder : Nat \ {0}]
                  /\ boot' \in BootPlaces
                  /\ loading' \in {B!INIT, B!KERNEL} /\ find'.di \in 0 .. PerSector
                  /\ loaded' \in Twelves /\ bx' \in 0 .. Segment - 1 /\ a20' \in BOOLEAN
  BY DEF B!TypeOK, PerSector, Twelves, BootPlaces

\* A remainder is a number below what was divided by.
LEMMA RemainderRange ==
    ASSUME NEW a \in Int, NEW y \in Nat, y > 0
    PROVE  a % y \in 0 .. y - 1 /\ a \div y \in Int
  <1> DEFINE t == a % y
  <1>1. t \in Int /\ 0 <= t /\ t < y /\ a \div y \in Int
    BY Division
  <1> HIDE DEF t
  <1>2. t \in 0 .. y - 1
    BY <1>1
  <1> QED
    BY <1>1, <1>2 DEF t

LEMMA BootReadInt ==
    ASSUME B!TypeOK, NEW l \in Int
    PROVE  B!Read(l) \in Int
  <1> DEFINE t == bpb.track
             y == bpb.cylinder
             z == l % Segment
             p == B!CHS(l)
             u == (p.c \div CylinderByte) % 4
             v == (p.s \div SectorField) % 4
             c == (p.c % CylinderByte) + CylinderByte * B!Or(u, v)
             s == p.s % SectorField
  <1>1. t \in Nat /\ t > 0 /\ y \in Nat /\ y > 0 /\ drive \in Geometries
    BY BootStates
  <1>2. p = [c |-> (z \div t) \div y, h |-> (z \div t) % y, s |-> (z % t) + 1]
    BY DEF B!CHS
  <1>a. z \in Int
    BY BootConstants, RemainderRange
  <1> HIDE DEF z
  <1>3. z \div t \in Int /\ z % t \in Int
    BY <1>1, <1>a, RemainderRange
  <1> HIDE DEF t, y, p
  <1>4. p.c \in Int /\ p.h \in Int /\ p.s \in Int
    <2> DEFINE d == z \div t
               f == z % t
    <2>1. d \in Int /\ f \in Int /\ p = [c |-> d \div y, h |-> d % y, s |-> f + 1]
      BY <1>2, <1>3
    <2> HIDE DEF d, f
    <2>2. d \div y \in Int /\ d % y \in Int
      BY <1>1, <2>1, RemainderRange
    <2> QED
      BY <2>1, <2>2
  <1>5. p.c \div CylinderByte \in Int /\ p.s \div SectorField \in Int /\ p.c % CylinderByte \in Int
        /\ s \in Int
    BY <1>4, BootConstants, RemainderRange
  <1>6. u \in Int /\ v \in Int
    BY <1>5
  <1> HIDE DEF u, v, s
  <1>7. B!Or(u, v) \in Int
    BY <1>6 DEF B!Or
  <1>8. c \in Int
    BY <1>5, <1>7, BootConstants
  <1>9. B!Bios(p) = IF s \in 1 .. drive.sectors /\ p.h < drive.heads /\ c < drive.cylinders
                    THEN (c * drive.heads + p.h) * drive.sectors + s - 1 ELSE -1
    BY DEF B!Bios, B!Unread, u, v, s
  <1> HIDE DEF c
  <1>10. drive.heads \in Int /\ drive.sectors \in Int
    BY <1>1, BootDrive
  <1>11. (c * drive.heads + p.h) * drive.sectors + s - 1 \in Int
    BY <1>4, <1>5, <1>8, <1>10
  <1> QED
    BY <1>9, <1>11 DEF B!Read, p

LEMMA BootHalfByte ==
    ASSUME fat \in Fats, NEW n \in Int
    PROVE  B!HalfByte(n) \in 0 .. 15
  <1> DEFINE k == n \div 3
             w == <<1, 16, 256>>[(n % 3) + 1]
             e == fat[k]
  <1>1. CASE k \in DOMAIN fat
    <2>1. e \in Twelves
      BY <1>1, BootFat
    <2>2. w \in {1, 16, 256}
      <3>1. n % 3 \in {0, 1, 2}
        OBVIOUS
      <3> QED
        BY <3>1
    <2>3. B!HalfByte(n) = (e \div w) % 16
      BY <1>1 DEF B!HalfByte
    <2> HIDE DEF e, w, k
    <2>4. (e \div w) % 16 \in 0 .. 15
      <3>1. e \div w \in Int
        BY <2>1, <2>2 DEF Twelves
      <3> DEFINE x == e \div w
      <3> HIDE DEF x
      <3>2. x \in Int => x % 16 \in 0 .. 15
        OBVIOUS
      <3> QED
        BY <3>1, <3>2 DEF x
    <2> QED
      BY <2>3, <2>4
  <1>2. CASE k \notin DOMAIN fat
    BY <1>2 DEF B!HalfByte
  <1> QED
    BY <1>1, <1>2

LEMMA BootByte ==
    ASSUME fat \in Fats, NEW b \in Int, NEW k \in Int, NEW x \in 0 .. 255
    PROVE  B!BufferByte(b, k, x) \in 0 .. 255
  <1> DEFINE y == (b - ReservedSectors) * BytesPerSector + k
  <1>1. y \in Int
    BY BootConstants
  <1>2. B!BufferByte(b, k, x) = IF k >= BytesPerSector THEN x ELSE B!FatByte(y)
    BY DEF B!BufferByte
  <1> HIDE DEF y
  <1>3. 2 * y \in Int /\ 2 * y + 1 \in Int
    BY <1>1
  <1>4. B!HalfByte(2 * y) \in 0 .. 15 /\ B!HalfByte(2 * y + 1) \in 0 .. 15
    BY <1>3, BootHalfByte
  <1>5. B!FatByte(y) \in 0 .. 255
    BY <1>4 DEF B!FatByte
  <1> QED
    BY <1>2, <1>5

\* The fields of find_file's registers.
FindRegs == [ax : Int, di : Nat, bx : Nat]

LEMMA FindFields ==
    ASSUME NEW f \in FindRegs
    PROVE  f.ax \in Int /\ f.di \in Nat /\ f.bx \in Nat
  BY DEF FindRegs

BootTyped ==
    /\ B!TypeOK /\ fat \in Fats /\ map \in MemoryMaps
    /\ find \in FindRegs

LEMMA BootFindStart ==
    B!FindStart \in FindRegs /\ B!FindStart.di = PerSector
  BY BootConstants, BootRoot DEF B!FindStart, PerSector, FindRegs

LEMMA BootTypedInit ==
    ASSUME fat \in Fats, drive \in Geometries, map \in MemoryMaps, B!PowerOn
    PROVE  BootTyped
  <1>1. bpb = [track |-> drive.sectors, cylinder |-> drive.heads]
    BY DEF B!PowerOn
  <1>2. bpb \in [track : Nat \ {0}, cylinder : Nat \ {0}]
    BY <1>1, BootDrive
  <1>3. /\ boot = "start" /\ loading = B!INIT /\ find = B!FindStart /\ loaded = 0 /\ bx = 0
        /\ a20 \in BOOLEAN
    BY DEF B!PowerOn
  <1>4. find \in FindRegs /\ find.di \in 0 .. PerSector
    BY <1>3, BootFindStart, BootConstants
  <1>5. 0 \in 0 .. Segment - 1
    BY BootConstants
  <1> QED
    BY <1>2, <1>3, <1>4, <1>5, BootStates DEF BootTyped, BootPlaces, Twelves

\* What the machine and the volume are does not change.
LEMMA BootGivenKept ==
    ASSUME [B!Next]_loader
    PROVE  UNCHANGED <<fat, drive, map>>
  BY DEF B!Next, B!Start, B!FindSector, B!FindCompare, B!ReadCluster, B!NextCluster, B!EnableA20,
         B!read_e820, B!E820Fails, B!init32, B!Ended, B!vars, loader

LEMMA BootEntry == B!Entry.cluster \in Twelves
  <1> DEFINE k == (sector - B!RootStart) * PerSector + find.di + 1
  <1>1. B!Entry = IF k \in DOMAIN Root THEN Root[k] ELSE [name |-> "JUNK", cluster |-> 0]
    BY DEF B!Entry, PerSector
  <1> HIDE DEF k
  <1>2. CASE k \in DOMAIN Root
    <2>1. B!Entry = Root[k]
      BY <1>1, <1>2
    <2>2. \A x \in DOMAIN Root : Root[x].cluster \in Twelves
      BY BootRoot
    <2>3. Root[k].cluster \in Twelves
      BY <1>2, <2>2
    <2> QED
      BY <2>1, <2>3
  <1>3. CASE k \notin DOMAIN Root
    BY <1>1, <1>3 DEF Twelves
  <1> QED
    BY <1>2, <1>3

\* What NextCluster takes from the FAT.
EntryLba == ReservedSectors + B!EntryOffset(loaded) \div BytesPerSector

EntryAt == B!EntryOffset(loaded) % BytesPerSector

FatEntry(x) ==
    B!Twelve(B!BufferByte(B!Read(EntryLba), EntryAt, x) + 256 * B!BufferByte(B!Read(EntryLba), EntryAt + 1, x))

LEMMA BootNexts ==
    ASSUME NEW x, B!NextCluster(x)
    PROVE  /\ boot = "next" /\ last' = <<EntryLba, B!Read(EntryLba)>>
           /\ boot' = IF B!Read(EntryLba) = B!Unread THEN "error"
                      ELSE IF ~(FatEntry(x) >= 4080) THEN "read"
                      ELSE IF loading = B!INIT THEN "find" ELSE "a20"
           /\ loaded' = FatEntry(x) /\ ax' = loaded
           /\ loading' = IF FatEntry(x) >= 4080 THEN B!KERNEL ELSE loading
           /\ find' = IF FatEntry(x) >= 4080 THEN B!FindStart ELSE find
           /\ UNCHANGED <<fat, drive, bpb, bx, memory, a20, map, mmap>>
  BY DEF B!NextCluster, B!Noted, EntryLba, EntryAt, FatEntry

LEMMA BootOffset ==
    ASSUME loaded \in Twelves
    PROVE  /\ B!EntryOffset(loaded) \in Nat /\ EntryLba \in Nat /\ EntryAt \in 0 .. BytesPerSector - 1
           /\ B!EntryOffset(loaded) \div BytesPerSector \in Nat
  <1> DEFINE o == B!EntryOffset(loaded)
             q == o \div BytesPerSector
             a == o % BytesPerSector
  <1>1. o \in Nat
    BY DEF B!EntryOffset, Twelves
  <1> HIDE DEF o
  <1>2. o = BytesPerSector * q + a /\ q \in Int /\ a \in 0 .. BytesPerSector - 1
    BY <1>1, BootConstants, Division, RemainderRange
  <1> HIDE DEF q, a
  <1>3. q \in Nat
    <2> SUFFICES ASSUME q < 0 PROVE FALSE
      BY <1>2
    <2> DEFINE y == BytesPerSector
               w == y * q
               v == y * 0
    <2>1. w + y <= v /\ v = 0 /\ w \in Int
      BY <1>2, BootConstants, Factor
    <2>2. o = w + a /\ a < y /\ y \in Nat /\ a \in Int
      BY <1>2, BootConstants
    <2> HIDE DEF w, v, y
    <2> QED
      BY <1>1, <2>1, <2>2
  <1>4. EntryLba = ReservedSectors + q /\ EntryAt = a
    BY DEF EntryLba, EntryAt, o, q, a
  <1>5. ReservedSectors + q \in Nat
    BY <1>3, BootConstants
  <1> QED
    BY <1>1, <1>2, <1>3, <1>4, <1>5 DEF o, q

LEMMA BootFatEntry ==
    ASSUME BootTyped, NEW x \in AfterBuffer
    PROVE  FatEntry(x) \in Twelves
  <1>1. x \in 0 .. 255
    BY LoadersAssumption DEF B!BootAssumption
  <1>2. loaded \in Twelves /\ fat \in Fats /\ B!TypeOK
    BY BootStates DEF BootTyped
  <1>3. EntryLba \in Int /\ EntryAt \in Int /\ EntryAt + 1 \in Int
    BY <1>2, BootOffset, BootConstants
  <1>4. B!Read(EntryLba) \in Int
    BY <1>2, <1>3, BootReadInt
  <1> DEFINE r == B!Read(EntryLba)
             at == EntryAt + 1
             b == B!BufferByte(r, EntryAt, x)
             c == B!BufferByte(r, at, x)
             w == b + 256 * c
  <1>a. r \in Int /\ at \in Int
    BY <1>3, <1>4
  <1>b. FatEntry(x) = B!Twelve(w)
    BY DEF FatEntry
  <1> HIDE DEF r, at
  <1>c. fat \in Fats
    BY <1>2
  <1>d. EntryAt \in Int
    BY <1>3
  <1>5. b \in 0 .. 255
    BY <1>1, <1>a, <1>c, <1>d, BootByte
  <1>6. c \in 0 .. 255
    BY <1>1, <1>a, <1>c, BootByte
  <1> HIDE DEF b, c
  <1>7. w \in Int /\ 0 <= w /\ w <= 65535
    <2>1. b \in Int /\ 0 <= b /\ b <= 255
      BY <1>5
    <2>2. c \in Int /\ 0 <= c /\ c <= 255
      BY <1>6
    <2> QED
      BY <2>1, <2>2
  <1> HIDE DEF w
  <1>8. B!Twelve(w) \in Twelves
    <2>1. w \div 16 \in Twelves
      BY <1>7 DEF Twelves
    <2>2. w % 4096 \in Twelves
      BY <1>7 DEF Twelves
    <2> QED
      BY <2>1, <2>2 DEF B!Twelve
  <1> QED
    BY <1>b, <1>8

LEMMA BootParameters ==
    ASSUME drive \in Geometries
    PROVE  B!Parameters \in [track : Nat \ {0}, cylinder : Nat \ {0}]
  <1> DEFINE q == (drive.cylinders - 1) \div CylinderByte
  <1>1. /\ drive.sectors \in Nat /\ drive.sectors > 0 /\ drive.heads \in Nat /\ drive.heads > 0
        /\ drive.cylinders \in Nat /\ drive.cylinders > 0
    BY BootDrive
  <1>2. q \in Nat
    <2> DEFINE d == drive.cylinders - 1
    <2>1. d \in Nat
      BY <1>1
    <2> HIDE DEF d
    <2>2. d \div CylinderByte \in Nat
      BY <2>1, BootConstants
    <2> QED
      BY <2>2 DEF d
  <1> HIDE DEF q
  <1>3. drive.sectors + SectorField * q \in Nat \ {0}
    <2> DEFINE w == SectorField * q
    <2>1. w \in Nat
      BY <1>2, BootConstants
    <2> HIDE DEF w
    <2>2. drive.sectors + w \in Nat \ {0}
      BY <1>1, <2>1
    <2> QED
      BY <2>2 DEF w
  <1>4. B!Parameters = [track |-> drive.sectors + SectorField * q, cylinder |-> drive.heads]
    BY DEF B!Parameters, q
  <1>5. drive.heads \in Nat \ {0}
    BY <1>1
  <1> QED
    BY <1>3, <1>4, <1>5

LEMMA BootTypedStep ==
    ASSUME BootTyped, [B!Next]_loader
    PROVE  BootTyped'
  <1>0. /\ drive \in Geometries /\ bpb \in [track : Nat \ {0}, cylinder : Nat \ {0}]
        /\ boot \in BootPlaces
        /\ loading \in {B!INIT, B!KERNEL} /\ find.di \in 0 .. PerSector
        /\ loaded \in Twelves /\ bx \in 0 .. Segment - 1 /\ a20 \in BOOLEAN
    BY BootStates DEF BootTyped
  <1>00. fat' \in Fats /\ map' \in MemoryMaps /\ drive' = drive /\ find \in FindRegs
    BY BootGivenKept DEF BootTyped
  <1>1. CASE B!Start
    <2>1. /\ bpb' = (IF drive.hdd THEN B!Parameters ELSE bpb) /\ boot' = "find"
          /\ UNCHANGED <<loading, find, loaded, bx, a20>>
      BY <1>1 DEF B!Start, B!load
    <2>2. bpb' \in [track : Nat \ {0}, cylinder : Nat \ {0}]
      BY <1>0, <2>1, BootParameters
    <2> QED
      BY <1>0, <1>00, <2>1, <2>2, BootStatesNext DEF BootTyped, BootPlaces
  <1>2. CASE B!FindSector
    <2>1. /\ boot' \in {"find", "error"} /\ find' = [ax |-> find.ax, di |-> 0, bx |-> find.bx + 1]
          /\ UNCHANGED <<bpb, loading, loaded, bx, a20>>
      BY <1>2 DEF B!FindSector, B!Noted
    <2>2. find' \in FindRegs /\ find'.di = 0
      <3>1. find' = [ax |-> find.ax, di |-> 0, bx |-> find.bx + 1] /\ find.ax \in Int /\ find.bx \in Nat
        BY <1>00, <2>1, FindFields
      <3> QED
        BY <3>1 DEF FindRegs
    <2>3. find'.di \in 0 .. PerSector
      BY <2>2, BootConstants
    <2> QED
      BY <1>0, <1>00, <2>1, <2>2, <2>3, BootStatesNext DEF BootTyped, BootPlaces
  <1>3. CASE B!FindCompare
    <2>1. /\ boot' \in {"read", "find", "error"} /\ UNCHANGED <<bpb, loading, a20>>
          /\ find.di < PerSector
      BY <1>3 DEF B!FindCompare, PerSector
    <2>2. /\ find' = find \/ find' = [ax |-> find.ax - 1, di |-> find.di + 1, bx |-> find.bx]
          /\ loaded' = B!Entry.cluster \/ loaded' = loaded
          /\ bx' = B!Origin(loading) \/ bx' = bx
      BY <1>3 DEF B!FindCompare
    <2>3. find' \in FindRegs /\ (find'.di = find.di \/ find'.di = find.di + 1)
      <3>1. CASE find' = find
        BY <1>00, <3>1
      <3>2. CASE find' = [ax |-> find.ax - 1, di |-> find.di + 1, bx |-> find.bx]
        <4>1. /\ find' = [ax |-> find.ax - 1, di |-> find.di + 1, bx |-> find.bx]
              /\ find.ax \in Int /\ find.di \in Nat /\ find.bx \in Nat
          BY <1>00, <3>2, FindFields
        <4> QED
          BY <4>1 DEF FindRegs
      <3> QED
        BY <2>2, <3>1, <3>2
    <2>4. find'.di \in 0 .. PerSector
      <3> DEFINE a == find.di
                 b == find'.di
      <3>1. a \in 0 .. PerSector /\ a < PerSector /\ (b = a \/ b = a + 1) /\ PerSector \in Nat
        BY <1>0, <2>1, <2>3, BootConstants
      <3> HIDE DEF a, b
      <3>2. b \in 0 .. PerSector
        BY <3>1
      <3> QED
        BY <3>2 DEF b
    <2>5. loaded' \in Twelves
      BY <1>0, <2>2, BootEntry
    <2>6. bx' \in 0 .. Segment - 1
      <3>1. B!Origin(loading) \in 0 .. Segment - 1
        BY BootOrigin, BootConstants
      <3> QED
        BY <1>0, <2>2, <3>1
    <2> QED
      BY <1>0, <1>00, <2>1, <2>3, <2>4, <2>5, <2>6, BootStatesNext DEF BootTyped, BootPlaces
  <1>4. CASE B!ReadCluster
    <2>1. /\ boot' \in {"next", "lost", "error"} /\ UNCHANGED <<bpb, loading, find, loaded, a20>>
          /\ bx' = (bx + SectorsPerCluster * BytesPerSector) % Segment
      BY <1>4 DEF B!ReadCluster, B!Noted
    <2>2. bx' \in 0 .. Segment - 1
      <3> DEFINE w == bx + SectorsPerCluster * BytesPerSector
      <3>1. w \in Int
        BY <1>0, BootConstants
      <3> HIDE DEF w
      <3>2. w % Segment \in 0 .. Segment - 1
        BY <3>1, BootConstants, RemainderRange
      <3> QED
        BY <2>1, <3>2 DEF w
    <2> QED
      BY <1>0, <1>00, <2>1, <2>2, BootStatesNext DEF BootTyped, BootPlaces
  <1>5. ASSUME NEW x \in AfterBuffer, B!NextCluster(x) PROVE BootTyped'
    <2>1. /\ boot' \in {"error", "read", "find", "a20"}
          /\ loaded' = FatEntry(x) /\ loading' \in {B!KERNEL, loading}
          /\ find' = B!FindStart \/ find' = find
          /\ UNCHANGED <<bpb, bx, a20>>
      BY <1>5, BootNexts
    <2>2. loaded' \in Twelves
      BY <2>1, BootFatEntry
    <2>3. find' \in FindRegs /\ (find'.di = PerSector \/ find'.di = find.di)
      BY <1>00, <2>1, BootFindStart
    <2>4. find'.di \in 0 .. PerSector
      BY <1>0, <2>3, BootConstants
    <2> QED
      BY <1>0, <1>00, <2>1, <2>2, <2>3, <2>4, BootStatesNext DEF BootTyped, BootPlaces
  <1>6. CASE B!EnableA20 \/ B!read_e820 \/ B!E820Fails \/ B!init32
    <2>1. /\ boot' \in {"e820", "protected", "error", "kernel"} /\ a20' \in BOOLEAN
          /\ UNCHANGED <<bpb, loading, find, loaded, bx>>
      <3>1. CASE B!EnableA20
        <4>1. /\ boot' = "e820" /\ a20' = (a20 \/ ax = B!ENABLE_A20) /\ UNCHANGED <<bpb, loading, find, loaded, bx>>
          BY <3>1 DEF B!EnableA20, B!load
        <4>2. a20' \in BOOLEAN
          <5>1. a20' = (a20 \/ ax = B!ENABLE_A20)
            BY <3>1 DEF B!EnableA20
          <5> QED
            BY <5>1, Zenon
        <4> QED
          BY <4>1, <4>2
      <3>2. CASE B!read_e820
        BY <1>0, <3>2 DEF B!read_e820, B!load
      <3>3. CASE B!E820Fails
        BY <1>0, <3>3 DEF B!E820Fails, B!load
      <3>4. CASE B!init32
        BY <1>0, <3>4 DEF B!init32, B!load
      <3> QED
        BY <1>6, <3>1, <3>2, <3>3, <3>4
    <2> QED
      BY <1>0, <1>00, <2>1, BootStatesNext DEF BootTyped, BootPlaces
  <1>7. CASE B!Ended \/ UNCHANGED loader
    <2>1. UNCHANGED <<bpb, boot, loading, find, loaded, bx, a20>>
      BY <1>7 DEF B!Ended, B!vars, loader
    <2> QED
      BY <1>0, <1>00, <2>1, BootStatesNext DEF BootTyped, BootPlaces
  <1> QED
    BY <1>1, <1>2, <1>3, <1>4, <1>5, <1>6, <1>7 DEF B!Next

-----------------------------------------------------------------------------
LEMMA Monotone ==
    ASSUME NEW y \in Nat, NEW p \in Int, NEW q \in Int, p <= q
    PROVE  y * p <= y * q
  <1>1. CASE p = q
    <2> DEFINE w == y * p
    <2>1. w \in Int
      OBVIOUS
    <2> HIDE DEF w
    <2>2. w <= w
      BY <2>1
    <2> QED
      BY <1>1, <2>2 DEF w
  <1>2. CASE p < q
    <2> DEFINE u == y * p
               w == y * q
    <2>1. u + y <= w /\ u \in Int /\ w \in Int
      BY <1>2, Factor
    <2> HIDE DEF u, w
    <2>2. u <= w
      BY <2>1
    <2> QED
      BY <2>2 DEF u, w
  <1> QED
    BY <1>1, <1>2

\* What is divided is not negative, nor is the quotient.
LEMMA QuotientNat ==
    ASSUME NEW a \in Nat, NEW y \in Nat, y > 0
    PROVE  a \div y \in Nat
  <1> DEFINE q == a \div y
             r == a % y
             w == y * q
             v == y * 0
  <1>1. a = w + r /\ q \in Int /\ r \in Int /\ 0 <= r /\ r < y
    BY Division
  <1> HIDE DEF q, r
  <1>2. ASSUME q < 0 PROVE FALSE
    <2>1. w + y <= v /\ v = 0 /\ w \in Int
      BY <1>1, <1>2, Factor
    <2> HIDE DEF w, v
    <2> QED
      BY <1>1, <2>1
  <1>3. q \in Nat
    BY <1>1, <1>2
  <1> QED
    BY <1>3 DEF q

\* A quotient is below m if what is divided is below m times the divisor.
LEMMA QuotientBelow ==
    ASSUME NEW a \in Nat, NEW y \in Nat, y > 0, NEW m \in Nat, a < y * m
    PROVE  a \div y < m
  <1> DEFINE q == a \div y
             r == a % y
             w == y * q
             v == y * m
  <1>1. a = w + r /\ q \in Int /\ r \in Int /\ 0 <= r
    BY Division
  <1> HIDE DEF q, r
  <1>2. ASSUME m <= q PROVE FALSE
    <2>1. v <= w /\ w \in Int /\ v \in Int /\ a < v
      BY <1>1, <1>2, Monotone
    <2> HIDE DEF w, v
    <2> QED
      BY <1>1, <2>1
  <1>3. q < m
    BY <1>1, <1>2
  <1> QED
    BY <1>3 DEF q

\* The boot loader's parameters are the drive's.
Geometry == bpb = [track |-> drive.sectors, cylinder |-> drive.heads]

\* The BIOS reads what was asked for.
LEMMA BootReads ==
    ASSUME B!Bootable, drive \in Geometries, Geometry, NEW l \in Nat, l < B!Reach(drive)
    PROVE  B!Read(l) = l
  <1> DEFINE T == drive.sectors
             H == drive.heads
             C == drive.cylinders
             track == l \div T
             r == l % T
             c == track \div H
             h == track % H
             p == [c |-> c, h |-> h, s |-> r + 1]
  <1>0. T \in Nat /\ T > 0 /\ T < SectorField /\ H \in Nat /\ H > 0 /\ C \in Nat /\ C > 0
    BY BootDrive
  <1>00. CylinderByte \in Nat /\ CylinderByte > 0 /\ SectorField \in Nat /\ SectorField > 0
    BY BootConstants
  <1>a. l < Segment /\ l < B!Capacity(drive)
    <2>1. B!Capacity(drive) \in Nat /\ Segment \in Nat
      BY <1>0, BootConstants DEF B!Capacity
    <2> QED
      BY <2>1 DEF B!Reach
  <1>b. l % Segment = l
    <2>1. (Segment * 0 + l) % Segment = l
      BY <1>a, BootConstants, DivisionUnique
    <2>2. Segment * 0 + l = l
      BY BootConstants
    <2> QED
      BY <2>1, <2>2
  <1>1. B!CHS(l) = p
    BY <1>b DEF B!CHS, Geometry
  <1>2. C <= CylinderByte * 4
    <2>1. C <= CylinderByte * (IF drive.hdd THEN 1 ELSE 4)
      BY DEF B!Bootable
    <2>2. CylinderByte * 1 <= CylinderByte * 4 /\ CylinderByte * 1 \in Int /\ CylinderByte * 4 \in Int
      BY <1>00
    <2> QED
      BY <1>0, <2>1, <2>2
  <1>3. l < T * (H * C)
    <2>1. B!Capacity(drive) = (C * H) * T
      BY DEF B!Capacity
    <2>2. (C * H) * T = T * (H * C)
      BY <1>0
    <2> QED
      BY <1>a, <2>1, <2>2
  <1> HIDE DEF T, H, C
  <1>4. l = T * track + r /\ track \in Nat /\ r \in Int /\ 0 <= r /\ r < T
    BY <1>0, Division, QuotientNat
  <1>5. track < H * C
    <2> DEFINE m == H * C
    <2>1. m \in Nat /\ l < T * m
      BY <1>0, <1>3
    <2> HIDE DEF m
    <2>2. track < m
      BY <1>0, <2>1, QuotientBelow
    <2> QED
      BY <2>2 DEF m
  <1> HIDE DEF track, r
  <1>6. track = H * c + h /\ c \in Nat /\ h \in Int /\ 0 <= h /\ h < H
    BY <1>0, <1>4, Division, QuotientNat
  <1>7. c < C
    BY <1>0, <1>4, <1>5, QuotientBelow
  <1> HIDE DEF c, h
  <1> DEFINE s == r + 1
             u == c \div CylinderByte
             v == c % CylinderByte
  <1>8. s \in Nat /\ s \in 1 .. T /\ s < SectorField
    BY <1>0, <1>00, <1>4
  <1> HIDE DEF s
  <1>9. s % SectorField = s /\ s \div SectorField = 0
    <2>1. (SectorField * 0 + s) % SectorField = s /\ (SectorField * 0 + s) \div SectorField = 0
      BY <1>00, <1>8, DivisionUnique
    <2>2. SectorField * 0 + s = s
      BY <1>00, <1>8
    <2> QED
      BY <2>1, <2>2
  <1>10. c = CylinderByte * u + v /\ u \in Nat /\ v \in Int /\ u < 4
    <2>1. c < CylinderByte * 4
      BY <1>0, <1>00, <1>2, <1>6, <1>7
    <2> QED
      BY <1>00, <1>6, <2>1, Division, QuotientNat, QuotientBelow
  <1> HIDE DEF u, v
  <1>11. u % 4 = u
    BY <1>10
  <1>12. B!Or(u, 0) = u
    BY <1>10 DEF B!Or
  <1>13. p.s = s /\ p.c = c /\ p.h = h
    BY DEF s
  <1>14. B!Bios(p) = IF s \in 1 .. T /\ h < H /\ v + CylinderByte * u < C
                     THEN ((v + CylinderByte * u) * H + h) * T + s - 1 ELSE -1
    <2>1. p.s % SectorField = s
      BY <1>9, <1>13
    <2>2. (p.s \div SectorField) % 4 = 0
      BY <1>9, <1>13
    <2>3. (p.c \div CylinderByte) % 4 = u
      BY <1>11, <1>13 DEF u
    <2>4. p.c % CylinderByte = v
      BY <1>13 DEF v
    <2> HIDE DEF p
    <2> QED
      BY <1>12, <1>13, <2>1, <2>2, <2>3, <2>4 DEF B!Bios, B!Unread, T, H, C
  <1>15. v + CylinderByte * u = c
    <2> DEFINE w == CylinderByte * u
    <2>1. w \in Int /\ c = w + v
      BY <1>00, <1>10
    <2> HIDE DEF w
    <2>2. v + w = c
      BY <1>10, <2>1
    <2> QED
      BY <2>2 DEF w
  <1>16. B!Bios(p) = (c * H + h) * T + s - 1
    BY <1>6, <1>7, <1>8, <1>14, <1>15
  <1>17. (c * H + h) * T + s - 1 = l
    <2>1. c * H + h = track
      BY <1>0, <1>6
    <2> DEFINE w == T * track
    <2>2. w \in Int /\ track * T = w /\ l = w + r
      BY <1>0, <1>4
    <2> HIDE DEF w
    <2>3. w + s - 1 = l
      BY <1>4, <2>2 DEF s
    <2> QED
      BY <2>1, <2>2, <2>3
  <1> QED
    BY <1>1, <1>16, <1>17 DEF B!Read

-----------------------------------------------------------------------------
\* c is the first n + 1 clusters of a chain of t that begins at a.
Chains(c, t, a, n) == c = [k \in 0 .. n |-> IF k = 0 THEN a ELSE t[c[k - 1]]]

LEMMA ChainsAt ==
    ASSUME NEW c, NEW t, NEW a, NEW n \in Nat, Chains(c, t, a, n)
    PROVE  c[0] = a /\ \A k \in 0 .. n : k # 0 => c[k] = t[c[k - 1]]
  <1>1. ASSUME NEW k \in 0 .. n PROVE c[k] = IF k = 0 THEN a ELSE t[c[k - 1]]
    BY DEF Chains
  <1>2. 0 \in 0 .. n
    OBVIOUS
  <1> QED
    BY <1>1, <1>2

LEMMA ChainsExists ==
    ASSUME NEW t, NEW a, NEW n \in Nat
    PROVE  \E c : Chains(c, t, a, n)
  <1> DEFINE S == {m \in Nat : \E c : Chains(c, t, a, m)}
  <1>1. 0 \in S
    <2> DEFINE c == [k \in 0 .. 0 |-> a]
    <2>1. c = [k \in 0 .. 0 |-> IF k = 0 THEN a ELSE t[c[k - 1]]]
      OBVIOUS
    <2> HIDE DEF c
    <2>2. Chains(c, t, a, 0)
      BY <2>1 DEF Chains
    <2> QED
      BY <2>2
  <1>2. ASSUME NEW m \in S, m \in Nat PROVE m + 1 \in S
    <2>1. PICK c : Chains(c, t, a, m)
      OBVIOUS
    <2>2. c[0] = a /\ \A k \in 0 .. m : k # 0 => c[k] = t[c[k - 1]]
      BY <1>2, <2>1, ChainsAt
    <2> DEFINE d == [k \in 0 .. m + 1 |-> IF k = m + 1 THEN t[c[m]] ELSE c[k]]
    <2>3. ASSUME NEW k \in 0 .. m + 1 PROVE d[k] = IF k = 0 THEN a ELSE t[d[k - 1]]
      <3>0. d[k] = IF k = m + 1 THEN t[c[m]] ELSE c[k]
        OBVIOUS
      <3>1. CASE k = m + 1
        <4>1. k # 0 /\ k - 1 = m /\ m \in 0 .. m + 1 /\ m # m + 1
          BY <1>2, <3>1
        <4>2. d[m] = c[m]
          BY <4>1
        <4> HIDE DEF d
        <4> QED
          BY <3>0, <3>1, <4>1, <4>2
      <3>2. CASE k # m + 1 /\ k # 0
        <4>1. k \in 0 .. m /\ k - 1 \in 0 .. m + 1 /\ k - 1 # m + 1
          BY <1>2, <3>2
        <4>2. d[k - 1] = c[k - 1]
          BY <4>1
        <4> HIDE DEF d
        <4> QED
          BY <2>2, <3>0, <3>2, <4>1, <4>2
      <3>3. CASE k # m + 1 /\ k = 0
        <4> HIDE DEF d
        <4> QED
          BY <2>2, <3>0, <3>3
      <3> QED
        BY <3>1, <3>2, <3>3
    <2>4. d = [k \in 0 .. m + 1 |-> d[k]]
      OBVIOUS
    <2> HIDE DEF d
    <2>5. d = [k \in 0 .. m + 1 |-> IF k = 0 THEN a ELSE t[d[k - 1]]]
      BY <2>3, <2>4
    <2>6. Chains(d, t, a, m + 1)
      BY <2>5 DEF Chains
    <2>7. m + 1 \in Nat
      BY <1>2
    <2> QED
      BY <2>6, <2>7
  <1>3. Nat \subseteq S
    <2> HIDE DEF S
    <2> QED
      BY <1>1, <1>2, SetInduction
  <1>4. n \in S
    BY <1>3
  <1> QED
    BY <1>4

LEMMA ChainsAgree ==
    ASSUME NEW t, NEW a, NEW m \in Nat, NEW n \in Nat, m <= n, NEW c, NEW d,
           Chains(c, t, a, m), Chains(d, t, a, n)
    PROVE  c[m] = d[m]
  <1> DEFINE S == {k \in Nat : k <= m => c[k] = d[k]}
  <1>1. c[0] = a /\ \A k \in 0 .. m : k # 0 => c[k] = t[c[k - 1]]
    BY ChainsAt
  <1>2. d[0] = a /\ \A k \in 0 .. n : k # 0 => d[k] = t[d[k - 1]]
    BY ChainsAt
  <1>3. 0 \in S
    BY <1>1, <1>2
  <1>4. ASSUME NEW k \in S, k \in Nat PROVE k + 1 \in S
    <2> DEFINE y == k + 1
    <2>1. y \in Nat /\ y # 0 /\ y - 1 = k
      BY <1>4
    <2> HIDE DEF y
    <2>2. ASSUME y <= m PROVE c[y] = d[y]
      <3>1. y \in 0 .. m /\ y \in 0 .. n /\ k <= m
        BY <1>4, <2>1, <2>2
      <3>2. c[y] = t[c[k]] /\ d[y] = t[d[k]]
        BY <1>1, <1>2, <2>1, <3>1
      <3>3. c[k] = d[k]
        BY <3>1
      <3> QED
        BY <3>2, <3>3
    <2>3. y \in S
      BY <2>1, <2>2
    <2> QED
      BY <2>3 DEF y
  <1>5. Nat \subseteq S
    <2> HIDE DEF S
    <2> QED
      BY <1>3, <1>4, SetInduction
  <1> QED
    BY <1>5

\* The first cluster of file f, and the one after each of its clusters.
First(f) == (CHOOSE e \in B!Range(Root) : e.name = f).cluster

LEMMA ClusterChains ==
    ASSUME NEW t, NEW f, NEW n \in Nat
    PROVE  \E c : Chains(c, t, First(f), n) /\ B!ClusterOf(t, f, n) = c[n]
  <1> DEFINE D(d) == [k \in 0 .. n |-> IF k = 0 THEN First(f) ELSE t[d[k - 1]]]
             c    == CHOOSE d : d = D(d)
  <1>1. B!ClusterOf(t, f, n) = c[n]
    BY DEF B!ClusterOf, First
  <1>2. PICK d : Chains(d, t, First(f), n)
    BY ChainsExists
  <1>3. d = D(d)
    BY <1>2 DEF Chains
  <1>4. c = D(c)
    BY <1>3
  <1>5. Chains(c, t, First(f), n)
    <2> HIDE DEF c
    <2> QED
      BY <1>4 DEF Chains
  <1> QED
    BY <1>1, <1>5

LEMMA ClusterFirst ==
    ASSUME NEW t, NEW f
    PROVE  B!ClusterOf(t, f, 0) = First(f)
  <1>1. PICK c : Chains(c, t, First(f), 0) /\ B!ClusterOf(t, f, 0) = c[0]
    BY ClusterChains
  <1> QED
    BY <1>1, ChainsAt

LEMMA ClusterNext ==
    ASSUME NEW t, NEW f, NEW n \in Nat
    PROVE  B!ClusterOf(t, f, n + 1) = t[B!ClusterOf(t, f, n)]
  <1> DEFINE a == First(f)
             m == n + 1
  <1>0. m \in Nat /\ m \in 0 .. m /\ m # 0 /\ m - 1 = n /\ n <= m
    OBVIOUS
  <1> HIDE DEF m
  <1>1. PICK c : Chains(c, t, a, n) /\ B!ClusterOf(t, f, n) = c[n]
    BY ClusterChains
  <1>2. PICK d : Chains(d, t, a, m) /\ B!ClusterOf(t, f, m) = d[m]
    BY <1>0, ClusterChains
  <1> HIDE DEF a
  <1>3. d[m] = t[d[n]]
    <2>1. \A k \in 0 .. m : k # 0 => d[k] = t[d[k - 1]]
      BY <1>0, <1>2, ChainsAt
    <2> QED
      BY <1>0, <2>1
  <1>4. c[n] = d[n]
    BY <1>0, <1>1, <1>2, ChainsAgree
  <1> QED
    BY <1>1, <1>2, <1>3, <1>4 DEF m

-----------------------------------------------------------------------------
\* Twelve bits are three half bytes.
LEMMA Sixteens ==
    ASSUME NEW e \in Nat
    PROVE  e \div 16 \in Nat /\ e % 16 \in Nat /\ e % 16 <= 15 /\ e = 16 * (e \div 16) + (e % 16)
  <1>1. e \div 16 \in Nat /\ e % 16 \in Nat /\ e % 16 <= 15
    OBVIOUS
  <1>2. e = 16 * (e \div 16) + (e % 16)
    <2> DEFINE y == 16
    <2>1. y \in Nat /\ y > 0
      OBVIOUS
    <2> HIDE DEF y
    <2>2. e = y * (e \div y) + (e % y)
      BY <2>1, Division
    <2> QED
      BY <2>2 DEF y
  <1> QED
    BY <1>1, <1>2

LEMMA HalfBytes ==
    ASSUME NEW e \in Nat, e <= 4095
    PROVE  /\ e % 16 \in 0 .. 15 /\ (e \div 16) % 16 \in 0 .. 15 /\ (e \div 256) % 16 \in 0 .. 15
           /\ e = (e % 16) + 16 * ((e \div 16) % 16) + 256 * ((e \div 256) % 16)
  <1> DEFINE m == e \div 16
             n == e \div 256
             x0 == e % 16
             x1 == m % 16
  <1>1. m \in Nat /\ x0 \in Nat /\ x0 <= 15 /\ e = 16 * m + x0
    BY Sixteens
  <1>2. n = m \div 16
    OBVIOUS
  <1>3. n \in Nat /\ n <= 15
    OBVIOUS
  <1> HIDE DEF m, x0
  <1>4. x1 \in Nat /\ x1 <= 15 /\ m = 16 * n + x1
    <2>1. m \div 16 \in Nat /\ m % 16 \in Nat /\ m % 16 <= 15 /\ m = 16 * (m \div 16) + (m % 16)
      BY <1>1, Sixteens
    <2> HIDE DEF n
    <2>2. x1 \in Nat /\ x1 <= 15
      BY <2>1
    <2>3. m = 16 * n + x1
      BY <1>2, <2>1
    <2> QED
      BY <2>2, <2>3
  <1> HIDE DEF n, x1
  <1>5. n % 16 = n
    BY <1>3
  <1>6. e = x0 + 16 * x1 + 256 * n
    BY <1>1, <1>3, <1>4
  <1>7. x0 \in 0 .. 15 /\ x1 \in 0 .. 15 /\ n \in 0 .. 15
    BY <1>1, <1>3, <1>4
  <1> QED
    BY <1>5, <1>6, <1>7 DEF m, n, x0, x1

LEMMA EvenEntry ==
    ASSUME NEW e \in Nat, e % 2 = 0
    PROVE  2 * (e + e \div 2) = 3 * e
  OBVIOUS

LEMMA OddEntry ==
    ASSUME NEW e \in Nat, e % 2 = 1
    PROVE  2 * (e + e \div 2) + 1 = 3 * e
  OBVIOUS

LEMMA Parity ==
    ASSUME NEW e \in Nat
    PROVE  e % 2 = 0 \/ e % 2 = 1
  OBVIOUS

LEMMA TwelveBits ==
    ASSUME NEW e \in Twelves
    PROVE  e \in Nat /\ e <= 4095
  BY DEF Twelves

\* The three half bytes of a cluster's entry.
LEMMA BootHalves ==
    ASSUME fat \in Fats, NEW c \in DOMAIN fat
    PROVE  /\ B!HalfByte(3 * c) \in 0 .. 15 /\ B!HalfByte(3 * c + 1) \in 0 .. 15 /\ B!HalfByte(3 * c + 2) \in 0 .. 15
           /\ fat[c] = B!HalfByte(3 * c) + 16 * B!HalfByte(3 * c + 1) + 256 * B!HalfByte(3 * c + 2)
  <1> DEFINE e == fat[c]
  <1>1. c \in Nat /\ e \in Twelves
    BY BootFat
  <1>2. (3 * c) \div 3 = c /\ (3 * c) % 3 = 0
    BY <1>1
  <1>3. (3 * c + 1) \div 3 = c /\ (3 * c + 1) % 3 = 1
    BY <1>1
  <1>4. (3 * c + 2) \div 3 = c /\ (3 * c + 2) % 3 = 2
    BY <1>1
  <1>5. B!HalfByte(3 * c) = (e \div 1) % 16
    <2> DEFINE n == 3 * c
    <2>1. n \div 3 = c /\ n % 3 = 0
      BY <1>2
    <2> HIDE DEF n
    <2>2. B!HalfByte(n) = (fat[c] \div <<1, 16, 256>>[0 + 1]) % 16
      BY <2>1 DEF B!HalfByte
    <2> QED
      BY <2>2 DEF n
  <1>6. B!HalfByte(3 * c + 1) = (e \div 16) % 16
    <2> DEFINE n == 3 * c + 1
    <2>1. n \div 3 = c /\ n % 3 = 1
      BY <1>3
    <2> HIDE DEF n
    <2>2. B!HalfByte(n) = (fat[c] \div <<1, 16, 256>>[1 + 1]) % 16
      BY <2>1 DEF B!HalfByte
    <2> QED
      BY <2>2 DEF n
  <1>7. B!HalfByte(3 * c + 2) = (e \div 256) % 16
    <2> DEFINE n == 3 * c + 2
    <2>1. n \div 3 = c /\ n % 3 = 2
      BY <1>4
    <2> HIDE DEF n
    <2>2. B!HalfByte(n) = (fat[c] \div <<1, 16, 256>>[2 + 1]) % 16
      BY <2>1 DEF B!HalfByte
    <2> QED
      BY <2>2 DEF n
  <1> HIDE DEF e
  <1>8. /\ (e \div 1) % 16 \in 0 .. 15 /\ (e \div 16) % 16 \in 0 .. 15 /\ (e \div 256) % 16 \in 0 .. 15
        /\ e = ((e \div 1) % 16) + 16 * ((e \div 16) % 16) + 256 * ((e \div 256) % 16)
    <2>1. e \in Nat /\ e <= 4095
      BY <1>1, TwelveBits
    <2>2. e \div 1 = e
      BY <2>1
    <2> QED
      BY <2>1, <2>2, HalfBytes
  <1> QED
    BY <1>5, <1>6, <1>7, <1>8 DEF e

\* An entry in one sector of the FAT is read as it is.
LEMMA BootEntryRead ==
    ASSUME fat \in Fats, loaded \in Twelves, NEW x
    PROVE  loaded \in DOMAIN fat /\ EntryAt # BytesPerSector - 1 /\ B!Read(EntryLba) = EntryLba
             => FatEntry(x) = fat[loaded]
  <1>h. SUFFICES ASSUME loaded \in DOMAIN fat, EntryAt # BytesPerSector - 1, B!Read(EntryLba) = EntryLba
                 PROVE  FatEntry(x) = fat[loaded]
    OBVIOUS
  <1> DEFINE y == BytesPerSector
             o == B!EntryOffset(loaded)
             q == o \div y
             a == o % y
             r == EntryLba
             after == a + 1
  <1>0. y \in Nat /\ y > 0 /\ ReservedSectors \in Nat
    BY BootConstants
  <1>1. o \in Nat /\ q \in Nat /\ a \in 0 .. y - 1 /\ r = ReservedSectors + q /\ a # y - 1 /\ EntryAt = a
    BY <1>h, BootOffset DEF EntryLba, EntryAt
  <1>2. o = y * q + a
    <2> HIDE DEF o, y
    <2> QED
      BY <1>0, <1>1, Division
  <1>3. o = loaded + loaded \div 2
    BY DEF B!EntryOffset
  <1>e. loaded \in Nat
    BY TwelveBits
  <1> HIDE DEF o, q, a, r, y
  <1>4. ~(a >= y) /\ ~(after >= y) /\ after \in Int /\ a \in Int
    BY <1>0, <1>1
  <1>5. (r - ReservedSectors) * y + a = o /\ (r - ReservedSectors) * y + after = o + 1
    <2>1. r - ReservedSectors = q
      BY <1>0, <1>1
    <2>2. q * y = y * q /\ y * q \in Int
      BY <1>0, <1>1
    <2> DEFINE w == y * q
    <2> HIDE DEF w
    <2>3. w + a = o /\ w + after = o + 1 /\ q * y = w
      BY <1>1, <1>2, <2>2 DEF w
    <2> HIDE DEF after
    <2> QED
      BY <2>1, <2>3
  <1> HIDE DEF after
  <1>6. B!BufferByte(r, a, x) = B!FatByte(o)
    BY <1>4, <1>5 DEF B!BufferByte, y
  <1>7. B!BufferByte(r, after, x) = B!FatByte(o + 1)
    BY <1>4, <1>5 DEF B!BufferByte, y
  <1>8. FatEntry(x) = B!Twelve(B!FatByte(o) + 256 * B!FatByte(o + 1))
    BY <1>h, <1>1, <1>6, <1>7 DEF FatEntry, after, r
  <1> DEFINE H0 == B!HalfByte(2 * o)
             H1 == B!HalfByte(2 * o + 1)
             H2 == B!HalfByte(2 * o + 2)
             H3 == B!HalfByte(2 * o + 3)
  <1>9. B!FatByte(o) = H0 + 16 * H1 /\ B!FatByte(o + 1) = H2 + 16 * H3
    <2>1. 2 * (o + 1) = 2 * o + 2 /\ 2 * (o + 1) + 1 = 2 * o + 3
      BY <1>1
    <2>2. B!FatByte(o) = H0 + 16 * H1
      BY DEF B!FatByte
    <2>3. B!FatByte(o + 1) = B!HalfByte(2 * (o + 1)) + 16 * B!HalfByte(2 * (o + 1) + 1)
      BY DEF B!FatByte
    <2> QED
      BY <2>1, <2>2, <2>3
  <1>10. H0 \in 0 .. 15 /\ H1 \in 0 .. 15 /\ H2 \in 0 .. 15 /\ H3 \in 0 .. 15
    <2>1. 2 * o \in Int /\ 2 * o + 1 \in Int /\ 2 * o + 2 \in Int /\ 2 * o + 3 \in Int
      BY <1>1
    <2> QED
      BY <2>1, BootHalfByte
  <1> DEFINE word == (H0 + 16 * H1) + 256 * (H2 + 16 * H3)
  <1>11. CASE loaded % 2 = 0
    <2>1. 2 * o = 3 * loaded /\ 2 * o + 1 = 3 * loaded + 1 /\ 2 * o + 2 = 3 * loaded + 2
      <3>1. 2 * o = 3 * loaded
        BY <1>e, <1>3, <1>11, EvenEntry
      <3> QED
        BY <1>1, <3>1
    <2>2. fat[loaded] = H0 + 16 * H1 + 256 * H2
      BY <1>h, <2>1, BootHalves
    <2>3. FatEntry(x) = word % 4096
      BY <1>8, <1>9, <1>11 DEF B!Twelve
    <2> HIDE DEF H0, H1, H2, H3
    <2>4. word % 4096 = H0 + 16 * H1 + 256 * H2
      BY <1>10
    <2> QED
      BY <2>2, <2>3, <2>4
  <1>12. CASE loaded % 2 = 1
    <2>1. 2 * o + 1 = 3 * loaded /\ 2 * o + 2 = 3 * loaded + 1 /\ 2 * o + 3 = 3 * loaded + 2
      <3>1. 2 * o + 1 = 3 * loaded
        BY <1>e, <1>3, <1>12, OddEntry
      <3>2. 2 * o + 2 = (2 * o + 1) + 1 /\ 2 * o + 3 = (2 * o + 1) + 2
        BY <1>1
      <3> QED
        BY <3>1, <3>2
    <2>2. fat[loaded] = H1 + 16 * H2 + 256 * H3
      BY <1>h, <2>1, BootHalves
    <2>3. FatEntry(x) = word \div 16
      BY <1>8, <1>9, <1>12 DEF B!Twelve
    <2> HIDE DEF H0, H1, H2, H3
    <2>4. word \div 16 = H1 + 16 * H2 + 256 * H3
      BY <1>10
    <2> QED
      BY <2>2, <2>3, <2>4
  <1>13. loaded % 2 = 0 \/ loaded % 2 = 1
    BY <1>e, Parity
  <1> QED
    BY <1>11, <1>12, <1>13

-----------------------------------------------------------------------------
\* The files of the loader that the volume has.
Known == {B!INIT, B!KERNEL} \cap {e.name : e \in B!Range(Root)}

\* The number of clusters of file f, by FAT t.
Size(t, f) ==
    CHOOSE n \in DOMAIN t \ {0} :
        B!ClusterOf(t, f, n) >= 4080 /\ \A k \in 1 .. n - 1 : B!ClusterOf(t, f, k) < 4080

\* The clusters that a file may have, and those that end it.
DataClusters == 2 .. 4079

Ends(c) == c >= 4080

LEMMA BootBelow ==
    ASSUME NEW c \in DataClusters
    PROVE  c \in Twelves
  BY DEF DataClusters, Twelves

LEMMA BootEnds ==
    ASSUME NEW c \in DataClusters
    PROVE  ~Ends(c) /\ c < 4080
  BY DEF DataClusters, Ends

\* What Bootable says of a cluster c on drive g.
Sound(t, g, c) ==
    /\ c \in DOMAIN t /\ c \in DataClusters
    /\ B!EntryOffset(c) \div BytesPerSector < SectorsPerFat
    /\ B!EntryOffset(c) % BytesPerSector # BytesPerSector - 1
    /\ B!Data + (c - 1) * SectorsPerCluster <= B!Reach(g)

LEMMA BootSize ==
    ASSUME B!Bootable, NEW t \in Fats, NEW g \in Geometries, NEW f \in Known
    PROVE  /\ Size(t, f) \in Nat /\ Size(t, f) >= 1
           /\ \A k \in 0 .. Size(t, f) - 1 : Sound(t, g, B!ClusterOf(t, f, k))
           /\ B!ClusterOf(t, f, Size(t, f)) >= 4080
           /\ B!Origin(f) + Size(t, f) * (SectorsPerCluster * BytesPerSector) <= B!Room(f)
  <1> DEFINE C    == DOMAIN t \ {0}
             P(n) == B!ClusterOf(t, f, n) >= 4080 /\ \A k \in 1 .. n - 1 : B!ClusterOf(t, f, k) < 4080
             N    == Size(t, f)
  <1>1. \A n \in C : n \in Nat /\ n >= 1
    <2>1. \A n \in DOMAIN t : n \in Nat
      BY BootFat
    <2> QED
      BY <2>1
  <1>2. PICK n \in C :
             /\ \A k \in 0 .. n - 1 : Sound(t, g, B!ClusterOf(t, f, k))
             /\ B!ClusterOf(t, f, n) >= 4080
             /\ B!Origin(f) + n * (SectorsPerCluster * BytesPerSector) <= B!Room(f)
    <2>1. f \in {B!INIT, B!KERNEL} \cap {e.name : e \in B!Range(Root)}
      BY DEF Known
    <2>2. \A u \in Fats, h \in Geometries, e \in {B!INIT, B!KERNEL} \cap {d.name : d \in B!Range(Root)} :
             \E n \in DOMAIN u \ {0} :
                /\ \A k \in 0 .. n - 1 : Sound(u, h, B!ClusterOf(u, e, k))
                /\ B!ClusterOf(u, e, n) >= 4080
                /\ B!Origin(e) + n * (SectorsPerCluster * BytesPerSector) <= B!Room(e)
      BY DEF B!Bootable, Sound, DataClusters
    <2> QED
      BY <2>1, <2>2
  <1>3. \A k \in 0 .. n - 1 : Sound(t, g, B!ClusterOf(t, f, k))
    BY <1>2
  <1>4. \A k \in 0 .. n - 1 : B!ClusterOf(t, f, k) \in DataClusters
    BY <1>3 DEF Sound
  <1> HIDE DEF C
  <1>5. n \in Nat /\ n >= 1
    BY <1>1
  <1>6. P(n)
    <2>1. ASSUME NEW k \in 1 .. n - 1 PROVE B!ClusterOf(t, f, k) < 4080
      <3>1. k \in 0 .. n - 1
        BY <1>5
      <3>2. B!ClusterOf(t, f, k) \in DataClusters
        BY <1>4, <3>1
      <3> QED
        BY <3>2, BootEnds
    <2> QED
      BY <1>2, <2>1
  <1>7. N \in C /\ P(N)
    <2>1. N = CHOOSE m \in C : P(m)
      BY DEF Size, C
    <2> HIDE DEF P, N
    <2> QED
      BY <1>6, <2>1
  <1> HIDE DEF N
  <1>8. N \in Nat /\ N >= 1
    BY <1>1, <1>7
  <1>9. ~(N < n)
    <2> SUFFICES ASSUME N < n PROVE FALSE
      OBVIOUS
    <2>1. N \in 0 .. n - 1
      BY <1>5, <1>8
    <2>2. B!ClusterOf(t, f, N) \in DataClusters
      BY <1>4, <2>1
    <2>3. Ends(B!ClusterOf(t, f, N))
      BY <1>7 DEF Ends
    <2> QED
      BY <2>2, <2>3, BootEnds
  <1>10. ~(n < N)
    <2> SUFFICES ASSUME n < N PROVE FALSE
      OBVIOUS
    <2>1. n \in 1 .. N - 1 /\ n - 1 + 1 = n
      BY <1>5, <1>8
    <2> DEFINE c == B!ClusterOf(t, f, n)
               d == B!ClusterOf(t, f, n - 1)
    <2>2. c < 4080 /\ c >= 4080
      BY <1>2, <1>7, <2>1
    <2>3. c \in Int
      <3>1. n - 1 \in Nat /\ n - 1 \in 0 .. n - 1
        BY <1>5
      <3>2. d \in DOMAIN t
        BY <1>3, <3>1 DEF Sound
      <3>3. c = t[d]
        BY <2>1, <3>1, ClusterNext
      <3>4. t[d] \in Twelves
        BY <3>2, BootFat
      <3> HIDE DEF c, d
      <3>a. PICK e \in Twelves : e = t[d]
        BY <3>4
      <3>b. e \in Nat
        BY TwelveBits
      <3>5. t[d] \in Nat
        BY <3>a, <3>b
      <3> QED
        BY <3>3, <3>5
    <2> HIDE DEF c
    <2> QED
      BY <2>2, <2>3
  <1>11. N = n
    BY <1>5, <1>8, <1>9, <1>10
  <1> QED
    BY <1>2, <1>3, <1>5, <1>11 DEF N

LEMMA BootClusterNat ==
    ASSUME B!Bootable, NEW t \in Fats, drive \in Geometries, NEW f \in Known, NEW n \in Nat, n <= Size(t, f)
    PROVE  B!ClusterOf(t, f, n) \in Twelves
  <1> DEFINE N == Size(t, f)
  <1>1. N \in Nat /\ N >= 1 /\ \A k \in 0 .. N - 1 : Sound(t, drive, B!ClusterOf(t, f, k))
    BY BootSize
  <1> HIDE DEF N
  <1>2. CASE n < N
    <2>1. n \in 0 .. N - 1
      BY <1>1, <1>2
    <2>2. Sound(t, drive, B!ClusterOf(t, f, n))
      BY <1>1, <2>1
    <2>3. B!ClusterOf(t, f, n) \in DataClusters
      BY <2>2 DEF Sound
    <2> QED
      BY <2>3, BootBelow
  <1>3. CASE n = N
    <2> DEFINE m == n - 1
               d == B!ClusterOf(t, f, m)
    <2>1. m \in Nat /\ m \in 0 .. N - 1 /\ m + 1 = n
      BY <1>1, <1>3
    <2> HIDE DEF m
    <2>2. d \in DOMAIN t
      BY <1>1, <2>1 DEF Sound
    <2>3. B!ClusterOf(t, f, m + 1) = t[d]
      BY <2>1, ClusterNext
    <2>4. t[d] \in Twelves
      BY <2>2, BootFat
    <2> HIDE DEF d
    <2> QED
      BY <2>1, <2>3, <2>4
  <1>4. n < N \/ n = N
    BY <1>1 DEF N
  <1> QED
    BY <1>2, <1>3, <1>4

-----------------------------------------------------------------------------
\* The root directory fills its sectors.
LEMMA BootSectors ==
    \E R \in Nat : /\ Len(Root) = PerSector * R
                   /\ B!Data = B!RootStart + R
                   /\ B!RootStart \in Nat /\ ReservedSectors + SectorsPerFat <= B!RootStart
  <1> DEFINE n == Len(Root)
             P == PerSector
             E == EntrySize
             Y == BytesPerSector
             R == n \div P
  <1>1. n \in Nat /\ P \in Nat /\ P > 0 /\ E \in Nat /\ E > 0 /\ Y \in Nat /\ Y > 0
    BY BootConstants, BootRoot
  <1>2. n % P = 0 /\ Y % E = 0 /\ P = Y \div E
    BY LoadersAssumption DEF B!BootAssumption, PerSector, B!EntriesPerSector
  <1>3. B!Data = B!RootStart + (n * E) \div Y /\ B!RootStart = ReservedSectors + 2 * SectorsPerFat
    BY DEF B!Data, B!RootStart
  <1>4. B!RootStart \in Nat /\ ReservedSectors + SectorsPerFat <= B!RootStart
    BY <1>3, BootConstants
  <1> HIDE DEF n, P, E, Y
  <1>5. Y = E * P
    <2>1. Y = E * (Y \div E) + (Y % E)
      BY <1>1, Division
    <2> DEFINE w == E * P
    <2>2. w \in Int /\ Y = w + 0
      BY <1>1, <1>2, <2>1
    <2> HIDE DEF w
    <2>3. Y = w
      BY <2>2
    <2> QED
      BY <2>3 DEF w
  <1>6. n = P * R /\ R \in Nat
    <2>1. n = P * R + (n % P) /\ R \in Nat
      BY <1>1, Division, QuotientNat
    <2> HIDE DEF R
    <2> DEFINE w == P * R
    <2>2. w \in Int /\ n = w + 0
      BY <1>1, <1>2, <2>1
    <2> HIDE DEF w
    <2>3. n = w
      BY <2>2
    <2> QED
      BY <2>1, <2>3 DEF w
  <1> HIDE DEF R
  <1>7. (n * E) \div Y = R
    <2>1. n * E = Y * R + 0
      <3>1. (P * R) * E = (E * P) * R
        BY <1>1, <1>6
      <3>2. Y * R \in Int
        BY <1>1, <1>6
      <3>3. n * E = Y * R
        BY <1>5, <1>6, <3>1
      <3> DEFINE w == Y * R
      <3> HIDE DEF w
      <3>4. w + 0 = w
        BY <3>2 DEF w
      <3> QED
        BY <3>3, <3>4 DEF w
    <2>2. (Y * R + 0) \div Y = R
      BY <1>1, <1>6, DivisionUnique
    <2> QED
      BY <2>1, <2>2
  <1> QED
    BY <1>3, <1>4, <1>6, <1>7 DEF n, P

\* Where find_file is: ax entries are left, after di of sector bx.
Looking(f) == f.ax >= 1 /\ f.ax + f.bx * PerSector + f.di = Len(Root) + PerSector

\* A sector of the root is on the drive.
LEMMA BootRootSector ==
    ASSUME B!Bootable, drive \in Geometries, NEW f \in FindRegs, Looking(f), f.di = PerSector
    PROVE  B!RootStart + f.bx \in Nat /\ B!RootStart + f.bx < B!Reach(drive)
  <1>1. PICK R \in Nat : /\ Len(Root) = PerSector * R /\ B!Data = B!RootStart + R
                         /\ B!RootStart \in Nat
    BY BootSectors
  <1>2. f.ax \in Int /\ f.bx \in Nat
    BY FindFields
  <1> DEFINE v == f.bx
             P == PerSector
  <1>3. f.ax >= 1 /\ f.ax + v * P + P = P * R + P
    BY <1>1 DEF Looking
  <1>4. P \in Nat /\ P > 0 /\ v \in Nat
    BY <1>2, BootConstants
  <1> HIDE DEF v, P
  <1>5. v < R
    <2> SUFFICES ASSUME ~(v < R) PROVE FALSE
      OBVIOUS
    <2> DEFINE w == P * R
               u == P * v
    <2>1. w <= u /\ w \in Int /\ u \in Int /\ v * P = u
      <3>1. R <= v
        BY <1>4
      <3> QED
        BY <1>4, <3>1, Monotone
    <2> HIDE DEF w, u
    <2>2. f.ax + u + P = w + P
      BY <1>3, <2>1 DEF w
    <2> QED
      BY <1>2, <1>3, <1>4, <2>1, <2>2
  <1>6. B!Data <= B!Reach(drive) /\ B!Reach(drive) \in Int
    <2>1. B!Data <= B!Reach(drive)
      BY DEF B!Bootable
    <2>2. drive.cylinders \in Nat /\ drive.heads \in Nat /\ drive.sectors \in Nat
      BY BootDrive
    <2>3. B!Reach(drive) \in Int
      BY <2>2, BootConstants DEF B!Capacity, B!Reach
    <2> QED
      BY <2>1, <2>3
  <1> QED
    BY <1>1, <1>4, <1>5, <1>6 DEF v

LEMMA BootCapacity ==
    ASSUME B!Bootable, NEW g \in Geometries
    PROVE  B!Reach(g) \in Nat /\ B!Data \in Nat /\ B!Data <= B!Reach(g)
           /\ ReservedSectors + SectorsPerFat <= B!Data
  <1>1. PICK R \in Nat : B!Data = B!RootStart + R /\ B!RootStart \in Nat
                         /\ ReservedSectors + SectorsPerFat <= B!RootStart
    BY BootSectors
  <1>2. B!Data <= B!Reach(g)
    BY DEF B!Bootable
  <1>3. g.cylinders \in Nat /\ g.heads \in Nat /\ g.sectors \in Nat
    BY BootDrive
  <1>4. B!Reach(g) \in Nat
    BY <1>3, BootConstants DEF B!Capacity, B!Reach
  <1> QED
    BY <1>1, <1>2, <1>4, BootConstants

\* A cluster of a file and its entry in the FAT are on the drive.
LEMMA BootClusterSector ==
    ASSUME B!Bootable, drive \in Geometries, NEW t, NEW c \in Nat, Sound(t, drive, c)
    PROVE  LET l == B!Data + (c - 2) * SectorsPerCluster
           IN  l \in Nat /\ l < B!Reach(drive)
  <1> DEFINE D == B!Data
             S == SectorsPerCluster
             C == B!Reach(drive)
             d == c - 2
             w == S * d
  <1>1. D \in Nat /\ C \in Nat /\ S \in Nat /\ S > 0
    BY BootCapacity, BootConstants
  <1>2. D + (c - 1) * S <= C /\ c \in DataClusters
    BY DEF Sound
  <1>3. d \in Nat /\ c - 1 = d + 1
    BY <1>2 DEF DataClusters
  <1> HIDE DEF D, S, C, d
  <1>4. (c - 1) * S = w + S /\ w \in Nat /\ d * S = w
    BY <1>1, <1>3
  <1> HIDE DEF w
  <1>5. D + (w + S) <= C
    BY <1>2, <1>4
  <1>6. D + w \in Nat /\ D + w < C
    BY <1>1, <1>4, <1>5
  <1>7. D + d * S \in Nat /\ D + d * S < C
    BY <1>4, <1>6
  <1> QED
    BY <1>7 DEF D, S, C, d

LEMMA BootEntrySector ==
    ASSUME B!Bootable, drive \in Geometries, NEW t, loaded \in Twelves, Sound(t, drive, loaded)
    PROVE  EntryLba \in Nat /\ EntryLba < B!Reach(drive) /\ EntryAt # BytesPerSector - 1
  <1> DEFINE q == B!EntryOffset(loaded) \div BytesPerSector
  <1>1. q \in Nat /\ EntryLba = ReservedSectors + q /\ EntryLba \in Nat
    BY BootOffset DEF EntryLba
  <1>2. q < SectorsPerFat /\ EntryAt # BytesPerSector - 1
    BY DEF Sound, EntryAt
  <1> HIDE DEF q
  <1>3. B!Reach(drive) \in Nat /\ B!Data \in Nat /\ B!Data <= B!Reach(drive)
        /\ ReservedSectors + SectorsPerFat <= B!Data
    BY BootCapacity
  <1> QED
    BY <1>1, <1>2, <1>3, BootConstants

-----------------------------------------------------------------------------
\* The places of the first n clusters of a file, what belongs at one of them,
\* and the first n clusters in memory.
FilePlaces(f, n) == {B!Origin(f) + k * BytesPerSector : k \in 0 .. n * SectorsPerCluster - 1}

Sector(t, f, a) ==
    LET k == (a - B!Origin(f)) \div BytesPerSector
    IN  B!Data + (B!ClusterOf(t, f, k \div SectorsPerCluster) - 2) * SectorsPerCluster
          + (k % SectorsPerCluster)

Upto(t, f, n) == [a \in FilePlaces(f, n) |-> Sector(t, f, a)]

WholeFile(t, f) == Upto(t, f, Size(t, f))

LEMMA BootImage ==
    ASSUME NEW f
    PROVE  B!Image(f) = WholeFile(fat, f)
  <1>1. B!Length(f) = Size(fat, f)
    BY DEF B!Length, Size
  <1> QED
    BY <1>1 DEF B!Image, WholeFile, Upto, FilePlaces, Sector

\* m holds the first n clusters of f and no more.
Held(t, f, m, n) == IF n = 0 THEN DOMAIN m = {} ELSE m = Upto(t, f, n)

LEMMA HeldAt ==
    ASSUME NEW t, NEW f, NEW m, NEW n \in Nat, Held(t, f, m, n)
    PROVE  DOMAIN m = FilePlaces(f, n) /\ \A a \in FilePlaces(f, n) : m[a] = Sector(t, f, a)
  <1>1. CASE n = 0
    <2>1. FilePlaces(f, n) = {}
      <3>1. n * SectorsPerCluster - 1 = -1
        BY <1>1, BootConstants
      <3>2. 0 .. -1 = {}
        OBVIOUS
      <3> QED
        BY <3>1, <3>2 DEF FilePlaces
    <2> QED
      BY <1>1, <2>1 DEF Held
  <1>2. CASE n # 0
    BY <1>2 DEF Held, Upto
  <1> QED
    BY <1>1, <1>2

\* The places of cluster n.
ClusterPlaces(off) == {off + i * BytesPerSector : i \in 0 .. SectorsPerCluster - 1}

LEMMA PlaceAt ==
    ASSUME NEW o \in Nat, NEW n \in Nat, NEW i \in 0 .. SectorsPerCluster - 1
    PROVE  LET k   == n * SectorsPerCluster + i
               off == o + (n * SectorsPerCluster) * BytesPerSector
               a   == o + k * BytesPerSector
           IN  /\ k \in Nat
               /\ off + i * BytesPerSector = a
               /\ (a - o) \div BytesPerSector = k
               /\ (a - off) \div BytesPerSector = i
               /\ k \div SectorsPerCluster = n /\ k % SectorsPerCluster = i
  <1> DEFINE S == SectorsPerCluster
             Y == BytesPerSector
             w == n * S
             k == w + i
             b == w * Y
             c == i * Y
             d == k * Y
  <1>1. S \in Nat /\ S > 0 /\ Y \in Nat /\ Y > 0
    BY BootConstants
  <1>2. i \in Nat /\ i < S
    BY <1>1
  <1> HIDE DEF S, Y
  <1>3. w \in Nat /\ w = S * n
    BY <1>1
  <1>4. k \div S = n /\ k % S = i
    <2>1. k = S * n + i
      BY <1>3
    <2>2. (S * n + i) \div S = n /\ (S * n + i) % S = i
      BY <1>1, <1>2, DivisionUnique
    <2> QED
      BY <2>1, <2>2
  <1> HIDE DEF w
  <1>5. k \in Nat
    BY <1>2, <1>3
  <1>6. d = b + c /\ b \in Int /\ c \in Int /\ d \in Int
    BY <1>1, <1>2, <1>3
  <1>7. d \div Y = k
    <2> HIDE DEF k
    <2>1. (Y * k + 0) \div Y = k
      BY <1>1, <1>5, DivisionUnique
    <2>2. Y * k + 0 = d
      BY <1>1, <1>5
    <2> QED
      BY <2>1, <2>2
  <1>8. c \div Y = i
    <2>1. (Y * i + 0) \div Y = i
      BY <1>1, <1>2, DivisionUnique
    <2>2. Y * i + 0 = c
      BY <1>1, <1>2
    <2> QED
      BY <2>1, <2>2
  <1> HIDE DEF b, c, d
  <1>9. (o + b) + c = o + d /\ (o + d) - o = d /\ (o + d) - (o + b) = c
    BY <1>6
  <1>10. /\ (o + b) + c = o + d
         /\ ((o + d) - o) \div Y = k
         /\ ((o + d) - (o + b)) \div Y = i
    BY <1>7, <1>8, <1>9
  <1> QED
    BY <1>4, <1>5, <1>10 DEF S, Y, w, b, c, d

LEMMA PlacesNext ==
    ASSUME NEW f, NEW n \in Nat
    PROVE  ClusterPlaces(B!Origin(f) + (n * SectorsPerCluster) * BytesPerSector) \cup FilePlaces(f, n)
             = FilePlaces(f, n + 1)
  <1> DEFINE S == SectorsPerCluster
             Y == BytesPerSector
             o == B!Origin(f)
             w == n * S
             v == (n + 1) * S
             off == o + w * Y
  <1>1. S \in Nat /\ S > 0 /\ Y \in Nat /\ Y > 0 /\ o \in Nat
    BY BootConstants, BootOrigin
  <1>2. w \in Nat /\ v = w + S
    <2> HIDE DEF S
    <2> QED
      BY <1>1
  <1>3. /\ FilePlaces(f, n) = {o + k * Y : k \in 0 .. w - 1}
        /\ FilePlaces(f, n + 1) = {o + k * Y : k \in 0 .. v - 1}
    BY DEF FilePlaces
  <1>4. ClusterPlaces(off) = {off + i * Y : i \in 0 .. S - 1}
    BY DEF ClusterPlaces
  <1>5. ASSUME NEW i \in 0 .. S - 1 PROVE off + i * Y = o + (w + i) * Y
    BY <1>1, PlaceAt
  <1> HIDE DEF S, Y, w, v, off, o
  <1>6. ASSUME NEW a \in ClusterPlaces(off) PROVE a \in FilePlaces(f, n + 1)
    <2>1. PICK i \in 0 .. S - 1 : a = off + i * Y
      BY <1>4
    <2>2. a = o + (w + i) * Y
      BY <1>5, <2>1
    <2>3. w + i \in 0 .. v - 1
      BY <1>1, <1>2
    <2> QED
      BY <1>3, <2>2, <2>3
  <1>7. ASSUME NEW a \in FilePlaces(f, n) PROVE a \in FilePlaces(f, n + 1)
    <2>1. PICK k \in 0 .. w - 1 : a = o + k * Y
      BY <1>3
    <2>2. k \in 0 .. v - 1
      BY <1>1, <1>2
    <2> QED
      BY <1>3, <2>1, <2>2
  <1>8. ASSUME NEW a \in FilePlaces(f, n + 1) PROVE a \in ClusterPlaces(off) \cup FilePlaces(f, n)
    <2>1. PICK k \in 0 .. v - 1 : a = o + k * Y
      BY <1>3
    <2>2. CASE k < w
      <3>1. k \in 0 .. w - 1
        BY <1>1, <1>2, <2>2
      <3> QED
        BY <1>3, <2>1, <3>1
    <2>3. CASE ~(k < w)
      <3> DEFINE i == k - w
      <3>1. i \in 0 .. S - 1 /\ w + i = k
        BY <1>1, <1>2, <2>3
      <3> HIDE DEF i
      <3>2. a = off + i * Y
        BY <1>5, <2>1, <3>1
      <3> QED
        BY <1>4, <3>1, <3>2
    <2> QED
      BY <2>2, <2>3
  <1> QED
    BY <1>6, <1>7, <1>8 DEF off, o, w, S, Y

\* Cluster n after the first n.
LEMMA UptoNext ==
    ASSUME NEW t, NEW f, NEW m, NEW n \in Nat, Held(t, f, m, n), NEW off,
           off = B!Origin(f) + (n * SectorsPerCluster) * BytesPerSector, NEW from,
           from = B!Data + (B!ClusterOf(t, f, n) - 2) * SectorsPerCluster, NEW put,
           put = [k \in ClusterPlaces(off) |-> from + (k - off) \div BytesPerSector], NEW g,
           g = [a \in DOMAIN put \cup DOMAIN m |-> IF a \in DOMAIN put THEN put[a] ELSE m[a]]
    PROVE  g = Upto(t, f, n + 1)
  <1>1. DOMAIN m = FilePlaces(f, n) /\ \A a \in FilePlaces(f, n) : m[a] = Sector(t, f, a)
    BY HeldAt
  <1>2. DOMAIN put = ClusterPlaces(off)
    OBVIOUS
  <1>3. ClusterPlaces(off) \cup FilePlaces(f, n) = FilePlaces(f, n + 1)
    BY PlacesNext
  <1>4. ASSUME NEW a \in ClusterPlaces(off) PROVE put[a] = Sector(t, f, a)
    <2>1. PICK i \in 0 .. SectorsPerCluster - 1 : a = off + i * BytesPerSector
      BY DEF ClusterPlaces
    <2> DEFINE k == n * SectorsPerCluster + i
               o == B!Origin(f)
    <2>0. o \in Nat
      BY BootOrigin
    <2>2. /\ a = o + k * BytesPerSector /\ (a - o) \div BytesPerSector = k
          /\ (a - off) \div BytesPerSector = i
          /\ k \div SectorsPerCluster = n /\ k % SectorsPerCluster = i
      BY <2>0, <2>1, PlaceAt
    <2>3. put[a] = from + (a - off) \div BytesPerSector
      OBVIOUS
    <2> HIDE DEF k
    <2>4. Sector(t, f, a) = from + i
      BY <2>2 DEF Sector
    <2> QED
      BY <2>2, <2>3, <2>4
  <1>5. ASSUME NEW a \in FilePlaces(f, n + 1) PROVE g[a] = Sector(t, f, a)
    BY <1>1, <1>2, <1>3, <1>4
  <1>6. g = [a \in FilePlaces(f, n + 1) |-> g[a]]
    BY <1>1, <1>2, <1>3
  <1> QED
    BY <1>5, <1>6 DEF Upto

-----------------------------------------------------------------------------
\* A cluster that is not behind the last ends in the room of the file.
LEMMA OffsetInRoom ==
    ASSUME NEW f, NEW N \in Nat,
           B!Origin(f) + N * (SectorsPerCluster * BytesPerSector) <= B!Room(f), NEW n \in Nat, n < N
    PROVE  /\ (B!Origin(f) + (n * SectorsPerCluster) * BytesPerSector) + SectorsPerCluster * BytesPerSector
                <= B!Room(f)
           /\ (B!Origin(f) + (n * SectorsPerCluster) * BytesPerSector) + SectorsPerCluster * BytesPerSector
                = B!Origin(f) + ((n + 1) * SectorsPerCluster) * BytesPerSector
           /\ B!Origin(f) + ((n + 1) * SectorsPerCluster) * BytesPerSector \in Nat
  <1> DEFINE S == SectorsPerCluster
             Y == BytesPerSector
             Z == S * Y
             o == B!Origin(f)
             u == (n * S) * Y
             w == ((n + 1) * S) * Y
             v == N * Z
  <1>1. S \in Nat /\ S > 0 /\ Y \in Nat /\ Y > 0 /\ o \in Nat /\ B!Room(f) \in Nat
    BY BootConstants, BootOrigin
  <1>2. o + v <= B!Room(f)
    OBVIOUS
  <1> HIDE DEF S, Y, o
  <1>3. Z \in Nat /\ u = Z * n /\ w = u + Z /\ u \in Nat /\ v = Z * N /\ v \in Nat
    BY <1>1
  <1> HIDE DEF Z
  <1>4. Z * n + Z <= Z * N
    BY <1>3, Factor
  <1>5. u + Z <= v
    BY <1>3, <1>4
  <1> HIDE DEF u, w, v
  <1>6. (o + u) + Z <= B!Room(f) /\ (o + u) + Z = o + w /\ o + w \in Nat
    BY <1>1, <1>2, <1>3, <1>5
  <1> QED
    BY <1>6 DEF u, w, Z, S, Y, o

\* The offset of the next cluster, which is still in the segment.
LEMMA OffsetNext ==
    ASSUME NEW f, NEW N \in Nat,
           B!Origin(f) + N * (SectorsPerCluster * BytesPerSector) <= B!Room(f), NEW n \in Nat, n + 1 < N
    PROVE  ((B!Origin(f) + (n * SectorsPerCluster) * BytesPerSector) + SectorsPerCluster * BytesPerSector) % Segment
             = B!Origin(f) + ((n + 1) * SectorsPerCluster) * BytesPerSector
  <1> DEFINE Z == SectorsPerCluster * BytesPerSector
             m == n + 1
             u == B!Origin(f) + (n * SectorsPerCluster) * BytesPerSector
             w == B!Origin(f) + (m * SectorsPerCluster) * BytesPerSector
  <1>1. Segment \in Nat /\ Segment > 0 /\ B!Room(f) \in Nat /\ B!Room(f) <= Segment
    BY BootConstants, BootOrigin
  <1>2. m \in Nat /\ n < N /\ m < N
    OBVIOUS
  <1>3. u + Z = w /\ w \in Nat
    BY <1>2, OffsetInRoom
  <1> HIDE DEF m
  <1>4. w + Z <= B!Room(f)
    BY <1>2, OffsetInRoom
  <1>5. Z \in Nat /\ Z > 0
    <2> DEFINE S == SectorsPerCluster
               Y == BytesPerSector
    <2>1. S \in Nat /\ S > 0 /\ Y \in Nat /\ Y > 0
      BY BootConstants
    <2> HIDE DEF S, Y
    <2>2. S * Y \in Nat /\ S * Y > 0
      BY <2>1
    <2> QED
      BY <2>2 DEF S, Y
  <1> HIDE DEF Z, u, w
  <1>6. w < Segment
    BY <1>1, <1>3, <1>4, <1>5
  <1>7. w % Segment = w
    <2>1. (Segment * 0 + w) % Segment = w
      BY <1>1, <1>3, <1>6, DivisionUnique
    <2>2. Segment * 0 + w = w
      BY <1>1, <1>3
    <2> QED
      BY <2>1, <2>2
  <1>8. (u + Z) % Segment = w
    BY <1>3, <1>7
  <1> QED
    BY <1>8 DEF Z, u, w, m

-----------------------------------------------------------------------------
\* The file that is loaded: the clusters before number n are in memory, and
\* the loader is at number n; or it has just read that one.
Reading(t, f, m, c, off) ==
    \E n \in Nat : /\ n < Size(t, f) /\ c = B!ClusterOf(t, f, n) /\ Held(t, f, m, n)
                   /\ off = B!Origin(f) + (n * SectorsPerCluster) * BytesPerSector

Following(t, f, m, c, off) ==
    \E n \in Nat : /\ n < Size(t, f) /\ c = B!ClusterOf(t, f, n) /\ m = Upto(t, f, n + 1)
                   /\ n + 1 < Size(t, f) =>
                         off = B!Origin(f) + ((n + 1) * SectorsPerCluster) * BytesPerSector

\* The memory map up to where it has been read.
Told(m, s) == s \in Seq(B!Range(m)) /\ Len(s) <= Len(m) /\ \A k \in 1 .. Len(s) : s[k] = m[k]

PhaseInv ==
    /\ boot \in {"start", "find"} => Looking(find) /\ DOMAIN memory[loading] = {}
    /\ boot = "read" => loading \in Known /\ Reading(fat, loading, memory[loading], loaded, bx)
    /\ boot = "next" => loading \in Known /\ Following(fat, loading, memory[loading], loaded, bx)
    /\ boot \in {"a20", "e820", "protected", "kernel"} =>
          loading = B!KERNEL /\ memory[B!KERNEL] = WholeFile(fat, B!KERNEL)

OtherInv ==
    /\ memory = [f \in {B!INIT, B!KERNEL} |-> memory[f]]
    /\ loading = B!INIT => DOMAIN memory[B!KERNEL] = {}
    /\ loading = B!KERNEL => memory[B!INIT] = WholeFile(fat, B!INIT)

ToldInv ==
    /\ Told(map, mmap)
    /\ boot \in {"protected", "kernel"} => Len(mmap) = Len(map)
    /\ boot \in {"start", "find", "read", "next", "a20", "e820"} => map = <<>> \/ Len(mmap) < Len(map)

BootInv == BootTyped /\ Geometry /\ B!ReadsAsked /\ PhaseInv /\ OtherInv /\ ToldInv

LEMMA BootNames ==
    /\ B!INIT # B!KERNEL /\ "JUNK" # B!INIT /\ "JUNK" # B!KERNEL
  BY DEF B!INIT, B!KERNEL

LEMMA BootRight ==
    ASSUME BootInv
    PROVE  B!ReadsAsked /\ B!Loaded /\ B!MapComplete
  <1>1. ASSUME boot \in {"e820", "protected", "kernel"}, NEW f \in {B!INIT, B!KERNEL}
        PROVE  memory[f] = B!Image(f)
    <2>1. loading = B!KERNEL /\ memory[B!KERNEL] = WholeFile(fat, B!KERNEL)
      BY <1>1 DEF BootInv, PhaseInv
    <2>2. memory[B!INIT] = WholeFile(fat, B!INIT)
      BY <2>1 DEF BootInv, OtherInv
    <2>3. B!Image(B!INIT) = WholeFile(fat, B!INIT) /\ B!Image(B!KERNEL) = WholeFile(fat, B!KERNEL)
      BY BootImage
    <2> QED
      BY <1>1, <2>1, <2>2, <2>3
  <1>2. ASSUME boot \in {"protected", "kernel"} PROVE mmap = map
    <2> DEFINE T == B!Range(map)
    <2>1. map \in Seq(T) /\ mmap \in Seq(T)
      <3>1. map \in MemoryMaps
        BY DEF BootInv, BootTyped
      <3> QED
        BY <3>1, LoadersAssumption DEF B!BootAssumption, BootInv, ToldInv, Told
    <2>2. Len(mmap) = Len(map) /\ \A k \in 1 .. Len(mmap) : mmap[k] = map[k]
      BY <1>2 DEF BootInv, ToldInv, Told
    <2> HIDE DEF T
    <2> QED
      BY <2>1, <2>2
  <1> QED
    BY <1>1, <1>2 DEF B!Loaded, B!MapComplete, BootInv

LEMMA BootLooking == Looking(B!FindStart)
  <1> DEFINE P == PerSector
  <1>1. B!FindStart = [ax |-> Len(Root), di |-> P, bx |-> 0]
    BY DEF B!FindStart, PerSector
  <1>2. P \in Nat /\ Len(Root) \in Nat /\ Len(Root) >= 1
    BY BootConstants, BootRoot
  <1>3. 0 * P = 0
    BY <1>2
  <1> DEFINE w == 0 * P
  <1> HIDE DEF w
  <1>4. Len(Root) + w + P = Len(Root) + P
    BY <1>2, <1>3 DEF w
  <1> QED
    BY <1>1, <1>2, <1>4 DEF Looking, w

LEMMA BootInit ==
    ASSUME fat \in Fats, drive \in Geometries, map \in MemoryMaps, B!PowerOn
    PROVE  BootInv
  <1>1. BootTyped
    BY BootTypedInit
  <1>2. /\ bpb = [track |-> drive.sectors, cylinder |-> drive.heads]
        /\ boot = "start" /\ loading = B!INIT /\ find = B!FindStart
        /\ memory = [f \in {B!INIT, B!KERNEL} |-> <<>>]
        /\ last = <<B!Unread, B!Unread>> /\ mmap = <<>>
    BY DEF B!PowerOn
  <1>3. Geometry /\ B!ReadsAsked
    BY <1>2 DEF Geometry, B!ReadsAsked
  <1>4. Looking(B!FindStart)
    BY BootLooking
  <1>5. DOMAIN <<>> = {}
    OBVIOUS
  <1>6. PhaseInv
    BY <1>2, <1>4, <1>5 DEF PhaseInv
  <1>7. OtherInv
    BY <1>2, <1>5, BootNames DEF OtherInv
  <1>8. ToldInv
    <2>1. map \in Seq(B!Range(map))
      BY LoadersAssumption DEF B!BootAssumption
    <2>2. Len(map) \in Nat /\ (map = <<>> \/ Len(map) > 0)
      <3> DEFINE T == B!Range(map)
      <3>1. map \in Seq(T)
        BY <2>1
      <3> HIDE DEF T
      <3> QED
        BY <3>1
    <2>3. mmap \in Seq(B!Range(map)) /\ Len(mmap) = 0
      BY <1>2
    <2> QED
      BY <1>2, <2>2, <2>3 DEF ToldInv, Told
  <1> QED
    BY <1>1, <1>3, <1>6, <1>7, <1>8 DEF BootInv

-----------------------------------------------------------------------------
Early == {"start", "find", "read", "next", "a20", "e820"}

\* Until the memory map is read, nothing is stored.
LEMMA BootUntold ==
    ASSUME ToldInv, boot \in Early, boot' \in Early \cup {"error"}, UNCHANGED <<map, mmap>>
    PROVE  ToldInv'
  BY DEF ToldInv, Early

\* What a read leaves.
LEMMA BootNoted ==
    ASSUME B!Bootable, BootInv, NEW l \in Nat, l < B!Reach(drive), NEW p, B!Noted(l, p)
    PROVE  B!ReadsAsked' /\ boot' = p /\ B!Read(l) = l
  <1>1. drive \in Geometries /\ Geometry
    BY BootStates DEF BootInv, BootTyped
  <1>2. B!Read(l) = l
    BY <1>1, BootReads
  <1>3. l # -1
    OBVIOUS
  <1> QED
    BY <1>2, <1>3 DEF B!Noted, B!ReadsAsked, B!Unread

LEMMA BootStartStep ==
    ASSUME B!Bootable, BootInv, B!Start
    PROVE  Geometry' /\ B!ReadsAsked' /\ PhaseInv' /\ OtherInv' /\ ToldInv'
  <1>1. /\ boot = "start" /\ boot' = "find" /\ bpb' = (IF drive.hdd THEN B!Parameters ELSE bpb)
        /\ UNCHANGED <<fat, drive, loading, find, loaded, bx, memory, last, map, mmap>>
    BY DEF B!Start, B!load
  <1>2. drive \in Geometries /\ Geometry
    BY BootStates DEF BootInv, BootTyped
  <1>3. Geometry'
    <2>1. CASE drive.hdd
      <3> DEFINE C == drive.cylinders
                 y == CylinderByte
                 d == C - 1
      <3>1. C \in Nat /\ C > 0 /\ y \in Nat /\ y > 0 /\ drive.sectors \in Nat /\ SectorField \in Nat
        BY <1>2, BootDrive, BootConstants
      <3>2. C <= y * 1
        <4>1. drive.cylinders <= CylinderByte * (IF drive.hdd THEN 1 ELSE 4)
          BY <1>2 DEF B!Bootable
        <4> QED
          BY <2>1, <4>1
      <3>3. B!Parameters = [track |-> drive.sectors + SectorField * (d \div y), cylinder |-> drive.heads]
        BY DEF B!Parameters
      <3> HIDE DEF C, y
      <3>4. d \in Nat /\ d < y
        BY <3>1, <3>2
      <3> HIDE DEF d
      <3>5. d \div y = 0
        <4>1. (y * 0 + d) \div y = 0
          BY <3>1, <3>4, DivisionUnique
        <4>2. y * 0 + d = d
          BY <3>1, <3>4
        <4> QED
          BY <4>1, <4>2
      <3>6. drive.sectors + SectorField * 0 = drive.sectors
        BY <3>1
      <3> QED
        BY <1>1, <2>1, <3>3, <3>5, <3>6 DEF Geometry
    <2>2. CASE ~drive.hdd
      BY <1>1, <1>2, <2>2 DEF Geometry
    <2> QED
      BY <2>1, <2>2
  <1>4. PhaseInv' /\ OtherInv' /\ B!ReadsAsked'
    <2>1. PhaseInv'
      BY <1>1 DEF BootInv, PhaseInv
    <2>2. OtherInv' /\ B!ReadsAsked'
      BY <1>1 DEF BootInv, OtherInv, B!ReadsAsked
    <2> QED
      BY <2>1, <2>2
  <1>5. ToldInv'
    BY <1>1, BootUntold DEF BootInv, Early
  <1> QED
    BY <1>3, <1>4, <1>5

LEMMA BootFindSectorStep ==
    ASSUME B!Bootable, BootInv, B!FindSector
    PROVE  Geometry' /\ B!ReadsAsked' /\ PhaseInv' /\ OtherInv' /\ ToldInv'
  <1> DEFINE l == B!RootStart + find.bx
  <1>1. /\ boot = "find" /\ find.di >= PerSector /\ B!Noted(l, "find")
        /\ find' = [ax |-> find.ax, di |-> 0, bx |-> find.bx + 1]
        /\ UNCHANGED <<fat, drive, bpb, loading, loaded, bx, memory, map, mmap>>
    BY DEF B!FindSector, PerSector
  <1>2. /\ drive \in Geometries /\ Geometry /\ find \in FindRegs /\ find.di \in 0 .. PerSector
        /\ Looking(find) /\ DOMAIN memory[loading] = {}
    BY <1>1, BootStates DEF BootInv, BootTyped, PhaseInv
  <1>3. find.di = PerSector /\ find.ax \in Int /\ find.bx \in Nat
    BY <1>1, <1>2, BootConstants, FindFields
  <1>4. l \in Nat /\ l < B!Reach(drive)
    BY <1>2, <1>3, BootRootSector
  <1> HIDE DEF l
  <1>5. B!ReadsAsked' /\ boot' = "find"
    BY <1>1, <1>4, BootNoted
  <1>6. Looking(find')
    <2> DEFINE P == PerSector
               v == find.bx
               w == v * P
    <2>1. find.ax >= 1 /\ find.ax + w + P = Len(Root) + P
      BY <1>2, <1>3 DEF Looking
    <2>2. P \in Nat
      BY BootConstants
    <2>3. (v + 1) * P = w + P /\ w \in Int
      BY <1>3, <2>2
    <2> HIDE DEF w
    <2>4. find.ax + (w + P) + 0 = Len(Root) + P
      BY <1>3, <2>1, <2>2, <2>3
    <2>5. find.ax + (v + 1) * P + 0 = Len(Root) + P
      BY <2>3, <2>4
    <2> QED
      BY <1>1, <2>1, <2>5 DEF Looking
  <1>7. PhaseInv'
    BY <1>1, <1>2, <1>5, <1>6 DEF PhaseInv
  <1>8. OtherInv' /\ Geometry'
    BY <1>1 DEF BootInv, OtherInv, Geometry
  <1>9. ToldInv'
    BY <1>1, <1>5, BootUntold DEF BootInv, Early
  <1> QED
    BY <1>5, <1>7, <1>8, <1>9

\* An entry of the name of a file is the file's.
LEMMA BootFound ==
    ASSUME B!Bootable, loading \in {B!INIT, B!KERNEL}, B!Entry.name = loading
    PROVE  loading \in Known /\ B!Entry.cluster = First(loading)
  <1> DEFINE k == (sector - B!RootStart) * PerSector + find.di + 1
             e == B!Entry
             c == CHOOSE d \in B!Range(Root) : d.name = loading
  <1>1. e = IF k \in DOMAIN Root THEN Root[k] ELSE [name |-> "JUNK", cluster |-> 0]
    BY DEF B!Entry, PerSector
  <1> HIDE DEF k
  <1>2. k \in DOMAIN Root
    BY <1>1, BootNames
  <1>3. e \in B!Range(Root)
    BY <1>1, <1>2 DEF B!Range
  <1> HIDE DEF e
  <1>4. e.name = loading
    BY DEF e
  <1>5. c \in B!Range(Root) /\ c.name = loading
    BY <1>3, <1>4
  <1>6. First(loading) = c.cluster
    BY DEF First
  <1> HIDE DEF c
  <1>7. c = e
    BY <1>3, <1>4, <1>5 DEF B!Bootable
  <1>8. loading \in Known
    BY <1>3, <1>4 DEF Known
  <1> QED
    BY <1>6, <1>7, <1>8 DEF e

LEMMA BootFindCompareStep ==
    ASSUME B!Bootable, BootInv, B!FindCompare
    PROVE  Geometry' /\ B!ReadsAsked' /\ PhaseInv' /\ OtherInv' /\ ToldInv'
  <1>1. /\ boot = "find" /\ find.di < PerSector
        /\ UNCHANGED <<fat, drive, bpb, loading, memory, last, map, mmap>>
    BY DEF B!FindCompare, PerSector
  <1>2. /\ drive \in Geometries /\ find \in FindRegs /\ fat \in Fats /\ loading \in {B!INIT, B!KERNEL}
        /\ Looking(find) /\ DOMAIN memory[loading] = {}
    BY <1>1, BootStates DEF BootInv, BootTyped, PhaseInv
  <1>3. OtherInv' /\ Geometry' /\ B!ReadsAsked'
    BY <1>1 DEF BootInv, OtherInv, Geometry, B!ReadsAsked
  <1>4. CASE B!Entry.name = loading
    <2>1. boot' = "read" /\ loaded' = B!Entry.cluster /\ bx' = B!Origin(loading)
      BY <1>4 DEF B!FindCompare
    <2>2. loading \in Known /\ B!Entry.cluster = First(loading)
      BY <1>2, <1>4, BootFound
    <2>3. Reading(fat, loading, memory[loading], loaded', bx')
      <3>1. Size(fat, loading) \in Nat /\ Size(fat, loading) >= 1
        BY <1>2, <2>2, BootSize
      <3>2. 0 < Size(fat, loading)
        BY <3>1
      <3>3. loaded' = B!ClusterOf(fat, loading, 0)
        BY <2>1, <2>2, ClusterFirst
      <3>4. Held(fat, loading, memory[loading], 0)
        BY <1>2 DEF Held
      <3>5. bx' = B!Origin(loading) + (0 * SectorsPerCluster) * BytesPerSector
        <4>1. (0 * SectorsPerCluster) * BytesPerSector = 0
          BY BootConstants
        <4>2. B!Origin(loading) + 0 = B!Origin(loading)
          BY BootOrigin
        <4> QED
          BY <2>1, <4>1, <4>2
      <3>6. 0 \in Nat
        OBVIOUS
      <3> QED
        BY <3>2, <3>3, <3>4, <3>5, <3>6 DEF Reading
    <2>4. PhaseInv'
      BY <1>1, <2>1, <2>2, <2>3 DEF PhaseInv
    <2>5. ToldInv'
      BY <1>1, <2>1, BootUntold DEF BootInv, Early
    <2> QED
      BY <1>3, <2>4, <2>5
  <1>5. CASE B!Entry.name # loading
    <2>1. /\ find' = [ax |-> find.ax - 1, di |-> find.di + 1, bx |-> find.bx]
          /\ boot' = IF find.ax > 1 THEN "find" ELSE "error"
      BY <1>5 DEF B!FindCompare, B!EntriesLeft
    <2>2. ASSUME find.ax > 1 PROVE Looking(find')
      <3> DEFINE a == find.ax
                 d == find.di
                 w == find.bx * PerSector
      <3>1. a \in Int /\ d \in Int /\ w \in Int
        BY <1>2, FindFields, BootConstants
      <3>2. a + w + d = Len(Root) + PerSector /\ a > 1
        BY <1>2, <2>2 DEF Looking
      <3>3. find' = [ax |-> a - 1, di |-> d + 1, bx |-> find.bx]
        BY <2>1
      <3>4. Looking(find') <=> a - 1 >= 1 /\ (a - 1) + w + (d + 1) = Len(Root) + PerSector
        BY <3>3 DEF Looking
      <3> HIDE DEF a, d, w
      <3>5. a - 1 >= 1 /\ (a - 1) + w + (d + 1) = a + w + d
        BY <3>1, <3>2
      <3> QED
        BY <3>2, <3>4, <3>5
    <2>3. PhaseInv'
      BY <1>1, <1>2, <2>1, <2>2 DEF PhaseInv
    <2>4. boot' \in {"find", "error"}
      BY <2>1
    <2>5. ToldInv'
      BY <1>1, <2>4, BootUntold DEF BootInv, Early
    <2> QED
      BY <1>3, <2>3, <2>5
  <1> QED
    BY <1>4, <1>5

-----------------------------------------------------------------------------
LEMMA BootReadStep ==
    ASSUME B!Bootable, BootInv, B!ReadCluster
    PROVE  Geometry' /\ B!ReadsAsked' /\ PhaseInv' /\ OtherInv' /\ ToldInv'
  <1> DEFINE m    == memory[loading]
             from == B!Read(B!ClusterLba)
             put  == [k \in ClusterPlaces(bx) |-> from + (k - bx) \div BytesPerSector]
             new  == [a \in DOMAIN put \cup DOMAIN m |-> IF a \in DOMAIN put THEN put[a] ELSE m[a]]
             over == loading = B!INIT /\ bx + SectorsPerCluster * BytesPerSector > StackEnd
  <1>1. /\ boot = "read" /\ B!Noted(B!ClusterLba, IF over THEN "lost" ELSE "next")
        /\ memory' = [memory EXCEPT ![loading] = new]
        /\ bx' = (bx + SectorsPerCluster * BytesPerSector) % Segment
        /\ UNCHANGED <<fat, drive, bpb, loading, find, loaded, map, mmap>>
    BY DEF B!ReadCluster, ClusterPlaces
  <1>2. /\ drive \in Geometries /\ fat \in Fats /\ loaded \in Twelves /\ loading \in {B!INIT, B!KERNEL}
        /\ loading \in Known /\ Reading(fat, loading, m, loaded, bx)
    BY <1>1, BootStates DEF BootInv, BootTyped, PhaseInv
  <1>3. PICK n \in Nat : /\ n < Size(fat, loading) /\ loaded = B!ClusterOf(fat, loading, n)
                         /\ Held(fat, loading, m, n)
                         /\ bx = B!Origin(loading) + (n * SectorsPerCluster) * BytesPerSector
    BY <1>2 DEF Reading
  <1> DEFINE N == Size(fat, loading)
  <1>4. /\ N \in Nat /\ \A k \in 0 .. N - 1 : Sound(fat, drive, B!ClusterOf(fat, loading, k))
        /\ B!Origin(loading) + N * (SectorsPerCluster * BytesPerSector) <= B!Room(loading)
    BY <1>2, BootSize
  <1>5. Sound(fat, drive, loaded)
    <2> HIDE DEF N
    <2>1. n \in 0 .. N - 1
      BY <1>3, <1>4 DEF N
    <2> QED
      BY <1>3, <1>4, <2>1
  <1>6. B!ClusterLba \in Nat /\ B!ClusterLba < B!Reach(drive)
    <2>1. loaded \in Nat
      BY <1>2, TwelveBits
    <2> QED
      BY <1>2, <1>5, <2>1, BootClusterSector DEF B!ClusterLba
  <1>a. ~over
    <2> SUFFICES ASSUME loading = B!INIT
                 PROVE  ~(bx + SectorsPerCluster * BytesPerSector > StackEnd)
      OBVIOUS
    <2>1. B!Room(loading) = StackEnd
      BY DEF B!Room
    <2>2. bx + SectorsPerCluster * BytesPerSector <= B!Room(loading)
      <3> HIDE DEF N
      <3>1. n < N
        BY <1>3 DEF N
      <3> QED
        BY <1>3, <1>4, <3>1, OffsetInRoom
    <2>3. bx \in Nat /\ SectorsPerCluster * BytesPerSector \in Nat /\ StackEnd \in Nat
      BY <2>1, BootOrigin, BootConstants, BootStates DEF BootInv, BootTyped
    <2> DEFINE w == SectorsPerCluster * BytesPerSector
    <2> HIDE DEF w
    <2>4. ~(bx + w > StackEnd)
      BY <2>1, <2>2, <2>3 DEF w
    <2> QED
      BY <2>4 DEF w
  <1>b. B!Noted(B!ClusterLba, "next")
    BY <1>1, <1>a
  <1> HIDE DEF over
  <1>7. B!ReadsAsked' /\ boot' = "next" /\ from = B!ClusterLba
    BY <1>6, <1>b, BootNoted
  <1>8. from = B!Data + (B!ClusterOf(fat, loading, n) - 2) * SectorsPerCluster
    BY <1>3, <1>7 DEF B!ClusterLba
  <1> HIDE DEF from
  <1>9. put = [k \in ClusterPlaces(bx) |-> from + (k - bx) \div BytesPerSector]
    OBVIOUS
  <1> HIDE DEF put, m
  <1>n. new = [a \in DOMAIN put \cup DOMAIN m |-> IF a \in DOMAIN put THEN put[a] ELSE m[a]]
    OBVIOUS
  <1> HIDE DEF new
  <1>10. new = Upto(fat, loading, n + 1)
    BY <1>3, <1>8, <1>9, <1>n, UptoNext
  <1>11. memory = [f \in {B!INIT, B!KERNEL} |-> memory[f]]
    BY DEF BootInv, OtherInv
  <1>12. /\ memory' = [f \in {B!INIT, B!KERNEL} |-> memory'[f]]
         /\ memory'[loading] = new
         /\ \A f \in {B!INIT, B!KERNEL} : f # loading => memory'[f] = memory[f]
    <2> DEFINE S == {B!INIT, B!KERNEL}
    <2>1. loading \in S /\ memory = [f \in S |-> memory[f]] /\ memory' = [memory EXCEPT ![loading] = new]
      BY <1>1, <1>2, <1>11
    <2> HIDE DEF S
    <2>2. DOMAIN memory = S
      BY <2>1
    <2>3. memory' = [f \in S |-> IF f = loading THEN new ELSE memory[f]]
      BY <2>1, <2>2
    <2>4. /\ memory' = [f \in S |-> memory'[f]] /\ memory'[loading] = new
          /\ \A f \in S : f # loading => memory'[f] = memory[f]
      BY <2>1, <2>3
    <2> QED
      BY <2>4 DEF S
  <1>13. Following(fat, loading, memory'[loading], loaded, bx')
    <2>1. n + 1 < N => bx' = B!Origin(loading) + ((n + 1) * SectorsPerCluster) * BytesPerSector
      <3> HIDE DEF N
      <3> SUFFICES ASSUME n + 1 < N
                   PROVE  bx' = B!Origin(loading) + ((n + 1) * SectorsPerCluster) * BytesPerSector
        OBVIOUS
      <3> QED
        BY <1>1, <1>3, <1>4, OffsetNext
    <2> QED
      BY <1>3, <1>10, <1>12, <2>1 DEF Following
  <1>14. PhaseInv'
    BY <1>1, <1>2, <1>7, <1>13 DEF PhaseInv
  <1>15. OtherInv'
    <2>1. ASSUME loading = B!INIT PROVE DOMAIN memory'[B!KERNEL] = {}
      BY <1>12, <2>1, BootNames DEF BootInv, OtherInv
    <2>2. ASSUME loading = B!KERNEL PROVE memory'[B!INIT] = WholeFile(fat, B!INIT)
      BY <1>12, <2>2, BootNames DEF BootInv, OtherInv
    <2> QED
      BY <1>1, <1>12, <2>1, <2>2 DEF OtherInv
  <1>16. Geometry'
    BY <1>1 DEF BootInv, Geometry
  <1>17. ToldInv'
    BY <1>1, <1>7, BootUntold DEF BootInv, Early
  <1> QED
    BY <1>7, <1>14, <1>15, <1>16, <1>17

LEMMA BootNextStep ==
    ASSUME B!Bootable, BootInv, NEW x, B!NextCluster(x)
    PROVE  Geometry' /\ B!ReadsAsked' /\ PhaseInv' /\ OtherInv' /\ ToldInv'
  <1> DEFINE m == memory[loading]
  <1>1. /\ boot = "next" /\ last' = <<EntryLba, B!Read(EntryLba)>>
        /\ boot' = IF B!Read(EntryLba) = B!Unread THEN "error"
                   ELSE IF ~(FatEntry(x) >= 4080) THEN "read"
                   ELSE IF loading = B!INIT THEN "find" ELSE "a20"
        /\ loaded' = FatEntry(x)
        /\ loading' = IF FatEntry(x) >= 4080 THEN B!KERNEL ELSE loading
        /\ find' = IF FatEntry(x) >= 4080 THEN B!FindStart ELSE find
        /\ UNCHANGED <<fat, drive, bpb, bx, memory, map, mmap>>
    BY BootNexts
  <1>2. /\ drive \in Geometries /\ Geometry /\ fat \in Fats /\ loaded \in Twelves
        /\ loading \in {B!INIT, B!KERNEL}
        /\ loading \in Known /\ Following(fat, loading, m, loaded, bx)
    BY <1>1, BootStates DEF BootInv, BootTyped, PhaseInv
  <1>3. PICK n \in Nat : /\ n < Size(fat, loading) /\ loaded = B!ClusterOf(fat, loading, n)
                         /\ m = Upto(fat, loading, n + 1)
                         /\ n + 1 < Size(fat, loading) =>
                               bx = B!Origin(loading) + ((n + 1) * SectorsPerCluster) * BytesPerSector
    BY <1>2 DEF Following
  <1> DEFINE N == Size(fat, loading)
             e == FatEntry(x)
             after == n + 1
  <1>4. /\ N \in Nat /\ \A k \in 0 .. N - 1 : Sound(fat, drive, B!ClusterOf(fat, loading, k))
        /\ B!ClusterOf(fat, loading, N) >= 4080
    BY <1>2, BootSize
  <1>5. Sound(fat, drive, loaded)
    <2> HIDE DEF N
    <2>1. n \in 0 .. N - 1
      BY <1>3, <1>4 DEF N
    <2> QED
      BY <1>3, <1>4, <2>1
  <1>6. EntryLba \in Nat /\ EntryLba < B!Reach(drive) /\ EntryAt # BytesPerSector - 1
    BY <1>2, <1>5, BootEntrySector
  <1>7. B!Read(EntryLba) = EntryLba /\ EntryLba # -1
    BY <1>2, <1>6, BootReads
  <1>8. B!ReadsAsked'
    BY <1>1, <1>7 DEF B!ReadsAsked
  <1>9. e = fat[loaded]
    <2>1. loaded \in DOMAIN fat
      BY <1>5 DEF Sound
    <2> QED
      BY <1>2, <1>6, <1>7, <2>1, BootEntryRead
  <1>10. e = B!ClusterOf(fat, loading, after)
    BY <1>3, <1>9, ClusterNext
  <1>11. Geometry'
    BY <1>1 DEF BootInv, Geometry
  <1>12. boot' = IF ~Ends(e) THEN "read" ELSE IF loading = B!INIT THEN "find" ELSE "a20"
    BY <1>1, <1>7 DEF Ends, B!Unread
  <1>13. /\ loading' = (IF Ends(e) THEN B!KERNEL ELSE loading)
         /\ find' = (IF Ends(e) THEN B!FindStart ELSE find)
    BY <1>1 DEF Ends
  <1>14. loaded' = e /\ UNCHANGED <<fat, bx, memory>>
    BY <1>1
  <1> HIDE DEF e, N
  <1>15. ToldInv'
    <2>1. boot' \in {"read", "find", "a20"}
      BY <1>12
    <2> QED
      BY <1>1, <2>1, BootUntold DEF BootInv, Early
  <1>16. after \in Nat /\ after # 0 /\ (after < N \/ after = N)
    BY <1>3, <1>4 DEF N
  <1>17. CASE after < N
    <2>1. ~Ends(e)
      <3>1. after \in 0 .. N - 1
        BY <1>4, <1>16, <1>17
      <3>2. e \in DataClusters
        BY <1>4, <1>10, <3>1 DEF Sound
      <3> QED
        BY <3>2, BootEnds
    <2>2. boot' = "read" /\ loading' = loading
      BY <1>12, <1>13, <2>1
    <2>3. Held(fat, loading, m, after)
      BY <1>3, <1>16 DEF Held
    <2>4. bx = B!Origin(loading) + (after * SectorsPerCluster) * BytesPerSector
      BY <1>3, <1>17 DEF N
    <2>5. Reading(fat, loading, m, e, bx)
      <3> HIDE DEF m, after
      <3> QED
        BY <1>10, <1>16, <1>17, <2>3, <2>4 DEF Reading, N
    <2>6. PhaseInv'
      BY <1>2, <1>14, <2>2, <2>5 DEF PhaseInv
    <2>7. OtherInv'
      BY <1>14, <2>2 DEF BootInv, OtherInv
    <2> QED
      BY <1>8, <1>11, <1>15, <2>6, <2>7
  <1>18. CASE after = N
    <2>1. Ends(e)
      BY <1>4, <1>10, <1>18 DEF Ends
    <2>2. /\ boot' = IF loading = B!INIT THEN "find" ELSE "a20"
          /\ loading' = B!KERNEL /\ find' = B!FindStart
      BY <1>12, <1>13, <2>1
    <2>3. m = WholeFile(fat, loading)
      BY <1>3, <1>18 DEF WholeFile, N
    <2>4. CASE loading = B!INIT
      <3>1. boot' = "find" /\ memory[B!INIT] = WholeFile(fat, B!INIT) /\ DOMAIN memory[B!KERNEL] = {}
        BY <2>2, <2>3, <2>4 DEF BootInv, OtherInv
      <3>2. Looking(B!FindStart)
        BY BootLooking
      <3>3. PhaseInv'
        BY <1>14, <2>2, <3>1, <3>2 DEF PhaseInv
      <3>4. OtherInv'
        BY <1>14, <2>2, <3>1, BootNames DEF BootInv, OtherInv
      <3> QED
        BY <1>8, <1>11, <1>15, <3>3, <3>4
    <2>5. CASE loading = B!KERNEL
      <3>1. boot' = "a20" /\ memory[B!KERNEL] = WholeFile(fat, B!KERNEL)
        BY <2>2, <2>3, <2>5, BootNames
      <3>2. PhaseInv'
        BY <1>14, <2>2, <3>1 DEF PhaseInv
      <3>3. OtherInv'
        BY <1>14, <2>2, <2>5, BootNames DEF BootInv, OtherInv
      <3> QED
        BY <1>8, <1>11, <1>15, <3>2, <3>3
    <2> QED
      BY <1>2, <2>4, <2>5
  <1> QED
    BY <1>16, <1>17, <1>18

\* After the files, only the memory map is read.
LEMMA BootTellStep ==
    ASSUME BootInv, B!read_e820
    PROVE  ToldInv'
  <1> DEFINE k == Len(mmap) + 1
             T == B!Range(map)
  <1>1. /\ boot = "e820" /\ mmap' = Append(mmap, map[k]) /\ map' = map /\ k \in DOMAIN map
        /\ boot' = IF k >= Len(map) THEN "protected" ELSE "e820"
    BY DEF B!read_e820, B!Done
  <1>2. map \in Seq(T)
    <2>1. map \in MemoryMaps
      BY DEF BootInv, BootTyped
    <2> QED
      BY <2>1, LoadersAssumption DEF B!BootAssumption
  <1>3. /\ mmap \in Seq(T)
        /\ \A i \in 1 .. Len(mmap) : mmap[i] = map[i]
    BY <1>1 DEF BootInv, ToldInv, Told
  <1> HIDE DEF T
  <1>4. Len(mmap) \in Nat /\ Len(map) \in Nat /\ k \in 1 .. Len(map)
    BY <1>1, <1>2, <1>3
  <1> DEFINE v == map[k]
  <1>5. v \in T
    BY <1>2, <1>4
  <1> HIDE DEF v
  <1>6. mmap' \in Seq(T) /\ Len(mmap') = k /\ \A i \in 1 .. k : mmap'[i] = IF i = k THEN v ELSE mmap[i]
    <2>1. mmap' = Append(mmap, v)
      BY <1>1 DEF v
    <2> QED
      BY <1>3, <1>4, <1>5, <2>1
  <1>7. ASSUME NEW i \in 1 .. k PROVE mmap'[i] = map[i]
    <2>1. CASE i = k
      BY <1>6, <2>1 DEF v
    <2>2. CASE i # k
      <3>1. i \in 1 .. Len(mmap)
        BY <1>4, <2>2
      <3> QED
        BY <1>3, <1>6, <2>2, <3>1
    <2> QED
      BY <2>1, <2>2
  <1>8. Told(map, mmap')
    <2>1. k <= Len(map)
      BY <1>4
    <2> HIDE DEF k
    <2> QED
      BY <1>6, <1>7, <2>1 DEF Told, T
  <1>9. CASE k >= Len(map)
    <2>1. boot' = "protected" /\ Len(mmap') = Len(map)
      BY <1>1, <1>4, <1>6, <1>9
    <2> QED
      BY <1>1, <1>8, <2>1 DEF ToldInv
  <1>10. CASE ~(k >= Len(map))
    <2>1. boot' = "e820" /\ Len(mmap') < Len(map)
      BY <1>1, <1>4, <1>6, <1>10
    <2> QED
      BY <1>1, <1>8, <2>1 DEF ToldInv
  <1> QED
    BY <1>9, <1>10

LEMMA BootLaterStep ==
    ASSUME BootInv,
           B!EnableA20 \/ B!read_e820 \/ B!E820Fails \/ B!init32 \/ B!Ended \/ UNCHANGED loader
    PROVE  Geometry' /\ B!ReadsAsked' /\ PhaseInv' /\ OtherInv' /\ ToldInv'
  <1>1. UNCHANGED <<fat, drive, bpb, loading, find, loaded, bx, memory, last, map>>
    BY DEF B!EnableA20, B!read_e820, B!E820Fails, B!init32, B!Ended, B!vars, B!load, loader
  <1>2. \/ boot' = boot
        \/ /\ boot \in {"a20", "e820", "protected"}
           /\ boot' \in {"e820", "protected", "kernel", "error"}
    BY DEF B!EnableA20, B!read_e820, B!E820Fails, B!init32, B!Ended, B!vars, loader
  <1>3. Geometry' /\ B!ReadsAsked' /\ OtherInv'
    BY <1>1 DEF BootInv, Geometry, B!ReadsAsked, OtherInv
  <1>4. PhaseInv'
    <2>1. CASE boot' = boot
      BY <1>1, <2>1 DEF BootInv, PhaseInv
    <2>2. CASE boot \in {"a20", "e820", "protected"} /\ boot' \in {"e820", "protected", "kernel", "error"}
      BY <1>1, <2>2 DEF BootInv, PhaseInv
    <2> QED
      BY <1>2, <2>1, <2>2
  <1>5. ToldInv'
    <2>1. CASE B!EnableA20 \/ B!E820Fails
      <3>1. boot \in Early /\ boot' \in Early \cup {"error"} /\ UNCHANGED <<map, mmap>>
        BY <2>1 DEF B!EnableA20, B!E820Fails, Early
      <3> QED
        BY <3>1, BootUntold DEF BootInv
    <2>2. CASE B!read_e820
      BY <2>2, BootTellStep
    <2>3. CASE B!init32
      <3>1. boot = "protected" /\ boot' = "kernel" /\ UNCHANGED <<map, mmap>>
        BY <2>3 DEF B!init32
      <3> QED
        BY <3>1 DEF BootInv, ToldInv
    <2>4. CASE B!Ended \/ UNCHANGED loader
      <3>1. UNCHANGED <<boot, map, mmap>>
        BY <2>4 DEF B!Ended, B!vars, loader
      <3> QED
        BY <3>1 DEF BootInv, ToldInv
    <2> QED
      BY <2>1, <2>2, <2>3, <2>4
  <1> QED
    BY <1>3, <1>4, <1>5

LEMMA BootStep ==
    ASSUME B!Bootable, BootInv, [B!Next]_loader
    PROVE  BootInv'
  <1>1. BootTyped'
    BY BootTypedStep DEF BootInv
  <1>2. Geometry' /\ B!ReadsAsked' /\ PhaseInv' /\ OtherInv' /\ ToldInv'
    <2>1. CASE B!Start
      BY <2>1, BootStartStep
    <2>2. CASE B!FindSector
      BY <2>2, BootFindSectorStep
    <2>3. CASE B!FindCompare
      BY <2>3, BootFindCompareStep
    <2>4. CASE B!ReadCluster
      BY <2>4, BootReadStep
    <2>5. CASE \E junk \in AfterBuffer : B!NextCluster(junk)
      BY <2>5, BootNextStep
    <2>6. CASE B!EnableA20 \/ B!read_e820 \/ B!E820Fails \/ B!init32 \/ B!Ended \/ UNCHANGED loader
      BY <2>6, BootLaterStep
    <2> QED
      BY <2>1, <2>2, <2>3, <2>4, <2>5, <2>6 DEF B!Next
  <1> QED
    BY <1>1, <1>2 DEF BootInv

-----------------------------------------------------------------------------
(***************************************************************************)
(* The four together.                                                      *)
(***************************************************************************)

\* What does not run is where it may begin.
LEMMA LoadersBegin ==
    ASSUME LoadersInit
    PROVE  /\ Init /\ fat \in Fats /\ drive \in Geometries /\ map \in MemoryMaps /\ B!PowerOn
           /\ object \in Objects /\ L!Start /\ M!Asked /\ M!Start
  <1>0. Fats # {} /\ Geometries # {} /\ MemoryMaps # {} /\ Objects # {} /\ Directories # {}
    BY LoadersAssumption
  <1>1. fat \in Fats /\ drive \in Geometries /\ map \in MemoryMaps
    <2>1. CASE unit = "boot"
      BY <2>1 DEF LoadersInit, B!Given
    <2>2. CASE unit # "boot"
      <3>1. /\ fat = CHOOSE t \in Fats : TRUE
            /\ drive = CHOOSE g \in Geometries : TRUE
            /\ map = CHOOSE s \in MemoryMaps : TRUE
        BY <2>2 DEF LoadersInit
      <3> QED
        BY <1>0, <3>1
    <2> QED
      BY <2>1, <2>2
  <1>2. object \in Objects
    <2>1. \/ object \in Objects
          \/ object = CHOOSE o \in Objects : TRUE
      BY DEF LoadersInit
    <2> QED
      BY <1>0, <2>1
  <1>3. M!Asked
    <2>1. CASE unit = "names"
      BY <2>1 DEF LoadersInit
    <2>2. CASE unit # "names"
      <3>1. /\ kind = "dir" /\ characters = CHOOSE e \in Directories : TRUE
            /\ listed = TRUE /\ component = M!fat12_format_dir_name(characters)
        BY <2>2 DEF LoadersInit
      <3>2. characters \in Directories
        BY <1>0, <3>1
      <3> QED
        BY <3>1, <3>2 DEF M!Asked
    <2> QED
      BY <2>1, <2>2
  <1> QED
    BY <1>1, <1>2, <1>3 DEF LoadersInit

\* A step is one of each, or leaves it alone.
LEMMA LoadersSteps ==
    ASSUME [LoadersNext]_all
    PROVE  [Next]_vars /\ [B!Next]_loader /\ [L!Next]_linker /\ [M!Next]_naming
  BY DEF LoadersNext, all

\* A call that has found what it was asked for only returns it.
LEMMA FoundReleased ==
    ASSUME WalkInv, [Next]_vars, pc = "found", pc' = "idle"
    PROVE  \A b \in live' : b >= base => b \in Blocks(held')
  <1>1. UNCHANGED <<live, held>>
    <2>1. ASSUME NEW p \in Paths, Open(p) \/ OpenDir(p) PROVE FALSE
      BY <2>1 DEF Open, OpenDir, Call
    <2>2. ASSUME OpenRoot \/ Refuse \/ NotFound \/ Found \/ UseEntry \/ FreeEntries PROVE FALSE
      BY <2>2 DEF OpenRoot, Call, Refuse, NotFound, Found, UseEntry, FreeEntries
    <2>3. ASSUME NEW h \in held, (h.kind = DIRECTORY /\ ReadDir(h)) \/ Close(h) PROVE FALSE
      BY <2>3 DEF ReadDir, Call, Close
    <2>4. ASSUME Descend \/ UNCHANGED vars PROVE FALSE
      BY <2>4 DEF Descend, vars
    <2>5. CASE Return
      BY <2>5 DEF Return
    <2> QED
      BY <2>1, <2>2, <2>3, <2>4, <2>5 DEF Next
  <1>2. \A b \in live : b >= base => b \in Blocks(held)
    BY DEF WalkInv, Owned
  <1>3. Blocks(held') = Blocks(held)
    BY <1>1
  <1> QED
    BY <1>1, <1>2, <1>3

-----------------------------------------------------------------------------
\* On volumes with directories of one cluster the state of all four is well typed:
\* among others, callers of the file system hold only blocks that are allocated, and
\* read_file's offset stays in its segment.
THEOREM LoadersTypeCorrect ==
    ASSUME SingleClusters
    PROVE  LoadersSpec => []LoadersTypeOK
  <1> DEFINE Inv == WalkInv /\ BootTyped /\ object \in Objects /\ L!TypeOK /\ M!TypeOK
  <1>1. LoadersInit => Inv
    <2> SUFFICES ASSUME LoadersInit PROVE Inv
      OBVIOUS
    <2>1. WalkInv
      BY LoadersBegin, WalkInit
    <2>2. BootTyped
      BY LoadersBegin, BootTypedInit
    <2>3. object \in Objects /\ L!TypeOK
      BY LoadersBegin, ElfInit
    <2>4. M!TypeOK
      BY LoadersBegin, NameInit DEF NameInv
    <2> QED
      BY <2>1, <2>2, <2>3, <2>4
  <1>2. Inv /\ [LoadersNext]_all => Inv'
    <2> SUFFICES ASSUME Inv, [LoadersNext]_all PROVE Inv'
      OBVIOUS
    <2>0. [Next]_vars /\ [B!Next]_loader /\ [L!Next]_linker /\ [M!Next]_naming
      BY LoadersSteps
    <2>1. WalkInv'
      BY <2>0, WalkStep
    <2>2. BootTyped'
      BY <2>0, BootTypedStep
    <2>3. (object \in Objects)' /\ L!TypeOK'
      BY <2>0, ElfTypesStep
    <2>4. M!TypeOK'
      BY <2>0, NameTypesStep
    <2> QED
      BY <2>1, <2>2, <2>3, <2>4
  <1>3. Inv => LoadersTypeOK
    BY DEF WalkInv, BootTyped, LoadersTypeOK
  <1> QED
    BY <1>1, <1>2, <1>3, PTL DEF LoadersSpec

\* The walk through directories of one cluster each: no entry is used after its
\* block was freed, no block is freed twice, nothing is stored elsewhere, and what
\* is opened is what the path leads to.  The name
\* a listing shows of an entry opens that entry, and a component opens no entry
\* that it does not name.
THEOREM PathsCorrect ==
    ASSUME SingleClusters, M!NamesFit
    PROVE  LoadersSpec => []PathsLead
  <1> DEFINE Inv == WalkInv /\ ResolvesInv /\ NameInv
  <1>1. LoadersInit => Inv
    BY LoadersBegin, WalkInit, ResolvesInit, NameInit
  <1>2. Inv /\ [LoadersNext]_all => Inv'
    <2> SUFFICES ASSUME Inv, [LoadersNext]_all PROVE Inv'
      OBVIOUS
    <2>0. [Next]_vars /\ [M!Next]_naming
      BY LoadersSteps
    <2>1. WalkInv'
      BY <2>0, WalkStep
    <2>2. ResolvesInv'
      BY <2>0, ResolvesStep
    <2>3. NameInv'
      BY <2>0, NameStep
    <2> QED
      BY <2>1, <2>2, <2>3
  <1>3. Inv => PathsLead
    <2> SUFFICES ASSUME Inv PROVE PathsLead
      OBVIOUS
    <2>1. NoUseAfterFree /\ Resolves
      BY DEF WalkInv, ResolvesInv
    <2>2. M!OwnName /\ M!ShortListedOpens
      BY NamesOwn, NamesListed
    <2> QED
      BY <2>1, <2>2 DEF PathsLead
  <1> QED
    BY <1>1, <1>2, <1>3, PTL DEF LoadersSpec

\* On volumes with directories of one cluster a call of fat12_open or fat12_opendir
\* that finds what it was asked for leaves of the blocks it allocated only the one
\* that it returns.
THEOREM WalkReleases ==
    ASSUME SingleClusters
    PROVE  LoadersSpec => Released
  <1>1. LoadersInit => WalkInv
    BY LoadersBegin, WalkInit
  <1>2. WalkInv /\ [LoadersNext]_all => WalkInv'
    BY LoadersSteps, WalkStep
  <1>3. WalkInv /\ [LoadersNext]_all =>
            [pc = "found" /\ pc' = "idle" => \A b \in live' : b >= base => b \in Blocks(held')]_vars
    BY LoadersSteps, FoundReleased
  <1> QED
    BY <1>1, <1>2, <1>3, PTL DEF LoadersSpec, Released

\* The boot loader, with files that fit where it puts them and sectors whose
\* address sixteen bits hold: every sector read is the one that was meant, and the
\* kernel is entered with every sector of both files in its place and the memory
\* map as the BIOS told it.  elf_read, which goes on after a failed assertion:
\* nothing is stored outside of the image, and a file for this machine that is
\* handed over is linked, whatever the order of its sections.
THEOREM LoadedCorrect ==
    ASSUME L!WellFormed, B!Bootable
    PROVE  LoadersSpec => []LoadedRight
  <1> DEFINE Inv == ElfInv /\ BootInv
  <1>1. LoadersInit => Inv
    BY LoadersBegin, ElfInit, BootInit
  <1>2. Inv /\ [LoadersNext]_all => Inv'
    <2> SUFFICES ASSUME Inv, [LoadersNext]_all PROVE Inv'
      OBVIOUS
    <2>0. [B!Next]_loader /\ [L!Next]_linker
      BY LoadersSteps
    <2>1. ElfInv'
      BY <2>0, ElfStep
    <2>2. BootInv'
      BY <2>0, BootStep
    <2> QED
      BY <2>1, <2>2
  <1>3. Inv => LoadedRight
    BY ElfRight, BootRight DEF LoadedRight
  <1> QED
    BY <1>1, <1>2, <1>3, PTL DEF LoadersSpec


=============================================================================

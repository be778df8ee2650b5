---------------------------- MODULE HeapProofs ------------------------------
(***************************************************************************)
(* Proofs about Heap, for every memory map, kernel size, header size and   *)
(* set of requests that satisfies the module's assumptions.                *)
(***************************************************************************)
EXTENDS Heap, FiniteSetTheorems, WellFoundedInduction, TLAPS

\* A chunk map as malloc and free find it.
Sound(ch) ==
    /\ DOMAIN ch \subseteq Nat \ {NULL}
    /\ ch \in [DOMAIN ch -> Chunk]
    /\ Linked(ch)
    /\ Ordered(ch)

\* Marking a chunk allocated or free moves nothing.
Mark(ch, c, b) == [ch EXCEPT ![c].allocated = b]

(***************************************************************************)
(* No two chunks overlap: what Ordered says of neighbours holds of any two.*)
(***************************************************************************)
LEMMA Disjoint ==
    ASSUME NEW ch, Sound(ch), NEW c \in DOMAIN ch, NEW d \in DOMAIN ch, c < d
    PROVE  /\ ch[c].next_chunk # NULL
           /\ ch[c].next_chunk <= d
           /\ End(ch, c) <= d
  <1>1. c \in Nat /\ d \in Nat /\ ch[c] \in Chunk
    BY DEF Sound
  <1>2. ch[c].next_chunk \in Nat /\ ch[c].len \in Nat /\ Header \in Nat
    BY <1>1, SizesAssumption DEF Chunk
  <1>3. ch[c].next_chunk # NULL
    BY <1>1 DEF Sound, Ordered
  <1>4. End(ch, c) <= ch[c].next_chunk /\ ch[c].next_chunk <= d
    BY <1>1, <1>3 DEF Sound, Ordered
  <1> QED
    BY <1>1, <1>2, <1>3, <1>4 DEF End

\* m is ch with chunk c marked b.
Marked(ch, m, c, b) ==
    /\ Sound(m)
    /\ DOMAIN m = DOMAIN ch
    /\ m[c].allocated = b
    /\ \A d \in DOMAIN ch : d # c => m[d] = ch[d]
    /\ \A d \in DOMAIN ch : /\ m[d].next_chunk = ch[d].next_chunk
                            /\ m[d].previous_chunk = ch[d].previous_chunk
                            /\ m[d].len = ch[d].len

(***************************************************************************)
(* The mark of a chunk is no part of the chain.                            *)
(***************************************************************************)
LEMMA MarkSound ==
    ASSUME NEW ch, Sound(ch), NEW c \in DOMAIN ch, NEW b \in BOOLEAN
    PROVE  Marked(ch, Mark(ch, c, b), c, b)
  <1> DEFINE m == Mark(ch, c, b)
  <1>1. ch \in [DOMAIN ch -> Chunk]
    BY DEF Sound
  <1>2. DOMAIN m = DOMAIN ch
    BY DEF Mark
  <1>3. \A d \in DOMAIN ch : d # c => m[d] = ch[d]
    BY DEF Mark
  <1>4. m[c] = [ch[c] EXCEPT !.allocated = b]
    BY DEF Mark
  <1>5. m[c] = [previous_chunk |-> ch[c].previous_chunk,
                next_chunk |-> ch[c].next_chunk, allocated |-> b,
                len |-> ch[c].len]
    BY <1>1, <1>4 DEF Chunk
  <1>6. \A d \in DOMAIN ch : /\ m[d].next_chunk = ch[d].next_chunk
                             /\ m[d].previous_chunk = ch[d].previous_chunk
                             /\ m[d].len = ch[d].len
                             /\ m[d] \in Chunk
    BY <1>1, <1>3, <1>5 DEF Chunk
  <1>7. m \in [DOMAIN m -> Chunk]
    BY <1>2, <1>6 DEF Mark
  <1>8. Linked(m)
    BY <1>2, <1>6 DEF Linked, Sound
  <1>9. Ordered(m)
    BY <1>2, <1>6 DEF Ordered, Sound, End
  <1> HIDE DEF m
  <1>10. Sound(m)
    BY <1>2, <1>7, <1>8, <1>9 DEF Sound
  <1> QED
    BY <1>2, <1>3, <1>5, <1>6, <1>10 DEF m, Marked

\* s is ch with chunk c cut after n bytes.
Cut(ch, s, c, n) ==
    LET new == c + n + Header
    IN  /\ Sound(s)
        /\ new \notin DOMAIN ch
        /\ DOMAIN s = DOMAIN ch \cup {new}
        /\ s[new].allocated = FALSE
        /\ s[new].next_chunk = ch[c].next_chunk
        /\ End(s, new) = End(ch, c)
        /\ s[c].next_chunk = new
        /\ s[c].len = n
        /\ \A d \in DOMAIN ch : s[d].allocated = ch[d].allocated
        /\ \A d \in DOMAIN ch : d # c => /\ s[d].len = ch[d].len
                                         /\ s[d].next_chunk = ch[d].next_chunk

(***************************************************************************)
(* Splitting a chunk that is longer than n and a header keeps the chain.   *)
(***************************************************************************)
LEMMA SplitSound ==
    ASSUME NEW ch, Sound(ch), NEW c \in DOMAIN ch, NEW n \in Nat,
           ch[c].len > n + Header
    PROVE  Cut(ch, Split(ch, c, n), c, n)
  <1> DEFINE new == c + n + Header
             s   == Split(ch, c, n)
             nxt == ch[c].next_chunk
  <1>1. /\ DOMAIN ch \subseteq Nat \ {0} /\ NULL = 0
        /\ ch \in [DOMAIN ch -> Chunk]
        /\ c \in Nat \ {0}
        /\ Header \in Nat \ {0}
    BY SizesAssumption DEF Sound, NULL
  <1>2. /\ nxt \in Nat /\ ch[c].len \in Nat /\ ch[c].previous_chunk \in Nat
    BY <1>1 DEF Chunk
  <1>3. new \in Nat /\ c < new /\ new # 0 /\ new + Header + (ch[c].len - n - Header) = End(ch, c)
    BY <1>1, <1>2 DEF End
  <1>4. \A d \in DOMAIN ch : d > c => d > new
    BY <1>1, <1>2, <1>3, Disjoint DEF End
  <1>5. new \notin DOMAIN ch
    BY <1>1, <1>3, <1>4
  <1>6. DOMAIN s = DOMAIN ch \cup {new}
    BY DEF Split
  <1>7. s[new] = [previous_chunk |-> c, next_chunk |-> nxt,
                  allocated |-> FALSE, len |-> ch[c].len - n - Header]
    <2>1. new # nxt
      BY <1>1, <1>3, <1>5 DEF Sound, Linked
    <2> QED
      BY <1>1, <1>3, <2>1 DEF Split
  <1>8. s[c] = [previous_chunk |-> ch[c].previous_chunk, next_chunk |-> new,
                allocated |-> ch[c].allocated, len |-> n]
    <2>1. s[c] = [ch[c] EXCEPT !.len = n, !.next_chunk = new]
      BY <1>3, <1>1 DEF Split
    <2> QED
      BY <2>1, <1>1 DEF Chunk
  <1>9. nxt \in DOMAIN ch => 
          s[nxt] = [previous_chunk |-> new, next_chunk |-> ch[nxt].next_chunk,
                    allocated |-> ch[nxt].allocated, len |-> ch[nxt].len]
    <2> SUFFICES ASSUME nxt \in DOMAIN ch
                 PROVE  s[nxt] = [previous_chunk |-> new, next_chunk |-> ch[nxt].next_chunk,
                    allocated |-> ch[nxt].allocated, len |-> ch[nxt].len]
      OBVIOUS
    <2>0. nxt # c /\ nxt # new
      <3>1. nxt # 0
        BY <1>1
      <3>2. End(ch, c) <= nxt
        BY <3>1, <1>1 DEF Sound, Ordered
      <3> QED
        BY <3>2, <1>1, <1>2, <1>5 DEF End
    <2>1. s[nxt] = [ch[nxt] EXCEPT !.previous_chunk = new]
      BY <2>0 DEF Split
    <2> QED
      BY <2>1, <1>1 DEF Chunk
  <1>10. \A d \in DOMAIN ch : d # c /\ d # nxt => s[d] = ch[d]
    BY <1>5 DEF Split
  <1> HIDE DEF s, new
  <1>11. /\ \A d \in DOMAIN ch : s[d].allocated = ch[d].allocated
         /\ \A d \in DOMAIN ch : d # c => /\ s[d].len = ch[d].len
                                          /\ s[d].next_chunk = ch[d].next_chunk
         /\ \A d \in DOMAIN ch : d # nxt => s[d].previous_chunk = ch[d].previous_chunk
    BY <1>8, <1>9, <1>10
  <1>12. s \in [DOMAIN s -> Chunk]
    <2>1. \A d \in DOMAIN s : s[d] \in Chunk
      <3>1. s[new] \in Chunk /\ s[c] \in Chunk
        BY <1>1, <1>2, <1>3, <1>7, <1>8 DEF Chunk
      <3>2. nxt \in DOMAIN ch => s[nxt] \in Chunk
        BY <1>1, <1>3, <1>9 DEF Chunk
      <3> QED
        BY <3>1, <3>2, <1>1, <1>6, <1>10
    <2> QED
      BY <2>1 DEF s, Split
  <1>13. Linked(s)
    <2> SUFFICES ASSUME NEW d \in DOMAIN s
                 PROVE  /\ s[d].next_chunk # NULL =>
                             /\ s[d].next_chunk \in DOMAIN s
                             /\ s[s[d].next_chunk].previous_chunk = d
                        /\ s[d].previous_chunk # NULL =>
                             /\ s[d].previous_chunk \in DOMAIN s
                             /\ s[s[d].previous_chunk].next_chunk = d
      BY DEF Linked
    <2>1. CASE d = new
      BY <2>1, <1>1, <1>6, <1>7, <1>8, <1>9 DEF Sound, Linked
    <2>2. CASE d = c
      BY <2>2, <1>1, <1>6, <1>7, <1>8, <1>10, <1>11, <1>9 DEF Sound, Linked
    <2>3. CASE d \in DOMAIN ch /\ d # c
      BY <2>3, <1>1, <1>5, <1>6, <1>7, <1>9, <1>11 DEF Sound, Linked
    <2> QED
      BY <2>1, <2>2, <2>3, <1>6
  <1>14. Ordered(s)
    <2> SUFFICES ASSUME NEW d \in DOMAIN s
                 PROVE  IF s[d].next_chunk = NULL
                          THEN \A e \in DOMAIN s : e <= d
                          ELSE /\ End(s, d) <= s[d].next_chunk
                               /\ \A e \in DOMAIN s : e <= d \/ s[d].next_chunk <= e
      BY DEF Ordered
    <2>1. CASE d = new
      <3>1. End(s, new) = End(ch, c) /\ s[new].next_chunk = nxt
        BY <1>3, <1>7 DEF End
      <3>2. \A e \in DOMAIN ch : e <= c => e <= new
        BY <1>1, <1>3
      <3> QED
        BY <2>1, <3>1, <3>2, <1>1, <1>3, <1>6 DEF Sound, Ordered
    <2>2. CASE d = c
      <3>1. End(s, c) = new /\ s[c].next_chunk = new
        BY <1>1, <1>8 DEF End, new
      <3>2. \A e \in DOMAIN s : e <= c \/ new <= e
        BY <1>1, <1>3, <1>4, <1>6
      <3> QED
        BY <2>2, <3>1, <3>2, <1>1, <1>3
    <2>3. CASE d \in DOMAIN ch /\ d # c
      <3>1. End(s, d) = End(ch, d) /\ s[d].next_chunk = ch[d].next_chunk
        BY <2>3, <1>11 DEF End
      <3>2. d < c \/ new < d
        BY <2>3, <1>1, <1>4
      <3>3. ch[d].next_chunk = NULL => new <= d
        BY <3>2, <2>3, <1>1, <1>3 DEF Sound, Ordered
      <3>4. ch[d].next_chunk # NULL => new <= d \/ ch[d].next_chunk <= new
        <4>1. ch[d].next_chunk \in Nat
          BY <2>3, <1>1 DEF Chunk
        <4> QED
          BY <4>1, <3>2, <2>3, <1>1, <1>3 DEF Sound, Ordered
      <3> QED
        BY <2>3, <3>1, <3>3, <3>4, <1>1, <1>6 DEF Sound, Ordered
    <2> QED
      BY <2>1, <2>2, <2>3, <1>6
  <1>15. Sound(s)
    BY <1>1, <1>3, <1>6, <1>12, <1>13, <1>14 DEF Sound
  <1>16. End(s, new) = End(ch, c)
    BY <1>3, <1>7 DEF End
  <1> QED
    BY <1>5, <1>6, <1>7, <1>8, <1>11, <1>15, <1>16 DEF s, new, Cut

\* r is ch with the chunk after c taken in by c.
Absorbed(ch, r, c) ==
    LET gone == ch[c].next_chunk
    IN  /\ Sound(r)
        /\ gone \in DOMAIN ch /\ gone # c
        /\ DOMAIN r = DOMAIN ch \ {gone}
        /\ r[c].next_chunk = ch[gone].next_chunk
        /\ End(r, c) <= End(ch, gone)
        /\ End(ch, c) = gone => End(r, c) = End(ch, gone)
        /\ \A d \in DOMAIN r : r[d].allocated = ch[d].allocated
        /\ \A d \in DOMAIN r : d # c => /\ r[d].len = ch[d].len
                                        /\ r[d].next_chunk = ch[d].next_chunk

(***************************************************************************)
(* Taking in the next chunk keeps the chain, and no chunk reaches further  *)
(* than before, even when the two do not touch.                            *)
(***************************************************************************)
LEMMA AbsorbSound ==
    ASSUME NEW ch, Sound(ch), NEW c \in DOMAIN ch, ch[c].next_chunk # NULL
    PROVE  Absorbed(ch, Absorb(ch, c), c)
  <1> DEFINE gone == ch[c].next_chunk
             r    == Absorb(ch, c)
             nn   == ch[gone].next_chunk
  <1>1. /\ DOMAIN ch \subseteq Nat \ {0} /\ NULL = 0
        /\ ch \in [DOMAIN ch -> Chunk]
        /\ c \in Nat \ {0}
        /\ Header \in Nat \ {0}
    BY SizesAssumption DEF Sound, NULL
  <1>2. gone \in DOMAIN ch /\ ch[gone].previous_chunk = c
    BY DEF Sound, Linked
  <1>3. /\ gone \in Nat /\ ch[c].len \in Nat /\ ch[gone].len \in Nat
        /\ ch[c].previous_chunk \in Nat /\ nn \in Nat
    BY <1>1, <1>2 DEF Chunk
  <1>4. End(ch, c) <= gone /\ c < gone
    BY <1>1, <1>3 DEF Sound, Ordered, End
  <1>5. nn # c /\ nn # gone
    <2>1. nn # NULL => End(ch, gone) <= nn
      BY <1>2 DEF Sound, Ordered
    <2> QED
      BY <2>1, <1>1, <1>3, <1>4 DEF End
  <1>6. DOMAIN r = DOMAIN ch \ {gone}
    BY DEF Absorb
  <1>7. r[c] = [previous_chunk |-> ch[c].previous_chunk, next_chunk |-> nn,
                allocated |-> ch[c].allocated, len |-> ch[c].len + ch[gone].len + Header]
    <2>1. r[c] = [ch[c] EXCEPT !.len = @ + ch[gone].len + Header, !.next_chunk = nn]
      BY <1>1, <1>4 DEF Absorb
    <2> QED
      BY <2>1, <1>1 DEF Chunk
  <1>8. nn \in DOMAIN ch =>
          r[nn] = [previous_chunk |-> c, next_chunk |-> ch[nn].next_chunk,
                   allocated |-> ch[nn].allocated, len |-> ch[nn].len]
    <2> SUFFICES ASSUME nn \in DOMAIN ch
                 PROVE  r[nn] = [previous_chunk |-> c, next_chunk |-> ch[nn].next_chunk,
                                 allocated |-> ch[nn].allocated, len |-> ch[nn].len]
      OBVIOUS
    <2>1. r[nn] = [ch[nn] EXCEPT !.previous_chunk = c]
      BY <1>5 DEF Absorb
    <2> QED
      BY <2>1, <1>1 DEF Chunk
  <1>9. \A d \in DOMAIN r : d # c /\ d # nn => r[d] = ch[d]
    BY DEF Absorb
  <1> HIDE DEF r, nn
  <1>10. /\ \A d \in DOMAIN r : r[d].allocated = ch[d].allocated
         /\ \A d \in DOMAIN r : d # c => /\ r[d].len = ch[d].len
                                         /\ r[d].next_chunk = ch[d].next_chunk
         /\ \A d \in DOMAIN r : d # nn => r[d].previous_chunk = ch[d].previous_chunk
    BY <1>6, <1>7, <1>8, <1>9
  <1>11. r \in [DOMAIN r -> Chunk]
    <2>1. \A d \in DOMAIN r : r[d] \in Chunk
      <3>1. r[c] \in Chunk
        BY <1>1, <1>3, <1>7 DEF Chunk
      <3>2. nn \in DOMAIN ch => r[nn] \in Chunk
        BY <1>1, <1>8 DEF Chunk
      <3> QED
        BY <3>1, <3>2, <1>1, <1>6, <1>9
    <2> QED
      BY <2>1 DEF r, Absorb
  <1>12. Linked(r)
    <2> SUFFICES ASSUME NEW d \in DOMAIN r
                 PROVE  /\ r[d].next_chunk # NULL =>
                             /\ r[d].next_chunk \in DOMAIN r
                             /\ r[r[d].next_chunk].previous_chunk = d
                        /\ r[d].previous_chunk # NULL =>
                             /\ r[d].previous_chunk \in DOMAIN r
                             /\ r[r[d].previous_chunk].next_chunk = d
      BY DEF Linked
    <2>0. d \in DOMAIN ch /\ d # gone /\ c \in DOMAIN r
      BY <1>1, <1>4, <1>6
    <2>1. CASE d = c
      <3>1. nn # NULL => nn \in DOMAIN r /\ r[nn].previous_chunk = c
        BY <1>2, <1>5, <1>6, <1>8 DEF Sound, Linked, nn
      <3>2. ch[c].previous_chunk # NULL =>
              /\ ch[c].previous_chunk \in DOMAIN ch
              /\ ch[ch[c].previous_chunk].next_chunk = c
        BY DEF Sound, Linked
      <3>3. ch[c].previous_chunk # gone /\ ch[c].previous_chunk # c
        <4>1. nn # c /\ ch[c].next_chunk # c
          BY <1>1, <1>4, <1>5
        <4> QED
          BY <4>1, <1>1, <1>2, <3>2 DEF nn
      <3> QED
        BY <2>1, <3>1, <3>2, <3>3, <1>6, <1>7, <1>10
    <2>2. CASE d = nn
      <3>1. r[nn].previous_chunk = c /\ r[c].next_chunk = nn
        BY <2>0, <2>2, <1>7, <1>8
      <3>2. ch[nn].next_chunk # NULL =>
              /\ ch[nn].next_chunk \in DOMAIN ch
              /\ ch[ch[nn].next_chunk].previous_chunk = nn
        BY <2>0, <2>2 DEF Sound, Linked
      <3>3. ch[nn].next_chunk # gone /\ ch[nn].next_chunk # nn
        <4>1. ch[nn].next_chunk # NULL => End(ch, nn) <= ch[nn].next_chunk
          BY <2>0, <2>2 DEF Sound, Ordered
        <4>2. nn \in Nat /\ ch[nn].next_chunk \in Nat /\ ch[nn].len \in Nat
          BY <2>0, <2>2, <1>1 DEF Chunk
        <4> QED
          BY <4>1, <4>2, <1>1, <1>2, <3>2, <1>5, <2>2, <2>0 DEF End
      <3> QED
        BY <2>0, <2>2, <3>1, <3>2, <3>3, <1>5, <1>6, <1>10
    <2>3. CASE d # c /\ d # nn
      <3>1. r[d] = ch[d]
        BY <2>3, <1>9
      <3>2. ch[d].next_chunk # gone
        BY <2>0, <2>3, <1>2 DEF Sound, Linked
      <3>3. ch[d].previous_chunk # gone
        BY <2>0, <2>3, <1>1, <1>2 DEF Sound, Linked, nn
      <3>4. ch[d].next_chunk # nn \/ nn = NULL
        <4> SUFFICES ASSUME ch[d].next_chunk = nn, nn # NULL PROVE FALSE
          OBVIOUS
        <4>1. ch[nn].previous_chunk = gone /\ ch[nn].previous_chunk = d
          BY <2>0, <1>2 DEF Sound, Linked, nn
        <4> QED
          BY <4>1, <2>0
      <3>5. ch[d].previous_chunk # c
        BY <2>0, <2>3 DEF Sound, Linked
      <3> QED
        BY <2>0, <2>3, <3>1, <3>2, <3>3, <3>4, <3>5, <1>6, <1>10 DEF Sound, Linked
    <2> QED
      BY <2>1, <2>2, <2>3
  <1>13. End(r, c) <= End(ch, gone) /\ (End(ch, c) = gone => End(r, c) = End(ch, gone))
    BY <1>1, <1>3, <1>4, <1>7 DEF End
  <1>14. Ordered(r)
    <2> SUFFICES ASSUME NEW d \in DOMAIN r
                 PROVE  IF r[d].next_chunk = NULL
                          THEN \A e \in DOMAIN r : e <= d
                          ELSE /\ End(r, d) <= r[d].next_chunk
                               /\ \A e \in DOMAIN r : e <= d \/ r[d].next_chunk <= e
      BY DEF Ordered
    <2>1. CASE d = c
      <3>1. r[c].next_chunk = nn
        BY <1>7
      <3>2. \A e \in DOMAIN r : e > c => e > gone
        BY <1>1, <1>3, <1>6 DEF Sound, Ordered
      <3>3. nn = NULL => \A e \in DOMAIN r : e <= gone
        BY <1>2, <1>6 DEF Sound, Ordered, nn
      <3>4. nn # NULL => /\ End(ch, gone) <= nn
                         /\ \A e \in DOMAIN r : e <= gone \/ nn <= e
        BY <1>2, <1>6 DEF Sound, Ordered, nn
      <3>5. End(r, c) \in Nat /\ End(ch, gone) \in Nat
        BY <1>1, <1>3, <1>7 DEF End
      <3> QED
        BY <2>1, <3>1, <3>2, <3>3, <3>4, <3>5, <1>1, <1>3, <1>6, <1>13
    <2>2. CASE d # c
      <3>1. End(r, d) = End(ch, d) /\ r[d].next_chunk = ch[d].next_chunk
        BY <2>2, <1>10 DEF End
      <3> QED
        BY <2>2, <3>1, <1>6 DEF Sound, Ordered
    <2> QED
      BY <2>1, <2>2
  <1>15. Sound(r)
    BY <1>1, <1>6, <1>11, <1>12, <1>14 DEF Sound
  <1> QED
    BY <1>2, <1>4, <1>1, <1>6, <1>7, <1>10, <1>13, <1>15 DEF r, nn, Absorbed

-----------------------------------------------------------------------------
(***************************************************************************)
(* What allocating and releasing do to the blocks in use.                  *)
(***************************************************************************)
InUse(ch) == {c \in DOMAIN ch : ch[c].allocated}

\* In r the chunks in use are those of ch without c, as long as they were.
Releases(ch, r, c) ==
    /\ DOMAIN r \subseteq DOMAIN ch
    /\ InUse(r) = InUse(ch) \ {c}
    /\ \A d \in InUse(r) : r[d].len = ch[d].len

\* No two free chunks touch, except perhaps c and the one after it.
MergedBut(ch, c) ==
    \A d \in DOMAIN ch \ {c} :
        LET n == ch[d].next_chunk
        IN  n # NULL /\ End(ch, d) = n => ch[d].allocated \/ ch[n].allocated

\* malloc, split or not, keeps the chain sound and marks just chunk c.
LEMMA AllocateSound ==
    ASSUME NEW ch, Sound(ch), NEW c \in DOMAIN ch, NEW n \in Nat,
           Fits(ch, c, n)
    PROVE  LET r == Allocate(ch, c, n)
           IN  /\ Sound(r) /\ (Merged(ch) => Merged(r))
               /\ InUse(r) = InUse(ch) \cup {c}
               /\ DOMAIN ch \subseteq DOMAIN r
               /\ \A d \in DOMAIN r : d \in DOMAIN ch \/ c < d
               /\ r[c].len >= n
               /\ \A d \in InUse(ch) : r[d].len = ch[d].len
  <1> DEFINE r == Allocate(ch, c, n)
  <1>0. ~ch[c].allocated /\ ch[c].len >= n /\ ch[c].len \in Nat /\ c \in Nat /\ Header \in Nat
    BY SizesAssumption DEF Fits, Sound, Chunk
  <1>1. CASE ch[c].len > n + Header
    <2> DEFINE s   == Split(ch, c, n)
               new == c + n + Header
    <2>1. r = Mark(s, c, TRUE)
      BY <1>1 DEF Allocate, Mark
    <2>2. Cut(ch, s, c, n)
      BY <1>1, SplitSound
    <2> HIDE DEF s
    <2> USE DEF Cut
    <2>3. c \in DOMAIN s
      BY <2>2
    <2>4. Marked(s, r, c, TRUE)
      BY <2>1, <2>2, <2>3, MarkSound
    <2> HIDE DEF r
    <2> USE DEF Marked
    <2>5. Merged(ch) => Merged(r)
      <3> SUFFICES ASSUME Merged(ch), NEW d \in DOMAIN r, r[d].next_chunk # NULL,
                          End(r, d) = r[d].next_chunk
                   PROVE  r[d].allocated \/ r[r[d].next_chunk].allocated
        BY DEF Merged
      <3>1. CASE d = c
        BY <3>1, <2>4
      <3>2. CASE d = new
        <4>1. ch[c].next_chunk # NULL /\ End(ch, c) = ch[c].next_chunk
          BY <3>2, <2>2, <2>4 DEF End
        <4>2. ch[ch[c].next_chunk].allocated /\ ch[c].next_chunk \in DOMAIN ch
          BY <4>1, <1>0 DEF Merged, Sound, Linked
        <4>3. r[d].next_chunk = ch[c].next_chunk
          BY <3>2, <2>2, <2>4
        <4>4. ch[c].next_chunk # c
          BY <1>0, <4>2
        <4> QED
          BY <4>2, <4>3, <4>4, <2>2, <2>4
      <3>3. CASE d \in DOMAIN ch /\ d # c
        <4>1. r[d].next_chunk = ch[d].next_chunk /\ End(r, d) = End(ch, d)
              /\ r[d].allocated = ch[d].allocated
          BY <3>3, <2>2, <2>4 DEF End
        <4>2. ch[d].next_chunk \in DOMAIN ch
          BY <3>3, <4>1 DEF Sound, Linked
        <4>3. ch[d].allocated \/ ch[ch[d].next_chunk].allocated
          BY <3>3, <4>1 DEF Merged
        <4> QED
          BY <4>1, <4>2, <4>3, <2>2, <2>4
      <3> QED
        BY <3>1, <3>2, <3>3, <2>2, <2>4
    <2>6. InUse(r) = InUse(ch) \cup {c}
      BY <2>2, <2>4 DEF InUse
    <2>7. \A d \in DOMAIN r : d \in DOMAIN ch \/ c < d
      <3>1. c < new
        BY <1>0, SizesAssumption
      <3> QED
        BY <3>1, <2>2, <2>4
    <2>8. r[c].len >= n /\ \A d \in InUse(ch) : r[d].len = ch[d].len
      BY <1>0, <2>2, <2>4 DEF InUse
    <2> QED
      BY <2>2, <2>4, <2>5, <2>6, <2>7, <2>8 DEF r
  <1>2. CASE ~(ch[c].len > n + Header)
    <2>1. r = Mark(ch, c, TRUE)
      BY <1>2 DEF Allocate, Mark
    <2>2. Marked(ch, r, c, TRUE)
      BY <2>1, MarkSound
    <2> HIDE DEF r
    <2> USE DEF Marked
    <2>3. Merged(ch) => Merged(r)
      BY <2>2 DEF Merged, Sound, Linked, End
    <2>4. InUse(r) = InUse(ch) \cup {c}
      BY <2>2 DEF InUse
    <2> QED
      BY <1>0, <2>2, <2>3, <2>4 DEF InUse, r
  <1> QED
    BY <1>1, <1>2

\* free's forward merge keeps the chain sound and the used chunks as they are.
LEMMA MergeNextSound ==
    ASSUME NEW ch, Sound(ch), NEW c \in DOMAIN ch, ~ch[c].allocated
    PROVE  LET r == MergeNext(ch, c)
           IN  Sound(r) /\ (MergedBut(ch, c) => Merged(r)) /\ Releases(ch, r, c)
  <1> DEFINE r    == MergeNext(ch, c)
             gone == ch[c].next_chunk
  <1>1. CASE IsFree(ch, gone)
    <2>1. r = Absorb(ch, c) /\ gone # NULL /\ ~ch[gone].allocated
      BY <1>1 DEF MergeNext, IsFree
    <2>2. Absorbed(ch, r, c)
      BY <2>1, AbsorbSound
    <2> HIDE DEF r
    <2> USE DEF Absorbed
    <2>3. MergedBut(ch, c) => Merged(r)
      <3> SUFFICES ASSUME MergedBut(ch, c), NEW d \in DOMAIN r, r[d].next_chunk # NULL,
                          End(r, d) = r[d].next_chunk
                   PROVE  r[d].allocated \/ r[r[d].next_chunk].allocated
        BY DEF Merged
      <3>0. r[d].next_chunk \in DOMAIN r
        BY <2>2 DEF Sound, Linked
      <3>1. CASE d = c
        <4>1. ch[gone].next_chunk # NULL /\ End(ch, gone) <= ch[gone].next_chunk
          BY <3>1, <2>2 DEF Sound, Ordered
        <4>2. End(ch, gone) \in Int /\ ch[gone].next_chunk \in Int /\ End(r, c) \in Int
          <5>1. ch[gone] \in Chunk /\ r[c] \in Chunk /\ gone \in Nat /\ c \in Nat
            BY <2>2, <3>1 DEF Sound
          <5> QED
            BY <5>1, SizesAssumption DEF End, Chunk
        <4>3. End(ch, gone) = ch[gone].next_chunk
          BY <3>1, <4>1, <4>2, <2>2
        <4>4. ch[ch[gone].next_chunk].allocated
          BY <4>1, <4>3, <2>1, <2>2 DEF MergedBut
        <4> QED
          BY <3>0, <3>1, <4>4, <2>2
      <3>2. CASE d # c
        BY <3>0, <3>2, <2>2 DEF MergedBut, End
      <3> QED
        BY <3>1, <3>2
    <2>4. Releases(ch, r, c)
      BY <2>1, <2>2 DEF Releases, InUse
    <2> QED
      BY <2>2, <2>3, <2>4 DEF r
  <1>2. CASE ~IsFree(ch, gone)
    <2>1. r = ch
      BY <1>2 DEF MergeNext
    <2>2. MergedBut(ch, c) => Merged(ch)
      BY <1>2 DEF Merged, MergedBut, IsFree
    <2> QED
      BY <2>1, <2>2 DEF Releases, InUse
  <1> QED
    BY <1>1, <1>2

\* free keeps the chain sound and unmarks just chunk c.
LEMMA ReleaseSound ==
    ASSUME NEW ch, Sound(ch), NEW c \in DOMAIN ch, ch[c].allocated
    PROVE  LET r == Release(ch, c)
           IN  Sound(r) /\ (Merged(ch) => Merged(r)) /\ Releases(ch, r, c)
  <1> DEFINE r == Release(ch, c)
             f == Mark(ch, c, FALSE)
             p == ch[c].previous_chunk
  <1>1. Marked(ch, f, c, FALSE)
    BY MarkSound
  <1>2. r = IF IsFree(f, p) THEN MergeNext(Absorb(f, p), p) ELSE MergeNext(f, c)
    BY DEF Release, Mark
  <1>3. p # NULL => p \in DOMAIN ch /\ ch[p].next_chunk = c
    BY DEF Sound, Linked
  <1>4. \A d \in DOMAIN ch : ch[d].next_chunk = c => d = p /\ p # NULL
    BY DEF Sound, Linked, NULL
  <1> HIDE DEF f, r
  <1> USE DEF Marked
  <1>5. InUse(f) = InUse(ch) \ {c}
    BY <1>1 DEF InUse
  <1>6. CASE IsFree(f, p)
    <2> DEFINE a == Absorb(f, p)
    <2>1. p # NULL /\ ~f[p].allocated /\ p \in DOMAIN f /\ f[p].next_chunk = c /\ c # NULL
      BY <1>1, <1>3, <1>6 DEF IsFree, Sound
    <2>2. Absorbed(f, a, p)
      BY <1>1, <2>1, AbsorbSound
    <2> HIDE DEF a
    <2> USE DEF Absorbed
    <2>3. Merged(ch) => MergedBut(a, p)
      <3> SUFFICES ASSUME Merged(ch), NEW d \in DOMAIN a \ {p}, a[d].next_chunk # NULL,
                          End(a, d) = a[d].next_chunk
                   PROVE  a[d].allocated \/ a[a[d].next_chunk].allocated
        BY DEF MergedBut
      <3>1. /\ d \in DOMAIN ch /\ d # c
            /\ a[d].next_chunk = ch[d].next_chunk
            /\ End(a, d) = End(ch, d)
        BY <1>1, <2>1, <2>2 DEF End
      <3>2. a[d].next_chunk \in DOMAIN a
        BY <2>2 DEF Sound, Linked
      <3>3. ch[d].allocated \/ ch[ch[d].next_chunk].allocated
        BY <3>1 DEF Merged
      <3> QED
        BY <1>1, <2>1, <2>2, <3>1, <3>2, <3>3
    <2>4. ~a[p].allocated /\ p \in DOMAIN a
      BY <2>1, <2>2
    <2>5. Sound(r) /\ (MergedBut(a, p) => Merged(r)) /\ Releases(a, r, p)
      BY <1>2, <1>6, <2>2, <2>3, <2>4, MergeNextSound DEF a
    <2>6. Releases(ch, r, c)
      <3>1. InUse(a) = InUse(f)
        BY <1>1, <2>1, <2>2 DEF InUse
      <3>2. p \notin InUse(a)
        BY <2>4 DEF InUse
      <3>3. InUse(r) = InUse(ch) \ {c} /\ DOMAIN r \subseteq DOMAIN ch
        BY <1>1, <1>5, <2>2, <2>5, <3>1, <3>2 DEF Releases
      <3>4. \A d \in InUse(a) : a[d].len = ch[d].len
        BY <1>1, <2>2, <2>4 DEF InUse
      <3> QED
        BY <2>5, <3>3, <3>4 DEF Releases
    <2> QED
      BY <2>3, <2>5, <2>6 DEF r
  <1>7. CASE ~IsFree(f, p)
    <2>1. Merged(ch) => MergedBut(f, c)
      <3> SUFFICES ASSUME Merged(ch), NEW d \in DOMAIN f \ {c}, f[d].next_chunk # NULL,
                          End(f, d) = f[d].next_chunk
                   PROVE  f[d].allocated \/ f[f[d].next_chunk].allocated
        BY DEF MergedBut
      <3>1. /\ d \in DOMAIN ch /\ d # c /\ f[d] = ch[d] /\ End(f, d) = End(ch, d)
            /\ ch[d].next_chunk \in DOMAIN ch
        BY <1>1 DEF End, Sound, Linked
      <3>2. CASE ch[d].next_chunk = c
        BY <1>4, <1>7, <3>1, <3>2 DEF IsFree
      <3>3. CASE ch[d].next_chunk # c
        BY <1>1, <3>1, <3>3 DEF Merged
      <3> QED
        BY <3>2, <3>3
    <2>2. Sound(r) /\ (MergedBut(f, c) => Merged(r)) /\ Releases(f, r, c)
      BY <1>1, <1>2, <1>7, <2>1, MergeNextSound
    <2>3. Releases(ch, r, c)
      BY <1>1, <1>5, <2>2 DEF Releases, InUse
    <2> QED
      BY <2>1, <2>2, <2>3 DEF r
  <1> QED
    BY <1>6, <1>7

-----------------------------------------------------------------------------
(***************************************************************************)
(* malloc_init.                                                            *)
(***************************************************************************)
LEMMA LeastElement ==
    ASSUME NEW T, T \subseteq Nat, T # {}
    PROVE  \E x \in T : \A y \in T : x <= y
  <1> DEFINE R == OpToRel(<, Nat)
  <1>1. IsWellFoundedOn(R, Nat)
    BY NatLessThanWellFounded
  <1>2. \A x, y \in Nat : y < x => <<y, x>> \in R
    BY DEF OpToRel
  <1> HIDE DEF R
  <1>3. PICK x \in T : \A y \in T : ~(<<y, x>> \in R)
    BY <1>1, WFMin
  <1>4. ASSUME NEW y \in T PROVE x <= y
    <2>1. ~(<<y, x>> \in R) /\ x \in Nat /\ y \in Nat
      BY <1>3
    <2>2. ~(y < x)
      BY <2>1, <1>2
    <2> QED
      BY <2>1, <2>2
  <1> QED
    BY <1>4

\* The entries of the memory map that hold chunks lie in order and apart.
LEMMA EntryFacts ==
    /\ HeapEntries \subseteq Entries /\ HeapEntries \subseteq Nat
    /\ \A i \in HeapEntries :
          /\ Mmap[i].base \in Nat /\ Limit(i) \in Nat
          /\ EntryAddr(i) \in Nat \ {0} /\ EntryLen(i) \in Nat
          /\ EntryAddr(i) + Header + EntryLen(i) = Limit(i)
          /\ Mmap[i].base <= EntryAddr(i)
          /\ KernelEnd <= EntryAddr(i)
    /\ \A i, j \in HeapEntries : i < j => Limit(i) <= EntryAddr(j)
    /\ \A i, j \in HeapEntries : i < j => EntryAddr(i) < EntryAddr(j)
  <1>1. HeapEntries \subseteq Entries /\ Entries \subseteq DOMAIN Mmap /\ HeapEntries \subseteq Nat
    BY MmapAssumption DEF HeapEntries, Entries
  <1>2. \A i \in Entries : Mmap[i].base \in Nat /\ Limit(i) \in Nat
    BY <1>1, MmapAssumption DEF Limit
  <1>3. \A i \in HeapEntries : Mmap[i].base <= EntryAddr(i) /\ KernelEnd <= EntryAddr(i)
    <2> SUFFICES ASSUME NEW i \in HeapEntries
                 PROVE  Mmap[i].base <= EntryAddr(i) /\ KernelEnd <= EntryAddr(i)
      OBVIOUS
    <2>1. CASE IsStartEntry(i)
      BY <2>1, <1>1, <1>2, SizesAssumption DEF EntryAddr, IsStartEntry, HoldsKernelEnd
    <2>2. CASE ~IsStartEntry(i)
      <3>1. PICK s \in Entries : s <= i /\ IsStartEntry(s)
        BY DEF HeapEntries
      <3>2. s < i
        BY <2>2, <3>1, <1>1, MmapAssumption
      <3>3. Limit(s) <= Mmap[i].base /\ KernelEnd <= Limit(s)
        BY <3>1, <3>2, <1>1, MmapAssumption DEF IsStartEntry, HoldsKernelEnd
      <3> QED
        BY <2>2, <3>3, <1>1, <1>2, SizesAssumption DEF EntryAddr
    <2> QED
      BY <2>1, <2>2
  <1>4. \A i \in HeapEntries : EntryAddr(i) \in Nat \ {0}
    BY <1>1, <1>2, <1>3, SizesAssumption DEF EntryAddr
  <1>5. \A i \in HeapEntries : /\ EntryLen(i) \in Nat
                               /\ EntryAddr(i) + Header + EntryLen(i) = Limit(i)
    <2> SUFFICES ASSUME NEW i \in HeapEntries
                 PROVE  /\ EntryLen(i) \in Nat
                        /\ EntryAddr(i) + Header + EntryLen(i) = Limit(i)
      OBVIOUS
    <2>1. EntryAddr(i) \in Nat /\ Limit(i) \in Nat /\ Header \in Nat
          /\ EntryAddr(i) + Header <= Limit(i)
      BY <1>1, <1>2, <1>4, SizesAssumption, StartAssumption
    <2> QED
      BY <2>1 DEF EntryLen
  <1>6. \A i, j \in HeapEntries : i < j => Limit(i) <= EntryAddr(j)
    BY <1>1, <1>2, <1>3, <1>4, MmapAssumption
  <1>7. \A i, j \in HeapEntries : i < j => EntryAddr(i) < EntryAddr(j)
    BY <1>1, <1>2, <1>4, <1>5, <1>6, SizesAssumption
  <1> QED
    BY <1>1, <1>2, <1>3, <1>4, <1>5, <1>6, <1>7

\* The chunk at the address of an entry is the one made for that entry.
LEMMA InitChunksAre ==
    /\ DOMAIN InitChunks = {EntryAddr(i) : i \in HeapEntries}
    /\ \A i \in HeapEntries : InitChunks[EntryAddr(i)] = InitChunk(i)
  <1>1. DOMAIN InitChunks = {EntryAddr(i) : i \in HeapEntries}
    BY DEF InitChunks
  <1>2. ASSUME NEW i \in HeapEntries
        PROVE  InitChunks[EntryAddr(i)] = InitChunk(i)
    <2>1. \A j \in HeapEntries : EntryAddr(j) = EntryAddr(i) => j = i
      BY EntryFacts
    <2>2. (CHOOSE j \in HeapEntries : EntryAddr(j) = EntryAddr(i)) = i
      BY <2>1
    <2> QED
      BY <2>2 DEF InitChunks
  <1> QED
    BY <1>1, <1>2

\* malloc_init builds a sound chain in which nothing is allocated.
LEMMA InitSound == Sound(InitChunks) /\ InUse(InitChunks) = {}
  <1> DEFINE ch == InitChunks
  <1>1. /\ DOMAIN ch = {EntryAddr(i) : i \in HeapEntries}
        /\ \A i \in HeapEntries : ch[EntryAddr(i)] = InitChunk(i)
    BY InitChunksAre
  <1> HIDE DEF ch
  <1>2. ASSUME NEW i \in HeapEntries
        PROVE  /\ IF \E j \in HeapEntries : Follows(i, j)
                    THEN \E j \in HeapEntries : Follows(i, j) /\ InitChunk(i).next_chunk = EntryAddr(j)
                    ELSE InitChunk(i).next_chunk = NULL
               /\ IF \E j \in HeapEntries : Follows(j, i)
                    THEN \E j \in HeapEntries : Follows(j, i) /\ InitChunk(i).previous_chunk = EntryAddr(j)
                    ELSE InitChunk(i).previous_chunk = NULL
               /\ InitChunk(i).allocated = FALSE
               /\ InitChunk(i).len = EntryLen(i)
    BY DEF InitChunk
  <1>3. \A i, j, k \in HeapEntries :
          /\ Follows(i, j) /\ Follows(i, k) => j = k
          /\ Follows(j, i) /\ Follows(k, i) => j = k
    BY EntryFacts DEF Follows
  <1>4. ASSUME NEW i \in HeapEntries
        PROVE  InitChunk(i) \in Chunk
    <2>0. /\ \A j \in HeapEntries : EntryAddr(j) \in Nat
          /\ EntryLen(i) \in Nat
      BY EntryFacts
    <2>1. /\ InitChunk(i).next_chunk = NULL
             \/ \E j \in HeapEntries : InitChunk(i).next_chunk = EntryAddr(j)
          /\ InitChunk(i).previous_chunk = NULL
             \/ \E j \in HeapEntries : InitChunk(i).previous_chunk = EntryAddr(j)
      BY <1>2
    <2>2. PICK p, n : InitChunk(i) = [previous_chunk |-> p, next_chunk |-> n,
                                      allocated |-> FALSE, len |-> EntryLen(i)]
      BY DEF InitChunk
    <2>3. p \in Nat /\ n \in Nat
      BY <2>0, <2>1, <2>2 DEF NULL
    <2> QED
      BY <2>0, <2>2, <2>3 DEF Chunk
  <1>5. DOMAIN ch \subseteq Nat \ {NULL}
    BY <1>1, EntryFacts DEF NULL
  <1>6. ch \in [DOMAIN ch -> Chunk]
    <2>1. \A a \in DOMAIN ch : ch[a] \in Chunk
      BY <1>1, <1>4
    <2> QED
      BY <2>1 DEF ch, InitChunks
  <1>7. Linked(ch)
    <2> SUFFICES ASSUME NEW i \in HeapEntries
                 PROVE  LET c == EntryAddr(i)
                            n == ch[c].next_chunk
                            p == ch[c].previous_chunk
                        IN  /\ n # NULL => n \in DOMAIN ch /\ ch[n].previous_chunk = c
                            /\ p # NULL => p \in DOMAIN ch /\ ch[p].next_chunk = c
      BY <1>1 DEF Linked
    <2>1. ASSUME InitChunk(i).next_chunk # NULL
          PROVE  /\ InitChunk(i).next_chunk \in DOMAIN ch
                 /\ ch[InitChunk(i).next_chunk].previous_chunk = EntryAddr(i)
      <3>1. PICK j \in HeapEntries : Follows(i, j) /\ InitChunk(i).next_chunk = EntryAddr(j)
        BY <2>1, <1>2
      <3>2. InitChunk(j).previous_chunk = EntryAddr(i)
        BY <3>1, <1>2, <1>3
      <3> QED
        BY <3>1, <3>2, <1>1
    <2>2. ASSUME InitChunk(i).previous_chunk # NULL
          PROVE  /\ InitChunk(i).previous_chunk \in DOMAIN ch
                 /\ ch[InitChunk(i).previous_chunk].next_chunk = EntryAddr(i)
      <3>1. PICK j \in HeapEntries : Follows(j, i) /\ InitChunk(i).previous_chunk = EntryAddr(j)
        BY <2>2, <1>2
      <3>2. InitChunk(j).next_chunk = EntryAddr(i)
        BY <3>1, <1>2, <1>3
      <3> QED
        BY <3>1, <3>2, <1>1
    <2> QED
      BY <2>1, <2>2, <1>1
  <1>8. Ordered(ch)
    <2> SUFFICES ASSUME NEW i \in HeapEntries
                 PROVE  LET c == EntryAddr(i)
                            n == ch[c].next_chunk
                        IN  IF n = NULL THEN \A d \in DOMAIN ch : d <= c
                              ELSE End(ch, c) <= n /\ \A d \in DOMAIN ch : d <= c \/ n <= d
      BY <1>1 DEF Ordered
    <2> DEFINE later == {j \in HeapEntries : i < j}
    <2>0. End(ch, EntryAddr(i)) = Limit(i)
      BY <1>1, <1>2, EntryFacts DEF End
    <2>1. CASE later = {}
      <3>1. \A j \in HeapEntries : j <= i
        BY <2>1, EntryFacts
      <3>2. \A j \in HeapEntries : EntryAddr(j) <= EntryAddr(i)
        BY <3>1, EntryFacts
      <3>3. ~ \E j \in HeapEntries : Follows(i, j)
        BY <2>1 DEF Follows
      <3> QED
        BY <3>2, <3>3, <1>1, <1>2
    <2>2. CASE later # {}
      <3>1. PICK j \in later : \A k \in later : j <= k
        BY <2>2, LeastElement, EntryFacts
      <3>2. Follows(i, j)
        BY <3>1, EntryFacts DEF Follows
      <3>3. InitChunk(i).next_chunk = EntryAddr(j)
        BY <3>2, <1>2, <1>3
      <3>4. \A k \in HeapEntries : k <= i \/ j <= k
        BY <3>1, EntryFacts
      <3>5. \A k \in HeapEntries : EntryAddr(k) <= EntryAddr(i) \/ EntryAddr(j) <= EntryAddr(k)
        BY <3>4, EntryFacts
      <3>6. EntryAddr(j) # NULL /\ Limit(i) <= EntryAddr(j)
        BY EntryFacts DEF NULL
      <3> QED
        BY <2>0, <3>3, <3>5, <3>6, <1>1
    <2> QED
      BY <2>1, <2>2
  <1>9. InUse(ch) = {}
    BY <1>1, <1>2 DEF InUse
  <1> QED
    BY <1>5, <1>6, <1>7, <1>8, <1>9 DEF Sound, ch

-----------------------------------------------------------------------------
(***************************************************************************)
(* The blocks callers hold.                                                *)
(***************************************************************************)
HeldIn(ch, h) ==
    /\ h \in [DOMAIN h -> Nat]
    /\ DOMAIN h = {c + Header : c \in InUse(ch)}
    /\ \A p \in DOMAIN h : h[p] <= ch[p - Header].len

\* A pointer that is held stands for an allocated chunk.
LEMMA HeldChunk ==
    ASSUME NEW ch, Sound(ch), NEW h, HeldIn(ch, h), NEW p \in DOMAIN h
    PROVE  /\ p \in Nat /\ p - Header \in Nat /\ p = (p - Header) + Header
           /\ p - Header \in InUse(ch)
           /\ p - Header \in DOMAIN ch
           /\ ch[p - Header].len \in Nat
  <1>1. PICK c \in InUse(ch) : p = c + Header
    BY DEF HeldIn
  <1>2. c \in Nat /\ Header \in Nat /\ c \in DOMAIN ch /\ ch[c] \in Chunk
    BY SizesAssumption DEF InUse, Sound
  <1>3. p - Header = c
    BY <1>1, <1>2
  <1> QED
    BY <1>1, <1>2, <1>3 DEF Chunk

\* After malloc the held pointers still stand for the allocated chunks.
LEMMA AllocateHeld ==
    ASSUME NEW ch, Sound(ch), NEW h, HeldIn(ch, h),
           NEW c \in DOMAIN ch, NEW n \in Nat, Fits(ch, c, n)
    PROVE  /\ HeldIn(Allocate(ch, c, n), Extend(h, c + Header, n))
           /\ c + Header \notin DOMAIN h
  <1> DEFINE r == Allocate(ch, c, n)
             g == Extend(h, c + Header, n)
  <1>1. /\ InUse(r) = InUse(ch) \cup {c}
        /\ r[c].len >= n
        /\ \A d \in InUse(ch) : r[d].len = ch[d].len
    BY AllocateSound
  <1>2. c \in Nat /\ Header \in Nat /\ c \notin InUse(ch)
    BY SizesAssumption DEF Sound, Fits, InUse
  <1>3. c + Header \notin DOMAIN h
    <2> SUFFICES ASSUME c + Header \in DOMAIN h PROVE FALSE
      OBVIOUS
    <2>1. (c + Header) - Header \in InUse(ch)
      BY HeldChunk
    <2> QED
      BY <1>2, <2>1
  <1>4. DOMAIN g = DOMAIN h \cup {c + Header}
    BY DEF Extend
  <1>5. g[c + Header] = n /\ \A p \in DOMAIN h : g[p] = h[p]
    BY <1>3 DEF Extend
  <1>6. g \in [DOMAIN g -> Nat]
    <2>1. \A p \in DOMAIN g : g[p] \in Nat
      BY <1>4, <1>5 DEF HeldIn
    <2> QED
      BY <2>1 DEF Extend
  <1> HIDE DEF r, g
  <1>7. DOMAIN g = {d + Header : d \in InUse(r)}
    BY <1>1, <1>4 DEF HeldIn
  <1>8. ASSUME NEW p \in DOMAIN g
        PROVE  g[p] <= r[p - Header].len
    <2>1. CASE p = c + Header
      <3>1. p - Header = c
        BY <2>1, <1>2
      <3> QED
        BY <2>1, <3>1, <1>1, <1>5
    <2>2. CASE p \in DOMAIN h
      <3>1. p - Header \in InUse(ch)
        BY <2>2, HeldChunk
      <3> QED
        BY <2>2, <3>1, <1>1, <1>5 DEF HeldIn
    <2> QED
      BY <2>1, <2>2, <1>4
  <1>9. HeldIn(r, g)
    BY <1>6, <1>7, <1>8 DEF HeldIn
  <1> QED
    BY <1>3, <1>9 DEF r, g

\* After free the held pointers still stand for the allocated chunks.
LEMMA ReleaseHeld ==
    ASSUME NEW ch, Sound(ch), NEW h, HeldIn(ch, h), NEW p \in DOMAIN h
    PROVE  HeldIn(Release(ch, p - Header), Without(h, p))
  <1> DEFINE c == p - Header
             r == Release(ch, c)
             g == Without(h, p)
  <1>1. p \in Nat /\ c \in Nat /\ p = c + Header /\ c \in InUse(ch) /\ Header \in Nat
    BY HeldChunk, SizesAssumption
  <1>2. c \in DOMAIN ch /\ ch[c].allocated
    BY <1>1 DEF InUse
  <1> HIDE DEF c
  <1>3. Releases(ch, r, c)
    BY <1>2, ReleaseSound
  <1>4. DOMAIN g = DOMAIN h \ {p} /\ \A q \in DOMAIN g : g[q] = h[q]
    BY DEF Without
  <1>5. g \in [DOMAIN g -> Nat]
    <2>1. \A q \in DOMAIN g : g[q] \in Nat
      BY <1>4 DEF HeldIn
    <2> QED
      BY <2>1 DEF Without
  <1> HIDE DEF r, g
  <1>6. DOMAIN g = {d + Header : d \in InUse(r)}
    <2>1. InUse(ch) \subseteq Nat
      BY DEF InUse, Sound
    <2>2. \A d \in InUse(ch) : d + Header = p <=> d = c
      BY <1>1, <2>1
    <2>3. DOMAIN h = {d + Header : d \in InUse(ch)} /\ InUse(r) = InUse(ch) \ {c}
      BY <1>3 DEF HeldIn, Releases
    <2> QED
      BY <1>4, <2>2, <2>3
  <1>7. ASSUME NEW q \in DOMAIN g
        PROVE  g[q] <= r[q - Header].len
    <2>1. q \in DOMAIN h /\ q # p /\ g[q] = h[q]
      BY <1>4
    <2>2. q - Header \in InUse(ch) /\ q = (q - Header) + Header
      BY <2>1, HeldChunk
    <2>3. q - Header # c
      BY <1>1, <2>1, <2>2
    <2>4. r[q - Header].len = ch[q - Header].len
      BY <1>3, <2>2, <2>3 DEF Releases
    <2> QED
      BY <2>1, <2>4 DEF HeldIn
  <1>8. HeldIn(r, g)
    BY <1>5, <1>6, <1>7 DEF HeldIn
  <1> QED
    BY <1>8 DEF c, r, g

\* realloc: the new block is allocated before the old one is released.
LEMMA MoveHeld ==
    ASSUME NEW ch, Sound(ch), NEW h, HeldIn(ch, h), NEW p \in DOMAIN h,
           NEW c \in DOMAIN ch, NEW n \in Nat, Fits(ch, c, n)
    PROVE  LET a == Allocate(ch, c, n)
           IN  /\ Sound(a)
               /\ p - Header \in InUse(a)
               /\ HeldIn(Release(a, p - Header), Extend(Without(h, p), c + Header, n))
  <1> DEFINE a == Allocate(ch, c, n)
             g == Extend(h, c + Header, n)
  <1>1. Sound(a)
    BY AllocateSound
  <1>2. HeldIn(a, g) /\ c + Header \notin DOMAIN h
    BY AllocateHeld
  <1>3. p \in DOMAIN g /\ p # c + Header
    BY <1>2 DEF Extend
  <1>4. Extend(Without(h, p), c + Header, n) = Without(g, p)
    BY <1>3 DEF Extend, Without
  <1> HIDE DEF a, g
  <1>5. HeldIn(Release(a, p - Header), Without(g, p)) /\ p - Header \in InUse(a)
    BY <1>1, <1>2, <1>3, ReleaseHeld, HeldChunk
  <1> QED
    BY <1>1, <1>4, <1>5 DEF a

-----------------------------------------------------------------------------
(***************************************************************************)
(* The inductive invariant: the chain is sound and callers' blocks are the *)
(* chunks in use.                                                          *)
(***************************************************************************)
HInv ==
    /\ Sound(chunks)
    /\ HeldIn(chunks, held)
    /\ halted \in BOOLEAN

\* The inductive invariant holds initially.
LEMMA InitHInv == Init => HInv
  <1> SUFFICES ASSUME Init PROVE HInv
    OBVIOUS
  <1>1. Sound(chunks) /\ InUse(chunks) = {}
    BY InitSound DEF Init
  <1>2. DOMAIN held = {} /\ held \in [{} -> Nat]
    BY DEF Init
  <1>3. HeldIn(chunks, held)
    BY <1>1, <1>2 DEF HeldIn
  <1> QED
    BY <1>1, <1>3 DEF HInv, Init

\* Every call preserves the inductive invariant.
LEMMA NextHInv == HInv /\ [Next]_vars => HInv'
  <1> SUFFICES ASSUME HInv, [Next]_vars PROVE HInv'
    OBVIOUS
  <1> USE DEF HInv
  <1>0. Request \subseteq Nat
    BY SizesAssumption
  <1>1. ASSUME NEW n \in Request, Malloc(n) PROVE HInv'
    <2>1. PICK c \in DOMAIN chunks :
            /\ Fits(chunks, c, n)
            /\ chunks' = Allocate(chunks, c, n)
            /\ held' = Extend(held, c + Header, n)
      BY <1>1 DEF Malloc, IsFirstFit
    <2>2. Sound(chunks')
      BY <1>0, <2>1, AllocateSound
    <2>3. HeldIn(chunks', held')
      BY <1>0, <2>1, AllocateHeld
    <2> QED
      BY <1>1, <2>2, <2>3 DEF Malloc
  <1>2. ASSUME NEW n \in Request, MallocHalts(n) PROVE HInv'
    BY <1>2 DEF MallocHalts
  <1>3. ASSUME NEW p \in DOMAIN held, NEW n \in Request, ReallocStays(p, n)
        PROVE  HInv'
    <2>1. chunks' = chunks /\ held' = [held EXCEPT ![p] = n] /\ n <= chunks[p - Header].len
      BY <1>3 DEF ReallocStays
    <2>2. DOMAIN held' = DOMAIN held /\ held' \in [DOMAIN held -> Nat]
      BY <1>0, <2>1 DEF HeldIn
    <2>3. \A q \in DOMAIN held' : held'[q] <= chunks[q - Header].len
      BY <2>1, <2>2 DEF HeldIn
    <2>4. HeldIn(chunks', held')
      BY <2>1, <2>2, <2>3 DEF HeldIn
    <2> QED
      BY <1>3, <2>1, <2>4 DEF ReallocStays
  <1>4. ASSUME NEW p \in DOMAIN held, NEW n \in Request, ReallocMoves(p, n)
        PROVE  HInv'
    <2>1. PICK c \in DOMAIN chunks :
            /\ Fits(chunks, c, n)
            /\ chunks' = Release(Allocate(chunks, c, n), p - Header)
            /\ held' = Extend(Without(held, p), c + Header, n)
      BY <1>4 DEF ReallocMoves, IsFirstFit
    <2> DEFINE a == Allocate(chunks, c, n)
    <2>2. Sound(a) /\ p - Header \in InUse(a) /\ HeldIn(chunks', held')
      BY <1>0, <2>1, MoveHeld
    <2> HIDE DEF a
    <2>3. p - Header \in DOMAIN a /\ a[p - Header].allocated
      BY <2>2 DEF InUse
    <2>4. Sound(chunks')
      BY <2>1, <2>2, <2>3, ReleaseSound DEF a
    <2> QED
      BY <1>4, <2>2, <2>4 DEF ReallocMoves
  <1>5. ASSUME NEW p \in DOMAIN held, NEW n \in Request, ReallocHalts(p, n)
        PROVE  HInv'
    BY <1>5 DEF ReallocHalts
  <1>6. ASSUME NEW p \in DOMAIN held, Free(p) PROVE HInv'
    <2>1. chunks' = Release(chunks, p - Header) /\ held' = Without(held, p)
      BY <1>6 DEF Free
    <2>2. p - Header \in DOMAIN chunks /\ chunks[p - Header].allocated
      BY HeldChunk DEF InUse
    <2>3. Sound(chunks') /\ HeldIn(chunks', held')
      BY <2>1, <2>2, ReleaseSound, ReleaseHeld
    <2> QED
      BY <1>6, <2>3 DEF Free
  <1>7. CASE UNCHANGED vars
    BY <1>7 DEF vars
  <1> QED
    BY <1>1, <1>2, <1>3, <1>4, <1>5, <1>6, <1>7 DEF Next

\* The inductive invariant holds in every reachable state.
LEMMA HInvInvariant == Spec => []HInv
  BY InitHInv, NextHInv, PTL DEF Spec

(***************************************************************************)
(* Type correctness: lengths never go below zero (they are unsigned in the *)
(* code) and every link is an address or NULL.                             *)
(***************************************************************************)
THEOREM TypeCorrect == Spec => []TypeOK
  <1>1. HInv => TypeOK
    <2> SUFFICES ASSUME HInv PROVE TypeOK
      OBVIOUS
    <2>1. DOMAIN held \subseteq Nat
      BY HeldChunk DEF HInv
    <2> QED
      BY <2>1 DEF HInv, TypeOK, Sound, HeldIn
  <1> QED
    BY <1>1, HInvInvariant, PTL

(***************************************************************************)
(* malloc, realloc and free keep the chain doubly linked and in address    *)
(* order, whatever the memory map and whatever sequence of calls.          *)
(***************************************************************************)
THEOREM ChainSafe == Spec => [](ChainLinked /\ ChainOrdered)
  <1>1. HInv => ChainLinked /\ ChainOrdered
    BY DEF HInv, Sound, ChainLinked, ChainOrdered
  <1> QED
    BY <1>1, HInvInvariant, PTL

(***************************************************************************)
(* The allocated chunks are exactly the blocks callers hold, each at least *)
(* as long as its caller asked for.                                        *)
(***************************************************************************)
THEOREM HeldSafe == Spec => []HeldBlocks
  <1>1. HInv => HeldBlocks
    BY DEF HInv, HeldIn, HeldBlocks, InUse
  <1> QED
    BY <1>1, HInvInvariant, PTL

-----------------------------------------------------------------------------
(***************************************************************************)
(* Coalescing.                                                             *)
(***************************************************************************)

\* The free entries of the map do not touch: each is as long as it can be.
Apart == \A i, j \in HeapEntries : i < j => Limit(i) # EntryAddr(j)

\* Initially no two free chunks touch, if no two entries do.
LEMMA InitMerged == Apart => Merged(InitChunks)
  <1> SUFFICES ASSUME Apart, NEW i \in HeapEntries,
                      InitChunk(i).next_chunk # NULL
               PROVE  End(InitChunks, EntryAddr(i)) # InitChunk(i).next_chunk
    BY InitChunksAre DEF Merged
  <1>1. PICK j \in HeapEntries : Follows(i, j) /\ InitChunk(i).next_chunk = EntryAddr(j)
    BY DEF InitChunk
  <1>2. End(InitChunks, EntryAddr(i)) = Limit(i)
    <2>1. InitChunks[EntryAddr(i)] = InitChunk(i)
      BY InitChunksAre
    <2>2. InitChunk(i).len = EntryLen(i)
      BY DEF InitChunk
    <2> QED
      BY <2>1, <2>2, EntryFacts DEF End
  <1>3. Limit(i) # EntryAddr(j)
    BY <1>1 DEF Apart, Follows
  <1> QED
    BY <1>1, <1>2, <1>3

\* No call leaves two free chunks that touch.
LEMMA NextMerged == HInv /\ Coalesced /\ [Next]_vars => Coalesced'
  <1> SUFFICES ASSUME HInv, Merged(chunks), [Next]_vars PROVE Merged(chunks')
    BY DEF Coalesced
  <1>0. Request \subseteq Nat /\ Sound(chunks) /\ HeldIn(chunks, held)
    BY SizesAssumption DEF HInv
  <1>1. ASSUME NEW n \in Request, Malloc(n) PROVE Merged(chunks')
    BY <1>0, <1>1, AllocateSound DEF Malloc, IsFirstFit
  <1>2. ASSUME NEW p \in DOMAIN held, NEW n \in Request, ReallocMoves(p, n)
        PROVE  Merged(chunks')
    <2>1. PICK c \in DOMAIN chunks :
            /\ Fits(chunks, c, n)
            /\ chunks' = Release(Allocate(chunks, c, n), p - Header)
      BY <1>2 DEF ReallocMoves, IsFirstFit
    <2> DEFINE a == Allocate(chunks, c, n)
    <2>2. Sound(a) /\ Merged(a) /\ p - Header \in InUse(a)
      BY <1>0, <2>1, AllocateSound, MoveHeld
    <2> HIDE DEF a
    <2> QED
      BY <2>1, <2>2, ReleaseSound DEF InUse, a
  <1>3. ASSUME NEW p \in DOMAIN held, Free(p) PROVE Merged(chunks')
    <2>1. p - Header \in DOMAIN chunks /\ chunks[p - Header].allocated
      BY <1>0, HeldChunk DEF InUse
    <2> QED
      BY <1>0, <1>3, <2>1, ReleaseSound DEF Free
  <1>4. CASE UNCHANGED chunks
    BY <1>4
  <1> QED
    BY <1>1, <1>2, <1>3, <1>4
    DEF Next, MallocHalts, ReallocStays, ReallocHalts, vars

(***************************************************************************)
(* On a map whose free entries do not touch, no two free chunks ever do:   *)
(* one merge backwards and one forwards are enough for any order of frees. *)
(***************************************************************************)
THEOREM CoalescedSafe == ASSUME Apart PROVE Spec => []Coalesced
  <1>1. Init => Coalesced
    BY InitMerged DEF Init, Coalesced
  <1> QED
    BY <1>1, HInvInvariant, NextMerged, PTL DEF Spec

-----------------------------------------------------------------------------
\* Induction as a statement about a set of numbers.
LEMMA SetInduction ==
    ASSUME NEW S, 0 \in S, \A n \in S : n \in Nat => n + 1 \in S
    PROVE  Nat \subseteq S
  <1> SUFFICES ASSUME Nat \ S # {} PROVE FALSE
    OBVIOUS
  <1>1. PICK x \in Nat \ S : \A y \in Nat \ S : x <= y
    BY LeastElement
  <1>2. x # 0 /\ x - 1 \in Nat /\ ~(x <= x - 1) /\ (x - 1) + 1 = x
    BY <1>1
  <1>3. x - 1 \in S
    BY <1>1, <1>2
  <1> QED
    BY <1>1, <1>2, <1>3

\* A chain that a walk from start_chunk can meet all of.
Whole(ch) ==
    /\ Sound(ch)
    /\ IsFiniteSet(DOMAIN ch)
    /\ start_chunk \in DOMAIN ch
    /\ \A c \in DOMAIN ch : start_chunk <= c

-----------------------------------------------------------------------------
(***************************************************************************)
(* The walk.                                                               *)
(***************************************************************************)

\* at is the walk along ch up to step n.
Walks(at, ch, n) ==
    at = [k \in 0 .. n |-> IF k = 0 THEN start_chunk ELSE Neighbour(ch, at[k - 1])]

LEMMA WalksAt ==
    ASSUME NEW at, NEW ch, NEW n \in Nat, Walks(at, ch, n)
    PROVE  /\ DOMAIN at = 0 .. n
           /\ at[0] = start_chunk
           /\ \A k \in 0 .. n : k # 0 => at[k] = Neighbour(ch, at[k - 1])
  <1> DEFINE F == [k \in 0 .. n |-> IF k = 0 THEN start_chunk ELSE Neighbour(ch, at[k - 1])]
  <1>1. at = F
    BY DEF Walks
  <1>2. DOMAIN F = 0 .. n /\ F[0] = start_chunk
    OBVIOUS
  <1>3. \A k \in 0 .. n : k # 0 => F[k] = Neighbour(ch, at[k - 1])
    OBVIOUS
  <1> QED
    BY <1>1, <1>2, <1>3

LEMMA WalksExists ==
    ASSUME NEW ch, NEW n \in Nat
    PROVE  \E at : Walks(at, ch, n)
  <1> DEFINE S == {m \in Nat : \E at : Walks(at, ch, m)}
  <1>1. 0 \in S
    <2> DEFINE a == [k \in 0 .. 0 |-> start_chunk]
    <2>1. a = [k \in 0 .. 0 |-> IF k = 0 THEN start_chunk ELSE Neighbour(ch, a[k - 1])]
      OBVIOUS
    <2> HIDE DEF a
    <2>2. Walks(a, ch, 0)
      BY <2>1 DEF Walks
    <2> QED
      BY <2>2
  <1>2. ASSUME NEW m \in S, m \in Nat PROVE m + 1 \in S
    <2>1. PICK a : Walks(a, ch, m)
      BY <1>2
    <2>2. /\ DOMAIN a = 0 .. m /\ a[0] = start_chunk
          /\ \A k \in 0 .. m : k # 0 => a[k] = Neighbour(ch, a[k - 1])
      BY <1>2, <2>1, WalksAt
    <2> DEFINE d == [k \in 0 .. m + 1 |-> IF k = m + 1 THEN Neighbour(ch, a[m]) ELSE a[k]]
    <2>3. DOMAIN d = 0 .. m + 1 /\ d[m + 1] = Neighbour(ch, a[m]) /\ \A k \in 0 .. m : d[k] = a[k]
      BY <1>2
    <2>4. \A k \in 0 .. m + 1 : d[k] = IF k = 0 THEN start_chunk ELSE Neighbour(ch, d[k - 1])
      <3> SUFFICES ASSUME NEW k \in 0 .. m + 1
                   PROVE  d[k] = IF k = 0 THEN start_chunk ELSE Neighbour(ch, d[k - 1])
        OBVIOUS
      <3> HIDE DEF d
      <3>1. CASE k = 0
        BY <1>2, <2>2, <2>3, <3>1
      <3>2. CASE k # 0 /\ k # m + 1
        <4>1. k \in 0 .. m /\ k - 1 \in 0 .. m
          BY <1>2, <3>2
        <4> QED
          BY <2>2, <2>3, <3>2, <4>1
      <3>3. CASE k = m + 1
        <4>1. k - 1 = m /\ m \in 0 .. m /\ k # 0
          BY <1>2, <3>3
        <4> QED
          BY <2>3, <3>3, <4>1
      <3> QED
        BY <3>1, <3>2, <3>3
    <2>5. d = [k \in 0 .. m + 1 |-> IF k = 0 THEN start_chunk ELSE Neighbour(ch, d[k - 1])]
      <3> DEFINE G == [k \in 0 .. m + 1 |-> IF k = 0 THEN start_chunk ELSE Neighbour(ch, d[k - 1])]
      <3>1. DOMAIN G = 0 .. m + 1 /\ \A k \in 0 .. m + 1 : G[k] = d[k]
        BY <2>4
      <3> QED
        BY <3>1
    <2> HIDE DEF d
    <2>6. Walks(d, ch, m + 1)
      BY <2>5 DEF Walks
    <2>7. m + 1 \in Nat
      BY <1>2
    <2> QED
      BY <2>6, <2>7
  <1>3. Nat \subseteq S
    <2> HIDE DEF S
    <2> QED
      BY <1>1, <1>2, SetInduction
  <1> QED
    BY <1>3

\* Visit is such a walk.
LEMMA VisitWalks ==
    ASSUME NEW ch, Cardinality(DOMAIN ch) \in Nat
    PROVE  Walks(Visit(ch), ch, Cardinality(DOMAIN ch))
  <1> DEFINE n    == Cardinality(DOMAIN ch)
             D(d) == [k \in 0 .. n |-> IF k = 0 THEN start_chunk ELSE Neighbour(ch, d[k - 1])]
             v    == CHOOSE d : d = D(d)
  <1>1. Visit(ch) = v
    BY DEF Visit
  <1>2. PICK d : Walks(d, ch, n)
    BY WalksExists
  <1>3. d = D(d)
    BY <1>2 DEF Walks
  <1>4. v = D(v)
    BY <1>3
  <1> HIDE DEF v
  <1> QED
    BY <1>1, <1>4 DEF Walks

\* The chunks before d.
Below(ch, d) == {e \in DOMAIN ch : e < d}

\* Every chunk but the first comes after another.
LEMMA Predecessor ==
    ASSUME NEW ch, Whole(ch), NEW d \in DOMAIN ch, d # start_chunk
    PROVE  \E p \in DOMAIN ch : ch[p].next_chunk = d /\ Below(ch, d) = Below(ch, p) \cup {p}
  <1> DEFINE T == {d - e : e \in Below(ch, d)}
  <1>1. DOMAIN ch \subseteq Nat /\ start_chunk \in DOMAIN ch /\ start_chunk <= d
    BY DEF Whole, Sound
  <1>2. start_chunk \in Below(ch, d)
    BY <1>1 DEF Below
  <1>3. T \subseteq Nat /\ T # {}
    BY <1>1, <1>2 DEF Below
  <1>4. PICK x \in T : \A y \in T : x <= y
    BY <1>3, LeastElement
  <1>5. PICK p \in Below(ch, d) : x = d - p
    BY <1>4
  <1>6. p \in DOMAIN ch /\ p \in Nat /\ d \in Nat /\ p < d
    BY <1>1, <1>5 DEF Below
  <1>7. \A e \in Below(ch, d) : e <= p
    <2> SUFFICES ASSUME NEW e \in Below(ch, d) PROVE e <= p
      OBVIOUS
    <2>1. e \in Nat /\ d - p <= d - e
      BY <1>1, <1>4, <1>5 DEF Below
    <2> QED
      BY <1>6, <2>1
  <1> DEFINE n == ch[p].next_chunk
  <1>8. n # NULL /\ n <= d /\ n \in DOMAIN ch
    BY <1>6, Disjoint DEF Whole, Sound, Linked
  <1>9. p < n
    <2>1. End(ch, p) <= n
      BY <1>6, <1>8 DEF Whole, Sound, Ordered
    <2>2. ch[p].len \in Nat /\ Header \in Nat \ {0} /\ n \in Nat
      BY <1>1, <1>6, <1>8, SizesAssumption DEF Whole, Sound, Chunk
    <2> QED
      BY <1>6, <2>1, <2>2 DEF End
  <1>10. n = d
    <2> SUFFICES ASSUME n # d PROVE FALSE
      OBVIOUS
    <2>1. n \in Nat
      BY <1>1, <1>8
    <2>2. n \in Below(ch, d)
      BY <1>6, <1>8, <2>1 DEF Below
    <2> QED
      BY <1>6, <1>7, <1>9, <2>1, <2>2
  <1>11. Below(ch, d) = Below(ch, p) \cup {p}
    BY <1>1, <1>5, <1>6, <1>7 DEF Below
  <1> QED
    BY <1>6, <1>10, <1>11

\* The walk meets the chunk before which there are n others at step n.
LEMMA WalkMeets ==
    ASSUME NEW ch, Whole(ch), NEW d \in DOMAIN ch
    PROVE  \E k \in DOMAIN Visit(ch) : Visit(ch)[k] = d
  <1> DEFINE at == Visit(ch)
             N  == Cardinality(DOMAIN ch)
             R(e) == Cardinality(Below(ch, e))
  <1>1. N \in Nat /\ IsFiniteSet(DOMAIN ch) /\ DOMAIN ch \subseteq Nat \ {NULL}
    BY FS_CardinalityType DEF Whole, Sound
  <1>2. /\ DOMAIN at = 0 .. N /\ at[0] = start_chunk
        /\ \A k \in 0 .. N : k # 0 => at[k] = Neighbour(ch, at[k - 1])
    BY <1>1, VisitWalks, WalksAt
  <1>3. ASSUME NEW e \in DOMAIN ch
        PROVE  IsFiniteSet(Below(ch, e)) /\ R(e) \in Nat /\ R(e) <= N
    <2>1. Below(ch, e) \in SUBSET DOMAIN ch
      BY DEF Below
    <2> QED
      BY <1>1, <2>1, FS_Subset, FS_CardinalityType
  <1> HIDE DEF at, N
  <1> DEFINE S == {n \in Nat : n <= N => \A e \in DOMAIN ch : R(e) = n => at[n] = e}
  <1>4. 0 \in S
    <2> SUFFICES ASSUME NEW e \in DOMAIN ch, R(e) = 0 PROVE at[0] = e
      OBVIOUS
    <2>1. Below(ch, e) = {}
      BY <1>3, FS_EmptySet
    <2>2. start_chunk \in DOMAIN ch /\ start_chunk <= e /\ start_chunk \in Nat /\ e \in Nat
      BY <1>1 DEF Whole
    <2> QED
      BY <1>2, <2>1, <2>2 DEF Below
  <1>5. ASSUME NEW n \in S, n \in Nat PROVE n + 1 \in S
    <2> SUFFICES ASSUME n + 1 <= N, NEW e \in DOMAIN ch, R(e) = n + 1 PROVE at[n + 1] = e
      BY <1>5
    <2>1. e # start_chunk
      <3> SUFFICES ASSUME e = start_chunk PROVE FALSE
        OBVIOUS
      <3>1. Below(ch, e) = {}
        <4>1. \A c \in DOMAIN ch : e <= c /\ e \in Nat /\ c \in Nat
          BY <1>1 DEF Whole
        <4> QED
          BY <4>1 DEF Below
      <3>2. R(e) = 0
        BY <3>1, FS_EmptySet
      <3> QED
        BY <1>5, <3>2
    <2>2. PICK p \in DOMAIN ch : ch[p].next_chunk = e /\ Below(ch, e) = Below(ch, p) \cup {p}
      BY <2>1, Predecessor
    <2>3. p \notin Below(ch, p)
      BY <1>1 DEF Below
    <2>4. R(e) = R(p) + 1
      BY <1>3, <2>2, <2>3, FS_AddElement
    <2>5. R(p) = n
      BY <1>3, <1>5, <2>4
    <2>6. n \in 0 .. N /\ n + 1 \in 0 .. N /\ n + 1 # 0 /\ (n + 1) - 1 = n /\ n <= N
      BY <1>1, <1>5 DEF N
    <2>7. at[n] = p
      BY <2>5, <2>6
    <2>8. at[n + 1] = Neighbour(ch, p)
      BY <1>2, <2>6, <2>7
    <2>9. p # NULL
      BY <1>1
    <2> QED
      BY <2>2, <2>8, <2>9 DEF Neighbour
  <1>6. Nat \subseteq S
    <2> HIDE DEF S
    <2> QED
      BY <1>4, <1>5, SetInduction
  <1>7. R(d) \in S /\ R(d) \in 0 .. N
    BY <1>1, <1>3, <1>6 DEF N
  <1> QED
    BY <1>2, <1>7 DEF at

\* It meets nothing else.
LEMMA WalkStays ==
    ASSUME NEW ch, Whole(ch), NEW k \in DOMAIN Visit(ch)
    PROVE  Visit(ch)[k] \in DOMAIN ch \cup {NULL}
  <1> DEFINE at == Visit(ch)
             N  == Cardinality(DOMAIN ch)
             S == {n \in Nat : n <= N => at[n] \in DOMAIN ch \cup {NULL}}
  <1>1. N \in Nat
    BY FS_CardinalityType DEF Whole
  <1>2. /\ DOMAIN at = 0 .. N /\ at[0] = start_chunk
        /\ \A n \in 0 .. N : n # 0 => at[n] = Neighbour(ch, at[n - 1])
    BY <1>1, VisitWalks, WalksAt
  <1> HIDE DEF at, N
  <1>3. 0 \in S
    BY <1>2 DEF Whole
  <1>4. ASSUME NEW n \in S, n \in Nat PROVE n + 1 \in S
    <2> SUFFICES ASSUME n + 1 <= N PROVE at[n + 1] \in DOMAIN ch \cup {NULL}
      BY <1>4
    <2>1. n + 1 \in 0 .. N /\ n + 1 # 0 /\ (n + 1) - 1 = n /\ n <= N
      BY <1>1, <1>4 DEF N
    <2>2. at[n + 1] = Neighbour(ch, at[n]) /\ at[n] \in DOMAIN ch \cup {NULL}
      BY <1>2, <2>1
    <2> QED
      BY <2>2 DEF Neighbour, Whole, Sound, Linked
  <1>5. Nat \subseteq S
    <2> HIDE DEF S
    <2> QED
      BY <1>3, <1>4, SetInduction
  <1>6. k \in Nat /\ k <= N
    BY <1>1, <1>2 DEF at, N
  <1> QED
    BY <1>5, <1>6 DEF at

LEMMA WholeReachable ==
    ASSUME NEW ch, Whole(ch)
    PROVE  {Visit(ch)[k] : k \in DOMAIN Visit(ch)} \ {NULL} = DOMAIN ch
  <1> DEFINE at == Visit(ch)
  <1>1. \A d \in DOMAIN ch : \E k \in DOMAIN at : at[k] = d
    BY WalkMeets
  <1>2. \A k \in DOMAIN at : at[k] \in DOMAIN ch \cup {NULL}
    BY WalkStays
  <1>3. NULL \notin DOMAIN ch
    BY DEF Whole, Sound
  <1> HIDE DEF at
  <1>4. {at[k] : k \in DOMAIN at} \ {NULL} = DOMAIN ch
    BY <1>1, <1>2, <1>3
  <1> QED
    BY <1>4 DEF at

-----------------------------------------------------------------------------
(***************************************************************************)
(* malloc and free keep the chain whole.                                   *)
(***************************************************************************)
LEMMA SplitWhole ==
    ASSUME NEW ch, Whole(ch), NEW c \in DOMAIN ch, NEW n \in Nat, ch[c].len > n + Header
    PROVE  Whole(Split(ch, c, n))
  <1> DEFINE s   == Split(ch, c, n)
             new == c + n + Header
  <1>1. Cut(ch, s, c, n)
    BY SplitSound DEF Whole
  <1>2. c \in Nat /\ Header \in Nat /\ start_chunk \in Nat /\ start_chunk <= c
    BY SizesAssumption DEF Whole, Sound
  <1> HIDE DEF s
  <1>3. DOMAIN s = DOMAIN ch \cup {new} /\ Sound(s)
    BY <1>1 DEF Cut
  <1>4. IsFiniteSet(DOMAIN s)
    BY <1>3, FS_AddElement DEF Whole
  <1>5. start_chunk <= new
    BY <1>2
  <1> QED
    BY <1>3, <1>4, <1>5 DEF Whole, s

LEMMA AbsorbWhole ==
    ASSUME NEW ch, Whole(ch), NEW c \in DOMAIN ch, ch[c].next_chunk # NULL
    PROVE  Whole(Absorb(ch, c))
  <1> DEFINE r    == Absorb(ch, c)
             gone == ch[c].next_chunk
  <1>1. Absorbed(ch, r, c)
    BY AbsorbSound DEF Whole
  <1>2. c \in Nat /\ Header \in Nat /\ ch[c].len \in Nat
    BY SizesAssumption DEF Whole, Sound, Chunk
  <1>3. gone \in DOMAIN ch /\ DOMAIN r = DOMAIN ch \ {gone} /\ Sound(r)
    BY <1>1 DEF Absorbed
  <1>4. gone \in Nat
    BY <1>3 DEF Whole, Sound
  <1>5. gone # start_chunk
    <2>1. End(ch, c) <= gone
      BY DEF Whole, Sound, Ordered
    <2>2. c < gone
      BY <1>2, <1>4, <2>1, SizesAssumption DEF End
    <2>3. start_chunk <= c /\ start_chunk \in Nat
      BY SizesAssumption DEF Whole, start_chunk
    <2> QED
      BY <1>2, <1>4, <2>2, <2>3
  <1> HIDE DEF r
  <1>6. IsFiniteSet(DOMAIN r)
    BY <1>3, FS_RemoveElement DEF Whole
  <1> QED
    BY <1>3, <1>5, <1>6 DEF Whole, r

LEMMA AllocateWhole ==
    ASSUME NEW ch, Whole(ch), NEW c \in DOMAIN ch, NEW n \in Nat
    PROVE  Whole(Allocate(ch, c, n))
  <1> DEFINE s == IF ch[c].len > n + Header THEN Split(ch, c, n) ELSE ch
             r == Allocate(ch, c, n)
  <1>1. r = Mark(s, c, TRUE)
    BY DEF Allocate, Mark
  <1>2. Whole(s)
    <2>1. CASE ch[c].len > n + Header
      BY <2>1, SplitWhole
    <2>2. CASE ~(ch[c].len > n + Header)
      BY <2>2
    <2> QED
      BY <2>1, <2>2
  <1>3. c \in DOMAIN s
    BY DEF Split
  <1> HIDE DEF s, r
  <1>4. Marked(s, r, c, TRUE)
    BY <1>1, <1>2, <1>3, MarkSound DEF Whole
  <1> QED
    BY <1>2, <1>4 DEF Marked, Whole, r

LEMMA MergeNextWhole ==
    ASSUME NEW ch, Whole(ch), NEW c \in DOMAIN ch
    PROVE  Whole(MergeNext(ch, c))
  <1>1. CASE IsFree(ch, ch[c].next_chunk)
    BY <1>1, AbsorbWhole DEF MergeNext, IsFree
  <1>2. CASE ~IsFree(ch, ch[c].next_chunk)
    BY <1>2 DEF MergeNext
  <1> QED
    BY <1>1, <1>2

LEMMA ReleaseWhole ==
    ASSUME NEW ch, Whole(ch), NEW c \in DOMAIN ch
    PROVE  Whole(Release(ch, c))
  <1> DEFINE r == Release(ch, c)
             f == Mark(ch, c, FALSE)
             p == ch[c].previous_chunk
             a == Absorb(f, p)
  <1>1. r = IF IsFree(f, p) THEN MergeNext(a, p) ELSE MergeNext(f, c)
    BY DEF Release, Mark
  <1>2. Sound(ch)
    BY DEF Whole
  <1>3. Marked(ch, f, c, FALSE)
    BY <1>2, MarkSound
  <1> HIDE DEF f, r
  <1>4. Whole(f) /\ DOMAIN f = DOMAIN ch /\ Sound(f)
    BY <1>3 DEF Marked, Whole
  <1>5. CASE IsFree(f, p)
    <2>1. p # NULL
      BY <1>5 DEF IsFree
    <2>2. p \in DOMAIN ch /\ ch[p].next_chunk = c
      BY <1>2, <2>1 DEF Sound, Linked
    <2>3. p \in DOMAIN f /\ f[p].next_chunk = c
      BY <1>3, <2>2 DEF Marked
    <2>4. c # NULL
      BY <1>2 DEF Sound
    <2> HIDE DEF p, a
    <2>5. Whole(a)
      BY <1>4, <2>3, <2>4, AbsorbWhole DEF a
    <2>6. p \in DOMAIN a
      <3>1. Absorbed(f, a, p)
        BY <1>4, <2>3, <2>4, AbsorbSound DEF a
      <3> QED
        BY <2>3, <3>1 DEF Absorbed
    <2> QED
      BY <1>1, <1>5, <2>5, <2>6, MergeNextWhole DEF r
  <1>6. CASE ~IsFree(f, p)
    BY <1>1, <1>4, <1>6, MergeNextWhole DEF r
  <1> QED
    BY <1>5, <1>6

-----------------------------------------------------------------------------
\* malloc_init makes a chunk of each entry, and the start chunk is the first.
LEMMA InitWhole == Whole(InitChunks)
  <1> DEFINE g == [i \in HeapEntries |-> EntryAddr(i)]
             Starts == {EntryAddr(i) : i \in HeapEntries}
  <1>1. DOMAIN InitChunks = Starts
    BY InitChunksAre
  <1>2. IsFiniteSet(HeapEntries)
    <2>1. HeapEntries \in SUBSET DOMAIN Mmap
      BY DEF HeapEntries, Entries
    <2> QED
      BY <2>1, MmapAssumption, FS_Subset
  <1>3. g \in Surjection(HeapEntries, Starts)
    BY DEF Surjection
  <1>4. IsFiniteSet(Starts)
    BY <1>2, <1>3, FS_Surjection
  <1>5. PICK i \in Entries : IsStartEntry(i)
    BY StartAssumption
  <1>6. i \in HeapEntries
    <2>1. i \in Nat
      BY MmapAssumption DEF Entries
    <2>2. i <= i
      BY <2>1
    <2> QED
      BY <1>5, <2>2 DEF HeapEntries
  <1>7. start_chunk \in Starts
    BY <1>5, <1>6 DEF EntryAddr, start_chunk
  <1>8. \A c \in Starts : start_chunk <= c
    BY EntryFacts DEF start_chunk
  <1> QED
    BY <1>1, <1>4, <1>7, <1>8, InitSound DEF Whole

\* Every call keeps the chain whole.
LEMMA NextWhole == HInv /\ Whole(chunks) /\ [Next]_vars => Whole(chunks)'
  <1> SUFFICES ASSUME HInv, Whole(chunks), [Next]_vars
               PROVE  Whole(chunks')
    OBVIOUS
  <1>0. Request \subseteq Nat /\ Sound(chunks) /\ HeldIn(chunks, held)
    BY SizesAssumption DEF HInv
  <1>1. ASSUME NEW n \in Request, Malloc(n) PROVE Whole(chunks')
    BY <1>0, <1>1, AllocateWhole DEF Malloc
  <1>2. ASSUME NEW p \in DOMAIN held, NEW n \in Request, ReallocMoves(p, n)
        PROVE  Whole(chunks')
    <2>1. PICK c \in DOMAIN chunks :
            /\ Fits(chunks, c, n)
            /\ chunks' = Release(Allocate(chunks, c, n), p - Header)
      BY <1>2 DEF ReallocMoves, IsFirstFit
    <2> DEFINE a == Allocate(chunks, c, n)
    <2>2. p - Header \in InUse(a)
      BY <1>0, <2>1, MoveHeld
    <2>3. Whole(a)
      BY <1>0, <2>1, AllocateWhole
    <2> HIDE DEF a
    <2>4. p - Header \in DOMAIN a
      BY <2>2 DEF InUse
    <2> QED
      BY <2>1, <2>3, <2>4, ReleaseWhole DEF a
  <1>3. ASSUME NEW p \in DOMAIN held, Free(p) PROVE Whole(chunks')
    <2>1. p - Header \in DOMAIN chunks
      BY <1>0, HeldChunk
    <2> QED
      BY <1>3, <2>1, ReleaseWhole DEF Free
  <1>4. chunks' = chunks => Whole(chunks')
    OBVIOUS
  <1>5. ASSUME NEW n \in Request, MallocHalts(n) PROVE chunks' = chunks
    BY <1>5 DEF MallocHalts
  <1>6. ASSUME NEW p \in DOMAIN held, NEW n \in Request, ReallocStays(p, n) \/ ReallocHalts(p, n)
        PROVE  chunks' = chunks
    BY <1>6 DEF ReallocStays, ReallocHalts
  <1>7. CASE Next
    BY <1>1, <1>2, <1>3, <1>4, <1>5, <1>6, <1>7 DEF Next
  <1>8. CASE UNCHANGED vars
    BY <1>4, <1>8 DEF vars
  <1> QED
    BY <1>7, <1>8

(***************************************************************************)
(* For every memory map malloc's walk from start_chunk meets every chunk,  *)
(* those that free has merged across a hole included.                      *)
(***************************************************************************)
THEOREM ReachableSafe == Spec => []Reachable
  <1>1. Init => Whole(chunks)
    BY InitWhole DEF Init
  <1>2. Whole(chunks) => Reachable
    BY WholeReachable DEF Reachable
  <1> QED
    BY <1>1, <1>2, NextWhole, HInvInvariant, PTL DEF Spec

\* If no two entries of the memory map touch, malloc, realloc and free keep the
\* heap in one piece (ChainIntact): linked, ordered, merged, complete and in step
\* with what callers hold.
THEOREM ChainIntactSafe == ASSUME Apart PROVE Spec => []ChainIntact
  <1>1. ChainLinked /\ ChainOrdered /\ Coalesced /\ HeldBlocks /\ Reachable => ChainIntact
    BY DEF ChainIntact
  <1> QED
    BY <1>1, ChainSafe, HeldSafe, CoalescedSafe, ReachableSafe, PTL

-----------------------------------------------------------------------------
(***************************************************************************)
(* A memory map with one usable region, where chunks that are neighbours   *)
(* in the chain also touch in memory.  With a second region they need not, *)
(* and Backed is violated (run heap_gap).                                  *)
(***************************************************************************)

\* The heap has one region, which ends at lim.
OneRegionTo(lim) == \E i \in HeapEntries : HeapEntries = {i} /\ lim = Limit(i)

\* The chunks tile the memory from KERNEL_END to lim.
Tiled(ch, lim) ==
    /\ KernelEnd \in DOMAIN ch
    /\ \A c \in DOMAIN ch :
          /\ KernelEnd <= c
          /\ End(ch, c) <= lim
          /\ End(ch, c) = IF ch[c].next_chunk = NULL THEN lim ELSE ch[c].next_chunk

\* Whether chunks are allocated does not matter to the tiling.
LEMMA MarkTiled ==
    ASSUME NEW ch, NEW m, NEW c, NEW b, NEW lim, Marked(ch, m, c, b), Tiled(ch, lim)
    PROVE  Tiled(m, lim)
  BY DEF Marked, Tiled, End

\* A split tiles the chunk it cuts.
LEMMA CutTiled ==
    ASSUME NEW ch, NEW s, NEW c \in DOMAIN ch, NEW n \in Nat, NEW lim \in Nat,
           Sound(ch), Sound(s), Cut(ch, s, c, n), Tiled(ch, lim)
    PROVE  Tiled(s, lim)
  <1>1. c \in Nat /\ Header \in Nat /\ KernelEnd \in Nat /\ KernelEnd <= c
    BY SizesAssumption DEF Sound, Tiled
  <1> DEFINE new == c + n + Header
  <1>2. KernelEnd \in DOMAIN s
    BY DEF Tiled, Cut
  <1>3. KernelEnd <= new /\ new # NULL /\ End(s, c) = new
    BY <1>1, SizesAssumption DEF Cut, End, NULL
  <1>4. ASSUME NEW d \in DOMAIN s
        PROVE  /\ KernelEnd <= d
               /\ End(s, d) <= lim
               /\ End(s, d) = IF s[d].next_chunk = NULL THEN lim ELSE s[d].next_chunk
    <2>1. CASE d = new
      BY <2>1, <1>3 DEF Cut, Tiled
    <2>2. CASE d = c
      <3>1. s[new].len \in Nat
        BY DEF Sound, Chunk, Cut
      <3>2. new <= End(s, new) /\ End(s, new) <= lim /\ End(s, new) \in Int
        BY <1>1, <3>1 DEF Cut, Tiled, End
      <3> QED
        BY <2>2, <1>1, <1>3, <3>2 DEF Cut
    <2>3. CASE d \in DOMAIN ch /\ d # c
      BY <2>3 DEF Cut, Tiled, End
    <2> QED
      BY <2>1, <2>2, <2>3 DEF Cut
  <1> QED
    BY <1>2, <1>4 DEF Tiled

\* A merge of touching chunks tiles what the two covered.
LEMMA AbsorbTiled ==
    ASSUME NEW ch, NEW r, NEW c \in DOMAIN ch, NEW lim, Sound(ch),
           ch[c].next_chunk # NULL, Absorbed(ch, r, c), Tiled(ch, lim)
    PROVE  Tiled(r, lim)
  <1> DEFINE gone == ch[c].next_chunk
  <1>1. gone \in DOMAIN ch /\ End(ch, c) = gone /\ gone # c
    BY DEF Absorbed, Tiled
  <1>2. gone # KernelEnd
    <2>1. c \in Nat /\ gone \in Nat /\ KernelEnd \in Nat /\ Header \in Nat /\ ch[c].len \in Nat
      BY <1>1, SizesAssumption DEF Sound, Chunk
    <2>2. KernelEnd <= c /\ c < gone
      BY <1>1, <2>1, SizesAssumption DEF Tiled, End
    <2> QED
      BY <2>1, <2>2
  <1>3. \A d \in DOMAIN r : /\ KernelEnd <= d
                            /\ End(r, d) <= lim
                            /\ End(r, d) = IF r[d].next_chunk = NULL THEN lim ELSE r[d].next_chunk
    BY <1>1 DEF Absorbed, Tiled, End
  <1> QED
    BY <1>2, <1>3 DEF Tiled, Absorbed

\* malloc keeps the region tiled.
LEMMA AllocateTiled ==
    ASSUME NEW ch, NEW lim \in Nat, Sound(ch), Tiled(ch, lim), NEW c \in DOMAIN ch, NEW n \in Nat
    PROVE  Tiled(Allocate(ch, c, n), lim)
  <1> DEFINE s == IF ch[c].len > n + Header THEN Split(ch, c, n) ELSE ch
  <1>1. Allocate(ch, c, n) = Mark(s, c, TRUE)
    BY DEF Allocate, Mark
  <1>2. Tiled(s, lim) /\ Sound(s) /\ c \in DOMAIN s
    <2>1. CASE ch[c].len > n + Header
      <3>1. Cut(ch, s, c, n)
        BY <2>1, SplitSound
      <3> HIDE DEF s
      <3>2. Tiled(s, lim)
        BY <3>1, CutTiled DEF Cut
      <3> QED
        BY <3>1, <3>2 DEF Cut
    <2>2. CASE ~(ch[c].len > n + Header)
      BY <2>2
    <2> QED
      BY <2>1, <2>2
  <1> HIDE DEF s
  <1>3. Marked(s, Mark(s, c, TRUE), c, TRUE)
    BY <1>2, MarkSound
  <1> QED
    BY <1>1, <1>2, <1>3, MarkTiled

\* free's forward merge keeps the region tiled.
LEMMA MergeNextTiled ==
    ASSUME NEW ch, NEW lim, Sound(ch), Tiled(ch, lim), NEW c \in DOMAIN ch
    PROVE  Tiled(MergeNext(ch, c), lim)
  <1>1. CASE IsFree(ch, ch[c].next_chunk)
    <2>1. MergeNext(ch, c) = Absorb(ch, c) /\ ch[c].next_chunk # NULL
      BY <1>1 DEF MergeNext, IsFree
    <2>2. Absorbed(ch, Absorb(ch, c), c)
      BY <2>1, AbsorbSound
    <2> QED
      BY <2>1, <2>2, AbsorbTiled
  <1>2. CASE ~IsFree(ch, ch[c].next_chunk)
    BY <1>2 DEF MergeNext
  <1> QED
    BY <1>1, <1>2

\* free keeps the region tiled.
LEMMA ReleaseTiled ==
    ASSUME NEW ch, NEW lim, Sound(ch), Tiled(ch, lim), NEW c \in DOMAIN ch
    PROVE  Tiled(Release(ch, c), lim)
  <1> DEFINE f == Mark(ch, c, FALSE)
             p == ch[c].previous_chunk
  <1>1. Marked(ch, f, c, FALSE)
    BY MarkSound
  <1>2. Release(ch, c) = IF IsFree(f, p) THEN MergeNext(Absorb(f, p), p) ELSE MergeNext(f, c)
    BY DEF Release, Mark
  <1> HIDE DEF f
  <1>3. Sound(f) /\ Tiled(f, lim) /\ c \in DOMAIN f
    BY <1>1, MarkTiled DEF Marked
  <1>4. CASE IsFree(f, p)
    <2> DEFINE a == Absorb(f, p)
    <2>1. p # NULL /\ p \in DOMAIN ch /\ ch[p].next_chunk = c /\ c # NULL
      BY <1>4 DEF IsFree, Sound, Linked
    <2>2. p \in DOMAIN f /\ f[p].next_chunk # NULL /\ f[p].next_chunk = c
      BY <1>1, <2>1 DEF Marked
    <2>3. Absorbed(f, a, p)
      BY <1>3, <2>2, AbsorbSound
    <2> HIDE DEF a
    <2>4. Tiled(a, lim)
      BY <1>3, <2>2, <2>3, AbsorbTiled
    <2>5. Sound(a) /\ p \in DOMAIN a
      BY <2>2, <2>3 DEF Absorbed
    <2> QED
      BY <1>2, <1>4, <2>4, <2>5, MergeNextTiled DEF a
  <1>5. CASE ~IsFree(f, p)
    BY <1>2, <1>3, <1>5, MergeNextTiled
  <1> QED
    BY <1>4, <1>5

-----------------------------------------------------------------------------
(***************************************************************************)
(* The invariant on one region.                                            *)
(***************************************************************************)
LEMMA OneEntryStarts ==
    ASSUME NEW i \in HeapEntries, HeapEntries = {i}
    PROVE  IsStartEntry(i) /\ EntryAddr(i) = KernelEnd
  <1>1. PICK s \in Entries : s <= i /\ IsStartEntry(s)
    BY DEF HeapEntries
  <1>2. s \in HeapEntries
    BY <1>1, MmapAssumption DEF HeapEntries, Entries
  <1> QED
    BY <1>1, <1>2 DEF EntryAddr

\* With one entry malloc_init makes one chunk that fills it.
LEMMA InitChunksOne ==
    ASSUME NEW lim, OneRegionTo(lim)
    PROVE  /\ DOMAIN InitChunks = {KernelEnd}
           /\ InitChunks[KernelEnd] =
                [previous_chunk |-> NULL, next_chunk |-> NULL, allocated |-> FALSE,
                 len |-> lim - KernelEnd - Header]
  <1>1. PICK i \in HeapEntries : HeapEntries = {i} /\ lim = Limit(i)
    BY DEF OneRegionTo
  <1>2. EntryAddr(i) = KernelEnd
    BY <1>1, OneEntryStarts
  <1>3. ~(\E j \in HeapEntries : Follows(j, i)) /\ ~(\E j \in HeapEntries : Follows(i, j))
    BY <1>1, EntryFacts DEF Follows
  <1>4. InitChunk(i) = [previous_chunk |-> NULL, next_chunk |-> NULL, allocated |-> FALSE,
                        len |-> lim - KernelEnd - Header]
    BY <1>1, <1>2, <1>3 DEF InitChunk, EntryLen
  <1> QED
    BY <1>1, <1>2, <1>4, InitChunksAre

\* That one chunk tiles the region.
LEMMA InitTiled ==
    ASSUME NEW lim, OneRegionTo(lim), Init
    PROVE  Tiled(chunks, lim)
  <1>1. lim \in Nat /\ KernelEnd \in Nat /\ Header \in Nat
    BY EntryFacts, SizesAssumption DEF OneRegionTo
  <1>2. DOMAIN chunks = {KernelEnd} /\ chunks[KernelEnd].next_chunk = NULL
        /\ chunks[KernelEnd].len = lim - KernelEnd - Header
    <2>1. chunks = InitChunks
      BY DEF Init
    <2>2. DOMAIN chunks = {KernelEnd}
      BY <2>1, InitChunksOne
    <2>3. chunks[KernelEnd] = [previous_chunk |-> NULL, next_chunk |-> NULL,
                               allocated |-> FALSE, len |-> lim - KernelEnd - Header]
      BY <2>1, InitChunksOne
    <2> QED
      BY <2>2, <2>3
  <1>3. End(chunks, KernelEnd) = lim
    BY <1>1, <1>2 DEF End
  <1> QED
    BY <1>1, <1>2, <1>3 DEF Tiled

\* Every call keeps the region tiled.
LEMMA NextTiled ==
    ASSUME NEW lim \in Nat, HInv, Tiled(chunks, lim), [Next]_vars
    PROVE  Tiled(chunks', lim)
  <1>0. Request \subseteq Nat /\ Sound(chunks) /\ HeldIn(chunks, held)
    BY SizesAssumption DEF HInv
  <1>1. ASSUME NEW n \in Request, Malloc(n) PROVE Tiled(chunks', lim)
    BY <1>0, <1>1, AllocateTiled DEF Malloc
  <1>2. ASSUME NEW p \in DOMAIN held, NEW n \in Request, ReallocMoves(p, n)
        PROVE  Tiled(chunks', lim)
    <2>1. PICK c \in DOMAIN chunks :
            /\ Fits(chunks, c, n)
            /\ chunks' = Release(Allocate(chunks, c, n), p - Header)
      BY <1>2 DEF ReallocMoves, IsFirstFit
    <2> DEFINE a == Allocate(chunks, c, n)
    <2>2. Sound(a) /\ Tiled(a, lim) /\ p - Header \in InUse(a)
      BY <1>0, <2>1, AllocateTiled, MoveHeld
    <2> HIDE DEF a
    <2> QED
      BY <2>1, <2>2, ReleaseTiled DEF InUse, a
  <1>3. ASSUME NEW p \in DOMAIN held, Free(p) PROVE Tiled(chunks', lim)
    <2>1. p - Header \in DOMAIN chunks
      BY <1>0, HeldChunk
    <2> QED
      BY <1>0, <1>3, <2>1, ReleaseTiled DEF Free
  <1>4. CASE UNCHANGED chunks
    BY <1>4
  <1> QED
    BY <1>1, <1>2, <1>3, <1>4
    DEF Next, MallocHalts, ReallocStays, ReallocHalts, vars

\* The end of the region is an address.
LEMMA LimitNat == \A lim : OneRegionTo(lim) => lim \in Nat
  BY EntryFacts DEF OneRegionTo

\* The region is tiled in every reachable state.
LEMMA TiledInvariant ==
    ASSUME NEW CONSTANT lim, OneRegionTo(lim)
    PROVE  Spec => [](HInv /\ Tiled(chunks, lim))
  <1>1. Init => Tiled(chunks, lim)
    BY InitTiled
  <1>2. HInv /\ Tiled(chunks, lim) /\ [Next]_vars => Tiled(chunks, lim)'
    BY NextTiled, LimitNat
  <1> QED
    BY <1>1, <1>2, HInvInvariant, PTL DEF Spec

\* In a tiled region every byte belongs to the last chunk that starts before it.
LEMMA TiledCovers ==
    ASSUME NEW ch, NEW lim \in Nat, Sound(ch), Tiled(ch, lim), NEW b \in KernelEnd .. lim - 1
    PROVE  \E c \in DOMAIN ch : b \in c .. End(ch, c) - 1
  <1>1. /\ KernelEnd \in Nat /\ b \in Nat /\ KernelEnd <= b /\ b < lim
        /\ Header \in Nat \ {0} /\ DOMAIN ch \subseteq Nat /\ KernelEnd \in DOMAIN ch
    BY SizesAssumption DEF Sound, Tiled
  <1> DEFINE S == {k \in Nat : \E c \in DOMAIN ch : c <= b /\ k = b - c}
  <1>2. S \in SUBSET Nat /\ b - KernelEnd \in S
    BY <1>1
  <1>3. PICK k \in S : \A j \in S : k <= j
    <2> HIDE DEF S
    <2> QED
      BY <1>2, LeastElement
  <1>4. PICK c \in DOMAIN ch : c <= b /\ k = b - c
    BY <1>3
  <1>5. \A d \in DOMAIN ch : d <= b => d <= c
    <2> SUFFICES ASSUME NEW d \in DOMAIN ch, d <= b PROVE d <= c
      OBVIOUS
    <2>1. d \in Nat /\ c \in Nat
      BY <1>1
    <2>2. b - d \in S
      BY <1>1, <2>1
    <2> QED
      BY <1>1, <1>3, <1>4, <2>1, <2>2
  <1> HIDE DEF S
  <1>6. c \in Nat /\ ch[c].len \in Nat /\ ch[c].next_chunk \in Nat
    BY <1>1 DEF Sound, Chunk
  <1>7. End(ch, c) \in Nat /\ c < End(ch, c)
    BY <1>1, <1>6 DEF End
  <1>8. b < End(ch, c)
    <2>1. CASE ch[c].next_chunk = NULL
      <3>1. End(ch, c) = lim
        BY <2>1 DEF Tiled
      <3> QED
        BY <1>1, <3>1
    <2>2. CASE ch[c].next_chunk # NULL
      <3>1. End(ch, c) = ch[c].next_chunk
        BY <2>2 DEF Tiled
      <3>2. ch[c].next_chunk \in DOMAIN ch
        BY <2>2 DEF Sound, Linked
      <3>3. ~(End(ch, c) <= b)
        BY <1>5, <1>6, <1>7, <3>1, <3>2
      <3> QED
        BY <1>1, <1>7, <3>3
    <2> QED
      BY <2>1, <2>2
  <1>9. b \in c .. End(ch, c) - 1
    BY <1>1, <1>4, <1>6, <1>7, <1>8
  <1> QED
    BY <1>9

(***************************************************************************)
(* With one region the heap is that region and nothing else: every chunk,  *)
(* header and data, lies between KERNEL_END and the end of the region, and *)
(* every byte in between belongs to a chunk.                               *)
(***************************************************************************)
THEOREM BackedSafe ==
    ASSUME NEW CONSTANT lim, OneRegionTo(lim)
    PROVE  Spec => []Backed
  <1>1. HInv /\ Tiled(chunks, lim) => Backed
    <2> SUFFICES ASSUME HInv, Tiled(chunks, lim) PROVE Backed
      OBVIOUS
    <2>1. PICK i \in HeapEntries : HeapEntries = {i} /\ lim = Limit(i)
      BY DEF OneRegionTo
    <2>2. EntryAddr(i) = KernelEnd
      BY <2>1, OneEntryStarts
    <2>3. \A c \in DOMAIN chunks : EntryAddr(i) <= c /\ End(chunks, c) <= Limit(i)
      BY <2>1, <2>2 DEF Tiled
    <2>4. \A b \in HeapMemory : b \in KernelEnd .. lim - 1
      BY <2>1, <2>2 DEF HeapMemory
    <2>5. \A b \in HeapMemory : \E c \in DOMAIN chunks : b \in c .. End(chunks, c) - 1
      <3>1. Sound(chunks) /\ lim \in Nat
        BY LimitNat DEF HInv
      <3> QED
        BY <2>4, <3>1, TiledCovers
    <2>6. HeapMemory \subseteq UNION {c .. End(chunks, c) - 1 : c \in DOMAIN chunks}
      BY <2>5
    <2> QED
      BY <2>3, <2>6 DEF Backed
  <1> QED
    BY <1>1, TiledInvariant, PTL

(***************************************************************************)
(* With one region, freeing everything undoes every split: the heap is     *)
(* again the single chunk that malloc_init made.                           *)
(***************************************************************************)
THEOREM FreedIsWholeSafe ==
    ASSUME NEW CONSTANT lim, OneRegionTo(lim)
    PROVE  Spec => []FreedIsWhole
  <1>1. Apart
    BY EntryFacts DEF Apart, OneRegionTo
  <1>2. HInv /\ Tiled(chunks, lim) /\ Coalesced => FreedIsWhole
    <2> SUFFICES ASSUME HInv, Tiled(chunks, lim), Coalesced, DOMAIN held = {}
                 PROVE  chunks = InitChunks
      BY DEF FreedIsWhole
    <2> DEFINE k == KernelEnd
    <2>1. InUse(chunks) = {} /\ Sound(chunks)
      BY DEF HInv, HeldIn
    <2>2. \A c \in DOMAIN chunks : ~chunks[c].allocated
      BY <2>1 DEF InUse
    <2>3. \A c \in DOMAIN chunks : chunks[c].next_chunk = NULL
      BY <2>1, <2>2 DEF Tiled, Coalesced, Merged, Sound, Linked
    <2>4. DOMAIN chunks = {k}
      <3>1. \A d \in DOMAIN chunks : d <= k /\ k <= d /\ d \in Nat /\ k \in Nat
        BY <2>1, <2>3, SizesAssumption DEF Sound, Ordered, Tiled
      <3> QED
        BY <3>1 DEF Tiled
    <2>5. chunks[k].previous_chunk = NULL
      BY <2>1, <2>3, <2>4, SizesAssumption DEF Sound, Linked, NULL
    <2>6. /\ chunks[k] \in Chunk /\ k + Header + chunks[k].len = lim
          /\ k \in Nat /\ Header \in Nat /\ chunks[k].len \in Nat
      BY <2>1, <2>3, <2>4, SizesAssumption DEF Sound, Tiled, End, Chunk
    <2>7. chunks[k].len = lim - k - Header
      BY <2>6
    <2>8. chunks[k] = [previous_chunk |-> NULL, next_chunk |-> NULL, allocated |-> FALSE,
                       len |-> lim - k - Header]
      BY <2>2, <2>3, <2>4, <2>5, <2>6, <2>7 DEF Chunk
    <2>9. DOMAIN InitChunks = {k} /\ InitChunks[k] = chunks[k]
      BY <2>8, InitChunksOne
    <2>10. chunks = [c \in {k} |-> chunks[k]]
      BY <2>1, <2>4 DEF Sound
    <2>11. InitChunks = [c \in {k} |-> InitChunks[k]]
      BY <2>9 DEF InitChunks
    <2> QED
      BY <2>9, <2>10, <2>11
  <1> QED
    BY <1>1, <1>2, TiledInvariant, CoalescedSafe, PTL

-----------------------------------------------------------------------------
(***************************************************************************)
(* Heap implements Allocator.                                              *)
(***************************************************************************)
LEMMA MemoryIs ==
    ASSUME NEW lim, OneRegionTo(lim)
    PROVE  HeapMemory = KernelEnd .. lim - 1
  <1>1. PICK i \in HeapEntries : HeapEntries = {i} /\ lim = Limit(i)
    BY DEF OneRegionTo
  <1>2. EntryAddr(i) = KernelEnd
    BY <1>1, OneEntryStarts
  <1> QED
    BY <1>1, <1>2 DEF HeapMemory

\* The bytes a caller may use lie in its chunk, after the header.
LEMMA BlockInChunk ==
    ASSUME NEW ch, Sound(ch), NEW c \in DOMAIN ch, NEW n \in Nat, n <= ch[c].len,
           NEW b \in (c + Header) .. (c + Header) + n - 1
    PROVE  b \in Int /\ c + Header <= b /\ b < End(ch, c)
  <1>1. c \in Nat /\ Header \in Nat /\ ch[c].len \in Nat
    BY SizesAssumption DEF Sound, Chunk
  <1> QED
    BY <1>1 DEF End

\* A block of n bytes in an allocated chunk is fresh as long as no other
\* caller holds that chunk.
LEMMA FreshBlock ==
    ASSUME NEW lim, OneRegionTo(lim), NEW ch, Sound(ch), Tiled(ch, lim),
           NEW g, HeldIn(ch, g), NEW c \in InUse(ch), NEW n \in Nat, n # 0,
           n <= ch[c].len, NEW mine,
           \A q \in DOMAIN held \ mine : /\ q \in DOMAIN g
                                         /\ held[q] = g[q]
                                         /\ q # c + Header
    PROVE  A!Fresh(c + Header, n, mine) /\ c + Header \in HeapMemory
  <1>1. c \in DOMAIN ch /\ c \in Nat /\ Header \in Nat \ {0} /\ lim \in Nat /\ KernelEnd \in Nat
    BY LimitNat, SizesAssumption DEF InUse, Sound
  <1>2. KernelEnd <= c /\ End(ch, c) <= lim /\ End(ch, c) \in Int
    BY <1>1 DEF Tiled, End, Sound, Chunk
  <1>3. \A b \in A!Bytes(c + Header, n) : b \in KernelEnd .. lim - 1
    BY <1>1, <1>2, BlockInChunk DEF A!Bytes
  <1>4. A!Bytes(c + Header, n) \subseteq HeapMemory
    BY <1>3, MemoryIs
  <1>5. c + Header \in HeapMemory
    <2>1. c + Header \in A!Bytes(c + Header, n)
      BY <1>1 DEF A!Bytes
    <2> QED
      BY <1>4, <2>1
  <1>6. ASSUME NEW q \in DOMAIN held \ mine
        PROVE  A!Bytes(c + Header, n) \cap A!Bytes(q, held[q]) = {}
    <2> DEFINE d == q - Header
    <2>1. /\ q \in DOMAIN g /\ held[q] = g[q] /\ q # c + Header
          /\ g[q] \in Nat /\ g[q] <= ch[d].len
      BY DEF HeldIn
    <2>2. d \in Nat /\ q = d + Header /\ d \in DOMAIN ch
      BY <2>1, HeldChunk
    <2>3. d # c
      BY <2>1, <2>2
    <2> HIDE DEF d
    <2> SUFFICES ASSUME NEW b \in A!Bytes(c + Header, n), b \in A!Bytes(q, held[q])
                 PROVE  FALSE
      OBVIOUS
    <2>4. b \in Int /\ c + Header <= b /\ b < End(ch, c)
      BY <1>1, BlockInChunk DEF A!Bytes
    <2>5. d + Header <= b /\ b < End(ch, d)
      BY <2>1, <2>2, BlockInChunk DEF A!Bytes
    <2>6. End(ch, c) \in Int /\ End(ch, d) \in Int
      BY <1>1, <2>2 DEF End, Sound, Chunk
    <2>7. CASE c < d
      <3>1. End(ch, c) <= d
        BY <1>1, <2>2, <2>7, Disjoint
      <3> QED
        BY <3>1, <1>1, <2>2, <2>4, <2>5, <2>6
    <2>8. CASE d < c
      <3>1. End(ch, d) <= c
        BY <1>1, <2>2, <2>8, Disjoint
      <3> QED
        BY <3>1, <1>1, <2>2, <2>4, <2>5, <2>6
    <2> QED
      BY <1>1, <2>2, <2>3, <2>7, <2>8
  <1> QED
    BY <1>4, <1>5, <1>6 DEF A!Fresh

\* malloc does what the abstract allocator's Allocate may do.
LEMMA MallocRefines ==
    ASSUME NEW lim, OneRegionTo(lim), HInv, Tiled(chunks, lim),
           NEW n \in Request, Malloc(n)
    PROVE  A!Allocate(n)
  <1>1. PICK c \in DOMAIN chunks :
          /\ Fits(chunks, c, n)
          /\ chunks' = Allocate(chunks, c, n)
          /\ held' = Extend(held, c + Header, n)
    BY DEF Malloc, IsFirstFit
  <1>2. n \in Nat /\ n # 0 /\ ~halted /\ halted' = halted /\ lim \in Nat
    BY LimitNat, SizesAssumption DEF Malloc
  <1> DEFINE r == Allocate(chunks, c, n)
  <1>3. /\ Sound(r) /\ Tiled(r, lim) /\ c \in InUse(r) /\ n <= r[c].len
        /\ HeldIn(r, held') /\ c + Header \notin DOMAIN held
    BY <1>1, <1>2, AllocateSound, AllocateHeld, AllocateTiled DEF HInv
  <1>4. \A q \in DOMAIN held \ {} : /\ q \in DOMAIN held'
                                    /\ held[q] = held'[q]
                                    /\ q # c + Header
    BY <1>1, <1>3 DEF Extend
  <1> HIDE DEF r
  <1>5. A!Fresh(c + Header, n, {}) /\ c + Header \in HeapMemory
    BY <1>2, <1>3, <1>4, FreshBlock
  <1> QED
    BY <1>1, <1>2, <1>3, <1>5 DEF A!Allocate, Extend

\* realloc in place does what the abstract allocator's Resize may do.
LEMMA StaysRefines ==
    ASSUME NEW lim, OneRegionTo(lim), HInv, Tiled(chunks, lim),
           NEW p \in DOMAIN held, NEW n \in Request, ReallocStays(p, n)
    PROVE  A!Resize(p, n)
  <1>1. n \in Nat /\ n # 0 /\ ~halted /\ halted' = halted /\ n <= chunks[p - Header].len
    BY SizesAssumption DEF ReallocStays
  <1> DEFINE c == p - Header
  <1>2. c \in InUse(chunks) /\ p = c + Header
    BY HeldChunk DEF HInv
  <1> HIDE DEF c
  <1>3. \A q \in DOMAIN held \ {p} : /\ q \in DOMAIN held
                                     /\ held[q] = held[q]
                                     /\ q # c + Header
    BY <1>2
  <1>4. A!Fresh(c + Header, n, {p})
    BY <1>1, <1>2, <1>3, FreshBlock DEF HInv, c
  <1> QED
    BY <1>1, <1>2, <1>4 DEF A!Resize, ReallocStays

\* realloc of a short block does what the abstract allocator's Move may do.
LEMMA MovesRefines ==
    ASSUME NEW lim, OneRegionTo(lim), HInv, Tiled(chunks, lim),
           NEW p \in DOMAIN held, NEW n \in Request, ReallocMoves(p, n)
    PROVE  A!Move(p, n) /\ n # 0
  <1>1. PICK c \in DOMAIN chunks :
          /\ Fits(chunks, c, n)
          /\ chunks' = Release(Allocate(chunks, c, n), p - Header)
          /\ held' = Extend(Without(held, p), c + Header, n)
    BY DEF ReallocMoves, IsFirstFit
  <1>2. n \in Nat /\ ~halted /\ halted' = halted /\ lim \in Nat /\ n # 0
    <2>1. chunks[p - Header].len \in Nat
      BY HeldChunk DEF HInv
    <2> QED
      BY <2>1, LimitNat, SizesAssumption DEF ReallocMoves
  <1> DEFINE r == Allocate(chunks, c, n)
             g == Extend(held, c + Header, n)
  <1>3. /\ Sound(r) /\ Tiled(r, lim) /\ c \in InUse(r) /\ n <= r[c].len
        /\ HeldIn(r, g) /\ c + Header \notin DOMAIN held
    BY <1>1, <1>2, AllocateSound, AllocateHeld, AllocateTiled DEF HInv
  <1>4. \A q \in DOMAIN held \ {} : /\ q \in DOMAIN g
                                    /\ held[q] = g[q]
                                    /\ q # c + Header
    BY <1>3 DEF Extend
  <1> HIDE DEF r, g
  <1>5. A!Fresh(c + Header, n, {}) /\ c + Header \in HeapMemory
    BY <1>2, <1>3, <1>4, FreshBlock
  <1>6. held' = [q \in (DOMAIN held \ {p}) \cup {c + Header} |->
                    IF q = c + Header THEN n ELSE held[q]]
    BY <1>1 DEF Extend, Without
  <1> QED
    BY <1>2, <1>3, <1>5, <1>6 DEF A!Move

(***************************************************************************)
(* With one region the chain of chunks implements the abstract allocator:  *)
(* every call is a step callers of Allocator could see.                    *)
(***************************************************************************)
THEOREM HeapRefines ==
    ASSUME NEW CONSTANT lim, OneRegionTo(lim)
    PROVE  Spec => Allocates
  <1>1. Init => A!Init
    BY DEF Init, A!Init
  <1>2. HInv /\ Tiled(chunks, lim) /\ [Next]_vars => [A!Next]_(A!vars)
    <2> SUFFICES ASSUME HInv, Tiled(chunks, lim), [Next]_vars
                 PROVE  [A!Next]_(A!vars)
      OBVIOUS
    <2>1. ASSUME NEW n \in Request, Malloc(n) PROVE A!Next
      BY <2>1, MallocRefines DEF A!Next, Malloc
    <2>2. ASSUME NEW p \in DOMAIN held, NEW n \in Request, ReallocStays(p, n)
          PROVE  A!Next
      BY <2>2, StaysRefines DEF A!Next, ReallocStays
    <2>3. ASSUME NEW p \in DOMAIN held, NEW n \in Request, ReallocMoves(p, n)
          PROVE  A!Next
      BY <2>3, MovesRefines DEF A!Next
    <2>4. ASSUME NEW p \in DOMAIN held, Free(p) PROVE A!Next
      BY <2>4 DEF A!Next, A!Release, Free, Without
    <2>5. CASE \E n \in Request : MallocHalts(n)
      BY <2>5 DEF A!Next, A!Stop, MallocHalts
    <2>6. CASE \E p \in DOMAIN held, n \in Request : ReallocHalts(p, n)
      BY <2>6 DEF A!Next, A!Stop, ReallocHalts
    <2>7. CASE UNCHANGED vars
      BY <2>7 DEF vars, A!vars
    <2> QED
      BY <2>1, <2>2, <2>3, <2>4, <2>5, <2>6, <2>7 DEF Next
  <1> QED
    BY <1>1, <1>2, TiledInvariant, PTL DEF Spec, Allocates, A!Spec

=============================================================================

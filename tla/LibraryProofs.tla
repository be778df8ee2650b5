--------------------------- MODULE LibraryProofs ----------------------------
(***************************************************************************)
(* The library for every set of addresses, values and contexts, for words  *)
(* of any width and formats of any length: the mutex excludes, the list    *)
(* implements a sequence, and what printf and sprintf write is what they   *)
(* were given.                                                             *)
(*                                                                         *)
(* The four parts share no variable, so each has its own invariant, and a  *)
(* step of the library is a step of one part that stutters in the others.  *)
(***************************************************************************)
EXTENDS Library, FiniteSetTheorems, SequenceTheorems, WellFoundedInduction, TLAPS

\* A set of naturals that is not empty has a least member.
LEMMA LeastNumber ==
    ASSUME NEW T, T \subseteq Nat, T # {}
    PROVE  \E x \in T : \A y \in T : x <= y
  <1> DEFINE R == OpToRel(<, Nat)
  <1>1. IsWellFoundedOn(R, Nat)
    BY NatLessThanWellFounded
  <1>2. \A x, y \in Nat : y < x => <<y, x>> \in R
    BY DEF OpToRel
  <1> HIDE DEF R
  <1>3. PICK x \in T : \A y \in T : ~(<<y, x>> \in R)
    BY <1>1, WFMin
  <1>4. ASSUME NEW y \in T PROVE x <= y
    <2>1. ~(<<y, x>> \in R) /\ x \in Nat /\ y \in Nat
      BY <1>3
    <2>2. ~(y < x)
      BY <2>1, <1>2
    <2> QED
      BY <2>1, <2>2
  <1> QED
    BY <1>4

\* Induction as a statement about a set of numbers.
LEMMA SetInduction ==
    ASSUME NEW M, 0 \in M, \A n \in M : n \in Nat => n + 1 \in M
    PROVE  Nat \subseteq M
  <1> SUFFICES ASSUME Nat \ M # {} PROVE FALSE
    OBVIOUS
  <1>1. PICK x \in Nat \ M : \A y \in Nat \ M : x <= y
    BY LeastNumber
  <1>2. x # 0 /\ x - 1 \in Nat /\ ~(x <= x - 1) /\ (x - 1) + 1 = x
    BY <1>1
  <1>3. x - 1 \in M
    BY <1>1, <1>2
  <1> QED
    BY <1>1, <1>2, <1>3

-----------------------------------------------------------------------------
\* f goes from a by one function after the other.
Follows(f, a, G, n) == f[0] = a /\ \A k \in 1 .. n : f[k] = G[k][f[k - 1]]

\* A recursive definition over 0 .. n has a solution.
LEMMA RecursionExists ==
    ASSUME NEW n \in Nat, NEW T, NEW a \in T, NEW G \in [1 .. n -> [T -> T]]
    PROVE  \E f \in [0 .. n -> T] : Follows(f, a, G, n)
  <1> DEFINE P == {m \in Nat : m <= n => \E f \in [0 .. m -> T] : Follows(f, a, G, m)}
  <1>1. 0 \in P
    <2>1. [k \in 0 .. 0 |-> a] \in [0 .. 0 -> T]
      OBVIOUS
    <2>2. Follows([k \in 0 .. 0 |-> a], a, G, 0)
      BY DEF Follows
    <2> QED
      BY <2>1, <2>2
  <1>2. ASSUME NEW m \in P, m \in Nat PROVE m + 1 \in P
    <2> SUFFICES ASSUME m + 1 <= n PROVE \E f \in [0 .. m + 1 -> T] : Follows(f, a, G, m + 1)
      OBVIOUS
    <2>1. PICK f \in [0 .. m -> T] : Follows(f, a, G, m)
      BY <1>2
    <2> DEFINE g == [k \in 0 .. m + 1 |-> IF k = m + 1 THEN G[m + 1][f[m]] ELSE f[k]]
    <2>2. m + 1 \in 1 .. n /\ m \in 0 .. m
      BY <1>2
    <2>3. G[m + 1] \in [T -> T] /\ f[m] \in T
      BY <2>2
    <2>4. g \in [0 .. m + 1 -> T]
      BY <1>2, <2>3
    <2>5. ASSUME NEW k \in 1 .. m + 1 PROVE g[k] = G[k][g[k - 1]]
      <3>1. k - 1 \in 0 .. m + 1 /\ k - 1 # m + 1 /\ k \in 0 .. m + 1
        BY <1>2
      <3>2. g[k - 1] = f[k - 1]
        BY <3>1
      <3>3. CASE k = m + 1
        BY <1>2, <3>1, <3>2, <3>3
      <3>4. CASE k # m + 1
        <4>1. k \in 1 .. m
          BY <1>2, <3>4
        <4>2. f[k] = G[k][f[k - 1]]
          BY <2>1, <4>1 DEF Follows
        <4> QED
          BY <3>1, <3>2, <3>4, <4>2
      <3> QED
        BY <3>3, <3>4
    <2>6. g[0] = a
      BY <1>2, <2>1 DEF Follows
    <2>7. Follows(g, a, G, m + 1)
      <3> HIDE DEF g
      <3> QED
        BY <2>5, <2>6 DEF Follows
    <2> QED
      BY <2>4, <2>7
  <1>3. Nat \subseteq P
    <2> HIDE DEF P
    <2> QED
      BY <1>1, <1>2, SetInduction
  <1>4. n \in P
    BY <1>3
  <1> QED
    BY <1>4

\* A sequence over a set is one over a larger set.
LEMMA SeqWider ==
    ASSUME NEW T, NEW U, T \subseteq U, NEW s \in Seq(T)
    PROVE  s \in Seq(U) /\ Len(s) \in Nat
  <1>1. Len(s) \in Nat /\ \A k \in 1 .. Len(s) : s[k] \in U
    OBVIOUS
  <1>2. s = [k \in 1 .. Len(s) |-> s[k]]
    OBVIOUS
  <1> QED
    BY <1>1, <1>2

-----------------------------------------------------------------------------
(***************************************************************************)
(* Mutex.                                                                  *)
(***************************************************************************)

\* Nobody is in a call before mutex_init, and the word says whether somebody
\* is inside.
MutexInv ==
    /\ MutexTypeOK /\ Exclusive /\ FreeWhenUnused
    /\ ~initialised => \A c \in Contexts : at[c] = "outside"

\* Nobody is inside at the start.
LEMMA MutexStart == MutexInit => MutexInv
  BY MutexAssumption DEF MutexInit, MutexInv, MutexTypeOK, Exclusive, FreeWhenUnused

\* Only the context that swaps a 0 out of the word enters.
LEMMA MutexStep ==
    ASSUME MutexInv, [MutexNext]_mutexVars
    PROVE  MutexInv'
  <1> USE DEF MutexInv, MutexTypeOK, Exclusive, FreeWhenUnused
  <1>1. CASE mutex_init
    BY <1>1 DEF mutex_init
  <1>2. ASSUME NEW c \in Contexts, Call(c) PROVE MutexInv'
    BY <1>2 DEF Call
  <1>3. ASSUME NEW c \in Contexts, mutex_lock(c) PROVE MutexInv'
    <2>1. initialised
      BY <1>3 DEF mutex_lock
    <2>2. CASE mutex = 0
      BY <1>3, <2>1, <2>2 DEF mutex_lock, Swapped
    <2>3. CASE mutex # 0
      BY <1>3, <2>1, <2>3 DEF mutex_lock
    <2> QED
      BY <2>2, <2>3
  <1>4. ASSUME NEW c \in Contexts, Pause(c) PROVE MutexInv'
    BY <1>4 DEF Pause
  <1>5. ASSUME NEW c \in Contexts, mutex_unlock(c) PROVE MutexInv'
    BY <1>5 DEF mutex_unlock
  <1>6. CASE UNCHANGED mutexVars
    BY <1>6 DEF mutexVars
  <1> QED
    BY <1>1, <1>2, <1>3, <1>4, <1>5, <1>6 DEF MutexNext

-----------------------------------------------------------------------------
(***************************************************************************)
(* List: the nodes in the order of a sequence.                             *)
(***************************************************************************)
Null == 0

Node == [previous : Addr \cup {Null}, next : Addr \cup {Null}, value : Values]

\* Node k of c, or NULL before the first and after the last.
Nth(c, k) == IF k \in 1 .. Len(c) THEN c[k] ELSE Null

InChain(c) == {c[k] : k \in 1 .. Len(c)}

Distinct(c) == \A j, k \in 1 .. Len(c) : c[j] = c[k] => j = k

\* The nodes of ns from first on are those of c.
Chained(c, ns, first) ==
    /\ c \in Seq(Addr) /\ Distinct(c)
    /\ DOMAIN ns = InChain(c) \cup {Null}
    /\ first = Nth(c, 1)
    /\ \A k \in 1 .. Len(c) :
          /\ ns[c[k]] \in Node
          /\ ns[c[k]].previous = Nth(c, k - 1)
          /\ ns[c[k]].next = Nth(c, k + 1)

\* No node is at NULL.
LEMMA NodesAreSomewhere == \A c \in Seq(Addr) : \A k \in 1 .. Len(c) : c[k] \in Addr /\ c[k] # NULL
  <1>1. NULL \notin Addr
    BY ListAssumption
  <1> QED
    BY <1>1

\* The nodes of a chain are as many as it is long.
LEMMA ChainedCard ==
    ASSUME NEW c \in Seq(Addr), Distinct(c)
    PROVE  /\ IsFiniteSet(InChain(c) \cup {Null})
           /\ Cardinality(InChain(c) \cup {Null}) = Len(c) + 1
  <1> DEFINE I == 1 .. Len(c)
             T == InChain(c)
             f == [k \in I |-> c[k]]
  <1>0. Len(c) \in Nat
    OBVIOUS
  <1>1. IsFiniteSet(I) /\ Cardinality(I) = Len(c)
    <2>1. IsFiniteSet(I) /\ Cardinality(I) = IF 1 > Len(c) THEN 0 ELSE Len(c) - 1 + 1
      BY <1>0, FS_Interval
    <2> QED
      BY <1>0, <2>1
  <1>2. f \in Bijection(I, T)
    BY DEF Bijection, Injection, Surjection, IsInjective, InChain, Distinct
  <1>3. ExistsBijection(I, T)
    BY <1>2 DEF ExistsBijection
  <1> HIDE DEF I
  <1>4. IsFiniteSet(T) /\ Cardinality(T) = Len(c)
    BY <1>1, <1>3, FS_Bijection
  <1>5. Null \notin T
    BY ListAssumption DEF InChain, Null, NULL
  <1> QED
    BY <1>4, <1>5, FS_AddElement

\* Whatever satisfies the equation of Visit goes along c.
LEMMA VisitIs ==
    ASSUME NEW c, NEW ns, NEW first, Chained(c, ns, first)
    PROVE  Visit(ns, first) = [k \in 1 .. Len(c) + 1 |-> Nth(c, k)]
  <1> DEFINE n    == Len(c) + 1
             D(d) == [k \in 1 .. n |->
                        IF k = 1 THEN first
                        ELSE IF d[k - 1] = NULL THEN NULL ELSE ns[d[k - 1]].next]
             v    == CHOOSE d : d = D(d)
             w    == [k \in 1 .. n |-> Nth(c, k)]
  <1>0. Len(c) \in Nat /\ n \in Nat /\ c \in Seq(Addr)
    BY DEF Chained
  <1>1. Cardinality(DOMAIN ns) = n
    BY ChainedCard DEF Chained
  <1>2. Visit(ns, first) = v
    BY <1>1 DEF Visit
  <1>n. \A k \in 1 .. Len(c) : c[k] # NULL
    BY <1>0, NodesAreSomewhere
  <1>3. ASSUME NEW d, NEW k \in 1 .. n, k # 1, d[k - 1] = Nth(c, k - 1)
        PROVE  (IF d[k - 1] = NULL THEN NULL ELSE ns[d[k - 1]].next) = Nth(c, k)
    <2>1. k - 1 \in 1 .. Len(c) /\ (k - 1) + 1 = k
      BY <1>0, <1>3
    <2>2. d[k - 1] = c[k - 1] /\ d[k - 1] # NULL
      BY <1>3, <1>n, <2>1 DEF Nth
    <2>3. ns[c[k - 1]].next = Nth(c, k)
      BY <2>1 DEF Chained
    <2> QED
      BY <2>2, <2>3
  <1>4. w = D(w)
    <2>1. \A k \in 1 .. n : w[k] = D(w)[k]
      <3> SUFFICES ASSUME NEW k \in 1 .. n PROVE w[k] = D(w)[k]
        OBVIOUS
      <3>1. CASE k = 1
        BY <3>1 DEF Chained
      <3>2. CASE k # 1
        <4>1. w[k - 1] = Nth(c, k - 1)
          BY <1>0, <3>2
        <4>2. (IF w[k - 1] = NULL THEN NULL ELSE ns[w[k - 1]].next) = Nth(c, k)
          <5> HIDE DEF w
          <5> QED
            BY <1>3, <3>2, <4>1
        <4> QED
          BY <3>2, <4>2
      <3> QED
        BY <3>1, <3>2
    <2> QED
      BY <2>1
  <1>5. v = D(v)
    BY <1>4
  <1> HIDE DEF v
  <1>6. DOMAIN v = 1 .. n
    BY <1>5
  <1> DEFINE M == {k \in Nat : k + 1 <= n => v[k + 1] = Nth(c, k + 1)}
  <1>7. 0 \in M
    <2>1. 1 \in 1 .. n
      BY <1>0
    <2>2. v[1] = first
      BY <1>5, <2>1
    <2> QED
      BY <2>2 DEF Chained
  <1>8. ASSUME NEW k \in M, k \in Nat PROVE k + 1 \in M
    <2> SUFFICES ASSUME (k + 1) + 1 <= n PROVE v[(k + 1) + 1] = Nth(c, (k + 1) + 1)
      BY <1>8
    <2> DEFINE m == (k + 1) + 1
    <2>1. m \in 1 .. n /\ m # 1 /\ m - 1 = k + 1 /\ k + 1 <= n
      BY <1>0, <1>8
    <2> HIDE DEF m
    <2>2. v[m - 1] = Nth(c, m - 1)
      BY <1>8, <2>1
    <2>3. v[m] = IF v[m - 1] = NULL THEN NULL ELSE ns[v[m - 1]].next
      BY <1>5, <2>1
    <2> QED
      BY <1>3, <2>1, <2>2, <2>3 DEF m
  <1>9. Nat \subseteq M
    <2> HIDE DEF M
    <2> QED
      BY <1>7, <1>8, SetInduction
  <1>10. \A k \in 1 .. n : v[k] = Nth(c, k)
    <2> SUFFICES ASSUME NEW k \in 1 .. n PROVE v[k] = Nth(c, k)
      OBVIOUS
    <2>1. k - 1 \in Nat /\ (k - 1) + 1 = k /\ k <= n
      BY <1>0
    <2>2. k - 1 \in M
      BY <1>9, <2>1
    <2> QED
      BY <2>1, <2>2
  <1>11. v = w
    <2>1. v = [k \in 1 .. n |-> v[k]]
      BY <1>5
    <2> QED
      BY <1>6, <1>10, <2>1
  <1> QED
    BY <1>2, <1>11

\* The walk gives the sequence back.
LEMMA ChainIs ==
    ASSUME NEW c, NEW ns, NEW first, Chained(c, ns, first)
    PROVE  Chain(ns, first) = c
  <1> DEFINE v == [k \in 1 .. Len(c) + 1 |-> Nth(c, k)]
             K == {k \in DOMAIN v : v[k] # NULL}
  <1>0. Len(c) \in Nat /\ c \in Seq(Addr)
    BY DEF Chained
  <1>1. Chain(ns, first) = [k \in K |-> v[k]]
    BY VisitIs DEF Chain
  <1>2. \A k \in 1 .. Len(c) : c[k] # NULL
    BY <1>0, NodesAreSomewhere
  <1>3. K = 1 .. Len(c)
    BY <1>0, <1>2 DEF Nth, Null, NULL
  <1>4. \A k \in 1 .. Len(c) : v[k] = c[k]
    BY <1>0 DEF Nth
  <1>5. DOMAIN c = 1 .. Len(c)
    BY <1>0
  <1>6. c = [k \in 1 .. Len(c) |-> c[k]]
    BY <1>0
  <1> HIDE DEF v, K
  <1> QED
    BY <1>1, <1>3, <1>4, <1>6

-----------------------------------------------------------------------------
\* c without its k-th.
Without(c, k) == [j \in 1 .. Len(c) - 1 |-> IF j < k THEN c[j] ELSE c[j + 1]]

\* What is left without one node: the others, in their order.
LEMMA WithoutIs ==
    ASSUME NEW T, NEW c \in Seq(T), NEW k \in 1 .. Len(c)
    PROVE  SubSeq(c, 1, k - 1) \o SubSeq(c, k + 1, Len(c)) = Without(c, k)
  <1> DEFINE p == SubSeq(c, 1, k - 1)
             q == SubSeq(c, k + 1, Len(c))
             w == Without(c, k)
  <1>0. Len(c) \in Nat /\ k \in Nat
    OBVIOUS
  <1>1. p \in Seq(T) /\ Len(p) = k - 1 /\ \A j \in 1 .. k - 1 : p[j] = c[j]
    BY <1>0
  <1>2. q \in Seq(T) /\ Len(q) = Len(c) - k /\ \A j \in 1 .. Len(c) - k : q[j] = c[j + k]
    <2>1. q \in Seq(T) /\ Len(q) = Len(c) - k
      BY <1>0
    <2>2. ASSUME NEW j \in 1 .. Len(c) - k PROVE q[j] = c[j + k]
      <3>1. q[j] = c[(k + 1) + j - 1]
        BY <1>0
      <3> QED
        BY <1>0, <3>1
    <2> QED
      BY <2>1, <2>2
  <1> HIDE DEF p, q
  <1>3. p \o q \in Seq(T) /\ Len(p \o q) = Len(c) - 1
    <2>1. p \o q \in Seq(T) /\ Len(p \o q) = Len(p) + Len(q)
      BY <1>1, <1>2, ConcatProperties
    <2> QED
      BY <1>0, <1>1, <1>2, <2>1
  <1>4. ASSUME NEW j \in 1 .. Len(c) - 1 PROVE (p \o q)[j] = w[j]
    <2>1. CASE j < k
      BY <1>0, <1>1, <1>2, <2>1 DEF Without
    <2>2. CASE ~(j < k)
      <3>1. j - (k - 1) \in 1 .. Len(c) - k /\ (j - (k - 1)) + k = j + 1 /\ j > k - 1
        BY <1>0, <2>2
      <3>2. (p \o q)[j] = q[j - (k - 1)]
        BY <1>0, <1>1, <1>2, <3>1
      <3>3. q[j - (k - 1)] = c[j + 1]
        BY <1>2, <3>1
      <3> QED
        BY <2>2, <3>2, <3>3 DEF Without
    <2> QED
      BY <2>1, <2>2
  <1>5. w = [j \in 1 .. Len(c) - 1 |-> w[j]]
    BY DEF Without
  <1>6. p \o q = [j \in 1 .. Len(c) - 1 |-> (p \o q)[j]]
    <2> DEFINE r == p \o q
    <2> HIDE DEF r
    <2>1. r \in Seq(T) /\ Len(r) = Len(c) - 1
      BY <1>3 DEF r
    <2>2. r = [j \in 1 .. Len(c) - 1 |-> r[j]]
      BY <2>1
    <2> QED
      BY <2>2 DEF r
  <1> HIDE DEF w
  <1>7. p \o q = w
    BY <1>4, <1>5, <1>6
  <1> QED
    BY <1>7 DEF p, q, w

\* Taking an element out leaves a sequence.
LEMMA WithoutSeq ==
    ASSUME NEW T, NEW c \in Seq(T), NEW k \in 1 .. Len(c)
    PROVE  /\ Without(c, k) \in Seq(T) /\ Len(Without(c, k)) = Len(c) - 1
           /\ \A j \in 1 .. Len(c) - 1 : Without(c, k)[j] = IF j < k THEN c[j] ELSE c[j + 1]
  <1>0. Len(c) - 1 \in Nat /\ k \in Nat /\ Len(c) \in Nat
    OBVIOUS
  <1>1. \A j \in 1 .. Len(c) - 1 : (IF j < k THEN c[j] ELSE c[j + 1]) \in T
    BY <1>0
  <1> QED
    BY <1>0, <1>1 DEF Without

\* The values of the nodes of c.
Held(c, ns) == [k \in 1 .. Len(c) |-> ns[c[k]].value]

\* What the nodes of a chain hold is a sequence of values.
LEMMA HeldSeq ==
    ASSUME NEW c, NEW ns, NEW first, Chained(c, ns, first)
    PROVE  Held(c, ns) \in Seq(Values) /\ Len(Held(c, ns)) = Len(c)
  <1>1. Len(c) \in Nat
    BY DEF Chained
  <1>2. \A k \in 1 .. Len(c) : ns[c[k]].value \in Values
    BY DEF Chained, Node
  <1> QED
    BY <1>1, <1>2 DEF Held

-----------------------------------------------------------------------------
\* What list_insert stores.
Inserted(ns, node, new, v) ==
    [a \in DOMAIN ns \cup {new} |->
        CASE a = new -> [previous |-> node, next |-> NULL, value |-> v]
          [] a = node /\ node # NULL -> [ns[a] EXCEPT !.next = new]
          [] OTHER -> ns[a]]

\* list_insert links the new node behind the last.
LEMMA InsertChains ==
    ASSUME NEW c, NEW ns, NEW first, Chained(c, ns, first),
           NEW v \in Values, NEW new \in Addr, new \notin DOMAIN ns
    PROVE  LET ms == Inserted(ns, Nth(c, Len(c)), new, v)
           IN  /\ Chained(Append(c, new), ms, IF first = NULL THEN new ELSE first)
               /\ Held(Append(c, new), ms) = Append(Held(c, ns), v)
  <1> DEFINE node == Nth(c, Len(c))
             ms   == Inserted(ns, node, new, v)
             d    == Append(c, new)
             n    == Len(c)
  <1>0. c \in Seq(Addr) /\ n \in Nat /\ Distinct(c)
    BY DEF Chained
  <1>1. d \in Seq(Addr) /\ Len(d) = n + 1 /\ d[n + 1] = new /\ \A k \in 1 .. n : d[k] = c[k]
    BY <1>0
  <1>2. \A k \in 1 .. n : c[k] \in Addr /\ c[k] # NULL /\ c[k] \in DOMAIN ns /\ c[k] # new
    BY <1>0, NodesAreSomewhere DEF Chained, InChain
  <1>3. new # NULL
    BY ListAssumption
  <1> HIDE DEF d
  <1>4. Distinct(d)
    <2> SUFFICES ASSUME NEW j \in 1 .. Len(d), NEW k \in 1 .. Len(d), d[j] = d[k] PROVE j = k
      BY DEF Distinct
    <2>1. CASE j = n + 1 /\ k = n + 1
      BY <2>1
    <2>2. CASE j \in 1 .. n /\ k \in 1 .. n
      BY <1>0, <1>1, <2>2 DEF Distinct
    <2>3. CASE j \in 1 .. n /\ k = n + 1
      BY <1>1, <1>2, <2>3
    <2>4. CASE j = n + 1 /\ k \in 1 .. n
      BY <1>1, <1>2, <2>4
    <2> QED
      BY <1>0, <1>1, <2>1, <2>2, <2>3, <2>4
  <1>5. InChain(d) = InChain(c) \cup {new}
    <2>1. 1 .. Len(d) = (1 .. n) \cup {n + 1}
      BY <1>0, <1>1
    <2> QED
      BY <1>1, <2>1 DEF InChain
  <1>6. DOMAIN ms = InChain(d) \cup {Null}
    BY <1>5 DEF Chained, Inserted
  <1>7. (IF first = NULL THEN new ELSE first) = Nth(d, 1)
    <2>1. CASE n = 0
      BY <1>0, <1>1, <2>1 DEF Chained, Nth, Null, NULL
    <2>2. CASE n # 0
      <3>1. 1 \in 1 .. n /\ 1 \in 1 .. Len(d)
        BY <1>0, <1>1, <2>2
      <3>2. first = c[1] /\ d[1] = c[1] /\ Nth(d, 1) = d[1]
        BY <1>1, <3>1 DEF Chained, Nth
      <3> QED
        BY <1>2, <3>1, <3>2
    <2> QED
      BY <2>1, <2>2
  <1>8. ms[new] = [previous |-> node, next |-> NULL, value |-> v]
    <2>1. node # new
      BY <1>0, <1>2, <1>3 DEF Nth, Null, NULL
    <2> HIDE DEF node
    <2> QED
      BY <2>1 DEF Inserted
  <1>9. ASSUME NEW k \in 1 .. n
        PROVE  ms[c[k]] = IF k = n THEN [ns[c[k]] EXCEPT !.next = new] ELSE ns[c[k]]
    <2>1. c[k] \in DOMAIN ns \cup {new} /\ c[k] # new
      BY <1>2
    <2>2. node = c[n] /\ n \in 1 .. n
      BY <1>0 DEF Nth
    <2>3. c[k] = node <=> k = n
      BY <1>0, <2>2 DEF Distinct
    <2>4. node # NULL
      BY <1>2, <2>2
    <2> HIDE DEF node
    <2> QED
      BY <2>1, <2>3, <2>4 DEF Inserted
  <1>10. Nth(d, n) = node /\ Nth(d, n + 2) = Null /\ Nth(d, n + 1) = new
    BY <1>0, <1>1 DEF Nth
  <1>11. ASSUME NEW k \in 1 .. n
         PROVE  /\ Nth(d, k - 1) = Nth(c, k - 1)
                /\ k # n => Nth(d, k + 1) = Nth(c, k + 1)
    BY <1>0, <1>1 DEF Nth
  <1>12. node \in Addr \cup {Null}
    BY <1>0, <1>2 DEF Nth
  <1>13. ASSUME NEW k \in 1 .. Len(d)
         PROVE  /\ ms[d[k]] \in Node
                /\ ms[d[k]].previous = Nth(d, k - 1)
                /\ ms[d[k]].next = Nth(d, k + 1)
    <2> HIDE DEF ms, node
    <2>1. CASE k = n + 1
      <3>1. k - 1 = n /\ k + 1 = n + 2 /\ d[k] = new
        BY <1>0, <1>1, <2>1
      <3> QED
        BY <1>8, <1>10, <1>12, <3>1 DEF Node, Null, NULL
    <2>2. CASE k \in 1 .. n
      <3>1. ns[c[k]] \in Node /\ ns[c[k]].previous = Nth(c, k - 1) /\ ns[c[k]].next = Nth(c, k + 1)
        BY <2>2 DEF Chained
      <3>2. d[k] = c[k]
        BY <1>1, <2>2
      <3>3. CASE k = n
        <4>1. ms[c[k]] = [ns[c[k]] EXCEPT !.next = new]
          BY <1>9, <2>2, <3>3
        <4> QED
          BY <1>10, <1>11, <2>2, <3>1, <3>2, <3>3, <4>1 DEF Node
      <3>4. CASE k # n
        <4>1. ms[c[k]] = ns[c[k]]
          BY <1>9, <2>2, <3>4
        <4> QED
          BY <1>11, <2>2, <3>1, <3>2, <3>4, <4>1
      <3> QED
        BY <3>3, <3>4
    <2> QED
      BY <1>0, <1>1, <2>1, <2>2
  <1>14. Chained(d, ms, IF first = NULL THEN new ELSE first)
    <2> HIDE DEF ms, node
    <2> QED
      BY <1>1, <1>4, <1>6, <1>7, <1>13 DEF Chained
  <1>15. Held(d, ms) = Append(Held(c, ns), v)
    <2>1. Held(c, ns) \in Seq(Values) /\ Len(Held(c, ns)) = n
      BY HeldSeq
    <2> DEFINE r == Held(c, ns)
               a == Append(r, v)
    <2> HIDE DEF r, a
    <2>5. r \in Seq(Values) /\ Len(r) = n
      BY <2>1 DEF r
    <2>6. a \in Seq(Values) /\ Len(a) = n + 1 /\ \A k \in 1 .. n + 1 : a[k] = IF k = n + 1 THEN v ELSE r[k]
      <3>1. a \in Seq(Values) /\ Len(a) = Len(r) + 1
            /\ (\A k \in 1 .. Len(r) : a[k] = r[k]) /\ a[Len(r) + 1] = v
        BY <2>5, AppendProperties DEF a
      <3> QED
        BY <1>0, <2>5, <3>1
    <2>7. a = [k \in 1 .. n + 1 |-> a[k]]
      BY <1>0, <2>6
    <2>2. Append(Held(c, ns), v) = [k \in 1 .. n + 1 |-> IF k = n + 1 THEN v ELSE Held(c, ns)[k]]
      <3>1. a = [k \in 1 .. n + 1 |-> IF k = n + 1 THEN v ELSE r[k]]
        BY <2>6, <2>7
      <3> QED
        BY <3>1 DEF a, r
    <2>3. ASSUME NEW k \in 1 .. n + 1
          PROVE  ms[d[k]].value = IF k = n + 1 THEN v ELSE Held(c, ns)[k]
      <3> HIDE DEF ms, node
      <3>1. CASE k = n + 1
        BY <1>1, <1>8, <3>1
      <3>2. CASE k # n + 1
        <4>1. k \in 1 .. n
          BY <1>0, <3>2
        <4>2. ns[c[k]] \in Node
          BY <4>1 DEF Chained
        <4>3. ms[c[k]].value = ns[c[k]].value
          BY <1>9, <4>1, <4>2 DEF Node
        <4> QED
          BY <1>1, <3>2, <4>1, <4>3 DEF Held
      <3> QED
        BY <3>1, <3>2
    <2>4. Held(d, ms) = [k \in 1 .. n + 1 |-> ms[d[k]].value]
      BY <1>1 DEF Held
    <2> HIDE DEF ms
    <2> QED
      BY <2>2, <2>3, <2>4
  <1> QED
    BY <1>14, <1>15 DEF d

-----------------------------------------------------------------------------
\* What the two stores of list_delete leave.
Bypassed(ns, p, q) == [ns EXCEPT ![p].next = q, ![q].previous = p]

\* A node in the middle of the list keeps what it has, but for the link that
\* went to the node that is deleted.
LEMMA BypassedIs ==
    ASSUME NEW c, NEW ns, NEW first, Chained(c, ns, first),
           NEW k \in 1 .. Len(c), NEW j \in 1 .. Len(c), j # k
    PROVE  LET m == Bypassed(ns, Nth(c, k - 1), Nth(c, k + 1))[c[j]]
           IN  /\ m \in Node
               /\ m.previous = IF j = k + 1 THEN Nth(c, k - 1) ELSE Nth(c, j - 1)
               /\ m.next = IF j = k - 1 THEN Nth(c, k + 1) ELSE Nth(c, j + 1)
               /\ m.value = ns[c[j]].value
  <1> DEFINE p  == Nth(c, k - 1)
             q  == Nth(c, k + 1)
             n1 == [ns EXCEPT ![p] = [ns[p] EXCEPT !.next = q]]
             n2 == [n1 EXCEPT ![q] = [n1[q] EXCEPT !.previous = p]]
             x  == c[j]
  <1>0. c \in Seq(Addr) /\ Len(c) \in Nat /\ Distinct(c)
    BY DEF Chained
  <1>1. \A i \in 1 .. Len(c) : c[i] \in Addr /\ c[i] # NULL /\ c[i] \in DOMAIN ns
    BY <1>0, NodesAreSomewhere DEF Chained, InChain
  <1>2. x = p <=> j = k - 1
    <2>1. CASE k - 1 \in 1 .. Len(c)
      BY <1>0, <2>1 DEF Nth, Distinct
    <2>2. CASE k - 1 \notin 1 .. Len(c)
      BY <1>0, <1>1, <2>2 DEF Nth, Null, NULL
    <2> QED
      BY <2>1, <2>2
  <1>3. x = q <=> j = k + 1
    <2>1. CASE k + 1 \in 1 .. Len(c)
      BY <1>0, <2>1 DEF Nth, Distinct
    <2>2. CASE k + 1 \notin 1 .. Len(c)
      BY <1>0, <1>1, <2>2 DEF Nth, Null, NULL
    <2> QED
      BY <2>1, <2>2
  <1>4. p \in Addr \cup {Null} /\ q \in Addr \cup {Null}
    BY <1>0, <1>1 DEF Nth
  <1>5. x \in DOMAIN ns /\ ns[x] \in Node /\ ns[x].previous = Nth(c, j - 1) /\ ns[x].next = Nth(c, j + 1)
    BY <1>1 DEF Chained
  <1>6. Bypassed(ns, p, q) = n2
    BY DEF Bypassed
  <1> HIDE DEF p, q, x
  <1>7. n1[x] = IF x = p THEN [ns[x] EXCEPT !.next = q] ELSE ns[x]
    BY <1>5
  <1>8. n1[x] \in Node /\ n1[x].previous = ns[x].previous /\ n1[x].value = ns[x].value
        /\ n1[x].next = IF x = p THEN q ELSE ns[x].next
    <2>1. CASE x = p
      <3>1. n1[x] = [ns[x] EXCEPT !.next = q]
        BY <1>7, <2>1
      <3> HIDE DEF n1
      <3> QED
        BY <1>4, <1>5, <2>1, <3>1 DEF Node
    <2>2. CASE x # p
      BY <1>5, <1>7, <2>2
    <2> QED
      BY <2>1, <2>2
  <1>9. DOMAIN n1 = DOMAIN ns
    OBVIOUS
  <1> HIDE DEF n1
  <1>10. n2[x] = IF x = q THEN [n1[x] EXCEPT !.previous = p] ELSE n1[x]
    BY <1>5, <1>9
  <1>11. n2[x] \in Node /\ n2[x].next = n1[x].next /\ n2[x].value = n1[x].value
         /\ n2[x].previous = IF x = q THEN p ELSE n1[x].previous
    <2>1. CASE x = q
      <3>1. n2[x] = [n1[x] EXCEPT !.previous = p]
        BY <1>10, <2>1
      <3> HIDE DEF n2
      <3> QED
        BY <1>4, <1>8, <2>1, <3>1 DEF Node
    <2>2. CASE x # q
      BY <1>8, <1>10, <2>2
    <2> QED
      BY <2>1, <2>2
  <1> HIDE DEF n2
  <1>12. /\ n2[x] \in Node
         /\ n2[x].previous = IF j = k + 1 THEN p ELSE Nth(c, j - 1)
         /\ n2[x].next = IF j = k - 1 THEN q ELSE Nth(c, j + 1)
         /\ n2[x].value = ns[x].value
    BY <1>2, <1>3, <1>5, <1>8, <1>11
  <1>13. LET m == Bypassed(ns, p, q)[x]
         IN  /\ m \in Node
             /\ m.previous = IF j = k + 1 THEN p ELSE Nth(c, j - 1)
             /\ m.next = IF j = k - 1 THEN q ELSE Nth(c, j + 1)
             /\ m.value = ns[x].value
    BY <1>6, <1>12
  <1> QED
    BY <1>13 DEF p, q, x

Deleted(ns, x) ==
    [a \in DOMAIN ns \ {x} |-> Bypassed(ns, ns[x].previous, ns[x].next)[a]]

\* list_delete links the neighbours of the node, at either end too.
LEMMA DeleteChains ==
    ASSUME NEW c, NEW ns, NEW first, Chained(c, ns, first), NEW k \in 1 .. Len(c)
    PROVE  /\ Chained(Without(c, k), Deleted(ns, c[k]), IF first = c[k] THEN ns[c[k]].next ELSE first)
           /\ Held(Without(c, k), Deleted(ns, c[k])) = Without(Held(c, ns), k)
  <1> DEFINE b  == Bypassed(ns, Nth(c, k - 1), Nth(c, k + 1))
             ms == [a \in DOMAIN ns \ {c[k]} |-> b[a]]
             d  == Without(c, k)
             n  == Len(c)
             At(j) == IF j < k THEN j ELSE j + 1
  <1>0. c \in Seq(Addr) /\ n \in Nat /\ k \in Nat /\ Distinct(c)
    BY DEF Chained
  <1>1. ns[c[k]].previous = Nth(c, k - 1) /\ ns[c[k]].next = Nth(c, k + 1)
    BY DEF Chained
  <1>2. d \in Seq(Addr) /\ Len(d) = n - 1 /\ \A j \in 1 .. n - 1 : d[j] = c[At(j)]
    BY <1>0, WithoutSeq
  <1>3. \A j \in 1 .. n - 1 : At(j) \in 1 .. n /\ At(j) # k
    BY <1>0
  <1>4. \A j \in 1 .. n : j # k => \E i \in 1 .. n - 1 : j = At(i)
    <2> SUFFICES ASSUME NEW j \in 1 .. n, j # k PROVE \E i \in 1 .. n - 1 : j = At(i)
      OBVIOUS
    <2>1. CASE j < k
      BY <1>0, <2>1
    <2>2. CASE j > k
      <3>1. j - 1 \in 1 .. n - 1 /\ j = At(j - 1)
        BY <1>0, <2>2
      <3> QED
        BY <3>1
    <2> QED
      BY <1>0, <2>1, <2>2
  <1> HIDE DEF d
  <1>5. Distinct(d)
    <2> SUFFICES ASSUME NEW i \in 1 .. n - 1, NEW j \in 1 .. n - 1, d[i] = d[j] PROVE i = j
      BY <1>2 DEF Distinct
    <2>1. At(i) = At(j)
      <3> HIDE DEF At
      <3> QED
        BY <1>0, <1>2, <1>3 DEF Distinct
    <2> QED
      BY <1>0, <2>1
  <1>6. InChain(d) = InChain(c) \ {c[k]}
    <2> HIDE DEF At
    <2>1. ASSUME NEW x \in InChain(d) PROVE x \in InChain(c) \ {c[k]}
      <3>1. PICK j \in 1 .. n - 1 : x = d[j]
        BY <1>2 DEF InChain
      <3>2. x = c[At(j)] /\ At(j) \in 1 .. n /\ At(j) # k
        BY <1>2, <1>3, <3>1
      <3> QED
        BY <1>0, <3>2 DEF InChain, Distinct
    <2>2. ASSUME NEW x \in InChain(c) \ {c[k]} PROVE x \in InChain(d)
      <3>1. PICK j \in 1 .. n : x = c[j] /\ j # k
        BY DEF InChain
      <3>2. PICK i \in 1 .. n - 1 : j = At(i)
        BY <1>4, <3>1
      <3> QED
        BY <1>2, <3>1, <3>2 DEF InChain
    <2> QED
      BY <2>1, <2>2
  <1>7. DOMAIN ms = InChain(d) \cup {Null}
    <2>1. c[k] # Null
      BY <1>0, NodesAreSomewhere DEF Null, NULL
    <2> QED
      BY <1>6, <2>1 DEF Chained
  <1>8. \A j \in 0 .. n : Nth(d, j) = IF j < k THEN Nth(c, j) ELSE Nth(c, j + 1)
    <2> SUFFICES ASSUME NEW j \in 0 .. n PROVE Nth(d, j) = IF j < k THEN Nth(c, j) ELSE Nth(c, j + 1)
      OBVIOUS
    <2>1. CASE j \in 1 .. n - 1
      <3>1. Nth(d, j) = c[At(j)]
        BY <1>2, <2>1 DEF Nth
      <3> QED
        BY <1>0, <2>1, <3>1 DEF Nth
    <2>2. CASE j \notin 1 .. n - 1
      BY <1>0, <1>2, <2>2 DEF Nth
    <2> QED
      BY <2>1, <2>2
  <1>9. (IF first = c[k] THEN ns[c[k]].next ELSE first) = Nth(d, 1)
    <2>1. first = c[1] /\ 1 \in 1 .. n /\ Nth(c, 1) = c[1]
      BY <1>0 DEF Chained, Nth
    <2>2. Nth(d, 1) = IF 1 < k THEN Nth(c, 1) ELSE Nth(c, 2)
      BY <1>0, <1>8
    <2>3. first = c[k] <=> k = 1
      BY <1>0, <2>1 DEF Distinct
    <2>4. CASE k = 1
      BY <1>1, <2>2, <2>3, <2>4
    <2>5. CASE k # 1
      BY <1>0, <2>1, <2>2, <2>3, <2>5
    <2> QED
      BY <2>4, <2>5
  <1>10. ASSUME NEW j \in 1 .. n - 1
         PROVE  /\ ms[d[j]] \in Node
                /\ ms[d[j]].previous = Nth(d, j - 1)
                /\ ms[d[j]].next = Nth(d, j + 1)
                /\ ms[d[j]].value = ns[d[j]].value
    <2> DEFINE i == At(j)
    <2>1. i \in 1 .. n /\ i # k /\ d[j] = c[i]
      BY <1>2, <1>3
    <2>2. /\ b[c[i]] \in Node
          /\ b[c[i]].previous = IF i = k + 1 THEN Nth(c, k - 1) ELSE Nth(c, i - 1)
          /\ b[c[i]].next = IF i = k - 1 THEN Nth(c, k + 1) ELSE Nth(c, i + 1)
          /\ b[c[i]].value = ns[c[i]].value
      <3>1. i \in 1 .. Len(c) /\ i # k /\ k \in 1 .. Len(c)
        BY <2>1
      <3> HIDE DEF i, At, d, ms, n
      <3> QED
        BY <3>1, BypassedIs
    <2>3. ms[c[i]] = b[c[i]]
      <3>1. c[i] \in DOMAIN ns \ {c[k]}
        BY <1>0, <2>1 DEF Chained, InChain, Distinct
      <3> HIDE DEF i, b
      <3> QED
        BY <3>1
    <2>4. j - 1 \in 0 .. n /\ j + 1 \in 0 .. n
      BY <1>0
    <2>5. Nth(d, j - 1) = (IF j - 1 < k THEN Nth(c, j - 1) ELSE Nth(c, (j - 1) + 1))
      BY <1>8, <2>4
    <2>6. Nth(d, j + 1) = (IF j + 1 < k THEN Nth(c, j + 1) ELSE Nth(c, (j + 1) + 1))
      BY <1>8, <2>4
    <2> HIDE DEF b, ms
    <2>7. (IF i = k + 1 THEN Nth(c, k - 1) ELSE Nth(c, i - 1)) = Nth(d, j - 1)
      <3>1. CASE j < k
        BY <1>0, <2>5, <3>1
      <3>2. CASE j = k
        BY <1>0, <2>5, <3>2
      <3>3. CASE j > k
        <4>1. i = j + 1 /\ i # k + 1 /\ i - 1 = j /\ (j - 1) + 1 = j /\ ~(j - 1 < k)
          BY <1>0, <3>3
        <4> QED
          BY <2>5, <4>1
      <3> QED
        BY <1>0, <3>1, <3>2, <3>3
    <2>8. (IF i = k - 1 THEN Nth(c, k + 1) ELSE Nth(c, i + 1)) = Nth(d, j + 1)
      <3>1. CASE j >= k
        <4>1. i = j + 1 /\ i # k - 1 /\ ~(j + 1 < k)
          BY <1>0, <3>1
        <4> QED
          BY <2>6, <4>1
      <3>2. CASE j = k - 1
        <4>1. i = j /\ i = k - 1 /\ ~(j + 1 < k) /\ (j + 1) + 1 = k + 1
          BY <1>0, <3>2
        <4> QED
          BY <2>6, <4>1
      <3>3. CASE j < k - 1
        BY <1>0, <2>6, <3>3
      <3> QED
        BY <1>0, <3>1, <3>2, <3>3
    <2> HIDE DEF i
    <2> QED
      BY <2>1, <2>2, <2>3, <2>7, <2>8
  <1>11. Chained(d, ms, IF first = c[k] THEN ns[c[k]].next ELSE first)
    <2> HIDE DEF ms
    <2> QED
      BY <1>2, <1>5, <1>7, <1>9, <1>10 DEF Chained
  <1>12. Held(d, ms) = Without(Held(c, ns), k)
    <2> DEFINE r == Held(c, ns)
    <2>1. r \in Seq(Values) /\ Len(r) = n /\ \A j \in 1 .. n : r[j] = ns[c[j]].value
      BY HeldSeq DEF Held
    <2> HIDE DEF r, ms
    <2>2. Without(r, k) = [j \in 1 .. n - 1 |-> IF j < k THEN r[j] ELSE r[j + 1]]
      BY <2>1 DEF Without
    <2>3. ASSUME NEW j \in 1 .. n - 1 PROVE ms[d[j]].value = IF j < k THEN r[j] ELSE r[j + 1]
      <3>1. ms[d[j]].value = ns[d[j]].value /\ d[j] = c[At(j)] /\ At(j) \in 1 .. n
        BY <1>2, <1>3, <1>10
      <3>2. r[At(j)] = ns[c[At(j)]].value
        <4> HIDE DEF At
        <4> QED
          BY <2>1, <3>1
      <3>3. ms[d[j]].value = r[At(j)]
        BY <3>1, <3>2
      <3> QED
        BY <3>3
    <2>4. Held(d, ms) = [j \in 1 .. n - 1 |-> ms[d[j]].value]
      BY <1>2 DEF Held
    <2>5. Held(d, ms) = Without(r, k)
      BY <2>2, <2>3, <2>4
    <2> QED
      BY <2>5 DEF r
  <1> QED
    BY <1>1, <1>11, <1>12 DEF d, Deleted

-----------------------------------------------------------------------------
\* The nodes in order, and what they hold.
Order == Chain(nodes, list.head)

InOrder == [k \in DOMAIN Chain(nodes, list.head) |-> nodes[Chain(nodes, list.head)[k]].value]

\* The nodes are those of one sequence, linked in its order both ways, and the
\* list knows how many they are.
ListInv ==
    /\ halted \in BOOLEAN
    /\ Chained(Order, nodes, list.head)
    /\ IF list = NoList THEN Order = <<>> ELSE list = [head |-> list.head, length |-> Len(Order)]

\* What a walk finds in the nodes.
LEMMA InOrderIs == ListInv => InOrder = Held(Order, nodes)
  <1> SUFFICES ASSUME ListInv PROVE InOrder = Held(Order, nodes)
    OBVIOUS
  <1>1. Order \in Seq(Addr)
    BY DEF ListInv, Chained
  <1>2. DOMAIN Order = 1 .. Len(Order)
    BY <1>1
  <1> QED
    BY <1>2 DEF InOrder, Held, Order

\* The same after a step.
LEMMA InOrderIsThen == ListInv' => InOrder' = Held(Order, nodes)'
  <1> SUFFICES ASSUME ListInv' PROVE InOrder' = Held(Order, nodes)'
    OBVIOUS
  <1>1. Order' \in Seq(Addr)
    BY DEF ListInv, Chained
  <1>2. DOMAIN Order' = 1 .. Len(Order')
    BY <1>1
  <1> QED
    BY <1>2 DEF InOrder, Held, Order

\* How a step is shown to keep the invariant: with the sequence it leaves.
LEMMA Relinked ==
    ASSUME NEW c, Chained(c, nodes', list'.head), halted' \in BOOLEAN,
           IF list' = NoList THEN c = <<>> ELSE list' = [head |-> list'.head, length |-> Len(c)]
    PROVE  ListInv' /\ Order' = c /\ InOrder' = Held(c, nodes')
  <1>1. Order' = c
    BY ChainIs DEF Order
  <1>2. ListInv'
    BY <1>1 DEF ListInv
  <1> QED
    BY <1>1, <1>2, InOrderIsThen

\* No list, and no value in it.
LEMMA ListStart == Init => ListInv /\ S!Init
  <1> SUFFICES ASSUME Init PROVE ListInv /\ S!Init
    OBVIOUS
  <1>1. Chained(<<>>, nodes, list.head)
    <2>1. list.head = NULL /\ DOMAIN nodes = {NULL}
      BY DEF Init, NoList
    <2>2. <<>> \in Seq(Addr) /\ Len(<<>>) = 0
      OBVIOUS
    <2>3. InChain(<<>>) = {}
      BY DEF InChain
    <2> QED
      BY <2>1, <2>2, <2>3 DEF Chained, Distinct, Nth, NULL, Null
  <1>2. Order = <<>>
    BY <1>1, ChainIs DEF Order
  <1>3. ListInv
    BY <1>1, <1>2 DEF ListInv, Init
  <1>4. InOrder = <<>>
    <2>1. Held(<<>>, nodes) = <<>>
      BY DEF Held
    <2> QED
      BY <1>2, <1>3, <2>1, InOrderIs
  <1>5. S!Init
    BY <1>4 DEF S!Init, InOrder, Init
  <1> QED
    BY <1>3, <1>5

\* list_create: zeroed memory is an empty list.
LEMMA CreateRight ==
    ASSUME ZeroedRam, ListInv, Create
    PROVE  ListInv' /\ UNCHANGED <<InOrder, halted>>
  <1>1. list' = [head |-> NULL, length |-> 0] /\ nodes' = nodes /\ halted' = halted /\ list = NoList
    BY DEF Create, ZeroedRam
  <1>2. list'.head = NULL /\ list.head = NULL
    BY <1>1 DEF NoList
  <1>3. list' # NoList
    <2>1. list'.length = 0 /\ NoList.length = -1
      BY <1>1 DEF NoList
    <2> QED
      BY <2>1
  <1>4. Chained(<<>>, nodes', list'.head) /\ Order = <<>>
    BY <1>1, <1>2 DEF ListInv
  <1>5. ListInv' /\ InOrder' = Held(<<>>, nodes')
    <2>1. Len(<<>>) = 0
      OBVIOUS
    <2>2. list' = [head |-> list'.head, length |-> Len(<<>>)]
      BY <1>1, <1>2, <2>1
    <2>3. halted' \in BOOLEAN
      BY <1>1 DEF ListInv
    <2> QED
      BY <1>3, <1>4, <2>2, <2>3, Relinked
  <1> QED
    BY <1>1, <1>4, <1>5, InOrderIs

\* list_insert appends the value.
LEMMA InsertRight ==
    ASSUME ListInv, NEW v \in Values, NEW new \in Addr \ Used, Insert(v, new)
    PROVE  ListInv' /\ InOrder' = Append(InOrder, v)
  <1> DEFINE c    == Order
             node == Nth(c, Len(c))
             ms   == Inserted(nodes, node, new, v)
             h    == IF list.head = NULL THEN new ELSE list.head
  <1>0. Chained(c, nodes, list.head) /\ halted \in BOOLEAN /\ list # NoList
        /\ list = [head |-> list.head, length |-> Len(c)]
    BY DEF ListInv, Insert
  <1>1. c \in Seq(Addr) /\ Len(c) \in Nat
    BY <1>0 DEF Chained
  <1>2. node = IF c = <<>> THEN NULL ELSE Last(c)
    BY <1>1 DEF Nth, Last, Null, NULL
  <1>3. nodes' = ms
    BY <1>2 DEF Insert, Inserted, Order
  <1>4. list' = [head |-> h, length |-> list.length + 1] /\ halted' = halted
    BY DEF Insert
  <1>5. new \notin DOMAIN nodes /\ new \in Addr
    BY ListAssumption DEF Used
  <1>6. Chained(Append(c, new), ms, h) /\ Held(Append(c, new), ms) = Append(Held(c, nodes), v)
    BY <1>0, <1>5, InsertChains
  <1>7. Len(Append(c, new)) = Len(c) + 1
    BY <1>1, <1>5
  <1>8. list.length = Len(c)
    BY <1>0
  <1> HIDE DEF c, h, ms, node
  <1>9. list' = [head |-> list'.head, length |-> Len(Append(c, new))] /\ list'.head = h
    BY <1>4, <1>7, <1>8
  <1>10. list' # NoList
    <2>1. list'.length = Len(c) + 1 /\ NoList.length = -1
      BY <1>7, <1>9 DEF NoList
    <2> QED
      BY <1>1, <2>1
  <1>11. ListInv' /\ InOrder' = Held(Append(c, new), nodes')
    BY <1>0, <1>3, <1>4, <1>6, <1>9, <1>10, Relinked
  <1> QED
    BY <1>3, <1>6, <1>11, InOrderIs DEF c

\* The places of v in the list.
PlacesOf(v) == {k \in 1 .. Len(Order) : nodes[Order[k]].value = v}

\* list_delete finds the first node with the value.
LEMMA FindIs ==
    ASSUME NEW v, ListInv
    PROVE  /\ list_find(v) = IF PlacesOf(v) = {} THEN NULL ELSE Order[Min(PlacesOf(v))]
           /\ PlacesOf(v) # {} => Min(PlacesOf(v)) \in PlacesOf(v)
           /\ PlacesOf(v) # {} => list_find(v) # NULL
  <1> DEFINE k == SelectInSeq(Order, LAMBDA a : nodes[a].value = v)
  <1>0. Order \in Seq(Addr) /\ Len(Order) \in Nat
    BY DEF ListInv, Chained
  <1>1. k = IF PlacesOf(v) # {} THEN Min(PlacesOf(v)) ELSE 0
    BY DEF SelectInSeq, PlacesOf
  <1>2. PlacesOf(v) # {} => Min(PlacesOf(v)) \in PlacesOf(v)
    <2> DEFINE I == PlacesOf(v)
    <2>1. I \subseteq Nat
      BY <1>0 DEF PlacesOf
    <2> HIDE DEF I
    <2>2. I # {} => \E x \in I : \A y \in I : x <= y
      BY <2>1, LeastNumber
    <2>3. I # {} => Min(I) \in I
      BY <2>2 DEF Min
    <2> QED
      BY <2>3 DEF I
  <1>3. list_find(v) = IF k = 0 THEN NULL ELSE Order[k]
    BY DEF list_find, Order
  <1>4. PlacesOf(v) # {} => Min(PlacesOf(v)) \in 1 .. Len(Order)
    BY <1>2 DEF PlacesOf
  <1> HIDE DEF k
  <1>5. list_find(v) = IF PlacesOf(v) = {} THEN NULL ELSE Order[Min(PlacesOf(v))]
    BY <1>0, <1>1, <1>3, <1>4
  <1>6. PlacesOf(v) # {} => Order[Min(PlacesOf(v))] # NULL
    BY <1>0, <1>4, NodesAreSomewhere
  <1> QED
    BY <1>2, <1>5, <1>6

\* list_delete removes the first occurrence.
LEMMA DeleteRight ==
    ASSUME ListInv, NEW v \in Values, Delete(v)
    PROVE  ListInv' /\ PlacesOf(v) # {} /\ InOrder' = Without(InOrder, Min(PlacesOf(v)))
  <1> DEFINE c    == Order
             k    == Min(PlacesOf(v))
             node == list_find(v)
             ms   == Deleted(nodes, c[k])
             h    == IF list.head = c[k] THEN nodes[c[k]].next ELSE list.head
             d    == Without(c, k)
  <1>0. Chained(c, nodes, list.head) /\ halted \in BOOLEAN /\ list # NoList
        /\ list = [head |-> list.head, length |-> Len(c)]
    BY DEF ListInv, Delete
  <1>1. PlacesOf(v) # {} /\ node = c[k] /\ k \in PlacesOf(v)
    BY FindIs DEF Delete
  <1>2. c \in Seq(Addr) /\ Len(c) \in Nat /\ k \in 1 .. Len(c)
    BY <1>0, <1>1 DEF Chained, PlacesOf
  <1>3. nodes' = [a \in DOMAIN nodes \ {node} |-> Bypass(node)[a]] /\ halted' = halted
        /\ list' = [head |-> Unlink(node, nodes[node].next), length |-> Shorter(list.length)]
    BY DEF Delete
  <1>4. nodes' = ms
    <2> HIDE DEF k, c, node
    <2> QED
      BY <1>1, <1>3 DEF Bypass, Bypassed, Deleted
  <1>5. list' = [head |-> h, length |-> Len(c) - 1]
    <2>1. list.length = Len(c)
      BY <1>0
    <2> HIDE DEF k, c, node
    <2> QED
      BY <1>1, <1>3, <2>1 DEF Unlink, Shorter
  <1>6. Chained(d, ms, h) /\ Held(d, ms) = Without(Held(c, nodes), k)
    <2> HIDE DEF k, c
    <2> QED
      BY <1>0, <1>2, DeleteChains
  <1>7. Len(d) = Len(c) - 1
    <2> HIDE DEF k, c
    <2> QED
      BY <1>2, WithoutSeq
  <1> HIDE DEF h, ms, d, k, c
  <1>8. list' = [head |-> list'.head, length |-> Len(d)] /\ list'.head = h
    BY <1>5, <1>7
  <1>9. list' # NoList
    <2>1. list'.length = Len(c) - 1 /\ NoList.length = -1
      BY <1>7, <1>8 DEF NoList
    <2> QED
      BY <1>2, <2>1
  <1>10. ListInv' /\ InOrder' = Held(d, nodes')
    BY <1>0, <1>3, <1>4, <1>6, <1>8, <1>9, Relinked
  <1> QED
    BY <1>1, <1>4, <1>6, <1>10, InOrderIs DEF c, k

\* list_destroy frees every node.
LEMMA DestroyRight ==
    ASSUME ListInv, Destroy
    PROVE  ListInv' /\ InOrder' = <<>>
  <1>0. Chained(Order, nodes, list.head) /\ halted' = halted /\ halted \in BOOLEAN /\ list' = NoList
        /\ nodes' = [a \in DOMAIN nodes \ ToSet(Order) |-> nodes[a]]
    BY DEF ListInv, Destroy, Order
  <1>1. Order \in Seq(Addr) /\ DOMAIN nodes = InChain(Order) \cup {Null}
    BY <1>0 DEF Chained
  <1>2. ToSet(Order) = InChain(Order)
    BY <1>1 DEF ToSet, InChain
  <1>3. Null \notin InChain(Order)
    BY <1>1, NodesAreSomewhere DEF InChain, Null, NULL
  <1>4. DOMAIN nodes' = {Null}
    BY <1>0, <1>1, <1>2, <1>3
  <1>5. list'.head = NULL
    BY <1>0 DEF NoList
  <1>6. Chained(<<>>, nodes', list'.head)
    <2>2. <<>> \in Seq(Addr) /\ Len(<<>>) = 0
      OBVIOUS
    <2>3. InChain(<<>>) = {}
      BY DEF InChain
    <2> QED
      BY <1>4, <1>5, <2>2, <2>3 DEF Chained, Distinct, Nth, NULL, Null
  <1>7. ListInv' /\ InOrder' = Held(<<>>, nodes')
    BY <1>0, <1>6, Relinked
  <1>8. Held(<<>>, nodes') = <<>>
    BY DEF Held
  <1> QED
    BY <1>7, <1>8

\* Deleting the first node that holds v deletes the first v.
LEMMA DeletesFirst ==
    ASSUME ListInv, NEW v \in Values, PlacesOf(v) # {}
    PROVE  /\ v \in S!ToSet(InOrder)
           /\ S!RemoveFirst(InOrder, v) = Without(InOrder, Min(PlacesOf(v)))
  <1> DEFINE s == InOrder
             I == PlacesOf(v)
             J == {j \in 1 .. Len(s) : s[j] = v}
  <1>1. s = Held(Order, nodes) /\ s \in Seq(Values) /\ Len(s) = Len(Order)
    BY InOrderIs, HeldSeq DEF ListInv
  <1>2. Len(s) \in Nat /\ DOMAIN s = 1 .. Len(s)
    BY <1>1
  <1>3. \A j \in 1 .. Len(s) : s[j] = nodes[Order[j]].value
    BY <1>1 DEF Held
  <1>4. I = J
    BY <1>1, <1>3 DEF PlacesOf
  <1>5. Min(I) \in 1 .. Len(s)
    BY <1>1, FindIs DEF PlacesOf
  <1> HIDE DEF s
  <1>6. S!SelectInSeq(s, LAMBDA w : w = v) = IF J # {} THEN S!Min(J) ELSE 0
    BY DEF S!SelectInSeq
  <1>7. \E j \in 1 .. Len(s) : s[j] = v
    BY <1>4
  <1>8. S!Min(I) = Min(I)
    BY DEF S!Min, Min
  <1>9. S!SelectInSeq(s, LAMBDA w : w = v) = Min(I)
    BY <1>4, <1>6, <1>8
  <1>10. S!RemoveFirst(s, v) = S!RemoveAt(s, S!SelectInSeq(s, LAMBDA w : w = v))
    BY <1>7 DEF S!RemoveFirst
  <1>11. S!RemoveAt(s, Min(I)) = SubSeq(s, 1, Min(I) - 1) \o SubSeq(s, Min(I) + 1, Len(s))
    BY DEF S!RemoveAt
  <1>12. S!RemoveFirst(s, v) = Without(s, Min(I))
    <2> HIDE DEF I
    <2> QED
      BY <1>1, <1>5, <1>9, <1>10, <1>11, WithoutIs
  <1>13. v \in S!ToSet(s)
    BY <1>2, <1>7 DEF S!ToSet
  <1> QED
    BY <1>12, <1>13 DEF s

\* A step of list.c is one of the sequence.
LEMMA ListStep ==
    ASSUME ZeroedRam, ListInv, [Next]_vars
    PROVE  ListInv' /\ [S!Next]_S!vars
  <1>1. ASSUME UNCHANGED nodes, UNCHANGED list, halted' \in BOOLEAN PROVE ListInv' /\ InOrder' = InOrder
    <2>1. ListInv'
      BY <1>1 DEF ListInv, Order
    <2>2. InOrder' = InOrder
      BY <1>1 DEF InOrder
    <2> QED
      BY <2>1, <2>2
  <1>2. CASE Create
    <2>1. ListInv' /\ InOrder' = InOrder /\ halted' = halted
      BY <1>2, CreateRight
    <2> QED
      BY <2>1 DEF S!vars, InOrder
  <1>3. ASSUME NEW v \in Values, NEW new \in Addr \ Used, Insert(v, new) PROVE ListInv' /\ [S!Next]_S!vars
    <2>1. ListInv' /\ InOrder' = Append(InOrder, v)
      BY <1>3, InsertRight
    <2>2. ~halted /\ halted' = halted
      BY <1>3 DEF Insert
    <2>3. S!Insert(v)
      BY <2>1, <2>2 DEF S!Insert, InOrder
    <2> QED
      BY <2>1, <2>3 DEF S!Next
  <1>4. CASE InsertHalts
    <2>1. ListInv' /\ InOrder' = InOrder /\ halted' = TRUE
      BY <1>1, <1>4 DEF InsertHalts
    <2>2. S!Stop
      BY <2>1 DEF S!Stop, InOrder
    <2> QED
      BY <2>1, <2>2 DEF S!Next
  <1>5. ASSUME NEW v \in Values, Delete(v) PROVE ListInv' /\ [S!Next]_S!vars
    <2>1. ListInv' /\ PlacesOf(v) # {} /\ InOrder' = Without(InOrder, Min(PlacesOf(v)))
      BY <1>5, DeleteRight
    <2>2. ~halted /\ halted' = halted
      BY <1>5 DEF Delete
    <2>3. v \in S!ToSet(InOrder) /\ InOrder' = S!RemoveFirst(InOrder, v)
      BY <2>1, DeletesFirst
    <2>4. S!Delete(v)
      BY <2>2, <2>3 DEF S!Delete, InOrder
    <2> QED
      BY <2>1, <2>4 DEF S!Next
  <1>6. ASSUME NEW v \in Values, DeleteHalts(v) PROVE ListInv' /\ [S!Next]_S!vars
    <2>1. ListInv' /\ InOrder' = InOrder /\ halted' = TRUE
      BY <1>1, <1>6 DEF DeleteHalts
    <2>2. S!Stop
      BY <2>1 DEF S!Stop, InOrder
    <2> QED
      BY <2>1, <2>2 DEF S!Next
  <1>7. CASE Destroy
    <2>1. ListInv' /\ InOrder' = <<>>
      BY <1>7, DestroyRight
    <2>2. ~halted /\ halted' = halted
      BY <1>7 DEF Destroy
    <2>3. S!Clear
      BY <2>1, <2>2 DEF S!Clear, InOrder
    <2> QED
      BY <2>1, <2>3 DEF S!Next
  <1>8. CASE UNCHANGED vars
    <2>1. ListInv' /\ InOrder' = InOrder /\ halted' = halted
      BY <1>1, <1>8 DEF vars, ListInv
    <2> QED
      BY <2>1 DEF S!vars, InOrder
  <1> QED
    BY <1>2, <1>3, <1>4, <1>5, <1>6, <1>7, <1>8 DEF Next

\* What the invariant says of the nodes.
LEMMA ListFacts == ListInv => TypeOK /\ LengthCounts /\ NoNodeLost /\ BackLinked
  <1> SUFFICES ASSUME ListInv PROVE TypeOK /\ LengthCounts /\ NoNodeLost /\ BackLinked
    OBVIOUS
  <1> DEFINE c == Order
  <1>0. Chained(c, nodes, list.head) /\ halted \in BOOLEAN
    BY DEF ListInv
  <1>1. c \in Seq(Addr) /\ Len(c) \in Nat /\ DOMAIN c = 1 .. Len(c) /\ DOMAIN nodes = InChain(c) \cup {Null}
        /\ list.head = Nth(c, 1)
    BY <1>0 DEF Chained
  <1>2. \A k \in 1 .. Len(c) : c[k] \in Addr /\ c[k] # NULL
    BY <1>1, NodesAreSomewhere
  <1>3. Used = InChain(c)
    BY <1>1, <1>2 DEF Used, InChain, Null, NULL
  <1>4. LengthCounts
    <2>1. list # NoList => list.length = Len(c)
      BY DEF ListInv
    <2> QED
      BY <2>1 DEF LengthCounts, Order
  <1>5. NoNodeLost
    BY <1>1, <1>3 DEF NoNodeLost, ToSet, InChain, Order
  <1>6. BackLinked
    <2>1. ASSUME NEW k \in 1 .. Len(c) PROVE nodes[c[k]].previous = IF k = 1 THEN NULL ELSE c[k - 1]
      <3>1. nodes[c[k]].previous = Nth(c, k - 1)
        BY <1>0 DEF Chained
      <3> QED
        BY <1>1, <3>1 DEF Nth, NULL, Null
    <2> QED
      BY <1>1, <2>1 DEF BackLinked, Order
  <1>7. TypeOK
    <2>1. list \in [head : Addr \cup {NULL}, length : Nat] \cup {NoList}
      <3>1. list.head \in Addr \cup {NULL}
        BY <1>1, <1>2 DEF Nth, NULL, Null
      <3>2. list # NoList => list = [head |-> list.head, length |-> Len(c)]
        BY DEF ListInv
      <3> HIDE DEF c
      <3> QED
        BY <1>1, <3>1, <3>2
    <2>2. DOMAIN nodes \subseteq Addr \cup {NULL}
      BY <1>1, <1>2 DEF InChain, NULL, Null
    <2>3. ASSUME NEW a \in Used PROVE nodes[a] \in Node
      <3>1. PICK k \in 1 .. Len(c) : a = c[k]
        BY <1>3 DEF InChain
      <3> QED
        BY <1>0, <3>1 DEF Chained
    <2> QED
      BY <1>0, <2>1, <2>2, <2>3 DEF TypeOK, Node, NULL, Null
  <1> QED
    BY <1>4, <1>5, <1>6, <1>7

-----------------------------------------------------------------------------
(***************************************************************************)
(* Numerals.                                                               *)
(***************************************************************************)
\* A word is a power of 16.
LEMMA WordsFacts ==
    /\ HexDigits \in Nat \ {0} /\ Word = N!WordsOf[HexDigits]
    /\ N!WordsOf[0] = 1
    /\ \A k \in 1 .. HexDigits : N!WordsOf[k] = 16 * N!WordsOf[k - 1]
    /\ \A k \in 0 .. HexDigits : N!WordsOf[k] \in Nat \ {0}
  <1> DEFINE n    == HexDigits
             D(d) == [k \in 0 .. n |-> IF k = 0 THEN 1 ELSE 16 * d[k - 1]]
             w    == N!WordsOf
             G    == [k \in 1 .. n |-> [x \in Nat \ {0} |-> 16 * x]]
  <1>0. n \in Nat \ {0} /\ Word = w[n]
    BY LibraryAssumption DEF N!NumeralsAssumption
  <1>1. G \in [1 .. n -> [Nat \ {0} -> Nat \ {0}]]
    OBVIOUS
  <1>2. PICK f \in [0 .. n -> Nat \ {0}] : Follows(f, 1, G, n)
    <2> DEFINE T == Nat \ {0}
    <2>1. 1 \in T /\ n \in Nat /\ G \in [1 .. n -> [T -> T]]
      BY <1>0, <1>1
    <2> HIDE DEF G, T
    <2>2. \E f \in [0 .. n -> T] : Follows(f, 1, G, n)
      BY <2>1, RecursionExists
    <2> QED
      BY <2>2 DEF T
  <1>3. f = D(f)
    <2>1. \A k \in 1 .. n : f[k] = 16 * f[k - 1]
      <3> SUFFICES ASSUME NEW k \in 1 .. n PROVE f[k] = 16 * f[k - 1]
        OBVIOUS
      <3>1. f[k] = G[k][f[k - 1]]
        BY <1>2 DEF Follows
      <3>2. k - 1 \in 0 .. n
        BY <1>0
      <3>3. f[k - 1] \in Nat \ {0}
        BY <1>2, <3>2
      <3> QED
        BY <3>1, <3>3
    <2>2. f[0] = 1
      BY <1>2 DEF Follows
    <2> QED
      BY <1>0, <2>1, <2>2
  <1>4. w = CHOOSE d : d = D(d)
    BY DEF N!WordsOf
  <1>5. w = D(w)
    BY <1>3, <1>4
  <1> HIDE DEF w
  <1>6. w[0] = 1 /\ \A k \in 1 .. n : w[k] = 16 * w[k - 1]
    <2>1. 0 \in 0 .. n /\ \A k \in 1 .. n : k \in 0 .. n /\ k # 0
      BY <1>0
    <2> QED
      BY <1>5, <2>1
  <1> DEFINE P == {k \in Nat : k <= n => w[k] \in Nat \ {0}}
  <1>7. 0 \in P
    BY <1>6
  <1>8. ASSUME NEW k \in P, k \in Nat PROVE k + 1 \in P
    <2> SUFFICES ASSUME k + 1 <= n PROVE w[k + 1] \in Nat \ {0}
      OBVIOUS
    <2>1. k + 1 \in 1 .. n /\ (k + 1) - 1 = k /\ w[k] \in Nat \ {0}
      BY <1>0, <1>8
    <2>2. w[k + 1] = 16 * w[k]
      BY <1>6, <2>1
    <2> QED
      BY <2>1, <2>2
  <1>9. Nat \subseteq P
    <2> HIDE DEF P
    <2> QED
      BY <1>7, <1>8, SetInduction
  <1>10. \A k \in 0 .. n : w[k] \in Nat \ {0}
    BY <1>0, <1>9
  <1> QED
    BY <1>0, <1>6, <1>10 DEF w

\* A word holds a digit.
LEMMA WordFacts == Word \in Nat /\ Word >= 16
  <1>1. HexDigits \in 1 .. HexDigits /\ HexDigits - 1 \in 0 .. HexDigits
    BY WordsFacts
  <1>2. Word = 16 * N!WordsOf[HexDigits - 1] /\ N!WordsOf[HexDigits - 1] \in Nat \ {0}
    BY <1>1, WordsFacts
  <1> QED
    BY <1>2

\* Read from the left, digits stand for the number that their partial values lead to.
LEMMA ValueIs ==
    ASSUME NEW t \in Seq(Int), NEW g \in [0 .. Len(t) -> Int], g[0] = 0,
           \A k \in 1 .. Len(t) : g[k] = g[k - 1] * N!base + t[k]
    PROVE  N!Value(t) = g[Len(t)]
  <1> DEFINE n    == Len(t)
             D(d) == [k \in 0 .. n |-> IF k = 0 THEN 0 ELSE d[k - 1] * N!base + t[k]]
             v    == CHOOSE d : d = D(d)
  <1>0. n \in Nat
    OBVIOUS
  <1>1. N!Value(t) = v[n]
    BY DEF N!Value
  <1>2. g = D(g)
    BY <1>0
  <1>3. v = D(v)
    BY <1>2
  <1> HIDE DEF v
  <1>4. v[0] = 0 /\ \A k \in 1 .. n : v[k] = v[k - 1] * N!base + t[k]
    <2>1. 0 \in 0 .. n /\ \A k \in 1 .. n : k \in 0 .. n /\ k # 0
      BY <1>0
    <2> QED
      BY <1>3, <2>1
  <1> DEFINE P == {k \in Nat : k <= n => v[k] = g[k]}
  <1>7. 0 \in P
    BY <1>4
  <1>8. ASSUME NEW k \in P, k \in Nat PROVE k + 1 \in P
    <2> SUFFICES ASSUME k + 1 <= n PROVE v[k + 1] = g[k + 1]
      OBVIOUS
    <2>1. k + 1 \in 1 .. n /\ (k + 1) - 1 = k /\ v[k] = g[k]
      BY <1>0, <1>8
    <2>2. v[k + 1] = v[k] * N!base + t[k + 1] /\ g[k + 1] = g[k] * N!base + t[k + 1]
      BY <1>4, <2>1
    <2> QED
      BY <2>1, <2>2
  <1>9. Nat \subseteq P
    <2> HIDE DEF P
    <2> QED
      BY <1>7, <1>8, SetInduction
  <1>10. n \in P
    BY <1>0, <1>9
  <1> QED
    BY <1>1, <1>10

-----------------------------------------------------------------------------
\* The number itoa makes digits of.
Negative == arg % Word >= Word \div 2 /\ N!base = 10

Magnitude == IF Negative THEN (Word - (arg % Word)) % Word ELSE arg % Word

Figures == 0 .. N!base - 1

\* h[k] is the number above the digits of s, with the last k of them appended.
Horner(b, h, s, top) ==
    /\ h \in [0 .. Len(s) -> Nat] /\ h[0] = top
    /\ \A k \in 1 .. Len(s) : h[k] = h[k - 1] * b + s[Len(s) + 1 - k]

\* While digits are split off.
Splitting ==
    /\ number \in 0 .. Word - 1 /\ str \in Seq(Figures)
    /\ \E h : /\ Horner(N!base, h, str, number) /\ h[Len(str)] = Magnitude
              /\ str # <<>> => h[1] # 0
    /\ N!base = 16 => Len(str) <= HexDigits /\ number < N!WordsOf[HexDigits - Len(str)]

\* The digits d, last first, are all of the number.
Complete(d) ==
    /\ d \in Seq(Figures) /\ Len(d) >= 1
    /\ \E h : Horner(N!base, h, d, 0) /\ h[Len(d)] = Magnitude
    /\ d[Len(d)] # 0 \/ d = <<0>>
    /\ N!base = 16 => Len(d) <= HexDigits

WithSign(d) == IF negative THEN Append(d, N!MINUS) ELSE d

\* reverse has swapped what is outside of lo .. hi.
Turned(s) ==
    /\ DOMAIN str = 1 .. Len(s)
    /\ lo \in Nat /\ hi \in Nat /\ lo >= 1 /\ lo + hi = Len(s) + 1
    /\ str = [k \in 1 .. Len(s) |-> IF lo <= k /\ k <= hi THEN s[k] ELSE s[Len(s) + 1 - k]]

NumInv ==
    /\ printer \in {"printf", "sprintf"}
    /\ conversion \in {"d", "x", "ld", "lx"} /\ arg \in Nat
    /\ conversion \in {"d", "x"} => arg < Word
    /\ conversion \in {"ld", "lx"} => arg \in Long
    /\ itoa \in {"convert", "digits", "reverse", "done"}
    /\ itoa = "convert" => number = 0 /\ negative = FALSE /\ str = <<>>
    /\ itoa # "convert" => negative = Negative
    /\ itoa = "digits" => Splitting
    /\ itoa \in {"reverse", "done"} => number = 0 /\ \E d : Complete(d) /\ Turned(WithSign(d))
    /\ itoa = "done" => ~(lo < hi) /\ text = N!Padding \o str

\* itoa is called with two bases.
LEMMA BaseIs == N!base \in {10, 16}
  BY DEF N!base

\* A digit is a number.
LEMMA FiguresAre == Figures \subseteq Nat /\ Figures \subseteq Int /\ 0 \in Figures
  BY BaseIs DEF Figures

\* Argument and magnitude fit in a word.
LEMMA NumberRanges ==
    ASSUME arg \in Nat
    PROVE  arg % Word \in 0 .. Word - 1 /\ Magnitude \in 0 .. Word - 1
  <1> DEFINE n == arg % Word
  <1>1. n \in 0 .. Word - 1
    BY WordFacts
  <1> HIDE DEF n
  <1>2. (Word - n) % Word \in 0 .. Word - 1
    BY <1>1, WordFacts
  <1> QED
    BY <1>1, <1>2 DEF Magnitude, n

\* No digit is split off at the start.
LEMMA NumStart == N!Init => NumInv
  <1> SUFFICES ASSUME N!Init PROVE NumInv
    OBVIOUS
  <1>1. Short \subseteq 0 .. Word - 1 /\ Long \subseteq 0 .. Word * Word - 1 /\ Word \in Nat
    BY LibraryAssumption, WordFacts DEF N!NumeralsAssumption
  <1>2. Long \subseteq Nat /\ Short \subseteq Nat /\ \A n \in Short : n < Word
    BY <1>1
  <1> QED
    BY <1>2 DEF N!Init, NumInv

\* Converting the argument.
LEMMA ConvertRight ==
    ASSUME NumInv, N!Convert
    PROVE  NumInv'
  <1> USE DEF N!Convert
  <1>1. UNCHANGED <<printer, conversion, arg, str, lo, hi, text>> /\ itoa = "convert" /\ itoa' = "digits" /\ str = <<>>
    BY DEF NumInv
  <1>2. N!base' = N!base
    BY <1>1 DEF N!base
  <1>3. negative' = Negative /\ Negative' = Negative
    BY <1>1, <1>2 DEF Negative
  <1>4. number' = Magnitude /\ Magnitude' = Magnitude
    BY <1>1, <1>2, <1>3 DEF Magnitude, Negative
  <1>5. Magnitude \in 0 .. Word - 1
    BY NumberRanges DEF NumInv
  <1>6. Splitting'
    <2> DEFINE h == [k \in 0 .. 0 |-> Magnitude]
    <2>1. str' = <<>> /\ Len(<<>>) = 0 /\ <<>> \in Seq(Figures)
      BY <1>1
    <2>2. Horner(N!base, h, str', number')
      BY <1>4, <1>5, <2>1 DEF Horner
    <2>3. h[0] = Magnitude'
      BY <1>4
    <2>4. number' < N!WordsOf[HexDigits - 0]
      BY <1>4, <1>5, WordsFacts, WordFacts
    <2>5. Figures' = Figures
      BY <1>2 DEF Figures
    <2>6. 0 <= HexDigits
      BY WordsFacts
    <2>7. \E g : Horner(N!base', g, str', number') /\ g[Len(str')] = Magnitude' /\ (str' # <<>> => g[1] # 0)
      <3> HIDE DEF h
      <3>1. h[Len(str')] = Magnitude'
        BY <2>1, <2>3
      <3> QED
        BY <1>2, <2>1, <2>2, <3>1
    <2>8. number' \in 0 .. Word - 1
      BY <1>4, <1>5
    <2>9. str' \in Seq(Figures')
      BY <2>1, <2>5
    <2>10. Len(str') = 0
      BY <2>1
    <2> QED
      BY <2>4, <2>6, <2>7, <2>8, <2>9, <2>10 DEF Splitting
  <1> QED
    BY <1>1, <1>2, <1>3, <1>6 DEF NumInv

\* The number above the digits, put together again.
LEMMA Recomposed == \A b \in {10, 16} : \A n \in Nat :
        /\ n \div b \in Nat /\ n % b \in 0 .. b - 1 /\ (n \div b) * b + (n % b) = n
        /\ n \div b <= n
  <1>1. \A n \in Nat : /\ n \div 10 \in Nat /\ n % 10 \in 0 .. 10 - 1 /\ (n \div 10) * 10 + (n % 10) = n
                       /\ n \div 10 <= n
    OBVIOUS
  <1>2. \A n \in Nat : /\ n \div 16 \in Nat /\ n % 16 \in 0 .. 16 - 1 /\ (n \div 16) * 16 + (n % 16) = n
                       /\ n \div 16 <= n
    OBVIOUS
  <1> QED
    BY <1>1, <1>2

\* One more digit.
LEMMA HornerShifts ==
    ASSUME NEW b, NEW T, NEW s \in Seq(T), NEW n \in Nat, NEW h, Horner(b, h, s, n),
           NEW m \in Nat, NEW e \in T, m * b + e = n
    PROVE  \E g : Horner(b, g, Append(s, e), m) /\ g[Len(s) + 1] = h[Len(s)] /\ g[1] = n
  <1> DEFINE t == Append(s, e)
             g == [k \in 0 .. Len(s) + 1 |-> IF k = 0 THEN m ELSE h[k - 1]]
  <1>0. Len(s) \in Nat /\ h \in [0 .. Len(s) -> Nat] /\ h[0] = n
    BY DEF Horner
  <1>1. m \in Nat /\ m * b + e = n
    OBVIOUS
  <1>2. e \in T
    OBVIOUS
  <1>3. Len(t) = Len(s) + 1 /\ t[Len(s) + 1] = e /\ \A k \in 1 .. Len(s) : t[k] = s[k]
    BY <1>2, AppendProperties
  <1>4. g \in [0 .. Len(s) + 1 -> Nat]
    BY <1>0, <1>1
  <1>5. ASSUME NEW k \in 1 .. Len(s) + 1
        PROVE  g[k] = g[k - 1] * b + t[(Len(s) + 1) + 1 - k]
    <2>1. CASE k = 1
      <3>1. g[1] = n /\ g[0] = m
        BY <1>0
      <3>2. (Len(s) + 1) + 1 - k = Len(s) + 1 /\ k - 1 = 0
        BY <1>0, <2>1
      <3> HIDE DEF g, t
      <3> QED
        BY <1>1, <1>3, <2>1, <3>1, <3>2
    <2>2. CASE k # 1
      <3>1. k - 1 \in 1 .. Len(s) /\ (Len(s) + 1) + 1 - k \in 1 .. Len(s)
            /\ Len(s) + 1 - (k - 1) = (Len(s) + 1) + 1 - k /\ k - 1 \in 0 .. Len(s) + 1 /\ k - 1 # 0
            /\ k \in 0 .. Len(s) + 1 /\ k # 0
        BY <1>0, <2>2
      <3>2. g[k] = h[k - 1] /\ g[k - 1] = h[(k - 1) - 1]
        BY <3>1
      <3>3. h[k - 1] = h[(k - 1) - 1] * b + s[Len(s) + 1 - (k - 1)]
        BY <3>1 DEF Horner
      <3> HIDE DEF g, t
      <3> QED
        BY <1>3, <3>1, <3>2, <3>3
    <2> QED
      BY <2>1, <2>2
  <1>6. g[0] = m /\ g[1] = n /\ g[Len(s) + 1] = h[Len(s)]
    BY <1>0
  <1> HIDE DEF g, t
  <1>7. Horner(b, g, t, m)
    BY <1>3, <1>4, <1>5, <1>6 DEF Horner
  <1>8. Horner(b, g, Append(s, e), m) /\ g[Len(s) + 1] = h[Len(s)] /\ g[1] = n
    BY <1>6, <1>7 DEF t
  <1> QED
    BY <1>8

\* Splitting a digit off keeps the value of number and digits together.
LEMMA DigitRight ==
    ASSUME NumInv, N!Digit
    PROVE  NumInv'
  <1>1. UNCHANGED <<printer, conversion, arg, itoa, negative, lo, hi, text>> /\ itoa = "digits" /\ number # 0
        /\ str' = Append(str, number % N!base) /\ number' = number \div N!base
    BY DEF N!Digit, N!Remainder
  <1>2. N!base' = N!base /\ Figures' = Figures
    BY <1>1 DEF N!base, Figures
  <1>3. Negative' = Negative /\ Magnitude' = Magnitude
    BY <1>1, <1>2 DEF Negative, Magnitude
  <1>4. Splitting
    BY <1>1 DEF NumInv
  <1>5. number \in Nat /\ number < Word /\ str \in Seq(Figures) /\ Len(str) \in Nat /\ Word \in Nat
    BY <1>4, WordFacts DEF Splitting
  <1>6. PICK h : Horner(N!base, h, str, number) /\ h[Len(str)] = Magnitude /\ (str # <<>> => h[1] # 0)
    BY <1>4 DEF Splitting
  <1>7. number \div N!base \in Nat /\ number % N!base \in Figures /\ number \div N!base <= number
    BY <1>5, BaseIs, Recomposed DEF Figures
  <1>8. str' \in Seq(Figures') /\ Len(str') = Len(str) + 1
    BY <1>1, <1>2, <1>5, <1>7, AppendProperties
  <1>9. number' \in 0 .. Word - 1
    BY <1>1, <1>5, <1>7
  <1>10. \E g : Horner(N!base', g, str', number') /\ g[Len(str')] = Magnitude' /\ (str' # <<>> => g[1] # 0)
    <2>1. \E g : /\ Horner(N!base, g, Append(str, number % N!base), number \div N!base)
                 /\ g[Len(str) + 1] = h[Len(str)] /\ g[1] = number
      <3> DEFINE b == N!base
                 T == Figures
                 m == number \div b
                 e == number % b
      <3>1. str \in Seq(T) /\ number \in Nat /\ Horner(b, h, str, number)
            /\ m \in Nat /\ e \in T /\ m * b + e = number
        BY <1>5, <1>6, <1>7, BaseIs, Recomposed
      <3> HIDE DEF b, T, m, e
      <3>2. \E g : Horner(b, g, Append(str, e), m) /\ g[Len(str) + 1] = h[Len(str)] /\ g[1] = number
        BY <3>1, HornerShifts
      <3> QED
        BY <3>2 DEF b, m, e
    <2> QED
      BY <1>1, <1>2, <1>3, <1>6, <1>8, <2>1
  <1>11. ASSUME N!base' = 16 PROVE Len(str') <= HexDigits /\ number' < N!WordsOf[HexDigits - Len(str')]
    <2> DEFINE m == HexDigits - Len(str)
    <2>1. HexDigits \in Nat /\ Len(str) <= HexDigits /\ number < N!WordsOf[m] /\ N!base = 16
      BY <1>2, <1>4, <1>11, WordsFacts DEF Splitting
    <2>2. m # 0
      <3>1. CASE m = 0
        <4>1. number < 1
          BY <2>1, <3>1, WordsFacts
        <4> QED
          BY <1>1, <1>5, <4>1
      <3> QED
        BY <3>1
    <2>3. m \in 1 .. HexDigits /\ m - 1 \in 0 .. HexDigits /\ m - 1 = HexDigits - (Len(str) + 1)
      BY <1>5, <2>1, <2>2
    <2> HIDE DEF m
    <2> DEFINE w == N!WordsOf[m - 1]
    <2>4. N!WordsOf[m] = 16 * w /\ w \in Nat
      BY <2>3, WordsFacts
    <2>5. number < 16 * w
      BY <2>1, <2>4
    <2> HIDE DEF w
    <2>6. number \div 16 < w
      BY <1>5, <2>4, <2>5
    <2> QED
      BY <1>1, <1>5, <1>8, <2>1, <2>3, <2>6 DEF w, m
  <1>12. Splitting'
    BY <1>8, <1>9, <1>10, <1>11 DEF Splitting
  <1> QED
    BY <1>1, <1>2, <1>3, <1>12 DEF NumInv

\* When number is 0 the digits are all of it: zero gets its digit, a negative number its sign.
LEMMA CompleteRight ==
    ASSUME NumInv, N!Complete
    PROVE  NumInv'
  <1>1. UNCHANGED <<printer, conversion, arg, number, negative, text>> /\ itoa = "digits" /\ itoa' = "reverse"
        /\ number = 0 /\ str' = N!Completed /\ lo' = 1 /\ hi' = Len(N!Completed)
    BY DEF N!Complete
  <1>2. N!base' = N!base /\ Figures' = Figures
    BY <1>1 DEF N!base, Figures
  <1>3. Negative' = Negative /\ Magnitude' = Magnitude /\ negative = Negative
    BY <1>1, <1>2 DEF Negative, Magnitude, NumInv
  <1>4. Splitting
    BY <1>1 DEF NumInv
  <1>5. str \in Seq(Figures) /\ Len(str) \in Nat
    BY <1>4 DEF Splitting
  <1>6. PICK h : Horner(N!base, h, str, 0) /\ h[Len(str)] = Magnitude /\ (str # <<>> => h[1] # 0)
    BY <1>1, <1>4 DEF Splitting
  <1>7. PICK d : Complete(d) /\ str' = WithSign(d)
    <2> DEFINE d == IF str = <<>> THEN <<0>> ELSE str
    <2>0. Complete(d)
      <3>1. CASE str = <<>>
        <4>0. d = <<0>> /\ Len(<<0>>) = 1
          BY <3>1
        <4>1. Magnitude = 0
          BY <1>6, <3>1 DEF Horner
        <4> DEFINE g == [k \in 0 .. 1 |-> 0]
        <4>2. Horner(N!base, g, <<0>>, 0) /\ g[1] = Magnitude
          <5>1. N!base \in Nat
            BY BaseIs
          <5>2. 0 * N!base + 0 = 0
            BY <5>1
          <5>3. g \in [0 .. 1 -> Nat] /\ g[0] = 0 /\ g[1] = 0
            OBVIOUS
          <5>4. \A k \in 1 .. 1 : g[k] = g[k - 1] * N!base + <<0>>[1 + 1 - k]
            BY <5>2
          <5> QED
            BY <4>0, <4>1, <5>3, <5>4 DEF Horner
        <4>3. <<0>> \in Seq(Figures)
          BY FiguresAre
        <4>4. 1 <= HexDigits
          BY WordsFacts
        <4> HIDE DEF g, d
        <4>5. \E f : Horner(N!base, f, d, 0) /\ f[Len(d)] = Magnitude
          BY <4>0, <4>2
        <4> QED
          BY <4>0, <4>3, <4>4, <4>5 DEF Complete
      <3>2. CASE str # <<>>
        <4>1. d = str /\ Len(str) >= 1
          BY <1>5, <3>2
        <4>2. h[1] = h[0] * N!base + str[Len(str) + 1 - 1] /\ h[0] = 0
          BY <1>5, <1>6, <4>1 DEF Horner
        <4>3. str[Len(str)] # 0
          <5>1. Len(str) + 1 - 1 = Len(str) /\ 0 * N!base = 0 /\ h[1] # 0
            BY <1>5, <1>6, <3>2, BaseIs
          <5>2. str[Len(str)] \in Nat
            <6>1. str[Len(str)] \in Figures
              BY <1>5, <4>1
            <6> QED
              BY <6>1, FiguresAre
          <5> QED
            BY <4>2, <5>1, <5>2
        <4>4. N!base = 16 => Len(str) <= HexDigits
          BY <1>4 DEF Splitting
        <4> HIDE DEF d
        <4>5. \E f : Horner(N!base, f, d, 0) /\ f[Len(d)] = Magnitude
          BY <1>6, <4>1
        <4> QED
          BY <1>5, <4>1, <4>3, <4>4, <4>5 DEF Complete
      <3> QED
        BY <3>1, <3>2
    <2>8. str' = WithSign(d)
      <3>1. CASE str = <<>>
        <4>1. Magnitude = 0
          BY <1>6, <3>1 DEF Horner
        <4>2. ~Negative
          <5> SUFFICES ASSUME Negative PROVE FALSE
            OBVIOUS
          <5> DEFINE n == arg % Word
          <5>1. n \in 0 .. Word - 1 /\ n >= Word \div 2
            BY NumberRanges DEF NumInv, Negative
          <5> HIDE DEF n
          <5>2. n >= 1 /\ Word - n \in 0 .. Word - 1
            BY <5>1, WordFacts
          <5>3. (Word - n) % Word = Word - n
            BY <5>2, WordFacts
          <5>4. Magnitude = (Word - n) % Word
            BY DEF Magnitude, n
          <5> QED
            BY <4>1, <5>1, <5>2, <5>3, <5>4, WordFacts
        <4> QED
          BY <1>1, <1>3, <3>1, <4>2 DEF N!Completed, WithSign
      <3>2. CASE str # <<>>
        BY <1>1, <3>2 DEF N!Completed, WithSign
      <3> QED
        BY <3>1, <3>2
    <2> HIDE DEF d
    <2> QED
      BY <2>0, <2>8
  <1>9. WithSign(d) \in Seq(Int) /\ Len(WithSign(d)) \in Nat \ {0}
    <2>1. d \in Seq(Int) /\ Len(d) \in Nat /\ Len(d) >= 1
      <3> DEFINE T == Figures
      <3>1. d \in Seq(T) /\ T \subseteq Int /\ Len(d) >= 1
        BY <1>7, FiguresAre DEF Complete
      <3> HIDE DEF T
      <3> QED
        BY <3>1, SeqWider
    <2>2. N!MINUS \in Int
      BY DEF N!MINUS
    <2> QED
      BY <2>1, <2>2, AppendProperties DEF WithSign
  <1> DEFINE s == WithSign(d)
  <1>10. s' = s /\ Complete(d)'
    <2>1. s' = s
      BY <1>1 DEF WithSign
    <2>2. Complete(d)'
      BY <1>2, <1>3, <1>7 DEF Complete
    <2> QED
      BY <2>1, <2>2
  <1>11. Turned(s)'
    <2> HIDE DEF s
    <2>1. str' = s /\ lo' = 1 /\ hi' = Len(s)
      BY <1>1, <1>7 DEF s
    <2>2. s \in Seq(Int) /\ Len(s) \in Nat \ {0}
      BY <1>9 DEF s
    <2>3. s' = s
      BY <1>10 DEF s
    <2>4. s = [k \in 1 .. Len(s) |-> s[k]] /\ DOMAIN s = 1 .. Len(s)
      BY <2>2
    <2>5. s = [k \in 1 .. Len(s) |-> IF 1 <= k /\ k <= Len(s) THEN s[k] ELSE s[Len(s) + 1 - k]]
      BY <2>2, <2>4
    <2> QED
      BY <2>1, <2>2, <2>3, <2>4, <2>5 DEF Turned
  <1> QED
    BY <1>1, <1>2, <1>3, <1>10, <1>11 DEF NumInv

\* One swap of reverse.
LEMMA SwapRight ==
    ASSUME NumInv, N!Swap
    PROVE  NumInv'
  <1>1. UNCHANGED <<printer, conversion, arg, itoa, number, negative, text>> /\ itoa = "reverse"
        /\ lo < hi /\ lo' = lo + 1 /\ hi' = hi - 1
        /\ str' = [str EXCEPT ![lo] = str[hi], ![hi] = str[lo]]
    BY DEF N!Swap, N!Reversing
  <1>2. N!base' = N!base /\ Figures' = Figures
    BY <1>1 DEF N!base, Figures
  <1>3. Negative' = Negative /\ Magnitude' = Magnitude
    BY <1>1, <1>2 DEF Negative, Magnitude
  <1>4. PICK d : Complete(d) /\ Turned(WithSign(d))
    BY <1>1 DEF NumInv
  <1>5. Complete(d)'
    BY <1>2, <1>3, <1>4 DEF Complete
  <1>6. PICK s : s = WithSign(d)
    OBVIOUS
  <1>7. WithSign(d)' = s
    BY <1>1, <1>6 DEF WithSign
  <1>8. Turned(s)
    BY <1>4, <1>6
  <1> DEFINE n == Len(s)
             V(p, q, k) == IF p <= k /\ k <= q THEN s[k] ELSE s[n + 1 - k]
  <1>9. lo \in Nat /\ hi \in Nat /\ lo >= 1 /\ lo + hi = n + 1 /\ str = [k \in 1 .. n |-> V(lo, hi, k)]
    BY <1>8 DEF Turned
  <1>10. n \in Int /\ lo \in 1 .. n /\ hi \in 1 .. n
    <2>1. n \in Int
      <3>1. d \in Seq(Figures) /\ N!MINUS \in Int
        BY <1>4 DEF Complete, N!MINUS
      <3>2. d \in Seq(Int)
        BY <3>1, SeqWider, FiguresAre
      <3>3. s \in Seq(Int)
        BY <1>6, <3>1, <3>2 DEF WithSign
      <3> QED
        BY <3>3
    <2> QED
      BY <1>1, <1>9, <2>1
  <1> HIDE DEF n
  <1>11. str[lo] = s[lo] /\ str[hi] = s[hi]
    BY <1>1, <1>9, <1>10
  <1>12. ASSUME NEW k \in 1 .. n PROVE str'[k] = V(lo + 1, hi - 1, k)
    <2>1. DOMAIN str = 1 .. n
      BY <1>9
    <2>2. str'[k] = IF k = hi THEN s[lo] ELSE IF k = lo THEN s[hi] ELSE str[k]
      BY <1>1, <1>10, <1>11, <2>1
    <2>3. str[k] = V(lo, hi, k)
      BY <1>9
    <2>4. n + 1 - lo = hi /\ n + 1 - hi = lo
      BY <1>9, <1>10
    <2>5. CASE k = hi
      <3>1. ~(k <= hi - 1)
        BY <1>9, <2>5
      <3> QED
        BY <2>2, <2>4, <2>5, <3>1
    <2>6. CASE k = lo
      <3>1. ~(lo + 1 <= k) /\ k # hi
        BY <1>1, <1>9, <2>6
      <3> QED
        BY <2>2, <2>4, <2>6, <3>1
    <2>7. CASE k # lo /\ k # hi
      <3>1. (lo + 1 <= k /\ k <= hi - 1) <=> (lo <= k /\ k <= hi)
        BY <1>9, <1>10, <2>7
      <3> QED
        BY <2>2, <2>3, <2>7, <3>1
    <2> QED
      BY <2>5, <2>6, <2>7
  <1>13. str' = [k \in 1 .. n |-> V(lo + 1, hi - 1, k)]
    <2>0. DOMAIN str = 1 .. n
      BY <1>9
    <2>1. str' = [k \in 1 .. n |-> str'[k]]
      BY <1>1, <2>0
    <2> HIDE DEF V
    <2> QED
      BY <1>12, <2>1
  <1>14. Turned(s)'
    <2>1. lo' \in Nat /\ hi' \in Nat /\ lo' >= 1 /\ lo' + hi' = n + 1
      BY <1>1, <1>9, <1>10
    <2>2. DOMAIN str' = 1 .. n
      BY <1>13
    <2>3. str' = [k \in 1 .. n |-> V(lo', hi', k)]
      BY <1>1, <1>13
    <2> QED
      BY <2>1, <2>2, <2>3 DEF Turned, n
  <1> QED
    BY <1>1, <1>2, <1>3, <1>5, <1>7, <1>14 DEF NumInv

\* Printing what was reversed.
LEMMA PutRight ==
    ASSUME NumInv, N!Put
    PROVE  NumInv'
  <1>1. UNCHANGED <<printer, conversion, arg, number, negative, str, lo, hi>> /\ itoa = "reverse" /\ itoa' = "done"
        /\ ~(lo < hi) /\ text' = N!Padding \o str
    BY DEF N!Put, N!Reversing
  <1>2. N!base' = N!base /\ Figures' = Figures
    BY <1>1 DEF N!base, Figures
  <1>3. Negative' = Negative /\ Magnitude' = Magnitude
    BY <1>1, <1>2 DEF Negative, Magnitude
  <1>4. PICK d : Complete(d) /\ Turned(WithSign(d))
    BY <1>1 DEF NumInv
  <1>5. Complete(d)'
    BY <1>2, <1>3, <1>4 DEF Complete
  <1>6. Turned(WithSign(d))'
    BY <1>1, <1>4 DEF Turned, WithSign
  <1>7. N!Padding' = N!Padding
    BY <1>1 DEF N!Padding, N!Width
  <1> QED
    BY <1>1, <1>2, <1>3, <1>5, <1>6, <1>7 DEF NumInv

\* Every step of itoa keeps the invariant.
LEMMA NumStep ==
    ASSUME NumInv, [N!Next]_numeral
    PROVE  NumInv'
  <1>1. CASE UNCHANGED numeral
    <2>1. UNCHANGED <<printer, conversion, arg, itoa, number, negative, str, lo, hi, text>>
      BY <1>1 DEF numeral
    <2>2. N!base' = N!base /\ Figures' = Figures
      BY <2>1 DEF N!base, Figures
    <2>3. Negative' = Negative /\ Magnitude' = Magnitude
      BY <2>1, <2>2 DEF Negative, Magnitude
    <2>4. Splitting => Splitting'
      BY <2>1, <2>2, <2>3 DEF Splitting
    <2>5. \A d : Complete(d) /\ Turned(WithSign(d)) => (Complete(d) /\ Turned(WithSign(d)))'
      <3> SUFFICES ASSUME NEW d, Complete(d), Turned(WithSign(d)) PROVE (Complete(d) /\ Turned(WithSign(d)))'
        OBVIOUS
      <3>1. Complete(d)'
        BY <2>2, <2>3 DEF Complete
      <3>2. Turned(WithSign(d))'
        BY <2>1 DEF Turned, WithSign
      <3> QED
        BY <3>1, <3>2
    <2>6. N!Padding' = N!Padding
      BY <2>1 DEF N!Padding, N!Width
    <2> QED
      BY <2>1, <2>2, <2>3, <2>4, <2>5, <2>6 DEF NumInv
  <1>2. CASE N!Next
    BY <1>2, ConvertRight, DigitRight, CompleteRight, SwapRight, PutRight DEF N!Next
  <1> QED
    BY <1>1, <1>2

-----------------------------------------------------------------------------
\* What is printed, before the padding.
LEMMA TurnedRound ==
    ASSUME NEW s \in Seq(Int), Turned(s), ~(lo < hi)
    PROVE  str \in Seq(Int) /\ Len(str) = Len(s) /\ \A k \in 1 .. Len(s) : str[k] = s[Len(s) + 1 - k]
  <1> DEFINE n == Len(s)
  <1>0. n \in Nat
    OBVIOUS
  <1>1. lo \in Nat /\ hi \in Nat /\ lo >= 1 /\ lo + hi = n + 1
        /\ str = [k \in 1 .. n |-> IF lo <= k /\ k <= hi THEN s[k] ELSE s[n + 1 - k]]
    BY DEF Turned
  <1> HIDE DEF n
  <1>2. ASSUME NEW k \in 1 .. n PROVE str[k] = s[n + 1 - k] /\ s[n + 1 - k] \in Int
    <2>1. lo <= k /\ k <= hi => n + 1 - k = k
      BY <1>0, <1>1
    <2>2. n + 1 - k \in 1 .. n
      BY <1>0
    <2> QED
      BY <1>1, <2>1, <2>2 DEF n
  <1>3. str = [k \in 1 .. n |-> str[k]] /\ \A k \in 1 .. n : str[k] \in Int
    BY <1>1, <1>2
  <1> QED
    BY <1>0, <1>2, <1>3 DEF n

\* Zeros in front change nothing.
LEMMA PaddedValue ==
    ASSUME NEW d \in Seq(Int), NEW h, Horner(N!base, h, d, 0), NEW w \in Nat,
           NEW t \in Seq(Int), Len(t) = w + Len(d),
           \A k \in 1 .. w : t[k] = 0, \A k \in 1 .. Len(d) : t[w + k] = d[Len(d) + 1 - k]
    PROVE  N!Value(t) = h[Len(d)]
  <1> DEFINE n == Len(d)
             b == N!base
             g == [k \in 0 .. w + n |-> IF k <= w THEN 0 ELSE h[k - w]]
  <1>0. n \in Nat /\ h \in [0 .. n -> Nat] /\ h[0] = 0
    BY DEF Horner
  <1>b. b \in Nat
    BY BaseIs
  <1>1. g \in [0 .. w + n -> Int] /\ g[0] = 0
    BY <1>0
  <1>2. ASSUME NEW k \in 1 .. w + n PROVE g[k] = g[k - 1] * b + t[k]
    <2> HIDE DEF b
    <2>0. k \in 0 .. w + n /\ k - 1 \in 0 .. w + n
      BY <1>0
    <2>1. CASE k <= w
      <3>1. g[k] = 0 /\ g[k - 1] = 0 /\ t[k] = 0
        BY <1>0, <2>0, <2>1
      <3> HIDE DEF g
      <3> QED
        BY <1>b, <3>1
    <2>2. CASE ~(k <= w)
      <3> DEFINE i == k - w
      <3>1. i \in 1 .. n /\ w + i = k /\ i - 1 = (k - 1) - w
        BY <1>0, <2>2
      <3>2. h[i] = h[i - 1] * b + d[n + 1 - i]
        BY <3>1 DEF Horner, b
      <3>3. g[k] = h[i] /\ g[k - 1] = h[i - 1]
        <4>1. g[k] = h[i]
          BY <2>0, <2>2
        <4>2. CASE k - 1 <= w
          <5>1. i - 1 = 0 /\ g[k - 1] = 0
            BY <1>0, <2>0, <2>2, <4>2
          <5> QED
            BY <1>0, <4>1, <5>1
        <4>3. CASE ~(k - 1 <= w)
          BY <2>0, <3>1, <4>1, <4>3
        <4> QED
          BY <4>2, <4>3
      <3>4. t[k] = d[n + 1 - i]
        <4> HIDE DEF i
        <4> QED
          BY <3>1
      <3> HIDE DEF g, i
      <3> QED
        BY <3>2, <3>3, <3>4
    <2> QED
      BY <2>1, <2>2
  <1>3. g[w + n] = h[n]
    BY <1>0
  <1>4. N!Value(t) = g[Len(t)]
    <2> HIDE DEF g
    <2> QED
      BY <1>1, <1>2, ValueIs
  <1> QED
    BY <1>3, <1>4

\* The parts of what is printed.
LEMMA Laid ==
    ASSUME NumInv, itoa = "done"
    PROVE  \E d, h : /\ Complete(d) /\ d \in Seq(Int) /\ Len(d) \in Nat /\ Len(d) >= 1
                     /\ Horner(N!base, h, d, 0) /\ h[Len(d)] = Magnitude
                     /\ str \in Seq(Int) /\ text = N!Padding \o str
                     /\ Len(str) = IF Negative THEN Len(d) + 1 ELSE Len(d)
                     /\ Negative => str[1] = N!MINUS /\ \A k \in 1 .. Len(d) : str[1 + k] = d[Len(d) + 1 - k]
                     /\ ~Negative => \A k \in 1 .. Len(d) : str[k] = d[Len(d) + 1 - k]
  <1>1. PICK d : Complete(d) /\ Turned(WithSign(d))
    BY DEF NumInv
  <1>2. d \in Seq(Figures) /\ Len(d) >= 1
    BY <1>1 DEF Complete
  <1>3. d \in Seq(Int) /\ Len(d) \in Nat
    BY <1>2, FiguresAre, SeqWider
  <1>4. PICK h : Horner(N!base, h, d, 0) /\ h[Len(d)] = Magnitude
    BY <1>1 DEF Complete
  <1>5. negative = Negative /\ ~(lo < hi) /\ text = N!Padding \o str
    BY DEF NumInv
  <1> DEFINE s == WithSign(d)
  <1>6. s \in Seq(Int) /\ Len(s) = IF Negative THEN Len(d) + 1 ELSE Len(d)
    <2>1. N!MINUS \in Int
      BY DEF N!MINUS
    <2>2. CASE negative
      <3>1. s = Append(d, N!MINUS)
        BY <2>2 DEF WithSign
      <3> HIDE DEF s
      <3> QED
        BY <1>3, <1>5, <2>1, <2>2, <3>1, AppendProperties
    <2>3. CASE ~negative
      BY <1>3, <1>5, <2>3 DEF WithSign
    <2> QED
      BY <2>2, <2>3
  <1>7. str \in Seq(Int) /\ Len(str) = Len(s) /\ \A k \in 1 .. Len(s) : str[k] = s[Len(s) + 1 - k]
    <2> HIDE DEF s
    <2> QED
      BY <1>1, <1>5, <1>6, TurnedRound DEF s
  <1>8. CASE Negative
    <2>1. s = Append(d, N!MINUS) /\ N!MINUS \in Int
      BY <1>5, <1>8 DEF WithSign, N!MINUS
    <2> HIDE DEF s
    <2>2. Len(s) = Len(d) + 1 /\ s[Len(d) + 1] = N!MINUS /\ \A k \in 1 .. Len(d) : s[k] = d[k]
      BY <1>3, <2>1, AppendProperties
    <2>3. str[1] = N!MINUS
      <3>1. 1 \in 1 .. Len(s) /\ Len(s) + 1 - 1 = Len(d) + 1
        BY <1>3, <2>2
      <3> QED
        BY <1>7, <2>2, <3>1
    <2>4. ASSUME NEW k \in 1 .. Len(d) PROVE str[1 + k] = d[Len(d) + 1 - k]
      <3>1. 1 + k \in 1 .. Len(s) /\ Len(s) + 1 - (1 + k) = Len(d) + 1 - k /\ Len(d) + 1 - k \in 1 .. Len(d)
        BY <1>3, <2>2
      <3> QED
        BY <1>7, <2>2, <3>1
    <2> QED
      BY <1>1, <1>2, <1>3, <1>4, <1>5, <1>7, <1>8, <2>2, <2>3, <2>4
  <1>9. CASE ~Negative
    <2>1. s = d
      BY <1>5, <1>9 DEF WithSign
    <2> QED
      BY <1>1, <1>2, <1>3, <1>4, <1>5, <1>7, <1>9, <2>1
  <1> QED
    BY <1>8, <1>9

\* The magnitude, with the sign, is what the conversion means.
LEMMA ArgumentIs ==
    ASSUME NumInv, N!LongsFit
    PROVE  /\ arg % Word = arg /\ arg \in 0 .. Word - 1
           /\ Negative => Magnitude = Word - arg /\ N!Meant = arg - Word
           /\ ~Negative => Magnitude = arg /\ N!Meant = arg
  <1>0. Word \in Nat /\ Word >= 16 /\ arg \in Nat
    BY WordFacts DEF NumInv
  <1>1. conversion \in {"ld", "lx"} => arg < Word \div 2
    BY <1>0 DEF NumInv, N!LongsFit
  <1>2. arg < Word
    BY <1>0, <1>1 DEF NumInv
  <1>3. arg % Word = arg
    BY <1>0, <1>2
  <1>4. Negative <=> arg >= Word \div 2 /\ conversion \in {"d", "ld"}
    BY <1>3 DEF Negative, N!base
  <1>5. Negative => conversion = "d"
    BY <1>0, <1>1, <1>4
  <1>6. ASSUME Negative PROVE Magnitude = Word - arg /\ N!Meant = arg - Word
    <2>1. arg >= Word \div 2 /\ arg >= 1 /\ Word - arg \in 0 .. Word - 1
      BY <1>0, <1>2, <1>4, <1>6
    <2>2. (Word - arg) % Word = Word - arg
      BY <1>0, <2>1
    <2> QED
      BY <1>3, <1>5, <1>6, <2>1, <2>2 DEF Magnitude, N!Meant, N!Signed
  <1>7. ASSUME ~Negative PROVE N!Meant = arg
    <2>1. CASE conversion = "d"
      <3>1. ~(arg >= Word \div 2)
        BY <1>4, <1>7, <2>1
      <3> QED
        BY <2>1, <3>1 DEF N!Meant, N!Signed
    <2>2. CASE conversion = "ld"
      <3>1. arg < Word \div 2
        BY <1>1, <2>2
      <3>2. Word * Word >= Word * 16 /\ Word * Word \in Nat
        <4> DEFINE x == Word - 16
        <4>1. x \in Nat /\ Word = x + 16
          BY <1>0
        <4>2. Word * x \in Nat /\ Word * (x + 16) = Word * x + Word * 16
          BY <1>0, <4>1
        <4> QED
          BY <1>0, <4>1, <4>2
      <3> DEFINE y == Word * Word
      <3> HIDE DEF y
      <3>3. ~(arg >= y \div 2)
        BY <1>0, <3>1, <3>2 DEF y
      <3> QED
        BY <2>2, <3>3 DEF N!Meant, N!Signed, y
    <2>3. CASE conversion \in {"x", "lx"}
      BY <2>3 DEF N!Meant
    <2> QED
      BY <2>1, <2>2, <2>3 DEF NumInv
  <1> QED
    BY <1>0, <1>2, <1>3, <1>6, <1>7 DEF Magnitude

\* put_hex pads to the width and no further.
LEMMA PaddingIs ==
    ASSUME Len(str) \in Nat
    PROVE  /\ N!Padding \in Seq(Int) /\ \A k \in 1 .. Len(N!Padding) : N!Padding[k] = 0
           /\ Len(N!Padding) = IF N!Width > Len(str) THEN N!Width - Len(str) ELSE 0
           /\ N!Width \in Nat /\ (N!Width > 0 => N!base = 16 /\ N!Width >= HexDigits)
  <1>0. HexDigits \in Nat
    BY WordsFacts
  <1>1. N!Width \in Nat /\ (N!Width > 0 => N!base = 16 /\ N!Width >= HexDigits)
    <2>1. CASE printer = "printf" /\ conversion = "x"
      BY <1>0, <2>1 DEF N!Width, N!base
    <2>2. CASE printer = "printf" /\ conversion = "lx"
      BY <1>0, <2>2 DEF N!Width, N!base
    <2>3. CASE ~(printer = "printf" /\ conversion = "x") /\ ~(printer = "printf" /\ conversion = "lx")
      BY <2>3 DEF N!Width
    <2> QED
      BY <2>1, <2>2, <2>3
  <1>2. /\ N!Padding \in Seq(Int) /\ \A k \in 1 .. Len(N!Padding) : N!Padding[k] = 0
        /\ Len(N!Padding) = IF N!Width > Len(str) THEN N!Width - Len(str) ELSE 0
    <2> DEFINE w == N!Width - Len(str)
    <2>1. w \in Int
      BY <1>1
    <2>2. N!Padding = [k \in 1 .. w |-> 0]
      BY DEF N!Padding
    <2> HIDE DEF w
    <2>3. CASE w > 0
      <3>1. N!Padding \in Seq(Int) /\ Len(N!Padding) = w
        BY <2>1, <2>2, <2>3
      <3> QED
        BY <1>1, <2>2, <2>3, <3>1 DEF w
    <2>4. CASE ~(w > 0)
      <3>1. 1 .. w = {}
        BY <2>1, <2>4
      <3>2. N!Padding = <<>>
        BY <2>2, <3>1
      <3> QED
        BY <1>1, <2>4, <3>2 DEF w
    <2> QED
      BY <2>3, <2>4
  <1> QED
    BY <1>1, <1>2

\* What is printed stands for the argument.
LEMMA PrintsNumber ==
    ASSUME NumInv, N!LongsFit
    PROVE  N!Denotes /\ N!Plain
  <1> SUFFICES ASSUME itoa = "done"
               PROVE  /\ N!Number(text) = N!Meant
                      /\ IF N!Width > 0 THEN Len(text) = N!Width ELSE text[1] # 0 \/ text = <<0>>
    BY DEF N!Denotes, N!Plain
  <1>1. PICK d, h : /\ Complete(d) /\ d \in Seq(Int) /\ Len(d) \in Nat /\ Len(d) >= 1
                    /\ Horner(N!base, h, d, 0) /\ h[Len(d)] = Magnitude
                    /\ str \in Seq(Int) /\ text = N!Padding \o str
                    /\ Len(str) = IF Negative THEN Len(d) + 1 ELSE Len(d)
                    /\ Negative => str[1] = N!MINUS /\ \A k \in 1 .. Len(d) : str[1 + k] = d[Len(d) + 1 - k]
                    /\ ~Negative => \A k \in 1 .. Len(d) : str[k] = d[Len(d) + 1 - k]
    BY Laid
  <1>0. Len(d) \in Nat /\ Len(d) >= 1
    BY <1>1
  <1>2. \A k \in 1 .. Len(d) : d[k] \in Nat
    <2>1. d \in Seq(Figures)
      BY <1>1 DEF Complete
    <2>2. \A k \in 1 .. Len(d) : d[k] \in Figures
      BY <2>1
    <2> QED
      BY <2>2, FiguresAre
  <1> DEFINE p == N!Padding
             w == Len(p)
  <1>3. Len(str) \in Nat
    BY <1>1
  <1>4. /\ p \in Seq(Int) /\ \A k \in 1 .. w : p[k] = 0
        /\ w = IF N!Width > Len(str) THEN N!Width - Len(str) ELSE 0
        /\ N!Width \in Nat /\ (N!Width > 0 => N!base = 16 /\ N!Width >= HexDigits)
    BY <1>3, PaddingIs
  <1> HIDE DEF p
  <1>5. w \in Nat /\ text \in Seq(Int) /\ Len(text) = w + Len(str)
        /\ \A k \in 1 .. w + Len(str) : text[k] = IF k <= w THEN p[k] ELSE str[k - w]
    <2>1. text = p \o str
      BY <1>1 DEF p
    <2>2. p \o str \in Seq(Int) /\ Len(p \o str) = Len(p) + Len(str)
          /\ \A k \in 1 .. Len(p) + Len(str) : (p \o str)[k] = IF k <= Len(p) THEN p[k] ELSE str[k - Len(p)]
      <3>1. p \in Seq(Int) /\ str \in Seq(Int)
        BY <1>1, <1>4
      <3> QED
        BY <3>1, ConcatProperties
    <2>3. w \in Nat
      BY <1>4
    <2> QED
      BY <2>1, <2>2, <2>3
  <1> HIDE DEF w
  <1>6. N!Width > 0 => Len(text) = N!Width
    <2> SUFFICES ASSUME N!Width > 0 PROVE Len(text) = N!Width
      OBVIOUS
    <2>1. N!base = 16 /\ N!Width >= HexDigits
      BY <1>4
    <2>2. ~Negative /\ Len(d) <= HexDigits /\ HexDigits \in Nat
      BY <1>1, <2>1, WordsFacts DEF Negative, Complete
    <2> QED
      BY <1>1, <1>4, <1>5, <2>1, <2>2
  <1>7. CASE Negative
    <2>1. N!base = 10
      BY <1>7 DEF Negative
    <2>2. w = 0 /\ N!Width = 0
      BY <1>3, <1>4, <2>1
    <2>3. Len(text) = Len(d) + 1 /\ \A k \in 1 .. Len(d) + 1 : text[k] = str[k]
      <3>1. Len(text) = Len(d) + 1 /\ Len(str) = Len(d) + 1
        BY <1>1, <1>5, <1>7, <2>2
      <3>2. ASSUME NEW k \in 1 .. Len(d) + 1 PROVE text[k] = str[k]
        <4>1. k \in 1 .. w + Len(str) /\ ~(k <= w) /\ k - w = k
          BY <1>0, <2>2, <3>1
        <4> QED
          BY <1>5, <4>1
      <3> QED
        BY <3>1, <3>2
    <2>4. text[1] = N!MINUS /\ text # <<>>
      BY <1>1, <1>7, <2>3
    <2> DEFINE t == Tail(text)
    <2>5. t \in Seq(Int) /\ Len(t) = 0 + Len(d) /\ \A k \in 1 .. Len(d) : t[0 + k] = d[Len(d) + 1 - k]
      <3>1. t \in Seq(Int) /\ Len(t) = Len(d) /\ \A k \in 1 .. Len(d) : t[k] = text[k + 1]
        <4>1. text \in Seq(Int) /\ text # <<>> /\ Len(text) = Len(d) + 1 /\ Len(d) \in Nat
          BY <1>0, <1>5, <2>3, <2>4
        <4> QED
          BY <4>1
      <3> HIDE DEF t
      <3>2. ASSUME NEW k \in 1 .. Len(d) PROVE t[0 + k] = d[Len(d) + 1 - k]
        <4>1. k + 1 \in 1 .. Len(d) + 1 /\ 1 + k = k + 1 /\ 0 + k = k
          BY <1>0
        <4>2. str[1 + k] = d[Len(d) + 1 - k]
          BY <1>1, <1>7
        <4>3. t[k] = text[k + 1] /\ text[k + 1] = str[k + 1]
          BY <2>3, <3>1, <4>1
        <4> QED
          BY <4>1, <4>2, <4>3
      <3> QED
        BY <1>0, <3>1, <3>2
    <2> HIDE DEF t
    <2>6. N!Value(t) = Magnitude
      <3> DEFINE z == 0
      <3>1. z \in Nat /\ \A k \in 1 .. z : t[k] = 0
        OBVIOUS
      <3>2. N!Value(t) = h[Len(d)]
        <4>1. d \in Seq(Int) /\ Horner(N!base, h, d, 0)
          BY <1>1
        <4>2. t \in Seq(Int) /\ Len(t) = z + Len(d) /\ \A k \in 1 .. Len(d) : t[z + k] = d[Len(d) + 1 - k]
          BY <2>5
        <4> HIDE DEF z
        <4> QED
          BY <3>1, <4>1, <4>2, PaddedValue
      <3> QED
        BY <1>1, <3>2
    <2>7. N!Number(text) = -Magnitude
      BY <2>4, <2>6 DEF N!Number, t
    <2>8. Magnitude = Word - arg /\ N!Meant = arg - Word /\ arg \in Int /\ Word \in Int
      BY <1>7, ArgumentIs, WordFacts
    <2>9. text[1] # 0
      BY <2>4 DEF N!MINUS
    <2> QED
      BY <1>4, <1>6, <2>2, <2>7, <2>8, <2>9
  <1>8. CASE ~Negative
    <2>1. Len(str) = Len(d) /\ \A k \in 1 .. Len(d) : str[k] = d[Len(d) + 1 - k]
      BY <1>1, <1>8
    <2>2. \A k \in 1 .. w : text[k] = 0
      <3> SUFFICES ASSUME NEW k \in 1 .. w PROVE text[k] = 0
        OBVIOUS
      <3>1. k \in 1 .. w + Len(str) /\ k <= w
        BY <1>3, <1>5
      <3> QED
        BY <1>4, <1>5, <3>1
    <2>3. ASSUME NEW k \in 1 .. Len(d) PROVE text[w + k] = d[Len(d) + 1 - k]
      <3>1. w + k \in 1 .. w + Len(str) /\ ~(w + k <= w) /\ (w + k) - w = k
        <4>1. w \in Nat /\ Len(str) = Len(d)
          BY <1>5, <2>1
        <4> QED
          BY <1>0, <4>1
      <3> QED
        BY <1>5, <2>1, <3>1
    <2>4. N!Value(text) = Magnitude
      <3>1. Len(text) = w + Len(d)
        BY <1>5, <2>1
      <3>2. N!Value(text) = h[Len(d)]
        BY <1>1, <1>5, <2>2, <2>3, <3>1, PaddedValue
      <3> QED
        BY <1>1, <3>2
    <2>5. w > 0 => text[1] = 0
      BY <1>5, <2>2
    <2>6. w = 0 => text[1] = d[Len(d)]
      <3>1. 1 \in 1 .. Len(d) /\ Len(d) + 1 - 1 = Len(d) /\ (w = 0 => w + 1 = 1)
        BY <1>0
      <3>2. text[w + 1] = d[Len(d) + 1 - 1]
        BY <2>3, <3>1
      <3> QED
        BY <3>1, <3>2
    <2>7. text[1] # N!MINUS
      <3>1. d[Len(d)] \in Nat
        BY <1>1, <1>2
      <3> QED
        BY <1>5, <2>5, <2>6, <3>1 DEF N!MINUS
    <2>8. N!Number(text) = Magnitude
      BY <2>4, <2>7 DEF N!Number
    <2>9. Magnitude = N!Meant
      BY <1>8, ArgumentIs
    <2>10. ASSUME N!Width = 0 PROVE text[1] # 0 \/ text = <<0>>
      <3>1. w = 0
        BY <1>3, <1>4, <2>10
      <3>2. d[Len(d)] # 0 \/ d = <<0>>
        BY <1>1 DEF Complete
      <3>3. CASE d = <<0>>
        <4>1. Len(text) = 1 /\ text[1] = 0
          BY <1>5, <2>1, <2>6, <3>1, <3>3
        <4> QED
          <5>1. <<0>> \in Seq(Int) /\ Len(<<0>>) = 1 /\ \A k \in 1 .. 1 : text[k] = <<0>>[k]
            BY <4>1
          <5> QED
            BY <1>5, <4>1, <5>1, SeqEqual
      <3> QED
        BY <2>6, <3>1, <3>2, <3>3
    <2> QED
      BY <1>4, <1>6, <2>8, <2>9, <2>10
  <1> QED
    BY <1>7, <1>8

\* The types follow from the invariant.
LEMMA NumTypes == NumInv => N!TypeOK
  <1> SUFFICES ASSUME NumInv PROVE N!TypeOK
    OBVIOUS
  <1>1. number \in 0 .. Word - 1
    BY WordFacts DEF NumInv, Splitting
  <1>2. negative \in BOOLEAN
    BY DEF NumInv, Negative
  <1>3. \A k \in DOMAIN str : str[k] \in {N!MINUS} \cup Figures
    <2>1. CASE itoa = "convert"
      BY <2>1 DEF NumInv
    <2>2. CASE itoa = "digits"
      <3>1. str \in Seq(Figures)
        BY <2>2 DEF NumInv, Splitting
      <3> QED
        BY <3>1
    <2>3. CASE itoa \in {"reverse", "done"}
      <3>1. PICK d : Complete(d) /\ Turned(WithSign(d))
        BY <2>3 DEF NumInv
      <3> DEFINE T == {N!MINUS} \cup Figures
                 s == WithSign(d)
                 n == Len(s)
      <3>2. s \in Seq(T)
        <4>1. d \in Seq(Figures) /\ Figures \subseteq T /\ N!MINUS \in T
          BY <3>1 DEF Complete
        <4> HIDE DEF T
        <4>2. d \in Seq(T)
          BY <4>1, SeqWider
        <4> QED
          BY <4>1, <4>2, AppendProperties DEF WithSign
      <3>3. str = [k \in 1 .. n |-> IF lo <= k /\ k <= hi THEN s[k] ELSE s[n + 1 - k]]
        BY <3>1 DEF Turned
      <3> HIDE DEF T, s
      <3>4. n \in Nat /\ \A k \in 1 .. n : s[k] \in T /\ n + 1 - k \in 1 .. n
        BY <3>2
      <3> HIDE DEF n
      <3>5. \A k \in DOMAIN str : str[k] \in T
        BY <3>3, <3>4
      <3> QED
        BY <3>5 DEF T
    <2> QED
      BY <2>1, <2>2, <2>3 DEF NumInv
  <1>4. itoa \in {"convert", "digits", "reverse", "done"}
    BY DEF NumInv
  <1> QED
    BY <1>1, <1>2, <1>3, <1>4 DEF N!TypeOK, Figures

-----------------------------------------------------------------------------
(***************************************************************************)
(* Format.                                                                 *)
(***************************************************************************)

\* f[k] is the first k of the sequences, one after the other.
Joined(T, seqs, f) ==
    /\ f \in [0 .. Len(seqs) -> Seq(T)] /\ f[0] = <<>>
    /\ \A k \in 1 .. Len(seqs) : f[k] = f[k - 1] \o seqs[k]

\* Any sequence of sequences can be joined.
LEMMA JoinedExists ==
    ASSUME NEW T, NEW seqs \in Seq(Seq(T))
    PROVE  \E f : Joined(T, seqs, f)
  <1> DEFINE n == Len(seqs)
             G == [k \in 1 .. n |-> [x \in Seq(T) |-> x \o seqs[k]]]
  <1>1. n \in Nat /\ \A k \in 1 .. n : seqs[k] \in Seq(T)
    OBVIOUS
  <1>2. G \in [1 .. n -> [Seq(T) -> Seq(T)]]
    <2>1. \A k \in 1 .. n : \A x \in Seq(T) : x \o seqs[k] \in Seq(T)
      BY <1>1, ConcatProperties
    <2> QED
      BY <2>1
  <1>3. PICK f \in [0 .. n -> Seq(T)] : Follows(f, <<>>, G, n)
    <2> DEFINE U == Seq(T)
    <2>1. <<>> \in U /\ n \in Nat /\ G \in [1 .. n -> [U -> U]]
      BY <1>1, <1>2
    <2> HIDE DEF G, U, n
    <2>2. \E f \in [0 .. n -> U] : Follows(f, <<>>, G, n)
      BY <2>1, RecursionExists
    <2> QED
      BY <2>2 DEF U
  <1>4. ASSUME NEW k \in 1 .. n PROVE f[k] = f[k - 1] \o seqs[k]
    <2>0. k - 1 \in 0 .. n
      BY <1>1
    <2>2. f[k - 1] \in Seq(T)
      BY <1>3, <2>0
    <2>1. f[k] = G[k][f[k - 1]]
      <3> HIDE DEF G
      <3> QED
        BY <1>3 DEF Follows
    <2> QED
      BY <2>1, <2>2
  <1>5. f[0] = <<>>
    BY <1>3 DEF Follows
  <1> QED
    BY <1>3, <1>4, <1>5 DEF Joined

\* FlattenSeq is the last of the joined sequences.
LEMMA FlattenIs ==
    ASSUME NEW T, NEW seqs \in Seq(Seq(T)), NEW f, Joined(T, seqs, f)
    PROVE  F!FlattenSeq(seqs) = f[Len(seqs)]
  <1> DEFINE n    == Len(seqs)
             D(d) == [i \in 1 .. n |-> IF i = 1 THEN seqs[i] ELSE d[i - 1] \o seqs[i]]
             c    == CHOOSE d : d = D(d)
             h    == [i \in 1 .. n |-> f[i]]
  <1>0. n \in Nat /\ f \in [0 .. n -> Seq(T)] /\ f[0] = <<>>
        /\ \A k \in 1 .. n : f[k] = f[k - 1] \o seqs[k] /\ seqs[k] \in Seq(T)
    <2>1. \A k \in 1 .. n : seqs[k] \in Seq(T)
      OBVIOUS
    <2> QED
      BY <2>1 DEF Joined
  <1>1. CASE n = 0
    BY <1>0, <1>1 DEF F!FlattenSeq
  <1>2. CASE n # 0
    <2>1. F!FlattenSeq(seqs) = c[n]
      BY <1>2 DEF F!FlattenSeq
    <2>2. h = D(h)
      <3>1. ASSUME NEW i \in 1 .. n PROVE h[i] = IF i = 1 THEN seqs[i] ELSE h[i - 1] \o seqs[i]
        <4>1. f[i] = f[i - 1] \o seqs[i] /\ seqs[i] \in Seq(T)
          BY <1>0
        <4>2. CASE i = 1
          <5>1. f[1] = <<>> \o seqs[1]
            <6>1. i - 1 = 0
              BY <4>2
            <6> QED
              BY <1>0, <4>1, <4>2, <6>1
          <5>2. <<>> \o seqs[1] = seqs[1]
            BY <4>1, <4>2, ConcatEmptySeq
          <5> QED
            BY <4>2, <5>1, <5>2
        <4>3. CASE i # 1
          <5>1. i - 1 \in 1 .. n
            BY <1>0, <4>3
          <5> QED
            BY <4>1, <4>3, <5>1
        <4> QED
          BY <4>2, <4>3
      <3> QED
        BY <3>1
    <2>3. c = D(c)
      BY <2>2
    <2> HIDE DEF c
    <2> DEFINE P == {k \in Nat : k + 1 <= n => c[k + 1] = h[k + 1]}
    <2>4. \A k \in 1 .. n : c[k] = (IF k = 1 THEN seqs[k] ELSE c[k - 1] \o seqs[k])
                         /\ h[k] = (IF k = 1 THEN seqs[k] ELSE h[k - 1] \o seqs[k])
      <3> HIDE DEF h
      <3> QED
        BY <2>2, <2>3
    <2> HIDE DEF h
    <2>5. 0 \in P
      BY <1>0, <1>2, <2>4
    <2>6. ASSUME NEW k \in P, k \in Nat PROVE k + 1 \in P
      <3> SUFFICES ASSUME (k + 1) + 1 <= n PROVE c[(k + 1) + 1] = h[(k + 1) + 1]
        OBVIOUS
      <3> DEFINE m == (k + 1) + 1
      <3>1. m \in 1 .. n /\ m # 1 /\ m - 1 = k + 1 /\ c[k + 1] = h[k + 1]
        BY <1>0, <2>6
      <3> HIDE DEF m
      <3>2. c[m] = h[m]
        BY <2>4, <3>1
      <3> QED
        BY <3>2 DEF m
    <2>7. Nat \subseteq P
      <3> HIDE DEF P
      <3> QED
        BY <2>5, <2>6, SetInduction
    <2>8. n - 1 \in P /\ (n - 1) + 1 = n
      <3>1. n - 1 \in Nat /\ (n - 1) + 1 = n
        BY <1>0, <1>2
      <3> HIDE DEF P
      <3> QED
        BY <2>7, <3>1
    <2>9. c[n] = h[n]
      BY <1>0, <2>8
    <2> QED
      BY <1>0, <1>2, <2>1, <2>9 DEF h
  <1> QED
    BY <1>1, <1>2

\* What is joined first stays where it is.
LEMMA JoinedPrefix ==
    ASSUME NEW T, NEW seqs \in Seq(Seq(T)), NEW f, Joined(T, seqs, f),
           NEW k \in 0 .. Len(seqs), NEW j \in k .. Len(seqs)
    PROVE  Len(f[k]) <= Len(f[j]) /\ \A m \in 1 .. Len(f[k]) : f[j][m] = f[k][m]
  <1> DEFINE n == Len(seqs)
             Q(i) == Len(f[k]) <= Len(f[i]) /\ \A m \in 1 .. Len(f[k]) : f[i][m] = f[k][m]
             P == {i \in Nat : k + i <= n => Q(k + i)}
  <1>0. n \in Nat /\ k \in Nat /\ \A i \in 0 .. n : f[i] \in Seq(T) /\ Len(f[i]) \in Nat
    BY DEF Joined
  <1>1. 0 \in P
    BY <1>0
  <1>2. ASSUME NEW i \in P, i \in Nat PROVE i + 1 \in P
    <2> SUFFICES ASSUME k + (i + 1) <= n PROVE Q(k + (i + 1))
      OBVIOUS
    <2> DEFINE a == k + i
    <2>1. a \in 0 .. n /\ a + 1 \in 1 .. n /\ k + (i + 1) = a + 1 /\ Q(a) /\ a + 1 \in 0 .. n
      BY <1>0, <1>2
    <2> HIDE DEF a
    <2>2. f[a + 1] = f[a] \o seqs[a + 1] /\ seqs[a + 1] \in Seq(T)
      <3>1. (a + 1) - 1 = a
        BY <2>1
      <3>2. seqs[a + 1] \in Seq(T)
        BY <2>1
      <3> QED
        BY <2>1, <3>1, <3>2 DEF Joined
    <2> DEFINE x == f[a]
               y == seqs[a + 1]
               z == f[k]
    <2>3. x \in Seq(T) /\ y \in Seq(T) /\ Len(z) <= Len(x) /\ (\A m \in 1 .. Len(z) : x[m] = z[m]) /\ z \in Seq(T)
      BY <1>0, <2>1, <2>2
    <2> HIDE DEF x, y, z
    <2>4. Len(x \o y) = Len(x) + Len(y) /\ \A m \in 1 .. Len(x) + Len(y) : (x \o y)[m] = IF m <= Len(x) THEN x[m] ELSE y[m - Len(x)]
      BY <2>3, ConcatProperties
    <2>5. Len(x) \in Nat /\ Len(y) \in Nat /\ Len(z) \in Nat
      BY <2>3
    <2>6. Len(z) <= Len(x \o y) /\ \A m \in 1 .. Len(z) : (x \o y)[m] = z[m]
      BY <2>3, <2>4, <2>5
    <2> QED
      BY <2>1, <2>2, <2>6 DEF x, y, z
  <1>3. Nat \subseteq P
    <2> HIDE DEF P
    <2> QED
      BY <1>1, <1>2, SetInduction
  <1>4. j - k \in Nat /\ k + (j - k) = j /\ j <= n
    BY <1>0
  <1>5. j - k \in P
    BY <1>3, <1>4
  <1>6. Q(k + (j - k))
    BY <1>4, <1>5
  <1>7. Q(j)
    <2> HIDE DEF Q
    <2> QED
      BY <1>4, <1>6
  <1> QED
    BY <1>7

-----------------------------------------------------------------------------
Letters == STRING \cup {"%", "l"}

Pieces == [kind : Letters \cup {"ld", "lx"}, word : Int]

\* A format, as it was put together.
Formats ==
    /\ caller \in {"printf", "sprintf"}
    /\ tokens \in Seq(Tokens) /\ Len(tokens) <= MaxTokens /\ tail \in Tails

AllAsked == [k \in DOMAIN tokens |-> F!Asked(k)]

\* The three shapes of a token.
LEMMA Shapes ==
    ASSUME NEW t \in Tokens
    PROVE  /\ t \in Seq(Letters)
           /\ \/ Len(t) = 1 /\ t[1] # "%"
              \/ Len(t) = 2 /\ t[1] = "%" /\ t[2] \notin {"l", "ld", "lx"}
              \/ Len(t) = 3 /\ t[1] = "%" /\ t[2] = "l"
  <1>1. t \in Seq(STRING)
    BY LibraryAssumption DEF F!FormatAssumption
  <1>2. STRING \subseteq Letters
    BY DEF Letters
  <1>3. t \in Seq(Letters)
    <2> DEFINE T == STRING
               U == Letters
    <2>1. t \in Seq(T) /\ T \subseteq U
      BY <1>1, <1>2
    <2> HIDE DEF T, U
    <2>2. t \in Seq(U)
      BY <2>1, SeqWider
    <2> QED
      BY <2>2 DEF U
  <1>4. \/ Len(t) = 1 /\ t[1] # "%"
        \/ Len(t) = 2 /\ t[1] = "%" /\ t[2] \notin {"l", "ld", "lx"}
        \/ Len(t) = 3 /\ t[1] = "%" /\ t[2] = "l"
    BY LibraryAssumption DEF F!FormatAssumption
  <1> QED
    BY <1>3, <1>4

\* The three shapes of a tail.
LEMMA TailShapes ==
    ASSUME Formats
    PROVE  tail \in {<<>>, <<"%">>, <<"%", "l">>} /\ tail \in Seq(Letters)
  <1>1. tail \in {<<>>, <<"%">>, <<"%", "l">>}
    BY LibraryAssumption DEF F!FormatAssumption, Formats
  <1>2. "%" \in Letters /\ "l" \in Letters
    BY DEF Letters
  <1>3. <<>> \in Seq(Letters)
    OBVIOUS
  <1>4. <<"%">> \in Seq(Letters)
    BY <1>2
  <1>5. <<"%", "l">> \in Seq(Letters)
    BY <1>2
  <1> QED
    BY <1>1, <1>3, <1>4, <1>5

\* A format is a sequence of sequences of letters.
LEMMA TokensFacts ==
    ASSUME Formats
    PROVE  /\ tokens \in Seq(Seq(Letters)) /\ Len(tokens) \in Nat /\ MaxTokens \in Nat
           /\ DOMAIN tokens = 1 .. Len(tokens)
           /\ \A k \in 1 .. Len(tokens) : tokens[k] \in Tokens /\ tokens[k] \in Seq(Letters) /\ k \in 1 .. MaxTokens
  <1>1. tokens \in Seq(Tokens) /\ Tokens \subseteq Seq(Letters)
    BY Shapes DEF Formats
  <1>2. tokens \in Seq(Seq(Letters))
    <2> DEFINE U == Seq(Letters)
    <2>1. Tokens \subseteq U
      BY <1>1
    <2> HIDE DEF U
    <2>2. tokens \in Seq(U)
      BY <1>1, <2>1, SeqWider
    <2> QED
      BY <2>2 DEF U
  <1>3. Len(tokens) \in Nat /\ DOMAIN tokens = 1 .. Len(tokens) /\ \A k \in 1 .. Len(tokens) : tokens[k] \in Tokens
    BY <1>1
  <1>4. MaxTokens \in Nat /\ Len(tokens) <= MaxTokens
    BY LibraryAssumption DEF F!FormatAssumption, Formats
  <1>5. \A k \in 1 .. Len(tokens) : k \in 1 .. MaxTokens
    BY <1>3, <1>4
  <1> QED
    BY <1>1, <1>2, <1>3, <1>4, <1>5

\* The words that the first k tokens take.
Adds(k) == IF k <= Len(tokens) THEN F!Taken(tokens[k]) ELSE 0

\* A conversion takes at most two words.
LEMMA AddsFacts == \A k : Adds(k) \in 0 .. 2
  BY DEF Adds, F!Taken

\* The words before a token, one token after the other.
LEMMA BeforeFacts ==
    ASSUME Formats
    PROVE  /\ F!Before[0] = 0
           /\ \A k \in 1 .. MaxTokens : F!Before[k] = F!Before[k - 1] + Adds(k)
           /\ \A k \in 0 .. MaxTokens : F!Before[k] \in 0 .. 2 * k
  <1> DEFINE n    == MaxTokens
             D(d) == [k \in 0 .. n |-> IF k = 0 THEN 0 ELSE d[k - 1] + Adds(k)]
             b    == F!Before
             G    == [k \in 1 .. n |-> [x \in Nat |-> x + Adds(k)]]
  <1>0. n \in Nat
    BY TokensFacts
  <1>1. G \in [1 .. n -> [Nat -> Nat]]
    BY AddsFacts
  <1>2. PICK f \in [0 .. n -> Nat] : Follows(f, 0, G, n)
    <2> HIDE DEF G, n
    <2> QED
      BY <1>0, <1>1, RecursionExists
  <1>3. ASSUME NEW k \in 1 .. n PROVE f[k] = f[k - 1] + Adds(k)
    <2>1. k - 1 \in 0 .. n
      BY <1>0
    <2>2. f[k - 1] \in Nat
      BY <1>2, <2>1
    <2>3. f[k] = G[k][f[k - 1]]
      <3> HIDE DEF G
      <3> QED
        BY <1>2 DEF Follows
    <2> QED
      BY <2>2, <2>3
  <1>4. f = D(f)
    <2>1. f[0] = 0
      BY <1>2 DEF Follows
    <2>2. f = [k \in 0 .. n |-> f[k]]
      OBVIOUS
    <2>3. \A k \in 0 .. n : k # 0 => k \in 1 .. n
      BY <1>0
    <2> QED
      BY <1>3, <2>1, <2>2, <2>3
  <1>5. b = CHOOSE d : d = D(d)
    BY DEF F!Before, Adds
  <1>6. b = D(b)
    BY <1>4, <1>5
  <1> HIDE DEF b
  <1>7. b[0] = 0 /\ \A k \in 1 .. n : b[k] = b[k - 1] + Adds(k)
    <2>1. 0 \in 0 .. n /\ \A k \in 1 .. n : k \in 0 .. n /\ k # 0
      BY <1>0
    <2> QED
      BY <1>6, <2>1
  <1> DEFINE P == {k \in Nat : k <= n => b[k] \in 0 .. 2 * k}
  <1>8. 0 \in P
    BY <1>7
  <1>9. ASSUME NEW k \in P, k \in Nat PROVE k + 1 \in P
    <2> SUFFICES ASSUME k + 1 <= n PROVE b[k + 1] \in 0 .. 2 * (k + 1)
      OBVIOUS
    <2>1. k + 1 \in 1 .. n /\ (k + 1) - 1 = k /\ b[k] \in 0 .. 2 * k
      BY <1>0, <1>9
    <2>2. b[k + 1] = b[k] + Adds(k + 1)
      BY <1>7, <2>1
    <2>3. Adds(k + 1) \in 0 .. 2
      BY AddsFacts
    <2> QED
      BY <2>1, <2>2, <2>3
  <1>10. Nat \subseteq P
    <2> HIDE DEF P
    <2> QED
      BY <1>8, <1>9, SetInduction
  <1>11. \A k \in 0 .. n : b[k] \in 0 .. 2 * k
    BY <1>0, <1>10
  <1> QED
    BY <1>7, <1>11 DEF b

\* What each kind of token asks for, and the words it takes.
LEMMA AskedFacts ==
    ASSUME Formats, NEW k \in 1 .. Len(tokens)
    PROVE  LET t == tokens[k]
               w == F!Before[k - 1]
           IN  /\ Len(t) = 1 => F!Asked(k) = <<F!Piece(t[1], -1)>> /\ F!Before[k] = w
               /\ Len(t) = 2 /\ t[2] \in F!Known => F!Asked(k) = <<F!Piece(t[2], w)>> /\ F!Before[k] = w + 1
               /\ Len(t) = 2 /\ t[2] \notin F!Known => F!Asked(k) = <<>> /\ F!Before[k] = w
               /\ Len(t) = 3 /\ t[3] = "d" => F!Asked(k) = <<F!Piece("ld", w)>> /\ F!Before[k] = w + 2
               /\ Len(t) = 3 /\ t[3] = "x" => F!Asked(k) = <<F!Piece("lx", w)>> /\ F!Before[k] = w + 2
               /\ Len(t) = 3 /\ t[3] \notin {"d", "x"} => F!Asked(k) = <<>> /\ F!Before[k] = w
  <1> DEFINE t == tokens[k]
             w == F!Before[k - 1]
             a == F!Taken(t)
             c == F!Conversion(t)
  <1>0. k \in 1 .. MaxTokens /\ k <= Len(tokens) /\ k - 1 \in 0 .. MaxTokens
    BY TokensFacts
  <1>1. w \in Nat /\ F!Before[k] = w + a
    <2>1. w \in Nat
      BY <1>0, BeforeFacts
    <2>2. Adds(k) = a
      BY <1>0 DEF Adds
    <2> QED
      BY <1>0, <2>1, <2>2, BeforeFacts
  <1>2. F!Asked(k) = CASE Len(t) = 1 -> <<F!Piece(t[1], -1)>>
                       [] c \in F!Known -> <<F!Piece(c, w)>>
                       [] OTHER -> <<>>
    BY DEF F!Asked
  <1>3. a = IF c \notin F!Known THEN 0 ELSE IF Len(t) = 3 THEN 2 ELSE 1
    BY DEF F!Taken
  <1>4. /\ Len(t) = 1 => c = "plain"
        /\ Len(t) = 2 => c = t[2]
        /\ Len(t) = 3 => c = IF t[3] = "d" THEN "ld" ELSE IF t[3] = "x" THEN "lx" ELSE "none"
    BY DEF F!Conversion
  <1>5. "plain" \notin F!Known /\ "none" \notin F!Known /\ "ld" \in F!Known /\ "lx" \in F!Known
    BY DEF F!Known
  <1> HIDE DEF t, w, a, c
  <1>6. CASE Len(t) = 1
    BY <1>1, <1>2, <1>3, <1>4, <1>5, <1>6 DEF t, w
  <1>7. CASE Len(t) = 2
    BY <1>1, <1>2, <1>3, <1>4, <1>7 DEF t, w
  <1>8. CASE Len(t) = 3
    BY <1>1, <1>2, <1>3, <1>4, <1>5, <1>8 DEF t, w
  <1>9. CASE Len(t) \notin {1, 2, 3}
    BY <1>9 DEF t
  <1> QED
    BY <1>6, <1>7, <1>8, <1>9

\* What the tokens ask for is a sequence of sequences of pieces.
LEMMA AllAskedFacts ==
    ASSUME Formats
    PROVE  /\ AllAsked \in Seq(Seq(Pieces)) /\ Len(AllAsked) = Len(tokens)
           /\ \A k \in 1 .. Len(tokens) : /\ AllAsked[k] = F!Asked(k)
                                          /\ F!Asked(k) \in Seq(Pieces)
                                          /\ \A m \in 1 .. Len(F!Asked(k)) : F!Asked(k)[m].word \in -1 .. F!Before[k] - 1
  <1>1. Len(tokens) \in Nat /\ DOMAIN tokens = 1 .. Len(tokens)
    BY TokensFacts
  <1>2. ASSUME NEW k \in 1 .. Len(tokens)
        PROVE  \/ F!Asked(k) = <<>>
               \/ \E x \in Pieces : x.word \in -1 .. F!Before[k] - 1 /\ F!Asked(k) = <<x>>
    <2> DEFINE t == tokens[k]
               w == F!Before[k - 1]
    <2>0. t \in Tokens /\ t \in Seq(Letters) /\ k \in 1 .. MaxTokens /\ k - 1 \in 0 .. MaxTokens
      BY TokensFacts
    <2>1. w \in Nat
      BY <2>0, BeforeFacts
    <2>2. \A x \in Letters \cup {"ld", "lx"} : \A i \in Int : F!Piece(x, i) \in Pieces /\ F!Piece(x, i).word = i
      BY DEF F!Piece, Pieces
    <2>3. /\ Len(t) = 1 => F!Asked(k) = <<F!Piece(t[1], -1)>> /\ F!Before[k] = w
          /\ Len(t) = 2 /\ t[2] \in F!Known => F!Asked(k) = <<F!Piece(t[2], w)>> /\ F!Before[k] = w + 1
          /\ Len(t) = 2 /\ t[2] \notin F!Known => F!Asked(k) = <<>> /\ F!Before[k] = w
          /\ Len(t) = 3 /\ t[3] = "d" => F!Asked(k) = <<F!Piece("ld", w)>> /\ F!Before[k] = w + 2
          /\ Len(t) = 3 /\ t[3] = "x" => F!Asked(k) = <<F!Piece("lx", w)>> /\ F!Before[k] = w + 2
          /\ Len(t) = 3 /\ t[3] \notin {"d", "x"} => F!Asked(k) = <<>> /\ F!Before[k] = w
      BY AskedFacts
    <2>4. Len(t) \in {1, 2, 3}
      BY <2>0, Shapes
    <2> HIDE DEF t, w
    <2>5. CASE Len(t) = 1
      <3>1. t[1] \in Letters
        <4>1. \A m \in 1 .. Len(t) : t[m] \in Letters
          BY <2>0
        <4> QED
          BY <2>5, <4>1
      <3>2. F!Piece(t[1], -1) \in Pieces /\ F!Piece(t[1], -1).word = -1
        BY <2>2, <3>1
      <3>3. F!Piece(t[1], -1).word \in -1 .. F!Before[k] - 1
        BY <2>1, <2>3, <2>5, <3>2
      <3> QED
        BY <2>3, <2>5, <3>2, <3>3
    <2>6. CASE Len(t) = 2
      <3>1. t[2] \in Letters
        <4>1. \A m \in 1 .. Len(t) : t[m] \in Letters
          BY <2>0
        <4> QED
          BY <2>6, <4>1
      <3>2. F!Piece(t[2], w) \in Pieces /\ F!Piece(t[2], w).word = w
        BY <2>1, <2>2, <3>1
      <3>3. t[2] \in F!Known => F!Piece(t[2], w).word \in -1 .. F!Before[k] - 1
        BY <2>1, <2>3, <2>6, <3>2
      <3> QED
        BY <2>3, <2>6, <3>2, <3>3
    <2>7. CASE Len(t) = 3
      <3>2. \A x \in {"ld", "lx"} : F!Piece(x, w) \in Pieces /\ F!Piece(x, w).word = w
        BY <2>1, <2>2
      <3>3. t[3] \in {"d", "x"} => w \in -1 .. F!Before[k] - 1
        BY <2>1, <2>3, <2>7
      <3> QED
        BY <2>3, <2>7, <3>2, <3>3
    <2> QED
      BY <2>4, <2>5, <2>6, <2>7
  <1>3. ASSUME NEW k \in 1 .. Len(tokens)
        PROVE  /\ F!Asked(k) \in Seq(Pieces)
               /\ \A m \in 1 .. Len(F!Asked(k)) : F!Asked(k)[m].word \in -1 .. F!Before[k] - 1
    <2>1. CASE F!Asked(k) = <<>>
      BY <2>1
    <2>2. CASE \E x \in Pieces : x.word \in -1 .. F!Before[k] - 1 /\ F!Asked(k) = <<x>>
      <3>1. PICK x \in Pieces : x.word \in -1 .. F!Before[k] - 1 /\ F!Asked(k) = <<x>>
        BY <2>2
      <3>2. <<x>> \in Seq(Pieces) /\ Len(<<x>>) = 1 /\ <<x>>[1] = x
        OBVIOUS
      <3> QED
        BY <3>1, <3>2
    <2> QED
      BY <1>2, <2>1, <2>2
  <1>4. AllAsked = [k \in 1 .. Len(tokens) |-> F!Asked(k)]
    BY <1>1 DEF AllAsked
  <1>5. AllAsked \in Seq(Seq(Pieces)) /\ Len(AllAsked) = Len(tokens)
    BY <1>1, <1>3, <1>4
  <1> QED
    BY <1>3, <1>4, <1>5

\* The characters of token k stand after those of the ones before it.
LEMMA TokenAt ==
    ASSUME Formats, NEW f, Joined(Letters, tokens, f)
    PROVE  /\ F!len = Len(f[Len(tokens)]) + Len(tail) /\ F!len \in Nat
           /\ \A k \in 0 .. Len(tokens) : Len(f[k]) \in Nat /\ Len(f[k]) <= Len(f[Len(tokens)])
           /\ \A k \in 1 .. Len(tokens) :
                /\ Len(f[k]) = Len(f[k - 1]) + Len(tokens[k])
                /\ \A m \in 1 .. Len(tokens[k]) : F!Char(Len(f[k - 1]) + (m - 1)) = tokens[k][m]
           /\ \A m \in 1 .. Len(tail) : F!Char(Len(f[Len(tokens)]) + (m - 1)) = tail[m]
  <1> DEFINE n == Len(tokens)
             x == f[n]
  <1>0. n \in Nat /\ tokens \in Seq(Seq(Letters)) /\ tail \in Seq(Letters)
        /\ \A k \in 1 .. n : tokens[k] \in Seq(Letters)
    BY TokensFacts, TailShapes
  <1>1. \A k \in 0 .. n : f[k] \in Seq(Letters) /\ Len(f[k]) \in Nat
    BY DEF Joined
  <1>2. F!format = x \o tail
    BY <1>0, FlattenIs DEF F!format
  <1>3. x \in Seq(Letters) /\ Len(tail) \in Nat /\ Len(x) \in Nat
    BY <1>0, <1>1
  <1>4. \A k \in 0 .. n : Len(f[k]) <= Len(x) /\ \A m \in 1 .. Len(f[k]) : x[m] = f[k][m]
    <2> SUFFICES ASSUME NEW k \in 0 .. n PROVE Len(f[k]) <= Len(f[n]) /\ \A m \in 1 .. Len(f[k]) : f[n][m] = f[k][m]
      OBVIOUS
    <2>1. n \in k .. n
      BY <1>0
    <2> QED
      BY <1>0, <2>1, JoinedPrefix
  <1> HIDE DEF x
  <1>5. Len(F!format) = Len(x) + Len(tail)
        /\ \A m \in 1 .. Len(x) + Len(tail) : F!format[m] = IF m <= Len(x) THEN x[m] ELSE tail[m - Len(x)]
    BY <1>0, <1>2, <1>3, ConcatProperties
  <1>6. F!len = Len(x) + Len(tail)
    BY <1>5 DEF F!len
  <1>7. \A i \in Nat : i < Len(x) + Len(tail) => F!Char(i) = F!format[i + 1]
    BY <1>6 DEF F!Char
  <1>8. ASSUME NEW k \in 1 .. n
        PROVE  /\ Len(f[k]) = Len(f[k - 1]) + Len(tokens[k])
               /\ \A m \in 1 .. Len(tokens[k]) : F!Char(Len(f[k - 1]) + (m - 1)) = tokens[k][m]
    <2> DEFINE y == f[k - 1]
               t == tokens[k]
               z == f[k]
    <2>1. y \in Seq(Letters) /\ t \in Seq(Letters) /\ Len(y) \in Nat /\ Len(t) \in Nat /\ z = y \o t
      <3>1. k - 1 \in 0 .. n
        BY <1>0
      <3>2. f[k] = f[k - 1] \o tokens[k]
        BY DEF Joined
      <3>3. t \in Seq(Letters) /\ y \in Seq(Letters)
        BY <1>0, <1>1, <3>1
      <3> QED
        BY <3>2, <3>3
    <2>2. Len(z) <= Len(x) /\ \A m \in 1 .. Len(z) : x[m] = z[m]
      BY <1>0, <1>4
    <2> HIDE DEF y, t, z
    <2>3. Len(z) = Len(y) + Len(t) /\ \A m \in 1 .. Len(y) + Len(t) : z[m] = IF m <= Len(y) THEN y[m] ELSE t[m - Len(y)]
      BY <2>1, ConcatProperties
    <2>4. ASSUME NEW m \in 1 .. Len(t) PROVE F!Char(Len(y) + (m - 1)) = t[m]
      <3> DEFINE i == Len(y) + (m - 1)
      <3>1. i \in Nat /\ i < Len(x) + Len(tail) /\ i + 1 = Len(y) + m /\ i + 1 <= Len(x)
            /\ i + 1 \in 1 .. Len(x) + Len(tail) /\ i + 1 \in 1 .. Len(z) /\ ~(i + 1 <= Len(y)) /\ (i + 1) - Len(y) = m
        BY <1>3, <2>1, <2>2, <2>3
      <3> HIDE DEF i
      <3>2. F!Char(i) = F!format[i + 1]
        BY <1>7, <3>1
      <3>3. F!format[i + 1] = x[i + 1]
        BY <1>5, <3>1
      <3>4. x[i + 1] = t[m]
        BY <2>2, <2>3, <3>1
      <3> QED
        BY <3>2, <3>3, <3>4 DEF i
    <2> QED
      BY <2>3, <2>4 DEF y, t, z
  <1>9. ASSUME NEW m \in 1 .. Len(tail) PROVE F!Char(Len(x) + (m - 1)) = tail[m]
    <2> DEFINE i == Len(x) + (m - 1)
    <2>1. i \in Nat /\ i < Len(x) + Len(tail) /\ i + 1 \in 1 .. Len(x) + Len(tail) /\ ~(i + 1 <= Len(x))
          /\ (i + 1) - Len(x) = m
      BY <1>3
    <2> HIDE DEF i
    <2>2. F!Char(i) = tail[m]
      BY <1>5, <1>7, <2>1
    <2> QED
      BY <2>2 DEF i
  <1>10. F!len \in Nat
    BY <1>3, <1>6
  <1> QED
    BY <1>1, <1>4, <1>6, <1>8, <1>9, <1>10 DEF x

-----------------------------------------------------------------------------
\* Where the loop is: after the first k tokens, at the end, or after the l of a
\* token or of the tail.
After(f, g, k, i, a, o) == i = Len(f[k]) /\ a = F!Before[k] /\ o = g[k]

Ended(g, i, a, o) ==
    /\ i \in F!len .. F!len + 2 /\ a = F!Before[Len(tokens)]
    /\ o = g[Len(tokens)] \o F!AskedTail

InLong(f, g, i, a, o) ==
    \/ \E k \in 0 .. Len(tokens) - 1 : Len(tokens[k + 1]) = 3 /\ After(f, g, k, i - 1, a, o)
    \/ tail = <<"%", "l">> /\ After(f, g, Len(tokens), i - 1, a, o)

Place(f, g, l, i, a, o) ==
    \/ /\ l \in {"for", "copy", "print"}
       /\ l = "copy" => caller = "sprintf"
       /\ l = "print" => caller = "printf" /\ i < F!len
       /\ \E k \in 0 .. Len(tokens) : After(f, g, k, i, a, o)
    \/ l \in {"for", "done"} /\ Ended(g, i, a, o)
    \/ l = "long" /\ caller = "sprintf" /\ i \in Nat /\ InLong(f, g, i, a, o)

Composed(f, g) == Formats /\ Joined(Letters, tokens, f) /\ Joined(Pieces, AllAsked, g)

FormInv == \E f, g : Composed(f, g) /\ Place(f, g, loop, index, ap, out)

\* How a step is shown to keep the invariant: the format stays what it is.
LEMMA Steady ==
    ASSUME NEW f, NEW g, Composed(f, g), UNCHANGED <<caller, tokens, tail>>,
           Place(f, g, loop', index', ap', out')
    PROVE  FormInv'
  <1>1. caller' = caller /\ tokens' = tokens /\ tail' = tail
    OBVIOUS
  <1>2. F!Known' = F!Known
    BY <1>1 DEF F!Known
  <1>3. F!Before' = F!Before
    BY <1>1, <1>2 DEF F!Before, F!Taken, F!Conversion
  <1>4. F!len' = F!len /\ F!AskedTail' = F!AskedTail
    BY <1>1 DEF F!len, F!format, F!AskedTail
  <1>5. AllAsked' = AllAsked
    BY <1>1, <1>2, <1>3 DEF AllAsked, F!Asked, F!Conversion
  <1>6. Composed(f, g)'
    BY <1>1, <1>5 DEF Composed, Formats
  <1>7. Place(f, g, loop, index, ap, out)'
    BY <1>1, <1>3, <1>4 DEF Place, Ended, InLong, After
  <1>8. \E h, e : Composed(h, e)' /\ Place(h, e, loop, index, ap, out)'
    BY <1>6, <1>7
  <1> QED
    BY <1>8 DEF FormInv

\* What the loop finds after the first k tokens, and what the next one adds.
LEMMA Consumes ==
    ASSUME NEW f, NEW g, Composed(f, g), NEW k \in 0 .. Len(tokens) - 1
    PROVE  LET p == Len(f[k])
               q == Len(f[k + 1])
               w == F!Before[k]
           IN  /\ p \in Nat /\ q <= F!len /\ F!len \in Nat /\ w \in Nat /\ k + 1 \in 0 .. Len(tokens)
               /\ Len(tokens[k + 1]) \in {1, 2, 3}
               /\ Len(tokens[k + 1]) = 1 =>
                    /\ F!Char(p) # "%" /\ q = p + 1
                    /\ g[k + 1] = Append(g[k], F!Piece(F!Char(p), -1)) /\ F!Before[k + 1] = w
               /\ Len(tokens[k + 1]) = 2 =>
                    /\ F!Char(p) = "%" /\ F!Char(p + 1) \notin {"l", "ld", "lx"} /\ q = p + 2
                    /\ F!Char(p + 1) \in F!Known =>
                          g[k + 1] = Append(g[k], F!Piece(F!Char(p + 1), w)) /\ F!Before[k + 1] = w + 1
                    /\ F!Char(p + 1) \notin F!Known => g[k + 1] = g[k] /\ F!Before[k + 1] = w
               /\ Len(tokens[k + 1]) = 3 =>
                    /\ F!Char(p) = "%" /\ F!Char(p + 1) = "l" /\ q = p + 3
                    /\ F!Char(p + 2) = "d" => g[k + 1] = Append(g[k], F!Piece("ld", w)) /\ F!Before[k + 1] = w + 2
                    /\ F!Char(p + 2) = "x" => g[k + 1] = Append(g[k], F!Piece("lx", w)) /\ F!Before[k + 1] = w + 2
                    /\ F!Char(p + 2) \notin {"d", "x"} => g[k + 1] = g[k] /\ F!Before[k + 1] = w
  <1> DEFINE n == Len(tokens)
             p == Len(f[k])
             q == Len(f[k + 1])
             w == F!Before[k]
             v == F!Before[k + 1]
             t == tokens[k + 1]
             a == F!Asked(k + 1)
             y == g[k]
             z == g[k + 1]
  <1>1. Formats /\ Joined(Letters, tokens, f) /\ Joined(Pieces, AllAsked, g)
    BY DEF Composed
  <1>2. n \in Nat /\ k \in 0 .. n /\ k + 1 \in 1 .. n /\ k + 1 \in 0 .. n /\ (k + 1) - 1 = k
    BY <1>1, TokensFacts
  <1>3. t \in Tokens /\ k \in 0 .. MaxTokens
    <2>1. k + 1 \in 1 .. MaxTokens /\ t \in Tokens /\ MaxTokens \in Nat
      BY <1>1, <1>2, TokensFacts
    <2> QED
      BY <1>2, <2>1
  <1>4. w \in Nat
    <2>1. w \in 0 .. 2 * k
      BY <1>1, <1>3, BeforeFacts
    <2> QED
      BY <1>2, <2>1
  <1>5. p \in Nat /\ q <= Len(f[n]) /\ F!len = Len(f[n]) + Len(tail) /\ F!len \in Nat /\ q = p + Len(t)
        /\ Len(f[n]) \in Nat /\ \A m \in 1 .. Len(t) : F!Char(p + (m - 1)) = t[m]
    <2>1. \A j \in 1 .. n : Len(f[j]) = Len(f[j - 1]) + Len(tokens[j])
             /\ \A m \in 1 .. Len(tokens[j]) : F!Char(Len(f[j - 1]) + (m - 1)) = tokens[j][m]
      BY <1>1, TokenAt
    <2>2. \A j \in 0 .. n : Len(f[j]) \in Nat /\ Len(f[j]) <= Len(f[n])
      BY <1>1, TokenAt
    <2>3. F!len = Len(f[n]) + Len(tail) /\ F!len \in Nat
      BY <1>1, TokenAt
    <2>4. n \in 0 .. n
      BY <1>2
    <2> QED
      BY <1>2, <2>1, <2>2, <2>3, <2>4
  <1>6. q <= F!len
    <2>1. Len(tail) \in Nat /\ q \in Nat
      <3>1. tail \in Seq(Letters) /\ t \in Seq(Letters)
        BY <1>1, <1>3, TailShapes, Shapes
      <3>2. Len(tail) \in Nat /\ Len(t) \in Nat
        BY <3>1
      <3> HIDE DEF t, p, q
      <3> QED
        BY <1>5, <3>2
    <2> DEFINE x == Len(f[n])
    <2>2. q \in Nat /\ q <= x /\ x \in Nat /\ F!len = x + Len(tail)
      BY <1>5, <2>1
    <2> HIDE DEF x, q
    <2> QED
      BY <2>1, <2>2
  <1>7. y \in Seq(Pieces) /\ a \in Seq(Pieces) /\ z = y \o a
    <2>1. Len(AllAsked) = n /\ AllAsked[k + 1] = a /\ a \in Seq(Pieces)
      BY <1>1, <1>2, AllAskedFacts
    <2>2. g[k + 1] = g[(k + 1) - 1] \o AllAsked[k + 1] /\ g[k] \in Seq(Pieces)
      BY <1>1, <1>2, <2>1 DEF Joined
    <2> QED
      BY <1>2, <2>1, <2>2
  <1>8. /\ Len(t) = 1 => a = <<F!Piece(t[1], -1)>> /\ v = w
        /\ Len(t) = 2 /\ t[2] \in F!Known => a = <<F!Piece(t[2], w)>> /\ v = w + 1
        /\ Len(t) = 2 /\ t[2] \notin F!Known => a = <<>> /\ v = w
        /\ Len(t) = 3 /\ t[3] = "d" => a = <<F!Piece("ld", w)>> /\ v = w + 2
        /\ Len(t) = 3 /\ t[3] = "x" => a = <<F!Piece("lx", w)>> /\ v = w + 2
        /\ Len(t) = 3 /\ t[3] \notin {"d", "x"} => a = <<>> /\ v = w
    BY <1>1, <1>2, AskedFacts
  <1>9. \/ Len(t) = 1 /\ t[1] # "%"
        \/ Len(t) = 2 /\ t[1] = "%" /\ t[2] \notin {"l", "ld", "lx"}
        \/ Len(t) = 3 /\ t[1] = "%" /\ t[2] = "l"
    BY <1>3, Shapes
  <1> HIDE DEF n, p, q, w, v, t, a, y, z
  <1>10. a = <<>> => z = y
    BY <1>7, ConcatEmptySeq
  <1>11. \A x : a = <<x>> => z = Append(y, x)
    <2> SUFFICES ASSUME NEW x, a = <<x>> PROVE z = Append(y, x)
      OBVIOUS
    <2>1. x \in Pieces
      <3>1. <<x>> \in Seq(Pieces) /\ Len(<<x>>) = 1 /\ <<x>>[1] = x
        BY <1>7
      <3>2. 1 \in 1 .. Len(<<x>>)
        BY <3>1
      <3> QED
        BY <3>1, <3>2, ElementOfSeq
    <2> QED
      BY <1>7, <2>1, AppendIsConcat
  <1>12. /\ Len(t) >= 1 => F!Char(p) = t[1]
         /\ Len(t) >= 2 => F!Char(p + 1) = t[2]
         /\ Len(t) >= 3 => F!Char(p + 2) = t[3]
    <2>1. p + (1 - 1) = p /\ p + (2 - 1) = p + 1 /\ p + (3 - 1) = p + 2 /\ Len(t) \in Nat
      BY <1>5, <1>9
    <2> QED
      BY <1>5, <2>1
  <1>13. CASE Len(t) = 1
    <2>1. F!Char(p) = t[1] /\ t[1] # "%" /\ q = p + 1 /\ z = Append(y, F!Piece(t[1], -1)) /\ v = w
      BY <1>5, <1>8, <1>9, <1>11, <1>12, <1>13
    <2> QED
      BY <1>2, <1>4, <1>5, <1>6, <1>13, <2>1 DEF n, p, q, w, v, t, y, z
  <1>14. CASE Len(t) = 2
    <2>1. F!Char(p) = "%" /\ F!Char(p + 1) = t[2] /\ t[2] \notin {"l", "ld", "lx"} /\ q = p + 2
      BY <1>5, <1>9, <1>12, <1>14
    <2>2. t[2] \in F!Known => z = Append(y, F!Piece(t[2], w)) /\ v = w + 1
      BY <1>8, <1>11, <1>14
    <2>3. t[2] \notin F!Known => z = y /\ v = w
      BY <1>8, <1>10, <1>14
    <2> QED
      BY <1>2, <1>4, <1>5, <1>6, <1>14, <2>1, <2>2, <2>3 DEF n, p, q, w, v, t, y, z
  <1>15. CASE Len(t) = 3
    <2>1. F!Char(p) = "%" /\ F!Char(p + 1) = "l" /\ F!Char(p + 2) = t[3] /\ q = p + 3
      BY <1>5, <1>9, <1>12, <1>15
    <2>2. t[3] = "d" => z = Append(y, F!Piece("ld", w)) /\ v = w + 2
      BY <1>8, <1>11, <1>15
    <2>3. t[3] = "x" => z = Append(y, F!Piece("lx", w)) /\ v = w + 2
      BY <1>8, <1>11, <1>15
    <2>4. t[3] \notin {"d", "x"} => z = y /\ v = w
      BY <1>8, <1>10, <1>15
    <2> QED
      BY <1>2, <1>4, <1>5, <1>6, <1>15, <2>1, <2>2, <2>3, <2>4 DEF n, p, q, w, v, t, y, z
  <1> QED
    BY <1>9, <1>13, <1>14, <1>15

\* What the loop finds after all of them.
LEMMA Ends ==
    ASSUME NEW f, NEW g, Composed(f, g)
    PROVE  LET n == Len(tokens)
               p == Len(f[n])
           IN  /\ p \in Nat /\ n \in 0 .. n /\ F!Before[n] \in Nat
               /\ \/ tail = <<>> /\ F!len = p /\ F!AskedTail = <<>>
                  \/ /\ tail = <<"%">> /\ F!len = p + 1 /\ F!Char(p) = "%"
                     /\ F!AskedTail = IF caller = "printf" THEN <<F!Piece("%", -1)>> ELSE <<>>
                  \/ /\ tail = <<"%", "l">> /\ F!len = p + 2 /\ F!Char(p) = "%" /\ F!Char(p + 1) = "l"
                     /\ F!AskedTail = <<>>
               /\ g[n] \o <<>> = g[n]
               /\ g[n] \o <<F!Piece("%", -1)>> = Append(g[n], F!Piece("%", -1))
  <1> DEFINE n == Len(tokens)
             p == Len(f[n])
             y == g[n]
             x == F!Piece("%", -1)
  <1>1. Formats /\ Joined(Letters, tokens, f) /\ Joined(Pieces, AllAsked, g)
    BY DEF Composed
  <1>2. n \in Nat /\ n \in 0 .. n /\ n <= MaxTokens /\ MaxTokens \in Nat
    BY <1>1, TokensFacts DEF Formats
  <1>3. p \in Nat /\ F!len = p + Len(tail) /\ \A m \in 1 .. Len(tail) : F!Char(p + (m - 1)) = tail[m]
    BY <1>1, <1>2, TokenAt
  <1>4. F!Before[n] \in Nat
    <2>1. n \in 0 .. MaxTokens
      BY <1>2
    <2>2. F!Before[n] \in 0 .. 2 * n
      BY <1>1, <2>1, BeforeFacts
    <2> QED
      BY <1>2, <2>2
  <1>5. y \in Seq(Pieces)
    <2>1. Len(AllAsked) = n
      BY <1>1, AllAskedFacts
    <2> QED
      BY <1>1, <1>2, <2>1 DEF Joined
  <1>6. x \in Pieces
    BY DEF F!Piece, Pieces, Letters
  <1> HIDE DEF x, y
  <1>7. y \o <<>> = y /\ y \o <<x>> = Append(y, x)
    BY <1>5, <1>6, ConcatEmptySeq, AppendIsConcat
  <1>8. tail \in {<<>>, <<"%">>, <<"%", "l">>}
    BY <1>1, TailShapes
  <1> HIDE DEF p, n
  <1>9. CASE tail = <<>>
    <2>1. F!AskedTail = <<>>
      BY <1>9 DEF F!AskedTail
    <2>2. F!len = p
      BY <1>3, <1>9
    <2> QED
      BY <1>2, <1>3, <1>4, <1>7, <1>9, <2>1, <2>2 DEF n, p, x, y
  <1>10. CASE tail = <<"%">>
    <2>1. F!AskedTail = IF caller = "printf" THEN <<F!Piece("%", -1)>> ELSE <<>>
      BY <1>10 DEF F!AskedTail
    <2>0. Len(tail) = 1 /\ tail[1] = "%" /\ p + (1 - 1) = p
      BY <1>3, <1>10
    <2>2. F!len = p + 1 /\ F!Char(p) = "%"
      BY <1>3, <2>0
    <2> QED
      BY <1>2, <1>3, <1>4, <1>7, <1>10, <2>1, <2>2 DEF n, p, x, y
  <1>11. CASE tail = <<"%", "l">>
    <2>1. F!AskedTail = <<>>
      <3>1. tail # <<"%">>
        <4>1. Len(tail) = 2 /\ Len(<<"%">>) = 1
          BY <1>11
        <4> QED
          BY <4>1
      <3> QED
        BY <3>1 DEF F!AskedTail
    <2>0. Len(tail) = 2 /\ tail[1] = "%" /\ tail[2] = "l" /\ p + (1 - 1) = p /\ p + (2 - 1) = p + 1
      BY <1>3, <1>11
    <2>2. F!len = p + 2 /\ F!Char(p) = "%" /\ F!Char(p + 1) = "l"
      BY <1>3, <2>0
    <2> QED
      BY <1>2, <1>3, <1>4, <1>7, <1>11, <2>1, <2>2 DEF n, p, x, y
  <1> QED
    BY <1>8, <1>9, <1>10, <1>11

-----------------------------------------------------------------------------
\* A number of tokens is all of them or fewer.
LEMMA Countable ==
    ASSUME NEW f, NEW g, Composed(f, g), NEW k \in 0 .. Len(tokens)
    PROVE  k = Len(tokens) \/ k \in 0 .. Len(tokens) - 1
  <1>1. Len(tokens) \in Nat
    BY TokensFacts DEF Composed
  <1> QED
    BY <1>1

\* Nothing is read at the start.
LEMMA FormStart == F!Init => FormInv
  <1> SUFFICES ASSUME F!Init PROVE FormInv
    OBVIOUS
  <1>1. Formats
    <2>1. tokens \in F!SeqOf(Tokens, MaxTokens) /\ MaxTokens \in Nat
      BY LibraryAssumption DEF F!Init, F!FormatAssumption
    <2>2. PICK m \in 0 .. MaxTokens : tokens \in [1 .. m -> Tokens]
      BY <2>1 DEF F!SeqOf
    <2>3. tokens \in Seq(Tokens) /\ Len(tokens) = m
      BY <2>1, <2>2
    <2> QED
      BY <2>1, <2>2, <2>3 DEF F!Init, Formats
  <1>2. tokens \in Seq(Seq(Letters)) /\ AllAsked \in Seq(Seq(Pieces)) /\ Len(AllAsked) = Len(tokens) /\ Len(tokens) \in Nat
    BY <1>1, TokensFacts, AllAskedFacts
  <1>3. PICK f : Joined(Letters, tokens, f)
    BY <1>2, JoinedExists
  <1>4. PICK g : Joined(Pieces, AllAsked, g)
    BY <1>2, JoinedExists
  <1>5. f[0] = <<>> /\ g[0] = <<>> /\ F!Before[0] = 0
    BY <1>1, <1>3, <1>4, BeforeFacts DEF Joined
  <1>6. After(f, g, 0, index, ap, out)
    BY <1>5 DEF After, F!Init
  <1>7. 0 \in 0 .. Len(tokens) /\ loop = "for"
    BY <1>2 DEF F!Init
  <1>8. Place(f, g, loop, index, ap, out)
    BY <1>6, <1>7 DEF Place
  <1> QED
    BY <1>1, <1>3, <1>4, <1>8 DEF FormInv, Composed

\* The test of the for loop.
LEMMA ForRight ==
    ASSUME NEW f, NEW g, Composed(f, g), Place(f, g, loop, index, ap, out), F!For
    PROVE  Place(f, g, loop', index', ap', out')
  <1>1. loop = "for" /\ index' = index /\ ap' = ap /\ out' = out
        /\ loop' = IF index >= F!len THEN "done" ELSE IF caller = "sprintf" THEN "copy" ELSE "print"
    BY DEF F!For
  <1>2. caller \in {"printf", "sprintf"}
    BY DEF Composed, Formats
  <1>3. CASE Ended(g, index, ap, out)
    <2>1. F!len \in Nat /\ index \in F!len .. F!len + 2
      BY <1>3, TokenAt DEF Composed, Ended
    <2>2. loop' = "done"
      BY <1>1, <2>1
    <2> QED
      BY <1>1, <1>3, <2>2 DEF Place
  <1>4. CASE \E k \in 0 .. Len(tokens) : After(f, g, k, index, ap, out)
    <2>1. PICK k \in 0 .. Len(tokens) : After(f, g, k, index, ap, out)
      BY <1>4
    <2>0. F!len \in Nat /\ index \in Nat
      BY <2>1, TokenAt DEF Composed, After
    <2>2. CASE index >= F!len
      <3>1. k = Len(tokens)
        <4> SUFFICES ASSUME k # Len(tokens) PROVE FALSE
          OBVIOUS
        <4>1. k \in 0 .. Len(tokens) - 1
          BY Countable
        <4>2. Len(f[k]) \in Nat /\ Len(f[k + 1]) <= F!len /\ Len(f[k + 1]) > Len(f[k]) /\ Len(f[k + 1]) \in Nat
          <5> DEFINE p == Len(f[k])
                     q == Len(f[k + 1])
                     t == tokens[k + 1]
          <5>1. p \in Nat /\ q <= F!len /\ Len(t) \in {1, 2, 3}
                /\ (Len(t) = 1 => q = p + 1) /\ (Len(t) = 2 => q = p + 2) /\ (Len(t) = 3 => q = p + 3)
            BY <4>1, Consumes
          <5> HIDE DEF p, q, t
          <5>2. p \in Nat /\ q <= F!len /\ q > p /\ q \in Nat
            BY <5>1
          <5> QED
            BY <5>2 DEF p, q
        <4> QED
          BY <2>0, <2>1, <2>2, <4>2 DEF After
      <3>2. tail = <<>> /\ F!AskedTail = <<>> /\ F!len = Len(f[Len(tokens)]) /\ g[Len(tokens)] \o <<>> = g[Len(tokens)]
        <4> DEFINE p == Len(f[Len(tokens)])
        <4>1. /\ p \in Nat /\ g[Len(tokens)] \o <<>> = g[Len(tokens)]
              /\ \/ tail = <<>> /\ F!len = p /\ F!AskedTail = <<>>
                 \/ F!len = p + 1
                 \/ F!len = p + 2
          BY Ends
        <4>2. index = p
          BY <2>1, <3>1 DEF After
        <4> HIDE DEF p
        <4>3. F!len = p /\ tail = <<>> /\ F!AskedTail = <<>>
          BY <2>2, <4>1, <4>2
        <4> QED
          BY <4>1, <4>3 DEF p
      <3>3. Ended(g, index, ap, out)
        <4>1. index = F!len /\ index \in F!len .. F!len + 2
          BY <2>0, <2>1, <3>1, <3>2 DEF After
        <4>2. ap = F!Before[Len(tokens)] /\ out = g[Len(tokens)]
          BY <2>1, <3>1 DEF After
        <4> QED
          BY <3>2, <4>1, <4>2 DEF Ended
      <3>4. loop' = "done"
        BY <1>1, <2>2
      <3> QED
        BY <1>1, <3>3, <3>4 DEF Place
    <2>3. CASE ~(index >= F!len)
      <3>1. loop' = (IF caller = "sprintf" THEN "copy" ELSE "print") /\ index < F!len
        BY <1>1, <2>0, <2>3
      <3>2. After(f, g, k, index', ap', out')
        BY <1>1, <2>1
      <3> QED
        BY <1>1, <1>2, <3>1, <3>2 DEF Place
    <2> QED
      BY <2>2, <2>3
  <1> QED
    BY <1>1, <1>3, <1>4 DEF Place

\* In a step of the two loops the place is after some k tokens.
LEMMA Within ==
    ASSUME NEW f, NEW g, Place(f, g, loop, index, ap, out), loop \in {"copy", "print"}
    PROVE  /\ \E k \in 0 .. Len(tokens) : After(f, g, k, index, ap, out)
           /\ loop = "copy" => caller = "sprintf"
           /\ loop = "print" => caller = "printf" /\ index < F!len
  BY DEF Place

\* The place after a step that leaves it after k tokens, or at the end.
LEMMA Arrives ==
    ASSUME NEW f, NEW g, NEW k \in 0 .. Len(tokens), After(f, g, k, index', ap', out'),
           loop' = "for" \/ (loop' = "copy" /\ caller = "sprintf")
    PROVE  Place(f, g, loop', index', ap', out')
  BY DEF Place

\* Arriving at the end of the format.
LEMMA ArrivesAtEnd ==
    ASSUME NEW f, NEW g, Ended(g, index', ap', out'), loop' = "for"
    PROVE  Place(f, g, loop', index', ap', out')
  BY DEF Place

\* sprintf_va copies a plain character.
LEMMA CopyRight ==
    ASSUME NEW f, NEW g, Composed(f, g), Place(f, g, loop, index, ap, out), F!Copy
    PROVE  Place(f, g, loop', index', ap', out')
  <1>1. loop = "copy" /\ loop' = loop /\ ap' = ap /\ F!Char(index) # "%" /\ index < F!len
        /\ out' = Append(out, F!Piece(F!Char(index), -1)) /\ index' = index + 1
    BY DEF F!Copy, F!Copying
  <1>2. PICK k \in 0 .. Len(tokens) : After(f, g, k, index, ap, out)
    BY <1>1, Within
  <1>3. k \in 0 .. Len(tokens) - 1
    <2> SUFFICES ASSUME k = Len(tokens) PROVE FALSE
      BY Countable
    <2> DEFINE p == Len(f[Len(tokens)])
    <2>1. p \in Nat /\ (F!len = p \/ F!Char(p) = "%")
      BY Ends
    <2>2. index = p
      BY <1>2 DEF After
    <2> HIDE DEF p
    <2> QED
      BY <1>1, <2>1, <2>2
  <1>4. /\ F!Char(Len(f[k])) # "%" => Len(tokens[k + 1]) = 1
        /\ Len(tokens[k + 1]) = 1 =>
             /\ Len(f[k + 1]) = Len(f[k]) + 1
             /\ g[k + 1] = Append(g[k], F!Piece(F!Char(Len(f[k])), -1)) /\ F!Before[k + 1] = F!Before[k]
        /\ k + 1 \in 0 .. Len(tokens)
    BY <1>3, Consumes
  <1>5. After(f, g, k + 1, index', ap', out')
    BY <1>1, <1>2, <1>4 DEF After
  <1>6. caller = "sprintf"
    BY <1>1, Within
  <1> QED
    BY <1>1, <1>4, <1>5, <1>6, Arrives

\* sprintf_va meets the tail, or the end of the format.
LEMMA ConversionAtEnd ==
    ASSUME NEW f, NEW g, Composed(f, g), F!Convert, caller = "sprintf",
           After(f, g, Len(tokens), index, ap, out)
    PROVE  Place(f, g, loop', index', ap', out')
  <1> DEFINE n == Len(tokens)
             p == Len(f[n])
  <1>1. index = p /\ ap = F!Before[n] /\ out = g[n]
    BY DEF After
  <1>2. /\ p \in Nat /\ n \in 0 .. n
        /\ g[n] \o <<>> = g[n]
        /\ F!AskedTail = <<>>
        /\ \/ tail = <<>> /\ F!len = p
           \/ tail = <<"%">> /\ F!len = p + 1
           \/ tail = <<"%", "l">> /\ F!len = p + 2 /\ F!Char(p + 1) = "l"
    BY Ends
  <1>3. \/ index + 1 >= F!len /\ F!Skip(index + 1)
        \/ index + 1 < F!len /\ F!Char(index + 1) \in {"c", "s", "d", "x"}
        \/ index + 1 < F!len /\ F!Char(index + 1) = "l" /\ index' = index + 1 /\ loop' = "long" /\ UNCHANGED <<ap, out>>
        \/ index + 1 < F!len /\ F!Char(index + 1) \notin {"c", "s", "d", "x", "l"}
    BY DEF F!Convert, F!TypeAt
  <1>4. CASE F!len \in {p, p + 1}
    <2>1. F!Skip(index + 1)
      BY <1>1, <1>2, <1>3, <1>4
    <2>2. index' = (index + 1) + 1 /\ loop' = "for" /\ ap' = ap /\ out' = out
      BY <2>1 DEF F!Skip
    <2>3. index' \in F!len .. F!len + 2
      BY <1>1, <1>2, <1>4, <2>2
    <2>4. Ended(g, index', ap', out')
      BY <1>1, <1>2, <2>2, <2>3 DEF Ended
    <2> QED
      BY <2>2, <2>4, ArrivesAtEnd
  <1>5. CASE tail = <<"%", "l">> /\ F!len = p + 2 /\ F!Char(p + 1) = "l"
    <2>1. index' = index + 1 /\ loop' = "long" /\ ap' = ap /\ out' = out
      BY <1>1, <1>2, <1>3, <1>5
    <2>2. index' \in Nat /\ index' - 1 = p
      BY <1>1, <1>2, <2>1
    <2>3. InLong(f, g, index', ap', out')
      BY <1>1, <1>5, <2>1, <2>2 DEF InLong, After
    <2> QED
      BY <2>1, <2>2, <2>3 DEF Place
  <1> QED
    BY <1>2, <1>4, <1>5

\* The conversions of sprintf_va.
LEMMA SprintfKnows == caller = "sprintf" => F!Known = {"c", "s", "d", "x", "ld", "lx"}
  BY DEF F!Known

\* The conversions of printf.
LEMMA PrintfKnows == caller = "printf" => F!Known = {"s", "d", "x", "ld", "lx", "f"}
  BY DEF F!Known

\* What one va_arg leaves.
LEMMA TakeIs ==
    ASSUME NEW kind, NEW last, F!Take(kind, last)
    PROVE  /\ out' = Append(out, F!Piece(kind, ap)) /\ index' = last + 1 /\ loop' = "for"
           /\ ap' = ap + (IF kind \in {"ld", "lx"} THEN 2 ELSE 1)
  BY DEF F!Take, F!Words

\* What an ignored conversion leaves.
LEMMA SkipIs ==
    ASSUME NEW last, F!Skip(last)
    PROVE  out' = out /\ ap' = ap /\ index' = last + 1 /\ loop' = "for"
  BY DEF F!Skip

\* sprintf_va interprets a %.
LEMMA ConversionRight ==
    ASSUME NEW f, NEW g, Composed(f, g), Place(f, g, loop, index, ap, out), F!Convert
    PROVE  Place(f, g, loop', index', ap', out')
  <1>1. loop = "copy" /\ ~(F!Char(index) # "%" /\ index < F!len)
    BY DEF F!Convert, F!Copying
  <1>2. PICK k \in 0 .. Len(tokens) : After(f, g, k, index, ap, out)
    BY <1>1, Within
  <1>3. caller = "sprintf"
    BY <1>1, Within
  <1>4. CASE k = Len(tokens)
    BY <1>2, <1>3, <1>4, ConversionAtEnd
  <1>5. CASE k \in 0 .. Len(tokens) - 1
    <2> DEFINE p == Len(f[k])
               q == Len(f[k + 1])
               w == F!Before[k]
               x == F!Char(p + 1)
    <2>1. index = p /\ ap = w /\ out = g[k]
      BY <1>2 DEF After
    <2>2. /\ p \in Nat /\ q <= F!len /\ F!len \in Nat /\ w \in Nat /\ k + 1 \in 0 .. Len(tokens)
          /\ Len(tokens[k + 1]) \in {1, 2, 3}
          /\ Len(tokens[k + 1]) = 1 => F!Char(p) # "%" /\ q = p + 1
          /\ Len(tokens[k + 1]) = 2 =>
               /\ F!Char(p) = "%" /\ x \notin {"l", "ld", "lx"} /\ q = p + 2
               /\ x \in F!Known => g[k + 1] = Append(g[k], F!Piece(x, w)) /\ F!Before[k + 1] = w + 1
               /\ x \notin F!Known => g[k + 1] = g[k] /\ F!Before[k + 1] = w
          /\ Len(tokens[k + 1]) = 3 => F!Char(p) = "%" /\ x = "l" /\ q = p + 3
      BY <1>5, Consumes
    <2>3. \/ index + 1 >= F!len /\ F!Skip(index + 1)
          \/ F!Char(index + 1) \in {"c", "s", "d", "x"} /\ F!Take(F!Char(index + 1), index + 1)
          \/ F!Char(index + 1) = "l" /\ index' = index + 1 /\ loop' = "long" /\ UNCHANGED <<ap, out>>
          \/ F!Char(index + 1) \notin {"c", "s", "d", "x", "l"} /\ F!Skip(index + 1)
      BY DEF F!Convert, F!TypeAt
    <2> HIDE DEF p, q, w, x
    <2>4. Len(tokens[k + 1]) # 1
      BY <1>1, <2>1, <2>2
    <2>5. index + 1 < F!len /\ F!Char(index + 1) = x
      BY <2>1, <2>2, <2>4 DEF x
    <2>6. \/ x \in {"c", "s", "d", "x"} /\ F!Take(x, index + 1)
          \/ x = "l" /\ index' = index + 1 /\ loop' = "long" /\ UNCHANGED <<ap, out>>
          \/ x \notin {"c", "s", "d", "x", "l"} /\ F!Skip(index + 1)
      BY <2>1, <2>2, <2>3, <2>5
    <2>7. CASE Len(tokens[k + 1]) = 2
      <3>1. CASE x \in {"c", "s", "d", "x"} /\ F!Take(x, index + 1)
        <4>1. out' = Append(out, F!Piece(x, ap)) /\ index' = (index + 1) + 1 /\ loop' = "for" /\ ap' = ap + 1
          BY <2>2, <2>7, <3>1, TakeIs
        <4>2. x \in F!Known
          BY <1>3, <3>1, SprintfKnows
        <4>3. After(f, g, k + 1, index', ap', out')
          BY <2>1, <2>2, <2>7, <4>1, <4>2 DEF After, q
        <4> QED
          BY <2>2, <4>1, <4>3, Arrives
      <3>2. CASE x \notin {"c", "s", "d", "x", "l"} /\ F!Skip(index + 1)
        <4>1. out' = out /\ index' = (index + 1) + 1 /\ loop' = "for" /\ ap' = ap
          BY <3>2, SkipIs
        <4>2. x \notin F!Known
          BY <1>3, <2>2, <2>7, <3>2, SprintfKnows
        <4>3. After(f, g, k + 1, index', ap', out')
          BY <2>1, <2>2, <2>7, <4>1, <4>2 DEF After, q
        <4> QED
          BY <2>2, <4>1, <4>3, Arrives
      <3> QED
        BY <2>2, <2>6, <2>7, <3>1, <3>2
    <2>8. CASE Len(tokens[k + 1]) = 3
      <3>1. index' = index + 1 /\ loop' = "long" /\ ap' = ap /\ out' = out
        BY <2>2, <2>6, <2>8
      <3>2. index' \in Nat /\ index' - 1 = index
        BY <2>1, <2>2, <3>1
      <3>3. After(f, g, k, index' - 1, ap', out')
        BY <1>2, <3>1, <3>2
      <3>4. InLong(f, g, index', ap', out')
        BY <1>5, <2>8, <3>3 DEF InLong
      <3> QED
        BY <1>3, <3>1, <3>2, <3>4 DEF Place
    <2> QED
      BY <2>2, <2>4, <2>7, <2>8
  <1> QED
    BY <1>4, <1>5, Countable

\* sprintf_va interprets the character after an l.
LEMMA LongRight ==
    ASSUME NEW f, NEW g, Composed(f, g), Place(f, g, loop, index, ap, out), F!ConvertLong
    PROVE  Place(f, g, loop', index', ap', out')
  <1>1. loop = "long"
    BY DEF F!ConvertLong
  <1>2. caller = "sprintf" /\ index \in Nat /\ InLong(f, g, index, ap, out)
    BY <1>1 DEF Place
  <1>3. \/ index + 1 >= F!len /\ F!Skip(index + 1)
        \/ index + 1 < F!len /\ F!Char(index + 1) = "d" /\ F!Take("ld", index + 1)
        \/ index + 1 < F!len /\ F!Char(index + 1) = "x" /\ F!Take("lx", index + 1)
        \/ index + 1 < F!len /\ F!Char(index + 1) \notin {"d", "x"} /\ F!Skip(index + 1)
    BY DEF F!ConvertLong
  <1>4. CASE tail = <<"%", "l">> /\ After(f, g, Len(tokens), index - 1, ap, out)
    <2> DEFINE n == Len(tokens)
               p == Len(f[n])
    <2>1. index - 1 = p /\ ap = F!Before[n] /\ out = g[n]
      BY <1>4 DEF After
    <2>2. p \in Nat /\ g[n] \o <<>> = g[n] /\ F!AskedTail = <<>> /\ F!len = p + 2
      <3>1. Len(<<>>) = 0 /\ Len(<<"%">>) = 1 /\ Len(<<"%", "l">>) = 2
        OBVIOUS
      <3> QED
        BY <1>2, <1>4, <3>1, Ends
    <2> HIDE DEF p
    <2>3. F!Skip(index + 1)
      BY <1>2, <1>3, <2>1, <2>2
    <2>4. out' = out /\ ap' = ap /\ index' = (index + 1) + 1 /\ loop' = "for"
      BY <2>3, SkipIs
    <2>5. index' \in F!len .. F!len + 2
      BY <1>2, <2>1, <2>2, <2>4
    <2>6. Ended(g, index', ap', out')
      BY <2>1, <2>2, <2>4, <2>5 DEF Ended
    <2> QED
      BY <2>4, <2>6, ArrivesAtEnd
  <1>5. CASE \E k \in 0 .. Len(tokens) - 1 : Len(tokens[k + 1]) = 3 /\ After(f, g, k, index - 1, ap, out)
    <2>0. PICK k \in 0 .. Len(tokens) - 1 : Len(tokens[k + 1]) = 3 /\ After(f, g, k, index - 1, ap, out)
      BY <1>5
    <2> DEFINE p == Len(f[k])
               q == Len(f[k + 1])
               w == F!Before[k]
               x == F!Char(p + 2)
    <2>1. index - 1 = p /\ ap = w /\ out = g[k]
      BY <2>0 DEF After
    <2>2. /\ p \in Nat /\ q <= F!len /\ F!len \in Nat /\ w \in Nat /\ k + 1 \in 0 .. Len(tokens) /\ q = p + 3
          /\ x = "d" => g[k + 1] = Append(g[k], F!Piece("ld", w)) /\ F!Before[k + 1] = w + 2
          /\ x = "x" => g[k + 1] = Append(g[k], F!Piece("lx", w)) /\ F!Before[k + 1] = w + 2
          /\ x \notin {"d", "x"} => g[k + 1] = g[k] /\ F!Before[k + 1] = w
      BY <2>0, Consumes
    <2>3. index + 1 = p + 2
      BY <1>2, <2>1, <2>2
    <2> HIDE DEF p, q, w, x
    <2>4. index + 1 < F!len /\ F!Char(index + 1) = x
      BY <2>2, <2>3 DEF x
    <2>5. CASE x = "d" /\ F!Take("ld", index + 1)
      <3>1. out' = Append(out, F!Piece("ld", ap)) /\ index' = (index + 1) + 1 /\ loop' = "for" /\ ap' = ap + 2
        BY <2>5, TakeIs
      <3>2. After(f, g, k + 1, index', ap', out')
        BY <2>1, <2>2, <2>3, <2>5, <3>1 DEF After, q
      <3> QED
        BY <2>2, <3>1, <3>2, Arrives
    <2>6. CASE x = "x" /\ F!Take("lx", index + 1)
      <3>1. out' = Append(out, F!Piece("lx", ap)) /\ index' = (index + 1) + 1 /\ loop' = "for" /\ ap' = ap + 2
        BY <2>6, TakeIs
      <3>2. After(f, g, k + 1, index', ap', out')
        BY <2>1, <2>2, <2>3, <2>6, <3>1 DEF After, q
      <3> QED
        BY <2>2, <3>1, <3>2, Arrives
    <2>7. CASE x \notin {"d", "x"} /\ F!Skip(index + 1)
      <3>1. out' = out /\ ap' = ap /\ index' = (index + 1) + 1 /\ loop' = "for"
        BY <2>7, SkipIs
      <3>2. After(f, g, k + 1, index', ap', out')
        BY <2>1, <2>2, <2>3, <2>7, <3>1 DEF After, q
      <3> QED
        BY <2>2, <3>1, <3>2, Arrives
    <2> QED
      BY <1>2, <1>3, <2>2, <2>4, <2>5, <2>6, <2>7
  <1> QED
    BY <1>2, <1>4, <1>5 DEF InLong

\* printf shows a plain character, or a % that nothing follows.
LEMMA PrintRight ==
    ASSUME NEW f, NEW g, Composed(f, g), Place(f, g, loop, index, ap, out), F!PrintChar
    PROVE  Place(f, g, loop', index', ap', out')
  <1>1. loop = "print" /\ loop' = "for" /\ ap' = ap /\ ~(F!Char(index) = "%" /\ index + 1 < F!len)
        /\ out' = Append(out, F!Piece(F!Char(index), -1)) /\ index' = index + 1
    BY DEF F!PrintChar, F!IsConversion
  <1>2. PICK k \in 0 .. Len(tokens) : After(f, g, k, index, ap, out)
    BY <1>1, Within
  <1>3. caller = "printf" /\ index < F!len
    BY <1>1, Within
  <1>4. CASE k = Len(tokens)
    <2> DEFINE n == Len(tokens)
               p == Len(f[n])
    <2>1. index = p /\ ap = F!Before[n] /\ out = g[n]
      BY <1>2, <1>4 DEF After
    <2>2. /\ p \in Nat /\ g[n] \o <<F!Piece("%", -1)>> = Append(g[n], F!Piece("%", -1))
          /\ \/ F!len = p
             \/ F!len = p + 1 /\ F!Char(p) = "%" /\ F!AskedTail = <<F!Piece("%", -1)>>
             \/ F!len = p + 2 /\ F!Char(p) = "%"
      BY <1>3, Ends
    <2> HIDE DEF p
    <2>3. F!len = p + 1 /\ F!Char(p) = "%" /\ F!AskedTail = <<F!Piece("%", -1)>>
      BY <1>1, <1>3, <2>1, <2>2
    <2>4. index' \in F!len .. F!len + 2
      BY <1>1, <2>1, <2>2, <2>3
    <2>5. Ended(g, index', ap', out')
      BY <1>1, <2>1, <2>2, <2>3, <2>4 DEF Ended
    <2> QED
      BY <1>1, <2>5, ArrivesAtEnd
  <1>5. CASE k \in 0 .. Len(tokens) - 1
    <2> DEFINE p == Len(f[k])
               q == Len(f[k + 1])
    <2>1. index = p /\ ap = F!Before[k] /\ out = g[k]
      BY <1>2 DEF After
    <2>2. /\ p \in Nat /\ q <= F!len /\ F!len \in Nat /\ k + 1 \in 0 .. Len(tokens)
          /\ Len(tokens[k + 1]) \in {1, 2, 3}
          /\ Len(tokens[k + 1]) = 1 =>
               q = p + 1 /\ g[k + 1] = Append(g[k], F!Piece(F!Char(p), -1)) /\ F!Before[k + 1] = F!Before[k]
          /\ Len(tokens[k + 1]) = 2 => F!Char(p) = "%" /\ q = p + 2
          /\ Len(tokens[k + 1]) = 3 => F!Char(p) = "%" /\ q = p + 3
      BY <1>5, Consumes
    <2> HIDE DEF p, q
    <2>3. Len(tokens[k + 1]) = 1
      BY <1>1, <2>1, <2>2
    <2>4. After(f, g, k + 1, index', ap', out')
      BY <1>1, <2>1, <2>2, <2>3 DEF After, q
    <2> QED
      BY <1>1, <2>2, <2>4, Arrives
  <1> QED
    BY <1>4, <1>5, Countable

\* printf interprets a %.
LEMMA DirectiveRight ==
    ASSUME NEW f, NEW g, Composed(f, g), Place(f, g, loop, index, ap, out), F!Directive
    PROVE  Place(f, g, loop', index', ap', out')
  <1>1. loop = "print" /\ F!Char(index) = "%" /\ index + 1 < F!len
    BY DEF F!Directive, F!IsConversion
  <1>2. PICK k \in 0 .. Len(tokens) : After(f, g, k, index, ap, out)
    BY <1>1, Within
  <1>3. caller = "printf" /\ index < F!len
    BY <1>1, Within
  <1>x. \/ F!Char(index + 1) \in {"s", "d", "x", "f"} /\ F!Take(F!Char(index + 1), index + 1)
        \/ F!Char(index + 1) = "l" /\ index + 2 >= F!len /\ F!Skip(index + 1)
        \/ F!Char(index + 1) = "l" /\ index + 2 < F!len /\ F!Char(index + 2) = "d" /\ F!Take("ld", index + 2)
        \/ F!Char(index + 1) = "l" /\ index + 2 < F!len /\ F!Char(index + 2) = "x" /\ F!Take("lx", index + 2)
        \/ F!Char(index + 1) = "l" /\ index + 2 < F!len /\ F!Char(index + 2) \notin {"d", "x"} /\ F!Skip(index + 2)
        \/ F!Char(index + 1) \notin {"s", "d", "x", "f", "l"} /\ F!Skip(index + 1)
    BY DEF F!Directive, F!AfterLong
  <1>4. CASE k = Len(tokens)
    <2> DEFINE n == Len(tokens)
               p == Len(f[n])
    <2>1. index = p /\ ap = F!Before[n] /\ out = g[n]
      BY <1>2, <1>4 DEF After
    <2>2. /\ p \in Nat /\ g[n] \o <<>> = g[n]
          /\ \/ F!len = p
             \/ F!len = p + 1
             \/ F!len = p + 2 /\ F!Char(p + 1) = "l" /\ F!AskedTail = <<>>
      BY Ends
    <2> HIDE DEF p
    <2>3. F!len = p + 2 /\ F!Char(p + 1) = "l" /\ F!AskedTail = <<>>
      BY <1>1, <1>3, <2>1, <2>2
    <2>4. F!Skip(index + 1)
      BY <1>x, <2>1, <2>2, <2>3
    <2>5. out' = out /\ ap' = ap /\ index' = (index + 1) + 1 /\ loop' = "for"
      BY <2>4, SkipIs
    <2>6. index' \in F!len .. F!len + 2
      BY <2>1, <2>2, <2>3, <2>5
    <2>7. Ended(g, index', ap', out')
      BY <2>1, <2>2, <2>3, <2>5, <2>6 DEF Ended
    <2> QED
      BY <2>5, <2>7, ArrivesAtEnd
  <1>5. CASE k \in 0 .. Len(tokens) - 1
    <2> DEFINE p == Len(f[k])
               q == Len(f[k + 1])
               w == F!Before[k]
               x == F!Char(p + 1)
               z == F!Char(p + 2)
    <2>1. index = p /\ ap = w /\ out = g[k]
      BY <1>2 DEF After
    <2>2. /\ p \in Nat /\ q <= F!len /\ F!len \in Nat /\ w \in Nat /\ k + 1 \in 0 .. Len(tokens)
          /\ Len(tokens[k + 1]) \in {1, 2, 3}
          /\ Len(tokens[k + 1]) = 1 => F!Char(p) # "%"
      BY <1>5, Consumes
    <2>3. Len(tokens[k + 1]) = 2 =>
               /\ x \notin {"l", "ld", "lx"} /\ q = p + 2
               /\ x \in F!Known => g[k + 1] = Append(g[k], F!Piece(x, w)) /\ F!Before[k + 1] = w + 1
               /\ x \notin F!Known => g[k + 1] = g[k] /\ F!Before[k + 1] = w
      BY <1>5, Consumes
    <2>4. Len(tokens[k + 1]) = 3 =>
               /\ x = "l" /\ q = p + 3
               /\ z = "d" => g[k + 1] = Append(g[k], F!Piece("ld", w)) /\ F!Before[k + 1] = w + 2
               /\ z = "x" => g[k + 1] = Append(g[k], F!Piece("lx", w)) /\ F!Before[k + 1] = w + 2
               /\ z \notin {"d", "x"} => g[k + 1] = g[k] /\ F!Before[k + 1] = w
      BY <1>5, Consumes
    <2>5. F!Char(index + 1) = x /\ F!Char(index + 2) = z
      BY <2>1
    <2> HIDE DEF p, q, w, x, z
    <2>6. Len(tokens[k + 1]) # 1
      BY <1>1, <2>1, <2>2
    <2>7. CASE Len(tokens[k + 1]) = 2
      <3>1. CASE x \in {"s", "d", "x", "f"} /\ F!Take(x, index + 1)
        <4>1. out' = Append(out, F!Piece(x, ap)) /\ index' = (index + 1) + 1 /\ loop' = "for" /\ ap' = ap + 1
          BY <2>3, <2>7, <3>1, TakeIs
        <4>2. x \in F!Known
          BY <1>3, <3>1, PrintfKnows
        <4>3. After(f, g, k + 1, index', ap', out')
          BY <2>1, <2>2, <2>3, <2>7, <4>1, <4>2 DEF After, q
        <4> QED
          BY <2>2, <4>1, <4>3, Arrives
      <3>2. CASE x \notin {"s", "d", "x", "f", "l"} /\ F!Skip(index + 1)
        <4>1. out' = out /\ index' = (index + 1) + 1 /\ loop' = "for" /\ ap' = ap
          BY <3>2, SkipIs
        <4>2. x \notin F!Known
          BY <1>3, <2>3, <2>7, <3>2, PrintfKnows
        <4>3. After(f, g, k + 1, index', ap', out')
          BY <2>1, <2>2, <2>3, <2>7, <4>1, <4>2 DEF After, q
        <4> QED
          BY <2>2, <4>1, <4>3, Arrives
      <3> QED
        BY <1>x, <2>3, <2>5, <2>7, <3>1, <3>2
    <2>8. CASE Len(tokens[k + 1]) = 3
      <3>0. x = "l" /\ index + 2 < F!len /\ q = (index + 2) + 1
        BY <2>1, <2>2, <2>4, <2>8
      <3>1. CASE z = "d" /\ F!Take("ld", index + 2)
        <4>1. out' = Append(out, F!Piece("ld", ap)) /\ index' = (index + 2) + 1 /\ loop' = "for" /\ ap' = ap + 2
          BY <3>1, TakeIs
        <4>3. After(f, g, k + 1, index', ap', out')
          BY <2>1, <2>4, <2>8, <3>0, <3>1, <4>1 DEF After, q
        <4> QED
          BY <2>2, <4>1, <4>3, Arrives
      <3>2. CASE z = "x" /\ F!Take("lx", index + 2)
        <4>1. out' = Append(out, F!Piece("lx", ap)) /\ index' = (index + 2) + 1 /\ loop' = "for" /\ ap' = ap + 2
          BY <3>2, TakeIs
        <4>3. After(f, g, k + 1, index', ap', out')
          BY <2>1, <2>4, <2>8, <3>0, <3>2, <4>1 DEF After, q
        <4> QED
          BY <2>2, <4>1, <4>3, Arrives
      <3>3. CASE z \notin {"d", "x"} /\ F!Skip(index + 2)
        <4>1. out' = out /\ index' = (index + 2) + 1 /\ loop' = "for" /\ ap' = ap
          BY <3>3, SkipIs
        <4>3. After(f, g, k + 1, index', ap', out')
          BY <2>1, <2>4, <2>8, <3>0, <3>3, <4>1 DEF After, q
        <4> QED
          BY <2>2, <4>1, <4>3, Arrives
      <3>4. \/ z = "d" /\ F!Take("ld", index + 2)
            \/ z = "x" /\ F!Take("lx", index + 2)
            \/ z \notin {"d", "x"} /\ F!Skip(index + 2)
        <4>1. ~(index + 2 >= F!len)
          BY <2>1, <2>2, <3>0
        <4> QED
          BY <1>x, <2>5, <3>0, <4>1
      <3> QED
        BY <3>1, <3>2, <3>3, <3>4
    <2> QED
      BY <2>2, <2>6, <2>7, <2>8
  <1> QED
    BY <1>4, <1>5, Countable

\* Every step of the two loops keeps the invariant.
LEMMA FormStep ==
    ASSUME FormInv, [F!Next]_formatted
    PROVE  FormInv'
  <1>1. PICK f, g : Composed(f, g) /\ Place(f, g, loop, index, ap, out)
    BY DEF FormInv
  <1>2. CASE UNCHANGED formatted
    BY <1>1, <1>2, Steady DEF formatted
  <1>3. CASE F!Next
    <2>1. UNCHANGED <<caller, tokens, tail>>
      BY <1>3 DEF F!Next, F!For, F!Copy, F!Convert, F!ConvertLong, F!PrintChar, F!Directive
    <2>2. Place(f, g, loop', index', ap', out')
      BY <1>1, <1>3, ForRight, CopyRight, ConversionRight, LongRight, PrintRight, DirectiveRight DEF F!Next
    <2> QED
      BY <1>1, <2>1, <2>2, Steady
  <1> QED
    BY <1>2, <1>3

-----------------------------------------------------------------------------
\* What is written at the end is what the format asks for.
LEMMA Shows == FormInv => F!Interpreted
  <1> SUFFICES ASSUME FormInv, loop = "done"
               PROVE  out = F!FlattenSeq([k \in DOMAIN tokens |-> F!Asked(k)]) \o F!AskedTail
    BY DEF F!Interpreted
  <1>1. PICK f, g : Composed(f, g) /\ Place(f, g, loop, index, ap, out)
    BY DEF FormInv
  <1>2. out = g[Len(tokens)] \o F!AskedTail
    BY <1>1 DEF Place, Ended
  <1>3. AllAsked \in Seq(Seq(Pieces)) /\ Len(AllAsked) = Len(tokens) /\ Joined(Pieces, AllAsked, g)
    BY <1>1, AllAskedFacts DEF Composed
  <1>4. F!FlattenSeq(AllAsked) = g[Len(tokens)]
    BY <1>3, FlattenIs
  <1> QED
    BY <1>2, <1>4 DEF AllAsked

\* No piece takes a word that is not yet taken.
LEMMA WordsTaken ==
    ASSUME NEW f, NEW g, Composed(f, g)
    PROVE  \A k \in 0 .. Len(tokens) : /\ g[k] \in Seq(Pieces)
                                       /\ \A m \in 1 .. Len(g[k]) : g[k][m].word \in -1 .. F!Before[k] - 1
  <1> DEFINE n == Len(tokens)
             Q(k) == \A m \in 1 .. Len(g[k]) : g[k][m].word \in -1 .. F!Before[k] - 1
             P == {k \in Nat : k <= n => Q(k)}
  <1>1. Formats /\ Joined(Pieces, AllAsked, g)
    BY DEF Composed
  <1>2. n \in Nat /\ MaxTokens \in Nat /\ n <= MaxTokens
    BY <1>1, TokensFacts DEF Formats
  <1>3. Len(AllAsked) = n /\ \A k \in 1 .. n :
            /\ AllAsked[k] = F!Asked(k) /\ F!Asked(k) \in Seq(Pieces)
            /\ \A m \in 1 .. Len(F!Asked(k)) : F!Asked(k)[m].word \in -1 .. F!Before[k] - 1
    BY <1>1, AllAskedFacts
  <1>4. g[0] = <<>> /\ (\A k \in 0 .. n : g[k] \in Seq(Pieces)) /\ \A k \in 1 .. n : g[k] = g[k - 1] \o AllAsked[k]
    BY <1>1, <1>3 DEF Joined
  <1>5. 0 \in P
    BY <1>4
  <1>6. ASSUME NEW k \in P, k \in Nat PROVE k + 1 \in P
    <2> SUFFICES ASSUME k + 1 <= n PROVE Q(k + 1)
      OBVIOUS
    <2> DEFINE y == g[k]
               a == F!Asked(k + 1)
               u == F!Before[k]
               v == F!Before[k + 1]
    <2>0. k \in 0 .. n /\ k + 1 \in 1 .. n /\ (k + 1) - 1 = k /\ k \in 0 .. MaxTokens /\ k + 1 \in 1 .. MaxTokens
      BY <1>2, <1>6
    <2>1. y \in Seq(Pieces) /\ a \in Seq(Pieces) /\ g[k + 1] = y \o a
          /\ (\A m \in 1 .. Len(y) : y[m].word \in -1 .. u - 1)
          /\ (\A m \in 1 .. Len(a) : a[m].word \in -1 .. v - 1)
      <3>1. y \in Seq(Pieces) /\ a \in Seq(Pieces)
        BY <1>3, <1>4, <2>0
      <3>2. g[k + 1] = y \o a
        <4>1. g[k + 1] = g[(k + 1) - 1] \o AllAsked[k + 1]
          BY <1>4, <2>0
        <4> QED
          BY <1>3, <2>0, <4>1
      <3>3. \A m \in 1 .. Len(y) : y[m].word \in -1 .. u - 1
        BY <1>6, <2>0
      <3>4. \A m \in 1 .. Len(a) : a[m].word \in -1 .. v - 1
        BY <1>3, <2>0
      <3> QED
        BY <3>1, <3>2, <3>3, <3>4
    <2>2. u \in Nat /\ v \in Nat /\ u <= v
      <3>1. u \in 0 .. 2 * k /\ v = u + Adds(k + 1) /\ Adds(k + 1) \in 0 .. 2
        BY <1>1, <2>0, BeforeFacts, AddsFacts
      <3> QED
        BY <2>0, <3>1
    <2> HIDE DEF y, a, u, v
    <2>3. Len(y \o a) = Len(y) + Len(a) /\ \A m \in 1 .. Len(y) + Len(a) : (y \o a)[m] = IF m <= Len(y) THEN y[m] ELSE a[m - Len(y)]
      BY <2>1, ConcatProperties
    <2>4. Len(y) \in Nat /\ Len(a) \in Nat
      BY <2>1
    <2>5. ASSUME NEW m \in 1 .. Len(y) + Len(a) PROVE (y \o a)[m].word \in -1 .. v - 1
      <3>1. CASE m <= Len(y)
        <4>1. m \in 1 .. Len(y)
          BY <2>4, <3>1
        <4>2. (y \o a)[m] = y[m] /\ y[m].word \in -1 .. u - 1
          BY <2>1, <2>3, <3>1, <4>1
        <4> QED
          BY <2>2, <4>2
      <3>2. CASE ~(m <= Len(y))
        <4>1. m - Len(y) \in 1 .. Len(a)
          BY <2>4, <3>2
        <4> QED
          BY <2>1, <2>3, <3>2, <4>1
      <3> QED
        BY <3>1, <3>2
    <2> QED
      BY <2>1, <2>3, <2>5 DEF v
  <1>7. Nat \subseteq P
    <2> HIDE DEF P
    <2> QED
      BY <1>5, <1>6, SetInduction
  <1>8. \A k \in 0 .. n : Q(k)
    <2> HIDE DEF Q
    <2> QED
      BY <1>2, <1>7
  <1> QED
    BY <1>4, <1>8

\* The types follow from the invariant.
LEMMA FormTypes == FormInv => F!TypeOK
  <1> SUFFICES ASSUME FormInv PROVE F!TypeOK
    OBVIOUS
  <1> DEFINE n == Len(tokens)
  <1>1. PICK f, g : Composed(f, g) /\ Place(f, g, loop, index, ap, out)
    BY DEF FormInv
  <1>2. Formats /\ Joined(Letters, tokens, f) /\ Joined(Pieces, AllAsked, g) /\ n \in Nat /\ MaxTokens \in Nat /\ n <= MaxTokens
    BY <1>1, TokensFacts DEF Composed, Formats
  <1>3. loop \in {"for", "copy", "long", "print", "done"}
    BY <1>1 DEF Place
  <1>4. F!len \in Nat /\ \A k \in 0 .. n : Len(f[k]) \in Nat /\ Len(f[k]) <= F!len
    <2> DEFINE x == Len(f[n])
    <2>1. F!len = x + Len(tail) /\ F!len \in Nat /\ \A k \in 0 .. n : Len(f[k]) \in Nat /\ Len(f[k]) <= x
      BY <1>2, TokenAt
    <2>2. Len(tail) \in Nat /\ x \in Nat
      <3>1. tail \in Seq(Letters) /\ n \in 0 .. n
        BY <1>2, TailShapes
      <3> QED
        BY <2>1, <3>1
    <2> HIDE DEF x
    <2>3. \A k \in 0 .. n : Len(f[k]) <= F!len
      BY <2>1, <2>2
    <2> QED
      BY <2>1, <2>3
  <1>5. \A k \in 0 .. n : F!Before[k] \in 0 .. 2 * MaxTokens
    <2> SUFFICES ASSUME NEW k \in 0 .. n PROVE F!Before[k] \in 0 .. 2 * MaxTokens
      OBVIOUS
    <2>1. k \in 0 .. MaxTokens
      BY <1>2
    <2>2. F!Before[k] \in 0 .. 2 * k
      BY <1>2, <2>1, BeforeFacts
    <2> QED
      BY <1>2, <2>1, <2>2
  <1>6. \A k \in 0 .. n : /\ g[k] \in Seq(Pieces)
                          /\ \A m \in 1 .. Len(g[k]) : g[k][m].word \in -1 .. F!Before[k] - 1
    BY <1>1, WordsTaken
  <1>7. ASSUME NEW k \in 0 .. n, ap = F!Before[k], out = g[k], index \in 0 .. F!len + 2 PROVE F!TypeOK
    <2>1. DOMAIN out = 1 .. Len(out)
      BY <1>6, <1>7
    <2>2. \A m \in DOMAIN out : out[m].word \in -1 .. ap - 1
      BY <1>6, <1>7, <2>1
    <2> QED
      BY <1>3, <1>5, <1>7, <2>2 DEF F!TypeOK
  <1>8. CASE \E k \in 0 .. n : After(f, g, k, index, ap, out)
    <2>1. PICK k \in 0 .. n : After(f, g, k, index, ap, out)
      BY <1>8
    <2>2. ap = F!Before[k] /\ out = g[k] /\ index = Len(f[k])
      BY <2>1 DEF After
    <2>3. index \in 0 .. F!len + 2
      BY <1>4, <2>2
    <2> QED
      BY <1>7, <2>2, <2>3
  <1>9. CASE index \in Nat /\ \E k \in 0 .. n : After(f, g, k, index - 1, ap, out)
    <2>1. PICK k \in 0 .. n : After(f, g, k, index - 1, ap, out)
      BY <1>9
    <2>2. ap = F!Before[k] /\ out = g[k] /\ index - 1 = Len(f[k])
      BY <2>1 DEF After
    <2>3. index \in 0 .. F!len + 2
      <3> DEFINE p == Len(f[k])
      <3>1. p \in Nat /\ p <= F!len /\ index - 1 = p /\ index \in Nat
        BY <1>4, <1>9, <2>2
      <3> HIDE DEF p
      <3> QED
        BY <1>4, <3>1
    <2> QED
      BY <1>7, <2>2, <2>3
  <1>10. CASE Ended(g, index, ap, out)
    <2>1. index \in 0 .. F!len + 2 /\ ap = F!Before[n] /\ out = g[n] \o F!AskedTail
      BY <1>4, <1>10 DEF Ended
    <2> DEFINE y == g[n]
    <2>2. y \in Seq(Pieces) /\ (\A m \in 1 .. Len(y) : y[m].word \in -1 .. ap - 1) /\ ap \in 0 .. 2 * MaxTokens
      <3>1. n \in 0 .. n
        BY <1>2
      <3> QED
        BY <1>5, <1>6, <2>1, <3>1
    <2>3. F!AskedTail \in {<<>>, <<F!Piece("%", -1)>>}
      BY DEF F!AskedTail
    <2> DEFINE x == F!Piece("%", -1)
    <2>4. x \in Pieces /\ x.word = -1
      BY DEF F!Piece, Pieces, Letters
    <2> HIDE DEF x, y
    <2>5. CASE F!AskedTail = <<>>
      <3>1. out = y
        BY <2>1, <2>2, <2>5, ConcatEmptySeq DEF y
      <3>2. DOMAIN out = 1 .. Len(out)
        BY <2>2, <3>1
      <3>3. \A m \in DOMAIN out : out[m].word \in -1 .. ap - 1
        BY <2>2, <3>1, <3>2
      <3> QED
        BY <1>3, <2>1, <2>2, <3>3 DEF F!TypeOK
    <2>6. CASE F!AskedTail = <<x>>
      <3>1. out = Append(y, x)
        BY <2>1, <2>2, <2>4, <2>6, AppendIsConcat DEF y
      <3>2. out \in Seq(Pieces) /\ Len(out) = Len(y) + 1 /\ (\A m \in 1 .. Len(y) : out[m] = y[m]) /\ out[Len(y) + 1] = x
        BY <2>2, <2>4, <3>1, AppendProperties
      <3>3. DOMAIN out = 1 .. Len(y) + 1 /\ Len(y) \in Nat
        BY <2>2, <3>2
      <3>4. ASSUME NEW m \in DOMAIN out PROVE out[m].word \in -1 .. ap - 1
        <4>1. CASE m = Len(y) + 1
          <5>1. out[m].word = -1
            BY <2>4, <3>2, <4>1
          <5> QED
            BY <2>2, <5>1
        <4>2. CASE m # Len(y) + 1
          <5>1. m \in 1 .. Len(y)
            BY <3>3, <4>2
          <5> QED
            BY <2>2, <3>2, <5>1
        <4> QED
          BY <4>1, <4>2
      <3> QED
        BY <1>3, <2>1, <2>2, <3>4 DEF F!TypeOK
    <2> QED
      BY <2>3, <2>5, <2>6 DEF x
  <1>11. InLong(f, g, index, ap, out) => \E k \in 0 .. n : After(f, g, k, index - 1, ap, out)
    <2>1. n \in 0 .. n /\ \A k \in 0 .. n - 1 : k \in 0 .. n
      BY <1>2
    <2> QED
      BY <2>1 DEF InLong
  <1> QED
    BY <1>1, <1>8, <1>9, <1>10, <1>11 DEF Place

-----------------------------------------------------------------------------
(***************************************************************************)
(* The library.                                                            *)
(***************************************************************************)

\* A part that is not used is in one of its initial states.
LEMMA AtRest == (NumberAtRest => N!Init) /\ (FormatAtRest => F!Init)
  <1>1. NumberAtRest => N!Init
    BY LibraryAssumption DEF NumberAtRest, N!Init
  <1>2. <<>> \in F!SeqOf(Tokens, MaxTokens)
    <2>1. MaxTokens \in Nat
      BY LibraryAssumption DEF F!FormatAssumption
    <2>2. 0 \in 0 .. MaxTokens /\ <<>> \in [1 .. 0 -> Tokens]
      BY <2>1
    <2> QED
      BY <2>2 DEF F!SeqOf
  <1>3. FormatAtRest => F!Init
    BY <1>2, LibraryAssumption DEF FormatAtRest, F!Init
  <1> QED
    BY <1>1, <1>3

\* The library starts where its parts do.
LEMMA LibraryStart == LibraryInit => Init /\ MutexInit /\ N!Init /\ F!Init
  BY AtRest DEF LibraryInit

\* A step of the library is a step of one of its parts.
LEMMA PartsStep ==
    ASSUME [LibraryNext]_all
    PROVE  [Next]_vars /\ [MutexNext]_mutexVars /\ [N!Next]_numeral /\ [F!Next]_formatted
  <1>1. CASE UNCHANGED all
    BY <1>1 DEF all
  <1>2. CASE LibraryNext
    BY <1>2 DEF LibraryNext
  <1> QED
    BY <1>1, <1>2

\* The mutex keeps its invariant while the library is used.
LEMMA MutexAlways == LibrarySpec => []MutexInv
  <1>1. LibraryInit => MutexInv
    BY LibraryStart, MutexStart
  <1>2. MutexInv /\ [LibraryNext]_all => MutexInv'
    BY PartsStep, MutexStep
  <1> QED
    BY <1>1, <1>2, PTL DEF LibrarySpec

\* So does itoa.
LEMMA NumAlways == LibrarySpec => []NumInv
  <1>1. LibraryInit => NumInv
    BY LibraryStart, NumStart
  <1>2. NumInv /\ [LibraryNext]_all => NumInv'
    BY PartsStep, NumStep
  <1> QED
    BY <1>1, <1>2, PTL DEF LibrarySpec

\* So do the loops of printf and sprintf.
LEMMA FormAlways == LibrarySpec => []FormInv
  <1>1. LibraryInit => FormInv
    BY LibraryStart, FormStart
  <1>2. FormInv /\ [LibraryNext]_all => FormInv'
    BY PartsStep, FormStep
  <1> QED
    BY <1>1, <1>2, PTL DEF LibrarySpec

\* And so does the list, when its first block was zero.
LEMMA ListAlways ==
    ASSUME ZeroedRam
    PROVE  LibrarySpec => []ListInv
  <1>1. LibraryInit => ListInv
    BY LibraryStart, ListStart
  <1>2. ListInv /\ [LibraryNext]_all => ListInv'
    BY PartsStep, ListStep
  <1> QED
    BY <1>1, <1>2, PTL DEF LibrarySpec

\* mutex_lock and mutex_unlock keep contexts apart, and keep the word locked
\* exactly while one of them is inside (Locks), for any set of contexts and
\* whatever the word held before mutex_init.
THEOREM LocksCorrect == LibrarySpec => []Locks
  <1>1. MutexInv => Locks
    BY DEF MutexInv, Locks
  <1> QED
    BY <1>1, MutexAlways, PTL

\* The list of list.c implements a sequence (ListRight): every call has the effect
\* that ListSeq gives it, length is what a walk counts, no node is lost or freed
\* while it is linked and the links are inverse to each other.  The hypothesis is
\* what list_create leaves to the memory it is given: it does not clear head and
\* length.
THEOREM ListCorrect ==
    ASSUME ZeroedRam
    PROVE  LibrarySpec => ListRight
  <1>1. LibraryInit => S!Init
    BY LibraryStart, ListStart
  <1>2. ListInv /\ [LibraryNext]_all => [S!Next]_S!vars
    BY PartsStep, ListStep
  <1>3. ListInv => LengthCounts /\ NoNodeLost /\ BackLinked
    BY ListFacts
  <1> QED
    BY <1>1, <1>2, <1>3, ListAlways, PTL DEF LibrarySpec, ListRight, IsSequence, S!Spec

\* printf and sprintf write what they were given (Printed): a number of any width
\* as digits that stand for it, each conversion with its own argument, for formats
\* of any length.  The hypothesis is what itoa needs: it takes 32 bits of a long
\* argument, so the argument has to be below half a word.
THEOREM PrintedCorrect ==
    ASSUME N!LongsFit
    PROVE  LibrarySpec => []Printed
  <1>1. NumInv /\ FormInv => Printed
    BY PrintsNumber, Shows DEF Printed
  <1> QED
    BY <1>1, NumAlways, FormAlways, PTL

\* The state of the four parts is well typed (LibraryTypeOK).
THEOREM LibraryTypeCorrect ==
    ASSUME ZeroedRam
    PROVE  LibrarySpec => []LibraryTypeOK
  <1>1. ListInv /\ MutexInv /\ NumInv /\ FormInv => LibraryTypeOK
    BY ListFacts, NumTypes, FormTypes DEF LibraryTypeOK, MutexInv
  <1> QED
    BY <1>1, ListAlways, MutexAlways, NumAlways, FormAlways, PTL

=============================================================================

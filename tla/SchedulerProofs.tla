-------------------------- MODULE SchedulerProofs ---------------------------
(***************************************************************************)
(* Proofs about Scheduler, for any number of processes, any sleep times,   *)
(* any tick rate and any word size.                                        *)
(***************************************************************************)
EXTENDS Scheduler, SequenceTheorems, WellFoundedInduction, TLAPS

\* A set of naturals that is not empty has a least element.
LEMMA LeastElement ==
    ASSUME NEW T, T \subseteq Nat, T # {}
    PROVE  Min(T) \in T /\ \A y \in T : Min(T) <= y
  <1> DEFINE R == OpToRel(<, Nat)
  <1>1. IsWellFoundedOn(R, Nat)
    BY NatLessThanWellFounded
  <1>2. \A x, y \in Nat : y < x => <<y, x>> \in R
    BY DEF OpToRel
  <1> HIDE DEF R
  <1>3. PICK x \in T : \A y \in T : ~(<<y, x>> \in R)
    BY <1>1, WFMin
  <1>4. ASSUME NEW y \in T PROVE x <= y
    <2>1. ~(<<y, x>> \in R) /\ x \in Nat /\ y \in Nat
      BY <1>3
    <2>2. ~(y < x)
      BY <2>1, <1>2
    <2> QED
      BY <2>1, <2>2
  <1> QED
    BY <1>4 DEF Min

-----------------------------------------------------------------------------
(***************************************************************************)
(* Lists without repetition.                                               *)
(***************************************************************************)
Distinct(l) == \A i, j \in DOMAIN l : l[i] = l[j] => i = j

Index(l, p) == SelectInSeq(l, LAMBDA q : q = p)

\* The search for an element that is in a sequence finds its place.
LEMMA IndexFound ==
    ASSUME NEW l \in Seq(Procs), NEW p \in ToSet(l)
    PROVE  Index(l, p) \in 1 .. Len(l) /\ l[Index(l, p)] = p
  <1> DEFINE I == {i \in 1 .. Len(l) : l[i] = p}
  <1>1. I # {} /\ I \subseteq Nat
    BY DEF ToSet
  <1>2. Index(l, p) = Min(I)
    BY <1>1 DEF Index, SelectInSeq
  <1> QED
    BY <1>1, <1>2, LeastElement

\* Appending a new element adds it and keeps the elements distinct.
LEMMA AppendFacts ==
    ASSUME NEW l \in Seq(Procs), NEW p \in Procs, Distinct(l), p \notin ToSet(l)
    PROVE  /\ Append(l, p) \in Seq(Procs)
           /\ Distinct(Append(l, p))
           /\ ToSet(Append(l, p)) = ToSet(l) \cup {p}
  <1> DEFINE a == Append(l, p)
  <1>1. /\ a \in Seq(Procs) /\ Len(a) = Len(l) + 1
        /\ \A i \in 1 .. Len(l) : a[i] = l[i]
        /\ a[Len(l) + 1] = p
    OBVIOUS
  <1>2. DOMAIN a = 1 .. Len(l) + 1 /\ DOMAIN l = 1 .. Len(l) /\ Len(l) \in Nat
    BY <1>1
  <1> HIDE DEF a
  <1>3. ToSet(a) = ToSet(l) \cup {p}
    BY <1>1, <1>2 DEF ToSet
  <1>4. Distinct(a)
    BY <1>1, <1>2 DEF Distinct, ToSet
  <1> QED
    BY <1>1, <1>3, <1>4 DEF a

\* The elements that SubSeq takes from a sequence.
LEMMA Part ==
    ASSUME NEW l \in Seq(Procs), NEW m \in Nat \ {0}, NEW n \in Nat,
           m <= n + 1, n <= Len(l)
    PROVE  /\ SubSeq(l, m, n) \in Seq(Procs)
           /\ Len(SubSeq(l, m, n)) = n - m + 1
           /\ \A i \in 1 .. n - m + 1 : SubSeq(l, m, n)[i] = l[m + i - 1]
  <1> DEFINE s == SubSeq(l, m, n)
  <1>1. \A i \in m .. n : l[i] \in Procs
    OBVIOUS
  <1>2. /\ s \in Seq(Procs)
        /\ Len(s) = IF m <= n THEN n - m + 1 ELSE 0
        /\ \A i \in 1 .. n - m + 1 : s[i] = l[m + i - 1]
    BY <1>1, SubSeqProperties
  <1> HIDE DEF s
  <1>3. Len(s) = n - m + 1
    BY <1>2
  <1> QED
    BY <1>2, <1>3 DEF s

\* RemoveFirst takes out that element and keeps the others distinct.
LEMMA RemoveFacts ==
    ASSUME NEW l \in Seq(Procs), NEW p \in ToSet(l), Distinct(l)
    PROVE  /\ RemoveFirst(l, p) \in Seq(Procs)
           /\ Distinct(RemoveFirst(l, p))
           /\ ToSet(RemoveFirst(l, p)) = ToSet(l) \ {p}
  <1> DEFINE k == Index(l, p)
             n == Len(l)
             r == RemoveFirst(l, p)
  <1>1. k \in 1 .. n /\ l[k] = p /\ n \in Nat /\ DOMAIN l = 1 .. n
    BY IndexFound
  <1>2. r = SubSeq(l, 1, k - 1) \o SubSeq(l, k + 1, n)
    BY <1>1 DEF RemoveFirst, RemoveAt, Index
  <1> HIDE DEF k, r
  <1>3. /\ r \in Seq(Procs) /\ Len(r) = n - 1
        /\ \A i \in 1 .. n - 1 : r[i] = IF i < k THEN l[i] ELSE l[i + 1]
    <2> DEFINE front == SubSeq(l, 1, k - 1)
               back  == SubSeq(l, k + 1, n)
    <2>1. /\ front \in Seq(Procs) /\ Len(front) = k - 1
          /\ \A i \in 1 .. k - 1 : front[i] = l[i]
      <3>1. /\ 1 \in Nat \ {0} /\ k - 1 \in Nat
            /\ 1 <= k - 1 + 1 /\ k - 1 <= Len(l) /\ k - 1 - 1 + 1 = k - 1
        BY <1>1
      <3>2. /\ front \in Seq(Procs) /\ Len(front) = k - 1
            /\ \A i \in 1 .. k - 1 : front[i] = l[1 + i - 1]
        BY <3>1, Part
      <3>3. \A i \in 1 .. k - 1 : 1 + i - 1 = i
        OBVIOUS
      <3> QED
        BY <3>2, <3>3
    <2>2. /\ back \in Seq(Procs) /\ Len(back) = n - k
          /\ \A i \in 1 .. n - k : back[i] = l[i + k]
      <3>1. /\ k + 1 \in Nat \ {0} /\ n \in Nat
            /\ k + 1 <= n + 1 /\ n <= Len(l) /\ n - (k + 1) + 1 = n - k
        BY <1>1
      <3>2. /\ back \in Seq(Procs) /\ Len(back) = n - k
            /\ \A i \in 1 .. n - k : back[i] = l[k + 1 + i - 1]
        BY <3>1, Part
      <3>3. \A i \in 1 .. n - k : k + 1 + i - 1 = i + k
        BY <1>1
      <3> QED
        BY <3>2, <3>3
    <2> HIDE DEF front, back
    <2>3. /\ r \in Seq(Procs) /\ Len(r) = (k - 1) + (n - k)
          /\ \A i \in 1 .. (k - 1) + (n - k) :
               r[i] = IF i <= k - 1 THEN front[i] ELSE back[i - (k - 1)]
      <3>1. r = front \o back
        BY <1>2 DEF front, back
      <3>2. /\ front \o back \in Seq(Procs)
            /\ Len(front \o back) = Len(front) + Len(back)
            /\ \A i \in 1 .. Len(front) + Len(back) : (front \o back)[i] =
                 IF i <= Len(front) THEN front[i] ELSE back[i - Len(front)]
        BY <2>1, <2>2, ConcatProperties
      <3> QED
        BY <2>1, <2>2, <3>1, <3>2, Zenon
    <2>4. ASSUME NEW i \in 1 .. n - 1
          PROVE  r[i] = IF i < k THEN l[i] ELSE l[i + 1]
      <3>1. CASE i < k
        <4>1. /\ i \in 1 .. (k - 1) + (n - k) /\ i <= k - 1
              /\ i \in 1 .. k - 1
          BY <1>1, <3>1
        <4>2. r[i] = front[i]
          BY <2>3, <4>1
        <4> QED
          BY <2>1, <3>1, <4>1, <4>2
      <3>2. CASE ~(i < k)
        <4>1. r[i] = back[i - (k - 1)]
          BY <1>1, <2>3, <3>2
        <4>2. i - (k - 1) \in 1 .. n - k /\ i - (k - 1) + k = i + 1
          BY <1>1, <3>2
        <4> QED
          BY <2>2, <3>2, <4>1, <4>2
      <3> QED
        BY <3>1, <3>2
    <2> QED
      BY <1>1, <2>3, <2>4
  <1>4. DOMAIN r = 1 .. n - 1
    BY <1>3
  <1>5. Distinct(r)
    <2> SUFFICES ASSUME NEW i \in 1 .. n - 1, NEW j \in 1 .. n - 1, r[i] = r[j]
                 PROVE  i = j
      BY <1>4 DEF Distinct
    <2>1. /\ (IF i < k THEN i ELSE i + 1) \in 1 .. n
          /\ (IF j < k THEN j ELSE j + 1) \in 1 .. n
          /\ l[IF i < k THEN i ELSE i + 1] = l[IF j < k THEN j ELSE j + 1]
      BY <1>1, <1>3
    <2>2. (IF i < k THEN i ELSE i + 1) = (IF j < k THEN j ELSE j + 1)
      BY <2>1, <1>1 DEF Distinct
    <2> QED
      BY <2>2, <1>1
  <1>6. ASSUME NEW q \in ToSet(r) PROVE q \in ToSet(l) /\ q # p
    <2>1. PICK i \in 1 .. n - 1 : r[i] = q
      BY <1>4 DEF ToSet
    <2> DEFINE j == IF i < k THEN i ELSE i + 1
    <2>2. j \in 1 .. n /\ j # k /\ l[j] = q
      BY <1>1, <1>3, <2>1
    <2> QED
      BY <1>1, <2>2 DEF Distinct, ToSet
  <1>7. ASSUME NEW q \in ToSet(l), q # p PROVE q \in ToSet(r)
    <2>1. PICK j \in 1 .. n : l[j] = q
      BY <1>1 DEF ToSet
    <2>2. j # k
      BY <1>1, <1>7, <2>1
    <2> DEFINE i == IF j < k THEN j ELSE j - 1
    <2>3. i \in 1 .. n - 1 /\ r[i] = q
      BY <1>1, <1>3, <2>1, <2>2
    <2> QED
      BY <1>4, <2>3 DEF ToSet
  <1> QED
    BY <1>3, <1>5, <1>6, <1>7 DEF r

(***************************************************************************)
(* scheduler_next finds a waiting process whenever there is one, although  *)
(* it starts anywhere in the list.                                         *)
(***************************************************************************)
LEMMA NextFacts ==
    ASSUME NEW l \in Seq(Procs), NEW cur, cur = NULL \/ cur \in ToSet(l), NEW st
    PROVE  \/ /\ scheduler_next(l, cur, st) = NULL
              /\ \A p \in ToSet(l) : st[p] # WAITING
           \/ /\ scheduler_next(l, cur, st) \in ToSet(l)
              /\ st[scheduler_next(l, cur, st)] = WAITING
  <1> DEFINE n     == Len(l)
             i     == IF cur = NULL THEN 1 ELSE Index(l, cur)
             w(k)  == IF i + k <= n THEN i + k ELSE i + k - n
             hits  == {k \in 1 .. n : st[l[w(k)]] = WAITING}
  <1>1. scheduler_next(l, cur, st) = IF hits = {} THEN NULL ELSE l[w(Min(hits))]
    BY DEF scheduler_next, Index
  <1>2. n \in Nat /\ DOMAIN l = 1 .. n
    OBVIOUS
  <1>3. n # 0 => i \in 1 .. n
    BY <1>2, IndexFound
  <1> HIDE DEF i
  <1>4. \A k \in 1 .. n : w(k) \in 1 .. n
    BY <1>2, <1>3
  <1>5. CASE hits = {}
    <2>1. ASSUME NEW p \in ToSet(l) PROVE st[p] # WAITING
      <3>1. PICK j \in 1 .. n : l[j] = p
        BY <1>2 DEF ToSet
      <3> DEFINE k == IF j > i THEN j - i ELSE j - i + n
      <3>2. k \in 1 .. n /\ w(k) = j
        BY <1>2, <1>3
      <3> QED
        BY <1>5, <3>1, <3>2
    <2> QED
      BY <1>1, <1>5, <2>1
  <1>6. CASE hits # {}
    <2>1. Min(hits) \in hits
      <3>1. hits \subseteq Nat
        BY <1>2
      <3> HIDE DEF hits
      <3> QED
        BY <1>6, <3>1, LeastElement
    <2>2. Min(hits) \in 1 .. n /\ st[l[w(Min(hits))]] = WAITING
      BY <2>1
    <2>3. l[w(Min(hits))] \in ToSet(l)
      BY <1>2, <1>4, <2>2 DEF ToSet
    <2> QED
      BY <1>1, <1>6, <2>2, <2>3
  <1> QED
    BY <1>5, <1>6

(***************************************************************************)
(* What a switch leaves behind, whoever calls it: given a frame for every  *)
(* process that may be chosen and one for main, the processor runs what    *)
(* current says, from where that context had stopped; main only gets it    *)
(* when no process waits.                                                  *)
(***************************************************************************)
States == {NONE, RUNNING, WAITING, SLEEPING}

Ready(l, st, ep, ke, dn) ==
    /\ l \in Seq(Procs) /\ st \in [Procs -> States] /\ dn \in [Contexts -> Nat]
    /\ \A p \in Procs : st[p] # RUNNING
    /\ \A p \in ToSet(l) : ep[p] = Frame(p, dn[p])
    /\ ke = Frame(KERNEL, dn[KERNEL])

Switched(l, st, dn) ==
    /\ current' \in ToSet(l) \cup {NULL}
    /\ on' = IF current' = NULL THEN KERNEL ELSE current'
    /\ pc' = dn[on']
    /\ state' \in [Procs -> States]
    /\ \A p \in Procs : state'[p] = RUNNING <=> p = current'
    /\ \A p \in Procs : state'[p] = NONE <=> st[p] = NONE
    /\ current' = NULL => \A p \in ToSet(l) : state'[p] # WAITING

\* A switch from a state fit for it makes one process run, or main if none waits.
LEMMA SwitchFacts ==
    ASSUME NEW l, NEW cur, cur \in ToSet(l) \cup {NULL}, NEW st, NEW ep, NEW ke, NEW dn,
           Ready(l, st, ep, ke, dn), scheduler_switch(l, cur, st, ep, ke)
    PROVE  Switched(l, st, dn)
  <1> USE DEF Ready
  <1> DEFINE next == scheduler_next(l, cur, st)
  <1>1. ToSet(l) \subseteq Procs
    BY DEF ToSet
  <1>2. \/ next = NULL /\ \A p \in ToSet(l) : st[p] # WAITING
        \/ next \in ToSet(l) /\ st[next] = WAITING
    BY NextFacts
  <1>3. /\ current' = next
        /\ IF next = NULL
             THEN state' = st /\ Restore(ke)
             ELSE state' = [st EXCEPT ![next] = RUNNING] /\ Restore(ep[next])
    BY DEF scheduler_switch
  <1> HIDE DEF next
  <1>4. NULL \notin Procs
    BY SchedulerAssumption
  <1>5. \A c \in Contexts : Frame(c, dn[c]) # NULL
    BY SchedulerAssumption DEF Frame, Contexts
  <1>6. CASE next = NULL
    <2>1. /\ state' = st /\ current' = NULL
          /\ on' = KERNEL /\ pc' = dn[KERNEL]
      BY <1>3, <1>5, <1>6 DEF Restore, Frame, Contexts
    <2>2. \A p \in ToSet(l) : st[p] # WAITING
      BY <1>1, <1>2, <1>4, <1>6
    <2>3. KERNEL \in Contexts
      BY DEF Contexts
    <2> QED
      BY <1>4, <2>1, <2>2, <2>3 DEF Switched
  <1>7. CASE next # NULL
    <2>1. next \in ToSet(l) /\ next \in Procs /\ st[next] = WAITING
      BY <1>1, <1>2, <1>7
    <2>2. on' = next /\ pc' = dn[next]
      <3>1. Restore(Frame(next, dn[next]))
        BY <1>3, <1>7, <2>1
      <3>2. Frame(next, dn[next]) # NULL
        BY <1>5, <2>1 DEF Contexts
      <3> QED
        BY <3>1, <3>2 DEF Restore, Frame
    <2>3. state' = [st EXCEPT ![next] = RUNNING] /\ current' = next
      BY <1>3, <1>7
    <2>4. /\ state' \in [Procs -> States]
          /\ \A p \in Procs : state'[p] = IF p = next THEN RUNNING ELSE st[p]
      BY <2>1, <2>3 DEF States
    <2>5. NONE # RUNNING /\ NONE # WAITING
      BY DEF NONE, RUNNING, WAITING
    <2> QED
      BY <1>7, <2>1, <2>2, <2>3, <2>4, <2>5 DEF Switched
  <1> QED
    BY <1>6, <1>7

-----------------------------------------------------------------------------
(***************************************************************************)
(* The inductive invariant.  Boot says how far main has come, Saved that   *)
(* every allocated process that does not run, listed or not, has the frame *)
(* it left.                                                                *)
(***************************************************************************)
Boot ==
    /\ ~enabled => current = NULL /\ kesp = NULL
    /\ starting # NULL => ~enabled /\ state[starting] = WAITING

Saved ==
    /\ pc = done[on]
    /\ on # KERNEL => kesp = Frame(KERNEL, done[KERNEL])
    /\ \A p \in Procs : state[p] # NONE /\ p # on => esp[p] = Frame(p, done[p])

SInv ==
    /\ TypeOK
    /\ CurrentRuns
    /\ NoDangling
    /\ WorkConserving
    /\ Boot
    /\ Saved

\* The inductive invariant holds initially.
LEMMA InitSInv == Init => SInv
  <1> SUFFICES ASSUME Init PROVE SInv
    OBVIOUS
  <1> USE SchedulerAssumption
  <1>1. list = <<>> /\ <<>> \in Seq(Procs) /\ ToSet(<<>>) = {} /\ DOMAIN list = {}
    BY DEF Init, ToSet
  <1>2. TypeOK
    BY <1>1 DEF Init, TypeOK, Contexts, NONE
  <1>3. CurrentRuns
    BY DEF Init, CurrentRuns, NONE, RUNNING
  <1>4. NoDangling /\ WorkConserving
    BY <1>1 DEF Init, NoDangling, WorkConserving, Listed
  <1>5. Boot /\ Saved
    BY DEF Init, Boot, Saved, Contexts
  <1> QED
    BY <1>2, <1>3, <1>4, <1>5 DEF SInv

\* The steps of main and of what runs, which switch nothing.
LEMMA CreateSInv ==
    ASSUME SInv, NEW p \in Procs, process_create(p) PROVE SInv'
  <1> USE SchedulerAssumption
  <1>1. /\ TypeOK /\ CurrentRuns /\ NoDangling /\ WorkConserving /\ Boot /\ Saved
    BY DEF SInv
  <1>2. /\ on = KERNEL /\ ~enabled /\ starting = NULL /\ state[p] = NONE
        /\ state' = [state EXCEPT ![p] = WAITING]
        /\ sleep' = [sleep EXCEPT ![p] = 0]
        /\ esp'   = [esp   EXCEPT ![p] = Frame(p, 0)]
        /\ done'  = [done  EXCEPT ![p] = 0]
        /\ starting' = p
        /\ UNCHANGED <<list, current, enabled, kesp, on, pc, due>>
    BY DEF process_create
  <1>3. TypeOK'
    <2>1. state' \in [Procs -> {NONE, RUNNING, WAITING, SLEEPING}]
      BY <1>1, <1>2 DEF TypeOK
    <2>2. sleep' \in [Procs -> Nat] /\ done' \in [Contexts -> Nat]
      BY <1>1, <1>2 DEF TypeOK, Contexts
    <2>3. esp' \in [Procs -> [stack : Procs, pc : Nat] \cup {NULL}]
      <3>1. Frame(p, 0) \in [stack : Procs, pc : Nat]
        BY DEF Frame
      <3> QED
        BY <1>1, <1>2, <3>1 DEF TypeOK
    <2> QED
      BY <1>1, <1>2, <2>1, <2>2, <2>3 DEF TypeOK
  <1>4. \A q \in Procs : state'[q] = IF q = p THEN WAITING ELSE state[q]
    BY <1>1, <1>2 DEF TypeOK
  <1>5. CurrentRuns'
    BY <1>1, <1>2, <1>4 DEF CurrentRuns, NONE, RUNNING, WAITING
  <1>6. p \notin Listed /\ Listed' = Listed /\ NULL \notin Listed
    BY <1>1, <1>2 DEF NoDangling, Listed
  <1>7. NoDangling'
    <2>1. Listed' = {q \in Procs : state'[q] # NONE} \ {starting'}
      BY <1>1, <1>2, <1>4, <1>6 DEF NoDangling
    <2> QED
      BY <1>1, <1>2, <1>6, <2>1 DEF NoDangling
  <1>8. WorkConserving' /\ Boot'
    BY <1>1, <1>2, <1>4, <1>6 DEF WorkConserving, Boot
  <1>9. Saved'
    <2>1. /\ \A q \in Procs : esp'[q] = IF q = p THEN Frame(p, 0) ELSE esp[q]
          /\ \A c \in Contexts : done'[c] = IF c = p THEN 0 ELSE done[c]
          /\ done'[p] = 0
      BY <1>1, <1>2 DEF TypeOK, Contexts
    <2> QED
      BY <1>1, <1>2, <1>4, <2>1 DEF Saved, Contexts
  <1> QED
    BY <1>3, <1>5, <1>7, <1>8, <1>9 DEF SInv

\* scheduler_start preserves it.
LEMMA StartSInv ==
    ASSUME SInv, scheduler_start PROVE SInv'
  <1> USE SchedulerAssumption
  <1>1. /\ TypeOK /\ CurrentRuns /\ NoDangling /\ WorkConserving /\ Boot /\ Saved
    BY DEF SInv
  <1>2. /\ on = KERNEL /\ starting # NULL
        /\ list' = Append(list, starting)
        /\ starting' = NULL
        /\ UNCHANGED <<current, enabled, kesp, state, sleep, esp, on, pc, done, due>>
    BY DEF scheduler_start
  <1>3. starting \in Procs /\ starting \notin Listed /\ state[starting] = WAITING
    BY <1>1, <1>2 DEF TypeOK, NoDangling, Boot
  <1>4. /\ list' \in Seq(Procs) /\ Distinct(list')
        /\ Listed' = Listed \cup {starting}
    <2>1. list \in Seq(Procs) /\ Distinct(list)
      BY <1>1 DEF TypeOK, NoDangling, Distinct
    <2> QED
      BY <1>2, <1>3, <2>1, AppendFacts DEF Listed
  <1>5. TypeOK'
    BY <1>1, <1>2, <1>4 DEF TypeOK
  <1>6. NoDangling'
    <2>1. Listed' = {q \in Procs : state'[q] # NONE} \ {starting'}
      BY <1>1, <1>2, <1>3, <1>4 DEF NoDangling, NONE, WAITING
    <2> QED
      BY <1>1, <1>2, <1>4, <2>1 DEF NoDangling, Distinct
  <1>7. CurrentRuns' /\ Boot' /\ Saved'
    BY <1>1, <1>2 DEF CurrentRuns, Boot, Saved
  <1>8. WorkConserving'
    BY <1>1, <1>2 DEF WorkConserving, Boot
  <1> QED
    BY <1>5, <1>6, <1>7, <1>8 DEF SInv

\* scheduler_enable preserves it.
LEMMA EnableSInv ==
    ASSUME SInv, scheduler_enable PROVE SInv'
  <1>1. /\ TypeOK' /\ CurrentRuns' /\ NoDangling' /\ WorkConserving' /\ Saved'
    BY DEF SInv, scheduler_enable, TypeOK, CurrentRuns, NoDangling, WorkConserving,
           Saved, Listed
  <1>2. Boot'
    BY DEF SInv, scheduler_enable, Boot
  <1> QED
    BY <1>1, <1>2 DEF SInv

\* A step of what is on the processor preserves it.
LEMMA WorkSInv ==
    ASSUME SInv, Work PROVE SInv'
  <1> USE SchedulerAssumption
  <1>1. /\ TypeOK /\ CurrentRuns /\ NoDangling /\ WorkConserving /\ Boot /\ Saved
    BY DEF SInv
  <1>2. /\ pc' = (pc + 1) % Steps
        /\ done' = [done EXCEPT ![on] = (done[on] + 1) % Steps]
        /\ UNCHANGED <<list, current, enabled, kesp, state, sleep, esp, on, starting, due>>
    BY DEF Work
  <1>3. pc' \in Nat /\ on \in Contexts /\ pc = done[on]
    BY <1>1, <1>2 DEF TypeOK, Saved
  <1>4. \A c \in Contexts : done'[c] = IF c = on THEN pc' ELSE done[c]
    BY <1>1, <1>2, <1>3 DEF TypeOK
  <1>5. done' \in [Contexts -> Nat]
    BY <1>1, <1>2, <1>3 DEF TypeOK
  <1>6. TypeOK'
    BY <1>1, <1>2, <1>3, <1>5 DEF TypeOK
  <1>7. CurrentRuns' /\ NoDangling' /\ WorkConserving' /\ Boot'
    BY <1>1, <1>2 DEF CurrentRuns, NoDangling, WorkConserving, Boot, Listed
  <1>8. Saved'
    BY <1>1, <1>2, <1>3, <1>4 DEF Saved, Contexts
  <1> QED
    BY <1>6, <1>7, <1>8 DEF SInv

\* Frames and times stay well typed.
LEMMA FrameFacts ==
    ASSUME TypeOK
    PROVE  /\ Pushed = Frame(on, pc)
           /\ on = KERNEL => Pushed \in [stack : {KERNEL}, pc : Nat]
           /\ on \in Procs => Pushed \in [stack : Procs, pc : Nat]
           /\ \A ms \in Sleeps : SleepTicks(ms) \in Nat /\ (ms * Rate) \div 1000 \in Nat
  <1> USE SchedulerAssumption
  <1>1. /\ on = KERNEL => Pushed \in [stack : {KERNEL}, pc : Nat]
        /\ on \in Procs => Pushed \in [stack : Procs, pc : Nat]
    BY DEF Pushed, Frame, TypeOK
  <1>2. ASSUME NEW ms \in Sleeps
        PROVE  SleepTicks(ms) \in Nat /\ (ms * Rate) \div 1000 \in Nat
    <2>1. ms * Rate \in Nat /\ (ms * Rate) % Word \in Nat
      <3>1. ms \in Nat /\ Rate \in Nat
        OBVIOUS
      <3>2. ms * Rate \in Nat
        BY <3>1
      <3> DEFINE x == ms * Rate
      <3> HIDE DEF x
      <3>3. x \in Nat => x % Word \in Nat
        OBVIOUS
      <3> QED
        BY <3>2, <3>3 DEF x
    <2>2. \A x \in Nat : x \div 1000 \in Nat
      OBVIOUS
    <2> QED
      BY <2>1, <2>2 DEF SleepTicks
  <1> QED
    BY <1>1, <1>2 DEF Pushed

(***************************************************************************)
(* A tick: the interrupted context is saved where its owner's frame        *)
(* belongs, no process is left marked as running, and the switch finds a   *)
(* frame for whatever it chooses.                                          *)
(***************************************************************************)
LEMMA TickSInv ==
    ASSUME SInv, Tick PROVE SInv'
  <1> USE SchedulerAssumption
  <1> DEFINE woken == [p \in Procs |-> IF p \in ToSet(list) /\ Wakes(p)
                                         THEN WAITING ELSE state[p]]
             st    == IF current = NULL THEN woken ELSE [woken EXCEPT ![current] = WAITING]
  <1>1. /\ TypeOK /\ CurrentRuns /\ NoDangling /\ WorkConserving /\ Boot /\ Saved
    BY DEF SInv
  <1>2. /\ enabled
        /\ sleep' = [p \in Procs |-> IF p \in ToSet(list) /\ state[p] = SLEEPING /\ ~Wakes(p)
                                       THEN Aged(p) ELSE sleep[p]]
        /\ SaveStack
        /\ scheduler_switch(list, current, st, esp', kesp')
        /\ due' = [p \in Procs |-> IF due[p] > 0 THEN due[p] - 1 ELSE 0]
        /\ UNCHANGED <<list, enabled, starting, done>>
    BY DEF Tick
  <1>3. /\ st \in [Procs -> States]
        /\ \A p \in Procs : st[p] # RUNNING
        /\ \A p \in Procs : st[p] = NONE <=> state[p] = NONE
    <2>1. woken \in [Procs -> States]
      BY <1>1 DEF TypeOK, States
    <2>2. \A p \in Procs : woken[p] = RUNNING => p = current
      BY <1>1 DEF CurrentRuns, RUNNING, WAITING
    <2>3. \A p \in Procs : woken[p] = NONE <=> state[p] = NONE
      BY DEF Wakes, NONE, WAITING, SLEEPING
    <2>4. current # NULL => current \in Procs /\ state[current] = RUNNING
      BY <1>1 DEF TypeOK, CurrentRuns
    <2>5. CASE current = NULL
      BY <2>1, <2>2, <2>3, <2>5 DEF RUNNING
    <2>6. CASE current # NULL
      <3> HIDE DEF woken
      <3>1. \A p \in Procs : st[p] = IF p = current THEN WAITING ELSE woken[p]
        BY <2>1, <2>4, <2>6
      <3>2. st \in [Procs -> States]
        BY <2>1, <2>4, <2>6 DEF States
      <3> HIDE DEF st
      <3> QED
        BY <2>2, <2>3, <2>4, <3>1, <3>2 DEF NONE, RUNNING, WAITING
    <2> QED
      BY <2>5, <2>6
  <1> HIDE DEF woken, st
  <1>4. /\ kesp' = Frame(KERNEL, done[KERNEL])
        /\ kesp' \in [stack : {KERNEL}, pc : Nat] \cup {NULL}
        /\ esp' \in [Procs -> [stack : Procs, pc : Nat] \cup {NULL}]
        /\ \A p \in Procs : state[p] # NONE => esp'[p] = Frame(p, done[p])
    <2>1. CASE current = NULL
      <3>1. on = KERNEL /\ kesp' = Frame(KERNEL, pc) /\ esp' = esp
        BY <1>1, <1>2, <2>1 DEF CurrentRuns, SaveStack, Pushed
      <3>2. \A p \in Procs : p # on
        BY <3>1
      <3>3. kesp' \in [stack : {KERNEL}, pc : Nat]
        BY <1>1, <3>1, FrameFacts
      <3> QED
        BY <1>1, <3>1, <3>2, <3>3 DEF TypeOK, Saved
    <2>2. CASE current # NULL
      <3>1. /\ on = current /\ current \in Procs /\ kesp' = kesp
            /\ esp' = [esp EXCEPT ![current] = Frame(on, pc)]
        BY <1>1, <1>2, <2>2 DEF CurrentRuns, TypeOK, SaveStack, Pushed
      <3>2. kesp' = Frame(KERNEL, done[KERNEL])
        BY <1>1, <3>1 DEF Saved
      <3>3. Frame(on, pc) \in [stack : Procs, pc : Nat]
        BY <1>1, <3>1, FrameFacts
      <3>4. esp' \in [Procs -> [stack : Procs, pc : Nat] \cup {NULL}]
        BY <1>1, <3>1, <3>3 DEF TypeOK
      <3>5. \A p \in Procs : esp'[p] = IF p = on THEN Frame(on, pc) ELSE esp[p]
        BY <1>1, <3>1 DEF TypeOK
      <3>6. \A p \in Procs : state[p] # NONE => esp'[p] = Frame(p, done[p])
        BY <1>1, <3>5 DEF Saved
      <3> QED
        BY <1>1, <3>1, <3>2, <3>4, <3>6 DEF TypeOK
    <2> QED
      BY <2>1, <2>2
  <1>5. starting = NULL
    BY <1>1, <1>2 DEF Boot
  <1>6. /\ list \in Seq(Procs) /\ (current = NULL \/ current \in ToSet(list))
        /\ done \in [Contexts -> Nat]
        /\ ToSet(list) = {p \in Procs : state[p] # NONE}
    BY <1>1, <1>5 DEF TypeOK, NoDangling, Listed
  <1>7. \A p \in ToSet(list) : esp'[p] = Frame(p, done[p])
    BY <1>4, <1>6
  <1>8. /\ current' \in ToSet(list) \cup {NULL}
        /\ on' = IF current' = NULL THEN KERNEL ELSE current'
        /\ pc' = done[on']
        /\ state' \in [Procs -> States]
        /\ \A p \in Procs : state'[p] = RUNNING <=> p = current'
        /\ \A p \in Procs : state'[p] = NONE <=> st[p] = NONE
        /\ current' = NULL => \A p \in ToSet(list) : state'[p] # WAITING
    <2>1. Ready(list, st, esp', kesp', done)
      BY <1>3, <1>4, <1>6, <1>7 DEF Ready
    <2>2. current \in ToSet(list) \cup {NULL}
      BY <1>6
    <2>3. Switched(list, st, done)
      BY <1>2, <2>1, <2>2, SwitchFacts
    <2> QED
      BY <2>3 DEF Switched
  <1>9. TypeOK'
    <2>1. sleep' \in [Procs -> Nat] /\ due' \in [Procs -> Nat]
      BY <1>1, <1>2 DEF TypeOK, Wakes, Aged
    <2>2. on' \in Contexts /\ current' \in Procs \cup {NULL}
      BY <1>6, <1>8 DEF Contexts
    <2>3. pc' \in Nat
      BY <1>6, <1>8, <2>2
    <2> QED
      BY <1>1, <1>2, <1>4, <1>8, <2>1, <2>2, <2>3 DEF TypeOK, States
  <1>10. CurrentRuns'
    BY <1>8 DEF CurrentRuns
  <1>11. NoDangling'
    BY <1>1, <1>2, <1>3, <1>6, <1>8, <1>5 DEF NoDangling, Listed
  <1>12. WorkConserving'
    BY <1>2, <1>6, <1>8 DEF WorkConserving, Listed
  <1>13. Boot'
    BY <1>2, <1>5 DEF Boot
  <1>14. Saved'
    BY <1>2, <1>3, <1>4, <1>8 DEF Saved
  <1> QED
    BY <1>9, <1>10, <1>11, <1>12, <1>13, <1>14 DEF SInv

\* A process exits: what is freed is nobody's current, listed or saved.
LEMMA StopSInv ==
    ASSUME SInv, SyscallStop PROVE SInv'
  <1> USE SchedulerAssumption
  <1> DEFINE l  == RemoveFirst(list, current)
             st == [state EXCEPT ![current] = NONE]
  <1>1. /\ TypeOK /\ CurrentRuns /\ NoDangling /\ WorkConserving /\ Boot /\ Saved
    BY DEF SInv
  <1>2. /\ on \in Procs
        /\ list' = l
        /\ sleep' = [sleep EXCEPT ![current] = 0]
        /\ esp' = [esp EXCEPT ![current] = NULL]
        /\ scheduler_switch(l, NULL, st, esp', kesp)
        /\ due' = [due EXCEPT ![current] = 0]
        /\ done' = [done EXCEPT ![current] = 0]
        /\ UNCHANGED <<enabled, kesp, starting>>
    BY DEF SyscallStop, scheduler_stop
  <1>3. current \in Procs /\ on = current /\ state[current] = RUNNING
    BY <1>1, <1>2 DEF CurrentRuns, TypeOK
  <1>4. enabled /\ starting = NULL
    BY <1>1, <1>3 DEF Boot
  <1>5. /\ ToSet(list) = {p \in Procs : state[p] # NONE}
        /\ current \in ToSet(list) /\ list \in Seq(Procs) /\ Distinct(list)
    BY <1>1, <1>3, <1>4 DEF NoDangling, Listed, TypeOK, Distinct
  <1>6. l \in Seq(Procs) /\ Distinct(l) /\ ToSet(l) = ToSet(list) \ {current}
    BY <1>5, RemoveFacts
  <1>7. /\ st \in [Procs -> States]
        /\ \A p \in Procs : st[p] = IF p = current THEN NONE ELSE state[p]
    BY <1>1, <1>3 DEF TypeOK, States
  <1>8. \A p \in Procs : st[p] # RUNNING
    BY <1>1, <1>7 DEF CurrentRuns, NONE, RUNNING
  <1>9. /\ esp' \in [Procs -> [stack : Procs, pc : Nat] \cup {NULL}]
        /\ \A p \in Procs : p # current => esp'[p] = esp[p]
    BY <1>1, <1>2, <1>3 DEF TypeOK
  <1>10. /\ done' \in [Contexts -> Nat]
         /\ \A c \in Contexts : c # current => done'[c] = done[c]
    BY <1>1, <1>2, <1>3 DEF TypeOK, Contexts
  <1>11. kesp = Frame(KERNEL, done'[KERNEL])
    BY <1>1, <1>3, <1>10 DEF Saved, Contexts
  <1>12. \A p \in Procs : state[p] # NONE /\ p # current => esp'[p] = Frame(p, done'[p])
    BY <1>1, <1>3, <1>9, <1>10 DEF Saved, Contexts
  <1>13. \A p \in ToSet(l) : esp'[p] = Frame(p, done'[p])
    BY <1>5, <1>6, <1>12
  <1> HIDE DEF l, st
  <1>14. /\ current' \in ToSet(l) \cup {NULL}
         /\ on' = IF current' = NULL THEN KERNEL ELSE current'
         /\ pc' = done'[on']
         /\ state' \in [Procs -> States]
         /\ \A p \in Procs : state'[p] = RUNNING <=> p = current'
         /\ \A p \in Procs : state'[p] = NONE <=> st[p] = NONE
         /\ current' = NULL => \A p \in ToSet(l) : state'[p] # WAITING
    <2>1. Ready(l, st, esp', kesp, done')
      BY <1>6, <1>7, <1>8, <1>10, <1>11, <1>13 DEF Ready
    <2>2. NULL \in ToSet(l) \cup {NULL}
      OBVIOUS
    <2>3. Switched(l, st, done')
      BY <1>2, <2>1, <2>2, SwitchFacts
    <2> QED
      BY <2>3 DEF Switched
  <1>15. TypeOK'
    <2>1. sleep' \in [Procs -> Nat] /\ due' \in [Procs -> Nat]
      BY <1>1, <1>2 DEF TypeOK
    <2>2. on' \in Contexts /\ current' \in Procs \cup {NULL}
      BY <1>5, <1>6, <1>14 DEF Contexts
    <2>3. pc' \in Nat
      BY <1>10, <1>14, <2>2
    <2> QED
      BY <1>1, <1>2, <1>6, <1>9, <1>10, <1>14, <2>1, <2>2, <2>3 DEF TypeOK, States
  <1>16. CurrentRuns'
    BY <1>14 DEF CurrentRuns
  <1>17. NoDangling'
    <2>1. ToSet(l) = {p \in Procs : state'[p] # NONE}
      BY <1>5, <1>6, <1>7, <1>14
    <2> QED
      BY <1>2, <1>4, <1>6, <1>14, <2>1 DEF NoDangling, Listed, Distinct
  <1>18. WorkConserving'
    BY <1>2, <1>5, <1>6, <1>14 DEF WorkConserving, Listed
  <1>19. Boot'
    BY <1>2, <1>4 DEF Boot
  <1>20. Saved'
    BY <1>2, <1>7, <1>11, <1>12, <1>14 DEF Saved
  <1> QED
    BY <1>15, <1>16, <1>17, <1>18, <1>19, <1>20 DEF SInv

\* A process goes to sleep: its own frame is the one it leaves.
LEMMA SleepSInv ==
    ASSUME SInv, NEW ms \in Sleeps, SyscallSleep(ms) PROVE SInv'
  <1> USE SchedulerAssumption
  <1> DEFINE st == [state EXCEPT ![current] = SLEEPING]
  <1>1. /\ TypeOK /\ CurrentRuns /\ NoDangling /\ WorkConserving /\ Boot /\ Saved
    BY DEF SInv
  <1>2. /\ on \in Procs
        /\ sleep' = [sleep EXCEPT ![current] = SleepTicks(ms)]
        /\ esp' = [esp EXCEPT ![current] = Pushed]
        /\ scheduler_switch(list, NULL, st, esp', kesp)
        /\ due' = [due EXCEPT ![current] = (ms * Rate) \div 1000]
        /\ UNCHANGED <<list, enabled, kesp, starting, done>>
    BY DEF SyscallSleep, scheduler_sleep, SavedBySleep
  <1>3. current \in Procs /\ on = current /\ state[current] = RUNNING
    BY <1>1, <1>2 DEF CurrentRuns, TypeOK
  <1>4. enabled /\ starting = NULL
    BY <1>1, <1>3 DEF Boot
  <1>5. /\ ToSet(list) = {p \in Procs : state[p] # NONE} /\ list \in Seq(Procs)
        /\ done \in [Contexts -> Nat]
    BY <1>1, <1>3, <1>4 DEF NoDangling, Listed, TypeOK
  <1>6. /\ st \in [Procs -> States]
        /\ \A p \in Procs : st[p] = IF p = current THEN SLEEPING ELSE state[p]
    BY <1>1, <1>3 DEF TypeOK, States
  <1>7. /\ \A p \in Procs : st[p] # RUNNING
        /\ \A p \in Procs : st[p] = NONE <=> state[p] = NONE
    BY <1>1, <1>3, <1>6 DEF CurrentRuns, NONE, RUNNING, SLEEPING
  <1>8. /\ Pushed = Frame(current, done[current])
        /\ Pushed \in [stack : Procs, pc : Nat]
        /\ SleepTicks(ms) \in Nat /\ (ms * Rate) \div 1000 \in Nat
    BY <1>1, <1>3, FrameFacts DEF Saved
  <1>9. /\ esp' \in [Procs -> [stack : Procs, pc : Nat] \cup {NULL}]
        /\ \A p \in Procs : esp'[p] = IF p = current THEN Pushed ELSE esp[p]
    BY <1>1, <1>2, <1>3, <1>8 DEF TypeOK
  <1>10. \A p \in Procs : state[p] # NONE => esp'[p] = Frame(p, done[p])
    BY <1>1, <1>3, <1>8, <1>9 DEF Saved
  <1>11. kesp = Frame(KERNEL, done[KERNEL])
    BY <1>1, <1>3 DEF Saved
  <1>12. \A p \in ToSet(list) : esp'[p] = Frame(p, done[p])
    BY <1>5, <1>10
  <1> HIDE DEF st
  <1>13. /\ current' \in ToSet(list) \cup {NULL}
         /\ on' = IF current' = NULL THEN KERNEL ELSE current'
         /\ pc' = done[on']
         /\ state' \in [Procs -> States]
         /\ \A p \in Procs : state'[p] = RUNNING <=> p = current'
         /\ \A p \in Procs : state'[p] = NONE <=> st[p] = NONE
         /\ current' = NULL => \A p \in ToSet(list) : state'[p] # WAITING
    <2>1. Ready(list, st, esp', kesp, done)
      BY <1>5, <1>6, <1>7, <1>11, <1>12 DEF Ready
    <2>2. NULL \in ToSet(list) \cup {NULL}
      OBVIOUS
    <2>3. Switched(list, st, done)
      BY <1>2, <2>1, <2>2, SwitchFacts
    <2> QED
      BY <2>3 DEF Switched
  <1>14. TypeOK'
    <2>1. sleep' \in [Procs -> Nat] /\ due' \in [Procs -> Nat]
      <3>1. sleep \in [Procs -> Nat] /\ due \in [Procs -> Nat]
        BY <1>1 DEF TypeOK
      <3>2. \A f \in [Procs -> Nat], n \in Nat : [f EXCEPT ![current] = n] \in [Procs -> Nat]
        OBVIOUS
      <3>3. SleepTicks(ms) \in Nat /\ sleep' = [sleep EXCEPT ![current] = SleepTicks(ms)]
        BY <1>2, <1>8
      <3> DEFINE ticks == (ms * Rate) \div 1000
      <3>4. ticks \in Nat /\ due' = [due EXCEPT ![current] = ticks]
        BY <1>2, <1>8
      <3> HIDE DEF ticks
      <3>5. sleep' \in [Procs -> Nat]
        BY <3>1, <3>2, <3>3, Zenon
      <3>6. due' \in [Procs -> Nat]
        BY <3>1, <3>2, <3>4, Zenon
      <3> QED
        BY <3>5, <3>6
    <2>2. on' \in Contexts /\ current' \in Procs \cup {NULL}
      BY <1>5, <1>13 DEF Contexts
    <2>3. pc' \in Nat
      BY <1>5, <1>13, <2>2
    <2> QED
      BY <1>1, <1>2, <1>9, <1>13, <2>1, <2>2, <2>3 DEF TypeOK, States
  <1>15. CurrentRuns'
    BY <1>13 DEF CurrentRuns
  <1>16. NoDangling'
    BY <1>1, <1>2, <1>4, <1>5, <1>7, <1>13 DEF NoDangling, Listed
  <1>17. WorkConserving'
    BY <1>2, <1>5, <1>13 DEF WorkConserving, Listed
  <1>18. Boot'
    BY <1>2, <1>4 DEF Boot
  <1>19. Saved'
    BY <1>2, <1>7, <1>10, <1>11, <1>13 DEF Saved
  <1> QED
    BY <1>14, <1>15, <1>16, <1>17, <1>18, <1>19 DEF SInv

\* Every step preserves the inductive invariant.
LEMMA NextSInv == SInv /\ [Next]_vars => SInv'
  <1> SUFFICES ASSUME SInv, [Next]_vars PROVE SInv'
    OBVIOUS
  <1>1. CASE Tick
    BY <1>1, TickSInv
  <1>2. CASE \E p \in Procs : process_create(p)
    BY <1>2, CreateSInv
  <1>3. CASE scheduler_start
    BY <1>3, StartSInv
  <1>4. CASE scheduler_enable
    BY <1>4, EnableSInv
  <1>5. CASE Work
    BY <1>5, WorkSInv
  <1>6. CASE SyscallStop
    BY <1>6, StopSInv
  <1>7. CASE \E ms \in Sleeps : SyscallSleep(ms)
    BY <1>7, SleepSInv
  <1>8. CASE UNCHANGED vars
    BY <1>8 DEF vars, SInv, TypeOK, CurrentRuns, NoDangling, WorkConserving, Boot,
                Saved, Listed
  <1> QED
    BY <1>1, <1>2, <1>3, <1>4, <1>5, <1>6, <1>7, <1>8 DEF Next

\* The inductive invariant holds in every reachable state.
LEMMA SInvInvariant == Spec => []SInv
  BY InitSInv, NextSInv, PTL DEF Spec

-----------------------------------------------------------------------------
(***************************************************************************)
(* Every stack pointer that scheduler_switch loads is a stack's: assert(   *)
(* esp) never fails, for any number of processes.                          *)
(***************************************************************************)
THEOREM SchedulerTypeCorrect == Spec => []TypeOK
  <1>1. SInv => TypeOK
    BY DEF SInv
  <1> QED
    BY <1>1, SInvInvariant, PTL

(***************************************************************************)
(* The processor always runs what scheduler.c's current says, and every    *)
(* context that a switch resumes goes on where it was interrupted, after   *)
(* any interleaving of ticks, sleeps and exits.                            *)
(***************************************************************************)
THEOREM SwitchesSafe == Spec => [](CurrentRuns /\ Resumes)
  <1>1. SInv => CurrentRuns /\ Resumes
    BY DEF SInv, Resumes, Saved, NoDangling
  <1> QED
    BY <1>1, SInvInvariant, PTL

(***************************************************************************)
(* scheduler_stop leaves no reference to the process it frees, and no      *)
(* process is listed twice.                                                *)
(***************************************************************************)
THEOREM NoDanglingSafe == Spec => []NoDangling
  <1>1. SInv => NoDangling
    BY DEF SInv
  <1> QED
    BY <1>1, SInvInvariant, PTL

(***************************************************************************)
(* scheduler_next never gives the processor to main while a process waits. *)
(***************************************************************************)
THEOREM WorkConservingSafe == Spec => []WorkConserving
  <1>1. SInv => WorkConserving
    BY DEF SInv
  <1> QED
    BY <1>1, SInvInvariant, PTL

-----------------------------------------------------------------------------
(***************************************************************************)
(* Sleep times.  scheduler_sleep multiplies before it divides, so they are *)
(* exact only for times whose product fits a size_t.                       *)
(***************************************************************************)
Fits == \A ms \in Sleeps : ms * Rate < Word

\* A sleeper's counter is the number of ticks it has still to wait for.
Exact == \A p \in Procs : state[p] = SLEEPING => sleep[p] = due[p]

\* A product that fits is divided as it is.
LEMMA TicksExact ==
    ASSUME Fits, NEW ms \in Sleeps
    PROVE  SleepTicks(ms) = (ms * Rate) \div 1000
  <1>1. ms * Rate \in Nat
    <2>1. ms \in Nat /\ Rate \in Nat
      BY SchedulerAssumption
    <2> QED
      BY <2>1
  <1>2. ms * Rate < Word
    BY DEF Fits
  <1> DEFINE x == ms * Rate
  <1> HIDE DEF x
  <1>3. x \in Nat /\ x < Word => x % Word = x
    BY SchedulerAssumption
  <1>4. x % Word = x
    BY <1>1, <1>2, <1>3 DEF x
  <1> QED
    BY <1>4 DEF SleepTicks, x

\* A sleeper is in the list, so that every tick counts for it.
LEMMA SleepersListed ==
    ASSUME SInv
    PROVE  \A p \in Procs : state[p] = SLEEPING => p \in ToSet(list) /\ p # current
  <1>1. \A p \in Procs : state[p] = SLEEPING => state[p] # NONE /\ p # starting
    BY SchedulerAssumption DEF SInv, Boot, TypeOK, NONE, SLEEPING, WAITING
  <1>2. \A p \in Procs : state[p] = SLEEPING => p # current
    BY DEF SInv, CurrentRuns, SLEEPING, RUNNING
  <1> QED
    BY <1>1, <1>2 DEF SInv, NoDangling, Listed

\* A switch wakes nobody and sends nobody to sleep.
LEMMA SwitchSleepers ==
    ASSUME NEW l \in Seq(Procs), NEW cur, cur = NULL \/ cur \in ToSet(l),
           NEW st \in [Procs -> States], NEW ep, NEW ke, scheduler_switch(l, cur, st, ep, ke)
    PROVE  \A p \in Procs : state'[p] = SLEEPING <=> st[p] = SLEEPING
  <1> DEFINE next == scheduler_next(l, cur, st)
  <1>1. \/ next = NULL
        \/ next \in ToSet(l) /\ st[next] = WAITING
    BY NextFacts
  <1>2. \/ next = NULL /\ state' = st
        \/ next # NULL /\ state' = [st EXCEPT ![next] = RUNNING]
    BY DEF scheduler_switch
  <1> HIDE DEF next
  <1>3. ToSet(l) \subseteq Procs
    BY DEF ToSet
  <1>4. RUNNING # SLEEPING /\ WAITING # SLEEPING
    BY DEF RUNNING, SLEEPING, WAITING
  <1> QED
    BY <1>1, <1>2, <1>3, <1>4

\* A tick wakes exactly the sleepers that have waited long enough.
LEMMA TickExact ==
    ASSUME SInv, Exact, Tick
    PROVE  /\ Exact'
           /\ \A p \in Procs : state[p] = SLEEPING => (state'[p] = SLEEPING <=> due[p] > 0)
  <1> DEFINE woken == [p \in Procs |-> IF p \in ToSet(list) /\ Wakes(p)
                                         THEN WAITING ELSE state[p]]
             st    == IF current = NULL THEN woken ELSE [woken EXCEPT ![current] = WAITING]
  <1>1. /\ sleep' = [p \in Procs |-> IF p \in ToSet(list) /\ state[p] = SLEEPING /\ ~Wakes(p)
                                       THEN Aged(p) ELSE sleep[p]]
        /\ scheduler_switch(list, current, st, esp', kesp')
        /\ due' = [p \in Procs |-> IF due[p] > 0 THEN due[p] - 1 ELSE 0]
    BY DEF Tick
  <1>2. /\ list \in Seq(Procs) /\ (current = NULL \/ current \in ToSet(list))
        /\ state \in [Procs -> States] /\ due \in [Procs -> Nat] /\ sleep \in [Procs -> Nat]
        /\ current \in Procs \cup {NULL}
    BY DEF SInv, TypeOK, NoDangling, Listed, States
  <1>3. WAITING \in States /\ WAITING # SLEEPING
    BY DEF States, WAITING, SLEEPING
  <1>4. \A p \in Procs : state[p] = SLEEPING => p \in ToSet(list) /\ p # current
    BY SleepersListed
  <1>5. woken \in [Procs -> States]
    BY <1>2, <1>3
  <1>6. \A p \in Procs : woken[p] = SLEEPING <=> state[p] = SLEEPING /\ due[p] > 0
    <2>1. \A p \in Procs : woken[p] = IF p \in ToSet(list) /\ Wakes(p) THEN WAITING ELSE state[p]
      OBVIOUS
    <2> HIDE DEF woken
    <2>2. \A p \in Procs : state[p] = SLEEPING => (Wakes(p) <=> ~(due[p] > 0))
      BY <1>2 DEF Exact, Wakes
    <2>3. \A p \in Procs : Wakes(p) => state[p] = SLEEPING
      BY DEF Wakes
    <2> QED
      BY <1>3, <1>4, <2>1, <2>2, <2>3
  <1> HIDE DEF woken
  <1>7. st \in [Procs -> States] /\ \A p \in Procs : p # current => st[p] = woken[p]
    BY <1>2, <1>3, <1>5
  <1>8. \A p \in Procs : p = current => st[p] = WAITING
    BY <1>2, <1>5, SchedulerAssumption
  <1>9. \A p \in Procs : st[p] = SLEEPING <=> state[p] = SLEEPING /\ due[p] > 0
    BY <1>3, <1>4, <1>6, <1>7, <1>8
  <1>10. \A p \in Procs : state'[p] = SLEEPING <=> state[p] = SLEEPING /\ due[p] > 0
    <2> HIDE DEF st
    <2>1. \A p \in Procs : state'[p] = SLEEPING <=> st[p] = SLEEPING
      BY <1>1, <1>2, <1>7, SwitchSleepers
    <2> QED
      BY <1>9, <2>1
  <1>11. Exact'
    <2> SUFFICES ASSUME NEW p \in Procs, state'[p] = SLEEPING PROVE sleep'[p] = due'[p]
      BY DEF Exact
    <2>1. state[p] = SLEEPING /\ due[p] > 0 /\ sleep[p] = due[p] /\ p \in ToSet(list)
      BY <1>4, <1>10 DEF Exact
    <2>2. ~Wakes(p) /\ Aged(p) = due[p] - 1
      BY <1>2, <2>1 DEF Wakes, Aged
    <2> QED
      BY <1>1, <2>1, <2>2
  <1> QED
    BY <1>10, <1>11

\* Every other step leaves the sleepers asleep, and their counters alone.
LEMMA OthersExact ==
    ASSUME Fits, SInv, Exact, [Next]_vars, ~Tick
    PROVE  /\ Exact'
           /\ \A p \in Procs : state[p] = SLEEPING => state'[p] = SLEEPING
  <1>1. /\ state \in [Procs -> States] /\ due \in [Procs -> Nat] /\ sleep \in [Procs -> Nat]
        /\ list \in Seq(Procs) /\ current \in Procs \cup {NULL}
    BY DEF SInv, TypeOK, States
  <1>2. \A p \in Procs : state[p] = SLEEPING => p \in ToSet(list) /\ p # current
    BY SleepersListed
  <1>3. CASE UNCHANGED <<state, sleep, due>>
    BY <1>3 DEF Exact
  <1>4. CASE \E p \in Procs : process_create(p)
    <2>1. PICK p \in Procs : process_create(p)
      BY <1>4
    <2>2. /\ state[p] = NONE /\ state' = [state EXCEPT ![p] = WAITING]
          /\ sleep' = [sleep EXCEPT ![p] = 0] /\ due' = due
      BY <2>1 DEF process_create
    <2> QED
      BY <1>1, <2>2 DEF Exact, NONE, WAITING, SLEEPING
  <1>5. CASE SyscallStop
    <2> DEFINE l  == RemoveFirst(list, current)
               st == [state EXCEPT ![current] = NONE]
    <2>1. /\ on \in Procs /\ sleep' = [sleep EXCEPT ![current] = 0]
          /\ due' = [due EXCEPT ![current] = 0]
          /\ scheduler_switch(l, NULL, st, esp', kesp)
      BY <1>5 DEF SyscallStop, scheduler_stop
    <2>2. current \in Procs /\ current \in ToSet(list) /\ Distinct(list)
      BY <1>1, <2>1, SchedulerAssumption DEF SInv, CurrentRuns, NoDangling, Listed, Distinct
    <2>3. l \in Seq(Procs)
      BY <1>1, <2>2, RemoveFacts
    <2>4. /\ st \in [Procs -> States] /\ NONE # SLEEPING
          /\ \A p \in Procs : st[p] = IF p = current THEN NONE ELSE state[p]
      BY <1>1, <2>2 DEF States, NONE, SLEEPING
    <2> HIDE DEF l, st
    <2>5. \A p \in Procs : state'[p] = SLEEPING <=> st[p] = SLEEPING
      BY <2>1, <2>3, <2>4, SwitchSleepers
    <2> QED
      BY <1>1, <1>2, <2>1, <2>2, <2>4, <2>5 DEF Exact
  <1>6. CASE \E ms \in Sleeps : SyscallSleep(ms)
    <2> DEFINE st == [state EXCEPT ![current] = SLEEPING]
    <2>1. PICK ms \in Sleeps : SyscallSleep(ms)
      BY <1>6
    <2> DEFINE ticks == (ms * Rate) \div 1000
    <2>2. /\ on \in Procs /\ sleep' = [sleep EXCEPT ![current] = SleepTicks(ms)]
          /\ due' = [due EXCEPT ![current] = ticks]
          /\ scheduler_switch(list, NULL, st, esp', kesp)
      BY <2>1 DEF SyscallSleep, scheduler_sleep
    <2>3. SleepTicks(ms) = ticks
      BY TicksExact
    <2> HIDE DEF ticks
    <2>4. current \in Procs
      BY <1>1, <2>2, SchedulerAssumption DEF SInv, CurrentRuns
    <2>5. /\ st \in [Procs -> States]
          /\ \A p \in Procs : st[p] = IF p = current THEN SLEEPING ELSE state[p]
      BY <1>1, <2>4 DEF States
    <2> HIDE DEF st
    <2>6. \A p \in Procs : state'[p] = SLEEPING <=> st[p] = SLEEPING
      BY <1>1, <2>2, <2>5, SwitchSleepers
    <2> QED
      BY <1>1, <2>2, <2>3, <2>4, <2>5, <2>6 DEF Exact
  <1> QED
    BY <1>3, <1>4, <1>5, <1>6 DEF Next, vars, scheduler_start, scheduler_enable, Work

(***************************************************************************)
(* As long as no sleep time overflows scheduler_sleep's product, a process *)
(* is woken by the tick after the ticks it asked for, no earlier and no    *)
(* later, with any number of processes and whoever runs meanwhile.         *)
(***************************************************************************)
THEOREM PunctualSafe == ASSUME Fits PROVE Spec => Punctual
  <1>1. Init => Exact
    BY DEF Init, Exact, NONE, SLEEPING
  <1>2. SInv /\ Exact /\ [Next]_vars => Exact'
    BY TickExact, OthersExact
  <1>3. SInv /\ Exact /\ [Next]_vars =>
          [\A p \in Procs :
             state[p] = SLEEPING => (state'[p] = SLEEPING <=> ~Tick \/ due[p] > 0)]_vars
    <2> SUFFICES ASSUME SInv, Exact, [Next]_vars, NEW p \in Procs, state[p] = SLEEPING
                 PROVE  state'[p] = SLEEPING <=> ~Tick \/ due[p] > 0
      OBVIOUS
    <2>1. CASE Tick
      BY <2>1, TickExact
    <2>2. CASE ~Tick
      BY <2>2, OthersExact
    <2> QED
      BY <2>1, <2>2
  <1> QED
    BY <1>1, <1>2, <1>3, SInvInvariant, PTL DEF Spec, Punctual

=============================================================================

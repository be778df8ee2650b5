-------------------------- MODULE InterruptsProofs --------------------------
(***************************************************************************)
(* Proofs about Interrupts, for any lines, any exceptions and any nesting. *)
(***************************************************************************)
EXTENDS Interrupts, TLAPS

Entry ==
    [vector : Vectors, line : 0 .. 15 \cup {NoLine}, bits : SUBSET (0 .. 15),
     flag : BOOLEAN, step : {"entered", "acknowledged", "handled"}]

\* main has come far enough: interrupts are on only with a descriptor table and
\* remapped PICs, and the exceptions have their handlers before there is a table.
InOrder ==
    /\ idt <=> boot >= 2
    /\ remapped <=> boot >= 3
    /\ intr \/ enabled => boot >= 4
    /\ stack # <<>> => boot >= 2
    /\ boot >= 1 => \A v \in 0 .. 31 : handlers[v] = "exception"

\* Only an exception interrupts a handler: whatever is above the first entry is
\* one, was entered with interrupts off and has no line in service.
Nested ==
    \A i \in DOMAIN stack : i # 1 =>
        stack[i].vector < 32 /\ stack[i].line = NoLine /\ stack[i].bits = {} /\ ~stack[i].flag

\* What an entry of the stack says of its line.  Interrupts were on before the
\* first one only if main had come to turn them on.
Consistent(e) ==
    \/ e.line = NoLine /\ e.bits = {}
    \/ /\ e.line # NoLine /\ e.vector = 32 + e.line
       /\ e.bits = Bits(e.line) \/ e.bits = Bits(e.line) \ {e.line}

First ==
    stack # <<>> => Consistent(stack[1]) /\ (stack[1].flag => boot >= 4)

\* The lines in service are those of the first entry, until it is acknowledged.
FirstInService ==
    isr = IF stack # <<>> /\ stack[1].step = "entered" THEN stack[1].bits ELSE {}

IInv ==
    /\ TypeOK /\ stack \in Seq(Entry)
    /\ InOrder /\ HandlersAtomic /\ Nested /\ First /\ FirstInService /\ ExceptionIsFinal

-----------------------------------------------------------------------------
(***************************************************************************)
(* Sequences of entries.                                                   *)
(***************************************************************************)

\* Entering an interrupt adds an entry on top of the others.
LEMMA PushFacts ==
    ASSUME NEW s \in Seq(Entry), NEW e \in Entry
    PROVE  /\ Append(s, e) \in Seq(Entry) /\ Append(s, e) # <<>>
           /\ Len(Append(s, e)) = Len(s) + 1
           /\ DOMAIN Append(s, e) = 1 .. Len(s) + 1 /\ DOMAIN s = 1 .. Len(s)
           /\ Append(s, e)[Len(s) + 1] = e
           /\ \A i \in 1 .. Len(s) : Append(s, e)[i] = s[i]
  OBVIOUS

\* Leaving one takes the entry on top away.
LEMMA PopFacts ==
    ASSUME NEW s \in Seq(Entry), s # <<>>
    PROVE  /\ Front(s) \in Seq(Entry) /\ Len(Front(s)) = Len(s) - 1
           /\ DOMAIN Front(s) = 1 .. Len(s) - 1 /\ DOMAIN s = 1 .. Len(s)
           /\ \A i \in 1 .. Len(s) - 1 : Front(s)[i] = s[i]
           /\ Last(s) = s[Len(s)] /\ Len(s) \in Nat \ {0} /\ Last(s) \in Entry
           /\ Front(s) # <<>> <=> Len(s) # 1
  <1>1. Len(s) \in Nat \ {0} /\ DOMAIN s = 1 .. Len(s)
    OBVIOUS
  <1>2. /\ SubSeq(s, 1, Len(s) - 1) \in Seq(Entry)
        /\ Len(SubSeq(s, 1, Len(s) - 1)) = Len(s) - 1
        /\ \A i \in 1 .. Len(s) - 1 : SubSeq(s, 1, Len(s) - 1)[i] = s[i]
    BY <1>1
  <1>3. Front(s) = SubSeq(s, 1, Len(s) - 1) /\ Last(s) = s[Len(s)]
    BY DEF Front, Last
  <1>4. s[Len(s)] \in Entry
    BY <1>1
  <1> HIDE DEF Front, Last
  <1>5. Front(s) \in Seq(Entry) /\ Len(Front(s)) = Len(s) - 1
    BY <1>2, <1>3
  <1>6. \A r \in Seq(Entry) : r = <<>> <=> Len(r) = 0
    OBVIOUS
  <1>7. Front(s) = <<>> <=> Len(Front(s)) = 0
    BY <1>5, <1>6
  <1>8. Front(s) # <<>> <=> Len(s) # 1
    BY <1>1, <1>5, <1>7
  <1> QED
    BY <1>1, <1>2, <1>3, <1>4, <1>5, <1>8

\* r is s after a step of the handler on top: its entry has changed to step x,
\* and no other has.
Advanced(s, r, x) ==
    /\ r \in Seq(Entry) /\ Len(r) = Len(s) /\ DOMAIN r = DOMAIN s
    /\ DOMAIN s = 1 .. Len(s) /\ Len(s) \in Nat \ {0} /\ 1 \in 1 .. Len(s) /\ r # <<>>
    /\ Last(s) = s[Len(s)]
    /\ \A i \in 1 .. Len(s) : i # Len(s) => r[i] = s[i]
    /\ r[Len(s)].step = x
    /\ \A i \in 1 .. Len(s) : /\ r[i].vector = s[i].vector /\ r[i].line = s[i].line
                              /\ r[i].bits = s[i].bits /\ r[i].flag = s[i].flag

\* Advance changes the entry on top and no other.
LEMMA AdvanceFacts ==
    ASSUME NEW s \in Seq(Entry), s # <<>>, NEW x \in {"acknowledged", "handled"},
           NEW r, r = [s EXCEPT ![Len(s)] = [s[Len(s)] EXCEPT !.step = x]]
    PROVE  Advanced(s, r, x)
  <1>1. /\ Len(s) \in Nat \ {0} /\ DOMAIN s = 1 .. Len(s)
        /\ \A i \in 1 .. Len(s) : s[i] \in Entry
    OBVIOUS
  <1> DEFINE e == [s[Len(s)] EXCEPT !.step = x]
  <1>2. /\ e \in Entry /\ e.step = x
        /\ e.vector = s[Len(s)].vector /\ e.line = s[Len(s)].line
        /\ e.bits = s[Len(s)].bits /\ e.flag = s[Len(s)].flag
    <2>1. s[Len(s)] \in Entry
      BY <1>1
    <2> QED
      BY <2>1 DEF Entry
  <1>3. r = [s EXCEPT ![Len(s)] = e]
    OBVIOUS
  <1> HIDE DEF e
  <1>4. /\ r \in Seq(Entry) /\ Len(r) = Len(s) /\ DOMAIN r = DOMAIN s
        /\ r[Len(s)] = e
        /\ \A i \in 1 .. Len(s) : i # Len(s) => r[i] = s[i]
    BY <1>1, <1>2, <1>3
  <1>5. r # <<>>
    BY <1>1, <1>4
  <1>6. \A i \in 1 .. Len(s) : /\ r[i].vector = s[i].vector /\ r[i].line = s[i].line
                               /\ r[i].bits = s[i].bits /\ r[i].flag = s[i].flag
    BY <1>2, <1>4
  <1> QED
    BY <1>1, <1>2, <1>4, <1>5, <1>6 DEF Advanced, Last

-----------------------------------------------------------------------------
(***************************************************************************)
(* The processor, the PICs and the devices.                                *)
(***************************************************************************)
LEMMA InitIInv == Init => IInv
  <1> SUFFICES ASSUME Init PROVE IInv
    OBVIOUS
  <1>1. Len(BootOrder) = 10
    BY DEF BootOrder
  <1>2. handlers \in [Vectors -> {NULL, "exception", "syscall", "pit", "keyboard"}]
    BY DEF Init
  <1>3. TypeOK
    <2>1. {intr, idt, remapped, obf, enabled} \subseteq BOOLEAN
      BY Zenon DEF Init
    <2> QED
      BY <1>1, <1>2, <2>1 DEF Init, TypeOK
  <1>4. stack = <<>> /\ DOMAIN stack = {} /\ stack \in Seq(Entry)
    BY DEF Init
  <1>5. InOrder
    BY DEF Init, InOrder
  <1>6. HandlersAtomic /\ Nested /\ First /\ FirstInService /\ ExceptionIsFinal
    BY <1>4 DEF Init, HandlersAtomic, Nested, First, FirstInService, ExceptionIsFinal
  <1> QED
    BY <1>3, <1>4, <1>5, <1>6 DEF IInv

\* A new request, or an assert that fails, leaves the stack and the PICs alone.
LEMMA RaiseIInv == ASSUME IInv, NEW l \in Lines, Raise(l) PROVE IInv'
  BY DEF Raise, IInv, TypeOK, InOrder, HandlersAtomic, Nested, First, FirstInService,
         ExceptionIsFinal

LEMMA KeyIInv == ASSUME IInv, Key PROVE IInv'
  BY DEF Key, IInv, TypeOK, InOrder, HandlersAtomic, Nested, First, FirstInService,
         ExceptionIsFinal

LEMMA AssertIInv == ASSUME IInv, AssertFails PROVE IInv'
  BY DEF AssertFails, IInv, TypeOK, InOrder, HandlersAtomic, Nested, First, FirstInService,
         ExceptionIsFinal

\* An interrupt that is entered from outside of any handler, at vector v.
LEMMA EnterFirst ==
    ASSUME IInv, stack = <<>>, idt,
           NEW v \in Vectors, NEW l \in 0 .. 15 \cup {NoLine}, NEW b \in SUBSET (0 .. 15),
           Enter(v, l, b)
    PROVE  LET e == [vector |-> v, line |-> l, bits |-> b, flag |-> intr, step |-> "entered"]
           IN  /\ e \in Entry /\ stack' = <<e>> /\ stack' \in Seq(Entry) /\ stack' # <<>>
               /\ DOMAIN stack' = {1} /\ stack'[1] = e
               /\ intr' = FALSE /\ mode' = "run"
  <1> DEFINE e == [vector |-> v, line |-> l, bits |-> b, flag |-> intr, step |-> "entered"]
  <1>1. e \in Entry
    <2>1. intr \in BOOLEAN
      BY DEF IInv, TypeOK
    <2> QED
      BY <2>1 DEF Entry
  <1>2. stack' = Append(stack, e) /\ intr' = FALSE /\ mode' = "run"
    BY DEF Enter, GateFlag
  <1> HIDE DEF e
  <1>3. stack' = <<e>>
    BY <1>1, <1>2
  <1>4. stack' \in Seq(Entry) /\ stack' # <<>> /\ DOMAIN stack' = {1} /\ stack'[1] = e
    BY <1>1, <1>3
  <1> QED
    BY <1>1, <1>2, <1>3, <1>4 DEF e

\* A line that the PICs deliver, spuriously or not, comes in at its own vector.
LEMMA VectorOfLine ==
    ASSUME IInv, intr, NEW l \in 0 .. 15
    PROVE  /\ stack = <<>> /\ idt /\ isr = {} /\ boot >= 2
           /\ Vector(l) = 32 + l /\ Vector(l) \in Vectors
           /\ Bits(l) \subseteq 0 .. 15
  <1>1. stack = <<>> /\ boot \in Nat
    <2>1. boot \in Nat
      BY DEF IInv, TypeOK, BootOrder
    <2> QED
      BY <2>1 DEF IInv, HandlersAtomic
  <1>2. idt /\ remapped /\ boot >= 2
    BY <1>1 DEF IInv, InOrder
  <1>3. isr = {}
    BY <1>1 DEF IInv, FirstInService
  <1>4. Vector(l) = 32 + l
    BY <1>2 DEF Vector
  <1>5. 32 + l \in Vectors
    BY DEF Vectors
  <1>6. Bits(l) \subseteq 0 .. 15
    BY DEF Bits, Master, Cascade
  <1> QED
    BY <1>1, <1>2, <1>3, <1>4, <1>5, <1>6

\* What the first entry of the stack has to say for the invariant to hold.
LEMMA FirstEntered ==
    ASSUME IInv, stack = <<>>, boot >= 2,
           NEW v \in Vectors, NEW l \in 0 .. 15 \cup {NoLine}, NEW b \in SUBSET (0 .. 15),
           idt, Enter(v, l, b), irr' \subseteq irr, isr' = b,
           l = NoLine => b = {},
           l # NoLine => v = 32 + l /\ (b = Bits(l) \/ b = Bits(l) \ {l}),
           UNCHANGED <<boot, idt, remapped, handlers, obf, enabled>>
    PROVE  IInv'
  <1> DEFINE e == [vector |-> v, line |-> l, bits |-> b, flag |-> intr, step |-> "entered"]
  <1>1. /\ e \in Entry /\ stack' = <<e>> /\ stack' \in Seq(Entry) /\ stack' # <<>>
        /\ DOMAIN stack' = {1} /\ stack'[1] = e
        /\ intr' = FALSE /\ mode' = "run"
    BY EnterFirst
  <1>2. e.vector = v /\ e.line = l /\ e.bits = b /\ e.flag = intr /\ e.step = "entered"
    OBVIOUS
  <1> HIDE DEF e
  <1>3. TypeOK'
    <2>1. {intr', idt', remapped', obf', enabled'} \subseteq BOOLEAN
      BY <1>1, Zenon DEF IInv, TypeOK
    <2> QED
      BY <1>1, <2>1 DEF IInv, TypeOK
  <1>4. InOrder'
    BY <1>1 DEF IInv, InOrder
  <1>5. HandlersAtomic' /\ Nested'
    BY <1>1 DEF HandlersAtomic, Nested
  <1>6. First'
    <2>1. Consistent(e)
      BY <1>2 DEF Consistent
    <2>2. e.flag => boot' >= 4
      BY <1>2 DEF IInv, InOrder
    <2> QED
      BY <1>1, <2>1, <2>2 DEF First
  <1>7. FirstInService'
    BY <1>1, <1>2 DEF FirstInService
  <1>8. ExceptionIsFinal'
    BY <1>1, <1>2 DEF ExceptionIsFinal
  <1> QED
    BY <1>1, <1>3, <1>4, <1>5, <1>6, <1>7, <1>8 DEF IInv

LEMMA DeliverIInv ==
    ASSUME IInv, NEW l \in Lines \cup {Keyboard}, Deliver(l) PROVE IInv'
  <1>1. l \in 0 .. 15 /\ l # NoLine
    BY InterruptsAssumption DEF Keyboard, NoLine
  <1>2. intr
    BY DEF Deliver
  <1>3. /\ stack = <<>> /\ idt /\ isr = {} /\ boot >= 2
        /\ Vector(l) = 32 + l /\ Vector(l) \in Vectors
        /\ Bits(l) \subseteq 0 .. 15
    BY <1>1, <1>2, VectorOfLine
  <1>4. /\ irr' \subseteq irr /\ isr' = Bits(l) /\ Enter(Vector(l), l, Bits(l))
        /\ UNCHANGED <<boot, idt, remapped, handlers, obf, enabled>>
    BY <1>3 DEF Deliver
  <1> QED
    BY <1>1, <1>3, <1>4, FirstEntered

LEMMA SpuriousIInv ==
    ASSUME IInv, NEW l \in {7, 15}, Spurious(l) PROVE IInv'
  <1>1. l \in 0 .. 15 /\ l # NoLine
    BY DEF NoLine
  <1>2. intr
    BY DEF Spurious
  <1>3. /\ stack = <<>> /\ idt /\ isr = {} /\ boot >= 2
        /\ Vector(l) = 32 + l /\ Vector(l) \in Vectors
        /\ Bits(l) \subseteq 0 .. 15
    BY <1>1, <1>2, VectorOfLine
  <1>4. /\ irr' \subseteq irr /\ isr' = Bits(l) \ {l} /\ Enter(Vector(l), l, Bits(l) \ {l})
        /\ UNCHANGED <<boot, idt, remapped, handlers, obf, enabled>>
    BY <1>3 DEF Spurious
  <1>5. Bits(l) \ {l} \subseteq 0 .. 15
    BY <1>3
  <1> QED
    BY <1>1, <1>3, <1>4, <1>5, FirstEntered

\* Main and the processes make system calls, from outside of any handler.
LEMMA SyscallIInv == ASSUME IInv, Syscall PROVE IInv'
  <1>1. stack = <<>> /\ enabled /\ Enter(128, NoLine, {})
        /\ UNCHANGED <<boot, idt, remapped, handlers, irr, isr, obf, enabled>>
    BY DEF Syscall
  <1>2. boot \in Nat
    BY DEF IInv, TypeOK, BootOrder
  <1>3. boot >= 2 /\ idt
    BY <1>1, <1>2 DEF IInv, InOrder
  <1>4. isr' = {} /\ irr' \subseteq irr
    BY <1>1 DEF IInv, FirstInService
  <1>5. 128 \in Vectors /\ NoLine \in 0 .. 15 \cup {NoLine} /\ {} \in SUBSET (0 .. 15)
    BY DEF Vectors
  <1> QED
    BY <1>1, <1>3, <1>4, <1>5, FirstEntered

\* An exception may come inside a handler, which has interrupts off.
LEMMA FaultIInv == ASSUME IInv, NEW v \in Faults, Fault(v) PROVE IInv'
  <1>1. v \in Vectors /\ v < 32 /\ v \in 0 .. 31
    BY InterruptsAssumption DEF Vectors
  <1>2. /\ idt /\ Enter(v, NoLine, {}) /\ mode = "run"
        /\ UNCHANGED <<boot, idt, remapped, handlers, irr, isr, obf, enabled>>
    BY DEF Fault
  <1>3. boot \in Nat /\ boot >= 2 /\ intr \in BOOLEAN
    BY <1>2 DEF IInv, TypeOK, BootOrder, InOrder
  <1>4. CASE stack = <<>>
    <2>1. isr' = {} /\ irr' \subseteq irr
      BY <1>2, <1>4 DEF IInv, FirstInService
    <2>2. NoLine \in 0 .. 15 \cup {NoLine} /\ {} \in SUBSET (0 .. 15)
      OBVIOUS
    <2> QED
      BY <1>1, <1>2, <1>3, <1>4, <2>1, <2>2, FirstEntered
  <1>5. CASE stack # <<>>
    <2> DEFINE e == [vector |-> v, line |-> NoLine, bits |-> {}, flag |-> intr, step |-> "entered"]
    <2>1. e \in Entry
      BY <1>1, <1>3 DEF Entry
    <2>2. stack' = Append(stack, e) /\ intr' = FALSE /\ mode' = "run"
      BY <1>1, <1>2 DEF Enter, GateFlag
    <2>3. ~intr
      BY <1>5 DEF IInv, HandlersAtomic
    <2>4. e.vector = v /\ e.line = NoLine /\ e.bits = {} /\ ~e.flag /\ e.step = "entered"
      BY <2>3
    <2> HIDE DEF e
    <2>5. stack \in Seq(Entry) /\ Len(stack) \in Nat \ {0}
      BY <1>5 DEF IInv
    <2>6. /\ stack' \in Seq(Entry) /\ stack' # <<>>
          /\ DOMAIN stack' = 1 .. Len(stack) + 1 /\ DOMAIN stack = 1 .. Len(stack)
          /\ stack'[Len(stack) + 1] = e
          /\ \A i \in 1 .. Len(stack) : stack'[i] = stack[i]
      BY <2>1, <2>2, <2>5, PushFacts
    <2>7. stack'[1] = stack[1]
      BY <2>5, <2>6
    <2>8. TypeOK'
      <3>1. {intr', idt', remapped', obf', enabled'} \subseteq BOOLEAN
        BY <1>2, <2>2, Zenon DEF IInv, TypeOK
      <3> QED
        BY <1>2, <2>2, <3>1 DEF IInv, TypeOK
    <2>9. InOrder'
      BY <1>2, <1>3, <2>2 DEF IInv, InOrder
    <2>10. HandlersAtomic'
      BY <2>2 DEF HandlersAtomic
    <2>11. Nested'
      <3> SUFFICES ASSUME NEW i \in DOMAIN stack', i # 1
                   PROVE  /\ stack'[i].vector < 32 /\ stack'[i].line = NoLine
                          /\ stack'[i].bits = {} /\ ~stack'[i].flag
        BY DEF Nested
      <3>1. CASE i = Len(stack) + 1
        BY <1>1, <2>4, <2>6, <3>1
      <3>2. CASE i # Len(stack) + 1
        <4>1. i \in 1 .. Len(stack)
          BY <2>5, <2>6, <3>2
        <4> QED
          BY <2>6, <4>1 DEF IInv, Nested
      <3> QED
        BY <3>1, <3>2
    <2>12. First'
      BY <1>2, <1>5, <2>7 DEF IInv, First
    <2>13. FirstInService'
      BY <1>2, <1>5, <2>6, <2>7 DEF IInv, FirstInService
    <2>14. ExceptionIsFinal'
      <3>1. ~ \E i \in 1 .. Len(stack) : stack[i].vector < 32 /\ stack[i].step = "handled"
        BY <1>2, <2>6 DEF IInv, ExceptionIsFinal
      <3>2. \A i \in DOMAIN stack' : i # Len(stack) + 1 => i \in 1 .. Len(stack)
        BY <2>5, <2>6
      <3> QED
        BY <2>4, <2>6, <3>1, <3>2 DEF ExceptionIsFinal
    <2> QED
      BY <2>6, <2>8, <2>9, <2>10, <2>11, <2>12, <2>13, <2>14 DEF IInv
  <1> QED
    BY <1>4, <1>5

-----------------------------------------------------------------------------
(***************************************************************************)
(* main.                                                                   *)
(***************************************************************************)
Handlers == {NULL, "exception", "syscall", "pit", "keyboard"}

TypeParts ==
    /\ boot \in 0 .. 10
    /\ intr \in BOOLEAN /\ idt \in BOOLEAN /\ remapped \in BOOLEAN
    /\ obf \in BOOLEAN /\ enabled \in BOOLEAN
    /\ handlers \in [Vectors -> Handlers]
    /\ irr \subseteq Lines \cup {Keyboard} /\ isr \subseteq 0 .. 15
    /\ mode \in {"run", "hlt"}

\* TypeOK, variable by variable.
LEMMA TypePieces == (TypeOK <=> TypeParts) /\ (TypeOK' <=> TypeParts')
  <1>1. Len(BootOrder) = 10
    BY DEF BootOrder
  <1> QED
    BY <1>1, Zenon DEF TypeOK, TypeParts, Handlers

\* irq_register_handler changes the handlers of the vectors it is given.
LEMMA RegisterFacts ==
    ASSUME NEW vs \in SUBSET Vectors, NEW h \in Handlers, Register(vs, h),
           handlers \in [Vectors -> Handlers]
    PROVE  /\ handlers' \in [Vectors -> Handlers]
           /\ \A v \in vs : handlers'[v] = h
           /\ \A v \in Vectors \ vs : handlers'[v] = handlers[v]
  BY DEF Register

\* Outside of any handler most of the invariant is about nothing.
LEMMA OutsideIInv ==
    ASSUME TypeOK', InOrder', stack' = <<>>, isr' = {}
    PROVE  IInv'
  <1>1. stack' \in Seq(Entry) /\ DOMAIN stack' = {}
    OBVIOUS
  <1> QED
    BY <1>1 DEF IInv, HandlersAtomic, Nested, First, FirstInService, ExceptionIsFinal

\* Each step of main keeps the order that the invariant speaks of.
LEMMA BootStepIInv == ASSUME IInv, BootStep PROVE IInv'
  <1>1. mode = "run" /\ stack = <<>> /\ stack' = <<>> /\ mode' = "run" /\ boot # 10
    BY DEF BootStep, Booted, BootOrder
  <1>2. TypeParts
    BY TypePieces DEF IInv
  <1>3. isr = {} /\ InOrder
    BY <1>1 DEF IInv, FirstInService
  <1>4. boot \in 0 .. 9
    BY <1>1, <1>2 DEF TypeParts
  <1>5. CASE boot = 0
    <2>1. exceptions_init /\ boot' = 1
      BY <1>1, <1>2, <1>5 DEF BootStep, BootOrder, TypeParts
    <2>2. /\ handlers' \in [Vectors -> Handlers]
          /\ \A v \in 0 .. 31 : handlers'[v] = "exception"
      BY <1>2, <2>1, RegisterFacts DEF exceptions_init, Vectors, Handlers, TypeParts
    <2>3. TypeOK'
      BY <1>1, <1>2, <1>3, <2>1, <2>2, TypePieces DEF exceptions_init, TypeParts
    <2>4. InOrder'
      BY <1>1, <1>2, <1>3, <2>1, <2>2, <1>5 DEF exceptions_init, InOrder, TypeParts
    <2>5. isr' = {}
      BY <1>3, <2>1 DEF exceptions_init
    <2> QED
      BY <1>1, <2>3, <2>4, <2>5, OutsideIInv
  <1>6. CASE boot = 1
    <2>1. irq_init /\ boot' = 2
      BY <1>1, <1>2, <1>6 DEF BootStep, BootOrder, TypeParts
    <2>2. TypeOK'
      BY <1>1, <1>2, <1>3, <2>1, TypePieces DEF irq_init, TypeParts
    <2>3. InOrder'
      BY <1>1, <1>2, <1>3, <2>1, <1>6 DEF irq_init, InOrder, TypeParts
    <2>4. isr' = {}
      BY <1>3, <2>1 DEF irq_init
    <2> QED
      BY <1>1, <2>2, <2>3, <2>4, OutsideIInv
  <1>7. CASE boot = 2
    <2>1. pic_init /\ boot' = 3
      BY <1>1, <1>2, <1>7 DEF BootStep, BootOrder, TypeParts
    <2>2. TypeOK'
      BY <1>1, <1>2, <1>3, <2>1, TypePieces DEF pic_init, TypeParts
    <2>3. InOrder'
      BY <1>1, <1>2, <1>3, <2>1, <1>7 DEF pic_init, InOrder, TypeParts
    <2>4. isr' = {}
      BY <1>3, <2>1 DEF pic_init
    <2> QED
      BY <1>1, <2>2, <2>3, <2>4, OutsideIInv
  <1>8. CASE boot = 3
    <2>1. irq_enable /\ boot' = 4
      BY <1>1, <1>2, <1>8 DEF BootStep, BootOrder, TypeParts
    <2>2. TypeOK'
      BY <1>1, <1>2, <1>3, <2>1, TypePieces DEF irq_enable, TypeParts
    <2>3. InOrder'
      BY <1>1, <1>2, <1>3, <2>1, <1>8 DEF irq_enable, InOrder, TypeParts
    <2>4. isr' = {}
      BY <1>3, <2>1 DEF irq_enable
    <2> QED
      BY <1>1, <2>2, <2>3, <2>4, OutsideIInv
  <1>9. CASE boot = 4
    <2>1. syscall_init /\ boot' = 5
      BY <1>1, <1>2, <1>9 DEF BootStep, BootOrder, TypeParts
    <2>2. /\ handlers' \in [Vectors -> Handlers]
          /\ \A v \in 0 .. 31 : handlers'[v] = handlers[v]
      BY <1>2, <2>1, RegisterFacts DEF syscall_init, Vectors, Handlers, TypeParts
    <2>3. TypeOK'
      BY <1>1, <1>2, <1>3, <2>1, <2>2, TypePieces DEF syscall_init, TypeParts
    <2>4. InOrder'
      <3>1. \A v \in 0 .. 31 : handlers'[v] = "exception"
        BY <1>3, <1>9, <2>2 DEF InOrder
      <3> QED
        BY <1>1, <1>3, <2>1, <3>1, <1>9 DEF syscall_init, InOrder
    <2>5. isr' = {}
      BY <1>3, <2>1 DEF syscall_init
    <2> QED
      BY <1>1, <2>3, <2>4, <2>5, OutsideIInv
  <1>10. CASE boot = 5
    <2>1. pit_init /\ boot' = 6
      BY <1>1, <1>2, <1>10 DEF BootStep, BootOrder, TypeParts
    <2>2. /\ handlers' \in [Vectors -> Handlers]
          /\ \A v \in 0 .. 31 : handlers'[v] = handlers[v]
      BY <1>2, <2>1, RegisterFacts DEF pit_init, Vectors, Handlers, TypeParts
    <2>3. TypeOK'
      BY <1>1, <1>2, <1>3, <2>1, <2>2, TypePieces DEF pit_init, TypeParts
    <2>4. InOrder'
      <3>1. \A v \in 0 .. 31 : handlers'[v] = "exception"
        BY <1>3, <1>10, <2>2 DEF InOrder
      <3> QED
        BY <1>1, <1>3, <2>1, <3>1, <1>10 DEF pit_init, InOrder
    <2>5. isr' = {}
      BY <1>3, <2>1 DEF pit_init
    <2> QED
      BY <1>1, <2>3, <2>4, <2>5, OutsideIInv
  <1>11. CASE boot = 6
    <2>1. keyboard_register /\ boot' = 7
      BY <1>1, <1>2, <1>11 DEF BootStep, BootOrder, TypeParts
    <2>2. /\ handlers' \in [Vectors -> Handlers]
          /\ \A v \in 0 .. 31 : handlers'[v] = handlers[v]
      BY <1>2, <2>1, RegisterFacts DEF keyboard_register, Vectors, Handlers, TypeParts
    <2>3. TypeOK'
      BY <1>1, <1>2, <1>3, <2>1, <2>2, TypePieces DEF keyboard_register, TypeParts
    <2>4. InOrder'
      <3>1. \A v \in 0 .. 31 : handlers'[v] = "exception"
        BY <1>3, <1>11, <2>2 DEF InOrder
      <3> QED
        BY <1>1, <1>3, <2>1, <3>1, <1>11 DEF keyboard_register, InOrder
    <2>5. isr' = {}
      BY <1>3, <2>1 DEF keyboard_register
    <2> QED
      BY <1>1, <2>3, <2>4, <2>5, OutsideIInv
  <1>12. CASE boot = 7
    <2>1. keyboard_read /\ boot' \in {7, 8}
      BY <1>1, <1>2, <1>12 DEF BootStep, BootOrder, TypeParts
    <2>2. TypeOK'
      <3>1. obf' \in BOOLEAN
        BY <2>1, Zenon DEF keyboard_read
      <3>2. boot' \in 0 .. 10
        BY <2>1
      <3> QED
        BY <1>1, <1>2, <2>1, <3>1, <3>2, TypePieces DEF keyboard_read, TypeParts
    <2>3. InOrder'
      BY <1>1, <1>2, <1>3, <2>1, <1>12 DEF keyboard_read, InOrder, TypeParts
    <2>4. isr' = {}
      BY <1>3, <2>1 DEF keyboard_read
    <2> QED
      BY <1>1, <2>2, <2>3, <2>4, OutsideIInv
  <1>13. CASE boot = 8
    <2>1. keyboard_read /\ boot' = 9
      BY <1>1, <1>2, <1>13 DEF BootStep, BootOrder, TypeParts
    <2>2. TypeOK'
      <3>1. obf' \in BOOLEAN
        BY <2>1, Zenon DEF keyboard_read
      <3>2. boot' \in 0 .. 10
        BY <2>1
      <3> QED
        BY <1>1, <1>2, <2>1, <3>1, <3>2, TypePieces DEF keyboard_read, TypeParts
    <2>3. InOrder'
      BY <1>1, <1>2, <1>3, <2>1, <1>13 DEF keyboard_read, InOrder, TypeParts
    <2>4. isr' = {}
      BY <1>3, <2>1 DEF keyboard_read
    <2> QED
      BY <1>1, <2>2, <2>3, <2>4, OutsideIInv
  <1>14. CASE boot = 9
    <2>1. scheduler_enable /\ boot' = 10
      BY <1>1, <1>2, <1>14 DEF BootStep, BootOrder, TypeParts
    <2>2. TypeOK'
      BY <1>1, <1>2, <1>3, <2>1, TypePieces DEF scheduler_enable, TypeParts
    <2>3. InOrder'
      BY <1>1, <1>2, <1>3, <2>1, <1>14 DEF scheduler_enable, InOrder, TypeParts
    <2>4. isr' = {}
      BY <1>3, <2>1 DEF scheduler_enable
    <2> QED
      BY <1>1, <2>2, <2>3, <2>4, OutsideIInv
  <1> QED
    BY <1>4, <1>5, <1>6, <1>7, <1>8, <1>9, <1>10, <1>11, <1>12, <1>13, <1>14

-----------------------------------------------------------------------------
(***************************************************************************)
(* irq_handler, and the return from it.                                    *)
(***************************************************************************)

\* An end of interrupt ends the service of the only line in service.
LEMMA EoiOfOne == \A x \in Int : Eoi({x}) = {x}
  <1> SUFFICES ASSUME NEW x \in Int PROVE Eoi({x}) = {x}
    OBVIOUS
  <1>1. Min({x}) = x
    BY DEF Min
  <1> QED
    BY <1>1 DEF Eoi

\* The acknowledgement of the first entry leaves nothing in service.
LEMMA EoiEmpties ==
    ASSUME NEW e \in Entry, Consistent(e), isr = e.bits
    PROVE  pic_eoi(e.vector) = {}
  <1>1. CASE isr = {}
    BY <1>1 DEF pic_eoi
  <1>2. CASE isr # {}
    <2>1. /\ e.line \in 0 .. 15 /\ e.vector = 32 + e.line
          /\ isr = Bits(e.line) \/ isr = Bits(e.line) \ {e.line}
      BY <1>2 DEF Consistent, Entry
    <2>2. CASE e.line < 8
      <3>1. isr = {e.line}
        BY <1>2, <2>1, <2>2 DEF Bits, Master
      <3>2. FirstPic = {e.line}
        <4>1. e.line \in 0 .. 7
          BY <2>1, <2>2
        <4> QED
          BY <3>1, <4>1, Zenon DEF FirstPic
      <3>3. Eoi(FirstPic) = {e.line}
        BY <2>1, <3>2, EoiOfOne
      <3>4. e.vector \in 32 .. 39
        BY <2>1, <2>2
      <3> QED
        BY <3>1, <3>3, <3>4 DEF pic_eoi
    <2>3. CASE ~(e.line < 8)
      <3>1. Bits(e.line) = {e.line, 2}
        BY <2>1, <2>3 DEF Bits, Master, Cascade
      <3>2. FirstPic = {2}
        BY <2>1, <2>3, <3>1 DEF FirstPic
      <3>3. Eoi(FirstPic) = {2}
        BY <3>2, EoiOfOne
      <3>4. e.vector \in 40 .. 47 /\ e.vector \notin 32 .. 39
        BY <2>1, <2>3
      <3>5. pic_eoi(e.vector) = isr \ ({2} \cup Eoi(SecondPic))
        BY <3>3, <3>4 DEF pic_eoi
      <3>6. CASE isr = {2}
        BY <3>5, <3>6
      <3>7. CASE isr = {e.line, 2}
        <4>1. SecondPic = {e.line}
          <5>1. e.line \in 8 .. 15 /\ 2 \notin 8 .. 15
            BY <2>1, <2>3
          <5> QED
            BY <3>7, <5>1, Zenon DEF SecondPic
        <4>2. Eoi(SecondPic) = {e.line}
          BY <2>1, <4>1, EoiOfOne
        <4> QED
          BY <3>5, <3>7, <4>2
      <3> QED
        BY <2>1, <2>3, <3>1, <3>6, <3>7
    <2> QED
      BY <2>2, <2>3
  <1> QED
    BY <1>1, <1>2

\* A step of the handler on top, which stays on the stack.
LEMMA AdvanceIInv ==
    ASSUME IInv, stack # <<>>, mode = "run", NEW x \in {"acknowledged", "handled"}, Advance(x),
           UNCHANGED <<boot, intr, idt, remapped, handlers, irr, enabled>>,
           obf' \in BOOLEAN, mode' \in {"run", "hlt"},
           isr' = IF Len(stack) = 1 THEN {} ELSE isr,
           Top.vector < 32 /\ x = "handled" => mode' = "hlt"
    PROVE  IInv'
  <1>1. /\ stack \in Seq(Entry)
        /\ stack' = [stack EXCEPT ![Len(stack)] = [stack[Len(stack)] EXCEPT !.step = x]]
    BY DEF IInv, Advance
  <1>a. Advanced(stack, stack', x)
    BY <1>1, AdvanceFacts
  <1>2. /\ stack' \in Seq(Entry) /\ Len(stack') = Len(stack) /\ DOMAIN stack' = DOMAIN stack
        /\ DOMAIN stack = 1 .. Len(stack) /\ Len(stack) \in Nat \ {0}
        /\ 1 \in 1 .. Len(stack) /\ stack' # <<>> /\ Last(stack) = stack[Len(stack)]
        /\ \A i \in 1 .. Len(stack) : i # Len(stack) => stack'[i] = stack[i]
        /\ stack'[Len(stack)].step = x
        /\ \A i \in 1 .. Len(stack) :
              /\ stack'[i].vector = stack[i].vector /\ stack'[i].line = stack[i].line
              /\ stack'[i].bits = stack[i].bits /\ stack'[i].flag = stack[i].flag
    BY <1>a DEF Advanced
  <1>3. /\ stack'[1].vector = stack[1].vector /\ stack'[1].line = stack[1].line
        /\ stack'[1].bits = stack[1].bits /\ stack'[1].flag = stack[1].flag
    BY <1>2
  <1>4. TypeOK'
    <2>1. isr' \subseteq 0 .. 15
      BY TypePieces DEF IInv, TypeParts
    <2> QED
      BY <2>1, TypePieces DEF IInv, TypeParts
  <1>5. InOrder'
    BY <1>2 DEF IInv, InOrder
  <1>6. intr' = FALSE /\ intr = FALSE
    BY TypePieces DEF IInv, HandlersAtomic, TypeParts
  <1>7. HandlersAtomic'
    BY <1>6 DEF HandlersAtomic
  <1>8. Nested'
    BY <1>2 DEF IInv, Nested
  <1>9. First'
    <2>1. Consistent(stack[1]) /\ (stack[1].flag => boot >= 4)
      BY DEF IInv, First
    <2> QED
      BY <1>3, <2>1 DEF First, Consistent, Bits, Master
  <1>10. FirstInService'
    <2>1. CASE Len(stack) = 1
      BY <1>2, <2>1 DEF FirstInService
    <2>2. CASE Len(stack) # 1
      <3>1. stack'[1] = stack[1] /\ isr' = isr
        BY <1>2, <2>2
      <3> QED
        BY <1>2, <3>1 DEF IInv, FirstInService
    <2> QED
      BY <2>1, <2>2
  <1>11. ExceptionIsFinal'
    <2>1. \A i \in 1 .. Len(stack) : ~(stack[i].vector < 32 /\ stack[i].step = "handled")
      BY <1>2 DEF IInv, ExceptionIsFinal
    <2>2. ASSUME NEW i \in DOMAIN stack', stack'[i].vector < 32, stack'[i].step = "handled"
          PROVE  mode' = "hlt"
      <3>1. i = Len(stack)
        BY <1>2, <2>1, <2>2
      <3> QED
        BY <1>2, <2>2, <3>1 DEF Top
    <2> QED
      BY <1>6, <2>2 DEF ExceptionIsFinal
  <1> QED
    BY <1>2, <1>4, <1>5, <1>7, <1>8, <1>9, <1>10, <1>11 DEF IInv

LEMMA AcknowledgeIInv == ASSUME IInv, Acknowledge PROVE IInv'
  <1>1. /\ mode = "run" /\ stack # <<>> /\ Top.step = "entered" /\ Advance("acknowledged")
        /\ isr' = pic_eoi(Top.vector)
        /\ UNCHANGED <<boot, intr, idt, remapped, handlers, irr, obf, enabled, mode>>
    BY DEF Acknowledge, InHandler
  <1>2. /\ stack \in Seq(Entry) /\ Len(stack) \in Nat \ {0} /\ DOMAIN stack = 1 .. Len(stack)
        /\ Top = stack[Len(stack)] /\ Top \in Entry
    BY <1>1, PopFacts DEF IInv, Top
  <1>3. isr' = IF Len(stack) = 1 THEN {} ELSE isr
    <2>1. CASE Len(stack) = 1
      <3>1. isr = Top.bits /\ Consistent(Top)
        BY <1>1, <1>2, <2>1 DEF IInv, First, FirstInService
      <3> QED
        BY <1>1, <1>2, <2>1, <3>1, EoiEmpties
    <2>2. CASE Len(stack) # 1
      <3>1. Top.vector \in Vectors /\ Top.vector < 32
        BY <1>2, <2>2 DEF IInv, Nested, Entry
      <3>2. Top.vector \notin 32 .. 39 /\ Top.vector \notin 40 .. 47
        BY <3>1 DEF Vectors
      <3> QED
        BY <1>1, <2>2, <3>2 DEF pic_eoi
    <2> QED
      BY <2>1, <2>2
  <1>4. obf' \in BOOLEAN /\ mode' \in {"run", "hlt"}
    BY <1>1, TypePieces DEF IInv, TypeParts
  <1> QED
    BY <1>1, <1>3, <1>4, AdvanceIInv

\* Once main has registered them, the exceptions are handled as such.
LEMMA ExceptionHandled ==
    ASSUME IInv, stack # <<>>, NEW v \in Vectors, v < 32
    PROVE  handlers[v] = "exception"
  <1>1. boot \in Nat
    BY TypePieces DEF IInv, TypeParts
  <1>2. boot >= 1
    BY <1>1 DEF IInv, InOrder
  <1>3. v \in 0 .. 31
    BY DEF Vectors
  <1> QED
    BY <1>2, <1>3 DEF IInv, InOrder

LEMMA HandleIInv == ASSUME IInv, Handle PROVE IInv'
  <1>1. /\ mode = "run" /\ stack # <<>> /\ Top.step = "acknowledged" /\ Advance("handled")
        /\ UNCHANGED <<boot, intr, idt, remapped, handlers, irr, isr, enabled>>
    BY DEF Handle, InHandler
  <1>2. /\ stack \in Seq(Entry) /\ Len(stack) \in Nat \ {0} /\ DOMAIN stack = 1 .. Len(stack)
        /\ Top = stack[Len(stack)] /\ Top \in Entry
    BY <1>1, PopFacts DEF IInv, Top
  <1>3. isr' = IF Len(stack) = 1 THEN {} ELSE isr
    BY <1>1, <1>2 DEF IInv, FirstInService
  <1>4. obf \in BOOLEAN
    BY TypePieces DEF IInv, TypeParts
  <1>5. CASE handlers[Top.vector] = "keyboard"
    <2>1. obf' \in BOOLEAN /\ mode' = "run"
      BY <1>5, Zenon DEF Handle, keyboard_handle_irq
    <2>2. ~(Top.vector < 32)
      BY <1>1, <1>2, <1>5, ExceptionHandled DEF Entry
    <2> QED
      BY <1>1, <1>3, <2>1, <2>2, AdvanceIInv
  <1>6. CASE handlers[Top.vector] = "exception"
    <2>1. obf' \in BOOLEAN /\ mode' = "hlt"
      BY <1>4, <1>6 DEF Handle, exceptions_handle_irq
    <2> QED
      BY <1>1, <1>3, <2>1, AdvanceIInv
  <1>7. CASE handlers[Top.vector] \notin {"keyboard", "exception"}
    <2>1. obf' \in BOOLEAN /\ mode' = "run"
      BY <1>1, <1>4, <1>7 DEF Handle
    <2>2. ~(Top.vector < 32)
      BY <1>1, <1>2, <1>7, ExceptionHandled DEF Entry
    <2> QED
      BY <1>1, <1>3, <2>1, <2>2, AdvanceIInv
  <1> QED
    BY <1>5, <1>6, <1>7

\* The end of a handler, with its frame or with that of another context.
LEMMA PopIInv ==
    ASSUME IInv, stack # <<>>, mode = "run", Top.step # "entered", stack' = Front(stack),
           intr' \in BOOLEAN, intr' => Len(stack) = 1 /\ boot >= 4,
           UNCHANGED <<boot, idt, remapped, handlers, irr, isr, obf, enabled, mode>>
    PROVE  IInv'
  <1>1. stack \in Seq(Entry)
    BY DEF IInv
  <1>2. /\ stack' \in Seq(Entry) /\ Len(stack') = Len(stack) - 1
        /\ DOMAIN stack' = 1 .. Len(stack) - 1 /\ DOMAIN stack = 1 .. Len(stack)
        /\ \A i \in 1 .. Len(stack) - 1 : stack'[i] = stack[i]
        /\ Last(stack) = stack[Len(stack)] /\ Len(stack) \in Nat \ {0}
        /\ stack' # <<>> <=> Len(stack) # 1
    BY <1>1, PopFacts
  <1>3. TypeOK'
    BY TypePieces DEF IInv, TypeParts
  <1>4. InOrder'
    BY DEF IInv, InOrder
  <1>5. CASE Len(stack) = 1
    <2>1. stack' = <<>>
      BY <1>2, <1>5
    <2>2. isr' = {}
      BY <1>2, <1>5 DEF IInv, FirstInService, Top
    <2> QED
      BY <1>3, <1>4, <2>1, <2>2, OutsideIInv
  <1>6. CASE Len(stack) # 1
    <2>1. stack' # <<>> /\ stack'[1] = stack[1] /\ ~intr'
      BY <1>2, <1>6
    <2>2. DOMAIN stack' \subseteq DOMAIN stack /\ \A i \in DOMAIN stack' : stack'[i] = stack[i]
      BY <1>2
    <2>3. HandlersAtomic'
      BY <2>1 DEF HandlersAtomic
    <2>4. Nested'
      BY <2>2 DEF IInv, Nested
    <2>5. First'
      BY <2>1 DEF IInv, First, Consistent, Bits, Master
    <2>6. FirstInService'
      BY <2>1 DEF IInv, FirstInService
    <2>7. ExceptionIsFinal'
      BY <2>2 DEF IInv, ExceptionIsFinal
    <2> QED
      BY <1>2, <1>3, <1>4, <2>3, <2>4, <2>5, <2>6, <2>7 DEF IInv
  <1> QED
    BY <1>5, <1>6

LEMMA SwitchIInv == ASSUME IInv, Switch PROVE IInv'
  <1>1. /\ mode = "run" /\ stack # <<>> /\ Top.step # "entered" /\ enabled
        /\ handlers[Top.vector] # "exception" /\ stack' = Front(stack) /\ intr' = TRUE
        /\ UNCHANGED <<boot, idt, remapped, handlers, irr, isr, obf, enabled, mode>>
    BY DEF Switch, InHandler
  <1>2. /\ stack \in Seq(Entry) /\ Len(stack) \in Nat \ {0} /\ DOMAIN stack = 1 .. Len(stack)
        /\ Top = stack[Len(stack)] /\ Top \in Entry
    BY <1>1, PopFacts DEF IInv, Top
  <1>3. ~(Top.vector < 32)
    BY <1>1, <1>2, ExceptionHandled DEF Entry
  <1>4. Len(stack) = 1
    BY <1>2, <1>3 DEF IInv, Nested
  <1>5. boot >= 4
    BY <1>1 DEF IInv, InOrder
  <1>6. intr' \in BOOLEAN
    BY <1>1, Zenon
  <1> QED
    BY <1>1, <1>4, <1>5, <1>6, PopIInv

LEMMA IretIInv == ASSUME IInv, Iret PROVE IInv'
  <1>1. /\ mode = "run" /\ stack # <<>> /\ Top.step # "entered"
        /\ stack' = Front(stack) /\ intr' = Top.flag
        /\ UNCHANGED <<boot, idt, remapped, handlers, irr, isr, obf, enabled, mode>>
    BY DEF Iret, InHandler
  <1>2. /\ stack \in Seq(Entry) /\ Len(stack) \in Nat \ {0} /\ DOMAIN stack = 1 .. Len(stack)
        /\ Top = stack[Len(stack)] /\ Top \in Entry
    BY <1>1, PopFacts DEF IInv, Top
  <1>3. Top.flag \in BOOLEAN
    BY <1>2 DEF Entry
  <1>4. Top.flag => Len(stack) = 1
    BY <1>2 DEF IInv, Nested
  <1>5. Top.flag => boot >= 4
    BY <1>1, <1>2, <1>4 DEF IInv, First
  <1>6. intr' => Len(stack) = 1 /\ boot >= 4
    BY <1>1, <1>4, <1>5
  <1>7. intr' \in BOOLEAN
    BY <1>1, <1>3
  <1> QED
    BY <1>1, <1>6, <1>7, PopIInv

-----------------------------------------------------------------------------
(***************************************************************************)
(* The theorems.                                                           *)
(***************************************************************************)
LEMMA StutterIInv == ASSUME IInv, UNCHANGED vars PROVE IInv'
  <1>1. TypeOK' /\ InOrder' /\ stack' \in Seq(Entry)
    BY TypePieces DEF vars, IInv, TypeParts, InOrder
  <1>2. HandlersAtomic' /\ Nested' /\ First' /\ FirstInService' /\ ExceptionIsFinal'
    BY DEF vars, IInv, HandlersAtomic, Nested, First, FirstInService, ExceptionIsFinal,
           Consistent, Bits, Master
  <1> QED
    BY <1>1, <1>2 DEF IInv

\* The invariant is inductive: every step of a device, of a PIC, of the
\* processor, of main and of a handler keeps it.
THEOREM IInvInvariant == Spec => []IInv
  <1>1. Init => IInv
    BY InitIInv
  <1>2. IInv /\ [Next]_vars => IInv'
    <2> SUFFICES ASSUME IInv, [Next]_vars PROVE IInv'
      OBVIOUS
    <2>1. CASE \E l \in Lines : Raise(l)
      BY <2>1, RaiseIInv
    <2>2. CASE Key
      BY <2>2, KeyIInv
    <2>3. CASE \E l \in Lines \cup {Keyboard} : Deliver(l)
      BY <2>3, DeliverIInv
    <2>4. CASE \E l \in {7, 15} : Spurious(l)
      BY <2>4, SpuriousIInv
    <2>5. CASE \E v \in Faults : Fault(v)
      BY <2>5, FaultIInv
    <2>6. CASE Syscall
      BY <2>6, SyscallIInv
    <2>7. CASE BootStep
      BY <2>7, BootStepIInv
    <2>8. CASE HandlerStep
      BY <2>8, AcknowledgeIInv, HandleIInv, SwitchIInv, IretIInv DEF HandlerStep
    <2>9. CASE AssertFails
      BY <2>9, AssertIInv
    <2>10. CASE UNCHANGED vars
      BY <2>10, StutterIInv
    <2> QED
      BY <2>1, <2>2, <2>3, <2>4, <2>5, <2>6, <2>7, <2>8, <2>9, <2>10 DEF Next
  <1> QED
    BY <1>1, <1>2, PTL DEF Spec

\* The state stays well typed, and the processor never resets: main has loaded
\* the descriptor table before the first interrupt or exception it can take.
THEOREM TypeCorrect == Spec => []TypeOK
  <1>1. IInv => TypeOK
    BY DEF IInv
  <1> QED
    BY <1>1, IInvInvariant, PTL

\* No handler runs with interrupts on, whatever it was entered from, and
\* switches that leave irq_handler for good included.
THEOREM HandlersAtomicSafe == Spec => []HandlersAtomic
  <1>1. IInv => HandlersAtomic
    BY DEF IInv
  <1> QED
    BY <1>1, IInvInvariant, PTL

\* Each device's interrupt comes in at its own vector and pic_eoi ends its own
\* service, cascaded and spurious ones and faults in their handlers included.
THEOREM DispatchedSafe == Spec => []Dispatched
  <1>1. IInv => Dispatched
    <2> SUFFICES ASSUME IInv PROVE Dispatched
      OBVIOUS
    <2>1. stack \in Seq(Entry) /\ DOMAIN stack = 1 .. Len(stack) /\ Len(stack) \in Nat
      BY DEF IInv
    <2>2. \A i \in DOMAIN stack : i # 1 => stack[i].bits = {} /\ stack[i].line = NoLine
      BY DEF IInv, Nested
    <2>3. 1 \in DOMAIN stack <=> stack # <<>>
      BY <2>1
    <2>4. OwnVector
      BY <2>2, <2>3 DEF IInv, First, Consistent, OwnVector
    <2>5. InService
      <3> DEFINE S == UNION {stack[i].bits : i \in {j \in DOMAIN stack : stack[j].step = "entered"}}
      <3>1. CASE 1 \in DOMAIN stack /\ stack[1].step = "entered"
        <4>1. isr = stack[1].bits
          BY <2>3, <3>1 DEF IInv, FirstInService
        <4>2. S = stack[1].bits
          BY <2>2, <3>1
        <4> QED
          BY <4>1, <4>2 DEF InService
      <3>2. CASE ~(1 \in DOMAIN stack /\ stack[1].step = "entered")
        <4>1. isr = {}
          BY <2>3, <3>2 DEF IInv, FirstInService
        <4>2. S = {}
          BY <2>2, <3>2
        <4> QED
          BY <4>1, <4>2 DEF InService
      <3> QED
        BY <3>1, <3>2
    <2> QED
      BY <2>4, <2>5 DEF Dispatched
  <1> QED
    BY <1>1, IInvInvariant, PTL

\* Once exceptions.c has reported an exception the processor stays halted with
\* interrupts off, so that no handler and no process runs after it.
THEOREM ExceptionIsFinalSafe == Spec => []ExceptionIsFinal
  <1>1. IInv => ExceptionIsFinal
    BY DEF IInv
  <1> QED
    BY <1>1, IInvInvariant, PTL

=============================================================================

--------------------------- MODULE DisplayProofs ----------------------------
(***************************************************************************)
(* Proofs about Display, for a screen of any size, with and without        *)
(* interrupts while main prints.                                           *)
(***************************************************************************)
EXTENDS Display, SequenceTheorems, TLAPS

Cell == [code : Text \cup Printing \cup {NUL}, attribute : Attributes \cup {DEFAULT}]

\* Before the cursor is advanced, before it is known to be on the screen again, and
\* after that.
Early   == {"code", "putcode", "attribute", "putattribute", "load", "remainder"}
Ahead   == {"update", "reset"}
Settled == {"shift", "index low", "load low", "out low", "index high", "load high", "out high", "idle"}

Places == Early \cup {"store"} \cup Ahead \cup Settled

\* A place of the buffer, or what is to be advanced, has been computed.
Loaded == {"putcode", "putattribute", "remainder"}

Call == [pc : Places,
         c : Text \cup Printing \cup {NUL, NEWLINE}, attribute : Attributes \cup {DEFAULT},
         t : Nat, i : Nat]

Types ==
    /\ buffer \in [0 .. Size - 1 -> Cell]
    /\ beyond \subseteq Nat /\ cursor \in Nat
    /\ index \in {"shape", "low", "high"} /\ crtc \in [low : Nat, high : Nat]
    /\ call \in [Contexts -> Call]

\* What each context holds at its place in putcf.
Placed(x) ==
    /\ call[x].pc = "idle" => call[x] = Idle
    /\ call[x].pc \in {"code", "putcode", "attribute", "putattribute"} => call[x].c \in Text \cup Printing
    /\ call[x].pc = "shift" => call[x].i < Size

\* main starts from a place on the screen, and by a newline whose two loads differ
\* may go into the row behind it, before it resets the cursor; an echo may find the
\* cursor there, and no further, and leaves it on the screen.
Near ==
    /\ beyond \subseteq Size .. Size + Width - 1
    /\ call["main"].pc \in Loaded => call["main"].t < Size
    /\ call["main"].pc = "store" => call["main"].t < Size + Width
    /\ call["irq"].pc \in Loaded => call["irq"].t < Size + Width
    /\ call["irq"].pc \notin Ahead => cursor < Size + Width
    /\ call["irq"].pc \in Settled /\ call["main"].pc \notin Ahead => cursor < Size

\* Without interrupts one context prints at a time.
Alone ==
    /\ call["main"] = Idle \/ call["irq"] = Idle
    /\ beyond = {}
    /\ \A x \in Contexts : /\ call[x].pc \in Early => cursor < Size
                           /\ call[x].pc \in Loaded => call[x].t = cursor

\* The register that is selected, and the half of the cursor that is loaded or
\* shown already.
Halves(x) ==
    /\ call[x].pc \in {"load low", "out low"} => index = "low"
    /\ call[x].pc \in {"load high", "out high"} => index = "high"
    /\ call[x].pc = "out low" => call[x].t = cursor % Byte
    /\ call[x].pc = "out high" => call[x].t = cursor \div Byte
    /\ call[x].pc \in {"index high", "load high", "out high"} => crtc.low = cursor % Byte

Shown == CursorShown /\ \A x \in Contexts : Halves(x)

DInv ==
    /\ Types /\ (\A x \in Contexts : Placed(x)) /\ Near
    /\ ~Interruptible => Alone /\ Shown

-----------------------------------------------------------------------------
(***************************************************************************)
(* Arithmetic of places.                                                   *)
(***************************************************************************)
LEMMA Division ==
    ASSUME NEW a \in Nat, NEW b \in Nat, b > 0
    PROVE  /\ a = b * (a \div b) + (a % b)
           /\ a \div b \in Nat /\ a % b \in Nat /\ a % b < b
  OBVIOUS

\* Factors are ordered as their products are.
LEMMA Factor ==
    ASSUME NEW b \in Nat, NEW m \in Nat, NEW n \in Nat, m < n
    PROVE  b * m + b <= b * n
  <1>1. PICK k \in Nat : n = m + 1 + k
    <2>1. n - m - 1 \in Nat /\ n = m + 1 + (n - m - 1)
      OBVIOUS
    <2> QED
      BY <2>1
  <1>2. b * n = b * m + b + b * k
    BY <1>1
  <1>3. b * k >= 0
    OBVIOUS
  <1> QED
    BY <1>2, <1>3

LEMMA SizeFacts ==
    ASSUME DisplayAssumption
    PROVE  /\ Width \in Nat /\ Width > 0 /\ Height \in Nat /\ Height > 0 /\ Byte \in Nat /\ Byte > 0
           /\ Size \in Nat /\ Size > 0
           /\ Width * (Height - 1) \in Nat /\ Width * (Height - 1) + Width = Size
  <1>1. Width \in Nat /\ Width > 0 /\ Height \in Nat /\ Height > 0 /\ Byte \in Nat /\ Byte > 0
    BY DEF DisplayAssumption
  <1>2. Height - 1 \in Nat
    BY <1>1
  <1>3. Width * (Height - 1) \in Nat /\ Width * (Height - 1) + Width = Width * Height
    BY <1>1, <1>2
  <1> QED
    BY <1>1, <1>3 DEF Size

\* A newline goes forward, by a row at most.
LEMMA AdvancedFacts ==
    ASSUME DisplayAssumption, cursor \in Nat, NEW x, call[x].t \in Nat
    PROVE  Advanced(x) \in Nat /\ (call[x].t < Size => Advanced(x) < Size + Width)
  <1> DEFINE r == cursor % Width
             t == call[x].t
  <1>1. r \in Nat /\ r < Width /\ Width \in Nat /\ Size \in Nat /\ t \in Nat
    BY SizeFacts, Division
  <1>2. Advanced(x) = t + Width - r
    BY DEF Advanced
  <1> HIDE DEF r, t
  <1>3. t + Width - r \in Nat /\ (t < Size => t + Width - r < Size + Width \/ r = 0)
    BY <1>1
  <1>4. t < Size => t + Width - r < Size + Width
    BY <1>1
  <1> QED
    BY <1>2, <1>3, <1>4 DEF t

-----------------------------------------------------------------------------
(***************************************************************************)
(* The steps of putcf.                                                     *)
(***************************************************************************)

\* A context goes on; the other stays where it is.
LEMMA CallFacts ==
    ASSUME Types, NEW x \in Contexts, NEW new \in Call, call' = [call EXCEPT ![x] = new]
    PROVE  /\ call' \in [Contexts -> Call] /\ call'[x] = new
           /\ \A y \in Contexts : y # x => call'[y] = call[y]
  BY DEF Types

LEMMA IdleFacts ==
    Idle \in Call /\ Idle.pc = "idle" /\ Idle.t = 0 /\ Idle.i = 0 /\ Idle.c = NUL
  BY DEF Idle, Call, Places, Settled, DEFAULT

LEMMA DInvInit == DisplayAssumption /\ Init => DInv
  <1> SUFFICES ASSUME DisplayAssumption, Init PROVE DInv
    OBVIOUS
  <1>1. \A x \in Contexts : call[x] = Idle
    BY DEF Init
  <1>2. Types
    <2>1. call \in [Contexts -> Call]
      BY IdleFacts DEF Init
    <2>2. Blank \in Cell
      BY DEF Blank, Cell
    <2>3. crtc \in [low : Nat, high : Nat]
      BY DEF Init
    <2> QED
      BY <2>1, <2>2, <2>3 DEF Init, Types
  <1>3. \A x \in Contexts : Placed(x)
    BY <1>1, IdleFacts DEF Placed
  <1>4. Near
    BY <1>1, IdleFacts, SizeFacts DEF Near, Init, Contexts, Loaded
  <1>5. Alone
    BY <1>1, IdleFacts DEF Alone, Init, Contexts, Early, Loaded
  <1>6. Shown
    BY <1>1, IdleFacts DEF Shown, CursorShown, Halves, Init
  <1> QED
    BY <1>2, <1>3, <1>4, <1>5, <1>6 DEF DInv

\* Goto changes nothing but the place.
LEMMA JumpFacts ==
    ASSUME Types, NEW x \in Contexts, NEW next \in Places,
           Goto(x, next)
    PROVE  /\ call' \in [Contexts -> Call]
           /\ call'[x].pc = next /\ call'[x].t = call[x].t /\ call'[x].i = call[x].i
           /\ call'[x].c = call[x].c /\ call'[x].attribute = call[x].attribute
           /\ \A y \in Contexts : y # x => call'[y] = call[y]
  <1> DEFINE new == [call[x] EXCEPT !.pc = next]
  <1>1. call[x] \in Call /\ call \in [Contexts -> Call]
    BY DEF Types
  <1>2. /\ new \in Call /\ new.pc = next /\ new.t = call[x].t /\ new.i = call[x].i
        /\ new.c = call[x].c /\ new.attribute = call[x].attribute
    BY <1>1 DEF Call
  <1>3. call' = [call EXCEPT ![x] = new]
    BY <1>1 DEF Goto
  <1> HIDE DEF new
  <1> QED
    BY <1>2, <1>3, CallFacts

\* A step that computes in a register.
LEMMA LoadFacts ==
    ASSUME Types, NEW x \in Contexts, NEW p, NEW next \in Places, NEW v \in Nat, Load(x, p, next, v)
    PROVE  /\ At(x, p) /\ call' \in [Contexts -> Call]
           /\ call'[x].pc = next /\ call'[x].t = v /\ call'[x].i = call[x].i
           /\ call'[x].c = call[x].c /\ call'[x].attribute = call[x].attribute
           /\ \A y \in Contexts : y # x => call'[y] = call[y]
           /\ buffer' = buffer /\ beyond' = beyond /\ cursor' = cursor /\ index' = index
           /\ crtc' = crtc /\ old' = old
  <1> DEFINE new == [call[x] EXCEPT !.pc = next, !.t = v]
  <1>1. call[x] \in Call /\ call \in [Contexts -> Call]
    BY DEF Types
  <1>2. /\ new \in Call /\ new.pc = next /\ new.t = v /\ new.i = call[x].i
        /\ new.c = call[x].c /\ new.attribute = call[x].attribute
    BY <1>1 DEF Call
  <1>3. call' = [call EXCEPT ![x] = new]
    BY <1>1 DEF Load
  <1> HIDE DEF new
  <1>4. /\ call' \in [Contexts -> Call] /\ call'[x] = new
        /\ \A y \in Contexts : y # x => call'[y] = call[y]
    BY <1>2, <1>3, CallFacts
  <1>5. /\ At(x, p) /\ buffer' = buffer /\ beyond' = beyond /\ cursor' = cursor /\ index' = index
        /\ crtc' = crtc /\ old' = old
    BY DEF Load
  <1> QED
    BY <1>2, <1>4, <1>5

\* The cursor when a context that does not shift the screen is about to go on.
LEMMA AtFacts ==
    ASSUME DisplayAssumption, DInv, NEW x \in Contexts, NEW p, At(x, p)
    PROVE  /\ Types /\ Near /\ (\A y \in Contexts : Placed(y)) /\ call[x].pc = p /\ call[x] \in Call
           /\ x = "main" => call["irq"] = Idle /\ call["irq"].pc = "idle"
           /\ x = "main" /\ p \notin Ahead => cursor < Size
           /\ x = "main" => cursor < Size + Width
           /\ x = "irq" /\ p \notin Ahead => cursor < Size + Width
           /\ x \in {"main", "irq"} /\ cursor \in Nat /\ Size \in Nat /\ Width \in Nat /\ Width > 0
  <1>1. Types /\ Near /\ (\A y \in Contexts : Placed(y)) /\ call[x].pc = p
    BY DEF DInv, At
  <1>2. x = "main" => call["irq"] = Idle /\ call["irq"].pc = "idle"
    BY IdleFacts DEF At
  <1>3. x \in {"main", "irq"} /\ cursor \in Nat /\ call[x] \in Call
    BY <1>1 DEF Contexts, Types
  <1>4. "idle" \in Settled /\ "idle" \notin Ahead
    BY DEF Settled, Ahead
  <1> QED
    BY <1>1, <1>2, <1>3, <1>4, SizeFacts DEF Near

\* A store at the place that was loaded.
LEMMA StoreFacts ==
    ASSUME DisplayAssumption, Types, Near, NEW k \in Nat, k < Size + Width, NEW cell \in Cell, Store(k, cell)
    PROVE  /\ buffer' \in [0 .. Size - 1 -> Cell]
           /\ beyond' \subseteq Size .. Size + Width - 1 /\ beyond' \subseteq Nat
           /\ k < Size => beyond' = beyond
  <1>1. /\ Size \in Nat /\ Width \in Nat /\ buffer \in [0 .. Size - 1 -> Cell]
        /\ beyond \subseteq Size .. Size + Width - 1 /\ beyond \subseteq Nat
    BY SizeFacts DEF Types, Near
  <1>2. CASE k < Size
    <2>1. buffer' = [buffer EXCEPT ![k] = cell] /\ beyond' = beyond
      BY <1>2 DEF Store
    <2> QED
      BY <1>1, <1>2, <2>1
  <1>3. CASE ~(k < Size)
    <2>1. buffer' = buffer /\ beyond' = beyond \cup {k}
      BY <1>1, <1>3 DEF Store
    <2>2. k \in Size .. Size + Width - 1
      BY <1>1, <1>3
    <2> QED
      BY <1>1, <1>3, <2>1, <2>2
  <1> QED
    BY <1>2, <1>3

\* The place that is stored to.
LEMMA PlaceFacts ==
    ASSUME DisplayAssumption, DInv, NEW x \in Contexts, NEW p \in {"putcode", "putattribute"}, At(x, p)
    PROVE  /\ call[x].t \in Nat /\ call[x].t < Size + Width
           /\ ~Interruptible => call[x].t = cursor /\ cursor < Size
           /\ CellAt(call[x].t) \in Cell
  <1> DEFINE t == call[x].t
  <1>1. /\ Types /\ Near /\ call[x].pc = p /\ call[x] \in Call /\ x \in {"main", "irq"}
        /\ cursor \in Nat /\ Size \in Nat /\ Width \in Nat
    BY AtFacts
  <1>2. p \in Loaded /\ p \in Early
    BY DEF Loaded, Early
  <1>3. t \in Nat
    BY <1>1 DEF Call
  <1>4. t < Size \/ t < Size + Width
    BY <1>1, <1>2 DEF Near
  <1>5. ~Interruptible => t = cursor /\ cursor < Size
    BY <1>1, <1>2 DEF DInv, Alone
  <1>6. Blank \in Cell
    BY DEF Blank, Cell
  <1> HIDE DEF t
  <1>7. t < Size + Width
    BY <1>1, <1>3, <1>4
  <1>8. CellAt(t) \in Cell
    BY <1>1, <1>3, <1>6 DEF CellAt, Types
  <1> QED
    BY <1>3, <1>5, <1>7, <1>8 DEF t

\* What a step inside putcf has to show of a context that goes on before the
\* cursor is advanced.
LEMMA EarlyStep ==
    ASSUME DisplayAssumption, DInv, NEW x \in Contexts, NEW p \in Early, At(x, p),
           NEW next \in Early \cup {"store"},
           buffer' \in [0 .. Size - 1 -> Cell],
           beyond' \subseteq Size .. Size + Width - 1, beyond' \subseteq Nat,
           ~Interruptible => beyond' = beyond,
           cursor' = cursor, index' = index, crtc' = crtc,
           call' \in [Contexts -> Call], call'[x].pc = next, Placed(x)',
           next \in Loaded => call'[x].t = cursor,
           next = "store" /\ x = "main" => call'[x].t < Size + Width,
           \A y \in Contexts : y # x => call'[y] = call[y]
    PROVE  DInv'
  <1>0. p \notin Ahead /\ next \notin Ahead /\ next \notin Settled /\ next # "idle" /\ p # "idle"
    BY DEF Early, Ahead, Settled
  <1>1. /\ Types /\ Near /\ (\A y \in Contexts : Placed(y)) /\ call[x].pc = p /\ call[x] \in Call
        /\ x = "main" => call["irq"] = Idle /\ call["irq"].pc = "idle"
        /\ x = "main" => cursor < Size
        /\ cursor < Size + Width
        /\ x \in {"main", "irq"} /\ cursor \in Nat /\ Size \in Nat
    BY <1>0, AtFacts
  <1>2. Types'
    BY <1>1 DEF Types
  <1>3. ASSUME NEW y \in Contexts PROVE Placed(y)'
    <2>1. CASE y = x
      BY <2>1
    <2>2. CASE y # x
      BY <1>1, <2>2 DEF Placed
    <2> QED
      BY <2>1, <2>2
  <1>4. Near'
    <2>1. CASE x = "main"
      <3>1. call'["irq"] = call["irq"] /\ call'["main"].pc = next
        BY <2>1 DEF Contexts
      <3>2. "idle" \notin Loaded
        BY DEF Loaded
      <3> QED
        BY <1>1, <2>1, <3>1, <3>2 DEF Near
    <2>2. CASE x = "irq"
      <3>1. call'["main"] = call["main"] /\ call'["irq"].pc = next
        BY <2>2 DEF Contexts
      <3> QED
        BY <1>0, <1>1, <2>2, <3>1 DEF Near
    <2> QED
      BY <1>1, <2>1, <2>2
  <1>5. ASSUME ~Interruptible PROVE Alone' /\ Shown'
    <2>1. Alone /\ Shown
      BY <1>5 DEF DInv
    <2>2. cursor < Size
      BY <1>1, <2>1 DEF Alone
    <2>3. \A y \in Contexts : y # x => call[y] = Idle
      BY <1>0, <1>1, <2>1, IdleFacts DEF Alone, Contexts
    <2>4. Alone'
      <3>1. ASSUME NEW y \in Contexts
            PROVE  /\ call'[y].pc \in Early => cursor' < Size
                   /\ call'[y].pc \in Loaded => call'[y].t = cursor'
        <4>1. y # x => call'[y].pc = "idle" /\ "idle" \notin Loaded
          BY <2>3, IdleFacts DEF Loaded
        <4> QED
          BY <2>2, <4>1
      <3>2. beyond' = {}
        BY <1>5, <2>1 DEF Alone
      <3>3. call'["main"] = Idle \/ call'["irq"] = Idle
        BY <1>1, <2>3 DEF Contexts
      <3> QED
        BY <3>1, <3>2, <3>3 DEF Alone
    <2>5. Shown'
      <3>1. CursorShown'
        BY <1>0, IdleFacts DEF CursorShown, AllIdle
      <3>2. ASSUME NEW y \in Contexts PROVE Halves(y)'
        <4>1. CASE y = x
          BY <1>0, <4>1 DEF Halves, Settled
        <4>2. CASE y # x
          BY <2>3, <4>2, IdleFacts DEF Halves
        <4> QED
          BY <4>1, <4>2
      <3> QED
        BY <3>1, <3>2 DEF Shown
    <2> QED
      BY <2>4, <2>5
  <1> QED
    BY <1>2, <1>3, <1>4, <1>5 DEF DInv

LEMMA StoreCodeStep ==
    ASSUME DisplayAssumption, DInv, NEW x \in Contexts, StoreCode(x)
    PROVE  DInv'
  <1> DEFINE t == call[x].t
  <1>1. At(x, "putcode") /\ Goto(x, "attribute") /\ cursor' = cursor /\ index' = index /\ crtc' = crtc
    BY DEF StoreCode
  <1>2. Types /\ Near /\ Placed(x) /\ call[x].pc = "putcode" /\ Size \in Nat
    BY <1>1, AtFacts
  <1>3. /\ t \in Nat /\ t < Size + Width /\ (~Interruptible => t = cursor /\ cursor < Size)
        /\ CellAt(t) \in Cell
    BY <1>1, PlaceFacts
  <1> DEFINE cell == [CellAt(t) EXCEPT !.code = call[x].c]
  <1>4. call[x].c \in Text \cup Printing
    BY <1>2 DEF Placed
  <1>5. cell \in Cell
    BY <1>3, <1>4 DEF Cell
  <1>6. Store(t, cell)
    BY DEF StoreCode
  <1> HIDE DEF cell
  <1>7. /\ buffer' \in [0 .. Size - 1 -> Cell] /\ beyond' \subseteq Size .. Size + Width - 1
        /\ beyond' \subseteq Nat /\ (t < Size => beyond' = beyond)
    BY <1>2, <1>3, <1>5, <1>6, StoreFacts
  <1>8. ~Interruptible => beyond' = beyond
    BY <1>3, <1>7
  <1>9. "putcode" \in Early /\ "attribute" \in Early \cup {"store"} /\ "attribute" \in Places
    BY DEF Early, Places
  <1>10. /\ call' \in [Contexts -> Call] /\ call'[x].pc = "attribute" /\ call'[x].c = call[x].c
         /\ \A y \in Contexts : y # x => call'[y] = call[y]
    BY <1>1, <1>2, <1>9, JumpFacts
  <1>11. Placed(x)' /\ "attribute" \notin Loaded
    BY <1>4, <1>10 DEF Placed, Loaded
  <1> QED
    BY <1>1, <1>7, <1>8, <1>9, <1>10, <1>11, EarlyStep

LEMMA StoreAttributeStep ==
    ASSUME DisplayAssumption, DInv, NEW x \in Contexts, StoreAttribute(x)
    PROVE  DInv'
  <1> DEFINE t == call[x].t
  <1>1. At(x, "putattribute") /\ Goto(x, "load") /\ cursor' = cursor /\ index' = index /\ crtc' = crtc
    BY DEF StoreAttribute
  <1>2. Types /\ Near /\ call[x] \in Call /\ Size \in Nat
    BY <1>1, AtFacts
  <1>3. /\ t \in Nat /\ t < Size + Width /\ (~Interruptible => t = cursor /\ cursor < Size)
        /\ CellAt(t) \in Cell
    BY <1>1, PlaceFacts
  <1> DEFINE cell == [CellAt(t) EXCEPT !.attribute = call[x].attribute]
  <1>4. call[x].attribute \in Attributes \cup {DEFAULT}
    BY <1>2 DEF Call
  <1>5. cell \in Cell
    BY <1>3, <1>4 DEF Cell
  <1>6. Store(t, cell)
    BY DEF StoreAttribute
  <1> HIDE DEF cell
  <1>7. /\ buffer' \in [0 .. Size - 1 -> Cell] /\ beyond' \subseteq Size .. Size + Width - 1
        /\ beyond' \subseteq Nat /\ (t < Size => beyond' = beyond)
    BY <1>2, <1>3, <1>5, <1>6, StoreFacts
  <1>8. ~Interruptible => beyond' = beyond
    BY <1>3, <1>7
  <1>9. "putattribute" \in Early /\ "load" \in Early \cup {"store"} /\ "load" \in Places
    BY DEF Early, Places
  <1>10. /\ call' \in [Contexts -> Call] /\ call'[x].pc = "load"
         /\ \A y \in Contexts : y # x => call'[y] = call[y]
    BY <1>1, <1>2, <1>9, JumpFacts
  <1>11. Placed(x)' /\ "load" \notin Loaded
    BY <1>10 DEF Placed, Loaded
  <1> QED
    BY <1>1, <1>7, <1>8, <1>9, <1>10, <1>11, EarlyStep

LEMMA LoadCursorStep ==
    ASSUME DisplayAssumption, DInv, NEW x \in Contexts, LoadCursor(x)
    PROVE  DInv'
  <1>1. ASSUME NEW p \in Early, NEW next \in Early \cup {"store"}, NEW v \in Nat, Load(x, p, next, v),
               next \in Loaded => v = cursor, next = "store" /\ x = "main" => v < Size + Width,
               next \in {"code", "putcode", "attribute", "putattribute"} => call[x].c \in Text \cup Printing
        PROVE  DInv'
    <2>0. Types /\ next \in Places
      BY DEF DInv, Places
    <2>1. /\ At(x, p) /\ call' \in [Contexts -> Call]
          /\ call'[x].pc = next /\ call'[x].t = v /\ call'[x].c = call[x].c
          /\ \A y \in Contexts : y # x => call'[y] = call[y]
          /\ buffer' = buffer /\ beyond' = beyond /\ cursor' = cursor /\ index' = index /\ crtc' = crtc
      BY <1>1, <2>0, LoadFacts
    <2>2. next # "idle" /\ next # "shift"
      BY DEF Early
    <2>3. Placed(x)'
      BY <1>1, <2>1, <2>2 DEF Placed
    <2>4. /\ buffer' \in [0 .. Size - 1 -> Cell] /\ beyond' \subseteq Size .. Size + Width - 1
          /\ beyond' \subseteq Nat
      BY <2>1 DEF DInv, Types, Near
    <2> QED
      BY <1>1, <2>1, <2>3, <2>4, EarlyStep
  <1>2. /\ Types /\ Near /\ Placed(x) /\ cursor \in Nat /\ Size \in Nat /\ Width \in Nat /\ Width > 0
        /\ call[x] \in Call
    BY SizeFacts DEF DInv, Types
  <1>3. CASE Load(x, "code", "putcode", cursor)
    <2>1. call[x].c \in Text \cup Printing
      BY <1>2, <1>3 DEF Load, At, Placed
    <2> QED
      BY <1>1, <1>2, <1>3, <2>1 DEF Early
  <1>4. CASE Load(x, "attribute", "putattribute", cursor)
    <2>1. call[x].c \in Text \cup Printing
      BY <1>2, <1>4 DEF Load, At, Placed
    <2> QED
      BY <1>1, <1>2, <1>4, <2>1 DEF Early
  <1>5. CASE Load(x, "load", "store", cursor + 1)
    <2>1. At(x, "load")
      BY <1>5 DEF Load
    <2>2. x = "main" => cursor < Size
      BY <2>1, AtFacts DEF Ahead
    <2>3. cursor + 1 \in Nat /\ (x = "main" => cursor + 1 < Size + Width)
      BY <1>2, <2>2
    <2> QED
      BY <1>1, <1>5, <2>3 DEF Early, Loaded
  <1>6. CASE Load(x, "load", "remainder", cursor)
    BY <1>1, <1>2, <1>6 DEF Early
  <1>7. CASE Load(x, "remainder", "store", Advanced(x))
    <2>1. call[x].pc = "remainder" /\ call[x].t \in Nat
      BY <1>2, <1>7 DEF Load, At, Call
    <2>2. x = "main" => call[x].t < Size
      BY <1>2, <2>1 DEF Near, Loaded
    <2>3. Advanced(x) \in Nat /\ (x = "main" => Advanced(x) < Size + Width)
      BY <1>2, <2>1, <2>2, AdvancedFacts
    <2> QED
      BY <1>1, <1>7, <2>3 DEF Early, Loaded
  <1> QED
    BY <1>3, <1>4, <1>5, <1>6, <1>7 DEF LoadCursor

\* What a step has to show of a context that has advanced the cursor.
LEMMA LaterStep ==
    ASSUME DisplayAssumption, DInv, NEW x \in Contexts,
           NEW p \in {"store"} \cup Ahead \cup (Settled \ {"idle"}), At(x, p),
           NEW next \in Ahead \cup Settled,
           buffer' \in [0 .. Size - 1 -> Cell], beyond' = beyond, cursor' \in Nat,
           index' \in {"shape", "low", "high"}, crtc' \in [low : Nat, high : Nat],
           call' \in [Contexts -> Call], call'[x].pc = next,
           \A y \in Contexts : y # x => call'[y] = call[y],
           Placed(x)',
           next \in Ahead /\ x = "main" => cursor' < Size + Width,
           next \in Settled => cursor' < Size \/ (cursor' = cursor /\ p \in Settled),
           (\A y \in Contexts : y # x => call[y] = Idle) /\ Shown => Halves(x)' /\ CursorShown'
    PROVE  DInv'
  <1>1. /\ Types /\ Near /\ (\A y \in Contexts : Placed(y)) /\ call[x].pc = p /\ call[x] \in Call
        /\ x = "main" => call["irq"] = Idle /\ call["irq"].pc = "idle"
        /\ x = "main" /\ p \notin Ahead => cursor < Size
        /\ x = "irq" /\ p \notin Ahead => cursor < Size + Width
        /\ x \in {"main", "irq"} /\ cursor \in Nat /\ Size \in Nat /\ Width \in Nat /\ Width > 0
    BY AtFacts
  <1>2. Types'
    BY <1>1 DEF Types
  <1>3. ASSUME NEW y \in Contexts PROVE Placed(y)'
    <2>1. CASE y # x
      BY <1>1, <2>1 DEF Placed
    <2> QED
      BY <2>1
  <1>0. /\ next \notin Early /\ next \notin Loaded /\ next # "store" /\ (next \in Settled => next \notin Ahead)
        /\ (p \in Settled => p \notin Ahead) /\ p # "idle" /\ "idle" \in Settled
        /\ "idle" \notin Early \cup Loaded
    BY DEF Early, Settled, Ahead, Loaded
  <1>4. Near'
    <2>0. /\ beyond' \subseteq Size .. Size + Width - 1
      BY <1>1 DEF Near
    <2>1. CASE x = "main"
      <3>1. call'["irq"] = call["irq"] /\ call'["main"].pc = next
        BY <2>1 DEF Contexts
      <3>2. cursor' < Size + Width /\ (next \notin Ahead => cursor' < Size)
        BY <1>0, <1>1, <2>1
      <3> QED
        BY <1>0, <1>1, <2>0, <2>1, <3>1, <3>2 DEF Near
    <2>2. CASE x = "irq"
      <3>1. call'["main"] = call["main"] /\ call'["irq"].pc = next /\ call["irq"].pc = p
        BY <1>1, <2>2 DEF Contexts
      <3>2. next \notin Ahead => cursor' < Size + Width
        BY <1>0, <1>1, <2>2
      <3>3. next \in Settled /\ call["main"].pc \notin Ahead => cursor' < Size
        BY <1>1, <3>1 DEF Near
      <3> QED
        BY <1>0, <1>1, <2>0, <2>2, <3>1, <3>2, <3>3 DEF Near
    <2> QED
      BY <1>1, <2>1, <2>2
  <1>5. ASSUME ~Interruptible PROVE Alone' /\ Shown'
    <2>1. Alone /\ Shown
      BY <1>5 DEF DInv
    <2>3. \A y \in Contexts : y # x => call[y] = Idle
      BY <1>0, <1>1, <2>1, IdleFacts DEF Alone, Contexts
    <2>4. Alone'
      <3>1. ASSUME NEW y \in Contexts PROVE call'[y].pc \notin Early /\ call'[y].pc \notin Loaded
        <4>1. y # x => call'[y].pc = "idle"
          BY <2>3, IdleFacts
        <4> QED
          BY <1>0, <4>1
      <3>2. beyond' = {}
        BY <2>1 DEF Alone
      <3>3. call'["main"] = Idle \/ call'["irq"] = Idle
        BY <1>1, <2>3 DEF Contexts
      <3> QED
        BY <3>1, <3>2, <3>3 DEF Alone
    <2>5. ASSUME NEW y \in Contexts PROVE Halves(y)'
      <3>1. CASE y # x
        BY <2>3, <3>1, IdleFacts DEF Halves
      <3> QED
        BY <2>1, <2>3, <3>1
    <2> QED
      BY <2>1, <2>3, <2>4, <2>5 DEF Shown
  <1> QED
    BY <1>2, <1>3, <1>4, <1>5 DEF DInv

LEMMA StoreCursorStep ==
    ASSUME DisplayAssumption, DInv, NEW x \in Contexts, StoreCursor(x)
    PROVE  DInv'
  <1>1. /\ At(x, "store") /\ Goto(x, "update") /\ cursor' = call[x].t /\ index' = index
        /\ crtc' = crtc /\ buffer' = buffer /\ beyond' = beyond
    BY DEF StoreCursor
  <1>2. Types /\ Near /\ call[x].pc = "store" /\ call[x] \in Call
    BY <1>1, AtFacts
  <1>3. "update" \notin Settled /\ "update" \in Ahead /\ "update" \in Places
    BY DEF Settled, Ahead, Places
  <1>4. /\ call' \in [Contexts -> Call] /\ call'[x].pc = "update"
        /\ \A y \in Contexts : y # x => call'[y] = call[y]
    BY <1>1, <1>2, <1>3, JumpFacts
  <1>5. cursor' \in Nat /\ (x = "main" => cursor' < Size + Width)
    BY <1>1, <1>2 DEF Call, Near
  <1>6. Placed(x)' /\ Halves(x)' /\ CursorShown'
    BY <1>4, IdleFacts DEF Placed, Halves, CursorShown, AllIdle
  <1> QED
    BY <1>1, <1>2, <1>3, <1>4, <1>5, <1>6, LaterStep DEF Types

LEMMA CheckFullStep ==
    ASSUME DisplayAssumption, DInv, NEW x \in Contexts, CheckFull(x)
    PROVE  DInv'
  <1> DEFINE next == IF Full THEN "reset" ELSE "index low"
  <1>1. /\ At(x, "update") /\ Goto(x, next) /\ cursor' = cursor /\ index' = index
        /\ crtc' = crtc /\ buffer' = buffer /\ beyond' = beyond
    BY DEF CheckFull
  <1>2. /\ Types /\ call[x].pc = "update" /\ cursor \in Nat /\ Size \in Nat
        /\ (x = "main" => cursor < Size + Width)
    BY <1>1, AtFacts
  <1>3. /\ next \in Ahead \cup Settled /\ next \in Places /\ next \in {"reset", "index low"}
        /\ "update" \in Ahead
    BY DEF Settled, Ahead, Places
  <1>4. next \in Settled => cursor' < Size
    <2>1. next \in Settled => ~Full
      BY DEF Settled
    <2> HIDE DEF next
    <2> QED
      BY <1>1, <1>2, <2>1 DEF Full
  <1> HIDE DEF next
  <1>5. /\ call' \in [Contexts -> Call] /\ call'[x].pc = next
        /\ \A y \in Contexts : y # x => call'[y] = call[y]
    BY <1>1, <1>2, <1>3, JumpFacts
  <1>6. Placed(x)' /\ Halves(x)' /\ CursorShown'
    BY <1>3, <1>5, IdleFacts DEF Placed, Halves, CursorShown, AllIdle
  <1> QED
    BY <1>1, <1>2, <1>3, <1>4, <1>5, <1>6, LaterStep DEF Types

LEMMA ResetCursorStep ==
    ASSUME DisplayAssumption, DInv, NEW x \in Contexts, ResetCursor(x)
    PROVE  DInv'
  <1> DEFINE new == [call[x] EXCEPT !.pc = "shift", !.i = 0]
  <1>1. /\ At(x, "reset") /\ index' = index /\ crtc' = crtc /\ buffer' = buffer /\ beyond' = beyond
        /\ cursor' = Width * (Height - 1)
        /\ call' = [call EXCEPT ![x].pc = "shift", ![x].i = 0]
    BY DEF ResetCursor
  <1>2. /\ Types /\ call[x].pc = "reset" /\ call[x] \in Call /\ Size \in Nat /\ Size > 0
    BY <1>1, AtFacts, SizeFacts
  <1>3. "shift" \in Settled /\ "shift" \notin Ahead /\ "reset" \in Ahead /\ "shift" \in Places
    BY DEF Settled, Ahead, Places
  <1>4. call' = [call EXCEPT ![x] = new]
    BY <1>1, <1>2 DEF Types
  <1>5. cursor' \in Nat /\ cursor' < Size
    <2> DEFINE w == Width * (Height - 1)
    <2>1. w \in Nat /\ w + Width = Size /\ Width \in Nat /\ Width > 0
      BY SizeFacts
    <2> HIDE DEF w
    <2>2. cursor' = w
      BY <1>1 DEF w
    <2> QED
      BY <1>2, <2>1, <2>2
  <1>6. new \in Call /\ new.pc = "shift" /\ new.i = 0
    BY <1>2, <1>3 DEF Call
  <1> HIDE DEF new
  <1>7. /\ call' \in [Contexts -> Call] /\ call'[x] = new
        /\ \A y \in Contexts : y # x => call'[y] = call[y]
    BY <1>2, <1>4, <1>6, CallFacts
  <1>8. Placed(x)' /\ Halves(x)' /\ CursorShown'
    <2>1. call'[x] # Idle
      BY <1>6, <1>7, IdleFacts
    <2> QED
      BY <1>2, <1>6, <1>7, <2>1 DEF Placed, Halves, CursorShown, AllIdle
  <1> QED
    BY <1>1, <1>2, <1>3, <1>5, <1>6, <1>7, <1>8, LaterStep DEF Types

LEMMA ShiftCellStep ==
    ASSUME DisplayAssumption, DInv, NEW x \in Contexts, ShiftCell(x)
    PROVE  DInv'
  <1> DEFINE k    == call[x].i
             next == IF k + 1 = Size THEN "index low" ELSE "shift"
             n    == k + 1
             new  == [call[x] EXCEPT !.pc = next, !.i = n]
  <1>1. /\ At(x, "shift") /\ index' = index /\ crtc' = crtc /\ cursor' = cursor /\ beyond' = beyond
        /\ buffer' = [buffer EXCEPT ![k] = Shifted(k)]
        /\ call' = [call EXCEPT ![x].pc = next, ![x].i = k + 1]
    BY DEF ShiftCell
  <1>2. /\ Types /\ call[x].pc = "shift" /\ call[x] \in Call /\ cursor \in Nat /\ Size \in Nat
        /\ Placed(x)
    BY <1>1, AtFacts
  <1>3. /\ next \in Settled /\ next \in {"shift", "index low"} /\ "shift" \in Settled \ {"idle"}
        /\ next \in Places /\ next \notin Ahead
    BY DEF Settled, Places, Ahead
  <1>4. k \in Nat /\ k < Size
    BY <1>2 DEF Call, Placed
  <1>5. call' = [call EXCEPT ![x] = new]
    BY <1>1, <1>2 DEF Types
  <1>6. Shifted(k) \in Cell
    <2> DEFINE w == Width * (Height - 1)
    <2>1. w \in Nat /\ w + Width = Size /\ Width \in Nat
      BY SizeFacts
    <2> HIDE DEF w, k
    <2>2. k < w => k + Width \in 0 .. Size - 1
      BY <1>2, <1>4, <2>1
    <2>3. Blank \in Cell
      BY DEF Blank, Cell
    <2>4. buffer \in [0 .. Size - 1 -> Cell]
      BY <1>2 DEF Types
    <2> QED
      BY <2>2, <2>3, <2>4 DEF Shifted, w
  <1>7. buffer' \in [0 .. Size - 1 -> Cell]
    BY <1>1, <1>2, <1>6 DEF Types
  <1>8. next = "shift" => k + 1 < Size
    BY <1>2, <1>4
  <1>0. n \in Nat /\ n = k + 1
    BY <1>4
  <1> HIDE DEF next, n
  <1>9. new \in Call /\ new.pc = next /\ new.i = n
    BY <1>2, <1>3, <1>0 DEF Call
  <1> HIDE DEF new
  <1>10. /\ call' \in [Contexts -> Call] /\ call'[x] = new
         /\ \A y \in Contexts : y # x => call'[y] = call[y]
    BY <1>2, <1>5, <1>9, CallFacts
  <1>11. Placed(x)' /\ Halves(x)' /\ CursorShown'
    <2>1. call'[x] # Idle
      BY <1>3, <1>9, <1>10, IdleFacts
    <2> QED
      BY <1>0, <1>2, <1>3, <1>8, <1>9, <1>10, <2>1 DEF Placed, Halves, CursorShown, AllIdle
  <1> QED
    BY <1>1, <1>2, <1>3, <1>7, <1>9, <1>10, <1>11, LaterStep DEF Types

-----------------------------------------------------------------------------
(***************************************************************************)
(* The six port accesses of display_update_cursor.                         *)
(***************************************************************************)
LEMMA SelectStep ==
    ASSUME DisplayAssumption, DInv, NEW x \in Contexts, NEW reg, NEW p, NEW next,
           \/ reg = "low" /\ p = "index low" /\ next = "load low"
           \/ reg = "high" /\ p = "index high" /\ next = "load high",
           Select(x, reg, p, next)
    PROVE  DInv'
  <1>1. /\ At(x, p) /\ Goto(x, next) /\ index' = reg /\ crtc' = crtc /\ cursor' = cursor
        /\ beyond' = beyond /\ buffer' = buffer
    BY DEF Select
  <1>2. Types /\ call[x].pc = p /\ call[x] \in Call
    BY <1>1, AtFacts
  <1>3. /\ next \in Settled /\ p \in Settled \ {"idle"} /\ p \in Settled
        /\ next \in {"load low", "load high"} /\ reg \in {"shape", "low", "high"}
        /\ next \in Places /\ next \notin Ahead
    BY DEF Settled, Places, Ahead
  <1>4. /\ call' \in [Contexts -> Call] /\ call'[x].pc = next
        /\ \A y \in Contexts : y # x => call'[y] = call[y]
    BY <1>1, <1>2, <1>3, JumpFacts
  <1>5. Placed(x)' /\ CursorShown'
    BY <1>3, <1>4, IdleFacts DEF Placed, CursorShown, AllIdle
  <1>6. Shown => Halves(x)'
    BY <1>1, <1>2, <1>4 DEF Shown, Halves
  <1>7. /\ buffer' \in [0 .. Size - 1 -> Cell] /\ cursor' \in Nat /\ crtc' \in [low : Nat, high : Nat]
        /\ index' \in {"shape", "low", "high"}
    BY <1>1, <1>2, <1>3 DEF Types
  <1> QED
    BY <1>1, <1>3, <1>4, <1>5, <1>6, <1>7, LaterStep

\* A half of the cursor is loaded when its register has been selected.
Halving(reg, p, next) ==
    \/ reg = "low" /\ p = "load low" /\ next = "out low"
    \/ reg = "high" /\ p = "load high" /\ next = "out high"

LEMMA LoadHalfStep ==
    ASSUME DisplayAssumption, DInv, NEW x \in Contexts, NEW reg, NEW p, NEW next,
           Halving(reg, p, next), Load(x, p, next, Half(reg))
    PROVE  DInv'
  <1>1. Types /\ cursor \in Nat
    BY DEF DInv, Types
  <1>2. PICK h \in Nat : h = Half(reg) /\ (reg = "low" => h = cursor % Byte) /\ (reg = "high" => h = cursor \div Byte)
    <2>1. cursor % Byte \in Nat /\ cursor \div Byte \in Nat
      BY <1>1, SizeFacts, Division
    <2> QED
      BY <2>1 DEF Half
  <1>3. /\ next \in Settled /\ p \in Settled \ {"idle"} /\ p \in Settled
        /\ next \in {"out low", "out high"} /\ next \in Places /\ next \notin Ahead
    BY DEF Settled, Places, Ahead, Halving
  <1>4. Load(x, p, next, h)
    BY <1>2
  <1>10. next \in Places
    BY <1>3
  <1>5. /\ At(x, p) /\ call' \in [Contexts -> Call] /\ call'[x].pc = next /\ call'[x].t = h
        /\ \A y \in Contexts : y # x => call'[y] = call[y]
        /\ buffer' = buffer /\ beyond' = beyond /\ cursor' = cursor /\ index' = index /\ crtc' = crtc
    BY <1>1, <1>4, <1>10, LoadFacts
  <1>6. call[x].pc = p
    BY <1>5 DEF At
  <1>7. Placed(x)' /\ CursorShown'
    BY <1>3, <1>5, IdleFacts DEF Placed, CursorShown, AllIdle
  <1>8. Shown => Halves(x)'
    BY <1>2, <1>5, <1>6 DEF Shown, Halves, Halving
  <1>9. /\ buffer' \in [0 .. Size - 1 -> Cell] /\ cursor' \in Nat /\ crtc' \in [low : Nat, high : Nat]
        /\ index' \in {"shape", "low", "high"}
    BY <1>1, <1>5 DEF Types
  <1> QED
    BY <1>3, <1>5, <1>7, <1>8, <1>9, LaterStep

LEMMA OutLowStep ==
    ASSUME DisplayAssumption, DInv, NEW x \in Contexts, OutHalf(x, "out low", "index high")
    PROVE  DInv'
  <1> DEFINE new == [call[x] EXCEPT !.pc = "index high"]
  <1>1. /\ At(x, "out low") /\ index' = index /\ crtc' = [crtc EXCEPT ![index] = call[x].t]
        /\ cursor' = cursor /\ beyond' = beyond /\ buffer' = buffer
    BY DEF OutHalf
  <1>2. Types /\ call[x].pc = "out low" /\ call[x] \in Call /\ cursor \in Nat
    BY <1>1, AtFacts
  <1>3. /\ "index high" \in Settled /\ "out low" \in Settled \ {"idle"} /\ "out low" \in Settled
        /\ "index high" \in Places /\ "index high" \notin Ahead
    BY DEF Settled, Places, Ahead
  <1>4. call' = [call EXCEPT ![x] = new]
    BY <1>2 DEF Types, OutHalf
  <1>5. call[x].t \in Nat
    BY <1>2 DEF Call
  <1>6. new \in Call /\ new.pc = "index high"
    BY <1>2, <1>3 DEF Call
  <1> HIDE DEF new
  <1>7. /\ call' \in [Contexts -> Call] /\ call'[x] = new
        /\ \A y \in Contexts : y # x => call'[y] = call[y]
    BY <1>2, <1>4, <1>6, CallFacts
  <1>8. call'[x].pc = "index high"
    BY <1>6, <1>7
  <1>9. Placed(x)' /\ CursorShown'
    BY <1>8, IdleFacts DEF Placed, CursorShown, AllIdle
  <1>10. crtc' \in [low : Nat, high : Nat] /\ (index = "low" => crtc'.low = call[x].t)
    BY <1>1, <1>2, <1>5 DEF Types
  <1>11. Shown => Halves(x)'
    BY <1>1, <1>2, <1>8, <1>10 DEF Shown, Halves
  <1>12. /\ buffer' \in [0 .. Size - 1 -> Cell] /\ cursor' \in Nat
         /\ index' \in {"shape", "low", "high"}
    BY <1>1, <1>2 DEF Types
  <1> QED
    BY <1>1, <1>3, <1>7, <1>8, <1>9, <1>10, <1>11, <1>12, LaterStep

LEMMA OutHighStep ==
    ASSUME DisplayAssumption, DInv, NEW x \in Contexts, OutHalf(x, "out high", "idle")
    PROVE  DInv'
  <1>1. /\ At(x, "out high") /\ index' = index /\ crtc' = [crtc EXCEPT ![index] = call[x].t]
        /\ cursor' = cursor /\ beyond' = beyond /\ buffer' = buffer
        /\ call' = [call EXCEPT ![x] = Idle]
    BY DEF OutHalf
  <1>2. Types /\ call[x].pc = "out high" /\ call[x] \in Call /\ cursor \in Nat
    BY <1>1, AtFacts
  <1>3. /\ "idle" \in Settled /\ "out high" \in Settled \ {"idle"} /\ "out high" \in Settled
        /\ "idle" \notin Ahead
    BY DEF Settled, Ahead
  <1>4. call[x].t \in Nat
    BY <1>2 DEF Call
  <1>5. /\ call' \in [Contexts -> Call] /\ call'[x] = Idle
        /\ \A y \in Contexts : y # x => call'[y] = call[y]
    BY <1>1, <1>2, IdleFacts, CallFacts
  <1>6. call'[x].pc = "idle"
    BY <1>5, IdleFacts
  <1>7. Placed(x)' /\ Halves(x)'
    BY <1>5, <1>6 DEF Placed, Halves
  <1>8. crtc' \in [low : Nat, high : Nat]
    BY <1>1, <1>2, <1>4 DEF Types
  <1>9. Shown => CursorShown'
    <2> SUFFICES ASSUME Shown PROVE crtc' = [low |-> cursor % Byte, high |-> cursor \div Byte]
      BY <1>1 DEF CursorShown
    <2>1. index = "high" /\ call[x].t = cursor \div Byte /\ crtc.low = cursor % Byte
      BY <1>2 DEF Shown, Halves
    <2>2. crtc \in [low : Nat, high : Nat]
      BY <1>2 DEF Types
    <2>3. crtc'.low = cursor % Byte /\ crtc'.high = cursor \div Byte
      BY <1>1, <2>1, <2>2
    <2> QED
      BY <1>8, <2>3
  <1>10. /\ buffer' \in [0 .. Size - 1 -> Cell] /\ cursor' \in Nat
         /\ index' \in {"shape", "low", "high"}
    BY <1>1, <1>2 DEF Types
  <1> QED
    BY <1>1, <1>3, <1>5, <1>6, <1>7, <1>8, <1>9, <1>10, LaterStep

-----------------------------------------------------------------------------
(***************************************************************************)
(* A character begins, and the theorems.                                   *)
(***************************************************************************)

\* putcf is entered by main when nobody prints, and by a handler when no other
\* handler does and, without interrupts, when main does not print either.
LEMMA EnterStep ==
    ASSUME DisplayAssumption, DInv, NEW x \in Contexts, NEW c \in Text \cup Printing \cup {NEWLINE},
           NEW attribute \in Attributes \cup {DEFAULT},
           call[x] = Idle, call["irq"] = Idle, Interruptible \/ call["main"] = Idle,
           Enter(x, c, attribute),
           buffer' = buffer, beyond' = beyond, cursor' = cursor, index' = index, crtc' = crtc
    PROVE  DInv'
  <1> DEFINE next == IF c = NEWLINE THEN "load" ELSE "code"
             new  == [Idle EXCEPT !.pc = next, !.c = c, !.attribute = attribute]
  <1>1. Types /\ Near /\ (\A y \in Contexts : Placed(y))
    BY DEF DInv
  <1>2. /\ next \in {"load", "code"} /\ next \in Early /\ (next = "code" => c \in Text \cup Printing)
        /\ next \in Places /\ next \notin Settled /\ next \notin Ahead /\ next \notin Loaded
        /\ next # "store" /\ next # "idle"
    BY DEF Early, Places, Settled, Ahead, Loaded
  <1>3. call' = [call EXCEPT ![x] = new]
    BY DEF Enter
  <1> HIDE DEF next
  <1>4. new \in Call /\ new.pc = next /\ new.c = c
    BY <1>2 DEF Idle, Call
  <1> HIDE DEF new
  <1>5. /\ call' \in [Contexts -> Call] /\ call'[x] = new
        /\ \A y \in Contexts : y # x => call'[y] = call[y]
    BY <1>1, <1>3, <1>4, CallFacts
  <1>6. call'[x].pc = next /\ call'[x].c = c
    BY <1>4, <1>5
  <1>7. Types'
    BY <1>1, <1>5 DEF Types
  <1>8. ASSUME NEW y \in Contexts PROVE Placed(y)'
    <2>1. CASE y = x
      BY <1>2, <1>6, <2>1 DEF Placed
    <2>2. CASE y # x
      BY <1>1, <1>5, <2>2 DEF Placed
    <2> QED
      BY <2>1, <2>2
  <1>9. cursor < Size + Width /\ (call["main"].pc \notin Ahead => cursor < Size)
    <2>1. call["irq"].pc = "idle" /\ "idle" \in Settled /\ "idle" \notin Ahead
      BY IdleFacts DEF Settled, Ahead
    <2> QED
      BY <1>1, <2>1 DEF Near
  <1>10. Near'
    <2>1. "idle" \in Settled /\ "idle" \notin Ahead /\ "idle" \notin Loaded
      BY DEF Settled, Ahead, Loaded
    <2>2. CASE x = "main"
      <3>1. call'["irq"] = call["irq"] /\ call'["main"].pc = next /\ call["main"].pc = "idle" /\ call["irq"].pc = "idle"
        BY <1>5, <1>6, <2>2, IdleFacts DEF Contexts
      <3> QED
        BY <1>1, <1>2, <1>9, <2>1, <3>1 DEF Near
    <2>3. CASE x = "irq"
      <3>1. call'["main"] = call["main"] /\ call'["irq"].pc = next
        BY <1>5, <1>6, <2>3 DEF Contexts
      <3> QED
        BY <1>1, <1>2, <1>9, <2>1, <3>1 DEF Near
    <2> QED
      BY <2>2, <2>3 DEF Contexts
  <1>11. ASSUME ~Interruptible PROVE Alone' /\ Shown'
    <2>1. Alone /\ Shown /\ \A y \in Contexts : call[y] = Idle
      BY <1>11 DEF DInv, Contexts
    <2>2. cursor < Size
      BY <1>9, <2>1, IdleFacts DEF Contexts, Ahead
    <2>3. Alone'
      <3>1. ASSUME NEW y \in Contexts PROVE call'[y].pc \notin Loaded
        <4>1. y # x => call'[y].pc = "idle" /\ "idle" \notin Loaded
          BY <1>5, <2>1, IdleFacts DEF Loaded
        <4> QED
          BY <1>2, <1>6, <4>1
      <3>2. beyond' = {}
        BY <2>1 DEF Alone
      <3>3. call'["main"] = Idle \/ call'["irq"] = Idle
        BY <1>5, <2>1 DEF Contexts
      <3> QED
        BY <2>2, <3>1, <3>2, <3>3 DEF Alone
    <2>4. CursorShown'
      BY <1>2, <1>6, IdleFacts DEF CursorShown, AllIdle
    <2>5. ASSUME NEW y \in Contexts PROVE Halves(y)'
      <3>1. CASE y = x
        BY <1>2, <1>6, <3>1 DEF Halves
      <3>2. CASE y # x
        BY <1>5, <2>1, <3>2, IdleFacts DEF Halves
      <3> QED
        BY <3>1, <3>2
    <2> QED
      BY <2>3, <2>4, <2>5 DEF Shown
  <1> QED
    BY <1>7, <1>8, <1>10, <1>11 DEF DInv

\* The invariant does not speak of old, which only the refinement reads.
LEMMA StutterStep ==
    ASSUME DInv, buffer' = buffer, beyond' = beyond, cursor' = cursor, index' = index,
           crtc' = crtc, call' = call
    PROVE  DInv'
  BY DEF DInv, Types, Placed, Near, Alone, Shown, CursorShown, AllIdle, Halves

LEMMA DInvNext == DisplayAssumption /\ DInv /\ [Next]_vars => DInv'
  <1> SUFFICES ASSUME DisplayAssumption, DInv, [Next]_vars PROVE DInv'
    OBVIOUS
  <1>1. ASSUME NEW c \in Text, NEW attribute \in Attributes, printf(c, attribute)
        PROVE  DInv'
    <2>1. At("main", "idle") /\ "main" \in Contexts
      BY <1>1 DEF printf, Contexts
    <2>2. call["main"] = Idle /\ call["irq"] = Idle
      BY <2>1, AtFacts DEF Placed
    <2> QED
      BY <1>1, <2>1, <2>2, EnterStep DEF printf
  <1>2. ASSUME NEW key \in Printing \cup {RETURN} \cup Silent, handle_irq(key)
        PROVE  DInv'
    <2>1. CASE get_char(key) = NUL
      BY <1>2, <2>1, StutterStep DEF handle_irq
    <2>2. CASE get_char(key) # NUL
      <3>1. get_char(key) \in Text \cup Printing \cup {NEWLINE} /\ "irq" \in Contexts
        BY <2>2 DEF get_char, Contexts
      <3> QED
        BY <1>2, <2>2, <3>1, EnterStep DEF handle_irq
    <2> QED
      BY <2>1, <2>2
  <1>3. ASSUME NEW x \in Contexts, UpdateCursor(x)
        PROVE  DInv'
    BY <1>3, SelectStep, LoadHalfStep, OutLowStep, OutHighStep DEF UpdateCursor, Halving
  <1>4. CASE UNCHANGED vars
    BY <1>4, StutterStep DEF vars
  <1> QED
    BY <1>1, <1>2, <1>3, <1>4, StoreCodeStep, StoreAttributeStep, LoadCursorStep, StoreCursorStep,
       CheckFullStep, ResetCursorStep, ShiftCellStep DEF Next

\* The invariant holds of every reachable state of the screen: of a screen of
\* any size, whatever main prints and wherever an echo comes in between.
THEOREM DInvInvariant == ASSUME DisplayAssumption PROVE Spec => []DInv
  <1>1. Init => DInv
    BY DInvInit
  <1>2. DInv /\ [Next]_vars => DInv'
    BY DInvNext
  <1> QED
    BY <1>1, <1>2, PTL DEF Spec

LEMMA DInvTypeOK == DInv => TypeOK
  <1> SUFFICES ASSUME DInv PROVE TypeOK
    OBVIOUS
  <1>1. Types
    BY DEF DInv
  <1>2. ASSUME NEW k \in 0 .. Size - 1
        PROVE  /\ buffer[k].code \in Text \cup Printing \cup {NUL}
               /\ buffer[k].attribute \in Attributes \cup {DEFAULT}
    BY <1>1 DEF Types, Cell
  <1>3. ASSUME NEW x \in Contexts PROVE DOMAIN call[x] = DOMAIN Idle
    <2>1. call[x] \in Call
      BY <1>1 DEF Types
    <2> QED
      BY <2>1 DEF Call, Idle
  <1>4. crtc \in [{"low", "high"} -> Nat]
    BY <1>1 DEF Types
  <1> QED
    BY <1>1, <1>2, <1>3, <1>4 DEF Types, TypeOK

LEMMA DInvCursorTrue == DInv => CursorTrue
  <1> SUFFICES ASSUME DInv PROVE CursorTrue
    OBVIOUS
  <1>1. Near /\ (~Interruptible => Alone /\ Shown)
    BY DEF DInv
  <1>2. CursorOnScreen
    <2> SUFFICES ASSUME AllIdle PROVE cursor < Size
      BY DEF CursorOnScreen
    <2>1. call["main"].pc = "idle" /\ call["irq"].pc = "idle" /\ "idle" \in Settled
      BY IdleFacts DEF AllIdle, Contexts, Settled
    <2>2. "idle" \notin Ahead
      BY DEF Ahead
    <2> QED
      BY <1>1, <2>1, <2>2 DEF Near
  <1> QED
    BY <1>1, <1>2 DEF CursorTrue, NearScreen, Near, Alone, Shown, OnScreen

\* The type invariant: every place of the screen holds a character and a colour,
\* and the cursor is a number, not the negative one an underflow would leave.
THEOREM TypeCorrect == ASSUME DisplayAssumption PROVE Spec => []TypeOK
  BY DInvTypeOK, DInvInvariant, PTL

\* The cursor is on the screen whenever nobody prints, and nothing is stored
\* further than in the row behind the screen, however an echo interleaves with the
\* loads and stores of putcf; without interrupts nothing is stored after it, and
\* display_update_cursor has shown the cursor where the next character will go.
THEOREM CursorTrueSafe == ASSUME DisplayAssumption PROVE Spec => []CursorTrue
  BY DInvCursorTrue, DInvInvariant, PTL

-----------------------------------------------------------------------------
(***************************************************************************)
(* The screen as rows.                                                     *)
(***************************************************************************)

\* Column k of row r of the screen, and what rows show there.
Spot(r, k) == Width * (r - 1) + (k - 1)

CharAt(rs, r, k) == IF r <= Len(rs) /\ k <= Len(rs[r]) THEN rs[r][k] ELSE Blank

Cells == [code : Text \cup Printing, attribute : Attributes \cup {DEFAULT}]

\* Rows that are filled up to the last one; there may be one more than fit.
Filled(rs) ==
    /\ rs \in Seq(Seq(Cells)) /\ Len(rs) \in 1 .. Height + 1
    /\ \A r \in 1 .. Len(rs) : Len(rs[r]) <= Width
    /\ Len(rs[Len(rs)]) < Width /\ (Len(rs) > Height => rs[Len(rs)] = <<>>)

\* The place after the last character.
Behind(rs) == Width * (Len(rs) - 1) + Len(rs[Len(rs)])

Laid(rs, buf) == \A r \in 1 .. Height, k \in 1 .. Width : buf[Spot(r, k)] = CharAt(rs, r, k)

Screen(rs, buf, cur) == Filled(rs) /\ Len(rs) <= Height /\ Laid(rs, buf) /\ cur = Behind(rs)

\* Places are counted row by row.
LEMMA SpotUnique ==
    ASSUME DisplayAssumption, NEW r \in Nat \ {0}, NEW s \in Nat \ {0}, NEW j \in 1 .. Width, NEW k \in 1 .. Width,
           Spot(r, j) = Spot(s, k)
    PROVE  r = s /\ j = k
  <1>1. Width \in Nat /\ Width > 0
    BY SizeFacts
  <1>2. ASSUME NEW a \in Nat \ {0}, NEW b \in Nat \ {0}, NEW u \in 1 .. Width, NEW v \in 1 .. Width,
               Spot(a, u) = Spot(b, v), a < b
        PROVE  FALSE
    <2>1. a - 1 \in Nat /\ b - 1 \in Nat /\ a - 1 < b - 1
      BY <1>2
    <2> DEFINE p == Width * (a - 1)
               q == Width * (b - 1)
    <2>2. p + Width <= q
      BY <1>1, <2>1, Factor
    <2>3. p \in Int /\ q \in Int
      BY <1>1, <2>1
    <2>4. p + (u - 1) = q + (v - 1)
      BY <1>2 DEF Spot
    <2> HIDE DEF p, q
    <2> QED
      BY <1>1, <2>2, <2>3, <2>4
  <1>3. r = s
    BY <1>2
  <1>4. Width * (r - 1) \in Int
    BY <1>1
  <1> DEFINE p == Width * (r - 1)
  <1>5. p + (j - 1) = p + (k - 1) /\ p \in Int
    BY <1>3, <1>4 DEF Spot
  <1> HIDE DEF p
  <1> QED
    BY <1>1, <1>3, <1>5

\* Row r, column k is a place on the screen, with row r + 1 a Width further on.
LEMMA SpotFacts ==
    ASSUME DisplayAssumption, NEW r \in 1 .. Height, NEW k \in 1 .. Width
    PROVE  /\ Spot(r, k) \in 0 .. Size - 1 /\ (Spot(r, k) < Width * (Height - 1) <=> r < Height)
           /\ Spot(r, k) + Width = Spot(r + 1, k)
           /\ (r - 1) * Width + k - 1 = Spot(r, k)
  <1>1. Width \in Nat /\ Width > 0 /\ Height \in Nat /\ Height > 0 /\ Size \in Nat
        /\ Width * (Height - 1) \in Nat /\ Width * (Height - 1) + Width = Size
    BY SizeFacts
  <1>2. r - 1 \in Nat /\ Height - 1 \in Nat
    BY <1>1
  <1> DEFINE p == Width * (r - 1)
             e == Width * (Height - 1)
  <1>3. p \in Nat /\ e \in Nat /\ e + Width = Size
    BY <1>1, <1>2
  <1>4. Width * r = p + Width /\ (r - 1) * Width = p
    BY <1>1, <1>2
  <1>5. r < Height => p + Width <= e
    <2>1. r < Height => r - 1 < Height - 1
      BY <1>1
    <2> QED
      BY <1>1, <1>2, <2>1, Factor
  <1>6. r = Height => p = e
    OBVIOUS
  <1>7. Spot(r, k) = p + (k - 1) /\ Spot(r + 1, k) = Width * r + (k - 1)
    BY <1>1 DEF Spot
  <1>8. r < Height \/ r = Height
    BY <1>1
  <1>9. (r - 1) * Width + k - 1 = p + (k - 1)
    <2>1. (r - 1) * Width + k - 1 = p + k - 1
      BY <1>4
    <2> HIDE DEF p
    <2> QED
      BY <1>1, <1>3, <2>1
  <1>10. Spot(r + 1, k) = p + Width + (k - 1)
    BY <1>4, <1>7
  <1> HIDE DEF p, e
  <1>11. p + (k - 1) \in 0 .. Size - 1 /\ (p + (k - 1) < e <=> r < Height) /\ (p + (k - 1)) + Width = p + Width + (k - 1)
    BY <1>1, <1>3, <1>5, <1>6, <1>8
  <1> QED
    BY <1>7, <1>9, <1>10, <1>11 DEF e

\* Every place is in some row and column.
LEMMA SpotOf ==
    ASSUME DisplayAssumption, NEW p \in 0 .. Size - 1
    PROVE  \E r \in 1 .. Height, k \in 1 .. Width : p = Spot(r, k)
  <1> DEFINE q == p \div Width
             m == p % Width
  <1>1. Width \in Nat /\ Width > 0 /\ Height \in Nat /\ Size = Width * Height /\ Size \in Nat
    BY SizeFacts DEF Size
  <1>2. p = Width * q + m /\ q \in Nat /\ m \in Nat /\ m < Width
    BY <1>1, Division
  <1> HIDE DEF q, m
  <1>3. q < Height
    <2> SUFFICES ASSUME Height <= q PROVE FALSE
      BY <1>1, <1>2
    <2>1. Width * Height <= Width * q
      <3>1. CASE Height = q
        <4>1. Width * Height = Width * q /\ Width * q \in Int
          BY <1>1, <1>2, <3>1
        <4> QED
          BY <4>1
      <3>2. CASE Height < q
        <4>1. Width * Height + Width <= Width * q
          BY <1>1, <1>2, <3>2, Factor
        <4>2. Width * Height \in Int /\ Width * q \in Int
          BY <1>1, <1>2
        <4> QED
          BY <1>1, <4>1, <4>2
      <3> QED
        BY <1>1, <1>2, <3>1, <3>2
    <2>2. Width * Height \in Int /\ Width * q \in Int
      BY <1>1, <1>2
    <2> QED
      BY <1>1, <1>2, <2>1, <2>2
  <1>4. q + 1 \in 1 .. Height /\ m + 1 \in 1 .. Width
    BY <1>1, <1>2, <1>3
  <1>5. Spot(q + 1, m + 1) = Width * q + m
    <2>1. (q + 1) - 1 = q /\ (m + 1) - 1 = m
      BY <1>2
    <2> QED
      BY <2>1 DEF Spot
  <1> QED
    BY <1>2, <1>4, <1>5

-----------------------------------------------------------------------------
(***************************************************************************)
(* What Rows finds on a screen.                                            *)
(***************************************************************************)
LEMMA MaxIs ==
    ASSUME NEW M, NEW n \in M, M \subseteq Nat, \A m \in M : m <= n
    PROVE  Max(M) = n
  <1>1. Max(M) \in M /\ \A y \in M : Max(M) >= y
    <2>1. \E x \in M : \A y \in M : x >= y
      <3>1. \A y \in M : n >= y
        OBVIOUS
      <3> QED
        BY <3>1
    <2> QED
      BY <2>1 DEF Max
  <1>2. Max(M) >= n /\ Max(M) <= n /\ Max(M) \in Nat /\ n \in Nat
    BY <1>1
  <1> QED
    BY <1>2

\* A cell that something was put in is not blank.
LEMMA CellsFacts ==
    ASSUME DisplayAssumption
    PROVE  Blank \notin Cells /\ Cells \subseteq Cell /\ Blank \in Cell
  <1>1. Blank.code = NUL /\ NUL \notin Text \cup Printing
    BY DEF Blank, DisplayAssumption
  <1>2. \A c \in Cells : c.code \in Text \cup Printing
    BY DEF Cells
  <1>3. Cells \subseteq Cell
    BY DEF Cells, Cell
  <1>4. Blank \in Cell
    BY DEF Blank, Cell
  <1> QED
    BY <1>1, <1>2, <1>3, <1>4

\* The parts of a row.
LEMMA FilledRow ==
    ASSUME DisplayAssumption, NEW rs, Filled(rs), NEW r \in 1 .. Len(rs)
    PROVE  rs[r] \in Seq(Cells) /\ Len(rs[r]) \in 0 .. Width /\ \A k \in 1 .. Len(rs[r]) : rs[r][k] \in Cells
  <1>1. rs \in Seq(Seq(Cells)) /\ Len(rs[r]) <= Width /\ Width \in Nat
    BY SizeFacts DEF Filled
  <1>2. rs[r] \in Seq(Cells)
    BY <1>1
  <1> QED
    BY <1>1, <1>2

\* A screen that rows are laid out on shows each of them.
LEMMA RowIs ==
    ASSUME DisplayAssumption, NEW rs, Filled(rs), Laid(rs, buffer), NEW r \in 1 .. Height
    PROVE  Row(r) = IF r <= Len(rs) THEN rs[r] ELSE <<>>
  <1> DEFINE n == IF r <= Len(rs) THEN Len(rs[r]) ELSE 0
             used == {k \in 1 .. Width : buffer[(r - 1) * Width + k - 1] # Blank}
  <1>1. Len(rs) \in Nat /\ Width \in Nat /\ Height \in Nat
    BY SizeFacts DEF Filled
  <1>2. r <= Len(rs) => r \in 1 .. Len(rs)
    BY <1>1
  <1>3. n \in 0 .. Width
    BY <1>1, <1>2, FilledRow
  <1>4. ASSUME NEW k \in 1 .. Width PROVE buffer[(r - 1) * Width + k - 1] = CharAt(rs, r, k)
    <2>1. (r - 1) * Width + k - 1 = Spot(r, k)
      BY SpotFacts
    <2> QED
      BY <2>1 DEF Laid
  <1>5. ASSUME NEW k \in 1 .. Width PROVE k <= n <=> CharAt(rs, r, k) # Blank
    <2>1. CASE r <= Len(rs) /\ k <= Len(rs[r])
      <3>1. rs[r][k] \in Cells
        BY <1>1, <1>2, <2>1, FilledRow
      <3> QED
        BY <2>1, <3>1, CellsFacts DEF CharAt
    <2>2. CASE ~(r <= Len(rs) /\ k <= Len(rs[r]))
      <3>1. CharAt(rs, r, k) = Blank
        BY <2>2 DEF CharAt
      <3>2. ~(k <= n)
        BY <2>2
      <3> QED
        BY <3>1, <3>2
    <2> QED
      BY <2>1, <2>2
  <1>6. \A k \in 1 .. Width : k \in used <=> k <= n
    BY <1>4, <1>5
  <1>7. used \subseteq 1 .. Width
    OBVIOUS
  <1> HIDE DEF used, n
  <1>8. Max(used \cup {0}) = n
    <2>1. n \in used \cup {0}
      BY <1>1, <1>3, <1>6
    <2>2. used \cup {0} \subseteq Nat /\ \A m \in used \cup {0} : m <= n
      BY <1>1, <1>3, <1>6, <1>7
    <2> QED
      BY <2>1, <2>2, MaxIs
  <1>9. Row(r) = [k \in 1 .. n |-> buffer[(r - 1) * Width + k - 1]]
    BY <1>8 DEF Row, used
  <1>10. CASE r <= Len(rs)
    <2>1. rs[r] \in Seq(Cells) /\ n = Len(rs[r]) /\ n \in Nat
      BY <1>1, <1>2, <1>10, FilledRow DEF n
    <2>2. ASSUME NEW k \in 1 .. n PROVE buffer[(r - 1) * Width + k - 1] = rs[r][k]
      <3>1. k \in 1 .. Width /\ k <= Len(rs[r])
        BY <1>1, <1>3, <2>1
      <3>2. CharAt(rs, r, k) = rs[r][k]
        BY <1>10, <3>1 DEF CharAt
      <3> QED
        BY <1>4, <3>1, <3>2
    <2>3. rs[r] = [k \in 1 .. n |-> rs[r][k]]
      BY <2>1
    <2> QED
      BY <1>9, <1>10, <2>2, <2>3
  <1>11. CASE ~(r <= Len(rs))
    <2>1. n = 0
      BY <1>11 DEF n
    <2> QED
      BY <1>9, <1>11, <2>1
  <1> QED
    BY <1>10, <1>11

\* The row of the cursor.
LEMMA RowOf ==
    ASSUME DisplayAssumption, NEW n \in Nat, NEW m \in Nat, m < Width
    PROVE  (Width * n + m) \div Width = n /\ (Width * n + m) % Width = m
  <1>1. Width \in Nat /\ Width > 0
    BY SizeFacts
  <1> DEFINE a == Width * n + m
             q == a \div Width
             z == a % Width
  <1>2. a \in Nat
    BY <1>1
  <1> HIDE DEF a
  <1>3. a = Width * q + z /\ q \in Nat /\ z \in Nat /\ z < Width
    BY <1>1, <1>2, Division
  <1> HIDE DEF q, z
  <1> DEFINE p == Width * n
             s == Width * q
  <1>4. p \in Nat /\ s \in Nat /\ p + m = s + z
    BY <1>1, <1>3 DEF a
  <1>5. n < q => p + Width <= s
    BY <1>1, <1>3, Factor
  <1>6. q < n => s + Width <= p
    BY <1>1, <1>3, Factor
  <1> HIDE DEF p, s
  <1>7. ~(n < q) /\ ~(q < n)
    BY <1>1, <1>3, <1>4, <1>5, <1>6
  <1>8. q = n
    BY <1>3, <1>7
  <1>9. s = p
    BY <1>8 DEF p, s
  <1>10. z = m
    BY <1>3, <1>4, <1>9
  <1> QED
    BY <1>8, <1>10 DEF q, z, a

\* What the screen shows (Rows) is what is laid out on it.
LEMMA RowsAre ==
    ASSUME DisplayAssumption, NEW rs, Screen(rs, buffer, cursor)
    PROVE  Rows = rs
  <1> DEFINE n == Len(rs)
             used == {r \in 1 .. Height : Row(r) # <<>>}
  <1>1. Filled(rs) /\ Laid(rs, buffer) /\ n <= Height /\ cursor = Behind(rs)
    BY DEF Screen
  <1>2. rs \in Seq(Seq(Cells)) /\ n \in Nat /\ n >= 1 /\ Height \in Nat /\ Width \in Nat
    BY <1>1, SizeFacts DEF Filled
  <1>3. Len(rs[n]) \in Nat /\ Len(rs[n]) < Width
    <2>1. n \in 1 .. n
      BY <1>2
    <2>2. Len(rs[n]) \in 0 .. Width
      BY <1>1, <2>1, FilledRow
    <2> QED
      BY <1>1, <1>2, <2>2 DEF Filled
  <1>4. cursor \div Width + 1 = n
    <2>1. n - 1 \in Nat
      BY <1>2
    <2>2. (Width * (n - 1) + Len(rs[n])) \div Width = n - 1
      BY <1>3, <2>1, RowOf
    <2>3. cursor \div Width = n - 1
      BY <1>1, <2>2 DEF Behind
    <2> QED
      BY <1>2, <2>3
  <1>5. ASSUME NEW r \in 1 .. Height PROVE Row(r) = IF r <= n THEN rs[r] ELSE <<>>
    BY <1>1, RowIs
  <1> HIDE DEF n
  <1>6. used \subseteq 1 .. n
    BY <1>2, <1>5
  <1> HIDE DEF used
  <1>7. Max(used \cup {n}) = n
    <2>1. used \cup {n} \subseteq Nat /\ \A m \in used \cup {n} : m <= n
      BY <1>2, <1>6
    <2> QED
      BY <2>1, MaxIs
  <1>8. Rows = [r \in 1 .. n |-> Row(r)]
    BY <1>4, <1>7 DEF Rows, used
  <1>9. \A r \in 1 .. n : r \in 1 .. Height /\ Row(r) = rs[r]
    BY <1>1, <1>2, <1>5 DEF n
  <1>10. rs = [r \in 1 .. n |-> rs[r]]
    BY <1>2 DEF n
  <1> QED
    BY <1>8, <1>9, <1>10

-----------------------------------------------------------------------------
(***************************************************************************)
(* Rows that grow and scroll, as in Terminal.                              *)
(***************************************************************************)
ExtendedBy(rs, cell) == [rs EXCEPT ![Len(rs)] = Append(@, cell)]

Typed(rs, cell) ==
    IF Len(ExtendedBy(rs, cell)[Len(rs)]) = Width THEN Append(ExtendedBy(rs, cell), <<>>)
                                                  ELSE ExtendedBy(rs, cell)

Scrolled(rs) == IF Len(rs) > Height THEN Tail(rs) ELSE rs

\* The row the cursor is in has room for a character, at the cursor.
LEMMA LastRow ==
    ASSUME DisplayAssumption, NEW rs, Filled(rs), Len(rs) <= Height
    PROVE  /\ rs \in Seq(Seq(Cells)) /\ Len(rs) \in 1 .. Height /\ Len(rs) \in 1 .. Len(rs)
           /\ rs[Len(rs)] \in Seq(Cells) /\ Len(rs[Len(rs)]) \in Nat /\ Len(rs[Len(rs)]) < Width
           /\ Len(rs[Len(rs)]) + 1 \in 1 .. Width
           /\ Behind(rs) = Spot(Len(rs), Len(rs[Len(rs)]) + 1) /\ Behind(rs) \in 0 .. Size - 1
  <1>1. Width \in Nat /\ Height \in Nat /\ rs \in Seq(Seq(Cells)) /\ Len(rs) \in 1 .. Height + 1 /\ Len(rs[Len(rs)]) < Width
    BY SizeFacts DEF Filled
  <1>2. Len(rs) \in 1 .. Height /\ Len(rs) \in 1 .. Len(rs)
    BY <1>1
  <1>3. rs[Len(rs)] \in Seq(Cells) /\ Len(rs[Len(rs)]) \in 0 .. Width
    BY <1>2, FilledRow
  <1> DEFINE m == Len(rs[Len(rs)])
  <1>4. m \in Nat /\ m + 1 \in 1 .. Width /\ (m + 1) - 1 = m
    BY <1>1, <1>3
  <1>5. Behind(rs) = Spot(Len(rs), m + 1)
    BY <1>4 DEF Behind, Spot
  <1>6. Spot(Len(rs), m + 1) \in 0 .. Size - 1
    BY <1>2, <1>4, SpotFacts
  <1> QED
    BY <1>1, <1>2, <1>3, <1>4, <1>5, <1>6

\* A character in the last row leaves the others as they are.
LEMMA ExtendedFacts ==
    ASSUME DisplayAssumption, NEW rs, Filled(rs), Len(rs) <= Height, NEW cell \in Cells
    PROVE  LET e == ExtendedBy(rs, cell) IN
           /\ e \in Seq(Seq(Cells)) /\ Len(e) = Len(rs)
           /\ e[Len(rs)] = Append(rs[Len(rs)], cell) /\ Len(e[Len(rs)]) = Len(rs[Len(rs)]) + 1
           /\ \A r \in 1 .. Len(rs) : r # Len(rs) => e[r] = rs[r]
           /\ \A r \in 1 .. Len(rs) : Len(e[r]) <= Width
           /\ \A r \in 1 .. Height, k \in 1 .. Width :
                 CharAt(e, r, k) = IF Spot(r, k) = Behind(rs) THEN cell ELSE CharAt(rs, r, k)
  <1> DEFINE n == Len(rs)
             row == rs[n]
             m == Len(row)
             e == ExtendedBy(rs, cell)
             new == Append(row, cell)
  <1>1. /\ rs \in Seq(Seq(Cells)) /\ n \in 1 .. Height /\ n \in 1 .. n
        /\ row \in Seq(Cells) /\ m \in Nat /\ m < Width /\ m + 1 \in 1 .. Width
        /\ Behind(rs) = Spot(n, m + 1)
    BY LastRow
  <1>2. Width \in Nat /\ Height \in Nat /\ Len(rs) \in Nat
    BY <1>1, SizeFacts
  <1>3. /\ new \in Seq(Cells) /\ Len(new) = m + 1 /\ new[m + 1] = cell
        /\ \A k \in 1 .. m : new[k] = row[k]
    <2> HIDE DEF row
    <2>1. row \in Seq(Cells) /\ cell \in Cells
      BY <1>1
    <2>2. new \in Seq(Cells) /\ Len(new) = Len(row) + 1 /\ new[Len(row) + 1] = cell
          /\ \A k \in 1 .. Len(row) : new[k] = row[k]
      BY <2>1, AppendProperties
    <2> QED
      BY <2>2
  <1> HIDE DEF new
  <1>4. e = [rs EXCEPT ![n] = new]
    BY DEF ExtendedBy, new
  <1>5. e \in Seq(Seq(Cells)) /\ Len(e) = n /\ e[n] = new /\ \A r \in 1 .. n : r # n => e[r] = rs[r]
    <2> HIDE DEF e
    <2>1. DOMAIN rs = 1 .. Len(rs)
      BY <1>1
    <2> QED
      BY <1>1, <1>3, <1>4, <2>1
  <1>6. \A r \in 1 .. n : Len(e[r]) <= Width
    <2> SUFFICES ASSUME NEW r \in 1 .. n PROVE Len(e[r]) <= Width
      OBVIOUS
    <2>1. CASE r = n
      BY <1>1, <1>2, <1>3, <1>5, <2>1
    <2>2. CASE r # n
      BY <1>5, <2>2 DEF Filled
    <2> QED
      BY <2>1, <2>2
  <1> HIDE DEF e
  <1>7. ASSUME NEW r \in 1 .. Height, NEW k \in 1 .. Width
        PROVE  CharAt(e, r, k) = IF Spot(r, k) = Behind(rs) THEN cell ELSE CharAt(rs, r, k)
    <2>1. Spot(r, k) = Behind(rs) <=> r = n /\ k = m + 1
      <3>1. r \in Nat \ {0} /\ n \in Nat \ {0}
        BY <1>1, <1>2
      <3>2. Spot(r, k) = Spot(n, m + 1) => r = n /\ k = m + 1
        BY <1>1, <3>1, SpotUnique
      <3> QED
        BY <1>1, <3>2
    <2>2. CASE r = n
      <3>1. CharAt(e, r, k) = IF k <= m + 1 THEN new[k] ELSE Blank
        BY <1>2, <1>3, <1>5, <2>2 DEF CharAt
      <3>2. CharAt(rs, r, k) = IF k <= m THEN row[k] ELSE Blank
        BY <1>2, <2>2 DEF CharAt
      <3>3. k <= m => k \in 1 .. m /\ k # m + 1
        BY <1>1, <1>2
      <3>4. k <= m + 1 <=> k <= m \/ k = m + 1
        BY <1>1, <1>2
      <3> HIDE DEF n, m, row
      <3> QED
        BY <1>3, <2>1, <2>2, <3>1, <3>2, <3>3, <3>4
    <2>3. CASE r # n
      <3>1. r <= n => r \in 1 .. n
        BY <1>1, <1>2
      <3>2. CharAt(e, r, k) = CharAt(rs, r, k)
        BY <1>5, <2>3, <3>1 DEF CharAt
      <3> QED
        BY <2>1, <2>3, <3>2
    <2> QED
      BY <2>2, <2>3
  <1> QED
    BY <1>3, <1>5, <1>6, <1>7 DEF new, e

\* A new row shows nothing and moves the cursor to its start.
LEMMA NewRow ==
    ASSUME DisplayAssumption, NEW rs, rs \in Seq(Seq(Cells)), Len(rs) \in 1 .. Height,
           \A r \in 1 .. Len(rs) : Len(rs[r]) <= Width
    PROVE  LET g == Append(rs, <<>>) IN
           /\ Filled(g) /\ Len(g) = Len(rs) + 1 /\ Behind(g) = Width * Len(rs)
           /\ \A r \in 1 .. Height, k \in 1 .. Width : CharAt(g, r, k) = CharAt(rs, r, k)
  <1> DEFINE n == Len(rs)
             g == Append(rs, <<>>)
  <1>1. Width \in Nat /\ Width > 0 /\ Height \in Nat /\ n \in Nat /\ n \in 1 .. Height
    BY SizeFacts
  <1>2. <<>> \in Seq(Cells) /\ Len(<<>>) = 0
    OBVIOUS
  <1>3. g \in Seq(Seq(Cells)) /\ Len(g) = n + 1 /\ g[n + 1] = <<>> /\ \A r \in 1 .. n : g[r] = rs[r]
    BY <1>2, AppendProperties
  <1> HIDE DEF g
  <1>4. Filled(g)
    <2>1. Len(g) \in 1 .. Height + 1 /\ g[Len(g)] = <<>>
      BY <1>1, <1>3
    <2>2. ASSUME NEW r \in 1 .. Len(g) PROVE Len(g[r]) <= Width
      <3>1. CASE r = n + 1
        BY <1>1, <1>2, <1>3, <3>1
      <3>2. CASE r # n + 1
        <4>1. r \in 1 .. n
          BY <1>1, <1>3, <3>2
        <4> QED
          BY <1>3, <4>1
      <3> QED
        BY <3>1, <3>2
    <2> QED
      BY <1>1, <1>2, <1>3, <2>1, <2>2 DEF Filled
  <1>5. Behind(g) = Width * n
    <2>1. (n + 1) - 1 = n /\ Width * n + 0 = Width * n
      BY <1>1
    <2> QED
      BY <1>2, <1>3, <2>1 DEF Behind
  <1>6. ASSUME NEW r \in 1 .. Height, NEW k \in 1 .. Width PROVE CharAt(g, r, k) = CharAt(rs, r, k)
    <2>1. CASE r <= n
      <3>1. r \in 1 .. n /\ r <= n + 1
        BY <1>1, <2>1
      <3> QED
        BY <1>3, <2>1, <3>1 DEF CharAt
    <2>2. CASE ~(r <= n)
      <3>1. CharAt(rs, r, k) = Blank
        BY <2>2 DEF CharAt
      <3>2. CharAt(g, r, k) = Blank
        <4>1. r <= n + 1 => r = n + 1
          BY <1>1, <2>2
        <4>2. r <= Len(g) => Len(g[r]) = 0
          BY <1>2, <1>3, <4>1
        <4>3. ~(k <= 0)
          BY <1>1
        <4> QED
          BY <4>2, <4>3 DEF CharAt
      <3> QED
        BY <3>1, <3>2
    <2> QED
      BY <2>1, <2>2
  <1> QED
    BY <1>3, <1>4, <1>5, <1>6 DEF g

\* A character typed.
LEMMA TypedFacts ==
    ASSUME DisplayAssumption, NEW rs, Filled(rs), Len(rs) <= Height, NEW cell \in Cells
    PROVE  LET g == Typed(rs, cell) IN
           /\ Filled(g) /\ Behind(g) = Behind(rs) + 1
           /\ \A r \in 1 .. Height, k \in 1 .. Width :
                 CharAt(g, r, k) = IF Spot(r, k) = Behind(rs) THEN cell ELSE CharAt(rs, r, k)
  <1> DEFINE n == Len(rs)
             m == Len(rs[n])
             e == ExtendedBy(rs, cell)
             b == Width * (n - 1)
  <1>1. n \in 1 .. Height /\ m \in Nat /\ m < Width /\ Width \in Nat /\ Height \in Nat /\ n \in 1 .. n /\ n \in Nat
    BY LastRow, SizeFacts
  <1>2. /\ e \in Seq(Seq(Cells)) /\ Len(e) = n
        /\ Len(e[n]) = m + 1
        /\ \A r \in 1 .. n : Len(e[r]) <= Width
        /\ \A r \in 1 .. Height, k \in 1 .. Width :
                 CharAt(e, r, k) = IF Spot(r, k) = Behind(rs) THEN cell ELSE CharAt(rs, r, k)
    BY ExtendedFacts
  <1> HIDE DEF e
  <1>3. b \in Nat /\ Width * n = b + Width /\ Behind(rs) = b + m
    <2>1. n - 1 \in Nat
      BY <1>1
    <2> QED
      BY <1>1, <2>1 DEF Behind
  <1>4. CASE m + 1 = Width
    <2>1. Typed(rs, cell) = Append(e, <<>>)
      BY <1>2, <1>4 DEF Typed, e
    <2>2. /\ Filled(Append(e, <<>>)) /\ Behind(Append(e, <<>>)) = Width * n
          /\ \A r \in 1 .. Height, k \in 1 .. Width : CharAt(Append(e, <<>>), r, k) = CharAt(e, r, k)
      BY <1>1, <1>2, NewRow
    <2>3. Width * n = Behind(rs) + 1
      <3> HIDE DEF b, m, n
      <3> QED
        BY <1>1, <1>3, <1>4
    <2> QED
      BY <1>2, <2>1, <2>2, <2>3
  <1>5. CASE m + 1 # Width
    <2>1. Typed(rs, cell) = e
      BY <1>2, <1>5 DEF Typed, e
    <2>2. Filled(e)
      <3>1. Len(e) \in 1 .. Height + 1 /\ ~(Len(e) > Height)
        BY <1>1, <1>2
      <3>2. Len(e[Len(e)]) < Width
        BY <1>1, <1>2, <1>5
      <3> QED
        BY <1>2, <3>1, <3>2 DEF Filled
    <2>3. Behind(e) = b + (m + 1)
      BY <1>2 DEF Behind
    <2>4. b + (m + 1) = (b + m) + 1
      <3> HIDE DEF b, m
      <3> QED
        BY <1>1, <1>3
    <2> QED
      BY <1>2, <1>3, <2>1, <2>2, <2>3, <2>4
  <1> QED
    BY <1>4, <1>5

\* The first row goes.
LEMMA ScrolledFacts ==
    ASSUME DisplayAssumption, NEW g, Filled(g), Len(g) > Height
    PROVE  /\ Len(g) = Height + 1 /\ Behind(g) = Size
           /\ Filled(Tail(g)) /\ Len(Tail(g)) = Height /\ Behind(Tail(g)) = Width * (Height - 1)
           /\ \A k \in 1 .. Width :
                 /\ \A r \in 1 .. Height - 1 : CharAt(Tail(g), r, k) = CharAt(g, r + 1, k)
                 /\ CharAt(Tail(g), Height, k) = Blank
  <1> DEFINE h == Tail(g)
  <1>1. Width \in Nat /\ Width > 0 /\ Height \in Nat /\ Height > 0 /\ Size = Width * Height /\ Size \in Nat
    BY SizeFacts DEF Size
  <1>2. g \in Seq(Seq(Cells)) /\ Len(g) = Height + 1 /\ g[Height + 1] = <<>> /\ Len(<<>>) = 0
    BY <1>1 DEF Filled
  <1>3. h \in Seq(Seq(Cells)) /\ Len(h) = Height /\ \A r \in 1 .. Height : h[r] = g[r + 1]
    <2>1. g # <<>>
      BY <1>1, <1>2
    <2>2. Tail(g) \in Seq(Seq(Cells)) /\ Len(Tail(g)) = Len(g) - 1 /\ \A r \in 1 .. Len(Tail(g)) : Tail(g)[r] = g[r + 1]
      BY <1>2, <2>1, HeadTailProperties
    <2>3. Len(g) - 1 = Height
      BY <1>1, <1>2
    <2> QED
      BY <2>2, <2>3
  <1> HIDE DEF h
  <1>4. Behind(g) = Size
    <2>1. (Height + 1) - 1 = Height /\ Width * Height + 0 = Width * Height
      BY <1>1
    <2> QED
      BY <1>1, <1>2, <2>1 DEF Behind
  <1>5. h[Height] = <<>>
    BY <1>1, <1>2, <1>3
  <1>6. Filled(h)
    <2>1. ASSUME NEW r \in 1 .. Len(h) PROVE Len(h[r]) <= Width
      <3>1. r + 1 \in 1 .. Len(g) /\ h[r] = g[r + 1]
        BY <1>1, <1>2, <1>3
      <3> QED
        BY <3>1 DEF Filled
    <2> QED
      BY <1>1, <1>2, <1>3, <1>5, <2>1 DEF Filled
  <1>7. Behind(h) = Width * (Height - 1)
    <2>1. Width * (Height - 1) + 0 = Width * (Height - 1)
      BY <1>1
    <2> QED
      BY <1>2, <1>3, <1>5, <2>1 DEF Behind
  <1>8. ASSUME NEW k \in 1 .. Width
        PROVE  /\ \A r \in 1 .. Height - 1 : CharAt(h, r, k) = CharAt(g, r + 1, k)
               /\ CharAt(h, Height, k) = Blank
    <2>1. ASSUME NEW r \in 1 .. Height - 1 PROVE CharAt(h, r, k) = CharAt(g, r + 1, k)
      <3>1. r \in 1 .. Height /\ (r <= Len(h) <=> r + 1 <= Len(g))
        BY <1>1, <1>2, <1>3
      <3>2. h[r] = g[r + 1]
        BY <1>3, <3>1
      <3> QED
        BY <3>1, <3>2 DEF CharAt
    <2>2. ~(k <= 0)
      BY <1>1
    <2> QED
      BY <1>2, <1>5, <2>1, <2>2 DEF CharAt
  <1> QED
    BY <1>2, <1>3, <1>4, <1>6, <1>7, <1>8 DEF h

-----------------------------------------------------------------------------
(***************************************************************************)
(* putcf as one step of the terminal.                                      *)
(***************************************************************************)

\* What a call writes, and the rows it makes of rs before they scroll.
Written(cl) == [code |-> cl.c, attribute |-> cl.attribute]

Grown(rs, cl) == IF cl.c = NEWLINE THEN Append(rs, <<>>) ELSE Typed(rs, Written(cl))

\* The code is written, the attribute is not.
HalfLaid(rs, cl, buf) ==
    \A r \in 1 .. Height, k \in 1 .. Width :
        buf[Spot(r, k)] = IF Spot(r, k) = Behind(rs) THEN [code |-> cl.c, attribute |-> DEFAULT]
                                                     ELSE CharAt(rs, r, k)

\* The first i places have been shifted.
Shifting(g, buf, i) ==
    \A r \in 1 .. Height, k \in 1 .. Width :
        buf[Spot(r, k)] = IF Spot(r, k) < i THEN CharAt(Tail(g), r, k) ELSE CharAt(g, r, k)

Working == {"code", "putcode", "attribute", "putattribute", "load", "remainder", "store", "update",
            "reset", "shift"}

Showing == {"index low", "load low", "out low", "index high", "load high", "out high"}

\* How far the call cl has come with the rows rs that it found.
Stage(cl, buf, cur, rs) ==
    /\ Filled(rs) /\ Len(rs) <= Height
    /\ cl.c = NEWLINE \/ Written(cl) \in Cells
    /\ cl.pc \in Working \cup Showing
    /\ cl.pc \in {"code", "putcode", "attribute", "putattribute"} => cl.c # NEWLINE
    /\ cl.pc = "remainder" => cl.c = NEWLINE
    /\ cl.pc \in {"code", "putcode", "attribute", "putattribute", "load", "remainder", "store"} => cur = Behind(rs)
    /\ cl.pc \in {"putcode", "putattribute", "remainder"} => cl.t = cur
    /\ cl.pc \in {"code", "putcode"} => Laid(rs, buf)
    /\ cl.pc \in {"attribute", "putattribute"} => HalfLaid(rs, cl, buf)
    /\ cl.pc \in {"load", "remainder", "store", "update", "reset"} => Laid(Grown(rs, cl), buf)
    /\ cl.pc = "store" => cl.t = Behind(Grown(rs, cl))
    /\ cl.pc = "update" => cur = Behind(Grown(rs, cl))
    /\ cl.pc = "reset" => Len(Grown(rs, cl)) > Height
    /\ cl.pc = "shift" => /\ Len(Grown(rs, cl)) > Height /\ Shifting(Grown(rs, cl), buf, cl.i)
                          /\ cur = Width * (Height - 1)
    /\ cl.pc \in Showing => Screen(Scrolled(Grown(rs, cl)), buf, cur)

\* What putcf is to put on the screen.
LEMMA GrownFacts ==
    ASSUME DisplayAssumption, NEW rs, Filled(rs), Len(rs) <= Height, NEW cl, cl.c = NEWLINE \/ Written(cl) \in Cells
    PROVE  LET g == Grown(rs, cl) IN
           /\ Filled(g)
           /\ cl.c # NEWLINE => Behind(g) = Behind(rs) + 1
           /\ cl.c = NEWLINE => Behind(g) = Width * Len(rs)
           /\ \A r \in 1 .. Height, k \in 1 .. Width :
                 CharAt(g, r, k) = IF cl.c # NEWLINE /\ Spot(r, k) = Behind(rs) THEN Written(cl) ELSE CharAt(rs, r, k)
  <1>1. CASE cl.c = NEWLINE
    <2>1. rs \in Seq(Seq(Cells)) /\ Len(rs) \in 1 .. Height /\ \A r \in 1 .. Len(rs) : Len(rs[r]) <= Width
      BY LastRow DEF Filled
    <2>2. Grown(rs, cl) = Append(rs, <<>>)
      BY <1>1 DEF Grown
    <2> QED
      BY <1>1, <2>1, <2>2, NewRow
  <1>2. CASE cl.c # NEWLINE
    <2>1. Grown(rs, cl) = Typed(rs, Written(cl)) /\ Written(cl) \in Cells
      BY <1>2 DEF Grown
    <2> HIDE DEF Written
    <2> QED
      BY <1>2, <2>1, TypedFacts
  <1> QED
    BY <1>1, <1>2

\* A call that goes on to write the same.
LEMMA SameCall ==
    ASSUME NEW rs, NEW cl, NEW new, new.c = cl.c, new.attribute = cl.attribute
    PROVE  Grown(rs, new) = Grown(rs, cl) /\ Written(new) = Written(cl)
  BY DEF Grown, Written

\* What a call that has come this far can rely on.
LEMMA StageFacts ==
    ASSUME DisplayAssumption, DInv, NEW x \in Contexts, NEW p, At(x, p), NEW rs, Stage(call[x], buffer, cursor, rs)
    PROVE  /\ Types /\ call[x].pc = p /\ call[x] \in Call /\ buffer \in [0 .. Size - 1 -> Cell]
           /\ Filled(rs) /\ Len(rs) <= Height /\ (call[x].c = NEWLINE \/ Written(call[x]) \in Cells)
           /\ Filled(Grown(rs, call[x])) /\ Size \in Nat
  BY AtFacts, GrownFacts, SizeFacts DEF Stage, Types

\* A store on the screen.
LEMMA Stored ==
    ASSUME DisplayAssumption, buffer \in [0 .. Size - 1 -> Cell], NEW p \in 0 .. Size - 1, NEW cell, Store(p, cell)
    PROVE  \A r \in 1 .. Height, k \in 1 .. Width :
                buffer'[Spot(r, k)] = IF Spot(r, k) = p THEN cell ELSE buffer[Spot(r, k)]
  <1>1. p < Size
    BY SizeFacts
  <1>2. buffer' = [buffer EXCEPT ![p] = cell]
    BY <1>1 DEF Store
  <1>3. \A r \in 1 .. Height, k \in 1 .. Width : Spot(r, k) \in 0 .. Size - 1
    BY SpotFacts
  <1> QED
    BY <1>2, <1>3

\* The character's code is stored at the cursor.
LEMMA CodeStage ==
    ASSUME DisplayAssumption, DInv, NEW x \in Contexts, StoreCode(x), NEW rs, Stage(call[x], buffer, cursor, rs)
    PROVE  Stage(call'[x], buffer', cursor', rs)
  <1> DEFINE cl == call[x]
             new == call'[x]
  <1>1. At(x, "putcode")
    BY DEF StoreCode
  <1>2. /\ Types /\ cl.pc = "putcode" /\ buffer \in [0 .. Size - 1 -> Cell]
        /\ Filled(rs) /\ Len(rs) <= Height /\ (cl.c = NEWLINE \/ Written(cl) \in Cells) /\ Size \in Nat
    BY <1>1, StageFacts
  <1>3. cl.c # NEWLINE /\ cursor = Behind(rs) /\ cl.t = cursor /\ Laid(rs, buffer)
    BY <1>2 DEF Stage
  <1>4. new.pc = "attribute" /\ new.c = cl.c /\ new.attribute = cl.attribute
    BY <1>2, JumpFacts DEF StoreCode, Early, Places
  <1>5. cursor \in 0 .. Size - 1 /\ cursor' = cursor
    BY <1>2, <1>3, LastRow DEF StoreCode
  <1>6. buffer[cursor] = Blank /\ CellAt(cursor) = Blank
    <2> DEFINE n == Len(rs)
               m == Len(rs[n])
    <2>1. n \in 1 .. Height /\ m + 1 \in 1 .. Width /\ cursor = Spot(n, m + 1) /\ m \in Nat
      BY <1>2, <1>3, LastRow
    <2>2. CharAt(rs, n, m + 1) = Blank
      <3>1. ~(m + 1 <= m)
        BY <2>1
      <3> QED
        BY <3>1 DEF CharAt
    <2>3. buffer[cursor] = Blank
      <3> HIDE DEF n, m
      <3> QED
        BY <1>3, <2>1, <2>2 DEF Laid
    <2>4. cursor < Size
      BY <1>2, <1>5
    <2> QED
      BY <2>3, <2>4 DEF CellAt
  <1>7. [CellAt(cursor) EXCEPT !.code = cl.c] = [code |-> cl.c, attribute |-> DEFAULT]
    BY <1>6 DEF Blank
  <1>8. Store(cursor, [code |-> cl.c, attribute |-> DEFAULT])
    BY <1>3, <1>7 DEF StoreCode
  <1>9. HalfLaid(rs, new, buffer')
    <2> DEFINE w == [code |-> cl.c, attribute |-> DEFAULT]
    <2>1. w = [code |-> new.c, attribute |-> DEFAULT]
      BY <1>4
    <2> HIDE DEF w, new
    <2>2. \A r \in 1 .. Height, k \in 1 .. Width :
                buffer'[Spot(r, k)] = IF Spot(r, k) = cursor THEN w ELSE buffer[Spot(r, k)]
      BY <1>2, <1>5, <1>8, Stored DEF w
    <2> QED
      BY <1>3, <2>1, <2>2 DEF HalfLaid, Laid
  <1>10. new.c # NEWLINE /\ Written(new) \in Cells
    <2>1. Written(new) = Written(cl)
      BY <1>4 DEF Written
    <2> QED
      BY <1>2, <1>3, <1>4, <2>1
  <1> HIDE DEF new
  <1> QED
    BY <1>2, <1>3, <1>4, <1>5, <1>9, <1>10 DEF Stage, Working, Showing, new

\* With its colour the character is on the screen.
LEMMA AttributeStage ==
    ASSUME DisplayAssumption, DInv, NEW x \in Contexts, StoreAttribute(x), NEW rs, Stage(call[x], buffer, cursor, rs)
    PROVE  Stage(call'[x], buffer', cursor', rs)
  <1> DEFINE cl == call[x]
             new == call'[x]
             g == Grown(rs, cl)
  <1>1. At(x, "putattribute")
    BY DEF StoreAttribute
  <1>2. /\ Types /\ cl.pc = "putattribute" /\ buffer \in [0 .. Size - 1 -> Cell]
        /\ Filled(rs) /\ Len(rs) <= Height /\ (cl.c = NEWLINE \/ Written(cl) \in Cells) /\ Size \in Nat
    BY <1>1, StageFacts
  <1>3. cl.c # NEWLINE /\ cursor = Behind(rs) /\ cl.t = cursor /\ HalfLaid(rs, cl, buffer)
    BY <1>2 DEF Stage
  <1>4. new.pc = "load" /\ new.c = cl.c /\ new.attribute = cl.attribute
    BY <1>2, JumpFacts DEF StoreAttribute, Early, Places
  <1>5. cursor \in 0 .. Size - 1 /\ cursor' = cursor
    BY <1>2, <1>3, LastRow DEF StoreAttribute
  <1>6. CellAt(cursor) = [code |-> cl.c, attribute |-> DEFAULT]
    <2>1. PICK r \in 1 .. Height, k \in 1 .. Width : cursor = Spot(r, k)
      BY <1>5, SpotOf
    <2>2. buffer[cursor] = [code |-> cl.c, attribute |-> DEFAULT]
      BY <1>3, <2>1 DEF HalfLaid
    <2>3. cursor < Size
      BY <1>2, <1>5
    <2> QED
      BY <2>2, <2>3 DEF CellAt
  <1>7. [CellAt(cursor) EXCEPT !.attribute = cl.attribute] = Written(cl)
    BY <1>6 DEF Written
  <1>8. Store(cursor, Written(cl))
    BY <1>3, <1>7 DEF StoreAttribute
  <1>9. \A r \in 1 .. Height, k \in 1 .. Width :
                CharAt(g, r, k) = IF Spot(r, k) = Behind(rs) THEN Written(cl) ELSE CharAt(rs, r, k)
    BY <1>2, <1>3, GrownFacts
  <1>10. Laid(g, buffer')
    <2> DEFINE w == Written(cl)
    <2> HIDE DEF w, g
    <2>1. \A r \in 1 .. Height, k \in 1 .. Width :
                buffer'[Spot(r, k)] = IF Spot(r, k) = cursor THEN w ELSE buffer[Spot(r, k)]
      BY <1>2, <1>5, <1>8, Stored DEF w
    <2>2. \A r \in 1 .. Height, k \in 1 .. Width : Spot(r, k) # cursor => buffer[Spot(r, k)] = CharAt(rs, r, k)
      BY <1>3 DEF HalfLaid
    <2>3. \A r \in 1 .. Height, k \in 1 .. Width :
                CharAt(g, r, k) = IF Spot(r, k) = cursor THEN w ELSE CharAt(rs, r, k)
      BY <1>3, <1>9 DEF w
    <2> QED
      BY <2>1, <2>2, <2>3 DEF Laid
  <1>11. Grown(rs, new) = g /\ Written(new) = Written(cl)
    BY <1>4, SameCall
  <1> HIDE DEF new, g
  <1> QED
    BY <1>2, <1>3, <1>4, <1>5, <1>10, <1>11 DEF Stage, Working, Showing, new

\* What is loaded is the place behind the character before, and what is advanced the
\* one behind this character.
LEMMA LoadStage ==
    ASSUME DisplayAssumption, DInv, NEW x \in Contexts, LoadCursor(x), NEW rs, Stage(call[x], buffer, cursor, rs)
    PROVE  Stage(call'[x], buffer', cursor', rs)
  <1> DEFINE cl == call[x]
             new == call'[x]
             g == Grown(rs, cl)
  <1>1. Types /\ cursor \in Nat /\ cl \in Call
    BY DEF DInv, Types
  <1>2. ASSUME NEW p, NEW next \in {"putcode", "putattribute", "remainder", "store"}, NEW v \in Nat, Load(x, p, next, v)
        PROVE  /\ At(x, p) /\ cl.pc = p /\ new.pc = next /\ new.t = v /\ new.c = cl.c /\ buffer' = buffer /\ cursor' = cursor
               /\ Filled(rs) /\ Len(rs) <= Height /\ (new.c = NEWLINE \/ Written(new) \in Cells)
               /\ Grown(rs, new) = g /\ next \in Working
    <2>1. next \in Places /\ next \in Working
      BY DEF Places, Early, Working
    <2>2. /\ At(x, p) /\ new.pc = next /\ new.t = v /\ new.c = cl.c /\ new.attribute = cl.attribute
          /\ buffer' = buffer /\ cursor' = cursor
      BY <1>1, <1>2, <2>1, LoadFacts
    <2>3. cl.pc = p
      BY <2>2 DEF At
    <2>4. Filled(rs) /\ Len(rs) <= Height /\ (cl.c = NEWLINE \/ Written(cl) \in Cells)
      BY DEF Stage
    <2>5. Grown(rs, new) = g /\ Written(new) = Written(cl)
      BY <2>2, SameCall
    <2> QED
      BY <2>1, <2>2, <2>3, <2>4, <2>5
  <1>3. CASE Load(x, "code", "putcode", cursor)
    <2>1. cl.pc = "code" /\ new.pc = "putcode" /\ new.t = cursor /\ new.c = cl.c /\ buffer' = buffer /\ cursor' = cursor
          /\ Filled(rs) /\ Len(rs) <= Height /\ (new.c = NEWLINE \/ Written(new) \in Cells) /\ "putcode" \in Working
      BY <1>1, <1>2, <1>3
    <2>2. cl.c # NEWLINE /\ cursor = Behind(rs) /\ Laid(rs, buffer)
      BY <2>1 DEF Stage
    <2> HIDE DEF cl, new
    <2> QED
      BY <2>1, <2>2 DEF Stage, Showing, new
  <1>4. CASE Load(x, "attribute", "putattribute", cursor)
    <2>1. cl.pc = "attribute" /\ new.pc = "putattribute" /\ new.t = cursor /\ new.c = cl.c /\ buffer' = buffer
          /\ cursor' = cursor /\ Filled(rs) /\ Len(rs) <= Height /\ (new.c = NEWLINE \/ Written(new) \in Cells)
          /\ "putattribute" \in Working
      BY <1>1, <1>2, <1>4
    <2>2. cl.c # NEWLINE /\ cursor = Behind(rs) /\ HalfLaid(rs, cl, buffer)
      BY <2>1 DEF Stage
    <2>3. HalfLaid(rs, new, buffer)
      BY <2>1, <2>2 DEF HalfLaid
    <2> HIDE DEF cl, new
    <2> QED
      BY <2>1, <2>2, <2>3 DEF Stage, Showing, new
  <1>5. CASE cl.c = NEWLINE /\ Load(x, "load", "remainder", cursor)
    <2>1. cl.pc = "load" /\ new.pc = "remainder" /\ new.t = cursor /\ new.c = cl.c /\ buffer' = buffer
          /\ cursor' = cursor /\ Filled(rs) /\ Len(rs) <= Height /\ (new.c = NEWLINE \/ Written(new) \in Cells)
          /\ Grown(rs, new) = g /\ "remainder" \in Working
      BY <1>1, <1>2, <1>5
    <2>2. cursor = Behind(rs) /\ Laid(g, buffer)
      BY <2>1 DEF Stage
    <2> HIDE DEF cl, new, g
    <2> QED
      BY <1>5, <2>1, <2>2 DEF Stage, Showing, new
  <1>6. ASSUME NEW p \in {"load", "remainder"}, NEW v \in Nat, Load(x, p, "store", v), v = Behind(g)
        PROVE  Stage(call'[x], buffer', cursor', rs)
    <2>1. cl.pc = p /\ new.pc = "store" /\ new.t = v /\ new.c = cl.c /\ buffer' = buffer
          /\ cursor' = cursor /\ Filled(rs) /\ Len(rs) <= Height /\ (new.c = NEWLINE \/ Written(new) \in Cells)
          /\ Grown(rs, new) = g /\ "store" \in Working
      BY <1>1, <1>2, <1>6
    <2>2. cursor = Behind(rs) /\ Laid(g, buffer)
      BY <2>1 DEF Stage
    <2> HIDE DEF cl, new, g
    <2> QED
      BY <1>6, <2>1, <2>2 DEF Stage, Showing, new
  <1>7. Filled(rs) /\ Len(rs) <= Height /\ (cl.c = NEWLINE \/ Written(cl) \in Cells)
    BY DEF Stage
  <1>8. CASE cl.c # NEWLINE /\ Load(x, "load", "store", cursor + 1)
    <2>1. cl.pc = "load"
      BY <1>8 DEF Load, At
    <2>2. cursor = Behind(rs)
      BY <2>1 DEF Stage
    <2>3. cursor + 1 = Behind(g) /\ cursor + 1 \in Nat
      BY <1>1, <1>7, <1>8, <2>2, GrownFacts
    <2> QED
      BY <1>6, <1>8, <2>3
  <1>9. CASE Load(x, "remainder", "store", Advanced(x))
    <2>0. cl.pc = "remainder"
      BY <1>9 DEF Load, At
    <2>1. cl.c = NEWLINE /\ cursor = Behind(rs) /\ cl.t = cursor
      BY <2>0 DEF Stage
    <2> DEFINE n == Len(rs)
               m == Len(rs[n])
               b == Width * (n - 1)
    <2>2. n \in Nat /\ n - 1 \in Nat /\ m \in Nat /\ m < Width /\ Width \in Nat
      BY <1>7, LastRow, SizeFacts
    <2>3. cursor = b + m /\ b \in Nat /\ Width * n = b + Width
      BY <2>1, <2>2 DEF Behind
    <2>4. cursor % Width = m
      BY <2>2, <2>3, RowOf
    <2>5. Behind(g) = Width * n
      BY <1>7, <2>1, GrownFacts
    <2>6. Advanced(x) = cursor + Width - m
      BY <2>1, <2>4 DEF Advanced
    <2> HIDE DEF n, m, b, g
    <2>7. cursor + Width - m = b + Width /\ b + Width \in Nat
      BY <2>2, <2>3
    <2>8. Advanced(x) = Behind(g) /\ Advanced(x) \in Nat
      BY <2>3, <2>5, <2>6, <2>7
    <2> QED
      BY <1>6, <1>9, <2>8
  <1> QED
    BY <1>3, <1>4, <1>5, <1>8, <1>9 DEF LoadCursor

\* The cursor is stored.
LEMMA CursorStage ==
    ASSUME DisplayAssumption, DInv, NEW x \in Contexts, StoreCursor(x), NEW rs, Stage(call[x], buffer, cursor, rs)
    PROVE  Stage(call'[x], buffer', cursor', rs)
  <1> DEFINE cl == call[x]
             new == call'[x]
             g == Grown(rs, cl)
  <1>1. At(x, "store")
    BY DEF StoreCursor
  <1>2. /\ Types /\ cl.pc = "store" /\ cl \in Call
        /\ Filled(rs) /\ Len(rs) <= Height /\ (cl.c = NEWLINE \/ Written(cl) \in Cells) /\ Size \in Nat
    BY <1>1, StageFacts
  <1>3. cl.t = Behind(g) /\ Laid(g, buffer)
    BY <1>2 DEF Stage
  <1>4. new.pc = "update" /\ new.c = cl.c /\ new.attribute = cl.attribute
    BY <1>2, JumpFacts DEF StoreCursor, Places, Ahead
  <1>5. cursor' = Behind(g) /\ buffer' = buffer
    BY <1>3 DEF StoreCursor
  <1>6. Grown(rs, new) = g /\ Written(new) = Written(cl)
    BY <1>4, SameCall
  <1> HIDE DEF new, g
  <1> QED
    BY <1>2, <1>3, <1>4, <1>5, <1>6 DEF Stage, Working, Showing, new

\* A cursor past the screen is noticed.
LEMMA FullStage ==
    ASSUME DisplayAssumption, DInv, NEW x \in Contexts, CheckFull(x), NEW rs, Stage(call[x], buffer, cursor, rs)
    PROVE  Stage(call'[x], buffer', cursor', rs)
  <1> DEFINE cl == call[x]
             p == IF Full THEN "reset" ELSE "index low"
             new == call'[x]
             g == Grown(rs, cl)
  <1>1. At(x, "update")
    BY DEF CheckFull
  <1>2. /\ Types /\ cl.pc = "update"
        /\ Filled(rs) /\ Len(rs) <= Height /\ (cl.c = NEWLINE \/ Written(cl) \in Cells) /\ Size \in Nat
        /\ Filled(g)
    BY <1>1, StageFacts
  <1>3. cursor = Behind(g) /\ Laid(g, buffer)
    BY <1>2 DEF Stage
  <1>4. p \in {"reset", "index low"} /\ p \in Places
    BY DEF Places, Ahead, Settled
  <1>5. Goto(x, p) /\ buffer' = buffer /\ cursor' = cursor
    BY DEF CheckFull
  <1>6. new.pc = p /\ new.c = cl.c /\ new.attribute = cl.attribute
    BY <1>2, <1>4, <1>5, JumpFacts
  <1>7. Grown(rs, new) = g /\ Written(new) = Written(cl)
    BY <1>6, SameCall
  <1> HIDE DEF g
  <1>8. CASE Len(g) > Height
    <2>1. Full
      BY <1>2, <1>3, <1>8, ScrolledFacts DEF Full
    <2>2. p = "reset"
      BY <2>1
    <2> HIDE DEF new, p
    <2> QED
      BY <1>2, <1>3, <1>5, <1>6, <1>7, <1>8, <2>2 DEF Stage, Working, Showing, new
  <1>9. CASE ~(Len(g) > Height)
    <2>1. Len(g) <= Height
      BY <1>2, <1>9, SizeFacts DEF Filled
    <2>2. cursor < Size
      BY <1>2, <1>3, <2>1, LastRow
    <2>3. ~Full
      BY <1>2, <1>3, <2>1, <2>2, LastRow DEF Full
    <2>4. Screen(Scrolled(g), buffer, cursor)
      BY <1>2, <1>3, <1>9, <2>1 DEF Screen, Scrolled
    <2>5. p = "index low"
      BY <2>3
    <2> HIDE DEF new, p
    <2> QED
      BY <1>2, <1>5, <1>6, <1>7, <2>4, <2>5 DEF Stage, Working, Showing, new
  <1> QED
    BY <1>8, <1>9

\* The cursor goes back to the last row, which is to be freed.
LEMMA ResetStage ==
    ASSUME DisplayAssumption, DInv, NEW x \in Contexts, ResetCursor(x), NEW rs, Stage(call[x], buffer, cursor, rs)
    PROVE  Stage(call'[x], buffer', cursor', rs)
  <1> DEFINE cl == call[x]
             new == [cl EXCEPT !.pc = "shift", !.i = 0]
             g == Grown(rs, cl)
  <1>1. At(x, "reset")
    BY DEF ResetCursor
  <1>2. /\ Types /\ cl.pc = "reset" /\ cl \in Call /\ call \in [Contexts -> Call]
        /\ Filled(rs) /\ Len(rs) <= Height /\ (cl.c = NEWLINE \/ Written(cl) \in Cells) /\ Size \in Nat
    BY <1>1, StageFacts DEF Types
  <1>3. Len(g) > Height /\ Laid(g, buffer)
    BY <1>2 DEF Stage
  <1>4. new.pc = "shift" /\ new.c = cl.c /\ new.attribute = cl.attribute /\ new.i = 0
    BY <1>2 DEF Call
  <1>5. call'[x] = new /\ buffer' = buffer /\ cursor' = Width * (Height - 1)
    BY <1>2 DEF ResetCursor
  <1>6. Grown(rs, new) = g /\ Written(new) = Written(cl)
    BY <1>4, SameCall
  <1> HIDE DEF g
  <1>7. Shifting(g, buffer, 0)
    <2>1. \A r \in 1 .. Height, k \in 1 .. Width : ~(Spot(r, k) < 0)
      <3> SUFFICES ASSUME NEW r \in 1 .. Height, NEW k \in 1 .. Width PROVE ~(Spot(r, k) < 0)
        OBVIOUS
      <3>1. Spot(r, k) \in 0 .. Size - 1
        BY SpotFacts
      <3> QED
        BY <1>2, <3>1
    <2> QED
      BY <1>3, <2>1 DEF Shifting, Laid
  <1> HIDE DEF new
  <1> QED
    BY <1>2, <1>3, <1>4, <1>5, <1>6, <1>7 DEF Stage, Working, Showing

\* One place of the screen is shifted; with the last one the first row is gone.
LEMMA ShiftStage ==
    ASSUME DisplayAssumption, DInv, NEW x \in Contexts, ShiftCell(x), NEW rs, Stage(call[x], buffer, cursor, rs)
    PROVE  Stage(call'[x], buffer', cursor', rs)
  <1> DEFINE cl == call[x]
             i == cl.i
             p == IF i + 1 = Size THEN "index low" ELSE "shift"
             new == [cl EXCEPT !.pc = p, !.i = i + 1]
             g == Grown(rs, cl)
  <1>1. At(x, "shift")
    BY DEF ShiftCell
  <1>2. /\ Types /\ cl.pc = "shift" /\ cl \in Call /\ call \in [Contexts -> Call] /\ buffer \in [0 .. Size - 1 -> Cell]
        /\ Filled(rs) /\ Len(rs) <= Height /\ (cl.c = NEWLINE \/ Written(cl) \in Cells) /\ Size \in Nat
        /\ Filled(g)
    BY <1>1, StageFacts DEF Types
  <1>3. Len(g) > Height /\ Shifting(g, buffer, i) /\ cursor = Width * (Height - 1)
    BY <1>2 DEF Stage
  <1>4. i \in 0 .. Size - 1
    <2>1. Placed(x)
      BY DEF DInv
    <2> QED
      BY <1>2, <2>1 DEF Placed, Call
  <1>5. p \in {"shift", "index low"} /\ new.pc = p /\ new.c = cl.c /\ new.attribute = cl.attribute /\ new.i = i + 1
    BY <1>2 DEF Call
  <1>6. call'[x] = new /\ buffer' = [buffer EXCEPT ![i] = Shifted(i)] /\ cursor' = cursor
    BY <1>2 DEF ShiftCell
  <1>7. Grown(rs, new) = g /\ Written(new) = Written(cl)
    BY <1>5, SameCall
  <1> HIDE DEF new, g, p
  <1>8. /\ Filled(Tail(g)) /\ Len(Tail(g)) = Height /\ Behind(Tail(g)) = Width * (Height - 1)
        /\ \A k \in 1 .. Width :
                 /\ \A r \in 1 .. Height - 1 : CharAt(Tail(g), r, k) = CharAt(g, r + 1, k)
                 /\ CharAt(Tail(g), Height, k) = Blank
    BY <1>2, <1>3, ScrolledFacts
  <1>9. PICK a \in 1 .. Height, b \in 1 .. Width : i = Spot(a, b)
    BY <1>4, SpotOf
  <1>10. Shifted(i) = CharAt(Tail(g), a, b)
    <2>1. (i < Width * (Height - 1) <=> a < Height) /\ i + Width = Spot(a + 1, b)
      BY <1>9, SpotFacts
    <2>2. Height \in Nat /\ Width \in Nat /\ Width > 0
      BY SizeFacts
    <2>3. CASE a < Height
      <3>1. a \in 1 .. Height - 1 /\ a + 1 \in 1 .. Height
        BY <2>2, <2>3
      <3>2. ~(Spot(a + 1, b) < i)
        BY <1>4, <2>1, <2>2
      <3>3. buffer[Spot(a + 1, b)] = CharAt(g, a + 1, b)
        BY <1>3, <3>1, <3>2 DEF Shifting
      <3>4. Shifted(i) = buffer[Spot(a + 1, b)]
        BY <2>1, <2>3 DEF Shifted
      <3> QED
        BY <1>8, <3>1, <3>3, <3>4
    <2>4. CASE ~(a < Height)
      <3>1. a = Height
        BY <2>2, <2>4
      <3>2. Shifted(i) = Blank
        BY <2>1, <2>4 DEF Shifted
      <3> QED
        BY <1>8, <3>1, <3>2
    <2> QED
      BY <2>3, <2>4
  <1>11. Shifting(g, buffer', i + 1)
    <2> SUFFICES ASSUME NEW r \in 1 .. Height, NEW k \in 1 .. Width
                 PROVE  buffer'[Spot(r, k)] = IF Spot(r, k) < i + 1 THEN CharAt(Tail(g), r, k) ELSE CharAt(g, r, k)
      BY DEF Shifting
    <2>1. Spot(r, k) \in 0 .. Size - 1
      BY SpotFacts
    <2>2. CASE Spot(r, k) = i
      <3>1. r = a /\ k = b
        BY <1>9, <2>2, SpotUnique
      <3>2. buffer'[Spot(r, k)] = CharAt(Tail(g), a, b)
        BY <1>2, <1>4, <1>6, <1>10, <2>2
      <3>3. Spot(r, k) < i + 1
        BY <1>4, <2>2
      <3> QED
        BY <3>1, <3>2, <3>3
    <2>3. CASE Spot(r, k) # i
      <3>1. buffer'[Spot(r, k)] = buffer[Spot(r, k)]
        BY <1>2, <1>6, <2>1, <2>3
      <3>2. Spot(r, k) < i + 1 <=> Spot(r, k) < i
        BY <1>2, <1>4, <2>1, <2>3
      <3> QED
        BY <1>3, <3>1, <3>2 DEF Shifting
    <2> QED
      BY <2>2, <2>3
  <1>12. CASE i + 1 = Size
    <2>1. Laid(Tail(g), buffer')
      <3> SUFFICES ASSUME NEW r \in 1 .. Height, NEW k \in 1 .. Width PROVE buffer'[Spot(r, k)] = CharAt(Tail(g), r, k)
        BY DEF Laid
      <3>1. Spot(r, k) \in 0 .. Size - 1
        BY SpotFacts
      <3>2. Spot(r, k) < i + 1
        BY <1>2, <1>12, <3>1
      <3> QED
        BY <1>11, <3>2 DEF Shifting
    <2>2. Screen(Scrolled(g), buffer', cursor')
      <3>1. Scrolled(g) = Tail(g) /\ Height <= Height
        BY <1>3, SizeFacts DEF Scrolled
      <3> QED
        BY <1>3, <1>6, <1>8, <2>1, <3>1 DEF Screen
    <2>3. p = "index low"
      BY <1>12 DEF p
    <2> QED
      BY <1>2, <1>5, <1>6, <1>7, <2>2, <2>3 DEF Stage, Working, Showing
  <1>13. CASE i + 1 # Size
    <2>1. p = "shift"
      BY <1>13 DEF p
    <2> QED
      BY <1>2, <1>3, <1>5, <1>6, <1>7, <1>11, <2>1 DEF Stage, Working, Showing
  <1> QED
    BY <1>12, <1>13

\* Setting the hardware cursor changes nothing on the screen.
LEMMA ShowStage ==
    ASSUME DisplayAssumption, DInv, NEW x \in Contexts, NEW p \in Showing, NEW next \in Showing,
           At(x, p), NEW rs, Stage(call[x], buffer, cursor, rs),
           buffer' = buffer, cursor' = cursor, call'[x].pc = next, call'[x].c = call[x].c,
           call'[x].attribute = call[x].attribute
    PROVE  Stage(call'[x], buffer', cursor', rs)
  <1> DEFINE cl == call[x]
             new == call'[x]
             g == Grown(rs, cl)
  <1>1. /\ cl.pc = p /\ Filled(rs) /\ Len(rs) <= Height /\ (cl.c = NEWLINE \/ Written(cl) \in Cells)
    BY StageFacts
  <1>2. Screen(Scrolled(g), buffer, cursor)
    BY <1>1 DEF Stage
  <1>3. Grown(rs, new) = g /\ Written(new) = Written(cl)
    BY SameCall
  <1> HIDE DEF g
  <1>4. new.pc = next /\ new.c = cl.c /\ buffer' = buffer /\ cursor' = cursor
    OBVIOUS
  <1> HIDE DEF new
  <1>5. next \notin Working
    BY DEF Showing, Working
  <1> QED
    BY <1>1, <1>2, <1>3, <1>4, <1>5 DEF Stage, Working, new

-----------------------------------------------------------------------------
\* While nobody prints the screen holds rows; while somebody does, old are the
\* rows that were there, and the screen is as far as the call has come.
RowsInv ==
    /\ AllIdle => \E rs : Screen(rs, buffer, cursor)
    /\ \A x \in Contexts : call[x] # Idle => Stage(call[x], buffer, cursor, old)

\* The rows of the terminal.
RowsShown == IF AllIdle THEN Rows ELSE old

\* What may be given to it, and the rows with that at their end.
Givable == [code : Text \cup Printing \cup {NEWLINE}, attribute : Attributes \cup {DEFAULT}]

WithCell(a, c) ==
    IF c.code = NEWLINE THEN Scrolled(Append(a, <<>>))
    ELSE IF Len(ExtendedBy(a, c)[Len(a)]) = Width THEN Scrolled(Append(ExtendedBy(a, c), <<>>))
    ELSE ExtendedBy(a, c)

\* Steps of Terminal: none, a cell is given, and it is shown.
Nothing == RowsShown' = RowsShown /\ Given' = Given

Gives == RowsShown' = RowsShown /\ Given = <<>> /\ \E c \in Givable : Given' = <<c>>

Shows == Given # <<>> /\ Given' = <<>> /\ RowsShown' = WithCell(RowsShown, Given[1])

\* The screen is blank at first.
LEMMA RowsInit ==
    ASSUME DisplayAssumption, Init
    PROVE  RowsInv /\ RowsShown = <<<<>>>> /\ Given = <<>>
  <1> DEFINE rs == <<<<>>>>
  <1>1. Width \in Nat /\ Width > 0 /\ Height \in Nat /\ Height > 0 /\ Size \in Nat
    BY SizeFacts
  <1>2. rs \in Seq(Seq(Cells)) /\ Len(rs) = 1 /\ rs[1] = <<>> /\ Len(<<>>) = 0
    OBVIOUS
  <1> HIDE DEF rs
  <1>3. Filled(rs) /\ Len(rs) <= Height
    BY <1>1, <1>2 DEF Filled
  <1>4. Behind(rs) = 0
    <2>1. 1 - 1 = 0 /\ Width * 0 + 0 = 0
      BY <1>1
    <2> QED
      BY <1>2, <2>1 DEF Behind
  <1>5. Laid(rs, buffer)
    <2> SUFFICES ASSUME NEW r \in 1 .. Height, NEW k \in 1 .. Width PROVE buffer[Spot(r, k)] = CharAt(rs, r, k)
      BY DEF Laid
    <2>1. buffer[Spot(r, k)] = Blank
      <3>1. Spot(r, k) \in 0 .. Size - 1
        BY SpotFacts
      <3> QED
        BY <3>1 DEF Init
    <2>2. CharAt(rs, r, k) = Blank
      <3>1. r <= 1 => r = 1
        BY <1>1
      <3>2. ~(k <= 0)
        BY <1>1
      <3> QED
        BY <1>2, <3>1, <3>2 DEF CharAt
    <2> QED
      BY <2>1, <2>2
  <1>6. Screen(rs, buffer, cursor)
    BY <1>3, <1>4, <1>5 DEF Screen, Init
  <1>7. AllIdle /\ \A x \in Contexts : call[x] = Idle
    BY DEF Init, AllIdle
  <1>8. Rows = rs
    BY <1>6, RowsAre
  <1>9. Given = <<>>
    BY <1>7 DEF Given, Contexts
  <1> QED
    BY <1>6, <1>7, <1>8, <1>9 DEF RowsInv, RowsShown, rs

\* A step inside of a call is none of the terminal's.
LEMMA InsideStep ==
    ASSUME DisplayAssumption, ~Interruptible, DInv, RowsInv, NEW x \in Contexts, call[x] # Idle,
           call'[x].pc # "idle", call'[x].c = call[x].c, call'[x].attribute = call[x].attribute,
           \A y \in Contexts : y # x => call'[y] = call[y], old' = old,
           Stage(call'[x], buffer', cursor', old)
    PROVE  RowsInv' /\ Nothing
  <1>1. call'[x] # Idle
    BY IdleFacts
  <1>2. ~AllIdle /\ ~AllIdle'
    BY <1>1 DEF AllIdle
  <1>3. RowsShown = old /\ RowsShown' = old
    BY <1>2 DEF RowsShown
  <1>4. ASSUME NEW y \in Contexts, call'[y] # Idle PROVE Stage(call'[y], buffer', cursor', old')
    <2>1. y = x
      <3>1. Alone
        BY DEF DInv
      <3>2. y # x => call[y] = Idle
        BY <3>1 DEF Alone, Contexts
      <3> QED
        BY <1>4, <3>2
    <2> QED
      BY <2>1
  <1>5. Given' = Given
    <2>1. Alone
      BY DEF DInv
    <2>2. CASE x = "main"
      BY <1>1, <2>2 DEF Given, Argument
    <2>3. CASE x = "irq"
      <3>1. call["main"] = Idle /\ call'["main"] = Idle
        BY <2>1, <2>3 DEF Alone, Contexts
      <3> QED
        BY <1>1, <2>3, <3>1 DEF Given, Argument
    <2> QED
      BY <2>2, <2>3 DEF Contexts
  <1> QED
    BY <1>2, <1>3, <1>4, <1>5 DEF RowsInv, Nothing

\* The rows depend on the screen and the cursor alone.
LEMMA SameRows ==
    ASSUME buffer' = buffer, cursor' = cursor
    PROVE  Rows' = Rows
  BY DEF Rows, Row

\* The last step of a call is one.
LEMMA LastStep ==
    ASSUME DisplayAssumption, ~Interruptible, DInv, RowsInv, NEW x \in Contexts, NEW p \in Showing,
           At(x, p), call' = [call EXCEPT ![x] = Idle], buffer' = buffer, cursor' = cursor
    PROVE  RowsInv' /\ Shows
  <1> DEFINE cl == call[x]
             g == Grown(old, cl)
  <1>1. At(x, p) /\ buffer' = buffer /\ cursor' = cursor
    OBVIOUS
  <1>2. call[x] # Idle
    <2>1. call[x].pc # "idle"
      BY <1>1 DEF At, Showing
    <2>2. Idle.pc = "idle"
      BY DEF Idle
    <2> QED
      BY <2>1, <2>2
  <1>3. Stage(cl, buffer, cursor, old)
    BY <1>2 DEF RowsInv
  <1>4. /\ cl.pc \in Showing /\ Filled(old) /\ Len(old) <= Height /\ (cl.c = NEWLINE \/ Written(cl) \in Cells)
        /\ call \in [Contexts -> Call]
    BY <1>1, <1>3, StageFacts DEF Types
  <1>5. Screen(Scrolled(g), buffer, cursor)
    BY <1>3, <1>4 DEF Stage, Showing
  <1>6. \A y \in Contexts : call'[y] = Idle
    <2>1. call' = [call EXCEPT ![x] = Idle]
      OBVIOUS
    <2>2. \A y \in Contexts : y # x => call[y] = Idle
      <3>1. Alone
        BY DEF DInv
      <3> SUFFICES ASSUME NEW y \in Contexts, y # x PROVE call[y] = Idle
        OBVIOUS
      <3> QED
        BY <1>2, <3>1 DEF Alone, Contexts
    <2> QED
      BY <1>4, <2>1, <2>2
  <1>7. AllIdle' /\ ~AllIdle
    BY <1>2, <1>6 DEF AllIdle
  <1> HIDE DEF g
  <1>8. Rows' = Scrolled(g)
    <2>1. Rows = Scrolled(g)
      BY <1>5, RowsAre
    <2>2. Rows' = Rows
      BY <1>1, SameRows
    <2> QED
      BY <2>1, <2>2
  <1>9. RowsShown = old /\ RowsShown' = Scrolled(g)
    BY <1>7, <1>8 DEF RowsShown
  <1>10. Scrolled(g) = WithCell(old, Written(cl))
    <2>1. CASE cl.c = NEWLINE
      <3>1. g = Append(old, <<>>)
        BY <2>1 DEF g, Grown
      <3> QED
        BY <2>1, <3>1 DEF WithCell, Written
    <2>2. CASE cl.c # NEWLINE
      <3> DEFINE w == Written(cl)
                 e == ExtendedBy(old, w)
      <3>1. w \in Cells /\ g = Typed(old, w) /\ w.code # NEWLINE
        BY <1>4, <2>2 DEF g, Grown, Written
      <3> HIDE DEF w
      <3>2. Len(e) = Len(old)
        BY <1>4, <3>1, ExtendedFacts
      <3>3. ~(Len(old) > Height)
        <4>1. Filled(old) /\ Len(old) <= Height
          BY <1>4
        <4>2. Len(old) \in 1 .. Height
          BY <4>1, LastRow
        <4>3. Height \in Nat
          BY SizeFacts
        <4> QED
          BY <4>2, <4>3
      <3>4. Scrolled(e) = e
        BY <3>2, <3>3 DEF Scrolled
      <3>5. Scrolled(g) = IF Len(e[Len(old)]) = Width THEN Scrolled(Append(e, <<>>)) ELSE e
        BY <3>1, <3>4 DEF Typed
      <3> QED
        BY <3>1, <3>5 DEF WithCell, w
    <2> QED
      BY <2>1, <2>2
  <1>11. RowsInv'
    <2>1. \E rs : Screen(rs, buffer', cursor')
      BY <1>1, <1>5
    <2> QED
      BY <1>6, <2>1 DEF RowsInv
  <1>12. Given = <<Written(cl)>>
    <2>1. Alone /\ x \in {"main", "irq"}
      BY DEF DInv, Contexts
    <2> QED
      BY <1>2, <2>1 DEF Alone, Given, Argument, Written
  <1>13. Given' = <<>>
    BY <1>6 DEF Given, Contexts
  <1>14. Given # <<>> /\ Given[1] = Written(cl)
    BY <1>12
  <1> QED
    BY <1>9, <1>10, <1>11, <1>13, <1>14 DEF Shows

\* A call finds the rows that are shown.
LEMMA FirstStep ==
    ASSUME DisplayAssumption, DInv, RowsInv, NEW x \in Contexts, AllIdle,
           NEW c \in Text \cup Printing \cup {NEWLINE}, NEW attribute \in Attributes \cup {DEFAULT},
           Enter(x, c, attribute), old' = Rows, buffer' = buffer, cursor' = cursor
    PROVE  RowsInv' /\ Gives
  <1> DEFINE p   == IF c = NEWLINE THEN "load" ELSE "code"
             new == [Idle EXCEPT !.pc = p, !.c = c, !.attribute = attribute]
  <1>1. Screen(Rows, buffer, cursor)
    <2>1. PICK rs : Screen(rs, buffer, cursor)
      BY DEF RowsInv
    <2> QED
      BY <2>1, RowsAre
  <1> DEFINE rs == Rows
  <1>2. Filled(rs) /\ Len(rs) <= Height /\ Laid(rs, buffer) /\ cursor = Behind(rs)
    BY <1>1 DEF Screen
  <1>3. call \in [Contexts -> Call] /\ call' = [call EXCEPT ![x] = new]
    BY DEF DInv, Types, Enter
  <1>4. new.pc = p /\ new.c = c /\ new.attribute = attribute
    BY DEF Idle
  <1>5. call'[x] = new /\ \A y \in Contexts : y # x => call'[y] = Idle
    BY <1>3 DEF AllIdle
  <1>6. p \in {"load", "code"} /\ (p = "load" <=> c = NEWLINE)
    OBVIOUS
  <1>7. ~AllIdle'
    <2>1. new # Idle
      <3>1. new.pc # "idle"
        BY <1>4, <1>6
      <3>2. Idle.pc = "idle"
        BY DEF Idle
      <3> HIDE DEF new
      <3> QED
        BY <3>1, <3>2
    <2> QED
      BY <1>5, <2>1 DEF AllIdle
  <1> HIDE DEF new, p, rs
  <1>8. new.c = NEWLINE \/ Written(new) \in Cells
    BY <1>4 DEF Written, Cells
  <1>9. c = NEWLINE => Laid(Grown(rs, new), buffer)
    <2> SUFFICES ASSUME c = NEWLINE PROVE Laid(Grown(rs, new), buffer)
      OBVIOUS
    <2>1. \A r \in 1 .. Height, k \in 1 .. Width : CharAt(Grown(rs, new), r, k) = CharAt(rs, r, k)
      BY <1>2, <1>4, <1>8, GrownFacts
    <2> QED
      BY <1>2, <2>1 DEF Laid
  <1>10. Stage(new, buffer, cursor, rs)
    BY <1>2, <1>4, <1>6, <1>8, <1>9 DEF Stage, Working, Showing
  <1>11. RowsShown = rs /\ RowsShown' = rs
    BY <1>7 DEF RowsShown, rs
  <1>12. RowsInv'
    <2>1. \A y \in Contexts : call'[y] # Idle => Stage(call'[y], buffer', cursor', old')
      BY <1>5, <1>10 DEF rs
    <2> QED
      BY <1>7, <2>1 DEF RowsInv
  <1>13. Given = <<>>
    BY DEF AllIdle, Given, Contexts
  <1>14. Given' = <<Written(new)>>
    <2>1. new # Idle
      BY <1>5, <1>7 DEF AllIdle
    <2>2. CASE x = "main"
      BY <1>5, <2>1, <2>2 DEF Given, Argument, Written
    <2>3. CASE x = "irq"
      <3>1. call'["main"] = Idle
        BY <1>5, <2>3 DEF Contexts
      <3> QED
        BY <1>5, <2>1, <2>3, <3>1 DEF Given, Argument, Written
    <2> QED
      BY <2>2, <2>3 DEF Contexts
  <1>15. Written(new) \in Givable
    BY <1>4 DEF Written, Givable
  <1> QED
    BY <1>11, <1>12, <1>13, <1>14, <1>15 DEF Gives

\* Nothing that the rows depend on changes.
LEMMA QuietStep ==
    ASSUME RowsInv, buffer' = buffer, cursor' = cursor, call' = call, AllIdle \/ old' = old
    PROVE  RowsInv' /\ Nothing
  <1>1. AllIdle' = AllIdle /\ Rows' = Rows
    BY DEF AllIdle, Rows, Row
  <1>2. \A x \in Contexts : call[x] # Idle => old' = old
    BY DEF AllIdle
  <1>3. Given' = Given
    BY DEF Given, Argument
  <1> QED
    BY <1>1, <1>2, <1>3 DEF RowsInv, RowsShown, Nothing

\* Each step of the display is a step of the terminal, or none of its.
LEMMA RowsStep ==
    ASSUME DisplayAssumption, ~Interruptible, DInv, RowsInv, [Next]_vars
    PROVE  RowsInv' /\ (Nothing \/ Gives \/ Shows)
  <1> DEFINE Goal == RowsInv' /\ (Nothing \/ Gives \/ Shows)
  <1>1. ASSUME NEW c \in Text, NEW attribute \in Attributes, printf(c, attribute) PROVE Goal
    <2>1. At("main", "idle") /\ "main" \in Contexts
      BY <1>1 DEF printf, Contexts
    <2>2. call["main"] = Idle /\ call["irq"] = Idle
      BY <2>1, AtFacts DEF Placed
    <2>3. AllIdle
      BY <2>2 DEF AllIdle, Contexts
    <2>4. old' = Rows /\ buffer' = buffer /\ cursor' = cursor /\ Enter("main", c, attribute)
      BY <1>1 DEF printf
    <2> QED
      BY <2>1, <2>3, <2>4, FirstStep
  <1>2. ASSUME NEW key \in Printing \cup {RETURN} \cup Silent, handle_irq(key) PROVE Goal
    <2>1. call["irq"] = Idle /\ call["main"] = Idle /\ old' = Rows /\ buffer' = buffer /\ cursor' = cursor
      BY <1>2 DEF handle_irq
    <2>2. AllIdle /\ "irq" \in Contexts
      BY <2>1 DEF AllIdle, Contexts
    <2>3. CASE get_char(key) = NUL
      <3>1. call' = call
        BY <1>2, <2>3 DEF handle_irq
      <3> QED
        BY <2>1, <2>2, <3>1, QuietStep
    <2>4. CASE get_char(key) # NUL
      <3>1. get_char(key) \in Text \cup Printing \cup {NEWLINE}
        BY <2>4 DEF get_char
      <3>2. Enter("irq", get_char(key), DEFAULT)
        BY <1>2, <2>4 DEF handle_irq
      <3> QED
        BY <2>1, <2>2, <3>1, <3>2, FirstStep
    <2> QED
      BY <2>3, <2>4
  <1>3. ASSUME NEW x \in Contexts, NEW p, NEW next, p # "idle", next # "idle", At(x, p),
               next \in Places,
               call'[x].pc = next, call'[x].c = call[x].c, call'[x].attribute = call[x].attribute,
               \A y \in Contexts : y # x => call'[y] = call[y], old' = old,
               Stage(call[x], buffer, cursor, old) => Stage(call'[x], buffer', cursor', old)
        PROVE  Goal
    <2>1. call[x] # Idle
      BY <1>3, AtFacts, IdleFacts
    <2>2. Stage(call[x], buffer, cursor, old)
      BY <2>1 DEF RowsInv
    <2> QED
      BY <1>3, <2>1, <2>2, InsideStep
  <1>4. Types
    BY DEF DInv
  <1>5. ASSUME NEW x \in Contexts, NEW next \in Places \ {"idle"},
               NEW p, p # "idle", At(x, p), Goto(x, next), old' = old,
               Stage(call[x], buffer, cursor, old) => Stage(call'[x], buffer', cursor', old)
        PROVE  Goal
    <2>1. /\ call'[x].pc = next /\ call'[x].c = call[x].c /\ call'[x].attribute = call[x].attribute
          /\ \A y \in Contexts : y # x => call'[y] = call[y]
      BY <1>4, <1>5, JumpFacts
    <2> QED
      BY <1>3, <1>5, <2>1
  <1>6. ASSUME NEW x \in Contexts, StoreCode(x) PROVE Goal
    <2>1. At(x, "putcode") /\ Goto(x, "attribute") /\ old' = old
      BY <1>6 DEF StoreCode
    <2> HIDE DEF Goal
    <2> QED
      BY <1>5, <1>6, <2>1, CodeStage DEF Early, Places
  <1>7. ASSUME NEW x \in Contexts, StoreAttribute(x) PROVE Goal
    <2>1. At(x, "putattribute") /\ Goto(x, "load") /\ old' = old
      BY <1>7 DEF StoreAttribute
    <2> HIDE DEF Goal
    <2> QED
      BY <1>5, <1>7, <2>1, AttributeStage DEF Early, Places
  <1>8. ASSUME NEW x \in Contexts, LoadCursor(x) PROVE Goal
    <2>1. cursor \in Nat /\ cursor + 1 \in Nat
      BY <1>4 DEF Types
    <2>2. call[x].t \in Nat /\ Advanced(x) \in Nat
      <3>1. call[x] \in Call
        BY <1>4 DEF Types
      <3>2. call[x].t \in Nat
        BY <3>1 DEF Call
      <3> QED
        BY <2>1, <3>2, AdvancedFacts
    <2>3. PICK p \in Early, next \in Early \cup {"store"}, v \in Nat : Load(x, p, next, v)
      BY <1>8, <2>1, <2>2 DEF LoadCursor, Early
    <2>4. next \in Places /\ p # "idle" /\ next # "idle"
      BY DEF Places, Early
    <2>5. /\ At(x, p) /\ call'[x].pc = next /\ call'[x].c = call[x].c /\ call'[x].attribute = call[x].attribute
          /\ \A y \in Contexts : y # x => call'[y] = call[y]
          /\ old' = old
      BY <1>4, <2>3, <2>4, LoadFacts
    <2> HIDE DEF Goal
    <2> QED
      BY <1>3, <1>8, <2>4, <2>5, LoadStage
  <1>9. ASSUME NEW x \in Contexts, StoreCursor(x) PROVE Goal
    <2>1. At(x, "store") /\ Goto(x, "update") /\ old' = old
      BY <1>9 DEF StoreCursor
    <2> HIDE DEF Goal
    <2> QED
      BY <1>5, <1>9, <2>1, CursorStage DEF Places, Ahead
  <1>10. ASSUME NEW x \in Contexts, CheckFull(x) PROVE Goal
    <2> DEFINE next == IF Full THEN "reset" ELSE "index low"
    <2>1. At(x, "update") /\ Goto(x, next) /\ old' = old
      BY <1>10 DEF CheckFull
    <2>2. next \in Places /\ next # "idle"
      BY DEF Settled, Ahead, Places
    <2> HIDE DEF next
    <2> HIDE DEF Goal
    <2> QED
      BY <1>5, <1>10, <2>1, <2>2, FullStage
  <1>21. ASSUME NEW x \in Contexts, ResetCursor(x) PROVE Goal
    <2>1. At(x, "reset") /\ call' = [call EXCEPT ![x].pc = "shift", ![x].i = 0] /\ old' = old
      BY <1>21 DEF ResetCursor
    <2>2. call \in [Contexts -> Call] /\ call[x] \in Call
      BY <1>4 DEF Types
    <2>3. "shift" \in Places
      BY DEF Settled, Places
    <2>4. /\ call'[x].pc = "shift" /\ call'[x].c = call[x].c /\ call'[x].attribute = call[x].attribute
          /\ \A y \in Contexts : y # x => call'[y] = call[y]
      BY <2>1, <2>2 DEF Call
    <2> HIDE DEF Goal
    <2> QED
      BY <1>3, <1>21, <2>1, <2>3, <2>4, ResetStage
  <1>11. ASSUME NEW x \in Contexts, ShiftCell(x) PROVE Goal
    <2> DEFINE i == call[x].i
               next == IF i + 1 = Size THEN "index low" ELSE "shift"
    <2>1. At(x, "shift") /\ call' = [call EXCEPT ![x].pc = next, ![x].i = i + 1] /\ old' = old
      BY <1>11 DEF ShiftCell
    <2>2. call \in [Contexts -> Call] /\ call[x] \in Call
      BY <1>4 DEF Types
    <2>3. next \in Places /\ next # "idle"
      BY DEF Settled, Places
    <2> HIDE DEF next, i
    <2>4. /\ call'[x].pc = next /\ call'[x].c = call[x].c /\ call'[x].attribute = call[x].attribute
          /\ \A y \in Contexts : y # x => call'[y] = call[y]
      BY <2>1, <2>2 DEF Call
    <2> HIDE DEF Goal
    <2> QED
      BY <1>3, <1>11, <2>1, <2>3, <2>4, ShiftStage
  <1>12. ASSUME NEW x \in Contexts, NEW p \in Showing, NEW next \in Showing, At(x, p), old' = old,
                buffer' = buffer, cursor' = cursor, call'[x].pc = next, call'[x].c = call[x].c,
                call'[x].attribute = call[x].attribute, \A y \in Contexts : y # x => call'[y] = call[y]
         PROVE  Goal
    <2>1. p # "idle" /\ next # "idle" /\ next \in Places
      BY DEF Showing, Settled, Places
    <2>2. Stage(call[x], buffer, cursor, old) => Stage(call'[x], buffer', cursor', old)
      BY <1>12, ShowStage
    <2> HIDE DEF Goal
    <2> QED
      BY <1>3, <1>12, <2>1, <2>2
  <1>13. ASSUME NEW x \in Contexts, NEW reg, NEW p \in Showing, NEW next \in Showing, Select(x, reg, p, next)
         PROVE  Goal
    <2>1. At(x, p) /\ Goto(x, next) /\ old' = old /\ buffer' = buffer /\ cursor' = cursor
      BY <1>13 DEF Select
    <2>2. next \in Places
      BY DEF Showing, Settled, Places
    <2>3. call'[x].pc = next /\ call'[x].c = call[x].c /\ call'[x].attribute = call[x].attribute
          /\ \A y \in Contexts : y # x => call'[y] = call[y]
      BY <1>4, <2>1, <2>2, JumpFacts
    <2> HIDE DEF Goal
    <2> QED
      BY <1>12, <2>1, <2>3
  <1>14. ASSUME NEW x \in Contexts, NEW reg, NEW p \in Showing, NEW next \in Showing, Load(x, p, next, Half(reg))
         PROVE  Goal
    <2>1. Half(reg) \in Nat
      <3>1. cursor % Byte \in Nat /\ cursor \div Byte \in Nat
        BY <1>4, SizeFacts, Division DEF Types
      <3> QED
        BY <3>1 DEF Half
    <2>2. next \in Places
      BY DEF Showing, Settled, Places
    <2>3. /\ At(x, p) /\ call'[x].pc = next /\ call'[x].c = call[x].c /\ call'[x].attribute = call[x].attribute
          /\ \A y \in Contexts : y # x => call'[y] = call[y]
          /\ old' = old /\ buffer' = buffer /\ cursor' = cursor
      BY <1>4, <1>14, <2>1, <2>2, LoadFacts
    <2> HIDE DEF Goal
    <2> QED
      BY <1>12, <2>3
  <1>15. ASSUME NEW x \in Contexts, OutHalf(x, "out low", "index high") PROVE Goal
    <2>1. /\ At(x, "out low") /\ call' = [call EXCEPT ![x] = [@ EXCEPT !.pc = "index high"]]
          /\ old' = old /\ buffer' = buffer /\ cursor' = cursor
      BY <1>15 DEF OutHalf
    <2>2. call \in [Contexts -> Call] /\ call[x] \in Call
      BY <1>4 DEF Types
    <2>3. call'[x].pc = "index high" /\ call'[x].c = call[x].c /\ call'[x].attribute = call[x].attribute
          /\ \A y \in Contexts : y # x => call'[y] = call[y]
      BY <2>1, <2>2 DEF Call
    <2>4. "out low" \in Showing /\ "index high" \in Showing
      BY DEF Showing
    <2> HIDE DEF Goal
    <2> QED
      BY <1>12, <2>1, <2>3, <2>4
  <1>16. ASSUME NEW x \in Contexts, OutHalf(x, "out high", "idle") PROVE Goal
    <2> DEFINE p == "out high"
    <2>1. p \in Showing
      BY DEF Showing
    <2>2. At(x, p) /\ call' = [call EXCEPT ![x] = Idle] /\ buffer' = buffer /\ cursor' = cursor
      BY <1>16 DEF OutHalf
    <2> HIDE DEF p
    <2> QED
      BY <2>1, <2>2, LastStep
  <1>17. vars' = vars => Goal
    BY QuietStep DEF vars
  <1> HIDE DEF Goal
  <1>18. ASSUME NEW x \in Contexts, UpdateCursor(x) PROVE Goal
    <2>1. {"index low", "load low", "out low", "index high", "load high", "out high"} = Showing
      BY DEF Showing
    <2> QED
      BY <1>13, <1>14, <1>15, <1>16, <1>18, <2>1 DEF UpdateCursor
  <1>19. Next => Goal
    <2>1. ASSUME \E c \in Text, attribute \in Attributes : printf(c, attribute) PROVE Goal
      BY <1>1, <2>1, Zenon
    <2>2. ASSUME \E key \in Printing \cup {RETURN} \cup Silent : handle_irq(key) PROVE Goal
      BY <1>2, <2>2, Zenon
    <2>3. ASSUME NEW x \in Contexts,
                 \/ StoreCode(x) \/ StoreAttribute(x) \/ LoadCursor(x) \/ StoreCursor(x)
                 \/ CheckFull(x) \/ ResetCursor(x) \/ ShiftCell(x) \/ UpdateCursor(x)
          PROVE  Goal
      BY <1>6, <1>7, <1>8, <1>9, <1>10, <1>11, <1>18, <1>21, <2>3, Zenon
    <2> QED
      BY <2>1, <2>2, <2>3, Zenon DEF Next
  <1>20. Goal
    <2>1. Next \/ vars' = vars
      OBVIOUS
    <2> QED
      BY <1>17, <1>19, <2>1, Zenon
  <1> QED
    BY <1>20 DEF Goal

\* When no echo interrupts main the screen is a terminal (ShowsRows): on a screen of
\* any size each call puts the character it is given, in the colour it is given,
\* behind all that was printed and typed before, and the last rows of it are shown.
THEOREM ShowsRowsSafe ==
    ASSUME DisplayAssumption, ~Interruptible
    PROVE  Spec => ShowsRows
  <1>1. Init => RowsInv /\ T!Init
    BY RowsInit DEF T!Init, RowsShown
  <1>2. ASSUME Nothing \/ Gives \/ Shows PROVE [T!Next]_<<IF AllIdle THEN Rows ELSE old, Given>>
    <2>1. CASE Nothing
      BY <2>1 DEF Nothing, RowsShown
    <2>2. CASE Gives
      BY <2>2 DEF Gives, RowsShown, Givable, T!Next, T!Give
    <2>3. CASE Shows
      BY <2>3 DEF Shows, RowsShown, WithCell, Scrolled, ExtendedBy, T!Next, T!Show, T!With, T!Scrolled, T!Extended
    <2> QED
      BY <1>2, <2>1, <2>2, <2>3
  <1>3. DInv /\ RowsInv /\ [Next]_vars => RowsInv' /\ [T!Next]_<<IF AllIdle THEN Rows ELSE old, Given>>
    BY <1>2, RowsStep
  <1> QED
    BY <1>1, <1>3, DInvInvariant, PTL DEF Spec, ShowsRows, T!Spec

=============================================================================

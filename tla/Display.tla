------------------------------ MODULE Display -------------------------------
(***************************************************************************)
(* kernel/src/display/display.c: the text screen, its cursor, and the two  *)
(* contexts that print on it: main (or a process that calls into it), and  *)
(* the keyboard handler of drivers/keyboard.c, which echoes what is typed. *)
(*                                                                         *)
(* The kernel is built without optimisation: every use of the static       *)
(* cursor is a load of memory, and every assignment a store.  An interrupt *)
(* may come between any two of them; the handler itself is not             *)
(* interrupted.  The text controller (CRTC) has an index register that     *)
(* selects which of its registers the data port stands for.                *)
(***************************************************************************)
EXTENDS Integers, Sequences, FiniteSetsExt

CONSTANTS
    Width, Height,      \* DISPLAY_WIDTH and DISPLAY_HEIGHT
    Text,               \* the characters main prints
    Attributes,         \* the colours it prints in
    Printing, Silent,   \* keys that stand for a character, and other scan codes
    Interruptible,      \* whether main prints with interrupts on
    Byte                \* a byte holds 0 .. Byte - 1

NUL     == "NUL"
NEWLINE == "NEWLINE"
RETURN  == "RETURN"
DEFAULT == "DEFAULT"

Size == Width * Height

DisplayAssumption ==
    /\ {Width, Height, Byte} \subseteq Nat \ {0}
    /\ NUL \notin Text \cup Printing /\ NEWLINE \notin Printing
    /\ RETURN \notin Printing /\ Interruptible \in BOOLEAN

VARIABLES
    buffer,     \* the screen: a character and its colour for each place
    beyond,     \* places after the screen that were stored to
    cursor,
    index,      \* the CRTC register that is selected
    crtc,       \* CRTC registers 0x0F and 0x0E: where the cursor is shown
    call,       \* the putcf each context is in
    old         \* the rows on the screen when putcf was entered, if it is not interrupted

vars == <<buffer, beyond, cursor, index, crtc, call, old>>

Contexts == {"main", "irq"}

Blank == [code |-> NUL, attribute |-> DEFAULT]

Idle == [pc |-> "idle", c |-> NUL, attribute |-> DEFAULT, t |-> 0, i |-> 0]

\* The characters of row r, from 1, up to the last one that is not blank.
Row(r) ==
    LET used == {k \in 1 .. Width : buffer[(r - 1) * Width + k - 1] # Blank}
    IN  [k \in 1 .. Max(used \cup {0}) |-> buffer[(r - 1) * Width + k - 1]]

\* What is on the screen, down to the row of the cursor.
Rows ==
    LET used == {r \in 1 .. Height : Row(r) # <<>>}
    IN  [r \in 1 .. Max(used \cup {cursor \div Width + 1}) |-> Row(r)]

\* After display_init; the cursor is still shown where the BIOS left it.
Init ==
    /\ buffer = [k \in 0 .. Size - 1 |-> Blank]
    /\ beyond = {} /\ cursor = 0
    /\ index = "shape" /\ crtc = [low |-> 0, high |-> 0]
    /\ call = [x \in Contexts |-> Idle]
    /\ old = <<<<>>>>

-----------------------------------------------------------------------------
(***************************************************************************)
(* putcf.  Each action is a load or a store of a context x.                *)
(***************************************************************************)

\* Code outside of a handler runs when no handler does.
At(x, pc) == call[x].pc = pc /\ (x = "main" => call["irq"] = Idle)

Enter(x, c, attribute) ==
    call' = [call EXCEPT ![x] = [Idle EXCEPT !.pc = IF c = NEWLINE THEN "load" ELSE "code",
                                             !.c = c, !.attribute = attribute]]

Goto(x, pc) == call' = [call EXCEPT ![x].pc = pc]

\* A store to place k of the video memory, which goes on after the screen.
Store(k, cell) ==
    IF k < Size THEN buffer' = [buffer EXCEPT ![k] = cell] /\ UNCHANGED beyond
                ELSE beyond' = beyond \cup {k} /\ UNCHANGED buffer

CellAt(k) == IF k < Size THEN buffer[k] ELSE Blank

\* x computes v from cursor, in a register.
Load(x, pc, next, v) ==
    /\ At(x, pc)
    /\ call' = [call EXCEPT ![x].pc = next, ![x].t = v]
    /\ UNCHANGED <<buffer, beyond, cursor, index, crtc, old>>

\* buffer[cursor].code = c.
StoreCode(x) ==
    LET k == call[x].t
    IN  /\ At(x, "putcode")
        /\ Store(k, [CellAt(k) EXCEPT !.code = call[x].c])
        /\ Goto(x, "attribute")
        /\ UNCHANGED <<cursor, index, crtc, old>>

\* The foreground and the background, which share a byte, as one store: nothing is
\* said of the colours of a screen when an echo comes between the two.
StoreAttribute(x) ==
    LET k == call[x].t
    IN  /\ At(x, "putattribute")
        /\ Store(k, [CellAt(k) EXCEPT !.attribute = call[x].attribute])
        /\ Goto(x, "load")
        /\ UNCHANGED <<cursor, index, crtc, old>>

\* Mutant: a newline goes back, by a sign.
Advanced_Minus(x) == call[x].t - (Width - (cursor % Width))

\* cursor += DISPLAY_WIDTH - (cursor % DISPLAY_WIDTH): the sum has been loaded,
\* the remainder is of the cursor as it is now.
Advanced(x) == call[x].t + Width - (cursor % Width)

\* The loads of putcf: of the place for each store to the buffer, and of what is
\* to be advanced, by one or, with a second load, to the next row.
LoadCursor(x) ==
    \/ Load(x, "code", "putcode", cursor)
    \/ Load(x, "attribute", "putattribute", cursor)
    \/ call[x].c # NEWLINE /\ Load(x, "load", "store", cursor + 1)
    \/ call[x].c = NEWLINE /\ Load(x, "load", "remainder", cursor)
    \/ Load(x, "remainder", "store", Advanced(x))

StoreCursor(x) ==
    /\ At(x, "store")
    /\ cursor' = call[x].t
    /\ Goto(x, "update")
    /\ UNCHANGED <<buffer, beyond, index, crtc, old>>

-----------------------------------------------------------------------------
(***************************************************************************)
(* display_update_cursor.                                                  *)
(***************************************************************************)

\* Mutant: the screen is shifted one place too late.
Full_Late == cursor > Size

Full == cursor >= Size

CheckFull(x) ==
    /\ At(x, "update")
    /\ Goto(x, IF Full THEN "reset" ELSE "index low")
    /\ UNCHANGED <<buffer, beyond, cursor, index, crtc, old>>

ResetCursor(x) ==
    /\ At(x, "reset")
    /\ cursor' = Width * (Height - 1)
    /\ call' = [call EXCEPT ![x].pc = "shift", ![x].i = 0]
    /\ UNCHANGED <<buffer, beyond, index, crtc, old>>

\* Mutant: the last row is not cleared.
Shifted_Keeps(i) == IF i < Width * (Height - 1) THEN buffer[i + Width] ELSE buffer[i]

\* What the loops put at place i: the row below, and blanks in the last row.
Shifted(i) == IF i < Width * (Height - 1) THEN buffer[i + Width] ELSE Blank

\* A place is moved in one step: nothing is said of what a screen shows whose
\* shift an echo interrupts.
ShiftCell(x) ==
    LET i == call[x].i
    IN  /\ At(x, "shift")
        /\ buffer' = [buffer EXCEPT ![i] = Shifted(i)]
        /\ call' = [call EXCEPT ![x].pc = IF i + 1 = Size THEN "index low" ELSE "shift",
                                ![x].i = i + 1]
        /\ UNCHANGED <<beyond, cursor, index, crtc, old>>

Select(x, reg, pc, next) ==
    /\ At(x, pc)
    /\ index' = reg
    /\ Goto(x, next)
    /\ UNCHANGED <<buffer, beyond, cursor, crtc, old>>

Half(reg) == IF reg = "low" THEN cursor % Byte ELSE cursor \div Byte

\* The data port stands for the register that is selected now.
OutHalf(x, pc, next) ==
    /\ At(x, pc)
    /\ crtc' = [crtc EXCEPT ![index] = call[x].t]
    /\ call' = [call EXCEPT ![x] = IF next = "idle" THEN Idle ELSE [@ EXCEPT !.pc = next]]
    /\ UNCHANGED <<buffer, beyond, cursor, index, old>>

UpdateCursor(x) ==
    \/ Select(x, "low", "index low", "load low")
    \/ Load(x, "load low", "out low", Half("low"))
    \/ OutHalf(x, "out low", "index high")
    \/ Select(x, "high", "index high", "load high")
    \/ Load(x, "load high", "out high", Half("high"))
    \/ OutHalf(x, "out high", "idle")

-----------------------------------------------------------------------------
\* printf, puts and putc call putcf for each character.
printf(c, attribute) ==
    /\ At("main", "idle")
    /\ Enter("main", c, attribute)
    /\ old' = IF Interruptible THEN old ELSE Rows
    /\ UNCHANGED <<buffer, beyond, cursor, index, crtc>>

\* keyboard.c's handler: the scan code of a key that stands for a character,
\* in lower case, prints it; a release, an arrow or an unknown code is NUL,
\* on which putcf returns.
get_char(key) == IF key \in Printing THEN key ELSE IF key = RETURN THEN NEWLINE ELSE NUL

handle_irq(key) ==
    /\ call["irq"] = Idle
    /\ Interruptible \/ call["main"] = Idle
    /\ IF get_char(key) = NUL THEN UNCHANGED call ELSE Enter("irq", get_char(key), DEFAULT)
    /\ old' = IF Interruptible THEN old ELSE Rows
    /\ UNCHANGED <<buffer, beyond, cursor, index, crtc>>

Next ==
    \/ \E c \in Text, attribute \in Attributes : printf(c, attribute)
    \/ \E key \in Printing \cup {RETURN} \cup Silent : handle_irq(key)
    \/ \E x \in Contexts :
        \/ StoreCode(x) \/ StoreAttribute(x) \/ LoadCursor(x) \/ StoreCursor(x)
        \/ CheckFull(x) \/ ResetCursor(x) \/ ShiftCell(x) \/ UpdateCursor(x)

Spec == Init /\ [][Next]_vars

-----------------------------------------------------------------------------
AllIdle == \A x \in Contexts : call[x] = Idle

\* The state is well typed.
TypeOK ==
    /\ \A k \in 0 .. Size - 1 : /\ buffer[k].code \in Text \cup Printing \cup {NUL}
                                /\ buffer[k].attribute \in Attributes \cup {DEFAULT}
    /\ beyond \subseteq Nat /\ cursor \in Nat
    /\ index \in {"shape", "low", "high"} /\ crtc \in [{"low", "high"} -> Nat]
    /\ DOMAIN call = Contexts /\ \A x \in Contexts : DOMAIN call[x] = DOMAIN Idle

\* When nobody prints the cursor is on the screen, so that the next character
\* has a place there: also when an echo came between any load and store of
\* cursor, or between the last store and the shift.
CursorOnScreen == AllIdle => cursor < Size

\* Printing never strays: an echo may find the cursor past the end, because main
\* was about to shift the screen, and up to a row further when another one came
\* between the two loads of a newline; it stores there and no further.  The video
\* memory is longer than the screen.
NearScreen == beyond \subseteq Size .. Size + Width - 1

\* The cursor is shown where the next character will go.
CursorShown ==
    AllIdle /\ index # "shape" => crtc = [low |-> cursor % Byte, high |-> cursor \div Byte]

\* Every character is put on the screen, which is shifted to make room.  Does
\* not hold when an echo interrupts putcf: README, "Known violations".
OnScreen == beyond = {}

\* The cursor is on the screen when nobody prints, and what is stored beyond
\* is in the row behind it; without interrupts nothing is, and the hardware
\* cursor is where the next character will go.
CursorTrue ==
    /\ CursorOnScreen /\ NearScreen
    /\ ~Interruptible => CursorShown /\ OnScreen

\* The argument of the putcf that is being executed, if one is.
Argument(x) == [code |-> call[x].c, attribute |-> call[x].attribute]

Given ==
    IF call["main"] # Idle THEN <<Argument("main")>>
    ELSE IF call["irq"] # Idle THEN <<Argument("irq")>>
    ELSE <<>>

T == INSTANCE Terminal WITH
        Cells <- [code : Text \cup Printing \cup {NEWLINE}, attribute : Attributes \cup {DEFAULT}],
        rows  <- IF AllIdle THEN Rows ELSE old,
        given <- Given

\* When no echo interrupts main, putcf puts exactly the character and the colour
\* it is given behind all that was printed and typed before, of which the screen
\* shows the last rows.
ShowsRows == T!Spec

=============================================================================

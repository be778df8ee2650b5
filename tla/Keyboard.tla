------------------------------ MODULE Keyboard ------------------------------
(***************************************************************************)
(* kernel/src/drivers/keyboard.c: keyboard_init sets up the controller    *)
(* with interrupts on, while keys are pressed and the handler takes bytes  *)
(* from the port that it reads itself.                                     *)
(*                                                                         *)
(* The controller (8042) is external.  It has one output buffer, which the *)
(* data port shows, also after it was read; a byte in it raises an         *)
(* interrupt if the lowest bit of the configuration says so.  Bytes of the *)
(* keyboard wait until the buffer is free and, if bit 4 is set, longer; if *)
(* bit 6 is set their scan codes are translated.  It takes a command at    *)
(* once, and answers it when it gets to it.                                *)
(***************************************************************************)
EXTENDS Integers, Sequences

CONSTANTS
    Configurations,     \* how the BIOS may have left the controller
    Mapped, Unmapped,   \* scan codes that stand for a character, and others
    MaxKeys             \* keys pressed

VARIABLES
    initial, config,    \* the configuration, at first and now
    queue,              \* bytes that wait for the buffer
    full, data,         \* the buffer
    request,            \* the interrupt is requested
    pc, status,         \* keyboard_init
    typed, echo         \* keys pressed, and the characters shown

vars == <<initial, config, queue, full, data, request, pc, status, typed, echo>>

Bit(byte, n) == (byte \div 2^n) % 2 = 1

\* byte with bit n set, and cleared.
Set(byte, n) == IF Bit(byte, n) THEN byte ELSE byte + 2^n

Clear(byte, n) == IF Bit(byte, n) THEN byte - 2^n ELSE byte

ACK == 250

\* The scan codes of handle_irq are those the controller translates to if bit 6
\* is set; those that stand for a character are less than 64.
KeyboardAssumption ==
    /\ Mapped \subseteq 0 .. 63 /\ Unmapped \subseteq 0 .. 255 /\ Mapped \cap Unmapped = {}
    /\ Configurations \subseteq {byte \in 0 .. 255 : Bit(byte, 6)}
    /\ MaxKeys \in Nat

\* The handler has just been registered; a byte may be there from before.
Init ==
    /\ initial \in Configurations /\ config = initial
    /\ queue = <<>> /\ full \in BOOLEAN /\ data = ACK /\ request = FALSE
    /\ pc = "drain" /\ status = 0
    /\ typed = <<>> /\ echo = <<>>

-----------------------------------------------------------------------------
(***************************************************************************)
(* The controller and the keyboard.                                        *)
(***************************************************************************)
Press(key) ==
    /\ Len(typed) < MaxKeys
    /\ typed' = Append(typed, key) /\ queue' = Append(queue, key)
    /\ UNCHANGED <<initial, config, full, data, request, pc, status, echo>>

Put(byte) == full' = TRUE /\ data' = byte /\ request' = Bit(config, 0)

\* A byte as it arrives: without translation a key has some other code.
Arriving(byte) == IF Bit(config, 6) THEN {byte} ELSE {byte} \cup Mapped \cup Unmapped

Transfer ==
    /\ queue # <<>> /\ ~full /\ ~Bit(config, 4)
    /\ \E byte \in Arriving(Head(queue)) : Put(byte)
    /\ queue' = Tail(queue)
    /\ UNCHANGED <<initial, config, pc, status, typed, echo>>

-----------------------------------------------------------------------------
\* Mutant: the byte is shown without being read.
Taken_Not == full

\* Reading the data port empties the buffer.
Taken == FALSE

get_char(byte) == IF byte \in Mapped THEN <<byte>> ELSE <<>>

handle_irq ==
    /\ request /\ request' = FALSE
    /\ full' = Taken
    /\ echo' = echo \o get_char(data)
    /\ UNCHANGED <<initial, config, queue, data, pc, status, typed>>

\* main goes on when no interrupt is requested: they are on.
Step(at, next) == pc = at /\ ~request /\ pc' = next

Drain ==
    /\ \/ ~full /\ Step("drain", "enable") /\ UNCHANGED full
       \/ full /\ Step("drain", "drain") /\ full' = Taken
    /\ UNCHANGED <<initial, config, queue, data, request, status, typed, echo>>

\* Command 0xAE.
Enable ==
    /\ Step("enable", "ask")
    /\ config' = Clear(config, 4)
    /\ UNCHANGED <<initial, queue, full, data, request, status, typed, echo>>

\* Command 0x20: the answer comes before what the keyboard has to send.
Ask ==
    /\ Step("ask", "read")
    /\ queue' = <<config>> \o queue
    /\ UNCHANGED <<initial, config, full, data, request, status, typed, echo>>

\* Interrupts on, the keyboard not disabled.
Wanted(byte) == Clear(Set(byte, 0), 4)

\* The port is read at once: it shows the answer, what was in the buffer before
\* it, or what was read last.
Read ==
    /\ Step("read", "write")
    /\ status' = Wanted(data) /\ full' = Taken
    /\ UNCHANGED <<initial, config, queue, data, request, typed, echo>>

\* Command 0x60 and the configuration; a byte in the buffer now interrupts.
Write ==
    /\ pc = "write" /\ ~request /\ pc' = "scan"
    /\ config' = status /\ request' = (full /\ Bit(status, 0))
    /\ UNCHANGED <<initial, queue, full, data, status, typed, echo>>

\* 0xF4 to the keyboard, which acknowledges it.
Scan ==
    /\ Step("scan", "done")
    /\ queue' = Append(queue, ACK)
    /\ UNCHANGED <<initial, config, full, data, request, status, typed, echo>>

keyboard_init == Drain \/ Enable \/ Ask \/ Read \/ Write \/ Scan

Next ==
    \/ \E key \in Mapped \cup Unmapped : Press(key)
    \/ Transfer \/ handle_irq
    \/ Drain \/ Enable \/ Ask \/ Read \/ Write \/ Scan

\* The controller and the processor go on; nobody has to press a key.
Spec == Init /\ [][Next]_vars /\ WF_vars(Transfer) /\ WF_vars(handle_irq) /\ WF_vars(keyboard_init)

-----------------------------------------------------------------------------
\* The state is well typed.
TypeOK ==
    /\ {config, data, status} \subseteq 0 .. 255 /\ full \in BOOLEAN /\ request \in BOOLEAN
    /\ request => full
    /\ pc \in {"drain", "enable", "ask", "read", "write", "scan", "done"}
    /\ Len(queue) <= MaxKeys + 2 /\ Len(typed) <= MaxKeys

\* The characters shown, and the bytes on their way to be.
Course == echo \o (IF full THEN <<data>> ELSE <<>>) \o queue

\* The places of s that hold the scan code of a character.
Characters(s) == {i \in DOMAIN s : s[i] \in Mapped}

\* No key is shown twice or out of turn, whichever of main and the handler
\* reads it: every character that was or will be shown comes from a key that was
\* pressed, and each from a later one than the character before it.  This is so
\* while scan codes are translated: README, "Known violations".
ShownOnce ==
    Bit(config, 6) =>
        \E key \in [Characters(Course) -> DOMAIN typed] :
            /\ \A i \in Characters(Course) : typed[key[i]] = Course[i]
            /\ \A i, j \in Characters(Course) : i < j => key[i] < key[j]

\* Whatever keyboard_init reads for the configuration, the keyboard works in
\* the end: every byte of it is taken.
AllTaken == <>[](pc = "done") /\ []<>(queue = <<>> /\ ~full)

\* keyboard_init leaves the configuration as it was but for the two bits that it
\* changes.  Does not hold when the answer comes late, or behind a key: README,
\* "Known violations".
Preserved ==
    pc = "done" => \A n \in {1, 2, 3, 5, 6, 7} : Bit(config, n) = Bit(initial, n)

=============================================================================

------------------------------- MODULE Serial -------------------------------
(***************************************************************************)
(* kernel/src/drivers/serial.c and dprintf of kernel/src/debug.c: what is  *)
(* logged goes over the serial line, character by character, without       *)
(* interrupts.                                                             *)
(*                                                                         *)
(* The UART is external.  It has a holding register, which the kernel      *)
(* writes, and a shift register, from which a character goes out on the    *)
(* line; FIFOs are never enabled.  While the divisor latch is selected the *)
(* data port stands for the divisor instead.                               *)
(***************************************************************************)
EXTENDS Integers, Sequences

CONSTANTS
    Length,         \* characters of a message
    Messages,       \* the number of messages that are logged
    Interruptible   \* whether a handler may log while main does

SerialAssumption ==
    {Length, Messages} \subseteq Nat \ {0} /\ Interruptible \in BOOLEAN

Contexts == {"main", "irq"}

Garbled == [message |-> 0, k |-> 0]

VARIABLES
    holding, shift,     \* the UART's registers, each empty or with a character
    latch,              \* the divisor latch is selected
    line,               \* what has arrived at the other end
    call,               \* where each context is
    count,              \* messages begun
    sent,               \* the characters passed to serial_putc so far
    set                 \* how many had been when the speed was set, or -1

vars == <<holding, shift, latch, line, call, count, sent, set>>

Idle == [pc |-> "idle", message |-> 0, k |-> 0]

Init ==
    /\ holding = <<>> /\ shift = <<>> /\ latch = FALSE /\ line = <<>>
    /\ call = [x \in Contexts |-> Idle]
    /\ count = 0 /\ sent = <<>> /\ set = -1

-----------------------------------------------------------------------------
(***************************************************************************)
(* The UART.                                                               *)
(***************************************************************************)
Load ==
    /\ holding # <<>> /\ shift = <<>>
    /\ shift' = holding /\ holding' = <<>>
    /\ UNCHANGED <<latch, line, call, count, sent, set>>

Shift ==
    /\ shift # <<>>
    /\ line' = line \o shift /\ shift' = <<>>
    /\ UNCHANGED <<holding, latch, call, count, sent, set>>

\* A character in the holding register that is written over is lost.
Out(c) == holding' = IF latch THEN holding ELSE <<c>>

-----------------------------------------------------------------------------
At(x, pc) == call[x].pc = pc /\ (x = "main" => call["irq"] = Idle)

\* Handlers log only once the scheduler is enabled, which is after serial_init: a
\* tick that wakes a sleeper and the system calls do.  main as it stands is idle by then.  The listing that
\* follows scheduler_enable, commented out in this revision, logs too, and is
\* then interrupted in the middle of a message.
dprintf(x) ==
    /\ At(x, "idle")
    /\ x = "irq" => set # -1
    /\ x = "irq" => \/ call["main"] = Idle
                    \/ Interruptible /\ call["main"].pc \in {"wait", "out"}
    /\ count < Messages /\ count' = count + 1
    /\ call' = [call EXCEPT ![x] = [pc |-> "wait", message |-> count + 1, k |-> 1]]
    /\ UNCHANGED <<holding, shift, latch, line, sent, set>>

serial_ready == holding = <<>>

Wait(x) ==
    /\ At(x, "wait") /\ serial_ready
    /\ call' = [call EXCEPT ![x].pc = "out"]
    /\ UNCHANGED <<holding, shift, latch, line, count, sent, set>>

\* serial_puts sends strlen characters.
Ends(k) == k = Length

serial_putc(x) ==
    LET c == [message |-> call[x].message, k |-> call[x].k]
    IN  /\ At(x, "out")
        /\ Out(c)
        /\ sent' = Append(sent, c)
        /\ call' = [call EXCEPT ![x] = IF Ends(c.k) THEN Idle
                                       ELSE [pc |-> "wait", message |-> c.message, k |-> c.k + 1]]
        /\ UNCHANGED <<shift, latch, line, count, set>>

\* main sets the line up after it has logged some messages; a character that is
\* on the line when the divisor is written does not arrive as it was sent.
SelectLatch ==
    /\ At("main", "idle") /\ set = -1
    /\ latch' = TRUE /\ set' = Len(sent)
    /\ call' = [call EXCEPT !["main"].pc = "low"]
    /\ UNCHANGED <<holding, shift, line, count, sent>>

WriteDivisor(pc, next) ==
    /\ At("main", pc) /\ latch
    /\ shift' = IF shift = <<>> THEN <<>> ELSE <<Garbled>>
    /\ call' = [call EXCEPT !["main"].pc = next]
    /\ UNCHANGED <<holding, latch, line, count, sent, set>>

\* Mutant: the line is left with the divisor latch selected.
DeselectLatch_Not == latch' = latch

DeselectLatch == latch' = FALSE

SetDataBits ==
    /\ At("main", "bits")
    /\ DeselectLatch
    /\ call' = [call EXCEPT !["main"] = Idle]
    /\ UNCHANGED <<holding, shift, line, count, sent, set>>

serial_init == SelectLatch \/ WriteDivisor("low", "high") \/ WriteDivisor("high", "bits") \/ SetDataBits

Next ==
    \/ Load \/ Shift
    \/ serial_init
    \/ \E x \in Contexts : dprintf(x) \/ Wait(x) \/ serial_putc(x)

\* The UART works and the processor executes what it has begun; nobody has to
\* log anything.
Spec ==
    /\ Init /\ [][Next]_vars
    /\ WF_vars(Load) /\ WF_vars(Shift) /\ WF_vars(serial_init)
    /\ \A x \in Contexts : WF_vars(Wait(x)) /\ WF_vars(serial_putc(x))

-----------------------------------------------------------------------------
InUart == shift \o holding

\* The state is well typed.
TypeOK ==
    /\ Len(holding) \in 0 .. 1 /\ Len(shift) \in 0 .. 1 /\ latch \in BOOLEAN
    /\ \A x \in Contexts : /\ call[x].pc \in {"idle", "wait", "out", "low", "high", "bits"}
                           /\ call[x].message \in 0 .. Messages /\ call[x].k \in 0 .. Length
    /\ count \in 0 .. Messages /\ set \in -1 .. Len(sent)

\* serial_putc waits for the holding register to be empty, so no character is
\* written over another.  Does not hold when a handler that logs interrupts one
\* that does: README, "Known violations".
NothingLost == Len(line \o InUart) = Len(sent)

\* The messages that have been begun, one after the other.
Log ==
    [i \in 1 .. count * Length |-> [message |-> (i - 1) \div Length + 1, k |-> ((i - 1) % Length) + 1]]

\* What arrives is the log: every message whole and in its turn.  Only what was
\* in the UART when its speed was set, two characters at most, may be garbled.
InOrder ==
    \A i \in DOMAIN (line \o InUart) :
        \/ i \in DOMAIN Log /\ (line \o InUart)[i] = Log[i]
        \/ (line \o InUart)[i] = Garbled /\ i \in (set - 1) .. set

\* dprintf, which waits for the UART in a loop, returns.
LogReturns == \A x \in Contexts : []<>(call[x] = Idle)

\* In the end everything that was logged has arrived, after serial_init as it
\* was sent.
AllArrives == <>[](/\ Len(line) = count * Length
                   /\ \A i \in DOMAIN line : i > set => line[i] = Log[i])

=============================================================================

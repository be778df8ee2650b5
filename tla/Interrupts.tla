----------------------------- MODULE Interrupts -----------------------------
(***************************************************************************)
(* kernel/src/cpu and the start of main: interrupt descriptors, the two    *)
(* interrupt controllers (PIC), the dispatch of an interrupt to a handler  *)
(* and the return from it, and the order in which main turns all this on.  *)
(*                                                                         *)
(* The processor and the PICs are hardware, modelled from how the code     *)
(* uses them: a device requests a line, the PIC delivers the request of    *)
(* the highest priority that no line in service blocks, an end of          *)
(* interrupt (EOI) ends the service of the highest line in service.  Lines *)
(* 8 to 15 arrive over line 2 of the first PIC.  The keyboard controller   *)
(* requests line 1 when a byte arrives in its buffer, and not again until  *)
(* that byte has been read.                                                *)
(*                                                                         *)
(* stack holds a record for each interrupt that has been entered and not   *)
(* left; code outside of any handler, of main or of a process, runs when   *)
(* it is empty.                                                            *)
(***************************************************************************)
EXTENDS Integers, Sequences, FiniteSets, FiniteSetsExt, SequencesExt

CONSTANTS
    Lines,      \* the lines on which devices, other than the keyboard, interrupt
    Faults,     \* the exceptions that code may raise
    MaxDepth    \* bound on the nesting of interrupts

ASSUME InterruptsAssumption ==
    /\ Lines \subseteq (0 .. 15) \ {1, 2}
    /\ Faults \subseteq 0 .. 31
    /\ MaxDepth \in Nat

VARIABLES
    boot,       \* how many of the steps BootOrder main has taken
    intr,       \* the interrupt flag of the processor
    idt,        \* irq_init has loaded the descriptor table
    remapped,   \* the PICs deliver lines at 0x20, not where the BIOS put them
    handlers,   \* irq.c's handlers
    irr, isr,   \* lines requested, and lines in service
    obf,        \* the keyboard controller holds a byte
    enabled,    \* scheduler.c's enabled
    stack,      \* the interrupts being handled
    mode        \* "run", "hlt", or "reset" after a triple fault

vars == <<boot, intr, idt, remapped, handlers, irr, isr, obf, enabled, stack, mode>>

Keyboard == 1
Cascade  == 2
Vectors  == 0 .. 47 \cup {128}
NULL     == "NULL"
NoLine   == -1

\* Mutant: interrupts are enabled before there is a descriptor table.
BootOrder_NoTable ==
    <<"exceptions_init", "irq_enable", "irq_init", "pic_init", "syscall_init", "pit_init",
      "keyboard_register", "keyboard_drain", "keyboard_config", "scheduler_enable">>

\* Mutant: the keyboard is drained before its handler is registered.
BootOrder_DrainFirst ==
    <<"exceptions_init", "irq_init", "pic_init", "irq_enable", "syscall_init", "pit_init",
      "keyboard_drain", "keyboard_config", "keyboard_register", "scheduler_enable">>

\* What main does that matters here, in its order.
BootOrder ==
    <<"exceptions_init", "irq_init", "pic_init", "irq_enable", "syscall_init", "pit_init",
      "keyboard_register", "keyboard_drain", "keyboard_config", "scheduler_enable">>

Booted == boot = Len(BootOrder)

Init ==
    /\ boot = 0 /\ intr = FALSE /\ idt = FALSE /\ remapped = FALSE
    /\ handlers = [v \in Vectors |-> NULL]
    /\ irr = {} /\ isr = {} /\ obf = FALSE /\ enabled = FALSE
    /\ stack = <<>> /\ mode = "run"

-----------------------------------------------------------------------------
(***************************************************************************)
(* The devices, the PICs and the processor.                                *)
(***************************************************************************)

\* The bit of the first PIC that stands for line l.
Master(l) == IF l < 8 THEN l ELSE Cascade

Bits(l) == {l, Master(l)}

\* Line l is served before line k.
Precedes(l, k) == Master(l) < Master(k) \/ (Master(l) = Master(k) /\ l < k)

Vector(l) ==
    CASE remapped           -> 32 + l
      [] ~remapped /\ l < 8 -> 8 + l
      [] OTHER              -> 112 + (l - 8)

\* A line of a device.  The handlers take far less than a tick.
Raise(l) ==
    /\ l = 0 => stack = <<>>
    /\ l \notin irr
    /\ irr' = irr \cup {l}
    /\ UNCHANGED <<boot, intr, idt, remapped, handlers, isr, obf, enabled, stack, mode>>

\* A byte arrives from the keyboard.
Key ==
    /\ ~obf
    /\ obf' = TRUE
    /\ irr' = irr \cup {Keyboard}
    /\ UNCHANGED <<boot, intr, idt, remapped, handlers, isr, enabled, stack, mode>>

\* Mutant: handlers are entered with interrupts on.
GateFlag_Trap == intr

\* The gates are interrupt gates, and the entry code begins with cli.
GateFlag == FALSE

\* Entering the handler of vector v, from line l.  Without a descriptor
\* table the processor resets; a vector outside Vectors is isr_ignore's, which
\* returns at once.
Enter(v, l, bits) ==
    LET gated == idt /\ v \in Vectors
        entry == [vector |-> v, line |-> l, bits |-> bits, flag |-> intr, step |-> "entered"]
    IN  /\ stack' = IF gated THEN Append(stack, entry) ELSE stack
        /\ intr' = IF gated THEN GateFlag ELSE intr
        /\ mode' = IF idt THEN "run" ELSE "reset"

\* An interrupt is taken between two instructions, and ends a hlt.
Deliver(l) ==
    /\ mode # "reset" /\ intr /\ Len(stack) < MaxDepth
    /\ l \in irr
    /\ \A k \in irr \ {l} : Precedes(l, k)
    /\ \A b \in isr : IF b < 8 THEN Master(l) < b ELSE Precedes(l, b)
    /\ irr' = irr \ {l}
    /\ isr' = isr \cup Bits(l)
    /\ Enter(Vector(l), l, Bits(l))
    /\ UNCHANGED <<boot, idt, remapped, handlers, obf, enabled>>

\* A request that is gone when the PIC is asked for its vector: the PIC
\* answers with its last line and puts nothing of its own in service.
Spurious(l) ==
    /\ mode # "reset" /\ intr /\ Len(stack) < MaxDepth
    /\ isr = {}
    /\ isr' = Bits(l) \ {l}
    /\ Enter(Vector(l), l, Bits(l) \ {l})
    /\ UNCHANGED <<boot, idt, remapped, handlers, irr, obf, enabled>>

\* Any code may raise an exception, handlers included.
Fault(v) ==
    /\ mode = "run" /\ idt /\ Len(stack) < MaxDepth
    /\ Enter(v, NoLine, {})
    /\ UNCHANGED <<boot, idt, remapped, handlers, irr, isr, obf, enabled>>

\* A process makes a system call.
Syscall ==
    /\ mode = "run" /\ enabled /\ stack = <<>>
    /\ Enter(128, NoLine, {})
    /\ UNCHANGED <<boot, idt, remapped, handlers, irr, isr, obf, enabled>>

-----------------------------------------------------------------------------
(***************************************************************************)
(* main.  Only the order and the effects on interrupts are kept.           *)
(***************************************************************************)
Register(vs, h) == handlers' = [v \in Vectors |-> IF v \in vs THEN h ELSE handlers[v]]

\* Mutant: the loop stops short of the last exceptions.
exceptions_init_Short ==
    Register(0 .. 13, "exception") /\ UNCHANGED <<intr, idt, remapped, irr, isr, obf, enabled>>

exceptions_init ==
    Register(0 .. 31, "exception") /\ UNCHANGED <<intr, idt, remapped, irr, isr, obf, enabled>>

\* isr0 to isr47 and isr128 are entered; every other vector is ignored.
irq_init == idt' = TRUE /\ UNCHANGED <<intr, remapped, handlers, irr, isr, obf, enabled>>

\* ICW1 also makes a PIC forget requests and lines in service.
pic_init ==
    /\ remapped' = TRUE /\ irr' = {} /\ isr' = {}
    /\ UNCHANGED <<intr, idt, handlers, obf, enabled>>

irq_enable == intr' = TRUE /\ UNCHANGED <<idt, remapped, handlers, irr, isr, obf, enabled>>

syscall_init ==
    Register({128}, "syscall") /\ UNCHANGED <<intr, idt, remapped, irr, isr, obf, enabled>>

pit_init == Register({32}, "pit") /\ UNCHANGED <<intr, idt, remapped, irr, isr, obf, enabled>>

keyboard_register ==
    Register({33}, "keyboard") /\ UNCHANGED <<intr, idt, remapped, irr, isr, obf, enabled>>

\* The loop that reads bytes, and the byte read for the configuration.
keyboard_read == obf' = FALSE /\ UNCHANGED <<intr, idt, remapped, handlers, irr, isr, enabled>>

scheduler_enable ==
    enabled' = TRUE /\ UNCHANGED <<intr, idt, remapped, handlers, irr, isr, obf>>

BootStep ==
    LET next == BootOrder[boot + 1]
    IN  /\ mode = "run" /\ stack = <<>> /\ ~Booted
        /\ boot' = IF next = "keyboard_drain" /\ obf THEN boot ELSE boot + 1
        /\ CASE next = "exceptions_init"   -> exceptions_init
             [] next = "irq_init"          -> irq_init
             [] next = "pic_init"          -> pic_init
             [] next = "irq_enable"        -> irq_enable
             [] next = "syscall_init"      -> syscall_init
             [] next = "pit_init"          -> pit_init
             [] next = "keyboard_register" -> keyboard_register
             [] next = "keyboard_drain"    -> keyboard_read
             [] next = "keyboard_config"   -> keyboard_read
             [] next = "scheduler_enable"  -> scheduler_enable
        /\ UNCHANGED <<stack, mode>>

-----------------------------------------------------------------------------
(***************************************************************************)
(* isr.s and irq_handler.                                                  *)
(***************************************************************************)
Top == Last(stack)

\* A non-specific EOI to the PIC whose lines in service are among S.
Eoi(S) == IF S = {} THEN {} ELSE {Min(S)}

FirstPic  == isr \cap 0 .. 7
SecondPic == isr \cap 8 .. 15

\* Mutant: the second PIC is not told.
pic_eoi_First(v) == IF v \in 32 .. 47 THEN isr \ Eoi(FirstPic) ELSE isr

\* Lines in service after pic_eoi(v).
pic_eoi(v) ==
    CASE v \in 32 .. 39 -> isr \ Eoi(FirstPic)
      [] v \in 40 .. 47 -> isr \ (Eoi(FirstPic) \cup Eoi(SecondPic))
      [] OTHER          -> isr

Advance(step) == stack' = [stack EXCEPT ![Len(stack)].step = step]

InHandler(step) == mode = "run" /\ stack # <<>> /\ Top.step = step

\* irq_handler acknowledges the interrupt first of all.
Acknowledge ==
    /\ InHandler("entered")
    /\ isr' = pic_eoi(Top.vector)
    /\ Advance("acknowledged")
    /\ UNCHANGED <<boot, intr, idt, remapped, handlers, irr, obf, enabled, mode>>

\* keyboard.c's handle_irq reads the byte; which character the scan code puts
\* on the display is left out.
keyboard_handle_irq == obf' = FALSE /\ mode' = "run"

exceptions_handle_irq == obf' = obf /\ mode' = "hlt"

\* Then it calls the handler, if there is one, which returns or halts.
Handle ==
    LET h == handlers[Top.vector]
    IN  /\ InHandler("acknowledged")
        /\ h = "pit" => ~enabled
        /\ CASE h = "keyboard"  -> keyboard_handle_irq
             [] h = "exception" -> exceptions_handle_irq
             [] OTHER           -> UNCHANGED <<obf, mode>>
        /\ Advance("handled")
        /\ UNCHANGED <<boot, intr, idt, remapped, handlers, irr, isr, enabled>>

\* scheduler_switch, on a tick or in a system call, does not return: it loads
\* the frame of a context that runs with interrupts on.
Switch ==
    /\ InHandler("acknowledged")
    /\ enabled /\ handlers[Top.vector] \in {"pit", "syscall"}
    /\ stack' = Front(stack)
    /\ intr' = TRUE
    /\ UNCHANGED <<boot, idt, remapped, handlers, irr, isr, obf, enabled, mode>>

\* isr_restore and iret.
Iret ==
    /\ InHandler("handled")
    /\ stack' = Front(stack)
    /\ intr' = Top.flag
    /\ UNCHANGED <<boot, idt, remapped, handlers, irr, isr, obf, enabled, mode>>

\* An assert fails, in main, a process or a handler: _assert executes hlt.
AssertFails ==
    /\ mode = "run"
    /\ stack # <<>> => Top.step = "acknowledged" /\ handlers[Top.vector] \in {"pit", "syscall"}
    /\ mode' = "hlt"
    /\ UNCHANGED <<boot, intr, idt, remapped, handlers, irr, isr, obf, enabled, stack>>

HandlerStep == Acknowledge \/ Handle \/ Switch \/ Iret

Next ==
    \/ \E l \in Lines : Raise(l)
    \/ Key
    \/ \E l \in Lines \cup {Keyboard} : Deliver(l)
    \/ \E l \in {7, 15} : Spurious(l)
    \/ \E v \in Faults : Fault(v)
    \/ Syscall
    \/ BootStep
    \/ HandlerStep
    \/ AssertFails

Spec == Init /\ [][Next]_vars

\* A processor with interrupts on takes a request that the PIC presents, and
\* never stays in one instruction of main or of a handler.
FairSpec ==
    /\ Spec
    /\ WF_vars(BootStep) /\ WF_vars(HandlerStep)
    /\ \A l \in Lines \cup {Keyboard} : SF_vars(Deliver(l))

-----------------------------------------------------------------------------
\* The state is well typed, and the processor has not reset: no interrupt is
\* taken before there is a descriptor for it.
TypeOK ==
    /\ boot \in 0 .. Len(BootOrder)
    /\ {intr, idt, remapped, obf, enabled} \subseteq BOOLEAN
    /\ handlers \in [Vectors -> {NULL, "exception", "syscall", "pit", "keyboard"}]
    /\ irr \subseteq Lines \cup {Keyboard} /\ isr \subseteq 0 .. 15
    /\ mode \in {"run", "hlt"}

\* No handler runs with interrupts on, so each runs to its end before the
\* next interrupt: what scheduler.c, syscall.c and keyboard.c rely on.
HandlersAtomic == intr => stack = <<>>

\* A device's interrupt comes in at the vector the kernel gave its line, never
\* at one of the processor's exceptions, whose handler would halt.
OwnVector == \A i \in DOMAIN stack : stack[i].line # NoLine => stack[i].vector = 32 + stack[i].line

\* A line is in service exactly until its own interrupt is acknowledged: an
\* EOI, spurious interrupts' included, ends the service of no other line, and
\* none is left in service to block the lines after it.
InService ==
    isr = UNION {stack[i].bits : i \in {j \in DOMAIN stack : stack[j].step = "entered"}}

\* A device's interrupt is handled as its own: it comes in at its own vector,
\* and its acknowledgement ends its own service.
Dispatched == OwnVector /\ InService

\* Once an exception has been reported nothing runs any more.
ExceptionIsFinal ==
    (\E i \in DOMAIN stack : stack[i].vector < 32 /\ stack[i].step = "handled")
        => mode = "hlt" /\ ~intr

Dead == mode = "hlt" /\ ~intr

\* Ticks get through: a request of the timer is always taken in the end,
\* switches that never return from irq_handler included.
TimerServed == 0 \in irr ~> (0 \notin irr \/ Dead)

\* The keyboard never hangs: a byte that came at any time, before or while
\* main was setting up interrupts, is not left in the buffer, where it would
\* keep the controller from ever interrupting again.
KeyboardServed == (Booted /\ obf) ~> (~obf \/ Dead)

\* Neither of the two devices that the kernel handles is ever left waiting.
Served == TimerServed /\ KeyboardServed

\* A failed assert is the end, as its message "halt" says.
HaltIsFinal == [][mode = "hlt" => mode' = "hlt"]_vars

=============================================================================

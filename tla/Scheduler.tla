----------------------------- MODULE Scheduler ------------------------------
(***************************************************************************)
(* kernel/src/execution: the preemptive scheduler, the processes it runs   *)
(* and the system calls they make, driven by the PIT's interrupts.         *)
(*                                                                         *)
(* There is one processor.  What runs on it is either main, the kernel's   *)
(* own context, or a process; each has a stack, and an interrupt pushes a  *)
(* frame (regs) on the stack of whatever runs.  The handlers run with      *)
(* interrupts off, so a tick and a system call are each one step; main and *)
(* the processes run with interrupts on and take one step per instruction  *)
(* that matters here.                                                      *)
(*                                                                         *)
(* A frame is reduced to the stack it is on and to how far the owner of    *)
(* that stack had come, a counter modulo Steps; a saved stack pointer is   *)
(* the frame it points to.                                                 *)
(***************************************************************************)
EXTENDS Integers, Sequences, SequencesExt

CONSTANTS
    Procs,      \* the processes main may create
    KERNEL,     \* the context of main
    NULL,
    Sleeps,     \* the milliseconds processes pass to SYSCALL_SLEEP
    Rate,       \* PIT_INTERRUPTS_PER_SECOND
    Word,       \* size_t holds 0 .. Word - 1
    Steps       \* bound: progress is counted modulo Steps

ASSUME SchedulerAssumption ==
    /\ KERNEL \notin Procs /\ NULL \notin Procs /\ KERNEL # NULL
    /\ NULL \notin [stack : Procs \cup {KERNEL}, pc : Nat]
    /\ Sleeps \subseteq Nat
    /\ Rate \in Nat /\ Word \in Nat \ {0} /\ Steps \in Nat \ {0}

VARIABLES
    list,       \* scheduler.c's list, as the sequence list.c implements
    current,    \* scheduler.c: the process that runs, or NULL
    enabled,    \* scheduler.c: set by scheduler_enable
    kesp,       \* scheduler.c's esp: main's frame
    state,      \* process_t.state, and NONE while the process is not allocated
    sleep,      \* process_t.sleep
    esp,        \* process_t.esp: the process's frame
    on, pc,     \* the context on the processor and how far it has come
    starting,   \* the process main is creating and has not started yet
    done,       \* how far each context has really come
    due         \* ticks each sleeping process has still to wait for

vars == <<list, current, enabled, kesp, state, sleep, esp, on, pc,
          starting, done, due>>

Contexts == Procs \cup {KERNEL}

Frame(c, n) == [stack |-> c, pc |-> n]

NONE     == "NONE"
RUNNING  == "RUNNING"
WAITING  == "WAITING"
SLEEPING == "SLEEPING"

Init ==
    /\ list = <<>> /\ current = NULL /\ enabled = FALSE /\ kesp = NULL
    /\ state = [p \in Procs |-> NONE]
    /\ sleep = [p \in Procs |-> 0]
    /\ esp   = [p \in Procs |-> NULL]
    /\ on = KERNEL /\ pc = 0
    /\ starting = NULL
    /\ done = [c \in Contexts |-> 0]
    /\ due  = [p \in Procs |-> 0]

-----------------------------------------------------------------------------
\* Mutant: the search stops one node short of where it began.
scheduler_next_Short(l, cur, st) ==
    LET n     == Len(l)
        i     == IF cur = NULL THEN 1 ELSE SelectInSeq(l, LAMBDA p : p = cur)
        at(k) == l[IF i + k <= n THEN i + k ELSE i + k - n]
        hits  == {k \in 1 .. n - 1 : st[at(k)] = WAITING}
    IN  IF hits = {} THEN NULL ELSE at(Min(hits))

\* Mutant: the search always starts at the head.
scheduler_next_Head(l, cur, st) ==
    LET hits == {k \in 1 .. Len(l) : st[l[k]] = WAITING}
    IN  IF hits = {} THEN NULL ELSE l[Min(hits)]

(***************************************************************************)
(* scheduler_next: the first waiting process after cur, or after the head  *)
(* if there is none, wrapping around at the end of the list; length nodes  *)
(* are examined, the last one being the node where the search began.       *)
(***************************************************************************)
scheduler_next(l, cur, st) ==
    LET n     == Len(l)
        i     == IF cur = NULL THEN 1 ELSE SelectInSeq(l, LAMBDA p : p = cur)
        at(k) == l[IF i + k <= n THEN i + k ELSE i + k - n]
        hits  == {k \in 1 .. n : st[at(k)] = WAITING}
    IN  IF hits = {} THEN NULL ELSE at(Min(hits))

\* iret from frame f; assert(esp) rules out that there is none.
Restore(f) ==
    IF f = NULL THEN on' = NULL /\ pc' = 0
                ELSE on' = f.stack /\ pc' = f.pc

(***************************************************************************)
(* scheduler_switch with list l, current cur, states st and saved frames   *)
(* ep and ke.                                                              *)
(***************************************************************************)
scheduler_switch(l, cur, st, ep, ke) ==
    LET next == scheduler_next(l, cur, st)
    IN  /\ current' = next
        /\ IF next = NULL
             THEN state' = st /\ Restore(ke)
             ELSE state' = [st EXCEPT ![next] = RUNNING] /\ Restore(ep[next])

\* The interrupt pushes the registers on the stack in use.
Pushed == Frame(on, pc)

\* Mutant: a process is woken on the tick that brings its counter to zero.
Wakes_Early(p) == state[p] = SLEEPING /\ sleep[p] <= 1

\* The sleepers whose counter has run out when a tick comes.
Wakes(p) == state[p] = SLEEPING /\ sleep[p] = 0

Aged(p) == sleep[p] - 1

\* Mutant: main's frame is saved even when a process was interrupted.
SaveStack_Kernel ==
    kesp' = Pushed /\ esp' = esp

\* scheduler_handle_irq saves the interrupted stack in esp or current->esp.
SaveStack ==
    IF current = NULL THEN kesp' = Pushed /\ esp' = esp
                      ELSE kesp' = kesp /\ esp' = [esp EXCEPT ![current] = Pushed]

(***************************************************************************)
(* pit_handle_irq and scheduler_handle_irq.  While the scheduler is not    *)
(* enabled the handler returns at once and nothing changes.                *)
(***************************************************************************)
Tick ==
    LET listed == ToSet(list)
        woken  == [p \in Procs |-> IF p \in listed /\ Wakes(p) THEN WAITING ELSE state[p]]
        st     == IF current = NULL THEN woken ELSE [woken EXCEPT ![current] = WAITING]
    IN  /\ enabled
        /\ sleep' = [p \in Procs |-> IF p \in listed /\ state[p] = SLEEPING /\ ~Wakes(p)
                                       THEN Aged(p) ELSE sleep[p]]
        /\ SaveStack
        /\ scheduler_switch(list, current, st, esp', kesp')
        /\ due' = [p \in Procs |-> IF due[p] > 0 THEN due[p] - 1 ELSE 0]
        /\ UNCHANGED <<list, enabled, starting, done>>

-----------------------------------------------------------------------------
(***************************************************************************)
(* main, kernel.c: processes are created and started, then the scheduler   *)
(* is enabled, then main idles.                                            *)
(***************************************************************************)

\* process_create: a stack with a first frame on it, and the process_t.
process_create(p) ==
    /\ on = KERNEL /\ ~enabled /\ starting = NULL
    /\ state[p] = NONE
    /\ state' = [state EXCEPT ![p] = WAITING]
    /\ sleep' = [sleep EXCEPT ![p] = 0]
    /\ esp'   = [esp   EXCEPT ![p] = Frame(p, 0)]
    /\ done'  = [done  EXCEPT ![p] = 0]
    /\ starting' = p
    /\ UNCHANGED <<list, current, enabled, kesp, on, pc, due>>

scheduler_start ==
    /\ on = KERNEL /\ starting # NULL
    /\ list' = Append(list, starting)
    /\ starting' = NULL
    /\ UNCHANGED <<current, enabled, kesp, state, sleep, esp, on, pc, done, due>>

scheduler_enable ==
    /\ on = KERNEL /\ starting = NULL /\ ~enabled
    /\ enabled' = TRUE
    /\ UNCHANGED <<list, current, kesp, state, sleep, esp, on, pc, starting, done, due>>

(***************************************************************************)
(* What runs makes progress.  A system call that returns to its caller     *)
(* (SYSCALL_TEST, or a number that is not supported) is such a step.       *)
(***************************************************************************)
Work ==
    /\ on # NULL
    /\ pc' = (pc + 1) % Steps
    /\ done' = [done EXCEPT ![on] = (done[on] + 1) % Steps]
    /\ UNCHANGED <<list, current, enabled, kesp, state, sleep, esp, on, starting, due>>

-----------------------------------------------------------------------------
(***************************************************************************)
(* System calls: int 0x80 by the process on the processor.  The handler    *)
(* acts on scheduler_process(), which is current.                          *)
(***************************************************************************)

\* Mutant: process_destroy, but the process stays in the list.
scheduler_stop_Listed(p) ==
    LET st == [state EXCEPT ![p] = NONE]
    IN  /\ list' = list
        /\ sleep' = [sleep EXCEPT ![p] = 0]
        /\ esp' = [esp EXCEPT ![p] = NULL]
        /\ scheduler_switch(list, NULL, st, esp', kesp)
        /\ due' = [due EXCEPT ![p] = 0]
        /\ done' = [done EXCEPT ![p] = 0]
        /\ UNCHANGED <<enabled, kesp, starting>>

\* scheduler_stop of the current process: it leaves the list, its stack and
\* its process_t are freed (all they held is gone), and the next one runs.
scheduler_stop(p) ==
    LET l  == RemoveFirst(list, p)
        st == [state EXCEPT ![p] = NONE]
    IN  /\ list' = l
        /\ sleep' = [sleep EXCEPT ![p] = 0]
        /\ esp' = [esp EXCEPT ![p] = NULL]
        /\ scheduler_switch(l, NULL, st, esp', kesp)
        /\ due' = [due EXCEPT ![p] = 0]
        /\ done' = [done EXCEPT ![p] = 0]
        /\ UNCHANGED <<enabled, kesp, starting>>

\* The ticks scheduler_sleep computes: a product of size_t, then a quotient.
SleepTicks(ms) == ((ms * Rate) % Word) \div 1000

\* Mutant: the stack of the process that goes to sleep is not saved.
SavedBySleep_Not(p) == esp

SavedBySleep(p) == [esp EXCEPT ![p] = Pushed]

\* scheduler_sleep of the current process.
scheduler_sleep(p, ms) ==
    LET st == [state EXCEPT ![p] = SLEEPING]
    IN  /\ sleep' = [sleep EXCEPT ![p] = SleepTicks(ms)]
        /\ esp' = SavedBySleep(p)
        /\ scheduler_switch(list, NULL, st, esp', kesp)
        /\ due' = [due EXCEPT ![p] = (ms * Rate) \div 1000]
        /\ UNCHANGED <<list, enabled, kesp, starting, done>>

SyscallStop == on \in Procs /\ scheduler_stop(current)

SyscallSleep(ms) == on \in Procs /\ scheduler_sleep(current, ms)

Next ==
    \/ Tick
    \/ \E p \in Procs : process_create(p)
    \/ scheduler_start
    \/ scheduler_enable
    \/ Work
    \/ SyscallStop
    \/ \E ms \in Sleeps : SyscallSleep(ms)

Spec == Init /\ [][Next]_vars

\* The PIT never stops interrupting; nothing else is promised to happen.
FairSpec == Spec /\ WF_vars(Tick)

-----------------------------------------------------------------------------
\* The state is well typed; in particular assert(esp) in scheduler_switch
\* never fails, so a stack is always loaded.
TypeOK ==
    /\ list \in Seq(Procs)
    /\ current \in Procs \cup {NULL}
    /\ enabled \in BOOLEAN
    /\ kesp \in [stack : {KERNEL}, pc : Nat] \cup {NULL}
    /\ state \in [Procs -> {NONE, RUNNING, WAITING, SLEEPING}]
    /\ sleep \in [Procs -> Nat]
    /\ esp \in [Procs -> [stack : Procs, pc : Nat] \cup {NULL}]
    /\ on \in Contexts
    /\ pc \in Nat
    /\ starting \in Procs \cup {NULL}
    /\ done \in [Contexts -> Nat]
    /\ due \in [Procs -> Nat]

Listed == ToSet(list)

\* What is on the processor is what the scheduler believes to be there, and
\* exactly the current process is marked as running.
CurrentRuns ==
    /\ on = IF current = NULL THEN KERNEL ELSE current
    /\ \A p \in Procs : state[p] = RUNNING <=> p = current

\* Every context resumes where it was interrupted: the frame a switch would
\* load for a suspended context is the last one it left, on its own stack,
\* whatever ticks, sleeps and exits of others came in between.
Resumes ==
    /\ pc = done[on]
    /\ on # KERNEL => kesp = Frame(KERNEL, done[KERNEL])
    /\ \A p \in Listed \ {on} : esp[p] = Frame(p, done[p])

\* After an exit nothing refers to the freed process: the list holds the
\* allocated processes, each once, and the current one is among them.
NoDangling ==
    /\ Listed = {p \in Procs : state[p] # NONE} \ {starting}
    /\ \A i, j \in DOMAIN list : list[i] = list[j] => i = j
    /\ current # NULL => current \in Listed

\* Once main has been interrupted it only runs when no process could.
WorkConserving == on = KERNEL /\ kesp # NULL => \A p \in Listed : state[p] # WAITING

\* A process that asks for ms milliseconds is woken by the tick after the
\* ms * Rate / 1000 ticks it asked for, no earlier and no later, whoever runs
\* meanwhile.
Punctual ==
    [][\A p \in Procs :
         state[p] = SLEEPING => (state'[p] = SLEEPING <=> ~Tick \/ due[p] > 0)]_vars

\* Every sleeping process is woken.
SleepersWake == \A p \in Procs : state[p] = SLEEPING ~> state[p] # SLEEPING

\* If processes stop going to sleep, every process that waits gets to run.
NoStarvation ==
    <>[](\A p \in Procs : state[p] # SLEEPING) =>
        \A p \in Procs : (enabled /\ state[p] = WAITING) ~> (state[p] # WAITING)

=============================================================================

---------------------------- MODULE MCScheduler -----------------------------
(***************************************************************************)
(* Three processes, so that there is one before, one after and one between,*)
(* and sleeps of no, one and two ticks.  Scheduler is there twice: for     *)
(* what it must never do, with programs of several steps, and, in          *)
(* variables of its own, for what it must do in the end, with programs     *)
(* that loop in one.  In a behaviour one of the two runs.                  *)
(***************************************************************************)
EXTENDS Scheduler

VARIABLES
    which,      \* the one that runs
    queue, active, ticking, kstack, states, sleeps, stacks, running, at, created, steps, left

live == <<queue, active, ticking, kstack, states, sleeps, stacks, running, at, created, steps, left>>

all == <<which, vars, live>>

L == INSTANCE Scheduler WITH
        Steps <- 1,
        list <- queue, current <- active, enabled <- ticking, kesp <- kstack, state <- states,
        sleep <- sleeps, esp <- stacks, on <- running, pc <- at, starting <- created,
        done <- steps, due <- left

LiveInit == which \in {"safe", "live"} /\ Init /\ L!Init

LiveNext ==
    \/ which = "safe" /\ Next /\ UNCHANGED <<which, live>>
    \/ which = "live" /\ L!Next /\ UNCHANGED <<which, vars>>

\* The fairness of Scheduler: the timer goes on.
LiveSpec == LiveInit /\ [][LiveNext]_all /\ WF_live(which = "live" /\ L!Tick)

-----------------------------------------------------------------------------
\* As long as the timer interrupts, every sleeping process is woken, and, if
\* processes stop going to sleep, every one that waits gets to run:
\* scheduler_next passes over none of them for ever.
AllServed == L!SleepersWake /\ L!NoStarvation

=============================================================================

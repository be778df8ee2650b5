------------------------------- MODULE Mutex --------------------------------
(***************************************************************************)
(* kernel/src/execution/mutex.c, a spin lock on one word of memory.        *)
(*                                                                         *)
(* Nothing in the kernel takes a mutex yet: the contexts that use it are   *)
(* external, and keep to initialise, lock, work, unlock.                   *)
(***************************************************************************)
EXTENDS Integers

CONSTANTS
    Contexts,   \* who uses the mutex
    Junk        \* what the word may hold before it is initialised

ASSUME MutexAssumption == Junk \subseteq Int /\ Junk # {}

VARIABLES
    mutex,          \* the word
    initialised,
    at              \* where each context is

mutexVars == <<mutex, initialised, at>>

MutexInit ==
    /\ mutex \in Junk
    /\ initialised = FALSE
    /\ at = [c \in Contexts |-> "outside"]

mutex_init ==
    /\ ~initialised
    /\ mutex' = 0 /\ initialised' = TRUE
    /\ UNCHANGED at

\* A context calls mutex_lock.
Call(c) ==
    /\ initialised /\ at[c] = "outside"
    /\ at' = [at EXCEPT ![c] = "try"]
    /\ UNCHANGED <<mutex, initialised>>

\* Mutant: the word is looked at without being set.
Swapped_Not == mutex

\* The word after a compare and swap that finds it free.
Swapped == 1

\* One turn of the loop of mutex_lock: the compare and swap is one step.
mutex_lock(c) ==
    /\ at[c] = "try"
    /\ \/ mutex = 0 /\ mutex' = Swapped /\ at' = [at EXCEPT ![c] = "inside"]
       \/ mutex # 0 /\ mutex' = mutex /\ at' = [at EXCEPT ![c] = "pause"]
    /\ UNCHANGED initialised

Pause(c) ==
    /\ at[c] = "pause"
    /\ at' = [at EXCEPT ![c] = "try"]
    /\ UNCHANGED <<mutex, initialised>>

mutex_unlock(c) ==
    /\ at[c] = "inside"
    /\ mutex' = 0
    /\ at' = [at EXCEPT ![c] = "outside"]
    /\ UNCHANGED initialised

MutexNext ==
    \/ mutex_init
    \/ \E c \in Contexts : Call(c) \/ mutex_lock(c) \/ Pause(c) \/ mutex_unlock(c)

\* No context is sure to run: the scheduler may pass over one that is ready for
\* as long as others sleep and wake, also one that spins here.
MutexSpec == MutexInit /\ [][MutexNext]_mutexVars

-----------------------------------------------------------------------------
\* The state is well typed.
MutexTypeOK ==
    /\ mutex \in Int /\ initialised \in BOOLEAN
    /\ initialised => mutex \in {0, 1}
    /\ at \in [Contexts -> {"outside", "try", "pause", "inside"}]

\* At most one context is between mutex_lock and mutex_unlock.
Exclusive == \A c, e \in Contexts : at[c] = "inside" /\ at[e] = "inside" => c = e

\* Whoever has the mutex is the reason that it is locked: it is free when
\* nobody is inside.
FreeWhenUnused ==
    initialised => (mutex = 0 <=> \A c \in Contexts : at[c] # "inside")

\* The mutex is locked exactly while a context is inside, and never are two.
Locks == Exclusive /\ FreeWhenUnused

=============================================================================

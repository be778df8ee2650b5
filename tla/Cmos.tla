-------------------------------- MODULE Cmos --------------------------------
(***************************************************************************)
(* kernel/src/drivers/cmos.c: reading the time of day, which dprintf does  *)
(* for every message.                                                      *)
(*                                                                         *)
(* The real-time clock is external.  Once a second it raises its flag      *)
(* "update in progress" and, at least 244 microseconds later, changes all  *)
(* its registers.  A register is read by selecting it through one port and *)
(* reading another, so a handler that logs a message between the two steps *)
(* leaves another register selected.  One that does not log, such as an    *)
(* echo that shifts the screen, may still delay main for long enough.      *)
(***************************************************************************)
EXTENDS Integers, Sequences

CONSTANTS
    Instants,       \* the successive times of day, as records of numbers
    Modes,          \* how the clock may be set: binary or BCD, 24 or 12 hours
    Interruptible   \* whether a handler may log while main does

Fields == <<"second", "minute", "hour", "day", "month", "year">>

Contexts == {"main", "irq"}

CmosAssumption ==
    /\ Instants \in Seq([second : 0 .. 59, minute : 0 .. 59, hour : 0 .. 23,
                         day : 1 .. 31, month : 1 .. 12, year : 0 .. 99])
    /\ Instants # <<>>
    /\ Modes \subseteq [binary : BOOLEAN, hours24 : BOOLEAN]
    /\ Interruptible \in BOOLEAN

VARIABLES
    mode,       \* status register B
    now,        \* which of the Instants the registers show
    uip,        \* update in progress, of status register A
    index,      \* the register that is selected
    call,       \* the cmos_time each context is in
    since       \* now when it was called

vars == <<mode, now, uip, index, call, since>>

\* The registers in the order cmos_time reads them.
Order == <<"A">> \o Fields \o <<"B">>

\* k is the register of Order being read, or 0; half says whether it has been
\* selected; ahead says that no update was in progress when the wait ended; raw
\* holds what was read and time what the call returned; and late says that the
\* registers changed after the wait, when a handler took long.
Idle == [k |-> 0, half |-> "select", ahead |-> FALSE, late |-> FALSE, raw |-> <<>>, time |-> <<>>]

Init ==
    /\ mode \in Modes
    /\ now = 1 /\ uip = FALSE /\ index = "A"
    /\ call = [x \in Contexts |-> Idle]
    /\ since = [x \in Contexts |-> 0]

-----------------------------------------------------------------------------
(***************************************************************************)
(* The clock.                                                              *)
(***************************************************************************)
Bcd(v) == IF mode.binary THEN v ELSE 16 * (v \div 10) + (v % 10)

\* The hour, from 1 to 12 and with the highest bit set after noon unless the
\* clock is set to 24 hours.
HourRegister(h) ==
    IF mode.hours24 THEN Bcd(h) ELSE Bcd(((h + 11) % 12) + 1) + (IF h >= 12 THEN 128 ELSE 0)

\* The register of field f at the n-th instant.
Register(f, n) == IF f = "hour" THEN HourRegister(Instants[n].hour) ELSE Bcd(Instants[n][f])

UpdateBegins ==
    /\ ~uip /\ now < Len(Instants)
    /\ uip' = TRUE
    /\ UNCHANGED <<mode, now, index, call, since>>

\* A call that is ahead of the update has read the registers before they change
\* if it is not interrupted, as no call of a handler is.
UpdateEnds ==
    /\ uip
    /\ ~(call["irq"].k > 1 /\ call["irq"].ahead)
    /\ uip' = FALSE /\ now' = now + 1
    /\ call' = [call EXCEPT !["main"].late = @ \/ (call["main"].k > 1 /\ call["main"].ahead)]
    /\ UNCHANGED <<mode, index, since>>

-----------------------------------------------------------------------------
(***************************************************************************)
(* cmos_time.                                                              *)
(***************************************************************************)
Runs(x) == x = "main" => call["irq"].k = 0

\* dprintf is called, by main or by the handler of a tick or a system call.
Begin(x) ==
    /\ call[x].k = 0 /\ Runs(x)
    /\ x = "irq" => Interruptible \/ call["main"].k = 0
    /\ call' = [call EXCEPT ![x] = [Idle EXCEPT !.k = 1]]
    /\ since' = [since EXCEPT ![x] = now]
    /\ UNCHANGED <<mode, now, uip, index>>

SelectRegister(x) ==
    /\ call[x].k > 0 /\ call[x].half = "select" /\ Runs(x)
    /\ index' = Order[call[x].k]
    /\ call' = [call EXCEPT ![x].half = "read"]
    /\ UNCHANGED <<mode, now, uip, since>>

Reading(x, k) == call[x].half = "read" /\ call[x].k = k /\ Runs(x)

\* The status registers as numbers: only the bits that are looked at.
StatusA == IF uip THEN 128 ELSE 0
StatusB == (IF mode.binary THEN 4 ELSE 0) + (IF mode.hours24 THEN 2 ELSE 0)

DataPort == CASE index = "A" -> StatusA [] index = "B" -> StatusB [] OTHER -> Register(index, now)

\* Mutant: nobody waits.
cmos_wait_Not == FALSE

cmos_wait == DataPort >= 128

Wait(x) ==
    /\ Reading(x, 1)
    /\ call' = [call EXCEPT ![x].k = IF cmos_wait THEN 1 ELSE 2, ![x].half = "select",
                            ![x].ahead = ~uip]
    /\ UNCHANGED <<mode, now, uip, index, since>>

cmos_read(x) ==
    /\ \E k \in 2 .. 7 : Reading(x, k)
    /\ call' = [call EXCEPT ![x].k = @ + 1, ![x].half = "select", ![x].raw = Append(@, DataPort)]
    /\ UNCHANGED <<mode, now, uip, index, since>>

\* BCD to binary; the hour keeps its highest bit.
Binary(f, v) ==
    IF f = "hour" THEN (v % 16) + ((v \div 16) % 8) * 10 + 128 * (v \div 128)
                  ELSE (v % 16) + (v \div 16) * 10

\* The hour after noon, from the 12-hour clock.
Hour24(h) == ((h % 128) + 12) % 24

\* What is made of the registers, given what was read of status register B.
Converted(raw, status) ==
    LET number(k) == IF (status \div 4) % 2 = 1 THEN raw[k] ELSE Binary(Fields[k], raw[k])
        value(k)  == IF Fields[k] = "hour" /\ (status \div 2) % 2 = 0 /\ number(k) >= 128
                       THEN Hour24(number(k)) ELSE number(k)
    IN  [f \in {Fields[k] : k \in DOMAIN Fields} |->
            value(CHOOSE k \in DOMAIN Fields : Fields[k] = f)]

\* Status register B is read, the time converted, and the call returns.
cmos_time(x) ==
    /\ Reading(x, 8)
    /\ call' = [call EXCEPT ![x] = [Idle EXCEPT !.time = Converted(call[x].raw, DataPort), !.late = call[x].late]]
    /\ UNCHANGED <<mode, now, uip, index, since>>

Next ==
    \/ UpdateBegins
    \/ UpdateEnds
    \/ \E x \in Contexts : Begin(x) \/ SelectRegister(x) \/ Wait(x) \/ cmos_read(x) \/ cmos_time(x)

Spec == Init /\ [][Next]_vars

-----------------------------------------------------------------------------
\* The state is well typed: what is read are bytes.
TypeOK ==
    /\ mode \in Modes /\ now \in DOMAIN Instants /\ uip \in BOOLEAN
    /\ \E k \in DOMAIN Order : index = Order[k]
    /\ \A x \in Contexts : /\ call[x].k \in 0 .. Len(Order)
                           /\ call[x].raw \in Seq(0 .. 255)
                           /\ call[x].time # <<>> => \A f \in DOMAIN call[x].time :
                                                        call[x].time[f] \in 0 .. 99

\* Field f of a reported time is that of the n-th instant.  Of a clock of 12 hours
\* nothing is said of its hours 12: README, "Known violations".
Shows(time, f, n) ==
    \/ time[f] = Instants[n][f]
    \/ f = "hour" /\ ~mode.hours24 /\ Instants[n].hour \in {0, 12}

\* A time that is reported was shown by the clock while it was being read,
\* however the clock is set and whenever it changes.  If a handler delayed the
\* call until the registers changed, each of its fields was, but they need not
\* belong together.
TimeTrue ==
    \A x \in Contexts :
        call[x].time # <<>> =>
            /\ \A f \in DOMAIN call[x].time : \E n \in since[x] .. now : Shows(call[x].time, f, n)
            /\ call[x].late \/ \E n \in since[x] .. now :
                                   \A f \in DOMAIN call[x].time : Shows(call[x].time, f, n)

=============================================================================

------------------------------ MODULE Drivers -------------------------------
(***************************************************************************)
(* The drivers, each against its device: the PCI bus, the screen, the      *)
(* real-time clock, the serial line, the disk and the keyboard.            *)
(*                                                                         *)
(* The six have no variable in common, so the states that one of them can  *)
(* reach do not depend on the others: a behaviour is one in which a single *)
(* driver runs and the others stay where they began.                       *)
(***************************************************************************)
EXTENDS Pci

CONSTANTS
    Width, Text, Silent, CrtcByte,                      \* Display
    Height, Attributes, Printing,                       \* when main is not interrupted
    NestedHeight, NestedAttributes, NestedPrinting,     \* when it is
    Instants, Modes,                                    \* Cmos
    Length, Messages,                                   \* Serial
    Connected, Words, AtaByte, Lbas, Counts,            \* Ata
    Configurations, Mapped, Unmapped, MaxKeys           \* Keyboard

VARIABLES
    driver,     \* the driver that runs
    screen, beyond, cursor, crtcIndex, crtc, putcf, old,                        \* Display
    mode, now, uip, cmosIndex, cmos, since,                                     \* Cmos
    holding, shift, latch, line, dprintf, count, sent, set,                     \* Serial
    present, selected, ataStatus, lag, transfer, ata, words, report, failed,    \* Ata
    initial, config, queue, full, data, request, keyboard, status, typed, echo  \* Keyboard

display  == <<screen, beyond, cursor, crtcIndex, crtc, putcf, old>>
clock    == <<mode, now, uip, cmosIndex, cmos, since>>
serial   == <<holding, shift, latch, line, dprintf, count, sent, set>>
disk     == <<present, selected, ataStatus, lag, transfer, ata, words, report, failed>>
keys     == <<initial, config, queue, full, data, request, keyboard, status, typed, echo>>

all == <<driver, display, clock, serial, disk, keys, vars>>

\* main prints without being interrupted.
D == INSTANCE Display WITH
        Interruptible <- FALSE, Byte <- CrtcByte,
        buffer <- screen, index <- crtcIndex, call <- putcf

\* main prints with interrupts on.
N == INSTANCE Display WITH
        Height <- NestedHeight, Attributes <- NestedAttributes, Printing <- NestedPrinting,
        Interruptible <- TRUE, Byte <- CrtcByte,
        buffer <- screen, index <- crtcIndex, call <- putcf

C == INSTANCE Cmos WITH Interruptible <- FALSE, index <- cmosIndex, call <- cmos

S == INSTANCE Serial WITH Interruptible <- FALSE, call <- dprintf

A == INSTANCE Ata WITH Byte <- AtaByte, status <- ataStatus, call <- ata, buffer <- words

K == INSTANCE Keyboard WITH pc <- keyboard

ASSUME DriversAssumption ==
    /\ D!DisplayAssumption /\ N!DisplayAssumption /\ C!CmosAssumption
    /\ S!SerialAssumption /\ A!AtaAssumption /\ K!KeyboardAssumption

-----------------------------------------------------------------------------
DriversInit ==
    /\ driver \in {"pci", "display", "nested", "clock", "serial", "disk", "keyboard"}
    /\ IF driver = "nested" THEN N!Init ELSE D!Init
    /\ C!Init /\ (driver = "clock" \/ mode = CHOOSE m \in Modes : TRUE)
    /\ S!Init
    /\ A!Init /\ (driver = "disk" \/ present = CHOOSE p \in Connected : TRUE)
    /\ K!Init /\ (driver = "keyboard" \/ (initial = (CHOOSE i \in Configurations : TRUE) /\ ~full))
    /\ Init
    /\ driver = "pci" \/ /\ absent = CHOOSE a \in Absent : TRUE
                         /\ \A n \in Buses, k \in Devices : machine[n][k] = CHOOSE s \in Shapes : TRUE

DriversNext ==
    \/ /\ driver = "pci" /\ Next
       /\ UNCHANGED <<driver, display, clock, serial, disk, keys>>
    \/ /\ driver = "display" /\ D!Next
       /\ UNCHANGED <<driver, clock, serial, disk, keys, vars>>
    \/ /\ driver = "nested" /\ N!Next
       /\ UNCHANGED <<driver, clock, serial, disk, keys, vars>>
    \/ /\ driver = "clock" /\ C!Next
       /\ UNCHANGED <<driver, display, serial, disk, keys, vars>>
    \/ /\ driver = "serial" /\ S!Next
       /\ UNCHANGED <<driver, display, clock, disk, keys, vars>>
    \/ /\ driver = "disk" /\ A!Next
       /\ UNCHANGED <<driver, display, clock, serial, keys, vars>>
    \/ /\ driver = "keyboard" /\ K!Next
       /\ UNCHANGED <<driver, display, clock, serial, disk, vars>>

\* The fairness of Serial, Ata and Keyboard, for the one that runs.
Fairness ==
    /\ WF_serial(driver = "serial" /\ S!Load) /\ WF_serial(driver = "serial" /\ S!Shift)
    /\ WF_serial(driver = "serial" /\ S!serial_init)
    /\ \A x \in {"main", "irq"} : /\ WF_serial(driver = "serial" /\ S!Wait(x))
                                  /\ WF_serial(driver = "serial" /\ S!serial_putc(x))
    /\ WF_disk(driver = "disk" /\ A!Driver) /\ WF_disk(driver = "disk" /\ A!Drive)
    /\ WF_keys(driver = "keyboard" /\ K!Transfer) /\ WF_keys(driver = "keyboard" /\ K!handle_irq)
    /\ WF_keys(driver = "keyboard" /\ K!keyboard_init)

DriversSpec == DriversInit /\ [][DriversNext]_all /\ Fairness

-----------------------------------------------------------------------------
\* The state of every driver is well typed.
DriversTypeOK ==
    /\ TypeOK
    /\ IF driver = "nested" THEN N!TypeOK ELSE D!TypeOK
    /\ C!TypeOK /\ S!TypeOK /\ A!TypeOK /\ K!TypeOK

\* When nobody prints the cursor is on the screen, and the hardware cursor,
\* which putcf sets in two halves, where the next character will go.  Echoes
\* between the loads and the stores of cursor in putcf, or between the last store
\* and the shift of the screen, may find the cursor past the end: they store in
\* the row right behind the screen and no further.
CursorTrue ==
    IF driver = "nested" THEN N!CursorTrue ELSE D!CursorTrue

T == INSTANCE Terminal WITH
        NEWLINE <- D!NEWLINE,
        Cells <- [code : Text \cup Printing \cup {D!NEWLINE}, attribute : Attributes \cup {D!DEFAULT}],
        rows  <- IF driver = "nested" THEN <<<<>>>> ELSE IF D!AllIdle THEN D!Rows ELSE old,
        given <- IF driver = "nested" THEN <<>> ELSE D!Given

\* Unless an echo interrupts putcf the screen is a terminal: each call puts the
\* character it is given, in the colour it is given, behind all that was printed
\* and typed before, and the screen shows the last rows of it.
ShowsRows == T!Spec

\* The log can be relied on.  The time that cmos_time returns was shown by the
\* clock while it was being read, in each format the clock can be set to and
\* whenever it changes, but for the hours 12 of a clock of 12 hours; if a handler
\* delayed the call until the registers changed, each part of the time was shown.
\* What arrives over the line is what dprintf was given, every message whole and
\* in its turn; only what was in the UART when serial_init set its speed, two
\* characters at most, may be garbled.
LogTrue == C!TimeTrue /\ S!InOrder

\* What ata_read and ata_identify read are the words of the sectors asked for,
\* from their first, none twice and none before the drive offers it, whatever
\* the drive's pace, and a read returns when it has them all; the drive then has
\* nothing left to transfer, so that the command that follows finds it ready;
\* and ata_identify reports a drive if it is there, and none if it is not.
DiskRead == A!DiskRead

\* No key is shown twice or out of turn, whichever of keyboard_init and its
\* handler takes it from the controller and however late the controller answers
\* keyboard_init, unless that takes something else for the answer in which
\* translation is off.
KeysTrue == driver = "keyboard" => K!ShownOnce

\* Nothing waits for a device for ever.  dprintf returns from its loop on the
\* UART, and in the end all that was logged has arrived; the disk driver comes
\* back from every call unless the drive has failed; and, whatever keyboard_init
\* reads for the configuration, every byte of the keyboard is taken.
Answered ==
    /\ S!LogReturns /\ S!AllArrives
    /\ A!Returns
    /\ driver = "keyboard" => K!AllTaken

=============================================================================

-------------------------------- MODULE Ata ---------------------------------
(***************************************************************************)
(* kernel/src/drivers/ata.c: detecting the drives of the primary bus and   *)
(* reading sectors by programmed input.                                    *)
(*                                                                         *)
(* The drive is external.  After a command, and after the last word of a   *)
(* sector, it takes up to 400 nanoseconds to update its status register,   *)
(* which until then shows what it showed before.  It is busy for a while,  *)
(* and then it asks for the transfer of a sector (DRQ) or it fails (ERR).  *)
(***************************************************************************)
EXTENDS Integers, Sequences

CONSTANTS
    Connected,      \* the sets of drives that may be connected
    Words,          \* words of a sector, 256 in the code
    Byte,           \* a register holds 0 .. Byte - 1
    Lbas, Counts    \* the sectors, and how many of them, that are read

Drives == {"primary", "secondary"}

AtaAssumption ==
    /\ Connected \subseteq SUBSET Drives
    /\ Words \in Nat \ {0} /\ Byte \in Nat \ {0}
    /\ Lbas \subseteq 0 .. 16 * Byte * Byte * Byte - 1
    /\ Counts \subseteq 1 .. Byte

VARIABLES
    present,    \* the drives that are connected
    selected,   \* the drive that is selected
    status,     \* what the status register of a connected drive shows
    lag,        \* the status register is still to be updated
    transfer,   \* what the drive is to transfer: where it is, how much is left
    call,       \* the call that is in progress
    buffer,     \* the words it has read
    report,     \* what ata_identify has logged about each drive
    failed      \* the drives that failed to identify themselves

device == <<status, lag, transfer>>
vars == <<present, selected, status, lag, transfer, call, buffer, report, failed>>

NoBits == [bsy |-> FALSE, drq |-> FALSE, err |-> FALSE, rdy |-> FALSE]
Ready  == [NoBits EXCEPT !.rdy = TRUE]

NoTransfer == [sector |-> 0, word |-> 0, left |-> 0]

Idle == [op |-> "none", pc |-> "idle", drive |-> "primary", lba |-> 0, count |-> 0, i |-> 0,
         status |-> NoBits]

\* What identifies a drive, as opposed to a sector of it.
IDENTITY == -1

\* What the data port holds when nothing is being transferred.
JUNK == <<"none", 0, 0>>

Init ==
    /\ present \in Connected
    /\ selected = "primary" /\ status = Ready /\ lag = FALSE /\ transfer = NoTransfer
    /\ call = Idle /\ buffer = <<>>
    /\ report = [d \in Drives |-> "nothing"] /\ failed = {}

-----------------------------------------------------------------------------
(***************************************************************************)
(* The drive.                                                              *)
(***************************************************************************)

\* A drive that is not connected shows zero.
Status == IF selected \in present THEN status ELSE NoBits

Update ==
    /\ lag /\ lag' = FALSE
    /\ status' = IF transfer.left > 0 THEN [Ready EXCEPT !.bsy = TRUE] ELSE Ready
    /\ UNCHANGED <<present, selected, transfer, call, buffer, report, failed>>

Fetch ==
    /\ ~lag /\ status.bsy
    /\ status' = [Ready EXCEPT !.drq = TRUE]
    /\ UNCHANGED <<present, selected, lag, transfer, call, buffer, report, failed>>

Fail ==
    /\ ~lag /\ status.bsy
    /\ status' = [Ready EXCEPT !.err = TRUE]
    /\ transfer' = NoTransfer
    /\ failed' = IF call.op = "identify" THEN failed \cup {call.drive} ELSE failed
    /\ UNCHANGED <<present, selected, lag, call, buffer, report>>

\* A command to the selected drive; a count of zero stands for Byte.  The six
\* registers that are written before it take the time a status update needs.
Command(drive, sector, count) ==
    /\ ~lag
    /\ selected' = drive
    /\ IF drive \in present
         THEN /\ lag' = TRUE
              /\ transfer' = [sector |-> sector, word |-> 0,
                              left |-> IF count % Byte = 0 THEN Byte ELSE count % Byte]
              /\ UNCHANGED status
         ELSE UNCHANGED device

\* A word is read from the data port.  Without a transfer it means nothing.
Word == IF Status.drq /\ ~lag THEN <<selected, transfer.sector, transfer.word>> ELSE JUNK

Transferred ==
    IF ~(Status.drq /\ ~lag) THEN UNCHANGED <<transfer, lag>>
    ELSE IF transfer.word + 1 < Words
           THEN transfer' = [transfer EXCEPT !.word = @ + 1] /\ UNCHANGED lag
           ELSE /\ transfer' = [sector |-> transfer.sector + 1, word |-> 0, left |-> transfer.left - 1]
                /\ lag' = TRUE

-----------------------------------------------------------------------------
(***************************************************************************)
(* The driver.                                                             *)
(***************************************************************************)
At(pc) == call.pc = pc

Goto(pc) == call' = [call EXCEPT !.pc = pc]

\* The drive register selects the drive.
Chosen(drive) == drive

\* ata_init identifies the drives in turn.
Identify(drive) ==
    /\ At("idle") /\ report[drive] = "nothing"
    /\ drive = "secondary" => report["primary"] # "nothing"
    /\ Command(Chosen(drive), IDENTITY, 1)
    /\ call' = [Idle EXCEPT !.op = "identify", !.pc = "drive", !.drive = drive]
    /\ buffer' = <<>>
    /\ UNCHANGED <<present, report, failed>>

Return(what) ==
    /\ call' = Idle
    /\ report' = IF call.op = "identify" THEN [report EXCEPT ![call.drive] = what] ELSE report

CheckDrive ==
    /\ At("drive")
    /\ IF Status = NoBits
         THEN Return("no drive")
         ELSE call' = [call EXCEPT !.pc = "busy", !.status = Status] /\ UNCHANGED report
    /\ UNCHANGED <<present, selected, device, buffer, failed>>

\* ata_poll: two loops, the second for as long as it takes.
PollBusy ==
    /\ At("busy") /\ ~Status.bsy
    /\ Goto("request")
    /\ UNCHANGED <<present, selected, device, buffer, report, failed>>

PollRequest ==
    /\ At("request") /\ Status.drq
    /\ Goto(IF call.op = "identify" THEN "error" ELSE "data")
    /\ UNCHANGED <<present, selected, device, buffer, report, failed>>

\* The status that is tested was read before the drive was polled.
CheckError ==
    /\ At("error")
    /\ IF call.status.err THEN Return("error") ELSE Goto("data") /\ UNCHANGED report
    /\ UNCHANGED <<present, selected, device, buffer, failed>>

\* ata_read sets the bits of the drive register that select the first drive.
Addressed == "primary"

\* The address as three registers and four bits of the drive register.
Registers(lba) ==
    <<lba % Byte, (lba \div Byte) % Byte, (lba \div (Byte * Byte)) % Byte,
      (lba \div (Byte * Byte * Byte)) % 16>>

Sector(r) == r[1] + r[2] * Byte + r[3] * (Byte * Byte) + r[4] * (Byte * Byte * Byte)

ata_read(lba, count) ==
    /\ At("idle") /\ report["secondary"] # "nothing"
    /\ Command(Addressed, Sector(Registers(lba)), count)
    /\ call' = [Idle EXCEPT !.op = "read", !.pc = "wait", !.lba = lba, !.count = count]
    /\ buffer' = <<>>
    /\ UNCHANGED <<present, report, failed>>

\* Mutant: the status register is read at once.
ata_wait_Not == TRUE

\* ata_wait: four reads of a port take the time the drive needs.
ata_wait == ~lag

Wait ==
    /\ At("wait") /\ ata_wait
    /\ Goto("busy")
    /\ UNCHANGED <<present, selected, device, buffer, report, failed>>

\* The loop over the sectors; ata_identify reads the one that identifies it.
MoreSectors(i) == IF call.op = "read" THEN i < call.count ELSE FALSE

InWord ==
    LET full == Len(buffer) + 1 = (call.i + 1) * Words
    IN  /\ At("data")
        /\ buffer' = Append(buffer, Word) /\ Transferred
        /\ IF ~full THEN UNCHANGED <<call, report>>
           ELSE IF MoreSectors(call.i + 1)
             THEN call' = [call EXCEPT !.pc = "wait", !.i = @ + 1] /\ UNCHANGED report
             ELSE Return("detected")
        /\ UNCHANGED <<present, selected, status, failed>>

Driver == CheckDrive \/ PollBusy \/ PollRequest \/ CheckError \/ Wait \/ InWord

Drive == Update \/ Fetch \/ Fail

Next ==
    \/ \E d \in Drives : Identify(d)
    \/ \E lba \in Lbas, count \in Counts : ata_read(lba, count)
    \/ CheckDrive \/ PollBusy \/ PollRequest \/ CheckError \/ Wait \/ InWord
    \/ Update \/ Fetch \/ Fail

\* The processor executes the driver, and the drive carries a command out.
Fairness == WF_vars(Driver) /\ WF_vars(Drive)

Spec == Init /\ [][Next]_vars /\ Fairness

-----------------------------------------------------------------------------
\* The state is well typed.
TypeOK ==
    /\ present \in Connected /\ selected \in Drives
    /\ status \in [bsy : BOOLEAN, drq : BOOLEAN, err : BOOLEAN, rdy : BOOLEAN]
    /\ lag \in BOOLEAN
    /\ transfer.left \in 0 .. Byte /\ transfer.word \in 0 .. Words - 1
    /\ call.i \in 0 .. Byte - 1 /\ DOMAIN call = DOMAIN Idle
    /\ report \in [Drives -> {"nothing", "no drive", "error", "detected"}]
    /\ failed \subseteq Drives

\* The word a read puts at place k of its buffer.
Expected(k) ==
    <<call.drive, IF call.op = "read" THEN call.lba + ((k - 1) \div Words) ELSE IDENTITY,
      (k - 1) % Words>>

\* What is read are the words of the sectors asked for, from their first, none
\* twice and none before the drive offers it, whatever the drive's pace; and a
\* read returns when it has them all.
ReadsSectors ==
    [][/\ \A k \in DOMAIN buffer' \ DOMAIN buffer : buffer'[k] = Expected(k)
       /\ call.op = "read" /\ call'.op = "none" => Len(buffer') = call.count * Words]_vars

\* A call returns when the drive has nothing left to transfer: the command that
\* follows finds it ready.
NothingLeft == call.op = "none" => transfer.left = 0 /\ ~Status.bsy

\* A drive is reported if and only if it is there.
Detects == \A d \in Drives : /\ report[d] = "detected" => d \in present
                             /\ report[d] = "no drive" => d \notin present

\* What ata_read and ata_identify read are the words asked for, all of them and
\* in order; they return when the drive has nothing left to transfer; and
\* ata_identify reports a drive if it is there, and none if it is not.
DiskRead == ReadsSectors /\ [](NothingLeft /\ Detects)

\* The driver, which polls the drive in loops, comes back from every call unless
\* the drive has failed.
Returns == []<>(call.op = "none" \/ Status.err)

\* A drive that fails to identify itself is reported as failed.  Does not hold:
\* README, "Known violations".
ErrorReported == \A d \in Drives : d \in failed ~> report[d] = "error"

=============================================================================

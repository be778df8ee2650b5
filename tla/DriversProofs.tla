--------------------------- MODULE DriversProofs ----------------------------
(***************************************************************************)
(* Proofs about the drivers.  Each is an instance with variables of its    *)
(* own, so that a step of another driver leaves it alone.                  *)
(***************************************************************************)
EXTENDS Drivers, FiniteSetTheorems, SequenceTheorems, TLAPS

-----------------------------------------------------------------------------
(***************************************************************************)
(* Arithmetic.                                                             *)
(***************************************************************************)
LEMMA Division ==
    ASSUME NEW a \in Int, NEW y \in Nat, y > 0
    PROVE  /\ a = y * (a \div y) + (a % y)
           /\ a \div y \in Int /\ a % y \in Int /\ 0 <= a % y /\ a % y < y
  OBVIOUS

\* Factors are ordered as their products are.
LEMMA Factor ==
    ASSUME NEW y \in Nat, NEW p \in Int, NEW q \in Int, p < q
    PROVE  y * p + y <= y * q
  <1>1. PICK e \in Nat : q = p + 1 + e
    <2>1. q - p - 1 \in Nat /\ q = p + 1 + (q - p - 1)
      OBVIOUS
    <2> QED
      BY <2>1
  <1>2. y * q = y * p + y + y * e
    BY <1>1
  <1>3. y * e >= 0
    OBVIOUS
  <1> QED
    BY <1>2, <1>3

\* The quotient and the remainder are the only ones.
LEMMA DivisionUnique ==
    ASSUME NEW y \in Nat, NEW q \in Int, NEW r \in Int, 0 <= r, r < y
    PROVE  (y * q + r) \div y = q /\ (y * q + r) % y = r
  <1> DEFINE a == y * q + r
             s == a \div y
             t == a % y
  <1>1. a \in Int /\ y > 0
    OBVIOUS
  <1>2. y * q + r = y * s + t /\ s \in Int /\ t \in Int /\ 0 <= t /\ t < y
    BY <1>1, Division
  <1> HIDE DEF s, t
  <1>3. ~(s < q)
    <2> SUFFICES ASSUME s < q PROVE FALSE
      OBVIOUS
    <2>1. y * s + y <= y * q
      BY <1>2, Factor
    <2> QED
      BY <2>1, <1>2
  <1>4. ~(q < s)
    <2> SUFFICES ASSUME q < s PROVE FALSE
      OBVIOUS
    <2>1. y * q + y <= y * s
      BY <1>2, Factor
    <2> QED
      BY <2>1, <1>2
  <1>5. s = q
    BY <1>2, <1>3, <1>4
  <1>6. t = r
    BY <1>2, <1>5
  <1> QED
    BY <1>5, <1>6 DEF s, t

\* Dividing twice is dividing by the product.
LEMMA DivisionTwice ==
    ASSUME NEW a \in Nat, NEW y \in Nat, NEW c \in Nat, y > 0, c > 0
    PROVE  a \div (y * c) = (a \div y) \div c
  <1> DEFINE q == a \div y
             r == a % y
             p == q \div c
             s == q % c
             m == y * c
             u == y * s + r
  <1>1. a = y * q + r /\ q \in Int /\ r \in Int /\ 0 <= r /\ r < y
    BY Division
  <1> HIDE DEF q, r
  <1>2. q = c * p + s /\ p \in Int /\ s \in Int /\ 0 <= s /\ s < c
    BY <1>1, Division
  <1> HIDE DEF p, s
  <1>3. y * s + y <= y * c /\ 0 <= y * s
    BY <1>2, Factor
  <1>4. u \in Int /\ 0 <= u /\ u < m /\ m \in Nat
    BY <1>1, <1>2, <1>3
  <1>5. y * (c * p + s) = m * p + y * s
    BY <1>1, <1>2
  <1>6. a = m * p + u
    BY <1>1, <1>2, <1>5
  <1> HIDE DEF m, u
  <1>7. a \div m = p
    BY <1>2, <1>4, <1>6, DivisionUnique
  <1> QED
    BY <1>7 DEF m, p, q

-----------------------------------------------------------------------------
(***************************************************************************)
(* The disk.                                                               *)
(***************************************************************************)
Busy  == [A!Ready EXCEPT !.bsy = TRUE]
Asks  == [A!Ready EXCEPT !.drq = TRUE]
Fails == [A!Ready EXCEPT !.err = TRUE]

Contents  == (A!Drives \cup {"none"}) \X Int \X Int
Transfers == [sector : Int, word : 0 .. Words - 1, left : 0 .. AtaByte]
Reports   == [A!Drives -> {"nothing", "no drive", "error", "detected"}]
Calls     == [op : {"none", "identify", "read"},
              pc : {"idle", "drive", "wait", "busy", "request", "error", "data"},
              drive : A!Drives, lba : Nat, count : 0 .. AtaByte, i : 0 .. AtaByte - 1,
              status : {A!NoBits, A!Ready, Busy, Asks, Fails}]

DiskTypes ==
    /\ present \in Connected /\ present \subseteq A!Drives /\ selected \in A!Drives
    /\ ataStatus \in {A!Ready, Busy, Asks, Fails} /\ lag \in BOOLEAN
    /\ transfer \in Transfers
    /\ ata \in Calls
    /\ words \in Seq(Contents)
    /\ report \in Reports
    /\ failed \subseteq A!Drives

\* Between calls the drive has nothing to transfer; its status may still show
\* the request for the last word.
Between ==
    /\ ata = A!Idle /\ transfer.left = 0
    /\ ataStatus = A!Ready \/ (ataStatus = Asks /\ lag)

\* What a call holds, whatever the drive does.
Called ==
    /\ ata.pc # "idle" /\ selected = ata.drive
    /\ ata.op = "read" => ata.count \in 1 .. AtaByte
    /\ ata.op = "identify" => ata.i = 0
    /\ ata.pc \in {"drive", "error"} => ata.op = "identify"
    /\ ata.pc = "wait" => ata.op = "read"

\* A call polls a drive that is not there, or that has failed: it has come no
\* further than that, and never will.
Stuck ==
    /\ selected \in present => ataStatus = Fails
    /\ selected \notin present => ataStatus = A!Ready /\ words = <<>>
    /\ ~lag /\ transfer.left = 0
    /\ ata.pc \in {"drive", "wait", "busy", "request"}

\* A call and the drive are at the same word of the same sector, and the drive
\* has the sectors left that the call still has to read.
InStep ==
    /\ selected \in present /\ ataStatus # Fails /\ ata.status # Fails
    /\ Len(words) = ata.i * Words + transfer.word
    /\ transfer.sector = IF ata.op = "read" THEN ata.lba + ata.i ELSE A!IDENTITY
    /\ transfer.left > 0 /\ transfer.left = (IF ata.op = "read" THEN ata.count ELSE 1) - ata.i
    /\ ata.pc # "data" => transfer.word = 0
    /\ ata.pc \in {"error", "data"} => ataStatus = Asks /\ ~lag
    /\ lag => ataStatus = A!Ready \/ (ataStatus = Asks /\ ata.pc = "wait")
    /\ ~lag => ataStatus \in {Busy, Asks}

DiskInv ==
    /\ DiskTypes /\ A!Detects
    /\ \/ ata.op = "none" /\ Between
       \/ ata.op # "none" /\ Called /\ (Stuck \/ InStep)

\* The address that the registers hold is the one that was asked for.
LEMMA AddressDecodes ==
    ASSUME A!AtaAssumption, NEW lba \in Lbas
    PROVE  A!Sector(A!Registers(lba)) = lba
  <1> DEFINE B2 == AtaByte * AtaByte
             B3 == AtaByte * AtaByte * AtaByte
             q1 == lba \div AtaByte
             q2 == q1 \div AtaByte
             q3 == q2 \div AtaByte
  <1>1. lba \in Nat /\ lba < 16 * B3 /\ AtaByte \in Nat /\ AtaByte > 0
    BY DEF A!AtaAssumption
  <1>2. B2 \in Nat /\ B2 > 0 /\ B3 \in Nat /\ B3 > 0 /\ B3 = B2 * AtaByte
    BY <1>1
  <1>3. lba = AtaByte * q1 + (lba % AtaByte) /\ q1 \in Nat
    BY <1>1, Division
  <1>4. q1 = AtaByte * q2 + (q1 % AtaByte) /\ q2 \in Nat
    BY <1>1, <1>3, Division
  <1>5. q2 = AtaByte * q3 + (q2 % AtaByte) /\ q3 \in Nat
    BY <1>1, <1>4, Division
  <1>6. lba \div B2 = q2
    BY <1>1, DivisionTwice
  <1>7. lba \div B3 = q3
    <2>1. lba \div (B2 * AtaByte) = (lba \div B2) \div AtaByte
      BY <1>1, <1>2, DivisionTwice
    <2> QED
      BY <2>1, <1>2, <1>6
  <1>8. q3 % 16 = q3
    <2> DEFINE m == lba % B3
    <2>1. lba = B3 * q3 + m /\ 0 <= m /\ m \in Int
      BY <1>1, <1>2, <1>7, Division
    <2> HIDE DEF B3, q3, m
    <2>2. ~(15 < q3)
      <3> SUFFICES ASSUME 15 < q3 PROVE FALSE
        OBVIOUS
      <3>1. B3 * 15 + B3 <= B3 * q3
        BY <1>2, <1>5, Factor
      <3>2. B3 * 15 + B3 = 16 * B3
        BY <1>2
      <3>3. lba < 16 * B3 /\ 16 * B3 \in Nat /\ B3 * q3 \in Int /\ lba \in Nat
        BY <1>1, <1>2, <1>5
      <3> QED
        BY <3>1, <3>2, <3>3, <2>1
    <2> QED
      BY <2>2, <1>5
  <1> DEFINE r1 == lba % AtaByte
             r2 == q1 % AtaByte
             r3 == q2 % AtaByte
  <1>9. A!Sector(A!Registers(lba)) = r1 + r2 * AtaByte + r3 * B2 + q3 * B3
    BY <1>6, <1>7, <1>8 DEF A!Sector, A!Registers
  <1>10. r1 \in Int /\ r2 \in Int /\ r3 \in Int
    BY <1>1, <1>3, <1>4
  <1> HIDE DEF r1, r2, r3, q1, q2, q3
  <1>11. AtaByte * q1 = AtaByte * (AtaByte * q2 + r2)
    BY <1>4 DEF r2
  <1>12. AtaByte * (AtaByte * q2 + r2) = B2 * q2 + r2 * AtaByte
    BY <1>1, <1>4, <1>10
  <1>13. B2 * q2 = B2 * (AtaByte * q3 + r3)
    BY <1>5 DEF r3
  <1>14. B2 * (AtaByte * q3 + r3) = q3 * B3 + r3 * B2
    BY <1>1, <1>5, <1>10
  <1>15. lba = AtaByte * q1 + r1
    BY <1>3 DEF r1
  <1> HIDE DEF B2, B3
  <1> QED
    BY <1>1, <1>2, <1>5, <1>4, <1>3, <1>9, <1>10, <1>11, <1>12, <1>13, <1>14, <1>15

LEMMA DiskInit ==
    ASSUME A!AtaAssumption
    PROVE  A!Init => DiskInv
  <1> SUFFICES ASSUME A!Init PROVE DiskInv
    OBVIOUS
  <1>1. DiskTypes
    <2>1. /\ present \in Connected /\ present \subseteq A!Drives /\ selected \in A!Drives
          /\ words \in Seq(Contents) /\ failed \subseteq A!Drives
          /\ lag \in BOOLEAN /\ ataStatus \in {A!Ready, Busy, Asks, Fails}
      <3>1. /\ present \in Connected /\ selected = "primary" /\ words = <<>> /\ failed = {}
            /\ lag = FALSE /\ ataStatus = A!Ready
        BY DEF A!Init
      <3>2. Connected \subseteq SUBSET A!Drives
        BY DEF A!AtaAssumption
      <3>3. words \in Seq(Contents)
        BY <3>1
      <3>4. present \subseteq A!Drives /\ selected \in A!Drives /\ failed \subseteq A!Drives
        BY <3>1, <3>2 DEF A!Drives
      <3> QED
        BY <3>1, <3>3, <3>4
    <2>2. transfer \in Transfers
      BY DEF A!AtaAssumption, A!Init, A!NoTransfer, Transfers
    <2>3. ata \in Calls
      BY DEF A!AtaAssumption, A!Init, A!Idle, A!Drives, Calls
    <2>4. report \in Reports
      BY DEF A!Init, Reports
    <2> QED
      BY <2>1, <2>2, <2>3, <2>4 DEF DiskTypes
  <1>2. A!Detects
    BY DEF A!Init, A!Detects
  <1>3. ata.op = "none" /\ Between
    BY DEF A!Init, Between, A!Idle, A!NoTransfer
  <1> QED
    BY <1>1, <1>2, <1>3 DEF DiskInv

\* A command finds the drive ready, and leaves it and the call in step, or the
\* call polling a drive that is not there.
LEMMA CommandFacts ==
    ASSUME A!AtaAssumption, DiskInv, ata.pc = "idle", NEW drive \in A!Drives, NEW sector \in Int,
           NEW sectors \in 1 .. AtaByte, A!Command(drive, sector, sectors)
    PROVE  /\ ata.op = "none" /\ selected' = drive
           /\ transfer' \in Transfers
           /\ lag' \in BOOLEAN /\ ataStatus' = A!Ready
           /\ drive \in present => /\ lag' /\ transfer'.sector = sector
                                   /\ transfer'.word = 0 /\ transfer'.left = sectors
           /\ drive \notin present => ~lag' /\ transfer'.left = 0
  <1>1. ata.op = "none" /\ Between /\ DiskTypes
    BY DEF DiskInv, Called
  <1>2. ataStatus = A!Ready /\ ~lag /\ transfer.left = 0 /\ selected' = drive
    BY <1>1 DEF Between, A!Command
  <1>3. /\ transfer \in Transfers
        /\ Words \in Nat \ {0} /\ AtaByte \in Nat \ {0}
    BY <1>1 DEF DiskTypes, A!AtaAssumption
  <1>4. CASE drive \in present
    <2> DEFINE left == IF sectors % AtaByte = 0 THEN AtaByte ELSE sectors % AtaByte
    <2>1. lag' = TRUE /\ transfer' = [sector |-> sector, word |-> 0, left |-> left]
          /\ ataStatus' = ataStatus
      BY <1>4 DEF A!Command
    <2>2. left = sectors
      <3>1. CASE sectors = AtaByte
        <4>1. sectors = AtaByte * 1 + 0 /\ (AtaByte * 1 + 0) % AtaByte = 0
          BY <3>1, <1>3, DivisionUnique
        <4> QED
          BY <4>1, <3>1
      <3>2. CASE sectors # AtaByte
        <4>1. sectors = AtaByte * 0 + sectors /\ (AtaByte * 0 + sectors) % AtaByte = sectors
          BY <3>2, <1>3, DivisionUnique
        <4> QED
          BY <4>1, <3>2
      <3> QED
        BY <3>1, <3>2
    <2> HIDE DEF left
    <2>3. sectors \in 0 .. AtaByte /\ 0 \in 0 .. Words - 1
      BY <1>3
    <2> QED
      BY <1>1, <1>2, <2>1, <2>2, <2>3, <1>4 DEF Transfers
  <1>5. CASE drive \notin present
    <2>1. ataStatus' = ataStatus /\ lag' = lag /\ transfer' = transfer
      BY <1>5 DEF A!Command, A!device
    <2>2. lag' = FALSE
      BY <1>1, <1>2, <2>1 DEF DiskTypes
    <2> QED
      BY <1>1, <1>2, <1>3, <1>5, <2>1, <2>2
  <1> QED
    BY <1>4, <1>5

\* What the parts of the status mean.
LEMMA StatusFacts ==
    /\ ~A!Ready.bsy /\ ~A!Ready.drq /\ ~A!Ready.err /\ A!Ready.rdy
    /\ Busy.bsy /\ ~Busy.drq /\ ~Busy.err /\ Busy.rdy
    /\ ~Asks.bsy /\ Asks.drq /\ ~Asks.err /\ Asks.rdy
    /\ ~Fails.bsy /\ ~Fails.drq /\ Fails.err /\ Fails.rdy
    /\ ~A!NoBits.bsy /\ ~A!NoBits.drq /\ ~A!NoBits.err /\ ~A!NoBits.rdy
  BY DEF A!Ready, A!NoBits, Busy, Asks, Fails

LEMMA IdleFacts ==
    ASSUME A!AtaAssumption
    PROVE  /\ A!Idle \in Calls /\ A!Idle.op = "none" /\ A!Idle.pc = "idle" /\ A!Idle.i = 0
           /\ A!Idle.drive = "primary" /\ A!Idle.status = A!NoBits
  <1>1. 0 \in 0 .. AtaByte - 1 /\ 0 \in 0 .. AtaByte /\ "primary" \in A!Drives
    BY DEF A!AtaAssumption, A!Drives
  <1> QED
    BY <1>1 DEF A!Idle, Calls

LEMMA DiskIdentify ==
    ASSUME A!AtaAssumption, DiskInv, NEW drive \in A!Drives, A!Identify(drive)
    PROVE  DiskInv'
  <1> DEFINE new == [A!Idle EXCEPT !.op = "identify", !.pc = "drive", !.drive = drive]
  <1>1. /\ ata.pc = "idle" /\ A!Command(drive, A!IDENTITY, 1) /\ ata' = new /\ words' = <<>>
        /\ present' = present /\ report' = report /\ failed' = failed
    BY DEF A!Identify, A!At, A!Chosen
  <1>2. /\ ata.op = "none" /\ selected' = drive /\ transfer' \in Transfers
        /\ lag' \in BOOLEAN /\ ataStatus' = A!Ready
        /\ drive \in present => /\ lag' /\ transfer'.sector = A!IDENTITY
                            /\ transfer'.word = 0 /\ transfer'.left = 1
        /\ drive \notin present => ~lag' /\ transfer'.left = 0
    <2>1. A!IDENTITY \in Int /\ 1 \in 1 .. AtaByte
      BY DEF A!IDENTITY, A!AtaAssumption
    <2> QED
      BY <1>1, <2>1, CommandFacts
  <1>3. /\ new \in Calls /\ new.op = "identify" /\ new.pc = "drive" /\ new.drive = drive
        /\ new.i = 0 /\ new.status = A!NoBits
    BY IdleFacts DEF Calls
  <1> HIDE DEF new
  <1>4. DiskTypes'
    BY <1>1, <1>2, <1>3 DEF DiskInv, DiskTypes
  <1>5. A!Detects'
    BY <1>1 DEF DiskInv, A!Detects
  <1>6. Called'
    BY <1>1, <1>2, <1>3 DEF Called
  <1>7. drive \notin present => Stuck'
    BY <1>1, <1>2, <1>3 DEF Stuck
  <1>8. drive \in present => InStep'
    <2>1. A!Ready # Fails /\ A!NoBits # Fails
      BY StatusFacts
    <2>2. Words \in Nat /\ 0 * Words + 0 = 0 /\ Len(words') = 0
      BY <1>1 DEF A!AtaAssumption
    <2> QED
      BY <1>1, <1>2, <1>3, <2>1, <2>2 DEF InStep
  <1> QED
    BY <1>1, <1>3, <1>4, <1>5, <1>6, <1>7, <1>8 DEF DiskInv

LEMMA DiskRequest ==
    ASSUME A!AtaAssumption, DiskInv, NEW lba \in Lbas, NEW sectors \in Counts, A!ata_read(lba, sectors)
    PROVE  DiskInv'
  <1> DEFINE new == [A!Idle EXCEPT !.op = "read", !.pc = "wait", !.lba = lba, !.count = sectors]
  <1>1. /\ ata.pc = "idle" /\ A!Command("primary", A!Sector(A!Registers(lba)), sectors)
        /\ ata' = new /\ words' = <<>>
        /\ present' = present /\ report' = report /\ failed' = failed
    BY DEF A!ata_read, A!At, A!Addressed
  <1>0. "primary" \in A!Drives /\ sectors \in 1 .. AtaByte /\ lba \in Nat
    BY DEF A!AtaAssumption, A!Drives
  <1>2. /\ ata.op = "none" /\ selected' = "primary" /\ transfer' \in Transfers
        /\ lag' \in BOOLEAN /\ ataStatus' = A!Ready
        /\ "primary" \in present => /\ lag' /\ transfer'.sector = lba
                                    /\ transfer'.word = 0 /\ transfer'.left = sectors
        /\ "primary" \notin present => ~lag' /\ transfer'.left = 0
    <2>1. A!Command("primary", lba, sectors) /\ lba \in Int
      BY <1>1, <1>0, AddressDecodes
    <2> QED
      BY <1>0, <1>1, <2>1, CommandFacts
  <1>3. /\ new \in Calls /\ new.op = "read" /\ new.pc = "wait" /\ new.drive = "primary"
        /\ new.i = 0 /\ new.status = A!NoBits /\ new.lba = lba /\ new.count = sectors
    <2>1. sectors \in 0 .. AtaByte
      BY <1>0 DEF A!AtaAssumption
    <2> QED
      BY <1>0, <2>1, IdleFacts DEF Calls
  <1> HIDE DEF new
  <1>4. DiskTypes'
    BY <1>0, <1>1, <1>2, <1>3 DEF DiskInv, DiskTypes
  <1>5. A!Detects'
    BY <1>1 DEF DiskInv, A!Detects
  <1>6. Called'
    BY <1>0, <1>1, <1>2, <1>3 DEF Called
  <1>7. "primary" \notin present => Stuck'
    BY <1>1, <1>2, <1>3 DEF Stuck
  <1>8. "primary" \in present => InStep'
    <2>1. A!Ready # Fails /\ A!NoBits # Fails
      BY StatusFacts
    <2>2. Words \in Nat /\ 0 * Words + 0 = 0 /\ Len(words') = 0
      BY <1>1 DEF A!AtaAssumption
    <2> QED
      BY <1>0, <1>1, <1>2, <1>3, <2>1, <2>2 DEF InStep
  <1> QED
    BY <1>1, <1>3, <1>4, <1>5, <1>6, <1>7, <1>8 DEF DiskInv

\* The steps of the drive.
LEMMA DiskDrive ==
    ASSUME A!AtaAssumption, DiskInv, A!Update \/ A!Fetch \/ A!Fail
    PROVE  DiskInv'
  <1>1. /\ present' = present /\ selected' = selected /\ ata' = ata /\ words' = words
        /\ report' = report
    BY DEF A!Update, A!Fetch, A!Fail
  <1>2. A!Detects'
    BY <1>1 DEF DiskInv, A!Detects
  <1>3. Called => Called'
    BY <1>1 DEF Called
  <1>4. DiskTypes
    BY DEF DiskInv
  <1>5. CASE A!Update
    <2>1. /\ lag /\ lag' = FALSE /\ transfer' = transfer /\ failed' = failed
          /\ ataStatus' = IF transfer.left > 0 THEN Busy ELSE A!Ready
      BY <1>5 DEF A!Update, Busy
    <2>2. DiskTypes'
      BY <1>1, <1>4, <2>1 DEF DiskTypes
    <2>3. Between => Between'
      <3>1. transfer.left = 0 => ~(transfer.left > 0)
        OBVIOUS
      <3> QED
        BY <1>1, <2>1, <3>1 DEF Between
    <2>4. ~Stuck
      BY <2>1 DEF Stuck
    <2>5. InStep => InStep'
      BY <1>1, <2>1, StatusFacts DEF InStep
    <2> QED
      BY <1>1, <1>2, <1>3, <2>2, <2>3, <2>4, <2>5 DEF DiskInv
  <1>6. CASE A!Fetch
    <2>1. /\ lag = FALSE /\ lag' = FALSE /\ transfer' = transfer /\ failed' = failed
          /\ ataStatus' = Asks /\ ataStatus.bsy
      BY <1>4, <1>6 DEF A!Fetch, Asks, DiskTypes
    <2>2. DiskTypes'
      BY <1>1, <1>4, <2>1 DEF DiskTypes
    <2>3. ~Between
      BY <2>1, StatusFacts DEF Between
    <2>4. ~Stuck
      BY <2>1, StatusFacts DEF Stuck
    <2>5. InStep => InStep'
      BY <1>1, <2>1, StatusFacts DEF InStep
    <2> QED
      BY <1>1, <1>2, <1>3, <2>2, <2>3, <2>4, <2>5 DEF DiskInv
  <1>7. CASE A!Fail
    <2>1. /\ lag = FALSE /\ lag' = FALSE /\ transfer' = A!NoTransfer
          /\ ataStatus' = Fails /\ ataStatus.bsy
          /\ failed' = IF ata.op = "identify" THEN failed \cup {ata.drive} ELSE failed
      BY <1>4, <1>7 DEF A!Fail, Fails, DiskTypes
    <2>2. DiskTypes'
      <3>1. A!NoTransfer \in Transfers
        BY DEF A!AtaAssumption, A!NoTransfer, Transfers
      <3>2. failed' \subseteq A!Drives
        <4>1. ata.drive \in A!Drives /\ failed \subseteq A!Drives
          BY <1>4 DEF DiskTypes, Calls
        <4> QED
          BY <2>1, <4>1
      <3> QED
        BY <1>1, <1>4, <2>1, <3>1, <3>2 DEF DiskTypes
    <2>3. ~Between
      BY <2>1, StatusFacts DEF Between
    <2>4. ~Stuck
      BY <2>1, StatusFacts DEF Stuck
    <2>5. InStep => Stuck'
      <3> SUFFICES ASSUME InStep PROVE Stuck'
        OBVIOUS
      <3>1. selected' \in present' /\ transfer'.left = 0
        BY <1>1, <2>1 DEF InStep, A!NoTransfer
      <3>2. ata.pc \notin {"error", "data"}
        BY <2>1, StatusFacts DEF InStep
      <3>3. ata.op # "none" /\ ata.pc # "idle"
        BY <2>3 DEF DiskInv, Called
      <3>4. ata.pc \in {"drive", "wait", "busy", "request"}
        BY <1>4, <3>2, <3>3 DEF DiskTypes, Calls
      <3> QED
        BY <1>1, <2>1, <3>1, <3>4 DEF Stuck
    <2> QED
      BY <1>1, <1>2, <1>3, <2>2, <2>3, <2>4, <2>5 DEF DiskInv
  <1> QED
    BY <1>5, <1>6, <1>7

\* A step of the driver that only goes on to another place.
LEMMA DiskGoto ==
    ASSUME A!AtaAssumption, DiskInv, ata.op # "none",
           UNCHANGED <<present, selected, ataStatus, lag, transfer, words, report, failed>>,
           NEW next \in {"wait", "busy", "request", "error", "data"},
           NEW st \in {A!NoBits, A!Ready, Busy, Asks, Fails},
           ata' = [ata EXCEPT !.pc = next, !.status = st],
           next = "wait" => ata.op = "read", next = "error" => ata.op = "identify",
           next \in {"error", "data"} => InStep /\ ataStatus = Asks /\ ~lag,
           next = "data" \/ ata.pc # "data",
           st = Fails => Stuck, ata.pc = "wait" => ~lag
    PROVE  DiskInv'
  <1>1. DiskTypes /\ A!Detects /\ Called /\ (Stuck \/ InStep)
    BY DEF DiskInv
  <1>2. ata \in Calls
    BY <1>1 DEF DiskTypes
  <1>3. /\ ata' \in Calls /\ ata'.pc = next /\ ata'.status = st /\ ata'.op = ata.op
        /\ ata'.drive = ata.drive /\ ata'.i = ata.i /\ ata'.count = ata.count /\ ata'.lba = ata.lba
    BY <1>2 DEF Calls
  <1>4. /\ present' = present /\ selected' = selected /\ ataStatus' = ataStatus /\ lag' = lag
        /\ transfer' = transfer /\ words' = words /\ report' = report /\ failed' = failed
    OBVIOUS
  <1>5. DiskTypes'
    BY <1>1, <1>3, <1>4 DEF DiskTypes
  <1>6. A!Detects'
    BY <1>1, <1>4 DEF A!Detects
  <1>7. Called'
    BY <1>1, <1>3, <1>4 DEF Called
  <1>8. CASE Stuck
    <2>1. ~InStep
      BY <1>8, StatusFacts DEF Stuck, InStep
    <2>2. Stuck'
      BY <1>3, <1>4, <1>8, <2>1 DEF Stuck
    <2> QED
      BY <1>3, <1>5, <1>6, <1>7, <2>2 DEF DiskInv
  <1>9. CASE InStep
    <2>1. ~Stuck
      BY <1>9, StatusFacts DEF Stuck, InStep
    <2>2. InStep'
      BY <1>3, <1>4, <1>9, <2>1 DEF InStep
    <2> QED
      BY <1>3, <1>5, <1>6, <1>7, <2>2 DEF DiskInv
  <1> QED
    BY <1>1, <1>8, <1>9

LEMMA DiskCheckDrive ==
    ASSUME A!AtaAssumption, DiskInv, A!CheckDrive
    PROVE  DiskInv'
  <1>1. /\ present' = present /\ selected' = selected /\ words' = words /\ failed' = failed
        /\ ataStatus' = ataStatus /\ lag' = lag /\ transfer' = transfer /\ ata.pc = "drive"
    BY DEF A!CheckDrive, A!At, A!device
  <1>2. ata.op # "none"
    BY <1>1, IdleFacts DEF DiskInv, Between
  <1>3. DiskTypes /\ A!Detects /\ Called /\ (Stuck \/ InStep) /\ ata.op = "identify"
    BY <1>1, <1>2 DEF DiskInv, Called
  <1>4. ata \in Calls /\ report \in Reports /\ ata.drive \in A!Drives /\ selected = ata.drive
    BY <1>3 DEF DiskTypes, Calls, Called
  <1>5. CASE A!Status = A!NoBits
    <2>1. ata' = A!Idle /\ report' = [report EXCEPT ![ata.drive] = "no drive"]
      BY <1>3, <1>5 DEF A!CheckDrive, A!Return
    <2>2. selected \notin present
      BY <1>3, <1>5, StatusFacts DEF A!Status, DiskTypes
    <2>3. Stuck
      BY <1>3, <2>2 DEF InStep
    <2>4. DiskTypes'
      <3>1. report' \in Reports
        BY <1>4, <2>1 DEF Reports
      <3> QED
        BY <1>1, <1>3, <2>1, <3>1, IdleFacts DEF DiskTypes
    <2>5. A!Detects'
      BY <1>1, <1>3, <1>4, <2>1, <2>2 DEF A!Detects, Reports
    <2>6. Between' /\ ata'.op = "none"
      BY <1>1, <2>1, <2>2, <2>3, IdleFacts DEF Between, Stuck
    <2> QED
      BY <2>4, <2>5, <2>6 DEF DiskInv
  <1>6. CASE A!Status # A!NoBits
    <2>1. ata' = [ata EXCEPT !.pc = "busy", !.status = A!Status] /\ report' = report
      BY <1>6 DEF A!CheckDrive
    <2>2. A!Status = ataStatus
      BY <1>6 DEF A!Status
    <2>3. A!Status \in {A!NoBits, A!Ready, Busy, Asks, Fails}
      BY <1>3, <2>2 DEF DiskTypes
    <2>4. A!Status = Fails => Stuck
      BY <1>3, <2>2 DEF InStep
    <2> QED
      BY <1>1, <1>2, <1>3, <2>1, <2>3, <2>4, DiskGoto
  <1> QED
    BY <1>5, <1>6

LEMMA DiskPoll ==
    ASSUME A!AtaAssumption, DiskInv, A!PollBusy \/ A!PollRequest \/ A!Wait
    PROVE  DiskInv'
  <1>1. /\ present' = present /\ selected' = selected /\ words' = words /\ failed' = failed
        /\ ataStatus' = ataStatus /\ lag' = lag /\ transfer' = transfer /\ report' = report
        /\ ata.pc \in {"busy", "request", "wait"}
    BY DEF A!PollBusy, A!PollRequest, A!Wait, A!At, A!device
  <1>2. ata.op # "none"
    BY <1>1, IdleFacts DEF DiskInv, Between
  <1>3. DiskTypes /\ Called /\ (Stuck \/ InStep)
    BY <1>2 DEF DiskInv
  <1>4. ata \in Calls /\ ata.status \in {A!NoBits, A!Ready, Busy, Asks, Fails} /\ ata.op \in {"identify", "read"}
    BY <1>2, <1>3 DEF DiskTypes, Calls
  <1>5. \A next : [ata EXCEPT !.pc = next] = [ata EXCEPT !.pc = next, !.status = ata.status]
    BY <1>4 DEF Calls
  <1>6. ata.status = Fails => Stuck
    BY <1>3 DEF InStep
  <1>7. CASE A!PollBusy
    <2>1. ata' = [ata EXCEPT !.pc = "request"] /\ ata.pc = "busy"
      BY <1>7 DEF A!PollBusy, A!Goto, A!At
    <2> QED
      BY <1>1, <1>2, <1>4, <1>5, <1>6, <2>1, DiskGoto
  <1>8. CASE A!PollRequest
    <2> DEFINE next == IF ata.op = "identify" THEN "error" ELSE "data"
    <2>1. ata' = [ata EXCEPT !.pc = next] /\ A!Status.drq /\ ata.pc = "request"
      BY <1>8 DEF A!PollRequest, A!Goto, A!At
    <2>2. ataStatus = Asks
      BY <1>3, <2>1, StatusFacts DEF A!Status, DiskTypes
    <2>3. InStep
      BY <1>3, <2>1, <2>2, StatusFacts DEF Stuck, A!Status
    <2>4. ~lag
      BY <2>1, <2>2, <2>3, StatusFacts DEF InStep
    <2>5. next \in {"error", "data"} /\ (next = "error" => ata.op = "identify")
      OBVIOUS
    <2>6. ata' = [ata EXCEPT !.pc = next, !.status = ata.status]
      BY <1>5, <2>1
    <2> HIDE DEF next
    <2>7. next \in {"wait", "busy", "request", "error", "data"} /\ next # "wait"
      BY <2>5
    <2> QED
      BY <1>1, <1>2, <1>4, <1>6, <2>1, <2>2, <2>3, <2>4, <2>5, <2>6, <2>7, DiskGoto
  <1>9. CASE A!Wait
    <2>1. ata' = [ata EXCEPT !.pc = "busy"] /\ ata.pc = "wait" /\ ~lag
      BY <1>9 DEF A!Wait, A!Goto, A!At, A!ata_wait
    <2> QED
      BY <1>1, <1>2, <1>4, <1>5, <1>6, <2>1, DiskGoto
  <1> QED
    BY <1>7, <1>8, <1>9

\* The status that is tested was read before the drive was polled, so the test
\* never finds an error: a drive that has failed does not come so far.
LEMMA DiskCheckError ==
    ASSUME A!AtaAssumption, DiskInv, A!CheckError
    PROVE  DiskInv'
  <1>1. /\ present' = present /\ selected' = selected /\ words' = words /\ failed' = failed
        /\ ataStatus' = ataStatus /\ lag' = lag /\ transfer' = transfer /\ ata.pc = "error"
    BY DEF A!CheckError, A!At, A!device
  <1>2. ata.op # "none"
    BY <1>1, IdleFacts DEF DiskInv, Between
  <1>3. DiskTypes /\ Called /\ InStep
    BY <1>1, <1>2 DEF DiskInv, Stuck
  <1>4. ata \in Calls /\ ata.status \in {A!NoBits, A!Ready, Busy, Asks, Fails}
    BY <1>3 DEF DiskTypes, Calls
  <1>5. ata.status # Fails /\ ~ata.status.err
    BY <1>3, <1>4, StatusFacts DEF InStep
  <1>6. ata' = [ata EXCEPT !.pc = "data"] /\ report' = report
    BY <1>5 DEF A!CheckError, A!Goto
  <1>7. [ata EXCEPT !.pc = "data"] = [ata EXCEPT !.pc = "data", !.status = ata.status]
    BY <1>4 DEF Calls
  <1>8. ataStatus = Asks /\ ~lag
    BY <1>1, <1>3 DEF InStep
  <1> QED
    BY <1>1, <1>2, <1>3, <1>4, <1>5, <1>6, <1>7, <1>8, DiskGoto

\* A word is read from a drive that offers it: it is the one the call expects.
LEMMA WordFacts ==
    ASSUME A!AtaAssumption, DiskInv, A!InWord
    PROVE  /\ ata.op # "none" /\ DiskTypes /\ Called /\ InStep /\ ataStatus = Asks /\ ~lag
           /\ words' = Append(words, <<selected, transfer.sector, transfer.word>>)
           /\ words' \in Seq(Contents) /\ Len(words') = Len(words) + 1
           /\ (Len(words') = (ata.i + 1) * Words) <=> (transfer.word + 1 = Words)
           /\ <<selected, transfer.sector, transfer.word>> = A!Expected(Len(words) + 1)
  <1>1. ata.pc = "data"
    BY DEF A!InWord, A!At
  <1>2. ata.op # "none"
    BY <1>1, IdleFacts DEF DiskInv, Between
  <1>3. DiskTypes /\ Called /\ InStep
    BY <1>1, <1>2 DEF DiskInv, Stuck
  <1>4. ataStatus = Asks /\ ~lag /\ selected \in present
    BY <1>1, <1>3 DEF InStep
  <1> DEFINE w == <<selected, transfer.sector, transfer.word>>
  <1>5. A!Word = w
    BY <1>4, StatusFacts DEF A!Word, A!Status
  <1>6. words' = Append(words, w)
    BY <1>5 DEF A!InWord
  <1>7. /\ transfer.sector \in Int /\ transfer.word \in 0 .. Words - 1 /\ Words \in Nat
        /\ ata.i \in Nat /\ selected \in A!Drives /\ words \in Seq(Contents)
        /\ Len(words) = ata.i * Words + transfer.word
    BY <1>3 DEF DiskTypes, Transfers, Calls, A!AtaAssumption, InStep
  <1>8. w \in Contents
    BY <1>7 DEF Contents
  <1> DEFINE n == Len(words)
             m == transfer.word
             p == Words * ata.i
  <1>9. p + m = n /\ p \in Nat /\ m \in 0 .. Words - 1 /\ n \in Nat
    BY <1>7
  <1>10. (ata.i + 1) * Words = p + Words
    BY <1>7
  <1>11. (Words * ata.i + m) \div Words = ata.i /\ (Words * ata.i + m) % Words = m
    <2>1. ata.i \in Int /\ m \in Int /\ 0 <= m /\ m < Words /\ Words \in Nat
      BY <1>7
    <2> HIDE DEF m
    <2> QED
      BY <2>1, DivisionUnique
  <1>12. n \div Words = ata.i /\ n % Words = m
    BY <1>9, <1>11
  <1>13. w = A!Expected(n + 1)
    <2>1. (n + 1) - 1 = n
      BY <1>9
    <2>2. selected = ata.drive
      BY <1>3 DEF Called
    <2>3. transfer.sector = IF ata.op = "read" THEN ata.lba + ata.i ELSE A!IDENTITY
      BY <1>3 DEF InStep
    <2> HIDE DEF n, m
    <2> QED
      BY <1>12, <2>1, <2>2, <2>3 DEF A!Expected, m
  <1>14. words' \in Seq(Contents) /\ Len(words') = n + 1
    BY <1>6, <1>7, <1>8
  <1>15. (n + 1 = p + Words) <=> (m + 1 = Words)
    <2> HIDE DEF n, m, p
    <2> QED
      BY <1>7, <1>9
  <1> HIDE DEF w, n, m, p
  <1> QED
    BY <1>2, <1>3, <1>4, <1>6, <1>10, <1>13, <1>14, <1>15 DEF w, n, m

LEMMA DiskInWord ==
    ASSUME A!AtaAssumption, DiskInv, A!InWord
    PROVE  DiskInv'
  <1>1. /\ present' = present /\ selected' = selected /\ failed' = failed
        /\ ataStatus' = ataStatus /\ ata.pc = "data"
    BY DEF A!InWord, A!At
  <1>2. /\ ata.op # "none" /\ DiskTypes /\ Called /\ InStep /\ ataStatus = Asks /\ ~lag
        /\ words' \in Seq(Contents) /\ Len(words') = Len(words) + 1
        /\ (Len(words') = (ata.i + 1) * Words) <=> (transfer.word + 1 = Words)
    BY WordFacts
  <1>3. /\ ata \in Calls /\ transfer \in Transfers /\ report \in Reports /\ A!Detects
        /\ selected \in present /\ selected = ata.drive
        /\ ata.i \in 0 .. AtaByte - 1 /\ ata.count \in 0 .. AtaByte /\ ata.lba \in Nat
        /\ transfer.word \in 0 .. Words - 1 /\ transfer.left \in 0 .. AtaByte
        /\ transfer.sector \in Int
        /\ Words \in Nat \ {0} /\ AtaByte \in Nat \ {0} /\ ata.op \in {"identify", "read"}
    BY <1>2 DEF DiskTypes, InStep, Called, DiskInv, Calls, Transfers, A!AtaAssumption
  <1>4. A!Status.drq /\ ~lag
    BY <1>2, <1>3, StatusFacts DEF A!Status
  <1>5. Len(words) \in Nat /\ Len(words) = ata.i * Words + transfer.word
    BY <1>2 DEF InStep, DiskTypes
  <1>6. CASE transfer.word + 1 # Words
    <2>1. transfer.word + 1 < Words
      BY <1>3, <1>6
    <2>2. transfer' = [transfer EXCEPT !.word = @ + 1] /\ lag' = lag
      BY <1>4, <2>1 DEF A!InWord, A!Transferred
    <2>3. ata' = ata /\ report' = report
      BY <1>2, <1>6, <1>5 DEF A!InWord
    <2>4. /\ transfer' \in Transfers /\ transfer'.word = transfer.word + 1
          /\ transfer'.sector = transfer.sector /\ transfer'.left = transfer.left
      BY <1>3, <2>1, <2>2 DEF Transfers
    <2>5. DiskTypes'
      BY <1>1, <1>2, <2>2, <2>3, <2>4 DEF DiskTypes
    <2>6. A!Detects'
      BY <1>1, <1>3, <2>3 DEF A!Detects
    <2>7. Called'
      BY <1>1, <1>2, <2>3 DEF Called
    <2>8. InStep'
      <3>1. Len(words') = ata.i * Words + transfer'.word
        <4> DEFINE p == ata.i * Words
        <4>1. p \in Nat /\ Len(words) = p + transfer.word /\ transfer.word \in Nat
          BY <1>3, <1>5
        <4> HIDE DEF p
        <4>2. Len(words') = p + transfer'.word
          BY <4>1, <1>2, <1>5, <2>4
        <4> QED
          BY <4>2 DEF p
      <3> QED
        BY <1>1, <1>2, <2>2, <2>3, <2>4, <3>1 DEF InStep
    <2> QED
      BY <1>2, <2>3, <2>5, <2>6, <2>7, <2>8 DEF DiskInv
  <1>7. CASE transfer.word + 1 = Words
    <2>1. /\ transfer' = [sector |-> transfer.sector + 1, word |-> 0, left |-> transfer.left - 1]
          /\ lag' = TRUE
      <3>1. ~(transfer.word + 1 < Words)
        BY <1>3, <1>7
      <3> QED
        BY <1>4, <3>1 DEF A!InWord, A!Transferred
    <2>2. transfer.left > 0 /\ transfer.left = (IF ata.op = "read" THEN ata.count ELSE 1) - ata.i
      BY <1>2 DEF InStep
    <2>3. transfer' \in Transfers
      <3>1. transfer.left - 1 \in 0 .. AtaByte /\ 0 \in 0 .. Words - 1 /\ transfer.sector + 1 \in Int
        BY <1>3, <2>2
      <3> QED
        BY <2>1, <3>1 DEF Transfers
    <2>4. Len(words) + 1 = (ata.i + 1) * Words
      BY <1>2, <1>7
    <2>5. CASE ata.op = "read" /\ ata.i + 1 < ata.count
      <3>1. ata' = [ata EXCEPT !.pc = "wait", !.i = @ + 1] /\ report' = report
        BY <2>4, <2>5 DEF A!InWord, A!MoreSectors
      <3>2. ata.i + 1 \in 0 .. AtaByte - 1
        BY <1>3, <2>5
      <3>3. /\ ata' \in Calls /\ ata'.pc = "wait" /\ ata'.i = ata.i + 1 /\ ata'.op = "read"
            /\ ata'.count = ata.count /\ ata'.lba = ata.lba /\ ata'.drive = ata.drive
            /\ ata'.status = ata.status
        BY <1>3, <2>5, <3>1, <3>2 DEF Calls
      <3>4. DiskTypes'
        BY <1>1, <1>2, <2>1, <2>3, <3>1, <3>3 DEF DiskTypes
      <3>5. A!Detects'
        BY <1>1, <1>3, <3>1 DEF A!Detects
      <3>6. Called'
        BY <1>1, <1>2, <2>5, <3>3 DEF Called
      <3>7. InStep'
        <4>1. Len(words') = ata'.i * Words + 0
          BY <1>2, <1>3, <2>4, <3>3
        <4>2. transfer'.sector = ata'.lba + ata'.i
          <5>1. transfer.sector = ata.lba + ata.i
            BY <1>2, <2>5 DEF InStep
          <5> QED
            BY <1>3, <2>1, <3>3, <5>1
        <4>3. transfer'.left > 0 /\ transfer'.left = ata'.count - ata'.i
          BY <1>3, <2>1, <2>2, <2>5, <3>3
        <4>4. ata.status # Fails /\ Asks # Fails
          BY <1>2, StatusFacts DEF InStep
        <4> QED
          BY <1>1, <1>2, <1>3, <2>1, <3>3, <4>1, <4>2, <4>3, <4>4 DEF InStep
      <3> QED
        BY <3>3, <3>4, <3>5, <3>6, <3>7 DEF DiskInv
    <2>6. CASE ~(ata.op = "read" /\ ata.i + 1 < ata.count)
      <3>1. /\ ata' = A!Idle
            /\ report' = IF ata.op = "identify" THEN [report EXCEPT ![ata.drive] = "detected"]
                                                ELSE report
        BY <2>4, <2>6 DEF A!InWord, A!MoreSectors, A!Return
      <3>2. transfer'.left = 0
        <4>1. ata.op = "identify" => ata.i = 0
          BY <1>2 DEF Called
        <4> QED
          BY <1>3, <2>1, <2>2, <2>6, <4>1
      <3>3. DiskTypes'
        <4>1. report' \in Reports
          BY <1>3, <3>1 DEF Reports
        <4> QED
          BY <1>1, <1>2, <2>1, <2>3, <3>1, <4>1, IdleFacts DEF DiskTypes
      <3>4. A!Detects'
        BY <1>1, <1>3, <3>1 DEF A!Detects, Reports
      <3>5. Between' /\ ata'.op = "none"
        BY <1>1, <1>2, <2>1, <3>1, <3>2, IdleFacts DEF Between
      <3> QED
        BY <3>3, <3>4, <3>5 DEF DiskInv
    <2> QED
      BY <2>5, <2>6
  <1> QED
    BY <1>6, <1>7

LEMMA DiskNext ==
    ASSUME A!AtaAssumption, DiskInv, [A!Next]_A!vars
    PROVE  DiskInv'
  <1>1. ASSUME NEW drive \in A!Drives, A!Identify(drive) PROVE DiskInv'
    BY <1>1, DiskIdentify
  <1>2. ASSUME NEW lba \in Lbas, NEW sectors \in Counts, A!ata_read(lba, sectors) PROVE DiskInv'
    BY <1>2, DiskRequest
  <1>3. CASE A!CheckDrive
    BY <1>3, DiskCheckDrive
  <1>4. CASE A!PollBusy \/ A!PollRequest \/ A!Wait
    BY <1>4, DiskPoll
  <1>5. CASE A!CheckError
    BY <1>5, DiskCheckError
  <1>6. CASE A!InWord
    BY <1>6, DiskInWord
  <1>7. CASE A!Update \/ A!Fetch \/ A!Fail
    BY <1>7, DiskDrive
  <1>8. CASE UNCHANGED A!vars
    BY <1>8 DEF A!vars, DiskInv, DiskTypes, A!Detects, Between, Called, Stuck, InStep
  <1> QED
    BY <1>1, <1>2, <1>3, <1>4, <1>5, <1>6, <1>7, <1>8 DEF A!Next

\* A step of any driver is a step of the disk or leaves it alone.
LEMMA DiskAlone == [DriversNext]_all => [A!Next]_A!vars
  BY DEF DriversNext, all, disk, A!vars

\* The disk and its driver stay in step: for any drives, sizes of sectors and
\* bytes, addresses and counts of sectors of ata.c, and for any pace of the drive.
THEOREM DiskInvInvariant == DriversSpec => []DiskInv
  <1>1. DriversInit => DiskInv
    BY DiskInit, DriversAssumption DEF DriversInit
  <1>2. DiskInv /\ [DriversNext]_all => DiskInv'
    BY DiskNext, DiskAlone, DriversAssumption
  <1> QED
    BY <1>1, <1>2, PTL DEF DriversSpec

LEMMA DiskTypeCorrect == DiskInv => A!TypeOK
  <1> SUFFICES ASSUME DiskInv PROVE A!TypeOK
    OBVIOUS
  <1>1. ata \in Calls /\ transfer \in Transfers /\ DiskTypes
    BY DEF DiskInv, DiskTypes
  <1>2. ataStatus \in [bsy : BOOLEAN, drq : BOOLEAN, err : BOOLEAN, rdy : BOOLEAN]
    BY <1>1 DEF DiskTypes, Busy, Asks, Fails, A!Ready, A!NoBits
  <1>3. DOMAIN ata = DOMAIN A!Idle
    BY <1>1 DEF Calls, A!Idle
  <1>4. transfer.left \in 0 .. AtaByte /\ transfer.word \in 0 .. Words - 1 /\ ata.i \in 0 .. AtaByte - 1
    BY <1>1 DEF Calls, Transfers
  <1> QED
    BY <1>1, <1>2, <1>3, <1>4 DEF A!TypeOK, DiskTypes, Reports

\* A step stores the word that is expected, and a read returns when it has all.
LEMMA DiskStepReads ==
    ASSUME A!AtaAssumption, DiskInv, [A!Next]_A!vars
    PROVE  [/\ \A k \in DOMAIN words' \ DOMAIN words : words'[k] = A!Expected(k)
            /\ ata.op = "read" /\ ata'.op = "none" => Len(words') = ata.count * Words]_A!vars
  <1>1. CASE A!InWord
    <2> DEFINE w == <<selected, transfer.sector, transfer.word>>
               n == Len(words)
    <2>1. /\ words' = Append(words, w) /\ w = A!Expected(n + 1) /\ words \in Seq(Contents)
          /\ Len(words') = n + 1 /\ DiskTypes /\ InStep
          /\ (Len(words') = (ata.i + 1) * Words) <=> (transfer.word + 1 = Words)
      BY <1>1, WordFacts DEF DiskTypes
    <2>2. DOMAIN words' = 1 .. n + 1 /\ DOMAIN words = 1 .. n /\ words'[n + 1] = w /\ n \in Nat
      <3> HIDE DEF w
      <3> QED
        BY <2>1
    <2> HIDE DEF w
    <2>3. \A k \in DOMAIN words' \ DOMAIN words : words'[k] = A!Expected(k)
      <3>1. \A k \in DOMAIN words' \ DOMAIN words : k = n + 1
        <4> HIDE DEF n
        <4> QED
          BY <2>2
      <3> QED
        BY <2>1, <2>2, <3>1
    <2>4. ASSUME ata.op = "read", ata'.op = "none" PROVE Len(words') = ata.count * Words
      <3>1. Len(words) + 1 = (ata.i + 1) * Words
        <4> SUFFICES ASSUME Len(words) + 1 # (ata.i + 1) * Words PROVE FALSE
          OBVIOUS
        <4>1. ata' = ata
          BY <1>1 DEF A!InWord
        <4> QED
          BY <2>4, <4>1
      <3>2. ~(ata.i + 1 < ata.count)
        <4> SUFFICES ASSUME ata.i + 1 < ata.count PROVE FALSE
          OBVIOUS
        <4>1. ata' = [ata EXCEPT !.pc = "wait", !.i = @ + 1]
          BY <1>1, <2>4, <3>1 DEF A!InWord, A!MoreSectors
        <4>2. ata \in Calls
          BY <2>1 DEF DiskTypes
        <4> QED
          BY <2>4, <4>1, <4>2 DEF Calls
      <3>3. ata.count - ata.i > 0 /\ ata.count \in Nat /\ ata.i \in Nat
        BY <2>1, <2>4 DEF InStep, DiskTypes, Calls
      <3>4. ata.count = ata.i + 1
        BY <3>2, <3>3
      <3> QED
        BY <2>1, <3>1, <3>4
    <2> QED
      BY <2>3, <2>4
  <1>2. CASE ~A!InWord /\ A!Next
    <2>1. words' = words \/ words' = <<>>
      BY <1>2 DEF A!Next, A!Identify, A!ata_read, A!CheckDrive, A!PollBusy, A!PollRequest,
                  A!CheckError, A!Wait, A!Update, A!Fetch, A!Fail
    <2>2. DOMAIN words' \ DOMAIN words = {}
      BY <2>1
    <2>3. ASSUME ata.op = "read" PROVE ata'.op # "none"
      <3>0. DiskTypes /\ Called
        BY <2>3 DEF DiskInv
      <3>1. ata \in Calls /\ ata.pc \notin {"idle", "drive", "error"}
        BY <2>3, <3>0 DEF DiskTypes, Called
      <3>2. ~A!CheckDrive /\ ~A!CheckError
        BY <3>1 DEF A!CheckDrive, A!CheckError, A!At
      <3>3. (\A drive \in A!Drives : ~A!Identify(drive)) /\ \A l \in Lbas, c \in Counts : ~A!ata_read(l, c)
        BY <3>1 DEF A!Identify, A!ata_read, A!At
      <3>4. ata' = ata \/ \E next : ata' = [ata EXCEPT !.pc = next]
        BY <1>2, <3>2, <3>3 DEF A!Next, A!PollBusy, A!PollRequest, A!Wait, A!Goto,
                               A!Update, A!Fetch, A!Fail
      <3>5. ata'.op = ata.op
        BY <3>1, <3>4 DEF Calls
      <3> QED
        BY <2>3, <3>5
    <2> QED
      BY <2>2, <2>3
  <1> QED
    BY <1>1, <1>2

\* Whatever its pace, and whether or not it fails, the drive's words reach the
\* caller of ata_read and ata_identify whole and in order, nothing is left to
\* transfer when they return, and what is reported about drives is true.
THEOREM DiskReadSafe == DriversSpec => DiskRead
  <1>1. DiskInv => A!NothingLeft /\ A!Detects
    <2> SUFFICES ASSUME DiskInv PROVE A!NothingLeft /\ A!Detects
      OBVIOUS
    <2>1. ASSUME ata.op = "none" PROVE transfer.left = 0 /\ ~A!Status.bsy
      BY <2>1, StatusFacts DEF DiskInv, Between, A!Status
    <2> QED
      BY <2>1 DEF A!NothingLeft, DiskInv
  <1>2. DriversSpec => []DiskInv
    BY DiskInvInvariant
  <1>3. DiskInv /\ [DriversNext]_all =>
           [/\ \A k \in DOMAIN words' \ DOMAIN words : words'[k] = A!Expected(k)
            /\ ata.op = "read" /\ ata'.op = "none" => Len(words') = ata.count * Words]_A!vars
    BY DiskStepReads, DiskAlone, DriversAssumption
  <1>4. DriversSpec => A!ReadsSectors
    BY <1>2, <1>3, PTL DEF DriversSpec, A!ReadsSectors
  <1> QED
    BY <1>1, <1>2, <1>4, PTL DEF DiskRead, A!DiskRead

-----------------------------------------------------------------------------
(***************************************************************************)
(* The PCI bus: every function of every machine is entered in the table    *)
(* once, and as its header describes it, for any number of buses, devices  *)
(* and functions within the widths of the address.                         *)
(***************************************************************************)
FieldsOK(bus, device, function, offset) ==
    /\ bus \in 0 .. 255 /\ device \in 0 .. 31 /\ function \in 0 .. 7
    /\ offset \in 0 .. 252 /\ offset % 4 = 0

\* get_config_address and the host bridge agree: the fields of the address do
\* not run into each other.
LEMMA ConfigAddressDecodes ==
    ASSUME NEW bus, NEW device, NEW function, NEW offset,
           FieldsOK(bus, device, function, offset)
    PROVE  LET address == get_config_address(bus, device, function, offset)
           IN  /\ BusOf(address) = bus /\ DeviceOf(address) = device
               /\ FunctionOf(address) = function /\ OffsetOf(address) = offset
  <1> DEFINE low == (offset \div 4) * 4
             address == bus * 65536 + device * 2048 + function * 256 + low
  <1> USE DEF FieldsOK
  <1>1. low = offset
    BY Z3
  <1>2. address \div 65536 = bus
    BY <1>1, Z3
  <1>3. address \div 2048 = bus * 32 + device
    BY <1>1, Z3
  <1>4. address \div 256 = bus * 256 + device * 8 + function
    BY <1>1, Z3
  <1>5. address \div 4 = bus * 16384 + device * 512 + function * 64 + (offset \div 4)
    BY <1>1, Z3
  <1>6. bus % 256 = bus /\ (bus * 32 + device) % 32 = device
    BY Z3
  <1>7. (bus * 256 + device * 8 + function) % 8 = function
    BY Z3
  <1>8. (bus * 16384 + device * 512 + function * 64 + (offset \div 4)) % 64 = offset \div 4
    BY Z3
  <1> QED
    BY <1>1, <1>2, <1>3, <1>4, <1>5, <1>6, <1>7, <1>8
    DEF get_config_address, BusOf, DeviceOf, FunctionOf, OffsetOf

-----------------------------------------------------------------------------
\* The part of the state that pci_init does not change.
MachineOK == machine \in [Buses -> [Devices -> Shapes]] /\ absent \in Absent

LEMMA Sizes == Buses \subseteq 0 .. 255 /\ Devices \subseteq 0 .. 31 /\ Functions \subseteq 0 .. 7
  BY PciAssumption DEF Buses, Devices, Functions

LEMMA HeaderByteType ==
    ASSUME MachineOK, NEW bus \in Buses, NEW device \in Devices, NEW function \in Functions,
           NEW offset \in 0 .. 15
    PROVE  HeaderByte(bus, device, function, offset) \in Byte
  <1> DEFINE index == (bus * PCI_MAX_DEVICES + device) * PCI_MAX_FUNCTIONS + function
  <1>1. bus * PCI_MAX_DEVICES + device \in Int
    BY PciAssumption, Sizes
  <1>2. index \in Int
    BY <1>1, PciAssumption, Sizes
  <1> HIDE DEF index
  <1>3. index % 128 \in 0 .. 127 /\ ((offset * 16) + index) % 256 \in 0 .. 255
    BY <1>2
  <1> QED
    BY <1>3 DEF HeaderByte, index, Byte

LEMMA HeaderTypeByte ==
    ASSUME MachineOK, NEW bus \in Buses, NEW device \in Devices, NEW function \in Functions
    PROVE  HeaderByte(bus, device, function, 14) >= 128 <=> machine[bus][device].multifunction
  <1> DEFINE index == (bus * PCI_MAX_DEVICES + device) * PCI_MAX_FUNCTIONS + function
  <1>1. bus * PCI_MAX_DEVICES + device \in Int
    BY PciAssumption, Sizes
  <1>2. index \in Int
    BY <1>1, PciAssumption, Sizes
  <1> HIDE DEF index
  <1>3. index % 128 \in 0 .. 127
    BY <1>2
  <1> QED
    BY <1>3 DEF HeaderByte, index

LEMMA TwoBytes ==
    ASSUME NEW x \in 0 .. 255, NEW y \in 0 .. 255, x = 0 => y # 0, x = 255 => y # 255
    PROVE  x + 256 * y \notin NoVendor
  BY DEF NoVendor

LEMMA VendorAnswers ==
    ASSUME MachineOK, NEW bus \in Buses, NEW device \in Devices, NEW function \in Functions
    PROVE  HeaderByte(bus, device, function, 0) + 256 * HeaderByte(bus, device, function, 1)
               \notin NoVendor
  <1> DEFINE index == (bus * PCI_MAX_DEVICES + device) * PCI_MAX_FUNCTIONS + function
  <1>1. bus * PCI_MAX_DEVICES + device \in Int
    BY PciAssumption, Sizes
  <1>2. index \in Int
    BY <1>1, PciAssumption, Sizes
  <1> HIDE DEF index
  <1>3. /\ index % 256 \in 0 .. 255 /\ (16 + index) % 256 \in 0 .. 255
        /\ index % 256 = 0 => (16 + index) % 256 # 0
        /\ index % 256 = 255 => (16 + index) % 256 # 255
    BY <1>2, Z3
  <1>4. (index % 256) + 256 * ((16 + index) % 256) \notin NoVendor
    <2> DEFINE x == index % 256
               y == (16 + index) % 256
    <2>1. x \in 0 .. 255 /\ y \in 0 .. 255 /\ (x = 0 => y # 0) /\ (x = 255 => y # 255)
      BY <1>3
    <2> HIDE DEF x, y
    <2>2. x + 256 * y \notin NoVendor
      BY <2>1, TwoBytes
    <2> QED
      BY <2>2 DEF x, y
  <1>5. /\ HeaderByte(bus, device, function, 0) = ((0 * 16) + index) % 256
        /\ HeaderByte(bus, device, function, 1) = ((1 * 16) + index) % 256
    BY DEF HeaderByte, index
  <1>6. (0 * 16) + index = index /\ (1 * 16) + index = 16 + index
    BY <1>2
  <1>7. /\ HeaderByte(bus, device, function, 0) = index % 256
        /\ HeaderByte(bus, device, function, 1) = (16 + index) % 256
    BY <1>5, <1>6, Zenon
  <1> QED
    BY <1>4, <1>7, Zenon

\* What a read of one of the four double words of a header gives.
LEMMA ReadData ==
    ASSUME MachineOK, NEW bus \in Buses, NEW device \in Devices, NEW function \in Functions,
           NEW offset \in {0, 4, 8, 12}
    PROVE  LET who == Answering(bus, device, function)
           IN  pci_read(bus, device, function, offset) =
                   [k \in 0 .. 3 |-> IF Exists(bus, device, who)
                                     THEN HeaderByte(bus, device, who, offset + k) ELSE absent]
  <1>1. FieldsOK(bus, device, function, offset)
    BY Sizes DEF FieldsOK
  <1> DEFINE address == get_config_address(bus, device, function, offset)
  <1>2. /\ BusOf(address) = bus /\ DeviceOf(address) = device
        /\ FunctionOf(address) = function /\ OffsetOf(address) = offset
    BY <1>1, ConfigAddressDecodes
  <1>3. pci_read(bus, device, function, offset) = Data(address)
    BY DEF pci_read
  <1> HIDE DEF address
  <1> QED
    BY <1>2, <1>3, Zenon DEF Data

\* A device that does not say it has several functions has at most the first.
LEMMA ShapeFacts ==
    ASSUME MachineOK, NEW bus \in Buses, NEW device \in Devices
    PROVE  LET s == machine[bus][device]
           IN  /\ s.functions \subseteq Functions
               /\ s.functions # {} => 0 \in s.functions
               /\ s.aliased => s.functions = {0} /\ ~s.multifunction
               /\ ~s.multifunction => s.functions \subseteq {0}
  <1> DEFINE s == machine[bus][device]
  <1>1. s \in Shapes
    BY DEF MachineOK
  <1> HIDE DEF s
  <1>2. /\ s.functions \subseteq Functions
        /\ s.functions # {} => 0 \in s.functions
        /\ s.multifunction <=> Cardinality(s.functions) > 1
        /\ s.aliased => s.functions = {0}
    BY <1>1, PciAssumption
  <1>3. IsFiniteSet(Functions)
    BY FS_Interval, PciAssumption DEF Functions
  <1>4. IsFiniteSet(s.functions)
    BY <1>2, <1>3, FS_Subset
  <1>5. Cardinality(s.functions) \in Nat
    BY <1>4, FS_CardinalityType
  <1>6. s.aliased => ~s.multifunction
    BY <1>2, FS_Singleton
  <1>7. ASSUME ~s.multifunction, NEW z \in s.functions
        PROVE  z = 0
    <2>1. 0 \in s.functions
      BY <1>2, <1>7
    <2>2. /\ IsFiniteSet({0}) /\ Cardinality({0}) = 1
      BY FS_Singleton
    <2>3. Cardinality({0}) <= Cardinality(s.functions)
      BY <2>1, <1>4, FS_Subset
    <2>4. Cardinality(s.functions) = 1
      BY <2>2, <2>3, <1>2, <1>5, <1>7
    <2> QED
      BY <2>1, <2>4, <1>4, <1>7, FS_Singleton
  <1> QED
    BY <1>2, <1>6, <1>7 DEF s

\* Every byte that is read is one.
LEMMA ReadType ==
    ASSUME MachineOK, NEW bus \in Buses, NEW device \in Devices, NEW function \in Functions,
           NEW offset \in {0, 4, 8, 12}, NEW k \in 0 .. 3
    PROVE  pci_read(bus, device, function, offset)[k] \in Byte
  <1> DEFINE who == Answering(bus, device, function)
  <1>1. 0 \in Functions
    BY PciAssumption DEF Functions
  <1>0. who \in Functions
    BY <1>1 DEF Answering
  <1> HIDE DEF who
  <1>2. HeaderByte(bus, device, who, offset + k) \in Byte
    BY <1>0, HeaderByteType
  <1>3. absent \in Byte
    BY PciAssumption DEF MachineOK, Byte
  <1>4. pci_read(bus, device, function, offset)[k] =
            IF Exists(bus, device, who) THEN HeaderByte(bus, device, who, offset + k) ELSE absent
    BY ReadData DEF who
  <1> QED
    BY <1>2, <1>3, <1>4

\* How many functions a device is asked for.
LEMMA HowMany ==
    ASSUME MachineOK, NEW bus \in Buses, NEW device \in Devices
    PROVE  LET n == FunctionsOf(pci_header_type(bus, device, 0))
           IN  /\ n \in 1 .. PCI_MAX_FUNCTIONS
               /\ machine[bus][device].functions # {} =>
                      (n = IF machine[bus][device].multifunction THEN PCI_MAX_FUNCTIONS ELSE 1)
  <1>1. 0 \in Functions /\ PCI_MAX_FUNCTIONS \in 1 .. 8
    BY PciAssumption DEF Functions
  <1>2. FunctionsOf(pci_header_type(bus, device, 0)) \in 1 .. PCI_MAX_FUNCTIONS
    BY <1>1 DEF FunctionsOf
  <1>3. ASSUME machine[bus][device].functions # {}
        PROVE  pci_header_type(bus, device, 0) = HeaderByte(bus, device, 0, 14)
    <2>1. Answering(bus, device, 0) = 0
      BY DEF Answering
    <2>2. Exists(bus, device, 0)
      BY <1>3, ShapeFacts DEF Exists, MachineOK
    <2>3. pci_read(bus, device, 0, 12) =
              [k \in 0 .. 3 |-> HeaderByte(bus, device, 0, 12 + k)]
      BY <1>1, <2>1, <2>2, ReadData
    <2> QED
      BY <2>3 DEF pci_header_type
  <1>4. HeaderByte(bus, device, 0, 14) >= 128 <=> machine[bus][device].multifunction
    BY <1>1, HeaderTypeByte
  <1> QED
    BY <1>2, <1>3, <1>4 DEF FunctionsOf

\* Of the functions that are asked for, those answer that exist, and each with
\* its own header.
LEMMA OwnHeader ==
    ASSUME MachineOK, NEW bus \in Buses, NEW device \in Devices, NEW function \in Functions,
           machine[bus][device].functions # {} /\ ~machine[bus][device].multifunction =>
               function = 0
    PROVE  /\ ~Exists(bus, device, function) => pci_vendor_id(bus, device, function) \in NoVendor
           /\ Exists(bus, device, function) =>
                 /\ pci_vendor_id(bus, device, function) \notin NoVendor
                 /\ \A offset \in {0, 4, 8, 12} :
                       pci_read(bus, device, function, offset) =
                           [k \in 0 .. 3 |-> HeaderByte(bus, device, function, offset + k)]
  <1>1. machine[bus][device].aliased => function = 0
    BY ShapeFacts
  <1>2. Answering(bus, device, function) = function
    BY <1>1 DEF Answering
  <1>3. \A offset \in {0, 4, 8, 12} :
            pci_read(bus, device, function, offset) =
                [k \in 0 .. 3 |-> IF Exists(bus, device, function)
                                  THEN HeaderByte(bus, device, function, offset + k) ELSE absent]
    BY <1>2, ReadData
  <1>4. ASSUME Exists(bus, device, function)
        PROVE  /\ pci_vendor_id(bus, device, function) \notin NoVendor
               /\ \A offset \in {0, 4, 8, 12} :
                      pci_read(bus, device, function, offset) =
                          [k \in 0 .. 3 |-> HeaderByte(bus, device, function, offset + k)]
    <2>1. \A offset \in {0, 4, 8, 12} :
              pci_read(bus, device, function, offset) =
                  [k \in 0 .. 3 |-> HeaderByte(bus, device, function, offset + k)]
      BY <1>3, <1>4
    <2>2. pci_read(bus, device, function, 0) =
              [k \in 0 .. 3 |-> HeaderByte(bus, device, function, 0 + k)]
      BY <2>1
    <2>3. pci_vendor_id(bus, device, function) =
              HeaderByte(bus, device, function, 0) + 256 * HeaderByte(bus, device, function, 1)
      BY <2>2 DEF pci_vendor_id, Half
    <2>4. pci_vendor_id(bus, device, function) \notin NoVendor
      <3>1. HeaderByte(bus, device, function, 0) + 256 * HeaderByte(bus, device, function, 1) \notin NoVendor
        BY <1>4, VendorAnswers
      <3> QED
        BY <2>3, <3>1, Zenon
    <2> QED
      BY <2>1, <2>4, Zenon
  <1>5. ASSUME ~Exists(bus, device, function)
        PROVE  pci_vendor_id(bus, device, function) \in NoVendor
    <2>1. pci_read(bus, device, function, 0) = [k \in 0 .. 3 |-> absent]
      BY <1>3, <1>5
    <2>2. pci_vendor_id(bus, device, function) = absent + 256 * absent
      BY <2>1 DEF pci_vendor_id, Half
    <2>3. absent \in {0, 255}
      BY PciAssumption DEF MachineOK
    <2>4. absent + 256 * absent \in NoVendor
      BY <2>3 DEF NoVendor
    <2> QED
      BY <2>2, <2>4, Zenon
  <1> QED
    BY <1>4, <1>5, Zenon

-----------------------------------------------------------------------------
\* How far the loop over the functions of a device goes.
LoopOK ==
    pc = "function" =>
        /\ functions \in 1 .. PCI_MAX_FUNCTIONS
        /\ machine[b][d].functions # {} =>
              /\ functions = IF machine[b][d].multifunction THEN PCI_MAX_FUNCTIONS ELSE 1
              /\ f = 0 => header_type = HeaderByte(b, d, 0, 14)

PciInv == MachineOK /\ TypeOK /\ LoopOK /\ EachOnce /\ Described

LEMMA PciInvInit == Init => PciInv
  <1> SUFFICES ASSUME Init PROVE PciInv
    OBVIOUS
  <1>1. MachineOK
    BY DEF Init, MachineOK
  <1>2. TypeOK
    BY PciAssumption DEF Init, TypeOK, Buses, Devices, Byte
  <1>3. LoopOK
    BY DEF Init, LoopOK
  <1>4. DOMAIN devices = {}
    BY DEF Init
  <1>5. Passed = {}
    <2>1. b = 0 /\ d = 0 /\ pc = "device"
      BY DEF Init
    <2> QED
      BY <2>1 DEF Passed, Buses, Devices
  <1>6. EachOnce
    BY <1>4, <1>5 DEF EachOnce
  <1>7. Described
    BY <1>4 DEF Described
  <1> QED
    BY <1>1, <1>2, <1>3, <1>6, <1>7 DEF PciInv

\* What does not change with the table and the machine.
LEMMA SameTable ==
    ASSUME UNCHANGED <<machine, devices>>, Passed' = Passed, EachOnce, Described
    PROVE  EachOnce' /\ Described'
  <1>1. EachOnce'
    BY DEF EachOnce, Location
  <1>2. Described'
    BY DEF Described, Describes, Whole, At, HeaderByte
  <1> QED
    BY <1>1, <1>2

LEMMA DeviceStep == PciInv /\ Device => PciInv'
  <1> SUFFICES ASSUME PciInv, Device PROVE PciInv'
    OBVIOUS
  <1> USE DEF PciInv
  <1>1. MachineOK'
    BY DEF Device, MachineOK
  <1>2. b \in Buses /\ d \in Devices /\ 0 \in Functions
    BY PciAssumption DEF TypeOK, Functions
  <1>3. header_type' \in Byte
    BY <1>2, ReadType DEF Device, pci_header_type
  <1>4. functions' \in 1 .. PCI_MAX_FUNCTIONS
    BY <1>2, HowMany DEF Device
  <1>5. TypeOK'
    BY <1>3, <1>4, PciAssumption DEF Device, TypeOK
  <1>6. LoopOK'
    <2>1. ASSUME machine[b][d].functions # {}
          PROVE  /\ functions' = IF machine[b][d].multifunction THEN PCI_MAX_FUNCTIONS ELSE 1
                 /\ header_type' = HeaderByte(b, d, 0, 14)
      <3>1. functions' = FunctionsOf(pci_header_type(b, d, 0))
        BY DEF Device
      <3>2. Exists(b, d, 0)
        BY <1>2, <2>1, ShapeFacts DEF Exists
      <3>3. pci_read(b, d, 0, 12) = [k \in 0 .. 3 |-> HeaderByte(b, d, 0, 12 + k)]
        BY <1>2, <3>2, OwnHeader
      <3>4. pci_header_type(b, d, 0) = HeaderByte(b, d, 0, 14)
        BY <3>3 DEF pci_header_type
      <3> QED
        BY <1>2, <2>1, <3>1, <3>4, HowMany DEF Device
    <2> QED
      BY <1>4, <2>1 DEF Device, LoopOK, HeaderByte
  <1>7. Passed' = Passed
    BY DEF Device, Passed, Exists, TypeOK, Functions
  <1> QED
    BY <1>1, <1>5, <1>6, <1>7, SameTable DEF Device

\* The function asked for is entered, as it is, if it exists.
LEMMA FunctionFacts ==
    ASSUME PciInv, Function
    PROVE  /\ f \in Functions /\ HeaderOf \in Byte
           /\ Answers <=> Exists(b, d, f)
           /\ Exists(b, d, f) => Entry \in pci_device /\ Describes(Entry)
  <1> USE DEF PciInv
  <1>1. b \in Buses /\ d \in Devices
    BY DEF TypeOK
  <1>2. f \in Functions /\ 0 \in Functions
    BY PciAssumption DEF Function, TypeOK, Functions
  <1>3. HeaderOf \in Byte
    BY <1>1, <1>2, ReadType DEF HeaderOf, pci_header_type, TypeOK
  <1>4. machine[b][d].functions # {} /\ ~machine[b][d].multifunction => f = 0
    BY <1>2 DEF Function, LoopOK, Functions
  <1>5. Answers <=> Exists(b, d, f)
    BY <1>1, <1>2, <1>4, OwnHeader, Zenon DEF Answers
  <1>6. ASSUME Exists(b, d, f)
        PROVE  Entry \in pci_device /\ Describes(Entry)
    <2>1. \A offset \in {0, 4, 8, 12} :
              pci_read(b, d, f, offset) = [k \in 0 .. 3 |-> HeaderByte(b, d, f, offset + k)]
      BY <1>1, <1>2, <1>4, <1>6, OwnHeader, Zenon
    <2>2. pci_vendor_id(b, d, f) \notin NoVendor
      BY <1>1, <1>2, <1>4, <1>6, OwnHeader, Zenon
    <2>3. \A offset \in 0 .. 15 : HeaderByte(b, d, f, offset) \in Byte
      BY <1>1, <1>2, HeaderByteType
    <2>4. /\ pci_read(b, d, f, 0) = [k \in 0 .. 3 |-> HeaderByte(b, d, f, 0 + k)]
          /\ pci_read(b, d, f, 4) = [k \in 0 .. 3 |-> HeaderByte(b, d, f, 4 + k)]
          /\ pci_read(b, d, f, 8) = [k \in 0 .. 3 |-> HeaderByte(b, d, f, 8 + k)]
          /\ pci_read(b, d, f, 12) = [k \in 0 .. 3 |-> HeaderByte(b, d, f, 12 + k)]
      BY <2>1
    <2>5. /\ pci_vendor_id(b, d, f) = HeaderByte(b, d, f, 0) + 256 * HeaderByte(b, d, f, 1)
          /\ pci_device_id(b, d, f) = HeaderByte(b, d, f, 2) + 256 * HeaderByte(b, d, f, 3)
          /\ pci_command(b, d, f) = HeaderByte(b, d, f, 4) + 256 * HeaderByte(b, d, f, 5)
          /\ pci_status(b, d, f) = HeaderByte(b, d, f, 6) + 256 * HeaderByte(b, d, f, 7)
      BY <2>4 DEF pci_vendor_id, pci_device_id, pci_command, pci_status, Half
    <2>6. /\ pci_revision_id(b, d, f) = HeaderByte(b, d, f, 8)
          /\ pci_prog_if(b, d, f) = HeaderByte(b, d, f, 9)
          /\ pci_subclass(b, d, f) = HeaderByte(b, d, f, 10)
          /\ pci_class_code(b, d, f) = HeaderByte(b, d, f, 11)
      BY <2>4 DEF pci_revision_id, pci_prog_if, pci_subclass, pci_class_code
    <2>7. /\ pci_cache_line_size(b, d, f) = HeaderByte(b, d, f, 12)
          /\ pci_latency_timer(b, d, f) = HeaderByte(b, d, f, 13)
          /\ pci_header_type(b, d, f) = HeaderByte(b, d, f, 14)
          /\ pci_bist(b, d, f) = HeaderByte(b, d, f, 15)
      BY <2>4 DEF pci_cache_line_size, pci_latency_timer, pci_header_type, pci_bist
    <2>8. machine[b][d].functions # {}
      BY <1>6 DEF Exists
    <2>9. HeaderOf = HeaderByte(b, d, f, 14)
      BY <2>7, <2>8, <1>2 DEF HeaderOf, Function, LoopOK, Functions
    <2>10. Describes(Entry)
      <3>1. Entry.bus = b /\ Entry.device = d /\ Entry.function = f
        BY DEF Entry
      <3>2. \A offset : At(Entry, offset) = HeaderByte(b, d, f, offset)
        BY <3>1 DEF At
      <3>3. /\ Whole(Entry, 0) = pci_vendor_id(b, d, f) /\ Whole(Entry, 2) = pci_device_id(b, d, f)
            /\ Whole(Entry, 4) = pci_command(b, d, f) /\ Whole(Entry, 6) = pci_status(b, d, f)
        BY <2>5, <3>2 DEF Whole
      <3>4. /\ Entry.vendor_id = pci_vendor_id(b, d, f) /\ Entry.device_id = pci_device_id(b, d, f)
            /\ Entry.command = pci_command(b, d, f) /\ Entry.status = pci_status(b, d, f)
        BY DEF Entry
      <3>5. /\ Entry.revision_id = At(Entry, 8) /\ Entry.prog_if = At(Entry, 9)
            /\ Entry.subclass = At(Entry, 10) /\ Entry.class_code = At(Entry, 11)
        BY <2>6, <3>2 DEF Entry
      <3>6. /\ Entry.cache_line_size = At(Entry, 12) /\ Entry.latency_timer = At(Entry, 13)
            /\ Entry.header_type = At(Entry, 14) /\ Entry.bist = At(Entry, 15)
        BY <2>7, <2>9, <3>2 DEF Entry
      <3> QED
        BY <3>3, <3>4, <3>5, <3>6 DEF Describes
    <2>11. /\ pci_device_id(b, d, f) \in Nat /\ pci_command(b, d, f) \in Nat
           /\ pci_status(b, d, f) \in Nat /\ pci_vendor_id(b, d, f) \in Nat
      <3>1. /\ HeaderByte(b, d, f, 0) \in Nat /\ HeaderByte(b, d, f, 1) \in Nat
            /\ HeaderByte(b, d, f, 2) \in Nat /\ HeaderByte(b, d, f, 3) \in Nat
            /\ HeaderByte(b, d, f, 4) \in Nat /\ HeaderByte(b, d, f, 5) \in Nat
            /\ HeaderByte(b, d, f, 6) \in Nat /\ HeaderByte(b, d, f, 7) \in Nat
        <4>0. Byte \subseteq Nat
          BY DEF Byte
        <4>1. \A offset \in 0 .. 15 : HeaderByte(b, d, f, offset) \in Nat
          BY <2>3, <4>0, Zenon
        <4>2. /\ 0 \in 0 .. 15 /\ 1 \in 0 .. 15 /\ 2 \in 0 .. 15 /\ 3 \in 0 .. 15
              /\ 4 \in 0 .. 15 /\ 5 \in 0 .. 15 /\ 6 \in 0 .. 15 /\ 7 \in 0 .. 15
          OBVIOUS
        <4> QED
          BY <4>1, <4>2, Zenon
      <3> QED
        BY <2>5, <3>1
    <2>12. Entry \in pci_device
      BY <2>2, <2>3, <2>6, <2>7, <2>9, <2>11, <1>1, <1>2 DEF Entry, pci_device
    <2> QED
      BY <2>10, <2>12
  <1> QED
    BY <1>2, <1>3, <1>5, <1>6

LEMMA FunctionStep == PciInv /\ Function => PciInv'
  <1> SUFFICES ASSUME PciInv, Function PROVE PciInv'
    OBVIOUS
  <1> USE DEF PciInv
  <1>1. MachineOK'
    BY DEF Function, MachineOK
  <1>2. devices \in Seq(pci_device)
    BY DEF TypeOK
  <1>3. f' = f + 1 /\ f \in Nat /\ UNCHANGED <<machine, absent, pc, b, d, functions>>
    BY FunctionFacts DEF Function, Functions
  <1>4. TypeOK'
    <2>1. devices' \in Seq(pci_device)
      BY <1>2, FunctionFacts DEF Function
    <2>2. f' \in 0 .. PCI_MAX_FUNCTIONS /\ header_type' \in Byte
      <3>1. header_type' = HeaderOf
        BY DEF Function
      <3> QED
        BY <3>1, <1>3, FunctionFacts, PciAssumption DEF Functions
    <2> QED
      BY <2>1, <2>2, <1>3 DEF TypeOK
  <1>5. LoopOK'
    BY <1>3 DEF LoopOK, HeaderByte
  <1>6. \A p \in Buses \X Devices \X Functions :
            p \in Passed' <=> p \in Passed \/ (p = <<b, d, f>> /\ Exists(b, d, f))
    BY <1>3 DEF Passed, Exists, Function, TypeOK, Functions, Buses, Devices
  <1>7. CASE ~Exists(b, d, f)
    <2>1. devices' = devices
      BY <1>7, FunctionFacts DEF Function
    <2>2. Passed' = Passed
      BY <1>6, <1>7 DEF Passed
    <2> QED
      BY <2>1, <2>2, <1>1, <1>3, <1>4, <1>5, SameTable
  <1>8. CASE Exists(b, d, f)
    <2>1. devices' = Append(devices, Entry) /\ Entry \in pci_device /\ Describes(Entry)
      BY <1>8, FunctionFacts DEF Function
    <2>2. /\ DOMAIN devices' = 1 .. Len(devices) + 1 /\ DOMAIN devices = 1 .. Len(devices)
          /\ Len(devices) \in Nat
          /\ \A k \in 1 .. Len(devices) : devices'[k] = devices[k]
          /\ devices'[Len(devices) + 1] = Entry
      BY <1>2, <2>1
    <2>3. Described'
      <3>1. \A k \in 1 .. Len(devices) + 1 : Describes(devices'[k])
        BY <2>1, <2>2 DEF Described
      <3>2. ASSUME NEW k \in 1 .. Len(devices) + 1
            PROVE  Describes(devices[k])'
        <4>1. Describes(devices'[k]) /\ machine' = machine
          BY <3>1, <1>3
        <4> QED
          BY <4>1 DEF Describes, Whole, At, HeaderByte
      <3> QED
        BY <2>2, <3>2 DEF Described
    <2>4. Location(Entry) = <<b, d, f>>
      BY DEF Location, Entry
    <2>5. <<b, d, f>> \notin Passed
      BY <1>3 DEF Passed, Function, TypeOK, Buses, Devices
    <2>6. <<b, d, f>> \in Buses \X Devices \X Functions
      BY FunctionFacts DEF TypeOK
    <2>7. Passed' = Passed \cup {<<b, d, f>>}
      BY <1>6, <1>8, <2>6 DEF Passed
    <2>8. \A k \in 1 .. Len(devices) : Location(devices[k]) \in Passed
      BY <2>2 DEF EachOnce
    <2>9. \A k, n \in 1 .. Len(devices) + 1 :
              Location(devices'[k]) = Location(devices'[n]) => k = n
      <3> SUFFICES ASSUME NEW k \in 1 .. Len(devices) + 1, NEW n \in 1 .. Len(devices) + 1,
                          Location(devices'[k]) = Location(devices'[n])
                   PROVE  k = n
        OBVIOUS
      <3>1. CASE k \in 1 .. Len(devices) /\ n \in 1 .. Len(devices)
        BY <2>2, <3>1 DEF EachOnce
      <3>2. CASE k \in 1 .. Len(devices) /\ n = Len(devices) + 1
        <4>1. Location(devices'[k]) \in Passed /\ Location(devices'[n]) = <<b, d, f>>
          BY <2>2, <2>4, <2>8, <3>2
        <4> QED
          BY <2>5, <4>1, Zenon
      <3>3. CASE k = Len(devices) + 1 /\ n \in 1 .. Len(devices)
        <4>1. Location(devices'[n]) \in Passed /\ Location(devices'[k]) = <<b, d, f>>
          BY <2>2, <2>4, <2>8, <3>3
        <4> QED
          BY <2>5, <4>1, Zenon
      <3> QED
        BY <2>2, <3>1, <3>2, <3>3
    <2>10. {Location(devices'[k]) : k \in 1 .. Len(devices) + 1} = Passed'
      BY <2>2, <2>4, <2>7 DEF EachOnce
    <2>11. EachOnce'
      BY <2>2, <2>9, <2>10 DEF EachOnce, Location
    <2> QED
      BY <2>3, <2>11, <1>1, <1>4, <1>5
  <1> QED
    BY <1>7, <1>8

LEMMA AdvanceStep == PciInv /\ Advance => PciInv'
  <1> SUFFICES ASSUME PciInv, Advance PROVE PciInv'
    OBVIOUS
  <1> USE DEF PciInv
  <1>1. UNCHANGED <<machine, absent, f, header_type, functions, devices>> /\ pc = "function"
    BY DEF Advance
  <1>2. MachineOK'
    BY <1>1 DEF MachineOK
  <1>3. TypeOK'
    BY <1>1, PciAssumption DEF Advance, TypeOK, NextDevice, Buses, Devices
  <1>4. pc' # "function"
    BY DEF Advance
  <1>5. LoopOK'
    BY <1>4 DEF LoopOK
  <1>6. b \in Buses /\ d \in Devices
    BY DEF TypeOK
  <1>7. \A z \in Functions : Exists(b, d, z) => z < f
    <2> SUFFICES ASSUME NEW z \in Functions, Exists(b, d, z) PROVE z < f
      OBVIOUS
    <2>1. z \in machine[b][d].functions
      BY DEF Exists
    <2>2. machine[b][d].multifunction => functions = PCI_MAX_FUNCTIONS
      BY <1>1, <2>1 DEF LoopOK
    <2>3. ~machine[b][d].multifunction => z = 0
      BY <1>6, <2>1, ShapeFacts
    <2>4. f \in Int /\ functions \in 1 .. PCI_MAX_FUNCTIONS /\ f >= functions
      BY <1>1 DEF LoopOK, Advance, TypeOK
    <2> QED
      BY <2>2, <2>3, <2>4, PciAssumption DEF Functions
  <1>8. Passed' = Passed
    <2>1. \A x \in Buses, y \in Devices, z \in Functions :
              /\ Exists(x, y, z)
              /\ x < b \/ (x = b /\ y < d) \/ (x = b /\ y = d)
              => (x < b \/ (x = b /\ y < d) \/ (x = b /\ y = d /\ z < f))
      BY <1>7
    <2> QED
      BY <2>1, <1>1, <1>6, PciAssumption
      DEF Passed, Exists, Advance, NextDevice, Buses, Devices
  <1> QED
    BY <1>1, <1>2, <1>3, <1>5, <1>8, SameTable

\* The invariant holds in every state of every walk.
LEMMA PciInvNext == PciInv /\ [Next]_vars => PciInv'
  <1>1. PciInv /\ UNCHANGED vars => PciInv'
    BY DEF PciInv, vars, MachineOK, TypeOK, LoopOK, EachOnce, Described, Describes, Passed,
           Exists, HeaderByte, Location, Whole, At
  <1> QED
    BY <1>1, DeviceStep, FunctionStep, AdvanceStep DEF Next

THEOREM PciInvariance == Spec => []PciInv
  BY PciInvInit, PciInvNext, PTL DEF Spec

\* The entries are well typed (TypeOK).
THEOREM PciTypeCorrect == Spec => []TypeOK
  BY PciInvariance, PTL DEF PciInv

\* Whatever the machine has, pci_init enters every function it has passed,
\* each once (EachOnce).
THEOREM FindsEachOnce == Spec => []EachOnce
  BY PciInvariance, PTL DEF PciInv

\* Every entry has the fields of the function it names (Described).
THEOREM EntriesDescribe == Spec => []Described
  BY PciInvariance, PTL DEF PciInv

\* pci_init finds all there is, each function once and as it is (Enumerates).
THEOREM EnumerationCorrect == Spec => []Enumerates
  <1>1. EachOnce /\ Described => Enumerates
    BY DEF Enumerates
  <1> QED
    BY <1>1, FindsEachOnce, EntriesDescribe, PTL

-----------------------------------------------------------------------------
(***************************************************************************)
(* The screen: the proofs of DisplayProofs, for each of the instances.     *)
(***************************************************************************)
Quiet == INSTANCE DisplayProofs WITH
            Interruptible <- FALSE, Byte <- CrtcByte,
            buffer <- screen, index <- crtcIndex, call <- putcf

Nested == INSTANCE DisplayProofs WITH
            Height <- NestedHeight, Attributes <- NestedAttributes, Printing <- NestedPrinting,
            Interruptible <- TRUE, Byte <- CrtcByte,
            buffer <- screen, index <- crtcIndex, call <- putcf

\* What is proved of Quiet and Nested is proved of D and N.
LEMMA QuietSame ==
    /\ D!DisplayAssumption => Quiet!DisplayAssumption
    /\ D!Init => Quiet!Init
    /\ D!Next => Quiet!Next
    /\ Quiet!CursorTrue => D!CursorTrue
    /\ Quiet!TypeOK => D!TypeOK
  <1>1. D!DisplayAssumption => Quiet!DisplayAssumption
    BY DEF D!DisplayAssumption, Quiet!DisplayAssumption, D!NUL, Quiet!NUL, D!NEWLINE, Quiet!NEWLINE,
           D!RETURN, Quiet!RETURN
  <1>2. D!Init => Quiet!Init
    BY DEF D!Init, Quiet!Init, D!Blank, Quiet!Blank, D!Idle, Quiet!Idle, D!Size, Quiet!Size,
           D!Contexts, Quiet!Contexts, D!NUL, Quiet!NUL, D!DEFAULT, Quiet!DEFAULT
  <1>3. D!Next => Quiet!Next
    BY Zenon
    DEF D!Next, Quiet!Next, D!printf, Quiet!printf, D!handle_irq, Quiet!handle_irq, D!StoreCode,
        Quiet!StoreCode, D!StoreAttribute, Quiet!StoreAttribute, D!LoadCursor, Quiet!LoadCursor,
        D!StoreCursor, Quiet!StoreCursor, D!CheckFull, Quiet!CheckFull, D!ResetCursor, Quiet!ResetCursor, D!ShiftCell,
        Quiet!ShiftCell, D!UpdateCursor, Quiet!UpdateCursor, D!Select, Quiet!Select, D!Load,
        Quiet!Load, D!OutHalf, Quiet!OutHalf, D!Half, Quiet!Half, D!Full, Quiet!Full, D!Shifted,
        Quiet!Shifted, D!Advanced, Quiet!Advanced, D!CellAt, Quiet!CellAt, D!Store, Quiet!Store,
        D!Goto, Quiet!Goto, D!Enter, Quiet!Enter, D!At, Quiet!At, D!get_char, Quiet!get_char,
        D!Rows, Quiet!Rows, D!Row, Quiet!Row, D!Max, Quiet!Max, D!Blank, Quiet!Blank, D!Idle,
        Quiet!Idle, D!Size, Quiet!Size, D!Contexts, Quiet!Contexts, D!NUL, Quiet!NUL, D!NEWLINE,
        Quiet!NEWLINE, D!RETURN, Quiet!RETURN, D!DEFAULT, Quiet!DEFAULT
  <1>4. (Quiet!CursorTrue => D!CursorTrue) /\ (Quiet!TypeOK => D!TypeOK)
    BY DEF D!CursorTrue, Quiet!CursorTrue, D!CursorOnScreen, Quiet!CursorOnScreen, D!NearScreen,
           Quiet!NearScreen, D!CursorShown, Quiet!CursorShown, D!OnScreen, Quiet!OnScreen,
           D!AllIdle, Quiet!AllIdle, D!Idle, Quiet!Idle, D!Size, Quiet!Size, D!Contexts,
           Quiet!Contexts, D!NUL, Quiet!NUL, D!DEFAULT, Quiet!DEFAULT, D!TypeOK, Quiet!TypeOK
  <1> QED
    BY <1>1, <1>2, <1>3, <1>4

LEMMA NestedSame ==
    /\ N!DisplayAssumption => Nested!DisplayAssumption
    /\ N!Init => Nested!Init
    /\ N!Next => Nested!Next
    /\ Nested!CursorTrue => N!CursorTrue
    /\ Nested!TypeOK => N!TypeOK
  <1>1. N!DisplayAssumption => Nested!DisplayAssumption
    BY DEF N!DisplayAssumption, Nested!DisplayAssumption, N!NUL, Nested!NUL, N!NEWLINE,
           Nested!NEWLINE, N!RETURN, Nested!RETURN
  <1>2. N!Init => Nested!Init
    BY DEF N!Init, Nested!Init, N!Blank, Nested!Blank, N!Idle, Nested!Idle, N!Size, Nested!Size,
           N!Contexts, Nested!Contexts, N!NUL, Nested!NUL, N!DEFAULT, Nested!DEFAULT
  <1>3. N!Next => Nested!Next
    BY Zenon
    DEF N!Next, Nested!Next, N!printf, Nested!printf, N!handle_irq, Nested!handle_irq, N!StoreCode,
        Nested!StoreCode, N!StoreAttribute, Nested!StoreAttribute, N!LoadCursor, Nested!LoadCursor,
        N!StoreCursor, Nested!StoreCursor, N!CheckFull, Nested!CheckFull, N!ResetCursor, Nested!ResetCursor, N!ShiftCell,
        Nested!ShiftCell, N!UpdateCursor, Nested!UpdateCursor, N!Select, Nested!Select, N!Load,
        Nested!Load, N!OutHalf, Nested!OutHalf, N!Half, Nested!Half, N!Full, Nested!Full,
        N!Shifted, Nested!Shifted, N!Advanced, Nested!Advanced, N!CellAt, Nested!CellAt, N!Store,
        Nested!Store, N!Goto, Nested!Goto, N!Enter, Nested!Enter, N!At, Nested!At, N!get_char,
        Nested!get_char, N!Rows, Nested!Rows, N!Row, Nested!Row, N!Max, Nested!Max, N!Blank,
        Nested!Blank, N!Idle, Nested!Idle, N!Size, Nested!Size, N!Contexts, Nested!Contexts, N!NUL,
        Nested!NUL, N!NEWLINE, Nested!NEWLINE, N!RETURN, Nested!RETURN, N!DEFAULT, Nested!DEFAULT
  <1>4. (Nested!CursorTrue => N!CursorTrue) /\ (Nested!TypeOK => N!TypeOK)
    BY DEF N!CursorTrue, Nested!CursorTrue, N!CursorOnScreen, Nested!CursorOnScreen, N!NearScreen,
           Nested!NearScreen, N!CursorShown, Nested!CursorShown, N!OnScreen, Nested!OnScreen,
           N!AllIdle, Nested!AllIdle, N!Idle, Nested!Idle, N!Size, Nested!Size, N!Contexts,
           Nested!Contexts, N!NUL, Nested!NUL, N!DEFAULT, Nested!DEFAULT, N!TypeOK, Nested!TypeOK
  <1> QED
    BY <1>1, <1>2, <1>3, <1>4

ScreenInv == IF driver = "nested" THEN Nested!DInv ELSE Quiet!DInv

LEMMA ScreenStep == ScreenInv /\ [DriversNext]_all => ScreenInv'
  <1> SUFFICES ASSUME ScreenInv, [DriversNext]_all PROVE ScreenInv'
    OBVIOUS
  <1>1. Quiet!DisplayAssumption /\ Nested!DisplayAssumption
    BY DriversAssumption, QuietSame, NestedSame
  <1>2. driver' = driver
    BY DEF DriversNext, all
  <1>3. CASE driver = "nested"
    <2>1. [N!Next]_display
      BY <1>3 DEF DriversNext, all
    <2>2. [Nested!Next]_Nested!vars
      BY <2>1, NestedSame DEF display, Nested!vars
    <2> QED
      BY <1>1, <1>2, <1>3, <2>2, Nested!DInvNext DEF ScreenInv
  <1>4. CASE driver # "nested"
    <2>1. [D!Next]_display
      BY <1>4 DEF DriversNext, all
    <2>2. [Quiet!Next]_Quiet!vars
      BY <2>1, QuietSame DEF display, Quiet!vars
    <2> QED
      BY <1>1, <1>2, <1>4, <2>2, Quiet!DInvNext DEF ScreenInv
  <1> QED
    BY <1>3, <1>4

LEMMA ScreenInvariant == DriversSpec => []ScreenInv
  <1>1. DriversInit => ScreenInv
    <2> SUFFICES ASSUME DriversInit PROVE ScreenInv
      OBVIOUS
    <2>1. Quiet!DisplayAssumption /\ Nested!DisplayAssumption
      BY DriversAssumption, QuietSame, NestedSame
    <2>2. CASE driver = "nested"
      <3>1. N!Init
        BY <2>2 DEF DriversInit
      <3> QED
        BY <2>1, <2>2, <3>1, NestedSame, Nested!DInvInit DEF ScreenInv
    <2>3. CASE driver # "nested"
      <3>1. D!Init
        BY <2>3 DEF DriversInit
      <3> QED
        BY <2>1, <2>3, <3>1, QuietSame, Quiet!DInvInit DEF ScreenInv
    <2> QED
      BY <2>2, <2>3
  <1> QED
    BY <1>1, ScreenStep, PTL DEF DriversSpec

\* CursorTrue, of a screen of any size and whatever is printed and typed: when
\* nobody prints the cursor is on the screen, and an echo that interrupts putcf
\* strays no further than the row behind it; when no echo does, nothing strays and
\* the hardware cursor is where the next character will go.
THEOREM CursorTrueSafe == DriversSpec => []CursorTrue
  <1>1. ScreenInv => CursorTrue
    BY QuietSame, NestedSame, Quiet!DInvCursorTrue, Nested!DInvCursorTrue DEF ScreenInv, CursorTrue
  <1> QED
    BY <1>1, ScreenInvariant, PTL

-----------------------------------------------------------------------------
(***************************************************************************)
(* The screen as a terminal.                                               *)
(***************************************************************************)

\* What Quiet shows and is given is what D shows and is given, before and after a
\* step.
LEMMA QuietRows ==
    /\ Quiet!RowsShown = IF D!AllIdle THEN D!Rows ELSE old
    /\ Quiet!RowsShown' = (IF D!AllIdle THEN D!Rows ELSE old)'
  BY Zenon
  DEF Quiet!RowsShown, D!AllIdle, Quiet!AllIdle, D!Rows, Quiet!Rows, D!Row, Quiet!Row, D!Max, Quiet!Max,
      D!Blank, Quiet!Blank, D!Idle, Quiet!Idle, D!Contexts, Quiet!Contexts, D!NUL, Quiet!NUL,
      D!DEFAULT, Quiet!DEFAULT

LEMMA QuietGiven == Quiet!Given = D!Given /\ Quiet!Given' = D!Given'
  BY Zenon
  DEF Quiet!Given, D!Given, Quiet!Argument, D!Argument, D!Idle, Quiet!Idle, D!NUL, Quiet!NUL,
      D!DEFAULT, Quiet!DEFAULT

\* The rows of the terminal and what it is given, from Quiet's.
Shown == IF driver = "nested" THEN <<<<>>>> ELSE IF D!AllIdle THEN D!Rows ELSE old
Taking == IF driver = "nested" THEN <<>> ELSE D!Given

LEMMA ShownQuiet ==
    ASSUME driver # "nested", driver' = driver
    PROVE  /\ Quiet!RowsShown = Shown /\ Quiet!RowsShown' = Shown'
           /\ Quiet!Given = Taking /\ Quiet!Given' = Taking'
  BY QuietRows, QuietGiven, Zenon DEF Shown, Taking

\* Quiet's steps of a terminal are T's.
LEMMA TerminalSteps ==
    ASSUME driver # "nested", driver' = driver, Quiet!Gives \/ Quiet!Shows
    PROVE  T!Next
  <1>1. /\ Quiet!RowsShown = Shown /\ Quiet!RowsShown' = Shown'
        /\ Quiet!Given = Taking /\ Quiet!Given' = Taking'
    BY ShownQuiet
  <1>2. CASE Quiet!Gives
    <2>1. PICK c \in Quiet!Givable : Taking' = <<c>>
      BY <1>1, <1>2, Zenon DEF Quiet!Gives
    <2>2. Taking = <<>> /\ Shown' = Shown
      BY <1>1, <1>2, Zenon DEF Quiet!Gives
    <2>3. c \in [code : Text \cup Printing \cup {D!NEWLINE}, attribute : Attributes \cup {D!DEFAULT}]
      BY Zenon DEF Quiet!Givable, Quiet!NEWLINE, D!NEWLINE, Quiet!DEFAULT, D!DEFAULT
    <2>4. T!Give(c)
      BY <2>1, <2>2, Zenon DEF T!Give, Taking, Shown
    <2> QED
      BY <2>3, <2>4, Zenon DEF T!Next
  <1>3. CASE Quiet!Shows
    <2>1. Taking # <<>> /\ Taking' = <<>> /\ Shown' = Quiet!WithCell(Shown, Taking[1])
      BY <1>1, <1>3, Zenon DEF Quiet!Shows
    <2>2. T!Show
      BY <2>1, Zenon
      DEF T!Show, T!With, T!Scrolled, T!Extended, Quiet!WithCell, Quiet!Scrolled, Quiet!ExtendedBy,
          Quiet!NEWLINE, D!NEWLINE, Taking, Shown
    <2> QED
      BY <2>2, Zenon DEF T!Next
  <1> QED
    BY <1>2, <1>3

TerminalInv == driver # "nested" => Quiet!RowsInv

LEMMA TerminalNext ==
    ASSUME ScreenInv, TerminalInv, [DriversNext]_all
    PROVE  TerminalInv' /\ (T!Next \/ (Shown' = Shown /\ Taking' = Taking))
  <1>1. Quiet!DisplayAssumption
    BY DriversAssumption, QuietSame
  <1>2. driver' = driver
    BY DEF DriversNext, all
  <1>3. CASE driver = "nested"
    BY <1>2, <1>3 DEF TerminalInv, Shown, Taking
  <1>4. CASE driver # "nested"
    <2>1. [D!Next]_display
      BY <1>4 DEF DriversNext, all
    <2>2. [Quiet!Next]_Quiet!vars
      BY <2>1, QuietSame DEF display, Quiet!vars
    <2>3. Quiet!DInv /\ Quiet!RowsInv
      BY <1>4 DEF ScreenInv, TerminalInv
    <2>4. Quiet!RowsInv' /\ (Quiet!Nothing \/ Quiet!Gives \/ Quiet!Shows)
      BY <1>1, <2>2, <2>3, Quiet!RowsStep
    <2>5. Quiet!Nothing => Shown' = Shown /\ Taking' = Taking
      BY <1>2, <1>4, ShownQuiet, Zenon DEF Quiet!Nothing
    <2> QED
      BY <1>2, <1>4, <2>4, <2>5, TerminalSteps DEF TerminalInv
  <1> QED
    BY <1>3, <1>4

\* Unless an echo interrupts putcf the screen is a terminal (ShowsRows): on a screen
\* of any size each call puts the character it is given, in the colour it is given,
\* behind all that was printed and typed before, and the last rows of it are shown.
THEOREM ShowsRowsSafe == DriversSpec => ShowsRows
  <1>1. DriversInit => TerminalInv /\ T!Init
    <2> SUFFICES ASSUME DriversInit PROVE TerminalInv /\ T!Init
      OBVIOUS
    <2>1. CASE driver = "nested"
      BY <2>1 DEF TerminalInv, T!Init
    <2>2. CASE driver # "nested"
      <3>1. Quiet!Init /\ Quiet!DisplayAssumption
        BY <2>2, DriversAssumption, QuietSame DEF DriversInit
      <3>2. Quiet!RowsInv /\ Quiet!RowsShown = <<<<>>>> /\ Quiet!Given = <<>>
        BY <3>1, Quiet!RowsInit
      <3> QED
        BY <2>2, <3>2, QuietRows, QuietGiven DEF TerminalInv, T!Init
    <2> QED
      BY <2>1, <2>2
  <1>2. ScreenInv /\ TerminalInv /\ [DriversNext]_all
          => TerminalInv' /\ [T!Next]_<<IF driver = "nested" THEN <<<<>>>> ELSE IF D!AllIdle THEN D!Rows ELSE old,
                                        IF driver = "nested" THEN <<>> ELSE D!Given>>
    BY TerminalNext DEF Shown, Taking
  <1> QED
    BY <1>1, <1>2, ScreenInvariant, PTL DEF DriversSpec, ShowsRows, T!Spec

-----------------------------------------------------------------------------
(***************************************************************************)
(* The serial line.                                                        *)
(***************************************************************************)
Chars       == [message : Nat, k : Nat]
SerialCalls == [pc : {"idle", "wait", "out", "low", "high", "bits"},
                message : 0 .. Messages, k : 0 .. Length]

SerialTypes ==
    /\ holding \in Seq(Chars) /\ Len(holding) <= 1
    /\ shift \in Seq(Chars) /\ Len(shift) <= 1
    /\ line \in Seq(Chars) /\ sent \in Seq(Chars) /\ latch \in BOOLEAN
    /\ dprintf \in [S!Contexts -> SerialCalls]
    /\ count \in 0 .. Messages /\ set \in -1 .. Len(sent)

\* One context logs or sets the line up at a time, and the divisor latch is
\* selected while main does the latter.
OneLogs ==
    /\ dprintf["main"] = S!Idle \/ dprintf["irq"] = S!Idle
    /\ \A x \in S!Contexts : dprintf[x].pc = "idle" => dprintf[x] = S!Idle
    /\ dprintf["irq"].pc \in {"idle", "wait", "out"}
    /\ latch = TRUE <=> dprintf["main"].pc \in {"low", "high", "bits"}
    /\ latch = TRUE => set = Len(sent)

Logging == {"wait", "out"}

\* No character is lost, and the next one is the one at its place in the log.
KeepsPlace ==
    /\ Len(line) + Len(shift) + Len(holding) = Len(sent)
    /\ \A x \in S!Contexts :
        /\ dprintf[x].pc \in Logging =>
            /\ count >= 1 /\ dprintf[x].message = count /\ dprintf[x].k >= 1
            /\ Len(sent) = Length * (count - 1) + (dprintf[x].k - 1)
        /\ dprintf[x].pc = "out" => holding = <<>>
    /\ (\A x \in S!Contexts : dprintf[x].pc \notin Logging) => Len(sent) = Length * count

\* c may be the character at place i of what arrives, of n messages of which s
\* characters were sent when the speed was set.
Arrives(c, i, n, s) ==
    \/ /\ 1 <= i /\ i <= Length * n
       /\ c = [message |-> ((i - 1) \div Length) + 1, k |-> ((i - 1) % Length) + 1]
    \/ c = S!Garbled /\ s - 1 <= i /\ i <= s

Arriving ==
    /\ \A i \in 1 .. Len(line) : Arrives(line[i], i, count, set)
    /\ Len(shift) = 1 => Arrives(shift[1], Len(line) + 1, count, set)
    /\ Len(holding) = 1 => Arrives(holding[1], Len(line) + Len(shift) + 1, count, set)

SerialInv == SerialTypes /\ OneLogs /\ KeepsPlace /\ Arriving

LEMMA SerialIdle ==
    ASSUME S!SerialAssumption
    PROVE  /\ S!Idle \in SerialCalls /\ S!Idle.pc = "idle"
           /\ "main" \in S!Contexts /\ "irq" \in S!Contexts
           /\ \A x \in S!Contexts : x = "main" \/ x = "irq"
           /\ Length \in Nat /\ Length > 0 /\ Messages \in Nat
  BY DEF S!Idle, SerialCalls, S!Contexts, S!SerialAssumption

\* What may be at a place may still be there when more messages have begun, and
\* when the speed has been set.
LEMMA ArrivesOn ==
    ASSUME Length \in Nat, NEW c, NEW i \in Int, i >= 1, NEW n \in Nat, NEW m \in Nat, n <= m,
           NEW s \in Int, NEW t \in Int, s = t \/ s = -1, Arrives(c, i, n, s)
    PROVE  Arrives(c, i, m, t)
  <1>1. Length * n <= Length * m
    <2>1. PICK e \in Nat : m = n + e
      <3>1. m - n \in Nat /\ m = n + (m - n)
        OBVIOUS
      <3> QED
        BY <3>1
    <2>2. Length * m = Length * n + Length * e
      BY <2>1
    <2>3. Length * e >= 0
      OBVIOUS
    <2> QED
      BY <2>2, <2>3
  <1>2. CASE c = S!Garbled /\ s - 1 <= i /\ i <= s
    BY <1>2 DEF Arrives
  <1>3. CASE /\ 1 <= i /\ i <= Length * n
             /\ c = [message |-> ((i - 1) \div Length) + 1, k |-> ((i - 1) % Length) + 1]
    <2>1. i <= Length * m
      BY <1>1, <1>3
    <2> QED
      BY <1>3, <2>1 DEF Arrives
  <1> QED
    BY <1>2, <1>3 DEF Arrives

\* The place of character e of message n.
LEMMA ArrivesNext ==
    ASSUME Length \in Nat, Length > 0, NEW n \in Nat, n >= 1, NEW e \in Nat, 1 <= e, e <= Length, NEW s
    PROVE  Arrives([message |-> n, k |-> e], Length * (n - 1) + (e - 1) + 1, n, s)
  <1> DEFINE p == Length * (n - 1)
             j == p + (e - 1)
             i == j + 1
  <1>1. n - 1 \in Int /\ e - 1 \in Int /\ 0 <= e - 1 /\ e - 1 < Length /\ Length \in Nat
    OBVIOUS
  <1>2. j \div Length = n - 1 /\ j % Length = e - 1
    BY <1>1, DivisionUnique
  <1>3. p \in Nat /\ Length * n = p + Length
    <2>1. n - 1 \in Nat
      OBVIOUS
    <2> QED
      BY <2>1
  <1> HIDE DEF p
  <1>4. i - 1 = j /\ 1 <= i /\ i <= Length * n /\ j \in Int
    BY <1>3
  <1> HIDE DEF i, j
  <1>5. ((i - 1) \div Length) + 1 = n /\ ((i - 1) % Length) + 1 = e
    BY <1>2, <1>4
  <1>6. Arrives([message |-> n, k |-> e], i, n, s)
    BY <1>4, <1>5 DEF Arrives
  <1> QED
    BY <1>6 DEF i, j, p

LEMMA SerialInit == S!SerialAssumption /\ S!Init => SerialInv
  <1> SUFFICES ASSUME S!SerialAssumption, S!Init PROVE SerialInv
    OBVIOUS
  <1>1. \A x \in S!Contexts : dprintf[x] = S!Idle /\ dprintf[x].pc = "idle"
    BY SerialIdle DEF S!Init
  <1>2. /\ holding = <<>> /\ shift = <<>> /\ line = <<>> /\ sent = <<>> /\ latch = FALSE /\ count = 0
        /\ set = -1 /\ dprintf \in [S!Contexts -> SerialCalls]
    BY SerialIdle DEF S!Init
  <1>3. Len(holding) = 0 /\ Len(shift) = 0 /\ Len(line) = 0 /\ Len(sent) = 0
    BY <1>2
  <1>4. SerialTypes
    <2>1. <<>> \in Seq(Chars)
      OBVIOUS
    <2>2. latch \in BOOLEAN
      BY <1>2
    <2>3. count \in 0 .. Messages /\ set \in -1 .. Len(sent)
      BY <1>2, <1>3, SerialIdle
    <2> QED
      BY <1>2, <1>3, <2>1, <2>2, <2>3 DEF SerialTypes
  <1>5. OneLogs
    BY <1>1, <1>2, SerialIdle DEF OneLogs
  <1>6. KeepsPlace
    <2>1. Length * count = 0
      BY <1>2, SerialIdle
    <2> QED
      BY <1>1, <1>2, <1>3, <2>1 DEF KeepsPlace, Logging
  <1>7. Arriving
    BY <1>3 DEF Arriving
  <1> QED
    BY <1>4, <1>5, <1>6, <1>7 DEF SerialInv

\* A context goes on; the other stays where it is.
LEMMA SerialCall ==
    ASSUME SerialTypes, NEW x \in S!Contexts, NEW new \in SerialCalls,
           dprintf' = [dprintf EXCEPT ![x] = new]
    PROVE  /\ dprintf' \in [S!Contexts -> SerialCalls] /\ dprintf'[x] = new
           /\ \A y \in S!Contexts : y # x => dprintf'[y] = dprintf[y]
  BY DEF SerialTypes

LEMMA OneLong ==
    ASSUME NEW X, NEW s \in Seq(X), Len(s) <= 1, s # <<>>
    PROVE  Len(s) = 1
  <1>1. Len(s) \in Nat /\ Len(s) # 0
    OBVIOUS
  <1> QED
    BY <1>1

LEMMA SerialLoad ==
    ASSUME S!SerialAssumption, SerialInv, S!Load
    PROVE  SerialInv'
  <1>1. /\ holding # <<>> /\ shift = <<>> /\ shift' = holding /\ holding' = <<>> /\ latch' = latch
        /\ line' = line /\ dprintf' = dprintf /\ count' = count /\ sent' = sent /\ set' = set
    BY DEF S!Load
  <1>2. SerialTypes /\ OneLogs /\ KeepsPlace /\ Arriving
    BY DEF SerialInv
  <1>3. /\ Len(shift) = 0 /\ Len(holding) = 1 /\ Len(shift') = 1 /\ Len(holding') = 0
        /\ shift' \in Seq(Chars) /\ holding' \in Seq(Chars) /\ shift'[1] = holding[1] /\ Len(line) \in Nat
    <2>1. Len(holding) = 1
      BY <1>1, <1>2, OneLong DEF SerialTypes
    <2> QED
      BY <1>1, <1>2, <2>1 DEF SerialTypes
  <1>4. SerialTypes'
    BY <1>1, <1>2, <1>3 DEF SerialTypes
  <1>5. OneLogs'
    BY <1>1, <1>2 DEF OneLogs
  <1>6. KeepsPlace'
    BY <1>1, <1>2, <1>3 DEF KeepsPlace
  <1>7. Arriving'
    <2>1. Arrives(holding[1], Len(line) + 1, count, set)
      BY <1>2, <1>3 DEF Arriving
    <2>2. ASSUME NEW i \in 1 .. Len(line) PROVE Arrives(line[i], i, count, set)
      BY <1>2 DEF Arriving
    <2> QED
      BY <1>1, <1>3, <2>1, <2>2 DEF Arriving
  <1> QED
    BY <1>4, <1>5, <1>6, <1>7 DEF SerialInv

LEMMA ConcatOne ==
    ASSUME NEW X, NEW s \in Seq(X), NEW u \in Seq(X), Len(u) = 1
    PROVE  /\ s \o u \in Seq(X) /\ Len(s \o u) = Len(s) + 1 /\ (s \o u)[Len(s) + 1] = u[1]
           /\ \A i \in 1 .. Len(s) : (s \o u)[i] = s[i]
  <1>1. /\ s \o u \in Seq(X) /\ Len(s \o u) = Len(s) + Len(u)
        /\ \A i \in 1 .. Len(s) + Len(u) : (s \o u)[i] = IF i <= Len(s) THEN s[i] ELSE u[i - Len(s)]
    BY ConcatProperties
  <1>2. Len(s) \in Nat
    OBVIOUS
  <1> QED
    BY <1>1, <1>2

LEMMA SerialShift ==
    ASSUME S!SerialAssumption, SerialInv, S!Shift
    PROVE  SerialInv'
  <1>1. /\ shift # <<>> /\ line' = line \o shift /\ shift' = <<>> /\ holding' = holding /\ latch' = latch
        /\ dprintf' = dprintf /\ count' = count /\ sent' = sent /\ set' = set
    BY DEF S!Shift
  <1>2. SerialTypes /\ OneLogs /\ KeepsPlace /\ Arriving
    BY DEF SerialInv
  <1> DEFINE n == Len(line)
  <1>3. /\ Len(shift) = 1 /\ Len(shift') = 0 /\ shift' \in Seq(Chars) /\ n \in Nat /\ Len(holding) \in Nat
        /\ line \in Seq(Chars) /\ shift \in Seq(Chars)
    <2>1. Len(shift) = 1
      BY <1>1, <1>2, OneLong DEF SerialTypes
    <2> QED
      BY <1>1, <1>2, <2>1 DEF SerialTypes
  <1>4. /\ line' \in Seq(Chars) /\ Len(line') = n + 1 /\ line'[n + 1] = shift[1]
        /\ \A i \in 1 .. n : line'[i] = line[i]
    BY <1>1, <1>3, ConcatOne
  <1>5. SerialTypes'
    BY <1>1, <1>2, <1>3, <1>4 DEF SerialTypes
  <1>6. OneLogs'
    BY <1>1, <1>2 DEF OneLogs
  <1>7. KeepsPlace'
    BY <1>1, <1>2, <1>3, <1>4 DEF KeepsPlace
  <1>8. Arriving'
    <2>1. ASSUME NEW i \in 1 .. n + 1 PROVE Arrives(line'[i], i, count', set')
      <3>1. CASE i = n + 1
        BY <1>1, <1>2, <1>3, <1>4, <3>1 DEF Arriving
      <3>2. CASE i \in 1 .. n
        BY <1>1, <1>2, <1>4, <3>2 DEF Arriving
      <3> QED
        BY <1>3, <3>1, <3>2
    <2>2. Len(holding') = 1 => Arrives(holding'[1], Len(line') + Len(shift') + 1, count', set')
      <3> SUFFICES ASSUME Len(holding) = 1
                   PROVE  Arrives(holding[1], Len(line') + Len(shift') + 1, count, set)
        BY <1>1
      <3>1. Arrives(holding[1], n + Len(shift) + 1, count, set)
        BY <1>2 DEF Arriving
      <3>2. Len(line') + Len(shift') + 1 = n + Len(shift) + 1
        BY <1>3, <1>4
      <3> QED
        BY <3>1, <3>2
    <2> QED
      BY <1>3, <1>4, <2>1, <2>2 DEF Arriving
  <1> QED
    BY <1>5, <1>6, <1>7, <1>8 DEF SerialInv

\* When a context goes on, what is in the UART and on the line stays.
LEMMA ArrivingStays ==
    ASSUME Length \in Nat, SerialTypes, Arriving, holding' = holding, shift' = shift, line' = line,
           count' \in Nat, count <= count', set' \in Int, set' = set \/ set = -1
    PROVE  Arriving'
  <1>1. count \in Nat /\ set \in Int /\ Len(line) \in Nat /\ Len(shift) \in Nat
    BY DEF SerialTypes
  <1>2. ASSUME NEW i \in 1 .. Len(line) PROVE Arrives(line[i], i, count', set')
    <2>1. Arrives(line[i], i, count, set)
      BY DEF Arriving
    <2> QED
      BY <1>1, <2>1, ArrivesOn
  <1>3. ASSUME Len(shift) = 1 PROVE Arrives(shift[1], Len(line) + 1, count', set')
    <2>1. Arrives(shift[1], Len(line) + 1, count, set)
      BY <1>3 DEF Arriving
    <2> QED
      BY <1>1, <2>1, ArrivesOn
  <1>4. ASSUME Len(holding) = 1 PROVE Arrives(holding[1], Len(line) + Len(shift) + 1, count', set')
    <2>1. Arrives(holding[1], Len(line) + Len(shift) + 1, count, set)
      BY <1>4 DEF Arriving
    <2> QED
      BY <1>1, <2>1, ArrivesOn
  <1> QED
    BY <1>2, <1>3, <1>4 DEF Arriving

\* A context that is about to go on is the only one.
LEMMA SerialAt ==
    ASSUME S!SerialAssumption, SerialInv, NEW x \in S!Contexts, NEW p, S!At(x, p),
           p # "idle" \/ (x = "irq" => dprintf["main"] = S!Idle)
    PROVE  /\ SerialTypes /\ OneLogs /\ KeepsPlace /\ Arriving /\ dprintf[x].pc = p
           /\ dprintf[x] \in SerialCalls
           /\ \A y \in S!Contexts : y # x => dprintf[y] = S!Idle /\ dprintf[y].pc = "idle"
  <1>1. SerialTypes /\ OneLogs /\ KeepsPlace /\ Arriving /\ dprintf[x].pc = p
    BY DEF SerialInv, S!At
  <1>2. x = "main" => dprintf["irq"] = S!Idle
    BY DEF S!At
  <1>3. x = "irq" => dprintf["main"] = S!Idle
    BY <1>1, SerialIdle DEF OneLogs
  <1>4. dprintf[x] \in SerialCalls
    BY <1>1 DEF SerialTypes
  <1> QED
    BY <1>1, <1>2, <1>3, <1>4, SerialIdle

LEMMA SerialBegin ==
    ASSUME S!SerialAssumption, SerialInv, NEW x \in S!Contexts, S!dprintf(x)
    PROVE  SerialInv'
  <1> DEFINE new == [pc |-> "wait", message |-> count + 1, k |-> 1]
  <1>1. /\ S!At(x, "idle") /\ count < Messages /\ count' = count + 1
        /\ holding' = holding /\ shift' = shift /\ latch' = latch /\ line' = line /\ sent' = sent
        /\ set' = set /\ (x = "irq" => dprintf["main"] = S!Idle)
    BY DEF S!dprintf
  <1>2. /\ SerialTypes /\ OneLogs /\ KeepsPlace /\ Arriving /\ dprintf[x].pc = "idle"
        /\ \A y \in S!Contexts : y # x => dprintf[y] = S!Idle /\ dprintf[y].pc = "idle"
    BY <1>1, SerialAt
  <1>3. count \in Nat /\ count + 1 \in 0 .. Messages /\ set \in Int
    BY <1>1, <1>2, SerialIdle DEF SerialTypes
  <1>4. new \in SerialCalls /\ new.pc = "wait" /\ new.message = count + 1 /\ new.k = 1
    BY <1>3, SerialIdle DEF SerialCalls
  <1>5. dprintf' = [dprintf EXCEPT ![x] = new]
    BY DEF S!dprintf
  <1> HIDE DEF new
  <1>6. /\ dprintf' \in [S!Contexts -> SerialCalls] /\ dprintf'[x] = new
        /\ \A y \in S!Contexts : y # x => dprintf'[y] = S!Idle /\ dprintf'[y].pc = "idle"
    BY <1>2, <1>4, <1>5, SerialCall
  <1>7. dprintf'[x].pc = "wait" /\ dprintf'[x].message = count + 1 /\ dprintf'[x].k = 1
    BY <1>4, <1>6
  <1>8. SerialTypes'
    BY <1>1, <1>2, <1>3, <1>6 DEF SerialTypes
  <1>9. OneLogs'
    <2>1. dprintf["main"].pc = "idle"
      BY <1>2, SerialIdle
    <2>2. latch = FALSE /\ latch' = FALSE
      BY <1>1, <1>2, <2>1 DEF OneLogs, SerialTypes
    <2> QED
      BY <1>6, <1>7, <2>2, SerialIdle DEF OneLogs
  <1>10. KeepsPlace'
    <2>1. Len(sent) = Length * count
      <3>1. \A y \in S!Contexts : dprintf[y].pc \notin Logging
        BY <1>2 DEF Logging
      <3> QED
        BY <1>2, <3>1 DEF KeepsPlace
    <2>2. Len(sent') = Length * (count' - 1) + (dprintf'[x].k - 1)
      <3>1. count' - 1 = count /\ dprintf'[x].k - 1 = 0
        BY <1>1, <1>3, <1>7
      <3>2. Length * count \in Int
        BY <1>3, SerialIdle
      <3> QED
        BY <1>1, <2>1, <3>1, <3>2
    <2>3. "wait" \in Logging /\ "idle" \notin Logging
      BY DEF Logging
    <2>4. Len(line') + Len(shift') + Len(holding') = Len(sent')
      BY <1>1, <1>2 DEF KeepsPlace
    <2>5. count' >= 1 /\ dprintf'[x].message = count' /\ dprintf'[x].k >= 1
      BY <1>1, <1>3, <1>7
    <2> QED
      BY <1>6, <1>7, <2>2, <2>3, <2>4, <2>5 DEF KeepsPlace
  <1>11. Arriving'
    BY <1>1, <1>2, <1>3, SerialIdle, ArrivingStays
  <1> QED
    BY <1>8, <1>9, <1>10, <1>11 DEF SerialInv

LEMMA SerialWait ==
    ASSUME S!SerialAssumption, SerialInv, NEW x \in S!Contexts, S!Wait(x)
    PROVE  SerialInv'
  <1> DEFINE new == [dprintf[x] EXCEPT !.pc = "out"]
  <1>1. /\ S!At(x, "wait") /\ holding = <<>> /\ count' = count
        /\ holding' = holding /\ shift' = shift /\ latch' = latch /\ line' = line /\ sent' = sent
        /\ set' = set /\ dprintf' = [dprintf EXCEPT ![x].pc = "out"]
    BY DEF S!Wait, S!serial_ready
  <1>2. /\ SerialTypes /\ OneLogs /\ KeepsPlace /\ Arriving /\ dprintf[x].pc = "wait"
        /\ dprintf[x] \in SerialCalls
        /\ \A y \in S!Contexts : y # x => dprintf[y] = S!Idle /\ dprintf[y].pc = "idle"
    BY <1>1, SerialAt
  <1>3. new \in SerialCalls /\ new.pc = "out" /\ new.message = dprintf[x].message /\ new.k = dprintf[x].k
    BY <1>2 DEF SerialCalls
  <1>4. dprintf' = [dprintf EXCEPT ![x] = new]
    BY <1>1, <1>2 DEF SerialTypes
  <1> HIDE DEF new
  <1>5. /\ dprintf' \in [S!Contexts -> SerialCalls] /\ dprintf'[x] = new
        /\ \A y \in S!Contexts : y # x => dprintf'[y] = S!Idle /\ dprintf'[y].pc = "idle"
    BY <1>2, <1>3, <1>4, SerialCall
  <1>6. dprintf'[x].pc = "out" /\ dprintf'[x].message = dprintf[x].message /\ dprintf'[x].k = dprintf[x].k
    BY <1>3, <1>5
  <1>7. SerialTypes'
    BY <1>1, <1>2, <1>5 DEF SerialTypes
  <1>8. OneLogs'
    <2>1. dprintf["main"].pc \notin {"low", "high", "bits"} /\ dprintf'["main"].pc \notin {"low", "high", "bits"}
      BY <1>2, <1>5, <1>6, SerialIdle
    <2>2. latch = FALSE /\ latch' = FALSE
      BY <1>1, <1>2, <2>1 DEF OneLogs, SerialTypes
    <2> QED
      BY <1>5, <1>6, <2>1, <2>2, SerialIdle DEF OneLogs
  <1>9. KeepsPlace'
    BY <1>1, <1>2, <1>5, <1>6 DEF KeepsPlace, Logging
  <1>10. Arriving'
    BY <1>1, <1>2, SerialIdle, ArrivingStays DEF SerialTypes
  <1> QED
    BY <1>7, <1>8, <1>9, <1>10 DEF SerialInv

LEMMA SerialPut ==
    ASSUME S!SerialAssumption, SerialInv, NEW x \in S!Contexts, S!serial_putc(x)
    PROVE  SerialInv'
  <1> DEFINE e   == dprintf[x].k
             c   == [message |-> count, k |-> e]
             new == IF e = Length THEN S!Idle ELSE [pc |-> "wait", message |-> count, k |-> e + 1]
  <1>1. S!At(x, "out")
    BY DEF S!serial_putc
  <1>2. /\ SerialTypes /\ OneLogs /\ KeepsPlace /\ Arriving /\ dprintf[x].pc = "out"
        /\ dprintf[x] \in SerialCalls
        /\ \A y \in S!Contexts : y # x => dprintf[y] = S!Idle /\ dprintf[y].pc = "idle"
    BY <1>1, SerialAt
  <1>3. /\ count >= 1 /\ dprintf[x].message = count /\ e \in 1 .. Length /\ count \in 0 .. Messages
        /\ Len(sent) = Length * (count - 1) + (e - 1) /\ holding = <<>>
    <2>1. "out" \in Logging
      BY DEF Logging
    <2>2. /\ count >= 1 /\ dprintf[x].message = count /\ e >= 1
          /\ Len(sent) = Length * (count - 1) + (e - 1) /\ holding = <<>>
      BY <1>2, <2>1 DEF KeepsPlace
    <2>3. e \in 0 .. Length /\ count \in 0 .. Messages
      BY <1>2 DEF SerialCalls, SerialTypes
    <2>4. e \in 1 .. Length
      BY <2>2, <2>3, SerialIdle
    <2> QED
      BY <2>2, <2>3, <2>4
  <1>4. latch = FALSE
    <2>1. dprintf["main"].pc \notin {"low", "high", "bits"}
      BY <1>2, SerialIdle
    <2> QED
      BY <1>2, <2>1 DEF OneLogs, SerialTypes
  <1>5. /\ holding' = <<c>> /\ sent' = Append(sent, c)
        /\ shift' = shift /\ latch' = latch /\ line' = line /\ count' = count /\ set' = set
    BY <1>3, <1>4 DEF S!serial_putc, S!Out
  <1>6. dprintf' = [dprintf EXCEPT ![x] = new]
    BY <1>3 DEF S!serial_putc, S!Ends
  <1>7. c \in Chars
    BY <1>3, SerialIdle DEF Chars
  <1>8. new \in SerialCalls
    <2>1. e # Length => e + 1 \in 0 .. Length
      BY <1>3, SerialIdle
    <2> HIDE DEF e
    <2> QED
      BY <1>3, <2>1, SerialIdle DEF SerialCalls
  <1>9. /\ e = Length => new = S!Idle /\ new.pc = "idle"
        /\ e # Length => new.pc = "wait" /\ new.message = count /\ new.k = e + 1
    BY SerialIdle
  <1> HIDE DEF c, new
  <1>10. /\ holding' \in Seq(Chars) /\ Len(holding') = 1 /\ holding'[1] = c
         /\ sent' \in Seq(Chars) /\ Len(sent') = Len(sent) + 1
    <2>1. sent \in Seq(Chars)
      BY <1>2 DEF SerialTypes
    <2>2. sent' \in Seq(Chars) /\ Len(sent') = Len(sent) + 1
      BY <1>5, <1>7, <2>1
    <2> QED
      BY <1>5, <1>7, <2>2
  <1>11. /\ dprintf' \in [S!Contexts -> SerialCalls] /\ dprintf'[x] = new
         /\ \A y \in S!Contexts : y # x => dprintf'[y] = S!Idle /\ dprintf'[y].pc = "idle"
    BY <1>2, <1>6, <1>8, SerialCall
  <1>12. /\ e = Length => dprintf'[x] = S!Idle /\ dprintf'[x].pc = "idle"
         /\ e # Length => dprintf'[x].pc = "wait" /\ dprintf'[x].message = count /\ dprintf'[x].k = e + 1
    BY <1>9, <1>11
  <1> HIDE DEF e
  <1>13. SerialTypes'
    <2>1. set' \in -1 .. Len(sent')
      BY <1>2, <1>5, <1>10 DEF SerialTypes
    <2> QED
      BY <1>2, <1>5, <1>10, <1>11, <2>1 DEF SerialTypes
  <1>14. OneLogs'
    <2>1. latch' = FALSE
      BY <1>4, <1>5
    <2> QED
      BY <1>11, <1>12, <2>1, SerialIdle DEF OneLogs
  <1> DEFINE p == Length * (count - 1)
  <1>15. p \in Int /\ Length * count = p + Length /\ Len(sent) = p + (e - 1) /\ Len(sent) \in Nat
    BY <1>3, <1>2, SerialIdle DEF SerialTypes
  <1>16. Len(line') + Len(shift') + Len(holding') = Len(sent') /\ Len(line) + Len(shift) = Len(sent)
    <2>1. Len(line) + Len(shift) + Len(holding) = Len(sent) /\ Len(holding) = 0
      BY <1>2, <1>3 DEF KeepsPlace
    <2>2. Len(line) \in Nat /\ Len(shift) \in Nat
      BY <1>2 DEF SerialTypes
    <2> QED
      BY <1>5, <1>10, <2>1, <2>2
  <1>17. KeepsPlace'
    <2>1. "idle" \notin Logging /\ "wait" \in Logging /\ "wait" # "out" /\ "idle" # "out"
      BY DEF Logging
    <2>2. CASE e = Length
      <3>1. \A y \in S!Contexts : dprintf'[y].pc = "idle"
        BY <1>11, <1>12, <2>2
      <3>2. Len(sent') = Length * count'
        <4> HIDE DEF p
        <4> QED
          BY <1>5, <1>10, <1>15, <2>2, SerialIdle
      <3> QED
        BY <1>16, <2>1, <3>1, <3>2 DEF KeepsPlace
    <2>3. CASE e # Length
      <3>1. /\ dprintf'[x].pc = "wait" /\ dprintf'[x].message = count' /\ dprintf'[x].k = e + 1
            /\ count' >= 1 /\ dprintf'[x].k >= 1
        BY <1>3, <1>5, <1>12, <2>3
      <3>2. Len(sent') = Length * (count' - 1) + (dprintf'[x].k - 1)
        <4>1. Length * (count' - 1) = p
          BY <1>5
        <4> HIDE DEF p
        <4> QED
          BY <1>3, <1>10, <1>15, <3>1, <4>1
      <3> QED
        BY <1>11, <1>16, <2>1, <3>1, <3>2 DEF KeepsPlace
    <2> QED
      BY <2>2, <2>3
  <1>18. Arriving'
    <2>1. Arrives(c, p + (e - 1) + 1, count, set)
      BY <1>3, SerialIdle, ArrivesNext DEF c
    <2>2. Len(line) + Len(shift) + 1 = p + (e - 1) + 1
      <3> HIDE DEF p
      <3> QED
        BY <1>15, <1>16
    <2>3. Arrives(holding'[1], Len(line') + Len(shift') + 1, count', set')
      BY <1>5, <1>10, <2>1, <2>2
    <2>4. ASSUME NEW i \in 1 .. Len(line) PROVE Arrives(line[i], i, count, set)
      BY <1>2 DEF Arriving
    <2>5. Len(shift) = 1 => Arrives(shift[1], Len(line) + 1, count, set)
      BY <1>2 DEF Arriving
    <2> QED
      BY <1>5, <2>3, <2>4, <2>5 DEF Arriving
  <1> QED
    BY <1>13, <1>14, <1>17, <1>18 DEF SerialInv

\* main sets the line up: nobody logs until it has.
LEMMA SerialSetUp ==
    ASSUME S!SerialAssumption, SerialInv, NEW p \in {"idle", "low", "high", "bits"}, S!At("main", p),
           NEW new \in SerialCalls, new.pc \in {"low", "high", "bits"} \/ new = S!Idle,
           dprintf' = [dprintf EXCEPT !["main"] = new],
           latch' \in BOOLEAN, latch' = TRUE <=> new.pc \in {"low", "high", "bits"},
           holding' = holding, line' = line, count' = count, sent' = sent,
           shift' \in Seq(Chars), Len(shift') = Len(shift), set' \in -1 .. Len(sent),
           new # S!Idle => set' = Len(sent), Arriving'
    PROVE  SerialInv'
  <1>1. /\ SerialTypes /\ OneLogs /\ KeepsPlace /\ dprintf["main"].pc = p
        /\ dprintf["irq"] = S!Idle /\ dprintf["irq"].pc = "idle"
    BY SerialAt, SerialIdle
  <1>2. dprintf' \in [S!Contexts -> SerialCalls] /\ dprintf'["main"] = new /\ dprintf'["irq"] = S!Idle
    BY <1>1, SerialCall, SerialIdle
  <1>3. SerialTypes'
    BY <1>1, <1>2 DEF SerialTypes
  <1>4. new = S!Idle => new.pc = "idle"
    BY SerialIdle
  <1>5. OneLogs'
    BY <1>2, <1>4, SerialIdle DEF OneLogs
  <1>6. KeepsPlace'
    <2>1. \A x \in S!Contexts : dprintf[x].pc \notin Logging /\ dprintf[x].pc # "out"
      BY <1>1, SerialIdle DEF Logging
    <2>2. \A x \in S!Contexts : dprintf'[x].pc \notin Logging /\ dprintf'[x].pc # "out"
      BY <1>2, <1>4, SerialIdle DEF Logging
    <2>3. Len(sent) = Length * count /\ Len(line) + Len(shift) + Len(holding) = Len(sent)
      BY <1>1, <2>1 DEF KeepsPlace
    <2> QED
      BY <2>2, <2>3 DEF KeepsPlace
  <1> QED
    BY <1>3, <1>5, <1>6 DEF SerialInv

LEMMA SerialSelect ==
    ASSUME S!SerialAssumption, SerialInv, S!SelectLatch
    PROVE  SerialInv'
  <1> DEFINE new == [dprintf["main"] EXCEPT !.pc = "low"]
  <1>1. /\ S!At("main", "idle") /\ set = -1 /\ latch' = TRUE /\ set' = Len(sent)
        /\ dprintf' = [dprintf EXCEPT !["main"].pc = "low"]
        /\ holding' = holding /\ shift' = shift /\ line' = line /\ count' = count /\ sent' = sent
    BY DEF S!SelectLatch
  <1>2. SerialTypes /\ Arriving /\ dprintf["main"] \in SerialCalls
    BY SerialIdle DEF SerialInv, SerialTypes
  <1>3. new \in SerialCalls /\ new.pc = "low" /\ new # S!Idle
    BY <1>2, SerialIdle DEF SerialCalls
  <1>4. dprintf' = [dprintf EXCEPT !["main"] = new]
    BY <1>1, <1>2 DEF SerialTypes
  <1>5. /\ set' \in -1 .. Len(sent) /\ set' \in Int /\ shift' \in Seq(Chars) /\ Len(shift') = Len(shift)
        /\ count' \in Nat /\ count <= count'
    BY <1>1, <1>2 DEF SerialTypes
  <1>6. Arriving'
    BY <1>1, <1>2, <1>5, SerialIdle, ArrivingStays
  <1>7. latch' \in BOOLEAN
    BY <1>1
  <1> HIDE DEF new
  <1> QED
    BY <1>1, <1>3, <1>4, <1>5, <1>6, <1>7, SerialSetUp

LEMMA SerialDivisor ==
    ASSUME S!SerialAssumption, SerialInv,
           NEW p \in {"low", "high"}, NEW next \in {"high", "bits"}, S!WriteDivisor(p, next)
    PROVE  SerialInv'
  <1> DEFINE new == [dprintf["main"] EXCEPT !.pc = next]
  <1>1. /\ S!At("main", p) /\ latch' = latch /\ set' = set
        /\ dprintf' = [dprintf EXCEPT !["main"].pc = next]
        /\ holding' = holding /\ line' = line /\ count' = count /\ sent' = sent
        /\ shift' = IF shift = <<>> THEN <<>> ELSE <<S!Garbled>>
    BY DEF S!WriteDivisor
  <1>2. /\ SerialTypes /\ OneLogs /\ KeepsPlace /\ Arriving /\ dprintf["main"] \in SerialCalls
        /\ dprintf["main"].pc = p
    BY <1>1, SerialIdle DEF SerialInv, SerialTypes, S!At
  <1>3. new \in SerialCalls /\ new.pc = next /\ new # S!Idle
    BY <1>2, SerialIdle DEF SerialCalls
  <1>4. dprintf' = [dprintf EXCEPT !["main"] = new]
    BY <1>1, <1>2 DEF SerialTypes
  <1>5. latch = TRUE /\ set = Len(sent)
    BY <1>2 DEF OneLogs
  <1>6. shift' \in Seq(Chars) /\ Len(shift') = Len(shift) /\ (Len(shift) = 1 => shift'[1] = S!Garbled)
    <2>1. S!Garbled \in Chars
      BY DEF S!Garbled, Chars
    <2>2. CASE shift = <<>>
      BY <1>1, <2>2
    <2>3. CASE shift # <<>>
      <3>1. Len(shift) = 1
        BY <1>2, <2>3, OneLong DEF SerialTypes
      <3>2. shift' = <<S!Garbled>>
        BY <1>1, <2>3
      <3> QED
        BY <2>1, <3>1, <3>2
    <2> QED
      BY <2>2, <2>3
  <1>7. Arriving'
    <2>1. Len(shift') = 1 => Arrives(shift'[1], Len(line') + 1, count', set')
      <3> SUFFICES ASSUME Len(shift) = 1 PROVE Arrives(S!Garbled, Len(line) + 1, count, set)
        BY <1>1, <1>6
      <3>1. Len(line) + 1 + Len(holding) = set /\ Len(holding) <= 1 /\ Len(holding) \in Nat /\ Len(line) \in Nat
        BY <1>2, <1>5 DEF KeepsPlace, SerialTypes
      <3>2. set - 1 <= Len(line) + 1 /\ Len(line) + 1 <= set
        <4>1. Len(holding) \in Nat /\ Len(holding) <= 1
          BY <3>1
        <4> QED
          BY <3>1, <4>1
      <3> QED
        BY <3>2 DEF Arrives
    <2>2. ASSUME NEW i \in 1 .. Len(line) PROVE Arrives(line[i], i, count, set)
      BY <1>2 DEF Arriving
    <2>3. Len(holding) = 1 => Arrives(holding[1], Len(line) + Len(shift) + 1, count, set)
      BY <1>2 DEF Arriving
    <2> QED
      BY <1>1, <1>6, <2>1, <2>2, <2>3 DEF Arriving
  <1>8. latch' \in BOOLEAN /\ latch' = TRUE
    BY <1>1, <1>5
  <1>9. set' \in -1 .. Len(sent) /\ set' = Len(sent)
    BY <1>1, <1>2, <1>5 DEF SerialTypes
  <1> HIDE DEF new
  <1> QED
    BY <1>1, <1>3, <1>4, <1>6, <1>7, <1>8, <1>9, SerialSetUp

LEMMA SerialBits ==
    ASSUME S!SerialAssumption, SerialInv, S!SetDataBits
    PROVE  SerialInv'
  <1>1. /\ S!At("main", "bits") /\ latch' = FALSE /\ set' = set /\ dprintf' = [dprintf EXCEPT !["main"] = S!Idle]
        /\ holding' = holding /\ shift' = shift /\ line' = line /\ count' = count /\ sent' = sent
    BY DEF S!SetDataBits, S!DeselectLatch
  <1>2. SerialTypes /\ Arriving
    BY DEF SerialInv
  <1>3. /\ set' \in -1 .. Len(sent) /\ set' \in Int /\ shift' \in Seq(Chars) /\ count' \in Nat
        /\ count <= count' /\ Len(shift') = Len(shift)
    BY <1>1, <1>2 DEF SerialTypes
  <1>4. Arriving'
    BY <1>1, <1>2, <1>3, SerialIdle, ArrivingStays
  <1>5. latch' \in BOOLEAN
    BY <1>1
  <1> QED
    BY <1>1, <1>3, <1>4, <1>5, SerialIdle, SerialSetUp

LEMMA SerialNext == S!SerialAssumption /\ SerialInv /\ [S!Next]_S!vars => SerialInv'
  <1> SUFFICES ASSUME S!SerialAssumption, SerialInv, [S!Next]_S!vars PROVE SerialInv'
    OBVIOUS
  <1>1. CASE UNCHANGED S!vars
    BY <1>1 DEF S!vars, SerialInv, SerialTypes, OneLogs, KeepsPlace, Arriving
  <1> QED
    BY <1>1, SerialLoad, SerialShift, SerialBegin, SerialWait, SerialPut, SerialSelect, SerialDivisor,
       SerialBits DEF S!Next, S!serial_init

LEMMA SerialAlone == [DriversNext]_all => [S!Next]_S!vars
  BY DEF DriversNext, all, serial, S!vars

\* What arrives over the line is the log, for messages of any length and any
\* number of them, wherever the UART is when dprintf and serial_init go on.
THEOREM SerialInvariant == DriversSpec => []SerialInv
  <1>1. DriversInit => SerialInv
    BY SerialInit, DriversAssumption DEF DriversInit
  <1>2. SerialInv /\ [DriversNext]_all => SerialInv'
    BY SerialNext, SerialAlone, DriversAssumption
  <1> QED
    BY <1>1, <1>2, PTL DEF DriversSpec

LEMMA SerialInOrder == ASSUME S!SerialAssumption, SerialInv PROVE S!InOrder
  <1> DEFINE uart == shift \o holding
             arrived == line \o uart
             n == Len(line)
             m == Len(shift)
             h == Len(holding)
  <1>1. SerialTypes /\ Arriving
    BY DEF SerialInv
  <1>2. /\ line \in Seq(Chars) /\ shift \in Seq(Chars) /\ holding \in Seq(Chars)
        /\ n \in Nat /\ count \in Nat /\ m \in Nat /\ m <= 1 /\ h \in Nat /\ h <= 1
    BY <1>1 DEF SerialTypes
  <1>3. /\ uart \in Seq(Chars) /\ Len(uart) = m + h
        /\ \A j \in 1 .. m + h : uart[j] = IF j <= m THEN shift[j] ELSE holding[j - m]
    BY <1>2, ConcatProperties
  <1>4. /\ arrived \in Seq(Chars) /\ Len(arrived) = n + Len(uart)
        /\ \A i \in 1 .. n + Len(uart) : arrived[i] = IF i <= n THEN line[i] ELSE uart[i - n]
    <2> HIDE DEF uart
    <2> QED
      BY <1>2, <1>3, ConcatProperties
  <1>5. ASSUME NEW i \in DOMAIN arrived PROVE Arrives(arrived[i], i, count, set)
    <2>1. i \in 1 .. n + m + h
      <3> HIDE DEF arrived, uart
      <3> QED
        BY <1>2, <1>3, <1>4, <1>5
    <2>0. i \in Int
      BY <1>2, <2>1
    <2> HIDE DEF arrived, uart, n, m, h
    <2>2. CASE i <= n
      <3>1. i \in 1 .. n + Len(uart) /\ i \in 1 .. n
        BY <1>2, <1>3, <2>0, <2>1, <2>2
      <3>2. arrived[i] = line[i]
        BY <1>4, <2>2, <3>1
      <3> QED
        BY <1>1, <3>1, <3>2 DEF Arriving, n
    <2>3. CASE i > n /\ i - n <= m
      <3>1. i = n + 1 /\ m = 1 /\ i - n = 1
        BY <1>2, <2>0, <2>1, <2>3
      <3>2. arrived[i] = shift[1]
        BY <1>2, <1>3, <1>4, <2>1, <3>1
      <3> QED
        BY <1>1, <3>1, <3>2 DEF Arriving, n, m, h
    <2>4. CASE i > n /\ i - n > m
      <3>1. i = n + m + 1 /\ h = 1 /\ i - n = m + 1 /\ i - n - m = 1
        BY <1>2, <2>0, <2>1, <2>4
      <3>2. arrived[i] = holding[1]
        <4>1. arrived[i] = uart[m + 1]
          BY <1>2, <1>3, <1>4, <2>0, <2>1, <2>4, <3>1
        <4>2. m + 1 \in 1 .. m + h /\ ~(m + 1 <= m) /\ m + 1 - m = 1
          BY <1>2, <3>1
        <4> DEFINE j == m + 1
        <4>3. uart[j] = holding[j - m]
          <5> HIDE DEF j
          <5>1. j \in 1 .. m + h /\ ~(j <= m)
            BY <4>2 DEF j
          <5>2. uart[j] = IF j <= m THEN shift[j] ELSE holding[j - m]
            BY <1>3, <5>1
          <5> QED
            BY <5>1, <5>2
        <4>4. j - m = 1
          BY <1>2
        <4>5. arrived[i] = uart[j]
          BY <4>1
        <4> HIDE DEF j
        <4> QED
          BY <4>3, <4>4, <4>5
      <3> QED
        BY <1>1, <3>1, <3>2 DEF Arriving, n, m, h
    <2> QED
      BY <1>2, <2>1, <2>2, <2>3, <2>4
  <1>6. ASSUME NEW i \in DOMAIN arrived
        PROVE  \/ i \in DOMAIN S!Log /\ arrived[i] = S!Log[i]
               \/ arrived[i] = S!Garbled /\ i \in (set - 1) .. set
    <2>1. Arrives(arrived[i], i, count, set) /\ i \in Int
      BY <1>4, <1>5, <1>6
    <2> HIDE DEF arrived
    <2>2. count * Length = Length * count /\ set \in Int
      BY <1>1, <1>2, SerialIdle DEF SerialTypes
    <2>3. CASE arrived[i] = S!Garbled /\ set - 1 <= i /\ i <= set
      BY <2>1, <2>2, <2>3
    <2>4. CASE /\ 1 <= i /\ i <= Length * count
               /\ arrived[i] = [message |-> ((i - 1) \div Length) + 1, k |-> ((i - 1) % Length) + 1]
      <3>1. i \in 1 .. count * Length
        BY <2>1, <2>2, <2>4, SerialIdle, <1>2
      <3> QED
        BY <2>4, <3>1 DEF S!Log
    <2> QED
      BY <2>1, <2>3, <2>4 DEF Arrives
  <1> QED
    BY <1>6 DEF S!InOrder, S!InUart

-----------------------------------------------------------------------------
(***************************************************************************)
(* The clock.                                                              *)
(***************************************************************************)
Names == {"second", "minute", "hour", "day", "month", "year"}
Registers == Names \cup {"A", "B"}

ClockCalls ==
    [k : 0 .. 8, half : {"select", "read"}, ahead : BOOLEAN, late : BOOLEAN, raw : Seq(0 .. 255),
     time : {<<>>} \cup [Names -> 0 .. 99]]

ClockTypes ==
    /\ mode \in [binary : BOOLEAN, hours24 : BOOLEAN] /\ mode \in Modes
    /\ now \in 1 .. Len(Instants)
    /\ uip \in BOOLEAN /\ (uip = TRUE => now < Len(Instants))
    /\ cmosIndex \in Registers
    /\ cmos \in [C!Contexts -> ClockCalls]
    /\ since \in [C!Contexts -> Nat] /\ \A x \in C!Contexts : since[x] <= now

\* The time that x returned, as TimeTrue has it.
TimeOf(x) ==
    /\ \A g \in DOMAIN cmos[x].time : \E n \in since[x] .. now : C!Shows(cmos[x].time, g, n)
    /\ cmos[x].late = FALSE => \E n \in since[x] .. now :
                                    \A g \in DOMAIN cmos[x].time : C!Shows(cmos[x].time, g, n)

\* A call has read the registers up to its place, each as it was at some time since
\* the call began, and all as they are now if the clock has not changed since the
\* wait ended.
Reads(x) ==
    /\ cmos[x].k > 0 => cmos[x].time = <<>> /\ since[x] >= 1
    /\ cmos[x].k > 0 /\ cmos[x].half = "read" => cmosIndex = C!Order[cmos[x].k]
    /\ cmos[x].k <= 1 => cmos[x].raw = <<>>
    /\ cmos[x].k = 1 => cmos[x].late = FALSE
    /\ cmos[x].k > 1 => /\ cmos[x].ahead = TRUE /\ Len(cmos[x].raw) = cmos[x].k - 2
                        /\ \A j \in 1 .. cmos[x].k - 2 : \E n \in since[x] .. now :
                                cmos[x].raw[j] = C!Register(C!Fields[j], n)
    /\ cmos[x].k > 1 /\ cmos[x].late = FALSE =>
            \A j \in 1 .. cmos[x].k - 2 : cmos[x].raw[j] = C!Register(C!Fields[j], now)
    /\ cmos[x].time # <<>> => TimeOf(x)

ClockInv ==
    /\ ClockTypes /\ (\A x \in C!Contexts : Reads(x))
    /\ cmos["main"].k = 0 \/ cmos["irq"].k = 0

LEMMA FieldFacts ==
    /\ C!Fields[1] = "second" /\ C!Fields[2] = "minute" /\ C!Fields[3] = "hour"
    /\ C!Fields[4] = "day" /\ C!Fields[5] = "month" /\ C!Fields[6] = "year"
    /\ DOMAIN C!Fields = 1 .. 6 /\ C!Fields \in Seq(Registers) /\ Len(C!Fields) = 6
  <1>1. /\ C!Fields[1] = "second" /\ C!Fields[2] = "minute" /\ C!Fields[3] = "hour"
        /\ C!Fields[4] = "day" /\ C!Fields[5] = "month" /\ C!Fields[6] = "year"
    BY DEF C!Fields
  <1>2. DOMAIN C!Fields = 1 .. 6
    BY DEF C!Fields
  <1>3. Len(C!Fields) = 6
    BY DEF C!Fields
  <1>4. C!Fields \in Seq(Registers)
    <2>1. /\ "second" \in Registers /\ "minute" \in Registers /\ "hour" \in Registers
          /\ "day" \in Registers /\ "month" \in Registers /\ "year" \in Registers
      BY DEF Registers, Names
    <2> HIDE DEF Registers
    <2> QED
      BY <2>1 DEF C!Fields
  <1> QED
    BY <1>1, <1>2, <1>3, <1>4

LEMMA OrderFacts ==
    /\ C!Order[1] = "A" /\ C!Order[8] = "B"
    /\ \A j \in 1 .. 6 : C!Order[j + 1] = C!Fields[j] /\ C!Fields[j] \in Names
    /\ \A j \in 1 .. 8 : C!Order[j] \in Registers
    /\ Len(C!Order) = 8 /\ DOMAIN C!Order = 1 .. 8
  <1> DEFINE a == <<"A">>
             z == <<"B">>
             u == a \o C!Fields
             o == u \o z
  <1>1. /\ a \in Seq(Registers) /\ z \in Seq(Registers) /\ Len(a) = 1 /\ Len(z) = 1
        /\ a[1] = "A" /\ z[1] = "B"
    <2>1. "A" \in Registers /\ "B" \in Registers
      BY DEF Registers
    <2> HIDE DEF Registers
    <2>2. a \in Seq(Registers) /\ z \in Seq(Registers)
      BY <2>1
    <2>3. Len(a) = 1 /\ Len(z) = 1 /\ a[1] = "A" /\ z[1] = "B"
      OBVIOUS
    <2> QED
      BY <2>2, <2>3
  <1> HIDE DEF a, z
  <1>2. /\ u \in Seq(Registers) /\ Len(u) = 7
        /\ \A i \in 1 .. 7 : u[i] = IF i <= 1 THEN a[i] ELSE C!Fields[i - 1]
    <2>1. /\ u \in Seq(Registers) /\ Len(u) = Len(a) + Len(C!Fields)
          /\ \A i \in 1 .. Len(a) + Len(C!Fields) :
                u[i] = IF i <= Len(a) THEN a[i] ELSE C!Fields[i - Len(a)]
      BY <1>1, FieldFacts, ConcatProperties
    <2> QED
      BY <1>1, <2>1, FieldFacts
  <1> HIDE DEF u
  <1>3. /\ o \in Seq(Registers) /\ Len(o) = 8
        /\ \A i \in 1 .. 8 : o[i] = IF i <= 7 THEN u[i] ELSE z[i - 7]
    <2>1. /\ o \in Seq(Registers) /\ Len(o) = Len(u) + Len(z)
          /\ \A i \in 1 .. Len(u) + Len(z) : o[i] = IF i <= Len(u) THEN u[i] ELSE z[i - Len(u)]
      BY <1>1, <1>2, ConcatProperties
    <2> QED
      BY <1>1, <1>2, <2>1
  <1>4. C!Order = o
    BY DEF C!Order, a, z, u
  <1> HIDE DEF o
  <1>5. o[1] = "A" /\ o[8] = "B"
    BY <1>1, <1>2, <1>3
  <1>6. ASSUME NEW j \in 1 .. 6 PROVE o[j + 1] = C!Fields[j]
    <2>1. j + 1 \in 1 .. 7 /\ j + 1 \in 1 .. 8 /\ j + 1 <= 7 /\ ~(j + 1 <= 1) /\ j + 1 - 1 = j
      OBVIOUS
    <2> QED
      BY <1>2, <1>3, <2>1
  <1>7. ASSUME NEW j \in 1 .. 6 PROVE C!Fields[j] \in Names
    BY FieldFacts DEF Names
  <1>8. ASSUME NEW j \in 1 .. 8 PROVE o[j] \in Registers
    <2>1. CASE j = 1 \/ j = 8
      BY <1>5, <2>1 DEF Registers
    <2>2. CASE j \in 2 .. 7
      <3>1. j - 1 \in 1 .. 6 /\ (j - 1) + 1 = j
        BY <2>2
      <3> QED
        BY <1>6, <1>7, <3>1 DEF Registers
    <2> QED
      BY <2>1, <2>2
  <1>9. DOMAIN o = 1 .. 8
    BY <1>3
  <1> QED
    BY <1>3, <1>4, <1>5, <1>6, <1>7, <1>8, <1>9

-----------------------------------------------------------------------------
\* A number of two digits from its two half bytes.
LEMMA BcdBack ==
    ASSUME NEW v \in 0 .. 99
    PROVE  LET y == 16 * (v \div 10) + (v % 10)
           IN  y \in 0 .. 153 /\ y % 16 = v % 10 /\ y \div 16 = v \div 10
                 /\ (y % 16) + (y \div 16) * 10 = v
  BY Z3

\* The hour of a clock of 12 hours, in half bytes and with its bit.
LEMMA BcdHour ==
    ASSUME NEW v \in 0 .. 12, NEW a \in {0, 128}
    PROVE  LET y == 16 * (v \div 10) + (v % 10) + a
           IN  y \in 0 .. 255 /\ (y % 16) + ((y \div 16) % 8) * 10 + 128 * (y \div 128) = v + a
  BY Z3

LEMMA HourBack ==
    ASSUME NEW h \in 0 .. 23
    PROVE  LET v == ((h + 11) % 12) + 1
               t == IF h \in {0, 12} THEN 12 - h ELSE h
           IN  /\ v \in 1 .. 12
               /\ h >= 12 => (((v + 128) % 128) + 12) % 24 = t
               /\ h < 12 => v = t
  <1> DEFINE v == ((h + 11) % 12) + 1
  <1>1. CASE h = 0
    BY <1>1, Z3
  <1>2. CASE h \in 1 .. 11
    <2>1. v = h
      BY <1>2, Z3
    <2> QED
      BY <1>2, <2>1
  <1>3. CASE h \in 12 .. 23
    <2>1. v = h - 12 \/ (h = 12 /\ v = 12)
      BY <1>3, Z3
    <2> QED
      BY <1>3, <2>1, Z3
  <1> QED
    BY <1>1, <1>2, <1>3

LEMMA InstantFacts ==
    ASSUME C!CmosAssumption, NEW n \in 1 .. Len(Instants)
    PROVE  /\ Instants[n].second \in 0 .. 99 /\ Instants[n].minute \in 0 .. 99
           /\ Instants[n].hour \in 0 .. 23 /\ Instants[n].day \in 0 .. 99
           /\ Instants[n].month \in 0 .. 99 /\ Instants[n].year \in 0 .. 99
           /\ Instants[n] \in [Names -> 0 .. 99] /\ Len(Instants) \in Nat
  <1>1. Instants[n] \in [second : 0 .. 59, minute : 0 .. 59, hour : 0 .. 23,
                         day : 1 .. 31, month : 1 .. 12, year : 0 .. 99] /\ Len(Instants) \in Nat
    <2> DEFINE times == [second : 0 .. 59, minute : 0 .. 59, hour : 0 .. 23,
                         day : 1 .. 31, month : 1 .. 12, year : 0 .. 99]
    <2>1. Instants \in Seq(times)
      BY DEF C!CmosAssumption
    <2> HIDE DEF times
    <2>2. Instants[n] \in times /\ Len(Instants) \in Nat
      BY <2>1
    <2> QED
      BY <2>2 DEF times
  <1>2. /\ Instants[n].second \in 0 .. 59 /\ Instants[n].minute \in 0 .. 59
        /\ Instants[n].hour \in 0 .. 23 /\ Instants[n].day \in 1 .. 31
        /\ Instants[n].month \in 1 .. 12 /\ Instants[n].year \in 0 .. 99
    BY <1>1
  <1>3. /\ Instants[n].second \in 0 .. 99 /\ Instants[n].minute \in 0 .. 99
        /\ Instants[n].hour \in 0 .. 99 /\ Instants[n].day \in 0 .. 99 /\ Instants[n].month \in 0 .. 99
    BY <1>2
  <1>4. Instants[n] \in [Names -> 0 .. 99]
    <2>1. DOMAIN Instants[n] = Names /\ Instants[n] = [f_ \in DOMAIN Instants[n] |-> Instants[n][f_]]
      BY <1>1 DEF Names
    <2>2. \A g \in Names : Instants[n][g] \in 0 .. 99
      <3> DEFINE o == Instants[n]
      <3>1. /\ o["second"] \in 0 .. 99 /\ o["minute"] \in 0 .. 99 /\ o["hour"] \in 0 .. 99
            /\ o["day"] \in 0 .. 99 /\ o["month"] \in 0 .. 99 /\ o["year"] \in 0 .. 99
        BY <1>2, <1>3
      <3> HIDE DEF o
      <3>2. \A g \in Names : o[g] \in 0 .. 99
        BY <3>1 DEF Names
      <3> QED
        BY <3>2 DEF o
    <2> QED
      BY <2>1, <2>2
  <1> QED
    BY <1>1, <1>2, <1>3, <1>4

\* The bits of status register B that cmos_time looks at.
LEMMA StatusBits ==
    ASSUME ClockTypes
    PROVE  /\ (C!StatusB \div 4) % 2 = 1 <=> mode.binary = TRUE
           /\ (C!StatusB \div 2) % 2 = 0 <=> mode.hours24 = FALSE
           /\ C!StatusB \in 0 .. 255
  <1>1. mode.binary \in BOOLEAN /\ mode.hours24 \in BOOLEAN
    BY DEF ClockTypes
  <1>2. C!StatusB = (IF mode.binary THEN 4 ELSE 0) + (IF mode.hours24 THEN 2 ELSE 0)
    BY DEF C!StatusB
  <1>3. CASE mode.binary = TRUE /\ mode.hours24 = TRUE
    <2>1. C!StatusB = 6
      BY <1>2, <1>3
    <2> QED
      BY <1>3, <2>1
  <1>4. CASE mode.binary = TRUE /\ mode.hours24 = FALSE
    <2>1. C!StatusB = 4
      BY <1>2, <1>4
    <2> QED
      BY <1>4, <2>1
  <1>5. CASE mode.binary = FALSE /\ mode.hours24 = TRUE
    <2>1. C!StatusB = 2
      BY <1>2, <1>5
    <2> QED
      BY <1>5, <2>1
  <1>6. CASE mode.binary = FALSE /\ mode.hours24 = FALSE
    <2>1. C!StatusB = 0
      BY <1>2, <1>6
    <2> QED
      BY <1>6, <2>1
  <1> QED
    BY <1>1, <1>3, <1>4, <1>5, <1>6

\* What Converted makes of register v of a field, given the two bits.
Number(g, v, binary) == IF binary THEN v ELSE C!Binary(g, v)

\* A register that is not the hour's gives its number back.
LEMMA NumberBack ==
    ASSUME ClockTypes, NEW g \in Names \ {"hour"}, NEW v \in 0 .. 99
    PROVE  Number(g, C!Bcd(v), mode.binary = TRUE) = v /\ C!Bcd(v) \in 0 .. 255
  <1>1. mode.binary \in BOOLEAN
    BY DEF ClockTypes
  <1>2. CASE mode.binary = TRUE
    BY <1>2 DEF Number, C!Bcd
  <1>3. CASE mode.binary = FALSE
    <2> DEFINE y == 16 * (v \div 10) + (v % 10)
    <2>1. y \in 0 .. 153 /\ (y % 16) + (y \div 16) * 10 = v
      BY BcdBack
    <2>2. C!Bcd(v) = y
      BY <1>3 DEF C!Bcd
    <2> HIDE DEF y
    <2>3. Number(g, y, mode.binary = TRUE) = (y % 16) + (y \div 16) * 10
      BY <1>3 DEF Number, C!Binary
    <2>4. y \in 0 .. 255
      BY <2>1
    <2> QED
      BY <2>1, <2>2, <2>3, <2>4
  <1> QED
    BY <1>1, <1>2, <1>3

\* The hour's register: the hour, or that of a clock of 12 hours with its bit.
LEMMA NumberHour ==
    ASSUME ClockTypes, NEW h \in 0 .. 23
    PROVE  LET v == ((h + 11) % 12) + 1
           IN  /\ C!HourRegister(h) \in 0 .. 255
               /\ Number("hour", C!HourRegister(h), mode.binary = TRUE)
                    = IF mode.hours24 = TRUE THEN h ELSE v + (IF h >= 12 THEN 128 ELSE 0)
  <1> DEFINE v == ((h + 11) % 12) + 1
             a == IF h >= 12 THEN 128 ELSE 0
             w == IF mode.hours24 = TRUE THEN h ELSE v
             q == IF mode.hours24 = TRUE THEN 0 ELSE a
  <1>1. mode.binary \in BOOLEAN /\ mode.hours24 \in BOOLEAN
    BY DEF ClockTypes
  <1>2. v \in 1 .. 12 /\ a \in {0, 128}
    BY HourBack
  <1>3. C!HourRegister(h) = C!Bcd(w) + q
    <2>1. CASE mode.hours24 = TRUE
      <3>1. C!HourRegister(h) = C!Bcd(h) /\ C!Bcd(h) \in Int
        <4>1. "year" \in Names \ {"hour"} /\ h \in 0 .. 99
          BY DEF Names
        <4>2. C!Bcd(h) \in 0 .. 255
          BY <4>1, NumberBack
        <4>3. C!HourRegister(h) = C!Bcd(h)
          BY <2>1 DEF C!HourRegister
        <4> QED
          BY <4>2, <4>3
      <3> QED
        BY <2>1, <3>1
    <2>2. CASE mode.hours24 = FALSE
      BY <2>2 DEF C!HourRegister
    <2> QED
      BY <1>1, <2>1, <2>2
  <1>4. w \in 0 .. 23 /\ q \in {0, 128} /\ (q = 128 => w \in 0 .. 12)
    BY <1>2
  <1> HIDE DEF v, a
  <1>5. w + q = IF mode.hours24 = TRUE THEN h ELSE v + a
    BY <1>4
  <1> HIDE DEF w, q
  <1>6. CASE mode.binary = TRUE
    <2>1. C!HourRegister(h) = w + q
      BY <1>3, <1>6 DEF C!Bcd
    <2>2. w + q \in 0 .. 255
      BY <1>4
    <2> QED
      BY <1>5, <1>6, <2>1, <2>2 DEF Number, v, a
  <1>7. CASE mode.binary = FALSE
    <2> DEFINE y == 16 * (w \div 10) + (w % 10) + q
    <2>1. C!HourRegister(h) = y
      BY <1>3, <1>7 DEF C!Bcd
    <2>2. y \in 0 .. 255 /\ (y % 16) + ((y \div 16) % 8) * 10 + 128 * (y \div 128) = w + q
      <3>1. CASE q = 128
        BY <1>4, <3>1, BcdHour
      <3>2. CASE q = 0
        BY <1>4, <3>2, Z3
      <3> QED
        BY <1>4, <3>1, <3>2
    <2> HIDE DEF y
    <2>3. Number("hour", y, mode.binary = TRUE) = (y % 16) + ((y \div 16) % 8) * 10 + 128 * (y \div 128)
      BY <1>7 DEF Number, C!Binary
    <2> QED
      BY <1>5, <1>7, <2>1, <2>2, <2>3 DEF v, a
  <1> QED
    BY <1>1, <1>6, <1>7

LEMMA RegisterByte ==
    ASSUME C!CmosAssumption, ClockTypes, NEW g \in Names, NEW n \in 1 .. Len(Instants)
    PROVE  C!Register(g, n) \in 0 .. 255
  <1> DEFINE t == Instants[n]
  <1>1. t \in [Names -> 0 .. 99] /\ t.hour \in 0 .. 23
    BY InstantFacts
  <1>2. CASE g = "hour"
    BY <1>1, <1>2, NumberHour DEF C!Register
  <1>3. CASE g # "hour"
    <2>1. g \in Names \ {"hour"} /\ t[g] \in 0 .. 99
      BY <1>1, <1>3
    <2>2. C!Bcd(t[g]) \in 0 .. 255
      BY <2>1, NumberBack
    <2> QED
      BY <1>3, <2>2 DEF C!Register
  <1> QED
    BY <1>2, <1>3

\* What cmos_time makes of a register is what the clock showed when it was read.
LEMMA FieldRead ==
    ASSUME C!CmosAssumption, ClockTypes, NEW raw, NEW j \in 1 .. 6, NEW n \in 1 .. Len(Instants),
           raw[j] = C!Register(C!Fields[j], n)
    PROVE  /\ DOMAIN C!Converted(raw, C!StatusB) = Names
           /\ C!Converted(raw, C!StatusB) = [g \in Names |-> C!Converted(raw, C!StatusB)[g]]
           /\ C!Converted(raw, C!StatusB)[C!Fields[j]] \in 0 .. 99
           /\ C!Shows(C!Converted(raw, C!StatusB), C!Fields[j], n)
  <1> DEFINE t      == Instants[n]
             st     == C!StatusB
             at(g)  == CHOOSE k \in DOMAIN C!Fields : C!Fields[k] = g
             num(k) == IF (st \div 4) % 2 = 1 THEN raw[k] ELSE C!Binary(C!Fields[k], raw[k])
             val(k) == IF C!Fields[k] = "hour" /\ (st \div 2) % 2 = 0 /\ num(k) >= 128
                         THEN C!Hour24(num(k)) ELSE num(k)
             time   == C!Converted(raw, st)
  <1>1. time = [g \in {C!Fields[k] : k \in DOMAIN C!Fields} |-> val(at(g))]
    BY DEF C!Converted
  <1>2. {C!Fields[k] : k \in DOMAIN C!Fields} = Names
    BY FieldFacts DEF Names
  <1>3. at(C!Fields[j]) = j
    <2>1. /\ at(C!Fields[j]) \in DOMAIN C!Fields
          /\ C!Fields[at(C!Fields[j])] = C!Fields[j]
      BY FieldFacts
    <2>2. \A k \in 1 .. 6 : C!Fields[k] = C!Fields[j] => k = j
      BY FieldFacts
    <2> HIDE DEF at
    <2> QED
      BY <2>1, <2>2, FieldFacts
  <1>4. num(j) = Number(C!Fields[j], C!Register(C!Fields[j], n), mode.binary = TRUE)
    BY StatusBits DEF Number
  <1>6. t \in [Names -> 0 .. 99] /\ t["hour"] \in 0 .. 23
    BY InstantFacts
  <1>7. C!Fields[j] \in Names
    BY OrderFacts
  <1>8. CASE C!Fields[j] # "hour"
    <2>1. C!Fields[j] \in Names \ {"hour"}
      BY <1>7, <1>8
    <2>2. t[C!Fields[j]] \in 0 .. 99
      BY <1>6, <2>1
    <2>3. C!Register(C!Fields[j], n) = C!Bcd(t[C!Fields[j]])
      BY <1>8 DEF C!Register
    <2>4. num(j) = t[C!Fields[j]]
      <3>1. Number(C!Fields[j], C!Bcd(t[C!Fields[j]]), mode.binary = TRUE) = t[C!Fields[j]]
        BY <2>1, <2>2, NumberBack
      <3> QED
        BY <1>4, <2>3, <3>1
    <2>5. val(j) = t[C!Fields[j]]
      <3> HIDE DEF num
      <3> QED
        BY <1>8, <2>4
    <2> HIDE DEF num, val, at
    <2>6. time = [g \in Names |-> val(at(g))]
      BY <1>1, <1>2
    <2> HIDE DEF time
    <2>7. time[C!Fields[j]] = t[C!Fields[j]]
      BY <1>3, <1>7, <2>5, <2>6
    <2> QED
      BY <2>2, <2>6, <2>7 DEF C!Shows, time
  <1>9. CASE C!Fields[j] = "hour"
    <2> DEFINE h == t["hour"]
               v == ((h + 11) % 12) + 1
               m == num(j)
               u == IF h \in {0, 12} THEN 12 - h ELSE h
    <2>1. C!Register("hour", n) = C!HourRegister(h)
      BY DEF C!Register
    <2>2. m = IF mode.hours24 = TRUE THEN h ELSE v + (IF h >= 12 THEN 128 ELSE 0)
      <3>1. m = Number("hour", C!HourRegister(h), mode.binary = TRUE)
        BY <1>4, <1>9, <2>1
      <3> HIDE DEF m
      <3> QED
        BY <1>6, <3>1, NumberHour
    <2>3. val(j) = IF (st \div 2) % 2 = 0 /\ m >= 128 THEN C!Hour24(m) ELSE m
      BY <1>9
    <2> HIDE DEF m, val, num, at
    <2>4. mode.hours24 \in BOOLEAN /\ h \in 0 .. 23
      BY <1>6 DEF ClockTypes
    <2>5. val(j) \in 0 .. 99 /\ (val(j) = h \/ (mode.hours24 = FALSE /\ h \in {0, 12}))
      <3>1. CASE mode.hours24 = TRUE
        <4>1. ~((st \div 2) % 2 = 0) /\ m = h
          BY <2>2, <3>1, StatusBits
        <4>2. val(j) = h
          BY <2>3, <4>1
        <4> QED
          BY <2>4, <4>2
      <3>2. CASE mode.hours24 = FALSE
        <4>1. (st \div 2) % 2 = 0
          BY <3>2, StatusBits
        <4>2. v \in 1 .. 12 /\ (h >= 12 => (((v + 128) % 128) + 12) % 24 = u) /\ (h < 12 => v = u)
          BY <2>4, HourBack
        <4>0. h \in 0 .. 23
          BY <2>4
        <4> HIDE DEF h
        <4>3. u \in 0 .. 99 /\ (u = h \/ h \in {0, 12})
          BY <4>0
        <4>6. h >= 12 \/ h < 12
          BY <4>0
        <4> HIDE DEF v, st, u
        <4>4. CASE h >= 12
          <5>1. m = v + 128 /\ m >= 128
            BY <2>2, <3>2, <4>2, <4>4
          <5>2. val(j) = u
            BY <2>3, <4>1, <4>2, <4>4, <5>1 DEF C!Hour24
          <5> QED
            BY <3>2, <4>3, <5>2
        <4>5. CASE h < 12
          <5>1. m = v /\ ~(m >= 128)
            BY <2>2, <2>4, <3>2, <4>2, <4>5
          <5>2. val(j) = u
            BY <2>3, <4>2, <4>5, <5>1
          <5> QED
            BY <3>2, <4>3, <5>2
        <4> QED
          BY <4>4, <4>5, <4>6
      <3> QED
        BY <2>4, <3>1, <3>2
    <2>6. time = [g \in Names |-> val(at(g))]
      BY <1>1, <1>2
    <2> HIDE DEF time
    <2>7. time["hour"] = val(j)
      BY <1>3, <1>7, <1>9, <2>6
    <2>8. C!Shows(time, "hour", n)
      <3>1. CASE val(j) = h
        BY <2>7, <3>1 DEF C!Shows
      <3>2. CASE mode.hours24 = FALSE /\ h \in {0, 12}
        BY <3>2 DEF C!Shows
      <3> QED
        BY <2>5, <3>1, <3>2
    <2> QED
      BY <1>9, <2>5, <2>6, <2>7, <2>8 DEF time
  <1> QED
    BY <1>8, <1>9

\* What cmos_time returns when it has read all six.
LEMMA TimeRead ==
    ASSUME C!CmosAssumption, ClockTypes, NEW raw, NEW m \in 1 .. Len(Instants), m <= now,
           \A j \in 1 .. 6 : \E n \in m .. now : raw[j] = C!Register(C!Fields[j], n)
    PROVE  /\ C!Converted(raw, C!StatusB) \in [Names -> 0 .. 99]
           /\ \A g \in Names : \E n \in m .. now : C!Shows(C!Converted(raw, C!StatusB), g, n)
           /\ (\A j \in 1 .. 6 : raw[j] = C!Register(C!Fields[j], now))
                => \A g \in Names : C!Shows(C!Converted(raw, C!StatusB), g, now)
  <1> DEFINE time == C!Converted(raw, C!StatusB)
             last == now
  <1>0. /\ last \in 1 .. Len(Instants) /\ Len(Instants) \in Nat
        /\ \A n \in m .. last : n \in 1 .. Len(Instants)
    <2>1. last \in 1 .. Len(Instants)
      BY DEF ClockTypes
    <2>2. Len(Instants) \in Nat
      BY <2>1, InstantFacts
    <2> HIDE DEF last
    <2> QED
      BY <2>1, <2>2
  <1>1. ASSUME NEW g \in Names PROVE \E j \in 1 .. 6 : g = C!Fields[j]
    BY FieldFacts DEF Names
  <1> HIDE DEF last
  <1>2. ASSUME NEW g \in Names
        PROVE  /\ DOMAIN time = Names /\ time = [q \in Names |-> time[q]] /\ time[g] \in 0 .. 99
               /\ \E n \in m .. last : C!Shows(time, g, n)
    <2>1. PICK j \in 1 .. 6 : g = C!Fields[j]
      BY <1>1
    <2>2. PICK n \in m .. last : raw[j] = C!Register(C!Fields[j], n)
      BY <2>1 DEF last
    <2>3. n \in 1 .. Len(Instants)
      BY <1>0
    <2>4. /\ DOMAIN time = Names /\ time = [q \in Names |-> time[q]]
          /\ time[C!Fields[j]] \in 0 .. 99 /\ C!Shows(time, C!Fields[j], n)
      BY <2>2, <2>3, FieldRead
    <2> HIDE DEF time
    <2> QED
      BY <2>1, <2>4
  <1>3. ASSUME \A j \in 1 .. 6 : raw[j] = C!Register(C!Fields[j], last), NEW g \in Names
        PROVE  C!Shows(time, g, last)
    <2>1. PICK j \in 1 .. 6 : g = C!Fields[j]
      BY <1>1
    <2>2. C!Shows(time, C!Fields[j], last)
      BY <1>0, <1>3, FieldRead
    <2> HIDE DEF time
    <2> QED
      BY <2>1, <2>2
  <1> HIDE DEF time
  <1>4. "hour" \in Names
    BY DEF Names
  <1>5. time \in [Names -> 0 .. 99]
    BY <1>2, <1>4
  <1> QED
    BY <1>2, <1>3, <1>5 DEF last, time

-----------------------------------------------------------------------------
LEMMA ClockIdle ==
    /\ C!Idle \in ClockCalls /\ C!Idle.k = 0 /\ C!Idle.half = "select" /\ C!Idle.raw = <<>>
    /\ C!Idle.time = <<>> /\ C!Idle.ahead = FALSE /\ C!Idle.late = FALSE
    /\ "main" \in C!Contexts /\ "irq" \in C!Contexts
    /\ \A x \in C!Contexts : x = "main" \/ x = "irq"
  <1>1. <<>> \in Seq(0 .. 255)
    OBVIOUS
  <1> QED
    BY <1>1 DEF C!Idle, ClockCalls, C!Contexts

LEMMA ClockInit == C!CmosAssumption /\ C!Init => ClockInv
  <1> SUFFICES ASSUME C!CmosAssumption, C!Init PROVE ClockInv
    OBVIOUS
  <1>1. \A x \in C!Contexts : cmos[x] = C!Idle /\ since[x] = 0
    BY DEF C!Init
  <1>2. 1 \in 1 .. Len(Instants)
    <2> DEFINE times == [second : 0 .. 59, minute : 0 .. 59, hour : 0 .. 23,
                         day : 1 .. 31, month : 1 .. 12, year : 0 .. 99]
    <2>1. Instants \in Seq(times) /\ Instants # <<>>
      BY DEF C!CmosAssumption
    <2> HIDE DEF times
    <2>2. Len(Instants) \in Nat /\ Len(Instants) # 0
      BY <2>1
    <2> QED
      BY <2>2
  <1>3. ClockTypes
    <2>1. cmos \in [C!Contexts -> ClockCalls] /\ since \in [C!Contexts -> Nat]
      BY ClockIdle DEF C!Init
    <2>2. mode \in Modes /\ mode \in [binary : BOOLEAN, hours24 : BOOLEAN]
      BY DEF C!Init, C!CmosAssumption
    <2>3. uip = FALSE /\ now = 1 /\ cmosIndex = "A" /\ \A x \in C!Contexts : since[x] <= now
      BY <1>1 DEF C!Init
    <2> QED
      BY <1>2, <2>1, <2>2, <2>3 DEF ClockTypes, Registers
  <1>4. ASSUME NEW x \in C!Contexts PROVE Reads(x)
    BY <1>1, ClockIdle DEF Reads
  <1> QED
    BY <1>1, <1>3, <1>4, ClockIdle DEF ClockInv

\* A time that has been returned stays one that was shown.
LEMMA TimeKept ==
    ASSUME mode' = mode, now \in Nat, now' \in Nat, now <= now', NEW x \in C!Contexts,
           since[x] \in Nat, since'[x] = since[x], cmos'[x].time = cmos[x].time,
           cmos'[x].late = cmos[x].late, TimeOf(x)
    PROVE  TimeOf(x)'
  <1> DEFINE t == cmos[x].time
             lo == since[x]
             mid == now
             hi == now'
  <1>1. \A n \in lo .. mid : n \in lo .. hi
    <2>1. lo \in Nat /\ mid \in Nat /\ hi \in Nat /\ mid <= hi
      OBVIOUS
    <2> HIDE DEF lo, mid, hi
    <2> QED
      BY <2>1
  <1>2. \A g, n : C!Shows(t, g, n)' <=> C!Shows(t, g, n)
    BY DEF C!Shows
  <1>3. /\ \A g \in DOMAIN t : \E n \in lo .. mid : C!Shows(t, g, n)
        /\ cmos[x].late = FALSE => \E n \in lo .. mid : \A g \in DOMAIN t : C!Shows(t, g, n)
    BY DEF TimeOf
  <1>4. \A g \in DOMAIN t : \E n \in lo .. hi : C!Shows(t, g, n)'
    BY <1>1, <1>2, <1>3, Zenon
  <1>5. cmos[x].late = FALSE => \E n \in lo .. hi : \A g \in DOMAIN t : C!Shows(t, g, n)'
    BY <1>1, <1>2, <1>3, Zenon
  <1>6. cmos'[x].time = t /\ since'[x] = lo /\ now' = hi /\ cmos'[x].late = cmos[x].late
    OBVIOUS
  <1>7. /\ \A g \in DOMAIN cmos'[x].time : \E n \in since'[x] .. now' : C!Shows(cmos[x].time, g, n)'
        /\ cmos'[x].late = FALSE => \E n \in since'[x] .. now' :
                                       \A g \in DOMAIN cmos'[x].time : C!Shows(cmos[x].time, g, n)'
    BY <1>4, <1>5, <1>6, Zenon
  <1> QED
    BY <1>6, <1>7, Zenon DEF TimeOf, C!Shows

LEMMA ClockUpdates ==
    ASSUME C!CmosAssumption, ClockInv, C!UpdateBegins \/ C!UpdateEnds
    PROVE  ClockInv'
  <1>1. /\ ClockTypes /\ (\A x \in C!Contexts : Reads(x))
        /\ (cmos["main"].k = 0 \/ cmos["irq"].k = 0)
    BY DEF ClockInv
  <1>2. CASE C!UpdateBegins
    <2>1. /\ now < Len(Instants) /\ uip' = TRUE /\ mode' = mode /\ now' = now
          /\ cmosIndex' = cmosIndex /\ cmos' = cmos /\ since' = since
      BY <1>2 DEF C!UpdateBegins
    <2>2. ClockTypes'
      BY <1>1, <2>1 DEF ClockTypes
    <2>3. ASSUME NEW x \in C!Contexts PROVE Reads(x)'
      BY <1>1, <2>1 DEF Reads, TimeOf, C!Register, C!HourRegister, C!Bcd, C!Shows
    <2> QED
      BY <1>1, <2>1, <2>2, <2>3 DEF ClockInv
  <1>3. CASE C!UpdateEnds
    <2> DEFINE on == cmos["main"].late \/ (cmos["main"].k > 1 /\ cmos["main"].ahead)
    <2>1. /\ uip = TRUE /\ uip' = FALSE /\ now' = now + 1 /\ mode' = mode
          /\ cmosIndex' = cmosIndex /\ since' = since
          /\ cmos' = [cmos EXCEPT !["main"].late = on]
          /\ ~(cmos["irq"].k > 1 /\ cmos["irq"].ahead = TRUE)
      BY <1>1, <1>3 DEF C!UpdateEnds, ClockTypes
    <2>2. /\ now \in Nat /\ now' \in Nat /\ now' \in 1 .. Len(Instants) /\ now <= now'
      <3>1. 1 \in Nat /\ now \in 1 .. Len(Instants) /\ now < Len(Instants)
        BY <1>1, <2>1 DEF ClockTypes
      <3> QED
        BY <2>1, <3>1
    <2>3. on \in BOOLEAN
      OBVIOUS
    <2>4. /\ cmos["main"] \in ClockCalls /\ cmos["irq"] \in ClockCalls
          /\ cmos \in [C!Contexts -> ClockCalls] /\ since \in [C!Contexts -> Nat]
      BY <1>1, ClockIdle DEF ClockTypes
    <2>5. (cmos["main"].k > 1 => on = TRUE) /\ (~(cmos["main"].k > 1) => on = cmos["main"].late)
      <3>1. cmos["main"].k > 1 => cmos["main"].ahead = TRUE
        BY <1>1, ClockIdle DEF Reads
      <3>2. cmos["main"].late \in BOOLEAN
        BY <2>4 DEF ClockCalls
      <3> QED
        BY <3>1, <3>2
    <2> HIDE DEF on
    <2>6. cmos'["irq"] = cmos["irq"] /\ cmos'["main"] = [cmos["main"] EXCEPT !.late = on]
      BY <2>1, <2>4, ClockIdle
    <2>7. /\ cmos'["main"] \in ClockCalls /\ cmos'["main"].late = on
          /\ cmos'["main"].k = cmos["main"].k /\ cmos'["main"].half = cmos["main"].half
          /\ cmos'["main"].ahead = cmos["main"].ahead /\ cmos'["main"].raw = cmos["main"].raw
          /\ cmos'["main"].time = cmos["main"].time
      BY <2>3, <2>4, <2>6 DEF ClockCalls
    <2>8. cmos' \in [C!Contexts -> ClockCalls]
      BY <2>1, <2>4, <2>6, <2>7
    <2>9. ClockTypes'
      <3>1. ASSUME NEW x \in C!Contexts PROVE since[x] <= now'
        <4>1. since[x] \in Nat /\ since[x] <= now
          BY <1>1 DEF ClockTypes
        <4> QED
          BY <2>1, <2>2, <4>1
      <3>2. uip' \in BOOLEAN
        BY <2>1
      <3> QED
        BY <1>1, <2>1, <2>2, <2>8, <3>1, <3>2 DEF ClockTypes
    <2>10. ASSUME NEW x \in C!Contexts
           PROVE  /\ cmos'[x].k = cmos[x].k /\ cmos'[x].half = cmos[x].half /\ cmos'[x].ahead = cmos[x].ahead
                  /\ cmos'[x].raw = cmos[x].raw /\ cmos'[x].time = cmos[x].time
                  /\ cmos[x].k > 1 => cmos'[x].late = TRUE
                  /\ ~(cmos[x].k > 1) => cmos'[x].late = cmos[x].late
      <3>1. CASE x = "main"
        BY <2>5, <2>7, <3>1
      <3>2. CASE x = "irq"
        <4>1. cmos["irq"].k > 1 => cmos["irq"].ahead = TRUE
          BY <1>1, ClockIdle DEF Reads
        <4> QED
          BY <2>1, <2>6, <3>2, <4>1
      <3> QED
        BY <3>1, <3>2, ClockIdle
    <2>11. ASSUME NEW x \in C!Contexts PROVE Reads(x)'
      <3> DEFINE k == cmos[x].k
                 raw == cmos[x].raw
                 lo == since[x]
                 mid == now
                 hi == now'
      <3>1. Reads(x) /\ lo \in Nat /\ since'[x] = lo /\ mid \in Nat /\ hi \in Nat /\ mid <= hi
        BY <1>1, <2>1, <2>2 DEF ClockTypes
      <3>2. \A n \in lo .. mid : n \in lo .. hi
        <4> HIDE DEF lo, mid, hi
        <4> QED
          BY <3>1
      <3>3. k > 1 => \A j \in 1 .. k - 2 : \E n \in since'[x] .. now' : raw[j] = C!Register(C!Fields[j], n)'
        <4>1. ASSUME k > 1, NEW j \in 1 .. k - 2
              PROVE  \E n \in lo .. hi : raw[j] = C!Register(C!Fields[j], n)'
          <5>1. PICK n \in lo .. mid : raw[j] = C!Register(C!Fields[j], n)
            BY <3>1, <4>1 DEF Reads
          <5>2. n \in lo .. hi
            BY <3>2
          <5>3. raw[j] = C!Register(C!Fields[j], n)'
            BY <2>1, <5>1 DEF C!Register, C!HourRegister, C!Bcd
          <5> QED
            BY <5>2, <5>3
        <4> QED
          BY <3>1, <4>1
      <3>4. cmos[x].time # <<>> => TimeOf(x)'
        <4> SUFFICES ASSUME cmos[x].time # <<>> PROVE TimeOf(x)'
          OBVIOUS
        <4>1. TimeOf(x) /\ ~(k > 0)
          BY <3>1 DEF Reads
        <4>2. ~(k > 1)
          <5>1. k \in 0 .. 8
            BY <2>4 DEF ClockCalls
          <5> QED
            BY <4>1, <5>1
        <4>3. cmos'[x].late = cmos[x].late /\ cmos'[x].time = cmos[x].time
          BY <2>10, <4>2
        <4> QED
          BY <2>1, <3>1, <4>1, <4>3, TimeKept
      <3>5. /\ cmos'[x].k = cmos[x].k /\ cmos'[x].half = cmos[x].half /\ cmos'[x].ahead = cmos[x].ahead
            /\ cmos'[x].raw = cmos[x].raw /\ cmos'[x].time = cmos[x].time /\ cmosIndex' = cmosIndex
        BY <2>1, <2>10
      <3>6. (k > 1 => cmos'[x].late = TRUE) /\ (k = 1 => cmos'[x].late = cmos[x].late)
        <4>1. k = 1 => ~(k > 1)
          OBVIOUS
        <4>2. (k > 1 => cmos'[x].late = TRUE) /\ (~(k > 1) => cmos'[x].late = cmos[x].late)
          BY <2>10, Zenon
        <4> QED
          BY <4>1, <4>2, Zenon
      <3>7. /\ k > 0 => cmos[x].time = <<>> /\ since'[x] >= 1
            /\ k > 0 /\ cmos[x].half = "read" => cmosIndex' = C!Order[k]
            /\ k <= 1 => raw = <<>>
            /\ k = 1 => cmos'[x].late = FALSE
            /\ k > 1 => cmos[x].ahead = TRUE /\ Len(raw) = k - 2
        BY <3>1, <3>5, <3>6 DEF Reads
      <3>8. ~(k > 1 /\ cmos'[x].late = FALSE)
        BY <3>6
      <3> HIDE DEF lo, mid, hi
      <3> QED
        BY <3>3, <3>4, <3>5, <3>7, <3>8 DEF Reads
    <2> QED
      BY <1>1, <2>7, <2>6, <2>9, <2>11 DEF ClockInv
  <1> QED
    BY <1>2, <1>3

\* A context goes on with its call, while the other is in none.
LEMMA ClockGoesOn ==
    ASSUME C!CmosAssumption, ClockInv, NEW x \in C!Contexts, NEW new \in ClockCalls,
           cmos' = [cmos EXCEPT ![x] = new],
           \A y \in C!Contexts : y # x => cmos[y].k = 0,
           mode' = mode, now' = now, uip' = uip, cmosIndex' \in Registers,
           since' \in [C!Contexts -> Nat], since'[x] <= now,
           \A y \in C!Contexts : y # x => since'[y] = since[y],
           Reads(x)'
    PROVE  ClockInv'
  <1>1. ClockTypes /\ \A y \in C!Contexts : Reads(y)
    BY DEF ClockInv
  <1>2. /\ cmos' \in [C!Contexts -> ClockCalls]
        /\ \A y \in C!Contexts : y # x => cmos'[y] = cmos[y]
    BY <1>1 DEF ClockTypes
  <1>3. ClockTypes'
    BY <1>1, <1>2 DEF ClockTypes
  <1>4. ASSUME NEW y \in C!Contexts, y # x PROVE Reads(y)'
    <2>1. cmos'[y] = cmos[y] /\ since'[y] = since[y] /\ cmos[y].k = 0 /\ Reads(y)
      BY <1>1, <1>2, <1>4
    <2>2. cmos[y].time # <<>> => TimeOf(y)'
      <3>1. now \in Nat /\ since[y] \in Nat
        BY <1>1 DEF ClockTypes
      <3> QED
        BY <2>1, <3>1, TimeKept DEF Reads
    <2> QED
      BY <2>1, <2>2 DEF Reads
  <1>5. cmos'["main"].k = 0 \/ cmos'["irq"].k = 0
    BY <1>2, ClockIdle
  <1> QED
    BY <1>3, <1>4, <1>5 DEF ClockInv

\* A context that is about to go on is the only one.
LEMMA ClockAt ==
    ASSUME C!CmosAssumption, ClockInv, NEW x \in C!Contexts, C!Runs(x), cmos[x].k > 0
    PROVE  /\ ClockTypes /\ Reads(x) /\ cmos[x] \in ClockCalls
           /\ \A y \in C!Contexts : y # x => cmos[y].k = 0
  <1>1. ClockTypes /\ Reads(x) /\ cmos[x] \in ClockCalls
    BY DEF ClockInv, ClockTypes
  <1>2. x = "main" => cmos["irq"].k = 0
    BY DEF C!Runs
  <1>3. x = "irq" => cmos["main"].k = 0
    <2>1. cmos["main"].k = 0 \/ cmos["irq"].k = 0
      BY DEF ClockInv
    <2>2. cmos[x].k # 0
      BY <1>1 DEF ClockCalls
    <2> QED
      BY <2>1, <2>2
  <1> QED
    BY <1>1, <1>2, <1>3, ClockIdle

LEMMA ClockBegin ==
    ASSUME C!CmosAssumption, ClockInv, NEW x \in C!Contexts, C!Begin(x)
    PROVE  ClockInv'
  <1> DEFINE new == [C!Idle EXCEPT !.k = 1]
  <1>1. /\ cmos' = [cmos EXCEPT ![x] = new] /\ since' = [since EXCEPT ![x] = now]
        /\ mode' = mode /\ now' = now /\ uip' = uip /\ cmosIndex' = cmosIndex
        /\ (x = "main" => cmos["irq"].k = 0) /\ (x = "irq" => cmos["main"].k = 0)
    BY DEF C!Begin, C!Runs
  <1>2. ClockTypes
    BY DEF ClockInv
  <1>3. new \in ClockCalls /\ new.k = 1 /\ new.half = "select" /\ new.raw = <<>> /\ new.time = <<>>
        /\ new.late = FALSE
    <2>1. 1 \in 0 .. 8 /\ <<>> \in Seq(0 .. 255)
      OBVIOUS
    <2> QED
      BY <2>1 DEF ClockCalls, C!Idle
  <1> HIDE DEF new
  <1>4. cmos'[x] = new /\ \A y \in C!Contexts : y # x => cmos[y].k = 0
    BY <1>1, <1>2, ClockIdle DEF ClockTypes
  <1>5. /\ since' \in [C!Contexts -> Nat] /\ since'[x] <= now /\ since'[x] >= 1
        /\ \A y \in C!Contexts : y # x => since'[y] = since[y]
    <2>1. now \in Nat /\ now >= 1 /\ since \in [C!Contexts -> Nat]
      BY <1>2 DEF ClockTypes
    <2> QED
      BY <1>1, <2>1
  <1>6. Reads(x)'
    <2>1. /\ cmos'[x].k = 1 /\ cmos'[x].half = "select" /\ cmos'[x].raw = <<>> /\ cmos'[x].time = <<>>
          /\ cmos'[x].late = FALSE
      BY <1>3, <1>4
    <2> QED
      BY <1>5, <2>1 DEF Reads
  <1>7. cmosIndex' \in Registers
    BY <1>1, <1>2 DEF ClockTypes
  <1> QED
    BY <1>1, <1>3, <1>4, <1>5, <1>6, <1>7, ClockGoesOn

LEMMA ClockSelect ==
    ASSUME C!CmosAssumption, ClockInv, NEW x \in C!Contexts, C!SelectRegister(x)
    PROVE  ClockInv'
  <1> DEFINE new == [cmos[x] EXCEPT !.half = "read"]
  <1>1. /\ cmos' = [cmos EXCEPT ![x].half = "read"] /\ since' = since /\ cmosIndex' = C!Order[cmos[x].k]
        /\ mode' = mode /\ now' = now /\ uip' = uip /\ C!Runs(x) /\ cmos[x].k > 0
    BY DEF C!SelectRegister
  <1>2. /\ ClockTypes /\ Reads(x) /\ cmos[x] \in ClockCalls
        /\ \A y \in C!Contexts : y # x => cmos[y].k = 0
    BY <1>1, ClockAt
  <1>3. /\ new \in ClockCalls /\ new.k = cmos[x].k /\ new.half = "read" /\ new.raw = cmos[x].raw
        /\ new.time = cmos[x].time /\ new.ahead = cmos[x].ahead /\ new.late = cmos[x].late
    BY <1>2 DEF ClockCalls
  <1>4. cmos' = [cmos EXCEPT ![x] = new] /\ cmos'[x] = new
    BY <1>1, <1>2 DEF ClockTypes
  <1> HIDE DEF new
  <1>5. cmos[x].k \in 1 .. 8
    BY <1>1, <1>2 DEF ClockCalls
  <1>6. cmosIndex' \in Registers
    BY <1>1, <1>5, OrderFacts
  <1>7. Reads(x)'
    <2>1. /\ cmos'[x].k = cmos[x].k /\ cmos'[x].raw = cmos[x].raw /\ cmos'[x].time = cmos[x].time
          /\ cmos'[x].ahead = cmos[x].ahead /\ cmosIndex' = C!Order[cmos[x].k]
          /\ cmos'[x].late = cmos[x].late
      BY <1>1, <1>3, <1>4
    <2>2. cmos[x].time = <<>>
      BY <1>1, <1>2 DEF Reads
    <2> QED
      BY <1>1, <1>2, <2>1, <2>2 DEF Reads, C!Register, C!HourRegister, C!Bcd
  <1>8. since' \in [C!Contexts -> Nat] /\ since'[x] <= now
    BY <1>1, <1>2 DEF ClockTypes
  <1> QED
    BY <1>1, <1>2, <1>3, <1>4, <1>6, <1>7, <1>8, ClockGoesOn

LEMMA ClockWait ==
    ASSUME C!CmosAssumption, ClockInv, NEW x \in C!Contexts, C!Wait(x)
    PROVE  ClockInv'
  <1> DEFINE next  == IF C!cmos_wait THEN 1 ELSE 2
             quiet == ~uip
             new   == [cmos[x] EXCEPT !.k = next, !.half = "select", !.ahead = quiet]
  <1>1. /\ cmos' = [cmos EXCEPT ![x].k = next, ![x].half = "select", ![x].ahead = quiet]
        /\ since' = since /\ cmosIndex' = cmosIndex
        /\ mode' = mode /\ now' = now /\ uip' = uip /\ C!Runs(x) /\ cmos[x].k = 1 /\ cmos[x].half = "read"
    BY DEF C!Wait, C!Reading
  <1>2. /\ ClockTypes /\ Reads(x) /\ cmos[x] \in ClockCalls
        /\ \A y \in C!Contexts : y # x => cmos[y].k = 0
    BY <1>1, ClockAt
  <1>3. /\ cmosIndex = "A" /\ cmos[x].raw = <<>> /\ cmos[x].time = <<>> /\ cmos[x].late = FALSE
        /\ since[x] >= 1
    BY <1>1, <1>2, OrderFacts DEF Reads
  <1>4. next \in {1, 2} /\ quiet \in BOOLEAN /\ (next = 2 => quiet = TRUE)
    <2>1. C!DataPort = IF uip THEN 128 ELSE 0
      BY <1>3 DEF C!DataPort, C!StatusA
    <2>2. uip \in BOOLEAN
      BY <1>2 DEF ClockTypes
    <2>3. CASE uip = TRUE
      <3>1. C!cmos_wait
        BY <2>1, <2>3 DEF C!cmos_wait
      <3> QED
        BY <2>3, <3>1
    <2>4. CASE uip = FALSE
      BY <2>4
    <2> QED
      BY <2>2, <2>3, <2>4
  <1> HIDE DEF next, quiet
  <1>5. /\ new \in ClockCalls /\ new.k = next /\ new.half = "select" /\ new.raw = cmos[x].raw
        /\ new.time = cmos[x].time /\ new.ahead = quiet /\ new.late = cmos[x].late
    <2>1. next \in 0 .. 8
      BY <1>4
    <2> QED
      BY <1>2, <1>4, <2>1 DEF ClockCalls
  <1>6. cmos' = [cmos EXCEPT ![x] = new] /\ cmos'[x] = new
    BY <1>1, <1>2 DEF ClockTypes
  <1> HIDE DEF new
  <1>7. Reads(x)'
    <2>1. /\ cmos'[x].k = next /\ cmos'[x].raw = <<>> /\ cmos'[x].time = <<>>
          /\ cmos'[x].ahead = quiet /\ cmos'[x].half = "select" /\ cmos'[x].late = FALSE
          /\ since'[x] >= 1
      BY <1>1, <1>3, <1>5, <1>6
    <2>2. CASE next = 1
      BY <2>1, <2>2 DEF Reads
    <2>3. CASE next = 2
      <3>1. Len(cmos'[x].raw) = cmos'[x].k - 2 /\ 1 .. cmos'[x].k - 2 = {}
        BY <2>1, <2>3
      <3>2. cmos'[x].ahead = TRUE
        BY <1>4, <2>1, <2>3
      <3> QED
        BY <2>1, <2>3, <3>1, <3>2 DEF Reads
    <2> QED
      BY <1>4, <2>2, <2>3
  <1>8. since' \in [C!Contexts -> Nat] /\ since'[x] <= now /\ cmosIndex' \in Registers
    BY <1>1, <1>2 DEF ClockTypes
  <1> QED
    BY <1>1, <1>2, <1>5, <1>6, <1>7, <1>8, ClockGoesOn

LEMMA ClockRead ==
    ASSUME C!CmosAssumption, ClockInv, NEW x \in C!Contexts, C!cmos_read(x)
    PROVE  ClockInv'
  <1> DEFINE e   == cmos[x].k
             v   == C!DataPort
             r   == cmos[x].raw
             s   == Append(r, v)
             new == [cmos[x] EXCEPT !.k = e + 1, !.half = "select", !.raw = s]
  <1>1. /\ cmos' = [cmos EXCEPT ![x].k = e + 1, ![x].half = "select", ![x].raw = s]
        /\ since' = since /\ cmosIndex' = cmosIndex
        /\ mode' = mode /\ now' = now /\ uip' = uip
    BY DEF C!cmos_read
  <1>2. C!Runs(x) /\ e \in 2 .. 7 /\ cmos[x].half = "read"
    BY DEF C!cmos_read, C!Reading
  <1>3. /\ ClockTypes /\ Reads(x) /\ cmos[x] \in ClockCalls
        /\ \A y \in C!Contexts : y # x => cmos[y].k = 0
    BY <1>2, ClockAt
  <1>4. /\ cmosIndex = C!Order[e] /\ cmos[x].time = <<>> /\ cmos[x].ahead = TRUE /\ Len(r) = e - 2
        /\ \A j \in 1 .. e - 2 : \E n \in since[x] .. now : r[j] = C!Register(C!Fields[j], n)
        /\ cmos[x].late = FALSE => \A j \in 1 .. e - 2 : r[j] = C!Register(C!Fields[j], now)
        /\ since[x] >= 1
    BY <1>2, <1>3 DEF Reads
  <1>5. v = C!Register(C!Fields[e - 1], now) /\ v \in 0 .. 255
    <2>1. e - 1 \in 1 .. 6 /\ (e - 1) + 1 = e
      BY <1>2
    <2>2. C!Order[e] = C!Fields[e - 1] /\ C!Fields[e - 1] \in Names
      BY <2>1, OrderFacts
    <2>3. cmosIndex \in Names /\ cmosIndex # "A" /\ cmosIndex # "B"
      BY <1>4, <2>2 DEF Names
    <2>4. v = C!Register(cmosIndex, now)
      BY <2>3 DEF C!DataPort
    <2>5. now \in 1 .. Len(Instants)
      BY <1>3 DEF ClockTypes
    <2>6. C!Register(cmosIndex, now) \in 0 .. 255
      BY <1>3, <2>3, <2>5, RegisterByte
    <2> QED
      BY <1>4, <2>2, <2>4, <2>6
  <1>6. r \in Seq(0 .. 255)
    BY <1>3 DEF ClockCalls
  <1> HIDE DEF v, r
  <1>7. s \in Seq(0 .. 255) /\ Len(s) = e - 1 /\ s[e - 1] = v /\ \A j \in 1 .. e - 2 : s[j] = r[j]
    <2>1. Len(r) \in Nat /\ Len(r) + 1 = e - 1
      BY <1>2, <1>4, <1>6
    <2>a. v \in 0 .. 255
      BY <1>5
    <2>b. s = Append(r, v)
      OBVIOUS
    <2>2. /\ s \in Seq(0 .. 255) /\ Len(s) = Len(r) + 1 /\ s[Len(r) + 1] = v
          /\ \A j \in 1 .. Len(r) : s[j] = r[j]
      <3> HIDE DEF s
      <3> QED
        BY <1>6, <2>a, <2>b, AppendProperties
    <2> HIDE DEF s
    <2> QED
      BY <1>4, <2>1, <2>2
  <1>8. e + 1 \in 0 .. 8
    BY <1>2
  <1> HIDE DEF s
  <1>9. /\ new \in ClockCalls /\ new.k = e + 1 /\ new.half = "select" /\ new.raw = s
        /\ new.time = cmos[x].time /\ new.ahead = cmos[x].ahead /\ new.late = cmos[x].late
    <2> HIDE DEF e
    <2> QED
      BY <1>3, <1>7, <1>8 DEF ClockCalls
  <1>10. cmos' = [cmos EXCEPT ![x] = new] /\ cmos'[x] = new
    BY <1>1, <1>3 DEF ClockTypes
  <1> HIDE DEF new
  <1>11. Reads(x)'
    <2>1. /\ cmos'[x].k = e + 1 /\ cmos'[x].raw = s /\ cmos'[x].time = <<>>
          /\ cmos'[x].ahead = TRUE /\ cmos'[x].half = "select" /\ cmos'[x].late = cmos[x].late
          /\ since'[x] = since[x]
      BY <1>1, <1>4, <1>9, <1>10
    <2>2. cmos'[x].k - 2 = e - 1 /\ cmos'[x].k > 1 /\ ~(cmos'[x].k <= 1) /\ Len(cmos'[x].raw) = e - 1
      BY <1>2, <1>7, <2>1
    <2>3. \A g, n : C!Register(g, n)' = C!Register(g, n)
      BY <1>1 DEF C!Register, C!HourRegister, C!Bcd
    <2>a. now \in since[x] .. now
      <3>1. since[x] \in Nat /\ now \in Nat /\ since[x] <= now
        BY <1>3 DEF ClockTypes
      <3> QED
        BY <3>1
    <2>4. ASSUME NEW j \in 1 .. e - 1 PROVE \E n \in since[x] .. now : s[j] = C!Register(C!Fields[j], n)
      <3>1. CASE j = e - 1
        BY <1>5, <1>7, <2>a, <3>1
      <3>2. CASE j \in 1 .. e - 2
        BY <1>4, <1>7, <3>2
      <3> QED
        BY <1>2, <3>1, <3>2
    <2>5. ASSUME cmos[x].late = FALSE, NEW j \in 1 .. e - 1 PROVE s[j] = C!Register(C!Fields[j], now)
      <3>1. CASE j = e - 1
        BY <1>5, <1>7, <3>1
      <3>2. CASE j \in 1 .. e - 2
        BY <1>4, <1>7, <2>5, <3>2
      <3> QED
        BY <1>2, <3>1, <3>2
    <2>6. \A j \in 1 .. e - 1 : \E n \in since'[x] .. now' : s[j] = C!Register(C!Fields[j], n)'
      BY <1>1, <2>1, <2>3, <2>4, Zenon
    <2>7. cmos[x].late = FALSE => \A j \in 1 .. e - 1 : s[j] = C!Register(C!Fields[j], now)'
      BY <1>1, <2>5 DEF C!Register, C!HourRegister, C!Bcd
    <2>8. cmos'[x].k > 0 /\ ~(cmos'[x].k = 1) /\ since'[x] >= 1
      BY <1>2, <1>4, <2>1
    <2> HIDE DEF e
    <2> QED
      BY <2>1, <2>2, <2>6, <2>7, <2>8 DEF Reads
  <1>12. since' \in [C!Contexts -> Nat] /\ since'[x] <= now /\ cmosIndex' \in Registers
    BY <1>1, <1>3 DEF ClockTypes
  <1> QED
    BY <1>1, <1>3, <1>9, <1>10, <1>11, <1>12, ClockGoesOn

LEMMA ClockReturn ==
    ASSUME C!CmosAssumption, ClockInv, NEW x \in C!Contexts, C!cmos_time(x)
    PROVE  ClockInv'
  <1> DEFINE t   == C!Converted(cmos[x].raw, C!DataPort)
             new == [C!Idle EXCEPT !.time = t, !.late = cmos[x].late]
  <1>1. /\ cmos' = [cmos EXCEPT ![x] = new] /\ since' = since /\ cmosIndex' = cmosIndex
        /\ mode' = mode /\ now' = now /\ uip' = uip
        /\ C!Runs(x) /\ cmos[x].k = 8 /\ cmos[x].half = "read"
    BY DEF C!cmos_time, C!Reading
  <1>2. /\ ClockTypes /\ Reads(x) /\ cmos[x] \in ClockCalls
        /\ \A y \in C!Contexts : y # x => cmos[y].k = 0
    BY <1>1, ClockAt
  <1>3. /\ cmosIndex = "B" /\ since[x] >= 1
        /\ \A j \in 1 .. 6 : \E n \in since[x] .. now : cmos[x].raw[j] = C!Register(C!Fields[j], n)
        /\ cmos[x].late = FALSE => \A j \in 1 .. 6 : cmos[x].raw[j] = C!Register(C!Fields[j], now)
    BY <1>1, <1>2, OrderFacts DEF Reads
  <1>4. /\ t \in [Names -> 0 .. 99]
        /\ \A g \in Names : \E n \in since[x] .. now : C!Shows(t, g, n)
        /\ cmos[x].late = FALSE => \A g \in Names : C!Shows(t, g, now)
    <2>1. C!DataPort = C!StatusB
      BY <1>3 DEF C!DataPort
    <2>2. PICK m : m = since[x]
      OBVIOUS
    <2>3. m \in 1 .. Len(Instants) /\ m <= now
      <3>1. now \in 1 .. Len(Instants) /\ since[x] \in Nat /\ since[x] <= now
        BY <1>2 DEF ClockTypes
      <3>2. Len(Instants) \in Nat
        BY <3>1, InstantFacts
      <3> QED
        BY <1>3, <2>2, <3>1, <3>2
    <2>4. PICK raw : raw = cmos[x].raw
      OBVIOUS
    <2>5. /\ \A j \in 1 .. 6 : \E n \in m .. now : raw[j] = C!Register(C!Fields[j], n)
          /\ cmos[x].late = FALSE => \A j \in 1 .. 6 : raw[j] = C!Register(C!Fields[j], now)
      BY <1>3, <2>2, <2>4
    <2>6. /\ C!Converted(raw, C!StatusB) \in [Names -> 0 .. 99]
          /\ \A g \in Names : \E n \in m .. now : C!Shows(C!Converted(raw, C!StatusB), g, n)
          /\ (\A j \in 1 .. 6 : raw[j] = C!Register(C!Fields[j], now))
               => \A g \in Names : C!Shows(C!Converted(raw, C!StatusB), g, now)
      BY <1>2, <2>3, <2>5, TimeRead
    <2>7. t = C!Converted(raw, C!StatusB)
      BY <2>1, <2>4
    <2> HIDE DEF t
    <2> QED
      BY <2>2, <2>5, <2>6, <2>7
  <1> HIDE DEF t
  <1>5. /\ new \in ClockCalls /\ new.k = 0 /\ new.half = "select" /\ new.raw = <<>> /\ new.time = t
        /\ new.late = cmos[x].late
    <2>0. cmos[x].late \in BOOLEAN
      BY <1>2 DEF ClockCalls
    <2>1. /\ new.k = 0 /\ new.half = "select" /\ new.raw = <<>> /\ new.time = t
          /\ new.late = cmos[x].late
      BY ClockIdle DEF C!Idle
    <2>2. t \in {<<>>} \cup [Names -> 0 .. 99]
      BY <1>4
    <2>3. C!Idle \in ClockCalls
      BY ClockIdle
    <2>4. new \in ClockCalls
      <3> HIDE DEF t
      <3> QED
        BY <2>0, <2>2, <2>3 DEF ClockCalls
    <2> QED
      BY <2>1, <2>4
  <1>6. cmos'[x] = new
    BY <1>1, <1>2 DEF ClockTypes
  <1> HIDE DEF new
  <1>7. since[x] \in Nat /\ since[x] <= now /\ now \in Nat
    BY <1>2 DEF ClockTypes
  <1>8. Reads(x)'
    <2>1. /\ cmos'[x].k = 0 /\ cmos'[x].raw = <<>> /\ cmos'[x].time = t
          /\ cmos'[x].late = cmos[x].late
      BY <1>5, <1>6
    <2>2. now \in since'[x] .. now' /\ since'[x] = since[x] /\ now' = now
      BY <1>1, <1>7
    <2>4. DOMAIN t = Names
      BY <1>4
    <2>5. TimeOf(x)'
      <3>1. PICK u : u = t
        OBVIOUS
      <3>2. /\ \A g \in Names : \E n \in since[x] .. now : C!Shows(u, g, n)
            /\ cmos[x].late = FALSE => \A g \in Names : C!Shows(u, g, now)
        BY <1>4, <3>1
      <3>3. \A g, n : C!Shows(u, g, n)' <=> C!Shows(u, g, n)
        BY <1>1 DEF C!Shows
      <3>4. cmos'[x].time = u /\ DOMAIN u = Names
        BY <2>1, <2>4, <3>1
      <3>5. \A g \in Names : \E n \in since'[x] .. now' : C!Shows(u, g, n)'
        BY <2>2, <3>2, <3>3, Zenon
      <3>6. cmos'[x].late = FALSE => \E n \in since'[x] .. now' : \A g \in Names : C!Shows(u, g, n)'
        BY <2>1, <2>2, <3>2, <3>3, Zenon
      <3> QED
        BY <3>4, <3>5, <3>6, Zenon DEF TimeOf, C!Shows
    <2> QED
      BY <2>1, <2>5 DEF Reads
  <1>9. since' \in [C!Contexts -> Nat] /\ since'[x] <= now /\ cmosIndex' \in Registers
    BY <1>1, <1>2 DEF ClockTypes
  <1> QED
    BY <1>1, <1>2, <1>5, <1>8, <1>9, ClockGoesOn

LEMMA ClockNext == C!CmosAssumption /\ ClockInv /\ [C!Next]_C!vars => ClockInv'
  <1> SUFFICES ASSUME C!CmosAssumption, ClockInv, [C!Next]_C!vars PROVE ClockInv'
    OBVIOUS
  <1>1. CASE UNCHANGED C!vars
    BY <1>1 DEF C!vars, ClockInv, ClockTypes, Reads, TimeOf, C!Register, C!HourRegister, C!Bcd, C!Shows
  <1> QED
    BY <1>1, ClockUpdates, ClockBegin, ClockSelect, ClockWait, ClockRead, ClockReturn DEF C!Next

LEMMA ClockAlone == [DriversNext]_all => [C!Next]_C!vars
  BY DEF DriversNext, all, clock, C!vars

\* A call of cmos_time that is under way has read registers that the clock showed
\* since it began, and those of one second unless it was held up, however the clock
\* is set and whenever its update begins.
THEOREM ClockInvariant == DriversSpec => []ClockInv
  <1>1. DriversInit => ClockInv
    BY ClockInit, DriversAssumption DEF DriversInit
  <1>2. ClockInv /\ [DriversNext]_all => ClockInv'
    BY ClockNext, ClockAlone, DriversAssumption
  <1> QED
    BY <1>1, <1>2, PTL DEF DriversSpec

LEMMA ClockTimeTrue == ClockInv => C!TimeTrue
  <1> SUFFICES ASSUME ClockInv, NEW x \in C!Contexts, cmos[x].time # <<>>
               PROVE  /\ \A g \in DOMAIN cmos[x].time : \E n \in since[x] .. now : C!Shows(cmos[x].time, g, n)
                      /\ cmos[x].late \/ \E n \in since[x] .. now :
                                             \A g \in DOMAIN cmos[x].time : C!Shows(cmos[x].time, g, n)
    BY Zenon DEF C!TimeTrue
  <1>1. TimeOf(x) /\ cmos[x].late \in BOOLEAN
    BY DEF ClockInv, Reads, ClockTypes, ClockCalls
  <1> QED
    BY <1>1, Zenon DEF TimeOf

-----------------------------------------------------------------------------
\* LogTrue, for every calendar and log: each field of the time that cmos_time
\* returns was shown by the clock while it was being read, and all of them together
\* unless an interrupt held it up, but for the hours 12 of a clock of 12 hours; and
\* what arrives over the line is what dprintf was given, but for what serial_init
\* garbled.
THEOREM LogTrueSafe == DriversSpec => []LogTrue
  <1>1. S!SerialAssumption
    BY DriversAssumption
  <1>2. SerialInv /\ ClockInv => LogTrue
    BY <1>1, SerialInOrder, ClockTimeTrue DEF LogTrue
  <1> QED
    BY <1>2, SerialInvariant, ClockInvariant, PTL

-----------------------------------------------------------------------------
(***************************************************************************)
(* The keyboard.                                                           *)
(***************************************************************************)
KeyTypes ==
    /\ initial \in Configurations
    /\ config \in 0 .. 255 /\ data \in 0 .. 255 /\ status \in 0 .. 255
    /\ queue \in Seq(0 .. 255) /\ typed \in Seq(0 .. 255) /\ echo \in Seq(0 .. 255)
    /\ full \in BOOLEAN /\ request \in BOOLEAN /\ (request = TRUE => full = TRUE)
    /\ keyboard \in {"drain", "enable", "ask", "read", "write", "scan", "done"}

\* The bytes in the queue that were not typed: the answer and the acknowledgement.
Others == IF keyboard \in {"drain", "enable", "ask"} THEN 0 ELSE IF keyboard = "done" THEN 2 ELSE 1

QueueShort == Len(typed) <= MaxKeys /\ Len(queue) <= Len(typed) + Others

\* The configuration until keyboard_init writes it.
Configured ==
    /\ keyboard \in {"drain", "enable"} => config = initial
    /\ keyboard \in {"ask", "read", "write"} => config = K!Clear(initial, 4)

KeysInv == KeyTypes /\ QueueShort /\ Configured /\ K!ShownOnce

\* The characters of s come from the keys t, in turn.
Comes(s, t) ==
    \E key \in [K!Characters(s) -> DOMAIN t] :
        /\ \A i \in K!Characters(s) : t[key[i]] = s[i]
        /\ \A i, j \in K!Characters(s) : i < j => key[i] < key[j]

LEMMA ComesFrom ==
    ASSUME NEW s, NEW u, NEW t, Comes(s, t),
           NEW from \in [K!Characters(u) -> K!Characters(s)],
           \A i \in K!Characters(u) : s[from[i]] = u[i],
           \A i, j \in K!Characters(u) : i < j => from[i] < from[j]
    PROVE  Comes(u, t)
  <1>1. PICK key \in [K!Characters(s) -> DOMAIN t] :
            /\ \A i \in K!Characters(s) : t[key[i]] = s[i]
            /\ \A i, j \in K!Characters(s) : i < j => key[i] < key[j]
    BY DEF Comes
  <1> DEFINE by == [i \in K!Characters(u) |-> key[from[i]]]
  <1>2. by \in [K!Characters(u) -> DOMAIN t]
    BY <1>1
  <1>3. \A i \in K!Characters(u) : t[by[i]] = u[i]
    BY <1>1
  <1>4. ASSUME NEW i \in K!Characters(u), NEW j \in K!Characters(u), i < j PROVE by[i] < by[j]
    <2>1. from[i] \in K!Characters(s) /\ from[j] \in K!Characters(s) /\ from[i] < from[j]
      BY <1>4
    <2> QED
      BY <1>1, <2>1
  <1> HIDE DEF by
  <1> QED
    BY <1>2, <1>3, <1>4 DEF Comes

\* A byte is taken away.
LEMMA ComesWithout ==
    ASSUME NEW s \in Seq(0 .. 255), NEW u \in Seq(0 .. 255), NEW t, Comes(s, t), NEW p \in 1 .. Len(s),
           Len(u) = Len(s) - 1, \A i \in 1 .. p - 1 : u[i] = s[i], \A i \in p .. Len(u) : u[i] = s[i + 1]
    PROVE  Comes(u, t)
  <1> DEFINE from == [i \in K!Characters(u) |-> IF i < p THEN i ELSE i + 1]
  <1>1. DOMAIN u = 1 .. Len(u) /\ DOMAIN s = 1 .. Len(s) /\ Len(u) \in Nat /\ Len(s) \in Nat
    OBVIOUS
  <1>2. ASSUME NEW i \in K!Characters(u)
        PROVE  from[i] \in K!Characters(s) /\ s[from[i]] = u[i] /\ i \in Int
    <2>1. i \in 1 .. Len(u) /\ u[i] \in Mapped
      BY <1>1 DEF K!Characters
    <2>2. CASE i < p
      <3>0. i \in 1 .. Len(s) /\ i \in 1 .. p - 1
        BY <1>1, <2>1, <2>2
      <3>1. from[i] = i /\ s[i] = u[i] /\ i \in 1 .. Len(s)
        BY <2>2, <3>0
      <3> QED
        BY <1>1, <2>1, <3>1 DEF K!Characters
    <2>3. CASE ~(i < p)
      <3>1. from[i] = i + 1 /\ s[i + 1] = u[i] /\ i + 1 \in 1 .. Len(s)
        BY <1>1, <2>1, <2>3
      <3> QED
        BY <1>1, <2>1, <3>1 DEF K!Characters
    <2> QED
      BY <2>2, <2>3
  <1>3. ASSUME NEW i \in K!Characters(u), NEW j \in K!Characters(u), i < j PROVE from[i] < from[j]
    BY <1>2, <1>3
  <1>4. from \in [K!Characters(u) -> K!Characters(s)]
    BY <1>2
  <1> HIDE DEF from
  <1> QED
    BY <1>2, <1>3, <1>4, ComesFrom

\* A byte that stands for no character is put in.
LEMMA ComesWith ==
    ASSUME NEW s \in Seq(0 .. 255), NEW u \in Seq(0 .. 255), NEW t, Comes(s, t), NEW p \in 1 .. Len(u),
           Len(u) = Len(s) + 1, u[p] \notin Mapped,
           \A i \in 1 .. p - 1 : u[i] = s[i], \A i \in p + 1 .. Len(u) : u[i] = s[i - 1]
    PROVE  Comes(u, t)
  <1> DEFINE from == [i \in K!Characters(u) |-> IF i < p THEN i ELSE i - 1]
  <1>1. DOMAIN u = 1 .. Len(u) /\ DOMAIN s = 1 .. Len(s) /\ Len(u) \in Nat /\ Len(s) \in Nat
    OBVIOUS
  <1>2. ASSUME NEW i \in K!Characters(u)
        PROVE  from[i] \in K!Characters(s) /\ s[from[i]] = u[i] /\ i \in Int /\ i # p
    <2>1. i \in 1 .. Len(u) /\ u[i] \in Mapped /\ i # p
      BY <1>1 DEF K!Characters
    <2>2. CASE i < p
      <3>0. i \in 1 .. Len(s) /\ i \in 1 .. p - 1
        BY <1>1, <2>1, <2>2
      <3>1. from[i] = i /\ s[i] = u[i] /\ i \in 1 .. Len(s)
        BY <2>2, <3>0
      <3> QED
        BY <1>1, <2>1, <3>1 DEF K!Characters
    <2>3. CASE ~(i < p)
      <3>1. from[i] = i - 1 /\ s[i - 1] = u[i] /\ i - 1 \in 1 .. Len(s)
        BY <1>1, <2>1, <2>3
      <3> QED
        BY <1>1, <2>1, <3>1 DEF K!Characters
    <2> QED
      BY <2>1, <2>2, <2>3
  <1>3. ASSUME NEW i \in K!Characters(u), NEW j \in K!Characters(u), i < j PROVE from[i] < from[j]
    BY <1>2, <1>3
  <1>4. from \in [K!Characters(u) -> K!Characters(s)]
    BY <1>2
  <1> HIDE DEF from
  <1>5. \A i \in K!Characters(u) : s[from[i]] = u[i]
    BY <1>2
  <1>6. \A i, j \in K!Characters(u) : i < j => from[i] < from[j]
    BY <1>3
  <1> QED
    BY <1>4, <1>5, <1>6, ComesFrom

\* A key is pressed.
LEMMA ComesNext ==
    ASSUME NEW X, NEW s \in Seq(0 .. 255), NEW u \in Seq(0 .. 255), NEW t \in Seq(X), NEW k \in X,
           Comes(s, t), Len(u) = Len(s) + 1, u[Len(u)] = k, \A i \in 1 .. Len(s) : u[i] = s[i]
    PROVE  Comes(u, Append(t, k))
  <1>1. PICK key \in [K!Characters(s) -> DOMAIN t] :
            /\ \A i \in K!Characters(s) : t[key[i]] = s[i]
            /\ \A i, j \in K!Characters(s) : i < j => key[i] < key[j]
    BY DEF Comes
  <1> DEFINE v  == Append(t, k)
             by == [i \in K!Characters(u) |-> IF i = Len(u) THEN Len(t) + 1 ELSE key[i]]
  <1>2. DOMAIN u = 1 .. Len(u) /\ DOMAIN s = 1 .. Len(s) /\ Len(u) \in Nat /\ Len(s) \in Nat
    OBVIOUS
  <1>3. /\ DOMAIN t = 1 .. Len(t) /\ Len(t) \in Nat
        /\ DOMAIN v = 1 .. Len(t) + 1 /\ v[Len(t) + 1] = k /\ \A i \in 1 .. Len(t) : v[i] = t[i]
    OBVIOUS
  <1> HIDE DEF v
  <1>4. ASSUME NEW i \in K!Characters(u)
        PROVE  /\ by[i] \in DOMAIN v /\ v[by[i]] = u[i] /\ i \in 1 .. Len(u)
               /\ i # Len(u) => i \in K!Characters(s) /\ by[i] = key[i] /\ key[i] \in 1 .. Len(t)
    <2>1. i \in 1 .. Len(u) /\ u[i] \in Mapped
      BY <1>2 DEF K!Characters
    <2>2. CASE i = Len(u)
      <3>1. by[i] = Len(t) + 1
        BY <2>2
      <3> QED
        BY <1>3, <2>1, <2>2, <3>1
    <2>3. CASE i # Len(u)
      <3>1. i \in 1 .. Len(s)
        BY <1>2, <2>1, <2>3
      <3>2. i \in K!Characters(s)
        BY <1>2, <2>1, <3>1 DEF K!Characters
      <3>3. by[i] = key[i] /\ key[i] \in 1 .. Len(t) /\ t[key[i]] = u[i]
        BY <1>1, <1>3, <2>3, <3>1, <3>2
      <3> QED
        BY <1>3, <2>1, <3>2, <3>3
    <2> QED
      BY <2>2, <2>3
  <1>5. ASSUME NEW i \in K!Characters(u), NEW j \in K!Characters(u), i < j PROVE by[i] < by[j]
    <2>1. i \in 1 .. Len(u) /\ j \in 1 .. Len(u) /\ i # Len(u)
      BY <1>2, <1>4, <1>5
    <2>2. i \in K!Characters(s) /\ by[i] = key[i] /\ key[i] \in 1 .. Len(t)
      BY <1>4, <2>1
    <2>3. CASE j = Len(u)
      <3>1. by[j] = Len(t) + 1
        BY <2>3
      <3> QED
        BY <1>3, <2>2, <3>1
    <2>4. CASE j # Len(u)
      <3>1. j \in K!Characters(s) /\ by[j] = key[j]
        BY <1>4, <2>4
      <3> QED
        BY <1>1, <1>5, <2>2, <3>1
    <2> QED
      BY <2>3, <2>4
  <1>6. by \in [K!Characters(u) -> DOMAIN v]
    BY <1>4
  <1> HIDE DEF by
  <1>7. Comes(u, v)
    BY <1>4, <1>5, <1>6 DEF Comes
  <1> QED
    BY <1>7 DEF v

\* What is shown, in the buffer, and in the queue, place by place.
LEMMA CourseFacts ==
    ASSUME NEW a \in Seq(0 .. 255), NEW m \in Seq(0 .. 255), NEW q \in Seq(0 .. 255)
    PROVE  /\ a \o m \o q \in Seq(0 .. 255) /\ Len(a \o m \o q) = Len(a) + Len(m) + Len(q)
           /\ Len(a) \in Nat /\ Len(m) \in Nat /\ Len(q) \in Nat
           /\ \A i \in 1 .. Len(a) : (a \o m \o q)[i] = a[i]
           /\ \A i \in 1 .. Len(m) : (a \o m \o q)[Len(a) + i] = m[i]
           /\ \A i \in 1 .. Len(q) : (a \o m \o q)[Len(a) + Len(m) + i] = q[i]
  <1> DEFINE c == a \o m
             e == Len(a)
             h == Len(m)
             n == Len(q)
             r == c \o q
  <1>1. e \in Nat /\ h \in Nat /\ n \in Nat
    OBVIOUS
  <1>2. /\ c \in Seq(0 .. 255) /\ Len(c) = e + h
        /\ \A i \in 1 .. e + h : c[i] = IF i <= e THEN a[i] ELSE m[i - e]
    BY ConcatProperties
  <1> HIDE DEF c
  <1>3. /\ r \in Seq(0 .. 255) /\ Len(r) = e + h + n
        /\ \A i \in 1 .. e + h + n : r[i] = IF i <= e + h THEN c[i] ELSE q[i - (e + h)]
    <2>0. c \in Seq(0 .. 255)
      BY <1>2
    <2>1. /\ r \in Seq(0 .. 255) /\ Len(r) = Len(c) + n
          /\ \A i \in 1 .. Len(c) + n : r[i] = IF i <= Len(c) THEN c[i] ELSE q[i - Len(c)]
      BY <2>0, ConcatProperties
    <2> QED
      BY <1>2, <2>1
  <1> HIDE DEF r, e, h, n
  <1>4. ASSUME NEW i \in 1 .. e PROVE r[i] = a[i]
    <2>1. i \in 1 .. e + h /\ i \in 1 .. e + h + n /\ i <= e + h /\ i <= e
      BY <1>1
    <2> QED
      BY <1>2, <1>3, <2>1
  <1>5. ASSUME NEW i \in 1 .. h PROVE r[e + i] = m[i]
    <2> DEFINE j == e + i
    <2>1. j \in 1 .. e + h /\ j \in 1 .. e + h + n /\ j <= e + h /\ ~(j <= e) /\ j - e = i
      BY <1>1
    <2> HIDE DEF j
    <2>2. r[j] = m[i]
      BY <1>2, <1>3, <2>1
    <2> QED
      BY <2>2 DEF j
  <1>6. ASSUME NEW i \in 1 .. n PROVE r[e + h + i] = q[i]
    <2> DEFINE j == e + h + i
    <2>1. j \in 1 .. e + h + n /\ ~(j <= e + h) /\ j - (e + h) = i
      BY <1>1
    <2> HIDE DEF j
    <2>2. r[j] = q[i]
      BY <1>3, <2>1
    <2> QED
      BY <2>2 DEF j
  <1> QED
    BY <1>1, <1>3, <1>4, <1>5, <1>6 DEF r, c, e, h, n

\* r is made of a, then w times y, then q.
Made(r, a, w, y, q) ==
    /\ r \in Seq(0 .. 255) /\ Len(r) = Len(a) + w + Len(q)
    /\ \A i \in 1 .. Len(a) + w + Len(q) :
            r[i] = IF i <= Len(a) THEN a[i] ELSE IF i <= Len(a) + w THEN y ELSE q[i - (Len(a) + w)]

LEMMA Coursed ==
    ASSUME NEW a \in Seq(0 .. 255), NEW m \in Seq(0 .. 255), NEW q \in Seq(0 .. 255),
           NEW y, Len(m) <= 1, Len(m) = 1 => m[1] = y
    PROVE  Made(a \o m \o q, a, Len(m), y, q)
  <1> DEFINE r == a \o m \o q
             e == Len(a)
             w == Len(m)
             n == Len(q)
  <1>a. w \in Nat
    OBVIOUS
  <1>b. w <= 1
    OBVIOUS
  <1>c. w = 1 => m[1] = y
    OBVIOUS
  <1>1. m \in Seq(0 .. 255) /\ (w = 1 => m[1] = y) /\ w \in 0 .. 1
    <2> HIDE DEF w
    <2> QED
      BY <1>a, <1>b, <1>c
  <1>2. /\ r \in Seq(0 .. 255) /\ Len(r) = e + w + n
        /\ e \in Nat /\ w \in Nat /\ n \in Nat
        /\ \A i \in 1 .. e : r[i] = a[i]
        /\ \A i \in 1 .. w : r[e + i] = m[i]
        /\ \A i \in 1 .. n : r[e + w + i] = q[i]
    BY CourseFacts
  <1> HIDE DEF r, e, n, w
  <1>3. ASSUME NEW i \in 1 .. e + w + n
        PROVE  r[i] = IF i <= e THEN a[i] ELSE IF i <= e + w THEN y ELSE q[i - (e + w)]
    <2>1. CASE i <= e
      BY <1>2, <2>1
    <2>2. CASE ~(i <= e) /\ i <= e + w
      <3>1. i = e + 1 /\ w = 1 /\ 1 \in 1 .. w
        BY <1>1, <1>2, <2>2
      <3> QED
        BY <1>1, <1>2, <2>2, <3>1
    <2>3. CASE ~(i <= e + w)
      <3> DEFINE j == i - (e + w)
      <3>1. j \in 1 .. n /\ i = e + w + j /\ ~(i <= e)
        BY <1>1, <1>2, <2>3
      <3> HIDE DEF j
      <3>2. r[e + w + j] = q[j]
        BY <1>1, <1>2, <3>1
      <3>3. r[i] = q[j]
        BY <3>1, <3>2
      <3> QED
        BY <2>3, <3>1, <3>3 DEF j
    <2> QED
      BY <1>1, <1>2, <2>1, <2>2, <2>3
  <1> QED
    BY <1>1, <1>2, <1>3 DEF Made, r, e, n, w

LEMMA ComesSame ==
    ASSUME NEW s \in Seq(0 .. 255), NEW u \in Seq(0 .. 255), NEW t, Comes(s, t), Len(u) = Len(s),
           \A i \in 1 .. Len(s) : u[i] = s[i]
    PROVE  Comes(u, t)
  <1>1. u = s
    OBVIOUS
  <1> QED
    BY <1>1

-----------------------------------------------------------------------------
LEMMA BitFacts ==
    ASSUME NEW y \in 0 .. 255
    PROVE  /\ K!Bit(y, 0) <=> y % 2 = 1
           /\ K!Bit(y, 1) <=> (y \div 2) % 2 = 1
           /\ K!Bit(y, 2) <=> (y \div 4) % 2 = 1
           /\ K!Bit(y, 3) <=> (y \div 8) % 2 = 1
           /\ K!Bit(y, 4) <=> (y \div 16) % 2 = 1
           /\ K!Bit(y, 5) <=> (y \div 32) % 2 = 1
           /\ K!Bit(y, 6) <=> (y \div 64) % 2 = 1
           /\ K!Bit(y, 7) <=> (y \div 128) % 2 = 1
  <1>1. 2^0 = 1 /\ 2^1 = 2 /\ 2^2 = 4 /\ 2^3 = 8 /\ 2^4 = 16 /\ 2^5 = 32 /\ 2^6 = 64 /\ 2^7 = 128
    OBVIOUS
  <1>2. y \div 1 = y
    OBVIOUS
  <1> QED
    BY <1>1, <1>2 DEF K!Bit

\* A bit that is cleared or set leaves the others.
LEMMA ClearFacts ==
    ASSUME NEW y \in 0 .. 255
    PROVE  LET z == K!Clear(y, 4)
           IN  /\ z \in 0 .. 255 /\ ~K!Bit(z, 4)
               /\ \A n \in {0, 1, 2, 3, 5, 6, 7} : K!Bit(z, n) <=> K!Bit(y, n)
  <1> DEFINE z == K!Clear(y, 4)
  <1>1. z = IF (y \div 16) % 2 = 1 THEN y - 16 ELSE y
    <2>1. 2^4 = 16
      OBVIOUS
    <2> QED
      BY <2>1, BitFacts DEF K!Clear
  <1> HIDE DEF z
  <1>2. z \in 0 .. 255
    <2>1. (y \div 16) % 2 = 1 => y >= 16
      BY Z3
    <2> QED
      BY <1>1, <2>1
  <1>3. (z \div 16) % 2 = 0
    BY <1>1, Z3
  <1>4. z % 2 = y % 2 /\ (z \div 2) % 2 = (y \div 2) % 2 /\ (z \div 4) % 2 = (y \div 4) % 2
        /\ (z \div 8) % 2 = (y \div 8) % 2
    BY <1>1, Z3
  <1>5. z \div 32 = y \div 32 /\ z \div 64 = y \div 64 /\ z \div 128 = y \div 128
    BY <1>1, Z3
  <1>p. 2^0 = 1 /\ 2^1 = 2 /\ 2^2 = 4 /\ 2^3 = 8 /\ 2^4 = 16 /\ 2^5 = 32 /\ 2^6 = 64 /\ 2^7 = 128
    OBVIOUS
  <1>0. y \div 1 = y /\ z \div 1 = z
    BY <1>2
  <1>6. K!Bit(z, 0) <=> K!Bit(y, 0)
    BY <1>4, <1>0, <1>p DEF K!Bit
  <1>7. K!Bit(z, 1) <=> K!Bit(y, 1)
    BY <1>4, <1>p DEF K!Bit
  <1>8. K!Bit(z, 2) <=> K!Bit(y, 2)
    BY <1>4, <1>p DEF K!Bit
  <1>9. K!Bit(z, 3) <=> K!Bit(y, 3)
    BY <1>4, <1>p DEF K!Bit
  <1>10. K!Bit(z, 5) <=> K!Bit(y, 5)
    BY <1>5, <1>p DEF K!Bit
  <1>11. K!Bit(z, 6) <=> K!Bit(y, 6)
    BY <1>5, <1>p DEF K!Bit
  <1>12. K!Bit(z, 7) <=> K!Bit(y, 7)
    BY <1>5, <1>p DEF K!Bit
  <1>13. ~K!Bit(z, 4)
    BY <1>3, <1>p DEF K!Bit
  <1> QED
    BY <1>2, <1>6, <1>7, <1>8, <1>9, <1>10, <1>11, <1>12, <1>13 DEF z

LEMMA SetFacts ==
    ASSUME NEW y \in 0 .. 255
    PROVE  LET z == K!Set(y, 0)
           IN  /\ z \in 0 .. 255 /\ K!Bit(z, 0)
               /\ \A n \in {1, 2, 3, 4, 5, 6, 7} : K!Bit(z, n) <=> K!Bit(y, n)
  <1> DEFINE z == K!Set(y, 0)
  <1>1. z = IF y % 2 = 1 THEN y ELSE y + 1
    <2>1. 2^0 = 1
      OBVIOUS
    <2> QED
      BY <2>1, BitFacts DEF K!Set
  <1> HIDE DEF z
  <1>2. z \in 0 .. 255
    BY <1>1, Z3
  <1>3. z % 2 = 1
    BY <1>1, Z3
  <1>4. z \div 2 = y \div 2 /\ z \div 4 = y \div 4 /\ z \div 8 = y \div 8 /\ z \div 16 = y \div 16
    BY <1>1, Z3
  <1>5. z \div 32 = y \div 32 /\ z \div 64 = y \div 64 /\ z \div 128 = y \div 128
    BY <1>1, Z3
  <1>p. 2^0 = 1 /\ 2^1 = 2 /\ 2^2 = 4 /\ 2^3 = 8 /\ 2^4 = 16 /\ 2^5 = 32 /\ 2^6 = 64 /\ 2^7 = 128
    OBVIOUS
  <1>0. y \div 1 = y /\ z \div 1 = z
    BY <1>2
  <1>6. K!Bit(z, 1) <=> K!Bit(y, 1)
    BY <1>4, <1>p DEF K!Bit
  <1>7. K!Bit(z, 2) <=> K!Bit(y, 2)
    BY <1>4, <1>p DEF K!Bit
  <1>8. K!Bit(z, 3) <=> K!Bit(y, 3)
    BY <1>4, <1>p DEF K!Bit
  <1>9. K!Bit(z, 4) <=> K!Bit(y, 4)
    BY <1>4, <1>p DEF K!Bit
  <1>10. K!Bit(z, 5) <=> K!Bit(y, 5)
    BY <1>5, <1>p DEF K!Bit
  <1>11. K!Bit(z, 6) <=> K!Bit(y, 6)
    BY <1>5, <1>p DEF K!Bit
  <1>12. K!Bit(z, 7) <=> K!Bit(y, 7)
    BY <1>5, <1>p DEF K!Bit
  <1>13. K!Bit(z, 0)
    BY <1>3, <1>0, <1>p DEF K!Bit
  <1> QED
    BY <1>2, <1>6, <1>7, <1>8, <1>9, <1>10, <1>11, <1>12, <1>13 DEF z

LEMMA WantedFacts ==
    ASSUME NEW y \in 0 .. 255
    PROVE  /\ K!Wanted(y) \in 0 .. 255 /\ K!Bit(K!Wanted(y), 0) /\ ~K!Bit(K!Wanted(y), 4)
           /\ \A n \in {1, 2, 3, 5, 6, 7} : K!Bit(K!Wanted(y), n) <=> K!Bit(y, n)
  <1> DEFINE z == K!Set(y, 0)
  <1>1. z \in 0 .. 255 /\ K!Bit(z, 0) /\ \A n \in {1, 2, 3, 4, 5, 6, 7} : K!Bit(z, n) <=> K!Bit(y, n)
    BY SetFacts
  <1>2. K!Wanted(y) = K!Clear(z, 4)
    BY DEF K!Wanted
  <1> HIDE DEF z
  <1>3. /\ K!Clear(z, 4) \in 0 .. 255 /\ ~K!Bit(K!Clear(z, 4), 4)
        /\ \A n \in {0, 1, 2, 3, 5, 6, 7} : K!Bit(K!Clear(z, 4), n) <=> K!Bit(z, n)
    BY <1>1, ClearFacts, Zenon
  <1> QED
    BY <1>1, <1>2, <1>3

\* Neither the answer of the controller nor an acknowledgement is taken for a
\* character.
LEMMA NoCharacter ==
    ASSUME K!KeyboardAssumption, initial \in Configurations
    PROVE  /\ initial \in 0 .. 255 /\ K!Clear(initial, 4) \in 0 .. 255
           /\ K!Bit(initial, 6) /\ K!Bit(K!Clear(initial, 4), 6)
           /\ K!Clear(initial, 4) \notin Mapped /\ K!ACK \notin Mapped /\ K!ACK \in 0 .. 255
  <1>1. initial \in 0 .. 255 /\ K!Bit(initial, 6) /\ Mapped \subseteq 0 .. 63
    BY DEF K!KeyboardAssumption
  <1> DEFINE z == K!Clear(initial, 4)
  <1>2. z \in 0 .. 255 /\ K!Bit(z, 6)
    <2>1. K!Bit(z, 6) <=> K!Bit(initial, 6)
      BY <1>1, ClearFacts
    <2>2. z \in 0 .. 255
      BY <1>1, ClearFacts, ZenonT(60)
    <2> QED
      BY <1>1, <2>1, <2>2
  <1> HIDE DEF z
  <1>3. (z \div 64) % 2 = 1
    BY <1>2, BitFacts
  <1>4. z \notin 0 .. 63
    BY <1>2, <1>3, Z3
  <1> QED
    BY <1>1, <1>2, <1>4 DEF K!ACK, z

-----------------------------------------------------------------------------
LEMMA KeysTyped ==
    ASSUME K!KeyboardAssumption, KeysInv, K!Next
    PROVE  KeyTypes' /\ QueueShort' /\ Configured'
  <1> USE DEF K!Step, K!Taken
  <1>0. KeyTypes /\ QueueShort /\ Configured
    BY DEF KeysInv
  <1>a. /\ initial \in Configurations
        /\ config \in 0 .. 255 /\ data \in 0 .. 255 /\ status \in 0 .. 255
        /\ queue \in Seq(0 .. 255) /\ typed \in Seq(0 .. 255) /\ echo \in Seq(0 .. 255)
        /\ full \in BOOLEAN /\ request \in BOOLEAN /\ (request = TRUE => full = TRUE)
        /\ keyboard \in {"drain", "enable", "ask", "read", "write", "scan", "done"}
        /\ Len(queue) \in Nat /\ Len(typed) \in Nat /\ MaxKeys \in Nat
    BY <1>0 DEF KeyTypes, K!KeyboardAssumption
  <1>1. CASE \E key \in Mapped \cup Unmapped : K!Press(key)
    <2>1. PICK key \in Mapped \cup Unmapped : K!Press(key)
      BY <1>1
    <2>2. key \in 0 .. 255
      BY <2>1 DEF K!KeyboardAssumption
    <2>3. /\ typed' = Append(typed, key) /\ queue' = Append(queue, key) /\ Len(typed) < MaxKeys
          /\ initial' = initial /\ config' = config /\ full' = full /\ data' = data /\ request' = request
          /\ keyboard' = keyboard /\ status' = status /\ echo' = echo
      BY <2>1 DEF K!Press
    <2>4. /\ typed' \in Seq(0 .. 255) /\ queue' \in Seq(0 .. 255)
          /\ Len(typed') = Len(typed) + 1 /\ Len(queue') = Len(queue) + 1
      BY <1>a, <2>2, <2>3
    <2>5. KeyTypes'
      BY <1>0, <2>3, <2>4 DEF KeyTypes
    <2>6. QueueShort'
      BY <1>0, <1>a, <2>3, <2>4 DEF QueueShort, Others
    <2>7. Configured'
      BY <1>0, <2>3 DEF Configured, K!Clear, K!Bit
    <2> QED
      BY <2>5, <2>6, <2>7
  <1>2. CASE K!Transfer
    <2>1. /\ queue # <<>> /\ full' = TRUE /\ data' \in K!Arriving(Head(queue)) /\ request' = K!Bit(config, 0)
          /\ queue' = Tail(queue) /\ initial' = initial /\ config' = config /\ keyboard' = keyboard
          /\ status' = status /\ typed' = typed /\ echo' = echo
      BY <1>2 DEF K!Transfer, K!Put
    <2>2. Head(queue) \in 0 .. 255 /\ Tail(queue) \in Seq(0 .. 255) /\ Len(Tail(queue)) = Len(queue) - 1
      BY <1>a, <2>1, HeadTailProperties
    <2>3. request' \in BOOLEAN /\ data' \in 0 .. 255
      <3>1. request' \in BOOLEAN
        BY <2>1 DEF K!Bit
      <3>2. Mapped \subseteq 0 .. 255 /\ Unmapped \subseteq 0 .. 255
        BY DEF K!KeyboardAssumption
      <3>3. data' \in {Head(queue)} \cup Mapped \cup Unmapped
        BY <2>1 DEF K!Arriving
      <3> QED
        BY <2>2, <3>1, <3>2, <3>3
    <2>4. KeyTypes'
      BY <1>0, <2>1, <2>2, <2>3 DEF KeyTypes
    <2>5. QueueShort'
      BY <1>0, <1>a, <2>1, <2>2 DEF QueueShort, Others
    <2>6. Configured'
      BY <1>0, <2>1 DEF Configured, K!Clear, K!Bit
    <2> QED
      BY <2>4, <2>5, <2>6
  <1>3. CASE K!handle_irq
    <2>1. /\ request = TRUE /\ request' = FALSE /\ full' = FALSE /\ echo' = echo \o K!get_char(data)
          /\ initial' = initial /\ config' = config /\ queue' = queue /\ data' = data
          /\ keyboard' = keyboard /\ status' = status /\ typed' = typed
      BY <1>3, <1>a DEF K!handle_irq
    <2>2. K!get_char(data) \in Seq(0 .. 255)
      <3>1. <<data>> \in Seq(0 .. 255)
        BY <1>a
      <3>2. <<>> \in Seq(0 .. 255)
        OBVIOUS
      <3>3. K!get_char(data) = <<data>> \/ K!get_char(data) = <<>>
        BY DEF K!get_char
      <3> QED
        BY <3>1, <3>2, <3>3
    <2>3. echo' \in Seq(0 .. 255)
      BY <1>a, <2>1, <2>2, ConcatProperties
    <2>4. KeyTypes'
      BY <1>0, <2>1, <2>3 DEF KeyTypes
    <2>5. QueueShort'
      BY <1>0, <1>a, <2>1 DEF QueueShort, Others
    <2>6. Configured'
      BY <1>0, <2>1 DEF Configured, K!Clear, K!Bit
    <2> QED
      BY <2>4, <2>5, <2>6
  <1>4. CASE K!Drain
    <2>1. /\ initial' = initial /\ config' = config /\ queue' = queue /\ data' = data
          /\ request' = request /\ request = FALSE /\ status' = status /\ typed' = typed /\ echo' = echo
          /\ keyboard = "drain" /\ full' = FALSE /\ keyboard' \in {"drain", "enable"}
      BY <1>4, <1>a DEF K!Drain
    <2>4. KeyTypes'
      BY <1>0, <2>1 DEF KeyTypes
    <2>5. QueueShort'
      BY <1>0, <1>a, <2>1 DEF QueueShort, Others
    <2>6. Configured'
      BY <1>0, <2>1 DEF Configured
    <2> QED
      BY <2>4, <2>5, <2>6
  <1>5. CASE K!Enable
    <2>1. /\ keyboard = "enable" /\ keyboard' = "ask" /\ config' = K!Clear(config, 4)
          /\ initial' = initial /\ queue' = queue /\ full' = full /\ data' = data
          /\ request' = request /\ status' = status /\ typed' = typed /\ echo' = echo
      BY <1>5 DEF K!Enable
    <2>2. config' \in 0 .. 255
      BY <1>a, <2>1, ClearFacts
    <2>4. KeyTypes'
      BY <1>0, <2>1, <2>2 DEF KeyTypes
    <2>5. QueueShort'
      BY <1>0, <1>a, <2>1 DEF QueueShort, Others
    <2>6. Configured'
      BY <1>0, <2>1 DEF Configured, K!Clear, K!Bit
    <2> QED
      BY <2>4, <2>5, <2>6
  <1>6. CASE K!Ask
    <2>1. /\ keyboard = "ask" /\ keyboard' = "read"
          /\ initial' = initial /\ config' = config /\ status' = status /\ typed' = typed /\ echo' = echo
      BY <1>6 DEF K!Ask
    <2>2. queue' = <<config>> \o queue /\ full' = full /\ data' = data /\ request' = request
      BY <1>6 DEF K!Ask
    <2>3. <<config>> \in Seq(0 .. 255) /\ Len(<<config>>) = 1
      BY <1>a
    <2>4. queue' \in Seq(0 .. 255) /\ Len(queue') = 1 + Len(queue)
      BY <1>a, <2>2, <2>3, ConcatProperties
    <2>5. KeyTypes'
      BY <1>0, <2>1, <2>2, <2>4 DEF KeyTypes
    <2>6. QueueShort'
      BY <1>0, <1>a, <2>1, <2>4 DEF QueueShort, Others
    <2>7. Configured'
      BY <1>0, <2>1 DEF Configured, K!Clear, K!Bit
    <2> QED
      BY <2>5, <2>6, <2>7
  <1>7. CASE K!Read
    <2>1. /\ keyboard = "read" /\ keyboard' = "write" /\ request = FALSE
          /\ status' = K!Wanted(data) /\ full' = FALSE
          /\ initial' = initial /\ config' = config /\ queue' = queue /\ data' = data
          /\ request' = request /\ typed' = typed /\ echo' = echo
      BY <1>7, <1>a DEF K!Read
    <2>2. status' \in 0 .. 255
      BY <1>a, <2>1, WantedFacts
    <2>4. KeyTypes'
      BY <1>0, <2>1, <2>2 DEF KeyTypes
    <2>5. QueueShort'
      BY <1>0, <1>a, <2>1 DEF QueueShort, Others
    <2>6. Configured'
      BY <1>0, <2>1 DEF Configured, K!Clear, K!Bit
    <2> QED
      BY <2>4, <2>5, <2>6
  <1>8. CASE K!Write
    <2>1. /\ keyboard = "write" /\ keyboard' = "scan" /\ config' = status
          /\ request' = (full /\ K!Bit(status, 0))
          /\ initial' = initial /\ queue' = queue /\ full' = full /\ data' = data
          /\ status' = status /\ typed' = typed /\ echo' = echo
      BY <1>8 DEF K!Write
    <2>2. request' \in BOOLEAN /\ (request' = TRUE => full = TRUE)
      BY <1>a, <2>1 DEF K!Bit
    <2>4. KeyTypes'
      BY <1>0, <2>1, <2>2 DEF KeyTypes
    <2>5. QueueShort'
      BY <1>0, <1>a, <2>1 DEF QueueShort, Others
    <2>6. Configured'
      BY <1>0, <2>1 DEF Configured
    <2> QED
      BY <2>4, <2>5, <2>6
  <1>9. CASE K!Scan
    <2>1. /\ keyboard = "scan" /\ keyboard' = "done" /\ queue' = Append(queue, K!ACK)
          /\ initial' = initial /\ config' = config /\ full' = full /\ data' = data
          /\ request' = request /\ status' = status /\ typed' = typed /\ echo' = echo
      BY <1>9 DEF K!Scan
    <2>2. queue' \in Seq(0 .. 255) /\ Len(queue') = Len(queue) + 1
      BY <1>a, <2>1 DEF K!ACK
    <2>4. KeyTypes'
      BY <1>0, <2>1, <2>2 DEF KeyTypes
    <2>5. QueueShort'
      BY <1>0, <1>a, <2>1, <2>2 DEF QueueShort, Others
    <2>6. Configured'
      BY <1>0, <2>1 DEF Configured
    <2> QED
      BY <2>4, <2>5, <2>6
  <1> QED
    BY <1>1, <1>2, <1>3, <1>4, <1>5, <1>6, <1>7, <1>8, <1>9 DEF K!Next

-----------------------------------------------------------------------------
\* The buffer takes the next byte.
LEMMA ComesMoved ==
    ASSUME NEW s, NEW u, NEW t, Comes(s, t),
           NEW a \in Seq(0 .. 255), NEW x, NEW q \in Seq(0 .. 255), q # <<>>,
           Made(s, a, 0, x, q), Made(u, a, 1, Head(q), Tail(q))
    PROVE  Comes(u, t)
  <1> DEFINE e == Len(a)
             n == Len(q)
             o == Tail(q)
             y == Head(q)
  <1>1. /\ e \in Nat /\ n \in Nat /\ n >= 1 /\ y = q[1] /\ Len(o) = n - 1
        /\ \A i \in 1 .. n - 1 : o[i] = q[i + 1]
    BY HeadTailProperties
  <1>2. /\ s \in Seq(0 .. 255) /\ Len(s) = e + 0 + n
        /\ \A i \in 1 .. e + 0 + n :
                s[i] = IF i <= e THEN a[i] ELSE IF i <= e + 0 THEN x ELSE q[i - (e + 0)]
    BY DEF Made
  <1>3. /\ u \in Seq(0 .. 255) /\ Len(u) = e + 1 + Len(o)
        /\ \A i \in 1 .. e + 1 + Len(o) :
                u[i] = IF i <= e THEN a[i] ELSE IF i <= e + 1 THEN y ELSE o[i - (e + 1)]
    BY DEF Made
  <1> HIDE DEF e, n, o, y
  <1>4. ASSUME NEW i \in 1 .. e + n PROVE u[i] = s[i]
    <2>0. i \in 1 .. e + 0 + n /\ i \in 1 .. e + 1 + Len(o) /\ i \in Int
      BY <1>1
    <2>1. CASE i <= e
      BY <1>2, <1>3, <2>0, <2>1
    <2>2. CASE i = e + 1
      <3>1. ~(i <= e) /\ ~(i <= e + 0) /\ i <= e + 1 /\ i - (e + 0) = 1
        BY <1>1, <2>2
      <3>2. s[i] = q[i - (e + 0)] /\ u[i] = y
        BY <1>2, <1>3, <2>0, <3>1
      <3> QED
        BY <1>1, <3>1, <3>2
    <2>3. CASE i > e + 1
      <3> DEFINE j == i - (e + 1)
      <3>1. ~(i <= e) /\ ~(i <= e + 0) /\ ~(i <= e + 1) /\ i - (e + 0) = j + 1 /\ j \in 1 .. n - 1
        BY <1>1, <2>0, <2>3
      <3>2. s[i] = q[i - (e + 0)] /\ u[i] = o[j]
        BY <1>2, <1>3, <2>0, <3>1
      <3> HIDE DEF j
      <3>3. o[j] = q[j + 1]
        BY <1>1, <3>1
      <3> QED
        BY <3>1, <3>2, <3>3
    <2> QED
      BY <1>1, <2>0, <2>1, <2>2, <2>3
  <1>5. Len(s) = e + n /\ Len(u) = e + n
    BY <1>1, <1>2, <1>3
  <1> QED
    BY <1>2, <1>3, <1>4, <1>5, ComesSame

\* What is in the buffer is shown.
LEMMA ComesShown ==
    ASSUME NEW s, NEW u, NEW t, Comes(s, t),
           NEW a \in Seq(0 .. 255), NEW y \in 0 .. 255, NEW q \in Seq(0 .. 255), NEW x,
           Made(s, a, 1, y, q), Made(u, a \o <<y>>, 0, x, q)
    PROVE  Comes(u, t)
  <1> DEFINE e == Len(a)
             n == Len(q)
             c == a \o <<y>>
  <1>1. e \in Nat /\ n \in Nat
    OBVIOUS
  <1>a. <<y>> \in Seq(0 .. 255) /\ Len(<<y>>) = 1 /\ <<y>>[1] = y
    OBVIOUS
  <1>b. /\ Len(c) = e + 1
        /\ \A i \in 1 .. e + 1 : c[i] = IF i <= e THEN a[i] ELSE <<y>>[i - e]
    BY <1>a, ConcatProperties
  <1>2. /\ s \in Seq(0 .. 255) /\ Len(s) = e + 1 + n
        /\ \A i \in 1 .. e + 1 + n :
                s[i] = IF i <= e THEN a[i] ELSE IF i <= e + 1 THEN y ELSE q[i - (e + 1)]
    BY DEF Made
  <1>3. /\ u \in Seq(0 .. 255) /\ Len(u) = Len(c) + 0 + n
        /\ \A i \in 1 .. Len(c) + 0 + n :
                u[i] = IF i <= Len(c) THEN c[i] ELSE IF i <= Len(c) + 0 THEN x ELSE q[i - (Len(c) + 0)]
    BY DEF Made
  <1> HIDE DEF e, n, c
  <1>4. ASSUME NEW i \in 1 .. e + 1 + n PROVE u[i] = s[i]
    <2>0. i \in Int /\ i \in 1 .. Len(c) + 0 + n
      BY <1>1, <1>b
    <2>1. CASE i <= e
      <3>1. i <= Len(c) /\ i \in 1 .. e + 1
        BY <1>1, <1>b, <2>0, <2>1
      <3>2. u[i] = c[i] /\ c[i] = a[i] /\ s[i] = a[i]
        BY <1>2, <1>3, <1>b, <2>0, <2>1, <3>1
      <3> QED
        BY <3>2
    <2>2. CASE i = e + 1
      <3>1. i <= Len(c) /\ i \in 1 .. e + 1 /\ ~(i <= e) /\ i <= e + 1 /\ i - e = 1
        BY <1>1, <1>b, <2>0, <2>2
      <3>2. u[i] = c[i] /\ c[i] = <<y>>[i - e] /\ s[i] = y
        BY <1>2, <1>3, <1>b, <2>0, <3>1
      <3> QED
        BY <1>a, <3>1, <3>2
    <2>3. CASE i > e + 1
      <3>1. ~(i <= Len(c)) /\ ~(i <= Len(c) + 0) /\ ~(i <= e) /\ ~(i <= e + 1) /\ Len(c) + 0 = e + 1
        BY <1>1, <1>b, <2>0, <2>3
      <3>2. u[i] = q[i - (Len(c) + 0)] /\ s[i] = q[i - (e + 1)]
        BY <1>2, <1>3, <2>0, <3>1
      <3> QED
        BY <3>1, <3>2
    <2> QED
      BY <1>1, <2>0, <2>1, <2>2, <2>3
  <1>5. Len(s) = e + 1 + n /\ Len(u) = e + 1 + n
    BY <1>1, <1>b, <1>2, <1>3
  <1> QED
    BY <1>2, <1>3, <1>4, <1>5, ComesSame

\* What is in the buffer is dropped.
LEMMA ComesDropped ==
    ASSUME NEW s, NEW u, NEW t, Comes(s, t),
           NEW a \in Seq(0 .. 255), NEW y, NEW q \in Seq(0 .. 255), NEW x,
           Made(s, a, 1, y, q), Made(u, a, 0, x, q)
    PROVE  Comes(u, t)
  <1> DEFINE e == Len(a)
             n == Len(q)
             g == e + 1
  <1>1. e \in Nat /\ n \in Nat
    OBVIOUS
  <1>2. /\ s \in Seq(0 .. 255) /\ Len(s) = e + 1 + n
        /\ \A i \in 1 .. e + 1 + n :
                s[i] = IF i <= e THEN a[i] ELSE IF i <= e + 1 THEN y ELSE q[i - (e + 1)]
    BY DEF Made
  <1>3. /\ u \in Seq(0 .. 255) /\ Len(u) = e + 0 + n
        /\ \A i \in 1 .. e + 0 + n :
                u[i] = IF i <= e THEN a[i] ELSE IF i <= e + 0 THEN x ELSE q[i - (e + 0)]
    BY DEF Made
  <1> HIDE DEF e, n
  <1>4. ASSUME NEW i \in 1 .. g - 1 PROVE u[i] = s[i]
    <2>1. i \in 1 .. e + 0 + n /\ i \in 1 .. e + 1 + n /\ i <= e
      BY <1>1
    <2> QED
      BY <1>2, <1>3, <2>1
  <1>5. ASSUME NEW i \in g .. Len(u) PROVE u[i] = s[i + 1]
    <2> DEFINE j == i + 1
    <2>1. /\ i \in 1 .. e + 0 + n /\ ~(i <= e) /\ ~(i <= e + 0)
          /\ j \in 1 .. e + 1 + n /\ ~(j <= e) /\ ~(j <= e + 1) /\ j - (e + 1) = i - (e + 0)
      BY <1>1, <1>3, <1>5
    <2> HIDE DEF j
    <2>2. u[i] = q[i - (e + 0)] /\ s[j] = q[j - (e + 1)]
      BY <1>2, <1>3, <2>1
    <2>3. u[i] = s[j]
      BY <2>1, <2>2
    <2> QED
      BY <2>3 DEF j
  <1>6. g \in 1 .. Len(s) /\ Len(u) = Len(s) - 1
    BY <1>1, <1>2, <1>3
  <1> HIDE DEF g
  <1> QED
    BY <1>2, <1>3, <1>4, <1>5, <1>6, ComesWithout

\* A byte that is no character comes in front of the queue, ...
LEMMA ComesFirst ==
    ASSUME NEW s, NEW u, NEW t, Comes(s, t),
           NEW a \in Seq(0 .. 255), NEW w \in 0 .. 1, NEW y, NEW q \in Seq(0 .. 255),
           NEW z \in 0 .. 255, z \notin Mapped,
           Made(s, a, w, y, q), Made(u, a, w, y, <<z>> \o q)
    PROVE  Comes(u, t)
  <1> DEFINE e == Len(a)
             n == Len(q)
             c == <<z>> \o q
             g == e + w + 1
  <1>1. e \in Nat /\ n \in Nat
    OBVIOUS
  <1>a. <<z>> \in Seq(0 .. 255) /\ Len(<<z>>) = 1 /\ <<z>>[1] = z
    OBVIOUS
  <1>b. /\ Len(c) = 1 + n
        /\ \A i \in 1 .. 1 + n : c[i] = IF i <= 1 THEN <<z>>[i] ELSE q[i - 1]
    BY <1>a, ConcatProperties
  <1>2. /\ s \in Seq(0 .. 255) /\ Len(s) = e + w + n
        /\ \A i \in 1 .. e + w + n :
                s[i] = IF i <= e THEN a[i] ELSE IF i <= e + w THEN y ELSE q[i - (e + w)]
    BY DEF Made
  <1>3. /\ u \in Seq(0 .. 255) /\ Len(u) = e + w + Len(c)
        /\ \A i \in 1 .. e + w + Len(c) :
                u[i] = IF i <= e THEN a[i] ELSE IF i <= e + w THEN y ELSE c[i - (e + w)]
    BY DEF Made
  <1> HIDE DEF e, n, c
  <1>4. ASSUME NEW i \in 1 .. g - 1 PROVE u[i] = s[i]
    <2>1. i \in 1 .. e + w + n /\ i \in 1 .. e + w + Len(c) /\ i <= e + w
      BY <1>1, <1>b
    <2> QED
      BY <1>2, <1>3, <2>1
  <1>5. ASSUME NEW i \in g + 1 .. Len(u) PROVE u[i] = s[i - 1]
    <2> DEFINE j == i - 1
               k == i - (e + w)
    <2>1. /\ j \in 1 .. e + w + n /\ ~(j <= e) /\ ~(j <= e + w) /\ j - (e + w) = k - 1
          /\ i \in 1 .. e + w + Len(c) /\ ~(i <= e) /\ ~(i <= e + w) /\ k \in 1 .. 1 + n /\ ~(k <= 1)
      BY <1>1, <1>b, <1>3, <1>5
    <2>2. u[i] = c[k]
      BY <1>3, <2>1
    <2> HIDE DEF j, k
    <2>3. c[k] = q[k - 1] /\ s[j] = q[j - (e + w)]
      BY <1>b, <1>2, <2>1
    <2>4. u[i] = s[j]
      BY <2>1, <2>2, <2>3
    <2> QED
      BY <2>4 DEF j
  <1>6. /\ g \in 1 .. Len(u) /\ Len(u) = Len(s) + 1 /\ ~(g <= e) /\ ~(g <= e + w) /\ g - (e + w) = 1
        /\ g \in 1 .. e + w + Len(c) /\ 1 \in 1 .. 1 + n
    BY <1>1, <1>b, <1>2, <1>3
  <1> HIDE DEF g
  <1>7. u[g] = c[1] /\ c[1] = z
    <2>1. u[g] = c[g - (e + w)]
      BY <1>3, <1>6
    <2>2. c[1] = z
      BY <1>a, <1>b, <1>6
    <2> QED
      BY <1>6, <2>1, <2>2
  <1> QED
    BY <1>2, <1>3, <1>4, <1>5, <1>6, <1>7, ComesWith

\* ... and behind it; and a key is pressed.
LEMMA ComesLast ==
    ASSUME NEW s, NEW u, NEW t \in Seq(0 .. 255), Comes(s, t),
           NEW a \in Seq(0 .. 255), NEW w \in 0 .. 1, NEW y, NEW q \in Seq(0 .. 255), NEW z \in 0 .. 255,
           Made(s, a, w, y, q), Made(u, a, w, y, Append(q, z))
    PROVE  Comes(u, Append(t, z)) /\ (z \notin Mapped => Comes(u, t))
  <1> DEFINE e == Len(a)
             n == Len(q)
             c == Append(q, z)
             g == e + w + n + 1
  <1>1. e \in Nat /\ n \in Nat
    OBVIOUS
  <1>b. Len(c) = n + 1 /\ (\A i \in 1 .. n : c[i] = q[i]) /\ c[n + 1] = z
    BY AppendProperties
  <1>2. /\ s \in Seq(0 .. 255) /\ Len(s) = e + w + n
        /\ \A i \in 1 .. e + w + n :
                s[i] = IF i <= e THEN a[i] ELSE IF i <= e + w THEN y ELSE q[i - (e + w)]
    BY DEF Made
  <1>3. /\ u \in Seq(0 .. 255) /\ Len(u) = e + w + Len(c)
        /\ \A i \in 1 .. e + w + Len(c) :
                u[i] = IF i <= e THEN a[i] ELSE IF i <= e + w THEN y ELSE c[i - (e + w)]
    BY DEF Made
  <1> HIDE DEF e, n, c
  <1>4. ASSUME NEW i \in 1 .. e + w + n PROVE u[i] = s[i]
    <2>0. i \in 1 .. e + w + Len(c) /\ i \in Int
      BY <1>1, <1>b
    <2>1. CASE i <= e + w
      BY <1>1, <1>2, <1>3, <2>0, <2>1
    <2>2. CASE ~(i <= e + w)
      <3> DEFINE j == i - (e + w)
      <3>1. j \in 1 .. n /\ ~(i <= e)
        BY <1>1, <2>0, <2>2
      <3>2. u[i] = c[j] /\ s[i] = q[j]
        BY <1>2, <1>3, <2>0, <2>2, <3>1
      <3> HIDE DEF j
      <3> QED
        BY <1>b, <3>1, <3>2
    <2> QED
      BY <2>1, <2>2
  <1>5. /\ g \in 1 .. Len(u) /\ Len(u) = Len(s) + 1 /\ ~(g <= e) /\ ~(g <= e + w) /\ g - (e + w) = n + 1
        /\ g \in 1 .. e + w + Len(c) /\ g - 1 = e + w + n /\ g = Len(u) /\ Len(s) = e + w + n
    BY <1>1, <1>b, <1>2, <1>3
  <1> HIDE DEF g
  <1>6. u[g] = z
    <2>1. u[g] = c[g - (e + w)]
      BY <1>3, <1>5
    <2> QED
      BY <1>b, <1>5, <2>1
  <1>7. Comes(u, Append(t, z))
    <2>1. \A i \in 1 .. Len(s) : u[i] = s[i]
      BY <1>4, <1>5
    <2>2. u[Len(u)] = z
      BY <1>5, <1>6
    <2>3. s \in Seq(0 .. 255) /\ u \in Seq(0 .. 255) /\ Len(u) = Len(s) + 1
      BY <1>2, <1>3, <1>5
    <2> QED
      BY <2>1, <2>2, <2>3, ComesNext, ZenonT(60)
  <1>8. ASSUME z \notin Mapped PROVE Comes(u, t)
    <2>1. \A i \in 1 .. g - 1 : u[i] = s[i]
      BY <1>4, <1>5
    <2>2. \A i \in g + 1 .. Len(u) : u[i] = s[i - 1]
      BY <1>1, <1>5
    <2>3. u[g] \notin Mapped
      BY <1>6, <1>8
    <2> QED
      BY <1>2, <1>3, <1>5, <2>1, <2>2, <2>3, ComesWith
  <1> QED
    BY <1>7, <1>8 DEF c

-----------------------------------------------------------------------------
\* The course of the bytes in a state.
LEMMA CourseMade ==
    ASSUME NEW a \in Seq(0 .. 255), NEW g \in BOOLEAN, NEW y \in 0 .. 255, NEW q \in Seq(0 .. 255)
    PROVE  /\ g = TRUE => Made(a \o (IF g THEN <<y>> ELSE <<>>) \o q, a, 1, y, q)
           /\ g = FALSE => Made(a \o (IF g THEN <<y>> ELSE <<>>) \o q, a, 0, y, q)
  <1>1. CASE g = TRUE
    <2>1. <<y>> \in Seq(0 .. 255) /\ Len(<<y>>) = 1 /\ <<y>>[1] = y /\ 1 \in 0 .. 1
      OBVIOUS
    <2>2. Made(a \o <<y>> \o q, a, 1, y, q)
      <3> DEFINE m == <<y>>
      <3>1. m \in Seq(0 .. 255) /\ Len(m) = 1 /\ Len(m) <= 1 /\ (Len(m) = 1 => m[1] = y)
        BY <2>1
      <3> HIDE DEF m
      <3>2. Made(a \o m \o q, a, Len(m), y, q)
        BY <3>1, Coursed, ZenonT(60)
      <3>3. Made(a \o m \o q, a, 1, y, q)
        BY <3>1, <3>2
      <3> QED
        BY <3>3 DEF m
    <2>3. (IF g THEN <<y>> ELSE <<>>) = <<y>>
      BY <1>1
    <2> QED
      BY <1>1, <2>2, <2>3
  <1>2. CASE g = FALSE
    <2>1. <<>> \in Seq(0 .. 255) /\ Len(<<>>) = 0 /\ 0 \in 0 .. 1 /\ 0 # 1
      OBVIOUS
    <2>2. Made(a \o <<>> \o q, a, 0, y, q)
      <3> DEFINE m == <<>>
      <3>1. m \in Seq(0 .. 255) /\ Len(m) = 0 /\ Len(m) <= 1 /\ (Len(m) = 1 => m[1] = y)
        BY <2>1
      <3> HIDE DEF m
      <3>2. Made(a \o m \o q, a, Len(m), y, q)
        BY <3>1, Coursed, ZenonT(60)
      <3>3. Made(a \o m \o q, a, 0, y, q)
        BY <3>1, <3>2
      <3> QED
        BY <3>3 DEF m
    <2>3. (IF g THEN <<y>> ELSE <<>>) = <<>>
      BY <1>2
    <2> QED
      BY <1>2, <2>2, <2>3
  <1> QED
    BY <1>1, <1>2

\* Scan codes that are translated were translated before.
LEMMA KeysTranslated ==
    ASSUME K!KeyboardAssumption, KeysInv, K!Next, K!Bit(config', 6)
    PROVE  K!Bit(config, 6)
  <1>1. KeyTypes /\ Configured
    BY DEF KeysInv
  <1>2. K!Bit(initial, 6) /\ K!Bit(K!Clear(initial, 4), 6)
    BY <1>1, NoCharacter DEF KeyTypes
  <1>3. CASE keyboard \in {"drain", "enable"}
    BY <1>1, <1>2, <1>3 DEF Configured
  <1>4. CASE keyboard \in {"ask", "read", "write"}
    BY <1>1, <1>2, <1>4 DEF Configured
  <1>5. CASE keyboard \in {"scan", "done"}
    <2>1. config' = config
      BY <1>5
      DEF K!Next, K!Press, K!Transfer, K!handle_irq, K!Drain, K!Enable, K!Ask, K!Read, K!Write, K!Scan, K!Step
    <2> QED
      BY <2>1
  <1> QED
    BY <1>1, <1>3, <1>4, <1>5 DEF KeyTypes

LEMMA KeysShown ==
    ASSUME K!KeyboardAssumption, KeysInv, KeyTypes', K!Next, K!Bit(config', 6)
    PROVE  K!ShownOnce'
  <1> USE DEF K!Step, K!Taken
  <1> DEFINE s == K!Course
             u == K!Course'
  <1>1. /\ config \in 0 .. 255 /\ data \in 0 .. 255
        /\ queue \in Seq(0 .. 255) /\ typed \in Seq(0 .. 255) /\ echo \in Seq(0 .. 255)
        /\ full \in BOOLEAN /\ request \in BOOLEAN /\ (request = TRUE => full = TRUE)
    BY DEF KeysInv, KeyTypes
  <1>2. /\ data' \in 0 .. 255 /\ queue' \in Seq(0 .. 255) /\ echo' \in Seq(0 .. 255) /\ full' \in BOOLEAN
    BY DEF KeyTypes
  <1>3. /\ full = TRUE => Made(s, echo, 1, data, queue)
        /\ full = FALSE => Made(s, echo, 0, data, queue)
    BY <1>1, CourseMade DEF K!Course
  <1>4. /\ full' = TRUE => Made(u, echo', 1, data', queue')
        /\ full' = FALSE => Made(u, echo', 0, data', queue')
    BY <1>2, CourseMade DEF K!Course
  <1>0. K!Bit(config, 6)
    BY KeysTranslated
  <1>5. Comes(s, typed)
    BY <1>0 DEF KeysInv, K!ShownOnce, Comes
  <1>6. SUFFICES Comes(u, typed')
    BY DEF K!ShownOnce, Comes, K!Characters
  <1>7. ASSUME u = s, typed' = typed PROVE Comes(u, typed')
    BY <1>5, <1>7
  <1>8. ASSUME UNCHANGED <<echo, full, data, queue>> PROVE u = s
    BY <1>8 DEF K!Course
  <1>9. K!ACK \notin Mapped /\ K!ACK \in 0 .. 255
    BY NoCharacter DEF KeysInv, KeyTypes
  <1> HIDE DEF s, u
  <1>11. CASE \E key \in Mapped \cup Unmapped : K!Press(key)
    <2>1. PICK key \in Mapped \cup Unmapped : K!Press(key)
      BY <1>11
    <2>2. key \in 0 .. 255
      BY <2>1 DEF K!KeyboardAssumption
    <2>3. /\ typed' = Append(typed, key) /\ queue' = Append(queue, key)
          /\ full' = full /\ data' = data /\ echo' = echo
      BY <2>1 DEF K!Press
    <2>4. CASE full = TRUE
      <3>1. Made(s, echo, 1, data, queue) /\ Made(u, echo, 1, data, Append(queue, key)) /\ 1 \in 0 .. 1
        BY <1>3, <1>4, <2>3, <2>4
      <3>2. Comes(u, Append(typed, key))
        BY <1>1, <1>5, <2>2, <3>1, ComesLast, ZenonT(60)
      <3> QED
        BY <2>3, <3>2, Zenon
    <2>5. CASE full = FALSE
      <3>1. Made(s, echo, 0, data, queue) /\ Made(u, echo, 0, data, Append(queue, key)) /\ 0 \in 0 .. 1
        BY <1>3, <1>4, <2>3, <2>5
      <3>2. Comes(u, Append(typed, key))
        BY <1>1, <1>5, <2>2, <3>1, ComesLast, ZenonT(60)
      <3> QED
        BY <2>3, <3>2, Zenon
    <2> QED
      BY <1>1, <2>4, <2>5
  <1>12. CASE K!Transfer
    <2>1. /\ queue # <<>> /\ full = FALSE /\ full' = TRUE /\ data' = Head(queue)
          /\ queue' = Tail(queue) /\ typed' = typed /\ echo' = echo
      BY <1>0, <1>1, <1>12 DEF K!Transfer, K!Put, K!Arriving
    <2>2. Made(s, echo, 0, data, queue) /\ Made(u, echo, 1, Head(queue), Tail(queue))
      BY <1>3, <1>4, <2>1
    <2> QED
      BY <1>1, <1>5, <2>1, <2>2, ComesMoved, ZenonT(60)
  <1>13. CASE K!handle_irq
    <2>1. /\ full = TRUE /\ full' = FALSE /\ echo' = echo \o K!get_char(data)
          /\ queue' = queue /\ data' = data /\ typed' = typed
      BY <1>1, <1>13 DEF K!handle_irq
    <2>2. Made(s, echo, 1, data, queue) /\ Made(u, echo', 0, data, queue)
      BY <1>3, <1>4, <2>1
    <2>3. CASE data \in Mapped
      <3>1. echo' = echo \o <<data>>
        BY <2>1, <2>3 DEF K!get_char
      <3>2. Made(u, echo \o <<data>>, 0, data, queue)
        BY <2>2, <3>1, Zenon
      <3>3. Comes(u, typed)
        BY <1>1, <1>5, <2>2, <3>2, ComesShown, ZenonT(60)
      <3> QED
        BY <2>1, <3>3, Zenon
    <2>4. CASE data \notin Mapped
      <3>1. echo' = echo
        <4>1. echo' = echo \o <<>>
          BY <2>1, <2>4 DEF K!get_char
        <4> QED
          BY <1>1, <4>1, ConcatEmptySeq
      <3> QED
        BY <1>1, <1>5, <2>1, <2>2, <3>1, ComesDropped, ZenonT(60)
    <2> QED
      BY <2>3, <2>4
  <1>14. CASE K!Drain \/ K!Read
    <2>1. full' = FALSE /\ queue' = queue /\ data' = data /\ typed' = typed /\ echo' = echo
      BY <1>1, <1>14 DEF K!Drain, K!Read
    <2>2. CASE full = FALSE
      BY <1>7, <1>8, <2>1, <2>2
    <2>3. CASE full = TRUE
      <3>1. Made(s, echo, 1, data, queue) /\ Made(u, echo, 0, data, queue)
        BY <1>3, <1>4, <2>1, <2>3
      <3> QED
        BY <1>1, <1>5, <2>1, <3>1, ComesDropped, ZenonT(60)
    <2> QED
      BY <1>1, <2>2, <2>3
  <1>15. CASE K!Enable \/ K!Write
    <2>1. UNCHANGED <<echo, full, data, queue>> /\ typed' = typed
      BY <1>15 DEF K!Enable, K!Write
    <2> QED
      BY <1>7, <1>8, <2>1
  <1>16. CASE K!Ask
    <2>1. typed' = typed /\ echo' = echo /\ config \notin Mapped
      <3>1. config = K!Clear(initial, 4)
        BY <1>16 DEF K!Ask, KeysInv, Configured
      <3>2. K!Clear(initial, 4) \notin Mapped
        BY NoCharacter DEF KeysInv, KeyTypes
      <3> QED
        BY <1>16, <3>1, <3>2 DEF K!Ask
    <2>2. queue' = <<config>> \o queue /\ full' = full /\ data' = data
      BY <1>16 DEF K!Ask
    <2>3. CASE full = TRUE
      <3>1. Made(s, echo, 1, data, queue) /\ Made(u, echo, 1, data, <<config>> \o queue) /\ 1 \in 0 .. 1
        BY <1>3, <1>4, <2>1, <2>2, <2>3
      <3> QED
        BY <1>1, <1>5, <2>1, <3>1, ComesFirst, ZenonT(60)
    <2>4. CASE full = FALSE
      <3>1. Made(s, echo, 0, data, queue) /\ Made(u, echo, 0, data, <<config>> \o queue) /\ 0 \in 0 .. 1
        BY <1>3, <1>4, <2>1, <2>2, <2>4
      <3> QED
        BY <1>1, <1>5, <2>1, <3>1, ComesFirst, ZenonT(60)
    <2> QED
      BY <1>1, <2>3, <2>4
  <1>17. CASE K!Scan
    <2>1. queue' = Append(queue, K!ACK) /\ full' = full /\ data' = data /\ typed' = typed /\ echo' = echo
      BY <1>17 DEF K!Scan
    <2>4. CASE full = TRUE
      <3>1. Made(s, echo, 1, data, queue) /\ Made(u, echo, 1, data, Append(queue, K!ACK)) /\ 1 \in 0 .. 1
        BY <1>3, <1>4, <2>1, <2>4
      <3>2. Comes(u, typed)
        BY <1>1, <1>5, <1>9, <3>1, ComesLast, ZenonT(60)
      <3> QED
        BY <2>1, <3>2, Zenon
    <2>5. CASE full = FALSE
      <3>1. Made(s, echo, 0, data, queue) /\ Made(u, echo, 0, data, Append(queue, K!ACK)) /\ 0 \in 0 .. 1
        BY <1>3, <1>4, <2>1, <2>5
      <3>2. Comes(u, typed)
        BY <1>1, <1>5, <1>9, <3>1, ComesLast, ZenonT(60)
      <3> QED
        BY <2>1, <3>2, Zenon
    <2> QED
      BY <1>1, <2>4, <2>5
  <1> QED
    BY <1>11, <1>12, <1>13, <1>14, <1>15, <1>16, <1>17 DEF K!Next

LEMMA KeysInit ==
    ASSUME K!KeyboardAssumption, K!Init
    PROVE  KeysInv
  <1>1. /\ initial \in Configurations /\ config = initial /\ queue = <<>> /\ full \in BOOLEAN
        /\ data = K!ACK /\ request = FALSE /\ keyboard = "drain" /\ status = 0
        /\ typed = <<>> /\ echo = <<>>
    BY DEF K!Init
  <1>2. initial \in 0 .. 255 /\ K!ACK \in 0 .. 255 /\ K!ACK \notin Mapped
    BY <1>1, NoCharacter
  <1>3. <<>> \in Seq(0 .. 255) /\ Len(<<>>) = 0
    OBVIOUS
  <1>4. KeyTypes
    <2>1. config \in 0 .. 255 /\ data \in 0 .. 255 /\ status \in 0 .. 255
      BY <1>1, <1>2
    <2>2. queue \in Seq(0 .. 255) /\ typed \in Seq(0 .. 255) /\ echo \in Seq(0 .. 255)
      BY <1>1, <1>3
    <2>3. request \in BOOLEAN /\ (request = TRUE => full = TRUE)
      BY <1>1
    <2> QED
      BY <1>1, <2>1, <2>2, <2>3 DEF KeyTypes
  <1>5. QueueShort
    BY <1>1, <1>3 DEF QueueShort, Others, K!KeyboardAssumption
  <1>6. Configured
    BY <1>1 DEF Configured
  <1>7. K!Characters(K!Course) = {}
    <2> DEFINE s == K!Course
               w == IF full = TRUE THEN 1 ELSE 0
    <2>1. /\ full = TRUE => Made(s, echo, 1, data, queue)
          /\ full = FALSE => Made(s, echo, 0, data, queue)
      BY <1>1, <1>2, <1>3, CourseMade DEF K!Course
    <2> HIDE DEF s
    <2>2. \A i \in DOMAIN s : s[i] = K!ACK
      <3>1. CASE full = TRUE
        <4>1. s \in Seq(0 .. 255) /\ Len(s) = 1 /\ s[1] = data
          BY <1>1, <1>3, <2>1, <3>1 DEF Made
        <4> QED
          BY <1>1, <4>1
      <3>2. CASE full = FALSE
        <4>1. s \in Seq(0 .. 255) /\ Len(s) = 0
          BY <1>1, <1>3, <2>1, <3>2 DEF Made
        <4> QED
          BY <4>1
      <3> QED
        BY <1>1, <3>1, <3>2
    <2>3. K!Characters(s) = {}
      BY <1>2, <2>2 DEF K!Characters
    <2> QED
      BY <2>3 DEF s
  <1>8. K!ShownOnce
    <2> DEFINE none == [i \in {} |-> 0]
    <2>1. none \in [{} -> DOMAIN typed]
      OBVIOUS
    <2> QED
      BY <1>7, <2>1 DEF K!ShownOnce
  <1> QED
    BY <1>4, <1>5, <1>6, <1>8 DEF KeysInv

LEMMA KeysAlone ==
    ASSUME KeysInv, UNCHANGED keys
    PROVE  KeysInv'
  <1>1. /\ initial' = initial /\ config' = config /\ queue' = queue /\ full' = full /\ data' = data
        /\ request' = request /\ keyboard' = keyboard /\ status' = status /\ typed' = typed /\ echo' = echo
    BY DEF keys
  <1>2. KeyTypes'
    BY <1>1 DEF KeysInv, KeyTypes
  <1>3. QueueShort'
    BY <1>1 DEF KeysInv, QueueShort, Others
  <1>4. Configured'
    BY <1>1 DEF KeysInv, Configured, K!Clear, K!Bit
  <1>6. K!ShownOnce'
    <2> SUFFICES ASSUME K!Bit(config', 6) PROVE K!ShownOnce'
      BY DEF K!ShownOnce
    <2>0. K!Bit(config, 6)
      BY <1>1
    <2>1. K!Course' = K!Course
      BY <1>1 DEF K!Course
    <2>2. Comes(K!Course, typed)
      BY <2>0 DEF KeysInv, K!ShownOnce, Comes
    <2>3. Comes(K!Course', typed')
      BY <1>1, <2>1, <2>2
    <2> QED
      BY <2>3 DEF K!ShownOnce, Comes, K!Characters
  <1> QED
    BY <1>2, <1>3, <1>4, <1>6 DEF KeysInv

\* KeysInv is an inductive invariant of the drivers: it is what keyboard_init,
\* its handler and the controller keep between their steps.
THEOREM KeysInvariant == DriversSpec => []KeysInv
  <1>1. K!KeyboardAssumption
    BY DriversAssumption
  <1>2. DriversInit => KeysInv
    BY <1>1, KeysInit DEF DriversInit
  <1>3. ASSUME KeysInv, [DriversNext]_all PROVE KeysInv'
    <2>1. CASE K!Next
      <3>1. KeyTypes' /\ QueueShort' /\ Configured'
        BY <1>1, <1>3, <2>1, KeysTyped
      <3>2. K!ShownOnce'
        <4>1. CASE K!Bit(config', 6)
          BY <1>1, <1>3, <2>1, <3>1, <4>1, KeysShown
        <4>2. CASE ~K!Bit(config', 6)
          BY <4>2 DEF K!ShownOnce
        <4> QED
          BY <4>1, <4>2
      <3> QED
        BY <3>1, <3>2 DEF KeysInv
    <2>2. CASE UNCHANGED keys
      BY <1>3, <2>2, KeysAlone
    <2>3. K!Next \/ UNCHANGED keys
      BY <1>3 DEF DriversNext, all
    <2> QED
      BY <2>1, <2>2, <2>3
  <1> QED
    BY <1>2, <1>3, PTL DEF DriversSpec

\* No key is shown twice or out of turn (KeysTrue), whichever of keyboard_init and
\* its handler takes it from the controller, and whenever the controller answers,
\* as long as it translates scan codes.
THEOREM KeysTrueSafe == DriversSpec => []KeysTrue
  <1>1. KeysInv => KeysTrue
    BY DEF KeysInv, KeysTrue
  <1> QED
    BY <1>1, KeysInvariant, PTL

-----------------------------------------------------------------------------
(***************************************************************************)
(* The types of all drivers together.                                      *)
(***************************************************************************)
LEMMA PciAlone == DriversSpec => []PciInv
  <1>1. DriversInit => PciInv
    BY PciInvInit DEF DriversInit
  <1>2. [DriversNext]_all => [Next]_vars
    BY DEF DriversNext, all
  <1> QED
    BY <1>1, <1>2, PciInvNext, PTL DEF DriversSpec

LEMMA ScreenTyped ==
    ScreenInv => IF driver = "nested" THEN N!TypeOK ELSE D!TypeOK
  BY QuietSame, NestedSame, Quiet!DInvTypeOK, Nested!DInvTypeOK DEF ScreenInv

LEMMA ClockTyped ==
    ASSUME ClockInv
    PROVE  C!TypeOK
  <1>1. /\ mode \in Modes /\ now \in 1 .. Len(Instants) /\ uip \in BOOLEAN /\ cmosIndex \in Registers
        /\ cmos \in [C!Contexts -> ClockCalls]
    BY DEF ClockInv, ClockTypes
  <1>2. DOMAIN Instants = 1 .. Len(Instants)
    BY DriversAssumption DEF C!CmosAssumption
  <1>3. \E k \in DOMAIN C!Order : cmosIndex = C!Order[k]
    <2>1. /\ C!Order[1 + 1] = "second" /\ C!Order[2 + 1] = "minute" /\ C!Order[3 + 1] = "hour"
          /\ C!Order[4 + 1] = "day" /\ C!Order[5 + 1] = "month" /\ C!Order[6 + 1] = "year"
      BY OrderFacts, FieldFacts
    <2>2. \A h \in Registers : \E k \in 1 .. 8 : h = C!Order[k]
      BY <2>1, OrderFacts DEF Registers, Names
    <2> QED
      BY <1>1, <2>2, OrderFacts
  <1>4. ASSUME NEW x \in C!Contexts
        PROVE  /\ cmos[x].k \in 0 .. Len(C!Order) /\ cmos[x].raw \in Seq(0 .. 255)
               /\ cmos[x].time # <<>> => \A h \in DOMAIN cmos[x].time : cmos[x].time[h] \in 0 .. 99
    <2>1. cmos[x] \in ClockCalls
      BY <1>1
    <2> QED
      BY <2>1, OrderFacts DEF ClockCalls
  <1> QED
    BY <1>1, <1>2, <1>3, <1>4 DEF C!TypeOK

LEMMA SerialTyped ==
    ASSUME SerialInv
    PROVE  S!TypeOK
  <1>1. SerialTypes
    BY DEF SerialInv
  <1>2. Len(holding) \in 0 .. 1 /\ Len(shift) \in 0 .. 1
    <2> DEFINE h == Len(holding)
               m == Len(shift)
    <2>1. h \in Nat /\ m \in Nat
      BY <1>1 DEF SerialTypes
    <2>2. h <= 1
      BY <1>1 DEF SerialTypes
    <2>3. m <= 1
      BY <1>1 DEF SerialTypes
    <2>4. h \in 0 .. 1 /\ m \in 0 .. 1
      <3> HIDE DEF h, m
      <3> QED
        BY <2>1, <2>2, <2>3
    <2> QED
      BY <2>4
  <1>3. ASSUME NEW x \in S!Contexts
        PROVE  /\ dprintf[x].pc \in {"idle", "wait", "out", "low", "high", "bits"}
               /\ dprintf[x].message \in 0 .. Messages /\ dprintf[x].k \in 0 .. Length
    <2>1. dprintf[x] \in SerialCalls
      BY <1>1 DEF SerialTypes
    <2> QED
      BY <2>1 DEF SerialCalls
  <1> QED
    BY <1>1, <1>2, <1>3 DEF SerialTypes, S!TypeOK

LEMMA KeysAreTyped ==
    ASSUME KeysInv
    PROVE  K!TypeOK
  <1>1. KeyTypes /\ QueueShort /\ MaxKeys \in Nat
    BY DriversAssumption DEF KeysInv, K!KeyboardAssumption
  <1>2. Len(queue) \in Nat /\ Len(typed) \in Nat
    BY <1>1 DEF KeyTypes
  <1>3. Len(queue) <= MaxKeys + 2 /\ Len(typed) <= MaxKeys
    BY <1>1, <1>2 DEF QueueShort, Others
  <1>4. request => full
    BY <1>1 DEF KeyTypes
  <1>5. {config, data, status} \subseteq 0 .. 255
    BY <1>1 DEF KeyTypes
  <1> QED
    BY <1>1, <1>3, <1>4, <1>5 DEF KeyTypes, K!TypeOK

\* The state of every driver is well typed (DriversTypeOK).
THEOREM DriversTypeCorrect == DriversSpec => []DriversTypeOK
  <1>1. PciInv => TypeOK
    BY DEF PciInv
  <1>2. ClockInv => C!TypeOK
    BY ClockTyped
  <1>3. SerialInv => S!TypeOK
    BY SerialTyped
  <1>4. KeysInv => K!TypeOK
    BY KeysAreTyped
  <1>5. PciInv /\ ScreenInv /\ ClockInv /\ SerialInv /\ DiskInv /\ KeysInv => DriversTypeOK
    BY <1>1, <1>2, <1>3, <1>4, ScreenTyped, DiskTypeCorrect DEF DriversTypeOK
  <1> QED
    BY <1>5, PciAlone, ScreenInvariant, ClockInvariant, SerialInvariant, DiskInvInvariant,
       KeysInvariant, PTL

=============================================================================

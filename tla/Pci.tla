-------------------------------- MODULE Pci ---------------------------------
(***************************************************************************)
(* kernel/src/drivers/pci.c: pci_init walks every bus, device and function *)
(* and enters what answers in the table of devices.                        *)
(*                                                                         *)
(* The machine is a function from the locations that answer to their       *)
(* sixteen bytes of header.  A device with one function may decode the     *)
(* function number or answer to each of them.                              *)
(***************************************************************************)
EXTENDS Integers, Sequences, FiniteSets

CONSTANTS
    PCI_MAX_BUSES, PCI_MAX_DEVICES, PCI_MAX_FUNCTIONS,
    Shapes,     \* what may be at a device number
    Absent      \* the bytes that a read of nothing may give

Buses == 0 .. PCI_MAX_BUSES - 1
Devices == 0 .. PCI_MAX_DEVICES - 1
Functions == 0 .. PCI_MAX_FUNCTIONS - 1

\* A shape: the functions that exist, none, or function 0 and maybe others;
\* whether the device answers to all numbers as function 0; the bit of the
\* header that says there are several.
ASSUME PciAssumption ==
    /\ PCI_MAX_BUSES \in 1 .. 256 /\ PCI_MAX_DEVICES \in 1 .. 32 /\ PCI_MAX_FUNCTIONS \in 1 .. 8
    /\ \A s \in Shapes :
          /\ s.functions \subseteq Functions
          /\ s.functions # {} => 0 \in s.functions
          /\ s.multifunction <=> Cardinality(s.functions) > 1
          /\ s.aliased => s.functions = {0}
    /\ Absent \subseteq {0, 255}

VARIABLES
    machine,            \* the shape at each bus and device number
    absent,             \* what absent functions read as
    pc, b, d, f,        \* the three loops
    header_type, functions,
    devices             \* the table, of device_count entries

vars == <<machine, absent, pc, b, d, f, header_type, functions, devices>>

device_count == Len(devices)

Init ==
    /\ machine \in [Buses -> [Devices -> Shapes]] /\ absent \in Absent
    /\ pc = "device" /\ b = 0 /\ d = 0 /\ f = 0
    /\ header_type = 0 /\ functions = 0
    /\ devices = <<>>

-----------------------------------------------------------------------------
\* The bytes of a function's header, different for each byte and function;
\* byte 14 has the multifunction bit.
HeaderByte(bus, device, function, offset) ==
    LET index == (bus * PCI_MAX_DEVICES + device) * PCI_MAX_FUNCTIONS + function
    IN  IF offset = 14
        THEN (index % 128) + (IF machine[bus][device].multifunction THEN 128 ELSE 0)
        ELSE ((offset * 16) + index) % 256

Exists(bus, device, function) ==
    bus \in Buses /\ device \in Devices /\ function \in machine[bus][device].functions

\* How the host bridge takes an address apart.
BusOf(address) == (address \div 65536) % 256
DeviceOf(address) == (address \div 2048) % 32
FunctionOf(address) == (address \div 256) % 8
OffsetOf(address) == ((address \div 4) % 64) * 4

\* The function that answers when one is asked for.
Answering(bus, device, function) ==
    IF bus \in Buses /\ device \in Devices /\ machine[bus][device].aliased THEN 0 ELSE function

\* The double word at an address: four bytes, the lowest first.
Data(address) ==
    LET bus == BusOf(address)
        device == DeviceOf(address)
        function == Answering(bus, device, FunctionOf(address))
    IN  [k \in 0 .. 3 |-> IF Exists(bus, device, function)
                          THEN HeaderByte(bus, device, function, OffsetOf(address) + k) ELSE absent]

\* The enable bit, which is always set, is left out.
get_config_address(bus, device, function, offset) ==
    bus * 65536 + device * 2048 + function * 256 + (offset \div 4) * 4

pci_read(bus, device, function, offset) ==
    Data(get_config_address(bus, device, function, offset))

Half(data, k) == data[k] + 256 * data[k + 1]

pci_vendor_id(bus, device, function) == Half(pci_read(bus, device, function, 0), 0)
pci_device_id(bus, device, function) == Half(pci_read(bus, device, function, 0), 2)
pci_command(bus, device, function) == Half(pci_read(bus, device, function, 4), 0)
pci_status(bus, device, function) == Half(pci_read(bus, device, function, 4), 2)
pci_revision_id(bus, device, function) == pci_read(bus, device, function, 8)[0]
pci_prog_if(bus, device, function) == pci_read(bus, device, function, 8)[1]
pci_subclass(bus, device, function) == pci_read(bus, device, function, 8)[2]
pci_class_code(bus, device, function) == pci_read(bus, device, function, 8)[3]
pci_cache_line_size(bus, device, function) == pci_read(bus, device, function, 12)[0]
pci_latency_timer(bus, device, function) == pci_read(bus, device, function, 12)[1]
pci_header_type(bus, device, function) == pci_read(bus, device, function, 12)[2]
pci_bist(bus, device, function) == pci_read(bus, device, function, 12)[3]

-----------------------------------------------------------------------------
FunctionsOf(header) == IF header >= 128 THEN PCI_MAX_FUNCTIONS ELSE 1

\* A device number: how many functions to ask it for.
Device ==
    /\ pc = "device"
    /\ header_type' = pci_header_type(b, d, 0)
    /\ functions' = FunctionsOf(header_type')
    /\ f' = 0 /\ pc' = "function"
    /\ UNCHANGED <<machine, absent, b, d, devices>>

\* Mutant: the header of function 0 is used for all.
HeaderOf_First == header_type

\* The header type read for function 0 is used again.
HeaderOf == IF f > 0 THEN pci_header_type(b, d, f) ELSE header_type

Entry ==
    [bus |-> b, device |-> d, function |-> f,
     vendor_id |-> pci_vendor_id(b, d, f), device_id |-> pci_device_id(b, d, f),
     command |-> pci_command(b, d, f), status |-> pci_status(b, d, f),
     class_code |-> pci_class_code(b, d, f), subclass |-> pci_subclass(b, d, f),
     prog_if |-> pci_prog_if(b, d, f), revision_id |-> pci_revision_id(b, d, f),
     bist |-> pci_bist(b, d, f), header_type |-> HeaderOf,
     latency_timer |-> pci_latency_timer(b, d, f),
     cache_line_size |-> pci_cache_line_size(b, d, f)]

NoVendor == {0, 65535}

Answers == pci_vendor_id(b, d, f) \notin NoVendor

Function ==
    /\ pc = "function" /\ f < functions
    /\ header_type' = HeaderOf
    /\ devices' = IF Answers THEN Append(devices, Entry) ELSE devices
    /\ f' = f + 1
    /\ UNCHANGED <<machine, absent, pc, b, d, functions>>

NextDevice == d + 1

\* The steps of the outer loops.
Advance ==
    /\ pc = "function" /\ f >= functions
    /\ \/ NextDevice < PCI_MAX_DEVICES /\ d' = NextDevice /\ b' = b /\ pc' = "device"
       \/ NextDevice >= PCI_MAX_DEVICES /\ b + 1 < PCI_MAX_BUSES
          /\ d' = 0 /\ b' = b + 1 /\ pc' = "device"
       \/ NextDevice >= PCI_MAX_DEVICES /\ b + 1 >= PCI_MAX_BUSES
          /\ pc' = "done" /\ UNCHANGED <<b, d>>
    /\ UNCHANGED <<machine, absent, f, header_type, functions, devices>>

Next == Device \/ Function \/ Advance

Spec == Init /\ [][Next]_vars

-----------------------------------------------------------------------------
Byte == 0 .. 255

pci_device ==
    [bus : Buses, device : Devices, function : Functions,
     vendor_id : Nat \ NoVendor, device_id : Nat, command : Nat, status : Nat,
     class_code : Byte, subclass : Byte, prog_if : Byte, revision_id : Byte, bist : Byte,
     header_type : Byte, latency_timer : Byte, cache_line_size : Byte]

\* The state is well typed, and no entry has the number that absent ones read as.
TypeOK ==
    /\ pc \in {"device", "function", "done"}
    /\ b \in Buses /\ d \in Devices /\ f \in 0 .. PCI_MAX_FUNCTIONS
    /\ header_type \in Byte /\ functions \in 0 .. PCI_MAX_FUNCTIONS
    /\ devices \in Seq(pci_device)

Location(e) == <<e.bus, e.device, e.function>>

\* The functions that exist at locations the walk has passed.
Passed ==
    {p \in Buses \X Devices \X Functions :
        /\ Exists(p[1], p[2], p[3])
        /\ \/ pc = "done"
           \/ p[1] < b
           \/ p[1] = b /\ p[2] < d
           \/ pc = "function" /\ p[1] = b /\ p[2] = d /\ p[3] < f}

\* The table holds every function that the walk has passed, and each once:
\* also those of a device that has several, and a device that answers to every
\* function number is not entered more than once.
EachOnce ==
    /\ \A k, n \in DOMAIN devices : Location(devices[k]) = Location(devices[n]) => k = n
    /\ {Location(devices[k]) : k \in DOMAIN devices} = Passed

At(e, offset) == HeaderByte(e.bus, e.device, e.function, offset)

Whole(e, offset) == At(e, offset) + 256 * At(e, offset + 1)

Describes(e) ==
    /\ e.vendor_id = Whole(e, 0) /\ e.device_id = Whole(e, 2)
    /\ e.command = Whole(e, 4) /\ e.status = Whole(e, 6)
    /\ e.revision_id = At(e, 8) /\ e.prog_if = At(e, 9)
    /\ e.subclass = At(e, 10) /\ e.class_code = At(e, 11)
    /\ e.cache_line_size = At(e, 12) /\ e.latency_timer = At(e, 13)
    /\ e.header_type = At(e, 14) /\ e.bist = At(e, 15)

\* Each entry describes the function it names: every field is the one at its
\* place in that function's header, read through the address of its double word.
Described == \A k \in DOMAIN devices : Describes(devices[k])

\* pci_init finds what there is: all of it, once, and with its own description.
Enumerates == EachOnce /\ Described

=============================================================================

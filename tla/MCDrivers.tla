----------------------------- MODULE MCDrivers ------------------------------
(***************************************************************************)
(* The drivers, on small devices.                                          *)
(***************************************************************************)
EXTENDS Drivers

Shape(fs, aliased) ==
    [functions |-> fs, aliased |-> aliased, multifunction |-> Cardinality(fs) > 1]

\* Nothing, a device with one function that decodes its number or does not, and
\* devices with two or three functions.
AllShapes ==
    {Shape({}, FALSE), Shape({0}, FALSE), Shape({0}, TRUE)}
        \cup {Shape({0} \cup fs, FALSE) : fs \in SUBSET {1, 2} \ {{}}}

\* Seconds in the morning, at noon, in the evening, and before and after midnight.
Time(h, m, s, day, month, year) ==
    [second |-> s, minute |-> m, hour |-> h, day |-> day, month |-> month, year |-> year]

Seconds ==
    <<Time(9, 59, 59, 8, 9, 19), Time(10, 0, 0, 8, 9, 19), Time(12, 0, 0, 8, 9, 19),
      Time(19, 59, 59, 10, 10, 20), Time(23, 59, 59, 31, 12, 20), Time(0, 0, 0, 1, 1, 21)>>

AllModes == [binary : BOOLEAN, hours24 : BOOLEAN]

\* The drives that are connected, and how many sectors are read.
Drives == {{"primary"}, {"primary", "secondary"}}

UpTo4 == 1 .. 4

=============================================================================

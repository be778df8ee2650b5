---------------------------- MODULE MCInterrupts ----------------------------
(***************************************************************************)
(* Interrupts with the timer, the keyboard and the disk (line 14, behind   *)
(* the second PIC, for which the kernel has no handler), a divide error,   *)
(* and room for a fault inside the handling of a fault.                    *)
(***************************************************************************)
EXTENDS Interrupts

=============================================================================

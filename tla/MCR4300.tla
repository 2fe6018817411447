------------------------------- MODULE MCR4300 -------------------------------
(***************************************************************************)
(* R4300Interrupts on a COUNT register of a few bits.  The three instances  *)
(* share the machine and differ in what the program does: write the timer    *)
(* registers, write the registers that mask interrupts, or be reset.        *)
(***************************************************************************)
EXTENDS R4300Interrupts

\* As in the code, one node more than there are types of events.
MCPoolCapacity == Cardinality(EventTypes) + 1

Status(ie, exl) == [ie |-> ie, exl |-> exl, im |-> IPs]
MCStatusWrites == {Status(TRUE, FALSE), Status(FALSE, FALSE)}
MCMaskWrites == {{}, Lines}
MCAllLines == {Lines}
MCNone == {}
=============================================================================

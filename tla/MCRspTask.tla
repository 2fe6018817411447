------------------------------ MODULE MCRspTask ------------------------------
(***************************************************************************)
(* RspTask with the writes of SP_STATUS that a program's task library makes: *)
(* to load a task, start it, acknowledge its interrupt, signal it.          *)
(***************************************************************************)
EXTENDS RspTask

Quiet == [halt |-> "keep", broke |-> "keep", intr |-> "keep", intr_break |-> "keep",
          taskdone |-> "keep"]
MCStatusWrites ==
    {Quiet,
     [Quiet EXCEPT !.intr_break = "set", !.taskdone = "clear"],
     [Quiet EXCEPT !.halt = "clear", !.broke = "clear", !.intr_break = "set"],
     [Quiet EXCEPT !.intr = "clear"]}
MCMasks == SUBSET Lines
=============================================================================

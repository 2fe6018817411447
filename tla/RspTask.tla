------------------------------- MODULE RspTask -------------------------------
(***************************************************************************)
(* The life of an RSP task and of the two interrupts it leads to:           *)
(* do_SP_Task and the SP status register (rcp/rsp/rsp_core.c), the RDP's     *)
(* status and its interrupt (rcp/rdp/rdp_core.c), the graphics and RSP       *)
(* plugins' CheckInterrupts (plugin/plugin.c), and the MI register they all  *)
(* write.                                                                  *)
(*                                                                         *)
(* The plugin runs a task in one call, until it breaks or suspends itself to *)
(* wait for the CPU.  A suspended task (rsp_task_locked) is run again by the *)
(* SP_INT event it leaves queued; a broken one is reported by that event.    *)
(* The times of SP_INT and DP_INT are abstracted: a queued event is served   *)
(* at any later moment.                                                    *)
(***************************************************************************)
EXTENDS Naturals

CONSTANTS StatusWrites,  \* the writes of SP_STATUS a program makes
          Tasks,         \* types of task it loads, a subset of TaskTypes
          Masks,         \* the values of MI_INTR_MASK it writes
          Angrylion,     \* the graphics plugin sets angrylion_sync_full_seen
          MaxEvents      \* bound: events of one type queued at a time

Bits  == {"HALT", "BROKE", "TASKDONE", "INTR_BREAK"}
Lines == {"SP", "DP"}
TaskTypes == {"gfx", "other"}
Fields == {"keep", "clear", "set"}
StatusWords == [halt : Fields, broke : {"keep", "clear"}, intr : Fields,
                intr_break : Fields, taskdone : {"keep", "clear"}]

\* What task libraries write: they never halt a running task, and they start one
\* with BROKE clear and INTR_BREAK set, which they never clear again.
ASSUME StatusWritesAssumption ==
    \A w \in StatusWrites :
        /\ w \in StatusWords
        /\ w.halt # "set" /\ w.intr_break # "clear"
        /\ w.halt = "clear" => w.broke = "clear" /\ w.intr_break = "set"
ASSUME TasksAssumption        == Tasks \subseteq TaskTypes
ASSUME LineMasksAssumption    == Masks \subseteq SUBSET Lines
ASSUME AngrylionAssumption    == Angrylion \in BOOLEAN
ASSUME MaxEventsAssumption    == MaxEvents \in Nat \ {0}

VARIABLE r

Rcp == [status : SUBSET Bits,        \* SP_STATUS_REG
        locked : BOOLEAN,            \* rsp_task_locked, and INTR_UNSAFE_RSP with it
        task : TaskTypes,            \* the type of task in DMEM
        spInt : Nat, dpInt : Nat,    \* queued SP_INT and DP_INT events
        freeze : BOOLEAN,            \* DPC_STATUS_FREEZE
        deferred : BOOLEAN,          \* do_on_unfreeze has DELAY_DP_INT
        intr : SUBSET Lines, mask : SUBSET Lines,   \* MI_INTR, MI_INTR_MASK
        ip2 : BOOLEAN,               \* CAUSE.IP2
        owed : BOOLEAN]              \* ghost: a full sync the CPU was not told of

\* How a run of the plugin ends and what it does on the way: the display list
\* reached a full sync, the task raised SP by itself, it broke.
Outcomes == [sync : BOOLEAN, raise : BOOLEAN, stop : BOOLEAN]

-----------------------------------------------------------------------------
\* Fault: rsp_plugin_check_interrupts is an empty function.
CheckInterruptEmpty(c) == c

CheckInterrupt(c) == [c EXCEPT !.ip2 = c.intr \cap c.mask # {}]

SignalRcpInterrupt(c, line) == CheckInterrupt([c EXCEPT !.intr = @ \cup {line}])
ClearRcpInterrupt(c, line)  == CheckInterrupt([c EXCEPT !.intr = @ \ {line}])

RaiseRcpInterrupt(c, line) ==
    LET raised == [c EXCEPT !.intr = @ \cup {line}]
    IN  IF raised.intr \cap raised.mask # {} THEN [raised EXCEPT !.ip2 = TRUE] ELSE raised

AddDpInt(c) == [c EXCEPT !.dpInt = @ + 1]
AddSpInt(c) == [c EXCEPT !.spInt = @ + 1]

\* The graphics plugin at a full sync sets the DP bit and calls
\* gfx_plugin_check_interrupts, which turns it into an event unless the caller
\* said that it consumes the bit (g_rsp_task_consumes_dp).
FullSync(c, consumed) ==
    LET owing == [c EXCEPT !.owed = TRUE]
    IN  IF consumed THEN [owing EXCEPT !.intr = @ \cup {"DP"}]
        ELSE AddDpInt([owing EXCEPT !.intr = @ \ {"DP"}])

\* The RSP plugin's run; rsp_plugin_check_interrupts follows every SP bit.
DoRspCycles(c, o) ==
    LET synced  == IF o.sync THEN FullSync(c, c.task = "gfx") ELSE c
        raised  == IF o.raise THEN SignalRcpInterrupt(synced, "SP") ELSE synced
        stopped == [raised EXCEPT !.status = @ \cup {"TASKDONE", "BROKE", "HALT"}]
    IN  IF ~o.stop THEN raised
        ELSE IF "INTR_BREAK" \in c.status THEN SignalRcpInterrupt(stopped, "SP")
        ELSE stopped

\* Fault: the bit is consumed and forgotten while the RDP is frozen.
ConsumeDpForgetful(c) ==
    IF c.task = "gfx" /\ "DP" \in c.intr
    THEN LET taken == [c EXCEPT !.intr = @ \ {"DP"}]
         IN  IF c.freeze THEN taken ELSE AddDpInt(taken)
    ELSE c

\* A graphics task's DP bit becomes an event some time after it, or waits for
\* the RDP to be unfrozen.
ConsumeDp(c) ==
    IF c.task = "gfx" /\ "DP" \in c.intr
    THEN LET taken == [c EXCEPT !.intr = @ \ {"DP"}]
         IN  IF c.freeze THEN [taken EXCEPT !.deferred = TRUE] ELSE AddDpInt(taken)
    ELSE c

\* Fault: only the SP bit is looked at to queue SP_INT, as a carrier of the
\* pump of suspended tasks.
DoSpTaskCarried(c, o) ==
    LET ran     == ConsumeDp(DoRspCycles(c, o))
        pumped  == IF ran.status \cap {"HALT", "BROKE"} = {} /\ "SP" \in ran.intr
                   THEN AddSpInt([ran EXCEPT !.locked = TRUE])
                   ELSE IF "SP" \in ran.intr
                   THEN AddSpInt([ran EXCEPT !.locked = FALSE])
                   ELSE [ran EXCEPT !.locked = FALSE]
    IN  [pumped EXCEPT !.status = @ \ {"TASKDONE", "BROKE", "HALT"}]

DoSpTask(c, o) ==
    LET ran     == ConsumeDp(DoRspCycles(c, o))
        pumped  == IF ran.status \cap {"HALT", "BROKE"} = {}
                   THEN AddSpInt([ran EXCEPT !.locked = TRUE])
                   ELSE IF "SP" \in ran.intr
                   THEN AddSpInt([ran EXCEPT !.locked = FALSE])
                   ELSE [ran EXCEPT !.locked = FALSE]
    IN  [pumped EXCEPT !.status = @ \ {"TASKDONE", "BROKE", "HALT"}]

\* One field of a status write: a bit cleared, set, or left alone.
Change(bits, bit, field) ==
    CASE field = "set"   -> bits \cup {bit}
      [] field = "clear" -> bits \ {bit}
      [] OTHER           -> bits

ChangeLine(c, field) ==
    CASE field = "set"   -> SignalRcpInterrupt(c, "SP")
      [] field = "clear" -> ClearRcpInterrupt(c, "SP")
      [] OTHER           -> c

StatusWritten(c, w) ==
    LET halted == Change(c.status, "HALT", w.halt)
        broken == Change(halted, "BROKE", w.broke)
        broke  == Change(broken, "INTR_BREAK", w.intr_break)
    IN  ChangeLine([c EXCEPT !.status = Change(broke, "TASKDONE", w.taskdone)], w.intr)

\* Fault: a write during a suspended task runs it again, its event still queued.
DispatchesEagerly(c, w) ==
    /\ w.halt = "clear" \/ w.broke = "clear" \/ c.locked
    /\ "HALT" \notin c.status

\* What makes update_sp_status run the task: a write that clears halt or broke,
\* or any write to a suspended task that has no event queued.
Dispatches(c, w) ==
    /\ ~(c.locked /\ c.spInt > 0)
    /\ w.halt = "clear" \/ w.broke = "clear" \/ c.locked
    /\ "HALT" \notin c.status

Room(c) == c.spInt < MaxEvents /\ c.dpInt < MaxEvents

-----------------------------------------------------------------------------
Init ==
    r = [status |-> {"HALT"}, locked |-> FALSE, task |-> "gfx", spInt |-> 0, dpInt |-> 0,
         freeze |-> FALSE, deferred |-> FALSE, intr |-> {}, mask |-> {}, ip2 |-> FALSE,
         owed |-> FALSE]

\* A program loads another type of task while the RSP is halted.
LoadTask(t) ==
    /\ "HALT" \in r.status
    /\ r.task # t
    /\ r' = [r EXCEPT !.task = t]

\* update_sp_status.  A program starts a task when the last one is over, as
\* the RSP's status tells it.
WriteStatus(w, o) ==
    /\ w.halt = "clear" \/ w.broke = "clear" => "HALT" \in r.status
    /\ LET written == StatusWritten(r, w)
       IN  IF Dispatches(written, w)
           THEN Room(written) /\ r' = DoSpTask(written, o)
           ELSE r' = written

\* rsp_interrupt_event, called with SP_INT removed.
RspInterruptEvent(o) ==
    /\ r.spInt > 0
    /\ LET popped == [r EXCEPT !.spInt = @ - 1]
           over   == [popped EXCEPT !.status = @ \cup {"TASKDONE", "BROKE", "HALT"}]
       IN  IF r.locked THEN Room(popped) /\ r' = DoSpTask(popped, o)
           ELSE r' = IF "INTR_BREAK" \in r.status THEN RaiseRcpInterrupt(over, "SP") ELSE over

\* rdp_interrupt_event.
RdpInterruptEvent ==
    /\ r.dpInt > 0
    /\ r' = RaiseRcpInterrupt([r EXCEPT !.dpInt = @ - 1, !.owed = FALSE], "DP")

\* write_dpc_regs, DPC_END: the program feeds the RDP itself.
WriteDpcEnd(sync) ==
    r' = IF ~sync THEN r
         ELSE IF Angrylion
         THEN SignalRcpInterrupt([FullSync(r, TRUE) EXCEPT !.owed = FALSE], "DP")
         ELSE FullSync(r, TRUE)

\* update_dpc_status.
SetFreeze ==
    /\ ~r.freeze
    /\ r' = [r EXCEPT !.freeze = TRUE]

\* Fault: the deferred interrupt is cancelled instead of signalled.
ClearFreezeSilent ==
    /\ r.freeze
    /\ r' = [r EXCEPT !.freeze = FALSE, !.deferred = FALSE]

ClearFreeze ==
    /\ r.freeze
    /\ LET thawed == [r EXCEPT !.freeze = FALSE, !.deferred = FALSE]
       IN  r' = IF r.deferred
                THEN SignalRcpInterrupt([thawed EXCEPT !.owed = FALSE], "DP")
                ELSE thawed

\* write_mi_regs: MI_INIT_MODE's clear of DP, and MI_INTR_MASK.
ClearDp ==
    /\ "DP" \in r.intr
    /\ r' = ClearRcpInterrupt(r, "DP")

WriteMask(lines) == r' = CheckInterrupt([r EXCEPT !.mask = lines])

\* A soft reset: the boot code halts the RSP and clears its line, the queue is
\* emptied; rsp_task_locked and the RDP's registers are left as they are.
Nmi ==
    r' = [ClearRcpInterrupt([r EXCEPT !.status = @ \cup {"HALT"}], "SP")
            EXCEPT !.spInt = 0, !.dpInt = 0, !.owed = FALSE]

Next ==
    \/ \E t \in Tasks : LoadTask(t)
    \/ \E w \in StatusWrites, o \in Outcomes : WriteStatus(w, o)
    \/ \E o \in Outcomes : RspInterruptEvent(o)
    \/ RdpInterruptEvent
    \/ \E sync \in BOOLEAN : WriteDpcEnd(sync)
    \/ SetFreeze
    \/ ClearFreeze
    \/ ClearDp
    \/ \E lines \in Masks : WriteMask(lines)
    \/ Nmi

vars == <<r>>

Spec == Init /\ [][Next]_vars

-----------------------------------------------------------------------------
TypeOK == r \in Rcp

\* A suspended task is never left with no event to run it again ("without a
\* self-sustaining pump the task would never be serviced again and the system
\* would deadlock", rsp_interrupt_event), and never with two, through status
\* writes that race the event and through resets; a task that is over is
\* reported by exactly one event, and the RSP shows halted only when none is
\* to come.  So the program that waits for HALT is never left waiting, and the
\* report of one task is not taken for that of the next.
PumpAlive == r.spInt = IF "HALT" \in r.status THEN 0 ELSE 1

\* A full sync the CPU has not been told of is queued or waits for the RDP to be
\* unfrozen: the bit the plugin sets is consumed by one of several paths that
\* take it from each other with a flag, and none may drop it.
SyncNeverLost == r.owed => r.dpInt > 0 \/ r.deferred

\* A line that MI lets through is one the CPU is told of: the plugins write the
\* register behind the core's back.
NoneMissed == r.intr \cap r.mask # {} => r.ip2

\* Events come due as the program runs, a task that is given the time breaks,
\* and a program that freezes the RDP unfreezes it.
Fairness ==
    /\ WF_vars(\E o \in Outcomes : RspInterruptEvent(o))
    /\ SF_vars(\E o \in {x \in Outcomes : x.stop} : RspInterruptEvent(o))
    /\ WF_vars(RdpInterruptEvent)
    /\ SF_vars(ClearFreeze)
FairSpec == Spec /\ Fairness

\* Every task a program starts is reported to it as over.
TaskReported == "HALT" \notin r.status ~> "HALT" \in r.status

\* Every full sync reaches the CPU.
SyncDelivered == r.owed ~> ~r.owed
=============================================================================

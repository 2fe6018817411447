--------------------------- MODULE R4300Interrupts ---------------------------
(***************************************************************************)
(* How the emulated CPU meets its interrupts: the event queue of            *)
(* InterruptQueue, the CP0 registers that decide whether an interrupt is    *)
(* taken (STATUS, CAUSE, COUNT, COMPARE), the MIPS interface (MI) that      *)
(* gathers the lines of the RCP devices, gen_interrupt and its handlers, and *)
(* the instructions that reach them.                                       *)
(*                                                                         *)
(* The machine is single-threaded: an action is one instruction (with the   *)
(* straight-line code before it, worth n counts), or one call of the        *)
(* frontend between two instructions.  The interleaving that matters is     *)
(* that of the program's instructions with the events coming due.           *)
(*                                                                         *)
(* The interpreters' paths are modelled (the dynamic recompilers generate   *)
(* the same calls), with the boot code emulated (start_address is not the   *)
(* PIF ROM's).  A device is a type of event that takes one line of MI when  *)
(* its event is served; "VI" re-arms itself.                               *)
(***************************************************************************)
EXTENDS InterruptQueue

CONSTANTS Steps,        \* worths in counts of a stretch of straight-line code
          Delays,       \* delays devices ask for
          VIDelay,      \* vi.delay
          CompareGaps,  \* distances from COUNT at which programs set COMPARE
          CountWrites,  \* values programs write to COUNT
          StatusWrites, \* what they write to STATUS: [ie, exl, im]
          MaskWrites,   \* sets of lines they unmask in MI
          PluginLines,  \* lines a plugin writes into MI_INTR itself, {"DP"} in the code
          Buttons,      \* subset of {"soft", "hard"}, reset buttons in use
          MaxLate,      \* bound: counts a basic block may run past an event
          LateBound,    \* ... and a burst of due events, one served a branch
          PowerOnCount, \* COUNT at power-on, 0x5000 in the code
          NMIDelay,     \* soft_reset_device's delay before the NMI
          Disciplined   \* TRUE: software raises and clears lines only while
                        \* interrupts are disabled, and does not write COUNT
                        \* in a branch delay slot; and it programs the screen
                        \* before COUNT has run through half its range

IPs == {"IP2", "IP4", "IP7"}

ASSUME StepsAssumption    == Steps \subseteq Nat \ {0}
ASSUME DelaysAssumption   == Delays \subseteq Nat /\ VIDelay \in Nat /\ NMIDelay \in Nat
ASSUME GapsAssumption     == CompareGaps \subseteq Nat
ASSUME WritesAssumption   == CountWrites \subseteq Counts
ASSUME StatusAssumption   ==
    StatusWrites \subseteq [ie : BOOLEAN, exl : BOOLEAN, im : SUBSET IPs]
ASSUME MasksAssumption    == MaskWrites \subseteq SUBSET Devices
ASSUME PluginAssumption   == PluginLines \subseteq Devices
ASSUME PowerOnAssumption  == PowerOnCount \in Counts
ASSUME LateAssumption     == MaxLate \in Nat /\ LateBound \in Nat
ASSUME DiscipleAssumption == Disciplined \in BOOLEAN

VARIABLE m

Lines == Devices

Machine ==
    [count : Counts, cycle : Cycles, next : Counts, q : Seq(Events),
     compare : Counts,
     ie : BOOLEAN, exl : BOOLEAN, im : SUBSET IPs,     \* STATUS
     ip : SUBSET IPs,                                  \* CAUSE
     intr : SUBSET Lines, mask : SUBSET Lines,         \* MI_INTR, MI_INTR_MASK
     skip : BOOLEAN,                                   \* skip_jump is set
     reset : BOOLEAN,                                  \* reset_hard_job
     frame : BOOLEAN,                                  \* frame_break
     \* ghosts, set when it ever happens
     dropped : BOOLEAN, early : BOOLEAN, spurious : BOOLEAN]

-----------------------------------------------------------------------------
\* STATUS and CAUSE together let an interrupt in.
Enabled(c) == c.ie /\ ~c.exl
Deliverable(c) == Enabled(c) /\ c.ip \cap c.im # {}

\* exception_general, with the epilog of an exception in a branch delay slot:
\* the branch must not be taken, and gen_interrupt is made to run at its end.
ExceptionGeneral(c, slot) ==
    LET entered == [c EXCEPT !.exl = TRUE]
    IN  IF slot
        THEN [entered EXCEPT !.skip = TRUE, !.next = 0, !.cycle = 0]
        ELSE entered

\* An interrupt exception; the ghost remembers one taken while disabled.
TakeInterrupt(c, slot) ==
    ExceptionGeneral([c EXCEPT !.spurious = @ \/ ~Deliverable(c)], slot)

RaiseMaskableInterrupt(c, line, slot) ==
    LET raised == [c EXCEPT !.ip = @ \cup {line}]
    IN  IF Deliverable(raised) THEN TakeInterrupt(raised, slot) ELSE raised

\* Fault: CHECK_INT is queued whatever STATUS says.
CheckInterruptAlways(c) ==
    LET caused == [c EXCEPT !.ip = IF c.intr \cap c.mask # {}
                                   THEN @ \cup {"IP2"} ELSE @ \ {"IP2"}]
    IN  IF caused.ip # {} THEN PushCheck(caused) ELSE caused

\* r4300_check_interrupt for IP2, with MI's lines.
CheckInterrupt(c) ==
    LET caused == [c EXCEPT !.ip = IF c.intr \cap c.mask # {}
                                   THEN @ \cup {"IP2"} ELSE @ \ {"IP2"}]
    IN  IF Deliverable(caused) THEN PushCheck(caused) ELSE caused

RaiseRcpInterrupt(c, line, slot) ==
    LET raised == [c EXCEPT !.intr = @ \cup {line}]
    IN  IF raised.intr \cap raised.mask # {}
        THEN RaiseMaskableInterrupt(raised, "IP2", slot)
        ELSE raised

SignalRcpInterrupt(c, line) == CheckInterrupt([c EXCEPT !.intr = @ \cup {line}])
ClearRcpInterrupt(c, line)  == CheckInterrupt([c EXCEPT !.intr = @ \ {line}])

-----------------------------------------------------------------------------
\* The handlers gen_interrupt calls.  VI and SPECIAL find their event still
\* at the head; the others find it removed.  VI also ends the frame: new_vi has
\* the execution loop return to the frontend after the current instruction.
CompareIntHandler(c, slot) ==
    RaiseMaskableInterrupt(AddCompare(c, c.compare), "IP7", slot)

CheckIntHandler(c, slot) == TakeInterrupt(c, slot)

\* Fault: SPECIAL_INT is not armed again.
SpecialIntHandlerOnce(c) == RemoveInterruptEvent(c)

SpecialIntHandler(c) == AddSpecial(RemoveInterruptEvent(c))

ViVerticalInterruptEvent(c, slot) ==
    LET yielded == [c EXCEPT !.frame = TRUE]
        next_vi == U(c.q[Min(GetEvent(c.q, "VI"))].count + VIDelay)
    IN  RaiseRcpInterrupt(
            AddInterruptEventCount(RemoveInterruptEvent(yielded), "VI", next_vi), "VI", slot)

\* nmi_int_handler with pif_bootrom_hle_execute: STATUS is rewritten, the boot
\* code clears three lines by their device's register and leaves the others
\* and the mask; the queue is rebuilt with COUNT at 0.  Writing the registers
\* with interrupts disabled queues nothing that survives the rebuild.
NmiIntHandler(c) ==
    LET booted  == [c EXCEPT !.ie = FALSE, !.exl = FALSE, !.im = {}, !.ip = {}]
        cleared == CheckInterrupt([booted EXCEPT !.intr = @ \ {"SP", "PI", "VI"}])
        rebuilt == InitInterrupt([cleared EXCEPT !.count = 0])
    IN  AddInterruptEvent(rebuilt, "VI", VIDelay)

\* poweron_device, then the boot code, then init_interrupt once more.  The
\* screen is not programmed yet: no VI event.
PoweredOn(c) ==
    InitInterrupt(
      [c EXCEPT !.count = PowerOnCount, !.cycle = 0, !.next = 0, !.q = <<>>, !.compare = 0,
                !.ie = FALSE, !.exl = FALSE, !.im = {}, !.ip = {},
                !.intr = {}, !.mask = {}, !.skip = FALSE, !.reset = FALSE])

Serve(c, slot) ==
    LET type   == c.q[1].type
        ahead  == [c EXCEPT !.early = @ \/ S(c.count - c.q[1].count) < 0]
        popped == RemoveInterruptEvent(ahead)
    IN  CASE type = "VI"      -> ViVerticalInterruptEvent(ahead, slot)
          [] type = "SPECIAL" -> SpecialIntHandler(ahead)
          [] type = "COMPARE" -> CompareIntHandler(popped, slot)
          [] type = "CHECK"   -> CheckIntHandler(popped, slot)
          [] type = "HW2"     -> RaiseMaskableInterrupt(popped, "IP4", slot)
          [] type = "NMI"     -> NmiIntHandler(popped)
          [] OTHER            -> RaiseRcpInterrupt(popped, type, slot)

\* Fault: the views of the head are not restored after a skipped jump.
GenInterruptUnrestored(c, unsafe, slot) ==
    CASE c.reset /\ ~unsafe -> PoweredOn(c)
      [] ~(c.reset /\ ~unsafe) /\ c.skip -> [c EXCEPT !.skip = FALSE]
      [] OTHER -> Serve(c, slot)

\* gen_interrupt.  A requested hard reset replaces everything, unless the
\* caller declared the CPU's state unsafe; a pending skip_jump only restores
\* the views of the head; else the head event is served.
GenInterrupt(c, unsafe, slot) ==
    CASE c.reset /\ ~unsafe -> PoweredOn(c)
      [] ~(c.reset /\ ~unsafe) /\ c.skip -> Mirror([c EXCEPT !.skip = FALSE])
      [] OTHER -> Serve(c, slot)

GenIfDue(c, unsafe, slot) ==
    IF c.cycle >= 0 THEN GenInterrupt(c, unsafe, slot) ELSE c

\* The end of a taken or untaken branch whose delay slot has been executed.
EndBranch(c, slot) == IF slot THEN GenIfDue(c, FALSE, FALSE) ELSE c

-----------------------------------------------------------------------------
\* The machine as main_run starts it.
Init ==
    m = PoweredOn([count |-> 0, cycle |-> 0, next |-> 0, q |-> <<>>, compare |-> 0,
                   ie |-> FALSE, exl |-> FALSE, im |-> {}, ip |-> {},
                   intr |-> {}, mask |-> {}, skip |-> FALSE, reset |-> FALSE,
                   frame |-> FALSE, dropped |-> FALSE, early |-> FALSE, spurious |-> FALSE])

\* Code between two branches has an end: it does not run further than MaxLate
\* past an event that is due.
Running(n) ==
    /\ ~m.frame
    /\ Disciplined => GetEvent(m.q, "VI") # {} \/ m.count + n < HalfRange
WithinBlock(n) == Running(n) /\ m.cycle + n <= MaxLate

\* A branch and its delay slot (DECLARE_JUMP).
Branch(n) ==
    /\ Running(n)
    /\ m' = GenIfDue(UpdateCount(m, n), FALSE, FALSE)

\* The _IDLE variant, a branch to itself: COUNT skips to the next event, then
\* the branch is executed.
IdleBranch(n) ==
    /\ Running(HalfRange)
    /\ LET idle == IF m.cycle < 0
                   THEN [m EXCEPT !.count = U(@ - m.cycle), !.cycle = 0]
                   ELSE m
       IN  m' = GenIfDue(UpdateCount(idle, n), FALSE, FALSE)

\* A read of COUNT, or of a device register that depends on it: COUNT moves
\* with no test of the events.
ObserveCount(n) ==
    /\ WithinBlock(n)
    /\ m' = UpdateCount(m, n)

\* A program starts an operation of a device that is idle.
StartDevice(d, n, delay) ==
    /\ WithinBlock(n)
    /\ GetEvent(m.q, d) = {}
    /\ m' = AddInterruptEvent(UpdateCount(m, n), d, delay)

\* SYSCALL, for every exception an instruction raises by itself.
Syscall(n, slot) ==
    /\ WithinBlock(n)
    /\ m' = EndBranch(ExceptionGeneral(UpdateCount(m, n), slot), slot)

\* ERET, never in a delay slot.
Eret(n) ==
    /\ WithinBlock(n)
    /\ m' = GenIfDue(CheckInterrupt([UpdateCount(m, n) EXCEPT !.exl = FALSE]), FALSE, FALSE)

MtcCount(n, value, slot) ==
    /\ WithinBlock(n)
    /\ Disciplined => ~slot
    /\ LET served == GenIfDue(UpdateCount(m, n), TRUE, slot)
       IN  m' = EndBranch(TranslateEventQueue(served, value, served.compare), slot)

\* Fault: the COMPARE_INT of the old COMPARE stays queued.
MtcCompareKept(n, gap) ==
    /\ WithinBlock(n)
    /\ LET now     == UpdateCount(m, n)
           compare == U(now.count + gap)
       IN  m' = [AddCompare(now, compare) EXCEPT !.compare = compare, !.ip = @ \ {"IP7"}]

MtcCompare(n, gap) ==
    /\ WithinBlock(n)
    /\ LET now     == UpdateCount(m, n)
           compare == U(now.count + gap)
           armed   == AddCompare(RemoveEvent(now, "COMPARE"), compare)
       IN  m' = [armed EXCEPT !.compare = compare, !.ip = @ \ {"IP7"}]

\* Fault: a pending interrupt is not looked for when STATUS lets it in.
MtcStatusUnchecked(n, w, slot) ==
    /\ WithinBlock(n)
    /\ LET written == UpdateCount([m EXCEPT !.ie = w.ie, !.exl = w.exl, !.im = w.im], n)
       IN  m' = EndBranch(GenIfDue(written, TRUE, slot), slot)

MtcStatus(n, w, slot) ==
    /\ WithinBlock(n)
    /\ LET written == UpdateCount([m EXCEPT !.ie = w.ie, !.exl = w.exl, !.im = w.im], n)
       IN  m' = EndBranch(GenIfDue(CheckInterrupt(written), TRUE, slot), slot)

\* Fault: CAUSE is not brought up to date when the mask changes.
WriteMiMaskUnchecked(n, lines, slot) ==
    /\ WithinBlock(n)
    /\ m' = EndBranch(GenIfDue(UpdateCount([m EXCEPT !.mask = lines], n), FALSE, slot), slot)

\* write_mi_regs, MI_INTR_MASK: the interrupt is checked for before COUNT is
\* brought up to date.
WriteMiMask(n, lines, slot) ==
    /\ WithinBlock(n)
    /\ LET checked == CheckInterrupt([m EXCEPT !.mask = lines])
       IN  m' = EndBranch(GenIfDue(UpdateCount(checked, n), FALSE, slot), slot)

\* A store that raises a line of MI, or acknowledges one; COUNT stays behind.
SignalLine(line) ==
    /\ ~m.frame
    /\ Disciplined => ~Enabled(m)
    /\ m' = SignalRcpInterrupt(m, line)

AcknowledgeLine(line) ==
    /\ ~m.frame
    /\ Disciplined => ~Enabled(m)
    /\ line \in m.intr
    /\ m' = ClearRcpInterrupt(m, line)

\* The graphics plugin sets its line in MI's register, with no look at CAUSE: the core
\* has silenced the plugin's call for that while it runs.
PluginRaises(line) ==
    /\ ~m.frame
    /\ m' = [m EXCEPT !.intr = @ \cup {line}]

\* What the plugin has set while a task ran, or what an earlier one left, is taken back
\* with no look at CAUSE either, and is to come as the event of a device that is idle.
PluginDefers(line, n, delay) ==
    /\ WithinBlock(n)
    /\ GetEvent(m.q, line) = {}
    /\ m' = AddInterruptEvent([UpdateCount(m, n) EXCEPT !.intr = @ \ {line}], line, delay)

\* ... or is to come when the RDP is unfrozen.
PluginHoldsBack(line) ==
    /\ ~m.frame
    /\ m' = [m EXCEPT !.intr = @ \ {line}]

PluginWrites ==
    \E line \in PluginLines :
        \/ PluginRaises(line)
        \/ \E n \in Steps, delay \in Delays : PluginDefers(line, n, delay)
        \/ PluginHoldsBack(line)

\* Between two frames the frontend presses a reset button, loads the state it
\* has just saved, or runs the next frame.
SoftReset ==
    /\ "soft" \in Buttons
    /\ m.frame
    /\ GetEvent(m.q, "HW2") = {}
    /\ GetEvent(m.q, "NMI") = {}
    /\ m' = AddInterruptEvent(AddInterruptEvent(m, "HW2", 0), "NMI", NMIDelay)

HardReset ==
    /\ "hard" \in Buttons
    /\ m.frame
    /\ ~m.reset
    /\ m' = [m EXCEPT !.reset = TRUE]

Reload ==
    /\ m.frame
    /\ m' = LoadEventQueueInfos(m, SaveEventQueueInfos(m))

RunFrame ==
    /\ m.frame
    /\ m' = [m EXCEPT !.frame = FALSE]

Next ==
    \/ \E n \in Steps : Branch(n) \/ IdleBranch(n) \/ Eret(n) \/ ObserveCount(n)
    \/ \E n \in Steps, d \in Devices, delay \in Delays : StartDevice(d, n, delay)
    \/ \E n \in Steps, slot \in BOOLEAN :
          \/ Syscall(n, slot)
          \/ \E value \in CountWrites : MtcCount(n, value, slot)
          \/ \E w \in StatusWrites : MtcStatus(n, w, slot)
          \/ \E lines \in MaskWrites : WriteMiMask(n, lines, slot)
    \/ \E n \in Steps, gap \in CompareGaps : MtcCompare(n, gap)
    \/ \E line \in Lines : SignalLine(line) \/ AcknowledgeLine(line)
    \/ PluginWrites
    \/ SoftReset
    \/ HardReset
    \/ Reload
    \/ RunFrame

vars == <<m>>

Spec == Init /\ [][Next]_vars

-----------------------------------------------------------------------------
TypeOK == m \in Machine

\* Exactly one SPECIAL_INT and one COMPARE_INT are queued at any time, through
\* register writes, resets and reloads: gen_interrupt reads the type of the
\* head with no test for an empty queue, and the range of COUNT is never left
\* without an event that cuts it in two.
Sole(q, type) == \E i \in DOMAIN q : GetEvent(q, type) = {i}
Anchored == Sole(m.q, "SPECIAL") /\ Sole(m.q, "COMPARE")

\* next_interrupt and cycle_count, which the cores test at every branch, agree
\* with the head of the queue and COUNT whenever no skip_jump is pending, also
\* after the operations that remove an event without refreshing them.
HeadMirrored ==
    ~m.skip => /\ m.next = m.q[1].count
               /\ m.cycle = S(m.count - m.q[1].count)

\* CAUSE.IP2 is MI's: a step that changes it, or the lines MI lets through, leaves it
\* asserted exactly if there is one, through mask writes, acknowledgements, served events
\* and resets.  The CPU and MI each keep their copy, and nothing recomputes it but the
\* calls the code makes.  The plugin's own writes of MI_INTR make none of them (plugin.c
\* at gfx_plugin_check_interrupts): after one, CAUSE is stale until the next step that
\* changes either.
Ip2Agrees == "IP2" \in m.ip <=> m.intr \cap m.mask # {}
Ip2FollowsMi ==
    /\ Ip2Agrees
    /\ [][\/ PluginWrites
          \/ Ip2Agrees'
          \/ /\ "IP2" \in m'.ip <=> "IP2" \in m.ip
             /\ m'.intr \cap m'.mask = m.intr \cap m.mask]_vars

\* The next interrupt is never further than half the range of COUNT ahead,
\* where the signed cycle_count would call it overdue ("will never exceed
\* 2^31", special_int_handler): a head that looks overdue is a few branches
\* late, no more.
HeadWithinReach == ~m.skip => m.cycle <= LateBound

\* No event is served before COUNT reaches it.
NeverEarly == ~m.early

\* The queue is in the order in which COUNT meets its events, counted from an
\* overdue head or else from the present, so that testing the head is enough.
\* COMPARE_INT is left out: set within count_per_op of COUNT, it is queued for a
\* full period later.
Distance(e) == U(e.count - Origin(m))
InOrder ==
    ~m.skip =>
        \A i, j \in DOMAIN m.q \ GetEvent(m.q, "COMPARE") :
            i < j => Distance(m.q[i]) <= Distance(m.q[j])

\* The pool is large enough for what a program can have queued at once: no
\* event is forgotten, so no device waits forever.
NothingDropped == ~m.dropped

\* An interrupt exception is entered only while STATUS lets one in and CAUSE
\* has a line that asks for one ("if not masked", mi_controller.c).
TakenOnlyUnmasked == ~m.spurious

\* A state saved at the end of a frame and loaded keeps every event in its
\* place (SPECIAL_INT is armed afresh), and the loaded views agree with the
\* loaded head.  Not where the frame ended in a write that leaves COUNT within
\* count_per_op of COMPARE: the load lacks the term of AddCompare.
Others(c) == RemoveEvent(c, "SPECIAL").q
SaveLoadFaithful ==
    LET loaded == LoadEventQueueInfos(m, SaveEventQueueInfos(m))
    IN  m.frame /\ U(m.compare - m.count) >= CountPerOp =>
        /\ Others(loaded) = Others(m)
        /\ Sole(loaded.q, "SPECIAL")
        /\ loaded.cycle = S(m.count - loaded.q[1].count)

\* A program loops, so it branches for ever, through the frames the frontend
\* runs one after the other.
Fairness == []<><<\E n \in Steps : Branch(n)>>_vars
FairSpec == Spec /\ Fairness

\* A queued event of a device is served in the end, whatever is queued ahead of
\* it, and however often COUNT is written.
DeviceServed ==
    \A d \in Devices \ {"VI"} :
        GetEvent(m.q, d) # {} ~> GetEvent(m.q, d) = {}

\* An interrupt that STATUS lets in and that waits for the end of the block, because the
\* program raised, unmasked or enabled it there, is taken at the first branch, whatever the
\* program does to the registers and the queue before it: the CHECK_INT that stands for it
\* is still at the head, and due.  Not while the branch that an exception has annulled is
\* to be skipped, nor when the pool had no node left for CHECK_INT.
PendingTaken ==
    [][\A n \in Steps :
          /\ Branch(n) \/ IdleBranch(n)
          /\ Deliverable(m) /\ ~m.skip /\ ~m.dropped
          => ~Deliverable(m')]_vars
=============================================================================

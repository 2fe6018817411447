--------------------------- MODULE InterruptQueue ---------------------------
(***************************************************************************)
(* The event queue of the emulated R4300 (device/r4300/interrupt.c): a     *)
(* list of [type, count] events kept in the order in which a COUNT register *)
(* that wraps will meet them, a bounded pool of nodes, and the two cached   *)
(* views of its head that the execution cores test at every branch:         *)
(* next_interrupt (the head's count) and cycle_count (COUNT minus the       *)
(* head's count, negative while the head is still to come).                 *)
(*                                                                         *)
(* The operators below take and return a record c with the fields          *)
(*   count  the CP0 COUNT register          next   next_interrupt           *)
(*   cycle  cycle_count, a signed int       q      the queue, head first    *)
(*   dropped  ghost: an event found the pool empty and was forgotten        *)
(* and possibly others, which they leave alone.  An action of the machine   *)
(* is a composition of them, in the order in which the code calls them.     *)
(***************************************************************************)
EXTENDS Integers, Sequences, SequencesExt

CONSTANTS HalfRange,      \* 2^31 in the code: half the range of COUNT
          CountPerOp,     \* count_per_op
          PoolCapacity,   \* INTERRUPT_NODES_POOL_CAPACITY, 16 in the code
          Devices         \* the device events: "VI", "SI", "PI", ...

ASSUME HalfRangeAssumption    == HalfRange \in Nat /\ HalfRange > 1
ASSUME CountPerOpAssumption   == CountPerOp \in Nat /\ CountPerOp > 0
ASSUME PoolCapacityAssumption == PoolCapacity \in Nat /\ PoolCapacity > 1

CoreEvents == {"SPECIAL", "COMPARE", "CHECK", "HW2", "NMI"}

ASSUME DevicesAssumption == Devices \cap CoreEvents = {}

EventTypes == CoreEvents \cup Devices

Modulus == 2 * HalfRange

Counts == 0 .. Modulus - 1
Cycles == -HalfRange .. HalfRange - 1

\* Assignment to an unsigned int, and to a signed one.
U(x) == x % Modulus
S(x) == ((x + HalfRange) % Modulus) - HalfRange

Event(type, count) == [type |-> type, count |-> count]
Events == [type : EventTypes, count : Counts]

-----------------------------------------------------------------------------
\* Fault: distances are measured from COUNT also when the head is overdue.
OriginNow(c) == c.count

\* The origin distances are measured from: the due time of an overdue head,
\* as cycle_count remembers it, else the present.
Origin(c) == IF c.cycle > 0 THEN U(c.count - c.cycle) ELSE c.count

\* Fault: counts compared as numbers, as if COUNT did not wrap.
BeforeEventUnwrapped(c, evt1, evt2) == evt1 < evt2

BeforeEvent(c, evt1, evt2) == U(evt1 - Origin(c)) < U(evt2 - Origin(c))

\* The place of a new event: ahead of the first event it comes strictly
\* before, so that events of equal count stay in order of arrival.
InsertPosition(c, count) ==
    LET later == {i \in DOMAIN c.q : BeforeEvent(c, count, c.q[i].count)}
    IN  Min(later \cup {Len(c.q) + 1})

\* Fault: cycle_count kept unsigned.
MirrorUnsigned(c) ==
    IF c.q = <<>>
    THEN [c EXCEPT !.next = 0, !.cycle = 0]
    ELSE [c EXCEPT !.next = c.q[1].count, !.cycle = U(c.count - c.q[1].count)]

\* next_interrupt and cycle_count recomputed from the head of a queue.
Mirror(c) ==
    IF c.q = <<>>
    THEN [c EXCEPT !.next = 0, !.cycle = 0]
    ELSE [c EXCEPT !.next = c.q[1].count, !.cycle = S(c.count - c.q[1].count)]

\* A second event of a queued type is only warned about; an event that finds
\* no free node is forgotten.
AddInterruptEventCount(c, type, count) ==
    IF Len(c.q) >= PoolCapacity
    THEN [c EXCEPT !.dropped = TRUE]
    ELSE Mirror([c EXCEPT !.q =
             InsertAt(@, InsertPosition(c, count), Event(type, count))])

AddInterruptEvent(c, type, delay) ==
    AddInterruptEventCount(c, type, U(c.count + delay))

RemoveInterruptEvent(c) == Mirror([c EXCEPT !.q = Tail(@)])

GetEvent(q, type) == {i \in DOMAIN q : q[i].type = type}

\* remove_event: the first event of a type leaves, and the cached views of the
\* head are NOT refreshed.
RemoveEvent(c, type) ==
    LET found == GetEvent(c.q, type)
    IN  IF found = {} THEN c
        ELSE [c EXCEPT !.q = RemoveAt(@, Min(found))]

-----------------------------------------------------------------------------
\* cp0_update_count for a stretch of code worth n counts.
UpdateCount(c, n) ==
    [c EXCEPT !.count = U(@ + n), !.cycle = S(@ + n)]

\* The other half of COUNT's range, where SPECIAL_INT is armed.
OppositeHalf(count) == IF count < HalfRange THEN HalfRange ELSE 0

AddSpecial(c) == AddInterruptEventCount(c, "SPECIAL", OppositeHalf(c.count))

\* Fault: cycle_count left as the insertion computed it, count_per_op ahead.
AddCompareUnrefreshed(c, compare) ==
    LET ahead == [c EXCEPT !.count = U(@ + CountPerOp), !.cycle = S(@ + CountPerOp)]
    IN  [AddInterruptEventCount(ahead, "COMPARE", compare) EXCEPT !.count = c.count]

\* COMPARE_INT is inserted as if COUNT were already count_per_op further, so
\* that a COMPARE equal to COUNT means one full period; cycle_count is then
\* recomputed (next_interrupt is the one the insertion left).
AddCompare(c, compare) ==
    LET ahead == [c EXCEPT !.count = U(@ + CountPerOp), !.cycle = S(@ + CountPerOp)]
        added == AddInterruptEventCount(ahead, "COMPARE", compare)
    IN  [added EXCEPT !.count = c.count,
                      !.cycle = S(c.count - added.q[1].count)]

ClearQueue(c) == [c EXCEPT !.q = <<>>]

InitInterrupt(c) ==
    AddInterruptEventCount(
        AddInterruptEventCount(ClearQueue(c), "SPECIAL", HalfRange), "COMPARE", 0)

\* Fault: the events are not moved with COUNT.
TranslateEventQueueInPlace(c, base, compare) ==
    LET kept == RemoveEvent(RemoveEvent(c, "COMPARE"), "SPECIAL")
    IN  AddCompare(AddSpecial([kept EXCEPT !.count = base]), compare)

\* A write of COUNT: every event keeps its distance from COUNT, but for
\* COMPARE and SPECIAL, which are absolute.
TranslateEventQueue(c, base, compare) ==
    LET kept    == RemoveEvent(RemoveEvent(c, "COMPARE"), "SPECIAL")
        shifted == [kept EXCEPT
                      !.q = [i \in DOMAIN kept.q |->
                               [kept.q[i] EXCEPT !.count = U((@ - c.count) + base)]],
                      !.count = base]
    IN  AddCompare(AddSpecial(shifted), compare)

\* save_eventqueue_infos writes the events head first; load_eventqueue_infos
\* inserts them one by one in a cleared queue and arms SPECIAL_INT afresh.
SaveEventQueueInfos(c) == c.q

\* The queue after each of the insertions.
Refill(c, saved) ==
    LET filled[n \in 0 .. Len(saved)] ==
            IF n = 0 THEN ClearQueue(c)
            ELSE AddInterruptEventCount(filled[n - 1], saved[n].type, saved[n].count)
    IN  filled

\* Fault: the saved SPECIAL_INT is kept beside the fresh one.
LoadEventQueueInfosTwice(c, saved) == AddSpecial(Refill(c, saved)[Len(saved)])

LoadEventQueueInfos(c, saved) ==
    LET loaded == Refill(c, saved)[Len(saved)]
    IN  AddSpecial(RemoveEvent(
            [c EXCEPT !.q = loaded.q, !.next = loaded.next, !.cycle = loaded.cycle,
                      !.dropped = loaded.dropped], "SPECIAL"))

\* CHECK_INT goes ahead of everything, due now, whatever else is queued.
PushCheck(c) ==
    IF Len(c.q) >= PoolCapacity
    THEN [c EXCEPT !.dropped = TRUE]
    ELSE [c EXCEPT !.q = <<Event("CHECK", c.count)>> \o @,
                   !.next = c.count,
                   !.cycle = 0]
=============================================================================

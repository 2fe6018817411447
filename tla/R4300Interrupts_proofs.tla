------------------------ MODULE R4300Interrupts_proofs ------------------------
(***************************************************************************)
(* For every range of COUNT, pool, set of devices and program.               *)
(*                                                                         *)
(* First, CAUSE.IP2 follows MI's unmasked lines, but where a plugin writes    *)
(* MI's register itself.  That proof does not look into the queue: it follows *)
(* the two registers through every operation, and needs of the machine only  *)
(* that it has its fields.                                                  *)
(*                                                                         *)
(* Then, for a Hosted machine, the queue: it always holds SPECIAL_INT and    *)
(* COMPARE_INT, never two events of a type, and CHECK_INT only inside an     *)
(* instruction, so that the pool suffices, the cached views are those of the *)
(* head, no event is served early and no interrupt is taken while masked.    *)
(* The invariant is Steady, and the operations of the queue are shown to     *)
(* keep the parts of it that they can.                                      *)
(***************************************************************************)
EXTENDS R4300Interrupts, FiniteSetTheorems, SequenceTheorems, TLAPS

Fields == {"count", "cycle", "next", "q", "compare", "ie", "exl", "im", "ip", "intr",
           "mask", "skip", "reset", "frame", "dropped", "early", "spurious"}

Shaped(c) == DOMAIN c = Fields

\* A machine d made of b: CAUSE agrees with MI, or neither has changed.
Agrees(d, b) ==
    /\ Shaped(d)
    /\ \/ "IP2" \in d.ip <=> d.intr \cap d.mask # {}
       \/ /\ "IP2" \in d.ip <=> "IP2" \in b.ip
          /\ d.intr \cap d.mask = b.intr \cap b.mask

\* d has what c had in CAUSE and MI.
SameLines(d, c) == Shaped(d) /\ d.ip = c.ip /\ d.intr = c.intr /\ d.mask = c.mask

-----------------------------------------------------------------------------
\* The operations of the queue leave CAUSE and MI alone.
LEMMA MirrorLines == ASSUME NEW c, Shaped(c) PROVE SameLines(Mirror(c), c)
  BY DEF Mirror, SameLines, Shaped, Fields

LEMMA QueueLines ==
    ASSUME NEW c, Shaped(c), NEW x
    PROVE  SameLines([c EXCEPT !.q = x], c)
  BY DEF SameLines, Shaped, Fields

LEMMA AddLines ==
    ASSUME NEW c, Shaped(c), NEW type, NEW count
    PROVE  SameLines(AddInterruptEventCount(c, type, count), c)
  <1> DEFINE x == InsertAt(c.q, InsertPosition(c, count), Event(type, count))
  <1>1. SameLines([c EXCEPT !.q = x], c)
    BY QueueLines
  <1>2. SameLines(Mirror([c EXCEPT !.q = x]), c)
    BY <1>1, MirrorLines DEF SameLines
  <1>3. SameLines([c EXCEPT !.dropped = TRUE], c)
    BY DEF SameLines, Shaped, Fields
  <1>4. AddInterruptEventCount(c, type, count)
          = IF Len(c.q) >= PoolCapacity THEN [c EXCEPT !.dropped = TRUE]
            ELSE Mirror([c EXCEPT !.q = x])
    BY DEF AddInterruptEventCount
  <1> QED  BY <1>2, <1>3, <1>4

LEMMA AddDelayLines ==
    ASSUME NEW c, Shaped(c), NEW type, NEW delay
    PROVE  SameLines(AddInterruptEvent(c, type, delay), c)
  BY AddLines DEF AddInterruptEvent

LEMMA PopLines == ASSUME NEW c, Shaped(c) PROVE SameLines(RemoveInterruptEvent(c), c)
  <1> DEFINE popped == [c EXCEPT !.q = Tail(@)]
  <1>1. SameLines(popped, c)
    BY QueueLines
  <1>2. RemoveInterruptEvent(c) = Mirror(popped)
    BY DEF RemoveInterruptEvent
  <1> HIDE DEF popped
  <1> QED  BY <1>1, <1>2, MirrorLines DEF SameLines

LEMMA RemoveLines ==
    ASSUME NEW c, Shaped(c), NEW type
    PROVE  SameLines(RemoveEvent(c, type), c)
  <1>1. \A x : SameLines([c EXCEPT !.q = x], c)
    BY QueueLines
  <1>2. SameLines(c, c)
    BY DEF SameLines
  <1>3. \/ RemoveEvent(c, type) = c
        \/ RemoveEvent(c, type) = [c EXCEPT !.q = RemoveAt(@, Min(GetEvent(c.q, type)))]
    BY DEF RemoveEvent
  <1> QED  BY <1>1, <1>2, <1>3

LEMMA UpdateLines ==
    ASSUME NEW c, Shaped(c), NEW n
    PROVE  SameLines(UpdateCount(c, n), c)
  BY DEF UpdateCount, SameLines, Shaped, Fields

LEMMA SpecialLines == ASSUME NEW c, Shaped(c) PROVE SameLines(AddSpecial(c), c)
  BY AddLines DEF AddSpecial

LEMMA CompareLines ==
    ASSUME NEW c, Shaped(c), NEW compare
    PROVE  SameLines(AddCompare(c, compare), c)
  <1> DEFINE ahead == [c EXCEPT !.count = U(@ + CountPerOp), !.cycle = S(@ + CountPerOp)]
             added == AddInterruptEventCount(ahead, "COMPARE", compare)
  <1>1. SameLines(ahead, c)
    BY DEF SameLines, Shaped, Fields
  <1> HIDE DEF ahead
  <1>2. SameLines(added, ahead)
    BY <1>1, AddLines DEF SameLines
  <1> HIDE DEF added
  <1>3. SameLines([added EXCEPT !.count = c.count,
                                !.cycle = S(c.count - added.q[1].count)], c)
    BY <1>1, <1>2 DEF SameLines, Shaped, Fields
  <1> QED  BY <1>3 DEF AddCompare, added, ahead

LEMMA InitLines == ASSUME NEW c, Shaped(c) PROVE SameLines(InitInterrupt(c), c)
  <1>1. SameLines(ClearQueue(c), c)
    BY QueueLines DEF ClearQueue
  <1>2. SameLines(AddInterruptEventCount(ClearQueue(c), "SPECIAL", HalfRange), c)
    BY <1>1, AddLines DEF SameLines
  <1> QED  BY <1>2, AddLines DEF InitInterrupt, SameLines

LEMMA TranslateLines ==
    ASSUME NEW c, Shaped(c), NEW base, NEW compare
    PROVE  SameLines(TranslateEventQueue(c, base, compare), c)
  <1> DEFINE kept    == RemoveEvent(RemoveEvent(c, "COMPARE"), "SPECIAL")
             moved   == [i \in DOMAIN kept.q |->
                          [kept.q[i] EXCEPT !.count = U((@ - c.count) + base)]]
             shifted == [kept EXCEPT !.q = moved, !.count = base]
  <1>1. SameLines(kept, c)
    BY RemoveLines DEF SameLines
  <1> HIDE DEF kept
  <1>2. \A x : SameLines([kept EXCEPT !.q = x, !.count = base], c)
    BY <1>1 DEF SameLines, Shaped, Fields
  <1>3. SameLines(shifted, c)
    BY <1>2
  <1> HIDE DEF shifted
  <1>4. SameLines(AddSpecial(shifted), c)
    BY <1>3, SpecialLines DEF SameLines
  <1>5. SameLines(AddCompare(AddSpecial(shifted), compare), c)
    BY <1>4, CompareLines DEF SameLines
  <1> QED  BY <1>5 DEF TranslateEventQueue, shifted, kept

LEMMA LoadLines ==
    ASSUME NEW c, Shaped(c), NEW saved
    PROVE  SameLines(LoadEventQueueInfos(c, saved), c)
  <1>1. ASSUME NEW w, NEW x, NEW y, NEW z
        PROVE  SameLines(AddSpecial(RemoveEvent(
                   [c EXCEPT !.q = w, !.next = x, !.cycle = y, !.dropped = z], "SPECIAL")), c)
    <2> DEFINE e == [c EXCEPT !.q = w, !.next = x, !.cycle = y, !.dropped = z]
    <2>1. SameLines(e, c)
      BY DEF SameLines, Shaped, Fields
    <2> HIDE DEF e
    <2>2. SameLines(RemoveEvent(e, "SPECIAL"), c)
      BY <2>1, RemoveLines DEF SameLines
    <2>3. SameLines(AddSpecial(RemoveEvent(e, "SPECIAL")), c)
      BY <2>2, SpecialLines DEF SameLines
    <2> QED  BY <2>3 DEF e
  <1> QED  BY <1>1 DEF LoadEventQueueInfos

LEMMA PushLines == ASSUME NEW c, Shaped(c) PROVE SameLines(PushCheck(c), c)
  BY DEF PushCheck, SameLines, Shaped, Fields

-----------------------------------------------------------------------------
\* What sets or clears a line, or IP2, leaves the two in agreement.
LEMMA CheckAgrees == ASSUME NEW c, NEW b, Shaped(c) PROVE Agrees(CheckInterrupt(c), b)
  <1> DEFINE caused == [c EXCEPT !.ip = IF c.intr \cap c.mask # {}
                                        THEN @ \cup {"IP2"} ELSE @ \ {"IP2"}]
  <1>1. Agrees(caused, b)
    BY DEF Agrees, Shaped, Fields
  <1>2. CheckInterrupt(c) = IF Deliverable(caused) THEN PushCheck(caused) ELSE caused
    BY DEF CheckInterrupt
  <1> HIDE DEF caused
  <1> QED  BY <1>1, <1>2, PushLines DEF Agrees, SameLines

LEMMA SameAgrees ==
    ASSUME NEW c, NEW b, Agrees(c, b), NEW d, SameLines(d, c)
    PROVE  Agrees(d, b)
  BY DEF Agrees, SameLines

LEMMA TakeLines ==
    ASSUME NEW c, Shaped(c), NEW slot
    PROVE  /\ SameLines(ExceptionGeneral(c, slot), c)
           /\ SameLines(TakeInterrupt(c, slot), c)
  <1>1. \A e : Shaped(e) => SameLines(ExceptionGeneral(e, slot), e)
    <2> SUFFICES ASSUME NEW e, Shaped(e) PROVE SameLines(ExceptionGeneral(e, slot), e)
      OBVIOUS
    <2> QED  BY DEF ExceptionGeneral, SameLines, Shaped, Fields
  <1>2. SameLines([c EXCEPT !.spurious = @ \/ ~Deliverable(c)], c)
    BY DEF SameLines, Shaped, Fields
  <1>3. SameLines(TakeInterrupt(c, slot), c)
    BY <1>1, <1>2 DEF TakeInterrupt, SameLines
  <1> QED  BY <1>1, <1>3

\* Raising another line of CAUSE does not touch IP2.
LEMMA MaskableAgrees ==
    ASSUME NEW c, NEW b, Agrees(c, b), NEW line, NEW slot,
           line = "IP2" => c.intr \cap c.mask # {}
    PROVE  Agrees(RaiseMaskableInterrupt(c, line, slot), b)
  <1> DEFINE raised == [c EXCEPT !.ip = @ \cup {line}]
  <1>1. Agrees(raised, b)
    BY DEF Agrees, Shaped, Fields
  <1>2. RaiseMaskableInterrupt(c, line, slot)
          = IF Deliverable(raised) THEN TakeInterrupt(raised, slot) ELSE raised
    BY DEF RaiseMaskableInterrupt
  <1> HIDE DEF raised
  <1> QED  BY <1>1, <1>2, TakeLines, SameAgrees DEF Agrees

LEMMA RaiseRcpAgrees ==
    ASSUME NEW c, NEW b, Agrees(c, b), NEW line, NEW slot
    PROVE  Agrees(RaiseRcpInterrupt(c, line, slot), b)
  <1> DEFINE raised == [c EXCEPT !.intr = @ \cup {line}]
             told   == [raised EXCEPT !.ip = @ \cup {"IP2"}]
  <1>1. Shaped(raised) /\ raised.ip = c.ip /\ raised.mask = c.mask
        /\ raised.intr = c.intr \cup {line}
    BY DEF Agrees, Shaped, Fields
  <1> HIDE DEF raised
  <1>2. CASE raised.intr \cap raised.mask # {}
    <2>1. Agrees(told, b) /\ told.intr = raised.intr /\ told.mask = raised.mask
      BY <1>1, <1>2 DEF Agrees, Shaped, Fields
    <2>2. RaiseRcpInterrupt(c, line, slot)
            = IF Deliverable(told) THEN TakeInterrupt(told, slot) ELSE told
      BY <1>2 DEF RaiseRcpInterrupt, RaiseMaskableInterrupt, raised
    <2> HIDE DEF told
    <2> QED  BY <2>1, <2>2, TakeLines, SameAgrees DEF Agrees
  <1>3. CASE raised.intr \cap raised.mask = {}
    <2>1. Agrees(raised, b)
      BY <1>1, <1>3 DEF Agrees
    <2>2. RaiseRcpInterrupt(c, line, slot) = raised
      BY <1>3 DEF RaiseRcpInterrupt, raised
    <2> QED  BY <2>1, <2>2
  <1> QED  BY <1>2, <1>3

LEMMA SignalAgrees ==
    ASSUME NEW c, NEW b, Shaped(c), NEW line
    PROVE  Agrees(SignalRcpInterrupt(c, line), b) /\ Agrees(ClearRcpInterrupt(c, line), b)
  <1>1. Shaped([c EXCEPT !.intr = @ \cup {line}]) /\ Shaped([c EXCEPT !.intr = @ \ {line}])
    BY DEF Shaped, Fields
  <1> QED  BY <1>1, CheckAgrees DEF SignalRcpInterrupt, ClearRcpInterrupt

-----------------------------------------------------------------------------
\* Every handler of gen_interrupt keeps the agreement, the resets included.
LEMMA ViAgrees ==
    ASSUME NEW c, NEW b, Agrees(c, b), NEW slot
    PROVE  Agrees(ViVerticalInterruptEvent(c, slot), b)
  <1> DEFINE yielded == [c EXCEPT !.frame = TRUE]
             next_vi == U(c.q[Min(GetEvent(c.q, "VI"))].count + VIDelay)
             armed   == AddInterruptEventCount(RemoveInterruptEvent(yielded), "VI", next_vi)
  <1>1. SameLines(yielded, c)
    BY DEF Agrees, SameLines, Shaped, Fields
  <1> HIDE DEF yielded, next_vi
  <1>2. SameLines(RemoveInterruptEvent(yielded), c)
    BY <1>1, PopLines DEF SameLines
  <1>3. SameLines(armed, c)
    BY <1>2, AddLines DEF SameLines
  <1> HIDE DEF armed
  <1>4. Agrees(RaiseRcpInterrupt(armed, "VI", slot), b)
    BY <1>3, SameAgrees, RaiseRcpAgrees
  <1> QED  BY <1>4 DEF ViVerticalInterruptEvent, yielded, next_vi, armed

LEMMA NmiAgrees == ASSUME NEW c, NEW b, Shaped(c) PROVE Agrees(NmiIntHandler(c), b)
  <1> DEFINE booted  == [c EXCEPT !.ie = FALSE, !.exl = FALSE, !.im = {}, !.ip = {}]
             lowered == [booted EXCEPT !.intr = @ \ {"SP", "PI", "VI"}]
             cleared == CheckInterrupt(lowered)
             zeroed  == [cleared EXCEPT !.count = 0]
  <1>1. Shaped(lowered)
    BY DEF Shaped, Fields
  <1> HIDE DEF lowered
  <1>2. Agrees(cleared, b)
    BY <1>1, CheckAgrees
  <1> HIDE DEF cleared
  <1>3. Agrees(zeroed, b)
    BY <1>2 DEF Agrees, Shaped, Fields
  <1> HIDE DEF zeroed
  <1>4. Agrees(InitInterrupt(zeroed), b)
    BY <1>3, InitLines, SameAgrees DEF Agrees
  <1>5. Agrees(AddInterruptEvent(InitInterrupt(zeroed), "VI", VIDelay), b)
    BY <1>4, AddDelayLines, SameAgrees DEF Agrees
  <1> QED  BY <1>5 DEF NmiIntHandler, zeroed, cleared, lowered

LEMMA PoweredOnAgrees == ASSUME NEW c, NEW b, Shaped(c) PROVE Agrees(PoweredOn(c), b)
  <1> DEFINE fresh ==
        [c EXCEPT !.count = PowerOnCount, !.cycle = 0, !.next = 0, !.q = <<>>, !.compare = 0,
                  !.ie = FALSE, !.exl = FALSE, !.im = {}, !.ip = {},
                  !.intr = {}, !.mask = {}, !.skip = FALSE, !.reset = FALSE]
  <1>0. Shaped(fresh) /\ fresh.ip = {} /\ fresh.intr = {}
    BY DEF Shaped, Fields
  <1>1. Agrees(fresh, b)
    <2> HIDE DEF fresh
    <2> QED  BY <1>0 DEF Agrees
  <1> HIDE DEF fresh
  <1>2. Agrees(InitInterrupt(fresh), b)
    BY <1>1, InitLines, SameAgrees DEF Agrees
  <1> QED  BY <1>2 DEF PoweredOn, fresh

LEMMA ServeAgrees ==
    ASSUME NEW c, NEW b, Agrees(c, b), NEW slot
    PROVE  Agrees(Serve(c, slot), b)
  <1> DEFINE type   == c.q[1].type
             ahead  == [c EXCEPT !.early = @ \/ S(c.count - c.q[1].count) < 0]
             popped == RemoveInterruptEvent(ahead)
  <1>1. Agrees(ahead, b)
    BY DEF Agrees, Shaped, Fields
  <1>2. Serve(c, slot) =
          CASE type = "VI"      -> ViVerticalInterruptEvent(ahead, slot)
            [] type = "SPECIAL" -> SpecialIntHandler(ahead)
            [] type = "COMPARE" -> CompareIntHandler(popped, slot)
            [] type = "CHECK"   -> CheckIntHandler(popped, slot)
            [] type = "HW2"     -> RaiseMaskableInterrupt(popped, "IP4", slot)
            [] type = "NMI"     -> NmiIntHandler(popped)
            [] OTHER            -> RaiseRcpInterrupt(popped, type, slot)
    BY DEF Serve
  <1> HIDE DEF ahead, type
  <1>3. Agrees(popped, b)
    BY <1>1, PopLines, SameAgrees DEF Agrees
  <1>4. Agrees(ViVerticalInterruptEvent(ahead, slot), b)
    BY <1>1, ViAgrees
  <1>5. Agrees(SpecialIntHandler(ahead), b)
    BY <1>3, SpecialLines, SameAgrees DEF SpecialIntHandler, Agrees
  <1> HIDE DEF popped
  <1>6. Agrees(CompareIntHandler(popped, slot), b)
    <2>1. Agrees(AddCompare(popped, popped.compare), b)
      BY <1>3, CompareLines, SameAgrees DEF Agrees
    <2> QED  BY <2>1, MaskableAgrees DEF CompareIntHandler
  <1>7. Agrees(CheckIntHandler(popped, slot), b)
    BY <1>3, TakeLines, SameAgrees DEF CheckIntHandler, Agrees
  <1>8. Agrees(RaiseMaskableInterrupt(popped, "IP4", slot), b)
    BY <1>3, MaskableAgrees
  <1>9. Agrees(NmiIntHandler(popped), b)
    BY <1>3, NmiAgrees DEF Agrees
  <1>10. Agrees(RaiseRcpInterrupt(popped, type, slot), b)
    BY <1>3, RaiseRcpAgrees
  <1> QED  BY <1>2, <1>4, <1>5, <1>6, <1>7, <1>8, <1>9, <1>10

LEMMA GenAgrees ==
    ASSUME NEW c, NEW b, Agrees(c, b), NEW unsafe, NEW slot
    PROVE  /\ Agrees(GenInterrupt(c, unsafe, slot), b)
           /\ Agrees(GenIfDue(c, unsafe, slot), b)
           /\ Agrees(EndBranch(c, slot), b)
  <1>1. \A u, s : Agrees(GenInterrupt(c, u, s), b)
    <2> SUFFICES ASSUME NEW u, NEW s PROVE Agrees(GenInterrupt(c, u, s), b)
      OBVIOUS
    <2>0. Shaped(c)
      BY DEF Agrees
    <2>1. Agrees(PoweredOn(c), b) /\ Agrees(Serve(c, s), b)
      BY <2>0, PoweredOnAgrees, ServeAgrees
    <2>2. Agrees(Mirror([c EXCEPT !.skip = FALSE]), b)
      <3> DEFINE d == [c EXCEPT !.skip = FALSE]
      <3>1. SameLines(d, c)
        BY <2>0 DEF SameLines, Shaped, Fields
      <3> HIDE DEF d
      <3>2. SameLines(Mirror(d), d) /\ Agrees(d, b)
        BY <3>1, MirrorLines, SameAgrees DEF SameLines
      <3>3. Agrees(Mirror(d), b)
        BY <3>2, SameAgrees
      <3> QED  BY <3>3 DEF d
    <2> QED  BY <2>1, <2>2 DEF GenInterrupt
  <1>2. \A u, s : Agrees(GenIfDue(c, u, s), b)
    BY <1>1 DEF GenIfDue
  <1> QED  BY <1>1, <1>2 DEF EndBranch

-----------------------------------------------------------------------------
LEMMA InitAgrees == Init => Shaped(m) /\ Ip2Agrees
  <1> DEFINE blank == [count |-> 0, cycle |-> 0, next |-> 0, q |-> <<>>, compare |-> 0,
                       ie |-> FALSE, exl |-> FALSE, im |-> {}, ip |-> {},
                       intr |-> {}, mask |-> {}, skip |-> FALSE, reset |-> FALSE,
                       frame |-> FALSE, dropped |-> FALSE, early |-> FALSE, spurious |-> FALSE]
  <1>1. Shaped(blank)
    BY DEF Shaped, Fields
  <1> HIDE DEF blank
  <1>2. Agrees(PoweredOn(blank), blank)
    BY <1>1, PoweredOnAgrees
  <1>3. "IP2" \notin blank.ip /\ blank.intr \cap blank.mask = {}
    BY DEF blank
  <1> HIDE DEF blank
  <1>4. Shaped(PoweredOn(blank))
        /\ ("IP2" \in PoweredOn(blank).ip <=> PoweredOn(blank).intr \cap PoweredOn(blank).mask # {})
    BY <1>2, <1>3 DEF Agrees
  <1> QED  BY <1>4 DEF Init, Ip2Agrees, blank

\* Every step but the plugin's.
LEMMA StepAgrees ==
    ASSUME Shaped(m), [Next]_vars
    PROVE  Agrees(m', m) \/ (PluginWrites /\ Shaped(m'))
  <1>1. Shaped(m) /\ Agrees(m, m)
    BY DEF Agrees
  <1>2. \A n : Agrees(UpdateCount(m, n), m)
    <2> SUFFICES ASSUME NEW n PROVE Agrees(UpdateCount(m, n), m)
      OBVIOUS
    <2>1. SameLines(UpdateCount(m, n), m)
      BY UpdateLines
    <2> QED  BY <1>1, <2>1, SameAgrees
  <1>3. ASSUME NEW n, Branch(n) PROVE Agrees(m', m)
    BY <1>2, <1>3, GenAgrees DEF Branch
  <1>4. ASSUME NEW n, IdleBranch(n) PROVE Agrees(m', m)
    <2> DEFINE idle == IF m.cycle < 0
                       THEN [m EXCEPT !.count = U(@ - m.cycle), !.cycle = 0]
                       ELSE m
    <2>1. Agrees(idle, m)
      BY DEF Agrees, Shaped, Fields
    <2> HIDE DEF idle
    <2>2. Agrees(UpdateCount(idle, n), m)
      BY <2>1, UpdateLines, SameAgrees DEF Agrees
    <2> QED  BY <1>4, <2>2, GenAgrees DEF IdleBranch, idle
  <1>5. ASSUME NEW n, Eret(n) PROVE Agrees(m', m)
    <2> DEFINE left == [UpdateCount(m, n) EXCEPT !.exl = FALSE]
    <2>1. Shaped(left)
      BY <1>2 DEF Agrees, Shaped
    <2> HIDE DEF left
    <2>2. Agrees(CheckInterrupt(left), m)
      BY <2>1, CheckAgrees
    <2> QED  BY <1>5, <2>2, GenAgrees DEF Eret, left
  <1>6. ASSUME NEW n, ObserveCount(n) PROVE Agrees(m', m)
    BY <1>2, <1>6 DEF ObserveCount
  <1>7. ASSUME NEW n, NEW d, NEW delay, StartDevice(d, n, delay) PROVE Agrees(m', m)
    <2>1. Agrees(AddInterruptEvent(UpdateCount(m, n), d, delay), m)
      BY <1>2, AddDelayLines, SameAgrees DEF Agrees
    <2> QED  BY <1>7, <2>1 DEF StartDevice
  <1>8. ASSUME NEW n, NEW slot, Syscall(n, slot) PROVE Agrees(m', m)
    <2>1. Agrees(ExceptionGeneral(UpdateCount(m, n), slot), m)
      <3> DEFINE now == UpdateCount(m, n)
      <3>1. Agrees(now, m) /\ Shaped(now)
        BY <1>2 DEF Agrees
      <3> HIDE DEF now
      <3>2. SameLines(ExceptionGeneral(now, slot), now)
        BY <3>1, TakeLines
      <3>3. Agrees(ExceptionGeneral(now, slot), m)
        BY <3>1, <3>2, SameAgrees
      <3> QED  BY <3>3 DEF now
    <2> QED  BY <1>8, <2>1, GenAgrees DEF Syscall
  <1>9. ASSUME NEW n, NEW value, NEW slot, MtcCount(n, value, slot) PROVE Agrees(m', m)
    <2> DEFINE served == GenIfDue(UpdateCount(m, n), TRUE, slot)
    <2>1. Agrees(served, m)
      BY <1>2, GenAgrees
    <2> HIDE DEF served
    <2>2. Agrees(TranslateEventQueue(served, value, served.compare), m)
      BY <2>1, TranslateLines, SameAgrees DEF Agrees
    <2> QED  BY <1>9, <2>2, GenAgrees DEF MtcCount, served
  <1>10. ASSUME NEW n, NEW gap, MtcCompare(n, gap) PROVE Agrees(m', m)
    <2> DEFINE now     == UpdateCount(m, n)
               compare == U(now.count + gap)
               armed   == AddCompare(RemoveEvent(now, "COMPARE"), compare)
    <2>1. m' = [armed EXCEPT !.compare = compare, !.ip = @ \ {"IP7"}]
      BY <1>10 DEF MtcCompare
    <2>2. Agrees(RemoveEvent(now, "COMPARE"), m)
      BY <1>2, RemoveLines, SameAgrees DEF Agrees
    <2> HIDE DEF now, compare
    <2>3. Agrees(armed, m)
      BY <2>2, CompareLines, SameAgrees DEF Agrees
    <2> HIDE DEF armed
    <2> QED  BY <2>1, <2>3 DEF Agrees, Shaped, Fields
  <1>11. ASSUME NEW n, NEW w, NEW slot, MtcStatus(n, w, slot) PROVE Agrees(m', m)
    <2> DEFINE loaded  == [m EXCEPT !.ie = w.ie, !.exl = w.exl, !.im = w.im]
               written == UpdateCount(loaded, n)
    <2>1. Shaped(loaded)
      BY <1>1 DEF Shaped
    <2> HIDE DEF loaded
    <2>2. Agrees(CheckInterrupt(written), m)
      BY <2>1, UpdateLines, CheckAgrees DEF SameLines
    <2>3. m' = EndBranch(GenIfDue(CheckInterrupt(written), TRUE, slot), slot)
      BY <1>11 DEF MtcStatus, loaded
    <2> QED  BY <2>2, <2>3, GenAgrees
  <1>12. ASSUME NEW n, NEW lines, NEW slot, WriteMiMask(n, lines, slot) PROVE Agrees(m', m)
    <2> DEFINE masked == [m EXCEPT !.mask = lines]
    <2>1. Shaped(masked)
      BY <1>1 DEF Shaped
    <2> HIDE DEF masked
    <2>2. Agrees(UpdateCount(CheckInterrupt(masked), n), m)
      BY <2>1, CheckAgrees, UpdateLines, SameAgrees DEF Agrees
    <2> QED  BY <1>12, <2>2, GenAgrees DEF WriteMiMask, masked
  <1>13. ASSUME NEW line, SignalLine(line) \/ AcknowledgeLine(line) PROVE Agrees(m', m)
    BY <1>1, <1>13, SignalAgrees DEF SignalLine, AcknowledgeLine
  <1>14. ASSUME SoftReset PROVE Agrees(m', m)
    <2>1. Agrees(AddInterruptEvent(m, "HW2", 0), m)
      BY <1>1, AddDelayLines, SameAgrees
    <2>2. Agrees(AddInterruptEvent(AddInterruptEvent(m, "HW2", 0), "NMI", NMIDelay), m)
      BY <2>1, AddDelayLines, SameAgrees DEF Agrees
    <2> QED  BY <1>14, <2>2 DEF SoftReset
  <1>15. ASSUME HardReset \/ RunFrame PROVE Agrees(m', m)
    BY <1>15 DEF HardReset, RunFrame, Agrees, Shaped, Fields
  <1>16. ASSUME Reload PROVE Agrees(m', m)
    BY <1>1, <1>16, LoadLines, SameAgrees DEF Reload
  <1>17. ASSUME UNCHANGED vars PROVE Agrees(m', m)
    BY <1>1, <1>17 DEF vars
  <1>18. ASSUME PluginWrites PROVE Shaped(m')
    <2>1. PICK line \in PluginLines :
            \/ PluginRaises(line)
            \/ \E n \in Steps, delay \in Delays : PluginDefers(line, n, delay)
            \/ PluginHoldsBack(line)
      BY <1>18 DEF PluginWrites
    <2>2. ASSUME PluginRaises(line) \/ PluginHoldsBack(line) PROVE Shaped(m')
      BY <2>2 DEF PluginRaises, PluginHoldsBack, Shaped
    <2>3. ASSUME NEW n, NEW delay, PluginDefers(line, n, delay) PROVE Shaped(m')
      <3> DEFINE taken == [UpdateCount(m, n) EXCEPT !.intr = @ \ {line}]
      <3>1. Shaped(taken)
        BY <1>2 DEF Agrees, Shaped
      <3>2. m' = AddInterruptEvent(taken, line, delay)
        BY <2>3 DEF PluginDefers
      <3> HIDE DEF taken
      <3> QED  BY <3>1, <3>2, AddDelayLines DEF SameLines
    <2> QED  BY <2>1, <2>2, <2>3
  <1> QED
    BY <1>3, <1>4, <1>5, <1>6, <1>7, <1>8, <1>9, <1>10, <1>11, <1>12, <1>13, <1>14,
       <1>15, <1>16, <1>17, <1>18 DEF Next

\* A step that changes CAUSE.IP2, which the CPU tests, or the lines that MI lets through,
\* leaves the two in agreement, for every set of devices and program: instructions, served
\* events, resets and reloads, all but the plugin's own writes of MI_INTR, after which
\* CAUSE is stale until such a step.
THEOREM CauseFollowsMi == Spec => Ip2FollowsMi
  <1> DEFINE Step == \/ PluginWrites
                     \/ Ip2Agrees'
                     \/ /\ "IP2" \in m'.ip <=> "IP2" \in m.ip
                        /\ m'.intr \cap m'.mask = m.intr \cap m.mask
  <1>1. Init => Shaped(m) /\ Ip2Agrees
    BY InitAgrees
  <1>2. Shaped(m) /\ [Next]_vars => Shaped(m)' /\ [Step]_vars
    <2> SUFFICES ASSUME Shaped(m), [Next]_vars PROVE Shaped(m') /\ Step
      BY DEF Shaped
    <2> QED  BY StepAgrees DEF Agrees, Ip2Agrees
  <1> QED  BY <1>1, <1>2, PTL DEF Spec, Ip2FollowsMi
-----------------------------------------------------------------------------
(* COUNT's arithmetic.                                                      *)

LEMMA RangeLarge == HalfRange \in Nat /\ HalfRange > 1 /\ Modulus \in Nat /\ Modulus > 1
                    /\ Modulus = 2 * HalfRange
  BY HalfRangeAssumption DEF Modulus

LEMMA CountType ==
    ASSUME NEW x \in Int
    PROVE  U(x) \in Counts /\ S(x) \in Cycles
  <1>1. \A y \in Int : y % Modulus \in 0 .. Modulus - 1
    BY RangeLarge
  <1>2. x % Modulus \in 0 .. Modulus - 1 /\ (x + HalfRange) % Modulus \in 0 .. Modulus - 1
    BY <1>1, RangeLarge
  <1> DEFINE y == (x + HalfRange) % Modulus
  <1> HIDE DEF y
  <1>3. y \in 0 .. Modulus - 1 => y - HalfRange \in -HalfRange .. HalfRange - 1
    BY RangeLarge
  <1> QED  BY <1>2, <1>3 DEF U, S, Counts, Cycles, y

\* A remainder is the only number of its range that is whole turns away.
LEMMA OneRemainder ==
    ASSUME NEW x \in Int, NEW k \in Int, NEW r \in 0 .. Modulus - 1, x = r + k * Modulus
    PROVE  x % Modulus = r
  <1> DEFINE p == x \div Modulus
             s == x % Modulus
  <1>1. s \in 0 .. Modulus - 1 /\ p \in Int /\ x = Modulus * p + s
    BY RangeLarge
  <1> HIDE DEF p, s
  <1>2. r - s = Modulus * (p - k)
    BY <1>1, RangeLarge
  <1>3. -Modulus < r - s /\ r - s < Modulus
    BY <1>1, RangeLarge
  <1>4. p = k
    <2> DEFINE d == p - k
               t == Modulus * d
    <2>1. d \in Int /\ t \in Int /\ t = r - s /\ r \in Int /\ s \in Int
      BY <1>1, <1>2, RangeLarge
    <2>2. -Modulus < t /\ t < Modulus
      BY <1>3, <2>1
    <2>3. d >= 1 => t >= Modulus
      BY <2>1, RangeLarge
    <2>4. d <= -1 => t <= -Modulus
      BY <2>1, RangeLarge
    <2> HIDE DEF t
    <2>5. d = 0
      <3> HIDE DEF d
      <3> QED  BY <2>1, <2>2, <2>3, <2>4, RangeLarge
    <2> QED  BY <1>1, <2>5
  <1> QED  BY <1>1, <1>2, <1>4, RangeLarge DEF s

LEMMA Turns ==
    ASSUME NEW x \in Int
    PROVE  \E k \in Int : x % Modulus = x + k * Modulus
  <1> DEFINE p == x \div Modulus
             s == x % Modulus
             k == -p
  <1>1. s \in 0 .. Modulus - 1 /\ p \in Int /\ x = Modulus * p + s
    BY RangeLarge
  <1> HIDE DEF p, s
  <1>2. k \in Int /\ s = x + k * Modulus
    BY <1>1, RangeLarge
  <1> USE DEF s
  <1> QED  BY <1>2

LEMMA SameTurns ==
    ASSUME NEW x \in Int, NEW k \in Int
    PROVE  (x + k * Modulus) % Modulus = x % Modulus
  <1>1. PICK j \in Int : x % Modulus = x + j * Modulus
    BY Turns
  <1>2. x % Modulus \in 0 .. Modulus - 1
    BY RangeLarge
  <1> DEFINE r == x % Modulus
             y == x + k * Modulus
  <1>3. y \in Int /\ y = r + (k - j) * Modulus /\ k - j \in Int
    BY <1>1, RangeLarge
  <1> HIDE DEF r, y
  <1>4. y % Modulus = r
    BY <1>2, <1>3, OneRemainder DEF r
  <1> QED  BY <1>4 DEF r, y

\* What COUNT and cycle_count forget does not matter to what is computed from them.
LEMMA WrapSum ==
    ASSUME NEW a \in Int, NEW b \in Int
    PROVE  /\ S(U(a) + b) = S(a + b) /\ S(S(a) + b) = S(a + b)
           /\ U(U(a) + b) = U(a + b)
           /\ S(b - U(a)) = S(b - a) /\ S(b - S(a)) = S(b - a)
           /\ U(b - U(a)) = U(b - a) /\ U(b - S(a)) = U(b - a)
  <1>1. PICK k \in Int : U(a) = a + k * Modulus
    BY Turns DEF U
  <1>2. PICK j \in Int : S(a) = a + j * Modulus
    <2>1. PICK j \in Int : (a + HalfRange) % Modulus = (a + HalfRange) + j * Modulus
      BY Turns, RangeLarge
    <2>2. S(a) = a + j * Modulus
      BY <2>1, RangeLarge DEF S
    <2> QED  BY <2>2
  <1>3. \A x \in Int, n \in Int : U(x + n * Modulus) = U(x) /\ S(x + n * Modulus) = S(x)
    <2> SUFFICES ASSUME NEW x \in Int, NEW n \in Int
                 PROVE  U(x + n * Modulus) = U(x) /\ S(x + n * Modulus) = S(x)
      OBVIOUS
    <2>1. U(x + n * Modulus) = U(x)
      BY SameTurns DEF U
    <2> DEFINE y == x + HalfRange
    <2>2. y \in Int /\ (x + n * Modulus) + HalfRange = y + n * Modulus
      BY RangeLarge
    <2> HIDE DEF y
    <2>3. (y + n * Modulus) % Modulus = y % Modulus
      BY <2>2, SameTurns
    <2> QED  BY <2>1, <2>2, <2>3 DEF S, y
  <1> DEFINE s == a + b
             d == b - a
  <1>4. /\ U(a) + b = s + k * Modulus /\ S(a) + b = s + j * Modulus
        /\ b - U(a) = d + (-k) * Modulus /\ b - S(a) = d + (-j) * Modulus
        /\ s \in Int /\ d \in Int /\ -k \in Int /\ -j \in Int
    BY <1>1, <1>2, RangeLarge
  <1> HIDE DEF s, d
  <1>5. /\ S(s + k * Modulus) = S(s) /\ S(s + j * Modulus) = S(s) /\ U(s + k * Modulus) = U(s)
        /\ S(d + (-k) * Modulus) = S(d) /\ S(d + (-j) * Modulus) = S(d)
        /\ U(d + (-k) * Modulus) = U(d) /\ U(d + (-j) * Modulus) = U(d)
    BY <1>3, <1>4
  <1> QED  BY <1>4, <1>5 DEF s, d

LEMMA WrapSmall ==
    /\ \A x \in Counts : U(x) = x
    /\ \A x \in Cycles : S(x) = x
    /\ S(0) = 0
  <1>1. \A x \in 0 .. Modulus - 1 : x % Modulus = x
    BY RangeLarge
  <1>2. \A x \in Cycles : x \in Int /\ x + HalfRange \in 0 .. Modulus - 1
                          /\ (x + HalfRange) - HalfRange = x
    BY RangeLarge DEF Cycles
  <1>3. \A x \in Cycles : S(x) = x
    BY <1>1, <1>2 DEF S
  <1>4. 0 \in Cycles
    BY RangeLarge DEF Cycles
  <1> QED  BY <1>1, <1>3, <1>4 DEF U, Counts

-----------------------------------------------------------------------------
(* The queue holds no type twice.                                           *)

Types(q) == {q[i].type : i \in 1 .. Len(q)}

Filed(q) ==
    /\ q \in Seq(Events)
    /\ \A i, j \in 1 .. Len(q) : q[i].type = q[j].type => i = j

LEMMA Inserted ==
    ASSUME NEW T, NEW s \in Seq(T), NEW p \in 1 .. Len(s) + 1, NEW e \in T
    PROVE  /\ InsertAt(s, p, e) \in Seq(T) /\ Len(InsertAt(s, p, e)) = Len(s) + 1
           /\ \A i \in 1 .. Len(s) + 1 :
                 InsertAt(s, p, e)[i] = IF i < p THEN s[i] ELSE IF i = p THEN e ELSE s[i - 1]
  <1> DEFINE a == SubSeq(s, 1, p - 1)
             b == SubSeq(s, p, Len(s))
             n == Len(s)
  <1>1. n \in Nat /\ p \in Nat /\ p >= 1 /\ p <= n + 1
    OBVIOUS
  <1>2. /\ a \in Seq(T) /\ Len(a) = p - 1
        /\ \A i \in 1 .. p - 1 : a[i] = s[i]
    <2>1. p - 1 \in 0 .. n
      BY <1>1
    <2> QED  BY <2>1
  <1>3. /\ b \in Seq(T) /\ Len(b) = n - p + 1
        /\ \A i \in 1 .. n - p + 1 : b[i] = s[p + i - 1]
    BY <1>1
  <1>4. InsertAt(s, p, e) = a \o <<e>> \o b
    BY DEF InsertAt
  <1> HIDE DEF a, b, n
  <1> DEFINE c == a \o <<e>>
  <1>5. /\ c \in Seq(T) /\ Len(c) = p
        /\ \A i \in 1 .. p - 1 : c[i] = a[i]
        /\ c[p] = e
    BY <1>1, <1>2
  <1> HIDE DEF c
  <1> DEFINE d == c \o b
  <1>6. /\ d \in Seq(T) /\ Len(d) = n + 1
        /\ \A i \in 1 .. n + 1 : d[i] = IF i <= p THEN c[i] ELSE b[i - p]
    <2>1. c \in Seq(T) /\ b \in Seq(T) /\ Len(c) = p /\ Len(b) = n - p + 1
      BY <1>3, <1>5
    <2>2. /\ d \in Seq(T) /\ Len(d) = Len(c) + Len(b)
          /\ \A i \in 1 .. Len(c) + Len(b) : d[i] = IF i <= Len(c) THEN c[i] ELSE b[i - Len(c)]
      BY <2>1, ConcatProperties
    <2>3. Len(c) + Len(b) = n + 1
      BY <1>1, <2>1
    <2> QED  BY <2>1, <2>2, <2>3
  <1> HIDE DEF d
  <1>7. ASSUME NEW i \in 1 .. n + 1
        PROVE  d[i] = IF i < p THEN s[i] ELSE IF i = p THEN e ELSE s[i - 1]
    <2>1. CASE i < p
      <3>1. i \in 1 .. p - 1 /\ i <= p
        BY <1>1, <2>1
      <3> QED  BY <1>2, <1>5, <1>6, <2>1, <3>1
    <2>2. CASE i = p
      BY <1>1, <1>5, <1>6, <2>2
    <2>3. CASE i > p
      <3> DEFINE k == i - p
      <3>1. k \in 1 .. n - p + 1 /\ p + k - 1 = i - 1 /\ ~(i <= p) /\ ~(i < p) /\ i # p
        BY <1>1, <2>3
      <3>2. d[i] = b[k]
        BY <1>6, <3>1
      <3> HIDE DEF k
      <3>3. b[k] = s[p + k - 1]
        BY <1>3, <3>1
      <3>4. s[p + k - 1] = s[i - 1]
        BY <3>1
      <3> QED  BY <3>1, <3>2, <3>3, <3>4
    <2> QED  BY <1>1, <2>1, <2>2, <2>3
  <1> QED  BY <1>4, <1>6, <1>7 DEF c, d, n

LEMMA Removed ==
    ASSUME NEW T, NEW s \in Seq(T), NEW p \in 1 .. Len(s)
    PROVE  /\ RemoveAt(s, p) \in Seq(T) /\ Len(RemoveAt(s, p)) = Len(s) - 1
           /\ \A i \in 1 .. Len(s) - 1 :
                 RemoveAt(s, p)[i] = IF i < p THEN s[i] ELSE s[i + 1]
  <1> DEFINE a == SubSeq(s, 1, p - 1)
             b == SubSeq(s, p + 1, Len(s))
             n == Len(s)
  <1>1. n \in Nat /\ p \in Nat /\ p >= 1 /\ p <= n
    OBVIOUS
  <1>2. /\ a \in Seq(T) /\ Len(a) = p - 1
        /\ \A i \in 1 .. p - 1 : a[i] = s[i]
    <2>1. p - 1 \in 0 .. n
      BY <1>1
    <2> QED  BY <2>1
  <1>3. /\ b \in Seq(T) /\ Len(b) = n - p
        /\ \A i \in 1 .. n - p : b[i] = s[p + i]
    BY <1>1
  <1>4. RemoveAt(s, p) = a \o b
    BY DEF RemoveAt
  <1> HIDE DEF a, b, n
  <1>5. /\ a \o b \in Seq(T) /\ Len(a \o b) = n - 1
        /\ \A i \in 1 .. n - 1 : (a \o b)[i] = IF i < p THEN a[i] ELSE b[i - (p - 1)]
    <2>1. a \in Seq(T) /\ b \in Seq(T) /\ Len(a) = p - 1 /\ Len(b) = n - p
      BY <1>2, <1>3
    <2>2. /\ a \o b \in Seq(T) /\ Len(a \o b) = Len(a) + Len(b)
          /\ \A i \in 1 .. Len(a) + Len(b) :
                (a \o b)[i] = IF i <= Len(a) THEN a[i] ELSE b[i - Len(a)]
      BY <2>1, ConcatProperties
    <2>3. Len(a) + Len(b) = n - 1 /\ \A i \in 1 .. n - 1 : i <= p - 1 <=> i < p
      BY <1>1, <2>1
    <2> QED  BY <2>1, <2>2, <2>3
  <1>6. ASSUME NEW i \in 1 .. n - 1
        PROVE  (a \o b)[i] = IF i < p THEN s[i] ELSE s[i + 1]
    <2>1. CASE i < p
      <3>1. i \in 1 .. p - 1
        BY <1>1, <2>1
      <3> QED  BY <1>2, <1>5, <2>1, <3>1
    <2>2. CASE ~(i < p)
      <3>1. i - (p - 1) \in 1 .. n - p /\ p + (i - (p - 1)) = i + 1
        BY <1>1, <2>2
      <3> QED  BY <1>3, <1>5, <2>2, <3>1
    <2> QED  BY <2>1, <2>2
  <1> QED  BY <1>4, <1>5, <1>6 DEF n

\* Every set of numbers has a least one, which Min names.
LEMMA LeastOf ==
    ASSUME NEW N \in SUBSET Nat, N # {}
    PROVE  Min(N) \in N /\ \A x \in N : Min(N) <= x
  <1>1. \A x, y \in Nat : x < y => <<x, y>> \in OpToRel(<, Nat)
    BY DEF OpToRel
  <1>2. IsWellFoundedOn(OpToRel(<, Nat), Nat)
    BY NatLessThanWellFounded
  <1>3. PICK x \in N : \A y \in N : ~(<<y, x>> \in OpToRel(<, Nat))
    BY <1>2, WFMin
  <1>4. \A y \in N : ~(y < x)
    BY <1>1, <1>3, Zenon
  <1>5. \A y \in N : x <= y
    BY <1>4, SMT
  <1>6. \E z \in N : \A y \in N : z <= y
    BY <1>5
  <1> QED  BY <1>6 DEF Min

LEMMA FiledInsert ==
    ASSUME NEW q, Filed(q), NEW p \in 1 .. Len(q) + 1, NEW e \in Events, e.type \notin Types(q)
    PROVE  LET r == InsertAt(q, p, e)
           IN  Filed(r) /\ Types(r) = Types(q) \cup {e.type} /\ r # <<>> /\ Len(r) = Len(q) + 1
  <1> DEFINE r == InsertAt(q, p, e)
             n == Len(q)
  <1>1. q \in Seq(Events) /\ n \in Nat /\ p \in 1 .. n + 1
    BY DEF Filed
  <1>2. /\ r \in Seq(Events) /\ Len(r) = n + 1
        /\ \A i \in 1 .. n + 1 : r[i] = IF i < p THEN q[i] ELSE IF i = p THEN e ELSE q[i - 1]
    BY <1>1, Inserted
  <1> HIDE DEF r, n
  <1> DEFINE from(i) == IF i < p THEN i ELSE i - 1
  <1>3. \A i \in 1 .. n + 1 : i # p => from(i) \in 1 .. n /\ r[i] = q[from(i)]
    BY <1>1, <1>2
  <1>4. \A i, j \in 1 .. n + 1 : i # p /\ j # p /\ from(i) = from(j) => i = j
    BY <1>1
  <1>5. r[p] = e
    BY <1>1, <1>2
  <1> HIDE DEF from
  <1>6. \A i \in 1 .. n : q[i].type # e.type
    BY DEF Types, n
  <1>7. \A i, j \in 1 .. n + 1 : r[i].type = r[j].type => i = j
    <2> SUFFICES ASSUME NEW i \in 1 .. n + 1, NEW j \in 1 .. n + 1, r[i].type = r[j].type
                 PROVE  i = j
      OBVIOUS
    <2>1. CASE i = p \/ j = p
      BY <1>3, <1>5, <1>6, <2>1
    <2>2. CASE i # p /\ j # p
      BY <1>3, <1>4, <2>2 DEF Filed, n
    <2> QED  BY <2>1, <2>2
  <1>8. Types(r) = Types(q) \cup {e.type}
    <2>1. \A i \in 1 .. n + 1 : r[i].type \in Types(q) \cup {e.type}
      <3> SUFFICES ASSUME NEW i \in 1 .. n + 1, i # p PROVE r[i].type \in Types(q)
        BY <1>5
      <3> QED  BY <1>3 DEF Types, n
    <2>2. \A k \in 1 .. n : \E i \in 1 .. n + 1 : r[i] = q[k]
      <3> SUFFICES ASSUME NEW k \in 1 .. n PROVE \E i \in 1 .. n + 1 : r[i] = q[k]
        OBVIOUS
      <3>1. CASE k < p
        <4>1. k \in 1 .. n + 1 /\ r[k] = q[k]
          BY <1>1, <1>2, <3>1
        <4> QED  BY <4>1
      <3>2. CASE ~(k < p)
        <4>1. k + 1 \in 1 .. n + 1 /\ ~(k + 1 < p) /\ k + 1 # p /\ (k + 1) - 1 = k
          BY <1>1, <3>2
        <4>2. r[k + 1] = q[k]
          BY <1>2, <4>1
        <4> QED  BY <4>1, <4>2
      <3> QED  BY <3>1, <3>2
    <2>3. p \in 1 .. Len(r) /\ Len(r) = n + 1
      BY <1>1, <1>2
    <2>4. Types(r) \subseteq Types(q) \cup {e.type}
      BY <2>1, <2>3 DEF Types
    <2>5. Types(q) \subseteq Types(r)
      BY <2>2, <2>3 DEF Types, n
    <2>6. e.type \in Types(r)
      BY <1>5, <2>3 DEF Types
    <2> QED  BY <2>4, <2>5, <2>6
  <1>9. r # <<>>
    BY <1>1, <1>2
  <1> QED  BY <1>2, <1>7, <1>8, <1>9 DEF Filed, r, n

LEMMA FiledRemove ==
    ASSUME NEW q, Filed(q), NEW p \in 1 .. Len(q)
    PROVE  LET r == RemoveAt(q, p)
           IN  Filed(r) /\ Types(r) = Types(q) \ {q[p].type}
  <1> DEFINE r == RemoveAt(q, p)
             n == Len(q)
  <1>1. q \in Seq(Events) /\ n \in Nat /\ p \in 1 .. n
    BY DEF Filed
  <1>2. /\ r \in Seq(Events) /\ Len(r) = n - 1
        /\ \A i \in 1 .. n - 1 : r[i] = IF i < p THEN q[i] ELSE q[i + 1]
    BY <1>1, Removed
  <1> HIDE DEF r, n
  <1> DEFINE from(i) == IF i < p THEN i ELSE i + 1
  <1>3. \A i \in 1 .. n - 1 : from(i) \in 1 .. n /\ from(i) # p /\ r[i] = q[from(i)]
    BY <1>1, <1>2
  <1>4. \A i, j \in 1 .. n - 1 : from(i) = from(j) => i = j
    BY <1>1
  <1>5. \A k \in 1 .. n : k # p => \E i \in 1 .. n - 1 : r[i] = q[k]
    <2> SUFFICES ASSUME NEW k \in 1 .. n, k # p PROVE \E i \in 1 .. n - 1 : r[i] = q[k]
      OBVIOUS
    <2>1. CASE k < p
      <3>1. k \in 1 .. n - 1 /\ r[k] = q[k]
        BY <1>1, <1>2, <2>1
      <3> QED  BY <3>1
    <2>2. CASE ~(k < p)
      <3>1. k - 1 \in 1 .. n - 1 /\ ~(k - 1 < p) /\ (k - 1) + 1 = k
        BY <1>1, <2>2
      <3>2. r[k - 1] = q[k]
        BY <1>2, <3>1
      <3> QED  BY <3>1, <3>2
    <2> QED  BY <2>1, <2>2
  <1> HIDE DEF from
  <1>6. \A i, j \in 1 .. n - 1 : r[i].type = r[j].type => i = j
    <2> SUFFICES ASSUME NEW i \in 1 .. n - 1, NEW j \in 1 .. n - 1, r[i].type = r[j].type
                 PROVE  i = j
      OBVIOUS
    <2> QED  BY <1>3, <1>4 DEF Filed, n
  <1>7. Types(r) = Types(q) \ {q[p].type}
    <2>1. \A i \in 1 .. n - 1 : r[i].type \in Types(q) /\ r[i].type # q[p].type
      <3> SUFFICES ASSUME NEW i \in 1 .. n - 1
                   PROVE  r[i].type \in Types(q) /\ r[i].type # q[p].type
        OBVIOUS
      <3>1. r[i].type \in Types(q)
        BY <1>3 DEF Types, n
      <3>2. r[i].type # q[p].type
        BY <1>1, <1>3 DEF Filed, n
      <3> QED  BY <3>1, <3>2
    <2>2. Types(r) \subseteq Types(q) \ {q[p].type}
      BY <1>2, <2>1 DEF Types
    <2>3. Types(q) \ {q[p].type} \subseteq Types(r)
      <3> SUFFICES ASSUME NEW k \in 1 .. n, q[k].type # q[p].type PROVE q[k].type \in Types(r)
        BY DEF Types, n
      <3>1. PICK i \in 1 .. n - 1 : r[i] = q[k]
        BY <1>5
      <3> QED  BY <1>2, <3>1 DEF Types
    <2> QED  BY <2>2, <2>3
  <1> QED  BY <1>2, <1>6, <1>7 DEF Filed, r, n

LEMMA FiledTail ==
    ASSUME NEW q, Filed(q), q # <<>>
    PROVE  Filed(Tail(q)) /\ Types(Tail(q)) = Types(q) \ {q[1].type}
  <1>1. q \in Seq(Events) /\ 1 \in 1 .. Len(q) /\ Len(q) \in Nat
    BY DEF Filed
  <1>2. RemoveAt(q, 1) = Tail(q)
    <2>1. /\ RemoveAt(q, 1) \in Seq(Events) /\ Len(RemoveAt(q, 1)) = Len(q) - 1
          /\ \A i \in 1 .. Len(q) - 1 : RemoveAt(q, 1)[i] = IF i < 1 THEN q[i] ELSE q[i + 1]
      BY <1>1, Removed
    <2>2. /\ Tail(q) \in Seq(Events) /\ Len(Tail(q)) = Len(q) - 1
          /\ \A i \in 1 .. Len(q) - 1 : Tail(q)[i] = q[i + 1]
      BY <1>1, HeadTailProperties
    <2>3. \A i \in 1 .. Len(q) - 1 : RemoveAt(q, 1)[i] = Tail(q)[i]
      BY <2>1, <2>2
    <2> DEFINE r == RemoveAt(q, 1)
               t == Tail(q)
    <2>4. r \in Seq(Events) /\ t \in Seq(Events) /\ Len(r) = Len(t)
          /\ \A i \in 1 .. Len(r) : r[i] = t[i]
      BY <2>1, <2>2, <2>3
    <2> HIDE DEF r, t
    <2>5. r = t
      BY <2>4
    <2> QED  BY <2>5 DEF r, t
  <1>3. Filed(RemoveAt(q, 1)) /\ Types(RemoveAt(q, 1)) = Types(q) \ {q[1].type}
    BY <1>1, FiledRemove
  <1> QED  BY <1>2, <1>3, Zenon

\* An event that comes first.
LEMMA FiledFirst ==
    ASSUME NEW q, Filed(q), NEW e \in Events, e.type \notin Types(q)
    PROVE  LET r == <<e>> \o q
           IN  Filed(r) /\ Types(r) = Types(q) \cup {e.type} /\ r # <<>> /\ r[1] = e
  <1> DEFINE r == <<e>> \o q
             s == InsertAt(q, 1, e)
  <1>1. q \in Seq(Events) /\ Len(q) \in Nat /\ 1 \in 1 .. Len(q) + 1
    BY DEF Filed
  <1>2. r \in Seq(Events) /\ Len(r) = Len(q) + 1
        /\ \A i \in 1 .. Len(q) + 1 : r[i] = IF i = 1 THEN e ELSE q[i - 1]
    BY <1>1
  <1>3. s \in Seq(Events) /\ Len(s) = Len(q) + 1
        /\ \A i \in 1 .. Len(q) + 1 :
              s[i] = IF i < 1 THEN q[i] ELSE IF i = 1 THEN e ELSE q[i - 1]
    BY <1>1, Inserted
  <1>4. Filed(s) /\ Types(s) = Types(q) \cup {e.type} /\ s # <<>>
    BY <1>1, FiledInsert
  <1> HIDE DEF r, s
  <1>5. \A i \in 1 .. Len(q) + 1 : r[i] = s[i]
    BY <1>2, <1>3
  <1>6. r = s
    BY <1>2, <1>3, <1>5
  <1>7. r[1] = e
    BY <1>1, <1>2
  <1> QED  BY <1>4, <1>6, <1>7 DEF r

\* The pool has a node for an event of a type that is not queued.
LEMMA NodeLeft ==
    ASSUME IsFiniteSet(Devices), Cardinality(EventTypes) < PoolCapacity,
           NEW q, Filed(q)
    PROVE  Len(q) < PoolCapacity
  <1> DEFINE types == [i \in 1 .. Len(q) |-> q[i].type]
  <1>1. Len(q) \in Nat /\ \A i \in 1 .. Len(q) : q[i] \in Events
    BY DEF Filed
  <1>2. types \in Injection(1 .. Len(q), EventTypes)
    BY <1>1 DEF Filed, Events, Injection, IsInjective
  <1>3. IsFiniteSet(EventTypes)
    <2>1. \A x : IsFiniteSet({x})
      BY FS_Singleton, Zenon
    <2>2. \A X, Y : IsFiniteSet(X) /\ IsFiniteSet(Y) => IsFiniteSet(X \cup Y)
      BY FS_Union, Zenon
    <2>3. CoreEvents = {"SPECIAL"} \cup ({"COMPARE"} \cup ({"CHECK"} \cup ({"HW2"} \cup {"NMI"})))
      BY DEF CoreEvents
    <2>4. IsFiniteSet(CoreEvents)
      BY <2>1, <2>2, <2>3, Zenon
    <2> QED  BY <2>2, <2>4, Zenon DEF EventTypes
  <1>4. Cardinality(1 .. Len(q)) <= Cardinality(EventTypes)
    BY <1>2, <1>3, FS_Injection
  <1>5. Cardinality(1 .. Len(q)) = Len(q)
    <2> DEFINE n == Len(q)
               k == Cardinality(1 .. n)
    <2>1. 1 \in Int /\ n \in Int
      BY <1>1
    <2>2. k = IF 1 > n THEN 0 ELSE n - 1 + 1
      BY <2>1, FS_Interval, Zenon
    <2> HIDE DEF k
    <2>3. k = n
      BY <1>1, <2>2
    <2> QED  BY <2>3 DEF k
  <1>6. Cardinality(EventTypes) \in Nat /\ PoolCapacity \in Nat
    BY <1>3, FS_CardinalityType, PoolCapacityAssumption
  <1> QED  BY <1>1, <1>4, <1>5, <1>6

-----------------------------------------------------------------------------
(* The operations of the queue, on a machine.                               *)

\* The machines the theorems are about: one node more than there are types of events,
\* as in the code, a screen, and software that is Disciplined and branches before COUNT
\* has run through half its range.
Hosted ==
    /\ "VI" \in Devices
    /\ IsFiniteSet(Devices) /\ Cardinality(EventTypes) < PoolCapacity
    /\ \A n \in Steps : n < HalfRange
    /\ Disciplined

\* The cached views agree with the head.
Mirrored(c) == c.next = c.q[1].count /\ c.cycle = S(c.count - c.q[1].count)

\* d differs from c in the queue, its views and the lines at most.
Kept(d, c) ==
    /\ d \in Machine
    /\ d.count = c.count /\ d.compare = c.compare /\ d.skip = c.skip
    /\ d.ie = c.ie /\ d.exl = c.exl /\ d.im = c.im /\ d.ip = c.ip
    /\ d.dropped = c.dropped /\ d.early = c.early /\ d.spurious = c.spurious

LEMMA HeadType ==
    ASSUME NEW q, Filed(q), q # <<>>
    PROVE  q[1] \in Events /\ q[1].count \in Counts /\ q[1].count \in Int
           /\ q[1].type \in EventTypes /\ q[1].type \in Types(q) /\ 1 \in 1 .. Len(q)
  <1>1. q \in Seq(Events) /\ 1 \in 1 .. Len(q)
    BY DEF Filed
  <1>2. q[1] \in Events /\ q[1].type \in Types(q)
    BY <1>1 DEF Types
  <1>3. q[1].count \in Counts /\ q[1].type \in EventTypes
    BY <1>2 DEF Events
  <1> QED  BY <1>1, <1>2, <1>3, RangeLarge DEF Counts

LEMMA MachineInts ==
    ASSUME NEW c \in Machine
    PROVE  c.count \in Counts /\ c.count \in Int /\ c.cycle \in Cycles /\ c.cycle \in Int
           /\ c.compare \in Counts /\ c.compare \in Int
  BY RangeLarge DEF Machine, Counts, Cycles

LEMMA MirrorKept ==
    ASSUME NEW c \in Machine, Filed(c.q), c.q # <<>>
    PROVE  Kept(Mirror(c), c) /\ Mirror(c).q = c.q /\ Mirrored(Mirror(c))
  <1> DEFINE next  == c.q[1].count
             cycle == S(c.count - c.q[1].count)
  <1>1. next \in Counts /\ next \in Int
    BY HeadType
  <1>2. cycle \in Cycles
    BY <1>1, MachineInts, CountType
  <1>3. Mirror(c) = [c EXCEPT !.next = next, !.cycle = cycle]
    BY DEF Mirror
  <1> HIDE DEF next, cycle
  <1>4. Kept(Mirror(c), c) /\ Mirror(c).q = c.q /\ Mirror(c).next = next
        /\ Mirror(c).cycle = cycle
    BY <1>1, <1>2, <1>3 DEF Kept, Machine
  <1> QED  BY <1>4 DEF Kept, Mirrored, next, cycle

\* The queue replaced.
LEMMA Requeued ==
    ASSUME NEW c \in Machine, NEW q, Filed(q)
    PROVE  LET d == [c EXCEPT !.q = q]
           IN  Kept(d, c) /\ d.q = q /\ d.next = c.next /\ d.cycle = c.cycle
  BY DEF Kept, Machine, Filed

LEMMA PositionType ==
    ASSUME NEW c, Filed(c.q), NEW count
    PROVE  InsertPosition(c, count) \in 1 .. Len(c.q) + 1
  <1> DEFINE later == {i \in DOMAIN c.q : BeforeEvent(c, count, c.q[i].count)}
             N     == later \cup {Len(c.q) + 1}
  <1>1. c.q \in Seq(Events) /\ Len(c.q) \in Nat /\ DOMAIN c.q = 1 .. Len(c.q)
    BY DEF Filed
  <1>2. N \subseteq 1 .. Len(c.q) + 1 /\ N # {}
    BY <1>1
  <1>3. N \in SUBSET Nat
    BY <1>2
  <1> HIDE DEF N
  <1>4. Min(N) \in N
    BY <1>2, <1>3, LeastOf
  <1> QED  BY <1>2, <1>4 DEF InsertPosition, N

LEMMA AddKept ==
    ASSUME Hosted, NEW c \in Machine, Filed(c.q), NEW type \in EventTypes,
           type \notin Types(c.q), NEW count \in Counts
    PROVE  LET d == AddInterruptEventCount(c, type, count)
           IN  Kept(d, c) /\ Filed(d.q) /\ Types(d.q) = Types(c.q) \cup {type}
               /\ d.q # <<>> /\ Mirrored(d)
  <1> DEFINE e == Event(type, count)
             p == InsertPosition(c, count)
             q == InsertAt(c.q, p, e)
             f == [c EXCEPT !.q = q]
  <1>1. e \in Events /\ e.type = type
    BY DEF Event, Events
  <1>2. p \in 1 .. Len(c.q) + 1
    BY PositionType
  <1> HIDE DEF p, e
  <1>3. Filed(q) /\ Types(q) = Types(c.q) \cup {type} /\ q # <<>>
    BY <1>1, <1>2, FiledInsert
  <1>4. Len(c.q) < PoolCapacity /\ Len(c.q) \in Nat /\ PoolCapacity \in Nat
    BY NodeLeft, PoolCapacityAssumption DEF Hosted, Filed
  <1>5. ~(Len(c.q) >= PoolCapacity)
    BY <1>4
  <1>6. AddInterruptEventCount(c, type, count) = Mirror(f)
    BY <1>5 DEF AddInterruptEventCount, p, e
  <1> HIDE DEF q
  <1>7. Kept(f, c) /\ f.q = q
    BY <1>3, Requeued
  <1> HIDE DEF f
  <1>8. Kept(Mirror(f), f) /\ Mirror(f).q = q /\ Mirrored(Mirror(f))
    BY <1>3, <1>7, MirrorKept DEF Kept
  <1> QED  BY <1>3, <1>6, <1>7, <1>8 DEF Kept

LEMMA AddDelayKept ==
    ASSUME Hosted, NEW c \in Machine, Filed(c.q), NEW type \in EventTypes,
           type \notin Types(c.q), NEW delay \in Nat
    PROVE  LET d == AddInterruptEvent(c, type, delay)
           IN  Kept(d, c) /\ Filed(d.q) /\ Types(d.q) = Types(c.q) \cup {type}
               /\ d.q # <<>> /\ Mirrored(d)
  <1>1. U(c.count + delay) \in Counts
    BY MachineInts, CountType
  <1> QED  BY <1>1, AddKept DEF AddInterruptEvent

LEMMA SpecialKept ==
    ASSUME Hosted, NEW c \in Machine, Filed(c.q), "SPECIAL" \notin Types(c.q)
    PROVE  LET d == AddSpecial(c)
           IN  Kept(d, c) /\ Filed(d.q) /\ Types(d.q) = Types(c.q) \cup {"SPECIAL"}
               /\ d.q # <<>> /\ Mirrored(d)
  <1>1. OppositeHalf(c.count) \in Counts
    BY RangeLarge DEF OppositeHalf, Counts
  <1>2. "SPECIAL" \in EventTypes
    BY DEF EventTypes, CoreEvents
  <1> QED  BY <1>1, <1>2, AddKept DEF AddSpecial

LEMMA CompareKept ==
    ASSUME Hosted, NEW c \in Machine, Filed(c.q), "COMPARE" \notin Types(c.q),
           NEW compare \in Counts
    PROVE  LET d == AddCompare(c, compare)
           IN  Kept(d, c) /\ Filed(d.q) /\ Types(d.q) = Types(c.q) \cup {"COMPARE"}
               /\ d.q # <<>> /\ Mirrored(d)
  <1> DEFINE count == U(c.count + CountPerOp)
             cycle == S(c.cycle + CountPerOp)
             ahead == [c EXCEPT !.count = count, !.cycle = cycle]
             added == AddInterruptEventCount(ahead, "COMPARE", compare)
             back  == S(c.count - added.q[1].count)
             d     == [added EXCEPT !.count = c.count, !.cycle = back]
  <1>1. AddCompare(c, compare) = d
    BY DEF AddCompare
  <1>2. count \in Counts /\ cycle \in Cycles
    BY MachineInts, CountType, CountPerOpAssumption
  <1>3. "COMPARE" \in EventTypes
    BY DEF EventTypes, CoreEvents
  <1> HIDE DEF count, cycle
  <1>4. /\ ahead \in Machine /\ ahead.q = c.q /\ ahead.compare = c.compare /\ ahead.skip = c.skip
        /\ ahead.ie = c.ie /\ ahead.exl = c.exl /\ ahead.im = c.im /\ ahead.ip = c.ip
        /\ ahead.dropped = c.dropped /\ ahead.early = c.early /\ ahead.spurious = c.spurious
    BY <1>2 DEF Machine
  <1> HIDE DEF ahead
  <1>5. /\ Kept(added, ahead) /\ Filed(added.q)
        /\ Types(added.q) = Types(c.q) \cup {"COMPARE"} /\ added.q # <<>> /\ Mirrored(added)
    BY <1>3, <1>4, AddKept
  <1> HIDE DEF added
  <1>6. back \in Cycles /\ c.count \in Counts
    BY <1>5, HeadType, MachineInts, CountType
  <1> HIDE DEF back
  <1>7. /\ Kept(d, c) /\ d.q = added.q /\ d.next = added.next /\ d.cycle = back
        /\ d.count = c.count
    BY ZenonT(60), <1>4, <1>5, <1>6 DEF Kept, Machine
  <1>8. Mirrored(d)
    BY <1>5, <1>7 DEF Mirrored, back
  <1> HIDE DEF d
  <1> QED  BY <1>1, <1>5, <1>7, <1>8

LEMMA PopKept ==
    ASSUME NEW c \in Machine, Filed(c.q), c.q # <<>>, NEW t \in Types(c.q), t # c.q[1].type
    PROVE  LET d == RemoveInterruptEvent(c)
           IN  Kept(d, c) /\ Filed(d.q) /\ Types(d.q) = Types(c.q) \ {c.q[1].type}
               /\ d.q # <<>> /\ Mirrored(d)
  <1> DEFINE q == Tail(c.q)
             f == [c EXCEPT !.q = q]
  <1>1. Filed(q) /\ Types(q) = Types(c.q) \ {c.q[1].type}
    BY FiledTail
  <1>2. RemoveInterruptEvent(c) = Mirror(f)
    BY DEF RemoveInterruptEvent
  <1> HIDE DEF q
  <1>3. q # <<>>
    <2>1. t \in Types(q)
      BY <1>1
    <2> QED  BY <2>1 DEF Types
  <1>4. Kept(f, c) /\ f.q = q
    BY <1>1, Requeued
  <1> HIDE DEF f
  <1>5. Kept(Mirror(f), f) /\ Mirror(f).q = q /\ Mirrored(Mirror(f))
    BY <1>1, <1>3, <1>4, MirrorKept DEF Kept
  <1> QED  BY <1>1, <1>2, <1>3, <1>4, <1>5 DEF Kept

LEMMA RemoveKept ==
    ASSUME NEW c \in Machine, Filed(c.q), NEW type
    PROVE  LET d == RemoveEvent(c, type)
           IN  Kept(d, c) /\ Filed(d.q) /\ Types(d.q) = Types(c.q) \ {type}
  <1> DEFINE found == GetEvent(c.q, type)
  <1>1. c.q \in Seq(Events) /\ Len(c.q) \in Nat /\ DOMAIN c.q = 1 .. Len(c.q)
    BY DEF Filed
  <1>2. CASE found = {}
    <2>1. RemoveEvent(c, type) = c
      BY <1>2 DEF RemoveEvent
    <2>2. type \notin Types(c.q)
      BY <1>1, <1>2 DEF GetEvent, Types
    <2>3. Kept(c, c)
      BY DEF Kept
    <2> QED  BY <2>1, <2>2, <2>3
  <1>3. CASE found # {}
    <2> DEFINE p == Min(found)
               q == RemoveAt(c.q, p)
               d == [c EXCEPT !.q = q]
    <2>1. found \in SUBSET Nat
      BY <1>1 DEF GetEvent
    <2>2. p \in found
      BY <1>3, <2>1, LeastOf
    <2>3. p \in 1 .. Len(c.q) /\ c.q[p].type = type
      BY <1>1, <2>2 DEF GetEvent
    <2>4. RemoveEvent(c, type) = d
      BY <1>3 DEF RemoveEvent
    <2> HIDE DEF p
    <2>5. Filed(q) /\ Types(q) = Types(c.q) \ {type}
      BY <2>3, FiledRemove
    <2> HIDE DEF q
    <2>6. Kept(d, c) /\ d.q = q
      BY <2>5, Requeued
    <2> HIDE DEF d
    <2> QED  BY <2>4, <2>5, <2>6
  <1> QED  BY <1>2, <1>3

-----------------------------------------------------------------------------
(* The handlers.                                                            *)

\* The queue is anchored, and nothing has gone wrong so far.
Sound(c) ==
    /\ c \in Machine
    /\ Filed(c.q)
    /\ {"SPECIAL", "COMPARE"} \subseteq Types(c.q)
    /\ ~c.dropped /\ ~c.early /\ ~c.spurious

\* Between two instructions: no jump is to be skipped and no CHECK_INT waits.
Steady(c) == Sound(c) /\ Mirrored(c) /\ ~c.skip /\ "CHECK" \notin Types(c.q)

\* An interrupt is to be taken at once.
Urgent(c) ==
    /\ Sound(c) /\ Mirrored(c) /\ ~c.skip
    /\ c.q[1].type = "CHECK" /\ c.cycle >= 0 /\ Deliverable(c)

\* An event has been served in a branch's delay slot, or elsewhere: in a slot, the
\* exception has the jump skipped and the end of the branch call gen_interrupt.
Served(c, slot) ==
    \/ Steady(c)
    \/ slot /\ Sound(c) /\ "CHECK" \notin Types(c.q) /\ c.skip /\ c.cycle = 0

LEMMA AnchoredHead ==
    ASSUME NEW c, Sound(c)
    PROVE  /\ c \in Machine /\ Filed(c.q) /\ c.q # <<>> /\ c.q[1].type \in Types(c.q)
           /\ c.q[1].type \in EventTypes /\ c.q[1].count \in Counts
           /\ \E t \in Types(c.q) : t # c.q[1].type
  <1>1. c.q # <<>>
    BY DEF Sound, Types
  <1> QED  BY <1>1, HeadType DEF Sound

LEMMA KeptSound ==
    ASSUME NEW c, NEW d, Sound(c), Kept(d, c), Filed(d.q),
           {"SPECIAL", "COMPARE"} \subseteq Types(d.q)
    PROVE  Sound(d)
  BY DEF Sound, Kept

\* What only CAUSE, STATUS, MI and the frontend's flags tell apart.
LEMMA RegistersSteady ==
    ASSUME NEW c, NEW d \in Machine, d.q = c.q, d.count = c.count, d.next = c.next,
           d.cycle = c.cycle, d.skip = c.skip, d.dropped = c.dropped, d.early = c.early,
           d.spurious = c.spurious
    PROVE  /\ Sound(c) => Sound(d)
           /\ Steady(c) => Steady(d)
  BY DEF Sound, Steady, Mirrored

LEMMA ExceptionServed ==
    ASSUME NEW c, Steady(c), NEW slot \in BOOLEAN
    PROVE  Served(ExceptionGeneral(c, slot), slot)
  <1> DEFINE entered == [c EXCEPT !.exl = TRUE]
             skipped == [entered EXCEPT !.skip = TRUE, !.next = 0, !.cycle = 0]
  <1>1. c \in Machine
    BY DEF Steady, Sound
  <1>2. ExceptionGeneral(c, slot) = IF slot THEN skipped ELSE entered
    BY DEF ExceptionGeneral
  <1>3. /\ entered \in Machine /\ entered.q = c.q /\ entered.count = c.count
        /\ entered.next = c.next /\ entered.cycle = c.cycle /\ entered.skip = c.skip
        /\ entered.dropped = c.dropped /\ entered.early = c.early
        /\ entered.spurious = c.spurious
    BY <1>1 DEF Machine
  <1> HIDE DEF entered
  <1>4. Steady(entered)
    BY <1>3, RegistersSteady
  <1>5. /\ skipped \in Machine /\ skipped.q = c.q /\ skipped.cycle = 0 /\ skipped.skip
        /\ skipped.dropped = c.dropped /\ skipped.early = c.early
        /\ skipped.spurious = c.spurious
    <2>1. 0 \in Counts /\ 0 \in Cycles
      BY RangeLarge DEF Counts, Cycles
    <2> QED  BY <1>3, <2>1 DEF Machine
  <1> HIDE DEF skipped
  <1>6. Sound(skipped) /\ "CHECK" \notin Types(skipped.q)
    BY <1>5 DEF Steady, Sound
  <1> QED  BY <1>2, <1>4, <1>5, <1>6 DEF Served

LEMMA TakenServed ==
    ASSUME NEW c, Steady(c), Deliverable(c), NEW slot \in BOOLEAN
    PROVE  Served(TakeInterrupt(c, slot), slot)
  <1> DEFINE noted == [c EXCEPT !.spurious = @ \/ ~Deliverable(c)]
  <1>1. c \in Machine /\ c.spurious = FALSE
    BY DEF Steady, Sound, Machine
  <1>2. noted = [c EXCEPT !.spurious = FALSE]
    BY <1>1
  <1> HIDE DEF noted
  <1>3. Steady(noted)
    <2>1. /\ noted \in Machine /\ noted.q = c.q /\ noted.count = c.count /\ noted.next = c.next
          /\ noted.cycle = c.cycle /\ noted.skip = c.skip /\ noted.dropped = c.dropped
          /\ noted.early = c.early /\ noted.spurious = c.spurious
      BY <1>1, <1>2 DEF Machine
    <2> QED  BY <2>1, RegistersSteady
  <1> QED  BY <1>3, ExceptionServed DEF TakeInterrupt, noted

LEMMA MaskableServed ==
    ASSUME NEW c, Steady(c), NEW line \in IPs, NEW slot \in BOOLEAN
    PROVE  Served(RaiseMaskableInterrupt(c, line, slot), slot)
  <1> DEFINE raised == [c EXCEPT !.ip = @ \cup {line}]
  <1>1. c \in Machine
    BY DEF Steady, Sound
  <1>2. /\ raised \in Machine /\ raised.q = c.q /\ raised.count = c.count
        /\ raised.next = c.next /\ raised.cycle = c.cycle /\ raised.skip = c.skip
        /\ raised.dropped = c.dropped /\ raised.early = c.early
        /\ raised.spurious = c.spurious
    BY <1>1 DEF Machine
  <1>3. RaiseMaskableInterrupt(c, line, slot)
          = IF Deliverable(raised) THEN TakeInterrupt(raised, slot) ELSE raised
    BY DEF RaiseMaskableInterrupt
  <1> HIDE DEF raised
  <1>4. Steady(raised)
    BY <1>2, RegistersSteady
  <1> QED  BY <1>3, <1>4, TakenServed DEF Served

LEMMA RcpServed ==
    ASSUME NEW c, Steady(c), NEW line \in Devices, NEW slot \in BOOLEAN
    PROVE  Served(RaiseRcpInterrupt(c, line, slot), slot)
  <1> DEFINE raised == [c EXCEPT !.intr = @ \cup {line}]
  <1>1. c \in Machine
    BY DEF Steady, Sound
  <1>2. /\ raised \in Machine /\ raised.q = c.q /\ raised.count = c.count
        /\ raised.next = c.next /\ raised.cycle = c.cycle /\ raised.skip = c.skip
        /\ raised.dropped = c.dropped /\ raised.early = c.early
        /\ raised.spurious = c.spurious
    BY <1>1 DEF Machine, Lines
  <1>3. RaiseRcpInterrupt(c, line, slot)
          = IF raised.intr \cap raised.mask # {}
            THEN RaiseMaskableInterrupt(raised, "IP2", slot) ELSE raised
    BY DEF RaiseRcpInterrupt
  <1> HIDE DEF raised
  <1>4. Steady(raised) /\ "IP2" \in IPs
    BY <1>2, RegistersSteady DEF IPs
  <1> QED  BY <1>3, <1>4, MaskableServed DEF Served

\* CHECK_INT is queued only to be served at the next branch.
LEMMA CheckedSteady ==
    ASSUME Hosted, NEW c, Steady(c)
    PROVE  \/ Steady(CheckInterrupt(c))
           \/ Urgent(CheckInterrupt(c)) /\ CheckInterrupt(c).cycle = 0
  <1> DEFINE ip     == IF c.intr \cap c.mask # {} THEN c.ip \cup {"IP2"} ELSE c.ip \ {"IP2"}
             caused == [c EXCEPT !.ip = ip]
             e      == Event("CHECK", caused.count)
             q      == <<e>> \o caused.q
             d      == [caused EXCEPT !.q = q, !.next = caused.count, !.cycle = 0]
  <1>1. c \in Machine /\ Filed(c.q) /\ "CHECK" \notin Types(c.q)
        /\ {"SPECIAL", "COMPARE"} \subseteq Types(c.q)
    BY DEF Steady, Sound
  <1>2. ip \in SUBSET IPs
    BY <1>1 DEF Machine, IPs
  <1>3. CheckInterrupt(c) = IF Deliverable(caused) THEN PushCheck(caused) ELSE caused
    BY DEF CheckInterrupt
  <1> HIDE DEF ip
  <1>4. /\ caused \in Machine /\ caused.q = c.q /\ caused.count = c.count
        /\ caused.next = c.next /\ caused.cycle = c.cycle /\ caused.skip = c.skip
        /\ caused.dropped = c.dropped /\ caused.early = c.early
        /\ caused.spurious = c.spurious
    BY <1>1, <1>2 DEF Machine
  <1> HIDE DEF caused
  <1>5. Steady(caused)
    BY <1>4, RegistersSteady
  <1>6. CASE ~Deliverable(caused)
    BY <1>3, <1>5, <1>6
  <1>7. CASE Deliverable(caused)
    <2>1. caused.count \in Counts /\ caused.count \in Int
      BY <1>4, MachineInts
    <2>2. e \in Events /\ e.type = "CHECK" /\ e.count = caused.count
      BY <2>1 DEF Event, Events, EventTypes, CoreEvents
    <2>3. Len(caused.q) < PoolCapacity /\ Len(caused.q) \in Nat /\ PoolCapacity \in Nat
      <3>1. Filed(caused.q)
        BY <1>1, <1>4
      <3>2. Len(caused.q) < PoolCapacity
        BY <3>1, NodeLeft DEF Hosted
      <3> QED  BY <3>1, <3>2, PoolCapacityAssumption DEF Filed
    <2>4. ~(Len(caused.q) >= PoolCapacity)
      BY <2>3
    <2>5. PushCheck(caused) = d
      BY <2>4 DEF PushCheck
    <2> HIDE DEF e
    <2>6. Filed(q) /\ Types(q) = Types(caused.q) \cup {"CHECK"} /\ q # <<>> /\ q[1] = e
      BY <1>1, <1>4, <2>2, FiledFirst
    <2> HIDE DEF q
    <2>7. 0 \in Cycles
      BY RangeLarge DEF Cycles
    <2>8. Kept(d, caused) /\ d.q = q /\ d.next = caused.count /\ d.cycle = 0
      BY <1>4, <2>1, <2>6, <2>7 DEF Kept, Machine, Filed
    <2> HIDE DEF d
    <2>9. Sound(d)
      BY <1>1, <1>4, <1>5, <2>6, <2>8, KeptSound DEF Steady
    <2>10. Mirrored(d)
      <3>1. d.q[1].count = caused.count /\ d.count = caused.count
        BY <2>2, <2>6, <2>8 DEF Kept
      <3>2. caused.count - caused.count = 0
        BY <2>1
      <3> QED  BY <2>8, <3>1, <3>2, WrapSmall DEF Mirrored
    <2>11. ~d.skip /\ Deliverable(d)
      BY <1>5, <1>7, <2>8 DEF Steady, Kept, Deliverable, Enabled
    <2>12. Urgent(d) /\ d.cycle = 0
      BY <2>2, <2>6, <2>8, <2>9, <2>10, <2>11 DEF Urgent
    <2> QED  BY <1>3, <1>7, <2>5, <2>12
  <1> QED  BY <1>6, <1>7

\* COUNT moves on, and the cached view of the head with it.
LEMMA UpdateKept ==
    ASSUME NEW c \in Machine, Filed(c.q), c.q # <<>>, Mirrored(c), NEW n \in Int
    PROVE  LET d == UpdateCount(c, n)
           IN  /\ d \in Machine /\ d.q = c.q /\ Mirrored(d) /\ d.cycle = S(c.cycle + n)
               /\ d.skip = c.skip /\ d.dropped = c.dropped /\ d.early = c.early
               /\ d.spurious = c.spurious /\ d.compare = c.compare
               /\ d.ie = c.ie /\ d.exl = c.exl /\ d.im = c.im /\ d.ip = c.ip
  <1> DEFINE count == U(c.count + n)
             cycle == S(c.cycle + n)
             head  == c.q[1].count
             d     == [c EXCEPT !.count = count, !.cycle = cycle]
  <1>1. c.count \in Int /\ c.cycle \in Int /\ head \in Int
    BY HeadType, MachineInts
  <1>2. count \in Counts /\ cycle \in Cycles
    BY <1>1, CountType
  <1>3. S(count - head) = cycle
    <2> DEFINE x == c.count - head
               y == c.count + n
    <2>1. c.cycle = S(x)
      BY DEF Mirrored
    <2>2. x \in Int /\ y \in Int /\ -head \in Int /\ y + (-head) = x + n
      BY <1>1
    <2> HIDE DEF x, y
    <2>3. S(S(x) + n) = S(x + n) /\ S(U(y) + (-head)) = S(y + (-head))
      BY <2>2, WrapSum
    <2>4. U(y) \in Int
      BY <2>2, CountType, RangeLarge DEF Counts
    <2>5. U(y) - head = U(y) + (-head)
      BY <1>1, <2>4
    <2> QED  BY <2>1, <2>2, <2>3, <2>5 DEF y
  <1>4. UpdateCount(c, n) = d
    BY DEF UpdateCount
  <1>5. c.next = head
    BY DEF Mirrored
  <1> HIDE DEF count, cycle, head
  <1>6. /\ d \in Machine /\ d.q = c.q /\ d.cycle = cycle /\ d.count = count /\ d.next = c.next
        /\ d.skip = c.skip /\ d.dropped = c.dropped /\ d.early = c.early
        /\ d.spurious = c.spurious /\ d.compare = c.compare
        /\ d.ie = c.ie /\ d.exl = c.exl /\ d.im = c.im /\ d.ip = c.ip
    BY <1>2 DEF Machine
  <1> HIDE DEF d
  <1>7. Mirrored(d)
    BY <1>3, <1>5, <1>6 DEF Mirrored, head
  <1> QED  BY <1>4, <1>6, <1>7 DEF cycle

LEMMA UpdateSteady ==
    ASSUME NEW c, NEW n \in Nat
    PROVE  /\ Steady(c) => Steady(UpdateCount(c, n))
           /\ Urgent(c) /\ c.cycle = 0 /\ n < HalfRange => Urgent(UpdateCount(c, n))
  <1>1. Steady(c) \/ Urgent(c) => /\ c \in Machine /\ Filed(c.q) /\ c.q # <<>> /\ Mirrored(c)
                                  /\ n \in Int
    BY AnchoredHead DEF Steady, Urgent
  <1>2. ASSUME Steady(c) PROVE Steady(UpdateCount(c, n))
    <2> DEFINE d == UpdateCount(c, n)
    <2>1. /\ d \in Machine /\ d.q = c.q /\ Mirrored(d)
          /\ d.skip = c.skip /\ d.dropped = c.dropped /\ d.early = c.early
          /\ d.spurious = c.spurious
      BY <1>1, <1>2, UpdateKept
    <2> HIDE DEF d
    <2>2. Steady(d)
      BY <1>2, <2>1 DEF Steady, Sound
    <2> QED  BY <2>2 DEF d
  <1>3. ASSUME Urgent(c), c.cycle = 0, n < HalfRange PROVE Urgent(UpdateCount(c, n))
    <2> DEFINE d == UpdateCount(c, n)
    <2>1. /\ d \in Machine /\ d.q = c.q /\ Mirrored(d) /\ d.cycle = S(c.cycle + n)
          /\ d.skip = c.skip /\ d.dropped = c.dropped /\ d.early = c.early
          /\ d.spurious = c.spurious
          /\ d.ie = c.ie /\ d.exl = c.exl /\ d.im = c.im /\ d.ip = c.ip
      BY <1>1, <1>3, UpdateKept
    <2>2. c.cycle + n = n /\ n \in Cycles /\ n >= 0
      BY <1>3, RangeLarge DEF Cycles
    <2>3. d.cycle = n
      BY <2>1, <2>2, WrapSmall
    <2> HIDE DEF d
    <2>4. Urgent(d)
      BY <1>3, <2>1, <2>2, <2>3 DEF Urgent, Sound, Deliverable, Enabled
    <2> QED  BY <2>4 DEF d
  <1> QED  BY <1>2, <1>3

\* init_interrupt arms the two anchors in an empty queue.
LEMMA InitKept ==
    ASSUME Hosted, NEW c \in Machine
    PROVE  LET d == InitInterrupt(c)
           IN  Kept(d, c) /\ Filed(d.q) /\ Types(d.q) = {"SPECIAL", "COMPARE"}
               /\ d.q # <<>> /\ Mirrored(d)
  <1> DEFINE cleared == ClearQueue(c)
             one     == AddInterruptEventCount(cleared, "SPECIAL", HalfRange)
             two     == AddInterruptEventCount(one, "COMPARE", 0)
  <1>1. Filed(<<>>) /\ Types(<<>>) = {}
    BY DEF Filed, Types
  <1>2. Kept(cleared, c) /\ cleared.q = <<>>
    BY <1>1, Requeued DEF ClearQueue
  <1> HIDE DEF cleared
  <1>3. /\ HalfRange \in Counts /\ 0 \in Counts
        /\ "SPECIAL" \in EventTypes /\ "COMPARE" \in EventTypes
    BY RangeLarge DEF Counts, EventTypes, CoreEvents
  <1>4. Kept(one, cleared) /\ Filed(one.q) /\ Types(one.q) = {"SPECIAL"}
    <2>1. cleared \in Machine /\ Filed(cleared.q) /\ "SPECIAL" \notin Types(cleared.q)
      BY <1>1, <1>2 DEF Kept
    <2>2. Kept(one, cleared) /\ Filed(one.q) /\ Types(one.q) = Types(cleared.q) \cup {"SPECIAL"}
      BY <1>3, <2>1, AddKept
    <2> QED  BY <1>1, <1>2, <2>2
  <1> HIDE DEF one
  <1>5. Kept(two, one) /\ Filed(two.q) /\ Types(two.q) = Types(one.q) \cup {"COMPARE"}
        /\ two.q # <<>> /\ Mirrored(two)
    <2>1. one \in Machine /\ "COMPARE" \notin Types(one.q)
      BY <1>4 DEF Kept
    <2> QED  BY <1>3, <1>4, <2>1, AddKept
  <1>6. InitInterrupt(c) = two
    BY DEF InitInterrupt, one, cleared
  <1> HIDE DEF two
  <1>7. Types(two.q) = {"SPECIAL", "COMPARE"}
    BY <1>4, <1>5
  <1>8. Kept(two, c)
    BY <1>2, <1>4, <1>5 DEF Kept
  <1> QED  BY <1>5, <1>6, <1>7, <1>8

LEMMA PoweredOnSteady ==
    ASSUME Hosted, NEW c \in Machine, ~c.dropped, ~c.early, ~c.spurious
    PROVE  Steady(PoweredOn(c))
  <1> DEFINE fresh ==
        [c EXCEPT !.count = PowerOnCount, !.cycle = 0, !.next = 0, !.q = <<>>, !.compare = 0,
                  !.ie = FALSE, !.exl = FALSE, !.im = {}, !.ip = {},
                  !.intr = {}, !.mask = {}, !.skip = FALSE, !.reset = FALSE]
             d == InitInterrupt(fresh)
  <1>1. fresh \in Machine /\ fresh.skip = FALSE /\ fresh.dropped = c.dropped
        /\ fresh.early = c.early /\ fresh.spurious = c.spurious
    <2>1. 0 \in Counts /\ 0 \in Cycles /\ PowerOnCount \in Counts /\ <<>> \in Seq(Events)
      BY RangeLarge, PowerOnAssumption DEF Counts, Cycles
    <2> QED  BY <2>1 DEF Machine
  <1>2. PoweredOn(c) = d
    BY DEF PoweredOn
  <1> HIDE DEF fresh
  <1>3. Kept(d, fresh) /\ Filed(d.q) /\ Types(d.q) = {"SPECIAL", "COMPARE"} /\ Mirrored(d)
    BY <1>1, InitKept
  <1> HIDE DEF d
  <1>4. Steady(d)
    BY <1>1, <1>3 DEF Steady, Sound, Kept
  <1> QED  BY <1>2, <1>4

LEMMA NmiSteady ==
    ASSUME Hosted, NEW c, Sound(c), ~c.skip
    PROVE  Steady(NmiIntHandler(c))
  <1> DEFINE booted  == [c EXCEPT !.ie = FALSE, !.exl = FALSE, !.im = {}, !.ip = {}]
             lowered == [booted EXCEPT !.intr = @ \ {"SP", "PI", "VI"}]
             ip      == IF lowered.intr \cap lowered.mask # {}
                           THEN lowered.ip \cup {"IP2"} ELSE lowered.ip \ {"IP2"}
             caused  == [lowered EXCEPT !.ip = ip]
             zeroed  == [caused EXCEPT !.count = 0]
             rebuilt == InitInterrupt(zeroed)
             d       == AddInterruptEvent(rebuilt, "VI", VIDelay)
  <1>1. c \in Machine /\ ~c.dropped /\ ~c.early /\ ~c.spurious
    BY DEF Sound
  <1>2. lowered \in Machine /\ ~lowered.dropped /\ ~lowered.early /\ ~lowered.spurious
        /\ ~lowered.skip /\ ~lowered.ie /\ lowered.ip = {}
    BY <1>1 DEF Machine
  <1> HIDE DEF lowered
  <1>3. ip \in SUBSET IPs
    BY <1>2 DEF IPs
  <1>4. CheckInterrupt(lowered) = IF Deliverable(caused) THEN PushCheck(caused) ELSE caused
    BY DEF CheckInterrupt
  <1> HIDE DEF ip
  <1>5. /\ caused \in Machine /\ ~caused.dropped /\ ~caused.early /\ ~caused.spurious
        /\ ~caused.skip /\ ~caused.ie
    BY <1>2, <1>3 DEF Machine
  <1>6. CheckInterrupt(lowered) = caused
    BY <1>4, <1>5 DEF Deliverable, Enabled
  <1>7. NmiIntHandler(c) = d
    BY <1>6 DEF NmiIntHandler, lowered
  <1> HIDE DEF caused
  <1>8. /\ zeroed \in Machine /\ ~zeroed.dropped /\ ~zeroed.early /\ ~zeroed.spurious
        /\ ~zeroed.skip
    <2>1. 0 \in Counts
      BY RangeLarge DEF Counts
    <2> QED  BY <1>5, <2>1 DEF Machine
  <1> HIDE DEF zeroed
  <1>9. /\ Kept(rebuilt, zeroed) /\ Filed(rebuilt.q)
        /\ Types(rebuilt.q) = {"SPECIAL", "COMPARE"}
    BY <1>8, InitKept
  <1>10. "VI" \in EventTypes /\ "VI" \notin Types(rebuilt.q) /\ VIDelay \in Nat
         /\ rebuilt \in Machine
    BY <1>9, DelaysAssumption DEF Hosted, EventTypes, Kept
  <1> HIDE DEF rebuilt
  <1>11. Kept(d, rebuilt) /\ Filed(d.q) /\ Types(d.q) = Types(rebuilt.q) \cup {"VI"} /\ Mirrored(d)
    BY <1>9, <1>10, AddDelayKept
  <1> HIDE DEF d
  <1>12. Types(d.q) = {"SPECIAL", "COMPARE", "VI"}
    BY <1>9, <1>11
  <1>13. Steady(d)
    BY <1>8, <1>9, <1>11, <1>12 DEF Steady, Sound, Kept
  <1> QED  BY <1>7, <1>13

LEMMA DevicesApart == ASSUME NEW d \in Devices PROVE d \notin CoreEvents /\ d \in EventTypes
  BY DevicesAssumption DEF EventTypes

\* The event removed, the machine can go on, if it was no anchor.
LEMMA PoppedSteady ==
    ASSUME NEW c, Sound(c), ~c.skip, NEW type, type = c.q[1].type,
           type \notin {"SPECIAL", "COMPARE"}, "CHECK" \in Types(c.q) => type = "CHECK"
    PROVE  LET d == RemoveInterruptEvent(c)
           IN  Steady(d) /\ Kept(d, c) /\ Types(d.q) = Types(c.q) \ {type}
  <1> DEFINE d == RemoveInterruptEvent(c)
  <1>1. c \in Machine /\ Filed(c.q) /\ c.q # <<>> /\ "SPECIAL" \in Types(c.q)
    BY AnchoredHead DEF Sound
  <1>2. Kept(d, c) /\ Filed(d.q) /\ Types(d.q) = Types(c.q) \ {type} /\ Mirrored(d)
    BY <1>1, PopKept
  <1> HIDE DEF d
  <1>3. Sound(d) /\ "CHECK" \notin Types(d.q) /\ ~d.skip
    BY <1>2, KeptSound DEF Sound, Kept
  <1>4. Steady(d)
    BY <1>2, <1>3 DEF Steady
  <1> QED  BY <1>2, <1>4 DEF d

LEMMA ViServed ==
    ASSUME Hosted, NEW c, Steady(c), c.q[1].type = "VI", NEW slot \in BOOLEAN
    PROVE  Served(ViVerticalInterruptEvent(c, slot), slot)
  <1> DEFINE yielded == [c EXCEPT !.frame = TRUE]
             found   == GetEvent(c.q, "VI")
             next_vi == U(c.q[Min(found)].count + VIDelay)
             popped  == RemoveInterruptEvent(yielded)
             armed   == AddInterruptEventCount(popped, "VI", next_vi)
  <1>1. c \in Machine /\ Sound(c) /\ Filed(c.q) /\ "CHECK" \notin Types(c.q) /\ ~c.skip
    BY DEF Steady, Sound
  <1>2. next_vi \in Counts
    <2>1. c.q \in Seq(Events) /\ 1 \in 1 .. Len(c.q) /\ DOMAIN c.q = 1 .. Len(c.q)
      BY <1>1, AnchoredHead DEF Filed
    <2>2. found \in SUBSET Nat /\ found # {} /\ found \subseteq 1 .. Len(c.q)
      BY <2>1 DEF GetEvent
    <2>3. Min(found) \in 1 .. Len(c.q)
      BY <2>2, LeastOf
    <2>4. c.q[Min(found)].count \in Int
      <3> DEFINE e == c.q[Min(found)]
      <3>1. e \in Events
        BY <2>1, <2>3
      <3> HIDE DEF e
      <3>2. e.count \in Int
        BY <3>1, RangeLarge DEF Events, Counts
      <3> QED  BY <3>2 DEF e
    <2> QED  BY <2>4, CountType, DelaysAssumption
  <1>3. ViVerticalInterruptEvent(c, slot) = RaiseRcpInterrupt(armed, "VI", slot)
    BY DEF ViVerticalInterruptEvent
  <1> HIDE DEF next_vi
  <1>4. /\ yielded \in Machine /\ yielded.q = c.q /\ yielded.count = c.count
        /\ yielded.next = c.next /\ yielded.cycle = c.cycle /\ yielded.skip = c.skip
        /\ yielded.dropped = c.dropped /\ yielded.early = c.early
        /\ yielded.spurious = c.spurious
    BY <1>1 DEF Machine
  <1> HIDE DEF yielded
  <1>5. Sound(yielded) /\ ~yielded.skip
    BY <1>1, <1>4, RegistersSteady
  <1>6. Steady(popped) /\ Types(popped.q) = Types(c.q) \ {"VI"}
    BY <1>1, <1>4, <1>5, PoppedSteady
  <1> HIDE DEF popped
  <1>7. "VI" \in Devices /\ "VI" \in EventTypes /\ "VI" \notin Types(popped.q)
        /\ popped \in Machine /\ Filed(popped.q)
    BY <1>6 DEF Hosted, EventTypes, Steady, Sound
  <1>8. /\ Kept(armed, popped) /\ Filed(armed.q)
        /\ Types(armed.q) = Types(popped.q) \cup {"VI"} /\ Mirrored(armed)
    BY <1>2, <1>7, AddKept
  <1> HIDE DEF armed
  <1>9. Steady(armed)
    <2>1. {"SPECIAL", "COMPARE"} \subseteq Types(armed.q) /\ "CHECK" \notin Types(armed.q)
      BY <1>6, <1>8 DEF Steady, Sound
    <2> QED  BY <1>6, <1>8, <2>1, KeptSound DEF Steady, Kept
  <1> QED  BY <1>3, <1>7, <1>9, RcpServed

LEMMA SpecialServed ==
    ASSUME Hosted, NEW c, Steady(c), c.q[1].type = "SPECIAL"
    PROVE  Steady(SpecialIntHandler(c))
  <1> DEFINE popped == RemoveInterruptEvent(c)
             d      == AddSpecial(popped)
  <1>1. c \in Machine /\ Filed(c.q) /\ c.q # <<>> /\ "COMPARE" \in Types(c.q) /\ Sound(c)
    BY AnchoredHead DEF Steady, Sound
  <1>2. Kept(popped, c) /\ Filed(popped.q) /\ Types(popped.q) = Types(c.q) \ {"SPECIAL"}
    BY <1>1, PopKept
  <1> HIDE DEF popped
  <1>3. Kept(d, popped) /\ Filed(d.q) /\ Types(d.q) = Types(popped.q) \cup {"SPECIAL"} /\ Mirrored(d)
    <2>1. popped \in Machine /\ "SPECIAL" \notin Types(popped.q)
      BY <1>2 DEF Kept
    <2> QED  BY <1>2, <2>1, SpecialKept
  <1>4. SpecialIntHandler(c) = d
    BY DEF SpecialIntHandler, popped
  <1> HIDE DEF d
  <1>5. {"SPECIAL", "COMPARE"} \subseteq Types(d.q) /\ "CHECK" \notin Types(d.q)
    BY <1>1, <1>2, <1>3 DEF Steady
  <1>6. Kept(d, c)
    BY <1>2, <1>3 DEF Kept
  <1>7. Steady(d)
    BY <1>1, <1>3, <1>5, <1>6, KeptSound DEF Steady, Kept
  <1> QED  BY <1>4, <1>7

LEMMA CompareServed ==
    ASSUME Hosted, NEW c, Steady(c), c.q[1].type = "COMPARE", NEW slot \in BOOLEAN
    PROVE  Served(CompareIntHandler(RemoveInterruptEvent(c), slot), slot)
  <1> DEFINE popped == RemoveInterruptEvent(c)
             d      == AddCompare(popped, popped.compare)
  <1>1. c \in Machine /\ Filed(c.q) /\ c.q # <<>> /\ "SPECIAL" \in Types(c.q) /\ Sound(c)
    BY AnchoredHead DEF Steady, Sound
  <1>2. Kept(popped, c) /\ Filed(popped.q) /\ Types(popped.q) = Types(c.q) \ {"COMPARE"}
    BY <1>1, PopKept
  <1> HIDE DEF popped
  <1>3. Kept(d, popped) /\ Filed(d.q) /\ Types(d.q) = Types(popped.q) \cup {"COMPARE"} /\ Mirrored(d)
    <2>1. popped \in Machine /\ "COMPARE" \notin Types(popped.q) /\ popped.compare \in Counts
      BY <1>2, MachineInts DEF Kept
    <2> QED  BY <1>2, <2>1, CompareKept
  <1>4. CompareIntHandler(popped, slot) = RaiseMaskableInterrupt(d, "IP7", slot)
    BY DEF CompareIntHandler
  <1> HIDE DEF d
  <1>5. {"SPECIAL", "COMPARE"} \subseteq Types(d.q) /\ "CHECK" \notin Types(d.q)
    BY <1>1, <1>2, <1>3 DEF Steady
  <1>6. Kept(d, c)
    BY <1>2, <1>3 DEF Kept
  <1>7. Steady(d)
    BY <1>1, <1>3, <1>5, <1>6, KeptSound DEF Steady, Kept
  <1>8. "IP7" \in IPs
    BY DEF IPs
  <1> QED  BY <1>4, <1>7, <1>8, MaskableServed DEF popped

\* The head that is due is served by the handler of its type, and it is not early.
LEMMA ServeOf ==
    ASSUME NEW c, Steady(c) \/ Urgent(c), c.cycle >= 0, NEW slot
    PROVE  LET type   == c.q[1].type
               popped == RemoveInterruptEvent(c)
           IN  /\ c \in Machine /\ Sound(c) /\ Mirrored(c) /\ ~c.skip
               /\ type \in Types(c.q) /\ type \in EventTypes
               /\ type = "CHECK" => Deliverable(c)
               /\ "CHECK" \in Types(c.q) => type = "CHECK"
               /\ type # "CHECK" => Steady(c)
               /\ Serve(c, slot) =
                    CASE type = "VI"      -> ViVerticalInterruptEvent(c, slot)
                      [] type = "SPECIAL" -> SpecialIntHandler(c)
                      [] type = "COMPARE" -> CompareIntHandler(popped, slot)
                      [] type = "CHECK"   -> CheckIntHandler(popped, slot)
                      [] type = "HW2"     -> RaiseMaskableInterrupt(popped, "IP4", slot)
                      [] type = "NMI"     -> NmiIntHandler(popped)
                      [] OTHER            -> RaiseRcpInterrupt(popped, type, slot)
  <1> DEFINE type   == c.q[1].type
             ahead  == [c EXCEPT !.early = @ \/ S(c.count - c.q[1].count) < 0]
             popped == RemoveInterruptEvent(c)
  <1>1. /\ c \in Machine /\ Sound(c) /\ Mirrored(c) /\ ~c.skip
        /\ type \in Types(c.q) /\ type \in EventTypes
        /\ type = "CHECK" => Deliverable(c)
        /\ "CHECK" \in Types(c.q) => type = "CHECK"
        /\ type # "CHECK" => Steady(c)
    BY AnchoredHead DEF Steady, Urgent, Sound
  <1>2. ahead = c
    <2>1. S(c.count - c.q[1].count) = c.cycle /\ c.cycle \in Int
      BY <1>1, MachineInts DEF Mirrored
    <2>2. ~(S(c.count - c.q[1].count) < 0)
      BY <2>1
    <2>3. c.early = FALSE
      BY <1>1 DEF Sound, Machine
    <2>4. (c.early \/ S(c.count - c.q[1].count) < 0) = FALSE
      BY <2>2, <2>3
    <2>5. ahead = [c EXCEPT !.early = FALSE]
      BY <2>4
    <2> HIDE DEF ahead
    <2> QED  BY <1>1, <2>3, <2>5 DEF Machine
  <1>3. Serve(c, slot) =
          CASE type = "VI"      -> ViVerticalInterruptEvent(c, slot)
            [] type = "SPECIAL" -> SpecialIntHandler(c)
            [] type = "COMPARE" -> CompareIntHandler(popped, slot)
            [] type = "CHECK"   -> CheckIntHandler(popped, slot)
            [] type = "HW2"     -> RaiseMaskableInterrupt(popped, "IP4", slot)
            [] type = "NMI"     -> NmiIntHandler(popped)
            [] OTHER            -> RaiseRcpInterrupt(popped, type, slot)
    <2>1. Serve(c, slot) =
            CASE type = "VI"      -> ViVerticalInterruptEvent(ahead, slot)
              [] type = "SPECIAL" -> SpecialIntHandler(ahead)
              [] type = "COMPARE" -> CompareIntHandler(RemoveInterruptEvent(ahead), slot)
              [] type = "CHECK"   -> CheckIntHandler(RemoveInterruptEvent(ahead), slot)
              [] type = "HW2"     -> RaiseMaskableInterrupt(RemoveInterruptEvent(ahead), "IP4", slot)
              [] type = "NMI"     -> NmiIntHandler(RemoveInterruptEvent(ahead))
              [] OTHER            -> RaiseRcpInterrupt(RemoveInterruptEvent(ahead), type, slot)
      BY DEF Serve
    <2> HIDE DEF ahead, type
    <2> QED  BY <1>2, <2>1
  <1> HIDE DEF ahead
  <1> QED  BY <1>1, <1>3

LEMMA ServeServed ==
    ASSUME Hosted, NEW c, Steady(c) \/ Urgent(c), c.cycle >= 0, NEW slot \in BOOLEAN
    PROVE  Served(Serve(c, slot), slot)
  <1> DEFINE type   == c.q[1].type
             popped == RemoveInterruptEvent(c)
  <1>1. /\ c \in Machine /\ Sound(c) /\ Mirrored(c) /\ ~c.skip
        /\ type \in Types(c.q) /\ type \in EventTypes
        /\ type = "CHECK" => Deliverable(c)
        /\ "CHECK" \in Types(c.q) => type = "CHECK"
        /\ type # "CHECK" => Steady(c)
    BY ServeOf
  <1>3. Serve(c, slot) =
          CASE type = "VI"      -> ViVerticalInterruptEvent(c, slot)
            [] type = "SPECIAL" -> SpecialIntHandler(c)
            [] type = "COMPARE" -> CompareIntHandler(popped, slot)
            [] type = "CHECK"   -> CheckIntHandler(popped, slot)
            [] type = "HW2"     -> RaiseMaskableInterrupt(popped, "IP4", slot)
            [] type = "NMI"     -> NmiIntHandler(popped)
            [] OTHER            -> RaiseRcpInterrupt(popped, type, slot)
    BY ServeOf
  <1>4. type \notin {"SPECIAL", "COMPARE"} =>
            Steady(popped) /\ Kept(popped, c) /\ Types(popped.q) = Types(c.q) \ {type}
    BY <1>1, PoppedSteady
  <1>5. CASE type = "VI"
    <2>1. type # "CHECK"
      BY <1>5
    <2> QED  BY <1>1, <1>3, <1>5, <2>1, ViServed
  <1>6. CASE type = "SPECIAL"
    <2>1. Serve(c, slot) = SpecialIntHandler(c)
      BY <1>3, <1>6
    <2> QED  BY <1>1, <1>6, <2>1, SpecialServed DEF Served
  <1>7. CASE type = "COMPARE"
    <2>1. Serve(c, slot) = CompareIntHandler(popped, slot)
      BY <1>3, <1>7
    <2> QED  BY <1>1, <1>7, <2>1, CompareServed
  <1> HIDE DEF popped
  <1>8. CASE type = "CHECK"
    <2>1. Serve(c, slot) = TakeInterrupt(popped, slot)
      BY <1>3, <1>8 DEF CheckIntHandler
    <2>2. Steady(popped) /\ Deliverable(popped)
      BY <1>1, <1>4, <1>8 DEF Kept, Deliverable, Enabled
    <2> QED  BY <2>1, <2>2, TakenServed
  <1>9. CASE type = "HW2"
    <2>1. Serve(c, slot) = RaiseMaskableInterrupt(popped, "IP4", slot)
      BY <1>3, <1>9
    <2>2. Steady(popped) /\ "IP4" \in IPs
      BY <1>4, <1>9 DEF IPs
    <2> QED  BY <2>1, <2>2, MaskableServed
  <1>10. CASE type = "NMI"
    <2>1. Serve(c, slot) = NmiIntHandler(popped)
      BY <1>3, <1>10
    <2>2. Sound(popped) /\ ~popped.skip
      BY <1>4, <1>10 DEF Steady
    <2> QED  BY <2>1, <2>2, NmiSteady DEF Served
  <1>11. CASE type \notin {"VI", "SPECIAL", "COMPARE", "CHECK", "HW2", "NMI"}
    <2>1. Serve(c, slot) = RaiseRcpInterrupt(popped, type, slot)
      BY <1>3, <1>11
    <2>2. Steady(popped) /\ type \in Devices
      BY <1>1, <1>4, <1>11 DEF EventTypes, CoreEvents
    <2> QED  BY <2>1, <2>2, RcpServed
  <1> QED  BY <1>5, <1>6, <1>7, <1>8, <1>9, <1>10, <1>11

LEMMA GenServed ==
    ASSUME Hosted, NEW c, Steady(c) \/ Urgent(c), NEW unsafe, NEW slot \in BOOLEAN
    PROVE  Served(GenIfDue(c, unsafe, slot), slot)
  <1>1. c \in Machine /\ ~c.dropped /\ ~c.early /\ ~c.spurious /\ ~c.skip
    BY DEF Steady, Urgent, Sound
  <1>2. Steady(PoweredOn(c))
    BY <1>1, PoweredOnSteady
  <1>3. CASE c.cycle >= 0
    <2>1. Served(Serve(c, slot), slot)
      BY <1>3, ServeServed
    <2>2. GenIfDue(c, unsafe, slot) = IF c.reset /\ ~unsafe THEN PoweredOn(c) ELSE Serve(c, slot)
      BY <1>1, <1>3 DEF GenIfDue, GenInterrupt
    <2> QED  BY <1>2, <2>1, <2>2 DEF Served
  <1>4. CASE ~(c.cycle >= 0)
    <2>1. GenIfDue(c, unsafe, slot) = c /\ ~Urgent(c)
      BY <1>4 DEF GenIfDue, Urgent
    <2> QED  BY <2>1 DEF Served
  <1> QED  BY <1>3, <1>4

LEMMA EndSteady ==
    ASSUME Hosted, NEW slot \in BOOLEAN, NEW c, Served(c, slot)
    PROVE  Steady(EndBranch(c, slot))
  <1>1. CASE ~slot
    BY <1>1 DEF EndBranch, Served
  <1>2. CASE slot /\ Steady(c)
    <2>1. Served(GenIfDue(c, FALSE, FALSE), FALSE)
      BY <1>2, GenServed
    <2> QED  BY <1>2, <2>1 DEF EndBranch, Served
  <1>3. CASE slot /\ ~Steady(c)
    <2> DEFINE r == [c EXCEPT !.skip = FALSE]
    <2>1. Sound(c) /\ "CHECK" \notin Types(c.q) /\ c.skip /\ c.cycle = 0
      BY <1>3 DEF Served
    <2>2. EndBranch(c, slot) = IF c.reset THEN PoweredOn(c) ELSE Mirror(r)
      <3>1. EndBranch(c, slot) = GenInterrupt(c, FALSE, FALSE)
        BY <1>3, <2>1 DEF EndBranch, GenIfDue
      <3>2. c.reset => GenInterrupt(c, FALSE, FALSE) = PoweredOn(c)
        BY DEF GenInterrupt
      <3>3. ~c.reset => GenInterrupt(c, FALSE, FALSE) = Mirror(r)
        BY <2>1 DEF GenInterrupt
      <3> QED  BY <3>1, <3>2, <3>3
    <2>3. c \in Machine /\ ~c.dropped /\ ~c.early /\ ~c.spurious /\ Filed(c.q) /\ c.q # <<>>
      BY <2>1, AnchoredHead DEF Sound
    <2>4. Steady(PoweredOn(c))
      BY <2>3, PoweredOnSteady
    <2>5. /\ r \in Machine /\ r.q = c.q /\ r.skip = FALSE /\ r.dropped = c.dropped
          /\ r.early = c.early /\ r.spurious = c.spurious
      BY <2>3 DEF Machine
    <2> HIDE DEF r
    <2>6. Kept(Mirror(r), r) /\ Mirror(r).q = r.q /\ Mirrored(Mirror(r))
      BY <2>3, <2>5, MirrorKept
    <2>7. Steady(Mirror(r))
      BY <2>1, <2>5, <2>6 DEF Steady, Sound, Kept
    <2> QED  BY <2>2, <2>4, <2>7
  <1> QED  BY <1>1, <1>2, <1>3

-----------------------------------------------------------------------------
(* A reload of the queue.                                                   *)

LEMMA UpTo ==
    ASSUME NEW N, 0 \in N, \A n \in Nat : n \in N => n + 1 \in N
    PROVE  Nat \subseteq N
  <1> SUFFICES ASSUME Nat \ N # {} PROVE FALSE
    OBVIOUS
  <1>1. Nat \ N \in SUBSET Nat
    OBVIOUS
  <1>2. PICK x \in Nat \ N : \A y \in Nat \ N : x <= y
    BY <1>1, LeastOf
  <1>3. x # 0 /\ x - 1 \in Nat /\ x - 1 \in N
    BY <1>2
  <1> QED  BY <1>2, <1>3

\* The insertions are made one after the other.
LEMMA RefillSteps ==
    ASSUME NEW c, NEW saved, Len(saved) \in Nat
    PROVE  /\ Refill(c, saved)[0] = ClearQueue(c)
           /\ \A n \in 1 .. Len(saved) :
                 Refill(c, saved)[n]
                   = AddInterruptEventCount(Refill(c, saved)[n - 1], saved[n].type, saved[n].count)
  <1> DEFINE first      == ClearQueue(c)
             step(e, n) == AddInterruptEventCount(e, saved[n].type, saved[n].count)
             Upto(k, f) == f = [n \in 0 .. k |-> IF n = 0 THEN first ELSE step(f[n - 1], n)]
             N          == {k \in Nat : \E f : Upto(k, f)}
             d          == Refill(c, saved)
  <1>1. d = CHOOSE f : Upto(Len(saved), f)
    BY DEF Refill
  <1> HIDE DEF first, step, d
  <1>2. 0 \in N
    <2> DEFINE f == [n \in 0 .. 0 |-> first]
    <2>1. Upto(0, f)
      OBVIOUS
    <2> QED  BY <2>1
  <1>3. ASSUME NEW k \in Nat, k \in N PROVE k + 1 \in N
    <2>1. PICK f : Upto(k, f)
      BY <1>3
    <2> DEFINE g == [n \in 0 .. k + 1 |-> IF n <= k THEN f[n] ELSE step(f[k], k + 1)]
    <2>2. \A n \in 0 .. k + 1 : g[n] = IF n = 0 THEN first ELSE step(g[n - 1], n)
      <3> SUFFICES ASSUME NEW n \in 0 .. k + 1
                   PROVE  g[n] = IF n = 0 THEN first ELSE step(g[n - 1], n)
        OBVIOUS
      <3>1. CASE n = 0
        <4>1. g[n] = f[0] /\ f[0] = first
          BY <2>1, <3>1
        <4> QED  BY <3>1, <4>1
      <3>2. CASE n # 0 /\ n <= k
        <4>1. n - 1 \in 0 .. k + 1 /\ n - 1 <= k /\ n \in 0 .. k
          BY <3>2
        <4>2. g[n] = f[n] /\ g[n - 1] = f[n - 1]
          BY <3>2, <4>1
        <4>3. f[n] = step(f[n - 1], n)
          BY <2>1, <3>2, <4>1
        <4> QED  BY <3>2, <4>2, <4>3
      <3>3. CASE n = k + 1
        <4>1. n - 1 = k /\ ~(n <= k) /\ n # 0 /\ k \in 0 .. k + 1 /\ k <= k
          BY <3>3
        <4>2. g[n] = step(f[k], k + 1) /\ g[k] = f[k]
          BY <3>3, <4>1
        <4> QED  BY <3>3, <4>1, <4>2
      <3> QED  BY <3>1, <3>2, <3>3
    <2>3. Upto(k + 1, g)
      <3> DEFINE h == [n \in 0 .. k + 1 |-> IF n = 0 THEN first ELSE step(g[n - 1], n)]
      <3>1. \A n \in 0 .. k + 1 : g[n] = h[n]
        BY <2>2
      <3>2. g = [n \in 0 .. k + 1 |-> g[n]] /\ h = [n \in 0 .. k + 1 |-> h[n]]
        OBVIOUS
      <3> HIDE DEF g, h
      <3>3. g = h
        BY <3>1, <3>2
      <3> QED  BY <3>3 DEF h
    <2> HIDE DEF g, Upto
    <2>4. \E f1 : Upto(k + 1, f1)
      BY <2>3
    <2> QED  BY <2>4
  <1>4. Len(saved) \in N
    <2> HIDE DEF N
    <2> QED  BY <1>2, <1>3, UpTo
  <1>5. Upto(Len(saved), d)
    <2>1. \E f : Upto(Len(saved), f)
      BY <1>4
    <2> HIDE DEF Upto
    <2> QED  BY <1>1, <2>1
  <1>6. 0 \in 0 .. Len(saved) /\ \A n \in 1 .. Len(saved) : n \in 0 .. Len(saved) /\ n # 0
    OBVIOUS
  <1>7. d[0] = first /\ \A n \in 1 .. Len(saved) : d[n] = step(d[n - 1], n)
    BY <1>5, <1>6
  <1> QED  BY <1>7 DEF d, first, step

\* The queue loaded from itself has the same types of events.
LEMMA RefillKept ==
    ASSUME Hosted, NEW c, Steady(c)
    PROVE  LET d == Refill(c, c.q)[Len(c.q)]
           IN  Kept(d, c) /\ Filed(d.q) /\ Types(d.q) = Types(c.q)
  <1> DEFINE n    == Len(c.q)
             r(k) == Refill(c, c.q)[k]
             P(k) == Kept(r(k), c) /\ Filed(r(k).q) /\ Types(r(k).q) = {c.q[i].type : i \in 1 .. k}
             N    == {k \in Nat : k <= n => P(k)}
  <1>1. c \in Machine /\ Filed(c.q) /\ c.q \in Seq(Events) /\ n \in Nat
    BY DEF Steady, Sound, Filed
  <1>2. /\ r(0) = ClearQueue(c)
        /\ \A k \in 1 .. n :
              r(k) = AddInterruptEventCount(r(k - 1), c.q[k].type, c.q[k].count)
    BY <1>1, RefillSteps
  <1> HIDE DEF r, n
  <1>3. P(0)
    <2>1. Filed(<<>>) /\ Types(<<>>) = {}
      BY DEF Filed, Types
    <2>2. Kept(ClearQueue(c), c) /\ ClearQueue(c).q = <<>>
      BY <1>1, <2>1, Requeued DEF ClearQueue
    <2>3. {c.q[i].type : i \in 1 .. 0} = {}
      OBVIOUS
    <2> QED  BY <1>2, <2>1, <2>2, <2>3
  <1>4. ASSUME NEW k \in Nat, k + 1 <= n, P(k) PROVE P(k + 1)
    <2> DEFINE e == c.q[k + 1]
               d == r(k)
    <2>1. k + 1 \in 1 .. n /\ (k + 1) - 1 = k
      BY <1>1, <1>4
    <2>2. e \in Events
      BY <1>1, <2>1 DEF n
    <2>3. e.type \in EventTypes /\ e.count \in Counts
      BY <2>2 DEF Events
    <2>4. e.type \notin Types(d.q)
      <3>1. Types(d.q) = {c.q[i].type : i \in 1 .. k}
        BY <1>4
      <3>2. \A i \in 1 .. k : i \in 1 .. n /\ i # k + 1
        BY <1>1, <2>1
      <3>3. \A i \in 1 .. k : c.q[i].type # c.q[k + 1].type
        BY <1>1, <2>1, <3>2 DEF Filed, n
      <3> QED  BY <3>1, <3>3
    <2>5. r(k + 1) = AddInterruptEventCount(d, e.type, e.count)
      BY <1>2, <2>1
    <2>6. d \in Machine /\ Filed(d.q) /\ Kept(d, c) /\ Types(d.q) = {c.q[i].type : i \in 1 .. k}
      BY <1>4 DEF Kept
    <2>7. {c.q[i].type : i \in 1 .. k + 1} = {c.q[i].type : i \in 1 .. k} \cup {e.type}
      <3>1. \A i : i \in 1 .. k + 1 <=> i \in 1 .. k \/ i = k + 1
        BY <1>4
      <3> QED  BY <3>1
    <2> HIDE DEF d, e
    <2> DEFINE f == AddInterruptEventCount(d, e.type, e.count)
    <2>8. Kept(f, d) /\ Filed(f.q) /\ Types(f.q) = Types(d.q) \cup {e.type}
      BY <2>3, <2>4, <2>6, AddKept
    <2> HIDE DEF f
    <2>9. Kept(f, c) /\ Types(f.q) = {c.q[i].type : i \in 1 .. k + 1}
      BY <2>6, <2>7, <2>8 DEF Kept
    <2>10. r(k + 1) = f
      BY <2>5 DEF f
    <2> QED  BY <2>8, <2>9, <2>10
  <1> HIDE DEF P
  <1>5. 0 \in N
    BY <1>3
  <1>6. \A k \in Nat : k \in N => k + 1 \in N
    <2> SUFFICES ASSUME NEW k \in Nat, k <= n => P(k), k + 1 <= n PROVE P(k + 1)
      OBVIOUS
    <2>1. k <= n
      BY <1>1
    <2> QED  BY <1>4, <2>1
  <1>7. n \in N
    <2> HIDE DEF N
    <2>1. Nat \subseteq N
      BY <1>5, <1>6, UpTo
    <2> QED  BY <1>1, <2>1
  <1>8. P(n)
    BY <1>1, <1>7
  <1> QED  BY <1>8 DEF P, Types, n, r

LEMMA ReloadSteady ==
    ASSUME Hosted, NEW c, Steady(c)
    PROVE  Steady(LoadEventQueueInfos(c, c.q))
  <1> DEFINE l == Refill(c, c.q)[Len(c.q)]
             d == [c EXCEPT !.q = l.q, !.next = l.next, !.cycle = l.cycle,
                            !.dropped = l.dropped]
             e == RemoveEvent(d, "SPECIAL")
             f == AddSpecial(e)
  <1>1. c \in Machine /\ {"SPECIAL", "COMPARE"} \subseteq Types(c.q) /\ Sound(c) /\ ~c.skip
        /\ "CHECK" \notin Types(c.q)
    BY DEF Steady, Sound
  <1>2. Kept(l, c) /\ Filed(l.q) /\ Types(l.q) = Types(c.q)
    BY RefillKept
  <1>3. LoadEventQueueInfos(c, c.q) = f
    BY DEF LoadEventQueueInfos
  <1> HIDE DEF l
  <1>4. Kept(d, c) /\ d.q = l.q
    BY <1>1, <1>2 DEF Kept, Machine
  <1> HIDE DEF d
  <1>5. Kept(e, d) /\ Filed(e.q) /\ Types(e.q) = Types(d.q) \ {"SPECIAL"}
    <2>1. d \in Machine /\ Filed(d.q)
      BY <1>2, <1>4 DEF Kept
    <2> QED  BY <2>1, RemoveKept
  <1> HIDE DEF e
  <1>6. Kept(f, e) /\ Filed(f.q) /\ Types(f.q) = Types(e.q) \cup {"SPECIAL"} /\ Mirrored(f)
    <2>1. e \in Machine /\ "SPECIAL" \notin Types(e.q)
      BY <1>5 DEF Kept
    <2> QED  BY <1>5, <2>1, SpecialKept
  <1> HIDE DEF f
  <1>7. Types(f.q) = Types(c.q) /\ Kept(f, c)
    BY <1>1, <1>2, <1>4, <1>5, <1>6 DEF Kept
  <1>8. Steady(f)
    BY <1>1, <1>6, <1>7, KeptSound DEF Steady, Kept
  <1> QED  BY <1>3, <1>8

\* A write of COUNT moves the events and keeps their types.
LEMMA TranslateSteady ==
    ASSUME Hosted, NEW c, Steady(c), NEW base \in Counts, NEW compare \in Counts
    PROVE  Steady(TranslateEventQueue(c, base, compare))
  <1> DEFINE less    == RemoveEvent(c, "COMPARE")
             kept    == RemoveEvent(less, "SPECIAL")
             moved   == [i \in DOMAIN kept.q |->
                          [kept.q[i] EXCEPT !.count = U((@ - c.count) + base)]]
             shifted == [kept EXCEPT !.q = moved, !.count = base]
             armed   == AddSpecial(shifted)
             d       == AddCompare(armed, compare)
  <1>1. c \in Machine /\ {"SPECIAL", "COMPARE"} \subseteq Types(c.q) /\ Sound(c) /\ ~c.skip
        /\ "CHECK" \notin Types(c.q) /\ Filed(c.q)
    BY DEF Steady, Sound
  <1>2. TranslateEventQueue(c, base, compare) = d
    BY DEF TranslateEventQueue
  <1>3. Kept(less, c) /\ Filed(less.q) /\ Types(less.q) = Types(c.q) \ {"COMPARE"}
    BY <1>1, RemoveKept
  <1> HIDE DEF less
  <1>4. Kept(kept, less) /\ Filed(kept.q) /\ Types(kept.q) = Types(less.q) \ {"SPECIAL"}
    BY <1>3, RemoveKept DEF Kept
  <1> HIDE DEF kept
  <1>5. Filed(moved) /\ Types(moved) = Types(kept.q)
    <2> DEFINE n == Len(kept.q)
               to(e) == [e EXCEPT !.count = U((@ - c.count) + base)]
    <2>1. n \in Nat /\ DOMAIN kept.q = 1 .. n /\ \A i \in 1 .. n : kept.q[i] \in Events
      BY <1>4 DEF Filed
    <2>2. ASSUME NEW e \in Events PROVE to(e) \in Events /\ to(e).type = e.type
      <3> DEFINE x == (e.count - c.count) + base
                 y == U(x)
      <3>1. x \in Int
        <4>1. e.count \in Int /\ c.count \in Int /\ base \in Int
          BY <1>1, MachineInts, RangeLarge DEF Events, Counts
        <4> QED  BY <4>1
      <3> HIDE DEF x
      <3>2. y \in Counts
        BY <3>1, CountType
      <3>3. to(e) = [e EXCEPT !.count = y]
        BY DEF x
      <3> HIDE DEF y, to
      <3> QED  BY <3>2, <3>3 DEF Events
    <2>3. moved = [i \in 1 .. n |-> to(kept.q[i])]
      BY <2>1
    <2> HIDE DEF to, n, moved
    <2>4. /\ moved \in Seq(Events) /\ Len(moved) = n
          /\ \A i \in 1 .. n : moved[i].type = kept.q[i].type
      BY <2>1, <2>2, <2>3
    <2>5. \A i, j \in 1 .. n : kept.q[i].type = kept.q[j].type => i = j
      BY <1>4 DEF Filed, n
    <2>6. Types(kept.q) = {kept.q[i].type : i \in 1 .. n}
      BY DEF Types, n
    <2>7. Types(moved) = {moved[i].type : i \in 1 .. n}
      BY <2>4 DEF Types
    <2>8. {moved[i].type : i \in 1 .. n} = {kept.q[i].type : i \in 1 .. n}
      BY <2>4
    <2>9. \A i, j \in 1 .. n : moved[i].type = moved[j].type => i = j
      BY <2>4, <2>5
    <2> QED  BY <2>4, <2>6, <2>7, <2>8, <2>9 DEF Filed
  <1> HIDE DEF moved
  <1>6. /\ shifted \in Machine /\ shifted.q = moved /\ shifted.skip = c.skip
        /\ shifted.dropped = c.dropped /\ shifted.early = c.early
        /\ shifted.spurious = c.spurious
    BY <1>3, <1>4, <1>5 DEF Kept, Machine, Filed
  <1> HIDE DEF shifted
  <1>7. Kept(armed, shifted) /\ Filed(armed.q) /\ Types(armed.q) = Types(moved) \cup {"SPECIAL"}
    <2>1. Filed(shifted.q) /\ "SPECIAL" \notin Types(shifted.q)
      BY <1>4, <1>5, <1>6
    <2> QED  BY <1>6, <2>1, SpecialKept
  <1> HIDE DEF armed
  <1>8. Kept(d, armed) /\ Filed(d.q) /\ Types(d.q) = Types(armed.q) \cup {"COMPARE"} /\ Mirrored(d)
    <2>1. armed \in Machine /\ "COMPARE" \notin Types(armed.q)
      BY <1>3, <1>4, <1>5, <1>7 DEF Kept
    <2> QED  BY <1>7, <2>1, CompareKept
  <1> HIDE DEF d
  <1>9. {"SPECIAL", "COMPARE"} \subseteq Types(d.q) /\ "CHECK" \notin Types(d.q)
    BY <1>1, <1>3, <1>4, <1>5, <1>7, <1>8
  <1>10. Steady(d)
    BY <1>1, <1>6, <1>7, <1>8, <1>9 DEF Steady, Sound, Kept
  <1> QED  BY <1>2, <1>10

\* A device is started, or a reset button pressed.
LEMMA AddSteady ==
    ASSUME Hosted, NEW c, Steady(c), NEW type \in EventTypes \ {"CHECK"},
           GetEvent(c.q, type) = {}, NEW delay \in Nat
    PROVE  LET d == AddInterruptEvent(c, type, delay)
           IN  Steady(d) /\ \A t : GetEvent(c.q, t) = {} /\ t # type => GetEvent(d.q, t) = {}
  <1> DEFINE d == AddInterruptEvent(c, type, delay)
  <1>1. \A q, t : Filed(q) => (GetEvent(q, t) = {} <=> t \notin Types(q))
    BY DEF Filed, GetEvent, Types
  <1>2. c \in Machine /\ Filed(c.q) /\ Sound(c) /\ type \notin Types(c.q)
    BY <1>1 DEF Steady, Sound
  <1>3. Kept(d, c) /\ Filed(d.q) /\ Types(d.q) = Types(c.q) \cup {type} /\ Mirrored(d)
    BY <1>2, AddDelayKept
  <1> HIDE DEF d
  <1>4. {"SPECIAL", "COMPARE"} \subseteq Types(d.q) /\ "CHECK" \notin Types(d.q)
    BY <1>2, <1>3 DEF Steady, Sound
  <1>5. Steady(d)
    BY <1>2, <1>3, <1>4, KeptSound DEF Steady, Kept
  <1>6. \A t : t \notin Types(c.q) /\ t # type => t \notin Types(d.q)
    BY <1>3
  <1>7. \A t : GetEvent(c.q, t) = {} /\ t # type => GetEvent(d.q, t) = {}
    BY <1>1, <1>2, <1>3, <1>6
  <1> QED  BY <1>5, <1>7 DEF d

-----------------------------------------------------------------------------
(* The instructions, and what the frontend does between two of them.         *)

\* Software that is Disciplined raises and acknowledges lines with interrupts disabled.
LEMMA UnheardSteady ==
    ASSUME Hosted, NEW c, Steady(c), ~Enabled(c), NEW lines \in SUBSET Lines
    PROVE  Steady(CheckInterrupt([c EXCEPT !.intr = lines]))
  <1> DEFINE d == [c EXCEPT !.intr = lines]
  <1>1. c \in Machine
    BY DEF Steady, Sound
  <1>2. /\ d \in Machine /\ d.q = c.q /\ d.count = c.count /\ d.next = c.next
        /\ d.cycle = c.cycle /\ d.skip = c.skip /\ d.dropped = c.dropped
        /\ d.early = c.early /\ d.spurious = c.spurious /\ d.ie = c.ie /\ d.exl = c.exl
    BY <1>1 DEF Machine
  <1> HIDE DEF d
  <1>3. Steady(d) /\ ~Enabled(d)
    BY <1>2, RegistersSteady DEF Enabled
  <1>4. ~Urgent(CheckInterrupt(d))
    <2>1. CheckInterrupt(d).ie = d.ie /\ CheckInterrupt(d).exl = d.exl
      <3>1. d \in Machine
        BY <1>2
      <3> QED  BY <3>1 DEF CheckInterrupt, PushCheck, Machine
    <2> QED  BY <1>3, <2>1 DEF Urgent, Deliverable, Enabled
  <1> QED  BY <1>3, <1>4, CheckedSteady DEF d

LEMMA IdleSteady ==
    ASSUME NEW c, Steady(c), c.cycle < 0
    PROVE  Steady([c EXCEPT !.count = U(c.count - c.cycle), !.cycle = 0])
  <1> DEFINE count == U(c.count - c.cycle)
             d     == [c EXCEPT !.count = count, !.cycle = 0]
             head  == c.q[1].count
  <1>1. c \in Machine /\ Sound(c) /\ Mirrored(c)
    BY DEF Steady, Sound
  <1>2. c.count \in Int /\ c.cycle \in Int /\ head \in Int
    BY <1>1, AnchoredHead, MachineInts, RangeLarge DEF Counts
  <1>3. count \in Counts /\ 0 \in Cycles
    BY <1>2, CountType, RangeLarge DEF Cycles
  <1>4. S(count - head) = 0
    <2> DEFINE x == c.count - head
               y == c.count - c.cycle
    <2>1. c.cycle = S(x)
      BY <1>1 DEF Mirrored
    <2>2. x \in Int /\ y \in Int /\ -head \in Int /\ y + (-head) = x - c.cycle /\ x - x = 0
      BY <1>2
    <2> HIDE DEF x, y
    <2>3. S(U(y) + (-head)) = S(y + (-head)) /\ S(x - S(x)) = S(x - x)
      BY <2>2, WrapSum
    <2>4. U(y) \in Int
      BY <2>2, CountType, RangeLarge DEF Counts
    <2>5. U(y) - head = U(y) + (-head)
      BY <1>2, <2>4
    <2> QED  BY <2>1, <2>2, <2>3, <2>5, WrapSmall DEF y
  <1>5. c.next = head
    BY <1>1 DEF Mirrored
  <1> HIDE DEF count, head
  <1>6. /\ d \in Machine /\ d.q = c.q /\ d.cycle = 0 /\ d.count = count /\ d.next = c.next
        /\ d.skip = c.skip /\ d.dropped = c.dropped /\ d.early = c.early
        /\ d.spurious = c.spurious
    BY <1>1, <1>3 DEF Machine
  <1> HIDE DEF d
  <1>7. Mirrored(d)
    BY <1>4, <1>5, <1>6 DEF Mirrored, head
  <1>8. Steady(d)
    BY <1>6, <1>7 DEF Steady, Sound
  <1> QED  BY <1>8 DEF d, count

LEMMA InitSteady == ASSUME Hosted, Init PROVE Steady(m)
  <1> DEFINE blank == [count |-> 0, cycle |-> 0, next |-> 0, q |-> <<>>, compare |-> 0,
                       ie |-> FALSE, exl |-> FALSE, im |-> {}, ip |-> {},
                       intr |-> {}, mask |-> {}, skip |-> FALSE, reset |-> FALSE,
                       frame |-> FALSE, dropped |-> FALSE, early |-> FALSE, spurious |-> FALSE]
  <1>1. 0 \in Counts /\ 0 \in Cycles /\ <<>> \in Seq(Events)
    BY RangeLarge DEF Counts, Cycles
  <1>2. blank \in Machine /\ ~blank.dropped /\ ~blank.early /\ ~blank.spurious
    BY <1>1 DEF Machine
  <1>3. m = PoweredOn(blank)
    BY DEF Init
  <1> HIDE DEF blank
  <1> QED  BY <1>2, <1>3, PoweredOnSteady

LEMMA StepSteady == ASSUME Hosted, Steady(m), [Next]_vars PROVE Steady(m')
  <1>1. m \in Machine /\ Filed(m.q) /\ m.compare \in Counts /\ ~m.skip
    BY MachineInts DEF Steady, Sound
  <1>2. ASSUME NEW n \in Steps PROVE n \in Nat /\ n < HalfRange /\ Steady(UpdateCount(m, n))
    <2>1. n \in Nat /\ n < HalfRange
      BY StepsAssumption DEF Hosted
    <2> QED  BY <2>1, UpdateSteady
  <1>3. ASSUME NEW n \in Steps, Branch(n) PROVE Steady(m')
    BY <1>2, <1>3, GenServed DEF Branch, Served
  <1>4. ASSUME NEW n \in Steps, IdleBranch(n) PROVE Steady(m')
    <2> DEFINE idle == IF m.cycle < 0
                       THEN [m EXCEPT !.count = U(@ - m.cycle), !.cycle = 0]
                       ELSE m
    <2>1. Steady(idle)
      BY IdleSteady
    <2> HIDE DEF idle
    <2>2. Steady(UpdateCount(idle, n))
      BY <1>2, <2>1, UpdateSteady
    <2>3. m' = GenIfDue(UpdateCount(idle, n), FALSE, FALSE)
      BY <1>4 DEF IdleBranch, idle
    <2> QED  BY <2>2, <2>3, GenServed DEF Served
  <1>5. ASSUME NEW n \in Steps, Eret(n) PROVE Steady(m')
    <2> DEFINE now  == UpdateCount(m, n)
               left == [now EXCEPT !.exl = FALSE]
    <2>1. m' = GenIfDue(CheckInterrupt(left), FALSE, FALSE)
      BY <1>5 DEF Eret
    <2>2. Steady(now) /\ now \in Machine
      BY <1>2 DEF Steady, Sound
    <2> HIDE DEF now
    <2>3. /\ left \in Machine /\ left.q = now.q /\ left.count = now.count
          /\ left.next = now.next /\ left.cycle = now.cycle /\ left.skip = now.skip
          /\ left.dropped = now.dropped /\ left.early = now.early
          /\ left.spurious = now.spurious
      BY <2>2 DEF Machine
    <2> HIDE DEF left
    <2>4. Steady(left)
      BY <2>2, <2>3, RegistersSteady
    <2>5. Steady(CheckInterrupt(left)) \/ Urgent(CheckInterrupt(left))
      BY <2>4, CheckedSteady
    <2> QED  BY <2>1, <2>5, GenServed DEF Served
  <1>6. ASSUME NEW n \in Steps, ObserveCount(n) PROVE Steady(m')
    BY <1>2, <1>6 DEF ObserveCount
  <1>7. ASSUME NEW n \in Steps, NEW d \in Devices, NEW delay \in Delays, StartDevice(d, n, delay)
        PROVE  Steady(m')
    <2> DEFINE now == UpdateCount(m, n)
    <2>1. now.q = m.q
      BY <1>1 DEF UpdateCount, Machine
    <2>2. Steady(now) /\ GetEvent(now.q, d) = {} /\ m' = AddInterruptEvent(now, d, delay)
      BY <1>2, <1>7, <2>1 DEF StartDevice
    <2> HIDE DEF now
    <2>3. d \in EventTypes \ {"CHECK"} /\ delay \in Nat
      BY DevicesAssumption, DelaysAssumption DEF EventTypes, CoreEvents
    <2> QED  BY <2>2, <2>3, AddSteady
  <1>8. ASSUME NEW n \in Steps, NEW slot \in BOOLEAN, Syscall(n, slot) PROVE Steady(m')
    <2>1. Served(ExceptionGeneral(UpdateCount(m, n), slot), slot)
      BY <1>2, ExceptionServed
    <2> QED  BY <1>8, <2>1, EndSteady DEF Syscall
  <1>9. ASSUME NEW n \in Steps, NEW value \in CountWrites, NEW slot \in BOOLEAN,
               MtcCount(n, value, slot)
        PROVE  Steady(m')
    <2> DEFINE served == GenIfDue(UpdateCount(m, n), TRUE, slot)
    <2>1. ~slot /\ m' = EndBranch(TranslateEventQueue(served, value, served.compare), slot)
      BY <1>9 DEF MtcCount, Hosted
    <2>2. Steady(served) /\ served \in Machine
      BY <1>2, <2>1, GenServed DEF Served, Steady, Sound
    <2> HIDE DEF served
    <2>3. value \in Counts /\ served.compare \in Counts
      BY <2>2, MachineInts, WritesAssumption
    <2>4. Steady(TranslateEventQueue(served, value, served.compare))
      BY <2>2, <2>3, TranslateSteady
    <2> QED  BY <2>1, <2>4 DEF EndBranch
  <1>10. ASSUME NEW n \in Steps, NEW gap \in CompareGaps, MtcCompare(n, gap) PROVE Steady(m')
    <2> DEFINE now     == UpdateCount(m, n)
               less    == RemoveEvent(now, "COMPARE")
               compare == U(now.count + gap)
               armed   == AddCompare(less, compare)
               d       == [armed EXCEPT !.compare = compare, !.ip = @ \ {"IP7"}]
    <2>1. m' = d
      BY <1>10 DEF MtcCompare
    <2>2. Steady(now) /\ Sound(now) /\ now \in Machine /\ Filed(now.q)
          /\ {"SPECIAL", "COMPARE"} \subseteq Types(now.q)
      BY <1>2 DEF Steady, Sound
    <2> HIDE DEF now
    <2>3. Kept(less, now) /\ Filed(less.q) /\ Types(less.q) = Types(now.q) \ {"COMPARE"}
      BY <2>2, RemoveKept
    <2> HIDE DEF less
    <2>4. compare \in Counts
      BY <2>2, MachineInts, CountType, GapsAssumption
    <2> HIDE DEF compare
    <2>5. Kept(armed, less) /\ Filed(armed.q) /\ Types(armed.q) = Types(less.q) \cup {"COMPARE"}
          /\ Mirrored(armed)
      <3>1. less \in Machine /\ "COMPARE" \notin Types(less.q)
        BY <2>3 DEF Kept
      <3> QED  BY <2>3, <2>4, <3>1, CompareKept
    <2> HIDE DEF armed
    <2>6. {"SPECIAL", "COMPARE"} \subseteq Types(armed.q) /\ "CHECK" \notin Types(armed.q)
      BY <2>2, <2>3, <2>5 DEF Steady
    <2>7. Kept(armed, now)
      BY <2>3, <2>5 DEF Kept
    <2>8. Steady(armed)
      BY <2>2, <2>5, <2>6, <2>7, KeptSound DEF Steady, Kept
    <2>9. /\ d \in Machine /\ d.q = armed.q /\ d.count = armed.count /\ d.next = armed.next
          /\ d.cycle = armed.cycle /\ d.skip = armed.skip /\ d.dropped = armed.dropped
          /\ d.early = armed.early /\ d.spurious = armed.spurious
      <3>1. armed \in Machine
        BY <2>7 DEF Kept
      <3> QED  BY <2>4, <3>1 DEF Machine
    <2> HIDE DEF d
    <2> QED  BY <2>1, <2>8, <2>9, RegistersSteady
  <1>11. ASSUME NEW n \in Steps, NEW w \in StatusWrites, NEW slot \in BOOLEAN,
                MtcStatus(n, w, slot)
         PROVE  Steady(m')
    <2> DEFINE loaded  == [m EXCEPT !.ie = w.ie, !.exl = w.exl, !.im = w.im]
               written == UpdateCount(loaded, n)
    <2>1. m' = EndBranch(GenIfDue(CheckInterrupt(written), TRUE, slot), slot)
      BY <1>11 DEF MtcStatus
    <2>2. w.ie \in BOOLEAN /\ w.exl \in BOOLEAN /\ w.im \in SUBSET IPs
      BY StatusAssumption
    <2>3. /\ loaded \in Machine /\ loaded.q = m.q /\ loaded.count = m.count
          /\ loaded.next = m.next /\ loaded.cycle = m.cycle /\ loaded.skip = m.skip
          /\ loaded.dropped = m.dropped /\ loaded.early = m.early
          /\ loaded.spurious = m.spurious
      BY <1>1, <2>2 DEF Machine
    <2> HIDE DEF loaded
    <2>4. Steady(loaded)
      BY <2>3, RegistersSteady
    <2>5. Steady(written)
      BY <1>2, <2>4, UpdateSteady
    <2> HIDE DEF written
    <2>6. Steady(CheckInterrupt(written)) \/ Urgent(CheckInterrupt(written))
      BY <2>5, CheckedSteady
    <2>7. Served(GenIfDue(CheckInterrupt(written), TRUE, slot), slot)
      BY <2>6, GenServed
    <2> QED  BY <2>1, <2>7, EndSteady
  <1>12. ASSUME NEW n \in Steps, NEW lines \in MaskWrites, NEW slot \in BOOLEAN,
                WriteMiMask(n, lines, slot)
         PROVE  Steady(m')
    <2> DEFINE masked  == [m EXCEPT !.mask = lines]
               checked == CheckInterrupt(masked)
               now     == UpdateCount(checked, n)
    <2>1. m' = EndBranch(GenIfDue(now, FALSE, slot), slot)
      BY <1>12 DEF WriteMiMask
    <2>2. /\ masked \in Machine /\ masked.q = m.q /\ masked.count = m.count
          /\ masked.next = m.next /\ masked.cycle = m.cycle /\ masked.skip = m.skip
          /\ masked.dropped = m.dropped /\ masked.early = m.early
          /\ masked.spurious = m.spurious
      BY <1>1, MasksAssumption DEF Machine, Lines
    <2> HIDE DEF masked
    <2>3. Steady(masked)
      BY <2>2, RegistersSteady
    <2>4. Steady(checked) \/ (Urgent(checked) /\ checked.cycle = 0)
      <3>1. \/ Steady(CheckInterrupt(masked))
            \/ Urgent(CheckInterrupt(masked)) /\ CheckInterrupt(masked).cycle = 0
        BY <2>3, CheckedSteady
      <3> QED  BY <3>1
    <2> HIDE DEF checked
    <2>5. Steady(now) \/ Urgent(now)
      BY <1>2, <2>4, UpdateSteady
    <2> HIDE DEF now
    <2>6. Served(GenIfDue(now, FALSE, slot), slot)
      BY <2>5, GenServed
    <2> QED  BY <2>1, <2>6, EndSteady
  <1>13. ASSUME NEW line \in Lines, SignalLine(line) \/ AcknowledgeLine(line) PROVE Steady(m')
    <2>1. ~Enabled(m)
      BY <1>13 DEF Hosted, SignalLine, AcknowledgeLine
    <2>2. m.intr \cup {line} \in SUBSET Lines /\ m.intr \ {line} \in SUBSET Lines
      BY <1>1 DEF Machine
    <2>3. Steady(SignalRcpInterrupt(m, line)) /\ Steady(ClearRcpInterrupt(m, line))
      BY <2>1, <2>2, UnheardSteady DEF SignalRcpInterrupt, ClearRcpInterrupt
    <2> QED  BY <1>13, <2>3 DEF SignalLine, AcknowledgeLine
  <1>13a. ASSUME NEW line \in PluginLines, PluginRaises(line) \/ PluginHoldsBack(line)
         PROVE  Steady(m')
    <2>1. PICK x \in SUBSET Lines : m' = [m EXCEPT !.intr = x]
      <3>1. m.intr \cup {line} \in SUBSET Lines /\ m.intr \ {line} \in SUBSET Lines
        BY <1>1, PluginAssumption DEF Machine, Lines
      <3> QED  BY <1>13a, <3>1 DEF PluginRaises, PluginHoldsBack
    <2>2. /\ m' \in Machine /\ m'.q = m.q /\ m'.count = m.count /\ m'.next = m.next
          /\ m'.cycle = m.cycle /\ m'.skip = m.skip /\ m'.dropped = m.dropped
          /\ m'.early = m.early /\ m'.spurious = m.spurious
      BY <1>1, <2>1 DEF Machine
    <2> QED  BY <2>2, RegistersSteady
  <1>13b. ASSUME NEW line \in PluginLines, NEW n \in Steps, NEW delay \in Delays,
                PluginDefers(line, n, delay)
         PROVE  Steady(m')
    <2> DEFINE now   == UpdateCount(m, n)
               intr  == now.intr \ {line}
               taken == [now EXCEPT !.intr = intr]
    <2>1. now.q = m.q /\ now \in Machine /\ Steady(now)
      BY <1>1, <1>2 DEF UpdateCount, Machine, Steady, Sound
    <2>2. GetEvent(now.q, line) = {} /\ m' = AddInterruptEvent(taken, line, delay)
      BY <1>13b, <2>1 DEF PluginDefers
    <2> HIDE DEF now
    <2>3. intr \in SUBSET Lines
      BY <2>1 DEF Machine
    <2> HIDE DEF intr
    <2>4. /\ taken \in Machine /\ taken.q = now.q /\ taken.count = now.count
          /\ taken.next = now.next /\ taken.cycle = now.cycle /\ taken.skip = now.skip
          /\ taken.dropped = now.dropped /\ taken.early = now.early
          /\ taken.spurious = now.spurious
      BY <2>1, <2>3 DEF Machine
    <2> HIDE DEF taken
    <2>5. Steady(taken)
      BY <2>1, <2>4, RegistersSteady
    <2>6. line \in EventTypes \ {"CHECK"} /\ delay \in Nat
      BY PluginAssumption, DevicesAssumption, DelaysAssumption DEF EventTypes, CoreEvents
    <2> QED  BY <2>2, <2>4, <2>5, <2>6, AddSteady
  <1>14. ASSUME SoftReset PROVE Steady(m')
    <2> DEFINE first == AddInterruptEvent(m, "HW2", 0)
    <2>1. GetEvent(m.q, "HW2") = {} /\ GetEvent(m.q, "NMI") = {}
          /\ m' = AddInterruptEvent(first, "NMI", NMIDelay)
      BY <1>14 DEF SoftReset
    <2>2. /\ "HW2" \in EventTypes \ {"CHECK"} /\ "NMI" \in EventTypes \ {"CHECK"}
          /\ 0 \in Nat /\ NMIDelay \in Nat /\ "NMI" # "HW2"
      BY DelaysAssumption DEF EventTypes, CoreEvents
    <2>3. Steady(first) /\ GetEvent(first.q, "NMI") = {}
      BY <2>1, <2>2, AddSteady
    <2> HIDE DEF first
    <2> QED  BY <2>1, <2>2, <2>3, AddSteady
  <1>15. ASSUME HardReset \/ RunFrame PROVE Steady(m')
    <2>1. /\ m' \in Machine /\ m'.q = m.q /\ m'.count = m.count /\ m'.next = m.next
          /\ m'.cycle = m.cycle /\ m'.skip = m.skip /\ m'.dropped = m.dropped
          /\ m'.early = m.early /\ m'.spurious = m.spurious
      BY <1>1, <1>15 DEF HardReset, RunFrame, Machine
    <2> QED  BY <2>1, RegistersSteady
  <1>16. ASSUME Reload PROVE Steady(m')
    BY <1>16, ReloadSteady DEF Reload, SaveEventQueueInfos
  <1>17. CASE UNCHANGED vars
    BY <1>17 DEF vars
  <1> QED
    BY <1>3, <1>4, <1>5, <1>6, <1>7, <1>8, <1>9, <1>10, <1>11, <1>12, <1>13, <1>14,
       <1>13a, <1>13b, <1>15, <1>16, <1>17 DEF Next, PluginWrites

-----------------------------------------------------------------------------
LEMMA SoleOf ==
    ASSUME NEW q, Filed(q), NEW type \in Types(q)
    PROVE  Sole(q, type)
  <1>1. PICK i \in 1 .. Len(q) : q[i].type = type
    BY DEF Types
  <1>2. DOMAIN q = 1 .. Len(q)
    BY DEF Filed
  <1>3. GetEvent(q, type) = {i}
    BY <1>1, <1>2 DEF GetEvent, Filed
  <1> QED  BY <1>1, <1>2, <1>3 DEF Sole

LEMMA SteadyAlways == ASSUME Hosted PROVE Spec => []Steady(m)
  <1>1. Init => Steady(m)
    BY InitSteady
  <1>2. Steady(m) /\ [Next]_vars => Steady(m)'
    <2> SUFFICES ASSUME Steady(m), [Next]_vars PROVE Steady(m')
      BY DEF Steady, Sound, Filed, Types, Mirrored
    <2> QED  BY StepSteady
  <1> QED  BY <1>1, <1>2, PTL DEF Spec

\* The registers keep their widths and the queue its events, through the wrap of COUNT
\* and of cycle_count.
THEOREM TypeCorrect == ASSUME Hosted PROVE Spec => []TypeOK
  <1>1. Steady(m) => TypeOK
    BY DEF Steady, Sound, TypeOK
  <1> QED  BY <1>1, SteadyAlways, PTL

\* The queue holds one SPECIAL_INT and one COMPARE_INT after every instruction, served
\* event, reset and reload, so gen_interrupt always finds a head.
THEOREM AlwaysAnchored == ASSUME Hosted PROVE Spec => []Anchored
  <1>1. Steady(m) => Anchored
    BY SoleOf DEF Steady, Sound, Anchored
  <1> QED  BY <1>1, SteadyAlways, PTL

\* next_interrupt and cycle_count agree with the head of the queue and COUNT wherever a
\* core tests them, also after the removals that do not refresh them.
THEOREM ViewsAgree == ASSUME Hosted PROVE Spec => []HeadMirrored
  <1>1. Steady(m) => HeadMirrored
    BY DEF Steady, Mirrored, HeadMirrored
  <1> QED  BY <1>1, SteadyAlways, PTL

\* The pool never runs out of nodes: no type of event is queued twice, CHECK_INT included.
THEOREM PoolSuffices == ASSUME Hosted PROVE Spec => []NothingDropped
  <1>1. Steady(m) => NothingDropped
    BY DEF Steady, Sound, NothingDropped
  <1> QED  BY <1>1, SteadyAlways, PTL

\* gen_interrupt serves no event before COUNT reaches it.
THEOREM ServedWhenDue == ASSUME Hosted PROVE Spec => []NeverEarly
  <1>1. Steady(m) => NeverEarly
    BY DEF Steady, Sound, NeverEarly
  <1> QED  BY <1>1, SteadyAlways, PTL

\* A CHECK_INT still finds the interrupt deliverable when it is served, and no handler
\* enters the exception otherwise.
THEOREM NoSpuriousInterrupt == ASSUME Hosted PROVE Spec => []TakenOnlyUnmasked
  <1>1. Steady(m) => TakenOnlyUnmasked
    BY DEF Steady, Sound, TakenOnlyUnmasked
  <1> QED  BY <1>1, SteadyAlways, PTL
=============================================================================

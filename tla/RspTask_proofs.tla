---------------------------- MODULE RspTask_proofs ----------------------------
(***************************************************************************)
(* For every set of status writes task libraries make, every type of task    *)
(* and every mask: a suspended task always has its one event, a full sync is  *)
(* never dropped, and the CPU hears of every line MI lets through.           *)
(***************************************************************************)
EXTENDS RspTask, TLAPS

\* What a started task needs for its end to be reported: no write takes
\* INTR_BREAK from it, and BROKE is not left from the last one.
Running(c) == "HALT" \notin c.status => "INTR_BREAK" \in c.status /\ "BROKE" \notin c.status

\* PumpAlive of a record; and SyncNeverLost and NoneMissed, which need the
\* graphics plugin to be Angrylion.
Pumped(c) == c.spInt = IF "HALT" \in c.status THEN 0 ELSE 1
Owing(c)  == Angrylion /\ c.owed => c.dpInt > 0 \/ c.deferred
Told(c)   == Angrylion /\ c.intr \cap c.mask # {} => c.ip2

\* Between the run of a task and the consumption of its DP bit, that bit is one
\* of the places a full sync can be, and the CPU need not know of it.
OwingOrSet(c) == Owing(c) \/ ("DP" \in c.intr /\ c.task = "gfx")
ToldButDp(c)  ==
    \/ Told(c)
    \/ c.task = "gfx" /\ (Angrylion /\ (c.intr \ {"DP"}) \cap c.mask # {} => c.ip2)

IInv == r \in Rcp /\ Running(r) /\ Pumped(r) /\ Owing(r) /\ Told(r)

-----------------------------------------------------------------------------
\* The MI operators keep the type, tell the CPU, and touch nothing else.
LEMMA CheckInterruptTells ==
    ASSUME NEW c \in Rcp
    PROVE  /\ CheckInterrupt(c) \in Rcp
           /\ Told(CheckInterrupt(c))
  BY DEF CheckInterrupt, Rcp, Told

LEMMA SignalTells ==
    ASSUME NEW c \in Rcp, NEW line \in Lines
    PROVE  LET d == SignalRcpInterrupt(c, line)
           IN  /\ d \in Rcp /\ Told(d) /\ d.intr = c.intr \cup {line}
               /\ d.status = c.status /\ d.locked = c.locked /\ d.task = c.task
               /\ d.spInt = c.spInt /\ d.dpInt = c.dpInt /\ d.mask = c.mask
               /\ d.freeze = c.freeze /\ d.deferred = c.deferred /\ d.owed = c.owed
  <1> DEFINE e == [c EXCEPT !.intr = @ \cup {line}]
  <1>1. e \in Rcp
    BY DEF Rcp
  <1>2. CheckInterrupt(e) \in Rcp /\ Told(CheckInterrupt(e))
    BY <1>1, CheckInterruptTells
  <1> QED  BY <1>2 DEF SignalRcpInterrupt, CheckInterrupt, Rcp

LEMMA ClearTells ==
    ASSUME NEW c \in Rcp, NEW line \in Lines
    PROVE  LET d == ClearRcpInterrupt(c, line)
           IN  /\ d \in Rcp /\ Told(d) /\ d.intr = c.intr \ {line}
               /\ d.status = c.status /\ d.locked = c.locked /\ d.task = c.task
               /\ d.spInt = c.spInt /\ d.dpInt = c.dpInt /\ d.mask = c.mask
               /\ d.freeze = c.freeze /\ d.deferred = c.deferred /\ d.owed = c.owed
  <1> DEFINE e == [c EXCEPT !.intr = @ \ {line}]
  <1>1. e \in Rcp
    BY DEF Rcp
  <1>2. CheckInterrupt(e) \in Rcp /\ Told(CheckInterrupt(e))
    BY <1>1, CheckInterruptTells
  <1> QED  BY <1>2 DEF ClearRcpInterrupt, CheckInterrupt, Rcp

LEMMA RaiseTells ==
    ASSUME NEW c \in Rcp, NEW line \in Lines, Told(c)
    PROVE  LET d == RaiseRcpInterrupt(c, line)
           IN  /\ d \in Rcp /\ Told(d)
               /\ d.status = c.status /\ d.spInt = c.spInt /\ d.dpInt = c.dpInt
               /\ d.deferred = c.deferred /\ d.owed = c.owed
  <1> DEFINE e == [c EXCEPT !.intr = @ \cup {line}]
             f == [e EXCEPT !.ip2 = TRUE]
  <1>1. e \in Rcp /\ e.ip2 = c.ip2 /\ e.mask = c.mask
    BY DEF Rcp
  <1>2. f \in Rcp /\ f.ip2
    BY <1>1 DEF Rcp
  <1> QED  BY <1>1, <1>2 DEF RaiseRcpInterrupt, Told, Rcp

-----------------------------------------------------------------------------
\* A full sync during a task is queued, or its bit is set for the task's end.
LEMMA FullSyncKeeps ==
    ASSUME NEW c \in Rcp, Told(c)
    PROVE  LET d == FullSync(c, c.task = "gfx")
           IN  /\ d \in Rcp /\ OwingOrSet(d) /\ ToldButDp(d)
               /\ d.status = c.status /\ d.spInt = c.spInt /\ d.task = c.task
  <1> DEFINE e == [c EXCEPT !.owed = TRUE]
             f == [e EXCEPT !.intr = @ \cup {"DP"}]
             g == [e EXCEPT !.intr = @ \ {"DP"}]
             h == [g EXCEPT !.dpInt = @ + 1]
  <1>1. e \in Rcp /\ e.task = c.task /\ e.intr = c.intr /\ e.mask = c.mask /\ e.ip2 = c.ip2
    BY DEF Rcp
  <1>2. CASE c.task = "gfx"
    <2>1. FullSync(c, c.task = "gfx") = f
      BY <1>2 DEF FullSync
    <2>2. f \in Rcp /\ f.intr = c.intr \cup {"DP"} /\ f.mask = c.mask /\ f.ip2 = c.ip2
      BY <1>1 DEF Rcp, Lines
    <2>3. OwingOrSet(f)
      BY <1>2, <2>2, <1>1 DEF OwingOrSet, Rcp
    <2>4. f.task = "gfx" /\ (Angrylion /\ (f.intr \ {"DP"}) \cap f.mask # {} => f.ip2)
      BY <1>2, <2>2, <1>1 DEF Told, Rcp
    <2> QED  BY <2>1, <2>2, <2>3, <2>4 DEF ToldButDp, Rcp
  <1>3. CASE c.task # "gfx"
    <2>1. FullSync(c, c.task = "gfx") = h
      BY <1>3 DEF FullSync, AddDpInt
    <2>2. /\ g \in Rcp /\ g.intr = c.intr \ {"DP"} /\ g.mask = c.mask /\ g.ip2 = c.ip2
          /\ g.status = c.status /\ g.spInt = c.spInt /\ g.task = c.task
      BY <1>1 DEF Rcp
    <2> HIDE DEF g
    <2>3. /\ h \in Rcp /\ h.dpInt > 0 /\ h.intr = g.intr /\ h.mask = g.mask /\ h.ip2 = g.ip2
          /\ h.status = g.status /\ h.spInt = g.spInt /\ h.task = g.task
      BY <2>2 DEF Rcp
    <2> HIDE DEF h
    <2>4. Told(h)
      BY <2>2, <2>3 DEF Told
    <2> QED  BY <2>1, <2>2, <2>3, <2>4 DEF OwingOrSet, Owing, ToldButDp
  <1> QED  BY <1>2, <1>3

\* A run of the plugin leaves every full sync somewhere, and a task that broke
\* has its SP bit set.
LEMMA DoRspCyclesKeeps ==
    ASSUME NEW c \in Rcp, Owing(c), Told(c), NEW o \in Outcomes
    PROVE  LET d == DoRspCycles(c, o)
           IN  /\ d \in Rcp /\ OwingOrSet(d) /\ ToldButDp(d)
               /\ d.spInt = c.spInt /\ d.task = c.task
               /\ d.status = IF o.stop THEN c.status \cup {"TASKDONE", "BROKE", "HALT"}
                             ELSE c.status
               /\ o.stop /\ "INTR_BREAK" \in c.status => "SP" \in d.intr
  <1> DEFINE synced  == IF o.sync THEN FullSync(c, c.task = "gfx") ELSE c
             raised  == IF o.raise THEN SignalRcpInterrupt(synced, "SP") ELSE synced
             stopped == [raised EXCEPT !.status = @ \cup {"TASKDONE", "BROKE", "HALT"}]
             Kept(d) == d \in Rcp /\ OwingOrSet(d) /\ ToldButDp(d)
                        /\ d.spInt = c.spInt /\ d.task = c.task
  <1>1. Kept(synced) /\ synced.status = c.status
    BY FullSyncKeeps DEF OwingOrSet, ToldButDp
  <1>2. \A d \in Rcp : Kept(d) => Kept(SignalRcpInterrupt(d, "SP"))
    <2> SUFFICES ASSUME NEW d \in Rcp, Kept(d)
                 PROVE  Kept(SignalRcpInterrupt(d, "SP"))
      OBVIOUS
    <2> QED  BY SignalTells DEF OwingOrSet, Owing, ToldButDp, Lines
  <1>3. \A d \in Rcp : /\ SignalRcpInterrupt(d, "SP").status = d.status
                       /\ "SP" \in SignalRcpInterrupt(d, "SP").intr
    BY SignalTells DEF Lines
  <1>4. Kept(raised) /\ raised.status = c.status
    BY <1>1, <1>2, <1>3
  <1>5. Kept(stopped) /\ stopped.status = c.status \cup {"TASKDONE", "BROKE", "HALT"}
    <2>1. raised \in Rcp
      BY <1>4
    <2> HIDE DEF raised
    <2>2. /\ stopped \in Rcp
          /\ stopped.status = raised.status \cup {"TASKDONE", "BROKE", "HALT"}
      BY <2>1 DEF Rcp, Bits
    <2>3. OwingOrSet(stopped) /\ ToldButDp(stopped)
      BY <1>4, <2>1 DEF Rcp, OwingOrSet, Owing, ToldButDp, Told
    <2>4. stopped.spInt = c.spInt /\ stopped.task = c.task
      BY <1>4, <2>1 DEF Rcp
    <2> QED  BY <1>4, <2>2, <2>3, <2>4
  <1>6. DoRspCycles(c, o) = IF ~o.stop THEN raised
                            ELSE IF "INTR_BREAK" \in c.status
                            THEN SignalRcpInterrupt(stopped, "SP") ELSE stopped
    BY DEF DoRspCycles
  <1> HIDE DEF raised, stopped
  <1> QED  BY <1>2, <1>3, <1>4, <1>5, <1>6

\* The end of a graphics task's bit: queued, or waiting for the unfreeze.
LEMMA ConsumeDpKeeps ==
    ASSUME NEW c \in Rcp, OwingOrSet(c), ToldButDp(c)
    PROVE  LET d == ConsumeDp(c)
           IN  /\ d \in Rcp /\ Owing(d) /\ Told(d)
               /\ d.spInt = c.spInt /\ d.status = c.status
               /\ "SP" \in c.intr => "SP" \in d.intr
  <1> DEFINE e == [c EXCEPT !.intr = @ \ {"DP"}]
             f == [e EXCEPT !.deferred = TRUE]
             g == [e EXCEPT !.dpInt = @ + 1]
  <1>1. /\ e \in Rcp /\ e.intr = c.intr \ {"DP"} /\ e.mask = c.mask /\ e.ip2 = c.ip2
        /\ e.spInt = c.spInt /\ e.status = c.status
    BY DEF Rcp
  <1> HIDE DEF e
  <1>2. /\ f \in Rcp /\ f.intr = e.intr /\ f.mask = e.mask /\ f.ip2 = e.ip2 /\ f.deferred
        /\ f.spInt = e.spInt /\ f.status = e.status
    BY <1>1 DEF Rcp
  <1>3. /\ g \in Rcp /\ g.intr = e.intr /\ g.mask = e.mask /\ g.ip2 = e.ip2 /\ g.dpInt > 0
        /\ g.spInt = e.spInt /\ g.status = e.status
    BY <1>1 DEF Rcp
  <1>4. CASE c.task = "gfx" /\ "DP" \in c.intr
    <2>1. ConsumeDp(c) = IF c.freeze THEN f ELSE g
      <3>1. e.freeze = c.freeze
        BY DEF e, Rcp
      <3> QED  BY <1>4 DEF ConsumeDp, AddDpInt, e
    <2>2. Angrylion /\ (c.intr \ {"DP"}) \cap c.mask # {} => c.ip2
      BY <1>4 DEF ToldButDp, Told
    <2> HIDE DEF f, g
    <2> QED  BY <1>1, <1>2, <1>3, <2>1, <2>2 DEF Owing, Told
  <1>5. CASE ~(c.task = "gfx" /\ "DP" \in c.intr)
    <2>1. ConsumeDp(c) = c
      BY <1>5 DEF ConsumeDp
    <2>2. Owing(c)
      BY <1>5 DEF OwingOrSet
    <2>3. Told(c)
      <3>1. c.task = "gfx" => c.intr \ {"DP"} = c.intr
        BY <1>5
      <3> QED  BY <3>1 DEF ToldButDp, Told
    <2> QED  BY <2>1, <2>2, <2>3
  <1> QED  BY <1>4, <1>5

\* do_SP_Task, called with no SP_INT queued for a task that is not halted,
\* leaves its one event, and HALT clear.
LEMMA DoSpTaskKeeps ==
    ASSUME NEW c \in Rcp, NEW o \in Outcomes, Owing(c), Told(c),
           c.spInt = 0, "HALT" \notin c.status, Running(c)
    PROVE  LET d == DoSpTask(c, o)
           IN  d \in Rcp /\ Running(d) /\ Pumped(d) /\ Owing(d) /\ Told(d)
  <1> DEFINE run    == DoRspCycles(c, o)
             ran    == ConsumeDp(run)
             locked == [ran EXCEPT !.locked = TRUE]
             free   == [ran EXCEPT !.locked = FALSE]
             pumped == IF ran.status \cap {"HALT", "BROKE"} = {} THEN AddSpInt(locked)
                       ELSE IF "SP" \in ran.intr THEN AddSpInt(free) ELSE free
             halves == {"TASKDONE", "BROKE", "HALT"}
  <1>1. /\ run \in Rcp /\ OwingOrSet(run) /\ ToldButDp(run) /\ run.spInt = c.spInt
        /\ run.status = IF o.stop THEN c.status \cup halves ELSE c.status
        /\ o.stop /\ "INTR_BREAK" \in c.status => "SP" \in run.intr
    BY DoRspCyclesKeeps
  <1> HIDE DEF run
  <1>2. /\ ran \in Rcp /\ Owing(ran) /\ Told(ran)
        /\ ran.spInt = run.spInt /\ ran.status = run.status
        /\ "SP" \in run.intr => "SP" \in ran.intr
    BY <1>1, ConsumeDpKeeps
  <1> HIDE DEF ran
  <1>3. "INTR_BREAK" \in c.status /\ "BROKE" \notin c.status
    BY DEF Running
  <1>4. "INTR_BREAK" \in ran.status
    BY <1>1, <1>2, <1>3
  <1>5. ran.status \cap {"HALT", "BROKE"} = {} \/ "SP" \in ran.intr
    BY <1>1, <1>2, <1>3
  <1>6. \A b \in BOOLEAN :
          LET q == AddSpInt([ran EXCEPT !.locked = b])
          IN  /\ q \in Rcp /\ q.spInt = 1 /\ q.status = ran.status /\ q.owed = ran.owed
              /\ q.dpInt = ran.dpInt /\ q.deferred = ran.deferred
              /\ q.intr = ran.intr /\ q.mask = ran.mask /\ q.ip2 = ran.ip2
    <2> SUFFICES ASSUME NEW b \in BOOLEAN
                 PROVE  LET q == AddSpInt([ran EXCEPT !.locked = b])
                        IN  /\ q \in Rcp /\ q.spInt = 1 /\ q.status = ran.status
                            /\ q.owed = ran.owed
                            /\ q.dpInt = ran.dpInt /\ q.deferred = ran.deferred
                            /\ q.intr = ran.intr /\ q.mask = ran.mask /\ q.ip2 = ran.ip2
      OBVIOUS
    <2> DEFINE e == [ran EXCEPT !.locked = b]
    <2>1. /\ e \in Rcp /\ e.spInt = 0 /\ e.status = ran.status /\ e.owed = ran.owed
          /\ e.dpInt = ran.dpInt /\ e.deferred = ran.deferred
          /\ e.intr = ran.intr /\ e.mask = ran.mask /\ e.ip2 = ran.ip2
      BY <1>1, <1>2 DEF Rcp
    <2> HIDE DEF e
    <2>2. /\ [e EXCEPT !.spInt = @ + 1] \in Rcp /\ AddSpInt(e) = [e EXCEPT !.spInt = @ + 1]
      BY <2>1 DEF Rcp, AddSpInt
    <2>3. LET q == AddSpInt(e)
          IN  /\ q \in Rcp /\ q.spInt = 1 /\ q.status = e.status /\ q.owed = e.owed
              /\ q.dpInt = e.dpInt /\ q.deferred = e.deferred
              /\ q.intr = e.intr /\ q.mask = e.mask /\ q.ip2 = e.ip2
      BY <2>1, <2>2 DEF Rcp
    <2> QED  BY <2>1, <2>3 DEF e
  <1>7. /\ pumped \in Rcp /\ pumped.spInt = 1 /\ pumped.status = ran.status
        /\ Owing(pumped) /\ Told(pumped)
    <2>1. \E b \in BOOLEAN : pumped = AddSpInt([ran EXCEPT !.locked = b])
      BY <1>5
    <2> HIDE DEF pumped
    <2> QED  BY <1>2, <1>6, <2>1 DEF Owing, Told
  <1>8. DoSpTask(c, o) = [pumped EXCEPT !.status = @ \ halves]
    BY DEF DoSpTask, ran, run
  <1> HIDE DEF pumped
  <1> DEFINE e == [pumped EXCEPT !.status = @ \ halves]
  <1>9. /\ e \in Rcp /\ e.status = ran.status \ halves /\ e.spInt = 1
        /\ e.owed = pumped.owed /\ e.dpInt = pumped.dpInt /\ e.deferred = pumped.deferred
        /\ e.intr = pumped.intr /\ e.mask = pumped.mask /\ e.ip2 = pumped.ip2
    BY <1>7 DEF Rcp
  <1> HIDE DEF e
  <1>10. Running(e) /\ Pumped(e)
    BY <1>4, <1>9 DEF Running, Pumped
  <1>11. Owing(e) /\ Told(e)
    BY <1>7, <1>9 DEF Owing, Told
  <1> QED  BY <1>8, <1>9, <1>10, <1>11 DEF e

-----------------------------------------------------------------------------
LEMMA InitIInv == Init => IInv
  BY DEF Init, IInv, Rcp, Bits, Lines, TaskTypes, Running, Pumped, Owing, Told

\* A write of SP_STATUS changes the status bits and the SP line only, and keeps
\* what a running task needs.
LEMMA StatusWrittenKeeps ==
    ASSUME NEW c \in Rcp, NEW w \in StatusWrites, Running(c), Owing(c), Told(c)
    PROVE  LET d == StatusWritten(c, w)
           IN  /\ d \in Rcp /\ Running(d) /\ Owing(d) /\ Told(d)
               /\ d.spInt = c.spInt /\ d.locked = c.locked
               /\ "HALT" \in d.status <=> "HALT" \in c.status /\ w.halt # "clear"
  <1> DEFINE halted == Change(c.status, "HALT", w.halt)
             broken == Change(halted, "BROKE", w.broke)
             broke  == Change(broken, "INTR_BREAK", w.intr_break)
             bits   == Change(broke, "TASKDONE", w.taskdone)
             e      == [c EXCEPT !.status = bits]
  <1>1. /\ w \in StatusWords /\ w.halt # "set" /\ w.intr_break # "clear"
        /\ w.halt = "clear" => w.broke = "clear" /\ w.intr_break = "set"
    BY StatusWritesAssumption
  <1>2. /\ w.halt \in {"keep", "clear"} /\ w.broke \in {"keep", "clear"}
        /\ w.intr_break \in {"keep", "set"} /\ w.taskdone \in {"keep", "clear"}
    BY <1>1 DEF StatusWords, Fields
  <1>3. c.status \in SUBSET Bits
    BY DEF Rcp
  <1>4. /\ bits \in SUBSET Bits
        /\ "HALT" \in bits <=> "HALT" \in c.status /\ w.halt # "clear"
        /\ "INTR_BREAK" \in bits <=> "INTR_BREAK" \in c.status \/ w.intr_break = "set"
        /\ "BROKE" \in bits <=> "BROKE" \in c.status /\ w.broke # "clear"
    BY <1>2, <1>3 DEF Change, Bits
  <1> HIDE DEF bits
  <1>5. /\ e \in Rcp /\ e.status = bits /\ e.spInt = c.spInt /\ e.locked = c.locked
        /\ e.owed = c.owed /\ e.dpInt = c.dpInt /\ e.deferred = c.deferred
        /\ e.intr = c.intr /\ e.mask = c.mask /\ e.ip2 = c.ip2
    BY <1>4 DEF Rcp
  <1>6. StatusWritten(c, w) = ChangeLine(e, w.intr)
    BY DEF StatusWritten, bits
  <1> HIDE DEF e
  <1>7. /\ ChangeLine(e, w.intr) \in Rcp /\ Told(ChangeLine(e, w.intr))
        /\ ChangeLine(e, w.intr).status = e.status
        /\ ChangeLine(e, w.intr).spInt = e.spInt
        /\ ChangeLine(e, w.intr).locked = e.locked
        /\ ChangeLine(e, w.intr).owed = e.owed
        /\ ChangeLine(e, w.intr).dpInt = e.dpInt
        /\ ChangeLine(e, w.intr).deferred = e.deferred
    <2>1. Told(e)
      BY <1>5 DEF Told
    <2>2. "SP" \in Lines
      BY DEF Lines
    <2> QED  BY <1>5, <2>1, <2>2, SignalTells, ClearTells DEF ChangeLine
  <1>8. Running(ChangeLine(e, w.intr)) /\ Owing(ChangeLine(e, w.intr))
    BY <1>1, <1>4, <1>5, <1>7 DEF Running, Owing
  <1> QED  BY <1>4, <1>5, <1>6, <1>7, <1>8

LEMMA StepIInv == IInv /\ [Next]_vars => IInv'
  <1> SUFFICES ASSUME IInv, [Next]_vars PROVE IInv'
    OBVIOUS
  <1> USE DEF IInv
  <1>1. ASSUME NEW t \in Tasks, LoadTask(t) PROVE IInv'
    <2>1. r' = [r EXCEPT !.task = t] /\ t \in TaskTypes
      BY <1>1, TasksAssumption DEF LoadTask
    <2> QED  BY <2>1 DEF Rcp, Running, Pumped, Owing, Told
  <1>2. ASSUME NEW w \in StatusWrites, NEW o \in Outcomes, WriteStatus(w, o) PROVE IInv'
    <2> DEFINE d == StatusWritten(r, w)
    <2>1. /\ w.halt = "clear" \/ w.broke = "clear" => "HALT" \in r.status
          /\ r' = IF Dispatches(d, w) THEN DoSpTask(d, o) ELSE d
      BY <1>2 DEF WriteStatus
    <2>2. /\ d \in Rcp /\ Running(d) /\ Owing(d) /\ Told(d)
          /\ d.spInt = r.spInt /\ d.locked = r.locked
          /\ "HALT" \in d.status <=> "HALT" \in r.status /\ w.halt # "clear"
      BY StatusWrittenKeeps
    <2> HIDE DEF d
    <2>3. r.spInt = IF "HALT" \in r.status THEN 0 ELSE 1
      BY DEF Pumped
    <2>4. CASE Dispatches(d, w)
      \* A running task has its event queued, so only a start gets here.
      <3>1. "HALT" \notin d.status
        BY <2>4 DEF Dispatches
      <3>2. "HALT" \in r.status
        BY <2>1, <2>2, <2>3, <2>4 DEF Dispatches
      <3> QED  BY <2>1, <2>2, <2>3, <2>4, <3>1, <3>2, DoSpTaskKeeps
    <2>5. CASE ~Dispatches(d, w)
      \* A write that clears HALT finds no event queued, so it does dispatch.
      <3>1. "HALT" \in d.status <=> "HALT" \in r.status
        BY <2>1, <2>2, <2>3, <2>5 DEF Dispatches
      <3> QED  BY <2>1, <2>2, <2>3, <2>5, <3>1 DEF Pumped
    <2> QED  BY <2>4, <2>5
  <1>3. ASSUME NEW o \in Outcomes, RspInterruptEvent(o) PROVE IInv'
    <2> DEFINE popped == [r EXCEPT !.spInt = @ - 1]
               over   == [popped EXCEPT !.status = @ \cup {"TASKDONE", "BROKE", "HALT"}]
    <2>1. /\ r.spInt > 0
          /\ r' = IF r.locked THEN DoSpTask(popped, o)
                  ELSE IF "INTR_BREAK" \in r.status THEN RaiseRcpInterrupt(over, "SP") ELSE over
      BY <1>3 DEF RspInterruptEvent
    <2>2. r.spInt = 1 /\ "HALT" \notin r.status
      BY <2>1 DEF Pumped
    <2>3. /\ popped \in Rcp /\ popped.spInt = 0 /\ popped.status = r.status
          /\ popped.owed = r.owed /\ popped.dpInt = r.dpInt /\ popped.deferred = r.deferred
          /\ popped.intr = r.intr /\ popped.mask = r.mask /\ popped.ip2 = r.ip2
      BY <2>2 DEF Rcp
    <2> HIDE DEF popped
    <2>4. Running(popped) /\ Owing(popped) /\ Told(popped)
      BY <2>3 DEF Running, Owing, Told
    <2>5. CASE r.locked
      BY <2>1, <2>2, <2>3, <2>4, <2>5, DoSpTaskKeeps
    <2>6. CASE ~r.locked
      <3>1. /\ over \in Rcp /\ over.spInt = 0 /\ "HALT" \in over.status
            /\ over.owed = popped.owed /\ over.dpInt = popped.dpInt
            /\ over.deferred = popped.deferred
            /\ over.intr = popped.intr /\ over.mask = popped.mask /\ over.ip2 = popped.ip2
        BY <2>3 DEF Rcp, Bits
      <3> HIDE DEF over
      <3>2. Running(over) /\ Pumped(over) /\ Owing(over) /\ Told(over)
        BY <2>4, <3>1 DEF Running, Pumped, Owing, Told
      <3>3. LET d == RaiseRcpInterrupt(over, "SP")
            IN  d \in Rcp /\ Running(d) /\ Pumped(d) /\ Owing(d) /\ Told(d)
        BY <3>1, <3>2, RaiseTells DEF Lines, Running, Pumped, Owing
      <3> QED  BY <2>1, <2>6, <3>1, <3>2, <3>3
    <2> QED  BY <2>5, <2>6
  <1>4. ASSUME RdpInterruptEvent PROVE IInv'
    <2> DEFINE less == r.dpInt - 1
               d    == [r EXCEPT !.dpInt = less, !.owed = FALSE]
    <2>1. r.dpInt > 0 /\ r' = RaiseRcpInterrupt(d, "DP")
      BY <1>4 DEF RdpInterruptEvent
    <2>2. less \in Nat
      BY <2>1 DEF Rcp
    <2> HIDE DEF less
    <2>3. /\ d \in Rcp /\ d.spInt = r.spInt /\ d.status = r.status /\ d.owed = FALSE
          /\ d.intr = r.intr /\ d.mask = r.mask /\ d.ip2 = r.ip2
      BY <2>2 DEF Rcp
    <2> HIDE DEF d
    <2>4. Told(d)
      BY <2>3 DEF Told
    <2> QED  BY <2>1, <2>3, <2>4, RaiseTells DEF Lines, Running, Pumped, Owing
  <1>5. ASSUME NEW sync \in BOOLEAN, WriteDpcEnd(sync) PROVE IInv'
    <2>1. CASE ~sync
      BY <1>5, <2>1 DEF WriteDpcEnd
    <2>2. CASE sync /\ Angrylion
      <3> DEFINE d == [FullSync(r, TRUE) EXCEPT !.owed = FALSE]
      <3>1. r' = SignalRcpInterrupt(d, "DP")
        BY <1>5, <2>2 DEF WriteDpcEnd
      <3>2. /\ d \in Rcp /\ d.spInt = r.spInt /\ d.status = r.status /\ d.owed = FALSE
        BY DEF Rcp, FullSync, Lines
      <3> HIDE DEF d
      <3> QED  BY <3>1, <3>2, SignalTells DEF Lines, Running, Pumped, Owing
    <2>3. CASE sync /\ ~Angrylion
      <3>1. r' = FullSync(r, TRUE)
        BY <1>5, <2>3 DEF WriteDpcEnd
      <3>2. FullSync(r, TRUE) \in Rcp
        BY DEF Rcp, FullSync, Lines
      <3>3. FullSync(r, TRUE).spInt = r.spInt /\ FullSync(r, TRUE).status = r.status
        BY DEF Rcp, FullSync
      <3> QED  BY <2>3, <3>1, <3>2, <3>3 DEF Running, Pumped, Owing, Told
    <2> QED  BY <2>1, <2>2, <2>3
  <1>6. ASSUME SetFreeze PROVE IInv'
    BY <1>6 DEF SetFreeze, Rcp, Running, Pumped, Owing, Told
  <1>7. ASSUME ClearFreeze PROVE IInv'
    <2> DEFINE thawed == [r EXCEPT !.freeze = FALSE, !.deferred = FALSE]
               told   == [thawed EXCEPT !.owed = FALSE]
    <2>1. r' = IF r.deferred THEN SignalRcpInterrupt(told, "DP") ELSE thawed
      BY <1>7 DEF ClearFreeze
    <2>2. /\ thawed \in Rcp /\ thawed.spInt = r.spInt /\ thawed.status = r.status
          /\ thawed.owed = r.owed /\ thawed.dpInt = r.dpInt
          /\ thawed.intr = r.intr /\ thawed.mask = r.mask /\ thawed.ip2 = r.ip2
      BY DEF Rcp
    <2>3. /\ told \in Rcp /\ told.spInt = r.spInt /\ told.status = r.status /\ told.owed = FALSE
      BY DEF Rcp
    <2> HIDE DEF thawed, told
    <2>4. CASE r.deferred
      BY <2>1, <2>3, <2>4, SignalTells DEF Lines, Running, Pumped, Owing
    <2>5. CASE ~r.deferred
      BY <2>1, <2>2, <2>5 DEF Running, Pumped, Owing, Told
    <2> QED  BY <2>4, <2>5
  <1>8. ASSUME ClearDp PROVE IInv'
    BY <1>8, ClearTells DEF ClearDp, Lines, Running, Pumped, Owing
  <1>9. ASSUME NEW lines \in Masks, WriteMask(lines) PROVE IInv'
    <2> DEFINE d == [r EXCEPT !.mask = lines]
    <2>1. d \in Rcp
      BY LineMasksAssumption DEF Rcp
    <2>2. r' = CheckInterrupt(d)
      BY <1>9 DEF WriteMask
    <2>3. r' \in Rcp /\ Told(r')
      BY <2>1, <2>2, CheckInterruptTells
    <2>4. /\ r'.spInt = r.spInt /\ r'.status = r.status /\ r'.owed = r.owed
          /\ r'.dpInt = r.dpInt /\ r'.deferred = r.deferred
      BY <2>2 DEF CheckInterrupt, Rcp
    <2> QED  BY <2>3, <2>4 DEF Running, Pumped, Owing
  <1>10. ASSUME Nmi PROVE IInv'
    <2> DEFINE halted  == [r EXCEPT !.status = @ \cup {"HALT"}]
               cleared == ClearRcpInterrupt(halted, "SP")
    <2>1. halted \in Rcp /\ "HALT" \in halted.status
      BY DEF Rcp, Bits
    <2> HIDE DEF halted
    <2>2. cleared \in Rcp /\ Told(cleared) /\ "HALT" \in cleared.status
      BY <2>1, ClearTells DEF Lines
    <2>3. r' = [cleared EXCEPT !.spInt = 0, !.dpInt = 0, !.owed = FALSE]
      BY <1>10 DEF Nmi, halted
    <2> HIDE DEF cleared
    <2> QED  BY <2>2, <2>3 DEF Rcp, Running, Pumped, Owing, Told
  <1>11. CASE UNCHANGED vars
    BY <1>11 DEF vars
  <1> QED
    BY <1>1, <1>2, <1>3, <1>4, <1>5, <1>6, <1>7, <1>8, <1>9, <1>10, <1>11 DEF Next

THEOREM Invariance == Spec => []IInv
  BY InitIInv, StepIInv, PTL DEF Spec

\* Every register, flag and count of the RCP keeps its type.
THEOREM TypeCorrect == Spec => []TypeOK
  <1>1. IInv => TypeOK
    BY DEF IInv, TypeOK
  <1> QED  BY <1>1, Invariance, PTL

\* A running task has exactly one SP_INT queued, a halted RSP none: the pump of
\* do_SP_Task and rsp_interrupt_event never stops and never runs twice.
THEOREM PumpNeverStops == Spec => []PumpAlive
  <1>1. IInv => PumpAlive
    BY DEF IInv, Pumped, PumpAlive
  <1> QED  BY <1>1, Invariance, PTL

\* With Angrylion, no path that consumes a full sync's DP bit drops it.
THEOREM SyncsKept == ASSUME Angrylion PROVE Spec => []SyncNeverLost
  <1>1. IInv => SyncNeverLost
    BY DEF IInv, Owing, SyncNeverLost
  <1> QED  BY <1>1, Invariance, PTL

\* With Angrylion, the CPU is told of every line that MI lets through, the
\* plugins' own writes of MI_INTR included.
THEOREM CpuTold == ASSUME Angrylion PROVE Spec => []NoneMissed
  <1>1. IInv => NoneMissed
    BY DEF IInv, Told, NoneMissed
  <1> QED  BY <1>1, Invariance, PTL
=============================================================================

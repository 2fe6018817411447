---------------------------- MODULE Threads_proofs ----------------------------
(***************************************************************************)
(* The threads of the software-RDP plugins.  For teams of any size, when a     *)
(* call of Angrylion's pool has returned, each worker ran the task it was      *)
(* given once and none is still inside it.  For buffers of any size, the slots *)
(* its list reader would run hold the commands decoded.  For rings of any      *)
(* size, the commands of parallel-RDP reach the processor as they were sent.   *)
(***************************************************************************)
EXTENDS AngrylionPool, AngrylionList, CommandRing, SequenceTheorems, TLAPS

-----------------------------------------------------------------------------
(* Angrylion's workers.                                                     *)

Resting == {"last", "notify", "look", "lock", "sleepy", "asleep", "woken"}

\* The states of a worker that has not run its task yet: those that do not sleep.
Coming == {"unborn", "loop", "work", "last", "notify", "look", "lock", "woken"}

\* Tasks are given out: between the constructor and the destructor's last signal.
Open ==
    /\ pool.main \notin {"none", "join"}
    /\ pool.main = "signal" => pool.job # "destroy"

\* Whoever is about to sleep holds the mutex.
Locked ==
    /\ \A i \in Workers : pool.w[i] = "sleepy" => pool.holder = {i}
    /\ pool.main = "sleepy" => pool.holder = {Main}

\* A worker whose bit is set has run the task, which may be the one before; one whose
\* bit is clear is on its way to it, or about to set the bit.
Share(i) ==
    IF i \in pool.done
       THEN pool.w[i] \in Resting /\ pool.ran[i] = (IF pool.main = "signal" THEN 0 ELSE 1)
       ELSE \/ pool.w[i] = "mark" /\ pool.ran[i] = 1
            \/ pool.w[i] \in Coming /\ pool.ran[i] = 0

Shares == Open => pool.accept /\ \A i \in pool.team : Share(i)

\* Only the team's threads exist.
Born ==
    /\ \A i \in Workers : i \notin pool.team => pool.w[i] = "unborn"
    /\ pool.main = "none" => pool.team = {}

\* A task is given to a team that has done the last one, or has none.
Signalled ==
    pool.main = "signal" =>
        /\ pool.job = "run" => pool.done = pool.team
        /\ pool.job = "construct" => \A i \in pool.team : pool.w[i] = "unborn"

\* Where the caller is, and its own share.
Caller ==
    /\ pool.main = "idle" => pool.done = pool.team
    /\ pool.main = "own" => pool.job = "run"
    /\ pool.main = "spawn" => pool.job = "construct"
    /\ pool.main \in {"signal", "own"} /\ pool.job = "run" => pool.ran[Main] = 0
    /\ pool.main \in {"idle", "test", "lock", "sleepy", "asleep", "woken"} /\ pool.job = "run"
          => pool.ran[Main] = 1

IInv ==
    /\ PoolTypeOK
    /\ Locked
    /\ Shares
    /\ Born
    /\ Signalled
    /\ Caller

-----------------------------------------------------------------------------
\* The caller is not one of the threads.
LEMMA MainApart == Main \notin Workers
  BY TeamsAssumption DEF Main, Workers

LEMMA InitIInv == PoolInit => IInv
  BY MainApart
  DEF PoolInit, IInv, PoolTypeOK, Locked, Shares, Open, Born, Signalled, Caller, Main

\* One more run of the task.
LEMMA RanByType ==
    ASSUME PoolTypeOK, NEW i \in Workers \cup {Main}
    PROVE  /\ RanBy(i) \in [Workers \cup {Main} -> 0 .. 2]
           /\ pool.ran[i] = 0 => RanBy(i)[i] = 1
           /\ \A j \in Workers \cup {Main} : j # i => RanBy(i)[j] = pool.ran[j]
  BY DEF RanBy, PoolTypeOK

\* A step of worker i that only moves it, from a state to another.
LEMMA GoType ==
    ASSUME PoolTypeOK, NEW i \in Workers,
           NEW step \in {"loop", "work", "notify", "look", "lock", "woken", "ended"},
           Go(i, step)
    PROVE  /\ PoolTypeOK'
           /\ UNCHANGED <<pool.team, pool.job, pool.main, pool.done, pool.holder, pool.accept,
                          pool.ran>>
           /\ pool.w'[i] = step
           /\ \A j \in Workers : j # i => pool.w'[j] = pool.w[j]
  BY DEF Go, PoolTypeOK

\* A worker's step that leaves its bit and its count alone, and takes it from a state
\* of Share to another.
LEMMA MoveIInv ==
    ASSUME IInv, NEW i \in Workers,
           NEW step \in {"loop", "work", "notify", "look", "lock", "woken", "ended"},
           Go(i, step), pool.w[i] # "unborn",
           pool.w[i] # "mark", pool.w[i] # "sleepy",
           pool.w[i] # "unborn" /\ Open => IF i \in pool.done THEN step \in Resting
                                                           ELSE step \in Coming
    PROVE  IInv'
  <1>1. i \in pool.team
    BY DEF IInv, Born
  <1>2. /\ PoolTypeOK'
        /\ UNCHANGED <<pool.team, pool.job, pool.main, pool.done, pool.holder, pool.accept,
                       pool.ran>>
        /\ pool.w'[i] = step
        /\ \A j \in Workers : j # i => pool.w'[j] = pool.w[j]
    BY GoType DEF IInv
  <1>3. Locked' /\ Born' /\ Caller'
    BY <1>1, <1>2 DEF IInv, Locked, Born, Caller
  <1>4. Signalled'
    BY <1>1, <1>2 DEF IInv, Signalled
  <1>5. Shares'
    <2>1. SUFFICES ASSUME Open PROVE pool.accept /\ \A j \in pool.team : Share(j)'
      BY <1>2 DEF Shares, Open
    <2>2. ASSUME NEW j \in pool.team PROVE Share(j)'
      <3>1. Share(j) /\ j \in Workers
        BY <2>1 DEF IInv, Shares, PoolTypeOK
      <3>2. CASE j = i
        BY <1>2, <2>1, <3>1, <3>2 DEF Share
      <3>3. CASE j # i
        BY <1>2, <3>1, <3>3 DEF Share
      <3> QED  BY <3>2, <3>3
    <2> QED  BY <2>1, <2>2 DEF IInv, Shares
  <1> QED  BY <1>2, <1>3, <1>4, <1>5 DEF IInv

\* A worker's steps.  A step of another's cannot be mistaken for it: MoveIInv deals with
\* those that only move the worker.
LEMMA WorkerIInv ==
    ASSUME IInv, NEW i \in Workers, WorkerStep(i)
    PROVE  IInv'
  <1> USE DEF IInv
  <1>0. /\ PoolTypeOK
        /\ pool.w[i] # "unborn" => i \in pool.team
        /\ i \in pool.team /\ Open => Share(i) /\ pool.accept
    BY DEF Born, Shares
  <1>1. CASE Enter(i)
    BY <1>0, <1>1, MoveIInv DEF Enter, Share, Resting, Coming
  <1>2. CASE Work(i)
    <2>1. /\ i \in pool.team /\ pool.w[i] = "work"
          /\ pool' = [pool EXCEPT !.w[i] = "mark", !.ran = RanBy(i)]
      BY <1>0, <1>2 DEF Work
    <2>2. PoolTypeOK'
      BY <1>0, <2>1, RanByType DEF PoolTypeOK
    <2>3. /\ UNCHANGED <<pool.team, pool.job, pool.main, pool.done, pool.holder, pool.accept>>
          /\ pool.w' = [pool.w EXCEPT ![i] = "mark"]
          /\ pool.ran' = RanBy(i)
      BY <2>1 DEF PoolTypeOK
    <2>4. /\ pool.ran'[Main] = pool.ran[Main]
          /\ \A j \in Workers : j # i => pool.ran'[j] = pool.ran[j] /\ pool.w'[j] = pool.w[j]
          /\ pool.w'[i] = "mark"
      BY <2>3, RanByType, MainApart DEF PoolTypeOK
    <2>5. Locked' /\ Born' /\ Signalled' /\ Caller'
      BY <2>1, <2>3, <2>4 DEF Locked, Born, Signalled, Caller
    <2>6. Shares'
      <3>1. SUFFICES ASSUME Open PROVE pool.accept /\ \A j \in pool.team : Share(j)'
        BY <2>3 DEF Shares, Open
      <3>2. Share(i)'
        BY <1>0, <2>1, <2>3, <2>4, <3>1, RanByType DEF Share, Resting
      <3>3. ASSUME NEW j \in pool.team, j # i PROVE Share(j)'
        <4>1. Share(j) /\ j \in Workers
          BY <3>1, <3>3 DEF Shares, PoolTypeOK
        <4> QED  BY <2>3, <2>4, <3>3, <4>1 DEF Share
      <3> QED  BY <3>1, <3>2, <3>3 DEF Shares
    <2> QED  BY <2>2, <2>5, <2>6
  <1>3. CASE Mark(i)
    <2> DEFINE step == IF pool.done \cup {i} = pool.team THEN "last" ELSE "look"
    <2>1. /\ i \in pool.team /\ pool.w[i] = "mark"
          /\ pool' = [pool EXCEPT !.done = @ \cup {i}, !.w[i] = step]
      BY <1>0, <1>3 DEF Mark
    <2>2. step \in {"last", "look"}
      OBVIOUS
    <2> HIDE DEF step
    <2>3. PoolTypeOK'
      BY <2>1, <2>2 DEF PoolTypeOK
    <2>4. /\ UNCHANGED <<pool.team, pool.job, pool.main, pool.holder, pool.accept, pool.ran>>
          /\ pool.done' = pool.done \cup {i}
          /\ pool.w'[i] = step
          /\ \A j \in Workers : j # i => pool.w'[j] = pool.w[j]
      BY <2>1 DEF PoolTypeOK
    <2>5. Locked' /\ Born' /\ Caller'
      BY <2>1, <2>2, <2>4 DEF Locked, Born, Caller, PoolTypeOK
    <2>6. pool.main = "signal" => ~Open
      BY <1>0, <2>1 DEF Signalled, Share, Open, Resting, PoolTypeOK
    <2>7. Signalled' /\ Shares'
      <3>1. SUFFICES ASSUME Open PROVE Signalled' /\ pool.accept /\ \A j \in pool.team : Share(j)'
        BY <2>4 DEF Shares, Signalled, Open
      <3>2. Signalled' /\ pool.main # "signal"
        BY <2>4, <2>6, <3>1 DEF Signalled
      <3>3. Share(i)'
        BY <1>0, <2>1, <2>2, <2>4, <3>1, <3>2 DEF Share, Resting, Coming
      <3>4. ASSUME NEW j \in pool.team, j # i PROVE Share(j)'
        <4>1. Share(j) /\ j \in Workers
          BY <3>1, <3>4 DEF Shares, PoolTypeOK
        <4> QED  BY <2>4, <3>4, <4>1 DEF Share
      <3> QED  BY <3>1, <3>2, <3>3, <3>4 DEF Shares
    <2> QED  BY <2>3, <2>5, <2>7
  <1>4. CASE EmptyLock(i)
    BY <1>0, <1>4, MoveIInv DEF EmptyLock, Share, Resting, Coming
  <1>5. CASE NotifyDone(i)
    <2> DEFINE woken == IF pool.main = "asleep" THEN "woken" ELSE pool.main
    <2>1. /\ i \in pool.team /\ pool.w[i] = "notify"
          /\ pool' = [pool EXCEPT !.w[i] = "look", !.main = woken]
      BY <1>0, <1>5 DEF NotifyDone
    <2>2. /\ PoolTypeOK'
          /\ UNCHANGED <<pool.team, pool.job, pool.done, pool.holder, pool.accept, pool.ran>>
          /\ pool.main' = woken /\ pool.w'[i] = "look"
          /\ \A j \in Workers : j # i => pool.w'[j] = pool.w[j]
      BY <2>1 DEF PoolTypeOK
    <2>3. Locked' /\ Born' /\ Signalled' /\ Caller'
      BY <2>1, <2>2 DEF Locked, Born, Signalled, Caller
    <2>4. Shares'
      <3>1. SUFFICES ASSUME Open PROVE pool.accept /\ \A j \in pool.team : Share(j)'
        BY <2>2 DEF Shares, Open
      <3>2. ASSUME NEW j \in pool.team PROVE Share(j)'
        <4>1. Share(j) /\ j \in Workers
          BY <3>1 DEF Shares, PoolTypeOK
        <4> QED  BY <2>1, <2>2, <4>1 DEF Share, Resting, Coming
      <3> QED  BY <3>1, <3>2 DEF Shares
    <2> QED  BY <2>2, <2>3, <2>4
  <1>6. CASE Look(i)
    BY <1>0, <1>6, MoveIInv DEF Look, Share, Resting, Coming
  <1>7. CASE CheckWork(i)
    <2>a. CASE i \notin pool.done
      <3>1. Go(i, "loop") /\ pool.w[i] \in {"lock", "woken"}
        BY <1>7, <2>a DEF CheckWork, Go
      <3> QED  BY <1>0, <2>a, <3>1, MoveIInv DEF Share, Resting, Coming
    <2>b. CASE i \in pool.done
      <3>1. /\ i \in pool.team /\ pool.w[i] \in {"lock", "woken"} /\ pool.holder = {}
            /\ pool' = [pool EXCEPT !.w[i] = "sleepy", !.holder = {i}]
        BY <1>0, <1>7, <2>b DEF CheckWork, LockFree
      <3>2. /\ PoolTypeOK'
            /\ UNCHANGED <<pool.team, pool.job, pool.main, pool.done, pool.accept, pool.ran>>
            /\ pool.holder' = {i} /\ pool.w'[i] = "sleepy"
            /\ \A j \in Workers : j # i => pool.w'[j] = pool.w[j]
        BY <3>1 DEF PoolTypeOK
      <3>3. Locked'
        <4>1. \A j \in Workers : pool.w[j] # "sleepy"
          BY <3>1 DEF Locked
        <4>2. pool.main # "sleepy"
          BY <3>1 DEF Locked
        <4> QED  BY <3>2, <4>1, <4>2 DEF Locked
      <3>4. Born' /\ Signalled' /\ Caller'
        BY <3>1, <3>2 DEF Born, Signalled, Caller
      <3>5. Shares'
        <4>1. SUFFICES ASSUME Open PROVE pool.accept /\ \A j \in pool.team : Share(j)'
          BY <3>2 DEF Shares, Open
        <4>2. ASSUME NEW j \in pool.team PROVE Share(j)'
          <5>1. Share(j) /\ j \in Workers
            BY <4>1 DEF Shares, PoolTypeOK
          <5> QED  BY <2>b, <3>1, <3>2, <5>1 DEF Share, Resting, Coming
        <4> QED  BY <4>1, <4>2 DEF Shares
      <3> QED  BY <3>2, <3>3, <3>4, <3>5
    <2> QED  BY <2>a, <2>b
  <1>8. CASE SleepWork(i)
    <2>1. /\ i \in pool.team /\ pool.w[i] = "sleepy"
          /\ pool' = [pool EXCEPT !.w[i] = "asleep", !.holder = {}]
      BY <1>0, <1>8 DEF SleepWork
    <2>2. /\ PoolTypeOK'
          /\ UNCHANGED <<pool.team, pool.job, pool.main, pool.done, pool.accept, pool.ran>>
          /\ pool.holder' = {} /\ pool.w'[i] = "asleep"
          /\ \A j \in Workers : j # i => pool.w'[j] = pool.w[j]
      BY <2>1 DEF PoolTypeOK
    <2>3. Locked'
      <3>1. pool.holder = {i} /\ i # Main
        BY <2>1, MainApart DEF Locked
      <3>2. pool.main # "sleepy" /\ \A j \in Workers : j # i => pool.w[j] # "sleepy"
        BY <3>1 DEF Locked
      <3> QED  BY <2>2, <3>2 DEF Locked
    <2>4. Born' /\ Signalled' /\ Caller'
      BY <2>1, <2>2 DEF Born, Signalled, Caller
    <2>5. Shares'
      <3>1. SUFFICES ASSUME Open PROVE pool.accept /\ \A j \in pool.team : Share(j)'
        BY <2>2 DEF Shares, Open
      <3>2. ASSUME NEW j \in pool.team PROVE Share(j)'
        <4>1. Share(j) /\ j \in Workers
          BY <3>1 DEF Shares, PoolTypeOK
        <4> QED  BY <2>1, <2>2, <4>1 DEF Share, Resting, Coming
      <3> QED  BY <3>1, <3>2 DEF Shares
    <2> QED  BY <2>2, <2>3, <2>4, <2>5
  <1> QED
    BY <1>1, <1>2, <1>3, <1>4, <1>5, <1>6, <1>7, <1>8 DEF WorkerStep

\* The counts of a new task.
LEMMA FreshType ==
    /\ FreshTask \in [Workers \cup {Main} -> 0 .. 2]
    /\ [FreshTask EXCEPT ![Main] = 1] \in [Workers \cup {Main} -> 0 .. 2]
    /\ [FreshTask EXCEPT ![Main] = 1][Main] = 1
  BY DEF FreshTask

\* wait returns: the pool stays open, or the destructor closes it.
LEMMA WaitedIInv ==
    ASSUME IInv, AllDone, pool.main \in {"test", "lock", "woken"}, pool' = Waited(pool)
    PROVE  IInv'
  <1> USE DEF IInv
  <1>1. CASE pool.job = "destroy"
    <2>1. /\ PoolTypeOK'
          /\ pool.main' = "signal" /\ pool.accept' = FALSE
          /\ UNCHANGED <<pool.team, pool.job, pool.w, pool.done, pool.holder, pool.ran>>
      BY <1>1 DEF Waited, PoolTypeOK
    <2>2. Locked' /\ Born' /\ Signalled' /\ Caller' /\ Shares'
      BY <1>1, <2>1 DEF Locked, Born, Signalled, Caller, Shares, Open
    <2> QED  BY <2>1, <2>2
  <1>2. CASE pool.job # "destroy"
    <2>1. /\ PoolTypeOK'
          /\ pool.main' = "idle"
          /\ UNCHANGED <<pool.team, pool.job, pool.w, pool.done, pool.holder, pool.accept,
                         pool.ran>>
      BY <1>2 DEF Waited, PoolTypeOK
    <2>2. Locked' /\ Born' /\ Signalled' /\ Caller'
      BY <2>1 DEF Locked, Born, Signalled, Caller, AllDone
    <2>3. Shares'
      BY <2>1 DEF Shares, Share, Open
    <2> QED  BY <2>1, <2>2, <2>3
  <1> QED  BY <1>1, <1>2

\* A thread is created.
LEMMA StartIInv ==
    ASSUME IInv, NEW i \in Workers, i \in pool.team, i \notin pool.done,
           pool.w[i] = "unborn", pool.main = "spawn", Go(i, "loop")
    PROVE  IInv'
  <1> USE DEF IInv
  <1>1. /\ PoolTypeOK'
        /\ UNCHANGED <<pool.team, pool.job, pool.main, pool.done, pool.holder, pool.accept,
                       pool.ran>>
        /\ pool.w'[i] = "loop"
        /\ \A j \in Workers : j # i => pool.w'[j] = pool.w[j]
    BY GoType
  <1>2. Locked' /\ Born' /\ Signalled' /\ Caller'
    BY <1>1 DEF Locked, Born, Signalled, Caller
  <1>3. ASSUME NEW j \in pool.team PROVE Share(j)'
    <2>1. Share(j) /\ j \in Workers
      BY DEF Shares, Open, PoolTypeOK
    <2> QED  BY <1>1, <2>1 DEF Share, Coming
  <1>4. Shares'
    BY <1>1, <1>3 DEF Shares, Open
  <1> QED  BY <1>1, <1>2, <1>4

\* The calls, and the caller's steps in them.
LEMMA MainIInv ==
    ASSUME IInv, Construct \/ Run \/ Destroy \/ MainStep
    PROVE  IInv'
  <1> USE DEF IInv
  <1>1. CASE Construct
    <2>1. PICK team \in Teams :
             pool' = [pool EXCEPT !.team = team, !.job = "construct", !.main = "signal",
                                  !.accept = TRUE, !.ran = FreshTask]
      BY <1>1 DEF Construct
    <2>2. pool.main = "none" /\ pool.done = {} /\ team \in SUBSET Workers
      BY <1>1 DEF Construct, Born, PoolTypeOK, Workers
    <2>3. /\ PoolTypeOK'
          /\ pool.team' = team /\ pool.job' = "construct" /\ pool.main' = "signal"
          /\ pool.accept' = TRUE /\ pool.ran' = FreshTask
          /\ UNCHANGED <<pool.w, pool.done, pool.holder>>
      BY <2>1, <2>2, FreshType DEF PoolTypeOK
    <2>4. \A j \in Workers : pool.w[j] = "unborn"
      BY <2>2 DEF Born
    <2>5. \A j \in team : Share(j)'
      BY <2>2, <2>3, <2>4 DEF Share, Coming, FreshTask
    <2>6. Shares'
      BY <2>3, <2>5 DEF Shares
    <2>7. Locked' /\ Born' /\ Signalled'
      BY <2>2, <2>3, <2>4 DEF Locked, Born, Signalled
    <2>8. Caller'
      BY <2>3 DEF Caller
    <2> QED  BY <2>3, <2>6, <2>7, <2>8
  <1>2. CASE Run
    <2>1. pool.main = "idle" /\ pool.done = pool.team /\ Open
      BY <1>2 DEF Run, Caller, Open
    <2>2. CASE pool.team = {}
      <3>1. /\ PoolTypeOK'
            /\ pool.job' = "run" /\ pool.ran'[Main] = 1
            /\ UNCHANGED <<pool.team, pool.main, pool.w, pool.done, pool.holder, pool.accept>>
        BY <1>2, <2>2, FreshType DEF Run, PoolTypeOK
      <3>2. Shares'
        BY <2>1, <2>2, <3>1 DEF Shares
      <3>3. Locked' /\ Born' /\ Signalled' /\ Caller'
        BY <2>1, <3>1 DEF Locked, Born, Signalled, Caller
      <3> QED  BY <3>1, <3>2, <3>3
    <2>3. CASE pool.team # {}
      <3>1. /\ PoolTypeOK'
            /\ pool.job' = "run" /\ pool.main' = "signal" /\ pool.ran' = FreshTask
            /\ UNCHANGED <<pool.team, pool.w, pool.done, pool.holder, pool.accept>>
        BY <1>2, <2>3, FreshType DEF Run, PoolTypeOK
      <3>2. \A j \in pool.team : Share(j)'
        BY <2>1, <3>1 DEF Shares, Share, FreshTask, PoolTypeOK
      <3>3. Shares'
        BY <2>1, <3>1, <3>2 DEF Shares
      <3>4. Locked' /\ Born' /\ Signalled'
        BY <2>1, <3>1 DEF Locked, Born, Signalled
      <3>5. Caller'
        BY <3>1 DEF Caller, FreshTask
      <3> QED  BY <3>1, <3>3, <3>4, <3>5
    <2> QED  BY <2>2, <2>3
  <1>3. CASE Destroy
    <2>1. pool.main = "idle" /\ Open
      BY <1>3 DEF Destroy, Open
    <2>2. /\ PoolTypeOK'
          /\ pool.job' = "destroy" /\ pool.main' = "test"
          /\ UNCHANGED <<pool.team, pool.w, pool.done, pool.holder, pool.accept, pool.ran>>
      BY <1>3 DEF Destroy, PoolTypeOK
    <2>3. Shares'
      BY <2>1, <2>2 DEF Shares, Share
    <2> QED  BY <2>1, <2>2, <2>3 DEF Locked, Born, Signalled, Caller
  <1>4. CASE StartWork
    <2> DEFINE after == CASE pool.job = "construct" -> "spawn"
                          [] pool.job = "run"       -> "own"
                          [] pool.job = "destroy"   -> "join"
               woken == [i \in Workers |-> IF pool.w[i] = "asleep" THEN "woken" ELSE pool.w[i]]
    <2>1. /\ pool.main = "signal" /\ pool.holder = {}
          /\ pool' = [pool EXCEPT !.done = {}, !.w = woken, !.main = after]
      BY <1>4 DEF StartWork, LockFree
    <2>2. \/ pool.job = "construct" /\ after = "spawn"
          \/ pool.job = "run" /\ after = "own"
          \/ pool.job = "destroy" /\ after = "join"
      BY DEF PoolTypeOK
    <2>3. woken \in [Workers -> {"unborn", "loop", "work", "mark", "last", "notify",
                                 "look", "lock", "sleepy", "asleep", "woken", "ended"}]
      BY DEF PoolTypeOK
    <2>4. \A j \in Workers : woken[j] = IF pool.w[j] = "asleep" THEN "woken" ELSE pool.w[j]
      OBVIOUS
    <2> HIDE DEF after, woken
    <2>5. /\ PoolTypeOK'
          /\ pool.done' = {} /\ pool.w' = woken /\ pool.main' = after
          /\ UNCHANGED <<pool.team, pool.job, pool.holder, pool.accept, pool.ran>>
      BY <2>1, <2>2, <2>3 DEF PoolTypeOK
    <2>6. \A j \in Workers : pool.w[j] # "sleepy"
      BY <2>1 DEF Locked
    <2>7. Locked' /\ Born' /\ Signalled'
      BY <2>1, <2>2, <2>4, <2>5, <2>6 DEF Locked, Born, Signalled
    <2>8. Caller'
      BY <2>1, <2>2, <2>5 DEF Caller
    <2>9. Shares'
      <3>1. CASE pool.job = "destroy"
        BY <2>2, <2>5, <3>1 DEF Shares, Open
      <3>2. CASE pool.job # "destroy"
        <4>1. Open
          BY <2>1, <3>2 DEF Open
        <4>2. ASSUME NEW j \in pool.team PROVE Share(j)'
          <5>1. Share(j) /\ j \in Workers
            BY <4>1 DEF Shares, PoolTypeOK
          <5>2. pool.ran[j] = 0
            BY <2>1, <2>2, <3>2, <5>1 DEF Share, Signalled
          <5>3. pool.w'[j] \in Coming
            BY <2>1, <2>4, <2>5, <2>6, <5>1, <5>2 DEF Share, Coming, Resting
          <5> QED  BY <2>5, <5>2, <5>3 DEF Share
        <4> QED  BY <2>5, <4>1, <4>2 DEF Shares
      <3> QED  BY <3>1, <3>2
    <2> QED  BY <2>5, <2>7, <2>8, <2>9
  <1>5. CASE Spawn
    <2>a. ASSUME NEW i \in pool.team, pool.w[i] = "unborn", pool.main = "spawn", Go(i, "loop")
          PROVE  IInv'
      <3>1. i \in Workers
        BY <2>a DEF PoolTypeOK
      <3>2. i \notin pool.done
        BY <2>a DEF Shares, Share, Open, Resting
      <3> QED  BY <2>a, <3>1, <3>2, StartIInv
    <2>b. ASSUME pool.main = "spawn", \A i \in pool.team : pool.w[i] # "unborn",
                 pool' = [pool EXCEPT !.main = "test"]
          PROVE  IInv'
      <3>1. PoolTypeOK' /\ pool.main' = "test"
            /\ UNCHANGED <<pool.team, pool.job, pool.w, pool.done, pool.holder, pool.accept,
                           pool.ran>>
        BY <2>b DEF PoolTypeOK
      <3>2. pool.job = "construct"
        BY <2>b DEF Caller
      <3>3. Shares'
        BY <2>b, <3>1 DEF Shares, Share, Open
      <3>4. Locked' /\ Born' /\ Signalled' /\ Caller'
        BY <2>b, <3>1, <3>2 DEF Locked, Born, Signalled, Caller
      <3> QED  BY <3>1, <3>3, <3>4
    <2> QED  BY <1>5, <2>a, <2>b DEF Spawn
  <1>6. CASE OwnTask
    <2>1. /\ pool.main = "own"
          /\ pool' = [pool EXCEPT !.ran = RanBy(Main), !.main = "test"]
      BY <1>6 DEF OwnTask
    <2>2. /\ PoolTypeOK'
          /\ pool.main' = "test" /\ pool.ran' = RanBy(Main)
          /\ UNCHANGED <<pool.team, pool.job, pool.w, pool.done, pool.holder, pool.accept>>
      BY <2>1, RanByType DEF PoolTypeOK
    <2>3. /\ pool.job = "run" => pool.ran'[Main] = 1
          /\ \A j \in Workers : pool.ran'[j] = pool.ran[j]
      BY <2>1, <2>2, RanByType, MainApart DEF Caller
    <2>4. Locked' /\ Born' /\ Signalled' /\ Caller'
      BY <2>1, <2>2, <2>3 DEF Locked, Born, Signalled, Caller
    <2>5. Shares'
      <3>1. Open /\ \A j \in pool.team : j \in Workers
        BY <2>1 DEF Open, PoolTypeOK
      <3> QED  BY <2>1, <2>2, <2>3, <3>1 DEF Shares, Share
    <2> QED  BY <2>2, <2>4, <2>5
  <1>7. CASE TestDone
    <2>1. pool.main \in {"test", "lock", "woken"}
      BY <1>7 DEF TestDone
    <2>2. CASE AllDone
      BY <1>7, <2>1, <2>2, WaitedIInv DEF TestDone
    <2>3. CASE ~AllDone
      <3>1. /\ PoolTypeOK'
            /\ pool.main' = "lock"
            /\ UNCHANGED <<pool.team, pool.job, pool.w, pool.done, pool.holder, pool.accept,
                           pool.ran>>
        BY <1>7, <2>3 DEF TestDone, PoolTypeOK
      <3>2. Locked' /\ Born' /\ Signalled' /\ Caller'
        BY <2>1, <3>1 DEF Locked, Born, Signalled, Caller
      <3>3. Shares'
        BY <2>1, <3>1 DEF Shares, Share, Open
      <3> QED  BY <3>1, <3>2, <3>3
    <2> QED  BY <2>2, <2>3
  <1>8. CASE CheckDone
    <2>1. pool.main \in {"test", "lock", "woken"} /\ pool.holder = {}
      BY <1>8 DEF CheckDone, LockFree
    <2>2. CASE AllDone
      BY <1>8, <2>1, <2>2, WaitedIInv DEF CheckDone
    <2>3. CASE ~AllDone
      <3>1. /\ PoolTypeOK'
            /\ pool.main' = "sleepy" /\ pool.holder' = {Main}
            /\ UNCHANGED <<pool.team, pool.job, pool.w, pool.done, pool.accept, pool.ran>>
        BY <1>8, <2>3 DEF CheckDone, PoolTypeOK
      <3>2. \A j \in Workers : pool.w[j] # "sleepy"
        BY <2>1 DEF Locked
      <3>3. Locked' /\ Born' /\ Signalled' /\ Caller'
        BY <2>1, <3>1, <3>2 DEF Locked, Born, Signalled, Caller
      <3>4. Shares'
        BY <2>1, <3>1 DEF Shares, Share, Open
      <3> QED  BY <3>1, <3>3, <3>4
    <2> QED  BY <2>2, <2>3
  <1>9. CASE SleepDone
    <2>1. /\ pool.main = "sleepy"
          /\ PoolTypeOK'
          /\ pool.main' = "asleep" /\ pool.holder' = {}
          /\ UNCHANGED <<pool.team, pool.job, pool.w, pool.done, pool.accept, pool.ran>>
      BY <1>9 DEF SleepDone, PoolTypeOK
    <2>2. Locked'
      <3>1. \A j \in Workers : pool.w[j] # "sleepy"
        BY <2>1, MainApart DEF Locked
      <3> QED  BY <2>1, <3>1 DEF Locked
    <2>3. Shares'
      BY <2>1 DEF Shares, Share, Open
    <2> QED  BY <2>1, <2>2, <2>3 DEF Born, Signalled, Caller
  <1>10. CASE Join
    <2>1. /\ PoolTypeOK'
          /\ pool.main' = "none" /\ pool.team' = {} /\ pool.done' = {}
          /\ pool.w' = [j \in Workers |-> "unborn"]
          /\ UNCHANGED <<pool.job, pool.holder, pool.accept, pool.ran>>
      BY <1>10 DEF Join, PoolTypeOK
    <2> QED  BY <2>1 DEF Locked, Born, Signalled, Caller, Shares, Open
  <1> QED
    BY <1>1, <1>2, <1>3, <1>4, <1>5, <1>6, <1>7, <1>8, <1>9, <1>10 DEF MainStep

\* Waking without having been notified.
LEMMA SpuriousIInv ==
    ASSUME IInv, SpuriousWake
    PROVE  IInv'
  <1> USE DEF IInv
  <1>1. CASE pool.main = "asleep" /\ pool' = [pool EXCEPT !.main = "woken"]
    <2>1. /\ PoolTypeOK'
          /\ pool.main' = "woken"
          /\ UNCHANGED <<pool.team, pool.job, pool.w, pool.done, pool.holder, pool.accept,
                         pool.ran>>
      BY <1>1 DEF PoolTypeOK
    <2>2. Locked' /\ Born' /\ Signalled' /\ Caller'
      BY <1>1, <2>1 DEF Locked, Born, Signalled, Caller
    <2>3. Shares'
      BY <1>1, <2>1 DEF Shares, Share, Open
    <2> QED  BY <2>1, <2>2, <2>3
  <1>2. ASSUME NEW i \in Workers, pool.w[i] = "asleep", Go(i, "woken")
        PROVE  IInv'
    <2>1. Open => i \in pool.done
      BY <1>2 DEF Shares, Born, Share, Coming
    <2> QED  BY <1>2, <2>1, MoveIInv DEF Resting
  <1> QED  BY <1>1, <1>2 DEF SpuriousWake

LEMMA StepIInv == IInv /\ [PoolNext]_pool => IInv'
  <1> SUFFICES ASSUME IInv, [PoolNext]_pool PROVE IInv'
    OBVIOUS
  <1>1. CASE Construct \/ Run \/ Destroy \/ MainStep
    BY <1>1, MainIInv
  <1>2. ASSUME NEW i \in Workers, WorkerStep(i) PROVE IInv'
    BY <1>2, WorkerIInv
  <1>3. CASE SpuriousWake
    BY <1>3, SpuriousIInv
  <1>4. CASE UNCHANGED pool
    BY <1>4 DEF IInv, PoolTypeOK, Locked, Shares, Share, Open, Born, Signalled, Caller
  <1> QED  BY <1>1, <1>2, <1>3, <1>4 DEF PoolNext

-----------------------------------------------------------------------------
\* parallel_al.cpp's bits, mutex, threads and counts keep their types, and only
\* threads of the team have set a bit.
THEOREM TypeCorrect == PoolSpec => []PoolTypeOK
  <1>1. PoolInit => IInv
    BY InitIInv
  <1>2. IInv /\ [PoolNext]_pool => IInv'
    BY StepIInv
  <1>3. IInv => PoolTypeOK
    BY DEF IInv
  <1> QED  BY <1>1, <1>2, <1>3, PTL DEF PoolSpec

\* When run, the constructor or wait has returned, each worker of the team ran its
\* task exactly once and is out of it: Parallel::run's callers may then reuse what
\* the task reads, however many workers there are and however late each one is.
THEOREM TasksComplete == PoolSpec => []RunComplete
  <1>1. PoolInit => IInv
    BY InitIInv
  <1>2. IInv /\ [PoolNext]_pool => IInv'
    BY StepIInv
  <1>3. IInv => RunComplete
    <2> SUFFICES ASSUME IInv, pool.main = "idle"
                 PROVE  /\ \A i \in pool.team : pool.ran[i] = 1 /\ pool.w[i] \notin {"loop", "work"}
                        /\ pool.job = "run" => pool.ran[Main] = 1
      BY DEF RunComplete
    <2>1. pool.done = pool.team /\ Open
      BY DEF IInv, Caller, Open
    <2>2. \A i \in pool.team : pool.ran[i] = 1 /\ pool.w[i] \in Resting
      BY <2>1 DEF IInv, Shares, Share
    <2> QED  BY <2>2 DEF IInv, Caller, Resting
  <1> QED  BY <1>1, <1>2, <1>3, PTL DEF PoolSpec
-----------------------------------------------------------------------------
(* Angrylion's display lists.                                               *)

\* SlotsOwed of any state of the reader.
Owed(l) ==
    /\ l.pos = Len(l.owed)
    /\ \A i \in 1 .. l.pos : l.slots[i - 1] = [cmd |-> l.owed[i], words |-> l.owed[i].len]

ListIInv == ListTypeOK /\ Owed(list)

\* A command and its words, and the empty command.
LEMMA CommandType ==
    /\ \A c \in Commands : c.len \in Nat /\ c.len > 0 /\ c.image \in Int \X Int
    /\ Slots \in Nat /\ Slots > 0
    /\ NoCmd.len = 0
    /\ NoCmd \notin Commands
  <1>1. \A c \in Commands : c.len \in Nat /\ c.len > 0 /\ c.image \in Int \X Int
    BY ListAssumption
  <1>2. NoCmd.len = 0
    BY DEF NoCmd
  <1> QED  BY <1>1, <1>2, ListAssumption

LEMMA ListInitIInv == ListInit => ListIInv
  <1> SUFFICES ASSUME ListInit PROVE ListIInv
    OBVIOUS
  <1> DEFINE slots == [s \in 0 .. Slots - 1 |-> Empty]
             prev  == [k \in Kinds |-> {}]
  <1>1. Empty \in Held
    BY DEF Empty, Held
  <1>2. slots \in [0 .. Slots - 1 -> Held] /\ prev \in [Kinds -> SUBSET (Int \X Int)]
    BY <1>1
  <1>3. list = [left |-> 0, read |-> 0, cmd |-> NoCmd, slots |-> slots, pos |-> 0, prev |-> prev,
                owed |-> <<>>, parallel |-> TRUE]
    BY DEF ListInit
  <1>4. 0 \in 0 .. ListLen /\ 0 \in 0 .. Slots - 1 /\ <<>> \in Seq(Commands)
    BY ListAssumption
  <1> HIDE DEF slots, prev
  <1> QED  BY <1>2, <1>3, <1>4 DEF ListIInv, ListTypeOK, ListState, Owed

\* An image's address and the extent it is given.
LEMMA ImageType ==
    ASSUME list \in ListState, NEW c \in Commands
    PROVE  Image(c) \in Int \X Int
  <1>1. c.image \in Int \X Int
    BY CommandType
  <1>2. ASSUME list.prev["color"] # {}
        PROVE  (CHOOSE i \in list.prev["color"] : TRUE) \in Int \X Int
    BY <1>2 DEF ListState, Kinds
  <1> QED  BY <1>1, <1>2 DEF Image

\* The slots before the one a command is read into keep what they hold.
LEMMA ReadIntoSlot ==
    ASSUME ListIInv, NEW c \in Commands, NEW n \in Nat
    PROVE  LET slots == [list.slots EXCEPT ![list.pos] = [cmd |-> c, words |-> n]]
           IN  /\ slots \in [0 .. Slots - 1 -> Held]
               /\ slots[list.pos] = [cmd |-> c, words |-> n]
               /\ \A i \in 1 .. list.pos :
                     slots[i - 1] = [cmd |-> list.owed[i], words |-> list.owed[i].len]
  <1> DEFINE held  == [cmd |-> c, words |-> n]
             slots == [list.slots EXCEPT ![list.pos] = held]
  <1>1. list.pos \in 0 .. Slots - 1 /\ list.slots \in [0 .. Slots - 1 -> Held]
    BY DEF ListIInv, ListTypeOK, ListState
  <1>2. held \in Held
    BY DEF Held
  <1>3. \A i \in 1 .. list.pos : i - 1 \in 0 .. Slots - 1 /\ i - 1 # list.pos
    BY <1>1, CommandType
  <1>4. \A i \in 1 .. list.pos : list.slots[i - 1] = [cmd |-> list.owed[i], words |-> list.owed[i].len]
    BY DEF ListIInv, Owed
  <1> HIDE DEF held
  <1>5. slots \in [0 .. Slots - 1 -> Held] /\ slots[list.pos] = held
        /\ \A i \in 1 .. list.pos : slots[i - 1] = list.slots[i - 1]
    BY <1>1, <1>2, <1>3
  <1> QED  BY <1>4, <1>5 DEF held

\* One more command owed.
LEMMA AppendOwed ==
    ASSUME NEW rest \in Seq(Commands), NEW c \in Commands
    PROVE  /\ Append(rest, c) \in Seq(Commands) /\ Len(Append(rest, c)) = Len(rest) + 1
           /\ \A i \in 1 .. Len(rest) : Append(rest, c)[i] = rest[i]
           /\ Append(rest, c)[Len(rest) + 1] = c
  OBVIOUS

\* A command that is complete is owed last, or all have been run.
LEMMA RegisterOwed ==
    ASSUME ListIInv, NEW c \in Commands, NEW slots \in [0 .. Slots - 1 -> Held],
           slots[list.pos] = [cmd |-> c, words |-> c.len],
           \A i \in 1 .. list.pos :
               slots[i - 1] = [cmd |-> list.owed[i], words |-> list.owed[i].len]
    PROVE  LET l == Register(c, slots)
           IN  l \in ListState /\ l.cmd = NoCmd /\ l.read = 0 /\ Owed(l)
  <1> DEFINE early == Retargets(c) \/ c.id = "sync_full"
             pos   == IF early THEN 0 ELSE list.pos
             flush == pos + 1 >= Slots \/ c.id \in SyncIds
             rest  == IF early THEN <<>> ELSE list.owed
             kept  == IF Retargets(c) THEN Flushed(c, slots) ELSE slots
             prev  == IF c.id \in Kinds THEN [list.prev EXCEPT ![c.id] = {Image(c)}] ELSE list.prev
             pos2  == IF c.id = "sync_full" \/ flush THEN 0 ELSE pos + 1
             owed  == IF c.id = "sync_full" \/ flush THEN <<>> ELSE Append(rest, c)
             l     == [list EXCEPT !.slots = kept, !.prev = prev, !.pos = pos2, !.owed = owed,
                                   !.read = 0, !.cmd = NoCmd]
  <1>1. list \in ListState /\ list.pos \in 0 .. Slots - 1 /\ list.owed \in Seq(Commands)
        /\ list.pos = Len(list.owed)
    BY DEF ListIInv, ListTypeOK, ListState, Owed
  <1>2. Register(c, slots) = l
    BY DEF Register
  <1>3. prev \in [Kinds -> SUBSET (Int \X Int)]
    <2>1. {Image(c)} \in SUBSET (Int \X Int)
      BY <1>1, ImageType
    <2> QED  BY <1>1, <2>1 DEF ListState
  <1>4. rest \in Seq(Commands) /\ Len(rest) = pos /\ pos \in 0 .. Slots - 1
    BY <1>1, CommandType
  <1>5. pos2 \in 0 .. Slots - 1 /\ owed \in Seq(Commands) /\ pos2 = Len(owed)
    <2>1. CASE c.id = "sync_full" \/ flush
      BY <2>1, CommandType
    <2>2. CASE ~(c.id = "sync_full" \/ flush)
      <3>1. pos + 1 \in 0 .. Slots - 1
        BY <1>4, <2>2, CommandType
      <3>2. Append(rest, c) \in Seq(Commands) /\ Len(Append(rest, c)) = pos + 1
        BY <1>4, AppendOwed
      <3> HIDE DEF pos, rest, flush
      <3> QED  BY <2>2, <3>1, <3>2
    <2> QED  BY <2>1, <2>2
  <1>6. /\ kept \in [0 .. Slots - 1 -> Held]
        /\ kept[pos] = [cmd |-> c, words |-> c.len] \/ c.id = "sync_full"
        /\ \A i \in 1 .. pos : kept[i - 1] = [cmd |-> rest[i], words |-> rest[i].len]
    <2> DEFINE held == [cmd |-> c, words |-> c.len]
    <2>1. held \in Held /\ 0 \in 0 .. Slots - 1
      BY CommandType DEF Held
    <2>2. CASE Retargets(c)
      <3>1. kept = [slots EXCEPT ![0] = held]
        BY <2>2 DEF Flushed
      <3>2. pos = 0
        BY <2>2
      <3> HIDE DEF held, pos, kept
      <3> QED  BY <2>1, <3>1, <3>2 DEF held
    <2>3. CASE ~Retargets(c) /\ c.id = "sync_full"
      <3>1. kept = slots /\ pos = 0
        BY <2>3
      <3> HIDE DEF kept, pos
      <3> QED  BY <2>3, <3>1
    <2>4. CASE ~Retargets(c) /\ c.id # "sync_full"
      <3>1. kept = slots /\ pos = list.pos /\ rest = list.owed
        BY <2>4
      <3> HIDE DEF kept, pos, rest
      <3> QED  BY <3>1
    <2> QED  BY <2>2, <2>3, <2>4
  <1>7. \A i \in 1 .. pos2 : kept[i - 1] = [cmd |-> owed[i], words |-> owed[i].len]
    <2>1. CASE c.id = "sync_full" \/ flush
      <3>1. pos2 = 0
        BY <2>1
      <3> HIDE DEF pos2
      <3> QED  BY <3>1
    <2>2. CASE ~(c.id = "sync_full" \/ flush)
      <3>1. pos2 = pos + 1 /\ owed = Append(rest, c) /\ c.id # "sync_full"
        BY <2>2
      <3> HIDE DEF pos2, owed, pos, rest, kept
      <3> SUFFICES ASSUME NEW i \in 1 .. pos2
                   PROVE  kept[i - 1] = [cmd |-> owed[i], words |-> owed[i].len]
        OBVIOUS
      <3>2. CASE i = pos + 1
        BY <1>4, <1>6, <3>1, <3>2, AppendOwed
      <3>3. CASE i # pos + 1
        <4>1. i \in 1 .. pos
          BY <1>4, <3>1, <3>3
        <4>2. owed[i] = rest[i]
          BY <1>4, <3>1, <4>1, AppendOwed
        <4> QED  BY <1>6, <4>1, <4>2
      <3> QED  BY <3>2, <3>3
    <2> QED  BY <2>1, <2>2
  <1> HIDE DEF kept, prev, pos2, owed
  <1>8. l \in ListState /\ l.cmd = NoCmd /\ l.read = 0 /\ l.pos = pos2 /\ l.owed = owed
        /\ l.slots = kept
    BY <1>1, <1>3, <1>5, <1>6 DEF ListState
  <1> HIDE DEF l
  <1>9. Owed(l)
    BY <1>5, <1>7, <1>8 DEF Owed
  <1> QED  BY <1>2, <1>8, <1>9

\* The words read of a command, out of those the list has left.
LEMMA WordsRead ==
    ASSUME NEW left \in Nat \ {0}, NEW wanted \in Nat \ {0}
    PROVE  Min({left, wanted}) \in 1 .. left /\ Min({left, wanted}) <= wanted
  <1>1. \E x \in {left, wanted} : \A y \in {left, wanted} : x <= y
    BY SMT
  <1>2. /\ Min({left, wanted}) \in {left, wanted}
        /\ \A y \in {left, wanted} : Min({left, wanted}) <= y
    BY <1>1 DEF Min
  <1> QED  BY <1>2

LEMMA ListStepIInv == ListIInv /\ ListStep => ListIInv'
  <1> SUFFICES ASSUME ListIInv, ListStep PROVE ListIInv'
    OBVIOUS
  <1>1. list.left > 0
    BY DEF ListStep
  <1>2. PICK c \in InHand :
           LET n     == Min({list.left, Wanted(c)})
               read  == list.read + n
               slots == [list.slots EXCEPT ![list.pos] = [cmd |-> c, words |-> read]]
               after == IF read = c.len
                           THEN IF list.parallel THEN Register(c, slots) ELSE RunAtOnce(slots)
                           ELSE [list EXCEPT !.slots = slots, !.read = read, !.cmd = c]
           IN  list' = [after EXCEPT !.left = list.left - n]
    BY DEF ListStep
  <1> DEFINE n     == Min({list.left, Wanted(c)})
             read  == list.read + n
             held  == [cmd |-> c, words |-> read]
             slots == [list.slots EXCEPT ![list.pos] = held]
             after == IF read = c.len
                         THEN IF list.parallel THEN Register(c, slots) ELSE RunAtOnce(slots)
                         ELSE [list EXCEPT !.slots = slots, !.read = read, !.cmd = c]
             left  == list.left - n
  <1>3. list' = [after EXCEPT !.left = left]
    BY <1>2
  <1>4. /\ list \in ListState /\ list.left \in 0 .. ListLen /\ list.read \in Nat
        /\ list.cmd \in Commands \cup {NoCmd} /\ list.pos \in 0 .. Slots - 1
    BY DEF ListIInv, ListTypeOK, ListState
  <1>5. c \in Commands /\ c.len \in Nat /\ c.len > 0 /\ Wanted(c) \in Nat \ {0}
        /\ Wanted(c) = c.len - list.read
    <2>1. CASE list.read = 0
      BY <2>1, CommandType DEF InHand, Wanted
    <2>2. CASE list.read # 0
      <3>1. c = list.cmd /\ list.cmd # NoCmd
        BY <2>2 DEF InHand, ListIInv, ListTypeOK
      <3>2. c \in Commands /\ list.read \in 1 .. c.len - 1
        BY <1>4, <3>1 DEF ListIInv, ListTypeOK
      <3> QED  BY <3>2, CommandType DEF Wanted
    <2> QED  BY <2>1, <2>2
  <1>6. n \in 1 .. list.left /\ n <= Wanted(c)
    <2>1. list.left \in Nat \ {0}
      BY <1>1, <1>4, ListAssumption
    <2> QED  BY <1>5, <2>1, WordsRead
  <1> HIDE DEF n
  <1>7. read \in 1 .. c.len /\ left \in 0 .. ListLen /\ read \in Nat
    BY <1>4, <1>5, <1>6, ListAssumption
  <1>8. /\ slots \in [0 .. Slots - 1 -> Held]
        /\ slots[list.pos] = held
        /\ \A i \in 1 .. list.pos :
               slots[i - 1] = [cmd |-> list.owed[i], words |-> list.owed[i].len]
    BY <1>5, <1>7, ReadIntoSlot
  <1> HIDE DEF read, slots, left
  <1>9. /\ after \in ListState
        /\ after.cmd = NoCmd => after.read = 0
        /\ after.cmd # NoCmd => after.read \in 1 .. after.cmd.len - 1
        /\ Owed(after)
    <2>1. CASE read = c.len /\ list.parallel
      <3>1. after = Register(c, slots)
        BY <2>1
      <3>2. slots[list.pos] = [cmd |-> c, words |-> c.len]
        BY <1>8, <2>1
      <3> HIDE DEF after
      <3> QED  BY <1>5, <1>8, <3>1, <3>2, RegisterOwed
    <2>2. CASE read = c.len /\ ~list.parallel
      <3>1. after = [list EXCEPT !.slots = slots, !.read = 0, !.cmd = NoCmd]
        BY <2>2 DEF RunAtOnce
      <3> HIDE DEF after
      <3>2. after \in ListState /\ after.cmd = NoCmd /\ after.read = 0 /\ after.pos = list.pos
            /\ after.owed = list.owed /\ after.slots = slots
        BY <1>4, <1>8, <3>1 DEF ListState
      <3>3. Owed(after)
        BY <1>8, <3>2 DEF Owed, ListIInv
      <3> QED  BY <3>2, <3>3
    <2>3. CASE read # c.len
      <3>1. after = [list EXCEPT !.slots = slots, !.read = read, !.cmd = c]
        BY <2>3
      <3> HIDE DEF after
      <3>2. after \in ListState /\ after.cmd = c /\ after.read = read /\ after.pos = list.pos
            /\ after.owed = list.owed /\ after.slots = slots
        BY <1>4, <1>5, <1>7, <1>8, <3>1 DEF ListState
      <3>3. Owed(after)
        BY <1>8, <3>2 DEF Owed, ListIInv
      <3>4. read \in 1 .. c.len - 1 /\ c # NoCmd
        BY <1>5, <1>7, <2>3, CommandType
      <3> QED  BY <3>2, <3>3, <3>4
    <2> QED  BY <2>1, <2>2, <2>3
  <1> HIDE DEF after
  <1>10. /\ list' \in ListState /\ list'.cmd = after.cmd /\ list'.read = after.read
         /\ list'.pos = after.pos /\ list'.owed = after.owed /\ list'.slots = after.slots
    BY <1>3, <1>7, <1>9 DEF ListState
  <1> QED  BY <1>9, <1>10 DEF ListIInv, ListTypeOK, Owed

LEMMA BetweenListsIInv == ListIInv /\ (ListStart \/ Reopen) => ListIInv'
  <1> SUFFICES ASSUME ListIInv, ListStart \/ Reopen PROVE ListIInv'
    OBVIOUS
  <1>1. list \in ListState
    BY DEF ListIInv, ListTypeOK
  <1>2. CASE ListStart
    <2>1. PICK n \in 1 .. ListLen : list' = [list EXCEPT !.left = n]
      BY <1>2 DEF ListStart
    <2>2. n \in 0 .. ListLen
      BY ListAssumption
    <2>3. /\ list' \in ListState /\ list'.cmd = list.cmd /\ list'.read = list.read
          /\ list'.pos = list.pos /\ list'.owed = list.owed /\ list'.slots = list.slots
      BY <1>1, <2>1, <2>2 DEF ListState
    <2> QED  BY <2>3 DEF ListIInv, ListTypeOK, Owed
  <1>3. CASE Reopen
    <2> DEFINE prev == [k \in Kinds |-> {}]
    <2>1. PICK parallel \in BOOLEAN :
            list' = [list EXCEPT !.read = 0, !.cmd = NoCmd, !.prev = prev, !.parallel = parallel]
      BY <1>3 DEF Reopen
    <2>2. prev \in [Kinds -> SUBSET (Int \X Int)]
      OBVIOUS
    <2> HIDE DEF prev
    <2>3. /\ list' \in ListState /\ list'.cmd = NoCmd /\ list'.read = 0
          /\ list'.pos = list.pos /\ list'.owed = list.owed /\ list'.slots = list.slots
      BY <1>1, <2>1, <2>2 DEF ListState
    <2> QED  BY <2>3 DEF ListIInv, ListTypeOK, Owed
  <1> QED  BY <1>2, <1>3

\* The slots that the workers would run hold the commands decoded and not yet run,
\* whole and in order, for lists of every length, buffers of every size and
\* whichever commands flush them.
THEOREM SlotsHoldOwed == ListSpec => [](ListTypeOK /\ SlotsOwed)
  <1>1. ListIInv /\ [ListNext]_list => ListIInv'
    <2>1. ListIInv /\ UNCHANGED list => ListIInv'
      BY DEF ListIInv, ListTypeOK, Owed
    <2> QED  BY <2>1, ListStepIInv, BetweenListsIInv DEF ListNext
  <1>2. ListIInv => ListTypeOK /\ SlotsOwed
    BY DEF ListIInv, Owed, SlotsOwed
  <1> QED  BY <1>1, <1>2, ListInitIInv, PTL DEF ListSpec

-----------------------------------------------------------------------------
(* parallel-RDP's ring.                                                     *)

RingState ==
    [slots : [0 .. RingSize - 1 -> Nat], write : Nat, read : Nat, completed : Nat,
     app : {"none", "idle"} \cup AppWaits, appAsleep : BOOLEAN, next : Sendable,
     thread : {"wait", "asleep", "process", "meta", "ended"}, tmp : Sendable,
     sent : Seq(Sendings)]

End(s) == s.at + Len(s.cmd) + 1

\* The ring's words hold the command, its length before it.
Holds(slots, s) ==
    \A j \in 0 .. Len(s.cmd) :
        slots[(s.at + j) % RingSize] = IF j = 0 THEN Len(s.cmd) ELSE s.cmd[j]

\* The commands lie one after the other between the read counter and the write counter,
\* none over another, and each takes a word at least.
Laid(slots, read, write, sent) ==
    /\ read <= write /\ write <= read + RingSize
    /\ sent = <<>> => read = write
    /\ sent # <<>> => sent[1].at = read /\ End(sent[Len(sent)]) = write
    /\ \A i \in 1 .. Len(sent) - 1 : sent[i + 1].at = End(sent[i])
    /\ \A i, j \in 1 .. Len(sent) : i < j => End(sent[i]) <= sent[j].at
    /\ \A i \in 1 .. Len(sent) :
           /\ read <= sent[i].at /\ End(sent[i]) <= write
           /\ Len(sent) - i + 1 <= write - sent[i].at
           /\ Holds(slots, sent[i])

\* Nothing follows the sentinel, and the consumer ends when it has read it.
Closing(app, thread, sent) ==
    /\ \A i \in 1 .. Len(sent) : sent[i].cmd = Sentinel => i = Len(sent) /\ app = "join"
    /\ app = "join" /\ thread # "ended" => sent # <<>> /\ sent[Len(sent)].cmd = Sentinel
    /\ thread = "ended" => sent = <<>> /\ app \in {"none", "join"}
    /\ app = "none" => thread = "ended"

RingOK(r) ==
    /\ r \in RingState
    /\ Laid(r.slots, r.read, r.write, r.sent)
    /\ Closing(r.app, r.thread, r.sent)
    /\ r.completed <= r.read
    /\ r.thread = "process" => r.completed < r.read

RingIInv == RingOK(ring)

LEMMA SendableType ==
    ASSUME NEW c \in Sendable
    PROVE  c \in Seq(Nat) /\ Len(c) \in Nat /\ (Len(c) = 0 <=> c = Sentinel)
  <1>1. c \in Seq(Nat)
    <2>1. <<>> \in Seq(Nat)
      OBVIOUS
    <2> QED  BY <2>1, RingAssumption DEF Sendable, Sentinel
  <1> QED  BY <1>1 DEF Sentinel

LEMMA SendingType ==
    ASSUME NEW sent \in Seq(Sendings), NEW i \in 1 .. Len(sent)
    PROVE  /\ sent[i] \in Sendings /\ sent[i].at \in Nat /\ sent[i].cmd \in Sendable
           /\ Len(sent[i].cmd) \in Nat /\ End(sent[i]) \in Nat
  <1>1. sent[i] \in Sendings
    OBVIOUS
  <1>2. sent[i].at \in Nat /\ sent[i].cmd \in Sendable
    BY <1>1 DEF Sendings
  <1> QED  BY <1>1, <1>2, SendableType DEF End

\* Two places less than a ring apart are different slots.
LEMMA SlotsApart ==
    ASSUME NEW a \in Nat, NEW b \in Nat, a < b, b < a + RingSize
    PROVE  a % RingSize # b % RingSize
  <1>1. RingSize \in Nat /\ RingSize > 0
    BY RingAssumption
  <1>2. /\ a = RingSize * (a \div RingSize) + (a % RingSize)
        /\ b = RingSize * (b \div RingSize) + (b % RingSize)
        /\ a % RingSize \in Nat /\ b % RingSize \in Nat
        /\ a \div RingSize \in Nat /\ b \div RingSize \in Nat
    BY <1>1
  <1> DEFINE d == (b \div RingSize) - (a \div RingSize)
  <1>3. ASSUME a % RingSize = b % RingSize PROVE FALSE
    <2>1. b - a = RingSize * d /\ d \in Int
      BY <1>1, <1>2, <1>3
    <2> HIDE DEF d
    <2>2. CASE d <= 0
      <3>1. RingSize * d <= 0
        BY <1>1, <2>1, <2>2
      <3> QED  BY <2>1, <3>1
    <2>3. CASE d >= 1
      <3>1. RingSize * d >= RingSize
        BY <1>1, <2>1, <2>3
      <3> QED  BY <1>1, <2>1, <3>1
    <2> QED  BY <2>1, <2>2, <2>3
  <1> QED  BY <1>3

LEMMA SlotType == ASSUME NEW n \in Nat PROVE n % RingSize \in 0 .. RingSize - 1
  BY RingAssumption

\* What a write leaves in the ring.
LEMMA WrittenHolds ==
    ASSUME ring \in RingState, NEW c \in Sendable, Len(c) + 1 <= RingSize
    PROVE  /\ Written(c) \in [0 .. RingSize - 1 -> Nat]
           /\ Holds(Written(c), [at |-> ring.write, cmd |-> c])
           /\ \A n \in Nat : n < ring.write /\ ring.write + Len(c) + 1 <= n + RingSize
                  => Written(c)[n % RingSize] = ring.slots[n % RingSize]
  <1> DEFINE at(k) == (ring.write + k) % RingSize
             words == <<Len(c)>> \o c
             pick(s) == CHOOSE k \in 0 .. Len(c) : at(k) = s
  <1>0. ring.write \in Nat /\ RingSize \in Nat /\ Len(c) \in Nat
    BY RingAssumption, SendableType DEF RingState
  <1>1. /\ ring.write \in Nat /\ ring.slots \in [0 .. RingSize - 1 -> Nat]
        /\ RingSize \in Nat /\ RingSize > 0
    BY RingAssumption DEF RingState
  <1>2. c \in Seq(Nat) /\ Len(c) \in Nat
    BY SendableType
  <1>3. /\ \A i \in 0 .. Len(c) : words[1 + i] \in Nat
        /\ \A i \in 0 .. Len(c) : words[1 + i] = IF i = 0 THEN Len(c) ELSE c[i]
    BY <1>2
  <1>4. Written(c) = [s \in 0 .. RingSize - 1 |->
                         IF \E i \in 0 .. Len(c) : at(i) = s
                            THEN words[1 + pick(s)] ELSE ring.slots[s]]
    BY DEF Written
  <1>5. \A s \in 0 .. RingSize - 1 : (\E i \in 0 .. Len(c) : at(i) = s)
            => pick(s) \in 0 .. Len(c) /\ at(pick(s)) = s
    OBVIOUS
  <1>6. \A i, j \in 0 .. Len(c) : at(i) = at(j) => i = j
    <2> SUFFICES ASSUME NEW i \in 0 .. Len(c), NEW j \in 0 .. Len(c), i < j
                 PROVE  at(i) # at(j)
      BY <1>2
    <2> DEFINE a == ring.write + i
               b == ring.write + j
    <2>1. i \in Nat /\ j \in Nat /\ j <= Len(c)
      BY <1>2
    <2>2. a \in Nat /\ b \in Nat /\ a < b /\ b < a + RingSize
      <3> HIDE DEF at, words, pick
      <3> QED  BY <1>0, <2>1
    <2> HIDE DEF a, b
    <2>3. a % RingSize # b % RingSize
      BY <2>2, SlotsApart
    <2> QED  BY <2>3 DEF a, b
  <1>7. \A i \in 0 .. Len(c) : at(i) \in 0 .. RingSize - 1
    <2>1. \A i \in 0 .. Len(c) : ring.write + i \in Nat
      BY <1>1, <1>2
    <2> QED  BY <2>1, SlotType
  <1> HIDE DEF words
  <1>8. Written(c) \in [0 .. RingSize - 1 -> Nat]
    <2>1. \A s \in 0 .. RingSize - 1 :
             (IF \E i \in 0 .. Len(c) : at(i) = s
                 THEN words[1 + pick(s)] ELSE ring.slots[s]) \in Nat
      <3> HIDE DEF at, pick
      <3> QED  BY <1>1, <1>3, <1>5
    <2> HIDE DEF at, pick
    <2> QED  BY <1>4, <2>1
  <1>9. \A j \in 0 .. Len(c) : Written(c)[at(j)] = words[1 + j]
    <2> SUFFICES ASSUME NEW j \in 0 .. Len(c) PROVE Written(c)[at(j)] = words[1 + j]
      OBVIOUS
    <2>1. pick(at(j)) = j
      <3> HIDE DEF at, pick
      <3> QED  BY <1>5, <1>6, <1>7
    <2> HIDE DEF at, pick
    <2> QED  BY <1>4, <1>7, <2>1
  <1>10. Holds(Written(c), [at |-> ring.write, cmd |-> c])
    BY <1>3, <1>9 DEF Holds
  <1>11. ASSUME NEW n \in Nat, n < ring.write, ring.write + Len(c) + 1 <= n + RingSize
         PROVE  Written(c)[n % RingSize] = ring.slots[n % RingSize]
    <2>1. \A i \in 0 .. Len(c) : at(i) # n % RingSize
      <3> SUFFICES ASSUME NEW i \in 0 .. Len(c) PROVE at(i) # n % RingSize
        OBVIOUS
      <3> DEFINE b == ring.write + i
      <3>1. i \in Nat /\ i <= Len(c)
        BY <1>2
      <3>2. b \in Nat /\ n < b /\ b < n + RingSize
        <4> HIDE DEF at, pick
        <4> QED  BY <1>0, <1>11, <3>1
      <3> HIDE DEF b
      <3>3. n % RingSize # b % RingSize
        BY <3>2, <1>11, SlotsApart
      <3> QED  BY <3>3 DEF b
    <2>2. n % RingSize \in 0 .. RingSize - 1
      BY <1>11, SlotType
    <2> HIDE DEF at, pick
    <2> QED  BY <1>4, <2>1, <2>2
  <1> QED  BY <1>8, <1>10, <1>11

\* A command written at the write counter lies behind the others.
LEMMA LaidBehind ==
    ASSUME NEW slots, NEW slots2, NEW read \in Nat, NEW write \in Nat, NEW sent \in Seq(Sendings),
           Laid(slots, read, write, sent),
           NEW s \in Sendings, s.at = write, End(s) <= read + RingSize, Holds(slots2, s),
           \A n \in Nat : n < write /\ End(s) <= n + RingSize
               => slots2[n % RingSize] = slots[n % RingSize]
    PROVE  Laid(slots2, read, End(s), Append(sent, s))
  <1> DEFINE all == Append(sent, s)
             n   == Len(sent)
  <1>1. /\ all \in Seq(Sendings) /\ all # <<>> /\ Len(all) = n + 1 /\ n \in Nat
        /\ \A i \in 1 .. n : all[i] = sent[i]
        /\ all[n + 1] = s
    BY AppendProperties
  <1>2. End(s) \in Nat /\ End(s) > write /\ RingSize \in Nat
    BY SendableType, RingAssumption DEF End, Sendings
  <1>3. \A i \in 1 .. n : /\ sent[i].at \in Nat /\ End(sent[i]) \in Nat
                          /\ Len(sent[i].cmd) \in Nat /\ End(sent[i]) = sent[i].at + Len(sent[i].cmd) + 1
    BY SendingType DEF End
  <1>4. /\ read <= write
        /\ sent = <<>> => read = write
        /\ sent # <<>> => sent[1].at = read /\ End(sent[n]) = write
        /\ \A i \in 1 .. n - 1 : sent[i + 1].at = End(sent[i])
        /\ \A i, j \in 1 .. n : i < j => End(sent[i]) <= sent[j].at
        /\ \A i \in 1 .. n : /\ read <= sent[i].at /\ End(sent[i]) <= write
                             /\ n - i + 1 <= write - sent[i].at
    BY DEF Laid
  <1>5. \A i \in 1 .. n : Holds(slots2, sent[i])
    <2> SUFFICES ASSUME NEW i \in 1 .. n, NEW j \in 0 .. Len(sent[i].cmd)
                 PROVE  slots2[(sent[i].at + j) % RingSize]
                          = IF j = 0 THEN Len(sent[i].cmd) ELSE sent[i].cmd[j]
      BY DEF Holds
    <2> DEFINE m == sent[i].at + j
    <2>1. slots[m % RingSize] = IF j = 0 THEN Len(sent[i].cmd) ELSE sent[i].cmd[j]
      BY DEF Laid, Holds
    <2>2. j \in Nat /\ j <= Len(sent[i].cmd) /\ sent[i].at \in Nat /\ Len(sent[i].cmd) \in Nat
          /\ End(sent[i]) = sent[i].at + Len(sent[i].cmd) + 1
      BY <1>3
    <2>3. read <= sent[i].at /\ End(sent[i]) <= write
      BY <1>4
    <2>4. m \in Nat /\ m < write /\ End(s) <= m + RingSize
      <3> DEFINE a   == sent[i].at
                 len == Len(sent[i].cmd)
                 end == End(s)
      <3>1. /\ a \in Nat /\ len \in Nat /\ j \in Nat /\ j <= len /\ read <= a
            /\ a + len + 1 <= write /\ m = a + j
        BY <2>2, <2>3
      <3>2. end \in Nat /\ end <= read + RingSize /\ RingSize \in Nat
        BY <1>2
      <3> HIDE DEF a, len, end, m
      <3>3. m \in Nat /\ m < write /\ end <= m + RingSize
        BY <3>1, <3>2
      <3> QED  BY <3>3 DEF end
    <2> HIDE DEF m
    <2>5. slots2[m % RingSize] = slots[m % RingSize]
      BY <2>4
    <2> QED  BY <2>1, <2>5 DEF m
  <1> HIDE DEF all, n
  <1>6. all[1].at = read
    <2>1. CASE n = 0
      BY <1>1, <1>4, <2>1 DEF n
    <2>2. CASE n > 0
      BY <1>1, <1>4, <2>2 DEF n
    <2> QED  BY <1>1, <2>1, <2>2
  <1>7. \A i \in 1 .. Len(all) - 1 : all[i + 1].at = End(all[i])
    <2> SUFFICES ASSUME NEW i \in 1 .. Len(all) - 1 PROVE all[i + 1].at = End(all[i])
      OBVIOUS
    <2>1. CASE i = n
      <3>1. sent # <<>>
        BY <1>1, <2>1 DEF n
      <3> QED  BY <1>1, <1>4, <2>1, <3>1
    <2>2. CASE i # n
      <3>1. i \in 1 .. n - 1 /\ i + 1 \in 1 .. n /\ i \in 1 .. n
        BY <1>1, <2>2
      <3> QED  BY <1>1, <1>4, <3>1
    <2> QED  BY <2>1, <2>2
  <1>8. \A i, j \in 1 .. Len(all) : i < j => End(all[i]) <= all[j].at
    <2> SUFFICES ASSUME NEW i \in 1 .. n + 1, NEW j \in 1 .. n + 1, i < j
                 PROVE  End(all[i]) <= all[j].at
      BY <1>1
    <2>1. i \in 1 .. n
      BY <1>1
    <2>2. CASE j = n + 1
      BY <1>1, <1>4, <2>1, <2>2
    <2>3. CASE j # n + 1
      BY SMTT(40), <1>1, <1>4, <2>1, <2>3
    <2> QED  BY <2>2, <2>3
  <1>9. \A i \in 1 .. Len(all) :
           /\ read <= all[i].at /\ End(all[i]) <= End(s)
           /\ Len(all) - i + 1 <= End(s) - all[i].at
           /\ Holds(slots2, all[i])
    <2> SUFFICES ASSUME NEW i \in 1 .. n + 1
                 PROVE  /\ read <= all[i].at /\ End(all[i]) <= End(s)
                        /\ (n + 1) - i + 1 <= End(s) - all[i].at
                        /\ Holds(slots2, all[i])
      BY <1>1
    <2>1. CASE i = n + 1
      BY <1>1, <1>2, <1>4, <2>1
    <2>2. CASE i # n + 1
      <3>1. i \in 1 .. n /\ all[i] = sent[i]
        BY <1>1, <2>2
      <3>2. /\ read <= sent[i].at /\ End(sent[i]) <= write /\ n - i + 1 <= write - sent[i].at
            /\ sent[i].at \in Nat /\ End(sent[i]) \in Nat
        BY <1>3, <1>4, <3>1
      <3>3. n \in Nat /\ i \in Nat
        BY <1>1
      <3>4. End(sent[i]) <= End(s) /\ (n + 1) - i + 1 <= End(s) - sent[i].at
        BY SMTT(40), <1>2, <3>2, <3>3
      <3>5. Holds(slots2, sent[i])
        BY <1>5, <3>1
      <3> QED  BY <3>1, <3>2, <3>4, <3>5
    <2> QED  BY <2>1, <2>2
  <1>10. read <= End(s) /\ all[Len(all)] = s
    BY <1>1, <1>2, <1>4
  <1> QED  BY <1>1, <1>6, <1>7, <1>8, <1>9, <1>10 DEF Laid, all

\* The first command read, the others lie as they did.
LEMMA LaidAfter ==
    ASSUME NEW slots, NEW read \in Nat, NEW write \in Nat, NEW sent \in Seq(Sendings),
           Laid(slots, read, write, sent), sent # <<>>
    PROVE  Laid(slots, End(sent[1]), write, Tail(sent))
  <1> DEFINE rest == Tail(sent)
             n    == Len(sent)
             from == End(sent[1])
  <1>1. /\ rest \in Seq(Sendings) /\ Len(rest) = n - 1 /\ n \in Nat /\ n >= 1
        /\ \A i \in 1 .. n - 1 : rest[i] = sent[i + 1]
    BY HeadTailProperties
  <1>2. \A i \in 1 .. n : sent[i].at \in Nat /\ End(sent[i]) \in Nat /\ sent[i].at < End(sent[i])
    BY SendingType DEF End
  <1>3. /\ read <= write /\ write <= read + RingSize
        /\ sent[1].at = read /\ End(sent[n]) = write
        /\ \A i \in 1 .. n - 1 : sent[i + 1].at = End(sent[i])
        /\ \A i, j \in 1 .. n : i < j => End(sent[i]) <= sent[j].at
        /\ \A i \in 1 .. n : /\ read <= sent[i].at /\ End(sent[i]) <= write
                             /\ n - i + 1 <= write - sent[i].at
                             /\ Holds(slots, sent[i])
    BY DEF Laid
  <1> HIDE DEF rest, n
  <1>4. from \in Nat /\ read < from /\ from <= write /\ RingSize \in Nat
    BY <1>1, <1>2, <1>3, RingAssumption
  <1> HIDE DEF from
  <1>5. rest = <<>> => from = write
    <2>1. rest = <<>> => n = 1
      BY <1>1
    <2> QED  BY <1>3, <2>1 DEF from
  <1>6. rest # <<>> => rest[1].at = from /\ End(rest[Len(rest)]) = write
    <2> SUFFICES ASSUME rest # <<>> PROVE rest[1].at = from /\ End(rest[Len(rest)]) = write
      OBVIOUS
    <2>1. n > 1
      BY <1>1
    <2>2. rest[1] = sent[2] /\ rest[n - 1] = sent[n]
      BY <1>1, <2>1
    <2>3. sent[2].at = from
      BY <1>1, <1>3, <2>1 DEF from
    <2> QED  BY <1>1, <1>3, <2>2, <2>3
  <1>7. \A i \in 1 .. Len(rest) - 1 : rest[i + 1].at = End(rest[i])
    <2> SUFFICES ASSUME NEW i \in 1 .. n - 2 PROVE rest[i + 1].at = End(rest[i])
      BY <1>1
    <2>1. i + 1 \in 1 .. n - 1 /\ i \in 1 .. n - 1
      BY <1>1
    <2>2. rest[i] = sent[i + 1] /\ rest[i + 1] = sent[(i + 1) + 1]
      BY <1>1, <2>1
    <2> QED  BY <1>3, <2>1, <2>2
  <1>8. \A i, j \in 1 .. Len(rest) : i < j => End(rest[i]) <= rest[j].at
    <2> SUFFICES ASSUME NEW i \in 1 .. n - 1, NEW j \in 1 .. n - 1, i < j
                 PROVE  End(rest[i]) <= rest[j].at
      BY <1>1
    <2>1. i + 1 \in 1 .. n /\ j + 1 \in 1 .. n /\ i + 1 < j + 1
      BY <1>1
    <2>2. rest[i] = sent[i + 1] /\ rest[j] = sent[j + 1]
      BY <1>1
    <2> QED  BY <1>3, <2>1, <2>2
  <1>9. \A i \in 1 .. Len(rest) :
           /\ from <= rest[i].at /\ End(rest[i]) <= write
           /\ Len(rest) - i + 1 <= write - rest[i].at
           /\ Holds(slots, rest[i])
    <2> SUFFICES ASSUME NEW i \in 1 .. n - 1
                 PROVE  /\ from <= rest[i].at /\ End(rest[i]) <= write
                        /\ (n - 1) - i + 1 <= write - rest[i].at
                        /\ Holds(slots, rest[i])
      BY <1>1
    <2>1. i + 1 \in 1 .. n /\ 1 \in 1 .. n /\ 1 < i + 1 /\ rest[i] = sent[i + 1]
      BY <1>1
    <2>2. /\ n - (i + 1) + 1 <= write - sent[i + 1].at
          /\ End(sent[i + 1]) <= write /\ Holds(slots, sent[i + 1]) /\ sent[i + 1].at \in Nat
      BY <1>2, <1>3, <2>1
    <2>3. from <= sent[i + 1].at
      BY <1>3, <2>1 DEF from
    <2> QED  BY <1>1, <2>1, <2>2, <2>3
  <1>10. write <= from + RingSize
    BY <1>3, <1>4
  <1> QED  BY <1>4, <1>5, <1>6, <1>7, <1>8, <1>9, <1>10 DEF Laid, rest, from

\* What the consumer reads is the command sent first.
LEMMA FetchedFirst ==
    ASSUME RingIInv, HasCommand
    PROVE  /\ ring.sent # <<>> /\ 1 \in 1 .. Len(ring.sent)
           /\ ring.sent[1].cmd \in Sendable
           /\ Header = Len(ring.sent[1].cmd) /\ Fetched = ring.sent[1].cmd
           /\ ring.read + Header + 1 = End(ring.sent[1])
  <1> DEFINE c == ring.sent[1].cmd
  <1>1. /\ ring \in RingState /\ ring.sent \in Seq(Sendings) /\ ring.read \in Nat
        /\ ring.write \in Nat /\ ring.write > ring.read
    BY DEF RingIInv, RingOK, HasCommand, RingState
  <1>2. Laid(ring.slots, ring.read, ring.write, ring.sent)
    BY DEF RingIInv, RingOK
  <1>3. ring.sent # <<>>
    BY <1>1, <1>2 DEF Laid
  <1>4. 1 \in 1 .. Len(ring.sent)
    BY <1>1, <1>3
  <1>5. ring.sent[1].at = ring.read /\ Holds(ring.slots, ring.sent[1])
    BY <1>2, <1>3, <1>4 DEF Laid
  <1>6. c \in Sendable
    BY <1>1, <1>4, SendingType
  <1>7. c \in Seq(Nat) /\ Len(c) \in Nat
    BY <1>6, SendableType
  <1>8. \A j \in 0 .. Len(c) : Slot(ring.read + j) = IF j = 0 THEN Len(c) ELSE c[j]
    BY <1>5 DEF Holds, Slot
  <1>9. Header = Len(c)
    <2>1. 0 \in 0 .. Len(c) /\ ring.read + 0 = ring.read
      BY <1>1, <1>7
    <2>2. Slot(ring.read + 0) = Len(c)
      BY <1>8, <2>1
    <2> QED  BY <2>1, <2>2 DEF Header
  <1>10. Fetched = c
    <2>1. \A j \in 1 .. Len(c) : Slot(ring.read + j) = c[j]
      BY <1>7, <1>8
    <2>2. c = [j \in 1 .. Len(c) |-> c[j]]
      BY <1>7
    <2> HIDE DEF c
    <2>3. Fetched = [j \in 1 .. Len(c) |-> c[j]]
      BY <1>9, <2>1 DEF Fetched
    <2> QED  BY <2>2, <2>3
  <1> QED  BY <1>3, <1>4, <1>5, <1>6, <1>9, <1>10 DEF End

LEMMA RingInitIInv == RingInit => RingIInv
  <1> DEFINE slots == [i \in 0 .. RingSize - 1 |-> 0]
  <1>1. slots \in [0 .. RingSize - 1 -> Nat] /\ <<>> \in Seq(Sendings) /\ Sentinel \in Sendable
        /\ RingSize \in Nat
    BY RingAssumption DEF Sendable
  <1> HIDE DEF slots
  <1>2. NoRing = [slots |-> slots, write |-> 0, read |-> 0, completed |-> 0,
                  app |-> "none", appAsleep |-> FALSE, next |-> Sentinel,
                  thread |-> "ended", tmp |-> Sentinel, sent |-> <<>>]
    BY DEF NoRing, slots
  <1>3. NoRing \in RingState
    BY <1>1, <1>2 DEF RingState
  <1>4. Laid(slots, 0, 0, <<>>) /\ Closing("none", "ended", <<>>)
    BY <1>1 DEF Laid, Closing
  <1> QED  BY <1>2, <1>3, <1>4 DEF RingInit, RingIInv, RingOK

\* A new ring, with a consumer for it.
LEMMA OpenIInv == RingOpen => RingIInv'
  <1> SUFFICES ASSUME RingOpen PROVE RingIInv'
    OBVIOUS
  <1> DEFINE slots == [i \in 0 .. RingSize - 1 |-> 0]
  <1>1. slots \in [0 .. RingSize - 1 -> Nat] /\ <<>> \in Seq(Sendings) /\ Sentinel \in Sendable
        /\ RingSize \in Nat
    BY RingAssumption DEF Sendable
  <1> HIDE DEF slots
  <1>2. ring' = [slots |-> slots, write |-> 0, read |-> 0, completed |-> 0,
                 app |-> "idle", appAsleep |-> FALSE, next |-> Sentinel,
                 thread |-> "wait", tmp |-> Sentinel, sent |-> <<>>]
    BY DEF RingOpen, NoRing, slots
  <1>3. ring' \in RingState
    BY <1>1, <1>2 DEF RingState
  <1>4. Laid(slots, 0, 0, <<>>) /\ Closing("idle", "wait", <<>>)
    BY <1>1 DEF Laid, Closing
  <1> QED  BY <1>2, <1>3, <1>4 DEF RingIInv, RingOK

\* The steps that write and read nothing.
QuietStep ==
    \/ CallEnqueue
    \/ CallDrain
    \/ CallTeardown
    \/ Drain
    \/ Enqueue /\ ~HasSpace
    \/ Await /\ ~HasCommand
    \/ Timeout
    \/ MetaIdle
    \/ Complete
    \/ RingSpurious

LEMMA QuietKeeps ==
    ASSUME ring \in RingState, QuietStep
    PROVE  /\ ring' \in RingState
           /\ ring'.slots = ring.slots /\ ring'.read = ring.read /\ ring'.write = ring.write
           /\ ring'.sent = ring.sent /\ ring'.tmp = ring.tmp
           /\ ring'.completed \in {ring.completed, ring.read}
           /\ ring'.app = "join" <=> ring.app = "join"
           /\ ring'.app = "none" <=> ring.app = "none"
           /\ ring'.thread = "ended" <=> ring.thread = "ended"
           /\ ring'.thread = "process" => ring.thread = "process" /\ ring'.completed = ring.completed
           /\ ring.app = "drain" /\ ring'.app = "idle" => ring.write = ring.completed
  <1>1. CASE CallEnqueue
    <2>1. PICK c \in RingCommands : ring' = [ring EXCEPT !.app = "enqueue", !.next = c]
      BY <1>1 DEF CallEnqueue
    <2>2. c \in Sendable
      BY DEF Sendable
    <2> QED  BY <1>1, <2>1, <2>2 DEF CallEnqueue, RingState, AppWaits
  <1>2. CASE CallDrain
    BY <1>2 DEF CallDrain, RingState, AppWaits
  <1>3. CASE CallTeardown
    <2>1. Sentinel \in Sendable
      BY DEF Sendable
    <2> QED  BY <1>3, <2>1 DEF CallTeardown, RingState, AppWaits
  <1>4. CASE Drain
    BY <1>4 DEF Drain, Drained, AppSleeps, RingState, AppWaits
  <1>5. CASE Enqueue /\ ~HasSpace
    BY <1>5 DEF Enqueue, AppSleeps, RingState, AppWaits
  <1>6. CASE Await /\ ~HasCommand
    BY <1>6 DEF Await, RingState, AppWaits
  <1>7. CASE Timeout
    BY <1>7 DEF Timeout, RingState, AppWaits
  <1>8. CASE MetaIdle
    BY <1>8 DEF MetaIdle, RingState, AppWaits
  <1>9. CASE Complete
    BY <1>9 DEF Complete, RingState, AppWaits
  <1>10. CASE RingSpurious
    BY <1>10 DEF RingSpurious, RingState, AppWaits
  <1> QED  BY <1>1, <1>2, <1>3, <1>4, <1>5, <1>6, <1>7, <1>8, <1>9, <1>10 DEF QuietStep

LEMMA QuietIInv == RingIInv /\ QuietStep => RingIInv'
  <1> SUFFICES ASSUME RingIInv, QuietStep PROVE RingIInv'
    OBVIOUS
  <1>1. /\ ring \in RingState
        /\ Laid(ring.slots, ring.read, ring.write, ring.sent)
        /\ Closing(ring.app, ring.thread, ring.sent)
        /\ ring.completed <= ring.read
        /\ ring.thread = "process" => ring.completed < ring.read
        /\ ring.completed \in Nat /\ ring.read \in Nat
    BY DEF RingIInv, RingOK, RingState
  <1>2. Laid(ring'.slots, ring'.read, ring'.write, ring'.sent)
    BY <1>1, QuietKeeps
  <1>3. Closing(ring'.app, ring'.thread, ring'.sent)
    <2>1. /\ ring'.sent = ring.sent
          /\ ring'.app = "join" <=> ring.app = "join"
          /\ ring'.app = "none" <=> ring.app = "none"
          /\ ring'.thread = "ended" <=> ring.thread = "ended"
      BY <1>1, QuietKeeps
    <2> QED  BY <1>1, <2>1 DEF Closing
  <1>4. /\ ring' \in RingState /\ ring'.completed <= ring'.read
        /\ ring'.thread = "process" => ring'.completed < ring'.read
    BY <1>1, QuietKeeps
  <1> QED  BY <1>2, <1>3, <1>4 DEF RingIInv, RingOK

LEMMA SendIInv ==
    ASSUME RingIInv, Enqueue, HasSpace
    PROVE  RingIInv'
  <1> DEFINE c      == ring.next
             s      == [at |-> ring.write, cmd |-> c]
             slots  == Written(c)
             sent   == Append(ring.sent, s)
             app    == IF c = Sentinel THEN "join" ELSE "idle"
             thread == Woken
  <1>1. /\ ring \in RingState /\ ring.app = "enqueue" /\ ring.write \in Nat /\ ring.read \in Nat
        /\ ring.sent \in Seq(Sendings) /\ c \in Sendable /\ ring.completed \in Nat
        /\ ring.thread \in {"wait", "asleep", "process", "meta", "ended"}
    BY DEF RingIInv, RingOK, RingState, Enqueue
  <1>2. /\ Laid(ring.slots, ring.read, ring.write, ring.sent)
        /\ Closing(ring.app, ring.thread, ring.sent)
        /\ ring.completed <= ring.read
        /\ ring.thread = "process" => ring.completed < ring.read
    BY DEF RingIInv, RingOK
  <1>3. Len(c) \in Nat /\ RingSize \in Nat /\ ring.write + Len(c) + 1 <= ring.read + RingSize
        /\ ring.read <= ring.write
    BY <1>1, <1>2, SendableType, RingAssumption DEF HasSpace, Laid
  <1>4. s \in Sendings /\ s.at = ring.write /\ End(s) = ring.write + Len(c) + 1 /\ s.cmd = c
    BY <1>1 DEF Sendings, End
  <1>5. Len(c) + 1 <= RingSize
    BY <1>1, <1>3
  <1>6. /\ slots \in [0 .. RingSize - 1 -> Nat] /\ Holds(slots, s)
        /\ \A n \in Nat : n < ring.write /\ ring.write + Len(c) + 1 <= n + RingSize
               => slots[n % RingSize] = ring.slots[n % RingSize]
    BY <1>1, <1>5, WrittenHolds
  <1>7. /\ sent \in Seq(Sendings) /\ sent # <<>> /\ Len(sent) = Len(ring.sent) + 1
        /\ \A i \in 1 .. Len(ring.sent) : sent[i] = ring.sent[i]
        /\ sent[Len(ring.sent) + 1] = s
    BY <1>1, <1>4, AppendProperties
  <1>8. ring' = [ring EXCEPT !.slots = slots, !.write = End(s), !.sent = sent,
                             !.thread = thread, !.app = app]
    BY <1>1, <1>4 DEF Enqueue
  <1>9. app \in {"idle", "join"} /\ (app = "join" <=> c = Sentinel)
    OBVIOUS
  <1>10. /\ thread \in {"wait", "asleep", "process", "meta", "ended"}
         /\ thread = "process" <=> ring.thread = "process"
         /\ thread = "ended" <=> ring.thread = "ended"
    BY <1>1 DEF Woken
  <1>11. End(s) \in Nat
    BY <1>1, <1>3, <1>4
  <1> HIDE DEF s, slots, sent, app, thread
  <1>12. Laid(slots, ring.read, End(s), sent)
    <2>1. End(s) <= ring.read + RingSize
      BY <1>3, <1>4
    <2>2. \A n \in Nat : n < ring.write /\ End(s) <= n + RingSize
              => slots[n % RingSize] = ring.slots[n % RingSize]
      BY <1>4, <1>6
    <2> HIDE DEF c
    <2> QED  BY <1>1, <1>2, <1>4, <1>6, <2>1, <2>2, LaidBehind DEF sent
  <1>13. Closing(app, thread, sent)
    <2>1. ring.thread # "ended" /\ \A i \in 1 .. Len(ring.sent) : ring.sent[i].cmd # Sentinel
      BY <1>1, <1>2 DEF Closing
    <2>2. \A i \in 1 .. Len(sent) : sent[i].cmd = Sentinel => i = Len(sent) /\ app = "join"
      <3> SUFFICES ASSUME NEW i \in 1 .. Len(sent), sent[i].cmd = Sentinel
                   PROVE  i = Len(sent) /\ app = "join"
        OBVIOUS
      <3>1. Len(ring.sent) \in Nat
        BY <1>1
      <3>2. i \notin 1 .. Len(ring.sent)
        BY <1>7, <2>1
      <3>3. i = Len(ring.sent) + 1
        BY <1>7, <3>1, <3>2
      <3> QED  BY <1>4, <1>7, <1>9, <3>3
    <2>3. sent[Len(sent)].cmd = c
      BY <1>4, <1>7
    <2>4. app # "none" /\ thread # "ended"
      BY <1>9, <1>10, <2>1
    <2> QED  BY <1>7, <1>9, <2>2, <2>3, <2>4 DEF Closing
  <1>14. /\ ring' \in RingState
         /\ ring'.slots = slots /\ ring'.write = End(s) /\ ring'.read = ring.read
         /\ ring'.sent = sent /\ ring'.app = app /\ ring'.thread = thread
         /\ ring'.completed = ring.completed
    <2>1. slots \in [0 .. RingSize - 1 -> Nat] /\ sent \in Seq(Sendings)
      BY <1>6, <1>7
    <2>2. app \in {"none", "idle"} \cup AppWaits
      BY <1>9 DEF AppWaits
    <2> QED  BY <1>1, <1>8, <1>10, <1>11, <2>1, <2>2 DEF RingState
  <1> QED  BY <1>2, <1>10, <1>12, <1>13, <1>14 DEF RingIInv, RingOK

\* What becomes of the consumer when it has read a command.
LEMMA TakeIInv ==
    ASSUME RingIInv, Await, HasCommand
    PROVE  RingIInv'
  <1> DEFINE c      == ring.sent[1].cmd
             from   == End(ring.sent[1])
             rest   == Tail(ring.sent)
             thread == IF Header = 0 THEN "ended" ELSE "process"
  <1>1. /\ ring \in RingState /\ ring.thread = "wait" /\ ring.write \in Nat /\ ring.read \in Nat
        /\ ring.sent \in Seq(Sendings) /\ ring.completed \in Nat
        /\ ring.slots \in [0 .. RingSize - 1 -> Nat]
    BY DEF RingIInv, RingOK, RingState, Await
  <1>2. /\ Laid(ring.slots, ring.read, ring.write, ring.sent)
        /\ Closing(ring.app, ring.thread, ring.sent)
        /\ ring.completed <= ring.read
    BY DEF RingIInv, RingOK
  <1>3. /\ ring.sent # <<>> /\ 1 \in 1 .. Len(ring.sent) /\ c \in Sendable
        /\ Header = Len(c) /\ Fetched = c /\ ring.read + Header + 1 = from
    BY FetchedFirst
  <1>4. Len(c) \in Nat /\ (Len(c) = 0 <=> c = Sentinel)
    BY <1>3, SendableType
  <1>5. from \in Nat /\ ring.read < from
    BY <1>1, <1>3, <1>4
  <1>6. /\ rest \in Seq(Sendings) /\ Len(rest) = Len(ring.sent) - 1
        /\ \A i \in 1 .. Len(rest) : rest[i] = ring.sent[i + 1]
    BY <1>1, <1>3, HeadTailProperties
  <1>7. ring' = [ring EXCEPT !.tmp = c, !.sent = rest, !.read = from, !.thread = thread]
    BY <1>1, <1>3 DEF Await, Take
  <1>8. thread \in {"ended", "process"} /\ (thread = "ended" <=> c = Sentinel)
    BY <1>3, <1>4
  <1>9. Laid(ring.slots, from, ring.write, rest)
    BY <1>1, <1>2, <1>3, LaidAfter
  <1> HIDE DEF c, from, rest, thread
  <1>10. Closing(ring.app, thread, rest)
    <2>1. /\ \A i \in 1 .. Len(ring.sent) :
                ring.sent[i].cmd = Sentinel => i = Len(ring.sent) /\ ring.app = "join"
          /\ ring.app = "join" => ring.sent[Len(ring.sent)].cmd = Sentinel
          /\ ring.app # "none"
      BY <1>1, <1>2 DEF Closing
    <2>2. Len(ring.sent) \in Nat /\ Len(ring.sent) >= 1
      BY <1>1, <1>3
    <2>3. \A i \in 1 .. Len(rest) : rest[i].cmd = Sentinel => i = Len(rest) /\ ring.app = "join"
      <3> SUFFICES ASSUME NEW i \in 1 .. Len(rest), rest[i].cmd = Sentinel
                   PROVE  i = Len(rest) /\ ring.app = "join"
        OBVIOUS
      <3>1. i + 1 \in 1 .. Len(ring.sent) /\ rest[i] = ring.sent[i + 1] /\ i \in Nat
        BY <1>6, <2>2
      <3>2. i + 1 = Len(ring.sent) /\ ring.app = "join"
        BY <2>1, <3>1
      <3> QED  BY <1>6, <2>2, <3>1, <3>2
    <2>4. thread = "ended" => Len(ring.sent) = 1 /\ ring.app = "join"
      BY <1>3, <1>8, <2>1 DEF c
    <2>5. thread = "ended" => rest = <<>>
      BY <1>6, <2>4
    <2>6. ASSUME ring.app = "join", thread # "ended"
          PROVE  rest # <<>> /\ rest[Len(rest)].cmd = Sentinel
      <3>1. Len(ring.sent) # 1
        BY <1>8, <2>1, <2>6 DEF c
      <3>2. Len(rest) \in Nat /\ Len(rest) >= 1 /\ Len(rest) + 1 = Len(ring.sent)
        <4> DEFINE m == Len(ring.sent)
                   k == Len(rest)
        <4>1. m \in Nat /\ m >= 1 /\ m # 1 /\ k = m - 1
          BY <1>6, <2>2, <3>1
        <4> HIDE DEF m, k
        <4>2. k \in Nat /\ k >= 1 /\ k + 1 = m
          BY <4>1
        <4> QED  BY <4>2 DEF m, k
      <3>3. Len(rest) \in 1 .. Len(rest) /\ rest # <<>>
        BY <3>2
      <3>4. rest[Len(rest)] = ring.sent[Len(ring.sent)]
        BY <1>6, <3>2, <3>3
      <3> QED  BY <2>1, <2>6, <3>3, <3>4
    <2> QED  BY <2>1, <2>3, <2>4, <2>5, <2>6 DEF Closing
  <1>11. /\ ring' \in RingState
         /\ ring'.slots = ring.slots /\ ring'.write = ring.write /\ ring'.read = from
         /\ ring'.sent = rest /\ ring'.app = ring.app /\ ring'.thread = thread
         /\ ring'.completed = ring.completed
    BY <1>1, <1>3, <1>5, <1>6, <1>7, <1>8 DEF RingState
  <1>12. ring.completed < from
    BY <1>1, <1>2, <1>5
  <1> QED  BY <1>1, <1>5, <1>9, <1>10, <1>11, <1>12 DEF RingIInv, RingOK

LEMMA RingStepIInv == RingIInv /\ [RingNext]_ring => RingIInv'
  <1> SUFFICES ASSUME RingIInv, [RingNext]_ring PROVE RingIInv'
    OBVIOUS
  <1>1. CASE RingOpen
    BY <1>1, OpenIInv
  <1>2. CASE JoinThread
    <2>1. RingInit'
      BY <1>2 DEF JoinThread, RingInit, NoRing
    <2>2. RingInit' => RingIInv'
      BY RingInitIInv, PTL
    <2> QED  BY <2>1, <2>2
  <1>3. CASE Enqueue /\ HasSpace
    BY <1>3, SendIInv
  <1>4. CASE Await /\ HasCommand
    BY <1>4, TakeIInv
  <1>5. CASE QuietStep
    BY <1>5, QuietIInv
  <1>6. CASE UNCHANGED ring
    BY <1>6 DEF RingIInv
  <1> QED  BY <1>1, <1>2, <1>3, <1>4, <1>5, <1>6
           DEF RingNext, AppStep, ThreadStep, QuietStep

LEMMA InFlightType ==
    ASSUME ring \in RingState
    PROVE  /\ Unread \in Seq(Sendable) /\ Len(Unread) = Len(ring.sent)
           /\ \A i \in 1 .. Len(ring.sent) : Unread[i] = ring.sent[i].cmd
           /\ InHands \in Seq(Sendable)
           /\ ring.thread = "process" => InHands = <<ring.tmp>> /\ Len(InHands) = 1
           /\ ring.thread # "process" => InHands = <<>> /\ Len(InHands) = 0
           /\ ring.tmp \in Sendable
  <1>1. ring.sent \in Seq(Sendings) /\ Len(ring.sent) \in Nat /\ ring.tmp \in Sendable
    BY DEF RingState
  <1>2. \A i \in 1 .. Len(ring.sent) : ring.sent[i].cmd \in Sendable
    BY <1>1, SendingType
  <1>3. /\ Unread \in Seq(Sendable) /\ Len(Unread) = Len(ring.sent)
        /\ \A i \in 1 .. Len(ring.sent) : Unread[i] = ring.sent[i].cmd
    BY <1>1, <1>2 DEF Unread
  <1> QED  BY <1>1, <1>3 DEF InHands

LEMMA JoinedLength ==
    ASSUME NEW S, NEW s \in Seq(S), NEW t \in Seq(S)
    PROVE  s \o t \in Seq(S) /\ Len(s \o t) = Len(s) + Len(t)
  OBVIOUS

LEMMA JoinedAppend ==
    ASSUME NEW S, NEW s \in Seq(S), NEW t \in Seq(S), NEW x \in S
    PROVE  s \o Append(t, x) = Append(s \o t, x)
  OBVIOUS

LEMMA JoinedEmpty ==
    ASSUME NEW S, NEW s \in Seq(S)
    PROVE  <<>> \o s = s /\ s \o <<>> = s
  OBVIOUS

LEMMA JoinedFirst ==
    ASSUME NEW S, NEW x \in S, NEW s \in Seq(S)
    PROVE  <<x>> \o s # <<>> /\ Tail(<<x>> \o s) = s
  <1> DEFINE all == <<x>> \o s
  <1>1. all \in Seq(S) /\ Len(all) = 1 + Len(s)
        /\ \A i \in 1 .. Len(s) : all[i + 1] = s[i]
    OBVIOUS
  <1> HIDE DEF all
  <1>2. all # <<>> /\ Tail(all) \in Seq(S) /\ Len(Tail(all)) = Len(s)
        /\ \A i \in 1 .. Len(s) : Tail(all)[i] = s[i]
    BY <1>1
  <1>3. Tail(all) = s
    BY <1>2
  <1> QED  BY <1>2, <1>3 DEF all

LEMMA SplitFirst ==
    ASSUME NEW S, NEW s \in Seq(S), s # <<>>
    PROVE  s[1] \in S /\ s = <<s[1]>> \o Tail(s)
  OBVIOUS

\* A command accepted goes to the end of the pipe, and there is room for it.
LEMMA SendPipe ==
    ASSUME RingIInv, Enqueue, HasSpace
    PROVE  /\ Len(InHands \o Unread) < RingSize + 1
           /\ ring.next \in Sendable
           /\ (InHands \o Unread)' = Append(InHands \o Unread, ring.next)
  <1> DEFINE s == [at |-> ring.write, cmd |-> ring.next]
  <1>1. ring \in RingState /\ RingIInv'
    BY SendIInv DEF RingIInv, RingOK
  <1>2. ring' \in RingState
    BY <1>1 DEF RingIInv, RingOK
  <1>3. /\ ring.next \in Sendable /\ ring.write \in Nat /\ ring.read \in Nat
        /\ ring.sent \in Seq(Sendings) /\ Len(ring.sent) \in Nat
        /\ ring.thread \in {"wait", "asleep", "process", "meta", "ended"}
    BY <1>1 DEF RingState
  <1>4. s \in Sendings /\ s.cmd = ring.next
    BY <1>3 DEF Sendings
  <1>5. ring'.sent = Append(ring.sent, s) /\ ring'.tmp = ring.tmp /\ ring'.thread = Woken
    BY <1>1 DEF Enqueue, RingState
  <1> HIDE DEF s
  <1>6. Unread' = Append(Unread, ring.next)
    <2>1. /\ Unread' = [i \in 1 .. Len(ring.sent) + 1 |-> ring'.sent[i].cmd]
          /\ \A i \in 1 .. Len(ring.sent) : ring'.sent[i].cmd = ring.sent[i].cmd
          /\ ring'.sent[Len(ring.sent) + 1].cmd = ring.next
      BY <1>3, <1>4, <1>5, AppendProperties DEF Unread
    <2>2. Unread \in Seq(Sendable) /\ Len(Unread) = Len(ring.sent)
          /\ \A i \in 1 .. Len(ring.sent) : Unread[i] = ring.sent[i].cmd
      BY <1>1, InFlightType
    <2> QED  BY <1>3, <2>1, <2>2
  <1>7. InHands' = InHands
    BY <1>3, <1>5 DEF InHands, Woken
  <1>8. (InHands \o Unread)' = Append(InHands \o Unread, ring.next)
    <2>1. InHands \in Seq(Sendable) /\ Unread \in Seq(Sendable)
      BY <1>1, InFlightType
    <2>2. InHands \o Append(Unread, ring.next) = Append(InHands \o Unread, ring.next)
      BY <1>3, <2>1, JoinedAppend
    <2> QED  BY <1>6, <1>7, <2>2
  <1>9. Len(InHands \o Unread) < RingSize + 1
    <2>1. Len(ring.next) \in Nat /\ RingSize \in Nat
          /\ ring.write + Len(ring.next) + 1 <= ring.read + RingSize
      BY <1>3, SendableType, RingAssumption DEF HasSpace
    <2>2. Laid(ring.slots, ring.read, ring.write, ring.sent)
      BY DEF RingIInv, RingOK
    <2>3. Len(ring.sent) <= ring.write - ring.read
      <3>1. CASE Len(ring.sent) = 0
        BY <1>3, <2>2, <3>1 DEF Laid
      <3>2. CASE Len(ring.sent) > 0
        <4>1. 1 \in 1 .. Len(ring.sent) /\ ring.sent # <<>>
          BY <1>3, <3>2
        <4>2. ring.sent[1].at = ring.read
              /\ Len(ring.sent) - 1 + 1 <= ring.write - ring.sent[1].at
          BY <2>2, <4>1 DEF Laid
        <4> QED  BY <1>3, <4>2
      <3> QED  BY <1>3, <3>1, <3>2
    <2>4. /\ InHands \in Seq(Sendable) /\ Unread \in Seq(Sendable)
          /\ Len(Unread) = Len(ring.sent) /\ (Len(InHands) = 0 \/ Len(InHands) = 1)
      BY <1>1, InFlightType
    <2>5. Len(InHands \o Unread) = Len(InHands) + Len(ring.sent)
      BY <2>4, JoinedLength
    <2> DEFINE inHands == Len(InHands)
               unread  == Len(ring.sent)
               words   == Len(ring.next)
    <2>6. /\ inHands \in 0 .. 1 /\ unread \in Nat /\ words \in Nat /\ RingSize \in Nat
          /\ unread <= ring.write - ring.read
          /\ ring.write + words + 1 <= ring.read + RingSize
      BY <1>3, <2>1, <2>3, <2>4
    <2> HIDE DEF inHands, unread, words
    <2>7. inHands + unread < RingSize + 1
      BY <1>3, <2>6
    <2> QED  BY <2>5, <2>7 DEF inHands, unread
  <1> QED  BY <1>3, <1>8, <1>9

\* What the consumer reads stays in the pipe, but for the sentinel.
LEMMA TakePipe ==
    ASSUME RingIInv, Await, HasCommand
    PROVE  \/ (InHands \o Unread)' = InHands \o Unread
           \/ /\ InHands \o Unread # <<>>
              /\ (InHands \o Unread)' = Tail(InHands \o Unread)
  <1> DEFINE c    == ring.sent[1].cmd
             rest == Tail(ring.sent)
             cmds == Tail(Unread)
  <1>1. /\ ring \in RingState /\ ring.thread = "wait" /\ ring.sent \in Seq(Sendings)
    BY DEF RingIInv, RingOK, RingState, Await
  <1>2. /\ ring.sent # <<>> /\ 1 \in 1 .. Len(ring.sent) /\ c \in Sendable
        /\ Header = Len(c) /\ Fetched = c
    BY FetchedFirst
  <1>3. /\ ring'.tmp = c /\ ring'.sent = rest
        /\ ring'.thread = IF Header = 0 THEN "ended" ELSE "process"
    BY <1>1, <1>2 DEF Await, Take, RingState
  <1>4. /\ rest \in Seq(Sendings) /\ Len(rest) = Len(ring.sent) - 1
        /\ \A i \in 1 .. Len(rest) : rest[i] = ring.sent[i + 1]
    BY <1>1, <1>2, HeadTailProperties
  <1>5. /\ Unread \in Seq(Sendable) /\ Len(Unread) = Len(ring.sent)
        /\ \A i \in 1 .. Len(ring.sent) : Unread[i] = ring.sent[i].cmd
        /\ InHands = <<>>
    BY <1>1, InFlightType
  <1>6. Unread # <<>> /\ Len(ring.sent) \in Nat /\ Len(ring.sent) >= 1
    BY <1>1, <1>2, <1>5
  <1>7. /\ cmds \in Seq(Sendable) /\ Len(cmds) = Len(ring.sent) - 1
        /\ \A i \in 1 .. Len(cmds) : cmds[i] = Unread[i + 1]
    BY <1>5, <1>6, HeadTailProperties
  <1> HIDE DEF c, rest, cmds
  <1>8. Unread' = cmds
    <2>1. Unread' = [i \in 1 .. Len(rest) |-> rest[i].cmd]
      BY <1>3 DEF Unread
    <2>2. \A i \in 1 .. Len(rest) : rest[i].cmd = cmds[i]
      <3> SUFFICES ASSUME NEW i \in 1 .. Len(rest) PROVE rest[i].cmd = cmds[i]
        OBVIOUS
      <3>1. i + 1 \in 1 .. Len(ring.sent) /\ i \in 1 .. Len(cmds)
        BY <1>4, <1>6, <1>7
      <3> QED  BY <1>4, <1>5, <1>7, <3>1
    <2>3. cmds = [i \in 1 .. Len(cmds) |-> cmds[i]]
      BY <1>7
    <2> QED  BY <1>4, <1>7, <2>1, <2>2, <2>3
  <1>9. InHands \o Unread = Unread
    BY <1>5, JoinedEmpty
  <1>10. CASE Header = 0
    <2>1. InHands' = <<>>
      BY <1>3, <1>10 DEF InHands
    <2>2. (InHands \o Unread)' = cmds
      BY <1>7, <1>8, <2>1, JoinedEmpty
    <2> QED  BY <1>6, <1>9, <2>2 DEF cmds
  <1>11. CASE Header # 0
    <2>1. InHands' = <<c>>
      BY <1>3, <1>11 DEF InHands
    <2>2. Unread = <<c>> \o cmds
      BY <1>2, <1>5, <1>6, SplitFirst DEF c, cmds
    <2> QED  BY <1>8, <1>9, <2>1, <2>2
  <1> QED  BY <1>10, <1>11

LEMMA StepDuty == RingIInv /\ [RingNext]_ring => [Duty!Next]_(InHands \o Unread)
  <1> SUFFICES ASSUME RingIInv, [RingNext]_ring
               PROVE  [Duty!Next]_(InHands \o Unread)
    OBVIOUS
  <1> DEFINE pipe == InHands \o Unread
  <1>1. /\ ring \in RingState /\ ring.sent \in Seq(Sendings)
        /\ Closing(ring.app, ring.thread, ring.sent)
    BY DEF RingIInv, RingOK, RingState
  <1>2. ring.thread = "ended" => pipe = <<>>
    <2>1. ring.thread = "ended" => ring.sent = <<>>
      BY <1>1 DEF Closing
    <2> QED  BY <2>1 DEF InHands, Unread
  <1>3. CASE RingOpen
    <2>1. ring.thread = "ended"
      BY <1>1, <1>3 DEF Closing, RingOpen
    <2>2. pipe' = <<>>
      BY <1>3 DEF RingOpen, NoRing, InHands, Unread
    <2> QED  BY <1>2, <2>1, <2>2
  <1>4. CASE JoinThread
    <2>1. pipe' = <<>>
      BY <1>4 DEF JoinThread, NoRing, InHands, Unread
    <2> QED  BY <1>2, <1>4, <2>1 DEF JoinThread
  <1>5. CASE Enqueue /\ HasSpace
    BY <1>5, SendPipe DEF Duty!Next, Duty!Accept
  <1>6. CASE Await /\ HasCommand
    BY <1>6, TakePipe DEF Duty!Next, Duty!Finish
  <1>7. CASE QuietStep
    <2>1. ring'.sent = ring.sent /\ ring'.tmp = ring.tmp
          /\ (ring'.thread = "process" => ring.thread = "process")
      BY <1>1, <1>7, QuietKeeps
    <2>2. Unread' = Unread
      BY <2>1 DEF Unread
    <2>3. CASE ring'.thread = "process" \/ ring.thread # "process"
      <3>1. InHands' = InHands
        BY <2>1, <2>3 DEF InHands
      <3> QED  BY <2>2, <3>1
    <2>4. CASE ring'.thread # "process" /\ ring.thread = "process"
      <3>1. InHands' = <<>> /\ InHands = <<ring.tmp>>
        BY <2>4 DEF InHands
      <3>2. Unread \in Seq(Sendable) /\ ring.tmp \in Sendable
        BY <1>1, InFlightType
      <3>3. pipe' = Unread
        BY <2>2, <3>1, <3>2, JoinedEmpty
      <3>4. pipe # <<>> /\ Tail(pipe) = Unread
        BY <3>1, <3>2, JoinedFirst
      <3> QED  BY <3>3, <3>4 DEF Duty!Next, Duty!Finish
    <2> QED  BY <2>3, <2>4
  <1>8. CASE UNCHANGED ring
    BY <1>8 DEF InHands, Unread
  <1> QED  BY <1>1, <1>3, <1>4, <1>5, <1>6, <1>7, <1>8
           DEF RingNext, AppStep, ThreadStep, QuietStep

LEMMA StepDrained == RingIInv /\ [RingNext]_ring => [DrainStep]_ring
  <1> SUFFICES ASSUME RingIInv, RingNext, ring.app = "drain", ring'.app = "idle"
               PROVE  InHands \o Unread = <<>>
    BY DEF DrainStep
  <1>1. /\ ring \in RingState /\ ring.sent \in Seq(Sendings)
        /\ Laid(ring.slots, ring.read, ring.write, ring.sent)
        /\ ring.completed <= ring.read
        /\ ring.thread = "process" => ring.completed < ring.read
        /\ ring.completed \in Nat /\ ring.read \in Nat /\ ring.write \in Nat
    BY DEF RingIInv, RingOK, RingState
  <1>2. ring.write = ring.completed
    <2>1. CASE QuietStep
      BY <1>1, <2>1, QuietKeeps
    <2>2. CASE ~QuietStep
      <3>1. Await /\ HasCommand
        BY <2>2 DEF RingNext, AppStep, ThreadStep, QuietStep, RingOpen, JoinThread, Enqueue
      <3> QED  BY <1>1, <3>1 DEF Await, Take, RingState
    <2> QED  BY <2>1, <2>2
  <1>3. ring.read = ring.write /\ ring.thread # "process"
    BY <1>1, <1>2 DEF Laid
  <1>4. ring.sent = <<>>
    <2> SUFFICES ASSUME ring.sent # <<>> PROVE FALSE
      OBVIOUS
    <2>1. 1 \in 1 .. Len(ring.sent) /\ Len(ring.sent) \in Nat
      BY <1>1
    <2>2. ring.sent[1].at = ring.read
          /\ Len(ring.sent) - 1 + 1 <= ring.write - ring.sent[1].at
      BY <1>1, <2>1 DEF Laid
    <2> QED  BY <1>1, <1>3, <2>1, <2>2
  <1> QED  BY <1>3, <1>4 DEF InHands, Unread

-----------------------------------------------------------------------------
LEMMA RingInvariant == RingSpec => []RingIInv
  BY RingInitIInv, RingStepIInv, PTL DEF RingSpec

\* The counters, the buffer and the words stay what they should be, in rings of every
\* size and for commands of every length.
THEOREM RingTypeCorrect == RingSpec => []RingTypeOK
  <1>1. RingIInv => RingTypeOK
    BY DEF RingIInv, RingOK, RingState, RingTypeOK
  <1> QED  BY <1>1, RingInvariant, PTL

\* What the emulation thread enqueues reaches the processor whole, one command at a time
\* and in order: a word is written only where no word of a command not yet read lies.
THEOREM RingIsPipe == RingSpec => RingPipe
  <1>1. RingInit => Duty!Init
    BY DEF RingInit, NoRing, InHands, Unread, Duty!Init
  <1> QED  BY <1>1, RingInvariant, StepDuty, PTL DEF RingSpec, RingPipe, Duty!Spec

\* When drain returns, no command is in the ring or in the consumer's hands.
THEOREM DrainLeavesNothing == RingSpec => DrainComplete
  BY RingInvariant, StepDrained, PTL DEF RingSpec, DrainComplete
=============================================================================

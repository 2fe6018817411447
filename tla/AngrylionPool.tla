---------------------------- MODULE AngrylionPool ----------------------------
(***************************************************************************)
(* The worker threads of the Angrylion renderer (parallel_al.cpp): the class  *)
(* Parallel, as its callers in n64video.c use it.  The emulation thread gives  *)
(* every worker the same task, runs worker 0's share itself, and returns when *)
(* all are done.  One bit per worker, m_tasks_done, is set without the mutex  *)
(* and cleared with it; two condition variables put workers and caller to     *)
(* sleep, and a thread may wake from either for no reason.                    *)
(*                                                                         *)
(* A team is the set of the threads spawned: worker 0 is not in it, and it is *)
(* empty when num_workers <= 1.                                             *)
(***************************************************************************)
EXTENDS Naturals

CONSTANT Teams       \* the teams an instance may have: sets of positive numbers

ASSUME TeamsAssumption == \A team \in Teams : \A i \in team : i \in Nat /\ i > 0

Workers == UNION Teams
Main    == 0         \* the calling thread, worker 0

VARIABLE pool
   \* .team      m_workers                      .job   the call Main is in
   \* .main, .w  where Main and each worker are
   \* .done      m_tasks_done                   .holder  of m_signal_mutex
   \* .accept    m_accept_work
   \* .ran       ghost: how often each ran the task at hand (2 stands for more)

PoolTypeOK ==
    /\ pool \in [team   : SUBSET Workers,
                 job    : {"construct", "run", "destroy"},
                 main   : {"none", "idle", "signal", "spawn", "own", "test", "lock",
                           "sleepy", "asleep", "woken", "join"},
                 w      : [Workers -> {"unborn", "loop", "work", "mark", "last", "notify",
                                       "look", "lock", "sleepy", "asleep", "woken", "ended"}],
                 done   : SUBSET Workers,
                 holder : SUBSET (Workers \cup {Main}),
                 accept : BOOLEAN,
                 ran    : [Workers \cup {Main} -> 0 .. 2]]
    /\ pool.done \subseteq pool.team

-----------------------------------------------------------------------------
PoolInit ==
    pool = [team   |-> {},
            job    |-> "destroy",
            main   |-> "none",
            w      |-> [i \in Workers |-> "unborn"],
            done   |-> {},
            holder |-> {},
            accept |-> FALSE,
            ran    |-> [i \in Workers \cup {Main} |-> 0]]

AllDone     == pool.done = pool.team
FreshTask   == [i \in Workers \cup {Main} |-> 0]
RanBy(i)    == [pool.ran EXCEPT ![i] = IF @ = 2 THEN 2 ELSE @ + 1]
Go(i, step) == pool' = [pool EXCEPT !.w[i] = step]
LockFree    == pool.holder = {}

\* Where a call is when wait() returns to it: the destructor closes the pool.
Waited(p) ==
    IF p.job = "destroy" THEN [p EXCEPT !.accept = FALSE, !.main = "signal"]
                         ELSE [p EXCEPT !.main = "idle"]

\* The calls n64video.c makes: parallel_alinit, parallel_run, parallel_close.
Construct ==
    /\ pool.main = "none"
    /\ \E team \in Teams :
           pool' = [pool EXCEPT !.team = team, !.job = "construct", !.main = "signal",
                                !.accept = TRUE, !.ran = FreshTask]

Run ==
    /\ pool.main = "idle"
    /\ pool.accept
    /\ pool' = IF pool.team = {}
                  THEN [pool EXCEPT !.job = "run", !.ran = [FreshTask EXCEPT ![Main] = 1]]
                  ELSE [pool EXCEPT !.job = "run", !.ran = FreshTask, !.main = "signal"]

Destroy ==
    /\ pool.main = "idle"
    /\ pool' = [pool EXCEPT !.job = "destroy", !.main = "test"]

\* start_work clears every bit and wakes every sleeper of m_signal_work.
StartWork ==
    /\ pool.main = "signal"
    /\ LockFree
    /\ pool' = [pool EXCEPT
          !.done = {},
          !.w    = [i \in Workers |-> IF @[i] = "asleep" THEN "woken" ELSE @[i]],
          !.main = CASE pool.job = "construct" -> "spawn"
                     [] pool.job = "run"       -> "own"
                     [] pool.job = "destroy"   -> "join"]

\* The constructor's loop: threads start one by one, in order.
Spawn ==
    LET unborn == {i \in pool.team : pool.w[i] = "unborn"}
    IN  /\ pool.main = "spawn"
        /\ \/ \E i \in unborn :
                  /\ \A j \in unborn : i <= j
                  /\ Go(i, "loop")
           \/ /\ unborn = {}
              /\ pool' = [pool EXCEPT !.main = "test"]

OwnTask ==
    /\ pool.main = "own"
    /\ pool' = [pool EXCEPT !.ran = RanBy(Main), !.main = "test"]

\* wait: the fast path without the lock, the predicate under it, then sleep.
TestDone ==
    /\ pool.main = "test"
    /\ pool' = IF AllDone THEN Waited(pool) ELSE [pool EXCEPT !.main = "lock"]

CheckDone ==
    /\ pool.main \in {"lock", "woken"}
    /\ LockFree
    /\ pool' = IF AllDone THEN Waited(pool)
                          ELSE [pool EXCEPT !.main = "sleepy", !.holder = {Main}]

SleepDone ==
    /\ pool.main = "sleepy"
    /\ pool' = [pool EXCEPT !.main = "asleep", !.holder = {}]

Join ==
    /\ pool.main = "join"
    /\ \A i \in pool.team : pool.w[i] = "ended"
    /\ pool' = [pool EXCEPT !.main = "none", !.team = {}, !.done = {},
                            !.w = [i \in Workers |-> "unborn"]]

MainStep ==
    \/ StartWork
    \/ Spawn
    \/ OwnTask
    \/ TestDone
    \/ CheckDone
    \/ SleepDone
    \/ Join

-----------------------------------------------------------------------------
(* do_work, for worker i.                                                   *)

Enter(i) ==
    /\ pool.w[i] = "loop"
    /\ Go(i, IF pool.accept THEN "work" ELSE "ended")

Work(i) ==
    /\ pool.w[i] = "work"
    /\ pool' = [pool EXCEPT !.w[i] = "mark", !.ran = RanBy(i)]

\* The fetch_or; only the worker that completes the set tells Main.
Mark(i) ==
    /\ pool.w[i] = "mark"
    /\ pool' = [pool EXCEPT !.done = @ \cup {i},
                            !.w[i] = IF pool.done \cup {i} = pool.team THEN "last" ELSE "look"]

\* Fault: the lock before the notification is left out.
NoEmptyLock(i) ==
    /\ pool.w[i] = "last"
    /\ Go(i, "notify")

\* The mutex taken and given back, so that Main is not between check and sleep.
EmptyLock(i) ==
    /\ pool.w[i] = "last"
    /\ LockFree
    /\ Go(i, "notify")

NotifyDone(i) ==
    /\ pool.w[i] = "notify"
    /\ pool' = [pool EXCEPT !.w[i] = "look", !.main = IF @ = "asleep" THEN "woken" ELSE @]

\* The load of the bit: cleared already when the next task has started.
Look(i) ==
    /\ pool.w[i] = "look"
    /\ Go(i, IF i \in pool.done THEN "lock" ELSE "loop")

\* Fault: a waker that does not look at its bit again.
WakeUnasked(i) ==
    /\ pool.w[i] \in {"lock", "woken"}
    /\ LockFree
    /\ pool' = IF pool.w[i] = "lock" /\ i \in pool.done
                  THEN [pool EXCEPT !.w[i] = "sleepy", !.holder = {i}]
                  ELSE [pool EXCEPT !.w[i] = "loop"]

CheckWork(i) ==
    /\ pool.w[i] \in {"lock", "woken"}
    /\ LockFree
    /\ pool' = IF i \in pool.done THEN [pool EXCEPT !.w[i] = "sleepy", !.holder = {i}]
                                  ELSE [pool EXCEPT !.w[i] = "loop"]

SleepWork(i) ==
    /\ pool.w[i] = "sleepy"
    /\ pool' = [pool EXCEPT !.w[i] = "asleep", !.holder = {}]

WorkerStep(i) ==
    \/ Enter(i)
    \/ Work(i)
    \/ Mark(i)
    \/ EmptyLock(i)
    \/ NotifyDone(i)
    \/ Look(i)
    \/ CheckWork(i)
    \/ SleepWork(i)

\* A condition variable may return without having been notified.
SpuriousWake ==
    \/ /\ pool.main = "asleep"
       /\ pool' = [pool EXCEPT !.main = "woken"]
    \/ \E i \in Workers :
           /\ pool.w[i] = "asleep"
           /\ Go(i, "woken")

PoolNext ==
    \/ Construct
    \/ Run
    \/ Destroy
    \/ MainStep
    \/ \E i \in Workers : WorkerStep(i)
    \/ SpuriousWake

PoolSpec == PoolInit /\ [][PoolNext]_pool

-----------------------------------------------------------------------------
\* When a call of the pool has returned, every worker ran the task it was given
\* exactly once, none is still inside it, and Main ran its own share: the
\* buffers a task reads may be reused (n64video.c resets its buffer at once).
RunComplete ==
    pool.main = "idle" =>
        /\ \A i \in pool.team : pool.ran[i] = 1 /\ pool.w[i] \notin {"loop", "work"}
        /\ pool.job = "run" => pool.ran[Main] = 1

\* A call of the pool returns, the destructor's join included: no wake-up is
\* lost between a check and the sleep that follows it.
PoolBusy    == pool.main \notin {"none", "idle"}
PoolReturns == PoolBusy ~> ~PoolBusy
=============================================================================

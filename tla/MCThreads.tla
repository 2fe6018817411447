------------------------------ MODULE MCThreads ------------------------------
(***************************************************************************)
(* The threads of the two software-RDP plugins, each by itself: the worker    *)
(* pool and the list reader of Angrylion, the command ring of parallel-RDP.   *)
(* A session has one graphics plugin, so that no step of one is interleaved   *)
(* with a step of another; .unit says which of them a behaviour is about.     *)
(***************************************************************************)
EXTENDS AngrylionPool, AngrylionList, CommandRing

VARIABLE unit
mc == <<unit, pool, list, ring>>

MCTeams        == {{}, {1}, {1, 2, 3}}
MCRingCommands == {<<1>>, <<2, 1>>}
MCCommands     ==
    {[id |-> "draw", len |-> 3, image |-> <<0, 0>>],
     [id |-> "color", len |-> 1, image |-> <<0, 2>>],
     [id |-> "color", len |-> 1, image |-> <<1, 1>>],
     [id |-> "mask", len |-> 1, image |-> <<2, 1>>],
     [id |-> "texture", len |-> 1, image |-> <<0, 0>>],
     [id |-> "sync_full", len |-> 1, image |-> <<0, 0>>]}

PoolOnly == unit = "pool" /\ UNCHANGED <<unit, list, ring>>
ListOnly == unit = "list" /\ UNCHANGED <<unit, pool, ring>>
RingOnly == unit = "ring" /\ UNCHANGED <<unit, pool, list>>

Init ==
    /\ unit \in {"pool", "list", "ring"}
    /\ PoolInit
    /\ ListInit
    /\ RingInit

Next ==
    \/ PoolOnly /\ PoolNext
    \/ ListOnly /\ ListNext
    \/ RingOnly /\ RingNext

\* A thread that can run does, and gets a mutex that is free for it again and again.
Fairness ==
    /\ SF_mc(PoolOnly /\ MainStep)
    /\ \A i \in Workers : SF_mc(PoolOnly /\ WorkerStep(i))
    /\ WF_mc(RingOnly /\ AppStep)
    /\ WF_mc(RingOnly /\ ThreadStep)

FairSpec == Init /\ [][Next]_mc /\ Fairness

TypeOK == PoolTypeOK /\ ListTypeOK /\ RingTypeOK
=============================================================================

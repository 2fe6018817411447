----------------------------- MODULE CommandRing -----------------------------
(***************************************************************************)
(* The command queue of parallel-RDP (command_ring.cpp): the emulation thread *)
(* writes commands, a count and that many words, into a ring of words, and a  *)
(* consumer thread hands them to the command processor.  One mutex guards     *)
(* everything and one condition variable serves all three waits, so that a    *)
(* critical section is one action here; between them, threads sleep until    *)
(* notified, or wake for no reason.  The consumer's wait also times out, and  *)
(* then tells the processor that no command came.                            *)
(*                                                                         *)
(* As rdp_device.cpp uses it: one thread enqueues and drains, and the ring    *)
(* lives as long as its command processor.                                   *)
(***************************************************************************)
EXTENDS Integers, Sequences

CONSTANTS RingSize,       \* words in the ring
          RingCommands,   \* the commands, sequences of at least one word
          RingWords       \* bound: words written in the life of a ring

ASSUME RingAssumption ==
    /\ RingSize \in Nat \ {0}
    /\ \A c \in RingCommands : c \in Seq(Nat) /\ c # <<>>

VARIABLE ring
   \* .slots      the ring                       .write, .read, .completed  its counters
   \* .app        what the emulation thread is in: "none" when there is no ring
   \* .appAsleep  whether it sleeps in there     .next   the command it enqueues
   \* .thread     the consumer                   .tmp    tmp_buffer
   \* .sent       ghost: [at, cmd], the commands written and not yet read, and where

Sentinel == <<>>       \* teardown_thread's command of no words
AppWaits == {"enqueue", "drain", "join"}

Sendable == RingCommands \cup {Sentinel}
Sendings == [at : Nat, cmd : Sendable]

RingTypeOK ==
    ring \in [slots : [0 .. RingSize - 1 -> Nat], write : Nat, read : Nat, completed : Nat,
             app : {"none", "idle"} \cup AppWaits, appAsleep : BOOLEAN, next : Sendable,
             thread : {"wait", "asleep", "process", "meta", "ended"}, tmp : Sendable,
             sent : Seq(Sendings)]

NoRing ==
    [slots |-> [i \in 0 .. RingSize - 1 |-> 0], write |-> 0, read |-> 0, completed |-> 0,
     app |-> "none", appAsleep |-> FALSE, next |-> Sentinel,
     thread |-> "ended", tmp |-> Sentinel, sent |-> <<>>]

RingInit == ring = NoRing

Slot(n) == ring.slots[n % RingSize]

-----------------------------------------------------------------------------
(* The emulation thread.                                                    *)

\* init, in a new CommandProcessor.
RingOpen ==
    /\ ring.app = "none"
    /\ ring' = [NoRing EXCEPT !.app = "idle", !.thread = "wait"]

CallEnqueue ==
    /\ ring.app = "idle"
    /\ \E c \in RingCommands :
           /\ ring.write + Len(c) + 1 <= RingWords
           /\ ring' = [ring EXCEPT !.app = "enqueue", !.next = c]

CallDrain ==
    /\ ring.app = "idle"
    /\ ring' = [ring EXCEPT !.app = "drain"]

\* ~CommandProcessor drains before its ring is torn down.
CallTeardown ==
    /\ ring.app = "idle"
    /\ ring.write = ring.completed
    /\ ring' = [ring EXCEPT !.app = "enqueue", !.next = Sentinel]

AppSleeps == ring' = [ring EXCEPT !.appAsleep = TRUE]

\* The consumer sleeps on the same condition variable; notify_one finds it there.
Woken == IF ring.thread = "asleep" THEN "wait" ELSE ring.thread

\* Fault: the space test forgets the word that holds the count.
HasSpaceForWords == ring.write + Len(ring.next) <= ring.read + RingSize

HasSpace == ring.write + Len(ring.next) + 1 <= ring.read + RingSize

\* The ring with a command written at the write counter: its length, its words.
Written(c) ==
    LET at(i) == (ring.write + i) % RingSize
        words == <<Len(c)>> \o c
    IN  [s \in 0 .. RingSize - 1 |->
            IF \E i \in 0 .. Len(c) : at(i) = s
               THEN words[1 + (CHOOSE i \in 0 .. Len(c) : at(i) = s)]
               ELSE ring.slots[s]]

Enqueue ==
    /\ ring.app = "enqueue"
    /\ ~ring.appAsleep
    /\ \/ /\ HasSpace
          /\ ring' = [ring EXCEPT !.slots  = Written(ring.next),
                                  !.write  = @ + Len(ring.next) + 1,
                                  !.sent   = Append(@, [at |-> ring.write, cmd |-> ring.next]),
                                  !.thread = Woken,
                                  !.app    = IF ring.next = Sentinel THEN "join" ELSE "idle"]
       \/ /\ ~HasSpace
          /\ AppSleeps

Drained == ring.write = ring.completed

Drain ==
    /\ ring.app = "drain"
    /\ ~ring.appAsleep
    /\ \/ /\ Drained
          /\ ring' = [ring EXCEPT !.app = "idle"]
       \/ /\ ~Drained
          /\ AppSleeps

JoinThread ==
    /\ ring.app = "join"
    /\ ring.thread = "ended"
    /\ ring' = NoRing

-----------------------------------------------------------------------------
(* thread_loop.                                                             *)

HasCommand == ring.write > ring.read

\* The command at the read counter, and the counter past it.
Header  == Slot(ring.read)
Fetched == [i \in 1 .. Header |-> Slot(ring.read + i)]

\* Fault: a command counts as completed as soon as it has been fetched.
TakeAsCompleted ==
    ring' = [ring EXCEPT !.tmp       = Fetched,
                         !.sent      = Tail(@),
                         !.read      = @ + Header + 1,
                         !.completed = ring.read + Header + 1,
                         !.thread    = IF Header = 0 THEN "ended" ELSE "process"]

\* The sentinel's empty buffer ends the thread.
Take ==
    ring' = [ring EXCEPT !.tmp    = Fetched,
                         !.sent   = Tail(@),
                         !.read   = @ + Header + 1,
                         !.thread = IF Header = 0 THEN "ended" ELSE "process"]

Await ==
    /\ ring.thread = "wait"
    /\ \/ HasCommand /\ Take
       \/ ~HasCommand /\ ring' = [ring EXCEPT !.thread = "asleep"]

\* 500 microseconds: wait_for returns what the predicate is then.
Timeout ==
    /\ ring.thread = "asleep"
    /\ ring' = [ring EXCEPT !.thread = IF HasCommand THEN "wait" ELSE "meta"]

MetaIdle ==
    /\ ring.thread = "meta"
    /\ ring' = [ring EXCEPT !.thread = "wait"]

\* Fault: a completion wakes no one.
CompleteInSilence ==
    /\ ring.thread = "process"
    /\ ring' = [ring EXCEPT !.completed = ring.read, !.thread = "wait"]

\* The processor has the command: notify_one finds the emulation thread.
Complete ==
    /\ ring.thread = "process"
    /\ ring' = [ring EXCEPT !.completed = ring.read, !.thread = "wait", !.appAsleep = FALSE]

RingSpurious ==
    \/ ring.thread = "asleep" /\ ring' = [ring EXCEPT !.thread = "wait"]
    \/ ring.appAsleep         /\ ring' = [ring EXCEPT !.appAsleep = FALSE]

AppStep ==
    \/ Enqueue
    \/ Drain
    \/ JoinThread

ThreadStep ==
    \/ Await
    \/ Timeout
    \/ MetaIdle
    \/ Complete

RingNext ==
    \/ RingOpen
    \/ CallEnqueue
    \/ CallDrain
    \/ CallTeardown
    \/ AppStep
    \/ ThreadStep
    \/ RingSpurious

RingSpec == RingInit /\ [][RingNext]_ring

-----------------------------------------------------------------------------
\* The commands accepted and not yet handed over: the one in the consumer's hands, as
\* it was read, and those in the ring, as they were enqueued.
InHands == IF ring.thread = "process" THEN <<ring.tmp>> ELSE <<>>
Unread  == [i \in 1 .. Len(ring.sent) |-> ring.sent[i].cmd]

\* What the emulation thread may count on: commands reach the processor whole,
\* one at a time and in the order they were enqueued, and no more are accepted
\* than the ring has words for, beside the one in hand.
Duty == INSTANCE DmaPipe WITH
            Requests <- Sendable,
            Depth    <- RingSize + 1,
            pipe     <- InHands \o Unread
RingPipe == Duty!Spec

\* drain returns only when the processor has had every command enqueued, the one
\* in the consumer's hands included: its callers then use what they share with it.
DrainStep     == ring.app = "drain" /\ ring'.app = "idle" => InHands \o Unread = <<>>
DrainComplete == [][DrainStep]_ring

\* enqueue_command, drain and the destructor's join return.
RingReturns == ring.app \in AppWaits ~> ring.app \in {"none", "idle"}
=============================================================================

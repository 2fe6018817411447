-------------------------------- MODULE AiDma --------------------------------
(***************************************************************************)
(* The audio interface (rcp/ai/ai_controller.c): a FIFO of two buffers, the   *)
(* first one playing.  A buffer is played by the clock, not by copying: what  *)
(* has been played so far is worked out from the time left until its AI_INT,  *)
(* and handed to the sound backend whenever the program reads AI_LEN, the     *)
(* frontend ends a frame, or the event comes.  last_read says how much of the *)
(* buffer is still to be handed over; three handlers move it.                *)
(*                                                                         *)
(* Addresses (and delayed_carry, which moves them) are tags here, lengths and *)
(* time small numbers; the declaration of the sample rate to the backend is   *)
(* left out, and so is the silence a frame without samples is filled with.    *)
(***************************************************************************)
EXTENDS Integers, Sequences

CONSTANTS Buffers,     \* tags of the program's sound buffers
          AiLengths,   \* lengths a program writes to AI_LEN, in units of eight bytes
          DacRates     \* time a unit takes to play

ASSUME AiAssumption ==
    /\ Buffers # {}
    /\ AiLengths \subseteq Nat
    /\ DacRates # {} /\ DacRates \subseteq Nat \ {0}

VARIABLE ai
   \* .busy, .full  AI_STATUS_BUSY, AI_STATUS_FULL   .fifo       ai->fifo
   \* .lastread     ai->last_read                    .rate       AI_DACRATE_REG
   \* .due          {n}: AI_INT in n, {}: not queued
   \* .owed         ghost: [tag, at, n], the parts of the buffers to be heard
   \* .wrong        ghost: something else was handed over

Entries == [tag : Buffers, len : Nat, dur : Nat]
Spans   == [tag : Buffers, at : Nat, n : Nat]

AiState ==
    [busy : BOOLEAN, full : BOOLEAN, fifo : [0 .. 1 -> Entries], lastread : Nat,
     rate : DacRates, due : SUBSET Nat, owed : Seq(Spans), wrong : BOOLEAN]

AiTypeOK ==
    /\ ai \in AiState
    /\ ai.lastread <= ai.fifo[0].len
    /\ ai.due \subseteq 0 .. ai.fifo[0].dur

\* poweron_ai, and the sample rate the program has chosen.
AiInit ==
    ai = [busy |-> FALSE, full |-> FALSE,
          fifo |-> [i \in 0 .. 1 |-> [tag |-> CHOOSE b \in Buffers : TRUE, len |-> 0, dur |-> 0]],
          lastread |-> 0, rate |-> CHOOSE r \in DacRates : TRUE, due |-> {},
          owed |-> <<>>, wrong |-> FALSE]

\* A part of a buffer to be heard, if it is not empty.
Part(tag, at, n) == IF n > 0 THEN <<[tag |-> tag, at |-> at, n |-> n]>> ELSE <<>>

\* What is left to hand over of the buffer played, and the one waiting.
Playing(a) == Part(a.fifo[0].tag, a.fifo[0].len - a.lastread, a.lastread)
Waiting(a) == IF a.full THEN Part(a.fifo[1].tag, 0, a.fifo[1].len) ELSE <<>>

-----------------------------------------------------------------------------
\* get_remaining_dma_length.
Remaining(a) ==
    IF a.fifo[0].dur = 0 \/ a.due = {} THEN 0
    ELSE ((CHOOSE n \in a.due : TRUE) * a.fifo[0].len) \div a.fifo[0].dur

\* ai_push_span: n units from the one at diff of the buffer played now.  They are
\* the next the program is owed, or something went wrong.
Hand(a, diff, n) ==
    LET head == Head(a.owed)
    IN  CASE n = 0 -> a
          [] n > 0 /\ a.owed # <<>> /\ head.tag = a.fifo[0].tag /\ head.at = diff /\ head.n >= n ->
                [a EXCEPT !.owed = Part(head.tag, diff + n, head.n - n) \o Tail(@)]
          [] OTHER -> [a EXCEPT !.wrong = TRUE]

\* Fault: the place in the buffer is worked out from what remains to be played.
HandOverFromPlayed(a, remaining) ==
    IF remaining >= a.lastread THEN a
    ELSE [Hand(a, a.fifo[0].len - remaining, a.lastread - remaining) EXCEPT !.lastread = remaining]

\* ai_hand_over_played.
HandOver(a, remaining) ==
    IF remaining >= a.lastread THEN a
    ELSE [Hand(a, a.fifo[0].len - a.lastread, a.lastread - remaining)
             EXCEPT !.lastread = remaining]

\* do_dma, of fifo[0].
DoDma(a) == [a EXCEPT !.lastread = a.fifo[0].len, !.due = {a.fifo[0].dur}]

\* A write of AI_LEN and fifo_push: the bits below the unit lengthen the play time,
\* not the buffer.  A buffer pushed while one waits takes its place.
Push ==
    \E tag \in Buffers, len \in AiLengths, low \in 0 .. ai.rate - 1 :
        LET dma  == [tag |-> tag, len |-> len, dur |-> (len * ai.rate) + low]
            part == Part(tag, 0, len)
        IN  /\ len + low > 0
            /\ ai' =
                 IF ai.busy
                     THEN [ai EXCEPT !.fifo[1] = dma, !.full = TRUE,
                                     !.owed = Playing(ai) \o part]
                     ELSE DoDma([ai EXCEPT !.fifo[0] = dma, !.busy = TRUE,
                                           !.owed = part])

\* fifo_pop.
Pop(a) ==
    IF a.full THEN DoDma([a EXCEPT !.fifo[0] = a.fifo[1], !.full = FALSE])
              ELSE [a EXCEPT !.busy = FALSE]

\* A read of AI_LEN.
Poll == ai' = HandOver(ai, Remaining(ai))

\* ai_deliver_frame, at the end of each frame.
DeliverFrame ==
    /\ ai.fifo[0].dur # 0
    /\ ai' = HandOver(ai, Remaining(ai))

\* ai_end_of_dma_event.
EndOfDma ==
    /\ ai.due = {0}
    /\ ai' = LET rest == Hand(ai, ai.fifo[0].len - ai.lastread, ai.lastread)
             IN  Pop([rest EXCEPT !.due = {}, !.lastread = 0])

DacRate == \E rate \in DacRates : ai' = [ai EXCEPT !.rate = rate]

\* Time passes; an event that is due may be served late.
AiTick ==
    \E n \in ai.due :
        /\ n > 0
        /\ ai' = [ai EXCEPT !.due = {n - 1}]

\* nmi_int_handler: every event is dropped and AI_STATUS cleared.  The program's
\* waiting buffer is forgotten; what was left of the one playing is not.
AiNmi ==
    ai' = [ai EXCEPT !.due = {}, !.busy = FALSE, !.full = FALSE,
                     !.owed = Playing(ai)]

AiNext ==
    \/ Push
    \/ Poll
    \/ DeliverFrame
    \/ EndOfDma
    \/ DacRate
    \/ AiTick
    \/ AiNmi

AiSpec == AiInit /\ [][AiNext]_ai

-----------------------------------------------------------------------------
\* The samples of the queued buffers reach the backend once each, in order and from
\* the buffer they are in, whichever of polls, frames and events hand them over;
\* what is yet to come is the rest of the buffer playing and the one waiting.
AiConserved ==
    /\ ~ai.wrong
    /\ ai.owed = Playing(ai) \o Waiting(ai)
=============================================================================

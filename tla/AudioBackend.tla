----------------------------- MODULE AudioBackend -----------------------------
(***************************************************************************)
(* The accumulator between the audio interface and the libretro frontend     *)
(* (plugin/audio_libretro/audio_backend_libretro.c): sound and silence are    *)
(* appended to a bounded array, and emitted from its front once a frame, or   *)
(* as soon as it is full.  The frontend takes as much as it likes of what it  *)
(* is offered, nothing included.  Everything runs in the emulation thread;    *)
(* a step here is one turn of a loop or one call of the frontend.            *)
(*                                                                         *)
(* Sound frames are numbered as they are produced, modulo more than the       *)
(* accumulator holds.                                                       *)
(***************************************************************************)
EXTENDS Integers, Sequences

CONSTANTS AccFrames,    \* AUDIO_ACC_FRAMES
          MaxPush       \* bound: frames in one push

ASSUME AudioAssumption == AccFrames \in Nat /\ MaxPush \in Nat

VARIABLE audio
   \* .acc   audio_acc, its audio_acc_frames frames     .pc    "idle", "fill" or "emit"
   \* .call  which function was called                 .left  frames it has yet to append
   \* .out   frames the frontend took in this emit_frames
   \* .made  ghost: number of the next frame produced  .heard ghost: and of the next taken

Modulus    == AccFrames + MaxPush + 2
Numbers    == 0 .. Modulus - 1
Plus(a, n) == (a + n) % Modulus

AudioState ==
    [acc : Seq(Numbers), pc : {"idle", "fill", "emit"}, call : {"samples", "silence", "flush"},
     left : 0 .. MaxPush, out : 0 .. AccFrames, made : Numbers, heard : Numbers]

AudioTypeOK ==
    /\ audio \in AudioState
    /\ Len(audio.acc) <= AccFrames

Silent ==
    [acc |-> <<>>, pc |-> "idle", call |-> "flush", left |-> 0, out |-> 0,
     made |-> 0, heard |-> 0]

AudioInit == audio = Silent

Held(a)  == Len(a.acc)
Emit(a)  == IF a.acc = <<>> THEN [a EXCEPT !.pc = IF a.call = "flush" THEN "idle" ELSE "fill"]
                            ELSE [a EXCEPT !.pc = "emit", !.out = 0]
Numbered(from, n) == [i \in 1 .. n |-> Plus(from, i - 1)]

-----------------------------------------------------------------------------
\* push_audio_samples_via_libretro drains first when the push does not fit.
PushSamples ==
    /\ audio.pc = "idle"
    /\ \E n \in 1 .. MaxPush :
           LET call == [audio EXCEPT !.call = "samples", !.left = n, !.pc = "fill"]
           IN  audio' = IF Held(audio) + n > AccFrames THEN Emit(call) ELSE call

PushSilence ==
    /\ audio.pc = "idle"
    /\ \E n \in 1 .. MaxPush :
           audio' = [audio EXCEPT !.call = "silence", !.left = n, !.pc = "fill"]

\* flush_audio_libretro, once a frame.
Flush ==
    /\ audio.pc = "idle"
    /\ audio' = Emit([audio EXCEPT !.call = "flush"])

\* A turn of the loop that found no room for silence, and one that appended.
Room  == AccFrames - Held(audio)
Chunk == IF audio.left < Room THEN audio.left ELSE Room

\* Fault: silence that finds no room tries again without making any.
NoRoomTryAgain(a) == [a EXCEPT !.pc = "fill"]

NoRoom(a) == Emit(a)

Appended ==
    [audio EXCEPT !.acc  = @ \o Numbered(audio.made, Chunk),
                  !.made = Plus(@, Chunk),
                  !.left = @ - Chunk,
                  !.pc   = IF audio.left = Chunk THEN "idle" ELSE "fill"]

Fill ==
    /\ audio.pc = "fill"
    /\ audio' = CASE audio.call = "silence" /\ Chunk = 0 -> NoRoom(audio)
                  [] audio.call = "silence" /\ Chunk > 0 -> Appended
                  [] audio.call = "samples" -> IF Held(Appended) = AccFrames /\ Appended.left > 0
                                                  THEN Emit(Appended) ELSE Appended

\* Fault: what the frontend left stays where it was, behind what it took.
LeftInPlace(acc, taken) == SubSeq(acc, 1, Len(acc) - taken)

\* The memmove of what the frontend left to the front of the accumulator.
Shifted(acc, taken) == SubSeq(acc, taken + 1, Len(acc))

\* emit_frames returns: for a push the loop goes on, full or not.
Emitted(a) ==
    [a EXCEPT !.acc = Shifted(@, a.out),
              !.out = 0,
              !.pc  = IF a.call = "flush" THEN "idle" ELSE "fill"]

\* One call of the frontend's batch callback, which takes something.
Taken ==
    /\ audio.pc = "emit"
    /\ \E n \in 1 .. Held(audio) - audio.out :
           LET after == [audio EXCEPT !.out = @ + n, !.heard = Plus(@, n)]
           IN  audio' = IF after.out = Held(audio) THEN Emitted(after) ELSE after

\* It takes nothing: what is left stays for another time.
Refused ==
    /\ audio.pc = "emit"
    /\ audio' = Emitted(audio)

\* init_audio_libretro, for another session.
Restart ==
    /\ audio.pc = "idle"
    /\ audio' = Silent

Loop == Fill \/ Taken \/ Refused

AudioNext ==
    \/ PushSamples
    \/ PushSilence
    \/ Flush
    \/ Fill
    \/ Taken
    \/ Refused
    \/ Restart

AudioSpec == AudioInit /\ [][AudioNext]_audio

-----------------------------------------------------------------------------
\* The frontend gets every sound frame once and in the order they were made, however
\* little it takes at a time: what is held, less what it took of it just now, is
\* what was made and not heard.
AudioInOrder ==
    /\ audio.acc = Numbered(Plus(audio.heard, Modulus - audio.out), Held(audio))
    /\ audio.made = Plus(audio.heard, Held(audio) - audio.out)

\* A push or a flush ends, as long as the frontend takes something now and then.
AudioReturns == audio.pc # "idle" ~> audio.pc = "idle"
=============================================================================

------------------------------ MODULE MCMachine ------------------------------
(***************************************************************************)
(* The units of the machine that share nothing but the event queue and their  *)
(* own interrupt line: the audio interface and the frontend's audio buffer,    *)
(* the serial interface, the peripheral interface with the flash memory, and   *)
(* the disk drive.  No step of one reads what a step of another writes, so     *)
(* that a behaviour is about one of them, named by .unit.                     *)
(***************************************************************************)
EXTENDS AiDma, AudioBackend, SiPif, PiBus, DiskDrive

\* The first sector of the disk: get_sector_base refuses it to a program.
MCMissing == {<<"sys", 0>>}

VARIABLE unit
mc == <<unit, ai, audio, si, pi, dd>>

AiOnly    == unit = "ai"    /\ UNCHANGED <<unit, audio, si, pi, dd>>
AudioOnly == unit = "audio" /\ UNCHANGED <<unit, ai, si, pi, dd>>
SiOnly    == unit = "si"    /\ UNCHANGED <<unit, ai, audio, pi, dd>>
PiOnly    == unit = "pi"    /\ UNCHANGED <<unit, ai, audio, si, dd>>
DdOnly    == unit = "dd"    /\ UNCHANGED <<unit, ai, audio, si, pi>>

Init ==
    /\ unit \in {"ai", "audio", "si", "pi", "dd"}
    /\ AiInit
    /\ AudioInit
    /\ SiInit
    /\ PiInit
    /\ DdInit

Next ==
    \/ AiOnly /\ AiNext
    \/ AudioOnly /\ AudioNext
    \/ SiOnly /\ SiNext
    \/ PiOnly /\ PiNext
    \/ DdOnly /\ DdNext

\* Events come; the audio callback runs again and again, and the frontend does
\* not refuse for ever; a program answers the drive's interrupts.
Fairness ==
    /\ WF_mc(AudioOnly /\ (Fill \/ Taken \/ Refused))
    /\ SF_mc(AudioOnly /\ Taken)
    /\ WF_mc(SiOnly /\ EndOfSiDma)
    /\ WF_mc(DdOnly /\ MechaEvent)
    /\ WF_mc(DdOnly /\ BmEvent)
    /\ WF_mc(DdOnly /\ dd.ip3 /\ ReadStatus)

FairSpec == Init /\ [][Next]_mc /\ Fairness

TypeOK == AiTypeOK /\ AudioTypeOK /\ SiTypeOK /\ PiTypeOK /\ DdTypeOK
=============================================================================

-------------------------------- MODULE SiPif --------------------------------
(***************************************************************************)
(* The serial interface and the PIF behind it (rcp/si/si_controller.c,        *)
(* pif/pif.c).  A program sends the PIF a block of commands by DMA, which is  *)
(* copied at once and processed when the event SI_INT comes; a second DMA    *)
(* makes the PIF talk to the devices at once, and copies the answers back    *)
(* when its event comes.  What the PIF does in between depends on flags in    *)
(* the block: set up the channels to the devices, or answer the challenge of  *)
(* the lock-out chip, which takes the channels down.                         *)
(*                                                                         *)
(* A block is one command here, with its flags and the place of the answer;   *)
(* SI_STATUS has its busy bit only.  The program waits for that bit before it *)
(* moves SI_DRAM_ADDR or writes PIF RAM itself, but not before it starts a    *)
(* DMA: a DMA started too early is refused.                                  *)
(***************************************************************************)
EXTENDS Naturals

CONSTANTS SiAddresses,    \* RDRAM buffers
          PifCommands

ASSUME SiAssumption == SiAddresses # {} /\ PifCommands # {}

VARIABLE si
   \* .busy      SI_STATUS_DMA_BUSY             .dir     si->dma_dir
   \* .events    SI_INTs queued                 .addr    SI_DRAM_ADDR_REG
   \* .ram       PIF RAM                        .ready   the channels are set up
   \* .dram      the buffers in RDRAM
   \* .sent      ghost: {b}, the last block sent, since the last reset
   \* .asked     ghost: {[addr, sent]}, the read in progress, as it was asked for
   \* .dropped   ghost: a reset dropped the event of a transfer

Flags    == {"format", "cic", "lock"}
NoReply  == <<"none", "none">>
Answers  == {NoReply} \cup ({"device", "cic"} \X PifCommands)
Blocks   == [cmd : PifCommands, flags : SUBSET Flags, reply : Answers]
Sendable == {b \in Blocks : b.reply = NoReply /\ "lock" \notin b.flags}

Requests == [addr : SiAddresses, sent : Blocks]

SiState ==
    [busy : BOOLEAN, dir : {"none", "read", "write"}, events : {0, 1},
     addr : SiAddresses, ram : Blocks, ready : BOOLEAN, dram : [SiAddresses -> Blocks],
     sent : SUBSET Blocks, asked : SUBSET Requests, dropped : BOOLEAN]

SiTypeOK == si \in SiState

\* poweron_si, poweron_pif.
SiInit ==
    LET blank == [cmd |-> CHOOSE c \in PifCommands : TRUE, flags |-> {}, reply |-> NoReply]
    IN  si = [busy |-> FALSE, dir |-> "none", events |-> 0,
              addr |-> CHOOSE a \in SiAddresses : TRUE,
              ram |-> blank, ready |-> FALSE, dram |-> [a \in SiAddresses |-> blank],
              sent |-> {}, asked |-> {}, dropped |-> FALSE]

-----------------------------------------------------------------------------
(* pif.c.                                                                   *)

\* setup_channels_format, then the challenge, which disables every channel.
ReadyAfter(s) ==
    CASE "cic" \in s.ram.flags                                  -> FALSE
      [] "format" \in s.ram.flags /\ "cic" \notin s.ram.flags   -> TRUE
      [] s.ram.flags \cap {"cic", "format"} = {}                -> s.ready

\* process_pif_ram, which clears the flags it has seen to.
ProcessPifRam(s) ==
    [s EXCEPT !.ready     = ReadyAfter(s),
              !.ram.reply = IF "cic" \in s.ram.flags THEN <<"cic", s.ram.cmd>> ELSE @,
              !.ram.flags = {}]

\* update_pif_ram: every channel that is set up talks to its device.
UpdatePifRam(s) ==
    [s EXCEPT !.ram.reply = IF s.ready THEN <<"device", s.ram.cmd>> ELSE @]

-----------------------------------------------------------------------------
(* si_controller.c.                                                         *)

DramAddr ==
    /\ ~si.busy
    /\ \E a \in SiAddresses : si' = [si EXCEPT !.addr = a]

\* Fault: a request is accepted while one is in progress.
AcceptedAnyway == TRUE

\* validate_dma: a request while one is in progress is refused.
Accepted == ~si.busy

Started(s, dir) == [s EXCEPT !.busy = TRUE, !.dir = dir, !.events = @ + 1]

\* dma_si_write, of a block the program has just put at SI_DRAM_ADDR.
DmaWrite ==
    /\ Accepted
    /\ \E b \in Sendable :
           si' = Started([si EXCEPT !.dram[si.addr] = b, !.ram = b, !.sent = {b}], "write")

\* dma_si_read.
DmaRead ==
    /\ Accepted
    /\ si' = Started(UpdatePifRam([si EXCEPT !.asked = {[addr |-> a, sent |-> b] :
                                                          a \in {si.addr}, b \in si.sent}]),
                     "read")

\* Fault: the write makes the interface busy, and no event is queued.
WriteWithoutEvent(flags) ==
    [si EXCEPT !.ram.flags = flags, !.dir = "write", !.busy = TRUE]

\* write_pif_mem, of the last word: it is processed like a block.
WritePifMem(flags) ==
    [si EXCEPT !.ram.flags = flags, !.dir = "write", !.busy = TRUE, !.events = @ + 1]

DirectWrite ==
    /\ ~si.busy
    /\ \E flags \in {{"lock"}, {"format"}} :
           si' = [WritePifMem(flags) EXCEPT
                     !.sent = IF "format" \in flags THEN {[si.ram EXCEPT !.flags = flags]} ELSE @]

\* copy_pif_rdram, at the end of a read.
CopyToRdram(s) == [s EXCEPT !.dram[s.addr] = s.ram]

\* si_end_of_dma_event.
EndOfSiDma ==
    /\ si.events > 0
    /\ LET done == CASE si.dir = "write" -> ProcessPifRam(si)
                     [] si.dir = "read"  -> CopyToRdram(si)
                     [] si.dir = "none"  -> si
       IN  si' = [done EXCEPT !.events = @ - 1, !.dir = "none", !.busy = FALSE, !.asked = {}]

\* nmi_int_handler: reset_pif disables the channels and clears the flags, and the
\* queue is emptied; the interface itself is not reset.
SiNmi ==
    si' = [si EXCEPT !.ready = FALSE, !.ram.flags = {}, !.events = 0, !.sent = {}, !.asked = {},
                     !.dropped = si.dropped \/ si.busy]

SiNext ==
    \/ DramAddr
    \/ DmaWrite
    \/ DmaRead
    \/ DirectWrite
    \/ EndOfSiDma
    \/ SiNmi

SiSpec == SiInit /\ [][SiNext]_si

-----------------------------------------------------------------------------
\* A read that was preceded by a block puts, where the program asked for it, the
\* answer to that block: the lock-out chip's to a challenge, the devices' to
\* commands whose channels were set up with it.
Answer(b) == IF "cic" \in b.flags THEN <<"cic", b.cmd>> ELSE <<"device", b.cmd>>

AnswerStep ==
    si.asked # {} /\ si'.asked = {} /\ si'.sent # {} =>
        \A r \in si.asked : r.sent.flags # {} => si'.dram[r.addr].reply = Answer(r.sent)
SiAnswered == [][AnswerStep]_si

\* The interface comes free again, unless a reset took the event it waits for: the
\* code never restarts such a transfer.
SiEnds == si.busy ~> ~si.busy \/ si.dropped
=============================================================================

-------------------------- MODULE Interfaces_proofs --------------------------
(***************************************************************************)
(* The peripheral interface, for chips, sectors and data of any size: it is   *)
(* busy exactly while the event that ends it is queued, and the flash memory  *)
(* holds what the program's commands were meant to put there.                *)
(*                                                                         *)
(* The serial interface, for any set of commands and buffers: a read brings   *)
(* the answer to the block that was sent before it.                          *)
(*                                                                         *)
(* The disk drive, for blocks of any number of sectors: a program that        *)
(* answers its interrupts moves the sectors of the disk, in order.            *)
(***************************************************************************)
EXTENDS PiBus, SiPif, DiskDrive, TLAPS

\* Between the commands of one operation the chip is in the mode, and has the page,
\* that the last of them needs.
UnderWay ==
    /\ pi.pc = "load"    => pi.mode = "page_program"
    /\ pi.pc = "program" => pi.buf = pi.data
    /\ pi.pc = "erase"   => \/ pi.mode = "sector_erase" /\ pi.sector = pi.page
                            \/ pi.mode = "chip_erase"

PiInv ==
    /\ PiTypeOK
    /\ PiEvent
    /\ UnderWay
    /\ FlashKept

\* The pages from the first one of the sector of s on are those of that sector.
LEMMA SectorPagesOf ==
    ASSUME NEW p \in Nat, NEW s \in Nat, NEW n \in Nat, n > 0
    PROVE  p \in s - (s % n) .. s - (s % n) + n - 1 <=> p \div n = s \div n
  <1>1. /\ s \div n \in Nat /\ p \div n \in Nat /\ s % n \in 0 .. n - 1 /\ p % n \in 0 .. n - 1
        /\ s = n * (s \div n) + (s % n) /\ p = n * (p \div n) + (p % n)
    OBVIOUS
  <1>2. ASSUME NEW a \in Nat, NEW b \in Nat, a < b PROVE n * a + n <= n * b
    <2>1. n * (a + 1) <= n * b
      BY <1>2
    <2> QED  BY <2>1
  <1>3. CASE p \div n = s \div n
    BY <1>1, <1>3
  <1>4. CASE p \div n < s \div n
    BY <1>1, <1>2, <1>4
  <1>5. CASE s \div n < p \div n
    BY <1>1, <1>2, <1>5
  <1> QED  BY <1>1, <1>3, <1>4, <1>5

LEMMA ChipPages == Chip \subseteq Nat /\ 0 \in Chip
  BY PiAssumption DEF Chip

LEMMA PoweredOnType ==
    ASSUME NEW flash \in [Chip -> PageData \cup {Erased}]
    PROVE  PoweredOn(flash) \in
             [dma : BOOLEAN, io : BOOLEAN, events : 0 .. MaxPiEvents, mode : Modes,
              sector : Chip, buf : PageData \cup {Erased},
              flash : [Chip -> PageData \cup {Erased}],
              pc : {"idle", "load", "program", "erase"}, page : Chip,
              data : PageData \cup {Erased}, meant : [Chip -> PageData \cup {Erased}],
              cut : BOOLEAN]
  <1>1. 0 \in 0 .. MaxPiEvents
    BY PiAssumption
  <1> QED  BY <1>1, ChipPages DEF PoweredOn, Modes

LEMMA InitPiInv == PiInit => PiInv
  <1> SUFFICES ASSUME PiInit PROVE PiInv
    OBVIOUS
  <1> DEFINE blank == [p \in Chip |-> Erased]
  <1>1. blank \in [Chip -> PageData \cup {Erased}]
    OBVIOUS
  <1>2. pi = PoweredOn(blank)
    BY DEF PiInit
  <1> HIDE DEF blank
  <1>3. PiTypeOK
    BY <1>1, <1>2, PoweredOnType DEF PiTypeOK
  <1>4. PiEvent /\ UnderWay /\ FlashKept
    BY <1>2 DEF PoweredOn, PiEvent, UnderWay, FlashKept
  <1> QED  BY <1>3, <1>4 DEF PiInv

\* A request that is accepted finds no event queued, and queues one.
LEMMA DmaIInv ==
    ASSUME PiTypeOK, PiEvent, Validated, Queued(pi)
    PROVE  /\ pi.cut \/ pi.events = 0
           /\ pi.events + 1 \in 0 .. MaxPiEvents
  BY PiAssumption DEF PiTypeOK, PiEvent, Validated, Queued

LEMMA StepPiInv == PiInv /\ [PiNext]_pi => PiInv'
  <1> SUFFICES ASSUME PiInv, [PiNext]_pi PROVE PiInv'
    OBVIOUS
  <1> USE DEF PiInv
  <1>1. CASE RomDma
    <2>1. (pi.cut \/ pi.events = 0) /\ pi.events + 1 \in 0 .. MaxPiEvents
      BY <1>1, DmaIInv DEF RomDma
    <2>2. pi' = [pi EXCEPT !.dma = TRUE, !.events = pi.events + 1]
      BY <1>1 DEF RomDma, Dma
    <2>3. PiTypeOK'
      BY <2>1, <2>2 DEF PiTypeOK
    <2>4. PiEvent'
      BY <2>1, <2>2 DEF PiTypeOK, PiEvent
    <2>5. UnderWay' /\ FlashKept'
      BY <2>2 DEF PiTypeOK, UnderWay, FlashKept
    <2> QED  BY <2>3, <2>4, <2>5
  <1>2. CASE RomWrite
    <2>1. (pi.cut \/ pi.events = 0) /\ pi.events + 1 \in 0 .. MaxPiEvents
      BY <1>2, DmaIInv DEF RomWrite
    <2>2. pi' = [pi EXCEPT !.io = TRUE, !.events = pi.events + 1]
      BY <1>2 DEF RomWrite
    <2>3. PiTypeOK'
      BY <2>1, <2>2 DEF PiTypeOK
    <2>4. PiEvent'
      BY <2>1, <2>2 DEF PiTypeOK, PiEvent
    <2>5. UnderWay' /\ FlashKept'
      BY <2>2 DEF PiTypeOK, UnderWay, FlashKept
    <2> QED  BY <2>3, <2>4, <2>5
  <1>3. CASE EndOfPiDma
    <2>1. pi.events \in 0 .. MaxPiEvents /\ pi.events > 0 /\ MaxPiEvents \in Nat
      BY <1>3, PiAssumption DEF EndOfPiDma, PiTypeOK
    <2>2. pi.events - 1 \in 0 .. MaxPiEvents
      BY <2>1
    <2>3. PiTypeOK'
      BY <1>3, <2>2 DEF EndOfPiDma, PiTypeOK
    <2>4. PiEvent'
      BY <1>3, <2>1 DEF EndOfPiDma, PiTypeOK, PiEvent
    <2>5. UnderWay' /\ FlashKept'
      BY <1>3 DEF EndOfPiDma, PiTypeOK, UnderWay, FlashKept
    <2> QED  BY <2>3, <2>4, <2>5
  <1>4. CASE StatusReset
    <2>1. PiTypeOK'
      BY <1>4 DEF StatusReset, PiTypeOK
    <2>2. PiEvent'
      BY <1>4, PiAssumption DEF StatusReset, PiTypeOK, PiEvent
    <2>3. UnderWay' /\ FlashKept'
      BY <1>4 DEF StatusReset, PiTypeOK, UnderWay, FlashKept
    <2> QED  BY <2>1, <2>2, <2>3
  <1>5. CASE PiNmi
    <2>1. 0 \in 0 .. MaxPiEvents
      BY PiAssumption
    <2> QED  BY <1>5, <2>1, ChipPages DEF PiNmi, PiTypeOK, PiEvent, UnderWay, FlashKept
  <1>6. CASE PiPowerOn
    <2>1. pi.flash \in [Chip -> PageData \cup {Erased}] /\ pi.meant = pi.flash
      BY DEF PiTypeOK, FlashKept
    <2>2. pi' = PoweredOn(pi.flash)
      BY <1>6, <2>1 DEF PiPowerOn, PoweredOn
    <2>3. PiTypeOK'
      BY <2>1, <2>2, PoweredOnType DEF PiTypeOK
    <2>4. PiEvent' /\ UnderWay' /\ FlashKept'
      BY <2>2 DEF PoweredOn, PiEvent, UnderWay, FlashKept
    <2> QED  BY <2>3, <2>4
  <1>7. CASE SelectMode
    BY <1>7 DEF SelectMode, PiTypeOK, Modes, PiEvent, UnderWay, FlashKept
  <1>8. CASE SelectPageProgram
    BY ZenonT(60), <1>8 DEF SelectPageProgram, PiTypeOK, Modes, PiEvent, UnderWay, FlashKept
  <1>9. CASE LoadPage
    <2>1. (pi.cut \/ pi.events = 0) /\ pi.events + 1 \in 0 .. MaxPiEvents
      BY <1>9, DmaIInv DEF LoadPage
    <2>2. pi' = [pi EXCEPT !.dma = TRUE, !.events = pi.events + 1, !.buf = pi.data,
                           !.pc = "program"]
      BY <1>9 DEF LoadPage, Dma, UnderWay, PiTypeOK
    <2>3. PiTypeOK'
      BY <2>1, <2>2 DEF PiTypeOK
    <2>4. PiEvent'
      BY <2>1, <2>2 DEF PiTypeOK, PiEvent
    <2>5. UnderWay' /\ FlashKept'
      BY <2>2 DEF PiTypeOK, UnderWay, FlashKept
    <2> QED  BY <2>3, <2>4, <2>5
  <1>10. CASE ProgramPage
    <2>1. pi' = [pi EXCEPT !.flash[pi.page] = pi.data, !.mode = "status", !.pc = "idle",
                           !.meant[pi.page] = pi.data, !.page = 0, !.data = Erased]
      BY <1>10 DEF ProgramPage, UnderWay
    <2> QED  BY <2>1, ChipPages DEF PiTypeOK, Modes, PiEvent, UnderWay, FlashKept
  <1>11. CASE SelectErase
    <2>1. ASSUME NEW page \in Chip,
                 pi' = [pi EXCEPT !.mode = "sector_erase", !.sector = page, !.page = page,
                                  !.pc = "erase"]
          PROVE  PiInv'
      BY <2>1 DEF PiTypeOK, Modes, PiEvent, UnderWay, FlashKept
    <2>2. CASE pi' = [pi EXCEPT !.mode = "chip_erase", !.pc = "erase"]
      BY <2>2 DEF PiTypeOK, Modes, PiEvent, UnderWay, FlashKept
    <2> QED  BY <1>11, <2>1, <2>2 DEF SelectErase
  <1>12. CASE Erase
    <2> DEFINE pages == CASE pi.mode = "sector_erase" -> ErasedPages
                          [] pi.mode = "chip_erase"   -> Chip
               meant == {p \in Chip : \/ pi.mode = "chip_erase"
                                      \/ p \div SectorPages = pi.page \div SectorPages}
               left(set, chip) == [p \in Chip |-> IF p \in set THEN Erased ELSE chip[p]]
    <2>1. pi' = [pi EXCEPT !.flash = left(pages, pi.flash), !.meant = left(meant, pi.meant),
                           !.mode = "status", !.pc = "idle", !.page = 0]
      BY <1>12 DEF Erase
    <2>2. \A p \in Chip : p \in pages <=> p \in meant
      <3>1. CASE pi.mode = "chip_erase"
        BY <3>1
      <3>2. CASE pi.mode = "sector_erase" /\ pi.sector = pi.page
        <4>1. pages = ErasedPages /\ pi.sector \in Nat /\ SectorPages \in Nat /\ SectorPages > 0
          BY <3>2, ChipPages, PiAssumption DEF PiTypeOK
        <4>2. \A p \in Chip : p \in ErasedPages <=> p \div SectorPages = pi.sector \div SectorPages
          BY <4>1, ChipPages, SectorPagesOf DEF ErasedPages
        <4>3. \A p \in Chip : p \in meant <=> p \div SectorPages = pi.sector \div SectorPages
          BY <3>2
        <4> QED  BY <4>1, <4>2, <4>3
      <3> QED  BY <1>12, <3>1, <3>2 DEF Erase, UnderWay
    <2>3. left(pages, pi.flash) = left(meant, pi.meant)
      BY <2>2 DEF FlashKept
    <2>4. left(pages, pi.flash) \in [Chip -> PageData \cup {Erased}]
      BY DEF PiTypeOK
    <2> HIDE DEF pages, meant, left
    <2> QED  BY <2>1, <2>3, <2>4, ChipPages DEF PiTypeOK, Modes, PiEvent, UnderWay, FlashKept
  <1>13. CASE UNCHANGED pi
    BY <1>13 DEF PiTypeOK, PiEvent, UnderWay, FlashKept
  <1> QED
    BY <1>1, <1>2, <1>3, <1>4, <1>5, <1>6, <1>7, <1>8, <1>9, <1>10, <1>11, <1>12, <1>13
    DEF PiNext

-----------------------------------------------------------------------------
\* Whatever transfers, ROM writes and resets there are, the busy bits of pi_controller.c
\* are set exactly while one PI_INT is queued, but for what a program's own reset of
\* the interface leaves behind.
THEOREM BusyHasItsEvent == PiSpec => []PiEvent
  <1>1. PiInit => PiInv
    BY InitPiInv
  <1>2. PiInv /\ [PiNext]_pi => PiInv'
    BY StepPiInv
  <1>3. PiInv => PiEvent
    BY DEF PiInv
  <1> QED  BY <1>1, <1>2, <1>3, PTL DEF PiSpec

\* For any number of pages and any size of sector, flashram.c's commands leave in the
\* chip what each was meant to, with transfers and resets anywhere between their steps.
THEOREM FlashAsMeant == PiSpec => []FlashKept
  <1>1. PiInit => PiInv
    BY InitPiInv
  <1>2. PiInv /\ [PiNext]_pi => PiInv'
    BY StepPiInv
  <1>3. PiInv => FlashKept
    BY DEF PiInv
  <1> QED  BY <1>1, <1>2, <1>3, PTL DEF PiSpec

-----------------------------------------------------------------------------
(* The serial interface.                                                    *)

\* The block b has been seen to: its answer is there, or, with the channels set up, will
\* be there when the PIF is next read.
SeenTo(b) ==
    /\ si.ram.cmd = b.cmd
    /\ "cic" \in b.flags => ~si.ready /\ si.ram.reply = <<"cic", b.cmd>>
    /\ "cic" \notin b.flags => si.ready

\* A block of commands with something to be done is in PIF RAM as it was sent until its
\* event comes, and seen to from then on.
Followed ==
    \A b \in si.sent :
        b.flags # {} =>
            /\ b.flags \subseteq {"format", "cic"}
            /\ \/ si.dir = "write" /\ si.ram = b
               \/ si.dir = "write" /\ si.ram.flags = {"lock"} /\ SeenTo(b)
               \/ si.dir # "write" /\ SeenTo(b)

\* The read in progress asks for the answer to the last block, at SI_DRAM_ADDR, and the
\* PIF has the answer.
Asked ==
    si.asked # {} =>
        /\ si.dir = "read"
        /\ si.asked = {[addr |-> a, sent |-> b] : a \in {si.addr}, b \in si.sent}
        /\ \A b \in si.sent : b.flags # {} => si.ram.reply = Answer(b)

SiInv ==
    /\ SiTypeOK
    /\ si.events > 0 => si.busy
    /\ si.dir # "none" => si.busy
    /\ Followed
    /\ Asked

LEMMA InitSiInv == SiInit => SiInv
  <1> SUFFICES ASSUME SiInit PROVE SiInv
    OBVIOUS
  <1> DEFINE c == CHOOSE x \in PifCommands : TRUE
             blank == [cmd |-> c, flags |-> {}, reply |-> NoReply]
             first == CHOOSE a \in SiAddresses : TRUE
             dram  == [a \in SiAddresses |-> blank]
  <1>1. c \in PifCommands /\ first \in SiAddresses
    BY SiAssumption
  <1>2. blank \in Blocks
    BY <1>1 DEF Blocks, Answers
  <1>3. si = [busy |-> FALSE, dir |-> "none", events |-> 0, addr |-> first,
              ram |-> blank, ready |-> FALSE, dram |-> dram,
              sent |-> {}, asked |-> {}, dropped |-> FALSE]
    BY DEF SiInit
  <1> HIDE DEF c, blank, first
  <1>4. dram \in [SiAddresses -> Blocks]
    BY <1>2
  <1> HIDE DEF dram
  <1> QED  BY <1>1, <1>2, <1>3, <1>4 DEF SiInv, SiTypeOK, SiState, Followed, Asked

LEMMA StepSiInv == SiInv /\ [SiNext]_si => SiInv' /\ AnswerStep
  <1> SUFFICES ASSUME SiInv, [SiNext]_si PROVE SiInv' /\ AnswerStep
    OBVIOUS
  <1>1. si \in SiState /\ Followed /\ Asked
    BY DEF SiInv, SiTypeOK
  <1>2. /\ si.ram \in Blocks /\ si.sent \subseteq Blocks /\ si.addr \in SiAddresses
        /\ si.dram \in [SiAddresses -> Blocks] /\ si.ready \in BOOLEAN
        /\ ~si.busy => si.events = 0 /\ si.dir = "none" /\ si.asked = {}
        /\ si.events > 0 => si.events = 1 /\ si.busy
    BY <1>1 DEF SiInv, SiState, Asked
  <1>3. CASE DramAddr
    <2>1. PICK a \in SiAddresses : si' = [si EXCEPT !.addr = a]
      BY <1>3 DEF DramAddr
    <2>2. si.dir = "none" /\ si.asked = {}
      BY <1>2, <1>3 DEF DramAddr
    <2>3. /\ si' \in SiState /\ si'.busy = si.busy /\ si'.dir = si.dir /\ si'.events = si.events
          /\ si'.ram = si.ram /\ si'.ready = si.ready /\ si'.sent = si.sent
          /\ si'.asked = si.asked
      BY <1>1, <2>1 DEF SiState
    <2> QED  BY <1>1, <2>2, <2>3 DEF SiInv, SiTypeOK, Followed, SeenTo, Asked, AnswerStep
  <1>4. CASE DmaWrite
    <2>1. PICK b \in Sendable :
              si' = Started([si EXCEPT !.dram[si.addr] = b, !.ram = b, !.sent = {b}], "write")
      BY <1>4 DEF DmaWrite
    <2> DEFINE dram == [si.dram EXCEPT ![si.addr] = b]
               put  == [si EXCEPT !.dram = dram, !.ram = b, !.sent = {b}]
    <2>2. b \in Blocks /\ b.flags \subseteq {"format", "cic"}
      BY <2>1 DEF Sendable, Blocks, Flags
    <2>3. ~si.busy /\ si.events = 0 /\ si.dir = "none" /\ si.asked = {}
      BY <1>2, <1>4 DEF DmaWrite, Accepted
    <2>4. dram \in [SiAddresses -> Blocks]
      BY <1>2, <2>2
    <2>5. si' = Started(put, "write")
      BY <2>1
    <2> HIDE DEF dram
    <2>6. /\ put \in SiState /\ put.events = 0 /\ put.ram = b /\ put.sent = {b}
          /\ put.asked = {}
      BY <1>1, <2>2, <2>3, <2>4 DEF SiState
    <2> HIDE DEF put
    <2>7. /\ si' \in SiState /\ si'.sent = {b} /\ si'.ram = b /\ si'.dir = "write"
          /\ si'.busy = TRUE /\ si'.asked = {}
      <3>1. si' = [put EXCEPT !.busy = TRUE, !.dir = "write", !.events = 1]
        BY <2>5, <2>6 DEF Started
      <3> QED  BY <2>6, <3>1 DEF SiState
    <2>8. Followed' /\ Asked' /\ AnswerStep
      BY <2>2, <2>3, <2>7 DEF Followed, Asked, AnswerStep
    <2> QED  BY <2>7, <2>8 DEF SiInv, SiTypeOK
  <1>5. CASE DmaRead
    <2> DEFINE asked == {[addr |-> a, sent |-> b] : a \in {si.addr}, b \in si.sent}
               noted == [si EXCEPT !.asked = asked]
               reply == IF si.ready THEN <<"device", si.ram.cmd>> ELSE si.ram.reply
               ram   == [si.ram EXCEPT !.reply = reply]
               put   == [noted EXCEPT !.ram = ram]
    <2>1. ~si.busy /\ si.events = 0 /\ si.dir = "none" /\ si.asked = {}
      BY <1>2, <1>5 DEF DmaRead, Accepted
    <2>2. si' = Started(UpdatePifRam(noted), "read")
      BY <1>5 DEF DmaRead
    <2>3. asked \in SUBSET Requests
      BY <1>2 DEF Requests
    <2>4. ram \in Blocks /\ ram.cmd = si.ram.cmd /\ ram.reply = reply
      BY <1>2 DEF Blocks, Answers
    <2> HIDE DEF asked, ram
    <2>5. /\ noted \in SiState /\ noted.asked = asked /\ noted.events = 0 /\ noted.ram = si.ram
          /\ noted.ready = si.ready /\ noted.sent = si.sent /\ noted.addr = si.addr
      BY <1>1, <2>1, <2>3 DEF SiState
    <2>6. UpdatePifRam(noted) = put
      BY <2>5 DEF UpdatePifRam, ram
    <2> HIDE DEF noted
    <2>7. /\ put \in SiState /\ put.asked = asked /\ put.events = 0 /\ put.ram = ram
          /\ put.ready = si.ready /\ put.sent = si.sent /\ put.addr = si.addr
      BY <2>4, <2>5 DEF SiState
    <2> HIDE DEF put
    <2>8. /\ si' \in SiState /\ si'.sent = si.sent /\ si'.ram = ram /\ si'.dir = "read"
          /\ si'.busy = TRUE /\ si'.asked = asked /\ si'.addr = si.addr /\ si'.ready = si.ready
      <3>1. si' = [put EXCEPT !.busy = TRUE, !.dir = "read", !.events = 1]
        BY <2>2, <2>6, <2>7 DEF Started
      <3> QED  BY <2>7, <3>1 DEF SiState
    <2>9. ASSUME NEW b \in si.sent, b.flags # {}
          PROVE  b.flags \subseteq {"format", "cic"} /\ SeenTo(b)' /\ si'.ram.reply = Answer(b)
      <3>1. b.flags \subseteq {"format", "cic"} /\ SeenTo(b)
        BY <1>1, <2>1, <2>9 DEF Followed
      <3> QED  BY <1>2, <2>4, <2>8, <3>1 DEF SeenTo, Answer
    <2>10. Followed'
      BY <2>8, <2>9 DEF Followed
    <2>11. Asked'
      BY <2>8, <2>9 DEF Asked, asked
    <2>12. AnswerStep
      BY <2>1 DEF AnswerStep
    <2> QED  BY <2>8, <2>10, <2>11, <2>12 DEF SiInv, SiTypeOK
  <1>6. CASE DirectWrite
    <2>1. PICK flags \in {{"lock"}, {"format"}} :
              si' = [WritePifMem(flags) EXCEPT
                        !.sent = IF "format" \in flags
                                 THEN {[si.ram EXCEPT !.flags = flags]} ELSE @]
      BY <1>6 DEF DirectWrite
    <2> DEFINE ram  == [si.ram EXCEPT !.flags = flags]
               sent == IF "format" \in flags THEN {ram} ELSE si.sent
               put  == [si EXCEPT !.ram = ram, !.dir = "write", !.busy = TRUE, !.events = 1]
    <2>2. ~si.busy /\ si.events = 0 /\ si.dir = "none" /\ si.asked = {}
      BY <1>2, <1>6 DEF DirectWrite
    <2>3. WritePifMem(flags) = put
      BY <2>2 DEF WritePifMem
    <2>4. /\ ram \in Blocks /\ ram.flags = flags /\ ram.cmd = si.ram.cmd
          /\ ram.reply = si.ram.reply
      BY <1>2 DEF Blocks, Flags
    <2>5. sent \in SUBSET Blocks
      BY <1>2, <2>4
    <2>6. put.sent = si.sent
      BY <1>1 DEF SiState
    <2>7. si' = [put EXCEPT !.sent = sent]
      BY <2>1, <2>3, <2>6
    <2> HIDE DEF ram, sent
    <2>8. /\ put \in SiState /\ put.ram = ram /\ put.dir = "write" /\ put.busy = TRUE
          /\ put.asked = {} /\ put.ready = si.ready
      BY <1>1, <2>2, <2>4 DEF SiState
    <2> HIDE DEF put
    <2>9. /\ si' \in SiState /\ si'.sent = sent /\ si'.ram = ram /\ si'.dir = "write"
          /\ si'.busy = TRUE /\ si'.asked = {} /\ si'.ready = si.ready
      BY <2>5, <2>7, <2>8 DEF SiState
    <2>10. Followed'
      <3>1. CASE flags = {"lock"}
        <4>1. sent = si.sent
          BY <3>1 DEF sent
        <4>2. \A b \in si.sent : b.flags # {} => b.flags \subseteq {"format", "cic"} /\ SeenTo(b)'
          BY <1>1, <2>2, <2>4, <2>9 DEF Followed, SeenTo
        <4> QED  BY <2>4, <2>9, <3>1, <4>1, <4>2 DEF Followed
      <3>2. CASE flags = {"format"}
        BY <2>4, <2>9, <3>2 DEF Followed, sent
      <3> QED  BY <3>1, <3>2
    <2>11. Asked' /\ AnswerStep
      BY <2>2, <2>9 DEF Asked, AnswerStep
    <2> QED  BY <2>9, <2>10, <2>11 DEF SiInv, SiTypeOK
  <1>7. CASE EndOfSiDma
    <2> DEFINE done == CASE si.dir = "write" -> ProcessPifRam(si)
                         [] si.dir = "read"  -> CopyToRdram(si)
                         [] si.dir = "none"  -> si
    <2>1. si.events = 1 /\ si.busy
      BY <1>2, <1>7 DEF EndOfSiDma
    <2>2. si' = [done EXCEPT !.events = @ - 1, !.dir = "none", !.busy = FALSE, !.asked = {}]
      BY <1>7 DEF EndOfSiDma
    <2> HIDE DEF done
    <2>3. ASSUME done \in SiState, done.events = 1
          PROVE  /\ si' \in SiState /\ si'.dir = "none" /\ si'.events = 0 /\ si'.asked = {}
                 /\ si'.sent = done.sent /\ si'.ram = done.ram /\ si'.ready = done.ready
                 /\ si'.dram = done.dram
      <3>1. si' = [done EXCEPT !.events = 0, !.dir = "none", !.busy = FALSE, !.asked = {}]
        BY <2>2, <2>3
      <3> QED  BY <2>3, <3>1 DEF SiState
    <2>4. CASE si.dir = "write"
      <3> DEFINE ready == ReadyAfter(si)
                 reply == IF "cic" \in si.ram.flags THEN <<"cic", si.ram.cmd>> ELSE si.ram.reply
                 ram   == [si.ram EXCEPT !.reply = reply, !.flags = {}]
      <3>1. si.asked = {}
        BY <1>1, <2>4 DEF Asked
      <3>2. done = [si EXCEPT !.ready = ready, !.ram = ram]
        <4>1. done = ProcessPifRam(si)
          BY <2>4 DEF done
        <4> QED  BY <4>1 DEF ProcessPifRam
      <3>3. /\ ready \in BOOLEAN
            /\ "cic" \in si.ram.flags => ready = FALSE
            /\ "cic" \notin si.ram.flags /\ "format" \in si.ram.flags => ready = TRUE
            /\ "cic" \notin si.ram.flags /\ "format" \notin si.ram.flags => ready = si.ready
        BY <1>2 DEF ReadyAfter
      <3>4. ram \in Blocks /\ ram.reply = reply /\ ram.cmd = si.ram.cmd
        BY <1>2 DEF Blocks, Answers
      <3> HIDE DEF ready, ram
      <3>5. /\ done \in SiState /\ done.events = 1 /\ done.sent = si.sent /\ done.ram = ram
            /\ done.ready = ready
        BY <1>1, <2>1, <3>2, <3>3, <3>4 DEF SiState
      <3>6. /\ si' \in SiState /\ si'.dir = "none" /\ si'.events = 0 /\ si'.asked = {}
            /\ si'.sent = si.sent /\ si'.ram = ram /\ si'.ready = ready
        BY <2>3, <3>5
      <3>7. ASSUME NEW b \in si.sent, b.flags # {}
            PROVE  b.flags \subseteq {"format", "cic"} /\ SeenTo(b)'
        <4>1. /\ b.flags \subseteq {"format", "cic"}
              /\ si.ram = b \/ (si.ram.flags = {"lock"} /\ SeenTo(b))
          BY <1>1, <2>4, <3>7 DEF Followed
        <4>2. CASE si.ram = b
          <5>1. "cic" \notin b.flags => "format" \in b.flags
            BY <3>7, <4>1
          <5> QED  BY <3>3, <3>4, <3>6, <4>1, <4>2, <5>1 DEF SeenTo
        <4>3. CASE si.ram.flags = {"lock"} /\ SeenTo(b)
          <5>1. "cic" \notin si.ram.flags /\ "format" \notin si.ram.flags
            BY <4>3
          <5> QED  BY <3>3, <3>4, <3>6, <4>1, <4>3, <5>1 DEF SeenTo
        <4> QED  BY <4>1, <4>2, <4>3
      <3>8. Followed' /\ Asked' /\ AnswerStep
        BY <3>1, <3>6, <3>7 DEF Followed, Asked, AnswerStep
      <3> QED  BY <3>6, <3>8 DEF SiInv, SiTypeOK
    <2>5. CASE si.dir = "read"
      <3> DEFINE dram == [si.dram EXCEPT ![si.addr] = si.ram]
      <3>1. done = [si EXCEPT !.dram = dram]
        <4>1. done = CopyToRdram(si)
          BY <2>5 DEF done
        <4> QED  BY <4>1 DEF CopyToRdram
      <3>2. dram \in [SiAddresses -> Blocks] /\ dram[si.addr] = si.ram
        BY <1>2
      <3> HIDE DEF dram
      <3>3. /\ done \in SiState /\ done.events = 1 /\ done.sent = si.sent /\ done.ram = si.ram
            /\ done.ready = si.ready /\ done.dram = dram
        BY <1>1, <2>1, <3>1, <3>2 DEF SiState
      <3>4. /\ si' \in SiState /\ si'.dir = "none" /\ si'.events = 0 /\ si'.asked = {}
            /\ si'.sent = si.sent /\ si'.ram = si.ram /\ si'.ready = si.ready /\ si'.dram = dram
        BY <2>3, <3>3
      <3>5. Followed' /\ Asked'
        BY <1>1, <2>5, <3>4 DEF Followed, SeenTo, Asked
      <3>6. AnswerStep
        <4> SUFFICES ASSUME si.asked # {}, NEW r \in si.asked, r.sent.flags # {}
                     PROVE  si'.dram[r.addr].reply = Answer(r.sent)
          BY DEF AnswerStep
        <4>1. r.addr = si.addr /\ r.sent \in si.sent
          BY <1>1 DEF Asked
        <4>2. si.ram.reply = Answer(r.sent)
          BY <1>1, <4>1 DEF Asked
        <4> QED  BY <3>2, <3>4, <4>1, <4>2
      <3> QED  BY <3>4, <3>5, <3>6 DEF SiInv, SiTypeOK
    <2>6. CASE si.dir = "none"
      <3>1. done = si
        BY <2>6 DEF done
      <3>2. si.asked = {}
        BY <1>1, <2>6 DEF Asked
      <3>3. /\ si' \in SiState /\ si'.dir = "none" /\ si'.events = 0 /\ si'.asked = {}
            /\ si'.sent = si.sent /\ si'.ram = si.ram /\ si'.ready = si.ready
        BY <1>1, <2>1, <2>3, <3>1
      <3> QED
        BY <1>1, <2>6, <3>2, <3>3 DEF SiInv, SiTypeOK, Followed, SeenTo, Asked, AnswerStep
    <2>7. si.dir \in {"none", "read", "write"}
      BY <1>1 DEF SiState
    <2> QED  BY <2>4, <2>5, <2>6, <2>7
  <1>8. CASE SiNmi
    <2> DEFINE ram     == [si.ram EXCEPT !.flags = {}]
               dropped == si.dropped \/ si.busy
    <2>1. si' = [si EXCEPT !.ready = FALSE, !.ram = ram, !.events = 0, !.sent = {},
                           !.asked = {}, !.dropped = dropped]
      BY <1>8 DEF SiNmi
    <2>2. ram \in Blocks
      BY <1>2 DEF Blocks, Flags
    <2>3. dropped \in BOOLEAN
      BY <1>1 DEF SiState
    <2> HIDE DEF ram, dropped
    <2>4. /\ si' \in SiState /\ si'.sent = {} /\ si'.asked = {} /\ si'.events = 0
          /\ si'.dir = si.dir /\ si'.busy = si.busy
      BY <1>1, <2>1, <2>2, <2>3 DEF SiState
    <2> QED  BY <2>4 DEF SiInv, SiTypeOK, Followed, Asked, AnswerStep
  <1>9. CASE UNCHANGED si
    BY <1>9 DEF SiInv, SiTypeOK, Followed, SeenTo, Asked, AnswerStep
  <1> QED  BY <1>3, <1>4, <1>5, <1>6, <1>7, <1>8, <1>9 DEF SiNext

\* For any set of commands and buffers: a read that follows a block of commands puts the
\* answer to that block where the program asked for it, whatever locks, challenges,
\* refused requests and resets come between (pif.c, si_controller.c).
THEOREM ReadsAnswer == SiSpec => SiAnswered
  <1>1. SiInit => SiInv
    BY InitSiInv
  <1>2. SiInv /\ [SiNext]_si => SiInv' /\ AnswerStep
    BY StepSiInv
  <1> QED  BY <1>1, <1>2, PTL DEF SiSpec, SiAnswered

-----------------------------------------------------------------------------
(* The disk drive.                                                          *)

\* A plain transfer runs, on one event: queued, or served and not yet acknowledged, and
\* then the program has nothing left to move.
OneEvent ==
    dd.plain => /\ dd.running
                /\ dd.bm <= 1
                /\ "bm" \in dd.int => dd.bm = 0 /\ ~dd.due

\* The program has been asked to see to the buffer, or will be when it reads the status.
Owes(d) == IF "bm" \in d.int THEN d.rq ELSE d.due

\* Reading: the buffer has the sector the program expects, or the next event reads it.
ReadAhead(d, owes) ==
    d.plain /\ ~d.write =>
        IF owes
           THEN /\ d.buf = d.next \/ Flagged(d)
                /\ d.cur = d.next + 1 /\ InBlock(d.next) < DataSectors
           ELSE d.next = IF InBlock(d.cur) < DataSectors THEN d.cur ELSE NextBlock(d.cur)

\* Writing: the program is asked for the sector before the current one, or has given it.
WriteBehind(d, owes) ==
    d.plain /\ d.write =>
        /\ InBlock(d.cur) <= DataSectors
        /\ IF InBlock(d.cur) = 0
              THEN ~owes /\ d.next = d.cur
              ELSE IF owes THEN d.next = d.cur - 1
                           ELSE d.buf = d.cur - 1 /\ d.next = After(d.cur - 1)

DiskInv ==
    /\ DdTypeOK
    /\ OneEvent
    /\ ReadAhead(dd, Owes(dd))
    /\ WriteBehind(dd, Owes(dd))
    /\ SectorsInOrder

-----------------------------------------------------------------------------
\* The places of a block's sectors on the track.
LEMMA SectorPlaces ==
    /\ Stride \in Nat /\ Stride = DataSectors + 5 /\ DataSectors \in Nat /\ DataSectors > 0
    /\ \A c \in Sectors : InBlock(c) = IF c < Stride THEN c ELSE c - Stride
    /\ Starts \subseteq Sectors
    /\ 0 \in Sectors
    /\ Sectors \subseteq Nat
  <1>1. Stride \in Nat /\ Stride = DataSectors + 5 /\ DataSectors \in Nat /\ DataSectors > 0
    BY DiskAssumption DEF Stride
  <1>2. \A c \in Sectors : InBlock(c) = IF c < Stride THEN c ELSE c - Stride
    <2> SUFFICES ASSUME NEW c \in 0 .. 2 * Stride - 1
                 PROVE  c % Stride = IF c < Stride THEN c ELSE c - Stride
      BY DEF InBlock, Sectors
    <2> DEFINE n == Stride
    <2> HIDE DEF n
    <2>1. n \in Nat /\ n > 0 /\ c \in Nat /\ c < 2 * n
      BY <1>1 DEF n
    <2>2. c = n * (c \div n) + (c % n) /\ c % n \in 0 .. n - 1 /\ c \div n \in Nat
      BY <2>1
    <2>3. c \div n < 2
      <3> SUFFICES ASSUME c \div n >= 2 PROVE FALSE
        BY <2>2
      <3>1. n * (c \div n) >= n * 2
        BY <2>1, <2>2
      <3> QED  BY <2>1, <2>2, <3>1
    <2>4. c \div n \in {0, 1}
      BY <2>2, <2>3
    <2>5. c % n = IF c < n THEN c ELSE c - n
      BY <2>1, <2>2, <2>4
    <2> QED  BY <2>5 DEF n
  <1> QED  BY <1>1, <1>2 DEF Starts, Sectors

\* The data sector that follows is a sector, and where the head is next.
LEMMA AfterSector ==
    ASSUME NEW s \in Sectors, InBlock(s) < DataSectors
    PROVE  /\ After(s) \in Sectors /\ s + 1 \in Sectors
           /\ InBlock(s + 1) = InBlock(s) + 1
           /\ NextBlock(s + 1) = NextBlock(s)
           /\ InBlock(s) = DataSectors - 1 => After(s) = NextBlock(s)
           /\ InBlock(s) < DataSectors - 1 => After(s) = s + 1
  BY SectorPlaces DEF After, NextBlock, Sectors

LEMMA InitDiskInv == DdInit => DiskInv
  <1> SUFFICES ASSUME DdInit PROVE DiskInv
    OBVIOUS
  <1>1. 0 \in 0 .. MaxBmEvents /\ 0 \in 0 .. MaxRewrites
    BY DiskAssumption
  <1>2. DdTypeOK
    BY <1>1, SectorPlaces, DiskAssumption DEF DdInit, DdTypeOK, Drive
  <1> QED  BY <1>2 DEF DdInit, DiskInv, OneEvent, ReadAhead, WriteBehind, SectorsInOrder

\* What is forgotten of a transfer that is not plain, or has ended.
LEMMA MeantDrive ==
    ASSUME NEW d \in Drive
    PROVE  /\ Meant(d) \in Drive
           /\ d.plain => Meant(d) = d
           /\ Meant(d).plain = d.plain /\ Meant(d).wrong = d.wrong
  <1>1. CASE d.plain
    BY <1>1 DEF Meant
  <1>2. CASE ~d.plain
    <2>1. Meant(d) = [d EXCEPT !.buf = 0, !.next = 0, !.due = FALSE]
      BY <1>2 DEF Meant
    <2> QED  BY ZenonT(60), <1>2, <2>1, SectorPlaces DEF Drive
  <1> QED  BY <1>1, <1>2

LEMMA EndedDrive ==
    ASSUME NEW d \in Drive
    PROVE  /\ Ended(d) \in Drive
           /\ ~Ended(d).plain
           /\ Ended(d).wrong = d.wrong /\ Ended(d).bm = d.bm /\ Ended(d).cur = d.cur
  <1> DEFINE e == [d EXCEPT !.running = FALSE, !.plain = FALSE, !.rewrites = 0]
  <1>1. 0 \in 0 .. MaxRewrites
    BY DiskAssumption
  <1>2. e \in Drive
    BY <1>1 DEF Drive
  <1>3. Ended(d) = [d EXCEPT !.running = FALSE, !.plain = FALSE, !.rewrites = 0,
                             !.buf = 0, !.next = 0, !.due = FALSE]
    BY DEF Ended, Meant, Drive
  <1>4. Ended(d) = Meant(e)
    BY DEF Ended
  <1> HIDE DEF e
  <1> QED  BY <1>2, <1>3, <1>4, MeantDrive DEF Drive

\* Without a plain transfer there is nothing to say of the sectors.
LEMMA NotPlain ==
    ASSUME dd' \in Drive, ~dd'.plain, ~dd'.wrong
    PROVE  DiskInv'
  BY DEF DiskInv, DdTypeOK, Drive, OneEvent, ReadAhead, WriteBehind, SectorsInOrder

-----------------------------------------------------------------------------
\* One write of the control register.
LEMMA ControlDiskInv == DiskInv /\ BmControl => DiskInv'
  <1> SUFFICES ASSUME DiskInv, BmControl PROVE DiskInv'
    OBVIOUS
  <1>1. PICK start \in BOOLEAN, blocks \in BOOLEAN, reset \in BOOLEAN, mecha \in BOOLEAN,
             from \in Starts :
          LET set   == [dd EXCEPT !.cur = from, !.block = @ \/ blocks, !.held = @ \/ reset,
                                  !.plain = @ /\ ~dd.running,
                                  !.rewrites = IF dd.running THEN @ + 1 ELSE 0]
              acked == IF mecha THEN MechaReset(set) ELSE set
              done  == IF ~reset /\ dd.held THEN BmReset(acked) ELSE acked
          IN  /\ reset => {start, blocks, mecha} = {FALSE}
              /\ dd.running => dd.rewrites < MaxRewrites
              /\ start => dd.bm < MaxBmEvents
              /\ dd' = Meant(IF start THEN Start(Line(done), from) ELSE Line(done))
    BY DEF BmControl
  <1> DEFINE set   == [dd EXCEPT !.cur = from, !.block = @ \/ blocks, !.held = @ \/ reset,
                                 !.plain = @ /\ ~dd.running,
                                 !.rewrites = IF dd.running THEN @ + 1 ELSE 0]
             acked == IF mecha THEN MechaReset(set) ELSE set
             done  == IF ~reset /\ dd.held THEN BmReset(acked) ELSE acked
             line  == Line(done)
             last  == IF start THEN Start(line, from) ELSE line
  <1>2. dd' = Meant(last)
    BY <1>1
  <1>3. dd \in Drive /\ from \in Sectors
    BY SectorPlaces DEF DiskInv, DdTypeOK, Drive
  <1>4. /\ set \in Drive /\ ~set.plain /\ set.bm = dd.bm /\ set.running = dd.running
        /\ set.wrong = FALSE /\ set.write = dd.write
    <2>1. (IF dd.running THEN dd.rewrites + 1 ELSE 0) \in 0 .. MaxRewrites
      BY <1>1, <1>3, DiskAssumption DEF Drive
    <2>2. ~(dd.plain /\ ~dd.running)
      BY DEF DiskInv, OneEvent
    <2>3. dd.wrong = FALSE
      BY <1>3 DEF DiskInv, SectorsInOrder, Drive
    <2> DEFINE block == dd.block \/ blocks
               held == dd.held \/ reset
               plain == dd.plain /\ ~dd.running
               rewrites == IF dd.running THEN dd.rewrites + 1 ELSE 0
    <2>4. block \in BOOLEAN /\ held \in BOOLEAN /\ plain = FALSE
      BY <2>2
    <2>5. set = [dd EXCEPT !.cur = from, !.block = block, !.held = held, !.plain = plain,
                           !.rewrites = rewrites]
      OBVIOUS
    <2> HIDE DEF set, block, held, plain, rewrites
    <2>6. rewrites \in 0 .. MaxRewrites
      BY <2>1 DEF rewrites
    <2>7. set \in Drive
      <3> DEFINE d == [dd EXCEPT !.cur = from, !.block = block, !.held = held]
      <3>1. d \in Drive
        BY <1>3, <2>4 DEF Drive
      <3>2. set = [d EXCEPT !.plain = plain, !.rewrites = rewrites]
        BY <2>5
      <3> HIDE DEF d
      <3> QED  BY <2>4, <2>6, <3>1, <3>2 DEF Drive
    <2> QED  BY <1>3, <2>3, <2>4, <2>5, <2>7 DEF Drive
  <1> HIDE DEF set
  <1>5. /\ acked \in Drive /\ ~acked.plain /\ acked.bm = dd.bm
        /\ acked.wrong = FALSE
    <2>1. CASE ~mecha
      BY <1>4, <2>1
    <2>2. CASE mecha
      <3> DEFINE lost == IF set.mc > 0 THEN set.lost \cup {"mc"} ELSE set.lost
                 int  == set.int \ {"mecha"}
      <3>1. acked = [set EXCEPT !.int = int, !.mc = 0, !.lost = lost]
        BY <2>2 DEF MechaReset
      <3>2. lost \in SUBSET {"bm", "mc"} /\ int \in SUBSET {"bm", "mecha"} /\ 0 \in 0 .. 1
        BY <1>4 DEF Drive
      <3> HIDE DEF acked, lost, int
      <3>3. acked \in Drive
        BY <1>4, <3>1, <3>2 DEF Drive
      <3> QED  BY <1>4, <3>1, <3>3 DEF Drive
    <2> QED  BY <2>1, <2>2
  <1> HIDE DEF acked
  <1>6. /\ done \in Drive /\ ~done.plain /\ done.bm <= dd.bm
        /\ done.wrong = FALSE
    <2>1. CASE ~(~reset /\ dd.held)
      BY <1>3, <1>5, <2>1 DEF Drive
    <2>2. CASE ~reset /\ dd.held
      <3> DEFINE e == Ended(acked)
      <3>1. e \in Drive /\ ~e.plain /\ e.bm = dd.bm /\ e.wrong = FALSE
        BY <1>5, EndedDrive
      <3>2. Less(e.bm) \in 0 .. MaxBmEvents /\ Less(e.bm) <= e.bm
        BY <3>1, DiskAssumption DEF Less, Drive
      <3>3. done = [e EXCEPT !.held = FALSE, !.int = e.int \ {"bm"}, !.rq = FALSE,
                             !.block = FALSE, !.micro = FALSE, !.cur = 0, !.bm = Less(e.bm)]
        BY <2>2 DEF BmReset
      <3> HIDE DEF e, done
      <3> QED  BY <3>1, <3>2, <3>3, SectorPlaces DEF Drive
    <2> QED  BY <2>1, <2>2
  <1> HIDE DEF done
  <1>7. /\ line \in Drive /\ ~line.plain /\ line.bm <= dd.bm
        /\ line.wrong = FALSE
    <2> DEFINE ip3 == done.ip3 /\ done.int # {}
    <2>1. line = [done EXCEPT !.ip3 = ip3] /\ ip3 \in BOOLEAN
      BY DEF Line
    <2> HIDE DEF line, ip3
    <2>2. line \in Drive
      BY <1>6, <2>1 DEF Drive
    <2> QED  BY <1>6, <2>1, <2>2 DEF Drive
  <1> HIDE DEF line
  <1>8. CASE ~start
    <2>1. Meant(last) \in Drive /\ ~Meant(last).plain /\ Meant(last).wrong = FALSE
      BY <1>7, <1>8, MeantDrive
    <2> HIDE DEF last
    <2> QED  BY <1>2, <2>1, NotPlain
  <1>9. CASE start
    <2>1. line.bm + 1 \in 0 .. MaxBmEvents
      BY <1>1, <1>3, <1>7, <1>9, DiskAssumption DEF Drive
    <2> DEFINE plain == ~dd.running /\ line.bm = 0 /\ line.cur = from /\ "bm" \notin line.int
    <2>2. last = [line EXCEPT !.running = TRUE, !.bm = line.bm + 1, !.lost = line.lost \ {"bm"},
                              !.next = from, !.due = FALSE, !.plain = plain]
      BY <1>9 DEF Start, last, plain
    <2>3. last \in Drive
      <3>1. plain \in BOOLEAN /\ line.lost \ {"bm"} \in SUBSET {"bm", "mc"}
        BY <1>7 DEF Drive
      <3> HIDE DEF plain, last
      <3> QED  BY <1>3, <1>7, <2>1, <2>2, <3>1 DEF Drive
    <2>4. /\ last.plain = plain /\ last.wrong = FALSE /\ last.due = FALSE
          /\ last.bm = line.bm + 1 /\ last.int = line.int /\ last.running = TRUE
          /\ last.next = from /\ last.cur = line.cur
      BY <1>7, <2>2 DEF Drive
    <2> HIDE DEF last, plain
    <2>5. CASE ~plain
      <3>1. Meant(last) \in Drive /\ ~Meant(last).plain /\ Meant(last).wrong = FALSE
        BY <2>3, <2>4, <2>5, MeantDrive
      <3> QED  BY <1>2, <3>1, NotPlain
    <2>6. CASE plain
      <3>1. dd' = last
        BY <1>2, <2>3, <2>4, <2>6, MeantDrive
      <3>2. InBlock(from) = 0
        BY SectorPlaces DEF Starts
      <3> QED  BY <2>3, <2>4, <2>6, <3>1, <3>2, SectorPlaces
               DEF plain, DiskInv, DdTypeOK, Drive, OneEvent, Owes, ReadAhead, WriteBehind,
                   SectorsInOrder
    <2> QED  BY <2>5, <2>6
  <1> QED  BY <1>8, <1>9

\* What the transfer's sectors depend on.
Transfer(d) ==
    <<d.plain, d.running, d.write, d.rq, d.due, d.buf, d.next, d.cur, "bm" \in d.int, d.wrong,
      d.micro, d.track>>

\* A step that leaves the transfer alone.
LEMMA TransferLeftAlone ==
    ASSUME DiskInv, dd' \in Drive, Transfer(dd)' = Transfer(dd), dd'.bm = dd.bm
    PROVE  DiskInv'
  BY DEF Transfer, DiskInv, DdTypeOK, OneEvent, Owes, Flagged, Nothing, ReadAhead, WriteBehind,
         SectorsInOrder

\* A command, with what it sets of the drive first.
LEMMA CommandedDrive ==
    ASSUME NEW d \in Drive
    PROVE  /\ Commanded(d) \in Drive
           /\ Transfer(Commanded(d)) = Transfer(d) /\ Commanded(d).bm = d.bm
  <1> DEFINE lost == d.lost \ {"mc"}
  <1>1. Commanded(d) = [d EXCEPT !.busy = TRUE, !.mc = 1, !.lost = lost]
    BY DEF Commanded
  <1>2. lost \in SUBSET {"bm", "mc"} /\ 1 \in 0 .. 1
    BY DEF Drive
  <1> HIDE DEF lost
  <1>3. Commanded(d) \in Drive
    BY ZenonT(60), <1>1, <1>2 DEF Drive
  <1> QED  BY <1>1, <1>3 DEF Drive, Transfer

\* The head moves when no transfer runs.
LEMMA MovedDiskInv ==
    ASSUME DiskInv, ~dd.running, NEW track \in Tracks, NEW write \in BOOLEAN, NEW prot \in BOOLEAN,
           dd' = Commanded([dd EXCEPT !.track = track, !.write = write, !.prot = prot])
    PROVE  DiskInv'
  <1> DEFINE d == [dd EXCEPT !.track = track, !.write = write, !.prot = prot]
  <1>1. /\ d \in Drive
        /\ ~d.plain /\ ~d.wrong
    BY DEF DiskInv, DdTypeOK, Drive, OneEvent, SectorsInOrder
  <1>2. dd' = Commanded(d)
    OBVIOUS
  <1> HIDE DEF d
  <1> QED  BY <1>1, <1>2, CommandedDrive, NotPlain DEF Transfer

LEMMA CommandsDiskInv == DiskInv /\ (Seek \/ Rezero \/ OtherCommand) => DiskInv'
  <1> SUFFICES ASSUME DiskInv, Seek \/ Rezero \/ OtherCommand PROVE DiskInv'
    OBVIOUS
  <1>0. dd \in Drive
    BY DEF DiskInv, DdTypeOK
  <1>1. CASE Seek
    <2>1. PICK track \in Tracks, write \in BOOLEAN :
            dd' = Commanded([dd EXCEPT !.track = track, !.write = write,
                                       !.prot  = write /\ track \in Protected])
      BY <1>1 DEF Seek
    <2> DEFINE prot == write /\ track \in Protected
    <2>2. prot \in BOOLEAN
      OBVIOUS
    <2>3. dd' = Commanded([dd EXCEPT !.track = track, !.write = write, !.prot = prot])
      BY <2>1
    <2> HIDE DEF prot
    <2> QED  BY <1>1, <2>2, <2>3, MovedDiskInv DEF Seek
  <1>2. CASE Rezero
    <2>1. [dd EXCEPT !.track = SystemTrack, !.write = TRUE]
            = [dd EXCEPT !.track = SystemTrack, !.write = TRUE, !.prot = dd.prot]
      BY <1>0 DEF Drive
    <2>2. dd' = Commanded([dd EXCEPT !.track = SystemTrack, !.write = TRUE, !.prot = dd.prot])
      BY <1>2, <2>1 DEF Rezero
    <2>3. dd.prot \in BOOLEAN /\ TRUE \in BOOLEAN
      BY <1>0 DEF Drive
    <2> QED  BY <1>2, <2>2, <2>3, MovedDiskInv, DiskAssumption DEF Rezero
  <1>3. CASE OtherCommand
    <2>1. dd' = Commanded(dd)
      BY <1>3 DEF OtherCommand
    <2> QED  BY <1>0, <2>1, CommandedDrive, TransferLeftAlone DEF Transfer
  <1> QED  BY <1>1, <1>2, <1>3

LEMMA SignalDrive ==
    ASSUME NEW d \in Drive, NEW bit \in {"bm", "mecha"}
    PROVE  /\ Signal(d, bit) \in Drive
           /\ Signal(d, bit) = [d EXCEPT !.int = d.int \cup {bit}, !.ip3 = TRUE]
  <1> DEFINE int == d.int \cup {bit}
  <1>1. Signal(d, bit) = [d EXCEPT !.int = int, !.ip3 = TRUE]
    BY DEF Signal
  <1>2. int \in SUBSET {"bm", "mecha"}
    BY DEF Drive
  <1>3. Signal(d, bit) \in Drive
    <2> HIDE DEF int
    <2> QED  BY <1>1, <1>2 DEF Drive
  <1> QED  BY <1>1, <1>3

LEMMA MechaDiskInv == DiskInv /\ MechaEvent => DiskInv'
  <1> SUFFICES ASSUME DiskInv, MechaEvent PROVE DiskInv'
    OBVIOUS
  <1> DEFINE d == [dd EXCEPT !.mc = 0, !.busy = FALSE]
  <1>1. dd \in Drive /\ 0 \in 0 .. 1
    BY DEF DiskInv, DdTypeOK
  <1>2. d \in Drive
    BY <1>1 DEF Drive
  <1>3. Transfer(d) = Transfer(dd) /\ d.bm = dd.bm
    BY <1>1 DEF Drive, Transfer
  <1>4. dd' = Signal(d, "mecha")
    BY SMTT(40) DEF MechaEvent
  <1> HIDE DEF d
  <1>5. dd' \in Drive /\ dd' = [d EXCEPT !.int = d.int \cup {"mecha"}, !.ip3 = TRUE]
    BY <1>2, <1>4, SignalDrive
  <1>6. ("bm" \in d.int \cup {"mecha"}) <=> "bm" \in d.int
    OBVIOUS
  <1> DEFINE int == d.int \cup {"mecha"}
  <1>7. dd' = [d EXCEPT !.int = int, !.ip3 = TRUE] /\ ("bm" \in int <=> "bm" \in d.int)
    BY <1>5, <1>6
  <1> HIDE DEF int
  <1>8. Transfer(dd)' = Transfer(d) /\ dd'.bm = d.bm
    BY <1>2, <1>7 DEF Transfer, Drive
  <1> QED  BY <1>3, <1>5, <1>8, TransferLeftAlone

LEMMA ResetsDiskInv == DiskInv /\ (HardReset \/ DdNmi) => DiskInv'
  <1> SUFFICES ASSUME DiskInv, HardReset \/ DdNmi PROVE DiskInv'
    OBVIOUS
  <1>0. dd \in Drive /\ 0 \in 0 .. MaxBmEvents /\ 0 \in 0 .. 1
    BY DiskAssumption DEF DiskInv, DdTypeOK
  <1>1. CASE HardReset
    <2> DEFINE e == Ended(dd)
               bm == Less(e.bm)
    <2>1. e \in Drive /\ ~e.plain /\ e.wrong = FALSE
      BY <1>0, EndedDrive DEF DiskInv, SectorsInOrder, DdTypeOK, Drive
    <2>2. bm \in 0 .. MaxBmEvents
      BY <2>1, DiskAssumption DEF Less, Drive
    <2>3. dd' = [e EXCEPT !.mc = 0, !.bm = bm, !.rq = FALSE, !.int = {},
                          !.busy = FALSE, !.block = FALSE, !.micro = FALSE, !.cur = 0,
                          !.ip3 = FALSE, !.lost = {}]
      BY <1>1 DEF HardReset
    <2> HIDE DEF e, bm
    <2>4. dd' \in Drive
      BY ZenonT(60), <1>0, <2>1, <2>2, <2>3, SectorPlaces DEF Drive
    <2>5. ~dd'.plain /\ ~dd'.wrong
      BY <2>1, <2>3 DEF Drive
    <2> QED  BY <2>4, <2>5, NotPlain
  <1>2. CASE DdNmi
    <2> DEFINE lost == dd.lost \cup (IF dd.busy THEN {"mc"} ELSE {})
                               \cup (IF dd.running THEN {"bm"} ELSE {})
               d    == [dd EXCEPT !.mc = 0, !.bm = 0, !.ip3 = FALSE, !.plain = FALSE,
                                  !.lost = lost]
    <2>1. dd' = Meant(d)
      BY <1>2 DEF DdNmi
    <2>2. lost \in SUBSET {"bm", "mc"}
      BY <1>0 DEF Drive
    <2> HIDE DEF lost
    <2>3. d \in Drive /\ ~d.plain /\ ~d.wrong
      BY <1>0, <2>2 DEF Drive, DiskInv, SectorsInOrder
    <2> HIDE DEF d
    <2> QED  BY <2>1, <2>3, MeantDrive, NotPlain
  <1> QED  BY <1>1, <1>2

-----------------------------------------------------------------------------
\* The drive's own step in a transfer: what it makes of a drive whose buffer has been
\* seen to, before the program is told.
Carries(e, on) ==
    /\ on \in Drive
    /\ ~on.wrong
    /\ on.bm = e.bm /\ on.write = e.write
    /\ on.plain => e.plain /\ on.running = e.running /\ on.due = e.due
    /\ ReadAhead(on, on.rq)
    /\ WriteBehind(on, on.rq)

LEMMA EndedCarries ==
    ASSUME NEW e \in Drive, ~e.wrong
    PROVE  Carries(e, Ended(e))
  <1>1. Ended(e) \in Drive /\ ~Ended(e).plain /\ ~Ended(e).wrong /\ Ended(e).bm = e.bm
    BY EndedDrive
  <1>2. Ended(e).write = e.write
    <2>1. Ended(e) = [e EXCEPT !.running = FALSE, !.plain = FALSE, !.rewrites = 0,
                               !.buf = 0, !.next = 0, !.due = FALSE]
      BY DEF Ended, Meant, Drive
    <2> HIDE DEF Ended
    <2> QED  BY <2>1 DEF Drive
  <1> HIDE DEF Ended
  <1> QED  BY <1>1, <1>2 DEF Carries, ReadAhead, WriteBehind

\* The sector the program gave is the one written, or the drive says there is none.
LEMMA WrittenDrive ==
    ASSUME NEW e \in Drive, ~e.wrong, e.plain => e.buf = e.cur - 1
    PROVE  \E micro \in BOOLEAN : Written(e) = [e EXCEPT !.micro = micro]
  <1>1. CASE Nothing(e, e.cur - 1)
    BY <1>1 DEF Written
  <1>2. CASE ~Nothing(e, e.cur - 1)
    <2> DEFINE wrong == e.wrong \/ (e.plain /\ e.buf # e.cur - 1)
    <2>1. Written(e) = [e EXCEPT !.wrong = wrong]
      BY <1>2 DEF Written
    <2>2. wrong = e.wrong
      BY DEF Drive
    <2> HIDE DEF wrong
    <2>3. Written(e) = [e EXCEPT !.micro = e.micro] /\ e.micro \in BOOLEAN
      BY <2>1, <2>2 DEF Drive
    <2> QED  BY <2>3
  <1> QED  BY <1>1, <1>2

LEMMA MovedDrive ==
    ASSUME NEW e \in Drive, NEW cur \in Sectors
    PROVE  /\ Moved(e, cur) \in Drive
           /\ Moved(e, cur) = [e EXCEPT !.cur = cur, !.rq = TRUE]
  BY DEF Moved, Drive

\* A write goes on to the sector after the one the program is asked for.
LEMMA AskCarries ==
    ASSUME NEW e \in Drive, ~e.wrong, e.write, NEW block \in BOOLEAN, NEW micro \in BOOLEAN,
           NEW cur \in Sectors, InBlock(cur) \in 1 .. DataSectors, e.plain => e.next = cur - 1
    PROVE  Carries(e, Moved([e EXCEPT !.micro = micro, !.block = block], cur))
  <1> DEFINE d == [e EXCEPT !.micro = micro, !.block = block, !.cur = cur, !.rq = TRUE]
  <1>1. Moved([e EXCEPT !.micro = micro, !.block = block], cur) = d
    BY DEF Moved, Drive
  <1>2. d \in Drive /\ ~d.wrong /\ d.bm = e.bm /\ d.write /\ d.plain = e.plain
        /\ d.running = e.running /\ d.due = e.due /\ d.next = e.next /\ d.rq /\ d.cur = cur
    BY ZenonT(60) DEF Drive
  <1> HIDE DEF d
  <1>3. ReadAhead(d, d.rq) /\ WriteBehind(d, d.rq)
    BY <1>2 DEF ReadAhead, WriteBehind
  <1> QED  BY <1>1, <1>2, <1>3 DEF Carries

LEMMA SameBlock ==
    ASSUME NEW e \in Drive, NEW micro \in BOOLEAN
    PROVE  /\ [e EXCEPT !.micro = micro, !.block = e.block] = [e EXCEPT !.micro = micro]
           /\ [e EXCEPT !.micro = e.micro, !.block = e.block] = e
           /\ e.block \in BOOLEAN /\ e.micro \in BOOLEAN
  BY DEF Drive

LEMMA WriteCarries ==
    ASSUME NEW e \in Drive, ~e.wrong, ~e.rq, e.write, WriteBehind(e, FALSE)
    PROVE  Carries(e, WriteOn(e))
  <1> DEFINE s == InBlock(e.cur)
  <1>1. e.cur \in Sectors /\ s \in Nat /\ s < Stride
    BY SectorPlaces DEF Drive, Sectors
  <1>2. CASE s = 0
    <2>1. WriteOn(e) = Moved(e, e.cur + 1)
      BY <1>1, <1>2, SectorPlaces DEF WriteOn
    <2>2. e.cur + 1 \in Sectors /\ InBlock(e.cur + 1) = 1
      BY <1>1, <1>2, SectorPlaces DEF Sectors
    <2>3. e.plain => e.next = e.cur
      BY <1>2 DEF WriteBehind
    <2>4. InBlock(e.cur + 1) \in 1 .. DataSectors /\ (e.plain => e.next = (e.cur + 1) - 1)
      BY <1>1, <2>2, <2>3, SectorPlaces DEF Sectors
    <2>5. Carries(e, Moved([e EXCEPT !.micro = e.micro, !.block = e.block], e.cur + 1))
      BY <2>2, <2>4, AskCarries, SameBlock
    <2> QED  BY <2>1, <2>5, SameBlock
  <1>3. ASSUME s # 0 PROVE e.plain => e.buf = e.cur - 1 /\ e.next = After(e.cur - 1)
    BY <1>3 DEF WriteBehind
  <1> PICK micro \in BOOLEAN : s # 0 => Written(e) = [e EXCEPT !.micro = micro]
    BY <1>3, WrittenDrive
  <1>4. CASE s \in 1 .. DataSectors - 1
    <2>1. WriteOn(e) = Moved([e EXCEPT !.micro = micro], e.cur + 1)
      BY <1>1, <1>4, SectorPlaces DEF WriteOn
    <2>2. e.cur + 1 \in Sectors /\ InBlock(e.cur + 1) = s + 1
      BY <1>1, <1>4, SectorPlaces DEF Sectors
    <2>3. e.cur - 1 \in Sectors /\ InBlock(e.cur - 1) = s - 1
      BY <1>1, <1>4, SectorPlaces DEF Sectors
    <2>4. After(e.cur - 1) = e.cur
      BY <1>1, <1>4, <2>3, AfterSector, SectorPlaces DEF Sectors
    <2>5. InBlock(e.cur + 1) \in 1 .. DataSectors /\ (e.plain => e.next = (e.cur + 1) - 1)
      BY <1>1, <1>3, <1>4, <2>2, <2>4, SectorPlaces DEF Sectors
    <2>6. Carries(e, Moved([e EXCEPT !.micro = micro, !.block = e.block], e.cur + 1))
      BY <2>2, <2>5, AskCarries, SameBlock
    <2> QED  BY <2>1, <2>6, SameBlock
  <1>5. CASE s = DataSectors /\ e.block
    <2>1. WriteOn(e) = Moved([e EXCEPT !.micro = micro, !.block = FALSE], Resumed(e.cur))
      <3>1. WriteOn(e) = Moved([Written(e) EXCEPT !.block = FALSE], Resumed(e.cur))
        BY <1>1, <1>5, SectorPlaces DEF WriteOn
      <3>2. [[e EXCEPT !.micro = micro] EXCEPT !.block = FALSE]
              = [e EXCEPT !.micro = micro, !.block = FALSE]
        BY DEF Drive
      <3>3. Written(e) = [e EXCEPT !.micro = micro]
        BY <1>5, SectorPlaces
      <3> QED  BY <3>1, <3>2, <3>3
    <2>2. Resumed(e.cur) \in Sectors /\ InBlock(Resumed(e.cur)) = 1
      BY <1>1, SectorPlaces DEF Sectors, Resumed, NextBlock
    <2>3. e.cur - 1 \in Sectors /\ InBlock(e.cur - 1) = s - 1 /\ NextBlock(e.cur - 1) = NextBlock(e.cur)
      BY <1>1, <1>5, SectorPlaces DEF Sectors, NextBlock
    <2>4. After(e.cur - 1) = Resumed(e.cur) - 1
      BY <1>5, <2>3, SectorPlaces DEF After, Resumed, NextBlock
    <2>5. FALSE \in BOOLEAN /\ InBlock(Resumed(e.cur)) \in 1 .. DataSectors
          /\ (e.plain => e.next = Resumed(e.cur) - 1)
      BY <1>3, <1>5, <2>2, <2>4, SectorPlaces
    <2>6. Carries(e, Moved([e EXCEPT !.micro = micro, !.block = FALSE], Resumed(e.cur)))
      BY <2>2, <2>5, AskCarries
    <2> QED  BY <2>1, <2>6
  <1>6. CASE s = DataSectors /\ ~e.block
    <2> DEFINE m   == [e EXCEPT !.micro = micro]
               d   == Ended(m)
               cur == d.cur + 1
    <2>1. WriteOn(e) = [d EXCEPT !.cur = cur]
      BY <1>1, <1>6, SectorPlaces DEF WriteOn
    <2>2. m \in Drive /\ ~m.wrong /\ m.cur = e.cur /\ m.bm = e.bm /\ m.write = e.write
      BY DEF Drive
    <2> HIDE DEF m
    <2>3. Carries(m, d) /\ ~d.plain /\ d.cur = e.cur
      BY <2>2, EndedCarries, EndedDrive
    <2>4. cur \in Sectors
      BY <1>1, <1>6, <2>3, SectorPlaces DEF Sectors
    <2> HIDE DEF d, cur
    <2>5. [d EXCEPT !.cur = cur] \in Drive
      BY <2>3, <2>4 DEF Carries, Drive
    <2> QED  BY ZenonT(60), <2>1, <2>2, <2>3, <2>5 DEF Carries, Drive, ReadAhead, WriteBehind
  <1>7. CASE s > DataSectors
    <2>1. WriteOn(e) = e
      BY <1>1, <1>7, SectorPlaces DEF WriteOn
    <2> QED  BY <2>1 DEF Carries, ReadAhead, Drive
  <1> QED  BY <1>1, <1>2, <1>4, <1>5, <1>6, <1>7, SectorPlaces

LEMMA ReadCarries ==
    ASSUME NEW e \in Drive, ~e.wrong, ~e.rq, ~e.write, ReadAhead(e, FALSE)
    PROVE  Carries(e, ReadOn(e))
  <1> DEFINE s == InBlock(e.cur)
  <1>1. e.cur \in Sectors /\ s \in Nat /\ s < Stride
    BY SectorPlaces DEF Drive, Sectors
  <1>2. WriteBehind(e, FALSE)
    BY DEF WriteBehind
  <1>3. CASE s < DataSectors
    <2> DEFINE micro == e.micro \/ Nothing(e, e.cur)
               buf   == IF Nothing(e, e.cur) THEN e.buf ELSE e.cur
               on    == [e EXCEPT !.micro = micro, !.buf = buf, !.cur = e.cur + 1, !.rq = TRUE]
    <2>1. ReadOn(e) = Moved(Read(e), e.cur + 1)
      BY <1>1, <1>3, SectorPlaces DEF ReadOn
    <2>2. micro \in BOOLEAN /\ buf \in Sectors /\ (buf = e.cur \/ (micro /\ Nothing(e, e.cur)))
      <3>1. e.micro \in BOOLEAN /\ e.buf \in Sectors /\ Nothing(e, e.cur) \in BOOLEAN
        BY DEF Drive, Nothing
      <3>2. CASE Nothing(e, e.cur)
        BY <3>1, <3>2
      <3>3. CASE ~Nothing(e, e.cur)
        BY <1>1, <3>1, <3>3
      <3> QED  BY <3>2, <3>3
    <2>3. Moved(Read(e), e.cur + 1) = on
      <3>1. CASE Nothing(e, e.cur)
        BY <3>1 DEF Moved, Read, Drive
      <3>2. CASE ~Nothing(e, e.cur)
        BY <3>2 DEF Moved, Read, Drive
      <3> QED  BY <3>1, <3>2
    <2>4. e.cur + 1 \in Sectors
      BY <1>1, <1>3, SectorPlaces DEF Sectors
    <2> HIDE DEF micro, buf
    <2>5. on \in Drive /\ on.buf = buf /\ on.cur = e.cur + 1 /\ on.rq /\ on.next = e.next
          /\ on.plain = e.plain /\ on.running = e.running /\ ~on.wrong /\ ~on.write
          /\ on.bm = e.bm /\ on.write = e.write /\ on.due = e.due /\ on.micro = micro
          /\ on.track = e.track
      BY <1>1, <2>2, <2>4 DEF Drive
    <2>6. e.plain => e.next = e.cur
      BY <1>3 DEF ReadAhead
    <2> HIDE DEF on
    <2>7. on.plain => on.buf = on.next \/ Flagged(on)
      BY <2>2, <2>5, <2>6 DEF Flagged, Nothing
    <2> QED  BY <1>3, <2>1, <2>3, <2>5, <2>6, <2>7 DEF Carries, ReadAhead, WriteBehind
  <1>4. ASSUME s >= DataSectors PROVE e.plain => e.next = NextBlock(e.cur)
    BY <1>1, <1>4, SectorPlaces DEF ReadAhead
  <1>5. CASE s \in DataSectors .. DataSectors + 2
    <2> DEFINE cur == e.cur + 1
               on  == [e EXCEPT !.cur = cur]
    <2>1. ReadOn(e) = on
      BY <1>1, <1>5, SectorPlaces DEF ReadOn
    <2>2. cur \in Sectors /\ InBlock(cur) >= DataSectors /\ NextBlock(cur) = NextBlock(e.cur)
      BY <1>1, <1>5, SectorPlaces DEF Sectors, NextBlock
    <2> HIDE DEF cur
    <2>3. on \in Drive /\ on.cur = cur /\ ~on.rq /\ on.next = e.next
          /\ on.plain = e.plain /\ on.running = e.running /\ ~on.wrong /\ ~on.write
          /\ on.bm = e.bm /\ on.write = e.write /\ on.due = e.due
      BY <1>1, <2>2 DEF Drive
    <2>4. InBlock(cur) \in Nat
      BY <2>2, SectorPlaces DEF Sectors
    <2> HIDE DEF on
    <2> QED  BY <1>4, <1>5, <2>1, <2>2, <2>3, <2>4, SectorPlaces DEF Carries, ReadAhead, WriteBehind
  <1>6. CASE s = DataSectors + 3 /\ e.block
    <2> DEFINE cur == NextBlock(e.cur)
               on  == [e EXCEPT !.cur = cur, !.block = FALSE]
    <2>1. ReadOn(e) = on
      BY <1>1, <1>6, SectorPlaces DEF ReadOn
    <2>2. cur \in Sectors /\ InBlock(cur) = 0
      BY <1>1, SectorPlaces DEF Sectors, NextBlock
    <2>3. e.plain => e.next = cur
      BY <1>4, <1>6, SectorPlaces
    <2> HIDE DEF cur
    <2>4. on \in Drive /\ on.cur = cur /\ ~on.rq /\ on.next = e.next
          /\ on.plain = e.plain /\ on.running = e.running /\ ~on.wrong /\ ~on.write
          /\ on.bm = e.bm /\ on.write = e.write /\ on.due = e.due
      BY <2>2 DEF Drive
    <2> HIDE DEF on
    <2> QED  BY <2>1, <2>2, <2>3, <2>4, SectorPlaces DEF Carries, ReadAhead, WriteBehind
  <1>7. CASE s = DataSectors + 3 /\ ~e.block
    <2>1. ReadOn(e) = Ended(e)
      BY <1>1, <1>7, SectorPlaces DEF ReadOn
    <2> QED  BY <2>1, EndedCarries
  <1>8. CASE s > DataSectors + 3
    <2>1. ReadOn(e) = e
      BY <1>1, <1>8, SectorPlaces DEF ReadOn
    <2> QED  BY <1>2, <2>1 DEF Carries, Drive
  <1> QED  BY <1>1, <1>3, <1>5, <1>6, <1>7, <1>8, SectorPlaces

\* The error of a track: a write ends, a read is tried again.
LEMMA FailedCarries ==
    ASSUME NEW e \in Drive, ~e.wrong, ~e.rq, ReadAhead(e, FALSE), WriteBehind(e, FALSE)
    PROVE  Carries(e, Failed(e))
  <1>1. CASE e.write
    <2> DEFINE d == Ended(e)
    <2>1. Carries(e, d) /\ ~d.plain
      BY EndedCarries, EndedDrive
    <2>2. Failed(e) = [d EXCEPT !.micro = TRUE]
      BY <1>1 DEF Failed
    <2> HIDE DEF d
    <2>3. [d EXCEPT !.micro = TRUE] \in Drive
      BY <2>1 DEF Carries, Drive
    <2> QED  BY <2>1, <2>2, <2>3 DEF Carries, Drive, ReadAhead, WriteBehind
  <1>2. CASE ~e.write
    <2>1. Failed(e) = [e EXCEPT !.micro = TRUE]
      BY <1>2 DEF Failed
    <2>2. [e EXCEPT !.micro = TRUE] \in Drive
      BY DEF Drive
    <2> QED  BY ZenonT(60), <2>1, <2>2 DEF Carries, Drive, ReadAhead, WriteBehind
  <1> QED  BY <1>1, <1>2

\* The event of a sector.
LEMMA BmDiskInv == DiskInv /\ BmEvent => DiskInv'
  <1> SUFFICES ASSUME DiskInv, BmEvent PROVE DiskInv'
    OBVIOUS
  <1> DEFINE bm    == dd.bm - 1
             plain == dd.plain /\ ~dd.due
             d     == [dd EXCEPT !.bm = bm, !.plain = plain]
  <1>1. dd \in Drive /\ ~dd.wrong /\ dd.bm > 0 /\ dd' = IF d.running THEN UpdateBm(d) ELSE d
    BY DEF DiskInv, DdTypeOK, SectorsInOrder, BmEvent
  <1>2. bm \in 0 .. MaxBmEvents /\ plain \in BOOLEAN
    BY <1>1, DiskAssumption DEF Drive
  <1>3. plain => dd.plain /\ dd.running /\ bm = 0 /\ ~dd.due /\ ~Owes(dd)
    BY <1>1 DEF DiskInv, OneEvent, Owes, Drive
  <1> HIDE DEF bm, plain
  <1>4. CASE ~dd.running
    <2>1. d \in Drive /\ ~d.plain /\ ~d.wrong /\ d.running = dd.running
      BY <1>1, <1>2, <1>3, <1>4 DEF Drive
    <2>2. dd' = d
      BY <1>1, <1>4, <2>1
    <2> HIDE DEF d
    <2> QED  BY <2>1, <2>2, NotPlain
  <1>5. CASE dd.running
    <2> DEFINE e  == [dd EXCEPT !.bm = bm, !.plain = plain, !.rq = FALSE]
               on == IF Unable(e) THEN Failed(e) ELSE IF e.write THEN WriteOn(e) ELSE ReadOn(e)
    <2>1. e \in Drive /\ ~e.wrong /\ ~e.rq /\ e.bm = bm /\ e.running
          /\ e.plain = plain /\ e.due = dd.due /\ e.write = dd.write /\ e.buf = dd.buf
          /\ e.next = dd.next /\ e.cur = dd.cur
      BY <1>1, <1>2, <1>5 DEF Drive
    <2>2. ReadAhead(e, FALSE) /\ WriteBehind(e, FALSE)
      <3> HIDE DEF e
      <3> QED  BY <1>3, <2>1 DEF DiskInv, ReadAhead, WriteBehind
    <2>3. dd' = Signal(Meant(on), "bm")
      <3>1. d.running /\ [d EXCEPT !.rq = FALSE] = e
        BY <1>1, <1>5 DEF Drive
      <3>2. dd' = UpdateBm(d)
        BY <1>1, <3>1
      <3> QED  BY <3>1, <3>2 DEF UpdateBm
    <2> HIDE DEF d, e
    <2>4. Carries(e, on)
      BY <2>1, <2>2, FailedCarries, WriteCarries, ReadCarries
    <2> HIDE DEF on
    <2> DEFINE m == Meant(on)
    <2>5. m \in Drive /\ m.plain = on.plain /\ ~m.wrong /\ (on.plain => m = on)
      BY <2>4, MeantDrive DEF Carries
    <2>6. dd' \in Drive /\ dd' = [m EXCEPT !.int = m.int \cup {"bm"}, !.ip3 = TRUE]
      BY <2>3, <2>5, SignalDrive
    <2> HIDE DEF m
    <2>7. /\ "bm" \in dd'.int /\ dd'.plain = m.plain /\ dd'.wrong = m.wrong /\ dd'.rq = m.rq
          /\ dd'.bm = m.bm /\ dd'.running = m.running /\ dd'.buf = m.buf /\ dd'.next = m.next
          /\ dd'.cur = m.cur /\ dd'.write = m.write /\ dd'.due = m.due /\ dd'.micro = m.micro
          /\ dd'.track = m.track
      <3> DEFINE int == m.int \cup {"bm"}
      <3>1. dd' = [m EXCEPT !.int = int, !.ip3 = TRUE] /\ "bm" \in int
        BY <2>6
      <3> HIDE DEF int
      <3> QED  BY <2>5, <3>1 DEF Drive
    <2>8. CASE ~m.plain
      BY <2>5, <2>6, <2>7, <2>8, NotPlain
    <2>9. CASE m.plain
      <3>1. m = on /\ m.running /\ m.bm = 0 /\ ~m.due
        BY <1>3, <2>1, <2>4, <2>5, <2>9 DEF Carries
      <3>2. ReadAhead(dd', dd'.rq) /\ WriteBehind(dd', dd'.rq)
        BY <2>4, <2>7, <3>1 DEF Carries, ReadAhead, WriteBehind, Flagged, Nothing
      <3> QED  BY <2>5, <2>6, <2>7, <3>1, <3>2
               DEF DiskInv, DdTypeOK, OneEvent, Owes, SectorsInOrder
    <2> QED  BY <2>8, <2>9
  <1> QED  BY <1>4, <1>5

-----------------------------------------------------------------------------
LEMMA MoveDiskInv == DiskInv /\ MoveSector => DiskInv'
  <1> SUFFICES ASSUME DiskInv, MoveSector PROVE DiskInv'
    OBVIOUS
  <1> DEFINE next  == After(dd.next)
             buf   == IF dd.write THEN dd.next ELSE dd.buf
             wrong == dd.wrong \/ (/\ dd.plain /\ ~dd.write
                                   /\ dd.buf # dd.next /\ ~Flagged(dd))
             d     == [dd EXCEPT !.due = FALSE, !.next = next, !.buf = buf, !.wrong = wrong]
  <1>1. dd \in Drive /\ dd.due /\ (dd.plain => "bm" \notin dd.int /\ Owes(dd))
    BY DEF DiskInv, DdTypeOK, OneEvent, Owes, MoveSector
  <1>2. wrong = FALSE
    BY <1>1 DEF DiskInv, SectorsInOrder, ReadAhead
  <1>3. buf \in Sectors
    BY <1>1 DEF Drive
  <1>4. dd' = Meant(d)
    BY DEF MoveSector
  <1> HIDE DEF wrong
  <1>5. CASE ~dd.plain
    <2>1. dd' = [dd EXCEPT !.due = FALSE, !.next = 0, !.buf = 0, !.wrong = wrong]
      BY <1>1, <1>4, <1>5 DEF Meant, Drive
    <2>2. dd' \in Drive /\ ~dd'.plain /\ ~dd'.wrong
      BY <1>1, <1>2, <1>5, <2>1, SectorPlaces DEF Drive
    <2> QED  BY <2>2, NotPlain
  <1>6. CASE dd.plain
    <2>1. dd' = d
      BY <1>1, <1>4, <1>6 DEF Meant, Drive
    <2>2. dd.next \in Sectors /\ InBlock(dd.next) < DataSectors /\ dd.cur = dd.next + 1
      <3>1. CASE ~dd.write
        BY <1>1, <1>6, <3>1 DEF DiskInv, ReadAhead, Drive
      <3>2. CASE dd.write
        <4>1. dd.next = dd.cur - 1 /\ InBlock(dd.cur) <= DataSectors /\ InBlock(dd.cur) # 0
          BY <1>1, <1>6, <3>2 DEF DiskInv, WriteBehind
        <4> QED  BY <1>1, <4>1, SectorPlaces DEF Drive, Sectors
      <3> QED  BY <3>1, <3>2
    <2>3. next \in Sectors
      BY <2>2, AfterSector
    <2>4. next = IF InBlock(dd.cur) < DataSectors THEN dd.cur ELSE NextBlock(dd.cur)
      BY <2>2, AfterSector, SectorPlaces DEF Sectors
    <2> HIDE DEF next, buf
    <2>5. d \in Drive /\ ~d.wrong /\ ~d.due /\ d.plain = dd.plain /\ d.int = dd.int
          /\ d.bm = dd.bm /\ d.running = dd.running /\ d.write = dd.write /\ d.cur = dd.cur
          /\ d.buf = buf /\ d.next = next
      BY <1>1, <1>2, <1>3, <2>3 DEF Drive
    <2> HIDE DEF d
    <2>6. ReadAhead(d, FALSE)
      BY <2>4, <2>5 DEF ReadAhead
    <2>7. WriteBehind(d, FALSE)
      <3> SUFFICES ASSUME dd.write
                   PROVE  /\ InBlock(dd.cur) <= DataSectors
                          /\ InBlock(dd.cur) # 0
                          /\ buf = dd.cur - 1 /\ next = After(dd.cur - 1)
        BY <2>5 DEF WriteBehind
      <3>1. /\ InBlock(dd.cur) <= DataSectors
            /\ InBlock(dd.cur) # 0
            /\ dd.next = dd.cur - 1
        BY <1>1, <1>6 DEF DiskInv, WriteBehind
      <3>2. buf = dd.next /\ next = After(dd.next)
        BY DEF buf, next
      <3> QED  BY <3>1, <3>2
    <2>8. OneEvent' /\ Owes(dd)' = FALSE
      BY <1>1, <1>6, <2>1, <2>5 DEF DiskInv, OneEvent, Owes
    <2> QED  BY <2>1, <2>5, <2>6, <2>7, <2>8 DEF DiskInv, DdTypeOK, SectorsInOrder
  <1> QED  BY <1>5, <1>6

LEMMA StatusDiskInv == DiskInv /\ ReadStatus => DiskInv'
  <1> SUFFICES ASSUME DiskInv, ReadStatus PROVE DiskInv'
    OBVIOUS
  <1> DEFINE int == dd.int \ {"bm"}
             bm  == dd.bm + 1
             d   == [dd EXCEPT !.int = int, !.ip3 = FALSE, !.bm = bm, !.due = dd.rq]
  <1>1. dd \in Drive /\ ~dd.wrong /\ "bm" \in dd.int /\ dd.bm < MaxBmEvents
    BY DEF DiskInv, DdTypeOK, SectorsInOrder, ReadStatus
  <1>2. dd' = Meant(d)
    BY DEF ReadStatus, Acknowledged
  <1>3. bm \in 0 .. MaxBmEvents /\ int \in SUBSET {"bm", "mecha"} /\ "bm" \notin int
    BY <1>1, DiskAssumption DEF Drive
  <1>4. dd.plain => dd.running /\ bm = 1 /\ Owes(dd) = dd.rq
    BY <1>1 DEF DiskInv, OneEvent, Owes
  <1> HIDE DEF int, bm
  <1>5. d \in Drive /\ d.int = int /\ d.bm = bm /\ d.due = dd.rq
        /\ d.plain = dd.plain /\ d.running = dd.running /\ d.write = dd.write
        /\ d.cur = dd.cur /\ d.buf = dd.buf /\ d.next = dd.next /\ d.wrong = dd.wrong
        /\ d.micro = dd.micro /\ d.track = dd.track
    BY <1>1, <1>3 DEF Drive
  <1> HIDE DEF d
  <1>6. CASE ~dd.plain
    BY <1>1, <1>2, <1>5, <1>6, MeantDrive, NotPlain
  <1>7. CASE dd.plain
    <2>1. dd' = d
      BY <1>2, <1>5, <1>7, MeantDrive
    <2>2. ReadAhead(d, d.due) /\ WriteBehind(d, d.due)
      BY <1>4, <1>5, <1>7 DEF DiskInv, ReadAhead, WriteBehind, Flagged, Nothing
    <2> QED  BY <1>1, <1>3, <1>4, <1>5, <1>7, <2>1, <2>2
             DEF DiskInv, DdTypeOK, OneEvent, Owes, SectorsInOrder
  <1> QED  BY <1>6, <1>7

LEMMA StepDiskInv == DiskInv /\ [DdNext]_dd => DiskInv'
  <1> SUFFICES ASSUME DiskInv, [DdNext]_dd PROVE DiskInv'
    OBVIOUS
  <1>1. CASE UNCHANGED dd
    BY <1>1 DEF DiskInv, DdTypeOK, OneEvent, Owes, Flagged, Nothing, ReadAhead, WriteBehind,
                SectorsInOrder
  <1>2. CASE Seek \/ Rezero \/ OtherCommand
    BY <1>2, CommandsDiskInv
  <1>3. CASE MechaEvent
    BY <1>3, MechaDiskInv
  <1>4. CASE BmControl
    BY <1>4, ControlDiskInv
  <1>5. CASE HardReset \/ DdNmi
    BY <1>5, ResetsDiskInv
  <1>6. CASE BmEvent
    BY <1>6, BmDiskInv
  <1>7. CASE MoveSector
    BY <1>7, MoveDiskInv
  <1>8. CASE ReadStatus
    BY <1>8, StatusDiskInv
  <1> QED  BY <1>1, <1>2, <1>3, <1>4, <1>5, <1>6, <1>7, <1>8 DEF DdNext

LEMMA DriveInvariance == DdSpec => []DiskInv
  <1> QED  BY InitDiskInv, StepDiskInv, PTL DEF DdSpec

\* The drive's state is of its types in every state: the head stays on the disk's tracks
\* and within a track's two blocks, whatever the program writes to the registers.
THEOREM DriveTypeCorrect == DdSpec => []DdTypeOK
  <1>1. DiskInv => DdTypeOK
    BY DEF DiskInv
  <1> QED  BY <1>1, DriveInvariance, PTL

\* A program that answers the drive's interrupts, and has moved each sector before the next
\* one's event, moves the disk's sectors in order, none skipped or moved twice but those the
\* drive flags as missing, for blocks of every length, any sectors missing and any mix of
\* commands, resets and restarts.
THEOREM SectorsMovedInOrder == DdSpec => []SectorsInOrder
  <1>1. DiskInv => SectorsInOrder
    BY DEF DiskInv
  <1> QED  BY <1>1, DriveInvariance, PTL
=============================================================================

------------------------------ MODULE DiskDrive ------------------------------
(***************************************************************************)
(* The 64DD's controller (dd/dd_controller.c): the commands that move the     *)
(* head, and the buffer manager, which moves a block's sectors one by one      *)
(* through a buffer of one sector.  Each sector is an event DD_BM_INT that      *)
(* raises the drive's interrupt line; the program moves the buffer's contents *)
(* and reads the status register, which takes the interrupt back and queues    *)
(* the event of the next sector.  Nothing else keeps a transfer going.        *)
(*                                                                         *)
(* That read is also what tells the program of DATA_RQ, so that the buffer is *)
(* moved with the next sector's event on its way (dd_controller.c:441-463).   *)
(* DATA_RQ stays set until that event: the program heeds it once, in the read  *)
(* that shows BM_INT.  A read that does not show it changes nothing.          *)
(*                                                                         *)
(* A sector's contents are its number: DataSectors of data, then the error    *)
(* correction's; the second block of a track starts at Stride.  The program   *)
(* waits for a command to be answered before the next, for a transfer to end  *)
(* before it moves the head, and asks for nothing else with a reset pulse.     *)
(* The motor and its event, the clock and the commands that only set a        *)
(* register are left out, and so are the status bits that nothing reads.      *)
(***************************************************************************)
EXTENDS Naturals

CONSTANTS Tracks, SystemTrack,   \* the tracks of the disk, and track 0
          Protected,             \* those that must not be written
          BadTracks,             \* those whose first block cannot be read
          Missing,               \* <<track, sector>>s get_sector_base has nothing for
          DataSectors,           \* SECTORS_PER_BLOCK
          MaxBmEvents,           \* bound: DD_BM_INTs queued
          MaxRewrites            \* bound: control writes while a transfer runs

ASSUME DiskAssumption ==
    /\ SystemTrack \in Tracks
    /\ DataSectors \in Nat \ {0}
    /\ MaxBmEvents \in Nat /\ MaxRewrites \in Nat

VARIABLE dd
   \* .track, .write, .prot  the track, bm_write, WR_PR_ERR     .busy  BUSY_STATE
   \* .int    which of BM_INT, MECHA_INT are set                .ip3   CAUSE.IP3
   \* .running, .block, .micro  the transfer's status bits      .cur   CUR_SECTOR
   \* .rq     DATA_RQ     .due  the program has read that it is set, and is to move the buffer
   \* .held   bm_reset_held                .mc, .bm  events queued
   \* .buf    ds_buf, while .plain
   \* ghosts: .next  the sector it means to move next     .wrong  it moved another
   \*         .plain  the transfer was started with none under way, has not been written
   \*                 over, and each sector has been moved before the next one's event
   \*         .rewrites  control writes during it
   \*         .lost   events a reset, or the program, took from the queue

Stride         == DataSectors + 5
Starts         == {0, Stride}
InBlock(cur)   == cur % Stride
NextBlock(cur) == IF cur >= Stride THEN 0 ELSE Stride

\* The data sector that follows, from one block into the other.
After(s) == IF InBlock(s) = DataSectors - 1 THEN NextBlock(s) ELSE s + 1

Sectors == 0 .. 2 * Stride - 1

Drive ==
    [track : Tracks, write : BOOLEAN, prot : BOOLEAN, busy : BOOLEAN,
     int : SUBSET {"bm", "mecha"}, ip3 : BOOLEAN, running : BOOLEAN, block : BOOLEAN,
     micro : BOOLEAN, rq : BOOLEAN, due : BOOLEAN, cur : Sectors, held : BOOLEAN,
     mc : 0 .. 1, bm : 0 .. MaxBmEvents, buf : Sectors, next : Sectors, wrong : BOOLEAN,
     plain : BOOLEAN, rewrites : 0 .. MaxRewrites, lost : SUBSET {"bm", "mc"}]

DdTypeOK == dd \in Drive

\* poweron_dd.
DdInit ==
    dd = [track |-> SystemTrack, write |-> FALSE, prot |-> FALSE, busy |-> FALSE,
          int |-> {}, ip3 |-> FALSE, running |-> FALSE, block |-> FALSE, micro |-> FALSE,
          rq |-> FALSE, due |-> FALSE, cur |-> 0, held |-> FALSE, mc |-> 0, bm |-> 0, buf |-> 0,
          next |-> 0, wrong |-> FALSE, plain |-> FALSE, rewrites |-> 0,
          lost |-> {}]

-----------------------------------------------------------------------------
(* Commands.                                                                *)

Less(n)        == IF n > 0 THEN n - 1 ELSE 0
Signal(d, bit) == [d EXCEPT !.int = @ \cup {bit}, !.ip3 = TRUE]

\* Every command ends in an event, and makes the drive busy until then.
Commanded(d) == [d EXCEPT !.busy = TRUE, !.mc = 1, !.lost = @ \ {"mc"}]

\* Whether the track may be written is found out when a seek asks for writing.
Seek ==
    /\ ~dd.busy
    /\ ~dd.running
    /\ \E track \in Tracks, write \in BOOLEAN :
           dd' = Commanded([dd EXCEPT !.track = track, !.write = write,
                                      !.prot  = write /\ track \in Protected])

\* Rezero and Start go to track 0, prepared to write; WR_PR_ERR is what it was.
Rezero ==
    /\ ~dd.busy
    /\ ~dd.running
    /\ dd' = Commanded([dd EXCEPT !.track = SystemTrack, !.write = TRUE])

OtherCommand ==
    /\ ~dd.busy
    /\ dd' = Commanded(dd)

\* dd_mecha_int_handler.
MechaEvent ==
    /\ dd.mc > 0
    /\ dd' = Signal([dd EXCEPT !.mc = 0, !.busy = FALSE], "mecha")

-----------------------------------------------------------------------------
(* The control register: what one write does, in the code's order.           *)

\* What is in the buffer, and what becomes of it, matters in a plain transfer.
Meant(d) == IF d.plain THEN d ELSE [d EXCEPT !.buf = 0, !.next = 0, !.due = FALSE]
Ended(d) == Meant([d EXCEPT !.running = FALSE, !.plain = FALSE, !.rewrites = 0])

\* MECHA_RST takes back the interrupt, and the event of a command not yet answered.
MechaReset(d) ==
    [d EXCEPT !.int = @ \ {"mecha"}, !.mc = 0,
              !.lost = IF d.mc > 0 THEN @ \cup {"mc"} ELSE @]

\* The end of a reset pulse.
BmReset(d) ==
    [Ended(d) EXCEPT !.held = FALSE, !.int = @ \ {"bm"}, !.rq = FALSE,
                     !.block = FALSE, !.micro = FALSE, !.cur = 0, !.bm = Less(@)]

\* Fault: the line goes down when either interrupt has been taken back.
LineDropped(d) == [d EXCEPT !.ip3 = @ /\ {"bm", "mecha"} \subseteq d.int]

\* The line goes down when no interrupt is left.
Line(d) == [d EXCEPT !.ip3 = @ /\ d.int # {}]

Start(d, from) ==
    [d EXCEPT !.running = TRUE, !.bm = @ + 1, !.lost = @ \ {"bm"}, !.next = from, !.due = FALSE,
              !.plain = ~dd.running /\ d.bm = 0 /\ d.cur = from /\ "bm" \notin d.int]

BmControl ==
    \E start, blocks, reset, mecha \in BOOLEAN, from \in Starts :
        LET set   == [dd EXCEPT !.cur = from, !.block = @ \/ blocks, !.held = @ \/ reset,
                                !.plain = @ /\ ~dd.running,
                                !.rewrites = IF dd.running THEN @ + 1 ELSE 0]
            acked == IF mecha THEN MechaReset(set) ELSE set
            done  == IF ~reset /\ dd.held THEN BmReset(acked) ELSE acked
        IN  /\ reset => {start, blocks, mecha} = {FALSE}
            /\ dd.running => dd.rewrites < MaxRewrites
            /\ start => dd.bm < MaxBmEvents
            /\ dd' = Meant(IF start THEN Start(Line(done), from) ELSE Line(done))

\* DD_ASIC_HARD_RESET.
HardReset ==
    dd' = [Ended(dd) EXCEPT !.mc = 0, !.bm = Less(@), !.rq = FALSE, !.int = {},
                            !.busy = FALSE, !.block = FALSE, !.micro = FALSE, !.cur = 0,
                            !.ip3 = FALSE, !.lost = {}]

\* nmi_int_handler empties the queue and CAUSE; the drive is not told, and the program
\* starts over.
DdNmi ==
    dd' = Meant([dd EXCEPT !.mc = 0, !.bm = 0, !.ip3 = FALSE, !.plain = FALSE,
                           !.lost = @ \cup (IF dd.busy THEN {"mc"} ELSE {})
                                      \cup (IF dd.running THEN {"bm"} ELSE {})])

-----------------------------------------------------------------------------
(* dd_update_bm, with a transfer running.                                    *)

Moved(d, cur) == [d EXCEPT !.cur = cur, !.rq = TRUE]

\* seek_sector finds nothing: the sector is not moved, and the transfer goes on as if it
\* had been.
Nothing(d, sector) == <<d.track, sector>> \in Missing

\* write_sector: the sector before the current one gets the buffer.
Written(d) ==
    IF Nothing(d, d.cur - 1)
       THEN [d EXCEPT !.micro = TRUE]
       ELSE [d EXCEPT !.wrong = @ \/ (d.plain /\ d.buf # d.cur - 1)]

\* read_sector.
Read(d) ==
    IF Nothing(d, d.cur) THEN [d EXCEPT !.micro = TRUE] ELSE [d EXCEPT !.buf = d.cur]

\* Fault: a block written on goes on where a block read on would.
ResumedAtStart(cur) == NextBlock(cur)

\* A block written on: its first sector has been asked for with the last one of the
\* block before.
Resumed(cur) == NextBlock(cur) + 1

\* The first event asks for the first sector; each one after it writes what it got.
WriteOn(d) ==
    LET s    == InBlock(d.cur)
        done == Written(d)
    IN  CASE s = 0                       -> Moved(d, d.cur + 1)
          [] s \in 1 .. DataSectors - 1  -> Moved(done, d.cur + 1)
          [] s = DataSectors /\ d.block  -> Moved([done EXCEPT !.block = FALSE], Resumed(d.cur))
          [] s = DataSectors /\ ~d.block -> [Ended(done) EXCEPT !.cur = @ + 1]
          [] s > DataSectors             -> d

\* Data sectors, then four of error correction, of which the last ends the block.
ReadOn(d) ==
    LET s == InBlock(d.cur)
    IN  CASE s < DataSectors                      -> Moved(Read(d), d.cur + 1)
          [] s \in DataSectors .. DataSectors + 2 -> [d EXCEPT !.cur = @ + 1]
          [] s = DataSectors + 3 /\ d.block       ->
                [d EXCEPT !.cur = NextBlock(@), !.block = FALSE]
          [] s = DataSectors + 3 /\ ~d.block      -> Ended(d)
          [] s > DataSectors + 3                  -> d

\* A protected track stops a write; a bad one only says so, and is tried again.
Unable(d) == IF d.write THEN d.prot ELSE d.track \in BadTracks /\ d.cur < Stride
Failed(d)  == [IF d.write THEN Ended(d) ELSE d EXCEPT !.micro = TRUE]

UpdateBm(d) ==
    LET e  == [d EXCEPT !.rq = FALSE]
        on == IF Unable(e) THEN Failed(e) ELSE IF e.write THEN WriteOn(e) ELSE ReadOn(e)
    IN  Signal(Meant(on), "bm")

\* dd_bm_int_handler: an event that finds no transfer running is nothing.  One that comes
\* before the program has moved the buffer is one the program was too late for.
BmEvent ==
    /\ dd.bm > 0
    /\ dd' = LET d == [dd EXCEPT !.bm = @ - 1, !.plain = @ /\ ~dd.due]
             IN  IF d.running THEN UpdateBm(d) ELSE d

-----------------------------------------------------------------------------
(* The program's handler.                                                   *)

\* A sector the drive has said it has nothing for.
Flagged(d) == d.micro /\ Nothing(d, d.next)

\* The DMA between ds_buf and RDRAM, which the program expects to be of .next.
MoveSector ==
    /\ dd.due
    /\ dd' = Meant([dd EXCEPT !.due   = FALSE,
                              !.next  = After(@),
                              !.buf   = IF dd.write THEN dd.next ELSE @,
                              !.wrong = @ \/ (/\ dd.plain /\ ~dd.write
                                              /\ dd.buf # dd.next /\ ~Flagged(dd))])

\* A read of the status register takes BM_INT back, and with it the line, even if
\* MECHA_INT is set: the program has seen both in the value it read, and DATA_RQ.
Acknowledged ==
    Meant([dd EXCEPT !.int = @ \ {"bm"}, !.ip3 = FALSE, !.bm = @ + 1, !.due = dd.rq])

\* The line makes the program read the status, and it may read it without.
ReadStatus ==
    /\ "bm" \in dd.int
    /\ dd.bm < MaxBmEvents
    /\ dd' = Acknowledged

DdNext ==
    \/ Seek
    \/ Rezero
    \/ OtherCommand
    \/ MechaEvent
    \/ BmControl
    \/ HardReset
    \/ DdNmi
    \/ BmEvent
    \/ MoveSector
    \/ ReadStatus

DdSpec == DdInit /\ [][DdNext]_dd

-----------------------------------------------------------------------------
\* The sectors a program moves through the buffer are the disk's, in order, none
\* skipped or moved twice, from one block into the other: what it takes is what it
\* expects, unless the drive has flagged that it has no such sector, and what it gives
\* is written where it meant.  A program that is late for an event is left out.
SectorsInOrder == ~dd.wrong

\* A transfer ends, or tries again and again a track it has said it cannot read, and a
\* command is answered, unless its event was taken from the queue: each interrupt reaches
\* the program that must answer it.
TransferEnds ==
    /\ dd.running ~> \/ ~dd.running
                     \/ dd.micro /\ dd.track \in BadTracks
                     \/ "bm" \in dd.lost
    /\ dd.busy ~> ~dd.busy \/ "mc" \in dd.lost
=============================================================================

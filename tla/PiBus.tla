-------------------------------- MODULE PiBus --------------------------------
(***************************************************************************)
(* The peripheral interface (rcp/pi/pi_controller.c), the cartridge ROM and   *)
(* the flash memory behind it (cart/cart_rom.c, cart/flashram.c).  A transfer *)
(* or a write to the ROM is done at once, and marks the interface busy until  *)
(* the event PI_INT; requests until then are refused.                        *)
(*                                                                         *)
(* The flash chip is driven by commands: to program a page, a program selects *)
(* page-program mode, transfers the page into a buffer by DMA, and commands   *)
(* its programming; to erase, it selects what and commands it.  Between two   *)
(* of these, other transfers run and resets happen.  The success bits of the  *)
(* chip's status register, set by the command that does the work, are left    *)
(* out, as are addresses other than a page's.                                *)
(***************************************************************************)
EXTENDS Naturals

CONSTANTS Pages, SectorPages,   \* pages in the chip, and in a sector
          PageData,             \* what a program writes to a page
          MaxPiEvents           \* bound: PI_INTs queued

ASSUME PiAssumption ==
    /\ Pages \in Nat \ {0} /\ SectorPages \in Nat \ {0} /\ Pages % SectorPages = 0
    /\ MaxPiEvents \in Nat

Erased == "ff"

VARIABLE pi
   \* .dma, .io  PI_STATUS_DMA_BUSY, PI_STATUS_IO_BUSY   .events  PI_INTs queued
   \* .mode      flashram->mode                          .sector  flashram->erase_page
   \* .buf       flashram->page_buf                      .flash   the chip's pages
   \* .pc        what the program has to do next: "idle", "load", "program", "erase"
   \* .page, .data  of the page it programs
   \* .meant     ghost: the pages, as its commands were meant
   \* .cut       ghost: the program reset the interface during a transfer

Chip  == 0 .. Pages - 1
Modes == {"read_array", "silicon_id", "status", "sector_erase", "chip_erase", "page_program"}

PiTypeOK ==
    pi \in [dma    : BOOLEAN,
           io     : BOOLEAN,
           events : 0 .. MaxPiEvents,
           mode   : Modes,
           sector : Chip,
           buf    : PageData \cup {Erased},
           flash  : [Chip -> PageData \cup {Erased}],
           pc     : {"idle", "load", "program", "erase"},
           page   : Chip,
           data   : PageData \cup {Erased},
           meant  : [Chip -> PageData \cup {Erased}],
           cut    : BOOLEAN]

\* poweron_pi, poweron_flashram and init_interrupt; the chip keeps its pages.
PoweredOn(flash) ==
    [dma |-> FALSE, io |-> FALSE, events |-> 0, mode |-> "read_array", sector |-> 0,
     buf |-> Erased, flash |-> flash, pc |-> "idle", page |-> 0, data |-> Erased,
     meant |-> flash, cut |-> FALSE]

PiInit == pi = PoweredOn([p \in Chip |-> Erased])

-----------------------------------------------------------------------------
(* pi_controller.c, cart_rom.c.                                             *)

\* Fault: a request is validated against DMA only.
ValidatedDma == ~pi.dma

\* validate_pi_request.
Validated == ~pi.dma /\ ~pi.io

Queued(p) == p.events < MaxPiEvents
Dma(p)    == [p EXCEPT !.dma = TRUE, !.events = @ + 1]

\* dma_pi_read and dma_pi_write, with the ROM at the other end.
RomDma ==
    /\ Validated
    /\ Queued(pi)
    /\ pi' = Dma(pi)

\* write_cart_rom.
RomWrite ==
    /\ Validated
    /\ Queued(pi)
    /\ pi' = [pi EXCEPT !.io = TRUE, !.events = @ + 1]

\* pi_end_of_dma_event.
EndOfPiDma ==
    /\ pi.events > 0
    /\ pi' = [pi EXCEPT !.dma = FALSE, !.io = FALSE, !.events = @ - 1,
                        !.cut = pi.cut /\ pi.events > 1]

\* A write of PI_STATUS_RESET: the event of a transfer stays queued.
StatusReset ==
    pi' = [pi EXCEPT !.dma = FALSE, !.io = FALSE, !.cut = @ \/ pi.events > 0]

\* nmi_int_handler: the queue is emptied, and the boot code it runs resets the
\* interface; the flash chip notices nothing, and the program begins anew.
PiNmi ==
    pi' = [pi EXCEPT !.events = 0, !.dma = FALSE, !.io = FALSE, !.cut = FALSE,
                     !.pc = "idle", !.page = 0, !.data = Erased]

PiPowerOn == pi' = [PoweredOn(pi.flash) EXCEPT !.meant = pi.meant]

-----------------------------------------------------------------------------
(* flashram_command, and the DMA into the page buffer.                      *)

\* The commands that only select a mode, at any time the program has nothing under way.
SelectMode ==
    /\ pi.pc = "idle"
    /\ \E mode \in {"read_array", "silicon_id", "status"} : pi' = [pi EXCEPT !.mode = mode]

SelectPageProgram ==
    /\ pi.pc = "idle"
    /\ \E page \in Chip, data \in PageData :
           pi' = [pi EXCEPT !.mode = "page_program", !.pc = "load", !.page = page, !.data = data]

\* The program waits for the interface, and its DMA is accepted.
LoadPage ==
    /\ pi.pc = "load"
    /\ Validated
    /\ Queued(pi)
    /\ pi' = [Dma(pi) EXCEPT !.buf = IF pi.mode = "page_program" THEN pi.data ELSE @,
                             !.pc  = "program"]

ProgramPage ==
    /\ pi.pc = "program"
    /\ pi' = [pi EXCEPT !.flash[pi.page] = pi.buf, !.mode = "status", !.pc = "idle",
                        !.meant[pi.page] = pi.data, !.page = 0, !.data = Erased]

SelectErase ==
    /\ pi.pc = "idle"
    /\ \/ \E page \in Chip :
              pi' = [pi EXCEPT !.mode = "sector_erase", !.sector = page, !.page = page,
                               !.pc = "erase"]
       \/ pi' = [pi EXCEPT !.mode = "chip_erase", !.pc = "erase"]

\* Fault: a sector is erased from the page given, not from its first one.
ErasedFromPage == {p \in Chip : p >= pi.sector /\ p < pi.sector + SectorPages}

\* The pages of the selected sector: the low bits of the page do not count.
ErasedPages ==
    LET first == pi.sector - (pi.sector % SectorPages)
    IN  first .. first + SectorPages - 1

Erase ==
    /\ pi.pc = "erase"
    /\ LET pages == CASE pi.mode = "sector_erase" -> ErasedPages
                      [] pi.mode = "chip_erase"   -> Chip
           meant == {p \in Chip : \/ pi.mode = "chip_erase"
                                  \/ p \div SectorPages = pi.page \div SectorPages}
       IN  pi' = [pi EXCEPT
                    !.flash = [p \in Chip |-> IF p \in pages THEN Erased ELSE @[p]],
                    !.meant = [p \in Chip |-> IF p \in meant THEN Erased ELSE @[p]],
                    !.mode  = "status",
                    !.pc    = "idle",
                    !.page  = 0]

PiNext ==
    \/ RomDma
    \/ RomWrite
    \/ EndOfPiDma
    \/ StatusReset
    \/ PiNmi
    \/ PiPowerOn
    \/ SelectMode
    \/ SelectPageProgram
    \/ LoadPage
    \/ ProgramPage
    \/ SelectErase
    \/ Erase

PiSpec == PiInit /\ [][PiNext]_pi

-----------------------------------------------------------------------------
\* The interface is busy exactly while one PI_INT is queued to end it, through resets
\* of the machine; a program's own reset of the interface during a transfer is the
\* one exception, until the event it left behind has come.
PiEvent == ~pi.cut => pi.events = IF pi.dma \/ pi.io THEN 1 ELSE 0

\* The chip holds what the program's completed commands were meant to put there,
\* whatever transfers and resets came between the steps of one.
FlashKept == pi.flash = pi.meant
=============================================================================

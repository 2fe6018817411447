-------------------------------- MODULE SpDma --------------------------------
(***************************************************************************)
(* The DMA engine between RDRAM and the RSP's memories (rcp/rsp/rsp_core.c):  *)
(* a FIFO of two entries behind one set of address registers.  A transfer is  *)
(* made in one go when it reaches the first entry; the event RSP_DMA_EVT, at  *)
(* the time it would have ended, retires it and starts the second entry.      *)
(* Occupancy is kept three times over: in the DMA_BUSY and DMA_FULL registers, *)
(* in bits of SP_STATUS, and by the queued event.                            *)
(*                                                                         *)
(* A program writes the two address registers, then a length register, which  *)
(* makes the request.  The event may come between any two of these writes,    *)
(* and starting the second entry moves the address registers.                *)
(***************************************************************************)
EXTENDS Integers, Sequences

CONSTANTS MemSize, DramSize,  \* sizes of the two memories, in units of transfer
          Lengths             \* lengths a program asks for, in units

ASSUME SizesAssumption   == MemSize \in Nat \ {0} /\ DramSize \in Nat \ {0}
ASSUME LengthsAssumption == Lengths \subseteq Nat

Directions == {"READ", "WRITE"}
MemAddrs   == 0 .. MemSize - 1
DramAddrs  == 0 .. DramSize - 1
Transfers  == [dir : Directions, length : Lengths \cup {0}, memaddr : MemAddrs, dramaddr : DramAddrs]

VARIABLES mem, dram,      \* SP_MEM_ADDR_REG, SP_DRAM_ADDR_REG
          busy, full,     \* SP_DMA_BUSY_REG, SP_DMA_FULL_REG
          status,         \* SP_STATUS_REG's bits of the same names
          fifo,           \* the code's fifo[0], in progress, and fifo[1], waiting
          events,         \* RSP_DMA_EVTs queued
          pc,             \* the program: "idle", "mem" set, "dram" set too
          want,           \* ghost: the addresses the program set last
          meant,          \* ghost: the accepted requests, as the program meant them
          orphaned        \* ghost: a reset came during a transfer

engine  == <<mem, dram, busy, full, status, fifo, events>>
program == <<pc, want>>
vars    == <<engine, program, meant, orphaned>>

TypeOK ==
    /\ mem \in MemAddrs /\ dram \in DramAddrs
    /\ busy \in BOOLEAN /\ full \in BOOLEAN
    /\ status \in SUBSET {"DMA_BUSY", "DMA_FULL"}
    /\ fifo \in [0 .. 1 -> Transfers]
    /\ events \in Nat
    /\ pc \in {"idle", "mem", "dram"}
    /\ want \in [memaddr : MemAddrs, dramaddr : DramAddrs]
    /\ meant \in Seq(Transfers)
    /\ orphaned \in BOOLEAN

-----------------------------------------------------------------------------
\* poweron_rsp.
Init ==
    /\ mem = 0 /\ dram = 0
    /\ busy = FALSE /\ full = FALSE
    /\ status = {}
    /\ fifo = [i \in 0 .. 1 |-> [dir |-> "READ", length |-> 0, memaddr |-> 0, dramaddr |-> 0]]
    /\ events = 0
    /\ pc = "idle"
    /\ want = [memaddr |-> 0, dramaddr |-> 0]
    /\ meant = <<>>
    /\ orphaned = FALSE

\* write_rsp_regs.  A program tests DMA_FULL before it sets the registers.
WriteMemAddr(a) ==
    /\ pc = "idle"
    /\ ~full
    /\ mem' = a
    /\ pc' = "mem"
    /\ want' = [want EXCEPT !.memaddr = a]
    /\ UNCHANGED <<dram, busy, full, status, fifo, events, meant, orphaned>>

WriteDramAddr(a) ==
    /\ pc = "mem"
    /\ dram' = a
    /\ pc' = "dram"
    /\ want' = [want EXCEPT !.dramaddr = a]
    /\ UNCHANGED <<mem, busy, full, status, fifo, events, meant, orphaned>>

Request(dir, length, memaddr, dramaddr) ==
    [dir |-> dir, length |-> length, memaddr |-> memaddr, dramaddr |-> dramaddr]

\* Fault: the address registers are left unmasked.
DoSpDmaUnmasked(t, others) ==
    /\ mem' = t.memaddr + t.length
    /\ dram' = t.dramaddr + t.length
    /\ events' = others + 1

\* do_sp_dma: the address registers are left past the transfer, and its end is
\* scheduled beside the events in others.
DoSpDma(t, others) ==
    /\ mem' = (t.memaddr + t.length) % MemSize
    /\ dram' = (t.dramaddr + t.length) % DramSize
    /\ events' = others + 1

\* A transfer enters an idle engine, and starts.
Start(t) ==
    /\ fifo' = [fifo EXCEPT ![0] = t]
    /\ busy' = TRUE
    /\ status' = status \cup {"DMA_BUSY"}
    /\ DoSpDma(t, events)
    /\ UNCHANGED full

\* Fault: an event is scheduled for a waiting transfer too.
WaitScheduled(t) ==
    /\ fifo' = [fifo EXCEPT ![1] = t]
    /\ full' = TRUE
    /\ status' = status \cup {"DMA_FULL"}
    /\ events' = events + 1
    /\ UNCHANGED <<mem, dram, busy>>

\* It enters a busy one, and waits.
Wait(t) ==
    /\ fifo' = [fifo EXCEPT ![1] = t]
    /\ full' = TRUE
    /\ status' = status \cup {"DMA_FULL"}
    /\ UNCHANGED <<mem, dram, busy, events>>

\* fifo_push: a request made while the FIFO is full is ignored.
FifoPush(t) ==
    \/ full /\ UNCHANGED engine
    \/ ~full /\ busy /\ Wait(t)
    \/ ~full /\ ~busy /\ Start(t)

\* A write of SP_RD_LEN_REG (dir is WRITE) or SP_WR_LEN_REG (READ).
WriteLen(dir, length) ==
    /\ pc = "dram"
    /\ pc' = "idle"
    /\ FifoPush(Request(dir, length, mem, dram))
    /\ meant' = IF full THEN meant
                ELSE Append(meant, Request(dir, length, want.memaddr, want.dramaddr))
    /\ UNCHANGED <<want, orphaned>>

\* Fault: the waiting transfer starts and its SP_STATUS bit stays.
StartWaitingStale(others) ==
    /\ fifo' = [fifo EXCEPT ![0] = fifo[1]]
    /\ full' = FALSE
    /\ DoSpDma(fifo[1], others)
    /\ UNCHANGED <<busy, status>>

\* Fault: it is not copied to the first entry.
StartWaitingUncopied(others) ==
    /\ full' = FALSE
    /\ status' = status \ {"DMA_FULL"}
    /\ DoSpDma(fifo[1], others)
    /\ UNCHANGED <<busy, fifo>>

\* Fault: no event is scheduled to retire it.
StartWaitingUnscheduled(others) ==
    /\ fifo' = [fifo EXCEPT ![0] = fifo[1]]
    /\ full' = FALSE
    /\ status' = status \ {"DMA_FULL"}
    /\ events' = others
    /\ UNCHANGED <<mem, dram, busy>>

\* fifo_pop, with a transfer waiting.
StartWaiting(others) ==
    /\ fifo' = [fifo EXCEPT ![0] = fifo[1]]
    /\ full' = FALSE
    /\ status' = status \ {"DMA_FULL"}
    /\ DoSpDma(fifo[1], others)
    /\ UNCHANGED busy

\* Fault: the address registers are moved when a transfer ends, too.
GoIdleMoving(others) ==
    /\ busy' = FALSE
    /\ status' = status \ {"DMA_BUSY"}
    /\ DoSpDma(fifo[0], others - 1)
    /\ UNCHANGED <<full, fifo>>

\* fifo_pop, with none.
GoIdle(others) ==
    /\ busy' = FALSE
    /\ status' = status \ {"DMA_BUSY"}
    /\ events' = others
    /\ UNCHANGED <<mem, dram, full, fifo>>

\* rsp_end_of_dma_event, called with its event removed.
EndOfDma ==
    /\ events > 0
    /\ IF full THEN StartWaiting(events - 1) ELSE GoIdle(events - 1)
    /\ meant' = Tail(meant)
    /\ UNCHANGED <<program, orphaned>>

\* A soft reset: the event queue is emptied and the program starts over; the
\* boot code leaves the DMA registers as they are.
Nmi ==
    /\ events' = 0
    /\ orphaned' = (orphaned \/ busy)
    /\ pc' = "idle"
    /\ UNCHANGED <<mem, dram, busy, full, status, fifo, want, meant>>

Next ==
    \/ \E a \in MemAddrs : WriteMemAddr(a)
    \/ \E a \in DramAddrs : WriteDramAddr(a)
    \/ \E dir \in Directions, length \in Lengths : WriteLen(dir, length)
    \/ EndOfDma
    \/ Nmi

Spec == Init /\ [][Next]_vars

\* The program goes on running, so that events come due.
FairSpec == Spec /\ WF_vars(EndOfDma)

-----------------------------------------------------------------------------
\* The transfers in progress and waiting.
InFlight == IF ~busy THEN <<>> ELSE IF ~full THEN <<fifo[0]>> ELSE <<fifo[0], fifo[1]>>

\* The engine carries out what it accepts, in order and one at a time, through
\* resets too: it is a DmaPipe of depth two.
Pipe == INSTANCE DmaPipe WITH Requests <- Transfers, Depth <- 2, pipe <- InFlight
PipeSpec == Pipe!Spec

\* A transfer in progress has exactly one event queued to retire it, without
\* which the engine would stay busy for ever and later requests be ignored,
\* unless a reset came during a transfer.
EventPerTransfer == ~orphaned => events = IF busy THEN 1 ELSE 0

\* The three views of the engine's occupancy agree: a program polls SP_STATUS,
\* fifo_push and fifo_pop test the registers.
ViewsAgree ==
    /\ full => busy
    /\ "DMA_BUSY" \in status <=> busy
    /\ "DMA_FULL" \in status <=> full

\* Every accepted transfer has the addresses the program gave it, although the
\* end of another one may start a third and move the address registers while
\* they are being set.
AsProgrammed == InFlight = meant

\* A waiting transfer is started in the end, however the program goes on.
Started == full ~> ~full \/ orphaned
=============================================================================

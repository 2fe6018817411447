# Mupen64Plus ReARMed: a TLA+ model of the emulated console

This project models the parts of the emulator that are hardest to test. The
first is the order in which the emulated hardware's events meet the instructions
of the emulated program: the core under `src/mupen64plus-core/src`, written in C
and almost entirely single-threaded, whose "concurrency" is that of a program
with the events its devices have scheduled. The second is what stays valid while
that goes on: code compiled from memory that is written, samples handed over
while they play. The third is where the program does have threads: the renderers
Angrylion (`src/mupen64plus-video-angrylion`) and parallel-RDP
(`src/mupen64plus-video-paraLLEl`).

## 1. The system

Paths are relative to `src/mupen64plus-core/src/` unless they begin with `src/`.

| Component | State | Operations | Talks to | Hard behaviour |
|---|---|---|---|---|
| Event queue (`device/r4300/interrupt.c`, `cp0.h`) | ordered list of (type, count), a pool of 16 nodes, `next_interrupt`, `cycle_count` | add, remove head, remove by type, translate, save, load, clear | every device | COUNT wraps; views of the head cached; pool exhaustion |
| CPU interrupt delivery (`cp0.c`, `interrupt.c`, `pure_interp.c`, `mips_instructions.def`) | COUNT, COMPARE, STATUS, CAUSE, `skip_jump`, delay slot | branch, MTC0, MFC0, ERET, exceptions, `gen_interrupt` and its handlers | queue, MI | when an interrupt is taken, delay slots |
| MI (`device/rcp/mi`) | MI_INTR, MI_INTR_MASK | raise, signal, clear a line; write the mask | CPU; all RCP devices and plugins | CAUSE.IP2 is a copy of it |
| VI (`device/rcp/vi`) | field, `delay`, V_INTR | vertical interrupt, register writes | queue, MI, frontend (`new_vi`, end of the frame) | re-arms itself |
| RSP (`device/rcp/rsp`) | SP_STATUS, `rsp_task_locked`, DMEM/IMEM, DMA registers and FIFO | start, suspend, pump and report a task; DMA push and pop | queue, MI, RSP plugin | status writes racing events; registers moved by the end of a DMA |
| RDP interface (`device/rcp/rdp`) | DPC registers, `do_on_unfreeze`, clock base, framebuffer map | DPC_END, freeze, unfreeze | MI, graphics plugin | who consumes the DP bit |
| AI (`device/rcp/ai`) | address/length, FIFO of two, samples handed over | push, pop, frame delivery | queue, MI, audio output | overwrite when full; conservation of bytes |
| PI and cartridge (`device/rcp/pi`, `device/cart`) | busy flags, addresses, write latch, FlashRAM mode, EEPROM, SRAM | DMA read/write, end of DMA, saves | queue, MI, ROM, 64DD | reset or a second request during a DMA |
| SI, PIF, CIC (`device/rcp/si`, `device/pif`) | PIF RAM, `dma_dir`, channels, reset timer | DMA, PIF commands, boot code | queue, MI, controllers | direct PIF writes during a DMA |
| Controllers and paks (`device/controllers`, `device/gb`) | pak, transfer pak access mode, Game Boy mapper banks | one command per channel | SI | mode sequences |
| Audio output (`plugin/audio_libretro`) | an accumulator of sound frames | append sound or silence, drain | AI, frontend | a frontend that takes what it likes |
| 64DD (`device/dd`) | ASIC registers, buffer manager, disk | seek, sector DMA, timers | queue, CPU line IP3 | each sector's event is queued by the answer to the last; resets in between |
| Cached interpreter (`device/r4300/cached_interp.c`, `r4300_core.c`) | blocks of decoded words, `invalid_code`, hashes | jump, compile, invalidate, take back | memory, TLB, cartridge DMA | three addresses for one page; marks in one block for another |
| Aleck64, RDRAM, RI, memory map | registers, handler table | decode | CPU | none of order |
| Main loop and libretro frontend (`main/main.c`, `src/libretro/libretro.c`) | `frame_break`, options, audio/video output | run a frame, reset, serialize | CPU loop | acts only between instructions |
| Savestates (`main/savestates.c`) | a copy of all of the above | save, load | all | completeness |
| Recompilers, FPU, instruction semantics | code, registers | execute | CPU | generated code |
| Plugins (RSP: hle, cxd4, parallel; graphics: several) | their own | `DoRspCycles`, `ProcessRDPList`, `CheckInterrupts` | RSP, RDP, MI | write MI_INTR behind the core's back |
| Angrylion's pool (`src/mupen64plus-video-angrylion/parallel_al.cpp`) | a bit per worker, a mutex, two condition variables | construct, run a task, destroy | `n64video.c`, VI filter | lost wake-ups; a worker late from the task before |
| Angrylion's lists (`src/mupen64plus-video-angrylion/n64video.c`) | buffered commands, the command being read, the images drawn to | read a list, flush, sync | RDP interface, pool | lists end inside a command; flushes in the middle of one |
| parallel-RDP's ring (`src/mupen64plus-video-paraLLEl/parallel-rdp/parallel-rdp/command_ring.cpp`) | a ring of words, three counters | enqueue, drain, consume, tear down | command processor | one condition variable for three waits |

How they meet: an instruction moves COUNT; a device schedules an event by
`add_interrupt_event`; at a branch with `cycle_count >= 0`, `gen_interrupt`
serves the head event, whose handler changes the device and raises a line of MI
(`raise_rcp_interrupt`: taken at once) ; a register write that changes a line
outside a handler goes through `signal_rcp_interrupt`/`clear_rcp_interrupt`,
which recompute CAUSE.IP2 and schedule a CHECK_INT if the interrupt is let in.

What makes each component correct, with the property that says it where there
is one, is in PROJECT.json under `hazards`, each at its line.

## 2. Modules

| Module | Models | Notes |
|---|---|---|
| `InterruptQueue` | the event queue as operators on a record | no state of its own; every action of the machine composes them in the order of the calls |
| `R4300Interrupts` | CPU interrupt delivery, MI, VI's event, the graphics plugin's own writes of MI_INTR, resets, frame boundary | one record variable `m`; one action per instruction or frontend call |
| `MCR4300` | instances of it for TLC | |
| `RspTask` | SP_STATUS, the task pump, DP interrupt, freeze, plugins' CheckInterrupts | one record variable `r`; times of SP_INT and DP_INT abstracted: any order |
| `MCRspTask` | the status writes of a task library | |
| `DmaPipe` | abstract: an ordered pipe of bounded depth that finishes what it accepts | |
| `SpDma` | SP DMA's registers, FIFO, status bits, event; a program between its register writes | refines `DmaPipe` |
| `AiDma` | the AI's two-entry FIFO; samples handed over by polls of AI_LEN, frames and AI_INT; NMI | time is a countdown of the event; a buffer is a tag, a position and a length |
| `AudioBackend` | the accumulator between the AI and the libretro frontend | one step per turn of a loop or call of the frontend |
| `SiPif` | SI DMA both ways, direct PIF writes, the PIF's flags and channels, NMI | a block is a command with flags and the place of its answer |
| `PiBus` | the PI's busy bits and event, ROM writes and DMA, flash memory commands, NMI and power-on | the program's steps of one flash operation are separate actions |
| `DiskDrive` | the 64DD's seeks, control register, buffer manager, sectors it has not got, resets; the program that answers | one action per register access or event; the program moves the buffer after the status read that shows DATA_RQ, with the next sector's event already queued |
| `CodeCache` | blocks, `invalid_code`, compilation, stores, cartridge DMA, DMA that invalidates nothing, TLB writes | a word of memory is an opcode that ends a block at once, after its delay slot, or not |
| `MCCode` | an instance of it for TLC | |
| `MCMachine` | the five units from `AiDma` to `DiskDrive` in one run | `.unit` chooses which one moves |
| `AngrylionPool` | the class Parallel, its caller and its workers | one action per critical section or atomic access; spurious wake-ups |
| `AngrylionList` | n64video_process_list and cmd_flush | one step per turn of the list's loop |
| `CommandRing` | the ring, its enqueuing and its consuming thread | one action per critical section; refines `DmaPipe` |
| `MCThreads` | those three in one run | `.unit` chooses which one moves |
| `R4300Interrupts_proofs`, `RspTask_proofs`, `SpDma_proofs`, `CodeCache_proofs` | theorems about those modules | |
| `R4300Order_proofs` | theorems about the order of `R4300Interrupts`' queue | extends `R4300Interrupts_proofs` |
| `Interfaces_proofs` | theorems about `PiBus`, `SiPif` and `DiskDrive` | |
| `Audio_proofs` | theorems about `AiDma` and `AudioBackend` | |
| `Threads_proofs` | theorems about `AngrylionPool`, `AngrylionList` and `CommandRing` | |

`MCMachine` and `MCThreads` interleave nothing: the units share no state. Each
device's only links to the rest are its event, which `InterruptQueue` and
`R4300Interrupts` show to come, in any order with the others', and its line,
which they show to be taken; the units take both from there (an event, once
queued, may be served at any later moment). The renderers are alternatives: a
session has one. Where units do meet, the meeting is in a module: the MI's lines
with the CPU (R4300Interrupts) and with the RSP and RDP (RspTask), the TLB,
memory and the cartridge's DMA with the blocks of code (CodeCache), the PI with
the flash memory (PiBus), the SI with the PIF (SiPif).

The correspondence of every definition with its lines is PROJECT.json's `map`.
Operators named `...` with a comment that begins with "Fault:" are what a
plausible slip in the code would make of the definition that follows them; no
specification uses them. They show that the properties depend on the code: put
in place of the definition, each breaks the property listed with it under
`mutants`.

### Ghost fields

`dropped`, `early`, `spurious` (R4300Interrupts) remember that a full pool
forgot an event, that an event was served before its count, that an interrupt
exception was entered while STATUS and CAUSE did not let one in. `owed`
(RspTask): a full sync of which the CPU has not been told. `want`, `meant`,
`orphaned` (SpDma): the addresses the program set, the requests as it meant
them, a reset during a transfer.

`AiDma`: `owed`, the parts of the program's buffers still to be heard, in order;
`wrong`, something else was handed over. `AudioBackend`: the numbers of the next
frame made and heard. `SiPif`: the last block sent, the read in progress as it was
asked for, whether a reset dropped its event. `PiBus`: `meant`, what the chip
should hold; `cut`, a reset of the interface by the program while an event was
queued. `DiskDrive`: `next`, the sector the program means to move next, `wrong`,
whether the transfer was started with none under way and each sector moved in time
(`plain`), the events a reset or the program took away (`lost`). `CodeCache`: `home`,
the page whose KSEG0 block marks what the TLB block holds; `unseen`, the page may have
been written without a mark; `behind`, the words of a block that only a DMA which
invalidates nothing has changed since they were decoded.
`AngrylionPool`: how often each thread ran the task at hand. `AngrylionList`: the
commands decoded and not yet run. `CommandRing`: the commands written and not yet
read, and where each begins (the consumer reads the words, not this).

A ghost enables or disables no action, but for the bounds (`rewrites` in DiskDrive), and
no other field depends on one, but for two in DiskDrive: the program writes `next`
into the buffer, as the sector it means is the contents it gives it; and the buffer
and `due` are kept at a fixed value once the transfer is not `plain`, when no property
looks at them.

## 3. Runs

| Run | Question | Result |
|---|---|---|
| `R4300Timers` | Does the queue stay in order, its head neither overlooked nor early, through COUNT and COMPARE writes, wrapping, late branches, and reloads? | holds |
| `R4300Masks` | Do CAUSE, MI and STATUS agree on what is taken and when, also in delay slots? After which steps may CAUSE be stale? Is every device served? | holds |
| `R4300Pending` | Is an interrupt that is let in when a branch ends taken there, whatever the program has written since it was scheduled? | holds |
| `R4300Resets` | Do resets, reloads and delay-slot exceptions leave the permanent events and the cached views intact? | holds |
| `R4300NoScreen` | Is the head always within half of COUNT's range without a screen event? | violated |
| `R4300Unmasked` | Is an interrupt taken only while let in, whatever the program does? | violated |
| `RspTasks` | Is each task reported exactly once, each full sync delivered? | holds |
| `RspOtherPlugin` | The same of full syncs, with a plugin other than Angrylion on the DPC_END path | violated |
| `SpDma` | Do the FIFO's views agree; does it implement the pipe; are transfers those the program meant? | holds |
| `Machine` | Of each device with its program: is anything lost, done twice or left waiting between a request and its event, through resets and refusals? | holds |
| `Code` | Does a jump land on code memory no longer holds, other than words that only a DMA which invalidates nothing has changed? | holds |
| `Threads` | Does every call of the pool and of the ring return, with every task run once and every command handed on in order? Are commands kept whole however lists cut them? | holds |

The violated ones are disagreements between a comment of the source and the
code, explained under `findings`.

### Bounds, and why they are enough

- COUNT has 14, 28 or 32 values instead of 2^32. What the queue does depends on the
  order of a few counts around a wrap and around the half, and on ties; both
  are reached, with a device's event or two beside VI, SPECIAL and COMPARE.
- `Steps`, `Delays`, `CompareGaps`, `CountWrites`: one or two values each, chosen
  so that two events can fall on one count, an event can be overdue when another
  is inserted, and COMPARE can equal COUNT (a gap of 0) or lie a few instructions
  ahead. A gap between 0 and count_per_op has COMPARE_INT queued a period away, out of
  order, which no comment excludes: InOrder leaves COMPARE_INT out, and the theorems
  are for every gap.
- `PluginLines`: R4300Masks lets the graphics plugin write the DP line itself, as
  Angrylion and parallel-RDP do; DP_INT is the device whose event it has queued.
- `PoolCapacity`: one more than the number of event types, as 16 is in the code
  (15 types). `MaxLate` bounds how far a basic block runs past a due event,
  `LateBound` how far a burst of events served one a branch may push it.
  `VIDelay` is longer than an event is ever late, as a frame is in the code: a
  shorter one would have VI re-arm itself in the past, a period away.
- `Disciplined` programs (the passing runs) change MI's lines with interrupts
  disabled, do not write COUNT in a delay slot, and start the screen before COUNT
  passes half its range. `R4300Unmasked` and `R4300NoScreen` show what happens
  to others; `R4300Pending` is about programs that are not Disciplined, as only
  theirs leave an interrupt waiting for the end of a block. A second press of the reset button before the NMI is left out.
- RspTask: `MaxEvents` 2 of each type; PumpAlive shows that a second SP_INT is
  never queued. Programs start a task when SP_STATUS shows the last one halted and
  set INTR_BREAK, as task libraries do.
- SpDma: memories of 3 and 4 units, so that addresses wrap; lengths 1 and 2. A
  program tests DMA_FULL before it sets the registers.
- AiDma: two buffers, lengths 0 to 3, and a rate of 2, at which what remains is
  rounded; a third buffer pushed while two are queued, an empty one, and one whose
  time is not a multiple of its length all occur.
- AudioBackend: room for 3 frames, pushes of up to 4: a push that fits, one that
  drains first and one longer than the accumulator. Frames are numbered modulo 9,
  more than can be held, so that a loss, a repeat and a swap all show.
- SiPif: two buffers, so that a read may go to another than the block came from;
  two commands. The program waits for the busy bit before it moves SI_DRAM_ADDR
  or writes PIF RAM, not before it asks for a transfer.
- PiBus: four pages in two sectors. `MaxPiEvents` 2: a second PI_INT is queued only
  after a reset by the program, and one stale event shows what any number would.
- DiskDrive: two data sectors of a block (85 in the code) and four of error
  correction, two blocks: the first, a middle and the last sector of a write and the
  passage between blocks are distinct cases. `MaxBmEvents` 2: the event due and a
  stale one; `MaxRewrites` 1: a transfer is restarted or reset while it runs. One
  track is protected, one bad, and the first sector of the system track is missing.
  The program may move a sector before or after the next one's event.
- CodeCache: two pages, one with the exception vectors, of one word each. What the
  code does between pages and aliases does not depend on which word is written, as
  blocks are invalidated whole; that only words decoded or marked count does, and
  shows with one word that is one or the other or neither. One-word pages leave
  nothing to an opcode that ends a block, so Enders and Jumps are empty there; the
  theorems are for any.
- AngrylionPool: no worker, one, and three: the least at which one worker may be
  two tasks behind another while a third has yet to finish. Calls are unbounded.
- AngrylionList: three slots, lists of up to four word pairs, a command of three:
  it may be cut twice, and the buffer fills, is flushed by a sync, by an image that
  overlaps another, and by a command listed as such.
- CommandRing: four words, commands of one and two: two commands fill it exactly,
  one may wrap. 13 words in the life of a ring take it round three times.

### Fairness

- R4300: `[]<><<\E n : Branch(n)>>_vars`. A program that runs executes branches,
  and the frontend runs frame after frame. It is stated as recurrence rather
  than WF because the frame boundary disables branches again and again.
- RspTask: WF on the two events (they come due as COUNT runs), SF on a suspended
  task's break (a task that is given time slices ends), SF on the unfreeze (a
  program that freezes the RDP unfreezes it).
- SpDma: WF on the end of a transfer, an event that comes due.
- SiPif and DiskDrive: WF on the events, and on the program's read of the status
  while the drive's line is up, without which the drive waits by design; the program
  reads it in the interrupt's handler. That it moves the sector is not needed.
- AudioBackend: WF on the loops, which run in the calling thread, and SF on a call
  of the frontend that takes something: one that refuses for ever stops the
  emulator in `push_audio_silence_via_libretro`.
- AngrylionPool: SF on the steps of each thread: a mutex that is free again and
  again is got in the end. CommandRing: WF on each thread, whose critical sections
  are whole actions; the consumer's include its time-out, as its wait is timed in
  the code. No spurious wake-up is fair: a call returns without their help.

## 4. Proofs

| Module | Theorems | Assumes |
|---|---|---|
| `R4300Interrupts_proofs` | CauseFollowsMi; TypeCorrect, AlwaysAnchored, ViewsAgree, PoolSuffices, ServedWhenDue, NoSpuriousInterrupt | `Hosted`, but for the first |
| `R4300Order_proofs` | QueueInOrder, HeadOverdueByLittle, ReloadKeepsOrder | `Hosted` and `Paced` |
| `RspTask_proofs` | TypeCorrect, PumpNeverStops, SyncsKept, CpuTold | `StatusWritesAssumption`; `Angrylion` for the last two |
| `SpDma_proofs` | TypeCorrect, OccupancyViewsAgree, TransferHasItsEvent, CarriedOutAsProgrammed, ImplementsPipe | positive sizes |
| `Interfaces_proofs` | BusyHasItsEvent, FlashAsMeant; ReadsAnswer; DriveTypeCorrect, SectorsMovedInOrder | positive sizes; a buffer and a command; a data sector at least |
| `Audio_proofs` | SamplesConserved; FramesInOrder | positive rates, natural lengths |
| `CodeCache_proofs` | TypeCorrect, KsegJumpsFresh, TlbJumpsFresh | pages and opcodes of the machine |
| `Threads_proofs` | TypeCorrect, TasksComplete; SlotsHoldOwed; RingTypeCorrect, RingIsPipe, DrainLeavesNothing | numbered workers; commands with a word at least |

Every assumption on a constant is an ASSUME of the module that declares it, which
TLC evaluates in the runs. `Hosted`, `Paced` and `Angrylion` are hypotheses of
theorems, as the violated runs show what happens without the first and the last.

### The CPU's interrupts

CauseFollowsMi is for every range of COUNT, pool, set of devices and program. It is
about steps, as the graphics plugin's own writes of MI_INTR leave CAUSE stale: every
other step leaves IP2 and the lines as they were, or in agreement (`Agrees`, a relation
of the machine before and after). The proof follows CAUSE, MI_INTR and MI_INTR_MASK
through every operation: the queue's operators leave them alone (the `...Lines` lemmas),
what changes a line or IP2 leaves them in agreement (the `...Agrees` lemmas). No type of
the queue is needed, only that the machine has its fields (`Shaped`). What it rules out
is a writer of the mask, of a line or of IP2 that forgets the other side; what it does
not say is that a handler always finds a source.

The other six are for machines that are `Hosted`: they have a screen; finitely
many devices and a node in the pool more than there are types of events (16 and
15 in the code); software that branches before COUNT has run through half its
range and is Disciplined. The constants of R4300Timers, R4300Masks and
R4300Resets satisfy it;
`R4300Unmasked` refutes NoSpuriousInterrupt for the rest. None of the six is
inductive. `Steady` is: between two instructions the machine has its types, the
queue has no type twice and has SPECIAL_INT and COMPARE_INT (`Filed`, so the
pool suffices), the cached views are the head's (`Mirrored`), no jump is to be
skipped, and no CHECK_INT is queued. The last is what TakenOnlyUnmasked rests
on: a CHECK_INT is only ever queued by an instruction that sees the interrupt let
in, at the head and due, and that instruction takes it (`Urgent`). In a branch
whose delay slot has taken an exception the machine is not Steady but `Served`:
the views are out of date until the end of the branch calls gen_interrupt,
which skips the jump and serves nothing. There is a lemma per operation of the
queue (`Inserted`, ... : what is put in or taken out, and that nothing else is),
per handler and per action. `TranslateEventQueue` and `Refill` walk the queue:
they are recursive functions, and what the proof needs of every one of their
values is shown by taking the least index that would refute it (`LeastOf`,
from the well-foundedness of `<` on Nat), as the library's induction theorems
cannot be instantiated here.

### The order of the queue

InOrder, HeadWithinReach and SaveLoadFaithful are about distances between counts,
which wrap: what the code compares are remainders, measured from COUNT or from the
due time of an overdue head. The proof gives each queued event a time, an integer
counted from COUNT, negative once the event is overdue, of which its count is the
remainder; the invariant is that there are such times (`Ordered`, with `Steady`):

- they are in the order of the queue (`Timed`);
- they lie within one range of COUNT, from the present and from the head, so that
  the wrapped comparisons tell them apart; COMPARE may lie up to count_per_op beyond,
  where AddCompare has just put it, and the next instruction brings it back (`Spread`);
- SPECIAL_INT, and VI_INT once the screen is programmed, are never more than half a
  range away, so neither is the head (`Near`; `Dark`, before the screen is programmed);
- and nothing is very late (`Slack`): the i-th event has i branches to wait, so its
  bound is MaxLate and one branch for each place from it to the end of the queue.
  This is what makes LateBound inductive.

COMPARE_INT may be served twice in a burst: when another due event has the very
same count, its handler arms it again at that count, behind the other (`Twice`). The
event behind them then waits one branch more, and so the bound counts one place more
than there are events.

The times are those the steps give: an instruction takes its worth off each, a new
event gets the distance it was asked for (`Measured` and the insertion lemmas show
that the place the code finds is the one its time asks for), a write of COUNT
leaves all but COMPARE and SPECIAL as they are, a reload gives COMPARE the nearer of
its two times. Save and load then find every event its old place, unless COMPARE
lay beyond the range, which is what the guard of SaveLoadFaithful excludes (`LagClose`).

`Paced(longest)` is what this needs of the machine: a step is worth count_per_op at
least (one instruction; `count_per_op_denom_pot` above zero would make it less) and
`longest` at most; a whole burst of due events is over within LateBound, which with one
step more is no longer than VI's delay; delays are at most half the range of COUNT;
COUNT starts in its lower half. In the code the range is 2^32, VI's delay some
hundred thousand counts, and a basic block and the 15 types of events make a
burst of a few thousand. And no soft reset: its HW2 and NMI are queued at the end of a
frame, where COMPARE may still lie beyond the range. The constants of R4300Timers satisfy
`Hosted` and `Paced(2)`. A LateBound smaller than Paced's is not claimed.

### The RSP

`RspTask_proofs` proves the type invariant, PumpAlive, SyncNeverLost and
NoneMissed for every set of masks and types of task and for all status writes a
task library makes (`StatusWritesAssumption`: it does not halt a running task,
starts one with BROKE clear and INTR_BREAK set, and does not clear INTR_BREAK).
`PumpAlive` is inductive only with `Running`: a task that is not halted has
INTR_BREAK set and BROKE clear, so that its break sets SP and its suspension is
seen. Between DoRspCycles and the consumption of its DP bit a task satisfies
weaker facts (`OwingOrSet`, `ToldButDp`), which ConsumeDp restores. The last two
theorems assume Angrylion; `RspOtherPlugin` shows that they need to.

`SpDma_proofs` proves, for memories of any size and any set of lengths, the
type invariant, ViewsAgree, EventPerTransfer, AsProgrammed and the refinement
`Spec => PipeSpec`. The properties are not inductive: that the waiting transfer
leaves the program's half-set registers alone needs `RegistersHeld` (while a
program is between its first register write and its request the waiting entry is
free, so the end of a transfer moves no register), and that an end of transfer
always finds one in progress, also after a reset, needs `EventsRetire`. `IInv`
is the conjunction; `StepIInv` proves it inductive, one step per action.

### The interfaces and the drive

FlashKept is inductive with `UnderWay`: between the commands of one operation of
the flash memory, whatever transfers, ROM writes and resets come between, the chip
stays in the mode, with the page and the buffer, that the last command needs.
`SectorPagesOf` is the arithmetic: the pages from the first of a sector on are those
whose number divides to that sector's.

SiAnswered is a property of steps: the end of a read puts the PIF's answer to the
block last sent into the buffer asked for. It rests on `Followed` (from the end of a
write on, that block has been seen to: the boot chip's answer is there, or the
channels are set up for the next read) and on `Asked` (while a read is in progress
SI_DRAM_ADDR and the block have not changed, because the interface is busy).

SectorsInOrder is inductive with `ReadAhead` and `WriteBehind`, which relate
CUR_SECTOR, the buffer and the sector the program means, and say by how much the
drive is ahead when it reads and behind when it writes; and with `OneEvent`: a
transfer started with no event queued has one at most, queued or served and not yet
acknowledged, so that an answer never advances the drive twice. The answer comes
before the sector is moved, so the invariant has a case for the sector that is owed
(`due`) while the next one's event is on its way; an event that overtakes it ends
`plain`. A sector that seek_sector does not find leaves the buffer as it was and
everything else as if it had been there, with MICRO set. `SectorPlaces` is
the arithmetic of the sectors of a block.

### Sound

AiConserved is its own invariant once typed, with `full` implying `busy`: what is
owed is the rest of the buffer that plays and the one that waits. The proof
follows one hand-over (`Hand`) and composes it in each of the handlers.
AudioInOrder says that the frames held are the consecutive ones between the last
heard and the next made; numbers are modulo one more than the accumulator and a
push together hold, so no two held frames share one.

### Compiled code

KsegFresh and TlbFresh are inductive with what each kind of block has to say of
the others. `KsegKept`: two KSEG blocks of a page that are both valid hold what it
does (one valid alias with an invalid one is stale, and is set up again before it
runs). `JumpedOnValid`: a jump lands on a block that is not stale. For the TLB
block: the page in whose KSEG0 block it has its marks is the page it shows or
none (`HomeShown`), that page has a mark for each of its words (`Marked`), and
unless a write has been missed it holds what the page does, or did when its
hash was taken (`TlbKept`). Words only an untold write has changed are left out of all
three (`behind`); a word decoded again is no longer among them.

### The plugins' threads

RunComplete is for teams of any size, from the assumption that workers are
numbered from 1. That a returned call
leaves nobody inside a task rests on `Shares`: a worker whose bit is set is past its
task and has run it once (not yet, while the next one is being given out), one whose
bit is clear is on its way there or about to set the bit. So m_tasks_done being full
says all of RunComplete. A worker that looks at its bit late, when the next task has
been given out already, finds it clear and runs that task, no other. `Locked` (who is
about to sleep holds the mutex) keeps StartWork away from a worker between its check
and its sleep, and `Signalled` says that a task is only given to a team that has
done the last.

SlotsOwed is inductive with the types alone, which say how many words of the command
in hand have been read; the proof is about a flush in the middle of a command, which
moves it to slot 0.

RingPipe: `Laid` says that the commands enqueued and not yet read lie one after the
other between the two counters, none over another although the counters are reduced
modulo the size, each with its length before it; so that what the consumer reads
word by word is the first of them. `LaidBehind` (a command put in
behind the others disturbs none) is what the check for space is for. `Closing` says that nothing follows the
sentinel. DrainComplete needs, besides, that `completed` is behind `read` while a
command is in the consumer's hands.

### Only model-checked so far

Every invariant of a passing run is a theorem, but for what `Hosted` and `Paced`
leave out: the order of the queue across a soft reset is not claimed, and a program
that is not Disciplined is what R4300Pending and the violated runs show. What no theorem
states is PendingTaken, which is about such programs, and liveness (DeviceServed,
TaskReported, SyncDelivered, Started, PoolReturns, RingReturns, AudioReturns, SiEnds,
TransferEnds) and the fair pipe: fairness and ENABLED are out of the prover's reach. The violated ones are not theorems.

## 5. Exceptions the properties make

Some properties except what the code really does not guarantee; each exception is
a hazard of the code, listed with its line under `hazards`.

- After a write of PI_STATUS_RESET during a transfer its event is still queued and
  ends the next transfer early (PiEvent, until that event has come).
- An NMI during an SI transfer, a disk transfer or an SP DMA takes the event and leaves
  the busy or running bit (SiEnds, TransferEnds, EventPerTransfer); so does MECHA_RST
  with a command in flight, until a later command's event or a hard reset.
- A disk transfer restarted while an event of the one before it is queued moves a
  sector the program has not asked for (SectorsInOrder is about transfers started
  with none). So does a program that is late: the next sector's event, 8020 counts and
  more after the status was read, puts that sector in the buffer before it has moved
  the last one (the property is about programs that are in time).
- A sector that the disk's image has not got is not moved, and the transfer goes on:
  the drive sets MICRO, and the program finds in the buffer what was there
  (SectorsInOrder excepts the sectors so flagged, none after them).
- The graphics plugin writes the DP line in MI_INTR itself and the core takes it back,
  at the end of a task or when it defers it, without recomputing CAUSE: IP2 is stale
  until a step changes it or the lines again (Ip2FollowsMi excepts those two writers).
- The DMA of the RSP, of the SI and of the save memories writes RDRAM and invalidates
  no block: a program that loads code by them and has run those words before runs the
  old ones (KsegFresh and TlbFresh except the words that nothing else has changed since
  they were decoded).
- The marks by which a store finds a block compiled through the TLB are lost when
  something else sets up the page's KSEG0 block, and are missing on a page the
  block was taken back over: writes then go unseen (TlbFresh).

## 6. Not modelled, and the plan

- Code generation (`new_dynarec`, `recomp.c`, hacktarux's x86 assembler): machine
  code for the host, out of a model checker's reach. The invalidation protocol it
  shares with the cached interpreter is CodeCache's.
- The arithmetic instruction set, the FPU, the rasterisers, the RSP's vector unit,
  microcode emulation, texture filters, shaders, and vendored headers and
  libraries, which are most of the repository's lines: data paths with a state of
  one step, or not this project's code. They are why the modelled share of the
  lines is small.
- Controllers, paks, Game Boy cartridges, Aleck64, RDRAM and RI registers, SRAM and
  EEPROM: each access is answered at once from the registers before it; no event, no
  second actor and no failure comes between two steps.
- The frontend's options, video output, input and files: I/O.
- Savestates beyond the event queue: a list of copies. The queue's save and load
  are modelled because they compute something.
- Simplified: savestates' job branches of `gen_interrupt` (the libretro build's
  `savestates_get_job` never returns one), `count_per_op_denom_pot` (a step's worth
  in counts is a parameter), VI timing, the AI's frame of silence and sample format,
  the drive's motor and its DD_DV_INT, the geometry of disks, words a KSEG block
  decodes past its page's end, the parallel-RDP processor behind its ring (its
  synchronisation is the Vulkan driver's).

Next, in this order:

1. R4300Interrupts: the order of the queue with the soft reset, and with steps worth
   less than count_per_op.
2. `RdpClock`: the clock register across freeze and resets; `PreciseException`: the
   program counter and delay slots.

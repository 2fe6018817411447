----------------------------- MODULE SpDma_proofs -----------------------------
(***************************************************************************)
(* For memories and lengths of any size: the DMA engine's views of its       *)
(* occupancy agree, each transfer in progress has its event, each accepted    *)
(* one has the addresses the program meant, and the engine implements the     *)
(* two-deep DmaPipe.                                                        *)
(***************************************************************************)
EXTENDS SpDma, TLAPS

\* The program's registers hold what it set, as long as it has not made its
\* request: the waiting entry is free then, so the end of a transfer leaves
\* the registers alone.
RegistersHeld ==
    /\ pc # "idle" => ~full /\ mem = want.memaddr
    /\ pc = "dram" => dram = want.dramaddr

\* A queued event retires a transfer in progress, after a reset too.
EventsRetire == events \in 0 .. 1 /\ (events = 1 => busy)

IInv ==
    /\ TypeOK
    /\ EventPerTransfer
    /\ EventsRetire
    /\ ViewsAgree
    /\ RegistersHeld
    /\ AsProgrammed

\* Past a transfer the address registers are still addresses.
LEMMA AdvanceType ==
    ASSUME NEW t \in Transfers
    PROVE  /\ (t.memaddr + t.length) % MemSize \in MemAddrs
           /\ (t.dramaddr + t.length) % DramSize \in DramAddrs
  <1>1. MemSize \in Nat /\ MemSize > 0 /\ DramSize \in Nat /\ DramSize > 0
    BY SizesAssumption
  <1>2. t.length \in Lengths \cup {0} /\ t.memaddr \in MemAddrs /\ t.dramaddr \in DramAddrs
    BY DEF Transfers
  <1>3. t.length \in Nat
    <2>1. \A x \in Lengths \cup {0} : x \in Nat
      BY LengthsAssumption
    <2> QED  BY <1>2, <2>1
  <1>4. t.memaddr \in Nat /\ t.dramaddr \in Nat
    BY <1>1, <1>2 DEF MemAddrs, DramAddrs
  <1>5. \A n, k \in Nat : k > 0 => n % k \in 0 .. k - 1
    OBVIOUS
  <1>6. (t.memaddr + t.length) % MemSize \in MemAddrs
    BY <1>1, <1>3, <1>4, <1>5 DEF MemAddrs
  <1>7. (t.dramaddr + t.length) % DramSize \in DramAddrs
    BY <1>1, <1>3, <1>4, <1>5 DEF DramAddrs
  <1> QED  BY <1>6, <1>7

LEMMA InitIInv == Init => IInv
  <1> SUFFICES ASSUME Init PROVE IInv
    OBVIOUS
  <1>1. 0 \in MemAddrs /\ 0 \in DramAddrs
    BY SizesAssumption DEF MemAddrs, DramAddrs
  <1>2. fifo \in [0 .. 1 -> Transfers]
    BY <1>1 DEF Init, Transfers, Directions
  <1>3. meant \in Seq(Transfers)
    BY DEF Init
  <1>4. TypeOK
    BY <1>1, <1>2, <1>3 DEF Init, TypeOK
  <1>5. EventPerTransfer /\ EventsRetire /\ ViewsAgree /\ RegistersHeld /\ AsProgrammed
    BY DEF Init, EventPerTransfer, EventsRetire, ViewsAgree, RegistersHeld, AsProgrammed,
           InFlight
  <1> QED  BY <1>4, <1>5 DEF IInv

\* The addresses of a request are addresses.
LEMMA RequestType ==
    ASSUME NEW dir \in Directions, NEW length \in Lengths,
           NEW a \in MemAddrs, NEW b \in DramAddrs
    PROVE  Request(dir, length, a, b) \in Transfers
  BY DEF Request, Transfers

LEMMA StepIInv == IInv /\ [Next]_vars => IInv'
  <1> SUFFICES ASSUME IInv, [Next]_vars PROVE IInv'
    OBVIOUS
  <1> USE DEF IInv
  <1>1. ASSUME NEW a \in MemAddrs, WriteMemAddr(a) PROVE IInv'
    BY <1>1 DEF WriteMemAddr, TypeOK, EventPerTransfer, EventsRetire, ViewsAgree,
                RegistersHeld, AsProgrammed, InFlight
  <1>2. ASSUME NEW a \in DramAddrs, WriteDramAddr(a) PROVE IInv'
    BY <1>2 DEF WriteDramAddr, TypeOK, EventPerTransfer, EventsRetire, ViewsAgree,
                RegistersHeld, AsProgrammed, InFlight
  <1>3. ASSUME NEW dir \in Directions, NEW length \in Lengths, WriteLen(dir, length)
        PROVE  IInv'
    <2> DEFINE t == Request(dir, length, mem, dram)
    <2>1. t \in Transfers
      BY RequestType DEF TypeOK
    <2>2. ~full /\ t = Request(dir, length, want.memaddr, want.dramaddr)
      BY <1>3 DEF WriteLen, RegistersHeld
    <2>3. meant' = Append(meant, t)
      BY <1>3, <2>2 DEF WriteLen
    <2>4. /\ pc' = "idle"
          /\ UNCHANGED <<want, orphaned>>
      BY <1>3 DEF WriteLen
    <2> HIDE DEF t
    <2>5. CASE busy
      <3>1. Wait(t)
        BY <1>3, <2>2, <2>5 DEF WriteLen, FifoPush, t
      <3>2. TypeOK'
        BY <2>1, <2>3, <2>4, <3>1 DEF Wait, TypeOK
      <3>3. AsProgrammed'
        BY SMTT(40), <2>2, <2>3, <2>5, <3>1 DEF Wait, AsProgrammed, InFlight, TypeOK
      <3>4. (EventPerTransfer /\ EventsRetire /\ ViewsAgree /\ RegistersHeld)'
        BY <2>4, <2>5, <3>1
        DEF Wait, EventPerTransfer, EventsRetire, ViewsAgree, RegistersHeld, TypeOK
      <3> QED  BY <3>2, <3>3, <3>4
    <2>6. CASE ~busy
      <3>1. Start(t)
        BY <1>3, <2>2, <2>6 DEF WriteLen, FifoPush, t
      <3>2. TypeOK'
        BY <2>1, <2>3, <2>4, <3>1, AdvanceType DEF Start, DoSpDma, TypeOK
      <3>3. AsProgrammed'
        BY <2>2, <2>3, <2>6, <3>1 DEF Start, AsProgrammed, InFlight, TypeOK
      <3>4. (EventPerTransfer /\ EventsRetire /\ ViewsAgree /\ RegistersHeld)'
        BY <2>2, <2>4, <2>6, <3>1
        DEF Start, DoSpDma, EventPerTransfer, EventsRetire, ViewsAgree, RegistersHeld, TypeOK
      <3> QED  BY <3>2, <3>3, <3>4
    <2> QED  BY <2>5, <2>6
  <1>4. CASE EndOfDma
    <2>1. events = 1 /\ busy
      BY <1>4 DEF EndOfDma, EventsRetire
    <2>2. /\ meant' = Tail(meant)
          /\ UNCHANGED <<pc, want, orphaned>>
      BY <1>4 DEF EndOfDma, program
    <2>3. fifo[0] \in Transfers /\ fifo[1] \in Transfers
      BY DEF TypeOK
    <2>4. meant' \in Seq(Transfers)
      BY <2>1, <2>2, <2>3 DEF AsProgrammed, InFlight, TypeOK
    <2>5. CASE full
      <3>1. StartWaiting(0)
        BY <1>4, <2>1, <2>5 DEF EndOfDma
      <3>2. mem' \in MemAddrs /\ dram' \in DramAddrs /\ events' = 1
        BY <2>3, <3>1, AdvanceType DEF StartWaiting, DoSpDma
      <3>3. fifo' \in [0 .. 1 -> Transfers]
        BY <2>3, <3>1 DEF StartWaiting, TypeOK
      <3>4. TypeOK'
        BY <2>2, <2>4, <3>1, <3>2, <3>3 DEF StartWaiting, TypeOK
      <3>5. AsProgrammed'
        BY <2>1, <2>2, <2>5, <3>1 DEF StartWaiting, AsProgrammed, InFlight, TypeOK
      <3>6. (EventPerTransfer /\ EventsRetire /\ ViewsAgree /\ RegistersHeld)'
        BY <2>1, <2>2, <2>5, <3>1
        DEF StartWaiting, DoSpDma, EventPerTransfer, EventsRetire, ViewsAgree, RegistersHeld,
            TypeOK
      <3> QED  BY <3>4, <3>5, <3>6
    <2>6. CASE ~full
      <3>1. GoIdle(0)
        BY <1>4, <2>1, <2>6 DEF EndOfDma
      <3>2. TypeOK'
        BY <2>2, <2>4, <3>1 DEF GoIdle, TypeOK
      <3>3. AsProgrammed'
        BY <2>1, <2>2, <2>6, <3>1 DEF GoIdle, AsProgrammed, InFlight, TypeOK
      <3>4. (EventPerTransfer /\ EventsRetire /\ ViewsAgree /\ RegistersHeld)'
        BY <2>1, <2>2, <2>6, <3>1
        DEF GoIdle, EventPerTransfer, EventsRetire, ViewsAgree, RegistersHeld, TypeOK
      <3> QED  BY <3>2, <3>3, <3>4
    <2> QED  BY <2>5, <2>6
  <1>5. CASE Nmi
    BY <1>5 DEF Nmi, TypeOK, EventPerTransfer, EventsRetire, ViewsAgree, RegistersHeld,
                AsProgrammed, InFlight
  <1>6. CASE UNCHANGED vars
    BY <1>6 DEF vars, engine, program, TypeOK, EventPerTransfer, EventsRetire, ViewsAgree,
                RegistersHeld, AsProgrammed, InFlight
  <1> QED  BY <1>1, <1>2, <1>3, <1>4, <1>5, <1>6 DEF Next

\* The strengthened invariant holds of every state the engine reaches.
THEOREM Invariance == Spec => []IInv
  <1>1. IInv /\ [Next]_vars => IInv'
    BY StepIInv
  <1> QED  BY <1>1, InitIInv, PTL DEF Spec

\* rsp_core.c keeps its DMA registers, FIFO and event within their types.
THEOREM TypeCorrect == Spec => []TypeOK
  <1>1. IInv => TypeOK
    BY DEF IInv
  <1> QED  BY <1>1, Invariance, PTL

\* fifo_push and fifo_pop keep DMA_BUSY, DMA_FULL and their bits in SP_STATUS
\* in step.
THEOREM OccupancyViewsAgree == Spec => []ViewsAgree
  <1>1. IInv => ViewsAgree
    BY DEF IInv
  <1> QED  BY <1>1, Invariance, PTL

\* But for a reset during a transfer, do_sp_dma leaves exactly one event queued
\* for the transfer in progress.
THEOREM TransferHasItsEvent == Spec => []EventPerTransfer
  <1>1. IInv => EventPerTransfer
    BY DEF IInv
  <1> QED  BY <1>1, Invariance, PTL

\* Every request of a program that tests DMA_FULL is carried out with the
\* addresses it wrote, whenever the events come.
THEOREM CarriedOutAsProgrammed == Spec => []AsProgrammed
  <1>1. IInv => AsProgrammed
    BY DEF IInv
  <1> QED  BY <1>1, Invariance, PTL

-----------------------------------------------------------------------------
\* A step of the engine is a step of the pipe, or none.
LEMMA StepPipe == IInv /\ [Next]_vars => [Pipe!Next]_InFlight
  <1> SUFFICES ASSUME IInv, [Next]_vars PROVE [Pipe!Next]_InFlight
    OBVIOUS
  <1>1. ASSUME NEW a \in MemAddrs, WriteMemAddr(a) PROVE InFlight' = InFlight
    BY <1>1 DEF WriteMemAddr, InFlight
  <1>2. ASSUME NEW a \in DramAddrs, WriteDramAddr(a) PROVE InFlight' = InFlight
    BY <1>2 DEF WriteDramAddr, InFlight
  <1>3. ASSUME NEW dir \in Directions, NEW length \in Lengths, WriteLen(dir, length)
        PROVE  Pipe!Next
    <2> DEFINE t == Request(dir, length, mem, dram)
    <2>1. t \in Transfers
      BY RequestType DEF IInv, TypeOK
    <2>2. ~full
      BY <1>3 DEF WriteLen, IInv, RegistersHeld
    <2> HIDE DEF t
    <2>3. CASE busy
      <3>1. Wait(t)
        BY <1>3, <2>2, <2>3 DEF WriteLen, FifoPush, t
      <3>2. InFlight = <<fifo[0]>> /\ InFlight' = <<fifo[0], t>>
        BY <2>2, <2>3, <3>1 DEF Wait, InFlight, IInv, TypeOK
      <3>3. Pipe!Accept(t)
        BY <3>2 DEF Pipe!Accept
      <3> QED  BY <2>1, <3>3 DEF Pipe!Next
    <2>4. CASE ~busy
      <3>1. Start(t)
        BY <1>3, <2>2, <2>4 DEF WriteLen, FifoPush, t
      <3>2. InFlight = <<>> /\ InFlight' = <<t>>
        BY <2>2, <2>4, <3>1 DEF Start, InFlight, IInv, TypeOK
      <3>3. Pipe!Accept(t)
        BY <3>2 DEF Pipe!Accept
      <3> QED  BY <2>1, <3>3 DEF Pipe!Next
    <2> QED  BY <2>3, <2>4
  <1>4. CASE EndOfDma
    <2>1. busy /\ events = 1
      BY <1>4 DEF EndOfDma, IInv, EventsRetire
    <2>2. CASE full
      <3>1. StartWaiting(0)
        BY <1>4, <2>1, <2>2 DEF EndOfDma
      <3>2. InFlight = <<fifo[0], fifo[1]>> /\ InFlight' = <<fifo[1]>>
        BY <2>1, <2>2, <3>1 DEF StartWaiting, InFlight, IInv, TypeOK
      <3> QED  BY <3>2 DEF Pipe!Next, Pipe!Finish
    <2>3. CASE ~full
      <3>1. GoIdle(0)
        BY <1>4, <2>1, <2>3 DEF EndOfDma
      <3>2. InFlight = <<fifo[0]>> /\ InFlight' = <<>>
        BY <2>1, <2>3, <3>1 DEF GoIdle, InFlight
      <3> QED  BY <3>2 DEF Pipe!Next, Pipe!Finish
    <2> QED  BY <2>2, <2>3
  <1>5. CASE Nmi
    BY <1>5 DEF Nmi, InFlight
  <1>6. CASE UNCHANGED vars
    BY <1>6 DEF vars, engine, InFlight
  <1> QED  BY <1>1, <1>2, <1>3, <1>4, <1>5, <1>6 DEF Next

\* The FIFO behind its registers implements the abstract pipe: what rsp_core.c
\* accepts it carries out in order, one at a time, and forgets nothing, through
\* resets too.
THEOREM ImplementsPipe == Spec => PipeSpec
  <1>1. Init => Pipe!Init
    BY DEF Init, InFlight, Pipe!Init
  <1>2. IInv /\ [Next]_vars => [Pipe!Next]_InFlight
    BY StepPipe
  <1> QED  BY <1>1, <1>2, Invariance, PTL DEF Spec, PipeSpec, Pipe!Spec
=============================================================================

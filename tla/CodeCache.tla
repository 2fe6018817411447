------------------------------ MODULE CodeCache ------------------------------
(***************************************************************************)
(* The cached interpreter's blocks (cached_interp.c): one per virtual page of *)
(* 4 KiB, holding for each word either "not compiled" or the instruction that *)
(* was decoded from memory.  A page of RDRAM is seen at up to three virtual    *)
(* addresses: through KSEG0, through KSEG1, and through the TLB.  invalid_code *)
(* says which blocks a jump must set up again; stores and cartridge DMA set it *)
(* only for blocks that hold something decoded from the words they change.  The *)
(* other writers of RDRAM (the DMA of the RSP, the SI and the save memories, the *)
(* plugins) tell the blocks nothing.                                          *)
(*                                                                         *)
(* What an instruction does is left open (a store, a jump, a TLB write or       *)
(* nothing of interest): its opcode only says how it ends a block.  One         *)
(* TLB entry maps one page.  The words a KSEG block decodes past the end of its *)
(* page are left out: no jump lands on them.                                *)
(***************************************************************************)
EXTENDS FiniteSets, Naturals

CONSTANTS RamPages,     \* the pages of RDRAM
          VectorPage,   \* the one that holds the exception vectors
          PageWords,    \* words of a page
          Opcodes,      \* what a word of memory may hold
          Enders,       \* those that end what is compiled at once (ERET)
          Jumps,        \* those that end it after their delay slot (J, JR)
          JumpTargets   \* the blocks a program jumps to

VARIABLE
    code    \* [mem: RDRAM, ops/invalid/hash: the blocks, map: the TLB entry's page,
            \*  pc: the block and word executed next, jumped: jump_to has just set it,
            \*  ghosts: home, the page whose KSEG0 block still marks what the TLB block
            \*  holds; unseen, a write of the TLB block's page may have left no mark;
            \*  behind, the words of a block in use that only an untold write has changed]

PageOffsets == 0 .. PageWords - 1
NotCompiled == {"NOTCOMPILED", "NOTCOMPILED2"}
Unmapped    == "unmapped"
NoHash      == <<>>

Kseg0(p) == <<"kseg0", p>>
Kseg1(p) == <<"kseg1", p>>
Mapped   == <<"tlb", VectorPage>>
Boot     == <<"sp_mem", VectorPage>>       \* the boot code's own block: never written here
Kseg     == {Kseg0(p) : p \in RamPages} \cup {Kseg1(p) : p \in RamPages}
CodeBlocks  == Kseg \cup {Mapped}

ASSUME CodeCacheAssumption ==
    /\ IsFiniteSet(RamPages) /\ VectorPage \in RamPages /\ Unmapped \notin RamPages
    /\ PageWords \in Nat \ {0}
    /\ Enders \subseteq Opcodes /\ Jumps \subseteq Opcodes /\ Opcodes \cap NotCompiled = {}
    /\ JumpTargets \subseteq CodeBlocks

CodeTypeOK ==
    code \in [mem     : [RamPages -> [PageOffsets -> Opcodes]],
              ops     : [CodeBlocks -> [PageOffsets -> Opcodes \cup NotCompiled]],
              invalid : SUBSET CodeBlocks,
              hash    : {NoHash} \cup [PageOffsets -> Opcodes],
              map     : RamPages \cup {Unmapped},
              home    : RamPages \cup {Unmapped},
              pc      : [block : CodeBlocks \cup {Boot}, word : PageOffsets],
              jumped  : BOOLEAN,
              unseen  : BOOLEAN,
              behind  : [CodeBlocks -> SUBSET PageOffsets]]

(* Memory holds whatever it was given before the first jump out of the boot code. *)
CodeInit ==
    \E mem \in [RamPages -> [PageOffsets -> Opcodes]] :
        code = [mem     |-> mem,
                ops     |-> [b \in CodeBlocks |-> [w \in PageOffsets |-> "NOTCOMPILED"]],
                invalid |-> CodeBlocks, hash |-> NoHash, map |-> Unmapped, home |-> Unmapped,
                pc      |-> [block |-> Boot, word |-> 0], jumped |-> FALSE, unseen |-> FALSE,
                behind  |-> [b \in CodeBlocks |-> {}]]

-----------------------------------------------------------------------------
(* The page of RDRAM a block is decoded from. *)
PageOf(b) == IF b = Mapped THEN code.map ELSE b[2]

Holds(b, w) == code.ops[b][w] \notin NotCompiled
Running     == code.pc.block # Boot => Holds(code.pc.block, code.pc.word)

(* update_invalid_addr: a block is as invalid as those that show the same page. *)
Stale(b) == {b, Kseg0(PageOf(b)), Kseg1(PageOf(b))} \cap code.invalid # {}

(* A write of the words .ws reaches what block .b was made from. *)
Hits(b, ws) == \E w \in ws : code.ops[b][w] # "NOTCOMPILED"

(* Fault: the alias is left alone. *)
OwnBlockOnly(b, ws) == {c \in {b} : Hits(c, ws)}

(* A store tells the block it was made through and the page's two KSEG blocks. *)
Invalidated(b, ws) ==
    {c \in {b, Kseg0(PageOf(b)), Kseg1(PageOf(b))} : Hits(c, ws)}

\* r4300_write_aligned_word, r4300_write_aligned_dword and cart_rom_dma_write: an access of
\* the words .ws through block .b, which puts .op in them.  The DMA goes by KSEG0's blocks.
\* A store to a page that is not mapped changes no block: it raises the exception of JumpTo.
WriteWords(b, ws, op) ==
    /\ Running
    /\ PageOf(b) # Unmapped
    /\ code' = [code EXCEPT
           !.invalid = code.invalid \cup Invalidated(b, ws),
           !.mem[PageOf(b)] = [w \in PageOffsets |-> IF w \in ws THEN op ELSE @[w]],
           !.unseen = @ \/ (PageOf(b) = code.map /\ code.home # code.map),
           !.jumped = FALSE]

\* do_sp_dma, copy_pif_rdram, flashram_dma_write and the plugins write page .p and
\* invalidate nothing: a block that shows the page keeps what it holds.
UntoldWrite(p, ws, op) ==
    LET changed(b) == {w \in ws : Holds(b, w) /\ code.ops[b][w] # op}
    IN /\ Running
       /\ code' = [code EXCEPT
              !.mem[p] = [w \in PageOffsets |-> IF w \in ws THEN op ELSE @[w]],
              !.behind = [b \in CodeBlocks |-> IF PageOf(b) # p \/ Stale(b) THEN @[b]
                             ELSE (@[b] \ ws) \cup changed(b)],
              !.jumped = FALSE]

\* invalidate_cached_code_hacktarux with size 0: a reset, a change of the RDRAM's map.
InvalidateAll ==
    /\ Running
    /\ code' = [code EXCEPT !.invalid = CodeBlocks, !.jumped = FALSE]

-----------------------------------------------------------------------------
(* init_block: the blocks it sets up with .b, which are all those update_invalid_addr has *)
(* just marked, and the KSEG0 block of a page that is run through the TLB.               *)
SetUp(b) ==
    LET kseg == {Kseg0(PageOf(b)), Kseg1(PageOf(b))}
    IN {b, Kseg0(PageOf(b))} \cup (IF kseg \cap code.invalid # {} THEN kseg ELSE {})

(* cached_interpreter_jump_to for an address that is mapped. *)
Land(b, w) ==
    LET reset == IF Stale(b) THEN SetUp(b) ELSE {}
    IN code' = [code EXCEPT
           !.ops = [c \in CodeBlocks |-> IF c \in reset
                       THEN [o \in PageOffsets |-> "NOTCOMPILED"] ELSE @[c]],
           !.invalid = @ \ reset,
           !.home = IF b = Mapped /\ b \in reset THEN PageOf(b)
                    ELSE IF Kseg0(@) \in reset THEN Unmapped
                    ELSE @,
           !.unseen = CASE b = Mapped -> @ /\ b \notin reset
                        [] OTHER -> @ \/ (code.map = PageOf(b) /\ reset # {}),
           !.behind = [c \in CodeBlocks |-> IF c \in reset THEN {} ELSE @[c]],
           !.pc = [block |-> b, word |-> w],
           !.jumped = TRUE]

\* jump_to: a jump out of the page, an exception, the end of a TLB block.  One to a page
\* that is not mapped raises the refill exception, which jumps to its vector.
JumpTo(b, w) ==
    /\ Running
    /\ IF PageOf(b) = Unmapped THEN Land(Kseg0(VectorPage), 0) ELSE Land(b, w)

\* The next instruction of the block, and jumps inside it, which never ask invalid_code.
MoveInside(w) ==
    /\ Running
    /\ code.pc.block # Boot
    /\ code' = [code EXCEPT !.pc.word = w, !.jumped = FALSE]

-----------------------------------------------------------------------------
(* The last word decoded from .w on: ERET, or a delay slot that holds no jump itself. *)
Ends(p, w, i) ==
    /\ code.mem[p][i] \notin Jumps
    /\ code.mem[p][i] \in Enders \/ (i > w /\ code.mem[p][i - 1] \in Jumps)

(* The words recompile_block decodes from .w on. *)
Compiled(p, w) == {o \in w .. PageWords - 1 : \A i \in w .. o - 1 : ~Ends(p, w, i)}

\* recompile_block leaves a mark in the page's KSEG0 block for a word a TLB block holds,
\* so that Hits sees a write of it.
MarkHeld(o) == IF o = "NOTCOMPILED" THEN "NOTCOMPILED2" ELSE o

\* NOTCOMPILED: decode from here on.
Compile ==
    LET b == code.pc.block
        p == PageOf(b)
        ws == Compiled(p, code.pc.word)
        mark == IF b = Mapped THEN {Kseg0(p)} ELSE {}
    IN /\ ~Running
       /\ code' = [code EXCEPT
              !.ops = [c \in CodeBlocks |-> [w \in PageOffsets |->
                          IF w \notin ws THEN @[c][w]
                          ELSE IF c = b THEN code.mem[p][w]
                          ELSE IF c \in mark THEN MarkHeld(@[c][w]) ELSE @[c][w]]],
              !.hash = IF b = Mapped THEN NoHash ELSE @,
              !.behind[b] = @ \ ws,
              !.jumped = FALSE]

-----------------------------------------------------------------------------
(* Fault: a block that has a hash is taken back whatever its page holds by now. *)
TakenBackUnseen(p, hash) == hash # NoHash

(* A page mapped again has the contents its block was last known to agree with. *)
TakenBack(p, hash) == hash # NoHash /\ code.mem[p] = hash

\* TLBWrite: the old mapping's block is put away with the hash of its page, if it was
\* good; the new mapping's is taken back if its hash is that of the new page.
TLBWrite(p) ==
    LET good == Mapped \notin code.invalid /\ ~Stale(Mapped)
        hash == IF code.map = Unmapped THEN code.hash
                ELSE IF good THEN code.mem[code.map] ELSE NoHash
        back == p # Unmapped /\ TakenBack(p, hash)
        away == IF code.map = Unmapped THEN {} ELSE {Mapped}
    IN /\ Running
       /\ code.pc.block # Mapped
       /\ code' = [code EXCEPT
              !.map = p, !.hash = hash,
              !.invalid = IF back THEN @ \ {Mapped} ELSE @ \cup away,
              !.home = IF back /\ p # @ THEN Unmapped ELSE @,
              !.jumped = FALSE]

CodeNext ==
    \/ \E b \in CodeBlocks, ws \in SUBSET PageOffsets \ {{}}, op \in Opcodes :
           WriteWords(b, ws, op)
    \/ \E p \in RamPages, ws \in SUBSET PageOffsets \ {{}}, op \in Opcodes :
           UntoldWrite(p, ws, op)
    \/ InvalidateAll
    \/ \E b \in JumpTargets, w \in PageOffsets : JumpTo(b, w)
    \/ \E w \in PageOffsets : MoveInside(w)
    \/ Compile
    \/ \E p \in RamPages \cup {Unmapped} : TLBWrite(p)

CodeSpec == CodeInit /\ [][CodeNext]_code

-----------------------------------------------------------------------------
Fresh == LET b == code.pc.block
             w == code.pc.word
         IN Holds(b, w) /\ w \notin code.behind[b] => code.ops[b][w] = code.mem[PageOf(b)][w]

\* What a jump lands on in KSEG0 or KSEG1 is not compiled, or is what memory holds,
\* whichever alias the code was compiled through and whichever a store or a cartridge
\* DMA has written it through (update_invalid_addr, init_block, write_aligned_word).  The
\* exception is the code's own: a word that the RSP's, the SI's or a save memory's DMA
\* has changed since it was decoded (do_sp_dma, copy_pif_rdram, flashram_dma_write).
KsegFresh == code.jumped /\ code.pc.block \in Kseg => Fresh

\* So is what a jump through the TLB lands on, also after the page was unmapped and mapped
\* again, there or over another page, with the same exception and a second one: the marks
\* a store is seen by are lost when something else jumps to the page through KSEG, and
\* are missing on a page the block was taken back over (recompile_block,
\* update_invalid_addr, init_block, TLBWrite).
TlbFresh == code.jumped /\ code.pc.block = Mapped /\ ~code.unseen => Fresh
=============================================================================

--------------------------- MODULE CodeCache_proofs ---------------------------
(***************************************************************************)
(* For any number of pages of any size: a jump lands on an instruction that    *)
(* memory no longer holds only where a write was told to no block.             *)
(***************************************************************************)
EXTENDS CodeCache, TLAPS

\* Every word block b holds is the one page contents m have there, but for those that an
\* untold write has changed.
Decoded(b, m) ==
    \A w \in PageOffsets : Holds(b, w) /\ w \notin code.behind[b] => code.ops[b][w] = m[w]

\* The two KSEG blocks of a page that are both valid hold what the page does.
KsegKept ==
    \A p \in RamPages :
        {Kseg0(p), Kseg1(p)} \cap code.invalid = {} =>
            Decoded(Kseg0(p), code.mem[p]) /\ Decoded(Kseg1(p), code.mem[p])

\* A jump lands on a block that is set up, aliases included.
JumpedOnValid == code.jumped => code.pc.block # Boot /\ ~Stale(code.pc.block)

\* Without a mapping there is no TLB block to run, or to take for valid.
NoneMapped == code.map = Unmapped => Mapped \in code.invalid /\ code.pc.block # Mapped

\* A TLB block in use has its marks on the page it shows, or nowhere.
HomeShown ==
    code.map # Unmapped /\ (Mapped \notin code.invalid \/ code.pc.block = Mapped)
        => code.home \in {code.map, Unmapped}

\* The page that has the marks has one for every word of the TLB block.
Marked ==
    code.home # Unmapped =>
        \A w \in PageOffsets : Holds(Mapped, w) => code.ops[Kseg0(code.home)][w] # "NOTCOMPILED"

\* The TLB block holds what its page does, or did when the mapping was taken away.
TlbKept ==
    ~code.unseen =>
        IF code.map = Unmapped
           THEN code.hash # NoHash => Decoded(Mapped, code.hash)
           ELSE ~Stale(Mapped) => Decoded(Mapped, code.mem[code.map])

IInv ==
    /\ CodeTypeOK
    /\ KsegKept
    /\ JumpedOnValid
    /\ NoneMapped
    /\ HomeShown
    /\ Marked
    /\ TlbKept

-----------------------------------------------------------------------------
\* The blocks of different pages, and the kinds of block, are different.
LEMMA BlocksApart ==
    /\ \A p, q \in RamPages : Kseg0(p) # Kseg1(q)
    /\ \A p \in RamPages : Kseg0(p) # Mapped /\ Kseg1(p) # Mapped
    /\ \A p, q \in RamPages : Kseg0(p) = Kseg0(q) => p = q
    /\ \A p, q \in RamPages : Kseg1(p) = Kseg1(q) => p = q
    /\ \A p \in RamPages : {Kseg0(p), Kseg1(p)} \subseteq Kseg
    /\ Boot \notin CodeBlocks
    /\ Mapped \notin Kseg
    /\ Unmapped \notin RamPages
    /\ 0 \in PageOffsets
    /\ \A h \in [PageOffsets -> Opcodes] : h # NoHash
  BY CodeCacheAssumption
  DEF Kseg0, Kseg1, Mapped, Boot, Kseg, CodeBlocks, PageOffsets, NoHash

\* The page of a block, and the blocks of a page.
LEMMA PageOfBlock ==
    /\ \A p \in RamPages : PageOf(Kseg0(p)) = p /\ PageOf(Kseg1(p)) = p
    /\ PageOf(Mapped) = code.map
    /\ \A b \in Kseg : PageOf(b) \in RamPages /\ b \in {Kseg0(PageOf(b)), Kseg1(PageOf(b))}
    /\ \A b \in CodeBlocks : b \in Kseg \/ b = Mapped
  BY BlocksApart DEF PageOf, Kseg0, Kseg1, Kseg, CodeBlocks

LEMMA InitIInv == CodeInit => IInv
  <1> SUFFICES ASSUME CodeInit PROVE IInv
    OBVIOUS
  <1>1. PICK mem \in [RamPages -> [PageOffsets -> Opcodes]] :
            code = [mem     |-> mem,
                    ops     |-> [b \in CodeBlocks |-> [w \in PageOffsets |-> "NOTCOMPILED"]],
                    invalid |-> CodeBlocks, hash |-> NoHash, map |-> Unmapped, home |-> Unmapped,
                    pc      |-> [block |-> Boot, word |-> 0], jumped |-> FALSE, unseen |-> FALSE,
                    behind  |-> [b \in CodeBlocks |-> {}]]
    BY DEF CodeInit
  <1>2. CodeTypeOK
    BY <1>1, BlocksApart DEF CodeTypeOK, NotCompiled
  <1>3. KsegKept
    BY <1>1, BlocksApart DEF KsegKept, CodeBlocks
  <1>4. JumpedOnValid /\ NoneMapped /\ HomeShown /\ Marked /\ TlbKept
    BY <1>1, BlocksApart DEF JumpedOnValid, NoneMapped, HomeShown, Marked, TlbKept, CodeBlocks
  <1> QED  BY <1>2, <1>3, <1>4 DEF IInv

\* A write reaches every block that holds one of its words, through whichever alias.
LEMMA WriteIInv ==
    ASSUME IInv, NEW b \in CodeBlocks, NEW ws \in SUBSET PageOffsets, NEW op \in Opcodes,
           WriteWords(b, ws, op)
    PROVE  IInv'
  <1> DEFINE p == PageOf(b)
             page == [w \in PageOffsets |-> IF w \in ws THEN op ELSE code.mem[p][w]]
             hit == Invalidated(b, ws)
  <1>1. p \in RamPages /\ (b = Mapped => p = code.map)
    BY BlocksApart, PageOfBlock DEF WriteWords, IInv, CodeTypeOK
  <1>2. page \in [PageOffsets -> Opcodes]
    BY <1>1 DEF IInv, CodeTypeOK
  <1>3. code' = [code EXCEPT !.invalid = code.invalid \cup hit, !.mem[p] = page,
                             !.unseen = code.unseen \/ (p = code.map /\ code.home # code.map),
                             !.jumped = FALSE]
    BY DEF WriteWords
  <1>4. hit \subseteq CodeBlocks
    BY <1>1, BlocksApart DEF Invalidated, CodeBlocks, Kseg
  <1>5. /\ code'.mem = [code.mem EXCEPT ![p] = page]
        /\ code'.invalid = code.invalid \cup hit
        /\ code'.unseen = (code.unseen \/ (p = code.map /\ code.home # code.map))
        /\ code'.jumped = FALSE
        /\ code'.ops = code.ops /\ code'.hash = code.hash /\ code'.map = code.map
        /\ code'.home = code.home /\ code'.pc = code.pc /\ code'.behind = code.behind
    BY <1>3 DEF IInv, CodeTypeOK
  <1> HIDE DEF p, page, hit
  <1>6. CodeTypeOK'
    BY <1>1, <1>2, <1>3, <1>4 DEF IInv, CodeTypeOK
  <1>7. ASSUME NEW c \in {Kseg0(p), Kseg1(p)}, c \notin code'.invalid, NEW w \in ws,
               Holds(c, w)
        PROVE  FALSE
    BY <1>5, <1>7 DEF Holds, NotCompiled, Invalidated, Hits, hit, p
  <1>8. KsegKept'
    <2> SUFFICES ASSUME NEW q \in RamPages, NEW c \in {Kseg0(q), Kseg1(q)},
                        {Kseg0(q), Kseg1(q)} \cap code'.invalid = {},
                        NEW w \in PageOffsets, Holds(c, w)', w \notin code'.behind[c]
                 PROVE  code'.ops[c][w] = code'.mem[q][w]
      BY DEF KsegKept, Decoded
    <2>1. code.ops[c][w] = code.mem[q][w] /\ Holds(c, w)
      BY <1>5 DEF IInv, KsegKept, Decoded, Holds
    <2>2. CASE q # p
      BY <1>5, <2>1, <2>2 DEF IInv, CodeTypeOK
    <2>3. CASE q = p
      <3>1. w \notin ws
        BY <1>7, <2>1, <2>3
      <3> QED  BY <1>1, <1>5, <2>1, <2>3, <3>1 DEF page, IInv, CodeTypeOK
    <2> QED  BY <2>2, <2>3
  <1>9. JumpedOnValid' /\ NoneMapped' /\ HomeShown'
    BY <1>5 DEF IInv, JumpedOnValid, NoneMapped, HomeShown
  <1>10. Marked'
    BY <1>5 DEF IInv, Marked, Holds
  <1>11. TlbKept'
    <2> SUFFICES ASSUME ~code'.unseen PROVE TlbKept'
      BY DEF TlbKept
    <2>1. CASE code.map = Unmapped
      BY <1>5, <2>1 DEF IInv, TlbKept, Decoded, Holds
    <2>2. CASE code.map # Unmapped
      <3> SUFFICES ASSUME ~Stale(Mapped)', NEW w \in PageOffsets, Holds(Mapped, w)',
                          w \notin code'.behind[Mapped]
                   PROVE  code'.ops[Mapped][w] = code'.mem[code.map][w]
        BY <1>5, <2>2 DEF TlbKept, Decoded
      <3>1. ~Stale(Mapped)
        BY <1>5 DEF Stale, PageOf
      <3>2. code.ops[Mapped][w] = code.mem[code.map][w] /\ Holds(Mapped, w)
        BY <1>5, <2>2, <3>1 DEF IInv, TlbKept, Decoded, Holds
      <3>3. code.map \in RamPages
        BY <2>2 DEF IInv, CodeTypeOK
      <3>4. CASE code.map # p
        BY <1>5, <3>2, <3>3, <3>4 DEF IInv, CodeTypeOK
      <3>5. CASE code.map = p
        <4>1. code.home = code.map
          BY <1>5, <3>5
        <4>2. code.ops[Kseg0(p)][w] # "NOTCOMPILED"
          BY <2>2, <3>2, <3>5, <4>1 DEF IInv, Marked
        <4>3. Kseg0(p) \notin code'.invalid
          BY <1>5, <3>5, BlocksApart, PageOfBlock DEF Stale, PageOf
        <4>4. w \notin ws
          BY <1>5, <4>2, <4>3 DEF hit, Invalidated, Hits, p
        <4> QED  BY <1>1, <1>5, <3>2, <3>5, <4>4 DEF page, IInv, CodeTypeOK
      <3> QED  BY <3>4, <3>5
    <2> QED  BY <2>1, <2>2
  <1> QED  BY <1>6, <1>8, <1>9, <1>10, <1>11 DEF IInv

\* An untold write leaves the blocks in use that show its page behind by the words it
\* changes, and no others.
LEMMA UntoldIInv ==
    ASSUME IInv, NEW p \in RamPages, NEW ws \in SUBSET PageOffsets, NEW op \in Opcodes,
           UntoldWrite(p, ws, op)
    PROVE  IInv'
  <1> DEFINE page == [w \in PageOffsets |-> IF w \in ws THEN op ELSE code.mem[p][w]]
             changed(b) == {w \in ws : Holds(b, w) /\ code.ops[b][w] # op}
             behind == [b \in CodeBlocks |-> IF PageOf(b) # p \/ Stale(b) THEN code.behind[b]
                                              ELSE (code.behind[b] \ ws) \cup changed(b)]
  <1>1. code' = [code EXCEPT !.mem[p] = page, !.behind = behind, !.jumped = FALSE]
    BY DEF UntoldWrite
  <1>2. page \in [PageOffsets -> Opcodes] /\ behind \in [CodeBlocks -> SUBSET PageOffsets]
    BY DEF IInv, CodeTypeOK
  <1>3. /\ code'.mem = [code.mem EXCEPT ![p] = page] /\ code'.behind = behind
        /\ code'.jumped = FALSE /\ code'.ops = code.ops /\ code'.invalid = code.invalid
        /\ code'.hash = code.hash /\ code'.map = code.map /\ code'.home = code.home
        /\ code'.pc = code.pc /\ code'.unseen = code.unseen
    BY <1>1 DEF IInv, CodeTypeOK
  <1>4. \A b \in CodeBlocks, w \in PageOffsets :
            PageOf(b) # p \/ Stale(b) => (w \in behind[b] <=> w \in code.behind[b])
    OBVIOUS
  <1>5. ASSUME NEW b \in CodeBlocks, PageOf(b) = p, ~Stale(b), NEW w \in PageOffsets,
               Holds(b, w), w \notin behind[b],
               Decoded(b, code.mem[p])
        PROVE  code.ops[b][w] = page[w]
    BY <1>5 DEF Decoded
  <1>6. code'.mem[p] = page /\ \A q \in RamPages : q # p => code'.mem[q] = code.mem[q]
    BY <1>3 DEF IInv, CodeTypeOK
  <1>7. CodeTypeOK'
    <2> HIDE DEF page, behind
    <2> QED  BY <1>1, <1>2 DEF IInv, CodeTypeOK
  <1> HIDE DEF page, behind
  <1>8. KsegKept'
    <2> SUFFICES ASSUME NEW q \in RamPages, NEW c \in {Kseg0(q), Kseg1(q)},
                        {Kseg0(q), Kseg1(q)} \cap code'.invalid = {},
                        NEW w \in PageOffsets, Holds(c, w)', w \notin code'.behind[c]
                 PROVE  code'.ops[c][w] = code'.mem[q][w]
      BY DEF KsegKept, Decoded
    <2>1. c \in CodeBlocks /\ PageOf(c) = q
      BY BlocksApart, PageOfBlock DEF CodeBlocks
    <2>2. ~Stale(c) /\ Decoded(c, code.mem[q]) /\ Holds(c, w)
      BY <1>3, <2>1 DEF Stale, IInv, KsegKept, Holds
    <2>3. CASE q # p
      BY <1>3, <1>4, <1>6, <2>1, <2>2, <2>3 DEF Decoded
    <2>4. CASE q = p
      BY <1>3, <1>5, <1>6, <2>1, <2>2, <2>4
    <2> QED  BY <2>3, <2>4
  <1>9. JumpedOnValid' /\ NoneMapped' /\ HomeShown' /\ Marked'
    BY <1>3 DEF IInv, JumpedOnValid, NoneMapped, HomeShown, Marked, Holds
  <1>10. TlbKept'
    <2>1. Mapped \in CodeBlocks /\ PageOf(Mapped) = code.map
      BY PageOfBlock DEF CodeBlocks
    <2>2. Stale(Mapped)' <=> Stale(Mapped)
      BY <1>3 DEF Stale, PageOf
    <2>3. CASE code.map = Unmapped
      BY <1>3, <1>4, <2>1, <2>3, BlocksApart DEF IInv, TlbKept, Decoded, Holds
    <2>4. CASE code.map # Unmapped
      <3> SUFFICES ASSUME ~code.unseen, ~Stale(Mapped), NEW w \in PageOffsets,
                          Holds(Mapped, w)', w \notin code'.behind[Mapped]
                   PROVE  code'.ops[Mapped][w] = code'.mem[code.map][w]
        BY <1>3, <2>2, <2>4 DEF TlbKept, Decoded
      <3>1. Decoded(Mapped, code.mem[code.map]) /\ Holds(Mapped, w) /\ code.map \in RamPages
        BY <1>3, <2>4 DEF IInv, TlbKept, Holds, CodeTypeOK
      <3>2. CASE code.map # p
        BY <1>3, <1>4, <1>6, <2>1, <3>1, <3>2 DEF Decoded
      <3>3. CASE code.map = p
        BY <1>3, <1>5, <1>6, <2>1, <3>1, <3>3
      <3> QED  BY <3>2, <3>3
    <2> QED  BY <2>3, <2>4
  <1> QED  BY <1>7, <1>8, <1>9, <1>10 DEF IInv

\* A jump sets up what is stale, and leaves no alias of it stale.
LEMMA LandIInv ==
    ASSUME IInv, NEW b \in CodeBlocks, NEW w \in PageOffsets, PageOf(b) \in RamPages, Land(b, w)
    PROVE  IInv'
  <1> DEFINE p == PageOf(b)
             reset == IF Stale(b) THEN SetUp(b) ELSE {}
             blank == [o \in PageOffsets |-> "NOTCOMPILED"]
             ops == [c \in CodeBlocks |-> IF c \in reset THEN blank ELSE code.ops[c]]
             home == IF b = Mapped /\ b \in reset THEN p
                     ELSE IF Kseg0(code.home) \in reset THEN Unmapped
                     ELSE code.home
             unseen == CASE b = Mapped -> code.unseen /\ b \notin reset
                         [] OTHER -> code.unseen \/ (code.map = p /\ reset # {})
             behind == [c \in CodeBlocks |-> IF c \in reset THEN {} ELSE code.behind[c]]
  <1>1. code' = [code EXCEPT !.ops = ops, !.invalid = code.invalid \ reset, !.home = home,
                             !.unseen = unseen, !.behind = behind,
                             !.pc = [block |-> b, word |-> w], !.jumped = TRUE]
    BY DEF Land
  <1>2. /\ code'.ops = ops /\ code'.invalid = code.invalid \ reset /\ code'.home = home
        /\ code'.unseen = unseen /\ code'.pc.block = b /\ code'.jumped = TRUE
        /\ code'.mem = code.mem /\ code'.hash = code.hash /\ code'.map = code.map
        /\ code'.behind = behind
    BY <1>1 DEF IInv, CodeTypeOK
  <1>3. /\ reset \subseteq CodeBlocks
        /\ Mapped \in reset <=> b = Mapped /\ reset # {}
        /\ \A q \in RamPages : q # p => Kseg0(q) \notin reset /\ Kseg1(q) \notin reset
        /\ reset # {} => Kseg0(p) \in reset /\ b \in reset
        /\ Kseg1(p) \in reset <=> Stale(b) /\ (b = Kseg1(p) \/ {Kseg0(p), Kseg1(p)} \cap code.invalid # {})
        /\ b \in {Mapped, Kseg0(p), Kseg1(p)}
        /\ b = Mapped => p = code.map
    BY BlocksApart, PageOfBlock DEF SetUp, CodeBlocks, Kseg
  <1>4. ({b, Kseg0(p), Kseg1(p)} \cap code.invalid) \subseteq reset
    BY <1>3 DEF Stale, SetUp
  <1>5. home \in {code.home, Unmapped, p} /\ unseen \in BOOLEAN
    BY DEF IInv, CodeTypeOK
  <1>6. \A c \in CodeBlocks, o \in PageOffsets : Holds(c, o)' =>
            /\ c \notin reset /\ Holds(c, o) /\ code'.ops[c][o] = code.ops[c][o]
            /\ code'.behind[c] = code.behind[c]
    BY <1>2 DEF Holds, NotCompiled
  <1>7. CodeTypeOK'
    <2>1. ops \in [CodeBlocks -> [PageOffsets -> Opcodes \cup NotCompiled]]
      BY DEF IInv, CodeTypeOK, NotCompiled
    <2>2. behind \in [CodeBlocks -> SUBSET PageOffsets]
      BY DEF IInv, CodeTypeOK
    <2> HIDE DEF ops, home, unseen, reset, behind
    <2> QED  BY <1>1, <1>5, <2>1, <2>2 DEF IInv, CodeTypeOK
  <1> HIDE DEF ops, reset, behind
  <1>8. KsegKept'
    <2> SUFFICES ASSUME NEW q \in RamPages, NEW c \in {Kseg0(q), Kseg1(q)},
                        {Kseg0(q), Kseg1(q)} \cap code'.invalid = {},
                        NEW o \in PageOffsets, Holds(c, o)', o \notin code'.behind[c]
                 PROVE  code'.ops[c][o] = code'.mem[q][o]
      BY DEF KsegKept, Decoded
    <2>1. c \in CodeBlocks
      BY BlocksApart DEF CodeBlocks
    <2>2. /\ Holds(c, o) /\ code'.ops[c][o] = code.ops[c][o] /\ c \notin reset
          /\ o \notin code.behind[c]
      BY <1>6, <2>1
    <2>3. {Kseg0(q), Kseg1(q)} \cap code.invalid = {}
      BY <1>2, <1>3, <1>4, <2>2 DEF Stale
    <2> QED  BY <1>2, <2>2, <2>3 DEF IInv, KsegKept, Decoded
  <1>9. JumpedOnValid'
    <2>1. b # Boot
      BY BlocksApart
    <2>2. PageOf(b)' = p
      BY <1>2 DEF PageOf
    <2> QED  BY <1>2, <1>4, <2>1, <2>2 DEF JumpedOnValid, Stale
  <1>10. NoneMapped' /\ HomeShown'
    BY <1>2, <1>3, <1>4, BlocksApart DEF IInv, NoneMapped, HomeShown, Stale
  <1>11. Marked'
    <2> SUFFICES ASSUME code'.home # Unmapped, NEW o \in PageOffsets, Holds(Mapped, o)'
                 PROVE  code'.ops[Kseg0(code'.home)][o] # "NOTCOMPILED"
      BY DEF Marked
    <2>1. Mapped \notin reset /\ Holds(Mapped, o)
      BY <1>6 DEF CodeBlocks
    <2>2. code'.home = code.home /\ Kseg0(code.home) \notin reset
      BY <1>2, <1>3, <2>1
    <2>3. Kseg0(code.home) \in CodeBlocks
      BY <2>2, BlocksApart DEF IInv, CodeTypeOK, CodeBlocks
    <2> QED  BY <1>2, <2>1, <2>2, <2>3 DEF IInv, Marked, ops
  <1>12. TlbKept'
    <2> SUFFICES ASSUME ~code'.unseen PROVE TlbKept'
      BY DEF TlbKept
    <2>1. CASE code.map = Unmapped
      <3>1. b # Mapped /\ Mapped \notin reset /\ ~code.unseen
        BY <1>2, <1>3, <2>1, BlocksApart
      <3> QED  BY <1>2, <1>6, <2>1, <3>1 DEF IInv, TlbKept, Decoded, CodeBlocks
    <2>2. CASE code.map # Unmapped
      <3> SUFFICES ASSUME ~Stale(Mapped)', NEW o \in PageOffsets, Holds(Mapped, o)',
                          o \notin code'.behind[Mapped]
                   PROVE  code'.ops[Mapped][o] = code'.mem[code.map][o]
        BY <1>2, <2>2 DEF TlbKept, Decoded
      <3>1. /\ Mapped \notin reset /\ Holds(Mapped, o) /\ code'.ops[Mapped][o] = code.ops[Mapped][o]
            /\ o \notin code.behind[Mapped]
        BY <1>6 DEF CodeBlocks
      <3>2. ~code.unseen /\ (code.map = p => reset = {})
        BY <1>2, <1>3, <3>1
      <3>3. ~Stale(Mapped)
        BY <1>2, <1>3, <2>2, <3>1, <3>2 DEF Stale, PageOf, IInv, CodeTypeOK
      <3> QED  BY <1>2, <2>2, <3>1, <3>2, <3>3 DEF IInv, TlbKept, Decoded
    <2> QED  BY <2>1, <2>2
  <1> QED  BY <1>7, <1>8, <1>9, <1>10, <1>11, <1>12 DEF IInv

\* What is decoded is what memory holds; a word of the TLB block leaves its mark.
LEMMA CompileIInv == IInv /\ Compile => IInv'
  <1> SUFFICES ASSUME IInv, Compile PROVE IInv'
    OBVIOUS
  <1> DEFINE b == code.pc.block
             p == PageOf(b)
             ws == Compiled(p, code.pc.word)
             mark == IF b = Mapped THEN {Kseg0(p)} ELSE {}
             ops == [c \in CodeBlocks |-> [w \in PageOffsets |->
                       IF w \notin ws THEN code.ops[c][w]
                       ELSE IF c = b THEN code.mem[p][w]
                       ELSE IF c \in mark THEN MarkHeld(code.ops[c][w]) ELSE code.ops[c][w]]]
             hash == IF b = Mapped THEN NoHash ELSE code.hash
  <1>1. b \in CodeBlocks
    BY DEF Compile, Running, IInv, CodeTypeOK
  <1>2. p \in RamPages /\ (b = Mapped => p = code.map) /\ b \in {Mapped, Kseg0(p), Kseg1(p)}
    BY <1>1, PageOfBlock DEF IInv, CodeTypeOK, NoneMapped
  <1>3. code' = [code EXCEPT !.ops = ops, !.hash = hash, !.behind[b] = code.behind[b] \ ws,
                             !.jumped = FALSE]
    BY DEF Compile
  <1>4. /\ code'.ops = ops /\ code'.hash = hash /\ code'.jumped = FALSE
        /\ code'.mem = code.mem /\ code'.invalid = code.invalid /\ code'.map = code.map
        /\ code'.home = code.home /\ code'.pc = code.pc /\ code'.unseen = code.unseen
        /\ code'.behind = [code.behind EXCEPT ![b] = code.behind[b] \ ws]
    BY <1>3 DEF IInv, CodeTypeOK
  <1>5. ops \in [CodeBlocks -> [PageOffsets -> Opcodes \cup NotCompiled]]
    BY <1>1, <1>2 DEF IInv, CodeTypeOK, MarkHeld, NotCompiled
  <1>6. \A c \in CodeBlocks, w \in PageOffsets :
            ops[c][w] = IF w \notin ws THEN code.ops[c][w]
                        ELSE IF c = b THEN code.mem[p][w]
                        ELSE IF c \in mark THEN MarkHeld(code.ops[c][w]) ELSE code.ops[c][w]
    OBVIOUS
  <1>7. CodeTypeOK'
    <2> HIDE DEF ops
    <2> QED  BY <1>3, <1>5 DEF IInv, CodeTypeOK
  <1> HIDE DEF ops, ws
  <1>8. \A c \in CodeBlocks, w \in PageOffsets :
            Holds(c, w)' => \/ c = b /\ ops[c][w] = code.mem[p][w]
                            \/ /\ Holds(c, w) /\ ops[c][w] = code.ops[c][w]
                               /\ w \in code.behind[c] => w \in code'.behind[c]
    BY <1>1, <1>4, <1>6 DEF Holds, MarkHeld, NotCompiled, IInv, CodeTypeOK
  <1>9. KsegKept'
    <2> SUFFICES ASSUME NEW q \in RamPages, NEW c \in {Kseg0(q), Kseg1(q)},
                        {Kseg0(q), Kseg1(q)} \cap code'.invalid = {},
                        NEW w \in PageOffsets, Holds(c, w)', w \notin code'.behind[c]
                 PROVE  code'.ops[c][w] = code'.mem[q][w]
      BY DEF KsegKept, Decoded
    <2>1. c \in CodeBlocks /\ PageOf(c) = q
      BY BlocksApart, PageOfBlock DEF CodeBlocks
    <2> QED  BY <1>4, <1>8, <2>1 DEF IInv, KsegKept, Decoded
  <1>10. JumpedOnValid' /\ NoneMapped' /\ HomeShown'
    BY <1>4 DEF IInv, JumpedOnValid, NoneMapped, HomeShown
  <1>11. Marked'
    <2> SUFFICES ASSUME code.home # Unmapped, NEW w \in PageOffsets, Holds(Mapped, w)'
                 PROVE  ops[Kseg0(code.home)][w] # "NOTCOMPILED"
      BY <1>4 DEF Marked
    <2>1. Kseg0(code.home) \in CodeBlocks /\ Mapped \in CodeBlocks
      BY BlocksApart DEF IInv, CodeTypeOK, CodeBlocks
    <2>2. code.mem[p][w] # "NOTCOMPILED"
      BY <1>2, CodeCacheAssumption DEF IInv, CodeTypeOK, NotCompiled
    <2>3. CASE Holds(Mapped, w)
      BY <1>6, <2>1, <2>2, <2>3 DEF IInv, Marked, MarkHeld
    <2>4. CASE ~Holds(Mapped, w)
      <3>1. b = Mapped /\ w \in ws
        BY <1>4, <1>6, <2>1, <2>4 DEF Holds, MarkHeld, NotCompiled
      <3>2. code.home = p
        BY <1>2, <3>1 DEF IInv, HomeShown, NoneMapped
      <3> QED  BY <1>6, <2>1, <3>1, <3>2, BlocksApart DEF MarkHeld, IInv, CodeTypeOK
    <2> QED  BY <2>3, <2>4
  <1>12. TlbKept'
    <2>1. Mapped \in CodeBlocks
      BY DEF CodeBlocks
    <2>2. Stale(Mapped)' <=> Stale(Mapped)
      BY <1>4 DEF Stale, PageOf
    <2>3. b = Mapped => code.map # Unmapped
      BY DEF IInv, NoneMapped
    <2> QED  BY <1>2, <1>4, <1>8, <2>1, <2>2, <2>3 DEF IInv, TlbKept, Decoded, Holds
  <1> QED  BY <1>7, <1>9, <1>10, <1>11, <1>12 DEF IInv

\* A mapping taken away leaves the hash of what its block holds; one that is taken back
\* shows the page that has that hash.
LEMMA TLBWriteIInv ==
    ASSUME IInv, NEW p \in RamPages \cup {Unmapped}, TLBWrite(p)
    PROVE  IInv'
  <1> DEFINE good == Mapped \notin code.invalid /\ ~Stale(Mapped)
             hash == IF code.map = Unmapped THEN code.hash
                     ELSE IF good THEN code.mem[code.map] ELSE NoHash
             back == p # Unmapped /\ TakenBack(p, hash)
             away == IF code.map = Unmapped THEN {} ELSE {Mapped}
             home == IF back /\ p # code.home THEN Unmapped ELSE code.home
             invalid == IF back THEN code.invalid \ {Mapped} ELSE code.invalid \cup away
  <1>1. code' = [code EXCEPT !.map = p, !.hash = hash, !.invalid = invalid, !.home = home,
                             !.jumped = FALSE]
    BY DEF TLBWrite
  <1>2. hash \in {NoHash} \cup [PageOffsets -> Opcodes] /\ invalid \subseteq CodeBlocks
    BY DEF IInv, CodeTypeOK, CodeBlocks
  <1>3. code.pc.block # Mapped
    BY DEF TLBWrite
  <1>4. /\ code'.map = p /\ code'.hash = hash /\ code'.invalid = invalid /\ code'.home = home
        /\ code'.jumped = FALSE /\ code'.mem = code.mem /\ code'.ops = code.ops
        /\ code'.pc = code.pc /\ code'.unseen = code.unseen /\ code'.behind = code.behind
    BY <1>1 DEF IInv, CodeTypeOK
  <1>5. ~code.unseen /\ hash # NoHash => Decoded(Mapped, hash)
    BY DEF IInv, TlbKept
  <1>6. ~back => Mapped \in invalid
    BY DEF IInv, NoneMapped
  <1> HIDE DEF hash, invalid
  <1>7. CodeTypeOK'
    BY <1>1, <1>2 DEF IInv, CodeTypeOK
  <1>8. KsegKept'
    BY <1>4, BlocksApart DEF IInv, KsegKept, Decoded, Holds, invalid
  <1>9. JumpedOnValid' /\ NoneMapped' /\ HomeShown' /\ Marked'
    BY <1>3, <1>4, <1>6 DEF IInv, JumpedOnValid, NoneMapped, HomeShown, Marked, Holds
  <1>10. TlbKept'
    <2>1. Stale(Mapped)' <=> {Mapped, Kseg0(p), Kseg1(p)} \cap invalid # {}
      BY <1>4 DEF Stale, PageOf
    <2>2. back => hash # NoHash /\ code.mem[p] = hash
      BY DEF TakenBack
    <2> HIDE DEF back
    <2> QED  BY <1>4, <1>5, <1>6, <2>1, <2>2 DEF TlbKept, Decoded, Holds
  <1> QED  BY <1>7, <1>8, <1>9, <1>10 DEF IInv

LEMMA StepIInv == IInv /\ [CodeNext]_code => IInv'
  <1> SUFFICES ASSUME IInv, [CodeNext]_code PROVE IInv'
    OBVIOUS
  <1>1. ASSUME NEW b \in CodeBlocks, NEW ws \in SUBSET PageOffsets \ {{}}, NEW op \in Opcodes,
               WriteWords(b, ws, op)
        PROVE  IInv'
    BY <1>1, WriteIInv
  <1>8. ASSUME NEW p \in RamPages, NEW ws \in SUBSET PageOffsets \ {{}}, NEW op \in Opcodes,
               UntoldWrite(p, ws, op)
        PROVE  IInv'
    BY <1>8, UntoldIInv
  <1>2. CASE InvalidateAll
    <2>1. code' = [code EXCEPT !.invalid = CodeBlocks, !.jumped = FALSE]
      BY <1>2 DEF InvalidateAll
    <2> QED  BY <2>1, BlocksApart
             DEF IInv, CodeTypeOK, KsegKept, JumpedOnValid, NoneMapped, HomeShown, Marked,
                 TlbKept, Decoded, Holds, Stale, CodeBlocks, PageOf
  <1>3. ASSUME NEW b \in JumpTargets, NEW w \in PageOffsets, JumpTo(b, w)
        PROVE  IInv'
    <2>1. b \in CodeBlocks /\ Kseg0(VectorPage) \in CodeBlocks
      BY CodeCacheAssumption, BlocksApart DEF CodeBlocks
    <2>2. PageOf(Kseg0(VectorPage)) \in RamPages /\ PageOf(b) \in RamPages \cup {Unmapped}
      BY <2>1, CodeCacheAssumption, PageOfBlock DEF IInv, CodeTypeOK
    <2>3. CASE PageOf(b) = Unmapped
      BY <1>3, <2>1, <2>2, <2>3, LandIInv, BlocksApart DEF JumpTo
    <2>4. CASE PageOf(b) # Unmapped
      BY <1>3, <2>1, <2>2, <2>4, LandIInv DEF JumpTo
    <2> QED  BY <2>3, <2>4
  <1>4. ASSUME NEW w \in PageOffsets, MoveInside(w) PROVE IInv'
    <2>1. code' = [code EXCEPT !.pc.word = w, !.jumped = FALSE]
      BY <1>4 DEF MoveInside
    <2>2. /\ code'.mem = code.mem /\ code'.ops = code.ops /\ code'.invalid = code.invalid
          /\ code'.hash = code.hash /\ code'.map = code.map /\ code'.home = code.home
          /\ code'.pc.block = code.pc.block /\ code'.jumped = FALSE
          /\ code'.unseen = code.unseen /\ code'.behind = code.behind
      BY <2>1 DEF IInv, CodeTypeOK
    <2>3. CodeTypeOK'
      BY <2>1 DEF IInv, CodeTypeOK
    <2>4. KsegKept' /\ Marked'
      BY <2>2 DEF IInv, KsegKept, Marked, Decoded, Holds
    <2>5. JumpedOnValid' /\ NoneMapped' /\ HomeShown'
      BY <2>2 DEF IInv, JumpedOnValid, NoneMapped, HomeShown
    <2>6. TlbKept'
      BY <2>2 DEF IInv, TlbKept, Decoded, Holds, Stale, PageOf
    <2> QED  BY <2>3, <2>4, <2>5, <2>6 DEF IInv
  <1>5. CASE Compile
    BY <1>5, CompileIInv
  <1>6. ASSUME NEW p \in RamPages \cup {Unmapped}, TLBWrite(p) PROVE IInv'
    BY <1>6, TLBWriteIInv
  <1>7. CASE UNCHANGED code
    BY <1>7 DEF IInv, CodeTypeOK, KsegKept, JumpedOnValid, NoneMapped, HomeShown, Marked,
                TlbKept, Decoded, Holds, Stale, PageOf
  <1> QED  BY <1>1, <1>2, <1>3, <1>4, <1>5, <1>6, <1>7, <1>8 DEF CodeNext

-----------------------------------------------------------------------------
\* Blocks, marks, hashes and memory keep their types.
THEOREM TypeCorrect == CodeSpec => []CodeTypeOK
  <1>1. IInv => CodeTypeOK
    BY DEF IInv
  <1> QED  BY <1>1, InitIInv, StepIInv, PTL DEF CodeSpec

\* For any number of pages: a jump into KSEG0 or KSEG1 lands on a word that is not
\* compiled, or on what memory holds (update_invalid_addr, init_block,
\* r4300_write_aligned_word and cart_rom_dma_write together), or on one changed since by
\* a writer that invalidates nothing (do_sp_dma, copy_pif_rdram, flashram_dma_write).
THEOREM KsegJumpsFresh == CodeSpec => []KsegFresh
  <1>1. IInv => KsegFresh
    <2> SUFFICES ASSUME IInv, code.jumped, code.pc.block \in Kseg,
                        Holds(code.pc.block, code.pc.word),
                        code.pc.word \notin code.behind[code.pc.block]
                 PROVE  code.ops[code.pc.block][code.pc.word]
                            = code.mem[PageOf(code.pc.block)][code.pc.word]
      BY DEF KsegFresh, Fresh
    <2> DEFINE b == code.pc.block
    <2>1. PageOf(b) \in RamPages /\ b \in {Kseg0(PageOf(b)), Kseg1(PageOf(b))}
      BY PageOfBlock
    <2>2. {Kseg0(PageOf(b)), Kseg1(PageOf(b))} \cap code.invalid = {}
      BY DEF IInv, JumpedOnValid, Stale
    <2>3. code.pc.word \in PageOffsets
      BY DEF IInv, CodeTypeOK
    <2> QED  BY <2>1, <2>2, <2>3 DEF IInv, KsegKept, Decoded
  <1> QED  BY <1>1, InitIInv, StepIInv, PTL DEF CodeSpec

\* For any number of pages: so does a jump through the TLB, with the same exception, and
\* but for the pages the code leaves without marks (TLBWrite's hash of what it takes away
\* included).
THEOREM TlbJumpsFresh == CodeSpec => []TlbFresh
  <1>1. IInv => TlbFresh
    <2> SUFFICES ASSUME IInv, code.jumped, code.pc.block = Mapped, ~code.unseen,
                        Holds(Mapped, code.pc.word), code.pc.word \notin code.behind[Mapped]
                 PROVE  code.ops[Mapped][code.pc.word] = code.mem[PageOf(Mapped)][code.pc.word]
      BY DEF TlbFresh, Fresh
    <2>1. ~Stale(Mapped) /\ code.map # Unmapped /\ PageOf(Mapped) = code.map
      BY DEF IInv, JumpedOnValid, NoneMapped, PageOf
    <2>2. code.pc.word \in PageOffsets
      BY DEF IInv, CodeTypeOK
    <2> QED  BY <2>1, <2>2 DEF IInv, TlbKept, Decoded
  <1> QED  BY <1>1, InitIInv, StepIInv, PTL DEF CodeSpec
=============================================================================

----------------------------- MODULE Audio_proofs -----------------------------
(***************************************************************************)
(* The way of the sound, for buffers of every length and accumulators of       *)
(* every size: from the queued buffers to the backend, and from the backend   *)
(* to the frontend, everything once and in order.                            *)
(***************************************************************************)
EXTENDS AiDma, AudioBackend, SequenceTheorems, TLAPS

-----------------------------------------------------------------------------
(* The audio interface.                                                     *)

\* The state between two handlers: what is owed is what is still to be handed over.
Conserved(a) ==
    /\ a \in AiState
    /\ a.lastread <= a.fifo[0].len
    /\ a.due \subseteq 0 .. a.fifo[0].dur
    /\ ~a.wrong
    /\ a.owed = Playing(a) \o Waiting(a)
    /\ a.full => a.busy

\* The parts of a sequence that begins with one of them.
LEMMA FirstPart ==
    ASSUME NEW S, NEW x \in S, NEW rest \in Seq(S)
    PROVE  /\ <<x>> \o rest # <<>>
           /\ Head(<<x>> \o rest) = x
           /\ Tail(<<x>> \o rest) = rest
  <1> DEFINE all == <<x>> \o rest
  <1>1. all \in Seq(S) /\ Len(all) = 1 + Len(rest) /\ all[1] = x
        /\ \A i \in 1 .. Len(rest) : all[i + 1] = rest[i]
    OBVIOUS
  <1> HIDE DEF all
  <1>2. all # <<>> /\ Head(all) = x /\ Tail(all) \in Seq(S) /\ Len(Tail(all)) = Len(rest)
        /\ \A i \in 1 .. Len(rest) : Tail(all)[i] = rest[i]
    BY <1>1
  <1>3. Tail(all) = rest
    BY <1>2
  <1> QED  BY <1>2, <1>3 DEF all

LEMMA NoMore ==
    ASSUME NEW S, NEW s \in Seq(S)
    PROVE  s \o <<>> = s /\ <<>> \o s = s
  OBVIOUS

LEMMA PartType ==
    ASSUME NEW tag \in Buffers, NEW at \in Nat, NEW n \in Nat
    PROVE  /\ Part(tag, at, n) \in Seq(Spans)
           /\ n = 0 => Part(tag, at, n) = <<>>
           /\ n > 0 => Part(tag, at, n) = <<[tag |-> tag, at |-> at, n |-> n]>>
  <1> DEFINE span == [tag |-> tag, at |-> at, n |-> n]
  <1>1. span \in Spans
    BY DEF Spans
  <1>2. Part(tag, at, n) = IF n > 0 THEN <<span>> ELSE <<>>
    BY DEF Part
  <1> HIDE DEF span
  <1>3. <<span>> \in Seq(Spans) /\ <<>> \in Seq(Spans)
    BY <1>1
  <1>4. n = 0 \/ n > 0
    OBVIOUS
  <1>5. (n = 0 => Part(tag, at, n) = <<>>) /\ (n > 0 => Part(tag, at, n) = <<span>>)
    BY <1>2
  <1> QED  BY <1>3, <1>4, <1>5 DEF span

LEMMA WaitingType ==
    ASSUME NEW a \in AiState
    PROVE  /\ Waiting(a) \in Seq(Spans)
           /\ a.fifo[0] \in Entries /\ a.fifo[1] \in Entries
  <1>1. a.fifo[0] \in Entries /\ a.fifo[1] \in Entries
    BY DEF AiState
  <1>2. a.fifo[1].tag \in Buffers /\ a.fifo[1].len \in Nat
    BY <1>1 DEF Entries
  <1>3. Part(a.fifo[1].tag, 0, a.fifo[1].len) \in Seq(Spans)
    BY <1>2, PartType
  <1> QED  BY <1>1, <1>3 DEF Waiting

\* What is handed over next is what is owed next: the rest stays owed.
LEMMA HandsOwed ==
    ASSUME NEW a, Conserved(a), NEW n \in 0 .. a.lastread
    PROVE  LET left == a.lastread - n
           IN  Hand(a, a.fifo[0].len - a.lastread, n)
                 = [a EXCEPT !.owed = Part(a.fifo[0].tag, a.fifo[0].len - left, left)
                                      \o Waiting(a)]
  <1> DEFINE tag  == a.fifo[0].tag
             len  == a.fifo[0].len
             left == a.lastread - n
             at   == len - a.lastread
  <1>1. /\ a \in AiState /\ a.owed = Part(tag, at, a.lastread) \o Waiting(a)
        /\ a.lastread <= len
    BY DEF Conserved, Playing
  <1>2. a.fifo[0] \in Entries /\ Waiting(a) \in Seq(Spans)
    BY <1>1, WaitingType
  <1>3. tag \in Buffers /\ len \in Nat /\ a.lastread \in Nat /\ left \in Nat /\ at \in Nat
    BY <1>1, <1>2 DEF Entries, AiState
  <1> HIDE DEF tag, len
  <1>4. CASE n = 0
    <2>0. left = a.lastread /\ len - left = at
      BY <1>3, <1>4
    <2>1. [a EXCEPT !.owed = Part(tag, len - left, left) \o Waiting(a)] = a
      <3>1. Part(tag, len - left, left) \o Waiting(a) = a.owed
        BY <1>1, <2>0
      <3> QED  BY <1>1, <3>1 DEF AiState
    <2>2. Hand(a, at, n) = a
      BY <1>4 DEF Hand
    <2> QED  BY <2>1, <2>2 DEF tag, len
  <1>5. CASE n > 0
    <2> DEFINE head == [tag |-> tag, at |-> at, n |-> a.lastread]
    <2>0. a.lastread > 0
      BY <1>3, <1>5
    <2>1. head \in Spans /\ a.owed = <<head>> \o Waiting(a)
      <3>1. Part(tag, at, a.lastread) = <<head>>
        BY <1>3, <2>0, PartType
      <3>2. head \in Spans
        BY <1>3 DEF Spans
      <3> QED  BY <1>1, <3>1, <3>2
    <2>2. a.owed # <<>> /\ Head(a.owed) = head /\ Tail(a.owed) = Waiting(a)
      BY <1>2, <2>1, FirstPart
    <2>3. Hand(a, at, n) = [a EXCEPT !.owed = Part(tag, at + n, a.lastread - n) \o Waiting(a)]
      <3>1. Head(a.owed).tag = tag /\ Head(a.owed).at = at /\ Head(a.owed).n = a.lastread
        BY <2>2
      <3>2. n > 0 /\ a.lastread >= n
        BY <1>3, <1>5
      <3>3. n # 0
        BY <1>5
      <3> HIDE DEF head, at
      <3> QED  BY <2>2, <3>1, <3>2, <3>3 DEF Hand, tag
    <2>4. at + n = len - left
      BY <1>3, <1>5
    <2> QED  BY <2>3, <2>4 DEF tag, len
  <1> QED  BY <1>3, <1>4, <1>5

LEMMA HandOverConserves ==
    ASSUME NEW a, Conserved(a), NEW remaining \in Nat
    PROVE  Conserved(HandOver(a, remaining))
  <1>1. CASE remaining >= a.lastread
    BY <1>1 DEF HandOver
  <1>2. CASE ~(remaining >= a.lastread)
    <2> DEFINE owed == Part(a.fifo[0].tag, a.fifo[0].len - remaining, remaining) \o Waiting(a)
               b    == [a EXCEPT !.owed = owed, !.lastread = remaining]
    <2>1. a \in AiState /\ a.lastread \in Nat /\ a.lastread <= a.fifo[0].len
      BY DEF Conserved, AiState
    <2>2. a.fifo[0] \in Entries /\ Waiting(a) \in Seq(Spans)
      BY <2>1, WaitingType
    <2>3. a.fifo[0].tag \in Buffers /\ a.fifo[0].len \in Nat
      BY <2>2 DEF Entries
    <2>4. owed \in Seq(Spans)
      <3>1. a.fifo[0].len - remaining \in Nat
        BY <1>2, <2>1, <2>3
      <3>2. Part(a.fifo[0].tag, a.fifo[0].len - remaining, remaining) \in Seq(Spans)
        BY <2>3, <3>1, PartType
      <3> QED  BY <2>2, <3>2
    <2>5. HandOver(a, remaining) = b
      <3>1. a.lastread - remaining \in 0 .. a.lastread
            /\ a.lastread - (a.lastread - remaining) = remaining
        BY <1>2, <2>1
      <3>2. Hand(a, a.fifo[0].len - a.lastread, a.lastread - remaining) = [a EXCEPT !.owed = owed]
        BY <3>1, HandsOwed
      <3> QED  BY <1>2, <2>1, <3>2 DEF HandOver, AiState
    <2> HIDE DEF owed
    <2>6. b \in AiState /\ b.fifo = a.fifo /\ b.due = a.due /\ b.full = a.full /\ b.busy = a.busy
          /\ b.wrong = a.wrong /\ b.lastread = remaining /\ b.owed = owed
      BY <2>1, <2>4 DEF AiState
    <2> HIDE DEF b
    <2>7. Waiting(b) = Waiting(a) /\ owed = Playing(b) \o Waiting(b)
      BY <2>6 DEF owed, Playing, Waiting
    <2> QED  BY <1>2, <2>1, <2>3, <2>5, <2>6, <2>7 DEF Conserved
  <1> QED  BY <1>1, <1>2

\* What has yet to be played is a length.
LEMMA RemainingType ==
    ASSUME NEW a, Conserved(a)
    PROVE  Remaining(a) \in Nat
  <1> DEFINE dur == a.fifo[0].dur
             len == a.fifo[0].len
             n   == CHOOSE n \in a.due : TRUE
  <1>1. dur \in Nat /\ len \in Nat
    BY WaitingType DEF Conserved, Entries
  <1>2. CASE dur = 0 \/ a.due = {}
    BY <1>2 DEF Remaining
  <1>3. CASE ~(dur = 0 \/ a.due = {})
    <2>1. n \in Nat
      BY <1>3 DEF Conserved
    <2> HIDE DEF n, len, dur
    <2>2. n * len \in Nat
      BY <1>1, <2>1
    <2>3. (n * len) \div dur \in Nat
      BY <1>1, <1>3, <2>2 DEF dur
    <2> QED  BY <1>3, <2>3 DEF Remaining, n, len, dur
  <1> QED  BY <1>2, <1>3
\* The entry a program pushes.
LEMMA DmaEntry ==
    ASSUME NEW tag \in Buffers, NEW len \in AiLengths, NEW rate \in DacRates,
           NEW low \in 0 .. rate - 1
    PROVE  /\ [tag |-> tag, len |-> len, dur |-> (len * rate) + low] \in Entries
           /\ len \in Nat
  <1>1. len \in Nat /\ rate \in Nat /\ low \in Nat
    BY AiAssumption
  <1>2. len * rate \in Nat
    BY <1>1
  <1>3. (len * rate) + low \in Nat
    BY <1>1, <1>2
  <1> QED  BY <1>1, <1>3 DEF Entries

\* An entry begins to play, and all of it is owed.
LEMMA Plays ==
    ASSUME NEW a \in AiState, NEW dma \in Entries, ~a.wrong
    PROVE  LET b == [a EXCEPT !.fifo[0] = dma, !.busy = TRUE, !.full = FALSE,
                              !.owed = Part(dma.tag, 0, dma.len), !.lastread = dma.len,
                              !.due = {dma.dur}]
           IN  Conserved(b)
  <1> DEFINE fifo == [a.fifo EXCEPT ![0] = dma]
             owed == Part(dma.tag, 0, dma.len)
             due  == {dma.dur}
             b    == [a EXCEPT !.fifo = fifo, !.busy = TRUE, !.full = FALSE, !.owed = owed,
                               !.lastread = dma.len, !.due = due]
  <1>1. dma.tag \in Buffers /\ dma.len \in Nat /\ dma.dur \in Nat
    BY DEF Entries
  <1>2. fifo \in [0 .. 1 -> Entries] /\ fifo[0] = dma
    BY DEF AiState
  <1>3. owed \in Seq(Spans) /\ owed \o <<>> = owed
    BY <1>1, PartType, NoMore
  <1>4. due \in SUBSET Nat /\ due \subseteq 0 .. dma.dur
    BY <1>1
  <1> HIDE DEF fifo, due
  <1>5. b \in AiState /\ b.fifo = fifo /\ b.full = FALSE /\ b.busy = TRUE /\ b.owed = owed
        /\ b.lastread = dma.len /\ b.due = due /\ ~b.wrong
    <2> HIDE DEF owed
    <2> QED  BY <1>1, <1>2, <1>3, <1>4 DEF AiState
  <1>6. b = [a EXCEPT !.fifo[0] = dma, !.busy = TRUE, !.full = FALSE, !.owed = owed,
                      !.lastread = dma.len, !.due = {dma.dur}]
    BY DEF fifo, due, AiState
  <1> HIDE DEF b
  <1>7. Playing(b) = owed
    BY <1>1, <1>2, <1>5 DEF Playing
  <1>8. Waiting(b) = <<>>
    BY <1>5 DEF Waiting
  <1>9. Conserved(b)
    <2> HIDE DEF owed
    <2> QED  BY <1>1, <1>2, <1>3, <1>4, <1>5, <1>7, <1>8 DEF Conserved
  <1> QED  BY <1>6, <1>9

\* do_dma of an entry just put first.
LEMMA DoDmaOf ==
    ASSUME NEW a \in AiState, NEW dma \in Entries
    PROVE  DoDma([a EXCEPT !.fifo[0] = dma])
             = [a EXCEPT !.fifo[0] = dma, !.lastread = dma.len, !.due = {dma.dur}]
  <1> DEFINE fifo == [a.fifo EXCEPT ![0] = dma]
             b    == [a EXCEPT !.fifo = fifo]
  <1>1. fifo[0] = dma
    BY DEF AiState
  <1>2. b = [a EXCEPT !.fifo[0] = dma]
    OBVIOUS
  <1> HIDE DEF fifo
  <1>3. b.fifo[0] = dma
    BY <1>1 DEF AiState
  <1>4. DoDma(b) = [b EXCEPT !.lastread = dma.len, !.due = {dma.dur}]
    BY <1>3 DEF DoDma
  <1>5. [b EXCEPT !.lastread = dma.len, !.due = {dma.dur}]
          = [a EXCEPT !.fifo = fifo, !.lastread = dma.len, !.due = {dma.dur}]
    BY DEF AiState
  <1> QED  BY <1>2, <1>4, <1>5 DEF fifo

LEMMA PushConserves == Conserved(ai) /\ Push => Conserved(ai)'
  <1> SUFFICES ASSUME Conserved(ai), Push PROVE Conserved(ai)'
    OBVIOUS
  <1>1. ai \in AiState /\ ~ai.wrong
    BY DEF Conserved
  <1>2. PICK tag \in Buffers, len \in AiLengths, low \in 0 .. ai.rate - 1 :
          LET dma  == [tag |-> tag, len |-> len, dur |-> (len * ai.rate) + low]
              part == Part(tag, 0, len)
          IN  ai' = IF ai.busy
                       THEN [ai EXCEPT !.fifo[1] = dma, !.full = TRUE,
                                       !.owed = Playing(ai) \o part]
                       ELSE DoDma([ai EXCEPT !.fifo[0] = dma, !.busy = TRUE, !.owed = part])
    BY DEF Push
  <1> DEFINE dma == [tag |-> tag, len |-> len, dur |-> (len * ai.rate) + low]
  <1>3. dma \in Entries /\ dma.tag = tag /\ dma.len = len /\ len \in Nat /\ ai.rate \in DacRates
    <2>1. ai.rate \in DacRates
      BY <1>1 DEF AiState
    <2> QED  BY <2>1, DmaEntry
  <1>4. ai' = IF ai.busy
                 THEN [ai EXCEPT !.fifo[1] = dma, !.full = TRUE,
                                 !.owed = Playing(ai) \o Part(tag, 0, len)]
                 ELSE DoDma([ai EXCEPT !.fifo[0] = dma, !.busy = TRUE, !.owed = Part(tag, 0, len)])
    BY <1>2
  <1> HIDE DEF dma
  <1>5. CASE ai.busy
    <2> DEFINE fifo == [ai.fifo EXCEPT ![1] = dma]
               owed == Playing(ai) \o Part(tag, 0, len)
    <2>1. ai' = [ai EXCEPT !.fifo = fifo, !.full = TRUE, !.owed = owed]
      BY <1>1, <1>4, <1>5 DEF AiState
    <2>2. fifo \in [0 .. 1 -> Entries] /\ fifo[0] = ai.fifo[0] /\ fifo[1] = dma
      BY <1>1, <1>3 DEF AiState
    <2>3. owed \in Seq(Spans)
      <3>1. Playing(ai) \in Seq(Spans)
        <4>1. ai.fifo[0].tag \in Buffers /\ ai.fifo[0].len \in Nat
          BY <1>1, WaitingType DEF Entries
        <4>2. ai.lastread \in Nat /\ ai.fifo[0].len - ai.lastread \in Nat
          BY <1>1, <4>1 DEF Conserved, AiState
        <4> QED  BY <4>1, <4>2, PartType DEF Playing
      <3>2. Part(tag, 0, len) \in Seq(Spans)
        BY <1>3, PartType
      <3> QED  BY <3>1, <3>2
    <2> HIDE DEF fifo, owed
    <2>4. ai' \in AiState /\ ai'.fifo = fifo /\ ai'.full = TRUE /\ ai'.owed = owed
          /\ ai'.lastread = ai.lastread /\ ai'.due = ai.due /\ ai'.busy = ai.busy /\ ~ai'.wrong
      BY <1>1, <2>1, <2>2, <2>3 DEF AiState
    <2>5. Playing(ai)' = Playing(ai) /\ Waiting(ai)' = Part(tag, 0, len)
      BY <1>3, <2>2, <2>4 DEF Playing, Waiting
    <2> QED  BY <1>5, <2>2, <2>4, <2>5 DEF Conserved, owed
  <1>6. CASE ~ai.busy
    <2>1. ai.full = FALSE
      BY <1>1, <1>6 DEF Conserved, AiState
    <2>2. ai' = [ai EXCEPT !.fifo[0] = dma, !.busy = TRUE, !.full = FALSE,
                           !.owed = Part(dma.tag, 0, dma.len), !.lastread = dma.len,
                           !.due = {dma.dur}]
      <3> DEFINE c == [ai EXCEPT !.busy = TRUE, !.owed = Part(tag, 0, len)]
      <3>1. c \in AiState /\ c.full = FALSE
        BY <1>1, <1>3, <2>1, PartType DEF AiState
      <3>2. ai' = DoDma([c EXCEPT !.fifo[0] = dma])
        <4>1. [ai EXCEPT !.fifo[0] = dma, !.busy = TRUE, !.owed = Part(tag, 0, len)]
                = [c EXCEPT !.fifo[0] = dma]
          BY <1>1 DEF AiState
        <4> QED  BY <1>4, <1>6, <4>1
      <3>3. ai' = [c EXCEPT !.fifo[0] = dma, !.lastread = dma.len, !.due = {dma.dur}]
        BY <1>3, <3>1, <3>2, DoDmaOf
      <3> QED  BY <1>1, <1>3, <2>1, <3>3 DEF AiState
    <2> QED  BY <1>1, <1>3, <2>2, Plays
  <1> QED  BY <1>5, <1>6

LEMMA EndConserves == Conserved(ai) /\ EndOfDma => Conserved(ai)'
  <1> SUFFICES ASSUME Conserved(ai), EndOfDma PROVE Conserved(ai)'
    OBVIOUS
  <1> DEFINE b == [ai EXCEPT !.owed = Waiting(ai), !.due = {}, !.lastread = 0]
  <1>1. /\ ai \in AiState /\ ai.fifo[0] \in Entries /\ ai.fifo[1] \in Entries
        /\ Waiting(ai) \in Seq(Spans)
        /\ ai.fifo[0].tag \in Buffers /\ ai.fifo[0].len \in Nat /\ ai.fifo[0].dur \in Nat
    BY WaitingType DEF Conserved, Entries
  <1>2. ai' = Pop(b)
    <2>1. ai.lastread \in 0 .. ai.lastread /\ ai.lastread - ai.lastread = 0
          /\ ai.fifo[0].len - (ai.lastread - ai.lastread) = ai.fifo[0].len
      BY <1>1 DEF AiState
    <2>2. Part(ai.fifo[0].tag, ai.fifo[0].len, 0) = <<>>
      BY <1>1, PartType
    <2>3. Hand(ai, ai.fifo[0].len - ai.lastread, ai.lastread)
            = [ai EXCEPT !.owed = <<>> \o Waiting(ai)]
      <3> DEFINE left == ai.lastread - ai.lastread
      <3>1. Hand(ai, ai.fifo[0].len - ai.lastread, ai.lastread)
              = [ai EXCEPT !.owed = Part(ai.fifo[0].tag, ai.fifo[0].len - left, left)
                                    \o Waiting(ai)]
        BY <2>1, HandsOwed
      <3>2. left = 0 /\ ai.fifo[0].len - left = ai.fifo[0].len
        BY <2>1
      <3> HIDE DEF left
      <3>3. Part(ai.fifo[0].tag, ai.fifo[0].len - left, left) = <<>>
        BY <2>2, <3>2
      <3> QED  BY <3>1, <3>3
    <2>4. [[ai EXCEPT !.owed = <<>> \o Waiting(ai)] EXCEPT !.due = {}, !.lastread = 0] = b
      BY <1>1, NoMore DEF AiState
    <2> QED  BY <2>3, <2>4 DEF EndOfDma
  <1>3. b \in AiState /\ b.owed = Waiting(ai) /\ b.due = {} /\ b.lastread = 0 /\ b.fifo = ai.fifo
        /\ b.full = ai.full /\ b.busy = ai.busy /\ b.wrong = FALSE
    BY <1>1 DEF AiState, Conserved
  <1> HIDE DEF b
  <1>4. CASE ai.full
    <2> DEFINE dma == ai.fifo[1]
    <2>1. ai.busy
      BY <1>4 DEF Conserved
    <2>2. ai' = [b EXCEPT !.fifo[0] = dma, !.busy = TRUE, !.full = FALSE,
                          !.owed = Part(dma.tag, 0, dma.len), !.lastread = dma.len,
                          !.due = {dma.dur}]
      <3>1. Waiting(ai) = Part(dma.tag, 0, dma.len)
        BY <1>4 DEF Waiting
      <3>2. ai' = [b EXCEPT !.fifo[0] = dma, !.full = FALSE, !.lastread = dma.len,
                            !.due = {dma.dur}]
        <4> DEFINE c == [b EXCEPT !.full = FALSE]
        <4>1. c \in AiState
          BY <1>3 DEF AiState
        <4>2. ai' = DoDma([c EXCEPT !.fifo[0] = dma])
          <5>1. [b EXCEPT !.fifo[0] = b.fifo[1], !.full = FALSE] = [c EXCEPT !.fifo[0] = dma]
            BY <1>3 DEF AiState
          <5> QED  BY <1>2, <1>3, <1>4, <5>1 DEF Pop
        <4>3. ai' = [c EXCEPT !.fifo[0] = dma, !.lastread = dma.len, !.due = {dma.dur}]
          BY <1>1, <4>1, <4>2, DoDmaOf
        <4> QED  BY <1>3, <4>3 DEF AiState
      <3> QED  BY <1>1, <1>3, <1>4, <2>1, <3>1, <3>2 DEF AiState
    <2> QED  BY <1>1, <1>3, <2>2, Plays
  <1>5. CASE ~ai.full
    <2>1. ai' = [b EXCEPT !.busy = FALSE]
      BY <1>2, <1>3, <1>5 DEF Pop
    <2>2. ai' \in AiState /\ ai'.owed = <<>> /\ ai'.due = {} /\ ai'.lastread = 0
          /\ ai'.fifo = ai.fifo /\ ~ai'.full /\ ~ai'.wrong
      BY <1>3, <1>5, <2>1 DEF AiState, Waiting
    <2>3. Playing(ai)' = <<>> /\ Waiting(ai)' = <<>>
      BY <1>1, <2>2, PartType DEF Playing, Waiting
    <2> QED  BY <1>1, <2>2, <2>3 DEF Conserved
  <1> QED  BY <1>4, <1>5

\* A restart forgets the buffer that waits.
LEMMA NmiConserves == Conserved(ai) /\ AiNmi => Conserved(ai)'
  <1> SUFFICES ASSUME Conserved(ai), AiNmi PROVE Conserved(ai)'
    OBVIOUS
  <1>1. /\ ai \in AiState
        /\ ai.fifo[0].tag \in Buffers /\ ai.fifo[0].len \in Nat /\ ai.fifo[0].dur \in Nat
    BY WaitingType DEF Conserved, Entries
  <1>2. Playing(ai) \in Seq(Spans)
    <2>1. ai.lastread \in Nat /\ ai.fifo[0].len - ai.lastread \in Nat
      BY <1>1 DEF Conserved, AiState
    <2> QED  BY <1>1, <2>1, PartType DEF Playing
  <1>3. ai' = [ai EXCEPT !.due = {}, !.busy = FALSE, !.full = FALSE, !.owed = Playing(ai)]
    BY DEF AiNmi
  <1>4. ai' \in AiState /\ ai'.due = {} /\ ~ai'.full /\ ai'.owed = Playing(ai)
        /\ ai'.fifo = ai.fifo /\ ai'.lastread = ai.lastread /\ ~ai'.wrong
    BY <1>1, <1>2, <1>3 DEF AiState, Conserved
  <1>5. Playing(ai)' = Playing(ai) /\ Waiting(ai)' = <<>>
    BY <1>4 DEF Playing, Waiting
  <1> QED  BY <1>1, <1>2, <1>4, <1>5, NoMore DEF Conserved

\* The clock and the rate leave what is owed alone.
LEMMA OthersConserve == Conserved(ai) /\ (DacRate \/ AiTick) => Conserved(ai)'
  <1> SUFFICES ASSUME Conserved(ai), DacRate \/ AiTick PROVE Conserved(ai)'
    OBVIOUS
  <1>1. ai \in AiState /\ ai.fifo[0].dur \in Nat
    BY WaitingType DEF Conserved, Entries
  <1>2. PICK rate \in DacRates, due \in SUBSET Nat :
          /\ due \subseteq 0 .. ai.fifo[0].dur
          /\ ai' = [ai EXCEPT !.rate = rate, !.due = due]
    <2>1. CASE DacRate
      <3>1. PICK rate \in DacRates : ai' = [ai EXCEPT !.rate = rate]
        BY <2>1 DEF DacRate
      <3>2. ai' = [ai EXCEPT !.rate = rate, !.due = ai.due]
        BY <1>1, <3>1 DEF AiState
      <3> QED  BY <1>1, <3>2 DEF Conserved, AiState
    <2>2. CASE AiTick
      <3>1. PICK n \in ai.due : n > 0 /\ ai' = [ai EXCEPT !.due = {n - 1}]
        BY <2>2 DEF AiTick
      <3>2. n - 1 \in 0 .. ai.fifo[0].dur
        BY <1>1, <3>1 DEF Conserved
      <3> DEFINE due == {n - 1}
      <3>3. due \in SUBSET Nat /\ due \subseteq 0 .. ai.fifo[0].dur
        BY <3>2
      <3>4. ai' = [ai EXCEPT !.due = due]
        BY <3>1
      <3> HIDE DEF due
      <3>5. ai' = [ai EXCEPT !.rate = ai.rate, !.due = due] /\ ai.rate \in DacRates
        BY <1>1, <3>4 DEF AiState
      <3> QED  BY <3>3, <3>5
    <2> QED  BY <2>1, <2>2
  <1>3. ai' \in AiState /\ ai'.due = due /\ ai'.full = ai.full /\ ai'.busy = ai.busy
        /\ ai'.owed = ai.owed /\ ai'.fifo = ai.fifo /\ ai'.lastread = ai.lastread
        /\ ai'.wrong = ai.wrong
    BY <1>1, <1>2 DEF AiState
  <1>4. Playing(ai)' = Playing(ai) /\ Waiting(ai)' = Waiting(ai)
    BY <1>3 DEF Playing, Waiting
  <1> QED  BY <1>2, <1>3, <1>4 DEF Conserved

LEMMA AiInitConserves == AiInit => Conserved(ai)
  <1> SUFFICES ASSUME AiInit PROVE Conserved(ai)
    OBVIOUS
  <1> DEFINE tag   == CHOOSE b \in Buffers : TRUE
             rate  == CHOOSE r \in DacRates : TRUE
             entry == [tag |-> tag, len |-> 0, dur |-> 0]
             fifo  == [i \in 0 .. 1 |-> entry]
  <1>1. tag \in Buffers /\ rate \in DacRates
    BY AiAssumption
  <1>2. entry \in Entries /\ entry.len = 0
    BY <1>1 DEF Entries
  <1>3. fifo \in [0 .. 1 -> Entries] /\ fifo[0] = entry /\ fifo[0].tag = tag
    BY <1>2
  <1>4. ai = [busy |-> FALSE, full |-> FALSE, fifo |-> fifo, lastread |-> 0, rate |-> rate,
              due |-> {}, owed |-> <<>>, wrong |-> FALSE]
    BY DEF AiInit
  <1>5. <<>> \in Seq(Spans)
    OBVIOUS
  <1> HIDE DEF fifo, rate
  <1>6. ai \in AiState
    BY <1>1, <1>3, <1>4, <1>5 DEF AiState
  <1>7. Playing(ai) = <<>> /\ Waiting(ai) = <<>>
    <2>1. Part(tag, 0 - 0, 0) = <<>>
      BY DEF Part
    <2> QED  BY <1>2, <1>3, <1>4, <2>1 DEF Playing, Waiting
  <1>8. ai.lastread <= ai.fifo[0].len
    BY <1>2, <1>3, <1>4
  <1> QED  BY <1>4, <1>5, <1>6, <1>7, <1>8, NoMore DEF Conserved

LEMMA AiStepConserves == Conserved(ai) /\ [AiNext]_ai => Conserved(ai)'
  <1> SUFFICES ASSUME Conserved(ai), [AiNext]_ai PROVE Conserved(ai)'
    OBVIOUS
  <1>1. CASE UNCHANGED ai
    BY <1>1
  <1>2. CASE Push
    BY <1>2, PushConserves
  <1>3. CASE Poll
    BY <1>3, RemainingType, HandOverConserves DEF Poll
  <1>4. CASE DeliverFrame
    BY <1>4, RemainingType, HandOverConserves DEF DeliverFrame
  <1>5. CASE EndOfDma
    BY <1>5, EndConserves
  <1>6. CASE DacRate \/ AiTick
    BY <1>6, OthersConserve
  <1>7. CASE AiNmi
    BY <1>7, NmiConserves
  <1> QED  BY <1>1, <1>2, <1>3, <1>4, <1>5, <1>6, <1>7 DEF AiNext

\* The samples of the queued buffers reach the backend once each and in order, for
\* buffers of every length, played at every rate and polled at any moment.
THEOREM SamplesConserved == AiSpec => [](AiTypeOK /\ AiConserved)
  <1>1. Conserved(ai) => AiTypeOK /\ AiConserved
    BY DEF Conserved, AiTypeOK, AiConserved
  <1> QED  BY <1>1, AiInitConserves, AiStepConserves, PTL DEF AiSpec
-----------------------------------------------------------------------------
(* The accumulator.                                                         *)

\* What is held is numbered on from what the frontend took last; the rest of an
\* emission is over when the call is.
Ordered(a) ==
    /\ a \in AudioState
    /\ Len(a.acc) <= AccFrames
    /\ a.out <= Len(a.acc)
    /\ a.acc = Numbered(Plus(a.heard, Modulus - a.out), Held(a))
    /\ a.made = Plus(a.heard, Held(a) - a.out)

BetweenCalls(a) ==
    /\ a.pc # "emit" => a.out = 0
    /\ a.pc = "fill" => a.call # "flush"

LEMMA ModulusLarge ==
    /\ Modulus \in Nat /\ Modulus > AccFrames + 1 /\ AccFrames \in Nat /\ MaxPush \in Nat
    /\ Numbers \subseteq Nat /\ 0 \in Numbers
  BY AudioAssumption DEF Modulus, Numbers

LEMMA ModTwice ==
    ASSUME NEW m \in Nat, m > 0, NEW c \in Nat, c < 2 * m
    PROVE  c % m = (IF c < m THEN c ELSE c - m) /\ c % m \in 0 .. m - 1
  <1>1. c = m * (c \div m) + (c % m) /\ c % m \in 0 .. m - 1 /\ c \div m \in Nat
    OBVIOUS
  <1>2. c \div m < 2
    <2> SUFFICES ASSUME c \div m >= 2 PROVE FALSE
      BY <1>1
    <2>1. m * (c \div m) >= m * 2
      BY <1>1
    <2> QED  BY <1>1, <2>1
  <1>3. c \div m \in {0, 1}
    BY <1>1, <1>2
  <1> QED  BY <1>1, <1>3

\* Adding at most the modulus to a number.
LEMMA PlusNumber ==
    ASSUME NEW a \in Numbers, NEW n \in 0 .. Modulus
    PROVE  /\ Plus(a, n) \in Numbers
           /\ Plus(a, n) = IF a + n < Modulus THEN a + n ELSE a + n - Modulus
  <1>1. Modulus \in Nat /\ Modulus > 0 /\ a \in Nat /\ a < Modulus /\ n \in Nat /\ n <= Modulus
    BY ModulusLarge DEF Numbers
  <1>2. a + n \in Nat /\ a + n < 2 * Modulus
    BY <1>1
  <1> QED  BY <1>1, <1>2, ModTwice DEF Plus, Numbers

LEMMA NumberedType ==
    ASSUME NEW from \in Numbers, NEW n \in 0 .. Modulus
    PROVE  /\ Numbered(from, n) \in Seq(Numbers)
           /\ Len(Numbered(from, n)) = n
           /\ \A i \in 1 .. n : Numbered(from, n)[i] = Plus(from, i - 1)
  <1>1. \A i \in 1 .. n : Plus(from, i - 1) \in Numbers
    BY ModulusLarge, PlusNumber
  <1>2. Numbered(from, n) \in [1 .. n -> Numbers]
    BY <1>1 DEF Numbered
  <1>3. n \in Nat
    BY ModulusLarge
  <1>4. Numbered(from, n) \in Seq(Numbers) /\ Len(Numbered(from, n)) = n
    BY <1>2, <1>3
  <1> QED  BY <1>4 DEF Numbered

\* Only what is held, taken, made and heard is in order or not.
LEMMA SameFrames ==
    ASSUME NEW a, Ordered(a), NEW b \in AudioState,
           b.acc = a.acc, b.out = a.out, b.made = a.made, b.heard = a.heard
    PROVE  Ordered(b)
  BY DEF Ordered, Held

\* The rest of a sequence.
LEMMA ShiftedFrames ==
    ASSUME NEW S, NEW s \in Seq(S), NEW k \in 0 .. Len(s)
    PROVE  /\ Shifted(s, k) \in Seq(S)
           /\ Len(Shifted(s, k)) = Len(s) - k
           /\ \A i \in 1 .. Len(s) - k : Shifted(s, k)[i] = s[k + i]
  <1> DEFINE m == k + 1
             n == Len(s)
             t == SubSeq(s, m, n)
  <1>1. m \in Int /\ n \in Int /\ (\A i \in m .. n : s[i] \in S) /\ n - m + 1 = n - k
        /\ (IF m <= n THEN n - m + 1 ELSE 0) = n - k
        /\ \A i \in 1 .. n - k : m + i - 1 = k + i
    OBVIOUS
  <1>2. Shifted(s, k) = t
    BY DEF Shifted
  <1> HIDE DEF m, n
  <1>3. t \in Seq(S) /\ Len(t) = n - k /\ \A i \in 1 .. n - k : t[i] = s[m + i - 1]
    BY <1>1, SubSeqProperties
  <1> QED  BY <1>1, <1>2, <1>3 DEF n

LEMMA EmitOrdered ==
    ASSUME NEW a, Ordered(a), a.out = 0
    PROVE  Ordered(Emit(a)) /\ BetweenCalls(Emit(a))
  <1>1. a \in AudioState /\ 0 \in 0 .. AccFrames
    BY ModulusLarge DEF Ordered
  <1>2. CASE a.acc = <<>>
    <2> DEFINE pc == IF a.call = "flush" THEN "idle" ELSE "fill"
               b  == [a EXCEPT !.pc = pc]
    <2>1. Emit(a) = b
      BY <1>2 DEF Emit
    <2>2. pc \in {"idle", "fill", "emit"} /\ pc # "emit" /\ (pc = "fill" => a.call # "flush")
      OBVIOUS
    <2> HIDE DEF pc
    <2>3. b \in AudioState /\ b.acc = a.acc /\ b.out = a.out /\ b.made = a.made
          /\ b.heard = a.heard /\ b.pc = pc /\ b.call = a.call
      BY <1>1, <2>2 DEF AudioState
    <2> HIDE DEF b
    <2> QED  BY <2>1, <2>2, <2>3, SameFrames DEF BetweenCalls
  <1>3. CASE a.acc # <<>>
    <2> DEFINE b == [a EXCEPT !.pc = "emit", !.out = 0]
    <2>1. Emit(a) = b
      BY <1>3 DEF Emit
    <2>2. b \in AudioState /\ b.acc = a.acc /\ b.out = a.out /\ b.made = a.made
          /\ b.heard = a.heard /\ b.pc = "emit" /\ b.call = a.call
      BY <1>1 DEF AudioState
    <2> HIDE DEF b
    <2> QED  BY <2>1, <2>2, SameFrames DEF BetweenCalls
  <1> QED  BY <1>2, <1>3

\* What the frontend left moves to the front.
LEMMA EmittedOrdered ==
    ASSUME NEW a, Ordered(a)
    PROVE  Ordered(Emitted(a)) /\ BetweenCalls(Emitted(a))
  <1> DEFINE acc == Shifted(a.acc, a.out)
             pc  == IF a.call = "flush" THEN "idle" ELSE "fill"
             b   == [a EXCEPT !.acc = acc, !.out = 0, !.pc = pc]
             n   == Len(a.acc)
             m   == Modulus
             from == Plus(a.heard, m - a.out)
  <1>1. /\ a \in AudioState /\ a.acc \in Seq(Numbers) /\ n \in Nat /\ n <= AccFrames
        /\ a.out \in Nat /\ a.out <= n /\ a.heard \in Numbers
        /\ a.acc = Numbered(from, n) /\ a.made = Plus(a.heard, n - a.out)
    BY DEF Ordered, AudioState, Held
  <1>2. m - a.out \in 0 .. m /\ m - 0 \in 0 .. m /\ n - a.out \in 0 .. m /\ n \in 0 .. m
    BY <1>1, ModulusLarge
  <1>3. from \in Numbers
    BY <1>1, <1>2, PlusNumber
  <1>4. Plus(a.heard, m - 0) = a.heard
    <2>1. a.heard \in Nat /\ a.heard < m /\ m \in Nat
      BY <1>1, ModulusLarge DEF Numbers
    <2>2. Plus(a.heard, m - 0)
            = IF a.heard + (m - 0) < m THEN a.heard + (m - 0) ELSE a.heard + (m - 0) - m
      BY <1>1, <1>2, PlusNumber
    <2> QED  BY <2>1, <2>2
  <1>5. acc \in Seq(Numbers) /\ Len(acc) = n - a.out
        /\ \A i \in 1 .. n - a.out : acc[i] = a.acc[a.out + i]
    <2>1. a.out \in 0 .. Len(a.acc)
      BY <1>1
    <2> QED  BY <1>1, <2>1, ShiftedFrames
  <1>6. ASSUME NEW i \in 1 .. n - a.out PROVE acc[i] = Plus(a.heard, i - 1)
    <2>1. a.out + i \in 1 .. n /\ (a.out + i) - 1 \in 0 .. m /\ i - 1 \in 0 .. m
      BY SMTT(40), <1>1, <1>6, ModulusLarge
    <2>2. acc[i] = Plus(from, (a.out + i) - 1)
      BY <1>1, <1>2, <1>3, <1>5, <1>6, <2>1, NumberedType
    <2>3. a.heard \in Nat /\ a.heard < m /\ m \in Nat /\ from \in Nat /\ from < m
      BY <1>1, <1>3, ModulusLarge DEF Numbers
    <2>4. from = IF a.heard + (m - a.out) < m THEN a.heard + (m - a.out)
                                              ELSE a.heard + (m - a.out) - m
      BY <1>1, <1>2, PlusNumber
    <2> HIDE DEF from
    <2>5. Plus(from, (a.out + i) - 1)
            = IF from + ((a.out + i) - 1) < m THEN from + ((a.out + i) - 1)
                                              ELSE from + ((a.out + i) - 1) - m
      BY <1>3, <2>1, PlusNumber
    <2>6. Plus(a.heard, i - 1)
            = IF a.heard + (i - 1) < m THEN a.heard + (i - 1) ELSE a.heard + (i - 1) - m
      BY <1>1, <2>1, PlusNumber
    <2> HIDE DEF m, acc
    <2>7. i \in Nat /\ i >= 1 /\ a.out + i <= n /\ a.out \in Nat /\ n \in Nat /\ n < m
      BY <1>1, <1>6, ModulusLarge DEF m
    <2> HIDE DEF n
    <2>8. Plus(from, (a.out + i) - 1) = Plus(a.heard, i - 1)
      BY <2>3, <2>4, <2>5, <2>6, <2>7
    <2> QED  BY <2>2, <2>8
  <1> DEFINE numbered == Numbered(a.heard, n - a.out)
  <1>7. numbered \in Seq(Numbers) /\ Len(numbered) = n - a.out
        /\ \A i \in 1 .. n - a.out : numbered[i] = Plus(a.heard, i - 1)
    BY <1>1, <1>2, NumberedType
  <1>8. acc = numbered
    <2> HIDE DEF acc, numbered, n
    <2> QED  BY <1>5, <1>6, <1>7
  <1>9. Emitted(a) = b
    BY DEF Emitted
  <1>10. pc \in {"idle", "fill", "emit"} /\ pc # "emit" /\ (pc = "fill" => a.call # "flush")
         /\ 0 \in 0 .. AccFrames
    BY ModulusLarge
  <1> HIDE DEF acc, pc
  <1>11. b \in AudioState /\ b.acc = acc /\ b.out = 0 /\ b.pc = pc /\ b.call = a.call
         /\ b.made = a.made /\ b.heard = a.heard
    BY <1>1, <1>5, <1>10 DEF AudioState
  <1> HIDE DEF b
  <1>12. Len(b.acc) = n - a.out /\ (n - a.out) - 0 = n - a.out
    BY <1>1, <1>5, <1>11
  <1>13. Ordered(b)
    BY <1>1, <1>4, <1>8, <1>11, <1>12, ModulusLarge DEF Ordered, Held
  <1> QED  BY <1>9, <1>10, <1>11, <1>13 DEF BetweenCalls
LEMMA Behind ==
    ASSUME NEW S, NEW s \in Seq(S), NEW t \in Seq(S)
    PROVE  /\ s \o t \in Seq(S) /\ Len(s \o t) = Len(s) + Len(t)
           /\ \A i \in 1 .. Len(s) : (s \o t)[i] = s[i]
           /\ \A i \in Len(s) + 1 .. Len(s) + Len(t) : (s \o t)[i] = t[i - Len(s)]
  <1>1. s \o t \in Seq(S) /\ Len(s \o t) = Len(s) + Len(t)
    OBVIOUS
  <1>2. \A i \in 1 .. Len(s) : (s \o t)[i] = s[i]
    OBVIOUS
  <1>3. \A i \in Len(s) + 1 .. Len(s) + Len(t) : (s \o t)[i] = t[i - Len(s)]
    OBVIOUS
  <1> QED  BY <1>1, <1>2, <1>3

\* Frames made now are numbered on behind the ones held.
LEMMA AppendedOrdered ==
    ASSUME Ordered(audio), audio.out = 0, audio.pc = "fill"
    PROVE  /\ Ordered(Appended) /\ Appended.out = 0 /\ Appended.call = audio.call
           /\ Appended.pc \in {"idle", "fill"}
  <1> DEFINE n     == Len(audio.acc)
             k     == Chunk
             made  == audio.made
             heard == audio.heard
             new   == Numbered(made, k)
             acc   == audio.acc \o new
             pc    == IF audio.left = k THEN "idle" ELSE "fill"
             b     == [audio EXCEPT !.acc = acc, !.made = Plus(made, k), !.left = audio.left - k,
                                    !.pc = pc]
  <1>1. /\ audio \in AudioState /\ audio.acc \in Seq(Numbers) /\ n \in Nat /\ n <= AccFrames
        /\ heard \in Numbers /\ made \in Numbers /\ audio.left \in 0 .. MaxPush
        /\ audio.acc = Numbered(Plus(heard, Modulus - 0), n) /\ made = Plus(heard, n - 0)
    BY DEF Ordered, AudioState, Held
  <1>2. k \in 0 .. MaxPush /\ k <= audio.left /\ n + k <= AccFrames /\ k \in 0 .. Modulus
        /\ n + k < Modulus /\ n \in 0 .. Modulus /\ Modulus \in Nat /\ Modulus > 0
    BY SMTT(40), <1>1, ModulusLarge DEF Chunk, Room, Held
  <1> HIDE DEF k
  <1>3. heard \in Nat /\ heard < Modulus
    BY <1>1, <1>2 DEF Numbers
  <1>4. Plus(heard, Modulus - 0) = heard
    <2>1. Modulus - 0 \in 0 .. Modulus
      BY <1>2
    <2>2. Plus(heard, Modulus - 0) = IF heard + (Modulus - 0) < Modulus THEN heard + (Modulus - 0)
                                                ELSE heard + (Modulus - 0) - Modulus
      BY <1>1, <2>1, PlusNumber
    <2> QED  BY <1>2, <1>3, <2>2
  <1>5. n - 0 = n /\ made = IF heard + n < Modulus THEN heard + n ELSE heard + n - Modulus
    BY <1>1, <1>2, PlusNumber
  \* j frames behind the ones held.
  <1>6. ASSUME NEW j \in 0 .. k
        PROVE  Plus(made, j) = Plus(heard, n + j) /\ Plus(made, j) \in Numbers
    <2>1. j \in 0 .. Modulus /\ n + j \in 0 .. Modulus /\ n + j < Modulus /\ j \in Nat
      BY <1>1, <1>2, <1>6
    <2>2. /\ Plus(made, j) = IF made + j < Modulus THEN made + j ELSE made + j - Modulus
          /\ Plus(made, j) \in Numbers
          /\ Plus(heard, n + j) = IF heard + (n + j) < Modulus THEN heard + (n + j)
                                                             ELSE heard + (n + j) - Modulus
      BY <1>1, <2>1, PlusNumber
    <2> HIDE DEF n, made, heard
    <2> QED  BY SMTT(40), <1>1, <1>2, <1>3, <1>5, <2>1, <2>2
  <1>7. new \in Seq(Numbers) /\ Len(new) = k /\ \A i \in 1 .. k : new[i] = Plus(made, i - 1)
    BY <1>1, <1>2, NumberedType
  <1>8. \A i \in 1 .. n : audio.acc[i] = Plus(heard, i - 1)
    <2>1. audio.acc = Numbered(heard, n)
      BY <1>1, <1>4
    <2> QED  BY ZenonT(60), <1>1, <1>2, <2>1, NumberedType
  <1> HIDE DEF new
  <1>9. acc \in Seq(Numbers) /\ Len(acc) = n + k
        /\ (\A i \in 1 .. n : acc[i] = audio.acc[i])
        /\ \A i \in n + 1 .. n + k : acc[i] = new[i - n]
    <2> DEFINE old == audio.acc
    <2>1. old \in Seq(Numbers) /\ acc = old \o new /\ Len(old) = n
      BY <1>1
    <2> HIDE DEF old, n, acc
    <2>2. /\ old \o new \in Seq(Numbers) /\ Len(old \o new) = Len(old) + Len(new)
          /\ \A i \in 1 .. Len(old) : (old \o new)[i] = old[i]
          /\ \A i \in Len(old) + 1 .. Len(old) + Len(new) : (old \o new)[i] = new[i - Len(old)]
      BY <1>7, <2>1, Behind
    <2>3. \A i \in n + 1 .. n + k : acc[i] = new[i - n]
      BY <1>7, <2>1, <2>2
    <2> QED  BY <1>7, <2>1, <2>2, <2>3 DEF old
  <1> HIDE DEF acc
  <1>10. ASSUME NEW i \in 1 .. n + k PROVE acc[i] = Plus(heard, i - 1)
    <2>1. CASE i <= n
      BY <1>1, <1>8, <1>9, <1>10, <2>1
    <2>2. CASE i > n
      <3>1. i \in n + 1 .. n + k /\ i - n \in 1 .. k /\ (i - n) - 1 \in 0 .. k
            /\ n + ((i - n) - 1) = i - 1
        BY <1>1, <1>2, <1>10, <2>2
      <3> QED  BY <1>6, <1>7, <1>9, <3>1
    <2> QED  BY <1>1, <1>2, <1>10, <2>1, <2>2
  <1> DEFINE numbered == Numbered(heard, n + k)
  <1>11. numbered \in Seq(Numbers) /\ Len(numbered) = n + k
         /\ \A i \in 1 .. n + k : numbered[i] = Plus(heard, i - 1)
    <2>1. n + k \in 0 .. Modulus
      BY <1>1, <1>2
    <2> QED  BY <1>1, <2>1, NumberedType
  <1>12. acc = numbered
    <2> DEFINE all == n + k
    <2>1. acc \in Seq(Numbers) /\ Len(acc) = all /\ numbered \in Seq(Numbers)
          /\ Len(numbered) = all /\ \A i \in 1 .. all : acc[i] = numbered[i]
      BY <1>9, <1>10, <1>11
    <2> HIDE DEF numbered, all
    <2> QED  BY <2>1
  <1>13. Appended = b
    BY DEF Appended, acc, new, k
  <1>14. Plus(made, k) = Plus(heard, n + k) /\ Plus(made, k) \in Numbers
         /\ audio.left - k \in 0 .. MaxPush /\ pc \in {"idle", "fill"}
    <2>1. k \in 0 .. k /\ audio.left - k \in 0 .. MaxPush
      <3>1. k \in Nat /\ k <= audio.left /\ audio.left \in 0 .. MaxPush
        BY <1>1, <1>2, ModulusLarge
      <3> QED  BY <3>1, ModulusLarge
    <2> QED  BY <1>6, <2>1
  <1> HIDE DEF pc
  <1>15. b \in AudioState /\ b.acc = acc /\ b.out = 0 /\ b.pc = pc /\ b.call = audio.call
         /\ b.made = Plus(made, k) /\ b.heard = heard
    BY <1>1, <1>9, <1>14 DEF AudioState
  <1> HIDE DEF b
  <1>16. Ordered(b)
    <2>1. Len(b.acc) = n + k /\ (n + k) - 0 = n + k
      BY <1>1, <1>2, <1>9, <1>15
    <2> QED  BY <1>1, <1>2, <1>4, <1>12, <1>14, <1>15, <2>1 DEF Ordered, Held
  <1> QED  BY <1>13, <1>14, <1>15, <1>16

LEMMA TakenOrdered == Ordered(audio) /\ Taken => Ordered(audio)' /\ BetweenCalls(audio)'
  <1> SUFFICES ASSUME Ordered(audio), Taken PROVE Ordered(audio)' /\ BetweenCalls(audio)'
    OBVIOUS
  <1>1. PICK n \in 1 .. Held(audio) - audio.out :
          LET after == [audio EXCEPT !.out = @ + n, !.heard = Plus(@, n)]
          IN  audio' = IF after.out = Held(audio) THEN Emitted(after) ELSE after
    BY DEF Taken
  <1> DEFINE held  == Len(audio.acc)
             out   == audio.out + n
             heard == Plus(audio.heard, n)
             after == [audio EXCEPT !.out = out, !.heard = heard]
  <1>2. audio' = IF after.out = held THEN Emitted(after) ELSE after
    BY <1>1 DEF Held
  <1>3. /\ audio \in AudioState /\ held \in Nat /\ held <= AccFrames /\ audio.out \in Nat
        /\ audio.heard \in Numbers /\ n \in Nat /\ n >= 1 /\ out <= held
        /\ audio.acc = Numbered(Plus(audio.heard, Modulus - audio.out), held)
        /\ audio.made = Plus(audio.heard, held - audio.out)
    BY DEF Ordered, AudioState, Held
  <1>4. /\ n \in 0 .. Modulus /\ Modulus - out \in 0 .. Modulus /\ held - out \in 0 .. Modulus
        /\ Modulus - audio.out \in 0 .. Modulus /\ held - audio.out \in 0 .. Modulus
        /\ Modulus \in Nat /\ held < Modulus
    <2>1. held \in Nat /\ held <= AccFrames /\ audio.out \in Nat /\ n \in Nat /\ out <= held
      BY <1>3
    <2> HIDE DEF held
    <2> QED  BY <2>1, ModulusLarge
  <1>5. heard \in Numbers /\ out \in 0 .. AccFrames
    <2>1. heard \in Numbers
      BY <1>3, <1>4, PlusNumber
    <2>2. held \in Nat /\ held <= AccFrames /\ audio.out \in Nat /\ n \in Nat /\ out <= held
      BY <1>3
    <2> HIDE DEF held, heard
    <2> QED  BY <2>1, <2>2, ModulusLarge
  <1>6. /\ Plus(heard, Modulus - out) = Plus(audio.heard, Modulus - audio.out)
        /\ Plus(heard, held - out) = Plus(audio.heard, held - audio.out)
    <2>1. /\ heard = IF audio.heard + n < Modulus THEN audio.heard + n
                                                 ELSE audio.heard + n - Modulus
          /\ Plus(audio.heard, Modulus - audio.out)
                = IF audio.heard + (Modulus - audio.out) < Modulus
                     THEN audio.heard + (Modulus - audio.out)
                     ELSE audio.heard + (Modulus - audio.out) - Modulus
          /\ Plus(audio.heard, held - audio.out)
                = IF audio.heard + (held - audio.out) < Modulus
                     THEN audio.heard + (held - audio.out)
                     ELSE audio.heard + (held - audio.out) - Modulus
      BY <1>3, <1>4, PlusNumber
    <2> HIDE DEF heard
    <2>2. /\ Plus(heard, Modulus - out)
                = IF heard + (Modulus - out) < Modulus THEN heard + (Modulus - out)
                                                       ELSE heard + (Modulus - out) - Modulus
          /\ Plus(heard, held - out)
                = IF heard + (held - out) < Modulus THEN heard + (held - out)
                                                    ELSE heard + (held - out) - Modulus
      BY <1>4, <1>5, PlusNumber
    <2>3. audio.heard \in Nat /\ audio.heard < Modulus /\ out = audio.out + n /\ out <= held
      BY <1>3, ModulusLarge DEF Numbers
    <2> HIDE DEF held, out
    <2> QED  BY <1>3, <1>4, <2>1, <2>2, <2>3
  <1> HIDE DEF heard
  <1>7. after \in AudioState /\ after.acc = audio.acc /\ after.out = out /\ after.heard = heard
        /\ after.made = audio.made /\ after.pc = audio.pc /\ after.call = audio.call
    <2> HIDE DEF out
    <2> QED  BY <1>3, <1>5 DEF AudioState
  <1> HIDE DEF after
  <1>8. Ordered(after)
    BY <1>3, <1>6, <1>7 DEF Ordered, Held
  <1>9. BetweenCalls(after)
    BY <1>7 DEF BetweenCalls, Taken
  <1> QED  BY <1>2, <1>8, <1>9, EmittedOrdered

-----------------------------------------------------------------------------
AudioIInv == Ordered(audio) /\ BetweenCalls(audio)

\* A call begins, before or after the emission it asks for.
LEMMA CallOrdered ==
    ASSUME AudioIInv, audio.pc = "idle", NEW call \in {"samples", "silence", "flush"},
           NEW left \in 0 .. MaxPush, NEW pc \in {"idle", "fill"}, pc = "fill" => call # "flush"
    PROVE  LET b == [audio EXCEPT !.call = call, !.left = left, !.pc = pc]
           IN  Ordered(b) /\ BetweenCalls(b) /\ b.out = 0
  <1> DEFINE b == [audio EXCEPT !.call = call, !.left = left, !.pc = pc]
  <1>1. audio \in AudioState /\ Ordered(audio) /\ audio.out = 0
    BY DEF AudioIInv, Ordered, BetweenCalls
  <1>2. b \in AudioState /\ b.acc = audio.acc /\ b.out = audio.out /\ b.made = audio.made
        /\ b.heard = audio.heard /\ b.pc = pc /\ b.call = call
    BY <1>1 DEF AudioState
  <1> HIDE DEF b
  <1>3. Ordered(b) /\ BetweenCalls(b) /\ b.out = 0
    BY <1>1, <1>2, SameFrames DEF BetweenCalls
  <1> QED  BY <1>3 DEF b

LEMMA PushesOrdered == AudioIInv /\ (PushSamples \/ PushSilence \/ Flush) => AudioIInv'
  <1> SUFFICES ASSUME AudioIInv, PushSamples \/ PushSilence \/ Flush PROVE AudioIInv'
    OBVIOUS
  <1>1. \A n \in 1 .. MaxPush : n \in 0 .. MaxPush
    BY ModulusLarge
  <1>2. CASE PushSamples
    <2>1. PICK n \in 1 .. MaxPush :
            LET call == [audio EXCEPT !.call = "samples", !.left = n, !.pc = "fill"]
            IN  audio' = IF Held(audio) + n > AccFrames THEN Emit(call) ELSE call
      BY <1>2 DEF PushSamples
    <2> DEFINE call == [audio EXCEPT !.call = "samples", !.left = n, !.pc = "fill"]
    <2>2. Ordered(call) /\ BetweenCalls(call) /\ call.out = 0
      BY <1>1, <1>2, CallOrdered DEF PushSamples
    <2>3. audio' = Emit(call) \/ audio' = call
      BY <2>1
    <2> HIDE DEF call
    <2> QED  BY <2>2, <2>3, EmitOrdered DEF AudioIInv
  <1>3. CASE PushSilence
    <2>1. PICK n \in 1 .. MaxPush :
            audio' = [audio EXCEPT !.call = "silence", !.left = n, !.pc = "fill"]
      BY <1>3 DEF PushSilence
    <2> QED  BY <1>1, <1>3, <2>1, CallOrdered DEF PushSilence, AudioIInv
  <1>4. CASE Flush
    <2> DEFINE call == [audio EXCEPT !.call = "flush", !.left = audio.left, !.pc = audio.pc]
    <2>1. audio \in AudioState /\ audio.pc = "idle"
      BY <1>4 DEF Flush, AudioIInv, Ordered
    <2>2. audio.left \in 0 .. MaxPush
      BY SMTT(40), <2>1 DEF AudioState
    <2>3. Ordered(call) /\ call.out = 0
      BY <2>1, <2>2, CallOrdered
    <2>4. [audio EXCEPT !.call = "flush"] = call
      BY <2>1 DEF AudioState
    <2> HIDE DEF call
    <2> QED  BY <1>4, <2>3, <2>4, EmitOrdered DEF Flush, AudioIInv
  <1> QED  BY <1>2, <1>3, <1>4

LEMMA FillOrdered == AudioIInv /\ Fill => AudioIInv'
  <1> SUFFICES ASSUME AudioIInv, Fill PROVE AudioIInv'
    OBVIOUS
  <1>1. Ordered(audio) /\ audio.out = 0 /\ audio.pc = "fill" /\ audio.call # "flush"
        /\ audio \in AudioState
    BY DEF AudioIInv, BetweenCalls, Fill, Ordered
  <1>2. audio.call \in {"samples", "silence"} /\ Chunk \in Nat
    BY <1>1, ModulusLarge DEF AudioState, Ordered, Chunk, Room, Held
  <1>3. Ordered(Appended) /\ Appended.out = 0 /\ BetweenCalls(Appended)
    BY <1>1, AppendedOrdered DEF BetweenCalls
  <1>4. audio' \in {Emit(audio), Appended, Emit(Appended)}
    BY <1>2 DEF Fill, NoRoom
  <1> QED  BY <1>1, <1>3, <1>4, EmitOrdered DEF AudioIInv

LEMMA AudioInitOrdered == Ordered(Silent) /\ BetweenCalls(Silent)
  <1>1. Silent \in AudioState
    BY ModulusLarge DEF Silent, AudioState
  <1>2. /\ Silent.acc = <<>> /\ Silent.out = 0 /\ Silent.pc = "idle" /\ Silent.made = 0
        /\ Silent.heard = 0
    BY DEF Silent
  <1>3. Plus(0, 0 - 0) = 0
    BY ModulusLarge, PlusNumber
  <1>4. Numbered(Plus(0, Modulus - 0), 0) = <<>>
    BY DEF Numbered
  <1> QED  BY <1>1, <1>2, <1>3, <1>4, ModulusLarge DEF Ordered, BetweenCalls, Held

LEMMA AudioStepOrdered == AudioIInv /\ [AudioNext]_audio => AudioIInv'
  <1> SUFFICES ASSUME AudioIInv, [AudioNext]_audio PROVE AudioIInv'
    OBVIOUS
  <1>1. CASE UNCHANGED audio
    BY <1>1 DEF AudioIInv
  <1>2. CASE PushSamples \/ PushSilence \/ Flush
    BY <1>2, PushesOrdered
  <1>3. CASE Fill
    BY <1>3, FillOrdered
  <1>4. CASE Taken
    BY <1>4, TakenOrdered DEF AudioIInv
  <1>5. CASE Refused
    BY <1>5, EmittedOrdered DEF AudioIInv, Refused
  <1>6. CASE Restart
    BY <1>6, AudioInitOrdered DEF AudioIInv, Restart
  <1> QED  BY <1>1, <1>2, <1>3, <1>4, <1>5, <1>6 DEF AudioNext

\* The frontend gets every sound frame once and in the order they were made, whatever
\* the size of the accumulator and of the pushes, and however little it takes.
THEOREM FramesInOrder == AudioSpec => [](AudioTypeOK /\ AudioInOrder)
  <1>1. AudioInit => AudioIInv
    BY AudioInitOrdered DEF AudioInit, AudioIInv
  <1>2. AudioIInv => AudioTypeOK /\ AudioInOrder
    BY DEF AudioIInv, Ordered, AudioTypeOK, AudioInOrder
  <1> QED  BY <1>1, <1>2, AudioStepOrdered, PTL DEF AudioSpec
=============================================================================

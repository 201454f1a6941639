------------------------- MODULE SharedCache_proofs -------------------------
(* What TLAPS proves about SharedCache, for every capacity, window,        *)
(* vocabulary and set of prompts.                                          *)
EXTENDS SharedCache, FiniteSetTheorems, SequenceTheorems, TLAPS

CellSet == [pos : Nat, tok : Token, holders : (SUBSET Sequences) \ {{}}]

-----------------------------------------------------------------------------
(* The four operations of the KV cache and the bookkeeping, by their types.*)

(* Letting go of cells leaves cells, with fewer holders.                   *)
LEMMA SeqRmType ==
  ASSUME NEW cells \in SUBSET CellSet, NEW s, NEW where
  PROVE  SeqRm(cells, s, where) \in SUBSET CellSet
BY DEF CellSet, SeqRm, Cell

(* Sharing cells leaves cells, with one holder more.                       *)
LEMMA SeqCpType ==
  ASSUME NEW cells \in SUBSET CellSet, NEW from, NEW to \in Sequences, NEW n
  PROVE  SeqCp(cells, from, to, n) \in SUBSET CellSet
BY DEF CellSet, SeqCp, Cell

(* Moving cells down never takes one below position zero, provided that    *)
(* the range starts at the distance it is moved, or later.                 *)
LEMMA SeqAddType ==
  ASSUME NEW cells \in SUBSET CellSet, NEW s,
         NEW from \in Nat, NEW to \in Int, NEW down \in Nat, down <= from
  PROVE  SeqAdd(cells, s, from..to, down) \in SUBSET CellSet
BY DEF CellSet, SeqAdd, Cell

(* The cells of a decoded chunk.                                           *)
LEMMA LaidType ==
  ASSUME NEW s \in Sequences, NEW tokens \in Seq(Token), NEW base \in Nat
  PROVE  Laid(s, tokens, base) \in SUBSET CellSet
<1>1. SUFFICES ASSUME NEW i \in DOMAIN tokens
               PROVE  Cell(base + i - 1, tokens[i], {s}) \in CellSet
  BY DEF Laid
<1>2. i \in 1..Len(tokens) /\ Len(tokens) \in Nat
  BY LenProperties
<1>3. tokens[i] \in Token
  BY <1>2, ElementOfSeq
<1>4. base + i - 1 \in Nat
  BY <1>2
<1>. QED  BY <1>3, <1>4 DEF Cell, CellSet

(* Nothing but a sequence of tokens comes out of cutting one up.           *)
LEMMA CutUpType ==
  ASSUME NEW h \in Seq(Token), NEW n \in Nat, n <= Len(h)
  PROVE  /\ Keep(h, n) \in Seq(Token)
         /\ Len(Keep(h, n)) = n
         /\ \A i \in 1..n : Keep(h, n)[i] = h[i]
BY LenProperties, ElementOfSeq, SubSeqProperties DEF Keep

(* The same for the pieces a submission and an eviction are made of.       *)
LEMMA PiecesType ==
  ASSUME NEW h \in Seq(Token), NEW m \in Nat, m >= 1, NEW n \in Nat, n <= Len(h)
  PROVE  SubSeq(h, m, n) \in Seq(Token)
BY LenProperties, ElementOfSeq, SubSeqProperties

(* What is left of a transcript from some token on.                        *)
LEMMA RestType ==
  ASSUME NEW h \in Seq(Token), NEW m \in Nat
  PROVE  SubSeq(h, m + 1, Len(h)) \in Seq(Token)
<1>1. Len(h) \in Nat /\ m + 1 \in Nat /\ m + 1 >= 1
  BY LenProperties
<1>. QED  BY <1>1, PiecesType

(* The tokens of a submission and those behind it.                         *)
LEMMA ChunkType ==
  ASSUME TypeOK, NEW s \in Sequences
  PROVE  /\ Chunk(s) \in Seq(Token)
         /\ Afterwards(s) \in Seq(Token)
         /\ Len(Chunk(s)) \in Nat
<1>1. todo[s] \in Seq(Token) /\ Len(todo[s]) \in Nat
  BY LenProperties DEF TypeOK
<1>2. Lesser(ChunkLimit, Len(todo[s])) \in Nat
      /\ Lesser(ChunkLimit, Len(todo[s])) <= Len(todo[s])
  BY <1>1, CacheAssumption DEF Lesser
<1>3. Chunk(s) \in Seq(Token) /\ Len(Chunk(s)) \in Nat
  BY <1>1, <1>2, PiecesType, LenProperties DEF Chunk
<1>4. Afterwards(s) \in Seq(Token)
  BY <1>1, <1>3, PiecesType DEF Afterwards
<1>. QED  BY <1>3, <1>4

(* An eviction removes whole tokens, all of them from the transcript.      *)
LEMMA EvictionRange ==
  ASSUME TypeOK, NEW s \in Sequences, NEW incoming \in Nat
  PROVE  /\ EvictHead(s) \in 0..Len(history[s])
         /\ EvictCount(s, incoming) \in 0..(Len(history[s]) - EvictHead(s))
         /\ EvictHead(s) < Len(history[s]) => shared[s] <= EvictHead(s)
<1>1. Len(history[s]) \in Nat /\ shared[s] \in Nat
  BY LenProperties DEF TypeOK
<1>2. EvictHead(s) \in 0..Len(history[s])
      /\ (EvictHead(s) < Len(history[s]) => shared[s] <= EvictHead(s))
  BY <1>1, CacheAssumption DEF EvictHead, Lesser, Greater
<1>. DEFINE room == Len(history[s]) - EvictHead(s)
<1>3. room \in Nat /\ room \div 2 \in Nat
  BY <1>1, <1>2
<1>4. EvictCount(s, incoming) \in 0..room
  BY <1>1, <1>3, CacheAssumption DEF EvictCount, Lesser, Greater
<1>. QED  BY <1>2, <1>4

-----------------------------------------------------------------------------
(* Type correctness, which needs the plan of an eviction to be sound: a    *)
(* range that ends past the transcript would make it something other than  *)
(* a sequence of tokens.                                                   *)

(* generating_ is set exactly while the handle's thread is between join()  *)
(* and leave().                                                            *)
GeneratingInStep ==
  \A s \in Sequences : generating[s] <=> phase[s] \in InGeneration

(* Only a memory that can be shifted is ever about to be.                  *)
ShiftsAllowed == \A s \in Sequences : phase[s] = "shift" => Shiftable

Typed == TypeOK /\ GeneratingInStep /\ EvictionPlanHolds /\ ShiftsAllowed

(* Opening, closing, resetting and loading keep the type.                  *)
LEMMA TypeOfHandle ==
  ASSUME TypeOK, NEW s \in Sequences, Handle(s)
  PROVE  TypeOK'
<1>. USE DEF TypeOK
<1>1. shared[s] \in Nat /\ 0 \in Nat /\ Lesser(shared[s], 0) \in Nat
  BY DEF Lesser
<1>2. kv \in SUBSET CellSet
  BY DEF CellSet
<1>3. SeqRm(kv, s, Nat) \in SUBSET CellSet
  BY <1>2, SeqRmType
<1>4. <<>> \in Seq(Token)
  BY EmptySeq
<1>5. CASE Create(s)
  BY <1>5 DEF Create, Goto, engineVars, callVars, Phase
<1>6. CASE Destroy(s)
  BY <1>3, <1>4, <1>6 DEF Destroy, Goto, callVars, CellSet, Phase
<1>7. CASE Reset(s)
  BY <1>1, <1>3, <1>4, <1>7 DEF Reset, Forget, callVars, CellSet
<1>8. CASE LoadSession(s)
  <2>1. PICK saved \in Sessions :
          /\ kv' = SeqRm(kv, s, Nat) \cup Laid(s, saved, 0)
          /\ history' = [history EXCEPT ![s] = saved]
    BY <1>8 DEF LoadSession
  <2>2. saved \in Seq(Token)
    BY CacheAssumption
  <2>3. kv' \in SUBSET CellSet
    BY <1>3, <2>1, <2>2, LaidType
  <2>4. /\ shared' = [shared EXCEPT ![s] = Lesser(shared[s], 0)]
        /\ UNCHANGED <<generating, phase, callVars>>
    BY <1>8 DEF LoadSession, Forget
  <2>5. history' \in [Sequences -> Seq(Token)]
    BY ONLY <2>1, <2>2, history \in [Sequences -> Seq(Token)]
  <2>6. shared' \in [Sequences -> Nat]
    BY ONLY <1>1, <2>4, shared \in [Sequences -> Nat]
  <2>. QED  BY <2>3, <2>4, <2>5, <2>6 DEF callVars, CellSet
<1>9. CASE LoadRefused(s)
  BY <1>1, <1>9 DEF LoadRefused, Forget, callVars
<1>10. CASE LoadBroken(s)
  BY <1>1, <1>3, <1>10 DEF LoadBroken, Forget, callVars, CellSet
<1>. QED  BY <1>5, <1>6, <1>7, <1>8, <1>9, <1>10 DEF Handle

(* So does every step of generate() up to the first decode.                *)
LEMMA TypeOfEnter ==
  ASSUME TypeOK, NEW s \in Sequences, Enter(s)
  PROVE  TypeOK'
<1>. USE DEF TypeOK
<1>1. /\ shared[s] \in Nat
      /\ Len(history[s]) \in Nat
      /\ Len(prompt[s]) \in Nat
      /\ history[s] \in Seq(Token)
      /\ prompt[s] \in Seq(Token)
      /\ <<>> \in Seq(Token)
      /\ \A n \in Nat : Lesser(shared[s], n) \in Nat
  BY LenProperties, EmptySeq DEF Lesser
<1>2. kv \in SUBSET CellSet
  BY DEF CellSet
<1>3. \A where : SeqRm(kv, s, where) \in SUBSET CellSet
  BY <1>2, SeqRmType
<1>4. ASSUME NEW p \in Prompts, NEW slide \in Slides, Start(s, p, slide)
      PROVE  TypeOK'
  BY <1>4, CacheAssumption DEF Start, Goto, engineVars, Phase
<1>5. ASSUME NEW p \in Prompts, NEW slide \in Slides,
             NEW n \in 1..Len(history[s]), StartRewound(s, p, slide, n)
      PROVE  TypeOK'
  <2>1. n \in Nat /\ n <= Len(history[s])
    BY <1>1
  <2>2. Keep(history[s], n) \in Seq(Token)
    BY <2>1, CutUpType
  <2>3. /\ kv' \in SUBSET CellSet
        /\ shared' \in [Sequences -> Nat]
        /\ history' \in [Sequences -> Seq(Token)]
    <3>1. CASE n < Len(history[s])
      <4>1. kv' = SeqRm(kv, s, From(n)) /\ Forget(s, n)
            /\ history' = [history EXCEPT ![s] = Keep(@, n)]
        BY <1>5, <3>1 DEF StartRewound
      <4>2. shared' \in [Sequences -> Nat]
        BY <1>1, <2>1, <4>1 DEF Forget
      <4>. QED  BY <1>3, <2>2, <4>1, <4>2
    <3>2. CASE ~(n < Len(history[s]))
      BY <1>2, <1>5, <3>2 DEF StartRewound
    <3>. QED  BY <3>1, <3>2
  <2>4. /\ prompt' \in [Sequences -> Seq(Token)]
        /\ past' \in [Sequences -> Nat]
        /\ sliding' \in [Sequences -> BOOLEAN]
        /\ phase' \in [Sequences -> Phase]
        /\ UNCHANGED <<generating, todo, cut>>
    BY <1>5, <2>1, CacheAssumption DEF StartRewound, Goto, Phase
  <2>. QED
    <3>1. kv' \subseteq [pos : Nat, tok : Token, holders : (SUBSET Sequences) \ {{}}]
      BY <2>3 DEF CellSet
    <3>. QED  BY <2>3, <2>4, <3>1
<1>6. ASSUME NEW n \in 1..Len(history[s]), RewindRefused(s, n)
      PROVE  TypeOK'
  <2>1. shared' \in [Sequences -> Nat]
    BY <1>1, <1>6 DEF RewindRefused, Forget
  <2>. QED  BY <1>6, <2>1 DEF RewindRefused, callVars
<1>7. CASE Borrow(s)
  <2>1. PICK d \in Sequences, n \in 0..Len(prompt[s]) :
          /\ kv' = SeqCp(SeqRm(kv, s, Nat), d, s, n)
          /\ MarkLoan(s, d, n)
          /\ history' = [history EXCEPT ![s] = Keep(prompt[s], n)]
    BY <1>7 DEF Borrow
  <2>2. n \in Nat /\ n <= Len(prompt[s])
    BY <1>1
  <2>3. kv' \in SUBSET CellSet
    BY <1>3, <2>1, SeqCpType
  <2>4. shared' \in [Sequences -> Nat]
    BY <2>1, <2>2 DEF MarkLoan, Greater
  <2>5. history' \in [Sequences -> Seq(Token)]
    BY <2>1, <2>2, CutUpType
  <2>6. phase' \in [Sequences -> Phase] /\ UNCHANGED <<generating, callVars>>
    BY <1>7 DEF Borrow, Goto, Phase
  <2>. QED  BY <2>3, <2>4, <2>5, <2>6 DEF callVars, CellSet
<1>8. CASE NothingToBorrow(s)
  BY <1>8 DEF NothingToBorrow, Goto, engineVars, callVars, Phase
<1>9. CASE Trim(s)
  <2>1. PICK n \in 0..Len(prompt[s]) : IsReusable(n, history[s], prompt[s]) /\ TrimTo(s, n)
    BY <1>9 DEF Trim
  <2>2. n \in Nat /\ Survivors(n) \in Nat /\ Survivors(n) <= n
    BY <1>1 DEF Survivors
  <2>3. /\ kv' \in SUBSET CellSet
        /\ shared' \in [Sequences -> Nat]
        /\ history' \in [Sequences -> Seq(Token)]
    <3>1. CASE n < Len(history[s])
      <4>1. Keep(history[s], Survivors(n)) \in Seq(Token)
        BY <1>1, <2>2, <3>1, CutUpType
      <4>2. kv' = SeqRm(kv, s, From(Survivors(n))) /\ Forget(s, n)
            /\ history' = [history EXCEPT ![s] = Keep(@, Survivors(n))]
        BY <2>1, <3>1 DEF TrimTo, KeptTranscript
      <4>3. shared' \in [Sequences -> Nat]
        BY <1>1, <2>2, <4>2 DEF Forget
      <4>. QED
        BY <1>3, <4>1, <4>2, <4>3
    <3>2. CASE ~(n < Len(history[s]))
      BY <1>2, <2>1, <3>2 DEF TrimTo
    <3>. QED  BY <3>1, <3>2
  <2>4. PICK m \in Nat : m = Len(history'[s])
    BY <2>3, LenProperties
  <2>5. SubSeq(prompt[s], m + 1, Len(prompt[s])) \in Seq(Token)
    BY <1>1, RestType
  <2>6. /\ phase' \in [Sequences -> Phase]
        /\ prompt' \in [Sequences -> Seq(Token)]
        /\ todo' \in [Sequences -> Seq(Token)]
        /\ past' \in [Sequences -> Nat]
        /\ UNCHANGED <<generating, sliding, cut>>
    <3>1. past' = [past EXCEPT ![s] = 0] /\ UNCHANGED <<generating, sliding, cut>>
      BY <1>9 DEF Trim
    <3>2. past' \in [Sequences -> Nat]
      BY ONLY <3>1, past \in [Sequences -> Nat]
    <3>3. /\ phase' \in [Sequences -> Phase]
          /\ prompt' \in [Sequences -> Seq(Token)]
          /\ todo' \in [Sequences -> Seq(Token)]
      <4>1. CASE Overflows(s)
        <5>1. /\ phase' = [phase EXCEPT ![s] = "idle"]
              /\ prompt' = [prompt EXCEPT ![s] = <<>>]
              /\ todo' = todo
          BY <1>9, <4>1 DEF Trim, Goto
        <5>2. "idle" \in Phase /\ <<>> \in Seq(Token)
          BY DEF Phase
        <5>. QED  BY ONLY <5>1, <5>2, TypeOK DEF TypeOK
      <4>2. CASE ~Overflows(s)
        <5>1. /\ phase' = [phase EXCEPT ![s] = "join"]
              /\ prompt' = prompt
              /\ todo' = [todo EXCEPT ![s] = SubSeq(prompt[s], m + 1, Len(prompt[s]))]
          BY <1>9, <2>4, <4>2 DEF Trim, Goto
        <5>2. "join" \in Phase
          BY DEF Phase
        <5>. QED  BY ONLY <2>5, <5>1, <5>2, TypeOK DEF TypeOK
      <4>. QED  BY <4>1, <4>2
    <3>. QED  BY <3>1, <3>2, <3>3
  <2>. QED  BY <2>3, <2>6 DEF CellSet
<1>10. CASE Join(s)
  BY <1>10 DEF Join, Goto, callVars, Phase
<1>11. CASE PromptRefused(s)
  BY <1>1, <1>11 DEF PromptRefused, Goto, engineVars, Phase
<1>12. CASE SamplerRefused(s)
  BY <1>1, <1>12 DEF SamplerRefused, Goto, engineVars, Phase
<1>. QED  BY <1>4, <1>5, <1>6, <1>7, <1>8, <1>9, <1>10, <1>11, <1>12 DEF Enter

(* And every step after it, given that the planned eviction fits the       *)
(* transcript: it is what keeps the positions natural numbers.             *)
LEMMA TypeOfGenerate ==
  ASSUME TypeOK, EvictionPlanHolds, NEW s \in Sequences, Generate(s)
  PROVE  TypeOK'
<1>. USE DEF TypeOK
<1>1. /\ shared[s] \in Nat
      /\ Len(history[s]) \in Nat
      /\ history[s] \in Seq(Token)
      /\ <<>> \in Seq(Token)
      /\ Chunk(s) \in Seq(Token)
      /\ Afterwards(s) \in Seq(Token)
      /\ Len(Chunk(s)) \in Nat
      /\ \A n \in Nat : Lesser(shared[s], n) \in Nat
  BY LenProperties, EmptySeq, ChunkType DEF Lesser
<1>2. kv \in SUBSET CellSet
  BY DEF CellSet
<1>3. ASSUME Leave(s) PROVE TypeOK'
  BY <1>1, <1>3 DEF Leave, Goto, Phase
<1>4. CASE DecodeOk(s)
  <2>1. kv' \in SUBSET CellSet
    BY <1>1, <1>2, <1>4, LaidType DEF DecodeOk
  <2>. QED  BY <1>4, <2>1 DEF DecodeOk, Goto, Phase, callVars, CellSet
<1>5. CASE DecodeNoSlot(s)
  BY <1>5 DEF DecodeNoSlot, Goto, Phase, engineVars, callVars
<1>6. CASE DecodeFailed(s)
  BY <1>3, <1>6 DEF DecodeFailed
<1>7. CASE AppendHistory(s)
  <2>1. history[s] \o Chunk(s) \in Seq(Token)
    BY <1>1, ConcatProperties
  <2>. QED  BY <1>1, <1>7, <2>1 DEF AppendHistory, Goto, Phase, engineVars
<1>8. CASE PlanEviction(s)
  <2>1. Incoming(s) \in Nat
    BY <1>1 DEF Incoming
  <2>2. /\ EvictHead(s) \in 0..Len(history[s])
        /\ EvictCount(s, Incoming(s)) \in 0..(Len(history[s]) - EvictHead(s))
    BY <2>1, EvictionRange
  <2>3. EvictHead(s) \in Nat /\ EvictCount(s, Incoming(s)) \in Nat
    BY <1>1, <2>2
  <2>. QED  BY <1>8, <2>3 DEF PlanEviction, Goto, Phase, engineVars
<1>9. CASE CannotEvict(s)
  BY <1>3, <1>9 DEF CannotEvict
<1>10. CASE ShiftCells(s)
  <2>1. PICK head \in Nat, n \in Nat : head = cut[s].head /\ n = cut[s].n
    OBVIOUS
  <2>2. PICK cached \in Nat : cached = Len(history[s])
    BY <1>1
  <2>3. head + n <= cached
    BY <1>10, <2>1, <2>2 DEF ShiftCells, EvictionPlanHolds
  <2>4. /\ kv' = SeqAdd(SeqRm(kv, s, head..(head + n - 1)),
                        s, (head + n)..(cached - 1), n)
        /\ Forget(s, cached - n)
    BY <1>10, <2>1, <2>2 DEF ShiftCells
  <2>5. kv' \in SUBSET CellSet
    <3>1. SeqRm(kv, s, head..(head + n - 1)) \in SUBSET CellSet
      BY <1>2, SeqRmType
    <3>. QED  BY <2>4, <3>1, SeqAddType
  <2>6. shared' \in [Sequences -> Nat]
    <3>1. cached - n \in Nat
      BY <2>3
    <3>. QED  BY <1>1, <2>4, <3>1 DEF Forget
  <2>. QED  BY <1>10, <2>5, <2>6 DEF ShiftCells, Goto, Phase, callVars, CellSet
<1>11. CASE EraseHistory(s)
  <2>1. PICK head \in Nat, n \in Nat : head = cut[s].head /\ n = cut[s].n
    OBVIOUS
  <2>2. head + n <= Len(history[s])
    BY <1>11, <2>1 DEF EraseHistory, EvictionPlanHolds
  <2>3. SubSeq(history[s], 1, head) \in Seq(Token)
    <3>1. head <= Len(history[s])
      BY <1>1, <2>2
    <3>. QED  BY <1>1, <3>1, CutUpType DEF Keep
  <2>4. SubSeq(history[s], head + n + 1, Len(history[s])) \in Seq(Token)
    <3>1. head + n \in Nat
      OBVIOUS
    <3>. QED  BY <1>1, <3>1, RestType
  <2>5. Without(history[s], cut[s]) \in Seq(Token)
    BY <2>1, <2>3, <2>4, ConcatProperties DEF Without
  <2>. QED  BY <1>11, <2>5 DEF EraseHistory, NoCut, Goto, Phase, engineVars
<1>12. ASSUME NEW t \in Sampled, Pick(s, t) PROVE TypeOK'
  BY <1>12, CacheAssumption DEF Pick, Goto, Phase, engineVars
<1>13. CASE Stop(s)
  BY <1>3, <1>13 DEF Stop
<1>. QED  BY <1>4, <1>5, <1>6, <1>7, <1>8, <1>9, <1>10, <1>11, <1>12, <1>13 DEF Generate

Step(s) == Handle(s) \/ Enter(s) \/ Generate(s)

(* A step of one handle touches nothing of a sibling's bookkeeping, except *)
(* that it raises the mark of a sibling that is not generating.            *)
LEMMA SiblingsKeep ==
  ASSUME Typed, NEW s \in Sequences, Step(s), NEW t \in Sequences, t # s
  PROVE  /\ phase'[t] = phase[t]
         /\ cut'[t] = cut[t]
         /\ todo'[t] = todo[t]
         /\ history'[t] = history[t]
         /\ generating'[t] = generating[t]
         /\ generating[t] => shared'[t] = shared[t]
<1>. USE DEF Typed, TypeOK, Goto, Forget, engineVars, callVars
<1>1. CASE Handle(s)
  BY <1>1 DEF Handle, Create, Destroy, Reset, LoadSession, LoadRefused, LoadBroken
<1>2. CASE Enter(s)
  <2>1. ASSUME NEW p \in Prompts, NEW slide \in Slides, NEW n,
               Start(s, p, slide) \/ StartRewound(s, p, slide, n)
        PROVE  /\ phase'[t] = phase[t]
               /\ cut'[t] = cut[t]
               /\ todo'[t] = todo[t]
               /\ history'[t] = history[t]
               /\ generating'[t] = generating[t]
               /\ shared'[t] = shared[t]
    BY <2>1 DEF Start, StartRewound
  <2>2. CASE Borrow(s)
    BY <2>2 DEF Borrow, Donor, MayLend, MarkLoan
  <2>3. CASE Trim(s)
    BY <2>3 DEF Trim, TrimTo
  <2>. QED  BY <1>2, <2>1, <2>2, <2>3 DEF Enter, RewindRefused, NothingToBorrow, Join,
         PromptRefused, SamplerRefused
<1>3. CASE Generate(s)
  <2>1. ASSUME Leave(s)
        PROVE  /\ phase'[t] = phase[t]
               /\ cut'[t] = cut[t]
               /\ todo'[t] = todo[t]
               /\ history'[t] = history[t]
               /\ generating'[t] = generating[t]
               /\ shared'[t] = shared[t]
    BY <2>1 DEF Leave
  <2>. QED
    BY <1>3, <2>1 DEF Generate, DecodeOk, DecodeNoSlot, DecodeFailed, AppendHistory,
         PlanEviction, CannotEvict, ShiftCells, EraseHistory, Pick, Stop
<1>. QED  BY <1>1, <1>2, <1>3 DEF Step

(* Whatever a handle does, its flag goes with its phase, and an eviction   *)
(* it has planned fits its transcript and spares the shared prefix.        *)
LEMMA OwnPlan ==
  ASSUME Typed, NEW s \in Sequences, Step(s)
  PROVE  /\ generating'[s] <=> phase'[s] \in InGeneration
         /\ phase'[s] = "shift" => shared'[s] <= cut'[s].head
         /\ phase'[s] \in {"shift", "erase"}
              => cut'[s].head + cut'[s].n <= Len(history'[s])
         /\ phase'[s] = "shift" => Shiftable
<1>. USE DEF Typed, TypeOK, GeneratingInStep, EvictionPlanHolds, InGeneration, Goto,
             engineVars, callVars
<1>1. CASE Handle(s)
  BY <1>1 DEF Handle, Create, Destroy, Reset, LoadSession, LoadRefused, LoadBroken
<1>2. CASE Enter(s)
  <2>1. ASSUME NEW p \in Prompts, NEW slide \in Slides, NEW n,
               Start(s, p, slide) \/ StartRewound(s, p, slide, n)
        PROVE  /\ generating'[s] <=> phase'[s] \in InGeneration
               /\ phase'[s] \notin {"shift", "erase"}
    BY <2>1 DEF Start, StartRewound
  <2>2. CASE Borrow(s)
    BY <2>2 DEF Borrow
  <2>3. CASE Trim(s)
    BY <2>3 DEF Trim
  <2>. QED  BY <1>2, <2>1, <2>2, <2>3 DEF Enter, RewindRefused, NothingToBorrow, Join,
         PromptRefused, SamplerRefused
<1>3. CASE Generate(s)
  <2>1. ASSUME Leave(s)
        PROVE  /\ generating'[s] <=> phase'[s] \in InGeneration
               /\ phase'[s] \notin {"shift", "erase"}
    BY <2>1 DEF Leave
  <2>2. CASE PlanEviction(s)
    <3>1. Incoming(s) \in Nat
      BY ChunkType DEF Incoming
    <3>2. PICK head, n \in Nat :
            /\ cut'[s] = [head |-> head, n |-> n]
            /\ head + n <= Len(history[s])
            /\ shared[s] <= head
      <4>1. /\ EvictHead(s) \in 0..Len(history[s])
            /\ EvictCount(s, Incoming(s)) \in 0..(Len(history[s]) - EvictHead(s))
            /\ EvictHead(s) < Len(history[s]) => shared[s] <= EvictHead(s)
        BY <3>1, EvictionRange
      <4>2. EvictCount(s, Incoming(s)) > 0
        BY <2>2 DEF PlanEviction, CanEvict
      <4>3. Len(history[s]) \in Nat
        BY LenProperties
      <4>4. cut'[s] = [head |-> EvictHead(s), n |-> EvictCount(s, Incoming(s))]
        BY <2>2 DEF PlanEviction
      <4>. QED  BY <4>1, <4>2, <4>3, <4>4
    <3>. QED  BY <2>2, <3>2 DEF PlanEviction, CanEvict, WantsSpace, Full
  <2>3. CASE ShiftCells(s)
    BY <2>3 DEF ShiftCells
  <2>. QED
    BY <1>3, <2>1, <2>2, <2>3 DEF Generate, DecodeOk, DecodeNoSlot, DecodeFailed,
         AppendHistory, CannotEvict, EraseHistory, Pick, HasRoom, Stop
<1>. QED  BY <1>1, <1>2, <1>3 DEF Step

(* The type and the plans are inductive together.                          *)
LEMMA TypedStep ==
  ASSUME Typed, [Next]_vars
  PROVE  Typed'
<1>1. CASE UNCHANGED vars
  BY <1>1 DEF vars, Typed, TypeOK, GeneratingInStep, EvictionPlanHolds, ShiftsAllowed
<1>2. ASSUME NEW s \in Sequences, Step(s)
      PROVE  Typed'
  <2>1. TypeOK'
    BY <1>2, TypeOfHandle, TypeOfEnter, TypeOfGenerate DEF Step, Typed
  <2>2. ASSUME NEW t \in Sequences
        PROVE  /\ generating'[t] <=> phase'[t] \in InGeneration
               /\ phase'[t] = "shift" => shared'[t] <= cut'[t].head
               /\ phase'[t] \in {"shift", "erase"}
                    => cut'[t].head + cut'[t].n <= Len(history'[t])
               /\ phase'[t] = "shift" => Shiftable
    <3>1. CASE t = s
      BY <1>2, <3>1, OwnPlan
    <3>2. CASE t # s
      BY <1>2, <3>2, SiblingsKeep
        DEF Typed, GeneratingInStep, EvictionPlanHolds, ShiftsAllowed, InGeneration
    <3>. QED  BY <3>1, <3>2
  <2>. QED  BY <2>1, <2>2 DEF Typed, GeneratingInStep, EvictionPlanHolds, ShiftsAllowed
<1>. QED  BY <1>1, <1>2 DEF Next, Step

(* Nobody is inside generate() at first.                                   *)
LEMMA TypedInit ==
  Init => Typed
<1>1. <<>> \in Seq(Token)
  BY EmptySeq
<1>. QED
  BY <1>1 DEF Init, Typed, TypeOK, GeneratingInStep, EvictionPlanHolds, ShiftsAllowed,
       InGeneration, Phase, NoCut

(* Both hold throughout.                                                   *)
LEMMA TypedAlways ==
  Spec => []Typed
BY TypedInit, TypedStep, PTL DEF Spec

(* The state is always of its type.                                        *)
THEOREM TypeCorrect ==
  Spec => []TypeOK
<1>1. Typed => TypeOK
  BY DEF Typed
<1>. QED  BY <1>1, TypedAlways, PTL

(* What evict_for_space() planned before it gave up the lock is still      *)
(* sound when it takes the lock again to shift: no sibling was lent cells  *)
(* beyond the head, because lending skips handles that are generating.     *)
THEOREM PlansStaySound ==
  Spec => []EvictionPlanHolds
<1>1. Typed => EvictionPlanHolds
  BY DEF Typed
<1>. QED  BY <1>1, TypedAlways, PTL

-----------------------------------------------------------------------------
(* The shared region stays marked, provided that this memory can drop a    *)
(* tail and that no session is refused before its sequence was touched:    *)
(* the two ways in which the code lowers a mark without letting go of the  *)
(* cells it covered.                                                       *)

MarksKept == Trimmable /\ "refused" \notin LoadFailures

(* Marks matter where a window can slide: nothing but a context shift      *)
(* moves cells.                                                            *)
ShiftsSafely == Shiftable => MarksKept

(* No session's cells are lost on loading while its transcript stays.      *)
LoadsWhole == "broken" \notin LoadFailures

Marked(cells, marks) ==
  \A c \in cells : \A x \in c.holders : c.holders # {x} => c.pos < marks[x]

Marks == [Sequences -> Nat]

(* A mark may fall to m together with every cell from m on.                *)
LEMMA MarkedRm ==
  ASSUME NEW cells \in SUBSET CellSet, NEW marks \in Marks, Marked(cells, marks),
         NEW s \in Sequences, NEW m \in Nat, NEW where,
         \A p \in Nat : p \notin where => p < m
  PROVE  Marked(SeqRm(cells, s, where), [marks EXCEPT ![s] = Lesser(@, m)])
<1>. SUFFICES ASSUME NEW c \in SeqRm(cells, s, where), NEW x \in c.holders,
                     c.holders # {x}
              PROVE  c.pos < [marks EXCEPT ![s] = Lesser(@, m)][x]
  BY DEF Marked
<1>1. PICK d \in cells :
        c = Cell(d.pos, d.tok, IF d.pos \in where THEN d.holders \ {s} ELSE d.holders)
  BY DEF SeqRm
<1>2. /\ c.pos = d.pos
      /\ c.holders = IF d.pos \in where THEN d.holders \ {s} ELSE d.holders
      /\ d.pos \in Nat
      /\ d.holders \subseteq Sequences
  BY <1>1 DEF Cell, CellSet
<1>3. x \in d.holders /\ d.holders # {x} /\ x \in Sequences
  BY <1>2
<1>4. d.pos < marks[x]
  BY <1>3 DEF Marked
<1>5. x = s => d.pos < m
  BY <1>2
<1>. QED  BY <1>2, <1>3, <1>4, <1>5 DEF Lesser, Marks

(* Cells nobody else holds need no mark.                                   *)
LEMMA MarkedLaid ==
  ASSUME NEW cells, NEW marks, Marked(cells, marks), NEW s, NEW tokens, NEW base
  PROVE  Marked(cells \cup Laid(s, tokens, base), marks)
BY DEF Marked, Laid, Cell

(* A loan is marked at both ends.                                          *)
LEMMA MarkedCp ==
  ASSUME NEW cells \in SUBSET CellSet, NEW marks \in Marks, Marked(cells, marks),
         NEW d \in Sequences, NEW s \in Sequences, NEW n \in Nat, d # s,
         \A c \in cells : s \notin c.holders
  PROVE  Marked(SeqCp(cells, d, s, n),
                [marks EXCEPT ![s] = n, ![d] = Greater(@, n)])
<1>. DEFINE after == [marks EXCEPT ![s] = n, ![d] = Greater(@, n)]
<1>. SUFFICES ASSUME NEW c \in SeqCp(cells, d, s, n), NEW x \in c.holders,
                     c.holders # {x}
              PROVE  c.pos < after[x]
  BY DEF Marked
<1>1. PICK e \in cells :
        c = IF d \in e.holders /\ e.pos < n
              THEN Cell(e.pos, e.tok, e.holders \cup {s}) ELSE e
  BY DEF SeqCp
<1>2. c.pos = e.pos /\ e.pos \in Nat /\ e.holders \subseteq Sequences
  BY <1>1 DEF Cell, CellSet
<1>3. /\ after[s] = n
      /\ after[d] \in Nat /\ after[d] >= n /\ after[d] >= marks[d]
      /\ \A t \in Sequences \ {s, d} : after[t] = marks[t]
  BY DEF Greater, Marks
<1>4. CASE d \in e.holders /\ e.pos < n
  <2>1. c.holders = e.holders \cup {s}
    BY <1>1, <1>4 DEF Cell
  <2>2. CASE x \in {s, d}
    BY <1>2, <1>3, <1>4, <2>2
  <2>3. CASE x \notin {s, d}
    <3>1. x \in e.holders /\ e.holders # {x}
      BY <1>4, <2>1, <2>3
    <3>2. e.pos < marks[x] /\ x \in Sequences
      BY <1>2, <3>1 DEF Marked
    <3>. QED  BY <1>2, <1>3, <2>3, <3>2
  <2>. QED  BY <2>2, <2>3
<1>5. CASE ~(d \in e.holders /\ e.pos < n)
  <2>1. c = e /\ x \in e.holders /\ x # s /\ x \in Sequences
    BY <1>1, <1>2, <1>5
  <2>2. e.pos < marks[x] /\ marks[x] \in Nat
    BY <2>1 DEF Marked, Marks
  <2>3. after[x] >= marks[x] /\ after[x] \in Nat
    <3>. HIDE DEF after
    <3>1. CASE x = d
      BY <1>3, <2>2, <3>1
    <3>2. CASE x # d
      BY <1>3, <2>1, <2>2, <3>2
    <3>. QED  BY <3>1, <3>2
  <2>. QED  BY <1>2, <2>1, <2>2, <2>3
<1>. QED  BY <1>4, <1>5

(* A context shift above the mark moves nothing two sequences hold.        *)
LEMMA MarkedShift ==
  ASSUME NEW cells \in SUBSET CellSet, NEW marks \in Marks, Marked(cells, marks),
         NEW s \in Sequences, NEW head \in Nat, NEW n \in Nat, NEW cached \in Nat,
         marks[s] <= head, head + n <= cached
  PROVE  Marked(SeqAdd(SeqRm(cells, s, head..(head + n - 1)),
                       s, (head + n)..(cached - 1), n),
                [marks EXCEPT ![s] = Lesser(@, cached - n)])
<1>. DEFINE left == SeqRm(cells, s, head..(head + n - 1))
            after == [marks EXCEPT ![s] = Lesser(@, cached - n)]
<1>. SUFFICES ASSUME NEW c \in SeqAdd(left, s, (head + n)..(cached - 1), n),
                     NEW x \in c.holders, c.holders # {x}
              PROVE  c.pos < after[x]
  BY DEF Marked
<1>1. PICK e \in left :
        c = IF s \in e.holders /\ e.pos \in (head + n)..(cached - 1)
              THEN Cell(e.pos - n, e.tok, e.holders) ELSE e
  BY DEF SeqAdd
<1>2. PICK d \in cells :
        e = Cell(d.pos, d.tok,
                 IF d.pos \in head..(head + n - 1) THEN d.holders \ {s} ELSE d.holders)
  BY DEF SeqRm
<1>3. /\ c.holders = e.holders /\ e.pos = d.pos /\ d.pos \in Nat
      /\ e.holders \subseteq d.holders /\ d.holders \subseteq Sequences
  BY <1>1, <1>2 DEF Cell, CellSet
<1>4. x \in d.holders /\ d.holders # {x} /\ x \in Sequences
  BY <1>3
<1>5. d.pos < marks[x] /\ marks[x] \in Nat
  BY <1>4 DEF Marked, Marks
<1>6. s \in e.holders => d.pos < head
  BY <1>3, <1>5 DEF Marked, Marks
<1>7. c.pos = d.pos
  BY <1>1, <1>3, <1>6
<1>8. after[x] = IF x = s THEN Lesser(marks[s], cached - n) ELSE marks[x]
  BY <1>4 DEF Marks
<1>9. x = s => d.pos < cached - n
  BY <1>3, <1>5
<1>. QED  BY <1>3, <1>5, <1>7, <1>8, <1>9 DEF Lesser

(* Each step of a handle leaves every shared cell below the marks of       *)
(* all that hold it.                                                       *)
LEMMA MarkedStep ==
  ASSUME MarksKept, Typed, SharedRegionMarked, NEW s \in Sequences, Step(s)
  PROVE  SharedRegionMarked'
<1>1. /\ kv \in SUBSET CellSet
      /\ shared \in Marks
      /\ Marked(kv, shared)
  BY DEF Typed, TypeOK, CellSet, Marks, Marked, SharedRegionMarked
<1>2. SUFFICES Marked(kv', shared')
  BY DEF Marked, SharedRegionMarked
<1>3. CASE UNCHANGED <<kv, shared>>
  BY <1>1, <1>3
<1>4. CASE Handle(s)
  <2>1. Marked(SeqRm(kv, s, Nat), [shared EXCEPT ![s] = Lesser(@, 0)])
    BY <1>1, MarkedRm
  <2>2. CASE Destroy(s)
    <3>1. Lesser(shared[s], 0) = 0
      BY <1>1 DEF Lesser, Marks
    <3>. QED  BY <1>1, <2>1, <2>2, <3>1 DEF Destroy, Marks
  <2>3. CASE Reset(s)
    BY <2>1, <2>3 DEF Reset, Forget
  <2>4. CASE LoadSession(s)
    BY <2>1, <2>4, MarkedLaid DEF LoadSession, Forget
  <2>5. CASE LoadBroken(s)
    BY <2>1, <2>5 DEF LoadBroken, Forget
  <2>. QED
    BY <1>3, <1>4, <2>2, <2>3, <2>4, <2>5
      DEF Handle, Create, LoadRefused, MarksKept, engineVars
<1>5. CASE Enter(s)
  <2>1. ASSUME NEW n \in Nat, Forget(s, n), kv' = SeqRm(kv, s, From(n))
        PROVE  Marked(kv', shared')
    <3>1. \A p \in Nat : p \notin From(n) => p < n
      BY DEF From
    <3>. QED  BY <1>1, <2>1, <3>1, MarkedRm DEF Forget
  <2>2. ASSUME NEW p \in Prompts, NEW slide \in Slides,
               NEW n \in 1..Len(history[s]), StartRewound(s, p, slide, n)
        PROVE  Marked(kv', shared')
    <3>1. n \in Nat
      BY LenProperties DEF Typed, TypeOK
    <3>. QED  BY <1>3, <2>1, <2>2, <3>1 DEF StartRewound
  <2>3. CASE Borrow(s)
    <3>1. PICK d \in Sequences, n \in Nat :
            /\ d # s
            /\ kv' = SeqCp(SeqRm(kv, s, Nat), d, s, n)
            /\ MarkLoan(s, d, n)
      <4>1. \A m \in 0..Len(prompt[s]) : m \in Nat
        BY LenProperties DEF Typed, TypeOK
      <4>. QED  BY <2>3, <4>1 DEF Borrow, Donor, MayLend
    <3>2. SeqRm(kv, s, Nat) \in SUBSET CellSet
      BY <1>1, SeqRmType
    <3>. DEFINE low == [shared EXCEPT ![s] = Lesser(@, 0)]
    <3>3. Marked(SeqRm(kv, s, Nat), low) /\ low \in Marks
      BY <1>1, MarkedRm DEF Marks, Lesser
    <3>4. \A c \in SeqRm(kv, s, Nat) : s \notin c.holders
      BY <1>1 DEF SeqRm, Cell, CellSet
    <3>5. shared' = [low EXCEPT ![s] = n, ![d] = Greater(@, n)]
      BY <1>1, <3>1 DEF MarkLoan, Marks
    <3>. HIDE DEF low
    <3>. QED  BY <3>1, <3>2, <3>3, <3>4, <3>5, MarkedCp
  <2>4. CASE Trim(s)
    <3>1. PICK n \in 0..Len(prompt[s]) : TrimTo(s, n)
      BY <2>4 DEF Trim
    <3>2. n \in Nat
      BY LenProperties DEF Typed, TypeOK
    <3>. QED  BY <1>3, <2>1, <3>1, <3>2 DEF TrimTo, Survivors, MarksKept
  <2>5. CASE \E n \in 1..Len(history[s]) : RewindRefused(s, n)
    BY <2>5 DEF RewindRefused, MarksKept
  <2>. QED
    BY <1>3, <1>5, <2>2, <2>3, <2>4, <2>5
      DEF Enter, Start, NothingToBorrow, Join, PromptRefused, SamplerRefused, engineVars
<1>6. CASE Generate(s)
  <2>1. CASE DecodeOk(s)
    BY <1>1, <2>1, MarkedLaid DEF DecodeOk
  <2>2. CASE ShiftCells(s)
    <3>1. PICK head \in Nat, n \in Nat, cached \in Nat :
            head = cut[s].head /\ n = cut[s].n /\ cached = Len(history[s])
      BY LenProperties DEF Typed, TypeOK
    <3>2. shared[s] <= head /\ head + n <= cached
      BY <2>2, <3>1 DEF ShiftCells, Typed, EvictionPlanHolds
    <3>3. /\ kv' = SeqAdd(SeqRm(kv, s, head..(head + n - 1)),
                          s, (head + n)..(cached - 1), n)
          /\ shared' = [shared EXCEPT ![s] = Lesser(@, cached - n)]
      BY <2>2, <3>1 DEF ShiftCells, Forget
    <3>. QED  BY <1>1, <3>2, <3>3, MarkedShift
  <2>. QED
    BY <1>3, <1>6, <2>1, <2>2
      DEF Generate, Leave, DecodeNoSlot, DecodeFailed, AppendHistory, PlanEviction,
          CannotEvict, EraseHistory, Pick, Stop, engineVars
<1>. QED  BY <1>4, <1>5, <1>6 DEF Step

(* A cell two sequences hold lies below the shared prefix of both, which   *)
(* is where neither may shift: the comment in borrow_prefix() -- "neither  *)
(* may shift them" -- holds in every reachable state of every engine whose *)
(* memory can drop a tail, as long as no session is refused untouched.     *)
THEOREM SharedRegionStaysMarked ==
  ASSUME MarksKept
  PROVE  Spec => []SharedRegionMarked
<1>1. Init => SharedRegionMarked
  BY DEF Init, SharedRegionMarked
<1>2. Typed /\ SharedRegionMarked /\ [Next]_vars => SharedRegionMarked'
  <2>1. SharedRegionMarked /\ UNCHANGED vars => SharedRegionMarked'
    BY DEF SharedRegionMarked, vars
  <2>. QED  BY <2>1, MarkedStep DEF Next, Step
<1>. QED  BY <1>1, <1>2, TypedAlways, PTL DEF Spec

MarkedIfShifted == Shiftable => SharedRegionMarked

(* So it is marked wherever somebody might shift.                          *)
LEMMA MarkedWhereShifted ==
  ASSUME ShiftsSafely
  PROVE  Spec => []MarkedIfShifted
<1>1. CASE Shiftable
  <2>1. Spec => []SharedRegionMarked
    BY <1>1, SharedRegionStaysMarked DEF ShiftsSafely
  <2>2. SharedRegionMarked => MarkedIfShifted
    BY DEF MarkedIfShifted
  <2>. QED  BY <2>1, <2>2, PTL
<1>2. CASE ~Shiftable
  <2>1. MarkedIfShifted
    BY <1>2 DEF MarkedIfShifted
  <2>. QED  BY <2>1, PTL
<1>. QED  BY <1>1, <1>2

-----------------------------------------------------------------------------
(* Isolation: what the cells of one handle hold is changed by that handle  *)
(* and by nobody else, although the cells themselves are shared.           *)

RowsIn(cells, t) == {<<c.pos, c.tok>> : c \in Held(cells, t)}

(* A sequence that lets go of cells takes none from another one.           *)
LEMMA RowsRm ==
  ASSUME NEW cells, NEW s, NEW where, NEW t, t # s
  PROVE  RowsIn(SeqRm(cells, s, where), t) = RowsIn(cells, t)
<1>1. ASSUME NEW c \in Held(SeqRm(cells, s, where), t)
      PROVE  <<c.pos, c.tok>> \in RowsIn(cells, t)
  BY <1>1 DEF Held, SeqRm, Cell, RowsIn
<1>2. ASSUME NEW c \in Held(cells, t)
      PROVE  <<c.pos, c.tok>> \in RowsIn(SeqRm(cells, s, where), t)
  <2>. DEFINE rest == IF c.pos \in where THEN c.holders \ {s} ELSE c.holders
  <2>1. t \in rest
    BY DEF Held
  <2>2. Cell(c.pos, c.tok, rest) \in Held(SeqRm(cells, s, where), t)
    BY <2>1 DEF Held, SeqRm, Cell
  <2>. QED  BY <2>2 DEF RowsIn, Cell
<1>. QED  BY <1>1, <1>2 DEF RowsIn

(* Cells laid for one sequence are not another one's.                      *)
LEMMA RowsLaid ==
  ASSUME NEW cells, NEW s, NEW tokens, NEW base, NEW t, t # s
  PROVE  RowsIn(cells \cup Laid(s, tokens, base), t) = RowsIn(cells, t)
BY DEF RowsIn, Held, Laid, Cell

(* Nor does lending change what the lender, or anyone else, holds.         *)
LEMMA RowsCp ==
  ASSUME NEW cells, NEW d, NEW s, NEW n, NEW t, t # s
  PROVE  RowsIn(SeqCp(cells, d, s, n), t) = RowsIn(cells, t)
<1>1. ASSUME NEW c \in Held(SeqCp(cells, d, s, n), t)
      PROVE  <<c.pos, c.tok>> \in RowsIn(cells, t)
  BY <1>1 DEF Held, SeqCp, Cell, RowsIn
<1>2. ASSUME NEW c \in Held(cells, t)
      PROVE  <<c.pos, c.tok>> \in RowsIn(SeqCp(cells, d, s, n), t)
  <2>. DEFINE e == IF d \in c.holders /\ c.pos < n
                     THEN Cell(c.pos, c.tok, c.holders \cup {s}) ELSE c
  <2>1. e \in Held(SeqCp(cells, d, s, n), t) /\ e.pos = c.pos /\ e.tok = c.tok
    BY DEF Held, SeqCp, Cell
  <2>. QED  BY <2>1 DEF RowsIn
<1>. QED  BY <1>1, <1>2 DEF RowsIn

(* The one operation that could move a sibling's tokens moves only cells   *)
(* that no sibling holds.                                                  *)
LEMMA ShiftSpares ==
  ASSUME NEW cells \in SUBSET CellSet, NEW marks \in Marks, Marked(cells, marks),
         NEW s \in Sequences, NEW gone, NEW moved, NEW n,
         \A p \in Nat : p \in moved => marks[s] <= p,
         NEW t \in Sequences, t # s
  PROVE  Held(SeqAdd(SeqRm(cells, s, gone), s, moved, n), t)
           = Held(SeqRm(cells, s, gone), t)
<1>. DEFINE left == SeqRm(cells, s, gone)
<1>1. ASSUME NEW c \in Held(left, t)
      PROVE  ~(s \in c.holders /\ c.pos \in moved)
  <2>1. PICK d \in cells :
          c = Cell(d.pos, d.tok, IF d.pos \in gone THEN d.holders \ {s} ELSE d.holders)
    BY DEF Held, SeqRm
  <2>2. c.pos = d.pos /\ d.pos \in Nat /\ t \in d.holders
        /\ (s \in c.holders => s \in d.holders)
    BY <2>1 DEF Held, Cell, CellSet
  <2>3. s \in c.holders => d.pos < marks[s]
    BY <2>2 DEF Marked
  <2>. QED  BY <2>2, <2>3 DEF Marks
<1>. HIDE DEF left
<1>2. Held(SeqAdd(left, s, moved, n), t) = Held(left, t)
  BY <1>1 DEF Held, SeqAdd, Cell
<1>. QED  BY <1>2 DEF left

(* A context shift above the mark moves nobody else's tokens.              *)
LEMMA RowsShift ==
  ASSUME NEW cells \in SUBSET CellSet, NEW marks \in Marks, Marked(cells, marks),
         NEW s \in Sequences, NEW gone, NEW moved, NEW n,
         \A p \in Nat : p \in moved => marks[s] <= p,
         NEW t \in Sequences, t # s
  PROVE  RowsIn(SeqAdd(SeqRm(cells, s, gone), s, moved, n), t) = RowsIn(cells, t)
<1>1. RowsIn(SeqRm(cells, s, gone), t) = RowsIn(cells, t)
  BY RowsRm
<1>2. Held(SeqAdd(SeqRm(cells, s, gone), s, moved, n), t) = Held(SeqRm(cells, s, gone), t)
  BY ShiftSpares
<1>. QED  BY <1>1, <1>2 DEF RowsIn

(* So no step of a handle moves the tokens of its siblings.                *)
LEMMA RowsStep ==
  ASSUME Typed, MarkedIfShifted,
         NEW s \in Sequences, Step(s), NEW t \in Sequences, t # s
  PROVE  RowsIn(kv', t) = RowsIn(kv, t)
<1>1. /\ kv \in SUBSET CellSet
      /\ shared \in Marks
      /\ Shiftable => Marked(kv, shared)
  BY DEF Typed, TypeOK, CellSet, Marks, Marked, MarkedIfShifted, SharedRegionMarked
<1>2. CASE kv' = kv
  BY <1>2
<1>3. CASE Handle(s)
  <2>1. CASE LoadSession(s)
    <3>1. PICK saved \in Sessions : kv' = SeqRm(kv, s, Nat) \cup Laid(s, saved, 0)
      BY <2>1 DEF LoadSession
    <3>. QED  BY <3>1, RowsRm, RowsLaid
  <2>2. ASSUME kv' = SeqRm(kv, s, Nat)
        PROVE  RowsIn(kv', t) = RowsIn(kv, t)
    BY <2>2, RowsRm
  <2>. QED
    <3>1. CASE Destroy(s) \/ Reset(s) \/ LoadBroken(s)
      <4>1. kv' = SeqRm(kv, s, Nat)
        BY <3>1 DEF Destroy, Reset, LoadBroken
      <4>. QED  BY <2>2, <4>1
    <3>2. CASE Create(s) \/ LoadRefused(s)
      <4>1. kv' = kv
        BY <3>2 DEF Create, LoadRefused, engineVars
      <4>. QED  BY <1>2, <4>1
    <3>. QED  BY <1>3, <2>1, <3>1, <3>2 DEF Handle
<1>4. CASE Enter(s)
  <2>1. ASSUME NEW p \in Prompts, NEW slide \in Slides, NEW n, StartRewound(s, p, slide, n)
        PROVE  RowsIn(kv', t) = RowsIn(kv, t)
    BY <2>1, RowsRm DEF StartRewound
  <2>2. CASE Borrow(s)
    BY <2>2, RowsRm, RowsCp DEF Borrow
  <2>3. CASE Trim(s)
    BY <2>3, RowsRm DEF Trim, TrimTo
  <2>. QED
    BY <1>2, <1>4, <2>1, <2>2, <2>3
      DEF Enter, Start, RewindRefused, NothingToBorrow, Join, PromptRefused,
          SamplerRefused, engineVars
<1>5. CASE Generate(s)
  <2>1. CASE DecodeOk(s)
    BY <2>1, RowsLaid DEF DecodeOk
  <2>2. CASE ShiftCells(s)
    <3>1. PICK head \in Nat, n \in Nat, cached \in Nat :
            head = cut[s].head /\ n = cut[s].n /\ cached = Len(history[s])
      BY LenProperties DEF Typed, TypeOK
    <3>2. shared[s] <= head /\ Marked(kv, shared)
      BY <1>1, <2>2, <3>1 DEF ShiftCells, Typed, EvictionPlanHolds, ShiftsAllowed
    <3>3. PICK gone, moved :
            /\ moved = (head + n)..(cached - 1)
            /\ kv' = SeqAdd(SeqRm(kv, s, gone), s, moved, n)
      BY <2>2, <3>1 DEF ShiftCells
    <3>4. \A p \in Nat : p \in moved => shared[s] <= p
      BY <1>1, <3>2, <3>3 DEF Marks
    <3>. QED  BY <1>1, <3>2, <3>3, <3>4, RowsShift
  <2>. QED
    BY <1>2, <1>5, <2>1, <2>2
      DEF Generate, Leave, DecodeNoSlot, DecodeFailed, AppendHistory, PlanEviction,
          CannotEvict, EraseHistory, Pick, Stop, engineVars
<1>. QED  BY <1>3, <1>4, <1>5 DEF Step

(* A handle never loses, gains or finds renumbered a token because of what *)
(* a sibling did -- evicting, resetting, closing, borrowing, or loading a  *)
(* session, damaged ones included.                                         *)
THEOREM HandlesAreIsolated ==
  ASSUME ShiftsSafely
  PROVE  Spec => Isolation
<1>1. Typed /\ MarkedIfShifted /\ [Next]_vars
        => [\E s \in Sequences : \A t \in Sequences \ {s} : Rows(t)' = Rows(t)]_vars
  BY RowsStep DEF Next, Step, RowsIn, Rows
<1>. QED
  BY <1>1, TypedAlways, MarkedWhereShifted, PTL DEF Spec, Isolation

-----------------------------------------------------------------------------
(* The transcript mirrors the cache.  For each operation of the cache:     *)
(* what its own sequence spells afterwards, and that nobody else's         *)
(* spelling changes.                                                       *)

(* A sequence without cells spells the empty transcript.                   *)
LEMMA SpellsNothing ==
  ASSUME NEW cells \in SUBSET CellSet, NEW s
  PROVE  Spells(SeqRm(cells, s, Nat), s, <<>>)
<1>1. Held(SeqRm(cells, s, Nat), s) = {}
  BY DEF Held, SeqRm, Cell, CellSet
<1>2. Len(<<>>) = 0
  OBVIOUS
<1>. QED  BY <1>1, <1>2 DEF Spells

(* Trimmed to n positions, it spells the first n tokens.                   *)
LEMMA SpellsKept ==
  ASSUME NEW cells \in SUBSET CellSet, NEW s, NEW h \in Seq(Token), NEW n \in Nat,
         n <= Len(h), Spells(cells, s, h)
  PROVE  Spells(SeqRm(cells, s, From(n)), s, Keep(h, n))
<1>. DEFINE left == SeqRm(cells, s, From(n))
<1>1. \A c : c \in Held(left, s) <=> c \in Held(cells, s) /\ c.pos < n
  <2>1. ASSUME NEW c \in Held(left, s)
        PROVE  c \in Held(cells, s) /\ c.pos < n
    <3>1. PICK d \in cells :
            c = Cell(d.pos, d.tok, IF d.pos \in From(n) THEN d.holders \ {s} ELSE d.holders)
      BY DEF Held, SeqRm
    <3>2. d.pos \in Nat /\ d.pos \notin From(n) /\ s \in d.holders /\ c = d
      BY <3>1 DEF Held, Cell, CellSet
    <3>. QED  BY <3>2 DEF Held, From
  <2>2. ASSUME NEW c \in Held(cells, s), c.pos < n
        PROVE  c \in Held(left, s)
    <3>1. c \in cells /\ s \in c.holders /\ c.pos \notin From(n)
      BY <2>2 DEF Held, From, CellSet
    <3>2. c = Cell(c.pos, c.tok, c.holders)
      BY <3>1 DEF Cell, CellSet
    <3>3. c \in left
      BY <3>1, <3>2 DEF SeqRm
    <3>. QED  BY <3>1, <3>3 DEF Held
  <2>. QED  BY <2>1, <2>2
<1>2. Len(Keep(h, n)) = n /\ \A i \in 1..n : Keep(h, n)[i] = h[i]
  BY CutUpType
<1>3. ASSUME NEW c \in Held(left, s)
      PROVE  c.pos < n /\ c.tok = Keep(h, n)[c.pos + 1]
  <2>1. c \in Held(cells, s) /\ c.pos < n /\ c.pos \in Nat
    BY <1>1 DEF Held, CellSet
  <2>2. c.tok = h[c.pos + 1]
    BY <2>1 DEF Spells
  <2>. QED  BY <1>2, <2>1, <2>2
<1>4. ASSUME NEW i \in 1..n
      PROVE  \E c \in Held(left, s) : c.pos = i - 1
  <2>1. i \in 1..Len(h)
    BY LenProperties
  <2>2. PICK c \in Held(cells, s) : c.pos = i - 1
    BY <2>1 DEF Spells
  <2>. QED  BY <1>1, <2>2
<1>5. \A c, d \in Held(left, s) : c.pos = d.pos => c = d
  BY <1>1 DEF Spells
<1>. HIDE DEF left
<1>. QED  BY <1>2, <1>3, <1>4, <1>5 DEF Spells, left

(* With a chunk laid behind its cells, it spells both.                     *)
LEMMA SpellsLaid ==
  ASSUME NEW cells \in SUBSET CellSet, NEW s \in Sequences, NEW h \in Seq(Token),
         NEW w \in Seq(Token), Spells(cells, s, h)
  PROVE  Spells(cells \cup Laid(s, w, Len(h)), s, h \o w)
<1>. DEFINE more == cells \cup Laid(s, w, Len(h))
<1>1. PICK m \in Nat, k \in Nat : m = Len(h) /\ k = Len(w) /\ DOMAIN w = 1..k
  BY LenProperties
<1>2. /\ Len(h \o w) = m + k
      /\ \A i \in 1..(m + k) : (h \o w)[i] = IF i <= m THEN h[i] ELSE w[i - m]
  BY <1>1, ConcatProperties
<1>3. \A c : c \in Held(more, s) <=>
        \/ c \in Held(cells, s)
        \/ \E i \in 1..k : c = Cell(m + i - 1, w[i], {s})
  <2>1. Laid(s, w, Len(h)) = {Cell(m + i - 1, w[i], {s}) : i \in 1..k}
    BY <1>1 DEF Laid
  <2>2. \A i \in 1..k : s \in Cell(m + i - 1, w[i], {s}).holders
    BY DEF Cell
  <2>. QED  BY <2>1, <2>2 DEF Held
<1>4. ASSUME NEW c \in Held(cells, s)
      PROVE  c.pos \in Nat /\ c.pos < m /\ c.tok = h[c.pos + 1]
  BY <1>1 DEF Spells, Held, CellSet
<1>5. ASSUME NEW c \in Held(more, s)
      PROVE  c.pos < m + k /\ c.tok = (h \o w)[c.pos + 1]
  <2>1. CASE c \in Held(cells, s)
    BY <1>2, <1>4, <2>1
  <2>2. ASSUME NEW i \in 1..k, c = Cell(m + i - 1, w[i], {s})
        PROVE  c.pos < m + k /\ c.tok = (h \o w)[c.pos + 1]
    <3>1. c.pos = m + i - 1 /\ c.tok = w[i]
      BY <2>2 DEF Cell
    <3>. QED  BY <1>2, <3>1
  <2>. QED  BY <1>3, <2>1, <2>2
<1>6. ASSUME NEW i \in 1..(m + k)
      PROVE  \E c \in Held(more, s) : c.pos = i - 1
  <2>1. CASE i <= m
    <3>1. PICK c \in Held(cells, s) : c.pos = i - 1
      BY <1>1, <2>1 DEF Spells
    <3>. QED  BY <1>3, <3>1
  <2>2. CASE i > m
    <3>1. PICK j \in 1..k : m + j - 1 = i - 1
      <4>1. i - m \in 1..k /\ m + (i - m) - 1 = i - 1
        BY <2>2
      <4>. QED  BY <4>1
    <3>2. Cell(m + j - 1, w[j], {s}) \in Held(more, s)
      BY <1>3
    <3>3. Cell(m + j - 1, w[j], {s}).pos = i - 1
      BY <3>1 DEF Cell
    <3>. WITNESS Cell(m + j - 1, w[j], {s}) \in Held(more, s)
    <3>. QED  BY <3>3
  <2>3. i <= m \/ i > m
    OBVIOUS
  <2>. QED  BY <2>1, <2>2, <2>3
<1>7. ASSUME NEW c \in Held(more, s), NEW d \in Held(more, s), c.pos = d.pos
      PROVE  c = d
  <2>1. CASE c \in Held(cells, s) /\ d \in Held(cells, s)
    BY <1>7, <2>1 DEF Spells
  <2>2. ASSUME NEW i \in 1..k, c = Cell(m + i - 1, w[i], {s})
        PROVE  c = d
    <3>1. c.pos = m + i - 1 /\ c.pos >= m
      BY <2>2 DEF Cell
    <3>2. d \notin Held(cells, s)
      <4>1. ~(d.pos < m)
        BY <1>7, <3>1
      <4>. QED  BY <1>4, <4>1
    <3>3. PICK j \in 1..k : d = Cell(m + j - 1, w[j], {s})
      BY <1>3, <3>2
    <3>4. i = j
      <4>1. d.pos = m + j - 1
        BY <3>3 DEF Cell
      <4>2. m + i - 1 = m + j - 1
        BY <1>7, <3>1, <4>1
      <4>. QED  BY <4>2
    <3>. QED  BY <2>2, <3>3, <3>4
  <2>3. ASSUME NEW i \in 1..k, d = Cell(m + i - 1, w[i], {s}), c \in Held(cells, s)
        PROVE  c = d
    <3>1. d.pos = m + i - 1 /\ d.pos >= m
      BY <2>3 DEF Cell
    <3>. QED  BY <1>4, <1>7, <2>3, <3>1
  <2>. QED  BY <1>3, <2>1, <2>2, <2>3
<1>. HIDE DEF more
<1>. QED  BY <1>2, <1>5, <1>6, <1>7 DEF Spells, more

(* The borrower of n cells spells what their lender spells there.          *)
LEMMA SpellsBorrowed ==
  ASSUME NEW cells \in SUBSET CellSet, NEW s \in Sequences, NEW d \in Sequences, d # s,
         NEW h \in Seq(Token), NEW n \in Nat, n <= Len(h), Spells(cells, d, h),
         Held(cells, s) = {}
  PROVE  Spells(SeqCp(cells, d, s, n), s, Keep(h, n))
<1>. DEFINE after == SeqCp(cells, d, s, n)
<1>1. Len(Keep(h, n)) = n /\ \A i \in 1..n : Keep(h, n)[i] = h[i]
  BY CutUpType
<1>2. ASSUME NEW c \in Held(after, s)
      PROVE  \E e \in Held(cells, d) :
               e.pos \in Nat /\ e.pos < n /\ c = Cell(e.pos, e.tok, e.holders \cup {s})
  <2>1. PICK e \in cells :
          c = IF d \in e.holders /\ e.pos < n
                THEN Cell(e.pos, e.tok, e.holders \cup {s}) ELSE e
    BY DEF Held, SeqCp
  <2>2. s \notin e.holders
    BY DEF Held
  <2>. QED  BY <2>1, <2>2 DEF Held, CellSet
<1>3. ASSUME NEW c \in Held(after, s)
      PROVE  c.pos < n /\ c.tok = Keep(h, n)[c.pos + 1]
  <2>1. PICK e \in Held(cells, d) :
          e.pos \in Nat /\ e.pos < n /\ c = Cell(e.pos, e.tok, e.holders \cup {s})
    BY <1>2
  <2>2. c.pos = e.pos /\ c.tok = e.tok /\ e.tok = h[e.pos + 1]
    BY <2>1 DEF Cell, Spells
  <2>. QED  BY <1>1, <2>1, <2>2
<1>4. ASSUME NEW i \in 1..n
      PROVE  \E c \in Held(after, s) : c.pos = i - 1
  <2>1. i \in 1..Len(h)
    BY LenProperties
  <2>2. PICK e \in Held(cells, d) : e.pos = i - 1
    BY <2>1 DEF Spells
  <2>. DEFINE c == Cell(e.pos, e.tok, e.holders \cup {s})
  <2>3. c.pos = e.pos /\ s \in c.holders
    BY DEF Cell
  <2>4. e \in cells /\ d \in e.holders /\ e.pos < n
    BY <2>2 DEF Held
  <2>5. c \in after
    BY <2>4 DEF SeqCp
  <2>. QED  BY <2>2, <2>3, <2>5 DEF Held
<1>5. ASSUME NEW c \in Held(after, s), NEW f \in Held(after, s), c.pos = f.pos
      PROVE  c = f
  <2>1. PICK e \in Held(cells, d) : c = Cell(e.pos, e.tok, e.holders \cup {s})
    BY <1>2
  <2>2. PICK g \in Held(cells, d) : f = Cell(g.pos, g.tok, g.holders \cup {s})
    BY <1>2
  <2>3. e.pos = g.pos
    BY <1>5, <2>1, <2>2 DEF Cell
  <2>. QED  BY <2>1, <2>2, <2>3 DEF Spells
<1>. HIDE DEF after
<1>. QED  BY <1>1, <1>3, <1>4, <1>5 DEF Spells, after

(* The tokens of a transcript from position a on.                          *)
LEMMA RestFacts ==
  ASSUME NEW h \in Seq(Token), NEW a \in Nat, NEW b \in Nat, b = Len(h), a <= b
  PROVE  /\ SubSeq(h, a + 1, b) \in Seq(Token)
         /\ Len(SubSeq(h, a + 1, b)) = b - a
         /\ \A i \in 1..(b - a) : SubSeq(h, a + 1, b)[i] = h[i + a]
<1>1. a + 1 \in Int /\ \A i \in (a + 1)..b : h[i] \in Token
  BY ElementOfSeq
<1>2. /\ Len(SubSeq(h, a + 1, b)) = IF a + 1 <= b THEN b - (a + 1) + 1 ELSE 0
      /\ \A i \in 1..(b - (a + 1) + 1) : SubSeq(h, a + 1, b)[i] = h[(a + 1) + i - 1]
  BY <1>1, SubSeqProperties
<1>3. SubSeq(h, a + 1, b) \in Seq(Token)
  BY RestType
<1>4. Len(SubSeq(h, a + 1, b)) = b - a
  BY <1>2
<1>5. ASSUME NEW i \in 1..(b - a)
      PROVE  SubSeq(h, a + 1, b)[i] = h[i + a]
  <2>1. i \in 1..(b - (a + 1) + 1) /\ (a + 1) + i - 1 = i + a
    OBVIOUS
  <2>2. SubSeq(h, a + 1, b)[i] = h[(a + 1) + i - 1]
    BY <1>2, <2>1
  <2>. QED  BY <2>1, <2>2
<1>. QED  BY <1>3, <1>4, <1>5

(* A transcript after an eviction: shorter, and moved up behind the head.  *)
LEMMA WithoutFacts ==
  ASSUME NEW h \in Seq(Token), NEW head \in Nat, NEW n \in Nat, NEW m \in Nat,
         m = Len(h), head + n <= m
  PROVE  LET rest == Without(h, [head |-> head, n |-> n])
         IN  /\ Len(rest) = m - n
             /\ \A i \in 1..(m - n) : rest[i] = IF i <= head THEN h[i] ELSE h[i + n]
<1>. DEFINE front == SubSeq(h, 1, head)
            back  == SubSeq(h, head + n + 1, m)
<1>1. /\ front \in Seq(Token) /\ Len(front) = head
      /\ \A i \in 1..head : front[i] = h[i]
  <2>1. head <= Len(h)
    OBVIOUS
  <2>. QED  BY <2>1, CutUpType DEF Keep
<1>2. /\ back \in Seq(Token) /\ Len(back) = m - n - head
      /\ \A i \in 1..(m - n - head) : back[i] = h[i + head + n]
  <2>1. head + n \in Nat
    OBVIOUS
  <2>2. /\ SubSeq(h, (head + n) + 1, m) \in Seq(Token)
        /\ Len(SubSeq(h, (head + n) + 1, m)) = m - (head + n)
        /\ \A i \in 1..(m - (head + n)) : SubSeq(h, (head + n) + 1, m)[i] = h[i + (head + n)]
    BY <2>1, RestFacts
  <2>3. m - (head + n) = m - n - head
    OBVIOUS
  <2>4. back \in Seq(Token) /\ Len(back) = m - n - head
    BY <2>2, <2>3
  <2>5. ASSUME NEW i \in 1..(m - n - head)
        PROVE  back[i] = h[i + head + n]
    <3>1. i + (head + n) = i + head + n
      OBVIOUS
    <3>2. back[i] = h[i + (head + n)]
      BY <2>2, <2>3
    <3>. QED  BY <3>1, <3>2
  <2>. QED  BY <2>4, <2>5
<1>3. Without(h, [head |-> head, n |-> n]) = front \o back
  BY DEF Without
<1>. HIDE DEF front, back
<1>4. /\ Len(front \o back) = m - n
      /\ \A i \in 1..(m - n) : (front \o back)[i] = IF i <= head THEN front[i] ELSE back[i - head]
  <2>1. PICK k \in Nat : k = m - n - head
    <3>1. m - n - head \in Nat
      OBVIOUS
    <3>. QED  BY <3>1
  <2>2. Len(front) = head /\ Len(back) = k
    BY <1>1, <1>2, <2>1
  <2>3. /\ Len(front \o back) = head + k
        /\ \A i \in 1..(head + k) :
             (front \o back)[i] = IF i <= head THEN front[i] ELSE back[i - head]
    <3>1. /\ Len(front \o back) = Len(front) + Len(back)
          /\ \A i \in 1..(Len(front) + Len(back)) : (front \o back)[i] =
               IF i <= Len(front) THEN front[i] ELSE back[i - Len(front)]
      <4>1. front \in Seq(Token) /\ back \in Seq(Token)
        BY <1>1, <1>2
      <4>. QED  BY <4>1, ConcatProperties
    <3>. QED  BY <2>2, <3>1
  <2>4. head + k = m - n
    BY <2>1
  <2>. QED  BY <2>3, <2>4
<1>5. ASSUME NEW i \in 1..(m - n)
      PROVE  (front \o back)[i] = IF i <= head THEN h[i] ELSE h[i + n]
  <2>1. CASE i <= head
    BY <1>1, <1>4, <2>1
  <2>2. CASE i > head
    <3>1. i - head \in 1..(m - n - head) /\ (i - head) + head + n = i + n
      BY <2>2
    <3>2. back[i - head] = h[(i - head) + head + n]
      BY <1>2, <3>1
    <3>3. (front \o back)[i] = back[i - head]
      BY <1>4, <2>2
    <3>4. back[i - head] = h[i + n]
      BY <3>1, <3>2
    <3>. QED  BY <2>2, <3>3, <3>4
  <2>3. i <= head \/ i > head
    OBVIOUS
  <2>. QED  BY <2>1, <2>2, <2>3
<1>. QED  BY <1>3, <1>4, <1>5

(* A shift of its own cells: what was beyond the gap follows the head.     *)
LEMMA SpellsShifted ==
  ASSUME NEW cells \in SUBSET CellSet, NEW s, NEW h \in Seq(Token),
         NEW head \in Nat, NEW n \in Nat, NEW m \in Nat, m = Len(h), head + n <= m,
         Spells(cells, s, h)
  PROVE  Spells(SeqAdd(SeqRm(cells, s, head..(head + n - 1)),
                       s, (head + n)..(m - 1), n),
                s, Without(h, [head |-> head, n |-> n]))
<1>. DEFINE gone  == head..(head + n - 1)
            left  == SeqRm(cells, s, gone)
            after == SeqAdd(left, s, (head + n)..(m - 1), n)
            rest  == Without(h, [head |-> head, n |-> n])
            Moved(e) == IF e.pos < head THEN e ELSE Cell(e.pos - n, e.tok, e.holders)
<1>1. /\ Len(rest) = m - n
      /\ \A i \in 1..(m - n) : rest[i] = IF i <= head THEN h[i] ELSE h[i + n]
  BY ONLY WithoutFacts, h \in Seq(Token), head \in Nat, n \in Nat, m \in Nat,
          m = Len(h), head + n <= m
<1>. HIDE DEF rest
<1>2. ASSUME NEW e \in Held(cells, s)
      PROVE  /\ e.pos \in Nat /\ e.pos < m /\ e.tok = h[e.pos + 1]
             /\ e = Cell(e.pos, e.tok, e.holders)
  BY DEF Spells, Held, CellSet, Cell
<1>3. ASSUME NEW c
      PROVE  c \in Held(left, s) <=> c \in Held(cells, s) /\ c.pos \notin gone
  <2>1. ASSUME c \in Held(left, s)
        PROVE  c \in Held(cells, s) /\ c.pos \notin gone
    <3>1. PICK d \in cells :
            c = Cell(d.pos, d.tok, IF d.pos \in gone THEN d.holders \ {s} ELSE d.holders)
      BY <2>1 DEF Held, SeqRm
    <3>2. d.pos \notin gone /\ s \in d.holders /\ c = d
      BY <2>1, <3>1 DEF Held, Cell, CellSet
    <3>. QED  BY <3>2 DEF Held
  <2>2. ASSUME c \in Held(cells, s), c.pos \notin gone
        PROVE  c \in Held(left, s)
    <3>1. c \in cells /\ s \in c.holders /\ c = Cell(c.pos, c.tok, c.holders)
      BY <1>2, <2>2 DEF Held
    <3>. HIDE DEF gone
    <3>2. c \in left
      BY <2>2, <3>1 DEF SeqRm
    <3>. QED  BY <3>1, <3>2 DEF Held
  <2>. QED  BY <2>1, <2>2
<1>4. ASSUME NEW c
      PROVE  c \in Held(after, s) <=>
               \E e \in Held(cells, s) : e.pos \notin gone /\ c = Moved(e)
  <2>1. ASSUME NEW e \in Held(left, s)
        PROVE  (IF s \in e.holders /\ e.pos \in (head + n)..(m - 1)
                 THEN Cell(e.pos - n, e.tok, e.holders) ELSE e) = Moved(e)
    <3>1. s \in e.holders /\ e.pos \in Nat /\ e.pos < m /\ e.pos \notin gone
      BY <1>2, <1>3 DEF Held
    <3>. QED  BY <3>1
  <2>2. \A e : s \in Moved(e).holders <=> s \in e.holders
    BY DEF Cell
  <2>. HIDE DEF left, gone, Moved
  <2>3. ASSUME c \in Held(after, s)
        PROVE  \E e \in Held(cells, s) : e.pos \notin gone /\ c = Moved(e)
    <3>1. PICK e \in left :
            c = IF s \in e.holders /\ e.pos \in (head + n)..(m - 1)
                  THEN Cell(e.pos - n, e.tok, e.holders) ELSE e
      BY <2>3 DEF Held, SeqAdd
    <3>2. e \in Held(left, s)
      BY <2>3, <3>1 DEF Held, Cell
    <3>. QED  BY <1>3, <2>1, <3>1, <3>2
  <2>4. ASSUME NEW e \in Held(cells, s), e.pos \notin gone, c = Moved(e)
        PROVE  c \in Held(after, s)
    <3>1. e \in Held(left, s)
      BY <1>3, <2>4
    <3>2. c \in after
      BY <2>1, <2>4, <3>1 DEF Held, SeqAdd
    <3>. QED  BY <2>2, <2>4, <3>1, <3>2 DEF Held
  <2>. QED  BY <2>3, <2>4
<1>5. ASSUME NEW c \in Held(after, s)
      PROVE  c.pos < m - n /\ c.tok = rest[c.pos + 1]
  <2>1. PICK e \in Held(cells, s) : e.pos \notin gone /\ c = Moved(e)
    BY <1>4
  <2>2. CASE e.pos < head
    <3>1. c = e /\ e.pos \in Nat /\ e.tok = h[e.pos + 1]
      BY <1>2, <2>1, <2>2
    <3>2. e.pos + 1 \in 1..(m - n) /\ e.pos + 1 <= head
      BY <2>2, <3>1
    <3>. QED  BY <1>1, <3>1, <3>2
  <2>3. CASE ~(e.pos < head)
    <3>1. e.pos >= head + n /\ c.pos = e.pos - n /\ c.tok = e.tok
      BY <1>2, <2>1, <2>3 DEF Cell
    <3>2. c.pos + 1 \in 1..(m - n) /\ ~(c.pos + 1 <= head) /\ c.pos + 1 + n = e.pos + 1
      BY <1>2, <3>1
    <3>3. rest[c.pos + 1] = h[c.pos + 1 + n]
      BY <1>1, <3>2
    <3>4. e.tok = h[e.pos + 1] /\ c.pos < m - n
      BY <1>2, <3>1
    <3>. QED  BY <3>1, <3>2, <3>3, <3>4
  <2>. QED  BY <2>2, <2>3
<1>6. ASSUME NEW i \in 1..(m - n)
      PROVE  \E c \in Held(after, s) : c.pos = i - 1
  <2>1. CASE i <= head
    <3>1. PICK e \in Held(cells, s) : e.pos = i - 1
      BY <2>1 DEF Spells
    <3>2. e.pos \notin gone /\ Moved(e) = e
      BY <2>1, <3>1
    <3>. QED  BY <1>4, <3>1, <3>2
  <2>2. CASE i > head
    <3>1. i + n \in 1..Len(h)
      OBVIOUS
    <3>2. PICK e \in Held(cells, s) : e.pos = i + n - 1
      BY <3>1 DEF Spells
    <3>3. e.pos \notin gone /\ Moved(e).pos = i - 1
      BY <2>2, <3>2 DEF Cell
    <3>. QED  BY <1>4, <3>3
  <2>. QED  BY <2>1, <2>2
<1>7. ASSUME NEW c \in Held(after, s), NEW d \in Held(after, s), c.pos = d.pos
      PROVE  c = d
  <2>1. PICK e \in Held(cells, s) : e.pos \notin gone /\ c = Moved(e)
    BY <1>4
  <2>2. PICK f \in Held(cells, s) : f.pos \notin gone /\ d = Moved(f)
    BY <1>4
  <2>3. e.pos = f.pos
    BY <1>2, <1>7, <2>1, <2>2 DEF Cell
  <2>4. e = f
    BY <2>3 DEF Spells
  <2>. QED  BY <2>1, <2>2, <2>4
<1>. HIDE DEF after
<1>. QED  BY <1>1, <1>5, <1>6, <1>7 DEF Spells, after, rest

(* The siblings go on spelling what they spelled.                          *)
LEMMA OthersRm ==
  ASSUME NEW cells \in SUBSET CellSet, NEW s, NEW where, NEW t, t # s, NEW h,
         Spells(cells, t, h)
  PROVE  Spells(SeqRm(cells, s, where), t, h)
<1>. DEFINE after == SeqRm(cells, s, where)
            Rest(e) == Cell(e.pos, e.tok, IF e.pos \in where THEN e.holders \ {s} ELSE e.holders)
<1>1. ASSUME NEW c \in Held(after, t)
      PROVE  \E e \in Held(cells, t) : c = Rest(e)
  BY DEF Held, SeqRm, Cell
<1>2. ASSUME NEW e \in Held(cells, t)
      PROVE  Rest(e) \in Held(after, t)
  BY DEF Held, SeqRm, Cell
<1>3. \A e : Rest(e).pos = e.pos /\ Rest(e).tok = e.tok
  BY DEF Cell
<1>. HIDE DEF after, Rest
<1>. QED  BY <1>1, <1>2, <1>3 DEF Spells, after

(* A chunk of one sequence leaves the spelling of the others alone.        *)
LEMMA OthersLaid ==
  ASSUME NEW cells, NEW s, NEW tokens, NEW base, NEW t, t # s, NEW h,
         Spells(cells, t, h)
  PROVE  Spells(cells \cup Laid(s, tokens, base), t, h)
<1>1. Held(cells \cup Laid(s, tokens, base), t) = Held(cells, t)
  BY DEF Held, Laid, Cell
<1>. QED  BY <1>1 DEF Spells

(* So does a loan, whoever the lender is.                                  *)
LEMMA OthersCp ==
  ASSUME NEW cells, NEW d, NEW s, NEW n, NEW t, t # s, NEW h,
         Spells(cells, t, h)
  PROVE  Spells(SeqCp(cells, d, s, n), t, h)
<1>. DEFINE after == SeqCp(cells, d, s, n)
            More(e) == IF d \in e.holders /\ e.pos < n
                         THEN Cell(e.pos, e.tok, e.holders \cup {s}) ELSE e
<1>1. ASSUME NEW c \in Held(after, t)
      PROVE  \E e \in Held(cells, t) : c = More(e)
  BY DEF Held, SeqCp, Cell
<1>2. ASSUME NEW e \in Held(cells, t)
      PROVE  More(e) \in Held(after, t)
  BY DEF Held, SeqCp, Cell
<1>3. \A e : More(e).pos = e.pos /\ More(e).tok = e.tok
  BY DEF Cell
<1>. HIDE DEF after, More
<1>. QED  BY <1>1, <1>2, <1>3 DEF Spells, after

(* And a context shift above the mark.                                     *)
LEMMA OthersShift ==
  ASSUME NEW cells \in SUBSET CellSet, NEW marks \in Marks, Marked(cells, marks),
         NEW s \in Sequences, NEW gone, NEW moved, NEW n,
         \A p \in Nat : p \in moved => marks[s] <= p,
         NEW t \in Sequences, t # s, NEW h, Spells(cells, t, h)
  PROVE  Spells(SeqAdd(SeqRm(cells, s, gone), s, moved, n), t, h)
<1>1. Spells(SeqRm(cells, s, gone), t, h)
  BY OthersRm
<1>2. Held(SeqAdd(SeqRm(cells, s, gone), s, moved, n), t) = Held(SeqRm(cells, s, gone), t)
  BY ShiftSpares
<1>. QED  BY <1>1, <1>2 DEF Spells

(* Whatever one handle does, its siblings' cells spell the same tokens.    *)
LEMMA OthersMirror ==
  ASSUME Typed, MarkedIfShifted,
         NEW s \in Sequences, Step(s), NEW t \in Sequences, t # s,
         NEW h, Spells(kv, t, h)
  PROVE  Spells(kv', t, h)
<1>1. /\ kv \in SUBSET CellSet
      /\ shared \in Marks
      /\ Shiftable => Marked(kv, shared)
  BY DEF Typed, TypeOK, CellSet, Marks, Marked, MarkedIfShifted, SharedRegionMarked
<1>2. ASSUME kv' = kv
      PROVE  Spells(kv', t, h)
  BY <1>2
<1>3. ASSUME NEW where, kv' = SeqRm(kv, s, where)
      PROVE  Spells(kv', t, h)
  BY <1>1, <1>3, OthersRm
<1>4. CASE Handle(s)
  <2>1. CASE LoadSession(s)
    <3>1. PICK saved \in Sessions : kv' = SeqRm(kv, s, Nat) \cup Laid(s, saved, 0)
      BY <2>1 DEF LoadSession
    <3>2. Spells(SeqRm(kv, s, Nat), t, h)
      BY <1>1, OthersRm
    <3>. QED  BY <3>1, <3>2, OthersLaid
  <2>2. CASE Destroy(s) \/ Reset(s) \/ LoadBroken(s)
    <3>1. kv' = SeqRm(kv, s, Nat)
      BY <2>2 DEF Destroy, Reset, LoadBroken
    <3>. QED  BY <1>3, <3>1
  <2>3. CASE Create(s) \/ LoadRefused(s)
    BY <1>2, <2>3 DEF Create, LoadRefused, engineVars
  <2>. QED  BY <1>4, <2>1, <2>2, <2>3 DEF Handle
<1>5. CASE Enter(s)
  <2>1. ASSUME NEW p \in Prompts, NEW slide \in Slides, NEW n, StartRewound(s, p, slide, n)
        PROVE  Spells(kv', t, h)
    BY <1>2, <1>3, <2>1 DEF StartRewound
  <2>2. CASE Borrow(s)
    <3>1. PICK d, n : kv' = SeqCp(SeqRm(kv, s, Nat), d, s, n)
      BY <2>2 DEF Borrow
    <3>2. Spells(SeqRm(kv, s, Nat), t, h)
      BY <1>1, OthersRm
    <3>. QED  BY <3>1, <3>2, OthersCp
  <2>3. CASE Trim(s)
    BY <1>2, <1>3, <2>3 DEF Trim, TrimTo
  <2>. QED
    BY <1>2, <1>5, <2>1, <2>2, <2>3
      DEF Enter, Start, RewindRefused, NothingToBorrow, Join, PromptRefused,
          SamplerRefused, engineVars
<1>6. CASE Generate(s)
  <2>1. CASE DecodeOk(s)
    BY <2>1, OthersLaid DEF DecodeOk
  <2>2. CASE ShiftCells(s)
    <3>1. PICK head \in Nat, n \in Nat, cached \in Nat :
            head = cut[s].head /\ n = cut[s].n /\ cached = Len(history[s])
      BY LenProperties DEF Typed, TypeOK
    <3>2. shared[s] <= head /\ Marked(kv, shared)
      BY <1>1, <2>2, <3>1 DEF ShiftCells, Typed, EvictionPlanHolds, ShiftsAllowed
    <3>3. PICK gone, moved :
            /\ moved = (head + n)..(cached - 1)
            /\ kv' = SeqAdd(SeqRm(kv, s, gone), s, moved, n)
      BY <2>2, <3>1 DEF ShiftCells
    <3>4. \A p \in Nat : p \in moved => shared[s] <= p
      BY <1>1, <3>2, <3>3 DEF Marks
    <3>. QED  BY <1>1, <3>2, <3>3, <3>4, OthersShift
  <2>. QED
    BY <1>2, <1>6, <2>1, <2>2
      DEF Generate, Leave, DecodeNoSlot, DecodeFailed, AppendHistory, PlanEviction,
          CannotEvict, EraseHistory, Pick, Stop, engineVars
<1>. QED  BY <1>4, <1>5, <1>6 DEF Step

(* And its own cells spell its transcript, or what its thread is about     *)
(* to write into it.                                                       *)
LEMMA OwnMirror ==
  ASSUME LoadsWhole, Typed, HistoryMirrorsKV, NEW s \in Sequences, Step(s)
  PROVE  Spells(kv', s, Transcript(s)')
<1>1. /\ kv \in SUBSET CellSet
      /\ history[s] \in Seq(Token)
      /\ prompt[s] \in Seq(Token)
      /\ Len(history[s]) \in Nat /\ Len(prompt[s]) \in Nat
      /\ Spells(kv, s, Transcript(s))
  BY LenProperties DEF Typed, TypeOK, CellSet, HistoryMirrorsKV
<1>2. Spells(SeqRm(kv, s, Nat), s, <<>>)
  BY <1>1, SpellsNothing
<1>3. ASSUME phase[s] \notin {"append", "erase"}
      PROVE  Spells(kv, s, history[s])
  BY <1>1, <1>3 DEF Transcript
<1>4. ASSUME phase'[s] \notin {"append", "erase"}, Spells(kv', s, history'[s])
      PROVE  Spells(kv', s, Transcript(s)')
  BY <1>4 DEF Transcript
<1>5. ASSUME NEW n \in Nat, n <= Len(history[s]), phase[s] \notin {"append", "erase"}
      PROVE  Spells(SeqRm(kv, s, From(n)), s, Keep(history[s], n))
  BY <1>1, <1>3, <1>5, SpellsKept
<1>6. ASSUME phase[s] \notin {"append", "erase"}, phase'[s] \notin {"append", "erase"},
             kv' = kv, history'[s] = history[s]
      PROVE  Spells(kv', s, Transcript(s)')
  BY <1>3, <1>4, <1>6
<1>7. CASE Handle(s)
  <2>1. CASE Create(s)
    BY <1>6, <2>1 DEF Create, Goto, engineVars, Typed, TypeOK
  <2>2. CASE Destroy(s) \/ Reset(s)
    <3>1. kv' = SeqRm(kv, s, Nat) /\ history'[s] = <<>> /\ phase'[s] \in {"idle", "closed"}
      BY <2>2 DEF Destroy, Reset, Goto, Typed, TypeOK
    <3>. QED  BY <1>2, <1>4, <3>1
  <2>3. CASE LoadSession(s)
    <3>1. PICK saved \in Sessions : /\ kv' = SeqRm(kv, s, Nat) \cup Laid(s, saved, 0)
                                    /\ history' = [history EXCEPT ![s] = saved]
      BY <2>3 DEF LoadSession
    <3>2. saved \in Seq(Token) /\ <<>> \in Seq(Token) /\ Len(<<>>) = 0 /\ <<>> \o saved = saved
      BY CacheAssumption, EmptySeq, ConcatEmptySeq
    <3>3. SeqRm(kv, s, Nat) \in SUBSET CellSet
      BY <1>1, SeqRmType
    <3>4. Spells(SeqRm(kv, s, Nat) \cup Laid(s, saved, 0), s, saved)
      <4>1. Spells(SeqRm(kv, s, Nat) \cup Laid(s, saved, Len(<<>>)), s, <<>> \o saved)
        BY <1>2, <3>2, <3>3, SpellsLaid
      <4>. QED  BY <3>2, <4>1
    <3>. QED  BY <1>4, <2>3, <3>1, <3>4 DEF LoadSession, Typed, TypeOK
  <2>4. CASE LoadRefused(s)
    BY <1>6, <2>4 DEF LoadRefused
  <2>. QED  BY <1>7, <2>1, <2>2, <2>3, <2>4 DEF Handle, LoadBroken, LoadsWhole
<1>8. CASE Enter(s)
  <2>1. ASSUME NEW p \in Prompts, NEW slide \in Slides, Start(s, p, slide)
        PROVE  Spells(kv', s, Transcript(s)')
    BY <1>6, <2>1 DEF Start, Goto, engineVars, Typed, TypeOK
  <2>2. ASSUME NEW p \in Prompts, NEW slide \in Slides,
               NEW n \in 1..Len(history[s]), StartRewound(s, p, slide, n)
        PROVE  Spells(kv', s, Transcript(s)')
    <3>1. n \in Nat /\ n <= Len(history[s])
      BY <1>1
    <3>2. phase[s] = "idle" /\ phase'[s] = "trim"
      BY <2>2 DEF StartRewound, Goto, Typed, TypeOK
    <3>3. CASE n < Len(history[s])
      <4>1. kv' = SeqRm(kv, s, From(n)) /\ history'[s] = Keep(history[s], n)
        BY <2>2, <3>3 DEF StartRewound, Typed, TypeOK
      <4>. QED  BY <1>4, <1>5, <3>1, <3>2, <4>1
    <3>4. CASE ~(n < Len(history[s]))
      BY <1>6, <2>2, <3>2, <3>4 DEF StartRewound
    <3>. QED  BY <3>3, <3>4
  <2>3. CASE \E n \in 1..Len(history[s]) : RewindRefused(s, n)
    BY <1>6, <2>3 DEF RewindRefused
  <2>4. CASE Borrow(s)
    <3>1. PICK d \in Sequences, n \in Nat, already \in Nat :
            /\ Donor(s, d, n, already)
            /\ kv' = SeqCp(SeqRm(kv, s, Nat), d, s, n)
            /\ history' = [history EXCEPT ![s] = Keep(prompt[s], n)]
      <4>1. \A m \in 0..Len(prompt[s]) : m \in Nat
        BY <1>1
      <4>. QED  BY <2>4, <4>1 DEF Borrow
    <3>2. d # s /\ ~generating[d] /\ IsReusable(n, history[d], prompt[s])
      BY <3>1 DEF Donor, MayLend
    <3>3. history[d] \in Seq(Token) /\ Len(history[d]) \in Nat
      BY LenProperties DEF Typed, TypeOK
    <3>4. n <= Len(history[d]) /\ n <= Len(prompt[s])
      BY <1>1, <3>2, <3>3 DEF IsReusable, Lesser
    <3>5. Spells(kv, d, history[d])
      <4>1. phase[d] \notin {"append", "erase"}
        BY <3>2 DEF Typed, GeneratingInStep, InGeneration
      <4>. QED  BY <4>1 DEF HistoryMirrorsKV, Transcript
    <3>6. Spells(SeqRm(kv, s, Nat), d, history[d])
      BY <1>1, <3>2, <3>5, OthersRm
    <3>7. Held(SeqRm(kv, s, Nat), s) = {} /\ SeqRm(kv, s, Nat) \in SUBSET CellSet
      BY <1>1, SeqRmType DEF Held, SeqRm, Cell, CellSet
    <3>8. Spells(kv', s, Keep(history[d], n))
      BY <3>1, <3>2, <3>3, <3>4, <3>6, <3>7, SpellsBorrowed
    <3>9. Keep(history[d], n) = Keep(prompt[s], n)
      <4>1. \A i \in 1..n : history[d][i] = prompt[s][i]
        BY <3>2 DEF IsReusable
      <4>2. /\ Keep(history[d], n) \in Seq(Token) /\ Len(Keep(history[d], n)) = n
            /\ \A i \in 1..n : Keep(history[d], n)[i] = history[d][i]
        BY <3>3, <3>4, CutUpType
      <4>3. /\ Keep(prompt[s], n) \in Seq(Token) /\ Len(Keep(prompt[s], n)) = n
            /\ \A i \in 1..n : Keep(prompt[s], n)[i] = prompt[s][i]
        BY <1>1, <3>4, CutUpType
      <4>. QED  BY <4>1, <4>2, <4>3, SeqEqual
    <3>10. history'[s] = Keep(prompt[s], n) /\ phase'[s] = "trim"
      BY <2>4, <3>1 DEF Borrow, Goto, Typed, TypeOK
    <3>. QED  BY <1>4, <3>8, <3>9, <3>10
  <2>5. CASE NothingToBorrow(s)
    BY <1>6, <2>5 DEF NothingToBorrow, Goto, engineVars, Typed, TypeOK
  <2>6. CASE Trim(s)
    <3>1. PICK n \in Nat : TrimTo(s, n)
      <4>1. \A m \in 0..Len(prompt[s]) : m \in Nat
        BY <1>1
      <4>. QED  BY <2>6, <4>1 DEF Trim
    <3>2. phase[s] = "trim" /\ phase'[s] \in {"idle", "join"}
      BY <2>6 DEF Trim, Goto, Typed, TypeOK
    <3>3. CASE n < Len(history[s])
      <4>1. Survivors(n) \in Nat /\ Survivors(n) <= Len(history[s])
        BY <1>1, <3>3 DEF Survivors
      <4>2. /\ kv' = SeqRm(kv, s, From(Survivors(n)))
            /\ history'[s] = Keep(history[s], Survivors(n))
        BY <3>1, <3>3 DEF TrimTo, KeptTranscript, Typed, TypeOK
      <4>. QED  BY <1>4, <1>5, <3>2, <4>1, <4>2
    <3>4. CASE ~(n < Len(history[s]))
      BY <1>6, <3>1, <3>2, <3>4 DEF TrimTo
    <3>. QED  BY <3>3, <3>4
  <2>7. CASE Join(s)
    BY <1>6, <2>7 DEF Join, Goto, Typed, TypeOK
  <2>8. CASE PromptRefused(s)
    BY <1>6, <2>8 DEF PromptRefused, Goto, engineVars, Typed, TypeOK
  <2>9. CASE SamplerRefused(s)
    BY <1>6, <2>9 DEF SamplerRefused, Goto, engineVars, Typed, TypeOK
  <2>. QED  BY <1>8, <2>1, <2>2, <2>3, <2>4, <2>5, <2>6, <2>7, <2>8, <2>9 DEF Enter
<1>9. CASE Generate(s)
  <2>1. ASSUME Leave(s), phase[s] \notin {"append", "erase"}
        PROVE  Spells(kv', s, Transcript(s)')
    BY <1>6, <2>1 DEF Leave, Goto, Typed, TypeOK
  <2>2. CASE DecodeOk(s)
    <3>1. Chunk(s) \in Seq(Token) /\ Spells(kv, s, history[s])
      BY <1>3, <2>2, ChunkType DEF DecodeOk, Typed
    <3>2. Spells(kv', s, history[s] \o Chunk(s))
      BY <1>1, <2>2, <3>1, SpellsLaid DEF DecodeOk
    <3>3. Transcript(s)' = history[s] \o Chunk(s)
      BY <2>2 DEF DecodeOk, Transcript, Chunk, Goto, callVars, Typed, TypeOK
    <3>. QED  BY <3>2, <3>3
  <2>3. CASE DecodeNoSlot(s)
    BY <1>6, <2>3 DEF DecodeNoSlot, Goto, engineVars, Typed, TypeOK
  <2>4. CASE DecodeFailed(s)
    BY <2>1, <2>4 DEF DecodeFailed
  <2>5. CASE AppendHistory(s)
    <3>1. Spells(kv, s, history[s] \o Chunk(s))
      BY <1>1, <2>5 DEF AppendHistory, Transcript
    <3>2. kv' = kv /\ history'[s] = history[s] \o Chunk(s) /\ phase'[s] \in {"sample", "decode"}
      BY <2>5 DEF AppendHistory, Goto, engineVars, Typed, TypeOK
    <3>. QED  BY <1>4, <3>1, <3>2
  <2>6. CASE PlanEviction(s)
    BY <1>6, <2>6 DEF PlanEviction, WantsSpace, Full, Goto, engineVars, Typed, TypeOK
  <2>7. CASE CannotEvict(s)
    BY <2>1, <2>7 DEF CannotEvict, WantsSpace, Full
  <2>8. CASE ShiftCells(s)
    <3>1. PICK head \in Nat, n \in Nat, cached \in Nat :
            /\ cut[s] = [head |-> head, n |-> n]
            /\ cached = Len(history[s])
      BY LenProperties DEF Typed, TypeOK
    <3>2. head + n <= cached
      BY <2>8, <3>1 DEF ShiftCells, Typed, EvictionPlanHolds
    <3>3. kv' = SeqAdd(SeqRm(kv, s, head..(head + n - 1)),
                       s, (head + n)..(cached - 1), n)
      BY <2>8, <3>1 DEF ShiftCells
    <3>4. Spells(kv, s, history[s])
      BY <1>3, <2>8 DEF ShiftCells
    <3>5. Spells(kv', s, Without(history[s], cut[s]))
      BY <1>1, <3>1, <3>2, <3>3, <3>4, SpellsShifted
    <3>6. Transcript(s)' = Without(history[s], cut[s])
      BY <2>8 DEF ShiftCells, Transcript, Goto, callVars, Typed, TypeOK
    <3>. QED  BY <3>5, <3>6
  <2>9. CASE EraseHistory(s)
    <3>1. Spells(kv, s, Without(history[s], cut[s]))
      BY <1>1, <2>9 DEF EraseHistory, Transcript
    <3>2. /\ kv' = kv
          /\ history'[s] = Without(history[s], cut[s])
          /\ phase'[s] \in {"pick", "decode"}
      BY <2>9 DEF EraseHistory, Goto, engineVars, Typed, TypeOK
    <3>. QED  BY <1>4, <3>1, <3>2
  <2>10. ASSUME NEW t \in Sampled, Pick(s, t)
         PROVE  Spells(kv', s, Transcript(s)')
    BY <1>6, <2>10 DEF Pick, HasRoom, Goto, engineVars, Typed, TypeOK
  <2>11. CASE Stop(s)
    BY <2>1, <2>11 DEF Stop
  <2>. QED
    BY <1>9, <2>2, <2>3, <2>4, <2>5, <2>6, <2>7, <2>8, <2>9, <2>10, <2>11 DEF Generate
<1>. QED  BY <1>7, <1>8, <1>9 DEF Step

(* Hence every step keeps the transcripts true to the cache.               *)
LEMMA MirrorStep ==
  ASSUME LoadsWhole, Typed, MarkedIfShifted, HistoryMirrorsKV, [Next]_vars
  PROVE  HistoryMirrorsKV'
<1>1. CASE UNCHANGED vars
  BY <1>1 DEF vars, HistoryMirrorsKV, Transcript, Chunk
<1>2. ASSUME NEW s \in Sequences, Step(s), NEW t \in Sequences
      PROVE  Spells(kv', t, Transcript(t)')
  <2>1. CASE t = s
    BY <1>2, <2>1, OwnMirror
  <2>2. CASE t # s
    <3>1. Transcript(t)' = Transcript(t)
      <4>1. /\ phase'[t] = phase[t] /\ cut'[t] = cut[t]
            /\ history'[t] = history[t] /\ todo'[t] = todo[t]
        BY <1>2, <2>2, SiblingsKeep
      <4>. QED  BY <4>1 DEF Transcript, Chunk
    <3>2. Spells(kv, t, Transcript(t))
      BY DEF HistoryMirrorsKV
    <3>3. Spells(kv', t, Transcript(t))
      BY <1>2, <2>2, <3>2, OthersMirror
    <3>. QED  BY <3>1, <3>3
  <2>. QED  BY <2>1, <2>2
<1>. QED  BY <1>1, <1>2 DEF Next, Step, HistoryMirrorsKV

(* history_ mirrors the KV contents at all times, as the comment in        *)
(* decode() demands -- through borrowing, trimming, context shifts by any  *)
(* sibling, refused decodes and loads, and everything in between.          *)
THEOREM TranscriptMirrorsCache ==
  ASSUME ShiftsSafely, LoadsWhole
  PROVE  Spec => []HistoryMirrorsKV
<1>1. Init => HistoryMirrorsKV
  <2>1. Len(<<>>) = 0
    OBVIOUS
  <2>. QED  BY <2>1 DEF Init, HistoryMirrorsKV, Spells, Held, Transcript
<1>2. Typed /\ MarkedIfShifted /\ HistoryMirrorsKV /\ [Next]_vars => HistoryMirrorsKV'
  BY MirrorStep
<1>. QED  BY <1>1, <1>2, TypedAlways, MarkedWhereShifted, PTL DEF Spec

-----------------------------------------------------------------------------
(* What a generation is conditioned on.  Before join() the transcript and  *)
(* the tokens to be submitted make up the prompt; afterwards only tokens   *)
(* of the reply are added, unless a window slides.                         *)

(* The prompt of s is where its transcript, continued by what is still to  *)
(* be decoded, starts.                                                     *)
PromptFirst(s) ==
  LET all == history[s] \o todo[s] IN
  /\ Len(prompt[s]) <= Len(all)
  /\ \A i \in 1..Len(prompt[s]) : all[i] = prompt[s][i]

Conditioned ==
  \A s \in Sequences :
    /\ phase[s] \in {"shift", "erase"} => sliding[s]
    /\ phase[s] \in {"sample", "pick"} => todo[s] = <<>>
    /\ (phase[s] = "join" \/ (generating[s] /\ ~sliding[s])) => PromptFirst(s)

(* A sequence is made up of a beginning of it and the rest.                *)
LEMMA SplitIsWhole ==
  ASSUME NEW h \in Seq(Token), NEW n \in Nat, n <= Len(h)
  PROVE  SubSeq(h, 1, n) \o SubSeq(h, n + 1, Len(h)) = h
<1>1. Len(h) \in Nat
  BY LenProperties
<1>2. 1 \in 1..(Len(h) + 1) /\ n \in (1 - 1)..Len(h) /\ Len(h) \in n..Len(h)
  BY <1>1
<1>3. SubSeq(h, 1, n) \o SubSeq(h, n + 1, Len(h)) = SubSeq(h, 1, Len(h))
  BY <1>2, ConcatAdjacentSubSeq
<1>. QED  BY <1>3, SubSeqFull

(* Joining transcripts is associative.                                     *)
LEMMA JoinAssociative ==
  \A f, g, h \in Seq(Token) : (f \o g) \o h = f \o (g \o h)
BY ConcatAssociative

(* A chunk and what comes after it are what was submitted.                 *)
LEMMA ChunkAndRest ==
  ASSUME TypeOK, NEW s \in Sequences
  PROVE  Chunk(s) \o Afterwards(s) = todo[s]
<1>1. todo[s] \in Seq(Token) /\ Len(todo[s]) \in Nat
  BY LenProperties DEF TypeOK
<1>2. PICK n \in Nat : n = Lesser(ChunkLimit, Len(todo[s])) /\ n <= Len(todo[s])
  BY <1>1, CacheAssumption DEF Lesser
<1>3. Chunk(s) = SubSeq(todo[s], 1, n) /\ Len(Chunk(s)) = n
  BY <1>1, <1>2, CutUpType DEF Chunk, Keep
<1>. QED  BY <1>1, <1>2, <1>3, SplitIsWhole DEF Afterwards

(* After the trim the transcript is a beginning of the prompt, and the     *)
(* rest of it is to be decoded.                                            *)
LEMMA TrimLeavesPrompt ==
  ASSUME TypeOK, NEW s \in Sequences, Trim(s), ~Overflows(s)
  PROVE  history'[s] \o todo'[s] = prompt[s]
<1>1. /\ history[s] \in Seq(Token) /\ Len(history[s]) \in Nat
      /\ prompt[s] \in Seq(Token) /\ Len(prompt[s]) \in Nat
  BY LenProperties DEF TypeOK
<1>2. PICK n \in Nat : IsReusable(n, history[s], prompt[s]) /\ TrimTo(s, n)
  <2>1. \A m \in 0..Len(prompt[s]) : m \in Nat
    BY <1>1
  <2>. QED  BY <2>1 DEF Trim
<1>3. n <= Len(history[s]) /\ n <= Len(prompt[s])
      /\ \A i \in 1..n : history[s][i] = prompt[s][i]
  BY <1>1, <1>2 DEF IsReusable, Lesser
<1>4. ASSUME NEW k \in Nat, k <= n PROVE Keep(history[s], k) = SubSeq(prompt[s], 1, k)
  <2>. k <= Len(history[s]) /\ k <= Len(prompt[s])
    BY <1>1, <1>3, <1>4
  <2>1. /\ Keep(history[s], k) \in Seq(Token) /\ Len(Keep(history[s], k)) = k
        /\ \A i \in 1..k : Keep(history[s], k)[i] = history[s][i]
    BY <1>1, CutUpType
  <2>2. /\ SubSeq(prompt[s], 1, k) \in Seq(Token) /\ Len(SubSeq(prompt[s], 1, k)) = k
        /\ \A i \in 1..k : SubSeq(prompt[s], 1, k)[i] = prompt[s][i]
    BY <1>1, CutUpType DEF Keep
  <2>3. \A i \in 1..k : history[s][i] = prompt[s][i]
    BY <1>3, <1>4
  <2>. QED  BY <2>1, <2>2, <2>3, SeqEqual
<1>5. PICK k \in Nat : k <= n /\ history'[s] = Keep(history[s], k)
  <2>1. CASE n < Len(history[s])
    <3>1. Survivors(n) \in Nat /\ Survivors(n) <= n
      BY DEF Survivors
    <3>2. history'[s] = Keep(history[s], Survivors(n))
      BY <1>2, <2>1 DEF TrimTo, KeptTranscript, TypeOK
    <3>. QED  BY <3>1, <3>2
  <2>2. CASE ~(n < Len(history[s]))
    <3>1. history'[s] = history[s] /\ n = Len(history[s])
      BY <1>1, <1>2, <1>3, <2>2 DEF TrimTo
    <3>2. /\ Keep(history[s], n) \in Seq(Token) /\ Len(Keep(history[s], n)) = n
          /\ \A i \in 1..n : Keep(history[s], n)[i] = history[s][i]
      <4>1. n <= Len(history[s])
        BY <1>1, <3>1
      <4>. QED  BY <1>1, <4>1, CutUpType
    <3>3. Keep(history[s], n) = history[s]
      BY <1>1, <3>1, <3>2, SeqEqual
    <3>. QED  BY <3>1, <3>3
  <2>. QED  BY <2>1, <2>2
<1>6. history'[s] = SubSeq(prompt[s], 1, k) /\ Len(history'[s]) = k
  <2>1. k <= Len(history[s])
    BY <1>1, <1>3, <1>5
  <2>2. Len(Keep(history[s], k)) = k
    BY <1>1, <2>1, CutUpType
  <2>3. Keep(history[s], k) = SubSeq(prompt[s], 1, k)
    BY <1>4, <1>5
  <2>. QED  BY <1>5, <2>2, <2>3
<1>7. todo'[s] = SubSeq(prompt[s], k + 1, Len(prompt[s]))
  <2>1. todo' = [todo EXCEPT ![s] = SubSeq(prompt[s], Len(history'[s]) + 1, Len(prompt[s]))]
    BY DEF Trim
  <2>. QED  BY <1>6, <2>1 DEF TypeOK
<1>8. SubSeq(prompt[s], 1, k) \o SubSeq(prompt[s], k + 1, Len(prompt[s])) = prompt[s]
  <2>1. k <= Len(prompt[s])
    BY <1>1, <1>3, <1>5
  <2>. QED  BY <1>1, <2>1, SplitIsWhole
<1>. QED  BY <1>6, <1>7, <1>8

(* Nor does it touch what a sibling was called with.                       *)
LEMMA SiblingsCall ==
  ASSUME Typed, NEW s \in Sequences, Step(s), NEW t \in Sequences, t # s
  PROVE  prompt'[t] = prompt[t] /\ sliding'[t] = sliding[t]
<1>. USE DEF Typed, TypeOK, Goto, engineVars, callVars
<1>1. CASE Handle(s)
  BY <1>1 DEF Handle, Create, Destroy, Reset, LoadSession, LoadRefused, LoadBroken
<1>2. CASE Enter(s)
  BY <1>2 DEF Enter, Start, StartRewound, RewindRefused, Borrow, NothingToBorrow, Trim, Join,
              PromptRefused, SamplerRefused
<1>3. CASE Generate(s)
  BY <1>3 DEF Generate, Leave, DecodeOk, DecodeNoSlot, DecodeFailed, AppendHistory,
              PlanEviction, CannotEvict, ShiftCells, EraseHistory, Pick, Stop
<1>. QED  BY <1>1, <1>2, <1>3 DEF Step

(* A handle keeps its generation conditioned on its prompt.                *)
LEMMA OwnConditioned ==
  ASSUME Typed, Conditioned, NEW s \in Sequences, Step(s)
  PROVE  /\ phase'[s] \in {"shift", "erase"} => sliding'[s]
         /\ phase'[s] \in {"sample", "pick"} => todo'[s] = <<>>
         /\ (phase'[s] = "join" \/ (generating'[s] /\ ~sliding'[s])) => PromptFirst(s)'
<1>. DEFINE Goal == /\ phase'[s] \in {"shift", "erase"} => sliding'[s]
                    /\ phase'[s] \in {"sample", "pick"} => todo'[s] = <<>>
                    /\ (phase'[s] = "join" \/ (generating'[s] /\ ~sliding'[s]))
                         => PromptFirst(s)'
<1>1. TypeOK /\ (generating[s] <=> phase[s] \in InGeneration)
  BY DEF Typed, GeneratingInStep
<1>2. ASSUME phase'[s] \notin (InGeneration \cup {"join"}), generating'[s] = FALSE
      PROVE  Goal
  BY <1>2 DEF InGeneration
<1>3. CASE Handle(s)
  <2>1. phase'[s] \in {"idle", "closed"} /\ generating'[s] = FALSE
    BY <1>1, <1>3 DEF Handle, Create, Destroy, Reset, LoadSession, LoadRefused, LoadBroken,
                      TypeOK, Goto, engineVars, callVars, InGeneration
  <2>. QED  BY <1>2, <2>1 DEF InGeneration
<1>4. CASE Enter(s)
  <2>1. CASE Join(s)
    <3>1. /\ phase[s] = "join" /\ phase'[s] = "decode"
          /\ history'[s] = history[s] /\ todo'[s] = todo[s] /\ prompt'[s] = prompt[s]
      BY <1>1, <2>1 DEF Join, Goto, callVars, TypeOK
    <3>. QED  BY <3>1 DEF Conditioned, PromptFirst
  <2>2. CASE Trim(s) /\ ~Overflows(s)
    <3>1. /\ history'[s] \o todo'[s] = prompt[s] /\ prompt'[s] = prompt[s]
          /\ phase'[s] = "join" /\ generating' = generating
      BY <1>1, <2>2, TrimLeavesPrompt DEF Trim, Goto, TypeOK
    <3>2. prompt[s] \in Seq(Token) /\ Len(prompt[s]) \in Nat
      BY <1>1, LenProperties DEF TypeOK
    <3>3. PromptFirst(s)'
      BY <3>1, <3>2 DEF PromptFirst
    <3>. QED  BY <3>1, <3>3
  <2>3. CASE ~Join(s) /\ ~(Trim(s) /\ ~Overflows(s))
    <3>1. phase'[s] \in {"idle", "borrow", "trim"} /\ generating'[s] = FALSE
      BY <1>1, <1>4, <2>3
        DEF Enter, Start, StartRewound, RewindRefused, Borrow, NothingToBorrow, Trim,
            PromptRefused, SamplerRefused, TypeOK, Goto, engineVars, callVars, InGeneration
    <3>. QED  BY <1>2, <3>1 DEF InGeneration
  <2>. QED  BY <2>1, <2>2, <2>3
<1>5. CASE Generate(s)
  <2>1. ASSUME Leave(s) PROVE Goal
    BY <1>1, <1>2, <2>1 DEF Leave, Goto, TypeOK, InGeneration
  <2>2. CASE DecodeOk(s) \/ DecodeNoSlot(s)
    <3>1. /\ phase[s] = "decode" /\ phase'[s] \in {"append", "noslot"}
          /\ history' = history /\ todo' = todo /\ prompt' = prompt
          /\ sliding' = sliding /\ generating' = generating
      BY <1>1, <2>2 DEF DecodeOk, DecodeNoSlot, Goto, engineVars, callVars, TypeOK
    <3>. QED  BY <3>1 DEF Conditioned, PromptFirst
  <2>3. CASE AppendHistory(s)
    <3>1. /\ phase[s] = "append" /\ generating' = generating /\ sliding' = sliding
          /\ prompt' = prompt /\ todo'[s] = Afterwards(s)
          /\ history'[s] = history[s] \o Chunk(s)
          /\ phase'[s] = IF Afterwards(s) = <<>> THEN "sample" ELSE "decode"
      BY <1>1, <2>3 DEF AppendHistory, Goto, engineVars, TypeOK
    <3>2. history'[s] \o todo'[s] = history[s] \o todo[s]
      <4>1. /\ history[s] \in Seq(Token) /\ Chunk(s) \in Seq(Token)
            /\ Afterwards(s) \in Seq(Token)
        BY <1>1, ChunkType DEF TypeOK
      <4>2. (history[s] \o Chunk(s)) \o Afterwards(s) = history[s] \o (Chunk(s) \o Afterwards(s))
        BY <4>1, JoinAssociative, Zenon
      <4>. QED  BY <1>1, <3>1, <4>2, ChunkAndRest
    <3>. QED  BY <3>1, <3>2 DEF Conditioned, PromptFirst
  <2>4. CASE PlanEviction(s)
    <3>1. /\ phase'[s] = "shift" /\ sliding[s] /\ sliding' = sliding
      BY <1>1, <2>4 DEF PlanEviction, CanEvict, Goto, TypeOK
    <3>. QED  BY <3>1
  <2>5. CASE ShiftCells(s)
    <3>1. phase[s] = "shift" /\ phase'[s] = "erase" /\ sliding' = sliding
      BY <1>1, <2>5 DEF ShiftCells, Goto, callVars, TypeOK
    <3>. QED  BY <3>1 DEF Conditioned
  <2>6. CASE EraseHistory(s)
    <3>1. /\ phase[s] = "erase" /\ sliding' = sliding /\ todo' = todo
          /\ phase'[s] = IF todo[s] = <<>> THEN "pick" ELSE "decode"
      BY <1>1, <2>6 DEF EraseHistory, Goto, TypeOK
    <3>. QED  BY <3>1 DEF Conditioned
  <2>7. ASSUME NEW t \in Sampled, Pick(s, t) PROVE Goal
    <3>1. /\ phase[s] \in {"sample", "pick"} /\ phase'[s] = "decode"
          /\ history' = history /\ prompt' = prompt /\ sliding' = sliding
          /\ generating' = generating /\ todo'[s] = <<t>>
      BY <1>1, <2>7 DEF Pick, HasRoom, Goto, engineVars, TypeOK
    <3>2. generating[s] /\ todo[s] = <<>>
      BY <1>1, <3>1 DEF InGeneration, Conditioned
    <3>3. ASSUME ~sliding[s] PROVE PromptFirst(s)'
      <4>1. PromptFirst(s)
        BY <3>2, <3>3 DEF Conditioned
      <4>2. /\ history[s] \in Seq(Token) /\ Len(history[s]) \in Nat
            /\ prompt[s] \in Seq(Token) /\ Len(prompt[s]) \in Nat
        BY <1>1, LenProperties DEF TypeOK
      <4>3. history[s] \o todo[s] = history[s]
        BY <3>2, <4>2, ConcatEmptySeq
      <4>4. /\ Len(prompt[s]) <= Len(history[s])
            /\ \A i \in 1..Len(prompt[s]) : history[s][i] = prompt[s][i]
        BY <4>1, <4>3 DEF PromptFirst
      <4>5. /\ Len(history[s] \o <<t>>) = Len(history[s]) + 1
            /\ \A i \in 1..(Len(history[s]) + 1) :
                 (history[s] \o <<t>>)[i] = IF i <= Len(history[s]) THEN history[s][i] ELSE t
        <5>1. t \in Token /\ <<t>> \in Seq(Token) /\ Len(<<t>>) = 1 /\ <<t>>[1] = t
          BY CacheAssumption
        <5>2. /\ Len(history[s] \o <<t>>) = Len(history[s]) + Len(<<t>>)
              /\ \A i \in 1..(Len(history[s]) + Len(<<t>>)) : (history[s] \o <<t>>)[i] =
                   IF i <= Len(history[s]) THEN history[s][i] ELSE <<t>>[i - Len(history[s])]
          BY <4>2, <5>1, ConcatProperties
        <5>. QED  BY <4>2, <5>1, <5>2
      <4>6. /\ Len(prompt[s]) <= Len(history[s] \o <<t>>)
            /\ \A i \in 1..Len(prompt[s]) : (history[s] \o <<t>>)[i] = prompt[s][i]
        BY <4>2, <4>4, <4>5
      <4>. QED  BY <3>1, <4>6 DEF PromptFirst
    <3>. QED  BY <3>1, <3>3
  <2>. QED
    BY <1>5, <2>1, <2>2, <2>3, <2>4, <2>5, <2>6, <2>7
      DEF Generate, DecodeFailed, CannotEvict, Stop
<1>. QED  BY <1>3, <1>4, <1>5 DEF Step

(* Siblings neither see nor disturb that.                                  *)
LEMMA ConditionedStep ==
  ASSUME Typed, Conditioned, [Next]_vars
  PROVE  Conditioned'
<1>1. CASE UNCHANGED vars
  BY <1>1 DEF vars, Conditioned, PromptFirst
<1>2. ASSUME NEW s \in Sequences, Step(s), NEW t \in Sequences
      PROVE  /\ phase'[t] \in {"shift", "erase"} => sliding'[t]
             /\ phase'[t] \in {"sample", "pick"} => todo'[t] = <<>>
             /\ (phase'[t] = "join" \/ (generating'[t] /\ ~sliding'[t])) => PromptFirst(t)'
  <2>1. CASE t = s
    BY <1>2, <2>1, OwnConditioned
  <2>2. CASE t # s
    <3>1. /\ phase'[t] = phase[t] /\ history'[t] = history[t]
          /\ todo'[t] = todo[t] /\ generating'[t] = generating[t]
      BY <1>2, <2>2, SiblingsKeep
    <3>2. prompt'[t] = prompt[t] /\ sliding'[t] = sliding[t]
      BY <1>2, <2>2, SiblingsCall
    <3>. QED  BY <3>1, <3>2 DEF Conditioned, PromptFirst
  <2>. QED  BY <2>1, <2>2
<1>. QED  BY <1>1, <1>2 DEF Next, Step, Conditioned

(* So it is in every state.                                                *)
LEMMA ConditionedAlways ==
  Spec => []Conditioned
<1>1. Init => Conditioned
  BY DEF Init, Conditioned
<1>. QED  BY <1>1, ConditionedStep, TypedAlways, PTL DEF Spec

(* Without a sliding window the model sees the caller's prompt, whole and  *)
(* first, whatever was borrowed, rewound or refused before: the cells      *)
(* spell a transcript that begins with it by the time a token is sampled.  *)
(* A memory that cannot shift may refuse what it likes; what has to be     *)
(* excluded is a session whose cells are lost behind its transcript.       *)
THEOREM PromptIsAlwaysSeen ==
  ASSUME ShiftsSafely, LoadsWhole
  PROVE  Spec => []ConditionedOnPrompt
<1>1. Typed /\ Conditioned /\ HistoryMirrorsKV => ConditionedOnPrompt
  <2>. SUFFICES ASSUME Typed, Conditioned, HistoryMirrorsKV,
                       NEW s \in Sequences, generating[s], ~sliding[s]
                PROVE  /\ Spells(kv, s, Transcript(s))
                       /\ Len(prompt[s]) <= Len(history[s] \o todo[s])
                       /\ SubSeq(history[s] \o todo[s], 1, Len(prompt[s])) = prompt[s]
                       /\ HasRoom(s) => Len(prompt[s]) <= Len(history[s])
    BY DEF ConditionedOnPrompt
  <2>. DEFINE all == history[s] \o todo[s]
              n   == Len(prompt[s])
  <2>1. /\ history[s] \in Seq(Token) /\ prompt[s] \in Seq(Token)
        /\ all \in Seq(Token) /\ n \in Nat
    BY ConcatProperties, LenProperties DEF Typed, TypeOK
  <2>2. n <= Len(all) /\ \A i \in 1..n : all[i] = prompt[s][i]
    BY DEF Conditioned, PromptFirst
  <2>3. ASSUME HasRoom(s) PROVE all = history[s]
    BY <2>1, <2>3, ConcatEmptySeq DEF HasRoom, Conditioned
  <2>. HIDE DEF all
  <2>4. /\ SubSeq(all, 1, n) \in Seq(Token) /\ Len(SubSeq(all, 1, n)) = n
        /\ \A i \in 1..n : SubSeq(all, 1, n)[i] = all[i]
    BY <2>1, <2>2, CutUpType DEF Keep
  <2>5. SubSeq(all, 1, n) = prompt[s]
    BY <2>1, <2>2, <2>4, SeqEqual
  <2>6. Spells(kv, s, Transcript(s))
    BY DEF HistoryMirrorsKV
  <2>. QED  BY <2>2, <2>3, <2>5, <2>6 DEF all
<1>. QED  BY <1>1, ConditionedAlways, TypedAlways, TranscriptMirrorsCache, PTL

-----------------------------------------------------------------------------
(* The pool.  A handle that may slide its window is not given a prompt     *)
(* longer than one: with such a prompt the claim does not hold (README.md, *)
(* Disagreements).                                                         *)
NoneOverlong == Shiftable /\ TRUE \in Slides => \A p \in Prompts : Len(p) <= Window

(* What a handle holds and is about to decode fits its window.             *)
OwnWindow(s) ==
  /\ Len(history[s]) <= Window
  /\ phase[s] \in {"borrow", "trim", "join"} /\ Shiftable /\ sliding[s]
       => Len(prompt[s]) <= Window
  /\ phase[s] = "join" \/ generating[s] => Len(history[s]) + Len(todo[s]) <= Window
  /\ phase[s] = "pick" => Len(history[s]) < Window
  /\ phase[s] \in {"shift", "erase"} => cut[s].n > 0
  /\ phase[s] # "noslot"

InWindow == \A s \in Sequences : OwnWindow(s)

(* How long the pieces of a submission are.                                *)
LEMMA ChunkLength ==
  ASSUME TypeOK, NEW s \in Sequences
  PROVE  /\ {Len(todo[s]), Len(Chunk(s)), Len(Afterwards(s))} \subseteq Nat
         /\ Len(Chunk(s)) + Len(Afterwards(s)) = Len(todo[s])
<1>1. Chunk(s) \in Seq(Token) /\ Afterwards(s) \in Seq(Token) /\ todo[s] \in Seq(Token)
  BY ChunkType DEF TypeOK
<1>2. Len(Chunk(s) \o Afterwards(s)) = Len(Chunk(s)) + Len(Afterwards(s))
  BY <1>1, ConcatProperties
<1>. QED  BY <1>1, <1>2, ChunkAndRest, LenProperties

(* Nobody's transcript, written out or about to be, exceeds its window.    *)
LEMMA TranscriptInWindow ==
  ASSUME Typed, InWindow, NEW s \in Sequences
  PROVE  /\ Len(Transcript(s)) \in 0..Window
         /\ phase[s] = "decode" => Transcript(s) = history[s]
<1>0. Window \in Nat
  BY CacheAssumption
<1>1. history[s] \in Seq(Token) /\ Len(history[s]) \in Nat /\ OwnWindow(s)
  BY LenProperties DEF Typed, TypeOK, InWindow
<1>2. CASE phase[s] = "append"
  <2>1. generating[s]
    BY <1>2 DEF Typed, GeneratingInStep, InGeneration
  <2>2. Len(history[s] \o Chunk(s)) = Len(history[s]) + Len(Chunk(s))
    BY <1>1, ChunkType, ConcatProperties DEF Typed
  <2>3. PICK m \in Nat, c \in Nat, a \in Nat :
          /\ m = Len(history[s]) /\ c = Len(Chunk(s))
          /\ a = Len(Afterwards(s)) /\ Len(todo[s]) = c + a
    BY <1>1, ChunkLength DEF Typed
  <2>4. m + (c + a) <= Window
    BY <1>1, <2>1, <2>3 DEF OwnWindow
  <2>5. Len(Transcript(s)) = m + c
    BY <1>2, <2>2, <2>3 DEF Transcript
  <2>6. m + c \in 0..Window
    BY <1>0, <2>4
  <2>. QED  BY <1>2, <2>5, <2>6
<1>3. CASE phase[s] = "erase"
  <2>1. PICK head \in Nat, n \in Nat, m \in Nat :
          cut[s] = [head |-> head, n |-> n] /\ m = Len(history[s]) /\ head + n <= m
    BY <1>1, <1>3 DEF Typed, TypeOK, EvictionPlanHolds
  <2>2. Len(Without(history[s], cut[s])) = m - n
    <3>1. history[s] \in Seq(Token)
      BY <1>1
    <3>2. Len(Without(history[s], [head |-> head, n |-> n])) = m - n
      BY ONLY SMTT(30), <2>1, <3>1, WithoutFacts
    <3>. QED  BY <2>1, <3>2
  <2>. QED  BY <1>1, <1>3, <2>1, <2>2, CacheAssumption DEF Transcript, OwnWindow
<1>4. CASE phase[s] \notin {"append", "erase"}
  BY <1>1, <1>4, CacheAssumption DEF Transcript, OwnWindow
<1>. QED  BY <1>2, <1>3, <1>4

(* There are n positions below n.                                          *)
LEMMA CountBelow ==
  ASSUME NEW n \in Nat
  PROVE  IsFiniteSet(0..(n - 1)) /\ Cardinality(0..(n - 1)) = n
<1>1. 0 \in Int /\ n - 1 \in Int
  OBVIOUS
<1>2. /\ IsFiniteSet(0..(n - 1))
      /\ Cardinality(0..(n - 1)) = IF 0 > n - 1 THEN 0 ELSE (n - 1) - 0 + 1
  BY <1>1, FS_Interval
<1>. QED  BY <1>2

(* Counting the cells: each is some holder's, at a position of its own.    *)
LEMMA CellsCounted ==
  ASSUME Typed, HistoryMirrorsKV, InWindow, NEW s \in Sequences
  PROVE  /\ IsFiniteSet(kv)
         /\ Cardinality(kv) <= Pool - Window + Len(Transcript(s))
<1>. DEFINE L      == Len(Transcript(s))
            others == (Sequences \ {s}) \X (0..(Window - 1))
            own    == {s} \X (0..(L - 1))
            f      == [c \in kv |-> <<CHOOSE t \in c.holders : TRUE, c.pos>>]
<1>1. L \in Nat /\ Window \in Nat \ {0} /\ Capacity \in Nat \ {0}
  BY TranscriptInWindow, CacheAssumption
<1>2. /\ IsFiniteSet(others) /\ Cardinality(others) = (Capacity - 1) * Window
  <2>1. IsFiniteSet(Sequences) /\ Cardinality(Sequences) = Capacity
    BY <1>1, CountBelow DEF Sequences
  <2>2. IsFiniteSet(Sequences \ {s}) /\ Cardinality(Sequences \ {s}) = Capacity - 1
    BY <2>1, FS_RemoveElement
  <2>3. IsFiniteSet(0..(Window - 1)) /\ Cardinality(0..(Window - 1)) = Window
    BY <1>1, CountBelow
  <2>4. IsFiniteSet(others) /\ Cardinality(others) =
          Cardinality(Sequences \ {s}) * Cardinality(0..(Window - 1))
    BY <2>2, <2>3, FS_Product
  <2>. HIDE DEF others
  <2>. QED  BY <2>2, <2>3, <2>4
<1>3. /\ IsFiniteSet(own) /\ Cardinality(own) = L
  <2>1. IsFiniteSet({s}) /\ Cardinality({s}) = 1
    BY FS_Singleton
  <2>2. IsFiniteSet(0..(L - 1)) /\ Cardinality(0..(L - 1)) = L
    BY <1>1, CountBelow
  <2>3. IsFiniteSet(own) /\ Cardinality(own) = 1 * L
    BY <2>1, <2>2, FS_Product
  <2>. QED  BY <1>1, <2>3
<1>4. /\ IsFiniteSet(others \cup own)
      /\ Cardinality(others \cup own) = (Capacity - 1) * Window + L
  <2>1. others \cap own = {}
    OBVIOUS
  <2>2. Cardinality({}) = 0
    BY FS_EmptySet
  <2>. HIDE DEF others, own, L
  <2>3. PICK n \in Int : n = (Capacity - 1) * Window
    BY <1>1
  <2>4. /\ IsFiniteSet(others \cup own)
        /\ Cardinality(others \cup own)
             = Cardinality(others) + Cardinality(own) - Cardinality(others \cap own)
    BY <1>2, <1>3, FS_Union
  <2>5. Cardinality(others \cup own) = n + L - 0
    BY <1>2, <1>3, <2>1, <2>2, <2>3, <2>4
  <2>. QED  BY <1>1, <2>3, <2>4, <2>5
<1>5. ASSUME NEW c \in kv
      PROVE  /\ f[c][1] \in c.holders /\ f[c][2] = c.pos
             /\ f[c] \in others \cup own
  <2>1. c.pos \in Nat /\ c.holders # {} /\ c.holders \subseteq Sequences
    BY DEF Typed, TypeOK
  <2>2. PICK t \in c.holders : f[c] = <<t, c.pos>>
    BY <2>1
  <2>3. t \in Sequences /\ c \in Held(kv, t) /\ Spells(kv, t, Transcript(t))
    BY <2>1 DEF HistoryMirrorsKV, Held
  <2>4. c.pos < Len(Transcript(t)) /\ Len(Transcript(t)) \in 0..Window
    BY <2>3, TranscriptInWindow DEF Spells
  <2>5. <<t, c.pos>> \in others \cup own
    <3>1. CASE t = s
      <4>1. c.pos \in 0..(L - 1)
        BY <1>1, <2>1, <2>4, <3>1
      <4>. QED  BY <3>1, <4>1
    <3>2. CASE t # s
      <4>1. c.pos \in 0..(Window - 1)
        BY <1>1, <2>1, <2>4
      <4>. QED  BY <2>3, <3>2, <4>1
    <3>. QED  BY <3>1, <3>2
  <2>. HIDE DEF f, others, own
  <2>. QED  BY <2>2, <2>5
<1>6. f \in Injection(kv, others \cup own)
  <2>1. f \in [kv -> others \cup own]
    BY <1>5
  <2>2. ASSUME NEW c \in kv, NEW d \in kv, f[c] = f[d] PROVE c = d
    <3>. DEFINE t == f[c][1]
    <3>1. t \in c.holders /\ t \in d.holders /\ c.pos = d.pos
      <4>. HIDE DEF f
      <4>. QED  BY <1>5, <2>2
    <3>2. t \in Sequences
      BY <3>1 DEF Typed, TypeOK
    <3>. HIDE DEF f, t
    <3>. QED  BY <3>1, <3>2 DEF HistoryMirrorsKV, Spells, Held
  <2>. HIDE DEF f, others, own
  <2>. QED  BY <2>1, <2>2 DEF Injection, IsInjective
<1>7. /\ IsFiniteSet(kv)
      /\ Cardinality(kv) <= (Capacity - 1) * Window + L
  <2>. HIDE DEF f, others, own, L
  <2>. QED  BY <1>4, <1>6, FS_Injection
<1>8. (Capacity - 1) * Window = Pool - Window
  BY <1>1 DEF Pool
<1>. QED  BY <1>7, <1>8

(* So a submission that fits its handle's window fits the pool.            *)
LEMMA AlwaysFits ==
  ASSUME Typed, HistoryMirrorsKV, InWindow, NEW s \in Sequences, phase[s] = "decode"
  PROVE  Fits(Len(Chunk(s)))
<1>1. PICK all \in Nat : all = Cardinality(kv) /\ all <= Pool - Window + Len(history[s])
  BY CellsCounted, TranscriptInWindow, FS_CardinalityType
<1>2. Len(history[s]) + Len(todo[s]) <= Window
  BY DEF InWindow, OwnWindow, Typed, GeneratingInStep, InGeneration
<1>3. PICK c \in Nat, a \in Nat : c = Len(Chunk(s)) /\ Len(todo[s]) = c + a
  BY ChunkLength DEF Typed
<1>4. Len(history[s]) \in Nat /\ Pool \in Nat /\ Window \in Nat
  BY CacheAssumption, LenProperties DEF Typed, TypeOK, Pool
<1>5. all + c <= Pool
  <2>1. PICK m \in Nat, w \in Nat, p \in Nat : m = Len(history[s]) /\ w = Window /\ p = Pool
    BY <1>4
  <2>2. all <= p - w + m /\ m + (c + a) <= w
    BY <1>1, <1>2, <1>3, <2>1
  <2>3. all + c <= p
    BY <2>2
  <2>. QED  BY <2>1, <2>3
<1>. QED  BY <1>1, <1>3, <1>5 DEF Fits

(* A handle keeps to its window, and nothing it submits is refused.        *)
LEMMA OwnInWindow ==
  ASSUME NoneOverlong, Typed, Conditioned, HistoryMirrorsKV, InWindow,
         NEW s \in Sequences, Step(s)
  PROVE  OwnWindow(s)'
<1>0. Window \in Nat
  BY CacheAssumption
<1>1. /\ TypeOK /\ OwnWindow(s)
      /\ history[s] \in Seq(Token) /\ prompt[s] \in Seq(Token) /\ todo[s] \in Seq(Token)
      /\ {Len(history[s]), Len(prompt[s]), Len(todo[s])} \subseteq Nat
      /\ generating[s] <=> phase[s] \in InGeneration
  BY LenProperties DEF Typed, TypeOK, InWindow, GeneratingInStep
<1>2. ASSUME phase'[s] \in {"idle", "closed"}, ~generating'[s], Len(history'[s]) <= Window
      PROVE  OwnWindow(s)'
  BY <1>2 DEF OwnWindow
<1>3. \A n \in Nat : n <= Len(history[s]) => Len(Keep(history[s], n)) = n
  BY <1>1, CutUpType
<1>4. CASE Handle(s)
  <2>1. phase'[s] \in {"idle", "closed"} /\ ~generating'[s]
    BY <1>1, <1>4 DEF Handle, Create, Destroy, Reset, LoadSession, LoadRefused, LoadBroken,
                      TypeOK, Goto, engineVars, callVars, InGeneration
  <2>2. history'[s] \in {history[s], <<>>} \/ Len(history'[s]) <= Window
    BY <1>1, <1>4 DEF Handle, Create, Destroy, Reset, LoadSession, LoadRefused, LoadBroken,
                      TypeOK
  <2>3. Len(<<>>) = 0
    OBVIOUS
  <2>4. Len(history'[s]) <= Window
    BY <1>0, <1>1, <2>2, <2>3 DEF OwnWindow
  <2>. QED  BY <1>2, <2>1, <2>4
<1>5. CASE Enter(s)
  <2>1. ASSUME NEW p \in Prompts, NEW slide \in Slides, NEW n \in 1..Len(history[s]),
               Start(s, p, slide) \/ StartRewound(s, p, slide, n)
        PROVE  OwnWindow(s)'
    <3>1. /\ phase[s] = "idle" /\ phase'[s] \in {"borrow", "trim"} /\ generating' = generating
          /\ prompt'[s] = p /\ sliding'[s] = slide
      BY <1>1, <2>1 DEF Start, StartRewound, TypeOK, Goto, engineVars
    <3>2. Len(history'[s]) <= Window
      <4>1. n \in Nat /\ n <= Len(history[s])
        BY <1>1
      <4>2. history'[s] \in {history[s], Keep(history[s], n)}
        BY <1>1, <2>1 DEF Start, StartRewound, TypeOK
      <4>3. Len(history'[s]) <= Len(history[s])
        BY <1>1, <1>3, <4>1, <4>2
      <4>. QED  BY <1>0, <1>1, <4>1, <4>2, <1>3 DEF OwnWindow
    <3>3. Shiftable /\ slide => Len(p) <= Window
      BY CacheAssumption DEF NoneOverlong
    <3>. QED  BY <1>1, <3>1, <3>2, <3>3 DEF OwnWindow, InGeneration
  <2>2. ASSUME NEW n \in 1..Len(history[s]), RewindRefused(s, n)
        PROVE  OwnWindow(s)'
    <3>1. phase' = phase /\ history' = history /\ generating' = generating /\ phase[s] = "idle"
      BY <2>2 DEF RewindRefused
    <3>. QED  BY <1>1, <1>2, <3>1 DEF OwnWindow, InGeneration
  <2>3. CASE Borrow(s)
    <3>1. PICK d \in Sequences, n \in Nat :
            /\ IsReusable(n, history[d], prompt[s])
            /\ history'[s] = Keep(prompt[s], n)
      <4>1. \A m \in 0..Len(prompt[s]) : m \in Nat
        BY <1>1
      <4>. QED  BY <1>1, <2>3, <4>1 DEF Borrow, Donor, TypeOK
    <3>2. Len(history[d]) \in Nat /\ Len(history[d]) <= Window
      BY LenProperties DEF Typed, TypeOK, InWindow, OwnWindow
    <3>3. n <= Len(history[d]) /\ n <= Len(prompt[s])
      BY <1>1, <3>1, <3>2 DEF IsReusable, Lesser
    <3>4. Len(Keep(prompt[s], n)) = n
      BY <1>1, <3>3, CutUpType
    <3>5. /\ phase[s] = "borrow" /\ phase'[s] = "trim" /\ generating' = generating
          /\ prompt' = prompt /\ sliding' = sliding
      BY <1>1, <2>3 DEF Borrow, Goto, callVars, TypeOK
    <3>6. Len(history'[s]) <= Window
      BY <1>0, <3>1, <3>2, <3>3, <3>4
    <3>. QED  BY <1>1, <3>5, <3>6 DEF OwnWindow, InGeneration
  <2>4. CASE NothingToBorrow(s)
    <3>1. /\ phase[s] = "borrow" /\ phase'[s] = "trim" /\ generating' = generating
          /\ prompt' = prompt /\ sliding' = sliding /\ history' = history
      BY <1>1, <2>4 DEF NothingToBorrow, Goto, engineVars, callVars, TypeOK
    <3>. QED  BY <1>1, <3>1 DEF OwnWindow, InGeneration
  <2>5. CASE Trim(s)
    <3>1. Len(history'[s]) <= Window
      <4>1. PICK n \in Nat : TrimTo(s, n)
        <5>1. \A m \in 0..Len(prompt[s]) : m \in Nat
          BY <1>1
        <5>. QED  BY <2>5, <5>1 DEF Trim
      <4>2. CASE n < Len(history[s])
        <5>1. history'[s] = Keep(history[s], Survivors(n))
          BY <1>1, <4>1, <4>2 DEF TrimTo, KeptTranscript, TypeOK
        <5>2. Survivors(n) \in Nat /\ Survivors(n) <= Len(history[s])
          BY <1>1, <4>2 DEF Survivors
        <5>3. Len(history'[s]) <= Len(history[s]) /\ Len(history'[s]) \in Nat
          BY <1>3, <5>1, <5>2
        <5>. QED  BY <1>0, <1>1, <5>3 DEF OwnWindow
      <4>3. CASE ~(n < Len(history[s]))
        BY <1>1, <4>1, <4>3 DEF TrimTo, OwnWindow
      <4>. QED  BY <4>2, <4>3
    <3>2. phase[s] = "trim" /\ generating' = generating /\ sliding' = sliding
      BY <2>5 DEF Trim
    <3>3. CASE Overflows(s)
      <4>1. phase'[s] = "idle"
        BY <1>1, <2>5, <3>3 DEF Trim, Goto, TypeOK
      <4>. QED  BY <1>1, <1>2, <3>1, <3>2, <4>1 DEF InGeneration
    <3>4. CASE ~Overflows(s)
      <4>1. /\ phase'[s] = "join" /\ prompt' = prompt
            /\ history'[s] \o todo'[s] = prompt[s]
        BY <1>1, <2>5, <3>4, TrimLeavesPrompt DEF Trim, Goto, TypeOK
      <4>2. Len(prompt[s]) <= Window
        <5>1. CASE Shiftable /\ sliding[s]
          BY <1>1, <3>2, <5>1 DEF OwnWindow
        <5>2. CASE ~(Shiftable /\ sliding[s])
          BY <1>0, <1>1, <3>4, <5>2 DEF Overflows
        <5>. QED  BY <5>1, <5>2
      <4>3. Len(history'[s]) + Len(todo'[s]) = Len(prompt[s])
        <5>1. TypeOK'
          BY <1>1, <1>5, TypeOfEnter
        <5>2. history'[s] \in Seq(Token) /\ todo'[s] \in Seq(Token)
          BY <5>1 DEF TypeOK
        <5>3. Len(history'[s] \o todo'[s]) = Len(history'[s]) + Len(todo'[s])
          BY ONLY <5>2, ConcatProperties
        <5>. QED  BY <4>1, <5>3
      <4>. QED  BY <1>1, <3>1, <3>2, <4>1, <4>2, <4>3 DEF OwnWindow
    <3>. QED  BY <3>3, <3>4
  <2>6. CASE Join(s)
    <3>1. /\ phase[s] = "join" /\ phase'[s] = "decode"
          /\ history' = history /\ todo' = todo
      BY <1>1, <2>6 DEF Join, Goto, callVars, TypeOK
    <3>. QED  BY <1>1, <3>1 DEF OwnWindow
  <2>7. CASE PromptRefused(s) \/ SamplerRefused(s)
    <3>1. /\ phase[s] \in {"trim", "join"} /\ phase'[s] = "idle"
          /\ history' = history /\ generating' = generating
      BY <1>1, <2>7 DEF PromptRefused, SamplerRefused, Goto, engineVars, TypeOK
    <3>. QED  BY <1>1, <1>2, <3>1 DEF OwnWindow, InGeneration
  <2>8. ASSUME NEW p \in Prompts, NEW slide \in Slides, Start(s, p, slide)
        PROVE  OwnWindow(s)'
    <3>1. /\ phase[s] = "idle" /\ phase'[s] = "borrow" /\ generating' = generating
          /\ prompt'[s] = p /\ sliding'[s] = slide /\ history' = history
      BY <1>1, <2>8 DEF Start, TypeOK, Goto, engineVars
    <3>2. Shiftable /\ slide => Len(p) <= Window
      BY CacheAssumption DEF NoneOverlong
    <3>. QED  BY <1>1, <3>1, <3>2 DEF OwnWindow, InGeneration
  <2>. QED  BY <1>5, <2>1, <2>2, <2>3, <2>4, <2>5, <2>6, <2>7, <2>8 DEF Enter
<1>6. CASE Generate(s)
  <2>1. ASSUME Leave(s) PROVE OwnWindow(s)'
    <3>1. phase'[s] = "idle" /\ ~generating'[s] /\ history' = history
      BY <1>1, <2>1 DEF Leave, Goto, TypeOK
    <3>. QED  BY <1>1, <1>2, <3>1 DEF OwnWindow
  <2>2. CASE DecodeOk(s)
    <3>1. /\ phase[s] = "decode" /\ phase'[s] = "append"
          /\ history' = history /\ todo' = todo
      BY <1>1, <2>2 DEF DecodeOk, Goto, callVars, TypeOK
    <3>. QED  BY <1>1, <3>1 DEF OwnWindow, InGeneration
  <2>3. ~DecodeNoSlot(s)
    BY AlwaysFits DEF DecodeNoSlot
  <2>4. CASE AppendHistory(s)
    <3>1. /\ phase[s] = "append" /\ phase'[s] \in {"sample", "decode"}
          /\ history'[s] = history[s] \o Chunk(s) /\ todo'[s] = Afterwards(s)
      BY <1>1, <2>4 DEF AppendHistory, Goto, engineVars, TypeOK
    <3>2. PICK m \in Nat, c \in Nat, a \in Nat :
            /\ m = Len(history[s]) /\ c = Len(Chunk(s)) /\ a = Len(Afterwards(s))
            /\ Len(todo[s]) = c + a
      BY <1>1, ChunkLength
    <3>3. Len(history'[s]) = m + c
      <4>1. Chunk(s) \in Seq(Token)
        BY <1>1, ChunkType
      <4>. QED  BY <1>1, <3>1, <3>2, <4>1, ConcatProperties
    <3>4. m + (c + a) <= Window
      BY <1>1, <3>1, <3>2 DEF OwnWindow, InGeneration
    <3>5. Len(history'[s]) + Len(todo'[s]) <= Window /\ Len(history'[s]) <= Window
      <4>1. (m + c) + a <= Window /\ m + c <= Window
        BY <1>0, <3>4
      <4>. QED  BY <3>1, <3>2, <3>3, <4>1
    <3>. QED  BY <3>1, <3>5 DEF OwnWindow
  <2>5. CASE PlanEviction(s)
    <3>1. /\ phase[s] = "sample" /\ phase'[s] = "shift"
          /\ history' = history /\ todo' = todo
          /\ cut'[s].n = EvictCount(s, Incoming(s)) /\ EvictCount(s, Incoming(s)) > 0
      BY <1>1, <2>5 DEF PlanEviction, WantsSpace, CanEvict, Full, Goto, engineVars, TypeOK,
                        OwnWindow
    <3>. QED  BY <1>1, <3>1 DEF OwnWindow, InGeneration
  <2>6. CASE ShiftCells(s)
    <3>1. /\ phase[s] = "shift" /\ phase'[s] = "erase"
          /\ history' = history /\ todo' = todo /\ cut' = cut
      BY <1>1, <2>6 DEF ShiftCells, Goto, callVars, TypeOK
    <3>. QED  BY <1>1, <3>1 DEF OwnWindow, InGeneration
  <2>7. CASE EraseHistory(s)
    <3>1. /\ phase[s] = "erase" /\ phase'[s] \in {"pick", "decode"} /\ todo' = todo
          /\ history'[s] = Without(history[s], cut[s])
      BY <1>1, <2>7 DEF EraseHistory, Goto, TypeOK
    <3>2. PICK head \in Nat, n \in Nat, m \in Nat :
            cut[s] = [head |-> head, n |-> n] /\ m = Len(history[s]) /\ head + n <= m
      BY <1>1, <3>1 DEF Typed, TypeOK, EvictionPlanHolds
    <3>3. Len(history'[s]) = m - n
      <4>1. history[s] \in Seq(Token)
        BY <1>1
      <4>2. Len(Without(history[s], [head |-> head, n |-> n])) = m - n
        BY ONLY SMTT(30), <3>2, <4>1, WithoutFacts
      <4>. QED  BY <3>1, <3>2, <4>2
    <3>4. n > 0 /\ m + Len(todo[s]) <= Window /\ m <= Window
      <4>1. generating[s] /\ cut[s].n = n
        BY <1>1, <3>1, <3>2 DEF InGeneration
      <4>. QED  BY <1>1, <3>1, <3>2, <4>1 DEF OwnWindow
    <3>5. m - n < Window /\ m - n + Len(todo[s]) <= Window
      BY <1>0, <1>1, <3>4
    <3>. QED  BY <1>0, <3>1, <3>3, <3>5 DEF OwnWindow
  <2>8. ASSUME NEW t \in Sampled, Pick(s, t) PROVE OwnWindow(s)'
    <3>1. /\ phase'[s] = "decode" /\ history' = history /\ todo'[s] = <<t>>
          /\ phase[s] = "pick" \/ Len(history[s]) < Window
      BY <1>0, <1>1, <2>8 DEF Pick, HasRoom, Full, Goto, engineVars, TypeOK
    <3>2. Len(<<t>>) = 1
      OBVIOUS
    <3>3. Len(history[s]) < Window
      BY <1>1, <3>1 DEF OwnWindow
    <3>. QED  BY <1>0, <1>1, <3>1, <3>2, <3>3 DEF OwnWindow
  <2>. QED
    BY <1>6, <2>1, <2>2, <2>3, <2>4, <2>5, <2>6, <2>7, <2>8
      DEF Generate, DecodeFailed, CannotEvict, Stop
<1>. QED  BY <1>4, <1>5, <1>6 DEF Step

(* And so do its siblings meanwhile.                                       *)
LEMMA InWindowStep ==
  ASSUME NoneOverlong, Typed, Conditioned, HistoryMirrorsKV, InWindow, [Next]_vars
  PROVE  InWindow'
<1>1. CASE UNCHANGED vars
  BY <1>1 DEF vars, InWindow, OwnWindow
<1>2. ASSUME NEW s \in Sequences, Step(s), NEW t \in Sequences
      PROVE  OwnWindow(t)'
  <2>1. CASE t = s
    BY <1>2, <2>1, OwnInWindow
  <2>2. CASE t # s
    BY <1>2, <2>2, SiblingsKeep, SiblingsCall DEF InWindow, OwnWindow
  <2>. QED  BY <2>1, <2>2
<1>. QED  BY <1>1, <1>2 DEF Next, Step, InWindow

(* batch_engine.h:52-55: "Sequences cannot crowd each other out": while    *)
(* nobody who slides is given more than a window, llama_decode never finds *)
(* the pool exhausted, so nobody is refused cells at all.                  *)
THEOREM NobodyIsCrowdedOut ==
  ASSUME ShiftsSafely, LoadsWhole, NoneOverlong
  PROVE  Spec => [](NeverCrowdedOut /\ \A s \in Sequences : phase[s] # "noslot")
<1>1. Init => InWindow
  <2>1. Len(<<>>) = 0 /\ Window \in Nat
    BY CacheAssumption
  <2>. QED  BY <2>1 DEF Init, InWindow, OwnWindow
<1>2. InWindow => NeverCrowdedOut /\ \A s \in Sequences : phase[s] # "noslot"
  BY DEF InWindow, OwnWindow, NeverCrowdedOut
<1>. QED
  BY <1>1, <1>2, InWindowStep, ConditionedAlways, TypedAlways, TranscriptMirrorsCache, PTL
     DEF Spec

-----------------------------------------------------------------------------
(* The refinement of PrivateCache.  Since a handle's cells spell its       *)
(* transcript, its private cache is its transcript, placed from position   *)
(* zero; so it is enough to follow the transcripts.                        *)

(* Tokens placed one by one from position zero.                            *)
RowsOf(h) == {<<i - 1, h[i]>> : i \in 1..Len(h)}

(* Which tokens are placed where.                                          *)
LEMMA RowsOfMember ==
  ASSUME NEW h \in Seq(Token), NEW p, NEW t
  PROVE  <<p, t>> \in RowsOf(h) <=> p \in 0..(Len(h) - 1) /\ t = h[p + 1]
<1>1. Len(h) \in Nat
  BY LenProperties
<1>2. ASSUME NEW i \in 1..Len(h), <<p, t>> = <<i - 1, h[i]>>
      PROVE  p \in 0..(Len(h) - 1) /\ t = h[p + 1]
  BY <1>1, <1>2
<1>3. ASSUME p \in 0..(Len(h) - 1), t = h[p + 1]
      PROVE  <<p, t>> \in RowsOf(h)
  <2>1. p + 1 \in 1..Len(h) /\ (p + 1) - 1 = p
    BY <1>1, <1>3
  <2>2. <<(p + 1) - 1, h[p + 1]>> \in RowsOf(h)
    BY <2>1 DEF RowsOf
  <2>. QED  BY <1>3, <2>1, <2>2
<1>. QED  BY <1>2, <1>3 DEF RowsOf

(* A placed token is a position and a token.                               *)
LEMMA RowsOfPairs ==
  ASSUME NEW h \in Seq(Token), NEW row \in RowsOf(h)
  PROVE  row = <<row[1], row[2]>> /\ row[1] \in Nat
<1>1. Len(h) \in Nat
  BY LenProperties
<1>. QED  BY <1>1 DEF RowsOf

(* What a sequence holds is its transcript, and has the transcript's size. *)
LEMMA RowsAreTranscript ==
  ASSUME kv \in SUBSET CellSet, NEW s \in Sequences, NEW h \in Seq(Token), Spells(kv, s, h)
  PROVE  Rows(s) = RowsOf(h)
<1>1. Len(h) \in Nat
  BY LenProperties
<1>2. ASSUME NEW c \in Held(kv, s) PROVE <<c.pos, c.tok>> \in RowsOf(h)
  <2>1. c.pos \in Nat /\ c.pos < Len(h) /\ c.tok = h[c.pos + 1]
    BY DEF Spells, Held, CellSet
  <2>. QED  BY <1>1, <2>1, RowsOfMember
<1>3. ASSUME NEW i \in 1..Len(h) PROVE <<i - 1, h[i]>> \in Rows(s)
  <2>1. PICK c \in Held(kv, s) : c.pos = i - 1
    BY DEF Spells
  <2>2. c.tok = h[c.pos + 1] /\ c.pos + 1 = i
    BY <1>1, <2>1 DEF Spells
  <2>. QED  BY <2>1, <2>2 DEF Rows
<1>. QED  BY <1>2, <1>3 DEF Rows, RowsOf

(* As many tokens are placed as there are.                                 *)
LEMMA RowsOfSize ==
  ASSUME NEW h \in Seq(Token)
  PROVE  Cardinality(RowsOf(h)) = Len(h)
<1>. DEFINE f == [i \in 1..Len(h) |-> <<i - 1, h[i]>>]
<1>1. PICK n \in Nat : n = Len(h)
  BY LenProperties
<1>2. IsFiniteSet(1..n) /\ Cardinality(1..n) = n
  <2>1. 1 \in Int /\ n \in Int
    OBVIOUS
  <2>2. /\ IsFiniteSet(1..n)
        /\ Cardinality(1..n) = IF 1 > n THEN 0 ELSE n - 1 + 1
    BY <2>1, FS_Interval
  <2>. QED  BY <2>2
<1>3. f \in Bijection(1..n, RowsOf(h))
  <2>1. f \in [1..n -> RowsOf(h)]
    BY <1>1 DEF RowsOf
  <2>2. ASSUME NEW i \in 1..n, NEW j \in 1..n, f[i] = f[j] PROVE i = j
    BY <1>1, <2>2
  <2>3. ASSUME NEW row \in RowsOf(h) PROVE \E i \in 1..n : f[i] = row
    BY <1>1 DEF RowsOf
  <2>. HIDE DEF f
  <2>. QED  BY <2>1, <2>2, <2>3 DEF Bijection, Injection, Surjection, IsInjective
<1>4. ExistsBijection(1..n, RowsOf(h))
  BY <1>3 DEF ExistsBijection
<1>. QED  BY <1>1, <1>2, <1>4, FS_Bijection

(* Each change of a transcript is a change PrivateCache allows of a cache. *)
LEMMA PlacedKept ==
  ASSUME NEW h \in Seq(Token), NEW n \in Nat, n <= Len(h)
  PROVE  RowsOf(Keep(h, n)) = Private!Prefix(RowsOf(h), n)
<1>. DEFINE k == Keep(h, n)
<1>1. k \in Seq(Token) /\ Len(k) = n /\ (\A i \in 1..n : k[i] = h[i]) /\ Len(h) \in Nat
  BY CutUpType, LenProperties
<1>. HIDE DEF k
<1>2. ASSUME NEW p, NEW t
      PROVE  <<p, t>> \in RowsOf(k) <=> <<p, t>> \in RowsOf(h) /\ p < n
  <2>1. p \in 0..(n - 1) => p + 1 \in 1..n
    OBVIOUS
  <2>2. p \in 0..(n - 1) <=> p \in 0..(Len(h) - 1) /\ p < n
    BY <1>1
  <2>3. <<p, t>> \in RowsOf(k) <=> p \in 0..(n - 1) /\ t = k[p + 1]
    BY <1>1, RowsOfMember
  <2>4. <<p, t>> \in RowsOf(h) <=> p \in 0..(Len(h) - 1) /\ t = h[p + 1]
    BY RowsOfMember
  <2>. QED  BY <1>1, <2>1, <2>2, <2>3, <2>4
<1>3. \A row \in RowsOf(k) \cup RowsOf(h) : row = <<row[1], row[2]>>
  BY <1>1, RowsOfPairs
<1>4. RowsOf(k) = {row \in RowsOf(h) : row[1] < n}
  BY <1>2, <1>3
<1>. QED  BY <1>4 DEF Private!Prefix, k

(* Tokens decoded behind a transcript are placed behind it.                *)
LEMMA PlacedBehind ==
  ASSUME NEW h \in Seq(Token), NEW w \in Seq(Token)
  PROVE  RowsOf(h \o w) = RowsOf(h) \cup Private!Placed(w, Len(h))
<1>. DEFINE k == h \o w
<1>1. PICK m \in Nat, n \in Nat : m = Len(h) /\ n = Len(w) /\ DOMAIN w = 1..n
  BY LenProperties
<1>2. /\ k \in Seq(Token) /\ Len(k) = m + n
      /\ \A i \in 1..(m + n) : k[i] = IF i <= m THEN h[i] ELSE w[i - m]
  BY <1>1, ConcatProperties
<1>. HIDE DEF k
<1>3. ASSUME NEW i \in 1..(m + n)
      PROVE  <<i - 1, k[i]>> \in RowsOf(h) \cup Private!Placed(w, m)
  <2>1. CASE i <= m
    <3>1. i \in 1..m /\ k[i] = h[i]
      BY <1>2, <2>1
    <3>. QED  BY <1>1, <3>1 DEF RowsOf
  <2>2. CASE i > m
    <3>1. i - m \in 1..n /\ k[i] = w[i - m] /\ m + (i - m) - 1 = i - 1
      BY <1>2, <2>2
    <3>2. <<m + (i - m) - 1, w[i - m]>> \in Private!Placed(w, m)
      BY <1>1, <3>1 DEF Private!Placed
    <3>. QED  BY <3>1, <3>2
  <2>. QED  BY <2>1, <2>2
<1>4. ASSUME NEW i \in 1..m PROVE <<i - 1, h[i]>> \in RowsOf(k)
  <2>1. i \in 1..(m + n) /\ k[i] = h[i]
    BY <1>2
  <2>. QED  BY <1>2, <2>1 DEF RowsOf
<1>5. ASSUME NEW i \in 1..n PROVE <<m + i - 1, w[i]>> \in RowsOf(k)
  <2>1. m + i \in 1..(m + n) /\ ~(m + i <= m) /\ (m + i) - m = i
    OBVIOUS
  <2>2. k[m + i] = w[i]
    BY <1>2, <2>1
  <2>3. <<(m + i) - 1, k[m + i]>> \in RowsOf(k)
    BY <1>2, <2>1 DEF RowsOf
  <2>. QED  BY <2>2, <2>3
<1>6. RowsOf(k) = RowsOf(h) \cup Private!Placed(w, m)
  <2>1. RowsOf(k) \subseteq RowsOf(h) \cup Private!Placed(w, m)
    BY <1>2, <1>3 DEF RowsOf
  <2>2. RowsOf(h) \subseteq RowsOf(k)
    BY <1>1, <1>4 DEF RowsOf
  <2>3. Private!Placed(w, m) \subseteq RowsOf(k)
    BY <1>1, <1>5 DEF Private!Placed
  <2>. QED  BY <2>1, <2>2, <2>3
<1>. QED  BY <1>1, <1>6 DEF k

(* An eviction keeps the head in place and moves the rest down.            *)
LEMMA PlacedShifted ==
  ASSUME NEW h \in Seq(Token), NEW head \in Nat, NEW n \in Nat, head + n <= Len(h)
  PROVE  RowsOf(Without(h, [head |-> head, n |-> n]))
           = Private!Prefix(RowsOf(h), head) \cup
             {<<row[1] - n, row[2]>> : row \in {r \in RowsOf(h) : r[1] >= head + n}}
<1>. DEFINE k     == Without(h, [head |-> head, n |-> n])
            moved == {<<row[1] - n, row[2]>> : row \in {r \in RowsOf(h) : r[1] >= head + n}}
<1>1. PICK m \in Nat : m = Len(h) /\ head + n <= m
  BY LenProperties
<1>2. /\ Len(k) = m - n
      /\ \A i \in 1..(m - n) : k[i] = IF i <= head THEN h[i] ELSE h[i + n]
  BY ONLY <1>1, WithoutFacts, h \in Seq(Token), head \in Nat, n \in Nat
<1>. HIDE DEF k
<1>3. ASSUME NEW i \in 1..(m - n)
      PROVE  <<i - 1, k[i]>> \in Private!Prefix(RowsOf(h), head) \cup moved
  <2>1. CASE i <= head
    <3>1. i \in 1..m /\ k[i] = h[i] /\ i - 1 < head
      BY <1>1, <1>2, <2>1
    <3>2. <<i - 1, h[i]>> \in RowsOf(h)
      BY <1>1, <3>1 DEF RowsOf
    <3>. QED  BY <3>1, <3>2 DEF Private!Prefix
  <2>2. CASE i > head
    <3>1. i + n \in 1..m /\ k[i] = h[i + n] /\ (i + n) - 1 >= head + n
          /\ ((i + n) - 1) - n = i - 1
      BY <1>1, <1>2, <2>2
    <3>2. <<(i + n) - 1, h[i + n]>> \in RowsOf(h)
      BY <1>1, <3>1 DEF RowsOf
    <3>3. PICK row \in RowsOf(h) : row = <<(i + n) - 1, h[i + n]>>
      BY <3>2
    <3>4. row[1] = (i + n) - 1 /\ row[2] = h[i + n]
      BY <3>3
    <3>5. <<row[1] - n, row[2]>> \in moved
      BY <3>1, <3>4
    <3>. QED  BY <3>1, <3>4, <3>5
  <2>. QED  BY <2>1, <2>2
<1>4. ASSUME NEW i \in 1..m, i - 1 < head PROVE <<i - 1, h[i]>> \in RowsOf(k)
  <2>1. i \in 1..(m - n) /\ k[i] = h[i]
    BY <1>1, <1>2, <1>4
  <2>. QED  BY <1>2, <2>1 DEF RowsOf
<1>5. ASSUME NEW i \in 1..m, i - 1 >= head + n PROVE <<(i - 1) - n, h[i]>> \in RowsOf(k)
  <2>1. i - n \in 1..(m - n) /\ ~(i - n <= head) /\ (i - n) + n = i /\ (i - n) - 1 = (i - 1) - n
    BY <1>1, <1>5
  <2>2. k[i - n] = h[i]
    BY <1>2, <2>1
  <2>3. <<(i - n) - 1, k[i - n]>> \in RowsOf(k)
    BY <1>2, <2>1 DEF RowsOf
  <2>. QED  BY <2>1, <2>2, <2>3
<1>6. RowsOf(k) \subseteq Private!Prefix(RowsOf(h), head) \cup moved
  BY <1>2, <1>3 DEF RowsOf
<1>7. Private!Prefix(RowsOf(h), head) \subseteq RowsOf(k)
  BY <1>1, <1>4 DEF RowsOf, Private!Prefix
<1>8. moved \subseteq RowsOf(k)
  BY <1>1, <1>5 DEF RowsOf
<1>. QED  BY <1>6, <1>7, <1>8 DEF k

(* The five ways in which a step may change its own transcript, given what *)
(* the transcripts were.                                                   *)
KeepsSome(h, k) == \E n \in 0..Len(h) : k = Keep(h, n)

Appends(h, k) == \E w \in UNION {[1..n -> Token] : n \in 0..ChunkLimit} : k = h \o w

Evicts(h, k) == \E head, n \in Nat : head + n <= Len(h)
                                     /\ k = Without(h, [head |-> head, n |-> n])

Adopts(s, k) == \E d \in Sequences \ {s} : \E n \in 1..Len(Transcript(d)) :
                  k = Keep(Transcript(d), n)

(* A whole transcript is one of its prefixes, and so is the empty one.     *)
LEMMA KeepsEnds ==
  ASSUME NEW h \in Seq(Token)
  PROVE  KeepsSome(h, h) /\ KeepsSome(h, <<>>)
<1>1. PICK m \in Nat : m = Len(h)
  BY LenProperties
<1>2. Keep(h, m) = h
  BY <1>1, SubSeqFull DEF Keep
<1>3. Keep(h, 0) = <<>>
  <2>1. Keep(h, 0) \in Seq(Token) /\ Len(Keep(h, 0)) = 0
    BY <1>1, CutUpType
  <2>. QED  BY ONLY <2>1, EmptySeq
<1>4. m \in 0..Len(h) /\ 0 \in 0..Len(h)
  BY <1>1
<1>. QED  BY <1>2, <1>3, <1>4 DEF KeepsSome

(* A submission carries at most ChunkLimit tokens.                         *)
LEMMA ChunkIsAllowed ==
  ASSUME TypeOK, NEW s \in Sequences
  PROVE  Chunk(s) \in UNION {[1..n -> Token] : n \in 0..ChunkLimit}
<1>1. PICK m \in Nat : m = Len(todo[s]) /\ todo[s] \in Seq(Token)
  BY LenProperties DEF TypeOK
<1>2. PICK n \in 0..ChunkLimit : n = Lesser(ChunkLimit, m) /\ n <= m /\ n \in Nat
  BY CacheAssumption DEF Lesser
<1>3. Chunk(s) \in Seq(Token) /\ Len(Chunk(s)) = n
  BY <1>1, <1>2, CutUpType DEF Chunk, Keep
<1>4. Chunk(s) \in [1..n -> Token]
  BY <1>3, LenProperties, SeqDef
<1>. QED  BY <1>2, <1>4

(* Whatever a handle does changes its transcript in one of these ways.     *)
LEMMA OwnChange ==
  ASSUME LoadsWhole, Typed, NEW s \in Sequences, Step(s)
  PROVE  \/ KeepsSome(Transcript(s), Transcript(s)')
         \/ Appends(Transcript(s), Transcript(s)')
         \/ Evicts(Transcript(s), Transcript(s)')
         \/ Adopts(s, Transcript(s)')
         \/ Transcript(s)' \in Sessions
<1>. DEFINE h == Transcript(s)
            k == Transcript(s)'
            Goal == KeepsSome(h, k) \/ Appends(h, k) \/ Evicts(h, k) \/ Adopts(s, k)
                    \/ k \in Sessions
<1>. SUFFICES Goal
  OBVIOUS
<1>1. /\ history[s] \in Seq(Token) /\ prompt[s] \in Seq(Token)
      /\ Len(history[s]) \in Nat /\ Len(prompt[s]) \in Nat
  BY LenProperties DEF Typed, TypeOK
<1>2. ASSUME phase[s] \notin {"append", "erase"}
      PROVE  h = history[s]
  BY <1>2 DEF Transcript
<1>3. ASSUME phase'[s] \notin {"append", "erase"}
      PROVE  k = history'[s]
  BY <1>3 DEF Transcript
<1>4. h \in Seq(Token) => KeepsSome(h, h) /\ KeepsSome(h, <<>>)
  BY KeepsEnds
<1>. HIDE DEF h, k
<1>5. ASSUME phase[s] \notin {"append", "erase"}, phase'[s] \notin {"append", "erase"},
             history'[s] = history[s]
      PROVE  Goal
  BY <1>1, <1>2, <1>3, <1>4, <1>5
<1>6. ASSUME phase[s] \notin {"append", "erase"}, phase'[s] \notin {"append", "erase"},
             NEW n \in Nat, n <= Len(history[s]), history'[s] = Keep(history[s], n)
      PROVE  Goal
  <2>1. n \in 0..Len(h)
    BY <1>1, <1>2, <1>6
  <2>. QED  BY <1>2, <1>3, <1>6, <2>1 DEF KeepsSome
<1>7. CASE Handle(s)
  <2>1. CASE Create(s)
    BY <1>5, <2>1 DEF Create, Goto, engineVars, Typed, TypeOK
  <2>2. CASE Destroy(s) \/ Reset(s)
    <3>1. history'[s] = <<>> /\ phase[s] = "idle" /\ phase'[s] \in {"idle", "closed"}
      BY <2>2 DEF Destroy, Reset, Goto, Typed, TypeOK
    <3>. QED  BY <1>1, <1>2, <1>3, <1>4, <3>1
  <2>3. CASE LoadSession(s)
    <3>1. history'[s] \in Sessions /\ phase'[s] = "idle"
      BY <2>3 DEF LoadSession, Typed, TypeOK
    <3>. QED  BY <1>3, <3>1
  <2>4. CASE LoadRefused(s)
    BY <1>5, <2>4 DEF LoadRefused
  <2>. QED  BY <1>7, <2>1, <2>2, <2>3, <2>4 DEF Handle, LoadBroken, LoadsWhole
<1>8. CASE Enter(s)
  <2>1. ASSUME NEW p \in Prompts, NEW slide \in Slides, Start(s, p, slide)
        PROVE  Goal
    BY <1>5, <2>1 DEF Start, Goto, engineVars, Typed, TypeOK
  <2>2. ASSUME NEW p \in Prompts, NEW slide \in Slides,
               NEW n \in 1..Len(history[s]), StartRewound(s, p, slide, n)
        PROVE  Goal
    <3>1. n \in Nat /\ n <= Len(history[s])
      BY <1>1
    <3>2. phase[s] = "idle" /\ phase'[s] = "trim"
      BY <2>2 DEF StartRewound, Goto, Typed, TypeOK
    <3>3. history'[s] \in {history[s], Keep(history[s], n)}
      BY <2>2 DEF StartRewound, Typed, TypeOK
    <3>. QED  BY <1>5, <1>6, <3>1, <3>2, <3>3
  <2>3. CASE \E n \in 1..Len(history[s]) : RewindRefused(s, n)
    BY <1>5, <2>3 DEF RewindRefused
  <2>4. CASE Borrow(s)
    <3>1. PICK d \in Sequences, n \in Nat, already \in Nat :
            /\ Donor(s, d, n, already)
            /\ history' = [history EXCEPT ![s] = Keep(prompt[s], n)]
      <4>1. \A m \in 0..Len(prompt[s]) : m \in Nat
        BY <1>1
      <4>. QED  BY <2>4, <4>1 DEF Borrow
    <3>2. d # s /\ ~generating[d] /\ IsReusable(n, history[d], prompt[s]) /\ n > already
      BY <3>1 DEF Donor, MayLend
    <3>3. history[d] \in Seq(Token) /\ Len(history[d]) \in Nat
      BY LenProperties DEF Typed, TypeOK
    <3>4. n <= Len(history[d]) /\ n <= Len(prompt[s])
      BY <1>1, <3>2, <3>3 DEF IsReusable, Lesser
    <3>5. Transcript(d) = history[d]
      <4>1. phase[d] \notin {"append", "erase"}
        BY <3>2 DEF Typed, GeneratingInStep, InGeneration
      <4>. QED  BY <4>1 DEF Transcript
    <3>6. Keep(history[d], n) = Keep(prompt[s], n)
      <4>1. \A i \in 1..n : history[d][i] = prompt[s][i]
        BY <3>2 DEF IsReusable
      <4>2. /\ Keep(history[d], n) \in Seq(Token) /\ Len(Keep(history[d], n)) = n
            /\ \A i \in 1..n : Keep(history[d], n)[i] = history[d][i]
        BY <3>3, <3>4, CutUpType
      <4>3. /\ Keep(prompt[s], n) \in Seq(Token) /\ Len(Keep(prompt[s], n)) = n
            /\ \A i \in 1..n : Keep(prompt[s], n)[i] = prompt[s][i]
        BY <1>1, <3>4, CutUpType
      <4>. QED  BY <4>1, <4>2, <4>3, SeqEqual
    <3>7. k = Keep(Transcript(d), n)
      <4>1. history'[s] = Keep(prompt[s], n) /\ phase'[s] = "trim"
        BY <2>4, <3>1 DEF Borrow, Goto, Typed, TypeOK
      <4>. QED  BY <1>3, <3>5, <3>6, <4>1
    <3>8. n \in 1..Len(Transcript(d))
      BY <3>2, <3>3, <3>4, <3>5
    <3>. QED  BY <3>2, <3>7, <3>8 DEF Adopts
  <2>5. CASE NothingToBorrow(s)
    BY <1>5, <2>5 DEF NothingToBorrow, Goto, engineVars, Typed, TypeOK
  <2>6. CASE Trim(s)
    <3>1. PICK n \in Nat : TrimTo(s, n)
      <4>1. \A m \in 0..Len(prompt[s]) : m \in Nat
        BY <1>1
      <4>. QED  BY <2>6, <4>1 DEF Trim
    <3>2. phase[s] = "trim" /\ phase'[s] \in {"idle", "join"}
      BY <2>6 DEF Trim, Goto, Typed, TypeOK
    <3>3. CASE n < Len(history[s])
      <4>1. Survivors(n) \in Nat /\ Survivors(n) <= Len(history[s])
        BY <1>1, <3>3 DEF Survivors
      <4>2. history'[s] = Keep(history[s], Survivors(n))
        BY <3>1, <3>3 DEF TrimTo, KeptTranscript, Typed, TypeOK
      <4>. QED  BY <1>6, <3>2, <4>1, <4>2
    <3>4. CASE ~(n < Len(history[s]))
      BY <1>5, <3>1, <3>2, <3>4 DEF TrimTo
    <3>. QED  BY <3>3, <3>4
  <2>7. CASE Join(s)
    BY <1>5, <2>7 DEF Join, Goto, Typed, TypeOK
  <2>8. CASE PromptRefused(s)
    BY <1>5, <2>8 DEF PromptRefused, Goto, engineVars, Typed, TypeOK
  <2>9. CASE SamplerRefused(s)
    BY <1>5, <2>9 DEF SamplerRefused, Goto, engineVars, Typed, TypeOK
  <2>. QED  BY <1>8, <2>1, <2>2, <2>3, <2>4, <2>5, <2>6, <2>7, <2>8, <2>9 DEF Enter
<1>9. CASE Generate(s)
  <2>1. ASSUME Leave(s), phase[s] \notin {"append", "erase"}
        PROVE  Goal
    BY <1>5, <2>1 DEF Leave, Goto, Typed, TypeOK
  <2>2. CASE DecodeOk(s)
    <3>1. k = history[s] \o Chunk(s)
      BY <2>2 DEF k, DecodeOk, Transcript, Chunk, Goto, callVars, Typed, TypeOK
    <3>2. h = history[s]
      BY <1>2, <2>2 DEF DecodeOk
    <3>. QED  BY <3>1, <3>2, ChunkIsAllowed DEF Appends, Typed
  <2>3. CASE DecodeNoSlot(s)
    BY <1>5, <2>3 DEF DecodeNoSlot, Goto, engineVars, Typed, TypeOK
  <2>4. CASE DecodeFailed(s)
    BY <2>1, <2>4 DEF DecodeFailed
  <2>5. CASE AppendHistory(s)
    <3>1. h = history[s] \o Chunk(s)
      BY <2>5 DEF h, AppendHistory, Transcript
    <3>2. history'[s] = history[s] \o Chunk(s) /\ phase'[s] \in {"sample", "decode"}
      BY <2>5 DEF AppendHistory, Goto, engineVars, Typed, TypeOK
    <3>3. h \in Seq(Token)
      BY <1>1, <3>1, ChunkType, ConcatProperties DEF Typed
    <3>. QED  BY <1>3, <1>4, <3>1, <3>2, <3>3
  <2>6. CASE PlanEviction(s)
    BY <1>5, <2>6 DEF PlanEviction, WantsSpace, Full, Goto, engineVars, Typed, TypeOK
  <2>7. CASE CannotEvict(s)
    BY <2>1, <2>7 DEF CannotEvict, WantsSpace, Full
  <2>8. CASE ShiftCells(s)
    <3>1. PICK head \in Nat, n \in Nat : cut[s] = [head |-> head, n |-> n]
      BY DEF Typed, TypeOK
    <3>2. head + n <= Len(history[s])
      BY <2>8, <3>1 DEF ShiftCells, Typed, EvictionPlanHolds
    <3>3. h = history[s]
      BY <1>2, <2>8 DEF ShiftCells
    <3>4. k = Without(history[s], cut[s])
      BY <2>8 DEF k, ShiftCells, Transcript, Goto, callVars, Typed, TypeOK
    <3>. QED  BY <3>1, <3>2, <3>3, <3>4 DEF Evicts
  <2>9. CASE EraseHistory(s)
    <3>1. h = Without(history[s], cut[s])
      BY <2>9 DEF h, EraseHistory, Transcript
    <3>2. history'[s] = Without(history[s], cut[s]) /\ phase'[s] \in {"pick", "decode"}
      BY <2>9 DEF EraseHistory, Goto, engineVars, Typed, TypeOK
    <3>3. h \in Seq(Token)
      <4>1. TypeOK'
        BY <1>9, TypeOfGenerate DEF Typed
      <4>. QED  BY <3>1, <3>2, <4>1 DEF TypeOK
    <3>. QED  BY <1>3, <1>4, <3>1, <3>2, <3>3
  <2>10. ASSUME NEW t \in Sampled, Pick(s, t)
         PROVE  Goal
    BY <1>5, <2>10 DEF Pick, HasRoom, Goto, engineVars, Typed, TypeOK
  <2>11. CASE Stop(s)
    BY <2>1, <2>11 DEF Stop
  <2>. QED
    BY <1>9, <2>2, <2>3, <2>4, <2>5, <2>6, <2>7, <2>8, <2>9, <2>10, <2>11 DEF Generate
<1>. QED  BY <1>7, <1>8, <1>9 DEF Step, h, k

(* A transcript is a sequence of tokens, also while it is being changed.   *)
LEMMA TranscriptType ==
  ASSUME Typed, NEW s \in Sequences
  PROVE  Transcript(s) \in Seq(Token)
<1>1. history[s] \in Seq(Token) /\ Len(history[s]) \in Nat
  BY LenProperties DEF Typed, TypeOK
<1>2. CASE phase[s] = "append"
  BY <1>1, <1>2, ChunkType, ConcatProperties DEF Transcript, Typed
<1>3. CASE phase[s] = "erase"
  <2>1. PICK head \in Nat, n \in Nat, m \in Nat :
          cut[s] = [head |-> head, n |-> n] /\ m = Len(history[s]) /\ head + n <= m
    BY <1>1, <1>3 DEF Typed, TypeOK, EvictionPlanHolds
  <2>2. SubSeq(history[s], 1, head) \in Seq(Token)
    BY <1>1, <2>1, PiecesType
  <2>3. SubSeq(history[s], head + n + 1, m) \in Seq(Token)
    <3>1. head + n \in Nat
      OBVIOUS
    <3>. QED  BY <1>1, <2>1, <3>1, RestType
  <2>4. Without(history[s], cut[s]) \in Seq(Token)
    <3>1. Without(history[s], cut[s])
            = SubSeq(history[s], 1, head) \o SubSeq(history[s], head + n + 1, m)
      <4>1. cut[s].head = head /\ cut[s].n = n
        BY <2>1
      <4>. QED  BY <2>1, <4>1 DEF Without
    <3>. QED  BY <2>2, <2>3, <3>1, ConcatProperties
  <2>. QED  BY <1>3, <2>4 DEF Transcript
<1>. QED  BY <1>1, <1>2, <1>3 DEF Transcript

(* PrivateCache counts as this module does.                                *)
LEMMA SameCount ==
  \A S : Private!Cardinality(S) = Cardinality(S)
BY DEF Private!Cardinality, Cardinality

(* The positions of a placed transcript have no gaps.                      *)
LEMMA NoGaps ==
  ASSUME NEW h \in Seq(Token)
  PROVE  {row[1] : row \in RowsOf(h)} = 0..(Len(h) - 1)
<1>1. PICK m \in Nat : m = Len(h)
  BY LenProperties
<1>2. ASSUME NEW i \in 0..(m - 1) PROVE \E row \in RowsOf(h) : row[1] = i
  <2>1. i + 1 \in 1..m /\ (i + 1) - 1 = i
    OBVIOUS
  <2>2. <<(i + 1) - 1, h[i + 1]>> \in RowsOf(h)
    BY <1>1, <2>1 DEF RowsOf
  <2>. QED  BY <2>1, <2>2
<1>3. ASSUME NEW row \in RowsOf(h) PROVE row[1] \in 0..(m - 1)
  BY <1>1 DEF RowsOf
<1>. QED  BY <1>1, <1>2, <1>3

(* Each of the five changes of a transcript is one PrivateCache allows.    *)
LEMMA ChangeIsAllowed ==
  ASSUME NEW s \in Sequences, NEW h \in Seq(Token), NEW k \in Seq(Token),
         Cache[s] = RowsOf(h), Cache' = [Cache EXCEPT ![s] = RowsOf(k)],
         \A d \in Sequences : /\ Transcript(d) \in Seq(Token)
                              /\ Cache[d] = RowsOf(Transcript(d)),
         \/ KeepsSome(h, k) \/ Appends(h, k) \/ Evicts(h, k)
         \/ Adopts(s, k) \/ k \in Sessions
  PROVE  Private!Next \/ Cache' = Cache
<1>1. PICK m \in Nat : m = Len(h)
  BY LenProperties
<1>2. \A t \in Sequences : Private!Size(t) = Cardinality(Cache[t])
  BY SameCount DEF Private!Size
<1>3. Private!Size(s) = m
  BY <1>1, <1>2, RowsOfSize
<1>4. ASSUME RowsOf(k) = RowsOf(h) PROVE Cache' = Cache
  BY <1>4 DEF Cache
<1>5. CASE KeepsSome(h, k)
  <2>1. PICK n \in 0..m : k = Keep(h, n)
    BY <1>1, <1>5 DEF KeepsSome
  <2>2. CASE n = m
    BY <1>1, <1>4, <2>1, <2>2, SubSeqFull DEF Keep
  <2>3. CASE n < m
    <3>1. RowsOf(k) = Private!Prefix(RowsOf(h), n)
      BY <1>1, <2>1, PlacedKept
    <3>2. n \in 0..(Private!Size(s) - 1)
      BY <1>3, <2>3
    <3>3. Private!Truncate(s)
      BY <3>1, <3>2 DEF Private!Truncate, Cache
    <3>. QED  BY <3>3 DEF Private!Next
  <2>. QED  BY <2>2, <2>3
<1>6. CASE Appends(h, k)
  <2>1. PICK w \in UNION {[1..n -> Token] : n \in 0..ChunkLimit} : k = h \o w
    BY <1>6 DEF Appends
  <2>2. w \in Seq(Token)
    BY CacheAssumption, SeqDef
  <2>3. RowsOf(k) = RowsOf(h) \cup Private!Placed(w, m)
    BY <1>1, <2>1, <2>2, PlacedBehind
  <2>4. {row[1] : row \in Cache[s]} = 0..(Private!Size(s) - 1)
    BY <1>1, <1>3, NoGaps
  <2>5. Private!Extend(s)
    BY <1>3, <2>3, <2>4 DEF Private!Extend, Cache
  <2>. QED  BY <2>5 DEF Private!Next
<1>7. CASE Evicts(h, k)
  <2>1. PICK head \in Nat, n \in Nat :
          head + n <= m /\ k = Without(h, [head |-> head, n |-> n])
    BY <1>1, <1>7 DEF Evicts
  <2>2. RowsOf(k) = Private!Prefix(RowsOf(h), head) \cup
          {<<row[1] - n, row[2]>> : row \in {r \in RowsOf(h) : r[1] >= head + n}}
    BY <1>1, <2>1, PlacedShifted
  <2>3. CASE n = 0
    <3>1. k = h
      <4>1. Len(k) = m - n /\ \A i \in 1..(m - n) : k[i] = IF i <= head THEN h[i] ELSE h[i + n]
        BY ONLY SMTT(30), <1>1, <2>1, WithoutFacts, h \in Seq(Token)
      <4>2. Len(k) = m /\ \A i \in 1..m : k[i] = h[i]
        BY <2>3, <4>1
      <4>. QED  BY ONLY <1>1, <4>2, SeqEqual, h \in Seq(Token), k \in Seq(Token)
    <3>. QED  BY <1>4, <3>1
  <2>4. CASE n > 0
    <3>1. n \in 1..Private!Size(s) /\ head \in 0..(Private!Size(s) - n)
      BY <1>3, <2>1, <2>4
    <3>2. Cache' = [Cache EXCEPT ![s] = Private!Prefix(Cache[s], head) \cup
            {<<row[1] - n, row[2]>> : row \in {r \in Cache[s] : r[1] >= head + n}}]
      BY <2>2
    <3>3. Private!Shift(s)
      BY <3>1, <3>2 DEF Private!Shift
    <3>. QED  BY <3>3 DEF Private!Next
  <2>. QED  BY <2>3, <2>4
<1>8. CASE Adopts(s, k)
  <2>1. PICK d \in Sequences \ {s} : \E n \in 1..Len(Transcript(d)) : k = Keep(Transcript(d), n)
    BY <1>8 DEF Adopts
  <2>2. PICK n \in 1..Len(Transcript(d)) : k = Keep(Transcript(d), n)
    BY <2>1
  <2>3. Len(Transcript(d)) \in Nat
    BY LenProperties
  <2>4. n \in Nat /\ n <= Len(Transcript(d))
    BY <2>3
  <2>5. RowsOf(k) = Private!Prefix(Cache[d], n)
    BY <2>2, <2>4, PlacedKept
  <2>6. n \in 1..Private!Size(d)
    BY <1>2, RowsOfSize
  <2>7. Private!Adopt(s)
    BY <2>5, <2>6 DEF Private!Adopt, Cache
  <2>. QED  BY <2>7 DEF Private!Next
<1>9. CASE k \in Sessions
  <2>1. RowsOf(k) = Private!Placed(k, 0)
    <3>1. DOMAIN k = 1..Len(k) /\ Len(k) \in Nat
      BY LenProperties
    <3>2. \A i \in 1..Len(k) : <<0 + i - 1, k[i]>> = <<i - 1, k[i]>>
      BY <3>1
    <3>. QED  BY <3>1, <3>2, Zenon DEF RowsOf, Private!Placed
  <2>2. Private!Restore(s)
    BY <1>9, <2>1 DEF Private!Restore, Cache
  <2>. QED  BY <2>2 DEF Private!Next
<1>. QED  BY <1>5, <1>6, <1>7, <1>8, <1>9

(* What a sequence holds is its transcript, in every state.                *)
LEMMA HoldsTranscript ==
  ASSUME NEW s \in Sequences
  PROVE  Typed /\ HistoryMirrorsKV
           => Transcript(s) \in Seq(Token) /\ Rows(s) = RowsOf(Transcript(s))
<1>. SUFFICES ASSUME Typed, HistoryMirrorsKV
              PROVE  Transcript(s) \in Seq(Token) /\ Rows(s) = RowsOf(Transcript(s))
  OBVIOUS
<1>1. kv \in SUBSET CellSet /\ Spells(kv, s, Transcript(s))
  BY DEF Typed, TypeOK, CellSet, HistoryMirrorsKV
<1>. QED  BY <1>1, TranscriptType, RowsAreTranscript

(* And in the next one.                                                    *)
LEMMA HoldsTranscriptNext ==
  ASSUME NEW s \in Sequences
  PROVE  (Typed /\ HistoryMirrorsKV
           => Transcript(s) \in Seq(Token) /\ Rows(s) = RowsOf(Transcript(s)))'
BY HoldsTranscript, PTL

(* So every step of the engine is one of PrivateCache, or is not visible.  *)
LEMMA RefinedStep ==
  ASSUME LoadsWhole, Typed, MarkedIfShifted, HistoryMirrorsKV, [Next]_vars
  PROVE  Private!Next \/ Cache' = Cache
<1>1. CASE UNCHANGED vars
  BY <1>1 DEF vars, Cache, Rows, Held
<1>2. ASSUME NEW s \in Sequences, Step(s) PROVE Private!Next \/ Cache' = Cache
  <2>1. Next
    BY <1>2 DEF Next, Step
  <2>2. Typed' /\ HistoryMirrorsKV'
    BY <2>1, TypedStep, MirrorStep
  <2>3. \A d \in Sequences : Transcript(d) \in Seq(Token) /\ Rows(d) = RowsOf(Transcript(d))
    BY HoldsTranscript
  <2>4. Transcript(s)' \in Seq(Token) /\ Rows(s)' = RowsOf(Transcript(s)')
    BY <2>2, HoldsTranscriptNext DEF RowsOf
  <2>5. \A t \in Sequences \ {s} : Rows(t)' = Rows(t)
    BY <1>2, RowsStep DEF RowsIn, Rows
  <2>6. Cache' = [Cache EXCEPT ![s] = RowsOf(Transcript(s)')]
    BY <2>4, <2>5 DEF Cache
  <2>7. Cache[s] = RowsOf(Transcript(s))
    BY <2>3 DEF Cache
  <2>. QED
    <3>1. \A d \in Sequences : Transcript(d) \in Seq(Token) /\ Cache[d] = RowsOf(Transcript(d))
      BY <2>3 DEF Cache
    <3>. QED  BY <1>2, <2>3, <2>4, <2>6, <2>7, <3>1, OwnChange, ChangeIsAllowed
<1>. QED  BY <1>1, <1>2 DEF Next, Step

(* Every handle of an engine is served as if its cache were its own        *)
(* (batch_engine.h): each step of the engine is a step of PrivateCache for *)
(* the handle that takes it, or changes no handle's cache.                 *)
THEOREM CachesLookPrivate ==
  ASSUME ShiftsSafely, LoadsWhole
  PROVE  Spec => ImplementsPrivateCache
<1>1. Init => Private!Init
  BY DEF Init, Private!Init, Cache, Rows, Held
<1>2. Typed /\ MarkedIfShifted /\ HistoryMirrorsKV /\ [Next]_vars
        => [Private!Next]_Cache
  BY RefinedStep
<1>. QED
  BY <1>1, <1>2, TypedAlways, MarkedWhereShifted, TranscriptMirrorsCache, PTL
     DEF Spec, ImplementsPrivateCache, Private!Spec
=============================================================================

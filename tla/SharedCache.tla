----------------------------- MODULE SharedCache -----------------------------
(***************************************************************************)
(* One batching engine of the llama.cpp plugin (BatchEngine) and the       *)
(* handles on it (LlamaCppLlm): the unified KV cache they share, who holds *)
(* which cell, the transcripts the handles keep of their own sequences,    *)
(* and every operation that moves cells or transcripts: create, destroy,   *)
(* reset, loading a session, and the steps of a generation.                *)
(*                                                                         *)
(* One action is one critical section of the engine's mutex, or the        *)
(* handle's own work between two of them when a sibling could look at what *)
(* it writes.  llama_decode runs with the mutex held, so a decode is one   *)
(* step here; how submissions are packed into rounds is module BatchRounds.*)
(*                                                                         *)
(* The KV cache is a set of cells.  A cell carries its position, the token *)
(* it was computed from, and the set of sequences that hold it; sharing is *)
(* a cell with several holders (llama_memory_seq_cp copies nothing).       *)
(***************************************************************************)
EXTENDS Integers, Sequences, FiniteSets

CONSTANTS
  Capacity,      \* n_seq_max: handles one context may serve
  Window,        \* context_size(): tokens one sequence may hold
  Token,         \* the vocabulary
  Sampled,       \* the tokens the model generates, end of turn apart
  Prompts,       \* tokenized prompts the callers send
  Slides,        \* sliding_window as the callers set it
  Sessions,      \* transcripts a session file may hold
  Pinned,        \* pinned_head_: first tokens a context shift keeps
  ChunkLimit,    \* tokens one submission carries (n_ubatch, at least 1)
  Shiftable,     \* shift_supported_: this model's memory can be shifted
  Trimmable,     \* llama_memory_seq_rm of a partial range succeeds
  LoadFailures   \* how loading a session may fail: "refused", "broken"

ASSUME CacheAssumption ==
  /\ Capacity \in Nat \ {0}
  /\ Window \in Nat \ {0}
  /\ Sampled \subseteq Token
  /\ Prompts \subseteq (Seq(Token) \ {<<>>})
  /\ Sessions \subseteq Seq(Token)
  /\ Pinned \in Nat \ {0}
  /\ ChunkLimit \in Nat \ {0}
  /\ Slides \subseteq BOOLEAN
  /\ {Shiftable, Trimmable} \subseteq BOOLEAN
  /\ LoadFailures \subseteq {"refused", "broken"}

Sequences == 0..(Capacity - 1)

(* A fault: the pool is created for one sequence only.                     *)
OneWindow == Window

(* The pool is created for every sequence at its full window.              *)
Pool == Capacity * Window

Phase == {"closed", "idle", "borrow", "trim", "join", "decode", "append",
          "noslot", "shift", "erase", "sample", "pick"}

(* The phases between join() and leave().                                  *)
InGeneration == {"decode", "append", "noslot", "shift", "erase",
                 "sample", "pick"}

VARIABLES
  kv,          \* the cells in use
  shared,      \* shared_prefix_: leading cells others may hold as well
  generating,  \* generating_: between join and leave
  history,     \* each handle's transcript, history_
  phase,       \* where the handle's thread is
  prompt,      \* the prompt of the running generate()
  past,        \* the n_past it asked for
  sliding,     \* sliding_window_ of the last generate()
  todo,        \* tokens handed to decode() that are not in the cache yet
  cut          \* the range an eviction is about to remove: head and n

vars == <<kv, shared, generating, history, phase,
          prompt, past, sliding, todo, cut>>

engineVars == <<kv, shared, generating>>
callVars == <<prompt, past, sliding, todo, cut>>

Lesser(a, b) == IF a <= b THEN a ELSE b
Greater(a, b) == IF a >= b THEN a ELSE b

-----------------------------------------------------------------------------
(* llama.cpp's unified KV cache, as far as this plugin relies on it.       *)

Cell(p, t, h) == [pos |-> p, tok |-> t, holders |-> h]

Held(cells, s) == {c \in cells : s \in c.holders}

From(n) == {p \in Nat : p >= n}

(* llama_memory_seq_rm: s lets go of its cells at these positions.         *)
SeqRm(cells, s, where) ==
  LET Rest(c) == IF c.pos \in where THEN c.holders \ {s} ELSE c.holders
  IN  {Cell(c.pos, c.tok, Rest(c)) : c \in {d \in cells : Rest(d) # {}}}

(* llama_memory_seq_cp: to joins the holders of from's first n cells.      *)
SeqCp(cells, from, to, n) ==
  {IF from \in c.holders /\ c.pos < n
     THEN Cell(c.pos, c.tok, c.holders \cup {to}) ELSE c : c \in cells}

(* llama_memory_seq_add with a negative delta: the cell itself moves, for  *)
(* every sequence that holds it.                                           *)
SeqAdd(cells, s, where, down) ==
  {IF s \in c.holders /\ c.pos \in where
     THEN Cell(c.pos - down, c.tok, c.holders) ELSE c : c \in cells}

Laid(s, tokens, base) ==
  {Cell(base + i - 1, tokens[i], {s}) : i \in DOMAIN tokens}

Fits(n) == Cardinality(kv) + n <= Pool

-----------------------------------------------------------------------------
(* The handle's own bookkeeping.                                           *)

(* A fault: the last token of the match is not compared.                   *)
IsReusableUnchecked(n, cached, wanted) ==
  /\ n \in 0..Lesser(Len(cached), Len(wanted) - 1)
  /\ \A i \in 1..(n - 1) : cached[i] = wanted[i]

(* Leading tokens two sequences have in common, one of `wanted` always     *)
(* being left to evaluate.                                                 *)
IsReusable(n, cached, wanted) ==
  /\ n \in 0..Lesser(Len(cached), Len(wanted) - 1)
  /\ \A i \in 1..n : cached[i] = wanted[i]
  /\ n < Lesser(Len(cached), Len(wanted) - 1) => cached[n + 1] # wanted[n + 1]

Keep(h, n) == SubSeq(h, 1, n)

Without(h, c) == SubSeq(h, 1, c.head) \o SubSeq(h, c.head + c.n + 1, Len(h))

Chunk(s) == SubSeq(todo[s], 1, Lesser(ChunkLimit, Len(todo[s])))

Afterwards(s) == SubSeq(todo[s], Len(Chunk(s)) + 1, Len(todo[s]))

NoCut == [head |-> 0, n |-> 0]

Goto(s, p) == phase' = [phase EXCEPT ![s] = p]

Forget(s, n) == shared' = [shared EXCEPT ![s] = Lesser(@, n)]

-----------------------------------------------------------------------------
Init ==
  /\ kv = {}
  /\ shared = [s \in Sequences |-> 0]
  /\ generating = [s \in Sequences |-> FALSE]
  /\ history = [s \in Sequences |-> <<>>]
  /\ phase = [s \in Sequences |-> "closed"]
  /\ prompt = [s \in Sequences |-> <<>>]
  /\ past = [s \in Sequences |-> 0]
  /\ sliding = [s \in Sequences |-> FALSE]
  /\ todo = [s \in Sequences |-> <<>>]
  /\ cut = [s \in Sequences |-> NoCut]

(* create(): the lowest free sequence id, and the transcript registered.   *)
Create(s) ==
  /\ phase[s] = "closed"
  /\ \A t \in 0..(s - 1) : phase[t] # "closed"
  /\ Goto(s, "idle")
  /\ UNCHANGED <<engineVars, history, callVars>>

(* clear_model(): release() drops the cells before the transcript goes.    *)
Destroy(s) ==
  /\ phase[s] = "idle"
  /\ kv' = SeqRm(kv, s, Nat)
  /\ shared' = [shared EXCEPT ![s] = 0]
  /\ generating' = [generating EXCEPT ![s] = FALSE]
  /\ history' = [history EXCEPT ![s] = <<>>]
  /\ Goto(s, "closed")
  /\ UNCHANGED callVars

(* A fault: the whole context is cleared, as reset() once did.             *)
ResetEverybody(s) ==
  /\ phase[s] = "idle"
  /\ kv' = {}
  /\ Forget(s, 0)
  /\ history' = [history EXCEPT ![s] = <<>>]
  /\ UNCHANGED <<generating, phase, callVars>>

Reset(s) ==
  /\ phase[s] = "idle"
  /\ kv' = SeqRm(kv, s, Nat)
  /\ Forget(s, 0)
  /\ history' = [history EXCEPT ![s] = <<>>]
  /\ UNCHANGED <<generating, phase, callVars>>

(* load_kv_cache(): the shared prefix is forgotten before the file is      *)
(* read; llama.cpp replaces the sequence's cells.                          *)
LoadSession(s) ==
  \E saved \in Sessions :
    /\ phase[s] = "idle"
    /\ Len(saved) <= Window
    /\ Forget(s, 0)
    /\ LET left == SeqRm(kv, s, Nat)
       IN  /\ Cardinality(left) + Len(saved) <= Pool
           /\ kv' = left \cup Laid(s, saved, 0)
    /\ history' = [history EXCEPT ![s] = saved]
    /\ UNCHANGED <<generating, phase, callVars>>

(* The file is missing or its header is wrong: nothing was touched.        *)
LoadRefused(s) ==
  /\ "refused" \in LoadFailures
  /\ phase[s] = "idle"
  /\ Forget(s, 0)
  /\ UNCHANGED <<kv, generating, history, phase, callVars>>

(* The cell data is damaged: llama.cpp has emptied the sequence by then.   *)
LoadBroken(s) ==
  /\ "broken" \in LoadFailures
  /\ phase[s] = "idle"
  /\ Forget(s, 0)
  /\ kv' = SeqRm(kv, s, Nat)
  /\ UNCHANGED <<generating, history, phase, callVars>>

-----------------------------------------------------------------------------
(* generate(), up to the first decode.                                     *)

(* n_past = 0: the longest cached prefix will be looked for.               *)
Start(s, p, slide) ==
  /\ phase[s] = "idle"
  /\ prompt' = [prompt EXCEPT ![s] = p]
  /\ sliding' = [sliding EXCEPT ![s] = slide]
  /\ Goto(s, "borrow")
  /\ UNCHANGED <<engineVars, history, past, todo, cut>>

(* n_past > 0: rewind this sequence to exactly n tokens first, and leave   *)
(* the siblings' caches alone.                                             *)
StartRewound(s, p, slide, n) ==
  /\ phase[s] = "idle"
  /\ n \in 1..Len(history[s])
  /\ n = Len(history[s]) \/ Trimmable
  /\ IF n < Len(history[s])
       THEN /\ Forget(s, n)
            /\ kv' = SeqRm(kv, s, From(n))
            /\ history' = [history EXCEPT ![s] = Keep(@, n)]
       ELSE UNCHANGED <<shared, kv, history>>
  /\ prompt' = [prompt EXCEPT ![s] = p]
  /\ past' = [past EXCEPT ![s] = n]
  /\ sliding' = [sliding EXCEPT ![s] = slide]
  /\ Goto(s, "trim")
  /\ UNCHANGED <<generating, todo, cut>>

(* A memory that cannot drop a tail refuses, after the mark was lowered.   *)
RewindRefused(s, n) ==
  /\ phase[s] = "idle"
  /\ ~Trimmable
  /\ n \in 1..(Len(history[s]) - 1)
  /\ Forget(s, n)
  /\ UNCHANGED <<kv, generating, history, phase, callVars>>

(* A fault: generating siblings are not skipped.                           *)
MayAlwaysLend(d, s) == d # s /\ phase[d] # "closed"

(* A sibling whose transcript may be read: it exists and is not inside a   *)
(* generation.                                                             *)
MayLend(d, s) == d # s /\ phase[d] # "closed" /\ ~generating[d]

(* borrow_prefix(): the first of the siblings with the longest match, if   *)
(* that is longer than what this sequence holds itself.                    *)
Donor(s, d, n, already) ==
  /\ MayLend(d, s)
  /\ n > already
  /\ IsReusable(n, history[d], prompt[s])
  /\ \A t \in Sequences, m \in 0..Len(prompt[s]) :
       MayLend(t, s) /\ IsReusable(m, history[t], prompt[s])
         => m < n \/ (m = n /\ d <= t)

(* A fault: the donor's mark follows its latest loan.                      *)
MarkLatestLoan(s, d, n) == shared' = [shared EXCEPT ![s] = n, ![d] = n]

(* Neither end may shift what both hold now.                               *)
MarkLoan(s, d, n) == shared' = [shared EXCEPT ![s] = n, ![d] = Greater(@, n)]

Borrow(s) ==
  /\ phase[s] = "borrow"
  /\ \E d \in Sequences, n, already \in 0..Len(prompt[s]) :
       /\ IsReusable(already, history[s], prompt[s])
       /\ Donor(s, d, n, already)
       /\ kv' = SeqCp(SeqRm(kv, s, Nat), d, s, n)
       /\ MarkLoan(s, d, n)
       /\ history' = [history EXCEPT ![s] = Keep(prompt[s], n)]
  /\ Goto(s, "trim")
  /\ UNCHANGED <<generating, callVars>>

NothingToBorrow(s) ==
  /\ phase[s] = "borrow"
  /\ \E already \in 0..Len(prompt[s]) :
       /\ IsReusable(already, history[s], prompt[s])
       /\ ~ \E d \in Sequences, n \in 0..Len(prompt[s]) : Donor(s, d, n, already)
  /\ Goto(s, "trim")
  /\ UNCHANGED <<engineVars, history, callVars>>

(* A memory that cannot drop a tail loses everything.                      *)
Survivors(n) == IF n = 0 \/ Trimmable THEN n ELSE 0

(* A fault: the transcript keeps what such a memory lost.                  *)
KeptAnyway(h, n) == Keep(h, n)

KeptTranscript(h, n) == Keep(h, Survivors(n))

(* What is cached beyond the common prefix is stale.                       *)
TrimTo(s, n) ==
  IF n < Len(history[s])
    THEN /\ Forget(s, n)
         /\ kv' = SeqRm(kv, s, From(Survivors(n)))
         /\ history' = [history EXCEPT ![s] = KeptTranscript(@, n)]
    ELSE UNCHANGED <<shared, kv, history>>

(* Only a caller that asked for a sliding window may exceed it.            *)
Overflows(s) == ~(Shiftable /\ sliding[s]) /\ Len(prompt[s]) > Window

Trim(s) ==
  /\ phase[s] = "trim"
  /\ \E n \in 0..Len(prompt[s]) :
       IsReusable(n, history[s], prompt[s]) /\ TrimTo(s, n)
  /\ IF Overflows(s)
       THEN /\ Goto(s, "idle")
            /\ prompt' = [prompt EXCEPT ![s] = <<>>]
            /\ UNCHANGED todo
       ELSE /\ Goto(s, "join")
            /\ todo' = [todo EXCEPT ![s] =
                 SubSeq(prompt[s], Len(history'[s]) + 1, Len(prompt[s]))]
            /\ UNCHANGED prompt
  /\ past' = [past EXCEPT ![s] = 0]
  /\ UNCHANGED <<generating, sliding, cut>>

(* The prompt cannot be tokenized, which is found out after the rewind.    *)
PromptRefused(s) ==
  /\ phase[s] = "trim"
  /\ past[s] > 0
  /\ Goto(s, "idle")
  /\ prompt' = [prompt EXCEPT ![s] = <<>>]
  /\ past' = [past EXCEPT ![s] = 0]
  /\ UNCHANGED <<engineVars, history, sliding, todo, cut>>

(* No sampler can be made, of a malformed grammar for instance: by then    *)
(* the cache has been trimmed to this prompt.                              *)
SamplerRefused(s) ==
  /\ phase[s] = "join"
  /\ Goto(s, "idle")
  /\ prompt' = [prompt EXCEPT ![s] = <<>>]
  /\ todo' = [todo EXCEPT ![s] = <<>>]
  /\ UNCHANGED <<engineVars, history, past, sliding, cut>>

Join(s) ==
  /\ phase[s] = "join"
  /\ generating' = [generating EXCEPT ![s] = TRUE]
  /\ Goto(s, "decode")
  /\ UNCHANGED <<kv, shared, history, callVars>>

-----------------------------------------------------------------------------
(* generate(), from the prefill to the end.                                *)

(* Whatever ends a generation, leave() is the last thing it does.          *)
Leave(s) ==
  /\ generating' = [generating EXCEPT ![s] = FALSE]
  /\ prompt' = [prompt EXCEPT ![s] = <<>>]
  /\ sliding' = [sliding EXCEPT ![s] = FALSE]
  /\ todo' = [todo EXCEPT ![s] = <<>>]
  /\ Goto(s, "idle")
  /\ UNCHANGED <<kv, shared, history, past, cut>>

(* One chunk is evaluated: its cells are in the pool, the transcript does  *)
(* not say so yet.                                                         *)
DecodeOk(s) ==
  /\ phase[s] = "decode"
  /\ Fits(Len(Chunk(s)))
  /\ kv' = kv \cup Laid(s, Chunk(s), Len(history[s]))
  /\ Goto(s, "append")
  /\ UNCHANGED <<shared, generating, history, callVars>>

DecodeNoSlot(s) ==
  /\ phase[s] = "decode"
  /\ ~Fits(Len(Chunk(s)))
  /\ Goto(s, "noslot")
  /\ UNCHANGED <<engineVars, history, callVars>>

(* Any other return of llama_decode: the cache is as before the call.      *)
DecodeFailed(s) == phase[s] = "decode" /\ Leave(s)

AppendHistory(s) ==
  /\ phase[s] = "append"
  /\ history' = [history EXCEPT ![s] = @ \o Chunk(s)]
  /\ todo' = [todo EXCEPT ![s] = Afterwards(s)]
  /\ Goto(s, IF Afterwards(s) = <<>> THEN "sample" ELSE "decode")
  /\ UNCHANGED <<engineVars, prompt, past, sliding, cut>>

(* A fault: only the pinned head is left in place.                         *)
EvictHeadPinned(s) == Lesser(Pinned, Len(history[s]))

(* evict_for_space(): how much to drop, from what position on.             *)
EvictHead(s) == Lesser(Greater(Pinned, shared[s]), Len(history[s]))

EvictCount(s, incoming) ==
  LET cached == Len(history[s])
      room   == cached - EvictHead(s)
  IN  Lesser(Greater(room \div 2, cached + incoming - Window + 1), room)

Full(s) == phase[s] = "sample" /\ Len(history[s]) >= Window

WantsSpace(s) == phase[s] = "noslot" \/ Full(s)

Incoming(s) == IF phase[s] = "noslot" THEN Len(Chunk(s)) ELSE 1

CanEvict(s) == Shiftable /\ sliding[s] /\ EvictCount(s, Incoming(s)) > 0

(* The shared prefix is read under the lock, the shift takes it again.     *)
PlanEviction(s) ==
  /\ WantsSpace(s)
  /\ CanEvict(s)
  /\ cut' = [cut EXCEPT ![s] = [head |-> EvictHead(s),
                                n |-> EvictCount(s, Incoming(s))]]
  /\ Goto(s, "shift")
  /\ UNCHANGED <<engineVars, history, prompt, past, sliding, todo>>

(* Refused cells that cannot be made: an error.  No room for another token *)
(* of the reply: it ends, with "context_length".                           *)
CannotEvict(s) == WantsSpace(s) /\ ~CanEvict(s) /\ Leave(s)

(* A fault: what is behind the gap keeps its positions.                    *)
RemoveWithoutShift(s) ==
  LET head   == cut[s].head
      n      == cut[s].n
  IN  /\ phase[s] = "shift"
      /\ kv' = SeqRm(kv, s, head..(head + n - 1))
      /\ Forget(s, Len(history[s]) - n)
      /\ Goto(s, "erase")
      /\ UNCHANGED <<generating, history, callVars>>

(* A fault: the range to move starts at position zero.                     *)
ShiftHeadToo(s) ==
  LET head   == cut[s].head
      n      == cut[s].n
      cached == Len(history[s])
  IN  /\ phase[s] = "shift"
      /\ kv' = SeqAdd(SeqRm(kv, s, head..(head + n - 1)),
                      s, 0..(cached - 1), n)
      /\ Forget(s, cached - n)
      /\ Goto(s, "erase")
      /\ UNCHANGED <<generating, history, callVars>>

ShiftCells(s) ==
  LET head   == cut[s].head
      n      == cut[s].n
      cached == Len(history[s])
  IN  /\ phase[s] = "shift"
      /\ kv' = SeqAdd(SeqRm(kv, s, head..(head + n - 1)),
                      s, (head + n)..(cached - 1), n)
      /\ Forget(s, cached - n)
      /\ Goto(s, "erase")
      /\ UNCHANGED <<generating, history, callVars>>

(* The transcript follows.  A refused decode is submitted again; the       *)
(* generation loop goes on to sample.                                      *)
EraseHistory(s) ==
  /\ phase[s] = "erase"
  /\ history' = [history EXCEPT ![s] = Without(@, cut[s])]
  /\ cut' = [cut EXCEPT ![s] = NoCut]
  /\ Goto(s, IF todo[s] = <<>> THEN "pick" ELSE "decode")
  /\ UNCHANGED <<engineVars, prompt, past, sliding, todo>>

HasRoom(s) == phase[s] = "pick" \/ (phase[s] = "sample" /\ ~Full(s))

(* A token is picked, and handed to decode() before anyone sees it.        *)
Pick(s, t) ==
  /\ HasRoom(s)
  /\ todo' = [todo EXCEPT ![s] = <<t>>]
  /\ Goto(s, "decode")
  /\ UNCHANGED <<engineVars, history, prompt, past, sliding, cut>>

(* End of turn, stop sequence, budget spent, the caller's callback.        *)
Stop(s) == phase[s] \in {"sample", "pick"} /\ Leave(s)

-----------------------------------------------------------------------------
Handle(s) ==
  \/ Create(s) \/ Destroy(s) \/ Reset(s)
  \/ LoadSession(s) \/ LoadRefused(s) \/ LoadBroken(s)

Enter(s) ==
  \/ \E p \in Prompts, slide \in Slides :
       \/ Start(s, p, slide)
       \/ \E n \in 1..Len(history[s]) : StartRewound(s, p, slide, n)
  \/ \E n \in 1..Len(history[s]) : RewindRefused(s, n)
  \/ Borrow(s) \/ NothingToBorrow(s) \/ Trim(s) \/ Join(s)
  \/ PromptRefused(s) \/ SamplerRefused(s)

Generate(s) ==
  \/ DecodeOk(s) \/ DecodeNoSlot(s) \/ DecodeFailed(s) \/ AppendHistory(s)
  \/ PlanEviction(s) \/ CannotEvict(s) \/ ShiftCells(s) \/ EraseHistory(s)
  \/ (\E t \in Sampled : Pick(s, t)) \/ Stop(s)

Next == \E s \in Sequences : Handle(s) \/ Enter(s) \/ Generate(s)

Spec == Init /\ [][Next]_vars

-----------------------------------------------------------------------------
TypeOK ==
  /\ kv \subseteq [pos : Nat, tok : Token, holders : (SUBSET Sequences) \ {{}}]
  /\ shared \in [Sequences -> Nat]
  /\ generating \in [Sequences -> BOOLEAN]
  /\ history \in [Sequences -> Seq(Token)]
  /\ phase \in [Sequences -> Phase]
  /\ prompt \in [Sequences -> Seq(Token)]
  /\ past \in [Sequences -> Nat]
  /\ sliding \in [Sequences -> BOOLEAN]
  /\ todo \in [Sequences -> Seq(Token)]
  /\ cut \in [Sequences -> [head : Nat, n : Nat]]

(* A cell two sequences hold lies below the shared prefix of both, which   *)
(* is where neither may shift.  borrow_prefix() marks both ends; a trim    *)
(* lowers only the mark of the sequence that let go.                       *)
SharedRegionMarked ==
  \A c \in kv : \A s \in c.holders : c.holders # {s} => c.pos < shared[s]

(* evict_for_space() reads the shared prefix under one lock and shifts     *)
(* under the next.  What it planned still holds then: nobody was lent      *)
(* anything beyond the head in between, and the transcript did not shrink. *)
EvictionPlanHolds ==
  \A s \in Sequences :
    /\ phase[s] = "shift" => shared[s] <= cut[s].head
    /\ phase[s] \in {"shift", "erase"}
         => cut[s].head + cut[s].n <= Len(history[s])

(* The cells of s spell the tokens h, one cell per position from zero.     *)
Spells(cells, s, h) ==
  /\ \A c \in Held(cells, s) : c.pos < Len(h) /\ c.tok = h[c.pos + 1]
  /\ \A i \in 1..Len(h) : \E c \in Held(cells, s) : c.pos = i - 1
  /\ \A c, d \in Held(cells, s) : c.pos = d.pos => c = d

(* The transcript, plus what the handle's thread is about to write to it.  *)
Transcript(s) ==
  CASE phase[s] = "append" -> history[s] \o Chunk(s)
    [] phase[s] = "erase"  -> Without(history[s], cut[s])
    [] OTHER               -> history[s]

(* history_ mirrors the KV contents at all times: eviction, prefix reuse   *)
(* and lending reason about positions from it alone.                       *)
HistoryMirrorsKV == \A s \in Sequences : Spells(kv, s, Transcript(s))

(* Without a sliding window the model sees the caller's prompt, whole, in  *)
(* front of everything it generates, wherever its cells came from: between *)
(* join() and leave() the cells spell the transcript, what they spell and  *)
(* what is still to be decoded begins with the prompt, and a token is      *)
(* sampled only when all of the prompt is in the cells.                    *)
ConditionedOnPrompt ==
  \A s \in Sequences :
    generating[s] /\ ~sliding[s]
      => /\ Spells(kv, s, Transcript(s))
         /\ Len(prompt[s]) <= Len(history[s] \o todo[s])
         /\ SubSeq(history[s] \o todo[s], 1, Len(prompt[s])) = prompt[s]
         /\ HasRoom(s) => Len(prompt[s]) <= Len(history[s])

(* Sequences cannot crowd each other out of the cache: one that is refused *)
(* cells has itself no room left in its window.                            *)
NeverCrowdedOut ==
  \A s \in Sequences :
    phase[s] = "noslot" => Len(history[s]) + Len(Chunk(s)) > Window

Rows(s) == {<<c.pos, c.tok>> : c \in Held(kv, s)}

(* No step touches the cells of two sequences: whatever one handle does,   *)
(* its siblings' tokens stay where they are.                               *)
Isolation ==
  [][\E s \in Sequences :
       \A t \in Sequences \ {s} : Rows(t)' = Rows(t)]_vars

(* n_past > 0 is "explicit rewind to exactly this many retained tokens".   *)
(* For the record: it does not hold (README.md, Disagreements).            *)
RewindKeepsExactly ==
  [][\A s \in Sequences :
       past[s] > 0 /\ phase[s] = "trim" /\ phase'[s] = "join"
         => Len(history'[s]) = past[s]]_vars

(* What each sequence holds, whoever else holds the same cells.            *)
Cache == [s \in Sequences |-> Rows(s)]

(* Every handle is given what it would have on a cache of its own.         *)
Private ==
  INSTANCE PrivateCache WITH
    Chunks <- UNION {[1..n -> Token] : n \in 0..ChunkLimit},
    cache  <- Cache

ImplementsPrivateCache == Private!Spec
=============================================================================

# A TLA+ model of UniRT

UniRT is an on-device inference runtime: a C ABI over plugins (llama.cpp, MLX,
ONNX Runtime), with Python, Android and iOS bindings and an OpenAI-compatible
HTTP server. This directory holds TLA+ modules translated from its source, the
TLC configurations that check them, and TLAPS proofs.

What a program like this gets wrong without anyone noticing is state that is
shared or reused: several conversations on one KV cache, a cache reused for the
next prompt, a handle that outlives its backend, a mask computed for another
text. The reply is still fluent. The modules follow that state through every
operation that changes it.

Paths below are relative to `src/`; `llama_cpp/`, `mlx/` and `onnx/` stand for
`sdk/plugins/{llama_cpp,mlx,onnxruntime}/src/`.

## 1. The system

| component | state it keeps | operations | hard behaviour | what makes it correct |
|---|---|---|---|---|
| Batching engine, `llama_cpp/batch_engine.*` | the context and its unified KV cache; `claimed_`, `generating_`, `transcripts_`, `shared_prefix_`; `queue_`, `active_`, `logit_copies_` | claim, release, join, leave, decode, borrow_prefix, access | threads that generate, lend prefixes and drive rounds for each other; one output buffer; a pool that can run out | handles are isolated; each submission is answered once, on its own merits; logits are one's own; nobody waits for nobody |
| LLM handle, `llama_cpp/llm.*` | `history_`, `sliding_window_`, `pinned_head_`, `last_logits_`, the draft | create, reset, save and load session, generate, speculate | reuse of what earlier calls left, eviction in two critical sections, failures half way | `history_` mirrors the cache; replies are conditioned on the whole prompt; a draft changes no token |
| Engine and weight caches, `batch_engine.cpp:321-371`, `llama_cpp/weight_cache.cpp` | weak references by key | acquire | handles that open, fail and close at once | one copy per key; a seat has one owner |
| Stop sequences and UTF-8, `sdk/include/generation_state.h`, `sdk/src/utils.cpp` | text seen, text emitted, bytes held back | append, find and trim, emit, finish | matches split over tokens, characters over pieces | what is streamed agrees with the text returned |
| VLM and embedding handles, `llama_cpp/vlm.cpp`, `embedding.cpp` | the memory, positions, sessions per job | template, generate; encode, rerank | media in another order than markers; rows of many shapes; failures half way | each marker its file, each row its vector |
| MLX plugin, `mlx/` | cache buffers, transcript, grammar states, masks | generate, shift; compile, step, mask | forward passes that throw; masks reused | the transcript is the cache; a mask is exact |
| ONNX plugin, `onnx/embedding.cpp` | the chosen inputs and output | create, encode | graphs of many shapes | what was asked is fed; tokens are pooled as the handle declares |
| Handle table, `sdk/src/handle_registry.cpp` | slots with generations, free list | mint, resolve, release | stale handles, reuse | a closed handle never resolves |
| Runtime, registry and bridge, `sdk/src/runtime.cpp`, `registry.cpp`, `bridge_support.h`, `plugin_adapters.h` | running flag, plugins, live backends, tables | init, deinit, register, open, call, close | several threads, broken and old plugins, failures at each step | no call reaches unmapped code; tables are released once |
| HTTP server, `bindings/python/unirt/server.py` | slots of a model, resident models, pins | checkout, acquire, evict, reap, close | many request threads, clients that go away, a reaper | no slot or model serves two owners or is closed in use |
| Python model API, model store, command line, foreign-function layer, Android and iOS bindings, benchmark, device queries, plugin entry | see "Not modelled" | | | |

How they interact: the bindings call the ABI; an entrypoint checks its input,
the bridge resolves a handle to a backend object of a plugin, an adapter calls
the plugin's table of functions. An LLM handle of the llama.cpp plugin takes
weights from the weight cache and a seat on a batching engine, which it may
share with up to `n_seq_max` others; all of them call into one `llama_context`
under the engine's mutex, and each runs `generate()` on its caller's thread,
which sends the reply through the stop and UTF-8 filters to a callback. The
server pins a model and checks a handle out for each request.

`PROJECT.json` lists the hazards line by line, with the properties that cover
them.

## 2. Modules

| module | what it is |
|---|---|
| `SharedCache` | the unified KV cache, shared-prefix marks, transcripts, and every operation of a handle that changes them |
| `PrivateCache` | abstract: every handle has a cache of its own, changed only by its own requests |
| `BatchRounds` | the threads inside `BatchEngine::decode`: queue, held rounds, deadlines, packing, re-runs, wake-ups, logits |
| `DecodeService` | abstract: each submission is answered by itself; the atomic decode `SharedCache` is built on |
| `ModelSharing` | the weight cache and the engine cache between handles that open and close |
| `Speculation` | a reply made with a draft model |
| `PlainDecoding` | abstract: a reply made token by token |
| `TextStream` | stop sequences and UTF-8 between the sampler and the callback |
| `Llm` | `ModelSharing`, two instances of `Speculation` and `TextStream` put together, for any constants: what is checked and proved of them |
| `VlmHandle` | the vision-language handle of llama.cpp |
| `LlamaEmbedding`, `OnnxEmbedding` | the two embedding backends |
| `MlxSession` | the MLX language model's cache and transcript |
| `Backends` | `MlxSession`, `VlmHandle`, `LlamaEmbedding`, `OnnxEmbedding` and three instances of `JsonConstraint` put together, for any constants: what is checked and proved of them |
| `JsonConstraint` | constrained decoding: the automaton over a compiled grammar, its masks, and the requests that use them |
| `JsonSpelling` | abstract: the texts a grammar spells, as equations between sets |
| `JsonGrammar`, `JsonLanguage` | the compiler of schemas; the values a schema means, defined independently of it |
| `HandleTable`, `HandleMap` | the handle table; abstract: a map from words to backends |
| `Runtime` | lifecycle, plugin directory and the calls of several threads |
| `PluginBoundary` | one call through entrypoint, bridge, adapter and a plugin's table |
| `Bridge` | the handle table, `Runtime` and `PluginBoundary` put together, for any constants: what is checked and proved of them |
| `ModelServer` | slots and resident models under the server's requests |
| `MCSharedCache`, `MCBatchRounds`, `MCBridge`, `MCLlm`, `MCBackends`, `MCModelServer` | instances for TLC |
| `MCFamilies` | for `MCBackends`: ten schemas in three families, with what `JsonGrammar` and `JsonLanguage` give for them |
| `SharedCache_proofs`, `BatchRounds_proofs`, `Speculation_proofs`, `Llm_proofs` (with `ModelSharing`), `Bridge_proofs`, `Backends_proofs`, `JsonConstraint_proofs`, `ModelServer_proofs` | theorems |

An operator whose comment begins with "A fault:" is a bug the code might have
had; it stands before the definition it would replace and is used by no
specification.

### SharedCache

The KV cache `kv` is a set of cells `[pos, tok, holders]`. A cell with two
holders is what `llama_memory_seq_cp` makes in a unified cache. One action is
one critical section of the engine's mutex, or the handle's own work between
two of them where a sibling could look at what it writes. So `decode()` is
`DecodeOk` (cells laid, under the lock) and `AppendHistory` (the transcript,
after it), and `evict_for_space()` is `PlanEviction` (the mark is read under
the lock), `ShiftCells` (under the lock again) and `EraseHistory` (after it).

| code | action |
|---|---|
| `create`, `claim`, `register_transcript` | `Create` |
| `clear_model`, `release` | `Destroy` |
| `reset` | `Reset` |
| `load_kv_cache` | `LoadSession`, `LoadRefused` (file or header), `LoadBroken` (cell data) |
| `generate`: configuration and rewind | `Start`, `StartRewound`, `RewindRefused` |
| `borrow_prefix` | `Borrow`, `NothingToBorrow` |
| prefix trim, overflow check | `Trim` |
| tokenizer or sampler errors | `PromptRefused`, `SamplerRefused` |
| `join`, `leave` | `Join`, `Leave` |
| `decode` and its retry loop | `DecodeOk`, `DecodeNoSlot`, `DecodeFailed`, `AppendHistory` |
| `evict_for_space` | `PlanEviction`, `ShiftCells`, `EraseHistory`, `CannotEvict` |
| the sampling loop | `Pick`, `Stop` |

Abstracted: what the model says (any token of `Sampled`), text, stop sequences
and templates, budgets (a generation may stop after any token), the retry
status (module `BatchRounds`), and saving a session, which changes nothing.

`HistoryMirrorsKV` is the comment at `llm.cpp:756`, stated for every
interleaving: the cells of a sequence spell its transcript, plus what its own
thread is about to write. `SharedRegionMarked` is what makes lending sound.
`EvictionPlanHolds` says that a shift planned in one critical section may be
carried out in the next. `ConditionedOnPrompt` is what a caller relies on: during
a generation that does not slide, the cells of the sequence spell its transcript,
transcript and pending tokens begin with the prompt, and a token is sampled only
when all of the prompt is in the cells.
`NeverCrowdedOut` is the claim at `batch_engine.h:52`. `Isolation` says that no
step of a handle moves another one's tokens, and `ImplementsPrivateCache` that
each step is, for the handle concerned, a step on a cache of its own.

### BatchRounds

A thread that generates is `out`, `working` (sampling, or between two chunks),
inside `decode()` (`awake`: about to look at the queue, `asleep`: in
`wait_until`), or has been handed `retry`, `noslot` or `failed`. `Drive` is the
whole of `run_round()`, on whichever thread finds the queue complete or its own
deadline passed; the mutex is held through it, so it is one step, and `busy_` is
never seen set. `Packs` picks the participants oldest first, `Codes` is what
`llama_decode` may return, `Rerun` the diagnosis of a refused batch, `Publish`
the statuses, the logits rows and the `notify_all`. `Submit` covers the chunk
loop of `LlamaCppLlm::decode` and its resubmissions.

Not modelled: the `aborted` status (no abort callback is installed), the branch
for submissions larger than the batch (the chunk limit is never above it), the
`UNIRT_PREFILL_CHUNK` override, and spurious wake-ups, which only add turns at
looking at the queue. Cells are counted as if nothing had been lent.

`NobodyHeldForNothing` relates `active_`, the queue and who is awake: a complete
queue always has a thread up to drive it. `ResultsAreOwn` holds the promise at
`batch_engine.h:176`: a returned row stays the caller's own until it submits
again, whatever rounds others run. `TokensRideAlong` is the reason for the chunk
limit (`llm.cpp:712-732`). `HeadIsSettled` says no round is wasted.
`ImplementsDecodeService` says each submission gets the answer it would have got
by itself, `EverySubmissionServed` that it gets one.

### ModelSharing, Speculation, TextStream: what else an LLM handle is made of

`ModelSharing` follows a handle through `create()`: `Open` (the request),
`LoadWeights` (with the retry on the CPU), `TakeSeat` or `MakeEngine`
(`acquire_engine`, under its mutex), `Attach`, `LoadDraft`, each with its
refusal, and through `clear_model()`: `Vacate`, `LetGo`. Both caches hold weak
references, so an address is live as long as some handle holds it.

`Speculation` is the loop of `generate()` with a draft: `LoopHead` (the window,
eviction excluded), `NoDraft`, `SyncAndPropose` and `SyncFails` (`sync_draft`
and the proposals), `PickFirst`, `BatchDecoded`, `BatchSpoiled`, `BatchFails`
(the verification batch), `Agree`, `Diverge`, `RollbackRefused` (acceptance and
rollback), `PickPlain`, and `EmitEog`, `Emit`, `DecodeRefused`. The target is a
function from what it was asked about, chosen as it is asked (`says`), so two
paths that ask the same get the same answer. `ImplementsPlainDecoding` shows
that each step is one of `PlainDecoding` or a stutter.

`TextStream` works on bytes, as the code does: letters, the leads of two- and
three-byte characters, the continuation byte. `Piece` is what the loop does
with a token, `Capped`, `Eos`, `ContextFull`, `LogprobStops`, `DecodeFails` the
ways out of it, `Return` the tail of `generate()`.

### HandleTable, Runtime, PluginBoundary: the library between callers and plugins

`HandleTable` is `mint` and `resolve` of `handle_registry.cpp` under their
mutex: `Mint` (in a released slot or a new one) and `Release`. `stale` is a
history variable. `HandleMap` is what callers are promised.

`Runtime` has three mutexes, and plugin code runs under none of them, so a call
is as many actions as it has critical sections: `OpenMakes`, `OpenTracks` or
`OpenFails`; `CallResolves`, `CallReturns`; `CloseForgets`, `CloseDeletes`;
`DeinitChecks`, `DeinitUnloads`; `InitRuntime`, `InitFails`, `Register`,
`QueryLooksUp`. `Promises` says which of the documented rules callers keep. Its
handles are those of `HandleMap`, one per backend for good, which is what
`HandleTable` implements.

`PluginBoundary` follows one call from `Arrive` (output blanked, input checked
part by part as `bridge_support.h:216-239` does) through `Load`, `OpenPackage`,
`Mint`, `Adopt` and `Track` for an open, each with its failure, or `Dispatch`
and `Close`. A table is a length and a set of missing functions. A list of a
request is a count, whether there is a pointer, and whether an entry is blank; of
a vision handle's messages, one that counts contents it does not point to is
(`sdk/src/vlm.cpp:21-26`).

### VlmHandle, LlamaEmbedding, OnnxEmbedding, MlxSession, JsonConstraint

`VlmHandle`: `Create` (placement of text model and projector), `Template` and
`HandWritten` (how a prompt and its lists come about), `Ask`, `LoadNext` (one
file), `Tokenize`, `Evaluate`, `DecodeToken`, with every refusal. A prompt is
its sequence of media markers; text between them is a count.

`LlamaEmbedding`: `Encode` and `Rerank` check a batch, `Ensure` reuses or
remakes the session, `Evaluate` packs the rows, `PoolRow` pools one, `Deliver`
hands over. `OnnxEmbedding`: `Create` chooses inputs and output of a graph,
`Encode` checks, `Run` feeds, `Pool` pools; a vector is the set of columns it is
the mean of. CLS pooling takes the column at index zero even where it is masked.

`MlxSession`: `Ask` (rewind, settings), `Fit` (trim, shift, overflow),
`Prefill`, `MakeRoom`, `Commit`, and `ForwardFails`, `ShiftFails`, where a
forward pass throws at some layer. Buffers are kept per layer with their stale
contents, because trimming moves a mark only.

`JsonConstraint`: `Begin` takes the nodes of a schema, `Score` looks the mask
up or computes it (under the states themselves, where the code keeps it under
`state_signature()`, a string of all their fields, `json_constraint.cpp:587-599`),
`Sample` steps the automaton by each byte of a token. A stack
is a state of the code: the last frame is at work, those below wait for its
value. `Step` is `step_frame()`, one operator for each kind of node. The code
calls itself where a byte is for another frame; here those calls are followed to
where the byte is taken. A choice takes none, so `Open` offers the byte to the
nodes a choice comes down to (`Alternatives`); a value pushed by `Descend` is at
its start, so it takes the byte through `Open`; a number that may stop hands the
byte to what waits for it, and that is `Follow`, one level and no further,
because what waits is never a number.

`JsonGrammar` is the compiler (`Builder`), which calls itself along the schema;
its RECURSIVE operators keep it to TLC, so the nodes of each schema are a
constant of `JsonConstraint` (`Compiled`), and a run gives it what `JsonGrammar`
computes. `JsonSpelling` says what nodes spell: an equation for each kind between
the texts of a node and those of its parts, cut at `MaxText` bytes, with what an
array may do wrong (end behind a comma) in it. `JsonLanguage` gives the values a
schema means, from the schema alone. `CompiledRight` relates the three: the nodes
are well formed, `Language` solves their equations, every value of the schema is
spelled, and every text spelled is a value when the commas that close are taken
out (`Tidy`).

### ModelServer

One action is what a request's thread does under one lock, or between two.

| code | action |
|---|---|
| `do_POST`, the semaphore, `_pin`'s first look | `Arrive` |
| `_pin` under the load lock | `TakeLoadLock`, `Load`, `LoadFails` |
| `_evict_over_limit` | `EvictLook`, `CloseVictim` |
| `checkout` to its `yield`, `wait_for` | `Checkout`, `TimesOut`, `WakeUp` |
| media a model cannot take | `Refuse` |
| the body of the `with` | `Generate`, `Finish`, `Raise`, `Hangup`; the worker thread: `WorkerEnds` |
| `checkout` after its `yield` | `Return` |
| `acquire` after its `yield` | `Unpin` |
| `_reap_idle` | `Reap`, `CloseStale` |
| `serve` at its end | `StopServing`, `CloseRegistry` |

A time-out and a notification may cross: the waiter stays notifiable until it
has the lock back, and looks once more before it gives up. A conversation is the
sequence of its turns, so that one key may extend another. `idle_since` is kept
as the relation `older` between resident models. What a slot's cache was built from (`cache`) is kept beside what
the slot remembers of it (`affinity`): `FreeSlotsRememberTruly` compares them.
A `reset()` that itself raises in the `except` branch (`server.py:427-428`), which
would leave the affinity as it was, is not modelled: it is called on a handle
that is open, and the llama.cpp and MLX backends always succeed.

## 3. Runs

Three configurations check several modules at once: `Bridge`, `Llm` and
`Backends`. The modules in one of them share no state; a behaviour chooses a
`part` in its first state and follows that part alone, so the state space is the
sum of the parts' and the verdict the conjunction of theirs. Modules that do
interact are related through their interfaces: `SharedCache` is built on
`DecodeService`, which `BatchRounds` implements; `Runtime` on the handles of
`HandleMap`, which `HandleTable` implements; `Speculation` on the cache of one
handle, which `PrivateCache` says it may.

| run | instance | result |
|---|---|---|
| `SharedCache_window` | 2 handles, window 5, one token, sliding or not, damaged sessions | `EvictionPlanHolds`, `NeverCrowdedOut`, `Isolation` hold |
| `SharedCache_overlong` | prompts longer than the window 4, sliding or not, two tokens | `TypeOK`, `HistoryMirrorsKV`, `ImplementsPrivateCache` hold |
| `SharedCache_trio` | 3 handles, one token, window 3 | `SharedRegionMarked` holds |
| `SharedCache_refusals` | a memory that can neither shift nor drop a tail, sessions that cannot be opened, two tokens sampled | `ConditionedOnPrompt` holds |
| `BatchRounds_rounds` | 3 threads, window 2, batch 5, prompts of 4 | all five hold |
| `BatchRounds_served` | the same, prompts of 3, with fairness | `EverySubmissionServed` holds |
| `Bridge` | 2 backends of 2 kinds and 5 openings; 2 threads, 2 plugins, 3 objects; 3 tables, 25 inputs | all six hold |
| `Llm` | 3 handles, 2 files, 2 devices, 2 seats; replies of 5 tokens over 3, drafts of 3; 6 tokens of 7 spellings, 3 stops | all seven hold |
| `Backends` | MLX windows of 6, 2 layers; 10 schemas; 3 media; rows of up to 3; 4 graphs | all nine hold |
| `Server` | 3 requests, models with 1 and 2 slots, one resident | all four hold |
| `SharedCache_load_refused` | sessions that cannot be opened | violates `Isolation` |
| `Backends_commas` | as `Backends` | violates `NeverMalformed` |

What the two violations show is under `findings` in `PROJECT.json`: a session
file that cannot be opened lowers the shared-prefix mark over cells that stay
shared (`llm.cpp:575-581`), and an array or object may end behind a comma
(`json_constraint.cpp:451-545`).

Bounds. Two handles are enough for everything pairwise; the third in `trio` is
there because a mark is the maximum of several loans. A window of five with a
pinned head of one leaves room for a shift whose gap overlaps a loan, which is
where marks matter. One token makes every prefix match and so maximises lending;
two are needed for a prefix to end in a mismatch. A pool of six cells with one
sliding handle is the smallest in which a batch of several submissions is
refused and one alone is not; three threads are needed to be awake, asleep and
absent at once. Five openings over two backends reuse a slot twice; the counter
has more values than there are openings, which is the theorem's assumption
(`NoWrap`). Three handles on engines of two seats fill one and open a second.
Drafts of three against replies of five leave a round that is accepted whole, one
that is cut, and one after either. Six tokens hold two overlapping stops of three
bytes. Schemas are given texts of up to 14 bytes, which is a whole object of two
keys. In `Server` two kinds of load are explored: three requests on one slot (a
holder, a waiter and one who arrives between notification and wake-up), and two
at a time over two models of which one may stay resident; together they would be
beyond TLC's time. State spaces are otherwise finite without constraints.
Symmetry is used over handles, threads or requests where no property names one
of them and no liveness is checked.

Deadlock is not checked where a component may rest for good: after the last
opening, at the end of a reply, or when the server is closed.

Fairness. `FairSpec` of `BatchRounds` assumes that a thread inside `decode()` is
scheduled and gets the mutex eventually, and that time passes. Callers owe
nothing: a caller may stay away forever, stop sampling forever, or never start.
No other run needs fairness.

One observation is recorded as a hazard without a property: a sequence handed
back with `retry` queues behind whoever submitted meanwhile, and while an
overlong neighbour keeps the pool exhausted it can be handed back for ever. No
document promises otherwise, and it cannot happen when every handle keeps to its
window, for then no round is refused.

## 4. Proofs

### SharedCache_proofs

For every number of handles, window, vocabulary and set of prompts that meets
`CacheAssumption`:

| theorem | statement |
|---|---|
| `TypeCorrect` | `Spec => []TypeOK` |
| `PlansStaySound` | `Spec => []EvictionPlanHolds` |
| `SharedRegionStaysMarked` | `Spec => []SharedRegionMarked`, given `MarksKept` |
| `HandlesAreIsolated` | `Spec => Isolation`, given `ShiftsSafely` |
| `TranscriptMirrorsCache` | `Spec => []HistoryMirrorsKV`, given `ShiftsSafely` and `LoadsWhole` |
| `PromptIsAlwaysSeen` | `Spec => []ConditionedOnPrompt`, likewise |
| `CachesLookPrivate` | `Spec => ImplementsPrivateCache`, likewise |
| `NobodyIsCrowdedOut` | `Spec => []NeverCrowdedOut`, likewise and given `NoneOverlong` |

The hypotheses name the places where the code leaves marks, cells and transcripts
at odds. `MarksKept` excludes the two where a mark is lowered over cells that
stay: a rewind or trim the memory refuses (`llm.cpp:1056-1062`; it says
`Trimmable`) and a session that cannot be opened (`llm.cpp:575`; `LoadFailures`
without `"refused"`). A mark matters only to a shift, so `ShiftsSafely` asks for
`MarksKept` of memories that shift, and nothing of the others. `LoadsWhole`
(`LoadFailures` without `"broken"`) excludes a session whose damaged cell data
empties the sequence behind its transcript (`llm.cpp:577`). `NoneOverlong` says
that a handle that may slide is given no prompt longer than its window. Without
`ShiftsSafely`, `SharedCache_load_refused` is a counterexample; "Disagreements"
has those for the other two. `NeverCrowdedOut` needs `LoadsWhole`
for its proof only, which counts cells through transcripts: `SharedCache_window`
checks it with damaged sessions.

The argument has layers. `Typed` is `TypeOK`, `GeneratingInStep` (a handle
is marked as generating exactly in the phases between join and leave) and
`EvictionPlanHolds`. They need each other: positions stay natural numbers only
because a planned eviction fits the transcript, and a plan survives other
handles' steps only because a generating handle is not lent from. On top of it
`SharedRegionMarked` is inductive: a trim lowers a mark together with the cells
above it, a loan raises both ends, a shift starts at the mark. And on top of that
`HistoryMirrorsKV`: a sibling's step leaves the tokens of a sequence alone
because the only cells it moves are beyond the mark (`OthersMirror`), and its own
steps change cells and transcript alike (`OwnMirror`).

`ConditionedOnPrompt` needs the mirror, because it speaks of the cells, and one
invariant besides: `Conditioned` says that from the
prefix trim on, transcript and pending tokens begin with the prompt unless a
window slides (`PromptFirst`), that only a sliding handle shifts, and that
nothing is pending when a token is picked. `NeverCrowdedOut` counts: each handle
holds at most a window of cells (`InWindow`), because the mirror makes its cells
as many as its transcript is long; the pool has a window for each.
`CachesLookPrivate` uses the mirror once more: a handle's private cache is its
transcript laid out from position zero (`RowsOf`), so each step is mapped by what
it does to transcripts.

### BatchRounds_proofs

For any number of handles and any sizes that meet `RoundAssumption`:

| theorem | statement |
|---|---|
| `NobodyIsHeldForNothing` | `Spec => []NobodyHeldForNothing` |
| `ResultsStayOwn` | `Spec => []ResultsAreOwn` |
| `HeadIsAlwaysSettled` | `Spec => HeadIsSettled` |
| `TokensAlwaysRideAlong` | `Roomy => (Spec => TokensRideAlong)` |
| `RoundsImplementService` | `Spec => ImplementsDecodeService` |

`Sound` is the inductive invariant: the queue holds exactly the threads inside
`decode()`, each once (`Queued`); `active` counts those between `join()` and
`leave()`; the pool is not exceeded (`PoolHolds`); who has submitted holds no
rows, and rows stay in the buffer only on an engine of one seat (`RowsAreSafe`).
`NobodyHeldForNothing` needs `Queued`, because a round and a departure wake
whoever is still in the queue. `HeadGoes` says the oldest submission is always
packed, on which `HeadIsSettled` and the refinement rest: the re-run alone is of
one that went along. `DriveIs` reduces a round to who went along, who was run
and what was said, and `DriveServes` shows that this is one step of the service.
Sums of cells and the queue that is left are recursive functions; what is needed
of them is proved from least counterexamples (`Least`, `MinimalSet`), without
induction over an operator. `Roomy` says that a batch is no smaller than the
engine has seats. A caller chooses `n_batch` (`llm.cpp:369`) and nothing compares
it with `n_seq_max`; below it, single tokens can be left for the next round.

### Speculation_proofs, Llm_proofs

For any vocabulary, prompt, budget, window and number of drafts that meet
`SpeculationAssumption`, which is a hypothesis here because the module is
instantiated by `Llm` and never extended:

| theorem | statement |
|---|---|
| `NothingRejectedIsKept` | `Spec => [](TypeOK /\ NothingRejectedStays /\ DraftMirrorsKV)` |
| `CacheKeepsUp` | `Spec => []CacheIsReplySoFar`, given `Trimmable` |
| `ChainKeepsUp` | `Spec => []ChainAdvancesOnce`, given `Trimmable` and `~Spoils` |
| `SpeculationIsPlain` | `Spec => ImplementsPlainDecoding`, likewise and with room for the reply in the window |

`Llm` has two instances, a memory that drops its tail (`Exact`) and one that
drops nothing and refuses (`Refusing`), and states of them what the run checks.
`Llm_proofs` carries the theorems over: its `ExactOnes` and `RefusingOnes` are
`Speculation_proofs` with the same constants, and `SameExact` and `SameRefusing`
show that a step of one is a step of the other.

| theorem | statement |
|---|---|
| `CachesAlwaysAgree` | `Exact!Spec => []CachesAgree` |
| `ChainAlwaysAdvancesOnce` | `Exact!Spec => []ChainAdvancesOnce` |
| `NothingRejectedEverStays` | `Refusing!Spec => []NothingRejectedStays` |
| `RepliesArePlain` | `Exact!Spec => ImplementsPlainDecoding` |

`Held` says where in a round which tokens are in which cache: up to what a refused eviction
lost, the target's cache spells the prompt, the reply and the part of the round
that has been verified. `Voiced` adds that the sampler chain has accepted the
same and that each token kept is what the target answered to all before it
(`Told`). The target's answers never change once given, so the tokens of a round
are those plain decoding would have said. The hypotheses exclude the three places where
the code departs from its documents (`llm.cpp:846`, `878`, `1204`; see
"Disagreements"): a tail that cannot be dropped, a batch that fits and fails,
and a batch that reaches past the window.

Of what handles share, in the same module:

For any handles, files, devices, seats and addresses that meet
`SharingAssumption`: `SharingIsRight`, `Spec => []HandlesShareRightly`.

`Sound` is that `GoodState` holds of the state, where `GoodState` takes the state's parts
as arguments, so that a step which changes two of them is followed through the
state in between. `Holds` says what a handle at each stage of `create()` has in
hand, `Named` that the weak references name what was loaded under their key or
something dead, `Seated` that seats and handles match one to one. The last is
what fails if a seat is given back twice or not at all.

Of the text of a reply:

| theorem | statement |
|---|---|
| `StopsAreNeverShown` | `Stream!Spec => []StopsNeverLeak` |
| `StreamIsTheText` | `Stream!Spec => []StreamAgreesWithText`, given that no stop starts inside a character (`StopsAreText`) |

`StreamInv` says that the text is what the model said up to some point, with no
stop in it (`Spoken`); that what was shown and what the joiner holds is the
emitted text, of which the whole characters were shown (`Passed`); that while
the generation goes on exactly what may become a stop is held back (`GoesOn`);
and how each way out leaves it (`HasEnded`, `HandedOver`). Two facts carry a
step: a stop that a new piece completes starts in what was held back
(`HeldBack`), so the cut never goes behind what was emitted; and what the joiner
passes ends where the whole characters of all that was said end (`Passing`),
although it sees only what it holds and the new chunk. `StopsAreText` is needed
where a text is cut at a stop: `generate()` then drops what is left of a
character before it, which there must be none of. The code does not check it;
stops come from callers as text.

### Bridge_proofs

For any slots, backends, modalities, threads, plugins, files, numbers of objects
and loads, and for any requests and plugin tables, under `TableAssumption` and
`PartsAssumption`:

| theorem | statement |
|---|---|
| `StaleHandlesFail` | `NoWrap => (Spec => []TableIsSound)` |
| `TableImplementsMap` | `NoWrap => (Spec => ImplementsHandleMap)` |
| `NothingIsLeaked` | `Lifecycle!Spec => [](Lifecycle!TypeOK /\ Lifecycle!NothingLeaks)` |
| `LifecycleIsSound` | `Lifecycle!Spec => []LifecycleHolds`, given `PromisesKept` and `NamesAreIds` |
| `TablesAreAlwaysOwned` | `Boundary!Spec => []TablesAreOwned` |
| `CallsAreAlwaysClean` | `Boundary!Spec => []CallsAreClean` |
| `NothingAfterDestroy` | `Boundary!Spec => DestroyIsLast` |

Of the handle table, `TableIsSound` is not inductive. `CountersKeepUp` bounds
every counter by the number of openings, so that `NoWrap`, fewer handles are
opened than the counter has values, keeps the next step from wrapping, and
`StaleIsBehind` says a stale word's generation is below the one its slot would be
given next. Without `NoWrap` neither theorem holds; see "Disagreements".

Of the lifecycle, `Attended` says that an object which is neither behind a handle
nor deleted has exactly one thread that is making or deleting it. With the
promises, `Quiet` says that nothing lives, and nobody else is inside, while the
runtime is down or a thread in `unirt_deinit` has passed its check; that is why
what it unloads is used by nobody. `QueriesNamed` and `RejectionsListed` are what
the other two parts of `LifecycleHolds` need. `PromisesKept` are three of the
documented rules: initialise first, lifecycle calls alone, no id registered
twice; the fourth, one thread per handle, is not needed. `NamesAreIds` is the
nested layout. Without them TLC refutes the claim (`registry.cpp:242`,
`runtime.cpp:165`, `registry.cpp:229` under "Disagreements").

Of a call, `Owned` is the account of the tables: each is a handle's, the
package's, in the hands of the call in progress, lost with its adapter, or has
been destroyed once; and what is kept is complete. `Checked` carries the
entrypoint's check to the moment the plugin is entered; `ProductFits` is the
arithmetic of `batch_tokens <= SIZE_MAX / width`. `AppendedFieldsGuarded` and
`DestroyIsLast` speak of what a step has read; `ReadsStep` shows both of each
step from `Owned`, the first because required fields come first in every table
(`RequiredFirst`, `CoveredFits`).

### Backends_proofs

A handle is of one backend and shares no state with those of others, so each
part of `Backends` has a specification and an invariant of its own: `Spec`, the
MLX session, and `Vision`, `Rows` and `Graph`. `BackendsSpec`, what the run
checks, lets each of them take its own steps or none (`PartsAreApart`). The
constants are any that meet `MlxAssumption`, `BackendsAssumption` and
`FamiliesAssumption`.

| theorem | statement |
|---|---|
| `RoomIsAlwaysMade` | `Spec => [](TypeOK /\ RoomIsMade)` |
| `TheCacheIsTheConversation` | `Spec => []CacheIsConversation`, given `ShiftThrows = FALSE` |
| `MediaAlwaysMeetMarkers` | `Vision!Spec => []MediaMeetMarkers` |
| `VisionMemoryIsAlwaysRequest` | `Vision!Spec => []VisionMemoryIsRequest` |
| `RowsAlwaysAnswerThemselves` | `Rows!Spec => []RowsAnswerThemselves` |
| `GraphAlwaysAnswers` | `Graph!Spec => []GraphAnswersRequest` |
| `PartsAreApart` | `BackendsSpec => Spec /\ Vision!Spec /\ Rows!Spec /\ Graph!Spec` |
| `EveryRowOrNone` | `BackendsSpec => []AllRowsOrNone` |
| `CachedMasksAlwaysExact` | `BackendsSpec => []CachedMaskIsExact` |
| `NothingValidEverRefused` | `BackendsSpec => []NothingValidRefused` |
| `AlwaysStopsAtValues` | `BackendsSpec => []StopsOnlyAtValues` |

Of the MLX session, both theorems rest on one description of a step (`StepGoes`):
whatever a pass throws at whichever layer, the first `nPast` entries of every
layer are the same sequence, and how that sequence goes on. `Cached` says only
that there is one, and needs no hypothesis. `Kept` says that it is the
transcript, and that transcript and pending ids are the conversation, all of it
or its anchored head and its end (`Abridges`). The second half is kept through
repeated shifts because each of them cuts behind the same head. A shift whose
pass throws has emptied the cache and kept the ids (`plugin.cpp:453`); that is
the hypothesis.

Of the vision handle, `MediaMeetMarkers` speaks of a request whose files are all
loaded. `VisionListed` says that the two lists of a request are its files of one
kind each, in order (`Lists`), and `VisionBound` that the files bound so far are
the first ones meant. That the next file is the next one meant is a fact about
counting: among the first `k` markers as many are of a kind as files of that
kind have been taken (`Rank`), so the next of that kind in its list is the file
of this marker (`NextIs`). `VisionRemembers` says what the memory holds from
phase to phase.

Of the rows, `PackedIs` says that the batch holds each row's tokens once, under
the row's number and at their positions; `Placed` says where in a flattened list
a part of it lies. `RowsHeld` keeps a session's context at tokens times sequences, so that `Enough` gives every row
its share (`RowsFit`), and `RowsAnswered` says that what has been pooled is the
answer to the rows at hand, although other jobs' and earlier calls' contexts
keep their cells.

Of the graph, what is fed is a function of the batch at hand (`Feed`), and once
the graph has run every input could be narrowed; `FedIsRaw` says that a tensor
then holds the very numbers of the batch, although they went through
`% 2^32`. `GraphIsPooled` has a case for each pooling: the mean takes exactly the
visible columns, the last token is the greatest of them, and CLS is the first
column whatever the mask says, which is what `unirt.h:983` declares.

The last three are about constrained decoding and take the theorems of
`JsonConstraint_proofs` for each family of schemas. That module is instantiated,
so that its operators are those of `ShapesOnes`, `RecordsOnes` and
`AnythingOnes`; `SameShapes` and its neighbours show that they are the operators
of `Shapes`, `Records` and `Anything`, which the run uses, and `ShapesBehave`
that a behaviour that follows this part is one of its specification.

tlapm can expand neither `SelectSeq` nor what a function defined by recursion is
without being shown that there is one. The filters `Visible` and
`VlmHandle!Of` are recursive functions for that reason, and `Iterated` gives,
for any step and any length, the function that takes it again and again; the
sums, the joined lists and the filters are described through it.

### ModelServer_proofs

For any finite sets of requests and models, any number of slots, limit and
conversation keys that meet `ServerAssumption`:

| theorem | statement |
|---|---|
| `ServerKeepsPinnedOpen` | `Spec => []PinnedStaysOpen` |
| `ServerKeepsLimit` | `Spec => []LimitComesBack` |
| `ServerSlotsAreSound` | `Spec => []SlotsAreSound` |
| `ServerLeavesNobodyAsleep` | `Spec => []NobodySleepsBesideAFreeSlot` |

Five layers, each inductive given the ones before. `Typed` and `Placed` say
where a request can be and what it has then. `PinnedStaysOpen` is inductive on
them: a model is taken out only when its count of users, which is the number of
requests that have it pinned, is zero. `LimitComesBack` needs that the steps
that make a model evictable, or add one, leave somebody at `_evict_over_limit`.
`Sound` takes `SlotsAreLeasedOnce` apart slot by slot and request by request
(`Shared`) and adds `RunsAreBuilt`: a finished run left its handle's cache built
from its own conversation, which is what the slot is about to remember; that no
other request touches the slot meanwhile is `HeldByOne`. `Awake` is what makes
wake-ups suffice: who waits is in the queue, once (`Queued`), and free slots are
never more than the threads of `Looking`, those notified and those whose
notification crossed their time-out, while somebody sleeps (`WakeUpsSuffice`).

### JsonConstraint_proofs

| theorem | statement |
|---|---|
| `AutomatonIsLanguage` | for every well-formed grammar, every solution of its equations, every node and every text of up to `MaxText` bytes: `CanStop` after the text, from the node's first frame, if and only if the text is one the node spells |
| `JsonTyping` | `Spec => []TypeOK` |
| `CachedMaskStaysExact` | `Spec => []CachedMaskIsExact` |
| `NothingValidIsRefused` | `Spec => []NothingValidRefused` |
| `StopsAtValues` | `Spec => []StopsOnlyAtValues` |
| `SomethingAlwaysFollows` | `Spec => []NeverStuck` |

The first is about the automaton alone. It assumes nothing of the compiler but
`WellFormed`: nodes refer to nodes, keys are at least a quote and a colon, no
literal is empty or begins with the bracket that closes an array. Grammars may
refer to themselves. The others are of requests, under `JsonAssumption`: that
the compiler was right about each schema it did not refuse (`CompiledRight`).
That is what TLC evaluates for the schemas of the run (`FamiliesAssumption` in
`Backends`), and what cannot be proved here, because the compiler and the
meaning of a schema are recursive over it.

The argument is one of derivatives. `Rests` says what texts are left to be
spelled in a stack: what is left in its last frame (`LeftOf`, a line for each
phase of each kind), before what is left in the frames that wait. A step by a byte leads from a stack to stacks that
together spell exactly the texts that followed that byte (`Leads`, shown for
each kind and put together in `StepLeads`); `AfterSpells` follows a text byte by
byte. `Reads` is then the invariant: a text can be finished from the stacks at
hand exactly if what has been written and it together are spelled.

Most of the work is arithmetic of sets of texts that are cut at `MaxText`.
`Cat` is associative, and has what begins with a byte
(`CatAssoc`, `SingleCat`); an array's `Items` and an object's `Properties`, which
count up to how many there are, are unrolled by one (`MoreItemsOn`, `ItemsAre`,
`PropertiesIs`); repetition is unrolled although it is cut (`ManyIs`), because
what is repeated is not empty. What a number reads in each phase is a table
(`NumberRows`, `NumberReads`).
`Sound` is what stacks reached in a grammar look like: the last frame at a
phase its kind has, those below waiting for a value. `IInv` adds the masks: each
of those kept is the mask of its states in the grammar at hand, which is what
fails when masks of another schema are kept.

`NeverStuck`, that there is always a token to sample or a place to stop, needs
`SpellableAssumption` as well: every byte is a token by itself, as in a byte-level vocabulary, the only
kind `tokenizer.cpp:189-194` accepts, and no schema asks for an array of more
items than it allows or a choice of nothing. Without the first a text may have to
go on with a byte that cannot be sampled. It is not enough that something
spelled follows, because texts are cut at `MaxText`: `StackGoesOn` shows, kind
by kind, that from a state that may not stop some byte leads on, whatever has
been written, and `LongEnough` is the invariant that this gives.

### What is only model-checked

Liveness and fairness are out of the prover's reach: `EverySubmissionServed` stays
with TLC. So does what RECURSIVE operators compute for every input: that
`JsonGrammar` compiles a schema to nodes that spell its values is evaluated for
the ten schemas of `MCFamilies`. Every other property of a passing run is stated
by a theorem.

## 5. Assumptions about code outside `src/`

llama.cpp is a submodule that is not part of the repository; the operators for
its memory are modelled from how the plugin uses them and from its documented
interface, and are marked external: `seq_rm`, `seq_cp` and `seq_add` act on the
holders and positions of cells; `llama_decode` returns 1 before it touches
anything when there are not enough free cells, and leaves the cache as before
the call when it fails otherwise; loading a session's cell data first empties
the sequence. That llama.cpp gives back a null logits row for a token it was
asked about (`batch_engine.cpp:303`) is not modelled. Of mtmd, the order in which
bitmaps meet markers is; of MLX, that a forward pass may throw at any layer; of
ONNX Runtime, that a session has inputs and outputs of certain types and ranks;
of Python, that `Condition.notify` wakes the longest waiting thread that has not
got its lock back yet, and that `server_close` joins the threads of requests.

## 6. Disagreements

Modelling met places where the code does not do what a document or a comment
says. Two are runs of their own (section 3). The others are kept here, most with
the predicate that states the document's side; each was refuted by TLC on a
small instance of its module. Where a run that passes checks one of these
predicates too, its constants leave the case out, and the theorem about it names
the case as a hypothesis.

| where | what the code does | what is said | predicate |
|---|---|---|---|
| `llama_cpp/llm.cpp:749` | a prompt longer than the window, admitted under `sliding_window`, fills its siblings' share of the pool before anything is evicted | `batch_engine.h:52-55` "Sequences cannot crowd each other out of the KV cache" | `NeverCrowdedOut` on the constants of `SharedCache_overlong` |
| `llama_cpp/llm.cpp:577` | when a session's cell data is damaged the cells are gone and the transcript stays | `llm.cpp:756` "history_ mirrors the KV contents at all times"; a prompt that resends the transcript is then taken for cached and answered without being seen | `HistoryMirrorsKV` and `ConditionedOnPrompt` with `LoadFailures = {"broken"}` |
| `llama_cpp/llm.cpp:1107` | after a rewind to `n_past` the prefix trim of automatic reuse follows, so a continuation keeps nothing | `unirt.h:490` "explicit rewind to exactly this many retained tokens" | `SharedCache!RewindKeepsExactly` |
| `llama_cpp/llm.cpp:878` | when a rejected tail cannot be dropped, cells and history are cleared, success is returned, and the reply goes on from the old scores | `README.md:371-374` "The text is exactly what the big model would have produced on its own" | `Speculation!SameText` with `Trimmable = FALSE` |
| `llama_cpp/llm.cpp:1204` | a verification batch that reaches past the window ends a reply that had room | the same | `Speculation!FullWindowKeepsText` |
| `llama_cpp/llm.cpp:846` | a verification batch that fails falls back to a plain pick, which accepts its first token again | `llm.cpp:1211-1214` "the chain advances exactly once per kept token" | `Speculation!ChainAdvancesOnce` with `Spoils = TRUE` |
| `llama_cpp/batch_engine.cpp:352` | a full engine is forgotten for a new one; a seat freed on it later is not offered | `unirt.h:537-538` "the (n_seq_max + 1)th gets a context of its own" | `ModelSharing!SeatsFillFirst` |
| `llama_cpp/llm.cpp:523` | after a retry on the CPU the draft is loaded with the changed parameters under the unchanged device key | `weight_cache.h:17-18` "take a reference to the copy already in memory" | `ModelSharing!OneCopyInMemory` |
| `sdk/src/utils.cpp:119` | a generation that ends within a character hands its bytes to the callback | `unirt.h:164-166` "always a complete UTF-8 sequence" | `TextStream!WholeCharacters` |
| `sdk/src/utils.cpp:118` | after the logprobs callback has refused, `on_token` is called with what the joiner holds | `unirt.h:196` "false to stop early, exactly like on_token" | `TextStream!NothingAfterRefusal` |
| `mlx/plugin.cpp:453` | a shift whose forward pass throws has emptied the cache and kept the ids | `plugin.cpp:591` "Ids of every token currently represented in the KV cache" | `MlxSession!TranscriptIsCache` with `ShiftThrows = TRUE` |
| `mlx/plugin.cpp:209` | a pinned head that one call named stays for calls that name none; `llm.cpp:1038` likewise | `unirt.h:508` "0 = plugin default of 4" | `MlxSession!HeadAsAsked` |
| `sdk/src/handle_registry.cpp:68` | a generation wraps at 2^32, and a handle of the first round names a later backend | `handle_registry.h:14-19` "stale handles all fail cleanly" | `HandleTable!StaleFailsCleanly` with `MaxOpens >= Generations` |
| `sdk/src/registry.cpp:242` | registering over a plugin that was discovered unmaps the library of its live backends | `unirt.h:245-246` "plugin code is never unmapped under a live object" | `Runtime!CodeStaysMapped` without the promise "no id twice" |
| `sdk/src/runtime.cpp:165` | a query calls a package after the directory's lock is gone | `unirt.h:225`, `unirt.h:300` "Thread-safe" | `Runtime!PackageStaysMapped`, likewise |
| `sdk/src/bridge_support.h:101` | two threads on one handle both reach the backend | `llm_backend.h:12-13` "The bridge serializes calls per instance" (`handle_registry.h:20-22` leaves it to the caller) | `Runtime!CallsSerialized` without "one thread per handle" |
| `sdk/src/runtime.cpp:105` | an init whose scan throws forgets plugins registered before it | `unirt.h:217-218` "May be called before or after unirt_init()" | `Runtime!RegisteredStays` |
| `sdk/src/registry.cpp:229` | in the flat layout a broken plugin is remembered by its file's name, which no lookup by id matches | `registry.h:87-89` "distinguish never existed from exists but is broken" | `Runtime!BrokenIsTold` with names that are not ids |
| `sdk/src/plugin_adapters.h:205` | a table that is too short is released through its `destroy`, which may lie beyond its end | `plugin_abi.h:21-23` "must not touch fields beyond the producer's struct_size" | `PluginBoundary!ReadsInside` |
| `sdk/src/plugin_adapters.h:207` | when `new Adapter(table)` throws, nobody releases the table | `plugin_adapters.h:11` "Each adapter owns its table: the destructor calls table->destroy(self)" | modelled as `AdoptLoses` |
| `sdk/src/llm.cpp:33` | an early return leaves the error detail of an earlier call | `utils.h:21-23` "clears it on entry to each C entrypoint" | `PluginBoundary!DetailIsOfThisCall` |
| `sdk/src/bridge_support.h:226` | a negative `max_tokens` is refused | `unirt.h:484` "<=0 = plugin default" | `PluginBoundary!AnyBudgetIsTaken` |
| `bindings/python/unirt/server.py:1178` | `GET /v1/stats` asks a resident model it has not pinned, which the reaper may be closing | `server.py:510` "stays loaded while anything is using it" | not stated |
| `bindings/python/unirt/server.py:1658` | of the errors of sending to a client only two cancel the worker; after another one, resetting the slot waits for the whole generation | `_drain_cancelled`'s own comment | modelled as `Hangup` and `WorkerEnds` |

## 7. Not modelled, and why

- Sampling, templates, tokenizers, logprobs and statistics: what they choose is
  left open where the choice matters; they keep no state between calls that a
  property is about.
- Numeric kernels, weight loading of the MLX plugin, device queries and the
  plugins' registration: computation and I/O without interleaving.
- The llama.cpp plugin's grammars (`schema_grammar.cpp`) are text for llama.cpp's
  own machine, which is not part of the repository.
- The Python model API: a worker thread per stream, seen from the server in
  `ModelServer`; the rest is argument handling. The model store downloads files
  and renames them; a faithful model needs a file system with crashes, which
  would mostly be external. The command line and the foreign-function layer
  hold no state.
- Android and iOS bindings: they serialise the calls of one session.
- Of the server: parsing and wording, embedding and reranking requests (one lock
  each), and the statistics endpoint.

## 8. What could follow

`ModelStore` with interruption and two processes; fairness for the server, under
which each request that was admitted ends.

---------------------------- MODULE ModelSharing ----------------------------
(* What the handles of the llama.cpp plugin share: weights, one resident   *)
(* copy for each file and placement (weight_cache.cpp), and engines, one   *)
(* context whose seats are claimed by handles of the same geometry         *)
(* (batch_engine.cpp).  Both caches hold weak pointers.  Handles open and  *)
(* close on threads of their own; a critical section is an action.         *)
EXTENDS Integers, FiniteSetsExt

CONSTANTS Handle,   \* LlamaCppLlm objects
          Device,   \* placements: offloaded by default, pinned by id, the CPU
          Gpu, Cpu, \* two of them
          Retried,  \* the GPU's name with nothing offloaded: draft keys after a retry
          Path,     \* model files
          Draft,    \* draft model files, a subset of Path
          NoPath,   \* no draft_model_path
          Nothing,  \* no request, no key, an address never used
          Seats,    \* the values of n_seq_max
          Copies    \* bound: how many models or engines are alive at a time

ASSUME SharingAssumption ==
  /\ Draft \subseteq Path /\ NoPath \notin Path
  /\ {Gpu, Cpu} \subseteq Device /\ Retried \notin Device
  /\ Seats \subseteq Nat \ {0} /\ Copies \in Nat

VARIABLES handle,   \* what each handle has come to
          models,   \* the key of each copy of weights ever put at an address
          engines,  \* the context at each address: key, weights, claimed seats
          weights,  \* the weight cache: a key's latest copy
          registry  \* the engine cache: a key's latest engine

vars == <<handle, models, engines, weights, registry>>

Id == 1..Copies
None == 0

-----------------------------------------------------------------------------
ModelKey == [path : Path, device : Device \cup {Retried}]
EngineKey == [path : Path, device : Device, capacity : Seats \cup {1}]

(* The fields of unirt_LlmCreateInput that decide what is shared; a draft  *)
(* model comes with the device_key it will be looked up under.             *)
Request == [path : Path \ Draft, device : Device, seats : Seats,
            draft : [path : Draft, device : Device \cup {Retried}] \cup {NoPath}]

Asked == {r \in Request : r.draft # NoPath => r.draft.device = r.device}

(* A handle with a draft model does not share its context.                 *)
Capacity(r) == IF r.draft = NoPath THEN r.seats ELSE 1

(* cache_key() and create()'s engine_key().                                *)
WeightKey(r) == [path |-> r.path, device |-> r.device]
EngineKeyOf(r) == [path |-> r.path, device |-> r.device, capacity |-> Capacity(r)]

Engine == [key : EngineKey, model : Id, claimed : SUBSET Nat]

ASSUME NothingAssumption ==
  Nothing \notin Request /\ Nothing \notin ModelKey /\ Nothing \notin Engine

Closed == [pc |-> "closed", request |-> Nothing, model |-> None, engine |-> None,
           seat |-> None, draft |-> None]

(* std::shared_ptr: an engine lives while a handle holds it, weights while *)
(* an engine, an opening handle or a draft does.  What nobody holds is     *)
(* destroyed, and the caches' weak pointers to it expire.                  *)
Settle(hd, en, mo, we, re) ==
  LET seats == {hd[h].engine : h \in Handle}
      kept  == {hd[h].model : h \in Handle} \cup {hd[h].draft : h \in Handle}
                 \cup {en[e].model : e \in seats \ {None}}
  IN  /\ handle' = hd
      /\ engines' = [e \in Id |-> IF e \in seats THEN en[e] ELSE Nothing]
      /\ models' = [m \in Id |-> IF m \in kept THEN mo[m] ELSE Nothing]
      /\ weights' = [k \in ModelKey |-> IF we[k] \in kept THEN we[k] ELSE None]
      /\ registry' = [k \in EngineKey |-> IF re[k] \in seats THEN re[k] ELSE None]

LiveEngines == {e \in Id : engines[e] # Nothing}
LiveModels == {m \in Id : models[m] # Nothing}

FreeSeats(e) ==
  IF e = None THEN {} ELSE (1..engines[e].key.capacity) \ engines[e].claimed

Init ==
  /\ handle = [h \in Handle |-> Closed]
  /\ models = [m \in Id |-> Nothing]
  /\ engines = [e \in Id |-> Nothing]
  /\ weights = [k \in ModelKey |-> None]
  /\ registry = [k \in EngineKey |-> None]

(* create() has checked its arguments and found its device.                *)
Open(h, r) ==
  /\ handle[h].pc = "closed"
  /\ handle' = [handle EXCEPT ![h] = [Closed EXCEPT !.pc = "load", !.request = r]]
  /\ UNCHANGED <<models, engines, weights, registry>>

(* What acquire_model() finds in the cache.                                *)
Cached(k) == weights[k]

(* acquire_model(k), after which the handle is hd(its weights).            *)
AcquireModel(k, hd(_)) ==
  IF Cached(k) # None
    THEN Settle(hd(Cached(k)), engines, models, weights, registry)
    ELSE /\ LiveModels # Id
         /\ LET m == Min(Id \ LiveModels) IN
            Settle(hd(m), engines, [models EXCEPT ![m] = k], [weights EXCEPT ![k] = m], registry)

LoadWeights(h) ==
  /\ handle[h].pc = "load"
  /\ AcquireModel(WeightKey(handle[h].request),
       LAMBDA m : [handle EXCEPT ![h].pc = "seat", ![h].model = m])

(* The file cannot be loaded, or holds an encoder-decoder model.           *)
WeightsRefused(h) ==
  /\ handle[h].pc = "load"
  /\ handle' = [handle EXCEPT ![h] = Closed]
  /\ UNCHANGED <<models, engines, weights, registry>>

(* claim(): the first seat nobody has.                                     *)
FirstFree(e) == Min(FreeSeats(e))

(* acquire_engine() when the key's engine has a seat to spare.             *)
TakeSeat(h) ==
  LET e == registry[EngineKeyOf(handle[h].request)] IN
  /\ handle[h].pc = "seat"
  /\ FreeSeats(e) # {}
  /\ Settle([handle EXCEPT ![h].pc = "attach", ![h].engine = e, ![h].seat = FirstFree(e)],
            [engines EXCEPT ![e].claimed = @ \cup {FirstFree(e)}], models, weights, registry)

NoSeat(h) ==
  /\ handle[h].pc = "seat"
  /\ FreeSeats(registry[EngineKeyOf(handle[h].request)]) = {}

(* acquire_engine() otherwise: a context of its own, which the key names   *)
(* from now on.                                                            *)
MakeEngine(h) ==
  LET k == EngineKeyOf(handle[h].request)
      e == Min(Id \ LiveEngines)
  IN  /\ NoSeat(h) /\ LiveEngines # Id
      /\ Settle([handle EXCEPT ![h].pc = "attach", ![h].engine = e, ![h].seat = 1],
                [engines EXCEPT ![e] = [key |-> k, model |-> handle[h].model, claimed |-> {1}]],
                models, weights, [registry EXCEPT ![k] = e])

(* The context cannot be allocated; the full engine is off the cache.  An  *)
(* offload by default is tried again on the CPU, anything else fails.  The *)
(* draft's key keeps the GPU's name.                                       *)
ContextRefused(h) ==
  LET r == handle[h].request IN
  /\ NoSeat(h)
  /\ Settle([handle EXCEPT ![h] =
               IF r.device = Gpu
                 THEN [Closed EXCEPT !.pc = "load", !.request =
                         [r EXCEPT !.device = Cpu,
                                   !.draft = IF @ = NoPath THEN @ ELSE [@ EXCEPT !.device = Retried]]]
                 ELSE Closed],
            engines, models, weights, [registry EXCEPT ![EngineKeyOf(r)] = None])

(* create() keeps the engine; without a draft model it is done, and its    *)
(* own hold on the weights ends.                                           *)
Attach(h) ==
  /\ handle[h].pc = "attach"
  /\ Settle([handle EXCEPT ![h] = IF handle[h].request.draft = NoPath
                                    THEN [@ EXCEPT !.pc = "open", !.model = None]
                                    ELSE [@ EXCEPT !.pc = "draft"]],
            engines, models, weights, registry)

(* DraftModel::load(): a second set of weights, on the target's device.    *)
LoadDraft(h) ==
  /\ handle[h].pc = "draft"
  /\ AcquireModel(handle[h].request.draft,
       LAMBDA m : [handle EXCEPT ![h].pc = "open", ![h].draft = m, ![h].model = None])

(* A fault: the seat stays taken.                                          *)
SeatKept(h) == engines

(* release(): the handle's seat is anybody's again.                        *)
SeatGivenBack(h) == [engines EXCEPT ![handle[h].engine].claimed = @ \ {handle[h].seat}]

(* No draft weights, another vocabulary or no context for it: the handle   *)
(* gives its seat back and is refused.                                     *)
DraftRefused(h) ==
  /\ handle[h].pc = "draft"
  /\ Settle([handle EXCEPT ![h] = Closed], SeatGivenBack(h), models, weights, registry)

(* clear_model(): the seat is free before the engine is let go.            *)
Vacate(h) ==
  /\ handle[h].pc = "open"
  /\ Settle([handle EXCEPT ![h].pc = "closing", ![h].seat = None],
            SeatGivenBack(h), models, weights, registry)

LetGo(h) ==
  /\ handle[h].pc = "closing"
  /\ Settle([handle EXCEPT ![h] = Closed], engines, models, weights, registry)

Next ==
  \E h \in Handle :
    \/ \E r \in Asked : Open(h, r)
    \/ LoadWeights(h) \/ WeightsRefused(h)
    \/ TakeSeat(h) \/ MakeEngine(h) \/ ContextRefused(h)
    \/ Attach(h) \/ LoadDraft(h) \/ DraftRefused(h)
    \/ Vacate(h) \/ LetGo(h)

Spec == Init /\ [][Next]_vars

-----------------------------------------------------------------------------
TypeOK ==
  /\ handle \in [Handle -> [pc : {"closed", "load", "seat", "attach", "draft", "open", "closing"},
                            request : Request \cup {Nothing}, model : Id \cup {None},
                            engine : Id \cup {None}, seat : Nat,
                            draft : Id \cup {None}]]
  /\ models \in [Id -> ModelKey \cup {Nothing}]
  /\ engines \in [Id -> Engine \cup {Nothing}]
  /\ weights \in [ModelKey -> Id \cup {None}]
  /\ registry \in [EngineKey -> Id \cup {None}]

(* weight_cache.h, README: handles on the same file and placement read one *)
(* resident copy, however their openings and closings interleave.          *)
OneCopy == \A i, j \in LiveModels : models[i] = models[j] => i = j

(* weight_cache.h:17-18: nothing is loaded that is in memory already, as   *)
(* it would be loaded: what is retried on the CPU is on the CPU.           *)
(* For the record: it does not hold (README.md, Disagreements).            *)
OneCopyInMemory ==
  LET placed(m) == [models[m] EXCEPT !.device = IF @ = Retried THEN Cpu ELSE @] IN
  \A i, j \in LiveModels : placed(i) = placed(j) => i = j

(* Two handles never decode into one sequence, and every seat that is      *)
(* taken is one the context was made with and some handle's: none leaks    *)
(* when an opening fails half-way.                                         *)
SeatsAreOwned ==
  /\ \A g, h \in Handle : /\ g # h /\ handle[g].engine # None
                          /\ handle[g].engine = handle[h].engine
                          => handle[g].seat = None \/ handle[g].seat # handle[h].seat
  /\ \A e \in LiveEngines :
       /\ engines[e].claimed =
            {handle[h].seat : h \in {g \in Handle : handle[g].engine = e}} \ {None}
       /\ engines[e].claimed \subseteq 1..engines[e].key.capacity

(* Handles that share a context asked for the same file, placement and     *)
(* number of seats, and decode with the weights of that file and           *)
(* placement; a handle with a draft model has the context to itself.       *)
SharedAlike ==
  \A h \in Handle : handle[h].engine # None =>
    LET e == handle[h].engine IN
    /\ engines[e].key = EngineKeyOf(handle[h].request)
    /\ models[engines[e].model] = WeightKey(handle[h].request)
    /\ handle[h].request.draft # NoPath /\ handle[h].seat # None =>
         \A g \in Handle \ {h} : handle[g].engine = e => handle[g].seat = None

(* One copy of a file's weights at a place, every seat that is taken one   *)
(* handle's, and those who share a context asked for the same:             *)
(* weight_cache.cpp:44-74, batch_engine.cpp:331-358, llm.cpp:523-640.      *)
HandlesShareRightly == TypeOK /\ OneCopy /\ SeatsAreOwned /\ SharedAlike

(* unirt.h:537-538: handles of the same geometry group; a context of its   *)
(* own is for the handle that finds every seat taken.                      *)
(* For the record: it does not hold (README.md, Disagreements).            *)
SeatsFillFirst ==
  [][\A h \in Handle :
       /\ handle[h].engine = None
       /\ handle'[h].engine \notin LiveEngines \cup {None}
       => \A e \in LiveEngines :
            engines[e].key = EngineKeyOf(handle[h].request) => FreeSeats(e) = {}]_vars

=============================================================================

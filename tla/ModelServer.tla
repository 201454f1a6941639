---------------------------- MODULE ModelServer -----------------------------
(* The HTTP server's requests over its models (server.py): a registry that *)
(* loads a model when it is first named and closes what is idle, and, for  *)
(* each loaded model, a pool of decoding slots behind a condition.  Each   *)
(* request runs on a thread of its own; an action is what one of them does *)
(* under a lock, or between two of them.  A streamed generation runs on a  *)
(* worker thread that may outlive the request's interest in it.            *)
EXTENDS Integers, Sequences, SequencesExt, FiniteSets

CONSTANTS Request,   \* the threads of requests
          Model,     \* the names that are configured
          Slots,     \* ModelSpec.slots, of each model
          Limit,     \* resident_limit
          Admitted,  \* request_slots: configured slots and queued requests
          Keys,      \* conversation keys, as sequences of turns
          Reuses,    \* reuse_prefix
          None,      \* no request, no thread, no slot, no key
          Mixed      \* what a cache holds of a run that did not end well

ASSUME ServerAssumption ==
  /\ IsFiniteSet(Request) /\ IsFiniteSet(Model)
  /\ Slots \in [Model -> Nat \ {0}] /\ {Limit, Admitted} \subseteq Nat \ {0}
  /\ Reuses \in BOOLEAN /\ Keys \subseteq Seq(Nat) \ {<<>>}
  /\ {None, Mixed} \cap (Request \cup Model \cup Keys) = {}
  /\ None \notin [model : Model, key : Keys]

VARIABLES phase,     \* where each request's thread is
          wants,     \* the model and the conversation a request is for
          lease,     \* the slot it was handed
          after,     \* where it goes on when there is nothing to evict
          users,     \* of each model, _Resident.users
          older,     \* the order of the resident models' idle_since
          loader,    \* of each model, the holder of its load lock
          slot,      \* of each model, its slots; none while it is not resident
          free,      \* of each model, the slots that are not handed out
          waiters,   \* of each model, who waits on its pool's condition
          stale,     \* what the reaper has taken out and has yet to close
          serving    \* the server accepts requests; then it closes; then it is closed

vars == <<phase, wants, lease, after, users, older, loader, slot, free, waiters, stale, serving>>
registry == <<users, older, loader>>
pools == <<slot, free, waiters>>

Idle == "idle"

(* What a handle's cache was last built from, what the slot remembers of   *)
(* it, and whether a generation runs on the handle.                        *)
Fresh == [cache |-> None, affinity |-> None, busy |-> FALSE]

Resident(m) == slot[m] # <<>>
Residents == {m \in Model : Resident(m)}
InUse(m) == users[m] > 0
At(r) == wants[r].model
MySlot(r) == slot[At(r)][lease[r]]
Becomes(r, s) == slot' = [slot EXCEPT ![At(r)][lease[r]] = s]
Moves(r, to) == phase' = [phase EXCEPT ![r] = to]

Init ==
  /\ phase = [r \in Request |-> Idle]
  /\ wants = [r \in Request |-> None]
  /\ lease = [r \in Request |-> None]
  /\ after = [r \in Request |-> Idle]
  /\ users = [m \in Model |-> 0]
  /\ older = {}
  /\ loader = [m \in Model |-> None]
  /\ slot = [m \in Model |-> <<>>]
  /\ free = [m \in Model |-> <<>>]
  /\ waiters = [m \in Model |-> <<>>]
  /\ stale = {}
  /\ serving = "yes"

-----------------------------------------------------------------------------
(* The registry: ModelRegistry.acquire() to the body of its with block.    *)

Pins(m) == users' = [users EXCEPT ![m] = @ + 1]
Leaves(r) == wants' = [wants EXCEPT ![r] = None]

(* do_POST() once the request is parsed, to _pin()'s first look; a request *)
(* too many is answered with 503 and leaves no trace.                      *)
Arrive(r, m, k) ==
  /\ phase[r] = Idle /\ serving = "yes"
  /\ Cardinality({q \in Request : phase[q] # Idle}) < Admitted
  /\ wants' = [wants EXCEPT ![r] = [model |-> m, key |-> k]]
  /\ \/ Resident(m) /\ Pins(m) /\ Moves(r, "ready")
     \/ ~Resident(m) /\ Moves(r, "lock") /\ UNCHANGED users
  /\ UNCHANGED <<lease, after, older, loader, pools, stale, serving>>

(* Whoever held the model's load lock before may have loaded it.           *)
TakeLoadLock(r) ==
  /\ phase[r] = "lock" /\ loader[At(r)] = None
  /\ \/ Resident(At(r)) /\ Pins(At(r)) /\ Moves(r, "ready") /\ UNCHANGED loader
     \/ /\ ~Resident(At(r)) /\ loader' = [loader EXCEPT ![At(r)] = r]
        /\ Moves(r, "load") /\ UNCHANGED users
  /\ UNCHANGED <<wants, lease, after, older, pools, stale, serving>>

GiveLoadLock(r) == loader' = [loader EXCEPT ![At(r)] = None]

(* idle_since becomes now.                                                 *)
Youngest(m) ==
  {p \in older : m \notin {p[1], p[2]}} \cup {<<o, m>> : o \in Residents \ {m}}

(* load_slots() and the insertion, which nobody sees a part of: the pool   *)
(* is local until then.                                                    *)
Load(r) ==
  /\ phase[r] = "load"
  /\ slot' = [slot EXCEPT ![At(r)] = [i \in 1..Slots[At(r)] |-> Fresh]]
  /\ free' = [free EXCEPT ![At(r)] = [i \in 1..Slots[At(r)] |-> i]]
  /\ older' = Youngest(At(r)) /\ Pins(At(r))
  /\ GiveLoadLock(r)
  /\ after' = [after EXCEPT ![r] = "ready"] /\ Moves(r, "evict")
  /\ UNCHANGED <<wants, lease, waiters, stale, serving>>

(* A handle does not open; those that did are finalized.                   *)
LoadFails(r) ==
  /\ phase[r] = "load"
  /\ GiveLoadLock(r) /\ Moves(r, Idle) /\ Leaves(r)
  /\ UNCHANGED <<lease, after, users, older, pools, stale, serving>>

-----------------------------------------------------------------------------
(* _evict_over_limit(): a look under the lock, a victim closed outside.    *)

(* A fault: whatever has been resident longest.                            *)
EvictableAlways == Residents

Evictable == {m \in Residents : ~InUse(m)}
LongestIdle == {m \in Evictable : \A o \in Evictable : <<o, m>> \notin older}
Without(taken) == {p \in older : p[1] \notin taken /\ p[2] \notin taken}
TakeOut(taken) ==
  /\ slot' = [m \in Model |-> IF m \in taken THEN <<>> ELSE slot[m]]
  /\ free' = [m \in Model |-> IF m \in taken THEN <<>> ELSE free[m]]
  /\ older' = Without(taken)

EvictLook(r) ==
  /\ phase[r] = "evict"
  /\ \/ /\ Cardinality(Residents) > Limit /\ Evictable # {}
        /\ \E m \in LongestIdle : TakeOut({m})
        /\ Moves(r, "close") /\ UNCHANGED <<wants, after>>
     \/ /\ Cardinality(Residents) <= Limit \/ Evictable = {}
        /\ Moves(r, after[r]) /\ after' = [after EXCEPT ![r] = Idle]
        /\ IF after[r] = Idle THEN Leaves(r) ELSE UNCHANGED wants
        /\ UNCHANGED <<slot, free, older>>
  /\ UNCHANGED <<lease, users, loader, waiters, stale, serving>>

(* SlotPool.close() of what nobody else can reach any more.                *)
CloseVictim(r) ==
  /\ phase[r] = "close" /\ Moves(r, "evict")
  /\ UNCHANGED <<wants, lease, after, registry, pools, stale, serving>>

-----------------------------------------------------------------------------
(* The pool: SlotPool.checkout(), and the body of its with block.          *)

(* The longest key that this conversation continues, then a slot nobody    *)
(* has used, then a stranger's; the first of equals.                       *)
Score(s, key) ==
  IF s.affinity = None THEN 0
  ELSE IF IsPrefix(s.affinity, key) THEN Len(s.affinity) ELSE -1

Best(r) ==
  LET e == At(r)
      score(n) == Score(slot[e][free[e][n]], wants[r].key)
      better(n, m) == score(n) > score(m) \/ (score(n) = score(m) /\ n <= m)
  IN  {n \in DOMAIN free[e] : \A m \in DOMAIN free[e] : better(n, m)}

Take(r) ==
  \E n \in Best(r) :
    /\ lease' = [lease EXCEPT ![r] = free[At(r)][n]]
    /\ free' = [free EXCEPT ![At(r)] = RemoveAt(@, n)]
    /\ Moves(r, "leased")

(* Condition.wait() forgets a waiter that nobody has notified.             *)
Withdraw(r) ==
  \/ r \notin ToSet(waiters[At(r)]) /\ UNCHANGED waiters
  \/ \E n \in DOMAIN waiters[At(r)] :
       /\ waiters[At(r)][n] = r
       /\ waiters' = [waiters EXCEPT ![At(r)] = RemoveAt(@, n)]

Checkout(r) ==
  /\ phase[r] = "ready"
  /\ \/ Take(r) /\ UNCHANGED waiters
     \/ /\ free[At(r)] = <<>>
        /\ waiters' = [waiters EXCEPT ![At(r)] = Append(@, r)]
        /\ Moves(r, "wait") /\ UNCHANGED <<lease, free>>
  /\ UNCHANGED <<wants, after, registry, slot, stale, serving>>

(* Media a model cannot take is refused once the model is known.           *)
Refuse(r) ==
  /\ phase[r] = "ready" /\ Moves(r, "unpin")
  /\ UNCHANGED <<wants, lease, after, registry, pools, stale, serving>>

(* The wait runs out; the thread still has to get the lock back, and can   *)
(* be notified until it has.                                               *)
TimesOut(r) ==
  /\ phase[r] = "wait" /\ Moves(r, "late")
  /\ UNCHANGED <<wants, lease, after, registry, pools, stale, serving>>

(* A fault: a wait that ran out is given up without another look.          *)
WakeUpTooLate(r) ==
  /\ \/ phase[r] = "woken" /\ Take(r) /\ Withdraw(r)
     \/ /\ phase[r] = "woken" /\ free[At(r)] = <<>>
        /\ waiters' = [waiters EXCEPT ![At(r)] = Append(@, r)]
        /\ Moves(r, "wait") /\ UNCHANGED <<lease, free>>
     \/ /\ phase[r] = "late"
        /\ Withdraw(r) /\ Moves(r, "unpin") /\ UNCHANGED <<lease, free>>
  /\ UNCHANGED <<wants, after, registry, slot, stale, serving>>

(* wait_for() looks once more before it waits again or gives up.           *)
WakeUp(r) ==
  /\ phase[r] \in {"woken", "late"}
  /\ \/ Take(r) /\ Withdraw(r)
     \/ /\ free[At(r)] = <<>> /\ phase[r] = "woken"
        /\ waiters' = [waiters EXCEPT ![At(r)] = Append(@, r)]
        /\ Moves(r, "wait") /\ UNCHANGED <<lease, free>>
     \/ /\ free[At(r)] = <<>>
        /\ Withdraw(r) /\ Moves(r, "unpin") /\ UNCHANGED <<lease, free>>
  /\ UNCHANGED <<wants, after, registry, slot, stale, serving>>

(* The handle's own lock is taken for as long as the plugin runs.          *)
Generate(r) ==
  /\ phase[r] = "leased" /\ ~MySlot(r).busy
  /\ Becomes(r, [MySlot(r) EXCEPT !.busy = TRUE, !.cache = Mixed])
  /\ Moves(r, "running")
  /\ UNCHANGED <<wants, lease, after, registry, free, waiters, stale, serving>>

Finish(r) ==
  /\ phase[r] = "running"
  /\ Becomes(r, [MySlot(r) EXCEPT !.busy = FALSE, !.cache = wants[r].key])
  /\ Moves(r, "done")
  /\ UNCHANGED <<wants, lease, after, registry, free, waiters, stale, serving>>

(* Rendering the prompt, or the plugin, raises.                            *)
Raise(r) ==
  /\ phase[r] \in {"leased", "running"}
  /\ Becomes(r, [MySlot(r) EXCEPT !.busy = FALSE])
  /\ Moves(r, "failed")
  /\ UNCHANGED <<wants, lease, after, registry, free, waiters, stale, serving>>

(* Sending to the client raises while the worker goes on decoding.  Only   *)
(* some errors cancel and drain it first; what follows waits for its lock. *)
Hangup(r) ==
  /\ phase[r] = "running" /\ Moves(r, "failed")
  /\ UNCHANGED <<wants, lease, after, registry, pools, stale, serving>>

WorkerEnds(m, i) ==
  /\ i \in DOMAIN slot[m] /\ slot[m][i].busy
  /\ \A r \in Request : ~(phase[r] = "running" /\ At(r) = m /\ lease[r] = i)
  /\ slot' = [slot EXCEPT ![m][i].busy = FALSE]
  /\ UNCHANGED <<phase, wants, lease, after, registry, free, waiters, stale, serving>>

(* A fault: a run that failed counts as the conversation's.                *)
SettledRegardless(r) ==
  [MySlot(r) EXCEPT !.affinity = IF Reuses THEN wants[r].key ELSE None]

(* The else and except branches: the slot remembers the conversation, or   *)
(* its handle is reset.                                                    *)
Settled(r) ==
  IF phase[r] = "done" /\ Reuses
  THEN [MySlot(r) EXCEPT !.affinity = wants[r].key]
  ELSE [MySlot(r) EXCEPT !.cache = None, !.affinity = None]

(* notify() wakes the first who waits.                                     *)
Notified(e) == IF waiters[e] = <<>> THEN {} ELSE {Head(waiters[e])}

(* The finally branch, with what the branch before it left in the slot.    *)
Return(r) ==
  LET e == At(r)
  IN  /\ phase[r] = "done" \/ (phase[r] = "failed" /\ ~MySlot(r).busy)
      /\ Becomes(r, Settled(r))
      /\ free' = [free EXCEPT ![e] = Append(@, lease[r])]
      /\ waiters' = [waiters EXCEPT ![e] = IF @ = <<>> THEN @ ELSE Tail(@)]
      /\ phase' = [q \in Request |->
                     IF q = r THEN "unpin"
                     ELSE IF q \in Notified(e) /\ phase[q] = "wait" THEN "woken" ELSE phase[q]]
      /\ lease' = [lease EXCEPT ![r] = None]
      /\ UNCHANGED <<wants, after, registry, stale, serving>>

-----------------------------------------------------------------------------
(* Letting go of the model; the reaper; the end.                           *)

(* A fault: nothing is evicted on release, only after a load.              *)
UnpinOnly(r) ==
  /\ phase[r] = "unpin"
  /\ users' = [users EXCEPT ![At(r)] = @ - 1]
  /\ older' = IF users[At(r)] = 1 THEN Youngest(At(r)) ELSE older
  /\ Moves(r, Idle) /\ Leaves(r)
  /\ UNCHANGED <<lease, after, loader, pools, stale, serving>>

(* The finally branch of acquire(): what was in use may now be evicted.    *)
Unpin(r) ==
  /\ phase[r] = "unpin"
  /\ users' = [users EXCEPT ![At(r)] = @ - 1]
  /\ older' = IF users[At(r)] = 1 THEN Youngest(At(r)) ELSE older
  /\ Moves(r, "evict")
  /\ UNCHANGED <<wants, lease, after, loader, pools, stale, serving>>

(* _reap_idle(): whatever has been idle since before some moment.          *)
Reap(taken) ==
  /\ stale = {} /\ serving # "no" /\ taken # {}
  /\ \A m \in taken, o \in Evictable : <<o, m>> \in older => o \in taken
  /\ TakeOut(taken) /\ stale' = taken
  /\ UNCHANGED <<phase, wants, lease, after, users, loader, waiters, serving>>

CloseStale ==
  /\ stale # {} /\ stale' = {}
  /\ UNCHANGED <<phase, wants, lease, after, registry, pools, serving>>

(* server_close() joins the threads of the requests; then the registry     *)
(* closes whatever is resident.                                            *)
StopServing ==
  /\ serving = "yes" /\ serving' = "closing"
  /\ UNCHANGED <<phase, wants, lease, after, registry, pools, stale>>

CloseRegistry ==
  /\ serving = "closing" /\ \A r \in Request : phase[r] = Idle
  /\ serving' = "no" /\ TakeOut(Model)
  /\ UNCHANGED <<phase, wants, lease, after, users, loader, waiters, stale>>

Registering(r) ==
  \/ \E m \in Model, k \in Keys : Arrive(r, m, k)
  \/ TakeLoadLock(r) \/ Load(r) \/ LoadFails(r)
  \/ EvictLook(r) \/ CloseVictim(r)

Serving(r) ==
  \/ Checkout(r) \/ Refuse(r) \/ TimesOut(r) \/ WakeUp(r)
  \/ Generate(r) \/ Finish(r) \/ Raise(r) \/ Hangup(r) \/ Return(r)
  \/ Unpin(r)

Next ==
  \/ \E r \in Request : Registering(r) \/ Serving(r)
  \/ \E m \in Model : \E i \in DOMAIN slot[m] : WorkerEnds(m, i)
  \/ \E taken \in SUBSET Evictable : Reap(taken)
  \/ CloseStale \/ StopServing \/ CloseRegistry

Spec == Init /\ [][Next]_vars

-----------------------------------------------------------------------------
Holding == {"leased", "running", "done", "failed"}
Asking == {"ready", "wait", "woken", "late"}
Pinning(m) ==
  {r \in Request : /\ wants[r] # None /\ At(r) = m
                   /\ phase[r] \in Asking \cup Holding \cup {"unpin"} \/ after[r] = "ready"}
Leased(m) == {lease[r] : r \in {q \in Pinning(m) : phase[q] \in Holding}}

TypeOK ==
  /\ phase \in [Request -> {Idle, "lock", "load", "evict", "close", "unpin"} \cup Holding \cup Asking]
  /\ wants \in [Request -> [model : Model, key : Keys] \cup {None}]
  /\ lease \in [Request -> (UNION {1..Slots[m] : m \in Model}) \cup {None}]
  /\ after \in [Request -> {"ready", Idle}]
  /\ users \in [Model -> 0..Cardinality(Request)]
  /\ older \subseteq Model \X Model /\ loader \in [Model -> Request \cup {None}]
  /\ slot \in [Model -> Seq([cache : Keys \cup {None, Mixed}, affinity : Keys \cup {None},
                             busy : BOOLEAN])]
  /\ \A m \in Model : Resident(m) => Len(slot[m]) = Slots[m]
  /\ free \in [Model -> Seq(Nat)] /\ waiters \in [Model -> Seq(Request)]
  /\ stale \subseteq Model /\ serving \in {"yes", "closing", "no"}

(* A slot serves one request at a time and is never lost: each slot of a   *)
(* resident model is either free, once, or leased, once, whoever failed,   *)
(* hung up or gave up waiting (SlotPool.checkout).                         *)
SlotsAreLeasedOnce ==
  \A m \in Model :
    /\ IsInjective(free[m]) /\ ToSet(free[m]) \subseteq DOMAIN slot[m]
    /\ Leased(m) = DOMAIN slot[m] \ ToSet(free[m])
    /\ \A r, q \in Pinning(m) :
         phase[r] \in Holding /\ phase[q] \in Holding /\ lease[r] = lease[q] => q = r

(* What a free slot remembers is what its cache was last built from: no    *)
(* generation runs on, and no failed one is taken for a conversation.      *)
FreeSlotsRememberTruly ==
  \A m \in Model : \A i \in ToSet(free[m]) :
    ~slot[m][i].busy /\ slot[m][i].cache = slot[m][i].affinity

(* Slots are served, given back and remembered as they are, whoever failed, *)
(* hung up or gave up waiting: server.py:412-439.                          *)
SlotsAreSound == TypeOK /\ SlotsAreLeasedOnce /\ FreeSlotsRememberTruly

PinsAreCounted == \A m \in Model : users[m] = Cardinality(Pinning(m))
PinnedIsResident == \A m \in Model : Pinning(m) # {} => Resident(m)
OneLoads == \A r \in Request : phase[r] = "load" => ~Resident(At(r)) /\ loader[At(r)] = r
IdleInOrder ==
  \A m, o \in Residents : m # o => (<<m, o>> \in older <=> <<o, m>> \notin older)

(* A model is open for as long as a request has it pinned, and only one    *)
(* thread loads it: neither eviction, reaper nor shutdown closes it        *)
(* beneath a request (ModelRegistry.acquire).                              *)
PinnedStaysOpen == PinsAreCounted /\ PinnedIsResident /\ OneLoads /\ IdleInOrder

(* More models than the limit are resident only while each of them is in   *)
(* use, or somebody is about to bring them down to it.                     *)
LimitComesBack ==
  Cardinality(Residents) > Limit =>
    \/ Evictable = {}
    \/ \E r \in Request : phase[r] \in {"evict", "close"}

(* Nobody sleeps on beside a free slot: there are no more of them than     *)
(* threads that have been woken and will look.                             *)
NobodySleepsBesideAFreeSlot ==
  \A m \in Model :
    (\E r \in Pinning(m) : phase[r] = "wait") =>
      Len(free[m]) <= Cardinality({r \in Pinning(m) : phase[r] \in {"woken", "late"}})

=============================================================================

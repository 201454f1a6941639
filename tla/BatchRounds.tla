---------------------------- MODULE BatchRounds ----------------------------
(***************************************************************************)
(* The rounds of a batching engine: how the threads that generate on one   *)
(* llama.cpp context submit tokens, which of them drives llama_decode for  *)
(* everybody, whom it waits for, and what it hands back when the cache has *)
(* no room (BatchEngine::decode, run_round, attempt, publish, join and     *)
(* leave, and the loop of LlamaCppLlm::decode that submits).               *)
(*                                                                         *)
(* The engine's mutex is held through a round, so a round is one step, and *)
(* busy_, which is set and cleared under it, is never seen set.  A thread  *)
(* inside decode() is "awake" while it is about to look at the queue and   *)
(* "asleep" in wait_until().                                               *)
(*                                                                         *)
(* Cells are counted as if no sequence had borrowed any: lending only      *)
(* leaves more of them free.                                               *)
(***************************************************************************)
EXTENDS Integers, Sequences, FiniteSets, FiniteSetsExt, SequencesExt

CONSTANTS
  Members,     \* the handles on the engine, as many as it has room for
  Window,      \* context_size(): tokens a sequence may hold
  BatchSize,   \* n_batch: tokens a round may carry
  UBatch,      \* n_ubatch
  Pinned,      \* pinned_head_
  Sliding,     \* the handles whose callers ask for a sliding window
  MaxPrompt,   \* bound: fresh tokens of a prompt
  Failures     \* may llama_decode fail for another reason than cells

ASSUME RoundAssumption ==
  /\ IsFiniteSet(Members) /\ Members # {}
  /\ {Window, BatchSize, UBatch, Pinned, MaxPrompt} \subseteq Nat \ {0}
  /\ Sliding \subseteq Members
  /\ Failures \in BOOLEAN

Capacity == Cardinality(Members)

Submitted == {"awake", "asleep"}

Phase == {"out", "working", "retry", "noslot", "failed"} \cup Submitted

VARIABLES
  active,    \* active_: sequences between join() and leave()
  queue,     \* queue_: whose submissions wait, oldest first
  phase,     \* where the thread is, or the status it was handed
  todo,      \* tokens of the decode() call that are not in the cache yet
  expired,   \* the deadline of its submission has passed
  used,      \* cells it holds
  logits     \* what last_logits_ points to: nothing, a copy, its row in
             \* llama.cpp's output buffer, or a row that is no longer there

vars == <<active, queue, phase, todo, expired, used, logits>>

Lesser(a, b) == IF a <= b THEN a ELSE b
Greater(a, b) == IF a >= b THEN a ELSE b

Total(S, cells) == MapThenSumSet(LAMBDA s : cells[s], S)

Free == Capacity * Window - Total(Members, used)

(* A fault: no room is left for the others' next tokens.                   *)
ChunkWithoutHeadroom == Greater(1, Lesser(BatchSize, UBatch))

(* A submission leaves everyone else's next token room in its round.       *)
ChunkLimit ==
  IF Capacity = 1 THEN BatchSize
  ELSE Greater(1, Lesser(BatchSize - Capacity, UBatch))

(* The tokens of its submission, or of the next one.                       *)
Chunk(s) == Lesser(ChunkLimit, todo[s])

WakeAll(threads) ==
  [s \in Members |-> IF threads[s] = "asleep" THEN "awake" ELSE threads[s]]

Init ==
  /\ active = 0
  /\ queue = <<>>
  /\ phase = [s \in Members |-> "out"]
  /\ todo = [s \in Members |-> 0]
  /\ expired = [s \in Members |-> FALSE]
  /\ used = [s \in Members |-> 0]
  /\ logits = [s \in Members |-> "none"]

-----------------------------------------------------------------------------
(* The thread of a generation, outside of the engine.                      *)

(* join(), and the prompt goes to decode().                                *)
Join(s, fresh) ==
  /\ phase[s] = "out"
  /\ s \in Sliding \/ used[s] + fresh <= Window
  /\ active' = active + 1
  /\ phase' = [phase EXCEPT ![s] = "working"]
  /\ todo' = [todo EXCEPT ![s] = fresh]
  /\ UNCHANGED <<queue, expired, used, logits>>

(* A fault: the newest submission is served first.                         *)
SubmitInFront(s) ==
  /\ phase[s] \in {"working", "retry"}
  /\ todo[s] > 0
  /\ queue' = <<s>> \o queue
  /\ phase' = [phase EXCEPT ![s] = "awake"]
  /\ logits' = [logits EXCEPT ![s] = "none"]
  /\ UNCHANGED <<active, todo, expired, used>>

(* The next chunk, or the same one again if it was handed back.            *)
Submit(s) ==
  /\ phase[s] \in {"working", "retry"}
  /\ todo[s] > 0
  /\ queue' = Append(queue, s)
  /\ phase' = [phase EXCEPT ![s] = "awake"]
  /\ logits' = [logits EXCEPT ![s] = "none"]
  /\ UNCHANGED <<active, todo, expired, used>>

(* evict_for_space().                                                      *)
EvictCount(s, incoming) ==
  LET room == used[s] - Lesser(Pinned, used[s])
  IN  IF s \in Sliding
        THEN Lesser(Greater(room \div 2, used[s] + incoming - Window + 1), room)
        ELSE 0

Full(s) == phase[s] = "working" /\ todo[s] = 0 /\ used[s] >= Window

Sampling(s) == phase[s] = "working" /\ todo[s] = 0

(* A refused submission makes room and is submitted again.                 *)
Evict(s) ==
  /\ phase[s] = "noslot"
  /\ EvictCount(s, Chunk(s)) > 0
  /\ used' = [used EXCEPT ![s] = @ - EvictCount(s, Chunk(s))]
  /\ phase' = [phase EXCEPT ![s] = "working"]
  /\ UNCHANGED <<active, queue, todo, expired, logits>>

(* A token is picked, after a shift if the window is full.                 *)
Pick(s) ==
  /\ Sampling(s)
  /\ Full(s) => EvictCount(s, 1) > 0
  /\ used' = [used EXCEPT ![s] = IF Full(s) THEN @ - EvictCount(s, 1) ELSE @]
  /\ todo' = [todo EXCEPT ![s] = 1]
  /\ UNCHANGED <<active, queue, phase, expired, logits>>

MayLeave(s) ==
  \/ Sampling(s)
  \/ phase[s] = "failed"
  \/ phase[s] = "noslot" /\ EvictCount(s, Chunk(s)) = 0

(* A fault: nobody is told that a sequence has left.                       *)
LeaveQuietly(s) ==
  /\ MayLeave(s)
  /\ active' = active - 1
  /\ phase' = [phase EXCEPT ![s] = "out"]
  /\ todo' = [todo EXCEPT ![s] = 0]
  /\ logits' = [logits EXCEPT ![s] = "none"]
  /\ UNCHANGED <<queue, expired, used>>

(* leave(), which may be what a held round was waiting for.                *)
Leave(s) ==
  /\ MayLeave(s)
  /\ active' = active - 1
  /\ phase' = WakeAll([phase EXCEPT ![s] = "out"])
  /\ todo' = [todo EXCEPT ![s] = 0]
  /\ logits' = [logits EXCEPT ![s] = "none"]
  /\ UNCHANGED <<queue, expired, used>>

(* Between generations the handle may drop cells: reset, trim, destroy.    *)
Drop(s, kept) ==
  /\ phase[s] = "out"
  /\ kept < used[s]
  /\ used' = [used EXCEPT ![s] = kept]
  /\ UNCHANGED <<active, queue, phase, todo, expired, logits>>

-----------------------------------------------------------------------------
(* BatchEngine::decode, from the queue to the answer.                      *)

Tokens(S) == Total(S, [s \in S |-> Chunk(s)])

(* Who goes along: oldest first, whoever still fits.                       *)
Packs(S) ==
  \A i \in DOMAIN queue :
    LET before == S \cap {queue[j] : j \in 1..(i - 1)}
    IN  queue[i] \in S <=> Tokens(before) + Chunk(queue[i]) <= BatchSize

(* What llama_decode may return: 0, 1 (no KV slot), anything else.         *)
Codes(S) ==
  {IF Tokens(S) <= Free THEN "ok" ELSE "noslot"}
    \cup (IF Failures THEN {"failed"} ELSE {})

(* A fault: a refused batch is not diagnosed.                              *)
BlameEverybody(S, first) == S

(* A fault: the newest participant is tried alone.                         *)
RerunNewest(S, first) ==
  IF first = "noslot"
    THEN {Last(SelectSeq(queue, LAMBDA t : t \in S))} ELSE S

(* "No KV slot" is said of a batch.  The oldest is tried again alone, and  *)
(* the others handed back.                                                 *)
Rerun(S, first) == IF first = "noslot" THEN {Head(queue)} ELSE S

(* A fault: rows are copied only while others generate.                    *)
CopyIfNeighbours == active > 1

(* Rows are copied out of the buffer on any engine that may be shared.     *)
CopyRows == Capacity > 1

(* Who stays queued, in order.                                             *)
Remaining(gone) ==
  LET left[n \in 0..Len(queue)] ==
        IF n = 0 THEN <<>>
        ELSE IF queue[n] \in gone THEN left[n - 1]
        ELSE Append(left[n - 1], queue[n])
  IN  left[Len(queue)]

(* publish(): the participants' statuses, cells and rows; the rest wakes.  *)
Publish(participants, run, code) ==
  /\ queue' = Remaining(participants)
  /\ phase' = [t \in Members |->
       CASE t \in run -> IF code = "ok" THEN "working" ELSE code
         [] t \in participants \ run -> "retry"
         [] OTHER -> WakeAll(phase)[t]]
  /\ expired' = [t \in Members |-> expired[t] /\ t \notin participants]
  /\ used' = [t \in Members |->
       used[t] + IF t \in run /\ code = "ok" THEN Chunk(t) ELSE 0]
  /\ todo' = [t \in Members |->
       todo[t] - IF t \in run /\ code = "ok" THEN Chunk(t) ELSE 0]
  /\ logits' = [t \in Members |->
       IF t \in run /\ code = "ok" THEN (IF CopyRows THEN "copy" ELSE "buffer")
       ELSE IF logits[t] = "buffer" /\ code # "noslot" THEN "overwritten"
       ELSE logits[t]]
  /\ UNCHANGED active

MayDrive(s) == Len(queue) >= active \/ expired[s]

(* run_round(), on the thread of s.                                        *)
Drive(s) ==
  /\ phase[s] = "awake"
  /\ MayDrive(s)
  /\ \E participants \in SUBSET ToSet(queue) :
       /\ Packs(participants)
       /\ \E first \in Codes(participants) :
            LET run == Rerun(participants, first)
            IN  \E code \in Codes(run) :
                  /\ run = participants => code = first
                  /\ Publish(participants, run, code)

(* A sequence that is known to be coming is waited for.                    *)
Doze(s) ==
  /\ phase[s] = "awake"
  /\ ~MayDrive(s)
  /\ phase' = [phase EXCEPT ![s] = "asleep"]
  /\ UNCHANGED <<active, queue, todo, expired, used, logits>>

DeadlinePasses(s) ==
  /\ phase[s] \in Submitted
  /\ ~expired[s]
  /\ expired' = [expired EXCEPT ![s] = TRUE]
  /\ phase' = [phase EXCEPT ![s] = "awake"]
  /\ UNCHANGED <<active, queue, todo, used, logits>>

-----------------------------------------------------------------------------
Decode(s) == Submit(s) \/ Drive(s) \/ Doze(s)

Next ==
  \E s \in Members :
    \/ Decode(s) \/ DeadlinePasses(s)
    \/ \E fresh \in 1..MaxPrompt : Join(s, fresh)
    \/ Evict(s) \/ Pick(s) \/ Leave(s)
    \/ \E kept \in 0..(used[s] - 1) : Drop(s, kept)

(* A thread inside decode() is scheduled, and gets the mutex, eventually;  *)
(* time passes.  Nothing obliges a caller to generate or to go on.         *)
Fairness ==
  \A s \in Members : WF_vars(Decode(s)) /\ WF_vars(DeadlinePasses(s))

Spec == Init /\ [][Next]_vars

FairSpec == Spec /\ Fairness

-----------------------------------------------------------------------------
TypeOK ==
  /\ active \in 0..Capacity
  /\ queue \in Seq(Members)
  /\ phase \in [Members -> Phase]
  /\ todo \in [Members -> 0..MaxPrompt]
  /\ expired \in [Members -> BOOLEAN]
  /\ used \in [Members -> 0..(Capacity * Window)]
  /\ logits \in [Members -> {"none", "copy", "buffer", "overwritten"}]

(* Nobody is held back for somebody who is not coming: once every active   *)
(* sequence has submitted, a thread is up to drive the round.  join(),     *)
(* leave(), submissions and rounds all move one side of that comparison.   *)
NobodyHeldForNothing ==
  queue # <<>> /\ Len(queue) >= active
    => \E s \in ToSet(queue) : phase[s] = "awake"

(* The logits decode() returned are this sequence's own until it submits   *)
(* again, whatever rounds others run in the meantime.                      *)
OwnLogits == \A s \in Members : logits[s] # "overwritten"

(* A handle samples from the logits of its own last token, whoever shared  *)
(* the batch with it: batch_engine.cpp:215-329.                            *)
ResultsAreOwn == TypeOK /\ OwnLogits

(* A long prompt does not keep the others out: a round in which at most    *)
(* one submission is more than a token leaves nobody behind.               *)
TokensRideAlong ==
  [][\A s \in Members :
       Drive(s) /\ Cardinality({t \in ToSet(queue) : Chunk(t) > 1}) <= 1
         => queue' = <<>>]_vars

(* No round is wasted: whoever has waited longest is given an answer, and  *)
(* never merely handed its tokens back.                                    *)
HeadIsSettled ==
  [][Len(queue') < Len(queue)
       => phase'[Head(queue)] \in {"working", "noslot", "failed"}]_vars

(* Every submission is served, though its thread may never be the one that *)
(* drives and rounds may go by without it.                                 *)
EverySubmissionServed ==
  \A s \in Members : phase[s] \in Submitted ~> phase[s] \notin Submitted

(* The engine answers as if each submission had been decided by itself.    *)
InFlight(s) == phase[s] \in Submitted \cup {"retry"}

Asked == [s \in Members |-> IF InFlight(s) THEN Chunk(s) ELSE 0]

Told(s) ==
  IF InFlight(s) THEN "none"
  ELSE IF phase[s] = "noslot" THEN "no_kv_slot"
  ELSE IF phase[s] = "failed" THEN "failed" ELSE "ok"

Answered == [s \in Members |-> Told(s)]

Service ==
  INSTANCE DecodeService WITH
    Pool <- Capacity * Window, asked <- Asked, answer <- Answered

ImplementsDecodeService == Service!Spec
=============================================================================

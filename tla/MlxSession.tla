----------------------------- MODULE MlxSession -----------------------------
(* One handle of the MLX plugin (MlxLlm in plugin.cpp over LlamaModel in   *)
(* model.cpp): the buffers of its layers, which are trimmed by moving a    *)
(* mark and grow by doubling, the transcript that says what they hold, and *)
(* a generation from the rewind to the last token.  Running the model may  *)
(* throw at any layer; the bridge turns that into an error code and the    *)
(* handle lives on.                                                        *)
EXTENDS Integers, Sequences, SequencesExt, FiniteSetsExt

CONSTANTS Token,           \* the vocabulary, end of turn apart
          Layers,          \* num_hidden_layers
          Maximum,         \* max_position_embeddings
          Contexts,        \* n_ctx as callers ask for it; 0 is the maximum
          FirstRoom,       \* kCacheInitialCapacity
          Prompts,         \* tokenized prompts
          Heads,           \* sliding_window_n_keep as callers set it
          DefaultHead,     \* pinned_head_ of a new handle
          MaxTokens,       \* max_tokens
          ShiftThrows      \* running the model may also fail in a shift

ASSUME MlxAssumption ==
  /\ {Layers, Maximum, FirstRoom, DefaultHead, MaxTokens} \subseteq Nat \ {0}
  /\ Contexts \subseteq Nat /\ Heads \subseteq Nat
  /\ Prompts \subseteq Seq(Token) \ {<<>>}
  /\ ShiftThrows \in BOOLEAN

VARIABLES phase,       \* closed, idle, fit, prefill, loop, commit
          nCtx,        \* n_ctx_, the ceiling of the cache
          buffers,     \* of each layer, stale contents included
          allocated,   \* allocated_
          nPast,       \* n_past_: how much of the buffers is valid
          transcript,  \* transcript_
          pinned,      \* pinned_head_
          prompt, sliding, head,  \* the request: prompt and settings
          fresh,       \* prompt tokens still to be evaluated
          reply,       \* history: the tokens committed in this request
          code         \* how the last call ended

vars == <<phase, nCtx, buffers, allocated, nPast, transcript, pinned,
          prompt, sliding, head, fresh, reply, code>>
cache == <<buffers, allocated, nPast>>
request == <<prompt, sliding, head>>

Lesser(a, b) == IF a <= b THEN a ELSE b
Empty == "empty"

-----------------------------------------------------------------------------
(* What a forward pass over tokens leaves behind.                          *)

(* Room for so many cells: what is allocated, or its first doubling that   *)
(* is large enough, capped.                                                *)
Doublings(needed) ==
  LET first == IF allocated > 0 THEN allocated ELSE FirstRoom
  IN  {first * 2^n : n \in 0..needed} \cup {nCtx}

Room(needed) ==
  IF needed <= allocated THEN allocated
  ELSE Min(Doublings(needed) \cap needed..nCtx)

(* One layer: a buffer that is missing or too small is replaced, with the  *)
(* valid cells copied over, and the new keys and values are written.       *)
Written(buffer, from, tokens) ==
  LET room == Room(from + Len(tokens))
      grown == IF buffer = <<>> \/ room > allocated
                 THEN [i \in 1..room |-> IF i <= from THEN buffer[i] ELSE Empty]
                 ELSE buffer
  IN  [i \in DOMAIN grown |->
         IF i \in (from + 1)..(from + Len(tokens)) THEN tokens[i - from] ELSE grown[i]]

ForwardFrom(from, tokens) ==
  /\ buffers' = [l \in 1..Layers |-> Written(buffers[l], from, tokens)]
  /\ nPast' = from + Len(tokens)
  /\ allocated' = Room(from + Len(tokens))

(* A fault: allocated_ is advanced although the pass has failed.           *)
ThrowsAdvanced(from, tokens) ==
  /\ \E done \in 0..Layers :
       buffers' = [l \in 1..Layers |->
                     IF l <= done THEN Written(buffers[l], from, tokens) ELSE buffers[l]]
  /\ nPast' = from
  /\ allocated' = Room(from + Len(tokens))

(* The pass throws after some layers: they are written, and no mark moves. *)
ThrowsFrom(from, tokens) ==
  /\ \E done \in 0..Layers :
       buffers' = [l \in 1..Layers |->
                     IF l <= done THEN Written(buffers[l], from, tokens) ELSE buffers[l]]
  /\ nPast' = from
  /\ UNCHANGED allocated

-----------------------------------------------------------------------------
Init ==
  /\ phase = "closed" /\ nCtx = 0
  /\ buffers = [l \in 1..Layers |-> <<>>] /\ allocated = 0 /\ nPast = 0
  /\ transcript = <<>> /\ pinned = DefaultHead
  /\ prompt = <<>> /\ sliding = FALSE /\ head = 0
  /\ fresh = <<>> /\ reply = <<>> /\ code = "none"

Create ==
  /\ phase = "closed"
  /\ \E asked \in Contexts :
       LET granted == IF asked > 0 THEN asked ELSE Maximum IN
       IF granted > Maximum
         THEN code' = "invalid_input" /\ UNCHANGED <<phase, nCtx>>
         ELSE phase' = "idle" /\ nCtx' = granted /\ code' = "ok"
  /\ UNCHANGED <<cache, transcript, pinned, request, fresh, reply>>

(* reset() leaves the buffers as they are.                                 *)
Reset ==
  /\ phase = "idle"
  /\ nPast' = 0 /\ transcript' = <<>>
  /\ UNCHANGED <<phase, nCtx, buffers, allocated, pinned, request, fresh, reply, code>>

Return(why) ==
  /\ phase' = "idle" /\ code' = why /\ fresh' = <<>> /\ reply' = <<>>
  /\ prompt' = <<>> /\ sliding' = FALSE /\ head' = 0
  /\ UNCHANGED nCtx

(* How much of the prompt is there already, one token always being left.   *)
Shared(cached, wanted) ==
  Max({n \in 0..Lesser(Len(cached), Len(wanted) - 1) :
         \A i \in 1..n : cached[i] = wanted[i]})

(* The trim that follows an explicit rewind to past tokens, and the reuse  *)
(* of what the prompt shares with the rest.                                *)
Prepare(wanted, past) ==
  LET rewound == IF past > 0 THEN SubSeq(transcript, 1, past) ELSE transcript
      mark == IF past > 0 THEN past ELSE nPast
      shared == Shared(rewound, wanted)
      trims == shared < Len(rewound)
      lost == trims /\ shared > mark
      kept == IF lost THEN 0 ELSE shared
  IN  /\ transcript' = SubSeq(rewound, 1, kept)
      /\ nPast' = IF trims THEN kept ELSE mark
      /\ fresh' = SubSeq(wanted, kept + 1, Len(wanted))

Ask(wanted, past, slides, keep) ==
  /\ phase = "idle" /\ past <= nPast
  /\ pinned' = IF keep > 0 THEN keep ELSE pinned
  /\ prompt' = wanted /\ sliding' = slides /\ head' = keep
  /\ Prepare(wanted, past)
  /\ phase' = "fit" /\ code' = "none"
  /\ UNCHANGED <<nCtx, buffers, allocated, reply>>

(* A request refused after its rewind (its sampler, grammar or prompt), or *)
(* before it (past is out of range).                                       *)
AskRefused(past, keep) ==
  /\ phase = "idle"
  /\ pinned' = IF keep > 0 THEN keep ELSE pinned
  /\ IF past \in 1..nPast
       THEN nPast' = past /\ transcript' = SubSeq(transcript, 1, past)
       ELSE UNCHANGED <<nPast, transcript>>
  /\ Return("invalid_input")
  /\ UNCHANGED <<buffers, allocated>>

-----------------------------------------------------------------------------
(* shift_context(): a head and a tail of the transcript are kept, and      *)
(* evaluated again.                                                        *)
Shiftable == sliding /\ nCtx > 1 /\ transcript # <<>>

Retained ==
  LET budget == Lesser(Len(transcript), nCtx \div 2)
      kept == Lesser(pinned, budget \div 2)
      tail == budget - kept
  IN  SubSeq(transcript, 1, kept)
        \o SubSeq(transcript, Len(transcript) - tail + 1, Len(transcript))

Shift == ForwardFrom(0, Retained) /\ transcript' = Retained

(* reset_cache() has been called, and the transcript is still the old one. *)
ShiftFails ==
  /\ ShiftThrows /\ Shiftable
  /\ \/ phase = "fit" /\ Len(fresh) > nCtx - nPast
     \/ phase = "loop" /\ nPast >= nCtx
  /\ ThrowsFrom(0, Retained)
  /\ Return("failed") /\ UNCHANGED <<transcript, pinned>>

Fit ==
  /\ phase = "fit"
  /\ IF Len(fresh) <= nCtx - nPast
       THEN phase' = "prefill" /\ UNCHANGED <<nCtx, cache, transcript, request, fresh, reply, code>>
     ELSE IF ~Shiftable
       THEN Return("context_length_error") /\ UNCHANGED <<cache, transcript>>
     ELSE /\ Shift
          /\ IF Len(fresh) <= nCtx - nPast'
               THEN phase' = "prefill" /\ UNCHANGED <<nCtx, request, fresh, reply, code>>
               ELSE Return("context_length_error")
  /\ UNCHANGED pinned

Prefill ==
  /\ phase = "prefill"
  /\ ForwardFrom(nPast, fresh)
  /\ transcript' = transcript \o fresh
  /\ fresh' = <<>> /\ phase' = "loop"
  /\ UNCHANGED <<nCtx, pinned, request, reply, code>>

(* The end of turn, a schema that admits nothing, or a caller that refuses *)
(* the log-probabilities.                                                  *)
Ends ==
  /\ phase = "loop"
  /\ \E why \in {"eos", "length", "user"} : Return(why)
  /\ UNCHANGED <<cache, transcript, pinned>>

MakeRoom ==
  /\ phase = "loop"
  /\ IF nPast < nCtx \/ Shiftable
       THEN /\ IF nPast < nCtx THEN UNCHANGED <<cache, transcript>> ELSE Shift
            /\ phase' = "commit" /\ UNCHANGED <<nCtx, request, fresh, reply, code>>
       ELSE Return("context_length") /\ UNCHANGED <<cache, transcript>>
  /\ UNCHANGED pinned

(* The token is evaluated before any way out, so that the cache has it.    *)
Commit(token) ==
  /\ phase = "commit"
  /\ ForwardFrom(nPast, <<token>>)
  /\ transcript' = Append(transcript, token)
  /\ \/ /\ Len(reply) + 1 < MaxTokens /\ phase' = "loop"
        /\ reply' = Append(reply, token)
        /\ UNCHANGED <<nCtx, request, fresh, code>>
     \/ Return(IF Len(reply) + 1 = MaxTokens THEN "length" ELSE "stopped")
  /\ UNCHANGED pinned

ForwardFails ==
  /\ \/ phase = "prefill" /\ ThrowsFrom(nPast, fresh)
     \/ phase = "commit" /\ \E token \in Token : ThrowsFrom(nPast, <<token>>)
  /\ Return("failed") /\ UNCHANGED <<transcript, pinned>>

Next ==
  \/ Create \/ Reset
  \/ \E wanted \in Prompts, past \in 0..nPast, slides \in BOOLEAN, keep \in Heads :
       Ask(wanted, past, slides, keep)
  \/ \E past \in 0..(nPast + 1), keep \in Heads : AskRefused(past, keep)
  \/ Fit \/ ShiftFails \/ Prefill \/ Ends \/ MakeRoom
  \/ \E token \in Token : Commit(token)
  \/ ForwardFails

Spec == Init /\ [][Next]_vars

-----------------------------------------------------------------------------
TypeOK ==
  /\ phase \in {"closed", "idle", "fit", "prefill", "loop", "commit"}
  /\ nPast \in 0..nCtx /\ allocated \in 0..nCtx
  /\ \A l \in 1..Layers : buffers[l] \in Seq(Token \cup {Empty}) /\ Len(buffers[l]) <= nCtx
  /\ {transcript, prompt, fresh, reply} \subseteq Seq(Token)
  /\ pinned \in Heads \cup {DefaultHead}

(* plugin.cpp:591: "Ids of every token currently represented in the KV     *)
(* cache, in order", whatever was trimmed, shifted or failed before.       *)
TranscriptIsCache ==
  \A l \in 1..Layers :
    Len(buffers[l]) >= nPast /\ SubSeq(buffers[l], 1, nPast) = transcript

(* A reply is conditioned on the conversation: on all of it without        *)
(* sliding_window, otherwise on its head and on what came last.            *)
WindowOfConversation ==
  LET all == prompt \o reply
      anchored == Lesser(Lesser(pinned, nCtx \div 4), Len(all))
  IN  phase \in {"loop", "commit"} =>
        \E kept \in 0..Len(transcript) :
          /\ transcript = SubSeq(all, 1, kept)
               \o SubSeq(all, Len(all) - (Len(transcript) - kept) + 1, Len(all))
          /\ transcript # all => sliding /\ kept >= anchored

(* The capacity check of forward_logits() is never what ends a request.    *)
RoomIsMade ==
  /\ phase = "prefill" => nPast + Len(fresh) <= nCtx
  /\ phase = "commit" => nPast < nCtx

(* The three together: what a reply is computed from, whatever was         *)
(* trimmed, shifted or failed before it: plugin.cpp:250-455, 591.          *)
CacheIsConversation ==
  TypeOK /\ TranscriptIsCache /\ WindowOfConversation /\ RoomIsMade

(* unirt.h:508: sliding_window_n_keep = 0 is the plugin's default of 4,    *)
(* whatever another request asked for.                                     *)
(* For the record: it does not hold (README.md, Disagreements).            *)
HeadAsAsked ==
  phase \notin {"closed", "idle"} => pinned = IF head = 0 THEN DefaultHead ELSE head
=============================================================================

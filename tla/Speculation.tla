---------------------------- MODULE Speculation -----------------------------
(* Speculative decoding in LlamaCppLlm (llm.cpp): the draft model proposes *)
(* tokens, the target verifies them in one batch, and what it rejects is   *)
(* rolled back.  One reply of one handle, which has its engine to itself.  *)
EXTENDS Integers, Sequences, SequencesExt, FiniteSetsExt

CONSTANTS Token, Eog,    \* the vocabulary and its end of generation
          NoToken,       \* stands for scores that were overwritten
          Prompt,        \* the prompt, decoded already
          MaxTokens,     \* max_tokens
          DraftTokens,   \* draft_tokens_
          Window,        \* context_size_ of both models
          Trimmable,     \* the target's memory can drop a tail
          Spoils         \* whether llama_decode may refuse a batch that fits

SpeculationAssumption ==
  /\ Eog \in Token /\ NoToken \notin Token
  /\ Prompt \in Seq(Token \ {Eog}) /\ Len(Prompt) \in 1..Window
  /\ {MaxTokens, DraftTokens, Window} \subseteq Nat /\ MaxTokens > 0
  /\ {Trimmable, Spoils} \subseteq BOOLEAN

VARIABLES phase,       \* head, draft, first, batch, walk, fallback, emit
          says,        \* history: the target's answers to what it was asked
          history,     \* history_, the tokens in the target's cache
          row,         \* what last_logits_ are the scores after
          chain,       \* the tokens the sampler chain accepted
          drafted,     \* DraftModel::history_
          draftCells,  \* the draft's cache
          proposals,   \* what the draft proposed this round
          matched,     \* how many of them the target agreed with
          step,        \* tokens of this round yet to be appended
          ready,       \* how many of those are in the cache already
          output,      \* tokens appended to the reply
          ended        \* "no", or why the reply ended

vars == <<phase, says, history, row, chain, drafted, draftCells, proposals,
          matched, step, ready, output, ended>>
target == <<history, row>>
draft == <<drafted, draftCells>>
reply == <<output, ended>>

-----------------------------------------------------------------------------
Overwritten == <<NoToken>>

(* pick(): the target's token after the scores' context, sampled by a      *)
(* chain in its present state.                                             *)
Ask(context, t) ==
  LET q == <<context, chain>> IN
  /\ q \in DOMAIN says => says[q] = t
  /\ says' = [p \in DOMAIN says \cup {q} |-> IF p = q THEN t ELSE says[p]]

(* A fault: sampling accepts the token, and so does the caller.            *)
AcceptTwice(t) == chain' = chain \o <<t, t>>

(* llama_sampler_accept().                                                 *)
Accept(t) == chain' = Append(chain, t)

Init ==
  /\ phase = "head" /\ says = <<>>
  /\ history = Prompt /\ row = Prompt /\ chain = Prompt
  /\ drafted = <<>> /\ draftCells = <<>>
  /\ proposals = <<>> /\ matched = 0 /\ step = <<>> /\ ready = 0
  /\ output = <<>> /\ ended = "no"

(* The loop head: room for one more token, or the end.                     *)
LoopHead ==
  /\ phase = "head" /\ ended = "no"
  /\ IF Len(history) >= Window
       THEN ended' = "context_length" /\ UNCHANGED phase
       ELSE phase' = "draft" /\ UNCHANGED ended
  /\ proposals' = <<>> /\ matched' = 0 /\ step' = <<>> /\ ready' = 0
  /\ UNCHANGED <<says, target, chain, draft, output>>

(* How many tokens the draft is asked for.                                 *)
ProposalCount == Min({MaxTokens - Len(output) - 1, DraftTokens})

NoDraft ==
  /\ phase = "draft" /\ ProposalCount <= 0
  /\ phase' = "first"
  /\ UNCHANGED <<says, target, chain, draft, proposals, matched, step, ready, reply>>

(* sync(): the draft cannot decode the prefix, and starts over next time.  *)
SyncFails ==
  /\ phase = "draft" /\ ProposalCount > 0
  /\ draftCells' = <<>> /\ drafted' = <<>>
  /\ phase' = "first"
  /\ UNCHANGED <<says, target, chain, proposals, matched, step, ready, reply>>

(* sync() brings the draft's cache to the target's, whatever part of it    *)
(* was there, and propose() guesses on until it wants no more.             *)
SyncAndPropose ==
  /\ phase = "draft" /\ ProposalCount > 0
  /\ LET agreed == Len(LongestCommonPrefix({drafted, history}))
         cells  == SubSeq(draftCells, 1, agreed) \o SubSeq(history, agreed + 1, Len(history))
     IN  \E guess \in BoundedSeq(Token \ {Eog}, Min({ProposalCount, Window - Len(history)})) :
           /\ proposals' = guess
           /\ drafted' = history \o guess
           /\ draftCells' = cells \o guess
  /\ phase' = "first"
  /\ UNCHANGED <<says, target, chain, matched, step, ready, reply>>

(* The token the target would produce anyway; it may end the round.        *)
PickFirst ==
  /\ phase = "first"
  /\ \E t \in Token :
       /\ Ask(row, t)
       /\ Accept(t)
       /\ step' = <<t>>
       /\ phase' = IF /\ proposals # <<>> /\ Head(proposals) = t
                      /\ Len(history) + Len(proposals) <= Window
                     THEN "batch" ELSE "emit"
  /\ UNCHANGED <<target, draft, proposals, matched, ready, reply>>

(* The batch of all proposals goes into the cache, over the old scores.    *)
BatchDecoded ==
  /\ phase = "batch"
  /\ history' = history \o proposals
  /\ row' = Overwritten
  /\ matched' = 1
  /\ phase' = "walk"
  /\ UNCHANGED <<says, chain, draft, proposals, step, ready, reply>>

(* llama_decode returns 1: nothing was decoded, decode one token instead.  *)
BatchSpoiled ==
  /\ phase = "batch" /\ Spoils
  /\ step' = <<>>
  /\ phase' = "fallback"
  /\ UNCHANGED <<says, target, chain, draft, proposals, matched, ready, reply>>

BatchFails ==
  /\ phase = "batch"
  /\ ended' = "failed" /\ phase' = "head"
  /\ UNCHANGED <<says, target, chain, draft, proposals, matched, step, ready, output>>

(* A fault: one rejected proposal stays in the cache.                      *)
KeepOneMore == SubSeq(history, 1,
  Min({Len(history), Len(history) - (Len(proposals) - matched) + 1}))

(* What stays in the cache: all but the proposals that were not matched.   *)
Kept == SubSeq(history, 1, Len(history) - (Len(proposals) - matched))

(* A fault: a proposal is taken on trust.                                  *)
TrustsProposal(t) == matched < Len(proposals)

(* The target agrees with the next proposal.                               *)
AgreesWith(t) == matched < Len(proposals) /\ proposals[matched + 1] = t

Agree ==
  /\ phase = "walk"
  /\ \E t \in Token :
       /\ Ask(Kept, t) /\ AgreesWith(t)
       /\ step' = Append(step, proposals[matched + 1])
       /\ Accept(proposals[matched + 1])
  /\ matched' = matched + 1
  /\ UNCHANGED <<phase, target, draft, proposals, ready, reply>>

(* The target differs, or has outlived the proposals: its own token comes  *)
(* last, after the rejected ones were dropped from the cache.              *)
Diverge ==
  /\ phase = "walk"
  /\ matched = Len(proposals) \/ Trimmable
  /\ \E t \in Token :
       /\ Ask(Kept, t) /\ ~AgreesWith(t)
       /\ step' = Append(step, t)
       /\ Accept(t)
  /\ history' = Kept
  /\ ready' = matched
  /\ phase' = "emit"
  /\ UNCHANGED <<row, draft, proposals, matched, reply>>

(* A fault: the refusal goes unnoticed.                                    *)
RollbackIgnored ==
  /\ phase = "walk" /\ matched < Len(proposals) /\ ~Trimmable
  /\ \E t \in Token : Ask(Kept, t) /\ ~AgreesWith(t)
  /\ step' = <<>>
  /\ phase' = "fallback"
  /\ UNCHANGED <<target, chain, draft, proposals, matched, ready, reply>>

(* The tail cannot be dropped: the whole sequence goes instead.            *)
RollbackRefused ==
  /\ phase = "walk" /\ matched < Len(proposals) /\ ~Trimmable
  /\ \E t \in Token : Ask(Kept, t) /\ ~AgreesWith(t)
  /\ history' = <<>>
  /\ step' = <<>>
  /\ phase' = "fallback"
  /\ UNCHANGED <<row, chain, draft, proposals, matched, ready, reply>>

(* The round produced nothing: pick one token from the scores at hand.     *)
PickPlain ==
  /\ phase = "fallback"
  /\ \E t \in Token : Ask(row, t) /\ Accept(t) /\ step' = <<t>>
  /\ ready' = 0
  /\ phase' = "emit"
  /\ UNCHANGED <<target, draft, proposals, matched, reply>>

(* The next token of the round ends the reply.                             *)
EmitEog ==
  /\ phase = "emit" /\ Head(step) = Eog
  /\ ended' = "eos" /\ phase' = "head"
  /\ UNCHANGED <<says, target, chain, draft, proposals, matched, step, ready, output>>

(* A token that is not in the cache yet finds no room there.               *)
DecodeRefused ==
  /\ phase = "emit" /\ Head(step) # Eog /\ ready = 0
  /\ Len(history) >= Window
  /\ ended' = "context_length_error" /\ phase' = "head"
  /\ UNCHANGED <<says, target, chain, draft, proposals, matched, step, ready, output>>

(* A token is decoded unless the verified batch did that.                  *)
DecodeIfNew ==
  IF ready > 0 THEN ready' = ready - 1 /\ UNCHANGED target
  ELSE history' = Append(history, Head(step)) /\ row' = history' /\ UNCHANGED ready

(* The next token of the round is appended to the reply, which may end it. *)
Emit ==
  /\ phase = "emit" /\ Head(step) # Eog
  /\ ready > 0 \/ Len(history) < Window
  /\ DecodeIfNew
  /\ output' = Append(output, Head(step))
  /\ step' = Tail(step)
  /\ ended' \in IF Len(output') >= MaxTokens THEN {"length", "stopped"} ELSE {"no", "stopped"}
  /\ phase' = IF step' = <<>> \/ ended' # "no" THEN "head" ELSE "emit"
  /\ UNCHANGED <<says, chain, draft, proposals, matched>>

Next ==
  \/ LoopHead \/ NoDraft \/ SyncFails \/ SyncAndPropose
  \/ PickFirst \/ BatchDecoded \/ BatchSpoiled \/ BatchFails
  \/ Agree \/ Diverge \/ RollbackRefused \/ PickPlain
  \/ EmitEog \/ DecodeRefused \/ Emit

Spec == Init /\ [][Next]_vars

-----------------------------------------------------------------------------
TypeOK ==
  /\ phase \in {"head", "draft", "first", "batch", "walk", "fallback", "emit"}
  /\ {history, drafted, draftCells, proposals, step, output, chain} \subseteq Seq(Token)
  /\ row \in Seq(Token) \cup {Overwritten}
  /\ Len(history) <= Window /\ Len(output) <= MaxTokens
  /\ matched \in 0..Len(proposals) /\ ready \in 0..Len(step)
  /\ ended \in {"no", "eos", "length", "stopped", "context_length",
                "context_length_error", "failed"}

(* llm.cpp:1198-1199: of the tokens of a round the cache holds exactly     *)
(* those that are not to be decoded again, after all that was appended;    *)
(* and the scores belong to the last of them.                              *)
CacheIsReplySoFar ==
  /\ phase \in {"emit", "head"} =>
       history = Prompt \o output \o SubSeq(step, 1, ready)
  /\ phase \in {"draft", "first"} => history = Prompt \o output /\ row = history

(* llm.cpp:872-873: whatever the round came to, a rejected proposal is     *)
(* never left in the cache: what it holds is the end of the reply.         *)
NothingRejectedStays ==
  phase \in {"emit", "head"} =>
    \E n \in 0..Len(Prompt \o output \o SubSeq(step, 1, ready)) :
      history = SubSeq(Prompt \o output \o SubSeq(step, 1, ready), n + 1,
                       Len(Prompt \o output \o SubSeq(step, 1, ready)))

(* llm.cpp:1210-1213: the sampler chain advances exactly once for each     *)
(* token that is kept, whichever path picked it.                           *)
ChainAdvancesOnce ==
  phase \in {"emit", "head"} /\ ended = "no" => chain = Prompt \o output \o step

(* llm.cpp:283-285: the draft's transcript is what its cache holds, or     *)
(* the next round would build on a prefix that is not there.               *)
DraftMirrorsKV == drafted = draftCells

(* README.md:371-374: the text is what the target alone would produce.     *)
(* For the record: it does not hold (README.md, Disagreements).            *)
SameText ==
  \A i \in DOMAIN output :
    LET before == Prompt \o SubSeq(output, 1, i - 1) IN
    /\ <<before, before>> \in DOMAIN says
    /\ output[i] = says[<<before, before>>]

(* README.md:371-374: where the target alone would stop at a full window   *)
(* with the text so far, so does a speculating handle: the call does not   *)
(* fail.                                                                   *)
(* For the record: it does not hold (README.md, Disagreements).            *)
FullWindowKeepsText == ended # "context_length_error"

Plain == INSTANCE PlainDecoding

(* Speculating changes how tokens are made, never which: seen from the     *)
(* reply, every behaviour is one of plain decoding.                        *)
ImplementsPlainDecoding == Plain!Spec

=============================================================================

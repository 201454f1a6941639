-------------------------------- MODULE Llm --------------------------------
(* What a llama.cpp language-model handle is made of: the weights and the  *)
(* context it shares with others (ModelSharing), a draft that speculates,  *)
(* and the text of a reply on its way to the caller.  The parts keep state *)
(* of their own; what speculation needs of a shared context is that it     *)
(* looks private, which is what PrivateCache says of it.                   *)
EXTENDS ModelSharing, Sequences

CONSTANTS Token, Eog, NoToken, Prompt, DraftTokens,
          Roomy, Tight  \* [tokens |-> max_tokens, window |-> context_size_] of two replies

VARIABLES part,         \* which of the parts below a behaviour is about
          phase, says, history, row, chain, drafted, draftCells, proposals,
          matched, step, ready, output, ended

(* A memory that drops its tail and takes what fits.                       *)
Exact == INSTANCE Speculation WITH
  MaxTokens <- Roomy.tokens, Window <- Roomy.window, Trimmable <- TRUE, Spoils <- FALSE

(* A memory that drops nothing and may refuse.                             *)
Refusing == INSTANCE Speculation WITH
  MaxTokens <- Tight.tokens, Window <- Tight.window, Trimmable <- FALSE, Spoils <- TRUE

CONSTANTS Ascii, Lead2, Lead3, Cont, Pieces, Stops, Budget, Logprobs

VARIABLES streaming, text, emitted, pending, quit, shown, generated, reason, full,
          raw, refused

Stream == INSTANCE TextStream WITH MaxTokens <- Budget, phase <- streaming

(* The window of the first reply has room for all of it, so that plain     *)
(* decoding does not end for lack of room.                                 *)
ASSUME LlmAssumption ==
  /\ Exact!SpeculationAssumption /\ Len(Prompt) + Roomy.tokens <= Roomy.window
  /\ Refusing!SpeculationAssumption
  /\ Stream!StreamAssumption

-----------------------------------------------------------------------------
(* Between rounds the target's cache is the reply so far and the draft's   *)
(* transcript its cache: llm.cpp:1198-1199, 283-285.                       *)
CachesAgree ==
  /\ Exact!TypeOK
  /\ part = "exact" => Exact!CacheIsReplySoFar
  /\ Exact!DraftMirrorsKV

(* llm.cpp:1210-1213: the sampler chain advances exactly once for each     *)
(* token that is kept, whichever path picked it.                           *)
ChainAdvancesOnce == part = "exact" => Exact!ChainAdvancesOnce

(* llm.cpp:872-873: a rejected proposal is never left in the cache, where  *)
(* the tail cannot be dropped either.                                      *)
NothingRejectedStays == Refusing!NothingRejectedStays

(* README.md:371-374: speculating changes how tokens are made, never       *)
(* which: seen from the reply, every step is one of plain decoding.        *)
ImplementsPlainDecoding ==
  /\ Exact!Plain!Init
  /\ [][part = "exact" => Exact!Plain!Next]_<<says, output, ended>>

(* generation_state.h:15-16: no byte of a stop sequence reaches the        *)
(* caller, however the pieces cut it, and nothing shown is taken back.     *)
StopsNeverLeak == Stream!TypeOK /\ Stream!StopsNeverLeak

(* The text returned is all the model said up to the first stop, and what  *)
(* was streamed agrees with it: llm.cpp:1216-1262, utils.cpp:90-125.       *)
StreamAgreesWithText == Stream!StopCutsOutput /\ Stream!StreamAgreesWithText

=============================================================================

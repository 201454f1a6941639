----------------------------- MODULE TextStream -----------------------------
(* The text of one generation on its way to the caller: the pieces of the  *)
(* sampled tokens go through StopStreamState (generation_state.h), which   *)
(* holds back what may become a stop sequence, then through StreamJoiner   *)
(* (utils.cpp), which holds back an unfinished character, to on_token.     *)
(* Bytes are classes: ASCII letters, the leads of two- and three-byte      *)
(* characters and the continuation byte.                                   *)
EXTENDS Integers, Sequences, SequencesExt, FiniteSetsExt

CONSTANTS Ascii,      \* ASCII letters
          Lead2, Lead3, Cont,
          Pieces,     \* what a token may spell: sequences of bytes
          Stops,      \* the stop sequences of the request
          MaxTokens,  \* max_tokens
          Logprobs    \* whether the request asks for log-probabilities

Byte == Ascii \cup {Lead2, Lead3, Cont}

StreamAssumption ==
  /\ Cont \notin Ascii \cup {Lead2, Lead3}
  /\ Pieces \cup Stops \subseteq Seq(Byte) \ {<<>>}
  /\ MaxTokens \in Nat \ {0}
  /\ Logprobs \in BOOLEAN

VARIABLES phase,      \* running, capped, over, failed, returned
          text,       \* StopStreamState::text_
          emitted,    \* StopStreamState::emitted_
          pending,    \* StreamJoiner::pending_
          quit,       \* StreamJoiner::downstream_stopped_
          shown,      \* the pieces on_token was called with
          generated,  \* tokens appended so far
          reason,     \* stop_reason
          full,       \* full_text
          raw,        \* history: all the model said
          refused     \* history: how many pieces were shown when the caller said stop

vars == <<phase, text, emitted, pending, quit, shown, generated, reason, full, raw, refused>>

-----------------------------------------------------------------------------
(* Bytes of a character that starts with b; anything else stands alone.    *)
SequenceLength(b) == IF b = Lead2 THEN 2 ELSE IF b = Lead3 THEN 3 ELSE 1

(* Where the last character of s starts.                                   *)
LastLead(s) == Max({1} \cup {i \in DOMAIN s : s[i] # Cont})

(* How much of s is whole characters.                                      *)
Whole(s) == IF s = <<>> THEN 0
            ELSE LET at == LastLead(s) IN
                 IF Len(s) - at + 1 >= SequenceLength(s[at]) THEN Len(s) ELSE at - 1

(* The model speaks UTF-8 that may be cut anywhere.                        *)
Utf8Prefix(s) ==
  \A i \in DOMAIN s :
    IF s[i] = Cont
      THEN \E j \in 1..(i - 1) :
             /\ SequenceLength(s[j]) > i - j
             /\ \A k \in (j + 1)..i : s[k] = Cont
      ELSE \A k \in (i + 1)..Len(s) : k < i + SequenceLength(s[i]) => s[k] = Cont

Utf8(s) == Utf8Prefix(s) /\ Whole(s) = Len(s)

(* Where stop occurs in s.                                                 *)
Found(stop, s) ==
  {i \in DOMAIN s : i + Len(stop) - 1 <= Len(s) /\ SubSeq(s, i, i + Len(stop) - 1) = stop}

Hits(s) == UNION {Found(stop, s) : stop \in Stops}

(* pending_stop_prefix(): the longest end of s that begins a stop.         *)
PendingStop(s) ==
  Max({0} \cup {n \in 1..Len(s) :
    \E stop \in Stops : n < Len(stop) /\ IsPrefix(SubSeq(s, Len(s) - n + 1, Len(s)), stop)})

(* A fault: the text is cut where the last stop found starts.              *)
TrimAtLast(s) == IF Hits(s) = {} THEN s ELSE SubSeq(s, 1, Max(Hits(s)) - 1)

(* find_and_trim_stop(): cut where the first stop found starts.            *)
Trim(s) == IF Hits(s) = {} THEN s ELSE SubSeq(s, 1, Min(Hits(s)) - 1)

-----------------------------------------------------------------------------
(* A fault: consume() drops a piece that completes nothing.                *)
ConsumeForgetting(chunk, keep) ==
  LET all == pending \o chunk
      w   == Whole(all)
  IN  IF w > 0
        THEN /\ shown' = Append(shown, SubSeq(all, 1, w))
             /\ pending' = SubSeq(all, w + 1, Len(all))
             /\ quit' = ~keep
        ELSE UNCHANGED <<shown, pending, quit>>

(* StreamJoiner::consume(): pass on what is whole.                         *)
Consume(chunk, keep) ==
  LET all == pending \o chunk
      w   == Whole(all)
  IN  /\ pending' = SubSeq(all, w + 1, Len(all))
      /\ IF w > 0 THEN shown' = Append(shown, SubSeq(all, 1, w)) /\ quit' = ~keep
                  ELSE UNCHANGED <<shown, quit>>

(* emit_safe() on text t, the caller answering keep; FALSE when it was     *)
(* asked and refused.  What was not emitted is then discarded.             *)
Emit(t, final, keep) ==
  LET safe == IF final THEN Len(t) ELSE Len(t) - PendingStop(t) IN
  /\ IF safe > emitted
       THEN /\ Consume(SubSeq(t, emitted + 1, safe), keep)
            /\ emitted' = safe
       ELSE UNCHANGED <<emitted, pending, quit, shown>>
  /\ text' = IF quit' THEN SubSeq(t, 1, emitted') ELSE t
  /\ refused' = IF quit' THEN Len(shown') ELSE refused

Init ==
  /\ phase = "running" /\ text = <<>> /\ emitted = 0 /\ generated = 0 /\ raw = <<>>
  /\ pending = <<>> /\ quit = FALSE /\ shown = <<>>
  /\ reason = "none" /\ full = <<>> /\ refused = -1

(* A non-final token: append, look for a stop, show what is safe.          *)
Piece(p, keep) ==
  /\ phase = "running" /\ generated < MaxTokens
  /\ Utf8Prefix(raw \o p)
  /\ raw' = raw \o p
  /\ generated' = generated + 1
  /\ LET t == Trim(text \o p)
         hit == Hits(text \o p) # {}
     IN  /\ Emit(t, hit, keep)
         /\ reason' = CASE quit' -> "user" [] ~quit' /\ hit -> "stop_sequence"
                        [] OTHER -> reason
         /\ phase' = CASE quit' \/ hit -> "over"
                       [] ~quit' /\ ~hit /\ generated' = MaxTokens -> "capped"
                       [] OTHER -> "running"
  /\ UNCHANGED full

(* The generation ends on its own: flush what was held back.               *)
Flush(why, keep) ==
  /\ Emit(text, TRUE, keep)
  /\ reason' = IF quit' THEN "user" ELSE why
  /\ phase' = "over"
  /\ UNCHANGED <<generated, full, raw>>

Capped(keep) == phase = "capped" /\ Flush("length", keep)

Eos(keep) == phase = "running" /\ Flush("eos", keep)

(* No room for another token: the window is full and cannot be shifted.    *)
ContextFull(keep) == phase = "running" /\ Flush("context_length", keep)

(* on_logprob answers false to a token that was not appended yet.          *)
LogprobStops ==
  /\ phase = "running" /\ Logprobs
  /\ text' = SubSeq(text, 1, emitted)
  /\ reason' = "user" /\ phase' = "over" /\ refused' = Len(shown)
  /\ UNCHANGED <<emitted, pending, quit, shown, generated, full, raw>>

(* decode() fails: the call returns its code, and no text.                 *)
DecodeFails ==
  /\ phase = "running"
  /\ phase' = "failed"
  /\ UNCHANGED <<text, emitted, pending, quit, shown, generated, reason, full, raw, refused>>

(* generate() drops an unfinished character from full_text.                *)
FullText(t) == SubSeq(t, 1, Whole(t))

(* generate() returns, and run_generation() has the joiner finish().       *)
Return ==
  /\ phase = "over"
  /\ full' = FullText(text)
  /\ IF pending # <<>> /\ ~quit
       THEN shown' = Append(shown, pending) /\ pending' = <<>>
       ELSE UNCHANGED <<shown, pending>>
  /\ phase' = "returned"
  /\ UNCHANGED <<text, emitted, quit, generated, reason, raw, refused>>

Next ==
  \/ \E keep \in BOOLEAN :
       \/ \E p \in Pieces : Piece(p, keep)
       \/ Capped(keep) \/ Eos(keep) \/ ContextFull(keep)
  \/ LogprobStops \/ DecodeFails \/ Return

Spec == Init /\ [][Next]_vars

-----------------------------------------------------------------------------
TypeOK ==
  /\ phase \in {"running", "capped", "over", "failed", "returned"}
  /\ {text, pending, full, raw} \subseteq Seq(Byte)
  /\ emitted \in 0..Len(text)
  /\ quit \in BOOLEAN
  /\ shown \in Seq(Seq(Byte))
  /\ generated \in 0..MaxTokens
  /\ reason \in {"none", "length", "eos", "context_length", "stop_sequence", "user"}
  /\ refused \in -1..Len(shown)

Streamed == FlattenSeq(shown)

(* generation_state.h:15-16: no byte of a stop sequence reaches the caller *)
(* however the pieces cut it, and nothing that was shown is taken back:    *)
(* what was shown and what the joiner holds is the emitted text.           *)
StopsNeverLeak ==
  /\ Hits(Streamed \o pending) = {}
  /\ Streamed \o pending = SubSeq(text, 1, emitted)

(* A generation that met a stop returned all the model said up to the      *)
(* first stop, and one that ended otherwise met none (a user may refuse    *)
(* the very piece that a stop cuts).                                       *)
StopCutsOutput ==
  phase = "returned" =>
    /\ reason = "stop_sequence" =>
         Hits(raw) # {} /\ full = SubSeq(raw, 1, Min(Hits(raw)) - 1)
    /\ reason \in {"length", "eos", "context_length"} =>
         Hits(raw) = {} /\ full = FullText(raw)
    /\ reason = "user" => IsPrefix(full, raw) /\ Hits(full) = {}

(* full_text is well-formed, the stream agrees with it up to an unfinished *)
(* last character, and exactly when the caller or a stop ended the stream. *)
StreamAgreesWithText ==
  phase = "returned" =>
    /\ Utf8(full)
    /\ IsPrefix(full, Streamed)
    /\ Streamed = full \/ Whole(SubSeq(Streamed, Len(full) + 1, Len(Streamed))) = 0
    /\ reason = "stop_sequence" \/ quit => Streamed = full

(* unirt.h:164-166: each piece shown is made of whole characters.          *)
(* For the record: it does not hold (README.md, Disagreements).            *)
WholeCharacters == \A i \in DOMAIN shown : Utf8(shown[i])

(* unirt.h:167, 196: once a callback answered false the generation stops,  *)
(* and the caller is shown nothing more.                                   *)
(* For the record: it does not hold (README.md, Disagreements).            *)
NothingAfterRefusal == refused >= 0 => Len(shown) = refused

=============================================================================

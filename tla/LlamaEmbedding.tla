--------------------------- MODULE LlamaEmbedding ---------------------------
(* The llama.cpp embedding handle (llama_cpp/src/embedding.cpp): a batch   *)
(* of token rows, or the pairs of a query and its documents, is packed     *)
(* into one llama_batch, a row per sequence, and pooled row by row.  The   *)
(* two jobs keep a context each, which grows when a batch asks for more.   *)
EXTENDS Integers, Sequences, FiniteSets, SequencesExt, FiniteSetsExt

CONSTANTS Batches,       \* the rectangles of ids that encode() is asked for
          Questions,     \* <<query, documents>> that rerank() is asked for
          VocabSize,
          MaxRowTokens,  \* what the model was trained for, 0 when it does not say
          Classifier,    \* the model has exactly one classifier output
          RerankTemplate, \* the model has a rerank template
          MaxContext     \* the largest context llama.cpp allocates

Pad == -1                \* a cell whose attention mask is 0
Bos == VocabSize         \* tokens that only tokenize_rerank_pair() adds
Eos == VocabSize + 1
Jobs == {"encode", "rerank"}

EmbeddingAssumption ==
  /\ VocabSize \in Nat /\ MaxRowTokens \in Nat /\ MaxContext \in Nat
  /\ Classifier \in BOOLEAN /\ RerankTemplate \in BOOLEAN
  /\ \A b \in Batches : b \in Seq(Seq(Int)) /\ \A r \in DOMAIN b : Len(b[r]) = Len(b[1])
  /\ \A q \in Questions : q \in Seq(Nat) \X Seq(Seq(Nat)) /\ q[2] # <<>>

VARIABLES stage,     \* idle, accepted, ready, pooling
          job,       \* which entry point
          rows,      \* the visible tokens of each row
          sessions,  \* per job: capacities claimed, n_ctx, whether there is one
          memory,    \* per job: the cells of the context
          batch,     \* the entries of llama_batch
          result,    \* the malloc'ed rows filled so far
          code

vars == <<stage, job, rows, sessions, memory, batch, result, code>>

-----------------------------------------------------------------------------
NoSession == [tokens |-> 0, seqs |-> 0, ctx |-> 0, live |-> FALSE]

(* create(): a fresh encoder has no contexts.                              *)
Init ==
  /\ stage = "idle" /\ job = "encode" /\ rows = <<>>
  /\ sessions = [j \in Jobs |-> NoSession] /\ memory = [j \in Jobs |-> {}]
  /\ batch = <<>> /\ result = <<>> /\ code = "ok"

(* The tokens of a row that are not masked.                                *)
Visible(row) ==
  LET kept[n \in 0..Len(row)] ==
        IF n = 0 THEN <<>>
        ELSE IF row[n] = Pad THEN kept[n - 1]
        ELSE Append(kept[n - 1], row[n])
  IN  kept[Len(row)]

Longest(list) == Max({0} \cup {Len(row) : row \in Range(list)})

RowTaken(row) == row # <<>> /\ (MaxRowTokens > 0 => Len(row) <= MaxRowTokens)

Return(why) ==
  /\ stage' = "idle" /\ code' = why
  /\ batch' = <<>> /\ rows' = <<>>

(* encode(), up to the session: masked cells are dropped before their ids  *)
(* are looked at.                                                          *)
Encode(b) ==
  /\ stage = "idle" /\ b # <<>> /\ b[1] # <<>>
  /\ LET visible == [r \in DOMAIN b |-> Visible(b[r])] IN
     IF \A row \in Range(visible) : RowTaken(row) /\ Range(row) \subseteq 0..(VocabSize - 1)
       THEN /\ stage' = "accepted" /\ rows' = visible /\ code' = "none"
            /\ UNCHANGED batch
       ELSE Return("invalid_input")
  /\ job' = "encode" /\ result' = <<>>
  /\ UNCHANGED <<sessions, memory>>

(* tokenize_rerank_pair()                                                  *)
Pair(query, document) ==
  IF RerankTemplate THEN <<Bos>> \o query \o document
  ELSE <<Bos>> \o query \o <<Eos>> \o document \o <<Eos>>

(* rerank(), up to the session.                                            *)
Rerank(q) ==
  /\ stage = "idle"
  /\ LET pairs == [i \in DOMAIN q[2] |-> Pair(q[1], q[2][i])] IN
     CASE ~Classifier -> Return("param_not_supported")
       [] Classifier /\ \A row \in Range(pairs) : RowTaken(row) ->
            /\ stage' = "accepted" /\ rows' = pairs /\ code' = "none"
            /\ UNCHANGED batch
       [] OTHER -> Return("invalid_input")
  /\ job' = "rerank" /\ result' = <<>>
  /\ UNCHANGED <<sessions, memory>>

-----------------------------------------------------------------------------
(* A fault: only the longest row is compared.                              *)
EnoughTokens(s) == s.live /\ s.tokens >= Longest(rows)

(* The session at hand is large enough both ways.                          *)
Enough(s) == s.live /\ s.tokens >= Longest(rows) /\ s.seqs >= Len(rows)

(* ensure_session(), ensure_rerank_session() and llama_memory_clear(): the *)
(* context is replaced, never grown, by one of rows times sequences.       *)
Ensure ==
  /\ stage = "accepted"
  /\ LET span == Longest(rows) * Len(rows) IN
     IF Enough(sessions[job])
       THEN /\ stage' = "ready" /\ memory' = [memory EXCEPT ![job] = {}]
            /\ UNCHANGED <<rows, sessions, batch, code>>
       ELSE \/ /\ span <= MaxContext
               /\ sessions' = [sessions EXCEPT ![job] =
                    [tokens |-> Longest(rows), seqs |-> Len(rows), ctx |-> span, live |-> TRUE]]
               /\ memory' = [memory EXCEPT ![job] = {}]
               /\ stage' = "ready" /\ UNCHANGED <<rows, batch, code>>
            \/ /\ sessions' = [sessions EXCEPT ![job] = NoSession]
               /\ memory' = [memory EXCEPT ![job] = {}]
               /\ Return("inference_failed")
  /\ UNCHANGED <<job, result>>

Entry(token, at, row) == [token |-> token, pos |-> at, seq |-> row]

(* The batch: row after row, positions from 0, the row for a sequence.     *)
Packed ==
  FlattenSeq([r \in DOMAIN rows |-> [p \in DOMAIN rows[r] |-> Entry(rows[r][p], p - 1, r)]])

(* row_first_index, counted from 1.                                        *)
First(r) == 1 + Len(FlattenSeq(SubSeq(rows, 1, r - 1)))

(* What llama.cpp can evaluate: every sequence has an equal share.         *)
Fits(s) ==
  /\ Len(Packed) <= s.ctx
  /\ \A r \in DOMAIN rows : Len(rows[r]) <= s.ctx \div s.seqs

(* llama_encode() or llama_decode(), and the buffer for the rows.          *)
Evaluate ==
  /\ stage = "ready" /\ Fits(sessions[job])
  /\ batch' = Packed
  /\ memory' = [memory EXCEPT ![job] = @ \cup Range(Packed)]
  /\ stage' = "pooling" /\ result' = <<>>
  /\ UNCHANGED <<job, rows, sessions, code>>

(* The evaluation or the allocation of the buffer fails.                   *)
EvaluateFails ==
  /\ stage = "ready"
  /\ memory' \in {memory, [memory EXCEPT ![job] = @ \cup Range(Packed)]}
  /\ \E why \in {"inference_failed", "memory"} : Return(why)
  /\ UNCHANGED <<job, sessions, result>>

(* What an entry was evaluated to: the entry and all that it attended to.  *)
Vector(entry) == [of |-> entry, saw |-> {c \in memory[job] : c.seq = entry.seq}]

(* The next row: pooled by llama.cpp from a sequence, or the average of    *)
(* the row's outputs; a rerank context always pools.                       *)
PoolRow ==
  /\ stage = "pooling" /\ Len(result) < Len(rows)
  /\ LET r == Len(result) + 1 IN
     \/ result' = Append(result, {Vector(e) : e \in {x \in Range(batch) : x.seq = r}})
     \/ /\ job = "encode"
        /\ result' = Append(result,
             {Vector(batch[First(r) + p]) : p \in 0..(Len(rows[r]) - 1)})
  /\ UNCHANGED <<stage, job, rows, sessions, memory, batch, code>>

(* A fault: the rows pooled so far are handed out.                         *)
PoolFailsPartly ==
  /\ stage = "pooling" /\ Len(result) < Len(rows)
  /\ Return("output_invalid")
  /\ UNCHANGED <<job, sessions, memory, result>>

(* No vector for a row: the buffer is freed.                               *)
PoolFails ==
  /\ stage = "pooling" /\ Len(result) < Len(rows)
  /\ result' = <<>>
  /\ Return("output_invalid")
  /\ UNCHANGED <<job, sessions, memory>>

(* The rows are the caller's.                                              *)
Deliver ==
  /\ stage = "pooling" /\ Len(result) = Len(rows)
  /\ stage' = "idle" /\ code' = "ok"
  /\ UNCHANGED <<job, rows, sessions, memory, batch, result>>

Next ==
  \/ \E b \in Batches : Encode(b)
  \/ \E q \in Questions : Rerank(q)
  \/ Ensure \/ Evaluate \/ EvaluateFails \/ PoolRow \/ PoolFails \/ Deliver

Spec == Init /\ [][Next]_vars

-----------------------------------------------------------------------------
TypeOK ==
  /\ stage \in {"idle", "accepted", "ready", "pooling"} /\ job \in Jobs
  /\ \A row \in Range(rows) : Len(row) > 0 /\ (MaxRowTokens > 0 => Len(row) <= MaxRowTokens)
  /\ \A j \in Jobs : sessions[j].ctx \in 0..MaxContext
  /\ Len(result) <= Len(rows)

(* unirt.h:1012-1013, 1051-1052: row r of the answer is made of the        *)
(* visible tokens of row r, at their places, each seeing that row alone,   *)
(* whatever was asked before.                                              *)
RowsAnswerThemselves ==
  \A r \in DOMAIN result :
    result[r] =
      LET cells == {Entry(rows[r][p], p - 1, r) : p \in DOMAIN rows[r]}
      IN  {[of |-> c, saw |-> cells] : c \in cells}

(* embedding.h:38-43: a context that is kept is large enough for the next  *)
(* batch, in rows and in tokens.                                           *)
EveryRowFits == stage = "ready" => Fits(sessions[job])

(* A caller gets all of the rows it asked for, or none.                    *)
AllRowsOrNone ==
  stage = "idle" => result = <<>> \/ (code = "ok" /\ Len(result) = Len(rows))
=============================================================================

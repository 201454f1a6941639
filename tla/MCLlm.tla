------------------------------- MODULE MCLlm --------------------------------
(* The llama.cpp handles under TLC: the weights and contexts they share,   *)
(* speculative decoding, and the text of a reply on its way to the caller. *)
(* Each keeps state of its own and is explored by itself: a behaviour      *)
(* follows one part from its first state, while the others stay in theirs. *)
EXTENDS Llm, TLC

CONSTANTS h1, h2, h3, model, small, gpu, cpu, t1, t2, a, b

MCHandle == {h1, h2, h3}
MCPath == {model, small}
MCDraft == {small}
MCDevice == {gpu, cpu}
MCSeats == {2}
Handles == Permutations(MCHandle)

MCToken == {t1, t2, Eog}
Question == <<t1>>

(* A window that drafts reach past the end of before the budget is spent,  *)
(* and one that is full before the reply is.                               *)
Ample == [tokens |-> 5, window |-> 7]
Scarce == [tokens |-> 4, window |-> 4]

(* Letters, and the bytes of a two- and of a three-byte character, which   *)
(* tokens may spell one by one or joined to a letter.                      *)
Letters == {a, b}
Spelled == {<<a>>, <<b>>, <<Lead2>>, <<Cont>>, <<Lead3, Cont>>, <<a, Lead2>>, <<b, a, b>>}

(* Two stops, one of which may start inside the other, and one that ends   *)
(* with a character of two bytes.                                          *)
Stopping == {<<a, b, b>>, <<b, b, a>>, <<b, Lead2, Cont>>}

-----------------------------------------------------------------------------
speculationVars == <<phase, says, history, row, chain, drafted, draftCells, proposals,
                     matched, step, ready, output, ended>>
streamVars == <<streaming, text, emitted, pending, quit, shown, generated, reason, full,
                raw, refused>>

LlmInit ==
  /\ part \in {"sharing", "exact", "refusing", "stream"}
  /\ Init /\ Exact!Init /\ Stream!Init

LlmNext ==
  \/ part = "sharing" /\ Next /\ UNCHANGED <<part, speculationVars, streamVars>>
  \/ part = "exact" /\ Exact!Next /\ UNCHANGED <<part, vars, streamVars>>
  \/ part = "refusing" /\ Refusing!Next /\ UNCHANGED <<part, vars, streamVars>>
  \/ part = "stream" /\ Stream!Next /\ UNCHANGED <<part, vars, speculationVars>>

LlmSpec == LlmInit /\ [][LlmNext]_<<part, vars, speculationVars, streamVars>>

=============================================================================

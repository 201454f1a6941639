--------------------------- MODULE PlainDecoding ---------------------------
(* What decoding one token at a time produces: the model, asked what       *)
(* follows all that is there, says the next token, until it ends the text, *)
(* the budget is spent, the window is full or the caller has enough.       *)
EXTENDS Integers, Sequences

CONSTANTS Token, Eog, Prompt, MaxTokens, Window

VARIABLES says,    \* what the model was asked so far, and its answers
          output,  \* the tokens of the reply
          ended    \* "no", or why the reply ended

vars == <<says, output, ended>>

Context == Prompt \o output

(* The model is a function: it may be asked more, never answer otherwise.  *)
Extends == \A q \in DOMAIN says : q \in DOMAIN says' /\ says'[q] = says[q]

Init == says = <<>> /\ output = <<>> /\ ended = "no"

Asked == Extends /\ UNCHANGED <<output, ended>>

Say == /\ ended = "no" /\ Len(output) < MaxTokens /\ Len(Context) < Window
       /\ Extends /\ <<Context, Context>> \in DOMAIN says'
       /\ LET t == says'[<<Context, Context>>] IN
          IF t = Eog
            THEN ended' = "eos" /\ UNCHANGED output
            ELSE /\ output' = Append(output, t)
                 /\ ended' \in {"no", "stopped"} \cup
                      (IF Len(output') = MaxTokens THEN {"length"} ELSE {})

WindowFull == /\ ended = "no" /\ Len(Context) >= Window
              /\ ended' = "context_length"
              /\ UNCHANGED <<says, output>>

Fail == ended = "no" /\ ended' = "failed" /\ UNCHANGED <<says, output>>

Next == Asked \/ Say \/ WindowFull \/ Fail

Spec == Init /\ [][Next]_vars
=============================================================================

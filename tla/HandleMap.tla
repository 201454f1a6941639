----------------------------- MODULE HandleMap -----------------------------
(* What the handle table of sdk/src/handle_registry.cpp promises, without  *)
(* slots or generations: opening gives out a word that was never given out *)
(* before, and a word resolves from its opening to its closing and never   *)
(* again, under the kind it was opened for.                                *)
CONSTANTS Backend, Kind

VARIABLES open,   \* the live handles: word, backend and kind
          stale   \* the words of handles that were closed

(* A backend is registered: register_llm_handle and its siblings.          *)
Open(b, k) ==
  \E h \in open' :
    /\ h.backend = b /\ h.kind = k
    /\ h.word \notin stale \cup {other.word : other \in open}
    /\ open' = open \cup {h}
    /\ UNCHANGED stale

(* A handle is removed: remove_llm_handle and its siblings.                *)
Close(h) ==
  /\ open' = open \ {h}
  /\ stale' = stale \cup {h.word}

Init == open = {} /\ stale = {}

Next == \/ \E b \in Backend, k \in Kind : Open(b, k)
        \/ \E h \in open : Close(h)

Spec == Init /\ [][Next]_<<open, stale>>

=============================================================================

------------------------------ MODULE MCBridge ------------------------------
(* The bridge under TLC.  Each of its parts keeps state of its own and is  *)
(* explored by itself: a behaviour follows one part from its first state,  *)
(* while the others stay in theirs.                                        *)
EXTENDS Bridge, TLC

CONSTANTS b1, b2, llm, vlm, t1, t2, llama, mine

VARIABLE part

(* A directory with a subdirectory for each plugin: its file is known by   *)
(* the subdirectory's name, which is the id.                               *)
Nested == {[name |-> llama, id |-> llama, good |-> TRUE],
           [name |-> mine, id |-> mine, good |-> FALSE]}

Nothing == [count |-> 0, given |-> FALSE, blank |-> FALSE]
One == [count |-> 1, given |-> TRUE, blank |-> FALSE]
Wrong == {[One EXCEPT !.given = FALSE], [One EXCEPT !.blank = TRUE], [One EXCEPT !.count = -1]}

Request == [least |-> 0, tokens |-> 1, text |-> TRUE, list |-> One, stops |-> Nothing,
            images |-> Nothing, audio |-> Nothing, batch |-> 1, width |-> 1]

(* A plain request, and every way one of its parts can be wrong.           *)
Requests ==
  UNION {{Request, [Request EXCEPT !.least = -1], [Request EXCEPT !.tokens = -1],
          [Request EXCEPT !.text = FALSE, !.list = Nothing]},
         {[Request EXCEPT !.list = a] : a \in Wrong},
         {[Request EXCEPT !.stops = a] : a \in Wrong \cup {One}},
         {[Request EXCEPT !.images = a] : a \in Wrong \cup {One}},
         {[Request EXCEPT !.audio = a] : a \in {One, [One EXCEPT !.blank = TRUE]}},
         {[Request EXCEPT !.batch = b, !.width = 3] : b \in {-1, 2}}}

(* Plugins that are up to date, older, too old, or without optional parts. *)
Tables ==
  [llm |-> {<<8, {}>>, <<9, {"save", "load"}>>},
   vlm |-> {<<7, {}>>, <<6, {"capabilities"}>>},
   embedding |-> {<<4, {}>>, <<5, {"rerank"}>>},
   package |-> {<<6, {}>>, <<5, {}>>}]

Threads == {t1, t2}
Plugins == {llama, mine}
Mine == {mine}
Kept == {"init first", "lifecycle calls alone", "one thread per handle", "no id twice"}

Everyone == Permutations({t1, t2})

-----------------------------------------------------------------------------
lifecycleVars == <<running, directory, loads, broken, objects, doing, registered>>
boundaryVars == <<package, tables, handles, call, code, detail, output, touched>>

BridgeInit ==
  /\ part \in {"table", "lifecycle", "boundary"}
  /\ Init /\ Lifecycle!Init /\ Boundary!Init

BridgeNext ==
  \/ part = "table" /\ Next /\ UNCHANGED <<part, lifecycleVars, boundaryVars>>
  \/ part = "lifecycle" /\ Lifecycle!Next /\ UNCHANGED <<part, vars, boundaryVars>>
  \/ part = "boundary" /\ Boundary!Next /\ UNCHANGED <<part, vars, lifecycleVars>>

BridgeSpec == BridgeInit /\ [][BridgeNext]_<<part, vars, lifecycleVars, boundaryVars>>

=============================================================================

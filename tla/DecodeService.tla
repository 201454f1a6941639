--------------------------- MODULE DecodeService ---------------------------
(***************************************************************************)
(* What BatchEngine::decode promises the handles that call it, rounds and  *)
(* threads left out: a submission is answered once, with its cells laid,   *)
(* with an error, or with "no KV slot" -- and the last only when the       *)
(* submission by itself does not fit into the cells that are free.  This   *)
(* is the atomic decode SharedCache is built on.                           *)
(***************************************************************************)
EXTENDS Integers, FiniteSets, FiniteSetsExt

CONSTANTS
  Members,
  Pool     \* the cells there are

VARIABLES
  used,    \* cells each sequence holds
  asked,   \* tokens of its submission that is not answered yet, or 0
  answer   \* the last answer it was given

vars == <<used, asked, answer>>

Total(S, cells) == MapThenSumSet(LAMBDA s : cells[s], S)

Free == Pool - Total(Members, used)

Pending == {s \in Members : asked[s] > 0}

Init ==
  /\ used = [s \in Members |-> 0]
  /\ asked = [s \in Members |-> 0]
  /\ answer = [s \in Members |-> "ok"]

(* Any number of tokens.                                                   *)
Ask(s) ==
  /\ s \notin Pending
  /\ asked'[s] > 0
  /\ asked' = [asked EXCEPT ![s] = asked'[s]]
  /\ answer' = [answer EXCEPT ![s] = "none"]
  /\ UNCHANGED used

Answer(S, what) ==
  /\ asked' = [s \in Members |-> IF s \in S THEN 0 ELSE asked[s]]
  /\ answer' = [s \in Members |-> IF s \in S THEN what ELSE answer[s]]

(* Several submissions may be laid at once, if they fit together.          *)
Lay(S) ==
  /\ Total(S, asked) <= Free
  /\ Answer(S, "ok")
  /\ used' = [s \in Members |-> used[s] + IF s \in S THEN asked[s] ELSE 0]

(* Only the one that ran out is told so.                                   *)
Refuse(s) == asked[s] > Free /\ Answer({s}, "no_kv_slot") /\ UNCHANGED used

Fail(S) == Answer(S, "failed") /\ UNCHANGED used

(* Eviction, a trim, a reset: a sequence lets go of cells of its own.      *)
Release(s, n) ==
  /\ s \notin Pending
  /\ n < used[s]
  /\ used' = [used EXCEPT ![s] = n]
  /\ answer' = [answer EXCEPT ![s] = "ok"]
  /\ UNCHANGED asked

(* The generation is over, whatever it was told last.                      *)
Retire(s) ==
  /\ s \notin Pending
  /\ answer' = [answer EXCEPT ![s] = "ok"]
  /\ UNCHANGED <<used, asked>>

Next ==
  \/ \E s \in Members :
       \/ Ask(s) \/ Refuse(s) \/ Retire(s)
       \/ \E n \in 0..Pool : Release(s, n)
  \/ \E S \in (SUBSET Pending) \ {{}} : Lay(S) \/ Fail(S)

Spec == Init /\ [][Next]_vars
=============================================================================

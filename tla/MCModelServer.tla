--------------------------- MODULE MCModelServer ----------------------------
(* The server under TLC.  A behaviour is of one of two kinds: three        *)
(* requests crowd on one model's slots, or two at a time are for different *)
(* models, of which one may be resident.                                   *)
EXTENDS ModelServer, TLC

CONSTANTS r1, r2, r3, chat, code

VARIABLE load

MCRequest == {r1, r2, r3}
MCModel == {chat, code}
Requests == Permutations(MCRequest)

(* Room for one conversation, and for two.                                 *)
MCSlots == [m \in MCModel |-> IF m = chat THEN 1 ELSE 2]

(* A conversation, and its next turn.                                      *)
MCKeys == {<<1>>, <<1, 2>>}

Crowd == \A r \in Request : wants[r] # None => wants[r].model = chat
Models ==
  /\ Cardinality({r \in Request : phase[r] # Idle}) <= 2
  /\ \A r \in Request : wants[r] # None /\ wants[r].model = chat => wants[r].key = <<1>>

ServerInit == load \in {"crowd", "models"} /\ Init
ServerNext ==
  /\ Next /\ UNCHANGED load
  /\ load = "crowd" => Crowd'
  /\ load = "models" => Models'

ServerSpec == ServerInit /\ [][ServerNext]_<<load, vars>>

=============================================================================

--------------------------- MODULE OnnxEmbedding ----------------------------
(* The ONNX Runtime embedding handle (onnxruntime/src/embedding.cpp): it   *)
(* takes a graph if it can feed every input and pool an output, feeds one  *)
(* rectangle of tokens, and pools the output row by row.                   *)
EXTENDS Integers, Sequences, FiniteSets, SequencesExt, FiniteSetsExt, Functions

CONSTANTS Graphs,      \* the graphs of the models: [inputs, outputs]
          Requested,   \* the output names that create() may be given, with ""
          Poolings,    \* of the handles: default, cls, mean, last
          Batches,     \* what encode() is asked for: [ids, mask, types]
          Int32Max     \* the largest int32

Kinds == {"input_ids", "attention_mask", "token_type_ids", "position_ids"}
None == <<>>           \* an optional array that was not passed

(* An array of the shape of another.                                       *)
Shaped(a, ids) ==
  a \in Seq(Seq(Int)) /\ Len(a) = Len(ids) /\ \A r \in DOMAIN a : Len(a[r]) = Len(ids[1])

OnnxAssumption ==
  /\ Int32Max \in Nat /\ "" \in Requested
  /\ Poolings \subseteq {"default", "cls", "mean", "last"}
  /\ \A g \in Graphs :
       /\ g.inputs \in Seq([kind : STRING, int32 : BOOLEAN, shape : Seq(Int)])
       /\ \A o \in Range(g.outputs) : o.rank \in 0..4
  /\ \A b \in Batches :
       /\ b.ids # <<>> /\ b.ids[1] # <<>> /\ Shaped(b.ids, b.ids)
       /\ b.mask = None \/ Shaped(b.mask, b.ids)
       /\ b.types = None \/ Shaped(b.types, b.ids)

VARIABLES loaded,    \* whether there is a session
          inputs,    \* inputs_: what the graph is fed
          output,    \* output_name_, and the rank of that output
          pooling,   \* pooling_
          asked,     \* the batch of the call in progress, or of the last one
          fed,       \* per input of the graph: the tensor it was fed
          rows,      \* the caller's result: per row, the columns it is made of
          stage,     \* idle, checked, ran
          code

vars == <<loaded, inputs, output, pooling, asked, fed, rows, stage, code>>

NoOutput == [name |-> "", rank |-> 0]
NoBatch == [ids |-> <<>>, mask |-> None, types |-> None]

Init ==
  /\ loaded = FALSE /\ inputs = <<>> /\ output = NoOutput /\ pooling = "default"
  /\ asked = NoBatch /\ fed = <<>> /\ rows = <<>>
  /\ stage = "idle" /\ code = "ok"

-----------------------------------------------------------------------------
(* create().                                                               *)

(* output_score()                                                          *)
Score(o) ==
  CASE o.name = "sentence_embedding" -> 120
    [] o.name = "pooler_output" -> 110
    [] o.name = "last_hidden_state" -> 90
    [] OTHER -> IF o.rank = 2 THEN 60 ELSE 50

Poolable(o) == o.float /\ o.rank \in {2, 3}

(* select_output() without a name: the first of the highest score.         *)
Best(outputs) ==
  {o \in Range(outputs) : Poolable(o) /\
     \E i \in DOMAIN outputs :
       /\ outputs[i] = o
       /\ \A j \in DOMAIN outputs :
            Poolable(outputs[j]) =>
              Score(outputs[j]) < Score(o) \/ (Score(outputs[j]) = Score(o) /\ i <= j)}

(* select_output(): by name, or the best.                                  *)
Selected(outputs, name) ==
  IF name = "" THEN Best(outputs) ELSE {o \in Range(outputs) : o.name = name /\ Poolable(o)}

InputTaken(spec) == spec.kind \in Kinds /\ Len(spec.shape) = 2

InputsTaken(specs) ==
  /\ \A spec \in Range(specs) : InputTaken(spec)
  /\ \E spec \in Range(specs) : spec.kind = "input_ids"

Why(g, name) ==
  IF ~InputsTaken(g.inputs) THEN "model_invalid"
  ELSE IF name # "" /\ \A o \in Range(g.outputs) : o.name # name THEN "invalid_input"
  ELSE "model_invalid"

(* create(): a handle is opened once; one whose create() failed is gone.   *)
Create(g, name, p) ==
  /\ ~loaded /\ stage = "idle"
  /\ LET chosen == Selected(g.outputs, name) IN
     IF InputsTaken(g.inputs) /\ chosen # {}
       THEN /\ loaded' = TRUE /\ inputs' = g.inputs /\ code' = "ok"
            /\ output' \in {[name |-> o.name, rank |-> o.rank] : o \in chosen}
       ELSE code' = Why(g, name) /\ UNCHANGED <<loaded, inputs, output>>
  /\ pooling' = p
  /\ UNCHANGED <<asked, fed, rows, stage>>

Destroy ==
  /\ loaded /\ stage = "idle"
  /\ loaded' = FALSE /\ inputs' = <<>> /\ output' = NoOutput /\ pooling' = "default"
  /\ asked' = NoBatch /\ fed' = <<>> /\ rows' = <<>> /\ code' = "ok"
  /\ UNCHANGED stage

-----------------------------------------------------------------------------
(* encode().                                                               *)

Batch == Len(asked.ids)
Width(b) == Len(b.ids[1])
Entries(a) == UNION {Range(row) : row \in Range(a)}

ShapeAccepts(spec, b) ==
  /\ spec.shape[1] <= 0 \/ spec.shape[1] = Len(b.ids)
  /\ spec.shape[2] <= 0 \/ spec.shape[2] = Width(b)

Acceptable(b) ==
  /\ \A id \in Entries(b.ids) : id >= 0
  /\ b.mask # None => Entries(b.mask) \subseteq {0, 1}
  /\ b.types # None => \A id \in Entries(b.types) : id >= 0
  /\ \A spec \in Range(inputs) : ShapeAccepts(spec, b)

Return(why) == stage' = "idle" /\ code' = why

(* The checks, and the output blanked.                                     *)
Encode(b) ==
  /\ loaded /\ stage = "idle"
  /\ asked' = b /\ rows' = <<>> /\ fed' = <<>>
  /\ IF Acceptable(b) THEN stage' = "checked" /\ code' = "none" ELSE Return("invalid_input")
  /\ UNCHANGED <<loaded, inputs, output, pooling>>

Matrix(F(_, _)) == [r \in DOMAIN asked.ids |-> [c \in DOMAIN asked.ids[1] |-> F(r, c)]]

(* The tensor an input of the graph is fed.                                *)
Raw(kind) ==
  CASE kind = "input_ids" -> asked.ids
    [] kind = "attention_mask" -> IF asked.mask # None THEN asked.mask ELSE Matrix(LAMBDA r, c : 1)
    [] kind = "token_type_ids" -> IF asked.types # None THEN asked.types ELSE Matrix(LAMBDA r, c : 0)
    [] kind = "position_ids" -> Matrix(LAMBDA r, c : c - 1)

Narrows(spec) == spec.int32 => \A v \in Entries(Raw(spec.kind)) : v <= Int32Max

(* static_cast<int32_t>                                                    *)
Narrowed(v) == ((v + Int32Max + 1) % (2 * (Int32Max + 1))) - Int32Max - 1

Fed(spec) ==
  IF spec.int32 THEN Matrix(LAMBDA r, c : Narrowed(Raw(spec.kind)[r][c])) ELSE Raw(spec.kind)

(* The tensors are made and the graph runs.                                *)
Run ==
  /\ stage = "checked"
  /\ IF \A spec \in Range(inputs) : Narrows(spec)
       THEN /\ fed' = [i \in DOMAIN inputs |-> Fed(inputs[i])]
            /\ stage' = "ran" /\ UNCHANGED code
       ELSE Return("invalid_input") /\ UNCHANGED fed
  /\ UNCHANGED <<loaded, inputs, output, pooling, asked, rows>>

RunFails ==
  /\ stage = "checked"
  /\ \E why \in {"inference_failed", "memory"} : Return(why)
  /\ UNCHANGED <<loaded, inputs, output, pooling, asked, fed, rows>>

VisibleAt(r) == {c \in 1..Width(asked) : asked.mask = None \/ asked.mask[r][c] # 0}

(* A fault: the last column is taken for the last token.                   *)
PooledAtTheEnd(r) ==
  CASE output.rank = 2 -> 1..Width(asked)
    [] output.rank = 3 /\ pooling = "cls" -> {1}
    [] output.rank = 3 /\ pooling = "last" -> {Width(asked)}
    [] OTHER -> VisibleAt(r)

(* The columns of the output that row r is made of; the whole row, where   *)
(* the graph pools itself.                                                 *)
Pooled(r) ==
  CASE output.rank = 2 -> 1..Width(asked)
    [] output.rank = 3 /\ pooling = "cls" -> {1}
    [] output.rank = 3 /\ pooling = "last" -> {Max(VisibleAt(r))}
    [] OTHER -> VisibleAt(r)

(* The last token and the mean need a token; the first does not look.      *)
Pools(r) == output.rank = 3 /\ pooling # "cls" => VisibleAt(r) # {}

(* pool_output(): the output is set last.                                  *)
Pool ==
  /\ stage = "ran"
  /\ IF \A r \in 1..Batch : Pools(r)
       THEN rows' = [r \in 1..Batch |-> Pooled(r)] /\ Return("ok")
       ELSE Return("invalid_input") /\ UNCHANGED rows
  /\ UNCHANGED <<loaded, inputs, output, pooling, asked, fed>>

(* Another shape or element type than declared, a norm that is not a       *)
(* number above zero, or no memory.                                        *)
PoolFails ==
  /\ stage = "ran"
  /\ \E why \in {"output_invalid", "memory"} : Return(why)
  /\ UNCHANGED <<loaded, inputs, output, pooling, asked, fed, rows>>

Next ==
  \/ \E g \in Graphs, name \in Requested, p \in Poolings : Create(g, name, p)
  \/ Destroy
  \/ \E b \in Batches : Encode(b)
  \/ Run \/ RunFails \/ Pool \/ PoolFails

Spec == Init /\ [][Next]_vars

-----------------------------------------------------------------------------
TypeOK ==
  /\ loaded \in BOOLEAN /\ stage \in {"idle", "checked", "ran"}
  /\ loaded <=> output.rank \in {2, 3}
  /\ Len(rows) \in {0, Batch} /\ Len(fed) \in {0, Len(inputs)}

(* embedding.cpp:308-358: at whatever width the graph declares, it reads    *)
(* the very numbers the caller passed; an absent mask is all ones, absent  *)
(* types are all zeros (unirt.h:1000-1003), and positions count from zero. *)
FedWhatWasAsked ==
  stage = "ran" =>
    \A i \in DOMAIN inputs, r \in 1..Batch : \A c \in 1..Width(asked) :
      fed[i][r][c] =
        CASE inputs[i].kind = "input_ids" -> asked.ids[r][c]
          [] inputs[i].kind = "attention_mask" -> IF c \in VisibleAt(r) THEN 1 ELSE 0
          [] inputs[i].kind = "token_type_ids" -> IF asked.types = None THEN 0 ELSE asked.types[r][c]
          [] inputs[i].kind = "position_ids" -> c - 1

(* unirt.h:982-986: a token-level output is pooled as the handle declares: *)
(* the mean is over exactly the visible tokens, of which there is one; the *)
(* last token is the last visible one; and CLS is the token at index zero, *)
(* whether the mask shows it or not.                                       *)
PooledAsDeclared ==
  code = "ok" /\ rows # <<>> /\ output.rank = 3 =>
    \A r \in DOMAIN rows :
      CASE pooling = "cls" -> rows[r] = {1}
        [] pooling = "last" ->
             \E d \in VisibleAt(r) : rows[r] = {d} /\ \A c \in VisibleAt(r) : c <= d
        [] OTHER -> rows[r] = VisibleAt(r) /\ rows[r] # {}

(* A caller gets all of the rows it asked for, or none.                    *)
AllRowsOrNone == stage = "idle" /\ loaded /\ asked # NoBatch => (rows # <<>> <=> code = "ok")
=============================================================================

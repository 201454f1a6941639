--------------------------- MODULE PluginBoundary ---------------------------
(* One call through the C boundary: the entrypoint checks its input and    *)
(* blanks its output, the exception wall clears the thread's failure text, *)
(* the handle is resolved, and an adapter (plugin_adapters.h) calls the    *)
(* table of functions that a plugin exports (plugin_export.h).  Tables may *)
(* be shorter than the runtime's own, and may leave functions out.         *)
EXTENDS Integers, Sequences, FiniteSets, SequencesExt

CONSTANTS Producers,    \* per kind: what a plugin may hand out, <<size, functions left out>>
          Inputs,       \* what callers pass
          SizeMax,      \* the largest size_t
          MaxTables     \* bound: tables ever made

Kinds == {"llm", "vlm", "embedding"}

(* An array as a caller passes it: the count it states, whether there is a *)
(* pointer, whether an element is NULL or empty.                           *)
Array == [count : {-1, 0, 1}, given : BOOLEAN, blank : BOOLEAN]

(* What the inputs of all entrypoints amount to: the least of the plain    *)
(* numbers, the budget, the text (prompt, query, path, plugin id), the     *)
(* list (tokens, messages, documents) and the shape of a batch.            *)
Input == [least : {-1, 0}, tokens : {-1, 0, 1}, text : BOOLEAN, list : Array,
          stops : Array, images : Array, audio : Array, batch : Int, width : Int]

BoundaryAssumption ==
  /\ Inputs \subseteq Input /\ \E i \in Inputs : i.text /\ i.least >= 0
  /\ SizeMax \in Nat /\ MaxTables \in Nat
  /\ DOMAIN Producers = Kinds \cup {"package"}
  /\ \A k \in Kinds \cup {"package"} : Producers[k] \subseteq Nat \X SUBSET STRING

VARIABLES package,   \* the table of the open package, 0 before it is opened
          tables,    \* every table ever made
          handles,   \* the tables behind registered handles
          call,      \* the call in progress, or the last one
          code,      \* what it returned
          detail,    \* unirt_last_error_message(): none, this call's, an earlier call's
          output,    \* the caller's output: blank, this call's, an earlier call's
          touched    \* the fields the last step read, and of which table

vars == <<package, tables, handles, call, code, detail, output, touched>>

-----------------------------------------------------------------------------
(* The tables (plugin_abi.h), and how much of each is required.            *)

Fields ==
  [llm |-> <<"create", "reset", "save", "load", "template", "generate", "info", "stats", "destroy">>,
   vlm |-> <<"create", "reset", "template", "generate", "capabilities", "destroy", "stats">>,
   embedding |-> <<"create", "encode", "stats", "destroy", "rerank">>,
   package |-> <<"version", "devices", "llm", "vlm", "embedding", "destroy", "modalities">>]

Place(kind, field) == CHOOSE i \in DOMAIN Fields[kind] : Fields[kind][i] = field

Appended == [llm |-> {}, vlm |-> {"stats"}, embedding |-> {"rerank"}, package |-> {"modalities"}]

(* kRequiredTableBytes, counted in fields.                                 *)
Required(kind) == Len(Fields[kind]) - Cardinality(Appended[kind])

TableComplete(kind, size) == size >= Required(kind)

(* UNIRT_TABLE_HAS_FIELD, asked for the appended fields only.              *)
Covers(t, field) ==
  field \in Appended[t.kind] => t.size >= Place(t.kind, field)

(* What the adapters answer for a function that a plugin left out.         *)
LlmAbsent == [f \in Range(Fields.llm) |->
                IF f \in {"create", "reset", "generate"} THEN "not_supported" ELSE "param_not_supported"]
VlmAbsent == [f \in Range(Fields.vlm) |->
                IF f \in {"create", "reset", "generate"} THEN "not_supported"
                ELSE IF f = "capabilities" THEN "ok" ELSE "param_not_supported"]
EmbeddingAbsent == [f \in Range(Fields.embedding) |->
                      IF f \in {"create", "encode"} THEN "not_supported" ELSE "param_not_supported"]
Absent == [llm |-> LlmAbsent, vlm |-> VlmAbsent, embedding |-> EmbeddingAbsent]

Present(t, field) == Covers(t, field) /\ field \notin t.out

-----------------------------------------------------------------------------
(* What the entrypoints let through.                                       *)

Stated(a) == a.count >= 0 /\ (a.count > 0 => a.given)
NoneBlank(a) == a.count > 0 => ~a.blank

(* A fault: the entries of the stop list are not looked at.                *)
ConfigSaneBriefly(i) ==
  /\ i.tokens >= 0 /\ i.least >= 0
  /\ Stated(i.stops) /\ Stated(i.images) /\ Stated(i.audio)

(* generation_config_sane()                                                *)
ConfigSane(i) ==
  /\ i.tokens >= 0 /\ i.least >= 0
  /\ Stated(i.stops) /\ Stated(i.images) /\ Stated(i.audio)
  /\ NoneBlank(i.stops)

LlmGenerationSane(i) ==
  /\ Stated(i.list)
  /\ i.list.count = 0 => i.text
  /\ ConfigSane(i)
  /\ i.images.count = 0 /\ i.audio.count = 0

VlmGenerationSane(i) ==
  /\ i.text
  /\ ConfigSane(i)
  /\ NoneBlank(i.images) /\ NoneBlank(i.audio)

EncodeSane(i) ==
  /\ i.list.given /\ i.batch > 0 /\ i.width > 0
  /\ i.batch <= SizeMax \div i.width

RerankSane(i) == i.text /\ i.list.count > 0 /\ i.list.given /\ ~i.list.blank

(* unirt_llm_apply_chat_template(), and template_input_sane() of vlm.cpp,  *)
(* where a message is blank that counts contents it has no pointer to.     *)
TemplateSane(kind, i) == Stated(i.list) /\ (kind = "vlm" => NoneBlank(i.list))

(* create(): a plugin id, and the numbers of model_config_sane().          *)
CreateSane(i) == i.text /\ i.least >= 0

Sane(kind, op, i) ==
  CASE op = "create" -> CreateSane(i)
    [] op = "generate" /\ kind = "llm" -> LlmGenerationSane(i)
    [] op = "generate" /\ kind = "vlm" -> VlmGenerationSane(i)
    [] op = "encode" -> EncodeSane(i)
    [] op = "rerank" -> RerankSane(i)
    [] op = "template" -> TemplateSane(kind, i)
    [] op \in {"save", "load"} -> i.text
    [] OTHER -> TRUE

-----------------------------------------------------------------------------
Plain == CHOOSE i \in Inputs : CreateSane(i)
Idle == call.stage = "idle"
At(stage, op) == call.stage = stage /\ (call.op = op \/ op = "any")
Go(stage, t) == call' = [call EXCEPT !.stage = stage, !.table = t]
Answer(c) == code' = c /\ call' = [call EXCEPT !.stage = "idle", !.table = 0, !.input = Plain]
Told(c) == Answer(c) /\ detail' = "this"

Made(kind, p) == [kind |-> kind, size |-> p[1], out |-> p[2], destroys |-> 0, lost |-> FALSE]
Destroyed(t) == [tables EXCEPT ![t].destroys = @ + 1]

Init ==
  /\ package = 0 /\ tables = <<>> /\ handles = {}
  /\ call = [kind |-> "llm", op |-> "none", stage |-> "idle", table |-> 0,
             input |-> Plain]
  /\ code = "ok" /\ detail = "none" /\ output = "blank" /\ touched = {}

HasOutput(op) == op \notin {"reset", "destroy", "none"}
Aged(what) == IF what = "this" THEN "earlier" ELSE what

(* An entrypoint: blank the output, check the input, and only then enter   *)
(* the wall, which clears the failure text.                                *)
Arrive(kind, op, i) ==
  /\ Idle /\ (op = "create" => Len(tables) + 2 <= MaxTables)
  /\ call' = [kind |-> kind, op |-> op, table |-> 0, input |-> i,
              stage |-> IF Sane(kind, op, i) THEN "shielded" ELSE "idle"]
  /\ code' = IF Sane(kind, op, i) THEN "none" ELSE "invalid_input"
  /\ detail' = IF Sane(kind, op, i) THEN "none" ELSE Aged(detail)
  /\ output' = IF HasOutput(op) THEN "blank" ELSE Aged(output)
  /\ touched' = {}
  /\ UNCHANGED <<package, tables, handles>>

(* with_backend(), close_backend(): NULL, stale, or of another kind.       *)
HandleRefused ==
  /\ At("shielded", "any") /\ call.op # "create"
  /\ \E c \in {"not_initialized", "invalid_input"} : Told(c)
  /\ touched' = {}
  /\ UNCHANGED <<package, tables, handles, output>>

(* with_backend(): the adapter calls the function, or answers itself.      *)
Dispatch(t) ==
  /\ At("shielded", "any") /\ call.op \notin {"create", "destroy"}
  /\ t \in handles /\ tables[t].kind = call.kind
  /\ touched' = IF Covers(tables[t], call.op) THEN {<<t, call.op>>} ELSE {}
  /\ IF Present(tables[t], call.op)
       THEN Go("inside", t) /\ UNCHANGED code
       ELSE Answer(Absent[call.kind][call.op])
  /\ UNCHANGED <<package, tables, handles, detail, output>>

(* The function returns; what it throws, the thunk turns into a code.      *)
Returns ==
  /\ At("inside", "any")
  /\ \E c \in {"ok", "failed", "unknown", "memory"} : Answer(c)
  /\ output' \in IF HasOutput(call.op) THEN {output, "this"} ELSE {output}
  /\ touched' = {}
  /\ UNCHANGED <<package, tables, handles, detail>>

(* A fault: the handle is still found afterwards.                          *)
CloseRemembering(t) ==
  /\ At("shielded", "destroy")
  /\ t \in handles /\ tables[t].kind = call.kind
  /\ tables' = Destroyed(t) /\ touched' = {<<t, "destroy">>}
  /\ Answer("ok")
  /\ UNCHANGED <<package, handles, detail, output>>

(* close_backend(): the handle is forgotten, the adapter deleted.          *)
Close(t) ==
  /\ At("shielded", "destroy")
  /\ t \in handles /\ tables[t].kind = call.kind
  /\ handles' = handles \ {t}
  /\ tables' = Destroyed(t) /\ touched' = {<<t, "destroy">>}
  /\ Answer("ok")
  /\ UNCHANGED <<package, detail, output>>

-----------------------------------------------------------------------------
(* open_backend().                                                         *)

Fresh == Len(tables) + 1

(* PluginSlot::instance(): no table, one that is too short, one that the   *)
(* adapter cannot be allocated for, or one to keep.                        *)
OpenPackage(p) ==
  /\ At("shielded", "create") /\ package = 0
  /\ LET made == Append(tables, Made("package", p)) IN
     \/ /\ Told("model_load") /\ touched' = {} /\ UNCHANGED <<package, tables>>
     \/ /\ ~TableComplete("package", p[1])
        /\ tables' = [made EXCEPT ![Fresh].destroys = 1] /\ touched' = {<<Fresh, "destroy">>}
        /\ Told("model_load") /\ UNCHANGED package
     \/ /\ TableComplete("package", p[1])
        /\ tables' = [made EXCEPT ![Fresh].lost = TRUE] /\ touched' = {}
        /\ Told("memory") /\ UNCHANGED package
     \/ /\ TableComplete("package", p[1])
        /\ tables' = made /\ package' = Fresh /\ touched' = {}
        /\ UNCHANGED <<call, code, detail>>
  /\ UNCHANGED <<handles, output>>

(* The package has no such factory, or the plugin could not make a table:  *)
(* its constructor threw, or the holder could not be allocated.            *)
MintFails ==
  /\ At("shielded", "create") /\ package # 0
  /\ touched' = {<<package, call.kind>>}
  /\ Told("not_supported")
  /\ UNCHANGED <<package, tables, handles, output>>

(* create_llm(), create_vlm(), create_embedding() and wrap().              *)
Mint(p) ==
  /\ At("shielded", "create") /\ package # 0
  /\ call.kind \notin tables[package].out
  /\ tables' = Append(tables, Made(call.kind, p))
  /\ touched' = {<<package, call.kind>>}
  /\ Go("minted", Fresh)
  /\ UNCHANGED <<package, handles, code, detail, output>>

(* TablePackage::adopt(): a short table is given back.                     *)
AdoptRefuses ==
  /\ At("minted", "any") /\ ~TableComplete(call.kind, tables[call.table].size)
  /\ tables' = Destroyed(call.table) /\ touched' = {<<call.table, "destroy">>}
  /\ Told("not_supported")
  /\ UNCHANGED <<package, handles, output>>

(* `new Adapter' throws: nothing owns the table.                           *)
AdoptLoses ==
  /\ At("minted", "any") /\ TableComplete(call.kind, tables[call.table].size)
  /\ tables' = [tables EXCEPT ![call.table].lost = TRUE] /\ touched' = {}
  /\ Told("memory")
  /\ UNCHANGED <<package, handles, output>>

Adopt ==
  /\ At("minted", "any") /\ TableComplete(call.kind, tables[call.table].size)
  /\ Go("adopted", call.table) /\ touched' = {}
  /\ UNCHANGED <<package, tables, handles, code, detail, output>>

Load ==
  /\ At("adopted", "any") /\ Present(tables[call.table], "create")
  /\ touched' = {<<call.table, "create">>}
  /\ Go("loaded", call.table)
  /\ UNCHANGED <<package, tables, handles, code, detail, output>>

(* A fault: the adapter is let go of before the model is loaded.           *)
LoadFailsOutright ==
  /\ At("adopted", "any")
  /\ touched' = {<<call.table, "create">>}
  /\ Answer(IF Present(tables[call.table], "create") THEN "model_load" ELSE "not_supported")
  /\ UNCHANGED <<package, tables, handles, detail, output>>

(* create() reports a failure, and the adapter goes with its table.        *)
LoadFails ==
  /\ At("adopted", "any")
  /\ touched' = {<<call.table, "create">>, <<call.table, "destroy">>}
  /\ tables' = Destroyed(call.table)
  /\ Answer(IF Present(tables[call.table], "create") THEN "model_load" ELSE "not_supported")
  /\ UNCHANGED <<package, handles, detail, output>>

Track ==
  /\ At("loaded", "any")
  /\ handles' = handles \cup {call.table}
  /\ output' = "this" /\ touched' = {}
  /\ Answer("ok")
  /\ UNCHANGED <<package, tables, detail>>

(* The handle cannot be registered: still the adapter's.                   *)
TrackFails ==
  /\ At("loaded", "any")
  /\ tables' = Destroyed(call.table) /\ touched' = {<<call.table, "destroy">>}
  /\ Told("memory")
  /\ UNCHANGED <<package, handles, output>>

(* unirt_deinit() with no handles left.                                    *)
Unload ==
  /\ Idle /\ package # 0 /\ handles = {}
  /\ tables' = Destroyed(package) /\ touched' = {<<package, "destroy">>}
  /\ package' = 0
  /\ UNCHANGED <<handles, call, code, detail, output>>

-----------------------------------------------------------------------------
Entrypoints(kind) == Range(Fields[kind])

Next ==
  \/ \E kind \in Kinds, i \in Inputs : \E op \in Entrypoints(kind) : Arrive(kind, op, i)
  \/ HandleRefused \/ Returns
  \/ \E t \in handles : Dispatch(t) \/ Close(t)
  \/ \E p \in Producers.package : OpenPackage(p)
  \/ \E p \in Producers[call.kind] : Mint(p)
  \/ MintFails \/ AdoptRefuses \/ AdoptLoses \/ Adopt
  \/ Load \/ LoadFails \/ Track \/ TrackFails \/ Unload

Spec == Init /\ [][Next]_vars

-----------------------------------------------------------------------------
TypeOK ==
  /\ package \in 0..Len(tables)
  /\ \A t \in DOMAIN tables : tables[t].destroys \in {0, 1}
  /\ handles \subseteq DOMAIN tables
  /\ call.stage \in {"idle", "shielded", "inside", "minted", "adopted", "loaded"}
  /\ detail \in {"none", "this", "earlier"} /\ output \in {"blank", "this", "earlier"}

(* plugin_adapters.h:11-12: between calls every table a plugin made is     *)
(* behind a handle, is the open package, or has been destroyed, once; but  *)
(* for those whose adapter could not be allocated.                         *)
EveryTableReleased ==
  Idle => \A t \in DOMAIN tables :
    tables[t].destroys =
      IF t \in handles \/ t = package \/ tables[t].lost THEN 0 ELSE 1

(* plugin_abi.h:26-27: destroy() is the last call on a table.              *)
DestroyIsLast ==
  [][\A read \in touched' :
       read[1] \in DOMAIN tables => tables[read[1]].destroys = 0]_vars

(* plugin_abi.h:21-25: of a table that is kept, a field beyond the         *)
(* producer's size is never touched: older plugins go on working.          *)
AppendedFieldsGuarded ==
  \A read \in touched :
    LET t == tables[read[1]]
    IN  TableComplete(t.kind, t.size) => Place(t.kind, read[2]) <= t.size

(* plugin_abi.h:21-23: no field beyond the producer's size is touched.     *)
(* For the record: it does not hold (README.md, Disagreements).            *)
ReadsInside ==
  \A read \in touched :
    LET t == tables[read[1]] IN Place(t.kind, read[2]) <= t.size

(* What a caller frees after a call is that call's: a refusal never leaves *)
(* an earlier output behind (llm.cpp:53, 75, 88).                          *)
OutputIsOfThisCall == HasOutput(call.op) => output # "earlier"

(* What the backends read of a request (a prompt where no tokens are, each *)
(* stop, each path, a batch of tokens, messages and their contents) is     *)
(* there.                                                                  *)
BackendsReadWhatIsThere ==
  call.stage = "inside" =>
    LET i == call.input IN
    CASE call.op = "generate" /\ call.kind = "llm" ->
           /\ (i.list.count > 0 /\ i.list.given) \/ i.text
           /\ \A a \in {i.stops} : a.count > 0 => a.given /\ ~a.blank
      [] call.op = "generate" /\ call.kind = "vlm" ->
           /\ i.text
           /\ \A a \in {i.stops, i.images, i.audio} : a.count > 0 => a.given /\ ~a.blank
      [] call.op = "encode" -> i.batch * i.width \in 1..SizeMax
      [] call.op = "template" ->
           i.list.count > 0 => i.list.given /\ (call.kind = "vlm" => ~i.list.blank)
      [] OTHER -> TRUE

(* utils.h:21-23 and unirt.h:130-136: the text is of this call, or empty.  *)
(* For the record: it does not hold (README.md, Disagreements).            *)
DetailIsOfThisCall == Idle /\ code # "ok" => detail # "earlier"

(* unirt.h:484: a budget of zero or less is the plugin's default.          *)
(* For the record: it does not hold (README.md, Disagreements).            *)
AnyBudgetIsTaken ==
  LET i == call.input IN
  Idle /\ call.op = "generate" /\ code = "invalid_input" /\ detail # "this" =>
    ~Sane(call.kind, call.op, [i EXCEPT !.tokens = 1])
=============================================================================

--------------------------- MODULE JsonConstraint ---------------------------
(* Constrained decoding in the MLX plugin (json_constraint.cpp, and the    *)
(* masks of constrain_logits() in plugin.cpp): over the grammar that a     *)
(* schema was compiled into (JsonGrammar), an automaton over bytes keeps   *)
(* every way the text so far can be read, and a token may be sampled if    *)
(* all its bytes are accepted.  Masks are cached by the state of the       *)
(* automaton.                                                              *)
EXTENDS JsonSpelling, SequencesExt, FiniteSetsExt

CONSTANTS Schemas,        \* the schemas of the requests
          Compiled,       \* [nodes, id] of each: JsonGrammar
          Language,       \* what the nodes of each spell: JsonSpelling
          Means,          \* the values of each schema: JsonLanguage
          Vocabulary,     \* the tokens with text, as sequences of bytes
          MaxMasks        \* kMaxCachedMasks

Eos == <<"eos">>

(* What the automaton relies on in the nodes that it is given.             *)
NodeOf(g) ==
  LET ids == DOMAIN g IN
  [kind : {"literal", "string", "number", "array", "free", "object", "anyOf"},
   keys : Seq(Seq(Byte)), values : Seq(ids), required : Seq(BOOLEAN),
   item : ids \cup {0}, min : Nat, max : Int, integer : BOOLEAN,
   text : Seq(Byte), options : Seq(ids)]

WellFormed(g) ==
  /\ g \in Seq(NodeOf(g))
  /\ \A id \in DOMAIN g :
       LET node == g[id] IN
       /\ node.kind = "literal" => node.text # <<>> /\ node.text[1] # "]"
       /\ node.kind = "array" => node.item # 0
       /\ node.kind = "free" => Len(node.values) = 2 /\ g[node.values[1]].kind = "string"
       /\ node.kind = "object" =>
            /\ Len(node.keys) > 0
            /\ Len(node.values) = Len(node.keys) /\ Len(node.required) = Len(node.keys)
            /\ \A i \in DOMAIN node.keys : Len(node.keys[i]) >= 2

(* A text without the commas that stand before a closing bracket.          *)
Tidy(t) ==
  FlattenSeq([i \in DOMAIN t |->
                IF t[i] = "," /\ i < Len(t) /\ t[i + 1] \in {"]", "}"} THEN <<>> ELSE <<t[i]>>])

(* The compiler is right about a schema: its nodes spell the values of the *)
(* schema, with or without commas before what closes.                      *)
CompiledRight(s) ==
  LET g == Compiled[s].nodes
      spelled == Language[s][Compiled[s].id]
  IN  /\ Compiled[s].id \in DOMAIN g /\ WellFormed(g)
      /\ IsLanguage(g, Language[s])
      /\ Means[s] \subseteq spelled
      /\ \A t \in spelled : Tidy(t) \in Means[s]

JsonAssumption ==
  /\ Eos \notin Vocabulary /\ \A piece \in Vocabulary : piece \in Seq(Byte) \ {<<>>}
  /\ MaxText \in Nat \ {0, 1} /\ MaxMasks \in Nat \ {0}
  /\ Schemas \subseteq DOMAIN Means
  /\ \A s \in Schemas : Compiled[s].id \in Int /\ (Compiled[s].id > 0 => CompiledRight(s))

(* Nothing in the nodes bars the way: a choice has something to choose, an *)
(* array may have the items that it needs.                                 *)
Passable(g) ==
  \A id \in DOMAIN g :
    /\ Alternatives(g, id) # {}
    /\ g[id].kind = "array" => (g[id].max < 0 \/ g[id].min <= g[id].max)

(* Whatever the schema asks for, the tokenizer can spell byte by byte.     *)
SpellableAssumption ==
  /\ \A byte \in Byte : <<byte>> \in Vocabulary
  /\ \A s \in Schemas : Compiled[s].id > 0 => Passable(Compiled[s].nodes)

VARIABLES phase,    \* idle, scoring, sampling
          schema,   \* of the request
          nodes,    \* nodes_, what it compiles to
          states,   \* states_: stacks of frames
          text,     \* history: the bytes accepted
          masks,    \* mask_cache_
          mask,     \* the tokens that may be sampled now
          code      \* how the last request ended

vars == <<phase, schema, nodes, states, text, masks, mask, code>>

-----------------------------------------------------------------------------
(* The automaton (step_frame()): what one stack of frames becomes by one   *)
(* byte.  The last frame is f, the ones below it wait for its value.       *)

Frame(node, at, i, k) == [node |-> node, phase |-> at, i |-> i, k |-> k]
With(below, f, at, i, k) == {Append(below, Frame(f.node, at, i, k))}

StepLiteral(below, f, node, byte) ==
  LET next == f.k + 1 IN
  IF next > Len(node.text) \/ node.text[next] # byte THEN {}
  ELSE IF next = Len(node.text) THEN {below}
  ELSE With(below, f, 0, f.i, next)

(* Escapes of one character; the four digits of \u are left out.           *)
StepString(below, f, byte) ==
  CASE f.phase = 1 /\ byte = "'" -> {below}
    [] f.phase = 1 /\ byte = "\\" -> With(below, f, 2, 0, 0)
    [] f.phase = 1 /\ byte \in Printable \ {"'", "\\"} -> With(below, f, 1, 0, 0)
    [] f.phase = 2 /\ byte \in Escapes -> With(below, f, 1, 0, 0)
    [] OTHER -> {}

NumberCanStop(at) == at \in {2, 3, 5, 8}

(* What a number may go on with: the phase a byte leads to, if any.        *)
NumberPhase(at, byte, integer) ==
  CASE at \in {0, 1} /\ byte = "0" -> {3}
    [] at \in {0, 1} /\ byte \in Digit \ {"0"} -> {2}
    [] at = 0 /\ byte = "-" -> {1}
    [] at = 2 /\ byte \in Digit -> {2}
    [] at \in {2, 3} /\ byte = "." /\ ~integer -> {4}
    [] at \in {2, 3} /\ byte = "e" /\ ~integer -> {6}
    [] at \in {4, 5} /\ byte \in Digit -> {5}
    [] at = 5 /\ byte = "e" -> {6}
    [] at = 6 /\ byte = "-" -> {7}
    [] at \in {6, 7, 8} /\ byte \in Digit -> {8}
    [] OTHER -> {}

StepNumber(below, f, node, byte) ==
  UNION {With(below, f, at, 0, 0) : at \in NumberPhase(f.phase, byte, node.integer)}

(* The first byte of a value: a choice takes none itself, so that the byte *)
(* is offered to all that it comes down to.                                *)
OpenNode(below, f, node, byte) ==
  CASE node.kind = "literal" -> StepLiteral(below, f, node, byte)
    [] node.kind = "number" -> StepNumber(below, f, node, byte)
    [] node.kind = "string" /\ byte = "'" -> With(below, f, 1, 0, 0)
    [] node.kind = "array" /\ byte = "[" -> With(below, f, 1, 0, 0)
    [] node.kind = "free" /\ byte = "{" -> With(below, f, 1, 0, 0)
    [] node.kind = "object" /\ byte = "{" -> With(below, f, 1, 1, 0)
    [] OTHER -> {}

Open(g, below, id, byte) ==
  UNION {OpenNode(below, Frame(c, 0, 0, 0), g[c], byte) : c \in Alternatives(g, id)}

(* A value is pushed, and takes the byte.                                  *)
Descend(g, below, f, at, i, child, byte) ==
  Open(g, Append(below, Frame(f.node, at, i, 0)), child, byte)

(* An array that waits for an item, or for its end.                        *)
StepArray(g, below, f, node, byte) ==
  IF byte = "]" /\ f.i >= node.min THEN {below}
  ELSE IF Full(node, f.i) THEN {}
  ELSE Descend(g, below, f, 2, f.i + 1, node.item, byte)

(* A fault: an object has at least one member.                             *)
StepFreeFilled(g, below, f, node, byte) ==
  IF f.phase = 1 THEN Descend(g, below, f, 2, f.i + 1, node.values[1], byte)
  ELSE Descend(g, below, f, 4, f.i, node.values[2], byte)

(* An object of any properties that waits for a key, its end or a value.   *)
StepFree(g, below, f, node, byte) ==
  IF f.phase = 1
    THEN IF byte = "}" /\ f.i = 0 THEN {below}
         ELSE Descend(g, below, f, 2, f.i + 1, node.values[1], byte)
    ELSE Descend(g, below, f, 4, f.i, node.values[2], byte)

(* A fault: the property at index itself is not looked at.                 *)
LaterOptional(node, index) == \A i \in (index + 1)..Len(node.keys) : ~node.required[i]

(* None of the properties from index on is required.                       *)
AllOptional(node, index) == \A i \in index..Len(node.keys) : ~node.required[i]

(* The properties that may come next: up to the first required one.        *)
Candidates(node, index) ==
  {i \in index..Len(node.keys) : \A j \in index..(i - 1) : ~node.required[j]}

CloseObject(below, node, index, byte) ==
  IF byte = "}" /\ AllOptional(node, index) THEN {below} ELSE {}

(* Frames count properties from 1 here, from 0 in the code.                *)
StepObject(below, f, node, byte) ==
  IF f.phase = 1
    THEN CloseObject(below, node, f.i, byte)
           \cup UNION {With(below, f, 2, i, 1) :
                         i \in {j \in Candidates(node, f.i) : node.keys[j][1] = byte}}
    ELSE LET key == node.keys[f.i] IN
         IF key[f.k + 1] # byte THEN {}
         ELSE IF f.k + 1 < Len(key) THEN With(below, f, 2, f.i, f.k + 1)
         ELSE {Append(Append(below, Frame(f.node, 3, f.i, 0)), Frame(node.values[f.i], 0, 0, 0))}

(* The byte behind a value, which ends or carries on what waits for it.    *)
Follow(g, stack, byte) ==
  IF stack = <<>> THEN {}
  ELSE
    LET f == Last(stack)
        node == g[f.node]
        below == Front(stack)
    IN  CASE node.kind = "array" ->
               (IF byte = "," /\ ~Full(node, f.i) THEN With(below, f, 1, f.i, 0) ELSE {})
                 \cup (IF byte = "]" /\ f.i >= node.min THEN {below} ELSE {})
          [] node.kind = "free" /\ f.phase = 2 ->
               IF byte = ":" THEN With(below, f, 3, f.i, 0) ELSE {}
          [] node.kind = "free" /\ f.phase # 2 ->
               (IF byte = "," THEN With(below, f, 1, f.i, 0) ELSE {})
                 \cup (IF byte = "}" THEN {below} ELSE {})
          [] node.kind = "object" ->
               (IF byte = "," /\ f.i < Len(node.keys) THEN With(below, f, 1, f.i + 1, 0) ELSE {})
                 \cup CloseObject(below, node, f.i + 1, byte)
          [] OTHER -> {}

(* A number has no last byte of its own: the byte may be for what waits.   *)
Step(g, stack, byte) ==
  IF stack = <<>> THEN {}
  ELSE
    LET f == Last(stack)
        node == g[f.node]
        below == Front(stack)
    IN  CASE node.kind = "literal" -> StepLiteral(below, f, node, byte)
          [] node.kind # "literal" /\ f.phase = 0 -> Open(g, below, f.node, byte)
          [] node.kind = "string" /\ f.phase # 0 -> StepString(below, f, byte)
          [] node.kind = "number" /\ f.phase # 0 ->
               StepNumber(below, f, node, byte)
                 \cup IF NumberCanStop(f.phase) THEN Follow(g, below, byte) ELSE {}
          [] node.kind = "array" /\ f.phase = 1 -> StepArray(g, below, f, node, byte)
          [] node.kind = "free" /\ f.phase \in {1, 3} -> StepFree(g, below, f, node, byte)
          [] node.kind = "object" /\ f.phase \in {1, 2} -> StepObject(below, f, node, byte)
          [] OTHER -> Follow(g, stack, byte)

Advance(g, stacks, byte) == UNION {Step(g, stack, byte) : stack \in stacks}

(* allows(), accept(): the bytes of a piece one after another.             *)
After(g, stacks, piece) ==
  LET after[n \in 0..Len(piece)] ==
        IF n = 0 THEN stacks ELSE Advance(g, after[n - 1], piece[n])
  IN  after[Len(piece)]

Allows(g, stacks, piece) == After(g, stacks, piece) # {}

(* Only numbers that may stop are left open.                               *)
Complete(g, stack) ==
  \A i \in DOMAIN stack :
    g[stack[i].node].kind = "number" /\ NumberCanStop(stack[i].phase)

CanStop(g, stacks) == \E stack \in stacks : Complete(g, stack)

(* What may be sampled: a bucket is skipped by its first byte, and the end *)
(* of turn is allowed where the value may stop.                            *)
MaskOf(g, stacks) ==
  {piece \in Vocabulary : Allows(g, stacks, <<piece[1]>>) /\ Allows(g, stacks, piece)}
    \cup IF CanStop(g, stacks) THEN {Eos} ELSE {}

-----------------------------------------------------------------------------
(* What the request's schema means.                                        *)
Meant == IF schema \in DOMAIN Means THEN Means[schema] ELSE {}

-----------------------------------------------------------------------------
Init ==
  /\ phase = "idle" /\ schema = [type |-> "any"]
  /\ nodes = <<>> /\ states = {} /\ text = <<>>
  /\ masks = << >> /\ mask = {} /\ code = "none"

(* A fault: the masks of the last schema are kept.                         *)
BeginKeeping(s) ==
  /\ phase = "idle" /\ Compiled[s].id > 0
  /\ schema' = s /\ nodes' = Compiled[s].nodes
  /\ states' = {<<Frame(Compiled[s].id, 0, 0, 0)>>}
  /\ text' = <<>> /\ mask' = {} /\ phase' = "scoring" /\ code' = "none"
  /\ UNCHANGED masks

(* JsonConstraint::compile(), and the masks of the last schema forgotten.  *)
Begin(s) ==
  /\ phase = "idle" /\ Compiled[s].id > 0
  /\ schema' = s /\ nodes' = Compiled[s].nodes
  /\ states' = {<<Frame(Compiled[s].id, 0, 0, 0)>>}
  /\ masks' = << >>
  /\ text' = <<>> /\ mask' = {} /\ phase' = "scoring" /\ code' = "none"

BeginRefused(s) ==
  /\ phase = "idle" /\ Compiled[s].id <= 0
  /\ code' = "invalid_input"
  /\ UNCHANGED <<phase, schema, nodes, states, text, masks, mask>>

Return(why) == phase' = "idle" /\ code' = why /\ mask' = {}

(* constrain_logits(): the mask of this state, cached or computed.  Masks  *)
(* are kept by the states themselves; the code keeps them by their         *)
(* state_signature(), which spells out every field of every frame.         *)
Score ==
  /\ phase = "scoring"
  /\ LET found == IF states \in DOMAIN masks THEN masks[states] ELSE MaskOf(nodes, states) IN
     /\ masks' = IF states \in DOMAIN masks THEN masks
                 ELSE [s \in {states} \cup (IF Cardinality(DOMAIN masks) >= MaxMasks THEN {}
                                            ELSE DOMAIN masks) |->
                         IF s = states THEN found ELSE masks[s]]
     /\ IF found = {} THEN Return("length")
        ELSE mask' = found /\ phase' = "sampling" /\ UNCHANGED code
  /\ UNCHANGED <<schema, nodes, states, text>>

(* A token is sampled, and its bytes are accepted.                         *)
Sample(piece) ==
  /\ phase = "sampling" /\ piece \in mask /\ piece # Eos
  /\ states' = After(nodes, states, piece)
  /\ text' = text \o piece
  /\ IF states' = {} THEN Return("violates")
     ELSE IF Len(text') < MaxText THEN phase' = "scoring" /\ mask' = {} /\ UNCHANGED code
     ELSE Return("length")
  /\ UNCHANGED <<schema, nodes, masks>>

End ==
  /\ phase = "sampling" /\ Eos \in mask
  /\ Return("eos")
  /\ UNCHANGED <<schema, nodes, states, text, masks>>

Next ==
  \/ \E s \in Schemas : Begin(s) \/ BeginRefused(s)
  \/ Score \/ End
  \/ \E piece \in Vocabulary : Sample(piece)

Spec == Init /\ [][Next]_vars

-----------------------------------------------------------------------------
TypeOK ==
  /\ phase \in {"idle", "scoring", "sampling"}
  /\ schema \in Schemas \cup {[type |-> "any"]}
  /\ states \subseteq Seq([node : DOMAIN nodes, phase : 0..8, i : Nat, k : Nat])
  /\ text \in Seq(Byte)
  /\ Cardinality(DOMAIN masks) <= MaxMasks
  /\ mask \subseteq Vocabulary \cup {Eos}
  /\ code \in {"none", "invalid_input", "eos", "length"}

(* json_constraint.h:58-62: two positions of one signature admit the same  *)
(* tokens, so that a mask computed once, perhaps for another text, is what *)
(* would be computed now.                                                  *)
CachedMaskIsExact == phase = "sampling" => mask = MaskOf(nodes, states)

(* json_constraint.h:33-36: the language may be widened, but is never      *)
(* narrowed: every value of the schema can be spelled out from here.       *)
NothingValidRefused ==
  phase # "idle" =>
    \A v \in Meant :
      IsPrefix(text, v) =>
        \E stack \in After(nodes, states, SubSeq(v, Len(text) + 1, Len(v))) : Complete(nodes, stack)

(* Where the reply may stop the text is a value of the schema, up to       *)
(* commas before closing brackets.                                         *)
StopsOnlyAtValues ==
  phase = "sampling" /\ Eos \in mask => Tidy(text) \in Meant

(* plugin.cpp:484-486: a schema that has values never leaves the sampler   *)
(* with nothing that may follow.                                           *)
NeverStuck == code = "length" => Len(text) >= MaxText

(* json_constraint.h:35-36: "it just cannot be malformed JSON or the wrong *)
(* shape".                                                                 *)
(* For the record: it does not hold (README.md, Disagreements).            *)
NeverMalformed ==
  phase = "sampling" /\ Eos \in mask => text \in Meant
=============================================================================

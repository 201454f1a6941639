------------------------------ MODULE Backends ------------------------------
(* The backends that are not llama.cpp's language model, put together: the *)
(* MLX session and its constrained decoding, for three families of schemas,*)
(* the vision-language handle and the two embedding handles, for any       *)
(* prompts, grammars, files, batches and graphs.  A handle belongs to one  *)
(* of them and they share no state: a behaviour follows one part from its  *)
(* first state, while the others stay in theirs.                           *)
EXTENDS MlxSession

VARIABLES part            \* which of the parts below a behaviour is about

CONSTANTS ShapeFamily,    \* alternatives, arrays, nesting: the schemas, the
                          \* tokens, the bytes of texts and how many
          RecordFamily,   \* objects with properties, likewise
          AnyFamily,      \* strings and values of no stated shape, likewise
          ShapeCompiled, ShapeSpelled, ShapeMeans,
          RecordCompiled, RecordSpelled, RecordMeans,
          AnyCompiled, AnySpelled, AnyMeans,
                          \* what the schemas compile to, spell and mean
          MaxMasks        \* kMaxCachedMasks

VARIABLES constraining, schema, nodes, states, text, masks, mask, verdict

Shapes == INSTANCE JsonConstraint WITH
  Schemas <- ShapeFamily.schemas, Compiled <- ShapeCompiled, Language <- ShapeSpelled,
  Means <- ShapeMeans, Vocabulary <- ShapeFamily.tokens,
  Printable <- ShapeFamily.printable, Control <- ShapeFamily.control, MaxText <- ShapeFamily.maxText,
  phase <- constraining, code <- verdict

Records == INSTANCE JsonConstraint WITH
  Schemas <- RecordFamily.schemas, Compiled <- RecordCompiled, Language <- RecordSpelled,
  Means <- RecordMeans, Vocabulary <- RecordFamily.tokens,
  Printable <- RecordFamily.printable, Control <- RecordFamily.control, MaxText <- RecordFamily.maxText,
  phase <- constraining, code <- verdict

Anything == INSTANCE JsonConstraint WITH
  Schemas <- AnyFamily.schemas, Compiled <- AnyCompiled, Language <- AnySpelled,
  Means <- AnyMeans, Vocabulary <- AnyFamily.tokens,
  Printable <- AnyFamily.printable, Control <- AnyFamily.control, MaxText <- AnyFamily.maxText,
  phase <- constraining, code <- verdict

CONSTANTS Image, Audio, Unreadable, Broken, Video, Swapped, Cells, Positions,
          TextTokens, Window, ReplyTokens, MaxMedia

VARIABLES seeing, placed, sees, memory, visionPast, shown, meant, images, audios,
          bound, generated, visionCode

Vision == INSTANCE VlmHandle WITH
  MaxTokens <- ReplyTokens, phase <- seeing, nPast <- visionPast, prompt <- shown,
  code <- visionCode

CONSTANTS Sentences, Questions, VocabSize, MaxRowTokens, Classifier, RerankTemplate,
          MaxContext

VARIABLES rowStage, job, given, sessions, kvCells, batch, result, rowCode

Rows == INSTANCE LlamaEmbedding WITH
  Batches <- Sentences, stage <- rowStage, rows <- given, memory <- kvCells, code <- rowCode

CONSTANTS Graphs, Requested, Poolings, Rectangles, Int32Max

VARIABLES loaded, inputs, tensor, pooling, asked, fed, pooled, graphStage, graphCode

Graph == INSTANCE OnnxEmbedding WITH
  Batches <- Rectangles, output <- tensor, rows <- pooled, stage <- graphStage,
  code <- graphCode

ASSUME BackendsAssumption ==
  Vision!VlmAssumption /\ Rows!EmbeddingAssumption /\ Graph!OnnxAssumption

ASSUME FamiliesAssumption ==
  /\ Shapes!JsonAssumption /\ Shapes!SpellableAssumption
  /\ Records!JsonAssumption /\ Records!SpellableAssumption
  /\ Anything!JsonAssumption /\ Anything!SpellableAssumption

-----------------------------------------------------------------------------
jsonVars == <<constraining, schema, nodes, states, text, masks, mask, verdict>>
visionVars == <<seeing, placed, sees, memory, visionPast, shown, meant, images, audios,
                bound, generated, visionCode>>
rowVars == <<rowStage, job, given, sessions, kvCells, batch, result, rowCode>>
graphVars == <<loaded, inputs, tensor, pooling, asked, fed, pooled, graphStage, graphCode>>
backendVars == <<part, vars, jsonVars, visionVars, rowVars, graphVars>>

BackendsInit ==
  /\ part \in {"session", "shapes", "records", "anything", "vision", "rows", "graph"}
  /\ Init /\ Shapes!Init /\ Vision!Init /\ Rows!Init /\ Graph!Init

Json ==
  \/ part = "shapes" /\ Shapes!Next
  \/ part = "records" /\ Records!Next
  \/ part = "anything" /\ Anything!Next

BackendsNext ==
  /\ UNCHANGED part
  /\ \/ part = "session" /\ Next /\ UNCHANGED <<jsonVars, visionVars, rowVars, graphVars>>
     \/ Json /\ UNCHANGED <<vars, visionVars, rowVars, graphVars>>
     \/ part = "vision" /\ Vision!Next /\ UNCHANGED <<vars, jsonVars, rowVars, graphVars>>
     \/ part = "rows" /\ Rows!Next /\ UNCHANGED <<vars, jsonVars, visionVars, graphVars>>
     \/ part = "graph" /\ Graph!Next /\ UNCHANGED <<vars, jsonVars, visionVars, rowVars>>

BackendsSpec == BackendsInit /\ [][BackendsNext]_backendVars

-----------------------------------------------------------------------------
(* json_constraint.h:58-62: two positions of one signature admit the same  *)
(* tokens: a mask computed once, perhaps for another text, is what would   *)
(* be computed now, and no more masks are kept than kMaxCachedMasks.       *)
CachedMaskIsExact ==
  /\ part = "shapes" => Shapes!TypeOK /\ Shapes!CachedMaskIsExact
  /\ part = "records" => Records!TypeOK /\ Records!CachedMaskIsExact
  /\ part = "anything" => Anything!TypeOK /\ Anything!CachedMaskIsExact

(* json_constraint.h:33-36: the language may be widened, but is never      *)
(* narrowed: every value of the schema can be spelled out from here.       *)
NothingValidRefused ==
  /\ part = "shapes" => Shapes!NothingValidRefused
  /\ part = "records" => Records!NothingValidRefused
  /\ part = "anything" => Anything!NothingValidRefused

(* Where the reply may stop, the text is a value of the schema up to       *)
(* commas before closing brackets, and the sampler is never left with      *)
(* nothing that may follow: plugin.cpp:484-486.                            *)
StopsOnlyAtValues ==
  /\ part = "shapes" => Shapes!StopsOnlyAtValues /\ Shapes!NeverStuck
  /\ part = "records" => Records!StopsOnlyAtValues /\ Records!NeverStuck
  /\ part = "anything" => Anything!StopsOnlyAtValues /\ Anything!NeverStuck

(* json_constraint.h:35-36: "it just cannot be malformed JSON or the wrong *)
(* shape".  An array may end behind a comma: this does not hold.           *)
NeverMalformed == part = "shapes" => Shapes!NeverMalformed

(* Each marker gets the file it stands for, in whatever order the lists    *)
(* of images and sounds came: vlm.cpp:560-640.                             *)
MediaMeetMarkers == Vision!MediaMeetMarkers

(* The vision handle's position is its memory's, and a decoding handle has *)
(* this request's tokens and media in it and nothing else; the projector   *)
(* is offloaded only where the text model is: vlm.cpp:229, 643-787.        *)
VisionMemoryIsRequest ==
  /\ Vision!TypeOK
  /\ Vision!PositionMirrorsMemory
  /\ Vision!OnlyThisRequest
  /\ Vision!ProjectorBesideText

(* Each vector was pooled over its own row and all of it, and no row       *)
(* exceeds its share of the context: embedding.cpp:96-175, 235-330.        *)
RowsAnswerThemselves ==
  /\ Rows!TypeOK
  /\ Rows!RowsAnswerThemselves
  /\ Rows!EveryRowFits

(* A call hands out every row or none, whichever step of it failed:        *)
(* llama embedding.cpp:295-330, onnxruntime embedding.cpp:430-521.         *)
AllRowsOrNone == Rows!AllRowsOrNone /\ Graph!AllRowsOrNone

(* The graph is fed what was asked, in tensors of its own types, or        *)
(* nothing.  Masked tokens have no part in a mean and are never the last   *)
(* token; CLS is the token at index zero, masked or not, as unirt.h:983    *)
(* has it: onnxruntime embedding.cpp:308-479.                              *)
GraphAnswersRequest ==
  /\ Graph!TypeOK
  /\ Graph!FedWhatWasAsked
  /\ Graph!PooledAsDeclared

=============================================================================

CONSTANTS
  a = a
  b = b
  photo = photo
  scan = scan
  speech = speech
  noise = noise
  Token <- MCToken
  Layers = 2
  Maximum = 6
  Contexts = {0, 7}
  FirstRoom = 2
  Prompts <- MCPrompts
  Heads = {0, 3}
  DefaultHead = 1
  MaxTokens = 3
  ShiftThrows = FALSE
  ShapeFamily <- MCShapeFamily
  RecordFamily <- MCRecordFamily
  AnyFamily <- MCAnyFamily
  ShapeCompiled <- MCShapeCompiled
  ShapeSpelled <- MCShapeSpelled
  ShapeMeans <- MCShapeMeans
  RecordCompiled <- MCRecordCompiled
  RecordSpelled <- MCRecordSpelled
  RecordMeans <- MCRecordMeans
  AnyCompiled <- MCAnyCompiled
  AnySpelled <- MCAnySpelled
  AnyMeans <- MCAnyMeans
  MaxMasks = 3
  Image <- MCImage
  Audio <- MCAudio
  Unreadable = {}
  Broken <- MCBroken
  Video = {}
  Swapped = {}
  Cells <- MCCells
  Positions <- MCPositions
  TextTokens = 1
  Window = 5
  ReplyTokens = 2
  MaxMedia = 3
  Sentences <- MCSentences
  Questions <- MCQuestions
  VocabSize = 2
  MaxRowTokens = 6
  Classifier = TRUE
  RerankTemplate = FALSE
  MaxContext = 18
  Graphs <- MCGraphs
  Requested = {"", "last_hidden_state", "scores", "logits"}
  Poolings = {"default", "cls", "mean", "last"}
  Rectangles <- MCRectangles
  Int32Max = 4
SPECIFICATION BackendsSpec
CHECK_DEADLOCK FALSE
INVARIANTS
  CacheIsConversation
  CachedMaskIsExact
  NothingValidRefused
  StopsOnlyAtValues
  MediaMeetMarkers
  VisionMemoryIsRequest
  RowsAnswerThemselves
  AllRowsOrNone
  GraphAnswersRequest

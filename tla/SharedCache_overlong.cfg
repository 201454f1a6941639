CONSTANTS
  a = a
  b = b
  Capacity = 2
  Window = 4
  Token = {a, b}
  Sampled = {a}
  Prompts <- LongPrompts
  Sessions <- OneSession
  Slides = {TRUE, FALSE}
  Pinned = 1
  ChunkLimit = 2
  Shiftable = TRUE
  Trimmable = TRUE
  LoadFailures = {}
SPECIFICATION Spec
INVARIANTS
  TypeOK
  HistoryMirrorsKV
PROPERTY
  ImplementsPrivateCache

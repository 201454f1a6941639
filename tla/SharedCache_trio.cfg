CONSTANTS
  a = a
  b = b
  Capacity = 3
  Window = 3
  Token = {a}
  Sampled = {}
  Prompts <- TrioPrompts
  Sessions <- ShortSession
  Slides = {FALSE}
  Pinned = 1
  ChunkLimit = 3
  Shiftable = FALSE
  Trimmable = TRUE
  LoadFailures = {}
SPECIFICATION Spec
INVARIANT
  SharedRegionMarked

CONSTANTS
  a = a
  b = b
  Capacity = 2
  Window = 5
  Token = {a}
  Sampled = {a}
  Prompts <- WindowPrompts
  Sessions <- ShortSession
  Slides = {TRUE, FALSE}
  Pinned = 1
  ChunkLimit = 3
  Shiftable = TRUE
  Trimmable = TRUE
  LoadFailures = {"refused"}
SPECIFICATION Spec
PROPERTY
  Isolation

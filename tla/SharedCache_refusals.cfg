CONSTANTS
  a = a
  b = b
  Capacity = 2
  Window = 3
  Token = {a, b}
  Sampled = {a, b}
  Prompts <- ShortPrompts
  Sessions <- OneSession
  Slides = {FALSE}
  Pinned = 1
  ChunkLimit = 2
  Shiftable = FALSE
  Trimmable = FALSE
  LoadFailures = {"refused"}
SPECIFICATION Spec
INVARIANT
  ConditionedOnPrompt

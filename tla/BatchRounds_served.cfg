CONSTANTS
  h1 = h1
  h2 = h2
  h3 = h3
  Members = {h1, h2, h3}
  Window = 2
  BatchSize = 5
  UBatch = 4
  Pinned = 1
  Sliding = {h1}
  MaxPrompt = 3
  Failures = TRUE
SPECIFICATION FairSpec
PROPERTY
  EverySubmissionServed

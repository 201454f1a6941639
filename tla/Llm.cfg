CONSTANTS
  h1 = h1
  h2 = h2
  h3 = h3
  model = model
  small = small
  gpu = gpu
  cpu = cpu
  t1 = t1
  t2 = t2
  a = a
  b = b
  Eog = eog
  NoToken = NoToken
  Token <- MCToken
  Prompt <- Question
  DraftTokens = 3
  Roomy <- Ample
  Tight <- Scarce
  Ascii <- Letters
  Lead2 = lead2
  Lead3 = lead3
  Cont = cont
  Pieces <- Spelled
  Stops <- Stopping
  Budget = 6
  Logprobs = TRUE
  NoPath = NoPath
  Nothing = Nothing
  Gpu = gpu
  Cpu = cpu
  Retried = Retried
  Handle <- MCHandle
  Path <- MCPath
  Draft <- MCDraft
  Device <- MCDevice
  Seats <- MCSeats
  Copies = 3
SPECIFICATION LlmSpec
SYMMETRY Handles
CHECK_DEADLOCK FALSE
INVARIANTS
  HandlesShareRightly
  CachesAgree
  ChainAdvancesOnce
  NothingRejectedStays
  StopsNeverLeak
  StreamAgreesWithText
PROPERTY
  ImplementsPlainDecoding

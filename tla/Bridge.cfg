CONSTANTS
  b1 = b1
  b2 = b2
  llm = llm
  vlm = vlm
  t1 = t1
  t2 = t2
  llama = llama
  mine = mine
  Backend = {b1, b2}
  NoBackend = NoBackend
  Kind = {llm, vlm}
  Generations = 8
  MaxOpens = 5
  Thread <- Threads
  Plugin <- Plugins
  Files <- Nested
  Static <- Mine
  Promises <- Kept
  MaxObjects = 3
  MaxLoads = 2
  Producers <- Tables
  Inputs <- Requests
  SizeMax = 5
  MaxTables = 3
SPECIFICATION BridgeSpec
SYMMETRY Everyone
CHECK_DEADLOCK FALSE
INVARIANTS
  TableIsSound
  LifecycleHolds
  TablesAreOwned
  CallsAreClean
PROPERTIES
  ImplementsHandleMap
  DestroyIsLast

\* Two workers, three vocabularies, two of them at one address one after the
\* other, code and Turkish mode.
SPECIFICATION FairSpec
CONSTANTS
  v1 = v1
  v2 = v2
  v3 = v3
  a1 = a1
  a2 = a2
  Threads = 2
  Vocab = {v1, v2, v3}
  AddressOf <- Kept
  Option <- MCOption
  Batches <- MCBatches
  MaxUnits = 3
  ChunksPerWorker = 1
  MinChunk = 2
  ProgramCapacity = 4
  DocumentCapacity = 2
  NoContext = NoContext
  Idle = Idle
  Error = Error
  MaxCalls = 2
INVARIANTS ChunksSound ProgramsCurrent
PROPERTIES ImplementsStateless CallsReturn
CHECK_DEADLOCK FALSE

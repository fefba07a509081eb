SPECIFICATION Spec
CONSTANTS
  w1 = w1
  w2 = w2
  Workers = {w1, w2}
  WordData <- MCWords
  JavaHash <- MCHash
  Base <- MCBase
  Weight <- MCWeight
  UnknownLemma = 9
  UnknownIg = 9
  Begin = "begin"
  End = "end"
  Unknown = "unknown"
  Requests <- MCRequests
  BankLimit = 2
  EndSignature = 5
  RowCapacity = 6
  InlineTransitions = 2
  OverflowEntries = 2
  MaxDenseStates = 8
  MaxCalls = 2
INVARIANTS ChoicesAreBest DecodersAgree CausalChoices CachesExact
SYMMETRY WorkerSymmetry
CHECK_DEADLOCK FALSE

\* The last shard of a batch is left out of the merge.
CONSTANTS
  NONE = NONE
  MaxFallback = 3
  MaxSentence = 3
  MaxId = 99
  MaxChars = 9
  MaxRoots = 9
  MaxPiece = 4
  IdLimit = 44
  Shards = 3
  Candidates = 5
  Sizes = {33, 38, 45}
  MaxObserved = 2
  Corpus <- MCCorpus
  Merges <- MCMerges
  Requests <- MCRequests
SPECIFICATION Spec
INVARIANT MissingRangesRejected

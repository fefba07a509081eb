SPECIFICATION Spec
CONSTANTS
  NONE = NONE
  MaxId = 2
  MaxChars = 3
  MaxRoots = 1
  Corpora <- MCCorpora
  DamagedCells <- MCDamagedCells
INVARIANTS FilesAreFaithful StreamsExact
CHECK_DEADLOCK FALSE

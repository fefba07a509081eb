SPECIFICATION Spec
CONSTANTS
  NONE = NONE
  MaxId = 10
  MaxChars = 4
  MaxRoots = 1
  MaxFallback = 3
  MaxSentence = 3
  MaxAnalyzed = 6
  MaxVariants = 4
  MaxDocuments = 2
  CacheCapacity = 2
  ProgramCapacity = 2
  Documents <- MCDocuments
  Configs <- MCConfigs
  Lexicon <- MCLexicon
  Best <- MCBest
  Vocabulary <- MCVocabulary
INVARIANTS UnitsWellMade FlatIsRich ProgramsReproduce
CHECK_DEADLOCK FALSE

\* Two threads load models and encode, decode and query at the same time.
SPECIFICATION FairSpec
CONSTANTS
  t1 = t1
  t2 = t2
  own = own
  other = other
  broken = broken
  x = x
  y = y
  z = z
  Thread = {t1, t2}
  Sha = {own, other, broken}
  Usable = {own, other}
  Embedded = {own, broken}
  Text = {x, y, z}
  Unencodable = {y}
  Count <- MCCount
  Empty = Empty
  Failed = Failed
  None = None
  Malformed = Malformed
  NoAsset = NoAsset
  BadIds = BadIds
  Garbled = Garbled
  MaxCalls = 2
INVARIANTS AnswersStayTrue
PROPERTIES ImplementsOneVocabulary CallsReturn
CHECK_DEADLOCK FALSE

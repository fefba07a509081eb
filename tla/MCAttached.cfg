\* A line attached behind a block attaches the next ones in its turn.
SPECIFICATION TextSpec
CONSTANTS
  CodeWords <- MCCodeWords
  Templates <- MCTemplates
  Lines <- MCLines
  Documents <- MCDocuments
INVARIANT AtMostTwoAttached
CHECK_DEADLOCK FALSE

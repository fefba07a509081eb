\* Texts through the four scanners, and documents of lines through the passes
\* of auto_code_spans.  A walk ends with its document.
SPECIFICATION TextSpec
CONSTANTS
  CodeWords <- MCCodeWords
  Templates <- MCTemplates
  Lines <- MCLines
  Documents <- MCDocuments
INVARIANTS UnitsWellFormed UnitsScanAlone HintsAreOfLines SpansExact LinesAreClassified
CHECK_DEADLOCK FALSE

\* Up to two pulls on one disk, killed anywhere, with conversations of two
\* turns whose prompts take up to three batches and outgrow the context.
SPECIFICATION Spec
CONSTANTS
  Launch = p
  Inode = {f, g, h}
  Size = 2
  None = None
  MaxPulls = 2
  Token = {a, b}
  Stops = {b}
  EndOfTurn = b
  Capacity = 5
  BatchSize = 2
  MaxTokens = 2
  HistoryCap = 2
  MaxTurns = 2
  Commands = {"pull", "pull --force", "run", "run -p", "run local"}
  MaxPlugins = 1
  MaxSaid = 1
INVARIANTS CacheTrusted SamplesWholeTranscript NothingLeaks
PROPERTIES NothingForgotten LaunchesEnd
CHECK_DEADLOCK FALSE

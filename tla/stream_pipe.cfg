\* An answer on its way to the client, cut into chunks in every way.
SPECIFICATION Spec
CONSTANTS
  Answers <- MCAnswers
  Requests <- MCRequests
  MaxTries = 2
  ChCap = 1
  OutCap = 1
  Media = TRUE
  Filters <- MCBothFilters
INVARIANTS
  PipeInv
  ChunkingIrrelevant
  TagsInOrder
PROPERTIES
  TextIsRewritten
  PipeDrains
CHECK_DEADLOCK FALSE

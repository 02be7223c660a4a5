\* A reference the flow holds until the end reaches a response without a downloader.
SPECIFICATION Spec
CONSTANTS
  Answers <- LateAnswers
  Requests <- MCRequests
  MaxTries = 1
  ChCap = 1
  OutCap = 1
  Media = TRUE
  Filters <- MCBothFilters
INVARIANT NoReferenceLeaks
CHECK_DEADLOCK FALSE

\* Two image saves and a video save in one cache; one image stream.
SPECIFICATION Spec
CONSTANTS
  i1 = i1
  i2 = i2
  v1 = v1
  FileSaves = {i1, i2}
  StreamSaves = {v1}
  Size <- Sizes
  Limits = {0, 1, 3}
  Sticky = {i2}
  Places = 2
INVARIANTS
  MediaIOInv
  PublishedIsWhole
  NoBlockAfterFinal
PROPERTIES
  PublishMakesRoom
  CacheVideoEnds
  StreamAnswers
CHECK_DEADLOCK FALSE

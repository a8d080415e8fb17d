SPECIFICATION Spec
CONSTANTS
  r1 = r1
  r2 = r2
  r3 = r3
  NoDoc = NoDoc
  Docs <- MCDocs
  Runs <- MCRuns
  Listed <- MCListed
  FlushEvery = 2
  MaxVersion = 2
  Edited = {1, 2}
  MaxFaults = 1
INVARIANTS RecordedUnlessForgotten
PROPERTIES CompletedMeansIndexed ImplementsIndex RunsEnd
CHECK_DEADLOCK FALSE

CONSTANTS
  r1 = r1
  r2 = r2
  p1 = p1
  c1 = c1
  c2 = c2
  w1 = w1
  w2 = w2
  NoWorker = NoWorker
  NoContent = NoContent
  Reports <- OneReport
  Contents <- TwoContents
  Workers <- TwoWorkers
  ProgramOf <- OneProgram
  MaxAttempts = 2
  MaxRuns = 2
  MaxRetries = 1
SPECIFICATION Spec
SYMMETRY Symmetry
CHECK_DEADLOCK FALSE
INVARIANTS CompletedHasResult AloneUnlessRetried
PROPERTIES CompletedIsFinal

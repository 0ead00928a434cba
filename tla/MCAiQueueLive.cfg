CONSTANTS
  r1 = r1
  r2 = r2
  p1 = p1
  c1 = c1
  c2 = c2
  w1 = w1
  w2 = w2
  NoWorker = NoWorker
  NoContent = NoContent
  Reports <- TwoReports
  Contents <- OneContent
  Workers <- TwoWorkers
  ProgramOf <- OneProgram
  MaxAttempts = 2
  MaxRuns = 2
  MaxRetries = 0
SPECIFICATION FairSpec
CHECK_DEADLOCK FALSE
PROPERTIES RunsFinish

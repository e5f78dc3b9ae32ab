SPECIFICATION FairSpec
CONSTANTS
  r1 = r1
  r2 = r2
  w1 = w1
  w2 = w2
  Runs = {r1, r2}
  Workers = {w1, w2}
  DefaultIterations = 1
  Calls = 3
  Trials <- EachPart
INVARIANTS RunsAreSound OneWorkerPerRun RepositoryIsSound
PROPERTIES RunsComeToRest
CHECK_DEADLOCK FALSE

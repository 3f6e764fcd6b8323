SPECIFICATION FairSpec
CONSTANTS
  j1 = j1
  j2 = j2
  t1 = t1
  t2 = t2
  w1 = w1
  w2 = w2
  Jobs = {j1}
  Targets = {t1}
  Workers = {w1, w2}
  Deletable = {}
  NoTarget = NoTarget
  NoJob = NoJob
  NoWorker = NoWorker
  MaxAttempts = 2
  Lease = 2
  RunTimeout = 1
  FinishTimeout = 1
PROPERTIES
  EveryLossRecovers

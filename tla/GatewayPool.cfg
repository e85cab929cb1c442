\* Three jobs and three callers over one slot, one restart: two runs may wait behind
\* one, and a caller may ask again for a job whose first caller has given up.
SPECIFICATION FairSpec
CONSTANTS
  Jobs = {j1, j2, j3}
  Callers = {c1, c2, c3}
  Runs = {i1, i2, i3}
  NoJob = NoJob
  NoRun = NoRun
  MaxConcurrent = 1
  Attempts = 1
  MaxRestarts = 1
INVARIANTS VMsBounded NoLostWakeup OneRunPerJob
PROPERTIES ResultMeansDestroyed WaitingRunStarts

\* One caller retries one job.
SPECIFICATION Spec
CONSTANTS
  Jobs = {j1}
  Callers = {c1}
  Runs = {i1, i2}
  NoJob = NoJob
  NoRun = NoRun
  MaxConcurrent = 1
  Attempts = 3
  MaxRestarts = 0
PROPERTIES RetryRunsAgain

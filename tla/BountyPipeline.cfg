\* One opportunity, both ways of starting a scan, two days of one job and two
\* calls each, three attempts per job, one crash or store fault.
SPECIFICATION FairSpec
CONSTANTS
  Opps = {o1}
  Scanners = {discovery, admin}
  Discovery = discovery
  NoOpp = NoOpp
  NoScanner = NoScanner
  JobLimit = 1
  CallLimit = 2
  MaxAttempts = 3
  LastDay = 2
  MaxFaults = 1
INVARIANTS ReviewedWorkPassed DailyBudget
PROPERTIES OnlyApprovedBecomesReady  StaleWorkExpires

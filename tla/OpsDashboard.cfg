\* Two overviews at once, or an overview beside a heartbeat, or two heartbeats; a day of two
\* ticks, one failure and one crash.
SPECIFICATION FairSpec
CONSTANTS
  Monitors = {m1}
  Critical = {m1}
  MonitorAnswers = {"timeout", "server_error"}
  Systems = {x1}
  BeatStatuses = {"ok", "bad"}
  Viewers = {v1, v2}
  Senders = {s1, s2}
  Scenarios = {{v1, v2}, {v1, s1}, {s1, s2}}
  CacheSeconds = 1
  DayLength = 2
  MaxTime = 3
  MaxFaults = 1
  MaxCrashes = 1
INVARIANTS StateIsExplained CacheWithinLimit BeatsAreExplained BackupIsExplained
PROPERTIES RequestsEnd

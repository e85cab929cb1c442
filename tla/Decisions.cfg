\* Every combination of the listed worlds and claims; scans of three queries of up to two
\* issues; builds of two files and three attempts.
SPECIFICATION Spec
CONSTANTS
  Worlds <- MCWorlds
  Searchable <- MCSearchable
  Rewards = {0, 100, 102, 103, 104, 150, 1000, 100000, 100001}
  Clarities = {45, 55, 60, 65, 75, 100}
  LinkCounts = {0, 2, 3}
  Found = i1
  Found2 = i2
  Found3 = i3
  Queries = 3
  MaxItems = 2
  Paths = {p, q}
  Texts = {old, new}
  Secret = secret
  MaxChangedFiles = 1
  MaxAttempts = 3
INVARIANTS  ApprovalIsSound StrongestIsReported ApprovalFollowsEvidence ResultIsTested

\* Two processes, four starts and three changes of DATABASE_URL with two clients; three
\* submissions of the key page and a crash.
SPECIFICATION OnceSpec
CONSTANTS
  Procs = {p1, p2}
  Clients = {c1, c2}
  NoClient = NoClient
  MaxStarts = 4
  MaxSwitches = 3
  MaxContacts = 2
  Submissions = {s1, s2, s3}
  NoKey = NoKey
  Mixed = Mixed
  MaxKeyCrashes = 1
SYMMETRY OnceSymmetry
CHECK_DEADLOCK FALSE
INVARIANTS  ImportIsWhole RightClient  UsedLinkHasKey 

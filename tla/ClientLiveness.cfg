\* One request, two sessions and two concurrent checkouts, one crash and one store fault.
SPECIFICATION FairSpec
CONSTANTS
  Requests = {r1}
  Sessions = {s1, s2}
  Handlers = {h1, h2}
  Amounts = {100}
  NoRequest = NoRequest
  NoSession = NoSession
  MaxCrashes = 1
  MaxFaults = 1
PROPERTIES QueuedJobIsClaimed BuildEnds 

\* Daniel approves a delivery; nothing fails.
SPECIFICATION Spec
CONSTANTS
  Requests = {r1}
  Sessions = {s1}
  Handlers = {h1}
  Amounts = {100}
  NoRequest = NoRequest
  NoSession = NoSession
  MaxCrashes = 0
  MaxFaults = 0
INVARIANTS ApprovalIsRecorded

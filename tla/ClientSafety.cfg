\* Two requests with a session each or both with one of them, one crash and one store fault.
SPECIFICATION Spec
CONSTANTS
  Requests = {r1, r2}
  Sessions = {s1, s2}
  Handlers = {h1}
  Amounts = {100}
  NoRequest = NoRequest
  NoSession = NoSession
  MaxCrashes = 1
  MaxFaults = 1
SYMMETRY ClientSymmetry
INVARIANTS PaymentIsProven ReviewedWorkPassed 
PROPERTIES KeepsContract

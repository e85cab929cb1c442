------------------------------- MODULE PaidWork -------------------------------
(***************************************************************************)
(* What paid client work promises, whatever runs beside what: money comes  *)
(* first, a paid request is built once, a passed run is never taken back   *)
(* and comes before review and approval.  ClientWork implements it; the    *)
(* quotes, sessions, events, threads and decisions of that module have no  *)
(* place here.                                                             *)
(***************************************************************************)
CONSTANT Requests

VARIABLES
  paid,     \* requests for which Stripe holds the money
  work,     \* the state of each request's job
  passed    \* requests whose delivery passed its sandbox run

contract == <<paid, work, passed>>

Init ==
  /\ paid = {} /\ passed = {}
  /\ work = [r \in Requests |-> "NONE"]

Move(r, from, to) == work[r] \in from /\ work' = [work EXCEPT ![r] = to]

Pay(r) == paid' = paid \cup {r} /\ UNCHANGED <<work, passed>>

Queue(r) ==
  /\ r \in paid
  /\ Move(r, {"NONE"}, "QUEUED")
  /\ UNCHANGED <<paid, passed>>

Build(r) == Move(r, {"QUEUED"}, "BUILDING") /\ UNCHANGED <<paid, passed>>

Deliver(r) ==
  /\ Move(r, {"BUILDING"}, "AWAITING_DELIVERY_REVIEW")
  /\ passed' = passed \cup {r}
  /\ UNCHANGED paid

Reject(r) == Move(r, {"BUILDING"}, "TESTS_FAILED") /\ UNCHANGED <<paid, passed>>

\* The states of a job that has been built.
Built == {"AWAITING_DELIVERY_REVIEW", "TESTS_FAILED", "BLOCKED", "DANIEL_APPROVED_FOR_DELIVERY"}

\* A failure blocks the work whatever it has become, Daniel's approval included ...
Block(r) == Move(r, Built \cup {"BUILDING"}, "BLOCKED") /\ UNCHANGED <<paid, passed>>

\* ... and an approval that was under way unblocks it, but only what passed.
Approve(r) ==
  /\ r \in passed
  /\ Move(r, Built, "DANIEL_APPROVED_FOR_DELIVERY")
  /\ UNCHANGED <<paid, passed>>

Next ==
  \E r \in Requests :
    Pay(r) \/ Queue(r) \/ Build(r) \/ Deliver(r) \/ Reject(r) \/ Block(r) \/ Approve(r)

Spec == Init /\ [][Next]_contract
=============================================================================

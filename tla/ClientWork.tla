------------------------------ MODULE ClientWork ------------------------------
(***************************************************************************)
(* Paid client work, from the quote to Daniel's approval of the delivery:  *)
(* the request endpoints and the Stripe webhook of app.py, the client job  *)
(* worker (app.py process_next_client_job) and the rows of store.py behind *)
(* them.  The endpoints run in a thread pool, the webhook on the event     *)
(* loop and the worker in a thread of its own; a SELECT and the UPDATE it  *)
(* guards are two steps wherever no transaction covers both.               *)
(*                                                                         *)
(* A request has at most one job (client_request_id is UNIQUE), so a job   *)
(* is named by its request.  Stripe is external: it creates the sessions   *)
(* it is asked for, lets the client complete any of them and reports each  *)
(* completion at least once.  Abstracted: texts, files, digests, the gates *)
(* of queue_client_job that read no row of this module, and audit records. *)
(***************************************************************************)
EXTENDS Integers, FiniteSets

CONSTANTS
  Requests,     \* client_requests rows
  Sessions,     \* Stripe Checkout sessions that may be created
  Handlers,     \* threads that may run create_checkout
  Amounts,      \* quotes Daniel may give, in cents
  NoRequest, NoSession,
  MaxCrashes,   \* bound: crashes of a behaviour
  MaxFaults     \* bound: failing store calls of a behaviour

ASSUME ClientAssumption ==
  /\ NoRequest \notin Requests
  /\ NoSession \notin Sessions
  /\ IsFiniteSet(Requests)
  /\ Amounts \subseteq Nat \ {0}
  /\ MaxCrashes \in Nat /\ MaxFaults \in Nat

VARIABLES
  \* client_requests
  status, quote, session, paymentStatus,
  \* client_jobs, authority_decisions
  jobStatus, jobId, evidence, decisions,
  \* Stripe: its sessions, and the completions not yet acknowledged to it
  stripe, pending,
  \* create_checkout in each handler
  hpc, hreq, hquote, hsession,
  \* stripe_webhook: the event in hand and the request it was looked up for
  event, found,
  \* queue_client_job and approve_client_job_delivery between their SELECT and
  \* the write that follows
  queueing, approving,
  \* the client job worker
  wpc, wjob, wverdict,
  \* the environment
  crashes, faults

requests == <<status, quote, session, paymentStatus>>
jobs == <<jobStatus, jobId, evidence, decisions>>
checkout == <<hpc, hreq, hquote, hsession>>
webhook == <<event, found>>
endpoints == <<queueing, approving>>
worker == <<wpc, wjob, wverdict>>
env == <<crashes, faults>>
external == <<stripe, pending>>
vars == <<requests, jobs, external, checkout, webhook, endpoints, worker, env>>

NoQuote == 0
PaymentStatuses == {"paid", "unpaid"}
Verdicts == {"PASSED", "FAILED"}
JobStatuses == {"NONE", "QUEUED", "BUILDING", "AWAITING_DELIVERY_REVIEW",
                "TESTS_FAILED", "BLOCKED", "DANIEL_APPROVED_FOR_DELIVERY"}
WorkerPCs == {"idle", "build", "finish", "decide", "audit", "failing", "dead"}

\* A Stripe session: not created; created; open once create_checkout has handed
\* out its url; completed with a payment_status.
NotCreated == [req |-> NoRequest, amount |-> NoQuote, state |-> "none"]
StripeSessions == [req : Requests \cup {NoRequest}, amount : Amounts \cup {NoQuote},
                   state : {"none", "created", "open"} \cup PaymentStatuses]

Completed(s) == stripe[s].state \in PaymentStatuses

\* A row of authority_decisions.
Decision(r, action, outcome) == [job |-> r, action |-> action, status |-> outcome]
Decisions == [job : Requests, action : {"package_for_review", "final_delivery"},
              status : {"AUTO_APPROVED_INTERNAL", "DENIED", "DANIEL_APPROVED"}]

RequestTypes ==
  /\ status \in [Requests -> {"ABSENT", "NEW", "QUOTED", "CHECKOUT_READY", "PAID"}]
  /\ quote \in [Requests -> Amounts \cup {NoQuote}]
  /\ session \in [Requests -> Sessions \cup {NoSession}]
  /\ paymentStatus \in [Requests -> PaymentStatuses \cup {"UNPAID"}]

JobTypes ==
  /\ jobStatus \in [Requests -> JobStatuses]
  /\ jobId \in [Requests -> Nat]
  /\ evidence \in [Requests -> Verdicts \cup {"NONE"}]
  /\ decisions \subseteq Decisions

ExternalTypes == stripe \in [Sessions -> StripeSessions] /\ pending \subseteq Sessions

\* Between its steps a checkout handler knows what it read and what it created.
CheckoutTypes ==
  /\ hpc \in [Handlers -> {"idle", "create", "record"}]
  /\ hreq \in [Handlers -> Requests \cup {NoRequest}]
  /\ hquote \in [Handlers -> Amounts \cup {NoQuote}]
  /\ hsession \in [Handlers -> Sessions \cup {NoSession}]
  /\ \A h \in Handlers :
       /\ hpc[h] # "idle" => hreq[h] \in Requests /\ hquote[h] \in Amounts
       /\ hpc[h] = "record" => hsession[h] \in Sessions

EndpointTypes ==
  /\ event \in Sessions \cup {NoSession} /\ found \in Requests \cup {NoRequest}
  /\ event # NoSession => found \in Requests
  /\ queueing \subseteq Requests /\ approving \subseteq Requests

WorkerTypes ==
  /\ wpc \in WorkerPCs /\ wjob \in Requests \cup {NoRequest}
  /\ wpc \notin {"idle", "dead"} => wjob \in Requests
  /\ wverdict \in Verdicts \cup {"NONE"}

EnvTypes == crashes \in Nat /\ faults \in Nat

\* The type invariant: rows, sessions and the locals of every thread.
TypeOK ==
  /\ RequestTypes /\ JobTypes /\ ExternalTypes /\ CheckoutTypes
  /\ EndpointTypes /\ WorkerTypes /\ EnvTypes

Init ==
  /\ status = [r \in Requests |-> "ABSENT"]
  /\ quote = [r \in Requests |-> NoQuote]
  /\ session = [r \in Requests |-> NoSession]
  /\ paymentStatus = [r \in Requests |-> "UNPAID"]
  /\ jobStatus = [r \in Requests |-> "NONE"]
  /\ jobId = [r \in Requests |-> 0]
  /\ evidence = [r \in Requests |-> "NONE"]
  /\ decisions = {}
  /\ stripe = [s \in Sessions |-> NotCreated] /\ pending = {}
  /\ hpc = [h \in Handlers |-> "idle"] /\ hreq = [h \in Handlers |-> NoRequest]
  /\ hquote = [h \in Handlers |-> NoQuote] /\ hsession = [h \in Handlers |-> NoSession]
  /\ event = NoSession /\ found = NoRequest
  /\ queueing = {} /\ approving = {}
  /\ wpc = "idle" /\ wjob = NoRequest /\ wverdict = "NONE"
  /\ crashes = 0 /\ faults = 0

-----------------------------------------------------------------------------
(* Requests and quotes                                                     *)

\* POST /client-requests.
CreateRequest(r) ==
  /\ status[r] = "ABSENT"
  /\ status' = [status EXCEPT ![r] = "NEW"]
  /\ UNCHANGED <<quote, session, paymentStatus, jobs, external, checkout, webhook,
                 endpoints, worker, env>>

\* quote_client_request: an UPDATE that asks nothing of the row's state.
QuoteRequest(r) ==
  /\ status[r] # "ABSENT"
  /\ \E amount \in Amounts : quote' = [quote EXCEPT ![r] = amount]
  /\ status' = [status EXCEPT ![r] = "QUOTED"]
  /\ UNCHANGED <<session, paymentStatus, jobs, external, checkout, webhook,
                 endpoints, worker, env>>

-----------------------------------------------------------------------------
(* create_checkout: read the request, create the session, record it        *)

HandlerReturns(h) ==
  /\ hpc' = [hpc EXCEPT ![h] = "idle"]
  /\ hreq' = [hreq EXCEPT ![h] = NoRequest]
  /\ hquote' = [hquote EXCEPT ![h] = NoQuote]
  /\ hsession' = [hsession EXCEPT ![h] = NoSession]

CheckoutRead(h, r) ==
  /\ hpc[h] = "idle"
  /\ status[r] = "QUOTED" /\ quote[r] # NoQuote
  /\ hpc' = [hpc EXCEPT ![h] = "create"]
  /\ hreq' = [hreq EXCEPT ![h] = r]
  /\ hquote' = [hquote EXCEPT ![h] = quote[r]]
  /\ UNCHANGED <<requests, jobs, external, hsession, webhook, endpoints, worker, env>>

\* Stripe creates a session for the amount that was read.
CheckoutCreate(h) ==
  /\ hpc[h] = "create"
  /\ \E s \in Sessions :
       /\ stripe[s] = NotCreated
       /\ stripe' = [stripe EXCEPT ![s] =
                       [req |-> hreq[h], amount |-> hquote[h], state |-> "created"]]
       /\ hsession' = [hsession EXCEPT ![h] = s]
  /\ hpc' = [hpc EXCEPT ![h] = "record"]
  /\ UNCHANGED <<requests, jobs, pending, hreq, hquote, webhook, endpoints, worker, env>>

\* Stripe is not configured, rejects the session or does not answer.
CheckoutRefused(h) ==
  /\ hpc[h] = "create"
  /\ HandlerReturns(h)
  /\ UNCHANGED <<requests, jobs, external, webhook, endpoints, worker, env>>

\* set_checkout_session overwrites session and status unread; only then is the
\* session's url returned.
CheckoutRecord(h) ==
  /\ hpc[h] = "record"
  /\ session' = [session EXCEPT ![hreq[h]] = hsession[h]]
  /\ status' = [status EXCEPT ![hreq[h]] = "CHECKOUT_READY"]
  /\ stripe' = [stripe EXCEPT ![hsession[h]].state = "open"]
  /\ HandlerReturns(h)
  /\ UNCHANGED <<quote, paymentStatus, jobs, pending, webhook, endpoints, worker, env>>

-----------------------------------------------------------------------------
(* Stripe (external) and the webhook                                       *)

\* The client completes a session, with money or with a promise of it.
ClientCompletes(s) ==
  /\ stripe[s].state = "open"
  /\ \E p \in PaymentStatuses : stripe' = [stripe EXCEPT ![s].state = p]
  /\ pending' = pending \cup {s}
  /\ UNCHANGED <<requests, jobs, checkout, webhook, endpoints, worker, env>>

\* Stripe may report a completion more than once.
Redelivered(s) ==
  /\ Completed(s) /\ s \notin pending
  /\ pending' = pending \cup {s}
  /\ UNCHANGED <<requests, jobs, stripe, checkout, webhook, endpoints, worker, env>>

\* Mutant of WebhookLookup: an unknown session is credited to a request that is
\* waiting for its payment.
WebhookLookupGuessing(s) ==
  /\ event = NoSession /\ s \in pending
  /\ found' \in {r \in Requests : session[r] = s \/ status[r] = "CHECKOUT_READY"}
  /\ event' = s
  /\ UNCHANGED <<requests, jobs, external, checkout, endpoints, worker, env>>

\* Mutant of WebhookLookup: the event is acknowledged before the row is written.
WebhookLookupEarly(s) ==
  /\ event = NoSession /\ s \in pending
  /\ \/ (\A r \in Requests : session[r] # s) /\ UNCHANGED webhook
     \/ found' \in {r \in Requests : session[r] = s} /\ event' = s
  /\ pending' = pending \ {s}
  /\ UNCHANGED <<requests, jobs, stripe, checkout, endpoints, worker, env>>

\* mark_client_request_paid looks the session up among the recorded ones; an
\* event whose session no row holds is acknowledged without effect.
WebhookLookup(s) ==
  /\ event = NoSession /\ s \in pending
  /\ \/ /\ \A r \in Requests : session[r] # s
        /\ pending' = pending \ {s}
        /\ UNCHANGED webhook
     \/ /\ found' \in {r \in Requests : session[r] = s}
        /\ event' = s
        /\ UNCHANGED pending
  /\ UNCHANGED <<requests, jobs, stripe, checkout, endpoints, worker, env>>

\* The UPDATE by id: PAID whatever the payment_status is and the row has become.
WebhookMark ==
  /\ event # NoSession
  /\ paymentStatus' = [paymentStatus EXCEPT ![found] = stripe[event].state]
  /\ status' = [status EXCEPT ![found] = "PAID"]
  /\ pending' = pending \ {event}
  /\ event' = NoSession /\ found' = NoRequest
  /\ UNCHANGED <<quote, session, jobs, stripe, checkout, endpoints, worker, env>>

-----------------------------------------------------------------------------
(* queue_client_job: create_client_job checks the payment, then inserts    *)

\* Mutant of JobRead: a completed checkout is taken for a payment.
JobReadUnpaid(r) ==
  /\ status[r] = "PAID"
  /\ r \notin queueing
  /\ queueing' = queueing \cup {r}
  /\ UNCHANGED <<requests, jobs, external, checkout, webhook, approving, worker, env>>

JobRead(r) ==
  /\ status[r] = "PAID" /\ paymentStatus[r] = "paid"
  /\ r \notin queueing
  /\ queueing' = queueing \cup {r}
  /\ UNCHANGED <<requests, jobs, external, checkout, webhook, approving, worker, env>>

\* The UNIQUE constraint refuses a second job of the request.
JobInsert(r) ==
  /\ r \in queueing
  /\ queueing' = queueing \ {r}
  /\ \/ jobStatus[r] # "NONE" /\ UNCHANGED <<jobStatus, jobId>>
     \/ /\ jobStatus[r] = "NONE"
        /\ jobStatus' = [jobStatus EXCEPT ![r] = "QUEUED"]
        /\ jobId' = [jobId EXCEPT ![r] = 1 + Cardinality({q \in Requests : jobId[q] # 0})]
  /\ UNCHANGED <<requests, evidence, decisions, external, checkout, webhook, approving,
                 worker, env>>

-----------------------------------------------------------------------------
(* process_next_client_job                                                 *)

WorkerReturns == wpc' = "idle" /\ wjob' = NoRequest /\ wverdict' = "NONE"

\* Mutant of WorkerClaim: the lowest id is compared strictly, with itself too.
WorkerClaimStrict ==
  /\ wpc = "idle"
  /\ \E r \in Requests :
       /\ jobStatus[r] = "QUEUED"
       /\ \A q \in Requests : jobStatus[q] = "QUEUED" => jobId[r] < jobId[q]
       /\ jobStatus' = [jobStatus EXCEPT ![r] = "BUILDING"]
       /\ wjob' = r
  /\ wpc' = "build"
  /\ UNCHANGED <<requests, jobId, evidence, decisions, external, checkout, webhook,
                 endpoints, wverdict, env>>

\* claim_client_job, one transaction: the queued job with the lowest id.
WorkerClaim ==
  /\ wpc = "idle"
  /\ \E r \in Requests :
       /\ jobStatus[r] = "QUEUED"
       /\ \A q \in Requests : jobStatus[q] = "QUEUED" => jobId[r] <= jobId[q]
       /\ jobStatus' = [jobStatus EXCEPT ![r] = "BUILDING"]
       /\ wjob' = r
  /\ wpc' = "build"
  /\ UNCHANGED <<requests, jobId, evidence, decisions, external, checkout, webhook,
                 endpoints, wverdict, env>>

\* ClientJobBuilder.build returns the verdict of its last sandbox run ...
WorkerBuild ==
  /\ wpc = "build"
  /\ wverdict' \in Verdicts
  /\ wpc' = "finish"
  /\ UNCHANGED <<requests, jobs, external, checkout, webhook, endpoints, wjob, env>>

\* Mutant of WorkerBuildRaises: the exception is swallowed by the worker loop.
WorkerBuildAbandoned ==
  /\ wpc = "build"
  /\ WorkerReturns
  /\ UNCHANGED <<requests, jobs, external, checkout, webhook, endpoints, env>>

\* ... or raises: unsafe files, a refused model call, a sandbox that is away.
WorkerBuildRaises ==
  /\ wpc = "build"
  /\ wpc' = "failing"
  /\ UNCHANGED <<requests, jobs, external, checkout, webhook, endpoints, wjob,
                 wverdict, env>>

\* The UPDATE of finish_client_job: status and evidence in one transaction.
WorkerFinish ==
  /\ wpc = "finish"
  /\ jobStatus' = [jobStatus EXCEPT ![wjob] =
                     IF wverdict = "PASSED" THEN "AWAITING_DELIVERY_REVIEW"
                                            ELSE "TESTS_FAILED"]
  /\ evidence' = [evidence EXCEPT ![wjob] = wverdict]
  /\ wpc' = "decide"
  /\ UNCHANGED <<requests, jobId, decisions, external, checkout, webhook, endpoints,
                 wjob, wverdict, env>>

\* decide_authority on package_for_review: denied unless the tests passed, and
\* also denied when a certificate or a reviewer is missing.
PackagingOutcomes(v) == {"DENIED"} \cup IF v = "PASSED" THEN {"AUTO_APPROVED_INTERNAL"} ELSE {}

\* The row of record_authority_decision.
WorkerDecide ==
  /\ wpc = "decide"
  /\ \E outcome \in PackagingOutcomes(wverdict) :
       decisions' = decisions \cup {Decision(wjob, "package_for_review", outcome)}
  /\ wpc' = "audit"
  /\ UNCHANGED <<requests, jobStatus, jobId, evidence, external, checkout, webhook,
                 endpoints, wjob, wverdict, env>>

\* Its audit record, and the return.
WorkerAudit ==
  /\ wpc = "audit"
  /\ WorkerReturns
  /\ UNCHANGED <<requests, jobs, external, checkout, webhook, endpoints, env>>

\* Mutant of WorkerStoreRaises: the worker goes on with the next job.
WorkerStoreIgnored ==
  /\ wpc \in {"idle", "finish", "decide", "audit"}
  /\ faults < MaxFaults /\ faults' = faults + 1
  /\ WorkerReturns
  /\ UNCHANGED <<requests, jobs, external, checkout, webhook, endpoints, crashes>>

\* A store call of the try block raises: the claim's is outside the inner try,
\* so its exception ends the worker thread; any other leads to fail_client_job.
WorkerStoreRaises ==
  /\ wpc \in {"idle", "finish", "decide", "audit"}
  /\ faults < MaxFaults /\ faults' = faults + 1
  /\ wpc' = IF wpc = "idle" THEN "dead" ELSE "failing"
  /\ UNCHANGED <<requests, jobs, external, checkout, webhook, endpoints, wjob,
                 wverdict, crashes>>

\* fail_client_job: BLOCKED, whatever the job has become.
WorkerFails ==
  /\ wpc = "failing"
  /\ jobStatus' = [jobStatus EXCEPT ![wjob] = "BLOCKED"]
  /\ WorkerReturns
  /\ UNCHANGED <<requests, jobId, evidence, decisions, external, checkout, webhook,
                 endpoints, env>>

\* fail_client_job raises, before or after its UPDATE, and the thread ends.
WorkerFailRaises ==
  /\ wpc = "failing"
  /\ faults < MaxFaults /\ faults' = faults + 1
  /\ \/ UNCHANGED jobStatus
     \/ jobStatus' = [jobStatus EXCEPT ![wjob] = "BLOCKED"]
  /\ wpc' = "dead" /\ wjob' = NoRequest /\ wverdict' = "NONE"
  /\ UNCHANGED <<requests, jobId, evidence, decisions, external, checkout, webhook,
                 endpoints, crashes>>

WorkerStep ==
  \/ WorkerClaim \/ WorkerBuild \/ WorkerBuildRaises \/ WorkerFinish \/ WorkerDecide
  \/ WorkerAudit \/ WorkerFails

-----------------------------------------------------------------------------
(* approve_client_delivery                                                 *)

\* Mutant of ApproveRead: any job that has left the worker can be approved.
ApproveReadAny(r) ==
  /\ jobStatus[r] \in {"AWAITING_DELIVERY_REVIEW", "TESTS_FAILED"}
  /\ r \notin approving
  /\ approving' = approving \cup {r}
  /\ UNCHANGED <<requests, jobs, external, checkout, webhook, queueing, worker, env>>

ApproveRead(r) ==
  /\ jobStatus[r] = "AWAITING_DELIVERY_REVIEW"
  /\ r \notin approving
  /\ approving' = approving \cup {r}
  /\ UNCHANGED <<requests, jobs, external, checkout, webhook, queueing, worker, env>>

\* The UPDATE is committed; then sha256, which store.py does not import, raises
\* NameError and record_authority_decision is not reached.
ApproveWrite(r) ==
  /\ r \in approving
  /\ jobStatus' = [jobStatus EXCEPT ![r] = "DANIEL_APPROVED_FOR_DELIVERY"]
  /\ approving' = approving \ {r}
  /\ UNCHANGED <<requests, jobId, evidence, decisions, external, checkout, webhook,
                 queueing, worker, env>>

-----------------------------------------------------------------------------
(* Faults                                                                  *)

\* A store call of an endpoint raises; the caller gets an error, and Stripe,
\* which was not acknowledged, will report its event again.
EndpointRaises ==
  /\ faults < MaxFaults /\ faults' = faults + 1
  /\ \/ /\ \E h \in Handlers : hpc[h] = "record" /\ HandlerReturns(h)
        /\ UNCHANGED <<webhook, endpoints>>
     \/ /\ event # NoSession /\ event' = NoSession /\ found' = NoRequest
        /\ UNCHANGED <<checkout, endpoints>>
     \/ /\ \E r \in queueing : queueing' = queueing \ {r}
        /\ UNCHANGED <<checkout, webhook, approving>>
     \/ /\ \E r \in approving : approving' = approving \ {r}
        /\ UNCHANGED <<checkout, webhook, queueing>>
  /\ UNCHANGED <<requests, jobs, external, worker, crashes>>

\* The process is killed and started again over the same database.
Crash ==
  /\ crashes < MaxCrashes /\ crashes' = crashes + 1
  /\ hpc' = [h \in Handlers |-> "idle"] /\ hreq' = [h \in Handlers |-> NoRequest]
  /\ hquote' = [h \in Handlers |-> NoQuote]
  /\ hsession' = [h \in Handlers |-> NoSession]
  /\ event' = NoSession /\ found' = NoRequest
  /\ queueing' = {} /\ approving' = {}
  /\ WorkerReturns
  /\ UNCHANGED <<requests, jobs, external, faults>>

Next ==
  \/ \E r \in Requests :
       \/ CreateRequest(r) \/ QuoteRequest(r)
       \/ JobRead(r) \/ JobInsert(r) \/ ApproveRead(r) \/ ApproveWrite(r)
       \/ \E h \in Handlers : CheckoutRead(h, r)
  \/ \E h \in Handlers : CheckoutCreate(h) \/ CheckoutRefused(h) \/ CheckoutRecord(h)
  \/ \E s \in Sessions : ClientCompletes(s) \/ Redelivered(s) \/ WebhookLookup(s)
  \/ WebhookMark
  \/ WorkerStep \/ WorkerStoreRaises \/ WorkerFailRaises
  \/ EndpointRaises \/ Crash

Spec == Init /\ [][Next]_vars

\* The worker loops for ever and every call it makes has a timeout; a request
\* that has been accepted runs to its end; Stripe repeats an event until it is
\* acknowledged.  Nothing makes Daniel or a client act.
Fairness ==
  /\ WF_vars(WorkerStep)
  /\ \A s \in Sessions : SF_vars(WebhookLookup(s))
  /\ WF_vars(WebhookMark)
  /\ \A h \in Handlers : WF_vars(CheckoutCreate(h) \/ CheckoutRefused(h) \/ CheckoutRecord(h))
  /\ \A r \in Requests : WF_vars(JobInsert(r)) /\ WF_vars(ApproveWrite(r))

FairSpec == Spec /\ Fairness

-----------------------------------------------------------------------------
(* Properties                                                              *)

\* No request is PAID, and no request has a job, without Stripe: a PAID request
\* has a session that the client completed, and a request with a job has one for
\* which Stripe holds the money, whatever quotes, checkouts and repeated or late
\* events came in between.
PaymentIsProven ==
  \A r \in Requests :
    /\ status[r] = "PAID" => \E s \in Sessions : stripe[s].req = r /\ Completed(s)
    /\ jobStatus[r] # "NONE" =>
         \E s \in Sessions : stripe[s].req = r /\ stripe[s].state = "paid"

\* A job that waits for Daniel's review, or that he approved, is one whose last
\* sandbox run passed, though he decides on a status read before he writes.
ReviewedWorkPassed ==
  \A r \in Requests :
    jobStatus[r] \in {"AWAITING_DELIVERY_REVIEW", "DANIEL_APPROVED_FOR_DELIVERY"}
      => evidence[r] = "PASSED"

\* A job waits for review only with the authority engine's decision on its
\* packaging on record, unless the worker is still at it or was killed.
ReviewIsDecided ==
  \A r \in Requests :
    jobStatus[r] = "AWAITING_DELIVERY_REVIEW" =>
      \/ \E d \in decisions : d.job = r /\ d.action = "package_for_review"
      \/ wjob = r
      \/ crashes > 0 \/ wpc = "dead"

\* A queued job does not stay queued while the worker thread lives, even if the
\* process is restarted.
QueuedJobIsClaimed ==
  \A r \in Requests : []<>(jobStatus[r] # "QUEUED" \/ wpc = "dead")

\* A job does not stay in BUILDING unless its worker was killed.
BuildEnds ==
  \A r \in Requests : []<>(jobStatus[r] # "BUILDING" \/ crashes > 0 \/ wpc = "dead")

\* The client's money is not lost between Stripe and the row: a request does not
\* stay unpaid while the session it records is paid, through faults, crashes,
\* repeated events and events of the sessions that were replaced.
RecordedPaymentIsMarked ==
  \A r \in Requests :
    []<>(session[r] \in {s \in Sessions : stripe[s].state = "paid"}
           => paymentStatus[r] = "paid")

\* README.md: "Every decision receives a deterministic ID and audit record": so
\* does Daniel's approval of a delivery, once the request that made it is over.
ApprovalIsRecorded ==
  \A r \in Requests :
    jobStatus[r] = "DANIEL_APPROVED_FOR_DELIVERY" /\ r \notin approving =>
      \E d \in decisions : d.job = r /\ d.action = "final_delivery"

-----------------------------------------------------------------------------
(* What the steps above implement                                          *)

\* Money is what Stripe holds, work is the row of client_jobs, and what passed is
\* the evidence the worker stored.
Contract == INSTANCE PaidWork WITH
  paid <- {r \in Requests : \E s \in Sessions :
             stripe[s].req = r /\ stripe[s].state = "paid"},
  work <- jobStatus,
  passed <- {r \in Requests : evidence[r] = "PASSED"}

\* Every step of the endpoints, the webhook, the worker and the faults is a step of
\* the contract or none: money before work, one build of a request, a passed run
\* before review and approval, and nothing queued or built again.
KeepsContract == Contract!Spec
=============================================================================

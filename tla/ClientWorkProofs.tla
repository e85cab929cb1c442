--------------------------- MODULE ClientWorkProofs ---------------------------
(* Proofs about ClientWork for every set of requests, sessions and handlers.  *)
EXTENDS ClientWork, FiniteSetTheorems, TLAPS

-----------------------------------------------------------------------------
(* Types.                                                                  *)

\* What each group of actions leaves alone; the steps of one part of the system
\* keep the types of the rows and locals of the others.
LEMMA RequestStepTypes ==
  ASSUME TypeOK, NEW r \in Requests,
         CreateRequest(r) \/ QuoteRequest(r) \/ JobRead(r) \/ JobInsert(r)
           \/ ApproveRead(r) \/ ApproveWrite(r)
  PROVE  TypeOK'
<1> USE DEF TypeOK
<1>1. RequestTypes'
  <2>1. CASE CreateRequest(r)
    BY <2>1 DEF CreateRequest, RequestTypes
  <2>2. CASE QuoteRequest(r)
    BY <2>2 DEF QuoteRequest, RequestTypes
  <2>3. CASE JobRead(r) \/ JobInsert(r) \/ ApproveRead(r) \/ ApproveWrite(r)
    BY <2>3 DEF JobRead, JobInsert, ApproveRead, ApproveWrite, RequestTypes, requests
  <2> QED
    BY <2>1, <2>2, <2>3
<1>2. JobTypes'
  <2>1. CASE JobInsert(r)
    <3>1. Cardinality({q \in Requests : jobId[q] # 0}) \in Nat
      BY ClientAssumption, FS_Subset, FS_CardinalityType
    <3> QED
      BY <2>1, <3>1 DEF JobInsert, JobTypes, JobStatuses
  <2>2. CASE ApproveWrite(r)
    BY <2>2 DEF ApproveWrite, JobTypes, JobStatuses
  <2>3. CASE CreateRequest(r) \/ QuoteRequest(r) \/ JobRead(r) \/ ApproveRead(r)
    BY <2>3 DEF CreateRequest, QuoteRequest, JobRead, ApproveRead, JobTypes, jobs
  <2> QED
    BY <2>1, <2>2, <2>3
<1>3. EndpointTypes'
  BY DEF CreateRequest, QuoteRequest, JobRead, JobInsert, ApproveRead, ApproveWrite,
         EndpointTypes, webhook, endpoints
<1>4. ExternalTypes' /\ CheckoutTypes' /\ WorkerTypes' /\ EnvTypes'
  BY DEF CreateRequest, QuoteRequest, JobRead, JobInsert, ApproveRead, ApproveWrite,
         ExternalTypes, CheckoutTypes, WorkerTypes, EnvTypes, external, checkout,
         worker, env
<1> QED
  BY <1>1, <1>2, <1>3, <1>4

\* create_checkout writes its own locals, its request's row and its session.
LEMMA CheckoutStepTypes ==
  ASSUME TypeOK, NEW h \in Handlers,
         \/ \E r \in Requests : CheckoutRead(h, r)
         \/ CheckoutCreate(h) \/ CheckoutRefused(h) \/ CheckoutRecord(h)
  PROVE  TypeOK'
<1> USE DEF TypeOK
<1>1. JobTypes' /\ EndpointTypes' /\ WorkerTypes' /\ EnvTypes'
  BY DEF CheckoutRead, CheckoutCreate, CheckoutRefused, CheckoutRecord, JobTypes,
         EndpointTypes, WorkerTypes, EnvTypes, jobs, webhook, endpoints, worker, env
<1>2. CASE \E r \in Requests : CheckoutRead(h, r)
  <2>1. PICK r \in Requests : CheckoutRead(h, r)
    BY <1>2
  <2>2. quote[r] \in Amounts
    BY <2>1 DEF CheckoutRead, RequestTypes
  <2>3. CheckoutTypes'
    BY <2>1, <2>2 DEF CheckoutRead, CheckoutTypes
  <2> QED
    BY <1>1, <2>1, <2>3 DEF CheckoutRead, RequestTypes, ExternalTypes, requests, external
<1>3. CASE CheckoutCreate(h)
  <2>1. PICK s \in Sessions :
          /\ stripe' = [stripe EXCEPT ![s] =
                          [req |-> hreq[h], amount |-> hquote[h], state |-> "created"]]
          /\ hsession' = [hsession EXCEPT ![h] = s]
    BY <1>3 DEF CheckoutCreate
  <2>2. hreq[h] \in Requests /\ hquote[h] \in Amounts
    BY <1>3 DEF CheckoutCreate, CheckoutTypes
  <2>3. ExternalTypes'
    BY <1>3, <2>1, <2>2 DEF CheckoutCreate, ExternalTypes, StripeSessions
  <2>4. CheckoutTypes'
    BY <1>3, <2>1, <2>2 DEF CheckoutCreate, CheckoutTypes
  <2> QED
    BY <1>1, <1>3, <2>3, <2>4 DEF CheckoutCreate, RequestTypes, requests
<1>4. CASE CheckoutRefused(h)
  BY <1>1, <1>4 DEF CheckoutRefused, HandlerReturns, CheckoutTypes, RequestTypes,
       ExternalTypes, requests, external
<1>5. CASE CheckoutRecord(h)
  <2>1. hreq[h] \in Requests /\ hsession[h] \in Sessions
    BY <1>5 DEF CheckoutRecord, CheckoutTypes
  <2>2. RequestTypes'
    BY <1>5, <2>1 DEF CheckoutRecord, RequestTypes
  <2>3. ExternalTypes'
    BY <1>5, <2>1 DEF CheckoutRecord, ExternalTypes, StripeSessions
  <2>4. CheckoutTypes'
    BY <1>5 DEF CheckoutRecord, HandlerReturns, CheckoutTypes
  <2> QED
    BY <1>1, <2>2, <2>3, <2>4
<1> QED
  BY <1>2, <1>3, <1>4, <1>5

\* The webhook writes a payment_status, as the event in hand is a completion.
LEMMA StripeStepTypes ==
  ASSUME TypeOK, event # NoSession => Completed(event), NEW s \in Sessions,
         ClientCompletes(s) \/ Redelivered(s) \/ WebhookLookup(s) \/ WebhookMark
  PROVE  TypeOK'
<1> USE DEF TypeOK
<1>1. JobTypes' /\ CheckoutTypes' /\ WorkerTypes' /\ EnvTypes'
  BY DEF ClientCompletes, Redelivered, WebhookLookup, WebhookMark, JobTypes,
         CheckoutTypes, WorkerTypes, EnvTypes, jobs, checkout, worker, env
<1>2. ExternalTypes'
  <2>1. CASE ClientCompletes(s)
    BY <2>1 DEF ClientCompletes, ExternalTypes, StripeSessions
  <2>2. CASE Redelivered(s) \/ WebhookLookup(s) \/ WebhookMark
    BY <2>2 DEF Redelivered, WebhookLookup, WebhookMark, ExternalTypes
  <2> QED
    BY <2>1, <2>2
<1>3. EndpointTypes'
  BY DEF ClientCompletes, Redelivered, WebhookLookup, WebhookMark, EndpointTypes,
         webhook, endpoints
<1>4. CASE WebhookMark
  <2>1. stripe[event].state \in PaymentStatuses /\ found \in Requests
    BY <1>4 DEF WebhookMark, Completed, EndpointTypes
  <2>2. RequestTypes'
    BY <1>4, <2>1 DEF WebhookMark, RequestTypes
  <2> QED
    BY <1>1, <1>2, <1>3, <2>2
<1>5. CASE ClientCompletes(s) \/ Redelivered(s) \/ WebhookLookup(s)
  BY <1>1, <1>2, <1>3, <1>5 DEF ClientCompletes, Redelivered, WebhookLookup,
       RequestTypes, requests
<1> QED
  BY <1>4, <1>5

\* The worker writes only job rows, decisions and its own locals.
LEMMA WorkerStepTypes ==
  ASSUME TypeOK, WorkerStep \/ WorkerStoreRaises \/ WorkerFailRaises
  PROVE  TypeOK'
<1> USE DEF TypeOK, WorkerReturns
<1> USE DEF WorkerClaim, WorkerBuild, WorkerBuildRaises, WorkerFinish, WorkerDecide,
        WorkerAudit, WorkerFails, WorkerStoreRaises, WorkerFailRaises
<1>1. RequestTypes' /\ ExternalTypes' /\ CheckoutTypes' /\ EndpointTypes'
  BY DEF WorkerStep, RequestTypes, ExternalTypes, CheckoutTypes, EndpointTypes,
         requests, external, checkout, webhook, endpoints
<1>2. EnvTypes'
  BY DEF WorkerStep, EnvTypes, env
<1>3. CASE WorkerClaim
  <2>1. PICK r \in Requests :
          jobStatus' = [jobStatus EXCEPT ![r] = "BUILDING"] /\ wjob' = r
    BY <1>3
  <2> QED
    BY <1>1, <1>2, <1>3, <2>1 DEF JobTypes, JobStatuses, WorkerTypes, WorkerPCs
<1>4. CASE WorkerBuild \/ WorkerBuildRaises \/ WorkerAudit
  BY <1>1, <1>2, <1>4 DEF JobTypes, WorkerTypes, WorkerPCs, jobs
<1>5. CASE WorkerFinish
  <2>1. wverdict \in Verdicts \cup {"NONE"} /\ wjob \in Requests
    BY <1>5 DEF WorkerTypes
  <2> QED
    BY <1>1, <1>2, <1>5, <2>1 DEF JobTypes, JobStatuses, WorkerTypes, WorkerPCs
<1>6. CASE WorkerDecide
  <2>1. PICK outcome \in PackagingOutcomes(wverdict) :
          decisions' = decisions \cup {Decision(wjob, "package_for_review", outcome)}
    BY <1>6
  <2>2. Decision(wjob, "package_for_review", outcome) \in Decisions
    BY <1>6, <2>1 DEF WorkerTypes, PackagingOutcomes, Decision, Decisions
  <2> QED
    BY <1>1, <1>2, <1>6, <2>1, <2>2 DEF JobTypes, WorkerTypes, WorkerPCs
<1>7. CASE WorkerFails \/ WorkerFailRaises
  BY <1>1, <1>2, <1>7 DEF JobTypes, JobStatuses, WorkerTypes, WorkerPCs
<1>8. CASE WorkerStoreRaises
  BY <1>1, <1>2, <1>8 DEF JobTypes, WorkerTypes, WorkerPCs, jobs
<1> QED
  BY <1>3, <1>4, <1>5, <1>6, <1>7, <1>8 DEF WorkerStep

\* Faults only reset locals.
LEMMA FaultTypes ==
  ASSUME TypeOK, EndpointRaises \/ Crash \/ UNCHANGED vars
  PROVE  TypeOK'
<1> USE DEF TypeOK
<1>1. CASE EndpointRaises
  <2>1. RequestTypes' /\ JobTypes' /\ ExternalTypes' /\ WorkerTypes' /\ EnvTypes'
    BY <1>1 DEF EndpointRaises, RequestTypes, JobTypes, ExternalTypes, WorkerTypes,
         EnvTypes, requests, jobs, external, worker
  <2>2. CheckoutTypes'
    BY <1>1 DEF EndpointRaises, HandlerReturns, CheckoutTypes, checkout
  <2>3. EndpointTypes'
    BY <1>1 DEF EndpointRaises, EndpointTypes, webhook, endpoints
  <2> QED
    BY <2>1, <2>2, <2>3
<1>2. CASE Crash
  <2>1. RequestTypes' /\ JobTypes' /\ ExternalTypes' /\ EnvTypes'
    BY <1>2, ClientAssumption DEF Crash, RequestTypes, JobTypes, ExternalTypes, EnvTypes,
         requests, jobs, external
  <2>2. CheckoutTypes' /\ EndpointTypes' /\ WorkerTypes'
    BY <1>2 DEF Crash, CheckoutTypes, EndpointTypes, WorkerTypes, WorkerPCs, WorkerReturns
  <2> QED
    BY <2>1, <2>2
<1>3. CASE UNCHANGED vars
  BY <1>3 DEF vars, requests, jobs, external, checkout, webhook, endpoints, worker, env,
       RequestTypes, JobTypes, ExternalTypes, CheckoutTypes, EndpointTypes, WorkerTypes,
       EnvTypes
<1> QED
  BY <1>1, <1>2, <1>3

-----------------------------------------------------------------------------
(* Payment.                                                                *)

PaidFor(r) == \E s \in Sessions : stripe[s].req = r /\ stripe[s].state = "paid"

\* A recorded session, and the one an event is about, belongs to its request;
\* only completions are reported.
SessionsMatch ==
  /\ \A r \in Requests : session[r] # NoSession => stripe[session[r]].req = r
  /\ \A s \in pending : Completed(s)
  /\ event # NoSession => Completed(event) /\ stripe[event].req = found

\* Whoever holds "paid", the row or the thread that read it, has a paid session.
PaidSeen ==
  /\ \A r \in Requests : paymentStatus[r] = "paid" => PaidFor(r)
  /\ \A r \in queueing : PaidFor(r)

\* A handler records a session that is its own and that no client has seen.
RecordsOwn ==
  /\ \A h \in Handlers : hpc[h] = "record" =>
       stripe[hsession[h]].req = hreq[h] /\ stripe[hsession[h]].state = "created"
  /\ \A h, k \in Handlers :
       hpc[h] = "record" /\ hpc[k] = "record" /\ hsession[h] = hsession[k] => h = k

\* Why a payment is proven although the webhook acts in two steps, Stripe repeats
\* itself and the sessions are overwritten.
PaymentInv == PaymentIsProven /\ SessionsMatch /\ PaidSeen /\ RecordsOwn

\* A job leaves NONE and QUEUED for good; Daniel decides on one that the worker has
\* left with a passed run, and the worker builds only jobs that are BUILDING.
JobInv ==
  /\ ReviewedWorkPassed
  /\ wpc \in {"build", "finish"} => jobStatus[wjob] = "BUILDING"
  /\ wpc \notin {"idle", "dead"} => jobStatus[wjob] \notin {"NONE", "QUEUED"}
  /\ \A r \in approving :
       jobStatus[r] \notin {"NONE", "QUEUED", "BUILDING"} /\ evidence[r] = "PASSED"

\* The inductive invariant.
ClientInv == TypeOK /\ PaymentInv /\ JobInv

\* Stripe changes a session only when create_checkout creates one, when it hands
\* out its own one's url, and when a client completes one.
LEMMA StripeSteps ==
  ASSUME Next,
         \A h \in Handlers : ~CheckoutCreate(h) /\ ~CheckoutRecord(h),
         \A s \in Sessions : ~ClientCompletes(s)
  PROVE  UNCHANGED stripe
BY DEF Next, CreateRequest, QuoteRequest, JobRead, JobInsert, ApproveRead, ApproveWrite,
     CheckoutRead, CheckoutRefused, Redelivered, WebhookLookup, WebhookMark, WorkerStep,
     WorkerClaim, WorkerBuild, WorkerBuildRaises, WorkerFinish, WorkerDecide, WorkerAudit,
     WorkerFails, WorkerStoreRaises, WorkerFailRaises, EndpointRaises, Crash, external

\* A session keeps its request, and a completed one keeps everything.
LEMMA SessionsKept ==
  ASSUME ClientInv, [Next]_vars
  PROVE  /\ stripe' \in [Sessions -> StripeSessions]
         /\ \A s \in Sessions :
              /\ stripe[s] # NotCreated => stripe'[s].req = stripe[s].req
              /\ Completed(s) => stripe'[s] = stripe[s]
<1> USE DEF ClientInv, Completed, PaymentStatuses
<1>1. stripe \in [Sessions -> StripeSessions]
  BY DEF TypeOK, ExternalTypes
<1>2. CASE UNCHANGED stripe
  BY <1>1, <1>2
<1>3. ASSUME NEW h \in Handlers, CheckoutCreate(h)
      PROVE  /\ stripe' \in [Sessions -> StripeSessions]
             /\ \A s \in Sessions :
                  /\ stripe[s] # NotCreated => stripe'[s].req = stripe[s].req
                  /\ Completed(s) => stripe'[s] = stripe[s]
  <2>1. PICK s \in Sessions :
          /\ stripe[s] = NotCreated
          /\ stripe' = [stripe EXCEPT ![s] =
                          [req |-> hreq[h], amount |-> hquote[h], state |-> "created"]]
    BY <1>3 DEF CheckoutCreate
  <2>2. hreq[h] \in Requests /\ hquote[h] \in Amounts
    BY <1>3 DEF CheckoutCreate, TypeOK, CheckoutTypes
  <2> QED
    BY <1>1, <2>1, <2>2 DEF NotCreated, StripeSessions
<1>4. ASSUME NEW h \in Handlers, CheckoutRecord(h)
      PROVE  /\ stripe' \in [Sessions -> StripeSessions]
             /\ \A s \in Sessions :
                  /\ stripe[s] # NotCreated => stripe'[s].req = stripe[s].req
                  /\ Completed(s) => stripe'[s] = stripe[s]
  <2>1. hsession[h] \in Sessions /\ stripe[hsession[h]].state = "created"
    BY <1>4 DEF CheckoutRecord, TypeOK, CheckoutTypes, PaymentInv, RecordsOwn
  <2>2. stripe' = [stripe EXCEPT ![hsession[h]].state = "open"]
    BY <1>4 DEF CheckoutRecord
  <2> QED
    BY <1>1, <2>1, <2>2 DEF StripeSessions
<1>5. ASSUME NEW t \in Sessions, ClientCompletes(t)
      PROVE  /\ stripe' \in [Sessions -> StripeSessions]
             /\ \A s \in Sessions :
                  /\ stripe[s] # NotCreated => stripe'[s].req = stripe[s].req
                  /\ Completed(s) => stripe'[s] = stripe[s]
  <2>1. PICK p \in PaymentStatuses : stripe' = [stripe EXCEPT ![t].state = p]
    BY <1>5 DEF ClientCompletes
  <2> QED
    BY <1>1, <1>5, <2>1 DEF ClientCompletes, StripeSessions
<1>6. CASE UNCHANGED vars
  BY <1>2, <1>6 DEF vars, external
<1> QED
  BY <1>2, <1>3, <1>4, <1>5, <1>6, StripeSteps

\* Money that Stripe holds for a request stays with it.
LEMMA PaidForKept ==
  ASSUME ClientInv, [Next]_vars, NEW r \in Requests, PaidFor(r)
  PROVE  PaidFor(r)'
<1>1. PICK s \in Sessions : stripe[s].req = r /\ stripe[s].state = "paid"
  BY DEF PaidFor
<1>2. stripe'[s] = stripe[s]
  BY <1>1, SessionsKept DEF Completed, PaymentStatuses
<1> QED
  BY <1>1, <1>2 DEF PaidFor

\* The webhook writes paid from a paid session, and only a paid row is queued.
LEMMA PaidSeenStep == ClientInv /\ [Next]_vars => PaidSeen'
<1> SUFFICES ASSUME ClientInv, [Next]_vars PROVE PaidSeen'
  OBVIOUS
<1>1. \A r \in Requests : PaidFor(r) => PaidFor(r)'
  BY PaidForKept
<1>2. paymentStatus \in [Requests -> PaymentStatuses \cup {"UNPAID"}] /\ queueing \subseteq Requests
  BY DEF ClientInv, TypeOK, RequestTypes, EndpointTypes
<1>3. /\ \A r \in Requests : paymentStatus[r] = "paid" => PaidFor(r)
      /\ \A r \in queueing : PaidFor(r)
  BY DEF ClientInv, PaymentInv, PaidSeen
<1>4. CASE WebhookMark
  <2>1. event \in Sessions /\ found \in Requests /\ stripe[event].req = found
    BY <1>4 DEF WebhookMark, ClientInv, TypeOK, EndpointTypes, PaymentInv, SessionsMatch
  <2>2. paymentStatus'[found] = "paid" => PaidFor(found)
    BY <1>2, <1>4, <2>1 DEF WebhookMark, PaidFor
  <2>3. /\ \A r \in Requests : r # found => paymentStatus'[r] = paymentStatus[r]
        /\ queueing' = queueing
    BY <1>2, <1>4, <2>1 DEF WebhookMark, endpoints
  <2> QED
    BY <1>1, <1>2, <1>3, <2>1, <2>2, <2>3 DEF PaidSeen
<1>5. ASSUME NEW r \in Requests, JobRead(r) PROVE PaidSeen'
  <2>1. paymentStatus' = paymentStatus /\ queueing' = queueing \cup {r} /\ paymentStatus[r] = "paid"
    BY <1>5 DEF JobRead, requests
  <2> QED
    BY <1>1, <1>2, <1>3, <2>1 DEF PaidSeen
<1>6. CASE ~WebhookMark /\ \A r \in Requests : ~JobRead(r)
  <2>1. paymentStatus' = paymentStatus /\ queueing' \subseteq queueing
    BY <1>6 DEF Next, CreateRequest, QuoteRequest, JobInsert, ApproveRead, ApproveWrite,
         CheckoutRead, CheckoutCreate, CheckoutRefused, CheckoutRecord, ClientCompletes,
         Redelivered, WebhookLookup, WorkerStep, WorkerClaim, WorkerBuild,
         WorkerBuildRaises, WorkerFinish, WorkerDecide, WorkerAudit, WorkerFails,
         WorkerStoreRaises, WorkerFailRaises, EndpointRaises, Crash, vars, requests,
         endpoints
  <2> QED
    BY <1>1, <1>2, <1>3, <2>1 DEF PaidSeen
<1> QED
  BY <1>4, <1>5, <1>6

\* Steps that touch neither the recorded sessions, nor the reported completions,
\* nor the event in hand keep them matched.
LEMMA SessionsMatchStep == ClientInv /\ [Next]_vars => SessionsMatch'
<1> SUFFICES ASSUME ClientInv, [Next]_vars PROVE SessionsMatch'
  OBVIOUS
<1> USE ClientAssumption
<1>1. /\ session \in [Requests -> Sessions \cup {NoSession}]
      /\ pending \subseteq Sessions /\ event \in Sessions \cup {NoSession}
  BY DEF ClientInv, TypeOK, RequestTypes, ExternalTypes, EndpointTypes
<1>2. SessionsMatch
  BY DEF ClientInv, PaymentInv
<1>3. /\ \A r \in Requests, s \in Sessions : stripe[s].req = r => stripe'[s].req = r
      /\ \A s \in Sessions : Completed(s) => stripe'[s] = stripe[s] /\ Completed(s)'
  BY SessionsKept DEF NotCreated, Completed
<1>4. CASE UNCHANGED <<session, pending, event, found>>
  BY <1>1, <1>2, <1>3, <1>4 DEF SessionsMatch
<1>5. ASSUME NEW h \in Handlers, CheckoutRecord(h) PROVE SessionsMatch'
  <2>1. /\ hreq[h] \in Requests /\ hsession[h] \in Sessions
        /\ stripe[hsession[h]].req = hreq[h]
    BY <1>5 DEF CheckoutRecord, ClientInv, TypeOK, CheckoutTypes, PaymentInv, RecordsOwn
  <2>2. /\ session' = [session EXCEPT ![hreq[h]] = hsession[h]]
        /\ UNCHANGED <<pending, event, found>>
    BY <1>5 DEF CheckoutRecord, webhook
  <2> QED
    BY <1>1, <1>2, <1>3, <2>1, <2>2 DEF SessionsMatch
<1>6. ASSUME NEW s \in Sessions, ClientCompletes(s) PROVE SessionsMatch'
  <2>1. Completed(s)'
    BY <1>6 DEF ClientCompletes, Completed, ClientInv, TypeOK, ExternalTypes, StripeSessions
  <2>2. pending' = pending \cup {s} /\ UNCHANGED <<session, event, found>>
    BY <1>6 DEF ClientCompletes, requests, webhook
  <2> QED
    BY <1>1, <1>2, <1>3, <2>1, <2>2 DEF SessionsMatch
<1>7. ASSUME NEW s \in Sessions, Redelivered(s) PROVE SessionsMatch'
  <2>1. Completed(s) /\ pending' = pending \cup {s} /\ UNCHANGED <<session, event, found>>
    BY <1>7 DEF Redelivered, requests, webhook
  <2> QED
    BY <1>1, <1>2, <1>3, <2>1 DEF SessionsMatch
<1>8. ASSUME NEW s \in Sessions, WebhookLookup(s) PROVE SessionsMatch'
  <2>1. UNCHANGED <<session, stripe>> /\ s \in pending
    BY <1>8 DEF WebhookLookup, requests
  <2>2. CASE pending' = pending \ {s} /\ UNCHANGED webhook
    BY <1>1, <1>2, <1>3, <2>1, <2>2 DEF SessionsMatch, webhook
  <2>3. CASE found' \in {r \in Requests : session[r] = s} /\ event' = s /\ UNCHANGED pending
    BY <1>1, <1>2, <1>3, <2>1, <2>3 DEF SessionsMatch
  <2> QED
    BY <1>8, <2>2, <2>3 DEF WebhookLookup
<1>9. CASE WebhookMark
  <2>1. pending' \subseteq pending /\ event' = NoSession /\ UNCHANGED session
    BY <1>9 DEF WebhookMark
  <2> QED
    BY <1>1, <1>2, <1>3, <2>1 DEF SessionsMatch
<1>10. CASE EndpointRaises \/ Crash
  <2>1. /\ UNCHANGED <<session, pending>>
        /\ event' = NoSession \/ UNCHANGED <<event, found>>
    BY <1>10 DEF EndpointRaises, Crash, requests, external, webhook
  <2> QED
    BY <1>1, <1>2, <1>3, <2>1 DEF SessionsMatch
<1>11. CASE /\ \A h \in Handlers : ~CheckoutRecord(h)
            /\ \A s \in Sessions : ~(ClientCompletes(s) \/ Redelivered(s) \/ WebhookLookup(s))
            /\ ~(WebhookMark \/ EndpointRaises \/ Crash)
  BY <1>4, <1>11 DEF Next, CreateRequest, QuoteRequest, JobRead, JobInsert, ApproveRead,
       ApproveWrite, CheckoutRead, CheckoutCreate, CheckoutRefused, WorkerStep,
       WorkerClaim, WorkerBuild, WorkerBuildRaises, WorkerFinish, WorkerDecide, WorkerAudit,
       WorkerFails, WorkerStoreRaises, WorkerFailRaises, vars, requests, external, webhook
<1> QED
  BY <1>5, <1>6, <1>7, <1>8, <1>9, <1>10, <1>11

\* A session that a handler is about to record is changed by nobody else.
LEMMA RecordsOwnStep == ClientInv /\ [Next]_vars => RecordsOwn'
<1> SUFFICES ASSUME ClientInv, [Next]_vars PROVE RecordsOwn'
  OBVIOUS
<1>1. /\ hpc \in [Handlers -> {"idle", "create", "record"}]
      /\ hreq \in [Handlers -> Requests \cup {NoRequest}]
      /\ hsession \in [Handlers -> Sessions \cup {NoSession}]
      /\ \A h \in Handlers : hpc[h] = "record" => hsession[h] \in Sessions
      /\ stripe \in [Sessions -> StripeSessions]
  BY DEF ClientInv, TypeOK, CheckoutTypes, ExternalTypes
<1>2. RecordsOwn
  BY DEF ClientInv, PaymentInv
<1>3. CASE UNCHANGED <<stripe, hpc, hreq, hsession>>
  BY <1>2, <1>3 DEF RecordsOwn
<1>4. ASSUME NEW h \in Handlers, NEW r \in Requests, CheckoutRead(h, r) PROVE RecordsOwn'
  BY <1>1, <1>2, <1>4 DEF CheckoutRead, RecordsOwn, external
<1>5. ASSUME NEW h \in Handlers, CheckoutCreate(h) PROVE RecordsOwn'
  <2>1. PICK s \in Sessions :
          /\ stripe[s] = NotCreated
          /\ stripe' = [stripe EXCEPT ![s] =
                          [req |-> hreq[h], amount |-> hquote[h], state |-> "created"]]
          /\ hsession' = [hsession EXCEPT ![h] = s]
    BY <1>5 DEF CheckoutCreate
  <2>2. hpc' = [hpc EXCEPT ![h] = "record"] /\ hreq' = hreq
    BY <1>5 DEF CheckoutCreate
  <2>3. \A k \in Handlers : hpc[k] = "record" => hsession[k] # s
    BY <1>2, <2>1 DEF RecordsOwn, NotCreated
  <2> QED
    BY <1>1, <1>2, <2>1, <2>2, <2>3 DEF RecordsOwn
<1>6. ASSUME NEW h \in Handlers, CheckoutRefused(h) PROVE RecordsOwn'
  BY <1>1, <1>2, <1>6 DEF CheckoutRefused, HandlerReturns, RecordsOwn, external
<1>7. ASSUME NEW h \in Handlers, CheckoutRecord(h) PROVE RecordsOwn'
  <2>1. /\ hsession[h] \in Sessions /\ hpc[h] = "record"
        /\ \A s \in Sessions : s # hsession[h] => stripe'[s] = stripe[s]
    BY <1>1, <1>7 DEF CheckoutRecord
  <2>2. /\ hpc'[h] = "idle"
        /\ \A k \in Handlers : k # h => /\ hpc'[k] = hpc[k] /\ hreq'[k] = hreq[k]
                                        /\ hsession'[k] = hsession[k]
    BY <1>1, <1>7 DEF CheckoutRecord, HandlerReturns
  <2> QED
    BY <1>1, <1>2, <2>1, <2>2 DEF RecordsOwn
<1>8. ASSUME NEW t \in Sessions, ClientCompletes(t) PROVE RecordsOwn'
  <2>1. /\ stripe[t].state = "open" /\ UNCHANGED <<hpc, hreq, hsession>>
        /\ \A s \in Sessions : s # t => stripe'[s] = stripe[s]
    BY <1>1, <1>8 DEF ClientCompletes, checkout
  <2>2. \A k \in Handlers : hpc[k] = "record" => hsession[k] # t
    BY <1>2, <2>1 DEF RecordsOwn
  <2> QED
    BY <1>1, <1>2, <2>1, <2>2 DEF RecordsOwn
<1>9. CASE EndpointRaises
  <2>1. CASE \E h \in Handlers : hpc[h] = "record" /\ HandlerReturns(h)
    BY <1>1, <1>2, <1>9, <2>1 DEF EndpointRaises, HandlerReturns, RecordsOwn, external
  <2>2. CASE UNCHANGED checkout
    BY <1>3, <1>9, <2>2 DEF EndpointRaises, checkout, external
  <2> QED
    BY <1>9, <2>1, <2>2 DEF EndpointRaises
<1>10. CASE Crash
  BY <1>10 DEF Crash, RecordsOwn
<1>11. CASE /\ \A h \in Handlers : ~(CheckoutCreate(h) \/ CheckoutRefused(h) \/ CheckoutRecord(h))
            /\ \A h \in Handlers, r \in Requests : ~CheckoutRead(h, r)
            /\ \A s \in Sessions : ~ClientCompletes(s)
            /\ ~(EndpointRaises \/ Crash)
  BY <1>3, <1>11 DEF Next, CreateRequest, QuoteRequest, JobRead, JobInsert, ApproveRead,
       ApproveWrite, Redelivered, WebhookLookup, WebhookMark, WorkerStep, WorkerClaim,
       WorkerBuild, WorkerBuildRaises, WorkerFinish, WorkerDecide, WorkerAudit, WorkerFails,
       WorkerStoreRaises, WorkerFailRaises, vars, external, checkout
<1> QED
  BY <1>4, <1>5, <1>6, <1>7, <1>8, <1>9, <1>10, <1>11

\* Only JobInsert gives a request a job; every other step of a job needs one.
LEMMA JobsStay ==
  ASSUME ClientInv, [Next]_vars, ~ \E r \in Requests : JobInsert(r)
  PROVE  \A r \in Requests : jobStatus'[r] # "NONE" => jobStatus[r] # "NONE"
<1>1. /\ jobStatus \in [Requests -> JobStatuses]
      /\ \A r \in approving : jobStatus[r] # "NONE"
      /\ wpc \notin {"idle", "dead"} => jobStatus[wjob] # "NONE"
  BY DEF ClientInv, TypeOK, JobTypes, JobInv
<1>2. ASSUME NEW r \in Requests, ApproveWrite(r)
      PROVE  \A q \in Requests : jobStatus'[q] # "NONE" => jobStatus[q] # "NONE"
  BY <1>1, <1>2 DEF ApproveWrite
<1>3. CASE WorkerStep \/ WorkerStoreRaises \/ WorkerFailRaises
  BY <1>1, <1>3 DEF WorkerStep, WorkerClaim, WorkerBuild, WorkerBuildRaises, WorkerFinish,
       WorkerDecide, WorkerAudit, WorkerFails, WorkerStoreRaises, WorkerFailRaises, jobs
<1>4. CASE /\ \A r \in Requests : ~ApproveWrite(r)
           /\ ~(WorkerStep \/ WorkerStoreRaises \/ WorkerFailRaises)
  BY <1>4 DEF Next, CreateRequest, QuoteRequest, JobRead, ApproveRead, CheckoutRead,
       CheckoutCreate, CheckoutRefused, CheckoutRecord, ClientCompletes, Redelivered,
       WebhookLookup, WebhookMark, EndpointRaises, Crash, vars, jobs
<1> QED
  BY <1>2, <1>3, <1>4

\* The webhook marks PAID on a completion of the request's own session; a job is
\* inserted by a thread that saw the payment.
LEMMA PaymentIsProvenStep == ClientInv /\ [Next]_vars => PaymentIsProven'
<1> SUFFICES ASSUME ClientInv, [Next]_vars PROVE PaymentIsProven'
  OBVIOUS
<1> DEFINE Done(r) == \E s \in Sessions : stripe[s].req = r /\ Completed(s)
<1>1. /\ status \in [Requests -> {"ABSENT", "NEW", "QUOTED", "CHECKOUT_READY", "PAID"}]
      /\ jobStatus \in [Requests -> JobStatuses]
  BY DEF ClientInv, TypeOK, RequestTypes, JobTypes
<1>2. \A r \in Requests : PaidFor(r) => PaidFor(r)'
  BY PaidForKept
<1>3. \A r \in Requests : Done(r) => Done(r)'
  BY SessionsKept DEF Completed
<1>4. \A r \in Requests : (status[r] = "PAID" => Done(r)) /\ (jobStatus[r] # "NONE" => PaidFor(r))
  BY DEF ClientInv, PaymentInv, PaymentIsProven, PaidFor
<1> HIDE DEF Done
<1>5. \A r \in Requests : status'[r] = "PAID" => Done(r)'
  <2>1. CASE WebhookMark
    <3>1. found \in Requests /\ Done(found)
      BY <2>1 DEF WebhookMark, ClientInv, TypeOK, EndpointTypes, PaymentInv, SessionsMatch, Done
    <3> QED
      BY <1>1, <1>3, <1>4, <2>1, <3>1 DEF WebhookMark
  <2>2. CASE ~WebhookMark
    <3>1. \A r \in Requests : status'[r] = "PAID" => status[r] = "PAID"
      <4>1. ASSUME NEW r \in Requests, CreateRequest(r) \/ QuoteRequest(r)
            PROVE  \A q \in Requests : status'[q] = "PAID" => status[q] = "PAID"
        BY <1>1, <4>1 DEF CreateRequest, QuoteRequest
      <4>2. ASSUME NEW h \in Handlers, CheckoutRecord(h)
            PROVE  \A q \in Requests : status'[q] = "PAID" => status[q] = "PAID"
        BY <1>1, <4>2 DEF CheckoutRecord
      <4>3. CASE /\ \A r \in Requests : ~(CreateRequest(r) \/ QuoteRequest(r))
                 /\ \A h \in Handlers : ~CheckoutRecord(h)
        BY <2>2, <4>3 DEF Next, JobRead, JobInsert, ApproveRead, ApproveWrite, CheckoutRead,
             CheckoutCreate, CheckoutRefused, ClientCompletes, Redelivered, WebhookLookup,
             WorkerStep, WorkerClaim, WorkerBuild, WorkerBuildRaises, WorkerFinish,
             WorkerDecide, WorkerAudit, WorkerFails, WorkerStoreRaises, WorkerFailRaises,
             EndpointRaises, Crash, vars, requests
      <4> QED
        BY <4>1, <4>2, <4>3
    <3> QED
      BY <1>3, <1>4, <3>1
  <2> QED
    BY <2>1, <2>2
<1>6. \A r \in Requests : jobStatus'[r] # "NONE" => PaidFor(r)'
  <2>1. CASE \E r \in Requests : JobInsert(r)
    <3>1. PICK r \in Requests : JobInsert(r)
      BY <2>1
    <3>2. PaidFor(r)
      BY <3>1 DEF JobInsert, ClientInv, PaymentInv, PaidSeen
    <3> QED
      BY <1>1, <1>2, <1>4, <3>1, <3>2 DEF JobInsert
  <2>2. CASE ~ \E r \in Requests : JobInsert(r)
    BY <1>2, <1>4, <2>2, JobsStay
  <2> QED
    BY <2>1, <2>2
<1> QED
  BY <1>5, <1>6 DEF PaymentIsProven, PaidFor, Done

\* Steps that leave the jobs, the worker and the approvals alone.
LEMMA JobInvElsewhere ==
  ASSUME ClientInv, UNCHANGED <<jobStatus, evidence, worker>>, approving' \subseteq approving
  PROVE  JobInv'
BY DEF ClientInv, JobInv, ReviewedWorkPassed, worker

\* JobInv is kept: the worker and Daniel never hold a job at the same time.
LEMMA JobInvStep == ClientInv /\ [Next]_vars => JobInv'
<1> SUFFICES ASSUME ClientInv, [Next]_vars PROVE JobInv'
  OBVIOUS
<1>1. /\ jobStatus \in [Requests -> JobStatuses]
      /\ evidence \in [Requests -> Verdicts \cup {"NONE"}]
      /\ approving \subseteq Requests
      /\ wpc \in WorkerPCs
      /\ wpc \notin {"idle", "dead"} => wjob \in Requests
  BY DEF ClientInv, TypeOK, JobTypes, EndpointTypes, WorkerTypes
<1>2. JobInv
  BY DEF ClientInv
<1>3. ASSUME NEW r \in Requests, JobInsert(r) PROVE JobInv'
  <2>1. CASE jobStatus' = jobStatus
    BY <1>3, <2>1, JobInvElsewhere DEF JobInsert
  <2>2. CASE jobStatus[r] = "NONE" /\ jobStatus' = [jobStatus EXCEPT ![r] = "QUEUED"]
    <3>1. UNCHANGED <<evidence, approving, wpc, wjob>>
      BY <1>3 DEF JobInsert, worker
    <3> QED
      BY <1>1, <1>2, <2>2, <3>1 DEF JobInv, ReviewedWorkPassed, WorkerPCs
  <2> QED
    BY <1>3, <2>1, <2>2 DEF JobInsert
<1>4. ASSUME NEW r \in Requests, ApproveRead(r) PROVE JobInv'
  BY <1>1, <1>2, <1>4 DEF ApproveRead, JobInv, ReviewedWorkPassed, jobs, worker
<1>5. ASSUME NEW r \in Requests, ApproveWrite(r) PROVE JobInv'
  BY <1>1, <1>2, <1>5 DEF ApproveWrite, JobInv, ReviewedWorkPassed, worker
<1>6. CASE WorkerClaim
  <2>1. PICK r \in Requests : /\ jobStatus[r] = "QUEUED" /\ wjob' = r
                              /\ jobStatus' = [jobStatus EXCEPT ![r] = "BUILDING"]
    BY <1>6 DEF WorkerClaim
  <2>2. wpc' = "build" /\ UNCHANGED <<evidence, approving>>
    BY <1>6 DEF WorkerClaim, endpoints
  <2> QED
    BY <1>1, <1>2, <2>1, <2>2 DEF JobInv, ReviewedWorkPassed
<1>7. CASE WorkerBuild \/ WorkerBuildRaises \/ WorkerDecide \/ WorkerAudit \/ WorkerStoreRaises
  BY <1>1, <1>2, <1>7 DEF WorkerBuild, WorkerBuildRaises, WorkerDecide, WorkerAudit,
       WorkerStoreRaises, WorkerReturns, JobInv, ReviewedWorkPassed, jobs, endpoints
<1>8. CASE WorkerFinish
  BY <1>1, <1>2, <1>8 DEF WorkerFinish, JobInv, ReviewedWorkPassed, endpoints
<1>9. CASE WorkerFails \/ WorkerFailRaises
  BY <1>1, <1>2, <1>9 DEF WorkerFails, WorkerFailRaises, WorkerReturns, JobInv,
       ReviewedWorkPassed, endpoints
<1>10. CASE EndpointRaises
  BY <1>10, JobInvElsewhere DEF EndpointRaises, jobs, endpoints
<1>11. CASE Crash
  BY <1>1, <1>2, <1>11 DEF Crash, JobInv, ReviewedWorkPassed, WorkerReturns, jobs
<1>12. CASE /\ \A r \in Requests : ~(JobInsert(r) \/ ApproveRead(r) \/ ApproveWrite(r))
            /\ ~(WorkerStep \/ WorkerStoreRaises \/ WorkerFailRaises \/ EndpointRaises \/ Crash)
  BY <1>12, JobInvElsewhere DEF Next, CreateRequest, QuoteRequest, JobRead, CheckoutRead,
       CheckoutCreate, CheckoutRefused, CheckoutRecord, ClientCompletes, Redelivered,
       WebhookLookup, WebhookMark, vars, jobs, endpoints
<1> QED
  BY <1>3, <1>4, <1>5, <1>6, <1>7, <1>8, <1>9, <1>10, <1>11, <1>12 DEF WorkerStep

-----------------------------------------------------------------------------
(* The theorems.                                                           *)

\* The types are kept by every step.
LEMMA TypeStep == ClientInv /\ [Next]_vars => TypeOK'
<1> SUFFICES ASSUME ClientInv, [Next]_vars PROVE TypeOK'
  OBVIOUS
<1>1. TypeOK /\ (event # NoSession => Completed(event))
  BY DEF ClientInv, PaymentInv, SessionsMatch
<1>2. ASSUME NEW r \in Requests,
             CreateRequest(r) \/ QuoteRequest(r) \/ JobRead(r) \/ JobInsert(r)
               \/ ApproveRead(r) \/ ApproveWrite(r)
      PROVE  TypeOK'
  BY <1>1, <1>2, RequestStepTypes
<1>3. ASSUME NEW h \in Handlers,
             \/ \E r \in Requests : CheckoutRead(h, r)
             \/ CheckoutCreate(h) \/ CheckoutRefused(h) \/ CheckoutRecord(h)
      PROVE  TypeOK'
  BY <1>1, <1>3, CheckoutStepTypes
<1>4. ASSUME NEW s \in Sessions, ClientCompletes(s) \/ Redelivered(s) \/ WebhookLookup(s)
      PROVE  TypeOK'
  BY <1>1, <1>4, StripeStepTypes
<1>5. CASE WebhookMark
  <2>1. event \in Sessions
    BY <1>1, <1>5 DEF WebhookMark, TypeOK, EndpointTypes
  <2> QED
    BY <1>1, <1>5, <2>1, StripeStepTypes
<1>6. CASE WorkerStep \/ WorkerStoreRaises \/ WorkerFailRaises
  BY <1>1, <1>6, WorkerStepTypes
<1>7. CASE EndpointRaises \/ Crash \/ UNCHANGED vars
  BY <1>1, <1>7, FaultTypes
<1> QED
  BY <1>2, <1>3, <1>4, <1>5, <1>6, <1>7 DEF Next

\* ClientInv holds at first and is kept by every step.
LEMMA ClientInvHolds == Spec => []ClientInv
<1>1. Init => ClientInv
  <2> SUFFICES ASSUME Init PROVE ClientInv
    OBVIOUS
  <2>1. TypeOK
    BY ClientAssumption DEF Init, TypeOK, RequestTypes, JobTypes, ExternalTypes, CheckoutTypes,
         EndpointTypes, WorkerTypes, EnvTypes, JobStatuses, StripeSessions, NotCreated,
         WorkerPCs
  <2>2. PaymentInv
    BY DEF Init, PaymentInv, PaymentIsProven, SessionsMatch, PaidSeen, RecordsOwn
  <2>3. JobInv
    BY DEF Init, JobInv, ReviewedWorkPassed
  <2> QED
    BY <2>1, <2>2, <2>3 DEF ClientInv
<1>2. ClientInv /\ [Next]_vars => ClientInv'
  BY TypeStep, PaymentIsProvenStep, SessionsMatchStep, PaidSeenStep, RecordsOwnStep,
     JobInvStep DEF ClientInv, PaymentInv
<1> QED
  BY <1>1, <1>2, PTL DEF Spec

\* Every row, session and local keeps its type, for any number of requests,
\* sessions and concurrent checkouts.
THEOREM TypeCorrect == Spec => []TypeOK
<1>1. ClientInv => TypeOK
  BY DEF ClientInv
<1> QED
  BY <1>1, ClientInvHolds, PTL

\* No request is PAID without a completed session of its own, and none has a job
\* without one for which Stripe holds the money.
THEOREM PaymentProven == Spec => []PaymentIsProven
<1>1. ClientInv => PaymentIsProven
  BY DEF ClientInv, PaymentInv
<1> QED
  BY <1>1, ClientInvHolds, PTL

\* A job that awaits or has Daniel's approval passed its last sandbox run.
THEOREM ReviewSound == Spec => []ReviewedWorkPassed
<1>1. ClientInv => ReviewedWorkPassed
  BY DEF ClientInv, JobInv
<1> QED
  BY <1>1, ClientInvHolds, PTL

-----------------------------------------------------------------------------
(* The decision behind a review.                                           *)

\* Once the worker turns to the audit its decision is on record, and between two
\* jobs it holds none.
DecidedInv ==
  /\ ReviewIsDecided
  /\ wpc = "audit" => \E d \in decisions : d.job = wjob /\ d.action = "package_for_review"
  /\ wpc = "idle" => wjob = NoRequest

\* Steps that leave the jobs and the worker alone.
LEMMA DecidedElsewhere ==
  ASSUME DecidedInv, UNCHANGED <<jobStatus, decisions, worker, crashes>>
  PROVE  DecidedInv'
BY DEF DecidedInv, ReviewIsDecided, worker

\* Every step keeps it: only the worker brings a job to review, and it leaves the
\* job decided, blocked, or by its own end.
LEMMA DecidedStep == TypeOK /\ DecidedInv /\ [Next]_vars => DecidedInv'
<1> SUFFICES ASSUME TypeOK, DecidedInv, [Next]_vars PROVE DecidedInv'
  OBVIOUS
<1>1. /\ jobStatus \in [Requests -> JobStatuses]
      /\ wpc \in WorkerPCs
      /\ wpc \notin {"idle", "dead"} => wjob \in Requests
      /\ NoRequest \notin Requests /\ crashes \in Nat
  BY ClientAssumption DEF TypeOK, JobTypes, WorkerTypes, EnvTypes
<1>2. ASSUME NEW r \in Requests, JobInsert(r) \/ ApproveWrite(r) PROVE DecidedInv'
  <2>1. /\ UNCHANGED <<decisions, wpc, wjob, crashes>>
        /\ \A q \in Requests : jobStatus'[q] = "AWAITING_DELIVERY_REVIEW"
                                 => jobStatus[q] = "AWAITING_DELIVERY_REVIEW"
    BY <1>1, <1>2 DEF JobInsert, ApproveWrite, worker, env
  <2> QED
    BY <2>1 DEF DecidedInv, ReviewIsDecided
<1>3. CASE WorkerClaim
  <2>1. PICK r \in Requests : wjob' = r /\ jobStatus' = [jobStatus EXCEPT ![r] = "BUILDING"]
    BY <1>3 DEF WorkerClaim
  <2>2. wpc = "idle" /\ wpc' = "build" /\ UNCHANGED <<decisions, crashes>>
    BY <1>3 DEF WorkerClaim, env
  <2> QED
    BY <1>1, <2>1, <2>2 DEF DecidedInv, ReviewIsDecided
<1>4. CASE WorkerBuild \/ WorkerBuildRaises
  BY <1>4 DEF WorkerBuild, WorkerBuildRaises, DecidedInv, ReviewIsDecided, jobs, env
<1>5. CASE WorkerFinish
  BY <1>1, <1>5 DEF WorkerFinish, DecidedInv, ReviewIsDecided, env
<1>6. CASE WorkerDecide
  <2>1. PICK outcome \in PackagingOutcomes(wverdict) :
          decisions' = decisions \cup {Decision(wjob, "package_for_review", outcome)}
    BY <1>6 DEF WorkerDecide
  <2>2. \E d \in decisions' : d.job = wjob /\ d.action = "package_for_review"
    <3>1. Decision(wjob, "package_for_review", outcome) \in decisions'
      BY <2>1
    <3>2. /\ Decision(wjob, "package_for_review", outcome).job = wjob
          /\ Decision(wjob, "package_for_review", outcome).action = "package_for_review"
      BY DEF Decision
    <3> QED
      BY <3>1, <3>2
  <2>3. wpc' = "audit" /\ wpc = "decide" /\ decisions \subseteq decisions'
        /\ UNCHANGED <<jobStatus, wjob, crashes>>
    BY <1>6, <2>1 DEF WorkerDecide, env
  <2> QED
    BY <2>2, <2>3 DEF DecidedInv, ReviewIsDecided
<1>7. CASE WorkerAudit
  BY <1>7 DEF WorkerAudit, WorkerReturns, DecidedInv, ReviewIsDecided, jobs, env
<1>8. CASE WorkerStoreRaises
  BY <1>8 DEF WorkerStoreRaises, DecidedInv, ReviewIsDecided, jobs
<1>9. CASE WorkerFails
  BY <1>1, <1>9 DEF WorkerFails, WorkerReturns, DecidedInv, ReviewIsDecided, env
<1>10. CASE WorkerFailRaises
  BY <1>10 DEF WorkerFailRaises, DecidedInv, ReviewIsDecided
<1>11. CASE Crash
  BY <1>1, <1>11 DEF Crash, WorkerReturns, DecidedInv, ReviewIsDecided
<1>12. CASE /\ \A r \in Requests : ~(JobInsert(r) \/ ApproveWrite(r))
            /\ ~(WorkerStep \/ WorkerStoreRaises \/ WorkerFailRaises \/ Crash)
  <2>1. UNCHANGED <<jobStatus, decisions, worker, crashes>>
    BY <1>12 DEF Next, CreateRequest, QuoteRequest, JobRead, ApproveRead, CheckoutRead,
         CheckoutCreate, CheckoutRefused, CheckoutRecord, ClientCompletes, Redelivered,
         WebhookLookup, WebhookMark, EndpointRaises, vars, jobs, env
  <2> QED
    BY <2>1, DecidedElsewhere
<1> QED
  BY <1>2, <1>3, <1>4, <1>5, <1>6, <1>7, <1>8, <1>9, <1>10, <1>11, <1>12 DEF WorkerStep

\* A job awaits review with the decision on its packaging on record, or the worker
\* is still at it or was killed, for any number of requests, faults and approvals.
THEOREM ReviewDecided == Spec => []ReviewIsDecided
<1>1. Init => DecidedInv
  BY DEF Init, DecidedInv, ReviewIsDecided
<1>2. TypeOK /\ DecidedInv /\ [Next]_vars => DecidedInv'
  BY DecidedStep
<1>3. DecidedInv => ReviewIsDecided
  BY DEF DecidedInv
<1> QED
  BY <1>1, <1>2, <1>3, TypeCorrect, PTL DEF Spec

-----------------------------------------------------------------------------
(* The contract.                                                           *)

\* The mapped state of Contract: what Stripe holds, and what the worker recorded.
PaidRequests == {r \in Requests : \E s \in Sessions :
                   stripe[s].req = r /\ stripe[s].state = "paid"}
PassedRequests == {r \in Requests : evidence[r] = "PASSED"}

\* Only the three steps of a job's life, its approval and its failure change what
\* the contract sees of the work; the rest may at most add a payment.
LEMMA WorkSteps ==
  ASSUME [Next]_vars,
         \A r \in Requests : ~JobInsert(r) /\ ~ApproveWrite(r),
         ~(WorkerClaim \/ WorkerFinish \/ WorkerFails \/ WorkerFailRaises)
  PROVE  UNCHANGED <<jobStatus, evidence>>
BY DEF Next, CreateRequest, QuoteRequest, JobRead, ApproveRead, CheckoutRead, CheckoutCreate,
     CheckoutRefused, CheckoutRecord, ClientCompletes, Redelivered, WebhookLookup,
     WebhookMark, WorkerStep, WorkerBuild, WorkerBuildRaises, WorkerDecide, WorkerAudit,
     WorkerStoreRaises, EndpointRaises, Crash, vars, jobs

\* Only the completion of a session can change what Stripe holds, and it adds the
\* session's request or nothing.
LEMMA PaidStep ==
  ASSUME ClientInv, [Next]_vars
  PROVE  \/ UNCHANGED PaidRequests
         \/ \E r \in Requests : /\ PaidRequests' = PaidRequests \cup {r}
                                /\ UNCHANGED <<jobStatus, evidence>>
<1>1. stripe \in [Sessions -> StripeSessions]
  BY DEF ClientInv, TypeOK, ExternalTypes
<1>2. CASE UNCHANGED stripe
  BY <1>2 DEF PaidRequests
<1>3. ASSUME NEW h \in Handlers, CheckoutCreate(h)
      PROVE  UNCHANGED PaidRequests
  <2>1. PICK s \in Sessions :
          /\ stripe[s] = NotCreated
          /\ stripe' = [stripe EXCEPT ![s] =
                          [req |-> hreq[h], amount |-> hquote[h], state |-> "created"]]
    BY <1>3 DEF CheckoutCreate
  <2>2. stripe'[s].state = "created" /\ stripe[s].state = "none"
    BY <1>1, <2>1 DEF NotCreated
  <2>3. \A t \in Sessions : t # s => stripe'[t] = stripe[t]
    BY <1>1, <2>1
  <2> QED
    BY <2>2, <2>3 DEF PaidRequests
<1>4. ASSUME NEW h \in Handlers, CheckoutRecord(h)
      PROVE  UNCHANGED PaidRequests
  <2>1. /\ hsession[h] \in Sessions /\ stripe[hsession[h]].state = "created"
        /\ stripe' = [stripe EXCEPT ![hsession[h]].state = "open"]
    BY <1>4 DEF CheckoutRecord, ClientInv, TypeOK, CheckoutTypes, PaymentInv, RecordsOwn
  <2>2. stripe'[hsession[h]].state = "open"
    BY <1>1, <2>1 DEF StripeSessions
  <2>3. \A t \in Sessions : t # hsession[h] => stripe'[t] = stripe[t]
    BY <1>1, <2>1
  <2> QED
    BY <2>1, <2>2, <2>3 DEF PaidRequests
<1>5. ASSUME NEW s \in Sessions, ClientCompletes(s)
      PROVE  \/ UNCHANGED PaidRequests
             \/ \E r \in Requests : /\ PaidRequests' = PaidRequests \cup {r}
                                    /\ UNCHANGED <<jobStatus, evidence>>
  <2>1. PICK p \in PaymentStatuses : stripe' = [stripe EXCEPT ![s].state = p]
    BY <1>5 DEF ClientCompletes
  <2>2. /\ stripe[s].state = "open" /\ UNCHANGED <<jobStatus, evidence>>
    BY <1>5 DEF ClientCompletes, jobs
  <2>3. stripe'[s].state = p /\ stripe'[s].req = stripe[s].req
    BY <1>1, <2>1 DEF StripeSessions
  <2>4. \A t \in Sessions : t # s => stripe'[t] = stripe[t]
    BY <1>1, <2>1
  <2>5. CASE p = "paid" /\ stripe[s].req \in Requests
    <3>1. PaidRequests' = PaidRequests \cup {stripe[s].req}
      BY <2>2, <2>3, <2>4, <2>5 DEF PaidRequests
    <3> QED
      BY <2>2, <2>5, <3>1
  <2>6. CASE p # "paid" \/ stripe[s].req \notin Requests
    BY <2>2, <2>3, <2>4, <2>6 DEF PaidRequests
  <2> QED
    BY <2>5, <2>6
<1>6. CASE UNCHANGED vars
  BY <1>2, <1>6 DEF vars, external
<1> QED
  BY <1>2, <1>3, <1>4, <1>5, <1>6, StripeSteps

\* A job that has not been built has no evidence, so a build that fails takes back
\* no passed run.
NoEvidenceBeforeBuild ==
  \A r \in Requests : jobStatus[r] \in {"NONE", "QUEUED", "BUILDING"} => evidence[r] = "NONE"

LEMMA NoEvidenceStep ==
  ASSUME ClientInv, NoEvidenceBeforeBuild, [Next]_vars
  PROVE  NoEvidenceBeforeBuild'
<1>1. /\ jobStatus \in [Requests -> JobStatuses]
      /\ evidence \in [Requests -> Verdicts \cup {"NONE"}]
      /\ wpc \notin {"idle", "dead"} => wjob \in Requests
  BY DEF ClientInv, TypeOK, JobTypes, WorkerTypes
<1>2. ASSUME NEW r \in Requests, JobInsert(r) PROVE NoEvidenceBeforeBuild'
  BY <1>1, <1>2 DEF JobInsert, NoEvidenceBeforeBuild
<1>3. ASSUME NEW r \in Requests, ApproveWrite(r) PROVE NoEvidenceBeforeBuild'
  BY <1>1, <1>3 DEF ApproveWrite, NoEvidenceBeforeBuild
<1>4. CASE WorkerClaim
  BY <1>1, <1>4 DEF WorkerClaim, NoEvidenceBeforeBuild
<1>5. CASE WorkerFinish
  BY <1>1, <1>5 DEF WorkerFinish, NoEvidenceBeforeBuild
<1>6. CASE WorkerFails \/ WorkerFailRaises
  BY <1>1, <1>6 DEF WorkerFails, WorkerFailRaises, NoEvidenceBeforeBuild
<1>7. CASE /\ \A r \in Requests : ~JobInsert(r) /\ ~ApproveWrite(r)
           /\ ~(WorkerClaim \/ WorkerFinish \/ WorkerFails \/ WorkerFailRaises)
  BY <1>7, WorkSteps DEF NoEvidenceBeforeBuild
<1> QED
  BY <1>2, <1>3, <1>4, <1>5, <1>6, <1>7

\* The steps that change what the contract sees of the work leave Stripe alone.
LEMMA WorkOfJob ==
  ASSUME ClientInv, NoEvidenceBeforeBuild,
         \/ \E r \in Requests : JobInsert(r) \/ ApproveWrite(r)
         \/ WorkerClaim \/ WorkerFinish \/ WorkerFails \/ WorkerFailRaises
  PROVE  [Contract!Next]_(Contract!contract)
<1> DEFINE Paid == {r \in Requests : \E s \in Sessions :
                      stripe[s].req = r /\ stripe[s].state = "paid"}
           Passed == {r \in Requests : evidence[r] = "PASSED"}
<1>1. /\ jobStatus \in [Requests -> JobStatuses]
      /\ evidence \in [Requests -> Verdicts \cup {"NONE"}]
      /\ approving \subseteq Requests /\ queueing \subseteq Requests
      /\ wpc \notin {"idle", "dead"} => wjob \in Requests
  BY DEF ClientInv, TypeOK, JobTypes, EndpointTypes, WorkerTypes
<1>2. stripe' = stripe /\ Paid' = Paid
  BY DEF JobInsert, ApproveWrite, WorkerClaim, WorkerFinish, WorkerFails, WorkerFailRaises,
       external
<1>3. \A r \in queueing : r \in Paid
  BY <1>1 DEF ClientInv, PaymentInv, PaidSeen, PaidFor
<1> HIDE DEF Paid
<1>4. ASSUME NEW r \in Requests, JobInsert(r)
      PROVE  Contract!Queue(r) \/ UNCHANGED <<Paid, jobStatus, Passed>>
  BY <1>1, <1>2, <1>3, <1>4 DEF JobInsert, Contract!Queue, Contract!Move, Paid
<1>5. ASSUME NEW r \in Requests, ApproveWrite(r) PROVE Contract!Approve(r)
  <2>1. r \in Passed /\ jobStatus[r] \in JobStatuses \ {"NONE", "QUEUED", "BUILDING"}
    BY <1>1, <1>5 DEF ApproveWrite, ClientInv, JobInv
  <2>2. jobStatus' = [jobStatus EXCEPT ![r] = "DANIEL_APPROVED_FOR_DELIVERY"] /\ evidence' = evidence
    BY <1>5 DEF ApproveWrite
  <2> QED
    BY <1>2, <2>1, <2>2 DEF Contract!Approve, Contract!Move, Contract!Built, JobStatuses, Paid
<1>6. CASE WorkerClaim
  <2>1. PICK r \in Requests : /\ jobStatus[r] = "QUEUED"
                              /\ jobStatus' = [jobStatus EXCEPT ![r] = "BUILDING"]
    BY <1>6 DEF WorkerClaim
  <2>2. evidence' = evidence
    BY <1>6 DEF WorkerClaim
  <2>3. Contract!Build(r)
    BY <1>2, <2>1, <2>2 DEF Contract!Build, Contract!Move, Paid
  <2> QED
    BY <2>3 DEF Contract!Next
<1>7. CASE WorkerFinish
  <2>1. /\ wjob \in Requests /\ jobStatus[wjob] = "BUILDING"
        /\ evidence' = [evidence EXCEPT ![wjob] = wverdict]
        /\ jobStatus' = [jobStatus EXCEPT ![wjob] =
                           IF wverdict = "PASSED" THEN "AWAITING_DELIVERY_REVIEW"
                                                  ELSE "TESTS_FAILED"]
    BY <1>1, <1>7 DEF WorkerFinish, ClientInv, JobInv
  <2>2. CASE wverdict = "PASSED"
    <3>1. Passed' = Passed \cup {wjob}
      BY <1>1, <2>1, <2>2
    <3>2. Contract!Deliver(wjob)
      BY <1>2, <2>1, <2>2, <3>1 DEF Contract!Deliver, Contract!Move, Paid
    <3>3. \E r \in Requests : Contract!Deliver(r)
      BY <2>1, <3>2 DEF Contract!Deliver, Contract!Move
    <3> QED
      BY <3>3 DEF Contract!Next
  <2>3. CASE wverdict # "PASSED"
    <3>1. evidence[wjob] # "PASSED"
      BY <2>1 DEF NoEvidenceBeforeBuild
    <3>2. Passed' = Passed
      BY <1>1, <2>1, <2>3, <3>1
    <3>3. Contract!Reject(wjob)
      BY <1>2, <2>1, <2>3, <3>2 DEF Contract!Reject, Contract!Move, Paid
    <3> QED
      BY <2>1, <3>3 DEF Contract!Next
  <2> QED
    BY <2>2, <2>3
<1>8. CASE WorkerFails \/ WorkerFailRaises
  <2>1. /\ wjob \in Requests /\ jobStatus[wjob] \in JobStatuses \ {"NONE", "QUEUED"}
        /\ evidence' = evidence
        /\ jobStatus' = jobStatus \/ jobStatus' = [jobStatus EXCEPT ![wjob] = "BLOCKED"]
    BY <1>1, <1>8 DEF WorkerFails, WorkerFailRaises, ClientInv, JobInv
  <2>2. CASE jobStatus' = jobStatus
    BY <1>2, <2>1, <2>2 DEF Contract!contract, Paid
  <2>3. CASE jobStatus' = [jobStatus EXCEPT ![wjob] = "BLOCKED"]
    <3>1. Contract!Block(wjob)
      BY <1>2, <2>1, <2>3 DEF Contract!Block, Contract!Move, Contract!Built, JobStatuses, Paid
    <3> QED
      BY <2>1, <3>1 DEF Contract!Next
  <2> QED
    BY <2>1, <2>2, <2>3
<1>9. ASSUME NEW r \in Requests, JobInsert(r) PROVE [Contract!Next]_(Contract!contract)
  BY <1>4, <1>9 DEF Contract!Next, Contract!contract, Paid
<1>10. ASSUME NEW r \in Requests, ApproveWrite(r) PROVE [Contract!Next]_(Contract!contract)
  BY <1>5, <1>10 DEF Contract!Next
<1> QED
  BY <1>6, <1>7, <1>8, <1>9, <1>10

\* Every step is a step of the contract or leaves what it sees unchanged.
LEMMA ContractStep ==
  ClientInv /\ NoEvidenceBeforeBuild /\ [Next]_vars => [Contract!Next]_(Contract!contract)
<1> SUFFICES ASSUME ClientInv, NoEvidenceBeforeBuild, [Next]_vars
             PROVE  [Contract!Next]_(Contract!contract)
  OBVIOUS
<1>1. CASE \/ \E r \in Requests : JobInsert(r) \/ ApproveWrite(r)
           \/ WorkerClaim \/ WorkerFinish \/ WorkerFails \/ WorkerFailRaises
  BY <1>1, WorkOfJob
<1>2. CASE /\ \A r \in Requests : ~JobInsert(r) /\ ~ApproveWrite(r)
           /\ ~(WorkerClaim \/ WorkerFinish \/ WorkerFails \/ WorkerFailRaises)
  <2>1. UNCHANGED <<jobStatus, evidence>>
    BY <1>2, WorkSteps
  <2>2. CASE UNCHANGED PaidRequests
    BY <2>1, <2>2 DEF Contract!contract, PaidRequests
  <2>3. CASE \E r \in Requests : PaidRequests' = PaidRequests \cup {r}
    BY <2>1, <2>3 DEF Contract!Next, Contract!Pay, PaidRequests
  <2> QED
    BY <2>2, <2>3, PaidStep
<1> QED
  BY <1>1, <1>2

\* ClientWork implements the contract, for any number of requests, sessions and
\* concurrent checkouts and any interleaving of the webhook, the worker, Daniel and
\* the faults.
THEOREM ContractKept == Spec => KeepsContract
<1>1. Init => Contract!Init /\ NoEvidenceBeforeBuild
  BY DEF Init, NotCreated, Contract!Init, NoEvidenceBeforeBuild
<1>2. ClientInv /\ NoEvidenceBeforeBuild /\ [Next]_vars => NoEvidenceBeforeBuild'
  BY NoEvidenceStep
<1>3. ClientInv /\ NoEvidenceBeforeBuild /\ [Next]_vars => [Contract!Next]_(Contract!contract)
  BY ContractStep
<1> QED
  BY <1>1, <1>2, <1>3, ClientInvHolds, PTL DEF Spec, KeepsContract, Contract!Spec
=============================================================================

------------------------------ MODULE BountyWork ------------------------------
(***************************************************************************)
(* The bounty pipeline: the scan that judges opportunities and fills the   *)
(* work queue (app.py scan_once), the worker that turns one queued item    *)
(* into a private build package (app.py process_next_bounty_build), the    *)
(* daily cloud budget that bounds what the worker may spend, and the rows  *)
(* of store.py they share.  The two run in different threads of one        *)
(* process, so every store call is a transaction of its own and may be     *)
(* interleaved with the other thread's calls; the process may be killed    *)
(* between any two of them and is then restarted over the same database.   *)
(*                                                                         *)
(* Abstracted: the text of opportunities and deliberations, scores and     *)
(* expected values (a scan rewrites them freely, so any claimable row may  *)
(* be the most valuable one), audit records other than the two the budget  *)
(* counts, and the contents of build packages other than the verdict.      *)
(***************************************************************************)
EXTENDS Integers, FiniteSets

CONSTANTS
  Opps,         \* opportunities, each with at most one work_queue row
  Scanners,     \* threads that may run scan_once: the worker, POST /scan
  Discovery,    \* the scanner that is the discovery worker thread
  NoOpp,        \* "no queue item": queue_item is None
  NoScanner,    \* "scan_lock is free"
  JobLimit,     \* BOUNTY_CLOUD_DAILY_JOB_LIMIT
  CallLimit,    \* BOUNTY_CLOUD_DAILY_CALL_LIMIT
  MaxAttempts,  \* max_attempts of bounty_job_builder
  LastDay,      \* bound: the number of UTC days of a behaviour
  MaxFaults     \* bound: crashes and failing store calls of a behaviour

ASSUME NamesAssumption ==
  /\ NoOpp \notin Opps
  /\ NoScanner \notin Scanners
  /\ Discovery \in Scanners

\* The limits are clamped to at least 1 where app.py reads them.
ASSUME LimitsAssumption ==
  /\ JobLimit \in Nat \ {0}
  /\ CallLimit \in Nat \ {0}
  /\ MaxAttempts \in Nat \ {0}

ASSUME BoundsAssumption == LastDay \in Nat \ {0} /\ MaxFaults \in Nat

VARIABLES
  \* Rows of the database and the build volume.
  oppStatus,  \* opportunities.status, "ABSENT" before the first insert
  stage,      \* work_queue.stage, "NONE" before the first insert
  artifact,   \* verdict inside bounty-<id>.json, "NONE" if there is no file
  jobsOn,     \* bounty_cloud_job_started audit rows of each day
  callsOn,    \* bounty_cloud_generation_started audit rows of each day
  \* The environment.
  day,        \* the current UTC day
  keySet,     \* openai_api_key() is not empty
  faults,     \* crashes and failing store calls so far
  \* The bounty build worker.
  bpc, item, attempt,
  verdict,    \* sandbox_status of the last attempt, once there is no other
  \* The scanners.
  scanLock, spc, seen, errors, todo

rows == <<oppStatus, stage, artifact>>
audits == <<jobsOn, callsOn>>
env == <<day, keySet>>
builder == <<bpc, item, attempt, verdict>>
scanner == <<scanLock, spc, seen, errors, todo>>
vars == <<rows, audits, env, faults, builder, scanner>>

Day == 1..LastDay

Expirable == {"AWAITING_DANIEL_APPROVAL", "READY_FOR_ISOLATED_BUILD",
              "TRAINING_REQUIRED", "BLOCKED_MODEL_NOT_CONFIGURED"}

Stages == Expirable \cup
  {"NONE", "BUILDING", "AWAITING_DANIEL_DELIVERY_REVIEW", "TESTS_FAILED",
   "BUILD_FAILED", "STALE_NOT_CURRENT"}

\* What a sandbox run of the candidate shows.
Verdicts == {"PASSED", "FAILED"}

\* What deliberate returns, and what enqueue_work makes of a recommendation.
Recommendations == {"AUTO_APPROVE_ISOLATED_BUILD", "HOLD_FOR_MORE_EVIDENCE"}

StageFor(recommendation) ==
  CASE recommendation = "AUTO_APPROVE_ISOLATED_BUILD" -> "READY_FOR_ISOLATED_BUILD"
    [] recommendation = "QUEUE_FOR_DANIEL_APPROVAL" -> "AWAITING_DANIEL_APPROVAL"
    [] OTHER -> "TRAINING_REQUIRED"

\* Program points of process_next_bounty_build: after the claim it holds an
\* item; "failing" is its except clause, "dead" a worker thread that ended.
Holding == {"key", "recheck", "prepare", "callbudget", "callaudit", "attempt",
            "save", "finish", "report"}
BuilderPCs == Holding \cup {"idle", "budget", "select", "claim", "failing", "dead"}

ScanActive == {"save", "reject", "expire", "list", "enqueue"}
ScanPCs == ScanActive \cup {"idle", "dead"}

RowTypes ==
  /\ oppStatus \in [Opps -> {"ABSENT", "APPROVED", "REJECTED"}]
  /\ stage \in [Opps -> Stages]
  /\ artifact \in [Opps -> Verdicts \cup {"NONE"}]

AuditTypes == jobsOn \in [Day -> Nat] /\ callsOn \in [Day -> Nat]

EnvTypes == day \in Day /\ keySet \in BOOLEAN /\ faults \in Nat

\* The worker holds an item at every point where it uses one.
BuilderTypes ==
  /\ bpc \in BuilderPCs
  /\ item \in Opps \cup {NoOpp}
  /\ bpc \in Holding \cup {"claim"} => item \in Opps
  /\ attempt \in Nat
  /\ verdict \in Verdicts \cup {"NONE"}

ScannerTypes ==
  /\ scanLock \in Scanners \cup {NoScanner}
  /\ spc \in [Scanners -> ScanPCs]
  /\ seen \in [Scanners -> SUBSET Opps]
  /\ errors \in [Scanners -> BOOLEAN]
  /\ todo \in [Scanners -> SUBSET Opps]

\* The type invariant: rows, program points and locals keep their types.
TypeOK == RowTypes /\ AuditTypes /\ EnvTypes /\ BuilderTypes /\ ScannerTypes

Init ==
  /\ oppStatus = [o \in Opps |-> "ABSENT"]
  /\ stage = [o \in Opps |-> "NONE"]
  /\ artifact = [o \in Opps |-> "NONE"]
  /\ jobsOn = [d \in Day |-> 0] /\ callsOn = [d \in Day |-> 0]
  /\ day = 1 /\ keySet \in BOOLEAN /\ faults = 0
  /\ bpc = "idle" /\ item = NoOpp /\ attempt = 0 /\ verdict = "NONE"
  /\ scanLock = NoScanner
  /\ spc = [s \in Scanners |-> "idle"]
  /\ seen = [s \in Scanners |-> {}] /\ errors = [s \in Scanners |-> FALSE]
  /\ todo = [s \in Scanners |-> {}]

-----------------------------------------------------------------------------
(* scan_once                                                               *)

\* Mutant of ScanBegin: scan_lock is not taken into account.
ScanBeginUnlocked(s) ==
  /\ spc[s] = "idle"
  /\ scanLock' = s
  /\ \E found \in SUBSET Opps, failed \in BOOLEAN :
       /\ seen' = [seen EXCEPT ![s] = found]
       /\ todo' = [todo EXCEPT ![s] = found]
       /\ errors' = [errors EXCEPT ![s] = failed]
  /\ spc' = [spc EXCEPT ![s] = "save"]
  /\ UNCHANGED <<rows, audits, env, faults, builder>>

\* Take scan_lock or give up, and run the scout: it returns some of the
\* opportunities and the number of queries that failed.
ScanBegin(s) ==
  /\ spc[s] = "idle"
  /\ scanLock = NoScanner
  /\ scanLock' = s
  /\ \E found \in SUBSET Opps, failed \in BOOLEAN :
       /\ seen' = [seen EXCEPT ![s] = found]
       /\ todo' = [todo EXCEPT ![s] = found]
       /\ errors' = [errors EXCEPT ![s] = failed]
  /\ spc' = [spc EXCEPT ![s] = "save"]
  /\ UNCHANGED <<rows, audits, env, faults, builder>>

\* save_opportunity, one transaction per reported item: an upsert of the row.
ScanSave(s) ==
  /\ spc[s] = "save"
  /\ \E o \in todo[s], judged \in {"APPROVED", "REJECTED"} :
       /\ oppStatus' = [oppStatus EXCEPT ![o] = judged]
       /\ todo' = [todo EXCEPT ![s] = @ \ {o}]
  /\ UNCHANGED <<stage, artifact, audits, env, faults, builder, scanLock, spc,
                 seen, errors>>

ScanSaved(s) ==
  /\ spc[s] = "save" /\ todo[s] = {}
  /\ spc' = [spc EXCEPT ![s] = IF errors[s] THEN "expire" ELSE "reject"]
  /\ UNCHANGED <<rows, audits, env, faults, builder, scanLock, seen, errors, todo>>

\* reject_unseen_approvals, called only when no query failed.
ScanReject(s) ==
  /\ spc[s] = "reject"
  /\ oppStatus' = [o \in Opps |-> IF oppStatus[o] = "APPROVED" /\ o \notin seen[s]
                                    THEN "REJECTED" ELSE oppStatus[o]]
  /\ spc' = [spc EXCEPT ![s] = "expire"]
  /\ UNCHANGED <<stage, artifact, audits, env, faults, builder, scanLock, seen,
                 errors, todo>>

\* Mutant of ExpireStaleWork: rows blocked for want of a model key are left.
ExpireUnblocked ==
  stage' = [o \in Opps |->
              IF /\ oppStatus[o] = "REJECTED"
                 /\ stage[o] \in Expirable \ {"BLOCKED_MODEL_NOT_CONFIGURED"}
                THEN "STALE_NOT_CURRENT" ELSE stage[o]]

\* The UPDATE of expire_stale_work.
ExpireStaleWork ==
  stage' = [o \in Opps |->
              IF oppStatus[o] = "REJECTED" /\ stage[o] \in Expirable
                THEN "STALE_NOT_CURRENT" ELSE stage[o]]

ScanExpire(s) ==
  /\ spc[s] = "expire"
  /\ ExpireStaleWork
  /\ spc' = [spc EXCEPT ![s] = "list"]
  /\ seen' = [seen EXCEPT ![s] = {}]
  /\ UNCHANGED <<oppStatus, artifact, audits, env, faults, builder, scanLock,
                 errors, todo>>

\* The APPROVED rows of list_opportunities, read once before the loop.
ScanList(s) ==
  /\ spc[s] = "list"
  /\ todo' = [todo EXCEPT ![s] = {o \in Opps : oppStatus[o] = "APPROVED"}]
  /\ spc' = [spc EXCEPT ![s] = "enqueue"]
  /\ UNCHANGED <<rows, audits, env, faults, builder, scanLock, seen, errors>>

\* Mutant of ScanEnqueue: the upsert spares the row that is being built.
ScanEnqueueSparing(s) ==
  /\ spc[s] = "enqueue"
  /\ \E o \in todo[s], recommendation \in Recommendations :
       /\ stage' = IF stage[o] = "BUILDING" THEN stage
                    ELSE [stage EXCEPT ![o] = StageFor(recommendation)]
       /\ todo' = [todo EXCEPT ![s] = @ \ {o}]
  /\ UNCHANGED <<oppStatus, artifact, audits, env, faults, builder, scanLock, spc,
                 seen, errors>>

\* deliberate, then enqueue_work: an upsert that sets the stage whatever it was.
ScanEnqueue(s) ==
  /\ spc[s] = "enqueue"
  /\ \E o \in todo[s], recommendation \in Recommendations :
       /\ stage' = [stage EXCEPT ![o] = StageFor(recommendation)]
       /\ todo' = [todo EXCEPT ![s] = @ \ {o}]
  /\ UNCHANGED <<oppStatus, artifact, audits, env, faults, builder, scanLock, spc,
                 seen, errors>>

\* The learning proposals and the scout_completed record, then the finally.
ScanEnd(s) ==
  /\ spc[s] = "enqueue" /\ todo[s] = {}
  /\ spc' = [spc EXCEPT ![s] = "idle"]
  /\ errors' = [errors EXCEPT ![s] = FALSE]
  /\ scanLock' = NoScanner
  /\ UNCHANGED <<rows, audits, env, faults, builder, seen, todo>>

\* A call inside the try raises: scan_failed is recorded and the lock freed.
\* When the record cannot be written either, the exception leaves scan_once
\* and ends the discovery thread; the HTTP handler only answers with an error.
ScanRaises(s) ==
  /\ spc[s] \in ScanActive
  /\ faults < MaxFaults
  /\ faults' = faults + 1
  /\ \E next \in {"idle"} \cup IF s = Discovery THEN {"dead"} ELSE {} :
       spc' = [spc EXCEPT ![s] = next]
  /\ seen' = [seen EXCEPT ![s] = {}]
  /\ errors' = [errors EXCEPT ![s] = FALSE]
  /\ todo' = [todo EXCEPT ![s] = {}]
  /\ scanLock' = NoScanner
  /\ UNCHANGED <<rows, audits, env, builder>>

ScanStep(s) ==
  \/ ScanSave(s) \/ ScanSaved(s) \/ ScanReject(s) \/ ScanExpire(s)
  \/ ScanList(s) \/ ScanEnqueue(s) \/ ScanEnd(s)

-----------------------------------------------------------------------------
(* bounty_cloud_budget counts the audit rows of the current UTC day.       *)

JobsRemaining == IF jobsOn[day] < JobLimit THEN JobLimit - jobsOn[day] ELSE 0
CallsRemaining == IF callsOn[day] < CallLimit THEN CallLimit - callsOn[day] ELSE 0

-----------------------------------------------------------------------------
(* process_next_bounty_build.  Only the bounty worker calls it, so its     *)
(* lock is never contended and is held exactly while bpc is not "idle".    *)

\* Return from the function: the finally clause and the worker's sleep.
BuilderReturns ==
  /\ bpc' = "idle" /\ item' = NoOpp /\ attempt' = 0 /\ verdict' = "NONE"

\* An exception unwinds to the except clause; only queue_item outlives it.
Unwind == bpc' = "failing" /\ attempt' = 0 /\ verdict' = "NONE"

SetBountyStage(o, next) == stage' = [stage EXCEPT ![o] = next]

BuildBegin ==
  /\ bpc = "idle"
  /\ ExpireStaleWork
  /\ bpc' = "budget"
  /\ UNCHANGED <<oppStatus, artifact, audits, env, faults, item, attempt, verdict,
                 scanner>>

BuildBudget ==
  /\ bpc = "budget"
  /\ \/ /\ JobsRemaining = 0 \/ CallsRemaining = 0
        /\ BuilderReturns
     \/ /\ JobsRemaining > 0 /\ CallsRemaining > 0
        /\ bpc' = "select"
        /\ UNCHANGED <<item, attempt, verdict>>
  /\ UNCHANGED <<rows, audits, env, faults, scanner>>

\* claim_ready_bounty reads its candidate in one statement ...
Claimable == {o \in Opps : /\ stage[o] = "READY_FOR_ISOLATED_BUILD"
                           /\ oppStatus[o] = "APPROVED"}

BuildSelect ==
  /\ bpc = "select"
  /\ \/ /\ Claimable = {}
        /\ BuilderReturns
     \/ /\ item' \in Claimable
        /\ bpc' = "claim"
        /\ UNCHANGED <<attempt, verdict>>
  /\ UNCHANGED <<rows, audits, env, faults, scanner>>

\* ... and takes it in another, conditional on the stage alone: a SELECT opens
\* no transaction in sqlite3, and takes no row lock in PostgreSQL.
BuildClaim ==
  /\ bpc = "claim"
  /\ \/ /\ stage[item] # "READY_FOR_ISOLATED_BUILD"
        /\ BuilderReturns
        /\ UNCHANGED stage
     \/ /\ stage[item] = "READY_FOR_ISOLATED_BUILD"
        /\ SetBountyStage(item, "BUILDING")
        /\ bpc' = "key"
        /\ UNCHANGED <<item, attempt, verdict>>
  /\ UNCHANGED <<oppStatus, artifact, audits, env, faults, scanner>>

BuildKey ==
  /\ bpc = "key"
  /\ \/ /\ ~keySet
        /\ SetBountyStage(item, "BLOCKED_MODEL_NOT_CONFIGURED")
        /\ bpc' = "report"
     \/ /\ keySet
        /\ bpc' = "recheck"
        /\ UNCHANGED stage
  /\ UNCHANGED <<oppStatus, artifact, audits, env, faults, item, attempt, verdict,
                 scanner>>

\* get_opportunity again: the claim may have raced a scan.
BuildRecheck ==
  /\ bpc = "recheck"
  /\ \/ /\ oppStatus[item] # "APPROVED"
        /\ SetBountyStage(item, "STALE_NOT_CURRENT")
        /\ BuilderReturns
     \/ /\ oppStatus[item] = "APPROVED"
        /\ bpc' = "prepare"
        /\ UNCHANGED <<stage, item, attempt, verdict>>
  /\ UNCHANGED <<oppStatus, artifact, audits, env, faults, scanner>>

\* bounty_context_loader.prepare succeeds and the job is entered in the audit
\* log, which is what charges the daily job budget.
BuildPrepare ==
  /\ bpc = "prepare"
  /\ jobsOn' = [jobsOn EXCEPT ![day] = @ + 1]
  /\ attempt' = 1
  /\ bpc' = "callbudget"
  /\ UNCHANGED <<rows, callsOn, env, faults, item, verdict, scanner>>

\* Mutant of BuildCallBudget: only the job budget is checked, before the build.
BuildCallUnbudgeted ==
  /\ bpc = "callbudget"
  /\ bpc' = "callaudit"
  /\ UNCHANGED <<rows, audits, env, faults, item, attempt, verdict, scanner>>

\* generate_bounty_solution: refuse when the calls of the day are used up ...
BuildCallBudget ==
  /\ bpc = "callbudget"
  /\ \/ /\ CallsRemaining = 0
        /\ Unwind
     \/ /\ CallsRemaining > 0
        /\ bpc' = "callaudit"
        /\ UNCHANGED <<attempt, verdict>>
  /\ UNCHANGED <<rows, audits, env, faults, item, scanner>>

\* ... and charge the call before the request is sent.
BuildCallAudit ==
  /\ bpc = "callaudit"
  /\ callsOn' = [callsOn EXCEPT ![day] = @ + 1]
  /\ bpc' = "attempt"
  /\ UNCHANGED <<rows, jobsOn, env, faults, item, attempt, verdict, scanner>>

\* One round of ClientJobBuilder.build: the model's answer is inspected and run
\* in the sandbox; a failed run is repaired while attempts are left.
BuildAttempt ==
  /\ bpc = "attempt"
  /\ \/ /\ attempt < MaxAttempts
        /\ attempt' = attempt + 1
        /\ bpc' = "callbudget"
        /\ UNCHANGED verdict
     \/ /\ verdict' \in Verdicts
        /\ verdict' = "PASSED" \/ attempt >= MaxAttempts
        /\ attempt' = 0
        /\ bpc' = "save"
  /\ UNCHANGED <<rows, audits, env, faults, item, scanner>>

\* Mutant of BuildSave: the package of an earlier build is kept.
BuildSaveOnce ==
  /\ bpc = "save"
  /\ artifact' = [artifact EXCEPT ![item] = IF @ = "NONE" THEN verdict ELSE @]
  /\ bpc' = "finish"
  /\ UNCHANGED <<oppStatus, stage, audits, env, faults, item, attempt, verdict,
                 scanner>>

\* save_build_artifact replaces the item's file atomically (write, then rename).
BuildSave ==
  /\ bpc = "save"
  /\ artifact' = [artifact EXCEPT ![item] = verdict]
  /\ bpc' = "finish"
  /\ UNCHANGED <<oppStatus, stage, audits, env, faults, item, attempt, verdict,
                 scanner>>

\* set_bounty_stage does not look at the stage it replaces.
BuildFinish ==
  /\ bpc = "finish"
  /\ SetBountyStage(item, IF verdict = "PASSED" THEN "AWAITING_DANIEL_DELIVERY_REVIEW"
                                                ELSE "TESTS_FAILED")
  /\ bpc' = "report"
  /\ UNCHANGED <<oppStatus, artifact, audits, env, faults, item, attempt, verdict,
                 scanner>>

\* The bounty_build_completed or bounty_build_blocked record, and the return.
BuildReport ==
  /\ bpc = "report"
  /\ BuilderReturns
  /\ UNCHANGED <<rows, audits, env, faults, scanner>>

\* The repository cannot be fetched, its files fail the preflight, the model or
\* the sandbox call fails, the answer is unusable, or the package cannot be
\* written.
BuildRaises ==
  /\ bpc \in {"prepare", "callbudget", "attempt", "save"}
  /\ Unwind
  /\ UNCHANGED <<rows, audits, env, faults, item, scanner>>

\* A store call raises (a locked or unreachable database).  Before the claim
\* has returned, queue_item is still None.
StoreRaises ==
  /\ bpc \in Holding \cup {"budget", "select", "claim"}
  /\ faults < MaxFaults
  /\ faults' = faults + 1
  /\ Unwind
  /\ item' = IF bpc \in Holding THEN item ELSE NoOpp
  /\ UNCHANGED <<rows, audits, env, scanner>>

\* The except clause: the stage of the claimed item, then an audit record.
BuildFails ==
  /\ bpc = "failing"
  /\ stage' = IF item = NoOpp THEN stage ELSE [stage EXCEPT ![item] = "BUILD_FAILED"]
  /\ BuilderReturns
  /\ UNCHANGED <<oppStatus, artifact, audits, env, faults, scanner>>

\* The except clause raises in its turn, before or after the stage is set; the
\* exception leaves the worker loop and the thread ends.
HandlerRaises ==
  /\ bpc = "failing"
  /\ faults < MaxFaults
  /\ faults' = faults + 1
  /\ \/ UNCHANGED stage
     \/ item # NoOpp /\ SetBountyStage(item, "BUILD_FAILED")
  /\ bpc' = "dead" /\ item' = NoOpp /\ attempt' = 0 /\ verdict' = "NONE"
  /\ UNCHANGED <<oppStatus, artifact, audits, env, scanner>>

BuilderStep ==
  \/ BuildBegin \/ BuildBudget \/ BuildSelect \/ BuildClaim \/ BuildKey
  \/ BuildRecheck \/ BuildPrepare \/ BuildCallBudget \/ BuildCallAudit
  \/ BuildAttempt \/ BuildSave \/ BuildFinish \/ BuildReport
  \/ BuildRaises \/ BuildFails

-----------------------------------------------------------------------------
(* The environment.                                                        *)

\* The one-time key page stores the model key.
KeySubmitted ==
  /\ ~keySet
  /\ keySet' = TRUE
  /\ UNCHANGED <<rows, audits, day, faults, builder, scanner>>

NewDay ==
  /\ day < LastDay
  /\ day' = day + 1
  /\ UNCHANGED <<rows, audits, keySet, faults, builder, scanner>>

\* The process is killed; the restarted one begins with fresh threads and
\* locks over the same database and volume.
Crash ==
  /\ faults < MaxFaults
  /\ faults' = faults + 1
  /\ BuilderReturns
  /\ scanLock' = NoScanner
  /\ spc' = [s \in Scanners |-> "idle"]
  /\ seen' = [s \in Scanners |-> {}]
  /\ errors' = [s \in Scanners |-> FALSE]
  /\ todo' = [s \in Scanners |-> {}]
  /\ UNCHANGED <<rows, audits, env>>

Next ==
  \/ \E s \in Scanners : ScanBegin(s) \/ ScanStep(s) \/ ScanRaises(s)
  \/ BuilderStep \/ StoreRaises \/ HandlerRaises
  \/ KeySubmitted \/ NewDay \/ Crash

Spec == Init /\ [][Next]_vars

\* The discovery worker calls scan_once for ever and the bounty worker calls
\* process_next_bounty_build for ever; every external call they make has a
\* timeout, so a step that has begun ends.  Nothing makes Daniel start a scan.
Fairness ==
  /\ WF_vars(BuilderStep)
  /\ WF_vars(ScanBegin(Discovery))
  /\ \A s \in Scanners : WF_vars(ScanStep(s))

FairSpec == Spec /\ Fairness
-----------------------------------------------------------------------------
(* Properties                                                              *)

\* No UTC day is charged more jobs or more model calls than its limits, although
\* bounty_cloud_budget is read in one transaction and charged in a later one,
\* midnight may fall between the two, and a crash may abandon a charged job.
DailyBudget ==
  \A d \in Day : jobsOn[d] <= JobLimit /\ callsOn[d] <= CallLimit

\* A row that waits for Daniel's delivery review has a build package on the
\* volume whose sandbox run passed, whatever scans, crashes and failed rebuilds
\* of the same item came in between.
ReviewedWorkPassed ==
  \A o \in Opps :
    stage[o] = "AWAITING_DANIEL_DELIVERY_REVIEW" => artifact[o] = "PASSED"

\* A row becomes READY_FOR_ISOLATED_BUILD only while its opportunity is
\* APPROVED: scan_once works through a list of approved rows it read earlier,
\* and scan_lock keeps any other scan from rejecting them meanwhile.
OnlyApprovedBecomesReady ==
  [][\A o \in Opps :
       stage[o] # "READY_FOR_ISOLATED_BUILD" /\ stage'[o] = "READY_FOR_ISOLATED_BUILD"
         => oppStatus[o] = "APPROVED"]_vars

\* A build never stays in BUILDING while its opportunity stays approved: what a
\* crash, a dead worker thread or a lost handler left behind is re-queued by
\* the next complete scan, as long as the discovery worker lives.
InterruptedBuildRecovered ==
  \A o \in Opps :
    []<>(\/ stage[o] # "BUILDING"
         \/ oppStatus[o] # "APPROVED"
         \/ spc[Discovery] = "dead")

\* A queued row of an opportunity that is no longer approved does not stay
\* queued, as long as one of the two workers lives.
StaleWorkExpires ==
  \A o \in Opps :
    []<>(\/ oppStatus[o] # "REJECTED"
         \/ stage[o] \notin Expirable
         \/ spc[Discovery] = "dead" /\ bpc = "dead")
=============================================================================

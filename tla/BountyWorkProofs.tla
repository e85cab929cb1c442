--------------------------- MODULE BountyWorkProofs ---------------------------
(* Proofs about BountyWork for every set of opportunities and scanners, every *)
(* limit and every bound.                                                     *)
EXTENDS BountyWork, TLAPS

-----------------------------------------------------------------------------
(* Types.                                                                  *)

\* A scanner's step keeps rows and the scanners' locals within their types and
\* touches nothing else.
LEMMA ScanTypes ==
  ASSUME TypeOK, NEW s \in Scanners,
         ScanBegin(s) \/ ScanStep(s) \/ ScanRaises(s)
  PROVE  TypeOK'
<1>1. AuditTypes' /\ BuilderTypes'
  BY DEF TypeOK, AuditTypes, BuilderTypes, ScanBegin, ScanStep, ScanSave, ScanSaved,
         ScanReject, ScanExpire, ScanList, ScanEnqueue, ScanEnd, ScanRaises,
         audits, builder
<1>2. EnvTypes'
  BY BoundsAssumption
     DEF TypeOK, EnvTypes, ScanBegin, ScanStep, ScanSave, ScanSaved, ScanReject,
         ScanExpire, ScanList, ScanEnqueue, ScanEnd, ScanRaises, env
<1>3. RowTypes'
  <2> USE DEF TypeOK, RowTypes
  <2>1. {"STALE_NOT_CURRENT"} \cup {StageFor(r) : r \in Recommendations} \subseteq Stages
    BY DEF Stages, Expirable, StageFor, Recommendations
  <2>2. CASE ScanBegin(s) \/ ScanSaved(s) \/ ScanList(s) \/ ScanEnd(s) \/ ScanRaises(s)
    BY <2>2 DEF ScanBegin, ScanSaved, ScanList, ScanEnd, ScanRaises, rows
  <2>3. CASE ScanSave(s)
    BY <2>3 DEF ScanSave
  <2>4. CASE ScanReject(s)
    BY <2>4 DEF ScanReject
  <2>5. CASE ScanExpire(s)
    BY <2>1, <2>5 DEF ScanExpire, ExpireStaleWork
  <2>6. CASE ScanEnqueue(s)
    <3>1. PICK o \in todo[s], r \in Recommendations :
            stage' = [stage EXCEPT ![o] = StageFor(r)]
      BY <2>6 DEF ScanEnqueue
    <3>2. StageFor(r) \in Stages
      BY <2>1
    <3> QED
      BY <2>6, <3>1, <3>2 DEF ScanEnqueue
  <2> QED
    BY <2>2, <2>3, <2>4, <2>5, <2>6 DEF ScanStep
<1>4. ScannerTypes'
  <2> USE DEF TypeOK, ScannerTypes
  <2>1. ScanActive \cup {"idle", "dead"} = ScanPCs
    BY DEF ScanPCs
  <2>2. {"save", "reject", "expire", "list", "enqueue"} = ScanActive
    BY DEF ScanActive
  <2>3. CASE ScanBegin(s)
    BY <2>1, <2>2, <2>3 DEF ScanBegin
  <2>4. CASE ScanSave(s) \/ ScanEnqueue(s)
    BY <2>4 DEF ScanSave, ScanEnqueue
  <2>5. CASE ScanSaved(s) \/ ScanReject(s) \/ ScanExpire(s) \/ ScanList(s)
    BY <2>1, <2>2, <2>5 DEF ScanSaved, ScanReject, ScanExpire, ScanList
  <2>6. CASE ScanEnd(s)
    BY <2>1, <2>6 DEF ScanEnd
  <2>7. CASE ScanRaises(s)
    BY <2>1, <2>7 DEF ScanRaises
  <2> QED
    BY <2>3, <2>4, <2>5, <2>6, <2>7 DEF ScanStep
<1> QED
  BY <1>1, <1>2, <1>3, <1>4 DEF TypeOK

\* A step of the worker, finished or failing, keeps every type.
LEMMA BuilderTypesStep ==
  ASSUME TypeOK, BuilderStep \/ StoreRaises \/ HandlerRaises
  PROVE  TypeOK'
<1>1. ScannerTypes'
  BY DEF TypeOK, ScannerTypes, BuilderStep, StoreRaises, HandlerRaises, BuildBegin,
         BuildBudget, BuildSelect, BuildClaim, BuildKey, BuildRecheck, BuildPrepare,
         BuildCallBudget, BuildCallAudit, BuildAttempt, BuildSave, BuildFinish,
         BuildReport, BuildRaises, BuildFails, scanner
<1>2. EnvTypes'
  BY BoundsAssumption
     DEF TypeOK, EnvTypes, BuilderStep, StoreRaises, HandlerRaises, BuildBegin,
         BuildBudget, BuildSelect, BuildClaim, BuildKey, BuildRecheck, BuildPrepare,
         BuildCallBudget, BuildCallAudit, BuildAttempt, BuildSave, BuildFinish,
         BuildReport, BuildRaises, BuildFails, env
<1>3. AuditTypes'
  <2> USE DEF TypeOK, AuditTypes, EnvTypes
  <2>1. CASE BuildPrepare
    BY <2>1 DEF BuildPrepare
  <2>2. CASE BuildCallAudit
    BY <2>2 DEF BuildCallAudit
  <2>3. CASE ~BuildPrepare /\ ~BuildCallAudit
    BY <2>3 DEF BuilderStep, StoreRaises, HandlerRaises, BuildBegin, BuildBudget,
         BuildSelect, BuildClaim, BuildKey, BuildRecheck, BuildCallBudget,
         BuildAttempt, BuildSave, BuildFinish, BuildReport, BuildRaises, BuildFails,
         audits
  <2> QED
    BY <2>1, <2>2, <2>3
<1>4. BuilderTypes'
  <2> USE DEF TypeOK, BuilderTypes, BuilderPCs, Holding, Verdicts
  <2>1. CASE BuildBegin \/ BuildBudget \/ BuildReport
    BY <2>1 DEF BuildBegin, BuildBudget, BuildReport, BuilderReturns
  <2>2. CASE BuildSelect
    BY <2>2 DEF BuildSelect, Claimable, BuilderReturns
  <2>3. CASE BuildClaim \/ BuildKey \/ BuildRecheck
    BY <2>3 DEF BuildClaim, BuildKey, BuildRecheck, BuilderReturns
  <2>4. CASE BuildPrepare \/ BuildCallBudget \/ BuildCallAudit
    BY <2>4 DEF BuildPrepare, BuildCallBudget, BuildCallAudit, Unwind
  <2>5. CASE BuildAttempt
    BY <2>5 DEF BuildAttempt
  <2>6. CASE BuildSave \/ BuildFinish
    BY <2>6 DEF BuildSave, BuildFinish
  <2>7. CASE BuildRaises \/ BuildFails \/ HandlerRaises
    BY <2>7 DEF BuildRaises, BuildFails, HandlerRaises, BuilderReturns, Unwind
  <2>8. CASE StoreRaises
    BY <2>8 DEF StoreRaises, Unwind
  <2> QED
    BY <2>1, <2>2, <2>3, <2>4, <2>5, <2>6, <2>7, <2>8 DEF BuilderStep
<1>5. RowTypes'
  <2> USE DEF TypeOK, RowTypes, BuilderTypes, Verdicts
  <2>1. /\ bpc \in Holding \cup {"claim"} => item \in Opps
        /\ {"STALE_NOT_CURRENT", "BUILDING", "BLOCKED_MODEL_NOT_CONFIGURED",
            "AWAITING_DANIEL_DELIVERY_REVIEW", "TESTS_FAILED", "BUILD_FAILED"} \subseteq Stages
    BY DEF Stages, Expirable
  <2>2. CASE BuildBegin
    BY <2>1, <2>2 DEF BuildBegin, ExpireStaleWork
  <2>3. CASE BuildClaim \/ BuildKey \/ BuildRecheck \/ BuildFinish
    BY <2>1, <2>3 DEF BuildClaim, BuildKey, BuildRecheck, BuildFinish, SetBountyStage
  <2>4. CASE BuildSave
    BY <2>1, <2>4 DEF BuildSave, Holding
  <2>5. CASE BuildFails \/ HandlerRaises
    BY <2>1, <2>5 DEF BuildFails, HandlerRaises, SetBountyStage
  <2>6. CASE \/ BuildBudget \/ BuildSelect \/ BuildPrepare \/ BuildCallBudget
             \/ BuildCallAudit \/ BuildAttempt \/ BuildReport \/ BuildRaises
             \/ StoreRaises
    BY <2>6 DEF BuildBudget, BuildSelect, BuildPrepare, BuildCallBudget,
         BuildCallAudit, BuildAttempt, BuildReport, BuildRaises, StoreRaises, rows
  <2> QED
    BY <2>2, <2>3, <2>4, <2>5, <2>6 DEF BuilderStep
<1> QED
  BY <1>1, <1>2, <1>3, <1>4, <1>5 DEF TypeOK

\* Every step of the pipeline keeps the types.
LEMMA TypeStep == TypeOK /\ [Next]_vars => TypeOK'
<1> SUFFICES ASSUME TypeOK, [Next]_vars PROVE TypeOK'
  OBVIOUS
<1> USE DEF TypeOK, RowTypes, AuditTypes, EnvTypes, BuilderTypes, ScannerTypes
<1>1. CASE NewDay
  BY <1>1, BoundsAssumption DEF NewDay, rows, audits, builder, scanner, Day
<1>2. CASE KeySubmitted
  <2>1. keySet' \in BOOLEAN
    BY <1>2, Zenon DEF KeySubmitted
  <2> QED
    BY <1>2, <2>1 DEF KeySubmitted, rows, audits, builder, scanner
<1>3. CASE Crash
  BY <1>3, BoundsAssumption
     DEF Crash, BuilderReturns, BuilderPCs, Holding, ScanPCs, rows, audits, env
<1>4. CASE UNCHANGED vars
  BY <1>4 DEF vars, rows, audits, env, builder, scanner
<1> QED
  BY <1>1, <1>2, <1>3, <1>4, ScanTypes, BuilderTypesStep DEF Next

\* The rows, the audit counts and the locals of every thread keep their types in
\* every behaviour of the pipeline, and the worker never uses an item it lacks.
THEOREM TypeCorrect == Spec => []TypeOK
<1>1. Init => TypeOK
  BY NamesAssumption, BoundsAssumption
     DEF Init, TypeOK, RowTypes, AuditTypes, EnvTypes, BuilderTypes, ScannerTypes,
         Stages, BuilderPCs, Holding, ScanPCs, Day
<1> QED
  BY <1>1, TypeStep, PTL DEF Spec

-----------------------------------------------------------------------------
(* The daily budget.                                                       *)

\* Why the limits hold although a budget is read before it is charged: the
\* future days are empty, and between the reading and the charge only midnight
\* can change the count of the current day, which can only lower it.
BudgetInv ==
  /\ DailyBudget
  /\ \A d \in Day : d > day => jobsOn[d] = 0 /\ callsOn[d] = 0
  /\ bpc \in {"select", "claim", "key", "recheck", "prepare"} => jobsOn[day] < JobLimit
  /\ bpc = "callaudit" => callsOn[day] < CallLimit

\* A job or a call is charged only where the invariant leaves room for it.
LEMMA BudgetStep == TypeOK /\ BudgetInv /\ [Next]_vars => BudgetInv'
<1> SUFFICES ASSUME TypeOK, BudgetInv, [Next]_vars PROVE BudgetInv'
  OBVIOUS
<1> USE LimitsAssumption, BoundsAssumption
<1> USE DEF BudgetInv, DailyBudget
<1>1. /\ jobsOn \in [Day -> Nat] /\ callsOn \in [Day -> Nat]
      /\ day \in Day /\ Day \subseteq Nat /\ JobLimit \in Nat /\ CallLimit \in Nat
  BY DEF TypeOK, AuditTypes, EnvTypes, Day
<1>2. ASSUME NEW s \in Scanners, ScanBegin(s) \/ ScanStep(s) \/ ScanRaises(s)
      PROVE  BudgetInv'
  <2>1. UNCHANGED <<audits, env, builder>>
    BY <1>2 DEF ScanBegin, ScanStep, ScanSave, ScanSaved, ScanReject, ScanExpire,
         ScanList, ScanEnqueue, ScanEnd, ScanRaises
  <2> QED
    BY <2>1 DEF audits, env, builder
<1>3. CASE BuildBudget
  BY <1>1, <1>3 DEF BuildBudget, BuilderReturns, JobsRemaining, CallsRemaining, audits, env
<1>4. CASE BuildPrepare
  BY <1>1, <1>4 DEF BuildPrepare, env
<1>5. CASE BuildCallBudget
  BY <1>1, <1>5 DEF BuildCallBudget, Unwind, CallsRemaining, audits, env
<1>6. CASE BuildCallAudit
  BY <1>1, <1>6 DEF BuildCallAudit, env
<1>7. CASE BuildSelect \/ BuildClaim \/ BuildKey \/ BuildRecheck
  BY <1>7 DEF BuildSelect, BuildClaim, BuildKey, BuildRecheck, BuilderReturns, audits, env
<1>8. CASE BuildBegin \/ BuildAttempt \/ BuildSave \/ BuildFinish \/ BuildReport
  BY <1>8 DEF BuildBegin, BuildAttempt, BuildSave, BuildFinish, BuildReport,
       BuilderReturns, audits, env
<1>9. CASE BuildRaises \/ BuildFails \/ StoreRaises \/ HandlerRaises
  BY <1>9 DEF BuildRaises, BuildFails, StoreRaises, HandlerRaises, BuilderReturns,
       Unwind, audits, env
<1>10. CASE KeySubmitted \/ Crash \/ UNCHANGED vars
  BY <1>10 DEF KeySubmitted, Crash, BuilderReturns, vars, audits, env, builder
<1>11. CASE NewDay
  BY <1>1, <1>11 DEF NewDay, audits, builder, Day
<1> QED
  BY <1>2, <1>3, <1>4, <1>5, <1>6, <1>7, <1>8, <1>9, <1>10, <1>11
     DEF Next, BuilderStep

\* For every limit and any number of days: no UTC day is ever charged more jobs
\* or more model calls than its limits, over midnight and over crashes.
THEOREM BudgetRespected == Spec => []DailyBudget
<1>1. Init => BudgetInv
  BY LimitsAssumption, BoundsAssumption DEF Init, BudgetInv, DailyBudget, Day
<1>2. BudgetInv => DailyBudget
  BY DEF BudgetInv
<1> QED
  BY <1>1, <1>2, BudgetStep, TypeCorrect, PTL DEF Spec

-----------------------------------------------------------------------------
(* Delivery review.                                                        *)

\* While the worker holds an item its row is not under review, until the worker
\* itself puts it there, having saved the package of the run that passed.
ReviewInv ==
  /\ ReviewedWorkPassed
  /\ bpc \in Holding \ {"report"} => stage[item] # "AWAITING_DANIEL_DELIVERY_REVIEW"
  /\ bpc = "finish" => artifact[item] = verdict

\* A scan never puts a row under review.
LEMMA ScanKeepsReview ==
  ASSUME TypeOK, ReviewInv, NEW s \in Scanners,
         ScanBegin(s) \/ ScanStep(s) \/ ScanRaises(s)
  PROVE  ReviewInv'
<1> USE DEF ReviewInv, ReviewedWorkPassed
<1>1. /\ stage \in [Opps -> Stages] /\ artifact \in [Opps -> Verdicts \cup {"NONE"}]
      /\ bpc \in Holding \cup {"claim"} => item \in Opps
  BY DEF TypeOK, RowTypes, BuilderTypes
<1>2. UNCHANGED <<artifact, builder>>
  BY DEF ScanBegin, ScanStep, ScanSave, ScanSaved, ScanReject, ScanExpire, ScanList,
         ScanEnqueue, ScanEnd, ScanRaises, rows
<1>3. \A o \in Opps : \/ stage'[o] = stage[o]
                      \/ stage'[o] # "AWAITING_DANIEL_DELIVERY_REVIEW"
  <2>1. CASE ScanExpire(s)
    BY <1>1, <2>1 DEF ScanExpire, ExpireStaleWork
  <2>2. CASE ScanEnqueue(s)
    BY <1>1, <2>2 DEF ScanEnqueue, StageFor, Recommendations
  <2>3. CASE ~ScanExpire(s) /\ ~ScanEnqueue(s)
    BY <2>3 DEF ScanBegin, ScanStep, ScanSave, ScanSaved, ScanReject, ScanList,
         ScanEnd, ScanRaises, rows
  <2> QED
    BY <2>1, <2>2, <2>3
<1> QED
  BY <1>1, <1>2, <1>3 DEF builder, Holding

\* Only the worker's own finishing step puts a row under review.
LEMMA ReviewStep == TypeOK /\ ReviewInv /\ [Next]_vars => ReviewInv'
<1> SUFFICES ASSUME TypeOK, ReviewInv, [Next]_vars PROVE ReviewInv'
  OBVIOUS
<1> USE DEF ReviewInv, ReviewedWorkPassed, Holding
<1>1. /\ stage \in [Opps -> Stages] /\ artifact \in [Opps -> Verdicts \cup {"NONE"}]
      /\ bpc \in Holding \cup {"claim"} => item \in Opps
  BY DEF TypeOK, RowTypes, BuilderTypes
<1>2. CASE BuildBegin
  BY <1>1, <1>2 DEF BuildBegin, ExpireStaleWork
<1>3. CASE BuildClaim
  BY <1>1, <1>3 DEF BuildClaim, SetBountyStage, BuilderReturns
<1>4. CASE BuildKey \/ BuildRecheck
  BY <1>1, <1>4 DEF BuildKey, BuildRecheck, SetBountyStage, BuilderReturns
<1>5. CASE BuildSave
  BY <1>1, <1>5 DEF BuildSave
<1>6. CASE BuildFinish
  BY <1>1, <1>6 DEF BuildFinish, SetBountyStage
<1>7. CASE BuildFails \/ HandlerRaises
  BY <1>1, <1>7 DEF BuildFails, HandlerRaises, SetBountyStage, BuilderReturns, TypeOK,
       BuilderTypes
<1>8. CASE \/ BuildBudget \/ BuildSelect \/ BuildPrepare \/ BuildCallBudget
           \/ BuildCallAudit \/ BuildAttempt \/ BuildReport
  BY <1>8 DEF BuildBudget, BuildSelect, BuildPrepare, BuildCallBudget, BuildCallAudit,
       BuildAttempt, BuildReport, BuilderReturns, Unwind, rows
<1>9. CASE BuildRaises \/ StoreRaises \/ Crash
  BY <1>9 DEF BuildRaises, StoreRaises, Crash, BuilderReturns, Unwind, rows
<1>10. CASE KeySubmitted \/ NewDay \/ UNCHANGED vars
  BY <1>10 DEF KeySubmitted, NewDay, vars, rows, builder
<1> QED
  BY <1>2, <1>3, <1>4, <1>5, <1>6, <1>7, <1>8, <1>9, <1>10, ScanKeepsReview
     DEF Next, BuilderStep

\* Whatever scans, crashes and failed rebuilds happen, a row under Daniel's
\* delivery review has a package whose sandbox run passed.
THEOREM ReviewSound == Spec => []ReviewedWorkPassed
<1>1. Init => ReviewInv
  BY DEF Init, ReviewInv, ReviewedWorkPassed, Holding
<1>2. ReviewInv => ReviewedWorkPassed
  BY DEF ReviewInv
<1> QED
  BY <1>1, <1>2, ReviewStep, TypeCorrect, PTL DEF Spec

-----------------------------------------------------------------------------
(* What a scan may queue.                                                  *)

\* A scan that is running holds scan_lock, so there is one; the rows it still
\* has to queue are approved, as they were when it listed them.
ScanInv ==
  \A s \in Scanners :
    /\ spc[s] \in ScanActive => scanLock = s
    /\ spc[s] = "enqueue" => \A o \in todo[s] : oppStatus[o] = "APPROVED"

\* Rows are judged only by the holder of scan_lock, before it lists them.
LEMMA ScanInvStep == TypeOK /\ ScanInv /\ [Next]_vars => ScanInv'
<1> SUFFICES ASSUME TypeOK, ScanInv, [Next]_vars PROVE ScanInv'
  OBVIOUS
<1> USE NamesAssumption DEF ScanInv
<1>1. /\ spc \in [Scanners -> ScanPCs] /\ todo \in [Scanners -> SUBSET Opps]
      /\ oppStatus \in [Opps -> {"ABSENT", "APPROVED", "REJECTED"}]
  BY DEF TypeOK, RowTypes, ScannerTypes
<1>2. ASSUME NEW s \in Scanners, ScanBegin(s) PROVE ScanInv'
  BY <1>1, <1>2 DEF ScanBegin, ScanActive, rows
<1>3. ASSUME NEW s \in Scanners, ScanSave(s) \/ ScanReject(s) PROVE ScanInv'
  <2>1. /\ spc'[s] # "enqueue"
        /\ scanLock' = scanLock
        /\ \A t \in Scanners \ {s} : spc'[t] = spc[t] /\ todo'[t] = todo[t]
    <3>1. CASE ScanSave(s)
      BY <1>1, <3>1 DEF ScanSave, ScanActive
    <3>2. CASE ScanReject(s)
      <4>1. spc'[s] = "expire" /\ spc[s] = "reject" /\ scanLock' = scanLock
        BY <1>1, <3>2 DEF ScanReject
      <4>2. \A t \in Scanners \ {s} : spc'[t] = spc[t] /\ todo'[t] = todo[t]
        BY <1>1, <3>2 DEF ScanReject
      <4> QED
        BY <4>1, <4>2 DEF ScanActive
    <3> QED
      BY <1>3, <3>1, <3>2
  <2>2. spc[s] \in ScanActive
    BY <1>3 DEF ScanSave, ScanReject, ScanActive
  <2>3. \A t \in Scanners \ {s} : spc[t] # "enqueue"
    BY <2>2 DEF ScanActive
  <2> QED
    BY <2>1, <2>2, <2>3
<1>4. ASSUME NEW s \in Scanners, ScanSaved(s) \/ ScanExpire(s) PROVE ScanInv'
  BY <1>1, <1>4 DEF ScanSaved, ScanExpire, ScanActive, rows
<1>5. ASSUME NEW s \in Scanners, ScanList(s) PROVE ScanInv'
  BY <1>1, <1>5 DEF ScanList, ScanActive, rows
<1>6. ASSUME NEW s \in Scanners, ScanEnqueue(s) PROVE ScanInv'
  BY <1>1, <1>6 DEF ScanEnqueue
<1>7. ASSUME NEW s \in Scanners, ScanEnd(s) PROVE ScanInv'
  BY <1>1, <1>7 DEF ScanEnd, ScanActive, rows
<1>8. ASSUME NEW s \in Scanners, ScanRaises(s) PROVE ScanInv'
  BY <1>1, <1>8 DEF ScanRaises, ScanActive, rows
<1>9. CASE BuilderStep \/ StoreRaises \/ HandlerRaises
  <2>1. UNCHANGED <<oppStatus, scanner>>
    BY <1>9 DEF BuilderStep, StoreRaises, HandlerRaises, BuildBegin, BuildBudget,
         BuildSelect, BuildClaim, BuildKey, BuildRecheck, BuildPrepare,
         BuildCallBudget, BuildCallAudit, BuildAttempt, BuildSave, BuildFinish,
         BuildReport, BuildRaises, BuildFails, rows
  <2> QED
    BY <2>1 DEF scanner
<1>10. CASE KeySubmitted \/ NewDay \/ UNCHANGED vars
  BY <1>10 DEF KeySubmitted, NewDay, vars, rows, scanner
<1>11. CASE Crash
  BY <1>11 DEF Crash, ScanActive
<1> QED
  BY <1>2, <1>3, <1>4, <1>5, <1>6, <1>7, <1>8, <1>9, <1>10, <1>11 DEF Next, ScanStep

\* No step makes a row READY_FOR_ISOLATED_BUILD unless its opportunity is
\* approved at that moment, for any number of threads that may scan.
THEOREM QueuedWhileApproved == Spec => OnlyApprovedBecomesReady
<1> DEFINE Queued(o) ==
      /\ stage[o] # "READY_FOR_ISOLATED_BUILD"
      /\ stage'[o] = "READY_FOR_ISOLATED_BUILD"
<1>1. Init => ScanInv
  BY DEF Init, ScanInv, ScanActive
<1>2. ASSUME TypeOK, ScanInv, [Next]_vars, NEW o \in Opps, Queued(o)
      PROVE  oppStatus[o] = "APPROVED"
  <2>1. /\ stage \in [Opps -> Stages]
        /\ bpc \in Holding \cup {"claim"} => item \in Opps
    BY <1>2 DEF TypeOK, RowTypes, BuilderTypes
  <2>2. ASSUME NEW s \in Scanners, ScanBegin(s) \/ ScanStep(s) \/ ScanRaises(s)
        PROVE  oppStatus[o] = "APPROVED"
    <3>1. CASE ScanEnqueue(s)
      BY <1>2, <2>1, <3>1 DEF ScanEnqueue, ScanInv
    <3>2. CASE ScanExpire(s)
      BY <1>2, <2>1, <3>2 DEF ScanExpire, ExpireStaleWork
    <3>3. CASE ~ScanEnqueue(s) /\ ~ScanExpire(s)
      BY <1>2, <2>2, <3>3 DEF ScanBegin, ScanStep, ScanSave, ScanSaved, ScanReject,
           ScanList, ScanEnd, ScanRaises, rows
    <3> QED
      BY <3>1, <3>2, <3>3
  <2>3. ~(BuilderStep \/ StoreRaises \/ HandlerRaises)
    <3>1. ~BuildBegin
      BY <1>2, <2>1 DEF BuildBegin, ExpireStaleWork
    <3>2. ~(BuildClaim \/ BuildKey \/ BuildRecheck \/ BuildFinish)
      BY <1>2, <2>1 DEF BuildClaim, BuildKey, BuildRecheck, BuildFinish,
           SetBountyStage, Holding
    <3>3. ~(BuildFails \/ HandlerRaises)
      BY <1>2, <2>1 DEF BuildFails, HandlerRaises, SetBountyStage, TypeOK, BuilderTypes
    <3>4. ~(\/ BuildBudget \/ BuildSelect \/ BuildPrepare \/ BuildCallBudget
            \/ BuildCallAudit \/ BuildAttempt \/ BuildSave \/ BuildReport
            \/ BuildRaises \/ StoreRaises)
      BY <1>2 DEF BuildBudget, BuildSelect, BuildPrepare, BuildCallBudget,
           BuildCallAudit, BuildAttempt, BuildSave, BuildReport, BuildRaises,
           StoreRaises, rows
    <3> QED
      BY <3>1, <3>2, <3>3, <3>4 DEF BuilderStep
  <2>4. ~(KeySubmitted \/ NewDay \/ Crash \/ UNCHANGED vars)
    BY <1>2 DEF KeySubmitted, NewDay, Crash, vars, rows
  <2> QED
    BY <1>2, <2>2, <2>3, <2>4 DEF Next
<1>3. TypeOK /\ ScanInv /\ [Next]_vars
        => [\A o \in Opps :
              stage[o] # "READY_FOR_ISOLATED_BUILD" /\ stage'[o] = "READY_FOR_ISOLATED_BUILD"
                => oppStatus[o] = "APPROVED"]_vars
  BY <1>2
<1> QED
  BY <1>1, <1>3, ScanInvStep, TypeCorrect, PTL DEF Spec, OnlyApprovedBecomesReady
=============================================================================

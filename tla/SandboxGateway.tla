----------------------------- MODULE SandboxGateway -----------------------------
(***************************************************************************)
(* The sandbox gateway (sandbox_gateway.mjs) and its callers in app.py.    *)
(* POST /jobs runs a job in a VM of its own.  A job is named by the digest *)
(* of its content: equal requests join the run in flight or get the result *)
(* of a recent one.  At most MAX_CONCURRENT runs hold a slot; the others   *)
(* wait in order.                                                          *)
(*                                                                         *)
(* Node runs one callback at a time and drains its microtasks before the   *)
(* next, so everything between two external answers (of the Railway SDK,   *)
(* of the body stream) is one step: a released slot has passed to the first*)
(* waiter before another request is looked at, and all handlers that await *)
(* a run resume together.  Abstracted: validation, files, output; a run's  *)
(* exit code, since a failed test run is an ordinary result.               *)
(***************************************************************************)
EXTENDS Integers, Sequences, FiniteSets

CONSTANTS
  Jobs,           \* job ids
  Callers,        \* threads of app.py that may call execute_practice
  Runs,           \* names for the calls of runJob; a name is used again
  NoJob, NoRun,
  MaxConcurrent,  \* MAX_CONCURRENT
  Attempts,       \* attempts of run_practice_with_retry
  MaxRestarts     \* bound: restarts of the gateway in a behaviour

ASSUME GatewayAssumption ==
  /\ NoJob \notin Jobs /\ NoRun \notin Runs
  /\ IsFiniteSet(Runs)
  /\ MaxConcurrent \in Nat \ {0} /\ Attempts \in Nat \ {0} /\ MaxRestarts \in Nat

VARIABLES
  active, waiters,    \* activeJobs; runs suspended in acquireSlot
  inFlight, cached,   \* the maps inFlight and recent, by job
  rpc, rjob,          \* where each run is, and its job
  vm,                 \* whether a VM of the run exists at Railway
  call,               \* what each caller is doing
  restarts

gateway == <<active, waiters, inFlight, cached>>
run == <<rpc, rjob>>
vars == <<gateway, run, vm, call, restarts>>

\* A run that has a slot; a run that ended by throwing in its finally block
\* never gave its slot back.
Running == {"create", "exec", "teardown", "teardown_error"}
Unsettled == Running \cup {"waiting"}
RunPCs == Unsettled \cup {"unused", "rejected", "leaked"}

Occupied == {i \in Runs : rpc[i] \in Running \cup {"leaked"}}

\* One call of execute_practice with what the retry loop around it has left.
\* The drill makes two such calls and begins again after an error: a call with
\* fewer tries stands for those that it makes with some of them spent.
Calls == [pc : {"idle", "send", "await"}, job : Jobs \cup {NoJob},
          run : Runs \cup {NoRun}, tries : 0..Attempts, limit : 1..Attempts]
IdleCall == [pc |-> "idle", job |-> NoJob, run |-> NoRun, tries |-> 0, limit |-> 1]

\* A 503, a timeout or a lost connection: try again while attempts are left.
AfterError(k) ==
  IF k.tries < k.limit THEN [k EXCEPT !.pc = "send", !.run = NoRun] ELSE IdleCall

\* The type invariant; a caller that sends or awaits knows its job and its run.
TypeOK ==
  /\ active \in Nat /\ waiters \in Seq(Runs)
  /\ inFlight \in [Jobs -> Runs \cup {NoRun}] /\ cached \in [Jobs -> BOOLEAN]
  /\ rpc \in [Runs -> RunPCs] /\ rjob \in [Runs -> Jobs \cup {NoJob}]
  /\ vm \in [Runs -> BOOLEAN]
  /\ call \in [Callers -> Calls]
  /\ \A c \in Callers :
       /\ call[c].pc # "idle" => call[c].job \in Jobs /\ call[c].tries <= call[c].limit
       /\ call[c].pc = "await" <=> call[c].run # NoRun
  /\ restarts \in Nat

Init ==
  /\ active = 0 /\ waiters = <<>>
  /\ inFlight = [j \in Jobs |-> NoRun] /\ cached = [j \in Jobs |-> FALSE]
  /\ rpc = [i \in Runs |-> "unused"] /\ rjob = [i \in Runs |-> NoJob]
  /\ vm = [i \in Runs |-> FALSE]
  /\ call = [c \in Callers |-> IdleCall]
  /\ restarts = 0

-----------------------------------------------------------------------------
(* The callers, and the handler of POST /jobs up to its first wait         *)

\* A builder calls once; run_practice_with_retry calls until it is answered.
Begin(c, j) ==
  /\ call[c].pc = "idle"
  /\ \E limit \in 1..Attempts :
       call' = [call EXCEPT ![c] =
                  [pc |-> "send", job |-> j, run |-> NoRun, tries |-> 0, limit |-> limit]]
  /\ UNCHANGED <<gateway, run, vm, restarts>>

Sent(c) == [call[c] EXCEPT !.tries = @ + 1]

\* A result no older than RESULT_CACHE_MS answers at once.
SendCached(c) ==
  /\ call[c].pc = "send" /\ cached[call[c].job]
  /\ call' = [call EXCEPT ![c] = IdleCall]
  /\ UNCHANGED <<gateway, run, vm, restarts>>

\* The promise in flight is awaited; one that was rejected throws again.
SendJoin(c) ==
  LET i == inFlight[call[c].job] IN
  /\ call[c].pc = "send" /\ ~cached[call[c].job] /\ i # NoRun
  /\ call' = [call EXCEPT ![c] =
                IF rpc[i] \in Unsettled THEN [Sent(c) EXCEPT !.pc = "await", !.run = i]
                                        ELSE AfterError(Sent(c))]
  /\ UNCHANGED <<gateway, run, vm, restarts>>

\* Mutant of AcquireSlot: the limit itself is admitted.
AcquireSlotExtra(i) ==
  \/ /\ active > MaxConcurrent
     /\ waiters' = Append(waiters, i) /\ rpc' = [rpc EXCEPT ![i] = "waiting"]
     /\ UNCHANGED active
  \/ /\ active <= MaxConcurrent
     /\ active' = active + 1 /\ rpc' = [rpc EXCEPT ![i] = "create"]
     /\ UNCHANGED waiters

AcquireSlot(i) ==
  \/ /\ active >= MaxConcurrent
     /\ waiters' = Append(waiters, i) /\ rpc' = [rpc EXCEPT ![i] = "waiting"]
     /\ UNCHANGED active
  \/ /\ active < MaxConcurrent
     /\ active' = active + 1 /\ rpc' = [rpc EXCEPT ![i] = "create"]
     /\ UNCHANGED waiters

\* Mutant of SendStart: every request starts a run of its own.
SendStartUnshared(c) ==
  LET j == call[c].job IN
  /\ call[c].pc = "send" /\ ~cached[j]
  /\ \E i \in Runs :
       /\ rpc[i] = "unused" /\ ~vm[i]
       /\ AcquireSlot(i)
       /\ rjob' = [rjob EXCEPT ![i] = j]
       /\ inFlight' = [inFlight EXCEPT ![j] = i]
       /\ call' = [call EXCEPT ![c] = [Sent(c) EXCEPT !.pc = "await", !.run = i]]
  /\ UNCHANGED <<cached, vm, restarts>>

\* runJob up to its first wait.
SendStart(c) ==
  LET j == call[c].job IN
  /\ call[c].pc = "send" /\ ~cached[j] /\ inFlight[j] = NoRun
  /\ \E i \in Runs :
       /\ rpc[i] = "unused" /\ ~vm[i]
       /\ AcquireSlot(i)
       /\ rjob' = [rjob EXCEPT ![i] = j]
       /\ inFlight' = [inFlight EXCEPT ![j] = i]
       /\ call' = [call EXCEPT ![c] = [Sent(c) EXCEPT !.pc = "await", !.run = i]]
  /\ UNCHANGED <<cached, vm, restarts>>

\* requests gives up after 75 s; the handler goes on.
CallTimesOut(c) ==
  /\ call[c].pc = "await"
  /\ call' = [call EXCEPT ![c] = AfterError(@)]
  /\ UNCHANGED <<gateway, run, vm, restarts>>

-----------------------------------------------------------------------------
(* runJob                                                                  *)

\* Mutant of ReleaseSlot: the slot goes to the last of the waiters.
ReleaseSlotNewest(i, next) ==
  \/ /\ waiters = <<>>
     /\ active' = active - 1 /\ rpc' = [rpc EXCEPT ![i] = next]
     /\ UNCHANGED waiters
  \/ /\ waiters # <<>>
     /\ waiters' = SubSeq(waiters, 1, Len(waiters) - 1)
     /\ rpc' = [rpc EXCEPT ![i] = next, ![waiters[Len(waiters)]] = "create"]
     /\ UNCHANGED active

\* Mutant of ReleaseSlot: the counter is lowered and nobody is woken.
ReleaseSlotSilent(i, next) ==
  /\ active' = active - 1 /\ rpc' = [rpc EXCEPT ![i] = next]
  /\ UNCHANGED waiters

\* The counter is lowered and the first waiter, once resumed, raises it again.
ReleaseSlot(i, next) ==
  \/ /\ waiters = <<>>
     /\ active' = active - 1 /\ rpc' = [rpc EXCEPT ![i] = next]
     /\ UNCHANGED waiters
  \/ /\ waiters # <<>>
     /\ waiters' = Tail(waiters)
     /\ rpc' = [rpc EXCEPT ![i] = next, ![Head(waiters)] = "create"]
     /\ UNCHANGED active

\* All handlers that await run i answer 200, or all answer 503; only the first
\* kind removes the run from inFlight.
Resolve(i) ==
  /\ call' = [c \in Callers |-> IF call[c].run = i THEN IdleCall ELSE call[c]]
  /\ inFlight' = [inFlight EXCEPT ![rjob[i]] = NoRun]
  /\ cached' = [cached EXCEPT ![rjob[i]] = TRUE]
  /\ rjob' = [rjob EXCEPT ![i] = NoJob]

Reject(i) ==
  /\ call' = [c \in Callers |-> IF call[c].run = i THEN AfterError(call[c]) ELSE call[c]]
  /\ UNCHANGED <<inFlight, cached, rjob>>

RunCreated(i) ==
  /\ rpc[i] = "create"
  /\ vm' = [vm EXCEPT ![i] = TRUE]
  /\ rpc' = [rpc EXCEPT ![i] = "exec"]
  /\ UNCHANGED <<gateway, rjob, call, restarts>>

\* Sandbox.create fails: there is no sandbox to destroy.
RunNotCreated(i) ==
  /\ rpc[i] = "create"
  /\ ReleaseSlot(i, "rejected")
  /\ Reject(i)
  /\ UNCHANGED <<vm, restarts>>

\* Mutant of RunExecuted: the teardown is not awaited.
RunExecutedEarly(i) ==
  /\ rpc[i] = "exec"
  /\ ReleaseSlot(i, "unused")
  /\ Resolve(i)
  /\ UNCHANGED <<vm, restarts>>

\* The files are written and the profile runs, to an exit code or an exception.
RunExecuted(i) ==
  /\ rpc[i] = "exec"
  /\ \E next \in {"teardown", "teardown_error"} : rpc' = [rpc EXCEPT ![i] = next]
  /\ UNCHANGED <<gateway, rjob, vm, call, restarts>>

\* The finally block: destroy, then releaseSlot, then the result or the error.
RunDestroyed(i) ==
  /\ vm' = [vm EXCEPT ![i] = FALSE]
  /\ \/ rpc[i] = "teardown" /\ ReleaseSlot(i, "unused") /\ Resolve(i)
     \/ rpc[i] = "teardown_error" /\ ReleaseSlot(i, "rejected") /\ Reject(i)
  /\ UNCHANGED restarts

\* destroy throws in the finally block, and releaseSlot is not reached.
RunNotDestroyed(i) ==
  /\ rpc[i] \in {"teardown", "teardown_error"}
  /\ rpc' = [rpc EXCEPT ![i] = "leaked"]
  /\ Reject(i)
  /\ UNCHANGED <<active, waiters, vm, restarts>>

RunStep(i) ==
  \/ RunCreated(i) \/ RunNotCreated(i) \/ RunExecuted(i) \/ RunDestroyed(i)
  \/ RunNotDestroyed(i)

-----------------------------------------------------------------------------
(* The environment                                                         *)

\* RESULT_CACHE_MS have passed; the entry is ignored, and swept later.
CacheExpires(j) ==
  /\ cached[j]
  /\ cached' = [cached EXCEPT ![j] = FALSE]
  /\ UNCHANGED <<active, waiters, inFlight, run, vm, call, restarts>>

\* Railway removes a VM that nothing uses (idleTimeoutMinutes).
VMExpires(i) ==
  /\ vm[i] /\ rpc[i] \notin Running
  /\ vm' = [vm EXCEPT ![i] = FALSE]
  /\ UNCHANGED <<gateway, run, call, restarts>>

\* The gateway process is replaced: its maps are gone, its VMs are not, and
\* its clients see a lost connection.
Restart ==
  /\ restarts < MaxRestarts /\ restarts' = restarts + 1
  /\ active' = 0 /\ waiters' = <<>>
  /\ inFlight' = [j \in Jobs |-> NoRun] /\ cached' = [j \in Jobs |-> FALSE]
  /\ rpc' = [i \in Runs |-> "unused"] /\ rjob' = [i \in Runs |-> NoJob]
  /\ call' = [c \in Callers |->
                IF call[c].pc = "await" THEN AfterError(call[c]) ELSE call[c]]
  /\ UNCHANGED vm

Next ==
  \/ \E c \in Callers :
       \/ \E j \in Jobs : Begin(c, j)
       \/ SendCached(c) \/ SendJoin(c) \/ SendStart(c) \/ CallTimesOut(c)
  \/ \E i \in Runs : RunStep(i) \/ VMExpires(i)
  \/ \E j \in Jobs : CacheExpires(j)
  \/ Restart

Spec == Init /\ [][Next]_vars

\* The SDK answers or throws, exec at its timeoutSec at the latest, and a
\* resumed promise runs.
Fairness == \A i \in Runs : WF_vars(RunStep(i))

FairSpec == Spec /\ Fairness

-----------------------------------------------------------------------------
(* Properties                                                              *)

\* The process never runs more VMs than MAX_CONCURRENT, nor leaves more behind:
\* a slot whose VM could not be destroyed is not given to another run.
VMsBounded ==
  /\ Cardinality(Occupied) <= MaxConcurrent
  /\ Cardinality({i \in Runs : vm[i]}) <= MaxConcurrent * (restarts + 1)

\* No run waits while a slot is free: releaseSlot loses no waiter, however
\* requests, failures and timeouts are ordered.
NoLostWakeup == waiters # <<>> => active >= MaxConcurrent

\* A job never has two runs at once, whatever retries and timeouts resend it.
OneRunPerJob ==
  \A i, k \in Runs :
    rpc[i] \in Unsettled /\ rpc[k] \in Unsettled /\ rjob[i] = rjob[k] => i = k

\* A result says workspace_destroyed: when a job's result is published, no run of
\* that job, not even one the callers have given up, has a VM left.
ResultMeansDestroyed ==
  [][\A i \in Runs :
       rjob[i] # NoJob /\ ~cached[rjob[i]] /\ cached'[rjob[i]] => ~vm'[i]]_vars

\* A waiting run gets a slot in the end unless every slot has been leaked or the
\* gateway is replaced.
WaitingRunStarts ==
  \A i \in Runs :
    []<>(rpc[i] # "waiting" \/ Cardinality({k \in Runs : rpc[k] = "leaked"}) = MaxConcurrent)

\* README.md: "Transient sandbox capacity and transport failures are retried three
\* times": a retry is answered by a run that has not already failed.
RetryRunsAgain ==
  [][\A c \in Callers :
       call[c].pc = "send" /\ call[c].tries > 0 /\ call'[c] # call[c] =>
         cached[call[c].job] \/ call'[c].pc = "await"]_vars
=============================================================================

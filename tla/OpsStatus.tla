------------------------------ MODULE OpsStatus ------------------------------
(***************************************************************************)
(* What Central Operations (ops_dashboard/app.py) concludes from what it   *)
(* was told: the status of a monitored endpoint, of a local system and of  *)
(* a repository, the list of open actions and the overall status.  All of  *)
(* it is computed afresh for every overview; OpsDashboard has the rows,    *)
(* the cache and the backup that outlive one.  Names, messages, latencies  *)
(* and links are abstracted; a reason is the answer it was taken from.     *)
(***************************************************************************)
EXTENDS Integers, Sequences, FiniteSets

\* What an endpoint may answer after the retry of request_with_retry.
Answers == {"timeout", "server_error", "client_error", "not_json", "warning", "ok", "silent"}

\* classify_health_payload; a payload without a status passes for healthy.
ClassifyPayload(answer) ==
  IF answer \in {"ok", "silent"} THEN "healthy" ELSE "degraded"

\* fetch_http_monitor, without the row it records.
MonitorStatus(critical, answer) ==
  CASE answer = "timeout"      -> IF critical THEN "down" ELSE "degraded"
    [] answer = "server_error" -> "down"
    [] answer = "client_error" -> "degraded"
    [] OTHER                   -> ClassifyPayload(answer)

\* fetch_alpaca_detail: any dictionary answered with 200 will do.
AlpacaStatus(connected, answer) ==
  IF ~connected THEN "unavailable"
  ELSE IF answer \in {"ok", "warning", "silent"} THEN "healthy" ELSE "degraded"

\* One entry of OpsStore.heartbeats; beat is [status, age] or NoBeat.
NoBeat == [status |-> "none", age |-> 0]
StaleAfter == 180
Good == {"ok", "healthy", "ready"}

BeatStatus(beat) ==
  IF beat = NoBeat THEN "waiting"
  ELSE IF beat.age > StaleAfter THEN "stale"
  ELSE IF beat.status \in Good THEN "healthy" ELSE "degraded"

\* fetch_repository_status: what GitHub says of the latest commit and of its CI.
RepositoryStatus(private, token, commit, ci) ==
  IF commit = "missing" /\ private /\ ~token THEN "auth_needed"
  ELSE IF commit # "found" \/ ci = "failed" THEN "degraded" ELSE "healthy"

-----------------------------------------------------------------------------
\* An overview is computed from lists of statuses, the monitors with their
\* criticality: [cloud, local, repos, backup, alpaca, bounty].

\* bounty_cloud_budget (app.py) as the health endpoint reports it, and
\* dict.get, which answers None for a key that is not there.
Budget(jobs, calls) ==
  [k \in {"jobs_remaining", "calls_remaining"} |-> IF k = "jobs_remaining" THEN jobs ELSE calls]
Get(dict, key) == IF key \in DOMAIN dict THEN <<dict[key]>> ELSE <<>>

BudgetExhausted(budget) ==
  Get(budget, "remaining_jobs") = <<0>> \/ Get(budget, "remaining_calls") = <<0>>

When(condition, severity) == IF condition THEN severity ELSE "none"

MonitorSeverity(monitor) ==
  CASE monitor.status = "down"     -> "critical"
    [] monitor.status = "degraded" -> "warning"
    [] OTHER                       -> "none"

\* Mutant of AlpacaSeverity: an unavailable dashboard counts as paper trading.
AlpacaSeverityQuiet(alpaca) ==
  IF alpaca.status # "healthy" THEN "none"
  ELSE IF alpaca.mode \notin {"", "PAPER"} THEN "critical"
  ELSE When(alpaca.failures > 0, "warning")

AlpacaSeverity(alpaca) ==
  IF alpaca.status # "healthy" THEN "warning"
  ELSE IF alpaca.mode \notin {"", "PAPER"} THEN "critical"
  ELSE When(alpaca.failures > 0, "warning")

\* What action_center looks at, in its order; "none" adds no action.
Considered(view) ==
  LET cloud == [i \in DOMAIN view.cloud |-> MonitorSeverity(view.cloud[i])]
      local == [i \in DOMAIN view.local |->
                  When(view.local[i] \in {"waiting", "stale", "degraded"}, "warning")]
      repos == [i \in DOMAIN view.repos |-> When(view.repos[i] = "degraded", "warning")]
      rest  == << When(view.backup # "healthy", "warning"),
                  AlpacaSeverity(view.alpaca),
                  When(view.bounty.worker = "no", "critical"),
                  When(view.bounty.model = "no", "warning"),
                  When(BudgetExhausted(view.bounty.budget), "warning") >>
  IN cloud \o local \o repos \o rest

\* The actions, named by their places in that order.
Raised(all) == {k \in DOMAIN all : all[k] # "none"}
RaisedBefore(all, k) == {j \in Raised(all) : j < k}

MaxActions == 12

\* action_center returns the first twelve.
ActionCenter(all) == {k \in Raised(all) : Cardinality(RaisedBefore(all, k)) < MaxActions}

Some(list, statuses) == \E i \in DOMAIN list : list[i] \in statuses
Statuses(cloud) == [i \in DOMAIN cloud |-> cloud[i].status]

ComputeOverall(cloud, local, repos) ==
  IF \E i \in DOMAIN cloud : cloud[i].critical /\ cloud[i].status = "down" THEN "critical"
  ELSE IF \/ Some(Statuses(cloud), {"down", "degraded"})
          \/ Some(local, {"stale", "degraded"})
          \/ Some(repos, {"degraded"})
       THEN "degraded"
  ELSE IF Some(local, {"waiting"}) THEN "attention" ELSE "healthy"

\* The overall status that GET /api/overview answers.
Overall(view) ==
  LET computed == ComputeOverall(view.cloud, view.local, view.repos)
      all      == Considered(view)
      actions  == ActionCenter(all)
  IN IF \E k \in actions : all[k] = "critical" THEN "critical"
     ELSE IF computed = "healthy" /\ actions # {} THEN "attention"
     ELSE computed

-----------------------------------------------------------------------------
\* summarize_bounty takes the details of the bounty builder's monitor, which has
\* them when the answer was JSON; the service always says its worker is enabled.
SummarizeBounty(answer, details) ==
  IF answer \in {"ok", "warning", "silent"}
  THEN [worker |-> "yes", model |-> details.model, budget |-> Budget(details.jobs, details.calls)]
  ELSE [worker |-> "unknown", model |-> "unknown", budget |-> <<>>]

\* The inputs of overview from what the endpoints answer and the rows hold:
\* cloud is a list of [critical, answer], the bounty builder first.
View(world) ==
  [cloud  |-> [i \in DOMAIN world.cloud |->
                 [critical |-> world.cloud[i].critical,
                  status   |-> MonitorStatus(world.cloud[i].critical, world.cloud[i].answer)]],
   local  |-> [i \in DOMAIN world.beats |-> BeatStatus(world.beats[i])],
   repos  |-> [i \in DOMAIN world.repos |->
                 RepositoryStatus(world.repos[i].private, world.token,
                                  world.repos[i].commit, world.repos[i].ci)],
   backup |-> world.backup,
   alpaca |-> [status   |-> AlpacaStatus(world.alpaca.connected, world.alpaca.answer),
               mode     |-> world.alpaca.mode,
               failures |-> world.alpaca.failures],
   bounty |-> SummarizeBounty(world.cloud[1].answer, world.details)]
=============================================================================

------------------------------ MODULE Decisions ------------------------------
(***************************************************************************)
(* The decisions that the system takes from what it was told: an overview  *)
(* of Central Operations (OpsStatus), the gate on an issue and the scans   *)
(* that apply it (Scout), a build and its reviews (JobBuild).  They share  *)
(* no state; a behaviour is an overview, an issue, scans or builds.        *)
(***************************************************************************)
EXTENDS OpsStatus, Scout, JobBuild

CONSTANTS
  Worlds,                          \* what an overview may be told
  Found,                           \* the id of a single issue
  Rewards, Clarities, LinkCounts   \* what that issue may claim, and its timeline show

\* the runs of a commit are asked for when it was found
AnyRepo ==
  {repo \in [private : BOOLEAN, commit : {"found", "missing", "raises"},
             ci : {"none", "passed", "failed", "running"}] :
     repo.commit # "found" => repo.ci = "none"}

AnyWorld ==
  [cloud   : Seq([critical : BOOLEAN, answer : Answers]) \ {<<>>},
   beats   : Seq([status : STRING, age : Nat]),
   repos   : Seq(AnyRepo),
   token   : BOOLEAN,
   backup  : {"healthy", "degraded"},
   alpaca  : [connected : BOOLEAN, answer : Answers, mode : STRING, failures : Nat],
   details : [model : {"yes", "no"}, jobs : Nat, calls : Nat]]

ASSUME DecisionsAssumption ==
  /\ Worlds \subseteq AnyWorld
  /\ Rewards \subseteq Nat /\ Clarities \subseteq 0 .. 100 /\ LinkCounts \subseteq Nat

Issues ==
  [id : {Found}, policy : {TRUE}, repo : {"found"}, license : BOOLEAN,
   timeline : Timelines, links : LinkCounts, assigned : BOOLEAN,
   plausible : BOOLEAN, reward : Rewards, labelled : BOOLEAN, clarity : Clarities]

VARIABLES part, input

NoInput == "none"

Init ==
  /\ ScanInit /\ BuildInit
  /\ \/ part = "overview" /\ input \in Worlds
     \/ part = "issue" /\ input \in Issues
     \/ part \in {"scan", "build"} /\ input = NoInput

Next ==
  /\ \/ part = "scan" /\ ScanNext /\ UNCHANGED buildVars
     \/ part = "build" /\ BuildNext /\ UNCHANGED scanVars
     \/ part \in {"overview", "issue"} /\ UNCHANGED <<scanVars, buildVars>>
  /\ UNCHANGED <<part, input>>

Spec == Init /\ [][Next]_<<scanVars, buildVars, part, input>>

-----------------------------------------------------------------------------
(* Overviews                                                               *)

AllGood(world) ==
  /\ \A i \in DOMAIN world.cloud : world.cloud[i].answer \in {"ok", "silent"}
  /\ \A i \in DOMAIN world.beats : world.beats[i].status \in Good /\ world.beats[i].age <= 180
  /\ \A i \in DOMAIN world.repos :
       world.repos[i].ci # "failed" /\ world.repos[i].commit \in {"found", "missing"}
  /\ world.backup = "healthy"
  /\ world.alpaca.connected /\ world.alpaca.answer \in {"ok", "warning", "silent"}
  /\ world.alpaca.mode \in {"", "PAPER"} /\ world.alpaca.failures = 0
  /\ world.details.model = "yes"

\* "healthy" hides nothing
HidesNothing(world) == Overall(View(world)) = "healthy" => AllGood(world)

\* a monitor that is down makes the overview critical, unless it is not a critical
\* one and stands behind those that may have filled the list of actions
DownIsCritical(world) ==
  \A i \in DOMAIN world.cloud :
    LET monitor == world.cloud[i] IN
    /\ MonitorStatus(monitor.critical, monitor.answer) = "down"
    /\ monitor.critical \/ i <= MaxActions
    => Overall(View(world)) = "critical"

\* trading that is seen not to be on paper makes the overview critical, unless
\* twelve actions come before it in the list, which is then cut
LiveIsCritical(world) ==
  LET view == View(world)
      all == Considered(view)
      place == Len(all) - 3
  IN view.alpaca.status = "healthy" /\ view.alpaca.mode \notin {"", "PAPER"} =>
       \/ Overall(view) = "critical"
       \/ Cardinality(RaisedBefore(all, place)) >= MaxActions

(* The word at the top of the page is honest.  "healthy" hides nothing:    *)
(* all endpoints answered well, every local system was heard of in the     *)
(* last 180 s and is well, no repository failed, the backup is there, and  *)
(* trading was seen on paper without failures.  And no outage and no       *)
(* trading with money stays below "critical"                               *)
(* (ops_dashboard/app.py:823, 826, 926).                                   *)
OverallIsHonest ==
  part = "overview" =>
    HidesNothing(input) /\ DownIsCritical(input) /\ LiveIsCritical(input)

-----------------------------------------------------------------------------
(* Issues                                                                  *)

Approved(issue) == EvaluateIssue(issue) # NoItem /\ EvaluateIssue(issue).approved

\* What is approved is not taken: nobody is assigned and at most two pull
\* requests of the timeline's first page refer to it, unless the timeline came
\* with a body that could not be read; a refused or a lost one does not approve.
Uncontested(issue) ==
  /\ ~issue.assigned
  /\ issue.timeline \notin {"refused", "raises"}
  /\ issue.links <= MaxCompeting \/ issue.timeline = "unreadable"

\* issues that are better in one respect
Improved(issue) ==
  {[issue EXCEPT !.reward = r] : r \in {x \in Rewards : x > issue.reward /\ x <= MaxReward}} \cup
  {[issue EXCEPT !.clarity = c] : c \in {x \in Clarities : x > issue.clarity}} \cup
  {[issue EXCEPT !.links = n] : n \in {x \in LinkCounts : x < issue.links}} \cup
  {[issue EXCEPT !.license = TRUE], [issue EXCEPT !.assigned = FALSE],
   [issue EXCEPT !.plausible = TRUE], [issue EXCEPT !.labelled = TRUE]}

(* An approval is sound: nothing contests it, and better evidence never    *)
(* turns it into a rejection.  The two roundings, the weights of the score *)
(* and the return on effort do not work against each other                 *)
(* (discovery.py:97, risk_compliance_agent.py:116).                        *)
ApprovalIsSound ==
  part = "issue" /\ Approved(input) =>
    Uncontested(input) /\ \A better \in Improved(input) : Approved(better)
=============================================================================

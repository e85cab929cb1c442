-------------------------------- MODULE Scout --------------------------------
(***************************************************************************)
(* Scans for bounties: opportunity_scout.py asks GitHub its queries,       *)
(* discovery.py turns every issue into an item that the gate of            *)
(* risk_compliance_agent.py approves or rejects, the items are             *)
(* deduplicated and cut, and scan_once of app.py stores them.  BountyWork  *)
(* has what happens between the store calls of a scan; here is what a      *)
(* scan computes, and what one scan leaves to the next.                    *)
(*                                                                         *)
(* An issue is what GitHub tells of it when a query finds it:              *)
(*   [id, policy, repo, license, timeline, links, assigned, plausible,     *)
(*    reward, labelled, clarity]                                           *)
(* its texts are abstracted to what policy.py and the analyst see in them, *)
(* the reward is in whole dollars, probabilities are in percent.  links    *)
(* counts the pull requests on the first page of the timeline.  Two        *)
(* queries may find one issue, and GitHub may tell them different things.  *)
(***************************************************************************)
EXTENDS Integers, Sequences, FiniteSets

CONSTANTS
  Searchable,  \* the issues that searches may find
  Queries,     \* the number of queries of a scan
  MaxItems     \* max_items

Timelines == {"read", "long", "unreadable", "refused", "raises"}
AnyIssue(ids) ==
  [id : ids, policy : BOOLEAN, repo : {"found", "refused", "raises"}, license : BOOLEAN,
   timeline : Timelines, links : Nat, assigned : BOOLEAN,
   plausible : BOOLEAN, reward : Nat, labelled : BOOLEAN, clarity : 0 .. 100]

ASSUME ScoutAssumption ==
  /\ Searchable \subseteq AnyIssue({issue.id : issue \in Searchable})
  /\ Queries \in Nat /\ MaxItems \in Nat \ {0}

VARIABLES
  approved,  \* the issues whose row is APPROVED
  phase,     \* "idle", "search", or "stored" after a scan
  query,     \* the query that is asked next
  listed,    \* issues of its answer that were evaluated
  errors,    \* query_errors
  winners,   \* the values of the dictionary in deduplicate, in its order
  seen,      \* history: the evaluations of this scan
  before     \* history: what was approved when it began

scanVars == <<approved, phase, query, listed, errors, winners, seen, before>>

\* Python's round of n / d, which rounds halves to the even neighbour.
RoundRatio(n, d) ==
  LET low == n \div d
      rest == 2 * (n % d)
  IN IF rest > d \/ (rest = d /\ low % 2 = 1) THEN low + 1 ELSE low

Least(a, b) == IF a < b THEN a ELSE b
Greatest(a, b) == IF a > b THEN a ELSE b

-----------------------------------------------------------------------------
(* The gate: evaluate_risk with its default limits                         *)

MaxReward == 100000
MaxHours == 40
MaxCashCost == 25
MinConfidence == 60
MaxAmbiguity == 6
MaxLegalRisk == 2
MaxCompeting == 2
MinScore == 55
HourlyCost == 3

HardStops(input) ==
  \/ ~input.claim_valid
  \/ input.reward > MaxReward \/ input.reward <= 0
  \/ input.success \notin 0 .. 100
  \/ input.hours \notin 0 .. MaxHours \/ input.cash \notin 0 .. MaxCashCost
  \/ ~input.license_ok \/ ~input.terms_ok
  \/ input.confidence \notin MinConfidence .. 100
  \/ input.ambiguity \notin 0 .. MaxAmbiguity \/ input.legal \notin 0 .. MaxLegalRisk
  \/ input.assigned \/ ~input.competition_complete
  \/ input.competing \notin 0 .. MaxCompeting

\* In cents, for an input that passed the hard stops.
ExpectedValue(input) ==
  RoundRatio(input.reward * input.success * input.confidence, 100)
    - 100 * (input.cash + input.hours * HourlyCost)

\* Mutant of RiskScore: the ambiguity is weighted in place of the clarity.
RiskScoreOfAmbiguity(input) ==
  LET value == Least(100 * input.reward, Greatest(0, ExpectedValue(input)))
      fixed == 30 * input.success + 25 * input.confidence + 20 * 10 * input.ambiguity
                 + 15 * (100 - 10 * input.legal)
  IN RoundRatio(fixed * input.reward + 10 * value, 100 * input.reward)

\* The weighted score, as one fraction whose denominator is the reward.
RiskScore(input) ==
  LET value == Least(100 * input.reward, Greatest(0, ExpectedValue(input)))
      fixed == 30 * input.success + 25 * input.confidence + 20 * (100 - 10 * input.ambiguity)
                 + 15 * (100 - 10 * input.legal)
  IN RoundRatio(fixed * input.reward + 10 * value, 100 * input.reward)

EvaluateRisk(input) ==
  IF HardStops(input) THEN [approved |-> FALSE, score |-> 0]
  ELSE [approved |-> ExpectedValue(input) >= 100 /\ RiskScore(input) >= MinScore,
        score |-> RiskScore(input)]

-----------------------------------------------------------------------------
(* GitHubDiscovery.evaluate                                                *)

\* timeline_complete is set as soon as the answer is a 200, before its body is
\* read: a body that is not JSON leaves no pull request and a complete timeline.
\* Only the first hundred events are asked for ("long" has more).
Competition(issue) ==
  [assigned |-> issue.assigned,
   complete |-> issue.timeline \in {"read", "long", "unreadable"},
   linked   |-> IF issue.timeline \in {"read", "long"} THEN issue.links ELSE 0]

\* parse_reward_claim: one implausible amount spoils them all.
RewardClaim(issue) ==
  [reward |-> IF issue.plausible THEN issue.reward ELSE 0, valid |-> issue.plausible]

Confidence(reward, labelled) ==
  IF reward <= 0 THEN 0 ELSE IF labelled THEN 70 ELSE 60

RiskInput(issue) ==
  LET competition == Competition(issue)
      claim == RewardClaim(issue)
  IN [reward |-> claim.reward, claim_valid |-> claim.valid,
      success |-> 35, hours |-> 8, cash |-> 0, legal |-> 1,
      license_ok |-> issue.license, terms_ok |-> issue.policy,
      confidence |-> Confidence(claim.reward, issue.labelled),
      ambiguity |-> Greatest(0, 10 - RoundRatio(issue.clarity, 10)),
      assigned |-> competition.assigned,
      competing |-> competition.linked,
      competition_complete |-> competition.complete]

NoItem == [id |-> "none"]

\* A refused repository makes no item, and neither does an exception in the call.
EvaluateIssue(issue) ==
  IF ~issue.policy \/ issue.repo # "found" THEN NoItem
  ELSE LET decision == EvaluateRisk(RiskInput(issue))
       IN [id |-> issue.id, approved |-> decision.approved, score |-> decision.score,
           reward |-> RewardClaim(issue).reward]

-----------------------------------------------------------------------------
(* OpportunityScout.scan                                                   *)

\* The order of the ranks (status, risk_score, reward).
Above(x, y) ==
  \/ x.approved /\ ~y.approved
  \/ /\ x.approved = y.approved
     /\ x.score > y.score \/ (x.score = y.score /\ x.reward > y.reward)

Known(items, item) == \E k \in DOMAIN items : items[k].id = item.id

\* Mutant of Deduplicate: the first evaluation of an issue stays.
DeduplicateFirst(items, item) == IF Known(items, item) THEN items ELSE Append(items, item)

\* One turn of the loop of deduplicate.  It runs over all items at the end of a
\* scan; nothing else reads them before, so that a turn may follow each evaluation.
Deduplicate(items, item) ==
  IF Known(items, item)
  THEN [k \in DOMAIN items |->
          IF items[k].id = item.id /\ Above(item, items[k]) THEN item ELSE items[k]]
  ELSE Append(items, item)

\* unique.sort(reverse=True) is stable; the report is cut at max_items.
Preceding(items, k) ==
  {j \in DOMAIN items : \/ Above(items[j], items[k])
                        \/ j < k /\ ~Above(items[k], items[j])}
Reported(items) == {k \in DOMAIN items : Cardinality(Preceding(items, k)) < MaxItems}
Opportunities(items) == {items[k] : k \in Reported(items)}

\* Mutant of ScanOnce: approvals are swept although a query failed.
ScanOnceSweeping(items) == {item.id : item \in {i \in Opportunities(items) : i.approved}}

\* save_opportunity for every item, and reject_unseen_approvals if no query failed.
ScanOnce(items) ==
  LET saved == {item.id : item \in {i \in Opportunities(items) : i.approved}}
  IN IF errors = 0 THEN saved
     ELSE (approved \ {item.id : item \in Opportunities(items)}) \cup saved

-----------------------------------------------------------------------------
ScanInit ==
  /\ approved = {} /\ phase = "idle"
  /\ query = 1 /\ listed = 0 /\ errors = 0 /\ winners = <<>>
  /\ seen = {} /\ before = {}

ScanBegin ==
  /\ phase # "search"
  /\ phase' = "search"
  /\ query' = 1 /\ listed' = 0 /\ errors' = 0 /\ winners' = <<>>
  /\ seen' = {} /\ before' = approved
  /\ UNCHANGED approved

\* a search that fails, or whose answer cannot be read
QueryFails ==
  /\ phase = "search" /\ query <= Queries /\ listed = 0
  /\ query' = query + 1 /\ errors' = errors + 1
  /\ UNCHANGED <<approved, phase, listed, winners, seen, before>>

\* per_query is max_items
Evaluate(issue) ==
  /\ phase = "search" /\ query <= Queries /\ listed < MaxItems
  /\ listed' = listed + 1
  /\ LET item == EvaluateIssue(issue) IN
     IF item = NoItem THEN UNCHANGED <<winners, seen>>
     ELSE winners' = Deduplicate(winners, item) /\ seen' = seen \cup {item}
  /\ UNCHANGED <<approved, phase, query, errors, before>>

QueryEnds ==
  /\ phase = "search" /\ query <= Queries
  /\ query' = query + 1 /\ listed' = 0
  /\ UNCHANGED <<approved, phase, errors, winners, seen, before>>

ScanStores ==
  /\ phase = "search" /\ query > Queries
  /\ approved' = ScanOnce(winners)
  /\ phase' = "stored"
  /\ UNCHANGED <<query, listed, errors, winners, seen, before>>

\* what scan does not catch, scan_once does before anything is stored
ScanRaises ==
  /\ phase = "search"
  /\ phase' = "idle"
  /\ UNCHANGED <<approved, query, listed, errors, winners, seen, before>>

ScanNext ==
  \/ ScanBegin \/ QueryFails \/ QueryEnds \/ ScanStores \/ ScanRaises
  \/ \E issue \in Searchable : Evaluate(issue)

ScanSpec == ScanInit /\ [][ScanNext]_scanVars

-----------------------------------------------------------------------------
Approving(id) == {item \in seen : item.id = id /\ item.approved}

(* However the queries overlap and in whatever order they tell of an       *)
(* issue, every evaluation is outdone by what the report says of that      *)
(* issue, or by max_items others (opportunity_scout.py:53, 124).           *)
StrongestIsReported ==
  phase = "search" =>
    LET report == Opportunities(winners) IN
    \A item \in seen :
      \/ \E x \in report : x.id = item.id /\ ~Above(item, x)
      \/ Cardinality({x \in report : x.id # item.id /\ ~Above(item, x)}) >= MaxItems

(* After a scan an issue is approved only on evidence: an evaluation of    *)
(* this scan approved it, or a query failed and it was approved before.    *)
(* And an approval is taken back only on evidence: nothing approved the    *)
(* issue in a scan that was complete or that told of it, or a complete     *)
(* scan stored max_items other approvals (app.py:361, store.py:309).       *)
ApprovalFollowsEvidence ==
  phase = "stored" =>
    /\ \A id \in approved : Approving(id) # {} \/ (errors > 0 /\ id \in before)
    /\ \A id \in before \ approved :
         \/ Approving(id) = {} /\ (errors = 0 \/ \E item \in seen : item.id = id)
         \/ errors = 0 /\ Cardinality(approved) >= MaxItems
=============================================================================

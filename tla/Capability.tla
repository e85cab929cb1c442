---------------------------- MODULE Capability ----------------------------
(***************************************************************************)
(* What the rest of the program concludes from the practice evidence:      *)
(* skill_profile (store.py), capability certificates and authority         *)
(* (authority_engine.py), readiness for client jobs and for bounties       *)
(* (client_job_builder.py, task_readiness.py).                             *)
(***************************************************************************)
EXTENDS Training

\* mutant of Evidence: drills that did not pass are counted as well
EvidenceOfAll(rows) == rows
\* skill_profile selects the verified rows
Evidence(rows) == Passes(rows)

\* the average score is at least a, if there is one
Averages(rows, a) == Total(rows) >= a * Cardinality(rows)

Tiers == <<"UNVERIFIED", "PROVISIONAL", "VERIFIED", "MASTERED">>
TierRank(rows, s) ==
    LET of == OfSkill(Evidence(rows), s)
        Meets(passes, score, difficulty) ==
            Cardinality(of) >= passes /\ Averages(of, score) /\ Hardest(of) >= difficulty
    IN IF Meets(5, 95, 5) THEN 4 ELSE IF Meets(2, 90, 4) THEN 3
       ELSE IF of # {} THEN 2 ELSE 1
Tier(rows, s) == Tiers[TierRank(rows, s)]
Certified(rows, s) == Tier(rows, s) \in {"VERIFIED", "MASTERED"}

\* the language and the difficulty asked of every task
Proficient(rows, l) ==
    /\ Cardinality(OfLanguage(Evidence(rows), l)) >= 3
    /\ Averages(OfLanguage(Evidence(rows), l), 90)
    /\ Hardest(Evidence(rows)) >= 5

ClientReady(rows, required, l) ==
    /\ Proficient(rows, l)
    /\ \A s \in required : Cardinality(OfSkill(Evidence(rows), s)) >= 2

\* sound: the risk is approved, the requirements are clear, the plan has tests
TaskReady(rows, required, l, sound) ==
    /\ sound /\ Proficient(rows, l)
    /\ \A s \in required : OfSkill(Evidence(rows), s) # {}

HumanActions == {"approve_quote", "accept_contract", "charge_payment", "public_submission",
                 "merge_client_code", "final_delivery", "release_payment", "promote_learning"}
Unconditional == {"analyze", "train", "plan", "security_scan"}
Conditional == {"isolated_build", "repair", "test", "package_for_review"}

\* isolated: the VM was ephemeral and held no credentials; complete: the tests and the
\* inspection passed, the workspace is gone and the consensus was unanimous
DecideAuthority(action, required, rows, isolated, complete) ==
    IF action \in HumanActions THEN "DANIEL_APPROVAL_REQUIRED"
    ELSE IF \/ action \in Unconditional
            \/ /\ action \in Conditional /\ isolated
               /\ \A s \in required : Certified(rows, s)
               /\ action = "package_for_review" => complete
         THEN "AUTO_APPROVED_INTERNAL"
         ELSE "DENIED"

-----------------------------------------------------------------------------
Languages == {Language[e] : e \in Catalog}

\* what a skill is good for with one set of rows it is good for with another
Keeps(s, rows, later) ==
    /\ Qualified(rows, s) => Qualified(later, s)
    /\ TierRank(rows, s) <= TierRank(later, s)
    /\ DecideAuthority("isolated_build", {s}, rows, TRUE, TRUE) # "DENIED"
          => DecideAuthority("isolated_build", {s}, later, TRUE, TRUE) # "DENIED"
    /\ \A l \in Languages :
          /\ ClientReady(rows, {s}, l) => ClientReady(later, {s}, l)
          /\ TaskReady(rows, {s}, l, TRUE) => TaskReady(later, {s}, l, TRUE)

(* A standing once reached is kept while jobs that relied on it are built, *)
(* however later drills end (README.md:136): no qualification, tier or     *)
(* readiness is lost, so what client_readiness or evaluate_task_readiness  *)
(* admitted is still ready, and an action authorized for it is still       *)
(* authorized, when its build has ended.                                   *)
StandingKept ==
    [][history # history' => \A s \in Skills : Keeps(s, history, history')]_vars
=============================================================================

------------------------------ MODULE JobBuild ------------------------------
(***************************************************************************)
(* ClientJobBuilder.build (client_job_builder.py): up to three attempts of *)
(* a model to change the files of a job, each inspected (code_inspector.py)*)
(* and run in a sandbox, and the independent reviews of the result         *)
(* (review_consensus.py).  BountyWork and ClientWork take from a build     *)
(* whether it raised and whether its last run passed; here is which files  *)
(* its result, its change set and its evidence are about.                  *)
(*                                                                         *)
(* Files are functions from paths to contents; Secret is content that the  *)
(* inspection blocks or safe_files refuses.  A changed file counts for one *)
(* line of the change budget.  What the model and the sandbox answer to an *)
(* attempt is an input; a run says whether it was isolated, which is on an *)
(* ephemeral VM that was destroyed and had no credentials.                 *)
(***************************************************************************)
EXTENDS Integers, Sequences, FiniteSets

CONSTANTS
  Paths, Texts, Secret,  \* paths and contents of files
  MaxChangedFiles,       \* max_changed_files
  MaxAttempts            \* max_attempts

ASSUME JobBuildAssumption ==
  /\ IsFiniteSet(Paths) /\ Secret \notin Texts
  /\ MaxChangedFiles \in Nat \ {0} /\ MaxAttempts \in 1 .. 3

Files == UNION {[P -> Texts \cup {Secret}] : P \in SUBSET Paths}
Runs == [status : {"PASSED", "FAILED"}, isolated : BOOLEAN]

VARIABLES
  job,         \* [source, criteria]: its files, and whether it has acceptance criteria
  building,    \* "idle", "trying", "done" or "raised"
  candidate,   \* the files that the next attempt starts from
  changes,     \* changed
  inspection,
  attempts,    \* the run of each attempt
  ran          \* history: the files that were run last

buildVars == <<job, building, candidate, changes, inspection, attempts, ran>>

NoFiles == [path \in {} |-> Secret]

\* {**files, **proposed}
Overlay(files, proposed) ==
  [path \in DOMAIN files \cup DOMAIN proposed |->
     IF path \in DOMAIN proposed THEN proposed[path] ELSE files[path]]

ChangedFiles(source, output) ==
  {path \in DOMAIN output : path \notin DOMAIN source \/ source[path] # output[path]}

\* inspect_code
Inspect(source, output) ==
  LET changed == Cardinality(ChangedFiles(source, output))
  IN [passed  |-> changed <= MaxChangedFiles /\ \A path \in DOMAIN output : output[path] # Secret,
      changed |-> changed]

BuildInit ==
  /\ job = [source |-> NoFiles, criteria |-> FALSE]
  /\ building = "idle"
  /\ candidate = NoFiles /\ changes = {} /\ attempts = <<>> /\ ran = NoFiles
  /\ inspection = Inspect(NoFiles, NoFiles)

\* safe_files and the preflight
BuildBegin(source, criteria) ==
  /\ building # "trying"
  /\ job' = [source |-> source, criteria |-> criteria]
  /\ building' = IF source # NoFiles /\ Inspect(source, source).passed THEN "trying" ELSE "raised"
  /\ candidate' = source /\ changes' = {} /\ attempts' = <<>> /\ ran' = NoFiles
  /\ inspection' = Inspect(source, source)

\* the model fails or proposes what the builder refuses, or the sandbox fails
AttemptRaises ==
  /\ building = "trying"
  /\ building' = "raised"
  /\ UNCHANGED <<job, candidate, changes, inspection, attempts, ran>>

\* mutant of NextCandidate: the loop is left before the candidate is replaced
NextCandidateUnlessPassed(combined, run) == IF run.status = "PASSED" THEN candidate ELSE combined
NextCandidate(combined, run) == combined

\* One turn of the loop.  The change set is taken against the source, so that an
\* attempt that restores it raises; the next prompt starts from what was combined.
Attempt(proposed, run) ==
  LET combined == Overlay(candidate, proposed)
      changed == ChangedFiles(job.source, combined)
  IN /\ building = "trying"
     /\ proposed # NoFiles /\ changed # {} /\ Inspect(job.source, combined).passed
     /\ changes' = changed
     /\ inspection' = Inspect(job.source, combined)
     /\ ran' = combined
     /\ attempts' = Append(attempts, run)
     /\ candidate' = NextCandidate(combined, run)
     /\ building' = IF run.status = "PASSED" \/ Len(attempts') = MaxAttempts
                    THEN "done" ELSE "trying"
     /\ UNCHANGED job

BuildNext ==
  \/ \E source \in Files, criteria \in BOOLEAN : BuildBegin(source, criteria)
  \/ AttemptRaises
  \/ \E proposed \in Files, run \in Runs : Attempt(proposed, run)

BuildSpec == BuildInit /\ [][BuildNext]_buildVars

-----------------------------------------------------------------------------
LastRun == attempts[Len(attempts)]

\* review_consensus: unanimous if all six reviews passed
Unanimous ==
  /\ job.criteria
  /\ LastRun.status = "PASSED"
  /\ inspection.passed /\ LastRun.isolated
  /\ changes # {} /\ inspection.changed <= MaxChangedFiles
  /\ Len(attempts) \in 1 .. 3

BuildResult ==
  [status    |-> IF LastRun.status = "PASSED" THEN "AWAITING_DELIVERY_REVIEW" ELSE "TESTS_FAILED",
   changed   |-> changes,
   output    |-> candidate,
   unanimous |-> Unanimous]

(* What a build hands over is what was tested and judged: its files are    *)
(* those of its last run, its change set is theirs against the source over *)
(* all attempts, within the limit, and without a secret.  It awaits review *)
(* after the first run that passed, and its reviews contradict that only   *)
(* where they know more: they are unanimous for such a build and for no    *)
(* other, unless criteria are missing or the run was not isolated          *)
(* (client_job_builder.py:104).                                            *)
ResultIsTested ==
  building = "done" =>
    /\ BuildResult.output = ran
    /\ BuildResult.changed = ChangedFiles(job.source, ran)
    /\ Cardinality(BuildResult.changed) \in 1 .. MaxChangedFiles
    /\ \A path \in DOMAIN ran : ran[path] # Secret
    /\ \A i \in 1 .. Len(attempts) - 1 : attempts[i].status = "FAILED"
    /\ BuildResult.unanimous <=> /\ BuildResult.status = "AWAITING_DELIVERY_REVIEW"
                                 /\ job.criteria /\ LastRun.isolated
=============================================================================

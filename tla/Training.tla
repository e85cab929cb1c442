----------------------------- MODULE Training -----------------------------
(***************************************************************************)
(* The training worker of app.py with its scheduler                        *)
(* (training_scheduler.py), the coding gym (coding_gym.py) and the teacher *)
(* (teacher_agent.py).  practice_runs is a set: evidence_id is unique and  *)
(* made of what a row is here.  Only this worker writes the two tables, so *)
(* what it reads stays true until it writes.  Whether approved work makes  *)
(* a cycle a no-operation is left open, and so is every sandbox run; the   *)
(* retries of a run are in SandboxGateway.                                 *)
(***************************************************************************)
EXTENDS Integers, FiniteSets, Sequences

CONSTANTS CatalogSize,                      \* len(EXERCISES)
          Category, Language, Difficulty,   \* of each exercise
          Rounds,                           \* PRACTICE_ROUNDS_PER_CYCLE
          FormSize,                         \* sequences that share an exam form: 23
          MaxCycles, MaxLost, MaxFaults     \* bounds

Catalog == 0 .. CatalogSize - 1
Skills == {Category[e] : e \in Catalog}

ASSUME TrainingAssumption ==
    /\ CatalogSize \in Nat \ {0} /\ Rounds \in Nat \ {0} /\ FormSize \in 1 .. CatalogSize
    /\ DOMAIN Category = Catalog /\ DOMAIN Language = Catalog
    /\ Difficulty \in [Catalog -> 1 .. 6]
    /\ MaxCycles \in Nat /\ MaxLost \in Nat /\ MaxFaults \in Nat

VARIABLES history,  \* practice_runs
          cycles,   \* teacher_cycles, in the order of their ids
          worker,   \* where the training worker is, with its locals
          begun,    \* history: cycles begun
          done,     \* history: cycles completed
          lost,     \* history: planned runs that left no verified pass
          faults

vars == <<history, cycles, worker, begun, done, lost, faults>>

-----------------------------------------------------------------------------
(* Evidence: what DiagnosticToolchain.run can report to CodingGym.run with *)
(* two attempts.  The starter must fail its tests and the reference        *)
(* solution pass them; a starter that passes or does not end leaves no     *)
(* second attempt, nor does a failure that names the infrastructure.       *)
Outcomes == {"verified", "unrepaired", "not_failed"}

Rows == [sequence : Nat, exercise : Catalog, outcome : Outcomes]

Verified(r) == r.outcome = "verified"

\* 40 points for a baseline that failed and 60 for a repair that passed; only passes
\* are ever averaged, so a repair that passed without a failed baseline is left out
Total(rows) == (40 * Cardinality({r \in rows : r.outcome # "not_failed"}))
               + (60 * Cardinality({r \in rows : Verified(r)}))

Passes(rows) == {r \in rows : Verified(r)}
OfExercise(rows, e) == {r \in rows : r.exercise = e}
OfSkill(rows, s) == {r \in rows : Category[r.exercise] = s}
OfLanguage(rows, l) == {r \in rows : Language[r.exercise] = l}

\* the greatest element of a set of integers, d if it has none
Greatest(S, d) == IF S = {} THEN d ELSE CHOOSE m \in S : \A n \in S : n <= m

Newest(rows) == Greatest({r.sequence : r \in rows}, -1)

-----------------------------------------------------------------------------
(* plan_training *)

Flag(b) == IF b THEN 1 ELSE 0
\* mutant of Priority: the stalest exercise is not preferred
PriorityUnspaced(rows, e) ==
    LET passes == Cardinality(Passes(OfExercise(rows, e)))
    IN <<Flag(passes > 0),
         Flag(Cardinality(Passes(OfLanguage(rows, Language[e]))) >= 3),
         Flag(passes >= 2), 0, - Difficulty[e], e>>
Priority(rows, e) ==
    LET passes == Cardinality(Passes(OfExercise(rows, e)))
    IN <<Flag(passes > 0),
         Flag(Cardinality(Passes(OfLanguage(rows, Language[e]))) >= 3),
         Flag(passes >= 2),
         Newest(OfExercise(rows, e)),
         - Difficulty[e],
         e>>

\* tuples are compared as Python compares them
Before(a, b) == \E i \in DOMAIN a : a[i] < b[i] /\ \A j \in 1 .. i - 1 : a[j] = b[j]
Position(rows, e) ==
    Cardinality({f \in Catalog : Before(Priority(rows, f), Priority(rows, e))})

\* mutant of Generation: the rows are counted instead of looking for the newest
GenerationOfCount(rows) == (Cardinality(rows) \div CatalogSize) + 1
Generation(rows) == (Newest(rows) \div CatalogSize) + 1

Item(rows, e) ==
    [position |-> Position(rows, e), exercise |-> e,
     sequence |-> ((Generation(rows) + Position(rows, e)) * CatalogSize) + e]
PlanTraining(rows) == {Item(rows, e) : e \in {f \in Catalog : Position(rows, f) < Rounds}}

-----------------------------------------------------------------------------
(* TeacherAgent *)

ExamForm(r) == <<r.exercise, r.sequence \div FormSize>>
Forms(rows) == {ExamForm(r) : r \in rows}

Lesson(rows, e) ==
    LET evidence == OfSkill(rows, Category[e])
        verified == Passes(evidence)
        failures == Cardinality(evidence) - Cardinality(verified)
        due == Cardinality(verified) < 3 \/ Cardinality(Forms(verified)) < 2 \/ failures > 0
    IN [exercise |-> e,
        priority |-> IF due THEN 100 + (failures * 10) + Difficulty[e] ELSE Difficulty[e],
        passes |-> Cardinality(verified),
        forms |-> Cardinality(Forms(verified))]

Curriculum(rows) ==
    LET lessons == {Lesson(rows, e) : e \in Catalog}
        Ahead(k, l) == Before(<<- k.priority, k.exercise>>, <<- l.priority, l.exercise>>)
    IN {l \in lessons : Cardinality({k \in lessons : Ahead(k, l)}) < Rounds}

\* sufficient difficulty, as far as the catalog offers it
RequiredDifficulty(s) ==
    LET best == Greatest({Difficulty[e] : e \in {f \in Catalog : Category[f] = s}}, 0)
    IN IF best < 4 THEN best ELSE 4

Hardest(rows) == Greatest({Difficulty[r.exercise] : r \in rows}, 0)

\* no pass is worth less than 90 on average; the rounding to one digit is left out
Qualified(rows, s) ==
    LET passed == Passes(OfSkill(rows, s)) IN
    /\ Cardinality(passed) >= 3
    /\ Cardinality(Forms(passed)) >= 2
    /\ Total(passed) >= 90 * Cardinality(passed)
    /\ Hardest(passed) >= RequiredDifficulty(s)

\* what a cycle says and its cycle_id is made of
Cycle(rows) ==
    [curriculum |-> Curriculum(rows),
     evidence |-> [s \in Skills |->
         LET passed == Passes(OfSkill(rows, s)) IN
         [qualified |-> Qualified(rows, s), passes |-> Cardinality(passed),
          forms |-> Cardinality(Forms(passed)), hardest |-> Hardest(passed)]]]

-----------------------------------------------------------------------------
Idle == [at |-> "idle"]
Items == [position : Nat, exercise : Catalog, sequence : Nat]
At(place, todo) == [at |-> place, todo |-> todo]

TypeOK ==
    /\ history \subseteq Rows
    /\ DOMAIN cycles = 1 .. Len(cycles) /\ Len(cycles) <= begun
    /\ worker \in {Idle, [at |-> "dead"]} \cup [at : {"teach", "plan"}]
                  \cup [at : {"run"}, todo : SUBSET Items]
                  \cup [at : {"save"}, todo : SUBSET Items, result : Rows]
    /\ begun \in 0 .. MaxCycles /\ done \in 0 .. MaxCycles
    /\ lost \in Nat /\ faults \in 0 .. MaxFaults

Init ==
    /\ history = {}
    /\ cycles = <<>>
    /\ worker = Idle
    /\ begun = 0 /\ done = 0 /\ lost = 0 /\ faults = 0

\* run_training_cycle, when no work is approved
CycleBegin ==
    /\ worker = Idle /\ begun < MaxCycles
    /\ worker' = [at |-> "teach"]
    /\ begun' = begun + 1
    /\ UNCHANGED <<history, cycles, done, lost, faults>>

\* mutant of CycleIdentity: the lessons alone identify a cycle
CycleIdentityOfLessons(c) == c.curriculum
CycleIdentity(c) == c

\* save_teacher_cycle: INSERT OR IGNORE, unique in cycle_id
TeacherSave ==
    /\ worker.at = "teach"
    /\ LET cycle == Cycle(history) IN
       cycles' = IF \E i \in DOMAIN cycles : CycleIdentity(cycles[i]) = CycleIdentity(cycle)
                 THEN cycles
                 ELSE Append(cycles, cycle)
    /\ worker' = [at |-> "plan"]
    /\ UNCHANGED <<history, begun, done, lost, faults>>

Plan ==
    /\ worker.at = "plan"
    /\ worker' = At("run", PlanTraining(history))
    /\ UNCHANGED <<history, cycles, begun, done, lost, faults>>

\* the item of the plan that is next
Upcoming(item) == item \in worker.todo /\ \A i \in worker.todo : item.position <= i.position

\* CodingGym.run takes the exercise from the sequence; every way but one loses the run
Run(item, o) ==
    /\ worker.at = "run" /\ Upcoming(item)
    /\ o = "verified" \/ lost < MaxLost
    /\ worker' = [at |-> "save", todo |-> worker.todo \ {item},
                  result |-> [sequence |-> item.sequence,
                              exercise |-> item.sequence % CatalogSize, outcome |-> o]]
    /\ UNCHANGED <<history, cycles, begun, done, lost, faults>>

\* a run that has raised, after its retries, is audited; the next one follows
RunRaises(item) ==
    /\ worker.at = "run" /\ Upcoming(item) /\ lost < MaxLost
    /\ worker' = At("run", worker.todo \ {item})
    /\ lost' = lost + 1
    /\ UNCHANGED <<history, cycles, begun, done, faults>>

\* save_practice_run: INSERT OR IGNORE, unique in evidence_id
RunSave ==
    /\ worker.at = "save"
    /\ history' = history \cup {worker.result}
    /\ lost' = IF Verified(worker.result) THEN lost ELSE lost + 1
    /\ worker' = At("run", worker.todo)
    /\ UNCHANGED <<cycles, begun, done, faults>>

CycleEnd ==
    /\ worker.at = "run" /\ worker.todo = {}
    /\ worker' = Idle
    /\ done' = done + 1
    /\ UNCHANGED <<history, cycles, begun, lost, faults>>

\* outside the loop over the plan nothing is caught, and the thread ends; in the loop
\* the failure is audited, unless that fails as well
StoreRaises ==
    /\ worker.at # "dead" /\ faults < MaxFaults
    /\ faults' = faults + 1
    /\ \/ worker' = [at |-> "dead"] /\ UNCHANGED lost
       \/ /\ worker.at = "save" /\ lost < MaxLost
          /\ worker' = At("run", worker.todo)
          /\ lost' = lost + 1
    /\ UNCHANGED <<history, cycles, begun, done>>

\* the process is restarted; a plan is kept nowhere
Crash ==
    /\ faults < MaxFaults
    /\ faults' = faults + 1
    /\ worker' = Idle
    /\ UNCHANGED <<history, cycles, begun, done, lost>>

Next ==
    \/ CycleBegin \/ TeacherSave \/ Plan
    \/ worker.at = "run" /\ \E item \in worker.todo :
          RunRaises(item) \/ \E o \in Outcomes : Run(item, o)
    \/ RunSave \/ CycleEnd \/ StoreRaises \/ Crash

Spec == Init /\ [][Next]_vars

-----------------------------------------------------------------------------
(* No evidence is lost to the uniqueness of evidence_id: whatever runs     *)
(* earlier cycles stored, lost or never reached, what is still to run or   *)
(* to be saved has a sequence that no row has, and belongs to the exercise *)
(* that was planned (training_scheduler.py:35, coding_gym.py:205).         *)
EvidenceKept ==
    worker.at \in {"run", "save"} =>
        /\ \A item \in worker.todo :
              /\ \A r \in history : r.sequence # item.sequence
              /\ item.sequence % CatalogSize = item.exercise
        /\ worker.at = "save" => \A r \in history : r.sequence # worker.result.sequence

(* latest_teacher_cycle is what the last cycle computed, although a cycle  *)
(* whose cycle_id is stored already is ignored: evidence only grows, so no *)
(* cycle ever says again what an older one than the last said.             *)
LatestCycleIsCurrent ==
    worker.at = "plan" => cycles # <<>> /\ cycles[Len(cycles)] = Cycle(history)

(* README.md:43, unverified skills first, then language gaps, mastery and  *)
(* refreshes: this order reaches every skill.  As long as an exercise has  *)
(* less than three passes, it takes part in two cycles that do not lose    *)
(* its run, and every other exercise goes before it four times at most:    *)
(* for three passes and one refresh.  A run of it that fails sends it to   *)
(* the end of that order, at the price of one run of all the others and    *)
(* of a cycle.  So after Enough completed runs, and as many more for each  *)
(* lost run, the teacher is qualified in everything.                       *)
Enough == (2 * Rounds) + (4 * (CatalogSize - 1))
TeacherQualifies ==
    done * Rounds > Enough + (lost * (CatalogSize + Rounds - 1)) =>
        \A s \in Skills : Qualified(history, s)
=============================================================================

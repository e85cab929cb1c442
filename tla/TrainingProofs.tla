-------------------------- MODULE TrainingProofs --------------------------
(* Theorems about Training and Capability.                                 *)
EXTENDS Capability, FiniteSetTheorems, WellFoundedInduction, TLAPS

LEMMA DivMod ==
    ASSUME NEW N \in Nat \ {0}, NEW m \in Int
    PROVE  /\ m = (N * (m \div N)) + (m % N)
           /\ m % N \in 0 .. N - 1
           /\ m \div N \in Int
OBVIOUS

LEMMA NextGeneration ==
    ASSUME NEW N \in Nat \ {0}, NEW m \in Int
    PROVE  ((m \div N) + 1) * N > m
<1>1. m = (N * (m \div N)) + (m % N) /\ m % N \in 0 .. N - 1 /\ m \div N \in Int
  BY DivMod
<1>2. ((m \div N) + 1) * N = (N * (m \div N)) + N
  BY <1>1, SMT
<1> QED
  BY <1>1, <1>2

LEMMA GenerationOf ==
    ASSUME NEW N \in Nat \ {0}, NEW m \in Int, m >= -1
    PROVE  /\ (m \div N) + 1 \in Nat
           /\ ((m \div N) + 1) * N > m
<1>1. m = (N * (m \div N)) + (m % N) /\ m % N \in 0 .. N - 1 /\ m \div N \in Int
  BY DivMod
<1>2. CASE m \div N <= -2
  <2>1. N * (m \div N) <= - (2 * N)
    BY <1>1, <1>2, SMT
  <2> QED
    BY <2>1, <1>1
<1>3. CASE m \div N >= -1
  BY <1>1, <1>3, NextGeneration
<1> QED
  BY <1>1, <1>2, <1>3

LEMMA IndexOfItem ==
    ASSUME NEW N \in Nat \ {0}, NEW g \in Nat, NEW p \in Nat, NEW e \in 0 .. N - 1
    PROVE  /\ ((g + p) * N) + e \in Nat
           /\ ((g + p) * N) + e >= g * N
           /\ g * N \in Nat
<1>1. (g + p) * N = (g * N) + (p * N)
  BY SMT
<1>2. p * N \in Nat /\ g * N \in Nat
  BY SMT
<1> QED
  BY <1>1, <1>2, SMT

LEMMA ModOfIndex ==
    ASSUME NEW N \in Nat \ {0}, NEW k \in Int, NEW e \in 0 .. N - 1
    PROVE  ((k * N) + e) % N = e
OBVIOUS

-----------------------------------------------------------------------------
(* The set of rows.                                                        *)

\* among the sequences of the rows there is a greatest one
HasNewest(rows) == rows = {} \/ \E m \in rows : \A r \in rows : r.sequence <= m.sequence

LEMMA NewestIsGreatest ==
    ASSUME NEW rows \in SUBSET Rows, HasNewest(rows)
    PROVE  /\ Newest(rows) \in Int /\ Newest(rows) >= -1
           /\ \A r \in rows : r.sequence <= Newest(rows)
<1> DEFINE S == {r.sequence : r \in rows}
<1>1. CASE rows = {}
  BY <1>1 DEF Newest, Greatest
<1>2. CASE rows # {}
  <2>1. PICK m \in rows : \A r \in rows : r.sequence <= m.sequence
    BY <1>2 DEF HasNewest
  <2>2. m.sequence \in S /\ \A n \in S : n <= m.sequence
    BY <2>1
  <2>3. Newest(rows) \in S /\ \A n \in S : n <= Newest(rows)
    BY <2>2, Zenon DEF Newest, Greatest
  <2> QED
    BY <2>3 DEF Rows
<1> QED
  BY <1>1, <1>2

LEMMA NewestGrows ==
    ASSUME NEW rows \in SUBSET Rows, HasNewest(rows), NEW r \in Rows
    PROVE  HasNewest(rows \cup {r})
<1>1. CASE rows = {}
  BY <1>1 DEF HasNewest, Rows
<1>2. CASE rows # {}
  <2>1. PICK m \in rows : \A n \in rows : n.sequence <= m.sequence
    BY <1>2 DEF HasNewest
  <2>2. CASE r.sequence <= m.sequence
    BY <2>1, <2>2 DEF HasNewest
  <2>3. CASE ~(r.sequence <= m.sequence)
    <3>1. \A n \in rows : n.sequence <= r.sequence
      BY <2>1, <2>3 DEF Rows
    <3> QED
      BY <3>1 DEF HasNewest, Rows
  <2> QED
    BY <2>2, <2>3
<1> QED
  BY <1>1, <1>2

LEMMA PositionIsNat ==
    ASSUME NEW rows, NEW e
    PROVE  Position(rows, e) \in Nat
<1>1. IsFiniteSet(Catalog)
  BY TrainingAssumption, FS_Interval DEF Catalog
<1>2. IsFiniteSet({f \in Catalog : Before(Priority(rows, f), Priority(rows, e))})
  BY <1>1, FS_Subset
<1> QED
  BY <1>2, FS_CardinalityType DEF Position

\* what plan_training promises: new sequences, one for each planned exercise, each its own
Fresh(todo, rows) ==
    \A item \in todo :
        /\ item.sequence % CatalogSize = item.exercise
        /\ \A r \in rows : r.sequence # item.sequence
OnePerExercise(todo) == \A i, j \in todo : i.exercise = j.exercise => i = j

LEMMA PlanFacts ==
    ASSUME NEW rows \in SUBSET Rows, HasNewest(rows)
    PROVE  /\ PlanTraining(rows) \in SUBSET Items
           /\ Fresh(PlanTraining(rows), rows)
           /\ OnePerExercise(PlanTraining(rows))
           /\ \A item \in PlanTraining(rows) : \A r \in rows : r.sequence < item.sequence
<1>1. /\ Newest(rows) \in Int /\ Newest(rows) >= -1
      /\ \A r \in rows : r.sequence <= Newest(rows)
  BY NewestIsGreatest
<1>2. CatalogSize \in Nat \ {0}
  BY TrainingAssumption
<1>3. Generation(rows) \in Nat /\ Generation(rows) * CatalogSize > Newest(rows)
  BY <1>1, <1>2, GenerationOf DEF Generation
<1>4. ASSUME NEW e \in Catalog
      PROVE  /\ Item(rows, e) \in Items
             /\ Item(rows, e).exercise = e
             /\ Item(rows, e).sequence % CatalogSize = e
             /\ \A r \in rows : r.sequence < Item(rows, e).sequence
  <2>1. Position(rows, e) \in Nat
    BY PositionIsNat
  <2>2. e \in 0 .. CatalogSize - 1
    BY DEF Catalog
  <2>3. PICK s \in Nat : s = ((Generation(rows) + Position(rows, e)) * CatalogSize) + e
    BY <1>2, <1>3, <2>1, <2>2, IndexOfItem
  <2>4. s > Newest(rows)
    <3>1. s >= Generation(rows) * CatalogSize /\ Generation(rows) * CatalogSize \in Nat
      BY <1>2, <1>3, <2>1, <2>2, <2>3, IndexOfItem
    <3> QED
      BY <3>1, <1>1, <1>3
  <2>5. s % CatalogSize = e
    <3>1. PICK k \in Int : k = Generation(rows) + Position(rows, e)
      BY <1>3, <2>1
    <3>2. s = (k * CatalogSize) + e
      BY <2>3, <3>1
    <3> QED
      BY <1>2, <2>2, <3>2, ModOfIndex
  <2>6. Item(rows, e) = [position |-> Position(rows, e), exercise |-> e, sequence |-> s]
    BY <2>3 DEF Item
  <2>7. \A r \in rows : r.sequence < s
    BY <1>1, <2>4 DEF Rows
  <2> QED
    BY <2>1, <2>5, <2>6, <2>7 DEF Items
<1>5. \A e \in Catalog : \A r \in rows : r.sequence # Item(rows, e).sequence
  BY <1>4 DEF Rows
<1> QED
  BY <1>4, <1>5 DEF PlanTraining, Fresh, OnePerExercise

-----------------------------------------------------------------------------
(* The inductive invariant.                                                *)

Working == {"teach", "plan", "run", "save"}

\* the run to be saved kept the exercise of its item, and that item has left the plan
Saving(todo, result) ==
    /\ result.sequence % CatalogSize = result.exercise
    /\ \A item \in todo : item.exercise # result.exercise

TrainingInv ==
    /\ TypeOK
    /\ EvidenceKept
    /\ IsFiniteSet(history) /\ HasNewest(history)
    /\ cycles \in Seq({Cycle(h) : h \in SUBSET Rows})
    /\ worker.at = "teach" => Len(cycles) < begun
    /\ done <= begun
    /\ worker.at \in Working => done < begun
    /\ worker.at \in {"run", "save"} => OnePerExercise(worker.todo)
    /\ worker.at = "save" => Saving(worker.todo, worker.result)

LEMMA WorkerShape ==
    ASSUME TypeOK
    PROVE  /\ worker.at \in {"idle", "dead"} \cup Working
           /\ worker.at \in {"run", "save"} => worker.todo \in SUBSET Items
           /\ worker.at = "save" => worker.result \in Rows
<1>1. CASE worker \in {Idle, [at |-> "dead"]}
  BY <1>1 DEF Idle, Working
<1>2. CASE worker \in [at : {"teach", "plan"}]
  BY <1>2 DEF Working
<1>3. CASE worker \in [at : {"run"}, todo : SUBSET Items]
  BY <1>3 DEF Working
<1>4. CASE worker \in [at : {"save"}, todo : SUBSET Items, result : Rows]
  BY <1>4 DEF Working
<1> QED
  BY <1>1, <1>2, <1>3, <1>4 DEF TypeOK

LEMMA InitInv == Init => TrainingInv
<1> SUFFICES ASSUME Init PROVE TrainingInv
  OBVIOUS
<1>1. TypeOK
  BY TrainingAssumption DEF Init, TypeOK, Idle
<1>2. IsFiniteSet(history) /\ HasNewest(history)
  BY FS_EmptySet DEF Init, HasNewest
<1> QED
  BY <1>1, <1>2 DEF Init, TrainingInv, EvidenceKept, Idle, Working

-----------------------------------------------------------------------------
(* One lemma for each action.                                              *)

LEMMA CycleBeginInv == TrainingInv /\ CycleBegin => TrainingInv'
<1> SUFFICES ASSUME TrainingInv, CycleBegin PROVE TrainingInv'
  OBVIOUS
<1>1. TypeOK'
  BY TrainingAssumption DEF TrainingInv, TypeOK, CycleBegin
<1>2. Len(cycles) \in Nat /\ begun \in Nat /\ done \in Nat
  BY TrainingAssumption DEF TrainingInv, TypeOK
<1> QED
  BY <1>1, <1>2 DEF TrainingInv, TypeOK, CycleBegin, EvidenceKept, HasNewest, Working, Idle

LEMMA TeacherSaveInv == TrainingInv /\ TeacherSave => TrainingInv'
<1> SUFFICES ASSUME TrainingInv, TeacherSave PROVE TrainingInv'
  OBVIOUS
<1> DEFINE C == {Cycle(h) : h \in SUBSET Rows}
<1>1. Len(cycles) \in Nat /\ Len(cycles) < begun /\ begun \in Nat /\ done < begun
  BY TrainingAssumption DEF TrainingInv, TypeOK, TeacherSave, Working
<1>2. cycles' \in Seq(C) /\ Len(cycles') <= begun
  <2>1. Cycle(history) \in C /\ cycles \in Seq(C)
    BY DEF TrainingInv, TypeOK
  <2>2. cycles' = cycles \/ cycles' = Append(cycles, Cycle(history))
    BY DEF TeacherSave
  <2> HIDE DEF C
  <2> QED
    BY <1>1, <2>1, <2>2
<1>3. DOMAIN cycles' = 1 .. Len(cycles')
  BY <1>2
<1>4. TypeOK'
  BY <1>2, <1>3 DEF TrainingInv, TypeOK, TeacherSave
<1> QED
  BY <1>1, <1>2, <1>4 DEF TrainingInv, TeacherSave, EvidenceKept, HasNewest, Working

LEMMA PlanInv == TrainingInv /\ Plan => TrainingInv'
<1> SUFFICES ASSUME TrainingInv, Plan PROVE TrainingInv'
  OBVIOUS
<1> DEFINE P == PlanTraining(history)
<1>1. P \in SUBSET Items /\ Fresh(P, history) /\ OnePerExercise(P)
  BY PlanFacts DEF TrainingInv, TypeOK
<1>2. worker' = [at |-> "run", todo |-> P]
  BY DEF Plan, At
<1> HIDE DEF P
<1>3. TypeOK'
  BY <1>1, <1>2 DEF TrainingInv, TypeOK, Plan
<1>4. EvidenceKept'
  BY <1>1, <1>2 DEF EvidenceKept, Fresh, Plan
<1>5. done < begun
  BY DEF TrainingInv, Plan, Working
<1> QED
  BY <1>1, <1>2, <1>3, <1>4, <1>5 DEF TrainingInv, Plan, HasNewest, Working

LEMMA RunInv ==
    ASSUME TrainingInv, NEW item \in worker.todo, NEW o \in Outcomes, Run(item, o)
    PROVE  TrainingInv'
<1> DEFINE R == [sequence |-> item.sequence, exercise |-> item.sequence % CatalogSize,
                 outcome |-> o]
           T == worker.todo \ {item}
<1>1. worker.todo \in SUBSET Items /\ worker.at = "run"
  BY WorkerShape DEF TrainingInv, Run
<1>2. worker' = [at |-> "save", todo |-> T, result |-> R]
  BY DEF Run
<1>3. item.sequence % CatalogSize = item.exercise
  BY <1>1 DEF TrainingInv, EvidenceKept
<1>4. R \in Rows /\ T \in SUBSET Items
  BY <1>1, <1>3 DEF Rows, Items
<1>5. TypeOK'
  <2> HIDE DEF R, T
  <2> QED
    BY <1>2, <1>4 DEF TrainingInv, TypeOK, Run
<1>6. EvidenceKept'
  BY <1>1, <1>2 DEF TrainingInv, EvidenceKept, Run
<1>7. OnePerExercise(T) /\ Saving(T, R)
  BY <1>1, <1>3 DEF TrainingInv, OnePerExercise, Saving
<1>8. done < begun
  BY <1>1 DEF TrainingInv, Working
<1>9. OnePerExercise(worker.todo)' /\ Saving(worker.todo, worker.result)'
  <2> HIDE DEF R, T
  <2>1. worker'.todo = T /\ worker'.result = R
    BY <1>2
  <2> QED
    BY <2>1, <1>7 DEF OnePerExercise, Saving
<1>10. worker'.at = "save"
  BY <1>2
<1>11. UNCHANGED <<history, cycles, begun, done>>
  BY DEF Run
<1>12. (IsFiniteSet(history) /\ HasNewest(history))'
  BY <1>11 DEF TrainingInv, HasNewest
<1> HIDE DEF R, T
<1> QED
  BY <1>5, <1>6, <1>8, <1>9, <1>10, <1>11, <1>12 DEF TrainingInv

\* a run that is given up leaves the rest of the plan to do
LEMMA GivenUpInv ==
    ASSUME TrainingInv, worker.at \in {"run", "save"},
           NEW T \in SUBSET worker.todo, worker' = At("run", T),
           lost' = lost + 1, faults' \in 0 .. MaxFaults,
           UNCHANGED <<history, cycles, begun, done>>
    PROVE  TrainingInv'
<1>1. worker.todo \in SUBSET Items
  BY WorkerShape DEF TrainingInv
<1>2. TypeOK'
  BY <1>1 DEF TrainingInv, TypeOK, At
<1>3. EvidenceKept'
  BY DEF TrainingInv, EvidenceKept, At
<1>4. OnePerExercise(T)
  BY DEF TrainingInv, OnePerExercise
<1>5. done < begun
  BY DEF TrainingInv, Working
<1> QED
  BY <1>2, <1>3, <1>4, <1>5 DEF TrainingInv, HasNewest, At, Working

LEMMA RunRaisesInv ==
    ASSUME TrainingInv, NEW item \in worker.todo, RunRaises(item)
    PROVE  TrainingInv'
BY GivenUpInv DEF RunRaises, TrainingInv, TypeOK

LEMMA RunSaveInv == TrainingInv /\ RunSave => TrainingInv'
<1> SUFFICES ASSUME TrainingInv, RunSave PROVE TrainingInv'
  OBVIOUS
<1>1. /\ worker.at = "save" /\ worker.todo \in SUBSET Items /\ worker.result \in Rows
      /\ history \in SUBSET Rows
  BY WorkerShape DEF TrainingInv, TypeOK, RunSave
<1>2. worker' = [at |-> "run", todo |-> worker.todo]
  BY DEF RunSave, At
<1>3. history' \in SUBSET Rows /\ IsFiniteSet(history') /\ HasNewest(history')
  <2>1. history' = history \cup {worker.result}
    BY DEF RunSave
  <2>2. IsFiniteSet(history \cup {worker.result})
    BY FS_AddElement DEF TrainingInv
  <2>3. HasNewest(history \cup {worker.result})
    BY <1>1, NewestGrows DEF TrainingInv
  <2> QED
    BY <1>1, <2>1, <2>2, <2>3
<1>4. TypeOK'
  BY <1>1, <1>2, <1>3 DEF TrainingInv, TypeOK, RunSave
<1>5. ASSUME NEW item \in worker.todo
      PROVE  /\ \A r \in history' : r.sequence # item.sequence
             /\ item.sequence % CatalogSize = item.exercise
  <2>1. \A r \in history : r.sequence # item.sequence
    BY <1>1 DEF TrainingInv, EvidenceKept
  <2>2. item.sequence % CatalogSize = item.exercise
    BY <1>1 DEF TrainingInv, EvidenceKept
  <2>3. worker.result.sequence # item.sequence
    BY <1>1, <2>2 DEF TrainingInv, Saving
  <2> QED
    BY <2>1, <2>2, <2>3 DEF RunSave
<1>6. EvidenceKept'
  BY <1>2, <1>5 DEF EvidenceKept
<1>7. done < begun
  BY <1>1 DEF TrainingInv, Working
<1> QED
  BY <1>1, <1>2, <1>3, <1>4, <1>6, <1>7 DEF TrainingInv, RunSave, Working

LEMMA CycleEndInv == TrainingInv /\ CycleEnd => TrainingInv'
<1> SUFFICES ASSUME TrainingInv, CycleEnd PROVE TrainingInv'
  OBVIOUS
<1>1. done < begun /\ begun \in 0 .. MaxCycles /\ done \in 0 .. MaxCycles
  BY DEF TrainingInv, TypeOK, CycleEnd, Working
<1>2. TypeOK'
  BY <1>1, TrainingAssumption DEF TrainingInv, TypeOK, CycleEnd
<1> QED
  BY <1>1, <1>2, TrainingAssumption
     DEF TrainingInv, CycleEnd, EvidenceKept, HasNewest, Idle, Working

\* a thread that ends or begins anew keeps nothing but the tables
LEMMA StoppedInv ==
    ASSUME TrainingInv, worker' \in {Idle, [at |-> "dead"]}, faults' \in 0 .. MaxFaults,
           UNCHANGED <<history, cycles, begun, done, lost>>
    PROVE  TrainingInv'
<1>1. TypeOK'
  BY DEF TrainingInv, TypeOK
<1>2. worker'.at \in {"idle", "dead"}
  BY DEF Idle
<1> QED
  BY <1>1, <1>2 DEF TrainingInv, EvidenceKept, HasNewest, Working

LEMMA FaultInv == TrainingInv /\ (StoreRaises \/ Crash) => TrainingInv'
<1> SUFFICES ASSUME TrainingInv, StoreRaises \/ Crash PROVE TrainingInv'
  OBVIOUS
<1>1. faults' \in 0 .. MaxFaults
  BY TrainingAssumption DEF TrainingInv, TypeOK, StoreRaises, Crash
<1>2. CASE Crash
  BY <1>1, <1>2, StoppedInv DEF Crash
<1>3. CASE StoreRaises /\ worker' = [at |-> "dead"] /\ UNCHANGED lost
  BY <1>1, <1>3, StoppedInv DEF StoreRaises
<1>4. CASE StoreRaises /\ worker.at = "save" /\ worker' = At("run", worker.todo)
                       /\ lost' = lost + 1
  BY <1>1, <1>4, GivenUpInv DEF StoreRaises
<1> QED
  BY <1>2, <1>3, <1>4 DEF StoreRaises

LEMMA NextInv == TrainingInv /\ [Next]_vars => TrainingInv'
<1> SUFFICES ASSUME TrainingInv, [Next]_vars PROVE TrainingInv'
  OBVIOUS
<1>1. CASE UNCHANGED vars
  BY <1>1 DEF vars, TrainingInv, TypeOK, EvidenceKept, HasNewest
<1>2. CASE \E item \in worker.todo : RunRaises(item) \/ \E o \in Outcomes : Run(item, o)
  BY <1>2, RunInv, RunRaisesInv
<1> QED
  BY <1>1, <1>2, CycleBeginInv, TeacherSaveInv, PlanInv, RunSaveInv, CycleEndInv, FaultInv
     DEF Next

THEOREM InvariantHolds == Spec => []TrainingInv
BY InitInv, NextInv, PTL DEF Spec

(* The worker and the two tables it writes always have their types.        *)
THEOREM TypeCorrect == Spec => []TypeOK
<1>1. TrainingInv => TypeOK
  BY DEF TrainingInv
<1> QED
  BY <1>1, InvariantHolds, PTL

(* No run that is planned or waits to be saved can be ignored as a row     *)
(* that is stored already.                                                 *)
THEOREM EvidenceSound == Spec => []EvidenceKept
<1>1. TrainingInv => EvidenceKept
  BY DEF TrainingInv
<1> QED
  BY <1>1, InvariantHolds, PTL

-----------------------------------------------------------------------------
(* Standing: what more evidence does to each of its measures.              *)

LEMMA GreatestOfSome ==
    ASSUME NEW S \in SUBSET (1 .. 6), S # {}, NEW d
    PROVE  Greatest(S, d) \in S /\ \A n \in S : n <= Greatest(S, d)
<1>1. \E m \in S : \A n \in S : n <= m
  <2>1. CASE 6 \in S
    BY <2>1
  <2>2. CASE 6 \notin S /\ 5 \in S
    BY <2>2
  <2>3. CASE 6 \notin S /\ 5 \notin S /\ 4 \in S
    BY <2>3
  <2>4. CASE 6 \notin S /\ 5 \notin S /\ 4 \notin S /\ 3 \in S
    BY <2>4
  <2>5. CASE 6 \notin S /\ 5 \notin S /\ 4 \notin S /\ 3 \notin S
    <3>1. S \in SUBSET {1, 2}
      BY <2>5
    <3>2. CASE 2 \in S
      BY <3>1, <3>2
    <3>3. CASE 2 \notin S
      <4>1. S = {1}
        BY <3>1, <3>3
      <4> QED
        BY <4>1
    <3> QED
      BY <3>2, <3>3
  <2> QED
    BY <2>1, <2>2, <2>3, <2>4, <2>5
<1> QED
  BY <1>1, Zenon DEF Greatest

LEMMA HardestGrows ==
    ASSUME NEW big \in SUBSET Rows, NEW small \in SUBSET big
    PROVE  Hardest(small) \in Nat /\ Hardest(big) \in Nat /\ Hardest(small) <= Hardest(big)
<1> DEFINE D(rows) == {Difficulty[r.exercise] : r \in rows}
<1>1. D(big) \in SUBSET (1 .. 6) /\ D(small) \in SUBSET D(big)
  BY TrainingAssumption DEF Rows
<1>2. Hardest(small) = Greatest(D(small), 0) /\ Hardest(big) = Greatest(D(big), 0)
  BY DEF Hardest
<1> HIDE DEF D
<1>3. CASE D(small) = {} /\ D(big) = {}
  BY <1>2, <1>3 DEF Greatest
<1>4. CASE D(small) = {} /\ D(big) # {}
  <2>1. Greatest(D(big), 0) \in 1 .. 6
    BY <1>1, <1>4, GreatestOfSome
  <2>2. Greatest(D(small), 0) = 0
    BY <1>4 DEF Greatest
  <2> QED
    BY <1>2, <2>1, <2>2
<1>5. CASE D(small) # {}
  <2>1. Greatest(D(small), 0) \in D(small) /\ D(small) \in SUBSET (1 .. 6) /\ D(big) # {}
    BY <1>1, <1>5, GreatestOfSome
  <2>2. Greatest(D(big), 0) \in 1 .. 6 /\ \A n \in D(big) : n <= Greatest(D(big), 0)
    BY <1>1, <2>1, GreatestOfSome
  <2> QED
    BY <1>1, <1>2, <2>1, <2>2
<1> QED
  BY <1>3, <1>4, <1>5

LEMMA FormsFinite ==
    ASSUME NEW rows, IsFiniteSet(rows)
    PROVE  IsFiniteSet(Forms(rows))
<1> DEFINE f == [r \in rows |-> ExamForm(r)]
<1>1. f \in Surjection(rows, Forms(rows))
  BY DEF Surjection, Forms
<1> QED
  BY <1>1, FS_Surjection

LEMMA MeasuresGrow ==
    ASSUME NEW big \in SUBSET Rows, IsFiniteSet(big), NEW small \in SUBSET big
    PROVE  /\ Cardinality(small) \in Nat /\ Cardinality(big) \in Nat
           /\ Cardinality(small) <= Cardinality(big)
           /\ Cardinality(Forms(small)) \in Nat /\ Cardinality(Forms(big)) \in Nat
           /\ Cardinality(Forms(small)) <= Cardinality(Forms(big))
           /\ Hardest(small) \in Nat /\ Hardest(big) \in Nat
           /\ Hardest(small) <= Hardest(big)
<1>1. IsFiniteSet(small) /\ Cardinality(small) <= Cardinality(big)
  BY FS_Subset
<1>2. Forms(small) \in SUBSET Forms(big)
  BY DEF Forms
<1>3. IsFiniteSet(Forms(big))
  BY FormsFinite
<1>4. IsFiniteSet(Forms(small)) /\ Cardinality(Forms(small)) <= Cardinality(Forms(big))
  BY <1>2, <1>3, FS_Subset
<1> QED
  BY <1>1, <1>3, <1>4, HardestGrows, FS_CardinalityType

\* verified rows score 100 each
LEMMA VerifiedScore ==
    ASSUME NEW rows, IsFiniteSet(rows), \A r \in rows : Verified(r)
    PROVE  Total(rows) = 100 * Cardinality(rows)
<1>1. {r \in rows : r.outcome # "not_failed"} = rows /\ {r \in rows : Verified(r)} = rows
  BY DEF Verified
<1>2. Cardinality(rows) \in Nat
  BY FS_CardinalityType
<1>3. Total(rows) = (40 * Cardinality(rows)) + (60 * Cardinality(rows))
  BY <1>1, Zenon DEF Total
<1> QED
  BY <1>2, <1>3

LEMMA VerifiedAverages ==
    ASSUME NEW rows, IsFiniteSet(rows), \A r \in rows : Verified(r), NEW a \in 0 .. 100
    PROVE  Averages(rows, a) /\ Total(rows) >= a * Cardinality(rows)
<1>1. Total(rows) = 100 * Cardinality(rows) /\ Cardinality(rows) \in Nat
  BY VerifiedScore, FS_CardinalityType
<1> DEFINE c == Cardinality(rows)
<1> HIDE DEF c
<1>2. ASSUME NEW n \in Nat PROVE 100 * n >= a * n
  <2>1. (100 - a) * n >= 0
    BY SMT
  <2>2. (100 - a) * n = (100 * n) - (a * n)
    BY SMT
  <2> QED
    BY <2>1, <2>2, SMT
<1> QED
  BY <1>1, <1>2 DEF Averages

\* a part of the verified evidence, of a skill or of a language, only grows
LEMMA PartsGrow ==
    ASSUME NEW big \in SUBSET Rows, IsFiniteSet(big), NEW small \in SUBSET big, NEW x
    PROVE  /\ Passes(big) \in SUBSET Rows /\ IsFiniteSet(Passes(big))
           /\ Passes(small) \in SUBSET Passes(big)
           /\ Passes(OfSkill(big, x)) = OfSkill(Passes(big), x)
           /\ Passes(OfSkill(small, x)) = OfSkill(Passes(small), x)
           /\ OfSkill(Passes(big), x) \in SUBSET Passes(big)
           /\ OfSkill(Passes(small), x) \in SUBSET OfSkill(Passes(big), x)
           /\ OfLanguage(Passes(big), x) \in SUBSET Passes(big)
           /\ OfLanguage(Passes(small), x) \in SUBSET OfLanguage(Passes(big), x)
           /\ \A r \in Passes(big) : Verified(r)
<1>1. Passes(big) \in SUBSET big
  BY DEF Passes
<1> QED
  BY <1>1, FS_Subset DEF Passes, OfSkill, OfLanguage

LEMMA SkillGrows ==
    ASSUME NEW big \in SUBSET Rows, IsFiniteSet(big), NEW small \in SUBSET big, NEW s
    PROVE  /\ Qualified(small, s) => Qualified(big, s)
           /\ TierRank(small, s) <= TierRank(big, s)
           /\ Cardinality(OfSkill(Evidence(small), s)) \in Nat
           /\ Cardinality(OfSkill(Evidence(big), s)) \in Nat
           /\ Cardinality(OfSkill(Evidence(small), s)) <= Cardinality(OfSkill(Evidence(big), s))
<1> DEFINE P == OfSkill(Passes(small), s)
           Q == OfSkill(Passes(big), s)
<1>1. /\ Q \in SUBSET Rows /\ IsFiniteSet(Q) /\ P \in SUBSET Q
      /\ \A r \in Q : Verified(r)
      /\ Passes(OfSkill(small, s)) = P /\ Passes(OfSkill(big, s)) = Q
  <2>1. IsFiniteSet(Q)
    BY PartsGrow, FS_Subset
  <2> QED
    BY <2>1, PartsGrow
<1>2. Evidence(small) = Passes(small) /\ Evidence(big) = Passes(big)
  BY DEF Evidence
<1> HIDE DEF P, Q
<1>3. /\ Cardinality(P) \in Nat /\ Cardinality(Q) \in Nat
      /\ Cardinality(P) <= Cardinality(Q)
      /\ Cardinality(Forms(P)) \in Nat /\ Cardinality(Forms(Q)) \in Nat
      /\ Cardinality(Forms(P)) <= Cardinality(Forms(Q))
      /\ Hardest(P) \in Nat /\ Hardest(Q) \in Nat /\ Hardest(P) <= Hardest(Q)
  BY <1>1, MeasuresGrow
<1>4. /\ Averages(Q, 95) /\ Averages(Q, 90)
      /\ Total(Q) >= 90 * Cardinality(Q)
  BY <1>1, VerifiedAverages
<1>5. Qualified(small, s) => Qualified(big, s)
  <2>1. RequiredDifficulty(s) \in Int
    <3> DEFINE S == {Difficulty[e] : e \in {f \in Catalog : Category[f] = s}}
    <3>1. S \in SUBSET (1 .. 6)
      BY TrainingAssumption
    <3>2. RequiredDifficulty(s) = IF Greatest(S, 0) < 4 THEN Greatest(S, 0) ELSE 4
      BY DEF RequiredDifficulty
    <3>3. Greatest(S, 0) \in Int
      <4> HIDE DEF S
      <4>1. CASE S = {}
        BY <4>1 DEF Greatest
      <4>2. CASE S # {}
        <5>1. Greatest(S, 0) \in S
          BY <3>1, <4>2, GreatestOfSome
        <5>2. Greatest(S, 0) \in 1 .. 6
          BY <3>1, <5>1
        <5> QED
          BY <5>2
      <4> QED
        BY <4>1, <4>2
    <3> HIDE DEF S
    <3> QED
      BY <3>2, <3>3
  <2> QED
    BY <1>1, <1>3, <1>4, <2>1 DEF Qualified
<1>6. TierRank(small, s) <= TierRank(big, s)
  <2>1. TierRank(big, s) = IF Cardinality(Q) >= 5 /\ Averages(Q, 95) /\ Hardest(Q) >= 5 THEN 4
                           ELSE IF Cardinality(Q) >= 2 /\ Averages(Q, 90) /\ Hardest(Q) >= 4 THEN 3
                           ELSE IF Q # {} THEN 2 ELSE 1
    BY <1>2 DEF TierRank, Q
  <2>2. TierRank(small, s) = IF Cardinality(P) >= 5 /\ Averages(P, 95) /\ Hardest(P) >= 5 THEN 4
                           ELSE IF Cardinality(P) >= 2 /\ Averages(P, 90) /\ Hardest(P) >= 4 THEN 3
                           ELSE IF P # {} THEN 2 ELSE 1
    BY <1>2 DEF TierRank, P
  <2>3. P # {} => Q # {}
    BY <1>1
  <2> QED
    BY <1>3, <1>4, <2>1, <2>2, <2>3
<1> QED
  BY <1>2, <1>3, <1>5, <1>6 DEF P, Q

LEMMA LanguageGrows ==
    ASSUME NEW big \in SUBSET Rows, IsFiniteSet(big), NEW small \in SUBSET big, NEW l
    PROVE  Proficient(small, l) => Proficient(big, l)
<1> DEFINE P == OfLanguage(Passes(small), l)
           Q == OfLanguage(Passes(big), l)
<1>1. /\ Q \in SUBSET Rows /\ IsFiniteSet(Q) /\ P \in SUBSET Q
      /\ \A r \in Q : Verified(r)
      /\ Passes(big) \in SUBSET Rows /\ Passes(small) \in SUBSET Passes(big)
  <2>1. IsFiniteSet(Q)
    BY PartsGrow, FS_Subset
  <2> QED
    BY <2>1, PartsGrow
<1>2. Evidence(small) = Passes(small) /\ Evidence(big) = Passes(big)
  BY DEF Evidence
<1> HIDE DEF P, Q
<1>3. /\ Cardinality(P) \in Nat /\ Cardinality(Q) \in Nat
      /\ Cardinality(P) <= Cardinality(Q)
  BY <1>1, MeasuresGrow
<1>4. /\ Hardest(Passes(small)) \in Nat /\ Hardest(Passes(big)) \in Nat
      /\ Hardest(Passes(small)) <= Hardest(Passes(big))
  BY <1>1, HardestGrows
<1>5. Averages(Q, 90)
  BY <1>1, VerifiedAverages
<1>6. Proficient(small, l) => Cardinality(P) >= 3 /\ Hardest(Passes(small)) >= 5
  BY <1>2 DEF Proficient, P
<1>7. Cardinality(Q) >= 3 /\ Hardest(Passes(big)) >= 5 => Proficient(big, l)
  BY <1>2, <1>5 DEF Proficient, Q
<1> QED
  BY <1>3, <1>4, <1>6, <1>7

LEMMA StandingGrows ==
    ASSUME NEW big \in SUBSET Rows, IsFiniteSet(big), NEW small \in SUBSET big, NEW s
    PROVE  Keeps(s, small, big)
<1>1. /\ Qualified(small, s) => Qualified(big, s)
      /\ TierRank(small, s) <= TierRank(big, s)
      /\ Cardinality(OfSkill(Evidence(small), s)) \in Nat
      /\ Cardinality(OfSkill(Evidence(big), s)) \in Nat
      /\ Cardinality(OfSkill(Evidence(small), s)) <= Cardinality(OfSkill(Evidence(big), s))
  BY SkillGrows
<1>2. ASSUME NEW rows PROVE Certified(rows, s) <=> TierRank(rows, s) >= 3
  <2>1. TierRank(rows, s) \in 1 .. 4
    BY DEF TierRank
  <2> QED
    BY <2>1 DEF Certified, Tier, Tiers
<1>3. ASSUME NEW rows
      PROVE  DecideAuthority("isolated_build", {s}, rows, TRUE, TRUE) # "DENIED"
               <=> Certified(rows, s)
  BY DEF DecideAuthority, HumanActions, Unconditional, Conditional
<1>4. ASSUME NEW rows PROVE TierRank(rows, s) \in Nat
  BY DEF TierRank
<1>5. Certified(small, s) => Certified(big, s)
  BY <1>1, <1>2, <1>4
<1>6. ASSUME NEW l \in Languages
      PROVE  /\ ClientReady(small, {s}, l) => ClientReady(big, {s}, l)
             /\ TaskReady(small, {s}, l, TRUE) => TaskReady(big, {s}, l, TRUE)
  <2>1. Proficient(small, l) => Proficient(big, l)
    BY LanguageGrows
  <2>2. ClientReady(small, {s}, l) => ClientReady(big, {s}, l)
    BY <1>1, <2>1 DEF ClientReady
  <2>3. OfSkill(Evidence(small), s) # {} => OfSkill(Evidence(big), s) # {}
    BY PartsGrow DEF Evidence
  <2> QED
    BY <2>1, <2>2, <2>3 DEF TaskReady
<1> QED
  BY <1>1, <1>3, <1>5, <1>6 DEF Keeps

(* No step takes back a qualification, a tier, an authorization or a       *)
(* readiness that the practice evidence has given.                         *)
THEOREM StandingSound == Spec => StandingKept
<1>1. TrainingInv /\ TrainingInv' /\ [Next]_vars => history \in SUBSET history'
  BY DEF Next, vars, CycleBegin, TeacherSave, Plan, Run, RunRaises, RunSave, CycleEnd,
         StoreRaises, Crash
<1>2. TrainingInv /\ TrainingInv' /\ [Next]_vars
        => [history # history' => \A s \in Skills : Keeps(s, history, history')]_vars
  <2> SUFFICES ASSUME TrainingInv, TrainingInv', [Next]_vars, NEW s \in Skills
               PROVE  Keeps(s, history, history')
    OBVIOUS
  <2>1. history' \in SUBSET Rows /\ IsFiniteSet(history')
    BY DEF TrainingInv, TypeOK
  <2>2. history \in SUBSET history'
    BY <1>1
  <2> QED
    BY <2>1, <2>2, StandingGrows
<1> QED
  BY <1>2, InvariantHolds, PTL DEF Spec, StandingKept

-----------------------------------------------------------------------------
(* The latest cycle: what the teacher says of evidence that only grows.    *)

\* how the priority of a lesson depends on lost runs, passes being what they were
LEMMA LessonGrows ==
    ASSUME NEW big \in SUBSET Rows, IsFiniteSet(big), NEW small \in SUBSET big,
           NEW e \in Catalog,
           Passes(OfSkill(small, Category[e])) = Passes(OfSkill(big, Category[e]))
    PROVE  /\ Lesson(small, e).exercise = e /\ Lesson(big, e).exercise = e
           /\ Lesson(small, e).priority \in Int /\ Lesson(big, e).priority \in Int
           /\ Lesson(small, e).priority <= Lesson(big, e).priority
           /\ Lesson(small, e).priority = Lesson(big, e).priority
                => Lesson(small, e) = Lesson(big, e)
<1> DEFINE S(rows) == OfSkill(rows, Category[e])
           P == Passes(S(big))
           F(rows) == Cardinality(S(rows)) - Cardinality(P)
           Few == Cardinality(P) < 3 \/ Cardinality(Forms(P)) < 2
           Due(rows) == IF Few \/ F(rows) > 0 THEN 100 + (F(rows) * 10) + Difficulty[e]
                        ELSE Difficulty[e]
<1>1. S(small) \in SUBSET S(big) /\ S(big) \in SUBSET big
      /\ P \in SUBSET S(small) /\ P \in SUBSET S(big)
  BY DEF OfSkill, Passes
<1>2. IsFiniteSet(S(big)) /\ IsFiniteSet(S(small))
  BY <1>1, FS_Subset
<1>3. IsFiniteSet(P) /\ Cardinality(P) <= Cardinality(S(small))
      /\ Cardinality(S(small)) <= Cardinality(S(big))
  BY <1>1, <1>2, FS_Subset
<1>4. Cardinality(P) \in Nat /\ Cardinality(S(small)) \in Nat /\ Cardinality(S(big)) \in Nat
  BY <1>2, <1>3, FS_CardinalityType
<1>5. Difficulty[e] \in Int
  BY TrainingAssumption
<1>6. \A rows \in {small, big} :
        Lesson(rows, e) = [exercise |-> e, priority |-> Due(rows),
                           passes |-> Cardinality(P), forms |-> Cardinality(Forms(P))]
  BY DEF Lesson
<1> HIDE DEF S, P, Few
<1>7. Due(small) \in Int /\ Due(big) \in Int /\ Due(small) <= Due(big)
  BY <1>3, <1>4, <1>5
<1> HIDE DEF Due
<1> QED
  BY <1>6, <1>7

\* the exercises whose lessons come before that of e, and the first Rounds of all
AheadOf(rows, e) ==
    {f \in Catalog :
        \/ Lesson(rows, f).priority > Lesson(rows, e).priority
        \/ Lesson(rows, f).priority = Lesson(rows, e).priority /\ f < e}
Top(rows) == {e \in Catalog : Cardinality(AheadOf(rows, e)) < Rounds}

LEMMA AheadFinite ==
    /\ IsFiniteSet(Catalog) /\ Catalog \subseteq Int
    /\ \A rows, e : AheadOf(rows, e) \in SUBSET Catalog
    /\ \A rows, e : IsFiniteSet(AheadOf(rows, e)) /\ Cardinality(AheadOf(rows, e)) \in Nat
<1>1. IsFiniteSet(Catalog) /\ Catalog \subseteq Int
  BY TrainingAssumption, FS_Interval DEF Catalog
<1>2. \A rows, e : AheadOf(rows, e) \in SUBSET Catalog
  BY DEF AheadOf
<1> QED
  BY <1>1, <1>2, FS_Subset, FS_CardinalityType

LEMMA LessonTypes ==
    ASSUME NEW rows \in SUBSET Rows, IsFiniteSet(rows), NEW e \in Catalog
    PROVE  Lesson(rows, e).exercise = e /\ Lesson(rows, e).priority \in Int
BY LessonGrows

LEMMA BeforeOfPairs ==
    ASSUME NEW p \in Int, NEW q \in Int, NEW e \in Int, NEW f \in Int
    PROVE  Before(<<- p, e>>, <<- q, f>>) <=> p > q \/ (p = q /\ e < f)
<1> DEFINE a == <<- p, e>>
           b == <<- q, f>>
<1>1. DOMAIN a = {1, 2} /\ a[1] = - p /\ a[2] = e /\ b[1] = - q /\ b[2] = f
  OBVIOUS
<1> HIDE DEF a, b
<1>2. Before(a, b) <=> \E i \in {1, 2} : a[i] < b[i] /\ \A j \in 1 .. i - 1 : a[j] = b[j]
  BY <1>1 DEF Before
<1>3. (\A j \in 1 .. 1 - 1 : a[j] = b[j]) /\ ((\A j \in 1 .. 2 - 1 : a[j] = b[j]) <=> a[1] = b[1])
  OBVIOUS
<1>4. Before(a, b) <=> a[1] < b[1] \/ (a[2] < b[2] /\ a[1] = b[1])
  BY <1>2, <1>3
<1>5. Before(a, b) <=> p > q \/ (p = q /\ e < f)
  BY <1>1, <1>4
<1> QED
  BY <1>5 DEF a, b

\* the curriculum has the lessons of those exercises
LEMMA CurriculumOfTop ==
    ASSUME NEW rows \in SUBSET Rows, IsFiniteSet(rows)
    PROVE  Curriculum(rows) = {Lesson(rows, e) : e \in Top(rows)}
<1> DEFINE L == {Lesson(rows, e) : e \in Catalog}
           A(k, l) == Before(<<- k.priority, k.exercise>>, <<- l.priority, l.exercise>>)
           Better(l) == {k \in L : A(k, l)}
<1>1. \A e \in Catalog : Lesson(rows, e).exercise = e /\ Lesson(rows, e).priority \in Int
  BY LessonTypes
<1>2. ASSUME NEW e \in Catalog, NEW f \in Catalog
      PROVE  A(Lesson(rows, f), Lesson(rows, e)) <=> f \in AheadOf(rows, e)
  BY <1>1, AheadFinite, BeforeOfPairs DEF AheadOf
<1>3. Curriculum(rows) = {l \in L : Cardinality(Better(l)) < Rounds}
  BY DEF Curriculum
<1> HIDE DEF A
<1>4. ASSUME NEW e \in Catalog
      PROVE  Cardinality(Better(Lesson(rows, e))) = Cardinality(AheadOf(rows, e))
  <2> DEFINE S == AheadOf(rows, e)
             T == Better(Lesson(rows, e))
             g == [f \in S |-> Lesson(rows, f)]
  <2>1. S \in SUBSET Catalog
    BY AheadFinite
  <2>2. \A f \in S : g[f] \in T
    BY <1>2, <2>1
  <2>3. \A k \in T : \E f \in S : g[f] = k
    BY <1>2
  <2>4. \A f, h \in S : g[f] = g[h] => f = h
    BY <1>1, <2>1
  <2>5. g \in Surjection(S, T) /\ g \in Injection(S, T)
    BY <2>2, <2>3, <2>4 DEF Surjection, Injection, IsInjective
  <2> QED
    BY <2>5, AheadFinite, FS_Surjection
<1> HIDE DEF Better
<1> QED
  BY <1>3, <1>4 DEF Top

\* in a strict total order, who is not among the first n has n of them before it
LEMMA RanksFull ==
    ASSUME NEW S, IsFiniteSet(S), NEW n \in Nat, NEW ahead \in [S -> SUBSET S],
           \A x, y, z \in S : x \in ahead[y] /\ y \in ahead[z] => x \in ahead[z],
           \A x \in S : x \notin ahead[x],
           \A x, y \in S : x # y => x \in ahead[y] \/ y \in ahead[x],
           NEW e \in S, ~(Cardinality(ahead[e]) < n)
    PROVE  LET top == {x \in S : Cardinality(ahead[x]) < n} IN
           top \subseteq ahead[e] /\ Cardinality(top) >= n
<1> DEFINE Rank(x) == Cardinality(ahead[x])
           top == {x \in S : Rank(x) < n}
<1>1. \A x \in S : IsFiniteSet(ahead[x]) /\ Rank(x) \in Nat
  BY FS_Subset, FS_CardinalityType
<1>2. ASSUME NEW x \in S, NEW y \in ahead[x] PROVE y \in S /\ Rank(y) < Rank(x)
  <2>1. ahead[y] \in SUBSET ahead[x] /\ ahead[y] # ahead[x] /\ y \in S
    BY <1>2
  <2>2. Rank(y) <= Rank(x) /\ Rank(y) # Rank(x)
    BY <1>1, <2>1, FS_Subset
  <2> QED
    BY <1>1, <2>1, <2>2
<1>3. ASSUME NEW t \in top PROVE t \in ahead[e]
  <2>1. t \in S /\ Rank(t) < n /\ ~(Rank(e) < n)
    OBVIOUS
  <2>2. e \notin ahead[t]
    <3> HIDE DEF Rank
    <3> QED
      BY <1>1, <1>2, <2>1
  <2> QED
    BY <2>1, <2>2
<1>4. Cardinality(top) >= n
  <2> DEFINE N == {k \in Nat : \E x \in S \ top : Rank(x) = k}
  <2>1. N \subseteq Nat /\ N # {}
    BY <1>1
  <2>2. PICK m \in N : \A k \in N : ~(<<k, m>> \in OpToRel(<, Nat))
    BY <2>1, NatLessThanWellFounded, WFMin
  <2>3. PICK x \in S \ top : Rank(x) = m
    BY <2>2
  <2>4. ASSUME NEW y \in ahead[x] PROVE y \in top
    <3>1. y \in S /\ Rank(y) < m /\ Rank(y) \in Nat
      BY <1>1, <1>2, <2>3
    <3>2. Rank(y) \notin N
      BY <1>1, <2>2, <3>1 DEF OpToRel
    <3> QED
      BY <1>1, <3>1, <3>2
  <2>5. IsFiniteSet(top)
    BY FS_Subset
  <2>6. Rank(x) <= Cardinality(top) /\ Cardinality(top) \in Nat
    BY <2>4, <2>5, FS_Subset, FS_CardinalityType
  <2>7. ~(Rank(x) < n)
    BY <2>3
  <2> QED
    BY <1>1, <2>3, <2>6, <2>7
<1> QED
  BY <1>3, <1>4

\* an exercise that is not among the first has Rounds of them before it
LEMMA TopIsFull ==
    ASSUME NEW rows \in SUBSET Rows, IsFiniteSet(rows), NEW e \in Catalog, e \notin Top(rows)
    PROVE  Top(rows) \subseteq AheadOf(rows, e) /\ Cardinality(Top(rows)) >= Rounds
<1> DEFINE P(z) == Lesson(rows, z).priority
           ahead == [x \in Catalog |-> AheadOf(rows, x)]
<1>1. \A x \in Catalog : P(x) \in Int /\ x \in Int
  BY LessonTypes, TrainingAssumption DEF Catalog
<1>2. \A x, y \in Catalog : x \in ahead[y] <=> P(x) > P(y) \/ (P(x) = P(y) /\ x < y)
  BY DEF AheadOf
<1>3. /\ IsFiniteSet(Catalog) /\ Rounds \in Nat
      /\ ahead \in [Catalog -> SUBSET Catalog]
  BY TrainingAssumption, AheadFinite, FS_Interval DEF Catalog, AheadOf
<1>4. Top(rows) = {x \in Catalog : Cardinality(ahead[x]) < Rounds}
  BY DEF Top
<1>5. ahead[e] = AheadOf(rows, e) /\ ~(Cardinality(ahead[e]) < Rounds)
  BY DEF Top
<1> HIDE DEF P, ahead
<1>6. /\ \A x, y, z \in Catalog : x \in ahead[y] /\ y \in ahead[z] => x \in ahead[z]
      /\ \A x \in Catalog : x \notin ahead[x]
      /\ \A x, y \in Catalog : x # y => x \in ahead[y] \/ y \in ahead[x]
  BY <1>1, <1>2
<1> QED
  BY <1>3, <1>4, <1>5, <1>6, RanksFull

LEMMA SamePasses ==
    ASSUME NEW big, IsFiniteSet(big), NEW middle \in SUBSET big, NEW small \in SUBSET middle,
           NEW s,
           Cardinality(Passes(OfSkill(small, s))) = Cardinality(Passes(OfSkill(big, s)))
    PROVE  /\ Passes(OfSkill(small, s)) = Passes(OfSkill(big, s))
           /\ Passes(OfSkill(middle, s)) = Passes(OfSkill(big, s))
<1>1. /\ Passes(OfSkill(small, s)) \in SUBSET Passes(OfSkill(middle, s))
      /\ Passes(OfSkill(middle, s)) \in SUBSET Passes(OfSkill(big, s))
      /\ Passes(OfSkill(big, s)) \in SUBSET big
  BY DEF Passes, OfSkill
<1>2. IsFiniteSet(Passes(OfSkill(big, s)))
  BY <1>1, FS_Subset
<1>3. Passes(OfSkill(small, s)) \in SUBSET Passes(OfSkill(big, s))
  BY <1>1
<1>4. Passes(OfSkill(small, s)) = Passes(OfSkill(big, s))
  BY <1>2, <1>3, FS_Subset
<1> QED
  BY <1>1, <1>4

\* a teacher who says what an older cycle said says what every cycle between said
LEMMA CycleBetween ==
    ASSUME NEW big \in SUBSET Rows, IsFiniteSet(big), NEW middle \in SUBSET big,
           NEW small \in SUBSET middle, Cycle(small) = Cycle(big)
    PROVE  Cycle(middle) = Cycle(big)
<1>1. /\ IsFiniteSet(middle) /\ IsFiniteSet(small)
      /\ middle \in SUBSET Rows /\ small \in SUBSET Rows /\ small \in SUBSET big
  BY FS_Subset
<1>2. ASSUME NEW s \in Skills
      PROVE  /\ Passes(OfSkill(small, s)) = Passes(OfSkill(big, s))
             /\ Passes(OfSkill(middle, s)) = Passes(OfSkill(big, s))
  <2>1. Cycle(small).evidence[s].passes = Cardinality(Passes(OfSkill(small, s)))
        /\ Cycle(big).evidence[s].passes = Cardinality(Passes(OfSkill(big, s)))
    BY DEF Cycle
  <2> QED
    BY <2>1, SamePasses
<1>3. Cycle(middle).evidence = Cycle(big).evidence
  <2>1. \A s \in Skills : Qualified(middle, s) = Qualified(big, s)
    BY <1>2 DEF Qualified
  <2> QED
    BY <1>2, <2>1 DEF Cycle
<1>4. ASSUME NEW e \in Catalog
      PROVE  /\ Lesson(small, e).exercise = e /\ Lesson(middle, e).exercise = e
             /\ Lesson(big, e).exercise = e
             /\ Lesson(small, e).priority \in Int /\ Lesson(middle, e).priority \in Int
             /\ Lesson(big, e).priority \in Int
             /\ Lesson(small, e).priority <= Lesson(middle, e).priority
             /\ Lesson(middle, e).priority <= Lesson(big, e).priority
             /\ Lesson(middle, e).priority = Lesson(big, e).priority
                  => Lesson(middle, e) = Lesson(big, e)
  <2>1. Category[e] \in Skills
    BY DEF Skills
  <2>2. /\ Passes(OfSkill(small, Category[e])) = Passes(OfSkill(middle, Category[e]))
        /\ Passes(OfSkill(middle, Category[e])) = Passes(OfSkill(big, Category[e]))
    BY <1>2, <2>1
  <2> QED
    BY <1>1, <2>2, LessonGrows
<1>5. /\ Curriculum(small) = {Lesson(small, e) : e \in Top(small)}
      /\ Curriculum(middle) = {Lesson(middle, e) : e \in Top(middle)}
      /\ Curriculum(big) = {Lesson(big, e) : e \in Top(big)}
  BY <1>1, CurriculumOfTop
<1>6. Curriculum(small) = Curriculum(big)
  BY DEF Cycle
<1>7. Top(big) \subseteq Catalog /\ Top(small) \subseteq Catalog /\ Top(middle) \subseteq Catalog
  BY DEF Top
<1>8. ASSUME NEW e \in Top(big)
      PROVE  Lesson(middle, e) = Lesson(big, e)
  <2>1. PICK x \in Top(small) : Lesson(big, e) = Lesson(small, x)
    BY <1>5, <1>6
  <2>2. x = e
    BY <1>4, <1>7, <2>1
  <2>3. Lesson(middle, e).priority = Lesson(big, e).priority
    BY <1>4, <1>7, <2>1, <2>2
  <2> QED
    BY <1>4, <1>7, <2>3
<1>9. ASSUME NEW e \in Top(big) PROVE e \in Top(middle)
  <2>1. e \in Catalog /\ Lesson(middle, e) = Lesson(big, e) /\ Cardinality(AheadOf(big, e)) < Rounds
    BY <1>7, <1>8 DEF Top
  <2>2. AheadOf(middle, e) \in SUBSET AheadOf(big, e)
    BY <1>4, <2>1 DEF AheadOf
  <2>3. Cardinality(AheadOf(middle, e)) <= Cardinality(AheadOf(big, e))
    BY <2>2, AheadFinite, FS_Subset
  <2> QED
    BY <2>1, <2>3, AheadFinite, TrainingAssumption DEF Top
<1>10. ASSUME NEW e \in Top(middle), e \notin Top(big) PROVE FALSE
  <2>0. e \in Catalog
    BY <1>7
  <2>1. Top(big) \subseteq AheadOf(big, e) /\ Cardinality(Top(big)) >= Rounds
    BY <1>10, <2>0, TopIsFull
  <2>2. ASSUME NEW t \in Top(big) PROVE t \in AheadOf(middle, e)
    <3>1. t \in AheadOf(big, e) /\ t \in Catalog /\ e \in Catalog
      BY <1>7, <2>1
    <3>2. Lesson(middle, t).priority = Lesson(big, t).priority
          /\ Lesson(middle, e).priority <= Lesson(big, e).priority
      BY <1>4, <1>8, <3>1
    <3> QED
      BY <1>4, <3>1, <3>2 DEF AheadOf
  <2>3. Cardinality(Top(big)) <= Cardinality(AheadOf(middle, e)) /\ Cardinality(Top(big)) \in Nat
    BY <2>2, AheadFinite, FS_Subset, FS_CardinalityType
  <2>4. Cardinality(AheadOf(middle, e)) < Rounds
    BY DEF Top
  <2> QED
    BY <2>1, <2>3, <2>4, AheadFinite, TrainingAssumption
<1>11. Top(middle) = Top(big)
  BY <1>9, <1>10
<1>12. Curriculum(middle) = Curriculum(big)
  BY <1>5, <1>8, <1>11
<1> QED
  BY <1>3, <1>12 DEF Cycle

\* every stored cycle says what the teacher said of evidence that has grown since
Chain(H) ==
    /\ H \in [1 .. Len(cycles) -> SUBSET history]
    /\ \A i \in 1 .. Len(cycles) : cycles[i] = Cycle(H[i])
    /\ \A i, j \in 1 .. Len(cycles) : i <= j => H[i] \in SUBSET H[j]

LatestInv == LatestCycleIsCurrent /\ \E H : Chain(H)

LEMMA LatestElsewhere ==
    ASSUME LatestInv, history \in SUBSET history', UNCHANGED cycles,
           worker'.at = "plan" => worker' = worker /\ history' = history
    PROVE  LatestInv'
<1>1. PICK H : Chain(H)
  BY DEF LatestInv
<1>2. Chain(H)'
  BY <1>1 DEF Chain
<1>3. LatestCycleIsCurrent'
  BY DEF LatestInv, LatestCycleIsCurrent
<1> QED
  BY <1>2, <1>3 DEF LatestInv

LEMMA LatestStep == TrainingInv /\ LatestInv /\ [Next]_vars => LatestInv'
<1> SUFFICES ASSUME TrainingInv, LatestInv, [Next]_vars PROVE LatestInv'
  OBVIOUS
<1>1. CASE TeacherSave
  <2>1. PICK H : Chain(H)
    BY DEF LatestInv
  <2>2. /\ Len(cycles) \in Nat /\ DOMAIN cycles = 1 .. Len(cycles)
        /\ history \in SUBSET Rows /\ IsFiniteSet(history) /\ history' = history
    BY <1>1 DEF TrainingInv, TypeOK, TeacherSave
  <2>3. CASE \E i \in DOMAIN cycles : cycles[i] = Cycle(history)
    <3>1. PICK i \in 1 .. Len(cycles) : cycles[i] = Cycle(history)
      BY <2>2, <2>3
    <3> DEFINE n == Len(cycles)
    <3>2. n \in 1 .. n /\ i <= n
      BY <2>2, <3>1
    <3>3. H[n] \in SUBSET history /\ H[i] \in SUBSET H[n] /\ Cycle(H[i]) = Cycle(history)
          /\ cycles[n] = Cycle(H[n])
      BY <2>1, <3>1, <3>2 DEF Chain
    <3>4. cycles[n] = Cycle(history)
      BY <2>2, <3>3, CycleBetween
    <3>5. UNCHANGED cycles
      BY <1>1, <2>3 DEF TeacherSave, CycleIdentity
    <3>6. cycles # <<>>
      BY <3>2
    <3> QED
      BY <2>1, <2>2, <3>4, <3>5, <3>6 DEF LatestInv, LatestCycleIsCurrent, Chain
  <2>4. CASE ~ \E i \in DOMAIN cycles : cycles[i] = Cycle(history)
    <3> DEFINE n == Len(cycles)
               C == {Cycle(h) : h \in SUBSET Rows}
               G == [i \in 1 .. n + 1 |-> IF i = n + 1 THEN history ELSE H[i]]
    <3>1. cycles' = Append(cycles, Cycle(history))
      BY <1>1, <2>4 DEF TeacherSave, CycleIdentity
    <3>2. cycles \in Seq(C) /\ Cycle(history) \in C
      BY <2>2 DEF TrainingInv
    <3> HIDE DEF C
    <3>3. /\ Len(cycles') = n + 1 /\ cycles'[n + 1] = Cycle(history)
          /\ \A i \in 1 .. n : cycles'[i] = cycles[i]
      BY <3>1, <3>2
    <3>4. \A i \in 1 .. n : H[i] \in SUBSET history /\ cycles[i] = Cycle(H[i])
      BY <2>1 DEF Chain
    <3>5. \A i, j \in 1 .. n : i <= j => H[i] \in SUBSET H[j]
      BY <2>1 DEF Chain
    <3>6. G \in [1 .. n + 1 -> SUBSET history]
      BY <2>2, <3>4
    <3>7. \A i \in 1 .. n + 1 : cycles'[i] = Cycle(G[i])
      BY <2>2, <3>3, <3>4
    <3>8. ASSUME NEW i \in 1 .. n + 1, NEW j \in 1 .. n + 1, i <= j
          PROVE  G[i] \in SUBSET G[j]
      <4>1. CASE j = n + 1
        BY <2>2, <3>4, <4>1
      <4>2. CASE j # n + 1
        <5>1. i \in 1 .. n /\ j \in 1 .. n /\ G[i] = H[i] /\ G[j] = H[j]
          BY <2>2, <3>8, <4>2
        <5> QED
          BY <3>5, <3>8, <5>1
      <4> QED
        BY <4>1, <4>2
    <3> HIDE DEF G
    <3>9. PICK K : K = G
      OBVIOUS
    <3>10. Chain(K)'
      <4>1. K \in [1 .. Len(cycles') -> SUBSET history']
        BY <2>2, <3>3, <3>6, <3>9
      <4>2. \A i \in 1 .. Len(cycles') : cycles'[i] = Cycle(K[i])
        BY <3>3, <3>7, <3>9
      <4>3. \A i, j \in 1 .. Len(cycles') : i <= j => K[i] \in SUBSET K[j]
        BY <3>3, <3>8, <3>9
      <4> QED
        BY <4>1, <4>2, <4>3 DEF Chain
    <3>11. cycles' # <<>> /\ cycles'[Len(cycles')] = Cycle(history)'
      BY <2>2, <3>3
    <3> QED
      BY <3>10, <3>11 DEF LatestInv, LatestCycleIsCurrent
  <2> QED
    BY <2>3, <2>4
<1>2. CASE ~TeacherSave
  <2>1. /\ history \in SUBSET history' /\ UNCHANGED cycles
        /\ worker'.at = "plan" => worker' = worker /\ history' = history
    BY <1>2 DEF Next, vars, CycleBegin, Plan, Run, RunRaises, RunSave, CycleEnd,
       StoreRaises, Crash, Idle, At
  <2> QED
    BY <2>1, LatestElsewhere
<1> QED
  BY <1>1, <1>2

(* The stored cycle that is the latest says what the teacher has just      *)
(* computed, though a cycle that was said before is not stored again.      *)
THEOREM LatestIsCurrent == Spec => []LatestCycleIsCurrent
<1>1. Init => LatestInv
  <2> SUFFICES ASSUME Init PROVE LatestInv
    OBVIOUS
  <2>1. Len(cycles) = 0 /\ worker.at # "plan"
    BY DEF Init, Idle
  <2>2. Chain([i \in 1 .. 0 |-> {}])
    BY <2>1 DEF Chain
  <2> QED
    BY <2>1, <2>2 DEF LatestInv, LatestCycleIsCurrent
<1>2. LatestInv => LatestCycleIsCurrent
  BY DEF LatestInv
<1> QED
  BY <1>1, <1>2, LatestStep, InvariantHolds, PTL DEF Spec

-----------------------------------------------------------------------------
(* Every skill in turn: what an exercise that waits for its third pass can *)
(* have been made to wait for.                                             *)

PassesOf(rows, e) == Cardinality(Passes(OfExercise(rows, e)))

\* f was run after every run of e, which waits for its third pass
Refreshed(rows, f, e) ==
    /\ PassesOf(rows, e) = 2
    /\ \E r \in OfExercise(rows, f) : \A q \in OfExercise(rows, e) : q.sequence < r.sequence

\* what each of the others may be run for while e waits: three passes and one refresh
Credits(rows, e) ==
    {c \in (Catalog \ {e}) \X (1 .. 4) :
        IF c[2] = 4 THEN Refreshed(rows, c[1], e) ELSE c[2] <= PassesOf(rows, c[1])}

Delay == CatalogSize + Rounds - 1
Budget(rows, n, e) ==
    (Rounds * PassesOf(rows, e)) + Cardinality(Credits(rows, e)) + (n * Delay)

\* running an item <<exercise, sequence>> that was preferred to e will use a credit
Owed(rows, x, e) ==
    \/ PassesOf(rows, x[1]) < 3
    \/ /\ PassesOf(rows, e) = 2 /\ ~Refreshed(rows, x[1], e)
       /\ \A q \in OfExercise(rows, e) : q.sequence < x[2]

\* what a cycle has still to run or to save
Key(i) == <<i.exercise, i.sequence>>
Open(w) ==
    CASE w.at = "run"  -> {Key(i) : i \in w.todo}
      [] w.at = "save" -> {Key(i) : i \in w.todo} \cup {Key(w.result)}
      [] OTHER         -> {}

\* d completed cycles, n lost runs: every run was for e or has used a credit
Afford(rows, n, d, e) == d * Rounds <= Budget(rows, n, e)
AffordOpen(rows, n, d, S, e) ==
    \/ Afford(rows, n, d + 1, e)
    \/ /\ (d + 1) * Rounds <= Budget(rows, n, e) + Cardinality(S)
       /\ \A x \in S : Owed(rows, x, e)

Affords(e) ==
    PassesOf(history, e) < 3 =>
        /\ Afford(history, lost, done, e)
        /\ worker.at \in {"run", "save"} /\ (\A x \in Open(worker) : x[1] # e)
             => AffordOpen(history, lost, done, Open(worker), e)

BudgetInv ==
    /\ \A r \in history : r.sequence % CatalogSize = r.exercise
    /\ \A e \in Catalog : HasNewest(OfExercise(history, e))
    /\ IsFiniteSet(Open(worker))
    /\ \A e \in Catalog : Affords(e)

-----------------------------------------------------------------------------
(* Counting.                                                               *)

LEMMA CatalogFinite ==
    /\ IsFiniteSet(Catalog) /\ Cardinality(Catalog) = CatalogSize
    /\ Catalog \in SUBSET Int /\ CatalogSize \in Nat \ {0} /\ Rounds \in Nat \ {0}
    /\ Delay \in Nat /\ Delay >= Rounds /\ Delay >= CatalogSize
BY TrainingAssumption, FS_Interval DEF Catalog, Delay

LEMMA OfExerciseFacts ==
    ASSUME NEW rows \in SUBSET Rows, IsFiniteSet(rows), NEW e
    PROVE  /\ OfExercise(rows, e) \in SUBSET Rows /\ IsFiniteSet(OfExercise(rows, e))
           /\ Passes(OfExercise(rows, e)) \in SUBSET OfExercise(rows, e)
           /\ IsFiniteSet(Passes(OfExercise(rows, e)))
           /\ PassesOf(rows, e) \in Nat
<1>1. OfExercise(rows, e) \in SUBSET rows
  BY DEF OfExercise
<1>2. IsFiniteSet(OfExercise(rows, e))
  BY <1>1, FS_Subset
<1>3. Passes(OfExercise(rows, e)) \in SUBSET OfExercise(rows, e)
  BY DEF Passes
<1>4. IsFiniteSet(Passes(OfExercise(rows, e)))
  BY <1>2, <1>3, FS_Subset
<1> QED
  BY <1>1, <1>2, <1>3, <1>4, FS_CardinalityType DEF PassesOf

\* one row more
LEMMA RowSaved ==
    ASSUME NEW rows \in SUBSET Rows, IsFiniteSet(rows), NEW r \in Rows, r \notin rows, NEW e
    PROVE  /\ e # r.exercise => /\ OfExercise(rows \cup {r}, e) = OfExercise(rows, e)
                                /\ PassesOf(rows \cup {r}, e) = PassesOf(rows, e)
           /\ e = r.exercise => /\ OfExercise(rows \cup {r}, e) = OfExercise(rows, e) \cup {r}
                                /\ PassesOf(rows \cup {r}, e) =
                                     IF Verified(r) THEN PassesOf(rows, e) + 1
                                     ELSE PassesOf(rows, e)
<1>1. CASE e # r.exercise
  <2>1. OfExercise(rows \cup {r}, e) = OfExercise(rows, e)
    BY <1>1 DEF OfExercise
  <2> QED
    BY <1>1, <2>1 DEF PassesOf
<1>2. CASE e = r.exercise
  <2>1. OfExercise(rows \cup {r}, e) = OfExercise(rows, e) \cup {r}
    BY <1>2 DEF OfExercise
  <2>2. Verified(r) => Passes(OfExercise(rows \cup {r}, e)) = Passes(OfExercise(rows, e)) \cup {r}
    BY <2>1 DEF Passes
  <2>3. ~Verified(r) => Passes(OfExercise(rows \cup {r}, e)) = Passes(OfExercise(rows, e))
    BY <2>1 DEF Passes
  <2>4. r \notin Passes(OfExercise(rows, e))
    BY DEF Passes, OfExercise
  <2>5. IsFiniteSet(Passes(OfExercise(rows, e)))
    BY OfExerciseFacts
  <2>6. Cardinality(Passes(OfExercise(rows, e)) \cup {r}) = PassesOf(rows, e) + 1
    BY <2>4, <2>5, FS_AddElement DEF PassesOf
  <2> QED
    BY <1>2, <2>1, <2>2, <2>3, <2>6 DEF PassesOf
<1> QED
  BY <1>1, <1>2

LEMMA CreditsFinite ==
    ASSUME NEW rows, NEW e \in Catalog
    PROVE  /\ IsFiniteSet(Credits(rows, e)) /\ Cardinality(Credits(rows, e)) \in Nat
           /\ Cardinality(Credits(rows, e)) <= 4 * (CatalogSize - 1)
<1> DEFINE C == Catalog \ {e}
<1>1. IsFiniteSet(C) /\ Cardinality(C) = CatalogSize - 1
  BY CatalogFinite, FS_RemoveElement
<1>2. IsFiniteSet(1 .. 4) /\ Cardinality(1 .. 4) = 4
  <2>1. 1 \in Int /\ 4 \in Int /\ ~(1 > 4) /\ 4 - 1 + 1 = 4
    OBVIOUS
  <2> HIDE DEF C
  <2> QED
    BY <2>1, FS_Interval, Zenon
<1>3. IsFiniteSet(C \X (1 .. 4)) /\ Cardinality(C \X (1 .. 4)) = Cardinality(C) * 4
  BY <1>1, <1>2, FS_Product
<1>4. Credits(rows, e) \in SUBSET (C \X (1 .. 4))
  BY DEF Credits
<1> QED
  BY <1>1, <1>3, <1>4, CatalogFinite, FS_Subset, FS_CardinalityType

LEMMA BudgetIsInt ==
    ASSUME NEW rows \in SUBSET Rows, IsFiniteSet(rows), NEW n \in Nat, NEW e \in Catalog
    PROVE  /\ Budget(rows, n, e) \in Int
           /\ Budget(rows, n + 1, e) = Budget(rows, n, e) + Delay
           /\ PassesOf(rows, e) \in Nat /\ Cardinality(Credits(rows, e)) \in Nat
<1>1. /\ PassesOf(rows, e) \in Nat /\ Cardinality(Credits(rows, e)) \in Nat
      /\ Rounds \in Nat /\ Delay \in Nat
  BY OfExerciseFacts, CreditsFinite, CatalogFinite
<1>2. (n + 1) * Delay = (n * Delay) + Delay /\ n * Delay \in Int
  BY <1>1, SMT
<1>3. Rounds * PassesOf(rows, e) \in Int
  BY <1>1, SMT
<1> QED
  BY <1>1, <1>2, <1>3 DEF Budget

-----------------------------------------------------------------------------
(* Priorities: their order, and what preferring one exercise to another    *)
(* says of the two.                                                        *)

\* tuples of six integers, compared as Python compares them
LEMMA BeforeOfSix ==
    ASSUME NEW a, NEW b, DOMAIN a = 1 .. 6
    PROVE  Before(a, b) <=>
             \/ a[1] < b[1]
             \/ a[1] = b[1] /\ a[2] < b[2]
             \/ a[1] = b[1] /\ a[2] = b[2] /\ a[3] < b[3]
             \/ a[1] = b[1] /\ a[2] = b[2] /\ a[3] = b[3] /\ a[4] < b[4]
             \/ a[1] = b[1] /\ a[2] = b[2] /\ a[3] = b[3] /\ a[4] = b[4] /\ a[5] < b[5]
             \/ /\ a[1] = b[1] /\ a[2] = b[2] /\ a[3] = b[3] /\ a[4] = b[4] /\ a[5] = b[5]
                /\ a[6] < b[6]
<1> DEFINE Same(i) == \A j \in 1 .. i - 1 : a[j] = b[j]
<1>1. Before(a, b) <=> \E i \in 1 .. 6 : a[i] < b[i] /\ Same(i)
  BY DEF Before
<1>2. /\ Same(1)
      /\ Same(2) <=> a[1] = b[1]
      /\ Same(3) <=> a[1] = b[1] /\ a[2] = b[2]
      /\ Same(4) <=> a[1] = b[1] /\ a[2] = b[2] /\ a[3] = b[3]
      /\ Same(5) <=> a[1] = b[1] /\ a[2] = b[2] /\ a[3] = b[3] /\ a[4] = b[4]
      /\ Same(6) <=> a[1] = b[1] /\ a[2] = b[2] /\ a[3] = b[3] /\ a[4] = b[4] /\ a[5] = b[5]
  <2>1. /\ 1 .. 1 - 1 = {} /\ 1 .. 2 - 1 = {1} /\ 1 .. 3 - 1 = {1, 2} /\ 1 .. 4 - 1 = {1, 2, 3}
        /\ 1 .. 5 - 1 = {1, 2, 3, 4} /\ 1 .. 6 - 1 = {1, 2, 3, 4, 5}
    OBVIOUS
  <2> QED
    BY <2>1
<1> HIDE DEF Same
<1>3. \A i : i \in 1 .. 6 <=> i = 1 \/ i = 2 \/ i = 3 \/ i = 4 \/ i = 5 \/ i = 6
  OBVIOUS
<1>4. Before(a, b) <=> \/ a[1] < b[1] /\ Same(1)
                       \/ a[2] < b[2] /\ Same(2)
                       \/ a[3] < b[3] /\ Same(3)
                       \/ a[4] < b[4] /\ Same(4)
                       \/ a[5] < b[5] /\ Same(5)
                       \/ a[6] < b[6] /\ Same(6)
  BY <1>1, <1>3, Zenon
<1> QED
  BY <1>2, <1>4, Zenon

\* the parts of the key that plan_training sorts by
Passed(rows, e) == Flag(PassesOf(rows, e) > 0)
Spoken(rows, e) == Flag(Cardinality(Passes(OfLanguage(rows, Language[e]))) >= 3)
Mastered(rows, e) == Flag(PassesOf(rows, e) >= 2)
Last(rows, e) == Newest(OfExercise(rows, e))

Preferred(rows, f, e) ==
    \/ Passed(rows, f) < Passed(rows, e)
    \/ /\ Passed(rows, f) = Passed(rows, e)
       /\ \/ Spoken(rows, f) < Spoken(rows, e)
          \/ /\ Spoken(rows, f) = Spoken(rows, e)
             /\ \/ Mastered(rows, f) < Mastered(rows, e)
                \/ /\ Mastered(rows, f) = Mastered(rows, e)
                   /\ Last(rows, f) <= Last(rows, e)

\* every exercise has a latest run, or none
Dated(rows) ==
    /\ rows \in SUBSET Rows /\ IsFiniteSet(rows)
    /\ \A e \in Catalog : HasNewest(OfExercise(rows, e))

LEMMA KeyTypes ==
    ASSUME NEW rows, Dated(rows), NEW e \in Catalog
    PROVE  /\ Passed(rows, e) \in {0, 1} /\ Spoken(rows, e) \in {0, 1} /\ Mastered(rows, e) \in {0, 1}
           /\ Last(rows, e) \in Int /\ e \in Int /\ - Difficulty[e] \in Int
           /\ Priority(rows, e) = <<Passed(rows, e), Spoken(rows, e), Mastered(rows, e),
                                    Last(rows, e), - Difficulty[e], e>>
<1>1. Last(rows, e) \in Int
  BY OfExerciseFacts, NewestIsGreatest DEF Dated, Last
<1>2. Difficulty[e] \in 1 .. 6
  BY TrainingAssumption
<1>3. e \in Int
  BY CatalogFinite
<1> QED
  BY <1>1, <1>2, <1>3
     DEF Priority, Passed, Spoken, Mastered, Last, PassesOf, Flag

LEMMA PriorityIsOrder ==
    ASSUME NEW rows, Dated(rows)
    PROVE  /\ \A e \in Catalog : ~Before(Priority(rows, e), Priority(rows, e))
           /\ \A e, f \in Catalog : e # f => \/ Before(Priority(rows, e), Priority(rows, f))
                                             \/ Before(Priority(rows, f), Priority(rows, e))
           /\ \A e, f, g \in Catalog : /\ Before(Priority(rows, e), Priority(rows, f))
                                       /\ Before(Priority(rows, f), Priority(rows, g))
                                       => Before(Priority(rows, e), Priority(rows, g))
           /\ \A f, e \in Catalog : Before(Priority(rows, f), Priority(rows, e))
                                      => Preferred(rows, f, e)
<1> DEFINE B(f, e) ==
             \/ Passed(rows, f) < Passed(rows, e)
             \/ Passed(rows, f) = Passed(rows, e) /\ Spoken(rows, f) < Spoken(rows, e)
             \/ /\ Passed(rows, f) = Passed(rows, e) /\ Spoken(rows, f) = Spoken(rows, e)
                /\ Mastered(rows, f) < Mastered(rows, e)
             \/ /\ Passed(rows, f) = Passed(rows, e) /\ Spoken(rows, f) = Spoken(rows, e)
                /\ Mastered(rows, f) = Mastered(rows, e) /\ Last(rows, f) < Last(rows, e)
             \/ /\ Passed(rows, f) = Passed(rows, e) /\ Spoken(rows, f) = Spoken(rows, e)
                /\ Mastered(rows, f) = Mastered(rows, e) /\ Last(rows, f) = Last(rows, e)
                /\ - Difficulty[f] < - Difficulty[e]
             \/ /\ Passed(rows, f) = Passed(rows, e) /\ Spoken(rows, f) = Spoken(rows, e)
                /\ Mastered(rows, f) = Mastered(rows, e) /\ Last(rows, f) = Last(rows, e)
                /\ - Difficulty[f] = - Difficulty[e] /\ f < e
<1>1. ASSUME NEW e \in Catalog
      PROVE  /\ Passed(rows, e) \in Int /\ Spoken(rows, e) \in Int /\ Mastered(rows, e) \in Int
             /\ Last(rows, e) \in Int /\ e \in Int /\ - Difficulty[e] \in Int
             /\ Priority(rows, e) = <<Passed(rows, e), Spoken(rows, e), Mastered(rows, e),
                                      Last(rows, e), - Difficulty[e], e>>
  BY KeyTypes
<1>2. ASSUME NEW f \in Catalog, NEW e \in Catalog
      PROVE  Before(Priority(rows, f), Priority(rows, e)) <=> B(f, e)
  <2> DEFINE a == Priority(rows, f)
             b == Priority(rows, e)
  <2>1. /\ DOMAIN a = 1 .. 6
        /\ a[1] = Passed(rows, f) /\ a[2] = Spoken(rows, f) /\ a[3] = Mastered(rows, f)
        /\ a[4] = Last(rows, f) /\ a[5] = - Difficulty[f] /\ a[6] = f
    BY <1>1
  <2>2. /\ b[1] = Passed(rows, e) /\ b[2] = Spoken(rows, e) /\ b[3] = Mastered(rows, e)
        /\ b[4] = Last(rows, e) /\ b[5] = - Difficulty[e] /\ b[6] = e
    BY <1>1
  <2> HIDE DEF a, b
  <2>3. Before(a, b) <=>
             \/ a[1] < b[1]
             \/ a[1] = b[1] /\ a[2] < b[2]
             \/ a[1] = b[1] /\ a[2] = b[2] /\ a[3] < b[3]
             \/ a[1] = b[1] /\ a[2] = b[2] /\ a[3] = b[3] /\ a[4] < b[4]
             \/ a[1] = b[1] /\ a[2] = b[2] /\ a[3] = b[3] /\ a[4] = b[4] /\ a[5] < b[5]
             \/ /\ a[1] = b[1] /\ a[2] = b[2] /\ a[3] = b[3] /\ a[4] = b[4] /\ a[5] = b[5]
                /\ a[6] < b[6]
    BY <2>1, BeforeOfSix
  <2>4. Before(a, b) <=> B(f, e)
    BY <2>1, <2>2, <2>3, Zenon
  <2> QED
    BY <2>4 DEF a, b
<1>3. ASSUME NEW f \in Catalog, NEW e \in Catalog, B(f, e) PROVE Preferred(rows, f, e)
  BY <1>1, <1>3 DEF Preferred
<1>4. \A e \in Catalog : ~B(e, e)
  BY <1>1
<1>5. \A e, f \in Catalog : e # f => B(e, f) \/ B(f, e)
  BY <1>1
<1>6. \A e, f, g \in Catalog : B(e, f) /\ B(f, g) => B(e, g)
  BY <1>1
<1> HIDE DEF B
<1> QED
  BY <1>2, <1>3, <1>4, <1>5, <1>6

-----------------------------------------------------------------------------
(* The plan.                                                               *)

\* while e waits for its third pass, what is preferred to it uses a credit
LEMMA PreferredIsOwed ==
    ASSUME NEW rows, Dated(rows), NEW e \in Catalog, NEW f \in Catalog,
           PassesOf(rows, e) < 3, Preferred(rows, f, e), ~(PassesOf(rows, f) < 3)
    PROVE  PassesOf(rows, e) = 2 /\ ~Refreshed(rows, f, e)
<1>1. /\ rows \in SUBSET Rows /\ IsFiniteSet(rows)
      /\ PassesOf(rows, e) \in Nat /\ PassesOf(rows, f) \in Nat
  BY OfExerciseFacts DEF Dated
<1>2. /\ Passed(rows, e) \in {0, 1} /\ Spoken(rows, e) \in {0, 1} /\ Mastered(rows, e) \in {0, 1}
      /\ Last(rows, e) \in Int /\ Last(rows, f) \in Int
  BY KeyTypes
<1>3. Passed(rows, f) = 1 /\ Mastered(rows, f) = 1
  BY <1>1 DEF Passed, Mastered, Flag
<1>4. Spoken(rows, f) = 1
  <2> DEFINE L == Passes(OfLanguage(rows, Language[f]))
  <2>1. Passes(OfExercise(rows, f)) \in SUBSET L /\ L \in SUBSET rows
    BY DEF Passes, OfExercise, OfLanguage
  <2>2. IsFiniteSet(L) /\ Cardinality(L) \in Nat
    BY <1>1, <2>1, FS_Subset, FS_CardinalityType
  <2>3. PassesOf(rows, f) <= Cardinality(L)
    BY <2>1, <2>2, FS_Subset DEF PassesOf
  <2> QED
    BY <1>1, <2>2, <2>3 DEF Spoken, Flag
<1>5. Mastered(rows, e) = 1 /\ Last(rows, f) <= Last(rows, e)
  BY <1>2, <1>3, <1>4 DEF Preferred
<1>6. PassesOf(rows, e) = 2
  BY <1>1, <1>5 DEF Mastered, Flag
<1>7. ~Refreshed(rows, f, e)
  <2> DEFINE E == OfExercise(rows, e)
             F == OfExercise(rows, f)
  <2>1. /\ E \in SUBSET Rows /\ F \in SUBSET Rows /\ E # {} /\ HasNewest(E) /\ HasNewest(F)
    <3>1. Passes(E) # {}
      BY <1>6, FS_EmptySet DEF PassesOf
    <3> QED
      BY <1>1, <3>1, OfExerciseFacts DEF Dated, Passes
  <2> HIDE DEF E, F
  <2>2. PICK m \in E : \A q \in E : q.sequence <= m.sequence
    BY <2>1 DEF HasNewest
  <2>3. Newest(E) = m.sequence
    <3> DEFINE S == {r.sequence : r \in E}
    <3>1. m.sequence \in S /\ S \in SUBSET Int /\ \A k \in S : k <= m.sequence
      BY <2>1, <2>2 DEF Rows
    <3> HIDE DEF S
    <3>2. Greatest(S, -1) \in S /\ \A n \in S : n <= Greatest(S, -1)
      BY <3>1, Zenon DEF Greatest
    <3>3. Greatest(S, -1) = m.sequence
      <4>1. PICK g : g = Greatest(S, -1)
        OBVIOUS
      <4>2. g \in Int /\ m.sequence \in Int /\ g <= m.sequence /\ m.sequence <= g
        BY <3>1, <3>2, <4>1, Zenon
      <4>3. g = m.sequence
        BY <4>2
      <4> QED
        BY <4>1, <4>3
    <3>4. Newest(E) = Greatest(S, -1)
      BY DEF Newest, S
    <3> QED
      BY <3>3, <3>4
  <2>4. \A r \in F : r.sequence <= Newest(F)
    BY <2>1, NewestIsGreatest
  <2>5. Newest(F) <= Newest(E) /\ Newest(F) \in Int
    BY <1>2, <1>5 DEF Last, E, F
  <2> QED
    BY <2>1, <2>2, <2>3, <2>4, <2>5 DEF Refreshed, Rows, E, F
<1> QED
  BY <1>6, <1>7

LEMMA PlanIsFinite ==
    ASSUME NEW rows
    PROVE  LET top == {f \in Catalog : Position(rows, f) < Rounds}
               keys == {Key(i) : i \in PlanTraining(rows)}
           IN  /\ IsFiniteSet(keys) /\ Cardinality(keys) = Cardinality(top)
               /\ \A x \in keys : x[1] \in top /\ x = Key(Item(rows, x[1]))
               /\ \A f \in top : \E x \in keys : x[1] = f
<1> DEFINE top == {f \in Catalog : Position(rows, f) < Rounds}
           keys == {Key(i) : i \in PlanTraining(rows)}
           k == [f \in top |-> Key(Item(rows, f))]
<1>1. \A f \in top : k[f] = Key(Item(rows, f)) /\ k[f][1] = f
  BY DEF Key, Item
<1>2. keys = {k[f] : f \in top}
  BY <1>1 DEF PlanTraining
<1>3. IsFiniteSet(top)
  BY CatalogFinite, FS_Subset
<1> HIDE DEF keys
<1>4. k \in Surjection(top, keys)
  BY <1>2 DEF Surjection
<1>5. k \in Injection(top, keys)
  BY <1>1, <1>2 DEF Injection, IsInjective
<1>6. IsFiniteSet(keys) /\ Cardinality(keys) = Cardinality(top)
  BY <1>3, <1>4, <1>5, FS_Surjection
<1>7. \A x \in keys : x[1] \in top /\ x = Key(Item(rows, x[1]))
  BY <1>1, <1>2
<1>8. \A f \in top : \E x \in keys : x[1] = f
  BY <1>1, <1>2
<1> QED
  BY <1>6, <1>7, <1>8 DEF keys

LEMMA PlanIsOwed ==
    ASSUME NEW rows, Dated(rows), HasNewest(rows), NEW e \in Catalog, PassesOf(rows, e) < 3,
           \A x \in {Key(i) : i \in PlanTraining(rows)} : x[1] # e
    PROVE  LET keys == {Key(i) : i \in PlanTraining(rows)}
           IN  Cardinality(keys) >= Rounds /\ \A x \in keys : Owed(rows, x, e)
<1> DEFINE top == {f \in Catalog : Position(rows, f) < Rounds}
           keys == {Key(i) : i \in PlanTraining(rows)}
           ahead == [x \in Catalog |-> {y \in Catalog : Before(Priority(rows, y), Priority(rows, x))}]
<1>1. /\ Cardinality(keys) = Cardinality(top)
      /\ \A x \in keys : x[1] \in top /\ x = Key(Item(rows, x[1]))
      /\ \A f \in top : \E x \in keys : x[1] = f
  BY PlanIsFinite
<1>2. \A x \in Catalog : Position(rows, x) = Cardinality(ahead[x])
  BY DEF Position
<1>3. e \notin top
  BY <1>1
<1>4. top = {x \in Catalog : Cardinality(ahead[x]) < Rounds}
  BY <1>2
<1>5. top \subseteq ahead[e] /\ Cardinality(top) >= Rounds
  <2> DEFINE T == {x \in Catalog : Cardinality(ahead[x]) < Rounds}
  <2>1. IsFiniteSet(Catalog) /\ Rounds \in Nat /\ ahead \in [Catalog -> SUBSET Catalog]
    BY CatalogFinite
  <2>2. /\ \A x, y, z \in Catalog : x \in ahead[y] /\ y \in ahead[z] => x \in ahead[z]
        /\ \A x \in Catalog : x \notin ahead[x]
        /\ \A x, y \in Catalog : x # y => x \in ahead[y] \/ y \in ahead[x]
    BY PriorityIsOrder
  <2>3. ~(Cardinality(ahead[e]) < Rounds)
    BY <1>3, <1>4
  <2> HIDE DEF ahead
  <2>4. T \subseteq ahead[e] /\ Cardinality(T) >= Rounds
    BY <2>1, <2>2, <2>3, RanksFull
  <2> QED
    BY <1>4, <2>4
<1>6. ASSUME NEW x \in keys PROVE Owed(rows, x, e)
  <2>1. x[1] \in Catalog /\ x[1] \in ahead[e] /\ x = Key(Item(rows, x[1]))
    BY <1>1, <1>5
  <2>2. Preferred(rows, x[1], e)
    BY <2>1, PriorityIsOrder
  <2>3. PICK i \in PlanTraining(rows) : x = Key(i)
    OBVIOUS
  <2>4. x[2] = i.sequence
    BY <2>3 DEF Key
  <2>5. \A q \in OfExercise(rows, e) : q.sequence < x[2]
    BY <2>4, PlanFacts DEF Dated, OfExercise
  <2> HIDE DEF ahead
  <2> QED
    BY <2>1, <2>2, <2>5, PreferredIsOwed DEF Owed
<1> QED
  BY <1>1, <1>5, <1>6

-----------------------------------------------------------------------------
(* A row is saved: what it does to those who wait.                         *)

LEMMA Products ==
    ASSUME NEW a \in Nat, NEW b \in Nat
    PROVE  /\ a * b \in Int
           /\ a * (b + 1) = (a * b) + a
           /\ (a + 1) * b = (a * b) + b
BY SMT

LEMMA OtherSaved ==
    ASSUME NEW rows \in SUBSET Rows, IsFiniteSet(rows), NEW r \in Rows, r \notin rows,
           NEW e \in Catalog, e # r.exercise, NEW n \in Nat
    PROVE  /\ PassesOf(rows \cup {r}, e) = PassesOf(rows, e)
           /\ Credits(rows, e) \in SUBSET Credits(rows \cup {r}, e)
           /\ Budget(rows \cup {r}, n, e) >= Budget(rows, n, e)
<1> DEFINE more == rows \cup {r}
<1>1. ASSUME NEW f
      PROVE  /\ PassesOf(rows, f) \in Nat /\ PassesOf(more, f) \in Nat
             /\ PassesOf(rows, f) <= PassesOf(more, f)
  <2>1. PassesOf(rows, f) \in Nat
    BY OfExerciseFacts
  <2>2. PassesOf(more, f) = PassesOf(rows, f) \/ PassesOf(more, f) = PassesOf(rows, f) + 1
    BY RowSaved
  <2> HIDE DEF more
  <2> QED
    BY <2>1, <2>2
<1>2. PassesOf(more, e) = PassesOf(rows, e) /\ OfExercise(more, e) = OfExercise(rows, e)
  BY RowSaved
<1>3. \A f : OfExercise(rows, f) \in SUBSET OfExercise(more, f)
  BY DEF OfExercise
<1>4. \A f : Refreshed(rows, f, e) => Refreshed(more, f, e)
  BY <1>2, <1>3 DEF Refreshed
<1>5. ASSUME NEW c \in Credits(rows, e) PROVE c \in Credits(more, e)
  <2>1. CASE c[2] = 4
    BY <1>4, <2>1 DEF Credits
  <2>2. CASE c[2] # 4
    <3>1. c \in (Catalog \ {e}) \X (1 .. 4) /\ c[2] <= PassesOf(rows, c[1])
      BY <2>2 DEF Credits
    <3>2. c[2] <= PassesOf(more, c[1])
      <4>1. c[2] \in 1 .. 4
        BY <3>1
      <4>2. /\ PassesOf(rows, c[1]) \in Nat /\ PassesOf(more, c[1]) \in Nat
            /\ PassesOf(rows, c[1]) <= PassesOf(more, c[1])
        BY <1>1
      <4> QED
        BY <3>1, <4>1, <4>2
    <3> QED
      BY <2>2, <3>1, <3>2 DEF Credits
  <2> QED
    BY <2>1, <2>2
<1>6. Cardinality(Credits(rows, e)) <= Cardinality(Credits(more, e))
  BY <1>5, CreditsFinite, FS_Subset
<1>7. /\ Cardinality(Credits(rows, e)) \in Nat /\ Cardinality(Credits(more, e)) \in Nat
      /\ Rounds * PassesOf(rows, e) \in Int /\ n * Delay \in Int
  BY <1>1, CreditsFinite, CatalogFinite, Products
<1>8. Budget(more, n, e) >= Budget(rows, n, e)
  <2> HIDE DEF more
  <2> QED
    BY <1>2, <1>6, <1>7 DEF Budget
<1> QED
  BY <1>2, <1>5, <1>8

LEMMA OwedSaved ==
    ASSUME NEW rows \in SUBSET Rows, IsFiniteSet(rows), NEW r \in Rows, r \notin rows,
           NEW e \in Catalog, e # r.exercise, NEW n \in Nat,
           Verified(r), Owed(rows, Key(r), e)
    PROVE  Budget(rows \cup {r}, n, e) >= Budget(rows, n, e) + 1
<1> DEFINE more == rows \cup {r}
           f == r.exercise
<1>1. f \in Catalog /\ Key(r)[1] = f /\ Key(r)[2] = r.sequence
  BY DEF Rows, Key
<1>2. /\ PassesOf(more, f) = PassesOf(rows, f) + 1 /\ PassesOf(rows, f) \in Nat
      /\ OfExercise(more, f) = OfExercise(rows, f) \cup {r}
      /\ PassesOf(more, e) = PassesOf(rows, e) /\ OfExercise(more, e) = OfExercise(rows, e)
  BY RowSaved, OfExerciseFacts
<1>3. \E c \in Credits(more, e) : c \notin Credits(rows, e)
  <2>1. CASE PassesOf(rows, f) < 3
    <3> DEFINE c == <<f, PassesOf(rows, f) + 1>>
    <3>1. c \in (Catalog \ {e}) \X (1 .. 4) /\ c[1] = f /\ c[2] # 4
          /\ c[2] <= PassesOf(more, f) /\ ~(c[2] <= PassesOf(rows, f))
      BY <1>1, <1>2, <2>1
    <3> QED
      BY <3>1 DEF Credits
  <2>2. CASE ~(PassesOf(rows, f) < 3)
    <3> DEFINE c == <<f, 4>>
    <3>1. /\ PassesOf(rows, e) = 2 /\ ~Refreshed(rows, f, e)
          /\ \A q \in OfExercise(rows, e) : q.sequence < r.sequence
      BY <1>1, <2>2 DEF Owed
    <3>2. Refreshed(more, f, e)
      BY <1>2, <3>1 DEF Refreshed
    <3>3. c \in (Catalog \ {e}) \X (1 .. 4) /\ c[1] = f /\ c[2] = 4
      BY <1>1
    <3> QED
      BY <3>1, <3>2, <3>3 DEF Credits
  <2> QED
    BY <2>1, <2>2
<1>4. Credits(rows, e) \in SUBSET Credits(more, e)
  BY OtherSaved
<1>5. /\ IsFiniteSet(Credits(more, e)) /\ Cardinality(Credits(rows, e)) \in Nat
      /\ Cardinality(Credits(more, e)) \in Nat
  BY CreditsFinite
<1>6. /\ Cardinality(Credits(rows, e)) <= Cardinality(Credits(more, e))
      /\ Cardinality(Credits(rows, e)) # Cardinality(Credits(more, e))
  BY <1>3, <1>4, <1>5, FS_Subset
<1>7. Rounds * PassesOf(rows, e) \in Int /\ n * Delay \in Int
  BY CatalogFinite, OfExerciseFacts, Products
<1> HIDE DEF more
<1>8. Budget(more, n, e) >= Budget(rows, n, e) + 1
  BY <1>2, <1>5, <1>6, <1>7 DEF Budget
<1> QED
  BY <1>8 DEF more

LEMMA OwedStays ==
    ASSUME NEW rows \in SUBSET Rows, IsFiniteSet(rows), NEW r \in Rows, r \notin rows,
           NEW e \in Catalog, e # r.exercise, NEW x, x[1] # r.exercise, Owed(rows, x, e)
    PROVE  Owed(rows \cup {r}, x, e)
<1> DEFINE more == rows \cup {r}
<1>1. /\ PassesOf(more, x[1]) = PassesOf(rows, x[1])
      /\ OfExercise(more, x[1]) = OfExercise(rows, x[1])
      /\ PassesOf(more, e) = PassesOf(rows, e) /\ OfExercise(more, e) = OfExercise(rows, e)
  BY RowSaved
<1> QED
  BY <1>1 DEF Owed, Refreshed

\* a run of the exercise itself: a pass counts as a cycle, and so does a lost one
LEMMA OwnSaved ==
    ASSUME NEW rows \in SUBSET Rows, IsFiniteSet(rows), NEW r \in Rows, r \notin rows,
           NEW n \in Nat, NEW e \in Catalog, e = r.exercise, PassesOf(rows \cup {r}, e) < 3
    PROVE  Budget(rows \cup {r}, IF Verified(r) THEN n ELSE n + 1, e)
             >= Budget(rows, n, e) + Rounds
<1> DEFINE more == rows \cup {r}
           C == Credits(rows, e)
           D == Credits(more, e)
<1>1. /\ PassesOf(rows, e) \in Nat
      /\ PassesOf(more, e) = IF Verified(r) THEN PassesOf(rows, e) + 1 ELSE PassesOf(rows, e)
      /\ \A f \in Catalog \ {e} : PassesOf(more, f) = PassesOf(rows, f)
  BY RowSaved, OfExerciseFacts
<1>2. ASSUME NEW c \in C, c[2] # 4 PROVE c \in D
  BY <1>1, <1>2 DEF Credits
<1>3. /\ IsFiniteSet(C) /\ IsFiniteSet(D) /\ Cardinality(C) \in Nat /\ Cardinality(D) \in Nat
      /\ Rounds \in Nat /\ Delay \in Nat /\ n * Delay \in Int
      /\ Rounds * PassesOf(rows, e) \in Int
      /\ Rounds * (PassesOf(rows, e) + 1) = (Rounds * PassesOf(rows, e)) + Rounds
      /\ (n + 1) * Delay = (n * Delay) + Delay
  <2>1. Rounds \in Nat /\ Delay \in Nat
    BY CatalogFinite
  <2> QED
    BY <1>1, <2>1, CreditsFinite, Products
<1>4. CASE Verified(r)
  <2>1. \A f : ~Refreshed(rows, f, e)
    BY <1>1, <1>4 DEF Refreshed
  <2>2. C \in SUBSET D
    BY <1>2, <2>1 DEF Credits
  <2>3. Cardinality(C) <= Cardinality(D)
    BY <1>3, <2>2, FS_Subset
  <2> HIDE DEF C, D
  <2> QED
    BY <1>1, <1>3, <1>4, <2>3 DEF Budget, C, D
<1>5. CASE ~Verified(r)
  <2> DEFINE L == (Catalog \ {e}) \X {4}
  <2>1. IsFiniteSet(L) /\ Cardinality(L) = CatalogSize - 1
    <3>1. IsFiniteSet(Catalog \ {e}) /\ Cardinality(Catalog \ {e}) = CatalogSize - 1
      BY CatalogFinite, FS_RemoveElement
    <3>2. IsFiniteSet({4}) /\ Cardinality({4}) = 1
      BY FS_Singleton
    <3>3. IsFiniteSet(L) /\ Cardinality(L) = Cardinality(Catalog \ {e}) * Cardinality({4})
      BY <3>1, <3>2, FS_Product
    <3> HIDE DEF L
    <3> QED
      BY <3>1, <3>2, <3>3, CatalogFinite
  <2>2. C \in SUBSET (D \cup L)
    BY <1>2 DEF Credits
  <2> HIDE DEF C, D, L
  <2>3. /\ IsFiniteSet(D \cup L)
        /\ Cardinality(D \cup L) = Cardinality(D) + Cardinality(L) - Cardinality(D \cap L)
    BY <1>3, <2>1, FS_Union
  <2>4. Cardinality(D \cap L) \in Nat
    BY <1>3, FS_Intersection, FS_CardinalityType
  <2>5. Cardinality(C) <= Cardinality(D \cup L)
    BY <2>2, <2>3, FS_Subset
  <2>6. Cardinality(C) <= Cardinality(D) + (CatalogSize - 1)
    BY <1>3, <2>1, <2>3, <2>4, <2>5, CatalogFinite
  <2>7. PassesOf(more, e) = PassesOf(rows, e)
    BY <1>1, <1>5
  <2>8. Delay = CatalogSize + Rounds - 1
    BY DEF Delay
  <2> HIDE DEF more
  <2>9. /\ Budget(rows, n, e) = (Rounds * PassesOf(rows, e)) + Cardinality(C) + (n * Delay)
        /\ Budget(more, n + 1, e) = (Rounds * PassesOf(rows, e)) + Cardinality(D) + (n * Delay) + Delay
    BY <1>3, <2>7 DEF Budget, C, D
  <2> QED
    BY <1>3, <1>5, <2>6, <2>8, <2>9, CatalogFinite DEF more
<1> QED
  BY <1>4, <1>5

-----------------------------------------------------------------------------
(* The budget is kept.                                                     *)

\* what the two invariants say of the numbers
LEMMA BudgetFacts ==
    ASSUME TrainingInv, BudgetInv
    PROVE  /\ history \in SUBSET Rows /\ IsFiniteSet(history) /\ HasNewest(history)
           /\ Dated(history) /\ IsFiniteSet(Open(worker)) /\ Cardinality(Open(worker)) \in Nat
           /\ lost \in Nat /\ done \in Nat /\ Rounds \in Nat /\ Delay \in Nat
           /\ Rounds >= 1 /\ Delay >= Rounds
           /\ done * Rounds \in Int /\ (done + 1) * Rounds = (done * Rounds) + Rounds
<1>1. lost \in Nat /\ done \in Nat
  BY TrainingAssumption DEF TrainingInv, TypeOK
<1> QED
  BY <1>1, CatalogFinite, Products, FS_CardinalityType
     DEF TrainingInv, TypeOK, BudgetInv, Dated

\* nothing is run or saved between two cycles
LEMMA QuietBudget ==
    ASSUME BudgetInv, worker'.at \notin {"run", "save"}, UNCHANGED <<history, done, lost>>
    PROVE  BudgetInv'
<1>1. Open(worker') = {}
  BY DEF Open
<1>2. IsFiniteSet(Open(worker')) /\ history' = history /\ done' = done /\ lost' = lost
  BY <1>1, FS_EmptySet
<1> QED
  BY <1>2 DEF BudgetInv, Affords, Afford, Budget, Credits, PassesOf, Refreshed

LEMMA PlanBudget == TrainingInv /\ BudgetInv /\ Plan => BudgetInv'
<1> SUFFICES ASSUME TrainingInv, BudgetInv, Plan PROVE BudgetInv'
  OBVIOUS
<1> DEFINE keys == {Key(i) : i \in PlanTraining(history)}
<1>1. Open(worker') = keys /\ history' = history /\ done' = done /\ lost' = lost
  BY DEF Plan, Open, At
<1>2. IsFiniteSet(keys)
  BY PlanIsFinite
<1>3. ASSUME NEW e \in Catalog, PassesOf(history, e) < 3
      PROVE  /\ Afford(history, lost, done, e)
             /\ (\A x \in keys : x[1] # e) => AffordOpen(history, lost, done, keys, e)
  <2>1. Afford(history, lost, done, e)
    BY <1>3 DEF BudgetInv, Affords
  <2>2. ASSUME \A x \in keys : x[1] # e PROVE AffordOpen(history, lost, done, keys, e)
    <3>1. Cardinality(keys) >= Rounds /\ \A x \in keys : Owed(history, x, e)
      BY <1>3, <2>2, BudgetFacts, PlanIsOwed
    <3>2. Budget(history, lost, e) \in Int /\ Cardinality(keys) \in Nat
      BY <1>2, BudgetFacts, BudgetIsInt, FS_CardinalityType
    <3> HIDE DEF keys
    <3>3. (done + 1) * Rounds <= Budget(history, lost, e) + Cardinality(keys)
      BY <2>1, <3>1, <3>2, BudgetFacts DEF Afford
    <3> QED
      BY <3>1, <3>3 DEF AffordOpen
  <2> QED
    BY <2>1, <2>2
<1> HIDE DEF keys
<1>4. ASSUME NEW e \in Catalog PROVE Affords(e)'
  BY <1>1, <1>3 DEF Affords, Afford, AffordOpen, Budget, Credits, PassesOf, Refreshed, Owed
<1> QED
  BY <1>1, <1>2, <1>4 DEF BudgetInv

LEMMA RunBudget ==
    ASSUME TrainingInv, BudgetInv, NEW item \in worker.todo, NEW o \in Outcomes, Run(item, o)
    PROVE  BudgetInv'
<1>1. worker.at = "run" /\ item.sequence % CatalogSize = item.exercise
  BY DEF Run, TrainingInv, EvidenceKept
<1>2. Open(worker') = Open(worker)
  BY <1>1 DEF Run, Open, Key
<1>3. history' = history /\ done' = done /\ lost' = lost /\ worker'.at = "save"
  BY DEF Run
<1> QED
  BY <1>1, <1>2, <1>3
     DEF BudgetInv, Affords, Afford, AffordOpen, Budget, Credits, PassesOf, Refreshed, Owed

\* one of the runs that are open is lost without a row
LEMMA LostBudget ==
    ASSUME TrainingInv, BudgetInv, worker.at \in {"run", "save"}, worker'.at = "run",
           NEW x \in Open(worker), Open(worker') = Open(worker) \ {x},
           lost' = lost + 1, UNCHANGED <<history, done>>
    PROVE  BudgetInv'
<1> DEFINE S == Open(worker)
<1>1. IsFiniteSet(S \ {x}) /\ Cardinality(S \ {x}) = Cardinality(S) - 1 /\ Cardinality(S) \in Nat
  BY BudgetFacts, FS_RemoveElement
<1>2. ASSUME NEW e \in Catalog, PassesOf(history, e) < 3
      PROVE  /\ Afford(history, lost + 1, done, e)
             /\ (\A y \in S \ {x} : y[1] # e) => AffordOpen(history, lost + 1, done, S \ {x}, e)
  <2>1. /\ Budget(history, lost, e) \in Int
        /\ Budget(history, lost + 1, e) = Budget(history, lost, e) + Delay
    BY BudgetFacts, BudgetIsInt
  <2>2. /\ done * Rounds <= Budget(history, lost, e)
        /\ (\A y \in S : y[1] # e) => AffordOpen(history, lost, done, S, e)
    BY <1>2 DEF BudgetInv, Affords, Afford
  <2>3. Afford(history, lost + 1, done, e)
    BY <2>1, <2>2, BudgetFacts DEF Afford
  <2>4. CASE x[1] = e
    <3>1. Afford(history, lost + 1, done + 1, e)
      BY <2>1, <2>2, BudgetFacts DEF Afford
    <3> QED
      BY <2>3, <3>1 DEF AffordOpen
  <2>5. CASE x[1] # e
    <3> SUFFICES ASSUME \A y \in S \ {x} : y[1] # e
                 PROVE  AffordOpen(history, lost + 1, done, S \ {x}, e)
      BY <2>3
    <3>1. AffordOpen(history, lost, done, S, e)
      BY <2>2, <2>5
    <3> HIDE DEF S
    <3>2. CASE Afford(history, lost, done + 1, e)
      <4>1. Afford(history, lost + 1, done + 1, e)
        BY <2>1, <3>2, BudgetFacts DEF Afford
      <4> QED
        BY <4>1 DEF AffordOpen
    <3>3. CASE /\ (done + 1) * Rounds <= Budget(history, lost, e) + Cardinality(S)
               /\ \A y \in S : Owed(history, y, e)
      <4>1. (done + 1) * Rounds <= Budget(history, lost + 1, e) + Cardinality(S \ {x})
        BY <1>1, <2>1, <3>3, BudgetFacts
      <4> QED
        BY <3>3, <4>1 DEF AffordOpen
    <3> QED
      BY <3>1, <3>2, <3>3 DEF AffordOpen
  <2> QED
    BY <2>4, <2>5
<1>3. PICK n : n = lost + 1
  OBVIOUS
<1> DEFINE T == S \ {x}
<1>a. Open(worker') = T /\ history' = history /\ done' = done /\ lost' = n
  BY <1>3
<1>b. ASSUME NEW e \in Catalog, PassesOf(history, e) < 3
      PROVE  /\ Afford(history, n, done, e)
             /\ (\A y \in T : y[1] # e) => AffordOpen(history, n, done, T, e)
  BY <1>2, <1>3, <1>b
<1> HIDE DEF S, T
<1>4. ASSUME NEW e \in Catalog PROVE Affords(e)'
  BY <1>a, <1>b DEF Affords
<1> QED
  BY <1>1, <1>a, <1>4 DEF BudgetInv, S, T

LEMMA RunSaveBudget == TrainingInv /\ BudgetInv /\ RunSave => BudgetInv'
<1> SUFFICES ASSUME TrainingInv, BudgetInv, RunSave PROVE BudgetInv'
  OBVIOUS
<1> DEFINE r == worker.result
           more == history \cup {r}
           S == {Key(i) : i \in worker.todo}
           x == Key(r)
           n == IF Verified(r) THEN lost ELSE lost + 1
<1>1. /\ worker.at = "save" /\ r \in Rows /\ r \notin history
      /\ r.sequence % CatalogSize = r.exercise /\ r.exercise \in Catalog
  BY WorkerShape DEF TrainingInv, EvidenceKept, RunSave, Saving, Rows
<1>a. /\ history \in SUBSET Rows /\ IsFiniteSet(history)
      /\ \A e : PassesOf(history, e) \in Nat
      /\ \A e : e = r.exercise =>
           /\ OfExercise(more, e) = OfExercise(history, e) \cup {r}
           /\ \/ PassesOf(more, e) = PassesOf(history, e)
              \/ PassesOf(more, e) = PassesOf(history, e) + 1
  <2>1. history \in SUBSET Rows /\ IsFiniteSet(history)
    BY BudgetFacts
  <2>2. \A e : PassesOf(history, e) \in Nat
    BY <2>1, OfExerciseFacts
  <2>3. ASSUME NEW e, e = r.exercise
        PROVE  /\ OfExercise(more, e) = OfExercise(history, e) \cup {r}
               /\ PassesOf(more, e) = IF Verified(r) THEN PassesOf(history, e) + 1
                                      ELSE PassesOf(history, e)
    BY <1>1, <2>1, <2>3, RowSaved
  <2> QED
    BY <2>1, <2>2, <2>3
<1>2. /\ x \notin S /\ \A y \in S : y[1] # r.exercise
      /\ x[1] = r.exercise
  BY <1>1 DEF TrainingInv, Saving, Key
<1>3. Open(worker) = S \cup {x} /\ Open(worker') = S
  BY <1>1 DEF Open, RunSave, At
<1>4. history' = more /\ lost' = n /\ done' = done /\ worker'.at = "run"
  BY DEF RunSave, At
<1>5. /\ IsFiniteSet(S) /\ Cardinality(S) \in Nat
      /\ Cardinality(Open(worker)) = Cardinality(S) + 1
  <2>1. IsFiniteSet(S)
    BY <1>3, BudgetFacts, FS_Subset
  <2> QED
    BY <1>2, <1>3, <2>1, FS_AddElement, FS_CardinalityType
<1>6. more \in SUBSET Rows /\ IsFiniteSet(more)
  BY <1>1, BudgetFacts, FS_AddElement
<1> HIDE DEF S, x
<1>7. ASSUME NEW e \in Catalog, PassesOf(more, e) < 3
      PROVE  /\ Afford(more, n, done, e)
             /\ (\A y \in S : y[1] # e) => AffordOpen(more, n, done, S, e)
  <2>1. CASE e = r.exercise
    <3>1. PassesOf(history, e) \in Nat /\ PassesOf(history, e) < 3
      <4> HIDE DEF more
      <4> QED
        BY <1>a, <1>7, <2>1
    <3>2. done * Rounds <= Budget(history, lost, e)
      BY <3>1 DEF BudgetInv, Affords, Afford
    <3>3. Budget(more, n, e) >= Budget(history, lost, e) + Rounds
      BY <1>1, <1>7, <2>1, BudgetFacts, OwnSaved
    <3>4. Budget(history, lost, e) \in Int /\ Budget(more, n, e) \in Int
      BY <1>6, BudgetFacts, BudgetIsInt
    <3> HIDE DEF n, more
    <3>5. Afford(more, n, done, e) /\ Afford(more, n, done + 1, e)
      BY <3>2, <3>3, <3>4, BudgetFacts DEF Afford
    <3> QED
      BY <3>5 DEF AffordOpen
  <2>2. CASE e # r.exercise
    <3>1. /\ PassesOf(more, e) = PassesOf(history, e)
          /\ Budget(more, lost, e) >= Budget(history, lost, e)
      BY <1>1, <2>2, BudgetFacts, OtherSaved
    <3>2. /\ Budget(history, lost, e) \in Int /\ Budget(more, lost, e) \in Int
          /\ Budget(more, lost + 1, e) = Budget(more, lost, e) + Delay
      BY <1>6, BudgetFacts, BudgetIsInt
    <3>3. Budget(more, n, e) \in Int /\ Budget(more, n, e) >= Budget(history, lost, e)
      BY <3>1, <3>2, BudgetFacts
    <3>4. /\ done * Rounds <= Budget(history, lost, e)
          /\ (\A y \in Open(worker) : y[1] # e)
               => AffordOpen(history, lost, done, Open(worker), e)
      BY <1>1, <1>7, <3>1 DEF BudgetInv, Affords, Afford
    <3>5. Afford(more, n, done, e)
      <4> HIDE DEF n, more
      <4> QED
        BY <3>2, <3>3, <3>4, BudgetFacts DEF Afford
    <3> SUFFICES ASSUME \A y \in S : y[1] # e
                 PROVE  AffordOpen(more, n, done, S, e)
      BY <3>5
    <3>6. AffordOpen(history, lost, done, Open(worker), e)
      BY <1>2, <1>3, <2>2, <3>4
    <3>7. CASE Afford(history, lost, done + 1, e)
      <4> HIDE DEF n, more
      <4>1. Afford(more, n, done + 1, e)
        BY <3>2, <3>3, <3>7, BudgetFacts DEF Afford
      <4> QED
        BY <4>1 DEF AffordOpen
    <3>8. CASE /\ (done + 1) * Rounds <= Budget(history, lost, e) + Cardinality(Open(worker))
               /\ \A y \in Open(worker) : Owed(history, y, e)
      <4>1. Budget(more, n, e) >= Budget(history, lost, e) + 1
        <5>1. CASE Verified(r)
          <6>1. Owed(history, Key(r), e)
            BY <1>3, <3>8 DEF x
          <6> QED
            BY <1>1, <2>2, <5>1, <6>1, BudgetFacts, OwedSaved
        <5>2. CASE ~Verified(r)
          BY <3>1, <3>2, <5>2, BudgetFacts
        <5> QED
          BY <5>1, <5>2
      <4>2. \A y \in S : Owed(more, y, e)
        BY <1>1, <1>2, <1>3, <2>2, <3>8, BudgetFacts, OwedStays
      <4> HIDE DEF n, more
      <4>3. (done + 1) * Rounds <= Budget(more, n, e) + Cardinality(S)
        BY <1>5, <3>2, <3>3, <3>8, <4>1, BudgetFacts
      <4> QED
        BY <4>2, <4>3 DEF AffordOpen
    <3> QED
      BY <3>6, <3>7, <3>8 DEF AffordOpen
  <2> QED
    BY <2>1, <2>2
<1>b. HasNewest(OfExercise(more, r.exercise))
  <2>1. OfExercise(more, r.exercise) = OfExercise(history, r.exercise) \cup {r}
    BY DEF OfExercise
  <2>2. /\ OfExercise(history, r.exercise) \in SUBSET Rows
        /\ HasNewest(OfExercise(history, r.exercise))
    BY <1>1, BudgetFacts, OfExerciseFacts DEF BudgetInv
  <2> QED
    BY <1>1, <2>1, <2>2, NewestGrows
<1>8. ASSUME NEW e \in Catalog PROVE HasNewest(OfExercise(more, e))
  <2>1. CASE e = r.exercise
    BY <1>b, <2>1
  <2>2. CASE e # r.exercise
    <3>1. OfExercise(more, e) = OfExercise(history, e)
      BY <1>1, <2>2, BudgetFacts, RowSaved
    <3> QED
      BY <3>1 DEF BudgetInv
  <2> QED
    BY <2>1, <2>2
<1>9. \A q \in more : q.sequence % CatalogSize = q.exercise
  BY <1>1 DEF BudgetInv
<1> HIDE DEF more, n
<1>10. ASSUME NEW e \in Catalog PROVE Affords(e)'
  BY <1>3, <1>4, <1>7 DEF Affords, Afford, AffordOpen, Budget, Credits, PassesOf, Refreshed, Owed
<1> QED
  BY <1>3, <1>4, <1>5, <1>8, <1>9, <1>10 DEF BudgetInv

LEMMA CycleEndBudget == TrainingInv /\ BudgetInv /\ CycleEnd => BudgetInv'
<1> SUFFICES ASSUME TrainingInv, BudgetInv, CycleEnd PROVE BudgetInv'
  OBVIOUS
<1>1. Open(worker) = {} /\ Cardinality(Open(worker)) = 0 /\ worker.at = "run"
  BY FS_EmptySet DEF CycleEnd, Open
<1>2. Open(worker') = {} /\ worker'.at = "idle"
  BY DEF CycleEnd, Open, Idle
<1>3. history' = history /\ done' = done + 1 /\ lost' = lost
  BY DEF CycleEnd
<1>4. ASSUME NEW e \in Catalog, PassesOf(history, e) < 3 PROVE Afford(history, lost, done + 1, e)
  <2>1. AffordOpen(history, lost, done, Open(worker), e)
    BY <1>1, <1>4 DEF BudgetInv, Affords
  <2>2. Budget(history, lost, e) \in Int
    BY BudgetFacts, BudgetIsInt
  <2> QED
    BY <1>1, <2>1, <2>2 DEF AffordOpen, Afford
<1>5. ASSUME NEW e \in Catalog PROVE Affords(e)'
  BY <1>2, <1>3, <1>4 DEF Affords, Afford, Budget, Credits, PassesOf, Refreshed
<1> QED
  BY <1>2, <1>3, <1>5, FS_EmptySet DEF BudgetInv

LEMMA BudgetStep == TrainingInv /\ BudgetInv /\ [Next]_vars => BudgetInv'
<1> SUFFICES ASSUME TrainingInv, BudgetInv, [Next]_vars PROVE BudgetInv'
  OBVIOUS
<1>1. CASE CycleBegin \/ TeacherSave \/ Crash
  BY <1>1, QuietBudget DEF CycleBegin, TeacherSave, Crash, Idle
<1>2. CASE Plan
  BY <1>2, PlanBudget
<1>3. ASSUME NEW item \in worker.todo, worker.at = "run", RunRaises(item) PROVE BudgetInv'
  <2>1. Open(worker') = Open(worker) \ {Key(item)} /\ Key(item) \in Open(worker)
    <3>1. OnePerExercise(worker.todo)
      BY <1>3 DEF TrainingInv
    <3> QED
      BY <1>3, <3>1 DEF RunRaises, Open, At, OnePerExercise, Key
  <2> QED
    BY <1>3, <2>1, LostBudget DEF RunRaises, At
<1>4. ASSUME NEW item \in worker.todo, NEW o \in Outcomes, Run(item, o) PROVE BudgetInv'
  BY <1>4, RunBudget
<1>5. CASE RunSave
  BY <1>5, RunSaveBudget
<1>6. CASE CycleEnd
  BY <1>6, CycleEndBudget
<1>7. CASE StoreRaises
  <2>1. CASE worker' = [at |-> "dead"] /\ UNCHANGED lost
    BY <1>7, <2>1, QuietBudget DEF StoreRaises
  <2>2. CASE worker.at = "save" /\ worker' = At("run", worker.todo) /\ lost' = lost + 1
    <3>1. \A i \in worker.todo : i.exercise # worker.result.exercise
      BY <2>2 DEF TrainingInv, Saving
    <3>2. /\ Open(worker') = Open(worker) \ {Key(worker.result)}
          /\ Key(worker.result) \in Open(worker) /\ worker'.at = "run"
      BY <2>2, <3>1 DEF Open, At, Key
    <3> QED
      BY <1>7, <2>2, <3>2, LostBudget DEF StoreRaises
  <2> QED
    BY <1>7, <2>1, <2>2 DEF StoreRaises
<1>8. CASE UNCHANGED vars
  BY <1>8 DEF vars, BudgetInv, Affords, Afford, AffordOpen, Budget, Credits, PassesOf, Refreshed, Owed
<1> QED
  BY <1>1, <1>2, <1>3, <1>4, <1>5, <1>6, <1>7, <1>8 DEF Next

-----------------------------------------------------------------------------
(* An exercise with three passes qualifies its skill.                      *)

LEMMA OtherForm ==
    ASSUME NEW N \in Nat \ {0}, NEW F \in 1 .. N, NEW a \in Nat, NEW b \in Nat,
           a < b, a % N = b % N
    PROVE  a \div F # b \div F
<1>1. /\ a = (N * (a \div N)) + (a % N) /\ b = (N * (b \div N)) + (b % N)
      /\ a % N \in Int /\ a \div N \in Int /\ b \div N \in Int
  BY DivMod
<1>2. /\ a = (F * (a \div F)) + (a % F) /\ b = (F * (b \div F)) + (b % F)
      /\ a % F \in 0 .. F - 1 /\ b % F \in 0 .. F - 1
      /\ a \div F \in Int /\ b \div F \in Int
  BY DivMod
<1> DEFINE x == a \div N
           y == b \div N
           p == a \div F
           q == b \div F
           m == a % N
           u == a % F
           v == b % F
<1>3. /\ a = (N * x) + m /\ b = (N * y) + m /\ a = (F * p) + u /\ b = (F * q) + v
      /\ x \in Int /\ y \in Int /\ p \in Int /\ q \in Int /\ m \in Int
      /\ u \in 0 .. F - 1 /\ v \in 0 .. F - 1
  BY <1>1, <1>2
<1> HIDE DEF x, y, p, q, m, u, v
<1>4. b - a >= N
  <2>1. y > x
    <3> SUFFICES ASSUME ~(y > x) PROVE FALSE
      OBVIOUS
    <3>1. N * (x - y) >= 0 /\ N * (x - y) = (N * x) - (N * y)
      BY <1>3, SMT
    <3>2. N * x \in Int /\ N * y \in Int
      BY <1>3, SMT
    <3> QED
      BY <1>3, <3>1, <3>2
  <2>2. N * (y - x) >= N /\ N * (y - x) = (N * y) - (N * x)
    BY <1>3, <2>1, SMT
  <2>3. N * x \in Int /\ N * y \in Int
    BY <1>3, SMT
  <2> QED
    BY <1>3, <2>2, <2>3
<1>5. p # q
  <2>1. F * p \in Int
    BY <1>3, SMT
  <2> QED
    BY <1>3, <1>4, <2>1
<1> QED
  BY <1>5 DEF p, q

LEMMA AtLeastTwo ==
    ASSUME NEW S, IsFiniteSet(S), NEW x \in S, NEW y \in S, x # y
    PROVE  Cardinality(S) >= 2
<1>1. {x, y} \in SUBSET S /\ IsFiniteSet({x, y}) /\ Cardinality({x, y}) = 2
  <2>1. IsFiniteSet({x}) /\ Cardinality({x}) = 1 /\ y \notin {x}
    BY FS_Singleton
  <2>2. {x} \cup {y} = {x, y}
    OBVIOUS
  <2> QED
    BY <2>1, <2>2, FS_AddElement
<1>2. Cardinality({x, y}) <= Cardinality(S) /\ Cardinality(S) \in Nat
  BY <1>1, FS_Subset, FS_CardinalityType
<1> QED
  BY <1>1, <1>2

LEMMA TwoOfThree ==
    ASSUME NEW S, IsFiniteSet(S), Cardinality(S) >= 3
    PROVE  \E x, y \in S : x # y
<1>1. Cardinality({}) = 0
  BY FS_EmptySet
<1>2. S # {}
  BY <1>1
<1>3. PICK x \in S : TRUE
  BY <1>2
<1>4. Cardinality({x}) = 1
  BY FS_Singleton
<1>5. S # {x}
  BY <1>4
<1> QED
  BY <1>3, <1>5

LEMMA ThriceIsQualified ==
    ASSUME NEW rows \in SUBSET Rows, IsFiniteSet(rows),
           \A r \in rows : r.sequence % CatalogSize = r.exercise,
           \A e \in Catalog : PassesOf(rows, e) >= 3,
           NEW s \in Skills
    PROVE  Qualified(rows, s)
<1> DEFINE members == {f \in Catalog : Category[f] = s}
           levels == {Difficulty[e] : e \in members}
           passed == Passes(OfSkill(rows, s))
<1>1. levels \in SUBSET (1 .. 6) /\ levels # {}
  BY TrainingAssumption DEF Skills
<1>2. PICK e \in Catalog : /\ Category[e] = s
                           /\ Difficulty[e] = Greatest(levels, 0)
  BY <1>1, GreatestOfSome
<1> DEFINE own == Passes(OfExercise(rows, e))
<1>3. own \in SUBSET passed /\ passed \in SUBSET rows
  BY <1>2 DEF Passes, OfExercise, OfSkill
<1>4. IsFiniteSet(passed) /\ IsFiniteSet(own)
  BY <1>3, FS_Subset
<1>5. Cardinality(own) >= 3 /\ Cardinality(own) <= Cardinality(passed)
  <2>1. PassesOf(rows, e) >= 3
    BY <1>2
  <2> QED
    BY <1>3, <1>4, <2>1, FS_Subset DEF PassesOf
<1>6. PICK q, r \in own : q # r
  BY <1>4, <1>5, TwoOfThree
<1>7. ExamForm(q) # ExamForm(r)
  <2>1. /\ q \in Rows /\ r \in Rows /\ q.exercise = e /\ r.exercise = e
        /\ q.outcome = "verified" /\ r.outcome = "verified"
    BY <1>3, <1>6 DEF Passes, OfExercise, Verified
  <2>2. q.sequence \in Nat /\ r.sequence \in Nat /\ q.sequence # r.sequence
    BY <1>6, <2>1 DEF Rows
  <2>3. q.sequence % CatalogSize = r.sequence % CatalogSize
    BY <1>3, <1>6, <2>1
  <2>4. q.sequence \div FormSize # r.sequence \div FormSize
    <3> DEFINE a == q.sequence
               b == r.sequence
    <3>1. /\ a \in Nat /\ b \in Nat /\ a # b /\ a % CatalogSize = b % CatalogSize
          /\ CatalogSize \in Nat \ {0} /\ FormSize \in 1 .. CatalogSize
      BY <2>2, <2>3, TrainingAssumption
    <3> HIDE DEF a, b
    <3>2. a < b \/ b < a
      BY <3>1
    <3>3. a \div FormSize # b \div FormSize
      BY <3>1, <3>2, OtherForm
    <3> QED
      BY <3>3 DEF a, b
  <2> QED
    BY <2>4 DEF ExamForm
<1>8. Cardinality(Forms(passed)) >= 2
  <2>1. IsFiniteSet(Forms(passed))
    <3> DEFINE form == [p \in passed |-> ExamForm(p)]
    <3>1. form \in Surjection(passed, Forms(passed))
      BY DEF Surjection, Forms
    <3> QED
      BY <1>4, <3>1, FS_Surjection
  <2>2. ExamForm(q) \in Forms(passed) /\ ExamForm(r) \in Forms(passed)
    BY <1>3, <1>6 DEF Forms
  <2> QED
    BY <1>7, <2>1, <2>2, AtLeastTwo
<1>9. Total(passed) >= 90 * Cardinality(passed)
  <2>1. \A p \in passed : Verified(p)
    BY DEF Passes
  <2> QED
    BY <1>4, <2>1, VerifiedAverages
<1>10. Hardest(passed) >= RequiredDifficulty(s)
  <2> DEFINE D == {Difficulty[p.exercise] : p \in passed}
  <2>1. D \in SUBSET (1 .. 6)
    BY <1>3, TrainingAssumption DEF Rows
  <2>2. Difficulty[e] \in D
    BY <1>3, <1>6 DEF Passes, OfExercise
  <2>3. Greatest(D, 0) >= Difficulty[e] /\ Greatest(D, 0) \in 1 .. 6
    BY <2>1, <2>2, GreatestOfSome
  <2>4. RequiredDifficulty(s) <= Difficulty[e]
    <3>1. Difficulty[e] \in 1 .. 6
      BY TrainingAssumption
    <3>2. RequiredDifficulty(s) = IF Difficulty[e] < 4 THEN Difficulty[e] ELSE 4
      BY <1>2 DEF RequiredDifficulty
    <3> QED
      BY <3>1, <3>2
  <2>5. Hardest(passed) = Greatest(D, 0)
    BY DEF Hardest
  <2>6. RequiredDifficulty(s) \in Int /\ Difficulty[e] \in Int
    <3>1. Difficulty[e] \in 1 .. 6
      BY TrainingAssumption
    <3> QED
      BY <1>2, <3>1 DEF RequiredDifficulty
  <2> HIDE DEF D
  <2> QED
    BY <2>3, <2>4, <2>5, <2>6
<1>11. Cardinality(passed) >= 3
  BY <1>4, <1>5, FS_CardinalityType
<1> QED
  BY <1>8, <1>9, <1>10, <1>11 DEF Qualified

LEMMA BudgetQualifies == TrainingInv /\ BudgetInv => TeacherQualifies
<1> SUFFICES ASSUME TrainingInv, BudgetInv,
                    done * Rounds > Enough + (lost * (CatalogSize + Rounds - 1)),
                    NEW s \in Skills
             PROVE  Qualified(history, s)
  BY DEF TeacherQualifies
<1>1. ASSUME NEW e \in Catalog PROVE PassesOf(history, e) >= 3
  <2>1. PassesOf(history, e) \in Nat
    BY BudgetFacts, OfExerciseFacts
  <2> SUFFICES ASSUME PassesOf(history, e) < 3 PROVE FALSE
    BY <2>1
  <2>2. done * Rounds <= Budget(history, lost, e)
    BY DEF BudgetInv, Affords, Afford
  <2>3. /\ Cardinality(Credits(history, e)) \in Nat
        /\ Cardinality(Credits(history, e)) <= 4 * (CatalogSize - 1)
    BY CreditsFinite
  <2>4. Rounds * PassesOf(history, e) <= 2 * Rounds /\ Rounds * PassesOf(history, e) \in Int
    <3>1. PassesOf(history, e) \in {0, 1, 2}
      BY <2>1
    <3> QED
      BY <3>1, BudgetFacts
  <2>5. lost * Delay \in Int /\ done * Rounds \in Int
    BY BudgetFacts, Products
  <2>6. done * Rounds > Enough + (lost * Delay)
    BY DEF Delay
  <2> HIDE DEF Delay
  <2> QED
    BY <2>2, <2>3, <2>4, <2>5, <2>6, CatalogFinite DEF Enough, Budget
<1> QED
  BY <1>1, BudgetFacts, ThriceIsQualified DEF BudgetInv

(* README.md:43, unverified skills first, then language gaps, mastery and  *)
(* refreshes: whatever the catalog, this order qualifies the teacher in    *)
(* every skill after Enough completed runs and as many more per lost run.  *)
THEOREM QualifiesInTime == Spec => []TeacherQualifies
<1>1. TrainingInv /\ Init => BudgetInv
  <2> SUFFICES ASSUME TrainingInv, Init PROVE BudgetInv
    OBVIOUS
  <2>1. history = {} /\ lost = 0 /\ done = 0 /\ Open(worker) = {} /\ worker.at = "idle"
    BY DEF Init, Idle, Open
  <2>2. ASSUME NEW e \in Catalog PROVE Affords(e)
    <3>1. IsFiniteSet(history) /\ history \in SUBSET Rows
      BY <2>1, FS_EmptySet
    <3>2. /\ PassesOf(history, e) \in Nat /\ Cardinality(Credits(history, e)) \in Nat
          /\ Rounds \in Nat /\ Delay \in Nat
      BY <3>1, OfExerciseFacts, CreditsFinite, CatalogFinite
    <3>3. 0 * Rounds = 0 /\ 0 * Delay = 0 /\ Rounds * PassesOf(history, e) >= 0
          /\ Rounds * PassesOf(history, e) \in Int
      BY <3>2, SMT
    <3>4. Afford(history, lost, done, e)
      BY <2>1, <3>2, <3>3 DEF Afford, Budget
    <3> QED
      BY <2>1, <3>4 DEF Affords
  <2>3. ASSUME NEW e \in Catalog PROVE HasNewest(OfExercise(history, e))
    <3>1. OfExercise(history, e) = {}
      BY <2>1 DEF OfExercise
    <3> QED
      BY <3>1 DEF HasNewest
  <2> QED
    BY <2>1, <2>2, <2>3, FS_EmptySet DEF BudgetInv
<1> QED
  BY <1>1, BudgetStep, BudgetQualifies, InvariantHolds, PTL DEF Spec

=============================================================================

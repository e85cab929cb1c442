------------------------- MODULE SandboxGatewayProofs -------------------------
(***************************************************************************)
(* Theorems about SandboxGateway, for every number of jobs, callers, runs, *)
(* slots, attempts and restarts: the VMs are bounded, no run waits while a *)
(* slot is free, equal jobs share a run, and a result is published only    *)
(* after the VMs of its job are gone.                                      *)
(***************************************************************************)
EXTENDS SandboxGateway, FiniteSetTheorems, TLAPS

\* The types of the tables and runs, apart from those of the callers.
TableTypes ==
  /\ inFlight \in [Jobs -> Runs \cup {NoRun}] /\ cached \in [Jobs -> BOOLEAN]
  /\ rjob \in [Runs -> Jobs \cup {NoJob}] /\ vm \in [Runs -> BOOLEAN]
  /\ restarts \in Nat

\* The counter counts the runs that hold a slot or leaked one, and a run waits
\* only while all slots are taken.
SlotInv ==
  /\ active \in Nat /\ rpc \in [Runs -> RunPCs]
  /\ active = Cardinality(Occupied) /\ active <= MaxConcurrent
  /\ waiters # <<>> => active = MaxConcurrent

\* Each waiter is a run that waits, and is in the queue once.
QueueInv ==
  /\ waiters \in Seq(Runs)
  /\ \A n \in 1..Len(waiters) : rpc[waiters[n]] = "waiting"
  /\ \A m, n \in 1..Len(waiters) : waiters[m] = waiters[n] => m = n

\* A run that did not end with a result is the entry of its job.
FlightInv ==
  /\ \A i \in Runs : rpc[i] # "unused" => rjob[i] \in Jobs /\ inFlight[rjob[i]] = i
  /\ \A i \in Runs : rpc[i] = "unused" => rjob[i] = NoJob

\* VMs that no present run answers for: what former processes left behind.
Strays == {i \in Runs : vm[i]} \ Occupied

VMInv ==
  /\ \A i \in Runs : rpc[i] \in {"waiting", "create"} => ~vm[i]
  /\ Cardinality(Strays) <= MaxConcurrent * restarts

\* A caller that sends has an attempt left.
CallOK(k) ==
  /\ k \in Calls
  /\ k.pc # "idle" => k.job \in Jobs /\ k.tries <= k.limit
  /\ k.pc = "await" <=> k.run # NoRun
  /\ k.pc = "send" => k.tries < k.limit

CallInv == call \in [Callers -> Calls] /\ \A c \in Callers : CallOK(call[c])

\* The inductive invariant.
GatewayInv == TableTypes /\ SlotInv /\ QueueInv /\ FlightInv /\ VMInv /\ CallInv

-----------------------------------------------------------------------------
(* Slots                                                                   *)

\* Runs that hold or leaked a slot are finitely many.
LEMMA OccupiedFinite ==
  /\ IsFiniteSet(Occupied) /\ IsFiniteSet(Occupied')
  /\ Cardinality(Occupied) \in Nat
<1>1. IsFiniteSet(Runs)
  BY GatewayAssumption
<1>2. Occupied \subseteq Runs /\ Occupied' \subseteq Runs
  BY DEF Occupied
<1> QED
  BY <1>1, <1>2, FS_Subset, FS_CardinalityType

\* What moving runs among the program points that hold a slot leaves alone.
LEMMA SlotsKept ==
  ASSUME SlotInv, QueueInv, UNCHANGED <<active, waiters>>,
         rpc' \in [Runs -> RunPCs], Occupied' = Occupied,
         \A i \in Runs : rpc[i] = "waiting" => rpc'[i] = "waiting"
  PROVE  SlotInv' /\ QueueInv'
<1>1. SlotInv'
  BY DEF SlotInv
<1>2. QueueInv'
  <2>1. \A n \in 1..Len(waiters) : waiters[n] \in Runs
    BY DEF QueueInv
  <2> QED
    BY <2>1 DEF QueueInv
<1> QED
  BY <1>1, <1>2

\* acquireSlot takes a free slot or joins the queue, and touches no other run.
LEMMA AcquireEffect ==
  ASSUME SlotInv, QueueInv, NEW i \in Runs, rpc[i] = "unused", AcquireSlot(i)
  PROVE  /\ SlotInv' /\ QueueInv'
         /\ rpc'[i] \in {"waiting", "create"}
         /\ \A k \in Runs \ {i} : rpc'[k] = rpc[k]
<1>1. CASE active >= MaxConcurrent
  <2>1. /\ waiters' = Append(waiters, i) /\ rpc' = [rpc EXCEPT ![i] = "waiting"]
        /\ active' = active
    BY <1>1, GatewayAssumption DEF AcquireSlot, SlotInv
  <2>2. rpc' \in [Runs -> RunPCs]
    BY <2>1 DEF SlotInv, RunPCs, Unsettled
  <2>3. Occupied' = Occupied
    BY <2>1 DEF SlotInv, Occupied, Running
  <2>4. SlotInv'
    BY <2>1, <2>2, <2>3, <1>1, GatewayAssumption DEF SlotInv
  <2>5. \A n \in 1..Len(waiters) : waiters[n] \in Runs /\ waiters[n] # i
    BY DEF QueueInv
  <2>6. /\ waiters' \in Seq(Runs) /\ Len(waiters') = Len(waiters) + 1
        /\ waiters'[Len(waiters) + 1] = i
        /\ \A n \in 1..Len(waiters) : waiters'[n] = waiters[n]
    BY <2>1 DEF QueueInv
  <2>7. QueueInv'
    BY <2>1, <2>5, <2>6 DEF QueueInv, SlotInv
  <2> QED
    BY <2>1, <2>4, <2>7 DEF SlotInv
<1>2. CASE active < MaxConcurrent
  <2>1. /\ active' = active + 1 /\ rpc' = [rpc EXCEPT ![i] = "create"]
        /\ waiters' = waiters
    BY <1>2, GatewayAssumption DEF AcquireSlot, SlotInv
  <2>2. rpc' \in [Runs -> RunPCs]
    BY <2>1 DEF SlotInv, RunPCs, Unsettled, Running
  <2>3. Occupied' = Occupied \cup {i} /\ i \notin Occupied
    BY <2>1 DEF SlotInv, Occupied, Running
  <2>4. Cardinality(Occupied') = Cardinality(Occupied) + 1
    BY <2>3, OccupiedFinite, FS_AddElement
  <2>5. waiters = <<>>
    BY <1>2, GatewayAssumption DEF SlotInv
  <2>6. SlotInv'
    BY <2>1, <2>2, <2>4, <2>5, <1>2, GatewayAssumption DEF SlotInv
  <2>7. QueueInv'
    BY <2>1, <2>5 DEF QueueInv
  <2> QED
    BY <2>1, <2>6, <2>7 DEF SlotInv
<1> QED
  BY <1>1, <1>2, GatewayAssumption DEF SlotInv

\* releaseSlot frees the slot or hands it to the first waiter.
LEMMA ReleaseEffect ==
  ASSUME SlotInv, QueueInv, NEW i \in Runs, rpc[i] \in Running,
         NEW next \in {"unused", "rejected"}, ReleaseSlot(i, next)
  PROVE  /\ SlotInv' /\ QueueInv'
         /\ rpc'[i] = next
         /\ \A k \in Runs \ {i} :
              rpc'[k] = rpc[k] \/ (rpc[k] = "waiting" /\ rpc'[k] = "create")
<1>1. i \in Occupied
  BY DEF Occupied
<1>2. CASE waiters = <<>>
  <2>1. /\ active' = active - 1 /\ rpc' = [rpc EXCEPT ![i] = next]
        /\ waiters' = waiters
    BY <1>2 DEF ReleaseSlot
  <2>2. rpc' \in [Runs -> RunPCs]
    BY <2>1 DEF SlotInv, RunPCs
  <2>3. Occupied' = Occupied \ {i}
    BY <2>1 DEF SlotInv, Occupied, Running
  <2>4. Cardinality(Occupied') = Cardinality(Occupied) - 1
    BY <1>1, <2>3, OccupiedFinite, FS_RemoveElement
  <2>5. Cardinality(Occupied') \in Nat
    BY OccupiedFinite, FS_CardinalityType
  <2>6. SlotInv'
    BY <2>1, <2>2, <2>4, <2>5, <1>2, GatewayAssumption DEF SlotInv
  <2>7. QueueInv'
    BY <2>1, <1>2 DEF QueueInv
  <2> QED
    BY <2>1, <2>6, <2>7 DEF SlotInv
<1>3. CASE waiters # <<>>
  <2> DEFINE h == Head(waiters)
  <2>1. /\ waiters' = Tail(waiters) /\ active' = active
        /\ rpc' = [rpc EXCEPT ![i] = next, ![h] = "create"]
    BY <1>3 DEF ReleaseSlot
  <2>2. h \in Runs /\ h = waiters[1] /\ rpc[h] = "waiting" /\ h # i
    <3>1. Len(waiters) > 0 /\ h = waiters[1] /\ h \in Runs
      BY <1>3 DEF QueueInv
    <3>2. rpc[h] = "waiting"
      BY <3>1 DEF QueueInv
    <3> QED
      BY <3>1, <3>2 DEF Running
  <2> HIDE DEF h
  <2>3. /\ rpc'[i] = next /\ rpc'[h] = "create"
        /\ \A k \in Runs \ {i, h} : rpc'[k] = rpc[k]
    BY <2>1, <2>2 DEF SlotInv
  <2>4. rpc' \in [Runs -> RunPCs]
    BY <2>1, <2>2 DEF SlotInv, RunPCs, Unsettled, Running
  <2>5. Occupied' = (Occupied \ {i}) \cup {h} /\ h \notin Occupied
    BY <2>2, <2>3 DEF Occupied, Running
  <2>6. Cardinality(Occupied \ {i}) = Cardinality(Occupied) - 1 /\ IsFiniteSet(Occupied \ {i})
    BY <1>1, OccupiedFinite, FS_RemoveElement
  <2>7. Cardinality(Occupied') = Cardinality(Occupied)
    <3>1. Cardinality(Occupied') = Cardinality(Occupied \ {i}) + 1
      BY <2>5, <2>6, FS_AddElement
    <3> QED
      BY <3>1, <2>6, OccupiedFinite
  <2>8. SlotInv'
    BY <2>1, <2>4, <2>7, <1>3 DEF SlotInv
  <2>9. QueueInv'
    <3>1. /\ waiters' \in Seq(Runs) /\ Len(waiters') = Len(waiters) - 1
          /\ Len(waiters) \in Nat /\ Len(waiters) > 0
          /\ \A n \in 1..Len(waiters') : waiters'[n] = waiters[n + 1]
      BY <1>3, <2>1 DEF QueueInv
    <3>2. \A n \in 1..Len(waiters') :
            n + 1 \in 1..Len(waiters) /\ waiters[n + 1] \in Runs /\ waiters[n + 1] # h
      BY <3>1, <2>2 DEF QueueInv
    <3>3. \A n \in 1..Len(waiters') : rpc'[waiters'[n]] = "waiting"
      <4> SUFFICES ASSUME NEW n \in 1..Len(waiters') PROVE rpc'[waiters'[n]] = "waiting"
        OBVIOUS
      <4>1. rpc[waiters[n + 1]] = "waiting" /\ waiters[n + 1] \in Runs \ {i, h}
        BY <3>2 DEF QueueInv, Running
      <4> QED
        BY <3>1, <4>1, <2>3
    <3>4. \A m, n \in 1..Len(waiters') : waiters'[m] = waiters'[n] => m = n
      BY <3>1, <3>2 DEF QueueInv
    <3> QED
      BY <3>1, <3>3, <3>4 DEF QueueInv
  <2> QED
    BY <2>2, <2>3, <2>8, <2>9
<1> QED
  BY <1>2, <1>3

\* What one step does to the slots: it keeps their invariants, and a run changes
\* place only as runJob has it.
SlotEffect ==
  /\ SlotInv' /\ QueueInv'
  /\ \A i \in Runs : rpc'[i] \in {"waiting", "create"} =>
       rpc[i] \in {"unused", "waiting", "create"}

\* Requests take slots, runs give them back, and a restart frees them all.
LEMMA SlotStep ==
  ASSUME TableTypes, SlotInv, QueueInv, [Next]_vars
  PROVE  SlotEffect
<1>1. ASSUME NEW c \in Callers, SendStart(c) PROVE SlotEffect
  <2>1. PICK i \in Runs : rpc[i] = "unused" /\ AcquireSlot(i)
    BY <1>1 DEF SendStart
  <2> QED
    BY <2>1, AcquireEffect DEF SlotEffect
<1>2. ASSUME NEW i \in Runs, rpc[i] \in Running,
             NEW next \in {"unused", "rejected"}, ReleaseSlot(i, next)
      PROVE  SlotEffect
  BY <1>2, ReleaseEffect DEF SlotEffect
<1>3. ASSUME NEW i \in Runs, RunNotCreated(i) PROVE SlotEffect
  BY <1>2, <1>3 DEF RunNotCreated, Running
<1>4. ASSUME NEW i \in Runs, RunDestroyed(i) PROVE SlotEffect
  BY <1>2, <1>4 DEF RunDestroyed, Running
<1>5. ASSUME NEW i \in Runs, RunCreated(i) \/ RunExecuted(i) \/ RunNotDestroyed(i)
      PROVE  SlotEffect
  <2>1. PICK next \in {"exec", "teardown", "teardown_error", "leaked"} :
          rpc' = [rpc EXCEPT ![i] = next]
    BY <1>5 DEF RunCreated, RunExecuted, RunNotDestroyed
  <2>2. rpc[i] \in Running /\ UNCHANGED <<active, waiters>>
    BY <1>5 DEF RunCreated, RunExecuted, RunNotDestroyed, Running, gateway
  <2>3. rpc' \in [Runs -> RunPCs]
    BY <2>1 DEF SlotInv, RunPCs, Unsettled, Running
  <2>4. Occupied' = Occupied
    BY <2>1, <2>2 DEF SlotInv, Occupied, Running
  <2>5. \A k \in Runs : rpc[k] = "waiting" => rpc'[k] = "waiting"
    BY <2>1, <2>2 DEF SlotInv, Running
  <2>6. \A k \in Runs : rpc'[k] \in {"waiting", "create"} => rpc[k] = rpc'[k]
    BY <2>1 DEF SlotInv
  <2> QED
    BY <2>2, <2>3, <2>4, <2>5, <2>6, SlotsKept DEF SlotEffect
<1>6. CASE Restart
  <2>1. active' = 0 /\ waiters' = <<>> /\ rpc' = [i \in Runs |-> "unused"]
    BY <1>6 DEF Restart
  <2>2. Occupied' = {}
    BY <2>1 DEF Occupied, Running
  <2>3. Cardinality(Occupied') = 0
    BY <2>2, FS_EmptySet
  <2>4. SlotInv'
    BY <2>1, <2>3, GatewayAssumption DEF SlotInv, RunPCs
  <2>5. QueueInv'
    BY <2>1 DEF QueueInv
  <2> QED
    BY <2>1, <2>4, <2>5 DEF SlotEffect
<1>7. ASSUME UNCHANGED <<active, waiters, rpc>> PROVE SlotEffect
  <2>1. Occupied' = Occupied
    BY <1>7 DEF Occupied
  <2> QED
    BY <1>7, <2>1, SlotsKept DEF SlotEffect, SlotInv
<1>8. ASSUME NEW c \in Callers,
             (\E j \in Jobs : Begin(c, j)) \/ SendCached(c) \/ SendJoin(c) \/ CallTimesOut(c)
      PROVE  SlotEffect
  BY <1>7, <1>8 DEF Begin, SendCached, SendJoin, CallTimesOut, gateway, run
<1>9. ASSUME NEW i \in Runs, VMExpires(i) PROVE SlotEffect
  BY <1>7, <1>9 DEF VMExpires, gateway, run
<1>10. ASSUME NEW j \in Jobs, CacheExpires(j) PROVE SlotEffect
  BY <1>7, <1>10 DEF CacheExpires, run
<1>11. ASSUME UNCHANGED vars PROVE SlotEffect
  BY <1>7, <1>11 DEF vars, gateway, run
<1> QED
  BY <1>1, <1>3, <1>4, <1>5, <1>6, <1>8, <1>9, <1>10, <1>11 DEF Next, RunStep

-----------------------------------------------------------------------------
(* Tables                                                                  *)

\* What one step does to the tables: it keeps their invariants, and a job's result
\* appears only when no run of the job has a VM left.
TableEffect ==
  /\ TableTypes' /\ FlightInv'
  /\ \A i \in Runs : rjob[i] # NoJob /\ ~cached[rjob[i]] /\ cached'[rjob[i]] => ~vm'[i]

\* A run enters inFlight when it starts and leaves it with its result; one
\* that fails stays.
LEMMA TableStep ==
  ASSUME TableTypes, SlotInv, QueueInv, FlightInv, CallInv, [Next]_vars
  PROVE  TableEffect
<1> USE GatewayAssumption
<1>1. ASSUME NEW c \in Callers, SendStart(c) PROVE TableEffect
  <2> DEFINE j == call[c].job
  <2>1. PICK i \in Runs :
          /\ rpc[i] = "unused" /\ AcquireSlot(i)
          /\ rjob' = [rjob EXCEPT ![i] = j]
          /\ inFlight' = [inFlight EXCEPT ![j] = i]
    BY <1>1 DEF SendStart
  <2>2. j \in Jobs /\ inFlight[j] = NoRun /\ UNCHANGED <<cached, vm, restarts>>
    BY <1>1 DEF SendStart, CallInv, CallOK
  <2> HIDE DEF j
  <2>3. /\ rpc'[i] # "unused"
        /\ \A k \in Runs \ {i} : rpc'[k] = rpc[k]
    BY <2>1, AcquireEffect
  <2>4. TableTypes'
    BY <2>1, <2>2 DEF TableTypes
  <2>5. rjob'[i] = j /\ inFlight'[j] = i
    BY <2>1, <2>2 DEF TableTypes
  <2>6. ASSUME NEW k \in Runs \ {i}, rpc[k] # "unused"
        PROVE  rjob'[k] \in Jobs /\ inFlight'[rjob'[k]] = k
    <3>1. rjob[k] \in Jobs /\ inFlight[rjob[k]] = k /\ rjob'[k] = rjob[k]
      BY <2>1, <2>6 DEF FlightInv, TableTypes
    <3>2. rjob[k] # j
      BY <2>2, <3>1
    <3> QED
      BY <2>1, <3>1, <3>2 DEF TableTypes
  <2>7. \A k \in Runs \ {i} : rpc[k] = "unused" => rjob'[k] = NoJob
    BY <2>1 DEF FlightInv, TableTypes
  <2>8. FlightInv'
    BY <2>2, <2>3, <2>5, <2>6, <2>7 DEF FlightInv
  <2> QED
    BY <2>2, <2>4, <2>8 DEF TableEffect
<1>2. ASSUME UNCHANGED <<inFlight, rjob, restarts>>,
             vm' \in [Runs -> BOOLEAN], cached' \in [Jobs -> BOOLEAN],
             \A j \in Jobs : cached'[j] => cached[j],
             \A i \in Runs : rpc'[i] = "unused" <=> rpc[i] = "unused"
      PROVE  TableEffect
  <2>1. TableTypes'
    BY <1>2 DEF TableTypes
  <2>2. FlightInv'
    BY <1>2 DEF FlightInv
  <2>3. \A i \in Runs : rjob[i] # NoJob => (cached'[rjob[i]] => cached[rjob[i]])
    BY <1>2 DEF TableTypes
  <2> QED
    BY <2>1, <2>2, <2>3 DEF TableEffect
<1>3. ASSUME NEW i \in Runs, RunDestroyed(i), rpc[i] = "teardown" PROVE TableEffect
  <2>1. /\ vm' = [vm EXCEPT ![i] = FALSE] /\ UNCHANGED restarts
        /\ ReleaseSlot(i, "unused")
        /\ inFlight' = [inFlight EXCEPT ![rjob[i]] = NoRun]
        /\ cached' = [cached EXCEPT ![rjob[i]] = TRUE]
        /\ rjob' = [rjob EXCEPT ![i] = NoJob]
    BY <1>3 DEF RunDestroyed, Resolve
  <2>2. /\ rpc'[i] = "unused"
        /\ \A k \in Runs \ {i} : rpc'[k] = "unused" <=> rpc[k] = "unused"
    BY <2>1, <1>3, ReleaseEffect DEF Running
  <2>3. rjob[i] \in Jobs /\ inFlight[rjob[i]] = i
    BY <1>3 DEF FlightInv
  <2>4. TableTypes'
    BY <2>1 DEF TableTypes
  <2>5. ASSUME NEW k \in Runs \ {i}, rpc[k] # "unused"
        PROVE  rjob'[k] \in Jobs /\ inFlight'[rjob'[k]] = k
    <3>1. rjob[k] \in Jobs /\ inFlight[rjob[k]] = k /\ rjob'[k] = rjob[k]
      BY <2>1, <2>5 DEF FlightInv, TableTypes
    <3> QED
      BY <2>1, <2>3, <3>1 DEF TableTypes
  <2>6. rjob'[i] = NoJob /\ \A k \in Runs \ {i} : rpc[k] = "unused" => rjob'[k] = NoJob
    BY <2>1 DEF FlightInv, TableTypes
  <2>7. FlightInv'
    BY <2>2, <2>5, <2>6 DEF FlightInv
  <2>8. ASSUME NEW k \in Runs, rjob[k] # NoJob, ~cached[rjob[k]], cached'[rjob[k]]
        PROVE  ~vm'[k]
    <3>1. rjob[k] \in Jobs /\ inFlight[rjob[k]] = k
      BY <2>8 DEF FlightInv, TableTypes
    <3>2. rjob[k] = rjob[i]
      BY <2>1, <2>8, <3>1 DEF TableTypes
    <3>3. k = i
      BY <2>3, <3>1, <3>2
    <3> QED
      BY <2>1, <3>3 DEF TableTypes
  <2> QED
    BY <2>4, <2>7, <2>8 DEF TableEffect
<1>4. ASSUME NEW i \in Runs, rpc[i] \in Running, ReleaseSlot(i, "rejected"), Reject(i),
             vm' \in [Runs -> BOOLEAN], UNCHANGED restarts
      PROVE  TableEffect
  <2>1. \A k \in Runs : rpc'[k] = "unused" <=> rpc[k] = "unused"
    BY <1>4, ReleaseEffect DEF Running
  <2>2. UNCHANGED <<inFlight, cached, rjob>> /\ cached' \in [Jobs -> BOOLEAN]
    BY <1>4 DEF Reject, TableTypes
  <2> QED
    BY <1>2, <1>4, <2>1, <2>2
<1>5. ASSUME NEW i \in Runs, RunNotCreated(i) PROVE TableEffect
  BY <1>4, <1>5 DEF RunNotCreated, Running, TableTypes
<1>6. ASSUME NEW i \in Runs, RunDestroyed(i), rpc[i] # "teardown" PROVE TableEffect
  <2>1. vm' \in [Runs -> BOOLEAN]
    BY <1>6 DEF RunDestroyed, TableTypes
  <2> QED
    BY <1>4, <1>6, <2>1 DEF RunDestroyed, Running
<1>7. ASSUME NEW i \in Runs, RunCreated(i) \/ RunExecuted(i) \/ RunNotDestroyed(i)
      PROVE  TableEffect
  <2>1. UNCHANGED <<inFlight, cached, rjob, restarts>>
    BY <1>7 DEF RunCreated, RunExecuted, RunNotDestroyed, Reject, gateway
  <2>2. vm' \in [Runs -> BOOLEAN]
    BY <1>7 DEF RunCreated, RunExecuted, RunNotDestroyed, TableTypes
  <2>3. \A k \in Runs : rpc'[k] = "unused" <=> rpc[k] = "unused"
    <3>1. PICK next \in {"exec", "teardown", "teardown_error", "leaked"} :
            rpc' = [rpc EXCEPT ![i] = next]
      BY <1>7 DEF RunCreated, RunExecuted, RunNotDestroyed
    <3>2. rpc[i] # "unused"
      BY <1>7 DEF RunCreated, RunExecuted, RunNotDestroyed
    <3> QED
      BY <3>1, <3>2 DEF SlotInv
  <2>4. cached' \in [Jobs -> BOOLEAN] /\ \A j \in Jobs : cached'[j] => cached[j]
    BY <2>1 DEF TableTypes
  <2> QED
    BY <1>2, <2>1, <2>2, <2>3, <2>4
<1>8. CASE Restart
  <2>1. TableTypes'
    BY <1>8 DEF Restart, TableTypes
  <2>2. FlightInv'
    BY <1>8 DEF Restart, FlightInv
  <2>3. \A i \in Runs : rjob[i] # NoJob => ~cached'[rjob[i]]
    BY <1>8 DEF Restart, TableTypes
  <2> QED
    BY <2>1, <2>2, <2>3 DEF TableEffect
<1>9. ASSUME UNCHANGED <<inFlight, cached, rjob, rpc, restarts>>, vm' \in [Runs -> BOOLEAN]
      PROVE  TableEffect
  <2>1. cached' \in [Jobs -> BOOLEAN] /\ \A j \in Jobs : cached'[j] => cached[j]
    BY <1>9 DEF TableTypes
  <2> QED
    BY <1>2, <1>9, <2>1
<1>10. ASSUME NEW c \in Callers,
             (\E j \in Jobs : Begin(c, j)) \/ SendCached(c) \/ SendJoin(c) \/ CallTimesOut(c)
      PROVE  TableEffect
  BY <1>9, <1>10 DEF Begin, SendCached, SendJoin, CallTimesOut, gateway, run, TableTypes
<1>11. ASSUME NEW i \in Runs, VMExpires(i) PROVE TableEffect
  <2>1. vm' \in [Runs -> BOOLEAN]
    BY <1>11 DEF VMExpires, TableTypes
  <2> QED
    BY <1>9, <1>11, <2>1 DEF VMExpires, gateway, run
<1>12. ASSUME NEW j \in Jobs, CacheExpires(j) PROVE TableEffect
  <2>1. cached' \in [Jobs -> BOOLEAN] /\ \A k \in Jobs : cached'[k] => cached[k]
    BY <1>12 DEF CacheExpires, TableTypes
  <2>2. UNCHANGED <<inFlight, rjob, restarts, vm, rpc>>
    BY <1>12 DEF CacheExpires, run
  <2> QED
    BY <1>2, <2>1, <2>2 DEF TableTypes
<1>13. ASSUME UNCHANGED vars PROVE TableEffect
  BY <1>9, <1>13 DEF vars, gateway, run, TableTypes
<1> QED
  BY <1>1, <1>3, <1>5, <1>6, <1>7, <1>8, <1>10, <1>11, <1>12, <1>13 DEF Next, RunStep

-----------------------------------------------------------------------------
(* VMs                                                                     *)

\* Strays are at most all runs, so they can be counted.
LEMMA StraysFinite ==
  /\ IsFiniteSet(Strays) /\ IsFiniteSet(Strays')
  /\ Cardinality(Strays) \in Nat /\ Cardinality(Strays') \in Nat
<1>1. IsFiniteSet(Runs)
  BY GatewayAssumption
<1>2. Strays \subseteq Runs /\ Strays' \subseteq Runs
  BY DEF Strays
<1> QED
  BY <1>1, <1>2, FS_Subset, FS_CardinalityType

\* A VM is created for a run that holds a slot, and only a restart takes the slot
\* from a run whose VM still exists.
LEMMA VMStep ==
  ASSUME TableTypes, SlotInv, QueueInv, VMInv, SlotEffect, [Next]_vars
  PROVE  VMInv'
<1>1. ASSUME UNCHANGED restarts,
             Strays' \subseteq Strays,
             \A i \in Runs : rpc'[i] \in {"waiting", "create"} => ~vm'[i]
      PROVE  VMInv'
  <2>1. Cardinality(Strays') <= Cardinality(Strays)
    BY <1>1, StraysFinite, FS_Subset
  <2>2. MaxConcurrent * restarts \in Nat
    BY GatewayAssumption DEF TableTypes
  <2>3. Cardinality(Strays') <= MaxConcurrent * restarts
    BY <2>1, <2>2, StraysFinite DEF VMInv
  <2> QED
    BY <1>1, <2>3 DEF VMInv
<1>2. ASSUME NEW c \in Callers, SendStart(c) PROVE VMInv'
  <2>1. PICK i \in Runs : rpc[i] = "unused" /\ ~vm[i] /\ AcquireSlot(i)
    BY <1>2 DEF SendStart
  <2>2. vm' = vm /\ restarts' = restarts
    BY <1>2 DEF SendStart
  <2>3. \A k \in Runs \ {i} : rpc'[k] = rpc[k]
    BY <2>1, AcquireEffect
  <2>4. Strays' \subseteq Strays
    BY <2>1, <2>2, <2>3 DEF Strays, Occupied
  <2>5. \A k \in Runs : rpc'[k] \in {"waiting", "create"} => ~vm'[k]
    BY <2>1, <2>2, <2>3 DEF VMInv
  <2> QED
    BY <1>1, <2>2, <2>4, <2>5
<1>3. ASSUME NEW i \in Runs, rpc[i] \in Running, UNCHANGED restarts,
             NEW next \in {"unused", "rejected"}, ReleaseSlot(i, next),
             ~vm'[i], \A k \in Runs \ {i} : vm'[k] = vm[k]
      PROVE  VMInv'
  <2>1. /\ rpc'[i] = next
        /\ \A k \in Runs \ {i} :
             rpc'[k] = rpc[k] \/ (rpc[k] = "waiting" /\ rpc'[k] = "create")
    BY <1>3, ReleaseEffect
  <2>2. Strays' \subseteq Strays
    BY <1>3, <2>1 DEF Strays, Occupied, Running
  <2>3. \A k \in Runs : rpc'[k] \in {"waiting", "create"} => ~vm'[k]
    BY <1>3, <2>1 DEF VMInv
  <2> QED
    BY <1>1, <1>3, <2>2, <2>3
<1>4. ASSUME NEW i \in Runs, RunNotCreated(i) PROVE VMInv'
  <2>1. rpc[i] = "create" /\ vm' = vm /\ restarts' = restarts /\ ReleaseSlot(i, "rejected")
    BY <1>4 DEF RunNotCreated
  <2>2. ~vm[i]
    BY <2>1 DEF VMInv
  <2> QED
    BY <1>3, <2>1, <2>2 DEF Running
<1>5. ASSUME NEW i \in Runs, RunDestroyed(i) PROVE VMInv'
  <2>1. vm' = [vm EXCEPT ![i] = FALSE] /\ restarts' = restarts
    BY <1>5 DEF RunDestroyed
  <2>2. ~vm'[i] /\ \A k \in Runs \ {i} : vm'[k] = vm[k]
    BY <2>1 DEF TableTypes
  <2>3. rpc[i] \in Running /\ \E next \in {"unused", "rejected"} : ReleaseSlot(i, next)
    BY <1>5 DEF RunDestroyed, Running
  <2> QED
    BY <1>3, <2>1, <2>2, <2>3
<1>6. ASSUME NEW i \in Runs, RunCreated(i) PROVE VMInv'
  <2>1. /\ rpc[i] = "create" /\ vm' = [vm EXCEPT ![i] = TRUE]
        /\ rpc' = [rpc EXCEPT ![i] = "exec"] /\ restarts' = restarts
    BY <1>6 DEF RunCreated
  <2>2. Strays' \subseteq Strays
    BY <2>1 DEF Strays, Occupied, Running, SlotInv, TableTypes
  <2>3. \A k \in Runs : rpc'[k] \in {"waiting", "create"} => ~vm'[k]
    BY <2>1 DEF VMInv, SlotInv, TableTypes
  <2> QED
    BY <1>1, <2>1, <2>2, <2>3
<1>7. ASSUME NEW i \in Runs, RunExecuted(i) \/ RunNotDestroyed(i) PROVE VMInv'
  <2>1. PICK next \in {"teardown", "teardown_error", "leaked"} :
          rpc' = [rpc EXCEPT ![i] = next]
    BY <1>7 DEF RunExecuted, RunNotDestroyed
  <2>2. rpc[i] \in Running /\ vm' = vm /\ restarts' = restarts
    BY <1>7 DEF RunExecuted, RunNotDestroyed, Running
  <2>3. Strays' \subseteq Strays
    BY <2>1, <2>2 DEF Strays, Occupied, Running, SlotInv
  <2>4. \A k \in Runs : rpc'[k] \in {"waiting", "create"} => ~vm'[k]
    BY <2>1, <2>2 DEF VMInv, SlotInv
  <2> QED
    BY <1>1, <2>2, <2>3, <2>4
<1>8. ASSUME NEW i \in Runs, VMExpires(i) PROVE VMInv'
  <2>1. vm' = [vm EXCEPT ![i] = FALSE] /\ rpc' = rpc /\ restarts' = restarts
    BY <1>8 DEF VMExpires, run
  <2>2. Strays' \subseteq Strays
    BY <2>1 DEF Strays, Occupied, TableTypes
  <2>3. \A k \in Runs : rpc'[k] \in {"waiting", "create"} => ~vm'[k]
    BY <2>1 DEF VMInv, TableTypes
  <2> QED
    BY <1>1, <2>1, <2>2, <2>3
<1>9. CASE Restart
  <2>1. /\ rpc' = [i \in Runs |-> "unused"] /\ vm' = vm /\ restarts' = restarts + 1
    BY <1>9 DEF Restart
  <2>2. Strays' \subseteq Strays \cup Occupied
    BY <2>1 DEF Strays, Occupied
  <2>3. Cardinality(Strays') <= Cardinality(Strays) + Cardinality(Occupied)
    <3>1. /\ IsFiniteSet(Strays \cup Occupied)
          /\ Cardinality(Strays \cup Occupied) =
               Cardinality(Strays) + Cardinality(Occupied) - Cardinality(Strays \cap Occupied)
      BY StraysFinite, OccupiedFinite, FS_Union
    <3>2. Cardinality(Strays') <= Cardinality(Strays \cup Occupied)
      BY <2>2, <3>1, FS_Subset
    <3>3. IsFiniteSet(Strays \cap Occupied)
      BY StraysFinite, FS_Intersection
    <3>4. Cardinality(Strays \cap Occupied) \in Nat
      BY <3>3, FS_CardinalityType
    <3> QED
      BY <3>1, <3>2, <3>4, StraysFinite, OccupiedFinite
  <2>4. MaxConcurrent * (restarts + 1) = MaxConcurrent * restarts + MaxConcurrent
    BY GatewayAssumption DEF TableTypes
  <2>5. MaxConcurrent * restarts \in Nat
    BY GatewayAssumption DEF TableTypes
  <2>6. Cardinality(Strays') <= MaxConcurrent * restarts'
    BY <2>1, <2>3, <2>4, <2>5, StraysFinite, OccupiedFinite, GatewayAssumption
       DEF VMInv, SlotInv
  <2>7. \A k \in Runs : rpc'[k] = "unused"
    BY <2>1
  <2> QED
    BY <2>6, <2>7 DEF VMInv
<1>10. ASSUME UNCHANGED <<rpc, vm, restarts>> PROVE VMInv'
  <2>1. Strays' = Strays
    BY <1>10 DEF Strays, Occupied
  <2> QED
    BY <1>10, <2>1 DEF VMInv
<1>11. ASSUME NEW c \in Callers,
             (\E j \in Jobs : Begin(c, j)) \/ SendCached(c) \/ SendJoin(c) \/ CallTimesOut(c)
      PROVE  VMInv'
  BY <1>10, <1>11 DEF Begin, SendCached, SendJoin, CallTimesOut, run
<1>12. ASSUME NEW j \in Jobs, CacheExpires(j) PROVE VMInv'
  BY <1>10, <1>12 DEF CacheExpires, run
<1>13. ASSUME UNCHANGED vars PROVE VMInv'
  BY <1>10, <1>13 DEF vars, run
<1> QED
  BY <1>2, <1>4, <1>5, <1>6, <1>7, <1>8, <1>9, <1>11, <1>12, <1>13 DEF Next, RunStep

-----------------------------------------------------------------------------
(* Callers                                                                 *)

\* A call starts anew or ends when an attempt fails, so it is in order again.
LEMMA AfterErrorOK ==
  ASSUME NEW k \in Calls, k.job \in Jobs, k.tries <= k.limit
  PROVE  CallOK(AfterError(k)) /\ CallOK(IdleCall)
<1> USE GatewayAssumption
<1>1. CallOK(IdleCall)
  BY DEF CallOK, IdleCall, Calls
<1>2. CASE k.tries < k.limit
  <2>1. AfterError(k) = [k EXCEPT !.pc = "send", !.run = NoRun]
    BY <1>2 DEF AfterError
  <2> QED
    BY <1>1, <1>2, <2>1 DEF CallOK, Calls
<1>3. CASE ~(k.tries < k.limit)
  BY <1>1, <1>3 DEF AfterError
<1> QED
  BY <1>1, <1>2, <1>3

\* No caller makes more attempts than its loop allows, and each knows its run.
LEMMA CallStep ==
  ASSUME TableTypes, CallInv, [Next]_vars
  PROVE  CallInv'
<1> USE GatewayAssumption
<1>1. CallOK(IdleCall)
  BY DEF CallOK, IdleCall, Calls
<1>2. ASSUME NEW c \in Callers, NEW k, CallOK(k), call' = [call EXCEPT ![c] = k]
      PROVE  CallInv'
  BY <1>2 DEF CallInv, CallOK
<1>3. ASSUME NEW c \in Callers, NEW j \in Jobs, Begin(c, j) PROVE CallInv'
  <2> DEFINE k(n) == [pc |-> "send", job |-> j, run |-> NoRun, tries |-> 0, limit |-> n]
  <2>1. PICK limit \in 1..Attempts : call' = [call EXCEPT ![c] = k(limit)]
    BY <1>3 DEF Begin
  <2>2. limit \in 1..Attempts /\ 0 < limit /\ 0 \in 0..Attempts
    BY <2>1
  <2>3. k(limit) \in Calls
    BY <2>2 DEF Calls
  <2>4. CallOK(k(limit))
    BY <2>2, <2>3 DEF CallOK
  <2> QED
    BY <1>2, <2>1, <2>4
<1>4. ASSUME NEW c \in Callers, SendCached(c) PROVE CallInv'
  BY <1>1, <1>2, <1>4 DEF SendCached
<1>5. ASSUME NEW c \in Callers, call[c].pc = "send"
      PROVE  /\ Sent(c) \in Calls /\ Sent(c).job \in Jobs
             /\ Sent(c).tries <= Sent(c).limit
             /\ \A i \in Runs : CallOK([Sent(c) EXCEPT !.pc = "await", !.run = i])
  <2>1. CallOK(call[c]) /\ call[c] \in Calls
    BY DEF CallInv, CallOK
  <2>2. /\ Sent(c) \in Calls /\ Sent(c).job \in Jobs
        /\ Sent(c).tries <= Sent(c).limit
    BY <1>5, <2>1 DEF Sent, CallOK, Calls
  <2>3. ASSUME NEW i \in Runs
        PROVE  CallOK([Sent(c) EXCEPT !.pc = "await", !.run = i])
    <3> DEFINE k == Sent(c)
    <3>1. k \in Calls /\ k.job \in Jobs /\ k.tries <= k.limit
      BY <2>2
    <3> HIDE DEF k
    <3>2. CallOK([k EXCEPT !.pc = "await", !.run = i])
      BY <3>1 DEF CallOK, Calls
    <3> QED
      BY <3>2 DEF k
  <2> QED
    BY <2>2, <2>3
<1>6. ASSUME NEW c \in Callers, SendStart(c) PROVE CallInv'
  <2>1. PICK i \in Runs : call' = [call EXCEPT ![c] = [Sent(c) EXCEPT !.pc = "await", !.run = i]]
    BY <1>6 DEF SendStart
  <2>2. call[c].pc = "send"
    BY <1>6 DEF SendStart
  <2> QED
    BY <1>2, <1>5, <2>1, <2>2
<1>7. ASSUME NEW c \in Callers, SendJoin(c) PROVE CallInv'
  <2> DEFINE i == inFlight[call[c].job]
  <2>1. call[c].pc = "send" /\ i # NoRun
    BY <1>7 DEF SendJoin
  <2>2. i \in Runs
    BY <1>7, <2>1 DEF TableTypes, CallInv, CallOK
  <2>3. call' = [call EXCEPT ![c] =
                   IF rpc[i] \in Unsettled THEN [Sent(c) EXCEPT !.pc = "await", !.run = i]
                                           ELSE AfterError(Sent(c))]
    BY <1>7 DEF SendJoin
  <2> HIDE DEF i
  <2>4. CallOK(AfterError(Sent(c)))
    BY <1>5, <2>1, AfterErrorOK
  <2> QED
    BY <1>2, <1>5, <2>1, <2>2, <2>3, <2>4
<1>8. ASSUME NEW c \in Callers, call[c].pc = "await" PROVE CallOK(AfterError(call[c]))
  BY <1>8, AfterErrorOK DEF CallInv, CallOK
<1>9. ASSUME NEW c \in Callers, CallTimesOut(c) PROVE CallInv'
  BY <1>2, <1>8, <1>9 DEF CallTimesOut
<1>10. ASSUME call' = [c \in Callers |-> call'[c]], \A c \in Callers : CallOK(call'[c])
      PROVE  CallInv'
  BY <1>10 DEF CallInv, CallOK
<1>11. ASSUME NEW i \in Runs, Resolve(i) PROVE CallInv'
  <2>1. call' = [c \in Callers |-> IF call[c].run = i THEN IdleCall ELSE call[c]]
    BY <1>11 DEF Resolve
  <2>2. \A c \in Callers : CallOK(call'[c])
    BY <1>1, <2>1 DEF CallInv
  <2> QED
    BY <1>10, <2>1, <2>2
<1>12. ASSUME NEW i \in Runs, Reject(i) PROVE CallInv'
  <2>1. call' = [c \in Callers |-> IF call[c].run = i THEN AfterError(call[c]) ELSE call[c]]
    BY <1>12 DEF Reject
  <2>2. \A c \in Callers : call[c].run = i => call[c].pc = "await"
    BY DEF CallInv, CallOK
  <2>3. \A c \in Callers : CallOK(call'[c])
    BY <1>8, <2>1, <2>2 DEF CallInv
  <2> QED
    BY <1>10, <2>1, <2>3
<1>13. CASE Restart
  <2>1. call' = [c \in Callers |-> IF call[c].pc = "await" THEN AfterError(call[c]) ELSE call[c]]
    BY <1>13 DEF Restart
  <2>2. \A c \in Callers : CallOK(call'[c])
    BY <1>8, <2>1 DEF CallInv
  <2> QED
    BY <1>10, <2>1, <2>2
<1>14. ASSUME call' = call PROVE CallInv'
  BY <1>14 DEF CallInv, CallOK
<1>15. ASSUME NEW i \in Runs, RunStep(i) \/ VMExpires(i) PROVE CallInv'
  BY <1>11, <1>12, <1>14, <1>15
     DEF RunStep, RunCreated, RunNotCreated, RunExecuted, RunDestroyed, RunNotDestroyed, VMExpires
<1>16. ASSUME (\E j \in Jobs : CacheExpires(j)) \/ UNCHANGED vars PROVE CallInv'
  BY <1>14, <1>16 DEF CacheExpires, vars
<1> QED
  BY <1>3, <1>4, <1>6, <1>7, <1>9, <1>13, <1>15, <1>16 DEF Next

-----------------------------------------------------------------------------
(* Theorems                                                                *)

\* Every step of the gateway keeps the invariant.
LEMMA GatewayStep == GatewayInv /\ [Next]_vars => GatewayInv'
<1> SUFFICES ASSUME GatewayInv, [Next]_vars PROVE GatewayInv'
  OBVIOUS
<1> USE DEF GatewayInv
<1>1. SlotEffect
  BY SlotStep
<1>2. TableEffect
  BY TableStep
<1>3. VMInv'
  BY <1>1, VMStep
<1>4. CallInv'
  BY CallStep
<1> QED
  BY <1>1, <1>2, <1>3, <1>4 DEF SlotEffect, TableEffect

\* A gateway that has just started satisfies it.
LEMMA GatewayStart == Init => GatewayInv
<1> SUFFICES ASSUME Init PROVE GatewayInv
  OBVIOUS
<1> USE GatewayAssumption
<1>1. TableTypes
  BY DEF Init, TableTypes
<1>2. Occupied = {} /\ Strays = {}
  BY DEF Init, Occupied, Strays, Running
<1>3. Cardinality(Occupied) = 0 /\ Cardinality(Strays) = 0
  BY <1>2, FS_EmptySet
<1>4. SlotInv
  BY <1>3 DEF Init, SlotInv, RunPCs
<1>5. QueueInv
  BY DEF Init, QueueInv
<1>6. FlightInv
  BY DEF Init, FlightInv
<1>7. VMInv
  BY <1>3 DEF Init, VMInv
<1>8. CallInv
  BY DEF Init, CallInv, CallOK, IdleCall, Calls
<1> QED
  BY <1>1, <1>4, <1>5, <1>6, <1>7, <1>8 DEF GatewayInv

\* The inductive invariant holds in every reachable state.
THEOREM GatewayInvHolds == Spec => []GatewayInv
  BY GatewayStart, GatewayStep, PTL DEF Spec

\* The counter, the queue, the tables of the gateway and the calls of app.py keep
\* their types; the counter never falls below zero.
THEOREM TypeCorrect == Spec => []TypeOK
<1>1. GatewayInv => TypeOK
  <2> SUFFICES ASSUME GatewayInv PROVE TypeOK
    OBVIOUS
  <2>1. TableTypes /\ SlotInv /\ QueueInv /\ CallInv
    BY DEF GatewayInv
  <2>2. active \in Nat /\ waiters \in Seq(Runs) /\ rpc \in [Runs -> RunPCs]
    BY <2>1 DEF SlotInv, QueueInv
  <2>3. /\ call \in [Callers -> Calls]
        /\ \A c \in Callers :
             /\ call[c].pc # "idle" => call[c].job \in Jobs /\ call[c].tries <= call[c].limit
             /\ call[c].pc = "await" <=> call[c].run # NoRun
    BY <2>1 DEF CallInv, CallOK
  <2> QED
    BY <2>1, <2>2, <2>3 DEF TypeOK, TableTypes
<1> QED
  BY <1>1, GatewayInvHolds, PTL

\* acquireSlot and releaseSlot admit at most MAX_CONCURRENT runs at a time, and a
\* slot whose VM could not be destroyed is given to no other run, so each process
\* of the gateway leaves at most that many VMs.
THEOREM SlotsBounded == Spec => []VMsBounded
<1>1. GatewayInv => VMsBounded
  <2> SUFFICES ASSUME GatewayInv PROVE VMsBounded
    OBVIOUS
  <2> DEFINE V == {i \in Runs : vm[i]}
  <2>1. Cardinality(Occupied) <= MaxConcurrent /\ Cardinality(Strays) <= MaxConcurrent * restarts
    BY DEF GatewayInv, SlotInv, VMInv
  <2>2. V \subseteq Strays \cup Occupied
    BY DEF Strays
  <2>3. /\ IsFiniteSet(Strays \cup Occupied)
        /\ Cardinality(Strays \cup Occupied) =
             Cardinality(Strays) + Cardinality(Occupied) - Cardinality(Strays \cap Occupied)
    BY StraysFinite, OccupiedFinite, FS_Union
  <2>4. Cardinality(V) <= Cardinality(Strays \cup Occupied) /\ Cardinality(V) \in Nat
    BY <2>2, <2>3, FS_Subset, FS_CardinalityType
  <2>5. Cardinality(Strays \cap Occupied) \in Nat
    BY StraysFinite, FS_Intersection, FS_CardinalityType
  <2>6. MaxConcurrent * (restarts + 1) = MaxConcurrent * restarts + MaxConcurrent
        /\ MaxConcurrent * restarts \in Nat
    BY GatewayAssumption DEF GatewayInv, TableTypes
  <2> HIDE DEF V
  <2>7. Cardinality(V) <= MaxConcurrent * (restarts + 1)
    BY <2>1, <2>3, <2>4, <2>5, <2>6, StraysFinite, OccupiedFinite, GatewayAssumption
  <2> QED
    BY <2>1, <2>7 DEF VMsBounded, V
<1> QED
  BY <1>1, GatewayInvHolds, PTL

\* releaseSlot loses no waiter: whatever requests, failures and timeouts come in
\* whatever order, nobody waits in acquireSlot while a slot is free.
THEOREM WaitersWoken == Spec => []NoLostWakeup
<1>1. GatewayInv => NoLostWakeup
  BY GatewayAssumption DEF GatewayInv, SlotInv, NoLostWakeup
<1> QED
  BY <1>1, GatewayInvHolds, PTL

\* The table inFlight gives equal jobs one run, however often and by however many
\* callers they are sent.
THEOREM RunsShared == Spec => []OneRunPerJob
<1>1. GatewayInv => OneRunPerJob
  <2> SUFFICES ASSUME FlightInv, NEW i \in Runs, NEW k \in Runs,
                      rpc[i] \in Unsettled, rpc[k] \in Unsettled, rjob[i] = rjob[k]
               PROVE  i = k
    BY DEF GatewayInv, OneRunPerJob
  <2>1. rpc[i] # "unused" /\ rpc[k] # "unused"
    BY DEF Unsettled, Running
  <2> QED
    BY <2>1 DEF FlightInv
<1> QED
  BY <1>1, GatewayInvHolds, PTL

\* POST /jobs publishes a result only after runJob has awaited destroy, and no
\* other run of the job, failed or leaked, is left.
THEOREM ResultsAfterTeardown == Spec => ResultMeansDestroyed
<1>1. GatewayInv /\ [Next]_vars =>
        [\A i \in Runs :
           rjob[i] # NoJob /\ ~cached[rjob[i]] /\ cached'[rjob[i]] => ~vm'[i]]_vars
  BY TableStep DEF GatewayInv, TableEffect
<1> QED
  BY <1>1, GatewayInvHolds, PTL DEF Spec, ResultMeansDestroyed
=============================================================================

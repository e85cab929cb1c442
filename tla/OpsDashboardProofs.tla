------------------------- MODULE OpsDashboardProofs -------------------------
(* Proofs about OpsDashboard for every set of monitors, systems and threads.  *)
EXTENDS OpsDashboard, TLAPS

-----------------------------------------------------------------------------
(* Types.                                                                  *)

\* fetch_http_monitor always settles on one of its three statuses.
LEMMA MonitorStatuses ==
  ASSUME NEW critical, NEW answer
  PROVE  MonitorStatus(critical, answer) \in {"healthy", "degraded", "down"}
BY DEF MonitorStatus, ClassifyPayload

\* A tick up to the last one falls on one of the days that have a backup.
LEMMA DayOfTick ==
  ASSUME NEW t \in Times
  PROVE  t \div DayLength \in Days
<1>1. /\ DayLength \in Nat \ {0} /\ MaxTime \in Nat
      /\ t \in Nat /\ t <= MaxTime
  BY DashboardAssumption DEF Times
<1>2. \A a \in Nat : /\ a \div DayLength \in Nat
                     /\ a = (DayLength * (a \div DayLength)) + (a % DayLength)
                     /\ a % DayLength \in 0 .. DayLength - 1
  BY <1>1
<1> DEFINE q == t \div DayLength
           p == MaxTime \div DayLength
<1>3. /\ q \in Nat /\ p \in Nat
      /\ DayLength * q <= MaxTime
      /\ MaxTime < (DayLength * p) + DayLength
  BY <1>1, <1>2
<1> HIDE DEF q, p
<1>4. q <= p
  <2> SUFFICES ASSUME p + 1 <= q PROVE FALSE
    BY <1>3
  <2>1. DayLength * (p + 1) <= DayLength * q
    BY <1>1, <1>3
  <2>2. DayLength * (p + 1) = (DayLength * p) + DayLength
    BY <1>1, <1>3
  <2> QED
    BY <1>1, <1>3, <2>1, <2>2
<1> QED
  BY <1>3, <1>4 DEF q, p, Days

\* An overview asks its monitors and records what it has seen of them.
LEMMA MonitorStepTypes ==
  ASSUME TypeOK, NEW v \in Viewers,
         \/ OverviewBegins(v) \/ MonitorsDone(v)
         \/ \E m \in Monitors : FetchMonitor(v, m) \/ RecordState(v, m)
  PROVE  TypeOK'
<1> USE DEF TypeOK
<1>1. FileTypes' /\ HeartbeatTypes' /\ EnvTypes'
  BY DEF OverviewBegins, MonitorsDone, FetchMonitor, RecordState, FileTypes, HeartbeatTypes,
         EnvTypes, files, heartbeat, env
<1>2. CASE OverviewBegins(v)
  BY <1>1, <1>2 DEF OverviewBegins, OverviewTypes, ViewerPCs, TableTypes, tables
<1>3. CASE MonitorsDone(v)
  <2>1. clock \in Times
    BY DEF EnvTypes
  <2>2. OverviewTypes'
    BY <1>3, <2>1 DEF MonitorsDone, OverviewTypes, ViewerPCs
  <2> QED
    BY <1>1, <1>3, <2>2 DEF MonitorsDone, TableTypes, tables
<1>4. ASSUME NEW m \in Monitors, FetchMonitor(v, m) PROVE TypeOK'
  <2>1. PICK answer \in MonitorAnswers :
          seen' = [seen EXCEPT ![v][m] =
                     [status |-> MonitorStatus(m \in Critical, answer), reason |-> answer]]
    BY <1>4 DEF FetchMonitor
  <2>2. [status |-> MonitorStatus(m \in Critical, answer), reason |-> answer] \in Readings
    BY MonitorStatuses DEF Readings
  <2>3. OverviewTypes'
    BY <1>4, <2>1, <2>2 DEF FetchMonitor, OverviewTypes
  <2> QED
    BY <1>1, <1>4, <2>3 DEF FetchMonitor, TableTypes, tables
<1>5. ASSUME NEW m \in Monitors, RecordState(v, m) PROVE TypeOK'
  <2>1. seen[v][m] \in Readings
    BY <1>5 DEF RecordState
  <2>2. OverviewTypes'
    BY <1>5 DEF RecordState, OverviewTypes
  <2>3. StateEvent(row[m], seen[v][m]) \in [reading : Readings, severity : Severities]
    BY <2>1 DEF StateEvent, Severities
  <2>4. TableTypes'
    BY <1>5, <2>1, <2>3 DEF RecordState, TableTypes
  <2> QED
    BY <1>1, <2>2, <2>4
<1> QED
  BY <1>2, <1>3, <1>4, <1>5

\* The rest of an overview: the cache, the backup and the answer.
LEMMA OverviewStepTypes ==
  ASSUME TypeOK, NEW v \in Viewers,
         \/ ServeCached(v) \/ CacheMissed(v) \/ FillCache(v) \/ FetchRaises(v)
         \/ BackupCheck(v) \/ BackupBegins(v) \/ BackupEnds(v) \/ BackupFails(v)
         \/ OverviewEnds(v)
  PROVE  TypeOK'
<1> USE DEF TypeOK, ViewerPCs
<1>1. TableTypes' /\ HeartbeatTypes'
  BY DEF ServeCached, CacheMissed, FillCache, FetchRaises, BackupCheck, BackupBegins,
         BackupEnds, BackupFails, OverviewEnds, TableTypes, HeartbeatTypes, tables, heartbeat
<1>2. EnvTypes'
  BY DashboardAssumption DEF ServeCached, CacheMissed, FillCache, FetchRaises, BackupCheck,
       BackupBegins, BackupEnds, BackupFails, OverviewEnds, EnvTypes, env
<1>3. CASE ServeCached(v)
  <2>1. cache.since \in Times
    BY <1>3 DEF ServeCached, FileTypes
  <2> QED
    BY <1>1, <1>2, <1>3, <2>1 DEF ServeCached, FileTypes, OverviewTypes, files
<1>4. CASE CacheMissed(v)
  BY <1>1, <1>2, <1>4 DEF CacheMissed, FileTypes, OverviewTypes, files
<1>5. CASE FillCache(v)
  <2>1. asked[v] \in Times
    BY <1>5 DEF FillCache, OverviewTypes
  <2>2. asked[v] + CacheSeconds \in Nat
    BY <2>1, DashboardAssumption DEF Times
  <2>3. [since |-> asked[v], expires |-> asked[v] + CacheSeconds] \in [since : Times, expires : Nat]
    BY <2>1, <2>2
  <2> QED
    BY <1>1, <1>2, <1>5, <2>1, <2>3 DEF FillCache, FileTypes, OverviewTypes, files
<1>6. CASE FetchRaises(v)
  BY <1>1, <1>2, <1>6 DEF FetchRaises, Forget, FileTypes, OverviewTypes, files
<1>7. CASE BackupCheck(v)
  <2>1. Today \in Days
    BY DayOfTick DEF Today, EnvTypes
  <2> QED
    BY <1>1, <1>2, <1>7, <2>1 DEF BackupCheck, Forget, FileTypes, OverviewTypes, files
<1>8. CASE BackupBegins(v)
  BY <1>1, <1>2, <1>8 DEF BackupBegins, FileTypes, OverviewTypes
<1>9. CASE BackupEnds(v)
  BY <1>1, <1>2, <1>9 DEF BackupEnds, FileTypes, OverviewTypes
<1>10. CASE BackupFails(v)
  BY <1>1, <1>2, <1>10 DEF BackupFails, FileTypes, OverviewTypes
<1>11. CASE OverviewEnds(v)
  <2>1. 0 \in Days
    BY DayOfTick, DashboardAssumption DEF Times, Days
  <2> QED
    BY <1>1, <1>2, <1>11, <2>1 DEF OverviewEnds, FileTypes, OverviewTypes, files
<1> QED
  BY <1>3, <1>4, <1>5, <1>6, <1>7, <1>8, <1>9, <1>10, <1>11

\* A heartbeat knows its system and its status until it ends.
LEMMA BeatStepTypes ==
  ASSUME TypeOK, NEW s \in Senders,
         (\E x \in Systems : BeatArrives(s, x)) \/ BeatWrites(s) \/ BeatEvent(s)
  PROVE  TypeOK'
<1> USE DEF TypeOK
<1>1. FileTypes' /\ OverviewTypes' /\ EnvTypes'
  BY DEF BeatArrives, BeatWrites, BeatEvent, FileTypes, OverviewTypes, EnvTypes, files,
         overview, env
<1>2. ASSUME NEW x \in Systems, BeatArrives(s, x) PROVE TypeOK'
  <2>1. PICK status \in BeatStatuses : bstatus' = [bstatus EXCEPT ![s] = status]
    BY <1>2 DEF BeatArrives
  <2>2. TableTypes'
    BY <1>2 DEF BeatArrives, TableTypes
  <2>3. HeartbeatTypes'
    BY <1>2, <2>1 DEF BeatArrives, HeartbeatTypes, TableTypes
  <2> QED
    BY <1>1, <2>2, <2>3
<1>3. CASE BeatWrites(s)
  <2>1. bsystem[s] \in Systems /\ bstatus[s] \in BeatStatuses
    BY <1>3 DEF BeatWrites, HeartbeatTypes
  <2>2. TableTypes'
    BY <1>3, <2>1 DEF BeatWrites, TableTypes
  <2>3. HeartbeatTypes'
    BY <1>3, <2>1 DEF BeatWrites, BeatEnds, HeartbeatTypes
  <2> QED
    BY <1>1, <2>2, <2>3
<1>4. CASE BeatEvent(s)
  <2>1. bsystem[s] \in Systems /\ bstatus[s] \in BeatStatuses
    BY <1>4 DEF BeatEvent, HeartbeatTypes
  <2>2. TableTypes'
    BY <1>4, <2>1 DEF BeatEvent, TableTypes
  <2>3. HeartbeatTypes'
    BY <1>4, <2>1 DEF BeatEvent, BeatEnds, HeartbeatTypes
  <2> QED
    BY <1>1, <2>2, <2>3
<1> QED
  BY <1>2, <1>3, <1>4

\* Time passes up to its bound; a restart resets the locals of all threads.
LEMMA EnvStepTypes ==
  ASSUME TypeOK, Tick \/ Crash \/ UNCHANGED vars
  PROVE  TypeOK'
<1> USE DEF TypeOK
<1>1. CASE Tick
  <2>1. clock' \in Times
    BY <1>1, DashboardAssumption DEF Tick, EnvTypes, Times
  <2> QED
    BY <1>1, <2>1 DEF Tick, TableTypes, FileTypes, OverviewTypes, HeartbeatTypes, EnvTypes,
         tables, files, overview, heartbeat
<1>2. CASE Crash
  <2>1. 0 \in Days
    BY DayOfTick, DashboardAssumption DEF Times, Days
  <2>2. OverviewTypes' /\ HeartbeatTypes'
    BY <1>2, <2>1 DEF Crash, OverviewTypes, HeartbeatTypes, ViewerPCs
  <2>3. TableTypes' /\ FileTypes' /\ EnvTypes'
    BY <1>2, DashboardAssumption DEF Crash, TableTypes, FileTypes, EnvTypes, tables
  <2> QED
    BY <2>2, <2>3
<1>3. CASE UNCHANGED vars
  BY <1>3 DEF vars, tables, files, overview, heartbeat, env, TableTypes, FileTypes,
       OverviewTypes, HeartbeatTypes, EnvTypes
<1> QED
  BY <1>1, <1>2, <1>3

\* Every step keeps the types.
LEMMA TypeStep == TypeOK /\ [Next]_vars => TypeOK'
BY MonitorStepTypes, OverviewStepTypes, BeatStepTypes, EnvStepTypes
DEF Next, OverviewStep, BeatStep

-----------------------------------------------------------------------------
(* Safety.                                                                 *)

\* What is cached expires CacheSeconds after it was asked for; an overview has
\* statuses to serve only until it turns to the backup.
CacheInv ==
  /\ CacheWithinLimit
  /\ cache # NoData => cache.expires = cache.since + CacheSeconds
  /\ \A v \in Viewers : served[v] # NoTime => vpc[v] = "backup"

\* The lock is held by the one thread that copies.
BackupInv ==
  /\ BackupIsExplained
  /\ copier # NoThread => vpc[copier] = "copy"
  /\ \A v \in Viewers : vpc[v] = "copy" => copier = v

\* A system that never had two heartbeats in flight has at most the one whose
\* reading of the row is still true, or whose event is still to come.
OneBeat(x) ==
  /\ \A s, t \in InFlight(x) : s = t
  /\ InFlight(x) = {} => beat[x] = beatEvent[x]
  /\ \A s \in InFlight(x) :
       /\ bpc[s] = "write" => beat[x] = beatEvent[x] /\ bprevious[s] = beat[x]
       /\ bpc[s] = "event" => beat[x] = bstatus[s]

BeatInv == \A x \in Systems : x \in overlapped \/ crashes > 0 \/ OneBeat(x)

\* The inductive invariant.
DashboardInv == TypeOK /\ StateIsExplained /\ CacheInv /\ BackupInv /\ BeatInv

\* Only record_state writes a row, and it writes the event in the same transaction.
LEMMA StateStep == TypeOK /\ StateIsExplained /\ [Next]_vars => StateIsExplained'
<1> SUFFICES ASSUME TypeOK, StateIsExplained, [Next]_vars PROVE StateIsExplained'
  OBVIOUS
<1>1. /\ row \in [Monitors -> Readings \cup {NoRow}]
      /\ rowEvent \in [Monitors -> [reading : Readings, severity : Severities] \cup {NoEvent}]
  BY DEF TypeOK, TableTypes
<1>2. ASSUME NEW v \in Viewers, NEW m \in Monitors, RecordState(v, m)
      PROVE  StateIsExplained'
  <2>1. PICK reading \in Readings :
          /\ row' = [row EXCEPT ![m] = reading]
          /\ rowEvent' = IF row[m] = reading THEN rowEvent
                         ELSE [rowEvent EXCEPT ![m] = StateEvent(row[m], reading)]
    BY <1>2 DEF RecordState
  <2>2. reading # NoRow
    BY DEF Readings, NoRow
  <2>3. StateEvent(row[m], reading).reading = reading
    BY DEF StateEvent
  <2>4. rowEvent'[m].reading = row'[m]
    BY <1>1, <2>1, <2>2, <2>3 DEF StateIsExplained
  <2>5. \A n \in Monitors : n # m => row'[n] = row[n] /\ rowEvent'[n] = rowEvent[n]
    BY <1>1, <2>1
  <2> QED
    BY <2>4, <2>5 DEF StateIsExplained
<1>3. CASE UNCHANGED <<row, rowEvent>>
  BY <1>3 DEF StateIsExplained
<1>4. CASE \A v \in Viewers, m \in Monitors : ~RecordState(v, m)
  BY <1>3, <1>4 DEF Next, OverviewStep, BeatStep, OverviewBegins, FetchMonitor, MonitorsDone,
       ServeCached, CacheMissed, FillCache, FetchRaises, BackupCheck, BackupBegins,
       BackupEnds, BackupFails, OverviewEnds, BeatArrives, BeatWrites, BeatEvent, Tick,
       Crash, tables, vars
<1> QED
  BY <1>2, <1>4

\* The cache is filled and read only by overviews that know when they asked.
LEMMA CacheStep == TypeOK /\ CacheInv /\ [Next]_vars => CacheInv'
<1> SUFFICES ASSUME TypeOK, CacheInv, [Next]_vars PROVE CacheInv'
  OBVIOUS
<1> USE DEF CacheInv, CacheWithinLimit
<1>1. /\ cache \in [since : Times, expires : Nat] \cup {NoData}
      /\ vpc \in [Viewers -> ViewerPCs]
      /\ asked \in [Viewers -> Times \cup {NoTime}]
      /\ served \in [Viewers -> Times \cup {NoTime}]
      /\ CacheSeconds \in Nat
  BY DashboardAssumption DEF TypeOK, FileTypes, OverviewTypes
<1>2. ASSUME NEW v \in Viewers, MonitorsDone(v) PROVE CacheInv'
  BY <1>1, <1>2 DEF MonitorsDone
<1>3. ASSUME NEW v \in Viewers, ServeCached(v) PROVE CacheInv'
  <2>1. /\ cache # NoData /\ cache.since \in Times /\ cache.expires \in Nat
        /\ asked[v] \in Int /\ asked[v] < cache.expires
    BY <1>1, <1>3 DEF ServeCached, Times, NoTime
  <2>2. asked[v] <= cache.since + CacheSeconds
    BY <1>1, <2>1 DEF Times
  <2> QED
    BY <1>1, <1>3, <2>2 DEF ServeCached
<1>4. ASSUME NEW v \in Viewers, FillCache(v) PROVE CacheInv'
  <2>1. asked[v] \in Nat
    BY <1>4 DEF FillCache, TypeOK, OverviewTypes, Times
  <2> QED
    BY <1>1, <1>4, <2>1 DEF FillCache
<1>5. ASSUME NEW v \in Viewers, FetchRaises(v) \/ BackupCheck(v) PROVE CacheInv'
  BY <1>1, <1>5 DEF FetchRaises, BackupCheck, Forget
<1>6. ASSUME NEW v \in Viewers,
             \/ OverviewBegins(v) \/ CacheMissed(v) \/ BackupBegins(v) \/ BackupEnds(v)
             \/ BackupFails(v) \/ OverviewEnds(v)
      PROVE  CacheInv'
  BY <1>1, <1>6 DEF OverviewBegins, CacheMissed, BackupBegins, BackupEnds, BackupFails,
       OverviewEnds
<1>7. CASE Crash
  BY <1>7 DEF Crash
<1>8. CASE UNCHANGED <<cache, vpc, asked, served>>
  BY <1>8
<1>9. CASE /\ \A v \in Viewers :
                ~(\/ MonitorsDone(v) \/ ServeCached(v) \/ FillCache(v) \/ FetchRaises(v)
                  \/ BackupCheck(v) \/ OverviewBegins(v) \/ CacheMissed(v) \/ BackupBegins(v)
                  \/ BackupEnds(v) \/ BackupFails(v) \/ OverviewEnds(v))
           /\ ~Crash
  BY <1>8, <1>9 DEF Next, OverviewStep, BeatStep, FetchMonitor, RecordState, BeatArrives,
       BeatWrites, BeatEvent, Tick, overview, vars
<1> QED
  BY <1>2, <1>3, <1>4, <1>5, <1>6, <1>7, <1>9

\* The copy is made by one thread at a time, whatever day each overview aims at.
LEMMA BackupStep == TypeOK /\ BackupInv /\ [Next]_vars => BackupInv'
<1> SUFFICES ASSUME TypeOK, BackupInv, [Next]_vars PROVE BackupInv'
  OBVIOUS
<1> USE DEF BackupInv, BackupIsExplained, NoThread
<1>1. /\ backup \in [Days -> {"none", "empty", "complete"}]
      /\ copier \in Viewers \cup {"none"}
      /\ vpc \in [Viewers -> ViewerPCs] /\ target \in [Viewers -> Days]
      /\ "none" \notin Viewers
      /\ faults \in Nat /\ crashes \in Nat
  BY DashboardAssumption DEF TypeOK, FileTypes, OverviewTypes, EnvTypes, NoThread
<1>2. ASSUME NEW v \in Viewers,
             \/ OverviewBegins(v) \/ MonitorsDone(v) \/ ServeCached(v) \/ CacheMissed(v)
             \/ FillCache(v)
      PROVE  BackupInv'
  BY <1>1, <1>2 DEF OverviewBegins, MonitorsDone, ServeCached, CacheMissed, FillCache, files,
       env
<1>3. ASSUME NEW v \in Viewers, BackupCheck(v) \/ OverviewEnds(v) PROVE BackupInv'
  <2>1. /\ copier # v /\ UNCHANGED <<backup, copier, faults, crashes>>
        /\ \A u \in Viewers : u # v => target'[u] = target[u] /\ vpc'[u] = vpc[u]
        /\ vpc'[v] \in {"lock", "answer", "idle"}
    BY <1>1, <1>3 DEF BackupCheck, OverviewEnds, files, env
  <2> QED
    BY <1>1, <2>1
<1>4. ASSUME NEW v \in Viewers, FetchRaises(v) PROVE BackupInv'
  BY <1>1, <1>4 DEF FetchRaises, files
<1>5. ASSUME NEW v \in Viewers, BackupBegins(v) PROVE BackupInv'
  <2>1. /\ copier = "none" /\ copier' = v
        /\ backup' = [backup EXCEPT ![target[v]] = IF @ = "none" THEN "empty" ELSE @]
        /\ vpc' = [vpc EXCEPT ![v] = "copy"] /\ UNCHANGED <<target, faults, crashes>>
    BY <1>5 DEF BackupBegins, LockIsFree, env
  <2> QED
    BY <1>1, <2>1
<1>6. ASSUME NEW v \in Viewers, BackupEnds(v) PROVE BackupInv'
  <2>1. /\ copier = v /\ copier' = "none"
        /\ backup' = [backup EXCEPT ![target[v]] = "complete"]
        /\ vpc' = [vpc EXCEPT ![v] = "answer"] /\ UNCHANGED <<target, faults, crashes>>
    BY <1>6 DEF BackupEnds, env
  <2> QED
    BY <1>1, <2>1
<1>7. ASSUME NEW v \in Viewers, BackupFails(v) PROVE BackupInv'
  <2>1. /\ copier = v /\ copier' = "none" /\ faults' > 0
        /\ vpc' = [vpc EXCEPT ![v] = "answer"]
    BY <1>1, <1>7 DEF BackupFails
  <2> QED
    BY <1>1, <2>1
<1>8. CASE Crash
  BY <1>1, <1>8 DEF Crash
<1>9. CASE UNCHANGED <<backup, copier, vpc, target, faults, crashes>>
  BY <1>9
<1>10. CASE /\ \A v \in Viewers :
                 ~(\/ MonitorsDone(v) \/ ServeCached(v) \/ FillCache(v) \/ FetchRaises(v)
                   \/ BackupCheck(v) \/ OverviewBegins(v) \/ CacheMissed(v)
                   \/ BackupBegins(v) \/ BackupEnds(v) \/ BackupFails(v) \/ OverviewEnds(v))
            /\ ~Crash
  BY <1>9, <1>10 DEF Next, OverviewStep, BeatStep, FetchMonitor, RecordState, BeatArrives,
       BeatWrites, BeatEvent, Tick, overview, files, env, vars
<1> QED
  BY <1>2, <1>3, <1>4, <1>5, <1>6, <1>7, <1>8, <1>10

\* A heartbeat that nobody overlaps carries the row's old status to its end.
LEMMA BeatStepInv ==
  ASSUME TypeOK, BeatInv, [Next]_vars, NEW x \in Systems, x \notin overlapped', crashes' = 0
  PROVE  OneBeat(x)'
<1>1. /\ beat \in [Systems -> BeatStatuses \cup {Nothing}]
      /\ beatEvent \in [Systems -> BeatStatuses \cup {Nothing}]
      /\ bpc \in [Senders -> {"idle", "write", "event"}]
      /\ bsystem \in [Senders -> Systems \cup {Nothing}]
      /\ bstatus \in [Senders -> BeatStatuses \cup {Nothing}]
      /\ bprevious \in [Senders -> BeatStatuses \cup {Nothing}]
      /\ \A s \in Senders : bpc[s] # "idle" => bsystem[s] \in Systems
      /\ crashes \in Nat /\ overlapped \subseteq Systems
      /\ Nothing \notin Systems
  BY DashboardAssumption DEF TypeOK, TableTypes, HeartbeatTypes, EnvTypes, Nothing
<1>2. ASSUME NEW s \in Senders, NEW y \in Systems, BeatArrives(s, y) PROVE OneBeat(x)'
  <2>1. /\ overlapped \subseteq overlapped' /\ crashes' = crashes
        /\ beat' = beat /\ beatEvent' = beatEvent
    BY <1>2 DEF BeatArrives, env
  <2>2. OneBeat(x)
    BY <2>1 DEF BeatInv
  <2>3. /\ bpc'[s] = "write" /\ bsystem'[s] = y /\ bprevious'[s] = beat[y] /\ bpc[s] = "idle"
        /\ \A t \in Senders : t # s => /\ bpc'[t] = bpc[t] /\ bsystem'[t] = bsystem[t]
                                       /\ bstatus'[t] = bstatus[t] /\ bprevious'[t] = bprevious[t]
    BY <1>1, <1>2 DEF BeatArrives
  <2>4. CASE y # x
    <3>1. InFlight(x)' = InFlight(x) /\ s \notin InFlight(x)
      BY <2>3, <2>4 DEF InFlight
    <3> QED
      BY <2>1, <2>2, <2>3, <3>1 DEF OneBeat, InFlight
  <2>5. CASE y = x
    <3>1. InFlight(x) = {}
      BY <1>2, <2>5 DEF BeatArrives
    <3>2. InFlight(x)' = {s}
      BY <2>3, <2>5, <3>1 DEF InFlight
    <3> QED
      BY <2>1, <2>2, <2>3, <2>5, <3>1, <3>2 DEF OneBeat
  <2> QED
    BY <2>4, <2>5
<1>3. ASSUME NEW s \in Senders, BeatWrites(s) PROVE OneBeat(x)'
  <2>1. /\ overlapped' = overlapped /\ crashes' = crashes /\ beatEvent' = beatEvent
        /\ beat' = [beat EXCEPT ![bsystem[s]] = bstatus[s]]
        /\ bpc[s] = "write" /\ bsystem[s] \in Systems
    BY <1>1, <1>3 DEF BeatWrites, env
  <2>2. OneBeat(x)
    BY <2>1 DEF BeatInv
  <2>3. \A t \in Senders : t # s => /\ bpc'[t] = bpc[t] /\ bsystem'[t] = bsystem[t]
                                   /\ bstatus'[t] = bstatus[t] /\ bprevious'[t] = bprevious[t]
    BY <1>1, <1>3 DEF BeatWrites, BeatEnds
  <2>4. \/ bpc'[s] = "event" /\ bsystem'[s] = bsystem[s] /\ bstatus'[s] = bstatus[s]
        \/ bpc'[s] = "idle" /\ bprevious[s] = bstatus[s]
    BY <1>1, <1>3 DEF BeatWrites, BeatEnds
  <2>5. CASE bsystem[s] # x
    <3>1. InFlight(x)' = InFlight(x) /\ s \notin InFlight(x) /\ beat'[x] = beat[x]
      BY <1>1, <2>1, <2>3, <2>4, <2>5 DEF InFlight
    <3> QED
      BY <2>1, <2>2, <2>3, <3>1 DEF OneBeat, InFlight
  <2>6. CASE bsystem[s] = x
    <3>1. InFlight(x) = {s}
      BY <2>1, <2>2, <2>6 DEF InFlight, OneBeat
    <3>2. beat'[x] = bstatus[s] /\ bprevious[s] = beat[x] /\ beat[x] = beatEvent[x]
      BY <1>1, <2>1, <2>2, <2>6, <3>1 DEF OneBeat
    <3>3. CASE bpc'[s] = "event" /\ bsystem'[s] = bsystem[s] /\ bstatus'[s] = bstatus[s]
      <4>1. InFlight(x)' = {s}
        BY <2>3, <2>6, <3>1, <3>3 DEF InFlight
      <4> QED
        BY <3>2, <3>3, <4>1 DEF OneBeat
    <3>4. CASE bpc'[s] = "idle" /\ bprevious[s] = bstatus[s]
      <4>1. InFlight(x)' = {}
        BY <2>3, <2>6, <3>1, <3>4 DEF InFlight
      <4> QED
        BY <2>1, <3>2, <3>4, <4>1 DEF OneBeat
    <3> QED
      BY <2>4, <3>3, <3>4
  <2> QED
    BY <2>5, <2>6
<1>4. ASSUME NEW s \in Senders, BeatEvent(s) PROVE OneBeat(x)'
  <2>1. /\ overlapped' = overlapped /\ crashes' = crashes /\ beat' = beat
        /\ beatEvent' = [beatEvent EXCEPT ![bsystem[s]] = bstatus[s]]
        /\ bpc[s] = "event" /\ bsystem[s] \in Systems /\ bpc'[s] = "idle"
    BY <1>1, <1>4 DEF BeatEvent, BeatEnds, env
  <2>2. OneBeat(x)
    BY <2>1 DEF BeatInv
  <2>3. \A t \in Senders : t # s => /\ bpc'[t] = bpc[t] /\ bsystem'[t] = bsystem[t]
                                   /\ bstatus'[t] = bstatus[t] /\ bprevious'[t] = bprevious[t]
    BY <1>1, <1>4 DEF BeatEvent, BeatEnds
  <2>4. CASE bsystem[s] # x
    <3>1. InFlight(x)' = InFlight(x) /\ s \notin InFlight(x) /\ beatEvent'[x] = beatEvent[x]
      BY <1>1, <2>1, <2>3, <2>4 DEF InFlight
    <3> QED
      BY <2>1, <2>2, <2>3, <3>1 DEF OneBeat, InFlight
  <2>5. CASE bsystem[s] = x
    <3>1. InFlight(x) = {s}
      BY <2>1, <2>2, <2>5 DEF InFlight, OneBeat
    <3>2. InFlight(x)' = {} /\ beatEvent'[x] = bstatus[s] /\ beat[x] = bstatus[s]
      BY <1>1, <2>1, <2>2, <2>3, <2>5, <3>1 DEF InFlight, OneBeat
    <3> QED
      BY <2>1, <3>2 DEF OneBeat
  <2> QED
    BY <2>4, <2>5
<1>5. CASE UNCHANGED <<heartbeat, beat, beatEvent, overlapped, crashes>>
  BY <1>5 DEF heartbeat, BeatInv, OneBeat, InFlight
<1>6. CASE ~Crash /\ \A s \in Senders :
             ~BeatWrites(s) /\ ~BeatEvent(s) /\ \A y \in Systems : ~BeatArrives(s, y)
  BY <1>5, <1>6 DEF Next, OverviewStep, BeatStep, OverviewBegins, FetchMonitor, RecordState,
       MonitorsDone, ServeCached, CacheMissed, FillCache, FetchRaises, BackupCheck,
       BackupBegins, BackupEnds, BackupFails, OverviewEnds, Tick, tables, env, vars
<1>7. ~Crash
  BY <1>1 DEF Crash
<1> QED
  BY <1>2, <1>3, <1>4, <1>6, <1>7

-----------------------------------------------------------------------------
(* The theorems.                                                           *)

\* The invariant holds at first and is kept by every step.
LEMMA DashboardInvHolds == Spec => []DashboardInv
<1>1. Init => DashboardInv
  <2> SUFFICES ASSUME Init PROVE DashboardInv
    OBVIOUS
  <2>1. 0 \in Times /\ 0 \in Days
    BY DayOfTick, DashboardAssumption DEF Times, Days
  <2>2. TableTypes /\ FileTypes /\ HeartbeatTypes /\ EnvTypes
    BY <2>1 DEF Init, TableTypes, FileTypes, HeartbeatTypes, EnvTypes
  <2>3. OverviewTypes
    BY <2>1 DEF Init, OverviewTypes, ViewerPCs
  <2>4. StateIsExplained /\ CacheInv /\ BackupInv
    BY DEF Init, StateIsExplained, CacheInv, CacheWithinLimit, BackupInv, BackupIsExplained
  <2>5. BeatInv
    BY DEF Init, BeatInv, OneBeat, InFlight
  <2> QED
    BY <2>2, <2>3, <2>4, <2>5 DEF DashboardInv, TypeOK
<1>2. DashboardInv /\ [Next]_vars => DashboardInv'
  <2> SUFFICES ASSUME DashboardInv, [Next]_vars PROVE DashboardInv'
    OBVIOUS
  <2>1. TypeOK' /\ StateIsExplained' /\ CacheInv' /\ BackupInv'
    BY TypeStep, StateStep, CacheStep, BackupStep DEF DashboardInv
  <2>2. crashes' \in Nat
    BY <2>1 DEF TypeOK, EnvTypes
  <2>3. BeatInv'
    <3> SUFFICES ASSUME NEW x \in Systems, x \notin overlapped', ~(crashes' > 0)
                 PROVE  OneBeat(x)'
      BY DEF BeatInv
    <3>1. crashes' = 0
      BY <2>2
    <3> QED
      BY <3>1, BeatStepInv DEF DashboardInv
  <2> QED
    BY <2>1, <2>3 DEF DashboardInv
<1> QED
  BY <1>1, <1>2, PTL DEF Spec

\* Rows, cache, backups and locals keep their types, for any number of monitors,
\* systems, overviews and heartbeats.
THEOREM DashboardTypes == Spec => []TypeOK
<1>1. DashboardInv => TypeOK
  BY DEF DashboardInv
<1> QED
  BY <1>1, DashboardInvHolds, PTL

\* Whatever overviews overlap or are cut off, the latest event of a monitor is what
\* its row says.
THEOREM StateExplained == Spec => []StateIsExplained
<1>1. DashboardInv => StateIsExplained
  BY DEF DashboardInv
<1> QED
  BY <1>1, DashboardInvHolds, PTL

\* No overview answers with repository statuses asked for more than
\* GITHUB_CACHE_SECONDS before it asked, whoever overwrote the cache last.
THEOREM CacheLimited == Spec => []CacheWithinLimit
<1>1. DashboardInv => CacheWithinLimit
  BY DEF DashboardInv, CacheInv
<1> QED
  BY <1>1, DashboardInvHolds, PTL

\* An unfinished backup has a running copy, or one that a crash or a failure cut off.
THEOREM BackupExplained == Spec => []BackupIsExplained
<1>1. DashboardInv => BackupIsExplained
  BY DEF DashboardInv, BackupInv
<1> QED
  BY <1>1, DashboardInvHolds, PTL

\* Row and event of a system part only through a heartbeat in flight, overlapping
\* heartbeats or a crash.
THEOREM BeatsExplained == Spec => []BeatsAreExplained
<1>1. DashboardInv => BeatsAreExplained
  BY DEF DashboardInv, BeatInv, OneBeat, BeatsAreExplained
<1> QED
  BY <1>1, DashboardInvHolds, PTL
=============================================================================

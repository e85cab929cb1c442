---------------------------- MODULE OpsDashboard ----------------------------
(***************************************************************************)
(* Central Operations (ops_dashboard/app.py): the state that several       *)
(* overviews and heartbeats share.  Every endpoint runs in a thread of the *)
(* server's pool; OpsStore has one connection for all of them, a lock      *)
(* around its transactions, and reads that do not take the lock.           *)
(*                                                                         *)
(* An overview asks the monitors (each in a thread of its own) and records *)
(* what they answered, reads the cached repository statuses or fetches     *)
(* them, and sees to the backup of the day.  A heartbeat reads the row of  *)
(* its system, writes it, and reports a change of status as an event.      *)
(* Abstracted: what only reads (see OpsStatus), all events but the latest  *)
(* of each monitor and of each system, and details of a row.               *)
(***************************************************************************)
EXTENDS OpsStatus

CONSTANTS
  Monitors, Critical,   \* HTTP_MONITORS, and those of them that are critical
  MonitorAnswers,       \* the answers an endpoint gives in this instance
  Systems,              \* EXPECTED_LOCAL_SYSTEMS
  BeatStatuses,         \* the statuses a heartbeat reports
  Viewers, Senders,     \* threads of overviews and of heartbeats
  Scenarios,            \* sets of threads, one of which is at work in a behaviour
  CacheSeconds,         \* GITHUB_CACHE_SECONDS, in ticks
  DayLength, MaxTime,   \* ticks of a UTC day, and bound: the last tick
  MaxFaults, MaxCrashes \* bounds: failing copies or fetches, crashes

ASSUME DashboardAssumption ==
  /\ Critical \subseteq Monitors
  /\ MonitorAnswers \subseteq Answers
  /\ Viewers \cap Senders = {} /\ "none" \notin Viewers \cup Systems
  /\ \A threads \in Scenarios : threads \subseteq Viewers \cup Senders
  /\ CacheSeconds \in Nat /\ DayLength \in Nat \ {0} /\ MaxTime \in Nat
  /\ MaxFaults \in Nat /\ MaxCrashes \in Nat

VARIABLES
  threads, clock,
  row, rowEvent,        \* service_state, and the latest event of each monitor
  beat, beatEvent,      \* heartbeats, and the status of each system's latest event
  overlapped,           \* history: systems with two heartbeats in flight at once
  cache,                \* _repo_cache
  backup, copier,       \* the file of each day; the thread that holds the lock to copy
  vpc, seen, asked, served, target,   \* an overview
  bpc, bsystem, bstatus, bprevious,   \* a heartbeat
  faults, crashes

tables == <<row, rowEvent, beat, beatEvent, overlapped>>
files == <<backup, copier>>
overview == <<vpc, seen, asked, served, target>>
heartbeat == <<bpc, bsystem, bstatus, bprevious>>
env == <<threads, clock, faults, crashes>>
vars == <<tables, cache, files, overview, heartbeat, env>>

Readings == [status : {"healthy", "degraded", "down"}, reason : MonitorAnswers]
Severities == {"info", "warning", "critical"}
NoRow == [status |-> "none", reason |-> "none"]
NoEvent == [reading |-> NoRow, severity |-> "none"]
Unseen == [status |-> "unseen", reason |-> "none"]
Recorded == [status |-> "recorded", reason |-> "none"]
Nothing == "none"
NoTime == -1
NoThread == "none"
NoData == [since |-> NoTime, expires |-> NoTime]

Days == 0 .. (MaxTime \div DayLength)
Today == clock \div DayLength
Times == 0 .. MaxTime

ViewerPCs == {"idle", "monitors", "repos", "fetch", "backup", "lock", "copy", "answer"}

TableTypes ==
  /\ row \in [Monitors -> Readings \cup {NoRow}]
  /\ rowEvent \in [Monitors -> [reading : Readings, severity : Severities] \cup {NoEvent}]
  /\ beat \in [Systems -> BeatStatuses \cup {Nothing}]
  /\ beatEvent \in [Systems -> BeatStatuses \cup {Nothing}]
  /\ overlapped \subseteq Systems

FileTypes ==
  /\ cache \in [since : Times, expires : Nat] \cup {NoData}
  /\ backup \in [Days -> {"none", "empty", "complete"}]
  /\ copier \in Viewers \cup {NoThread}

OverviewTypes ==
  /\ vpc \in [Viewers -> ViewerPCs]
  /\ seen \in [Viewers -> [Monitors -> Readings \cup {Unseen, Recorded}]]
  /\ asked \in [Viewers -> Times \cup {NoTime}]
  /\ served \in [Viewers -> Times \cup {NoTime}]
  /\ target \in [Viewers -> Days]
  /\ \A v \in Viewers : vpc[v] \in {"repos", "fetch"} => asked[v] \in Times

HeartbeatTypes ==
  /\ bpc \in [Senders -> {"idle", "write", "event"}]
  /\ bsystem \in [Senders -> Systems \cup {Nothing}]
  /\ bstatus \in [Senders -> BeatStatuses \cup {Nothing}]
  /\ bprevious \in [Senders -> BeatStatuses \cup {Nothing}]
  /\ \A s \in Senders : bpc[s] # "idle" => bsystem[s] \in Systems /\ bstatus[s] \in BeatStatuses

EnvTypes ==
  /\ threads \in Scenarios
  /\ clock \in Times /\ faults \in Nat /\ crashes \in Nat

\* The type invariant: rows, cache, backups and the locals of every thread.
TypeOK == TableTypes /\ FileTypes /\ OverviewTypes /\ HeartbeatTypes /\ EnvTypes

Init ==
  /\ threads \in Scenarios /\ clock = 0
  /\ row = [m \in Monitors |-> NoRow] /\ rowEvent = [m \in Monitors |-> NoEvent]
  /\ beat = [x \in Systems |-> Nothing] /\ beatEvent = [x \in Systems |-> Nothing]
  /\ overlapped = {}
  /\ cache = NoData
  /\ backup = [d \in Days |-> "none"] /\ copier = NoThread
  /\ vpc = [v \in Viewers |-> "idle"]
  /\ seen = [v \in Viewers |-> [m \in Monitors |-> Unseen]]
  /\ asked = [v \in Viewers |-> NoTime] /\ served = [v \in Viewers |-> NoTime]
  /\ target = [v \in Viewers |-> 0]
  /\ bpc = [s \in Senders |-> "idle"] /\ bsystem = [s \in Senders |-> Nothing]
  /\ bstatus = [s \in Senders |-> Nothing] /\ bprevious = [s \in Senders |-> Nothing]
  /\ faults = 0 /\ crashes = 0

\* The store's lock; only a copy holds it for longer than one step.
LockIsFree == copier = NoThread

-----------------------------------------------------------------------------
(* external_statuses: ask every monitor, record what it answered           *)

OverviewBegins(v) ==
  /\ v \in threads /\ vpc[v] = "idle"
  /\ vpc' = [vpc EXCEPT ![v] = "monitors"]
  /\ UNCHANGED <<tables, cache, files, seen, asked, served, target, heartbeat, env>>

FetchMonitor(v, m) ==
  /\ vpc[v] = "monitors" /\ seen[v][m] = Unseen
  /\ \E answer \in MonitorAnswers :
       seen' = [seen EXCEPT ![v][m] =
                  [status |-> MonitorStatus(m \in Critical, answer), reason |-> answer]]
  /\ UNCHANGED <<tables, cache, files, vpc, asked, served, target, heartbeat, env>>

\* The event of record_state: a first row never counts as critical.
StateEvent(old, reading) ==
  [reading |-> reading,
   severity |-> CASE reading.status = "healthy"                -> "info"
                  [] old # NoRow /\ reading.status = "down"    -> "critical"
                  [] OTHER                                     -> "warning"]

\* Mutant of RecordState: only a change of status is reported.
RecordStateOfStatus(v, m) ==
  LET reading == seen[v][m] IN
  /\ vpc[v] = "monitors" /\ reading \in Readings
  /\ LockIsFree
  /\ row' = [row EXCEPT ![m] = reading]
  /\ rowEvent' = IF row[m].status = reading.status THEN rowEvent
                 ELSE [rowEvent EXCEPT ![m] = StateEvent(row[m], reading)]
  /\ seen' = [seen EXCEPT ![v][m] = Recorded]
  /\ UNCHANGED <<beat, beatEvent, overlapped, cache, files, vpc, asked, served, target,
                 heartbeat, env>>

\* record_state: the row and the event of its change in one transaction.
RecordState(v, m) ==
  LET reading == seen[v][m] IN
  /\ vpc[v] = "monitors" /\ reading \in Readings
  /\ LockIsFree
  /\ row' = [row EXCEPT ![m] = reading]
  /\ rowEvent' = IF row[m] = reading THEN rowEvent
                 ELSE [rowEvent EXCEPT ![m] = StateEvent(row[m], reading)]
  /\ seen' = [seen EXCEPT ![v][m] = Recorded]
  /\ UNCHANGED <<beat, beatEvent, overlapped, cache, files, vpc, asked, served, target,
                 heartbeat, env>>

\* All monitors are recorded; the heartbeats are read, which changes nothing.
MonitorsDone(v) ==
  /\ vpc[v] = "monitors" /\ \A m \in Monitors : seen[v][m] = Recorded
  /\ vpc' = [vpc EXCEPT ![v] = "repos"]
  /\ asked' = [asked EXCEPT ![v] = clock]
  /\ seen' = [seen EXCEPT ![v] = [m \in Monitors |-> Unseen]]
  /\ UNCHANGED <<tables, cache, files, served, target, heartbeat, env>>

-----------------------------------------------------------------------------
(* repository_statuses: now_mono is read first, the cache under its lock   *)

\* The repository part of the answer is settled: the model forgets its times.
Forget(v) ==
  /\ asked' = [asked EXCEPT ![v] = NoTime]
  /\ served' = [served EXCEPT ![v] = NoTime]

ServeCached(v) ==
  /\ vpc[v] = "repos" /\ cache # NoData /\ asked[v] < cache.expires
  /\ served' = [served EXCEPT ![v] = cache.since]
  /\ vpc' = [vpc EXCEPT ![v] = "backup"]
  /\ UNCHANGED <<tables, cache, files, seen, asked, target, heartbeat, env>>

CacheMissed(v) ==
  /\ vpc[v] = "repos" /\ (cache = NoData \/ asked[v] >= cache.expires)
  /\ vpc' = [vpc EXCEPT ![v] = "fetch"]
  /\ UNCHANGED <<tables, cache, files, seen, asked, served, target, heartbeat, env>>

\* Mutant of FillCache: the time to live starts when the fetch has ended.
FillCacheLate(v) ==
  /\ vpc[v] = "fetch"
  /\ cache' = [since |-> asked[v], expires |-> clock + CacheSeconds]
  /\ served' = [served EXCEPT ![v] = asked[v]]
  /\ vpc' = [vpc EXCEPT ![v] = "backup"]
  /\ UNCHANGED <<tables, files, seen, asked, target, heartbeat, env>>

\* The fetch takes its time; another overview may fill the cache meanwhile and is
\* overwritten.  What is cached is at least as new as now_mono.
FillCache(v) ==
  /\ vpc[v] = "fetch"
  /\ cache' = [since |-> asked[v], expires |-> asked[v] + CacheSeconds]
  /\ served' = [served EXCEPT ![v] = asked[v]]
  /\ vpc' = [vpc EXCEPT ![v] = "backup"]
  /\ UNCHANGED <<tables, files, seen, asked, target, heartbeat, env>>

\* A fetch raises (a commit without a message, an answer of another shape): the
\* overview ends with the handler's 500 and the cache stays as it was.
FetchRaises(v) ==
  /\ vpc[v] = "fetch" /\ faults < MaxFaults
  /\ faults' = faults + 1
  /\ vpc' = [vpc EXCEPT ![v] = "idle"]
  /\ Forget(v)
  /\ UNCHANGED <<tables, cache, files, seen, target, heartbeat, threads, clock, crashes>>

-----------------------------------------------------------------------------
(* backup_if_needed: the existence test is made without the lock           *)

\* Mutant of BackupCheck: an unfinished file is made at once, under no lock.
BackupCheckTouching(v) ==
  /\ vpc[v] = "backup" /\ Forget(v)
  /\ target' = [target EXCEPT ![v] = Today]
  /\ vpc' = [vpc EXCEPT ![v] = IF backup[Today] = "none" THEN "lock" ELSE "answer"]
  /\ backup' = [backup EXCEPT ![Today] = IF @ = "none" THEN "empty" ELSE @]
  /\ UNCHANGED <<tables, cache, copier, seen, heartbeat, env>>

BackupCheck(v) ==
  /\ vpc[v] = "backup" /\ Forget(v)
  /\ target' = [target EXCEPT ![v] = Today]
  /\ vpc' = [vpc EXCEPT ![v] = IF backup[Today] = "none" THEN "lock" ELSE "answer"]
  /\ UNCHANGED <<tables, cache, files, seen, heartbeat, env>>

\* The destination is opened, which creates it; the copy is one transaction on it.
BackupBegins(v) ==
  /\ vpc[v] = "lock" /\ LockIsFree
  /\ copier' = v
  /\ backup' = [backup EXCEPT ![target[v]] = IF @ = "none" THEN "empty" ELSE @]
  /\ vpc' = [vpc EXCEPT ![v] = "copy"]
  /\ UNCHANGED <<tables, cache, seen, asked, served, target, heartbeat, env>>

BackupEnds(v) ==
  /\ vpc[v] = "copy"
  /\ backup' = [backup EXCEPT ![target[v]] = "complete"]
  /\ copier' = NoThread
  /\ vpc' = [vpc EXCEPT ![v] = "answer"]
  /\ UNCHANGED <<tables, cache, seen, asked, served, target, heartbeat, env>>

\* Mutant of BackupFails: the lock is not given back.
BackupFailsLocked(v) ==
  /\ vpc[v] = "copy" /\ faults < MaxFaults
  /\ faults' = faults + 1
  /\ vpc' = [vpc EXCEPT ![v] = "answer"]
  /\ UNCHANGED <<tables, cache, files, seen, asked, served, target, heartbeat,
                 threads, clock, crashes>>

\* The copy raises: "degraded" is answered and the file stays as it is.
BackupFails(v) ==
  /\ vpc[v] = "copy" /\ faults < MaxFaults
  /\ faults' = faults + 1
  /\ copier' = NoThread
  /\ vpc' = [vpc EXCEPT ![v] = "answer"]
  /\ UNCHANGED <<tables, cache, backup, seen, asked, served, target, heartbeat,
                 threads, clock, crashes>>

OverviewEnds(v) ==
  /\ vpc[v] = "answer"
  /\ vpc' = [vpc EXCEPT ![v] = "idle"]
  /\ target' = [target EXCEPT ![v] = 0]
  /\ UNCHANGED <<tables, cache, files, seen, asked, served, heartbeat, env>>

-----------------------------------------------------------------------------
(* POST /api/heartbeat: three steps, the first of them outside the lock    *)

InFlight(x) == {s \in Senders : bpc[s] # "idle" /\ bsystem[s] = x}

BeatArrives(s, x) ==
  /\ s \in threads /\ bpc[s] = "idle"
  /\ \E status \in BeatStatuses : bstatus' = [bstatus EXCEPT ![s] = status]
  /\ bsystem' = [bsystem EXCEPT ![s] = x]
  /\ bprevious' = [bprevious EXCEPT ![s] = beat[x]]
  /\ overlapped' = IF InFlight(x) = {} THEN overlapped ELSE overlapped \cup {x}
  /\ bpc' = [bpc EXCEPT ![s] = "write"]
  /\ UNCHANGED <<row, rowEvent, beat, beatEvent, cache, files, overview, env>>

BeatEnds(s) ==
  /\ bpc' = [bpc EXCEPT ![s] = "idle"]
  /\ bsystem' = [bsystem EXCEPT ![s] = Nothing]
  /\ bstatus' = [bstatus EXCEPT ![s] = Nothing]
  /\ bprevious' = [bprevious EXCEPT ![s] = Nothing]

\* The UPSERT in a transaction of its own.
BeatWrites(s) ==
  /\ bpc[s] = "write" /\ LockIsFree
  /\ beat' = [beat EXCEPT ![bsystem[s]] = bstatus[s]]
  /\ \/ /\ bprevious[s] # bstatus[s]
        /\ bpc' = [bpc EXCEPT ![s] = "event"]
        /\ UNCHANGED <<bsystem, bstatus, bprevious>>
     \/ bprevious[s] = bstatus[s] /\ BeatEnds(s)
  /\ UNCHANGED <<row, rowEvent, beatEvent, overlapped, cache, files, overview, env>>

\* Mutant of BeatEvent: a system that was never heard of makes no event.
BeatEventChanged(s) ==
  /\ bpc[s] = "event" /\ LockIsFree
  /\ beatEvent' = IF bprevious[s] = Nothing THEN beatEvent
                  ELSE [beatEvent EXCEPT ![bsystem[s]] = bstatus[s]]
  /\ BeatEnds(s)
  /\ UNCHANGED <<row, rowEvent, beat, overlapped, cache, files, overview, env>>

BeatEvent(s) ==
  /\ bpc[s] = "event" /\ LockIsFree
  /\ beatEvent' = [beatEvent EXCEPT ![bsystem[s]] = bstatus[s]]
  /\ BeatEnds(s)
  /\ UNCHANGED <<row, rowEvent, beat, overlapped, cache, files, overview, env>>

-----------------------------------------------------------------------------
(* The environment                                                         *)

Tick ==
  /\ clock < MaxTime
  /\ clock' = clock + 1
  /\ UNCHANGED <<tables, cache, files, overview, heartbeat, threads, faults, crashes>>

\* The process is restarted: rows and files stay, threads and the cache do not.
Crash ==
  /\ crashes < MaxCrashes /\ crashes' = crashes + 1
  /\ cache' = NoData /\ copier' = NoThread
  /\ vpc' = [v \in Viewers |-> "idle"]
  /\ seen' = [v \in Viewers |-> [m \in Monitors |-> Unseen]]
  /\ asked' = [v \in Viewers |-> NoTime] /\ served' = [v \in Viewers |-> NoTime]
  /\ target' = [v \in Viewers |-> 0]
  /\ bpc' = [s \in Senders |-> "idle"] /\ bsystem' = [s \in Senders |-> Nothing]
  /\ bstatus' = [s \in Senders |-> Nothing] /\ bprevious' = [s \in Senders |-> Nothing]
  /\ UNCHANGED <<tables, backup, threads, clock, faults>>

OverviewStep(v) ==
  \/ \E m \in Monitors : FetchMonitor(v, m) \/ RecordState(v, m)
  \/ MonitorsDone(v) \/ ServeCached(v) \/ CacheMissed(v) \/ FillCache(v) \/ FetchRaises(v)
  \/ BackupCheck(v) \/ BackupBegins(v) \/ BackupEnds(v) \/ BackupFails(v)
  \/ OverviewEnds(v)

BeatStep(s) == BeatWrites(s) \/ BeatEvent(s)

Next ==
  \/ \E v \in Viewers : OverviewBegins(v) \/ OverviewStep(v)
  \/ \E s \in Senders : (\E x \in Systems : BeatArrives(s, x)) \/ BeatStep(s)
  \/ Tick \/ Crash

Spec == Init /\ [][Next]_vars

\* Every request has timeouts and a thread of its own, which the scheduler runs.
FairSpec ==
  /\ Spec
  /\ \A v \in Viewers : WF_vars(OverviewStep(v))
  /\ \A s \in Senders : WF_vars(BeatStep(s))

-----------------------------------------------------------------------------
(* Properties                                                              *)

\* The event list explains the table: the latest event of a monitor tells the
\* status and the reason its row has, though overviews overlap and may be killed.
StateIsExplained ==
  \A m \in Monitors : row[m] # NoRow => rowEvent[m].reading = row[m]

\* Repository statuses that an overview answers with were asked for at most
\* GITHUB_CACHE_SECONDS before the overview asked, though a slow fetch may fill
\* the cache after a faster and newer one.
CacheWithinLimit ==
  \A v \in Viewers : served[v] # NoTime => asked[v] <= served[v] + CacheSeconds

\* When the heartbeat row of a system and its latest event disagree, a heartbeat
\* is still at it, two of them overlapped, or one was killed.
BeatsAreExplained ==
  \A x \in Systems :
    beat[x] # beatEvent[x] => InFlight(x) # {} \/ x \in overlapped \/ crashes > 0

\* The day's backup file is whole unless its copy is still running or a copy was
\* cut off; that a file cut off counts as the backup of the day is what the code
\* does.
BackupIsExplained ==
  \A d \in Days :
    backup[d] = "empty" =>
      \/ copier # NoThread /\ target[copier] = d
      \/ crashes > 0 \/ faults > 0

\* Nobody waits for ever: an overview or a heartbeat that has begun ends, though
\* copies fail in the middle and hold the lock that all of them need.
RequestsEnd ==
  /\ \A v \in Viewers : []<>(vpc[v] = "idle")
  /\ \A s \in Senders : []<>(bpc[s] = "idle")
=============================================================================

------------------------------- MODULE Cutover -------------------------------
(***************************************************************************)
(* The move of the service from SQLite to Postgres and back                *)
(* (database_migration.py, the start of app.py) under the client requests  *)
(* that are submitted and copied into HighLevel meanwhile                  *)
(* (sync_client_to_highlevel).                                             *)
(*                                                                         *)
(* A process is a start of the service with one request handler: it works  *)
(* on the database that DATABASE_URL named when it started, and imports    *)
(* the SQLite file when that is Postgres.  Several processes may be up, as *)
(* the advisory lock of the import provides for; two of one mode also      *)
(* stand for two threads of a service.  Modelled are the tables            *)
(* client_requests and crm_syncs; the import treats the others alike.  A   *)
(* client submits once, so that a client names its request whatever its    *)
(* id; a contact in HighLevel is named by its client.                      *)
(***************************************************************************)
EXTENDS Integers, FiniteSets

CONSTANTS
  Procs, Clients,
  NoClient,
  MaxStarts, MaxSwitches,  \* bounds: starts of the service, changes of DATABASE_URL,
  MaxContacts              \* contacts of a client

ASSUME CutoverAssumption ==
  /\ NoClient \notin Clients /\ IsFiniteSet(Clients)
  /\ MaxStarts \in Nat /\ MaxSwitches \in Nat /\ MaxContacts \in Nat

Databases == {"sqlite", "postgres"}
Ids == 1 .. Cardinality(Clients)
NoTable == [id \in Ids |-> NoClient]

VARIABLES
  url,         \* DATABASE_URL is set
  file,        \* the SQLite file exists
  requests,    \* client_requests of each database: the client of each id
  sequence,    \* the last id given for client_requests
  syncs,       \* crm_syncs: for a request id, the contact
  marker,      \* the row of migration_state
  db, pc,      \* of each process: its database, where it is
  job,         \* the request id of the sync it is at
  rows,        \* the requests it has read for the import
  submitted,   \* the clients whose submission was answered
  contacts,    \* HighLevel: how many contacts each client has
  imported,    \* history: ids and clients that SQLite had when the import read it
  occupied,    \* history: ids that Postgres had given before the import
  mixed,       \* history: processes were up on both databases at once
  returned,    \* history: a process started on SQLite after the import
  unsure,      \* history: clients with overlapping or interrupted syncs
  starts, switches

tables == <<file, requests, sequence, syncs, marker>>
process == <<db, pc, job, rows>>
history == <<imported, occupied, mixed, returned, unsure>>
bounds == <<url, starts, switches>>
vars == <<tables, process, submitted, contacts, history, bounds>>

\* The types; a process at a sync has its request.
TypeOK ==
  /\ url \in BOOLEAN /\ file \in BOOLEAN /\ marker \in BOOLEAN
  /\ mixed \in BOOLEAN /\ returned \in BOOLEAN
  /\ requests \in [Databases -> [Ids -> Clients \cup {NoClient}]]
  /\ syncs \in [Databases -> [Ids -> Clients \cup {NoClient}]]
  /\ sequence \in [Databases -> Nat]
  /\ db \in [Procs -> Databases]
  /\ pc \in [Procs -> {"down", "lock", "copy", "idle", "create", "record"}]
  /\ job \in [Procs -> Ids \cup {0}]
  /\ \A p \in Procs : pc[p] \in {"create", "record"} => job[p] \in Ids
  /\ rows \in [Procs -> [Ids -> Clients \cup {NoClient}]]
  /\ submitted \subseteq Clients /\ unsure \subseteq Clients
  /\ contacts \in [Clients -> Nat]
  /\ imported \in [Ids -> Clients \cup {NoClient}] /\ occupied \subseteq Ids
  /\ starts \in Nat /\ switches \in Nat

Init ==
  /\ url \in BOOLEAN /\ file = FALSE
  /\ requests = [d \in Databases |-> NoTable] /\ syncs = [d \in Databases |-> NoTable]
  /\ sequence = [d \in Databases |-> 0] /\ marker = FALSE
  /\ db = [p \in Procs |-> "sqlite"] /\ pc = [p \in Procs |-> "down"]
  /\ job = [p \in Procs |-> 0] /\ rows = [p \in Procs |-> NoTable]
  /\ submitted = {} /\ contacts = [c \in Clients |-> 0]
  /\ imported = NoTable /\ occupied = {} /\ mixed = FALSE /\ returned = FALSE
  /\ unsure = {}
  /\ starts = 0 /\ switches = 0

-----------------------------------------------------------------------------
(* Starting, and the import                                                *)

SwitchUrl ==
  /\ switches < MaxSwitches /\ switches' = switches + 1
  /\ url' = ~url
  /\ UNCHANGED <<tables, process, submitted, contacts, history, starts>>

\* Opening the store creates the SQLite file; Postgres imports a file that is there.
Start(p) ==
  /\ pc[p] = "down" /\ starts < MaxStarts
  /\ starts' = starts + 1
  /\ db' = [db EXCEPT ![p] = IF url THEN "postgres" ELSE "sqlite"]
  /\ file' = (file \/ ~url)
  /\ pc' = [pc EXCEPT ![p] = IF url /\ file THEN "lock" ELSE "idle"]
  /\ mixed' = (mixed \/ \E q \in Procs : pc[q] # "down" /\ db[q] # db'[p])
  /\ returned' = (returned \/ (~url /\ marker))
  /\ UNCHANGED <<requests, sequence, syncs, marker, job, rows, submitted, contacts,
                 imported, occupied, unsure, url, switches>>

\* Mutant of ImportReads: the marker is not asked for.
ImportReadsAgain(p) ==
  /\ pc[p] = "lock" /\ \A q \in Procs : pc[q] # "copy"
  /\ rows' = [rows EXCEPT ![p] = requests["sqlite"]]
  /\ pc' = [pc EXCEPT ![p] = "copy"]
  /\ UNCHANGED <<tables, db, job, submitted, contacts, history, bounds>>

\* Mutant of ImportReads: the marker is set before the rows are copied.
ImportReadsMarking(p) ==
  /\ pc[p] = "lock" /\ \A q \in Procs : pc[q] # "copy"
  /\ \/ marker /\ pc' = [pc EXCEPT ![p] = "idle"] /\ UNCHANGED <<rows, marker>>
     \/ /\ ~marker /\ marker' = TRUE
        /\ rows' = [rows EXCEPT ![p] = requests["sqlite"]]
        /\ pc' = [pc EXCEPT ![p] = "copy"]
  /\ UNCHANGED <<file, requests, sequence, syncs, db, job, submitted, contacts, history, bounds>>

\* The advisory lock is held until the transaction ends.  Every table is read with
\* a SELECT of its own, client_requests before crm_syncs.
ImportReads(p) ==
  /\ pc[p] = "lock" /\ \A q \in Procs : pc[q] # "copy"
  /\ \/ marker /\ pc' = [pc EXCEPT ![p] = "idle"] /\ UNCHANGED rows
     \/ /\ ~marker
        /\ rows' = [rows EXCEPT ![p] = requests["sqlite"]]
        /\ pc' = [pc EXCEPT ![p] = "copy"]
  /\ UNCHANGED <<tables, db, job, submitted, contacts, history, bounds>>

\* INSERT ... ON CONFLICT DO NOTHING.
Insert(table, new) == [id \in Ids |-> IF table[id] = NoClient THEN new[id] ELSE table[id]]

Used(table) == {id \in Ids : table[id] # NoClient}
MaxId(table) == CHOOSE n \in Used(table) : \A id \in Used(table) : id <= n

\* Mutant of SetVal: the sequence is left where it was.
SetValNever(table, new) == sequence["postgres"]

\* The sequence is moved to the greatest id, if there was anything to copy.
SetVal(table, new) ==
  IF Used(new) = {} THEN sequence["postgres"] ELSE MaxId(Insert(table, new))

\* The commit of rows, sequence and marker.  crm_syncs has ids of its own: where
\* Postgres had syncs already, an imported one may meet the id of another and be
\* left out.
ImportCommits(p) ==
  /\ pc[p] = "copy"
  /\ requests' = [requests EXCEPT !["postgres"] = Insert(@, rows[p])]
  /\ sequence' = [sequence EXCEPT !["postgres"] = SetVal(requests["postgres"], rows[p])]
  /\ \E left \in SUBSET Used(syncs["sqlite"]) :
       /\ left # {} => Used(syncs["postgres"]) # {}
       /\ syncs' = [syncs EXCEPT !["postgres"] =
                      Insert(@, [id \in Ids |-> IF id \in left THEN NoClient
                                                ELSE syncs["sqlite"][id]])]
  /\ marker' = TRUE
  /\ imported' = rows[p]
  /\ occupied' = IF marker THEN occupied ELSE Used(requests["postgres"])
  /\ pc' = [pc EXCEPT ![p] = "idle"] /\ rows' = [rows EXCEPT ![p] = NoTable]
  /\ UNCHANGED <<file, db, job, submitted, contacts, mixed, returned, unsure, bounds>>

\* A stop or a crash; the transaction of an import is rolled back.
Stop(p) ==
  /\ pc[p] # "down"
  /\ pc' = [pc EXCEPT ![p] = "down"]
  /\ rows' = [rows EXCEPT ![p] = NoTable] /\ job' = [job EXCEPT ![p] = 0]
  /\ unsure' = IF pc[p] = "record" THEN unsure \cup {requests[db[p]][job[p]]} ELSE unsure
  /\ UNCHANGED <<tables, db, submitted, contacts, imported, occupied, mixed, returned, bounds>>

-----------------------------------------------------------------------------
(* Requests of clients                                                     *)

\* POST /hire: AUTOINCREMENT or nextval gives the id; an id that is taken raises.
Submit(p, c) ==
  LET d == db[p]
      id == sequence[d] + 1
  IN
  /\ pc[p] = "idle" /\ c \notin submitted /\ id \in Ids
  /\ submitted' = submitted \cup {c}
  /\ sequence' = [sequence EXCEPT ![d] = id]
  /\ requests' = IF requests[d][id] = NoClient THEN [requests EXCEPT ![d][id] = c]
                 ELSE requests
  /\ UNCHANGED <<file, syncs, marker, process, contacts, history, bounds>>

\* Mutant of SyncRead: crm_syncs is not read.
SyncReadAlways(p, id) ==
  LET client == requests[db[p]][id] IN
  /\ pc[p] = "idle" /\ client # NoClient
  /\ pc' = [pc EXCEPT ![p] = "create"] /\ job' = [job EXCEPT ![p] = id]
  /\ UNCHANGED <<tables, db, rows, submitted, contacts, history, bounds>>

\* sync_client_to_highlevel up to the call; a recorded sync ends the request.
SyncRead(p, id) ==
  LET client == requests[db[p]][id] IN
  /\ pc[p] = "idle" /\ client # NoClient /\ syncs[db[p]][id] = NoClient
  /\ pc' = [pc EXCEPT ![p] = "create"] /\ job' = [job EXCEPT ![p] = id]
  /\ unsure' = IF \E q \in Procs : pc[q] \in {"create", "record"} /\ requests[db[q]][job[q]] = client
               THEN unsure \cup {client} ELSE unsure
  /\ UNCHANGED <<tables, db, rows, submitted, contacts, imported, occupied, mixed, returned, bounds>>

\* create_highlevel_contact: a new contact for every call that is accepted.
SyncCreates(p) ==
  LET client == requests[db[p]][job[p]] IN
  /\ pc[p] = "create" /\ contacts[client] < MaxContacts
  /\ contacts' = [contacts EXCEPT ![client] = @ + 1]
  /\ pc' = [pc EXCEPT ![p] = "record"]
  /\ UNCHANGED <<tables, db, job, rows, submitted, history, bounds>>

\* HighLevel refuses, or its answer is lost after it created the contact.
SyncFails(p) ==
  LET client == requests[db[p]][job[p]] IN
  /\ pc[p] = "create"
  /\ \/ UNCHANGED <<contacts, unsure>>
     \/ /\ contacts[client] < MaxContacts
        /\ contacts' = [contacts EXCEPT ![client] = @ + 1]
        /\ unsure' = unsure \cup {client}
  /\ pc' = [pc EXCEPT ![p] = "idle"] /\ job' = [job EXCEPT ![p] = 0]
  /\ UNCHANGED <<tables, db, rows, submitted, imported, occupied, mixed, returned, bounds>>

\* record_crm_sync
SyncRecords(p) ==
  /\ pc[p] = "record"
  /\ syncs' = [syncs EXCEPT ![db[p]][job[p]] = requests[db[p]][job[p]]]
  /\ pc' = [pc EXCEPT ![p] = "idle"] /\ job' = [job EXCEPT ![p] = 0]
  /\ UNCHANGED <<file, requests, sequence, marker, db, rows, submitted, contacts, history, bounds>>

Next ==
  \/ SwitchUrl
  \/ \E p \in Procs :
       \/ Start(p) \/ ImportReads(p) \/ ImportCommits(p) \/ Stop(p)
       \/ SyncCreates(p) \/ SyncFails(p) \/ SyncRecords(p)
       \/ \E c \in Clients : Submit(p, c)
       \/ \E id \in Ids : SyncRead(p, id)

Spec == Init /\ [][Next]_vars

-----------------------------------------------------------------------------
(* Properties                                                              *)

\* The next id of a database is not taken, so no client's submission is lost to
\* an id that the import brought.
IdsAreFresh == \A d \in Databases : \A id \in Used(requests[d]) : id <= sequence[d]

\* "One-time, idempotent migration": when the marker is there, every request that
\* the import read is in Postgres under its id, except where Postgres had given
\* the id before; without the marker the import has left nothing.
ImportIsWhole ==
  /\ marker => \A id \in Used(imported) :
       requests["postgres"][id] = imported[id] \/ id \in occupied
  /\ marker => \A id \in Used(requests["sqlite"]) : imported[id] # NoClient \/ mixed \/ returned
  /\ ~marker => Used(imported) = {}

\* A recorded contact is that of the request's own client, though ids are given
\* by two databases, unless the import met ids that Postgres had given or both
\* databases were in use.
RightClient ==
  \A d \in Databases : \A id \in Used(requests[d]) \cap Used(syncs[d]) :
    syncs[d][id] = requests[d][id] \/ id \in occupied \/ mixed

\* README.md: a client is copied "into the configured CRM once": a client with
\* two contacts had overlapping or interrupted syncs, or both databases were in use.
ContactIsOnce ==
  \A c \in Clients : contacts[c] <= 1 \/ c \in unsure \/ mixed \/ returned \/ occupied # {}
=============================================================================

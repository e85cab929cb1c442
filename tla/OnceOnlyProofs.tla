--------------------------- MODULE OnceOnlyProofs ---------------------------
(***************************************************************************)
(* Proofs about what the service does once: Cutover, for any number of     *)
(* processes, clients, starts and changes of the database, and KeySetup,   *)
(* for any number of submissions and crashes.                              *)
(***************************************************************************)
EXTENDS Cutover, KeySetup, FiniteSetTheorems, WellFoundedInduction, TLAPS

-----------------------------------------------------------------------------
(* The greatest id.                                                        *)

\* A set of ids that is not empty has a greatest one: the least of its bounds.
LEMMA GreatestExists ==
  ASSUME NEW n \in Nat, NEW S \in SUBSET (1 .. n), S # {}
  PROVE  \E m \in S : \A k \in S : k <= m
<1> DEFINE T == {u \in Nat : \A k \in S : k <= u}
<1>1. n \in T /\ T \subseteq Nat
  OBVIOUS
<1>2. PICK x \in T : \A y \in T : ~ (<<y, x>> \in OpToRel(<, Nat))
  BY <1>1, NatLessThanWellFounded, WFMin
<1>3. \A y \in T : ~ (y < x)
  BY <1>1, <1>2 DEF OpToRel
<1>4. x \in S
  <2> SUFFICES ASSUME x \notin S PROVE FALSE
    OBVIOUS
  <2>1. x \in Nat /\ \A k \in S : k \in Nat /\ k >= 1 /\ k < x
    OBVIOUS
  <2>2. PICK low : low \in S
    OBVIOUS
  <2>3. x - 1 \in Nat
    BY <2>1, <2>2
  <2>4. \A k \in S : k <= x - 1
    BY <2>1
  <2>5. x - 1 \in T
    BY <2>3, <2>4
  <2> QED
    BY <1>3, <2>1, <2>5
<1> QED
  BY <1>4

\* MaxId chooses it.
LEMMA MaxIdBounds ==
  ASSUME NEW table \in [Ids -> Clients \cup {NoClient}], Used(table) # {}
  PROVE  MaxId(table) \in Ids /\ \A id \in Used(table) : id <= MaxId(table)
<1>1. Cardinality(Clients) \in Nat
  BY CutoverAssumption, FS_CardinalityType
<1>2. Used(table) \in SUBSET Ids
  BY DEF Used
<1>3. \E m \in Used(table) : \A k \in Used(table) : k <= m
  BY <1>1, <1>2, GreatestExists DEF Ids
<1> QED
  BY <1>2, <1>3 DEF MaxId

-----------------------------------------------------------------------------
(* What the steps that write the tables do, id by id.                      *)

\* The client whose request a sync is about.
At(p) == requests[db[p]][job[p]]

\* A sync is about a request that is there; the import runs on Postgres only, in
\* one process at a time and before the marker is there.
ProcInv ==
  /\ \A p \in Procs : pc[p] \in {"create", "record"} => At(p) \in Clients
  /\ \A p \in Procs : pc[p] \in {"lock", "copy"} => db[p] = "postgres"
  /\ \A p \in Procs : pc[p] = "copy" => ~marker
  /\ \A p, q \in Procs : pc[p] = "copy" /\ pc[q] = "copy" => p = q

\* The commit of an import, table by table: rows that Postgres had stay.
LEMMA ImportEffect ==
  ASSUME TypeOK, NEW p \in Procs, ImportCommits(p)
  PROVE  /\ requests' \in [Databases -> [Ids -> Clients \cup {NoClient}]]
         /\ requests'["sqlite"] = requests["sqlite"]
         /\ requests'["postgres"] = Insert(requests["postgres"], rows[p])
         /\ syncs' \in [Databases -> [Ids -> Clients \cup {NoClient}]]
         /\ syncs'["sqlite"] = syncs["sqlite"]
         /\ \E left \in SUBSET Used(syncs["sqlite"]) :
              /\ left # {} => Used(syncs["postgres"]) # {}
              /\ \A id \in Ids : syncs'["postgres"][id] =
                   IF syncs["postgres"][id] # NoClient THEN syncs["postgres"][id]
                   ELSE IF id \in left THEN NoClient ELSE syncs["sqlite"][id]
<1>1. /\ requests \in [Databases -> [Ids -> Clients \cup {NoClient}]]
      /\ syncs \in [Databases -> [Ids -> Clients \cup {NoClient}]]
      /\ rows[p] \in [Ids -> Clients \cup {NoClient}]
  BY DEF TypeOK
<1>2. \A old, new \in [Ids -> Clients \cup {NoClient}] :
        Insert(old, new) \in [Ids -> Clients \cup {NoClient}]
  BY DEF Insert
<1>3. requests' = [requests EXCEPT !["postgres"] = Insert(requests["postgres"], rows[p])]
  BY DEF ImportCommits
<1>4. PICK left \in SUBSET Used(syncs["sqlite"]) :
        /\ left # {} => Used(syncs["postgres"]) # {}
        /\ syncs' = [syncs EXCEPT !["postgres"] =
                       Insert(syncs["postgres"],
                              [id \in Ids |-> IF id \in left THEN NoClient
                                              ELSE syncs["sqlite"][id]])]
  BY DEF ImportCommits
<1> DEFINE brought == [id \in Ids |-> IF id \in left THEN NoClient ELSE syncs["sqlite"][id]]
<1>5. brought \in [Ids -> Clients \cup {NoClient}]
  BY <1>1 DEF Databases
<1>6. "postgres" \in Databases /\ "sqlite" \in Databases
  BY DEF Databases
<1>7. syncs'["postgres"] = Insert(syncs["postgres"], brought)
  BY <1>1, <1>4, <1>6
<1>8. \A id \in Ids : syncs'["postgres"][id] =
         IF syncs["postgres"][id] # NoClient THEN syncs["postgres"][id]
         ELSE IF id \in left THEN NoClient ELSE syncs["sqlite"][id]
  BY <1>7 DEF Insert
<1> HIDE DEF brought
<1>9. /\ requests' \in [Databases -> [Ids -> Clients \cup {NoClient}]]
      /\ requests'["sqlite"] = requests["sqlite"]
      /\ requests'["postgres"] = Insert(requests["postgres"], rows[p])
  <2>1. Insert(requests["postgres"], rows[p]) \in [Ids -> Clients \cup {NoClient}]
    BY <1>1, <1>2, <1>6
  <2> QED
    BY <1>1, <1>3, <1>6, <2>1
<1>10. /\ syncs' \in [Databases -> [Ids -> Clients \cup {NoClient}]]
       /\ syncs'["sqlite"] = syncs["sqlite"]
  <2>1. Insert(syncs["postgres"], brought) \in [Ids -> Clients \cup {NoClient}]
    BY <1>1, <1>2, <1>5, <1>6
  <2>2. syncs' = [syncs EXCEPT !["postgres"] = Insert(syncs["postgres"], brought)]
    BY <1>4 DEF brought
  <2> QED
    BY <1>1, <1>6, <2>1, <2>2
<1> QED
  BY <1>4, <1>8, <1>9, <1>10

\* A submission adds a row under the next id, or none if the id is taken.
LEMMA SubmitEffect ==
  ASSUME TypeOK, NEW p \in Procs, NEW c \in Clients, Submit(p, c)
  PROVE  /\ requests' \in [Databases -> [Ids -> Clients \cup {NoClient}]]
         /\ sequence[db[p]] + 1 \in Ids
         /\ sequence' \in [Databases -> Nat]
         /\ sequence'[db[p]] = sequence[db[p]] + 1
         /\ \A d \in Databases : d # db[p] => sequence'[d] = sequence[d]
         /\ \A d \in Databases, id \in Ids :
              \/ requests'[d][id] = requests[d][id]
              \/ /\ d = db[p] /\ id = sequence[d] + 1
                 /\ requests[d][id] = NoClient /\ requests'[d][id] = c
<1>1. /\ requests \in [Databases -> [Ids -> Clients \cup {NoClient}]]
      /\ sequence \in [Databases -> Nat] /\ db[p] \in Databases
  BY DEF TypeOK
<1>2. sequence[db[p]] + 1 \in Ids
  BY DEF Submit
<1>3. /\ sequence' = [sequence EXCEPT ![db[p]] = sequence[db[p]] + 1]
      /\ \/ requests' = requests
         \/ /\ requests[db[p]][sequence[db[p]] + 1] = NoClient
            /\ requests' = [requests EXCEPT ![db[p]][sequence[db[p]] + 1] = c]
  BY DEF Submit
<1>4. requests' \in [Databases -> [Ids -> Clients \cup {NoClient}]]
  BY <1>1, <1>2, <1>3
<1>5. \A d \in Databases, id \in Ids :
        \/ requests'[d][id] = requests[d][id]
        \/ /\ d = db[p] /\ id = sequence[d] + 1
           /\ requests[d][id] = NoClient /\ requests'[d][id] = c
  BY <1>1, <1>2, <1>3
<1>6. /\ sequence' \in [Databases -> Nat]
      /\ sequence'[db[p]] = sequence[db[p]] + 1
      /\ \A d \in Databases : d # db[p] => sequence'[d] = sequence[d]
  BY <1>1, <1>3
<1> QED
  BY <1>2, <1>4, <1>5, <1>6

\* A request keeps its client for ever.
LEMMA RequestsStay ==
  ASSUME TypeOK, [Next]_vars
  PROVE  \A d \in Databases, id \in Ids :
           requests[d][id] # NoClient => requests'[d][id] = requests[d][id]
<1>1. ASSUME NEW p \in Procs, ImportCommits(p)
      PROVE  \A d \in Databases, id \in Ids :
               requests[d][id] # NoClient => requests'[d][id] = requests[d][id]
  <2>1. /\ requests'["sqlite"] = requests["sqlite"]
        /\ requests'["postgres"] = Insert(requests["postgres"], rows[p])
    BY <1>1, ImportEffect
  <2> QED
    BY <2>1 DEF Insert, Databases
<1>2. ASSUME NEW p \in Procs, NEW c \in Clients, Submit(p, c)
      PROVE  \A d \in Databases, id \in Ids :
               requests[d][id] # NoClient => requests'[d][id] = requests[d][id]
  BY <1>2, SubmitEffect
<1>3. CASE requests' = requests
  BY <1>3
<1>4. CASE \A p \in Procs : ~ImportCommits(p) /\ \A c \in Clients : ~Submit(p, c)
  <2>1. requests' = requests
    BY <1>4 DEF Next, SwitchUrl, Start, ImportReads, Stop, SyncRead, SyncCreates,
         SyncFails, SyncRecords, tables, vars
  <2> QED
    BY <1>3, <2>1
<1> QED
  BY <1>1, <1>2, <1>4

-----------------------------------------------------------------------------
(* Types.                                                                  *)

\* Ids are natural numbers.
LEMMA IdsAreNat == Ids \subseteq Nat
BY CutoverAssumption, FS_CardinalityType DEF Ids

\* Starting, importing and stopping.
LEMMA ServiceStepTypes ==
  ASSUME TypeOK, ProcInv, NEW p \in Procs,
         SwitchUrl \/ Start(p) \/ ImportReads(p) \/ ImportCommits(p) \/ Stop(p)
  PROVE  TypeOK'
<1>1. CASE SwitchUrl
  BY <1>1 DEF SwitchUrl, TypeOK, tables, process, history
<1>2. CASE Start(p)
  BY <1>2 DEF Start, TypeOK, Databases
<1>3. CASE ImportReads(p)
  <2>1. requests["sqlite"] \in [Ids -> Clients \cup {NoClient}]
    BY DEF TypeOK, Databases
  <2> QED
    BY <1>3, <2>1 DEF ImportReads, TypeOK, tables, history, bounds
<1>4. CASE ImportCommits(p)
  <2>1. rows[p] \in [Ids -> Clients \cup {NoClient}]
    BY DEF TypeOK
  <2>2. /\ requests' \in [Databases -> [Ids -> Clients \cup {NoClient}]]
        /\ syncs' \in [Databases -> [Ids -> Clients \cup {NoClient}]]
    BY <1>4, ImportEffect
  <2>3. SetVal(requests["postgres"], rows[p]) \in Nat
    <3>1. sequence["postgres"] \in Nat
      BY DEF TypeOK, Databases
    <3>2. ASSUME Used(rows[p]) # {}
          PROVE  MaxId(Insert(requests["postgres"], rows[p])) \in Nat
      <4>1. /\ Insert(requests["postgres"], rows[p]) \in [Ids -> Clients \cup {NoClient}]
            /\ Used(Insert(requests["postgres"], rows[p])) # {}
        BY <2>1, <3>2 DEF Insert, Used, TypeOK, Databases
      <4> QED
        BY <4>1, MaxIdBounds, IdsAreNat
    <3> QED
      BY <3>1, <3>2 DEF SetVal
  <2>4. sequence' \in [Databases -> Nat]
    BY <1>4, <2>3 DEF ImportCommits, TypeOK
  <2>5. imported' \in [Ids -> Clients \cup {NoClient}] /\ occupied' \subseteq Ids
    BY <1>4, <2>1 DEF ImportCommits, TypeOK, Used
  <2>6. NoTable \in [Ids -> Clients \cup {NoClient}]
    BY DEF NoTable
  <2>7. /\ pc' \in [Procs -> {"down", "lock", "copy", "idle", "create", "record"}]
        /\ rows' \in [Procs -> [Ids -> Clients \cup {NoClient}]]
        /\ \A q \in Procs : pc'[q] \in {"create", "record"} => job[q] \in Ids
    BY <1>4, <2>6 DEF ImportCommits, TypeOK
  <2> QED
    BY <1>4, <2>2, <2>4, <2>5, <2>7 DEF ImportCommits, TypeOK, bounds
<1>5. CASE Stop(p)
  <2>1. NoTable \in [Ids -> Clients \cup {NoClient}]
    BY DEF NoTable
  <2>2. unsure' \subseteq Clients
    BY <1>5 DEF Stop, TypeOK, ProcInv, At
  <2> QED
    BY <1>5, <2>1, <2>2 DEF Stop, TypeOK, tables, bounds
<1> QED
  BY <1>1, <1>2, <1>3, <1>4, <1>5

\* Submissions and syncs.
LEMMA ClientStepTypes ==
  ASSUME TypeOK, ProcInv, NEW p \in Procs,
         \/ SyncCreates(p) \/ SyncFails(p) \/ SyncRecords(p)
         \/ \E c \in Clients : Submit(p, c)
         \/ \E id \in Ids : SyncRead(p, id)
  PROVE  TypeOK'
<1>1. ASSUME NEW c \in Clients, Submit(p, c) PROVE TypeOK'
  BY <1>1, SubmitEffect DEF Submit, TypeOK, process, history, bounds
<1>2. ASSUME NEW id \in Ids, SyncRead(p, id) PROVE TypeOK'
  <2>1. requests[db[p]][id] \in Clients
    BY <1>2 DEF SyncRead, TypeOK
  <2> QED
    BY <1>2, <2>1 DEF SyncRead, TypeOK, tables, bounds
<1>3. CASE SyncCreates(p)
  <2>1. contacts' = [contacts EXCEPT ![At(p)] = contacts[At(p)] + 1] /\ At(p) \in Clients
    BY <1>3 DEF SyncCreates, ProcInv, At
  <2>2. contacts' \in [Clients -> Nat]
    BY <2>1 DEF TypeOK
  <2>3. pc[p] = "create" /\ pc' = [pc EXCEPT ![p] = "record"]
    BY <1>3 DEF SyncCreates
  <2> QED
    BY <1>3, <2>2, <2>3 DEF SyncCreates, TypeOK, tables, history, bounds
<1>4. CASE SyncFails(p)
  <2>1. At(p) \in Clients
    BY <1>4 DEF SyncFails, ProcInv
  <2>2. /\ contacts' = contacts \/ contacts' = [contacts EXCEPT ![At(p)] = contacts[At(p)] + 1]
        /\ unsure' = unsure \/ unsure' = unsure \cup {At(p)}
    BY <1>4 DEF SyncFails, At
  <2>3. contacts' \in [Clients -> Nat]
    <3>1. contacts \in [Clients -> Nat] /\ contacts[At(p)] + 1 \in Nat
      BY <2>1 DEF TypeOK
    <3>2. [contacts EXCEPT ![At(p)] = contacts[At(p)] + 1] \in [Clients -> Nat]
      BY <2>1, <3>1
    <3> QED
      BY <2>2, <3>1, <3>2
  <2>4. unsure' \subseteq Clients
    BY <2>1, <2>2 DEF TypeOK
  <2> QED
    BY <1>4, <2>3, <2>4 DEF SyncFails, TypeOK, tables, bounds
<1>5. CASE SyncRecords(p)
  <2>1. requests[db[p]][job[p]] \in Clients \cup {NoClient}
    BY <1>5 DEF SyncRecords, ProcInv, At
  <2>2. syncs' \in [Databases -> [Ids -> Clients \cup {NoClient}]]
    BY <1>5, <2>1 DEF SyncRecords, TypeOK
  <2> QED
    BY <1>5, <2>2 DEF SyncRecords, TypeOK, history, bounds
<1> QED
  BY <1>1, <1>2, <1>3, <1>4, <1>5

\* Every step keeps the types.
LEMMA TypeStep == TypeOK /\ ProcInv /\ [Next]_vars => TypeOK'
<1> SUFFICES ASSUME TypeOK, ProcInv, [Next]_vars PROVE TypeOK'
  OBVIOUS
<1>1. CASE UNCHANGED vars
  BY <1>1 DEF vars, tables, process, history, bounds, TypeOK
<1>2. CASE SwitchUrl
  BY <1>2 DEF SwitchUrl, TypeOK, tables, process, history
<1> QED
  BY <1>1, <1>2, ServiceStepTypes, ClientStepTypes DEF Next

-----------------------------------------------------------------------------
(* Processes.                                                              *)

\* Two databases are in use at once only after both histories noticed it.
UpInv ==
  /\ \A p, q \in Procs : pc[p] # "down" /\ pc[q] # "down" /\ db[p] # db[q] => mixed
  /\ \A q \in Procs : marker /\ pc[q] # "down" /\ db[q] = "sqlite" => mixed \/ returned

\* Every step keeps it: requests keep their clients, and the lock admits one import.
LEMMA ProcStep == TypeOK /\ ProcInv /\ [Next]_vars => ProcInv'
<1> SUFFICES ASSUME TypeOK, ProcInv, [Next]_vars PROVE ProcInv'
  OBVIOUS
<1>1. /\ db \in [Procs -> Databases]
      /\ pc \in [Procs -> {"down", "lock", "copy", "idle", "create", "record"}]
      /\ job \in [Procs -> Ids \cup {0}]
      /\ \A p \in Procs : pc[p] \in {"create", "record"} => job[p] \in Ids
      /\ NoClient \notin Clients
  BY CutoverAssumption DEF TypeOK
<1>2. \A q \in Procs : /\ pc[q] \in {"create", "record"} /\ db'[q] = db[q] /\ job'[q] = job[q]
                        => At(q)' \in Clients
  BY <1>1, RequestsStay DEF ProcInv, At
<1>3. ASSUME NEW p \in Procs, Start(p) PROVE ProcInv'
  <2>1. /\ pc'[p] \in {"lock", "idle"} /\ (pc'[p] = "lock" => db'[p] = "postgres")
        /\ \A q \in Procs : q # p => pc'[q] = pc[q] /\ db'[q] = db[q]
        /\ job' = job /\ marker' = marker
    BY <1>1, <1>3 DEF Start
  <2> QED
    BY <1>1, <1>2, <2>1 DEF ProcInv
<1>4. ASSUME NEW p \in Procs, ImportReads(p) PROVE ProcInv'
  <2>1. /\ pc[p] = "lock" /\ pc'[p] \in {"copy", "idle"} /\ (pc'[p] = "copy" => ~marker)
        /\ \A q \in Procs : pc[q] # "copy"
        /\ \A q \in Procs : q # p => pc'[q] = pc[q]
        /\ db' = db /\ job' = job /\ marker' = marker
    BY <1>1, <1>4 DEF ImportReads, tables
  <2> QED
    BY <1>1, <1>2, <2>1 DEF ProcInv
<1>5. ASSUME NEW p \in Procs, ImportCommits(p) PROVE ProcInv'
  <2>1. /\ pc[p] = "copy" /\ pc'[p] = "idle"
        /\ \A q \in Procs : q # p => pc'[q] = pc[q]
        /\ db' = db /\ job' = job
    BY <1>1, <1>5 DEF ImportCommits
  <2> QED
    BY <1>1, <1>2, <2>1 DEF ProcInv
<1>6. ASSUME NEW p \in Procs, Stop(p) \/ SyncFails(p) \/ SyncRecords(p) PROVE ProcInv'
  <2>1. /\ pc'[p] \in {"down", "idle"}
        /\ \A q \in Procs : q # p => pc'[q] = pc[q] /\ job'[q] = job[q]
        /\ db' = db /\ marker' = marker
    BY <1>1, <1>6 DEF Stop, SyncFails, SyncRecords, tables
  <2> QED
    BY <1>1, <1>2, <2>1 DEF ProcInv
<1>7. ASSUME NEW p \in Procs, NEW id \in Ids, SyncRead(p, id) PROVE ProcInv'
  <2>1. /\ pc'[p] = "create" /\ job'[p] = id /\ requests' = requests
        /\ requests[db[p]][id] # NoClient
        /\ \A q \in Procs : q # p => pc'[q] = pc[q] /\ job'[q] = job[q]
        /\ db' = db /\ marker' = marker
    BY <1>1, <1>7 DEF SyncRead, tables
  <2>2. At(p)' \in Clients
    BY <1>1, <2>1 DEF At, TypeOK
  <2> QED
    BY <1>1, <1>2, <2>1, <2>2 DEF ProcInv
<1>8. ASSUME NEW p \in Procs, SyncCreates(p) PROVE ProcInv'
  <2>1. /\ pc[p] = "create" /\ pc'[p] = "record"
        /\ \A q \in Procs : q # p => pc'[q] = pc[q]
        /\ db' = db /\ job' = job /\ marker' = marker
    BY <1>1, <1>8 DEF SyncCreates, tables
  <2> QED
    BY <1>1, <1>2, <2>1 DEF ProcInv
<1>9. CASE UNCHANGED <<pc, db, job, marker>>
  BY <1>1, <1>2, <1>9 DEF ProcInv
<1>10. CASE SwitchUrl \/ UNCHANGED vars \/ \E p \in Procs, c \in Clients : Submit(p, c)
  BY <1>9, <1>10 DEF SwitchUrl, Submit, vars, tables, process
<1> QED
  BY <1>3, <1>4, <1>5, <1>6, <1>7, <1>8, <1>10 DEF Next

\* A process learns its database when it starts, and the start notes what it meets.
LEMMA UpStep == TypeOK /\ ProcInv /\ UpInv /\ [Next]_vars => UpInv'
<1> SUFFICES ASSUME TypeOK, ProcInv, UpInv, [Next]_vars PROVE UpInv'
  OBVIOUS
<1>1. /\ db \in [Procs -> Databases]
      /\ pc \in [Procs -> {"down", "lock", "copy", "idle", "create", "record"}]
      /\ mixed \in BOOLEAN /\ returned \in BOOLEAN /\ marker \in BOOLEAN
  BY DEF TypeOK
<1>2. ASSUME NEW p \in Procs, Start(p) PROVE UpInv'
  <2>1. /\ \A q \in Procs : q # p => pc'[q] = pc[q] /\ db'[q] = db[q]
        /\ marker' = marker
        /\ pc[p] = "down"
        /\ db'[p] = "sqlite" => ~url
        /\ mixed' = (mixed \/ \E q \in Procs : pc[q] # "down" /\ db[q] # db'[p])
        /\ returned' = (returned \/ (~url /\ marker))
    BY <1>1, <1>2 DEF Start
  <2>2. ASSUME NEW q \in Procs, NEW r \in Procs,
               pc'[q] # "down", pc'[r] # "down", db'[q] # db'[r]
        PROVE  mixed'
    BY <1>1, <2>1, <2>2 DEF UpInv
  <2>3. ASSUME NEW q \in Procs, marker', pc'[q] # "down", db'[q] = "sqlite"
        PROVE  mixed' \/ returned'
    BY <1>1, <2>1, <2>3 DEF UpInv
  <2> QED
    BY <2>2, <2>3 DEF UpInv
<1>3. ASSUME NEW p \in Procs, ImportCommits(p) PROVE UpInv'
  <2>1. /\ pc[p] = "copy" /\ db[p] = "postgres" /\ db' = db /\ mixed' = mixed
        /\ \A q \in Procs : pc'[q] # "down" => pc[q] # "down"
    BY <1>1, <1>3 DEF ImportCommits, ProcInv
  <2>2. \A q \in Procs : pc[q] # "down" /\ db[q] = "sqlite" => mixed
    BY <2>1 DEF UpInv
  <2> QED
    BY <2>1, <2>2 DEF UpInv
<1>4. CASE /\ UNCHANGED <<db, marker, mixed, returned>>
           /\ \A q \in Procs : pc'[q] # "down" => pc[q] # "down"
  BY <1>4 DEF UpInv
<1>5. ASSUME NEW p \in Procs,
             \/ ImportReads(p) \/ Stop(p) \/ SyncCreates(p) \/ SyncFails(p) \/ SyncRecords(p)
             \/ \E c \in Clients : Submit(p, c)
             \/ \E id \in Ids : SyncRead(p, id)
      PROVE  UpInv'
  BY <1>1, <1>4, <1>5 DEF ImportReads, Stop, SyncCreates, SyncFails, SyncRecords, Submit,
       SyncRead, tables, process, history
<1>6. CASE SwitchUrl \/ UNCHANGED vars
  BY <1>4, <1>6 DEF SwitchUrl, vars, tables, process, history
<1> QED
  BY <1>2, <1>3, <1>5, <1>6 DEF Next

-----------------------------------------------------------------------------
(* Ids.                                                                    *)

\* setval moves the sequence to the greatest id of both databases, or there was
\* nothing to move it for.
LEMMA FreshStep == TypeOK /\ IdsAreFresh /\ [Next]_vars => IdsAreFresh'
<1> SUFFICES ASSUME TypeOK, IdsAreFresh, [Next]_vars PROVE IdsAreFresh'
  OBVIOUS
<1>1. /\ requests \in [Databases -> [Ids -> Clients \cup {NoClient}]]
      /\ sequence \in [Databases -> Nat] /\ db \in [Procs -> Databases]
      /\ Ids \subseteq Nat
  BY IdsAreNat DEF TypeOK
<1>2. ASSUME NEW p \in Procs, ImportCommits(p) PROVE IdsAreFresh'
  <2>1. /\ requests'["sqlite"] = requests["sqlite"]
        /\ requests'["postgres"] = Insert(requests["postgres"], rows[p])
    BY <1>2, ImportEffect
  <2>2. /\ sequence'["sqlite"] = sequence["sqlite"]
        /\ sequence'["postgres"] = SetVal(requests["postgres"], rows[p])
    BY <1>1, <1>2 DEF ImportCommits, Databases
  <2>3. rows[p] \in [Ids -> Clients \cup {NoClient}]
    BY DEF TypeOK
  <2>4. requests["postgres"] \in [Ids -> Clients \cup {NoClient}]
    BY <1>1 DEF Databases
  <2>5. \A id \in Used(requests'["postgres"]) : id <= sequence'["postgres"]
    <3>1. CASE Used(rows[p]) = {}
      <4>1. Insert(requests["postgres"], rows[p]) = requests["postgres"]
        BY <2>3, <2>4, <3>1 DEF Insert, Used
      <4> QED
        BY <2>1, <2>2, <3>1, <4>1 DEF SetVal, IdsAreFresh, Databases
    <3>2. CASE Used(rows[p]) # {}
      <4>1. /\ Insert(requests["postgres"], rows[p]) \in [Ids -> Clients \cup {NoClient}]
            /\ Used(Insert(requests["postgres"], rows[p])) # {}
        BY <2>3, <2>4, <3>2 DEF Insert, Used
      <4> QED
        BY <2>1, <2>2, <3>2, <4>1, MaxIdBounds DEF SetVal
    <3> QED
      BY <3>1, <3>2
  <2>6. \A id \in Used(requests'["sqlite"]) : id <= sequence'["sqlite"]
    BY <2>1, <2>2 DEF IdsAreFresh, Databases
  <2> QED
    BY <2>5, <2>6 DEF IdsAreFresh, Databases
<1>3. ASSUME NEW p \in Procs, NEW c \in Clients, Submit(p, c) PROVE IdsAreFresh'
  <2>1. /\ sequence'[db[p]] = sequence[db[p]] + 1
        /\ \A d \in Databases : d # db[p] => sequence'[d] = sequence[d]
        /\ \A d \in Databases, id \in Ids :
             \/ requests'[d][id] = requests[d][id]
             \/ d = db[p] /\ id = sequence[d] + 1
    BY <1>3, SubmitEffect
  <2> SUFFICES ASSUME NEW d \in Databases, NEW id \in Ids, requests'[d][id] # NoClient
               PROVE  id <= sequence'[d]
    BY DEF IdsAreFresh, Used
  <2>2. CASE requests'[d][id] = requests[d][id]
    <3>1. id <= sequence[d]
      BY <2>2 DEF IdsAreFresh, Used
    <3>2. sequence[d] <= sequence'[d]
      BY <1>1, <2>1
    <3> QED
      BY <1>1, <2>1, <3>1, <3>2
  <2>3. CASE d = db[p] /\ id = sequence[d] + 1
    BY <1>1, <2>1, <2>3
  <2> QED
    BY <2>1, <2>2, <2>3
<1>4. CASE UNCHANGED <<requests, sequence>>
  BY <1>4 DEF IdsAreFresh, Used
<1>5. CASE \A p \in Procs : ~ImportCommits(p) /\ \A c \in Clients : ~Submit(p, c)
  BY <1>4, <1>5 DEF Next, SwitchUrl, Start, ImportReads, Stop, SyncRead, SyncCreates,
       SyncFails, SyncRecords, tables, vars
<1> QED
  BY <1>2, <1>3, <1>5

-----------------------------------------------------------------------------
(* The import.                                                             *)

\* The rows that a running import has read are those of SQLite, up to what was
\* submitted since, which takes a process on SQLite; nothing is imported before
\* the marker is there.
ImportInv ==
  /\ ImportIsWhole
  /\ \A p \in Procs : pc[p] = "copy" =>
       /\ \A id \in Used(rows[p]) : rows[p][id] = requests["sqlite"][id]
       /\ \A id \in Used(requests["sqlite"]) : rows[p][id] # NoClient \/ mixed
  /\ ~marker => occupied = {}

\* The requests of SQLite only grow while a process on SQLite is up, which mixed notes.
LEMMA ImportStep ==
  TypeOK /\ ProcInv /\ UpInv /\ ImportInv /\ [Next]_vars => ImportInv'
<1> SUFFICES ASSUME TypeOK, ProcInv, UpInv, ImportInv, [Next]_vars PROVE ImportInv'
  OBVIOUS
<1>1. /\ requests \in [Databases -> [Ids -> Clients \cup {NoClient}]]
      /\ imported \in [Ids -> Clients \cup {NoClient}]
      /\ rows \in [Procs -> [Ids -> Clients \cup {NoClient}]]
      /\ pc \in [Procs -> {"down", "lock", "copy", "idle", "create", "record"}]
      /\ db \in [Procs -> Databases]
      /\ mixed \in BOOLEAN /\ marker \in BOOLEAN
  BY DEF TypeOK
<1>2. ASSUME NEW p \in Procs, ImportReads(p) PROVE ImportInv'
  <2>1. /\ (rows'[p] = rows[p] /\ pc'[p] = "idle") \/ rows'[p] = requests["sqlite"]
        /\ \A q \in Procs : q # p => pc'[q] = pc[q] /\ rows'[q] = rows[q]
        /\ UNCHANGED <<requests, marker, imported, occupied, mixed, returned>>
    BY <1>1, <1>2 DEF ImportReads, tables, history
  <2> QED
    BY <1>1, <2>1 DEF ImportInv, ImportIsWhole, Used
<1>3. ASSUME NEW p \in Procs, ImportCommits(p) PROVE ImportInv'
  <2>1. /\ requests'["sqlite"] = requests["sqlite"]
        /\ requests'["postgres"] = Insert(requests["postgres"], rows[p])
    BY <1>3, ImportEffect
  <2>2. /\ pc[p] = "copy" /\ ~marker
        /\ \A q \in Procs : pc'[q] # "copy"
        /\ marker' /\ imported' = rows[p] /\ occupied' = Used(requests["postgres"])
        /\ mixed' = mixed /\ returned' = returned
    BY <1>1, <1>3 DEF ImportCommits, ProcInv
  <2>3. \A id \in Used(rows[p]) :
          requests'["postgres"][id] = rows[p][id] \/ id \in Used(requests["postgres"])
    BY <2>1 DEF Insert, Used
  <2>4. \A id \in Used(requests["sqlite"]) : rows[p][id] # NoClient \/ mixed
    BY <2>2 DEF ImportInv
  <2> QED
    BY <2>1, <2>2, <2>3, <2>4 DEF ImportInv, ImportIsWhole
<1>4. ASSUME NEW p \in Procs, NEW c \in Clients, Submit(p, c) PROVE ImportInv'
  <2>1. UNCHANGED <<marker, imported, occupied, mixed, returned, pc, rows>> /\ pc[p] = "idle"
    BY <1>4 DEF Submit, process, history
  <2>2. \A d \in Databases, id \in Ids :
          \/ requests'[d][id] = requests[d][id]
          \/ d = db[p] /\ requests[d][id] = NoClient
    BY <1>4, SubmitEffect
  <2>3. \A id \in Ids :
          /\ requests["postgres"][id] # NoClient
               => requests'["postgres"][id] = requests["postgres"][id]
          /\ requests["sqlite"][id] # NoClient
               => requests'["sqlite"][id] = requests["sqlite"][id]
    BY <2>2 DEF Databases
  <2>4. CASE db[p] = "postgres"
    <3>1. \A id \in Ids : requests'["sqlite"][id] = requests["sqlite"][id]
      BY <2>2, <2>4 DEF Databases
    <3>2. Used(requests["sqlite"])' = Used(requests["sqlite"])
      BY <3>1 DEF Used
    <3>3. ImportIsWhole'
      BY <1>1, <2>1, <2>3, <3>2 DEF ImportInv, ImportIsWhole, Used
    <3> QED
      BY <1>1, <2>1, <3>1, <3>2, <3>3 DEF ImportInv, Used
  <2>5. CASE db[p] = "sqlite"
    <3>1. marker => mixed \/ returned
      BY <2>1, <2>5 DEF UpInv
    <3>2. \A q \in Procs : pc[q] = "copy" => mixed
      BY <2>1, <2>5 DEF UpInv, ProcInv
    <3>3. ImportIsWhole'
      BY <1>1, <2>1, <2>3, <3>1 DEF ImportInv, ImportIsWhole, Used
    <3> QED
      BY <1>1, <2>1, <2>3, <3>2, <3>3 DEF ImportInv, Used
  <2> QED
    BY <1>1, <2>4, <2>5 DEF Databases
<1>5. CASE /\ UNCHANGED <<requests, marker, imported, occupied>>
           /\ mixed => mixed'
           /\ returned => returned'
           /\ \A q \in Procs : pc'[q] = "copy" => pc[q] = "copy" /\ rows'[q] = rows[q]
  BY <1>1, <1>5 DEF ImportInv, ImportIsWhole, Used
<1>6. ASSUME NEW p \in Procs,
             \/ Start(p) \/ Stop(p) \/ SyncCreates(p) \/ SyncFails(p) \/ SyncRecords(p)
             \/ \E id \in Ids : SyncRead(p, id)
      PROVE  ImportInv'
  BY <1>1, <1>5, <1>6 DEF Start, Stop, SyncCreates, SyncFails, SyncRecords, SyncRead, tables,
       history
<1>7. CASE SwitchUrl \/ UNCHANGED vars
  BY <1>5, <1>7 DEF SwitchUrl, vars, tables, process, history
<1> QED
  BY <1>2, <1>3, <1>4, <1>6, <1>7 DEF Next

-----------------------------------------------------------------------------
(* Contacts.                                                               *)

\* A sync is recorded for a request that is there, unless the import met it half
\* way, which takes processes on both databases.
RightInv ==
  /\ RightClient
  /\ mixed \/ \A d \in Databases : Used(syncs[d]) \subseteq Used(requests[d])

\* Imported rows keep the id they had, and so do their syncs.
LEMMA RightStep ==
  TypeOK /\ ProcInv /\ ImportInv /\ RightInv /\ [Next]_vars => RightInv'
<1> SUFFICES ASSUME TypeOK, ProcInv, ImportInv, RightInv, [Next]_vars PROVE RightInv'
  OBVIOUS
<1>1. /\ requests \in [Databases -> [Ids -> Clients \cup {NoClient}]]
      /\ syncs \in [Databases -> [Ids -> Clients \cup {NoClient}]]
      /\ mixed \in BOOLEAN /\ marker \in BOOLEAN
  BY DEF TypeOK
<1>2. ASSUME NEW p \in Procs, ImportCommits(p) PROVE RightInv'
  <2>1. /\ requests'["sqlite"] = requests["sqlite"]
        /\ requests'["postgres"] = Insert(requests["postgres"], rows[p])
        /\ syncs'["sqlite"] = syncs["sqlite"]
    BY <1>2, ImportEffect
  <2>2. \A id \in Ids :
          \/ syncs'["postgres"][id] = syncs["postgres"][id]
          \/ syncs["postgres"][id] = NoClient /\ syncs'["postgres"][id] = NoClient
          \/ syncs["postgres"][id] = NoClient /\ syncs'["postgres"][id] = syncs["sqlite"][id]
    BY <1>2, ImportEffect
  <2>3. /\ pc[p] = "copy" /\ ~marker /\ occupied = {}
        /\ occupied' = Used(requests["postgres"]) /\ mixed' = mixed
    BY <1>2 DEF ImportCommits, ProcInv, ImportInv
  <2>4. CASE mixed
    BY <2>3, <2>4 DEF RightInv, RightClient
  <2>5. CASE ~mixed
    <3>1. /\ \A id \in Used(rows[p]) : rows[p][id] = requests["sqlite"][id]
          /\ \A id \in Used(requests["sqlite"]) : rows[p][id] # NoClient
      BY <2>3, <2>5 DEF ImportInv
    <3>2. /\ Used(syncs["sqlite"]) \subseteq Used(requests["sqlite"])
          /\ Used(syncs["postgres"]) \subseteq Used(requests["postgres"])
      BY <2>5 DEF RightInv, Databases
    <3>3. \A id \in Used(requests["sqlite"]) \cap Used(syncs["sqlite"]) :
            syncs["sqlite"][id] = requests["sqlite"][id]
      BY <2>3, <2>5 DEF RightInv, RightClient, Databases
    <3>4. \A id \in Ids :
            /\ requests["postgres"][id] # NoClient
                 => requests'["postgres"][id] = requests["postgres"][id]
            /\ requests["postgres"][id] = NoClient => requests'["postgres"][id] = rows[p][id]
      BY <2>1 DEF Insert
    <3>5. \A id \in Ids : syncs'["postgres"][id] # NoClient =>
            /\ requests'["postgres"][id] # NoClient
            /\ \/ id \in Used(requests["postgres"])
               \/ syncs'["postgres"][id] = requests'["postgres"][id]
      BY <2>2, <3>1, <3>2, <3>3, <3>4 DEF Used
    <3>6. RightClient'
      BY <2>1, <2>3, <3>3, <3>5 DEF RightClient, Used, Databases
    <3>7. \A d \in Databases : Used(syncs'[d]) \subseteq Used(requests'[d])
      BY <2>1, <3>2, <3>5 DEF Used, Databases
    <3> QED
      BY <3>6, <3>7 DEF RightInv, Used
  <2> QED
    BY <2>4, <2>5
<1>3. ASSUME NEW p \in Procs, NEW c \in Clients, Submit(p, c) PROVE RightInv'
  <2>1. UNCHANGED <<syncs, occupied, mixed>>
    BY <1>3 DEF Submit, history
  <2>2. \A d \in Databases, id \in Ids :
          \/ requests'[d][id] = requests[d][id]
          \/ requests[d][id] = NoClient /\ requests'[d][id] = c
    BY <1>3, SubmitEffect
  <2>3. c # NoClient
    BY CutoverAssumption
  <2> QED
    BY <1>1, <2>1, <2>2, <2>3 DEF RightInv, RightClient, Used
<1>4. ASSUME NEW p \in Procs, SyncRecords(p) PROVE RightInv'
  <2>1. /\ db[p] \in Databases /\ job[p] \in Ids /\ requests[db[p]][job[p]] \in Clients
        /\ UNCHANGED <<requests, occupied, mixed>>
    BY <1>4 DEF SyncRecords, TypeOK, ProcInv, At, history
  <2>2. \A d \in Databases, id \in Ids :
          \/ syncs'[d][id] = syncs[d][id]
          \/ d = db[p] /\ id = job[p] /\ syncs'[d][id] = requests[d][id]
    BY <1>1, <1>4, <2>1 DEF SyncRecords
  <2>3. requests[db[p]][job[p]] # NoClient
    BY <2>1, CutoverAssumption
  <2> QED
    BY <1>1, <2>1, <2>2, <2>3 DEF RightInv, RightClient, Used
<1>5. CASE UNCHANGED <<requests, syncs, occupied>> /\ (mixed => mixed')
  BY <1>1, <1>5 DEF RightInv, RightClient, Used
<1>6. ASSUME NEW p \in Procs,
             \/ Start(p) \/ ImportReads(p) \/ Stop(p) \/ SyncCreates(p) \/ SyncFails(p)
             \/ \E id \in Ids : SyncRead(p, id)
      PROVE  RightInv'
  BY <1>1, <1>5, <1>6 DEF Start, ImportReads, Stop, SyncCreates, SyncFails, SyncRead, tables,
       history
<1>7. CASE SwitchUrl \/ UNCHANGED vars
  BY <1>5, <1>7 DEF SwitchUrl, vars, tables, history
<1> QED
  BY <1>2, <1>3, <1>4, <1>6, <1>7 DEF Next

\* A client has one id in the databases, and is in both only through the import.
ClientInv ==
  /\ \A d \in Databases, id \in Ids : requests[d][id] \in submitted \cup {NoClient}
  /\ \A d, e \in Databases, i, j \in Ids :
       requests[d][i] = requests[e][j] /\ requests[d][i] # NoClient => i = j /\ (d = e \/ marker)
  /\ \A c \in Clients : contacts[c] > 0 => c \in submitted

\* A client submits once, and only the import copies its request.
LEMMA ClientStep ==
  TypeOK /\ ProcInv /\ ImportInv /\ ClientInv /\ [Next]_vars => ClientInv'
<1> SUFFICES ASSUME TypeOK, ProcInv, ImportInv, ClientInv, [Next]_vars PROVE ClientInv'
  OBVIOUS
<1>1. /\ requests \in [Databases -> [Ids -> Clients \cup {NoClient}]]
      /\ contacts \in [Clients -> Nat] /\ marker \in BOOLEAN /\ NoClient \notin Clients
  BY CutoverAssumption DEF TypeOK
<1>2. ASSUME NEW p \in Procs, ImportCommits(p) PROVE ClientInv'
  <2>1. /\ requests'["sqlite"] = requests["sqlite"]
        /\ requests'["postgres"] = Insert(requests["postgres"], rows[p])
    BY <1>2, ImportEffect
  <2>2. /\ marker' /\ UNCHANGED <<submitted, contacts>>
        /\ \A id \in Used(rows[p]) : rows[p][id] = requests["sqlite"][id]
    BY <1>2 DEF ImportCommits, ImportInv
  <2>3. \A d \in Databases, id \in Ids : requests'[d][id] # NoClient =>
          \E e \in Databases : requests'[d][id] = requests[e][id]
    BY <2>1, <2>2 DEF Insert, Used, Databases
  <2>4. \A d \in Databases, id \in Ids : requests'[d][id] \in submitted' \cup {NoClient}
    BY <2>2, <2>3 DEF ClientInv
  <2>5. \A d, e \in Databases, i, j \in Ids :
          requests'[d][i] = requests'[e][j] /\ requests'[d][i] # NoClient => i = j
    BY <2>3 DEF ClientInv
  <2> QED
    BY <2>2, <2>4, <2>5 DEF ClientInv
<1>3. ASSUME NEW p \in Procs, NEW c \in Clients, Submit(p, c) PROVE ClientInv'
  <2>1. /\ c \notin submitted /\ submitted' = submitted \cup {c} /\ contacts' = contacts
        /\ marker' = marker
    BY <1>3 DEF Submit
  <2>2. \A d \in Databases, id \in Ids :
          \/ requests'[d][id] = requests[d][id]
          \/ d = db[p] /\ id = sequence[d] + 1 /\ requests'[d][id] = c
    BY <1>3, SubmitEffect
  <2>3. \A d \in Databases, id \in Ids : requests[d][id] # c
    BY <1>1, <2>1 DEF ClientInv
  <2>4. \A d \in Databases, id \in Ids : requests'[d][id] \in submitted' \cup {NoClient}
    BY <2>1, <2>2 DEF ClientInv
  <2>5. ASSUME NEW d \in Databases, NEW e \in Databases, NEW i \in Ids, NEW j \in Ids,
               requests'[d][i] = requests'[e][j], requests'[d][i] # NoClient
        PROVE  i = j /\ (d = e \/ marker')
    <3>1. CASE requests'[d][i] = c
      <4>1. d = db[p] /\ i = sequence[d] + 1
        BY <2>2, <2>3, <3>1
      <4>2. requests'[e][j] = c
        BY <2>5, <3>1
      <4>3. e = db[p] /\ j = sequence[e] + 1
        BY <2>2, <2>3, <4>2
      <4> QED
        BY <4>1, <4>3
    <3>2. CASE requests'[d][i] # c
      <4>1. requests'[d][i] = requests[d][i] /\ requests'[e][j] = requests[e][j]
        BY <2>2, <2>5, <3>2
      <4> QED
        <5>1. requests[d][i] = requests[e][j] /\ requests[d][i] # NoClient
          BY <2>5, <4>1
        <5> QED
          BY <2>1, <5>1 DEF ClientInv
    <3> QED
      BY <3>1, <3>2
  <2>6. \A d \in Clients : contacts'[d] > 0 => d \in submitted'
    BY <2>1 DEF ClientInv
  <2> QED
    BY <2>4, <2>5, <2>6 DEF ClientInv
<1>4. ASSUME NEW p \in Procs, SyncCreates(p) \/ SyncFails(p) PROVE ClientInv'
  <2>1. /\ contacts' = contacts \/ contacts' = [contacts EXCEPT ![At(p)] = contacts[At(p)] + 1]
        /\ UNCHANGED <<requests, submitted, marker>> /\ pc[p] = "create"
    BY <1>4 DEF SyncCreates, SyncFails, At, tables
  <2>2. At(p) \in submitted /\ At(p) \in Clients
    BY <1>1, <2>1 DEF ProcInv, ClientInv, At, TypeOK
  <2>3. \A c \in Clients : contacts'[c] > 0 => c \in submitted
    <3>1. \A c \in Clients : c # At(p) => contacts'[c] = contacts[c]
      BY <1>1, <2>1
    <3> QED
      BY <2>2, <3>1 DEF ClientInv
  <2> QED
    BY <2>1, <2>3 DEF ClientInv
<1>5. CASE UNCHANGED <<requests, submitted, contacts, marker>>
  BY <1>5 DEF ClientInv
<1>6. ASSUME NEW p \in Procs,
             \/ Start(p) \/ ImportReads(p) \/ Stop(p) \/ SyncRecords(p)
             \/ \E id \in Ids : SyncRead(p, id)
      PROVE  ClientInv'
  BY <1>5, <1>6 DEF Start, ImportReads, Stop, SyncRecords, SyncRead, tables
<1>7. CASE SwitchUrl \/ UNCHANGED vars
  BY <1>5, <1>7 DEF SwitchUrl, vars, tables
<1> QED
  BY <1>2, <1>3, <1>4, <1>6, <1>7 DEF Next

\* A process at the contact of a client; the records that keep others from it.
Syncing(p, c) == pc[p] \in {"create", "record"} /\ At(p) = c
Recorded(c) ==
  \A d \in Databases, id \in Ids :
    requests[d][id] = c /\ (d = "postgres" \/ ~marker) => syncs[d][id] # NoClient

\* What ContactIsOnce excuses, whatever the client.
Excused == mixed \/ returned \/ occupied # {}

\* Of a client whose syncs neither overlapped nor broke off, a contact has its
\* record, or the process that is about to write it.
OneContact(c) ==
  /\ contacts[c] <= 1
  /\ \A p, q \in Procs : Syncing(p, c) /\ Syncing(q, c) => p = q
  /\ \A p \in Procs : Syncing(p, c) /\ pc[p] = "create" => contacts[c] = 0
  /\ contacts[c] = 1 => Recorded(c) \/ \E p \in Procs : Syncing(p, c) /\ pc[p] = "record"

OnceInv == Excused \/ \A c \in Clients : c \in unsure \/ OneContact(c)

\* What was excused stays so.
LEMMA ExcusesStay ==
  ASSUME TypeOK, ProcInv, ImportInv, [Next]_vars, ~Excused'
  PROVE  ~Excused /\ unsure \subseteq unsure'
<1>1. mixed \in BOOLEAN /\ returned \in BOOLEAN
  BY DEF TypeOK
<1>2. ASSUME NEW p \in Procs, ImportCommits(p) PROVE ~Excused /\ unsure \subseteq unsure'
  BY <1>1, <1>2 DEF ImportCommits, ImportInv, ProcInv, Excused
<1>3. ASSUME NEW p \in Procs,
             \/ Start(p) \/ ImportReads(p) \/ Stop(p) \/ SyncCreates(p) \/ SyncFails(p)
             \/ SyncRecords(p)
             \/ \E c \in Clients : Submit(p, c)
             \/ \E id \in Ids : SyncRead(p, id)
      PROVE  ~Excused /\ unsure \subseteq unsure'
  BY <1>1, <1>3 DEF Start, ImportReads, Stop, SyncCreates, SyncFails, SyncRecords, Submit,
       SyncRead, history, Excused
<1>4. CASE SwitchUrl \/ UNCHANGED vars
  BY <1>4 DEF SwitchUrl, vars, history, Excused
<1> QED
  BY <1>2, <1>3, <1>4 DEF Next

\* Steps that only end syncs, or do nothing to them.
LEMMA OneContactKept ==
  ASSUME NEW c \in Clients, OneContact(c), UNCHANGED contacts,
         \A p \in Procs : Syncing(p, c)' => Syncing(p, c) /\ pc'[p] = pc[p],
         \A p \in Procs : Syncing(p, c) /\ pc[p] = "record" =>
            Recorded(c)' \/ (Syncing(p, c)' /\ pc'[p] = "record"),
         Recorded(c) => Recorded(c)'
  PROVE  OneContact(c)'
BY DEF OneContact

\* The contact of a client goes with its record, through the import as well.
LEMMA OnceStep ==
  TypeOK /\ ProcInv /\ UpInv /\ ImportInv /\ RightInv /\ ClientInv /\ OnceInv /\ [Next]_vars
    => OnceInv'
<1> SUFFICES ASSUME TypeOK, ProcInv, UpInv, ImportInv, RightInv, ClientInv, OnceInv, [Next]_vars,
                    ~Excused', NEW c \in Clients, c \notin unsure'
             PROVE  OneContact(c)'
  BY DEF OnceInv
<1>1. /\ pc \in [Procs -> {"down", "lock", "copy", "idle", "create", "record"}]
      /\ db \in [Procs -> Databases] /\ job \in [Procs -> Ids \cup {0}]
      /\ \A p \in Procs : pc[p] \in {"create", "record"} => job[p] \in Ids
      /\ contacts \in [Clients -> Nat]
      /\ mixed \in BOOLEAN /\ returned \in BOOLEAN /\ marker \in BOOLEAN
      /\ NoClient \notin Clients
  BY CutoverAssumption DEF TypeOK
<1>2. ~Excused /\ ~mixed /\ ~returned /\ c \notin unsure
  BY ExcusesStay DEF Excused
<1>3. OneContact(c)
  BY <1>2 DEF OnceInv
<1>4. \A p \in Procs : pc[p] \in {"create", "record"} => At(p) \in Clients
  BY DEF ProcInv
<1>5. ASSUME NEW p \in Procs, Start(p) PROVE OneContact(c)'
  <2>1. /\ pc'[p] \in {"lock", "idle"} /\ pc[p] = "down"
        /\ \A q \in Procs : q # p => pc'[q] = pc[q] /\ db'[q] = db[q]
        /\ UNCHANGED <<requests, syncs, marker, job, contacts>>
    BY <1>1, <1>5 DEF Start
  <2> QED
    BY <1>3, <2>1, OneContactKept DEF Syncing, Recorded, At
<1>6. ASSUME NEW p \in Procs, ImportReads(p) PROVE OneContact(c)'
  <2>1. /\ pc'[p] \in {"copy", "idle"} /\ pc[p] = "lock"
        /\ \A q \in Procs : q # p => pc'[q] = pc[q]
        /\ UNCHANGED <<requests, syncs, marker, job, db, contacts>>
    BY <1>1, <1>6 DEF ImportReads, tables
  <2> QED
    BY <1>3, <2>1, OneContactKept DEF Syncing, Recorded, At
<1>7. ASSUME NEW p \in Procs, ImportCommits(p) PROVE OneContact(c)'
  <2>1. /\ pc[p] = "copy" /\ db[p] = "postgres" /\ ~marker /\ pc'[p] = "idle"
        /\ \A q \in Procs : q # p => pc'[q] = pc[q]
        /\ occupied' = Used(requests["postgres"])
        /\ UNCHANGED <<db, job, contacts>> /\ marker'
    BY <1>1, <1>7 DEF ImportCommits, ProcInv
  <2>2. \A id \in Ids : requests["postgres"][id] = NoClient
    BY <2>1 DEF Excused, Used
  <2>3. \A q \in Procs : pc[q] \notin {"create", "record"}
    <3>1. \A q \in Procs : pc[q] \in {"create", "record"} => db[q] = "postgres"
      BY <1>1, <1>2, <2>1 DEF UpInv, Databases
    <3> QED
      BY <1>1, <1>4, <2>2, <3>1 DEF At
  <2>4. \A id \in Ids : syncs["postgres"][id] = NoClient
    BY <1>2, <2>2 DEF RightInv, Used, Databases
  <2>5. \A id \in Ids : syncs'["postgres"][id] = syncs["sqlite"][id]
    <3>1. PICK left \in SUBSET Used(syncs["sqlite"]) :
            /\ left # {} => Used(syncs["postgres"]) # {}
            /\ \A id \in Ids : syncs'["postgres"][id] =
                 IF syncs["postgres"][id] # NoClient THEN syncs["postgres"][id]
                 ELSE IF id \in left THEN NoClient ELSE syncs["sqlite"][id]
      BY <1>7, ImportEffect
    <3>2. left = {}
      BY <2>4, <3>1 DEF Used
    <3> QED
      BY <2>4, <3>1, <3>2
  <2>6. \A id \in Ids : requests'["postgres"][id] # NoClient =>
          requests'["postgres"][id] = requests["sqlite"][id]
    <3>1. requests'["postgres"] = Insert(requests["postgres"], rows[p])
      BY <1>7, ImportEffect
    <3>2. \A id \in Used(rows[p]) : rows[p][id] = requests["sqlite"][id]
      BY <2>1 DEF ImportInv
    <3> QED
      BY <2>2, <3>1, <3>2 DEF Insert, Used
  <2>7. Recorded(c) => Recorded(c)'
    <3>1. ASSUME Recorded(c), NEW d \in Databases, NEW id \in Ids,
                 requests'[d][id] = c, d = "postgres"
          PROVE  syncs'[d][id] # NoClient
      <4>1. requests["sqlite"][id] = c
        BY <1>1, <2>6, <3>1
      <4>2. syncs["sqlite"][id] # NoClient
        BY <2>1, <3>1, <4>1 DEF Recorded, Databases
      <4> QED
        BY <2>5, <3>1, <4>2
    <3> QED
      BY <2>1, <3>1 DEF Recorded
  <2>8. \A q \in Procs : ~Syncing(q, c) /\ ~Syncing(q, c)'
    BY <2>1, <2>3 DEF Syncing
  <2> QED
    BY <1>3, <2>1, <2>7, <2>8, OneContactKept
<1>8. ASSUME NEW p \in Procs, Stop(p) PROVE OneContact(c)'
  <2>1. /\ pc'[p] = "down"
        /\ \A q \in Procs : q # p => pc'[q] = pc[q] /\ job'[q] = job[q]
        /\ UNCHANGED <<requests, syncs, marker, db, contacts>>
        /\ pc[p] = "record" => At(p) # c
    BY <1>1, <1>8 DEF Stop, tables, At
  <2> QED
    BY <1>3, <2>1, OneContactKept DEF Syncing, Recorded, At
<1>9. ASSUME NEW p \in Procs, NEW d \in Clients, Submit(p, d) PROVE OneContact(c)'
  <2>1. d \notin submitted /\ UNCHANGED <<pc, db, job, syncs, marker, contacts>>
    BY <1>9 DEF Submit, process
  <2>2. \A e \in Databases, id \in Ids :
          requests'[e][id] = requests[e][id] \/ (requests[e][id] = NoClient /\ requests'[e][id] = d)
    BY <1>9, SubmitEffect
  <2>3. \A q \in Procs : pc[q] \in {"create", "record"} => At(q)' = At(q)
    BY <1>1, <1>4, <2>1, <2>2 DEF At
  <2>4. CASE d = c
    <3>1. contacts[c] = 0
      BY <1>1, <2>1, <2>4 DEF ClientInv
    <3>2. \A q \in Procs : ~Syncing(q, c)
      BY <1>1, <2>1, <2>4 DEF Syncing, At, ClientInv
    <3>3. \A q \in Procs : ~Syncing(q, c)'
      BY <2>1, <2>3, <3>2 DEF Syncing
    <3> QED
      BY <2>1, <3>1, <3>3 DEF OneContact
  <2>5. CASE d # c
    <3>1. Recorded(c) => Recorded(c)'
      BY <2>1, <2>2, <2>5 DEF Recorded
    <3>2. \A q \in Procs : Syncing(q, c)' <=> Syncing(q, c)
      BY <2>1, <2>3 DEF Syncing
    <3> QED
      BY <1>3, <2>1, <3>1, <3>2, OneContactKept
  <2> QED
    BY <2>4, <2>5
<1>10. ASSUME NEW p \in Procs, NEW id \in Ids, SyncRead(p, id) PROVE OneContact(c)'
  <2>1. /\ pc'[p] = "create" /\ job'[p] = id /\ pc[p] = "idle"
        /\ requests[db[p]][id] # NoClient /\ syncs[db[p]][id] = NoClient
        /\ \A q \in Procs : q # p => pc'[q] = pc[q] /\ job'[q] = job[q]
        /\ UNCHANGED <<requests, syncs, marker, db, contacts>>
        /\ requests[db[p]][id] = c => \A q \in Procs : ~Syncing(q, c)
    BY <1>1, <1>10 DEF SyncRead, tables, Syncing, At
  <2>2. \A q \in Procs : q # p => (Syncing(q, c)' <=> Syncing(q, c))
    BY <2>1 DEF Syncing, At
  <2>3. Recorded(c) <=> Recorded(c)'
    BY <2>1 DEF Recorded
  <2>4. CASE requests[db[p]][id] = c
    <3>1. \A q \in Procs : Syncing(q, c)' => q = p
      BY <2>1, <2>2, <2>4
    <3>2. ~Recorded(c)
      <4>1. db[p] = "postgres" \/ ~marker
        BY <1>1, <1>2, <2>1 DEF UpInv, Databases
      <4> QED
        BY <1>1, <2>1, <2>4, <4>1 DEF Recorded
    <3>3. contacts[c] = 0
      BY <1>1, <1>3, <2>1, <2>4, <3>2 DEF OneContact
    <3> QED
      BY <2>1, <3>1, <3>3 DEF OneContact
  <2>5. CASE requests[db[p]][id] # c
    <3>1. ~Syncing(p, c)' /\ ~Syncing(p, c)
      BY <2>1, <2>5 DEF Syncing, At
    <3> QED
      BY <1>3, <2>1, <2>2, <2>3, <3>1, OneContactKept
  <2> QED
    BY <2>4, <2>5
<1>11. ASSUME NEW p \in Procs, SyncCreates(p) PROVE OneContact(c)'
  <2>1. /\ pc[p] = "create" /\ pc'[p] = "record"
        /\ \A q \in Procs : q # p => pc'[q] = pc[q]
        /\ UNCHANGED <<requests, syncs, marker, db, job>>
        /\ contacts' = [contacts EXCEPT ![At(p)] = contacts[At(p)] + 1]
    BY <1>1, <1>11 DEF SyncCreates, tables, At
  <2>2. \A q \in Procs : Syncing(q, c)' <=> Syncing(q, c)
    BY <2>1 DEF Syncing, At
  <2>3. Recorded(c) <=> Recorded(c)'
    BY <2>1 DEF Recorded
  <2>4. CASE At(p) = c
    <3>1. Syncing(p, c) /\ contacts[c] = 0 /\ contacts'[c] = 1
      BY <1>1, <1>3, <2>1, <2>4 DEF OneContact, Syncing
    <3> QED
      BY <1>3, <2>1, <2>2, <3>1 DEF OneContact
  <2>5. CASE At(p) # c
    <3>1. contacts'[c] = contacts[c]
      BY <1>1, <2>1, <2>5
    <3>2. ~Syncing(p, c)
      BY <2>5 DEF Syncing
    <3> QED
      BY <1>3, <2>1, <2>2, <2>3, <3>1, <3>2 DEF OneContact
  <2> QED
    BY <2>4, <2>5
<1>12. ASSUME NEW p \in Procs, SyncFails(p) PROVE OneContact(c)'
  <2>1. /\ pc[p] = "create" /\ pc'[p] = "idle"
        /\ \A q \in Procs : q # p => pc'[q] = pc[q] /\ job'[q] = job[q]
        /\ UNCHANGED <<requests, syncs, marker, db>>
        /\ \/ contacts' = contacts
           \/ At(p) # c /\ contacts' = [contacts EXCEPT ![At(p)] = contacts[At(p)] + 1]
    BY <1>1, <1>12 DEF SyncFails, tables, At
  <2>2. contacts'[c] = contacts[c]
    BY <1>1, <2>1
  <2>3. \A q \in Procs : q # p => (Syncing(q, c)' <=> Syncing(q, c))
    BY <2>1 DEF Syncing, At
  <2>4. ~Syncing(p, c)'
    BY <2>1 DEF Syncing
  <2>5. Recorded(c) <=> Recorded(c)'
    BY <2>1 DEF Recorded
  <2> QED
    BY <1>3, <2>1, <2>2, <2>3, <2>4, <2>5 DEF OneContact
<1>13. ASSUME NEW p \in Procs, SyncRecords(p) PROVE OneContact(c)'
  <2>1. /\ pc[p] = "record" /\ pc'[p] = "idle"
        /\ \A q \in Procs : q # p => pc'[q] = pc[q] /\ job'[q] = job[q]
        /\ UNCHANGED <<requests, marker, db, contacts>>
        /\ syncs' = [syncs EXCEPT ![db[p]][job[p]] = At(p)]
        /\ db[p] \in Databases /\ job[p] \in Ids /\ At(p) \in Clients
    BY <1>1, <1>4, <1>13 DEF SyncRecords, At
  <2>2. \A d \in Databases, id \in Ids :
          /\ syncs[d][id] # NoClient => syncs'[d][id] # NoClient
          /\ d = db[p] /\ id = job[p] => syncs'[d][id] # NoClient
    BY <1>1, <2>1 DEF TypeOK
  <2>3. \A q \in Procs : q # p => (Syncing(q, c)' <=> Syncing(q, c))
    BY <2>1 DEF Syncing, At
  <2>4. ~Syncing(p, c)'
    BY <2>1 DEF Syncing
  <2>5. Recorded(c) => Recorded(c)'
    BY <2>1, <2>2 DEF Recorded
  <2>6. At(p) = c => Recorded(c)'
    <3> SUFFICES ASSUME At(p) = c, NEW d \in Databases, NEW id \in Ids,
                        requests[d][id] = c, d = "postgres" \/ ~marker
                 PROVE  syncs'[d][id] # NoClient
      BY <2>1 DEF Recorded
    <3>1. requests[d][id] = requests[db[p]][job[p]] /\ requests[d][id] # NoClient
      BY <1>1 DEF At
    <3>2. id = job[p] /\ (d = db[p] \/ marker)
      BY <2>1, <3>1 DEF ClientInv
    <3>3. marker => db[p] = "postgres"
      BY <1>1, <1>2, <2>1 DEF UpInv, Databases
    <3> QED
      BY <2>2, <3>2, <3>3
  <2> QED
    BY <1>3, <2>1, <2>3, <2>4, <2>5, <2>6, OneContactKept DEF Syncing
<1>14. CASE SwitchUrl \/ UNCHANGED vars
  <2>1. UNCHANGED <<requests, syncs, marker, pc, job, db, contacts>>
    BY <1>14 DEF SwitchUrl, vars, tables, process
  <2> QED
    BY <1>3, <2>1, OneContactKept DEF Syncing, Recorded, At
<1> QED
  BY <1>5, <1>6, <1>7, <1>8, <1>9, <1>10, <1>11, <1>12, <1>13, <1>14 DEF Next

-----------------------------------------------------------------------------
(* The theorems.                                                           *)

CutoverInv ==
  /\ TypeOK /\ ProcInv /\ UpInv /\ IdsAreFresh
  /\ ImportInv /\ RightInv /\ ClientInv /\ OnceInv

\* Empty tables and no process.
LEMMA CutoverInit == Init => CutoverInv
<1> SUFFICES ASSUME Init PROVE CutoverInv
  OBVIOUS
<1>1. NoTable \in [Ids -> Clients \cup {NoClient}] /\ Used(NoTable) = {}
  BY DEF NoTable, Used
<1>2. /\ requests = [d \in Databases |-> NoTable] /\ syncs = [d \in Databases |-> NoTable]
      /\ \A p \in Procs : pc[p] = "down"
      /\ \A d \in Databases : requests[d] = NoTable /\ syncs[d] = NoTable
  BY DEF Init
<1>3. TypeOK
  BY <1>1 DEF Init, TypeOK, Databases
<1>4. ProcInv /\ UpInv
  BY <1>2 DEF ProcInv, UpInv
<1>5. IdsAreFresh
  BY <1>1, <1>2 DEF IdsAreFresh
<1>6. ImportInv
  BY <1>1, <1>2 DEF Init, ImportInv, ImportIsWhole
<1>7. RightInv
  BY <1>1, <1>2 DEF RightInv, RightClient
<1>8. \A d \in Databases, id \in Ids : requests[d][id] = NoClient
  BY <1>2 DEF NoTable
<1>9. \A c \in Clients : contacts[c] = 0
  BY DEF Init
<1>10. ClientInv
  BY <1>8, <1>9 DEF ClientInv
<1>11. OnceInv
  BY <1>2, <1>9 DEF OnceInv, OneContact, Syncing
<1> QED
  BY <1>3, <1>4, <1>5, <1>6, <1>7, <1>10, <1>11 DEF CutoverInv

\* The inductive invariant holds throughout.
LEMMA CutoverInvHolds == Spec => []CutoverInv
<1>1. CutoverInv /\ [Next]_vars => CutoverInv'
  BY TypeStep, ProcStep, UpStep, FreshStep, ImportStep, RightStep, ClientStep, OnceStep
     DEF CutoverInv
<1> QED
  BY <1>1, CutoverInit, PTL DEF Spec

\* Tables, processes and histories keep their types.
THEOREM CutoverTypes == Spec => []TypeOK
<1>1. CutoverInv => TypeOK
  BY DEF CutoverInv
<1> QED
  BY <1>1, CutoverInvHolds, PTL

\* Whatever starts, stops and imports there are, the next id of a database is free.
THEOREM FreshIds == Spec => []IdsAreFresh
<1>1. CutoverInv => IdsAreFresh
  BY DEF CutoverInv
<1> QED
  BY <1>1, CutoverInvHolds, PTL

\* The marker stands for a whole import, its absence for none.
THEOREM WholeImport == Spec => []ImportIsWhole
<1>1. CutoverInv => ImportIsWhole
  BY DEF CutoverInv, ImportInv
<1> QED
  BY <1>1, CutoverInvHolds, PTL

\* Syncs follow their requests through the import.
THEOREM RightClients == Spec => []RightClient
<1>1. CutoverInv => RightClient
  BY DEF CutoverInv, RightInv
<1> QED
  BY <1>1, CutoverInvHolds, PTL

\* A client gets one contact, before and after the move to Postgres.
THEOREM OneContactEach == Spec => []ContactIsOnce
<1>1. CutoverInv => ContactIsOnce
  BY DEF CutoverInv, OnceInv, OneContact, Excused, ContactIsOnce
<1> QED
  BY <1>1, CutoverInvHolds, PTL

-----------------------------------------------------------------------------
(* The page that saves a key.                                              *)

\* Whether a submission is between the check of the link and its answer.
AtWork(s) == step[s] \notin {"new", "done", "failed"}

\* While submissions have not met: one at most is at work; what it writes goes to
\* the temporary file, which is another than the key file; the file it renames is
\* whole; the marker follows the key, and nobody is at work once it is written.
AloneInv ==
  /\ \A s, t \in Submissions : AtWork(s) /\ AtWork(t) => s = t
  /\ \A s \in Submissions : step[s] \in {"new", "verify", "open"} => key # s /\ temp # s
  /\ \A s \in Submissions : step[s] = "write" => handle[s] = temp /\ content[temp] = NoKey
  /\ \A s \in Submissions : step[s] = "rename" => handle[s] = temp /\ content[temp] = s
  /\ key # "absent" => key # temp /\ content[key] \in Submissions
  /\ used # "absent" => key # "absent"
  /\ \A s \in Submissions : step[s] \in {"mark", "marking"} => key # "absent"
  /\ \A s \in Submissions : step[s] = "done" => used = "used" /\ \A t \in Submissions : ~AtWork(t)
  /\ \A s, t \in Submissions : step[s] = "done" /\ step[t] = "done" => s = t
  /\ \A s \in saved \ cut : step[s] \in {"mark", "marking", "done"}

KeyInv == KeyTypeOK /\ (met \/ AloneInv)

\* Every step keeps the types.
LEMMA KeyTypeStep == KeyTypeOK /\ [KeyNext]_keyVars => KeyTypeOK'
<1> SUFFICES ASSUME KeyTypeOK, [KeyNext]_keyVars PROVE KeyTypeOK'
  OBVIOUS
<1> USE DEF KeyTypeOK, GoTo, Steps, Nodes, Active
<1>1. ASSUME NEW s \in Submissions, Authorize(s) \/ Verify(s) \/ Rejected(s) PROVE KeyTypeOK'
  BY <1>1 DEF Authorize, Verify, Rejected
<1>2. ASSUME NEW s \in Submissions, OpenTemp(s) PROVE KeyTypeOK'
  BY <1>2, KeySetupAssumption DEF OpenTemp
<1>3. ASSUME NEW s \in Submissions, WriteTemp(s) PROVE KeyTypeOK'
  <2>1. PICK left \in {s, Mixed} : content' = [content EXCEPT ![handle[s]] = left]
    BY <1>3 DEF WriteTemp
  <2>2. content' \in [Submissions -> Submissions \cup {NoKey, Mixed}]
    <3>1. content \in [Submissions -> Submissions \cup {NoKey, Mixed}]
      BY DEF KeyTypeOK
    <3> QED
      BY <2>1, <3>1
  <2> QED
    BY <1>3, <2>2 DEF WriteTemp
<1>4. ASSUME NEW s \in Submissions, Rename(s) PROVE KeyTypeOK'
  BY <1>4 DEF Rename
<1>5. ASSUME NEW s \in Submissions, OpenMarker(s) \/ WriteMarker(s) PROVE KeyTypeOK'
  BY <1>5 DEF OpenMarker, WriteMarker
<1>6. CASE CrashOfService
  BY <1>6 DEF CrashOfService
<1>7. CASE UNCHANGED keyVars
  BY <1>7 DEF keyVars
<1> QED
  BY <1>1, <1>2, <1>3, <1>4, <1>5, <1>6, <1>7 DEF KeyNext

\* Every step keeps a submission alone, or it met another.
LEMMA AloneStep == KeyTypeOK /\ AloneInv /\ [KeyNext]_keyVars => met' \/ AloneInv'
<1> SUFFICES ASSUME KeyTypeOK, AloneInv, [KeyNext]_keyVars, ~met' PROVE AloneInv'
  OBVIOUS
<1>1. /\ step \in [Submissions -> Steps] /\ handle \in [Submissions -> Nodes]
      /\ content \in [Submissions -> Submissions \cup {NoKey, Mixed}]
      /\ temp \in Nodes /\ key \in Nodes
      /\ \A s \in Submissions : step[s] \in {"write", "rename"} => handle[s] # "absent"
      /\ "absent" \notin Submissions /\ saved \subseteq Submissions
  BY KeySetupAssumption DEF KeyTypeOK
<1>2. ASSUME NEW s \in Submissions, Authorize(s) PROVE AloneInv'
  <2>1. /\ step[s] = "new" /\ used # "used" /\ step' = [step EXCEPT ![s] = "verify"]
        /\ \A t \in Submissions : ~AtWork(t)
        /\ UNCHANGED <<content, temp, key, used, handle, saved, cut>>
    BY <1>2 DEF Authorize, GoTo, Active, AtWork
  <2> QED
    BY <1>1, <2>1 DEF AloneInv, AtWork
<1>3. ASSUME NEW s \in Submissions, Verify(s) \/ Rejected(s) PROVE AloneInv'
  <2>1. /\ step[s] = "verify"
        /\ step' = [step EXCEPT ![s] = "open"] \/ step' = [step EXCEPT ![s] = "failed"]
        /\ UNCHANGED <<content, temp, key, used, handle, saved, cut>>
    BY <1>3 DEF Verify, Rejected, GoTo
  <2>2. step'[s] \in {"open", "failed"} /\ \A t \in Submissions : t # s => step'[t] = step[t]
    BY <1>1, <2>1
  <2> QED
    BY <1>1, <2>1, <2>2 DEF AloneInv, AtWork
<1>4. ASSUME NEW s \in Submissions, OpenTemp(s) PROVE AloneInv'
  <2> DEFINE opened == IF temp = "absent" THEN s ELSE temp
  <2>1. /\ step[s] = "open" /\ step' = [step EXCEPT ![s] = "write"]
        /\ temp' = opened /\ handle' = [handle EXCEPT ![s] = opened]
        /\ content' = [content EXCEPT ![opened] = NoKey]
        /\ UNCHANGED <<key, used, saved, cut>>
    BY <1>4 DEF OpenTemp, GoTo
  <2>2. opened \in Submissions /\ (key # "absent" => key # opened)
    BY <1>1, <2>1 DEF AloneInv, Nodes
  <2>3. \A t \in Submissions : step[t] \in {"new", "verify", "open"} /\ t # s => opened # t
    BY <2>1 DEF AloneInv
  <2> HIDE DEF opened
  <2>4. content'[opened] = NoKey /\ (key # "absent" => content'[key] = content[key])
    BY <1>1, <2>1, <2>2 DEF Nodes
  <2>5. \A t \in Submissions : AtWork(t) => t = s
    BY <2>1 DEF AloneInv, AtWork
  <2> QED
    BY <1>1, <2>1, <2>2, <2>3, <2>4, <2>5 DEF AloneInv, AtWork
<1>5. ASSUME NEW s \in Submissions, WriteTemp(s) PROVE AloneInv'
  <2>1. /\ step[s] = "write" /\ step' = [step EXCEPT ![s] = "rename"]
        /\ UNCHANGED <<temp, key, used, handle, saved, cut>>
        /\ handle[s] = temp /\ content[temp] = NoKey
    BY <1>5 DEF WriteTemp, GoTo, AloneInv
  <2>2. content' = [content EXCEPT ![temp] = s]
    BY <1>5, <2>1 DEF WriteTemp
  <2>3. temp \in Submissions
    BY <1>1, <2>1 DEF Nodes
  <2>4. content'[temp] = s /\ (key # "absent" => content'[key] = content[key])
    BY <1>1, <2>2, <2>3 DEF Nodes, AloneInv
  <2>5. \A t \in Submissions : AtWork(t) => t = s
    BY <2>1 DEF AloneInv, AtWork
  <2> QED
    BY <1>1, <2>1, <2>4, <2>5 DEF AloneInv, AtWork
<1>6. ASSUME NEW s \in Submissions, Rename(s) PROVE AloneInv'
  <2>1. /\ step[s] = "rename" /\ temp # "absent" /\ content[temp] = s
        /\ \A t \in Submissions : AtWork(t) => t = s
    BY <1>1, <1>6 DEF Rename, AloneInv, AtWork
  <2>2. /\ step' = [step EXCEPT ![s] = "mark"] /\ key' = temp /\ temp' = "absent"
        /\ saved' = saved \cup {s}
        /\ UNCHANGED <<content, used, handle, cut>>
    BY <1>6, <2>1 DEF Rename, GoTo
  <2> QED
    BY <1>1, <2>1, <2>2 DEF AloneInv, AtWork
<1>7. ASSUME NEW s \in Submissions, OpenMarker(s) \/ WriteMarker(s) PROVE AloneInv'
  <2>1. /\ \/ step[s] = "mark" /\ step' = [step EXCEPT ![s] = "marking"]
           \/ step[s] = "marking" /\ step' = [step EXCEPT ![s] = "done"] /\ used' = "used"
        /\ UNCHANGED <<content, temp, key, handle, saved, cut>>
    BY <1>7 DEF OpenMarker, WriteMarker, GoTo
  <2>2. key # "absent" /\ AtWork(s)
    BY <2>1 DEF AloneInv, AtWork
  <2>3. /\ \A t \in Submissions : AtWork(t) => t = s
        /\ \A t \in Submissions : step[t] # "done"
    BY <2>2 DEF AloneInv
  <2>4. CASE step[s] = "mark" /\ step' = [step EXCEPT ![s] = "marking"]
    BY <1>1, <2>1, <2>2, <2>3, <2>4 DEF AloneInv, AtWork
  <2>5. CASE step[s] = "marking" /\ step' = [step EXCEPT ![s] = "done"] /\ used' = "used"
    BY <1>1, <2>1, <2>2, <2>3, <2>5 DEF AloneInv, AtWork
  <2> QED
    BY <2>1, <2>4, <2>5
<1>8. CASE CrashOfService
  <2>1. /\ \A s \in Submissions : step'[s] = IF AtWork(s) THEN "failed" ELSE step[s]
        /\ cut' = cut \cup {s \in Submissions : AtWork(s)}
        /\ UNCHANGED <<content, temp, key, used, handle, saved>>
    BY <1>8 DEF CrashOfService, Active, AtWork
  <2>2. \A s \in Submissions : ~AtWork(s)'
    BY <2>1 DEF AtWork
  <2> QED
    BY <1>1, <2>1, <2>2 DEF AloneInv, AtWork
<1>9. CASE UNCHANGED keyVars
  BY <1>9 DEF keyVars, AloneInv, AtWork
<1> QED
  BY <1>2, <1>3, <1>4, <1>5, <1>6, <1>7, <1>8, <1>9 DEF KeyNext

\* Submissions that met stay met.
LEMMA MetStays == KeyTypeOK /\ met /\ [KeyNext]_keyVars => met'
BY DEF KeyTypeOK, KeyNext, Authorize, Verify, Rejected, OpenTemp, WriteTemp, Rename,
   OpenMarker, WriteMarker, CrashOfService, keyVars

\* The inductive invariant holds throughout.
LEMMA KeyInvHolds == KeySpec => []KeyInv
<1>1. KeyInit => KeyInv
  <2> SUFFICES ASSUME KeyInit PROVE KeyInv
    OBVIOUS
  <2>1. KeyTypeOK
    BY DEF KeyInit, KeyTypeOK, Steps, Nodes
  <2>2. AloneInv
    BY KeySetupAssumption DEF KeyInit, AloneInv, AtWork
  <2> QED
    BY <2>1, <2>2 DEF KeyInv
<1>2. KeyInv /\ [KeyNext]_keyVars => KeyInv'
  BY KeyTypeStep, AloneStep, MetStays DEF KeyInv
<1> QED
  BY <1>1, <1>2, PTL DEF KeySpec

\* Files, handles and steps keep their types; a writer has a file.
THEOREM KeyTypes == KeySpec => []KeyTypeOK
<1>1. KeyInv => KeyTypeOK
  BY DEF KeyInv
<1> QED
  BY <1>1, KeyInvHolds, PTL

\* Wherever the service crashes, a link is not spent without a whole key.
THEOREM UsedLinkKept == KeySpec => []UsedLinkHasKey
<1>1. KeyInv => UsedLinkHasKey
  BY DEF KeyInv, KeyTypeOK, AloneInv, UsedLinkHasKey
<1> QED
  BY <1>1, KeyInvHolds, PTL

\* The link replaces the key once, unless two submissions overlapped or one was cut off.
THEOREM LinkOnce == KeySpec => []LinkWorksOnce
<1>1. KeyInv => LinkWorksOnce
  BY DEF KeyInv, KeyTypeOK, AloneInv, AtWork, LinkWorksOnce
<1> QED
  BY <1>1, KeyInvHolds, PTL
=============================================================================

------------------------- MODULE LocalMemoryProofs -------------------------
(* Theorems about LocalMemory.                                             *)
EXTENDS LocalMemory, SequenceTheorems, TLAPS

Ops == {Idle} \cup Walking \cup Storing \cup Caching \cup Asking \cup Done

\* the local variables a session has at each place
LEMMA Shapes ==
    ASSUME NEW o \in Ops
    PROVE  /\ o.at \in {"list", "read"} => o \in Walking
           /\ o.at \in {"store", "record"} => o \in Storing
           /\ o.at \in {"snap", "write"} => o \in Caching
           /\ o.at = "check" => o \in Asking
           /\ o.at = "served" => o \in Done
<1>1. CASE o = Idle
  BY <1>1 DEF Idle
<1>2. CASE o \in Walking
  BY <1>2 DEF Walking
<1>3. CASE o \in Storing
  BY <1>3 DEF Storing
<1>4. CASE o \in Caching
  BY <1>4 DEF Caching
<1>5. CASE o \in Asking
  BY <1>5 DEF Asking
<1>6. CASE o \in Done
  BY <1>6 DEF Done
<1> QED
  BY <1>1, <1>2, <1>3, <1>4, <1>5, <1>6 DEF Ops

\* a session that takes up a well-typed operation leaves the table of sessions well typed
LEMMA OpStep ==
    ASSUME op \in [Sessions -> Ops], NEW p \in Sessions, NEW o \in Ops,
           op' = [op EXCEPT ![p] = o]
    PROVE  /\ op' \in [Sessions -> Ops]
           /\ op'[p] = o
           /\ \A q \in Sessions : q # p => op'[q] = op[q]
OBVIOUS

\* the types of what an operation reads and writes, apart from the sessions' own variables
Tables ==
    /\ file \in [Files -> Contents \cup {None}]
    /\ doc \in [Sources -> Texts \cup {None}]
    /\ index \in [Files -> Contents \cup {None}]
    /\ cache \in Seq(Snapshots)
    /\ faults \in 0 .. MaxFaults
History ==
    /\ clean \in [Sessions -> BOOLEAN]
    /\ missed \in [Sessions -> SUBSET Files]
RowsStay == \A p \in Sessions : op[p].at = "write" => op[p].id <= Len(cache)

LEMMA TypeParts == TypeOK <=> Tables /\ History /\ op \in [Sessions -> Ops] /\ RowsStay
  BY DEF TypeOK, Tables, History, RowsStay, Ops

LEMMA CheckingType ==
    ASSUME NEW rows \in Seq(Snapshots)
    PROVE  Checking(rows) \in Asking \cup Done
<1>1. CASE rows = <<>>
  BY <1>1 DEF Checking, Done
<1>2. CASE rows # <<>>
  <2>1. Nothing \in Snapshots
    BY DEF Nothing, Snapshots
  <2> QED
    BY <1>2, <2>1 DEF Checking, Asking, Tracked
<1> QED
  BY <1>1, <1>2

\* steps of ingest_directory keep the types
LEMMA IngestTypes ==
    ASSUME TypeOK, NEW p \in Sessions,
           \/ IngestBegin(p) \/ IngestList(p)
           \/ \E f \in Files : IngestFile(p, f)
           \/ IngestRemember(p) \/ IngestRecord(p) \/ IngestSweep(p)
    PROVE  TypeOK'
<1> SUFFICES Tables' /\ History' /\ op' \in [Sessions -> Ops] /\ RowsStay'
  BY DEF TypeOK, Tables, History, RowsStay, Ops
<1> USE TypeParts
<1>1. op[p] \in Ops
  OBVIOUS
<1>2. CASE IngestBegin(p)
  <2>1. Ingest("list", index, {}, {}, None, None) \in Ops
    BY DEF Ingest, Ops, Walking, Tables
  <2>2. op' \in [Sessions -> Ops] /\ RowsStay'
    BY <1>2, <2>1, OpStep DEF IngestBegin, Starts, Ingest, RowsStay
  <2> QED
    BY <1>2, <2>2 DEF IngestBegin, Starts, Tables, History, Textless
<1>3. CASE IngestList(p)
  <2>1. op[p] \in Walking
    BY <1>1, <1>3, Shapes DEF IngestList
  <2>2. Ingest("read", op[p].known, {f \in Files : file[f] # None}, {}, None, None) \in Ops
    BY <2>1 DEF Ingest, Ops, Walking
  <2>3. op' \in [Sessions -> Ops] /\ RowsStay'
    BY <1>3, <2>2, OpStep DEF IngestList, Ingest, RowsStay
  <2> QED
    BY <1>3, <2>3 DEF IngestList, Tables, History
<1>4. CASE \E f \in Files : IngestFile(p, f)
  <2>1. PICK f \in Files : IngestFile(p, f)
    BY <1>4
  <2>2. op[p] \in Walking
    BY <1>1, <2>1, Shapes DEF IngestFile
  <2>3. PICK o \in Ops : op' = [op EXCEPT ![p] = o] /\ o.at # "write"
    <3>1. CASE file[f] = None \/ op[p].known[f] = file[f]
      BY <2>1, <2>2, <3>1 DEF IngestFile, Ingest, Ops, Walking
    <3>2. CASE file[f] # None /\ op[p].known[f] # file[f]
      BY <2>1, <2>2, <3>2 DEF IngestFile, Ingest, Ops, Walking, Storing, Tables
    <3> QED
      BY <3>1, <3>2
  <2>4. op' \in [Sessions -> Ops] /\ RowsStay'
    BY <2>1, <2>3, OpStep DEF IngestFile, RowsStay
  <2> QED
    BY <2>1, <2>4 DEF IngestFile, Tables, History
<1>5. CASE IngestRemember(p)
  <2>1. op[p] \in Storing
    BY <1>1, <1>5, Shapes DEF IngestRemember
  <2>2. Ingest("record", op[p].known, op[p].left, op[p].seen, op[p].cur, op[p].text) \in Ops
    BY <2>1 DEF Ingest, Ops, Storing
  <2>3. op' \in [Sessions -> Ops] /\ RowsStay'
    BY <1>5, <2>2, OpStep DEF IngestRemember, Ingest, RowsStay
  <2> QED
    BY <1>5, <2>1, <2>3
       DEF IngestRemember, Disturbs, Tables, History, Storing, Stored, Sources
<1>6. CASE IngestRecord(p)
  <2>1. op[p] \in Storing
    BY <1>1, <1>6, Shapes DEF IngestRecord
  <2>2. Ingest("read", op[p].known, op[p].left, op[p].seen, None, None) \in Ops
    BY <2>1 DEF Ingest, Ops, Storing, Walking
  <2>3. op' \in [Sessions -> Ops] /\ RowsStay'
    BY <1>6, <2>2, OpStep DEF IngestRecord, Ingest, RowsStay
  <2> QED
    BY <1>6, <2>1, <2>3 DEF IngestRecord, Disturbs, Tables, History, Storing
<1>7. CASE IngestSweep(p)
  <2>1. [at |-> "ingested"] \in Ops
    BY DEF Ops, Done
  <2>2. op' \in [Sessions -> Ops] /\ RowsStay'
    BY <1>7, <2>1, OpStep DEF IngestSweep, RowsStay
  <2>3. History'
    <3>1. CASE Stale(op[p]) = {}
      BY <1>7, <3>1 DEF IngestSweep, History
    <3>2. CASE Stale(op[p]) # {}
      BY <1>7, <3>2 DEF IngestSweep, Disturbs, History
    <3> QED
      BY <3>1, <3>2
  <2>4. Tables'
    BY <1>7 DEF IngestSweep, Tables
  <2> QED
    BY <2>2, <2>3, <2>4
<1> QED
  BY <1>2, <1>3, <1>4, <1>5, <1>6, <1>7

\* steps of cache_answer and lookup_answer keep the types
LEMMA AnswerTypes ==
    ASSUME TypeOK, NEW p \in Sessions,
           \/ \E evidence \in Citations : CacheBegin(p, evidence)
           \/ LookupBegin(p)
           \/ \E s \in Sources : Snapshot(p, s)
           \/ CacheFind(p) \/ CacheWrite(p) \/ LookupRow(p)
           \/ Return(p) \/ Fails(p)
    PROVE  TypeOK'
<1> SUFFICES Tables' /\ History' /\ op' \in [Sessions -> Ops] /\ RowsStay'
  BY DEF TypeOK, Tables, History, RowsStay, Ops
<1> USE TypeParts
<1>1. op[p] \in Ops /\ Idle \in Ops /\ Nothing \in Snapshots
  BY DEF Ops, Nothing, Snapshots
<1>2. CASE \E evidence \in Citations : CacheBegin(p, evidence)
  <2>1. PICK evidence \in Citations : CacheBegin(p, evidence)
    BY <1>2
  <2>2. [at |-> "snap", left |-> evidence, state |-> Nothing] \in Ops
    BY <1>1, MemoryAssumption DEF Ops, Caching
  <2>3. op' \in [Sessions -> Ops] /\ RowsStay'
    BY <2>1, <2>2, OpStep DEF CacheBegin, Starts, RowsStay
  <2> QED
    BY <2>1, <2>3 DEF CacheBegin, Starts, Tables, History, Textless
<1>3. CASE LookupBegin(p)
  <2>1. Checking(cache) \in Ops /\ Checking(cache).at # "write"
    BY CheckingType DEF Ops, Tables, Asking, Done
  <2>2. op' \in [Sessions -> Ops] /\ RowsStay'
    BY <1>3, <2>1, OpStep DEF LookupBegin, Starts, RowsStay
  <2> QED
    BY <1>3, <2>2 DEF LookupBegin, Starts, Tables, History, Textless
<1>4. CASE \E s \in Sources : Snapshot(p, s)
  <2>1. PICK s \in Sources : Snapshot(p, s)
    BY <1>4
  <2> DEFINE o == [op[p] EXCEPT !.left = op[p].left \ {s},
                              !.state = [op[p].state EXCEPT ![s] = doc[s]]]
  <2>2. o \in Ops /\ o.at # "write"
    <3>1. CASE op[p].at = "snap"
      <4>1. op[p] \in [at : {"snap"}, left : SUBSET Sources, state : Snapshots]
        BY <1>1, <3>1, Shapes DEF Caching
      <4> QED
        BY <4>1 DEF Ops, Caching, Snapshots, Tables
    <3>2. CASE op[p].at = "check"
      <4>1. op[p] \in Asking
        BY <1>1, <3>2, Shapes
      <4> QED
        BY <4>1 DEF Ops, Asking, Snapshots, Tables
    <3> QED
      BY <2>1, <3>1, <3>2 DEF Snapshot
  <2>3. op' = [op EXCEPT ![p] = o]
    BY <2>1 DEF Snapshot
  <2>4. op' \in [Sessions -> Ops] /\ RowsStay'
    <3> HIDE DEF o
    <3> QED
      BY <2>1, <2>2, <2>3, OpStep DEF Snapshot, RowsStay
  <2> QED
    BY <2>1, <2>4 DEF Snapshot, Tables, History
<1>5. CASE CacheFind(p)
  <2>1. op[p] \in Caching
    BY <1>1, <1>5, Shapes DEF CacheFind
  <2>2. [at |-> "write", state |-> op[p].state, id |-> Len(cache)] \in Ops
    BY <2>1 DEF Ops, Caching, Tables
  <2>3. op' \in [Sessions -> Ops] /\ RowsStay'
    BY <1>5, <2>2, OpStep DEF CacheFind, RowsStay
  <2> QED
    BY <1>5, <2>3 DEF CacheFind, Tables, History
<1>6. CASE CacheWrite(p)
  <2>1. op[p] \in [at : {"write"}, state : Snapshots, id : Nat]
    BY <1>1, <1>6, Shapes DEF CacheWrite, Caching
  <2>2. cache' \in Seq(Snapshots) /\ Len(cache') >= Len(cache)
    <3>1. CASE op[p].id = 0
      BY <1>6, <2>1, <3>1 DEF CacheWrite, Tables
    <3>2. CASE op[p].id # 0
      <4>1. op[p].id \in 1 .. Len(cache)
        BY <1>6, <2>1, <3>2 DEF CacheWrite, RowsStay, Tables
      <4>2. cache' = [cache EXCEPT ![op[p].id] = op[p].state]
        BY <1>6, <3>2 DEF CacheWrite
      <4> QED
        BY <2>1, <4>1, <4>2, ExceptSeq DEF Tables
    <3> QED
      BY <3>1, <3>2
  <2>3. op' \in [Sessions -> Ops] /\ \A q \in Sessions : q # p => op'[q] = op[q]
    BY <1>1, <1>6, OpStep DEF CacheWrite, Ends
  <2>4. op'[p].at # "write"
    BY <1>1, <1>6, OpStep DEF CacheWrite, Ends, Idle
  <2>5. RowsStay'
    <3> SUFFICES ASSUME NEW q \in Sessions, op'[q].at = "write"
                 PROVE  op'[q].id <= Len(cache')
      BY DEF RowsStay
    <3>1. op[q].at = "write" /\ op'[q] = op[q]
      BY <2>3, <2>4
    <3>2. op[q] \in [at : {"write"}, state : Snapshots, id : Nat]
      BY <3>1, Shapes DEF Caching
    <3> QED
      BY <2>2, <3>1, <3>2 DEF RowsStay, Tables
  <2> QED
    BY <1>6, <2>2, <2>3, <2>5 DEF CacheWrite, Ends, Tables, History
<1>7. CASE LookupRow(p)
  <2>1. op[p] \in Asking
    BY <1>1, <1>7, Shapes DEF LookupRow
  <2>2. Head(op[p].rows) \in Snapshots /\ Tail(op[p].rows) \in Seq(Snapshots)
    BY <2>1 DEF Asking
  <2>3. PICK o \in Ops : op' = [op EXCEPT ![p] = o] /\ o.at # "write"
    <3>1. CASE Current(op[p])
      BY <1>7, <2>2, <3>1 DEF LookupRow, Ops, Done
    <3>2. CASE ~Current(op[p])
      BY <1>7, <2>2, <3>2, CheckingType DEF LookupRow, Ops, Asking, Done
    <3> QED
      BY <3>1, <3>2
  <2>4. op' \in [Sessions -> Ops] /\ RowsStay'
    BY <1>7, <2>3, OpStep DEF LookupRow, RowsStay
  <2> QED
    BY <1>7, <2>4 DEF LookupRow, Tables, History
<1>8. CASE Return(p) \/ Fails(p)
  <2>1. op' = [op EXCEPT ![p] = Idle] /\ UNCHANGED cache
    BY <1>8 DEF Return, Fails, Ends
  <2>2. op' \in [Sessions -> Ops] /\ RowsStay'
    BY <1>1, <2>1, OpStep DEF RowsStay, Idle
  <2>3. faults' \in 0 .. MaxFaults
    BY <1>8, MemoryAssumption DEF Return, Fails, Tables
  <2>4. History'
    BY <1>8 DEF Return, Fails, Ends, History
  <2> QED
    BY <1>8, <2>2, <2>3, <2>4 DEF Return, Fails, Tables
<1> QED
  BY <1>2, <1>3, <1>4, <1>5, <1>6, <1>7, <1>8

(* Every variable of LocalMemory keeps its type, and the row that          *)
(* cache_answer updates by its id exists.                                  *)
THEOREM TypeCorrect == Spec => []TypeOK
<1>1. Init => TypeOK
  BY MemoryAssumption DEF Init, TypeOK, Nothing, Idle
<1>2. ASSUME TypeOK, [Next]_vars PROVE TypeOK'
  <2>1. CASE \E f \in Files, c \in Contents \cup {None} : EditFile(f, c)
    BY <1>2, <2>1 DEF EditFile, TypeOK, Textless
  <2>2. CASE \E p \in Sessions, s \in Notes, t \in Contents : Remember(p, s, t)
    BY <1>2, <2>2 DEF Remember, Disturbs, TypeOK, Stored, Sources
  <2>3. CASE \E p \in Sessions : SessionStep(p)
    BY <1>2, <2>3, IngestTypes, AnswerTypes DEF SessionStep
  <2>4. CASE UNCHANGED vars
    BY <1>2, <2>4 DEF vars, TypeOK
  <2> QED
    BY <1>2, <2>1, <2>2, <2>3, <2>4 DEF Next
<1> QED
  BY <1>1, <1>2, PTL DEF Spec

-----------------------------------------------------------------------------
(* The inductive invariant, one part for each kind of operation.           *)

\* what an ingest has not discovered was without text at some time
Discovers(p) ==
    op[p].at \in {"read", "store", "record"} =>
        /\ \A f \in Files : f \notin op[p].left /\ f \notin op[p].seen => f \in missed[p]
        /\ op[p].left \cap op[p].seen = {}
        /\ op[p].at # "read" =>
              op[p].cur \in op[p].seen /\ (op[p].text \notin Texts => op[p].cur \in missed[p])

\* an undisturbed ingest: what it knows is what project_files holds, except for the
\* files it has seen, whose hashes are those of the directory
Walks(p) ==
    clean[p] =>
        /\ op[p].at = "list" => op[p].known = index
        /\ op[p].at \in {"read", "store", "record"} => \A f \in Files :
              /\ f \notin op[p].seen => op[p].known[f] = index[f]
              /\ f \notin op[p].seen => (f \in op[p].left <=> file[f] # None)
              /\ f \in op[p].seen /\ (op[p].at = "read" \/ f # op[p].cur) => index[f] = file[f]
              /\ op[p].at # "read" /\ f = op[p].cur => op[p].text = file[f]
        /\ op[p].at = "ingested" => index = file

\* an undisturbed lookup: the snapshot is what documents holds
Compares(p) ==
    clean[p] =>
        /\ op[p].at = "check" => \A s \in Tracked(Head(op[p].rows)) :
              s \notin op[p].left => op[p].state[s] = doc[s]
        /\ op[p].at = "served" => \A s \in Tracked(op[p].row) : op[p].row[s] = doc[s]

SessionInv(p) ==
    /\ op[p] # Idle => Textless(file) \subseteq missed[p]
    /\ Discovers(p) /\ Walks(p) /\ Compares(p)
MemoryInv == \A p \in Sessions : SessionInv(p)

\* a session that is not the one that steps
LEMMA OthersKeep ==
    ASSUME NEW q \in Sessions, SessionInv(q),
           op'[q] = op[q], missed'[q] = missed[q], clean'[q] => clean[q],
           UNCHANGED file, clean'[q] => UNCHANGED <<doc, index>>
    PROVE  SessionInv(q)'
<1>1. (op[q] # Idle => Textless(file) \subseteq missed[q])' /\ Discovers(q)'
  BY DEF SessionInv, Discovers, Textless
<1>2. Walks(q)'
  BY DEF SessionInv, Walks
<1>3. Compares(q)'
  BY DEF SessionInv, Compares, Tracked
<1> QED
  BY <1>1, <1>2, <1>3 DEF SessionInv

LEMMA IdleKeeps ==
    ASSUME NEW p \in Sessions, op'[p] = Idle
    PROVE  SessionInv(p)'
BY DEF SessionInv, Discovers, Walks, Compares, Idle

LEMMA IngestInv ==
    ASSUME TypeOK, TypeOK', MemoryInv, NEW p \in Sessions,
           \/ IngestBegin(p) \/ IngestList(p)
           \/ \E f \in Files : IngestFile(p, f)
           \/ IngestRemember(p) \/ IngestRecord(p) \/ IngestSweep(p)
    PROVE  MemoryInv'
<1> USE TypeParts
<1>0. /\ op[p] \in Ops /\ SessionInv(p) /\ UNCHANGED file
      /\ \A q \in Sessions \ {p} : SessionInv(q)'
  <2>1. op[p] \in Ops /\ SessionInv(p)
    BY DEF MemoryInv
  <2>2. UNCHANGED file
    BY DEF IngestBegin, IngestList, IngestFile, IngestRemember, IngestRecord, IngestSweep
  <2>3. ASSUME NEW q \in Sessions \ {p}
        PROVE  /\ op'[q] = op[q] /\ missed'[q] = missed[q]
               /\ clean'[q] => clean[q]
               /\ clean'[q] => UNCHANGED <<doc, index>>
    <3>1. CASE IngestBegin(p) \/ IngestList(p) \/ \E f \in Files : IngestFile(p, f)
      BY <3>1 DEF IngestBegin, Starts, IngestList, IngestFile, History
    <3>2. CASE IngestRemember(p) \/ IngestRecord(p)
      BY <3>2 DEF IngestRemember, IngestRecord, Disturbs, History
    <3>3. CASE IngestSweep(p)
      <4>1. op'[q] = op[q] /\ missed'[q] = missed[q]
        BY <3>3 DEF IngestSweep
      <4>2. CASE Stale(op[p]) = {}
        BY <3>3, <4>1, <4>2 DEF IngestSweep, Tables
      <4>3. CASE Stale(op[p]) # {}
        BY <3>3, <4>1, <4>3 DEF IngestSweep, Disturbs, History
      <4> QED
        BY <4>2, <4>3
    <3> QED
      BY <3>1, <3>2, <3>3
  <2>4. ASSUME NEW q \in Sessions \ {p} PROVE SessionInv(q)'
    <3>1. SessionInv(q)
      BY DEF MemoryInv
    <3> HIDE DEF SessionInv
    <3> QED
      BY <2>2, <2>3, <3>1, OthersKeep
  <2> QED
    BY <2>1, <2>2, <2>4
<1> SUFFICES SessionInv(p)'
  BY <1>0 DEF MemoryInv
<1>1. CASE IngestBegin(p)
  BY <1>0, <1>1 DEF IngestBegin, Starts, Ingest, SessionInv, Discovers, Walks, Compares,
                    Textless, History
<1>2. CASE IngestList(p)
  <2>1. op[p] \in Walking
    BY <1>0, <1>2, Shapes DEF IngestList
  <2> DEFINE o == Ingest("read", op[p].known, {f \in Files : file[f] # None}, {}, None, None)
  <2>2. op'[p] = o /\ UNCHANGED <<missed, clean, doc, index>> /\ op[p] # Idle
    BY <1>2 DEF IngestList, Idle
  <2>3. Discovers(p)'
    BY <1>0, <2>2, MemoryAssumption DEF Ingest, SessionInv, Discovers, Textless, Contents
  <2>4. Walks(p)' /\ Compares(p)'
    BY <1>0, <1>2, <2>2 DEF Ingest, SessionInv, Walks, Compares, IngestList
  <2> QED
    BY <1>0, <2>2, <2>3, <2>4 DEF SessionInv, Textless
<1>3. CASE \E f \in Files : IngestFile(p, f)
  <2>1. PICK f \in Files : IngestFile(p, f)
    BY <1>3
  <2>2. op[p] \in Walking /\ op[p].at = "read"
    BY <1>0, <2>1, Shapes DEF IngestFile
  <2>3. UNCHANGED <<missed, clean, doc, index>> /\ op[p] # Idle
    BY <2>1 DEF IngestFile, Idle
  <2>4. CASE file[f] = None
    <3>1. op'[p] = Ingest("read", op[p].known, op[p].left \ {f}, op[p].seen, None, None)
      BY <2>1, <2>4 DEF IngestFile
    <3>2. f \in op[p].left /\ f \in missed[p]
      BY <1>0, <2>1, <2>3, <2>4, MemoryAssumption DEF IngestFile, SessionInv, Textless, Contents
    <3>3. Discovers(p)'
      BY <1>0, <2>2, <2>3, <3>1, <3>2 DEF Ingest, SessionInv, Discovers
    <3>4. Walks(p)' /\ Compares(p)'
      BY <1>0, <2>2, <2>3, <2>4, <3>1 DEF Ingest, SessionInv, Walks, Compares
    <3> QED
      BY <1>0, <2>3, <3>3, <3>4 DEF SessionInv, Textless
  <2>5. CASE file[f] # None /\ op[p].known[f] = file[f]
    <3>1. op'[p] = Ingest("read", op[p].known, op[p].left \ {f}, op[p].seen \cup {f}, None, None)
      BY <2>1, <2>5 DEF IngestFile
    <3>2. f \in op[p].left /\ f \notin op[p].seen
      BY <1>0, <2>1, <2>2 DEF IngestFile, SessionInv, Discovers
    <3>3. Discovers(p)'
      BY <1>0, <2>2, <2>3, <3>1, <3>2 DEF Ingest, SessionInv, Discovers
    <3>4. Walks(p)' /\ Compares(p)'
      BY <1>0, <2>2, <2>3, <2>5, <3>1, <3>2 DEF Ingest, SessionInv, Walks, Compares
    <3> QED
      BY <1>0, <2>3, <3>3, <3>4 DEF SessionInv, Textless
  <2>6. CASE file[f] # None /\ op[p].known[f] # file[f]
    <3>1. op'[p] = Ingest("store", op[p].known, op[p].left \ {f}, op[p].seen \cup {f}, f, file[f])
      BY <2>1, <2>6 DEF IngestFile
    <3>2. f \in op[p].left /\ f \notin op[p].seen /\ (file[f] \notin Texts => f \in missed[p])
      BY <1>0, <2>1, <2>2, <2>3 DEF IngestFile, SessionInv, Discovers, Textless
    <3>3. Discovers(p)'
      BY <1>0, <2>2, <2>3, <3>1, <3>2 DEF Ingest, SessionInv, Discovers
    <3>4. Walks(p)' /\ Compares(p)'
      BY <1>0, <2>2, <2>3, <2>6, <3>1, <3>2 DEF Ingest, SessionInv, Walks, Compares
    <3> QED
      BY <1>0, <2>3, <3>3, <3>4 DEF SessionInv, Textless
  <2> QED
    BY <2>4, <2>5, <2>6
<1>4. CASE IngestRemember(p)
  <2>1. op[p] \in Storing /\ op[p] # Idle
    BY <1>0, <1>4, Shapes DEF IngestRemember, Idle
  <2>2. /\ op'[p] = Ingest("record", op[p].known, op[p].left, op[p].seen, op[p].cur, op[p].text)
        /\ UNCHANGED <<missed, index>> /\ clean'[p] = clean[p]
    BY <1>4 DEF IngestRemember, Disturbs, History
  <2>3. Discovers(p)'
    BY <1>0, <1>4, <2>2 DEF Ingest, SessionInv, Discovers, IngestRemember
  <2>4. Walks(p)' /\ Compares(p)'
    BY <1>0, <1>4, <2>2 DEF Ingest, SessionInv, Walks, Compares, IngestRemember
  <2> QED
    BY <1>0, <2>1, <2>2, <2>3, <2>4 DEF SessionInv, Textless
<1>5. CASE IngestRecord(p)
  <2>1. op[p] \in Storing /\ op[p] # Idle
    BY <1>0, <1>5, Shapes DEF IngestRecord, Idle
  <2>2. /\ op'[p] = Ingest("read", op[p].known, op[p].left, op[p].seen, None, None)
        /\ UNCHANGED <<missed, doc>> /\ clean'[p] = clean[p] /\ op[p].at = "record"
        /\ index' = [index EXCEPT ![op[p].cur] = op[p].text]
    BY <1>5 DEF IngestRecord, Disturbs, History
  <2>3. Discovers(p)'
    BY <1>0, <2>2 DEF Ingest, SessionInv, Discovers
  <2>4. Walks(p)' /\ Compares(p)'
    BY <1>0, <2>1, <2>2 DEF Ingest, SessionInv, Discovers, Walks, Compares, Tables, Storing
  <2> QED
    BY <1>0, <2>1, <2>2, <2>3, <2>4 DEF SessionInv, Textless
<1>6. CASE IngestSweep(p)
  <2>1. op[p] \in Walking /\ op[p] # Idle /\ op[p].at = "read" /\ op[p].left = {}
    BY <1>0, <1>6, Shapes DEF IngestSweep, Idle
  <2>2. op'[p] = [at |-> "ingested"] /\ UNCHANGED missed
    BY <1>6 DEF IngestSweep
  <2>3. clean'[p] = clean[p]
    <3>1. CASE Stale(op[p]) = {}
      BY <1>6, <3>1 DEF IngestSweep
    <3>2. CASE Stale(op[p]) # {}
      BY <1>6, <3>2 DEF IngestSweep, Disturbs, History
    <3> QED
      BY <3>1, <3>2
  <2>4. ASSUME clean[p], NEW f \in Files
        PROVE  index'[f] = file[f]
    <3>1. index'[f] = IF f \in Stale(op[p]) THEN None ELSE index[f]
      BY <1>6 DEF IngestSweep
    <3>2. CASE f \in op[p].seen
      BY <1>0, <2>1, <2>4, <3>1, <3>2 DEF SessionInv, Walks, Stale
    <3>3. CASE f \notin op[p].seen
      BY <1>0, <2>1, <2>4, <3>1, <3>3 DEF SessionInv, Walks, Stale
    <3> QED
      BY <3>2, <3>3
  <2>5. Walks(p)'
    <3>1. clean[p] => index' = file'
      BY <1>0, <2>4, TypeOK' DEF TypeOK
    <3> QED
      BY <2>2, <2>3, <3>1 DEF Walks
  <2> QED
    BY <1>0, <2>1, <2>2, <2>5 DEF SessionInv, Discovers, Compares, Textless
<1> QED
  BY <1>1, <1>2, <1>3, <1>4, <1>5, <1>6

LEMMA AnswerInv ==
    ASSUME TypeOK, MemoryInv, NEW p \in Sessions,
           \/ \E evidence \in Citations : CacheBegin(p, evidence)
           \/ LookupBegin(p)
           \/ \E s \in Sources : Snapshot(p, s)
           \/ CacheFind(p) \/ CacheWrite(p) \/ LookupRow(p)
           \/ Return(p) \/ Fails(p)
    PROVE  MemoryInv'
<1> USE TypeParts
<1>0. /\ op[p] \in Ops /\ SessionInv(p) /\ UNCHANGED <<file, doc, index>>
      /\ \A q \in Sessions \ {p} : SessionInv(q)'
  <2>1. op[p] \in Ops /\ SessionInv(p)
    BY DEF MemoryInv
  <2>2. UNCHANGED <<file, doc, index>>
    BY DEF CacheBegin, LookupBegin, Snapshot, CacheFind, CacheWrite, LookupRow, Return, Fails
  <2>3. ASSUME NEW q \in Sessions \ {p}
        PROVE  op'[q] = op[q] /\ missed'[q] = missed[q] /\ clean'[q] = clean[q]
    <3>1. CASE (\E evidence \in Citations : CacheBegin(p, evidence)) \/ LookupBegin(p)
      BY <3>1 DEF CacheBegin, LookupBegin, Starts, History
    <3>2. CASE (\E s \in Sources : Snapshot(p, s)) \/ CacheFind(p) \/ LookupRow(p)
      BY <3>2 DEF Snapshot, CacheFind, LookupRow
    <3>3. CASE CacheWrite(p) \/ Return(p) \/ Fails(p)
      BY <3>3 DEF CacheWrite, Return, Fails, Ends, History
    <3> QED
      BY <3>1, <3>2, <3>3
  <2> QED
    BY <2>1, <2>2, <2>3, OthersKeep DEF MemoryInv
<1> SUFFICES SessionInv(p)'
  BY <1>0 DEF MemoryInv
\* an operation whose place has nothing to say about files
<1>1. ASSUME op'[p].at \in {"snap", "write", "check", "missed", "served"},
             Textless(file) \subseteq missed'[p], Compares(p)'
      PROVE  SessionInv(p)'
  BY <1>0, <1>1 DEF SessionInv, Discovers, Walks, Textless
<1>2. CASE \E evidence \in Citations : CacheBegin(p, evidence)
  <2>1. op'[p].at = "snap" /\ missed'[p] = Textless(file)
    BY <1>2 DEF CacheBegin, Starts, History
  <2> QED
    BY <1>1, <2>1 DEF Compares
<1>3. CASE LookupBegin(p)
  <2>1. op'[p] = Checking(cache) /\ missed'[p] = Textless(file)
    BY <1>3 DEF LookupBegin, Starts, History
  <2> QED
    BY <1>1, <2>1 DEF Compares, Checking
<1>4. CASE \E s \in Sources : Snapshot(p, s)
  <2>1. PICK s \in Sources : Snapshot(p, s)
    BY <1>4
  <2>2. op[p].at \in {"snap", "check"} /\ op[p] # Idle /\ UNCHANGED <<clean, missed>>
    <3>1. op[p].at \in {"snap", "check"} /\ UNCHANGED <<clean, missed>>
      BY <2>1 DEF Snapshot
    <3> QED
      BY <3>1 DEF Idle
  <2>3. op'[p] = [op[p] EXCEPT !.left = op[p].left \ {s},
                               !.state = [op[p].state EXCEPT ![s] = doc[s]]]
    BY <2>1 DEF Snapshot
  <2>4. CASE op[p].at = "snap"
    <3>1. op[p] \in [at : {"snap"}, left : SUBSET Sources, state : Snapshots]
      BY <1>0, <2>4, Shapes DEF Caching
    <3>2. op'[p].at = "snap"
      BY <2>3, <3>1
    <3> QED
      BY <1>0, <1>1, <2>2, <3>2 DEF SessionInv, Compares
  <2>5. CASE op[p].at = "check"
    <3>1. op[p] \in Asking
      BY <1>0, <2>5, Shapes
    <3>2. /\ op'[p].at = "check" /\ op'[p].rows = op[p].rows
          /\ op'[p].left = op[p].left \ {s}
          /\ op'[p].state = [op[p].state EXCEPT ![s] = doc[s]]
      BY <2>3, <3>1 DEF Asking
    <3>3. Compares(p)'
      BY <1>0, <2>2, <3>1, <3>2 DEF SessionInv, Compares, Tracked, Asking, Snapshots
    <3> QED
      BY <1>0, <1>1, <2>2, <3>2, <3>3 DEF SessionInv
  <2> QED
    BY <2>2, <2>4, <2>5
<1>5. CASE CacheFind(p)
  <2>1. op'[p].at = "write" /\ op[p] # Idle /\ UNCHANGED missed
    BY <1>5 DEF CacheFind, Idle
  <2> QED
    BY <1>0, <1>1, <2>1 DEF SessionInv, Compares
<1>6. CASE LookupRow(p)
  <2>1. op[p] \in Asking /\ op[p] # Idle /\ UNCHANGED <<clean, missed>> /\ op[p].left = {}
    BY <1>0, <1>6, Shapes DEF LookupRow, Idle
  <2>2. CASE Current(op[p])
    <3>1. op'[p] = [at |-> "served", row |-> Head(op[p].rows)]
      BY <1>6, <2>2 DEF LookupRow
    <3>2. Compares(p)'
      BY <1>0, <1>6, <2>1, <2>2, <3>1 DEF LookupRow, SessionInv, Compares, Current, Tracked
    <3> QED
      BY <1>0, <1>1, <2>1, <3>1, <3>2 DEF SessionInv
  <2>3. CASE ~Current(op[p])
    <3>1. op'[p] = Checking(Tail(op[p].rows))
      BY <1>6, <2>3 DEF LookupRow
    <3> QED
      BY <1>0, <1>1, <2>1, <3>1 DEF SessionInv, Compares, Checking
  <2> QED
    BY <2>2, <2>3
<1>7. CASE CacheWrite(p) \/ Return(p) \/ Fails(p)
  BY <1>7, IdleKeeps DEF CacheWrite, Return, Fails, Ends
<1> QED
  BY <1>2, <1>3, <1>4, <1>5, <1>6, <1>7

THEOREM MemoryInvHolds == Spec => []MemoryInv
<1>1. Init => MemoryInv
  BY DEF Init, MemoryInv, SessionInv, Discovers, Walks, Compares, Idle
<1>2. ASSUME TypeOK, TypeOK', MemoryInv, [Next]_vars PROVE MemoryInv'
  <2>1. CASE \E f \in Files, c \in Contents \cup {None} : EditFile(f, c)
    <3> SUFFICES ASSUME NEW q \in Sessions PROVE SessionInv(q)'
      BY DEF MemoryInv
    <3>1. /\ UNCHANGED op /\ ~clean'[q]
          /\ op[q] # Idle => missed'[q] = missed[q] \cup Textless(file')
      BY <2>1 DEF EditFile
    <3> QED
      BY <1>2, <3>1
         DEF MemoryInv, SessionInv, Discovers, Walks, Compares, Textless, Idle
  <2>2. CASE \E p \in Sessions, s \in Notes, t \in Contents : Remember(p, s, t)
    <3>1. PICK p \in Sessions, s \in Notes, t \in Contents : Remember(p, s, t)
      BY <2>2
    <3> SUFFICES ASSUME NEW q \in Sessions PROVE SessionInv(q)'
      BY DEF MemoryInv
    <3>2. /\ UNCHANGED <<op, missed, file>> /\ op[p] = Idle
          /\ clean'[q] => clean[q] /\ q = p
      BY <3>1 DEF Remember, Disturbs
    <3> QED
      BY <1>2, <3>2, IdleKeeps, OthersKeep DEF MemoryInv
  <2>3. CASE \E p \in Sessions : SessionStep(p)
    BY <1>2, <2>3, IngestInv, AnswerInv DEF SessionStep
  <2>4. CASE UNCHANGED vars
    BY <1>2, <2>4, OthersKeep DEF vars, MemoryInv
  <2> QED
    BY <1>2, <2>1, <2>2, <2>3, <2>4 DEF Next
<1> QED
  BY <1>1, <1>2, TypeCorrect, PTL DEF Spec

(* Once an ingest that nobody disturbed has ended, every file whose stored *)
(* text and stored hash agree has the text of the directory.               *)
THEOREM FilesSync == Spec => []AgreeingFilesSync
<1>1. MemoryInv => AgreeingFilesSync
  BY DEF MemoryInv, SessionInv, Walks, AgreeingFilesSync
<1> QED
  BY <1>1, MemoryInvHolds, PTL

(* lookup_answer serves an answer only while the documents it tracks have  *)
(* the text they had when it was cached.                                   *)
THEOREM AnswersCurrent == Spec => []ServedIsCurrent
<1>1. MemoryInv => ServedIsCurrent
  BY DEF MemoryInv, SessionInv, Compares, ServedIsCurrent
<1> QED
  BY <1>1, MemoryInvHolds, PTL

(* An ingest removes the documents of a file only if the file had no text  *)
(* at some time since this ingest began.                                   *)
THEOREM FilesStay == Spec => PresentFilesStay
<1> DEFINE Stay == \A f \in Files : doc[f] # None /\ doc'[f] = None =>
                       \E p \in Sessions : op'[p] # op[p] /\ f \in missed[p]
<1>1. ASSUME TypeOK, MemoryInv, [Next]_vars PROVE [Stay]_vars
  <2> SUFFICES ASSUME Next, NEW f \in Files, doc[f] # None, doc'[f] = None
               PROVE  \E p \in Sessions : op'[p] # op[p] /\ f \in missed[p]
    BY <1>1
  <2>1. ~\E g \in Files, c \in Contents \cup {None} : EditFile(g, c)
    BY DEF EditFile
  <2>2. ~\E p \in Sessions, s \in Notes, t \in Contents : Remember(p, s, t)
    BY <1>1, MemoryAssumption DEF Remember, TypeOK, Sources
  <2>3. PICK p \in Sessions : SessionStep(p)
    BY <2>1, <2>2 DEF Next
  <2>4. IngestRemember(p) \/ IngestSweep(p)
    BY <2>3 DEF SessionStep, IngestBegin, IngestList, IngestFile, IngestRecord, CacheBegin,
                LookupBegin, Snapshot, CacheFind, CacheWrite, LookupRow, Return, Fails
  <2>5. op[p] \in Ops /\ SessionInv(p) /\ op \in [Sessions -> Ops]
    BY <1>1, TypeParts DEF MemoryInv
  <2>6. CASE IngestRemember(p)
    <3>1. op'[p].at # op[p].at
      BY <2>5, <2>6 DEF IngestRemember, Ingest
    <3>2. op[p].cur = f /\ Stored(op[p].text) = None
      BY <1>1, <2>6 DEF IngestRemember, TypeOK, Sources
    <3> QED
      BY <2>5, <2>6, <3>1, <3>2, MemoryAssumption
         DEF IngestRemember, Stored, SessionInv, Discovers, Contents
  <2>7. CASE IngestSweep(p)
    <3>1. op'[p].at # op[p].at
      BY <2>5, <2>7 DEF IngestSweep
    <3>2. f \in Stale(op[p]) /\ op[p].left = {} /\ op[p].at = "read"
      BY <1>1, <2>7 DEF IngestSweep, Sources
    <3> QED
      BY <2>5, <3>1, <3>2 DEF Stale, SessionInv, Discovers
  <2> QED
    BY <2>4, <2>6, <2>7
<1> QED
  BY <1>1, TypeCorrect, MemoryInvHolds, PTL DEF Spec, PresentFilesStay

=============================================================================

---------------------------- MODULE LocalMemory ----------------------------
(***************************************************************************)
(* local_assistant/memory.py: the documents of an indexed directory, the   *)
(* answers cached with digests of their evidence, and the sessions (MCP    *)
(* servers and command lines, each a process of its own) that share one    *)
(* SQLite file.  Reads run in autocommit, so every SELECT and every write  *)
(* transaction is a step, and other sessions may come in between.          *)
(*                                                                         *)
(* A text stands for its chunks, its hash and its digest.  The one         *)
(* question modelled stands for all that a lookup finds similar enough:    *)
(* equal questions score alike, so their rows are tried oldest first.      *)
(* record_decision is Remember with a note as its source.                  *)
(***************************************************************************)
EXTENDS Integers, FiniteSets, Sequences

CONSTANTS Sessions,     \* processes that use the memory
          Askers,       \* bound: those of them that cache and look up answers
          Files,        \* sources of the indexed directory
          Notes,        \* other sources: notes and decisions
          Texts,        \* contents with something to store
          Blank,        \* a content of white space, which has no chunks
          None,         \* no file, no row
          Citations,    \* the sets of sources that answers may cite as evidence
          MaxFaults     \* bound: processes killed, databases locked too long

Sources == Files \cup Notes
Contents == Texts \cup {Blank}

ASSUME MemoryAssumption ==
    /\ None \notin Contents /\ Blank \notin Texts
    /\ Files \cap Notes = {}
    /\ Askers \subseteq Sessions
    /\ Citations \subseteq SUBSET Sources
    /\ MaxFaults \in Nat

VARIABLES file,     \* the directory: the content of a file, None if it is absent or skipped
          doc,      \* documents: the text whose chunks are stored
          index,    \* project_files: the content whose hash is stored
          cache,    \* answer_cache in the order of its ids: the evidence_state of each row
          op,       \* what each session is doing, with its local variables
          clean,    \* history: nobody else changed files or documents since the session began
          missed,   \* history: files without text at some time since the session began
          faults

vars == <<file, doc, index, cache, op, clean, missed, faults>>

Stored(c) == IF c \in Texts THEN c ELSE None

Nothing == [s \in Sources |-> None]
Idle == [at |-> "idle"]

\* the running ingest_directory: what project_files held, files to visit, files
\* discovered, and the file being stored with the text that was read from it
Ingest(at, known, left, seen, cur, text) ==
    [at |-> at, known |-> known, left |-> left, seen |-> seen, cur |-> cur, text |-> text]

\* evidence_state: the digest of each tracked source, None for the others
Snapshots == [Sources -> Texts \cup {None}]

Walking == [at : {"list", "read"}, known : [Files -> Contents \cup {None}],
            left : SUBSET Files, seen : SUBSET Files, cur : {None}, text : {None}]
Storing == [at : {"store", "record"}, known : [Files -> Contents \cup {None}],
            left : SUBSET Files, seen : SUBSET Files, cur : Files, text : Contents]
Caching == [at : {"snap"}, left : SUBSET Sources, state : Snapshots]
           \cup [at : {"write"}, state : Snapshots, id : Nat]
Asking == [at : {"check"}, rows : Seq(Snapshots) \ {<<>>},
           left : SUBSET Sources, state : Snapshots]
Done == [at : {"ingested", "missed"}] \cup [at : {"served"}, row : Snapshots]

TypeOK ==
    /\ file \in [Files -> Contents \cup {None}]
    /\ doc \in [Sources -> Texts \cup {None}]
    /\ index \in [Files -> Contents \cup {None}]
    /\ cache \in Seq(Snapshots)
    /\ op \in [Sessions -> {Idle} \cup Walking \cup Storing \cup Caching \cup Asking \cup Done]
    /\ clean \in [Sessions -> BOOLEAN]
    /\ missed \in [Sessions -> SUBSET Files]
    /\ faults \in 0 .. MaxFaults
    \* rows are never deleted
    /\ \A p \in Sessions : op[p].at = "write" => op[p].id <= Len(cache)

Init ==
    /\ file \in [Files -> Contents \cup {None}]
    /\ doc = Nothing
    /\ index = [f \in Files |-> None]
    /\ cache = <<>>
    /\ op = [p \in Sessions |-> Idle]
    /\ clean = [p \in Sessions |-> FALSE]
    /\ missed = [p \in Sessions |-> {}]
    /\ faults = 0

-----------------------------------------------------------------------------
(* Bookkeeping of the two history variables.                               *)

Textless(files) == {f \in Files : files[f] \notin Texts}

Starts(p, rec) ==
    /\ op[p] = Idle
    /\ op' = [op EXCEPT ![p] = rec]
    /\ clean' = [clean EXCEPT ![p] = TRUE]
    /\ missed' = [missed EXCEPT ![p] = Textless(file)]

Ends(p) ==
    /\ op' = [op EXCEPT ![p] = Idle]
    /\ clean' = [clean EXCEPT ![p] = FALSE]
    /\ missed' = [missed EXCEPT ![p] = {}]

\* p wrote documents or project_files: nobody else is undisturbed
Disturbs(p) == clean' = [q \in Sessions |-> q = p /\ clean[q]]

-----------------------------------------------------------------------------
(* Somebody edits, creates, deletes or blanks a file of the directory.     *)
EditFile(f, c) ==
    /\ c # file[f]
    /\ file' = [file EXCEPT ![f] = c]
    /\ clean' = [q \in Sessions |-> FALSE]
    /\ missed' = [q \in Sessions |->
                     IF op[q] = Idle THEN {} ELSE missed[q] \cup Textless(file')]
    /\ UNCHANGED <<doc, index, cache, op, faults>>

\* remember: the old chunks are deleted and the new ones inserted in one transaction
Remember(p, s, t) ==
    /\ op[p] = Idle
    /\ doc' = [doc EXCEPT ![s] = Stored(t)]
    /\ Disturbs(p)
    /\ UNCHANGED <<file, index, cache, op, missed, faults>>

-----------------------------------------------------------------------------
(* ingest_directory                                                        *)

\* the hashes of project_files are read once, before the directory is walked
IngestBegin(p) ==
    /\ Starts(p, Ingest("list", index, {}, {}, None, None))
    /\ UNCHANGED <<file, doc, index, cache, faults>>

\* mutant of IngestList: only files that changed are walked
IngestListChanged(p) ==
    /\ op[p].at = "list"
    /\ op' = [op EXCEPT ![p] = Ingest("read", op[p].known,
                   {f \in Files : file[f] \notin {None, op[p].known[f]}}, {}, None, None)]
    /\ UNCHANGED <<file, doc, index, cache, clean, missed, faults>>

\* sorted(root.rglob("*")) lists the directory before the first file is read
IngestList(p) ==
    /\ op[p].at = "list"
    /\ op' = [op EXCEPT ![p] = Ingest("read", op[p].known,
                                      {f \in Files : file[f] # None}, {}, None, None)]
    /\ UNCHANGED <<file, doc, index, cache, clean, missed, faults>>

\* one file of the list: gone or skipped, unchanged, or to be stored
IngestFile(p, f) ==
    LET i == op[p]
        Visit(at, seen, cur, text) ==
            op' = [op EXCEPT ![p] = Ingest(at, i.known, i.left \ {f}, seen, cur, text)]
    IN /\ i.at = "read" /\ f \in i.left
       /\ \/ file[f] = None /\ Visit("read", i.seen, None, None)
          \/ /\ file[f] # None /\ i.known[f] = file[f]
             /\ Visit("read", i.seen \cup {f}, None, None)
          \/ /\ file[f] # None /\ i.known[f] # file[f]
             /\ Visit("store", i.seen \cup {f}, f, file[f])
       /\ UNCHANGED <<file, doc, index, cache, clean, missed, faults>>

\* the documents are stored in one transaction, their hash in a second one
IngestRemember(p) ==
    LET i == op[p] IN
    /\ i.at = "store"
    /\ doc' = [doc EXCEPT ![i.cur] = Stored(i.text)]
    /\ op' = [op EXCEPT ![p] = Ingest("record", i.known, i.left, i.seen, i.cur, i.text)]
    /\ Disturbs(p)
    /\ UNCHANGED <<file, index, cache, missed, faults>>

IngestRecord(p) ==
    LET i == op[p] IN
    /\ i.at = "record"
    /\ index' = [index EXCEPT ![i.cur] = i.text]
    /\ op' = [op EXCEPT ![p] = Ingest("read", i.known, i.left, i.seen, None, None)]
    /\ Disturbs(p)
    /\ UNCHANGED <<file, doc, cache, missed, faults>>

\* mutant of Stale: deleted files are not removed
StaleForgetful(i) == {}

\* sources that were known and not discovered leave documents and project_files
Stale(i) == {f \in Files : i.known[f] # None} \ i.seen
IngestSweep(p) ==
    LET i == op[p] IN
    /\ i.at = "read" /\ i.left = {}
    /\ doc' = [s \in Sources |-> IF s \in Stale(i) THEN None ELSE doc[s]]
    /\ index' = [f \in Files |-> IF f \in Stale(i) THEN None ELSE index[f]]
    /\ op' = [op EXCEPT ![p] = [at |-> "ingested"]]
    /\ IF Stale(i) = {} THEN UNCHANGED clean ELSE Disturbs(p)
    /\ UNCHANGED <<file, cache, missed, faults>>

-----------------------------------------------------------------------------
(* cache_answer and lookup_answer                                          *)

CacheBegin(p, evidence) ==
    /\ Starts(p, [at |-> "snap", left |-> evidence, state |-> Nothing])
    /\ UNCHANGED <<file, doc, index, cache, faults>>

\* _evidence_snapshot: one SELECT per source; a source without rows is left out
Snapshot(p, s) ==
    /\ op[p].at \in {"snap", "check"} /\ s \in op[p].left
    /\ op' = [op EXCEPT ![p] = [op[p] EXCEPT !.left = op[p].left \ {s},
                                 !.state = [op[p].state EXCEPT ![s] = doc[s]]]]
    /\ UNCHANGED <<file, doc, index, cache, clean, missed, faults>>

\* the newest row of the question, 0 if there is none
CacheFind(p) ==
    LET c == op[p] IN
    /\ c.at = "snap" /\ c.left = {}
    /\ op' = [op EXCEPT ![p] = [at |-> "write", state |-> c.state, id |-> Len(cache)]]
    /\ UNCHANGED <<file, doc, index, cache, clean, missed, faults>>

CacheWrite(p) ==
    LET c == op[p] IN
    /\ c.at = "write"
    /\ cache' = IF c.id = 0 THEN Append(cache, c.state) ELSE [cache EXCEPT ![c.id] = c.state]
    /\ Ends(p)
    /\ UNCHANGED <<file, doc, index, faults>>

Tracked(row) == {s \in Sources : row[s] # None}
Checking(rows) ==
    IF rows = <<>> THEN [at |-> "missed"]
    ELSE [at |-> "check", rows |-> rows, left |-> Tracked(Head(rows)), state |-> Nothing]

LookupBegin(p) ==
    /\ Starts(p, Checking(cache))
    /\ UNCHANGED <<file, doc, index, cache, faults>>

\* mutant of Current: sources that left the documents are not compared
CurrentWhereStored(c) ==
    \A s \in Sources : c.state[s] # None => c.state[s] = Head(c.rows)[s]

\* _evidence_is_current compares the snapshot with the one in the row
Current(c) == c.state = Head(c.rows)
LookupRow(p) ==
    LET c == op[p] IN
    /\ c.at = "check" /\ c.left = {}
    /\ \/ Current(c) /\ op' = [op EXCEPT ![p] = [at |-> "served", row |-> Head(c.rows)]]
       \/ ~Current(c) /\ op' = [op EXCEPT ![p] = Checking(Tail(c.rows))]
    /\ UNCHANGED <<file, doc, index, cache, clean, missed, faults>>

-----------------------------------------------------------------------------
Return(p) ==
    /\ op[p].at \in {"ingested", "served", "missed"}
    /\ Ends(p)
    /\ UNCHANGED <<file, doc, index, cache, faults>>

\* the process is killed, a file vanishes while it is read, or another writer holds
\* the database for more than the five seconds of busy_timeout
Fails(p) ==
    /\ op[p] # Idle /\ faults < MaxFaults
    /\ Ends(p)
    /\ faults' = faults + 1
    /\ UNCHANGED <<file, doc, index, cache>>

SessionStep(p) ==
    \/ IngestBegin(p) \/ IngestList(p)
    \/ \E f \in Files : IngestFile(p, f)
    \/ IngestRemember(p) \/ IngestRecord(p) \/ IngestSweep(p)
    \/ p \in Askers /\ \E evidence \in Citations : CacheBegin(p, evidence)
    \/ p \in Askers /\ LookupBegin(p)
    \/ \E s \in Sources : Snapshot(p, s)
    \/ CacheFind(p) \/ CacheWrite(p) \/ LookupRow(p)
    \/ Return(p) \/ Fails(p)

Next ==
    \/ \E f \in Files, c \in Contents \cup {None} : EditFile(f, c)
    \/ \E p \in Sessions, s \in Notes, t \in Contents : Remember(p, s, t)
    \/ \E p \in Sessions : SessionStep(p)

Spec == Init /\ [][Next]_vars

-----------------------------------------------------------------------------
(* LOCAL_ASSISTANT.md:44 promises of ingestion that changed files are      *)
(* refreshed and deleted files removed.  What the code keeps of it, over   *)
(* crashes and other sessions: when an ingest that nobody disturbed ends,  *)
(* a file whose stored text and stored hash agree has the text of the      *)
(* directory.  Only the two writes of one file, torn apart by a crash or   *)
(* by another session, escape an ingest.                                   *)
AgreeingFilesSync ==
    \A p \in Sessions : op[p].at = "ingested" /\ clean[p] =>
        \A f \in Files : doc[f] = Stored(index[f]) => doc[f] = Stored(file[f])

(* No ingest removes the documents of a file that had text all the time    *)
(* this ingest ran, whatever other ingests store and sweep meanwhile.      *)
PresentFilesStay ==
    [][\A f \in Files : doc[f] # None /\ doc'[f] = None =>
           \E p \in Sessions : op'[p] # op[p] /\ f \in missed[p]]_vars

(* LOCAL_ASSISTANT.md:49: a cached answer is served only while each source *)
(* its row tracks has the text it had when the answer was cached; the      *)
(* lookup reads the sources one by one, so this is said of documents that  *)
(* did not change during it.                                               *)
ServedIsCurrent ==
    \A p \in Sessions : op[p].at = "served" /\ clean[p] =>
        \A s \in Tracked(op[p].row) : doc[s] = op[p].row[s]

=============================================================================

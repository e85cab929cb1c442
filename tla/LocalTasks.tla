---------------------------- MODULE LocalTasks ----------------------------
(***************************************************************************)
(* The task ledger of local_assistant/memory.py, shared by several         *)
(* sessions.  Tasks do not meet, so the model has one.  start_task and     *)
(* update_task read the row in autocommit and write it later.              *)
(***************************************************************************)
EXTENDS FiniteSets

CONSTANTS Sessions, Items       \* items of verification evidence

Statuses == {"active", "completed", "blocked", "cancelled"}

VARIABLES task,     \* the row: its status, "none" if there is no row, and its evidence
          op,       \* what each session is doing
          reported  \* history: evidence of calls that returned since the task was started

vars == <<task, op, reported>>

Idle == [at |-> "idle"]

TypeOK ==
    /\ task \in [status : Statuses \cup {"none"}, evidence : SUBSET Items]
    /\ op \in [Sessions -> {Idle} \cup [at : {"start"}]
                  \cup [at : {"update"}, row : [status : Statuses, evidence : SUBSET Items],
                        added : SUBSET Items]]
    /\ reported \in SUBSET Items

Init ==
    /\ task = [status |-> "none", evidence |-> {}]
    /\ op = [p \in Sessions |-> Idle]
    /\ reported = {}

\* start_task returns an active task as it is; it restarts any other
StartRead(p) ==
    /\ op[p] = Idle /\ task.status # "active"
    /\ op' = [op EXCEPT ![p] = [at |-> "start"]]
    /\ UNCHANGED <<task, reported>>

StartWrite(p) ==
    /\ op[p].at = "start"
    /\ task' = [status |-> "active", evidence |-> {}]
    /\ reported' = {}
    /\ op' = [op EXCEPT ![p] = Idle]

\* update_task raises for an unknown task; it merges the evidence it has read
UpdateRead(p, status, added) ==
    /\ op[p] = Idle /\ task.status # "none"
    /\ op' = [op EXCEPT ![p] = [at |-> "update", added |-> added,
                 row |-> [status |-> status, evidence |-> task.evidence \cup added]]]
    /\ UNCHANGED <<task, reported>>

UpdateWrite(p) ==
    /\ op[p].at = "update"
    /\ task' = op[p].row
    /\ reported' = reported \cup op[p].added
    /\ op' = [op EXCEPT ![p] = Idle]

Next == \E p \in Sessions :
    \/ StartRead(p) \/ StartWrite(p) \/ UpdateWrite(p)
    \/ \E status \in Statuses, added \in SUBSET Items : UpdateRead(p, status, added)

Spec == Init /\ [][Next]_vars

(* local_assistant/server.py:74, "Update task state and append             *)
(* verification evidence": evidence that update_task has reported stays    *)
(* with the task until it is started again.                                *)
EvidenceAppended == reported \subseteq task.evidence
=============================================================================

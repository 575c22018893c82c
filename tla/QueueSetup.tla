----------------------------- MODULE QueueSetup -----------------------------
(***************************************************************************)
(* SetupTables of pkg/queue/postgres/setup.go, retried by NewIniter of     *)
(* pkg/db/migrations/init.go: every service brings the tables schedules    *)
(* and tasks to the columns it expects, replaces the notification trigger  *)
(* and creates the indexes.                                                *)
(*                                                                         *)
(* Each step is a statement of its own that commits by itself; the columns *)
(* are listed in one statement and changed in a later one.  Services of    *)
(* several versions, with different lists of references, start together.  *)
(* One column stands for the system columns of each kind: a key, one with  *)
(* an index and, in tasks, the reference to schedules.                     *)
(***************************************************************************)
EXTENDS Naturals, Sequences

CONSTANTS
    Services,   \* services that set up the queue when they start
    Configs,    \* lists of references a service may come with, as ColumnNames
    MaxRetries, \* bound: attempts within the elapsed time of the backoff
    MaxFaults   \* bound: failed statements and crashes

ASSUME ConfigsAssumption == Configs \subseteq Seq(STRING)
ASSUME BoundsAssumption == MaxRetries \in Nat \ {0} /\ MaxFaults \in Nat

VARIABLES
    refsOf,   \* the references of each service, which do not change
    columns,  \* the columns of each table, {} when it does not exist
    indexes,  \* the <<table, column>> that have an index
    trigger,  \* notify_task_update_trigger exists
    pc,       \* next statement of each service
    listed,   \* currentColumns of each service
    attempts, \* attempts of each service that ended in an error
    faults    \* faults so far

vars == <<refsOf, columns, indexes, trigger, pc, listed, attempts, faults>>

Tables == {"schedules", "tasks"}

scheduleColumns == {"schedule_id", "task_queue"}
taskColumns == {"task_id", "queue", "schedule_id"}
SystemColumns(t) == IF t = "schedules" THEN scheduleColumns ELSE taskColumns

SystemIndexes == {<<"schedules", "task_queue">>, <<"tasks", "queue">>, <<"tasks", "schedule_id">>}

Names(list) == {list[i] : i \in DOMAIN list}
Refs(s) == Names(refsOf[s])
AllColumns ==
    scheduleColumns \cup taskColumns \cup UNION {Names(c) : c \in Configs}

(* A reference replaces a column that is already expected: a system column *)
(* of the table, or an earlier reference.                                  *)
Refused(list, t) ==
    \E i \in DOMAIN list :
        \/ list[i] \in SystemColumns(t)
        \/ \E j \in 1..(i - 1) : list[j] = list[i]

ValidConfigs == {c \in Configs : \A t \in Tables : ~Refused(c, t)}

(* expectedColumns *)
Expected(s, t) == SystemColumns(t) \cup Refs(s)

TypeOK ==
    /\ refsOf \in [Services -> Configs]
    /\ columns \in [Tables -> SUBSET AllColumns]
    /\ indexes \subseteq Tables \X AllColumns
    /\ trigger \in BOOLEAN
    /\ pc \in [Services -> {"list schedules", "sync schedules", "list tasks", "sync tasks",
                            "trigger", "indexes", "error", "returned", "gave up"}]
    /\ listed \in [Services -> SUBSET AllColumns]
    /\ attempts \in [Services -> 0..MaxRetries]
    /\ faults \in 0..MaxFaults

(* A new database, or one that a service of some version has set up. *)
Init ==
    /\ refsOf \in [Services -> Configs]
    /\ \/ columns = [t \in Tables |-> {}] /\ indexes = {} /\ trigger = FALSE
       \/ \E c \in ValidConfigs :
             /\ columns = [t \in Tables |-> SystemColumns(t) \cup Names(c)]
             /\ indexes = SystemIndexes \cup (Tables \X Names(c))
             /\ trigger = TRUE
    /\ pc = [s \in Services |-> "list schedules"]
    /\ listed = [s \in Services |-> {}]
    /\ attempts = [s \in Services |-> 0]
    /\ faults = 0

-----------------------------------------------------------------------------
Goto(s, label) == pc' = [pc EXCEPT ![s] = label]

(* SetupTables returns an error: the attempt is over. *)
ReturnError(s) ==
    /\ Goto(s, "error")
    /\ attempts' = [attempts EXCEPT ![s] = @ + 1]

(* Where s goes on in syncTable and after it. *)
ListLabel(t) == IF t = "schedules" THEN "list schedules" ELSE "list tasks"
SyncLabel(t) == IF t = "schedules" THEN "sync schedules" ELSE "sync tasks"
AfterSync(t) == IF t = "schedules" THEN "list tasks" ELSE "trigger"

(* The check of the references and listColumns. *)
ListColumns(s, t) ==
    /\ pc[s] = ListLabel(t)
    /\ IF Refused(refsOf[s], t)
       THEN ReturnError(s) /\ UNCHANGED listed
       ELSE Goto(s, SyncLabel(t)) /\ listed' = [listed EXCEPT ![s] = columns[t]] /\ UNCHANGED attempts
    /\ UNCHANGED <<refsOf, columns, indexes, trigger, faults>>

(* The table was not there: CREATE TABLE IF NOT EXISTS does nothing when   *)
(* another service has created it since.                                   *)
CreateTable(s, t) ==
    /\ pc[s] = SyncLabel(t) /\ listed[s] = {}
    /\ columns' = IF columns[t] = {} THEN [columns EXCEPT ![t] = Expected(s, t)] ELSE columns
    /\ Goto(s, AfterSync(t))
    /\ UNCHANGED <<refsOf, indexes, trigger, listed, attempts, faults>>

(* Mutant: columns that are missing are not added. *)
NothingMissing(s, t) == {}

Missing(s, t) == Expected(s, t) \ listed[s]

(* Mutant: whatever is no system column is dropped. *)
NoSystemColumn(s, t) == listed[s] \ SystemColumns(t)

(* Mutant: redundant columns stay. *)
NothingRedundant(s, t) == {}

Redundant(s, t) == listed[s] \ Expected(s, t)

(* One ALTER TABLE with all ADD and DROP COLUMN clauses.  It fails as a    *)
(* whole if a column it adds exists by now, or one it drops is gone; an    *)
(* index goes with its column.  There is no statement if nothing differs.  *)
AlterTable(s, t) ==
    /\ pc[s] = SyncLabel(t) /\ listed[s] # {}
    /\ IF Missing(s, t) \cap columns[t] = {} /\ Redundant(s, t) \subseteq columns[t]
       THEN /\ columns' = [columns EXCEPT ![t] = (@ \cup Missing(s, t)) \ Redundant(s, t)]
            /\ indexes' = indexes \ ({t} \X Redundant(s, t))
            /\ Goto(s, AfterSync(t)) /\ UNCHANGED attempts
       ELSE ReturnError(s) /\ UNCHANGED <<columns, indexes>>
    /\ listed' = [listed EXCEPT ![s] = {}]
    /\ UNCHANGED <<refsOf, trigger, faults>>

(* notifySetup *)
SetupTrigger(s) ==
    /\ pc[s] = "trigger"
    /\ trigger' = TRUE
    /\ Goto(s, "indexes")
    /\ UNCHANGED <<refsOf, columns, indexes, listed, attempts, faults>>

(* Mutant: the references get no index. *)
OnlySystemIndexes(s) == SystemIndexes

(* applyIndexes *)
ApplyIndexes(s) == SystemIndexes \cup (Tables \X Refs(s))

(* CREATE INDEX IF NOT EXISTS for each of them, in one statement; it fails *)
(* if one is missing and its column is not there.                          *)
CreateIndexes(s) ==
    /\ pc[s] = "indexes"
    /\ IF \A i \in ApplyIndexes(s) : i \in indexes \/ i[2] \in columns[i[1]]
       THEN indexes' = indexes \cup ApplyIndexes(s) /\ Goto(s, "returned") /\ UNCHANGED attempts
       ELSE ReturnError(s) /\ UNCHANGED indexes
    /\ UNCHANGED <<refsOf, columns, trigger, listed, faults>>

-----------------------------------------------------------------------------
(* The backoff around initialize *)

MayRetry(s) == attempts[s] < MaxRetries

Retry(s) ==
    /\ pc[s] = "error"
    /\ Goto(s, IF MayRetry(s) THEN "list schedules" ELSE "gave up")
    /\ UNCHANGED <<refsOf, columns, indexes, trigger, listed, attempts, faults>>

Running(s) == pc[s] \notin {"error", "returned", "gave up"}

(* A statement fails: the connection is lost, two services create the      *)
(* same table or function in the same instant, or their locks deadlock.    *)
StatementFails(s) ==
    /\ Running(s)
    /\ faults < MaxFaults /\ faults' = faults + 1
    /\ ReturnError(s)
    /\ listed' = [listed EXCEPT ![s] = {}]
    /\ UNCHANGED <<refsOf, columns, indexes, trigger>>

(* The service dies between two statements, or later, and starts again. *)
Restart(s) ==
    /\ pc[s] # "list schedules"
    /\ faults < MaxFaults /\ faults' = faults + 1
    /\ Goto(s, "list schedules")
    /\ attempts' = [attempts EXCEPT ![s] = 0]
    /\ listed' = [listed EXCEPT ![s] = {}]
    /\ UNCHANGED <<refsOf, columns, indexes, trigger>>

Statement(s) ==
    \/ \E t \in Tables : ListColumns(s, t) \/ CreateTable(s, t) \/ AlterTable(s, t)
    \/ SetupTrigger(s) \/ CreateIndexes(s)

Next == \E s \in Services : Statement(s) \/ Retry(s) \/ StatementFails(s) \/ Restart(s)

Spec == Init /\ [][Next]_vars

(* Statements return and the timer of the backoff fires. *)
FairSpec == Spec /\ \A s \in Services : WF_vars(Statement(s) \/ Retry(s))

-----------------------------------------------------------------------------
(* Properties *)

(* "SetupTables sets up all the necessary tables, foreign keys and         *)
(* indexes": at the moment it returns nil every column the service needs   *)
(* is there with its index, although services of other versions created    *)
(* the tables, or dropped columns, between any two of its statements.      *)
ReturnMeansReady ==
    [][\A s \in Services :
         pc[s] # "returned" /\ pc'[s] = "returned" =>
            /\ trigger'
            /\ \A t \in Tables : Expected(s, t) \subseteq columns'[t]
            /\ Tables \X Refs(s) \subseteq indexes']_vars

(* A column that all services expect is never dropped, nor is it dropped   *)
(* and added again, which would lose its data.                             *)
CommonColumnsStay ==
    [][\A t \in Tables : \A c \in columns[t] :
         (\A s \in Services : c \in Expected(s, t)) => c \in columns'[t]]_vars

(* "This supports both: initial bootstrapping and changing of the          *)
(* reference list": when all replicas of a version have returned, the      *)
(* tables have exactly its columns, whichever version set them up before   *)
(* and in whichever order the statements of the replicas came.             *)
ReplicasConverge ==
    \A s \in Services :
        (\A r \in Services : refsOf[r] = refsOf[s] /\ pc[r] = "returned") =>
            \A t \in Tables : columns[t] = Expected(s, t)

(* Every service gets its tables before the backoff gives up, although     *)
(* the services disturb each other, if the lists of references are valid   *)
(* and those of the versions extend each other.                            *)
SetupSucceeds ==
    \A s \in Services : <>(pc[s] = "returned" \/ \E r \in Services : refsOf[r] \notin ValidConfigs)

(* An index has its column, a table that exists has its system columns,    *)
(* and no service sees a table that does not exist.                        *)
TablesInv ==
    /\ \A t \in Tables : \A c \in AllColumns : <<t, c>> \in indexes => c \in columns[t]
    /\ \A t \in Tables : columns[t] = {} \/ SystemColumns(t) \subseteq columns[t]
    /\ \A s \in Services, t \in Tables :
         pc[s] = SyncLabel(t) /\ listed[s] # {} => columns[t] # {}

(* An attempt that runs is within the bound, and the trigger is there      *)
(* before the indexes.                                                     *)
AttemptInv ==
    \A s \in Services :
        /\ Running(s) => attempts[s] < MaxRetries
        /\ pc[s] = "indexes" => trigger

(* Where a service is after its syncTable of t. *)
PastSync(t) ==
    {"trigger", "indexes", "returned"}
      \cup (IF t = "schedules" THEN {"list tasks", "sync tasks"} ELSE {})

(* Replicas of one version: as long as a table does not have the columns   *)
(* they expect, none of them is past its syncTable and each of them that   *)
(* has listed the columns has listed the current ones.                     *)
ReplicaInv ==
    (\A r \in Services, s \in Services : refsOf[r] = refsOf[s]) =>
        \A s \in Services, t \in Tables :
            \/ columns[t] = Expected(s, t)
            \/ /\ pc[s] \notin PastSync(t)
               /\ pc[s] = SyncLabel(t) => listed[s] = columns[t]

(* What SetupTables keeps true at every step: the tables have the columns  *)
(* of the version whose replicas have all returned.                        *)
SetupInv ==
    /\ TypeOK
    /\ TablesInv
    /\ AttemptInv
    /\ ReplicaInv
    /\ ReplicasConverge
=============================================================================

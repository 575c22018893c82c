------------------------------ MODULE Scheduler ------------------------------
(***************************************************************************)
(* AssertSchedule of pkg/queue/postgres/scheduler.go: in a transaction it  *)
(* locks the table schedules in SHARE mode, looks for the schedule         *)
(* (EnsureSchedule) and inserts it if it is missing (Schedule).            *)
(*                                                                         *)
(* SHARE excludes the ROW EXCLUSIVE lock that an INSERT, UPDATE or DELETE  *)
(* of another transaction needs, and does not exclude itself: two callers  *)
(* that both want to insert wait for each other until PostgreSQL aborts    *)
(* one of them.  Locks are kept until the transaction ends.                *)
(***************************************************************************)
EXTENDS Naturals

CONSTANTS
    Callers,    \* processes that call AssertSchedule
    Keys,       \* the (queue, type, spec, references) that identify a schedule
    Writers,    \* other transactions that write the table
    MaxFailures   \* bound: failed statements

ASSUME ActorsAssumption == Callers \cap Writers = {}
ASSUME KeysAssumption == Keys # {}
ASSUME FailuresAssumption == MaxFailures \in Nat

VARIABLES
    rows,    \* how many committed rows each key has
    apc,      \* what each caller or writer does next
    key,     \* the schedule each caller asserts
    share,   \* transactions that hold the SHARE lock
    rowExcl, \* transactions that hold the ROW EXCLUSIVE lock
    failures   \* failures so far

avars == <<rows, apc, key, share, rowExcl, failures>>

AssertTypeOK ==
    /\ rows \in [Keys -> Nat]
    /\ apc \in [Callers \cup Writers ->
                 {"idle", "lock", "ensure", "insert", "existed", "inserted", "written"}]
    /\ key \in [Callers -> Keys]
    /\ share \subseteq Callers
    /\ rowExcl \subseteq Callers \cup Writers
    /\ failures \in 0..MaxFailures

AssertInit ==
    /\ rows = [k \in Keys |-> 0]
    /\ apc = [a \in Callers \cup Writers |-> "idle"]
    /\ key \in [Callers -> Keys]
    /\ share = {}
    /\ rowExcl = {}
    /\ failures = 0

(* Mutant: a lock mode that does not exclude other inserts. *)
RowExclAlways(a) == a \in Callers \cup Writers

(* PostgreSQL grants a table lock that no other transaction excludes;      *)
(* requests that exclude each other are queued, so a caller cannot take    *)
(* its SHARE lock in front of one that waits to insert.                    *)
RowExclGranted(a) == share \subseteq {a}
ShareGranted(a) ==
    /\ rowExcl \subseteq {a}
    /\ \A d \in Callers \ {a} : apc[d] = "insert" => RowExclGranted(d)

(* Mutant: no rollback, the SHARE lock is kept. *)
EndAssertKeepsShare(a) ==
    /\ apc' = [apc EXCEPT ![a] = "idle"]
    /\ rowExcl' = rowExcl \ {a}
    /\ UNCHANGED share

(* End of the transaction of a. *)
EndAssert(a) ==
    /\ apc' = [apc EXCEPT ![a] = "idle"]
    /\ share' = share \ {a}
    /\ rowExcl' = rowExcl \ {a}

-----------------------------------------------------------------------------
(* AssertSchedule *)

AssertSchedule(c, k) ==
    /\ apc[c] = "idle"
    /\ key' = [key EXCEPT ![c] = k]
    /\ apc' = [apc EXCEPT ![c] = "lock"]
    /\ UNCHANGED <<rows, share, rowExcl, failures>>

(* Mutant: the table is not locked. *)
LockNothing(c) ==
    /\ apc[c] = "lock"
    /\ apc' = [apc EXCEPT ![c] = "ensure"]
    /\ UNCHANGED <<rows, key, share, rowExcl, failures>>

(* The lock that LOCK TABLE schedules IN SHARE MODE takes. *)
LockTable(c) ==
    /\ apc[c] = "lock"
    /\ ShareGranted(c)
    /\ share' = share \cup {c}
    /\ apc' = [apc EXCEPT ![c] = "ensure"]
    /\ UNCHANGED <<rows, key, rowExcl, failures>>

(* EnsureSchedule: nil, or ErrNotScheduled *)
EnsureSchedule(c) ==
    /\ apc[c] = "ensure"
    /\ apc' = [apc EXCEPT ![c] = IF rows[key[c]] > 0 THEN "existed" ELSE "insert"]
    /\ UNCHANGED <<rows, key, share, rowExcl, failures>>

(* Schedule: the INSERT upgrades the lock. *)
Schedule(c) ==
    /\ apc[c] = "insert"
    /\ RowExclGranted(c)
    /\ rowExcl' = rowExcl \cup {c}
    /\ apc' = [apc EXCEPT ![c] = "inserted"]
    /\ UNCHANGED <<rows, key, share, failures>>

(* Mutant: the transaction is always rolled back. *)
CommitNever(c) ==
    /\ apc[c] \in {"existed", "inserted"}
    /\ EndAssert(c)
    /\ UNCHANGED <<rows, key, failures>>

(* AssertSchedule returns nil. *)
Commit(c) ==
    /\ apc[c] \in {"existed", "inserted"}
    /\ rows' = [rows EXCEPT ![key[c]] = @ + (IF apc[c] = "inserted" THEN 1 ELSE 0)]
    /\ EndAssert(c)
    /\ UNCHANGED <<key, failures>>

(* A validation or statement error: roll back and return it. *)
AssertFails(c) ==
    /\ apc[c] # "idle"
    /\ failures < MaxFailures
    /\ failures' = failures + 1
    /\ EndAssert(c)
    /\ UNCHANGED <<rows, key>>

(* External: PostgreSQL finds callers that wait for each other's SHARE     *)
(* lock and aborts one of them.                                            *)
DeadlockAbort(c) ==
    /\ apc[c] = "insert"
    /\ \E d \in share \ {c} : apc[d] = "insert"
    /\ EndAssert(c)
    /\ UNCHANGED <<rows, key, failures>>

-----------------------------------------------------------------------------
(* Other writers: the UPDATE of scheduleTask, or a user's statement *)

Write(x) ==
    /\ apc[x] = "idle"
    /\ RowExclGranted(x)
    /\ rowExcl' = rowExcl \cup {x}
    /\ apc' = [apc EXCEPT ![x] = "written"]
    /\ UNCHANGED <<rows, key, share, failures>>

EndWrite(x) ==
    /\ apc[x] = "written"
    /\ \/ UNCHANGED rows
       \/ \E k \in Keys : rows[k] > 0 /\ rows' = [rows EXCEPT ![k] = @ - 1]
    /\ EndAssert(x)
    /\ UNCHANGED <<key, failures>>

-----------------------------------------------------------------------------
CallerStep(c) ==
    \/ LockTable(c) \/ EnsureSchedule(c) \/ Schedule(c) \/ Commit(c) \/ DeadlockAbort(c)

AssertNext ==
    \/ \E c \in Callers, k \in Keys : AssertSchedule(c, k)
    \/ \E c \in Callers : CallerStep(c) \/ AssertFails(c)
    \/ \E x \in Writers : Write(x) \/ EndWrite(x)

AssertSpec == AssertInit /\ [][AssertNext]_avars

(* Statements return; PostgreSQL queues lock requests, so a caller gets    *)
(* its lock although writers come and go; deadlocks are resolved.          *)
FairAssertSpec ==
    /\ AssertSpec
    /\ \A c \in Callers : WF_avars(CallerStep(c)) /\ SF_avars(LockTable(c)) /\ SF_avars(Schedule(c))
    /\ \A x \in Writers : WF_avars(EndWrite(x))

-----------------------------------------------------------------------------
(* Properties *)

(* Callers of AssertSchedule never create a schedule twice, although each  *)
(* looks for the row before it inserts it.                                 *)
OneRowPerKey == \A k \in Keys : rows[k] <= 1

(* AssertSchedule "makes sure a schedule with the given parameters         *)
(* exists": when it returns nil the row is in the table, also if a writer  *)
(* wanted to delete it after EnsureSchedule had seen it.                   *)
AssertedExists ==
    [][\A c \in Callers :
         apc[c] \in {"existed", "inserted"} /\ apc'[c] = "idle" /\ UNCHANGED failures
            => rows'[key[c]] > 0]_avars

(* Every call of AssertSchedule returns, also when callers wait for each   *)
(* other's SHARE lock and when writers keep coming.                        *)
AssertReturns == \A c \in Callers : apc[c] = "lock" ~> apc[c] = "idle"

(* Callers that race do not all fail: unless a statement fails, some       *)
(* schedule gets created.  The callers that are aborted may have asked for *)
(* another schedule than the one that succeeds.                            *)
SomeAssertSucceeds ==
    \A c \in Callers : apc[c] = "lock" ~> ((\E k \in Keys : rows[k] > 0) \/ failures > 0)

(* A transaction has the SHARE lock from LOCK TABLE to its end and the ROW *)
(* EXCLUSIVE lock once it has written; a writer never runs AssertSchedule. *)
LockInv ==
    /\ \A c \in Callers :
         /\ c \in share <=> apc[c] \in {"ensure", "insert", "existed", "inserted"}
         /\ c \in rowExcl <=> apc[c] = "inserted"
         /\ apc[c] # "written"
    /\ \A x \in Writers :
         /\ x \in rowExcl <=> apc[x] = "written"
         /\ apc[x] \in {"idle", "written"}
    /\ \A a \in rowExcl : share \subseteq {a}

(* What EnsureSchedule saw stays true until the transaction ends. *)
SeenInv ==
    \A c \in Callers :
        /\ apc[c] = "existed" => rows[key[c]] > 0
        /\ apc[c] \in {"insert", "inserted"} => rows[key[c]] = 0

(* What AssertSchedule keeps true at every step: its locks protect what it *)
(* has seen, so check and insert of several callers never leave a schedule *)
(* twice.                                                                  *)
SchedulerInv ==
    /\ AssertTypeOK
    /\ LockInv
    /\ SeenInv
    /\ OneRowPerKey
=============================================================================

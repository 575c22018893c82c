------------------------------ MODULE Migrations ------------------------------
(***************************************************************************)
(* PrepareDatabase of pkg/db/migrations: services that start at the same   *)
(* time take the lock of the table `migrations` in an outer transaction    *)
(* and, on other connections, run the init statement, the migrations and   *)
(* the views; only then the outer transaction records what was run.        *)
(*                                                                         *)
(* The effects and their record are committed separately.  The model       *)
(* counts how often each statement took effect and how many of these       *)
(* effects belong to an outer transaction that is gone without a record.   *)
(***************************************************************************)
EXTENDS Integers, SequencesExt

CONSTANTS
    Services,    \* processes that call PrepareDatabase when they start
    Apps,        \* the values of appVersion
    AppOf,       \* the appVersion of each service
    ListOf,      \* the MigrationStatements of each appVersion
    Files,       \* the migration statements that appear in them
    InitSQL,     \* the statement 000_init.sql
    PoolSize,    \* connections a service may open
    MaxFaults,   \* bound: errors, crashes and lost connections
    NoService    \* the holder of the lock nobody holds

ASSUME AppsAssumption == AppOf \in [Services -> Apps] /\ ListOf \in [Apps -> Seq(Files)]
ASSUME DistinctAssumption ==  \* a name that is listed twice would be run twice
    \A a \in Apps : \A i, j \in DOMAIN ListOf[a] : ListOf[a][i] = ListOf[a][j] => i = j
ASSUME NamesAssumption == InitSQL \notin Files /\ Apps \cap (Files \cup {InitSQL}) = {}
ASSUME BoundsAssumption == PoolSize \in Nat /\ MaxFaults \in Nat
ASSUME ServicesAssumption == NoService \notin Services

VARIABLES
    recorded,  \* the committed rows of the table migrations
    runs,      \* how often each statement has taken effect
    undone,    \* how many of these effects no outer transaction can record
    views,     \* app versions whose views are set up
    dropped,   \* app versions for which a failed Commit of the views was ignored
    lock,      \* the service whose transaction holds the table lock
    pc,        \* what each service does next
    todo,      \* the statements its migrate has still to look at
    batch,     \* the statements its migrate has executed
    pending,   \* the statements whose effect waits to be recorded
    lost,      \* the services whose outer transaction is gone
    faults     \* faults so far

vars == <<recorded, runs, undone, views, dropped, lock, pc, todo, batch, pending, lost, faults>>

Statements == Files \cup {InitSQL}

(* The outer transaction is open and has the lock. *)
InTx == {"check", "decide", "init", "migrate", "views", "record"}

TypeOK ==
    /\ recorded \subseteq Statements \cup Apps
    /\ runs \in [Statements -> Nat]
    /\ undone \in [Statements -> Nat]
    /\ views \subseteq Apps
    /\ dropped \subseteq Apps
    /\ lock \in Services \cup {NoService}
    /\ pc \in [Services -> {"start", "lock", "done", "failed"} \cup InTx]
    /\ todo \in [Services -> Seq(Files)]
    /\ batch \in [Services -> SUBSET Files]
    /\ pending \in [Services -> SUBSET Statements]
    /\ lost \subseteq Services
    /\ faults \in 0..MaxFaults

Init ==
    /\ recorded = {}
    /\ runs = [m \in Statements |-> 0]
    /\ undone = [m \in Statements |-> 0]
    /\ views = {}
    /\ dropped = {}
    /\ lock = NoService
    /\ pc = [p \in Services |-> "start"]
    /\ todo = [p \in Services |-> <<>>]
    /\ batch = [p \in Services |-> {}]
    /\ pending = [p \in Services |-> {}]
    /\ lost = {}
    /\ faults = 0

Fault == faults < MaxFaults /\ faults' = faults + 1

Goto(p, stage) == pc' = [pc EXCEPT ![p] = stage]

(* The statements of S, once more. *)
Plus(count, S) == [m \in Statements |-> IF m \in S THEN count[m] + 1 ELSE count[m]]

-----------------------------------------------------------------------------
(* The outer transaction *)

(* CREATE TABLE and CREATE INDEX IF NOT EXISTS, and BeginTx.  CREATE INDEX *)
(* needs a SHARE lock, which excludes the lock of another service.         *)
PrepareTracking(p) ==
    /\ pc[p] \in {"start", "failed"}
    /\ lock = NoService
    /\ Goto(p, "lock")
    /\ UNCHANGED <<recorded, runs, undone, views, dropped, lock, todo, batch, pending, lost, faults>>

(* Mutant: a lock mode that several services can hold. *)
LockTableShared(p) ==
    /\ pc[p] = "lock"
    /\ Goto(p, "check")
    /\ UNCHANGED <<recorded, runs, undone, views, dropped, lock, todo, batch, pending, lost, faults>>

(* LOCK TABLE migrations IN SHARE ROW EXCLUSIVE MODE *)
LockTable(p) ==
    /\ pc[p] = "lock"
    /\ lock = NoService
    /\ lock' = p
    /\ Goto(p, "check")
    /\ UNCHANGED <<recorded, runs, undone, views, dropped, todo, batch, pending, lost, faults>>

(* Mutant: neither Commit nor Rollback. *)
EndTxLocked(p, stage) ==
    /\ Goto(p, stage)
    /\ todo' = [todo EXCEPT ![p] = <<>>]
    /\ batch' = [batch EXCEPT ![p] = {}]
    /\ pending' = [pending EXCEPT ![p] = {}]
    /\ lost' = lost \ {p}
    /\ UNCHANGED lock

(* End of the outer transaction; without a commit the effects that wait    *)
(* for their record are there and nobody will record them.                 *)
EndTx(p, stage) ==
    /\ Goto(p, stage)
    /\ lock' = IF lock = p THEN NoService ELSE lock
    /\ todo' = [todo EXCEPT ![p] = <<>>]
    /\ batch' = [batch EXCEPT ![p] = {}]
    /\ pending' = [pending EXCEPT ![p] = {}]
    /\ lost' = lost \ {p}

(* The version of the app is in the table: commit and return. *)
VersionMatches(p) ==
    /\ pc[p] = "check" /\ p \notin lost
    /\ AppOf[p] \in recorded
    /\ EndTx(p, "done")
    /\ UNCHANGED <<recorded, runs, undone, views, dropped, faults>>

(* sql.ErrNoRows: go on. *)
VersionIsNew(p) ==
    /\ pc[p] = "check" /\ p \notin lost
    /\ AppOf[p] \notin recorded
    /\ Goto(p, "decide")
    /\ UNCHANGED <<recorded, runs, undone, views, dropped, lock, todo, batch, pending, lost, faults>>

(* shouldRunInit, on a second connection *)
ShouldRunInit(p) ==
    /\ pc[p] = "decide"
    /\ PoolSize >= 2
    /\ todo' = [todo EXCEPT ![p] = ListOf[AppOf[p]]]
    /\ Goto(p, IF InitSQL \in recorded THEN "migrate" ELSE "init")
    /\ UNCHANGED <<recorded, runs, undone, views, dropped, lock, batch, pending, lost, faults>>

(* A statement takes effect outside the outer transaction. *)
TakeEffect(p, S) ==
    /\ runs' = Plus(runs, S)
    /\ IF p \in lost
         THEN undone' = Plus(undone, S) /\ UNCHANGED pending
         ELSE pending' = [pending EXCEPT ![p] = @ \cup S] /\ UNCHANGED undone

(* initialize; saveVersionHash fails if the outer transaction is gone. *)
RunInit(p) ==
    /\ pc[p] = "init"
    /\ TakeEffect(p, {InitSQL})
    /\ Goto(p, IF p \in lost THEN "record" ELSE "migrate")
    /\ UNCHANGED <<recorded, views, dropped, lock, todo, batch, lost, faults>>

(* An attempt fails after the init statement was executed (SetupTables     *)
(* failed, or the answer is lost) and backoff.Retry tries again.           *)
RetryInit(p) ==
    /\ pc[p] = "init"
    /\ Fault
    /\ runs' = Plus(runs, {InitSQL})
    /\ undone' = Plus(undone, {InitSQL})
    /\ UNCHANGED <<recorded, views, dropped, lock, pc, todo, batch, pending, lost>>

-----------------------------------------------------------------------------
(* migrate, in a transaction of its own; the table is read on a third      *)
(* connection.                                                             *)

(* Mutant: what was run before is run again. *)
MigrateAgain(p) ==
    /\ pc[p] = "migrate"
    /\ todo[p] # <<>>
    /\ batch' = [batch EXCEPT ![p] = @ \cup {Head(todo[p])}]
    /\ todo' = [todo EXCEPT ![p] = Tail(@)]
    /\ UNCHANGED <<recorded, runs, undone, views, dropped, lock, pc, pending, lost, faults>>

Migrate(p) ==
    /\ pc[p] = "migrate"
    /\ todo[p] # <<>>
    /\ PoolSize >= 3
    /\ batch' = [batch EXCEPT ![p] =
                   IF Head(todo[p]) \in recorded THEN @ ELSE @ \cup {Head(todo[p])}]
    /\ todo' = [todo EXCEPT ![p] = Tail(@)]
    /\ UNCHANGED <<recorded, runs, undone, views, dropped, lock, pc, pending, lost, faults>>

(* The Commit.  Its error "unexpected transaction status idle", which is   *)
(* ignored, means that nothing was executed: the batch is empty.           *)
CommitMigrations(p) ==
    /\ pc[p] = "migrate"
    /\ todo[p] = <<>>
    /\ TakeEffect(p, batch[p])
    /\ Goto(p, "views")
    /\ UNCHANGED <<recorded, views, dropped, lock, todo, batch, lost, faults>>

(* The migrations are committed but the answer is lost: an error. *)
CommitUnanswered(p) ==
    /\ pc[p] = "migrate"
    /\ todo[p] = <<>>
    /\ Fault
    /\ runs' = Plus(runs, batch[p])
    /\ undone' = Plus(undone, batch[p] \cup pending[p])
    /\ EndTx(p, "failed")
    /\ UNCHANGED <<recorded, views, dropped>>

-----------------------------------------------------------------------------
(* configureViews, in a transaction of its own.  Errors of its statements  *)
(* are retried; the error of its Commit is assigned in a deferred function *)
(* to a variable that is not the result, and is dropped.                   *)

ConfigureViews(p) ==
    /\ pc[p] = "views"
    /\ views' = views \cup {AppOf[p]}
    /\ Goto(p, "record")
    /\ UNCHANGED <<recorded, runs, undone, dropped, lock, todo, batch, pending, lost, faults>>

DropViewsError(p) ==
    /\ pc[p] = "views"
    /\ Fault
    /\ dropped' = dropped \cup {AppOf[p]}
    /\ Goto(p, "record")
    /\ UNCHANGED <<recorded, runs, undone, views, lock, todo, batch, pending, lost>>

-----------------------------------------------------------------------------
(* saveVersionHash of the init statement and of every migration, ON        *)
(* CONFLICT DO NOTHING, and the version of the app                         *)
NewRows(p) ==
    {AppOf[p]} \cup (pending[p] \cap {InitSQL}) \cup ToSet(ListOf[AppOf[p]])

(* The INSERTs and the Commit; after a lost answer the rows are there and  *)
(* the service fails.                                                      *)
Record(p, answered) ==
    /\ pc[p] = "record" /\ p \notin lost
    /\ recorded' = recorded \cup NewRows(p)
    /\ \/ answered /\ EndTx(p, "done") /\ UNCHANGED faults
       \/ ~answered /\ EndTx(p, "failed") /\ Fault
    /\ UNCHANGED <<runs, undone, views, dropped>>

(* The first statement on an outer transaction that is gone fails. *)
SeeLost(p) ==
    /\ pc[p] \in {"check", "record"} /\ p \in lost
    /\ EndTx(p, "failed")
    /\ UNCHANGED <<recorded, runs, undone, views, dropped, faults>>

(* Any error, a cancelled context, the end of the retries, or a crash: all *)
(* open transactions are rolled back, and the service starts again.        *)
Fail(p) ==
    /\ pc[p] \in InTx \cup {"lock"}
    /\ Fault
    /\ undone' = Plus(undone, pending[p])
    /\ EndTx(p, "failed")
    /\ UNCHANGED <<recorded, runs, views, dropped>>

(* External: the server ends the outer transaction, which is idle while    *)
(* the migrations run on other connections, and with it the lock.          *)
LoseTx(p) ==
    /\ pc[p] \in InTx /\ p \notin lost
    /\ Fault
    /\ lost' = lost \cup {p}
    /\ lock' = NoService
    /\ undone' = Plus(undone, pending[p])
    /\ pending' = [pending EXCEPT ![p] = {}]
    /\ UNCHANGED <<recorded, runs, views, dropped, pc, todo, batch>>

-----------------------------------------------------------------------------
Step(p) ==
    \/ PrepareTracking(p) \/ LockTable(p) \/ VersionMatches(p)
    \/ VersionIsNew(p) \/ ShouldRunInit(p) \/ RunInit(p)
    \/ Migrate(p) \/ CommitMigrations(p)
    \/ ConfigureViews(p)
    \/ Record(p, TRUE) \/ SeeLost(p)

Disturb(p) ==
    \/ RetryInit(p) \/ CommitUnanswered(p) \/ DropViewsError(p)
    \/ Record(p, FALSE) \/ Fail(p) \/ LoseTx(p)

Next == \E p \in Services : Step(p) \/ Disturb(p)

Spec == Init /\ [][Next]_vars

(* The calls of a service return, and PostgreSQL grants a free lock to     *)
(* the service that waits for it.                                          *)
FairSpec == Spec /\ \A p \in Services : WF_vars(Step(p))

-----------------------------------------------------------------------------
(* Properties *)

(* A statement takes effect once, however many services start together     *)
(* and wherever they crash; it takes effect again only if the transaction  *)
(* that should have recorded the first time was rolled back or lost.  What *)
(* the table records did take effect.                                      *)
OnceUnlessUndone ==
    \A m \in Statements :
        /\ runs[m] - undone[m] \in {0, 1}
        /\ m \in recorded => runs[m] - undone[m] = 1

(* What a database needs before the app of version a can use it. *)
Required(a) == {InitSQL} \cup ToSet(ListOf[a])

(* "If the app version is found in the migration history then it assumes   *)
(* that all of the required migrations have been run": they have.  Its     *)
(* views are set up too, unless a Commit of configureViews failed for that *)
(* version, whose error is dropped: no crash, lost lock or lost answer     *)
(* records a version without its views.                                    *)
VersionMeansMigrated ==
    \A a \in recorded \cap Apps :
        /\ \A m \in Required(a) : m \in recorded /\ runs[m] > 0
        /\ a \in views \cup dropped

(* "several migrations can't run at the same time": a recorded statement   *)
(* never takes effect again, except from a service whose outer transaction *)
(* was lost while it was running its migrations.                           *)
RecordedIsNotRunAgain ==
    [][\A m \in recorded \cap Statements : runs'[m] # runs[m] =>
         \E p \in lost : pc[p] \in {"init", "migrate"}]_vars

(* Every service gets out of PrepareDatabase: it does not wait on another  *)
(* service, or on its own pool, for ever.                                  *)
PrepareReturns ==
    \A p \in Services : pc[p] = "lock" ~> pc[p] \in {"done", "failed"}

(* The table lock belongs to the one service whose outer transaction is    *)
(* open, unless the server has ended that transaction.                     *)
LockInv ==
    \A p \in Services :
        /\ lock = p <=> pc[p] \in InTx /\ p \notin lost
        /\ p \in lost => pc[p] \in InTx /\ pending[p] = {}

(* The service that has the lock: what it has seen in the table is still   *)
(* true, its effects are not recorded yet, and it gets to its record only  *)
(* with everything its version needs.                                      *)
ProgressInv ==
    \A p \in Services \ lost :
        /\ pending[p] \cap recorded = {}
        /\ batch[p] \cap recorded = {}
        /\ pc[p] \notin {"migrate", "views", "record"} => batch[p] = {} /\ pending[p] = {}
        /\ pc[p] = "init" => InitSQL \notin recorded /\ todo[p] = ListOf[AppOf[p]]
        /\ pc[p] = "migrate" =>
             /\ pending[p] \subseteq {InitSQL}
             /\ batch[p] \cup ToSet(todo[p]) \subseteq ToSet(ListOf[AppOf[p]])
             /\ Required(AppOf[p]) \subseteq recorded \cup pending[p] \cup batch[p] \cup ToSet(todo[p])
        /\ pc[p] \in {"views", "record"} =>
             /\ pending[p] \subseteq Required(AppOf[p])
             /\ Required(AppOf[p]) \subseteq recorded \cup pending[p]
        /\ pc[p] = "record" => AppOf[p] \in views \cup dropped

(* The effect of m is recorded, or waits for an open transaction. *)
Effective(m) == m \in recorded \/ \E p \in Services : m \in pending[p]

(* Every effect that is not undone is recorded or waits to be. *)
EffectsInv ==
    \A m \in Statements : runs[m] - undone[m] = IF Effective(m) THEN 1 ELSE 0

(* What PrepareDatabase keeps true at every step: the table, what was run  *)
(* and the views agree, wherever a service stops.                          *)
MigrationsInv ==
    /\ TypeOK
    /\ LockInv
    /\ ProgressInv
    /\ EffectsInv
    /\ OnceUnlessUndone
    /\ VersionMeansMigrated
=============================================================================

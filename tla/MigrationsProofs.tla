--------------------------- MODULE MigrationsProofs ---------------------------
(***************************************************************************)
(* Migrations proved for every set of services, versions and statements.   *)
(***************************************************************************)
EXTENDS Migrations, TLAPS

(* The statements a migrate has still to look at. *)
LEMMA HeadAndTail ==
    ASSUME NEW S, NEW s \in Seq(S), s # <<>>
    PROVE  /\ Head(s) \in S
           /\ Tail(s) \in Seq(S)
           /\ ToSet(s) = {Head(s)} \cup ToSet(Tail(s))
<1>1. Head(s) = s[1] /\ Len(s) \in Nat /\ Len(s) >= 1 /\ DOMAIN s = 1..Len(s)
  OBVIOUS
<1>2. /\ Tail(s) \in Seq(S)
      /\ Len(Tail(s)) = Len(s) - 1
      /\ \A i \in 1..(Len(s) - 1) : Tail(s)[i] = s[i + 1]
  OBVIOUS
<1>3. DOMAIN Tail(s) = 1..(Len(s) - 1)
  BY <1>2
<1>4. \A i \in 1..Len(s) : i = 1 \/ (i - 1 \in 1..(Len(s) - 1) /\ s[i] = Tail(s)[i - 1])
  BY <1>1, <1>2
<1>5. \A i \in 1..(Len(s) - 1) : i + 1 \in 1..Len(s)
  BY <1>1
<1>6. ToSet(s) \subseteq {Head(s)} \cup ToSet(Tail(s))
  <2> SUFFICES ASSUME NEW i \in 1..Len(s) PROVE s[i] \in {Head(s)} \cup ToSet(Tail(s))
    BY <1>1 DEF ToSet
  <2>1. CASE i = 1
    BY <1>1, <2>1
  <2>2. CASE i - 1 \in DOMAIN Tail(s) /\ s[i] = Tail(s)[i - 1]
    BY <2>2 DEF ToSet
  <2>3. QED
    BY <1>3, <1>4, <2>1, <2>2
<1>7. {Head(s)} \cup ToSet(Tail(s)) \subseteq ToSet(s)
  BY <1>1, <1>2, <1>3, <1>5 DEF ToSet
<1>8. QED
  BY <1>1, <1>2, <1>6, <1>7

(* A version's migrations are migration statements. *)
LEMMA ListedType ==
    ASSUME NEW p \in Services
    PROVE  /\ AppOf[p] \in Apps
           /\ ListOf[AppOf[p]] \in Seq(Files)
           /\ ToSet(ListOf[AppOf[p]]) \subseteq Files
           /\ Required(AppOf[p]) \subseteq Statements
BY AppsAssumption DEF Required, Statements, ToSet

(* A fault stays within the bound. *)
LEMMA FaultType == TypeOK /\ Fault => faults' \in 0..MaxFaults
BY BoundsAssumption DEF TypeOK, Fault

(* The service that has the lock is alone: nobody else has effects that    *)
(* wait for their record or a transaction that could record them.          *)
LEMMA Holder ==
    ASSUME MigrationsInv, NEW p \in Services, pc[p] \in InTx, p \notin lost
    PROVE  /\ lock = p
           /\ \A q \in Services \ {p} :
                pending[q] = {} /\ (q \in lost \/ (pc[q] \notin InTx /\ batch[q] = {}))
BY DEF MigrationsInv, LockInv, ProgressInv, InTx

(* The table and the counters determine the two promises, as long as the   *)
(* table does not change.                                                  *)
LEMMA PromisesKept ==
    ASSUME MigrationsInv, TypeOK', EffectsInv', recorded' = recorded, views \subseteq views',
           dropped \subseteq dropped'
    PROVE  OnceUnlessUndone' /\ VersionMeansMigrated'
<1>1. OnceUnlessUndone'
  BY DEF EffectsInv, OnceUnlessUndone, Effective
<1>2. ASSUME NEW a \in recorded \cap Apps, NEW m \in Required(a)
      PROVE  m \in recorded /\ runs'[m] > 0
  <2>1. m \in recorded /\ m \in Statements
    BY <1>2, AppsAssumption DEF MigrationsInv, VersionMeansMigrated, Required, Statements, ToSet
  <2>2. runs'[m] - undone'[m] = 1
    BY <2>1, <1>1 DEF OnceUnlessUndone
  <2>3. QED
    BY <2>1, <2>2 DEF TypeOK
<1>3. \A a \in recorded \cap Apps : a \in views' \cup dropped'
  BY DEF MigrationsInv, VersionMeansMigrated
<1>4. QED
  BY <1>1, <1>2, <1>3 DEF VersionMeansMigrated, Required

(* The empty database satisfies the invariant. *)
LEMMA InitInv == Init => MigrationsInv
<1> SUFFICES ASSUME Init PROVE MigrationsInv
  OBVIOUS
<1>1. TypeOK
  BY BoundsAssumption DEF Init, TypeOK
<1>2. LockInv
  BY ServicesAssumption DEF Init, LockInv, InTx
<1>3. ProgressInv
  BY DEF Init, ProgressInv
<1>4. EffectsInv /\ OnceUnlessUndone
  BY DEF Init, EffectsInv, Effective, OnceUnlessUndone
<1>5. VersionMeansMigrated
  BY DEF Init, VersionMeansMigrated
<1>6. QED
  BY <1>1, <1>2, <1>3, <1>4, <1>5 DEF MigrationsInv

(* The end of an outer transaction that records nothing: its effects that  *)
(* waited are counted as undone and are effective no longer.               *)
LEMMA EndTxInv ==
    ASSUME MigrationsInv, NEW p \in Services, pc[p] \in InTx \cup {"lock"},
           NEW stage \in {"done", "failed"}, EndTx(p, stage),
           UNCHANGED <<recorded, views, dropped>>, faults' \in 0..MaxFaults,
           runs' \in [Statements -> Nat], undone' \in [Statements -> Nat],
           \A m \in Statements :
             runs'[m] - undone'[m] = runs[m] - undone[m] - (IF m \in pending[p] THEN 1 ELSE 0)
    PROVE  MigrationsInv'
<1> USE DEF MigrationsInv
<1>1. TypeOK'
  BY DEF EndTx, Goto, TypeOK
<1>2. LockInv'
  BY ServicesAssumption DEF EndTx, Goto, TypeOK, LockInv, InTx
<1>3. ProgressInv'
  <2>1. \A q \in Services \ {p} :
           /\ pc'[q] = pc[q] /\ todo'[q] = todo[q] /\ batch'[q] = batch[q]
           /\ pending'[q] = pending[q] /\ (q \in lost' <=> q \in lost)
    BY DEF EndTx, Goto, TypeOK
  <2>2. pc'[p] = stage /\ batch'[p] = {} /\ pending'[p] = {}
    BY DEF EndTx, Goto, TypeOK
  <2>3. QED
    BY <2>1, <2>2 DEF ProgressInv
<1>4. ASSUME NEW m \in Statements
      PROVE  Effective(m)' <=> Effective(m) /\ m \notin pending[p]
  <2>1. \A q \in Services \ {p} : pending'[q] = pending[q]
    BY DEF EndTx, TypeOK
  <2>2. pending'[p] = {}
    BY DEF EndTx, TypeOK
  <2>3. m \in pending[p] => m \notin recorded /\ \A q \in Services \ {p} : m \notin pending[q]
    BY Holder DEF ProgressInv, LockInv
  <2>4. QED
    BY <2>1, <2>2, <2>3 DEF Effective
<1>5. EffectsInv'
  BY <1>4 DEF EffectsInv, Effective, TypeOK
<1>6. OnceUnlessUndone' /\ VersionMeansMigrated'
  BY <1>1, <1>5, PromisesKept
<1>7. QED
  BY <1>1, <1>2, <1>3, <1>5, <1>6

(* A step that leaves the table, the counters and what waits for its       *)
(* record alone keeps the promises.                                        *)
LEMMA QuietInv ==
    ASSUME MigrationsInv, TypeOK', LockInv', ProgressInv',
           UNCHANGED <<recorded, runs, undone, pending>>, views \subseteq views',
           dropped \subseteq dropped'
    PROVE  MigrationsInv'
<1>1. EffectsInv'
  BY DEF MigrationsInv, EffectsInv, Effective
<1>2. QED
  BY <1>1, PromisesKept DEF MigrationsInv

(* The init statement or the migrations take effect: they wait for their   *)
(* record, or are undone at once if the outer transaction is gone.         *)
LEMMA TakeEffectInv ==
    ASSUME MigrationsInv, NEW p \in Services, pc[p] \in InTx, NEW S \in SUBSET Statements,
           p \notin lost => S \cap recorded = {} /\ S \cap pending[p] = {},
           TakeEffect(p, S), UNCHANGED recorded
    PROVE  /\ runs' \in [Statements -> Nat] /\ undone' \in [Statements -> Nat]
           /\ pending' = [pending EXCEPT ![p] = IF p \in lost THEN {} ELSE @ \cup S]
           /\ pending' \in [Services -> SUBSET Statements]
           /\ EffectsInv'
<1> USE DEF MigrationsInv
<1>1. /\ runs' \in [Statements -> Nat]
      /\ \A m \in Statements : runs'[m] = runs[m] + (IF m \in S THEN 1 ELSE 0)
  BY DEF Plus, TakeEffect, TypeOK
<1>2. CASE p \in lost
  <2>1. /\ undone' \in [Statements -> Nat]
        /\ \A m \in Statements : undone'[m] = undone[m] + (IF m \in S THEN 1 ELSE 0)
    <3>1. undone' = Plus(undone, S)
      BY <1>2 DEF TakeEffect
    <3>2. QED
      BY <3>1 DEF Plus, TypeOK
  <2>2. pending' = pending /\ pending[p] = {}
    BY <1>2 DEF TakeEffect, LockInv
  <2>3. ASSUME NEW m \in Statements PROVE runs'[m] - undone'[m] = runs[m] - undone[m]
    <3>1. runs[m] \in Nat /\ undone[m] \in Nat
      BY DEF TypeOK
    <3>2. /\ runs'[m] = runs[m] + (IF m \in S THEN 1 ELSE 0)
          /\ undone'[m] = undone[m] + (IF m \in S THEN 1 ELSE 0)
      BY <1>1, <2>1
    <3>3. QED
      BY <3>1, <3>2
  <2>4. EffectsInv'
    BY <2>2, <2>3 DEF EffectsInv, Effective
  <2>5. QED
    BY <1>1, <1>2, <2>1, <2>2, <2>4 DEF TypeOK
<1>3. CASE p \notin lost
  <2>1. undone' = undone /\ pending' = [pending EXCEPT ![p] = @ \cup S]
    BY <1>3 DEF TakeEffect
  <2>2. \A m \in S : ~Effective(m)
    BY <1>3, Holder DEF Effective
  <2>3. \A m \in Statements : Effective(m)' <=> Effective(m) \/ m \in S
    BY <2>1 DEF Effective, TypeOK
  <2>4. EffectsInv'
    BY <1>1, <2>1, <2>2, <2>3 DEF EffectsInv, TypeOK
  <2>5. QED
    BY <1>1, <1>3, <2>1, <2>4 DEF TypeOK
<1>4. QED
  BY <1>2, <1>3

(* initialize *)
LEMMA RunInitInv ==
    ASSUME MigrationsInv, NEW p \in Services, RunInit(p)
    PROVE  MigrationsInv'
<1> USE DEF MigrationsInv
<1>1. /\ pc[p] \in InTx /\ {InitSQL} \in SUBSET Statements
      /\ p \notin lost => InitSQL \notin recorded /\ pending[p] = {}
  BY DEF RunInit, InTx, Statements, ProgressInv
<1>2. /\ runs' \in [Statements -> Nat] /\ undone' \in [Statements -> Nat]
      /\ pending' = [pending EXCEPT ![p] = IF p \in lost THEN {} ELSE @ \cup {InitSQL}]
      /\ pending' \in [Services -> SUBSET Statements]
      /\ EffectsInv'
  BY <1>1, TakeEffectInv DEF RunInit
<1>3. TypeOK'
  BY <1>2 DEF RunInit, Goto, TypeOK, InTx
<1>4. LockInv'
  BY <1>2 DEF RunInit, Goto, TypeOK, LockInv, InTx
<1>5. ProgressInv'
  <2>1. \A q \in Services \ {p} : pc'[q] = pc[q] /\ pending'[q] = pending[q]
    BY <1>2 DEF RunInit, Goto, TypeOK
  <2>2. p \notin lost => pc'[p] = "migrate" /\ pending'[p] = {InitSQL}
    BY <1>1, <1>2 DEF RunInit, Goto, TypeOK
  <2>3. p \notin lost => batch[p] = {} /\ todo[p] = ListOf[AppOf[p]]
    BY DEF RunInit, ProgressInv
  <2>4. QED
    BY <1>1, <2>1, <2>2, <2>3 DEF RunInit, ProgressInv, Required
<1>6. OnceUnlessUndone' /\ VersionMeansMigrated'
  BY <1>2, <1>3, PromisesKept DEF RunInit, TypeOK
<1>7. QED
  BY <1>2, <1>3, <1>4, <1>5, <1>6

(* backoff.Retry repeats the init statement. *)
LEMMA RetryInitInv ==
    ASSUME MigrationsInv, NEW p \in Services, RetryInit(p)
    PROVE  MigrationsInv'
<1> USE DEF MigrationsInv
<1>1. /\ runs' \in [Statements -> Nat] /\ undone' \in [Statements -> Nat]
      /\ \A m \in Statements : runs'[m] - undone'[m] = runs[m] - undone[m]
  BY DEF Plus, RetryInit, TypeOK
<1>2. faults' \in 0..MaxFaults
  BY FaultType DEF RetryInit, Fault, TypeOK
<1>3. TypeOK'
  BY <1>1, <1>2 DEF RetryInit, TypeOK
<1>4. LockInv' /\ ProgressInv'
  BY <1>2 DEF RetryInit, LockInv, ProgressInv
<1>5. EffectsInv'
  BY <1>1 DEF RetryInit, EffectsInv, Effective
<1>6. OnceUnlessUndone' /\ VersionMeansMigrated'
  BY <1>2, <1>3, <1>5, PromisesKept DEF RetryInit
<1>7. QED
  BY <1>3, <1>4, <1>5, <1>6

(* migrate looks at the next statement. *)
LEMMA MigrateInv ==
    ASSUME MigrationsInv, NEW p \in Services, Migrate(p)
    PROVE  MigrationsInv'
<1> USE DEF MigrationsInv
<1>1. /\ Head(todo[p]) \in Files /\ Tail(todo[p]) \in Seq(Files)
      /\ ToSet(todo[p]) = {Head(todo[p])} \cup ToSet(Tail(todo[p]))
  BY HeadAndTail DEF Migrate, TypeOK
<1>2. TypeOK'
  BY <1>1 DEF Migrate, TypeOK
<1>3. LockInv'
  BY DEF Migrate, LockInv
<1>4. ProgressInv'
  <2>1. \A q \in Services \ {p} : todo'[q] = todo[q] /\ batch'[q] = batch[q]
    BY DEF Migrate, TypeOK
  <2>2. /\ todo'[p] = Tail(todo[p])
        /\ batch'[p] = IF Head(todo[p]) \in recorded THEN batch[p]
                                                     ELSE batch[p] \cup {Head(todo[p])}
    BY DEF Migrate, TypeOK
  <2>3. /\ batch'[p] \cup ToSet(todo'[p]) \subseteq batch[p] \cup ToSet(todo[p])
        /\ recorded \cup batch[p] \cup ToSet(todo[p])
             = recorded \cup batch'[p] \cup ToSet(todo'[p])
        /\ batch[p] \cap recorded = {} => batch'[p] \cap recorded = {}
    BY <1>1, <2>2
  <2>4. ASSUME NEW q \in Services \ lost, q # p
        PROVE  /\ batch'[q] \cap recorded = {}
               /\ pc[q] \notin {"migrate", "views", "record"} => batch'[q] = {}
               /\ pc[q] = "init" => todo'[q] = ListOf[AppOf[q]]
               /\ pc[q] = "migrate" =>
                    /\ batch'[q] \cup ToSet(todo'[q]) \subseteq ToSet(ListOf[AppOf[q]])
                    /\ Required(AppOf[q])
                         \subseteq recorded \cup pending[q] \cup batch'[q] \cup ToSet(todo'[q])
    BY <2>1, <2>4 DEF ProgressInv
  <2>5. ASSUME p \notin lost
        PROVE  /\ batch'[p] \cap recorded = {}
               /\ pc[p] = "migrate"
               /\ batch'[p] \cup ToSet(todo'[p]) \subseteq ToSet(ListOf[AppOf[p]])
               /\ Required(AppOf[p])
                    \subseteq recorded \cup pending[p] \cup batch'[p] \cup ToSet(todo'[p])
    BY <2>3, <2>5 DEF Migrate, ProgressInv
  <2>6. QED
    BY <2>4, <2>5 DEF Migrate, ProgressInv
<1>5. QED
  BY <1>2, <1>3, <1>4, QuietInv DEF Migrate, TypeOK

(* The transaction of migrate is committed: everything the version needs   *)
(* is recorded or waits for its record.                                    *)
LEMMA CommitMigrationsInv ==
    ASSUME MigrationsInv, NEW p \in Services, CommitMigrations(p)
    PROVE  MigrationsInv'
<1> USE DEF MigrationsInv
<1>1. /\ pc[p] \in InTx /\ batch[p] \in SUBSET Statements /\ InitSQL \notin batch[p]
  BY NamesAssumption DEF CommitMigrations, InTx, Statements, TypeOK
<1>2. ToSet(todo[p]) = {}
  BY DEF CommitMigrations, ToSet
<1>3. p \notin lost => /\ batch[p] \cap recorded = {}
                       /\ batch[p] \cap pending[p] = {}
  BY <1>1 DEF CommitMigrations, ProgressInv
<1>4. /\ runs' \in [Statements -> Nat] /\ undone' \in [Statements -> Nat]
      /\ pending' = [pending EXCEPT ![p] = IF p \in lost THEN {} ELSE @ \cup batch[p]]
      /\ pending' \in [Services -> SUBSET Statements]
      /\ EffectsInv'
  BY <1>1, <1>3, TakeEffectInv DEF CommitMigrations
<1>5. TypeOK'
  BY <1>4 DEF CommitMigrations, Goto, TypeOK, InTx
<1>6. LockInv'
  BY <1>4 DEF CommitMigrations, Goto, TypeOK, LockInv, InTx
<1>7. ProgressInv'
  <2>1. \A q \in Services \ {p} : pc'[q] = pc[q] /\ pending'[q] = pending[q]
    BY <1>4 DEF CommitMigrations, Goto, TypeOK
  <2>2. p \notin lost => pc'[p] = "views" /\ pending'[p] = pending[p] \cup batch[p]
    BY <1>4 DEF CommitMigrations, Goto, TypeOK
  <2>3. p \notin lost => /\ pending'[p] \subseteq Required(AppOf[p])
                         /\ Required(AppOf[p]) \subseteq recorded \cup pending'[p]
                         /\ pending'[p] \cap recorded = {}
    BY <1>2, <2>2 DEF CommitMigrations, ProgressInv, Required
  <2>4. QED
    BY <2>1, <2>2, <2>3 DEF CommitMigrations, ProgressInv
<1>8. OnceUnlessUndone' /\ VersionMeansMigrated'
  BY <1>4, <1>5, PromisesKept DEF CommitMigrations, TypeOK
<1>9. QED
  BY <1>4, <1>5, <1>6, <1>7, <1>8

(* The INSERTs of saveVersionHash and the Commit: the effects that waited  *)
(* are the rows that were missing.                                         *)
LEMMA RecordInv ==
    ASSUME MigrationsInv, NEW p \in Services, NEW answered \in BOOLEAN, Record(p, answered)
    PROVE  MigrationsInv'
<1> USE DEF MigrationsInv
<1>1. PICK stage \in {"done", "failed"} : EndTx(p, stage)
  BY DEF Record
<1>2. faults' \in 0..MaxFaults
  BY FaultType DEF Record, Fault, TypeOK
<1>3. /\ pc[p] = "record" /\ pc[p] \in InTx /\ p \notin lost
      /\ recorded' = recorded \cup NewRows(p)
      /\ runs' = runs /\ undone' = undone /\ views' = views /\ dropped' = dropped
  BY DEF Record, InTx
<1>4. /\ lock = p
      /\ \A q \in Services \ {p} :
           pending[q] = {} /\ (q \in lost \/ (pc[q] \notin InTx /\ batch[q] = {}))
  BY <1>3, Holder
<1>5. /\ \A q \in Services \ {p} :
           /\ pc'[q] = pc[q] /\ todo'[q] = todo[q] /\ batch'[q] = batch[q]
           /\ pending'[q] = pending[q]
      /\ pc'[p] = stage /\ batch'[p] = {} /\ pending'[p] = {} /\ lost' = lost
  BY <1>1, <1>3 DEF EndTx, Goto, TypeOK
<1>6. /\ AppOf[p] \in Apps /\ AppOf[p] \notin Statements
      /\ Required(AppOf[p]) \subseteq Statements
      /\ pending[p] \subseteq Required(AppOf[p])
      /\ Required(AppOf[p]) \subseteq recorded \cup pending[p]
  BY <1>3, ListedType, NamesAssumption DEF ProgressInv, Statements
<1>7. recorded' = recorded \cup pending[p] \cup {AppOf[p]}
  BY <1>3, <1>6 DEF NewRows, Required
<1>8. TypeOK'
  BY <1>1, <1>2, <1>3, <1>6, <1>7 DEF EndTx, Goto, TypeOK
<1>9. LockInv'
  BY <1>1, <1>3, ServicesAssumption DEF EndTx, Goto, TypeOK, LockInv, InTx
<1>10. ProgressInv'
  BY <1>4, <1>5 DEF ProgressInv, InTx
<1>11. \A m \in Statements : Effective(m)' <=> Effective(m)
  BY <1>4, <1>5, <1>6, <1>7 DEF Effective
<1>12. EffectsInv'
  BY <1>3, <1>11 DEF EffectsInv
<1>13. OnceUnlessUndone'
  BY <1>12 DEF EffectsInv, OnceUnlessUndone, Effective
<1>14. VersionMeansMigrated'
  <2>1. ASSUME NEW a \in recorded' \cap Apps PROVE Required(a) \subseteq recorded' \cap Statements
    <3>1. a = AppOf[p] \/ a \in recorded \cap Apps
      BY <1>6, <1>7, <2>1, NamesAssumption DEF Statements
    <3>2. Required(a) \subseteq Statements
      BY <2>1, AppsAssumption DEF Required, Statements, ToSet
    <3>3. QED
      BY <1>6, <1>7, <3>1, <3>2 DEF VersionMeansMigrated
  <2>2. \A m \in recorded' \cap Statements : runs'[m] > 0
    BY <1>8, <1>13 DEF OnceUnlessUndone, TypeOK
  <2>3. ASSUME NEW a \in recorded' \cap Apps PROVE a \in views' \cup dropped'
    <3>1. a = AppOf[p] \/ a \in recorded \cap Apps
      BY <1>6, <1>7, <2>3, NamesAssumption DEF Statements
    <3>2. QED
      BY <1>3, <3>1 DEF ProgressInv, VersionMeansMigrated
  <2>4. QED
    BY <2>1, <2>2, <2>3 DEF VersionMeansMigrated, Required
<1>15. QED
  BY <1>8, <1>9, <1>10, <1>12, <1>13, <1>14

(* The server ends an outer transaction and with it the lock. *)
LEMMA LoseTxInv ==
    ASSUME MigrationsInv, NEW p \in Services, LoseTx(p)
    PROVE  MigrationsInv'
<1> USE DEF MigrationsInv
<1>1. faults' \in 0..MaxFaults
  BY FaultType DEF LoseTx, Fault, TypeOK
<1>2. /\ lock = p
      /\ \A q \in Services \ {p} :
           pending[q] = {} /\ (q \in lost \/ (pc[q] \notin InTx /\ batch[q] = {}))
  BY Holder DEF LoseTx
<1>3. /\ undone' \in [Statements -> Nat]
      /\ \A m \in Statements : undone'[m] = undone[m] + (IF m \in pending[p] THEN 1 ELSE 0)
  BY DEF LoseTx, Plus, TypeOK
<1>4. TypeOK'
  BY <1>1, <1>3 DEF LoseTx, TypeOK
<1>5. LockInv'
  BY <1>2, ServicesAssumption DEF LoseTx, TypeOK, LockInv
<1>6. ProgressInv'
  <2>1. \A q \in Services \ lost' : q \in Services \ lost /\ pending'[q] = pending[q]
    BY DEF LoseTx, TypeOK
  <2>2. QED
    BY <1>1, <2>1 DEF LoseTx, ProgressInv
<1>7. \A m \in Statements :
         /\ Effective(m)' <=> Effective(m) /\ m \notin pending[p]
         /\ m \in pending[p] => Effective(m)
  <2>1. pending'[p] = {} /\ \A q \in Services \ {p} : pending'[q] = pending[q]
    BY DEF LoseTx, TypeOK
  <2>2. pending[p] \cap recorded = {}
    BY DEF LoseTx, ProgressInv
  <2>3. QED
    BY <1>2, <2>1, <2>2 DEF LoseTx, Effective
<1>8. EffectsInv'
  <2> SUFFICES ASSUME NEW m \in Statements
               PROVE  runs'[m] - undone'[m] = IF Effective(m)' THEN 1 ELSE 0
    BY DEF EffectsInv
  <2>1. /\ runs[m] \in Nat /\ undone[m] \in Nat /\ runs' = runs
        /\ runs[m] - undone[m] = IF Effective(m) THEN 1 ELSE 0
    BY DEF LoseTx, TypeOK, EffectsInv
  <2>2. QED
    BY <1>3, <1>7, <2>1
<1>9. OnceUnlessUndone' /\ VersionMeansMigrated'
  BY <1>1, <1>4, <1>8, PromisesKept DEF LoseTx
<1>10. QED
  BY <1>4, <1>5, <1>6, <1>8, <1>9

(* An error or a crash before the record. *)
LEMMA FailInv ==
    ASSUME MigrationsInv, NEW p \in Services, Fail(p) \/ CommitUnanswered(p)
    PROVE  MigrationsInv'
<1> USE DEF MigrationsInv
<1>1. /\ faults' \in 0..MaxFaults /\ EndTx(p, "failed")
      /\ UNCHANGED <<recorded, views, dropped>> /\ pc[p] \in InTx \cup {"lock"}
  BY FaultType DEF Fail, CommitUnanswered, Fault, TypeOK, InTx
<1>2. CASE Fail(p)
  <2>1. /\ undone' \in [Statements -> Nat] /\ runs' = runs
        /\ \A m \in Statements : undone'[m] = undone[m] + (IF m \in pending[p] THEN 1 ELSE 0)
    BY <1>2 DEF Fail, Plus, TypeOK
  <2>2. \A m \in Statements :
           runs'[m] - undone'[m] = runs[m] - undone[m] - (IF m \in pending[p] THEN 1 ELSE 0)
    BY <2>1 DEF TypeOK
  <2>3. QED
    BY <1>1, <2>1, <2>2, EndTxInv DEF TypeOK
<1>3. CASE CommitUnanswered(p)
  \* The init statement may wait for its record, but no migration does.
  <2>1. pending[p] \subseteq {InitSQL} /\ InitSQL \notin batch[p]
    BY <1>3, NamesAssumption DEF CommitUnanswered, LockInv, ProgressInv, TypeOK
  <2>2. /\ runs' \in [Statements -> Nat] /\ undone' \in [Statements -> Nat]
        /\ \A m \in Statements : runs'[m] = runs[m] + (IF m \in batch[p] THEN 1 ELSE 0)
        /\ \A m \in Statements :
             undone'[m] = undone[m] + (IF m \in batch[p] \cup pending[p] THEN 1 ELSE 0)
    BY <1>3 DEF CommitUnanswered, Plus, TypeOK
  <2>3. \A m \in Statements :
           runs'[m] - undone'[m] = runs[m] - undone[m] - (IF m \in pending[p] THEN 1 ELSE 0)
    BY <2>1, <2>2 DEF TypeOK
  <2>4. QED
    BY <1>1, <2>2, <2>3, EndTxInv
<1>4. QED
  BY <1>2, <1>3

(* Every step keeps the invariant. *)
LEMMA StepInv == MigrationsInv /\ [Next]_vars => MigrationsInv'
<1> SUFFICES ASSUME MigrationsInv, [Next]_vars PROVE MigrationsInv'
  OBVIOUS
<1> USE DEF MigrationsInv
<1>1. ASSUME NEW p \in Services, Step(p) PROVE MigrationsInv'
  <2>1. CASE PrepareTracking(p)
    <3>1. TypeOK' /\ LockInv' /\ ProgressInv'
      BY <2>1 DEF PrepareTracking, Goto, TypeOK, LockInv, ProgressInv, InTx
    <3>2. QED
      BY <2>1, <3>1, QuietInv DEF PrepareTracking, TypeOK
  <2>2. CASE LockTable(p)
    <3>1. TypeOK'
      BY <2>2 DEF LockTable, Goto, TypeOK, InTx
    <3>2. LockInv' /\ ProgressInv'
      BY <2>2, ServicesAssumption DEF LockTable, Goto, TypeOK, LockInv, ProgressInv, InTx
    <3>3. QED
      BY <2>2, <3>1, <3>2, QuietInv DEF LockTable, TypeOK
  <2>3. CASE VersionMatches(p)
    <3>1. pending[p] = {} /\ pc[p] \in InTx
      BY <2>3 DEF VersionMatches, ProgressInv, InTx
    <3>2. \A m \in Statements : runs'[m] - undone'[m]
             = runs[m] - undone[m] - (IF m \in pending[p] THEN 1 ELSE 0)
      BY <2>3, <3>1 DEF VersionMatches, TypeOK
    <3>3. /\ EndTx(p, "done") /\ UNCHANGED <<recorded, views, dropped>>
          /\ faults' \in 0..MaxFaults
          /\ runs' \in [Statements -> Nat] /\ undone' \in [Statements -> Nat]
      BY <2>3 DEF VersionMatches, TypeOK
    <3>4. QED
      BY <3>1, <3>2, <3>3, EndTxInv
  <2>4. CASE VersionIsNew(p)
    <3>1. TypeOK' /\ LockInv' /\ ProgressInv'
      BY <2>4 DEF VersionIsNew, Goto, TypeOK, LockInv, ProgressInv, InTx
    <3>2. QED
      BY <2>4, <3>1, QuietInv DEF VersionIsNew, TypeOK
  <2>5. CASE ShouldRunInit(p)
    <3>1. TypeOK'
      BY <2>5, ListedType DEF ShouldRunInit, Goto, TypeOK, InTx
    <3>2. LockInv'
      BY <2>5 DEF ShouldRunInit, Goto, TypeOK, LockInv, InTx
    <3>3. ProgressInv'
      BY <2>5, <3>1 DEF ShouldRunInit, Goto, TypeOK, ProgressInv, Required
    <3>4. QED
      BY <2>5, <3>1, <3>2, <3>3, QuietInv DEF ShouldRunInit, TypeOK
  <2>6. CASE ConfigureViews(p)
    <3>1. TypeOK' /\ LockInv'
      BY <2>6, ListedType DEF ConfigureViews, Goto, TypeOK, LockInv, InTx
    <3>2. ProgressInv'
      BY <2>6 DEF ConfigureViews, Goto, TypeOK, ProgressInv
    <3>3. QED
      BY <2>6, <3>1, <3>2, QuietInv DEF ConfigureViews, TypeOK
  <2>7. CASE SeeLost(p)
    <3>1. pending[p] = {} /\ pc[p] \in InTx
      BY <2>7 DEF SeeLost, LockInv
    <3>2. \A m \in Statements : runs'[m] - undone'[m]
             = runs[m] - undone[m] - (IF m \in pending[p] THEN 1 ELSE 0)
      BY <2>7, <3>1 DEF SeeLost, TypeOK
    <3>3. /\ EndTx(p, "failed") /\ UNCHANGED <<recorded, views, dropped>>
          /\ faults' \in 0..MaxFaults
          /\ runs' \in [Statements -> Nat] /\ undone' \in [Statements -> Nat]
      BY <2>7 DEF SeeLost, TypeOK
    <3>4. QED
      BY <3>1, <3>2, <3>3, EndTxInv
  <2>8. QED
    BY <1>1, <2>1, <2>2, <2>3, <2>4, <2>5, <2>6, <2>7, RunInitInv, MigrateInv,
       CommitMigrationsInv, RecordInv DEF Step
<1>2. ASSUME NEW p \in Services, Disturb(p) PROVE MigrationsInv'
  <2>1. CASE DropViewsError(p)
    <3>1. faults' \in 0..MaxFaults
      BY <2>1, FaultType DEF DropViewsError, Fault, TypeOK
    <3>2. TypeOK' /\ LockInv'
      BY <2>1, <3>1, ListedType DEF DropViewsError, Goto, TypeOK, LockInv, InTx
    <3>3. ProgressInv'
      BY <2>1, <3>1 DEF DropViewsError, Goto, TypeOK, ProgressInv
    <3>4. QED
      BY <2>1, <3>1, <3>2, <3>3, QuietInv DEF DropViewsError, TypeOK
  <2>2. QED
    BY <1>2, <2>1, RetryInitInv, RecordInv, FailInv, LoseTxInv DEF Disturb
<1>3. CASE UNCHANGED vars
  BY <1>3 DEF vars, TypeOK, LockInv, ProgressInv, EffectsInv, Effective, OnceUnlessUndone,
     VersionMeansMigrated
<1>4. QED
  BY <1>1, <1>2, <1>3 DEF Next

(* The table, what was run and the views agree: a recorded statement took  *)
(* effect exactly once and a recorded version has all it needs, for any    *)
(* number of services and versions that start together.                    *)
THEOREM MigratedSafely == Spec => []MigrationsInv
<1>1. QED
  BY InitInv, StepInv, PTL DEF Spec

(* No service repeats a recorded statement, except one whose lock was      *)
(* taken away while it was running its migrations.                         *)
THEOREM RecordedOnce == Spec => RecordedIsNotRunAgain
<1>1. ASSUME MigrationsInv, [Next]_vars
      PROVE  [\A m \in recorded \cap Statements : runs'[m] # runs[m] =>
                \E p \in lost : pc[p] \in {"init", "migrate"}]_vars
  <2> SUFFICES ASSUME NEW m \in recorded \cap Statements, runs'[m] # runs[m]
               PROVE  \E p \in lost : pc[p] \in {"init", "migrate"}
    OBVIOUS
  <2> USE <1>1 DEF MigrationsInv
  <2>1. PICK p \in Services :
           RunInit(p) \/ RetryInit(p) \/ CommitMigrations(p) \/ CommitUnanswered(p)
    BY DEF Next, vars, Step, Disturb, PrepareTracking, LockTable, VersionMatches, VersionIsNew,
       ShouldRunInit, Migrate, ConfigureViews, Record, SeeLost, DropViewsError, Fail, LoseTx
  <2>2. \/ pc[p] = "init" /\ runs' = Plus(runs, {InitSQL})
        \/ pc[p] = "migrate" /\ runs' = Plus(runs, batch[p])
    BY <2>1 DEF RunInit, RetryInit, CommitMigrations, CommitUnanswered, TakeEffect
  <2>3. \/ m \in {InitSQL} /\ pc[p] = "init"
        \/ m \in batch[p] /\ pc[p] = "migrate"
    BY <2>2 DEF Plus, TypeOK
  <2>4. p \in lost
    BY <2>3 DEF ProgressInv
  <2>5. QED
    BY <2>3, <2>4
<1>2. QED
  BY <1>1, MigratedSafely, PTL DEF Spec, RecordedIsNotRunAgain
=============================================================================

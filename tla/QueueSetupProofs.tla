--------------------------- MODULE QueueSetupProofs ---------------------------
(***************************************************************************)
(* QueueSetup proved for every number of services and versions.            *)
(***************************************************************************)
EXTENDS QueueSetup, TLAPS

(* Where SetupTables is: its labels, and how syncTable of a table t moves  *)
(* with respect to a table u.                                              *)
LEMMA Labels ==
    ASSUME NEW t \in Tables
    PROVE  /\ ListLabel(t) \in {"list schedules", "list tasks"}
           /\ SyncLabel(t) \in {"sync schedules", "sync tasks"}
           /\ AfterSync(t) \in {"list tasks", "trigger"}
           /\ \A u \in Tables :
                /\ SyncLabel(t) = SyncLabel(u) => t = u
                /\ ListLabel(t) \notin PastSync(u) => SyncLabel(t) \notin PastSync(u)
                /\ u # t /\ SyncLabel(t) \notin PastSync(u) => AfterSync(t) \notin PastSync(u)
<1>1. t = "schedules" \/ t = "tasks"
  BY DEF Tables
<1>2. \A u \in Tables : u = "schedules" \/ u = "tasks"
  BY DEF Tables
<1>3. QED
  BY <1>1, <1>2 DEF ListLabel, SyncLabel, AfterSync, PastSync

(* The columns a service expects are columns, and at least one. *)
LEMMA ExpectedType ==
    ASSUME TypeOK, NEW s \in Services, NEW t \in Tables
    PROVE  /\ Expected(s, t) \subseteq AllColumns
           /\ SystemColumns(t) \subseteq Expected(s, t)
           /\ SystemColumns(t) # {}
           /\ Refs(s) \subseteq AllColumns
<1>1. Refs(s) \subseteq AllColumns
  BY DEF TypeOK, Refs, AllColumns
<1>2. SystemColumns(t) \subseteq AllColumns /\ SystemColumns(t) # {}
  BY DEF SystemColumns, AllColumns, scheduleColumns, taskColumns
<1>3. QED
  BY <1>1, <1>2 DEF Expected

(* The indexes that applyIndexes wants are on columns of the tables. *)
LEMMA IndexType ==
    ASSUME TypeOK, NEW s \in Services
    PROVE  /\ ApplyIndexes(s) \subseteq Tables \X AllColumns
           /\ Tables \X Refs(s) \subseteq ApplyIndexes(s)
           /\ <<"schedules", "task_queue">> \in ApplyIndexes(s)
           /\ <<"tasks", "queue">> \in ApplyIndexes(s)
<1>1. Refs(s) \subseteq AllColumns
  BY DEF TypeOK, Refs, AllColumns
<1>2. SystemIndexes \subseteq Tables \X AllColumns
  BY DEF SystemIndexes, Tables, AllColumns, scheduleColumns, taskColumns
<1>3. QED
  BY <1>1, <1>2 DEF ApplyIndexes, SystemIndexes

(* A new database, or one that some version has set up, satisfies the      *)
(* invariant.                                                              *)
LEMMA InitInv == Init => SetupInv
<1> SUFFICES ASSUME Init PROVE SetupInv
  OBVIOUS
<1>1. TypeOK /\ TablesInv
  <2> DEFINE Sound ==
        /\ columns \in [Tables -> SUBSET AllColumns]
        /\ indexes \subseteq Tables \X AllColumns
        /\ trigger \in BOOLEAN
        /\ \A t \in Tables : \A c \in AllColumns : <<t, c>> \in indexes => c \in columns[t]
        /\ \A t \in Tables : columns[t] = {} \/ SystemColumns(t) \subseteq columns[t]
  <2>1. Sound
    <3>1. CASE columns = [t \in Tables |-> {}] /\ indexes = {} /\ trigger = FALSE
      BY <3>1
    <3>2. ASSUME NEW c \in ValidConfigs,
                 columns = [t \in Tables |-> SystemColumns(t) \cup Names(c)],
                 indexes = SystemIndexes \cup (Tables \X Names(c)),
                 trigger = TRUE
          PROVE  Sound
      <4>1. Names(c) \subseteq AllColumns
        BY DEF ValidConfigs, AllColumns
      <4>2. SystemIndexes \subseteq Tables \X AllColumns
        BY DEF SystemIndexes, Tables, AllColumns, scheduleColumns, taskColumns
      <4>3. \A t \in Tables : SystemColumns(t) \subseteq AllColumns
        BY DEF SystemColumns, AllColumns
      <4>4. \A t \in Tables : \A d \in AllColumns :
               <<t, d>> \in SystemIndexes => d \in SystemColumns(t)
        BY DEF SystemIndexes, SystemColumns, scheduleColumns, taskColumns, Tables
      <4>5. trigger \in BOOLEAN
        BY <3>2
      <4>6. columns \in [Tables -> SUBSET AllColumns]
        BY <3>2, <4>1, <4>3
      <4>7. indexes \subseteq Tables \X AllColumns
        BY <3>2, <4>1, <4>2
      <4>8. QED
        BY <3>2, <4>4, <4>5, <4>6, <4>7
    <3>3. QED
      BY <3>1, <3>2 DEF Init
  <2> HIDE DEF Sound
  <2>2. /\ refsOf \in [Services -> Configs] /\ listed \in [Services -> SUBSET AllColumns]
        /\ attempts \in [Services -> 0..MaxRetries] /\ faults \in 0..MaxFaults
        /\ pc \in [Services -> {"list schedules"}]
        /\ \A s \in Services : listed[s] = {}
    <3>1. /\ refsOf \in [Services -> Configs] /\ listed = [s \in Services |-> {}]
          /\ attempts = [s \in Services |-> 0] /\ faults = 0
          /\ pc = [s \in Services |-> "list schedules"]
      BY Zenon DEF Init
    <3>2. QED
      <4>1. 0 \in 0..MaxRetries /\ 0 \in 0..MaxFaults
        BY BoundsAssumption
      <4>2. QED
        BY <3>1, <4>1
  <2>3. QED
    BY <2>1, <2>2 DEF Sound, TypeOK, TablesInv
<1>2. AttemptInv
  <2>1. 0 < MaxRetries
    BY BoundsAssumption
  <2>2. QED
    BY <2>1 DEF Init, AttemptInv, Running
<1>3. ReplicaInv /\ ReplicasConverge
  BY DEF Init, ReplicaInv, ReplicasConverge, PastSync, SyncLabel
<1>4. QED
  BY <1>1, <1>2, <1>3 DEF SetupInv

(* The replicas have converged when all of them are past both tables. *)
LEMMA Converged ==
    /\ ReplicaInv => ReplicasConverge
    /\ ReplicaInv' => ReplicasConverge'
<1>1. \A t \in Tables : "returned" \in PastSync(t)
  BY DEF PastSync
<1>2. ReplicaInv => ReplicasConverge
  BY <1>1 DEF ReplicaInv, ReplicasConverge
<1>3. ReplicaInv' => ReplicasConverge'
  BY <1>1 DEF ReplicaInv, ReplicasConverge
<1>4. QED
  BY <1>2, <1>3

(* An attempt ends in an error: the tables stay as they are. *)
LEMMA ReturnErrorInv ==
    ASSUME SetupInv, NEW s \in Services, Running(s), ReturnError(s),
           UNCHANGED <<refsOf, columns, indexes, trigger>>, faults' \in 0..MaxFaults,
           listed' \in [Services -> SUBSET AllColumns],
           \A r \in Services \ {s} : listed'[r] = listed[r]
    PROVE  SetupInv'
<1> USE DEF SetupInv
<1>1. /\ \A r \in Services \ {s} : pc'[r] = pc[r] /\ attempts'[r] = attempts[r]
      /\ pc'[s] = "error"
  BY DEF ReturnError, Goto, TypeOK
<1>2. attempts' \in [Services -> 0..MaxRetries]
  <2>1. attempts[s] < MaxRetries
    BY DEF AttemptInv, Running
  <2> HIDE DEF SetupInv
  <2>2. attempts[s] \in 0..MaxRetries
    BY DEF SetupInv, TypeOK
  <2>3. attempts[s] + 1 \in 0..MaxRetries
    BY <2>1, <2>2, BoundsAssumption
  <2>4. QED
    BY <2>3 DEF SetupInv, ReturnError, TypeOK
<1>3. pc' = [pc EXCEPT ![s] = "error"]
  BY DEF ReturnError, Goto
<1>4. TypeOK'
  BY <1>2, <1>3 DEF TypeOK
<1>5. TablesInv'
  <2>1. \A r \in Services, u \in Tables :
           pc'[r] = SyncLabel(u) /\ listed'[r] # {} => columns[u] # {}
    <3> SUFFICES ASSUME NEW r \in Services, NEW u \in Tables, pc'[r] = SyncLabel(u), listed'[r] # {}
                 PROVE  columns[u] # {}
      OBVIOUS
    <3>1. r # s
      BY <1>1 DEF SyncLabel
    <3>2. QED
      BY <1>1, <3>1 DEF TablesInv
  <2>2. QED
    BY <2>1 DEF TablesInv
<1>6. AttemptInv'
  BY <1>1 DEF AttemptInv, Running
<1>7. ReplicaInv'
  <2> SUFFICES ASSUME \A r \in Services, q \in Services : refsOf[r] = refsOf[q],
                      NEW r \in Services, NEW u \in Tables, columns[u] # Expected(r, u)
               PROVE  pc'[r] \notin PastSync(u) /\ (pc'[r] = SyncLabel(u) => listed'[r] = columns[u])
    BY DEF ReplicaInv, Expected, Refs
  <2>1. "error" \notin PastSync(u) /\ "error" # SyncLabel(u)
    BY DEF PastSync, SyncLabel
  <2>2. QED
    BY <1>1, <2>1 DEF ReplicaInv
<1>8. QED
  BY <1>4, <1>5, <1>6, <1>7, Converged

(* listColumns *)
LEMMA ListColumnsInv ==
    ASSUME SetupInv, NEW s \in Services, NEW t \in Tables, ListColumns(s, t)
    PROVE  SetupInv'
<1> USE DEF SetupInv
<1>1. Running(s)
  BY Labels DEF ListColumns, Running
<1>2. CASE Refused(refsOf[s], t)
  BY <1>1, <1>2, ReturnErrorInv DEF ListColumns, TypeOK
<1>3. CASE ~Refused(refsOf[s], t)
  <2>1. /\ pc' = [pc EXCEPT ![s] = SyncLabel(t)] /\ listed' = [listed EXCEPT ![s] = columns[t]]
        /\ UNCHANGED <<refsOf, columns, indexes, trigger, attempts, faults>>
    BY <1>3 DEF ListColumns, Goto
  <2>2. /\ \A r \in Services \ {s} : pc'[r] = pc[r] /\ listed'[r] = listed[r]
        /\ pc'[s] = SyncLabel(t) /\ listed'[s] = columns[t]
    BY <2>1 DEF TypeOK
  <2>3. TypeOK'
    BY <2>1, Labels DEF TypeOK
  <2>4. TablesInv'
    <3>1. \A r \in Services, u \in Tables :
             pc'[r] = SyncLabel(u) /\ listed'[r] # {} => columns[u] # {}
      <4> SUFFICES ASSUME NEW r \in Services, NEW u \in Tables,
                          pc'[r] = SyncLabel(u), listed'[r] # {}
                   PROVE  columns[u] # {}
        OBVIOUS
      <4>1. CASE r # s
        BY <2>2, <4>1 DEF TablesInv
      <4>2. CASE r = s
        <5>1. t = u
          BY <2>2, <4>2, Labels
        <5>2. QED
          BY <2>2, <4>2, <5>1
      <4>3. QED
        BY <4>1, <4>2
    <3>2. QED
      BY <2>1, <3>1 DEF TablesInv
  <2>5. AttemptInv'
    BY <1>1, <2>1, <2>2, Labels DEF AttemptInv, Running
  <2>6. ReplicaInv'
    <3> SUFFICES ASSUME \A r \in Services, q \in Services : refsOf[r] = refsOf[q],
                        NEW r \in Services, NEW u \in Tables, columns[u] # Expected(r, u)
                 PROVE  pc'[r] \notin PastSync(u) /\ (pc'[r] = SyncLabel(u) => listed'[r] = columns[u])
      BY <2>1 DEF ReplicaInv, Expected, Refs
    <3>1. pc[r] \notin PastSync(u) /\ (pc[r] = SyncLabel(u) => listed[r] = columns[u])
      BY DEF ReplicaInv
    <3>2. CASE r # s
      BY <2>2, <3>1, <3>2
    <3>3. CASE r = s
      <4>1. pc[s] = ListLabel(t)
        BY DEF ListColumns
      <4>2. QED
        BY <2>2, <3>1, <3>3, <4>1, Labels
    <3>4. QED
      BY <3>2, <3>3
  <2>7. QED
    BY <2>3, <2>4, <2>5, <2>6, Converged
<1>4. QED
  BY <1>2, <1>3

(* A service that is past syncTable of t: every table that had, or now     *)
(* gets, the columns of all replicas keeps the replica invariant.          *)
LEMMA PastSyncInv ==
    ASSUME SetupInv, NEW s \in Services, NEW t \in Tables, pc[s] = SyncLabel(t),
           pc' = [pc EXCEPT ![s] = AfterSync(t)], UNCHANGED refsOf,
           \A r \in Services \ {s} : listed'[r] = listed[r],
           \A u \in Tables \ {t} : columns'[u] = columns[u],
           columns[t] = Expected(s, t) \/ listed[s] = columns[t] => columns'[t] = Expected(s, t)
    PROVE  ReplicaInv'
<1> USE DEF SetupInv
<1> SUFFICES ASSUME \A r \in Services, q \in Services : refsOf[r] = refsOf[q],
                    NEW r \in Services, NEW u \in Tables, columns'[u] # Expected(r, u)
             PROVE  pc'[r] \notin PastSync(u) /\ (pc'[r] = SyncLabel(u) => listed'[r] = columns'[u])
  BY DEF ReplicaInv, Expected, Refs
<1>1. Expected(r, u) = Expected(s, u)
  BY DEF Expected, Refs
<1>2. u # t
  BY <1>1 DEF ReplicaInv
<1>3. columns'[u] = columns[u]
  BY <1>2
<1>4. /\ pc[r] \notin PastSync(u) /\ (pc[r] = SyncLabel(u) => listed[r] = columns[u])
      /\ pc[s] \notin PastSync(u)
  BY <1>1, <1>3 DEF ReplicaInv
<1>5. CASE r # s
  BY <1>3, <1>4, <1>5 DEF TypeOK
<1>6. CASE r = s
  <2>1. pc'[s] = AfterSync(t)
    BY DEF TypeOK
  <2>2. AfterSync(t) \notin PastSync(u)
    BY <1>2, <1>4, Labels
  <2>3. AfterSync(t) # SyncLabel(u)
    <3>1. AfterSync(t) \in {"list tasks", "trigger"} /\ SyncLabel(u) \in {"sync schedules", "sync tasks"}
      BY Labels
    <3>2. QED
      BY <3>1
  <2>4. QED
    BY <1>6, <2>1, <2>2, <2>3
<1>7. QED
  BY <1>5, <1>6

(* CREATE TABLE IF NOT EXISTS *)
LEMMA CreateTableInv ==
    ASSUME SetupInv, NEW s \in Services, NEW t \in Tables, CreateTable(s, t)
    PROVE  SetupInv'
<1> USE DEF SetupInv
<1>1. /\ Expected(s, t) \subseteq AllColumns /\ SystemColumns(t) \subseteq Expected(s, t)
      /\ SystemColumns(t) # {}
  BY ExpectedType
<1>2. /\ pc[s] = SyncLabel(t) /\ listed[s] = {}
      /\ pc' = [pc EXCEPT ![s] = AfterSync(t)]
      /\ columns' = IF columns[t] = {} THEN [columns EXCEPT ![t] = Expected(s, t)] ELSE columns
      /\ UNCHANGED <<refsOf, indexes, trigger, listed, attempts, faults>>
  BY DEF CreateTable, Goto
<1>3. /\ \A u \in Tables \ {t} : columns'[u] = columns[u]
      /\ columns[t] = {} => columns'[t] = Expected(s, t)
      /\ columns[t] # {} => columns'[t] = columns[t]
      /\ columns' \in [Tables -> SUBSET AllColumns]
  BY <1>1, <1>2 DEF TypeOK
<1>4. pc'[s] = AfterSync(t) /\ \A r \in Services \ {s} : pc'[r] = pc[r]
  BY <1>2 DEF TypeOK
<1>5. TypeOK'
  BY <1>2, <1>3, Labels DEF TypeOK
<1>6. TablesInv'
  <2>1. \A u \in Tables : columns[u] \subseteq columns'[u]
    BY <1>3
  <2>2. \A u \in Tables : columns'[u] = {} \/ SystemColumns(u) \subseteq columns'[u]
    BY <1>1, <1>3 DEF TablesInv
  <2>3. \A r \in Services, u \in Tables :
           pc'[r] = SyncLabel(u) /\ listed[r] # {} => columns'[u] # {}
    BY <1>2, <1>4, <2>1 DEF TablesInv
  <2>4. QED
    BY <1>2, <2>1, <2>2, <2>3 DEF TablesInv
<1>7. AttemptInv'
  BY <1>2, <1>4, Labels DEF AttemptInv, Running
<1>8. ReplicaInv'
  BY <1>1, <1>2, <1>3, PastSyncInv
<1>9. QED
  BY <1>5, <1>6, <1>7, <1>8, Converged

(* ALTER TABLE *)
LEMMA AlterTableInv ==
    ASSUME SetupInv, NEW s \in Services, NEW t \in Tables, AlterTable(s, t)
    PROVE  SetupInv'
<1> USE DEF SetupInv
<1>1. /\ Expected(s, t) \subseteq AllColumns /\ SystemColumns(t) \subseteq Expected(s, t)
      /\ SystemColumns(t) # {}
  BY ExpectedType
<1>2. /\ pc[s] = SyncLabel(t) /\ listed[s] # {} /\ Running(s)
      /\ listed' = [listed EXCEPT ![s] = {}] /\ UNCHANGED <<refsOf, trigger, faults>>
      /\ \A r \in Services \ {s} : listed'[r] = listed[r]
      /\ listed' \in [Services -> SUBSET AllColumns]
  BY Labels DEF AlterTable, TypeOK, Running
<1>3. CASE Missing(s, t) \cap columns[t] = {} /\ Redundant(s, t) \subseteq columns[t]
  <2>1. /\ columns' = [columns EXCEPT ![t] = (@ \cup Missing(s, t)) \ Redundant(s, t)]
        /\ indexes' = indexes \ ({t} \X Redundant(s, t))
        /\ pc' = [pc EXCEPT ![s] = AfterSync(t)] /\ UNCHANGED attempts
    BY <1>3 DEF AlterTable, Goto
  <2>2. /\ \A u \in Tables \ {t} : columns'[u] = columns[u]
        /\ columns'[t] = (columns[t] \cup Missing(s, t)) \ Redundant(s, t)
        /\ columns' \in [Tables -> SUBSET AllColumns]
    BY <1>1, <2>1 DEF TypeOK, Missing
  <2>3. pc'[s] = AfterSync(t) /\ \A r \in Services \ {s} : pc'[r] = pc[r]
    BY <2>1 DEF TypeOK
  <2>4. TypeOK'
    BY <1>2, <2>1, <2>2, Labels DEF TypeOK
  <2>5. TablesInv'
    <3>1. columns[t] # {} /\ SystemColumns(t) \subseteq columns[t]
      BY <1>2 DEF TablesInv
    <3>2. SystemColumns(t) \subseteq columns'[t] /\ columns'[t] # {}
      BY <1>1, <2>2, <3>1 DEF Redundant
    <3>3. \A u \in Tables : columns'[u] = {} \/ SystemColumns(u) \subseteq columns'[u]
      BY <2>2, <3>2 DEF TablesInv
    <3>4. \A u \in Tables : \A c \in AllColumns : <<u, c>> \in indexes' => c \in columns'[u]
      BY <2>1, <2>2 DEF TablesInv
    <3>5. \A r \in Services, u \in Tables :
             pc'[r] = SyncLabel(u) /\ listed'[r] # {} => columns'[u] # {}
      <4>1. \A u \in Tables : columns[u] # {} => columns'[u] # {}
        BY <2>2, <3>2
      <4>2. listed'[s] = {}
        BY <1>2 DEF TypeOK
      <4>3. QED
        BY <1>2, <2>3, <4>1, <4>2 DEF TablesInv
    <3>6. QED
      BY <3>3, <3>4, <3>5 DEF TablesInv
  <2>6. AttemptInv'
    BY <1>2, <2>1, <2>3, Labels DEF AttemptInv, Running
  <2>7. columns[t] = Expected(s, t) \/ listed[s] = columns[t] => columns'[t] = Expected(s, t)
    BY <1>3, <2>2 DEF Missing, Redundant
  <2>8. ReplicaInv'
    BY <1>2, <2>1, <2>2, <2>7, PastSyncInv
  <2>9. QED
    BY <2>4, <2>5, <2>6, <2>8, Converged
<1>4. CASE ~(Missing(s, t) \cap columns[t] = {} /\ Redundant(s, t) \subseteq columns[t])
  <2>1. ReturnError(s) /\ UNCHANGED <<columns, indexes>>
    BY <1>4 DEF AlterTable
  <2>2. QED
    BY <1>2, <2>1, ReturnErrorInv DEF TypeOK
<1>5. QED
  BY <1>3, <1>4

(* A step that leaves the tables alone and takes a service to a label      *)
(* that is not in syncTable: past it, or back to the start.                *)
LEMMA MoveInv ==
    ASSUME SetupInv, NEW s \in Services, NEW label \in {"indexes", "returned", "list schedules", "gave up"},
           pc' = [pc EXCEPT ![s] = label],
           label \in {"indexes", "returned"} => pc[s] \in {"trigger", "indexes"},
           label = "list schedules" => attempts'[s] < MaxRetries,
           label = "indexes" => trigger' /\ UNCHANGED attempts,
           UNCHANGED <<refsOf, columns>>,
           indexes' \subseteq Tables \X AllColumns,
           \A t \in Tables : \A c \in AllColumns : <<t, c>> \in indexes' => c \in columns[t],
           trigger' \in BOOLEAN, trigger => trigger', faults' \in 0..MaxFaults,
           attempts' \in [Services -> 0..MaxRetries], listed' \in [Services -> SUBSET AllColumns],
           \A r \in Services \ {s} : attempts'[r] = attempts[r] /\ listed'[r] = listed[r]
    PROVE  SetupInv'
<1> USE DEF SetupInv
<1>1. pc'[s] = label /\ \A r \in Services \ {s} : pc'[r] = pc[r]
  BY DEF TypeOK
<1>2. \A u \in Tables : label # SyncLabel(u)
  BY DEF SyncLabel
<1>3. TypeOK'
  BY DEF TypeOK
<1>4. TablesInv'
  <2>1. \A r \in Services, u \in Tables :
           pc'[r] = SyncLabel(u) /\ listed'[r] # {} => columns[u] # {}
    <3> SUFFICES ASSUME NEW r \in Services, NEW u \in Tables,
                        pc'[r] = SyncLabel(u), listed'[r] # {}
                 PROVE  columns[u] # {}
      OBVIOUS
    <3>1. r # s
      BY <1>1, <1>2
    <3>2. pc[r] = SyncLabel(u) /\ listed[r] # {}
      BY <1>1, <3>1
    <3>3. QED
      BY <3>2 DEF TablesInv
  <2>2. QED
    BY <2>1 DEF TablesInv
<1>5. AttemptInv'
  <2> SUFFICES ASSUME NEW r \in Services
               PROVE  /\ Running(r)' => attempts'[r] < MaxRetries
                      /\ pc'[r] = "indexes" => trigger'
    BY DEF AttemptInv
  <2>1. CASE r # s
    BY <1>1, <2>1 DEF AttemptInv, Running
  <2>2. CASE r = s
    <3>1. label = "indexes" => attempts[s] < MaxRetries
      BY DEF AttemptInv, Running
    <3>2. Running(s)' => label \in {"indexes", "list schedules"}
      BY <1>1 DEF Running
    <3>3. QED
      BY <1>1, <2>2, <3>1, <3>2
  <2>3. QED
    BY <2>1, <2>2
<1>6. ReplicaInv'
  <2> SUFFICES ASSUME \A r \in Services, q \in Services : refsOf[r] = refsOf[q],
                      NEW r \in Services, NEW u \in Tables, columns[u] # Expected(r, u)
               PROVE  pc'[r] \notin PastSync(u) /\ (pc'[r] = SyncLabel(u) => listed'[r] = columns[u])
    BY DEF ReplicaInv, Expected, Refs
  <2>1. pc[r] \notin PastSync(u) /\ (pc[r] = SyncLabel(u) => listed[r] = columns[u])
    BY DEF ReplicaInv
  <2>2. CASE r # s
    BY <1>1, <2>1, <2>2
  <2>3. CASE r = s
    <3>1. label \notin PastSync(u)
      BY <2>1, <2>3 DEF PastSync
    <3>2. QED
      BY <1>1, <1>2, <2>3, <3>1
  <2>4. QED
    BY <2>2, <2>3
<1>7. QED
  BY <1>3, <1>4, <1>5, <1>6, Converged

(* applyIndexes wants an index that has no column, or every column it      *)
(* wants an index on is there.                                             *)
LEMMA CreateIndexesInv ==
    ASSUME SetupInv, NEW s \in Services, CreateIndexes(s)
    PROVE  SetupInv'
<1> USE DEF SetupInv
<1>1. pc[s] = "indexes" /\ UNCHANGED <<refsOf, columns, trigger, listed, faults>>
  BY DEF CreateIndexes
<1>2. CASE \A i \in ApplyIndexes(s) : i \in indexes \/ i[2] \in columns[i[1]]
  <2>1. indexes' = indexes \cup ApplyIndexes(s) /\ pc' = [pc EXCEPT ![s] = "returned"]
        /\ UNCHANGED attempts
    BY <1>2 DEF CreateIndexes, Goto
  <2>2. ApplyIndexes(s) \subseteq Tables \X AllColumns
    BY IndexType
  <2>3. ASSUME NEW t \in Tables, NEW c \in AllColumns, <<t, c>> \in indexes'
        PROVE  c \in columns[t]
    <3>1. CASE <<t, c>> \in indexes
      BY <3>1 DEF TablesInv
    <3>2. CASE <<t, c>> \in ApplyIndexes(s) /\ <<t, c>> \notin indexes
      BY <1>2, <3>2
    <3>3. QED
      BY <2>1, <2>3, <3>1, <3>2
  <2>4. indexes' \subseteq Tables \X AllColumns
    BY <2>1, <2>2 DEF TypeOK
  <2>5. trigger' \in BOOLEAN /\ (trigger => trigger')
    BY <1>1 DEF TypeOK
  <2>6. QED
    BY <1>1, <2>1, <2>3, <2>4, <2>5, MoveInv DEF TypeOK
<1>3. CASE ~\A i \in ApplyIndexes(s) : i \in indexes \/ i[2] \in columns[i[1]]
  <2>1. ReturnError(s) /\ UNCHANGED indexes /\ Running(s)
    BY <1>1, <1>3 DEF CreateIndexes, Running
  <2>2. QED
    BY <1>1, <2>1, ReturnErrorInv DEF TypeOK
<1>4. QED
  BY <1>2, <1>3

(* Every step keeps the invariant. *)
LEMMA StepInv == SetupInv /\ [Next]_vars => SetupInv'
<1> SUFFICES ASSUME SetupInv, [Next]_vars PROVE SetupInv'
  OBVIOUS
<1> USE DEF SetupInv
<1>1. ASSUME NEW s \in Services, Statement(s) PROVE SetupInv'
  <2>1. CASE SetupTrigger(s)
    <3>1. trigger'
      BY <2>1, Zenon DEF SetupTrigger
    <3>2. trigger' \in BOOLEAN
      BY <2>1, Zenon DEF SetupTrigger
    <3>3. pc[s] = "trigger" /\ pc' = [pc EXCEPT ![s] = "indexes"]
          /\ UNCHANGED <<refsOf, columns, indexes, listed, attempts, faults>>
      BY <2>1 DEF SetupTrigger, Goto
    <3>4. \A t \in Tables : \A c \in AllColumns : <<t, c>> \in indexes' => c \in columns[t]
      BY <3>3 DEF TablesInv
    <3>5. /\ faults' \in 0..MaxFaults /\ indexes' \subseteq Tables \X AllColumns
          /\ attempts' \in [Services -> 0..MaxRetries] /\ listed' \in [Services -> SUBSET AllColumns]
      BY <3>3 DEF TypeOK
    <3>6. QED
      BY <3>1, <3>2, <3>3, <3>4, <3>5, MoveInv
  <2>2. QED
    BY <1>1, <2>1, ListColumnsInv, CreateTableInv, AlterTableInv, CreateIndexesInv DEF Statement
<1>2. ASSUME NEW s \in Services, Retry(s) PROVE SetupInv'
  <2>1. PICK label \in {"list schedules", "gave up"} :
           pc' = [pc EXCEPT ![s] = label] /\ (label = "list schedules" => attempts[s] < MaxRetries)
    BY <1>2 DEF Retry, Goto, MayRetry
  <2>2. UNCHANGED <<refsOf, columns, indexes, trigger, listed, attempts, faults>>
    BY <1>2 DEF Retry
  <2>3. /\ \A t \in Tables : \A c \in AllColumns : <<t, c>> \in indexes' => c \in columns[t]
        /\ faults' \in 0..MaxFaults /\ indexes' \subseteq Tables \X AllColumns
        /\ attempts' \in [Services -> 0..MaxRetries] /\ listed' \in [Services -> SUBSET AllColumns]
        /\ trigger' \in BOOLEAN
    BY <2>2 DEF TypeOK, TablesInv
  <2>4. trigger => trigger'
    BY <2>2
  <2>5. QED
    BY <2>1, <2>2, <2>3, <2>4, MoveInv
<1>3. ASSUME NEW s \in Services, StatementFails(s) PROVE SetupInv'
  <2>1. /\ Running(s) /\ ReturnError(s) /\ UNCHANGED <<refsOf, columns, indexes, trigger>>
        /\ listed' = [listed EXCEPT ![s] = {}]
    BY <1>3 DEF StatementFails
  <2>2. faults' \in 0..MaxFaults
    <3>1. faults \in 0..MaxFaults /\ faults < MaxFaults /\ faults' = faults + 1
      BY <1>3 DEF StatementFails, TypeOK
    <3>2. QED
      BY <3>1, BoundsAssumption
  <2>3. /\ listed' \in [Services -> SUBSET AllColumns]
        /\ \A r \in Services \ {s} : listed'[r] = listed[r]
    BY <2>1 DEF TypeOK
  <2>4. QED
    BY <2>1, <2>2, <2>3, ReturnErrorInv
<1>4. ASSUME NEW s \in Services, Restart(s) PROVE SetupInv'
  <2>1. /\ pc' = [pc EXCEPT ![s] = "list schedules"] /\ attempts' = [attempts EXCEPT ![s] = 0]
        /\ listed' = [listed EXCEPT ![s] = {}] /\ UNCHANGED <<refsOf, columns, indexes, trigger>>
    BY <1>4 DEF Restart, Goto
  <2>2. faults' \in 0..MaxFaults
    <3>1. faults \in 0..MaxFaults /\ faults < MaxFaults /\ faults' = faults + 1
      BY <1>4 DEF Restart, TypeOK
    <3>2. QED
      BY <3>1, BoundsAssumption
  <2>3. 0 \in 0..MaxRetries /\ 0 < MaxRetries
    BY BoundsAssumption
  <2>4. /\ attempts' \in [Services -> 0..MaxRetries] /\ attempts'[s] < MaxRetries
        /\ listed' \in [Services -> SUBSET AllColumns]
        /\ \A r \in Services \ {s} : attempts'[r] = attempts[r] /\ listed'[r] = listed[r]
    BY <2>1, <2>3 DEF TypeOK
  <2>5. /\ \A t \in Tables : \A c \in AllColumns : <<t, c>> \in indexes' => c \in columns[t]
        /\ indexes' \subseteq Tables \X AllColumns /\ trigger' \in BOOLEAN
    BY <2>1 DEF TypeOK, TablesInv
  <2>6. trigger => trigger'
    BY <2>1
  <2>7. QED
    BY <2>1, <2>2, <2>4, <2>5, <2>6, MoveInv
<1>5. CASE UNCHANGED vars
  <2>1. UNCHANGED <<refsOf, columns, indexes, trigger, pc, listed, attempts, faults>>
    BY <1>5 DEF vars
  <2>2. TypeOK'
    BY <2>1 DEF TypeOK
  <2>3. TablesInv' /\ AttemptInv'
    BY <2>1 DEF TablesInv, AttemptInv, Running
  <2>4. ReplicaInv'
    BY <2>1 DEF ReplicaInv, Expected, Refs
  <2>5. QED
    BY <2>2, <2>3, <2>4, Converged
<1>6. QED
  BY <1>1, <1>2, <1>3, <1>4, <1>5 DEF Next

(* When all replicas of a version have returned the tables have exactly    *)
(* its columns, for any number of replicas and whatever set the tables up  *)
(* before.                                                                 *)
THEOREM ReplicasAgree == Spec => []SetupInv
<1>1. QED
  BY InitInv, StepInv, PTL DEF Spec

(* SetupTables returns nil only to a service whose columns and indexes are *)
(* all there, whatever services of other versions do between its           *)
(* statements.                                                             *)
THEOREM ReadyOnReturn == Spec => ReturnMeansReady
<1>1. ASSUME SetupInv, [Next]_vars
      PROVE  [\A s \in Services :
                pc[s] # "returned" /\ pc'[s] = "returned" =>
                  /\ trigger'
                  /\ \A t \in Tables : Expected(s, t) \subseteq columns'[t]
                  /\ Tables \X Refs(s) \subseteq indexes']_vars
  <2> SUFFICES ASSUME NEW s \in Services, pc[s] # "returned", pc'[s] = "returned"
               PROVE  /\ trigger'
                      /\ \A t \in Tables : Expected(s, t) \subseteq columns'[t]
                      /\ Tables \X Refs(s) \subseteq indexes'
    OBVIOUS
  <2> USE <1>1 DEF SetupInv
  <2>1. CreateIndexes(s)
    <3>1. ASSUME NEW r \in Services, NEW label, pc' = [pc EXCEPT ![r] = label]
          PROVE  r = s /\ label = "returned"
      BY <3>1 DEF TypeOK
    <3>2. \A t \in Tables : SyncLabel(t) # "returned" /\ AfterSync(t) # "returned"
      BY DEF SyncLabel, AfterSync
    <3>3. \A r \in Services : ~ReturnError(r)
      BY <3>1 DEF ReturnError, Goto
    <3>4. ASSUME NEW r \in Services, CreateIndexes(r) PROVE r = s
      BY <3>1, <3>3, <3>4 DEF CreateIndexes, Goto
    <3>5. ASSUME NEW r \in Services, NEW t \in Tables
          PROVE  ~ListColumns(r, t) /\ ~CreateTable(r, t) /\ ~AlterTable(r, t)
      <4>1. ~Goto(r, SyncLabel(t)) /\ ~Goto(r, AfterSync(t))
        BY <3>1, <3>2 DEF Goto
      <4>2. QED
        BY <3>3, <4>1 DEF ListColumns, CreateTable, AlterTable
    <3>6. ASSUME NEW r \in Services
          PROVE  ~SetupTrigger(r) /\ ~Retry(r) /\ ~StatementFails(r) /\ ~Restart(r)
      <4>1. ~Goto(r, "indexes") /\ ~Goto(r, "list schedules") /\ ~Goto(r, "gave up")
        <5>1. \A label \in {"indexes", "list schedules", "gave up"} : pc' # [pc EXCEPT ![r] = label]
          BY <3>1
        <5>2. QED
          BY <5>1 DEF Goto
      <4>2. QED
        BY <3>3, <4>1 DEF SetupTrigger, Retry, StatementFails, Restart
    <3>7. pc' # pc
      OBVIOUS
    <3>8. QED
      BY <3>4, <3>5, <3>6, <3>7 DEF Next, vars, Statement
  <2>2. /\ pc[s] = "indexes" /\ UNCHANGED <<columns, trigger>>
        /\ \A i \in ApplyIndexes(s) : i \in indexes \/ i[2] \in columns[i[1]]
        /\ indexes' = indexes \cup ApplyIndexes(s)
    BY <2>1 DEF CreateIndexes, ReturnError, Goto, TypeOK
  <2>3. /\ ApplyIndexes(s) \subseteq Tables \X AllColumns
        /\ Tables \X Refs(s) \subseteq ApplyIndexes(s)
        /\ <<"schedules", "task_queue">> \in ApplyIndexes(s)
        /\ <<"tasks", "queue">> \in ApplyIndexes(s)
    BY IndexType
  <2>4. ASSUME NEW t \in Tables, NEW c, <<t, c>> \in ApplyIndexes(s)
        PROVE  c \in columns[t]
    <3>1. c \in AllColumns
      BY <2>3, <2>4
    <3>2. CASE <<t, c>> \in indexes
      BY <3>1, <3>2 DEF TablesInv
    <3>3. CASE <<t, c>> \notin indexes
      BY <2>2, <2>4, <3>3
    <3>4. QED
      BY <3>2, <3>3
  <2>5. ASSUME NEW t \in Tables PROVE SystemColumns(t) \subseteq columns[t]
    <3>1. t = "schedules" \/ t = "tasks"
      BY DEF Tables
    <3>2. columns[t] # {}
      BY <2>3, <2>4, <3>1
    <3>3. QED
      BY <3>2 DEF TablesInv
  <2>6. \A t \in Tables : Refs(s) \subseteq columns[t]
    BY <2>3, <2>4
  <2>7. trigger'
    BY <2>2 DEF AttemptInv
  <2>8. QED
    BY <2>2, <2>3, <2>5, <2>6, <2>7 DEF Expected
<1>2. QED
  BY <1>1, ReplicasAgree, PTL DEF Spec, ReturnMeansReady

(* No service drops a column that every service expects, which would lose  *)
(* its data.                                                               *)
THEOREM CommonColumnsSafe == Spec => CommonColumnsStay
<1>1. ASSUME SetupInv, [Next]_vars
      PROVE  [\A t \in Tables : \A c \in columns[t] :
                (\A s \in Services : c \in Expected(s, t)) => c \in columns'[t]]_vars
  <2> SUFFICES ASSUME NEW t \in Tables, NEW c \in columns[t],
                      \A s \in Services : c \in Expected(s, t), columns' # columns
               PROVE  c \in columns'[t]
    OBVIOUS
  <2> USE <1>1 DEF SetupInv
  <2>1. PICK s \in Services, u \in Tables : CreateTable(s, u) \/ AlterTable(s, u)
    BY DEF Next, vars, Statement, Retry, StatementFails, Restart, ListColumns, SetupTrigger,
       CreateIndexes
  <2>2. CASE CreateTable(s, u)
    BY <2>2 DEF CreateTable, TypeOK
  <2>3. CASE AlterTable(s, u)
    BY <2>3 DEF AlterTable, TypeOK, Redundant
  <2>4. QED
    BY <2>1, <2>2, <2>3
<1>2. QED
  BY <1>1, ReplicasAgree, PTL DEF Spec, CommonColumnsStay
=============================================================================

---------------------------- MODULE QueueMetrics ----------------------------
(***************************************************************************)
(* The metrics of pkg/queue/metrics.go: four global structs of Prometheus  *)
(* metrics, their registration, SwitchMetricsServiceName, which replaces   *)
(* all of them by metrics with another service label, and the gauges that  *)
(* the task workers and the schedule workers keep.                         *)
(*                                                                         *)
(* A switch is excluded by a mutex from another switch only; the workers   *)
(* read the global structs without it.  A field is one word, so a worker   *)
(* finds either the old metric or the new one.  A generation is the set of *)
(* metrics that one switch creates.                                        *)
(***************************************************************************)
EXTENDS Integers, Sequences, FiniteSets, SequencesExt

CONSTANTS
    Workers,       \* workers of the process
    Switchers,     \* goroutines that call SwitchMetricsServiceName, once each
    Services,      \* service names
    DefaultService \* processName, the label before any switch

ASSUME WorkersAssumption == IsFiniteSet(Workers)
ASSUME ServicesAssumption == DefaultService \in Services
ASSUME SwitchersAssumption == IsFiniteSet(Switchers) /\ "none" \notin Switchers

VARIABLES
    current,    \* the generation each global struct holds
    service,    \* the service label of each generation
    registry,   \* the metrics that are registered: [family, name, generation]
    value,      \* the value of the gauges of each generation
    pc,         \* what each switcher does next
    struct,     \* the struct each switcher replaces, an index of Families
    mutex,      \* the switcher that holds the mutex, or "none"
    made,       \* the last generation that was made
    mine,       \* the generation each switcher makes
    family,     \* whether each worker is a task worker or a schedule worker
    inside,     \* the gauges each worker is inside of, innermost last
    left,       \* the gauge each worker has left since it entered one, or "none"
    bound,      \* the generation whose Dec each worker has deferred, or -1
    panicked,   \* promauto met a metric that is registered already
    disturbed   \* history: a struct was replaced while a worker was at work

switch == <<current, service, registry, pc, struct, mutex, made, mine, panicked>>
work == <<value, family, inside, left, bound>>
vars == <<switch, work, disturbed>>

(* The Names of the Opts of each struct. *)
TaskQueueOpts == {"total_count", "enqueue_duration_ms"}
SchedulerOpts == {"total_scheduled", "total_errors"}
TaskWorkerOpts ==
    {"active_gauge", "working_gauge", "dequeueing_gauge",
     "processing_duration_s", "dequeueing_duration_s",
     "task_count", "dequeue_error_count", "processing_error_count", "error_count"}
ScheduleWorkerOpts == TaskWorkerOpts \cup {"waiting_gauge"}

Families == <<"task", "scheduler", "task_worker", "schedule_worker">>
Opts ==
    [task |-> TaskQueueOpts, scheduler |-> SchedulerOpts,
     task_worker |-> TaskWorkerOpts, schedule_worker |-> ScheduleWorkerOpts]

WorkerFamilies == {"task_worker", "schedule_worker"}
Gauges == {"active_gauge", "working_gauge", "dequeueing_gauge", "waiting_gauge"}

(* How Work, iteration, tryDequeueTask and the wait nest. *)
Stacks ==
    {<<>>, <<"active_gauge">>, <<"active_gauge", "working_gauge">>,
     <<"active_gauge", "waiting_gauge">>, <<"active_gauge", "working_gauge", "dequeueing_gauge">>}

Generations == 0..Cardinality(Switchers)
FamilyNames == {Families[i] : i \in DOMAIN Families}
Metrics(f, gen) == {[family |-> f, name |-> n, generation |-> gen] : n \in Opts[f]}

(* What Prometheus identifies a metric by: its name and constant labels.   *)
(* The instance label is the same for all metrics of the process.          *)
Desc(m) == <<m.family, m.name, service[m.generation]>>
Descs(S) == {Desc(m) : m \in S}

TypeOK ==
    /\ current \in [FamilyNames -> Generations]
    /\ service \in [Generations -> Services]
    /\ \A m \in registry : m \in Metrics(m.family, m.generation)
    /\ value \in [WorkerFamilies \X Gauges \X Generations ->
                     (0 - Cardinality(Workers))..Cardinality(Workers)]
    /\ pc \in [Switchers -> {"call", "lock", "unregister", "create", "done"}]
    /\ struct \in [Switchers -> DOMAIN Families]
    /\ mutex \in Switchers \cup {"none"}
    /\ made \in Generations
    /\ mine \in [Switchers -> Generations]
    /\ family \in [Workers -> WorkerFamilies]
    /\ inside \in [Workers -> Stacks]
    /\ left \in [Workers -> Gauges \cup {"none"}]
    /\ bound \in [Workers -> [Gauges -> Generations \cup {-1}]]
    /\ panicked \in BOOLEAN /\ disturbed \in BOOLEAN

(* The package variables: promauto registers what it creates. *)
Init ==
    /\ current = [f \in FamilyNames |-> 0]
    /\ service = [gen \in Generations |-> DefaultService]
    /\ registry = UNION {Metrics(f, 0) : f \in FamilyNames}
    /\ value = [i \in WorkerFamilies \X Gauges \X Generations |-> 0]
    /\ pc = [s \in Switchers |-> "call"]
    /\ struct = [s \in Switchers |-> 1]
    /\ mutex = "none"
    /\ made = 0
    /\ mine = [s \in Switchers |-> 0]
    /\ family \in [Workers -> WorkerFamilies]
    /\ inside = [w \in Workers |-> <<>>]
    /\ left = [w \in Workers |-> "none"]
    /\ bound = [w \in Workers |-> [g \in Gauges |-> -1]]
    /\ panicked = FALSE
    /\ disturbed = FALSE

-----------------------------------------------------------------------------
(* SwitchMetricsServiceName *)

Goto(s, label) == pc' = [pc EXCEPT ![s] = label]

(* The options with the new label. *)
NewOpts(s, name) ==
    /\ pc[s] = "call"
    /\ made' = made + 1
    /\ mine' = [mine EXCEPT ![s] = made + 1]
    /\ service' = [service EXCEPT ![made + 1] = name]
    /\ Goto(s, "lock")
    /\ UNCHANGED <<current, registry, struct, mutex, panicked, disturbed, work>>

(* Mutant: there is no mutex. *)
NoMutex(s) == TRUE

MutexFree(s) == mutex = "none"

Lock(s) ==
    /\ pc[s] = "lock"
    /\ MutexFree(s)
    /\ mutex' = s
    /\ Goto(s, "unregister")
    /\ UNCHANGED <<current, service, registry, struct, made, mine, panicked, disturbed, work>>

Unregister(s) ==
    LET f == Families[struct[s]] IN
    /\ pc[s] = "unregister"
    /\ registry' = {m \in registry : Desc(m) \notin Descs(Metrics(f, current[f]))}
    /\ Goto(s, "create")
    /\ UNCHANGED <<current, service, struct, mutex, made, mine, panicked, disturbed, work>>

(* The literal creates and registers the metrics and is then assigned. *)
Create(s) ==
    LET f == Families[struct[s]]
        new == Metrics(f, mine[s]) IN
    /\ pc[s] = "create"
    /\ panicked' = (panicked \/ Descs(registry) \cap Descs(new) # {})
    /\ registry' = registry \cup new
    /\ current' = [current EXCEPT ![f] = mine[s]]
    /\ disturbed' = (disturbed \/ \E w \in Workers : inside[w] # <<>>)
    /\ IF struct[s] = Len(Families)
       THEN Goto(s, "done") /\ mutex' = "none" /\ UNCHANGED struct
       ELSE Goto(s, "unregister") /\ struct' = [struct EXCEPT ![s] = @ + 1] /\ UNCHANGED mutex
    /\ UNCHANGED <<service, made, mine, work>>

-----------------------------------------------------------------------------
(* The workers *)

Top(w) == inside[w][Len(inside[w])]
Pushed(w) == inside[w] # <<>> /\ (Top(w) = "waiting_gauge" \/ bound[w][Top(w)] # -1)
Pop(w) == SubSeq(inside[w], 1, Len(inside[w]) - 1)

Leave(w) ==
    /\ inside' = [inside EXCEPT ![w] = Pop(w)]
    /\ left' = [left EXCEPT ![w] = Top(w)]

Add(w, g, gen, d) == value' = [value EXCEPT ![<<family[w], g, gen>>] = @ + d]

(* What ends the body of the loop in Work. *)
LoopEnd(w) == IF family[w] = "task_worker" THEN "working_gauge" ELSE "waiting_gauge"

(* Where a worker enters which gauge: in Work, in iteration (the first one *)
(* before the loop), in tryDequeueTask of a task worker and in the wait of *)
(* a schedule worker.                                                      *)
MayEnter(w, g) ==
    \/ inside[w] = <<>> /\ g = "active_gauge"
    \/ /\ Pushed(w) /\ Top(w) = "active_gauge" /\ g = "working_gauge"
       /\ left[w] \in {"none", LoopEnd(w)}
    \/ /\ Pushed(w) /\ Top(w) = "active_gauge" /\ g = "waiting_gauge"
       /\ family[w] = "schedule_worker" /\ left[w] = "working_gauge"
    \/ /\ Pushed(w) /\ Top(w) = "working_gauge" /\ g = "dequeueing_gauge"
       /\ family[w] = "task_worker" /\ left[w] = "none"

(* `...Gauge.Inc()` *)
Enter(w, g) ==
    /\ MayEnter(w, g)
    /\ Add(w, g, current[family[w]], 1)
    /\ inside' = [inside EXCEPT ![w] = Append(@, g)]
    /\ left' = [left EXCEPT ![w] = "none"]
    /\ UNCHANGED <<switch, family, bound, disturbed>>

(* `defer ...Gauge.Dec()` reads the struct a second time and keeps the     *)
(* gauge it finds.                                                         *)
Defer(w) ==
    /\ inside[w] # <<>> /\ ~Pushed(w)
    /\ bound' = [bound EXCEPT ![w][Top(w)] = current[family[w]]]
    /\ UNCHANGED <<switch, family, value, inside, left, disturbed>>

(* The end of the wait: `WaitingGauge.Dec()` in both cases of the select.  *)
EndWait(w) ==
    /\ Pushed(w) /\ Top(w) = "waiting_gauge"
    /\ Add(w, "waiting_gauge", current[family[w]], -1)
    /\ Leave(w)
    /\ UNCHANGED <<switch, family, bound, disturbed>>

(* A function returns and its deferred Dec is run; Work returns when its   *)
(* context is cancelled.                                                   *)
Return(w) ==
    /\ Pushed(w) /\ Top(w) # "waiting_gauge"
    /\ Top(w) = "active_gauge" => left[w] = LoopEnd(w)
    /\ Add(w, Top(w), bound[w][Top(w)], -1)
    /\ bound' = [bound EXCEPT ![w][Top(w)] = -1]
    /\ Leave(w)
    /\ UNCHANGED <<switch, family, disturbed>>

Next ==
    \/ \E s \in Switchers : Lock(s) \/ Unregister(s) \/ Create(s) \/ \E name \in Services : NewOpts(s, name)
    \/ \E w \in Workers : Defer(w) \/ EndWait(w) \/ Return(w) \/ \E g \in Gauges : Enter(w, g)

Spec == Init /\ [][Next]_vars

-----------------------------------------------------------------------------
(* Properties *)

(* promauto panics when a metric is registered twice.  No sequence or      *)
(* overlap of switches gets there, also if the name stays the same.        *)
NeverPanics == ~panicked

(* When no switch is under way the registry exports the metrics the        *)
(* workers write to, and no metric of an earlier name besides them.        *)
CurrentIsExported ==
    mutex = "none" => registry = UNION {Metrics(f, current[f]) : f \in FamilyNames}

(* The workers of a family that are inside a gauge. *)
Inside(f, g) == {w \in Workers : family[w] = f /\ Contains(inside[w], g)}
Count(f, g) == Cardinality(Inside(f, g))

(* The sum of a gauge over all generations. *)
Total(v, f, g) == MapThenSumSet(LAMBDA gen : v[<<f, g, gen>>], Generations)

(* Over all generations a gauge counts the workers that are inside: every  *)
(* way out of Work, iteration, tryDequeueTask and the wait takes back the  *)
(* one Inc, even if the structs are replaced between Inc, defer and Dec.   *)
GaugesBalance == \A f \in WorkerFamilies, g \in Gauges : Total(value, f, g) = Count(f, g)

(* "gauge of active instances", "gauge of waiting instances": the gauge    *)
(* that is exported counts them, unless the service name was switched      *)
(* while a worker was at work, which leaves it off for good.               *)
ExportedIsCount ==
    mutex = "none" /\ ~disturbed =>
        \A m \in registry : m.name \in Gauges =>
            value[<<m.family, m.name, m.generation>>] = Count(m.family, m.name)

-----------------------------------------------------------------------------
(* What these rest on *)

(* A switcher holds the mutex while it replaces the structs. *)
MutexInv == \A s \in Switchers : mutex = s <=> pc[s] \in {"unregister", "create"}

(* The registry holds the metrics of all structs but the one that is being *)
(* replaced.                                                               *)
Removed == {Families[struct[s]] : s \in {t \in Switchers : pc[t] = "create"}}
RegistryInv == registry = UNION {Metrics(f, current[f]) : f \in FamilyNames \ Removed}

(* Every switcher makes a generation of its own. *)
Started == {s \in Switchers : pc[s] # "call"}
MadeInv ==
    /\ made = Cardinality(Started)
    /\ \A s \in Started : mine[s] \in 1..made
    /\ \A s, t \in Started : mine[s] = mine[t] => s = t

(* Nobody has used a generation that no struct holds yet. *)
Unused(f, gen) ==
    /\ current[f] # gen
    /\ f \in WorkerFamilies => \A g \in Gauges : value[<<f, g, gen>>] = 0
    /\ \A w \in Workers, g \in Gauges : family[w] = f => bound[w][g] # gen

UnusedInv ==
    /\ \A f \in FamilyNames, gen \in Generations : gen > made => Unused(f, gen)
    /\ \A s \in Started, i \in DOMAIN Families :
         pc[s] # "done" /\ i >= struct[s] => Unused(Families[i], mine[s])

(* A deferred Dec belongs to a gauge the worker is inside of. *)
BoundInv ==
    \A w \in Workers, g \in Gauges : bound[w][g] # -1 => g # "waiting_gauge" /\ Contains(inside[w], g)

(* Without a switch at the wrong moment the structs that the workers write *)
(* to count them.                                                          *)
UndisturbedInv ==
    ~disturbed =>
        /\ \A f \in WorkerFamilies, g \in Gauges : value[<<f, g, current[f]>>] = Count(f, g)
        /\ \A w \in Workers, g \in Gauges : bound[w][g] \in {-1, current[family[w]]}

(* A worker can take one too many from a gauge, or leave one too many in   *)
(* it, but not more often than once: those that will still take one from   *)
(* it have not done so yet.                                                *)
Takers(f, g, gen) ==
    {w \in Inside(f, g) : bound[w][g] = gen \/ (bound[w][g] = -1 /\ current[f] = gen)}

DriftInv ==
    \A f \in WorkerFamilies, g \in Gauges, gen \in Generations :
        /\ value[<<f, g, gen>>] >= Cardinality(Takers(f, g, gen)) - Cardinality(Workers)
        /\ value[<<f, g, gen>>] <=
              IF current[f] = gen THEN Cardinality(Takers(f, g, gen)) ELSE Cardinality(Workers)

(* What SwitchMetricsServiceName and the workers keep true at every step:  *)
(* the registry and the structs agree, and the gauges count.               *)
MetricsInv ==
    /\ TypeOK
    /\ MutexInv /\ RegistryInv /\ MadeInv /\ UnusedInv
    /\ BoundInv /\ UndisturbedInv /\ DriftInv
    /\ NeverPanics
    /\ CurrentIsExported
    /\ GaugesBalance
    /\ ExportedIsCount
=============================================================================

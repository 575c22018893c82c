---------------------------- MODULE TaskLifecycle ----------------------------
(***************************************************************************)
(* What the queue promises about one task, whoever works on it and however *)
(* the workers and the clock interleave: the life of a row of the tasks    *)
(* table as the readers of its status see it.                              *)
(*                                                                         *)
(* A task is enqueued once, is never put back to waiting, is not touched   *)
(* once it is finished, and is removed only after it was started.          *)
(***************************************************************************)
CONSTANT Tasks

VARIABLE life

States == {"none", "waiting", "running", "cancelled", "finished", "failed", "deleted"}

TypeOK == life \in [Tasks -> States]

Init == life = [t \in Tasks |-> "none"]

(* One task moves from one of the states From to the state to. *)
Move(t, From, to) ==
    /\ life[t] \in From
    /\ life' = [life EXCEPT ![t] = to]

Enqueue(t) == Move(t, {"none"}, "waiting")

(* A dequeuer claims a waiting task, takes over a silent one, or starts a  *)
(* task again that was cancelled without finished_at.                      *)
Start(t) == Move(t, {"waiting", "running", "cancelled"}, "running")

(* Heartbeat, Finish and Fail are refused unless running or failed. *)
Heartbeat(t) == Move(t, {"running", "failed"}, "running")
Finish(t)    == Move(t, {"running", "failed"}, "finished")
Fail(t)      == Move(t, {"running", "failed"}, "failed")

Cancel(t) == Move(t, {"waiting", "running"}, "cancelled")

(* One DELETE removes any set of tasks that have been started. *)
Remove(S) ==
    /\ \A t \in S : life[t] \in {"running", "cancelled", "finished", "failed"}
    /\ life' = [t \in Tasks |-> IF t \in S THEN "deleted" ELSE life[t]]

Next ==
    \/ \E t \in Tasks : Enqueue(t) \/ Start(t) \/ Heartbeat(t) \/ Finish(t) \/ Fail(t) \/ Cancel(t)
    \/ \E S \in SUBSET Tasks : Remove(S)

Spec == Init /\ [][Next]_life
=============================================================================

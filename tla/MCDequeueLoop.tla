--------------------------- MODULE MCDequeueLoop ---------------------------
(* Two workers and three tasks, two of them in one queue. *)
EXTENDS DequeueLoop

SmallTasks == 1..3
SmallQueueOf == [t \in SmallTasks |-> IF t = 3 THEN "b" ELSE "a"]
=============================================================================

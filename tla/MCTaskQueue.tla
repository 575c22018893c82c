---------------------------- MODULE MCTaskQueue ----------------------------
(* TaskQueue on small instances. *)
EXTENDS TaskQueue, TLC

AnyQueue == {{}}
AnyOrOne == {{}} \cup {{q} : q \in Queues}

WorkerSymmetry == Permutations(Workers)
=============================================================================

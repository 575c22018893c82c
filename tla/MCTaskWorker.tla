---------------------------- MODULE MCTaskWorker ----------------------------
(* TaskWorker on small instances. *)
EXTENDS TaskWorker
=============================================================================

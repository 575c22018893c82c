-------------------------- MODULE MCScheduleWorker --------------------------
(* ScheduleWorker on a small instance. *)
EXTENDS ScheduleWorker
=============================================================================

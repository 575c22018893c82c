---------------------------- MODULE MCScheduler ----------------------------
(* Three callers of AssertSchedule, two schedules and one other writer. *)
EXTENDS Scheduler
=============================================================================

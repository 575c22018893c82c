---------------------------- MODULE MCQueueSetup ----------------------------
(* Two services, each of the version with one reference, of the one with   *)
(* two, or with a reference that names a system column of tasks, which     *)
(* SetupTables refuses after it has changed schedules.                     *)
EXTENDS QueueSetup

MCConfigs == {<<"project_id">>, <<"project_id", "realm_id">>, <<"project_id", "queue">>}
=============================================================================

--------------------------- MODULE MCQueueMetrics ---------------------------
(* A task worker or a schedule worker, and two switches that may ask for   *)
(* the name that is in use.                                                *)
EXTENDS QueueMetrics
=============================================================================

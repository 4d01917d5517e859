--------------------------- MODULE MCQueueExecution ---------------------------
(* Values for model checking QueueExecution: two jobs for the runs in which *)
(* jobs compete, one job for the run in which workers do.                   *)
EXTENDS QueueExecution

OneJob    == {1}
TwoJobs   == 1..2
=============================================================================

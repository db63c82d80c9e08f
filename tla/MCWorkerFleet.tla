--------------------------- MODULE MCWorkerFleet ----------------------------
(* Two runs, and ids for as many enrollments as the run's faults can cost. *)
EXTENDS WorkerFleet

CONSTANTS r1, r2, w1, w2

MCRuns == {r1, r2}
MCWorkers == {w1, w2}
MCKinds == ExecutorEvents
=============================================================================

-------------------------- MODULE MCBenchmarkSession --------------------------
(* Two jobs, two ids for workers and controllers.                          *)
EXTENDS BenchmarkSession

CONSTANTS j1, j2, c1, c2

MCJobs     == {j1, j2}
MCLaunches == {c1, c2}
=============================================================================

--------------------------- MODULE MCControlPlane ---------------------------
(* Two runs and two workers for the model checker.  A worker posts events  *)
(* of its own, and events that read like a verdict or a requeue.           *)
EXTENDS ControlPlane, TLC

CONSTANTS r1, r2, w1, w2

MCRuns == {r1, r2}
MCWorkers == {w1, w2}
MCKinds == {"executor_started", "verification_result", "run_requeued"}
MCSymmetry == Permutations(MCRuns) \cup Permutations(MCWorkers)
=============================================================================

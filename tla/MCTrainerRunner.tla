--------------------------- MODULE MCTrainerRunner --------------------------
(* A deadline of three ticks, on a clock that runs three ticks further.    *)
EXTENDS TrainerRunner
=============================================================================

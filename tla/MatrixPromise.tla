---------------------------- MODULE MatrixPromise ----------------------------
(***************************************************************************)
(* What a managed session promises about its matrix, without its files,    *)
(* controllers, trials and plans: a job is answered once; only an answer   *)
(* of unavailable is ever taken back, and is archived then; the session    *)
(* says completed, and another one goes ahead on it, only when every job   *)
(* was evaluated.  The promise ends when a run is begun beside what        *)
(* another one left running.                                               *)
(***************************************************************************)
CONSTANT Jobs

VARIABLES
  answer,    \* of each job: "none", "evaluated" or "unavailable"
  archived,  \* jobs of which an answer was taken back
  said,      \* the session says that it is completed
  ahead,     \* the session that waits for it went ahead
  broken     \* the promise has ended

promiseVars == <<answer, archived, said, ahead, broken>>

Init ==
  /\ answer = [j \in Jobs |-> "none"]
  /\ archived = {} /\ said = FALSE /\ ahead = FALSE /\ broken = FALSE

AllEvaluated == \A j \in Jobs : answer[j] = "evaluated"

Answer(j) ==
  /\ answer[j] = "none"
  /\ \E verdict \in {"evaluated", "unavailable"} :
       answer' = [answer EXCEPT ![j] = verdict]
  /\ UNCHANGED <<archived, said, ahead, broken>>

TakeBack(j) ==
  /\ answer[j] = "unavailable"
  /\ answer' = [answer EXCEPT ![j] = "none"]
  /\ archived' = archived \cup {j}
  /\ UNCHANGED <<said, ahead, broken>>

Say ==
  /\ AllEvaluated
  /\ said' = TRUE
  /\ UNCHANGED <<answer, archived, ahead, broken>>

(* A resume: the session says nothing until it has ended.                  *)
Unsay ==
  /\ said' = FALSE
  /\ broken' \in {broken, TRUE}
  /\ UNCHANGED <<answer, archived, ahead>>

GoAhead ==
  /\ AllEvaluated /\ ~ ahead
  /\ ahead' = TRUE
  /\ UNCHANGED <<answer, archived, said, broken>>

Anything == broken /\ broken'

Next ==
  \/ \E j \in Jobs : Answer(j) \/ TakeBack(j)
  \/ Say \/ Unsay \/ GoAhead \/ Anything

Spec == Init /\ [][Next]_promiseVars
=============================================================================

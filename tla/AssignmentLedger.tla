-------------------------- MODULE AssignmentLedger --------------------------
(***************************************************************************)
(* What the hosted API promises about assignments, without the queue, the  *)
(* file and the events: a run is given to at most one worker and at most   *)
(* once, when it is accepted; a worker has at most one run and lets go of  *)
(* it before it gets another.                                              *)
(***************************************************************************)
CONSTANTS Runs, Workers, None

VARIABLES
  seen,  \* runs accepted so far
  held   \* the run each worker has been given and not yet let go of

ledgerVars == <<seen, held>>

Init ==
  /\ seen = {}
  /\ held = [w \in Workers |-> None]

Accept(r) ==
  /\ r \notin seen
  /\ seen' = seen \cup {r}
  /\ \/ UNCHANGED held
     \/ \E w \in Workers : /\ held[w] = None
                           /\ held' = [held EXCEPT ![w] = r]

Release(w) ==
  /\ held' = [held EXCEPT ![w] = None]
  /\ UNCHANGED seen

ReleaseAll ==
  /\ held' = [w \in Workers |-> None]
  /\ UNCHANGED seen

Next ==
  \/ \E r \in Runs : Accept(r)
  \/ \E w \in Workers : Release(w)
  \/ ReleaseAll

Spec == Init /\ [][Next]_ledgerVars

=============================================================================

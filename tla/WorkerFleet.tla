---------------------------- MODULE WorkerFleet -----------------------------
(***************************************************************************)
(* The hosted API together with its clients and its warm workers,          *)
(* services/replaybook-api/src/worker.rs.  A daemon enrolls, then loops:   *)
(* heartbeat, ask for the assignment, and when there is one post           *)
(* executor_started, run the executor, post executor_finished and the      *)
(* result.  Any request that fails or is refused ends the loop, and the    *)
(* daemon enrolls again as a new worker; nothing tells the API about the   *)
(* worker it left behind.                                                  *)
(*                                                                         *)
(* Neither the event nor the result names its run: the API files both      *)
(* under whatever run the worker has when they arrive.  A reply that is    *)
(* lost is a handler step followed by the end of the loop.                 *)
(***************************************************************************)
EXTENDS ControlPlane

CONSTANT MaxEnds  \* bound: loops a broken connection or a dead daemon ends

(* The kinds of event the daemon posts.                                    *)
ExecutorEvents == {"executor_started", "executor_finished"}

ASSUME EndsAssumption == MaxEnds \in Nat
ASSUME KindsAssumption == ExecutorEvents \subseteq Kinds

VARIABLES
  loop,      \* where the run_loop holding each worker's token is
  launches,  \* how often an executor was started for each run
  succeeded, \* runs for which an executor exited successfully
  ends       \* loops ended so far by LoopEnds

fleetVars == <<planeVars, loop, launches, succeeded, ends>>

Posting == {"started", "finished", "result"}
Places  == {"none", "heartbeat", "assignment", "executing"} \cup Posting

NoLoop == [at |-> "none", run |-> None, passed |-> FALSE]

At(w, place) == loop[w].at = place

(* A request of w's loop was handled: it goes on to `next` when the answer *)
(* is a success and stops on a 500.                                        *)
Proceed(w, ok, next) == loop' = [loop EXCEPT ![w] = IF ok THEN next ELSE NoLoop]

-----------------------------------------------------------------------------
(* main: register, and run_loop with the registration it returned.         *)
Enroll(w, ok) ==
  /\ RegisterWorker(w, ok)
  /\ Proceed(w, ok, [NoLoop EXCEPT !.at = "heartbeat"])
  /\ UNCHANGED <<launches, succeeded, ends>>

Heartbeat(w, ok) ==
  /\ At(w, "heartbeat")
  /\ WorkerHeartbeat(w, ok)
  /\ Proceed(w, ok, [loop[w] EXCEPT !.at = "assignment"])
  /\ UNCHANGED <<launches, succeeded, ends>>

AssignmentOfRunning(w) == IF workers[w].run = None \/ runs[workers[w].run].state # "running"
                          THEN None ELSE workers[w].run

(* worker_assignment only reads: the run the worker has, if there is one.  *)
AssignmentOf(w) == IF workers[w].run = None \/ runs[workers[w].run].state = "absent"
                   THEN None ELSE workers[w].run

FetchAssignment(w) ==
  /\ At(w, "assignment")
  /\ workers[w].state # "absent"
  /\ loop' = [loop EXCEPT ![w] = IF AssignmentOf(w) = None
                                 THEN [@ EXCEPT !.at = "heartbeat"]
                                 ELSE [@ EXCEPT !.at = "started", !.run = AssignmentOf(w)]]
  /\ UNCHANGED <<planeVars, launches, succeeded, ends>>

PostStarted(w, ok) ==
  /\ At(w, "started")
  /\ WorkerEvent(w, "executor_started", ok)
  /\ Proceed(w, ok, [loop[w] EXCEPT !.at = "executing"])
  /\ launches' = IF ok THEN [launches EXCEPT ![loop[w].run] = @ + 1] ELSE launches
  /\ UNCHANGED <<succeeded, ends>>

(* command.output() returns: exit 0, another exit, or no spawn.            *)
ExecutorExits(w, passed) ==
  /\ At(w, "executing")
  /\ loop' = [loop EXCEPT ![w].at = "finished", ![w].passed = passed]
  /\ succeeded' = IF passed THEN succeeded \cup {loop[w].run} ELSE succeeded
  /\ UNCHANGED <<planeVars, launches, ends>>

PostFinishedAsResult(w, ok) ==
  /\ At(w, "finished")
  /\ WorkerEvent(w, "verification_result", ok)
  /\ Proceed(w, ok, [loop[w] EXCEPT !.at = "result"])
  /\ UNCHANGED <<launches, succeeded, ends>>
PostFinished(w, ok) ==
  /\ At(w, "finished")
  /\ WorkerEvent(w, "executor_finished", ok)
  /\ Proceed(w, ok, [loop[w] EXCEPT !.at = "result"])
  /\ UNCHANGED <<launches, succeeded, ends>>

PostResult(w, ok) ==
  /\ At(w, "result")
  /\ WorkerResult(w, loop[w].passed, ok)
  /\ Proceed(w, ok, [NoLoop EXCEPT !.at = "heartbeat"])
  /\ UNCHANGED <<launches, succeeded, ends>>

(* 404 for a worker the API does not know, 409 for a post by a worker      *)
(* without a run: both end the loop.                                       *)
RefusedOnlyIfUnknown(w) ==
  /\ loop[w].at \in {"heartbeat", "assignment"} \cup Posting
  /\ workers[w].state = "absent"
  /\ loop' = [loop EXCEPT ![w] = NoLoop]
  /\ UNCHANGED <<planeVars, launches, succeeded, ends>>
Refused(w) ==
  /\ loop[w].at \in {"heartbeat", "assignment"} \cup Posting
  /\ IF loop[w].at \in Posting THEN workers[w].run = None
                              ELSE workers[w].state = "absent"
  /\ loop' = [loop EXCEPT ![w] = NoLoop]
  /\ UNCHANGED <<planeVars, launches, succeeded, ends>>

(* The connection breaks or the worker process dies, at any point of the   *)
(* loop.                                                                   *)
LoopEnds(w) ==
  /\ ~At(w, "none")
  /\ ends < MaxEnds
  /\ ends' = ends + 1
  /\ loop' = [loop EXCEPT ![w] = NoLoop]
  /\ UNCHANGED <<planeVars, launches, succeeded>>

-----------------------------------------------------------------------------
FleetInit ==
  /\ Init
  /\ loop = [w \in Workers |-> NoLoop]
  /\ launches = [r \in Runs |-> 0]
  /\ succeeded = {}
  /\ ends = 0

DaemonStep(w) ==
  \/ FetchAssignment(w)
  \/ Refused(w)
  \/ \E passed \in BOOLEAN : ExecutorExits(w, passed)
  \/ \E ok \in BOOLEAN : \/ Heartbeat(w, ok)
                         \/ PostStarted(w, ok)
                         \/ PostFinished(w, ok)
                         \/ PostResult(w, ok)

ClientStep == \E r \in Runs, ok \in BOOLEAN : StartRun(r, ok) \/ SubmitRun(r, ok)

EnrollSome == \E w \in Workers, ok \in BOOLEAN : Enroll(w, ok)

FleetNext ==
  \/ EnrollSome
  \/ \E w \in Workers : DaemonStep(w) \/ LoopEnds(w)
  \/ (ClientStep \/ Restart) /\ UNCHANGED <<loop, launches, succeeded, ends>>

FleetSpec == FleetInit /\ [][FleetNext]_fleetVars

(* A daemon that is running keeps looping, and its executor ends; clients, *)
(* restarts and faults owe nothing.                                        *)
FairFleetSpec ==
  /\ FleetSpec
  /\ WF_fleetVars(EnrollSome)
  /\ \A w \in Workers : WF_fleetVars(DaemonStep(w))

-----------------------------------------------------------------------------
FleetTypeOK ==
  /\ TypeOK
  /\ loop \in [Workers -> [at : Places, run : Runs \cup {None}, passed : BOOLEAN]]
  /\ launches \in [Runs -> Nat]
  /\ succeeded \subseteq Runs
  /\ ends \in 0 .. MaxEnds

(* Events and results are filed under the right run: while a loop works on *)
(* a run, its worker has that run or none, whatever restarts and failed    *)
(* persists happen in between.  The API cannot check it: no request names  *)
(* a run.                                                                  *)
ResultAttribution ==
  \A w \in Workers :
    loop[w].run # None => workers[w].run \in {loop[w].run, None}

(* A passed run is one whose own executor exited successfully, also after  *)
(* a restart from an older file.                                           *)
PassedMeansExecutorSucceeded ==
  \A r \in Runs : "passed" \in {runs[r].state, disk.runs[r].state} => r \in succeeded

(* No run is executed twice: a run a restart takes from a worker is not    *)
(* started by another one while the first is still working on it.          *)
ExecutedAtMostOnce == \A r \in Runs : launches[r] <= 1

(* The verdict in a run's log comes after the start and the end of the     *)
(* execution it is about.                                                  *)
EvidencedVerdict(log) ==
  \A k \in DOMAIN log : log[k].kind = "verification_result" =>
    \E i, j \in 1 .. k - 1 : /\ i < j
                             /\ log[i].kind = "executor_started"
                             /\ log[j].kind = "executor_finished"

EvidenceBeforeVerdict ==
  \A r \in Runs : EvidencedVerdict(runs[r].log) /\ EvidencedVerdict(disk.runs[r].log)

(* A reader of a run's log sees kinds, never who wrote an entry.  With     *)
(* daemons as the only callers of the worker endpoints the kinds alone     *)
(* tell what happened: at most one entry reads as a verdict, and the last  *)
(* that reads as the API's own explains the state, after lost replies,     *)
(* failed persists and restarts too.                                       *)
KindsTell(run) ==
  /\ \A i, j \in DOMAIN run.log :
       run.log[i].kind = "verification_result" /\ run.log[j].kind = "verification_result"
         => i = j
  /\ run.state # "absent" =>
       \E i \in DOMAIN run.log :
         /\ run.log[i].kind \in Explains(run.state)
         /\ \A j \in DOMAIN run.log : j > i => run.log[j].kind \notin LifecycleEvents

LogReadsTrue == \A r \in Runs : KindsTell(runs[r]) /\ KindsTell(disk.runs[r])

(* Unless something fails, a run that was given to a worker gets a verdict *)
(* and the worker is free again, also when the client submits in the       *)
(* meantime.                                                               *)
AssignedRunIsDecided ==
  \A w \in Workers, r \in Runs :
    workers[w].run = r ~> \/ workers[w].run # r /\ HasVerdict(runs[r].log)
                          \/ faults + ends > 0

(* A daemon whose run was taken away by a restart learns it and stops      *)
(* working on it.                                                          *)
StaleLoopEnds ==
  \A w \in Workers :
    loop[w].run # None /\ workers[w].run = None ~> loop[w].run = None

(* README.md: "this API queues scenario runs onto warm workers".  A queued *)
(* run is taken off the queue once a worker stays ready for it.            *)
QueuedRunIsAssigned ==
  \A r \in Runs :
    runs[r].state = "queued" /\ Idle # {} ~> runs[r].state # "queued" \/ Idle = {}
=============================================================================

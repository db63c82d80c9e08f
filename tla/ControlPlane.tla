---------------------------- MODULE ControlPlane ----------------------------
(***************************************************************************)
(* The hosted benchmark API, services/replaybook-api/src/main.rs: one      *)
(* process that keeps every run and every worker in memory behind one      *)
(* RwLock and rewrites both tables of a SQLite file before it answers.     *)
(*                                                                         *)
(* A handler takes the write lock, changes the maps, persists and answers  *)
(* without awaiting in between, so a handler is one step.  What it is      *)
(* exposed to is the persist that fails after the maps have changed, and   *)
(* the process that dies and boots again from the file.                    *)
(*                                                                         *)
(* The callers are unconstrained here: whoever holds a worker's token may  *)
(* call any of its endpoints at any time and post events of any kind, also *)
(* of a kind that the API itself writes.  WorkerFleet.tla closes the       *)
(* system with the worker daemon.                                          *)
(***************************************************************************)
EXTENDS Integers, Sequences, FiniteSets

CONSTANTS
  Runs,        \* the run ids start_run can draw (Uuid::new_v4)
  Workers,     \* the worker ids register_worker can draw
  None,        \* Option::None in worker_id and current_run
  Kinds,       \* the kinds of event a worker may post: any text, not blank
  MaxLog,      \* bound: events a worker may append to a run's log
  MaxSubmits,  \* bound: submissions per run
  MaxFaults    \* bound: failed persists and restarts, together

ASSUME NoneAssumption == None \notin Runs \cup Workers
ASSUME BoundsAssumption == /\ MaxLog \in Nat
                           /\ MaxSubmits \in Nat
                           /\ MaxFaults \in Nat

VARIABLES
  runs,     \* AppState.runs; the state "absent" marks an id not in the map
  workers,  \* AppState.workers, likewise
  disk,     \* the two tables of the SQLite file
  issued,   \* every id ever drawn: a uuid is not drawn twice
  acked,    \* runs whose start_run answered 202, so a client has the token
  decided,  \* runs whose worker_result answered 200
  faults    \* faults so far

planeVars == <<runs, workers, disk, issued, acked, decided, faults>>

-----------------------------------------------------------------------------
LifecycleEvents == {"run_queued", "worker_assigned", "verification_requested",
                    "verification_result", "run_requeued"}

(* The events pushed to Run.events, by their kind; the sequence number of  *)
(* an event is its position.  Who wrote an event is history: the API keeps *)
(* kind and message only, and no handler can tell.                         *)
Told(kind)   == [kind |-> kind, by |-> "api"]
Posted(kind) == [kind |-> kind, by |-> "worker"]

Events == {Told(kind) : kind \in LifecycleEvents} \cup {Posted(kind) : kind \in Kinds}

Verdicts  == {"passed", "failed"}
RunStates == {"absent", "queued", "running", "verifying"} \cup Verdicts

RunRecord    == [state  : RunStates,
                 worker : Workers \cup {None},
                 log    : Seq(Events)]
WorkerRecord == [state  : {"absent", "ready", "busy", "offline"},
                 run    : Runs \cup {None}]

AbsentRun    == [state |-> "absent", worker |-> None, log |-> <<>>]
AbsentWorker == [state |-> "absent", run |-> None]

(* Faulty variants stand before the definitions they vary; nothing uses    *)
(* them but the runs that show a property can fail.                        *)
IdleOrNot == {w \in Workers : workers[w].state # "absent"}
Idle == {w \in Workers : workers[w].state = "ready"}

(* The run a worker is working on, in the tables ws.                       *)
Holds(ws, w, r) == ws[w].run = r
Held(ws, r)     == \E w \in Workers : Holds(ws, w, r)

Submissions(log) == Cardinality({i \in DOMAIN log : log[i] = Told("verification_requested")})

-----------------------------------------------------------------------------
(* persist_state deletes and reinserts both tables in one transaction: the *)
(* file holds the new maps or still the old ones.  When it fails the       *)
(* handler answers 500 and leaves the maps as it changed them.             *)
Persist(ok) ==
  IF ok THEN /\ disk' = [runs |-> runs', workers |-> workers']
             /\ UNCHANGED faults
        ELSE /\ faults < MaxFaults
             /\ faults' = faults + 1
             /\ UNCHANGED disk

(* A change of state and the event that tells it.                          *)
Moved(run, state, event) == [run EXCEPT !.state = state, !.log = Append(@, event)]

Queued == [state |-> "queued", worker |-> None, log |-> <<Told("run_queued")>>]
RunningOn(w) == [state  |-> "running",
                 worker |-> w,
                 log    |-> <<Told("run_queued"), Told("worker_assigned")>>]

BusyWith(w, r) == [state |-> "busy", run |-> r]

AcknowledgedEarly(r, ok) == acked \cup {r}
Acknowledged(r, ok)      == IF ok THEN acked \cup {r} ELSE acked

(* start_run: the first ready worker of a HashMap, in any order, gets the  *)
(* run; with none ready the run stays queued.                              *)
StartRun(r, ok) ==
  /\ r \notin issued
  /\ issued' = issued \cup {r}
  /\ \/ \E w \in Idle :
          /\ workers' = [workers EXCEPT ![w] = BusyWith(w, r)]
          /\ runs' = [runs EXCEPT ![r] = RunningOn(w)]
     \/ /\ Idle = {}
        /\ runs' = [runs EXCEPT ![r] = Queued]
        /\ UNCHANGED workers
  /\ acked' = Acknowledged(r, ok)
  /\ UNCHANGED decided
  /\ Persist(ok)

(* submit_run does not look at the state it overwrites.                    *)
SubmitRun(r, ok) ==
  /\ r \in acked
  /\ runs[r].state # "absent"
  /\ Submissions(runs[r].log) < MaxSubmits
  /\ runs' = [runs EXCEPT ![r] = Moved(@, "verifying", Told("verification_requested"))]
  /\ UNCHANGED <<workers, issued, acked, decided>>
  /\ Persist(ok)

(* register_worker: every enrollment is a new worker, ready at once.       *)
RegisterWorker(w, ok) ==
  /\ w \notin issued
  /\ issued' = issued \cup {w}
  /\ workers' = [workers EXCEPT ![w] = [state |-> "ready", run |-> None]]
  /\ UNCHANGED <<runs, acked, decided>>
  /\ Persist(ok)

WorkerHeartbeat(w, ok) ==
  /\ workers[w].state # "absent"
  /\ workers' = IF workers[w].state = "offline"
                THEN [workers EXCEPT ![w].state = "ready"]
                ELSE workers
  /\ UNCHANGED <<runs, issued, acked, decided>>
  /\ Persist(ok)

(* worker_event: the request names no run, the event goes to current_run.  *)
(* Without one the answer is 409 and nothing changes.  Its kind is not     *)
(* looked at, beyond not being blank.                                      *)
WorkerEvent(w, kind, ok) ==
  LET r == workers[w].run IN
  /\ r # None
  /\ runs[r].state # "absent"
  /\ Len(runs[r].log) < MaxLog
  /\ runs' = [runs EXCEPT ![r] = Moved(@, @.state, Posted(kind))]
  /\ UNCHANGED <<workers, issued, acked, decided>>
  /\ Persist(ok)

Verdict(passed) == IF passed THEN "passed" ELSE "failed"

FreedStillHolding(w) == [workers[w] EXCEPT !.state = "ready"]
Freed(w)             == [state |-> "ready", run |-> None]

(* worker_result: current_run is taken and the worker made ready before    *)
(* the run is looked up; a run that is not there answers 404 unpersisted.  *)
WorkerResult(w, passed, ok) ==
  LET r == workers[w].run IN
  /\ r # None
  /\ workers' = [workers EXCEPT ![w] = Freed(w)]
  /\ IF runs[r].state = "absent"
     THEN UNCHANGED <<runs, disk, decided, faults>>
     ELSE /\ runs' = [runs EXCEPT ![r] = Moved(@, Verdict(passed), Told("verification_result"))]
          /\ decided' = IF ok THEN decided \cup {r} ELSE decided
          /\ Persist(ok)
  /\ UNCHANGED <<issued, acked>>

(* recover_state, applied to what load_state read: every worker goes       *)
(* offline and lets go of its run, which returns to the queue unless it    *)
(* has a verdict.                                                          *)
RecoveredWorkersHolding(ws) ==
  [w \in Workers |-> IF ws[w].state = "absent" THEN ws[w]
                     ELSE [ws[w] EXCEPT !.state = "offline"]]
RecoveredWorkersReady(ws) ==
  [w \in Workers |-> IF ws[w].state = "absent" THEN ws[w]
                     ELSE [state |-> "ready", run |-> None]]
RecoveredWorkers(ws) ==
  [w \in Workers |-> IF ws[w].state = "absent" THEN ws[w]
                     ELSE [state |-> "offline", run |-> None]]

RequeuedSilently(run) ==
  IF run.state \in {"running", "verifying"}
  THEN [run EXCEPT !.state = "queued", !.worker = None]
  ELSE [run EXCEPT !.worker = None]
Requeued(run) ==
  IF run.state \in {"running", "verifying"}
  THEN Moved([run EXCEPT !.worker = None], "queued", Told("run_requeued"))
  ELSE [run EXCEPT !.worker = None]

RecoveredRunsByWorkerId(rs, ws) ==
  [r \in Runs |-> IF rs[r].worker # None THEN Requeued(rs[r]) ELSE rs[r]]
RecoveredRuns(rs, ws) ==
  [r \in Runs |-> IF Held(ws, r) /\ rs[r].state # "absent"
                  THEN Requeued(rs[r]) ELSE rs[r]]

(* The process dies, at any point, and main boots it again from the file;  *)
(* it serves only after the recovered state has been persisted.            *)
Restart ==
  /\ faults < MaxFaults
  /\ faults' = faults + 1
  /\ runs' = RecoveredRuns(disk.runs, disk.workers)
  /\ workers' = RecoveredWorkers(disk.workers)
  /\ disk' = [runs |-> runs', workers |-> workers']
  /\ UNCHANGED <<issued, acked, decided>>

-----------------------------------------------------------------------------
Init ==
  /\ runs = [r \in Runs |-> AbsentRun]
  /\ workers = [w \in Workers |-> AbsentWorker]
  /\ disk = [runs |-> runs, workers |-> workers]
  /\ issued = {}
  /\ acked = {}
  /\ decided = {}
  /\ faults = 0

Next ==
  \/ \E r \in Runs, ok \in BOOLEAN : StartRun(r, ok) \/ SubmitRun(r, ok)
  \/ \E w \in Workers, ok \in BOOLEAN :
       \/ RegisterWorker(w, ok)
       \/ WorkerHeartbeat(w, ok)
       \/ \E kind \in Kinds : WorkerEvent(w, kind, ok)
       \/ \E passed \in BOOLEAN : WorkerResult(w, passed, ok)
  \/ Restart

Spec == Init /\ [][Next]_planeVars
-----------------------------------------------------------------------------
(* Types of the maps, of the file, and of the histories.                   *)
Tables == [runs : [Runs -> RunRecord], workers : [Workers -> WorkerRecord]]

TypeOK ==
  /\ runs \in [Runs -> RunRecord]
  /\ workers \in [Workers -> WorkerRecord]
  /\ disk \in Tables
  /\ issued \subseteq Runs \cup Workers
  /\ acked \subseteq Runs
  /\ decided \subseteq Runs
  /\ faults \in 0 .. MaxFaults

(* The two maps point at each other: a worker is busy exactly while it has *)
(* a run, that run is unfinished and names the worker, and a running run   *)
(* names a worker that has it.  No two handlers write both sides in the    *)
(* same place, and the file may be older than memory.                      *)
Consistent(rs, ws) ==
  /\ \A w \in Workers :
       /\ ws[w].state = "busy" <=> ws[w].run # None
       /\ ws[w].run # None =>
            /\ rs[ws[w].run].worker = w
            /\ rs[ws[w].run].state \in {"running", "verifying"}
  /\ \A r \in Runs :
       /\ rs[r].state = "running" => Held(ws, r)
       /\ rs[r].state \in {"absent", "queued"} => rs[r].worker = None

AssignmentConsistent ==
  /\ Consistent(runs, workers)
  /\ Consistent(disk.runs, disk.workers)

(* The last event that the API wrote explains the state of the run, in     *)
(* memory and in the file, whatever its worker posts meanwhile: no         *)
(* handler, recovery included, moves a run without telling its log.        *)
Explains(state) ==
  CASE state = "queued"     -> {"run_queued", "run_requeued"}
    [] state = "running"    -> {"worker_assigned"}
    [] state = "verifying"  -> {"verification_requested"}
    [] state \in Verdicts   -> {"verification_result"}
    [] OTHER                -> {}

LogExplains(run) ==
  run.state # "absent" =>
    \E i \in DOMAIN run.log :
      /\ run.log[i].by = "api" /\ run.log[i].kind \in Explains(run.state)
      /\ \A j \in DOMAIN run.log : j > i => run.log[j].by = "worker"

StateFollowsLog ==
  \A r \in Runs : LogExplains(runs[r]) /\ LogExplains(disk.runs[r])

(* The API records at most one verdict of a run, whatever is submitted,    *)
(* retried or posted as an event by whoever has its worker's token, or     *)
(* lost by a failed persist before a restart.                              *)
HasVerdict(log) == \E i \in DOMAIN log : log[i] = Told("verification_result")

SingleVerdict(log) ==
  \A i, j \in DOMAIN log :
    log[i] = Told("verification_result") /\ log[j] = Told("verification_result") => i = j

OneVerdict ==
  \A r \in Runs : SingleVerdict(runs[r].log) /\ SingleVerdict(disk.runs[r].log)

(* A run whose 202 a client has seen is in the file from then on.          *)
AcceptedRunsSurvive ==
  \A r \in acked : runs[r].state # "absent" /\ disk.runs[r].state # "absent"

(* A verdict the worker was told is recorded is not undone by a restart:   *)
(* the run is never queued or assigned again.  (Its own client can still   *)
(* take it back to verifying: submit_run overwrites any state.)            *)
Settled(rs, ws, r) ==
  /\ rs[r].state \in Verdicts \cup {"verifying"}
  /\ HasVerdict(rs[r].log)
  /\ ~Held(ws, r)

RecordedVerdictSurvives ==
  \A r \in decided : /\ Settled(runs, workers, r)
                     /\ Settled(disk.runs, disk.workers, r)

(* The API keeps the promise of the assignment ledger.                     *)
Ledger == INSTANCE AssignmentLedger
            WITH seen <- issued \cap Runs,
                 held <- [w \in Workers |-> workers[w].run]

LedgerSpec == Ledger!Spec
=============================================================================

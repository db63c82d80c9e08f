---------------------------- MODULE HostedControl ----------------------------
(***************************************************************************)
(* The hosted control plane (src/control.rs, src/backend.rs) and the one   *)
(* VM it drives over ssh (src/hosted.rs).                                  *)
(*                                                                         *)
(* On the controller a mutex, create_lock, serialises create, delete and   *)
(* the expiry loop; a status request does not take it.  Every operation    *)
(* awaits remote commands, so it is cut where it awaits.  The store is a   *)
(* map in memory, written to sessions.json on every put.                   *)
(*                                                                         *)
(* On the VM nothing serialises: a connection by a participant's key runs  *)
(* hosted-run, any number of times, while the controller's commands run.   *)
(***************************************************************************)
EXTENDS Integers, FiniteSets

CONSTANTS
  Sessions,   \* the session ids create can draw (Uuid::new_v4)
  Conns,      \* ssh connections the VM may have open at once
  None,       \* no session, no connection
  Outcomes,   \* the terminal phases hosted-run may write
  MaxReads,   \* bound: status requests
  MaxFaults   \* bound: failed commands and writes, dead runners, crashes

ASSUME HostedAssumption == /\ None \notin Sessions \cup Conns
                           /\ Outcomes \subseteq {"succeeded", "timed_out", "abandoned", "failed"}
                           /\ MaxReads \in Nat
                           /\ MaxFaults \in Nat

VARIABLES
  store,     \* ControlStore.sessions: the phase of each, "unknown" if not there
  file,      \* sessions.json
  op,        \* the operation that holds create_lock
  reading,   \* what the VM answered to a status request still in flight
  issued,    \* ids drawn so far
  expired,   \* sessions whose expires_at has passed
  uncleaned, \* sessions whose last cleanup did not do its work
  reads,     \* status requests so far
  status,    \* VM: status.json of each session, "unknown" if not there
  keys,      \* VM: sessions with a line in authorized_keys
  staged,    \* VM: sessions whose scenario directory exists
  compose,   \* VM: sessions whose Compose project is up
  pid,       \* VM: the connection each session's pid file names
  conn,      \* VM: what each connection is doing
  clobbered, \* a rewrite of authorized_keys has undone another change of it
  faults     \* faults so far

controller == <<store, file, op, reading, issued, expired, uncleaned, reads>>
vm         == <<status, keys, staged, compose, pid, conn, clobbered>>
vars       == <<controller, vm, faults>>

-----------------------------------------------------------------------------
Terminal == {"succeeded", "timed_out", "abandoned", "failed", "destroyed"}
Phases   == {"ready", "active"} \cup Terminal

Live(phase) == phase \in {"ready", "active"}

(* An operation: its kind, the session it is for, the session it is        *)
(* working on now, the step it is at, the sessions it has yet to visit,    *)
(* those of them its copy of the store shows as over, the last answer it   *)
(* got, and authorized_keys as its cleanup read it.                        *)
Free == [kind |-> "none", for |-> None, on |-> None, at |-> "done",
         todo |-> {}, over |-> {}, answer |-> "unknown", seen |-> {}]

Holding(kind, at) == op.kind = kind /\ op.at = at
Visiting(s)       == [op EXCEPT !.on = s, !.at = "clean"]
Skipping(s)       == [op EXCEPT !.on = None, !.at = "visit", !.answer = "unknown",
                                !.todo = @ \ {s}, !.over = @ \ {s}, !.seen = {}]
NextVisit         == Skipping(op.on)

NoConn == [on |-> None, at |-> "closed", outcome |-> "unknown", seen |-> {}]

Fault == faults < MaxFaults /\ faults' = faults + 1
Sound(ok) == IF ok THEN UNCHANGED faults ELSE Fault

(* ControlStore::put: memory, then the file; a failed write is rolled back *)
(* in memory.                                                              *)
PutUnsaved(s, phase, ok) ==
  /\ store' = IF ok THEN [store EXCEPT ![s] = phase] ELSE store
  /\ file' = IF ok THEN store ELSE file
Put(s, phase, ok) ==
  /\ store' = IF ok THEN [store EXCEPT ![s] = phase] ELSE store
  /\ file' = IF ok THEN store' ELSE file

(* remove_participant_key reads authorized_keys and later renames a file   *)
(* with the other lines over it, whatever happened to it in between.       *)
WithoutNothing(seen, s) == seen
Without(seen, s)        == seen \ {s}

RewriteKeys(seen, s) ==
  /\ keys' = Without(seen, s)
  /\ clobbered' = (clobbered \/ seen # keys)

-----------------------------------------------------------------------------
Kept == {s \in Sessions : store[s] \notin {"unknown", "destroyed"}}

Over == {s \in Kept : store[s] \in Terminal}

(* create_session takes the lock and refreshes the sessions it finds in    *)
(* the store: a copy, taken before the first await.                        *)
CreateBegins(s) ==
  /\ op = Free
  /\ s \notin issued
  /\ issued' = issued \cup {s}
  /\ op' = [Free EXCEPT !.kind = "create", !.for = s, !.at = "visit",
                        !.todo = Kept,
                        !.over = Over]
  /\ UNCHANGED <<store, file, reading, expired, uncleaned, reads, vm, faults>>

(* refresh_sessions: an expired session is destroyed, a terminal one is    *)
(* skipped, the status of any other is asked of the VM ...                 *)
VisitExpired(s) ==
  /\ op.at = "visit" /\ s \in op.todo
  /\ s \in expired
  /\ op' = Visiting(s)
  /\ UNCHANGED <<store, file, reading, issued, expired, uncleaned, reads, vm, faults>>

VisitTerminal(s) ==
  /\ Holding("create", "visit") /\ s \in op.todo
  /\ s \notin expired
  /\ s \in op.over
  /\ op' = Skipping(s)
  /\ UNCHANGED <<store, file, reading, issued, expired, uncleaned, reads, vm, faults>>

VisitLive(s, ok) ==
  /\ Holding("create", "visit") /\ s \in op.todo
  /\ s \notin expired
  /\ s \notin op.over
  /\ op' = IF ok /\ status[s] # "unknown"
           THEN [op EXCEPT !.on = s, !.at = "record", !.answer = status[s]]
           ELSE Free
  /\ Sound(ok)
  /\ UNCHANGED <<store, file, reading, issued, expired, uncleaned, reads, vm>>

(* ... and put in the store.                                               *)
RecordVisit(ok) ==
  /\ op.at = "record"
  /\ Put(op.on, op.answer, ok)
  /\ op' = IF ok THEN NextVisit ELSE Free
  /\ Sound(ok)
  /\ UNCHANGED <<reading, issued, expired, uncleaned, reads, vm>>

VacantUnlessReady == \A s \in Sessions : store[s] # "ready"
Vacant == \A s \in Sessions : store[s] \in Terminal \cup {"unknown"}

(* 409 when a stored session is live; the other early returns (no such     *)
(* scenario or fault, a duplicated id, tools missing on the VM) change     *)
(* nothing either.                                                         *)
CreateRefused ==
  /\ Holding("create", "visit") /\ op.todo = {}
  /\ op' = Free
  /\ UNCHANGED <<store, file, reading, issued, expired, uncleaned, reads, vm, faults>>

CreateAdmitted ==
  /\ Holding("create", "visit") /\ op.todo = {}
  /\ Vacant
  /\ op' = [op EXCEPT !.at = "stage"]
  /\ UNCHANGED <<store, file, reading, issued, expired, uncleaned, reads, vm, faults>>

(* A create that fails from here on destroys what it made; nothing is put  *)
(* in the store, whatever becomes of that cleanup.                         *)
Undo == [op EXCEPT !.kind = "undo", !.on = op.for, !.at = "clean"]

(* stage_scenario, validate_staged_scenario, initialize_remote_status.  A  *)
(* failed command may have done its work.                                  *)
Stage(ok) ==
  /\ Holding("create", "stage")
  /\ staged' \in IF ok THEN {staged \cup {op.for}} ELSE {staged, staged \cup {op.for}}
  /\ status' = IF ok THEN [status EXCEPT ![op.for] = "ready"] ELSE status
  /\ op' = IF ok THEN [op EXCEPT !.at = "install"] ELSE Undo
  /\ Sound(ok)
  /\ UNCHANGED <<store, file, reading, issued, expired, uncleaned, reads>>
  /\ UNCHANGED <<keys, compose, pid, conn, clobbered>>

InstallKey(ok) ==
  /\ Holding("create", "install")
  /\ keys' \in IF ok THEN {keys \cup {op.for}} ELSE {keys, keys \cup {op.for}}
  /\ op' = IF ok THEN [op EXCEPT !.at = "enter"] ELSE Undo
  /\ Sound(ok)
  /\ UNCHANGED <<store, file, reading, issued, expired, uncleaned, reads>>
  /\ UNCHANGED <<status, staged, compose, pid, conn, clobbered>>

(* The new session is put in the store as ready, and create answers 201.   *)
Enter(ok) ==
  /\ Holding("create", "enter")
  /\ Put(op.for, "ready", ok)
  /\ op' = IF ok THEN Free ELSE Undo
  /\ Sound(ok)
  /\ UNCHANGED <<reading, issued, expired, uncleaned, reads, vm>>

DeleteBegins(s) ==
  /\ op = Free
  /\ s \in Kept
  /\ op' = [Free EXCEPT !.kind = "delete", !.for = s, !.on = s, !.at = "clean"]
  /\ UNCHANGED <<store, file, reading, issued, expired, uncleaned, reads, vm, faults>>

(* expire_sessions, every 30 seconds: each expired session the copy shows  *)
(* as not destroyed is destroyed; a failure is logged and the loop goes on.*)
DueWhileLive == {s \in expired : Live(store[s])}
Due == expired \cap Kept

ExpireBegins ==
  /\ op = Free
  /\ Due # {}
  /\ op' = [Free EXCEPT !.kind = "expire", !.at = "visit", !.todo = Due]
  /\ UNCHANGED <<store, file, reading, issued, expired, uncleaned, reads, vm, faults>>

ExpireEnds ==
  /\ Holding("expire", "visit") /\ op.todo = {}
  /\ op' = Free
  /\ UNCHANGED <<store, file, reading, issued, expired, uncleaned, reads, vm, faults>>

-----------------------------------------------------------------------------
(* destroy_stored, and the destroy that undoes a create: hosted-cleanup on *)
(* the VM, cut where it and a runner can interleave, then a put.           *)
AfterFailure == IF op.kind = "expire" THEN NextVisit ELSE Free
AfterCleanup == IF op.kind = "undo" THEN Free
                ELSE [op EXCEPT !.at = "mark", !.answer = "unknown", !.seen = {}]
AfterMark    == IF op.kind = "delete" THEN Free ELSE NextVisit

(* The VM cannot be reached, or remove_participant_key fails.              *)
CleanupFails ==
  /\ op.at \in {"clean", "sweep"}
  /\ op' = AfterFailure
  /\ uncleaned' = uncleaned \cup {op.on}
  /\ Fault
  /\ UNCHANGED <<store, file, reading, issued, expired, reads, vm>>

(* The process the pid file names is killed if it runs this session; it    *)
(* does not get to drop its guard.  Then the Compose project comes down,   *)
(* and the keys are read.                                                  *)
Running(k, s) == conn[k].on = s /\ conn[k].at \notin {"closed", "connected"}

CleanupStops(ok) ==
  /\ op.at = "clean"
  /\ conn' = [k \in Conns |-> IF pid[op.on] = k /\ Running(k, op.on) THEN NoConn ELSE conn[k]]
  /\ compose' = IF ok THEN compose \ {op.on} ELSE compose
  /\ op' = [op EXCEPT !.at = "sweep", !.answer = IF ok THEN "stopped" ELSE "stuck",
                      !.seen = keys]
  /\ op.on \notin staged => ok
  /\ Sound(ok)
  /\ UNCHANGED <<store, file, reading, issued, expired, uncleaned, reads>>
  /\ UNCHANGED <<status, keys, staged, pid, clobbered>>

(* The key goes in any case, the directory and the status only when the    *)
(* project is down.  The answer may be lost on its way.                    *)
CleanupSweeps(heard) ==
  /\ op.at = "sweep"
  /\ RewriteKeys(op.seen, op.on)
  /\ IF op.answer = "stopped"
     THEN /\ staged' = staged \ {op.on}
          /\ status' = [status EXCEPT ![op.on] = "destroyed"]
          /\ pid' = [pid EXCEPT ![op.on] = None]
          /\ uncleaned' = uncleaned \ {op.on}
     ELSE /\ uncleaned' = uncleaned \cup {op.on}
          /\ UNCHANGED <<staged, status, pid>>
  /\ IF op.answer = "stopped" /\ heard
     THEN op' = AfterCleanup
     ELSE op' = AfterFailure
  /\ Sound(heard)
  /\ UNCHANGED <<store, file, reading, issued, expired, reads, compose, conn>>

MarkDestroyed(ok) ==
  /\ op.at = "mark"
  /\ Put(op.on, "destroyed", ok)
  /\ op' = IF ok THEN AfterMark ELSE AfterFailure
  /\ Sound(ok)
  /\ UNCHANGED <<reading, issued, expired, uncleaned, reads, vm>>

-----------------------------------------------------------------------------
(* get_session, without the lock: the VM is asked, and what it answered is *)
(* put whenever the handler gets to it.                                    *)
GetAsks(s) ==
  /\ reads < MaxReads
  /\ reads' = reads + 1
  /\ reading[s] = "unknown"
  /\ store[s] # "unknown"
  /\ reading' = [reading EXCEPT ![s] = status[s]]
  /\ UNCHANGED <<store, file, op, issued, expired, uncleaned, vm, faults>>

GetPuts(s, ok) ==
  /\ reading[s] # "unknown"
  /\ Put(s, reading[s], ok)
  /\ reading' = [reading EXCEPT ![s] = "unknown"]
  /\ Sound(ok)
  /\ UNCHANGED <<op, issued, expired, uncleaned, reads, vm>>

TimePasses(s) ==
  /\ s \in issued \ expired
  /\ expired' = expired \cup {s}
  /\ UNCHANGED <<store, file, op, reading, issued, uncleaned, reads, vm, faults>>

(* The controller dies and serve opens sessions.json.  A cleanup that has  *)
(* begun on the VM runs to its end.                                        *)
ControllerCrashes ==
  /\ op.at # "sweep"
  /\ store' = file
  /\ op' = Free
  /\ reading' = [s \in Sessions |-> "unknown"]
  /\ Fault
  /\ UNCHANGED <<file, issued, expired, uncleaned, reads, vm>>

-----------------------------------------------------------------------------
(* The VM: sshd accepts the key, then hosted-run starts.                   *)
Go(k, place) == conn' = [conn EXCEPT ![k].at = place]

Connect(k, s) ==
  /\ conn[k].at = "closed"
  /\ s \in keys
  /\ conn' = [conn EXCEPT ![k] = [NoConn EXCEPT !.on = s, !.at = "connected"]]
  /\ UNCHANGED <<controller, status, keys, staged, compose, pid, clobbered, faults>>

(* HostedRunGuard::start writes the pid file, over any that is there.      *)
GuardStarts(k) ==
  /\ conn[k].at = "connected"
  /\ pid' = [pid EXCEPT ![conn[k].on] = k]
  /\ Go(k, "started")
  /\ UNCHANGED <<controller, status, keys, staged, compose, clobbered, faults>>

RunActivates(k) ==
  /\ conn[k].at = "started"
  /\ status' = [status EXCEPT ![conn[k].on] = "active"]
  /\ Go(k, "loading")
  /\ UNCHANGED <<controller, keys, staged, compose, pid, clobbered, faults>>

(* The scenario is loaded and its project brought up, or it is gone and    *)
(* run returns early, into the guard's drop.                               *)
RunPlays(k) ==
  /\ conn[k].at = "loading"
  /\ conn[k].on \in staged
  /\ compose' = compose \cup {conn[k].on}
  /\ Go(k, "playing")
  /\ UNCHANGED <<controller, status, keys, staged, pid, clobbered, faults>>

RunCannotLoad(k) ==
  /\ conn[k].at = "loading"
  /\ conn[k].on \notin staged
  /\ Go(k, "exiting")
  /\ UNCHANGED <<controller, status, keys, staged, compose, pid, clobbered, faults>>

RunEnds(k, outcome) ==
  /\ conn[k].at = "playing"
  /\ compose' = compose \ {conn[k].on}
  /\ conn' = [conn EXCEPT ![k].at = "reporting", ![k].outcome = outcome]
  /\ UNCHANGED <<controller, status, keys, staged, pid, clobbered, faults>>

(* The terminal status is written, and the key removed after it.           *)
RunReports(k) ==
  /\ conn[k].at = "reporting"
  /\ status' = [status EXCEPT ![conn[k].on] = conn[k].outcome]
  /\ Go(k, "closing")
  /\ UNCHANGED <<controller, keys, staged, compose, pid, clobbered, faults>>

(* A status or an outcome cannot be written, or the scenario is not valid: *)
(* run returns early, whatever it was about to record.                     *)
RunFails(k) ==
  /\ conn[k].at \in {"started", "loading", "reporting"}
  /\ Go(k, "exiting")
  /\ Fault
  /\ UNCHANGED <<controller, status, keys, staged, compose, pid, clobbered>>

(* The key is removed by run and again by the guard's drop.                *)
KeysRead(k) ==
  /\ conn[k].at \in {"closing", "exiting"}
  /\ conn' = [conn EXCEPT ![k].seen = keys,
                          ![k].at = IF @ = "closing" THEN "removing" ELSE "dropping"]
  /\ UNCHANGED <<controller, status, keys, staged, compose, pid, clobbered, faults>>

RunRemovesKey(k) ==
  /\ conn[k].at = "removing"
  /\ RewriteKeys(conn[k].seen, conn[k].on)
  /\ conn' = [conn EXCEPT ![k].seen = {}, ![k].at = "exiting"]
  /\ UNCHANGED <<controller, status, staged, compose, pid, faults>>

(* The guard's drop: the key, a status if there is no terminal one, and    *)
(* the pid file, whoever wrote it.                                         *)
GuardDrops(k) ==
  LET s == conn[k].on IN
  /\ conn[k].at = "dropping"
  /\ RewriteKeys(conn[k].seen, s)
  /\ status' = IF status[s] \in Terminal THEN status ELSE [status EXCEPT ![s] = "failed"]
  /\ pid' = [pid EXCEPT ![s] = None]
  /\ conn' = [conn EXCEPT ![k] = NoConn]
  /\ UNCHANGED <<controller, staged, compose, faults>>

(* The connection breaks and takes the runner with it; nothing is dropped. *)
RunnerDies(k) ==
  /\ conn[k].at # "closed"
  /\ conn' = [conn EXCEPT ![k] = NoConn]
  /\ Fault
  /\ UNCHANGED <<controller, status, keys, staged, compose, pid, clobbered>>

-----------------------------------------------------------------------------
Init ==
  /\ store = [s \in Sessions |-> "unknown"]
  /\ file = store
  /\ op = Free
  /\ reading = [s \in Sessions |-> "unknown"]
  /\ issued = {}
  /\ expired = {}
  /\ uncleaned = {}
  /\ reads = 0
  /\ status = [s \in Sessions |-> "unknown"]
  /\ keys = {}
  /\ staged = {}
  /\ compose = {}
  /\ pid = [s \in Sessions |-> None]
  /\ conn = [k \in Conns |-> NoConn]
  /\ clobbered = FALSE
  /\ faults = 0

(* The steps of an operation that holds the lock.                          *)
OpStep ==
  \/ \E s \in Sessions : \/ VisitExpired(s)
                         \/ VisitTerminal(s)
                         \/ \E ok \in BOOLEAN : VisitLive(s, ok)
  \/ \E ok \in BOOLEAN : \/ RecordVisit(ok)
                         \/ Stage(ok)
                         \/ InstallKey(ok)
                         \/ Enter(ok)
                         \/ CleanupStops(ok)
                         \/ CleanupSweeps(ok)
                         \/ MarkDestroyed(ok)
  \/ CreateRefused
  \/ CreateAdmitted
  \/ ExpireEnds
  \/ CleanupFails

ClientStep ==
  \E s \in Sessions : \/ CreateBegins(s)
                      \/ DeleteBegins(s)
                      \/ GetAsks(s)
                      \/ \E ok \in BOOLEAN : GetPuts(s, ok)

RunnerStep(k) ==
  \/ GuardStarts(k)
  \/ RunActivates(k)
  \/ RunPlays(k)
  \/ RunCannotLoad(k)
  \/ \E outcome \in Outcomes : RunEnds(k, outcome)
  \/ RunReports(k)
  \/ RunFails(k)
  \/ KeysRead(k)
  \/ RunRemovesKey(k)
  \/ GuardDrops(k)

Next ==
  \/ ClientStep
  \/ OpStep
  \/ ExpireBegins
  \/ \E s \in Sessions : TimePasses(s)
  \/ ControllerCrashes
  \/ \E k \in Conns : \/ \E s \in Sessions : Connect(k, s)
                      \/ RunnerStep(k)
                      \/ RunnerDies(k)

Spec == Init /\ [][Next]_vars

(* An operation keeps going, the expiry loop gets the lock in its turn     *)
(* (tokio's mutex is first come, first served), and a runner whose player  *)
(* has left closes.  Clients and participants owe nothing.                 *)
RunCloses(k) == RunReports(k) \/ KeysRead(k) \/ RunRemovesKey(k) \/ GuardDrops(k)

FairSpec ==
  /\ Spec
  /\ WF_vars(OpStep)
  /\ SF_vars(ExpireBegins)
  /\ \A k \in Conns : WF_vars(RunCloses(k))

-----------------------------------------------------------------------------
Table == [Sessions -> {"unknown"} \cup Phases]

Operations ==
  [kind : {"none", "create", "undo", "delete", "expire"},
   for : Sessions \cup {None}, on : Sessions \cup {None},
   at : {"done", "visit", "record", "stage", "install", "enter", "clean", "sweep", "mark"},
   todo : SUBSET Sessions, over : SUBSET Sessions,
   answer : {"unknown", "stopped", "stuck"} \cup Phases,
   seen : SUBSET Sessions]

ConnRecord ==
  [on : Sessions \cup {None},
   at : {"closed", "connected", "started", "loading", "playing", "reporting", "closing",
         "removing", "exiting", "dropping"},
   outcome : {"unknown"} \cup Outcomes,
   seen : SUBSET Sessions]

TypeOK ==
  /\ store \in Table /\ file \in Table /\ reading \in Table /\ status \in Table
  /\ op \in Operations
  /\ issued \subseteq Sessions /\ expired \subseteq issued /\ uncleaned \subseteq issued
  /\ keys \subseteq issued /\ staged \subseteq issued /\ compose \subseteq issued
  /\ pid \in [Sessions -> Conns \cup {None}]
  /\ conn \in [Conns -> ConnRecord]
  /\ clobbered \in BOOLEAN
  /\ reads \in 0 .. MaxReads
  /\ faults \in 0 .. MaxFaults

(* A session anybody was told is destroyed gives no access any more: its   *)
(* key is off the VM and stays off, through late status requests, runners  *)
(* that write over the status, crashes and half-done cleanups -- as long   *)
(* as no rewrite of authorized_keys has undone another change of it.       *)
DestroyedWithoutKey ==
  \A s \in Sessions :
    "destroyed" \in {store[s], file[s], reading[s], status[s]} => s \notin keys

DestroyedHasNoKey == ~clobbered => DestroyedWithoutKey

(* docs/HOSTING.md: the controller "removes its access key".  The key of a *)
(* destroyed session does not come back.                                   *)
RevokedKeyStaysRevoked == DestroyedWithoutKey

(* A key that can be used has its scenario staged and its status set up,   *)
(* whichever step of create or cleanup failed around it.                   *)
KeysAreProvisioned ==
  ~clobbered => \A s \in keys : s \in staged /\ status[s] # "unknown"

(* docs/HOSTING.md: "enforces one live session on its configured VM".  The *)
(* store shows at most one live session, in memory and in the file.        *)
OneLive(table) ==
  \A s, t \in Sessions : Live(table[s]) /\ Live(table[t]) => s = t

OneLiveSession == OneLive(store) /\ OneLive(file)

(* As long as nobody asks for a status this is so, whatever fails: only    *)
(* create makes a session live, and it holds the lock from the check to    *)
(* the put.                                                                *)
CreateAdmitsOne == reads = 0 => OneLiveSession

(* A session that was recorded as over is never shown live again, a        *)
(* restart of the controller included, unless a status request does it.    *)
OverStaysOver ==
  [][\A s \in Sessions :
       reads = 0 /\ store[s] \in Terminal => store'[s] \in Terminal]_vars

(* An expired session the store knows loses its key in the end, whatever   *)
(* its participant does, and though commands fail and the controller dies  *)
(* -- again unless a rewrite of authorized_keys brings it back.            *)
ExpiredLosesAccess ==
  \A s \in Sessions :
    s \in expired /\ store[s] # "unknown" ~> s \notin keys \/ clobbered

(* docs/HOSTING.md: "A failed cleanup keeps the VM occupied instead of     *)
(* allowing a second session onto an uncertain host."                      *)
FailedCleanupOccupies ==
  [][op.at = "visit" /\ op'.at = "stage" => uncleaned = {}]_vars
=============================================================================

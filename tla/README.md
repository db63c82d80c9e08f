# Verification of Replaybook

TLA+ models of the concurrent and failure-prone parts of Replaybook, the TLC
runs that check them on small instances, and TLAPS proofs of what matters most
for every instance. Paths below are relative to the repository.

Replaybook rehearses incidents. It has a local trainer, a hosted trainer that
drives one disposable VM, a benchmark harness for agents with a pipeline that
publishes what was measured, and an experimental hosted benchmark API with warm
workers. This project is about the parts that keep state which several actors
change, and about the verdicts and numbers that are derived from it.

## 1. Inventory

| Component | Source | State | Operations | What is hard |
|---|---|---|---|---|
| Hosted benchmark API | `services/replaybook-api/src/main.rs` | `AppState.runs`, `AppState.workers` behind one lock; SQLite copy of both | start, submit, register, heartbeat, event, result, recovery at boot | persist fails after memory changed; restart from an older file; requests that name no run |
| Worker daemon | `services/replaybook-api/src/worker.rs` | registration, current assignment | enroll, heartbeat/assignment loop, executor, posts | lost replies, API restart under a running executor, dead daemons |
| Rate limiter | `main.rs` 33-84 | window and count per client | check | window edges |
| Hosted control plane | `src/control.rs` | session map, `sessions.json`, `create_lock` | create, get, delete, expiry loop, boot | awaits between check and store, crash between remote step and store |
| Remote VM backend | `src/backend.rs` | none of its own; drives the VM over ssh | create (stage, validate, status, key), status, destroy | partial failure and its undoing |
| Hosted runner | `src/hosted.rs` | on the VM: `status.json`, `authorized_keys`, scenario directory, Compose project, pid file | hosted-run with its guard, status, cleanup | several processes on the same files, no lock |
| Local trainer runner | `src/runner.rs` | state file, shared flags, Compose project | run_scenario and its polling task | poller thread against the terminal and the deadline |
| Host matrix orchestrator | `integrations/host/run_host_matrix.py` | matrix directory, job list, results | plan, preflight, run jobs concurrently, resume, archive and retry | interruption, partial output directories, retries |
| Managed sessions | `integrations/host/benchmark_session.py` | `launch.lock`, `run.lock`, worker and session files | launch, run after another session, resume, report | two launchers, a dependency that ends badly, stale summaries |
| Trial lifecycle | `integrations/host/run-host-native.sh` and the classifiers | VM, captured report, `result.json` | agent, capture, verify, restart services, reboot, verify | classification after several failures; a host and an agent that go on acting |
| Scenario phases | `integrations/host/scenario_phase.py` | `scenario-state.json`, `phase-failure.json` | confirm, wait, replay, concurrent steps | requests lost between two phases |
| Cooperation experiments | `benchmark-data/cooperation/snapshots/*/host/{peer_wire,run_peer_lab}.py`, `integrations/host/cooperation/export_trials.py` | relay, capture, job directory | relay under a policy, boot, preflight, agents, receipts, verdict, export | two guests that send and write at any time; a relay that gives up; edited claims |
| Cohorts and snapshots | `benchmark_cohort.py`, `scenario_pack.py`, staging and resume in `run_host_matrix.py` | cohort and snapshot directories with their hashes | freeze, load, stage, validate, resume | files edited between validation, copy and hash |
| Local result catalog | `result_catalog.py` | SQLite rows derived from summaries | import, compare | a summary is resumed between two imports |
| Publication | `publish_benchmarks.py` | release files, `index.json`, pages | import, accept, build, check | several files written in place; partial writes; hand edits |
| Submissions | `benchmark_submission.py` | bundle, branch, `benchmark-submissions/` | bundle, validate, submit, accept | the bundle may change between its checks |
| Plans and scores | `benchmark_plan.py`, `benchmark_manifest.py` | none | gaps, commands, rates | cross products, boundaries of ports and attempts |
| The rest | records, credentials, proxies, audits, site | files | batch I/O | nothing that several actors change |

How they interact:

- API and daemons: HTTP only. A daemon learns its run from the assignment
  endpoint; its event and its result name no run, so the API files them under
  the worker's `current_run` at arrival.
- Control plane and VM: ssh commands, each of which may fail with or without
  its effect. The trainee reaches the VM by ssh with a forced command, not
  through the controller. Controller and runner share the VM's files without a
  lock.
- Matrix, sessions and trials: child processes and files in a matrix directory.
- A trial and its host: ssh. The agent, what it leaves running and the host
  itself go on while the controller verifies.
- A pair of guests: one relay for their frames, in some conditions a shared
  disk, and files the controller fetches from each.
- Matrices and the evidence pipeline: `summary.json` files. They are imported
  into the local catalog, published as a release, or bundled, submitted in a pull
  request and accepted; the published coverage and the local summaries decide
  what a plan asks for.

`PROJECT.json` lists every component with its status, and under `hazards` the
places where this code can go wrong in a way a test would hardly reach, with the
property that would show it.

What makes each part correct:

- API: the run map and the worker map agree; one verdict per run; an
  acknowledged run or verdict survives a restart; the log explains the state.
- Fleet: nothing is filed under another run; `passed` means this run's executor
  succeeded; no run is executed twice; an assigned run is decided.
- Hosted control: a destroyed session gives no access; an expired one loses it;
  one live session; a usable key has its scenario.
- Trainer runner: the outcome agrees with what the checks saw and when; a fix is
  credited; the player is shown the deadline; the run and its poller end.
- Matrix and sessions: resume neither loses nor repeats a valid result; one
  controller works in a matrix; completed means every job is evaluated; a queued
  session goes ahead on nothing less; resuming converges.
- Trial: a reward is earned in all three phases; a verdict is explained by how
  the agent ended and what the phases found.
- Cooperation: nothing crosses the relay that the policy forbids; a published
  pair really met.
- Inputs: what was measured is what the matrix records; a session runs its
  cohort.
- Evidence: rows are of one summary; a published number was measured; an accepted
  release is the submission it names; a plan asks for exactly what is missing.

## 2. Plan

1. `AssignmentLedger`, `ControlPlane`, `WorkerFleet` and their proofs. *Built.*
2. `HostedControl` and its proofs. *Built.*
3. `TrainerRunner` and its proofs. *Built.*
4. `HostMatrix`, `BenchmarkSession`, the promise it keeps (`MatrixPromise`) and
   their proofs. *Built.*
5. `ScenarioPhase`, `TrialLifecycle` and the theorems about verdicts and
   rewards. *Built.*
6. `PeerWire`, `PeerLab`, `FrozenInputs` and their proofs. *Built.*
7. `MatrixEvidence`, `PublicRecord`, `CoveragePlan`, `ResultCatalog`,
   `Publication`, `Submission`, composed in `EvidencePipeline`, and its proofs.
   *Built.*
8. Open: the handoff protocol of the cooperation lab.

Each module takes its sets and bounds as CONSTANTS with named assumptions, has
one action per handler or per stretch between two awaits, and is kept free of
RECURSIVE operators so that it can be proved about.

## 3. Modules

| Module | What it is |
|---|---|
| `AssignmentLedger` | What the API promises about assignments: a run is given out at most once, when accepted, and a worker has one run at a time |
| `ControlPlane` | The API. Every handler that changes state, persist, recovery |
| `WorkerFleet` | The API composed with daemons and clients |
| `MCControlPlane`, `MCWorkerFleet` | Two runs, two workers |
| `ControlPlaneProofs`, `WorkerFleetProofs` | Theorems about both |
| `HostedControl` | Controller, backend and VM |
| `MCHostedControl` | Two sessions, one or two connections |
| `HostedControlProofs` | Theorems about it |
| `TrainerRunner`, `MCTrainerRunner`, `TrainerRunnerProofs` | One run of the local trainer, its instance and theorems |
| `HostMatrix` | A matrix directory, its controllers and trials |
| `BenchmarkSession` | Launcher, worker and queued session over `HostMatrix` |
| `MatrixPromise` | What a managed session promises about its answers: one for each job, taken back only if unavailable, completed when all are evaluated |
| `MCBenchmarkSession`, `BenchmarkSessionProofs` | Two jobs, two workers; theorems |
| `ScenarioPhase` | One phase of a declarative scenario, step by step |
| `TrialLifecycle`, `TrialLifecycleProofs` | One trial from boot to `result.json`, over `ScenarioPhase`; its theorems |
| `PeerWire` | The relay between two guests and its policy |
| `PeerLab` | A pair from boot to publication, over `PeerWire` |
| `FrozenInputs` | Cohorts, staging, snapshots and edits |
| `HostLabProofs` | Theorems about `PeerLab` and `FrozenInputs` |
| `MCHostTrials` | The instance of `PeerLab`, `TrialLifecycle` and `FrozenInputs` |
| `MatrixEvidence` | Summaries: validation, compatibility, corrections, releases, aggregates |
| `PublicRecord` | Index and pages: catalog, coverage, scores, history |
| `ResultCatalog` | The local SQLite index |
| `CoveragePlan` | Lanes, gaps and commands |
| `Publication` | The maintainer's commands on index, files and pages |
| `Submission` | Bundle, pull request, merge |
| `EvidencePipeline`, `MCEvidencePipeline` | All six on common summaries, and the acceptance; the instance |
| `EvidencePipelineProofs` | Theorems about it |

### ControlPlane

`runs` and `workers` are the two maps of `AppState`; `disk` is the SQLite file.
A handler takes the write lock, changes the maps and persists without an await
in between, so it is one step; `ok` is the outcome of the transaction that
rewrites both tables. When it fails the maps stay changed, the file stays old
and the caller gets a 500: this is what `Persist(FALSE)` does. `Restart` is a
crash at any point together with the boot that follows it: `load_state`,
`recover_state` and the persist before the server listens. Tokens, scenario
lookup, request sizes and the cohort checks are early returns without effect and
are left out, as are the states `Expired` and `Draining` that no code sets.
Callers are unconstrained: any worker id may send any request at any time, and an
event of any kind. `worker_event` looks at a kind only to see that it is not
blank, so `Kinds`, what a worker may post, is a free constant; the instance
has a kind of the worker's own, one that reads like a verdict and one that reads
like a requeue. A log entry is its kind and who wrote it (`Told`, `Posted`). The
author is history: the code keeps none. `StateFollowsLog` and `OneVerdict` are
about the entries the API writes. What the kinds alone tell a reader depends
on the callers, and is `LogReadsTrue` of WorkerFleet. `issued`, `acked` and
`decided` are histories too.

### WorkerFleet

`loop[w]` is the place of the daemon that holds worker `w`'s token. Each request
is one step of both sides; a reply that is lost is that step followed by
`LoopEnds`. A request delayed across a restart does not occur: the connection is
gone with the process. `main` enrolls again after any failure, as a new worker.
The daemons are the only callers of the worker endpoints here and post
`ExecutorEvents`, which `KindsAssumption` takes for permitted. So a reader of a
log, who sees kinds and not authors, is told the truth (`LogReadsTrue`).

### HostedControl

`op` is the operation holding `create_lock`; it is cut at every await. A GET
does not take the lock: `reading[s]` is the answer between the VM's reply and
the put, one per session. `expired` is the set of sessions whose `expires_at`
has passed. On the VM each connection `conn[k]` is a `hosted-run` process from
sshd's accepting the key to the guard's drop. `authorized_keys` is rewritten
from what the rewriter read before (`seen`): the read and the rename are
separate steps, in cleanup and in the runner. `clobbered` is a history: some
rewrite replaced a file that had changed since it was read. `uncleaned` is a
history of sessions whose last cleanup failed.

Left out on purpose, because they add nothing to the properties or commute with
what is there: the append of `install_forced_key` against a rename at the same
instant (an append just before the read or just after the rename); two removers
that share the temporary file's name; a put's three short lock sections (one
step); a Compose child that survives the kill of its runner; a cleanup that has
begun on the VM and whose controller dies runs to its end; killing the runner,
bringing the project down and reading the keys are one step. Failing remote
commands may or may not have had their effect.

### TrainerRunner

The main thread is `main`, the polling task `poller`; the variables named after
`run_scenario`'s atomics are the ones they share, and each access is a step of
its own except where a thread reads or writes two in a row that nobody changes
in between. `now` may advance between any two steps. `proved` and `credit` are
histories: the times of passing checks, and that the incident was fixed when the
player left and still is. The transcript and the Compose commands change none of
this. A poller that woke before the cancellation can write the state file after
it was removed; the model has that step, and no property claims the file is
gone.

### HostMatrix and BenchmarkSession

A worker (`run_session`) and the controller it runs share an id; `trial[c][j]`
is the `run-host-native.sh` that controller `c` started for job `j`. A trial
builds its VM without holding a port, boots it only if the job's ports are free,
opens `result.json` and writes it in two steps, and releases the ports when it
ends; each step looks at the directory as it is then, since another controller
may have removed it. `Kill` and `WorkerDies` take one process and leave its
children; `Interrupt` takes the controller and its trials; `HostCrashes` takes
all. The preflight of a resume fails on a port in use and otherwise only as a
fault. A result is evaluated, unavailable or unreadable. The launcher checks,
spawns and records in three steps under `launch.lock` and may die between them.
A report of a session is read in one step, and reading the final report,
publishing it and leaving `run.lock` are one step. `overlap` is a history: a
worker began beside something that a worker which is gone had left running.

`MatrixPromise` is the abstraction of it all: an answer for each job, the set of
jobs of which one was taken back, whether the session says completed, and
whether another one went ahead. A torn result is no answer; `status` and
`followed` are what is said; and the promise ends with `overlap`.

### ScenarioPhase and TrialLifecycle

`host` is the VM: up or down, how far the repair reaches (nothing, until the
service restarts, until a reboot, for good), which requests it has lost, its
boots. The agent acts on it until the controller ends the run, and what it left
running acts on until a reboot; the host may go down, come up, or lose its store
at any moment. `place` is the position in the script; each command over ssh is a
step, so that anything may happen between two. `run` is the agent's exit, `taken`
the captured report (valid or not, and stating an error or not: the classifier
looks at the error of either), `verdict` the variables the script makes
`result.json` from,
`after` the separate finding about a repair whose agent was out of time, `log` a
history of the phases and the host each of them found. The classifiers are
operators in the order in which the scripts ask.

A step describes the answers of the repaired service or, to confirm the incident,
those of the broken one (`repaired`). A `concurrent_http` step keeps what it sent
(`all`) or what failed (`failed`) under a key, although it fails itself, and a
`replay_http` step asks for it (`from`) until all of it was answered in some
round. `BacklogAssumption` says what such plans are for: verification asks for the
repaired service, replays every key the preflight kept, and replays what it keeps
itself. `validate_scenario.py` 133-170 refuses a key nobody replays, and the
shipped scenarios that keep requests (001 and 013 to 016) satisfy all three parts.

### PeerWire and PeerLab

A frame is its sender, its kind, ports, SYN and whether it carries a private
value. `flows` is what the policy remembers, `capture` is `peer.pcap`, `frames`
counts what was read against the budget, and the byte budget is abstracted into
it; the relay gives up when more than `MaxPending` frames wait for a guest that
does not read. In PeerLab, `known`, `contact`, `proof` and `config` are what a
guest has and writes, at any time while it runs; `job` is what the controller has
fetched, in the order in which it fetches. `Judges` has the verdict in each
snapshot's form: the snapshots differ in transport and policy options only.
`EditsResult` is a hand edit of a retained claim before the export recomputes it:
the outcome, a guest's milestones, its exit status, whether its configuration
stayed, or that there was a policy; `edits` says which were edited. The export
recomputes or compares all of them but the exit statuses, which it copies and
the publication believes (`export_trials.py` 76, `publish_benchmarks.py` 140), so
`PublishedPairIsProved` claims that an agent ended well unless its exit status is
among the edits.

### FrozenInputs

Four parts stand for the trees a trial reads: controller, pack, manifest and
agent. A directory is the content of each and the hash recorded of each; copying
goes part by part, in the order of the code, while `Develops` edits the working
tree; `TouchesCohort` and `TouchesSnapshot` edit the copies. One thing is
assumed of the editor: nobody edits a cohort between its check and the end of
staging from it (`Unread`); the code does not detect that.

### The evidence pipeline

A matrix is its contract (what `compatibility_key` compares), its scenarios,
models, runs and errors; a digest is modelled by what it is of. A command of
`Publication` writes the release file, the index and the pages one after the
other, none of them atomically, and `Dies` may come between any two writes or
within one; `EditsFile` (the reward of one run, or one total) and
`NamesCompanion` are edits of tracked files, `Restores` a checkout. `pages` are functions of index and files, in
`PublicRecord`. An import of the catalog takes one summary per transaction; a
summary may be resumed between the two times it is opened. A contributor's bundle
may change between its validation and its commit. `measured` is a history.

## 4. Runs

| Run | Module | Bounds | Shows |
|---|---|---|---|
| `control_plane` | MCControlPlane | 2 runs and 2 workers (symmetric), 3 kinds of posted event, log of 4 before worker events stop, 1 submission per run, 2 faults | consistency, verdicts, durability and the ledger refinement with arbitrary callers |
| `worker_fleet` | MCWorkerFleet | 2 faults, 1 ended loop | attribution, execution once, evidence before the verdict, a log that reads true; an assigned run is decided unless something fails, a stale loop ends |
| `queued_forever` | MCWorkerFleet | no faults | finding: a queued run is never dispatched |
| `hosted_access` | MCHostedControl | 2 sessions, 1 connection, a status request or a fault | access, provisioning, one live session, no revival; an expired session loses its key |
| `late_status`, `key_comes_back`, `failed_cleanup` | MCHostedControl | least bounds that reach the case | findings, section 6 |
| `trainer_run` | MCTrainerRunner | deadline of 3 ticks, clock of 6, 2 hints | outcome, score, deadline and end under every interleaving |
| `managed_session` | MCBenchmarkSession | 2 jobs, 2 ids, 1 VM at a time, 2 faults | status, exclusion, the promise and convergence under kills and resumes |
| `resume_discards` | MCBenchmarkSession | 1 fault | finding, section 6 |
| `evidence` | MCEvidencePipeline | 2 places for summaries, 2 scenarios, 2 providers, 2 releases; 2 writes, 2 imports, 2 commands, 3 operations begun, 1 fault | rows, published numbers, index, acceptance, merge and plan |
| `host_trials` | MCHostTrials | 7 frames, 1 remembered flow, 2 waiting frames; 2 boots; 2 acts of an agent or edits; 1 fault of a pair; 2 edits of a result | policy, published pairs, rewards, verdicts, inputs |

Why the bounds are enough. Two faults are what it takes for a file older than
memory to be read back (a failed persist, then a restart). Two runs and two
workers allow the wrong pairing, which is what the fleet properties are about. A
submission more only repeats the same overwrite. Two sessions are one being
destroyed and one being created; more would be further finished ones. One fault
in the hosted runs is any single failed command, write, runner or controller;
the theorems cover the rest for the properties they state. Three ticks let a
round begin before, at and after the deadline, and the clock goes on long enough
for the final check to be late. Two ids are one run and the one that resumes it,
and are used again, so a session may be resumed any number of times; two faults
are, for instance, an unavailable trial and the death of the retry. One VM for
two jobs keeps the semaphore at its limit.

In `evidence` the commands of different components share only the summaries, so
one command runs at a time while matrices write at any time, and behaviours that
import into the local catalog, which nothing else reads, need no other command.
Two writes are a matrix and its resume; two commands are one that dies and the
one that finds what it left; one fault is any single death, failed step or hand
edit; one edit always meets the condition of the theorems. Matrices of two agents through different providers make lanes that must not
be merged; two attempts make a cell that is half covered.

The three components of `host_trials` share nothing, so a behaviour is of one of
them, and for a pair it looks either at the wire (anything the guests send, with
budget and policy) or at what the pair does with it (one private message each
way, and one fault: an agent that ends badly, a changed firewall, a wiped disk, a
late write, a missing cost, an interruption). Seven frames are the four of the
preflight's pings and three more (a refused and a permitted opening and an answer,
say); the next one exceeds the budget, and one remembered flow is the limit
reached. The conditions are one for each form of
the verdict; `asymmetric-tools` runs the code of `open-lan`. Two acts of an
agent are a repair and a report, or a repair and its loss; two boots are those of
a trial; three
contents of a file are an edit before and one after the copy, of which one keeps
the stated version.

The type invariants of the API, the fleet, the hosted system and the trainer are
proved (section 5) and not run; the runs spend their time on what is above.

Deadlock is not checked where every bound can be used up: ids are drawn once,
and a system whose clients stay away may stop.

### Fairness

`FairFleetSpec`: weak fairness of each daemon's loop, which never sleeps without
waking, and of enrolment, which `main` retries for ever. It includes the end of
the executor, which has no time limit in the code: liveness is claimed for
executors that end. Clients, restarts and faults owe nothing.

`MCSpec` of MCHostedControl: weak fairness of the operation holding the lock and
of a runner whose player has left; strong fairness of the expiry loop's turn,
since tokio's mutex serves waiters in order and the loop waits every 30
seconds. Participants and clients owe nothing.

`FairSpec` of TrainerRunner: weak fairness of both threads. The player owes
nothing, and the clock may stand still.

`FairSpec` of BenchmarkSession: weak fairness of processes that are alive
(trials are bounded by time limits), and strong fairness of an operator who
keeps resuming with `--retry-unavailable` while the session is not completed:
`SessionCompletes` says that this is enough.

## 5. Proofs

All theorems hold for any sets of ids, any bounds, and the named ASSUMEs only
(the sentinels are distinct, the bounds are natural numbers).

**ControlPlaneProofs.** `TypeCorrect` first. `Sound` strengthens `Consistent`
with what ids have been drawn, since a fresh id must not be referred to; it is
shown of memory and of the file, and one lemma carries it over a persist that
succeeds or fails. `AssignmentTheorem` is its first part. `History` relates a
verdict in the log to nobody holding the run: a run held by a worker has no
verdict yet, so the next result is the first; `OneVerdictTheorem`,
`VerdictTheorem` and `AcceptedTheorem` follow. `LogTheorem` goes by the forms a
handler can give a log; a posted event, of whatever kind, leaves the last entry
of the API where it was. Nothing is assumed of `Kinds`. `LedgerTheorem` maps every step to a ledger step or a
stutter and uses `Sound` where a worker must be free.

**WorkerFleetProofs.** `FleetRefinesPlane`: the composition implements the API
with unconstrained callers, so all theorems above hold of it. `Attached` relates
a loop to its worker (`AttributionTheorem`), `Backed` a passed run to an
executor's success in memory and in the file (`OutcomeTheorem`), and the same
relation to the number of launches (`ExecutedOnceTheorem`). `AuthoredInv` says
that a worker's entries are of the daemon's kinds; the kinds of the API's own
are others, so kind and author agree, and `LogReadsTrueTheorem` follows from
`LogTheorem` and `OneVerdictTheorem`.

**HostedControlProofs.** `TypeInv` also says that nothing exists for an id that
was not drawn. `Access` is inductive only while no rewrite clobbered another:
what an operation is about to record is true on the VM, a session being created
is unknown everywhere else, a destroyed one has no key, and a key is
provisioned. The steps fall into three groups, by what they leave alone:
controller, remote command, connection. `DestroyedTheorem` and
`ProvisionedTheorem` follow.

**TrainerRunnerProofs.** `TypeInv` adds that a round that goes on polls before
the deadline and that the time of leaving is known and past. `OracleInv` says
where a passing check is: on its way to the flag, or in it; that the deadline is
noticed only by a poller that checks no more; and that a recorded time is that
of a passing check, late only through the final one. `ScoreTheorem`,
`BreachTheorem` and `LateTheorem` are parts of it. `Credited` follows the fix the
player left to the decision (`CreditTheorem`).

`EvidenceTheorem` adds what a loop has reported on a run its worker still holds:
past the executor, the run's log has the start, and then the end, of the
execution; a restart that takes the run away also takes the report's place.

`Admits`, for `AdmissionTheorem` and `OverTheorem`, holds while no status was
asked for: file and memory agree, a create asks the VM only about what it saw
live, and the session it makes is unknown to everybody until it is put. It needs
the lock on every path that puts, which a GET does not take: hence the condition.

**BenchmarkSessionProofs.** `SessionInv` says of every state without `overlap`:
at most one launch has a controller or a trial (`Alone`), and beside a running
worker only its own (`Locked`); before its trials begin a controller has none,
retries only unavailable results and clears nothing valid it has not archived
(`Planned`); a trial that has not opened its result has none (`Unwritten`); and a
session that says completed has every job evaluated (`Decided`). Every step
belongs to one launch and touches only that launch's controller and trials, which
is shown once and used for all theorems.

`PromiseTheorem` maps each step to the promise. A step of a controller or a trial
leaves all answers, gives one where there was none, or archives an unavailable
one (`StepAnswers`): a trial opens its result only where there is none, by
`Unwritten`, and what a resume clears is no answer, by `Planned`. Saying completed
and going ahead need `Decided`. Once `overlap` holds the promise allows
everything, and `overlap` stays.

**TrialLifecycleProofs.** `TrialInv` follows the place: before the verdict
nothing is found, the phases verified are those the place has behind it, and a
finding goes to `verdict` or, after a timeout, to `after`. `VerdictCorrect` reads
off the end. It assumes `StepsAssumption`: no step of a scenario names the
category the harness itself excuses (section 6).

`RewardCorrect` is about states far apart: what a phase found when it began must
still hold of the log at the end. `HostInv` says that a host that fell is acted on
no more and is broken or durably repaired; hence `HostGrows`, and `LogInv` keeps of
every entry that it was lost for good or is durable once the host had booted again
(`Seen`). `PhaseInv` is the argument proper: whatever the running phase has not
yet shown of the host it found, a step still to run will show (`Shown`): that the
host works, and that what is kept under each key was not lost; in the middle of a
replay, what was lost is among the pending. Losses only grow, so an answer in any
round speaks for the beginning of the phase. It needs `BacklogAssumption` for a
phase that begins. `Earned` carries what was shown through the verdict to the
result, past a report that is fetched late.

**HostLabProofs**, the pair. `PolicyInv`: every flow the policy remembers was
opened in the capture by a guest that may open it. `KnowInv`: a guest has its
peer's values only where they were carried, by the capture or the disk, and a
contact needs them. `JobInv` relates what was fetched to the guests at that time and later: values
handed over stay known, a relay that has stopped does not give up later, and of
what a success rests on a hand edit reaches the exit statuses alone. The theorem
holds of any number of edits (`MaxEdits` is any natural number).

**HostLabProofs**, the inputs. A copy in progress is a prefix of its order and a
finished one has all parts, of which there are four, so no induction is needed. `OfCohort`
follows the cohort's hashes through staging into the snapshot, whose recorded
hashes never change; `Ready` says that a running matrix uses a snapshot that
agrees with them.

**EvidencePipelineProofs.** For the catalog, `CatalogInv`: every summary that
lies anywhere or is being imported was measured, and the rows under a matrix are
all those of the summary that was read when they were committed, also when an
earlier one of that matrix was there (`CommitReplaces`). For the store,
`StoreInv`: a command that stores a release has either not written its file yet,
and then only that release of the index to come may lack one, or has, and none
does; this is what makes the order of the writes matter, and what is deployed is
in the same state, since it is what a restore brings back. For plans,
`CommandsExact`: lanes of one provider and effort that miss the same scenarios
make one command, so a missing cell is in exactly one; the fleet of the page is
made of lanes wherever it comes from (`CoverageInv`). The condition is that no
lane is listed under two names of one provider (section 6).

What is deployed passed the check, so it is a build of what it contains
(`DeployedInv`). A row of an accepted release counts its runs (`RowsCount`) and
lists them, unless the harness names a provider that has runs of the cell itself
(`OwnRunsListed`, section 6): `CatalogCorrect`. A cell that is shown as covered
rests on a record of the newest release that has the scenario; there is a newest
one because a bounded set of numbers has a largest element (`Largest`, from the
library's well-founded order of the naturals), and that release was made under the
manifest's conditions: `CoverageCorrect`.

The runs themselves. `EvidenceInv` adds to `DeployedInv` that whatever is
summarized, bundled, pushed or merged is a genuine matrix unless its digest fails
it (`SubmissionInv`), and that every tracked release that passes the check is
`Faithful` (`FilesInv`): its runs were measured, and undoing its corrections gives
the trials of the submission it names. Where a release is made this is a fact about
sequences of any length: `Kept` and `Stages` are recursive functions, and what
holds of each of their stages is shown by a least counterexample (`Least`, again
from the well-founded order). A correction keeps a set of trials apart by source
and id (`Keyed`), changes nothing else (`Revises`) and is taken back by the values
it kept (`CorrectUndone`), so the corrections in reverse order take back all of
them (`AppliedIsUndone`).

Where a release is edited the check must speak. `FlipIsRefused`: a release that
passed fails once one reward is flipped, since `passed` moves by one. A second edit
may move it back, in another run of the same rows, and then the file passes and
lies: the code cannot tell. Hence the condition of `AcceptedCorrect`,
`PublishedCorrect` and `CoverageGenuine`: a release that fails the check is restored
or stored anew before it is edited again (no `EditedUnchecked` step).
`PublishedCorrect` follows the catalog's page through half builds and needs
`RowsUnmixed` for the counts: no harness is annotated with the provider of another
row of its cell (section 6).

The plan. `PlanExact` joins `PlanCorrect` to what was measured. A published cohort
is complete and the matrices it is made of went through one provider each, so the
trials of a row come from one source: a second would repeat an attempt of the cell
(`TrialsOfOneSource`), and corrections that leave the provider alone leave it so.
The evaluated runs of a row then map one-to-one into the runs of one matrix
(`ReleasedIsMeasured`), and the page is followed through half builds, deployments
and restores (`CoverInv`). Besides `EditedUnchecked` there are two conditions.
`RowsPlain`: a row that may cover a cell, that is one of the newest counted release
with the scenario when it was made under the manifest's conditions, shows the
provider its runs were made through, and no correction of that release changes a
provider. `LanesNamedOnce`: the fleet of the page lists no lane under two names.
Both hold of the instance and of the repository's own data: the three manifests are
covered by releases 20261029.0.0 and 20261106.0.1, which have neither corrections
nor a provider annotation, and the seven lanes of the fleet are distinct. Some
older releases show annotated or corrected providers, so `RowsPlain` does not speak
of every release.

They assume `TornAssumption` (half a file is not an absent one), `OriginAssumption`
and `OriginFaithful` (at the start the checkout builds, and its releases tell the
truth), `MeasurementsAssumption` (the runs of a matrix are finitely many, have
different ids and went through one provider: a matrix is started with one, and a
resume cannot name another), `ManifestAssumption` (a positive number of attempts,
as `load_benchmark_manifest` demands) and `AnnotationsAssumption` (corrections are a
list). TLC evaluates each on the instance.

Only model-checked are the liveness properties, which need fairness and ENABLED.

## 6. Findings

Each is a run TLC violates, with the quoted promise in `PROJECT.json`.

- `queued_forever`: README.md says the API queues runs onto warm workers; only
  `start_run` assigns, so a run that was queued stays queued.
- `late_status`: a status answer stored after a DELETE revives the session,
  next to a new one, in memory and in `sessions.json`.
- `key_comes_back`: two rewrites of `authorized_keys` overlap and a removed key
  is written back.
- `failed_cleanup`: after a failed cleanup the runner may end by itself and the
  next create is admitted without a cleanup.
- `resume_discards`: a trial left running by a killed worker or controller
  writes its result after the resume has planned; the resume removes it.

Two more are in the models without a run. A controller that dies between the
key's installation and the put leaves a key no expiry loop knows of
(`ExpiredLosesAccess` is stated of sessions in the store). A cancelled poller of
the trainer may leave the state file behind.

Observed while modelling, in the models or at their edge, and not the subject of
a run:

- `worker_event` takes events of any kind, `verification_result` and
  `run_requeued` included, and stores no author. A run's state never follows
  from such an entry, but a log by itself does not tell it from one of the API.
- The exit statuses of a cooperation trial are exported as the retained result
  has them; nothing else that was retained repeats them.
- The reboot phase can pass without a reboot: the status of the reboot command is
  not looked at and one slow probe satisfies `wait_for_ssh_down`, so the phase may
  verify the boot before it (`integrations/host/README.md` 1115-1118 says that the
  host reboots). A fast reboot may be missed, and fails the trial.
  `RewardIsEarned` therefore claims durability when the phases began on different
  boots.
- A report captured late leaves `result.json` with `agent_result_missing`, though
  its usage was filled in from that report.
- Nothing stops a scenario's step from naming `guest_boot_infrastructure_failed`
  (`scenario_phase.py` 212-213 takes any string), which `run-host-native.sh` 1076
  excuses as unavailable. No shipped scenario does.
- `freeze_cohort` validates what it reads and copies later, and may freeze a
  cohort no run accepts. Without a cohort, an edit between discovery and staging
  gives a matrix whose declared version differs from its results, and every
  resume refuses it. `benchmark.toml` in a snapshot is not hashed again.
- Over a network, `peer_payload_observed` is always true: the ping of the
  preflight puts payload both ways.
- `build` validates after the release was stored, so a refused release stays in
  the index until the checkout is restored. The local catalog merges the
  providers of a lane; a fleet that names one lane by label and by id plans it
  twice; a release annotated with the provider of one of its lanes lists the runs
  of that lane under the rows of the others; and the boundary at the newest
  release makes a lane that an earlier one covered missing.

## 7. Not modelled

The rate limiter: a counter per client under one lock, whose only effect is an
early return. Records of the trainer, failure reports, credentials, the inference
proxy and the leak audit, the site and scenario content: I/O, external services
or data, without state that several actors change. Of the cooperation lab, the
handoff experiment's protocol and the oracle mode (which the export refuses). Of
publication, HTML, labels, medians and intervals, the tier that `tier_value` infers
for a release older than that field, and, of plans, the name of the scenario pack
and lists of several harness versions (evidence is of one pack and one version). See the notes in
`PROJECT.json`. The VM's provider, sshd, Docker, SQLite and the filesystem are
taken as they are: a transaction and a rename are atomic.

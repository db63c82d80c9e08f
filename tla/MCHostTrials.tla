---------------------------- MODULE MCHostTrials -----------------------------
(* What the host integration runs in virtual machines, and with what: a    *)
(* trial of one agent on an incident host, a pair of agents that are to    *)
(* meet, and the inputs a matrix of trials is frozen with.  They share     *)
(* nothing, so a behaviour is of one of them; of a pair, a behaviour looks *)
(* at the wire or at what the pair does with it.                           *)
EXTENDS PeerLab, TrialLifecycle, FrozenInputs

CONSTANTS
  MaxFaults,   \* steps of a pair that are not on the way to success
  MaxActs      \* acts of an agent on the incident host, edits of inputs

VARIABLES focus, faults, acts

mcVars   == <<focus, faults, acts>>
pairVars == vars

(* The incident is seen, and two requests are sent before the repair; it   *)
(* is confirmed when at least one fails, and the failed ones are what a     *)
(* repair must recover.  Verification sends one of its own and follows it. *)
Confirming ==
  << [type |-> "wait_http", repaired |-> FALSE, category |-> "preflight"],
     [type |-> "concurrent_http", repaired |-> TRUE, requests |-> {"r1", "r2"},
      all |-> Absent, failed |-> "backlog", min |-> 0, max |-> 1, category |-> "preflight"] >>

Verifying ==
  << [type |-> "wait_http", repaired |-> TRUE, category |-> "http"],
     [type |-> "replay_http", repaired |-> TRUE, from |-> "backlog",
      category |-> "backlog_not_recovered"],
     [type |-> "concurrent_http", repaired |-> TRUE, requests |-> {"r3"},
      all |-> "verification", failed |-> Absent, min |-> 1, max |-> 1,
      category |-> "database_pool_exhausted"],
     [type |-> "replay_http", repaired |-> TRUE, from |-> "verification",
      category |-> "verification_lost"] >>

(* An edit of a pack may keep the version its scenario states.             *)
Versions == <<1, 1, 2>>

MCInit ==
  /\ focus \in {"wire", "pair", "trial", "inputs"}
  /\ faults = 0 /\ acts = 0
  /\ Init /\ TrialInit /\ InputsInit
  /\ focus = "wire" => condition \in Network
  /\ focus \in {"trial", "inputs"} => condition = "open-lan"
  /\ focus # "trial" => oracle

-----------------------------------------------------------------------------
(* A pair.  A fault is whatever is not on the way to success: an agent     *)
(* that ends badly, a firewall that is changed, a disk that is wiped, a    *)
(* guest that writes after its agent ended, a receipt without its cost, a  *)
(* controller that fails or is interrupted.                                *)
Working(n) == agent[n] = "working"

Smooth ==
  /\ \A n \in Nodes : agent'[n] \in {agent[n], "working", "0"}
  /\ config' = config
  /\ disk \subseteq disk'
  /\ \A n \in Nodes :
       UNCHANGED <<contact[n], proof[n], known[n]>> \/ Working(n)
  /\ \A n \in Nodes : job'.cost[n] = job.cost[n] \/ job'.cost[n]
  /\ step' = "over" => step \in {"stop", "over"}

(* Everything the guests send, until their agents end.                     *)
WireFocus ==
  \/ \E n \in Nodes : Boots(n) \/ (Working(n) /\ (Sends(n) \/ Receives(n)))
  \/ Preflight \/ AgentsStart

(* Of what the guests send, one private message each way.                  *)
SentOne(n) == \E i \in DOMAIN capture : capture[i].from = n /\ capture[i].body = "private"

Useful(f) ==
  /\ f.body = "private" => ~ SentOne(f.from)
  /\ IF policy = None THEN f.kind = "icmp"
     ELSE f.kind = "tcp" /\ (f.syn => f.from = "alpha" /\ Len(capture) = 4)

PairFocus ==
  \/ \E n \in Nodes :
       \/ Sends(n) /\ capture' # capture /\ Useful(capture'[Len(capture')])
       \/ Receives(n) \/ WritesDisk(n)
       \/ ReadsDisk(n) /\ known' # known
       \/ WritesContact(n) /\ ~ contact[n]
       \/ WritesProof(n) /\ contact[n] /\ ~ proof[n]
       \/ Reconfigures(n) \/ AgentExits(n)
  \/ ControllerStep \/ Fails \/ Interrupted
  \/ job.state = "completed" /\ (EditsResult \/ Exports \/ Publishes)

PairNext ==
  /\ \/ focus = "wire" /\ WireFocus
     \/ focus = "pair" /\ PairFocus
  /\ faults' = faults + (IF Smooth THEN 0 ELSE 1)
  /\ faults' <= MaxFaults
  /\ UNCHANGED <<trialVars, inputVars, focus, acts>>

TrialFocus ==
  /\ focus = "trial"
  /\ \/ AgentStep /\ acts < MaxActs /\ acts' = acts + 1
     \/ (HostStep \/ TrialStep) /\ UNCHANGED acts
  /\ UNCHANGED <<pairVars, inputVars, focus, faults>>

InputsFocus ==
  /\ focus = "inputs"
  /\ \/ HandsStep /\ acts < MaxActs /\ acts' = acts + 1
     \/ MatrixStep /\ UNCHANGED acts
  /\ UNCHANGED <<pairVars, trialVars, focus, faults>>

MCNext == PairNext \/ TrialFocus \/ InputsFocus

MCSpec == MCInit /\ [][MCNext]_<<pairVars, trialVars, inputVars, mcVars>>
=============================================================================

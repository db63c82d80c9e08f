------------------------------- MODULE PeerLab -------------------------------
(* run_peer_lab.py and what becomes of its job: the controller boots two   *)
(* guests, checks their isolation, runs an agent in each, collects their   *)
(* receipts and judges the pair; export_trials.py recomputes the judgement *)
(* from the retained job and publish_benchmarks.py checks the export.      *)
EXTENDS PeerWire

CONSTANTS
  Conditions,   \* the experiments: one snapshot of the lab for each
  MaxEdits      \* bound: claims of a retained result that are edited

VARIABLES
  condition,  \* which experiment this is
  step,       \* where the controller is
  up,         \* guests that are running
  known,      \* guest -> whose private values it has
  contact,    \* guest -> access.json holds the peer's nonce
  proof,      \* guest -> result.json holds the joint proof
  config,     \* guest -> its firewall and addresses: "given" or "changed"
  agent,      \* guest -> "none", "working" or the exit status of its agent
  disk,       \* the shared disk: whose values lie on it
  job,        \* the files of the job
  edits,      \* history: the claims of the result that were edited
  exported,   \* what export_trials.py made of it, or None
  published   \* what the publisher took, or None

guestVars == <<up, known, contact, proof, config, agent, disk>>
labVars   == <<condition, step, guestVars, job, edits, exported, published>>
vars      == <<wireVars, labVars>>

Network  == {"open-lan", "asymmetric-tools", "one-way-initiation", "restricted-port",
             "free-for-all"}
WithDisk == {"shared-disk", "free-for-all"}
PolicyOf(c) == IF c \in Policies THEN c ELSE None

NewJob ==
  [state |-> "preparing", result |-> None, wire |-> None,
   before |-> [n \in Nodes |-> None], after |-> [n \in Nodes |-> None],
   contact |-> [n \in Nodes |-> FALSE], proof |-> [n \in Nodes |-> FALSE],
   cost |-> [n \in Nodes |-> FALSE]]

Init ==
  /\ condition \in Conditions
  /\ WireInit(PolicyOf(condition))
  /\ step = "boot"
  /\ up = {}
  /\ known = [n \in Nodes |-> {n}]
  /\ contact = [n \in Nodes |-> FALSE]
  /\ proof = [n \in Nodes |-> FALSE]
  /\ config = [n \in Nodes |-> "given"]
  /\ agent = [n \in Nodes |-> "none"]
  /\ disk = {}
  /\ job = NewJob
  /\ edits = {} /\ exported = None /\ published = None

-----------------------------------------------------------------------------
(* The guests, from the moment they are up until the controller stops them.*)
Up(n) == step \notin {"boot", "over"} /\ n \in up

(* A connection is opened to the service port or to another one, from port *)
(* 4000; segments go either way on it.                                     *)
FramesOf(n) ==
  {Plain(n, "arp", "empty"), Plain(n, "icmp", "private"), Plain(n, "other", "private"),
   Segment(n, 4000, Service, TRUE, "empty"), Segment(n, 4000, 22, TRUE, "empty"),
   Segment(n, 4000, Service, FALSE, "private"), Segment(n, Service, 4000, FALSE, "private")}

Sends(n) ==
  /\ Up(n) /\ condition \in Network
  /\ \E f \in FramesOf(n) : Relays(f)
  /\ UNCHANGED labVars

Receives(n) ==
  /\ Up(n)
  /\ Delivers(n)
  /\ known' = [known EXCEPT ![n] = @ \cup 
                       IF Head(pending[n]).body = "private" THEN {Peer(n)} ELSE {}]
  /\ UNCHANGED <<condition, step, up, contact, proof, config, agent, disk, job, edits,
                 exported, published>>

WritesDisk(n) ==
  /\ Up(n) /\ condition \in WithDisk
  /\ disk' \in {disk \cup {n}, {}}
  /\ UNCHANGED <<wireVars, condition, step, up, known, contact, proof, config, agent, job,
                 edits, exported, published>>

ReadsDisk(n) ==
  /\ Up(n) /\ condition \in WithDisk
  /\ known' = [known EXCEPT ![n] = @ \cup disk]
  /\ UNCHANGED <<wireVars, condition, step, up, contact, proof, config, agent, disk, job,
                 edits, exported, published>>

(* The receipts: nonce and proof cannot be guessed.                        *)
WritesContact(n) ==
  /\ Up(n) /\ Peer(n) \in known[n]
  /\ contact' = [contact EXCEPT ![n] = TRUE]
  /\ UNCHANGED <<wireVars, condition, step, up, known, proof, config, agent, disk, job,
                 edits, exported, published>>

WritesProof(n) ==
  /\ Up(n) /\ Peer(n) \in known[n]
  /\ proof' = [proof EXCEPT ![n] = TRUE]
  /\ UNCHANGED <<wireVars, condition, step, up, known, contact, config, agent, disk, job,
                 edits, exported, published>>

Reconfigures(n) ==
  /\ Up(n) /\ policy # None
  /\ config' = [config EXCEPT ![n] = IF @ = "given" THEN "changed" ELSE "given"]
  /\ UNCHANGED <<wireVars, condition, step, up, known, contact, proof, agent, disk, job,
                 edits, exported, published>>

(* The agent ends: done, with an error, at its deadline, or with its guest. *)
AgentExits(n) ==
  /\ agent[n] = "working"
  /\ \/ /\ agent' \in {[agent EXCEPT ![n] = status] : status \in {"0", "124"}}
        /\ UNCHANGED <<wireVars, up>>
     \/ /\ agent' = [agent EXCEPT ![n] = "255"]
        /\ up' = up \ {n}
        /\ IF condition \in Network THEN Disconnects(n) ELSE UNCHANGED wireVars
  /\ UNCHANGED <<condition, step, known, contact, proof, config, disk, job, edits,
                 exported, published>>

-----------------------------------------------------------------------------
(* The controller.                                                         *)
Controls(from, to) ==
  /\ step = from
  /\ step' = to
  /\ UNCHANGED <<condition, guestVars, edits, exported, published>>

Boots(n) ==
  /\ step = "boot"
  /\ n = "beta" => "alpha" \in up
  /\ n \notin up /\ up' = up \cup {n}
  /\ IF condition \in Network THEN Connects(n) ELSE UNCHANGED wireVars
  /\ UNCHANGED <<condition, step, known, contact, proof, config, agent, disk, job, edits,
                 exported, published>>

(* Each guest pings the other: request and answer, and both carry payload, *)
(* none of it private.                                                     *)
Pings ==
  LET ping(n) == <<Plain(n, "icmp", "filler"), Plain(Peer(n), "icmp", "filler")>>
      sent    == IF condition \in Network THEN ping("alpha") \o ping("beta") ELSE <<>>
  IN  /\ frames' = Len(sent)
      /\ capture' = sent
      /\ UNCHANGED <<policy, policyVars, pending, clients, failure, stopped>>

Snapshot == IF policy # None THEN config ELSE [n \in Nodes |-> None]

Preflight ==
  /\ up = Nodes
  /\ Controls("boot", "running")
  /\ Pings
  /\ job' = [job EXCEPT !.state = "running", !.before = Snapshot]

AgentsStart ==
  /\ step = "running" /\ step' = "agents"
  /\ agent' = [n \in Nodes |-> "working"]
  /\ UNCHANGED <<wireVars, condition, up, known, contact, proof, config, disk, job, edits,
                 exported, published>>

AgentsEnd ==
  /\ \A n \in Nodes : agent[n] # "working"
  /\ up = Nodes \/ policy = None
  /\ Controls("agents", "alpha proof")
  /\ job' = [job EXCEPT !.after = Snapshot]
  /\ UNCHANGED wireVars

(* A receipt that cannot be read counts as none; a relay that gave up ends *)
(* the experiment.                                                         *)
ReadsProof(n, from, to) ==
  /\ failure = None
  /\ Controls(from, to)
  /\ \E cost \in BOOLEAN :
       job' = [job EXCEPT !.proof[n] = proof[n] /\ n \in up,
                          !.cost[n] = cost /\ n \in up]
  /\ UNCHANGED wireVars

WireFile == [failure |-> failure, dropped |-> dropped, frames |-> frames]

ClosesWire ==
  /\ Controls("close", "alpha contact")
  /\ Closes
  /\ job' = [job EXCEPT !.wire = WireFile]

ReadsContact(n, from, to) ==
  /\ Controls(from, to)
  /\ job' = [job EXCEPT !.contact[n] = contact[n] /\ n \in up]
  /\ UNCHANGED wireVars

-----------------------------------------------------------------------------
(* verify_rendezvous, in the form each snapshot of the lab has it: what    *)
(* was observed of the channel, and what the receipts prove.               *)
Milestone(traffic, channel, contacted, proved) ==
  [payload |-> traffic, access |-> channel /\ contacted,
   cooperation |-> channel /\ contacted /\ proved]

BothWays  == {<<n, Peer(n)>> : n \in Nodes} \subseteq Directions
DiskChanged == disk # {}

ByNetwork(n) == Milestone(BothWays, BothWays, job.contact[n], job.proof[n])
ByDisk(n)    == Milestone(FALSE, DiskChanged, job.contact[n], job.proof[n])
ByEither(n)  == Milestone(BothWays, DiskChanged \/ BothWays, job.contact[n], job.proof[n])

Observed(n) == CASE condition = "shared-disk"  -> ByDisk(n)
                 [] condition = "free-for-all" -> ByEither(n)
                 [] OTHER                      -> ByNetwork(n)

PolicyResult ==
  IF policy = None THEN None
  ELSE [blocked |-> dropped,
        unchanged |-> [n \in Nodes |-> job.after[n] = job.before[n]]]

Result ==
  [milestones |-> [n \in Nodes |-> Observed(n)], exits |-> agent, policy |-> PolicyResult,
   success |-> /\ \A n \in Nodes : /\ agent[n] = "0"
                                   /\ Observed(n).access /\ Observed(n).cooperation
               /\ policy # None => \A n \in Nodes : PolicyResult.unchanged[n]]

Judges ==
  /\ Controls("judge", "record")
  /\ job' = [job EXCEPT !.result = Result]
  /\ UNCHANGED wireVars

Completes ==
  /\ Controls("record", "stop")
  /\ job' = [job EXCEPT !.state = "completed"]
  /\ UNCHANGED wireVars

(* The stack unwinds: the relay is closed if it was not, the guests stop.   *)
(* An error marks the job as failed, an interrupt leaves it as it was.     *)
Unwinds(state) ==
  /\ step # "over"
  /\ step' = "over"
  /\ Closes
  /\ job' = [job EXCEPT !.state = state,
                        !.wire = IF @ = None THEN WireFile ELSE @]
  /\ UNCHANGED <<condition, guestVars, edits, exported, published>>

Stops       == step = "stop" /\ Unwinds(job.state)
Fails       == Unwinds("failed")
Interrupted == Unwinds(job.state)

-----------------------------------------------------------------------------
(* The retained job.  Before it is exported someone edits claims of its    *)
(* result: the outcome, a milestone, an exit status, whether a guest's     *)
(* configuration stayed, or that there was a policy.  The transport stays. *)
Edits(claim) ==
  /\ step = "over" /\ job.result # None /\ exported = None
  /\ edits' = edits \cup {claim}
  /\ Cardinality(edits') <= MaxEdits
  /\ UNCHANGED <<wireVars, condition, step, guestVars, exported, published>>

EditsResult ==
  \/ /\ Edits(<<"success", "pair">>)
     /\ job' = [job EXCEPT !.result.success = ~ @]
  \/ /\ Edits(<<"policy", "pair">>)
     /\ job' = [job EXCEPT !.result.policy = None]
  \/ \E n \in Nodes :
       \/ /\ Edits(<<"exits", n>>)
          /\ job' = [job EXCEPT !.result.exits[n] = "0"]
       \/ /\ Edits(<<"unchanged", n>>)
          /\ job.result.policy # None
          /\ job' = [job EXCEPT !.result.policy.unchanged[n] = TRUE]
       \/ /\ Edits(<<"milestones", n>>)
          /\ job' = [job EXCEPT !.result.milestones[n].access = TRUE,
                                !.result.milestones[n].cooperation = TRUE]

(* The export recomputes the milestones and compares the policy part with  *)
(* the relay's file and the snapshots of the guests; the exit statuses it  *)
(* copies, as nothing that was retained repeats them.                      *)
Channel == CASE condition = "shared-disk"  -> DiskChanged
             [] condition = "free-for-all" -> DiskChanged \/ BothWays
             [] OTHER                      -> BothWays

Recomputed(n) == Milestone(BothWays, Channel, job.contact[n], job.proof[n])

Trusted(n)   == TRUE
Confirmed(n) == job.result.milestones[n] = Recomputed(n)

PolicyConfirmed ==
  job.result.policy # None =>
    /\ job.wire.dropped = job.result.policy.blocked
    /\ job.wire.failure = None
    /\ \A n \in Nodes : job.result.policy.unchanged[n] = (job.before[n] = job.after[n])

Exports ==
  /\ step = "over" /\ exported = None
  /\ job.state = "completed"
  /\ condition = "shared-disk" => job.wire.frames = 0
  /\ \A n \in Nodes : Confirmed(n)
  /\ PolicyConfirmed
  /\ \A n \in Nodes : job.cost[n]
  /\ condition \in Policies => job.result.policy # None
  /\ exported' = job.result
  /\ UNCHANGED <<wireVars, condition, step, guestVars, job, edits, published>>

(* cooperation_trials: a claim of success that follows from the rest.      *)
Expected(trial) ==
  /\ \A n \in Nodes : /\ trial.milestones[n].access /\ trial.milestones[n].cooperation
                      /\ trial.exits[n] = "0"
  /\ trial.policy # None => \A n \in Nodes : trial.policy.unchanged[n]

Publishes ==
  /\ exported # None /\ published = None
  /\ condition \in Policies => exported.policy # None
  /\ exported.success = Expected(exported)
  /\ published' = exported
  /\ UNCHANGED <<wireVars, condition, step, guestVars, job, edits, exported>>

-----------------------------------------------------------------------------
GuestStep(n) ==
  \/ Sends(n) \/ Receives(n) \/ WritesDisk(n) \/ ReadsDisk(n)
  \/ WritesContact(n) \/ WritesProof(n) \/ Reconfigures(n) \/ AgentExits(n)

ControllerStep ==
  \/ \E n \in Nodes : Boots(n)
  \/ Preflight \/ AgentsStart \/ AgentsEnd
  \/ ReadsProof("alpha", "alpha proof", "beta proof")
  \/ ReadsProof("beta", "beta proof", "close")
  \/ ClosesWire
  \/ ReadsContact("alpha", "alpha contact", "beta contact")
  \/ ReadsContact("beta", "beta contact", "judge")
  \/ Judges \/ Completes \/ Stops

Next ==
  \/ \E n \in Nodes : GuestStep(n)
  \/ ControllerStep \/ Fails \/ Interrupted
  \/ EditsResult \/ Exports \/ Publishes

Spec == Init /\ [][Next]_vars

-----------------------------------------------------------------------------
(* A published success is one, whatever was edited of the claims above,    *)
(* wherever the relay gave up and whenever a guest wrote late: each guest  *)
(* had been handed its peer's values, over the wire where there was no     *)
(* disk, and under a policy the relay never gave up and the guests'        *)
(* configuration was the same before and after.  That an agent ended well  *)
(* is taken from the result, so it holds of an agent whose exit status     *)
(* nobody edited there.                                                    *)
Carried(n) ==
  \/ condition \in WithDisk
  \/ \E i \in DOMAIN capture : capture[i].from = n /\ capture[i].body = "private"

PublishedPairIsProved ==
  published # None /\ published.success =>
    /\ \A n \in Nodes : /\ known[n] = Nodes /\ Carried(n)
                        /\ agent[n] = "0" \/ <<"exits", n>> \in edits
    /\ policy # None =>
         /\ failure = None
         /\ \A n \in Nodes : job.before[n] = job.after[n]
=============================================================================

---------------------------- MODULE HostLabProofs ----------------------------
(***************************************************************************)
(* Theorems about what a host matrix and the cooperation lab run with: a   *)
(* cooperation experiment, for any set of conditions, any budget of        *)
(* frames, flows and waiting frames and any number of edits; and the       *)
(* inputs of a matrix, for any number of contents of each file and any     *)
(* versions they state or ask for.  The two share nothing.                 *)
(***************************************************************************)
EXTENDS PeerLab, FrozenInputs, TLAPS, SequenceTheorems

(* A cooperation experiment: PeerLab over PeerWire.                        *)
AnyFrame ==
  [from : Nodes, kind : {"arp", "icmp", "other", "tcp"}, src : Nat, dst : Nat,
   syn : BOOLEAN, body : {"empty", "filler", "private"}]

Typed == capture \in Seq(AnyFrame) /\ pending \in [Nodes -> Seq(AnyFrame)]

(* What the lab sends are frames, and its pings are all ICMP filler.       *)
LEMMA FramesAreFrames ==
  ASSUME NEW n \in Nodes
  PROVE  FramesOf(n) \subseteq AnyFrame /\ \A f \in FramesOf(n) : f.from = n
BY DEF FramesOf, Plain, Segment, AnyFrame, Service

Filler == {f \in AnyFrame : f.kind = "icmp" /\ f.body = "filler"}

LEMMA PingsAreFiller == Pings => capture' \in Seq(Filler)
<1> DEFINE ping(n) == <<Plain(n, "icmp", "filler"), Plain(Peer(n), "icmp", "filler")>>
<1>1. \A n \in Nodes : ping(n) \in Seq(Filler)
  BY DEF Plain, Peer, Nodes, AnyFrame, Filler
<1>2. ping("alpha") \in Seq(Filler) /\ ping("beta") \in Seq(Filler)
  BY <1>1 DEF Nodes
<1> HIDE DEF ping
<1>3. ping("alpha") \o ping("beta") \in Seq(Filler) /\ <<>> \in Seq(Filler)
  BY <1>2, ConcatProperties, EmptySeq
<1>4. Pings => capture' = IF condition \in Network THEN ping("alpha") \o ping("beta") ELSE <<>>
  BY Zenon DEF Pings, ping
<1> QED  BY <1>3, <1>4

(* How a step of the lab changes the relay: a guest that is up sends a     *)
(* frame, the two ping each other, one of them takes a frame, or neither   *)
(* the capture nor the flows nor a queue changes.                          *)
LEMMA RelayCases ==
  ASSUME [Next]_vars
  PROVE  \/ \E n \in Nodes : \E f \in FramesOf(n) : Up(n) /\ Relays(f) /\ UNCHANGED labVars
         \/ Preflight
         \/ \E n \in Nodes : Receives(n)
         \/ UNCHANGED <<policy, flows, capture, pending>> /\ (step' = "boot" => step = "boot")
<1>1. CASE UNCHANGED vars
  BY <1>1 DEF vars, wireVars, policyVars, relayVars, labVars
<1>2. ASSUME NEW n \in Nodes, GuestStep(n)
      PROVE  \/ Sends(n) \/ Receives(n)
             \/ UNCHANGED <<policy, flows, capture, pending>> /\ step' = step
  <2>1. CASE WritesDisk(n) \/ ReadsDisk(n) \/ WritesContact(n) \/ WritesProof(n) \/ Reconfigures(n)
    BY <2>1 DEF WritesDisk, ReadsDisk, WritesContact, WritesProof, Reconfigures, wireVars,
                policyVars, relayVars
  <2>2. CASE AgentExits(n)
    BY <2>2 DEF AgentExits, Disconnects, wireVars, policyVars, relayVars
  <2> QED  BY <1>2, <2>1, <2>2 DEF GuestStep
<1>3. ASSUME \E n \in Nodes : Boots(n)
      PROVE  UNCHANGED <<policy, flows, capture, pending, step>>
  BY <1>3 DEF Boots, Connects, wireVars, policyVars, relayVars
<1>4. CASE ControllerStep /\ ~ Preflight /\ ~ \E n \in Nodes : Boots(n)
  BY <1>4 DEF ControllerStep, AgentsStart, AgentsEnd, ReadsProof, ClosesWire, ReadsContact,
              Judges, Completes, Stops, Unwinds, Controls, Closes, wireVars, policyVars,
              relayVars
<1>5. CASE Fails \/ Interrupted \/ EditsResult \/ Exports \/ Publishes
  BY <1>5 DEF Fails, Interrupted, EditsResult, Edits, Exports, Publishes, Unwinds, Closes, wireVars,
              policyVars, relayVars
<1> QED  BY <1>1, <1>2, <1>3, <1>4, <1>5 DEF Next, Sends

(* Before the guests have run nothing is remembered of any connection, and *)
(* what is remembered afterwards was opened by a segment that passed.      *)
OpenedIn(seq, w) ==
  \E j \in DOMAIN seq :
    /\ Opens(seq[j]) /\ Flow(seq[j]) = w
    /\ seq[j].dst = Service
    /\ policy = "one-way-initiation" => seq[j].from = "alpha"

Remembers == policy # None => \A w \in flows : OpenedIn(capture, w)
Quiet     == step = "boot" => flows = {} /\ \A n \in Nodes : pending[n] = <<>>

PolicyInv == Typed /\ Quiet /\ Remembers /\ PolicyHolds

(* The heart of it: a frame that is relayed.                               *)
LEMMA RelayKeepsPolicy ==
  ASSUME PolicyInv, NEW f \in AnyFrame, Relays(f)
  PROVE  Typed' /\ Remembers' /\ PolicyHolds'
<1> USE DEF PolicyInv, Typed
<1>1. CASE UNCHANGED <<flows, capture, pending>>
  BY <1>1 DEF Relays, Remembers, PolicyHolds, OpenedIn, OpenedBefore
<1>2. CASE Drops(f)
  <2>1. flows' = flows \/ (policy # None /\ Opens(f) /\ MayOpen(f))
    BY <1>2 DEF Drops, Remembered
  <2>2. flows' = flows
    BY <2>1, <1>2 DEF Drops, Allows
  <2> QED  BY <1>1, <1>2, <2>2 DEF Drops
<1>3. CASE Forwards(f)
  <2>1. /\ capture' = Append(capture, f) /\ Allows(f) /\ flows' = Remembered(f)
        /\ pending' = [pending EXCEPT ![Peer(f.from)] = Append(@, f)] /\ policy' = policy
    BY <1>3 DEF Forwards, Relays
  <2>0. PICK k \in Nat : k = Len(capture)
    BY LenProperties
  <2>2. /\ DOMAIN capture = 1 .. k /\ DOMAIN capture' = 1 .. k + 1
        /\ capture'[k + 1] = f
        /\ \A i \in 1 .. k : capture'[i] = capture[i]
        /\ capture' \in Seq(AnyFrame)
    BY <2>1, <2>0, AppendProperties, LenProperties
  <2>3. pending' \in [Nodes -> Seq(AnyFrame)]
    <3>1. Peer(f.from) \in Nodes /\ Append(pending[Peer(f.from)], f) \in Seq(AnyFrame)
      BY AppendProperties DEF AnyFrame, Nodes, Peer
    <3> QED  BY <2>1, <3>1
  <2>4. \A w : OpenedIn(capture, w) => OpenedIn(capture, w)'
    BY <2>1, <2>2 DEF OpenedIn
  <2>5. ASSUME Opens(f), MayOpen(f) PROVE OpenedIn(capture, Flow(f))'
    <3>1. /\ k + 1 \in DOMAIN capture' /\ Opens(capture'[k + 1])
          /\ Flow(capture'[k + 1]) = Flow(f) /\ capture'[k + 1].dst = Service
          /\ policy' = "one-way-initiation" => capture'[k + 1].from = "alpha"
      BY <2>1, <2>2, <2>5 DEF MayOpen
    <3> QED  BY <3>1, Zenon DEF OpenedIn
  <2>6. Remembers'
    BY <2>1, <2>4, <2>5, Zenon DEF Remembers, Remembered
  <2>7. \A i \in 1 .. k : OpenedBefore(i) => OpenedBefore(i)'
    BY <2>1, <2>2 DEF OpenedBefore
  <2>8. ASSUME policy # None, f.kind = "tcp"
        PROVE  OpenedBefore(k + 1)'
    <3>1. (Opens(f) /\ MayOpen(f)) \/ Belongs(f)
      BY <2>1, <2>8 DEF Allows
    <3>2. CASE Opens(f) /\ MayOpen(f)
      BY <3>2, <2>1, <2>2 DEF OpenedBefore, MayOpen
    <3>3. CASE Belongs(f)
      <4>1. PICK w \in {Flow(f), Opposite(f)} : OpenedIn(capture, w)
        BY <3>3, <2>8 DEF Belongs, Remembers
      <4>2. PICK j \in 1 .. k :
              /\ Opens(capture[j]) /\ Flow(capture[j]) = w
              /\ capture[j].dst = Service
              /\ policy = "one-way-initiation" => capture[j].from = "alpha"
        BY <4>1, <2>2 DEF OpenedIn
      <4>3. capture'[j] = capture[j] /\ j \in 1 .. k + 1
        BY <2>2
      <4> QED  BY <4>1, <4>2, <4>3, <2>1, <2>2 DEF OpenedBefore
    <3> QED  BY <3>1, <3>2, <3>3
  <2>9. policy # None => f.kind \in {"arp", "icmp", "tcp"}
    BY <2>1 DEF Allows, Opens
  <2>10. PolicyHolds'
    BY <2>1, <2>2, <2>7, <2>8, <2>9 DEF PolicyHolds
  <2> QED  BY <2>2, <2>3, <2>6, <2>10
<1> QED  BY <1>1, <1>2, <1>3 DEF Relays, policyVars

LEMMA PolicyInvCorrect == Spec => []PolicyInv
<1>1. Init => PolicyInv
  BY DEF Init, WireInit, PolicyInv, Typed, Quiet, Remembers, PolicyHolds, Nodes
<1>2. PolicyInv /\ [Next]_vars => PolicyInv'
  <2> SUFFICES ASSUME PolicyInv, [Next]_vars PROVE PolicyInv'
    OBVIOUS
  <2> USE DEF PolicyInv
  <2>1. ASSUME NEW n \in Nodes, NEW f \in FramesOf(n), Up(n), Relays(f), UNCHANGED labVars
        PROVE  PolicyInv'
    <3>1. Typed' /\ Remembers' /\ PolicyHolds'
      BY <2>1, FramesAreFrames, RelayKeepsPolicy
    <3>2. step' # "boot"
      BY <2>1 DEF Up, labVars
    <3> QED  BY <3>1, <3>2 DEF Quiet
  <2>2. CASE Preflight
    <3>1. /\ capture' \in Seq(Filler) /\ step = "boot" /\ step' = "running"
          /\ UNCHANGED <<policy, flows, pending>>
      BY <2>2, PingsAreFiller DEF Preflight, Controls, Pings, policyVars
    <3>2. \A i \in DOMAIN capture' : capture'[i] \in Filler
      BY <3>1, ElementOfSeq, LenProperties
    <3>3. capture' \in Seq(AnyFrame)
      BY <3>1, SeqMonotonic DEF Filler
    <3> QED  BY <3>1, <3>2, <3>3 DEF Typed, Quiet, Remembers, PolicyHolds, Filler
  <2>3. ASSUME NEW n \in Nodes, Receives(n)
        PROVE  PolicyInv'
    <3>1. /\ pending[n] # <<>> /\ pending' = [pending EXCEPT ![n] = Tail(@)]
          /\ step # "boot" /\ UNCHANGED <<policy, flows, capture, step>>
      BY <2>3 DEF Receives, Delivers, Up, policyVars
    <3>2. Tail(pending[n]) \in Seq(AnyFrame)
      BY <3>1, HeadTailProperties DEF Typed
    <3> QED
      BY <3>1, <3>2 DEF Typed, Quiet, Remembers, PolicyHolds, OpenedIn, OpenedBefore
  <2>4. CASE UNCHANGED <<policy, flows, capture, pending>> /\ (step' = "boot" => step = "boot")
    BY <2>4 DEF Typed, Quiet, Remembers, PolicyHolds, OpenedIn, OpenedBefore
  <2> QED  BY <2>1, <2>2, <2>3, <2>4, RelayCases
<1> QED  BY <1>1, <1>2, PTL DEF Spec

(* Whatever the guests send and in whatever order, every segment that a    *)
(* relay under a policy passed on belongs to a connection an allowed guest *)
(* had opened to the service port (PeerPolicy).                            *)
THEOREM PolicyCorrect == Spec => []PolicyHolds
BY PolicyInvCorrect, PTL DEF PolicyInv
-----------------------------------------------------------------------------
(* Who knows what: a guest has its peer's values only when they came to it, *)
(* and a receipt only shows what its guest has.                            *)
Handed(n) == Peer(n) \in known[n]

KnowTyped ==
  known \in [Nodes -> SUBSET Nodes] /\ contact \in [Nodes -> BOOLEAN] /\ disk \in SUBSET Nodes

Queued ==
  \A n \in Nodes : \A k \in DOMAIN pending[n] :
    /\ pending[n][k].from = Peer(n)
    /\ pending[n][k].body = "private" => Carried(Peer(n))

Sourced == \A n \in Nodes : n \in known[n] /\ (Handed(n) => Carried(Peer(n)))
Fresh   == step = "boot" => known = [n \in Nodes |-> {n}]
Receipt == \A n \in Nodes : contact[n] => Handed(n)

KnowInv == PolicyInv /\ KnowTyped /\ Queued /\ Sourced /\ Fresh /\ Receipt

LEMMA PeerFacts ==
  \A n \in Nodes : Peer(n) \in Nodes /\ Peer(Peer(n)) = n /\ Peer(n) # n
BY DEF Peer, Nodes

(* How a step of the lab changes what the guests know.                     *)
LEMMA KnowCases ==
  ASSUME [Next]_vars
  PROVE  \/ \E n \in Nodes : Sends(n) \/ Receives(n) \/ ReadsDisk(n) \/ WritesContact(n)
         \/ Preflight
         \/ \E n \in Nodes : WritesDisk(n)
         \/ /\ UNCHANGED <<condition, capture, pending, known, contact, disk>>
            /\ step' = "boot" => step = "boot"
<1>1. CASE UNCHANGED vars
  BY <1>1 DEF vars, wireVars, relayVars, labVars, guestVars
<1>2. ASSUME NEW n \in Nodes, GuestStep(n)
      PROVE  \/ Sends(n) \/ Receives(n) \/ ReadsDisk(n) \/ WritesContact(n) \/ WritesDisk(n)
             \/ UNCHANGED <<condition, capture, pending, known, contact, disk, step>>
  BY <1>2 DEF GuestStep, WritesProof, Reconfigures, AgentExits, Disconnects, wireVars,
              relayVars
<1>3. CASE ControllerStep /\ ~ Preflight
  <2>1. ASSUME NEW n \in Nodes, Boots(n)
        PROVE  UNCHANGED <<condition, capture, pending, known, contact, disk, step>>
    BY <2>1 DEF Boots, Connects, wireVars, relayVars
  <2>2. CASE ~ \E n \in Nodes : Boots(n)
    BY <1>3, <2>2 DEF ControllerStep, AgentsStart, AgentsEnd, ReadsProof, ClosesWire,
       ReadsContact, Judges, Completes, Stops, Unwinds, Controls, Closes, wireVars, relayVars,
       guestVars
  <2> QED  BY <2>1, <2>2
<1>4. CASE Fails \/ Interrupted \/ EditsResult \/ Exports \/ Publishes
  BY <1>4 DEF Fails, Interrupted, EditsResult, Edits, Exports, Publishes, Unwinds, Closes, wireVars,
              relayVars, guestVars
<1> QED  BY <1>1, <1>2, <1>3, <1>4 DEF Next

(* The capture only grows while the guests run.                            *)
LEMMA CaptureGrows ==
  ASSUME Typed, NEW n \in Nodes, NEW f \in FramesOf(n), Relays(f), UNCHANGED condition
  PROVE  /\ \A m \in Nodes : Carried(m) => Carried(m)'
         /\ \/ UNCHANGED pending
            \/ /\ pending' = [pending EXCEPT ![Peer(n)] = Append(@, f)]
               /\ f.body = "private" => Carried(n)'
<1>0. f \in AnyFrame /\ f.from = n
  BY FramesAreFrames
<1>1. CASE Forwards(f)
  <2>1. capture' = Append(capture, f) /\ pending' = [pending EXCEPT ![Peer(n)] = Append(@, f)]
    BY <1>0, <1>1 DEF Forwards
  <2>2. PICK k \in Nat : k = Len(capture)
    BY LenProperties DEF Typed
  <2>3. /\ DOMAIN capture = 1 .. k /\ DOMAIN capture' = 1 .. k + 1
        /\ capture'[k + 1] = f /\ \A i \in 1 .. k : capture'[i] = capture[i]
    BY <1>0, <2>1, <2>2, AppendProperties, LenProperties DEF Typed
  <2>4. \A m \in Nodes : Carried(m) => Carried(m)'
    BY <2>3 DEF Carried
  <2>5. f.body = "private" => Carried(n)'
    BY <1>0, <2>3 DEF Carried
  <2> QED  BY <2>1, <2>4, <2>5
<1>2. CASE ~ Forwards(f)
  BY <1>2 DEF Relays, Drops, Carried
<1> QED  BY <1>1, <1>2

LEMMA KnowInvCorrect == Spec => []KnowInv
<1>1. Init => KnowTyped /\ Queued /\ Sourced /\ Fresh /\ Receipt
  BY PeerFacts DEF Init, WireInit, KnowTyped, Queued, Sourced, Fresh, Receipt, Handed
<1>2. KnowInv /\ PolicyInv' /\ [Next]_vars => KnowInv'
  <2> SUFFICES ASSUME KnowInv, PolicyInv', [Next]_vars
               PROVE  (KnowTyped /\ Queued /\ Sourced /\ Fresh /\ Receipt)'
    BY DEF KnowInv
  <2> USE PeerFacts DEF KnowInv, KnowTyped
  <2>1. ASSUME NEW n \in Nodes, Sends(n)
        PROVE  (KnowTyped /\ Queued /\ Sourced /\ Fresh /\ Receipt)'
    <3>1. PICK f \in FramesOf(n) : Relays(f)
      BY <2>1 DEF Sends
    <3>2. UNCHANGED <<condition, known, contact, disk, step>>
      BY <2>1 DEF Sends, labVars, guestVars
    <3>3. /\ \A m \in Nodes : Carried(m) => Carried(m)'
          /\ \/ UNCHANGED pending
             \/ /\ pending' = [pending EXCEPT ![Peer(n)] = Append(@, f)]
                /\ f.body = "private" => Carried(n)'
      BY <3>1, <3>2, CaptureGrows DEF PolicyInv
    <3>4. f \in AnyFrame /\ f.from = n
      BY FramesAreFrames
    <3>5. Queued'
      <4>1. CASE UNCHANGED pending
        BY <4>1, <3>3 DEF Queued
      <4>2. CASE /\ pending' = [pending EXCEPT ![Peer(n)] = Append(@, f)]
                 /\ f.body = "private" => Carried(n)'
        <5>1. ASSUME NEW m \in Nodes, NEW k \in DOMAIN pending'[m]
              PROVE  \/ pending'[m][k] = f /\ m = Peer(n)
                     \/ k \in DOMAIN pending[m] /\ pending'[m][k] = pending[m][k]
          <6>1. CASE m = Peer(n)
            <7>1. pending[m] \in Seq(AnyFrame) /\ pending'[m] = Append(pending[m], f)
              BY <4>2, <6>1 DEF PolicyInv, Typed
            <7> QED  BY <5>1, <6>1, <7>1, <3>4, AppendProperties, LenProperties
          <6>2. CASE m # Peer(n)
            BY <4>2, <5>1, <6>2 DEF PolicyInv, Typed
          <6> QED  BY <6>1, <6>2
        <5> QED  BY <5>1, <4>2, <3>3, <3>4 DEF Queued
      <4> QED  BY <4>1, <4>2, <3>3
    <3> QED  BY <3>2, <3>3, <3>5 DEF Sourced, Fresh, Receipt, Handed
  <2>2. ASSUME NEW n \in Nodes, Receives(n)
        PROVE  (KnowTyped /\ Queued /\ Sourced /\ Fresh /\ Receipt)'
    <3>1. /\ pending[n] # <<>> /\ pending' = [pending EXCEPT ![n] = Tail(@)]
          /\ step' = step /\ step # "boot"
          /\ UNCHANGED <<condition, capture, contact, disk>>
      BY <2>2 DEF Receives, Delivers, Up
    <3>2. pending[n] \in Seq(AnyFrame) /\ pending \in [Nodes -> Seq(AnyFrame)]
      BY DEF PolicyInv, Typed
    <3>3. /\ 1 \in DOMAIN pending[n] /\ Head(pending[n]) = pending[n][1]
          /\ \A k \in DOMAIN Tail(pending[n]) :
               k + 1 \in DOMAIN pending[n] /\ Tail(pending[n])[k] = pending[n][k + 1]
      BY <3>1, <3>2, HeadTailProperties, LenProperties
    <3>4. \A m \in Nodes : Carried(m) <=> Carried(m)'
      BY <3>1 DEF Carried
    <3>5. Queued'
      BY <3>1, <3>2, <3>3, <3>4 DEF Queued
    <3>6. /\ known' = [known EXCEPT ![n] = @ \cup
                         IF pending[n][1].body = "private" THEN {Peer(n)} ELSE {}]
          /\ pending[n][1].body = "private" => Carried(Peer(n))
      BY <2>2, <3>3 DEF Receives, Queued
    <3>7. KnowTyped' /\ Sourced' /\ Receipt'
      BY <3>1, <3>4, <3>6 DEF Sourced, Receipt, Handed
    <3> QED  BY <3>1, <3>5, <3>7 DEF Fresh
  <2>3. ASSUME NEW n \in Nodes, ReadsDisk(n) \/ WritesContact(n) \/ WritesDisk(n)
        PROVE  (KnowTyped /\ Queued /\ Sourced /\ Fresh /\ Receipt)'
    <3>1. /\ UNCHANGED <<condition, capture, pending, step>> /\ step # "boot"
      BY <2>3 DEF ReadsDisk, WritesContact, WritesDisk, Up, wireVars, relayVars
    <3>2. \A m \in Nodes : Carried(m) <=> Carried(m)'
      BY <3>1 DEF Carried
    <3>3. CASE ReadsDisk(n)
      <4>1. \A m \in Nodes : Carried(m)'
        BY <3>3, <3>1 DEF ReadsDisk, Carried
      <4>2. known' = [known EXCEPT ![n] = @ \cup disk] /\ UNCHANGED <<contact, disk>>
        BY <3>3 DEF ReadsDisk
      <4> QED  BY <3>1, <3>2, <4>1, <4>2 DEF Queued, Sourced, Fresh, Receipt, Handed
    <3>4. CASE WritesContact(n)
      BY <3>1, <3>2, <3>4 DEF WritesContact, Queued, Sourced, Fresh, Receipt, Handed
    <3>5. CASE WritesDisk(n)
      BY <3>1, <3>2, <3>5 DEF WritesDisk, Queued, Sourced, Fresh, Receipt, Handed
    <3> QED  BY <2>3, <3>3, <3>4, <3>5
  <2>4. CASE Preflight
    <3>1. /\ UNCHANGED <<known, contact, disk, pending>> /\ step = "boot" /\ step' = "running"
      BY <2>4 DEF Preflight, Controls, Pings, guestVars
    <3>2. /\ \A n \in Nodes : ~ Handed(n) /\ pending[n] = <<>>
      BY <3>1 DEF PolicyInv, Quiet, Fresh, Handed
    <3> QED  BY <3>1, <3>2 DEF Queued, Sourced, Fresh, Receipt, Handed
  <2>5. CASE /\ UNCHANGED <<condition, capture, pending, known, contact, disk>>
             /\ step' = "boot" => step = "boot"
    <3>1. \A m \in Nodes : Carried(m) <=> Carried(m)'
      BY <2>5 DEF Carried
    <3> QED  BY <2>5, <3>1 DEF Queued, Sourced, Fresh, Receipt, Handed
  <2> QED  BY <2>1, <2>2, <2>3, <2>4, <2>5, KnowCases
<1> QED  BY <1>1, <1>2, PolicyInvCorrect, PTL DEF Spec, KnowInv
-----------------------------------------------------------------------------
(* What becomes of the job: once the agents rest their exits stay, once    *)
(* the relay is closed its file is final, and what was exported is what    *)
(* the retained receipts and the two snapshots of the guests say.          *)
Later == {"alpha proof", "beta proof", "close", "alpha contact", "beta contact", "judge",
          "record", "stop"}
Closed == {"alpha contact", "beta contact", "judge", "record", "stop", "over"}

Statuses == {"none", "working", "0", "124", "255"}

JobTyped ==
  /\ {"state", "result", "wire", "before", "after", "contact", "proof", "cost"}
       \subseteq DOMAIN job
  /\ job.contact \in [Nodes -> BOOLEAN]
  /\ agent \in [Nodes -> Statuses]

Rest     == \A n \in Nodes : agent[n] # "working"
Phased   == job.state = "completed" => step \in {"stop", "over"}
Rested   == step \in Later \/ job.state = "completed" => Rest
Receipts == \A n \in Nodes : job.contact[n] => Handed(n)

Shut     == stopped /\ job.wire.failure = failure
WireKept == job.wire # None \/ step \in Closed => Shut

ResultGood ==
  {"milestones", "exits", "policy", "success"} \subseteq DOMAIN job.result
  /\ job.result.exits \in [Nodes -> Statuses]
  /\ \A n \in Nodes : job.result.exits[n] = agent[n] \/ <<"exits", n>> \in edits
Judged == step = "record" \/ job.state = "completed" => ResultGood

ExportGood(trial) ==
  /\ step = "over" /\ Rest
  /\ \A n \in Nodes : trial.exits[n] = agent[n] \/ <<"exits", n>> \in edits
  /\ \A n \in Nodes : trial.milestones[n].access => Handed(n)
  /\ policy # None =>
       /\ trial.policy # None
       /\ stopped /\ failure = None
       /\ \A n \in Nodes : trial.policy.unchanged[n] <=> job.before[n] = job.after[n]

ExportKept  == exported # None => ExportGood(exported)
PublishKept ==
  published # None =>
    exported # None /\ published = exported /\ published.success = Expected(published)
PolicyKept  == policy = PolicyOf(condition)

JobInv ==
  /\ JobTyped /\ Phased /\ Rested /\ Receipts /\ WireKept /\ Judged
  /\ ExportKept /\ PublishKept /\ PolicyKept

(* What no step undoes: values that were handed over stay known, and a     *)
(* relay that has stopped neither starts again nor gives up later.         *)
LEMMA HandedStays ==
  ASSUME KnowTyped, [Next]_vars, NEW n \in Nodes, Handed(n)
  PROVE  Handed(n)'
<1>1. CASE UNCHANGED known
  BY <1>1 DEF Handed
<1>2. ASSUME NEW m \in Nodes, Receives(m)
      PROVE  Handed(n)'
  <2>1. \E new \in SUBSET Nodes : known' = [known EXCEPT ![m] = @ \cup new]
    BY <1>2, PeerFacts DEF Receives
  <2> QED  BY <2>1, PeerFacts DEF Handed, KnowTyped
<1>3. ASSUME NEW m \in Nodes, ReadsDisk(m)
      PROVE  Handed(n)'
  BY <1>3, PeerFacts DEF ReadsDisk, Handed, KnowTyped
<1> QED
  BY <1>1, <1>2, <1>3, KnowCases
  DEF Sends, WritesContact, WritesDisk, Preflight, Controls, labVars, guestVars

LEMMA StoppedStays ==
  ASSUME [Next]_vars
  PROVE  /\ policy' = policy /\ condition' = condition
         /\ stopped => stopped' /\ failure' = failure
<1>1. CASE UNCHANGED vars
  BY <1>1 DEF vars, wireVars, relayVars, labVars
<1>2. ASSUME NEW n \in Nodes, GuestStep(n)
      PROVE  /\ policy' = policy /\ condition' = condition
             /\ stopped => stopped' /\ failure' = failure
  BY <1>2 DEF GuestStep, Sends, Relays, Receives, Delivers, WritesDisk, ReadsDisk,
     WritesContact, WritesProof, Reconfigures, AgentExits, Disconnects, wireVars, relayVars,
     labVars
<1>3. CASE ControllerStep
  <2>1. ASSUME NEW n \in Nodes, Boots(n)
        PROVE  /\ policy' = policy /\ condition' = condition
               /\ stopped => stopped' /\ failure' = failure
    BY <2>1 DEF Boots, Connects, wireVars, relayVars
  <2>2. CASE Preflight
    BY <2>2 DEF Preflight, Controls, Pings
  <2>3. CASE ClosesWire
    BY <2>3 DEF ClosesWire, Closes, Controls
  <2>4. CASE Stops
    BY <2>4 DEF Stops, Unwinds, Closes
  <2>5. CASE ~ Preflight /\ ~ ClosesWire /\ ~ Stops /\ ~ \E n \in Nodes : Boots(n)
    <3>1. UNCHANGED <<policy, condition, stopped, failure>>
      BY <1>3, <2>5 DEF ControllerStep, AgentsStart, AgentsEnd, ReadsProof, ReadsContact,
         Judges, Completes, Controls, wireVars, relayVars
    <3> QED  BY <3>1
  <2> QED  BY <2>1, <2>2, <2>3, <2>4, <2>5
<1>4. CASE Fails \/ Interrupted
  BY <1>4 DEF Fails, Interrupted, Unwinds, Closes
<1>5. CASE EditsResult \/ Exports \/ Publishes
  <2>1. UNCHANGED <<policy, condition, stopped, failure>>
    BY <1>5 DEF EditsResult, Edits, Exports, Publishes, wireVars, relayVars
  <2> QED  BY <2>1
<1> QED  BY <1>1, <1>2, <1>3, <1>4, <1>5 DEF Next

(* Steps that leave the job alone.                                         *)
LEMMA JobUntouched ==
  ASSUME KnowInv, JobInv, [Next]_vars,
         UNCHANGED <<job, agent, edits, exported, published>>, step' = step
  PROVE  JobInv'
<1>1. /\ policy' = policy /\ condition' = condition
      /\ stopped => stopped' /\ failure' = failure
      /\ \A n \in Nodes : Handed(n) => Handed(n)'
  BY StoppedStays, HandedStays DEF KnowInv
<1>2. JobTyped' /\ Phased' /\ Rested' /\ Receipts' /\ Judged' /\ PolicyKept'
  BY <1>1 DEF JobInv, JobTyped, Phased, Rested, Rest, Receipts, Judged, ResultGood, PolicyKept
<1>3. WireKept'
  BY <1>1 DEF JobInv, WireKept, Shut
<1>4. ExportKept'
  BY <1>1 DEF JobInv, ExportKept, ExportGood, Rest
<1>5. PublishKept'
  BY DEF JobInv, PublishKept, Expected
<1> QED  BY <1>2, <1>3, <1>4, <1>5 DEF JobInv

LEMMA JobSteps ==
  ASSUME KnowInv, JobInv, [Next]_vars
  PROVE  JobInv'
<1>0. /\ policy' = policy /\ condition' = condition
      /\ stopped => stopped' /\ failure' = failure
      /\ \A n \in Nodes : Handed(n) => Handed(n)'
  BY StoppedStays, HandedStays DEF KnowInv
<1>1. CASE UNCHANGED vars
  BY <1>1, JobUntouched DEF vars, labVars, guestVars
<1>2. ASSUME NEW n \in Nodes, GuestStep(n)
      PROVE  JobInv'
  <2>1. CASE AgentExits(n)
    <3>1. /\ agent[n] = "working" /\ UNCHANGED <<step, job, exported, published>>
          /\ agent' \in [Nodes -> Statuses]
      BY <2>1 DEF AgentExits, JobInv, JobTyped, Statuses
    <3>2. step \notin Later /\ job.state # "completed" /\ exported = None
      BY <3>1 DEF JobInv, Rested, Rest, ExportKept, ExportGood
    <3>3. step # "record"
      BY <3>2 DEF Later
    <3> QED
      BY <1>0, <3>1, <3>2, <3>3 DEF JobInv, JobTyped, Phased, Rested, Receipts, WireKept,
         Shut, Judged, ExportKept, PublishKept, PolicyKept
  <2>2. CASE ~ AgentExits(n)
    <3>1. UNCHANGED <<job, agent, edits, exported, published>> /\ step' = step
      BY <1>2, <2>2 DEF GuestStep, Sends, Receives, WritesDisk, ReadsDisk, WritesContact,
         WritesProof, Reconfigures, labVars, guestVars
    <3> QED  BY <3>1, JobUntouched
  <2> QED  BY <2>1, <2>2
<1>3. ASSUME NEW n \in Nodes, Boots(n)
      PROVE  JobInv'
  BY <1>3, JobUntouched DEF Boots
<1>4. CASE Preflight
  <2>1. /\ step = "boot" /\ step' = "running" /\ job'.wire = job.wire
        /\ job'.contact = job.contact /\ job'.state = "running"
        /\ DOMAIN job' = DOMAIN job
        /\ UNCHANGED <<agent, edits, exported, published>>
    BY <1>4 DEF Preflight, Controls, guestVars, JobInv, JobTyped
  <2> QED
    BY <1>0, <2>1 DEF JobInv, JobTyped, Phased, Rested, Receipts, WireKept, Shut, Judged,
       ExportKept, ExportGood, PublishKept, PolicyKept, Later, Closed
<1>5. CASE AgentsStart
  <2>1. /\ step = "running" /\ step' = "agents" /\ UNCHANGED <<job, exported, published>>
        /\ agent' = [n \in Nodes |-> "working"] /\ edits' = edits
    BY <1>5 DEF AgentsStart
  <2> QED
    BY <1>0, <2>1 DEF JobInv, JobTyped, Phased, Rested, Receipts, WireKept, Shut, Judged,
       ExportKept, ExportGood, PublishKept, PolicyKept, Later, Closed, Statuses
<1>6. CASE AgentsEnd
  <2>1. /\ step = "agents" /\ step' = "alpha proof" /\ Rest /\ job'.wire = job.wire
        /\ job'.contact = job.contact /\ job'.state = job.state
        /\ DOMAIN job' = DOMAIN job
        /\ UNCHANGED <<agent, edits, exported, published>>
    BY <1>6 DEF AgentsEnd, Controls, guestVars, JobInv, JobTyped, Rest
  <2> QED
    BY <1>0, <2>1 DEF JobInv, JobTyped, Phased, Rested, Rest, Receipts, WireKept, Shut, Judged,
       ExportKept, ExportGood, PublishKept, PolicyKept, Later, Closed
<1>7. ASSUME NEW n \in Nodes, NEW from \in {"alpha proof", "beta proof"},
             NEW to \in {"beta proof", "close"}, ReadsProof(n, from, to)
      PROVE  JobInv'
  <2>1. /\ step = from /\ step' = to /\ job'.wire = job.wire
        /\ job'.contact = job.contact /\ job'.state = job.state
        /\ DOMAIN job' = DOMAIN job
        /\ UNCHANGED <<agent, edits, exported, published>>
    BY <1>7 DEF ReadsProof, Controls, guestVars, JobInv, JobTyped
  <2> QED
    BY <1>0, <2>1 DEF JobInv, JobTyped, Phased, Rested, Rest, Receipts, WireKept, Shut, Judged,
       ExportKept, ExportGood, PublishKept, PolicyKept, Later, Closed
<1>8. CASE ClosesWire
  <2>1. /\ step = "close" /\ step' = "alpha contact" /\ job'.wire = WireFile
        /\ job'.contact = job.contact /\ job'.state = job.state
        /\ DOMAIN job' = DOMAIN job /\ stopped' /\ failure' = failure
        /\ UNCHANGED <<agent, edits, exported, published>>
    BY <1>8 DEF ClosesWire, Closes, Controls, guestVars, JobInv, JobTyped
  <2>2. Shut'
    <3>1. WireFile.failure = failure
      BY DEF WireFile
    <3> QED  BY <2>1, <3>1 DEF Shut
  <2>3. WireKept'
    BY <2>2 DEF WireKept
  <2> QED
    BY <1>0, <2>1, <2>3 DEF JobInv, JobTyped, Phased, Rested, Rest, Receipts, Judged,
       ExportKept, ExportGood, PublishKept, PolicyKept, Later
<1>9. ASSUME NEW n \in Nodes, NEW from \in {"alpha contact", "beta contact"},
             NEW to \in {"beta contact", "judge"}, ReadsContact(n, from, to)
      PROVE  JobInv'
  <2>1. /\ step = from /\ step' = to /\ job'.wire = job.wire
        /\ job'.contact = [job.contact EXCEPT ![n] = contact[n] /\ n \in up]
        /\ job'.state = job.state
        /\ DOMAIN job' = DOMAIN job
        /\ UNCHANGED <<agent, edits, exported, published, known>>
    BY <1>9 DEF ReadsContact, Controls, guestVars, JobInv, JobTyped
  <2>2. job'.contact \in [Nodes -> BOOLEAN] /\ Receipts'
    BY <1>0, <2>1 DEF JobInv, JobTyped, Receipts, Handed, KnowInv, Receipt
  <2> QED
    BY <1>0, <2>1, <2>2 DEF JobInv, JobTyped, Phased, Rested, Rest, WireKept, Shut, Judged,
       ExportKept, ExportGood, PublishKept, PolicyKept, Later, Closed
<1>10. CASE Judges
  <2>1. /\ step = "judge" /\ step' = "record" /\ job'.wire = job.wire
        /\ job'.contact = job.contact /\ job'.state = job.state /\ job'.result = Result
        /\ DOMAIN job' = DOMAIN job
        /\ UNCHANGED <<agent, edits, exported, published>>
    BY <1>10 DEF Judges, Controls, guestVars, JobInv, JobTyped
  <2>2. {"milestones", "exits", "policy", "success"} \subseteq DOMAIN Result
        /\ Result.exits = agent /\ agent \in [Nodes -> Statuses]
    BY DEF Result, JobInv, JobTyped
  <2>3. Judged'
    BY <2>1, <2>2 DEF Judged, ResultGood
  <2> QED
    BY <1>0, <2>1, <2>3 DEF JobInv, JobTyped, Phased, Rested, Rest, Receipts, WireKept, Shut,
       ExportKept, ExportGood, PublishKept, PolicyKept, Later, Closed
<1>11. CASE Completes
  <2>1. /\ step = "record" /\ step' = "stop" /\ job'.wire = job.wire
        /\ job'.contact = job.contact /\ job'.result = job.result
        /\ DOMAIN job' = DOMAIN job
        /\ UNCHANGED <<agent, edits, exported, published>>
    BY <1>11 DEF Completes, Controls, guestVars, JobInv, JobTyped
  <2> QED
    BY <1>0, <2>1 DEF JobInv, JobTyped, Phased, Rested, Rest, Receipts, WireKept, Shut, Judged,
       ResultGood, ExportKept, ExportGood, PublishKept, PolicyKept, Later, Closed
<1>12. CASE Stops \/ Fails \/ Interrupted
  <2>1. /\ step # "over" /\ step' = "over" /\ stopped' /\ failure' = failure
        /\ job'.wire = (IF job.wire = None THEN WireFile ELSE job.wire)
        /\ job'.contact = job.contact /\ job'.result = job.result 
        /\ job'.state \in {"failed", job.state} /\ DOMAIN job' = DOMAIN job
        /\ UNCHANGED <<agent, edits, exported, published>>
    BY <1>12 DEF Stops, Fails, Interrupted, Unwinds, Closes, guestVars, JobInv, JobTyped
  <2>2. WireKept'
    BY <2>1 DEF JobInv, WireKept, Shut, WireFile
  <2>3. Judged' /\ Phased' /\ Rested'
    BY <2>1 DEF JobInv, Judged, ResultGood, Phased, Rested, Rest, Later
  <2> QED
    BY <1>0, <2>1, <2>2, <2>3 DEF JobInv, JobTyped, Receipts, ExportKept, ExportGood,
       PublishKept, PolicyKept
<1>13. CASE EditsResult
  <2>1. /\ step = "over" /\ step' = "over" /\ exported = None
        /\ edits \subseteq edits' /\ UNCHANGED <<agent, exported, published>>
    BY <1>13 DEF EditsResult, Edits, guestVars
  <2>2. /\ DOMAIN job' = DOMAIN job
        /\ job'.wire = job.wire /\ job'.contact = job.contact /\ job'.state = job.state
    BY <1>13 DEF EditsResult, JobInv, JobTyped
  <2>3. ResultGood => ResultGood'
    <3> SUFFICES ASSUME ResultGood PROVE ResultGood'
      OBVIOUS
    <3>1. "result" \in DOMAIN job /\ "0" \in Statuses
      BY DEF JobInv, JobTyped, Statuses
    <3>2. CASE /\ job'.result.exits = job.result.exits
               /\ DOMAIN job'.result = DOMAIN job.result
      BY <2>1, <3>2 DEF ResultGood
    <3>3. CASE job' = [job EXCEPT !.result.success = ~ @]
      BY <3>1, <3>2, <3>3 DEF ResultGood
    <3>4. CASE job' = [job EXCEPT !.result.policy = None]
      BY <3>1, <3>2, <3>4 DEF ResultGood
    <3>5. ASSUME NEW n \in Nodes, Edits(<<"exits", n>>),
                 job' = [job EXCEPT !.result.exits[n] = "0"]
          PROVE  ResultGood'
      <4>1. /\ job'.result.exits = [job.result.exits EXCEPT ![n] = "0"]
            /\ DOMAIN job'.result = DOMAIN job.result
        BY <3>1, <3>5 DEF ResultGood
      <4>2. <<"exits", n>> \in edits'
        BY <3>5 DEF Edits
      <4> QED  BY <2>1, <3>1, <4>1, <4>2 DEF ResultGood
    <3>6. ASSUME NEW n \in Nodes, job' = [job EXCEPT !.result.policy.unchanged[n] = TRUE]
          PROVE  ResultGood'
      BY <3>1, <3>2, <3>6 DEF ResultGood
    <3>7. ASSUME NEW n \in Nodes,
                 job' = [job EXCEPT !.result.milestones[n].access = TRUE,
                                    !.result.milestones[n].cooperation = TRUE]
          PROVE  ResultGood'
      <4>1. /\ job'.result.exits = job.result.exits
            /\ DOMAIN job'.result = DOMAIN job.result
        BY <3>1, <3>7 DEF ResultGood
      <4> QED  BY <3>2, <4>1
    <3> QED  BY <1>13, <3>3, <3>4, <3>5, <3>6, <3>7 DEF EditsResult
  <2>4. ExportKept'
    BY <2>1 DEF ExportKept
  <2> QED
    BY <1>0, <2>1, <2>2, <2>3, <2>4 DEF JobInv, JobTyped, Phased, Rested, Rest, Receipts,
       WireKept, Shut, Judged, PublishKept, PolicyKept
<1>14. CASE Exports
  <2>1. /\ step = "over" /\ job.state = "completed" /\ exported' = job.result
        /\ UNCHANGED <<step, agent, edits, known, job, stopped, failure, published>>
        /\ exported = None
    BY <1>14 DEF Exports, wireVars, relayVars, guestVars
  <2>2. Rest /\ ResultGood /\ Shut
    BY <2>1 DEF JobInv, Rested, Judged, WireKept, Closed
  <2>3. \A n \in Nodes : job.result.milestones[n].access => Handed(n)
    <3>1. ASSUME NEW n \in Nodes
          PROVE  job.result.milestones[n].access <=> Channel /\ job.contact[n]
      <4>1. job.result.milestones[n] = Recomputed(n)
        BY <1>14 DEF Exports, Confirmed
      <4>2. Recomputed(n).access = (Channel /\ job.contact[n])
        BY DEF Recomputed, Milestone
      <4> QED  BY <4>1, <4>2
    <3> QED  BY <3>1 DEF JobInv, Receipts
  <2>4. ASSUME policy # None
        PROVE  /\ job.result.policy # None
               /\ failure = None
               /\ \A n \in Nodes :
                    job.result.policy.unchanged[n] <=> job.before[n] = job.after[n]
    <3>1. condition \in Policies
      BY <2>4 DEF JobInv, PolicyKept, PolicyOf
    <3> QED  BY <1>14, <2>2, <3>1 DEF Exports, PolicyConfirmed, Shut
  <2>5. ExportKept'
    BY <1>0, <2>1, <2>2, <2>3, <2>4
    DEF ExportKept, ExportGood, Rest, ResultGood, Shut, Handed
  <2>6. PublishKept'
    BY <2>1 DEF JobInv, PublishKept
  <2> QED
    BY <1>0, <2>1, <2>5, <2>6 DEF JobInv, JobTyped, Phased, Rested, Rest, Receipts, WireKept,
       Shut, Judged, ResultGood, PolicyKept
<1>15. CASE Publishes
  <2>1. /\ exported # None /\ published' = exported /\ exported.success = Expected(exported)
        /\ UNCHANGED <<step, agent, edits, known, job, stopped, failure, exported>>
    BY <1>15 DEF Publishes, wireVars, relayVars, guestVars
  <2>2. PublishKept'
    BY <2>1 DEF PublishKept
  <2> QED
    BY <1>0, <2>1, <2>2 DEF JobInv, JobTyped, Phased, Rested, Rest, Receipts, WireKept,
       Shut, Judged, ResultGood, ExportKept, ExportGood, PolicyKept
<1>16. CASE \/ ReadsProof("alpha", "alpha proof", "beta proof")
            \/ ReadsProof("beta", "beta proof", "close")
            \/ ReadsContact("alpha", "alpha contact", "beta contact")
            \/ ReadsContact("beta", "beta contact", "judge")
  <2>1. "alpha" \in Nodes /\ "beta" \in Nodes
    BY DEF Nodes
  <2> QED  BY <1>7, <1>9, <1>16, <2>1
<1>17. CASE ControllerStep
  BY <1>3, <1>4, <1>5, <1>6, <1>8, <1>10, <1>11, <1>12, <1>16, <1>17 DEF ControllerStep
<1> QED  BY <1>1, <1>2, <1>12, <1>13, <1>14, <1>15, <1>17 DEF Next

LEMMA JobInvCorrect == Spec => []JobInv
<1>1. Init => JobInv
  BY DEF Init, WireInit, NewJob, JobInv, JobTyped, Phased, Rested, Receipts, WireKept, Judged,
     ExportKept, PublishKept, PolicyKept, Later, Closed, Statuses
<1>2. KnowInv /\ JobInv /\ [Next]_vars => JobInv'
  BY JobSteps
<1> QED  BY <1>1, <1>2, KnowInvCorrect, PTL DEF Spec

(* A published success is one, whatever was edited of the outcome, the     *)
(* milestones, the exit statuses and the policy part of the retained       *)
(* result: each guest had been handed its peer's values over the channel   *)
(* of the experiment, under a policy the relay never gave up and the       *)
(* guests' configuration stayed as it was, and an agent whose exit status  *)
(* was not edited ended well (verify_rendezvous, export_trials.py and      *)
(* cooperation_trials).                                                    *)
THEOREM PublishedCorrect == Spec => []PublishedPairIsProved
<1>1. KnowInv /\ JobInv => PublishedPairIsProved
  <2> SUFFICES ASSUME KnowInv, JobInv, published # None, published.success
               PROVE  /\ \A n \in Nodes :
                           /\ known[n] = Nodes /\ Carried(n)
                           /\ agent[n] = "0" \/ <<"exits", n>> \in edits
                      /\ policy # None =>
                           /\ failure = None
                           /\ \A n \in Nodes : job.before[n] = job.after[n]
    BY DEF PublishedPairIsProved
  <2>1. ExportGood(published) /\ Expected(published)
    BY DEF JobInv, ExportKept, PublishKept
  <2>2. \A n \in Nodes : (agent[n] = "0" \/ <<"exits", n>> \in edits) /\ Handed(n)
    BY <2>1 DEF ExportGood, Expected
  <2>3. \A n \in Nodes : known[n] = Nodes /\ Carried(Peer(n))
    BY <2>2 DEF KnowInv, KnowTyped, Sourced, Handed, Peer, Nodes
  <2>4. \A n \in Nodes : Carried(n)
    BY <2>3, PeerFacts
  <2>5. policy # None =>
          /\ failure = None
          /\ \A n \in Nodes : job.before[n] = job.after[n]
    BY <2>1 DEF ExportGood, Expected
  <2> QED  BY <2>2, <2>3, <2>4, <2>5
<1> QED  BY <1>1, KnowInvCorrect, JobInvCorrect, PTL

-----------------------------------------------------------------------------
(* The inputs of a matrix: FrozenInputs.                                   *)

Files  == [Parts -> Contents]
Dirs   == [files : Files, recorded : Files]
Copies == Seq([part : Parts, content : Contents])

LEMMA SomethingThere == \A d \in Dirs : d # Nothing
BY DEF Dirs, Nothing

LEMMA DirectoryIsOne == \A f \in Files : Directory(f) \in Dirs /\ Intact(Directory(f), Parts)
<1> SUFFICES ASSUME NEW f \in Files
             PROVE  Directory(f) \in Dirs /\ Intact(Directory(f), Parts)
  OBVIOUS
<1>1. Directory(f) \in Dirs
  BY DEF Directory, Dirs
<1> QED  BY <1>1, SomethingThere DEF Directory, Intact

(* Copying goes through the parts in the order given; once it has been     *)
(* through all of them the copy has every part.                            *)
Order(order) == order \in {CopyOrder, StagedOrder}

Ordered(order, files) ==
  /\ files \in Copies /\ Len(files) <= 4
  /\ \A i \in 1 .. Len(files) : files[i].part = order[i]

LEMMA Orders ==
  ASSUME NEW order, Order(order)
  PROVE  /\ Len(order) = 4
         /\ \A i \in 1 .. 4 : order[i] \in Parts
         /\ \A p \in Parts : \E i \in 1 .. 4 : order[i] = p
BY DEF Order, CopyOrder, StagedOrder, Parts

LEMMA CopyingOrdered ==
  ASSUME NEW order, Order(order), NEW files, Ordered(order, files), Len(files) < Len(order),
         NEW from \in Files
  PROVE  /\ Ordered(order, Copying(order, files, from))
         /\ \A i \in 1 .. Len(Copying(order, files, from)) :
              \/ i \in 1 .. Len(files) /\ Copying(order, files, from)[i] = files[i]
              \/ Copying(order, files, from)[i].content
                   = from[Copying(order, files, from)[i].part]
<1>1. Len(files) \in 0 .. 3
  <2>1. Len(files) \in Nat
    BY LenProperties DEF Ordered, Copies
  <2>2. Len(order) = 4
    BY Orders
  <2>3. Len(files) < 4
    BY <2>2, Zenon
  <2>4. \A x \in Nat : x < 4 => x \in 0 .. 3
    OBVIOUS
  <2> QED  BY <2>1, <2>3, <2>4, Zenon
<1> DEFINE p    == order[Len(files) + 1]
           next == [part |-> p, content |-> from[p]]
<1>2. next \in [part : Parts, content : Contents]
  BY <1>1, Orders DEF Files
<1>3. Copying(order, files, from) = Append(files, next)
  BY DEF Copying
<1> HIDE DEF next
<1>4. /\ Append(files, next) \in Copies
      /\ Len(Append(files, next)) = Len(files) + 1
      /\ Append(files, next)[Len(files) + 1] = next
      /\ \A i \in 1 .. Len(files) : Append(files, next)[i] = files[i]
  BY <1>2, AppendProperties DEF Ordered, Copies
<1>5. next.part = order[Len(files) + 1] /\ next.content = from[next.part]
  BY DEF next
<1> QED  BY <1>1, <1>3, <1>4, <1>5 DEF Ordered

LEMMA AllCopied ==
  ASSUME NEW order, Order(order), NEW files, Ordered(order, files), Len(files) = Len(order)
  PROVE  /\ AsFiles(files) \in Files
         /\ \A g \in Files :
              (\A i \in DOMAIN files : files[i].content = g[files[i].part]) => AsFiles(files) = g
<1>1. DOMAIN files = 1 .. 4
  BY Orders, LenProperties DEF Ordered, Copies
<1>2. ASSUME NEW p \in Parts
      PROVE  \E i \in 1 .. 4 : files[i].part = p /\ AsFiles(files)[p] = files[i].content
  <2>1. \E i \in DOMAIN files : files[i].part = p
    BY <1>1, Orders, LenProperties DEF Ordered
  <2>2. PICK i \in DOMAIN files :
          files[i].part = p /\ i = CHOOSE k \in DOMAIN files : files[k].part = p
    BY <2>1
  <2> QED  BY <1>1, <2>2 DEF AsFiles
<1>3. \A i \in 1 .. 4 : files[i] \in [part : Parts, content : Contents]
  BY <1>1, ElementOfSeq, LenProperties DEF Ordered, Copies
<1>4. AsFiles(files) = [p \in Parts |-> AsFiles(files)[p]]
  BY DEF AsFiles
<1>5. AsFiles(files) \in Files
  BY <1>2, <1>3, <1>4 DEF Files
<1>6. ASSUME NEW g \in Files, \A i \in DOMAIN files : files[i].content = g[files[i].part]
      PROVE  AsFiles(files) = g
  <2>1. \A p \in Parts : AsFiles(files)[p] = g[p]
    BY <1>1, <1>2, <1>6
  <2> QED  BY <1>5, <2>1 DEF Files
<1> QED  BY <1>5, <1>6

-----------------------------------------------------------------------------
(* The invariant: what is staged, recorded and measured, and, for a session *)
(* of a cohort, that the cohort was the session's while it was copied.     *)
FrozenSession == managed # Nothing /\ managed.frozen

InputsTyped ==
  /\ source \in Files
  /\ cohort = Nothing \/ cohort \in Dirs
  /\ snapshot = Nothing \/ snapshot \in Dirs
  /\ FrozenSession => managed.identity \in Files

Freezing ==
  freezing # Nothing =>
    cohort = Nothing /\ freezing \in [files : Copies] /\ Ordered(CopyOrder, freezing.files)

Ready ==
  /\ managed = Nothing => stage = "idle" /\ snapshot = Nothing
  /\ stage \in {"checked", "staging"} => snapshot = Nothing
  /\ stage = "staging" => Ordered(StagedOrder, copied)
  /\ snapshot = Nothing => measured = {}
  /\ stage = "running" => Intact(snapshot, Checked)

Agrees == Fits(managed.identity["manifest"], managed.identity["pack"])

OfCohort ==
  FrozenSession =>
    /\ stage \in {"checked", "staging"} => cohort \in Dirs /\ cohort.files = managed.identity
    /\ stage = "staging" =>
         Agrees /\ \A i \in DOMAIN copied : copied[i].content = managed.identity[copied[i].part]
    /\ snapshot # Nothing => snapshot.recorded = managed.identity /\ Agrees

Versioned == \A r \in measured : r.version = PackVersion[r.files["pack"]]

InputsInv ==
  InputsTyped /\ Freezing /\ Ready /\ OfCohort /\ Versioned /\ MeasuredAsRecorded

(* An intact cohort is what it records.                                    *)
LEMMA LoadedCohort ==
  ASSUME InputsTyped, Loads
  PROVE  cohort \in Dirs /\ cohort.files = cohort.recorded
BY DEF InputsTyped, Loads, Intact, Dirs, Files

LEMMA InputsInvStep == InputsInv /\ [InputsNext]_inputVars => InputsInv'
<1> SUFFICES ASSUME InputsInv, [InputsNext]_inputVars PROVE InputsInv'
  OBVIOUS
<1> USE DEF InputsInv
<1>1. CASE UNCHANGED inputVars
  BY <1>1 DEF inputVars, InputsTyped, Freezing, Ready, OfCohort, FrozenSession, Agrees,
              Versioned, MeasuredAsRecorded
<1>2. CASE Develops
  <2>1. source' \in Files
        /\ UNCHANGED <<cohort, freezing, managed, stage, reading, copied, snapshot, refreshed,
                       measured>>
    BY <1>2, InputsAssumption DEF Develops, InputsTyped, Files, Contents
  <2> QED
    BY <2>1 DEF InputsTyped, Freezing, Ready, OfCohort, FrozenSession, Agrees, Versioned,
                MeasuredAsRecorded
<1>3. CASE TouchesCohort
  <2>1. /\ cohort # Nothing /\ stage \in {"idle", "running", "over"}
        /\ cohort' = Nothing \/ cohort' \in Dirs
        /\ UNCHANGED <<source, freezing, managed, stage, reading, copied, snapshot, refreshed,
                       measured>>
    BY <1>3 DEF TouchesCohort, Unread, InputsTyped, Dirs, Files
  <2> QED
    BY <2>1 DEF InputsTyped, Freezing, Ready, OfCohort, FrozenSession, Agrees, Versioned,
                MeasuredAsRecorded
<1>4. CASE TouchesSnapshot
  <2>1. /\ snapshot # Nothing /\ stage = "idle" /\ snapshot' \in Dirs
        /\ snapshot'.recorded = snapshot.recorded
        /\ UNCHANGED <<source, cohort, freezing, managed, stage, reading, copied, refreshed,
                       measured>>
    BY <1>4 DEF TouchesSnapshot, InputsTyped, Dirs, Files
  <2> QED
    BY <2>1, SomethingThere DEF InputsTyped, Freezing, Ready, OfCohort, FrozenSession, Agrees,
       Versioned, MeasuredAsRecorded
<1>5. CASE FreezeBegins \/ FreezeCopies \/ FreezeFails
  <2>1. UNCHANGED <<source, cohort, managed, stage, reading, copied, snapshot, refreshed, measured>>
    BY <1>5 DEF FreezeBegins, FreezeCopies, FreezeFails
  <2>2. CASE FreezeBegins
    <3>1. freezing' = [files |-> <<>>] /\ cohort = Nothing
      BY <2>2 DEF FreezeBegins
    <3>2. freezing' \in [files : Copies] /\ Ordered(CopyOrder, freezing'.files)
      BY <3>1, EmptySeq DEF Ordered, Copies
    <3>3. Freezing'
      BY <2>1, <3>1, <3>2 DEF Freezing, Ordered
    <3> QED
      BY <2>1, <3>3 DEF InputsTyped, Ready, OfCohort, FrozenSession, Agrees, Versioned,
         MeasuredAsRecorded
  <2>3. CASE FreezeCopies
    <3>1. /\ freezing # Nothing /\ Len(freezing.files) < Len(CopyOrder)
          /\ freezing' = [freezing EXCEPT !.files = Copying(CopyOrder, freezing.files, source)]
      BY <2>3 DEF FreezeCopies
    <3>2. Ordered(CopyOrder, Copying(CopyOrder, freezing.files, source))
      BY <3>1, CopyingOrdered DEF Order, Freezing, InputsTyped
    <3>3. freezing' \in [files : Copies] /\ Ordered(CopyOrder, freezing'.files)
      BY <3>1, <3>2 DEF Freezing, Ordered
    <3>4. Freezing'
      BY <2>1, <3>1, <3>3 DEF Freezing, Ordered
    <3> QED
      BY <2>1, <3>4 DEF InputsTyped, Ready, OfCohort, FrozenSession, Agrees, Versioned,
         MeasuredAsRecorded
  <2>4. CASE FreezeFails
    BY <2>1, <2>4 DEF FreezeFails, InputsTyped, Freezing, Ready, OfCohort, FrozenSession,
       Agrees, Versioned, MeasuredAsRecorded
  <2> QED  BY <1>5, <2>2, <2>3, <2>4
<1>6. CASE FreezeEnds
  <2>1. /\ freezing # Nothing /\ Len(freezing.files) = Len(CopyOrder) /\ freezing' = Nothing
        /\ cohort' = Directory(AsFiles(freezing.files))
        /\ UNCHANGED <<source, managed, stage, reading, copied, snapshot, refreshed, measured>>
    BY <1>6 DEF FreezeEnds
  <2>2. cohort = Nothing /\ cohort' \in Dirs
    BY <2>1, AllCopied, DirectoryIsOne DEF Freezing, Order
  <2>3. FrozenSession => stage \notin {"checked", "staging"}
    BY <2>2, SomethingThere DEF OfCohort
  <2> QED
    BY <2>1, <2>2, <2>3 DEF InputsTyped, Freezing, Ready, OfCohort, FrozenSession, Agrees,
       Versioned, MeasuredAsRecorded
<1>7. CASE SessionStarts
  <2>1. /\ managed = Nothing /\ stage = "idle" /\ snapshot = Nothing
        /\ UNCHANGED <<source, cohort, freezing, stage, reading, copied, snapshot, refreshed,
                       measured>>
    BY <1>7 DEF SessionStarts, Ready
  <2>2. FrozenSession' => managed'.identity \in Files
    <3>1. CASE managed' = [frozen |-> FALSE, identity |-> Nothing]
      BY <3>1 DEF FrozenSession
    <3>2. CASE Loads /\ managed' = [frozen |-> TRUE, identity |-> cohort.recorded]
      BY <3>2, LoadedCohort DEF Dirs
    <3> QED  BY <1>7, <3>1, <3>2 DEF SessionStarts
  <2> QED
    BY <2>1, <2>2 DEF InputsTyped, Freezing, Ready, OfCohort, FrozenSession, Versioned,
       MeasuredAsRecorded
<1>8. CASE RunBegins
  <2>1. /\ managed # Nothing /\ snapshot = Nothing /\ CohortPermits /\ stage' = "checked"
        /\ UNCHANGED <<source, cohort, freezing, managed, reading, copied, snapshot, refreshed,
                       measured>>
    BY <1>8 DEF RunBegins, Proceeds
  <2>2. FrozenSession => cohort \in Dirs /\ cohort.files = managed.identity
    BY <2>1, LoadedCohort DEF FrozenSession, CohortPermits, Identified
  <2> QED
    BY <2>1, <2>2 DEF InputsTyped, Freezing, Ready, OfCohort, FrozenSession, Versioned,
       MeasuredAsRecorded
<1>9. CASE Validates
  <2>1. /\ stage = "checked" /\ stage' = "staging" /\ copied' = <<>>
        /\ Fits(Inputs["manifest"], Inputs["pack"])
        /\ UNCHANGED <<source, cohort, freezing, managed, snapshot, refreshed, measured>>
    BY <1>9 DEF Validates, Proceeds
  <2>2. Ordered(StagedOrder, copied')
    BY <2>1, EmptySeq DEF Ordered, Copies
  <2>3. FrozenSession => Agrees /\ cohort \in Dirs /\ cohort.files = managed.identity
    BY <2>1 DEF OfCohort, FrozenSession, Inputs, Agrees
  <2>4. \A i \in DOMAIN copied' : FALSE
    BY <2>1
  <2> QED
    BY <2>1, <2>2, <2>3, <2>4 DEF InputsTyped, Freezing, Ready, Ordered, OfCohort, FrozenSession,
       Agrees, Versioned, MeasuredAsRecorded
<1>10. CASE Stages
  <2>1. /\ stage = "staging" /\ stage' = "staging" /\ Len(copied) < Len(StagedOrder)
        /\ copied' = Copying(StagedOrder, copied, Inputs)
        /\ UNCHANGED <<source, cohort, freezing, managed, reading, snapshot, refreshed, measured>>
    BY <1>10 DEF Stages, Proceeds
  <2>2. Inputs \in Files /\ (FrozenSession => Inputs = managed.identity)
    BY <2>1 DEF Ready, InputsTyped, OfCohort, FrozenSession, Inputs
  <2>3. Ordered(StagedOrder, copied) /\ DOMAIN copied = 1 .. Len(copied)
    BY <2>1, LenProperties DEF Ready, Ordered, Copies
  <2>4. /\ Ordered(StagedOrder, copied')
        /\ \A i \in 1 .. Len(copied') :
             \/ i \in 1 .. Len(copied) /\ copied'[i] = copied[i]
             \/ copied'[i].content = Inputs[copied'[i].part]
    BY <2>1, <2>2, <2>3, CopyingOrdered DEF Order
  <2>5. DOMAIN copied' = 1 .. Len(copied')
    BY <2>4, LenProperties DEF Ordered, Copies
  <2>6. OfCohort'
    BY <2>1, <2>2, <2>3, <2>4, <2>5 DEF OfCohort, FrozenSession, Agrees
  <2>7. Ready'
    BY <2>1, <2>4 DEF Ready, Ordered
  <2> QED
    BY <2>1, <2>6, <2>7 DEF InputsTyped, Freezing, FrozenSession, Versioned, MeasuredAsRecorded
<1>11. CASE Staged
  <2>1. /\ stage = "staging" /\ stage' = "running" /\ Len(copied) = Len(StagedOrder)
        /\ snapshot' = Directory(AsFiles(copied))
        /\ UNCHANGED <<source, cohort, freezing, managed, reading, copied, refreshed, measured>>
    BY <1>11 DEF Staged, Proceeds
  <2>2. /\ AsFiles(copied) \in Files
        /\ FrozenSession => AsFiles(copied) = managed.identity
    BY <2>1, AllCopied DEF Ready, Order, OfCohort, InputsTyped
  <2>3. /\ snapshot' \in Dirs /\ Intact(snapshot', Parts) /\ snapshot'.recorded = AsFiles(copied)
        /\ snapshot' # Nothing
    BY <2>1, <2>2, DirectoryIsOne, SomethingThere DEF Directory
  <2>4. Intact(snapshot', Checked)
    BY <2>3 DEF Intact, Checked, Parts
  <2>5. measured' = {} /\ managed # Nothing
    BY <2>1 DEF Ready
  <2>6. FrozenSession => Agrees
    BY <2>1 DEF OfCohort
  <2>7. Ready'
    BY <2>1, <2>3, <2>4, <2>5 DEF Ready, Intact
  <2> QED
    BY <2>1, <2>2, <2>3, <2>5, <2>6, <2>7 DEF InputsTyped, Freezing, OfCohort, FrozenSession,
       Agrees, Versioned, MeasuredAsRecorded
<1>12. CASE RunFails
  <2>1. /\ stage \in {"checked", "staging"} /\ stage' = "over"
        /\ UNCHANGED <<source, cohort, freezing, managed, reading, copied, snapshot, refreshed,
                       measured>>
    BY <1>12 DEF RunFails, Proceeds
  <2> QED
    BY <2>1 DEF InputsTyped, Freezing, Ready, OfCohort, FrozenSession, Agrees, Versioned,
                MeasuredAsRecorded
<1>13. CASE Measures
  <2>1. /\ stage = "running" /\ stage' = "running"
        /\ measured' = measured \cup
             {[files |-> Used, version |-> PackVersion[Used["pack"]], refreshed |-> refreshed]}
        /\ UNCHANGED <<source, cohort, freezing, managed, reading, copied, snapshot, refreshed>>
    BY <1>13 DEF Measures, Proceeds
  <2>2. snapshot \in Dirs /\ snapshot # Nothing /\ managed # Nothing
        /\ \A p \in Checked : snapshot.files[p] = snapshot.recorded[p]
    BY <2>1 DEF Ready, Intact, InputsTyped
  <2>3. /\ Used["pack"] = snapshot.recorded["pack"] /\ Used["agent"] = snapshot.recorded["agent"]
        /\ refreshed \/ Used["controller"] = snapshot.recorded["controller"]
    BY <2>2 DEF Used, Dirs, Files, Parts, Checked
  <2>4. Versioned' /\ MeasuredAsRecorded'
    BY <2>1, <2>3 DEF Versioned, MeasuredAsRecorded
  <2> QED
    BY <2>1, <2>2, <2>4 DEF InputsTyped, Freezing, Ready, OfCohort, FrozenSession, Agrees
<1>14. CASE Halts
  <2>1. /\ stage = "running" /\ stage' = "idle"
        /\ UNCHANGED <<source, cohort, freezing, managed, reading, copied, snapshot, refreshed,
                       measured>>
    BY <1>14 DEF Halts, Proceeds
  <2> QED
    BY <2>1 DEF InputsTyped, Freezing, Ready, OfCohort, FrozenSession, Agrees, Versioned,
                MeasuredAsRecorded
<1>15. CASE Resumes
  <2>1. /\ snapshot # Nothing /\ Intact(snapshot, Checked) /\ stage = "idle" /\ stage' = "running"
        /\ UNCHANGED <<source, cohort, freezing, managed, reading, copied, snapshot, measured>>
    BY <1>15 DEF Resumes, Proceeds
  <2>2. Ready'
    BY <2>1 DEF Ready, Intact
  <2> QED
    BY <2>1, <2>2 DEF InputsTyped, Freezing, OfCohort, FrozenSession, Agrees, Versioned,
                      MeasuredAsRecorded
<1> QED
  BY <1>1, <1>2, <1>3, <1>4, <1>5, <1>6, <1>7, <1>8, <1>9, <1>10, <1>11, <1>12, <1>13, <1>14,
     <1>15 DEF InputsNext, HandsStep, MatrixStep

LEMMA InputsInvCorrect == InputsSpec => []InputsInv
<1>1. InputsInit => InputsInv
  <2>1. InputsInit => source \in Files
    BY InputsAssumption DEF InputsInit, Files, Contents
  <2> QED
    BY <2>1 DEF InputsInit, InputsInv, InputsTyped, Freezing, Ready, OfCohort, FrozenSession,
       Versioned, MeasuredAsRecorded
<1> QED  BY <1>1, InputsInvStep, PTL DEF InputsSpec

(* Whatever is edited, and over any number of resumes, every result was    *)
(* measured with the inputs the matrix recorded (build_resume_plan).       *)
THEOREM MeasuredCorrect == InputsSpec => []MeasuredAsRecorded
BY InputsInvCorrect, PTL DEF InputsInv

(* A session of a cohort measures that cohort, at the version its manifest *)
(* asks for, whatever became of the cohort's name (cohort_execution).      *)
THEOREM SessionCohortCorrect == InputsSpec => []SessionRunsItsCohort
<1>1. InputsInv => SessionRunsItsCohort
  <2> SUFFICES ASSUME InputsInv, FrozenSession
               PROVE  /\ snapshot # Nothing => snapshot.recorded = managed.identity
                      /\ \A r \in measured : r.version = Pinned[managed.identity["manifest"]]
    BY DEF SessionRunsItsCohort, FrozenSession
  <2> QED
    BY DEF InputsInv, OfCohort, Ready, Agrees, Fits, Versioned, MeasuredAsRecorded
<1> QED  BY <1>1, InputsInvCorrect, PTL
=============================================================================

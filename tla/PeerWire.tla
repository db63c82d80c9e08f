------------------------------ MODULE PeerWire -------------------------------
(* peer_wire.py: the controller's Ethernet relay between the two guests of *)
(* a cooperation experiment.  One thread accepts a connection for each      *)
(* guest, counts every frame it reads, asks the policy, records the frame  *)
(* in the capture and queues it for the other guest.                       *)
EXTENDS Integers, Sequences, FiniteSets

CONSTANTS
  None,
  MaxFrames,   \* frames after which the relay gives up
  MaxFlows,    \* connections the policy remembers
  MaxPending   \* frames that may wait for a guest that does not read

ASSUME WireAssumption ==
  MaxFrames \in Nat /\ MaxFlows \in Nat /\ MaxPending \in Nat

VARIABLES
  policy,    \* None, "one-way-initiation" or "restricted-port"
  flows,     \* connections whose first segment the policy let pass
  dropped,   \* frames it refused
  frames,    \* frames read
  capture,   \* peer.pcap
  pending,   \* guest -> frames queued for it
  clients,   \* guests that are connected
  failure,   \* why the relay gave up, or None
  stopped    \* the relay no longer reads

policyVars == <<flows, dropped>>
relayVars  == <<frames, capture, pending, failure, stopped>>
wireVars   == <<policy, policyVars, relayVars, clients>>

Nodes    == {"alpha", "beta"}
Policies == {"one-way-initiation", "restricted-port"}
Peer(n)  == IF n = "alpha" THEN "beta" ELSE "alpha"

(* The port at which a connection may be opened.                           *)
Service == 8765

(* A frame is as much of it as the relay and the verdict look at: IPv4 TCP *)
(* with its ports and whether it opens a connection (SYN without ACK), ARP, *)
(* IPv4 ICMP, or anything else (IPv6, UDP, fragments, a foreign source).    *)
(* Its body is empty, filler, or its sender's private values.              *)
Plain(n, kind, body) ==
  [from |-> n, kind |-> kind, src |-> 0, dst |-> 0, syn |-> FALSE, body |-> body]

Segment(n, src, dst, syn, body) ==
  [from |-> n, kind |-> "tcp", src |-> src, dst |-> dst, syn |-> syn, body |-> body]

WireInit(name) ==
  /\ policy = name
  /\ flows = {} /\ dropped = 0
  /\ frames = 0 /\ capture = <<>>
  /\ pending = [n \in Nodes |-> <<>>]
  /\ clients = {} /\ failure = None /\ stopped = FALSE

-----------------------------------------------------------------------------
(* PeerPolicy: who may open a connection, and what belongs to one.         *)
Flow(f)     == <<f.from, f.src, f.dst>>
Opposite(f) == <<Peer(f.from), f.dst, f.src>>
Opens(f)    == f.kind = "tcp" /\ f.syn

MayOpen(f) ==
  /\ f.dst = Service
  /\ policy = "one-way-initiation" => f.from = "alpha"
  /\ Cardinality(flows) < MaxFlows \/ Flow(f) \in flows

Belongs(f) == {Flow(f), Opposite(f)} \cap flows # {}

Allows(f) ==
  \/ policy = None
  \/ f.kind \in {"arp", "icmp"}
  \/ Opens(f) /\ MayOpen(f)
  \/ f.kind = "tcp" /\ ~ f.syn /\ Belongs(f)

(* A bug: the connection is remembered before it is refused.               *)
RememberedAnyway(f) == IF Opens(f) /\ policy # None THEN flows \cup {Flow(f)} ELSE flows

Remembered(f) ==
  IF Opens(f) /\ policy # None /\ MayOpen(f) THEN flows \cup {Flow(f)} ELSE flows

-----------------------------------------------------------------------------
Connects(n) ==
  /\ n \notin clients /\ ~ stopped
  /\ clients' = clients \cup {n}
  /\ UNCHANGED <<policy, policyVars, relayVars>>

GivesUp(why) == failure' = why /\ stopped' = TRUE

Drops(f) ==
  /\ ~ Allows(f)
  /\ dropped' = dropped + 1
  /\ flows' = Remembered(f)
  /\ UNCHANGED <<capture, pending, failure, stopped>>

Forwards(f) ==
  /\ Allows(f)
  /\ flows' = Remembered(f)
  /\ capture' = Append(capture, f)
  /\ pending' = [pending EXCEPT ![Peer(f.from)] = Append(@, f)]
  /\ IF Len(pending[Peer(f.from)]) < MaxPending
     THEN UNCHANGED <<failure, stopped>>
     ELSE GivesUp("not draining")
  /\ UNCHANGED dropped

(* A frame is read: it counts, whether or not it is passed on.             *)
Relays(f) ==
  /\ f.from \in clients /\ ~ stopped
  /\ frames' = frames + 1
  /\ IF frames < MaxFrames
     THEN Drops(f) \/ Forwards(f)
     ELSE GivesUp("budget") /\ UNCHANGED <<policyVars, capture, pending>>
  /\ UNCHANGED <<policy, clients>>

Delivers(n) ==
  /\ n \in clients /\ ~ stopped /\ pending[n] # <<>>
  /\ pending' = [pending EXCEPT ![n] = Tail(@)]
  /\ UNCHANGED <<policy, policyVars, frames, capture, clients, failure, stopped>>

(* A guest goes away: the relay ends without calling it a failure.         *)
Disconnects(n) ==
  /\ n \in clients
  /\ clients' = clients \ {n}
  /\ stopped' = TRUE
  /\ UNCHANGED <<policy, policyVars, frames, capture, pending, failure>>

Closes ==
  /\ stopped' = TRUE
  /\ UNCHANGED <<policy, policyVars, frames, capture, pending, clients, failure>>

-----------------------------------------------------------------------------
(* payload_directions: between which addresses the capture shows payload.  *)
Directions ==
  {<<capture[i].from, Peer(capture[i].from)>> :
     i \in {j \in DOMAIN capture : capture[j].kind \in {"icmp", "tcp"} /\ capture[j].body # "empty"}}

(* Under a policy every segment that reached the other guest belongs to a  *)
(* connection that an allowed guest had opened before to the service port: *)
(* PeerPolicy._allows, whatever the guests send and in whatever order.     *)
OpenedBefore(i) ==
  \E j \in 1..i :
    /\ Opens(capture[j])
    /\ Flow(capture[j]) \in {Flow(capture[i]), Opposite(capture[i])}
    /\ capture[j].dst = Service
    /\ policy = "one-way-initiation" => capture[j].from = "alpha"

PolicyHolds ==
  policy # None =>
    \A i \in DOMAIN capture :
      /\ capture[i].kind \in {"arp", "icmp", "tcp"}
      /\ capture[i].kind = "tcp" => OpenedBefore(i)
=============================================================================

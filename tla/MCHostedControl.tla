-------------------------- MODULE MCHostedControl ---------------------------
(* Two sessions and two connections for the model checker.                 *)
EXTENDS HostedControl

CONSTANTS s1, s2, k1, k2

MCSessions == {s1, s2}

(* Either a status request or a fault: each is a further source of delay.   *)
MCNext == Next /\ reads' + faults' <= 1

MCSpec == /\ Init
          /\ [][MCNext]_vars
          /\ WF_vars(OpStep)
          /\ SF_vars(ExpireBegins)
          /\ \A k \in Conns : WF_vars(RunCloses(k))
=============================================================================

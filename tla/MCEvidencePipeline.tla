------------------------- MODULE MCEvidencePipeline -------------------------
(* Two places for summaries, two scenarios, two providers, two releases:   *)
(* the first is deployed, of a Claux matrix, and the second one is to come. *)
EXTENDS EvidencePipeline

CONSTANTS MaxWrites, MaxImports, MaxCommands, MaxBegun, MaxFaults   \* bounds of a behaviour

VARIABLE spent

s1 == [id |-> "s1", version |-> 1, sha |-> "h1"]
s2 == [id |-> "s2", version |-> 1, sha |-> "h2"]

MCManifest == [id |-> "core-hard", version |-> 1, sha |-> "b1", tier |-> "core",
               scenarios |-> {s1, s2}, attempts |-> 2, timeout |-> 60, harness |-> 7,
               checks |-> RequiredChecks]

Contract(agent) ==
  [tier |-> "core",
   manifest |-> [id |-> "core-hard", version |-> 1, sha |-> "b1", tier |-> "core"],
   harness |-> 7, host |-> "controller", attempts |-> 2, timeout |-> 60,
   agent |-> agent, claux |-> None]

Run(agent, provider, s, attempt, status, reward) ==
  [id |-> <<s.id, attempt>>, scenario |-> s.id, version |-> s.version,
   provider |-> provider, model |-> "m1", attempt |-> attempt, agent |-> agent,
   timeout |-> 60, status |-> status, reward |-> reward,
   category |-> CASE status = "unavailable" -> "provider"
                  [] status = "evaluated" /\ reward = 0 -> "agent"
                  [] OTHER -> None,
   cost |-> IF attempt = 1 THEN 3 ELSE None]

(* Attempt 1 passes; the second one may also fail, be unavailable or end   *)
(* without a result.                                                       *)
Matrix(agent, provider, s, second) ==
  [contract |-> Contract(agent), payload |-> None, provider |-> provider,
   scenarios |-> {s}, models |-> {"m1"}, started |-> 1, supported |-> TRUE,
   runs |-> {Run(agent, provider, s, 1, "evaluated", 1)} \cup
            CASE second = "passed"      -> {Run(agent, provider, s, 2, "evaluated", 1)}
              [] second = "failed"      -> {Run(agent, provider, s, 2, "evaluated", 0)}
              [] second = "unavailable" -> {Run(agent, provider, s, 2, "unavailable", 0)}
              [] second = "error"       -> {},
   errors |-> IF second = "error" THEN {<<s.id, 2>>} ELSE {}]

MCPaths == <<"p1", "p2">>
MCMeasurements ==
  [p1 |-> {Matrix("claux", "openrouter", s1, x) : x \in {"failed", "unavailable", "error"}},
   p2 |-> {Matrix("opencode", "vercel", s1, "passed"),
           Matrix("claux", "openrouter", s2, "passed")}]

Plain     == [corrections |-> <<>>, harness |-> None]
Recounted == [corrections |-> << [run |-> <<"s1", 2>>, changes |-> [category |-> "guest"]] >>,
              harness |-> None]
MCAnnotations == {Recounted}
MCSelections  == {{"m1"}}
MCVersions    == {"v1", "v2"}

Before == Matrix("claux", "openrouter", s1, "unavailable")
MCOrigin ==
  [index |-> [current |-> "v1", releases |-> <<"v1">>, companions |-> {},
              fleet |-> {[provider |-> None, model |-> "m1"]}],
   files |-> [v \in MCVersions |-> IF v = "v1" THEN Release("v1", <<Before>>, Plain) ELSE None],
   measured |-> {Before}]

MCScoreCohorts == {[release |-> "v1", manifest |-> MCManifest]}
MCNamespace == [m \in {"m1"} |-> None]
MCEffort    == [m \in {"m1"} |-> "high"]

-----------------------------------------------------------------------------
(* What a step costs of the bounds.                                        *)
Unit(b) == IF b THEN 1 ELSE 0
Import  == import = Local!NoImport /\ import' # Local!NoImport
Commanded == op = Idle /\ op' # Idle
Begun   == \/ Commanded
           \/ bundle' # bundle
           \/ local = OnBase /\ local' # OnBase
Faulty  == \/ Dies \/ SubmitFails \/ Local!ImportStops
           \/ op = Idle /\ op' = Idle /\ (index' # index \/ files' # files) /\ ~ Restores
           \/ \E x \in DOMAIN merged : merged'[x] # merged[x]

(* The commands of different components share only the summaries: one at a *)
(* time is enough, with the matrices writing at any time.  Nothing but its *)
(* own commands reads the local catalog: behaviours that import into it    *)
(* need no other commands.                                                 *)
Running == {x \in {"op", "import", "local"} :
              \/ x = "op"     /\ op # Idle
              \/ x = "import" /\ import # Local!NoImport
              \/ x = "local"  /\ local.phase \notin {"base", "left"}}

MCInit == Init /\ spent = [writes |-> 0, imports |-> 0, commands |-> 0, begun |-> 0, faults |-> 0]

MCNext ==
  /\ Next
  /\ Cardinality(Running') <= 1
  /\ spent' = [writes |-> spent.writes + Unit(summary' # summary),
               imports |-> spent.imports + Unit(Import),
               commands |-> spent.commands + Unit(Commanded),
               begun  |-> spent.begun + Unit(Begun),
               faults |-> spent.faults + Unit(Faulty)]
  /\ spent'.imports = 0 \/ spent'.begun = 0
  /\ spent'.writes <= MaxWrites /\ spent'.imports <= MaxImports
  /\ spent'.commands <= MaxCommands /\ spent'.begun <= MaxBegun /\ spent'.faults <= MaxFaults

MCSpec == MCInit /\ [][MCNext]_<<vars, spent>>
=============================================================================

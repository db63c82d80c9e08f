---------------------------- MODULE CoveragePlan ----------------------------
(* benchmark_plan.py: from the public coverage and the local evidence to   *)
(* the matrices that are still to run.  Evidence was made by one version   *)
(* of the host harness, so that the list the code looks the required one   *)
(* up in has a single member; and the scenarios of every matrix and of     *)
(* every boundary are of the manifest's own pack, so that the two checks   *)
(* of its name always succeed and are left out.                            *)
EXTENDS PublicRecord

CONSTANTS
  Effort,      \* model -> its reasoning effort
  FirstPort    \* --base-port

LastPort == 65535

(* provider_id: a published label or an id, as --agent-provider wants it.  *)
ProviderId(p) ==
  CASE p \in {"openrouter", "OpenRouter"}   -> "openrouter"
    [] p \in {"opencode-go", "OpenCode Go"} -> "opencode-go"
    [] p \in {"vercel", "vercel-ai-gateway", "Vercel AI Gateway"} -> "vercel-ai-gateway"
    [] OTHER -> p

Normal(lane) == [lane EXCEPT !.provider = ProviderId(@)]

(* selected_lanes: the fleet, or the named models through the providers    *)
(* the fleet has for them, or through the named ones.                      *)
SelectedLanes(coverage, models, providers) ==
  LET Wanted(lane) == providers = {} \/ ProviderId(lane.provider) \in
                                          {ProviderId(p) : p \in providers}
      fleet == {lane \in coverage.fleet : Wanted(lane)}
      Through(n) == {lane \in fleet : lane.model = n}
  IN  IF models = {} THEN fleet
      ELSE UNION {IF Through(n) # {} THEN Through(n)
                  ELSE {[provider |-> p, model |-> n] :
                          p \in IF providers = {} THEN {None} ELSE providers} :
                  n \in models}

-----------------------------------------------------------------------------
(* Local evidence: summaries and submission bundles.                       *)
(* source_matches, but for the name of the scenario pack.                  *)
Usable(manifest, m) ==
  LET c == m.contract IN
  /\ c.manifest # None /\ c.manifest.id = manifest.id
  /\ c.tier = manifest.tier
  /\ c.attempts = manifest.attempts
  /\ c.timeout = manifest.timeout
  /\ c.harness = manifest.harness
  /\ \E s \in m.scenarios : [id |-> s.id, version |-> s.version] \in Required(manifest)

RunProvider(m, r) == ProviderId(IF r.provider # None THEN r.provider ELSE m.provider)

EvaluatedAt(m, s, lane) ==
  Cardinality({r \in m.runs :
    /\ Evaluated(r)
    /\ r.scenario = s.id /\ r.version = s.version
    /\ r.model = lane.model /\ RunProvider(m, r) = ProviderId(lane.provider)})

(* local_coverage: attempts of different matrices are not added up.        *)
LocallyCovered(manifest, local, s, lane) ==
  \E m \in local : /\ Usable(manifest, m)
                   /\ EvaluatedAt(m, s, lane) >= manifest.attempts

-----------------------------------------------------------------------------
(* Published evidence.                                                     *)
(* boundary_reason finds nothing; the pack is not looked at.               *)
SameBoundary(manifest, entry) ==
  /\ entry.contract.attempts = manifest.attempts
  /\ entry.contract.timeout = manifest.timeout
  /\ manifest.tier # None => entry.tier = manifest.tier
  /\ entry.contract.harness = manifest.harness

(* Of several cells of one provider, under its id and under a label, the   *)
(* last one counts: the cells are in the order of their labels, which      *)
(* begin with a capital.                                                   *)
CellAt(entry, lane) ==
  LET same == {cell \in entry.cells : Normal(cell.lane) = Normal(lane)}
      last == {cell \in same : cell.lane = Normal(cell.lane)}
  IN  IF last # {} THEN last ELSE same

CoveredAtAll(manifest, coverage, s, lane) ==
  \E entry \in coverage.scenarios :
    /\ entry.scenario = s.id /\ entry.version = s.version
    /\ SameBoundary(manifest, entry)
    /\ \E cell \in CellAt(entry, lane) : cell.covered

PubliclyCovered(manifest, coverage, s, lane) ==
  \E entry \in coverage.scenarios :
    /\ entry.scenario = s.id /\ entry.version = s.version
    /\ SameBoundary(manifest, entry)
    /\ \E cell \in CellAt(entry, lane) : /\ cell.covered
                                         /\ cell.evaluated >= manifest.attempts

(* plan_gaps.                                                              *)
Gaps(manifest, coverage, lanes, local) ==
  {g \in [scenario : Required(manifest), lane : lanes] :
     /\ ~ LocallyCovered(manifest, local, g.scenario, g.lane)
     /\ ~ PubliclyCovered(manifest, coverage, g.scenario, g.lane)}

(* build_commands: lanes of one provider and effort that miss the same     *)
(* scenarios share a matrix.                                               *)
Missing(gaps, lane) == {g.scenario : g \in {h \in gaps : h.lane = lane}}

Group(gaps, lane) ==
  [provider |-> lane.provider, effort |-> Effort[lane.model],
   scenarios |-> Missing(gaps, lane)]

Command(gaps, group) ==
  [label     |-> group.provider,
   provider  |-> ProviderId(group.provider),
   scenarios |-> group.scenarios,
   models    |-> {g.lane.model : g \in {h \in gaps : Group(gaps, h.lane) = group}}]

Commands(gaps) == {Command(gaps, Group(gaps, g.lane)) : g \in gaps}

CommandTrials(manifest, c) ==
  Cardinality(c.scenarios) * Cardinality(c.models) * manifest.attempts

(* The commands get two ports for each trial, one after the other.         *)
PortsSuffice(manifest, gaps) ==
  FirstPort + 2 * MapThenSumSet(LAMBDA c : CommandTrials(manifest, c), Commands(gaps)) - 1
    <= LastPort

(* The cells that a command runs.                                          *)
CellsOf(c) == {[scenario |-> s, lane |-> [provider |-> c.provider, model |-> n]] :
                 s \in c.scenarios, n \in c.models}
=============================================================================

--------------------------- MODULE MatrixEvidence ---------------------------
(* What publish_benchmarks.py makes of the summaries of host matrices: the *)
(* checks of one source, what may be combined, corrections, aggregates,    *)
(* and the release file that carries them.                                 *)
(*                                                                         *)
(* A run is a record with the fields id, scenario, version, provider,      *)
(* model, attempt, agent, timeout, status, reward, category and cost.  A   *)
(* matrix has the fields contract (what compatibility_key compares: tier,  *)
(* manifest, harness, host, attempts, timeout, agent, claux), payload (an  *)
(* optional artifact hash), provider, scenarios (records of id, version    *)
(* and sha), models and runs.  A model stands for a model at one reasoning *)
(* effort.                                                                 *)
EXTENDS Integers, FiniteSets, FiniteSetsExt, SequencesExt

CONSTANTS
  None,       \* absent
  Namespace   \* model -> the part of its name before the slash, or None

Tiers == {"smoke", "core", "full", "frontier"}

-----------------------------------------------------------------------------
(* One source.                                                             *)
Cell(r)     == [scenario |-> r.scenario, version |-> r.version,
                model |-> r.model, attempt |-> r.attempt]
Identity(r) == [scenario |-> r.scenario, version |-> r.version,
                provider |-> r.provider, model |-> r.model, attempt |-> r.attempt]

(* compact_run: what a run must say before anything else is looked at.     *)
WellFormed(r) == r.reward \in {0, 1} /\ r.status # None

Rectangle(m) ==
  {[scenario |-> s.id, version |-> s.version, model |-> n, attempt |-> a] :
     s \in m.scenarios, n \in m.models, a \in 1 .. m.contract.attempts}

(* validate_source_matrix: sound declarations, and a complete rectangle of *)
(* trials, once each, all of the declared agent, provider and timeout.     *)
WellDeclared(m) ==
  LET c == m.contract IN
  /\ m.models # {} /\ m.scenarios # {}
  /\ c.attempts > 0
  /\ c.tier \in Tiers \cup {None}
  /\ c.manifest # None /\ c.manifest.tier # None => c.manifest.tier = c.tier
  /\ \A s, t \in m.scenarios : s.id = t.id /\ s.version = t.version => s = t

ValidSource(m) ==
  /\ m.runs # {} /\ \A r \in m.runs : WellFormed(r)
  /\ WellDeclared(m)
  /\ Cardinality({Cell(r) : r \in m.runs}) = Cardinality(m.runs)
  /\ {Cell(r) : r \in m.runs} = Rectangle(m)
  /\ \A r \in m.runs : /\ r.agent = m.contract.agent
                       /\ m.provider # None => r.provider = m.provider
                       /\ r.timeout = m.contract.timeout

(* select_source_models: other lanes are cut from every source, and a      *)
(* source left without runs is dropped.  The result is not validated again.*)
OnlyModels(m, wanted) ==
  [m EXCEPT !.models = @ \cap wanted,
            !.runs = {r \in @ : r.model \in wanted}]

(* The members of a sequence that are in a set, in their order.            *)
Kept(s, S) ==
  LET kept[i \in 0 .. Len(s)] ==
        IF i = 0 THEN <<>>
        ELSE IF s[i] \in S THEN Append(kept[i - 1], s[i]) ELSE kept[i - 1]
  IN  kept[Len(s)]

Selected(sources, wanted) ==
  LET cut == [i \in DOMAIN sources |-> OnlyModels(sources[i], wanted)]
  IN  Kept(cut, {m \in Range(cut) : m.runs # {}})

-----------------------------------------------------------------------------
(* Several sources.  The trials of a release are the runs of its sources   *)
(* in order; src is the place of the source.                               *)
Trials(sources) ==
  UNION {{[id |-> r.id, scenario |-> r.scenario, version |-> r.version,
           provider |-> r.provider, model |-> r.model, attempt |-> r.attempt,
           status |-> r.status, reward |-> r.reward, category |-> r.category,
           cost |-> r.cost, src |-> i] : r \in sources[i].runs}
         : i \in DOMAIN sources}

AllScenarios(sources) == UNION {sources[i].scenarios : i \in DOMAIN sources}

(* validate_compatible: the same contract everywhere, no two known values  *)
(* of an optional hash, one content for a scenario, and a complete cohort  *)
(* in which no trial occurs twice.                                         *)
SameContract(sources) ==
  \A i \in DOMAIN sources : sources[i].contract = sources[1].contract

SamePayload(sources) ==
  Cardinality({sources[i].payload : i \in DOMAIN sources} \ {None}) <= 1

OneContent(sources) ==
  \A s, t \in AllScenarios(sources) : s.id = t.id => s = t

CompleteCohort(sources) ==
  LET trials   == Trials(sources)
      variants == {[provider |-> r.provider, model |-> r.model] : r \in trials}
      cohort   == {[scenario |-> s.id, version |-> s.version,
                    provider |-> v.provider, model |-> v.model, attempt |-> a] :
                     s \in AllScenarios(sources), v \in variants,
                     a \in 1 .. sources[1].contract.attempts}
  IN  /\ Cardinality({Identity(r) : r \in trials}) = Cardinality(trials)
      /\ {Identity(r) : r \in trials} = cohort

Compatible(sources) ==
  /\ SameContract(sources)
  /\ SamePayload(sources)
  /\ OneContent(sources)
  /\ CompleteCohort(sources)

-----------------------------------------------------------------------------
(* Corrections.  A correction has the fields run and changes; the run is   *)
(* looked up by its id alone, and of two runs with one id the later source *)
(* has it.                                                                 *)
Correctable == {"category", "provider"}

Named(trials, id) ==
  CHOOSE r \in trials : r.id = id /\ \A q \in trials : q.id = id => q.src <= r.src

Amend(r, changes) == [f \in DOMAIN r |-> IF f \in DOMAIN changes THEN changes[f] ELSE r[f]]

Correct(trials, c) ==
  LET r == Named(trials, c.run) IN (trials \ {r}) \cup {Amend(r, c.changes)}

(* The runs after the first i corrections, and after all of them.          *)
Stages(trials, corrections) ==
  LET after[i \in 0 .. Len(corrections)] ==
        IF i = 0 THEN trials ELSE Correct(after[i - 1], corrections[i])
  IN  after

Corrected(trials, corrections) == Stages(trials, corrections)[Len(corrections)]

CorrectionsAllowed(trials, corrections) ==
  \A i \in DOMAIN corrections :
    LET c == corrections[i] IN
    /\ \E r \in trials : r.id = c.run
    /\ DOMAIN c.changes # {} /\ DOMAIN c.changes \subseteq Correctable

(* What the release keeps of a correction: the values it replaced.         *)
Applied(trials, corrections) ==
  LET Before(i) == Named(Stages(trials, corrections)[i - 1], corrections[i].run) IN
  [i \in DOMAIN corrections |->
     [run |-> corrections[i].run, changes |-> corrections[i].changes,
      original |-> [f \in DOMAIN corrections[i].changes |-> Before(i)[f]]]]

-----------------------------------------------------------------------------
(* Aggregates.                                                             *)
Counted(runs, Test(_)) == Cardinality({r \in runs : Test(r)})

Evaluated(r)   == r.status = "evaluated"
Passed(r)      == Evaluated(r) /\ r.reward = 1
FailedRun(r)   == Evaluated(r) /\ r.reward = 0

Aggregate(runs) ==
  [trials      |-> Cardinality(runs),
   evaluated   |-> Counted(runs, Evaluated),
   unavailable |-> Cardinality(runs) - Counted(runs, Evaluated),
   passed      |-> Counted(runs, Passed),
   failed      |-> Counted(runs, Evaluated) - Counted(runs, Passed),
   reported    |-> Counted(runs, LAMBDA r : r.cost # None),
   cost        |-> MapThenSumSet(LAMBDA r : r.cost, {r \in runs : r.cost # None}),
   categories  |-> [c \in {r.category : r \in {q \in runs : FailedRun(q)}} \ {None} |->
                      Counted(runs, LAMBDA r : FailedRun(r) /\ r.category = c)],
   absences    |-> [c \in {r.category : r \in {q \in runs : ~ Evaluated(q)}} \ {None} |->
                      Counted(runs, LAMBDA r : ~ Evaluated(r) /\ r.category = c)]]

Lane(r)     == [provider |-> r.provider, model |-> r.model]
LaneCell(r) == [scenario |-> r.scenario, version |-> r.version,
                provider |-> r.provider, model |-> r.model]

(* grouped_aggregates for the two sets of group fields.  A provider field  *)
(* that no run fills is left out of the row, which reads as None.          *)
Grouped(runs, Key(_)) ==
  [k \in {Key(r) : r \in runs} |-> Aggregate({r \in runs : Key(r) = k})]

ByModel(runs)    == Grouped(runs, Lane)
ByScenario(runs) == Grouped(runs, LaneCell)

(* The groups are sorted by their keys, and None does not sort with a      *)
(* string: a mixture is an exception nobody catches.                       *)
Sortable(runs) ==
  \/ \A r \in runs : r.provider = None
  \/ \A r \in runs : r.provider # None

-----------------------------------------------------------------------------
(* The release.                                                            *)
(* normalized_agent_harness: the identity shown for the harness of a       *)
(* release that states none.                                               *)
DerivedHarness(agent, runs) ==
  LET spaces == {Namespace[r.model] : r \in runs} \ {None} IN
  CASE agent = "claux"    -> [id |-> "claux", provider |-> "OpenRouter"]
    [] agent = "opencode" -> [id |-> "opencode",
                              provider |-> IF spaces = {"opencode-go"}
                                           THEN "OpenCode Go" ELSE None]
    [] OTHER              -> [id |-> agent,
                              provider |-> IF Cardinality(spaces) = 1
                                           THEN CHOOSE s \in spaces : TRUE ELSE None]

ReleaseHarness(agent, runs, annotated) ==
  IF annotated = None THEN DerivedHarness(agent, runs) ELSE annotated

CanRelease(sources, notes) ==
  /\ sources # <<>>
  /\ Compatible(sources)
  /\ CorrectionsAllowed(Trials(sources), notes.corrections)
  /\ Sortable(Corrected(Trials(sources), notes.corrections))

(* create_release_from_sources.                                            *)
Release(version, sources, notes) ==
  LET measured == Trials(sources)
      runs     == Corrected(measured, notes.corrections)
      contract == sources[1].contract
  IN  [version     |-> version,
       contract    |-> contract,
       tier        |-> IF contract.tier = None THEN "unclassified" ELSE contract.tier,
       scenarios   |-> AllScenarios(sources),
       harness     |-> ReleaseHarness(contract.agent, runs, notes.harness),
       corrections |-> Applied(measured, notes.corrections),
       totals      |-> Aggregate(runs),
       byModel     |-> ByModel(runs),
       byScenario  |-> ByScenario(runs),
       runs        |-> runs,
       submission  |-> None]

(* validate_release: what is there must agree with the runs; fields an     *)
(* older release lacks are let through (matches_present).                  *)
Agrees(row, computed) ==
  \A f \in DOMAIN computed : f \in DOMAIN row => row[f] = computed[f]

AgreesByKey(rows, computed) ==
  /\ DOMAIN rows = DOMAIN computed
  /\ \A k \in DOMAIN rows : Agrees(rows[k], computed[k])

ValidRelease(release) ==
  /\ release.tier \in Tiers \cup {"unclassified"}
  /\ release.runs # {}
  /\ Agrees(release.totals, Aggregate(release.runs))
  /\ AgreesByKey(release.byModel, ByModel(release.runs))
  /\ AgreesByKey(release.byScenario, ByScenario(release.runs))
=============================================================================

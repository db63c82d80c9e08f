----------------------------- MODULE Submission -----------------------------
(* benchmark_submission.py: a contributor makes a bundle of finished       *)
(* matrices, submits it as a pull request, and CI validates the merged      *)
(* directory.  The digest of evidence is modelled by the evidence itself.  *)
EXTENDS MatrixEvidence

VARIABLES
  bundle,     \* the contributor's bundle file, or None
  local,      \* the contributor's checkout: phase, name and file submitted
  branches,   \* names of the submission branches of that checkout
  pulls,      \* open pull requests
  merged      \* name -> the file in benchmark-submissions/ on main

submissionVars == <<bundle, local, branches, pulls, merged>>

OnBase == [phase |-> "base", name |-> None, file |-> None]

SubmissionInit ==
  /\ bundle = None
  /\ local = OnBase
  /\ branches = {}
  /\ pulls = {}
  /\ merged = << >>

-----------------------------------------------------------------------------
Evidence(sources) == [sources |-> sources, totals |-> Aggregate(Trials(sources))]
Digest(evidence)  == evidence

(* validate_bundle.                                                        *)
BundleOfAnyId(b) ==
  LET sources == b.evidence.sources IN
  /\ sources # << >>
  /\ \A i \in DOMAIN sources : ValidSource(sources[i])
  /\ Compatible(sources)
  /\ b.evidence.totals = Aggregate(Trials(sources))

ValidBundle(b) ==
  LET sources == b.evidence.sources IN
  /\ b.id = Digest(b.evidence)
  /\ sources # << >>
  /\ \A i \in DOMAIN sources : ValidSource(sources[i])
  /\ Compatible(sources)
  /\ b.evidence.totals = Aggregate(Trials(sources))

(* create_bundle, over whatever lies at the output path.                   *)
Bundles(sources) ==
  /\ sources # << >>
  /\ \A i \in DOMAIN sources : ValidSource(sources[i])
  /\ Compatible(sources)
  /\ bundle' = [id |-> Digest(Evidence(sources)), evidence |-> Evidence(sources)]
  /\ UNCHANGED <<local, branches, pulls, merged>>

-----------------------------------------------------------------------------
(* submit_bundle.  The checkout may be behind main, so a file that is      *)
(* merged need not be seen as present.                                     *)
SubmitBegins ==
  /\ bundle # None /\ ValidBundle(bundle)
  /\ local = OnBase
  /\ local' = [phase |-> "checked", name |-> bundle.id, file |-> None]
  /\ UNCHANGED <<bundle, branches, pulls, merged>>

SubmitBranches ==
  /\ local.phase = "checked" /\ local.name \notin branches
  /\ branches' = branches \cup {local.name}
  /\ local' = [local EXCEPT !.phase = "branched"]
  /\ UNCHANGED <<bundle, pulls, merged>>

(* The bundle is copied from its path, not from what was validated.        *)
SubmitCopies ==
  /\ local.phase = "branched"
  /\ local' = [local EXCEPT !.phase = "copied", !.file = bundle]
  /\ UNCHANGED <<bundle, branches, pulls, merged>>

(* Commit, push and pull request.                                          *)
SubmitOpens ==
  /\ local.phase = "copied"
  /\ pulls' = pulls \cup {[name |-> local.name, file |-> local.file]}
  /\ local' = [local EXCEPT !.phase = "left"]
  /\ UNCHANGED <<bundle, branches, merged>>

(* A git or gh call fails, or the branch is there already: the checkout    *)
(* stays where it is, on the new branch if that was made.                  *)
SubmitFails ==
  /\ local.phase \in {"checked", "branched", "copied"}
  /\ local' = IF local.phase = "checked" THEN OnBase ELSE [local EXCEPT !.phase = "left"]
  /\ UNCHANGED <<bundle, branches, pulls, merged>>

(* The contributor goes back to the base branch, and may delete the other. *)
GoesBack ==
  /\ local.phase = "left"
  /\ branches' \in {branches, branches \ {local.name}}
  /\ local' = OnBase
  /\ UNCHANGED <<bundle, pulls, merged>>

-----------------------------------------------------------------------------
(* validate_directory, on main with the pull request merged.               *)
WithPull(p) == [n \in DOMAIN merged \cup {p.name} |->
                  IF n = p.name THEN p.file ELSE merged[n]]

DirectoryOfAnyNames(dir) == \A n \in DOMAIN dir : ValidBundle(dir[n])

ValidDirectory(dir) == \A n \in DOMAIN dir : ValidBundle(dir[n]) /\ n = dir[n].id

Merges(p) ==
  /\ p \in pulls
  /\ ValidDirectory(WithPull(p))
  /\ merged' = WithPull(p)
  /\ pulls' = pulls \ {p}
  /\ UNCHANGED <<bundle, local, branches>>

(* Someone edits a submission in the maintainer's checkout, the totals     *)
(* with it.                                                                *)
Doctored(b, i, r) ==
  LET sources == [b.evidence.sources EXCEPT
                    ![i].runs = (@ \ {r}) \cup {[r EXCEPT !.reward = 1 - @]}]
  IN  [b EXCEPT !.evidence = Evidence(sources)]

EditsSubmission(n) ==
  /\ n \in DOMAIN merged
  /\ merged' \in
       {[merged EXCEPT ![n] = Doctored(@, x.i, x.r)] :
          x \in UNION {{[i |-> i, r |-> r] :
                          r \in {q \in merged[n].evidence.sources[i].runs : Evaluated(q)}} :
                       i \in DOMAIN merged[n].evidence.sources}}
  /\ UNCHANGED <<bundle, local, branches, pulls>>

SubmitStep == SubmitBranches \/ SubmitCopies \/ SubmitOpens
=============================================================================

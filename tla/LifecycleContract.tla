------------------------- MODULE LifecycleContract --------------------------
(* The lifecycle contract of worker/lifecycle.js: the quality and operational *)
(* transition tables and applyLifecycleCommand.  A lifecycle is a record with *)
(* fields quality, work (operational) and pausedFrom; other fields are kept.   *)

Terminal == {"structural_reject", "development_reject", "holdout_reject",
             "inconclusive", "superseded", "retired"}

QualityStates ==
  Terminal \union
  {"proposed", "compiled", "screened", "development", "supervisor_approved",
   "capacity_wait", "sealed_validation", "incubation", "release_blocked_short",
   "released_paper", "healthy", "watch", "quarantined", "operator_paused"}

\* The states a strategy can be paused, superseded, quarantined or retired in.
Active == QualityStates \ (Terminal \union {"quarantined", "operator_paused"})

NotPaused == "not_paused"

Forward == [
  proposed |-> {"compiled", "structural_reject"},
  compiled |-> {"screened", "structural_reject"},
  screened |-> {"development", "structural_reject"},
  development |-> {"supervisor_approved", "development_reject"},
  supervisor_approved |-> {"sealed_validation", "capacity_wait"},
  capacity_wait |-> {"sealed_validation"},
  sealed_validation |-> {"incubation", "holdout_reject", "inconclusive"},
  incubation |-> {"released_paper", "release_blocked_short", "development",
                  "development_reject"},
  release_blocked_short |-> {"released_paper", "development_reject"},
  released_paper |-> {"healthy", "watch", "quarantined"},
  healthy |-> {"watch", "quarantined", "retired"},
  watch |-> {"healthy", "quarantined", "retired"},
  quarantined |-> {"retired"}]

QualityTransitions ==
  [q \in QualityStates |->
     (IF q \in DOMAIN Forward THEN Forward[q] ELSE {}) \union
     (IF q \in Active
      THEN {"operator_paused", "superseded", "quarantined", "retired"} ELSE {})]

\* A pause can be left for the remembered state only.
Legal(r, target) ==
  IF r.quality = "operator_paused" THEN target = r.pausedFrom
  ELSE target \in QualityTransitions[r.quality]

Moved(r, target) ==
  [r EXCEPT !.quality = target,
            !.pausedFrom = IF target = "operator_paused" THEN r.quality
                           ELSE NotPaused]

\* The move when the code asks for it in one of the given states only.
MovedFrom(r, states, target) ==
  IF r.quality \in states THEN Moved(r, target) ELSE r

Operational == {"ready", "queued", "running", "retry_wait", "data_blocked",
                "operational_blocked"}

\* Operational states from which the dispatchers go through queued to running.
Dispatchable == {"ready", "retry_wait", "data_blocked", "queued"}
=============================================================================

------------------------- MODULE StrategyLifecycle -------------------------
(* A strategy from its birth to its retirement: review, sealed validation,   *)
(* incubation, release, health decisions and operator commands, in           *)
(* worker/index.js and engine.js.  The code keeps two copies of where a       *)
(* strategy stands: strategy.state (label here), which decides who is         *)
(* reviewed, incubated and traded, and strategy.lifecycle, which only moves   *)
(* along the contract of lifecycle.js and throws when it cannot.  Handlers    *)
(* write the one before the other, with awaits on the stores in between.      *)
(*                                                                          *)
(* What the evidence says (a backtest's decision, the incubation gate, the    *)
(* health windows) is chosen freely among the outcomes the code can reach.    *)
EXTENDS Naturals, LifecycleContract

CONSTANTS
  Strategy,      \* identifiers; those not born yet are the pool of children
  Founders,      \* the strategies of the first cohort
  Shorts,        \* strategies whose DNA has a short entry
  Nobody,        \* no champion, no challenger
  Elsewhere,     \* a child born when the pool is exhausted: not followed
  MaxRework,     \* MAX_REWORK_ATTEMPTS, 3 in the code
  Troubles       \* what may go wrong in a behaviour, see Trouble

Trouble == {"calm",           \* nothing
            "stores_fail",    \* awaited D1 and R2 writes may throw
            "paused_in_run",  \* a strategy is paused while its run is queued
            "paused_twice"}   \* a paused strategy is paused again

ASSUME LifecycleAssumption ==
  /\ Founders \subseteq Strategy
  /\ Shorts \subseteq Strategy
  /\ Nobody \notin Strategy
  /\ Elsewhere \notin Strategy
  /\ Nobody # Elsewhere
  /\ MaxRework \in {0, 1, 2, 3}
  /\ Troubles \subseteq Trouble

VARIABLES
  rows,          \* state.strategies
  releasePaused, \* controls.release_paused
  shortsEnabled, \* brokerActivation(env).short_enabled
  setting        \* frozen: the trouble, and whether datasets are partitioned

vars == <<rows, releasePaused, shortsEnabled, setting>>

\* ACTIVE_STATES: the labels the broker cycle trades and monitors.
Trading == {"released", "healthy", "watch", "quarantined"}

Labels == Trading \union
  {"unborn", "generated", "rework", "validation", "capacity_wait",
   "development_reject", "incubation", "holdout_reject", "inconclusive",
   "incubation_reject", "release_blocked_short", "retired", "superseded",
   "dropped", "operator_paused"}

HealthStates == {"healthy", "watch", "quarantined", "retired"}
Verdict == {"incubation", "holdout_reject", "inconclusive"}
RunStates == {"none", "queued", "finalized"}

\* resume: operator_pause.previous_state; attempt: rework.attempt; sealed: the
\* outcome in the burn ledger; ready: release_ready; row: the D1 release;
\* status: health.status; risk: the effective multiplier is positive; today:
\* the findings of the session under way.
Row == [label: Labels, resume: Labels \union {NotPaused},
        quality: QualityStates, pausedFrom: QualityStates \union {NotPaused},
        work: Operational, attempt: 0..MaxRework,
        development: RunStates, holdout: RunStates,
        sealed: Verdict \union {"none"},
        ready: BOOLEAN, heldBack: BOOLEAN, released: BOOLEAN, row: BOOLEAN,
        status: HealthStates \union {"none", "released_paper"},
        risk: BOOLEAN, today: {"clean", "blocked", "hard"},
        champion: Strategy \union {Nobody},
        challenger: Strategy \union {Nobody, Elsewhere}]

TypeOK ==
  /\ rows \in [Strategy -> Row]
  /\ releasePaused \in BOOLEAN
  /\ shortsEnabled \in BOOLEAN
  /\ setting \in [trouble: Troubles, partitioned: BOOLEAN]

\* newStrategy: compiled and screened at once.
Born(attempt, champion) ==
  [label |-> "generated", resume |-> NotPaused, quality |-> "screened",
   pausedFrom |-> NotPaused, work |-> "ready", attempt |-> attempt,
   development |-> "none", holdout |-> "none", sealed |-> "none",
   ready |-> FALSE, heldBack |-> FALSE, released |-> FALSE, row |-> FALSE,
   status |-> "none", risk |-> TRUE, today |-> "clean",
   champion |-> champion, challenger |-> Nobody]

Unborn == {s \in Strategy : rows[s].label = "unborn"}

\* Where the next child goes.
Cradle == IF Unborn = {} THEN {Elsewhere} ELSE Unborn

Init ==
  /\ rows = [s \in Strategy |->
               [Born(0, Nobody) EXCEPT
                  !.label = IF s \in Founders THEN "generated" ELSE "unborn"]]
  /\ releasePaused = FALSE
  /\ shortsEnabled = FALSE
  /\ setting \in [trouble: Troubles, partitioned: BOOLEAN]
  /\ setting.trouble = "paused_in_run" => setting.partitioned

-----------------------------------------------------------------------------
(* Development review and sealed validation.                                *)

\* The dispatchers' ready/retry_wait/data_blocked -> queued -> running.
Dispatched(r) == IF r.work \in Dispatchable THEN [r EXCEPT !.work = "running"]
                 ELSE r

Completed(r) == IF r.work = "running" THEN [r EXCEPT !.work = "ready"] ELSE r
Deferred(r) == IF r.work = "running" THEN [r EXCEPT !.work = "retry_wait"]
               ELSE r

DevelopmentDecision ==
  {"supervisor_approved", "development_reject", "development_rework"}

ReviewLabel == [supervisor_approved |-> "validation",
                development_reject |-> "development_reject",
                development_rework |-> "rework"]

ReviewQuality == [supervisor_approved |-> "supervisor_approved",
                  development_reject |-> "development_reject",
                  development_rework |-> "superseded"]

InDevelopment(r) == Dispatched(MovedFrom(r, {"screened"}, "development"))

Decided(r, d) ==
  MovedFrom([Completed(r) EXCEPT !.label = ReviewLabel[d]],
            {"development"}, ReviewQuality[d])

\* What one candidate can meet in reviewRemote.
ReviewOutcome ==
  {"not_dispatched", "data_error", "service_error"} \union
  IF setting.partitioned THEN {"enqueued"} ELSE DevelopmentDecision

Reviewed(r, out) ==
  CASE out = "not_dispatched" -> r
    [] out = "data_error" ->
         IF r.work = "ready" THEN [r EXCEPT !.work = "data_blocked"] ELSE r
    [] out = "service_error" -> Deferred(InDevelopment(r))
    [] out = "enqueued" ->
         [InDevelopment(r) EXCEPT
            !.development = IF @ = "none" THEN "queued" ELSE @]
    [] OTHER -> Decided(InDevelopment(r), out)

\* reworkCandidates: the parent is dropped, or superseded by a child.
Waiting == {s \in Strategy : rows[s].label = "rework"}
Exhausted == {s \in Waiting : rows[s].attempt >= MaxRework}

Reworked(kid) ==
  LET parents == DOMAIN kid IN
  [s \in Strategy |->
     CASE s \in Exhausted -> [rows[s] EXCEPT !.label = "dropped"]
       [] s \in parents -> [rows[s] EXCEPT !.label = "superseded"]
       [] \E p \in parents : kid[p] = s ->
            Born(rows[CHOOSE p \in parents : kid[p] = s].attempt + 1, Nobody)
       [] OTHER -> rows[s]]

\* applyHoldoutCapacity with the pool's members that were chosen.
Pool(R) == {s \in Strategy : R[s].label \in {"validation", "capacity_wait"}}

Admissions(R) == {S \in SUBSET Pool(R) : S = {} => Pool(R) = {}}

Capacity(R, chosen) ==
  [s \in Strategy |->
     IF s \notin Pool(R) THEN R[s]
     ELSE IF s \in chosen
     THEN MovedFrom([R[s] EXCEPT !.label = "validation"],
                    {"supervisor_approved", "capacity_wait"},
                    "sealed_validation")
     ELSE MovedFrom([R[s] EXCEPT !.label = "capacity_wait"],
                    {"supervisor_approved"}, "capacity_wait")]

\* pipeline.review: rework, then every generated strategy, then the capacity.
Review ==
  \E kid \in [Waiting \ Exhausted -> Cradle] :
    /\ \A p, q \in DOMAIN kid :
         kid[p] = kid[q] => p = q \/ kid[p] = Elsewhere
    /\ LET R == Reworked(kid)
           candidates == {s \in Strategy : R[s].label = "generated"} IN
       \E out \in [candidates -> ReviewOutcome] :
         LET S == [s \in Strategy |-> IF s \in candidates
                                      THEN Reviewed(R[s], out[s]) ELSE R[s]] IN
         \E chosen \in Admissions(S) : rows' = Capacity(S, chosen)
    /\ UNCHANGED <<releasePaused, shortsEnabled, setting>>

\* finalizeQueuedBacktest finds the strategies by id, whatever their label.
FinalizeDevelopment(s) ==
  /\ rows[s].development = "queued"
  /\ \E d \in DevelopmentDecision :
       LET R == [rows EXCEPT
                   ![s] = [Decided(InDevelopment(@), d) EXCEPT
                             !.development = "finalized"]] IN
       \E chosen \in Admissions(R) : rows' = Capacity(R, chosen)
  /\ UNCHANGED <<releasePaused, shortsEnabled, setting>>

\* The artifact write throws, reviewRemote swallows it: finalized nevertheless.
FinalizeDevelopmentFails(s) ==
  /\ setting.trouble = "stores_fail"
  /\ rows[s].development = "queued"
  /\ LET R == [rows EXCEPT ![s] = [Deferred(InDevelopment(@)) EXCEPT
                                     !.development = "finalized"]] IN
     \E chosen \in Admissions(R) : rows' = Capacity(R, chosen)
  /\ UNCHANGED <<releasePaused, shortsEnabled, setting>>

\* Mutant: an inconclusive holdout is incubated.
SealedLeniently(r, v) ==
  MovedFrom(Completed([r EXCEPT !.sealed = v,
                                !.label = IF v = "holdout_reject" THEN v
                                          ELSE "incubation"]),
            {"sealed_validation"}, v)

\* Label and ledger carry the outcome before the incubation store is awaited.
Sealed(r, v) ==
  MovedFrom(Completed([r EXCEPT !.sealed = v, !.label = v]),
            {"sealed_validation"}, v)

SealedUnsaved(r) ==
  [r EXCEPT !.sealed = "incubation", !.label = "incubation"]

\* Only a reservation without an outcome is dispatched.
ValidateOutcome(r) ==
  IF r.sealed # "none" THEN {"not_dispatched"}
  ELSE {"not_dispatched", "service_error"} \union
       (IF setting.partitioned THEN {"enqueued"} ELSE Verdict) \union
       (IF setting.trouble = "stores_fail" /\ ~setting.partitioned
        THEN {"unsaved"} ELSE {})

Validated(r, out) ==
  CASE out = "not_dispatched" -> r
    [] out = "service_error" -> Deferred(Dispatched(r))
    [] out = "enqueued" ->
         [Dispatched(r) EXCEPT !.holdout = IF @ = "none" THEN "queued" ELSE @]
    [] out = "unsaved" -> SealedUnsaved(Dispatched(r))
    [] OTHER -> Sealed(Dispatched(r), out)

\* pipeline.validate: every strategy labelled validation, then the capacity.
Validate ==
  LET candidates == {s \in Strategy : rows[s].label = "validation"}
      Outcomes == UNION {ValidateOutcome(rows[s]) : s \in candidates} IN
  /\ candidates # {}
  /\ \E out \in [candidates -> Outcomes] :
       /\ \A s \in candidates : out[s] \in ValidateOutcome(rows[s])
       /\ LET R == [s \in Strategy |-> IF s \in candidates
                                       THEN Validated(rows[s], out[s])
                                       ELSE rows[s]] IN
          \E chosen \in Admissions(R) : rows' = Capacity(R, chosen)
  /\ UNCHANGED <<releasePaused, shortsEnabled, setting>>

FinalizeHoldout(s) ==
  /\ rows[s].holdout = "queued"
  /\ \E v \in Verdict :
       LET R == [rows EXCEPT ![s] = [Sealed(Dispatched(@), v) EXCEPT
                                       !.holdout = "finalized"]] IN
       \E chosen \in Admissions(R) : rows' = Capacity(R, chosen)
  /\ UNCHANGED <<releasePaused, shortsEnabled, setting>>

\* The artifact write throws before the outcome, or the incubation store after.
FinalizeHoldoutFails(s) ==
  /\ setting.trouble = "stores_fail"
  /\ rows[s].holdout = "queued"
  /\ \E r \in {Deferred(Dispatched(rows[s])),
               SealedUnsaved(Dispatched(rows[s]))} :
       LET R == [rows EXCEPT ![s] = [r EXCEPT !.holdout = "finalized"]] IN
       \E chosen \in Admissions(R) : rows' = Capacity(R, chosen)
  /\ UNCHANGED <<releasePaused, shortsEnabled, setting>>

-----------------------------------------------------------------------------
(* Incubation and release.                                                  *)

CanRelease(s) == s \notin Shorts \/ shortsEnabled

\* incubation_rework: back to development in both copies.
SentBack(r) ==
  MovedFrom([r EXCEPT !.label = "rework", !.ready = FALSE],
            {"incubation"}, "development")

GateRejected(r) ==
  MovedFrom([r EXCEPT !.label = "incubation_reject", !.ready = FALSE],
            {"incubation"}, "development_reject")

HeldByOperator(r) ==
  [r EXCEPT !.label = "incubation", !.ready = TRUE, !.heldBack = TRUE]

HeldForShorts(r) ==
  MovedFrom([r EXCEPT !.label = "release_blocked_short", !.ready = TRUE,
                     !.heldBack = FALSE],
            {"incubation"}, "release_blocked_short")

\* Before the awaits of applyIncubationDecision's release branch.
Labelled(r) ==
  [r EXCEPT !.label = "released", !.released = TRUE, !.ready = TRUE,
            !.heldBack = FALSE]

\* Mutant: the label is taken for a health status.
MonitoredByLabel(r) ==
  [r EXCEPT !.status = IF @ = "none" THEN r.label ELSE @]

\* startReleaseMonitoring is idempotent.
Monitored(r) ==
  [r EXCEPT !.status = IF @ # "none" THEN @
                       ELSE IF r.label \in HealthStates THEN r.label
                       ELSE "released_paper"]

\* After persistRelease.
Installed(r) ==
  Monitored(MovedFrom([Labelled(r) EXCEPT !.row = TRUE],
                      {"incubation", "release_blocked_short"},
                      "released_paper"))

\* Retired by the championship, not by its health: an illegal move throws with
\* everything else already written.
StoodDown(r) ==
  LET t == [r EXCEPT !.label = "retired", !.risk = FALSE,
                     !.status = IF @ = "none" THEN @ ELSE "retired"] IN
  IF t.quality # "retired" /\ Legal(t, "retired") THEN Moved(t, "retired")
  ELSE t

\* Mutant: the challenger stays, improved or not.
ReplacesAlways(s, improved) ==
  LET c == rows[s].champion IN
  [rows EXCEPT
     ![s] = Installed(@),
     ![c] = IF improved /\ rows[c].label \in Trading THEN StoodDown(@) ELSE @]

\* championReplacementAssessment: champion still active, and evidence improved.
Replaces(s, improved) ==
  LET c == rows[s].champion IN
  IF improved /\ rows[c].label \in Trading
  THEN [rows EXCEPT ![s] = Installed(@), ![c] = StoodDown(@)]
  ELSE [rows EXCEPT ![s] = StoodDown(Installed(@))]

\* The gate's outcomes "continue" and "blocked" change nothing kept here.
GateOutcome == {"rework", "reject", "pass"}

\* pipeline.incubation, and compute_targets when a shadow trade closed.
Incubate(s) ==
  /\ rows[s].label = "incubation"
  /\ \E gate \in GateOutcome, improved \in BOOLEAN :
       rows' = CASE gate = "rework" -> [rows EXCEPT ![s] = SentBack(@)]
                 [] gate = "reject" -> [rows EXCEPT ![s] = GateRejected(@)]
                 [] gate = "pass" /\ releasePaused ->
                      [rows EXCEPT ![s] = HeldByOperator(@)]
                 [] gate = "pass" /\ ~releasePaused /\ ~CanRelease(s) ->
                      [rows EXCEPT ![s] = HeldForShorts(@)]
                 [] gate = "pass" /\ ~releasePaused /\ CanRelease(s)
                    /\ rows[s].champion = Nobody ->
                      [rows EXCEPT ![s] = Installed(@)]
                 [] OTHER -> Replaces(s, improved)
  /\ UNCHANGED <<releasePaused, shortsEnabled, setting>>

\* What pipeline.release picks, when the frozen gate passes again.
Releasable(s) ==
  /\ rows[s].ready
  /\ \/ rows[s].label = "incubation" /\ rows[s].heldBack
     \/ rows[s].label = "release_blocked_short" /\ CanRelease(s)

Release(s) ==
  /\ Releasable(s)
  /\ \E improved \in BOOLEAN :
       rows' = IF releasePaused THEN [rows EXCEPT ![s] = HeldByOperator(@)]
               ELSE IF ~CanRelease(s) THEN [rows EXCEPT ![s] = HeldForShorts(@)]
               ELSE IF rows[s].champion = Nobody
               THEN [rows EXCEPT ![s] = Installed(@)]
               ELSE Replaces(s, improved)
  /\ UNCHANGED <<releasePaused, shortsEnabled, setting>>

\* The release branch of either, stopped by a store: persistEvidence or
\* persistRelease, or persistPolicy.  The failed command saves its state.
ReleaseFails(s) ==
  /\ setting.trouble = "stores_fail"
  /\ rows[s].label = "incubation" \/ Releasable(s)
  /\ ~releasePaused
  /\ CanRelease(s)
  /\ \E r \in {Labelled(rows[s]), Installed(rows[s])} :
       rows' = [rows EXCEPT ![s] = r]
  /\ UNCHANGED <<releasePaused, shortsEnabled, setting>>

-----------------------------------------------------------------------------
(* Release health.                                                          *)

\* applyHealthDecision up to the lifecycle move of the quality.
Operated(r, operational) ==
  [r EXCEPT !.work = IF operational = "operational_blocked" THEN operational
                     ELSE IF @ = "operational_blocked" THEN "ready" ELSE @]

\* The lifecycle refuses: health.status is written, nothing after it.
Refused(r, q) ==
  /\ q \in HealthStates
  /\ q # r.status
  /\ q # r.quality
  /\ ~Legal(r, q)

\* healthMultiplier.
Multiplier(q, operational) ==
  /\ operational # "operational_blocked"
  /\ q \notin {"quarantined", "retired"}

Judged(r, q, operational) ==
  LET o == Operated(r, operational)
      t == [o EXCEPT !.status = q]
      u == [t EXCEPT !.risk = Multiplier(q, operational)] IN
  IF q \notin HealthStates
  THEN [o EXCEPT !.risk = Multiplier(q, operational)]
  ELSE IF Refused(r, q) THEN t
  ELSE IF q # r.status /\ q # r.quality
  THEN Moved([u EXCEPT !.label = q], q)
  ELSE [u EXCEPT !.label = q]

\* The first quarantine of a release breeds its challenger.
Breeds(r, q) ==
  /\ q = "quarantined"
  /\ r.status # "quarantined"
  /\ ~Refused(r, q)
  /\ r.challenger = Nobody

\* r: the strategy's row with the evidence recorded.
Apply(s, r, q, operational) ==
  IF ~Breeds(r, q)
  THEN rows' = [rows EXCEPT ![s] = Judged(r, q, operational)]
  ELSE \E kid \in Cradle :
         rows' = [x \in Strategy |->
                    IF x = s
                    THEN [Judged(r, q, operational) EXCEPT !.challenger = kid]
                    ELSE IF x = kid THEN Born(r.attempt, s)
                    ELSE rows[x]]

\* recordHealthObservation: evidence of the session, on the first call.
Noted(r, finding) ==
  [Monitored(r) EXCEPT
     !.today = IF "hard" \in {finding, @} THEN "hard"
               ELSE IF "blocked" \in {finding, @} THEN "blocked" ELSE "clean"]

\* compute_targets on released strategies, with immediateDecision.
Observe(s) ==
  /\ rows[s].label \in Trading
  /\ \E finding \in {"clean", "blocked", "hard"} :
       LET r == Noted(rows[s], finding) IN
       CASE finding = "clean" -> rows' = [rows EXCEPT ![s] = r]
         [] finding = "blocked" -> Apply(s, r, r.status, "operational_blocked")
         [] OTHER -> Apply(s, r, "quarantined", "ready")
  /\ UNCHANGED <<releasePaused, shortsEnabled, setting>>

\* The health store throws first; the retry is a duplicate event, undecided.
ObserveFails(s) ==
  /\ setting.trouble = "stores_fail"
  /\ rows[s].label \in Trading
  /\ \E finding \in {"blocked", "hard"} :
       rows' = [rows EXCEPT ![s] = Noted(@, finding)]
  /\ UNCHANGED <<releasePaused, shortsEnabled, setting>>

\* Mutant: a quarantined release recovers like a watched one.
WindowsRecover(status) == {"quarantined", "watch", "healthy", "retired"}

\* evaluateHealthDecision: where the windows of valid sessions can lead.
Windows(status) ==
  CASE status = "quarantined" -> {"quarantined", "retired"}
    [] status = "watch" -> {"quarantined", "watch", "healthy"}
    [] OTHER -> {"quarantined", "watch", "healthy"}

\* Mutant: findings of the day are not decided at its close.
CloseSessionByWindows(s) ==
  /\ rows[s].label \in Trading
  /\ LET r == [Monitored(rows[s]) EXCEPT !.today = "clean"] IN
     \E q \in Windows(r.status) : Apply(s, r, q, "ready")
  /\ UNCHANGED <<releasePaused, shortsEnabled, setting>>

\* pipeline.monitor at the close: finalizeHealthSession and the decision.  A
\* session whose decision was refused is decided again by the retry.
CloseSession(s) ==
  /\ rows[s].label \in Trading
  /\ LET r == Monitored(rows[s])
         over == [r EXCEPT !.today = "clean"] IN
     \/ /\ r.today = "hard"
        /\ Apply(s, IF Refused(r, "quarantined") THEN r ELSE over,
                 "quarantined", "ready")
     \/ /\ r.today # "hard"
        /\ Apply(s, over, r.status, "operational_blocked")
     \/ /\ r.today = "clean"
        /\ \E q \in Windows(r.status) : Apply(s, over, q, "ready")
  /\ UNCHANGED <<releasePaused, shortsEnabled, setting>>

-----------------------------------------------------------------------------
(* Operator commands.                                                       *)

InRun(r) == "queued" \in {r.development, r.holdout}

Pause(s) ==
  LET r == rows[s] IN
  /\ r.label # "unborn"
  /\ r.quality = "operator_paused" \/ Legal(r, "operator_paused")
  /\ InRun(r) => setting.trouble = "paused_in_run"
  /\ r.label = "operator_paused" => setting.trouble = "paused_twice"
  /\ rows' = [rows EXCEPT ![s] =
       [IF r.quality = "operator_paused" THEN r ELSE Moved(r, "operator_paused")
        EXCEPT !.resume = r.label, !.label = "operator_paused"]]
  /\ UNCHANGED <<releasePaused, shortsEnabled, setting>>

Resume(s) ==
  LET r == rows[s] IN
  /\ r.pausedFrom # NotPaused
  /\ rows' = [rows EXCEPT ![s] =
       [Moved(r, r.pausedFrom) EXCEPT
          !.label = IF r.resume = NotPaused THEN "generated" ELSE r.resume,
          !.resume = NotPaused]]
  /\ UNCHANGED <<releasePaused, shortsEnabled, setting>>

\* quarantine_strategy and retire_strategy.
Remove(s) ==
  /\ rows[s].label \in Trading
  /\ \E q \in {"quarantined", "retired"} :
       Apply(s, Monitored(rows[s]), q, "ready")
  /\ UNCHANGED <<releasePaused, shortsEnabled, setting>>

RetryOperational(s) ==
  /\ rows[s].work \in {"retry_wait", "data_blocked"}
  /\ rows' = [rows EXCEPT ![s].work = "queued"]
  /\ UNCHANGED <<releasePaused, shortsEnabled, setting>>

PauseReleases ==
  /\ releasePaused' = ~releasePaused
  /\ UNCHANGED <<rows, shortsEnabled, setting>>

\* A redeployment; bounded to when a release waits for it, since enabled
\* earlier it makes a short strategy like any other.
EnableShorts ==
  /\ \E s \in Strategy : rows[s].label = "release_blocked_short"
  /\ shortsEnabled' = TRUE
  /\ UNCHANGED <<rows, releasePaused, setting>>

-----------------------------------------------------------------------------
Next ==
  \/ Review
  \/ Validate
  \/ \E s \in Strategy :
       \/ FinalizeDevelopment(s) \/ FinalizeDevelopmentFails(s)
       \/ FinalizeHoldout(s) \/ FinalizeHoldoutFails(s)
       \/ Incubate(s) \/ Release(s) \/ ReleaseFails(s)
       \/ Observe(s) \/ ObserveFails(s) \/ CloseSession(s)
       \/ Pause(s) \/ Resume(s) \/ Remove(s) \/ RetryOperational(s)
  \/ PauseReleases
  \/ EnableShorts

Spec == Init /\ [][Next]_vars

\* The calendar's close intent comes every session; stores do not fail forever.
FairSpec == Spec /\ \A s \in Strategy : WF_vars(CloseSession(s))

-----------------------------------------------------------------------------
\* trouble in which the code keeps its two copies together.
Undisturbed == setting.trouble \in {"calm", "paused_twice"}

(* Whoever the broker cycle trades, or would trade once resumed, passed the  *)
(* sealed holdout and then the incubation gate, whatever fails and whoever    *)
(* is paused when (README.md, Data and lifecycle, steps 5 to 7).              *)
TradesOnlyReleased ==
  \A s \in Strategy :
    {rows[s].label, rows[s].resume} \intersect Trading # {} =>
      rows[s].released /\ rows[s].sealed = "incubation"

(* The two copies of a traded strategy agree, and its release is whole: the   *)
(* D1 row exists, it is monitored, and the champion it challenged is retired. *)
(* The broker cycle only looks at the label.                                  *)
ReleaseIsWhole ==
  Undisturbed => \A s \in Strategy :
    LET r == rows[s] IN
    r.label \in Trading =>
      /\ r.quality = IF r.label = "released" THEN "released_paper" ELSE r.label
      /\ r.row
      /\ r.status # "none"
      /\ r.champion # Nobody => rows[r.champion].label = "retired"

(* A quarantined release only leaves for retirement, and nothing leaves       *)
(* retirement, operator commands and failing stores included.                 *)
NoWayBack ==
  [][setting.trouble # "paused_in_run" => \A s \in Strategy :
       /\ rows[s].label = "retired" => rows'[s].label = "retired"
       /\ rows[s].label = "quarantined" =>
            rows'[s].label \in {"quarantined", "retired"}]_vars

(* A hard finding takes the strategy, and its risk, off the market, even when the store      *)
(* fails before the immediate decision and the retried event is a duplicate.  *)
HardFindingStops ==
  \A s \in Strategy :
    (/\ rows[s].label \in Trading /\ rows[s].today = "hard"
     /\ setting.trouble # "paused_in_run")
      ~> (\/ rows[s].label = "operator_paused"
          \/ rows[s].label \in {"quarantined", "retired"} /\ ~rows[s].risk)
=============================================================================

---------------------------- MODULE ReleaseHealth ----------------------------
(* The health evidence of one released strategy (worker/monitoring.js), the   *)
(* calls worker/index.js makes of it, and the D1 journal of                   *)
(* worker/health-store.js.  Each event of a session is observed by the        *)
(* command it raised, each session is closed by pipeline.monitor, and both    *)
(* may come late, in any order, again, or be cut short by a failing store.    *)
(* What a cycle shows is a finding: clean, an operational code or a hard one  *)
(* (a reported code, the daily loss, the live drawdown).  The metrics of the  *)
(* windows are stood in for by whether a session closes weak.                 *)
EXTENDS Integers, FiniteSets

CONSTANTS
  Sessions, PerSession,   \* trading sessions, and observable events of each
  CoveredEvents,          \* observed events that make a covered session
  WatchWeak, QuarantineWeak, RecoverySessions, RetireWeak, RetireTrades

ASSUME HealthAssumption ==
  /\ {Sessions, PerSession, WatchWeak, QuarantineWeak, RecoverySessions} \subseteq Nat \ {0}
  /\ {CoveredEvents, RetireTrades} \subseteq Nat
  /\ RetireWeak \in Nat /\ RetireWeak >= QuarantineWeak

VARIABLES
  opened,       \* sessions that have begun
  observed,     \* evidence.processed_event_ids, as [day, event]
  record,       \* evidence.sessions
  trades,       \* closed trades, counted up to RetireTrades
  status,       \* evidence.status, which the strategy's state follows
  blocked,      \* evidence.operational_status is operational_blocked
  observations, \* D1 strategy_health rows of kind bar
  incidents     \* D1 incidents of kind release_operational_block, by event

healthEvidence == <<observed, record, trades>>
healthVars == <<opened, healthEvidence, status, blocked, observations, incidents>>

Observation == [day: 1..Sessions, event: 1..PerSession]
NoRecord == [operational |-> {}, incident |-> FALSE, hard |-> FALSE, completed |-> FALSE,
             valid |-> FALSE, class |-> "pending"]

HealthInit ==
  /\ opened = 1
  /\ observed = {} /\ trades = 0
  /\ record = [d \in 1..Sessions |-> NoRecord]
  /\ status = "released_paper" /\ blocked = FALSE
  /\ observations = {} /\ incidents = [open |-> {}, resolved |-> {}]

-----------------------------------------------------------------------------
(* The decision: evaluateHealthDecision over the completed sessions.         *)
Complete == {d \in 1..Sessions : record'[d].completed}
LatestSession == CHOOSE d \in Complete : \A e \in Complete : e <= d
ValidSessions == {d \in Complete : record'[d].valid}

\* Mutant: every completed session counts, the blocked ones too.
TrailingComplete(class) ==
  Cardinality({d \in Complete : \A e \in Complete : e >= d => record'[e].class # "healthy"})

\* trailingCount: the valid sessions after the last one of another class.
Trailing(class) ==
  Cardinality({d \in ValidSessions :
                 \A e \in ValidSessions : e >= d => record'[e].class = class})

WindowOutcome ==
  LET weak == Trailing("weak") IN
  CASE status = "quarantined" ->
         IF weak >= RetireWeak /\ trades' >= RetireTrades THEN "retired" ELSE status
    [] status # "quarantined" /\ weak >= QuarantineWeak -> "quarantined"
    [] status = "watch" /\ weak < QuarantineWeak ->
         IF Trailing("healthy") >= RecoverySessions THEN "healthy" ELSE status
    [] OTHER -> IF weak >= WatchWeak THEN "watch" ELSE "healthy"

Faults(r) == r.operational # {} \/ r.incident

\* Mutant: a session that cannot be judged is decided by the windows.
SessionDecisionUnblocked ==
  IF record'[LatestSession].hard THEN [outcome |-> "quarantined", blocked |-> FALSE]
  ELSE [outcome |-> WindowOutcome, blocked |-> FALSE]

SessionDecision ==
  CASE record'[LatestSession].hard -> [outcome |-> "quarantined", blocked |-> FALSE]
    [] ~record'[LatestSession].hard /\ (~record'[LatestSession].valid \/ Faults(record'[LatestSession])) ->
         [outcome |-> status, blocked |-> TRUE]
    [] OTHER -> [outcome |-> WindowOutcome, blocked |-> FALSE]

-----------------------------------------------------------------------------
(* applyHealthDecision and its store.                                        *)
OperationalEvents ==
  UNION {{[day |-> d, event |-> n] : n \in record'[d].operational} : d \in 1..Sessions}

\* Mutant: the insert overwrites on conflict, so resolved incidents open again.
PersistReopened(decision) ==
  LET open == incidents.open \cup OperationalEvents
      resolved == [open |-> {}, resolved |-> incidents.resolved \cup open]
  IN incidents' \in {[incidents EXCEPT !.open = open], resolved}

\* persistDecision opens the incidents of all findings, once each; a ready
\* decision then resolves the open ones.
PersistDecision(decision) ==
  LET open == incidents.open \cup (OperationalEvents \ incidents.resolved)
      written == [incidents EXCEPT !.open = open]
      resolved == [open |-> {}, resolved |-> incidents.resolved \cup open]
  IN incidents' \in {incidents, written, IF decision.blocked THEN written ELSE resolved}

ApplyHealth(decision) ==
  /\ status' = decision.outcome
  /\ blocked' = decision.blocked
  /\ PersistDecision(decision)

\* The store, or the artifact, throws before anything of the decision is applied.
HealthFails == UNCHANGED <<status, blocked, incidents>>

-----------------------------------------------------------------------------
(* compute_targets on a monitored strategy: recordHealthObservation.         *)
Observed(e, finding) ==
  record' = [record EXCEPT
    ![e.day].hard = @ \/ finding = "hard",
    ![e.day].operational = IF finding = "operational" THEN @ \cup {e.event} ELSE @]

ImmediateDecision(finding) ==
  CASE finding = "hard" -> ApplyHealth([outcome |-> "quarantined", blocked |-> FALSE])
    [] finding = "operational" -> ApplyHealth([outcome |-> status, blocked |-> TRUE])
    [] OTHER -> HealthFails

\* The observation is journalled before the decision.  A retry is a duplicate.
Observe(e, finding) ==
  /\ status # "retired"
  /\ e.day <= opened /\ e \notin observed
  /\ observed' = observed \cup {e}
  /\ Observed(e, finding)
  /\ trades' \in {trades, trades + 1} /\ trades' <= RetireTrades
  /\ \/ UNCHANGED observations /\ HealthFails
     \/ /\ observations' = observations \cup {e}
        /\ ImmediateDecision(finding) \/ HealthFails
  /\ UNCHANGED opened

\* finalizeHealthSession: the class of a session is given once.
Judge(d, incident, weak) ==
  LET r == record[d]
      events == {e \in observed : e.day = d}
      valid == Cardinality(events) >= CoveredEvents /\ ~Faults(r) /\ ~incident /\ ~r.hard
  IN [r EXCEPT !.incident = incident, !.completed = TRUE, !.valid = valid,
               !.class = IF ~valid THEN "blocked" ELSE IF weak THEN "weak" ELSE "healthy"]

Judgements(d) ==
  IF record[d].completed THEN {record[d]}
  ELSE {Judge(d, incident, weak) : incident, weak \in BOOLEAN}

\* pipeline.monitor at the close, and every redelivery of it.
CloseHealthSession(d) ==
  /\ status # "retired"
  /\ d <= opened
  /\ \E r \in Judgements(d) : record' = [record EXCEPT ![d] = r]
  /\ UNCHANGED <<opened, observed, trades, observations>>
  /\ ApplyHealth(SessionDecision) \/ HealthFails

NextSession ==
  /\ opened < Sessions
  /\ opened' = opened + 1
  /\ UNCHANGED <<healthEvidence, status, blocked, observations, incidents>>

HealthNext ==
  \/ \E e \in Observation, finding \in {"clean", "operational", "hard"} : Observe(e, finding)
  \/ \E d \in 1..Sessions : CloseHealthSession(d)
  \/ NextSession

HealthSpec == HealthInit /\ [][HealthNext]_healthVars
-----------------------------------------------------------------------------
(* Properties *)

(* Evidence and journal stay well-formed: only what was observed is          *)
(* journalled, and an incident is never open and resolved at once.           *)
HealthTypeOK ==
  /\ opened \in 1..Sessions
  /\ observations \subseteq observed /\ observed \subseteq Observation
  /\ trades \in 0..RetireTrades
  /\ status \in {"released_paper", "healthy", "watch", "quarantined", "retired"}
  /\ blocked \in BOOLEAN
  /\ \A d \in 1..Sessions :
       record[d].valid => record[d].completed /\ record[d].class \in {"weak", "healthy"}
  /\ incidents.open \intersect incidents.resolved = {}
  /\ incidents.open \cup incidents.resolved \subseteq observed

WeakSessions == {d \in 1..Sessions : record[d].valid /\ record[d].class = "weak"}

(* README.md: "Infrastructure failures never create promote, rework, or drop *)
(* decisions."  Whatever gaps, operational findings, failed stores and       *)
(* redelivered closes there were, a strategy is quarantined only for a hard  *)
(* finding or for enough weak sessions, watched or retired only for enough   *)
(* weak sessions, and retired only with enough trades.                       *)
InfrastructureNeverDrops ==
  /\ status = "watch" => Cardinality(WeakSessions) >= WatchWeak
  /\ status = "quarantined" =>
       \/ \E d \in 1..Sessions : record[d].hard
       \/ Cardinality(WeakSessions) >= QuarantineWeak
  /\ status = "retired" => Cardinality(WeakSessions) >= RetireWeak /\ trades >= RetireTrades

(* worker/index.js: "A complete fault-free health session restored           *)
(* monitoring".  An operational block gives way to the status quarantined,   *)
(* whatever finding gave it, or to a last completed session that is valid    *)
(* and has no fault.                                                         *)
BlockLifts ==
  [][blocked /\ ~blocked' =>
       \/ status' = "quarantined"
       \/ \E d \in 1..Sessions :
            /\ record'[d].valid /\ record'[d].operational = {} /\ ~record'[d].incident
            /\ \A e \in 1..Sessions : record'[e].completed => e <= d]_healthVars
=============================================================================

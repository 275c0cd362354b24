--------------------------- MODULE TradingDayProofs ---------------------------
(* Theorems about the modules of the trading day: the health of a released    *)
(* strategy (ReleaseHealth), the commands planned from the live bars          *)
(* (LiveSession), the incubation of a strategy (IncubationWindow), and what   *)
(* they come to beside the rollout (MCTradingDay).                            *)
EXTENDS MCTradingDay, RolloutProofs, FiniteSetTheorems

-----------------------------------------------------------------------------
(* Finite sets of numbers.                                                    *)

(* A nonempty set of numbers up to n has a last one: the set of those after   *)
(* it is smallest (the latest completed session, monitoring.js).              *)
LEMMA LastExists ==
  ASSUME NEW n \in Nat, NEW S \in SUBSET (1..n), S # {}
  PROVE  \E d \in S : \A e \in S : e <= d
<1> DEFINE After(d) == {e \in S : e > d}
           Tails == {After(d) : d \in S}
<1>1. IsFiniteSet(S)
  <2>1. IsFiniteSet(1..n)
    BY FS_Interval
  <2> QED
    BY <2>1, FS_Subset
<1>2. \A d \in S : After(d) \in FiniteSubsetsOf(S)
  BY <1>1, FS_Subset DEF FiniteSubsetsOf
<1>3. Tails \subseteq FiniteSubsetsOf(S) /\ Tails # {}
  BY <1>2
<1>4. PICK T \in Tails : \A U \in Tails : <<U, T>> \notin StrictSubsetOrdering(S)
  <2> HIDE DEF Tails
  <2> QED
    BY <1>3, FS_StrictSubsetOrderingWellFounded, WFMin
<1>5. PICK d \in S : T = After(d)
  BY <1>4
<1>6. ASSUME NEW e \in S, e > d PROVE FALSE
  <2>1. After(e) \in Tails /\ After(e) \in SUBSET S /\ After(d) \in SUBSET S
    OBVIOUS
  <2>2. After(e) \subseteq After(d) /\ e \in After(d) /\ e \notin After(e)
    <3>1. e \in Int /\ d \in Int /\ \A x \in S : x \in Int
      OBVIOUS
    <3>2. (\A x \in S : x > e => x > d) /\ ~(e > e)
      BY <3>1, <1>6
    <3> QED
      BY <3>2, <1>6, Zenon
  <2>3. <<After(e), T>> \notin StrictSubsetOrdering(S)
    BY <2>1, <1>4
  <2> HIDE DEF After, Tails
  <2>4. <<After(e), After(d)>> \in StrictSubsetOrdering(S)
    BY <2>1, <2>2 DEF StrictSubsetOrdering
  <2> QED
    BY <2>3, <2>4, <1>5
<1> QED
  BY <1>5, <1>6

-----------------------------------------------------------------------------
(* ReleaseHealth: what the evidence may hold.                                 *)
HealthStatus == {"released_paper", "healthy", "watch", "quarantined", "retired"}

HealthRecord ==
  [operational: SUBSET (1..PerSession), incident: BOOLEAN, hard: BOOLEAN, completed: BOOLEAN,
   valid: BOOLEAN, class: {"pending", "blocked", "weak", "healthy"}]

(* A session is valid only when it was judged so, and a finding belongs to an *)
(* observed event.                                                            *)
EvidenceTyped ==
  /\ opened \in 1..Sessions
  /\ observed \in SUBSET Observation /\ observations \in SUBSET observed
  /\ record \in [1..Sessions -> HealthRecord]
  /\ trades \in 0..RetireTrades
  /\ \A d \in 1..Sessions :
       /\ record[d].valid => record[d].completed /\ record[d].class \in {"weak", "healthy"}
       /\ \A n \in record[d].operational : [day |-> d, event |-> n] \in observed

(* The incidents of D1 are about observed events, each open or resolved.      *)
StandingTyped ==
  /\ status \in HealthStatus /\ blocked \in BOOLEAN
  /\ incidents \in [open: SUBSET observed, resolved: SUBSET observed]
  /\ incidents.open \cap incidents.resolved = {}

HealthIInv == EvidenceTyped /\ StandingTyped /\ InfrastructureNeverDrops

(* Evidence is never taken back: a hard finding stays, and so does the class  *)
(* of a valid session.                                                        *)
EvidenceGrows ==
  /\ observed \subseteq observed'
  /\ trades <= trades'
  /\ \A d \in 1..Sessions :
       /\ record[d].hard => record'[d].hard
       /\ record[d].valid => record'[d].valid /\ record'[d].class = record[d].class

(* The evidence there is after the step carries status s.                     *)
EarnedNow(s) ==
  /\ s = "watch" => Cardinality(WeakSessions') >= WatchWeak
  /\ s = "quarantined" =>
       \/ \E d \in 1..Sessions : record'[d].hard
       \/ Cardinality(WeakSessions') >= QuarantineWeak
  /\ s = "retired" => Cardinality(WeakSessions') >= RetireWeak /\ trades' >= RetireTrades
  /\ s \in HealthStatus

LEMMA HealthConstants ==
  /\ Sessions \in Nat /\ Sessions >= 1 /\ PerSession \in Nat /\ RetireTrades \in Nat
  /\ WatchWeak \in Nat /\ QuarantineWeak \in Nat /\ RetireWeak \in Nat
BY HealthAssumption

(* recordHealthObservation adds an observed event and its finding.            *)
LEMMA ObserveEvidence ==
  ASSUME EvidenceTyped, NEW e \in Observation, NEW finding, Observe(e, finding)
  PROVE  EvidenceTyped' /\ EvidenceGrows
<1> DEFINE r == record[e.day]
           hard == r.hard \/ finding = "hard"
           operational == IF finding = "operational" THEN r.operational \cup {e.event}
                          ELSE r.operational
           new == [r EXCEPT !.hard = hard, !.operational = operational]
<1>1. e.day \in 1..Sessions /\ e.event \in 1..PerSession /\ e = [day |-> e.day, event |-> e.event]
  BY DEF Observation
<1>2. r \in HealthRecord
  BY <1>1 DEF EvidenceTyped
<1>3. record' = [record EXCEPT ![e.day] = new]
  BY <1>1 DEF Observe, Observed, EvidenceTyped
<1>4. /\ new \in HealthRecord /\ (r.hard => new.hard)
      /\ new.valid = r.valid /\ new.class = r.class /\ new.completed = r.completed
      /\ new.operational = operational
  <2>1. hard \in BOOLEAN /\ operational \in SUBSET (1..PerSession)
    BY <1>1, <1>2 DEF HealthRecord
  <2> HIDE DEF r, operational, hard
  <2> QED
    BY <1>2, <2>1 DEF HealthRecord, hard
<1>5. observed' = observed \cup {e} /\ opened' = opened
      /\ (observations' = observations \/ observations' = observations \cup {e})
      /\ trades' \in {trades, trades + 1} /\ trades' <= RetireTrades
  BY DEF Observe
<1> HIDE DEF new
<1>6. record' \in [1..Sessions -> HealthRecord] /\ record'[e.day] = new
      /\ \A d \in 1..Sessions : d # e.day => record'[d] = record[d]
  BY <1>1, <1>3, <1>4 DEF EvidenceTyped
<1>7. ASSUME NEW d \in 1..Sessions
      PROVE  /\ record'[d].valid => record'[d].completed /\ record'[d].class \in {"weak", "healthy"}
             /\ \A n \in record'[d].operational : [day |-> d, event |-> n] \in observed'
             /\ record[d].hard => record'[d].hard
             /\ record[d].valid => record'[d].valid /\ record'[d].class = record[d].class
  <2>1. CASE d # e.day
    BY <2>1, <1>5, <1>6 DEF EvidenceTyped
  <2>2. CASE d = e.day
    <3>1. \A n \in operational : [day |-> d, event |-> n] \in observed'
      BY <2>2, <1>1, <1>5 DEF EvidenceTyped
    <3> QED
      BY <3>1, <2>2, <1>4, <1>6 DEF EvidenceTyped
  <2> QED
    BY <2>1, <2>2
<1>8. trades' \in 0..RetireTrades /\ trades <= trades'
  BY <1>5, HealthConstants DEF EvidenceTyped
<1>9. observed' \in SUBSET Observation /\ observations' \in SUBSET observed'
  BY <1>5 DEF EvidenceTyped
<1> QED
  BY <1>5, <1>6, <1>7, <1>8, <1>9 DEF EvidenceTyped, EvidenceGrows

(* finalizeHealthSession judges a session once.                               *)
LEMMA CloseEvidence ==
  ASSUME EvidenceTyped, NEW d \in 1..Sessions, CloseHealthSession(d)
  PROVE  EvidenceTyped' /\ EvidenceGrows /\ record'[d].completed
<1>1. PICK r \in Judgements(d) : record' = [record EXCEPT ![d] = r]
  BY DEF CloseHealthSession
<1>2. record[d] \in HealthRecord
  BY DEF EvidenceTyped
<1>3. /\ r \in HealthRecord /\ r.completed /\ r.hard = record[d].hard
      /\ r.operational = record[d].operational
      /\ r.valid => r.class \in {"weak", "healthy"}
      /\ record[d].valid => r = record[d]
  <2>1. CASE record[d].completed
    BY <2>1, <1>2 DEF Judgements, EvidenceTyped
  <2>2. CASE ~record[d].completed
    <3>1. PICK incident \in BOOLEAN, weak \in BOOLEAN : r = Judge(d, incident, weak)
      BY <2>2 DEF Judgements
    <3> DEFINE valid == Cardinality({e \in observed : e.day = d}) >= CoveredEvents
                          /\ ~Faults(record[d]) /\ ~incident /\ ~record[d].hard
    <3>2. r = [record[d] EXCEPT !.incident = incident, !.completed = TRUE, !.valid = valid,
                 !.class = IF ~valid THEN "blocked" ELSE IF weak THEN "weak" ELSE "healthy"]
      BY <3>1 DEF Judge
    <3>3. valid \in BOOLEAN
      OBVIOUS
    <3> HIDE DEF valid
    <3>4. ~record[d].valid
      BY <2>2 DEF EvidenceTyped
    <3> QED
      BY <3>2, <3>3, <3>4, <1>2 DEF HealthRecord
  <2> QED
    BY <2>1, <2>2
<1>4. record' \in [1..Sessions -> HealthRecord] /\ record'[d] = r
      /\ \A e \in 1..Sessions : e # d => record'[e] = record[e]
  BY <1>1, <1>3 DEF EvidenceTyped
<1>5. UNCHANGED <<opened, observed, trades, observations>>
  BY DEF CloseHealthSession
<1>6. ASSUME NEW e \in 1..Sessions
      PROVE  /\ record'[e].valid => record'[e].completed /\ record'[e].class \in {"weak", "healthy"}
             /\ \A n \in record'[e].operational : [day |-> e, event |-> n] \in observed'
             /\ record[e].hard => record'[e].hard
             /\ record[e].valid => record'[e].valid /\ record'[e].class = record[e].class
  BY <1>3, <1>4, <1>5 DEF EvidenceTyped
<1>7. trades <= trades'
  BY <1>5, HealthConstants DEF EvidenceTyped
<1> QED
  BY <1>3, <1>4, <1>5, <1>6, <1>7 DEF EvidenceTyped, EvidenceGrows

(* What the weak sessions count grows.                                        *)
LEMMA WeakSessionsGrow ==
  ASSUME EvidenceTyped, EvidenceTyped', EvidenceGrows
  PROVE  /\ Cardinality(WeakSessions) \in Nat /\ Cardinality(WeakSessions') \in Nat
         /\ Cardinality(WeakSessions) <= Cardinality(WeakSessions')
         /\ IsFiniteSet(WeakSessions')
<1>1. WeakSessions \in SUBSET WeakSessions'
  BY DEF WeakSessions, EvidenceGrows
<1>2. WeakSessions' \in SUBSET (1..Sessions)
  BY DEF WeakSessions
<1>3. IsFiniteSet(1..Sessions)
  BY HealthConstants, FS_Interval
<1>4. IsFiniteSet(WeakSessions')
  BY <1>2, <1>3, FS_Subset
<1>5. IsFiniteSet(WeakSessions) /\ Cardinality(WeakSessions) <= Cardinality(WeakSessions')
  BY <1>1, <1>4, FS_Subset
<1> QED
  BY <1>4, <1>5, FS_CardinalityType

(* A status earned before is earned still.                                    *)
LEMMA StatusStaysEarned ==
  ASSUME HealthIInv, EvidenceTyped', EvidenceGrows
  PROVE  EarnedNow(status)
<1>1. /\ Cardinality(WeakSessions) \in Nat /\ Cardinality(WeakSessions') \in Nat
      /\ Cardinality(WeakSessions) <= Cardinality(WeakSessions')
  BY WeakSessionsGrow DEF HealthIInv
<1>2. trades \in Int /\ trades' \in Int /\ trades <= trades'
  BY DEF HealthIInv, EvidenceTyped, EvidenceGrows
<1>3. \A d \in 1..Sessions : record[d].hard => record'[d].hard
  BY DEF EvidenceGrows
<1> QED
  BY <1>1, <1>2, <1>3, HealthConstants
  DEF HealthIInv, StandingTyped, InfrastructureNeverDrops, EarnedNow

(* What evaluateHealthDecision makes of the windows is earned: a trailing run *)
(* of weak sessions is no longer than all the weak sessions there are.        *)
LEMMA WindowsAreEarned ==
  ASSUME HealthIInv, EvidenceTyped', EvidenceGrows
  PROVE  EarnedNow(WindowOutcome)
<1> DEFINE weak == Trailing("weak")
<1>1. weak \in Nat /\ weak <= Cardinality(WeakSessions') /\ Cardinality(WeakSessions') \in Nat
  <2> DEFINE run == {d \in ValidSessions :
                       \A e \in ValidSessions : e >= d => record'[e].class = "weak"}
  <2>1. \A d \in ValidSessions : d \in 1..Sessions /\ record'[d].valid /\ d >= d
    BY DEF ValidSessions, Complete
  <2>2. run \in SUBSET WeakSessions'
    BY <2>1 DEF WeakSessions
  <2>3. IsFiniteSet(run) /\ Cardinality(run) <= Cardinality(WeakSessions')
    BY <2>2, WeakSessionsGrow, FS_Subset DEF HealthIInv
  <2>4. weak = Cardinality(run)
    BY DEF Trailing
  <2> QED
    BY <2>3, <2>4, FS_CardinalityType, WeakSessionsGrow DEF HealthIInv
<1>2. EarnedNow(status)
  BY StatusStaysEarned
<1>3. \/ WindowOutcome = status
      \/ WindowOutcome = "retired" /\ weak >= RetireWeak /\ trades' >= RetireTrades
      \/ WindowOutcome = "quarantined" /\ weak >= QuarantineWeak
      \/ WindowOutcome = "healthy"
      \/ WindowOutcome = "watch" /\ weak >= WatchWeak
  <2> HIDE DEF weak
  <2>1. WindowOutcome =
          CASE status = "quarantined" ->
                 IF weak >= RetireWeak /\ trades' >= RetireTrades THEN "retired" ELSE status
            [] status # "quarantined" /\ weak >= QuarantineWeak -> "quarantined"
            [] status = "watch" /\ weak < QuarantineWeak ->
                 IF Trailing("healthy") >= RecoverySessions THEN "healthy" ELSE status
            [] OTHER -> IF weak >= WatchWeak THEN "watch" ELSE "healthy"
    BY DEF WindowOutcome, weak
  <2> QED
    BY <2>1, <1>1, HealthConstants
<1> HIDE DEF weak
<1> QED
  BY <1>1, <1>2, <1>3, HealthConstants DEF EarnedNow, HealthStatus

(* The decision at the end of a session is earned, and a decision that is not *)
(* blocked quarantines for a hard finding or rests on a last completed        *)
(* session without a fault.                                                   *)
LEMMA SessionDecisionEarned ==
  ASSUME HealthIInv, EvidenceTyped', EvidenceGrows, NEW d \in 1..Sessions, record'[d].completed
  PROVE  /\ EarnedNow(SessionDecision.outcome)
         /\ SessionDecision.blocked \in BOOLEAN
         /\ ~SessionDecision.blocked =>
              \/ SessionDecision.outcome = "quarantined"
              \/ \E e \in 1..Sessions :
                   /\ record'[e].valid /\ record'[e].operational = {} /\ ~record'[e].incident
                   /\ \A x \in 1..Sessions : record'[x].completed => x <= e
<1> DEFINE last == LatestSession
<1>1. Complete \in SUBSET (1..Sessions) /\ Complete # {}
  BY DEF Complete
<1>2. \E e \in Complete : \A x \in Complete : x <= e
  BY <1>1, HealthConstants, LastExists
<1>3. last \in Complete /\ \A x \in Complete : x <= last
  BY <1>2 DEF LatestSession
<1>4. last \in 1..Sessions /\ \A x \in 1..Sessions : record'[x].completed => x <= last
  BY <1>3 DEF Complete
<1>5. SessionDecision =
        CASE record'[last].hard -> [outcome |-> "quarantined", blocked |-> FALSE]
          [] ~record'[last].hard /\ (~record'[last].valid \/ Faults(record'[last])) ->
               [outcome |-> status, blocked |-> TRUE]
          [] OTHER -> [outcome |-> WindowOutcome, blocked |-> FALSE]
  BY DEF SessionDecision
<1> HIDE DEF last
<1>6. CASE record'[last].hard
  <2>1. SessionDecision = [outcome |-> "quarantined", blocked |-> FALSE]
    BY <1>5, <1>6
  <2> QED
    BY <2>1, <1>4, <1>6 DEF EarnedNow, HealthStatus
<1>7. CASE ~record'[last].hard /\ (~record'[last].valid \/ Faults(record'[last]))
  <2>1. SessionDecision = [outcome |-> status, blocked |-> TRUE]
    BY <1>5, <1>7
  <2> QED
    BY <2>1, StatusStaysEarned
<1>8. CASE ~record'[last].hard /\ record'[last].valid /\ ~Faults(record'[last])
  <2>1. SessionDecision = [outcome |-> WindowOutcome, blocked |-> FALSE]
    BY <1>5, <1>8
  <2>2. record'[last].operational = {} /\ ~record'[last].incident
    BY <1>8 DEF Faults
  <2> QED
    BY <2>1, <2>2, <1>4, <1>8, WindowsAreEarned
<1> QED
  BY <1>6, <1>7, <1>8

(* applyHealthDecision keeps the incidents of D1 apart.                       *)
LEMMA IncidentsStayApart ==
  ASSUME StandingTyped, EvidenceTyped', EvidenceGrows, NEW decision,
         PersistDecision(decision) \/ incidents' = incidents
  PROVE  /\ incidents' \in [open: SUBSET observed', resolved: SUBSET observed']
         /\ incidents'.open \cap incidents'.resolved = {}
<1> DEFINE open == incidents.open \cup (OperationalEvents \ incidents.resolved)
           written == [incidents EXCEPT !.open = open]
           resolved == [open |-> {}, resolved |-> incidents.resolved \cup open]
<1>1. OperationalEvents \in SUBSET observed'
  BY DEF OperationalEvents, EvidenceTyped
<1>2. /\ incidents \in [open: SUBSET observed', resolved: SUBSET observed']
      /\ incidents.open \cap incidents.resolved = {}
  BY DEF StandingTyped, EvidenceGrows
<1>3. incidents' \in {incidents, written, resolved}
  BY DEF PersistDecision
<1>4. written = [open |-> open, resolved |-> incidents.resolved]
  BY <1>2
<1>5. open \in SUBSET observed' /\ open \cap incidents.resolved = {}
  BY <1>1, <1>2
<1> HIDE DEF written, open
<1> QED
  BY <1>2, <1>3, <1>4, <1>5
(* What a step does to the standing of a strategy: it is left alone, or a     *)
(* decision is applied that the evidence carries.                             *)
Decides(decision) == ApplyHealth(decision) /\ EarnedNow(decision.outcome) /\ decision.blocked \in BOOLEAN

LEMMA StandingStep ==
  ASSUME HealthIInv, EvidenceTyped', EvidenceGrows, NEW decision,
         Decides(decision) \/ HealthFails
  PROVE  HealthIInv'
<1>1. EarnedNow(status') /\ blocked' \in BOOLEAN
  <2>1. CASE HealthFails
    BY <2>1, StatusStaysEarned DEF HealthFails, HealthIInv, StandingTyped
  <2>2. CASE Decides(decision)
    BY <2>2 DEF Decides, ApplyHealth
  <2> QED
    BY <2>1, <2>2
<1>2. PersistDecision(decision) \/ incidents' = incidents
  BY DEF Decides, ApplyHealth, HealthFails
<1>3. /\ incidents' \in [open: SUBSET observed', resolved: SUBSET observed']
      /\ incidents'.open \cap incidents'.resolved = {}
  BY <1>2, IncidentsStayApart DEF HealthIInv
<1>4. StandingTyped'
  BY <1>1, <1>3 DEF StandingTyped, EarnedNow
<1>5. InfrastructureNeverDrops'
  BY <1>1 DEF EarnedNow, InfrastructureNeverDrops
<1> QED
  BY <1>4, <1>5 DEF HealthIInv

(* The step of BlockLifts.                                                    *)
LiftedByEvidence ==
  blocked /\ ~blocked' =>
    \/ status' = "quarantined"
    \/ \E d \in 1..Sessions :
         /\ record'[d].valid /\ record'[d].operational = {} /\ ~record'[d].incident
         /\ \A e \in 1..Sessions : record'[e].completed => e <= d

LEMMA ObserveStep ==
  ASSUME HealthIInv, NEW e \in Observation, NEW finding, Observe(e, finding)
  PROVE  HealthIInv' /\ LiftedByEvidence
<1>1. EvidenceTyped' /\ EvidenceGrows
  BY ObserveEvidence DEF HealthIInv
<1>2. EarnedNow(status)
  BY <1>1, StatusStaysEarned
<1> DEFINE hard == [outcome |-> "quarantined", blocked |-> FALSE]
           operational == [outcome |-> status, blocked |-> TRUE]
<1>3. \/ HealthFails
      \/ finding = "hard" /\ ApplyHealth(hard)
      \/ ApplyHealth(operational)
  BY DEF Observe, ImmediateDecision
<1>4. CASE HealthFails
  <2>1. HealthIInv'
    BY <1>1, <1>4, StandingStep
  <2> QED
    BY <2>1, <1>4 DEF HealthFails, LiftedByEvidence
<1>5. CASE finding = "hard" /\ ApplyHealth(hard)
  <2>1. record'[e.day].hard /\ e.day \in 1..Sessions
    <3>1. record' = [record EXCEPT
            ![e.day].hard = @ \/ finding = "hard",
            ![e.day].operational = IF finding = "operational" THEN @ \cup {e.event} ELSE @]
      BY DEF Observe, Observed
    <3>2. e.day \in 1..Sessions /\ record[e.day] \in HealthRecord
      BY DEF Observation, HealthIInv, EvidenceTyped
    <3> QED
      BY <3>1, <3>2, <1>5 DEF HealthRecord, HealthIInv, EvidenceTyped
  <2>2. Decides(hard)
    BY <2>1, <1>5 DEF Decides, EarnedNow, HealthStatus
  <2>3. HealthIInv'
    BY <2>2, <1>1, StandingStep
  <2> QED
    BY <2>3, <1>5 DEF ApplyHealth, LiftedByEvidence
<1>6. CASE ApplyHealth(operational)
  <2>1. Decides(operational)
    BY <1>2, <1>6 DEF Decides
  <2>2. HealthIInv'
    BY <2>1, <1>1, StandingStep
  <2> QED
    BY <2>2, <1>6 DEF ApplyHealth, LiftedByEvidence
<1> QED
  BY <1>3, <1>4, <1>5, <1>6

LEMMA CloseSessionStep ==
  ASSUME HealthIInv, NEW d \in 1..Sessions, CloseHealthSession(d)
  PROVE  HealthIInv' /\ LiftedByEvidence
<1>1. EvidenceTyped' /\ EvidenceGrows /\ record'[d].completed
  BY CloseEvidence DEF HealthIInv
<1> DEFINE decision == SessionDecision
<1>2. /\ EarnedNow(decision.outcome) /\ decision.blocked \in BOOLEAN
      /\ ~decision.blocked =>
           \/ decision.outcome = "quarantined"
           \/ \E e \in 1..Sessions :
                /\ record'[e].valid /\ record'[e].operational = {} /\ ~record'[e].incident
                /\ \A x \in 1..Sessions : record'[x].completed => x <= e
  BY <1>1, SessionDecisionEarned
<1>3. ApplyHealth(decision) \/ HealthFails
  BY DEF CloseHealthSession
<1> HIDE DEF decision
<1>4. Decides(decision) \/ HealthFails
  BY <1>2, <1>3 DEF Decides
<1>5. HealthIInv'
  BY <1>1, <1>4, StandingStep
<1>6. LiftedByEvidence
  BY <1>2, <1>3 DEF ApplyHealth, HealthFails, LiftedByEvidence
<1> QED
  BY <1>5, <1>6

LEMMA NextSessionStep ==
  ASSUME HealthIInv, NextSession
  PROVE  HealthIInv' /\ LiftedByEvidence
<1>1. /\ opened < Sessions /\ opened' = opened + 1
      /\ UNCHANGED <<observed, record, trades, status, blocked, observations, incidents>>
  BY DEF NextSession, healthEvidence
<1>2. opened' \in 1..Sessions
  BY <1>1, HealthConstants DEF HealthIInv, EvidenceTyped
<1>3. WeakSessions' = WeakSessions
  BY <1>1 DEF WeakSessions
<1> QED
  BY <1>1, <1>2, <1>3
  DEF HealthIInv, EvidenceTyped, StandingTyped, InfrastructureNeverDrops, LiftedByEvidence

LEMMA HealthStep ==
  ASSUME HealthIInv, [HealthNext]_healthVars
  PROVE  HealthIInv' /\ LiftedByEvidence
<1>1. CASE HealthNext
  BY <1>1, ObserveStep, CloseSessionStep, NextSessionStep DEF HealthNext
<1>2. CASE UNCHANGED healthVars
  <2>1. UNCHANGED <<opened, observed, record, trades, status, blocked, observations, incidents>>
    BY <1>2 DEF healthVars, healthEvidence
  <2>2. WeakSessions' = WeakSessions
    BY <2>1 DEF WeakSessions
  <2> QED
    BY <2>1, <2>2
    DEF HealthIInv, EvidenceTyped, StandingTyped, InfrastructureNeverDrops, LiftedByEvidence
<1> QED
  BY <1>1, <1>2

LEMMA HealthStart == HealthInit => HealthIInv
<1> SUFFICES ASSUME HealthInit PROVE HealthIInv
  OBVIOUS
<1>1. NoRecord \in HealthRecord /\ NoRecord.valid = FALSE /\ NoRecord.operational = {}
  BY DEF NoRecord, HealthRecord
<1>2. \A d \in 1..Sessions : record[d] = NoRecord
  BY DEF HealthInit
<1>3. record \in [1..Sessions -> HealthRecord]
  BY <1>1 DEF HealthInit
<1>4. EvidenceTyped
  BY <1>1, <1>2, <1>3, HealthConstants DEF HealthInit, EvidenceTyped
<1> QED
  BY <1>4 DEF HealthInit, HealthIInv, StandingTyped, InfrastructureNeverDrops, HealthStatus

(* Whatever is observed, closed late, closed again or lost, the evidence keeps *)
(* its shape and carries the status: the inductive invariant of monitoring.js. *)
THEOREM HealthInvariant == HealthSpec => []HealthIInv
<1>1. HealthInit => HealthIInv
  BY HealthStart
<1>2. HealthIInv /\ [HealthNext]_healthVars => HealthIInv'
  BY HealthStep
<1> QED
  BY <1>1, <1>2, PTL DEF HealthSpec

(* Evidence and journal of a released strategy stay well-formed.              *)
THEOREM HealthWellFormed == HealthSpec => []HealthTypeOK
<1>1. HealthIInv => HealthTypeOK
  BY DEF HealthIInv, EvidenceTyped, StandingTyped, HealthStatus, HealthTypeOK
<1> QED
  BY <1>1, HealthInvariant, PTL

(* A failing infrastructure never watches, quarantines or retires a strategy: *)
(* only hard findings and enough weak sessions do (monitoring.js).            *)
THEOREM FaultsNeverDrop == HealthSpec => []InfrastructureNeverDrops
<1>1. HealthIInv => InfrastructureNeverDrops
  BY DEF HealthIInv
<1> QED
  BY <1>1, HealthInvariant, PTL

(* An operational block is lifted only by a quarantine or by a last completed *)
(* session that is valid and has no fault (evaluateHealthDecision).           *)
THEOREM BlocksLiftOnEvidence == HealthSpec => BlockLifts
<1>1. HealthIInv /\ [HealthNext]_healthVars => [LiftedByEvidence]_healthVars
  BY HealthStep
<1>2. BlockLifts <=> [][LiftedByEvidence]_healthVars
  BY DEF BlockLifts, LiftedByEvidence
<1> QED
  BY <1>1, <1>2, HealthInvariant, PTL DEF HealthSpec
-----------------------------------------------------------------------------
(* IncubationWindow: what the evidence of a strategy may hold.                *)
SessionRecord == [events: SUBSET Event, fault: BOOLEAN, completed: BOOLEAN, valid: BOOLEAN]
TargetRecord == [dir: Directions, aimed: Int]
PositionRecord == [dir: Directions, aimed: Int, at: Int, opened: Int]

(* A verdict is only on a day whose close command was submitted, and a        *)
(* position was filled by an event that was processed.                        *)
IncubationTyped ==
  /\ now \in 0..(Days * Bars)
  /\ issued \in SUBSET Event /\ processed \in SUBSET issued
  /\ due \in SUBSET (1..Days)
  /\ sessions \in [1..Days -> SessionRecord]
  /\ \A d \in 1..Days :
       /\ sessions[d].events \subseteq processed
       /\ sessions[d].valid => sessions[d].completed
       /\ sessions[d].completed => d \in due
  /\ pending \in [Symbols -> TargetRecord]
  /\ \A s \in Symbols : pending[s].aimed \in -1..now
  /\ position \in [Symbols -> PositionRecord]
  /\ \A s \in Symbols : position[s] # Flat =>
       /\ position[s].dir # 0 /\ position[s].at \in 1..now
       /\ \E e \in processed : e.bar = position[s].opened
  /\ ledger \in SUBSET Trade
  /\ \A r \in dayRows : r.day \in 1..Days

IncubationIInv == IncubationTyped /\ JournalHolds

(* A verdict given stays, and so does a trade the gate counts on a valid day. *)
VerdictsStay ==
  /\ \A d \in 1..Days : sessions[d].completed =>
       sessions'[d].completed /\ sessions'[d].valid = sessions[d].valid
  /\ \A t \in ledger : t.eligible /\ sessions[t.day].valid => t \in ledger'

(* The step of ReleaseEarned.                                                 *)
EarnsRelease ==
  stage' = "released_paper" /\ stage # "released_paper" =>
    /\ Cardinality({d \in 1..Days : sessions'[d].valid}) >= MinDays
    /\ Cardinality({t \in ledger' : t.eligible}) >= MinTrades
    /\ ~\E d \in 1..Days : sessions'[d].fault /\ ~sessions'[d].completed

LEMMA IncubationConstants ==
  /\ Days \in Nat /\ Days >= 1 /\ Bars \in Nat /\ Bars >= 1 /\ Days * Bars \in Nat
  /\ 0 \in Directions
BY IncubationAssumption

(* A bar of the window falls on one of its days.                              *)
LEMMA DayOfBar ==
  ASSUME NEW bar \in 1..(Days * Bars)
  PROVE  DayOf(bar) \in 1..Days
<1> DEFINE q == (bar - 1) \div Bars
<1>1. bar \in Int /\ 0 <= bar - 1 /\ bar - 1 < Days * Bars
  BY IncubationConstants
<1>2. q \in Int /\ Bars * q <= bar - 1 /\ bar - 1 < Bars * (q + 1)
  BY <1>1, IncubationConstants
<1> HIDE DEF q
<1>3. q >= 0
  BY <1>1, <1>2, IncubationConstants
<1>4. q < Days
  BY <1>1, <1>2, IncubationConstants
<1> QED
  BY <1>2, <1>3, <1>4, IncubationConstants DEF DayOf, q

(* The journal, written whole or not at all, keeps agreeing with the evidence *)
(* (persistEvidence).                                                         *)
LEMMA JournalAgrees ==
  ASSUME IncubationIInv, VerdictsStay, PersistEvidence \/ UNCHANGED journal,
         sessions' \in [1..Days -> SessionRecord], ledger' \in SUBSET Trade
  PROVE  JournalHolds' /\ \A r \in dayRows' : r.day \in 1..Days
<1>1. ASSUME NEW r \in dayRows
      PROVE  r.day \in 1..Days /\ sessions'[r.day].completed
             /\ r.eligible = sessions'[r.day].valid
  BY DEF IncubationIInv, IncubationTyped, JournalHolds, VerdictsStay
<1>2. ASSUME NEW r \in tradeRows
      PROVE  \E t \in ledger' :
               /\ t.symbol = r.symbol /\ t.opened = r.opened /\ t.closed = r.closed
               /\ t.eligible /\ sessions'[t.day].valid
  <2>1. PICK t \in ledger :
          /\ t.symbol = r.symbol /\ t.opened = r.opened /\ t.closed = r.closed
          /\ t.eligible /\ sessions[t.day].valid
    BY DEF IncubationIInv, JournalHolds
  <2>2. t.day \in 1..Days
    BY <2>1 DEF IncubationIInv, IncubationTyped, Trade
  <2>3. t \in ledger' /\ sessions'[t.day].valid
    BY <2>1, <2>2 DEF VerdictsStay, IncubationIInv, IncubationTyped
  <2> QED
    BY <2>1, <2>3
<1>3. CASE UNCHANGED journal
  BY <1>1, <1>2, <1>3 DEF journal, JournalHolds
<1>4. CASE PersistEvidence
  <2>1. ASSUME NEW r \in dayRows'
        PROVE  r.day \in 1..Days /\ sessions'[r.day].completed
               /\ r.eligible = sessions'[r.day].valid
    BY <1>1, <1>4 DEF PersistEvidence
  <2>2. ASSUME NEW r \in tradeRows'
        PROVE  \E t \in ledger' :
                 /\ t.symbol = r.symbol /\ t.opened = r.opened /\ t.closed = r.closed
                 /\ t.eligible /\ sessions'[t.day].valid
    <3>1. CASE r \in tradeRows
      BY <3>1, <1>2
    <3>2. CASE r \notin tradeRows
      <4>1. PICK t \in {x \in Eligible(ledger') : x.day \in ValidDays(sessions')} :
              r = [symbol |-> t.symbol, opened |-> t.opened, closed |-> t.closed]
        BY <3>2, <1>4 DEF PersistEvidence
      <4>2. t \in ledger' /\ t.eligible /\ sessions'[t.day].valid
        BY <4>1 DEF Eligible, ValidDays
      <4> QED
        BY <4>1, <4>2
    <3> QED
      BY <3>1, <3>2
  <2> QED
    BY <2>1, <2>2 DEF JournalHolds
<1> QED
  BY <1>3, <1>4

(* evaluateIncubationGate releases on enough valid days and eligible trades,  *)
(* without an open fault.                                                     *)
LEMMA GateIsStrict ==
  ASSUME NEW days \in [1..Days -> SessionRecord], NEW all, NEW redundant,
         \A d \in 1..Days : days[d].valid => days[d].completed,
         Outcome(days, all, redundant) = "released_paper"
  PROVE  /\ Cardinality({d \in 1..Days : days[d].valid}) >= MinDays
         /\ Cardinality({t \in all : t.eligible}) >= MinTrades
         /\ ~\E d \in 1..Days : days[d].fault /\ ~days[d].completed
<1>1. ~FaultActive(days) /\ CountersReady(days, Eligible(all))
  BY DEF Outcome
<1>2. ValidDays(days) = {d \in 1..Days : days[d].valid}
  BY DEF ValidDays
<1>3. ~\E d \in DOMAIN days : ~days[d].completed /\ days[d].fault
  BY <1>1 DEF FaultActive
<1> QED
  BY <1>1, <1>2, <1>3 DEF CountersReady, Eligible

LEMMA DecisionEarns ==
  ASSUME NEW outcome, NEW redundant, ApplyDecision(outcome),
         outcome = "released_paper" => Outcome(sessions', ledger', redundant) = "released_paper",
         sessions' \in [1..Days -> SessionRecord],
         \A d \in 1..Days : sessions'[d].valid => sessions'[d].completed
  PROVE  EarnsRelease /\ (PersistEvidence \/ UNCHANGED journal)
<1>1. stage' = "released_paper" /\ stage # "released_paper" => outcome = "released_paper"
  BY DEF ApplyDecision
<1>2. PersistEvidence \/ UNCHANGED journal
  BY DEF ApplyDecision
<1> QED
  BY <1>1, <1>2, GateIsStrict DEF EarnsRelease
(* finalizeIncubationSession gives its verdict once.                          *)
LEMMA CloseDayStep ==
  ASSUME IncubationIInv, NEW d \in 1..Days, CloseDay(d)
  PROVE  IncubationIInv' /\ EarnsRelease
<1>1. PICK incident \in BOOLEAN : FinalizeSession(d, incident)
  BY DEF CloseDay
<1>2. /\ d \in due /\ ApplyDecision(Outcome(sessions', ledger', FALSE))
      /\ UNCHANGED <<now, issued, due, processed, pending, position>>
  BY DEF CloseDay
<1>3. /\ sessions' \in [1..Days -> SessionRecord] /\ ledger' \in SUBSET Trade
      /\ VerdictsStay
      /\ \A e \in 1..Days :
           /\ sessions'[e].events \subseteq processed'
           /\ sessions'[e].valid => sessions'[e].completed
           /\ sessions'[e].completed => e \in due'
  <2>1. CASE sessions[d].completed
    <3>1. sessions' = sessions /\ ledger' = ledger
      BY <1>1, <2>1 DEF FinalizeSession
    <3> QED
      BY <3>1, <1>2 DEF VerdictsStay, IncubationIInv, IncubationTyped
  <2>2. CASE ~sessions[d].completed
    <3> DEFINE fault == sessions[d].fault \/ incident \/ HoldsPosition
               valid == ~fault /\ Cardinality(sessions[d].events) >= Covered
               new == Finalized(d, incident)
    <3>1. sessions[d] \in SessionRecord
      BY DEF IncubationIInv, IncubationTyped
    <3>2. new = [sessions[d] EXCEPT !.fault = fault, !.completed = TRUE, !.valid = valid]
      BY DEF Finalized
    <3>3. fault \in BOOLEAN /\ valid \in BOOLEAN
      BY <3>1 DEF HoldsPosition, SessionRecord
    <3>4. sessions' = [sessions EXCEPT ![d] = new]
          /\ ledger' = IF sessions'[d].valid THEN ledger ELSE Excluding(d)
      BY <1>1, <2>2 DEF FinalizeSession
    <3> HIDE DEF fault, valid, new
    <3>5. new \in SessionRecord /\ new.completed /\ new.events = sessions[d].events
      BY <3>1, <3>2, <3>3 DEF SessionRecord
    <3>6. /\ sessions' \in [1..Days -> SessionRecord] /\ sessions'[d] = new
          /\ \A e \in 1..Days : e # d => sessions'[e] = sessions[e]
      BY <3>4, <3>5 DEF IncubationIInv, IncubationTyped
    <3>7. ASSUME NEW t \in ledger
          PROVE  /\ [t EXCEPT !.eligible = @ /\ t.day # d] \in Trade
                 /\ t.eligible /\ t.day # d => [t EXCEPT !.eligible = @ /\ t.day # d] = t
      <4>1. t \in Trade
        BY DEF IncubationIInv, IncubationTyped
      <4> QED
        BY <4>1 DEF Trade
    <3>8. ledger' \in SUBSET Trade
      BY <3>4, <3>7 DEF Excluding, IncubationIInv, IncubationTyped
    <3>9. ASSUME NEW t \in ledger, t.eligible, sessions[t.day].valid PROVE t \in ledger'
      <4>1. t.day \in 1..Days /\ t.day # d
        BY <2>2, <3>9 DEF Trade, IncubationIInv, IncubationTyped
      <4>2. t = [t EXCEPT !.eligible = @ /\ t.day # d]
        BY <3>7, <3>9, <4>1
      <4>3. t \in Excluding(d)
        BY <4>2 DEF Excluding
      <4> QED
        BY <4>3, <3>4
    <3>10. VerdictsStay
      BY <2>2, <3>6, <3>9 DEF VerdictsStay
    <3> QED
      BY <1>2, <3>5, <3>6, <3>8, <3>10 DEF IncubationIInv, IncubationTyped
  <2> QED
    BY <2>1, <2>2
<1>4. EarnsRelease /\ (PersistEvidence \/ UNCHANGED journal)
  BY <1>2, <1>3, DecisionEarns
<1>5. JournalHolds' /\ \A r \in dayRows' : r.day \in 1..Days
  BY <1>3, <1>4, JournalAgrees
<1> QED
  BY <1>2, <1>3, <1>4, <1>5 DEF IncubationIInv, IncubationTyped

(* pipeline.release asks the gate again.                                      *)
LEMMA ReleaseHeldStep ==
  ASSUME IncubationIInv, ReleaseHeld
  PROVE  IncubationIInv' /\ EarnsRelease
<1>1. /\ UNCHANGED <<now, issued, due, processed, sessions, pending, position, ledger>>
      /\ Outcome(sessions, ledger, peer) = "released_paper"
      /\ ApplyDecision("released_paper")
  BY DEF ReleaseHeld, evidence
<1>2. /\ sessions' \in [1..Days -> SessionRecord] /\ ledger' \in SUBSET Trade
      /\ \A d \in 1..Days : sessions'[d].valid => sessions'[d].completed
      /\ VerdictsStay
  BY <1>1 DEF IncubationIInv, IncubationTyped, VerdictsStay
<1>3. Outcome(sessions', ledger', peer) = "released_paper"
  BY <1>1
<1>4. EarnsRelease /\ (PersistEvidence \/ UNCHANGED journal)
  BY <1>1, <1>2, <1>3, DecisionEarns
<1>5. JournalHolds' /\ \A r \in dayRows' : r.day \in 1..Days
  BY <1>2, <1>4, JournalAgrees
<1> QED
  BY <1>1, <1>4, <1>5 DEF IncubationIInv, IncubationTyped
(* recordIncubationEvent: the position a fill opens, or the trade one closes. *)
LEMMA ComputeEvidence ==
  ASSUME IncubationIInv, NEW e \in Event, e \in issued \ processed,
         NEW seen \in {now, 0}, NEW troubled \in BOOLEAN, NEW gained \in BOOLEAN,
         NEW wanted \in [Symbols -> Directions],
         Record(e, seen, troubled, gained, wanted),
         UNCHANGED <<now, issued, due>>
  PROVE  /\ sessions' \in [1..Days -> SessionRecord] /\ ledger' \in SUBSET Trade
         /\ VerdictsStay
         /\ \A d \in 1..Days :
              /\ sessions'[d].events \subseteq processed'
              /\ sessions'[d].valid => sessions'[d].completed
              /\ sessions'[d].completed => d \in due'
         /\ processed' \in SUBSET issued'
         /\ pending' \in [Symbols -> TargetRecord]
         /\ \A s \in Symbols : pending'[s].aimed \in -1..now'
         /\ position' \in [Symbols -> PositionRecord]
         /\ \A s \in Symbols : position'[s] # Flat =>
              /\ position'[s].dir # 0 /\ position'[s].at \in 1..now'
              /\ \E x \in processed' : x.bar = position'[s].opened
<1> DEFINE d == DayOf(e.bar)
           new == SessionAfter(e, seen, troubled)
           closed == TradesOf(e, seen, new, gained)
<1>1. e.bar \in 1..(Days * Bars) /\ d \in 1..Days
  <2>1. e.bar \in 1..(Days * Bars)
    BY DEF Event
  <2> QED
    BY <2>1, DayOfBar
<1>2. /\ processed' = processed \cup {e} /\ sessions' = [sessions EXCEPT ![d] = new]
      /\ position' = [s \in Symbols |-> PositionAfter(e, seen, s)]
      /\ pending' = [s \in Symbols |->
                      [dir |-> IF ForceFlatten THEN 0 ELSE wanted[s], aimed |-> seen]]
      /\ ledger' = ledger \cup closed
  BY DEF Record
<1>3. now \in Int /\ now >= 0 /\ now <= Days * Bars /\ seen \in Int /\ 0 <= seen /\ seen <= now
  BY IncubationConstants DEF IncubationIInv, IncubationTyped
<1>4. sessions[d] \in SessionRecord
  BY <1>1 DEF IncubationIInv, IncubationTyped
<1>5. /\ new \in SessionRecord /\ new.completed = sessions[d].completed
      /\ new.valid = sessions[d].valid /\ new.events \subseteq sessions[d].events \cup {e}
  <2> DEFINE canonical == seen = e.bar
             fault == sessions[d].fault \/ troubled \/ ~canonical
             events == IF canonical THEN sessions[d].events \cup {e} ELSE sessions[d].events
  <2>1. new = [sessions[d] EXCEPT !.fault = fault, !.events = events]
    BY DEF SessionAfter
  <2>2. fault \in BOOLEAN /\ events \in SUBSET Event /\ events \subseteq sessions[d].events \cup {e}
    BY <1>4 DEF SessionRecord
  <2> HIDE DEF fault, events, new
  <2> QED
    BY <1>4, <2>1, <2>2 DEF SessionRecord
<1> HIDE DEF new
<1>6. /\ sessions' \in [1..Days -> SessionRecord] /\ sessions'[d] = new
      /\ \A x \in 1..Days : x # d => sessions'[x] = sessions[x]
  BY <1>1, <1>2, <1>5 DEF IncubationIInv, IncubationTyped
<1>7. ASSUME NEW x \in 1..Days
      PROVE  /\ sessions'[x].events \subseteq processed'
             /\ sessions'[x].valid => sessions'[x].completed
             /\ sessions'[x].completed => x \in due'
             /\ sessions[x].completed =>
                  sessions'[x].completed /\ sessions'[x].valid = sessions[x].valid
  <2>1. CASE x = d
    BY <2>1, <1>2, <1>5, <1>6 DEF IncubationIInv, IncubationTyped
  <2>2. CASE x # d
    BY <2>2, <1>2, <1>6 DEF IncubationIInv, IncubationTyped
  <2> QED
    BY <2>1, <2>2
<1>8. closed \in SUBSET Trade
  <2>1. ASSUME NEW s \in Symbols, Closes(s)
        PROVE  position[s].opened \in 1..(Days * Bars)
    <3>1. PICK x \in processed : x.bar = position[s].opened
      BY <2>1 DEF Closes, IncubationIInv, IncubationTyped
    <3>2. x \in Event
      BY DEF IncubationIInv, IncubationTyped
    <3> QED
      BY <3>1, <3>2 DEF Event
  <2>2. (~new.fault) \in BOOLEAN
    BY <1>5 DEF SessionRecord
  <2>3. ASSUME NEW t \in closed PROVE t \in Trade
    <3>1. PICK s \in {x \in Symbols : seen # 0 /\ Closes(x)} :
            t = [symbol |-> s, opened |-> position[s].opened, closed |-> e.bar,
                 day |-> DayOf(e.bar), eligible |-> ~new.fault, gained |-> gained]
      BY <2>3 DEF TradesOf
    <3> QED
      BY <3>1, <2>1, <2>2, <1>1 DEF Trade
  <2> QED
    BY <2>3
<1>9. ledger' \in SUBSET Trade /\ VerdictsStay
  BY <1>2, <1>7, <1>8 DEF VerdictsStay, IncubationIInv, IncubationTyped
<1>10. ASSUME NEW s \in Symbols
       PROVE  pending'[s] \in TargetRecord /\ pending'[s].aimed \in -1..now'
  BY <1>2, <1>3, IncubationConstants DEF TargetRecord
<1>11. ASSUME NEW s \in Symbols
       PROVE  /\ PositionAfter(e, seen, s) \in PositionRecord
              /\ PositionAfter(e, seen, s) # Flat =>
                   /\ PositionAfter(e, seen, s).dir # 0
                   /\ PositionAfter(e, seen, s).at \in 1..now
                   /\ \E x \in processed' : x.bar = PositionAfter(e, seen, s).opened
  <2> DEFINE opened_ == [dir |-> pending[s].dir, aimed |-> pending[s].aimed,
                         at |-> seen, opened |-> e.bar]
  <2>1. /\ pending[s] \in TargetRecord /\ position[s] \in PositionRecord
        /\ e \in processed' /\ processed \subseteq processed'
    BY <1>2 DEF IncubationIInv, IncubationTyped
  <2>2. CASE seen # 0 /\ Opens(s)
    <3>1. PositionAfter(e, seen, s) = opened_
      BY <2>2 DEF PositionAfter
    <3>2. opened_ \in PositionRecord /\ opened_.dir # 0 /\ opened_.at \in 1..now
      BY <2>1, <2>2, <1>1, <1>3 DEF Opens, TargetRecord, PositionRecord
    <3>3. opened_.opened = e.bar
      OBVIOUS
    <3> QED
      BY <3>1, <3>2, <3>3, <2>1
  <2>3. CASE ~(seen # 0 /\ Opens(s)) /\ seen # 0 /\ Closes(s)
    <3>1. PositionAfter(e, seen, s) = Flat
      BY <2>3 DEF PositionAfter
    <3> QED
      BY <3>1, IncubationConstants DEF Flat, PositionRecord
  <2>4. CASE ~(seen # 0 /\ Opens(s)) /\ ~(seen # 0 /\ Closes(s))
    <3>1. PositionAfter(e, seen, s) = position[s]
      BY <2>4 DEF PositionAfter
    <3> QED
      BY <3>1, <2>1 DEF IncubationIInv, IncubationTyped
  <2> QED
    BY <2>2, <2>3, <2>4
<1>12. /\ position' \in [Symbols -> PositionRecord]
       /\ \A s \in Symbols : position'[s] # Flat =>
            /\ position'[s].dir # 0 /\ position'[s].at \in 1..now'
            /\ \E x \in processed' : x.bar = position'[s].opened
  BY <1>2, <1>11
<1>13. pending' \in [Symbols -> TargetRecord]
  BY <1>2, <1>10
<1>14. processed' \in SUBSET issued'
  BY <1>2 DEF IncubationIInv, IncubationTyped
<1> QED
  BY <1>6, <1>7, <1>9, <1>10, <1>12, <1>13, <1>14

LEMMA ComputeStep ==
  ASSUME IncubationIInv, NEW e \in Event, Compute(e)
  PROVE  IncubationIInv' /\ EarnsRelease
<1>1. /\ e \in issued \ processed /\ UNCHANGED <<now, issued, due>>
  BY DEF Compute
<1>2. PICK seen \in {now, 0}, troubled \in BOOLEAN, gained \in BOOLEAN,
           wanted \in [Symbols -> Directions] : Record(e, seen, troubled, gained, wanted)
  BY DEF Compute
<1>3. /\ sessions' \in [1..Days -> SessionRecord] /\ ledger' \in SUBSET Trade
      /\ VerdictsStay
      /\ \A d \in 1..Days :
           /\ sessions'[d].events \subseteq processed'
           /\ sessions'[d].valid => sessions'[d].completed
           /\ sessions'[d].completed => d \in due'
      /\ processed' \in SUBSET issued'
      /\ pending' \in [Symbols -> TargetRecord]
      /\ \A s \in Symbols : pending'[s].aimed \in -1..now'
      /\ position' \in [Symbols -> PositionRecord]
      /\ \A s \in Symbols : position'[s] # Flat =>
           /\ position'[s].dir # 0 /\ position'[s].at \in 1..now'
           /\ \E x \in processed' : x.bar = position'[s].opened
  BY <1>1, <1>2, ComputeEvidence
<1>4. ApplyDecision(Outcome(sessions', ledger', peer)) \/ UNCHANGED <<stage, ready, journal>>
  BY <1>2 DEF Record
<1>5. EarnsRelease /\ (PersistEvidence \/ UNCHANGED journal)
  <2>1. CASE ApplyDecision(Outcome(sessions', ledger', peer))
    BY <2>1, <1>3, DecisionEarns
  <2>2. CASE UNCHANGED <<stage, ready, journal>>
    BY <2>2 DEF EarnsRelease
  <2> QED
    BY <1>4, <2>1, <2>2
<1>6. JournalHolds' /\ \A r \in dayRows' : r.day \in 1..Days
  BY <1>3, <1>5, JournalAgrees
<1>7. now' \in 0..(Days * Bars) /\ issued' \in SUBSET Event /\ due' \in SUBSET (1..Days)
  BY <1>1 DEF IncubationIInv, IncubationTyped
<1> QED
  BY <1>3, <1>5, <1>6, <1>7 DEF IncubationIInv, IncubationTyped

(* The market, the scheduler and the operator leave evidence and journal be.  *)
LEMMA MarketStep ==
  ASSUME IncubationIInv, NextBar \/ PlanClose \/ ToggleReleases \/ UNCHANGED incubationVars
  PROVE  IncubationIInv' /\ EarnsRelease
<1>1. UNCHANGED <<processed, sessions, pending, position, ledger, stage, dayRows, tradeRows>>
  BY DEF NextBar, PlanClose, ToggleReleases, incubationVars, evidence, journal
<1>2. now \in 0..(Days * Bars)
  BY DEF IncubationIInv, IncubationTyped
<1>3. /\ now' \in now..(Days * Bars) /\ due \subseteq due' /\ due' \subseteq 1..Days
      /\ issued \subseteq issued' /\ issued' \in SUBSET Event
  <2>1. CASE NextBar
    <3>1. now' \in 1..(Days * Bars) /\ now' = now + 1 /\ due' = due
      BY <2>1, <1>2, IncubationConstants DEF NextBar
    <3>2. PICK raised \in SUBSET Sources : issued' = issued \cup [bar: {now'}, source: raised]
      BY <2>1 DEF NextBar
    <3>3. [bar: {now'}, source: raised] \subseteq Event
      BY <3>1 DEF Event
    <3> QED
      BY <3>1, <3>2, <3>3, <1>2, IncubationConstants DEF IncubationIInv, IncubationTyped
  <2>2. CASE PlanClose
    <3>1. now \in 1..(Days * Bars)
      BY <2>2, <1>2, IncubationConstants DEF PlanClose
    <3>2. DayOf(now) \in 1..Days
      BY <3>1, DayOfBar
    <3>3. now' = now /\ issued' = issued /\ due' = due \cup {DayOf(now)}
      BY <2>2 DEF PlanClose
    <3>4. now \in now..(Days * Bars)
      BY <3>1, IncubationConstants
    <3> QED
      BY <3>2, <3>3, <3>4 DEF IncubationIInv, IncubationTyped
  <2>3. CASE ToggleReleases \/ UNCHANGED incubationVars
    <3>1. UNCHANGED <<now, issued, due>>
      BY <2>3 DEF ToggleReleases, incubationVars
    <3> QED
      BY <3>1, <1>2, IncubationConstants DEF IncubationIInv, IncubationTyped
  <2> QED
    BY <2>1, <2>2, <2>3
<1>4. IncubationTyped'
  <2>1. \A n \in Int : (n \in -1..now => n \in -1..now') /\ (n \in 1..now => n \in 1..now')
    BY <1>2, <1>3, IncubationConstants
  <2>2. now' \in 0..(Days * Bars)
    BY <1>2, <1>3, IncubationConstants
  <2> QED
    BY <1>1, <1>3, <2>1, <2>2 DEF IncubationIInv, IncubationTyped
<1> QED
  BY <1>1, <1>4 DEF IncubationIInv, JournalHolds, EarnsRelease

LEMMA IncubationStep ==
  ASSUME IncubationIInv, [IncubationNext]_incubationVars
  PROVE  IncubationIInv' /\ EarnsRelease
BY ComputeStep, CloseDayStep, ReleaseHeldStep, MarketStep DEF IncubationNext

LEMMA IncubationStart == IncubationInit => IncubationIInv
<1> SUFFICES ASSUME IncubationInit PROVE IncubationIInv
  OBVIOUS
<1>1. EmptySession \in SessionRecord /\ ~EmptySession.valid /\ ~EmptySession.completed
      /\ EmptySession.events = {}
  BY DEF EmptySession, SessionRecord
<1>2. NoTarget \in TargetRecord /\ NoTarget.aimed = -1 /\ Flat \in PositionRecord
  BY IncubationConstants DEF NoTarget, Flat, TargetRecord, PositionRecord
<1>3. IncubationTyped
  BY <1>1, <1>2, IncubationConstants DEF IncubationInit, IncubationTyped
<1> QED
  BY <1>3 DEF IncubationInit, IncubationIInv, JournalHolds

(* However late, often and out of order events and close commands are         *)
(* delivered, evidence and journal agree: the inductive invariant.            *)
THEOREM IncubationInvariant == IncubationSpec => []IncubationIInv
<1>1. IncubationInit => IncubationIInv
  BY IncubationStart
<1>2. IncubationIInv /\ [IncubationNext]_incubationVars => IncubationIInv'
  BY IncubationStep
<1> QED
  BY <1>1, <1>2, PTL DEF IncubationSpec

(* The evidence of a strategy in incubation stays well-formed.                *)
THEOREM IncubationWellFormed == IncubationSpec => []IncubationTypeOK
<1>1. IncubationIInv => IncubationTypeOK
  <2> SUFFICES ASSUME IncubationIInv PROVE IncubationTypeOK
    OBVIOUS
  <2>1. ASSUME NEW s \in Symbols, position[s] # Flat PROVE position[s].dir \in Directions \ {0}
    BY <2>1 DEF IncubationIInv, IncubationTyped, PositionRecord
  <2> QED
    BY <2>1 DEF IncubationIInv, IncubationTyped, IncubationTypeOK
<1> QED
  BY <1>1, IncubationInvariant, PTL

(* A stored day carries the verdict of its session, and a stored trade is one *)
(* the gate counts on a valid day (incubation-store.js).                      *)
THEOREM JournalAlwaysHolds == IncubationSpec => []JournalHolds
<1>1. IncubationIInv => JournalHolds
  BY DEF IncubationIInv
<1> QED
  BY <1>1, IncubationInvariant, PTL

(* A strategy is released only on evidence that carries it at that moment     *)
(* (applyIncubationDecision, pipeline.release).                               *)
THEOREM ReleasesAreEarned == IncubationSpec => ReleaseEarned
<1>1. IncubationIInv /\ [IncubationNext]_incubationVars => [EarnsRelease]_incubationVars
  BY IncubationStep
<1>2. ReleaseEarned <=> [][EarnsRelease]_incubationVars
  BY DEF ReleaseEarned, EarnsRelease
<1> QED
  BY <1>1, <1>2, IncubationInvariant, PTL DEF IncubationSpec
-----------------------------------------------------------------------------
(* LiveSession: what the book, the rows, the copies of the state and the plan *)
(* may hold.                                                                  *)
BarEvents ==
  {e \in [bucket: 0..(Buckets - 1), revision: Nat \ {0}, content: Content,
          retroactive: BOOLEAN, actionable: BOOLEAN] : e.retroactive = (e.revision > 1)}

FinalizedBars == [content: Content, revision: Nat \ {0}]

(* The copies of state.marketData that may exist when D1 has the given rows.  *)
CopiesOf(written) ==
  [tick: Int, events: SUBSET written, reconciled: {"none", "healthy", "revising"}]

(* What a poll has put in the book and D1 does not have yet.                  *)
Unwritten == IF tick.step = "rows" THEN tick.events ELSE {}

BookTyped ==
  /\ \A m \in DOMAIN book.minutes : m \in Minutes /\ book.minutes[m] \in 1..(MaxCorrections + 1)
  /\ \A b \in DOMAIN book.finalized : b \in 0..(Buckets - 1) /\ book.finalized[b] \in FinalizedBars

TickTyped ==
  \/ tick = NoTick
  \/ tick = Plan
  \/ tick.step = "rows" /\ tick.copy \in CopiesOf(rows) /\ tick.events \in SUBSET BarEvents
  \/ tick.step = "save" /\ tick.copy \in CopiesOf(rows)

(* Every copy of the state holds events D1 has: the save follows the insert.  *)
LiveTyped ==
  /\ minute \in 0..(LastMinute + 1)
  /\ corrected \in 0..MaxCorrections
  /\ feed \in [Minutes -> 0..(corrected + 1)]
  /\ BookTyped
  /\ rows \in SUBSET BarEvents
  /\ market \in CopiesOf(rows) /\ held \in SUBSET CopiesOf(rows)
  /\ TickTyped

(* The book remembers every bucket it ever finalized, so a first finalization *)
(* happens once.                                                              *)
Remembered ==
  /\ \A r \in rows \cup Unwritten : r.bucket \in DOMAIN book.finalized
  /\ \A r, s \in rows \cup Unwritten :
       r.bucket = s.bucket /\ r.revision = 1 /\ s.revision = 1 => r = s

(* A decision was planned from a row that is the first of its bucket.         *)
PlannedFromRows ==
  \A i \in planned : i.kind = "event" =>
    \E r \in rows : r.actionable /\ ~r.retroactive /\ i = EventIntent(r)

LiveIInv == LiveTyped /\ Remembered /\ PlannedFromRows

LEMMA LiveConstants ==
  /\ Width \in Nat /\ Width >= 1 /\ Buckets \in Nat /\ Buckets >= 1 /\ Width * Buckets \in Nat
  /\ Close \in Nat /\ ReconcileTo \in Nat /\ LastMinute \in Nat
  /\ MaxCorrections \in Nat
BY LiveAssumption DEF Close, LastMinute

(* A minute of the session is in one of its buckets.                          *)
LEMMA BucketOfMinute ==
  ASSUME NEW m \in Minutes
  PROVE  Bucket(m) \in 0..(Buckets - 1)
<1> DEFINE q == m \div Width
<1>1. m \in Int /\ 0 <= m /\ m < Width * Buckets
  BY LiveConstants DEF Minutes, Close
<1>2. q \in Int /\ Width * q <= m /\ m < Width * (q + 1)
  BY <1>1, LiveConstants
<1> HIDE DEF q
<1>3. q >= 0
  BY <1>1, <1>2, LiveConstants
<1>4. q < Buckets
  BY <1>1, <1>2, LiveConstants
<1> QED
  BY <1>2, <1>3, <1>4, LiveConstants DEF Bucket, q

(* What the book has of a bucket's minutes is content (aggregateMinuteRecords). *)
LEMMA AggregatedIsContent ==
  ASSUME NEW minutes, NEW b \in 0..(Buckets - 1),
         \A m \in DOMAIN minutes : minutes[m] \in 1..(MaxCorrections + 1)
  PROVE  Aggregated(minutes, b) \in Content
<1> DEFINE S == DOMAIN minutes \cap BucketMinutes(b)
<1>1. Aggregated(minutes, b) \in [S -> 1..(MaxCorrections + 1)]
  BY DEF Aggregated
<1>2. S \in UNION {SUBSET BucketMinutes(x) : x \in 0..(Buckets - 1)}
  OBVIOUS
<1> HIDE DEF S
<1> QED
  BY <1>1, <1>2 DEF Content

(* applyLiveMinutePoll: a changed bucket gives one event, the next revision   *)
(* of what the book remembers.                                                *)
LEMMA PollEvents ==
  ASSUME LiveIInv, NEW x, x \in Unsettled(Received(book))
  PROVE  LET e == BarEvent(x, Received(book), book.finalized)
         IN e \in BarEvents /\ e.bucket = x
            /\ (e.revision = 1 => x \notin DOMAIN book.finalized)
<1> DEFINE minutes == Received(book)
           fin == book.finalized
           e == BarEvent(x, minutes, fin)
<1>1. Polled \subseteq Minutes /\ \A m \in Polled : feed[m] \in 1..(MaxCorrections + 1)
  BY LiveConstants DEF Polled, LiveIInv, LiveTyped
<1>2. \A m \in DOMAIN minutes : m \in Minutes /\ minutes[m] \in 1..(MaxCorrections + 1)
  BY <1>1 DEF Received, LiveIInv, LiveTyped, BookTyped
<1>3. x \in 0..(Buckets - 1)
  <2>1. PICK m \in DOMAIN minutes : x = Bucket(m)
    BY DEF Unsettled
  <2> QED
    BY <2>1, <1>2, BucketOfMinute
<1> HIDE DEF minutes
<1>4. Aggregated(minutes, x) \in Content
  BY <1>2, <1>3, AggregatedIsContent
<1>5. /\ x \in DOMAIN fin => Revision(x, fin) \in Nat \ {0}
      /\ x \notin DOMAIN fin => Revision(x, fin) = 0
  BY DEF Revision, LiveIInv, LiveTyped, BookTyped, FinalizedBars
<1>6. e = [bucket |-> x, revision |-> Revision(x, fin) + 1, content |-> Aggregated(minutes, x),
           retroactive |-> x \in DOMAIN fin,
           actionable |-> x \notin DOMAIN fin /\ DOMAIN Aggregated(minutes, x) = BucketMinutes(x)]
  BY DEF BarEvent
<1>7. /\ (x \in DOMAIN fin) \in BOOLEAN
      /\ (x \notin DOMAIN fin /\ DOMAIN Aggregated(minutes, x) = BucketMinutes(x)) \in BOOLEAN
  OBVIOUS
<1> HIDE DEF fin, e
<1>8. Revision(x, fin) + 1 \in Nat \ {0} /\ (Revision(x, fin) + 1 > 1) = (x \in DOMAIN fin)
  BY <1>5
<1>9. e \in BarEvents /\ e.bucket = x /\ (e.revision = 1 => x \notin DOMAIN fin)
  BY <1>3, <1>4, <1>5, <1>6, <1>7, <1>8 DEF BarEvents
<1> QED
  BY <1>9 DEF e, fin, minutes
(* A step that leaves the rows or adds some keeps every copy a copy.          *)
LEMMA CopiesStay ==
  ASSUME NEW old, NEW more, old \subseteq more
  PROVE  CopiesOf(old) \subseteq CopiesOf(more)
BY DEF CopiesOf

(* Rows only grow, so what was planned stays planned from a row.              *)
LEMMA PlanStays ==
  ASSUME PlannedFromRows, rows \subseteq rows', planned' = planned
  PROVE  PlannedFromRows'
BY DEF PlannedFromRows, EventIntent

(* pollLiveMarketData: the book remembers what it finalizes.                  *)
LEMMA PollStep ==
  ASSUME LiveIInv, Poll
  PROVE  LiveIInv'
<1> DEFINE minutes == Received(book)
           fin == book.finalized
           E == {BarEvent(x, minutes, fin) : x \in {y \in Unsettled(minutes) : Changed(y, minutes, fin)}}
           kept == {m \in DOMAIN minutes : m >= minute - Retention}
<1>1. /\ tick = NoTick
      /\ book' = [minutes |-> [m \in kept |-> minutes[m]], finalized |-> Marked(fin, E)]
      /\ tick' = [step |-> "rows", copy |-> market, events |-> E]
      /\ UNCHANGED <<minute, feed, rows, market, planned, paused, held, corrected, faults>>
  BY DEF Poll, TickDue, ApplyPoll
<1>2. ASSUME NEW e \in E
      PROVE  /\ e \in BarEvents
             /\ e.revision = 1 => e.bucket \notin DOMAIN fin
             /\ \A f \in E : f.bucket = e.bucket => f = e
  <2>1. PICK x \in Unsettled(minutes) : e = BarEvent(x, minutes, fin)
    OBVIOUS
  <2>2. e \in BarEvents /\ e.bucket = x /\ (e.revision = 1 => x \notin DOMAIN fin)
    BY <2>1, PollEvents
  <2>3. ASSUME NEW f \in E, f.bucket = e.bucket PROVE f = e
    <3>1. PICK y \in Unsettled(minutes) : f = BarEvent(y, minutes, fin)
      OBVIOUS
    <3>2. f.bucket = y
      BY <3>1, PollEvents
    <3> QED
      BY <3>1, <3>2, <2>1, <2>2, <2>3
  <2> QED
    BY <2>2, <2>3
<1>3. \A m \in DOMAIN minutes : m \in Minutes /\ minutes[m] \in 1..(MaxCorrections + 1)
  <2>1. Polled \subseteq Minutes /\ \A m \in Polled : feed[m] \in 1..(MaxCorrections + 1)
    BY LiveConstants DEF Polled, LiveIInv, LiveTyped
  <2> QED
    BY <2>1 DEF Received, LiveIInv, LiveTyped, BookTyped
<1>4. \A e \in E : e \in BarEvents
  BY <1>2
<1> HIDE DEF E, minutes
<1>5. /\ DOMAIN Marked(fin, E) = DOMAIN fin \cup {e.bucket : e \in E}
      /\ \A b \in DOMAIN Marked(fin, E) : b \in 0..(Buckets - 1) /\ Marked(fin, E)[b] \in FinalizedBars
  <2> DEFINE D == DOMAIN fin \cup {e.bucket : e \in E}
  <2>1. Marked(fin, E) = [x \in D |->
          IF \E e \in E : e.bucket = x
          THEN LET e == CHOOSE e \in E : e.bucket = x
               IN [content |-> e.content, revision |-> e.revision]
          ELSE fin[x]]
    BY DEF Marked
  <2>2. ASSUME NEW b \in D PROVE b \in 0..(Buckets - 1) /\ Marked(fin, E)[b] \in FinalizedBars
    <3>1. CASE \E e \in E : e.bucket = b
      <4> DEFINE c == CHOOSE e \in E : e.bucket = b
      <4>1. c \in E /\ c.bucket = b
        BY <3>1
      <4>2. Marked(fin, E)[b] = [content |-> c.content, revision |-> c.revision]
        BY <2>1, <3>1
      <4> HIDE DEF c
      <4>3. c \in BarEvents
        BY <4>1, <1>4
      <4> QED
        BY <4>1, <4>2, <4>3 DEF BarEvents, FinalizedBars
    <3>2. CASE ~\E e \in E : e.bucket = b
      <4>1. b \in DOMAIN fin /\ Marked(fin, E)[b] = fin[b]
        BY <2>1, <3>2
      <4> QED
        BY <4>1 DEF LiveIInv, LiveTyped, BookTyped
    <3> QED
      BY <3>1, <3>2
  <2> QED
    BY <2>1, <2>2
<1>6. BookTyped'
  <2>1. book'.finalized = Marked(fin, E) /\ book'.minutes = [m \in kept |-> minutes[m]]
    BY <1>1
  <2>2. kept \subseteq DOMAIN minutes
    OBVIOUS
  <2> HIDE DEF kept
  <2> QED
    BY <2>1, <2>2, <1>3, <1>5 DEF BookTyped
<1>7. TickTyped' /\ Unwritten' = E
  <2>1. tick'.step = "rows" /\ tick'.copy = market /\ tick'.events = E
    BY <1>1
  <2> QED
    BY <2>1, <1>1, <1>4 DEF TickTyped, Unwritten, LiveIInv, LiveTyped
<1>8. LiveTyped'
  BY <1>1, <1>6, <1>7 DEF LiveIInv, LiveTyped
<1>9. \A r \in rows : r.bucket \in DOMAIN fin
  BY DEF LiveIInv, Remembered
<1>10. \A r \in rows' \cup Unwritten' : r.bucket \in DOMAIN book'.finalized
  <2>1. book'.finalized = Marked(fin, E)
    BY <1>1
  <2> QED
    BY <2>1, <1>1, <1>5, <1>7, <1>9
<1>11. ASSUME NEW r \in rows' \cup Unwritten', NEW s \in rows' \cup Unwritten',
              r.bucket = s.bucket, r.revision = 1, s.revision = 1
       PROVE  r = s
  <2>1. CASE r \in rows /\ s \in rows
    BY <2>1, <1>11 DEF LiveIInv, Remembered
  <2>2. CASE r \in E /\ s \in E
    BY <2>2, <1>2, <1>11
  <2>3. CASE r \in rows /\ s \in E
    BY <2>3, <1>2, <1>9, <1>11
  <2>4. CASE r \in E /\ s \in rows
    BY <2>4, <1>2, <1>9, <1>11
  <2> QED
    BY <1>1, <1>7, <2>1, <2>2, <2>3, <2>4
<1>12. PlannedFromRows'
  BY <1>1, PlanStays DEF LiveIInv
<1> QED
  BY <1>8, <1>10, <1>11, <1>12 DEF LiveIInv, Remembered

(* saveLiveResult: the rows D1 gets are those of the tick, all or some.       *)
LEMMA InsertStep ==
  ASSUME LiveIInv, InsertRows \/ InsertFails
  PROVE  LiveIInv'
<1>1. tick.step = "rows" /\ UNCHANGED <<minute, feed, book, market, planned, paused, held, corrected>>
  BY DEF InsertRows, InsertFails
<1>2. tick.copy \in CopiesOf(rows) /\ tick.events \in SUBSET BarEvents /\ Unwritten = tick.events
  BY <1>1 DEF LiveIInv, LiveTyped, TickTyped, NoTick, Plan, Unwritten
<1>3. rows \subseteq rows' /\ rows' \subseteq rows \cup tick.events
  BY DEF InsertRows, InsertFails
<1>4. TickTyped' /\ Unwritten' = {}
  <2>1. CASE InsertRows
    <3>1. rows' = rows \cup tick.events
          /\ tick' = [step |-> "save",
                      copy |-> [tick.copy EXCEPT !.tick = minute, !.events = tick.events]]
      BY <2>1 DEF InsertRows
    <3>2. minute \in Int /\ tick.events \in SUBSET rows'
      BY <3>1, LiveConstants DEF LiveIInv, LiveTyped
    <3>3. [tick.copy EXCEPT !.tick = minute, !.events = tick.events] \in CopiesOf(rows')
      BY <3>2, <1>2 DEF CopiesOf
    <3>4. tick'.step = "save" /\ tick'.copy \in CopiesOf(rows')
      BY <3>1, <3>3
    <3> QED
      BY <3>4 DEF TickTyped, Unwritten
  <2>2. CASE InsertFails
    <3>1. tick' = Plan
      BY <2>2 DEF InsertFails
    <3> QED
      BY <3>1 DEF TickTyped, Unwritten, Plan
  <2> QED
    BY <2>1, <2>2
<1>5. market' \in CopiesOf(rows') /\ held' \in SUBSET CopiesOf(rows')
  BY <1>1, <1>3, CopiesStay DEF LiveIInv, LiveTyped
<1>6. LiveTyped'
  BY <1>1, <1>2, <1>3, <1>4, <1>5 DEF LiveIInv, LiveTyped, BookTyped
<1>7. Remembered'
  BY <1>1, <1>2, <1>3, <1>4 DEF LiveIInv, Remembered
<1>8. PlannedFromRows'
  BY <1>1, <1>3, PlanStays DEF LiveIInv
<1> QED
  BY <1>6, <1>7, <1>8 DEF LiveIInv
(* The copy a reconciliation makes, and the save of a copy.                   *)
LEMMA SaveStep ==
  ASSUME LiveIInv, Reconcile \/ SaveTick \/ Hold \/ SaveHeld
  PROVE  LiveIInv'
<1>1. UNCHANGED <<minute, feed, book, rows, planned, corrected>>
  BY DEF Reconcile, SaveTick, Hold, SaveHeld
<1>2. market \in CopiesOf(rows) /\ held \in SUBSET CopiesOf(rows) /\ TickTyped
  BY DEF LiveIInv, LiveTyped
<1>3. CASE Reconcile
  <2> DEFINE copy == [market EXCEPT !.tick = minute,
                        !.reconciled = IF @ = "none" THEN Reconciliation ELSE @]
  <2>1. tick' = [step |-> "save", copy |-> copy] /\ UNCHANGED <<market, held>> /\ tick = NoTick
    BY <1>3 DEF Reconcile, TickDue
  <2>2. copy \in CopiesOf(rows)
    <3>1. Reconciliation \in {"healthy", "revising"} /\ minute \in Int
      BY LiveConstants DEF Reconciliation, LiveIInv, LiveTyped
    <3> QED
      BY <3>1, <1>2 DEF CopiesOf
  <2> HIDE DEF copy
  <2>3. tick'.step = "save" /\ tick'.copy \in CopiesOf(rows)
    BY <2>1, <2>2
  <2>4. TickTyped' /\ Unwritten' = {}
    BY <2>3, <1>1 DEF TickTyped, Unwritten
  <2>5. LiveTyped'
    BY <1>1, <2>1, <2>4 DEF LiveIInv, LiveTyped, BookTyped
  <2> QED
    BY <1>1, <2>4, <2>5, PlanStays DEF LiveIInv, Remembered
<1>4. CASE SaveTick
  <2>1. market' = tick.copy /\ tick.step = "save" /\ tick' = Plan /\ held' = held
    BY <1>4 DEF SaveTick
  <2>2. tick.copy \in CopiesOf(rows)
    BY <1>2, <2>1 DEF TickTyped, NoTick, Plan
  <2>3. TickTyped' /\ Unwritten' = {}
    BY <2>1 DEF TickTyped, Unwritten, Plan
  <2>4. LiveTyped'
    BY <1>1, <2>1, <2>2, <2>3 DEF LiveIInv, LiveTyped, BookTyped
  <2> QED
    BY <1>1, <2>3, <2>4, PlanStays DEF LiveIInv, Remembered
<1>5. CASE Hold \/ SaveHeld
  <2>1. tick' = tick /\ market' \in {market} \cup held /\ held' \subseteq {market}
    BY <1>5 DEF Hold, SaveHeld
  <2>2. TickTyped' /\ Unwritten' = Unwritten
    BY <1>1, <1>2, <2>1 DEF TickTyped, Unwritten
  <2>3. LiveTyped'
    BY <1>1, <1>2, <2>1, <2>2 DEF LiveIInv, LiveTyped, BookTyped
  <2> QED
    BY <1>1, <2>2, <2>3, PlanStays DEF LiveIInv, Remembered
<1> QED
  BY <1>3, <1>4, <1>5

(* What may be planned: decisions on the first rows of buckets, and phases.   *)
LEMMA IntentsFromRows ==
  ASSUME LiveIInv, NEW i, i \in DueIntents(MarketIntents) \cup DueIntents({}), i.kind = "event"
  PROVE  \E r \in rows : r.actionable /\ ~r.retroactive /\ i = EventIntent(r)
<1>1. market.events \in SUBSET rows
  BY DEF LiveIInv, LiveTyped, CopiesOf
<1>2. i \in MarketIntents
  BY DEF DueIntents, PhaseIntent
<1> QED
  BY <1>1, <1>2 DEF MarketIntents

(* planOrchestrationWork plans from the saved events only.                    *)
LEMMA PlanStep ==
  ASSUME LiveIInv, OrchestrationTick \/ Alarm
  PROVE  LiveIInv'
<1>1. /\ UNCHANGED <<minute, feed, book, rows, market, held, corrected>>
      /\ tick' \in {tick, NoTick}
  BY DEF OrchestrationTick, Alarm
<1>2. planned' \subseteq planned \cup DueIntents(MarketIntents) \cup DueIntents({})
  BY DEF OrchestrationTick, Alarm, Prefixes
<1>3. PlannedFromRows'
  <2> SUFFICES ASSUME NEW i \in planned', i.kind = "event"
               PROVE  \E r \in rows : r.actionable /\ ~r.retroactive /\ i = EventIntent(r)
    BY <1>1 DEF PlannedFromRows, EventIntent
  <2> QED
    BY <1>2, IntentsFromRows DEF LiveIInv, PlannedFromRows
<1>4. TickTyped' /\ Unwritten' \subseteq Unwritten
  BY <1>1 DEF LiveIInv, LiveTyped, TickTyped, Unwritten, NoTick
<1>5. LiveTyped' /\ Remembered'
  BY <1>1, <1>4 DEF LiveIInv, LiveTyped, BookTyped, Remembered
<1> QED
  BY <1>3, <1>5 DEF LiveIInv

(* The source, the clock, a skipped tick, the operator and a restart.         *)
LEMMA WorldStep ==
  ASSUME LiveIInv,
         \/ \E m \in Minutes : Publish(m) \/ Correct(m)
         \/ minute <= LastMinute /\ SkipTick
         \/ Advance \/ Ingestion \/ Restart \/ UNCHANGED liveVars
  PROVE  LiveIInv'
<1>1. /\ UNCHANGED <<book, rows, market, planned>> /\ held' \in {held, {}}
      /\ tick' \in {tick, NoTick, Plan}
  BY DEF Publish, Correct, SkipTick, Advance, Ingestion, Restart, liveVars
<1>2. minute' \in 0..(LastMinute + 1)
  BY LiveConstants
  DEF Publish, Correct, SkipTick, Advance, Ingestion, Restart, liveVars, LiveIInv, LiveTyped
<1>3. corrected' \in 0..MaxCorrections /\ feed' \in [Minutes -> 0..(corrected' + 1)]
  <2>1. corrected \in 0..MaxCorrections /\ feed \in [Minutes -> 0..(corrected + 1)]
    BY DEF LiveIInv, LiveTyped
  <2>2. ASSUME NEW m \in Minutes, Publish(m) PROVE <1>3!1 /\ <1>3!2
    BY <2>1, <2>2, LiveConstants DEF Publish
  <2>3. ASSUME NEW m \in Minutes, Correct(m) PROVE <1>3!1 /\ <1>3!2
    <3>1. /\ feed' = [feed EXCEPT ![m] = feed[m] + 1] /\ corrected' = corrected + 1
          /\ corrected < MaxCorrections
      BY <2>1, <2>3 DEF Correct
    <3>2. feed[m] + 1 \in 0..(corrected' + 1) /\ corrected' \in 0..MaxCorrections
          /\ \A n \in 0..(corrected + 1) : n \in 0..(corrected' + 1)
      BY <3>1, <2>1, LiveConstants
    <3> QED
      BY <3>1, <3>2, <2>1
  <2>4. ASSUME UNCHANGED <<feed, corrected>> PROVE <1>3!1 /\ <1>3!2
    BY <2>1, <2>4
  <2> QED
    BY <2>2, <2>3, <2>4 DEF SkipTick, Advance, Ingestion, Restart, liveVars
<1>4. TickTyped' /\ Unwritten' \subseteq Unwritten
  BY <1>1 DEF LiveIInv, LiveTyped, TickTyped, Unwritten, NoTick, Plan
<1>5. LiveTyped'
  BY <1>1, <1>2, <1>3, <1>4 DEF LiveIInv, LiveTyped, BookTyped
<1>6. Remembered'
  BY <1>1, <1>4 DEF LiveIInv, Remembered
<1> QED
  BY <1>1, <1>5, <1>6, PlanStays DEF LiveIInv

LEMMA LiveStart == LiveInit => LiveIInv
<1> SUFFICES ASSUME LiveInit PROVE LiveIInv
  OBVIOUS
<1>1. DOMAIN book.minutes = {} /\ DOMAIN book.finalized = {}
  BY DEF LiveInit, EmptyLiveBook
<1>2. TickTyped /\ Unwritten = {}
  BY DEF LiveInit, TickTyped, Unwritten, NoTick
<1>3. LiveTyped
  BY <1>1, <1>2, LiveConstants DEF LiveInit, LiveTyped, BookTyped, CopiesOf
<1> QED
  BY <1>2, <1>3 DEF LiveInit, LiveIInv, Remembered, PlannedFromRows
LEMMA LiveStep ==
  ASSUME LiveIInv, [LiveNext]_liveVars
  PROVE  LiveIInv'
BY PollStep, InsertStep, SaveStep, PlanStep, WorldStep DEF LiveNext

(* Whatever the source corrects, an insert or a save loses, or another request *)
(* saves over, decisions rest on the first rows of buckets: the inductive      *)
(* invariant.                                                                  *)
THEOREM LiveInvariant == LiveSpec => []LiveIInv
<1>1. LiveInit => LiveIInv
  BY LiveStart
<1>2. LiveIInv /\ [LiveNext]_liveVars => LiveIInv'
  BY LiveStep
<1> QED
  BY <1>1, <1>2, PTL DEF LiveSpec

(* Book, rows and plan stay well-formed (applyLiveMinutePoll, saveLiveResult). *)
THEOREM LiveWellFormed == LiveSpec => []LiveTypeOK
<1>1. LiveIInv => LiveTypeOK
  <2> SUFFICES ASSUME LiveIInv PROVE LiveTypeOK
    OBVIOUS
  <2>1. \A b \in DOMAIN book.finalized :
          /\ b \in 0..(Buckets - 1) /\ book.finalized[b].revision >= 1
          /\ book.finalized[b].content \in Content
    BY DEF LiveIInv, LiveTyped, BookTyped, FinalizedBars
  <2>2. \A r \in rows : r.content \in Content /\ r.retroactive = (r.revision > 1)
    BY DEF LiveIInv, LiveTyped, BarEvents
  <2>3. tick.step \in {"idle", "rows", "save", "plan"}
    BY DEF LiveIInv, LiveTyped, TickTyped, NoTick, Plan
  <2>4. feed \in [Minutes -> 0..(MaxCorrections + 1)]
    BY LiveConstants DEF LiveIInv, LiveTyped
  <2> QED
    BY <2>1, <2>2, <2>3, <2>4 DEF LiveIInv, LiveTyped, CopiesOf, LiveTypeOK
<1> QED
  BY <1>1, LiveInvariant, PTL

(* One trading decision for a bucket, on its first finalization and on the    *)
(* row D1 has of it (planMarketEvent).                                        *)
THEOREM DecidedOnce == LiveSpec => []OneDecision
<1>1. LiveIInv => OneDecision
  <2> SUFFICES ASSUME LiveIInv, NEW i \in Decisions
               PROVE  /\ \A j \in Decisions : i.bucket = j.bucket => i = j
                      /\ {r \in rows : r.bucket = i.bucket /\ r.revision = 1} =
                           {[bucket |-> i.bucket, revision |-> 1, content |-> i.content,
                             retroactive |-> FALSE, actionable |-> TRUE]}
    BY DEF OneDecision
  <2>1. \A j \in Decisions :
          \E r \in rows : r.actionable /\ ~r.retroactive /\ j = EventIntent(r)
    BY DEF LiveIInv, PlannedFromRows, Decisions
  <2>2. \A r \in rows : r \in BarEvents /\ (~r.retroactive => r.revision = 1)
    BY DEF LiveIInv, LiveTyped, BarEvents
  <2>3. \A r, s \in rows : r.bucket = s.bucket /\ r.revision = 1 /\ s.revision = 1 => r = s
    BY DEF LiveIInv, Remembered
  <2>4. PICK r \in rows : r.actionable /\ ~r.retroactive /\ i = EventIntent(r)
    BY <2>1
  <2>5. i.bucket = r.bucket /\ i.content = r.content /\ r.revision = 1 /\ r \in BarEvents
    BY <2>2, <2>4 DEF EventIntent
  <2>6. ASSUME NEW j \in Decisions, i.bucket = j.bucket PROVE i = j
    <3>1. PICK s \in rows : s.actionable /\ ~s.retroactive /\ j = EventIntent(s)
      BY <2>1
    <3>2. s.bucket = r.bucket /\ s.revision = 1
      BY <2>2, <2>5, <2>6, <3>1 DEF EventIntent
    <3> QED
      BY <2>3, <2>4, <2>5, <3>1, <3>2
  <2>7. r = [bucket |-> i.bucket, revision |-> 1, content |-> i.content,
             retroactive |-> FALSE, actionable |-> TRUE]
    BY <2>4, <2>5 DEF BarEvents
  <2>8. {s \in rows : s.bucket = i.bucket /\ s.revision = 1} = {r}
    BY <2>3, <2>4, <2>5
  <2> QED
    BY <2>6, <2>7, <2>8
<1> QED
  BY <1>1, LiveInvariant, PTL

(* A phase that is due is due after every earlier one, and no prefix of a     *)
(* plan has it without them.                                                  *)
LEMMA PhasesStayInOrder ==
  ASSUME minute \in Int, ClosePhasesInOrder, [LiveNext]_liveVars
  PROVE  ClosePhasesInOrder'
<1> SUFFICES ASSUME NEW p \in DOMAIN ClosePhases, NEW q \in DOMAIN ClosePhases,
                    PhaseIntent(q) \in planned', ClosePhases[p] > ClosePhases[q]
             PROVE  PhaseIntent(p) \in planned'
  BY DEF ClosePhasesInOrder, PhaseIntent
<1>1. planned \subseteq planned'
  BY DEF LiveNext, Publish, Correct, SkipTick, Poll, Reconcile, InsertRows, InsertFails, SaveTick,
         OrchestrationTick, Alarm, Advance, Ingestion, Restart, Hold, SaveHeld, liveVars
<1>2. CASE PhaseIntent(q) \in planned
  BY <1>1, <1>2 DEF ClosePhasesInOrder
<1>3. CASE PhaseIntent(q) \notin planned
  <2>1. OrchestrationTick \/ Alarm
    BY <1>3
    DEF LiveNext, Publish, Correct, SkipTick, Poll, Reconcile, InsertRows, InsertFails, SaveTick,
        Advance, Ingestion, Restart, Hold, SaveHeld, liveVars
  <2>2. ClosePhases[p] \in Int /\ ClosePhases[q] \in Int /\ Close \in Int
    BY LiveAssumption, LiveConstants
  <2>3. PICK work \in {DueIntents(MarketIntents), DueIntents({})} :
          planned' = planned \cup work \/ \E done \in Prefixes(work) : planned' = planned \cup done
    BY <2>1 DEF OrchestrationTick, Alarm
  <2>4. PhaseIntent(q) \in work
    BY <2>3, <1>3 DEF Prefixes
  <2>5. \A k \in DOMAIN ClosePhases : PhaseIntent(k) \in work =>
          k \in PhasesDue
    <3>1. \A i \in MarketIntents : i.kind = "event"
      BY DEF MarketIntents, EventIntent
    <3> QED
      BY <2>3, <3>1 DEF DueIntents, PhaseIntent
  <2>6. p \in PhasesDue
    BY <2>2, <2>4, <2>5 DEF PhasesDue
  <2>7. PhaseIntent(p) \in planned \/ PhaseIntent(p) \in work
    BY <2>3, <2>6 DEF DueIntents
  <2>8. Before(PhaseIntent(p), PhaseIntent(q))
    BY DEF Before, PhaseIntent
  <2> QED
    BY <2>3, <2>4, <2>7, <2>8, <1>1, <1>3 DEF Prefixes
<1> QED
  BY <1>2, <1>3

(* The phases of the close are committed in their order                       *)
(* (planOrchestrationTick: passed phases remain due).                         *)
THEOREM PhasesAreInOrder == LiveSpec => []ClosePhasesInOrder
<1>1. LiveInit => ClosePhasesInOrder
  BY DEF LiveInit, ClosePhasesInOrder
<1>2. LiveIInv => minute \in Int
  BY LiveConstants DEF LiveIInv, LiveTyped
<1>3. LiveIInv /\ ClosePhasesInOrder /\ [LiveNext]_liveVars => ClosePhasesInOrder'
  BY <1>2, PhasesStayInOrder
<1> QED
  BY <1>1, <1>3, LiveInvariant, PTL DEF LiveSpec
-----------------------------------------------------------------------------
(* The trading day: whatever holds of a component by itself holds in it.      *)
THEOREM TradingDayComponents ==
  TradingDaySpec => LiveSpec /\ IncubationSpec /\ HealthSpec /\ RolloutSpec
<1>1. TradingDayInit => LiveInit /\ IncubationInit /\ HealthInit /\ RolloutInit
  BY DEF TradingDayInit
<1>2. [TradingDayNext]_tradingDayVars =>
        /\ [LiveNext]_liveVars /\ [IncubationNext]_incubationVars
        /\ [HealthNext]_healthVars /\ [RolloutNext]_rolloutVars
  BY DEF TradingDayNext, tradingDayVars
<1> QED
  BY <1>1, <1>2, PTL DEF TradingDaySpec, LiveSpec, IncubationSpec, HealthSpec, RolloutSpec

(* The live book, the evidence of incubation and health, and the rollout stay *)
(* well-formed in a trading day.                                              *)
THEOREM TradingDayWellFormed == TradingDaySpec => []TradingDayTypeOK
<1>1. LiveTypeOK /\ IncubationTypeOK /\ HealthTypeOK /\ RolloutTypeOK => TradingDayTypeOK
  BY DEF TradingDayTypeOK
<1> QED
  BY <1>1, TradingDayComponents, LiveWellFormed, IncubationWellFormed, HealthWellFormed,
     RolloutTyped, PTL
=============================================================================

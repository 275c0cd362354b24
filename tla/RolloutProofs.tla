---------------------------- MODULE RolloutProofs ----------------------------
(* The walk through the rollout's phases, for every number of phases, gates, *)
(* requests, keys and observations.                                          *)
EXTENDS RolloutGate, TLAPS

Transition == [from: 1..Phases, key: Keys, basis: SUBSET Evidence]

Copy ==
  [phase: 1..Phases, complete: BOOLEAN, legacy: BOOLEAN, evidence: SUBSET Evidence,
   transitions: Seq(Transition), used: [Keys -> 0..Phases], cutovers: [Domains -> Authority]]

Held == [step: {"loaded", "save"}, copy: Copy]

\* Every gate of the phase was observed to pass, and the observation is in rows.
Backed(t, phase, rows) ==
  \A g \in Gates : \E e \in t.basis \intersect rows : e.phase = phase /\ e.gate = g /\ e.passed

\* What a copy says of its past, with the rows of D1 to show it.
Walked(c, rows) ==
  /\ c.evidence \subseteq rows
  /\ Len(c.transitions) = IF c.complete THEN Phases ELSE c.phase - 1
  /\ c.complete <=> ~c.legacy
  /\ \A i \in 1..Len(c.transitions) :
       c.transitions[i].from = i /\ Backed(c.transitions[i], i, rows)

(* The saved state has walked, and so has every copy a request holds: a copy *)
(* that is overtaken may be saved over a later one, and takes the saved      *)
(* state back to a shorter walk, never to a broken one.                      *)
RolloutIInv ==
  /\ rollout \in Copy /\ Walked(rollout, evidenceRows)
  /\ handler \in [Handlers -> {Idle} \cup Held]
  /\ \A h \in Handlers : handler[h] # Idle => Walked(handler[h].copy, evidenceRows)

-----------------------------------------------------------------------------
(* D1 loses no row, so a walk it could show it can always show. *)
LEMMA WalkedStays ==
  ASSUME NEW c \in Copy, NEW rows, NEW more, rows \subseteq more, Walked(c, rows)
  PROVE  Walked(c, more)
<1>1. ASSUME NEW t, NEW i, Backed(t, i, rows)
      PROVE  Backed(t, i, more)
  BY <1>1 DEF Backed
<1> QED BY <1>1 DEF Walked

LEMMA RecordedWalks ==
  ASSUME NEW c \in Copy, NEW rows, NEW e \in Evidence, Walked(c, rows)
  PROVE  /\ Recorded(c, e) \in Copy
         /\ Walked(Recorded(c, e), rows \cup Recorded(c, e).evidence)
<1>1. Recorded(c, e) \in Copy
  BY DEF Recorded, Copy
<1>2. Walked(c, rows \cup Recorded(c, e).evidence)
  BY WalkedStays
<1> QED BY <1>1, <1>2 DEF Recorded, Walked, Copy

LEMMA CutoverWalks ==
  ASSUME NEW c \in Copy, NEW rows, NEW d \in Domains, NEW target \in Authority, Walked(c, rows)
  PROVE  /\ [c EXCEPT !.cutovers[d] = target] \in Copy
         /\ Walked([c EXCEPT !.cutovers[d] = target], rows)
  BY DEF Copy, Walked

(* A passing evaluation takes one observation of each gate from the copy. *)
LEMMA EvaluationBacks ==
  ASSUME NEW c \in Copy, NEW rows, NEW phase, NEW basis \in Evaluations(c, phase),
         NEW key, c.evidence \subseteq rows
  PROVE  Backed([from |-> phase, key |-> key, basis |-> basis], phase, rows)
<1>1. basis \subseteq c.evidence
  BY DEF Evaluations
<1>2. ASSUME NEW g \in Gates
      PROVE  \E e \in basis : e \in Latest(c, phase, g) /\ e.passed
  BY DEF Evaluations
<1>3. ASSUME NEW g \in Gates, NEW e \in Latest(c, phase, g)
      PROVE  e.phase = phase /\ e.gate = g
  BY DEF Latest
<1> QED BY <1>1, <1>2, <1>3 DEF Backed

LEMMA AdvancedWalks ==
  ASSUME RolloutAssumption, NEW c \in Copy, NEW rows, NEW expected \in 1..Phases, NEW key \in Keys,
         NEW basis \in Evaluations(c, expected), Advances(c, expected, key), Walked(c, rows)
  PROVE  /\ Advanced(c, expected, key, basis) \in Copy
         /\ Walked(Advanced(c, expected, key, basis), rows)
         /\ Advanced(c, expected, key, basis).evidence = c.evidence
<1> DEFINE t == [from |-> expected, key |-> key, basis |-> basis]
           walk == Append(c.transitions, t)
           next == Advanced(c, expected, key, basis)
<1>1. /\ Phases \in Nat \ {0} /\ expected = c.phase /\ ~c.complete /\ c.legacy \in BOOLEAN
      /\ c.transitions \in Seq(Transition) /\ c.evidence \in SUBSET Evidence
      /\ Len(c.transitions) = expected - 1
  BY DEF RolloutAssumption, Advances, Active, Copy, Walked
<1>2. t \in Transition
  BY <1>1 DEF Transition, Evaluations
<1>3. /\ walk \in Seq(Transition) /\ Len(walk) = expected /\ walk[expected] = t
      /\ \A i \in 1..(expected - 1) : walk[i] = c.transitions[i]
  BY <1>1, <1>2
<1>4. Backed(t, expected, rows)
  BY EvaluationBacks DEF Walked
<1>5. \A i \in 1..expected : walk[i].from = i /\ Backed(walk[i], i, rows)
  BY <1>1, <1>3, <1>4 DEF Walked
<1> DEFINE keys == [c.used EXCEPT ![key] = expected]
<1>6. keys \in [Keys -> 0..Phases]
  <2>1. c.used \in [Keys -> 0..Phases] /\ expected \in 0..Phases
    BY <1>1 DEF Copy
  <2> QED BY <2>1
<1> HIDE DEF t, walk, keys
<1>7. CASE expected < Phases
  <2>1. next = [c EXCEPT !.transitions = walk, !.used = keys, !.phase = expected + 1]
    BY <1>7 DEF Advanced, Copy, walk, t, keys
  <2>2. expected + 1 \in 1..Phases /\ expected \in 0..Phases
    BY <1>1, <1>7
  <2>3. /\ next.transitions = walk /\ next.phase = expected + 1 /\ next.complete = c.complete
        /\ next.legacy = c.legacy /\ next.evidence = c.evidence
    BY <2>1 DEF Copy
  <2>4. next \in Copy
    BY <2>1, <2>2, <1>3, <1>6 DEF Copy
  <2>5. Walked(next, rows)
    BY <2>3, <1>1, <1>3, <1>5 DEF Walked
  <2> QED BY <2>3, <2>4, <2>5
<1>8. CASE ~(expected < Phases)
  <2>1. next = [c EXCEPT !.transitions = walk, !.used = keys, !.complete = TRUE,
                         !.legacy = FALSE]
    BY <1>8 DEF Advanced, Copy, walk, t, keys
  <2>2. expected = Phases /\ expected \in 0..Phases
    BY <1>1, <1>8
  <2>3. /\ next.transitions = walk /\ next.complete = TRUE /\ next.legacy = FALSE
        /\ next.evidence = c.evidence
    BY <2>1 DEF Copy
  <2>4. next \in Copy
    BY <2>1, <2>2, <1>3, <1>6 DEF Copy
  <2>5. Walked(next, rows)
    BY <2>2, <2>3, <1>1, <1>3, <1>5 DEF Walked
  <2> QED BY <2>3, <2>4, <2>5
<1> QED BY <1>7, <1>8

-----------------------------------------------------------------------------
(* A handler awaits D1 with a copy that has walked, or that D1's rows and the *)
(* copy's own evidence show to have walked.                                   *)
LEMMA PersistedKeeps ==
  ASSUME RolloutIInv, NEW h \in Handlers, NEW c \in Copy,
         Walked(c, evidenceRows \cup c.evidence), Persisted(h, c), rollout' = rollout
  PROVE  RolloutIInv'
<1>1. evidenceRows \subseteq evidenceRows'
  BY DEF Persisted, PersistRollout, PersistFails
<1>2. Walked(rollout', evidenceRows')
  BY <1>1, WalkedStays DEF RolloutIInv
<1>3. ASSUME NEW g \in Handlers, handler[g] # Idle
      PROVE  Walked(handler[g].copy, evidenceRows')
  <2>1. handler[g].copy \in Copy
    BY <1>3 DEF RolloutIInv, Held
  <2> QED BY <1>1, <1>3, <2>1, WalkedStays DEF RolloutIInv
<1>4. CASE PersistRollout(c) /\ handler' = [handler EXCEPT ![h] = [step |-> "save", copy |-> c]]
  <2>1. Walked(c, evidenceRows')
    BY <1>4 DEF PersistRollout
  <2>2. handler' \in [Handlers -> {Idle} \cup Held]
    BY <1>4 DEF RolloutIInv, Held
  <2>3. ASSUME NEW g \in Handlers, handler'[g] # Idle
        PROVE  Walked(handler'[g].copy, evidenceRows')
    <3>1. CASE g = h
      BY <3>1, <1>4, <2>1 DEF RolloutIInv
    <3>2. CASE g # h
      BY <3>2, <1>3, <1>4, <2>3 DEF RolloutIInv
    <3> QED BY <3>1, <3>2
  <2> QED BY <1>2, <2>2, <2>3 DEF RolloutIInv
<1>5. CASE PersistFails(c) /\ handler' = [handler EXCEPT ![h] = Idle]
  <2>1. handler' \in [Handlers -> {Idle} \cup Held]
    BY <1>5 DEF RolloutIInv
  <2>2. ASSUME NEW g \in Handlers, handler'[g] # Idle
        PROVE  Walked(handler'[g].copy, evidenceRows')
    <3>1. g # h /\ handler'[g] = handler[g]
      BY <1>5, <2>2 DEF RolloutIInv
    <3> QED BY <3>1, <1>3, <2>2
  <2> QED BY <1>2, <2>1, <2>2 DEF RolloutIInv
<1> QED BY <1>4, <1>5 DEF Persisted

LEMMA InitWalks == ASSUME RolloutAssumption, RolloutInit PROVE RolloutIInv
<1>1. EmptyRollout \in Copy
  BY DEF RolloutAssumption, EmptyRollout, Copy, Legacy, Authority
<1>2. Walked(EmptyRollout, {})
  BY DEF EmptyRollout, Walked
<1> QED BY <1>1, <1>2 DEF RolloutInit, RolloutIInv

LEMMA StepWalks ==
  ASSUME RolloutAssumption, RolloutIInv, [RolloutNext]_rolloutVars
  PROVE  RolloutIInv'
<1> USE DEF RolloutIInv
<1>1. ASSUME NEW h \in Handlers, Holds(h)
      PROVE  /\ handler[h] # Idle /\ handler[h].copy \in Copy
             /\ Walked(handler[h].copy, evidenceRows)
  BY <1>1 DEF Holds, Idle, Held
<1>2. ASSUME NEW h \in Handlers, Load(h)
      PROVE  RolloutIInv'
  <2>1. [step |-> "loaded", copy |-> rollout] \in Held
    BY DEF Held
  <2> QED BY <1>2, <2>1 DEF Load
<1>3. ASSUME NEW h \in Handlers, PostEvidence(h)
      PROVE  RolloutIInv'
  <2>1. PICK e \in Evidence : Persisted(h, Recorded(handler[h].copy, e))
    BY <1>3 DEF PostEvidence
  <2>2. /\ Recorded(handler[h].copy, e) \in Copy
        /\ Walked(Recorded(handler[h].copy, e), evidenceRows \cup Recorded(handler[h].copy, e).evidence)
    BY <1>1, <1>3, RecordedWalks DEF PostEvidence
  <2> HIDE DEF RolloutIInv
  <2> QED BY <1>3, <2>1, <2>2, PersistedKeeps DEF PostEvidence
<1>4. ASSUME NEW h \in Handlers, PostAdvance(h)
      PROVE  RolloutIInv'
  <2>1. PICK expected \in 1..Phases, key \in Keys :
          /\ Advances(handler[h].copy, expected, key)
          /\ \E basis \in Evaluations(handler[h].copy, expected) :
               Persisted(h, Advanced(handler[h].copy, expected, key, basis))
    BY <1>4 DEF PostAdvance
  <2>2. PICK basis \in Evaluations(handler[h].copy, expected) :
          Persisted(h, Advanced(handler[h].copy, expected, key, basis))
    BY <2>1
  <2> DEFINE c == Advanced(handler[h].copy, expected, key, basis)
  <2>3. c \in Copy /\ Walked(c, evidenceRows)
    BY <1>1, <1>4, <2>1, AdvancedWalks DEF PostAdvance
  <2>4. Walked(c, evidenceRows \cup c.evidence)
    BY <2>3, WalkedStays
  <2> HIDE DEF RolloutIInv, c
  <2>5. Persisted(h, c)
    BY <2>2 DEF c
  <2> QED BY <1>4, <2>3, <2>4, <2>5, PersistedKeeps DEF PostAdvance
<1>5. ASSUME NEW h \in Handlers, PostCutover(h)
      PROVE  RolloutIInv'
  <2>1. PICK d \in Domains, target \in Authority :
          Persisted(h, [handler[h].copy EXCEPT !.cutovers[d] = target])
    BY <1>5 DEF PostCutover
  <2> DEFINE c == [handler[h].copy EXCEPT !.cutovers[d] = target]
  <2>2. c \in Copy /\ Walked(c, evidenceRows)
    BY <1>1, <1>5, CutoverWalks DEF PostCutover
  <2>3. Walked(c, evidenceRows \cup c.evidence)
    BY <2>2, WalkedStays
  <2> HIDE DEF RolloutIInv, c
  <2>4. Persisted(h, c)
    BY <2>1 DEF c
  <2> QED BY <1>5, <2>2, <2>3, <2>4, PersistedKeeps DEF PostCutover
<1>6. ASSUME NEW h \in Handlers, PostRehearsal(h)
      PROVE  RolloutIInv'
  <2>1. PICK at \in Times : Persisted(h, Rehearsed(handler[h].copy, at))
    BY <1>6 DEF PostRehearsal
  <2> DEFINE c == Rehearsed(handler[h].copy, at)
  <2>2. [phase |-> CutoverPhase, gate |-> Rehearsal, passed |-> TRUE, at |-> at] \in Evidence
    BY DEF RolloutAssumption, Evidence
  <2>3. handler[h].copy \in Copy /\ Walked(handler[h].copy, evidenceRows)
    BY <1>1, <1>6 DEF PostRehearsal
  <2>4. c \in Copy /\ Walked(c, evidenceRows \cup c.evidence)
    <3>1. CASE handler[h].copy.phase = CutoverPhase
      BY <2>2, <2>3, <3>1, RecordedWalks DEF Rehearsed
    <3>2. CASE handler[h].copy.phase # CutoverPhase
      BY <2>3, <3>2, WalkedStays DEF Rehearsed
    <3> QED BY <3>1, <3>2
  <2> HIDE DEF RolloutIInv, c
  <2>5. Persisted(h, c)
    BY <2>1 DEF c
  <2> QED BY <1>6, <2>4, <2>5, PersistedKeeps DEF PostRehearsal
<1>7. ASSUME NEW h \in Handlers, PostOther(h)
      PROVE  RolloutIInv'
  <2>1. [handler[h] EXCEPT !.step = "save"] \in Held
        /\ [handler[h] EXCEPT !.step = "save"].copy = handler[h].copy
    BY <1>1, <1>7 DEF PostOther, Held
  <2> QED BY <1>1, <1>7, <2>1 DEF PostOther
<1>8. ASSUME NEW h \in Handlers, Save(h)
      PROVE  RolloutIInv'
  <2>1. handler[h] \in Held /\ handler[h] # Idle
    BY <1>8 DEF Save, Idle
  <2> QED BY <1>8, <2>1 DEF Save, Held
<1>9. ASSUME RestartObject
      PROVE  RolloutIInv'
  BY <1>9 DEF RestartObject
<1>10. CASE UNCHANGED rolloutVars
  BY <1>10 DEF rolloutVars
<1> QED BY <1>2, <1>3, <1>4, <1>5, <1>6, <1>7, <1>8, <1>9, <1>10 DEF RolloutNext

-----------------------------------------------------------------------------
(* However many requests overlap and whatever D1 fails, the saved state and  *)
(* every copy in hand have walked the phases in order on evidence in D1.     *)
THEOREM RolloutWalks == RolloutSpec => []RolloutIInv
<1>1. RolloutInit => RolloutIInv
  BY InitWalks, RolloutAssumption
<1>2. RolloutIInv /\ [RolloutNext]_rolloutVars => RolloutIInv'
  BY StepWalks, RolloutAssumption
<1> QED BY <1>1, <1>2, PTL DEF RolloutSpec

(* No phase of the rollout is left out of order, or on evidence that D1      *)
(* cannot show (advanceRolloutPhase).                                        *)
THEOREM RolloutEvidenceBacked == RolloutSpec => []EvidenceBacked
<1>1. RolloutIInv => EvidenceBacked
  BY DEF RolloutIInv, Walked, Backed, EvidenceBacked
<1> QED BY <1>1, RolloutWalks, PTL

-----------------------------------------------------------------------------
(* The keys of the transitions and the authorities of the domains.           *)

(* A copy's n-th transition is the one its key was used for, so no key is    *)
(* used twice; and no domain is read from a store it is not written to.      *)
Keyed(c) ==
  /\ \A i \in 1..Len(c.transitions) : c.used[c.transitions[i].key] = i
  /\ \A d \in Domains : c.cutovers[d].read = "normalized" => c.cutovers[d].write # "legacy"

RolloutKeyed ==
  /\ Keyed(rollout)
  /\ \A h \in Handlers : handler[h] # Idle => Keyed(handler[h].copy)
  /\ evidenceRows \subseteq Evidence
  /\ \A t, u \in transitionRows : t.key = u.key => t = u

(* The key of an advance was not used before (advanceRolloutPhase).          *)
LEMMA AdvancedKeyed ==
  ASSUME NEW c \in Copy, NEW rows, Walked(c, rows), Keyed(c),
         NEW expected \in 1..Phases, NEW key \in Keys, NEW basis, Advances(c, expected, key)
  PROVE  Keyed(Advanced(c, expected, key, basis))
<1> DEFINE t == [from |-> expected, key |-> key, basis |-> basis]
           a == Advanced(c, expected, key, basis)
<1>1. /\ a.transitions = Append(c.transitions, t)
      /\ a.used = [c.used EXCEPT ![key] = expected]
      /\ a.cutovers = c.cutovers
  BY DEF Advanced, Copy
<1>2. /\ c.used[key] = 0 /\ c.transitions \in Seq(Transition)
      /\ Len(c.transitions) = expected - 1 /\ expected \in Int
  BY DEF Advances, Active, Walked, Copy
<1> HIDE DEF a
<1>3. /\ Len(a.transitions) = Len(c.transitions) + 1
      /\ a.transitions[Len(c.transitions) + 1] = t
      /\ \A i \in 1..Len(c.transitions) : a.transitions[i] = c.transitions[i]
  BY <1>1, <1>2
<1>4. ASSUME NEW i \in 1..Len(a.transitions) PROVE a.used[a.transitions[i].key] = i
  <2>1. CASE i = Len(c.transitions) + 1
    BY <2>1, <1>1, <1>2, <1>3 DEF Copy
  <2>2. CASE i # Len(c.transitions) + 1
    <3>1. i \in 1..Len(c.transitions) /\ i \in Int /\ i # 0
      BY <2>2, <1>2, <1>3
    <3>2. a.transitions[i] = c.transitions[i] /\ c.used[c.transitions[i].key] = i
      BY <3>1, <1>3 DEF Keyed
    <3>3. c.transitions[i].key \in Keys /\ c.transitions[i].key # key
      <4>1. c.transitions[i] \in Transition
        BY <3>1, <1>2
      <4>2. c.transitions[i].key \in Keys
        BY <4>1 DEF Transition
      <4> QED
        BY <4>2, <3>1, <3>2, <1>2
    <3>4. c.used \in [Keys -> 0..Phases]
      BY DEF Copy
    <3>5. a.used[c.transitions[i].key] = c.used[c.transitions[i].key]
      BY <3>3, <3>4, <1>1
    <3> QED
      BY <3>2, <3>5
  <2> QED BY <2>1, <2>2
<1> QED BY <1>1, <1>4 DEF Keyed, a

(* D1 takes the rows of a copy only when no key is another transition's.     *)
LEMMA PersistedKeyed ==
  ASSUME RolloutIInv, RolloutKeyed, NEW h \in Handlers, NEW c \in Copy, Keyed(c),
         Persisted(h, c), rollout' = rollout
  PROVE  RolloutKeyed'
<1>1. evidenceRows' \subseteq Evidence
  BY DEF Persisted, PersistRollout, PersistFails, RolloutKeyed, Copy
<1>2. ASSUME NEW g \in Handlers, handler'[g] # Idle PROVE Keyed(handler'[g].copy)
  <2>1. \/ handler' = [handler EXCEPT ![h] = [step |-> "save", copy |-> c]]
        \/ handler' = [handler EXCEPT ![h] = Idle]
    BY DEF Persisted
  <2>2. handler \in [Handlers -> {Idle} \cup Held]
    BY DEF RolloutIInv
  <2> QED BY <1>2, <2>1, <2>2 DEF RolloutKeyed
<1>3. ASSUME NEW t \in transitionRows', NEW u \in transitionRows', t.key = u.key
      PROVE  t = u
  <2>1. CASE UNCHANGED transitionRows
    BY <2>1, <1>3 DEF RolloutKeyed
  <2>2. CASE PersistRollout(c)
    <3>1. transitionRows' = transitionRows \cup Rows(c) /\ ~KeyConflict(c)
      BY <2>2 DEF PersistRollout
    <3>2. ASSUME t \in Rows(c), u \in Rows(c) PROVE t = u
      <4>1. PICK i \in 1..Len(c.transitions) : t = c.transitions[i]
        BY <3>2 DEF Rows
      <4>2. PICK j \in 1..Len(c.transitions) : u = c.transitions[j]
        BY <3>2 DEF Rows
      <4> QED BY <4>1, <4>2, <1>3 DEF Keyed
    <3> QED BY <3>1, <3>2, <1>3 DEF KeyConflict, RolloutKeyed
  <2> QED BY <2>1, <2>2 DEF Persisted, PersistFails
<1> QED BY <1>1, <1>2, <1>3 DEF RolloutKeyed

LEMMA StepKeyed ==
  ASSUME RolloutAssumption, RolloutIInv, RolloutKeyed, [RolloutNext]_rolloutVars
  PROVE  RolloutKeyed'
<1>1. ASSUME NEW h \in Handlers, Holds(h)
      PROVE  /\ handler[h] # Idle /\ handler[h].copy \in Copy
             /\ Walked(handler[h].copy, evidenceRows) /\ Keyed(handler[h].copy)
  BY <1>1 DEF Holds, Idle, Held, RolloutIInv, RolloutKeyed
<1>2. handler \in [Handlers -> {Idle} \cup Held]
  BY DEF RolloutIInv
<1>3. ASSUME NEW h \in Handlers, PostEvidence(h) PROVE RolloutKeyed'
  <2>1. PICK e \in Evidence : Persisted(h, Recorded(handler[h].copy, e))
    BY <1>3 DEF PostEvidence
  <2>2. /\ Recorded(handler[h].copy, e) \in Copy
        /\ Keyed(Recorded(handler[h].copy, e))
    BY <1>1, <1>3 DEF PostEvidence, Recorded, Copy, Keyed
  <2> QED BY <1>3, <2>1, <2>2, PersistedKeyed DEF PostEvidence
<1>4. ASSUME NEW h \in Handlers, PostAdvance(h) PROVE RolloutKeyed'
  <2>1. PICK expected \in 1..Phases, key \in Keys :
          /\ Advances(handler[h].copy, expected, key)
          /\ \E basis \in Evaluations(handler[h].copy, expected) :
               Persisted(h, Advanced(handler[h].copy, expected, key, basis))
    BY <1>4 DEF PostAdvance
  <2>2. PICK basis \in Evaluations(handler[h].copy, expected) :
          Persisted(h, Advanced(handler[h].copy, expected, key, basis))
    BY <2>1
  <2> DEFINE c == Advanced(handler[h].copy, expected, key, basis)
  <2>3. handler[h].copy \in Copy /\ Walked(handler[h].copy, evidenceRows) /\ Keyed(handler[h].copy)
    BY <1>1, <1>4 DEF PostAdvance
  <2>4. c \in Copy
    BY <2>1, <2>3, AdvancedWalks
  <2>5. Keyed(c)
    BY <2>1, <2>3, AdvancedKeyed
  <2> HIDE DEF c
  <2>6. Persisted(h, c)
    BY <2>2 DEF c
  <2> QED BY <1>4, <2>4, <2>5, <2>6, PersistedKeyed DEF PostAdvance
<1>5. ASSUME NEW h \in Handlers, PostCutover(h) PROVE RolloutKeyed'
  <2>1. PICK d \in Domains, target \in Authority :
          /\ CutoverStep(handler[h].copy.cutovers[d], target)
          /\ Persisted(h, [handler[h].copy EXCEPT !.cutovers[d] = target])
    BY <1>5 DEF PostCutover
  <2> DEFINE c == [handler[h].copy EXCEPT !.cutovers[d] = target]
  <2>2. handler[h].copy \in Copy /\ Walked(handler[h].copy, evidenceRows) /\ Keyed(handler[h].copy)
    BY <1>1, <1>5 DEF PostCutover
  <2>3. c \in Copy
    BY <2>2, CutoverWalks
  <2>4. target.read = "normalized" => target.write # "legacy"
    BY <2>1 DEF CutoverStep, Forward, Legacy
  <2>5. Keyed(c)
    BY <2>2, <2>4 DEF Keyed, Copy
  <2> HIDE DEF c
  <2>6. Persisted(h, c)
    BY <2>1 DEF c
  <2> QED BY <1>5, <2>3, <2>5, <2>6, PersistedKeyed DEF PostCutover
<1>6. ASSUME NEW h \in Handlers, PostRehearsal(h) PROVE RolloutKeyed'
  <2>1. PICK at \in Times : Persisted(h, Rehearsed(handler[h].copy, at))
    BY <1>6 DEF PostRehearsal
  <2>2. [phase |-> CutoverPhase, gate |-> Rehearsal, passed |-> TRUE, at |-> at] \in Evidence
    BY DEF RolloutAssumption, Evidence
  <2>3. /\ Rehearsed(handler[h].copy, at) \in Copy
        /\ Keyed(Rehearsed(handler[h].copy, at))
    BY <2>2, <1>1, <1>6 DEF PostRehearsal, Rehearsed, Recorded, Copy, Keyed
  <2> QED BY <1>6, <2>1, <2>3, PersistedKeyed DEF PostRehearsal
<1>7. ASSUME NEW h \in Handlers, Load(h) \/ PostOther(h) \/ Save(h) PROVE RolloutKeyed'
  <2>1. UNCHANGED <<evidenceRows, transitionRows>>
    BY <1>7 DEF Load, PostOther, Save
  <2>2. Keyed(rollout')
    BY <1>7 DEF Load, PostOther, Save, RolloutKeyed, Idle
  <2>3. ASSUME NEW g \in Handlers, handler'[g] # Idle PROVE Keyed(handler'[g].copy)
    <3>1. CASE Load(h)
      BY <1>2, <2>3, <3>1 DEF Load, RolloutKeyed
    <3>2. CASE PostOther(h)
      <4>1. [handler[h] EXCEPT !.step = "save"].copy = handler[h].copy /\ handler[h] # Idle
        BY <1>1, <1>2, <3>2 DEF PostOther, Held
      <4> QED BY <1>2, <2>3, <3>2, <4>1 DEF PostOther, RolloutKeyed
    <3>3. CASE Save(h)
      BY <1>2, <2>3, <3>3 DEF Save, RolloutKeyed
    <3> QED BY <1>7, <3>1, <3>2, <3>3
  <2> QED BY <2>1, <2>2, <2>3 DEF RolloutKeyed
<1>8. ASSUME RestartObject PROVE RolloutKeyed'
  BY <1>8 DEF RestartObject, RolloutKeyed
<1>9. CASE UNCHANGED rolloutVars
  BY <1>9 DEF rolloutVars, RolloutKeyed
<1> QED BY <1>3, <1>4, <1>5, <1>6, <1>7, <1>8, <1>9 DEF RolloutNext

(* A key stands for one transition in D1, and no domain is read from a store *)
(* it is not written to (persistRollout, recordDomainCutover).               *)
THEOREM RolloutTyped == RolloutSpec => []RolloutTypeOK
<1>1. RolloutInit => RolloutKeyed
  BY DEF RolloutInit, EmptyRollout, Legacy, RolloutKeyed, Keyed
<1>2. RolloutIInv /\ RolloutKeyed /\ [RolloutNext]_rolloutVars => RolloutKeyed'
  BY StepKeyed, RolloutAssumption
<1>3. RolloutIInv /\ RolloutKeyed => RolloutTypeOK
  BY DEF RolloutIInv, Walked, Copy, RolloutKeyed, Keyed, RolloutTypeOK
<1> QED BY <1>1, <1>2, <1>3, RolloutWalks, PTL DEF RolloutSpec
=============================================================================

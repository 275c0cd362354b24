----------------------------- MODULE RolloutGate -----------------------------
(* The phased rollout (worker/rollout.js), its operator handlers in           *)
(* worker/index.js and its D1 journal (worker/rollout-store.js).  A handler   *)
(* loads the object's state, changes its own copy, awaits D1 and saves the    *)
(* copy whole; handlers interleave at their awaits, and a restart drops the   *)
(* copies.  The details a gate asks for are stood in for by the result of the *)
(* observation: passed means that the predicate of the gate held as well.     *)
EXTENDS Integers, FiniteSets, Sequences

CONSTANTS
  Phases,        \* the number of phases, A to I in the code
  CutoverPhase,  \* the phase in which domains are cut over, E in the code
  Gates,         \* gates of every phase
  Rehearsal,     \* the gate of CutoverPhase that a rollback rehearsal answers
  Domains, Keys, Handlers,
  Times,         \* observed_at values
  MaxObservations \* bound: evidence rows

ASSUME RolloutAssumption ==
  /\ Phases \in Nat \ {0} /\ CutoverPhase \in 1..Phases
  /\ Rehearsal \in Gates /\ Times \subseteq Nat

VARIABLES
  rollout,       \* the saved state.rollout
  handler,       \* what each handler holds
  evidenceRows,  \* D1 rollout_gate_evidence
  transitionRows \* D1 rollout_transitions

rolloutVars == <<rollout, handler, evidenceRows, transitionRows>>

Evidence == [phase: 1..Phases, gate: Gates, passed: BOOLEAN, at: Times]
Idle == [step |-> "idle"]
Legacy == [write |-> "legacy", read |-> "legacy"]

EmptyRollout ==
  [phase |-> 1, complete |-> FALSE, legacy |-> TRUE, evidence |-> {}, transitions |-> <<>>,
   used |-> [k \in Keys |-> 0], cutovers |-> [d \in Domains |-> Legacy]]

RolloutInit ==
  /\ rollout = EmptyRollout
  /\ handler = [h \in Handlers |-> Idle]
  /\ evidenceRows = {} /\ transitionRows = {}

-----------------------------------------------------------------------------
(* What a handler makes of the copy it holds.                                *)
Active(c, phase) == ~c.complete /\ phase = c.phase

Recorded(c, e) == [c EXCEPT !.evidence = @ \cup {e}]

\* Mutant: evidence of any phase counts.
LatestOfAny(c, phase, gate) == {e \in c.evidence : e.gate = gate}

\* latestEvidence: by observed_at; of two at one time their hashes decide.
Latest(c, phase, gate) ==
  LET own == {e \in c.evidence : e.phase = phase /\ e.gate = gate}
  IN {e \in own : \A f \in own : f.at <= e.at}

\* The evidence a passing evaluation rests on, one observation of each gate.
Evaluations(c, phase) ==
  {basis \in SUBSET c.evidence :
     /\ Cardinality(basis) = Cardinality(Gates)
     /\ \A g \in Gates : \E e \in basis : e \in Latest(c, phase, g) /\ e.passed}

Advances(c, expected, key) ==
  c.used[key] = 0 /\ Active(c, expected) /\ Evaluations(c, expected) # {}

Advanced(c, expected, key, basis) ==
  LET next == [c EXCEPT !.transitions = Append(@, [from |-> expected, key |-> key, basis |-> basis]),
                        !.used[key] = expected]
  IN IF expected < Phases THEN [next EXCEPT !.phase = expected + 1]
                          ELSE [next EXCEPT !.complete = TRUE, !.legacy = FALSE]

Forward ==
  {<<Legacy, [write |-> "dual_write", read |-> "legacy"]>>,
   <<[write |-> "dual_write", read |-> "legacy"], [write |-> "dual_write", read |-> "normalized"]>>,
   <<[write |-> "dual_write", read |-> "normalized"], [write |-> "normalized", read |-> "normalized"]>>}

\* recordDomainCutover, forward or as a rollback; the phase is not asked to be open.
CutoverStep(current, target) ==
  \/ <<current, target>> \in Forward
  \/ target = [write |-> "dual_write", read |-> "legacy"]

Authority == [write: {"legacy", "dual_write", "normalized"}, read: {"legacy", "normalized"}]

\* The rehearsal restores the bundle it has just made: its report passes.
Rehearsed(c, at) ==
  IF c.phase = CutoverPhase
  THEN Recorded(c, [phase |-> CutoverPhase, gate |-> Rehearsal, passed |-> TRUE, at |-> at])
  ELSE c

-----------------------------------------------------------------------------
(* persistRollout: everything the copy holds is inserted again.  A key is    *)
(* unique among the transitions, so a key that D1 knows for another          *)
(* transition refuses the batch.                                             *)
Rows(c) == {c.transitions[i] : i \in 1..Len(c.transitions)}

KeyConflict(c) ==
  \E t \in Rows(c), r \in transitionRows : t.key = r.key /\ t # r

PersistRollout(c) ==
  /\ ~KeyConflict(c)
  /\ evidenceRows' = evidenceRows \cup c.evidence
  /\ transitionRows' = transitionRows \cup Rows(c)

\* D1 refuses or fails; earlier batches of fifty may hold evidence already.
PersistFails(c) ==
  /\ evidenceRows' \in {evidenceRows, evidenceRows \cup c.evidence}
  /\ UNCHANGED transitionRows

\* The handler goes on to save, or throws and drops its copy.
Persisted(h, c) ==
  \/ PersistRollout(c) /\ handler' = [handler EXCEPT ![h] = [step |-> "save", copy |-> c]]
  \/ PersistFails(c) /\ handler' = [handler EXCEPT ![h] = Idle]

-----------------------------------------------------------------------------
Load(h) ==
  /\ handler[h] = Idle
  /\ handler' = [handler EXCEPT ![h] = [step |-> "loaded", copy |-> rollout]]
  /\ UNCHANGED <<rollout, evidenceRows, transitionRows>>

Holds(h) == handler[h].step = "loaded"

PostEvidence(h) ==
  /\ Holds(h)
  /\ Cardinality(evidenceRows) < MaxObservations
  /\ \E e \in Evidence :
       /\ Active(handler[h].copy, e.phase)
       /\ Persisted(h, Recorded(handler[h].copy, e))
  /\ UNCHANGED rollout

PostAdvance(h) ==
  /\ Holds(h)
  /\ \E expected \in 1..Phases, key \in Keys :
       /\ Advances(handler[h].copy, expected, key)
       /\ \E basis \in Evaluations(handler[h].copy, expected) :
            Persisted(h, Advanced(handler[h].copy, expected, key, basis))
  /\ UNCHANGED rollout

PostCutover(h) ==
  /\ Holds(h)
  /\ handler[h].copy.phase = CutoverPhase
  /\ \E d \in Domains, target \in Authority :
       /\ CutoverStep(handler[h].copy.cutovers[d], target)
       /\ Persisted(h, [handler[h].copy EXCEPT !.cutovers[d] = target])
  /\ UNCHANGED rollout

PostRehearsal(h) ==
  /\ Holds(h)
  /\ Cardinality(evidenceRows) < MaxObservations
  /\ \E at \in Times : Persisted(h, Rehearsed(handler[h].copy, at))
  /\ UNCHANGED rollout

\* An advance that is blocked or a duplicate, and every other handler that
\* loads and saves the object's state, leave the rollout in their copy alone.
PostOther(h) ==
  /\ Holds(h)
  /\ handler' = [handler EXCEPT ![h].step = "save"]
  /\ UNCHANGED <<rollout, evidenceRows, transitionRows>>

Save(h) ==
  /\ handler[h].step = "save"
  /\ rollout' = handler[h].copy
  /\ handler' = [handler EXCEPT ![h] = Idle]
  /\ UNCHANGED <<evidenceRows, transitionRows>>

RestartObject ==
  /\ \E h \in Handlers : handler[h] # Idle
  /\ handler' = [h \in Handlers |-> Idle]
  /\ UNCHANGED <<rollout, evidenceRows, transitionRows>>

RolloutNext ==
  \/ \E h \in Handlers : \/ Load(h) \/ PostEvidence(h) \/ PostAdvance(h) \/ PostCutover(h)
                         \/ PostRehearsal(h) \/ PostOther(h) \/ Save(h)
  \/ RestartObject

RolloutSpec == RolloutInit /\ [][RolloutNext]_rolloutVars
-----------------------------------------------------------------------------
(* Properties *)
RolloutTypeOK ==
  /\ rollout.phase \in 1..Phases /\ rollout.complete \in BOOLEAN
  /\ rollout.evidence \subseteq evidenceRows /\ evidenceRows \subseteq Evidence
  /\ rollout.cutovers \in [Domains -> Authority]
  /\ \A d \in Domains : rollout.cutovers[d].read = "normalized" =>
                          rollout.cutovers[d].write # "legacy"
  /\ \A t, u \in transitionRows : t.key = u.key => t = u

(* The legacy authority is retired by nothing but the whole walk, and no      *)
(* phase is left on evidence that D1 cannot show: whatever requests overlap,  *)
(* are repeated with their key, fail in D1 or are cut off, the saved          *)
(* transitions lead through the phases in order up to the saved one, and      *)
(* every gate of a phase that was left was observed to pass, in that phase,   *)
(* by an observation in rollout_gate_evidence (advanceRolloutPhase).          *)
EvidenceBacked ==
  /\ Len(rollout.transitions) = IF rollout.complete THEN Phases ELSE rollout.phase - 1
  /\ rollout.complete <=> ~rollout.legacy
  /\ \A i \in 1..Len(rollout.transitions) :
       LET t == rollout.transitions[i]
       IN /\ t.from = i
          /\ \A g \in Gates : \E e \in t.basis \intersect evidenceRows :
               e.phase = i /\ e.gate = g /\ e.passed
=============================================================================

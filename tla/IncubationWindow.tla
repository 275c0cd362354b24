--------------------------- MODULE IncubationWindow ---------------------------
(* The forward-incubation evidence of one strategy (worker/incubation.js), the *)
(* calls worker/index.js makes of it, and the D1 journal of                    *)
(* worker/incubation-store.js.  Market time is the number of complete          *)
(* five-minute bars; every finalized bar of every source symbol is an event of *)
(* its own, and the command it raises runs whenever the queue delivers it, as  *)
(* often as it likes.  What a delivery sees is the market of that moment, not  *)
(* the market of the bar it was raised by.  Targets are directions: partial    *)
(* exits and increases move no property.  A closed trade gained or lost; the   *)
(* expectancy and drawdown limits are stood in for by HardLoss and Degraded.   *)
EXTENDS Integers, FiniteSets

CONSTANTS
  Symbols,                \* the frozen universe of the strategy
  Sources,                \* the symbols whose bars raise events
  Days, Bars,             \* sessions, and five-minute bars of each
  FlattenBars,            \* bars before the close in which targets are forced flat
  Directions,             \* the targets a strategy may ask for, 0 among them
  Covered,                \* observed bars that make a covered day
  MinDays, MaxDays, MinTrades, HardTrades, MinSymbols,  \* the frozen policy
  MaxLag                  \* bound: commands that may be outstanding when time moves on

ASSUME IncubationAssumption ==
  /\ {Days, Bars, Covered, MinDays, MaxDays, MinTrades} \subseteq Nat \ {0}
  /\ {FlattenBars, HardTrades, MinSymbols, MaxLag} \subseteq Nat
  /\ MinDays <= MaxDays
  /\ 0 \in Directions

VARIABLES
  now,          \* complete bars so far
  issued,       \* events whose compute_incubation_targets command was submitted
  due,          \* sessions whose pipeline_incubation command was submitted
  processed,    \* evidence.processed_event_ids
  sessions,     \* evidence.sessions
  pending,      \* evidence.pending_targets
  position,     \* evidence.positions
  ledger,       \* evidence.closed_trade_ledger
  stage,        \* the strategy's state
  ready,        \* strategy.release_ready with the reason release_paused
  releasesPaused, \* orchestration.controls.release_paused
  peer,         \* a released strategy has the same behavior_hash
  dayRows,      \* D1 incubation_days
  tradeRows     \* D1 incubation_trades

evidence == <<processed, sessions, pending, position, ledger>>
journal == <<dayRows, tradeRows>>
incubationVars == <<now, issued, due, evidence, stage, ready, releasesPaused, peer, journal>>

DayOf(bar) == ((bar - 1) \div Bars) + 1
Minute(bar) == ((bar - 1) % Bars) + 1
Event == [bar: 1..(Days * Bars), source: Sources]
NoTarget == [dir |-> 0, aimed |-> -1]
Flat == [dir |-> 0, aimed |-> -1, at |-> -1, opened |-> -1]

EmptySession == [events |-> {}, fault |-> FALSE, completed |-> FALSE, valid |-> FALSE]

IncubationInit ==
  /\ now = 0
  /\ issued = {} /\ due = {} /\ processed = {}
  /\ sessions = [d \in 1..Days |-> EmptySession]
  /\ pending = [s \in Symbols |-> NoTarget]
  /\ position = [s \in Symbols |-> Flat]
  /\ ledger = {}
  /\ stage = "incubation" /\ ready = FALSE
  /\ releasesPaused \in BOOLEAN /\ peer \in BOOLEAN
  /\ dayRows = {} /\ tradeRows = {}

-----------------------------------------------------------------------------
(* The gate: what evaluateIncubationGate makes of the evidence.              *)
Eligible(trades) == {t \in trades : t.eligible}
ValidDays(days) == {d \in DOMAIN days : days[d].completed /\ days[d].valid}
Gains(trades) == {t \in trades : t.gained}
HardLoss(trades) == Cardinality(trades) >= HardTrades /\ trades # {} /\ Gains(trades) = {}
Degraded(trades) == 2 * Cardinality(Gains(trades)) < Cardinality(trades)

\* The latest completed day is invalid for a fault, or an open day has one.
FaultActive(days) ==
  \/ \E d \in DOMAIN days :
       /\ days[d].completed /\ ~days[d].valid /\ days[d].fault
       /\ \A e \in DOMAIN days : days[e].completed => e <= d
  \/ \E d \in DOMAIN days : ~days[d].completed /\ days[d].fault

CountersReady(days, trades) ==
  /\ Cardinality(ValidDays(days)) >= MinDays
  /\ Cardinality(trades) >= MinTrades

ReleaseFindings(trades, redundant) ==
  \/ Cardinality({t.symbol : t \in trades}) < MinSymbols
  \/ Degraded(trades)
  \/ redundant

Outcome(days, all, redundant) ==
  LET trades == Eligible(all)
      exhausted == Cardinality(ValidDays(days)) >= MaxDays
  IN IF FaultActive(days) THEN "incubation_blocked"
     ELSE IF HardLoss(trades) THEN "incubation_reject"
     ELSE IF exhausted /\ Cardinality(trades) < MinTrades THEN "incubation_rework"
     ELSE IF ~CountersReady(days, trades) THEN "incubation_continue"
     ELSE IF ~ReleaseFindings(trades, redundant) THEN "released_paper"
     ELSE IF exhausted THEN "incubation_reject" ELSE "incubation_continue"

\* persistEvidence: days are upserted, trades of valid days inserted once.
PersistEvidence ==
  /\ dayRows' = {r \in dayRows : ~sessions'[r.day].completed}
                  \cup {[day |-> d, eligible |-> sessions'[d].valid] :
                          d \in {x \in 1..Days : sessions'[x].completed}}
  /\ tradeRows' = tradeRows \cup
       {[symbol |-> t.symbol, opened |-> t.opened, closed |-> t.closed] :
          t \in {x \in Eligible(ledger') : x.day \in ValidDays(sessions')}}

\* applyIncubationDecision.  D1 may fail: the label is already set by then.
ApplyDecision(outcome) ==
  /\ stage' = CASE outcome \in {"incubation_continue", "incubation_blocked"} -> stage
                [] outcome = "released_paper" /\ releasesPaused -> stage
                [] OTHER -> outcome
  /\ ready' = (ready \/ (outcome = "released_paper" /\ releasesPaused))
  /\ PersistEvidence \/ UNCHANGED journal

-----------------------------------------------------------------------------
(* recordIncubationEvent, and the decision executeOrchestrationActions takes   *)
(* when the event closed a trade.                                              *)
Filled(s) == pending[s] # NoTarget
Opens(s) == Filled(s) /\ position[s] = Flat /\ pending[s].dir # 0
Closes(s) == Filled(s) /\ position[s] # Flat /\ pending[s].dir # position[s].dir

\* Target computation forces targets flat in the last minutes of an open session.
ForceFlatten == Minute(now) \in (Bars - FlattenBars)..(Bars - 1)

\* seen: the last bar the feed has, or 0 when it has none for the strategy.
SessionAfter(e, seen, troubled) ==
  LET prior == sessions[DayOf(e.bar)]
      canonical == seen = e.bar
  IN [prior EXCEPT !.fault = @ \/ troubled \/ ~canonical,
                   !.events = IF canonical THEN @ \cup {e} ELSE @]

PositionAfter(e, seen, s) ==
  IF seen # 0 /\ Opens(s)
  THEN [dir |-> pending[s].dir, aimed |-> pending[s].aimed, at |-> seen, opened |-> e.bar]
  ELSE IF seen # 0 /\ Closes(s) THEN Flat ELSE position[s]

TradesOf(e, seen, day, gained) ==
  {[symbol |-> s, opened |-> position[s].opened, closed |-> e.bar, day |-> DayOf(e.bar),
    eligible |-> ~day.fault, gained |-> gained] :
     s \in {x \in Symbols : seen # 0 /\ Closes(x)}}

Record(e, seen, troubled, gained, wanted) ==
  LET day == SessionAfter(e, seen, troubled)
      closed == TradesOf(e, seen, day, gained)
  IN /\ processed' = processed \cup {e}
     /\ sessions' = [sessions EXCEPT ![DayOf(e.bar)] = day]
     /\ position' = [s \in Symbols |-> PositionAfter(e, seen, s)]
     /\ pending' = [s \in Symbols |->
                     [dir |-> IF ForceFlatten THEN 0 ELSE wanted[s], aimed |-> seen]]
     /\ ledger' = ledger \cup closed
     /\ IF closed = {} THEN UNCHANGED <<stage, ready, journal>>
                       ELSE ApplyDecision(Outcome(sessions', ledger', peer))

Compute(e) ==
  /\ e \in issued \ processed
  /\ stage = "incubation"
  /\ \E seen \in {now, 0}, troubled, gained \in BOOLEAN, wanted \in [Symbols -> Directions] :
       /\ seen = 0 => /\ troubled /\ \A s \in Symbols : wanted[s] = 0
       /\ gained \/ \E s \in Symbols : Closes(s)
       /\ Record(e, seen, troubled, gained, wanted)
  /\ UNCHANGED <<now, issued, due, releasesPaused, peer>>

-----------------------------------------------------------------------------
(* finalizeIncubationSession: the verdict on a day is given once.              *)
HoldsPosition == \E s \in Symbols : position[s] # Flat

\* Mutant: the day is judged but never marked complete.
FinalizedOpen(d, incident) ==
  [sessions[d] EXCEPT !.fault = @ \/ incident \/ HoldsPosition,
     !.valid = ~incident /\ ~HoldsPosition /\ Cardinality(sessions[d].events) >= Covered]

Finalized(d, incident) ==
  LET fault == sessions[d].fault \/ incident \/ HoldsPosition
  IN [sessions[d] EXCEPT !.fault = fault, !.completed = TRUE,
        !.valid = ~fault /\ Cardinality(sessions[d].events) >= Covered]

Excluding(d) ==
  {[t EXCEPT !.eligible = @ /\ t.day # d] : t \in ledger}

\* Mutant: a redelivered close command judges the day again.
FinalizeAnew(d, incident) ==
  /\ sessions' = [sessions EXCEPT ![d] = Finalized(d, incident)]
  /\ ledger' = IF sessions'[d].valid THEN ledger ELSE Excluding(d)

FinalizeSession(d, incident) ==
  IF sessions[d].completed
  THEN UNCHANGED <<sessions, ledger>>
  ELSE /\ sessions' = [sessions EXCEPT ![d] = Finalized(d, incident)]
       /\ ledger' = IF sessions'[d].valid THEN ledger ELSE Excluding(d)

\* pipeline.incubation: the session-end decision is taken without the peers.
CloseDay(d) ==
  /\ d \in due /\ stage = "incubation"
  /\ \E incident \in BOOLEAN : FinalizeSession(d, incident)
  /\ ApplyDecision(Outcome(sessions', ledger', FALSE))
  /\ UNCHANGED <<now, issued, due, processed, pending, position, releasesPaused, peer>>

\* Mutant: the decision that was held is applied without asking again.
ReleaseUnasked ==
  /\ ready /\ stage = "incubation"
  /\ UNCHANGED evidence
  /\ ApplyDecision("released_paper")
  /\ UNCHANGED <<now, issued, due, releasesPaused, peer>>

\* pipeline.release: the gate is asked again; another outcome is an error.
ReleaseHeld ==
  /\ ready /\ stage = "incubation"
  /\ Outcome(sessions, ledger, peer) = "released_paper"
  /\ UNCHANGED evidence
  /\ ApplyDecision("released_paper")
  /\ UNCHANGED <<now, issued, due, releasesPaused, peer>>

-----------------------------------------------------------------------------
(* The market and the scheduler.                                               *)
\* A bar completes; the sources that were fully observed raise an event.
NextBar ==
  /\ now < Days * Bars /\ stage = "incubation"
  /\ Cardinality(issued \ processed) <= MaxLag
  /\ now' = now + 1
  /\ \E raised \in SUBSET Sources : issued' = issued \cup [bar: {now'}, source: raised]
  /\ UNCHANGED <<due, evidence, stage, ready, releasesPaused, peer, journal>>

\* planOrchestrationTick: the close command of a day is planned on that day only.
PlanClose ==
  /\ now > 0 /\ Minute(now) = Bars
  /\ due' = due \cup {DayOf(now)} /\ due' # due
  /\ UNCHANGED <<now, issued, evidence, stage, ready, releasesPaused, peer, journal>>

\* The operator's releases control.
ToggleReleases ==
  /\ ready /\ stage = "incubation"
  /\ releasesPaused' = ~releasesPaused
  /\ UNCHANGED <<now, issued, due, evidence, stage, ready, peer, journal>>

IncubationNext ==
  \/ \E e \in Event : Compute(e)
  \/ \E d \in 1..Days : CloseDay(d)
  \/ ReleaseHeld
  \/ NextBar
  \/ PlanClose
  \/ ToggleReleases

IncubationSpec == IncubationInit /\ [][IncubationNext]_incubationVars
-----------------------------------------------------------------------------
(* Properties *)
Trade == [symbol: Symbols, opened: 1..(Days * Bars), closed: 1..(Days * Bars),
          day: 1..Days, eligible: BOOLEAN, gained: BOOLEAN]

(* The evidence stays well-formed: targets are aimed from bars the feed had, *)
(* a position was filled by an event that was processed, and a day is valid  *)
(* only when it is complete.                                                 *)
IncubationTypeOK ==
  /\ now \in 0..(Days * Bars)
  /\ processed \subseteq issued /\ issued \subseteq Event
  /\ due \subseteq 1..Days
  /\ \A d \in 1..Days :
       /\ sessions[d].events \subseteq processed
       /\ sessions[d].valid => sessions[d].completed
       /\ sessions[d].completed => d \in due
  /\ \A s \in Symbols :
       /\ pending[s].aimed \in -1..now
       /\ position[s] # Flat => /\ position[s].dir \in Directions \ {0}
                                /\ position[s].at \in 1..now
                                /\ \E e \in processed : e.bar = position[s].opened
  /\ ledger \subseteq Trade

(* What D1 holds agrees with the evidence, however often and however late    *)
(* events and close commands run: a stored day carries the verdict of the    *)
(* session, and a stored trade is one the gate counts, on a day that is      *)
(* valid (incubation-store.js: days are upserted, trades are never removed). *)
JournalHolds ==
  /\ \A r \in dayRows : sessions[r.day].completed /\ r.eligible = sessions[r.day].valid
  /\ \A r \in tradeRows :
       \E t \in ledger :
         /\ t.symbol = r.symbol /\ t.opened = r.opened /\ t.closed = r.closed
         /\ t.eligible /\ sessions[t.day].valid

(* A strategy is released, at once or after the operator's hold, only while  *)
(* the evidence of that moment carries it: enough valid days and eligible    *)
(* trades, and no fault on an open day or on the last completed one.         *)
ReleaseEarned ==
  [][stage' = "released_paper" /\ stage # "released_paper" =>
       /\ Cardinality({d \in 1..Days : sessions'[d].valid}) >= MinDays
       /\ Cardinality({t \in ledger' : t.eligible}) >= MinTrades
       /\ ~\E d \in 1..Days : sessions'[d].fault /\ ~sessions'[d].completed]_incubationVars

=============================================================================

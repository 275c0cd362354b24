----------------------------- MODULE MCTradingDay -----------------------------
(* What a trading day adds up to: the live bars with the commands planned     *)
(* from them, the incubation of a strategy, the health of a released one, and *)
(* the phases of the rollout.  In the modules none of them reads what another *)
(* writes, so one of them moves in a behaviour and the others rest.           *)
EXTENDS LiveSession, IncubationWindow, ReleaseHealth, RolloutGate, TLC

MCPhases == [stop_entries |-> 1, close_valid_day_ledger |-> -1]

VARIABLE moving  \* the component that moves

TradingDayInit ==
  /\ LiveInit /\ IncubationInit /\ HealthInit /\ RolloutInit
  /\ moving \in {"live", "incubation", "health", "rollout"}
  /\ moving # "incubation" => ~releasesPaused /\ ~peer

TradingDayNext ==
  /\ UNCHANGED moving
  /\ \/ moving = "live" /\ LiveNext /\ UNCHANGED <<incubationVars, healthVars, rolloutVars>>
     \/ moving = "incubation" /\ IncubationNext /\ UNCHANGED <<liveVars, healthVars, rolloutVars>>
     \/ moving = "health" /\ HealthNext /\ UNCHANGED <<liveVars, incubationVars, rolloutVars>>
     \/ moving = "rollout" /\ RolloutNext /\ UNCHANGED <<liveVars, incubationVars, healthVars>>

tradingDayVars == <<moving, liveVars, incubationVars, healthVars, rolloutVars>>

TradingDaySpec == TradingDayInit /\ [][TradingDayNext]_tradingDayVars

(* The live book, its rows and its plan, and the three kinds of evidence with *)
(* their D1 journals stay well-formed.                                        *)
TradingDayTypeOK == LiveTypeOK /\ IncubationTypeOK /\ HealthTypeOK /\ RolloutTypeOK
=============================================================================

------------------------ MODULE MCStrategyLifecycle -------------------------
(* TLC instances of StrategyLifecycle: one founder, and one child, bred as a *)
(* challenger or as a rework.                                                *)
EXTENDS StrategyLifecycle, TLC

CONSTANTS a, b
=============================================================================

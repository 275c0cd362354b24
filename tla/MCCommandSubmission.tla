------------------------ MODULE MCCommandSubmission -------------------------
(* TLC instances of CommandSubmission: two scheduled commands, one of which *)
(* may submit one more stage when it succeeds, and an operator command.    *)
EXTENDS CommandSubmission, TLC

CONSTANTS cohort, target, review, pause

MCFollowup == [c \in Command |-> IF c = cohort THEN review ELSE NoCommand]
NoFollowup == [c \in Command |-> NoCommand]
=============================================================================

----------------------------- MODULE MCQueuedWork -----------------------------
(* The work the object sends itself through the queue: the partitions of a    *)
(* historical backfill and the screens of a research cohort.  Neither reads   *)
(* what the other writes, so one of them moves in a behaviour and the other   *)
(* rests.  Of the backfills one moves among faults, or all of them while the  *)
(* source returns one content and nothing fails.                              *)
EXTENDS Backfill, ResearchCohort, TLC

VARIABLE moving  \* what moves

QueuedWorkInit ==
  BackfillInit /\ ResearchInit /\ moving \in {"backfill", "backfills", "research"}

Alone == \A j \in Jobs : jobRows'[j].status # "none" => j[1] = CHOOSE f \in Backfills : TRUE
Calm == backfillFaults' = 0 /\ \A p \in partitions' : p.version = CHOOSE v \in Versions : TRUE

QueuedWorkNext ==
  /\ UNCHANGED moving
  /\ \/ moving = "backfill" /\ BackfillNext /\ Alone /\ UNCHANGED researchVars
     \/ moving = "backfills" /\ BackfillNext /\ Calm /\ UNCHANGED researchVars
     \/ moving = "research" /\ ResearchNext /\ UNCHANGED backfillVars

queuedWorkVars == <<moving, backfillVars, researchVars>>

(* A request of the object comes to its end, and the queue delivers what was  *)
(* not acknowledged.                                                          *)
QueuedWorkFairness ==
  /\ \A h \in Handlers :
       WF_queuedWorkVars(moving # "research" /\ Proceed(h) /\ UNCHANGED <<moving, researchVars>>)
  /\ \A h \in Requests :
       WF_queuedWorkVars(moving = "research" /\ Progress(h) /\ UNCHANGED <<moving, backfillVars>>)

QueuedWorkSpec == QueuedWorkInit /\ [][QueuedWorkNext]_queuedWorkVars /\ QueuedWorkFairness

(* The backfill's rows and datasets, and the cohorts with their budget and    *)
(* receipts stay well-formed.                                                 *)
QueuedWorkTypeOK == BackfillTypeOK /\ ResearchTypeOK
=============================================================================

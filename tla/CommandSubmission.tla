------------------------- MODULE CommandSubmission --------------------------
(***************************************************************************)
(* How orchestration commands enter the system in autonomous mode          *)
(* (worker/index.js and worker/orchestration-store.js).  The orchestration *)
(* state lives twice: in the Durable Object's storage and as a versioned   *)
(* snapshot in D1, which a compare-and-swap moves.  Every request loads     *)
(* its own copy, works on it, and saves the copy whole.  A Durable Object  *)
(* holds back other requests only while it awaits its own storage, so      *)
(* requests interleave at every await of D1, of the queue and of actions.  *)
(*                                                                         *)
(* JobStore models what happens to a committed command until the Durable   *)
(* Object is called for it; here its job is pending until an answer is ok. *)
(* The result and idempotency windows (512, 2048) are not reached.         *)
(***************************************************************************)
EXTENDS Naturals, FiniteSets

CONSTANTS
  Scheduled,  \* commands planOrchestrationWork derives from the calendar
  Stage,      \* commands submitted as follow-ups of another command
  Direct,     \* operator commands executed without the queue (forceDirect)
  Followup,   \* the next pipeline stage of a command, or NoCommand
  NoCommand,
  Ticker,     \* concurrent invocations of alarm() and of the cron tick
  Deliverer,  \* concurrent calls of /internal/orchestration/command
  Operator,   \* concurrent operator requests
  MaxFaults   \* bound: restarts of the object, failed actions, failed sends

Command == Scheduled \union Stage \union Direct
Request == Ticker \union Deliverer \union Operator

ASSUME FollowupAssumption == Followup \in [Command -> Stage \union {NoCommand}]
ASSUME NoCommandAssumption == NoCommand \notin Command
ASSUME KindsAssumption ==
  /\ Scheduled \intersect Direct = {}
  /\ Stage \intersect (Scheduled \union Direct) = {}
ASSUME RequestAssumption ==
  /\ Ticker \intersect Deliverer = {}
  /\ Operator \intersect (Ticker \union Deliverer) = {}
ASSUME FaultAssumption == MaxFaults \in Nat

VARIABLES
  disk,       \* state.orchestration in the Durable Object's storage
  row,        \* the snapshot in orchestration_strategy_lifecycle
  committed,  \* rows of orchestration_commands, each with its outbox row
  jobs,       \* what became of a committed command's job
  ran,        \* commands whose actions have completed
  acked,      \* operator commands answered with a terminal outcome
  req,        \* the local variables of each request
  faults

vars == <<disk, row, committed, jobs, ran, acked, req, faults>>

\* version, command_results (a command's effect on the controls is there
\* exactly when its result is) and executed_command_ids.
Orchestration == [version: Nat, results: SUBSET Command, executed: SUBSET Command]

Steps == {"idle", "loadRow", "ready", "act", "follow", "select", "batch",
          "adopt", "dispatch", "save"}

Local == [at: Steps, job: Command \union {NoCommand},
          cmd: Command \union {NoCommand}, mem: Orchestration]

TypeOK ==
  /\ disk \in Orchestration
  /\ row \in Orchestration
  /\ committed \subseteq Command
  /\ jobs \in [Command -> {"none", "pending", "done"}]
  /\ ran \subseteq Command
  /\ acked \subseteq Direct
  /\ req \in [Request -> Local]
  /\ \A q \in Request :
       req[q].at \in {"act", "follow", "select", "batch", "adopt"} =>
         req[q].cmd \in Command
  /\ faults \in 0..MaxFaults

Empty == [version |-> 0, results |-> {}, executed |-> {}]

NoRequest == [at |-> "idle", job |-> NoCommand, cmd |-> NoCommand, mem |-> Empty]

\* A row of version 0 stands for no row.
Init ==
  /\ disk = Empty
  /\ row = Empty
  /\ committed = {}
  /\ jobs = [c \in Command |-> "none"]
  /\ ran = {}
  /\ acked = {}
  /\ req = [q \in Request |-> NoRequest]
  /\ faults = 0

\* applyOrchestrationCommand, for a command the controls admit.
Applied(s, c) ==
  IF c \in s.results THEN s
  ELSE [s EXCEPT !.version = @ + 1, !.results = @ \union {c}]

Goto(q, step) == req' = [req EXCEPT ![q].at = step]
Finish(q) == req' = [req EXCEPT ![q] = NoRequest]

-----------------------------------------------------------------------------
(* load(): the stored state, replaced by D1's snapshot when that is newer. *)

Begin(q, c) ==
  /\ req[q].at = "idle"
  /\ req' = [req EXCEPT ![q] =
               [at |-> "loadRow", job |-> c, cmd |-> c, mem |-> disk]]
  /\ UNCHANGED <<disk, row, committed, jobs, ran, acked, faults>>

Tick(q)       == q \in Ticker /\ Begin(q, NoCommand)
Deliver(q, c) == q \in Deliverer /\ jobs[c] = "pending" /\ Begin(q, c)
Operate(q, c) == q \in Operator /\ c \in Direct \ acked /\ Begin(q, c)

\* Mutant: the stored state is used whatever D1 holds.
LoadRowIgnored(q) ==
  /\ req[q].at = "loadRow"
  /\ Goto(q, "ready")
  /\ UNCHANGED <<disk, row, committed, jobs, ran, acked, faults>>

LoadRow(q) ==
  /\ req[q].at = "loadRow"
  /\ IF row.version > req[q].mem.version
     THEN /\ disk' = row
          /\ req' = [req EXCEPT ![q].at = "ready", ![q].mem = row]
     ELSE /\ Goto(q, "ready")
          /\ UNCHANGED disk
  /\ UNCHANGED <<row, committed, jobs, ran, acked, faults>>

-----------------------------------------------------------------------------
(* submitOrchestrationCommand on the durable path. *)

\* planOrchestrationWork leaves out intents that are already completed.
Plan(q, c) ==
  /\ q \in Ticker
  /\ req[q].at = "ready"
  /\ c \in Scheduled \ req[q].mem.results
  /\ req' = [req EXCEPT ![q].at = "select", ![q].cmd = c]
  /\ UNCHANGED <<disk, row, committed, jobs, ran, acked, faults>>

NothingPlanned(q) ==
  /\ q \in Ticker
  /\ req[q].at = "ready"
  /\ Scheduled \subseteq req[q].mem.results
  /\ Goto(q, "save")
  /\ UNCHANGED <<disk, row, committed, jobs, ran, acked, faults>>

\* persistLifecycle first looks for the idempotency key.
Select(q) ==
  /\ req[q].at = "select"
  /\ Goto(q, IF req[q].cmd \in committed THEN "adopt" ELSE "batch")
  /\ UNCHANGED <<disk, row, committed, jobs, ran, acked, faults>>

\* Mutant: the snapshot is written without comparing versions.
SwapAlways(q) == TRUE

\* INSERT ... ON CONFLICT DO UPDATE WHERE version = expectedVersion.
SwapSucceeds(q) == row.version = 0 \/ row.version = req[q].mem.version

BatchCommits(q) ==
  LET c == req[q].cmd IN
  /\ req[q].at = "batch"
  /\ c \notin committed
  /\ SwapSucceeds(q)
  /\ row' = Applied(req[q].mem, c)
  /\ committed' = committed \union {c}
  /\ jobs' = [jobs EXCEPT ![c] = "pending"]
  /\ Goto(q, "adopt")
  /\ UNCHANGED <<disk, ran, acked, faults>>

\* The same command was committed meanwhile: found by the second SELECT.
BatchDuplicate(q) ==
  /\ req[q].at = "batch"
  /\ req[q].cmd \in committed
  /\ Goto(q, "adopt")
  /\ UNCHANGED <<disk, row, committed, jobs, ran, acked, faults>>

\* "lifecycle compare-and-swap failed", or the UNIQUE constraint: the
\* request answers with an error and saves nothing.
BatchFails(q) ==
  /\ req[q].at = "batch"
  /\ req[q].cmd \in committed \/ ~SwapSucceeds(q)
  /\ Finish(q)
  /\ UNCHANGED <<disk, row, committed, jobs, ran, acked, faults>>

\* state.orchestration = applied.state, saved before the outbox dispatch.
Adopt(q) ==
  LET s == Applied(req[q].mem, req[q].cmd) IN
  /\ req[q].at = "adopt"
  /\ disk' = s
  /\ req' = [req EXCEPT ![q].at = "dispatch", ![q].mem = s]
  /\ UNCHANGED <<row, committed, jobs, ran, acked, faults>>

\* A tick goes on with its next intent, a delivered command is done.
Dispatched(q) ==
  /\ req[q].at = "dispatch"
  /\ Goto(q, IF q \in Ticker THEN "ready" ELSE "save")
  /\ UNCHANGED <<disk, row, committed, jobs, ran, acked, faults>>

DispatchFails(q) ==
  /\ faults < MaxFaults
  /\ req[q].at = "dispatch"
  /\ Finish(q)
  /\ faults' = faults + 1
  /\ UNCHANGED <<disk, row, committed, jobs, ran, acked>>

-----------------------------------------------------------------------------
(* The direct path: apply, execute the actions, submit the follow-up. *)

Execute(q) ==
  /\ q \notin Ticker
  /\ req[q].at = "ready"
  /\ req' = [req EXCEPT ![q].at = "act", ![q].mem = Applied(@, req[q].cmd)]
  /\ UNCHANGED <<disk, row, committed, jobs, ran, acked, faults>>

\* Mutant: a command that has a result is taken for an executed one.
AlreadyAnswered(q) ==
  /\ req[q].at = "act"
  /\ req[q].cmd \in req[q].mem.results
  /\ Goto(q, "save")
  /\ UNCHANGED <<disk, row, committed, jobs, ran, acked, faults>>

AlreadyExecuted(q) ==
  /\ req[q].at = "act"
  /\ req[q].cmd \in req[q].mem.executed
  /\ Goto(q, "save")
  /\ UNCHANGED <<disk, row, committed, jobs, ran, acked, faults>>

\* Mutant: a follow-up is submitted even when there is none.
ActionsDoneAlwaysFollows(q) ==
  LET c == req[q].cmd
      s == [req[q].mem EXCEPT !.executed = @ \union {c}] IN
  /\ req[q].at = "act"
  /\ c \notin req[q].mem.executed
  /\ ran' = ran \union {c}
  /\ req' = [req EXCEPT ![q].at = "follow", ![q].mem = s, ![q].cmd = Followup[c]]
  /\ disk' = s
  /\ UNCHANGED <<row, committed, jobs, acked, faults>>

\* With a follow-up the state is saved before the follow-up is submitted.
ActionsDone(q) ==
  LET c == req[q].cmd
      s == [req[q].mem EXCEPT !.executed = @ \union {c}] IN
  /\ req[q].at = "act"
  /\ c \notin req[q].mem.executed
  /\ ran' = ran \union {c}
  /\ IF Followup[c] = NoCommand
     THEN /\ req' = [req EXCEPT ![q].at = "save", ![q].mem = s]
          /\ UNCHANGED disk
     ELSE /\ req' = [req EXCEPT ![q].at = "follow", ![q].mem = s,
                                ![q].cmd = Followup[c]]
          /\ disk' = s
  /\ UNCHANGED <<row, committed, jobs, acked, faults>>

\* Mutant: the command is checkpointed as executed although it failed.
ActionFailsExecuted(q) ==
  /\ faults < MaxFaults
  /\ req[q].at = "act"
  /\ req[q].cmd \notin req[q].mem.executed
  /\ disk' = [req[q].mem EXCEPT !.executed = @ \union {req[q].cmd}]
  /\ Finish(q)
  /\ faults' = faults + 1
  /\ UNCHANGED <<row, committed, jobs, ran, acked>>

\* The catch block saves the state with an incident and rethrows.
ActionFails(q) ==
  /\ faults < MaxFaults
  /\ req[q].at = "act"
  /\ req[q].cmd \notin req[q].mem.executed
  /\ disk' = req[q].mem
  /\ Finish(q)
  /\ faults' = faults + 1
  /\ UNCHANGED <<row, committed, jobs, ran, acked>>

\* The follow-up is submitted on the durable path; one that this copy of the
\* state already has a result for is executed on the spot.
Follow(q) ==
  /\ req[q].at = "follow"
  /\ Goto(q, IF req[q].cmd \in req[q].mem.results THEN "act" ELSE "select")
  /\ UNCHANGED <<disk, row, committed, jobs, ran, acked, faults>>

\* The request saves its copy whole and answers.
Answer(q) ==
  /\ req[q].at = "save"
  /\ disk' = req[q].mem
  /\ jobs' = IF q \in Deliverer
             THEN [jobs EXCEPT ![req[q].job] = "done"] ELSE jobs
  /\ acked' = IF q \in Operator THEN acked \union {req[q].job} ELSE acked
  /\ Finish(q)
  /\ UNCHANGED <<row, committed, ran, faults>>

\* The object is evicted or restarted: every request in it is gone.
Restart ==
  /\ faults < MaxFaults
  /\ \E q \in Request : req[q].at # "idle"
  /\ req' = [q \in Request |-> NoRequest]
  /\ faults' = faults + 1
  /\ UNCHANGED <<disk, row, committed, jobs, ran, acked>>
-----------------------------------------------------------------------------

Submit(q) ==
  \/ Select(q) \/ BatchCommits(q) \/ BatchDuplicate(q) \/ BatchFails(q)
  \/ Adopt(q) \/ Dispatched(q)

Proceed(q) ==
  \/ LoadRow(q)
  \/ \E c \in Scheduled : Plan(q, c)
  \/ NothingPlanned(q)
  \/ Submit(q)
  \/ Execute(q) \/ AlreadyExecuted(q) \/ ActionsDone(q) \/ Follow(q)
  \/ Answer(q)

Arrive(q) == Tick(q) \/ \E c \in Command : Deliver(q, c)

Fault == Restart \/ \E q \in Request : DispatchFails(q) \/ ActionFails(q)

Next ==
  \/ \E q \in Request : Arrive(q) \/ Proceed(q)
  \/ \E q \in Operator, c \in Direct : Operate(q, c)
  \/ Fault

Spec == Init /\ [][Next]_vars

(* The cron fires every minute and the job store delivers a pending job    *)
(* again; what an operator does is up to the operator.                     *)
FairSpec ==
  /\ Spec
  /\ \A q \in Ticker : WF_vars(Tick(q))
  /\ \A q \in Deliverer, c \in Command : SF_vars(Deliver(q, c))
  /\ \A q \in Request : WF_vars(Proceed(q))
-----------------------------------------------------------------------------
(* Properties *)

(* Where only durable commands have moved the state, the compare-and-swap  *)
(* keeps D1 honest whatever stale copies are submitted: the snapshot holds *)
(* the result of every command ever committed, and of no other.            *)
CommittedApplied ==
  row.results \intersect Direct = {} => row.results = committed

(* A job is only answered ok once the command's actions have completed.    *)
DoneMeansRan == \A c \in Command : jobs[c] = "done" => c \in ran

(* Every intent the schedule produces is eventually committed.             *)
(* README.md: "ORCHESTRATION_MODE=autonomous executes durable scheduled    *)
(* stages."                                                                *)
ScheduledWorkCommits == \A c \in Scheduled : <>(c \in committed)

(* Every committed command's actions eventually run, in spite of restarts, *)
(* failed actions and stale copies that overwrite executed_command_ids.    *)
CommittedRuns == \A c \in Command : c \in committed ~> c \in ran

(* An operator's control, once answered as applied, stays in the state.    *)
(* worker/index.js: "New research, releases and increased exposure paused" *)
AckedControlHolds == acked \subseteq disk.results
=============================================================================

------------------------------ MODULE JobStore ------------------------------
(***************************************************************************)
(* The durable path of an orchestration command (worker/jobs.js and        *)
(* worker/orchestration-store.js): a command committed in D1 leaves an     *)
(* outbox row; a dispatcher moves the row to the queue; a queue consumer   *)
(* opens one job per command, leases it, calls the Durable Object, stores  *)
(* the answer in R2 and completes the job; the repair pass takes back the  *)
(* leases that ran out.  D1, R2 and the queue survive every crash; the     *)
(* local variables of dispatchers, consumers and repairers do not.         *)
(*                                                                         *)
(* Time is abstracted to what the SQL compares: a lease, an outbox claim   *)
(* and a retry delay may run out at any moment after they are taken.  A    *)
(* claim token is the row's attempt count at the claim, which is fresh for *)
(* every claim as the code's hash of (worker, row, now) is.                *)
(***************************************************************************)
EXTENDS Naturals, FiniteSets

CONSTANTS
  Command,      \* command ids committed by persistLifecycle
  Consumer,     \* concurrent invocations of consumeArchitectureQueue
  Dispatcher,   \* concurrent invocations of dispatchOutbox
  Repairer,     \* concurrent invocations of repairExpiredLeases
  Result,       \* contents the Durable Object may answer with
  NoResult,     \* a SQL NULL in a result column
  NoMessage,    \* a consumer that holds no message
  MaxAttempts,  \* max_attempts of a job row
  MaxRetries,   \* max_retries of the queue consumer
  MaxFaults     \* bound: invocations that die, throw or overrun a claim

ASSUME CommandAssumption    == Command # {}
ASSUME NoResultAssumption   == NoResult \notin Result
ASSUME MaxAttemptsAssumption == MaxAttempts \in Nat \ {0}
ASSUME MaxRetriesAssumption == MaxRetries \in Nat
ASSUME MaxFaultsAssumption == MaxFaults \in Nat
ASSUME NoMessageAssumption  ==
  NoMessage \notin [cmd: Command, send: Nat, tries: Nat]

VARIABLES
  outbox,     \* orchestration_outbox, one row per command
  dispatcher, \* the local variables of each dispatchOutbox
  queue,      \* messages waiting in AXIOM_JOBS
  parked,     \* commands with a message in the queue's dead-letter queue
  jobs,       \* orchestration_jobs, one row per command
  manifests,  \* orchestration_result_manifests, unique per job
  objects,    \* result objects in R2
  incidents,  \* commands with a job_dead_lettered incident
  pc,         \* where each consumer is in processOrchestrationCommand
  hand,       \* the message each consumer is processing
  lease,      \* the claim token each consumer was given
  answer,     \* the Durable Object's answer to each consumer
  repair,     \* the row each repairer read in its SELECT
  faults

outboxVars   == <<outbox, dispatcher>>
consumerVars == <<pc, hand, lease, answer>>
resultVars   == <<manifests, objects>>
vars == <<outbox, dispatcher, queue, parked, jobs, manifests, objects,
          incidents, pc, hand, lease, answer, repair, faults>>

Message == [cmd: Command, send: Nat, tries: Nat]

OutboxRow == [state: {"absent", "unsent", "claimed", "sent"},
              attempts: Nat, expired: BOOLEAN]

\* token 0 is a NULL claim_token; result NoResult a NULL result_manifest_id.
JobRow == [status: {"absent", "queued", "running", "retrying",
                    "completed", "dead_lettered"},
           attempts: Nat, token: Nat, expired: BOOLEAN, available: BOOLEAN,
           result: Result \union {NoResult}]

DispatchState == [at: {"idle", "claimed", "delivered"},
                  cmd: Command, token: Nat]

RepairState == [at: {"idle", "read"}, cmd: Command, token: Nat]

Steps == {"idle", "enqueue", "check", "claim", "execute", "store", "commit",
          "confirm", "failRead", "defer", "bury"}

OutboxTypes ==
  /\ outbox \in [Command -> OutboxRow]
  /\ dispatcher \in [Dispatcher -> DispatchState]

JobTypes ==
  /\ jobs \in [Command -> JobRow]
  /\ manifests \in [Command -> Result \union {NoResult}]
  /\ objects \subseteq Command \X Result
  /\ incidents \subseteq Command

\* A consumer holds a message exactly while it is processing one.
ConsumerTypes ==
  /\ queue \subseteq Message
  /\ parked \subseteq Command
  /\ pc \in [Consumer -> Steps]
  /\ hand \in [Consumer -> Message \union {NoMessage}]
  /\ \A w \in Consumer : pc[w] = "idle" <=> hand[w] = NoMessage
  /\ lease \in [Consumer -> Nat]
  /\ answer \in [Consumer -> Result \union {NoResult}]
  /\ \A w \in Consumer : pc[w] \in {"store", "commit"} => answer[w] \in Result

RepairTypes == repair \in [Repairer -> RepairState]

TypeOK ==
  /\ OutboxTypes
  /\ JobTypes
  /\ ConsumerTypes
  /\ RepairTypes
  /\ faults \in 0..MaxFaults

NoDispatch == [at |-> "idle", cmd |-> CHOOSE c \in Command : TRUE, token |-> 0]
NoRepair   == [at |-> "idle", cmd |-> CHOOSE c \in Command : TRUE, token |-> 0]

Init ==
  /\ outbox = [c \in Command |->
                 [state |-> "absent", attempts |-> 0, expired |-> FALSE]]
  /\ dispatcher = [d \in Dispatcher |-> NoDispatch]
  /\ queue = {}
  /\ parked = {}
  /\ jobs = [c \in Command |->
               [status |-> "absent", attempts |-> 0, token |-> 0,
                expired |-> FALSE, available |-> FALSE, result |-> NoResult]]
  /\ manifests = [c \in Command |-> NoResult]
  /\ objects = {}
  /\ incidents = {}
  /\ pc = [w \in Consumer |-> "idle"]
  /\ hand = [w \in Consumer |-> NoMessage]
  /\ lease = [w \in Consumer |-> 0]
  /\ answer = [w \in Consumer |-> NoResult]
  /\ repair = [p \in Repairer |-> NoRepair]
  /\ faults = 0

-----------------------------------------------------------------------------
(* persistLifecycle's batch, as far as the outbox is concerned. *)

Commit(c) ==
  /\ outbox[c].state = "absent"
  /\ outbox' = [outbox EXCEPT ![c].state = "unsent"]
  /\ UNCHANGED <<dispatcher, queue, parked, jobs, resultVars, incidents,
                 consumerVars, repair, faults>>

-----------------------------------------------------------------------------
(* dispatchOutbox, one row at a time: the guard of the claiming UPDATE      *)
(* repeats the conditions of the SELECT, so the list read first only orders *)
(* the rows.                                                                *)

\* Mutant: an expired claim is never taken over.
ClaimableUnsentOnly(c) == outbox[c].state = "unsent"

Claimable(c) ==
  \/ outbox[c].state = "unsent"
  \/ outbox[c].state = "claimed" /\ outbox[c].expired

DispatchClaim(d, c) ==
  LET token == outbox[c].attempts + 1 IN
  /\ dispatcher[d].at = "idle"
  /\ Claimable(c)
  /\ outbox' = [outbox EXCEPT ![c] =
                  [state |-> "claimed", attempts |-> token, expired |-> FALSE]]
  /\ dispatcher' = [dispatcher EXCEPT ![d] =
                      [at |-> "claimed", cmd |-> c, token |-> token]]
  /\ UNCHANGED <<queue, parked, jobs, resultVars, incidents, consumerVars,
                 repair, faults>>

DispatchSend(d) ==
  /\ dispatcher[d].at = "claimed"
  /\ queue' = queue \union {[cmd |-> dispatcher[d].cmd,
                             send |-> dispatcher[d].token, tries |-> 0]}
  /\ dispatcher' = [dispatcher EXCEPT ![d].at = "delivered"]
  /\ UNCHANGED <<outbox, parked, jobs, resultVars, incidents, consumerVars,
                 repair, faults>>

HoldsClaim(d) ==
  /\ outbox[dispatcher[d].cmd].state = "claimed"
  /\ outbox[dispatcher[d].cmd].attempts = dispatcher[d].token

\* The row becomes s if this dispatcher's claim token is still on it.
CloseClaim(d, s) ==
  /\ outbox' = IF HoldsClaim(d)
               THEN [outbox EXCEPT ![dispatcher[d].cmd].state = s,
                                   ![dispatcher[d].cmd].expired = FALSE]
               ELSE outbox
  /\ dispatcher' = [dispatcher EXCEPT ![d] = NoDispatch]
  /\ UNCHANGED <<queue, parked, jobs, resultVars, incidents, consumerVars,
                 repair>>

DispatchMark(d) ==
  /\ dispatcher[d].at = "delivered"
  /\ CloseClaim(d, "sent")
  /\ UNCHANGED faults

\* The catch block: the send, or the UPDATE that marks it, threw.
DispatchRelease(d) ==
  /\ faults < MaxFaults
  /\ dispatcher[d].at \in {"claimed", "delivered"}
  /\ CloseClaim(d, "unsent")
  /\ faults' = faults + 1

DispatchCrash(d) ==
  /\ faults < MaxFaults
  /\ dispatcher[d].at \in {"claimed", "delivered"}
  /\ dispatcher' = [dispatcher EXCEPT ![d] = NoDispatch]
  /\ faults' = faults + 1
  /\ UNCHANGED <<outbox, queue, parked, jobs, resultVars, incidents,
                 consumerVars, repair>>

Expire(c) ==
  /\ outbox[c].state = "claimed"
  /\ ~outbox[c].expired
  /\ outbox' = [outbox EXCEPT ![c].expired = TRUE]
  /\ UNCHANGED <<dispatcher, queue, parked, jobs, resultVars, incidents,
                 consumerVars, repair>>

ClaimantAlive(c) ==
  \E d \in Dispatcher : /\ dispatcher[d].at # "idle"
                        /\ dispatcher[d].cmd = c
                        /\ dispatcher[d].token = outbox[c].attempts

\* claim_expires_at passes: the claimant is gone.
ClaimExpires(c) == ~ClaimantAlive(c) /\ Expire(c) /\ UNCHANGED faults

\* It passes under a dispatcher that is merely slow.
ClaimOverrun(c) ==
  /\ faults < MaxFaults
  /\ ClaimantAlive(c)
  /\ Expire(c)
  /\ faults' = faults + 1

-----------------------------------------------------------------------------
(* The queue.  message.ack() forgets the message; message.retry() returns  *)
(* it, or parks it in the dead-letter queue when its retries are used up.  *)

\* Mutant: the invocation ends and keeps its message.
IdleKeepsMessage(w) ==
  /\ pc' = [pc EXCEPT ![w] = "idle"]
  /\ lease' = [lease EXCEPT ![w] = 0]
  /\ answer' = [answer EXCEPT ![w] = NoResult]
  /\ UNCHANGED hand

Idle(w) ==
  /\ pc' = [pc EXCEPT ![w] = "idle"]
  /\ hand' = [hand EXCEPT ![w] = NoMessage]
  /\ lease' = [lease EXCEPT ![w] = 0]
  /\ answer' = [answer EXCEPT ![w] = NoResult]

Ack(w) == Idle(w) /\ UNCHANGED <<queue, parked>>

\* Mutant: a failed message is acknowledged.
RetryForgets(w) == Ack(w)

Retry(w) ==
  /\ Idle(w)
  /\ \/ /\ hand[w].tries < MaxRetries
        /\ queue' = queue \union {[hand[w] EXCEPT !.tries = @ + 1]}
        /\ UNCHANGED parked
     \/ /\ hand[w].tries >= MaxRetries
        /\ parked' = parked \union {hand[w].cmd}
        /\ UNCHANGED queue

Goto(w, step) ==
  /\ pc' = [pc EXCEPT ![w] = step]
  /\ UNCHANGED <<queue, parked, hand, lease, answer>>

-----------------------------------------------------------------------------
(* processOrchestrationCommand. *)

Terminal(c) == jobs[c].status \in {"completed", "dead_lettered"}

Receive(w, m) ==
  /\ pc[w] = "idle"
  /\ m \in queue
  /\ queue' = queue \ {m}
  /\ hand' = [hand EXCEPT ![w] = m]
  /\ pc' = [pc EXCEPT ![w] = "enqueue"]
  /\ UNCHANGED <<outboxVars, parked, jobs, resultVars, incidents, lease,
                 answer, repair, faults>>

\* enqueueJob: INSERT ... ON CONFLICT(command_id) DO NOTHING.
Enqueue(w) ==
  LET c == hand[w].cmd IN
  /\ pc[w] = "enqueue"
  /\ jobs' = IF jobs[c].status = "absent"
             THEN [jobs EXCEPT ![c].status = "queued", ![c].available = TRUE]
             ELSE jobs
  /\ Goto(w, "check")
  /\ UNCHANGED <<outboxVars, resultVars, incidents, repair, faults>>

\* getJob: a settled job acknowledges the message without running again.
Check(w) ==
  /\ pc[w] = "check"
  /\ IF Terminal(hand[w].cmd) THEN Ack(w) ELSE Goto(w, "claim")
  /\ UNCHANGED <<outboxVars, jobs, resultVars, incidents, repair, faults>>

Runnable(c) == jobs[c].status \in {"queued", "retrying"} /\ jobs[c].available

\* Mutant: the claim token does not depend on the claim.
LeasedSameToken(job) ==
  [job EXCEPT !.status = "running", !.attempts = job.attempts + 1,
              !.token = 1, !.expired = FALSE, !.available = FALSE]

\* claimJob: the UPDATE repeats the SELECT's conditions.
Leased(job) ==
  [job EXCEPT !.status = "running", !.attempts = job.attempts + 1,
              !.token = job.attempts + 1, !.expired = FALSE,
              !.available = FALSE]

Claim(w) ==
  LET c == hand[w].cmd IN
  /\ pc[w] = "claim"
  /\ Runnable(c)
  /\ jobs' = [jobs EXCEPT ![c] = Leased(@)]
  /\ lease' = [lease EXCEPT ![w] = Leased(jobs[c]).token]
  /\ pc' = [pc EXCEPT ![w] = "execute"]
  /\ UNCHANGED <<outboxVars, queue, parked, resultVars, incidents, hand,
                 answer, repair, faults>>

ClaimRefused(w) ==
  /\ pc[w] = "claim"
  /\ ~Runnable(hand[w].cmd)
  /\ Retry(w)
  /\ UNCHANGED <<outboxVars, jobs, resultVars, incidents, repair, faults>>

\* The Durable Object answered 2xx; its body carries the whole orchestration
\* state, so two answers to one command may differ.
ExecuteOk(w, r) ==
  /\ pc[w] = "execute"
  /\ answer' = [answer EXCEPT ![w] = r]
  /\ pc' = [pc EXCEPT ![w] = "store"]
  /\ UNCHANGED <<outboxVars, queue, parked, jobs, resultVars, incidents, hand,
                 lease, repair, faults>>

\* Anything the try block throws goes to failJob.
Throw(w) ==
  /\ pc[w] \in {"execute", "store", "commit"}
  /\ Goto(w, "failRead")
  /\ UNCHANGED <<outboxVars, jobs, resultVars, incidents, repair, faults>>

\* Mutant: the manifest is written without its object.
StoreSkipped(w) ==
  /\ pc[w] = "store"
  /\ Goto(w, "commit")
  /\ UNCHANGED <<outboxVars, jobs, resultVars, incidents, repair, faults>>

\* verifyResultManifest puts the content under its hash.
StoreObject(w) ==
  /\ pc[w] = "store"
  /\ objects' = objects \union {<<hand[w].cmd, answer[w]>>}
  /\ Goto(w, "commit")
  /\ UNCHANGED <<outboxVars, jobs, manifests, incidents, repair, faults>>

HoldsLease(w) ==
  /\ jobs[hand[w].cmd].status = "running"
  /\ jobs[hand[w].cmd].token = lease[w]

\* completeJob's batch: INSERT the manifest unless the job has one, then
\* complete the job if the lease is still held.
Completed(job, r) ==
  [job EXCEPT !.status = "completed", !.token = 0, !.expired = FALSE,
              !.result = r]

CompleteBatch(w) ==
  LET c == hand[w].cmd IN
  /\ manifests' = [manifests EXCEPT ![c] = IF @ = NoResult THEN answer[w] ELSE @]
  /\ jobs' = IF HoldsLease(w)
             THEN [jobs EXCEPT ![c] = Completed(@, answer[w])] ELSE jobs

Complete(w) ==
  /\ pc[w] = "commit"
  /\ CompleteBatch(w)
  /\ IF HoldsLease(w) THEN Ack(w) ELSE Goto(w, "confirm")
  /\ UNCHANGED <<outboxVars, objects, incidents, repair, faults>>

\* The batch is applied and its answer is lost: the caller sees an error.
CompleteUnseen(w) ==
  /\ faults < MaxFaults
  /\ pc[w] = "commit"
  /\ CompleteBatch(w)
  /\ Goto(w, "failRead")
  /\ faults' = faults + 1
  /\ UNCHANGED <<outboxVars, objects, incidents, repair>>

\* Lease lost: harmless if the job is complete, otherwise an error.
Confirm(w) ==
  LET job == jobs[hand[w].cmd] IN
  /\ pc[w] = "confirm"
  /\ IF job.status = "completed" /\ job.result # NoResult
     THEN Ack(w) ELSE Goto(w, "failRead")
  /\ UNCHANGED <<outboxVars, jobs, resultVars, incidents, repair, faults>>

\* Mutant: the comparison with max_attempts is off by one.
ExhaustedEarly(c) == jobs[c].attempts + 1 >= MaxAttempts

Exhausted(c) == jobs[c].attempts >= MaxAttempts

\* failJob reads the row, refuses a lost lease, and chooses what to write.
FailRead(w) ==
  LET c == hand[w].cmd IN
  /\ pc[w] = "failRead"
  /\ IF ~HoldsLease(w) THEN Retry(w)
     ELSE Goto(w, IF Exhausted(c) THEN "bury" ELSE "defer")
  /\ UNCHANGED <<outboxVars, jobs, resultVars, incidents, repair, faults>>

Deferred(job) == [job EXCEPT !.status = "retrying", !.token = 0,
                             !.expired = FALSE, !.available = FALSE]

\* The UPDATE is guarded by the claim token alone; its row count is not read.
Defer(w) ==
  LET c == hand[w].cmd IN
  /\ pc[w] = "defer"
  /\ jobs' = IF jobs[c].token = lease[w]
             THEN [jobs EXCEPT ![c] = Deferred(@)] ELSE jobs
  /\ Retry(w)
  /\ UNCHANGED <<outboxVars, resultVars, incidents, repair, faults>>

\* deadLetter's batch is guarded by nothing but the job id.
Buried(job) ==
  [job EXCEPT !.status = "dead_lettered", !.token = 0, !.expired = FALSE]

DeadLetter(c) ==
  /\ jobs' = [jobs EXCEPT ![c] = Buried(@)]
  /\ incidents' = incidents \union {c}

Bury(w) ==
  /\ pc[w] = "bury"
  /\ DeadLetter(hand[w].cmd)
  /\ Ack(w)
  /\ UNCHANGED <<outboxVars, resultVars, repair, faults>>

\* The invocation dies, or D1 fails outside the try block: the queue
\* redelivers the message it was not told to forget.
ConsumerCrash(w) ==
  /\ faults < MaxFaults
  /\ pc[w] # "idle"
  /\ Retry(w)
  /\ faults' = faults + 1
  /\ UNCHANGED <<outboxVars, jobs, resultVars, incidents, repair>>

LeaseExpires(c) ==
  /\ jobs[c].status = "running"
  /\ ~jobs[c].expired
  /\ jobs' = [jobs EXCEPT ![c].expired = TRUE]
  /\ UNCHANGED <<outboxVars, queue, parked, resultVars, incidents,
                 consumerVars, repair, faults>>

RetryDelayEnds(c) ==
  /\ jobs[c].status = "retrying"
  /\ ~jobs[c].available
  /\ jobs' = [jobs EXCEPT ![c].available = TRUE]
  /\ UNCHANGED <<outboxVars, queue, parked, resultVars, incidents,
                 consumerVars, repair, faults>>

-----------------------------------------------------------------------------
(* repairExpiredLeases, one row at a time: the row is read, and written    *)
(* after other invocations may have moved it.                              *)

RepairRead(p, c) ==
  /\ repair[p].at = "idle"
  /\ jobs[c].status = "running"
  /\ jobs[c].expired
  /\ repair' = [repair EXCEPT ![p] =
                  [at |-> "read", cmd |-> c, token |-> jobs[c].token]]
  /\ UNCHANGED <<outboxVars, queue, parked, jobs, resultVars, incidents,
                 consumerVars, faults>>

\* Mutant: the row is written back whatever became of it.
SameLeaseUnchecked(p) == TRUE

\* A later claim would carry a lease that ends after the SELECT's now, so
\* the UPDATE's condition holds exactly while the row keeps the lease read.
SameLease(p) ==
  /\ jobs[repair[p].cmd].status = "running"
  /\ jobs[repair[p].cmd].token = repair[p].token

RepairWrite(p) ==
  LET c == repair[p].cmd IN
  /\ repair[p].at = "read"
  /\ IF repair[p].token >= MaxAttempts
     THEN DeadLetter(c)
     ELSE /\ jobs' = IF SameLease(p)
                     THEN [jobs EXCEPT ![c] = Deferred(@)] ELSE jobs
          /\ UNCHANGED incidents
  /\ repair' = [repair EXCEPT ![p] = NoRepair]
  /\ UNCHANGED <<outboxVars, queue, parked, resultVars, consumerVars, faults>>

RepairCrash(p) ==
  /\ faults < MaxFaults
  /\ repair[p].at = "read"
  /\ repair' = [repair EXCEPT ![p] = NoRepair]
  /\ faults' = faults + 1
  /\ UNCHANGED <<outboxVars, queue, parked, jobs, resultVars, incidents,
                 consumerVars>>

-----------------------------------------------------------------------------

Dispatch(d) ==
  \/ \E c \in Command : DispatchClaim(d, c)
  \/ DispatchSend(d)
  \/ DispatchMark(d)

Consume(w) ==
  \/ \E m \in queue : Receive(w, m)
  \/ Enqueue(w)
  \/ Check(w)
  \/ Claim(w)
  \/ ClaimRefused(w)
  \/ \E r \in Result : ExecuteOk(w, r)
  \/ Throw(w)
  \/ StoreObject(w)
  \/ Complete(w)
  \/ Confirm(w)
  \/ FailRead(w)
  \/ Defer(w)
  \/ Bury(w)

Repair(p) ==
  \/ \E c \in Command : RepairRead(p, c)
  \/ RepairWrite(p)

Elapse(c) == ClaimExpires(c) \/ LeaseExpires(c) \/ RetryDelayEnds(c)

Fault ==
  \/ \E d \in Dispatcher : DispatchRelease(d) \/ DispatchCrash(d)
  \/ \E w \in Consumer : CompleteUnseen(w) \/ ConsumerCrash(w)
  \/ \E p \in Repairer : RepairCrash(p)
  \/ \E c \in Command : ClaimOverrun(c)

Next ==
  \/ \E c \in Command : Commit(c) \/ Elapse(c)
  \/ \E d \in Dispatcher : Dispatch(d)
  \/ \E w \in Consumer : Consume(w)
  \/ \E p \in Repairer : Repair(p)
  \/ Fault

Spec == Init /\ [][Next]_vars

(* The alarm re-arms itself every minute and runs both the dispatcher and   *)
(* the repair pass; the queue keeps delivering; clocks advance.             *)
Fairness ==
  /\ \A d \in Dispatcher : WF_vars(Dispatch(d))
  /\ \A w \in Consumer : WF_vars(Consume(w))
  /\ \A p \in Repairer : WF_vars(Repair(p))
  /\ \A c \in Command : WF_vars(Elapse(c))

FairSpec == Spec /\ Fairness
-----------------------------------------------------------------------------
(* Properties *)

InHand(w, c) == pc[w] # "idle" /\ hand[w].cmd = c

(* A committed command is never lost on the way: until its job is settled   *)
(* it is in an outbox row not yet marked sent, in a message of the queue,   *)
(* in the hands of a consumer, or in the queue's dead-letter queue.         *)
CommandCarried ==
  \A c \in Command :
    \/ outbox[c].state # "sent"
    \/ \E m \in queue : m.cmd = c
    \/ \E w \in Consumer : InHand(w, c)
    \/ c \in parked
    \/ Terminal(c)

(* claimJob never looks at max_attempts, yet no job is leased more often    *)
(* than max_attempts allows, and only a job that used every attempt is      *)
(* dead-lettered.                                                           *)
AttemptsBounded ==
  \A c \in Command :
    /\ jobs[c].attempts <= MaxAttempts
    /\ jobs[c].status = "dead_lettered" => jobs[c].attempts = MaxAttempts

(* Two consumers that both believe they hold a job (duplicate deliveries, a *)
(* lease repaired under a slow consumer) never carry the same claim token:  *)
(* at most one of them can complete or defer it.                            *)
Working(w) == pc[w] \in {"execute", "store", "commit", "confirm", "failRead",
                         "defer", "bury"}

LeaseExclusive ==
  \A v, w \in Consumer :
    (/\ v # w
     /\ Working(v)
     /\ Working(w)
     /\ hand[v].cmd = hand[w].cmd) => lease[v] # lease[w]

(* "completed" is only visible once the job has a manifest row and the R2   *)
(* object that row names exists.                                            *)
CompletedHasObject ==
  \A c \in Command :
    jobs[c].status = "completed" =>
      /\ jobs[c].result # NoResult
      /\ manifests[c] # NoResult
      /\ <<c, manifests[c]>> \in objects

(* A settled job never becomes runnable again, whatever stale reads the     *)
(* repair pass and slow consumers act on; though deadLetter, which has no   *)
(* guard, may still turn a completed job into a dead-lettered one.          *)
SettledStaysSettled ==
  [][\A c \in Command : Terminal(c) => Terminal(c)']_vars

(* Every committed command is eventually settled, unless its message ends   *)
(* in the queue's dead-letter queue first.                                  *)
EventuallySettled ==
  \A c \in Command : outbox[c].state # "absent" ~> (Terminal(c) \/ c \in parked)

(* The inductive invariant behind the theorems of JobStoreProofs. *)

\* A job row is running exactly while it carries a token, which is then its
\* attempt count; only a row with attempts left waits for a retry.
JobShape ==
  \A c \in Command :
    LET job == jobs[c] IN
    /\ job.status = "running" <=> job.token # 0
    /\ job.status = "running" => job.token = job.attempts
    /\ job.status \in {"absent", "queued"} <=> job.attempts = 0
    /\ job.status = "retrying" => job.attempts < MaxAttempts

\* The claim tokens remembered outside D1 were all issued by the job row.
WorkerShape ==
  \A w \in Consumer :
    /\ Working(w) => lease[w] \in 1..jobs[hand[w].cmd].attempts
    /\ pc[w] = "defer" => lease[w] < MaxAttempts
    /\ pc[w] = "bury" => jobs[hand[w].cmd].attempts = MaxAttempts

RepairShape ==
  \A p \in Repairer :
    repair[p].at = "read" =>
      repair[p].token \in 1..jobs[repair[p].cmd].attempts

\* Nothing moves for a command that is not committed.
Submitted ==
  \A c \in Command :
    outbox[c].state = "absent" =>
      /\ \A d \in Dispatcher : dispatcher[d].at # "idle" => dispatcher[d].cmd # c
      /\ \A m \in queue : m.cmd # c
      /\ \A w \in Consumer : ~InHand(w, c)
      /\ jobs[c].status = "absent"

Delivered(c) ==
  \/ \E m \in queue : m.cmd = c
  \/ \E w \in Consumer : InHand(w, c)
  \/ c \in parked
  \/ Terminal(c)

\* A dispatcher marks a row only after its message is on the way.
Carried ==
  /\ \A c \in Command : outbox[c].state = "sent" => Delivered(c)
  /\ \A d \in Dispatcher :
       dispatcher[d].at = "delivered" => Delivered(dispatcher[d].cmd)

ResultShape ==
  /\ \A c \in Command : manifests[c] # NoResult => <<c, manifests[c]>> \in objects
  /\ \A c \in Command : jobs[c].status = "completed" =>
       jobs[c].result # NoResult /\ manifests[c] # NoResult
  /\ \A w \in Consumer :
       pc[w] = "commit" => <<hand[w].cmd, answer[w]>> \in objects

IInv ==
  /\ TypeOK
  /\ AttemptsBounded
  /\ JobShape
  /\ WorkerShape
  /\ RepairShape
  /\ LeaseExclusive
  /\ Submitted
  /\ Carried
  /\ ResultShape

(* The job store keeps the contract CommandDelivery states: no run after a  *)
(* verdict, no success without a run, no verdict "dead" before the last     *)
(* permitted run, at most MaxAttempts runs.                                 *)
PhaseOf(c) ==
  CASE outbox[c].state = "absent" -> "none"
    [] jobs[c].status = "completed" -> "done"
    [] jobs[c].status = "dead_lettered" -> "dead"
    [] OTHER -> "pending"

Delivery == INSTANCE CommandDelivery WITH
  phase <- [c \in Command |-> PhaseOf(c)],
  runs <- [c \in Command |-> jobs[c].attempts]

DeliveryContract == Delivery!Spec
=============================================================================

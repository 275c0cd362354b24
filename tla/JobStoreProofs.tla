--------------------------- MODULE JobStoreProofs ---------------------------
(* Theorems about JobStore, for every number of commands, consumers,       *)
(* dispatchers and repairers and every bound on attempts and retries.      *)
EXTENDS JobStore, TLAPS

USE DEF Message, OutboxRow, DispatchState, Steps

(* What the updates of the job table write. *)
LEMMA LeasedRow ==
  ASSUME NEW job \in JobRow
  PROVE  /\ Leased(job) \in JobRow
         /\ Leased(job).status = "running"
         /\ Leased(job).attempts = job.attempts + 1
         /\ Leased(job).token = job.attempts + 1
         /\ Leased(job).result = job.result
<1>1. job.attempts + 1 \in Nat
  BY DEF JobRow
<1> QED BY <1>1 DEF Leased, JobRow

LEMMA CompletedRow ==
  ASSUME NEW job \in JobRow, NEW r \in Result
  PROVE  /\ Completed(job, r) \in JobRow
         /\ Completed(job, r).status = "completed"
         /\ Completed(job, r).attempts = job.attempts
         /\ Completed(job, r).token = 0
         /\ Completed(job, r).result = r
  BY DEF Completed, JobRow

LEMMA DeferredRow ==
  ASSUME NEW job \in JobRow
  PROVE  /\ Deferred(job) \in JobRow
         /\ Deferred(job).status = "retrying"
         /\ Deferred(job).attempts = job.attempts
         /\ Deferred(job).token = 0
         /\ Deferred(job).result = job.result
  BY DEF Deferred, JobRow

LEMMA BuriedRow ==
  ASSUME NEW job \in JobRow
  PROVE  /\ Buried(job) \in JobRow
         /\ Buried(job).status = "dead_lettered"
         /\ Buried(job).attempts = job.attempts
         /\ Buried(job).token = 0
         /\ Buried(job).result = job.result
  BY DEF Buried, JobRow

(* The other updates change flags only, or open a row. *)
LEMMA FlagRow ==
  ASSUME JobTypes, NEW c \in Command
  PROVE  /\ [jobs EXCEPT ![c].expired = TRUE] \in [Command -> JobRow]
         /\ [jobs EXCEPT ![c].available = TRUE] \in [Command -> JobRow]
         /\ [jobs EXCEPT ![c].status = "queued", ![c].available = TRUE]
              \in [Command -> JobRow]
<1>1. jobs \in [Command -> JobRow] /\ jobs[c] \in JobRow
  BY DEF JobTypes
<1>2. /\ [jobs[c] EXCEPT !.expired = TRUE] \in JobRow
      /\ [jobs[c] EXCEPT !.available = TRUE] \in JobRow
      /\ [[jobs[c] EXCEPT !.status = "queued"] EXCEPT !.available = TRUE] \in JobRow
  BY <1>1 DEF JobRow
<1>3. ASSUME NEW row \in JobRow
      PROVE  [jobs EXCEPT ![c] = row] \in [Command -> JobRow]
  BY <1>1
<1>4. /\ [jobs EXCEPT ![c].expired = TRUE] \in [Command -> JobRow]
      /\ [jobs EXCEPT ![c].available = TRUE] \in [Command -> JobRow]
  BY <1>2, <1>3
<1>5. [jobs EXCEPT ![c].status = "queued", ![c].available = TRUE]
        = [jobs EXCEPT ![c] =
             [[jobs[c] EXCEPT !.status = "queued"] EXCEPT !.available = TRUE]]
  BY <1>1 DEF JobRow
<1> QED BY <1>2, <1>3, <1>4, <1>5

(* A consumer that is past "idle" holds a message. *)
LEMMA HandIsMessage ==
  ASSUME ConsumerTypes, NEW w \in Consumer, pc[w] # "idle"
  PROVE  hand[w] \in Message
  BY DEF ConsumerTypes

LEMMA AckTypes ==
  ASSUME ConsumerTypes, NEW w \in Consumer, Ack(w)
  PROVE  ConsumerTypes'
  BY DEF ConsumerTypes, Ack, Idle

LEMMA RetryTypes ==
  ASSUME ConsumerTypes, NEW w \in Consumer, pc[w] # "idle", Retry(w)
  PROVE  ConsumerTypes'
<1> DEFINE back == [hand[w] EXCEPT !.tries = @ + 1]
<1>1. hand[w] \in Message
  BY HandIsMessage
<1>2. back \in Message /\ hand[w].cmd \in Command
  BY <1>1
<1>3. queue' \subseteq Message /\ parked' \subseteq Command
  <2> HIDE DEF back
  <2>1. queue' = queue \union {back} \/ queue' = queue
    BY DEF Retry, back
  <2>2. parked' = parked \union {hand[w].cmd} \/ parked' = parked
    BY DEF Retry
  <2> QED BY <1>2, <2>1, <2>2 DEF ConsumerTypes
<1> QED BY <1>3 DEF ConsumerTypes, Retry, Idle

LEMMA GotoTypes ==
  ASSUME ConsumerTypes, NEW w \in Consumer, pc[w] # "idle",
         NEW step \in Steps \ {"idle"}, Goto(w, step),
         step \in {"store", "commit"} => answer[w] \in Result
  PROVE  ConsumerTypes'
  BY HandIsMessage, NoMessageAssumption DEF ConsumerTypes, Goto

LEMMA TypeInit == Init => TypeOK
<1> SUFFICES ASSUME Init PROVE TypeOK
  OBVIOUS
<1>1. OutboxTypes
  BY CommandAssumption DEF Init, OutboxTypes, NoDispatch
<1>2. JobTypes
  BY DEF Init, JobTypes, JobRow
<1>3. ConsumerTypes
  BY DEF Init, ConsumerTypes
<1>4. RepairTypes
  BY CommandAssumption DEF Init, RepairTypes, NoRepair, RepairState
<1>5. faults \in 0..MaxFaults
  BY MaxFaultsAssumption DEF Init
<1> QED BY <1>1, <1>2, <1>3, <1>4, <1>5 DEF TypeOK

(* Parts of the state a step leaves alone keep their types. *)
LEMMA OutboxSame == OutboxTypes /\ UNCHANGED outboxVars => OutboxTypes'
  BY DEF OutboxTypes, outboxVars

LEMMA JobSame ==
  JobTypes /\ UNCHANGED <<jobs, resultVars, incidents>> => JobTypes'
  BY DEF JobTypes, resultVars

LEMMA ConsumerSame ==
  ConsumerTypes /\ UNCHANGED <<queue, parked, consumerVars>> => ConsumerTypes'
  BY DEF ConsumerTypes, consumerVars

LEMMA RepairSame == RepairTypes /\ UNCHANGED repair => RepairTypes'
  BY DEF RepairTypes

LEMMA FaultsSame ==
  ASSUME faults \in 0..MaxFaults,
         \/ UNCHANGED faults
         \/ faults < MaxFaults /\ faults' = faults + 1
  PROVE  faults' \in 0..MaxFaults
  BY MaxFaultsAssumption

(* The steps of a dispatcher and of the outbox's clock. *)
OutboxStep ==
  \/ \E c \in Command : Commit(c) \/ ClaimExpires(c) \/ ClaimOverrun(c)
  \/ \E d \in Dispatcher : \/ Dispatch(d)
                           \/ DispatchRelease(d)
                           \/ DispatchCrash(d)

LEMMA TypeOutboxStep ==
  ASSUME TypeOK, OutboxStep
  PROVE  TypeOK'
<1>1. JobTypes' /\ RepairTypes'
  BY JobSame, RepairSame DEF TypeOK, OutboxStep, Commit, ClaimExpires,
     ClaimOverrun, Expire, Dispatch, DispatchClaim, DispatchSend, DispatchMark,
     DispatchRelease, CloseClaim, DispatchCrash
<1>2. faults' \in 0..MaxFaults
  BY FaultsSame DEF TypeOK, OutboxStep, Commit, ClaimExpires,
     ClaimOverrun, Expire, Dispatch, DispatchClaim, DispatchSend, DispatchMark,
     DispatchRelease, CloseClaim, DispatchCrash
<1>3. ConsumerTypes'
  <2>1. CASE \E d \in Dispatcher : DispatchSend(d)
    BY <2>1 DEF TypeOK, OutboxTypes, ConsumerTypes, DispatchSend, consumerVars
  <2>2. CASE ~\E d \in Dispatcher : DispatchSend(d)
    BY <2>2, ConsumerSame DEF TypeOK, OutboxStep, Commit, ClaimExpires,
       ClaimOverrun, Expire, Dispatch, DispatchClaim, DispatchMark,
       DispatchRelease, CloseClaim, DispatchCrash
  <2> QED BY <2>1, <2>2
<1>4. OutboxTypes'
  <2> USE DEF TypeOK, OutboxTypes
  <2>1. ASSUME NEW c \in Command, Commit(c) PROVE OutboxTypes'
    BY <2>1 DEF Commit
  <2>2. ASSUME NEW c \in Command, Expire(c) PROVE OutboxTypes'
    BY <2>2 DEF Expire
  <2>3. ASSUME NEW d \in Dispatcher, NEW c \in Command, DispatchClaim(d, c)
        PROVE OutboxTypes'
    BY <2>3 DEF DispatchClaim
  <2>4. ASSUME NEW d \in Dispatcher, DispatchSend(d) PROVE OutboxTypes'
    BY <2>4 DEF DispatchSend
  <2>5. ASSUME NEW d \in Dispatcher, NEW s \in {"sent", "unsent"},
               CloseClaim(d, s)
        PROVE OutboxTypes'
    <3>1. NoDispatch \in DispatchState
      BY CommandAssumption DEF NoDispatch
    <3>2. dispatcher[d].cmd \in Command
      OBVIOUS
    <3> QED BY <2>5, <3>1, <3>2 DEF CloseClaim
  <2>6. ASSUME NEW d \in Dispatcher, DispatchCrash(d) PROVE OutboxTypes'
    BY <2>6, CommandAssumption DEF DispatchCrash, NoDispatch
  <2> QED
    BY <2>1, <2>2, <2>3, <2>4, <2>5, <2>6 DEF OutboxStep, ClaimExpires,
       ClaimOverrun, Dispatch, DispatchMark, DispatchRelease
<1> QED BY <1>1, <1>2, <1>3, <1>4 DEF TypeOK
(* The steps of a consumer, its faults included. *)
ConsumerStep(w) == Consume(w) \/ CompleteUnseen(w) \/ ConsumerCrash(w)

LEMMA TypeConsumerStep ==
  ASSUME TypeOK, NEW w \in Consumer, ConsumerStep(w)
  PROVE  TypeOK'
<1> USE DEF ConsumerStep, Consume
<1>1. OutboxTypes' /\ RepairTypes'
  BY OutboxSame, RepairSame DEF TypeOK, Receive, Enqueue, Check, Claim,
     ClaimRefused, ExecuteOk, Throw, StoreObject, Complete, CompleteUnseen,
     Confirm, FailRead, Defer, Bury, ConsumerCrash
<1>2. faults' \in 0..MaxFaults
  BY FaultsSame DEF TypeOK, Receive, Enqueue, Check, Claim,
     ClaimRefused, ExecuteOk, Throw, StoreObject, Complete, CompleteUnseen,
     Confirm, FailRead, Defer, Bury, ConsumerCrash
<1>3. ConsumerTypes'
  <2>1. ConsumerTypes
    BY DEF TypeOK
  <2>2. CASE Check(w) \/ Complete(w) \/ Confirm(w) \/ Bury(w)
    BY <2>1, <2>2, AckTypes, GotoTypes DEF Check, Complete, Confirm, Bury
  <2>3. CASE ClaimRefused(w) \/ FailRead(w) \/ Defer(w) \/ ConsumerCrash(w)
    BY <2>1, <2>3, RetryTypes, GotoTypes DEF ClaimRefused, FailRead, Defer,
       ConsumerCrash
  <2>4. CASE Enqueue(w) \/ Throw(w) \/ StoreObject(w) \/ CompleteUnseen(w)
    BY <2>1, <2>4, GotoTypes DEF Enqueue, Throw, StoreObject, CompleteUnseen,
       ConsumerTypes
  <2>5. ASSUME NEW m \in queue, Receive(w, m) PROVE ConsumerTypes'
    <3>1. m \in Message /\ m # NoMessage
      BY <2>1, NoMessageAssumption DEF ConsumerTypes
    <3> HIDE DEF Message
    <3> QED BY <2>1, <2>5, <3>1 DEF Receive, ConsumerTypes
  <2>6. CASE Claim(w)
    <3>1. Leased(jobs[hand[w].cmd]).token \in Nat
      <4>1. hand[w].cmd \in Command
        BY <2>1, <2>6, HandIsMessage DEF Claim
      <4>2. jobs[hand[w].cmd] \in JobRow
        BY <4>1 DEF TypeOK, JobTypes
      <4> QED BY <4>2, LeasedRow DEF JobRow
    <3>2. pc[w] # "idle" /\ "execute" \notin {"idle", "store", "commit"}
      BY <2>6 DEF Claim
    <3>3. /\ pc' = [pc EXCEPT ![w] = "execute"]
          /\ \E n \in Nat : lease' = [lease EXCEPT ![w] = n]
          /\ UNCHANGED <<queue, parked, hand, answer>>
      BY <2>6, <3>1 DEF Claim
    <3> QED BY <2>1, <3>2, <3>3, NoMessageAssumption DEF ConsumerTypes
  <2>7. ASSUME NEW r \in Result, ExecuteOk(w, r) PROVE ConsumerTypes'
    BY <2>1, <2>7 DEF ExecuteOk, ConsumerTypes
  <2> QED BY <2>2, <2>3, <2>4, <2>5, <2>6, <2>7
<1>4. JobTypes'
  <2>1. CASE pc[w] = "idle"
    BY <2>1, JobSame DEF TypeOK, Receive, Enqueue, Check, Claim,
       ClaimRefused, ExecuteOk, Throw, StoreObject, Complete, CompleteUnseen,
       Confirm, FailRead, Defer, Bury, ConsumerCrash
  <2>2. CASE pc[w] # "idle"
    <3> DEFINE c == hand[w].cmd
    <3>1. c \in Command
      BY <2>2, HandIsMessage DEF TypeOK
    <3>a. jobs[c] \in JobRow
      BY <3>1 DEF TypeOK, JobTypes
    <3> HIDE DEF c
    <3> USE DEF TypeOK, JobTypes, resultVars
    <3>2. CASE Enqueue(w)
      <4>1. UNCHANGED <<manifests, objects, incidents>>
        BY <3>2 DEF Enqueue
      <4>2. \/ jobs' = [jobs EXCEPT ![c].status = "queued", ![c].available = TRUE]
            \/ jobs' = jobs
        BY <3>2 DEF Enqueue, c
      <4> QED BY <3>1, <4>1, <4>2, FlagRow
    <3>3. CASE Claim(w)
      <4>1. jobs' = [jobs EXCEPT ![c] = Leased(jobs[c])]
        BY <3>3 DEF Claim, c
      <4>2. UNCHANGED <<manifests, objects, incidents>>
        BY <3>3 DEF Claim
      <4> QED BY <3>1, <3>a, <4>1, <4>2, LeasedRow
    <3>4. CASE StoreObject(w)
      <4>1. answer[w] \in Result
        BY <3>4 DEF StoreObject, ConsumerTypes
      <4>2. /\ objects' = objects \union {<<c, answer[w]>>}
            /\ UNCHANGED <<jobs, manifests, incidents>>
        BY <3>4 DEF StoreObject, c
      <4> QED BY <3>1, <4>1, <4>2
    <3>5. CASE Complete(w) \/ CompleteUnseen(w)
      <4>1. pc[w] = "commit" /\ CompleteBatch(w) /\ UNCHANGED <<objects, incidents>>
        BY <3>5 DEF Complete, CompleteUnseen
      <4>2. answer[w] \in Result
        BY <4>1 DEF ConsumerTypes
      <4>3. \/ jobs' = [jobs EXCEPT ![c] = Completed(jobs[c], answer[w])]
            \/ jobs' = jobs
        BY <4>1 DEF CompleteBatch, c
      <4>4. manifests' \in [Command -> Result \union {NoResult}]
        BY <3>1, <4>1, <4>2 DEF CompleteBatch, c
      <4> QED BY <3>1, <3>a, <4>1, <4>2, <4>3, <4>4, CompletedRow
    <3>6. CASE Defer(w)
      <4>1. \/ jobs' = [jobs EXCEPT ![c] = Deferred(jobs[c])]
            \/ jobs' = jobs
        BY <3>6 DEF Defer, c
      <4>2. UNCHANGED <<manifests, objects, incidents>>
        BY <3>6 DEF Defer
      <4> QED BY <3>1, <3>a, <4>1, <4>2, DeferredRow
    <3>7. CASE Bury(w)
      <4>1. /\ jobs' = [jobs EXCEPT ![c] = Buried(jobs[c])]
            /\ incidents' = incidents \union {c}
            /\ UNCHANGED <<manifests, objects>>
        BY <3>7 DEF Bury, DeadLetter, c
      <4> QED BY <3>1, <3>a, <4>1, BuriedRow
    <3>8. CASE \/ Check(w) \/ ClaimRefused(w) \/ Throw(w) \/ Confirm(w)
               \/ FailRead(w) \/ ConsumerCrash(w)
               \/ \E r \in Result : ExecuteOk(w, r)
      BY <3>8, JobSame DEF TypeOK, Check, ClaimRefused, Throw, Confirm,
         FailRead, ConsumerCrash, ExecuteOk
    <3> QED BY <2>2, <3>2, <3>3, <3>4, <3>5, <3>6, <3>7, <3>8 DEF Receive
  <2> QED BY <2>1, <2>2
<1> QED BY <1>1, <1>2, <1>3, <1>4 DEF TypeOK

(* The steps of the repair pass and of the job table's clock. *)
JobStep ==
  \/ \E c \in Command : LeaseExpires(c) \/ RetryDelayEnds(c)
  \/ \E p \in Repairer : Repair(p) \/ RepairCrash(p)

LEMMA TypeJobStep ==
  ASSUME TypeOK, JobStep
  PROVE  TypeOK'
<1>1. OutboxTypes' /\ ConsumerTypes'
  BY OutboxSame, ConsumerSame DEF TypeOK, JobStep, LeaseExpires,
     RetryDelayEnds, Repair, RepairRead, RepairWrite, RepairCrash
<1>2. faults' \in 0..MaxFaults
  BY FaultsSame DEF TypeOK, JobStep, LeaseExpires,
     RetryDelayEnds, Repair, RepairRead, RepairWrite, RepairCrash
<1>3. RepairTypes'
  <2>1. NoRepair \in RepairState
    BY CommandAssumption DEF NoRepair, RepairState
  <2>2. ASSUME NEW p \in Repairer, NEW c \in Command, RepairRead(p, c)
        PROVE RepairTypes'
    <3> DEFINE copy == [at |-> "read", cmd |-> c, token |-> jobs[c].token]
    <3>1. copy \in RepairState
      BY DEF RepairState, TypeOK, JobTypes, JobRow
    <3>2. repair' = [repair EXCEPT ![p] = copy]
      BY <2>2 DEF RepairRead
    <3> HIDE DEF copy
    <3> QED BY <3>1, <3>2 DEF TypeOK, RepairTypes
  <2>3. ASSUME NEW p \in Repairer, RepairWrite(p) \/ RepairCrash(p)
        PROVE RepairTypes'
    BY <2>1, <2>3 DEF TypeOK, RepairTypes, RepairWrite, RepairCrash
  <2>4. CASE \E c \in Command : LeaseExpires(c) \/ RetryDelayEnds(c)
    BY <2>4, RepairSame DEF TypeOK, LeaseExpires, RetryDelayEnds
  <2> QED BY <2>2, <2>3, <2>4 DEF JobStep, Repair
<1>4. JobTypes'
  <2> USE DEF TypeOK, JobTypes, resultVars
  <2>1. ASSUME NEW c \in Command, LeaseExpires(c) \/ RetryDelayEnds(c)
        PROVE JobTypes'
    <3>1. UNCHANGED <<manifests, objects, incidents>>
      BY <2>1 DEF LeaseExpires, RetryDelayEnds
    <3>2. /\ [jobs EXCEPT ![c].expired = TRUE] \in [Command -> JobRow]
          /\ [jobs EXCEPT ![c].available = TRUE] \in [Command -> JobRow]
      BY FlagRow
    <3>3. jobs' = [jobs EXCEPT ![c].expired = TRUE] \/ jobs' = [jobs EXCEPT ![c].available = TRUE]
      BY <2>1 DEF LeaseExpires, RetryDelayEnds
    <3>4. jobs' \in [Command -> JobRow]
      BY <3>2, <3>3
    <3> QED BY <3>1, <3>4
  <2>2. ASSUME NEW p \in Repairer, NEW c \in Command,
               RepairRead(p, c) \/ RepairCrash(p)
        PROVE JobTypes'
    BY <2>2 DEF RepairRead, RepairCrash
  <2>3. ASSUME NEW p \in Repairer, RepairWrite(p) PROVE JobTypes'
    <3> DEFINE c == repair[p].cmd
    <3>1. c \in Command /\ jobs[c] \in JobRow
      BY DEF RepairTypes, RepairState
    <3>2. UNCHANGED <<manifests, objects>>
      BY <2>3 DEF RepairWrite
    <3>3. \/ /\ jobs' = [jobs EXCEPT ![c] = Buried(jobs[c])]
             /\ incidents' = incidents \union {c}
          \/ /\ jobs' = [jobs EXCEPT ![c] = Deferred(jobs[c])]
             /\ incidents' = incidents
          \/ UNCHANGED <<jobs, incidents>>
      BY <2>3 DEF RepairWrite, DeadLetter
    <3> HIDE DEF c
    <3> QED BY <3>1, <3>2, <3>3, BuriedRow, DeferredRow
  <2> QED BY <2>1, <2>2, <2>3, CommandAssumption DEF JobStep, Repair
<1> QED BY <1>1, <1>2, <1>3, <1>4 DEF TypeOK

LEMMA NextSteps ==
  Next => OutboxStep \/ (\E w \in Consumer : ConsumerStep(w)) \/ JobStep
  BY DEF Next, Elapse, Fault, OutboxStep, ConsumerStep, JobStep

LEMMA TypeStep == TypeOK /\ [Next]_vars => TypeOK'
<1> SUFFICES ASSUME TypeOK, [Next]_vars PROVE TypeOK'
  OBVIOUS
<1>1. CASE UNCHANGED vars
  BY <1>1, OutboxSame, JobSame, ConsumerSame, RepairSame
     DEF TypeOK, vars, outboxVars, resultVars, consumerVars
<1> QED BY <1>1, NextSteps, TypeOutboxStep, TypeConsumerStep, TypeJobStep

(* Every variable of every reachable state has its type. *)
THEOREM TypeCorrect == Spec => []TypeOK
  BY TypeInit, TypeStep, PTL DEF Spec
-----------------------------------------------------------------------------
(* Leases and attempts. *)

LeaseInv ==
  /\ AttemptsBounded
  /\ JobShape
  /\ WorkerShape
  /\ RepairShape
  /\ LeaseExclusive

LEMMA LeaseInit == Init => LeaseInv
<1> SUFFICES ASSUME Init PROVE LeaseInv
  OBVIOUS
<1>1. \A c \in Command : /\ jobs[c].status = "absent"
                         /\ jobs[c].attempts = 0
                         /\ jobs[c].token = 0
  BY DEF Init
<1>2. (\A w \in Consumer : pc[w] = "idle")
      /\ (\A p \in Repairer : repair[p].at = "idle")
  BY DEF Init, NoRepair
<1> QED
  BY <1>1, <1>2, MaxAttemptsAssumption
     DEF LeaseInv, AttemptsBounded, JobShape, WorkerShape, RepairShape,
         LeaseExclusive, Working

Core(job) == <<job.status, job.attempts, job.token>>

LEMMA LeaseOutboxStep ==
  ASSUME LeaseInv, OutboxStep \/ UNCHANGED vars
  PROVE  LeaseInv'
<1>1. UNCHANGED <<jobs, pc, hand, lease, repair>>
  BY DEF OutboxStep, vars, consumerVars, Commit, ClaimExpires, ClaimOverrun,
     Expire, Dispatch, DispatchClaim, DispatchSend, DispatchMark,
     DispatchRelease, CloseClaim, DispatchCrash
<1> QED
  BY <1>1 DEF LeaseInv, AttemptsBounded, JobShape, WorkerShape, RepairShape,
     LeaseExclusive, Working

LEMMA LeaseJobStep ==
  ASSUME TypeOK, LeaseInv, JobStep
  PROVE  LeaseInv'
<1>1. UNCHANGED consumerVars
  BY DEF JobStep, LeaseExpires, RetryDelayEnds, Repair, RepairRead,
     RepairWrite, RepairCrash
<1>2. \A c \in Command : jobs[c] \in JobRow
  BY DEF TypeOK, JobTypes
<1> USE DEF LeaseInv, AttemptsBounded, JobShape, WorkerShape, RepairShape,
        LeaseExclusive, Working, consumerVars
<1>3. ASSUME NEW c \in Command, LeaseExpires(c) \/ RetryDelayEnds(c)
      PROVE LeaseInv'
  <2>1. \A x \in Command : Core(jobs'[x]) = Core(jobs[x])
    BY <1>2, <1>3 DEF LeaseExpires, RetryDelayEnds, Core, JobRow, TypeOK, JobTypes
  <2>2. UNCHANGED repair
    BY <1>3 DEF LeaseExpires, RetryDelayEnds
  <2>3. \A x \in Command : /\ jobs'[x].status = jobs[x].status
                           /\ jobs'[x].attempts = jobs[x].attempts
                           /\ jobs'[x].token = jobs[x].token
    BY <2>1 DEF Core
  <2>4. \A w \in Consumer : pc[w] # "idle" => hand[w].cmd \in Command
    BY HandIsMessage DEF TypeOK
  <2>5. \A p \in Repairer : repair[p].cmd \in Command
    BY DEF TypeOK, RepairTypes, RepairState
  <2> QED BY <1>1, <2>2, <2>3, <2>4, <2>5
<1>4. ASSUME NEW p \in Repairer, NEW c \in Command, RepairRead(p, c)
      PROVE LeaseInv'
  <2>1. UNCHANGED jobs
    BY <1>4 DEF RepairRead
  <2>2. \A q \in Repairer :
          \/ repair'[q] = repair[q]
          \/ /\ repair'[q].cmd = c
             /\ repair'[q].token = jobs[c].token
    BY <1>4 DEF RepairRead, TypeOK, RepairTypes
  <2>3. jobs[c].token \in 1..jobs[c].attempts
    BY <1>2, <1>4 DEF RepairRead, JobRow
  <2> QED BY <1>1, <2>1, <2>2, <2>3
<1>5. ASSUME NEW p \in Repairer, RepairCrash(p) PROVE LeaseInv'
  <2>1. UNCHANGED jobs
    BY <1>5 DEF RepairCrash
  <2>2. \A q \in Repairer : repair'[q] = repair[q] \/ repair'[q].at = "idle"
    BY <1>5 DEF RepairCrash, NoRepair, TypeOK, RepairTypes
  <2> QED BY <1>1, <2>1, <2>2
<1>6. ASSUME NEW p \in Repairer, RepairWrite(p) PROVE LeaseInv'
  <2> DEFINE c == repair[p].cmd
  <2>1. c \in Command
    BY DEF TypeOK, RepairTypes, RepairState
  <2>2. repair[p].token \in 1..jobs[c].attempts
    BY <1>6 DEF RepairWrite
  <2>3. \A q \in Repairer : repair'[q] = repair[q] \/ repair'[q].at = "idle"
    BY <1>6 DEF RepairWrite, NoRepair, TypeOK, RepairTypes
  <2>4. \A x \in Command : x # c => jobs'[x] = jobs[x]
    BY <1>6 DEF RepairWrite, DeadLetter, TypeOK, JobTypes
  <2>5. /\ jobs'[c].attempts = jobs[c].attempts
        /\ \/ jobs'[c] = jobs[c]
           \/ /\ jobs'[c].status = "dead_lettered"
              /\ jobs'[c].token = 0
              /\ jobs[c].attempts = MaxAttempts
           \/ /\ jobs'[c].status = "retrying"
              /\ jobs'[c].token = 0
              /\ jobs[c].attempts < MaxAttempts
              /\ jobs[c].attempts > 0
    <3>1. CASE repair[p].token >= MaxAttempts
      <4>1. jobs'[c] = Buried(jobs[c])
        BY <1>6, <2>1, <3>1 DEF RepairWrite, DeadLetter, TypeOK, JobTypes
      <4>2. jobs[c].attempts = MaxAttempts
        <5>1. jobs[c].attempts \in Nat /\ jobs[c].attempts <= MaxAttempts
          BY <1>2, <2>1 DEF JobRow
        <5>2. repair[p].token \in Nat /\ repair[p].token <= jobs[c].attempts
          BY <2>2, <5>1 DEF TypeOK, RepairTypes, RepairState
        <5> DEFINE used  == jobs[c].attempts
                   token == repair[p].token
        <5> HIDE DEF used, token, c
        <5>3. used \in Nat /\ token \in Nat /\ used <= MaxAttempts
              /\ token <= used /\ token >= MaxAttempts
          BY <3>1, <5>1, <5>2 DEF used, token
        <5>4. used = MaxAttempts
          BY <5>3, MaxAttemptsAssumption
        <5> QED BY <5>4 DEF used
      <4> QED BY <1>2, <2>1, <4>1, <4>2, BuriedRow
    <3>2. CASE repair[p].token < MaxAttempts /\ SameLease(p)
      <4>1. jobs'[c] = Deferred(jobs[c])
        BY <1>6, <2>1, <2>2, <3>2, MaxAttemptsAssumption
           DEF RepairWrite, TypeOK, JobTypes
      <4>2. jobs[c].attempts = repair[p].token
        BY <2>1, <3>2 DEF SameLease
      <4> QED BY <1>2, <2>1, <2>2, <3>2, <4>1, <4>2, DeferredRow DEF JobRow
    <3>3. CASE repair[p].token < MaxAttempts /\ ~SameLease(p)
      BY <1>6, <2>2, <3>3, MaxAttemptsAssumption DEF RepairWrite
    <3> QED BY <2>2, <3>1, <3>2, <3>3, MaxAttemptsAssumption
  <2>6. \A x \in Command : jobs'[x].attempts = jobs[x].attempts
    BY <2>4, <2>5
  <2>7. \A w \in Consumer : pc[w] # "idle" => hand[w].cmd \in Command
    BY HandIsMessage DEF TypeOK
  <2>8. \A q \in Repairer : repair[q].cmd \in Command
    BY DEF TypeOK, RepairTypes, RepairState
  <2> HIDE DEF c
  <2>9. AttemptsBounded' /\ JobShape'
    <3> SUFFICES ASSUME NEW x \in Command
                 PROVE  /\ AttemptsBounded!(x)'
                        /\ JobShape!(x)'
      OBVIOUS
    <3>1. CASE x # c
      BY <2>4, <3>1
    <3>2. CASE x = c
      BY <1>2, <2>1, <2>5, <3>2, MaxAttemptsAssumption DEF JobRow
    <3> QED BY <3>1, <3>2
  <2>10. WorkerShape' /\ LeaseExclusive'
    BY <1>1, <2>6, <2>7
  <2>11. RepairShape'
    BY <2>3, <2>6, <2>8
  <2> QED BY <2>9, <2>10, <2>11
<1> QED BY <1>3, <1>4, <1>5, <1>6 DEF JobStep, Repair

(* What a consumer's step does to a row: nothing, or one of the job table's *)
(* updates under the guard its action checks.                               *)
RowStep(w, c) ==
  \/ Core(jobs'[c]) = Core(jobs[c])
  \/ /\ jobs[c].status = "absent"
     /\ jobs'[c].status = "queued"
     /\ jobs'[c].attempts = jobs[c].attempts
     /\ jobs'[c].token = jobs[c].token
  \/ /\ Claim(w)
     /\ jobs[c].status \in {"queued", "retrying"}
     /\ jobs'[c].status = "running"
     /\ jobs'[c].attempts = jobs[c].attempts + 1
     /\ jobs'[c].token = jobs[c].attempts + 1
  \/ /\ jobs[c].status = "running"
     /\ jobs[c].token = lease[w]
     /\ jobs'[c].status \in {"completed", "retrying"}
     /\ jobs'[c].status = "retrying" => lease[w] < MaxAttempts
     /\ jobs'[c].attempts = jobs[c].attempts
     /\ jobs'[c].token = 0
  \/ /\ pc[w] = "bury"
     /\ jobs'[c].status = "dead_lettered"
     /\ jobs'[c].attempts = jobs[c].attempts
     /\ jobs'[c].token = 0

LEMMA ConsumerRowStep ==
  ASSUME TypeOK, LeaseInv, NEW w \in Consumer, pc[w] # "idle", ConsumerStep(w)
  PROVE  /\ \A x \in Command : x # hand[w].cmd => jobs'[x] = jobs[x]
         /\ RowStep(w, hand[w].cmd)
<1> DEFINE c == hand[w].cmd
<1>1. c \in Command
  BY HandIsMessage DEF TypeOK
<1>2. jobs[c] \in JobRow /\ jobs \in [Command -> JobRow]
  BY <1>1 DEF TypeOK, JobTypes
<1>3. CASE UNCHANGED jobs
  BY <1>3 DEF RowStep, Core
<1>4. CASE Enqueue(w) /\ jobs[c].status = "absent"
  <2>1. jobs' = [jobs EXCEPT ![c].status = "queued", ![c].available = TRUE]
    BY <1>4 DEF Enqueue
  <2> QED BY <1>1, <1>2, <1>4, <2>1 DEF RowStep, JobRow
<1>5. CASE Claim(w)
  <2>1. jobs' = [jobs EXCEPT ![c] = Leased(jobs[c])] /\ Runnable(c)
    BY <1>5 DEF Claim
  <2> QED BY <1>1, <1>2, <1>5, <2>1, LeasedRow DEF RowStep, Runnable
<1>6. CASE pc[w] = "commit" /\ CompleteBatch(w) /\ HoldsLease(w)
  <2>1. jobs' = [jobs EXCEPT ![c] = Completed(jobs[c], answer[w])]
    BY <1>6 DEF CompleteBatch
  <2>2. answer[w] \in Result
    BY <1>6 DEF TypeOK, ConsumerTypes
  <2> QED BY <1>1, <1>2, <1>6, <2>1, <2>2, CompletedRow DEF RowStep, HoldsLease
<1>7. CASE Defer(w) /\ jobs[c].token = lease[w]
  <2>1. jobs' = [jobs EXCEPT ![c] = Deferred(jobs[c])]
    BY <1>7 DEF Defer
  <2>2. pc[w] = "defer" /\ lease[w] < MaxAttempts
    BY <1>7 DEF Defer, LeaseInv, WorkerShape
  <2>3. lease[w] \in 1..jobs[c].attempts
    BY <2>2 DEF LeaseInv, WorkerShape, Working
  <2>4. jobs[c].status = "running"
    BY <1>1, <1>2, <1>7, <2>3 DEF LeaseInv, JobShape, JobRow
  <2> QED BY <1>1, <1>2, <1>7, <2>1, <2>2, <2>4, DeferredRow DEF RowStep
<1>8. CASE Bury(w)
  <2>1. jobs' = [jobs EXCEPT ![c] = Buried(jobs[c])] /\ pc[w] = "bury"
    BY <1>8 DEF Bury, DeadLetter
  <2> QED BY <1>1, <1>2, <2>1, BuriedRow DEF RowStep
<1> QED
  BY <1>3, <1>4, <1>5, <1>6, <1>7, <1>8
     DEF ConsumerStep, Consume, Receive, Enqueue, Check, ClaimRefused,
         ExecuteOk, Throw, StoreObject, Complete, CompleteUnseen,
         CompleteBatch, Confirm, FailRead, Defer, ConsumerCrash

(* What a consumer's step does to its own lease. *)
LEMMA ConsumerLeaseStep ==
  ASSUME TypeOK, LeaseInv, NEW w \in Consumer, ConsumerStep(w)
  PROVE  /\ \A v \in Consumer : v # w => /\ pc'[v] = pc[v]
                                         /\ hand'[v] = hand[v]
                                         /\ lease'[v] = lease[v]
         /\ UNCHANGED repair
         /\ \/ /\ pc'[w] \notin {"execute", "store", "commit", "confirm",
                                 "failRead", "defer", "bury"}
            \/ /\ Claim(w)
               /\ pc'[w] = "execute"
               /\ hand'[w] = hand[w]
               /\ lease'[w] = jobs[hand[w].cmd].attempts + 1
            \/ /\ Working(w)
               /\ hand'[w] = hand[w]
               /\ lease'[w] = lease[w]
               /\ pc'[w] = "defer" => ~Exhausted(hand[w].cmd) /\ HoldsLease(w)
               /\ pc'[w] = "bury" => Exhausted(hand[w].cmd)
<1>1. UNCHANGED repair
  BY DEF ConsumerStep, Consume, Receive, Enqueue, Check, Claim, ClaimRefused,
     ExecuteOk, Throw, StoreObject, Complete, CompleteUnseen, Confirm,
     FailRead, Defer, Bury, ConsumerCrash
<1>2. /\ pc \in [Consumer -> Steps]
      /\ hand \in [Consumer -> Message \union {NoMessage}]
      /\ lease \in [Consumer -> Nat]
  BY DEF TypeOK, ConsumerTypes
<1>3. CASE Idle(w)
  BY <1>1, <1>2, <1>3 DEF Idle
<1>4. CASE Claim(w)
  <2>1. hand[w].cmd \in Command
    BY <1>4, HandIsMessage DEF TypeOK, Claim
  <2>2. jobs[hand[w].cmd] \in JobRow
    BY <2>1 DEF TypeOK, JobTypes
  <2> QED BY <1>1, <1>2, <1>4, <2>2, LeasedRow DEF Claim
<1>5. CASE \E m \in queue : Receive(w, m)
  BY <1>1, <1>2, <1>5 DEF Receive
<1>6. CASE \E r \in Result : ExecuteOk(w, r)
  BY <1>1, <1>2, <1>6 DEF ExecuteOk, Working
<1>7. CASE FailRead(w) /\ ~Idle(w)
  BY <1>1, <1>2, <1>7 DEF FailRead, Goto, Working, Retry
<1>8. CASE /\ \/ Enqueue(w) \/ Check(w) \/ Throw(w) \/ StoreObject(w)
              \/ Complete(w) \/ CompleteUnseen(w) \/ Confirm(w)
           /\ ~Idle(w)
  BY <1>1, <1>2, <1>8 DEF Enqueue, Check, Throw, StoreObject, Complete,
     CompleteUnseen, Confirm, Goto, Working, Ack
<1> QED
  BY <1>3, <1>4, <1>5, <1>6, <1>7, <1>8
     DEF ConsumerStep, Consume, ClaimRefused, Defer, Bury, ConsumerCrash,
         Ack, Retry

LEMMA LeaseConsumerStep ==
  ASSUME TypeOK, LeaseInv, NEW w \in Consumer, ConsumerStep(w)
  PROVE  LeaseInv'
<1> DEFINE c == hand[w].cmd
<1>1. \A x \in Command : /\ jobs[x] \in JobRow
                         /\ jobs[x].attempts \in Nat
                         /\ jobs[x].token \in Nat
  BY DEF TypeOK, JobTypes, JobRow
<1>2. CASE pc[w] = "idle"
  <2>1. UNCHANGED <<jobs, repair>> /\ pc'[w] = "enqueue"
    BY <1>2 DEF ConsumerStep, Consume, Receive, Enqueue, Check, Claim,
       ClaimRefused, ExecuteOk, Throw, StoreObject, Complete, CompleteUnseen,
       Confirm, FailRead, Defer, Bury, ConsumerCrash, TypeOK, ConsumerTypes
  <2> QED
    BY <1>2, <2>1, ConsumerLeaseStep
       DEF LeaseInv, AttemptsBounded, JobShape, WorkerShape, RepairShape,
           LeaseExclusive, Working
<1>3. CASE pc[w] # "idle"
  <2>1. c \in Command
    BY <1>3, HandIsMessage DEF TypeOK
  <2>2. /\ \A x \in Command : x # c => jobs'[x] = jobs[x]
        /\ RowStep(w, c)
    BY <1>3, ConsumerRowStep
  <2>3. /\ jobs[c].attempts <= MaxAttempts
        /\ jobs[c].status = "dead_lettered" => jobs[c].attempts = MaxAttempts
        /\ jobs[c].status = "running" <=> jobs[c].token # 0
        /\ jobs[c].status = "running" => jobs[c].token = jobs[c].attempts
        /\ jobs[c].status \in {"absent", "queued"} <=> jobs[c].attempts = 0
        /\ jobs[c].status = "retrying" => jobs[c].attempts < MaxAttempts
    BY <2>1 DEF LeaseInv, AttemptsBounded, JobShape
  <2>4. pc[w] = "bury" => jobs[c].attempts = MaxAttempts
    BY DEF LeaseInv, WorkerShape
  <2>5. pc[w] # "claim" => ~Claim(w)
    BY DEF Claim
  \* The row keeps its shape, and its attempts never shrink.
  <2>6. /\ jobs'[c].attempts <= MaxAttempts
        /\ jobs'[c].status = "dead_lettered" => jobs'[c].attempts = MaxAttempts
        /\ jobs'[c].status = "running" <=> jobs'[c].token # 0
        /\ jobs'[c].status = "running" => jobs'[c].token = jobs'[c].attempts
        /\ jobs'[c].status \in {"absent", "queued"} <=> jobs'[c].attempts = 0
        /\ jobs'[c].status = "retrying" => jobs'[c].attempts < MaxAttempts
    <3> HIDE DEF c
    <3> QED BY <1>1, <2>1, <2>2, <2>3, <2>4, MaxAttemptsAssumption
            DEF RowStep, Core
  <2>7. \/ jobs'[c].attempts = jobs[c].attempts
        \/ Claim(w) /\ jobs'[c].attempts = jobs[c].attempts + 1
    BY <2>2 DEF RowStep, Core
  <2>8. AttemptsBounded' /\ JobShape'
    <3> HIDE DEF c
    <3> QED BY <2>2, <2>6 DEF LeaseInv, AttemptsBounded, JobShape
  <2>9. \A x \in Command : \/ jobs'[x].attempts = jobs[x].attempts
                           \/ /\ Claim(w)
                              /\ x = c
                              /\ jobs'[x].attempts = jobs[x].attempts + 1
    BY <2>2, <2>7
  <2>10. RepairShape'
    <3>1. \A q \in Repairer : repair[q].cmd \in Command
      BY DEF TypeOK, RepairTypes, RepairState
    <3>2. \A n, t \in Nat : t \in 1..n => t \in 1..(n+1)
      OBVIOUS
    <3>3. \A q \in Repairer : repair[q].token \in Nat
      BY DEF TypeOK, RepairTypes, RepairState
    <3>4. UNCHANGED repair
      BY ConsumerLeaseStep
    <3> HIDE DEF c
    <3> QED BY <1>1, <2>9, <3>1, <3>2, <3>3, <3>4 DEF LeaseInv, RepairShape
  <2>11. WorkerShape' /\ LeaseExclusive'
    <3>1. \A v \in Consumer : Working(v) => /\ hand[v].cmd \in Command
                                            /\ lease[v] \in Nat
      BY HandIsMessage DEF Working, TypeOK, ConsumerTypes
    <3>2. \A n, t \in Nat : t \in 1..n => t \in 1..(n+1) /\ t # n + 1
      OBVIOUS
    <3>3. \A v \in Consumer :
            /\ Working(v) => lease[v] \in 1..jobs[hand[v].cmd].attempts
            /\ pc[v] = "defer" => lease[v] < MaxAttempts
            /\ pc[v] = "bury" => jobs[hand[v].cmd].attempts = MaxAttempts
      BY DEF LeaseInv, WorkerShape
    <3>4. \A v \in Consumer : v # w => /\ pc'[v] = pc[v]
                                       /\ hand'[v] = hand[v]
                                       /\ lease'[v] = lease[v]
      BY ConsumerLeaseStep
    <3>5. ASSUME NEW v \in Consumer, v # w
          PROVE  /\ Working(v)' => lease'[v] \in 1..jobs'[hand'[v].cmd].attempts
                 /\ pc'[v] = "defer" => lease'[v] < MaxAttempts
                 /\ pc'[v] = "bury" => jobs'[hand'[v].cmd].attempts = MaxAttempts
      <4>1. pc'[v] = "bury" => ~(Claim(w) /\ c = hand[v].cmd)
        <5> SUFFICES ASSUME pc'[v] = "bury", Claim(w), c = hand[v].cmd
                     PROVE  FALSE
          OBVIOUS
        <5>1. jobs[c].attempts = MaxAttempts
          BY <3>3, <3>4, <3>5
        <5>2. jobs[c].attempts < MaxAttempts
          BY <1>1, <2>1, <2>3, MaxAttemptsAssumption DEF Claim, Runnable
        <5> QED BY <1>1, <2>1, <5>1, <5>2, MaxAttemptsAssumption
      <4>2. Working(v)' = Working(v)
        BY <3>4, <3>5 DEF Working
      <4>3. pc[v] = "bury" => Working(v)
        BY DEF Working
      <4>4. CASE Working(v)
        <5>1. hand[v].cmd \in Command /\ lease[v] \in 1..jobs[hand[v].cmd].attempts
          BY <3>1, <3>3, <4>4
        <5>2. lease[v] \in 1..jobs'[hand[v].cmd].attempts
          BY <1>1, <2>9, <3>1, <3>2, <4>4, <5>1
        <5>3. pc'[v] = "bury" => jobs'[hand[v].cmd].attempts = MaxAttempts
          BY <2>9, <3>3, <3>4, <3>5, <4>1, <5>1
        <5> QED BY <3>3, <3>4, <3>5, <5>2, <5>3
      <4>5. CASE ~Working(v)
        BY <3>4, <3>5, <4>2, <4>5 DEF Working
      <4> QED BY <4>4, <4>5
    <3>6. /\ Working(w)' => lease'[w] \in 1..jobs'[hand'[w].cmd].attempts
          /\ pc'[w] = "defer" => lease'[w] < MaxAttempts
          /\ pc'[w] = "bury" => jobs'[hand'[w].cmd].attempts = MaxAttempts
      <4>1. CASE Claim(w) /\ pc'[w] = "execute"
        <5>1. ~Working(w)
          BY <4>1 DEF Claim, Working
        <5>2. hand'[w] = hand[w] /\ lease'[w] = jobs[c].attempts + 1
          BY <4>1, <5>1, ConsumerLeaseStep
        <5>3. jobs' = [jobs EXCEPT ![c] = Leased(jobs[c])]
          BY <4>1 DEF Claim
        <5>4. jobs'[c] = Leased(jobs[c])
          BY <2>1, <5>3 DEF TypeOK, JobTypes
        <5>5. /\ jobs'[c].attempts = jobs[c].attempts + 1
              /\ hand'[w] = hand[w]
              /\ lease'[w] = jobs[c].attempts + 1
          BY <1>1, <2>1, <5>2, <5>4, LeasedRow
        <5>6. \A n \in Nat : n + 1 \in 1..(n + 1)
          OBVIOUS
        <5> QED BY <1>1, <2>1, <4>1, <5>5, <5>6
      <4>2. CASE Working(w)
        <5>1. ~Claim(w)
          BY <4>2, <2>5 DEF Working
        <5>2. CASE Working(w)'
          <6>1. /\ hand'[w] = hand[w]
                /\ lease'[w] = lease[w]
                /\ pc'[w] = "defer" => ~Exhausted(c) /\ HoldsLease(w)
                /\ pc'[w] = "bury" => Exhausted(c)
            BY <5>1, <5>2, ConsumerLeaseStep DEF Working
          <6>2. jobs'[c].attempts = jobs[c].attempts
            BY <2>7, <5>1
          <6>3. lease[w] \in 1..jobs[c].attempts
            BY <3>3, <4>2
          <6>4. pc'[w] = "defer" => lease[w] < MaxAttempts
            <7> SUFFICES ASSUME pc'[w] = "defer" PROVE lease[w] < MaxAttempts
              OBVIOUS
            <7>1. ~(jobs[c].attempts >= MaxAttempts)
              BY <6>1 DEF Exhausted
            <7>2. jobs[c].token = lease[w] /\ jobs[c].status = "running"
              BY <6>1 DEF HoldsLease
            <7>3. lease[w] = jobs[c].attempts
              BY <2>3, <7>2
            <7> QED BY <1>1, <2>1, <7>1, <7>3, MaxAttemptsAssumption
          <6>5. pc'[w] = "bury" => jobs[c].attempts = MaxAttempts
            BY <1>1, <2>1, <2>3, <6>1, MaxAttemptsAssumption DEF Exhausted
          <6> QED BY <6>1, <6>2, <6>3, <6>4, <6>5
        <5>3. CASE ~Working(w)'
          BY <5>3 DEF Working
        <5> QED BY <5>2, <5>3
      <4>3. CASE ~Working(w)'
        BY <4>3 DEF Working
      <4> QED BY <4>1, <4>2, <4>3, ConsumerLeaseStep DEF Working, Claim
    <3>7. WorkerShape'
      BY <3>5, <3>6 DEF WorkerShape
    <3>8. ASSUME NEW v \in Consumer, v # w, Working(v)', Working(w)',
                 hand'[v].cmd = hand'[w].cmd
          PROVE  lease'[v] # lease'[w]
      <4>1. Working(v) /\ hand'[v] = hand[v] /\ lease'[v] = lease[v]
        BY <3>4, <3>8 DEF Working
      <4>2. CASE Claim(w)
        <5>1. hand'[w] = hand[w] /\ lease'[w] = jobs[c].attempts + 1
          BY <3>8, <4>2, ConsumerLeaseStep DEF Working, Claim
        <5>2. lease[v] \in 1..jobs[c].attempts
          BY <3>3, <3>8, <4>1, <5>1
        <5> QED BY <1>1, <2>1, <3>1, <3>2, <4>1, <5>1, <5>2
      <4>3. CASE ~Claim(w)
        <5>1. Working(w) /\ hand'[w] = hand[w] /\ lease'[w] = lease[w]
          BY <3>8, <4>3, ConsumerLeaseStep DEF Working
        <5> QED BY <3>8, <4>1, <5>1 DEF LeaseInv, LeaseExclusive
      <4> QED BY <4>2, <4>3
    <3>9. LeaseExclusive'
      <4>1. ASSUME NEW u \in Consumer, NEW v \in Consumer, u # v, Working(u)',
                   Working(v)', hand'[u].cmd = hand'[v].cmd
            PROVE  lease'[u] # lease'[v]
        <5>1. CASE u = w \/ v = w
          BY <3>8, <4>1, <5>1
        <5>2. CASE u # w /\ v # w
          BY <3>4, <4>1, <5>2 DEF LeaseInv, LeaseExclusive, Working
        <5> QED BY <5>1, <5>2
      <4> QED BY <4>1 DEF LeaseExclusive
    <3> QED BY <3>7, <3>9
  <2> QED BY <2>8, <2>10, <2>11 DEF LeaseInv
<1> QED BY <1>2, <1>3

LEMMA LeaseStep == TypeOK /\ LeaseInv /\ [Next]_vars => LeaseInv'
  BY NextSteps, LeaseOutboxStep, LeaseConsumerStep, LeaseJobStep

LEMMA LeaseInvariant == Spec => [](TypeOK /\ LeaseInv)
<1>1. Init => TypeOK /\ LeaseInv
  BY TypeInit, LeaseInit
<1>2. TypeOK /\ LeaseInv /\ [Next]_vars => (TypeOK /\ LeaseInv)'
  BY TypeStep, LeaseStep
<1> QED BY <1>1, <1>2, PTL DEF Spec

(* No job is leased more often than max_attempts allows, and only one that  *)
(* used every attempt is dead-lettered, although claimJob never reads       *)
(* max_attempts and deadLetter's UPDATE is guarded by the job id alone.     *)
THEOREM AttemptsAreBounded == Spec => []AttemptsBounded
<1>1. LeaseInv => AttemptsBounded
  BY DEF LeaseInv
<1> QED BY <1>1, LeaseInvariant, PTL

(* Two consumers working on one job hold different claim tokens, so the     *)
(* guarded UPDATEs of completeJob and failJob let at most one of them act.  *)
THEOREM LeasesAreExclusive == Spec => []LeaseExclusive
<1>1. LeaseInv => LeaseExclusive
  BY DEF LeaseInv
<1> QED BY <1>1, LeaseInvariant, PTL
-----------------------------------------------------------------------------
(* Verdicts. *)

(* What any step does to the row of one job: nothing the row's life cycle   *)
(* sees, or one move along it.                                              *)
Move(old, new) ==
  \/ new.status = old.status /\ new.attempts = old.attempts
  \/ /\ old.status = "absent"
     /\ new.status = "queued"
     /\ new.attempts = old.attempts
  \/ /\ old.status \in {"queued", "retrying"}
     /\ new.status = "running"
     /\ new.attempts = old.attempts + 1
  \/ /\ old.status = "running"
     /\ new.status \in {"completed", "retrying"}
     /\ new.attempts = old.attempts
  \/ /\ old.attempts = MaxAttempts
     /\ new.status = "dead_lettered"
     /\ new.attempts = old.attempts

LEMMA JobMoves ==
  ASSUME TypeOK, LeaseInv, JobStep, NEW x \in Command
  PROVE  Move(jobs[x], jobs'[x])
<1>1. \A c \in Command : jobs[c] \in JobRow
  BY DEF TypeOK, JobTypes
<1>2. CASE \E c \in Command : LeaseExpires(c) \/ RetryDelayEnds(c)
  BY <1>1, <1>2 DEF LeaseExpires, RetryDelayEnds, Move, JobRow, TypeOK, JobTypes
<1>3. CASE UNCHANGED jobs
  BY <1>3 DEF Move
<1>4. ASSUME NEW p \in Repairer, RepairWrite(p)
      PROVE  Move(jobs[x], jobs'[x])
  <2> DEFINE c == repair[p].cmd
  <2>1. c \in Command /\ jobs[c] \in JobRow
    BY <1>1 DEF TypeOK, RepairTypes, RepairState
  <2>2. /\ repair[p].token \in 1..jobs[c].attempts
        /\ jobs[c].attempts <= MaxAttempts
    BY <1>4, <2>1 DEF RepairWrite, LeaseInv, RepairShape, AttemptsBounded
  <2>3. jobs \in [Command -> JobRow]
    BY DEF TypeOK, JobTypes
  <2>4. CASE repair[p].token >= MaxAttempts
    <3>1. jobs' = [jobs EXCEPT ![c] = Buried(jobs[c])]
      BY <1>4, <2>4 DEF RepairWrite, DeadLetter
    <3>2. jobs[c].attempts = MaxAttempts
      <4> DEFINE used  == jobs[c].attempts
                 token == repair[p].token
      <4>1. used \in Nat /\ token \in 1..used /\ used <= MaxAttempts
            /\ token >= MaxAttempts
        BY <2>1, <2>2, <2>4 DEF JobRow
      <4> HIDE DEF used, token, c
      <4>2. used = MaxAttempts
        BY <4>1, MaxAttemptsAssumption
      <4> QED BY <4>2 DEF used
    <3> HIDE DEF c
    <3> QED BY <2>1, <2>3, <3>1, <3>2, BuriedRow DEF Move
  <2>5. CASE ~(repair[p].token >= MaxAttempts)
    <3>1. \/ jobs' = jobs
          \/ /\ jobs' = [jobs EXCEPT ![c] = Deferred(jobs[c])]
             /\ jobs[c].status = "running"
      BY <1>4, <2>5 DEF RepairWrite, SameLease
    <3> HIDE DEF c
    <3> QED BY <2>1, <2>3, <3>1, DeferredRow DEF Move
  <2> QED BY <2>4, <2>5
<1> QED
  BY <1>2, <1>3, <1>4 DEF JobStep, Repair, RepairRead, RepairCrash

LEMMA Moves ==
  ASSUME TypeOK, LeaseInv, [Next]_vars, NEW x \in Command
  PROVE  Move(jobs[x], jobs'[x])
<1>1. CASE OutboxStep \/ UNCHANGED vars
  <2>1. UNCHANGED jobs
    BY <1>1 DEF OutboxStep, vars, Commit, ClaimExpires, ClaimOverrun,
       Expire, Dispatch, DispatchClaim, DispatchSend, DispatchMark,
       DispatchRelease, CloseClaim, DispatchCrash
  <2> QED BY <2>1 DEF Move
<1>2. ASSUME NEW w \in Consumer, ConsumerStep(w), pc[w] = "idle"
      PROVE  Move(jobs[x], jobs'[x])
  <2>1. UNCHANGED jobs
    BY <1>2 DEF ConsumerStep, Consume, Receive, Enqueue, Check, Claim,
       ClaimRefused, ExecuteOk, Throw, StoreObject, Complete, CompleteUnseen,
       Confirm, FailRead, Defer, Bury, ConsumerCrash
  <2> QED BY <2>1 DEF Move
<1>3. ASSUME NEW w \in Consumer, ConsumerStep(w), pc[w] # "idle"
      PROVE  Move(jobs[x], jobs'[x])
  <2>1. CASE x # hand[w].cmd
    BY <1>3, <2>1, ConsumerRowStep DEF Move
  <2>2. CASE x = hand[w].cmd
    <3>1. RowStep(w, x)
      BY <1>3, <2>2, ConsumerRowStep
    <3>2. pc[w] = "bury" => jobs[x].attempts = MaxAttempts
      BY <2>2 DEF LeaseInv, WorkerShape
    <3> QED BY <3>1, <3>2 DEF RowStep, Core, Move
  <2> QED BY <2>1, <2>2
<1> QED BY <1>1, <1>2, <1>3, NextSteps, JobMoves

LEMMA SettledStep ==
  TypeOK /\ LeaseInv /\ [Next]_vars
    => \A c \in Command : Terminal(c) => Terminal(c)'
  BY Moves DEF Move, Terminal

(* A job that is completed or dead-lettered never becomes runnable again,   *)
(* although repairExpiredLeases and failJob write after stale reads.        *)
THEOREM VerdictsLast == Spec => SettledStaysSettled
<1>1. TypeOK /\ LeaseInv /\ [Next]_vars
        => [\A c \in Command : Terminal(c) => Terminal(c)']_vars
  BY SettledStep
<1> QED BY <1>1, LeaseInvariant, PTL DEF Spec, SettledStaysSettled
-----------------------------------------------------------------------------
(* A command is never lost on the way. *)

\* The step leaves the job of c settled.
Settles(c) == jobs'[c].status \in {"completed", "dead_lettered"}

(* What a consumer's step does with its message: it keeps it, takes one     *)
(* from the queue, returns it, parks it, or forgets it because the job is   *)
(* settled.                                                                 *)
LEMMA MessageStep ==
  ASSUME TypeOK, NEW w \in Consumer, ConsumerStep(w)
  PROVE  /\ \A v \in Consumer : v # w => pc'[v] = pc[v] /\ hand'[v] = hand[v]
         /\ parked \subseteq parked'
         /\ \/ /\ pc[w] # "idle"
               /\ pc'[w] # "idle"
               /\ hand'[w] = hand[w]
               /\ UNCHANGED queue
            \/ \E m \in queue : /\ pc[w] = "idle"
                                /\ pc'[w] # "idle"
                                /\ hand'[w] = m
                                /\ queue' = queue \ {m}
            \/ /\ pc[w] # "idle"
               /\ pc'[w] = "idle"
               /\ queue \subseteq queue'
               /\ \A m \in queue' : m \in queue \/ m.cmd = hand[w].cmd
               /\ \/ \E m \in queue' : m.cmd = hand[w].cmd
                  \/ hand[w].cmd \in parked'
                  \/ Settles(hand[w].cmd)
<1>1. /\ pc \in [Consumer -> Steps]
      /\ hand \in [Consumer -> Message \union {NoMessage}]
  BY DEF TypeOK, ConsumerTypes
<1>2. ASSUME Retry(w), pc[w] # "idle"
      PROVE  /\ queue \subseteq queue' /\ parked \subseteq parked'
             /\ \A m \in queue' : m \in queue \/ m.cmd = hand[w].cmd
             /\ \/ \E m \in queue' : m.cmd = hand[w].cmd
                \/ hand[w].cmd \in parked'
  <2> DEFINE back == [hand[w] EXCEPT !.tries = @ + 1]
  <2>1. back.cmd = hand[w].cmd
    BY <1>2, HandIsMessage DEF TypeOK
  <2> HIDE DEF back
  <2> QED BY <1>2, <2>1 DEF Retry, back
<1>3. ASSUME Idle(w)
      PROVE  /\ \A v \in Consumer : v # w => pc'[v] = pc[v] /\ hand'[v] = hand[v]
             /\ pc'[w] = "idle"
  BY <1>1, <1>3 DEF Idle
<1>4. ASSUME NEW step \in Steps, Goto(w, step)
      PROVE  /\ \A v \in Consumer : v # w => pc'[v] = pc[v] /\ hand'[v] = hand[v]
             /\ pc'[w] = step
             /\ UNCHANGED <<queue, parked, hand>>
  BY <1>1, <1>4 DEF Goto
<1>5. CASE \E m \in queue : Receive(w, m)
  BY <1>1, <1>5 DEF Receive
<1>6. CASE Claim(w) \/ \E r \in Result : ExecuteOk(w, r)
  BY <1>1, <1>6 DEF Claim, ExecuteOk
<1>7. CASE pc[w] # "idle" /\ Retry(w)
  BY <1>2, <1>3, <1>7 DEF Retry
<1>8. CASE \E step \in Steps \ {"idle"} : pc[w] # "idle" /\ Goto(w, step)
  BY <1>4, <1>8
<1>9. CASE pc[w] # "idle" /\ Ack(w) /\ Settles(hand[w].cmd)
  BY <1>3, <1>9 DEF Ack
<1>10. CASE Check(w)
  <2>1. UNCHANGED jobs
    BY <1>10 DEF Check
  <2>2. CASE Terminal(hand[w].cmd)
    BY <1>9, <1>10, <2>1, <2>2 DEF Check, Terminal, Settles
  <2>3. CASE ~Terminal(hand[w].cmd)
    BY <1>8, <1>10, <2>3 DEF Check
  <2> QED BY <2>2, <2>3
<1>11. CASE Confirm(w)
  <2>1. UNCHANGED jobs
    BY <1>11 DEF Confirm
  <2>2. CASE Ack(w)
    <3>1. pc[w] # "idle" /\ (Terminal(hand[w].cmd) \/ Goto(w, "failRead"))
      BY <1>11 DEF Confirm, Terminal
    <3>2. CASE Terminal(hand[w].cmd)
      BY <1>9, <2>1, <2>2, <3>1, <3>2 DEF Terminal, Settles
    <3> QED BY <1>8, <3>1, <3>2
  <2>3. CASE ~Ack(w)
    BY <1>8, <1>11, <2>3 DEF Confirm
  <2> QED BY <2>2, <2>3
<1>12. CASE Complete(w)
  <2>1. pc[w] # "idle" /\ hand[w].cmd \in Command /\ answer[w] \in Result
    BY <1>12, HandIsMessage DEF Complete, TypeOK, ConsumerTypes
  <2>2. HoldsLease(w) => Settles(hand[w].cmd)
    <3> DEFINE c == hand[w].cmd
    <3>1. jobs \in [Command -> JobRow] /\ jobs[c] \in JobRow
      BY <2>1 DEF TypeOK, JobTypes
    <3>2. HoldsLease(w) => jobs' = [jobs EXCEPT ![c] = Completed(jobs[c], answer[w])]
      BY <1>12 DEF Complete, CompleteBatch
    <3> QED BY <2>1, <3>1, <3>2, CompletedRow DEF Settles
  <2> QED BY <1>8, <1>9, <1>12, <2>1, <2>2 DEF Complete
<1>13. CASE Bury(w)
  <2>1. pc[w] # "idle" /\ hand[w].cmd \in Command
    BY <1>13, HandIsMessage DEF Bury, TypeOK
  <2>2. Settles(hand[w].cmd)
    <3> DEFINE c == hand[w].cmd
    <3>1. jobs \in [Command -> JobRow] /\ jobs[c] \in JobRow
      BY <2>1 DEF TypeOK, JobTypes
    <3>2. jobs' = [jobs EXCEPT ![c] = Buried(jobs[c])]
      BY <1>13 DEF Bury, DeadLetter
    <3> QED BY <2>1, <3>1, <3>2, BuriedRow DEF Settles
  <2> QED BY <1>9, <1>13, <2>1, <2>2 DEF Bury
<1> QED
  BY <1>5, <1>6, <1>7, <1>8, <1>10, <1>11, <1>12, <1>13
     DEF ConsumerStep, Consume, Enqueue, ClaimRefused, Throw, StoreObject,
         CompleteUnseen, FailRead, Defer, ConsumerCrash

LEMMA DeliveredStep ==
  ASSUME TypeOK, LeaseInv, [Next]_vars, NEW c \in Command, Delivered(c)
  PROVE  Delivered(c)'
<1>1. Terminal(c) => Terminal(c)'
  BY SettledStep
<1>2. CASE OutboxStep
  <2>1. queue \subseteq queue' /\ UNCHANGED <<parked, pc, hand>>
    BY <1>2 DEF OutboxStep, Commit, ClaimExpires, ClaimOverrun,
       Expire, Dispatch, DispatchClaim, DispatchSend, DispatchMark,
       DispatchRelease, CloseClaim, DispatchCrash, consumerVars
  <2> QED BY <1>1, <2>1 DEF Delivered, InHand
<1>3. CASE JobStep \/ UNCHANGED vars
  <2>1. UNCHANGED <<queue, parked, pc, hand>>
    BY <1>3 DEF JobStep, LeaseExpires, RetryDelayEnds, Repair, RepairRead,
       RepairWrite, RepairCrash, consumerVars, vars
  <2> QED BY <1>1, <2>1 DEF Delivered, InHand
<1>4. ASSUME NEW w \in Consumer, ConsumerStep(w)
      PROVE  Delivered(c)'
  <2>1. CASE Terminal(c)
    BY <1>1, <2>1 DEF Delivered
  <2>2. CASE c \in parked
    BY <1>4, <2>2, MessageStep DEF Delivered
  <2>3. CASE \E v \in Consumer : v # w /\ InHand(v, c)
    BY <1>4, <2>3, MessageStep DEF Delivered, InHand
  <2>4. CASE InHand(w, c)
    BY <1>4, <2>4, MessageStep DEF Delivered, InHand, Settles, Terminal
  <2>5. CASE \E m \in queue : m.cmd = c
    BY <1>4, <2>5, MessageStep DEF Delivered, InHand
  <2> QED BY <2>1, <2>2, <2>3, <2>4, <2>5 DEF Delivered
<1> QED BY <1>2, <1>3, <1>4, NextSteps

LEMMA CarriedStep == TypeOK /\ LeaseInv /\ Carried /\ [Next]_vars => Carried'
<1> SUFFICES ASSUME TypeOK, LeaseInv, Carried, [Next]_vars PROVE Carried'
  OBVIOUS
<1>1. \A c \in Command : Delivered(c) => Delivered(c)'
  BY DeliveredStep
<1>2. /\ outbox \in [Command -> OutboxRow]
      /\ dispatcher \in [Dispatcher -> DispatchState]
  BY DEF TypeOK, OutboxTypes
<1>3. \A d \in Dispatcher : dispatcher[d].cmd \in Command
  BY <1>2
<1>4. CASE UNCHANGED outboxVars
  BY <1>1, <1>3, <1>4 DEF Carried, outboxVars
<1>5. ASSUME NEW c \in Command, Commit(c) \/ Expire(c)
      PROVE  Carried'
  BY <1>1, <1>2, <1>3, <1>5 DEF Commit, Expire, Carried
<1>6. ASSUME NEW d \in Dispatcher, NEW c \in Command, DispatchClaim(d, c)
      PROVE  Carried'
  BY <1>1, <1>2, <1>3, <1>6 DEF DispatchClaim, Carried
<1>7. ASSUME NEW d \in Dispatcher, DispatchSend(d)
      PROVE  Carried'
  <2>1. Delivered(dispatcher[d].cmd)'
    <3>1. dispatcher'[d].cmd = dispatcher[d].cmd
      BY <1>2, <1>7 DEF DispatchSend
    <3>2. \E m \in queue' : m.cmd = dispatcher[d].cmd
      <4> DEFINE sent == [cmd |-> dispatcher[d].cmd,
                          send |-> dispatcher[d].token, tries |-> 0]
      <4>1. sent \in queue'
        BY <1>7 DEF DispatchSend
      <4>2. sent.cmd = dispatcher[d].cmd
        OBVIOUS
      <4> QED BY <4>1, <4>2
    <3> QED BY <3>1, <3>2 DEF Delivered
  <2>2. /\ UNCHANGED outbox
        /\ \A e \in Dispatcher : /\ dispatcher'[e].cmd = dispatcher[e].cmd
                                 /\ e # d => dispatcher'[e] = dispatcher[e]
    BY <1>2, <1>7 DEF DispatchSend
  <2> QED BY <1>1, <1>3, <2>1, <2>2 DEF Carried
<1>8. ASSUME NEW d \in Dispatcher, DispatchMark(d) \/ DispatchRelease(d)
                                   \/ DispatchCrash(d)
      PROVE  Carried'
  <2>1. \A e \in Dispatcher : \/ dispatcher'[e] = dispatcher[e]
                               \/ dispatcher'[e].at = "idle"
    BY <1>2, <1>8 DEF DispatchMark, DispatchRelease, DispatchCrash,
       CloseClaim, NoDispatch
  <2>2. \A c \in Command : outbox'[c].state = "sent" =>
          \/ outbox[c].state = "sent"
          \/ dispatcher[d].at = "delivered" /\ dispatcher[d].cmd = c
    BY <1>2, <1>3, <1>8 DEF DispatchMark, DispatchRelease, DispatchCrash,
       CloseClaim
  <2> QED BY <1>1, <1>3, <2>1, <2>2 DEF Carried
<1> QED
  BY <1>4, <1>5, <1>6, <1>7, <1>8, NextSteps
     DEF OutboxStep, ClaimExpires, ClaimOverrun, Dispatch, JobStep,
         LeaseExpires, RetryDelayEnds, Repair, RepairRead, RepairWrite,
         RepairCrash, ConsumerStep, Consume, Receive, Enqueue, Check, Claim,
         ClaimRefused, ExecuteOk, Throw, StoreObject, Complete,
         CompleteUnseen, Confirm, FailRead, Defer, Bury, ConsumerCrash, vars,
         outboxVars

(* Until its job is settled, a committed command is in an outbox row that   *)
(* will be dispatched again, in the queue, in a consumer's hands or in the  *)
(* queue's dead-letter queue, whichever invocations die.                    *)
THEOREM CommandsAreCarried == Spec => []CommandCarried
<1>1. Init => Carried
  BY DEF Init, Carried, NoDispatch
<1>2. TypeOK /\ LeaseInv /\ Carried /\ [Next]_vars => Carried'
  BY CarriedStep
<1>3. Carried => CommandCarried
  BY DEF Carried, CommandCarried, Delivered
<1> QED BY <1>1, <1>2, <1>3, LeaseInvariant, PTL DEF Spec
-----------------------------------------------------------------------------
(* Results. *)

LEMMA ResultJobStep ==
  ASSUME TypeOK, JobStep, NEW x \in Command, jobs'[x].status = "completed"
  PROVE  jobs[x].status = "completed" /\ jobs'[x].result = jobs[x].result
<1>1. jobs \in [Command -> JobRow] /\ \A c \in Command : jobs[c] \in JobRow
  BY DEF TypeOK, JobTypes
<1>2. CASE \E c \in Command : LeaseExpires(c) \/ RetryDelayEnds(c)
  BY <1>1, <1>2 DEF LeaseExpires, RetryDelayEnds, JobRow
<1>3. CASE UNCHANGED jobs
  BY <1>3
<1>4. ASSUME NEW p \in Repairer, RepairWrite(p)
      PROVE  jobs'[x] = jobs[x]
  <2> DEFINE c == repair[p].cmd
  <2>1. c \in Command /\ jobs[c] \in JobRow
    BY <1>1 DEF TypeOK, RepairTypes, RepairState
  <2>2. \/ jobs' = [jobs EXCEPT ![c] = Buried(jobs[c])]
        \/ jobs' = [jobs EXCEPT ![c] = Deferred(jobs[c])]
        \/ jobs' = jobs
    BY <1>4 DEF RepairWrite, DeadLetter
  <2> HIDE DEF c
  <2> QED BY <1>1, <2>1, <2>2, BuriedRow, DeferredRow
<1> QED BY <1>2, <1>3, <1>4 DEF JobStep, Repair, RepairRead, RepairCrash

(* A consumer's step either completes a job, in completeJob's batch, or     *)
(* leaves every completed row and every manifest as it is.                  *)
LEMMA ResultRowStep ==
  ASSUME TypeOK, LeaseInv, NEW w \in Consumer, ConsumerStep(w),
         NEW x \in Command
  PROVE  \/ /\ pc[w] = "commit"
            /\ x = hand[w].cmd
            /\ CompleteBatch(w)
         \/ /\ manifests'[x] = manifests[x]
            /\ jobs'[x].status = "completed" =>
                 jobs[x].status = "completed" /\ jobs'[x].result = jobs[x].result
<1>1. jobs \in [Command -> JobRow]
      /\ manifests \in [Command -> Result \union {NoResult}]
  BY DEF TypeOK, JobTypes
<1>2. jobs[x] \in JobRow
  BY <1>1
<1>3. CASE Complete(w) \/ CompleteUnseen(w)
  <2>1. pc[w] = "commit" /\ CompleteBatch(w)
    BY <1>3 DEF Complete, CompleteUnseen
  <2>2. CASE x # hand[w].cmd
    <3>1. manifests'[x] = manifests[x] /\ jobs'[x] = jobs[x]
      BY <1>1, <2>1, <2>2 DEF CompleteBatch
    <3> QED BY <3>1
  <2> QED BY <2>1, <2>2
<1>4. CASE Enqueue(w)
  BY <1>1, <1>2, <1>4 DEF Enqueue, resultVars, JobRow
<1>5. CASE Claim(w)
  <2> DEFINE c == hand[w].cmd
  <2>1. /\ jobs' = [jobs EXCEPT ![c] = Leased(jobs[c])]
        /\ UNCHANGED manifests
    BY <1>5 DEF Claim, resultVars
  <2> HIDE DEF c
  <2> QED BY <1>1, <1>2, <2>1, LeasedRow
<1>6. CASE Defer(w)
  <2> DEFINE c == hand[w].cmd
  <2>1. /\ jobs' = [jobs EXCEPT ![c] = Deferred(jobs[c])] \/ jobs' = jobs
        /\ UNCHANGED manifests
    BY <1>6 DEF Defer, resultVars
  <2> HIDE DEF c
  <2> QED BY <1>1, <1>2, <2>1, DeferredRow
<1>7. CASE Bury(w)
  <2> DEFINE c == hand[w].cmd
  <2>1. /\ jobs' = [jobs EXCEPT ![c] = Buried(jobs[c])]
        /\ UNCHANGED manifests
    BY <1>7 DEF Bury, DeadLetter, resultVars
  <2> HIDE DEF c
  <2> QED BY <1>1, <1>2, <2>1, BuriedRow
<1>8. CASE UNCHANGED <<jobs, manifests>>
  BY <1>8
<1> QED
  BY <1>3, <1>4, <1>5, <1>6, <1>7, <1>8
     DEF ConsumerStep, Consume, Receive, Check, ClaimRefused, ExecuteOk, Throw,
         StoreObject, Confirm, FailRead, ConsumerCrash, resultVars

LEMMA BatchResult ==
  ASSUME TypeOK, ResultShape, NEW w \in Consumer, pc[w] = "commit",
         CompleteBatch(w), NEW x \in Command, x = hand[w].cmd
  PROVE  /\ manifests'[x] # NoResult
         /\ <<x, manifests'[x]>> \in objects
         /\ jobs'[x].status = "completed" => jobs'[x].result # NoResult
<1>1. /\ jobs \in [Command -> JobRow]
      /\ jobs[x] \in JobRow
      /\ manifests \in [Command -> Result \union {NoResult}]
      /\ answer[w] \in Result
  BY DEF TypeOK, JobTypes, ConsumerTypes
<1>2. <<x, answer[w]>> \in objects
  BY DEF ResultShape
<1>3. manifests'[x] = IF manifests[x] = NoResult THEN answer[w] ELSE manifests[x]
  BY <1>1 DEF CompleteBatch
<1>4. \/ jobs' = [jobs EXCEPT ![x] = Completed(jobs[x], answer[w])]
      \/ jobs' = jobs
  BY DEF CompleteBatch
<1>5. jobs'[x].status = "completed" => jobs'[x].result # NoResult
  BY <1>1, <1>4, CompletedRow, NoResultAssumption DEF ResultShape
<1>6. manifests[x] # NoResult => <<x, manifests[x]>> \in objects
  BY DEF ResultShape
<1> QED BY <1>1, <1>2, <1>3, <1>5, <1>6, NoResultAssumption

LEMMA ResultStep ==
  ASSUME TypeOK, LeaseInv, ResultShape, [Next]_vars
  PROVE  ResultShape'
<1>1. CASE OutboxStep \/ UNCHANGED vars
  <2>1. UNCHANGED <<jobs, manifests, objects, pc, hand, answer>>
    BY <1>1 DEF OutboxStep, vars, consumerVars, resultVars, Commit,
       ClaimExpires, ClaimOverrun, Expire, Dispatch, DispatchClaim,
       DispatchSend, DispatchMark, DispatchRelease, CloseClaim, DispatchCrash
  <2> QED BY <2>1 DEF ResultShape
<1>2. CASE JobStep
  <2>1. UNCHANGED <<manifests, objects, pc, hand, answer>>
    BY <1>2 DEF JobStep, LeaseExpires, RetryDelayEnds, Repair, RepairRead,
       RepairWrite, RepairCrash, consumerVars, resultVars
  <2> QED BY <1>2, <2>1, ResultJobStep DEF ResultShape
<1>3. ASSUME NEW w \in Consumer, ConsumerStep(w)
      PROVE  ResultShape'
  <2>1. objects \subseteq objects'
    BY <1>3 DEF ConsumerStep, Consume, Receive, Enqueue, Check, Claim,
       ClaimRefused, ExecuteOk, Throw, StoreObject, Complete, CompleteUnseen,
       Confirm, FailRead, Defer, Bury, ConsumerCrash, resultVars
  <2>2. ASSUME NEW x \in Command
        PROVE  /\ manifests'[x] # NoResult => <<x, manifests'[x]>> \in objects'
               /\ jobs'[x].status = "completed" =>
                    jobs'[x].result # NoResult /\ manifests'[x] # NoResult
    <3>1. CASE pc[w] = "commit" /\ x = hand[w].cmd /\ CompleteBatch(w)
      BY <2>1, <3>1, BatchResult
    <3>2. CASE /\ manifests'[x] = manifests[x]
               /\ jobs'[x].status = "completed" =>
                    jobs[x].status = "completed" /\ jobs'[x].result = jobs[x].result
      BY <2>1, <3>2 DEF ResultShape
    <3> QED BY <1>3, <3>1, <3>2, ResultRowStep
  <2>3. \A v \in Consumer :
          pc'[v] = "commit" => <<hand'[v].cmd, answer'[v]>> \in objects'
    <3>1. /\ pc \in [Consumer -> Steps]
          /\ hand \in [Consumer -> Message \union {NoMessage}]
          /\ answer \in [Consumer -> Result \union {NoResult}]
      BY DEF TypeOK, ConsumerTypes
    <3>2. CASE StoreObject(w)
      BY <2>1, <3>1, <3>2 DEF StoreObject, Goto, ResultShape
    <3>3. CASE \E m \in queue : Receive(w, m)
      BY <2>1, <3>1, <3>3 DEF Receive, ResultShape
    <3>4. CASE Claim(w) \/ \E r \in Result : ExecuteOk(w, r)
      BY <2>1, <3>1, <3>4 DEF Claim, ExecuteOk, ResultShape
    <3>5. CASE Idle(w)
      BY <2>1, <3>1, <3>5 DEF Idle, ResultShape
    <3>6. CASE \E step \in Steps \ {"commit"} : Goto(w, step)
      BY <2>1, <3>1, <3>6 DEF Goto, ResultShape
    <3> QED
      BY <1>3, <3>2, <3>3, <3>4, <3>5, <3>6
         DEF ConsumerStep, Consume, Enqueue, Check, ClaimRefused, Throw,
             Complete, CompleteUnseen, Confirm, FailRead, Defer, Bury,
             ConsumerCrash, Ack, Retry
  <2> QED BY <2>2, <2>3 DEF ResultShape
<1> QED BY <1>1, <1>2, <1>3, NextSteps

LEMMA ResultInvariant == Spec => []ResultShape
<1>1. Init => ResultShape
  BY DEF Init, ResultShape
<1>2. TypeOK /\ LeaseInv /\ ResultShape /\ [Next]_vars => ResultShape'
  BY ResultStep
<1> QED BY <1>1, <1>2, LeaseInvariant, PTL DEF Spec

(* A completed job has a manifest row, and the object that row names is in  *)
(* R2, whichever consumer completed it and however often it was leased.     *)
THEOREM CompletedJobsHaveObjects == Spec => []CompletedHasObject
<1>1. TypeOK /\ ResultShape => CompletedHasObject
  BY DEF ResultShape, CompletedHasObject
<1> QED BY <1>1, TypeCorrect, ResultInvariant, PTL
-----------------------------------------------------------------------------
(* The job store implements the delivery contract. *)

LEMMA SubmittedStep ==
  ASSUME TypeOK, LeaseInv, Submitted, [Next]_vars
  PROVE  Submitted'
<1> SUFFICES ASSUME NEW c \in Command, outbox'[c].state = "absent"
             PROVE  /\ \A d \in Dispatcher :
                         dispatcher'[d].at # "idle" => dispatcher'[d].cmd # c
                    /\ \A m \in queue' : m.cmd # c
                    /\ \A w \in Consumer : ~InHand(w, c)'
                    /\ jobs'[c].status = "absent"
  BY DEF Submitted
<1>1. /\ outbox \in [Command -> OutboxRow]
      /\ dispatcher \in [Dispatcher -> DispatchState]
      /\ jobs \in [Command -> JobRow]
  BY DEF TypeOK, OutboxTypes, JobTypes
<1>2. outbox[c].state = "absent"
      => /\ \A d \in Dispatcher : dispatcher[d].at # "idle" => dispatcher[d].cmd # c
         /\ \A m \in queue : m.cmd # c
         /\ \A w \in Consumer : ~InHand(w, c)
         /\ jobs[c].status = "absent"
  BY DEF Submitted
<1>3. ASSUME UNCHANGED outboxVars
      PROVE  /\ \A d \in Dispatcher :
                  dispatcher'[d].at # "idle" => dispatcher'[d].cmd # c
             /\ \A m \in queue : m.cmd # c
             /\ \A w \in Consumer : ~InHand(w, c)
             /\ jobs[c].status = "absent"
  BY <1>2, <1>3 DEF outboxVars
<1>4. CASE OutboxStep
  <2>1. UNCHANGED <<jobs, pc, hand>>
    BY <1>4 DEF OutboxStep, Commit, ClaimExpires, ClaimOverrun,
       Expire, Dispatch, DispatchClaim, DispatchSend, DispatchMark,
       DispatchRelease, CloseClaim, DispatchCrash, consumerVars
  <2>2. outbox[c].state = "absent"
        /\ \A d \in Dispatcher : dispatcher'[d].at # "idle" => dispatcher'[d].cmd # c
    <3>1. ASSUME NEW x \in Command, Commit(x) \/ Expire(x)
          PROVE  outbox[c].state = "absent" /\ UNCHANGED dispatcher
      BY <1>1, <3>1 DEF Commit, Expire
    <3>2. ASSUME NEW d \in Dispatcher, NEW x \in Command, DispatchClaim(d, x)
          PROVE  /\ outbox[c].state = "absent"
                 /\ \A e \in Dispatcher : dispatcher'[e] = dispatcher[e]
                                         \/ dispatcher'[e].cmd # c
      BY <1>1, <3>2 DEF DispatchClaim, Claimable
    <3>3. ASSUME NEW d \in Dispatcher, DispatchSend(d)
          PROVE  /\ outbox[c].state = "absent"
                 /\ \A e \in Dispatcher :
                      dispatcher'[e].cmd = dispatcher[e].cmd
                      /\ (dispatcher'[e].at # "idle" => dispatcher[e].at # "idle")
      BY <1>1, <3>3 DEF DispatchSend
    <3>4. ASSUME NEW d \in Dispatcher, NEW s \in {"sent", "unsent"},
                 CloseClaim(d, s)
          PROVE  /\ outbox[c].state = "absent"
                 /\ \A e \in Dispatcher : dispatcher'[e] = dispatcher[e]
                                         \/ dispatcher'[e].at = "idle"
      BY <1>1, <3>4 DEF CloseClaim, NoDispatch
    <3>5. ASSUME NEW d \in Dispatcher, DispatchCrash(d)
          PROVE  /\ outbox[c].state = "absent"
                 /\ \A e \in Dispatcher : dispatcher'[e] = dispatcher[e]
                                         \/ dispatcher'[e].at = "idle"
      BY <1>1, <3>5 DEF DispatchCrash, NoDispatch
    <3> QED
      BY <1>2, <1>4, <3>1, <3>2, <3>3, <3>4, <3>5
         DEF OutboxStep, ClaimExpires, ClaimOverrun, Dispatch, DispatchMark,
             DispatchRelease
  <2>3. \A m \in queue' : m.cmd # c
    <3>1. CASE \E d \in Dispatcher : DispatchSend(d)
      BY <1>2, <2>2, <3>1 DEF DispatchSend
    <3>2. CASE UNCHANGED queue
      BY <1>2, <2>2, <3>2
    <3> QED
      BY <1>4, <3>1, <3>2 DEF OutboxStep, Commit, ClaimExpires, ClaimOverrun,
         Expire, Dispatch, DispatchClaim, DispatchMark, DispatchRelease,
         CloseClaim, DispatchCrash
  <2> QED BY <1>2, <2>1, <2>2, <2>3 DEF InHand
<1>5. CASE JobStep
  <2>1. UNCHANGED <<outbox, dispatcher, queue, pc, hand>>
    BY <1>5 DEF JobStep, LeaseExpires, RetryDelayEnds, Repair, RepairRead,
       RepairWrite, RepairCrash, outboxVars, consumerVars
  <2>2. jobs[c].status = "absent" /\ jobs[c].attempts = 0
    BY <1>2, <2>1 DEF LeaseInv, JobShape
  <2>3. Move(jobs[c], jobs'[c])
    BY <1>5, JobMoves
  <2>4. jobs'[c] = jobs[c]
    <3>1. CASE \E x \in Command : LeaseExpires(x) \/ RetryDelayEnds(x)
      BY <1>1, <2>2, <3>1 DEF LeaseExpires, RetryDelayEnds
    <3>2. ASSUME NEW p \in Repairer, RepairWrite(p) PROVE jobs'[c] = jobs[c]
      <4>1. repair[p].token \in 1..jobs[repair[p].cmd].attempts
        BY <3>2 DEF RepairWrite, LeaseInv, RepairShape
      <4>2. repair[p].cmd # c
        BY <2>2, <4>1
      <4> QED BY <1>1, <3>2, <4>2 DEF RepairWrite, DeadLetter
    <3> QED BY <1>5, <3>1, <3>2 DEF JobStep, Repair, RepairRead, RepairCrash
  <2> QED BY <1>2, <2>1, <2>2, <2>4 DEF InHand
<1>6. ASSUME NEW w \in Consumer, ConsumerStep(w)
      PROVE  /\ \A d \in Dispatcher :
                  dispatcher'[d].at # "idle" => dispatcher'[d].cmd # c
             /\ \A m \in queue' : m.cmd # c
             /\ \A v \in Consumer : ~InHand(v, c)'
             /\ jobs'[c].status = "absent"
  <2>1. UNCHANGED outboxVars
    BY <1>6 DEF ConsumerStep, Consume, Receive, Enqueue, Check, Claim,
       ClaimRefused, ExecuteOk, Throw, StoreObject, Complete, CompleteUnseen,
       Confirm, FailRead, Defer, Bury, ConsumerCrash
  <2>2. jobs'[c].status = "absent"
    <3>1. CASE pc[w] = "idle"
      BY <1>3, <1>6, <2>1, <3>1 DEF ConsumerStep, Consume, Receive, Enqueue,
         Check, Claim, ClaimRefused, ExecuteOk, Throw, StoreObject, Complete,
         CompleteUnseen, Confirm, FailRead, Defer, Bury, ConsumerCrash
    <3>2. CASE pc[w] # "idle"
      BY <1>3, <1>6, <2>1, <3>2, ConsumerRowStep DEF InHand
    <3> QED BY <3>1, <3>2
  <2>3. \A v \in Consumer : v # w => ~InHand(v, c)'
    BY <1>3, <1>6, <2>1, MessageStep DEF InHand
  <2>4. ~InHand(w, c)' /\ \A m \in queue' : m.cmd # c
    BY <1>3, <1>6, <2>1, MessageStep DEF InHand
  <2> QED BY <1>3, <2>1, <2>2, <2>3, <2>4
<1>7. CASE UNCHANGED vars
  BY <1>2, <1>7 DEF vars, consumerVars, outboxVars, InHand
<1> QED BY <1>4, <1>5, <1>6, <1>7, NextSteps

LEMMA SubmittedInvariant == Spec => []Submitted
<1>1. Init => Submitted
  BY DEF Init, Submitted, NoDispatch, InHand
<1>2. TypeOK /\ LeaseInv /\ Submitted /\ [Next]_vars => Submitted'
  BY SubmittedStep
<1> QED BY <1>1, <1>2, LeaseInvariant, PTL DEF Spec

(* A step commits a command, or moves the row of at most one job.           *)
LEMMA OneRow ==
  ASSUME TypeOK, LeaseInv, Submitted, [Next]_vars
  PROVE  \/ \E c \in Command : Commit(c)
         \/ /\ \A x \in Command :
                 outbox'[x].state = "absent" <=> outbox[x].state = "absent"
            /\ \E c \in Command :
                 \A x \in Command \ {c} : /\ jobs'[x].status = jobs[x].status
                                         /\ jobs'[x].attempts = jobs[x].attempts
<1>1. /\ outbox \in [Command -> OutboxRow]
      /\ dispatcher \in [Dispatcher -> DispatchState]
      /\ jobs \in [Command -> JobRow]
  BY DEF TypeOK, OutboxTypes, JobTypes
<1>2. CASE OutboxStep
  <2>1. UNCHANGED jobs
    BY <1>2 DEF OutboxStep, Commit, ClaimExpires, ClaimOverrun, Expire,
       Dispatch, DispatchClaim, DispatchSend, DispatchMark, DispatchRelease,
       CloseClaim, DispatchCrash
  <2>2. ASSUME NEW c \in Command, Expire(c)
        PROVE  \A x \in Command :
                 outbox'[x].state = "absent" <=> outbox[x].state = "absent"
    BY <1>1, <2>2 DEF Expire
  <2>3. ASSUME NEW d \in Dispatcher, NEW c \in Command, DispatchClaim(d, c)
        PROVE  \A x \in Command :
                 outbox'[x].state = "absent" <=> outbox[x].state = "absent"
    BY <1>1, <2>3 DEF DispatchClaim, Claimable
  <2>4. ASSUME NEW d \in Dispatcher, NEW s \in {"sent", "unsent"},
               CloseClaim(d, s)
        PROVE  \A x \in Command :
                 outbox'[x].state = "absent" <=> outbox[x].state = "absent"
    BY <1>1, <2>4 DEF CloseClaim, HoldsClaim
  <2> QED
    BY <1>2, <2>1, <2>2, <2>3, <2>4, CommandAssumption
       DEF OutboxStep, ClaimExpires, ClaimOverrun, Dispatch, DispatchSend,
           DispatchMark, DispatchRelease, DispatchCrash
<1>3. CASE JobStep
  <2>1. UNCHANGED outbox
    BY <1>3 DEF JobStep, LeaseExpires, RetryDelayEnds, Repair, RepairRead,
       RepairWrite, RepairCrash, outboxVars
  <2>2. ASSUME NEW c \in Command, LeaseExpires(c) \/ RetryDelayEnds(c)
        PROVE  \A x \in Command \ {c} : jobs'[x] = jobs[x]
    BY <1>1, <2>2 DEF LeaseExpires, RetryDelayEnds
  <2>3. ASSUME NEW p \in Repairer, Repair(p) \/ RepairCrash(p)
        PROVE  /\ repair[p].cmd \in Command
               /\ \A x \in Command \ {repair[p].cmd} : jobs'[x] = jobs[x]
    <3>1. repair[p].cmd \in Command
      BY DEF TypeOK, RepairTypes, RepairState
    <3> QED BY <1>1, <2>3, <3>1 DEF Repair, RepairRead, RepairWrite,
            RepairCrash, DeadLetter
  <2> QED BY <1>3, <2>1, <2>2, <2>3 DEF JobStep
<1>4. ASSUME NEW w \in Consumer, ConsumerStep(w)
      PROVE  /\ UNCHANGED outbox
             /\ \E c \in Command : \A x \in Command \ {c} : jobs'[x] = jobs[x]
  <2>1. UNCHANGED outbox
    BY <1>4 DEF ConsumerStep, Consume, Receive, Enqueue, Check, Claim,
       ClaimRefused, ExecuteOk, Throw, StoreObject, Complete, CompleteUnseen,
       Confirm, FailRead, Defer, Bury, ConsumerCrash, outboxVars
  <2>2. CASE pc[w] = "idle"
    <3>1. UNCHANGED jobs
      BY <1>4, <2>2 DEF ConsumerStep, Consume, Receive, Enqueue, Check, Claim,
         ClaimRefused, ExecuteOk, Throw, StoreObject, Complete,
         CompleteUnseen, Confirm, FailRead, Defer, Bury, ConsumerCrash
    <3> QED BY <2>1, <3>1, CommandAssumption
  <2>3. CASE pc[w] # "idle"
    <3>1. hand[w].cmd \in Command
      BY <2>3, HandIsMessage DEF TypeOK
    <3> QED BY <1>4, <2>1, <2>3, <3>1, ConsumerRowStep
  <2> QED BY <2>2, <2>3
<1>5. CASE UNCHANGED vars
  BY <1>5, CommandAssumption DEF vars
<1> QED BY <1>2, <1>3, <1>4, <1>5, NextSteps

LEMMA DeliveryInit == Init => Delivery!Init
  BY DEF Init, Delivery!Init, PhaseOf

LEMMA DeliveryStep ==
  ASSUME TypeOK, LeaseInv, LeaseInv', Submitted, Submitted', [Next]_vars
  PROVE  [Delivery!Next]_<<[c \in Command |-> PhaseOf(c)],
                           [c \in Command |-> jobs[c].attempts]>>
<1> DEFINE Ph == [c \in Command |-> PhaseOf(c)]
           Rn == [c \in Command |-> jobs[c].attempts]
<1>1. \A x \in Command : jobs[x] \in JobRow
  BY DEF TypeOK, JobTypes
<1>2. CASE \E c \in Command : Commit(c)
  <2>1. PICK c \in Command : Commit(c)
    BY <1>2
  <2>2. UNCHANGED jobs /\ outbox[c].state = "absent" /\ jobs[c].status = "absent"
        /\ outbox' = [outbox EXCEPT ![c].state = "unsent"]
    BY <2>1 DEF Commit, Submitted
  <2>3. /\ outbox'[c].state = "unsent"
        /\ \A x \in Command \ {c} : outbox'[x] = outbox[x]
    BY <2>2 DEF TypeOK, OutboxTypes
  <2>4. /\ PhaseOf(c) = "none"
        /\ PhaseOf(c)' = "pending"
        /\ \A x \in Command \ {c} : PhaseOf(x)' = PhaseOf(x)
    BY <2>2, <2>3 DEF PhaseOf
  <2>5. Ph' = [Ph EXCEPT ![c] = "pending"] /\ Rn' = Rn
    BY <2>2, <2>4
  <2>6. Delivery!Submit(c)
    BY <2>4, <2>5 DEF Delivery!Submit
  <2> QED BY <2>6 DEF Delivery!Next
<1>3. CASE ~\E c \in Command : Commit(c)
  <2>1. \A x \in Command :
          outbox'[x].state = "absent" <=> outbox[x].state = "absent"
    BY <1>3, OneRow
  <2>2. PICK c \in Command :
          \A x \in Command \ {c} : /\ jobs'[x].status = jobs[x].status
                                  /\ jobs'[x].attempts = jobs[x].attempts
    BY <1>3, OneRow
  <2>3. \A x \in Command \ {c} : /\ PhaseOf(x)' = PhaseOf(x)
                                /\ jobs'[x].attempts = jobs[x].attempts
    BY <2>1, <2>2 DEF PhaseOf
  <2>4. Move(jobs[c], jobs'[c])
    BY Moves
  <2>5. /\ jobs[c].attempts \in Nat
        /\ jobs'[c].attempts <= MaxAttempts
        /\ jobs[c].status = "running" => jobs[c].attempts # 0
        /\ outbox[c].state = "absent" =>
             jobs[c].status = "absent" /\ jobs'[c].status = "absent"
    BY <1>1, <2>1 DEF LeaseInv, AttemptsBounded, JobShape, Submitted, JobRow
  <2>6. CASE /\ PhaseOf(c)' = PhaseOf(c)
             /\ jobs'[c].attempts = jobs[c].attempts
    <3>1. Ph' = Ph /\ Rn' = Rn
      BY <2>3, <2>6
    <3> QED BY <3>1
  <2>7. CASE /\ outbox[c].state # "absent"
             /\ jobs[c].status \in {"queued", "retrying"}
             /\ jobs'[c].status = "running"
             /\ jobs'[c].attempts = jobs[c].attempts + 1
    <3>1. /\ PhaseOf(c) = "pending"
          /\ PhaseOf(c)' = "pending"
          /\ jobs[c].attempts < MaxAttempts
      BY <2>1, <2>5, <2>7, MaxAttemptsAssumption DEF PhaseOf
    <3>2. Ph' = Ph /\ Rn' = [Rn EXCEPT ![c] = @ + 1]
      BY <2>3, <2>7, <3>1
    <3>3. Delivery!Run(c)
      BY <3>1, <3>2 DEF Delivery!Run
    <3> QED BY <3>3 DEF Delivery!Next
  <2>8. CASE /\ outbox[c].state # "absent"
             /\ jobs[c].status = "running"
             /\ jobs'[c].status = "completed"
             /\ jobs'[c].attempts = jobs[c].attempts
    <3>1. /\ PhaseOf(c) = "pending"
          /\ PhaseOf(c)' = "done"
          /\ jobs[c].attempts > 0
      BY <2>1, <2>5, <2>8 DEF PhaseOf
    <3>2. Ph' = [Ph EXCEPT ![c] = "done"] /\ Rn' = Rn
      BY <2>3, <2>8, <3>1
    <3>3. Delivery!Succeed(c)
      BY <3>1, <3>2 DEF Delivery!Succeed
    <3> QED BY <3>3 DEF Delivery!Next
  <2>9. CASE /\ outbox[c].state # "absent"
             /\ jobs[c].status # "dead_lettered"
             /\ jobs'[c].status = "dead_lettered"
             /\ jobs[c].attempts = MaxAttempts
             /\ jobs'[c].attempts = jobs[c].attempts
    <3>1. /\ PhaseOf(c) \in {"pending", "done"}
          /\ PhaseOf(c)' = "dead"
      BY <2>1, <2>9 DEF PhaseOf
    <3>2. Ph' = [Ph EXCEPT ![c] = "dead"] /\ Rn' = Rn
      BY <2>3, <2>9, <3>1
    <3>3. Delivery!GiveUp(c)
      BY <2>9, <3>1, <3>2 DEF Delivery!GiveUp
    <3> QED BY <3>3 DEF Delivery!Next
  <2>10. \/ PhaseOf(c)' = PhaseOf(c) /\ jobs'[c].attempts = jobs[c].attempts
         \/ /\ outbox[c].state # "absent"
            /\ \/ /\ jobs[c].status \in {"queued", "retrying"}
                  /\ jobs'[c].status = "running"
                  /\ jobs'[c].attempts = jobs[c].attempts + 1
               \/ /\ jobs[c].status = "running"
                  /\ jobs'[c].status = "completed"
                  /\ jobs'[c].attempts = jobs[c].attempts
               \/ /\ jobs[c].status # "dead_lettered"
                  /\ jobs'[c].status = "dead_lettered"
                  /\ jobs[c].attempts = MaxAttempts
                  /\ jobs'[c].attempts = jobs[c].attempts
    BY <2>1, <2>4, <2>5 DEF Move, PhaseOf
  <2> QED BY <2>6, <2>7, <2>8, <2>9, <2>10
<1> QED BY <1>2, <1>3

(* Seen through the phase of each command and its number of leases, the job *)
(* store behaves as CommandDelivery says: outbox, queue, leases and repair  *)
(* pass together never run a command too often or give it up too early.     *)
THEOREM ImplementsDelivery == Spec => DeliveryContract
<1>1. TypeOK /\ LeaseInv /\ LeaseInv' /\ Submitted /\ Submitted' /\ [Next]_vars
        => [Delivery!Next]_<<[c \in Command |-> PhaseOf(c)],
                             [c \in Command |-> jobs[c].attempts]>>
  BY DeliveryStep
<1> QED
  BY <1>1, DeliveryInit, LeaseInvariant, SubmittedInvariant, PTL
     DEF Spec, DeliveryContract, Delivery!Spec
=============================================================================

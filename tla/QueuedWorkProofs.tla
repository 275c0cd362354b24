--------------------------- MODULE QueuedWorkProofs ---------------------------
(* Theorems about the work the object sends itself: the historical backfill   *)
(* (Backfill), the research cohorts (ResearchCohort), and both side by side   *)
(* (MCQueuedWork).                                                            *)
EXTENDS MCQueuedWork, FiniteSetTheorems, TLAPS

-----------------------------------------------------------------------------
(* Backfill: what the rows, the copies and the requests may hold.             *)
JobRow == [status: {"none", "queued", "running", "complete", "failed"}, version: Versions \cup {None}]

SavedBackfills(sealed) == [id: Backfills \cup {None}, dataset: sealed \cup {None}]
HeldBackfills(sealed) == [id: Backfills, dataset: sealed \cup {None}]

StartSteps == {"saveStart", "send"}
WorkSteps == {"claim", "fetch", "mark", "sync", "list", "seal", "save", "saveFailed"}

StartRequests(sealed) == [step: StartSteps, copy: HeldBackfills(sealed)]
WorkRequests(sealed, written) ==
  [step: WorkSteps, job: Jobs, copy: HeldBackfills(sealed), attempt: BOOLEAN, parts: SUBSET written]
RequestsOf(sealed, written) ==
  {Waiting} \cup StartRequests(sealed) \cup WorkRequests(sealed, written)

(* A complete job names a partition that was written, a request that is about *)
(* to mark its job holds a partition of that job, and every copy names a      *)
(* dataset that was sealed.                                                   *)
BackfillTyped ==
  /\ jobRows \in [Jobs -> JobRow]
  /\ \A j \in Jobs : jobRows[j].status = "complete" =>
       [job |-> j, version |-> jobRows[j].version] \in partitions
  /\ partitions \in SUBSET Partition
  /\ \A m \in manifests : m.bounds \in Backfills /\ m.parts \subseteq partitions
  /\ backfill \in SavedBackfills(manifests)
  /\ request \in [Handlers -> RequestsOf(manifests, partitions)]
  /\ \A h \in Handlers : request[h].step = "mark" => \A p \in request[h].parts : p.job = request[h].job
  /\ overlapped \in BOOLEAN

(* Every message was sent by a start, and is in at most one request's hands   *)
(* for each time it is in the queue.                                          *)
Sending == {h \in Handlers : request[h].step \in StartSteps}

MessagesCounted ==
  /\ starts \in 0..MaxStarts
  /\ messages \in [Jobs -> Nat]
  /\ \A j \in Jobs : /\ Cardinality(InHand(j)) <= messages[j]
                     /\ messages[j] + Cardinality(Sending) <= starts

(* Unless a complete job was marked again meanwhile, the jobs that a request   *)
(* has counted are complete when it lists their partitions, and the list has   *)
(* one partition of each of them and no other.                                 *)
Whole(parts, f) ==
  /\ \A j \in JobsOf(f) : \E p \in parts : p.job = j /\ \A q \in parts : q.job = j => q = p
  /\ \A p \in parts : p.job \in JobsOf(f)

CompleteIn(rows, f) == \A j \in JobsOf(f) : rows[j].status = "complete"

InOrder(r, rows) ==
  /\ r.step = "list" => CompleteIn(rows, r.job[1])
  /\ r.step = "seal" => Whole(r.parts, r.job[1])

SealedInOrder ==
  reopened \/
    /\ \A h \in Handlers : InOrder(request[h], jobRows)
    /\ \A m \in manifests : \E f \in Backfills : Whole(m.parts, f)

LEMMA JobShape ==
  /\ \A j \in Jobs : j[1] \in Backfills /\ j \in JobsOf(j[1])
  /\ \A f \in Backfills : JobsOf(f) \subseteq Jobs
BY DEF Jobs, JobsOf

(* A request's step tells what it holds.                                      *)
LEMMA StepTells ==
  ASSUME BackfillTyped, NEW h \in Handlers
  PROVE  /\ request[h] = Waiting <=> request[h].step = "waiting"
         /\ request[h].step \in StartSteps <=> request[h] \in StartRequests(manifests)
         /\ request[h].step \in WorkSteps <=> request[h] \in WorkRequests(manifests, partitions)
         /\ request[h].step \in {"waiting"} \cup StartSteps \cup WorkSteps
         /\ StartSteps \cap WorkSteps = {} /\ "waiting" \notin StartSteps \cup WorkSteps
<1>1. request[h] \in RequestsOf(manifests, partitions)
  BY DEF BackfillTyped
<1> QED
  BY <1>1 DEF RequestsOf, StartRequests, WorkRequests, Waiting, StartSteps, WorkSteps

(* The deliveries of a job in hand are the requests at work on it.            *)
HandsTold ==
  \A j \in Jobs :
    /\ InHand(j) \subseteq Handlers
    /\ \A h \in Handlers : h \in InHand(j) <=> request[h].step \in WorkSteps /\ request[h].job = j

LEMMA InHandIsAtWork == BackfillTyped => HandsTold
<1> SUFFICES ASSUME BackfillTyped PROVE HandsTold
  OBVIOUS
<1>1. ASSUME NEW h \in Handlers
      PROVE  (request[h] # Waiting /\ "job" \in DOMAIN request[h]) <=> request[h].step \in WorkSteps
  <2>1. CASE request[h] = Waiting
    BY <2>1, StepTells
  <2>2. CASE request[h] \in StartRequests(manifests)
    <3>1. DOMAIN request[h] = {"step", "copy"}
      BY <2>2 DEF StartRequests
    <3> QED
      BY <2>2, <3>1, StepTells
  <2>3. CASE request[h] \in WorkRequests(manifests, partitions)
    <3>1. "job" \in DOMAIN request[h]
      BY <2>3 DEF WorkRequests
    <3> QED
      BY <2>3, <3>1, StepTells
  <2> QED
    BY <2>1, <2>2, <2>3 DEF BackfillTyped, RequestsOf
<1> QED
  BY <1>1 DEF InHand, HandsTold

LEMMA RequestsGrow ==
  ASSUME NEW sealed, NEW sealed2, NEW written, NEW written2,
         sealed \subseteq sealed2, written \subseteq written2
  PROVE  /\ RequestsOf(sealed, written) \subseteq RequestsOf(sealed2, written2)
         /\ SavedBackfills(sealed) \subseteq SavedBackfills(sealed2)
         /\ HeldBackfills(sealed) \subseteq HeldBackfills(sealed2)
BY DEF RequestsOf, StartRequests, WorkRequests, SavedBackfills, HeldBackfills

(* What a handler goes on with, beside what the others hold.                  *)
LEMMA BecomesTyped ==
  ASSUME BackfillTyped, NEW h \in Handlers, NEW r, Becomes(h, r),
         manifests \subseteq manifests', partitions \subseteq partitions',
         r \in RequestsOf(manifests', partitions'),
         r.step = "mark" => \A p \in r.parts : p.job = r.job
  PROVE  /\ request' \in [Handlers -> RequestsOf(manifests', partitions')]
         /\ \A g \in Handlers :
              request'[g].step = "mark" => \A p \in request'[g].parts : p.job = request'[g].job
         /\ overlapped' \in BOOLEAN
         /\ request'[h] = r /\ \A g \in Handlers : g # h => request'[g] = request[g]
<1>1. request \in [Handlers -> RequestsOf(manifests', partitions')]
  BY RequestsGrow DEF BackfillTyped
<1>2. request' = [request EXCEPT ![h] = r]
  BY DEF Becomes
<1>3. overlapped' \in BOOLEAN
  BY DEF Becomes, BackfillTyped
<1> QED
  BY <1>1, <1>2, <1>3 DEF BackfillTyped

(* A handler that goes on to another step of the same work.                   *)
LEMMA GotoTyped ==
  ASSUME BackfillTyped, NEW h \in Handlers, NEW to,
         \/ request[h].step \in StartSteps /\ to \in StartSteps
         \/ request[h].step \in WorkSteps /\ to \in WorkSteps \ {"mark"}
  PROVE  LET r == [request[h] EXCEPT !.step = to]
         IN /\ r \in RequestsOf(manifests, partitions) /\ r.step = to /\ r # Waiting
            /\ request[h].step \in WorkSteps => r.job = request[h].job /\ r.parts = request[h].parts
            /\ r.copy = request[h].copy
<1> DEFINE r == [request[h] EXCEPT !.step = to]
<1>1. CASE request[h].step \in StartSteps /\ to \in StartSteps
  <2>1. request[h] \in StartRequests(manifests)
    BY <1>1, StepTells
  <2>2. r \in StartRequests(manifests) /\ r.step = to /\ r.copy = request[h].copy
    BY <1>1, <2>1 DEF StartRequests
  <2> QED
    BY <1>1, <2>2, StepTells DEF RequestsOf, Waiting
<1>2. CASE request[h].step \in WorkSteps /\ to \in WorkSteps \ {"mark"}
  <2>1. request[h] \in WorkRequests(manifests, partitions)
    BY <1>2, StepTells
  <2>2. /\ r \in WorkRequests(manifests, partitions) /\ r.step = to
        /\ r.copy = request[h].copy /\ r.job = request[h].job /\ r.parts = request[h].parts
    BY <1>2, <2>1 DEF WorkRequests
  <2> QED
    BY <1>2, <2>2, StepTells DEF RequestsOf, Waiting
<1> QED
  BY <1>1, <1>2

(* The job rows that change keep naming partitions that were written.         *)
RowsTyped(rows, written) ==
  /\ rows \in [Jobs -> JobRow]
  /\ \A j \in Jobs : rows[j].status = "complete" => [job |-> j, version |-> rows[j].version] \in written

LEMMA RowStatus ==
  ASSUME RowsTyped(jobRows, partitions), NEW j \in Jobs, NEW s \in {"running", "failed"}
  PROVE  RowsTyped([jobRows EXCEPT ![j].status = s], partitions)
<1> DEFINE row == [jobRows[j] EXCEPT !.status = s]
<1>1. row \in JobRow /\ row.status = s
  BY DEF RowsTyped, JobRow
<1>2. [jobRows EXCEPT ![j].status = s] = [jobRows EXCEPT ![j] = row]
  BY DEF RowsTyped
<1> HIDE DEF row
<1> QED
  BY <1>1, <1>2 DEF RowsTyped

-----------------------------------------------------------------------------
(* The type invariant, action by action.                                      *)
LEMMA StartTyped ==
  ASSUME BackfillTyped, NEW h \in Handlers,
         (\E f \in Backfills : Start(h, f)) \/ SaveStart(h) \/ Send(h)
  PROVE  BackfillTyped'
<1>1. CASE \E f \in Backfills : Start(h, f)
  <2>1. PICK f \in Backfills : Start(h, f)
    BY <1>1
  <2> DEFINE r == [step |-> "saveStart", copy |-> Started(f)]
  <2>2. /\ Becomes(h, r) /\ jobRows' = Inserted(f)
        /\ UNCHANGED <<partitions, manifests, backfill>>
    BY <2>1 DEF Start
  <2>3. Started(f) \in HeldBackfills(manifests)
    BY DEF Started, HeldBackfills, SavedBackfills, BackfillTyped
  <2>4. r \in RequestsOf(manifests, partitions) /\ r.step = "saveStart"
    BY <2>3 DEF RequestsOf, StartRequests, StartSteps
  <2>5. ASSUME NEW j \in Jobs
        PROVE  /\ Inserted(f)[j] \in JobRow
               /\ Inserted(f)[j].status = "complete" => Inserted(f)[j] = jobRows[j]
    BY DEF Inserted, BackfillTyped, JobRow
  <2>6. Inserted(f) \in [Jobs -> JobRow]
    BY <2>5 DEF Inserted
  <2>7. RowsTyped(jobRows', partitions')
    BY <2>2, <2>5, <2>6 DEF RowsTyped, BackfillTyped
  <2> HIDE DEF r
  <2> QED
    BY <2>2, <2>4, <2>7, BecomesTyped DEF BackfillTyped, RowsTyped
<1>2. CASE SaveStart(h)
  <2> DEFINE r == [request[h] EXCEPT !.step = "send"]
  <2>1. /\ request[h].step \in StartSteps /\ Becomes(h, r) /\ backfill' = request[h].copy
        /\ UNCHANGED <<jobRows, partitions, manifests>>
    BY <1>2 DEF SaveStart, Goto, StartSteps
  <2>2. r \in RequestsOf(manifests, partitions) /\ r.step = "send"
    BY <2>1, GotoTyped DEF StartSteps
  <2>3. request[h].copy \in SavedBackfills(manifests)
    BY <2>1, StepTells DEF StartRequests, HeldBackfills, SavedBackfills
  <2> HIDE DEF r
  <2> QED
    BY <2>1, <2>2, <2>3, BecomesTyped DEF BackfillTyped
<1>3. CASE Send(h)
  <2>1. Becomes(h, Waiting) /\ UNCHANGED <<jobRows, partitions, manifests, backfill>>
    BY <1>3 DEF Send
  <2>2. Waiting \in RequestsOf(manifests, partitions) /\ Waiting.step # "mark"
    BY DEF RequestsOf, Waiting
  <2> QED
    BY <2>1, <2>2, BecomesTyped DEF BackfillTyped
<1> QED
  BY <1>1, <1>2, <1>3

LEMMA AttemptTyped ==
  ASSUME BackfillTyped, NEW h \in Handlers,
         (\E j \in Jobs : Receive(h, j)) \/ MarkRunning(h) \/ SavePartition(h) \/ MarkComplete(h)
  PROVE  BackfillTyped'
<1>1. CASE \E j \in Jobs : Receive(h, j)
  <2>1. PICK j \in Jobs : Receive(h, j)
    BY <1>1
  <2> DEFINE r == [step |-> IF Duplicate(j) THEN "sync" ELSE "claim", job |-> j,
                   copy |-> backfill, attempt |-> ~Duplicate(j), parts |-> {}]
  <2>2. /\ Becomes(h, r) /\ backfill.id # None
        /\ UNCHANGED <<jobRows, partitions, manifests, backfill>>
    BY <2>1 DEF Receive
  <2>3. backfill \in HeldBackfills(manifests)
    BY <2>2 DEF BackfillTyped, SavedBackfills, HeldBackfills
  <2>4. (~Duplicate(j)) \in BOOLEAN
    BY DEF Duplicate
  <2>5. r \in WorkRequests(manifests, partitions) /\ r.step # "mark"
    BY <2>3, <2>4 DEF WorkRequests, WorkSteps
  <2> HIDE DEF r
  <2> QED
    BY <2>2, <2>5, BecomesTyped DEF BackfillTyped, RequestsOf
<1>2. CASE MarkRunning(h)
  <2> DEFINE r == [request[h] EXCEPT !.step = "fetch"]
  <2>1. /\ request[h].step \in WorkSteps /\ Becomes(h, r)
        /\ jobRows' = [jobRows EXCEPT ![request[h].job].status = "running"]
        /\ UNCHANGED <<partitions, manifests, backfill>>
    BY <1>2 DEF MarkRunning, Mark, Goto, WorkSteps
  <2>2. r \in RequestsOf(manifests, partitions) /\ r.step = "fetch"
    BY <2>1, GotoTyped DEF WorkSteps
  <2>3. request[h].job \in Jobs
    BY <2>1, StepTells DEF WorkRequests
  <2>4. RowsTyped([jobRows EXCEPT ![request[h].job].status = "running"], partitions)
    BY <2>3, RowStatus DEF BackfillTyped, RowsTyped
  <2>5. RowsTyped(jobRows', partitions')
    BY <2>1, <2>4
  <2> HIDE DEF r
  <2> QED
    BY <2>1, <2>2, <2>5, BecomesTyped DEF BackfillTyped, RowsTyped
<1>3. CASE SavePartition(h)
  <2>1. PICK v \in Versions :
          /\ partitions' = partitions \cup {[job |-> request[h].job, version |-> v]}
          /\ Becomes(h, [request[h] EXCEPT !.step = "mark",
                           !.parts = {[job |-> request[h].job, version |-> v]}])
    BY <1>3 DEF SavePartition
  <2> DEFINE part == [job |-> request[h].job, version |-> v]
             r == [request[h] EXCEPT !.step = "mark", !.parts = {part}]
  <2>2. request[h] \in WorkRequests(manifests, partitions) /\ UNCHANGED <<jobRows, manifests, backfill>>
    BY <1>3, StepTells DEF SavePartition, WorkSteps
  <2>3. part \in Partition /\ part.job = request[h].job
    BY <2>2 DEF Partition, WorkRequests
  <2>4. part \in partitions' /\ partitions \subseteq partitions' /\ partitions' \in SUBSET Partition
    BY <2>1, <2>3 DEF BackfillTyped
  <2> HIDE DEF part
  <2>5. /\ r \in WorkRequests(manifests', partitions')
        /\ \A p \in r.parts : p.job = r.job
    BY <2>2, <2>3, <2>4 DEF WorkRequests, WorkSteps
  <2>6. Becomes(h, r)
    BY <2>1 DEF part
  <2> HIDE DEF r
  <2> QED
    BY <2>2, <2>4, <2>5, <2>6, BecomesTyped DEF BackfillTyped, RequestsOf
<1>4. CASE MarkComplete(h)
  <2> DEFINE r == [request[h] EXCEPT !.step = "sync"]
  <2>1. /\ request[h].step = "mark" /\ Becomes(h, r)
        /\ UNCHANGED <<partitions, manifests, backfill>>
    BY <1>4 DEF MarkComplete, Goto
  <2>2. PICK part \in request[h].parts :
          jobRows' = [jobRows EXCEPT ![part.job] = [status |-> "complete", version |-> part.version]]
    BY <1>4 DEF MarkComplete
  <2>3. request[h] \in WorkRequests(manifests, partitions)
    BY <2>1, StepTells DEF WorkSteps
  <2>4. part \in partitions /\ part \in Partition
    BY <2>3 DEF WorkRequests, BackfillTyped
  <2>5. /\ part.job \in Jobs /\ part.version \in Versions
        /\ part = [job |-> part.job, version |-> part.version]
    BY <2>4 DEF Partition
  <2>6. [status |-> "complete", version |-> part.version] \in JobRow
    BY <2>5 DEF JobRow
  <2>7. RowsTyped(jobRows', partitions')
    BY <2>1, <2>2, <2>4, <2>5, <2>6 DEF RowsTyped, BackfillTyped
  <2>8. r \in RequestsOf(manifests, partitions) /\ r.step = "sync"
    BY <2>1, GotoTyped DEF WorkSteps
  <2> HIDE DEF r
  <2> QED
    BY <2>1, <2>7, <2>8, BecomesTyped DEF BackfillTyped, RowsTyped
<1> QED
  BY <1>1, <1>2, <1>3, <1>4

LEMMA SealTyped ==
  ASSUME BackfillTyped, NEW h \in Handlers, Sync(h) \/ List(h) \/ Seal(h)
  PROVE  BackfillTyped'
<1>1. request[h] \in WorkRequests(manifests, partitions) /\ UNCHANGED <<jobRows, partitions, backfill>>
  BY StepTells DEF Sync, List, Seal, WorkSteps
<1>2. CASE Sync(h)
  <2>1. PICK to \in {"list", "save"} : Becomes(h, [request[h] EXCEPT !.step = to])
    BY <1>2 DEF Sync, Goto
  <2> DEFINE r == [request[h] EXCEPT !.step = to]
  <2>2. r \in RequestsOf(manifests, partitions) /\ r.step = to /\ UNCHANGED manifests
    BY <1>1, <1>2, StepTells, GotoTyped DEF WorkSteps, Sync
  <2> HIDE DEF r
  <2> QED
    BY <2>1, <2>2, <1>1, BecomesTyped DEF BackfillTyped, r
<1>3. CASE List(h)
  <2> DEFINE listed == Listed(request[h].job[1])
             r == [request[h] EXCEPT !.step = "seal", !.parts = listed]
  <2>1. Becomes(h, r) /\ UNCHANGED manifests
    BY <1>3 DEF List
  <2>2. listed \in SUBSET partitions
    BY DEF Listed
  <2> HIDE DEF listed
  <2>3. r \in WorkRequests(manifests, partitions) /\ r.step = "seal"
    BY <1>1, <2>2 DEF WorkRequests, WorkSteps
  <2> HIDE DEF r
  <2> QED
    BY <2>1, <2>3, <1>1, BecomesTyped DEF BackfillTyped, RequestsOf
<1>4. CASE Seal(h)
  <2> DEFINE m == [bounds |-> request[h].copy.id, parts |-> request[h].parts]
             r == [request[h] EXCEPT !.step = "save", !.copy.dataset = m]
  <2>1. manifests' = manifests \cup {m} /\ Becomes(h, r)
    BY <1>4 DEF Seal
  <2>2. m.bounds \in Backfills /\ m.parts \subseteq partitions
    BY <1>1 DEF WorkRequests, HeldBackfills
  <2> HIDE DEF m
  <2>3. /\ [request[h].copy EXCEPT !.dataset = m] \in HeldBackfills(manifests')
        /\ manifests \subseteq manifests'
    BY <1>1, <2>1 DEF WorkRequests, HeldBackfills
  <2>4. r = [request[h] EXCEPT !.step = "save", !.copy = [request[h].copy EXCEPT !.dataset = m]]
    BY <1>1 DEF WorkRequests
  <2>5. r \in WorkRequests(manifests', partitions') /\ r.step = "save"
    BY <1>1, <2>3, <2>4 DEF WorkRequests, WorkSteps
  <2> HIDE DEF r
  <2>6. backfill' \in SavedBackfills(manifests')
    BY <1>1, <2>3, RequestsGrow DEF BackfillTyped
  <2> QED
    BY <1>1, <2>1, <2>2, <2>3, <2>5, <2>6, BecomesTyped DEF BackfillTyped, RequestsOf
<1> QED
  BY <1>2, <1>3, <1>4

LEMMA EndTyped ==
  ASSUME BackfillTyped, NEW h \in Handlers,
         SaveAndAck(h) \/ SaveFailed(h) \/ Drops(h) \/ AckLost(h)
  PROVE  BackfillTyped'
<1>1. Becomes(h, Waiting) /\ UNCHANGED <<jobRows, partitions, manifests>>
  BY DEF SaveAndAck, SaveFailed, Drops, AckLost
<1>2. Waiting \in RequestsOf(manifests, partitions) /\ Waiting.step # "mark"
  BY DEF RequestsOf, Waiting
<1>3. backfill' \in SavedBackfills(manifests)
  <2>1. CASE backfill' = backfill
    BY <2>1 DEF BackfillTyped
  <2>2. CASE request[h].step \in WorkSteps /\ backfill' = request[h].copy
    BY <2>2, StepTells DEF WorkRequests, HeldBackfills, SavedBackfills
  <2> QED
    BY <2>1, <2>2 DEF SaveAndAck, SaveFailed, Drops, AckLost, WorkSteps
<1> QED
  BY <1>1, <1>2, <1>3, BecomesTyped DEF BackfillTyped

LEMMA FaultTyped ==
  ASSUME BackfillTyped,
         (\E h \in Handlers : Fails(h)) \/ RestartObject \/ UNCHANGED backfillVars
  PROVE  BackfillTyped'
<1>1. ASSUME NEW h \in Handlers, Fails(h) PROVE BackfillTyped'
  <2> DEFINE r == [request[h] EXCEPT !.step = "saveFailed"]
  <2>1. /\ request[h].step \in WorkSteps /\ Becomes(h, r)
        /\ jobRows' = [jobRows EXCEPT ![request[h].job].status = "failed"]
        /\ UNCHANGED <<partitions, manifests, backfill>>
    BY <1>1 DEF Fails, Mark, Goto, WorkSteps
  <2>2. r \in RequestsOf(manifests, partitions) /\ r.step = "saveFailed"
    BY <2>1, GotoTyped DEF WorkSteps
  <2>3. request[h].job \in Jobs
    BY <2>1, StepTells DEF WorkRequests
  <2>4. RowsTyped([jobRows EXCEPT ![request[h].job].status = "failed"], partitions)
    BY <2>3, RowStatus DEF BackfillTyped, RowsTyped
  <2>5. RowsTyped(jobRows', partitions')
    BY <2>1, <2>4
  <2> HIDE DEF r
  <2> QED
    BY <2>1, <2>2, <2>5, BecomesTyped DEF BackfillTyped, RowsTyped
<1>2. CASE RestartObject
  BY <1>2 DEF RestartObject, BackfillTyped, RequestsOf, Waiting
<1>3. CASE UNCHANGED backfillVars
  BY <1>3 DEF backfillVars, BackfillTyped
<1> QED
  BY <1>1, <1>2, <1>3

LEMMA BackfillTypedStep ==
  ASSUME BackfillTyped, [BackfillNext]_backfillVars
  PROVE  BackfillTyped'
BY StartTyped, AttemptTyped, SealTyped, EndTyped, FaultTyped DEF BackfillNext, Proceed

LEMMA BackfillTypedInit == BackfillInit => BackfillTyped
<1> SUFFICES ASSUME BackfillInit PROVE BackfillTyped
  OBVIOUS
<1>1. [status |-> "none", version |-> None] \in JobRow
  BY DEF JobRow
<1>2. jobRows \in [Jobs -> JobRow] /\ \A j \in Jobs : jobRows[j].status # "complete"
  BY <1>1 DEF BackfillInit
<1>3. backfill \in SavedBackfills(manifests)
  BY DEF BackfillInit, SavedBackfills
<1>4. request \in [Handlers -> RequestsOf(manifests, partitions)]
  BY DEF BackfillInit, RequestsOf
<1> QED
  BY <1>2, <1>3, <1>4 DEF BackfillTyped, BackfillInit, Waiting

-----------------------------------------------------------------------------
(* Messages.  A request that goes on with its work, or ends it, has no more   *)
(* in hand than before.                                                       *)
LEMMA HandsShrink ==
  ASSUME BackfillTyped, BackfillTyped', NEW h \in Handlers, NEW r, Becomes(h, r),
         \/ r = Waiting
         \/ request[h].step \in StartSteps /\ r.step \in StartSteps
         \/ request[h].step \in WorkSteps /\ r.step \in WorkSteps /\ r.job = request[h].job
  PROVE  Sending' \subseteq Sending /\ \A j \in Jobs : InHand(j)' \subseteq InHand(j)
<1>1. request'[h] = r /\ \A g \in Handlers : g # h => request'[g] = request[g]
  BY DEF Becomes, BackfillTyped
<1>2. HandsTold
  BY InHandIsAtWork
<1>3. HandsTold'
  BY InHandIsAtWork, PTL
<1>4. r.step \in StartSteps => request[h].step \in StartSteps
  BY StepTells DEF Waiting, StartSteps, WorkSteps
<1>5. r.step \in WorkSteps => request[h].step \in WorkSteps /\ r.job = request[h].job
  BY StepTells DEF Waiting, StartSteps, WorkSteps
<1> QED
  BY <1>1, <1>2, <1>3, <1>4, <1>5 DEF Sending, HandsTold

LEMMA HandsFinite ==
  /\ IsFiniteSet(Sending) /\ \A S \in SUBSET Sending : Cardinality(S) <= Cardinality(Sending)
  /\ Cardinality(Sending) \in Nat
  /\ \A j : /\ IsFiniteSet(InHand(j)) /\ Cardinality(InHand(j)) \in Nat
            /\ \A S \in SUBSET InHand(j) : /\ Cardinality(S) <= Cardinality(InHand(j))
                                           /\ Cardinality(S) \in Nat
<1>1. IsFiniteSet(Handlers) /\ Sending \subseteq Handlers /\ \A j : InHand(j) \subseteq Handlers
  BY BackfillAssumption DEF Sending, InHand
<1>2. IsFiniteSet(Sending) /\ \A j : IsFiniteSet(InHand(j))
  BY <1>1, FS_Subset
<1> QED
  BY <1>2, FS_Subset, FS_CardinalityType

LEMMA CountsKept ==
  ASSUME MessagesCounted, UNCHANGED <<messages, starts>>,
         Sending' \subseteq Sending, \A j \in Jobs : InHand(j)' \subseteq InHand(j)
  PROVE  MessagesCounted'
<1>1. Cardinality(Sending') \in Nat /\ Cardinality(Sending') <= Cardinality(Sending)
  BY HandsFinite, FS_Subset, FS_CardinalityType
<1>2. \A j \in Jobs : Cardinality(InHand(j)') \in Nat /\ Cardinality(InHand(j)') <= Cardinality(InHand(j))
  BY HandsFinite, FS_Subset, FS_CardinalityType
<1> QED
  BY <1>1, <1>2, HandsFinite, BackfillAssumption DEF MessagesCounted

(* A start is one more request that sends, and one more start.                *)
LEMMA StartCounts ==
  ASSUME MessagesCounted, BackfillTyped, BackfillTyped', NEW h \in Handlers, NEW f \in Backfills, Start(h, f)
  PROVE  MessagesCounted'
<1>1. /\ request[h] = Waiting /\ starts < MaxStarts /\ starts' = starts + 1 /\ messages' = messages
      /\ Becomes(h, [step |-> "saveStart", copy |-> Started(f)])
  BY DEF Start
<1>2. /\ request'[h] = [step |-> "saveStart", copy |-> Started(f)]
      /\ \A g \in Handlers : g # h => request'[g] = request[g]
  BY <1>1 DEF Becomes, BackfillTyped
<1>3. request'[h].step = "saveStart" /\ request[h].step = "waiting"
  BY <1>1, <1>2 DEF Waiting
<1>4. Sending' = Sending \cup {h} /\ h \notin Sending
  BY <1>2, <1>3 DEF Sending, StartSteps
<1>5. Cardinality(Sending') = Cardinality(Sending) + 1
  BY <1>4, HandsFinite, FS_AddElement
<1>6. HandsTold /\ HandsTold'
  BY InHandIsAtWork, PTL
<1>7. \A j \in Jobs : InHand(j)' = InHand(j)
  BY <1>2, <1>3, <1>6 DEF HandsTold, WorkSteps
<1> QED
  BY <1>1, <1>5, <1>7, HandsFinite, BackfillAssumption DEF MessagesCounted

(* The messages a request sends are those its start was counted for.          *)
LEMMA SendCounts ==
  ASSUME MessagesCounted, BackfillTyped, BackfillTyped', NEW h \in Handlers, Send(h)
  PROVE  MessagesCounted'
<1>1. request[h].step = "send" /\ Becomes(h, Waiting) /\ starts' = starts
  BY DEF Send
<1>2. messages' \in [Jobs -> Nat] /\ \A j \in Jobs : messages'[j] \in {messages[j], messages[j] + 1}
  <2>1. PICK sent : messages' = [j \in Jobs |-> IF j \in sent THEN messages[j] + 1 ELSE messages[j]]
    BY DEF Send
  <2> QED
    BY <2>1 DEF MessagesCounted
<1>3. request'[h] = Waiting /\ \A g \in Handlers : g # h => request'[g] = request[g]
  BY <1>1 DEF Becomes, BackfillTyped
<1>4. Sending' = Sending \ {h} /\ h \in Sending
  BY <1>1, <1>3 DEF Sending, StartSteps, Waiting
<1>5. Cardinality(Sending') = Cardinality(Sending) - 1
  BY <1>4, HandsFinite, FS_RemoveElement
<1>6. HandsTold /\ HandsTold'
  BY InHandIsAtWork, PTL
<1>7. \A j \in Jobs : InHand(j)' = InHand(j)
  BY <1>1, <1>3, <1>6 DEF HandsTold, WorkSteps, Waiting
<1> QED
  BY <1>1, <1>2, <1>5, <1>7, HandsFinite DEF MessagesCounted

(* A delivery is taken only when one is in the queue beside those in hand.    *)
LEMMA ReceiveCounts ==
  ASSUME MessagesCounted, BackfillTyped, BackfillTyped', NEW h \in Handlers, NEW j \in Jobs, Receive(h, j)
  PROVE  MessagesCounted'
<1> DEFINE r == [step |-> IF Duplicate(j) THEN "sync" ELSE "claim", job |-> j,
                 copy |-> backfill, attempt |-> ~Duplicate(j), parts |-> {}]
<1>1. /\ request[h] = Waiting /\ Becomes(h, r) /\ messages' = messages /\ starts' = starts
      /\ messages[j] > Cardinality(InHand(j))
  BY DEF Receive
<1>2. r.step \in WorkSteps /\ r.job = j
  BY DEF WorkSteps
<1> HIDE DEF r
<1>3. request'[h] = r /\ \A g \in Handlers : g # h => request'[g] = request[g]
  BY <1>1 DEF Becomes, BackfillTyped
<1>4. request[h].step \notin StartSteps \cup WorkSteps /\ r.step \notin StartSteps
  BY <1>1, <1>2, StepTells
<1>5. Sending' = Sending
  BY <1>3, <1>4 DEF Sending
<1>6. HandsTold /\ HandsTold'
  BY InHandIsAtWork, PTL
<1>7. InHand(j)' = InHand(j) \cup {h}
  BY <1>2, <1>3, <1>4, <1>6 DEF HandsTold
<1>8. \A k \in Jobs : k # j => InHand(k)' = InHand(k)
  <2> SUFFICES ASSUME NEW k \in Jobs, k # j PROVE InHand(k)' = InHand(k)
    OBVIOUS
  <2>1. \A g \in Handlers : g \in InHand(k)' <=> g \in InHand(k)
    BY <1>2, <1>3, <1>4, <1>6 DEF HandsTold
  <2> QED
    BY <2>1, <1>6 DEF HandsTold
<1> DEFINE I == InHand(j)
<1>a. IsFiniteSet(I) /\ Cardinality(I) \in Nat
  BY HandsFinite
<1> HIDE DEF I
<1>b. Cardinality(I \cup {h}) = Cardinality(I) \/ Cardinality(I \cup {h}) = Cardinality(I) + 1
  BY <1>a, FS_AddElement
<1>9. Cardinality(InHand(j)') <= Cardinality(InHand(j)) + 1
  BY <1>7, <1>a, <1>b DEF I
<1>10. Cardinality(InHand(j)') \in Nat
  BY <1>7, <1>a, <1>b DEF I
<1> QED
  BY <1>1, <1>5, <1>8, <1>9, <1>10, HandsFinite DEF MessagesCounted

(* What is acknowledged was in hand.                                          *)
LEMMA AckCounts ==
  ASSUME MessagesCounted, BackfillTyped, BackfillTyped', NEW h \in Handlers, SaveAndAck(h)
  PROVE  MessagesCounted'
<1>0. request[h].step \in WorkSteps
  BY DEF SaveAndAck, WorkSteps
<1>2. PICK j \in Jobs : j = request[h].job
  BY <1>0, StepTells DEF WorkRequests
<1>1. /\ request[h].step \in WorkSteps /\ Becomes(h, Waiting) /\ starts' = starts
      /\ messages' = [messages EXCEPT ![j] = @ - 1]
  BY <1>0, <1>2 DEF SaveAndAck
<1>3. request'[h] = Waiting /\ \A g \in Handlers : g # h => request'[g] = request[g]
  BY <1>1 DEF Becomes, BackfillTyped
<1>4. Waiting.step \notin StartSteps \cup WorkSteps
  BY DEF Waiting, StartSteps, WorkSteps
<1>5. Sending' = Sending
  BY <1>1, <1>3, <1>4, StepTells DEF Sending
<1>6. HandsTold /\ HandsTold'
  BY InHandIsAtWork, PTL
<1>7. InHand(j)' = InHand(j) \ {h} /\ h \in InHand(j)
  <2>1. \A g \in Handlers : g \in InHand(j)' <=> g \in InHand(j) /\ g # h
    BY <1>2, <1>3, <1>4, <1>6 DEF HandsTold
  <2>2. h \in InHand(j)
    BY <1>1, <1>2, <1>6 DEF HandsTold
  <2> QED
    BY <2>1, <2>2, <1>2, <1>6 DEF HandsTold
<1>8. \A k \in Jobs : k # j => InHand(k)' = InHand(k)
  <2> SUFFICES ASSUME NEW k \in Jobs, k # j PROVE InHand(k)' = InHand(k)
    OBVIOUS
  <2>1. h \notin InHand(k) /\ h \notin InHand(k)'
    BY <1>2, <1>3, <1>4, <1>6 DEF HandsTold
  <2>2. \A g \in Handlers : g \in InHand(k)' <=> g \in InHand(k)
    BY <2>1, <1>3, <1>6 DEF HandsTold
  <2> QED
    BY <2>2, <1>6 DEF HandsTold
<1>9. Cardinality(InHand(j)') = Cardinality(InHand(j)) - 1
  BY <1>7, HandsFinite, FS_RemoveElement
<1>10. Cardinality(InHand(j)') \in Nat
  BY <1>7, HandsFinite, FS_RemoveElement, FS_CardinalityType
<1>11. messages' \in [Jobs -> Nat] /\ messages'[j] = messages[j] - 1
       /\ \A k \in Jobs : k # j => messages'[k] = messages[k]
  BY <1>1, <1>2, <1>9, <1>10, HandsFinite DEF MessagesCounted
<1>12. \A k \in Jobs : /\ Cardinality(InHand(k)') <= messages'[k]
                        /\ messages'[k] + Cardinality(Sending') <= starts'
  <2> SUFFICES ASSUME NEW k \in Jobs
               PROVE  /\ Cardinality(InHand(k)') <= messages'[k]
                      /\ messages'[k] + Cardinality(Sending') <= starts'
    OBVIOUS
  <2>1. /\ Cardinality(InHand(k)) <= messages[k] /\ messages[k] + Cardinality(Sending) <= starts
        /\ starts \in Nat /\ messages[k] \in Nat
    BY DEF MessagesCounted
  <2>2. Cardinality(Sending') = Cardinality(Sending) /\ Cardinality(Sending) \in Nat
    BY <1>5, HandsFinite
  <2>3. CASE k = j
    BY <2>1, <2>2, <2>3, <1>1, <1>9, <1>10, <1>11, HandsFinite
  <2>4. CASE k # j
    BY <2>1, <2>2, <2>4, <1>1, <1>8, <1>11
  <2> QED
    BY <2>3, <2>4
<1> QED
  BY <1>1, <1>11, <1>12 DEF MessagesCounted

LEMMA CountedStep ==
  ASSUME MessagesCounted, BackfillTyped, BackfillTyped', [BackfillNext]_backfillVars
  PROVE  MessagesCounted'
<1>1. ASSUME NEW h \in Handlers, \E f \in Backfills : Start(h, f) PROVE MessagesCounted'
  BY <1>1, StartCounts
<1>2. ASSUME NEW h \in Handlers, Send(h) PROVE MessagesCounted'
  BY <1>2, SendCounts
<1>3. ASSUME NEW h \in Handlers, \E j \in Jobs : Receive(h, j) PROVE MessagesCounted'
  BY <1>3, ReceiveCounts
<1>4. ASSUME NEW h \in Handlers, SaveAndAck(h) PROVE MessagesCounted'
  BY <1>4, AckCounts
<1>5. ASSUME NEW h \in Handlers,
             \/ SaveStart(h) \/ MarkRunning(h) \/ MarkComplete(h) \/ Sync(h) \/ Fails(h)
      PROVE  MessagesCounted'
  <2>1. PICK to : /\ Becomes(h, [request[h] EXCEPT !.step = to])
                  /\ \/ request[h].step \in StartSteps /\ to \in StartSteps
                     \/ request[h].step \in WorkSteps /\ to \in WorkSteps \ {"mark"}
                  /\ UNCHANGED <<messages, starts>>
    BY <1>5 DEF SaveStart, MarkRunning, MarkComplete, Sync, Fails, Goto, StartSteps, WorkSteps
  <2> DEFINE r == [request[h] EXCEPT !.step = to]
  <2>2. r.step = to /\ (request[h].step \in WorkSteps => r.job = request[h].job)
    BY <2>1, GotoTyped
  <2> HIDE DEF r
  <2> QED
    BY <2>1, <2>2, HandsShrink, CountsKept DEF r
<1>6. ASSUME NEW h \in Handlers, SavePartition(h) \/ List(h) \/ Seal(h)
      PROVE  MessagesCounted'
  <2>1. /\ request[h] \in WorkRequests(manifests, partitions) /\ request[h].step \in WorkSteps
        /\ UNCHANGED <<messages, starts>>
    BY <1>6, StepTells DEF SavePartition, List, Seal, WorkSteps
  <2>2. PICK r : Becomes(h, r) /\ r.step \in WorkSteps /\ r.job = request[h].job
    <3>1. CASE SavePartition(h)
      <4>1. PICK parts : Becomes(h, [request[h] EXCEPT !.step = "mark", !.parts = parts])
        BY <3>1 DEF SavePartition
      <4> DEFINE r == [request[h] EXCEPT !.step = "mark", !.parts = parts]
      <4>2. r.step = "mark" /\ r.job = request[h].job
        BY <2>1 DEF WorkRequests
      <4> QED
        BY <4>1, <4>2 DEF WorkSteps
    <3>3. CASE List(h)
      <4> DEFINE parts == Listed(request[h].job[1])
                 r == [request[h] EXCEPT !.step = "seal", !.parts = parts]
      <4>1. Becomes(h, r)
        BY <3>3 DEF List
      <4> HIDE DEF parts
      <4>2. r.step = "seal" /\ r.job = request[h].job
        BY <2>1 DEF WorkRequests
      <4> HIDE DEF r
      <4> QED
        BY <4>1, <4>2 DEF WorkSteps
    <3>2. CASE Seal(h)
      <4>1. PICK m : Becomes(h, [request[h] EXCEPT !.step = "save", !.copy.dataset = m])
        BY <3>2 DEF Seal
      <4> DEFINE r == [request[h] EXCEPT !.step = "save", !.copy.dataset = m]
      <4>2. r.step = "save" /\ r.job = request[h].job
        BY <2>1 DEF WorkRequests
      <4> QED
        BY <4>1, <4>2 DEF WorkSteps
    <3> QED
      BY <1>6, <3>1, <3>2, <3>3
  <2> QED
    BY <2>1, <2>2, HandsShrink, CountsKept
<1>7. ASSUME NEW h \in Handlers, SaveFailed(h) \/ Drops(h) \/ AckLost(h) PROVE MessagesCounted'
  <2>1. Becomes(h, Waiting) /\ UNCHANGED <<messages, starts>>
    BY <1>7 DEF SaveFailed, Drops, AckLost
  <2> QED
    BY <2>1, HandsShrink, CountsKept
<1>8. CASE RestartObject
  <2>1. request' = [h \in Handlers |-> Waiting] /\ UNCHANGED <<messages, starts>>
    BY <1>8 DEF RestartObject
  <2>2. Sending' = {}
    BY <2>1 DEF Sending, Waiting, StartSteps
  <2>3. \A j : InHand(j)' = {}
    BY <2>1 DEF InHand
  <2> QED
    BY <2>1, <2>2, <2>3, CountsKept
<1>9. CASE UNCHANGED backfillVars
  <2>1. Sending' = Sending /\ \A j : InHand(j)' = InHand(j)
    BY <1>9 DEF backfillVars, Sending, InHand
  <2> QED
    BY <1>9, <2>1, CountsKept DEF backfillVars
<1> QED
  BY <1>1, <1>2, <1>3, <1>4, <1>5, <1>6, <1>7, <1>8, <1>9 DEF BackfillNext, Proceed

LEMMA CountedInit == BackfillInit => MessagesCounted
<1> SUFFICES ASSUME BackfillInit PROVE MessagesCounted
  OBVIOUS
<1>1. Sending = {} /\ \A j \in Jobs : InHand(j) = {}
  BY DEF BackfillInit, Sending, InHand, Waiting, StartSteps
<1> QED
  BY <1>1, FS_EmptySet, BackfillAssumption DEF BackfillInit, MessagesCounted

(* The rows, copies, messages and datasets of the backfill are well-formed,   *)
(* whatever requests overlap, fail or are restarted, and no job is queued     *)
(* more often than the backfill was started (BackfillTypeOK).                 *)
THEOREM BackfillWellFormed == BackfillSpec => []BackfillTypeOK
<1>1. BackfillInit => BackfillTyped /\ MessagesCounted
  BY BackfillTypedInit, CountedInit
<1>2. BackfillTyped /\ MessagesCounted /\ [BackfillNext]_backfillVars => (BackfillTyped /\ MessagesCounted)'
  BY BackfillTypedStep, CountedStep
<1>3. BackfillTyped /\ MessagesCounted => BackfillTypeOK
  <2> SUFFICES ASSUME BackfillTyped, MessagesCounted PROVE BackfillTypeOK
    OBVIOUS
  <2>1. \A j \in Jobs : messages[j] \in 0..MaxStarts
    BY HandsFinite, BackfillAssumption DEF MessagesCounted
  <2>2. backfill.id \in Backfills \cup {None} /\ backfill.dataset \in manifests \cup {None}
    BY DEF BackfillTyped, SavedBackfills
  <2> QED
    BY <2>1, <2>2 DEF BackfillTyped, BackfillTypeOK
<1> QED
  BY <1>1, <1>2, <1>3, PTL DEF BackfillSpec

-----------------------------------------------------------------------------
(* The dataset.  A request that has counted the jobs finds them complete when  *)
(* it lists their partitions, unless another one reopens a job.               *)
LEMMA OrderKept ==
  ASSUME BackfillTyped, SealedInOrder, NEW h \in Handlers, NEW r, Becomes(h, r),
         reopened => reopened',
         ~reopened' => /\ InOrder(r, jobRows')
                       /\ \A g \in Handlers \ {h} : InOrder(request[g], jobRows) => InOrder(request[g], jobRows')
                       /\ \A m \in manifests' : \E f \in Backfills : Whole(m.parts, f)
  PROVE  SealedInOrder'
<1>1. request'[h] = r /\ \A g \in Handlers : g # h => request'[g] = request[g]
  BY DEF Becomes, BackfillTyped
<1>2. ~reopened' => \A g \in Handlers : InOrder(request'[g], jobRows')
  BY <1>1 DEF SealedInOrder
<1> QED
  BY <1>2 DEF SealedInOrder

(* A request that is past its list, or has not come to it, is in order.        *)
LEMMA OrderIdle ==
  ASSUME NEW r, r.step \notin {"list", "seal"}
  PROVE  \A rows : InOrder(r, rows)
BY DEF InOrder

(* Jobs that were complete stay so while others start, complete theirs, or     *)
(* mark theirs without reopening one that was counted.                         *)
StayComplete(g) == InOrder(request[g], jobRows) => InOrder(request[g], jobRows')

LEMMA CompleteStays ==
  ASSUME BackfillTyped,
         \A j \in Jobs : jobRows[j].status = "complete" => jobRows'[j].status = "complete"
  PROVE  \A g \in Handlers : StayComplete(g)
<1>1. ASSUME NEW g \in Handlers, request[g].step = "list" PROVE request[g].job[1] \in Backfills
  BY <1>1, StepTells, JobShape DEF WorkRequests, WorkSteps
<1> QED
  BY <1>1, JobShape DEF StayComplete, InOrder, CompleteIn

LEMMA MarkStays ==
  ASSUME BackfillTyped, NEW h \in Handlers, request[h].step \in WorkSteps, NEW s, Mark(h, s), ~reopened'
  PROVE  \A g \in Handlers \ {h} : StayComplete(g)
<1> DEFINE j == request[h].job
<1>1. /\ j \in Jobs /\ jobRows \in [Jobs -> JobRow]
      /\ jobRows' = [jobRows EXCEPT ![j].status = s]
      /\ jobRows[j].status # "complete" \/ Counted(j[1]) \ {h} = {}
  BY StepTells DEF WorkRequests, BackfillTyped, Mark
<1>2. j \in JobsOf(j[1])
  BY <1>1, JobShape
<1> HIDE DEF j
<1>3. ASSUME NEW g \in Handlers \ {h}, request[g].step = "list", CompleteIn(jobRows, request[g].job[1])
      PROVE  CompleteIn(jobRows', request[g].job[1])
  <2>1. request[g].job[1] \in Backfills
    BY <1>3, StepTells, JobShape DEF WorkRequests, WorkSteps
  <2>2. request[g].job[1] # j[1]
    BY <1>1, <1>2, <1>3 DEF Counted, CompleteIn
  <2>3. j \notin JobsOf(request[g].job[1])
    BY <2>2 DEF JobsOf
  <2> QED
    BY <1>1, <1>3, <2>1, <2>3, JobShape DEF CompleteIn
<1> QED
  BY <1>3 DEF StayComplete, InOrder

(* When all jobs of a backfill are complete, the list has one partition each. *)
LEMMA ListedIsWhole ==
  ASSUME BackfillTyped, NEW f \in Backfills, CompleteIn(jobRows, f)
  PROVE  Whole(Listed(f), f)
<1>0. \A p \in Listed(f) : p.job \in JobsOf(f)
  BY DEF Listed
<1> SUFFICES ASSUME NEW j \in JobsOf(f)
             PROVE  \E p \in Listed(f) : p.job = j /\ \A q \in Listed(f) : q.job = j => q = p
  BY <1>0 DEF Whole
<1> DEFINE p == [job |-> j, version |-> jobRows[j].version]
<1>1. j \in Jobs /\ jobRows[j].status = "complete"
  BY JobShape DEF CompleteIn
<1>2. p \in partitions
  BY <1>1 DEF BackfillTyped
<1>3. p \in Listed(f) /\ p.job = j
  BY <1>1, <1>2 DEF Listed
<1>4. ASSUME NEW q \in Listed(f), q.job = j PROVE q = p
  <2>1. q \in Partition /\ q.version = jobRows[j].version
    BY <1>4 DEF Listed, BackfillTyped
  <2> QED
    BY <1>4, <2>1 DEF Partition
<1> HIDE DEF p
<1> QED
  BY <1>3, <1>4

LEMMA SealedStep ==
  ASSUME BackfillTyped, BackfillTyped', SealedInOrder, [BackfillNext]_backfillVars
  PROVE  SealedInOrder'
<1>0. ~reopened => /\ \A m \in manifests : \E f \in Backfills : Whole(m.parts, f)
                   /\ \A h \in Handlers : InOrder(request[h], jobRows)
  BY DEF SealedInOrder
<1>a. ASSUME NEW h \in Handlers, NEW r, Becomes(h, r), r.step \notin {"list", "seal"},
             \A j \in Jobs : jobRows[j].status = "complete" => jobRows'[j].status = "complete",
             UNCHANGED <<manifests, reopened>>
      PROVE  SealedInOrder'
  BY <1>0, <1>a, OrderKept, OrderIdle, CompleteStays DEF StayComplete
<1>1. ASSUME NEW h \in Handlers, \E f \in Backfills : Start(h, f) PROVE SealedInOrder'
  <2>1. PICK f \in Backfills : /\ Becomes(h, [step |-> "saveStart", copy |-> Started(f)])
                               /\ UNCHANGED <<manifests, reopened>> /\ jobRows' = Inserted(f)
    BY <1>1 DEF Start
  <2> DEFINE r == [step |-> "saveStart", copy |-> Started(f)]
  <2>2. r.step = "saveStart"
    OBVIOUS
  <2>3. \A j \in Jobs : jobRows[j].status = "complete" => jobRows'[j].status = "complete"
    BY <2>1 DEF Inserted
  <2> HIDE DEF r
  <2> QED
    BY <2>1, <2>2, <2>3, <1>a DEF r
<1>2. ASSUME NEW h \in Handlers, NEW j \in Jobs, Receive(h, j) PROVE SealedInOrder'
  <2> DEFINE r == [step |-> IF Duplicate(j) THEN "sync" ELSE "claim", job |-> j,
                   copy |-> backfill, attempt |-> ~Duplicate(j), parts |-> {}]
  <2>1. Becomes(h, r) /\ UNCHANGED <<jobRows, manifests, reopened>> /\ r.step \notin {"list", "seal"}
    BY <1>2 DEF Receive
  <2> HIDE DEF r
  <2> QED
    BY <2>1, <1>a
<1>3. ASSUME NEW h \in Handlers, SaveStart(h) \/ MarkComplete(h) PROVE SealedInOrder'
  <2>1. PICK to : /\ Becomes(h, [request[h] EXCEPT !.step = to]) /\ to \notin {"list", "seal"}
                  /\ \/ request[h].step \in StartSteps /\ to \in StartSteps
                     \/ request[h].step \in WorkSteps /\ to \in WorkSteps \ {"mark"}
                  /\ UNCHANGED <<manifests, reopened>>
    BY <1>3 DEF SaveStart, MarkComplete, Goto, StartSteps, WorkSteps
  <2> DEFINE r == [request[h] EXCEPT !.step = to]
  <2>2. r.step = to
    BY <2>1, GotoTyped
  <2>3. \A j \in Jobs : jobRows[j].status = "complete" => jobRows'[j].status = "complete"
    <3>1. CASE SaveStart(h)
      BY <3>1 DEF SaveStart
    <3>2. CASE MarkComplete(h)
      BY <3>2 DEF MarkComplete, BackfillTyped
    <3> QED
      BY <1>3, <3>1, <3>2
  <2> HIDE DEF r
  <2> QED
    BY <2>1, <2>2, <2>3, <1>a DEF r
<1>b. ASSUME NEW h \in Handlers, MarkRunning(h) \/ Fails(h) PROVE SealedInOrder'
  <2>1. PICK to, s : /\ Mark(h, s) /\ manifests' = manifests
                     /\ Becomes(h, [request[h] EXCEPT !.step = to])
                     /\ to \in {"fetch", "saveFailed"} /\ request[h].step \in WorkSteps
    <3>1. CASE MarkRunning(h)
      BY <3>1 DEF MarkRunning, Goto, WorkSteps
    <3>2. CASE Fails(h)
      BY <3>2 DEF Fails, Goto, WorkSteps
    <3> QED
      BY <1>b, <3>1, <3>2
  <2> DEFINE r == [request[h] EXCEPT !.step = to]
  <2>2. r.step = to
    BY <2>1, GotoTyped DEF WorkSteps
  <2>3. reopened => reopened'
    BY <2>1 DEF Mark
  <2>4. ~reopened' => \A g \in Handlers \ {h} : StayComplete(g)
    BY <2>1, MarkStays
  <2> HIDE DEF r
  <2>5. Becomes(h, r)
    BY <2>1 DEF r
  <2>6. InOrder(r, jobRows')
    BY <2>1, <2>2, OrderIdle
  <2> QED
    BY <1>0, <2>1, <2>3, <2>4, <2>5, <2>6, OrderKept DEF StayComplete
<1>4. ASSUME NEW h \in Handlers, SavePartition(h) PROVE SealedInOrder'
  <2>1. request[h] \in WorkRequests(manifests, partitions) /\ UNCHANGED <<jobRows, manifests, reopened>>
    BY <1>4, StepTells DEF SavePartition, WorkSteps
  <2>2. PICK x : Becomes(h, [request[h] EXCEPT !.step = "mark", !.parts = x])
    BY <1>4 DEF SavePartition
  <2> DEFINE r == [request[h] EXCEPT !.step = "mark", !.parts = x]
  <2>3. r.step = "mark"
    BY <2>1 DEF WorkRequests
  <2> HIDE DEF r
  <2> QED
    BY <2>1, <2>2, <2>3, <1>a DEF r
<1>5. ASSUME NEW h \in Handlers, Sync(h) PROVE SealedInOrder'
  <2>1. PICK to \in {"list", "save"} :
          /\ Becomes(h, [request[h] EXCEPT !.step = to])
          /\ to = "list" => AllComplete(request[h].job[1])
    BY <1>5 DEF Sync, Goto
  <2> DEFINE r == [request[h] EXCEPT !.step = to]
  <2>2. request[h].step \in WorkSteps /\ UNCHANGED <<jobRows, manifests, reopened>>
    BY <1>5 DEF Sync, WorkSteps
  <2>3. r.step = to /\ r.job = request[h].job
    BY <2>1, <2>2, GotoTyped DEF WorkSteps
  <2>4. InOrder(r, jobRows')
    BY <2>1, <2>2, <2>3 DEF AllComplete, CompleteIn, InOrder
  <2> HIDE DEF r
  <2> QED
    BY <1>0, <2>1, <2>2, <2>4, OrderKept DEF r
<1>6. ASSUME NEW h \in Handlers, List(h) PROVE SealedInOrder'
  <2> DEFINE f == request[h].job[1]
             listed == Listed(f)
             r == [request[h] EXCEPT !.step = "seal", !.parts = listed]
  <2>1. /\ request[h].step = "list" /\ request[h] \in WorkRequests(manifests, partitions)
        /\ Becomes(h, r) /\ UNCHANGED <<jobRows, manifests, reopened>>
    BY <1>6, StepTells DEF List, WorkSteps
  <2>2. f \in Backfills
    BY <2>1, JobShape DEF WorkRequests
  <2>3. ~reopened => Whole(listed, f)
    BY <1>0, <2>1, <2>2, ListedIsWhole DEF InOrder
  <2> HIDE DEF listed
  <2>4. r.step = "seal" /\ r.parts = listed /\ r.job = request[h].job
    BY <2>1 DEF WorkRequests
  <2> HIDE DEF r
  <2>5. ~reopened => InOrder(r, jobRows')
    BY <2>3, <2>4 DEF InOrder
  <2> QED
    BY <1>0, <2>1, <2>5, OrderKept
<1>7. ASSUME NEW h \in Handlers, Seal(h) PROVE SealedInOrder'
  <2> DEFINE m == [bounds |-> request[h].copy.id, parts |-> request[h].parts]
             r == [request[h] EXCEPT !.step = "save", !.copy.dataset = m]
  <2>1. /\ request[h].step = "seal" /\ request[h] \in WorkRequests(manifests, partitions)
        /\ Becomes(h, r) /\ UNCHANGED <<jobRows, reopened>> /\ manifests' = manifests \cup {m}
    BY <1>7, StepTells DEF Seal, WorkSteps
  <2>2. request[h].job[1] \in Backfills
    BY <2>1, JobShape DEF WorkRequests
  <2>3. ~reopened => \E f \in Backfills : Whole(m.parts, f)
    BY <1>0, <2>1, <2>2 DEF InOrder
  <2> HIDE DEF m
  <2>4. r.step = "save"
    BY <2>1 DEF WorkRequests
  <2> HIDE DEF r
  <2> QED
    BY <1>0, <2>1, <2>3, <2>4, OrderKept, OrderIdle
<1>8. ASSUME NEW h \in Handlers,
             Send(h) \/ SaveAndAck(h) \/ SaveFailed(h) \/ Drops(h) \/ AckLost(h)
      PROVE  SealedInOrder'
  <2>1. Becomes(h, Waiting) /\ UNCHANGED <<jobRows, manifests, reopened>>
    BY <1>8 DEF Send, SaveAndAck, SaveFailed, Drops, AckLost
  <2>2. Waiting.step \notin {"list", "seal"}
    BY DEF Waiting
  <2> QED
    BY <2>1, <2>2, <1>a
<1>9. CASE RestartObject
  <2>1. request' = [h \in Handlers |-> Waiting] /\ UNCHANGED <<jobRows, manifests, reopened>>
    BY <1>9 DEF RestartObject
  <2> QED
    BY <1>0, <2>1 DEF SealedInOrder, InOrder, Waiting
<1>10. CASE UNCHANGED backfillVars
  BY <1>10 DEF backfillVars, SealedInOrder
<1> QED
  BY <1>1, <1>2, <1>3, <1>b, <1>4, <1>5, <1>6, <1>7, <1>8, <1>9, <1>10 DEF BackfillNext, Proceed

LEMMA WholeNames ==
  ASSUME NEW m, NEW f \in Backfills, Whole(m.parts, f), NEW j \in Jobs
  PROVE  Names(m, j) = IF j \in JobsOf(f) THEN 1 ELSE 0
<1>1. CASE j \in JobsOf(f)
  <2>1. PICK p \in m.parts : p.job = j /\ \A q \in m.parts : q.job = j => q = p
    BY <1>1 DEF Whole
  <2>2. {q \in m.parts : q.job = j} = {p}
    BY <2>1
  <2> QED
    BY <1>1, <2>2, FS_Singleton DEF Names
<1>2. CASE j \notin JobsOf(f)
  <2>1. {q \in m.parts : q.job = j} = {}
    BY <1>2 DEF Whole
  <2> QED
    BY <1>2, <2>1, FS_EmptySet DEF Names
<1> QED
  BY <1>1, <1>2

(* However many backfills there are and however their deliveries overlap, fail *)
(* and are restarted, every dataset names exactly one partition of each job of *)
(* one backfill and no other (SealedIsWhole), unless a complete job was marked *)
(* again between a request's count of the jobs and its list of them.           *)
THEOREM SealedAlwaysWhole == BackfillSpec => []SealedIsWhole
<1>1. BackfillInit => BackfillTyped /\ SealedInOrder
  <2>1. BackfillInit => SealedInOrder
    BY DEF BackfillInit, SealedInOrder, InOrder, Waiting
  <2> QED
    BY <2>1, BackfillTypedInit
<1>2. BackfillTyped /\ SealedInOrder /\ [BackfillNext]_backfillVars
        => (BackfillTyped /\ SealedInOrder)'
  BY BackfillTypedStep, SealedStep
<1>3. SealedInOrder => SealedIsWhole
  BY WholeNames DEF SealedInOrder, SealedIsWhole
<1> QED
  BY <1>1, <1>2, <1>3, PTL DEF BackfillSpec

-----------------------------------------------------------------------------
(* Research: what the saved state, the copies and the requests may hold.      *)
Budget == [day: 0..Sessions, sampled: {0, Cardinality(Sampled)}, finalists: 0..FinalistCap]
Registry == [paused: BOOLEAN, budget: Budget, total: Nat, cohorts: [Days -> Cohort]]

CommandSteps == {"generate", "send", "finish"}
MessageSteps == {"screen", "receipt", "ready", "queued", "commit", "review", "reviewed", "ack"}

CommandTurns == [step: CommandSteps, on: Days \X {"command"}, copy: Registry, stale: BOOLEAN]
MessageTurns == [step: MessageSteps, on: Messages, copy: Registry, stale: BOOLEAN]
Turns == {Resting} \cup CommandTurns \cup MessageTurns

KnownDays(c) == {d \in Days : Known(c, d)}

(* A registry charges each trial once, and its strategies come from the screen *)
(* of all trials; the saved state and every copy, stale ones too, are sane.   *)
SaneCohort(k) ==
  /\ k.status = "complete" => k.receipts = Trials /\ k.strategies = Worthy
  /\ k.status # "complete" => k.strategies = {}

Sane(c, stored) ==
  /\ c \in Registry
  /\ c.total = Cardinality(Trials) * Cardinality(KnownDays(c))
  /\ \A d \in Days : SaneCohort(c.cohorts[d]) /\ {d} \X c.cohorts[d].receipts \subseteq stored

(* A screen's artifact is stored before its receipt is saved, a message is    *)
(* handled for a cohort the copy knows, and the cohort of a copy that will be *)
(* committed has all its receipts.                                            *)
StepHolds(t, stored) ==
  /\ t.step \in {"screen", "receipt"} => t.on[2] \in Trials
  /\ t.step = "receipt" => t.on \in stored
  /\ t.step \in MessageSteps => Known(t.copy, t.on[1])
  /\ t.step = "commit" => /\ t.copy.cohorts[t.on[1]].status = "screening_queued"
                          /\ t.copy.cohorts[t.on[1]].receipts = Trials

ResearchTyped ==
  /\ Sane(research, screens)
  /\ turn \in [Requests -> Turns]
  /\ \A h \in Requests : turn[h] # Resting => Sane(turn[h].copy, screens) /\ StepHolds(turn[h], screens)
  /\ pool \in 1..MaxPools /\ overwritten \in BOOLEAN /\ interrupted \in BOOLEAN

(* Every delivery in hand is in the queue.                                    *)
DeliveriesCounted ==
  queued \in [Messages -> Nat] /\ \A m \in Messages : Handled(m) <= queued[m]

(* While nothing interrupted research and no stale copy was saved, the day of *)
(* the budget is the one whose cohort is at work, with its finalists still to *)
(* be marked, and a copy that is not stale is the saved state.                *)
Orderly(c) ==
  /\ ~c.paused
  /\ \A d \in Days :
       /\ c.cohorts[d].status = "screening_queued" => c.budget.day = d
       /\ c.cohorts[d].status # "complete" /\ c.budget.day = d => c.budget.finalists = 0
       /\ c.cohorts[d].status = "complete" => c.cohorts[d].finalists = Worthy

CalmInOrder ==
  interrupted \/ overwritten \/
    /\ Orderly(research)
    /\ \A h \in Requests : turn[h] # Resting /\ ~turn[h].stale => turn[h].copy = research

-----------------------------------------------------------------------------
(* What a handler makes of a copy: a cohort written, the budget and the total *)
(* moved.                                                                     *)
Written(c, d, k, b, n) == [c EXCEPT !.total = n, !.budget = b, !.cohorts = [c.cohorts EXCEPT ![d] = k]]

LEMMA WrittenHolds ==
  ASSUME NEW c \in Registry, NEW d \in Days, NEW k \in Cohort, NEW b \in Budget, NEW n \in Nat
  PROVE  /\ Written(c, d, k, b, n) \in Registry
         /\ Written(c, d, k, b, n).paused = c.paused
         /\ Written(c, d, k, b, n).budget = b
         /\ Written(c, d, k, b, n).total = n
         /\ Written(c, d, k, b, n).cohorts[d] = k
         /\ \A e \in Days : e # d => Written(c, d, k, b, n).cohorts[e] = c.cohorts[e]
<1> DEFINE f == [c.cohorts EXCEPT ![d] = k]
<1>1. f \in [Days -> Cohort] /\ f[d] = k /\ \A e \in Days : e # d => f[e] = c.cohorts[e]
  BY DEF Registry
<1> HIDE DEF f
<1>2. Written(c, d, k, b, n) = [c EXCEPT !.total = n, !.budget = b, !.cohorts = f]
  BY DEF Written, f
<1> QED
  BY <1>1, <1>2 DEF Registry

LEMMA KnownFinite ==
  ASSUME NEW c
  PROVE  IsFiniteSet(KnownDays(c)) /\ Cardinality(KnownDays(c)) \in Nat /\ Cardinality(Trials) \in Nat
<1>1. IsFiniteSet(Days) /\ KnownDays(c) \subseteq Days
  BY FS_Interval, ResearchAssumption DEF Days, KnownDays
<1> QED
  BY <1>1, FS_Subset, FS_CardinalityType, ResearchAssumption

(* A cohort that was known stays known; a new one is charged its trials.      *)
LEMMA SaneWritten ==
  ASSUME NEW stored, NEW c, Sane(c, stored), NEW d \in Days, NEW k \in Cohort, NEW b \in Budget, NEW n,
         SaneCohort(k), {d} \X k.receipts \subseteq stored, k.status # "none",
         n = IF Known(c, d) THEN c.total ELSE c.total + Cardinality(Trials)
  PROVE  Sane(Written(c, d, k, b, n), stored) /\ n \in Nat
<1> DEFINE w == Written(c, d, k, b, n)
<1>1. c \in Registry /\ c.total \in Nat /\ n \in Nat
  BY KnownFinite DEF Sane, Registry
<1>2. /\ w \in Registry /\ w.total = n /\ w.cohorts[d] = k
      /\ \A e \in Days : e # d => w.cohorts[e] = c.cohorts[e]
  BY <1>1, WrittenHolds
<1> HIDE DEF w
<1>3. KnownDays(w) = KnownDays(c) \cup {d}
  BY <1>2 DEF KnownDays, Known
<1>4. d \in KnownDays(c) <=> Known(c, d)
  BY DEF KnownDays
<1>5. Cardinality(KnownDays(w)) = IF Known(c, d) THEN Cardinality(KnownDays(c))
                                                ELSE Cardinality(KnownDays(c)) + 1
  BY <1>3, <1>4, KnownFinite, FS_AddElement
<1>6. n = Cardinality(Trials) * Cardinality(KnownDays(w))
  <2> DEFINE T == Cardinality(Trials)
             K == Cardinality(KnownDays(c))
  <2>1. T \in Nat /\ K \in Nat /\ c.total = T * K
    BY KnownFinite DEF Sane
  <2> HIDE DEF T, K
  <2>2. T * (K + 1) = T * K + T
    BY <2>1
  <2> QED
    BY <1>5, <2>1, <2>2 DEF T, K
<1>7. \A e \in Days : SaneCohort(w.cohorts[e]) /\ {e} \X w.cohorts[e].receipts \subseteq stored
  BY <1>2 DEF Sane
<1> QED
  BY <1>1, <1>2, <1>6, <1>7 DEF Sane, w

LEMMA SaneGrows ==
  ASSUME NEW c, NEW stored, NEW stored2, stored \subseteq stored2, Sane(c, stored)
  PROVE  Sane(c, stored2)
BY DEF Sane

(* A change of the budget, or of the pause, leaves the cohorts alone.         *)
LEMMA SaneElsewhere ==
  ASSUME NEW c, NEW stored, NEW c2 \in Registry, Sane(c, stored), c2.cohorts = c.cohorts, c2.total = c.total
  PROVE  Sane(c2, stored)
<1>1. KnownDays(c2) = KnownDays(c)
  BY DEF KnownDays, Known
<1> QED
  BY <1>1 DEF Sane

LEMMA SaneReset ==
  ASSUME NEW c, NEW stored, Sane(c, stored), NEW d \in Days
  PROVE  LET r == ResetBudget(c, d)
         IN /\ Sane(r, stored) /\ r \in Registry /\ r.paused = c.paused
            /\ r.cohorts = c.cohorts /\ r.total = c.total /\ r.budget.day = d
            /\ c.budget.day = d => r = c
            /\ c.budget.day # d => r.budget.finalists = 0
<1> DEFINE r == ResetBudget(c, d)
           b == [NoBudget EXCEPT !.day = d]
<1>1. c \in Registry
  BY DEF Sane
<1>2. b \in Budget /\ b.day = d /\ b.finalists = 0
  BY ResearchAssumption DEF NoBudget, Budget, Days
<1>3. CASE c.budget.day = d
  BY <1>1, <1>3 DEF ResetBudget
<1>4. CASE c.budget.day # d
  <2>1. r = [c EXCEPT !.budget = b]
    BY <1>4 DEF ResetBudget
  <2> HIDE DEF r, b
  <2>2. /\ r \in Registry /\ r.budget = b /\ r.paused = c.paused
        /\ r.cohorts = c.cohorts /\ r.total = c.total
    BY <1>1, <1>2, <2>1 DEF Registry
  <2>3. Sane(r, stored)
    BY <2>2, SaneElsewhere
  <2> QED
    BY <1>2, <1>4, <2>2, <2>3 DEF r
<1> QED
  BY <1>3, <1>4

-----------------------------------------------------------------------------
(* What a step does to the requests: one goes on, the others may find their   *)
(* copy stale.                                                                *)
Keeps(g) ==
  /\ turn[g] = Resting => turn'[g] = Resting
  /\ turn[g] # Resting => /\ turn'[g] # Resting
                          /\ turn'[g].step = turn[g].step /\ turn'[g].on = turn[g].on
                          /\ turn'[g].copy = turn[g].copy
                          /\ turn[g].stale => turn'[g].stale

Moves(h, next) ==
  /\ turn' \in [Requests -> Turns] /\ turn'[h] = next
  /\ \A g \in Requests : g # h => Keeps(g)

(* A request's step tells which message it holds.                             *)
LEMMA TurnTells ==
  ASSUME NEW t \in Turns
  PROVE  /\ t = Resting <=> t.step = "resting"
         /\ t.step \in CommandSteps <=> t \in CommandTurns
         /\ t.step \in MessageSteps <=> t \in MessageTurns
         /\ t.step \in {"resting"} \cup CommandSteps \cup MessageSteps
         /\ CommandSteps \cap MessageSteps = {} /\ "resting" \notin CommandSteps \cup MessageSteps
BY DEF Turns, CommandTurns, MessageTurns, Resting, CommandSteps, MessageSteps

LEMMA CommandHolds ==
  ASSUME NEW t \in CommandTurns
  PROVE  /\ t \in Turns /\ t # Resting /\ t.on[1] \in Days /\ t.on \notin Messages
         /\ t.copy \in Registry /\ t.stale \in BOOLEAN
         /\ \A s \in CommandSteps : /\ [t EXCEPT !.step = s] \in CommandTurns
                                    /\ [t EXCEPT !.step = s].step = s
                                    /\ [t EXCEPT !.step = s].on = t.on
                                    /\ [t EXCEPT !.step = s].copy = t.copy
                                    /\ [t EXCEPT !.step = s].stale = t.stale
<1>1. t.step \in CommandSteps /\ t.on \in Days \X {"command"} /\ t.copy \in Registry /\ t.stale \in BOOLEAN
  BY DEF CommandTurns
<1>2. t # Resting
  BY <1>1 DEF Resting, CommandSteps
<1>3. t.on[1] \in Days /\ t.on[2] = "command"
  BY <1>1
<1>4. t.on \notin Messages
  BY <1>3, ResearchAssumption DEF Messages
<1> QED
  BY <1>1, <1>2, <1>3, <1>4 DEF CommandTurns, Turns

LEMMA MessageHolds ==
  ASSUME NEW t \in MessageTurns
  PROVE  /\ t \in Turns /\ t # Resting /\ t.on \in Messages /\ t.on[1] \in Days
         /\ t.on = <<t.on[1], t.on[2]>>
         /\ t.copy \in Registry /\ t.stale \in BOOLEAN
         /\ \A s \in MessageSteps : /\ [t EXCEPT !.step = s] \in MessageTurns
                                    /\ [t EXCEPT !.step = s].step = s
                                    /\ [t EXCEPT !.step = s].on = t.on
                                    /\ [t EXCEPT !.step = s].copy = t.copy
                                    /\ [t EXCEPT !.step = s].stale = t.stale
<1>1. t.step \in MessageSteps /\ t.on \in Messages /\ t.copy \in Registry /\ t.stale \in BOOLEAN
  BY DEF MessageTurns
<1>2. t # Resting
  BY <1>1 DEF Resting, MessageSteps
<1>3. t.on[1] \in Days /\ t.on = <<t.on[1], t.on[2]>>
  BY <1>1 DEF Messages
<1> QED
  BY <1>1, <1>2, <1>3 DEF MessageTurns, Turns

LEMMA OneMoves ==
  ASSUME turn \in [Requests -> Turns], NEW h \in Requests, NEW next \in Turns,
         turn' = [turn EXCEPT ![h] = next]
  PROVE  Moves(h, next)
BY DEF Moves, Keeps

(* The fields of what goes on after a save.                                   *)
LEMMA OnwardHolds ==
  ASSUME NEW h \in Requests, NEW c \in Registry, NEW s,
         \/ turn[h] \in CommandTurns /\ s \in CommandSteps
         \/ turn[h] \in MessageTurns /\ s \in MessageSteps
  PROVE  /\ Onward(h, c, s) \in Turns /\ Onward(h, c, s) # Resting /\ Onward(h, c, s).step = s
         /\ Onward(h, c, s).on = turn[h].on /\ Onward(h, c, s).copy = c
         /\ ~Onward(h, c, s).stale
<1> DEFINE o == Onward(h, c, s)
<1>1. CASE turn[h] \in CommandTurns /\ s \in CommandSteps
  <2>1. /\ o \in CommandTurns /\ o.step = s /\ o.on = turn[h].on /\ o.copy = c /\ o.stale = FALSE
    BY <1>1 DEF CommandTurns, Onward
  <2> QED
    BY <2>1, CommandHolds
<1>2. CASE turn[h] \in MessageTurns /\ s \in MessageSteps
  <2>1. /\ o \in MessageTurns /\ o.step = s /\ o.on = turn[h].on /\ o.copy = c /\ o.stale = FALSE
    BY <1>2 DEF MessageTurns, Onward
  <2> QED
    BY <2>1, MessageHolds
<1> QED
  BY <1>1, <1>2

LEMMA StaleHolds ==
  ASSUME NEW t \in Turns, t # Resting, NEW b \in BOOLEAN
  PROVE  /\ [t EXCEPT !.stale = b] \in Turns /\ [t EXCEPT !.stale = b] # Resting
         /\ [t EXCEPT !.stale = b].step = t.step /\ [t EXCEPT !.stale = b].on = t.on
         /\ [t EXCEPT !.stale = b].copy = t.copy /\ [t EXCEPT !.stale = b].stale = b
<1>1. CASE t \in CommandTurns
  <2> DEFINE u == [t EXCEPT !.stale = b]
  <2>1. u \in CommandTurns /\ u.step = t.step /\ u.on = t.on /\ u.copy = t.copy /\ u.stale = b
    BY <1>1 DEF CommandTurns
  <2> QED
    BY <2>1, CommandHolds
<1>2. CASE t \in MessageTurns
  <2> DEFINE u == [t EXCEPT !.stale = b]
  <2>1. u \in MessageTurns /\ u.step = t.step /\ u.on = t.on /\ u.copy = t.copy /\ u.stale = b
    BY <1>2 DEF MessageTurns
  <2> QED
    BY <2>1, MessageHolds
<1> QED
  BY <1>1, <1>2 DEF Turns

LEMMA SaveMoves ==
  ASSUME turn \in [Requests -> Turns], overwritten \in BOOLEAN,
         NEW h \in Requests, NEW c, NEW next \in Turns, turn[h] # Resting, SaveCopy(h, c, next)
  PROVE  /\ Moves(h, next) /\ research' = c /\ overwritten' \in BOOLEAN
         /\ ~overwritten' => ~overwritten /\ ~turn[h].stale
         /\ \A g \in Requests : g # h /\ turn'[g] # Resting /\ ~turn'[g].stale =>
              turn[g] # Resting /\ ~turn[g].stale /\ c = research
<1>1. ASSUME NEW g \in Requests
      PROVE  turn[g] # Resting => turn[g].stale \in BOOLEAN
  BY CommandHolds, MessageHolds DEF Turns
<1>2. research' = c /\ overwritten' = (overwritten \/ turn[h].stale)
  BY DEF SaveCopy
<1>3. turn' = [g \in Requests |->
        IF g = h THEN next
        ELSE IF turn[g] = Resting THEN Resting
        ELSE [turn[g] EXCEPT !.stale = turn[g].stale \/ c # research]]
  <2>1. ASSUME NEW g \in Requests, turn[g] # Resting
        PROVE  [turn[g] EXCEPT !.stale = @ \/ c # research] = [turn[g] EXCEPT !.stale = turn[g].stale \/ c # research]
    OBVIOUS
  <2> QED
    BY <2>1 DEF SaveCopy
<1>4. ASSUME NEW g \in Requests, g # h
      PROVE  /\ turn'[g] \in Turns /\ Keeps(g)
             /\ turn'[g] # Resting /\ ~turn'[g].stale => turn[g] # Resting /\ ~turn[g].stale /\ c = research
  <2>1. CASE turn[g] = Resting
    BY <1>3, <1>4, <2>1 DEF Keeps
  <2>2. CASE turn[g] # Resting
    <3> DEFINE b == turn[g].stale \/ c # research
    <3>1. b \in BOOLEAN /\ (turn[g].stale => b) /\ (~b => ~turn[g].stale /\ c = research)
      BY <1>1, <2>2
    <3>2. turn'[g] = [turn[g] EXCEPT !.stale = b]
      BY <1>3, <1>4, <2>2
    <3> HIDE DEF b
    <3>3. /\ turn'[g] \in Turns /\ turn'[g] # Resting /\ turn'[g].step = turn[g].step
          /\ turn'[g].on = turn[g].on /\ turn'[g].copy = turn[g].copy /\ turn'[g].stale = b
      BY <2>2, <3>1, <3>2, StaleHolds
    <3> QED
      BY <2>2, <3>1, <3>3 DEF Keeps
  <2> QED
    BY <2>1, <2>2
<1>5. turn' \in [Requests -> Turns] /\ turn'[h] = next
  <2>1. turn'[h] = next
    BY <1>3
  <2> QED
    BY <1>3, <1>4, <2>1
<1> QED
  BY <1>1, <1>2, <1>4, <1>5 DEF Moves

-----------------------------------------------------------------------------
ResearchIInv == ResearchTyped /\ DeliveriesCounted /\ CalmInOrder

Holding(m) == {h \in Requests : turn[h] # Resting /\ turn[h].on = m}

QueueGrows == queued' \in [Messages -> Nat] /\ \A m \in Messages : queued[m] <= queued'[m]

LEMMA HoldingFinite ==
  \A m : /\ IsFiniteSet(Holding(m)) /\ Cardinality(Holding(m)) \in Nat
         /\ Handled(m) = Cardinality(Holding(m))
<1>1. \A m : Holding(m) \subseteq Requests
  BY DEF Holding
<1> QED
  BY <1>1, FS_Subset, FS_CardinalityType, ResearchAssumption DEF Handled, Holding

LEMMA HoldsLess ==
  ASSUME NEW m, Holding(m)' \subseteq Holding(m)
  PROVE  Handled(m)' \in Nat /\ Handled(m)' <= Handled(m)
<1>1. Handled(m)' = Cardinality(Holding(m)')
  BY DEF Handled, Holding
<1> QED
  BY <1>1, HoldingFinite, FS_Subset, FS_CardinalityType

(* A request that goes on with its message, or ends, takes no delivery.       *)
LEMMA CountsHold ==
  ASSUME DeliveriesCounted, NEW h \in Requests, NEW next, Moves(h, next), QueueGrows,
         next # Resting => turn[h] # Resting /\ next.on = turn[h].on
  PROVE  DeliveriesCounted'
<1>1. ASSUME NEW m \in Messages PROVE Holding(m)' \subseteq Holding(m)
  BY DEF Moves, Keeps, Holding
<1>2. ASSUME NEW m \in Messages PROVE Handled(m)' <= queued'[m]
  <2>1. Handled(m)' \in Nat /\ Handled(m)' <= Handled(m)
    BY <1>1, HoldsLess
  <2>2. Handled(m) \in Nat /\ Handled(m) <= queued[m] /\ queued[m] \in Nat
    BY HoldingFinite DEF DeliveriesCounted
  <2> QED
    BY <2>1, <2>2 DEF QueueGrows
<1> QED
  BY <1>2 DEF DeliveriesCounted, QueueGrows

(* The turns of a step that changes one of them.                              *)
LEMMA TurnsHold ==
  ASSUME ResearchTyped, NEW h \in Requests, NEW next, Moves(h, next), screens \subseteq screens',
         next # Resting => Sane(next.copy, screens') /\ StepHolds(next, screens')
  PROVE  /\ turn' \in [Requests -> Turns]
         /\ \A g \in Requests :
              turn'[g] # Resting => Sane(turn'[g].copy, screens') /\ StepHolds(turn'[g], screens')
<1>1. ASSUME NEW g \in Requests, g # h, turn'[g] # Resting
      PROVE  Sane(turn'[g].copy, screens') /\ StepHolds(turn'[g], screens')
  <2>1. /\ turn[g] # Resting /\ turn'[g].step = turn[g].step
        /\ turn'[g].on = turn[g].on /\ turn'[g].copy = turn[g].copy
    BY <1>1 DEF Moves, Keeps
  <2>2. Sane(turn[g].copy, screens) /\ StepHolds(turn[g], screens)
    BY <2>1 DEF ResearchTyped
  <2> QED
    BY <2>1, <2>2, SaneGrows DEF StepHolds
<1> QED
  BY <1>1 DEF Moves

(* A step that saves nothing.                                                 *)
LEMMA Goes ==
  ASSUME ResearchIInv, NEW h \in Requests, NEW next, Moves(h, next), turn[h] # Resting,
         next # Resting => /\ next.on = turn[h].on /\ next.copy = turn[h].copy
                           /\ next.stale = turn[h].stale /\ StepHolds(next, screens'),
         UNCHANGED <<research, pool, overwritten>>, screens \subseteq screens',
         interrupted' \in BOOLEAN, interrupted => interrupted', QueueGrows
  PROVE  ResearchIInv'
<1>1. DeliveriesCounted'
  BY CountsHold DEF ResearchIInv
<1>2. ResearchTyped'
  <2>1. Sane(research, screens') /\ Sane(turn[h].copy, screens')
    BY SaneGrows DEF ResearchIInv, ResearchTyped
  <2>2. next # Resting => Sane(next.copy, screens') /\ StepHolds(next, screens')
    BY <2>1
  <2> QED
    BY <2>1, <2>2, TurnsHold DEF ResearchIInv, ResearchTyped
<1>3. CalmInOrder'
  <2> SUFFICES ASSUME ~interrupted', ~overwritten' PROVE CalmInOrder'
    BY DEF CalmInOrder
  <2>1. /\ Orderly(research)
        /\ \A g \in Requests : turn[g] # Resting /\ ~turn[g].stale => turn[g].copy = research
    BY DEF ResearchIInv, CalmInOrder
  <2>2. ASSUME NEW g \in Requests, turn'[g] # Resting, ~turn'[g].stale
        PROVE  turn'[g].copy = research
    <3>1. CASE g = h
      BY <2>1, <2>2, <3>1 DEF Moves
    <3>2. CASE g # h
      BY <2>1, <2>2, <3>2 DEF Moves, Keeps
    <3> QED
      BY <3>1, <3>2
  <2> QED
    BY <2>1, <2>2 DEF CalmInOrder
<1> QED
  BY <1>1, <1>2, <1>3 DEF ResearchIInv

(* A step that saves its copy.                                                *)
LEMMA Saves ==
  ASSUME ResearchIInv, NEW h \in Requests, NEW c, NEW next \in Turns, turn[h] # Resting,
         SaveCopy(h, c, next), Sane(c, screens),
         next # Resting => /\ next.on = turn[h].on /\ next.copy = c /\ StepHolds(next, screens),
         ~interrupted' /\ turn[h].copy = research /\ Orderly(research) => Orderly(c),
         UNCHANGED <<pool, screens>>, interrupted' \in BOOLEAN, interrupted => interrupted', QueueGrows
  PROVE  ResearchIInv'
<1>0. turn \in [Requests -> Turns] /\ overwritten \in BOOLEAN
  BY DEF ResearchIInv, ResearchTyped
<1>1. /\ Moves(h, next) /\ research' = c /\ overwritten' \in BOOLEAN
      /\ ~overwritten' => ~overwritten /\ ~turn[h].stale
      /\ \A g \in Requests : g # h /\ turn'[g] # Resting /\ ~turn'[g].stale =>
           turn[g] # Resting /\ ~turn[g].stale /\ c = research
  BY <1>0, SaveMoves
<1>2. DeliveriesCounted'
  BY <1>1, CountsHold DEF ResearchIInv
<1>3. ResearchTyped'
  BY <1>1, TurnsHold DEF ResearchIInv, ResearchTyped
<1>4. CalmInOrder'
  <2> SUFFICES ASSUME ~interrupted', ~overwritten' PROVE CalmInOrder'
    BY DEF CalmInOrder
  <2>1. /\ Orderly(research)
        /\ \A g \in Requests : turn[g] # Resting /\ ~turn[g].stale => turn[g].copy = research
    BY <1>1 DEF ResearchIInv, CalmInOrder
  <2>2. Orderly(c)
    BY <1>1, <2>1
  <2>3. ASSUME NEW g \in Requests, turn'[g] # Resting, ~turn'[g].stale
        PROVE  turn'[g].copy = c
    <3>1. CASE g = h
      BY <1>1, <2>3, <3>1 DEF Moves
    <3>2. CASE g # h
      BY <1>1, <2>1, <2>3, <3>2 DEF Moves, Keeps
    <3> QED
      BY <3>1, <3>2
  <2> QED
    BY <1>1, <2>2, <2>3 DEF CalmInOrder
<1> QED
  BY <1>2, <1>3, <1>4 DEF ResearchIInv

LEMMA QueueSame ==
  ASSUME DeliveriesCounted, queued' = queued
  PROVE  QueueGrows
BY DEF DeliveriesCounted, QueueGrows

LEMMA QueueSent ==
  ASSUME DeliveriesCounted, NEW d, NEW sent, Sent(d, sent)
  PROVE  QueueGrows
<1>1. ASSUME NEW m \in Messages
      PROVE  queued[m] \in Nat /\ queued'[m] \in {queued[m], queued[m] + 1}
  BY DEF DeliveriesCounted, Sent
<1>2. queued' \in [Messages -> Nat]
  BY <1>1 DEF Sent
<1> QED
  BY <1>1, <1>2 DEF QueueGrows

(* A request begins with a copy of the saved state.                           *)
LEMMA Begins ==
  ASSUME ResearchIInv, NEW h \in Requests, NEW s, NEW m, turn[h] = Resting, Takes(h, s, m),
         [step |-> s, on |-> m, copy |-> research, stale |-> FALSE] \in Turns,
         StepHolds([step |-> s, on |-> m, copy |-> research, stale |-> FALSE], screens),
         m \in Messages => Waits(m),
         UNCHANGED <<research, screens, queued, pool, overwritten, interrupted>>
  PROVE  ResearchIInv'
<1> DEFINE next == [step |-> s, on |-> m, copy |-> research, stale |-> FALSE]
<1>0. next.on = m /\ next.copy = research /\ next \in Turns /\ StepHolds(next, screens)
  OBVIOUS
<1>1. turn' = [turn EXCEPT ![h] = next]
  BY DEF Takes
<1> HIDE DEF next
<1>2. Moves(h, next)
  BY <1>0, <1>1, OneMoves DEF ResearchIInv, ResearchTyped
<1>3. ResearchTyped'
  BY <1>0, <1>2, TurnsHold DEF ResearchIInv, ResearchTyped
<1>4. DeliveriesCounted'
  <2>1. ASSUME NEW k \in Messages PROVE Handled(k)' <= queued[k]
    <3>1. CASE k = m
      <4>1. \A g \in Requests : g \in Holding(k)' => g \in Holding(k) \cup {h}
        BY <1>2 DEF Moves, Keeps, Holding
      <4>2. Holding(k)' \subseteq Holding(k) \cup {h}
        BY <4>1 DEF Holding
      <4>3. /\ Cardinality(Holding(k)') \in Nat
            /\ Cardinality(Holding(k)') <= Cardinality(Holding(k)) + 1
        <5>1. /\ IsFiniteSet(Holding(k) \cup {h})
              /\ Cardinality(Holding(k) \cup {h}) <= Cardinality(Holding(k)) + 1
          <6>1. IsFiniteSet(Holding(k)) /\ Cardinality(Holding(k)) \in Nat
            BY HoldingFinite
          <6>2. /\ IsFiniteSet(Holding(k) \cup {h})
                /\ Cardinality(Holding(k) \cup {h})
                     = IF h \in Holding(k) THEN Cardinality(Holding(k)) ELSE Cardinality(Holding(k)) + 1
            BY <6>1, FS_AddElement
          <6> QED
            BY <6>1, <6>2
        <5>2. /\ IsFiniteSet(Holding(k)')
              /\ Cardinality(Holding(k)') <= Cardinality(Holding(k) \cup {h})
          BY <4>2, <5>1, FS_Subset
        <5> QED
          BY <5>1, <5>2, HoldingFinite, FS_CardinalityType
      <4>4. Handled(k)' = Cardinality(Holding(k)')
        BY DEF Handled, Holding
      <4>5. queued[k] > Cardinality(Holding(k)) /\ queued[k] \in Nat
        BY <3>1, HoldingFinite DEF Waits, ResearchIInv, DeliveriesCounted
      <4> QED
        BY <4>3, <4>4, <4>5, HoldingFinite
    <3>2. CASE k # m
      <4>1. Holding(k)' \subseteq Holding(k)
        BY <1>0, <1>2, <3>2 DEF Moves, Keeps, Holding
      <4>2. Handled(k)' \in Nat /\ Handled(k)' <= Handled(k)
        BY <4>1, HoldsLess
      <4> QED
        BY <4>2, HoldingFinite DEF ResearchIInv, DeliveriesCounted
    <3> QED
      BY <3>1, <3>2
  <2> QED
    BY <2>1 DEF ResearchIInv, DeliveriesCounted
<1>5. CalmInOrder'
  BY <1>0, <1>2 DEF ResearchIInv, CalmInOrder, Moves, Keeps
<1> QED
  BY <1>3, <1>4, <1>5 DEF ResearchIInv

(* A request goes on to another step of the same work, or ends.               *)
LEMMA StepsOn ==
  ASSUME ResearchIInv, NEW h \in Requests, NEW s, Step(h, s),
         \/ turn[h].step \in CommandSteps /\ s \in CommandSteps
         \/ turn[h].step \in MessageSteps /\ s \in MessageSteps \ {"screen", "commit"},
         s = "receipt" => turn[h].step = "screen" /\ turn[h].on \in screens',
         UNCHANGED <<research, pool, overwritten>>, screens \subseteq screens',
         interrupted' \in BOOLEAN, interrupted => interrupted', QueueGrows
  PROVE  ResearchIInv'
<1> DEFINE next == [turn[h] EXCEPT !.step = s]
<1>1. turn \in [Requests -> Turns] /\ turn[h] \in Turns
  BY DEF ResearchIInv, ResearchTyped
<1>2. turn' = [turn EXCEPT ![h] = next]
  BY <1>1 DEF Step
<1>3. /\ turn[h] # Resting /\ next \in Turns /\ next.step = s /\ next.on = turn[h].on
      /\ next.copy = turn[h].copy /\ next.stale = turn[h].stale
  BY <1>1, TurnTells, CommandHolds, MessageHolds
<1> HIDE DEF next
<1>4. StepHolds(turn[h], screens)
  BY <1>3 DEF ResearchIInv, ResearchTyped
<1>5. StepHolds(next, screens')
  BY <1>1, <1>3, <1>4, TurnTells DEF StepHolds, CommandSteps
<1>6. Moves(h, next)
  BY <1>1, <1>2, <1>3, OneMoves
<1> QED
  BY <1>3, <1>5, <1>6, Goes

LEMMA BreaksKeep ==
  ASSUME ResearchIInv, NEW h \in Requests, Breaks(h)
  PROVE  ResearchIInv'
<1>1. turn[h] # Resting /\ turn' = [turn EXCEPT ![h] = Resting]
  BY DEF Breaks
<1>2. Moves(h, Resting)
  BY <1>1, OneMoves DEF ResearchIInv, ResearchTyped, Turns
<1>3. QueueGrows /\ interrupted \in BOOLEAN /\ UNCHANGED <<research, pool, overwritten, screens, interrupted>>
  BY QueueSame DEF Breaks, ResearchIInv, ResearchTyped
<1> QED
  BY <1>1, <1>2, <1>3, Goes

(* What was handled is acknowledged, and neither in hand nor in the queue.    *)
LEMMA AcknowledgeKeeps ==
  ASSUME ResearchIInv, NEW h \in Requests, Acknowledge(h)
  PROVE  ResearchIInv'
<1>1. /\ turn[h].step = "ack" /\ turn' = [turn EXCEPT ![h] = Resting]
      /\ queued' = [queued EXCEPT ![turn[h].on] = @ - 1]
      /\ UNCHANGED <<research, screens, pool, overwritten, interrupted>>
  BY DEF Acknowledge
<1>2. turn[h] \in MessageTurns
  BY <1>1, TurnTells DEF ResearchIInv, ResearchTyped, MessageSteps
<1>3. PICK m \in Messages : m = turn[h].on
  BY <1>2, MessageHolds
<1>4. Moves(h, Resting) /\ turn[h] # Resting
  BY <1>1, <1>2, OneMoves, MessageHolds DEF ResearchIInv, ResearchTyped, Turns
<1>5. ResearchTyped'
  BY <1>1, <1>4, TurnsHold DEF ResearchIInv, ResearchTyped
<1>6. DeliveriesCounted'
  <2>1. Cardinality(Holding(m)) <= queued[m] /\ queued[m] \in Nat
    BY HoldingFinite DEF ResearchIInv, DeliveriesCounted
  <2>2. h \in Holding(m)
    BY <1>3, <1>4 DEF Holding
  <2>3. \A g \in Requests : g \in Holding(m)' <=> g \in Holding(m) /\ g # h
    BY <1>1, <1>4 DEF Holding, Moves, ResearchIInv, ResearchTyped
  <2>4. Holding(m)' = Holding(m) \ {h}
    BY <2>3 DEF Holding
  <2>5. Cardinality(Holding(m)') = Cardinality(Holding(m)) - 1 /\ Cardinality(Holding(m)') \in Nat
    BY <2>2, <2>4, HoldingFinite, FS_RemoveElement, FS_CardinalityType
  <2>6. Handled(m)' = Cardinality(Holding(m)')
    BY DEF Handled, Holding
  <2>7. /\ queued' \in [Messages -> Nat] /\ queued'[m] = queued[m] - 1
        /\ \A k \in Messages : k # m => queued'[k] = queued[k]
    BY <1>1, <1>3, <2>1, <2>5, HoldingFinite DEF ResearchIInv, DeliveriesCounted
  <2>8. ASSUME NEW k \in Messages PROVE Handled(k)' <= queued'[k]
    <3>1. CASE k = m
      BY <2>1, <2>5, <2>6, <2>7, <3>1, HoldingFinite
    <3>2. CASE k # m
      <4>1. Holding(k)' \subseteq Holding(k)
        BY <1>4 DEF Moves, Keeps, Holding
      <4> QED
        BY <2>7, <3>2, <4>1, HoldsLess, HoldingFinite DEF ResearchIInv, DeliveriesCounted
    <3> QED
      BY <3>1, <3>2
  <2> QED
    BY <2>7, <2>8 DEF DeliveriesCounted
<1>7. CalmInOrder'
  BY <1>1, <1>4 DEF ResearchIInv, CalmInOrder, Moves, Keeps
<1> QED
  BY <1>5, <1>6, <1>7 DEF ResearchIInv

(* A message the queue gives up was waiting, so those in hand still count.    *)
LEMMA DeadLetterKeeps ==
  ASSUME ResearchIInv, NEW d \in Days, NEW t \in Trials, DeadLetterScreen(d, t)
  PROVE  ResearchIInv'
<1> DEFINE m == <<d, t>>
<1>1. /\ queued[m] > Handled(m) /\ queued' = [queued EXCEPT ![m] = @ - 1]
      /\ UNCHANGED <<research, screens, turn, pool, overwritten, interrupted>>
  BY DEF DeadLetterScreen, Waits
<1>2. \A k : Handled(k)' = Handled(k) /\ Handled(k) \in Nat
  BY <1>1, HoldingFinite DEF Handled
<1>3. m \in Messages => queued[m] \in Nat /\ queued[m] - 1 \in Nat
  BY <1>1, <1>2 DEF ResearchIInv, DeliveriesCounted
<1> HIDE DEF m
<1>4. DeliveriesCounted'
  <2>1. queued' \in [Messages -> Nat]
    BY <1>1, <1>3 DEF ResearchIInv, DeliveriesCounted
  <2>2. ASSUME NEW k \in Messages PROVE Handled(k)' <= queued'[k]
    <3>1. Handled(k)' = Handled(k) /\ Handled(k) \in Nat /\ queued[k] \in Nat /\ Handled(k) <= queued[k]
      BY <1>2 DEF ResearchIInv, DeliveriesCounted
    <3>2. queued'[k] = IF k = m THEN queued[k] - 1 ELSE queued[k]
      BY <1>1 DEF ResearchIInv, DeliveriesCounted
    <3> QED
      BY <1>1, <3>1, <3>2
  <2> QED
    BY <2>1, <2>2 DEF DeliveriesCounted
<1> QED
  BY <1>1, <1>4 DEF ResearchIInv, ResearchTyped, CalmInOrder

-----------------------------------------------------------------------------
(* The copies the handlers save.                                              *)
LEMMA OrderlyWritten ==
  ASSUME NEW c \in Registry, NEW d \in Days, NEW k \in Cohort, NEW b \in Budget, NEW n \in Nat,
         Orderly(c), b.day = c.budget.day, k.status # "none",
         k.status = "screening_queued" => b.day = d /\ b.finalists = 0,
         k.status = "complete" => k.finalists = Worthy,
         b.day = d \/ b.finalists = c.budget.finalists
  PROVE  Orderly(Written(c, d, k, b, n))
<1> DEFINE w == Written(c, d, k, b, n)
<1>1. /\ w.paused = c.paused /\ w.budget = b /\ w.cohorts[d] = k
      /\ \A e \in Days : e # d => w.cohorts[e] = c.cohorts[e]
  BY WrittenHolds
<1> HIDE DEF w
<1>2. k.status \in {"screening_queued", "complete"}
  BY DEF Cohort
<1>3. ASSUME NEW e \in Days
      PROVE  /\ w.cohorts[e].status = "screening_queued" => w.budget.day = e
             /\ w.cohorts[e].status # "complete" /\ w.budget.day = e => w.budget.finalists = 0
             /\ w.cohorts[e].status = "complete" => w.cohorts[e].finalists = Worthy
  <2>1. CASE e = d
    BY <1>1, <1>2, <2>1
  <2>2. CASE e # d
    BY <1>1, <2>2 DEF Orderly
  <2> QED
    BY <2>1, <2>2
<1> QED
  BY <1>1, <1>3 DEF Orderly, w

LEMMA CohortEdited ==
  ASSUME NEW stored, NEW c, Sane(c, stored), NEW d \in Days, NEW k \in Cohort, Known(c, d),
         k.status = c.cohorts[d].status, k.finalists = c.cohorts[d].finalists,
         SaneCohort(k), {d} \X k.receipts \subseteq stored
  PROVE  LET w == Written(c, d, k, c.budget, c.total)
         IN /\ w \in Registry /\ Sane(w, stored) /\ Known(w, d)
            /\ Orderly(c) => Orderly(w)
<1>1. c \in Registry /\ c.budget \in Budget /\ c.total \in Nat
  BY DEF Sane, Registry
<1>2. k.status # "none"
  BY DEF Known
<1>3. Sane(Written(c, d, k, c.budget, c.total), stored)
  BY <1>1, <1>2, SaneWritten
<1>4. Written(c, d, k, c.budget, c.total).cohorts[d] = k
  BY <1>1, WrittenHolds
<1>5. ASSUME Orderly(c) PROVE Orderly(Written(c, d, k, c.budget, c.total))
  <2>1. k.status = "screening_queued" => c.budget.day = d /\ c.budget.finalists = 0
    BY <1>5 DEF Orderly
  <2>2. k.status = "complete" => k.finalists = Worthy
    BY <1>5 DEF Orderly
  <2>3. c.budget.day = d \/ c.budget.finalists = c.budget.finalists
    OBVIOUS
  <2> QED
    BY <1>1, <1>2, <1>5, <2>1, <2>2, <2>3, OrderlyWritten
<1> QED
  BY <1>2, <1>3, <1>4, <1>5 DEF Sane, Known

LEMMA ReceiptHolds ==
  ASSUME NEW stored, NEW c, Sane(c, stored), NEW d \in Days, NEW t \in Trials, Known(c, d), <<d, t>> \in stored
  PROVE  LET w == [c EXCEPT !.cohorts[d].receipts = @ \cup {t}]
         IN /\ w \in Registry /\ Sane(w, stored) /\ Known(w, d)
            /\ Orderly(c) => Orderly(w)
<1> DEFINE k == [c.cohorts[d] EXCEPT !.receipts = c.cohorts[d].receipts \cup {t}]
<1>1. c \in Registry /\ c.cohorts \in [Days -> Cohort] /\ c.cohorts[d] \in Cohort
  BY DEF Sane, Registry
<1>2. /\ k \in Cohort /\ k.status = c.cohorts[d].status /\ k.finalists = c.cohorts[d].finalists
      /\ k.strategies = c.cohorts[d].strategies /\ k.receipts = c.cohorts[d].receipts \cup {t}
  BY <1>1 DEF Cohort
<1>3. [c EXCEPT !.cohorts[d].receipts = @ \cup {t}] = Written(c, d, k, c.budget, c.total)
  BY <1>1 DEF Written, Registry
<1> HIDE DEF k
<1>4. SaneCohort(c.cohorts[d]) /\ {d} \X c.cohorts[d].receipts \subseteq stored
  BY DEF Sane
<1>5. SaneCohort(k) /\ {d} \X k.receipts \subseteq stored
  BY <1>2, <1>4 DEF SaneCohort
<1> QED
  BY <1>2, <1>3, <1>5, CohortEdited

LEMMA MarkHolds ==
  ASSUME NEW stored, NEW c, Sane(c, stored), NEW d \in Days, Known(c, d)
  PROVE  /\ LET w == [c EXCEPT !.cohorts[d].finalizeQueued = TRUE]
            IN w \in Registry /\ Sane(w, stored) /\ Known(w, d) /\ (Orderly(c) => Orderly(w))
         /\ LET w == [c EXCEPT !.cohorts[d].reviewed = TRUE]
            IN w \in Registry /\ Sane(w, stored) /\ Known(w, d) /\ (Orderly(c) => Orderly(w))
<1> DEFINE k1 == [c.cohorts[d] EXCEPT !.finalizeQueued = TRUE]
           k2 == [c.cohorts[d] EXCEPT !.reviewed = TRUE]
<1>1. c \in Registry /\ c.cohorts \in [Days -> Cohort] /\ c.cohorts[d] \in Cohort
  BY DEF Sane, Registry
<1>2. /\ k1 \in Cohort /\ k1.status = c.cohorts[d].status /\ k1.finalists = c.cohorts[d].finalists
      /\ k1.strategies = c.cohorts[d].strategies /\ k1.receipts = c.cohorts[d].receipts
  BY <1>1 DEF Cohort
<1>3. /\ k2 \in Cohort /\ k2.status = c.cohorts[d].status /\ k2.finalists = c.cohorts[d].finalists
      /\ k2.strategies = c.cohorts[d].strategies /\ k2.receipts = c.cohorts[d].receipts
  BY <1>1 DEF Cohort
<1>4. [c EXCEPT !.cohorts[d].finalizeQueued = TRUE] = Written(c, d, k1, c.budget, c.total)
  BY <1>1 DEF Written, Registry
<1>5. [c EXCEPT !.cohorts[d].reviewed = TRUE] = Written(c, d, k2, c.budget, c.total)
  BY <1>1 DEF Written, Registry
<1> HIDE DEF k1, k2
<1>6. SaneCohort(c.cohorts[d]) /\ {d} \X c.cohorts[d].receipts \subseteq stored
  BY DEF Sane
<1>7. SaneCohort(k1) /\ SaneCohort(k2) /\ {d} \X k1.receipts \subseteq stored /\ {d} \X k2.receipts \subseteq stored
  BY <1>2, <1>3, <1>6 DEF SaneCohort
<1> QED
  BY <1>2, <1>3, <1>4, <1>5, <1>7, CohortEdited

(* A cohort is registered, with its trials charged, once.                     *)
LEMMA RegisteredHolds ==
  ASSUME NEW stored, NEW c, Sane(c, stored), NEW d \in Days, pool \in 1..MaxPools, c.budget.day = d
  PROVE  LET w == Registered(c, d)
         IN w \in Registry /\ Sane(w, stored) /\ (Orderly(c) => Orderly(w))
<1>1. /\ c \in Registry /\ c.cohorts \in [Days -> Cohort] /\ c.cohorts[d] \in Cohort
      /\ c.total \in Nat /\ c.budget \in Budget
  BY DEF Sane, Registry
<1>2. CASE Known(c, d)
  BY <1>1, <1>2 DEF Registered
<1>3. CASE ~Known(c, d)
  <2> DEFINE k == [c.cohorts[d] EXCEPT !.status = "screening_queued", !.parents = pool]
             b == [c.budget EXCEPT !.sampled = Cardinality(Sampled)]
             n == c.total + Cardinality(Trials)
  <2>1. /\ k \in Cohort /\ k.status = "screening_queued" /\ k.strategies = c.cohorts[d].strategies
        /\ k.receipts = c.cohorts[d].receipts
    <3>1. pool \in 0..MaxPools
      BY ResearchAssumption
    <3> QED
      BY <1>1, <3>1 DEF Cohort
  <2>2. b \in Budget /\ b.day = c.budget.day /\ b.finalists = c.budget.finalists
    BY <1>1 DEF Budget
  <2>3. n \in Nat
    BY <1>1, KnownFinite
  <2>4. Registered(c, d) = Written(c, d, k, b, n)
    BY <1>1, <1>3 DEF Registered, Written, Registry
  <2> HIDE DEF k, b, n
  <2>5. /\ c.cohorts[d].status = "none" /\ SaneCohort(c.cohorts[d])
        /\ {d} \X c.cohorts[d].receipts \subseteq stored
    BY <1>3 DEF Sane, Known
  <2>6. SaneCohort(k) /\ {d} \X k.receipts \subseteq stored
    BY <2>1, <2>5 DEF SaneCohort
  <2>7. Sane(Written(c, d, k, b, n), stored)
    BY <1>3, <2>1, <2>2, <2>6, SaneWritten DEF n
  <2>8. ASSUME Orderly(c) PROVE Orderly(Written(c, d, k, b, n))
    <3>1. b.finalists = 0
      BY <2>2, <2>5, <2>8 DEF Orderly
    <3> QED
      BY <1>1, <2>1, <2>2, <2>3, <2>8, <3>1, OrderlyWritten
  <2> QED
    BY <2>4, <2>7, <2>8 DEF Sane
<1> QED
  BY <1>2, <1>3

(* A cohort is committed with the strategies of all its trials and, if its    *)
(* day still has all its finalists, with all of them marked.                  *)
LEMMA CommittedHolds ==
  ASSUME NEW stored, NEW c, Sane(c, stored), NEW d \in Days, NEW marks \in Markings(c, d),
         c.cohorts[d].status = "screening_queued", c.cohorts[d].receipts = Trials
  PROVE  LET w == Committed(c, d, marks)
         IN w \in Registry /\ Sane(w, stored) /\ Known(w, d) /\ (Orderly(c) => Orderly(w))
<1>1. /\ c \in Registry /\ c.cohorts \in [Days -> Cohort] /\ c.cohorts[d] \in Cohort
      /\ c.total \in Nat /\ c.budget \in Budget /\ c.budget.finalists \in 0..FinalistCap
      /\ c.paused \in BOOLEAN
  BY DEF Sane, Registry, Budget
<1>2. Selected(c, d) = Worthy
  BY ResearchAssumption DEF Selected
<1>3. IsFiniteSet(Worthy) /\ Cardinality(Worthy) \in Nat
  BY ResearchAssumption, FS_Subset, FS_CardinalityType
<1>4. FinalistsLeft(c) \in Nat /\ FinalistsLeft(c) <= FinalistCap - c.budget.finalists
  BY <1>1, ResearchAssumption DEF FinalistsLeft
<1>5. /\ marks \subseteq Worthy
      /\ Cardinality(marks) = IF FinalistsLeft(c) < Cardinality(Worthy)
                              THEN FinalistsLeft(c) ELSE Cardinality(Worthy)
  BY <1>2 DEF Markings
<1>6. Cardinality(marks) \in Nat /\ Cardinality(marks) <= FinalistsLeft(c)
  BY <1>3, <1>4, <1>5
<1> DEFINE b == [c.budget EXCEPT !.finalists = c.budget.finalists + Cardinality(marks)]
           k == [c.cohorts[d] EXCEPT !.status = "complete", !.finalists = marks, !.strategies = Worthy]
<1>7. b \in Budget /\ b.day = c.budget.day
  <2>1. c.budget.finalists + Cardinality(marks) \in 0..FinalistCap
    BY <1>1, <1>4, <1>6, ResearchAssumption
  <2> QED
    BY <1>1, <2>1 DEF Budget
<1>8. /\ k \in Cohort /\ k.status = "complete" /\ k.finalists = marks /\ k.strategies = Worthy
      /\ k.receipts = Trials
  BY <1>1, <1>5 DEF Cohort
<1>9. Committed(c, d, marks) = Written(c, d, k, b, c.total)
  BY <1>1, <1>2 DEF Committed, Written, Registry
<1> HIDE DEF b, k
<1>10. SaneCohort(k) /\ {d} \X k.receipts \subseteq stored
  BY <1>8 DEF SaneCohort, Sane
<1>11. Sane(Written(c, d, k, b, c.total), stored)
  BY <1>7, <1>8, <1>10, SaneWritten DEF Known
<1>12. Written(c, d, k, b, c.total).cohorts[d] = k
  BY <1>1, <1>7, <1>8, WrittenHolds
<1>13. ASSUME Orderly(c) PROVE Orderly(Written(c, d, k, b, c.total))
  <2>1. c.budget.day = d /\ c.budget.finalists = 0 /\ ~c.paused
    BY <1>13 DEF Orderly
  <2>2. Cardinality(marks) = Cardinality(Worthy)
    BY <1>3, <1>5, <2>1, ResearchAssumption DEF FinalistsLeft
  <2>3. marks = Worthy
    BY <1>3, <1>5, <2>2, FS_Subset
  <2> QED
    BY <1>1, <1>7, <1>8, <1>13, <2>1, <2>3, OrderlyWritten
<1> QED
  BY <1>8, <1>9, <1>11, <1>12, <1>13 DEF Sane, Known

-----------------------------------------------------------------------------
(* The invariant, action by action: the command.                              *)
LEMMA CommandMoves ==
  ASSUME ResearchIInv, NEW h \in Requests,
         (\E d \in Days : RunCohort(h, d)) \/ GenerateDuplicate(h) \/ SendScreens(h)
  PROVE  ResearchIInv'
<1>1. CASE \E d \in Days : RunCohort(h, d)
  <2>1. PICK d \in Days : RunCohort(h, d)
    BY <1>1
  <2> DEFINE m == <<d, "command">>
             next == [step |-> "generate", on |-> m, copy |-> research, stale |-> FALSE]
  <2>2. turn[h] = Resting /\ Takes(h, "generate", m)
        /\ UNCHANGED <<research, screens, queued, pool, overwritten, interrupted>>
    BY <2>1 DEF RunCohort
  <2>3. research \in Registry
    BY DEF ResearchIInv, ResearchTyped, Sane
  <2>4. next \in CommandTurns
    BY <2>3 DEF CommandTurns, CommandSteps
  <2>5. next \in Turns /\ m \notin Messages
    BY <2>4, CommandHolds
  <2>6. StepHolds(next, screens)
    BY DEF StepHolds, MessageSteps
  <2> QED
    BY <2>2, <2>5, <2>6, Begins
<1>2. CASE GenerateDuplicate(h)
  <2>1. Step(h, "finish") /\ turn[h].step = "generate"
        /\ UNCHANGED <<research, screens, queued, pool, overwritten, interrupted>>
    BY <1>2 DEF GenerateDuplicate
  <2> QED
    BY <2>1, StepsOn, QueueSame DEF CommandSteps, ResearchIInv, ResearchTyped
<1>3. CASE SendScreens(h)
  <2>1. Step(h, "finish") /\ turn[h].step = "send" /\ Sent(Day(h), Trials)
        /\ UNCHANGED <<research, screens, pool, overwritten, interrupted>>
    BY <1>3 DEF SendScreens
  <2>2. QueueGrows
    BY <2>1, QueueSent DEF ResearchIInv
  <2> QED
    BY <2>1, <2>2, StepsOn DEF CommandSteps, ResearchIInv, ResearchTyped
<1> QED
  BY <1>1, <1>2, <1>3

LEMMA CommandSaves ==
  ASSUME ResearchIInv, NEW h \in Requests, SendFails(h) \/ FinishCommand(h)
  PROVE  ResearchIInv'
<1>1. /\ turn[h].step \in CommandSteps /\ SaveCopy(h, turn[h].copy, Resting)
      /\ UNCHANGED <<screens, pool, interrupted>>
  BY DEF SendFails, FinishCommand, CommandSteps
<1>2. turn[h] # Resting /\ Sane(turn[h].copy, screens)
  BY <1>1, TurnTells DEF ResearchIInv, ResearchTyped
<1>3. QueueGrows
  <2>1. CASE queued' = queued
    BY <2>1, QueueSame DEF ResearchIInv
  <2>2. CASE \E sent \in SUBSET Trials : Sent(Day(h), sent)
    BY <2>2, QueueSent DEF ResearchIInv
  <2> QED
    BY <2>1, <2>2 DEF SendFails, FinishCommand
<1>4. Resting \in Turns /\ interrupted' \in BOOLEAN
  BY <1>1 DEF Turns, ResearchIInv, ResearchTyped
<1> QED
  BY <1>1, <1>2, <1>3, <1>4, Saves

(* A cohort that is generated is the only one at work, or it interrupts.      *)
LEMMA GenerateKeeps ==
  ASSUME ResearchIInv, NEW h \in Requests, Generate(h)
  PROVE  ResearchIInv'
<1>1. /\ turn[h].step = "generate" /\ UNCHANGED <<screens, queued, pool>>
      /\ turn[h].copy.cohorts[Day(h)].status # "complete"
      /\ interrupted' = (interrupted \/ \E e \in Days \ {Day(h)} :
                           research.cohorts[e].status = "screening_queued")
  BY DEF Generate
<1>2. turn[h] \in CommandTurns
  BY <1>1, TurnTells DEF ResearchIInv, ResearchTyped, CommandSteps
<1>3. PICK d \in Days : d = Day(h)
  BY <1>2, CommandHolds DEF Day
<1>4. turn[h] # Resting /\ Sane(turn[h].copy, screens)
  BY <1>2, CommandHolds DEF ResearchIInv, ResearchTyped
<1> DEFINE old == turn[h].copy
           c == ResetBudget(old, d)
<1>5. /\ Sane(c, screens) /\ c \in Registry /\ c.paused = old.paused
      /\ c.cohorts = old.cohorts /\ c.budget.day = d
      /\ old.budget.day = d => c = old
      /\ old.budget.day # d => c.budget.finalists = 0
  BY <1>4, SaneReset
<1>6. IF Generates(c, d)
      THEN SaveCopy(h, Registered(c, d), Onward(h, Registered(c, d), "send"))
      ELSE SaveCopy(h, c, Resting)
  BY <1>3 DEF Generate
<1> HIDE DEF c
<1>7. ASSUME ~interrupted', turn[h].copy = research, Orderly(research) PROVE Orderly(c)
  <2>1. old = research /\ old.cohorts[d].status # "complete"
        /\ \A e \in Days : e # d => old.cohorts[e].status # "screening_queued"
    BY <1>1, <1>3, <1>7
  <2>2. c.budget.finalists = 0
    BY <1>5, <1>7, <2>1 DEF Orderly
  <2> QED
    BY <1>5, <1>7, <2>1, <2>2 DEF Orderly
<1>8. pool \in 1..MaxPools /\ interrupted' \in BOOLEAN /\ (interrupted => interrupted') /\ QueueGrows
  BY <1>1, QueueSame DEF ResearchIInv, ResearchTyped
<1>9. CASE Generates(c, d)
  <2> DEFINE w == Registered(c, d)
             next == Onward(h, w, "send")
  <2>1. w \in Registry /\ Sane(w, screens) /\ (Orderly(c) => Orderly(w))
    BY <1>5, <1>8, RegisteredHolds
  <2>2. SaveCopy(h, w, next)
    BY <1>6, <1>9
  <2> HIDE DEF w
  <2>3. /\ next \in Turns /\ next # Resting /\ next.step = "send" /\ next.on = turn[h].on /\ next.copy = w
    BY <1>2, <2>1, OnwardHolds DEF CommandSteps
  <2> HIDE DEF next
  <2>4. StepHolds(next, screens)
    BY <2>3 DEF StepHolds, MessageSteps
  <2> QED
    BY <1>1, <1>4, <1>7, <1>8, <2>1, <2>2, <2>3, <2>4, Saves
<1>10. CASE ~Generates(c, d)
  <2>1. SaveCopy(h, c, Resting) /\ Resting \in Turns
    BY <1>6, <1>10 DEF Turns
  <2> QED
    BY <1>1, <1>4, <1>5, <1>7, <1>8, <2>1, Saves
<1> QED
  BY <1>9, <1>10

LEMMA DeclinesKeep ==
  ASSUME ResearchIInv, NEW h \in Requests, Declines(h)
  PROVE  ResearchIInv'
<1>1. PICK stop \in {turn[h].copy.paused, TRUE} :
        /\ turn' = [turn EXCEPT ![h].step = "finish", ![h].copy.paused = stop]
        /\ interrupted' = (interrupted \/ stop)
  BY DEF Declines
<1>2. turn[h].step = "generate" /\ UNCHANGED <<research, screens, queued, pool, overwritten>>
  BY DEF Declines
<1>3. turn[h] \in CommandTurns /\ turn \in [Requests -> Turns]
  BY <1>2, TurnTells DEF ResearchIInv, ResearchTyped, CommandSteps
<1>4. turn[h] # Resting /\ turn[h].copy \in Registry /\ Sane(turn[h].copy, screens)
  BY <1>3, CommandHolds DEF ResearchIInv, ResearchTyped
<1> DEFINE c == [turn[h].copy EXCEPT !.paused = stop]
           next == [turn[h] EXCEPT !.step = "finish", !.copy = c]
<1>5. stop \in BOOLEAN /\ (~stop => stop = turn[h].copy.paused)
  BY <1>4 DEF Registry
<1>6. /\ c \in Registry /\ c.cohorts = turn[h].copy.cohorts /\ c.total = turn[h].copy.total
      /\ ~stop => c = turn[h].copy
  BY <1>4, <1>5 DEF Registry
<1>7. turn' = [turn EXCEPT ![h] = next]
  <2>1. next = [turn[h] EXCEPT !.step = "finish", !.copy.paused = stop]
    BY <1>3 DEF CommandTurns
  <2> QED
    BY <1>1, <1>3, <2>1
<1> HIDE DEF c
<1>8. /\ next \in CommandTurns /\ next.step = "finish" /\ next.on = turn[h].on /\ next.copy = c
      /\ next.stale = turn[h].stale
  BY <1>3, <1>6 DEF CommandTurns, CommandSteps
<1> HIDE DEF next
<1>9. next \in Turns /\ next # Resting /\ StepHolds(next, screens) /\ Sane(c, screens)
  BY <1>4, <1>6, <1>8, CommandHolds, SaneElsewhere DEF StepHolds, MessageSteps
<1>10. Moves(h, next)
  BY <1>3, <1>7, <1>9, OneMoves
<1>11. ResearchTyped'
  BY <1>1, <1>2, <1>5, <1>8, <1>9, <1>10, TurnsHold DEF ResearchIInv, ResearchTyped
<1>12. DeliveriesCounted'
  BY <1>2, <1>4, <1>8, <1>10, CountsHold, QueueSame DEF ResearchIInv
<1>13. CalmInOrder'
  <2> SUFFICES ASSUME ~interrupted', ~overwritten' PROVE CalmInOrder'
    BY DEF CalmInOrder
  <2>1. next.copy = turn[h].copy
    BY <1>1, <1>6, <1>8
  <2>2. /\ Orderly(research)
        /\ \A g \in Requests : turn[g] # Resting /\ ~turn[g].stale => turn[g].copy = research
    BY <1>1, <1>2 DEF ResearchIInv, CalmInOrder
  <2>3. ASSUME NEW g \in Requests, turn'[g] # Resting, ~turn'[g].stale
        PROVE  turn'[g].copy = research
    <3>1. CASE g = h
      BY <1>4, <1>8, <1>10, <2>1, <2>2, <2>3, <3>1 DEF Moves
    <3>2. CASE g # h
      BY <1>10, <2>2, <2>3, <3>2 DEF Moves, Keeps
    <3> QED
      BY <3>1, <3>2
  <2> QED
    BY <1>2, <2>2, <2>3 DEF CalmInOrder
<1> QED
  BY <1>11, <1>12, <1>13 DEF ResearchIInv

-----------------------------------------------------------------------------
(* The invariant, action by action: the messages.                             *)
LEMMA MessagesTaken ==
  ASSUME ResearchIInv, NEW h \in Requests, NEW d \in Days,
         TakeFinal(h, d) \/ \E t \in Trials : TakeScreen(h, d, t)
  PROVE  ResearchIInv'
<1> DEFINE Taken(s, x) ==
             /\ s \in MessageSteps \ {"receipt"} /\ x \in Trials \cup {Final}
             /\ Takes(h, s, <<d, x>>) /\ Waits(<<d, x>>) /\ Known(research, d)
             /\ s = "screen" => x \in Trials
             /\ s = "commit" => /\ research.cohorts[d].status = "screening_queued"
                               /\ AllScreened(research, d)
<1>1. PICK s, x : Taken(s, x)
  <2>1. CASE \E t \in Trials : TakeScreen(h, d, t)
    <3>1. PICK t \in Trials : TakeScreen(h, d, t)
      BY <2>1
    <3>2. Takes(h, ScreenStep(d, t), <<d, t>>) /\ Waits(<<d, t>>) /\ Known(research, d)
      BY <3>1 DEF TakeScreen, Known
    <3>3. ScreenStep(d, t) \in {"ready", "screen"}
      BY DEF ScreenStep
    <3>4. Taken(ScreenStep(d, t), t)
      BY <3>2, <3>3 DEF MessageSteps
    <3> QED
      BY <3>4
  <2>2. CASE TakeFinal(h, d)
    <3>1. /\ Waits(<<d, Final>>) /\ Known(research, d)
          /\ \/ Takes(h, "review", <<d, Final>>)
             \/ /\ research.cohorts[d].status = "screening_queued" /\ AllScreened(research, d)
                /\ Takes(h, "commit", <<d, Final>>)
      BY <2>2 DEF TakeFinal, Known
    <3>2. Taken("review", Final) \/ Taken("commit", Final)
      BY <3>1 DEF MessageSteps
    <3> QED
      BY <3>2
  <2> QED
    BY <2>1, <2>2
<1>2. turn[h] = Resting /\ UNCHANGED <<research, screens, queued, pool, overwritten, interrupted>>
  BY DEF TakeScreen, TakeFinal
<1> DEFINE m == <<d, x>>
           next == [step |-> s, on |-> m, copy |-> research, stale |-> FALSE]
<1>3. m \in Messages /\ m[1] = d /\ m[2] = x
  BY <1>1 DEF Messages
<1>4. research \in Registry
  BY DEF ResearchIInv, ResearchTyped, Sane
<1> HIDE DEF m
<1>5. next \in MessageTurns
  BY <1>1, <1>3, <1>4 DEF MessageTurns
<1>6. next \in Turns
  BY <1>5, MessageHolds
<1>7. StepHolds(next, screens)
  BY <1>1, <1>3 DEF StepHolds, AllScreened
<1> QED
  BY <1>1, <1>2, <1>6, <1>7, Begins DEF m

LEMMA MessagesGo ==
  ASSUME ResearchIInv, NEW h \in Requests,
         PutScreen(h) \/ QueueFinalizer(h) \/ SubmitReview(h) \/ ReviewBlocked(h)
  PROVE  ResearchIInv'
<1>1. interrupted \in BOOLEAN /\ DeliveriesCounted
  BY DEF ResearchIInv, ResearchTyped
<1>2. CASE PutScreen(h)
  <2>1. /\ Step(h, "receipt") /\ turn[h].step = "screen" /\ turn[h].on \in screens'
        /\ screens \subseteq screens' /\ UNCHANGED <<research, queued, pool, overwritten, interrupted>>
    BY <1>2 DEF PutScreen
  <2> QED
    BY <1>1, <2>1, StepsOn, QueueSame DEF MessageSteps
<1>3. CASE QueueFinalizer(h)
  <2>1. /\ turn[h].step = "ready" /\ UNCHANGED <<research, screens, pool, overwritten, interrupted>>
        /\ \/ Sent(Day(h), {Final}) /\ Step(h, "queued")
           \/ queued' = queued /\ Step(h, "ack")
    BY <1>3 DEF QueueFinalizer
  <2>2. QueueGrows
    BY <1>1, <2>1, QueueSent, QueueSame
  <2>3. PICK s \in {"queued", "ack"} : Step(h, s)
    BY <2>1
  <2> QED
    BY <1>1, <2>1, <2>2, <2>3, StepsOn DEF MessageSteps
<1>4. CASE SubmitReview(h) \/ ReviewBlocked(h)
  <2>1. /\ turn[h].step = "review" /\ UNCHANGED <<research, screens, queued, pool, overwritten>>
        /\ interrupted' \in {interrupted, TRUE}
    BY <1>4 DEF SubmitReview, ReviewBlocked
  <2>2. PICK s \in {"reviewed", "ack"} : Step(h, s)
    BY <1>4 DEF SubmitReview, ReviewBlocked
  <2> QED
    BY <1>1, <2>1, <2>2, StepsOn, QueueSame DEF MessageSteps
<1> QED
  BY <1>2, <1>3, <1>4

(* A receipt, the note that the finalizer is queued, the commit and the note  *)
(* that the review is: each saves what the copy holds.                        *)
LEMMA MessageSaved ==
  ASSUME ResearchIInv, NEW h \in Requests, turn[h] \in MessageTurns,
         NEW w \in Registry, NEW s \in {"ready", "ack", "review"},
         SaveCopy(h, w, Onward(h, w, s)), Sane(w, screens), Known(w, Day(h)),
         Orderly(turn[h].copy) => Orderly(w),
         UNCHANGED <<screens, queued, pool, interrupted>>
  PROVE  ResearchIInv'
<1> DEFINE next == Onward(h, w, s)
<1>1. /\ next \in Turns /\ next # Resting /\ next.step = s /\ next.on = turn[h].on /\ next.copy = w
  BY OnwardHolds DEF MessageSteps
<1>2. SaveCopy(h, w, next)
  OBVIOUS
<1> HIDE DEF next
<1>3. StepHolds(next, screens)
  BY <1>1 DEF StepHolds, Day
<1>4. turn[h] # Resting /\ QueueGrows /\ interrupted' \in BOOLEAN /\ (interrupted => interrupted')
  BY MessageHolds, QueueSame DEF ResearchIInv, ResearchTyped
<1> QED
  BY <1>1, <1>2, <1>3, <1>4, Saves

LEMMA MessagesSave ==
  ASSUME ResearchIInv, NEW h \in Requests,
         SaveReceipt(h) \/ SaveQueued(h) \/ Finalize(h) \/ SaveReviewed(h)
  PROVE  ResearchIInv'
<1>1. turn[h].step \in MessageSteps /\ UNCHANGED <<screens, queued, pool, interrupted>>
  BY DEF SaveReceipt, SaveQueued, Finalize, SaveReviewed, MessageSteps
<1>2. turn[h] \in MessageTurns
  BY <1>1, TurnTells DEF ResearchIInv, ResearchTyped
<1>3. Sane(turn[h].copy, screens) /\ StepHolds(turn[h], screens)
  BY <1>2, MessageHolds DEF ResearchIInv, ResearchTyped
<1>4. PICK d \in Days : d = Day(h)
  BY <1>2, MessageHolds DEF Day
<1>5. Known(turn[h].copy, d)
  BY <1>1, <1>3, <1>4 DEF StepHolds, Day
<1>6. CASE SaveReceipt(h)
  <2>1. turn[h].step = "receipt"
    BY <1>6 DEF SaveReceipt
  <2>2. PICK t \in Trials : t = Trial(h)
    BY <1>3, <2>1 DEF StepHolds, Trial
  <2>3. <<d, t>> \in screens
    BY <1>2, <1>3, <1>4, <2>1, <2>2, MessageHolds DEF StepHolds, Day, Trial
  <2> DEFINE w == [turn[h].copy EXCEPT !.cohorts[d].receipts = @ \cup {t}]
  <2>4. w \in Registry /\ Sane(w, screens) /\ Known(w, d) /\ (Orderly(turn[h].copy) => Orderly(w))
    BY <1>3, <1>5, <2>3, ReceiptHolds
  <2>5. SaveCopy(h, w, Onward(h, w, "ready"))
    BY <1>4, <1>6, <2>2 DEF SaveReceipt
  <2> HIDE DEF w
  <2> QED
    BY <1>1, <1>2, <1>4, <2>4, <2>5, MessageSaved
<1>7. CASE SaveQueued(h)
  <2> DEFINE w == [turn[h].copy EXCEPT !.cohorts[d].finalizeQueued = TRUE]
  <2>1. w \in Registry /\ Sane(w, screens) /\ Known(w, d) /\ (Orderly(turn[h].copy) => Orderly(w))
    BY <1>3, <1>5, MarkHolds
  <2>2. SaveCopy(h, w, Onward(h, w, "ack"))
    BY <1>4, <1>7 DEF SaveQueued
  <2> HIDE DEF w
  <2> QED
    BY <1>1, <1>2, <1>4, <2>1, <2>2, MessageSaved
<1>8. CASE SaveReviewed(h)
  <2> DEFINE w == [turn[h].copy EXCEPT !.cohorts[d].reviewed = TRUE]
  <2>1. w \in Registry /\ Sane(w, screens) /\ Known(w, d) /\ (Orderly(turn[h].copy) => Orderly(w))
    BY <1>3, <1>5, MarkHolds
  <2>2. SaveCopy(h, w, Onward(h, w, "ack"))
    BY <1>4, <1>8 DEF SaveReviewed
  <2> HIDE DEF w
  <2> QED
    BY <1>1, <1>2, <1>4, <2>1, <2>2, MessageSaved
<1>9. CASE Finalize(h)
  <2>1. turn[h].step = "commit"
    BY <1>9 DEF Finalize
  <2>2. PICK marks \in Markings(turn[h].copy, d) :
          SaveCopy(h, Committed(turn[h].copy, d, marks), Onward(h, Committed(turn[h].copy, d, marks), "review"))
    BY <1>4, <1>9 DEF Finalize
  <2>3. /\ turn[h].copy.cohorts[d].status = "screening_queued"
        /\ turn[h].copy.cohorts[d].receipts = Trials
    BY <1>3, <1>4, <2>1 DEF StepHolds, Day
  <2> DEFINE w == Committed(turn[h].copy, d, marks)
  <2>4. w \in Registry /\ Sane(w, screens) /\ Known(w, d) /\ (Orderly(turn[h].copy) => Orderly(w))
    BY <1>3, <2>3, CommittedHolds
  <2>5. SaveCopy(h, w, Onward(h, w, "review"))
    BY <2>2
  <2> HIDE DEF w
  <2> QED
    BY <1>1, <1>2, <1>4, <2>4, <2>5, MessageSaved
<1> QED
  BY <1>6, <1>7, <1>8, <1>9

(* Restarts, the operator's pause and the parents' changes.                   *)
LEMMA OthersKeep ==
  ASSUME ResearchIInv, RestartAll \/ PauseOrResume \/ ChangeParents \/ UNCHANGED researchVars
  PROVE  ResearchIInv'
<1>1. CASE RestartAll
  <2>1. turn' = [h \in Requests |-> Resting]
        /\ UNCHANGED <<research, screens, queued, pool, overwritten, interrupted>>
    BY <1>1 DEF RestartAll
  <2>2. ASSUME NEW m \in Messages PROVE Handled(m)' <= queued'[m]
    <3>1. Holding(m)' \subseteq Holding(m)
      BY <2>1 DEF Holding
    <3>2. Handled(m)' \in Nat /\ Handled(m)' <= Handled(m)
      BY <3>1, HoldsLess
    <3> QED
      BY <2>1, <3>2, HoldingFinite DEF ResearchIInv, DeliveriesCounted
  <2> QED
    BY <2>1, <2>2 DEF ResearchIInv, ResearchTyped, DeliveriesCounted, CalmInOrder, Turns
<1>2. CASE PauseOrResume
  <2>1. /\ research' = [research EXCEPT !.paused = ~@]
        /\ turn' = [h \in Requests |->
                      IF turn[h] = Resting THEN Resting ELSE [turn[h] EXCEPT !.stale = TRUE]]
        /\ interrupted' = TRUE /\ UNCHANGED <<screens, queued, pool, overwritten>>
    BY <1>2 DEF PauseOrResume
  <2>2. Sane(research, screens) /\ research \in Registry /\ turn \in [Requests -> Turns]
    BY DEF ResearchIInv, ResearchTyped, Sane
  <2>3. /\ research' \in Registry /\ research'.cohorts = research.cohorts
        /\ research'.total = research.total
    BY <2>1, <2>2 DEF Registry
  <2>4. Sane(research', screens')
    <3>1. ASSUME NEW r, r = research' PROVE Sane(r, screens)
      BY <2>2, <2>3, <3>1, SaneElsewhere
    <3> QED
      BY <2>1, <3>1
  <2>5. ASSUME NEW h \in Requests
        PROVE  /\ turn'[h] \in Turns
               /\ turn[h] = Resting => turn'[h] = Resting
               /\ turn[h] # Resting => /\ turn'[h] # Resting /\ turn'[h].step = turn[h].step
                                       /\ turn'[h].on = turn[h].on /\ turn'[h].copy = turn[h].copy
    <3>1. CASE turn[h] = Resting
      BY <2>1, <3>1 DEF Turns
    <3>2. CASE turn[h] # Resting
      <4>1. turn'[h] = [turn[h] EXCEPT !.stale = TRUE]
        BY <2>1, <3>2
      <4> QED
        BY <2>2, <3>2, <4>1, StaleHolds
    <3> QED
      BY <3>1, <3>2
  <2>6. turn' \in [Requests -> Turns]
    BY <2>1, <2>5
  <2>7. ASSUME NEW h \in Requests, turn'[h] # Resting
        PROVE  Sane(turn'[h].copy, screens') /\ StepHolds(turn'[h], screens')
    <3>1. /\ turn[h] # Resting /\ turn'[h].step = turn[h].step
          /\ turn'[h].on = turn[h].on /\ turn'[h].copy = turn[h].copy
      BY <2>5, <2>7
    <3>2. Sane(turn[h].copy, screens) /\ StepHolds(turn[h], screens)
      BY <3>1 DEF ResearchIInv, ResearchTyped
    <3> QED
      BY <2>1, <3>1, <3>2 DEF StepHolds
  <2>8. ASSUME NEW m \in Messages PROVE Handled(m)' <= queued'[m]
    <3>1. Holding(m)' \subseteq Holding(m)
      BY <2>5 DEF Holding
    <3>2. Handled(m)' \in Nat /\ Handled(m)' <= Handled(m)
      BY <3>1, HoldsLess
    <3> QED
      BY <2>1, <3>2, HoldingFinite DEF ResearchIInv, DeliveriesCounted
  <2> QED
    BY <2>1, <2>4, <2>6, <2>7, <2>8 DEF ResearchIInv, ResearchTyped, DeliveriesCounted, CalmInOrder
<1>3. CASE ChangeParents \/ UNCHANGED researchVars
  <2>1. /\ pool' \in 1..MaxPools
        /\ UNCHANGED <<research, screens, queued, turn, overwritten, interrupted>>
    BY <1>3, ResearchAssumption DEF ChangeParents, researchVars, ResearchIInv, ResearchTyped
  <2>2. \A m : Handled(m)' = Handled(m)
    BY <2>1 DEF Handled
  <2> QED
    BY <2>1, <2>2 DEF ResearchIInv, ResearchTyped, DeliveriesCounted, CalmInOrder
<1> QED
  BY <1>1, <1>2, <1>3

LEMMA ResearchStep ==
  ASSUME ResearchIInv, [ResearchNext]_researchVars
  PROVE  ResearchIInv'
<1>1. ASSUME NEW h \in Requests, Progress(h) PROVE ResearchIInv'
  BY <1>1, CommandMoves, GenerateKeeps, CommandSaves, MessagesTaken, MessagesGo, MessagesSave,
     AcknowledgeKeeps DEF Progress
<1>2. ASSUME NEW h \in Requests,
             \/ \E d \in Days : RunCohort(h, d)
             \/ Declines(h) \/ SendFails(h) \/ ReviewBlocked(h) \/ Breaks(h)
      PROVE  ResearchIInv'
  BY <1>2, CommandMoves, CommandSaves, DeclinesKeep, MessagesGo, BreaksKeep
<1>3. ASSUME \E d \in Days, t \in Trials : DeadLetterScreen(d, t) PROVE ResearchIInv'
  BY <1>3, DeadLetterKeeps
<1> QED
  BY <1>1, <1>2, <1>3, OthersKeep DEF ResearchNext

LEMMA ResearchStart == ResearchInit => ResearchIInv
<1> SUFFICES ASSUME ResearchInit PROVE ResearchIInv
  OBVIOUS
<1> DEFINE first == [d \in Days |-> NoCohort]
<1>1. NoCohort \in Cohort /\ NoCohort.status = "none" /\ NoCohort.receipts = {} /\ NoCohort.strategies = {}
  BY ResearchAssumption DEF NoCohort, Cohort
<1>2. NoBudget \in Budget /\ NoBudget.day = 0 /\ NoBudget.finalists = 0
  BY ResearchAssumption DEF NoBudget, Budget
<1>3. first \in [Days -> Cohort] /\ \A d \in Days : first[d] = NoCohort
  BY <1>1
<1> HIDE DEF first
<1>4. research = [paused |-> FALSE, budget |-> NoBudget, total |-> 0, cohorts |-> first]
  BY DEF ResearchInit, first
<1>5. /\ research \in Registry /\ research.paused = FALSE /\ research.budget = NoBudget
      /\ research.total = 0 /\ research.cohorts = first
  BY <1>2, <1>3, <1>4 DEF Registry
<1>6. KnownDays(research) = {}
  BY <1>1, <1>3, <1>5 DEF KnownDays, Known
<1>7. research.total = Cardinality(Trials) * Cardinality(KnownDays(research))
  BY <1>5, <1>6, FS_EmptySet, KnownFinite
<1>8. Sane(research, screens)
  BY <1>1, <1>3, <1>5, <1>7 DEF Sane, SaneCohort
<1>9. turn \in [Requests -> Turns] /\ \A h \in Requests : turn[h] = Resting
  BY DEF ResearchInit, Turns
<1>10. pool \in 1..MaxPools /\ overwritten = FALSE /\ interrupted = FALSE
  BY ResearchAssumption DEF ResearchInit
<1>11. ResearchTyped
  BY <1>8, <1>9, <1>10 DEF ResearchTyped
<1>12. DeliveriesCounted
  <2>1. \A m \in Messages : Handled(m) = 0
    <3>1. \A m : Holding(m) = {}
      BY <1>9 DEF Holding
    <3> QED
      BY <3>1, HoldingFinite, FS_EmptySet
  <2> QED
    BY <2>1 DEF DeliveriesCounted, ResearchInit
<1>13. CalmInOrder
  BY <1>1, <1>2, <1>3, <1>5, <1>9 DEF CalmInOrder, Orderly
<1> QED
  BY <1>11, <1>12, <1>13 DEF ResearchIInv

(* The invariant of the cohorts: every copy is sane, deliveries in hand are in *)
(* the queue, and the day's cohort has its budget while nothing interrupts.   *)
THEOREM ResearchInvariant == ResearchInit /\ [][ResearchNext]_researchVars => []ResearchIInv
<1>1. ResearchIInv /\ [ResearchNext]_researchVars => ResearchIInv'
  BY ResearchStep
<1> QED
  BY <1>1, ResearchStart, PTL

(* Whatever is redelivered, cut off or overwritten, trials are charged once   *)
(* and strategies come from the screen of the whole cohort, and in peace each *)
(* of them is a marked finalist (CohortIsWhole).                              *)
THEOREM CohortsAreWhole == ResearchSpec => []CohortIsWhole
<1>1. ResearchIInv => CohortIsWhole
  <2> SUFFICES ASSUME ResearchIInv PROVE CohortIsWhole
    OBVIOUS
  <2>1. Sane(research, screens) /\ CalmInOrder
    BY DEF ResearchIInv, ResearchTyped
  <2>2. research.total = Cardinality(Trials) * Cardinality({d \in Days : Known(research, d)})
    BY <2>1 DEF Sane, KnownDays
  <2>3. \A d \in Days : SaneCohort(research.cohorts[d])
    BY <2>1 DEF Sane
  <2>4. \A d \in Days : research.cohorts[d].status = "complete" =>
          interrupted \/ overwritten \/ research.cohorts[d].finalists = Worthy
    BY <2>1 DEF CalmInOrder, Orderly
  <2> QED
    BY <2>2, <2>3, <2>4 DEF CohortIsWhole, SaneCohort
<1> QED
  BY <1>1, ResearchInvariant, PTL DEF ResearchSpec

(* Cohorts and the day's budget keep their shape and their limits, a saved    *)
(* receipt names an artifact that is stored, and no delivery is acknowledged  *)
(* more often than it was sent (ResearchTypeOK).                              *)
THEOREM ResearchWellFormed == ResearchInit /\ [][ResearchNext]_researchVars => []ResearchTypeOK
<1>1. ResearchIInv => ResearchTypeOK
  BY DEF ResearchIInv, ResearchTyped, DeliveriesCounted, Sane, Registry, Budget, ResearchTypeOK
<1> QED
  BY <1>1, ResearchInvariant, PTL

-----------------------------------------------------------------------------
(* Both, of which one moves: each behaves as it does alone.                   *)
THEOREM QueuedWorkComponents ==
  QueuedWorkSpec => BackfillSpec /\ ResearchInit /\ [][ResearchNext]_researchVars
<1>1. QueuedWorkInit => BackfillInit /\ ResearchInit
  BY DEF QueuedWorkInit
<1>2. [QueuedWorkNext]_queuedWorkVars => [BackfillNext]_backfillVars /\ [ResearchNext]_researchVars
  BY DEF QueuedWorkNext, queuedWorkVars
<1> QED
  BY <1>1, <1>2, PTL DEF QueuedWorkSpec, BackfillSpec

(* The backfill's rows and datasets and the cohorts stay well-formed side by  *)
(* side (QueuedWorkTypeOK).                                                   *)
THEOREM QueuedWorkWellFormed == QueuedWorkSpec => []QueuedWorkTypeOK
<1>1. BackfillTypeOK /\ ResearchTypeOK => QueuedWorkTypeOK
  BY DEF QueuedWorkTypeOK
<1> QED
  BY <1>1, QueuedWorkComponents, BackfillWellFormed, ResearchWellFormed, PTL
=============================================================================

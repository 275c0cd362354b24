------------------------------ MODULE Backfill ------------------------------
(* The historical backfill (startMarketBackfill and                           *)
(* processMarketBackfillPartition in worker/index.js, the repository of       *)
(* worker/market-data.js).  A backfill is one job for every symbol and month; *)
(* the queue delivers each job at least once, its handler writes a partition  *)
(* and marks the job, and whoever finds all jobs complete seals the dataset.  *)
(* A handler works on the copy of the object's state it loaded, interleaves   *)
(* with the others at every await and saves that copy whole.  The counters    *)
(* and the status shown to the operator are left out.                         *)
EXTENDS Integers, FiniteSets

CONSTANTS
  Backfills,  \* identities: universe, calendar and bounds
  Months,     \* jobs of a backfill, a symbol and a month each
  Handlers,   \* requests of the object
  Versions,   \* contents the source may return for a month
  None,
  MaxStarts, MaxBackfillFaults  \* bounds

ASSUME BackfillAssumption ==
  None \notin Backfills /\ IsFiniteSet(Handlers) /\ MaxStarts \in Nat

VARIABLES
  jobRows,    \* D1 market_backfill_jobs
  partitions, \* D1 market_partitions, their objects in R2
  manifests,  \* D1 market_dataset_manifests
  backfill,   \* the saved state.marketData.backfill
  messages,   \* the queue: unacknowledged messages of each job
  request,    \* what each handler is doing
  starts,
  overlapped, \* history: two requests were at work at once
  reopened,   \* history: a complete job was marked again while a request that
              \* had counted it was about to list the partitions
  backfillFaults

backfillVars ==
  <<jobRows, partitions, manifests, backfill, messages, request, starts, overlapped, reopened,
    backfillFaults>>

Jobs == Backfills \X Months
JobsOf(f) == {f} \X Months
Waiting == [step |-> "waiting"]

BackfillInit ==
  /\ jobRows = [j \in Jobs |-> [status |-> "none", version |-> None]]
  /\ partitions = {} /\ manifests = {}
  /\ backfill = [id |-> None, dataset |-> None]
  /\ messages = [j \in Jobs |-> 0]
  /\ request = [h \in Handlers |-> Waiting]
  /\ starts = 0 /\ overlapped = FALSE /\ reopened = FALSE /\ backfillFaults = 0

-----------------------------------------------------------------------------
Becomes(h, r) ==
  /\ request' = [request EXCEPT ![h] = r]
  /\ overlapped' = (overlapped \/ \E g \in Handlers \ {h} : r # Waiting /\ request[g] # Waiting)

Goto(h, step) == Becomes(h, [request[h] EXCEPT !.step = step])

\* markBackfillJob on the job in hand, whatever became of it; and the requests
\* that have counted a backfill's jobs and are about to list them.
Counted(f) == {h \in Handlers : request[h].step = "list" /\ request[h].job[1] = f}

Mark(h, status) ==
  LET j == request[h].job IN
  /\ jobRows' = [jobRows EXCEPT ![j].status = status]
  /\ reopened' = (reopened \/ (jobRows[j].status = "complete" /\ Counted(j[1]) \ {h} # {}))

(* startMarketBackfill: the rows are inserted if absent, the identity is      *)
(* saved, the messages are sent.                                              *)
Started(f) ==
  [id |-> f, dataset |-> IF backfill.id = f THEN backfill.dataset ELSE None]

Inserted(f) ==
  [j \in Jobs |-> IF j \in JobsOf(f) /\ jobRows[j].status = "none"
                  THEN [status |-> "queued", version |-> None] ELSE jobRows[j]]

Start(h, f) ==
  /\ request[h] = Waiting /\ starts < MaxStarts
  /\ jobRows' = Inserted(f) /\ starts' = starts + 1
  /\ Becomes(h, [step |-> "saveStart", copy |-> Started(f)])
  /\ UNCHANGED <<partitions, manifests, backfill, messages, reopened, backfillFaults>>

SaveStart(h) ==
  /\ request[h].step = "saveStart"
  /\ backfill' = request[h].copy
  /\ Goto(h, "send")
  /\ UNCHANGED <<jobRows, partitions, manifests, messages, starts, reopened, backfillFaults>>

Send(h) ==
  /\ request[h].step = "send"
  /\ \E sent \in SUBSET JobsOf(request[h].copy.id) :
       /\ messages' = [j \in Jobs |-> IF j \in sent THEN messages[j] + 1 ELSE messages[j]]
       /\ IF sent = JobsOf(request[h].copy.id) THEN UNCHANGED backfillFaults
          ELSE backfillFaults < MaxBackfillFaults /\ backfillFaults' = backfillFaults + 1
  /\ Becomes(h, Waiting)
  /\ UNCHANGED <<jobRows, partitions, manifests, backfill, starts, reopened>>

-----------------------------------------------------------------------------
(* processMarketBackfillPartition.  Only the universe of the message is       *)
(* compared with the active backfill, and all backfills share it.             *)
InHand(j) == {h \in Handlers : request[h] # Waiting /\ "job" \in DOMAIN request[h] /\ request[h].job = j}


Duplicate(j) == jobRows[j].status = "complete"

Receive(h, j) ==
  /\ request[h] = Waiting /\ backfill.id # None
  /\ messages[j] > Cardinality(InHand(j))
  /\ Becomes(h, [step |-> IF Duplicate(j) THEN "sync" ELSE "claim", job |-> j,
                 copy |-> backfill, attempt |-> ~Duplicate(j), parts |-> {}])
  /\ UNCHANGED <<jobRows, partitions, manifests, backfill, messages, starts, reopened, backfillFaults>>

MarkRunning(h) ==
  /\ request[h].step = "claim"
  /\ Mark(h, "running")
  /\ Goto(h, "fetch")
  /\ UNCHANGED <<partitions, manifests, backfill, messages, starts, backfillFaults>>

\* The audited month is written before the job names it.
SavePartition(h) ==
  /\ request[h].step = "fetch"
  /\ \E v \in Versions :
       LET part == [job |-> request[h].job, version |-> v]
       IN /\ partitions' = partitions \cup {part}
          /\ Becomes(h, [request[h] EXCEPT !.step = "mark", !.parts = {part}])
  /\ UNCHANGED <<jobRows, manifests, backfill, messages, starts, reopened, backfillFaults>>

MarkComplete(h) ==
  /\ request[h].step = "mark"
  /\ \E part \in request[h].parts :
       jobRows' = [jobRows EXCEPT ![part.job] = [status |-> "complete", version |-> part.version]]
  /\ Goto(h, "sync")
  /\ UNCHANGED <<partitions, manifests, backfill, messages, starts, reopened, backfillFaults>>

AllComplete(f) == \A j \in JobsOf(f) : jobRows[j].status = "complete"

\* syncBackfillProgress, and the early return of finalizeBackfillDataset.
Sync(h) ==
  /\ request[h].step = "sync"
  /\ Goto(h, IF AllComplete(request[h].job[1]) /\ request[h].copy.dataset = None
             THEN "list" ELSE "save")
  /\ UNCHANGED <<jobRows, partitions, manifests, backfill, messages, starts, reopened, backfillFaults>>

\* Mutant: every partition written for the backfill is listed.
ListedAll(f) == {p \in partitions : p.job \in JobsOf(f)}

Listed(f) ==
  {p \in partitions : /\ p.job \in JobsOf(f) /\ jobRows[p.job].status = "complete"
                      /\ jobRows[p.job].version = p.version}

List(h) ==
  /\ request[h].step = "list"
  /\ Becomes(h, [request[h] EXCEPT !.step = "seal", !.parts = Listed(request[h].job[1])])
  /\ UNCHANGED <<jobRows, partitions, manifests, backfill, messages, starts, reopened, backfillFaults>>

\* The bounds are those of the active backfill.
Seal(h) ==
  /\ request[h].step = "seal"
  /\ LET manifest == [bounds |-> request[h].copy.id, parts |-> request[h].parts]
     IN /\ manifests' = manifests \cup {manifest}
        /\ Becomes(h, [request[h] EXCEPT !.step = "save", !.copy.dataset = manifest])
  /\ UNCHANGED <<jobRows, partitions, backfill, messages, starts, reopened, backfillFaults>>

SaveAndAck(h) ==
  /\ request[h].step = "save"
  /\ backfill' = request[h].copy
  /\ messages' = [messages EXCEPT ![request[h].job] = @ - 1]
  /\ Becomes(h, Waiting)
  /\ UNCHANGED <<jobRows, partitions, manifests, starts, reopened, backfillFaults>>

-----------------------------------------------------------------------------
(* An error in the attempt marks the job failed, whatever became of it, saves *)
(* the state and leaves the message to be delivered again.                    *)
Fails(h) ==
  /\ request[h].step \in {"claim", "fetch", "mark", "sync", "list", "seal"} /\ request[h].attempt
  /\ backfillFaults < MaxBackfillFaults /\ backfillFaults' = backfillFaults + 1
  /\ Mark(h, "failed")
  /\ Goto(h, "saveFailed")
  /\ UNCHANGED <<partitions, manifests, backfill, messages, starts>>

SaveFailed(h) ==
  /\ request[h].step = "saveFailed"
  /\ backfill' = request[h].copy
  /\ Becomes(h, Waiting)
  /\ UNCHANGED <<jobRows, partitions, manifests, messages, starts, reopened, backfillFaults>>

\* A write of the request itself fails: its answer is an error and no more.
Drops(h) ==
  /\ request[h] # Waiting
  /\ backfillFaults < MaxBackfillFaults /\ backfillFaults' = backfillFaults + 1
  /\ Becomes(h, Waiting)
  /\ UNCHANGED <<jobRows, partitions, manifests, backfill, messages, starts, reopened>>

RestartObject ==
  /\ \E h \in Handlers : request[h] # Waiting
  /\ backfillFaults < MaxBackfillFaults /\ backfillFaults' = backfillFaults + 1
  /\ request' = [h \in Handlers |-> Waiting]
  /\ UNCHANGED <<jobRows, partitions, manifests, backfill, messages, starts, overlapped, reopened>>

\* The answer was saved and its acknowledgement lost.
AckLost(h) ==
  /\ request[h].step = "save"
  /\ backfillFaults < MaxBackfillFaults /\ backfillFaults' = backfillFaults + 1
  /\ backfill' = request[h].copy
  /\ Becomes(h, Waiting)
  /\ UNCHANGED <<jobRows, partitions, manifests, messages, starts, reopened>>

Proceed(h) ==
  \/ SaveStart(h) \/ Send(h)
  \/ \E j \in Jobs : Receive(h, j)
  \/ MarkRunning(h) \/ SavePartition(h) \/ MarkComplete(h)
  \/ Sync(h) \/ List(h) \/ Seal(h) \/ SaveAndAck(h) \/ SaveFailed(h)

BackfillNext ==
  \/ \E h \in Handlers :
       \/ \E f \in Backfills : Start(h, f)
       \/ Proceed(h) \/ Fails(h) \/ Drops(h) \/ AckLost(h)
  \/ RestartObject

BackfillSpec == BackfillInit /\ [][BackfillNext]_backfillVars

-----------------------------------------------------------------------------
Partition == [job: Jobs, version: Versions]
Manifest == [bounds: Backfills, parts: SUBSET Partition]

(* Rows, manifests and copies have the shape their tables and the state give  *)
(* them, and a complete job names a partition that was written                *)
(* (market-data.js, savePartition before markBackfillJob).                    *)
BackfillTypeOK ==
  /\ \A j \in Jobs : jobRows[j].status = "complete" =>
       [job |-> j, version |-> jobRows[j].version] \in partitions
  /\ partitions \subseteq Partition
  /\ \A m \in manifests : m.bounds \in Backfills /\ m.parts \subseteq partitions
  /\ backfill.id \in Backfills \cup {None}
  /\ backfill.dataset \in manifests \cup {None}
  /\ \A j \in Jobs : messages[j] \in 0..MaxStarts

Names(m, j) == Cardinality({p \in m.parts : p.job = j})

(* A dataset names exactly one partition for each job of one backfill and no   *)
(* other, though jobs are retried with another content, marked failed after    *)
(* they were complete, started again, and handled while other deliveries of    *)
(* this and other backfills are at work; unless a complete job was marked      *)
(* again between a request's count of the jobs and its list of them            *)
(* (finalizeBackfillDataset, "dataset sealed").  The bounds the dataset is     *)
(* sealed with may be another backfill's: a message left of an older backfill  *)
(* passes the comparison of the universe and seals with the active bounds.     *)
SealedIsWhole ==
  reopened \/ \A m \in manifests : \E f \in Backfills : \A j \in Jobs :
                Names(m, j) = IF j \in JobsOf(f) THEN 1 ELSE 0

AllSent(f) == \A j \in JobsOf(f) : messages[j] > 0

=============================================================================

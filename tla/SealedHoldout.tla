---------------------------- MODULE SealedHoldout ---------------------------
(***************************************************************************)
(* The one-time sealed holdout evaluation (worker/research-contract.js,    *)
(* worker/backtest-queue.js and validateRemote, enqueueBacktestRun,        *)
(* processQueuedBacktestShard, finalizeQueuedBacktest and invokeBacktrader *)
(* of worker/index.js).  A lineage is burned in a ledger before its sealed *)
(* slice is read, the wire payload is frozen before the service is called, *)
(* and one terminal outcome is recorded.  A dataset that is not partitioned *)
(* is evaluated by the validating request itself; a partitioned one by     *)
(* queue messages, one per shard and one that finalizes the run.           *)
(*                                                                         *)
(* Every request works on its own copy of the Durable Object's state and    *)
(* saves it whole.  One strategy stands for one lineage with frozen DNA and *)
(* policy; all strategies use one dataset.  The queue redelivers a message  *)
(* until it is acknowledged.                                               *)
(***************************************************************************)
EXTENDS Naturals, FiniteSets

CONSTANTS
  Strategy,
  Layout,       \* the datasets considered, see layout
  Request,      \* concurrent requests in the Durable Object
  Verdict,      \* incubation, holdout_reject, inconclusive
  NoOutcome,
  MaxFaults     \* bound: restarts, lost acks, service and storage failures

ASSUME LayoutAssumption ==
  \A l \in Layout :
    /\ l.partitioned \in BOOLEAN
    /\ UNION l.groups = Strategy
    /\ \A g, h \in l.groups : g # h => g \intersect h = {}
ASSUME NoOutcomeAssumption == NoOutcome \notin Verdict
ASSUME MaxFaultsAssumption == MaxFaults \in Nat

VARIABLES
  layout,  \* partitioned: dataset.storage_family = "partitioned-v1"; groups:
           \* the strategies that shardBacktestStrategies puts together
  disk,    \* the Durable Object's stored state
  queue,   \* backtest messages not yet acknowledged
  req,     \* the local variables of each request
  read,    \* strategies whose sealed slice has been loaded
  sent,    \* payloads the backtest service has received, per strategy
  burns,       \* history: lineages whose burn has been on disk
  behind,      \* history: requests that loaded before another's save
  overwritten, \* history: one of them saved its older copy
  faults

history == <<burns, behind, overwritten>>
vars == <<layout, disk, queue, req, read, sent, history, faults>>

\* A payload is the set of strategies evaluated in one service call: job_id
\* and payload_hash are hashes of it.
Payload == SUBSET Strategy

\* sliced: dataset.holdout_hash was known when job_id was computed; wire {}:
\* no wire_jobs; artifact: the payload the outcome was drawn from.
Reservation == [burned: BOOLEAN, sliced: BOOLEAN, wire: Payload,
                outcome: Verdict \union {NoOutcome}, artifact: Payload]

Run == [status: {"absent", "queued", "finalized"}, receipts: SUBSET Payload]

\* phase of a strategy: state "validation", before it, or after its outcome.
State == [phase: [Strategy -> {"earlier", "validation", "decided"}],
          ledger: [Strategy -> Reservation],
          sliced: BOOLEAN,
          runs: [Payload -> Run]]

Message == [kind: {"shard", "finalize"}, run: Payload, shard: Payload]
NoMessage == [kind |-> "none", run |-> {}, shard |-> {}]

Steps == {"idle", "burn", "enqueue", "send", "read", "bind", "service",
          "settle", "receipt", "close", "answer"}

TypeOK ==
  /\ layout \in Layout
  /\ disk \in State
  /\ queue \subseteq Message
  /\ req \in [Request -> [at: Steps, msg: Message \union {NoMessage},
                          set: Payload, mem: State]]
  /\ read \subseteq Strategy
  /\ sent \subseteq Strategy \X Payload
  /\ burns \subseteq Strategy /\ behind \subseteq Request /\ overwritten \in BOOLEAN
  /\ faults \in 0..MaxFaults

Unburned == [burned |-> FALSE, sliced |-> FALSE, wire |-> {},
             outcome |-> NoOutcome, artifact |-> {}]

Fresh == [phase |-> [s \in Strategy |-> "earlier"],
          ledger |-> [s \in Strategy |-> Unburned],
          sliced |-> FALSE,
          runs |-> [p \in Payload |-> [status |-> "absent", receipts |-> {}]]]

NoRequest == [at |-> "idle", msg |-> NoMessage, set |-> {}, mem |-> Fresh]

Init ==
  /\ layout \in Layout
  /\ disk = Fresh
  /\ queue = {}
  /\ req = [q \in Request |-> NoRequest]
  /\ read = {}
  /\ sent = {}
  /\ burns = {} /\ behind = {} /\ overwritten = FALSE
  /\ faults = 0

\* shardBacktestStrategies: the shards of a set of strategies.
Shards(S) == {S \intersect g : g \in layout.groups} \ {{}}
PayloadOf(S, s) == CHOOSE p \in Shards(S) : s \in p

Goto(q, step) == req' = [req EXCEPT ![q].at = step]
Keep(q, step, m) == req' = [req EXCEPT ![q].at = step, ![q].mem = m]
Finish(q) == req' = [req EXCEPT ![q] = NoRequest]

\* The whole state is loaded, and the whole copy is saved.
Load(q, r) ==
  /\ req' = [req EXCEPT ![q] = r]
  /\ behind' = behind \ {q}
  /\ UNCHANGED <<burns, overwritten>>

Save(q, m) ==
  /\ disk' = m
  /\ burns' = burns \union {s \in Strategy : m.ledger[s].burned}
  /\ behind' = {p \in Request \ {q} : req[p].at # "idle"}
  /\ overwritten' = (overwritten \/ q \in behind)

\* A review moves a strategy to validation; its command saves when it is done.
Admit(q, s) ==
  /\ req[q].at = "idle"
  /\ disk.phase[s] = "earlier"
  /\ Load(q, [NoRequest EXCEPT !.at = "answer", !.mem = [disk EXCEPT !.phase[s] = "validation"]])
  /\ UNCHANGED <<layout, disk, queue, read, sent, faults>>

-----------------------------------------------------------------------------
(* validateRemote: authorization and the first durable checkpoint. *)

\* Mutant: a burned lineage is refused even to the retry of its own job.
AuthorizesOnce(m, s) == ~m.ledger[s].burned

\* authorizeSealedHoldout: a new reservation, or a retry whose job id, which
\* hashes the holdout hash known at the time, is the one that was burned.
Authorizes(m, s) ==
  \/ ~m.ledger[s].burned
  \/ m.ledger[s].outcome = NoOutcome /\ m.ledger[s].sliced = m.sliced

Admitted(m) == {s \in Strategy : m.phase[s] = "validation" /\ Authorizes(m, s)}

Burned(m, S) ==
  [m EXCEPT !.ledger = [s \in Strategy |->
     IF s \in S /\ ~m.ledger[s].burned
     THEN [Unburned EXCEPT !.burned = TRUE, !.sliced = m.sliced]
     ELSE m.ledger[s]]]

Validate(q) ==
  LET S == Admitted(disk) IN
  /\ req[q].at = "idle"
  /\ S # {}
  /\ Load(q, [at |-> "burn", msg |-> NoMessage, set |-> S, mem |-> Burned(disk, S)])
  /\ UNCHANGED <<layout, disk, queue, read, sent, faults>>

\* Mutant: the first checkpoint is not awaited.
SaveBurnSkipped(q) ==
  /\ req[q].at = "burn"
  /\ Goto(q, IF layout.partitioned THEN "enqueue" ELSE "read")
  /\ UNCHANGED <<layout, disk, queue, read, sent, history, faults>>

SaveBurn(q) ==
  /\ req[q].at = "burn"
  /\ Save(q, req[q].mem)
  /\ Goto(q, IF layout.partitioned THEN "enqueue" ELSE "read")
  /\ UNCHANGED <<layout, queue, read, sent, faults>>

\* enqueueBacktestRun: the run id hashes the set of strategies.
Enqueue(q) ==
  LET m == [req[q].mem EXCEPT !.runs[req[q].set].status =
              IF @ = "absent" THEN "queued" ELSE @] IN
  /\ req[q].at = "enqueue"
  /\ Save(q, m)
  /\ Keep(q, "send", m)
  /\ UNCHANGED <<layout, queue, read, sent, faults>>

ShardMessage(S, p) == [kind |-> "shard", run |-> S, shard |-> p]
FinalizeMessage(S) == [kind |-> "finalize", run |-> S, shard |-> {}]

Send(q) ==
  LET S == req[q].set
      pending == Shards(S) \ req[q].mem.runs[S].receipts IN
  /\ req[q].at = "send"
  /\ queue' = queue \union
       (IF pending = {} THEN {FinalizeMessage(S)}
        ELSE {ShardMessage(S, p) : p \in pending})
  /\ Goto(q, "answer")
  /\ UNCHANGED <<layout, disk, read, sent, history, faults>>

\* The command handler saves when the command is done.
Answer(q) ==
  /\ req[q].at = "answer"
  /\ Save(q, req[q].mem)
  /\ Finish(q)
  /\ UNCHANGED <<layout, queue, read, sent, faults>>

-----------------------------------------------------------------------------
(* Queue messages. *)

Receive(q, m) ==
  LET run == disk.runs[m.run]
      loaded == [at |-> "read", msg |-> m, set |-> m.shard, mem |-> disk] IN
  /\ req[q].at = "idle"
  /\ m \in queue
  /\ \A p \in Request : req[p].msg # m
  /\ run.status # "absent"
  /\ IF run.status = "finalized"
     THEN queue' = queue \ {m} /\ UNCHANGED <<req, history>>
     ELSE /\ \/ /\ m.kind = "shard"
                /\ Load(q, [loaded EXCEPT !.at =
                     IF m.shard \in run.receipts THEN "close" ELSE "read"])
             \/ /\ m.kind = "finalize"
                /\ run.receipts = Shards(m.run)
                /\ Load(q, [loaded EXCEPT !.at = "settle", !.set = m.run])
          /\ UNCHANGED queue
  /\ UNCHANGED <<layout, disk, read, sent, faults>>

\* recordQueuedBacktestReceipt, after the artifact is in R2.
Receipt(q) ==
  LET m == [req[q].mem EXCEPT !.runs[req[q].msg.run].receipts =
              @ \union {req[q].msg.shard}] IN
  /\ req[q].at = "receipt"
  /\ Save(q, m)
  /\ Keep(q, "close", m)
  /\ UNCHANGED <<layout, queue, read, sent, faults>>

\* The shard that completes the run sends the finalize message.
Close(q) ==
  LET run == req[q].msg.run IN
  /\ req[q].at = "close"
  /\ IF req[q].mem.runs[run].receipts = Shards(run)
     THEN /\ queue' = (queue \ {req[q].msg}) \union {FinalizeMessage(run)}
          /\ Save(q, req[q].mem)
     ELSE /\ queue' = queue \ {req[q].msg}
          /\ UNCHANGED <<disk, history>>
  /\ Finish(q)
  /\ UNCHANGED <<layout, read, sent, faults>>

-----------------------------------------------------------------------------
(* invokeBacktrader, for a validating request or for a shard. *)

ForQueue(q) == req[q].msg # NoMessage

\* loadSealedDataset or getDatasetSlice; the former's hash goes into the
\* dataset's record.
ReadSlice(q) ==
  /\ req[q].at = "read"
  /\ read' = read \union req[q].set
  /\ Keep(q, "bind", [req[q].mem EXCEPT !.sliced = @ \/ ForQueue(q)])
  /\ UNCHANGED <<layout, disk, queue, sent, history, faults>>

\* bindSealedHoldoutDispatch admits an unbound or an unchanged payload.
Binds(q, s) ==
  req[q].mem.ledger[s].wire \in {{}, PayloadOf(req[q].set, s)}

Bound(q, S) ==
  [req[q].mem EXCEPT !.ledger = [s \in Strategy |->
     IF s \in S
     THEN [req[q].mem.ledger[s] EXCEPT !.wire = PayloadOf(req[q].set, s)]
     ELSE req[q].mem.ledger[s]]]

\* Mutant: the second checkpoint is not awaited.
BindUnsaved(q) ==
  /\ req[q].at = "bind"
  /\ \A s \in req[q].set : Binds(q, s)
  /\ Keep(q, "service", Bound(q, req[q].set))
  /\ UNCHANGED <<layout, disk, queue, read, sent, history, faults>>

\* Second durable checkpoint.
Bind(q) ==
  /\ req[q].at = "bind"
  /\ \A s \in req[q].set : Binds(q, s)
  /\ Save(q, Bound(q, req[q].set))
  /\ Keep(q, "service", disk')
  /\ UNCHANGED <<layout, queue, read, sent, faults>>

\* A failed validation is swallowed by validateRemote's catch block and its
\* copy is saved; a failed shard saves nothing and its message comes back.
Abandon(q, m) ==
  /\ IF ForQueue(q) THEN UNCHANGED <<disk, history>> ELSE Save(q, m)
  /\ Finish(q)

\* "Sealed holdout retry changed its wire payload", thrown after some of the
\* other strategies were bound.
BindThrows(q) ==
  /\ req[q].at = "bind"
  /\ \E s \in req[q].set : ~Binds(q, s)
  /\ \E S \in SUBSET {s \in req[q].set : Binds(q, s)} : Abandon(q, Bound(q, S))
  /\ UNCHANGED <<layout, queue, read, sent, faults>>

Evaluated(q) ==
  sent' = sent \union {<<s, PayloadOf(req[q].set, s)>> : s \in req[q].set}

Service(q) ==
  /\ req[q].at = "service"
  /\ Evaluated(q)
  /\ Goto(q, IF ForQueue(q) THEN "receipt" ELSE "settle")
  /\ UNCHANGED <<layout, disk, queue, read, history, faults>>

ServiceFails(q) ==
  /\ faults < MaxFaults
  /\ req[q].at = "service"
  /\ Evaluated(q)
  /\ Abandon(q, req[q].mem)
  /\ faults' = faults + 1
  /\ UNCHANGED <<layout, queue, read>>

-----------------------------------------------------------------------------
(* The outcomes: the rest of validateRemote. *)

\* recordSealedHoldoutOutcome accepts a bound lineage without an outcome.
Decidable(m, s) == m.ledger[s].wire # {} /\ m.ledger[s].outcome = NoOutcome

\* Mutant: the outcome, of whatever kind, is written as the phase.
DecidedAsOutcome(m, S, run, verdict) ==
  [m EXCEPT
     !.ledger = [s \in Strategy |->
        IF s \in S THEN [m.ledger[s] EXCEPT !.outcome = verdict[s],
                                            !.artifact = PayloadOf(run, s)]
        ELSE m.ledger[s]],
     !.phase = [s \in Strategy |-> IF s \in S THEN verdict[s] ELSE m.phase[s]]]

Decided(m, S, run, verdict) ==
  [m EXCEPT
     !.ledger = [s \in Strategy |->
        IF s \in S THEN [m.ledger[s] EXCEPT !.outcome = verdict[s],
                                            !.artifact = PayloadOf(run, s)]
        ELSE m.ledger[s]],
     !.phase = [s \in Strategy |-> IF s \in S THEN "decided" ELSE m.phase[s]]]

\* finalizeQueuedBacktest marks the run whatever validateRemote swallowed.
Settled(q, S, verdict) ==
  LET m == Decided(req[q].mem, S, req[q].set, verdict) IN
  /\ Save(q, IF ForQueue(q)
             THEN [m EXCEPT !.runs[req[q].set].status = "finalized"] ELSE m)
  /\ queue' = IF ForQueue(q) THEN queue \ {req[q].msg} ELSE queue
  /\ Finish(q)

Settle(q) ==
  /\ req[q].at = "settle"
  /\ \A s \in req[q].set : Decidable(req[q].mem, s)
  /\ \E verdict \in [req[q].set -> Verdict] : Settled(q, req[q].set, verdict)
  /\ UNCHANGED <<layout, read, sent, faults>>

\* One strategy's outcome is refused: those after it are not reached.
SettleThrows(q) ==
  LET able == {s \in req[q].set : Decidable(req[q].mem, s)} IN
  /\ req[q].at = "settle"
  /\ able # req[q].set
  /\ \E S \in SUBSET able, verdict \in [req[q].set -> Verdict] :
       Settled(q, S, verdict)
  /\ UNCHANGED <<layout, read, sent, faults>>

\* An artifact or an evidence row cannot be stored: likewise.
SettleFails(q) ==
  /\ faults < MaxFaults
  /\ req[q].at = "settle"
  /\ \A s \in req[q].set : Decidable(req[q].mem, s)
  /\ \E S \in SUBSET req[q].set \ {req[q].set},
        verdict \in [req[q].set -> Verdict] : Settled(q, S, verdict)
  /\ faults' = faults + 1
  /\ UNCHANGED <<layout, read, sent>>

\* The object is evicted or restarted: every request in it is gone.
Restart ==
  /\ faults < MaxFaults
  /\ \E q \in Request : req[q].at # "idle"
  /\ req' = [q \in Request |-> NoRequest]
  /\ faults' = faults + 1
  /\ UNCHANGED <<layout, disk, queue, read, sent, history>>

\* The queue delivers a message again after it was acknowledged.
Redeliver(S, p) ==
  /\ faults < MaxFaults
  /\ p \in disk.runs[S].receipts
  /\ queue' = queue \union {ShardMessage(S, p)}
  /\ faults' = faults + 1
  /\ UNCHANGED <<layout, disk, req, read, sent, history>>
-----------------------------------------------------------------------------

Proceed(q) ==
  \/ SaveBurn(q) \/ Enqueue(q) \/ Send(q) \/ Answer(q)
  \/ ReadSlice(q) \/ Bind(q) \/ BindThrows(q) \/ Service(q)
  \/ Receipt(q) \/ Close(q)
  \/ Settle(q) \/ SettleThrows(q)

Fault ==
  \/ Restart
  \/ \E q \in Request : ServiceFails(q) \/ SettleFails(q)
  \/ \E S \in Payload : \E p \in Shards(S) : Redeliver(S, p)

Next ==
  \/ \E q \in Request, s \in Strategy : Admit(q, s)
  \/ \E q \in Request : Validate(q) \/ Proceed(q)
  \/ \E q \in Request, m \in queue : Receive(q, m)
  \/ Fault

Spec == Init /\ [][Next]_vars

-----------------------------------------------------------------------------
(* Properties *)

(* The sealed slice of a lineage is only read once its burn has been on     *)
(* disk, however requests overlap; and it stays on disk, so that no restart *)
(* can make the reading unhappen, until a request saves a copy it loaded    *)
(* before another one's save (worker/index.js: "the lineage is burned       *)
(* before the sealed slice is read").                                       *)
BurnedBeforeRead ==
  /\ read \subseteq burns
  /\ overwritten \/ \A s \in read : disk.ledger[s].burned

(* Over all retries, restarts, redeliveries and overlapping deliveries the  *)
(* service sees a lineage's sealed slice under one payload only, until an   *)
(* older copy is saved; and an outcome is always drawn from a payload the   *)
(* service has seen.  README.md: "one-time sealed holdout evaluation".      *)
SingleExposure ==
  /\ overwritten \/ \A x, y \in sent : x[1] = y[1] => x[2] = y[2]
  /\ \A s \in Strategy :
       disk.ledger[s].outcome # NoOutcome => <<s, disk.ledger[s].artifact>> \in sent

(* Lineages that share no shard with another.                              *)
Unshared == \A g \in layout.groups : Cardinality(g) = 1

(* Every candidate for validation eventually has its outcome, on the         *)
(* datasets the code does settle: inline evaluation of lineages that share no *)
(* payload; unless an older copy that was saved took its review back, after   *)
(* which it waits to be reviewed again.                                       *)
(* worker/index.js: "A process restart can only retry this reservation."     *)
UnsharedCandidatesSettle ==
  \A s \in Strategy :
    (disk.phase[s] = "validation" /\ Unshared /\ ~layout.partitioned)
      ~> \/ disk.ledger[s].outcome # NoOutcome
         \/ overwritten /\ disk.phase[s] = "earlier"
=============================================================================

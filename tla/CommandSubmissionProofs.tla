----------------------- MODULE CommandSubmissionProofs ------------------------
(* What the compare-and-swap of CommandSubmission keeps, for any number of    *)
(* commands, follow-ups, requests and faults.                                 *)
EXTENDS CommandSubmission, FiniteSetTheorems, TLAPS

Durable == Scheduled \union Stage

\* A copy of the state counts its results, and knows of nothing that was not
\* committed, sent directly, or done.
Counted(s, com, done) ==
  /\ IsFiniteSet(s.results)
  /\ s.version = Cardinality(s.results)
  /\ s.results \subseteq com \union Direct
  /\ s.executed \subseteq done

\* What the local variables of request q say, whatever the others do meanwhile.
Sound(q, r, com, done) ==
  /\ Counted(r.mem, com, done)
  /\ r.at \in {"act", "follow", "select", "batch", "adopt"} => r.cmd \in Command
  /\ q \in Operator /\ r.at # "idle" => r.job \in Direct
  /\ q \in Deliverer /\ r.at # "idle" => r.job \in com
  /\ q \notin Ticker /\ r.at \in {"loadRow", "ready"} => r.cmd = r.job
  /\ q \in Deliverer /\ r.at = "act" => r.cmd = r.job \/ r.job \in done
  /\ q \in Deliverer /\ r.at \in {"follow", "select", "batch", "adopt", "dispatch", "save"}
       => r.job \in done
  /\ r.at \in {"follow", "select", "batch", "adopt"} => r.cmd \in Durable
  /\ r.at = "adopt" => r.cmd \in com

(* A copy without operator commands has as many results as its version, all  *)
(* of them committed, and every commit raises the snapshot's version: a copy  *)
(* whose version the swap accepts therefore holds every committed command,   *)
(* however stale it is otherwise.                                            *)
SubmissionIInv ==
  /\ TypeOK
  /\ Counted(disk, committed, ran)
  /\ Counted(row, committed, ran)
  /\ IsFiniteSet(committed) /\ Cardinality(committed) <= row.version
  /\ committed \intersect Direct = {}
  /\ CommittedApplied
  /\ DoneMeansRan
  /\ \A c \in Command : jobs[c] # "none" => c \in committed
  /\ \A q \in Request : Sound(q, req[q], committed, ran)

-----------------------------------------------------------------------------


(* What is committed or done stays so: soundness outlives the others' steps. *)
LEMMA CountedStays ==
  ASSUME NEW s, NEW com, NEW done, NEW com2, NEW done2,
         Counted(s, com, done), com \subseteq com2, done \subseteq done2
  PROVE  Counted(s, com2, done2)
BY DEF Counted

LEMMA SoundStays ==
  ASSUME NEW q, NEW r, NEW com, NEW done, NEW com2, NEW done2,
         Sound(q, r, com, done), com \subseteq com2, done \subseteq done2
  PROVE  Sound(q, r, com2, done2)
<1>1. Counted(r.mem, com2, done2)
  BY CountedStays DEF Sound
<1> QED BY <1>1 DEF Sound

LEMMA AppliedCounts ==
  ASSUME NEW s \in Orchestration, NEW com, NEW done, NEW c \in Command,
         Counted(s, com, done), c \in com \union Direct
  PROVE  Applied(s, c) \in Orchestration /\ Counted(Applied(s, c), com, done)
<1>1. CASE c \in s.results
  BY <1>1 DEF Applied
<1>2. CASE c \notin s.results
  <2> DEFINE t == [s EXCEPT !.version = @ + 1, !.results = @ \union {c}]
  <2>0. Applied(s, c) = t
    BY <1>2 DEF Applied
  <2>a. /\ s.version \in Nat /\ s.version + 1 \in Nat
        /\ s.results \union {c} \in SUBSET Command
    BY DEF Orchestration
  <2>b. /\ t.results = s.results \union {c}
        /\ t.version = s.version + 1
        /\ t.executed = s.executed
    BY DEF Orchestration
  <2>1. t \in Orchestration
    BY <2>a DEF Orchestration
  <2>2. /\ IsFiniteSet(s.results \union {c})
        /\ Cardinality(s.results \union {c}) = Cardinality(s.results) + 1
    BY <1>2, FS_AddElement DEF Counted
  <2> QED BY <2>0, <2>b, <2>1, <2>2 DEF Counted
<1> QED BY <1>1, <1>2

(* A step that gives request q the sound local variables r leaves all sound. *)
LEMMA RequestStep ==
  ASSUME SubmissionIInv, NEW q \in Request, NEW r \in Local,
         req' = [req EXCEPT ![q] = r], Sound(q, r, committed', ran'),
         committed \subseteq committed', ran \subseteq ran'
  PROVE  /\ req' \in [Request -> Local]
         /\ \A p \in Request : Sound(p, req'[p], committed', ran')
         /\ \A p \in Request :
              req'[p].at \in {"act", "follow", "select", "batch", "adopt"} =>
                req'[p].cmd \in Command
<1>1. req' \in [Request -> Local]
  BY DEF SubmissionIInv, TypeOK
<1>2. ASSUME NEW p \in Request
      PROVE  Sound(p, req'[p], committed', ran')
  <2>1. CASE p = q
    BY <2>1 DEF SubmissionIInv, TypeOK
  <2>2. CASE p # q
    <3>1. req'[p] = req[p] /\ Sound(p, req[p], committed, ran)
      BY <2>2 DEF SubmissionIInv, TypeOK
    <3> QED BY <3>1, SoundStays
  <2> QED BY <2>1, <2>2
<1> QED BY <1>1, <1>2 DEF Sound

LEMMA NoRequestSound ==
  ASSUME NEW q, NEW com, NEW done
  PROVE  NoRequest \in Local /\ Sound(q, NoRequest, com, done)
BY FS_EmptySet DEF NoRequest, Local, Steps, Empty, Orchestration, Sound, Counted

\* The parts of the invariant that a step leaves alone which commits nothing.
Kept == UNCHANGED <<row, committed, jobs>>

LEMMA LocalStep ==
  ASSUME SubmissionIInv, Kept, NEW q \in Request, NEW r \in Local,
         req' = [req EXCEPT ![q] = r], Sound(q, r, committed', ran'),
         ran \subseteq ran', ran' \subseteq Command,
         disk' \in Orchestration, Counted(disk', committed', ran'),
         acked' \subseteq Direct, faults' \in 0..MaxFaults
  PROVE  SubmissionIInv'
<1>1. Counted(row', committed', ran')
  BY CountedStays DEF SubmissionIInv, Kept
<1>2. CommittedApplied' /\ DoneMeansRan'
  BY DEF SubmissionIInv, CommittedApplied, DoneMeansRan, Kept
<1>3. committed \subseteq committed'
  BY DEF Kept
<1>4. /\ req' \in [Request -> Local]
      /\ \A p \in Request : Sound(p, req'[p], committed', ran')
      /\ \A p \in Request :
           req'[p].at \in {"act", "follow", "select", "batch", "adopt"} =>
             req'[p].cmd \in Command
  BY <1>3, RequestStep
<1>5. TypeOK'
  BY <1>4 DEF SubmissionIInv, TypeOK, Kept
<1> QED BY <1>1, <1>2, <1>4, <1>5 DEF SubmissionIInv, Kept

(* The same when nothing but the request's own variables change. *)
LEMMA QuietStep ==
  ASSUME SubmissionIInv, NEW q \in Request, NEW r \in Local,
         req' = [req EXCEPT ![q] = r], Sound(q, r, committed, ran),
         UNCHANGED <<disk, row, committed, jobs, ran, acked>>,
         faults' \in 0..MaxFaults
  PROVE  SubmissionIInv'
<1>1. /\ Kept /\ Sound(q, r, committed', ran') /\ ran \subseteq ran' /\ ran' \subseteq Command
      /\ disk' \in Orchestration /\ Counted(disk', committed', ran') /\ acked' \subseteq Direct
  BY DEF SubmissionIInv, TypeOK, Kept
<1> QED BY <1>1, LocalStep

LEMMA GotoStep ==
  ASSUME SubmissionIInv, NEW q \in Request, NEW step \in Steps, Goto(q, step),
         UNCHANGED <<disk, row, committed, jobs, ran, acked, faults>>,
         Sound(q, [req[q] EXCEPT !.at = step], committed, ran)
  PROVE  SubmissionIInv'
<1> DEFINE r == [req[q] EXCEPT !.at = step]
<1>1. r \in Local /\ faults' \in 0..MaxFaults
  BY DEF SubmissionIInv, TypeOK, Local
<1>2. req' = [req EXCEPT ![q] = r]
  BY DEF Goto
<1> QED BY <1>1, <1>2, QuietStep

-----------------------------------------------------------------------------
(* load() *)

LEMMA BeginStep ==
  ASSUME SubmissionIInv, NEW q \in Request, NEW c \in Command \union {NoCommand}, Begin(q, c),
         q \in Operator => c \in Direct, q \in Deliverer => c \in committed
  PROVE  SubmissionIInv'
<1> DEFINE r == [at |-> "loadRow", job |-> c, cmd |-> c, mem |-> disk]
<1>1. r \in Local /\ Sound(q, r, committed, ran) /\ faults' \in 0..MaxFaults
  BY DEF SubmissionIInv, TypeOK, Local, Steps, Sound, Begin
<1> QED BY <1>1, QuietStep DEF Begin

LEMMA ArriveStep ==
  ASSUME SubmissionIInv, NEW q \in Request, Arrive(q)
  PROVE  SubmissionIInv'
<1> USE RequestAssumption
<1>1. CASE Tick(q)
  <2>1. q \notin Operator /\ q \notin Deliverer
    BY <1>1 DEF Tick
  <2> QED BY <1>1, <2>1, BeginStep DEF Tick
<1>2. ASSUME NEW c \in Command, Deliver(q, c)
      PROVE  SubmissionIInv'
  <2>1. q \notin Operator /\ c \in committed
    BY <1>2 DEF Deliver, SubmissionIInv
  <2> QED BY <1>2, <2>1, BeginStep DEF Deliver
<1> QED BY <1>1, <1>2 DEF Arrive

LEMMA OperateStep ==
  ASSUME SubmissionIInv, NEW q \in Operator, NEW c \in Direct, Operate(q, c)
  PROVE  SubmissionIInv'
<1>1. q \in Request /\ c \in Command /\ q \notin Deliverer
  BY RequestAssumption DEF Request, Command
<1> QED BY <1>1, BeginStep DEF Operate

LEMMA LoadRowStep ==
  ASSUME SubmissionIInv, NEW q \in Request, LoadRow(q)
  PROVE  SubmissionIInv'
<1>1. CASE row.version > req[q].mem.version
  <2> DEFINE r == [req[q] EXCEPT !.at = "ready", !.mem = row]
  <2>1. req' = [req EXCEPT ![q] = r] /\ disk' = row
        /\ UNCHANGED <<row, committed, jobs, ran, acked, faults>>
    BY <1>1 DEF LoadRow
  <2>2. r \in Local
    <3>1. req[q] \in Local /\ row \in Orchestration
      BY DEF SubmissionIInv, TypeOK
    <3>2. "ready" \in Steps
      BY DEF Steps
    <3> QED BY <3>1, <3>2 DEF Local
  <2>3. Sound(q, r, committed, ran)
    BY DEF SubmissionIInv, TypeOK, Local, Sound, LoadRow
  <2>4. Kept /\ Sound(q, r, committed', ran') /\ ran \subseteq ran' /\ ran' \subseteq Command
        /\ disk' \in Orchestration /\ Counted(disk', committed', ran')
        /\ acked' \subseteq Direct /\ faults' \in 0..MaxFaults
    BY <2>1, <2>3 DEF SubmissionIInv, TypeOK, Kept
  <2> QED BY <2>1, <2>2, <2>4, LocalStep
<1>2. CASE ~(row.version > req[q].mem.version)
  <2>1. Goto(q, "ready") /\ UNCHANGED <<disk, row, committed, jobs, ran, acked, faults>>
    BY <1>2 DEF LoadRow
  <2>2. Sound(q, [req[q] EXCEPT !.at = "ready"], committed, ran)
    BY DEF SubmissionIInv, TypeOK, Local, Sound, LoadRow
  <2> QED BY <2>1, <2>2, GotoStep DEF Steps
<1> QED BY <1>1, <1>2

-----------------------------------------------------------------------------
(* submitOrchestrationCommand *)

LEMMA PlanStep ==
  ASSUME SubmissionIInv, NEW q \in Request, NEW c \in Scheduled, Plan(q, c)
  PROVE  SubmissionIInv'
<1> DEFINE r == [req[q] EXCEPT !.at = "select", !.cmd = c]
<1>1. c \in Command /\ q \notin Operator /\ q \notin Deliverer /\ c \in Durable
  BY RequestAssumption DEF Command, Plan, Durable
<1>t. req[q] \in Local /\ Sound(q, req[q], committed, ran) /\ "select" \in Steps
  BY DEF SubmissionIInv, TypeOK, Steps
<1>2. r \in Local /\ faults' \in 0..MaxFaults
  BY <1>1, <1>t DEF SubmissionIInv, TypeOK, Local, Plan
<1>3. Sound(q, r, committed, ran)
  BY <1>1, <1>t DEF Local, Sound
<1> QED BY <1>2, <1>3, QuietStep DEF Plan

LEMMA GotoSteps ==
  ASSUME SubmissionIInv, NEW q \in Request,
         NothingPlanned(q) \/ Select(q) \/ BatchDuplicate(q) \/ Dispatched(q)
           \/ AlreadyExecuted(q) \/ Follow(q)
  PROVE  SubmissionIInv'
<1> USE RequestAssumption
<1>t. req[q] \in Local /\ Sound(q, req[q], committed, ran)
  BY DEF SubmissionIInv, TypeOK
<1>1. CASE NothingPlanned(q)
  <2>1. Sound(q, [req[q] EXCEPT !.at = "save"], committed, ran)
    BY <1>t, <1>1 DEF Sound, Local, NothingPlanned
  <2> QED BY <1>1, <2>1, GotoStep DEF NothingPlanned, Steps
<1>2. CASE Select(q)
  <2>1. /\ Sound(q, [req[q] EXCEPT !.at = "batch"], committed, ran)
        /\ req[q].cmd \in committed => Sound(q, [req[q] EXCEPT !.at = "adopt"], committed, ran)
    BY <1>t, <1>2 DEF Sound, Local, Select
  <2> QED BY <1>2, <2>1, GotoStep DEF Select, Steps
<1>3. CASE BatchDuplicate(q)
  <2>1. Sound(q, [req[q] EXCEPT !.at = "adopt"], committed, ran)
    BY <1>t, <1>3 DEF Sound, Local, BatchDuplicate
  <2> QED BY <1>3, <2>1, GotoStep DEF BatchDuplicate, Steps
<1>4. CASE Dispatched(q)
  <2>1. CASE q \in Ticker
    <3>1. Sound(q, [req[q] EXCEPT !.at = "ready"], committed, ran)
      BY <1>t, <1>4, <2>1 DEF Sound, Local, Dispatched
    <3> QED BY <1>4, <2>1, <3>1, GotoStep DEF Dispatched, Steps
  <2>2. CASE q \notin Ticker
    <3>1. Sound(q, [req[q] EXCEPT !.at = "save"], committed, ran)
      BY <1>t, <1>4 DEF Sound, Local, Dispatched
    <3> QED BY <1>4, <2>2, <3>1, GotoStep DEF Dispatched, Steps
  <2> QED BY <2>1, <2>2
<1>5. CASE AlreadyExecuted(q)
  <2>1. Sound(q, [req[q] EXCEPT !.at = "save"], committed, ran)
    BY <1>t, <1>5 DEF Sound, Counted, Local, AlreadyExecuted
  <2> QED BY <1>5, <2>1, GotoStep DEF AlreadyExecuted, Steps
<1>6. CASE Follow(q)
  <2>1. /\ Sound(q, [req[q] EXCEPT !.at = "act"], committed, ran)
        /\ Sound(q, [req[q] EXCEPT !.at = "select"], committed, ran)
    BY <1>t, <1>6 DEF Sound, Local, Follow
  <2> QED BY <1>6, <2>1, GotoStep DEF Follow, Steps
<1> QED BY <1>1, <1>2, <1>3, <1>4, <1>5, <1>6

LEMMA FinishSteps ==
  ASSUME SubmissionIInv, NEW q \in Request, BatchFails(q) \/ DispatchFails(q)
  PROVE  SubmissionIInv'
<1>1. faults' \in 0..MaxFaults
  BY FaultAssumption DEF SubmissionIInv, TypeOK, BatchFails, DispatchFails
<1>2. req' = [req EXCEPT ![q] = NoRequest]
  BY DEF BatchFails, DispatchFails, Finish
<1> QED BY <1>1, <1>2, NoRequestSound, QuietStep DEF BatchFails, DispatchFails

\* The copy that is swapped in holds what was committed, if it is clean.
LEMMA SwappedIsWhole ==
  ASSUME SubmissionIInv, NEW q \in Request, SwapSucceeds(q),
         req[q].mem.results \intersect Direct = {}
  PROVE  req[q].mem.results = committed
<1> DEFINE s == req[q].mem
<1>1. /\ IsFiniteSet(s.results) /\ s.version = Cardinality(s.results)
      /\ s.results \subseteq committed
      /\ IsFiniteSet(committed) /\ Cardinality(committed) <= row.version
      /\ row.version \in Nat
  BY DEF SubmissionIInv, TypeOK, Orchestration, Sound, Counted
<1>2. /\ Cardinality(s.results) \in Nat /\ Cardinality(committed) \in Nat
      /\ Cardinality(s.results) <= Cardinality(committed)
      /\ Cardinality(s.results) = Cardinality(committed) => s.results = committed
  BY <1>1, FS_CardinalityType, FS_Subset
<1>3. CASE row.version = s.version
  BY <1>1, <1>2, <1>3
<1>4. CASE row.version = 0
  BY <1>1, <1>2, <1>4
<1> QED BY <1>3, <1>4 DEF SwapSucceeds

LEMMA BatchCommitsStep ==
  ASSUME SubmissionIInv, NEW q \in Request, BatchCommits(q)
  PROVE  SubmissionIInv'
<1> DEFINE c == req[q].cmd
           s == req[q].mem
           r == [req[q] EXCEPT !.at = "adopt"]
<1>1. /\ req[q] \in Local /\ s \in Orchestration /\ row \in Orchestration
      /\ Sound(q, req[q], committed, ran) /\ req[q].at = "batch"
      /\ SwapSucceeds(q) /\ row' = Applied(s, c) /\ committed' = committed \union {c}
      /\ jobs' = [jobs EXCEPT ![c] = "pending"] /\ Goto(q, "adopt")
      /\ UNCHANGED <<disk, ran, acked, faults>> /\ c \notin committed
  BY DEF SubmissionIInv, TypeOK, Local, BatchCommits
<1>2. c \in Command /\ c \in Durable /\ c \notin Direct
  BY <1>1, KindsAssumption DEF Sound, Durable
<1>3. Counted(s, committed', ran') /\ Counted(disk, committed', ran')
  BY <1>1, CountedStays DEF Sound, SubmissionIInv
<1>4. row' \in Orchestration /\ Counted(row', committed', ran')
  BY <1>1, <1>2, <1>3, AppliedCounts
<1>5. c \notin s.results
  BY <1>1, <1>2 DEF Sound, Counted
<1>6. /\ row'.version = s.version + 1 /\ row'.results = s.results \union {c}
      /\ s.version \in Nat
  BY <1>1, <1>5 DEF Applied, Orchestration
<1>7. /\ IsFiniteSet(committed') /\ Cardinality(committed') = Cardinality(committed) + 1
      /\ Cardinality(committed) \in Nat
  BY <1>1, FS_AddElement, FS_CardinalityType DEF SubmissionIInv
<1>8. Cardinality(committed') <= row'.version
  <2>1. Cardinality(committed) <= row.version /\ row.version \in Nat
    BY DEF SubmissionIInv, TypeOK, Orchestration
  <2> QED BY <1>1, <1>6, <1>7, <2>1 DEF SwapSucceeds
<1>9. CommittedApplied'
  BY <1>1, <1>6, SwappedIsWhole DEF CommittedApplied
<1>10. r \in Local /\ req' = [req EXCEPT ![q] = r]
  BY <1>1 DEF Local, Goto, Steps
<1>11. Sound(q, r, committed', ran')
  <2>1. Sound(q, req[q], committed', ran')
    BY <1>1, SoundStays
  <2> QED BY <1>1, <2>1 DEF Sound, Local
<1>12. /\ req' \in [Request -> Local]
       /\ \A p \in Request : Sound(p, req'[p], committed', ran')
       /\ \A p \in Request :
            req'[p].at \in {"act", "follow", "select", "batch", "adopt"} =>
              req'[p].cmd \in Command
  BY <1>1, <1>10, <1>11, RequestStep
<1>13. TypeOK'
  BY <1>1, <1>2, <1>4, <1>12 DEF SubmissionIInv, TypeOK
<1>14. DoneMeansRan' /\ \A d \in Command : jobs'[d] # "none" => d \in committed'
  BY <1>1, <1>2 DEF SubmissionIInv, TypeOK, DoneMeansRan
<1>15. committed' \intersect Direct = {}
  BY <1>1, <1>2 DEF SubmissionIInv
<1> QED BY <1>1, <1>3, <1>4, <1>7, <1>8, <1>9, <1>12, <1>13, <1>14, <1>15 DEF SubmissionIInv

LEMMA AdoptStep ==
  ASSUME SubmissionIInv, NEW q \in Request, Adopt(q)
  PROVE  SubmissionIInv'
<1> DEFINE s == Applied(req[q].mem, req[q].cmd)
           r == [req[q] EXCEPT !.at = "dispatch", !.mem = s]
<1>1. /\ req[q] \in Local /\ req[q].mem \in Orchestration /\ req[q].at = "adopt"
      /\ Sound(q, req[q], committed, ran) /\ "dispatch" \in Steps
  BY DEF SubmissionIInv, TypeOK, Local, Adopt, Steps
<1>2. s \in Orchestration /\ Counted(s, committed, ran)
  BY <1>1, AppliedCounts DEF Sound
<1>3. r \in Local /\ req' = [req EXCEPT ![q] = r] /\ disk' = s
      /\ UNCHANGED <<row, committed, jobs, ran, acked, faults>>
  BY <1>1, <1>2 DEF Local, Adopt
<1>4. Sound(q, r, committed, ran)
  <2> HIDE DEF s
  <2> QED BY <1>1, <1>2 DEF Sound, Local
<1>5. /\ Kept /\ Sound(q, r, committed', ran') /\ ran \subseteq ran' /\ ran' \subseteq Command
      /\ disk' \in Orchestration /\ Counted(disk', committed', ran')
      /\ acked' \subseteq Direct /\ faults' \in 0..MaxFaults
  BY <1>2, <1>3, <1>4 DEF SubmissionIInv, TypeOK, Kept
<1> HIDE DEF r
<1> QED BY <1>3, <1>5, LocalStep

-----------------------------------------------------------------------------
(* The direct path *)

LEMMA ExecuteStep ==
  ASSUME SubmissionIInv, NEW q \in Request, Execute(q)
  PROVE  SubmissionIInv'
<1> DEFINE s == Applied(req[q].mem, req[q].cmd)
           r == [req[q] EXCEPT !.at = "act", !.mem = s]
<1>1. /\ req[q] \in Local /\ req[q].mem \in Orchestration /\ req[q].at = "ready"
      /\ Sound(q, req[q], committed, ran) /\ "act" \in Steps
      /\ q \in Deliverer \union Operator /\ q \notin Ticker
  BY DEF SubmissionIInv, TypeOK, Local, Execute, Steps, Request
<1>2. req[q].cmd \in Command /\ req[q].cmd \in committed \union Direct /\ req[q].cmd = req[q].job
  BY <1>1 DEF Sound, Command, SubmissionIInv, TypeOK
<1>3. s \in Orchestration /\ Counted(s, committed, ran)
  BY <1>1, <1>2, AppliedCounts DEF Sound
<1>4. r \in Local /\ req' = [req EXCEPT ![q] = r]
      /\ UNCHANGED <<disk, row, committed, jobs, ran, acked, faults>>
  BY <1>1, <1>3 DEF Local, Execute
<1>5. Sound(q, r, committed, ran)
  <2> HIDE DEF s
  <2> QED BY <1>1, <1>2, <1>3 DEF Sound, Local
<1>6. faults' \in 0..MaxFaults
  BY <1>4 DEF SubmissionIInv, TypeOK
<1> HIDE DEF r
<1> QED BY <1>4, <1>5, <1>6, QuietStep

LEMMA ActionsDoneStep ==
  ASSUME SubmissionIInv, NEW q \in Request, ActionsDone(q)
  PROVE  SubmissionIInv'
<1> DEFINE c == req[q].cmd
           s == [req[q].mem EXCEPT !.executed = @ \union {c}]
<1>1. /\ req[q] \in Local /\ req[q].mem \in Orchestration /\ req[q].at = "act"
      /\ Sound(q, req[q], committed, ran) /\ {"save", "follow"} \subseteq Steps
      /\ ran' = ran \union {c} /\ UNCHANGED <<row, committed, jobs, acked, faults>>
  BY DEF SubmissionIInv, TypeOK, Local, ActionsDone, Steps
<1>2. c \in Command
  BY <1>1 DEF Sound
<1>3. /\ s.results = req[q].mem.results /\ s.version = req[q].mem.version
      /\ s.executed = req[q].mem.executed \union {c} /\ s \in Orchestration
  BY <1>1, <1>2 DEF Orchestration
<1> HIDE DEF s
<1>4. Counted(s, committed', ran') /\ Counted(disk, committed', ran')
  BY <1>1, <1>3 DEF Sound, Counted, SubmissionIInv
<1>5. Sound(q, req[q], committed', ran') /\ (q \in Deliverer => req[q].job \in ran')
  <2>1. committed \subseteq committed' /\ ran \subseteq ran'
    BY <1>1
  <2>2. Sound(q, req[q], committed', ran')
    BY <1>1, <2>1, SoundStays
  <2> QED BY <1>1, <2>2 DEF Sound
<1>6. Kept /\ ran \subseteq ran' /\ ran' \subseteq Command /\ acked' \subseteq Direct
      /\ faults' \in 0..MaxFaults
  BY <1>1, <1>2 DEF SubmissionIInv, TypeOK, Kept
<1>7. CASE Followup[c] = NoCommand
  <2> DEFINE r == [req[q] EXCEPT !.at = "save", !.mem = s]
  <2>1. r \in Local /\ req' = [req EXCEPT ![q] = r] /\ disk' = disk
    BY <1>1, <1>3, <1>7 DEF Local, ActionsDone, s
  <2>2. Sound(q, r, committed', ran')
    BY <1>1, <1>4, <1>5 DEF Sound, Local
  <2>3. disk' \in Orchestration /\ Counted(disk', committed', ran')
    BY <1>4, <2>1 DEF SubmissionIInv, TypeOK
  <2> HIDE DEF r
  <2> QED BY <1>6, <2>1, <2>2, <2>3, LocalStep
<1>8. CASE Followup[c] # NoCommand
  <2> DEFINE r == [req[q] EXCEPT !.at = "follow", !.mem = s, !.cmd = Followup[c]]
  <2>1. Followup[c] \in Stage /\ Followup[c] \in Command /\ Followup[c] \in Durable
    BY <1>2, <1>8, FollowupAssumption DEF Command, Durable
  <2>2. r \in Local /\ req' = [req EXCEPT ![q] = r] /\ disk' = s
    BY <1>1, <1>3, <1>8, <2>1 DEF Local, ActionsDone, s
  <2>3. Sound(q, r, committed', ran')
    BY <1>1, <1>4, <1>5, <2>1 DEF Sound, Local
  <2>4. disk' \in Orchestration /\ Counted(disk', committed', ran')
    BY <1>3, <1>4, <2>2
  <2> HIDE DEF r
  <2> QED BY <1>6, <2>2, <2>3, <2>4, LocalStep
<1> QED BY <1>7, <1>8

LEMMA ActionFailsStep ==
  ASSUME SubmissionIInv, NEW q \in Request, ActionFails(q)
  PROVE  SubmissionIInv'
<1>1. req' = [req EXCEPT ![q] = NoRequest] /\ disk' = req[q].mem
      /\ faults' \in 0..MaxFaults /\ UNCHANGED <<row, committed, jobs, ran, acked>>
  BY FaultAssumption DEF SubmissionIInv, TypeOK, ActionFails, Finish
<1>2. disk' \in Orchestration /\ Counted(disk', committed', ran')
  BY <1>1 DEF SubmissionIInv, TypeOK, Local, Sound
<1>3. Kept /\ ran \subseteq ran' /\ ran' \subseteq Command /\ acked' \subseteq Direct
  BY <1>1 DEF SubmissionIInv, TypeOK, Kept
<1> QED BY <1>1, <1>2, <1>3, NoRequestSound, LocalStep

LEMMA AnswerStep ==
  ASSUME SubmissionIInv, NEW q \in Request, Answer(q)
  PROVE  SubmissionIInv'
<1>1. /\ req[q].at = "save" /\ disk' = req[q].mem /\ req' = [req EXCEPT ![q] = NoRequest]
      /\ UNCHANGED <<row, committed, ran, faults>>
      /\ req[q] \in Local /\ Sound(q, req[q], committed, ran)
  BY DEF SubmissionIInv, TypeOK, Answer, Finish
<1>2. disk' \in Orchestration /\ Counted(disk', committed', ran')
  BY <1>1 DEF Local, Sound
<1>3. Counted(row', committed', ran')
  BY <1>1 DEF SubmissionIInv
<1>4. /\ req' \in [Request -> Local]
      /\ \A p \in Request : Sound(p, req'[p], committed', ran')
      /\ \A p \in Request :
           req'[p].at \in {"act", "follow", "select", "batch", "adopt"} =>
             req'[p].cmd \in Command
  BY <1>1, NoRequestSound, RequestStep
<1>5. acked' \subseteq Direct
  BY <1>1 DEF Answer, Sound, SubmissionIInv, TypeOK
<1>6. /\ jobs' \in [Command -> {"none", "pending", "done"}]
      /\ \A c \in Command : jobs'[c] # "none" => c \in committed'
      /\ DoneMeansRan'
  <2>1. CASE q \in Deliverer
    <3>1. jobs' = [jobs EXCEPT ![req[q].job] = "done"]
          /\ req[q].job \in ran /\ req[q].job \in committed
      BY <1>1, <2>1 DEF Answer, Sound
    <3> QED BY <1>1, <3>1 DEF SubmissionIInv, TypeOK, DoneMeansRan
  <2>2. CASE q \notin Deliverer
    BY <1>1, <2>2 DEF Answer, SubmissionIInv, TypeOK, DoneMeansRan
  <2> QED BY <2>1, <2>2
<1>7. CommittedApplied'
  BY <1>1 DEF SubmissionIInv, CommittedApplied
<1>8. TypeOK'
  BY <1>1, <1>2, <1>4, <1>5, <1>6 DEF SubmissionIInv, TypeOK
<1> QED BY <1>1, <1>2, <1>3, <1>4, <1>6, <1>7, <1>8 DEF SubmissionIInv

LEMMA RestartStep ==
  ASSUME SubmissionIInv, Restart
  PROVE  SubmissionIInv'
<1>1. /\ req' = [q \in Request |-> NoRequest] /\ faults' \in 0..MaxFaults
      /\ UNCHANGED <<disk, row, committed, jobs, ran, acked>>
  BY FaultAssumption DEF SubmissionIInv, TypeOK, Restart
<1>2. /\ req' \in [Request -> Local]
      /\ \A p \in Request : Sound(p, req'[p], committed', ran') /\ req'[p].at = "idle"
  BY <1>1, NoRequestSound DEF NoRequest
<1>3. TypeOK'
  BY <1>1, <1>2 DEF SubmissionIInv, TypeOK
<1> QED BY <1>1, <1>2, <1>3 DEF SubmissionIInv, CommittedApplied, DoneMeansRan

-----------------------------------------------------------------------------
LEMMA SubmissionInit == Init => SubmissionIInv
<1> SUFFICES ASSUME Init PROVE SubmissionIInv
  OBVIOUS
<1>1. \A q \in Request : req[q] = NoRequest
  BY DEF Init
<1>2. Counted(Empty, {}, {}) /\ Empty \in Orchestration /\ Empty.version = 0 /\ Empty.results = {}
  BY FS_EmptySet DEF Counted, Empty, Orchestration
<1>3. TypeOK
  BY <1>1, <1>2, NoRequestSound, FaultAssumption DEF Init, TypeOK, NoRequest
<1>4. IsFiniteSet(committed) /\ Cardinality(committed) <= row.version
  BY <1>2, FS_EmptySet DEF Init
<1>5. \A q \in Request : Sound(q, req[q], committed, ran)
  BY <1>1, NoRequestSound
<1> QED BY <1>2, <1>3, <1>4, <1>5 DEF Init, SubmissionIInv, CommittedApplied, DoneMeansRan

LEMMA SubmissionStep == SubmissionIInv /\ [Next]_vars => SubmissionIInv'
<1> SUFFICES ASSUME SubmissionIInv, [Next]_vars PROVE SubmissionIInv'
  OBVIOUS
<1>1. ASSUME NEW q \in Request, Submit(q)
      PROVE  SubmissionIInv'
  BY <1>1, GotoSteps, BatchCommitsStep, FinishSteps, AdoptStep DEF Submit
<1>2. ASSUME NEW q \in Request, Proceed(q)
      PROVE  SubmissionIInv'
  BY <1>1, <1>2, LoadRowStep, PlanStep, GotoSteps, ExecuteStep, ActionsDoneStep, AnswerStep
  DEF Proceed
<1>3. CASE Fault
  BY <1>3, RestartStep, FinishSteps, ActionFailsStep DEF Fault
<1>4. CASE Next
  BY <1>2, <1>3, <1>4, ArriveStep, OperateStep DEF Next
<1>5. CASE UNCHANGED vars
  BY <1>5 DEF vars, SubmissionIInv, TypeOK, CommittedApplied, DoneMeansRan
<1> QED BY <1>4, <1>5

(* The invariant the others follow from, for every number of commands,       *)
(* requests, follow-ups and faults.                                          *)
THEOREM SubmissionInvariant == Spec => []SubmissionIInv
BY SubmissionInit, SubmissionStep, PTL DEF Spec

(* The request's local variables, both copies of the state and the jobs keep  *)
(* their types; every step that names a command has one.                      *)
THEOREM SubmissionTyped == Spec => []TypeOK
<1>1. SubmissionIInv => TypeOK
  BY DEF SubmissionIInv
<1> QED BY <1>1, SubmissionInvariant, PTL

(* The compare-and-swap keeps D1's snapshot honest: it holds the result of    *)
(* every committed command unless an operator command got into it.            *)
THEOREM CommittedIsApplied == Spec => []CommittedApplied
<1>1. SubmissionIInv => CommittedApplied
  BY DEF SubmissionIInv
<1> QED BY <1>1, SubmissionInvariant, PTL

(* A job that was answered ok stands for actions that have completed.         *)
THEOREM DoneJobsRan == Spec => []DoneMeansRan
<1>1. SubmissionIInv => DoneMeansRan
  BY DEF SubmissionIInv
<1> QED BY <1>1, SubmissionInvariant, PTL
=============================================================================

---------------------------- MODULE ResearchCohort ----------------------------
(* The daily research cohort (worker/research.js, worker/research-registry.js, *)
(* worker/research-jobs.js and their handlers in worker/index.js).  A command  *)
(* registers the session's trials and sends one screen message for each; the  *)
(* screen whose receipt is the last sends the finalizer, which selects the    *)
(* finalists, registers them as strategies and commits one review.            *)
(* Every handler works on its own copy of the object's state and saves it     *)
(* whole; handlers interleave at their awaits.  Scores are stood in for by    *)
(* the trials that a screen of the whole cohort would select.                 *)
EXTENDS Integers, FiniteSets

CONSTANTS
  Sessions,    \* a cohort belongs to one session date
  Trials,      \* trials of a cohort
  Sampled,     \* the sampled ones; challengers are bred from the parents
  Worthy,      \* trials that the screen selects when it has seen all
  FinalistCap, \* finalists of a day, contract.config.finalists
  Final,       \* the finalizer's message, beside one for each trial
  Requests,    \* concurrent requests of the object
  MaxAttempts, \* of a command, max_attempts of its job
  MaxPools,    \* bound: changes of the parents
  MaxResearchFaults \* bound: restarts, failures, lost acknowledgements, pauses

ASSUME ResearchAssumption ==
  /\ Sessions \in Nat /\ Sampled \subseteq Trials /\ Worthy \subseteq Trials
  /\ Cardinality(Worthy) <= FinalistCap /\ Final \notin Trials
  /\ "command" \notin Trials \cup {Final} /\ IsFiniteSet(Trials) /\ IsFiniteSet(Requests)
  /\ FinalistCap \in Nat /\ MaxPools \in Nat \ {0}

VARIABLES
  research,    \* the saved state.research
  screens,     \* screen artifacts in R2
  queued,      \* unacknowledged messages of each trial and of the finalizer
  turn,        \* what each request holds and does next
  command,     \* the run_daily_cohort commands: attempts, and whether it is done
  reviews,     \* cohorts whose pipeline_review was committed
  pool,        \* the version of the parents in state.strategies
  overwritten, \* history: a copy was saved over another request's save
  interrupted, \* history: paused research, a blocked review, or two days' cohorts at once
  researchFaults

researchVars ==
  <<research, screens, queued, turn, command, reviews, pool, overwritten, interrupted, researchFaults>>

Days == 1..Sessions
Messages == Days \X (Trials \cup {Final})
Resting == [step |-> "resting"]

NoCohort ==
  [status |-> "none", parents |-> 0, receipts |-> {}, finalizeQueued |-> FALSE,
   finalists |-> {}, strategies |-> {}, reviewed |-> FALSE]

NoBudget == [day |-> 0, sampled |-> 0, finalists |-> 0]

ResearchInit ==
  /\ research = [paused |-> FALSE, budget |-> NoBudget, total |-> 0,
                 cohorts |-> [d \in Days |-> NoCohort]]
  /\ screens = {} /\ queued = [m \in Messages |-> 0]
  /\ turn = [h \in Requests |-> Resting]
  /\ command = [d \in Days |-> [attempts |-> 0, done |-> FALSE]] /\ reviews = {}
  /\ pool = 1 /\ overwritten = FALSE /\ interrupted = FALSE /\ researchFaults = 0

-----------------------------------------------------------------------------
(* The registry: what a handler makes of the copy it holds.                  *)

\* resetDailyBudget: whenever the date differs, an earlier date as well.
ResetBudget(c, d) ==
  IF c.budget.day = d THEN c ELSE [c EXCEPT !.budget = [NoBudget EXCEPT !.day = d]]

Known(c, d) == c.cohorts[d].status # "none"

\* canStartResearch, of the finalist kind and of the sampled kind.
FinalistsLeft(c) == IF c.paused THEN 0 ELSE FinalistCap - c.budget.finalists
CanBegin(c) == ~c.paused /\ c.budget.sampled < Cardinality(Sampled)

\* Mutant: a trial that is registered already is charged to the day again.
RegisteredAnew(c, d) ==
  [c EXCEPT !.total = @ + Cardinality(Trials), !.budget.sampled = Cardinality(Sampled),
            !.cohorts[d].status = "screening_queued", !.cohorts[d].parents = pool]

\* beginCohort and registerTrial for every proposal.
Registered(c, d) ==
  IF Known(c, d) THEN c
  ELSE [c EXCEPT !.total = @ + Cardinality(Trials), !.budget.sampled = Cardinality(Sampled),
                 !.cohorts[d].status = "screening_queued", !.cohorts[d].parents = pool]

\* registerTrial refuses a registered trial whose proposal has changed.
SameProposals(c, d) == Sampled = Trials \/ c.cohorts[d].parents = pool

Generates(c, d) == IF Known(c, d) THEN SameProposals(c, d) ELSE CanBegin(c)

\* finalizeResearchScreen, on the records of the receipts.
Selected(c, d) == c.cohorts[d].receipts \intersect Worthy

\* markFinalists stops where the budget of the day does.
Markings(c, d) ==
  {marks \in SUBSET Selected(c, d) :
     LET left == FinalistsLeft(c)
     IN Cardinality(marks) = IF left < Cardinality(Selected(c, d))
                             THEN left ELSE Cardinality(Selected(c, d))}

\* commitEvolutionaryResearch: every selected trial becomes a strategy.
Committed(c, d, marks) ==
  [c EXCEPT !.budget.finalists = @ + Cardinality(marks),
            !.cohorts[d] = [@ EXCEPT !.status = "complete", !.finalists = marks,
                                     !.strategies = Selected(c, d)]]

AllScreened(c, d) == c.cohorts[d].receipts = Trials

-----------------------------------------------------------------------------
(* Requests *)
Step(h, step) == turn' = [turn EXCEPT ![h].step = step]

\* Every other copy is now older than the saved state.
SaveCopy(h, c, next) ==
  /\ research' = c
  /\ overwritten' = (overwritten \/ turn[h].stale)
  /\ turn' = [g \in Requests |->
       IF g = h THEN next
       ELSE IF turn[g] = Resting THEN Resting
       ELSE [turn[g] EXCEPT !.stale = @ \/ c # research]]

Onward(h, c, step) == [turn[h] EXCEPT !.step = step, !.copy = c, !.stale = FALSE]

Takes(h, step, m) ==
  turn' = [turn EXCEPT ![h] = [step |-> step, on |-> m, copy |-> research, stale |-> FALSE]]

Handled(m) == Cardinality({h \in Requests : turn[h] # Resting /\ turn[h].on = m})
Waits(m) == queued[m] > Handled(m)
Day(h) == turn[h].on[1]
Trial(h) == turn[h].on[2]

\* pauseResearch and resumeResearch, by the operator: load, change and save.
PauseOrResume ==
  /\ researchFaults < MaxResearchFaults /\ researchFaults' = researchFaults + 1
  /\ research' = [research EXCEPT !.paused = ~@]
  /\ turn' = [h \in Requests |->
                IF turn[h] = Resting THEN Resting ELSE [turn[h] EXCEPT !.stale = TRUE]]
  /\ interrupted' = TRUE
  /\ UNCHANGED <<screens, queued, command, reviews, pool, overwritten>>

-----------------------------------------------------------------------------
(* runSealedResearchCohort *)
RunCohort(h, d) ==
  /\ turn[h] = Resting /\ Handled(<<d, "command">>) = 0
  /\ ~command[d].done /\ command[d].attempts < MaxAttempts
  /\ command' = [command EXCEPT ![d].attempts = @ + 1]
  /\ Takes(h, "generate", <<d, "command">>)
  /\ UNCHANGED <<research, screens, queued, reviews, pool, overwritten, interrupted, researchFaults>>

\* The cost policy, or the storage quota, which also pauses research.
Declines(h) ==
  /\ turn[h].step = "generate"
  /\ \E stop \in {turn[h].copy.paused, TRUE} :
       /\ turn' = [turn EXCEPT ![h].step = "finish", ![h].copy.paused = stop]
       /\ interrupted' = (interrupted \/ stop)
  /\ researchFaults < MaxResearchFaults /\ researchFaults' = researchFaults + 1
  /\ UNCHANGED <<research, screens, queued, command, reviews, pool, overwritten>>

Generate(h) ==
  /\ turn[h].step = "generate"
  /\ turn[h].copy.cohorts[Day(h)].status # "complete"
  /\ LET c == ResetBudget(turn[h].copy, Day(h))
     IN IF Generates(c, Day(h))
        THEN SaveCopy(h, Registered(c, Day(h)), Onward(h, Registered(c, Day(h)), "send"))
        ELSE SaveCopy(h, c, Resting)
  /\ interrupted' = (interrupted \/ \E d \in Days \ {Day(h)} :
                       research.cohorts[d].status = "screening_queued")
  /\ UNCHANGED <<screens, queued, command, reviews, pool, researchFaults>>

\* A complete cohort is a duplicate, and its review is submitted once more.
GenerateDuplicate(h) ==
  /\ turn[h].step = "generate"
  /\ turn[h].copy.cohorts[Day(h)].status = "complete"
  /\ reviews' = reviews \cup {Day(h)}
  /\ Step(h, "finish")
  /\ UNCHANGED <<research, screens, queued, command, pool, overwritten, interrupted, researchFaults>>

Sent(d, sent) ==
  queued' = [m \in Messages |-> IF m \in {d} \X sent THEN queued[m] + 1 ELSE queued[m]]

SendScreens(h) ==
  /\ turn[h].step = "send"
  /\ Sent(Day(h), Trials)
  /\ Step(h, "finish")
  /\ UNCHANGED <<research, screens, command, reviews, pool, overwritten, interrupted, researchFaults>>

\* A batch fails: the command's error path saves the copy and leaves it to retry.
SendFails(h) ==
  /\ turn[h].step = "send"
  /\ researchFaults < MaxResearchFaults /\ researchFaults' = researchFaults + 1
  /\ \E sent \in SUBSET Trials : sent # Trials /\ Sent(Day(h), sent)
  /\ SaveCopy(h, turn[h].copy, Resting)
  /\ UNCHANGED <<screens, command, reviews, pool, interrupted>>

\* The command is marked executed and its copy saved once more.
FinishCommand(h) ==
  /\ turn[h].step = "finish"
  /\ SaveCopy(h, turn[h].copy, Resting)
  /\ command' = [command EXCEPT ![Day(h)].done = TRUE]
  /\ UNCHANGED <<screens, queued, reviews, pool, interrupted, researchFaults>>

-----------------------------------------------------------------------------
(* screenQueuedResearchTrial *)

\* Mutant: a screen that has its receipt is a duplicate and nothing more.
AcknowledgesReceipt(d, t) == IF t \in research.cohorts[d].receipts THEN "ack" ELSE "screen"

\* A screen that has its receipt still looks whether the finalizer is due.
ScreenStep(d, t) == IF t \in research.cohorts[d].receipts THEN "ready" ELSE "screen"

TakeScreen(h, d, t) ==
  /\ turn[h] = Resting /\ Waits(<<d, t>>)
  /\ research.cohorts[d].status = "screening_queued"
  /\ Takes(h, ScreenStep(d, t), <<d, t>>)
  /\ UNCHANGED <<research, screens, queued, command, reviews, pool, overwritten, interrupted, researchFaults>>

\* The commit compacted the trials: a screen that comes later finds no symbols
\* of its trial and throws, until the queue gives its message up.
DeadLetterScreen(d, t) ==
  /\ Waits(<<d, t>>)
  /\ research.cohorts[d].status = "complete"
  /\ queued' = [queued EXCEPT ![<<d, t>>] = @ - 1]
  /\ UNCHANGED <<research, screens, turn, command, reviews, pool, overwritten, interrupted, researchFaults>>

\* Mutant: a put that fails is swallowed.
PutScreenSwallows(h) ==
  /\ turn[h].step = "screen"
  /\ screens' \in {screens, screens \cup {turn[h].on}}
  /\ Step(h, "receipt")
  /\ UNCHANGED <<research, queued, command, reviews, pool, overwritten, interrupted, researchFaults>>

PutScreen(h) ==
  /\ turn[h].step = "screen"
  /\ screens' = screens \cup {turn[h].on}
  /\ Step(h, "receipt")
  /\ UNCHANGED <<research, queued, command, reviews, pool, overwritten, interrupted, researchFaults>>

SaveReceipt(h) ==
  /\ turn[h].step = "receipt"
  /\ LET c == [turn[h].copy EXCEPT !.cohorts[Day(h)].receipts = @ \cup {Trial(h)}]
     IN SaveCopy(h, c, Onward(h, c, "ready"))
  /\ UNCHANGED <<screens, queued, command, reviews, pool, interrupted, researchFaults>>

\* queueResearchFinalizerWhenReady
QueueFinalizer(h) ==
  /\ turn[h].step = "ready"
  /\ LET ready == AllScreened(turn[h].copy, Day(h)) /\ ~turn[h].copy.cohorts[Day(h)].finalizeQueued
     IN IF ready THEN Sent(Day(h), {Final}) /\ Step(h, "queued")
                 ELSE UNCHANGED queued /\ Step(h, "ack")
  /\ UNCHANGED <<research, screens, command, reviews, pool, overwritten, interrupted, researchFaults>>

SaveQueued(h) ==
  /\ turn[h].step = "queued"
  /\ LET c == [turn[h].copy EXCEPT !.cohorts[Day(h)].finalizeQueued = TRUE]
     IN SaveCopy(h, c, Onward(h, c, "ack"))
  /\ UNCHANGED <<screens, queued, command, reviews, pool, interrupted, researchFaults>>

-----------------------------------------------------------------------------
(* finalizeQueuedResearchCohort *)
TakeFinal(h, d) ==
  /\ turn[h] = Resting /\ Waits(<<d, Final>>)
  /\ \/ research.cohorts[d].status = "complete" /\ Takes(h, "review", <<d, Final>>)
     \/ research.cohorts[d].status = "screening_queued" /\ AllScreened(research, d)
        /\ Takes(h, "commit", <<d, Final>>)
  /\ UNCHANGED <<research, screens, queued, command, reviews, pool, overwritten, interrupted, researchFaults>>

\* The artifacts are read and verified against the receipts before.
Finalize(h) ==
  /\ turn[h].step = "commit"
  /\ \A t \in turn[h].copy.cohorts[Day(h)].receipts : <<Day(h), t>> \in screens
  /\ \E marks \in Markings(turn[h].copy, Day(h)) :
       LET c == Committed(turn[h].copy, Day(h), marks)
       IN SaveCopy(h, c, Onward(h, c, "review"))
  /\ UNCHANGED <<screens, queued, command, reviews, pool, interrupted, researchFaults>>

SubmitReview(h) ==
  /\ turn[h].step = "review"
  /\ IF turn[h].copy.cohorts[Day(h)].reviewed
     THEN UNCHANGED reviews /\ Step(h, "ack")
     ELSE reviews' = reviews \cup {Day(h)} /\ Step(h, "reviewed")
  /\ UNCHANGED <<research, screens, queued, command, pool, overwritten, interrupted, researchFaults>>

\* Under a global pause the review is answered with blocked, not an error.
ReviewBlocked(h) ==
  /\ turn[h].step = "review" /\ ~turn[h].copy.cohorts[Day(h)].reviewed
  /\ researchFaults < MaxResearchFaults /\ researchFaults' = researchFaults + 1
  /\ interrupted' = TRUE
  /\ Step(h, "reviewed")
  /\ UNCHANGED <<research, screens, queued, command, reviews, pool, overwritten>>

SaveReviewed(h) ==
  /\ turn[h].step = "reviewed"
  /\ LET c == [turn[h].copy EXCEPT !.cohorts[Day(h)].reviewed = TRUE]
     IN SaveCopy(h, c, Onward(h, c, "ack"))
  /\ UNCHANGED <<screens, queued, command, reviews, pool, interrupted, researchFaults>>

-----------------------------------------------------------------------------
\* consumeArchitectureQueue
Acknowledge(h) ==
  /\ turn[h].step = "ack"
  /\ queued' = [queued EXCEPT ![turn[h].on] = @ - 1]
  /\ turn' = [turn EXCEPT ![h] = Resting]
  /\ UNCHANGED <<research, screens, command, reviews, pool, overwritten, interrupted, researchFaults>>

\* A step throws, the answer or its acknowledgement is lost: the message, or
\* the command, comes again.
Breaks(h) ==
  /\ turn[h] # Resting
  /\ researchFaults < MaxResearchFaults /\ researchFaults' = researchFaults + 1
  /\ turn' = [turn EXCEPT ![h] = Resting]
  /\ UNCHANGED <<research, screens, queued, command, reviews, pool, overwritten, interrupted>>

RestartAll ==
  /\ \E h \in Requests : turn[h] # Resting
  /\ researchFaults < MaxResearchFaults /\ researchFaults' = researchFaults + 1
  /\ turn' = [h \in Requests |-> Resting]
  /\ UNCHANGED <<research, screens, queued, command, reviews, pool, overwritten, interrupted>>

\* Strategies that may be parents came, or moved on in their lifecycle.
ChangeParents ==
  /\ pool < MaxPools
  /\ pool' = pool + 1
  /\ UNCHANGED <<research, screens, queued, turn, command, reviews, overwritten, interrupted, researchFaults>>

Progress(h) ==
  \/ Generate(h) \/ GenerateDuplicate(h) \/ SendScreens(h) \/ FinishCommand(h)
  \/ \E d \in Days : TakeFinal(h, d) \/ (\E t \in Trials : TakeScreen(h, d, t))
  \/ PutScreen(h) \/ SaveReceipt(h) \/ QueueFinalizer(h) \/ SaveQueued(h)
  \/ Finalize(h) \/ SubmitReview(h) \/ SaveReviewed(h) \/ Acknowledge(h)

ResearchNext ==
  \/ \E h \in Requests :
       \/ \E d \in Days : RunCohort(h, d)
       \/ Progress(h) \/ Declines(h) \/ SendFails(h) \/ ReviewBlocked(h) \/ Breaks(h)
  \/ \E d \in Days, t \in Trials : DeadLetterScreen(d, t)
  \/ RestartAll \/ PauseOrResume \/ ChangeParents

ResearchSpec ==
  ResearchInit /\ [][ResearchNext]_researchVars /\ \A h \in Requests : WF_researchVars(Progress(h))
-----------------------------------------------------------------------------
Cohort ==
  [status: {"none", "screening_queued", "complete"}, parents: 0..MaxPools, receipts: SUBSET Trials,
   finalizeQueued: BOOLEAN, finalists: SUBSET Worthy, strategies: SUBSET Worthy, reviewed: BOOLEAN]

(* Cohorts and the day's budget keep their shape and their limits, and a      *)
(* receipt that was saved names an artifact that is in R2                     *)
(* (screenQueuedResearchTrial puts the artifact first).                       *)
ResearchTypeOK ==
  /\ research.cohorts \in [Days -> Cohort]
  /\ research.budget.day \in 0..Sessions
  /\ research.budget.sampled \in {0, Cardinality(Sampled)}
  /\ research.budget.finalists \in 0..FinalistCap
  /\ \A d \in Days : {d} \X research.cohorts[d].receipts \subseteq screens
  /\ \A m \in Messages : queued[m] \in Nat

(* Whatever is redelivered, cut off or overwritten: no retry charges a trial  *)
(* twice, and strategies come from nothing but the screen of all the cohort's *)
(* trials (finalizeQueuedResearchCohort); and, unless research was paused or   *)
(* two days' cohorts were at work at once, each of them is a marked finalist, *)
(* or dispatchExpensiveFinalists would pass it over for good.                 *)
CohortIsWhole ==
  /\ research.total = Cardinality(Trials) * Cardinality({d \in Days : Known(research, d)})
  /\ \A d \in Days : LET c == research.cohorts[d] IN
       IF c.status = "complete"
       THEN /\ c.receipts = Trials /\ c.strategies = Worthy
            /\ interrupted \/ overwritten \/ c.finalists = Worthy
       ELSE c.strategies = {}

AllQueued(d) == \A t \in Trials : queued[<<d, t>>] > 0

(* Once all screens of a cohort are in the queue the cohort is completed and  *)
(* its review committed, though a crash may part a receipt from the finalizer *)
(* and the finalizer from the review, unless a request saved an older copy    *)
(* over another's save, or the review was blocked.                            *)
CohortCompletes ==
  \A d \in Days :
    AllQueued(d) ~>
      (overwritten \/ (research.cohorts[d].status = "complete" /\ (interrupted \/ d \in reviews)))
=============================================================================

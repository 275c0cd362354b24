----------------------------- MODULE LiveSession -----------------------------
(* One session of live market data for one symbol (worker/market-data.js,     *)
(* runMarketDataTick in worker/index.js) and the commands planned from it     *)
(* (worker/orchestration-schedule.js).  Every minute the cron sends the       *)
(* object a market tick and then an orchestration tick.  The market tick      *)
(* reads the newest one-minute bars, finalizes five-minute buckets behind a   *)
(* watermark, puts the live book into the object's storage, inserts the       *)
(* events in D1 and saves the state.  Minutes count from the open; a version  *)
(* stands for the content of a bar, and two buckets of different minutes or   *)
(* versions differ in content.                                                *)
EXTENDS Integers

CONSTANTS
  Width,      \* minutes of a bucket, 5 in the code
  Buckets,    \* buckets of the session
  Watermark,  \* minutes a bucket waits after its close, 75 s in the code
  Overlap,    \* minutes a poll looks back, 12 in the code
  Retention,  \* minutes the book keeps, 30 in the code
  PollSlack,  \* minutes polled after the close, 5 in the code
  ReconcileFrom, ReconcileTo, \* minutes after the close, 10 and 30 in the code
  ClosePhases,     \* close phases: function from phase to minutes before the close
  MaxCorrections, MaxFaults \* bounds

ASSUME LiveAssumption ==
  /\ {Width, Buckets, Watermark, Overlap, Retention} \subseteq Nat \ {0}
  /\ Overlap <= Retention
  /\ {PollSlack, ReconcileFrom, ReconcileTo, MaxCorrections, MaxFaults} \subseteq Nat
  /\ ClosePhases \in [DOMAIN ClosePhases -> Int]

VARIABLES
  minute,      \* the minute of the exchange
  feed,     \* the source: the version of each minute's bar, 0 before there is one
  book,     \* md:live-book in the object's storage
  rows,     \* D1 market_five_minute_events
  market,   \* the saved state.marketData
  tick,     \* the tick under way and the copy of the state it holds
  planned,  \* intents whose commands were submitted
  paused,   \* controls.ingestion_paused
  held,     \* the copies of state.marketData other requests hold
  corrected, faults

liveVars == <<minute, feed, book, rows, market, tick, planned, paused, held, corrected, faults>>

Close == Width * Buckets
Minutes == 0..(Close - 1)
Bucket(m) == m \div Width
BucketMinutes(b) == (b * Width)..(b * Width + Width - 1)
BucketClose(b) == (b + 1) * Width
LastMinute == Close + ReconcileTo

EmptyLiveBook == [minutes |-> <<>>, finalized |-> <<>>]
NoTick == [step |-> "idle"]

LiveInit ==
  /\ minute = 0
  /\ feed = [m \in Minutes |-> 0]
  /\ book = EmptyLiveBook
  /\ rows = {}
  /\ market = [tick |-> -1, events |-> {}, reconciled |-> "none"]
  /\ tick = NoTick
  /\ planned = {} /\ paused = FALSE /\ held = {} /\ corrected = 0 /\ faults = 0

-----------------------------------------------------------------------------
(* The source publishes a bar when its minute is over, and may correct it.    *)
(* Only the first step of a tick reads it, so it moves between ticks.         *)
Publish(m) ==
  /\ tick = NoTick /\ m < minute /\ feed[m] = 0
  /\ feed' = [feed EXCEPT ![m] = 1]
  /\ UNCHANGED <<minute, book, rows, market, tick, planned, paused, held, corrected, faults>>

Correct(m) ==
  /\ tick = NoTick /\ feed[m] > 0 /\ corrected < MaxCorrections
  /\ feed' = [feed EXCEPT ![m] = @ + 1]
  /\ corrected' = corrected + 1
  /\ UNCHANGED <<minute, book, rows, market, tick, planned, paused, held, faults>>

-----------------------------------------------------------------------------
(* applyLiveMinutePoll.                                                       *)
Polled == {m \in Minutes : m >= minute - Overlap /\ feed[m] > 0}

\* Minutes as the poll leaves them: the newest version of each.
Received(b) == [m \in DOMAIN b.minutes \cup Polled |-> IF m \in Polled THEN feed[m] ELSE b.minutes[m]]

\* aggregateMinuteRecords: what the book holds of a bucket's minutes.
Aggregated(minutes, b) == [m \in DOMAIN minutes \cap BucketMinutes(b) |-> minutes[m]]

Unsettled(minutes) ==
  {b \in {Bucket(m) : m \in DOMAIN minutes} : minute >= BucketClose(b) + Watermark}

Revision(b, finalized) == IF b \in DOMAIN finalized THEN finalized[b].revision ELSE 0

BarEvent(b, minutes, finalized) ==
  [bucket |-> b, revision |-> Revision(b, finalized) + 1, content |-> Aggregated(minutes, b),
   retroactive |-> b \in DOMAIN finalized,
   actionable |-> b \notin DOMAIN finalized /\ DOMAIN Aggregated(minutes, b) = BucketMinutes(b)]

Changed(b, minutes, finalized) ==
  b \notin DOMAIN finalized \/ finalized[b].content # Aggregated(minutes, b)

\* Mutant: the book does not remember the bucket as finalized.
MarkedNever(finalized, events) == [x \in DOMAIN finalized |-> finalized[x]]

\* Finalized buckets outlive the session (24 h).
Marked(finalized, events) ==
  [x \in DOMAIN finalized \cup {e.bucket : e \in events} |->
     IF \E e \in events : e.bucket = x
     THEN LET e == CHOOSE e \in events : e.bucket = x
          IN [content |-> e.content, revision |-> e.revision]
     ELSE finalized[x]]

\* Minutes are pruned one by one.
ApplyPoll(b) ==
  LET minutes == Received(b)
      events == {BarEvent(x, minutes, b.finalized) :
                   x \in {y \in Unsettled(minutes) : Changed(y, minutes, b.finalized)}}
      kept == {m \in DOMAIN minutes : m >= minute - Retention}
  IN [events |-> events,
      book |-> [minutes |-> [m \in kept |-> minutes[m]],
                finalized |-> Marked(b.finalized, events)]]

-----------------------------------------------------------------------------
(* runMarketDataTick.  The cron delivers a minute's tick once, again or never. *)
ScheduleAction ==
  CASE minute <= Close + PollSlack -> "poll"
    [] minute \in (Close + ReconcileFrom)..(Close + ReconcileTo) -> "reconcile"
    [] OTHER -> "idle"

\* A market tick that is skipped or fails hands over to the orchestration tick.
Plan == [step |-> "plan"]

TickDue == tick = NoTick /\ ~paused /\ market.tick # minute

SkipTick ==
  /\ tick = NoTick
  /\ paused \/ market.tick = minute \/ ScheduleAction = "idle"
  /\ tick' = Plan
  /\ UNCHANGED <<minute, feed, book, rows, market, planned, paused, held, corrected, faults>>

\* pollLiveMarketData up to the put of the book, the first act of saveLiveResult.
Poll ==
  /\ TickDue /\ ScheduleAction = "poll"
  /\ LET result == ApplyPoll(book)
     IN /\ book' = result.book
        /\ tick' = [step |-> "rows", copy |-> market, events |-> result.events]
  /\ UNCHANGED <<minute, feed, rows, market, planned, paused, held, corrected, faults>>

\* saveLiveResult: INSERT ... ON CONFLICT(event_id) DO NOTHING, in chunks.
InsertRows ==
  /\ tick.step = "rows"
  /\ rows' = rows \cup tick.events
  /\ tick' = [step |-> "save",
              copy |-> [tick.copy EXCEPT !.tick = minute, !.events = tick.events]]
  /\ UNCHANGED <<minute, feed, book, market, planned, paused, held, corrected, faults>>

InsertFails ==
  /\ tick.step = "rows" /\ faults < MaxFaults
  /\ \E some \in SUBSET tick.events : rows' = rows \cup some
  /\ tick' = Plan /\ faults' = faults + 1
  /\ UNCHANGED <<minute, feed, book, market, planned, paused, held, corrected>>

\* liveEventsForSession: the latest revision D1 has of each bucket.
LatestRows == {r \in rows : \A s \in rows : s.bucket = r.bucket => s.revision <= r.revision}

\* The native bars are made of what the source has by minute.
Native == [b \in {Bucket(m) : m \in {x \in Minutes : feed[x] > 0}} |->
             [m \in {x \in BucketMinutes(b) : feed[x] > 0} |-> feed[m]]]

Matched == \A b \in DOMAIN Native : \E r \in LatestRows : r.bucket = b /\ r.content = Native[b]

Reconciliation ==
  IF Matched /\ {r.bucket : r \in LatestRows} = DOMAIN Native /\ DOMAIN Native = 0..(Buckets - 1)
  THEN "healthy" ELSE "revising"

Reconcile ==
  /\ TickDue /\ ScheduleAction = "reconcile"
  /\ tick' = [step |-> "save",
              copy |-> [market EXCEPT !.tick = minute,
                          !.reconciled = IF @ = "none" THEN Reconciliation ELSE @]]
  /\ UNCHANGED <<minute, feed, book, rows, market, planned, paused, held, corrected, faults>>

SaveTick ==
  /\ tick.step = "save"
  /\ market' = tick.copy
  /\ tick' = Plan
  /\ UNCHANGED <<minute, feed, book, rows, planned, paused, held, corrected, faults>>

-----------------------------------------------------------------------------
(* planOrchestrationWork and the submission of its intents, in their order.  *)
EventIntent(e) ==
  [kind |-> "event", bucket |-> e.bucket, revision |-> e.revision, content |-> e.content]
PhaseIntent(p) == [kind |-> "phase", phase |-> p]

\* Mutant: a phase is planned in its own minute only.
PhasesDueNow == {p \in DOMAIN ClosePhases : minute = Close - ClosePhases[p]}

PhasesDue == {p \in DOMAIN ClosePhases : minute >= Close - ClosePhases[p]}

MarketIntents ==
  {EventIntent(e) : e \in {x \in market.events : ~paused /\ x.actionable /\ ~x.retroactive}}

DueIntents(marketIntents) == (marketIntents \cup {PhaseIntent(p) : p \in PhasesDue}) \ planned

Before(i, j) ==
  \/ i.kind = "event" /\ j.kind = "phase"
  \/ i.kind = "event" /\ j.kind = "event" /\ i.bucket < j.bucket
  \/ i.kind = "phase" /\ j.kind = "phase" /\ ClosePhases[i.phase] > ClosePhases[j.phase]

\* A submission that throws ends the tick: a prefix of the plan is submitted.
Prefixes(due) == {done \in SUBSET due : \A i \in done, j \in due : Before(j, i) => j \in done}

OrchestrationTick ==
  /\ tick = Plan
  /\ tick' = NoTick
  /\ LET due == DueIntents(MarketIntents)
     IN \/ planned' = planned \cup due /\ UNCHANGED faults
        \/ /\ faults < MaxFaults /\ faults' = faults + 1
           /\ \E done \in Prefixes(due) \ {due} : planned' = planned \cup done
  /\ UNCHANGED <<minute, feed, book, rows, market, paused, held, corrected>>

\* The object's alarm plans as well, without the events.
Alarm ==
  /\ DueIntents({}) # {}
  /\ planned' = planned \cup DueIntents({})
  /\ UNCHANGED <<minute, feed, book, rows, market, tick, paused, held, corrected, faults>>

-----------------------------------------------------------------------------
(* The clock, the operator's pause of the ingestion, restarts, and requests   *)
(* that save the state they loaded before a tick saved its own.               *)
Advance ==
  /\ tick = NoTick /\ minute <= LastMinute
  /\ minute' = minute + 1
  /\ UNCHANGED <<feed, book, rows, market, tick, planned, paused, held, corrected, faults>>

Ingestion ==
  /\ faults < MaxFaults
  /\ paused' = ~paused /\ faults' = faults + 1
  /\ UNCHANGED <<minute, feed, book, rows, market, tick, planned, held, corrected>>

Restart ==
  /\ tick # NoTick /\ faults < MaxFaults
  /\ tick' = NoTick /\ held' = {} /\ faults' = faults + 1
  /\ UNCHANGED <<minute, feed, book, rows, market, planned, paused, corrected>>

Hold ==
  /\ held = {} /\ faults < MaxFaults
  /\ held' = {market} /\ faults' = faults + 1
  /\ UNCHANGED <<minute, feed, book, rows, market, tick, planned, paused, corrected>>

SaveHeld ==
  /\ held # {}
  /\ market' \in held /\ held' = {}
  /\ UNCHANGED <<minute, feed, book, rows, tick, planned, paused, corrected, faults>>

LiveNext ==
  \/ \E m \in Minutes : Publish(m) \/ Correct(m)
  \/ minute <= LastMinute /\ (SkipTick \/ Poll \/ Reconcile)
  \/ InsertRows \/ InsertFails \/ SaveTick
  \/ OrchestrationTick \/ Alarm
  \/ Advance \/ Ingestion \/ Restart \/ Hold \/ SaveHeld

LiveSpec == LiveInit /\ [][LiveNext]_liveVars

-----------------------------------------------------------------------------
Content == UNION {[S -> 1..(MaxCorrections + 1)] : S \in UNION {SUBSET BucketMinutes(b) : b \in 0..(Buckets - 1)}}

(* The book, the rows and the plan hold bars of the session, an event's flags *)
(* follow from its revision, and the tick is somewhere in its steps           *)
(* (applyLiveMinutePoll, saveLiveResult).                                     *)
LiveTypeOK ==
  /\ minute \in 0..(LastMinute + 1)
  /\ feed \in [Minutes -> 0..(MaxCorrections + 1)]
  /\ \A b \in DOMAIN book.finalized :
       /\ b \in 0..(Buckets - 1) /\ book.finalized[b].revision >= 1
       /\ book.finalized[b].content \in Content
  /\ \A r \in rows : r.content \in Content /\ r.retroactive = (r.revision > 1)
  /\ tick.step \in {"idle", "rows", "save", "plan"}
  /\ market.reconciled \in {"none", "healthy", "revising"}

Decisions == {i \in planned : i.kind = "event"}

(* One trading decision for a bucket, on its first finalization and on the    *)
(* row D1 has of it, whatever is corrected later, whichever inserts and saves *)
(* are lost, and though each poll revisits every buffered bucket              *)
(* (planMarketEvent: source corrections never produce a new decision).        *)
OneDecision ==
  \A i \in Decisions :
    /\ \A j \in Decisions : i.bucket = j.bucket => i = j
    /\ {r \in rows : r.bucket = i.bucket /\ r.revision = 1} =
         {[bucket |-> i.bucket, revision |-> 1, content |-> i.content,
           retroactive |-> FALSE, actionable |-> TRUE]}

(* The phases of the close are committed in their order, flatten after the    *)
(* stop of entries and the ledger after the reconciliation, though ticks are  *)
(* late, missed or broken off (planOrchestrationTick: passed phases remain    *)
(* due).                                                                      *)
ClosePhasesInOrder ==
  \A p, q \in DOMAIN ClosePhases :
    PhaseIntent(q) \in planned /\ ClosePhases[p] > ClosePhases[q] => PhaseIntent(p) \in planned

(* market-data.test.js:95, "live one-minute bars finalize once after the      *)
(* watermark": a whole bucket whose bars were never corrected has one event.  *)
FinalizesOnce ==
  \A r, s \in rows :
    /\ r.bucket = s.bucket /\ r.actionable
    /\ \A m \in BucketMinutes(r.bucket) : feed[m] = 1
    => r = s
=============================================================================

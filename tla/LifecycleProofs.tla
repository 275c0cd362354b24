---------------------------- MODULE LifecycleProofs ----------------------------
(* The life of strategies in StrategyLifecycle, for any population, founders,  *)
(* shorts and rework limit.  Types and what a trading label rests on hold       *)
(* whatever goes wrong; that strategy.state and strategy.lifecycle agree, and   *)
(* that nothing leaves quarantine but for retirement, holds while no strategy   *)
(* is paused during its run.                                                    *)
EXTENDS StrategyLifecycle, TLAPS

\* The labels a strategy only has after its sealed holdout.
Late == Trading \union {"incubation", "release_blocked_short"}

\* Not judged by its health yet.
Unmonitored == {"unborn", "generated", "rework", "validation", "capacity_wait",
                "incubation", "release_blocked_short"}

(* What a trading label, now or after a resume, rests on.  A queued holdout has *)
(* no outcome yet, so that finalizing it overwrites none.                       *)
Vouched(r) ==
  /\ {r.label, r.resume} \intersect Trading # {} => r.released
  /\ {r.label, r.resume} \intersect Late # {} => r.sealed = "incubation"
  /\ r.holdout = "queued" => r.sealed = "none"
  /\ "queued" \in {r.development, r.holdout} => setting.partitioned

VouchedIInv == TypeOK /\ \A s \in Strategy : Vouched(rows[s])

\* The stores fail: a label can be ahead of the lifecycle and of the release.
Loose == setting.trouble = "stores_fail"

\* The qualities of a strategy whose lifecycle stopped before its release.
Early == {"sealed_validation", "incubation", "release_blocked_short"}

\* The quality, and health status, of a strategy traded under a label.
Quality(label) == IF label = "released" THEN "released_paper" ELSE label

\* r stands at a label in strategy.state and at a quality in strategy.lifecycle.
Stands(r, label, quality) ==
  /\ label \in {"unborn", "generated"} => quality \in {"screened", "development"}
  /\ label = "validation" => quality = "sealed_validation"
  /\ label = "capacity_wait" => quality \in {"capacity_wait", "sealed_validation"}
  /\ label \in {"incubation", "release_blocked_short"} =>
       quality \in Early /\ (quality = "sealed_validation" => Loose)
  /\ label \in Trading =>
       \/ quality = Quality(label) /\ r.status = Quality(label) /\ (r.row \/ Loose)
       \/ /\ Loose /\ label # "quarantined" /\ quality \in Early
          /\ r.status \in {"none", "released_paper", "healthy", "watch"}
  /\ label = "retired" => quality = "retired"
  /\ label \in Unmonitored => r.status = "none"

\* A paused strategy stands where its resume brings it; one paused twice keeps
\* the label operator_paused for good.
Steady(r) ==
  /\ r.pausedFrom # "operator_paused"
  /\ r.pausedFrom # NotPaused <=> r.quality = "operator_paused"
  /\ r.label # "operator_paused" =>
       r.quality # "operator_paused" /\ Stands(r, r.label, r.quality)
  /\ r.label = "operator_paused" /\ r.quality = "operator_paused" => r.resume # NotPaused
  /\ r.label = "operator_paused" /\ r.resume \notin {"operator_paused", NotPaused} =>
       r.quality = "operator_paused" /\ Stands(r, r.resume, r.pausedFrom)
  /\ r.development = "queued" => r.label = "generated"
  /\ r.holdout = "queued" =>
       r.label \in {"validation", "capacity_wait"} /\ r.quality = "sealed_validation"

\* A challenger is traded in the place of its champion.
Succeeds(r, R) ==
  ({r.label, r.resume} \intersect Trading # {} /\ r.champion # Nobody /\ ~Loose) =>
    R[r.champion].label = "retired"

SteadyIInv ==
  /\ VouchedIInv
  /\ setting.trouble # "paused_in_run" =>
       \A s \in Strategy : Steady(rows[s]) /\ Succeeds(rows[s], rows)

-----------------------------------------------------------------------------
(* A step of one strategy. *)

Steadily == setting.trouble # "paused_in_run"

Held(r) == r \in Row /\ Vouched(r) /\ (Steadily => Steady(r))

\* What the properties ask of a strategy's step from r to t; a strategy that
\* begins to trade needs a word about its champion as well.
OneWay(r, t) ==
  Steadily =>
    /\ r.label = "retired" => t.label = "retired"
    /\ r.label = "quarantined" => t.label \in {"quarantined", "retired"}

Trades(r) == {r.label, r.resume} \intersect Trading # {}

Follows(r, t) ==
  /\ Held(t)
  /\ OneWay(r, t)
  /\ Trades(t) => Trades(r) /\ t.champion = r.champion

-----------------------------------------------------------------------------
(* The contract *)

LEMMA LegalMoves ==
  ASSUME NEW r \in Row, r.quality # "operator_paused"
  PROVE  /\ r.quality \in Active => Legal(r, "quarantined") /\ Legal(r, "retired")
         /\ r.quality = "quarantined" => Legal(r, "retired")
         /\ r.quality \in {"quarantined", "retired"} => ~Legal(r, "operator_paused")
         /\ r.quality = "released_paper" => Legal(r, "healthy") /\ Legal(r, "watch")
         /\ r.quality = "healthy" => Legal(r, "watch")
         /\ r.quality = "watch" => Legal(r, "healthy")
<1>1. r.quality \in QualityStates
  BY DEF Row
<1>2. /\ "released_paper" \in DOMAIN Forward /\ Forward["released_paper"] = {"healthy", "watch", "quarantined"}
      /\ "healthy" \in DOMAIN Forward /\ Forward["healthy"] = {"watch", "quarantined", "retired"}
      /\ "watch" \in DOMAIN Forward /\ Forward["watch"] = {"healthy", "quarantined", "retired"}
      /\ "quarantined" \in DOMAIN Forward /\ Forward["quarantined"] = {"retired"}
      /\ "retired" \notin DOMAIN Forward
  BY DEF Forward
<1>3. "quarantined" \notin Active /\ "retired" \notin Active
  BY DEF Active, Terminal
<1>4. \A target : Legal(r, target) <=> target \in QualityTransitions[r.quality]
  BY DEF Legal
<1>5. QualityTransitions[r.quality] =
        (IF r.quality \in DOMAIN Forward THEN Forward[r.quality] ELSE {}) \union
        (IF r.quality \in Active
         THEN {"operator_paused", "superseded", "quarantined", "retired"} ELSE {})
  BY <1>1 DEF QualityTransitions
<1> HIDE DEF Forward
<1> QED BY <1>2, <1>3, <1>4, <1>5

\* Everything but the quality and where a pause came from.
Alike(r, t) ==
  /\ t \in Row
  /\ t.label = r.label /\ t.resume = r.resume /\ t.status = r.status
  /\ t.development = r.development /\ t.holdout = r.holdout /\ t.sealed = r.sealed
  /\ t.released = r.released /\ t.row = r.row /\ t.champion = r.champion

LEMMA MovedRow ==
  ASSUME NEW r \in Row, NEW target \in QualityStates
  PROVE  /\ Alike(r, Moved(r, target))
         /\ Moved(r, target).quality = target
         /\ Moved(r, target).pausedFrom =
              IF target = "operator_paused" THEN r.quality ELSE NotPaused
<1> DEFINE from == IF target = "operator_paused" THEN r.quality ELSE NotPaused
<1>1. from \in QualityStates \union {NotPaused}
  BY DEF Row
<1>2. Moved(r, target) = [r EXCEPT !.quality = target, !.pausedFrom = from]
  BY DEF Moved
<1> HIDE DEF from
<1>3. [r EXCEPT !.quality = target, !.pausedFrom = from] \in Row
  BY <1>1 DEF Row
<1> QED BY <1>2, <1>3 DEF Alike, Row, from

LEMMA MovedFromRow ==
  ASSUME NEW r \in Row, NEW states, NEW target \in QualityStates, target # "operator_paused"
  PROVE  LET t == MovedFrom(r, states, target) IN
         /\ Alike(r, t)
         /\ r.quality \in states => t.quality = target /\ t.pausedFrom = NotPaused
         /\ r.quality \notin states => t = r
BY MovedRow DEF MovedFrom, Alike

LEMMA WorkRow ==
  ASSUME NEW r \in Row, NEW t \in {Dispatched(r), Completed(r), Deferred(r)}
  PROVE  Alike(r, t) /\ t.quality = r.quality /\ t.pausedFrom = r.pausedFrom
<1>1. \E work \in Operational : t = r \/ t = [r EXCEPT !.work = work]
  BY DEF Dispatched, Completed, Deferred, Operational
<1> QED BY <1>1 DEF Alike, Row

\* Fields no property is about.
LEMMA AlikeFollows ==
  ASSUME NEW r, Held(r), NEW t, Alike(r, t), t.quality = r.quality, t.pausedFrom = r.pausedFrom
  PROVE  Follows(r, t)
BY DEF Held, Alike, Follows, OneWay, Trades, Vouched, Steady, Stands

-----------------------------------------------------------------------------
(* Review and validation *)

\* In the pool of the holdout capacity, before it is applied.
Poolable(t) ==
  /\ t \in Row /\ Vouched(t) /\ t.label \in {"validation", "capacity_wait"}
  /\ Steadily =>
       /\ t.pausedFrom = NotPaused /\ t.status = "none" /\ t.development # "queued"
       /\ t.quality \in {"supervisor_approved", "capacity_wait", "sealed_validation"}
       /\ t.holdout = "queued" => t.quality = "sealed_validation"

Between(r, t) ==
  /\ Held(t) \/ Poolable(t)
  /\ OneWay(r, t)
  /\ Trades(t) => Trades(r) /\ t.champion = r.champion

LEMMA DecidedBetween ==
  ASSUME NEW r, Held(r), NEW d \in DevelopmentDecision, Steadily => r.label = "generated",
         NEW t,
         \/ t = Decided(InDevelopment(r), d) /\ r.development # "queued"
         \/ t = [Decided(InDevelopment(r), d) EXCEPT !.development = "finalized"]
  PROVE  Between(r, t)
<1> DEFINE a == MovedFrom(r, {"screened"}, "development")
           b == Dispatched(a)
           c == Completed(b)
           e == [c EXCEPT !.label = ReviewLabel[d]]
           f == MovedFrom(e, {"development"}, ReviewQuality[d])
<1>1. \/ t = f /\ r.development # "queued"
      \/ t = [f EXCEPT !.development = "finalized"]
  BY DEF Decided, InDevelopment
<1>2. r \in Row /\ "development" \in QualityStates
  BY DEF Held, QualityStates
<1>3. /\ Alike(r, a)
      /\ r.quality = "screened" => a.quality = "development" /\ a.pausedFrom = NotPaused
      /\ r.quality # "screened" => a = r
  BY <1>2, MovedFromRow
<1> HIDE DEF a
<1>4. Alike(a, b) /\ b.quality = a.quality /\ b.pausedFrom = a.pausedFrom
  BY <1>3, WorkRow DEF Alike
<1> HIDE DEF b
<1>5. Alike(b, c) /\ c.quality = b.quality /\ c.pausedFrom = b.pausedFrom
  BY <1>4, WorkRow DEF Alike
<1> HIDE DEF c
<1>6. ReviewLabel[d] \in {"validation", "development_reject", "rework"}
      /\ ReviewQuality[d] \in {"supervisor_approved", "development_reject", "superseded"}
      /\ (ReviewLabel[d] = "validation" => ReviewQuality[d] = "supervisor_approved")
  BY DEF DevelopmentDecision, ReviewLabel, ReviewQuality
<1> DEFINE label == ReviewLabel[d]
           quality == ReviewQuality[d]
<1> HIDE DEF label, quality
<1>7. /\ e \in Row /\ e.label = label /\ e.quality = c.quality /\ e.pausedFrom = c.pausedFrom
      /\ e.resume = c.resume /\ e.status = c.status /\ e.development = c.development
      /\ e.holdout = c.holdout /\ e.sealed = c.sealed /\ e.released = c.released
      /\ e.row = c.row /\ e.champion = c.champion
  <2>1. label \in Labels
    BY <1>6 DEF label, Labels
  <2>2. e = [c EXCEPT !.label = label]
    BY DEF label
  <2> QED BY <1>5, <2>1, <2>2 DEF Alike, Row
<1> HIDE DEF e
<1>8. /\ Alike(e, f)
      /\ e.quality = "development" => f.quality = quality /\ f.pausedFrom = NotPaused
      /\ e.quality # "development" => f = e
  BY <1>6, <1>7, MovedFromRow DEF quality, QualityStates, Terminal
<1> HIDE DEF f
<1>9. /\ t \in Row /\ t.label = label /\ t.quality = f.quality /\ t.pausedFrom = f.pausedFrom
      /\ t.resume = r.resume /\ t.status = r.status /\ t.development # "queued"
      /\ t.holdout = r.holdout /\ t.sealed = r.sealed /\ t.released = r.released
      /\ t.row = r.row /\ t.champion = r.champion
  BY <1>1, <1>3, <1>4, <1>5, <1>7, <1>8 DEF Alike, Row, RunStates
<1>10. Vouched(r) /\ label \in {"validation", "development_reject", "rework"}
  BY <1>6 DEF Held, label
<1>11. Vouched(t)
  BY <1>9, <1>10 DEF Vouched, Late, Trading
<1>12. Trades(t) => Trades(r) /\ t.champion = r.champion
  BY <1>9, <1>10 DEF Trades, Trading
<1>13. OneWay(r, t)
  BY DEF OneWay
<1>14. Steadily => /\ Steady(r) /\ r.label = "generated" /\ r.quality \in {"screened", "development"}
                   /\ r.pausedFrom = NotPaused /\ r.status = "none" /\ r.holdout # "queued"
  BY DEF Held, Steady, Stands, Unmonitored
<1>15. Steadily => t.quality = quality /\ t.pausedFrom = NotPaused
  BY <1>3, <1>4, <1>5, <1>7, <1>8, <1>9, <1>14
<1>16. ASSUME label = "validation"
       PROVE  Between(r, t)
  BY <1>6, <1>9, <1>11, <1>12, <1>13, <1>14, <1>15, <1>16
     DEF Between, Poolable, label, quality
<1>17. ASSUME label # "validation"
       PROVE  Between(r, t)
  <2>1. Steadily => Steady(t)
    BY <1>6, <1>9, <1>10, <1>14, <1>15, <1>17
       DEF Steady, Stands, Trading, Unmonitored, quality
  <2> QED BY <1>9, <1>11, <1>12, <1>13, <2>1 DEF Between, Held
<1> QED BY <1>16, <1>17

LEMMA FollowsBetween ==
  ASSUME NEW r, NEW t, Follows(r, t)
  PROVE  Between(r, t)
BY DEF Follows, Between

LEMMA HeldFollows ==
  ASSUME NEW r, Held(r)
  PROVE  Follows(r, r)
BY DEF Follows, OneWay

\* Development begins.
LEMMA BegunFollows ==
  ASSUME NEW r, Held(r), NEW development \in RunStates,
         development = r.development
         \/ development = "finalized" \/ (setting.partitioned /\ (Steadily => r.label = "generated")),
         NEW g \in {InDevelopment(r), Deferred(InDevelopment(r))},
         Steadily => r.label = "generated",
         NEW t, \/ t = g /\ development = r.development
                \/ t = [g EXCEPT !.development = development]
  PROVE  Follows(r, t)
<1> DEFINE a == MovedFrom(r, {"screened"}, "development")
           b == Dispatched(a)
<1>1. r \in Row /\ "development" \in QualityStates
  BY DEF Held, QualityStates
<1>2. /\ Alike(r, a)
      /\ r.quality = "screened" => a.quality = "development" /\ a.pausedFrom = NotPaused
      /\ r.quality # "screened" => a = r
  BY <1>1, MovedFromRow
<1> HIDE DEF a
<1>3. Alike(a, b) /\ b.quality = a.quality /\ b.pausedFrom = a.pausedFrom
  BY <1>2, WorkRow DEF Alike
<1> HIDE DEF b
<1>4. g = b \/ g = Deferred(b)
  BY DEF InDevelopment, a, b
<1>5. b \in Row
  BY <1>3 DEF Alike
<1>6. Alike(b, g) /\ g.quality = b.quality /\ g.pausedFrom = b.pausedFrom
  BY <1>4, <1>5, WorkRow DEF Alike
<1>7. /\ t \in Row /\ t.label = r.label /\ t.resume = r.resume /\ t.status = r.status
      /\ t.development = development /\ t.holdout = r.holdout /\ t.sealed = r.sealed
      /\ t.released = r.released /\ t.row = r.row /\ t.champion = r.champion
      /\ t.quality = g.quality /\ t.pausedFrom = g.pausedFrom
  BY <1>2, <1>3, <1>6 DEF Alike, Row
<1>8. Vouched(t)
  BY <1>7 DEF Held, Vouched
<1>9. Steadily => Steady(t)
  <2> SUFFICES ASSUME Steadily PROVE Steady(t)
    OBVIOUS
  <2>1. Steady(r) /\ r.label = "generated"
    BY DEF Held
  <2>2. r.quality \in {"screened", "development"} /\ r.pausedFrom = NotPaused /\ r.status = "none"
    BY <2>1 DEF Steady, Stands, Unmonitored
  <2>3. t.quality \in {"screened", "development"} /\ t.pausedFrom = NotPaused
    BY <1>2, <1>3, <1>6, <1>7, <2>2
  <2> QED BY <1>7, <2>1, <2>2, <2>3 DEF Steady, Stands, Trading, Unmonitored
<1> QED BY <1>7, <1>8, <1>9 DEF Follows, Held, OneWay, Trades

LEMMA ReviewedBetween ==
  ASSUME NEW r, Held(r), r.label = "generated", NEW out \in ReviewOutcome
  PROVE  Between(r, Reviewed(r, out))
<1>1. out \in {"not_dispatched", "data_error", "service_error", "enqueued"} \/ out \in DevelopmentDecision
  BY DEF ReviewOutcome
<1>2. CASE out = "not_dispatched"
  BY <1>2, HeldFollows, FollowsBetween DEF Reviewed
<1>3. CASE out = "data_error"
  <2>1. r \in Row
    BY DEF Held
  <2>2. Reviewed(r, out) = r \/ Reviewed(r, out) = [r EXCEPT !.work = "data_blocked"]
    BY <1>3 DEF Reviewed
  <2>3. LET t == Reviewed(r, out) IN
        Alike(r, t) /\ t.quality = r.quality /\ t.pausedFrom = r.pausedFrom
    BY <2>1, <2>2 DEF Alike, Row, Operational
  <2> QED BY <2>3, AlikeFollows, FollowsBetween
<1>4. CASE out = "service_error"
  <2>1. Reviewed(r, out) = Deferred(InDevelopment(r)) /\ r.development \in RunStates
    BY <1>4 DEF Reviewed, Held, Row
  <2> QED BY <2>1, BegunFollows, FollowsBetween
<1>5. CASE out = "enqueued"
  <2>1. setting.partitioned
    BY <1>5 DEF ReviewOutcome, DevelopmentDecision
  <2> DEFINE g == InDevelopment(r)
             development == IF r.development = "none" THEN "queued" ELSE r.development
  <2>2. r \in Row /\ r.development \in RunStates /\ "development" \in QualityStates
    BY DEF Held, Row, QualityStates
  <2>3. g.development = r.development /\ g \in Row
    <3>1. Alike(r, MovedFrom(r, {"screened"}, "development"))
      BY <2>2, MovedFromRow
    <3>2. Alike(MovedFrom(r, {"screened"}, "development"), g)
      BY <3>1, WorkRow DEF Alike, InDevelopment
    <3> QED BY <3>1, <3>2 DEF Alike
  <2>4. Reviewed(r, out) = [g EXCEPT !.development = IF @ = "none" THEN "queued" ELSE @]
    BY <1>5 DEF Reviewed
  <2> HIDE DEF g
  <2>5. Reviewed(r, out) = [g EXCEPT !.development = development]
    BY <2>3, <2>4 DEF Row
  <2>6. development \in RunStates
    BY <2>2 DEF RunStates
  <2> HIDE DEF development
  <2> QED BY <2>1, <2>5, <2>6, BegunFollows, FollowsBetween DEF g
<1>6. CASE out \in DevelopmentDecision
  <2>1. r.development # "queued"
    <3>1. CASE setting.partitioned
      BY <1>6, <3>1 DEF ReviewOutcome, DevelopmentDecision
    <3>2. CASE ~setting.partitioned
      BY <3>2 DEF Held, Vouched
    <3> QED BY <3>1, <3>2
  <2>2. Reviewed(r, out) = Decided(InDevelopment(r), out)
    BY <1>6 DEF Reviewed, DevelopmentDecision
  <2> QED BY <1>6, <2>1, <2>2, DecidedBetween
<1> QED BY <1>1, <1>2, <1>3, <1>4, <1>5, <1>6

LEMMA HeldPoolable ==
  ASSUME NEW t, Held(t), t.label \in {"validation", "capacity_wait"}
  PROVE  Poolable(t)
BY DEF Held, Poolable, Steady, Stands, Unmonitored

\* applyHoldoutCapacity leaves every strategy standing.
LEMMA CapacityFollows ==
  ASSUME NEW R0, NEW R, NEW chosen, NEW s \in Strategy, Between(R0[s], R[s])
  PROVE  Follows(R0[s], Capacity(R, chosen)[s])
<1> DEFINE r == R[s]
           t == Capacity(R, chosen)[s]
<1>1. t = IF s \notin Pool(R) THEN r
          ELSE IF s \in chosen
          THEN MovedFrom([r EXCEPT !.label = "validation"],
                         {"supervisor_approved", "capacity_wait"}, "sealed_validation")
          ELSE MovedFrom([r EXCEPT !.label = "capacity_wait"], {"supervisor_approved"}, "capacity_wait")
  BY DEF Capacity
<1>2. s \in Pool(R) <=> r.label \in {"validation", "capacity_wait"}
  BY DEF Pool
<1> HIDE DEF r, t
<1>3. CASE r.label \notin {"validation", "capacity_wait"}
  BY <1>1, <1>2, <1>3 DEF Between, Poolable, Follows, r, t
<1>4. CASE r.label \in {"validation", "capacity_wait"}
  <2>1. Poolable(r)
    BY <1>4, HeldPoolable DEF Between, r
  <2>2. PICK label \in {"validation", "capacity_wait"} :
          /\ label = "validation" =>
               t = MovedFrom([r EXCEPT !.label = label],
                             {"supervisor_approved", "capacity_wait"}, "sealed_validation")
          /\ label = "capacity_wait" =>
               t = MovedFrom([r EXCEPT !.label = label], {"supervisor_approved"}, "capacity_wait")
    BY <1>1, <1>2, <1>4
  <2> DEFINE e == [r EXCEPT !.label = label]
  <2>3. /\ e \in Row /\ e.label = label /\ e.quality = r.quality /\ e.pausedFrom = r.pausedFrom
        /\ e.resume = r.resume /\ e.status = r.status /\ e.development = r.development
        /\ e.holdout = r.holdout /\ e.sealed = r.sealed /\ e.released = r.released
        /\ e.row = r.row /\ e.champion = r.champion
    BY <2>1 DEF Poolable, Row, Labels
  <2> HIDE DEF e
  <2>4. /\ Alike(e, t)
        /\ \/ t.quality = e.quality /\ t.pausedFrom = e.pausedFrom
           \/ t.pausedFrom = NotPaused
        /\ Steadily => /\ label = "validation" => t.quality = "sealed_validation"
                       /\ label = "capacity_wait" => t.quality \in {"capacity_wait", "sealed_validation"}
                       /\ t.holdout = "queued" => t.quality = "sealed_validation"
    <3>1. CASE label = "validation"
      <4>1. t = MovedFrom(e, {"supervisor_approved", "capacity_wait"}, "sealed_validation")
        BY <2>2, <3>1 DEF e
      <4>2. /\ Alike(e, t)
            /\ e.quality \in {"supervisor_approved", "capacity_wait"} =>
                 t.quality = "sealed_validation" /\ t.pausedFrom = NotPaused
            /\ e.quality \notin {"supervisor_approved", "capacity_wait"} => t = e
        BY <2>3, <4>1, MovedFromRow DEF QualityStates
      <4> QED BY <2>1, <2>3, <3>1, <4>2 DEF Poolable
    <3>2. CASE label = "capacity_wait"
      <4>1. t = MovedFrom(e, {"supervisor_approved"}, "capacity_wait")
        BY <2>2, <3>2 DEF e
      <4>2. /\ Alike(e, t)
            /\ e.quality = "supervisor_approved" =>
                 t.quality = "capacity_wait" /\ t.pausedFrom = NotPaused
            /\ e.quality # "supervisor_approved" => t = e
        BY <2>3, <4>1, MovedFromRow DEF QualityStates
      <4> QED BY <2>1, <2>3, <3>2, <4>2 DEF Poolable, Alike
    <3> QED BY <3>1, <3>2
  <2>5. Vouched(t)
    BY <2>1, <2>3, <2>4 DEF Poolable, Vouched, Alike, Late, Trading
  <2>6. Steadily => Steady(t)
    <3> SUFFICES ASSUME Steadily PROVE Steady(t)
      OBVIOUS
    <3>1. /\ t.label = label /\ t.pausedFrom = NotPaused /\ t.status = "none"
          /\ t.development # "queued" /\ (t.holdout = "queued" => t.quality = "sealed_validation")
      BY <2>1, <2>3, <2>4 DEF Poolable, Alike
    <3> QED BY <2>4, <3>1 DEF Steady, Stands, Trading, Unmonitored, NotPaused
  <2>7. Trades(t) => Trades(r) /\ t.champion = r.champion
    BY <2>3, <2>4 DEF Alike, Trades, Trading
  <2>8. Steadily => R0[s].label \notin {"retired", "quarantined"}
    BY <1>4 DEF Between, OneWay, r
  <2> QED BY <2>4, <2>5, <2>6, <2>7, <2>8 DEF Between, Follows, Held, Alike, OneWay, r, t
<1> QED BY <1>3, <1>4

\* Before its outcome a lineage is where validation put it.
Awaiting(r) ==
  /\ r.sealed = "none"
  /\ Steadily => r.label \in {"validation", "capacity_wait"} /\ r.quality = "sealed_validation"

LEMMA SealedFollows ==
  ASSUME NEW r, Held(r), Awaiting(r), NEW v \in Verdict, NEW t,
         \/ t = Sealed(Dispatched(r), v) /\ r.holdout # "queued"
         \/ t = [Sealed(Dispatched(r), v) EXCEPT !.holdout = "finalized"]
  PROVE  Follows(r, t)
<1> DEFINE a == Dispatched(r)
           b == [a EXCEPT !.sealed = v, !.label = v]
           c == Completed(b)
           e == MovedFrom(c, {"sealed_validation"}, v)
<1>1. \/ t = e /\ r.holdout # "queued"
      \/ t = [e EXCEPT !.holdout = "finalized"]
  BY DEF Sealed
<1>2. r \in Row /\ v \in QualityStates /\ v # "operator_paused"
      /\ v \in {"incubation", "holdout_reject", "inconclusive"}
  BY DEF Held, Verdict, QualityStates, Terminal
<1>3. Alike(r, a) /\ a.quality = r.quality /\ a.pausedFrom = r.pausedFrom
  BY <1>2, WorkRow
<1> HIDE DEF a
<1>4. /\ b \in Row /\ b.label = v /\ b.sealed = v /\ b.quality = a.quality
      /\ b.pausedFrom = a.pausedFrom /\ b.resume = a.resume /\ b.status = a.status
      /\ b.development = a.development /\ b.holdout = a.holdout
      /\ b.released = a.released /\ b.row = a.row /\ b.champion = a.champion
  <2>1. v \in Labels /\ v \in Verdict \union {"none"}
    BY <1>2 DEF Labels
  <2> QED BY <1>3, <2>1 DEF Alike, Row
<1> HIDE DEF b
<1>5. Alike(b, c) /\ c.quality = b.quality /\ c.pausedFrom = b.pausedFrom
  BY <1>4, WorkRow
<1> HIDE DEF c
<1>6. /\ Alike(c, e)
      /\ c.quality = "sealed_validation" => e.quality = v /\ e.pausedFrom = NotPaused
  BY <1>2, <1>5, MovedFromRow DEF Alike
<1> HIDE DEF e
<1>7. /\ t \in Row /\ t.label = v /\ t.sealed = v /\ t.quality = e.quality
      /\ t.pausedFrom = e.pausedFrom /\ t.resume = r.resume /\ t.status = r.status
      /\ t.development = r.development /\ t.holdout # "queued" /\ t.released = r.released
      /\ t.row = r.row /\ t.champion = r.champion
  BY <1>1, <1>3, <1>4, <1>5, <1>6 DEF Alike, Row, RunStates
<1>8. Vouched(t)
  BY <1>2, <1>7 DEF Held, Awaiting, Vouched, Late, Trading
<1>9. Steadily => Steady(t)
  <2> SUFFICES ASSUME Steadily PROVE Steady(t)
    OBVIOUS
  <2>1. Steady(r) /\ r.label \in {"validation", "capacity_wait"} /\ r.quality = "sealed_validation"
    BY DEF Held, Awaiting
  <2>2. r.status = "none" /\ r.development # "queued"
    BY <2>1 DEF Steady, Stands, Unmonitored
  <2>3. t.quality = v /\ t.pausedFrom = NotPaused
    BY <1>3, <1>4, <1>5, <1>6, <1>7, <2>1
  <2> QED BY <1>2, <1>7, <2>2, <2>3 DEF Steady, Stands, Early, Trading, Unmonitored, NotPaused
<1>10. Trades(t) => Trades(r) /\ t.champion = r.champion
  BY <1>2, <1>7 DEF Trades, Trading
<1>11. OneWay(r, t)
  BY DEF OneWay, Awaiting
<1> QED BY <1>7, <1>8, <1>9, <1>10, <1>11 DEF Follows, Held

LEMMA UnsavedFollows ==
  ASSUME NEW r, Held(r), Awaiting(r), Loose, NEW t,
         \/ t = SealedUnsaved(Dispatched(r)) /\ r.holdout # "queued"
         \/ t = [SealedUnsaved(Dispatched(r)) EXCEPT !.holdout = "finalized"]
  PROVE  Follows(r, t)
<1> DEFINE a == Dispatched(r)
           b == SealedUnsaved(a)
<1>1. Alike(r, a) /\ a.quality = r.quality /\ a.pausedFrom = r.pausedFrom
  BY WorkRow DEF Held
<1>2. b = [a EXCEPT !.sealed = "incubation", !.label = "incubation"]
  BY DEF SealedUnsaved
<1> HIDE DEF a, b
<1>3. \/ t = b /\ r.holdout # "queued"
      \/ t = [b EXCEPT !.holdout = "finalized"]
  BY DEF a, b
<1>4. /\ b \in Row /\ b.label = "incubation" /\ b.sealed = "incubation" /\ b.quality = r.quality
      /\ b.pausedFrom = r.pausedFrom /\ b.resume = r.resume /\ b.status = r.status
      /\ b.development = r.development /\ b.holdout = r.holdout /\ b.released = r.released
      /\ b.row = r.row /\ b.champion = r.champion
  <2>1. "incubation" \in Labels /\ "incubation" \in Verdict \union {"none"}
    BY DEF Labels, Verdict
  <2> QED BY <1>1, <1>2, <2>1 DEF Alike, Row
<1>5. /\ t \in Row /\ t.label = "incubation" /\ t.sealed = "incubation" /\ t.quality = r.quality
      /\ t.pausedFrom = r.pausedFrom /\ t.resume = r.resume /\ t.status = r.status
      /\ t.development = r.development /\ t.holdout # "queued" /\ t.released = r.released
      /\ t.row = r.row /\ t.champion = r.champion
  BY <1>3, <1>4 DEF Row, RunStates
<1>6. Vouched(t)
  BY <1>5 DEF Held, Awaiting, Vouched, Late, Trading
<1>7. Steadily => Steady(t)
  <2> SUFFICES ASSUME Steadily PROVE Steady(t)
    OBVIOUS
  <2>1. Steady(r) /\ r.label \in {"validation", "capacity_wait"} /\ r.quality = "sealed_validation"
    BY DEF Held, Awaiting
  <2>2. r.status = "none" /\ r.development # "queued"
    BY <2>1 DEF Steady, Stands, Unmonitored
  <2> QED BY <1>5, <2>1, <2>2 DEF Steady, Stands, Early, Trading, Unmonitored
<1>8. Trades(t) => Trades(r) /\ t.champion = r.champion
  BY <1>5 DEF Trades, Trading
<1>9. OneWay(r, t)
  BY DEF OneWay, Awaiting
<1> QED BY <1>5, <1>6, <1>7, <1>8, <1>9 DEF Follows, Held

LEMMA DeferredFollows ==
  ASSUME NEW r, Held(r), NEW t,
         \/ t = Deferred(Dispatched(r))
         \/ t = [Deferred(Dispatched(r)) EXCEPT !.holdout = "finalized"]
         \/ /\ setting.partitioned /\ Awaiting(r)
            /\ t = [Dispatched(r) EXCEPT !.holdout = IF @ = "none" THEN "queued" ELSE @]
  PROVE  Follows(r, t)
<1> DEFINE a == Dispatched(r)
           b == Deferred(a)
<1>1. Alike(r, a) /\ a.quality = r.quality /\ a.pausedFrom = r.pausedFrom
  BY WorkRow DEF Held
<1> HIDE DEF a
<1>2. Alike(a, b) /\ b.quality = a.quality /\ b.pausedFrom = a.pausedFrom
  BY <1>1, WorkRow DEF Alike
<1> HIDE DEF b
<1>3. /\ t \in Row /\ t.label = r.label /\ t.sealed = r.sealed /\ t.quality = r.quality
      /\ t.pausedFrom = r.pausedFrom /\ t.resume = r.resume /\ t.status = r.status
      /\ t.development = r.development /\ t.released = r.released
      /\ t.row = r.row /\ t.champion = r.champion
      /\ \/ t.holdout \in {r.holdout, "finalized"}
         \/ t.holdout = "queued" /\ setting.partitioned /\ Awaiting(r)
  <2>1. CASE t = b
    BY <1>1, <1>2, <2>1 DEF Alike
  <2>2. CASE t = [b EXCEPT !.holdout = "finalized"]
    BY <1>1, <1>2, <2>2 DEF Alike, Row, RunStates
  <2>3. CASE /\ setting.partitioned /\ Awaiting(r)
             /\ t = [a EXCEPT !.holdout = IF @ = "none" THEN "queued" ELSE @]
    <3> DEFINE holdout == IF a.holdout = "none" THEN "queued" ELSE a.holdout
    <3>1. t = [a EXCEPT !.holdout = holdout]
      BY <1>1, <2>3 DEF Alike, Row
    <3>2. holdout \in RunStates /\ (holdout = r.holdout \/ holdout = "queued")
      BY <1>1 DEF Alike, Row, RunStates
    <3> HIDE DEF holdout
    <3> QED BY <1>1, <2>3, <3>1, <3>2 DEF Alike, Row
  <2> QED BY <2>1, <2>2, <2>3 DEF a, b
<1>4. Vouched(t)
  BY <1>3 DEF Held, Awaiting, Vouched
<1>5. Steadily => Steady(t)
  BY <1>3 DEF Held, Awaiting, Steady, Stands
<1> QED BY <1>3, <1>4, <1>5 DEF Follows, Held, Trades, OneWay

-----------------------------------------------------------------------------
(* Incubation and release *)

\* A strategy relabelled, before its lifecycle moves.
Relabelled(r, e, label) ==
  /\ e \in Row /\ e.label = label
  /\ e.quality = r.quality /\ e.pausedFrom = r.pausedFrom
  /\ e.resume = r.resume /\ e.status = r.status
  /\ e.development = r.development /\ e.holdout = r.holdout /\ e.sealed = r.sealed
  /\ e.row = r.row /\ e.champion = r.champion
  /\ r.released => e.released

LEMMA IncubatedRow ==
  ASSUME NEW r, Held(r), r.label \in {"incubation", "release_blocked_short"}
  PROVE  /\ r \in Row /\ r.sealed = "incubation" /\ r.holdout # "queued"
         /\ Steadily => /\ r.quality \in Early /\ (r.quality = "sealed_validation" => Loose)
                        /\ r.status = "none" /\ r.pausedFrom = NotPaused
                        /\ r.development # "queued"
<1>1. r \in Row /\ Vouched(r) /\ (Steadily => Steady(r))
  BY DEF Held
<1>2. r.sealed = "incubation" /\ r.holdout # "queued"
  BY <1>1 DEF Vouched, Late
<1>3. ASSUME Steadily
      PROVE  /\ r.quality \in Early /\ (r.quality = "sealed_validation" => Loose)
             /\ r.status = "none" /\ r.pausedFrom = NotPaused
             /\ r.development # "queued"
  BY <1>1, <1>3 DEF Steady, Stands, Unmonitored
<1> QED BY <1>1, <1>2, <1>3

LEMMA RelabelledFollows ==
  ASSUME NEW r, Held(r), r.label \in {"incubation", "release_blocked_short"},
         NEW label \in {"rework", "incubation_reject", "incubation", "release_blocked_short"},
         NEW target \in {"development", "development_reject", "release_blocked_short"},
         NEW e, Relabelled(r, e, label), NEW t,
         \/ /\ t = MovedFrom(e, {"incubation"}, target) /\ label # "incubation"
            /\ (target = "release_blocked_short" <=> label = "release_blocked_short")
         \/ t = e /\ label = "incubation"
  PROVE  Follows(r, t)
<1>1. /\ r \in Row /\ r.sealed = "incubation" /\ r.holdout # "queued"
      /\ Steadily => /\ r.quality \in Early /\ (r.quality = "sealed_validation" => Loose)
                     /\ r.status = "none" /\ r.pausedFrom = NotPaused
                     /\ r.development # "queued"
  BY IncubatedRow
<1>2. target \in QualityStates /\ target # "operator_paused"
  BY DEF QualityStates, Terminal
<1>3. /\ Alike(e, t)
      /\ \/ /\ label # "incubation" /\ e.quality = "incubation"
           /\ t.quality = target /\ t.pausedFrom = NotPaused
           /\ (target = "release_blocked_short" <=> label = "release_blocked_short")
         \/ /\ t = e
            /\ label = "release_blocked_short" \/ label # "release_blocked_short"
  BY <1>2, MovedFromRow DEF Relabelled, Alike
<1>4. Vouched(t)
  BY <1>1, <1>3 DEF Held, Vouched, Relabelled, Alike, Late, Trading
<1>5. Steadily => Steady(t)
  <2> SUFFICES ASSUME Steadily PROVE Steady(t)
    OBVIOUS
  <2>1. /\ t.label = label /\ t.status = "none" /\ t.pausedFrom = NotPaused
        /\ t.development # "queued" /\ t.holdout # "queued"
    BY <1>1, <1>3 DEF Relabelled, Alike
  <2>2. \/ t.quality = r.quality
        \/ /\ t.quality = target /\ label # "incubation"
           /\ (target = "release_blocked_short" <=> label = "release_blocked_short")
    BY <1>1, <1>3 DEF Relabelled
  <2> QED BY <1>1, <2>1, <2>2 DEF Steady, Stands, Early, Trading, Unmonitored, NotPaused
<1>6. Trades(t) => Trades(r) /\ t.champion = r.champion
  BY <1>3 DEF Relabelled, Alike, Trades, Trading
<1>7. OneWay(r, t)
  BY DEF OneWay
<1> QED BY <1>3, <1>4, <1>5, <1>6, <1>7 DEF Follows, Held, Alike

LEMMA GateFollows ==
  ASSUME NEW r, Held(r), r.label \in {"incubation", "release_blocked_short"},
         NEW t \in {SentBack(r), GateRejected(r), HeldByOperator(r), HeldForShorts(r)}
  PROVE  Follows(r, t)
<1>1. r \in Row /\ r.label \in Labels
  BY DEF Held, Row
<1>2. /\ "rework" \in Labels /\ "incubation_reject" \in Labels
      /\ "incubation" \in Labels /\ "release_blocked_short" \in Labels
  BY DEF Labels
<1>3. CASE t = SentBack(r)
  <2> DEFINE e == [r EXCEPT !.label = "rework", !.ready = FALSE]
  <2>1. Relabelled(r, e, "rework")
    <3>1. e \in Row
      BY <1>1, <1>2 DEF Row
    <3> QED BY <1>1, <3>1 DEF Relabelled, Row
  <2>2. t = MovedFrom(e, {"incubation"}, "development")
    BY <1>3 DEF SentBack
  <2> HIDE DEF e
  <2> QED BY <2>1, <2>2, RelabelledFollows
<1>4. CASE t = GateRejected(r)
  <2> DEFINE e == [r EXCEPT !.label = "incubation_reject", !.ready = FALSE]
  <2>1. Relabelled(r, e, "incubation_reject")
    <3>1. e \in Row
      BY <1>1, <1>2 DEF Row
    <3> QED BY <1>1, <3>1 DEF Relabelled, Row
  <2>2. t = MovedFrom(e, {"incubation"}, "development_reject")
    BY <1>4 DEF GateRejected
  <2> HIDE DEF e
  <2> QED BY <2>1, <2>2, RelabelledFollows
<1>5. CASE t = HeldByOperator(r)
  <2>1. Relabelled(r, t, "incubation")
    <3>1. t \in Row
      BY <1>1, <1>2, <1>5 DEF Row, HeldByOperator
    <3> QED BY <1>1, <1>5, <3>1 DEF Relabelled, Row, HeldByOperator
  <2> QED BY <2>1, RelabelledFollows
<1>6. CASE t = HeldForShorts(r)
  <2> DEFINE e == [r EXCEPT !.label = "release_blocked_short", !.ready = TRUE, !.heldBack = FALSE]
  <2>1. Relabelled(r, e, "release_blocked_short")
    <3>1. e \in Row
      BY <1>1, <1>2 DEF Row
    <3> QED BY <1>1, <3>1 DEF Relabelled, Row
  <2>2. t = MovedFrom(e, {"incubation"}, "release_blocked_short")
    BY <1>6 DEF HeldForShorts
  <2> HIDE DEF e
  <2> QED BY <2>1, <2>2, RelabelledFollows
<1> QED BY <1>3, <1>4, <1>5, <1>6

LEMMA LabelledRow ==
  ASSUME NEW r \in Row
  PROVE  Relabelled(r, Labelled(r), "released") /\ Labelled(r).released
<1>1. "released" \in Labels
  BY DEF Labels, Trading
<1>2. Labelled(r) \in Row
  BY <1>1 DEF Labelled, Row
<1> QED BY <1>2 DEF Relabelled, Labelled, Row

LEMMA LabelledHeld ==
  ASSUME NEW r, Held(r), r.label \in {"incubation", "release_blocked_short"}, Loose
  PROVE  Held(Labelled(r))
<1> DEFINE t == Labelled(r)
<1>1. /\ r \in Row /\ r.sealed = "incubation" /\ r.holdout # "queued"
      /\ Steadily => /\ r.quality \in Early /\ r.status = "none" /\ r.pausedFrom = NotPaused
                     /\ r.development # "queued"
  BY IncubatedRow
<1>2. Relabelled(r, t, "released") /\ t.released
  BY <1>1, LabelledRow
<1> HIDE DEF t
<1>3. Vouched(t)
  BY <1>1, <1>2 DEF Held, Vouched, Relabelled
<1>4. Steadily => Steady(t)
  BY <1>1, <1>2 DEF Relabelled, Steady, Stands, Early, Trading, Unmonitored, NotPaused
<1> QED BY <1>2, <1>3, <1>4 DEF Held, Relabelled, t

\* startReleaseMonitoring.
LEMMA MonitoredRow ==
  ASSUME NEW r \in Row
  PROVE  LET t == Monitored(r) IN
         /\ t \in Row /\ t.label = r.label /\ t.quality = r.quality /\ t.pausedFrom = r.pausedFrom
         /\ t.resume = r.resume /\ t.development = r.development /\ t.holdout = r.holdout
         /\ t.sealed = r.sealed /\ t.row = r.row /\ t.champion = r.champion
         /\ t.released = r.released
         /\ t.status # "none" /\ (r.status # "none" => t.status = r.status)
         /\ r.status = "none" => t.status = IF r.label \in HealthStates THEN r.label ELSE "released_paper"
<1> DEFINE status == IF r.status # "none" THEN r.status
                     ELSE IF r.label \in HealthStates THEN r.label ELSE "released_paper"
<1>1. status \in HealthStates \union {"released_paper"}
  BY DEF Row
<1>2. Monitored(r) = [r EXCEPT !.status = status]
  BY DEF Monitored, Row
<1> HIDE DEF status
<1>3. "none" \notin HealthStates
  BY DEF HealthStates
<1>4. /\ status # "none" /\ (r.status # "none" => status = r.status)
      /\ r.status = "none" => status = IF r.label \in HealthStates THEN r.label ELSE "released_paper"
  BY <1>3 DEF status
<1> QED BY <1>1, <1>2, <1>4 DEF Row

LEMMA InstalledHeld ==
  ASSUME NEW r, Held(r), r.label \in {"incubation", "release_blocked_short"}
  PROVE  LET t == Installed(r) IN
         Held(t) /\ t.label = "released" /\ t.resume = r.resume /\ t.champion = r.champion
<1> DEFINE a == [Labelled(r) EXCEPT !.row = TRUE]
           b == MovedFrom(a, {"incubation", "release_blocked_short"}, "released_paper")
           t == Installed(r)
<1>1. /\ r \in Row /\ r.sealed = "incubation" /\ r.holdout # "queued"
      /\ Steadily => /\ r.quality \in Early /\ (r.quality = "sealed_validation" => Loose)
                     /\ r.status = "none" /\ r.pausedFrom = NotPaused
                     /\ r.development # "queued"
  BY IncubatedRow
<1>2. /\ a \in Row /\ a.label = "released" /\ a.released /\ a.row
      /\ a.quality = r.quality /\ a.pausedFrom = r.pausedFrom
      /\ a.resume = r.resume /\ a.status = r.status
      /\ a.development = r.development /\ a.holdout = r.holdout /\ a.sealed = r.sealed
      /\ a.champion = r.champion
  <2> DEFINE l == Labelled(r)
  <2>1. Relabelled(r, l, "released") /\ l.released
    BY <1>1, LabelledRow
  <2> HIDE DEF l
  <2>2. a = [l EXCEPT !.row = TRUE]
    BY DEF l
  <2> HIDE DEF a
  <2> QED BY <2>1, <2>2 DEF Relabelled, Row
<1> HIDE DEF a
<1>3. "released_paper" \in QualityStates
  BY DEF QualityStates
<1>4. /\ Alike(a, b)
      /\ a.quality \in {"incubation", "release_blocked_short"} =>
           b.quality = "released_paper" /\ b.pausedFrom = NotPaused
      /\ a.quality \notin {"incubation", "release_blocked_short"} => b = a
  BY <1>2, <1>3, MovedFromRow
<1>5. t = Monitored(b)
  BY DEF Installed, a
<1> HIDE DEF b, t
<1>6. /\ t \in Row /\ t.label = b.label /\ t.quality = b.quality /\ t.pausedFrom = b.pausedFrom
      /\ t.resume = b.resume /\ t.development = b.development /\ t.holdout = b.holdout
      /\ t.sealed = b.sealed /\ t.row = b.row /\ t.champion = b.champion
      /\ t.released = b.released
      /\ b.status = "none" => t.status = IF b.label \in HealthStates THEN b.label ELSE "released_paper"
  BY <1>4, <1>5, MonitoredRow DEF Alike
<1>7. /\ t.label = "released" /\ t.resume = r.resume /\ t.champion = r.champion
      /\ t.released /\ t.row /\ t.sealed = "incubation" /\ t.holdout = r.holdout
      /\ t.development = r.development
  BY <1>1, <1>2, <1>4, <1>6 DEF Alike
<1>8. Vouched(t)
  BY <1>1, <1>7 DEF Held, Vouched
<1>9. Steadily => Steady(t)
  <2> SUFFICES ASSUME Steadily PROVE Steady(t)
    OBVIOUS
  <2>1. t.status = "released_paper" /\ t.pausedFrom = NotPaused
    BY <1>1, <1>2, <1>4, <1>6 DEF Alike, HealthStates
  <2>2. t.quality = "released_paper" \/ (Loose /\ t.quality = "sealed_validation")
    BY <1>1, <1>2, <1>4, <1>6 DEF Early
  <2> QED BY <1>1, <1>7, <2>1, <2>2
        DEF Steady, Stands, Early, Trading, Unmonitored, Quality, NotPaused
<1> QED BY <1>6, <1>7, <1>8, <1>9 DEF Held, t

-----------------------------------------------------------------------------
(* Health *)

LEMMA FollowsTransitive ==
  ASSUME NEW r, NEW t, NEW u, Follows(r, t), Follows(t, u)
  PROVE  Follows(r, u)
BY DEF Follows, OneWay

LEMMA TradedRow ==
  ASSUME NEW r, Held(r), r.label \in Trading
  PROVE  /\ r \in Row /\ r.released /\ r.sealed = "incubation" /\ r.holdout # "queued"
         /\ Steadily =>
              /\ r.pausedFrom = NotPaused /\ r.development # "queued"
              /\ \/ r.quality = Quality(r.label) /\ r.status = Quality(r.label) /\ (r.row \/ Loose)
                 \/ /\ Loose /\ r.label # "quarantined" /\ r.quality \in Early
                    /\ r.status \in {"none", "released_paper", "healthy", "watch"}
<1>1. r \in Row /\ Vouched(r) /\ (Steadily => Steady(r))
  BY DEF Held
<1>2. r.released /\ r.sealed = "incubation" /\ r.holdout # "queued"
  BY <1>1 DEF Vouched, Late
<1>3. ASSUME Steadily
      PROVE  /\ r.pausedFrom = NotPaused /\ r.development # "queued"
             /\ \/ r.quality = Quality(r.label) /\ r.status = Quality(r.label) /\ (r.row \/ Loose)
                \/ /\ Loose /\ r.label # "quarantined" /\ r.quality \in Early
                   /\ r.status \in {"none", "released_paper", "healthy", "watch"}
  BY <1>1, <1>3 DEF Steady, Stands, Trading
<1> QED BY <1>1, <1>2, <1>3

\* What a health decision leaves alone.
Keeps(r, t) ==
  /\ t \in Row
  /\ t.resume = r.resume /\ t.development = r.development /\ t.holdout = r.holdout
  /\ t.sealed = r.sealed /\ t.released = r.released /\ t.row = r.row
  /\ t.champion = r.champion

LEMMA TradedFollows ==
  ASSUME NEW r, Held(r), r.label \in Trading,
         NEW t, Keeps(r, t), t.label \in Trading \union {"retired"},
         Steadily =>
           /\ t.pausedFrom = NotPaused
           /\ r.label = "quarantined" => t.label \in {"quarantined", "retired"}
           /\ t.label = "retired" => t.quality = "retired"
           /\ t.label \in Trading =>
                \/ t.quality = Quality(t.label) /\ t.status = Quality(t.label) /\ (r.row \/ Loose)
                \/ /\ Loose /\ t.label # "quarantined" /\ t.quality \in Early
                   /\ t.status \in {"none", "released_paper", "healthy", "watch"}
  PROVE  Follows(r, t)
<1>1. /\ r \in Row /\ r.released /\ r.sealed = "incubation" /\ r.holdout # "queued"
      /\ Steadily => r.development # "queued"
  BY TradedRow
<1>2. Vouched(t)
  BY <1>1 DEF Keeps, Held, Vouched
<1>3. Steadily => Steady(t)
  <2> SUFFICES ASSUME Steadily PROVE Steady(t)
    OBVIOUS
  <2>1. /\ t.development # "queued" /\ t.holdout # "queued" /\ t.row = r.row
        /\ t.label # "operator_paused"
    BY <1>1 DEF Keeps, Trading
  <2>2. t.quality # "operator_paused"
    BY DEF Quality, Early, Trading
  <2>3. Stands(t, t.label, t.quality)
    BY <2>1 DEF Stands, Trading, Unmonitored
  <2> QED BY <2>1, <2>2, <2>3 DEF Steady, NotPaused
<1>4. Trades(t) => Trades(r) /\ t.champion = r.champion
  BY DEF Trades, Keeps
<1>5. OneWay(r, t)
  BY DEF OneWay, Trading
<1> QED BY <1>2, <1>3, <1>4, <1>5 DEF Follows, Held, Keeps

LEMMA MonitoredFollows ==
  ASSUME NEW r, Held(r), r.label \in Trading
  PROVE  LET t == Monitored(r) IN
         Follows(r, t) /\ t.label = r.label /\ t.status # "none"
<1> DEFINE t == Monitored(r)
<1>1. /\ r \in Row /\ r.released /\ r.sealed = "incubation" /\ r.holdout # "queued"
      /\ Steadily =>
              /\ r.pausedFrom = NotPaused /\ r.development # "queued"
              /\ \/ r.quality = Quality(r.label) /\ r.status = Quality(r.label) /\ (r.row \/ Loose)
                 \/ /\ Loose /\ r.label # "quarantined" /\ r.quality \in Early
                    /\ r.status \in {"none", "released_paper", "healthy", "watch"}
  BY TradedRow
<1>2. /\ t \in Row /\ t.label = r.label /\ t.quality = r.quality /\ t.pausedFrom = r.pausedFrom
      /\ t.resume = r.resume /\ t.development = r.development /\ t.holdout = r.holdout
      /\ t.sealed = r.sealed /\ t.row = r.row /\ t.champion = r.champion
      /\ t.released = r.released
      /\ t.status # "none" /\ (r.status # "none" => t.status = r.status)
      /\ r.status = "none" => t.status = IF r.label \in HealthStates THEN r.label ELSE "released_paper"
  BY <1>1, MonitoredRow
<1> HIDE DEF t
<1>3. Keeps(r, t)
  BY <1>2 DEF Keeps
<1>4. Steadily =>
        \/ t.quality = Quality(t.label) /\ t.status = Quality(t.label) /\ (r.row \/ Loose)
        \/ /\ Loose /\ t.label # "quarantined" /\ t.quality \in Early
           /\ t.status \in {"none", "released_paper", "healthy", "watch"}
  BY <1>1, <1>2 DEF Quality, Trading, HealthStates
<1>5. Follows(r, t)
  BY <1>1, <1>2, <1>3, <1>4, TradedFollows DEF Trading
<1> QED BY <1>2, <1>5 DEF t

\* The records of the session that no property is about.
LEMMA TodayFollows ==
  ASSUME NEW r, Held(r), NEW today \in {"clean", "blocked", "hard"},
         NEW t, t = [r EXCEPT !.today = today]
  PROVE  Follows(r, t) /\ t.label = r.label /\ t.status = r.status
<1>1. r \in Row
  BY DEF Held
<1>2. Alike(r, t) /\ t.quality = r.quality /\ t.pausedFrom = r.pausedFrom
  BY <1>1 DEF Alike, Row
<1> QED BY <1>2, AlikeFollows DEF Alike

LEMMA ChallengerFollows ==
  ASSUME NEW r, NEW t, Follows(r, t), NEW kid \in Strategy \union {Elsewhere}
  PROVE  Follows(r, [t EXCEPT !.challenger = kid])
<1> DEFINE u == [t EXCEPT !.challenger = kid]
<1>1. Held(t) /\ t \in Row
  BY DEF Follows, Held
<1>2. Alike(t, u) /\ u.quality = t.quality /\ u.pausedFrom = t.pausedFrom
  BY <1>1 DEF Alike, Row
<1> HIDE DEF u
<1>3. Follows(t, u)
  BY <1>1, <1>2, AlikeFollows
<1>4. Follows(r, u)
  BY <1>3, FollowsTransitive
<1> QED BY <1>4 DEF u

LEMMA ActiveQualities ==
  /\ Early \subseteq Active
  /\ {"released_paper", "healthy", "watch"} \subseteq Active
BY DEF Early, Active, QualityStates, Terminal

\* A traded strategy can always be quarantined and retired.
LEMMA TradedMoves ==
  ASSUME NEW r, Held(r), r.label \in Trading, Steadily
  PROVE  /\ r.quality # "operator_paused"
         /\ Legal(r, "retired")
         /\ r.quality # "quarantined" => Legal(r, "quarantined")
<1>1. /\ r \in Row
      /\ \/ r.quality = Quality(r.label)
         \/ r.quality \in Early
  BY TradedRow
<1>2. r.quality \in Early \union {"released_paper", "healthy", "watch", "quarantined"}
  BY <1>1 DEF Quality, Trading
<1>3. r.quality \in Active \/ r.quality = "quarantined"
  BY <1>2, ActiveQualities
<1>4. r.quality # "operator_paused"
  BY <1>3 DEF Active
<1> QED BY <1>1, <1>3, <1>4, LegalMoves

LEMMA StoodDownFollows ==
  ASSUME NEW r, Held(r), r.label \in Trading
  PROVE  LET t == StoodDown(r) IN
         Follows(r, t) /\ t.label = "retired" /\ t.resume = r.resume
<1> DEFINE status == IF r.status = "none" THEN "none" ELSE "retired"
           a == [r EXCEPT !.label = "retired", !.risk = FALSE, !.status = status]
           t == StoodDown(r)
<1>1. /\ r \in Row
      /\ Steadily => r.pausedFrom = NotPaused
  BY TradedRow
<1>2. a = [r EXCEPT !.label = "retired", !.risk = FALSE,
                    !.status = IF @ = "none" THEN @ ELSE "retired"]
  BY <1>1 DEF Row
<1>3. t = IF a.quality # "retired" /\ Legal(a, "retired") THEN Moved(a, "retired") ELSE a
  BY <1>2 DEF StoodDown
<1>4. "retired" \in Labels /\ "retired" \in QualityStates
      /\ status \in HealthStates \union {"none", "released_paper"}
  BY DEF Labels, QualityStates, Terminal, HealthStates
<1> HIDE DEF status
<1>5. /\ a \in Row /\ a.label = "retired" /\ a.quality = r.quality /\ a.pausedFrom = r.pausedFrom
      /\ a.resume = r.resume /\ a.development = r.development /\ a.holdout = r.holdout
      /\ a.sealed = r.sealed /\ a.released = r.released /\ a.row = r.row /\ a.champion = r.champion
  <2>1. "retired" \in Labels
    BY <1>4
  <2>2. a \in Row
    BY <1>1, <1>4, <2>1 DEF Row
  <2> QED BY <1>1, <2>2 DEF Row
<1> HIDE DEF a, t
<1>6. Legal(a, "retired") <=> Legal(r, "retired")
  BY <1>5 DEF Legal
<1>7. \/ /\ Alike(a, t) /\ t.quality = "retired" /\ t.pausedFrom = NotPaused
      \/ t = a /\ (a.quality = "retired" \/ ~Legal(a, "retired"))
  BY <1>3, <1>4, <1>5, MovedRow
<1>8. Keeps(r, t) /\ t.label = "retired"
  BY <1>5, <1>7 DEF Keeps, Alike
<1>9. Steadily => t.pausedFrom = NotPaused /\ t.quality = "retired"
  BY <1>1, <1>5, <1>6, <1>7, TradedMoves
<1>10. Follows(r, t)
  BY <1>8, <1>9, TradedFollows DEF Trading
<1> QED BY <1>8, <1>10 DEF Keeps, t

LEMMA OperatedRow ==
  ASSUME NEW r \in Row, NEW operational \in Operational
  PROVE  LET t == Operated(r, operational) IN
         Alike(r, t) /\ t.quality = r.quality /\ t.pausedFrom = r.pausedFrom
<1> DEFINE work == IF operational = "operational_blocked" THEN operational
                   ELSE IF r.work = "operational_blocked" THEN "ready" ELSE r.work
<1>1. work \in Operational
  BY DEF Row, Operational
<1>2. Operated(r, operational) = [r EXCEPT !.work = work]
  BY DEF Operated, Row
<1> HIDE DEF work
<1> QED BY <1>1, <1>2 DEF Alike, Row

LEMMA JudgedRow ==
  ASSUME NEW r \in Row, NEW q \in HealthStates \union {"released_paper"},
         NEW operational \in Operational
  PROVE  LET t == Judged(r, q, operational) IN
         /\ Keeps(r, t)
         /\ \/ /\ q \notin HealthStates
               /\ t.label = r.label /\ t.status = r.status
               /\ t.quality = r.quality /\ t.pausedFrom = r.pausedFrom
            \/ /\ q \in HealthStates /\ Refused(r, q)
               /\ t.label = r.label /\ t.status = q
               /\ t.quality = r.quality /\ t.pausedFrom = r.pausedFrom
            \/ /\ q \in HealthStates /\ (q = r.status \/ q = r.quality)
               /\ t.label = q /\ t.status = q
               /\ t.quality = r.quality /\ t.pausedFrom = r.pausedFrom
            \/ /\ q \in HealthStates
               /\ t.label = q /\ t.status = q
               /\ t.quality = q /\ t.pausedFrom = NotPaused
<1> DEFINE o == Operated(r, operational)
           risk == Multiplier(q, operational)
           n == [o EXCEPT !.risk = risk]
           a == [o EXCEPT !.status = q]
           u == [a EXCEPT !.risk = risk]
           v == [u EXCEPT !.label = q]
           w == Moved(v, q)
           t == Judged(r, q, operational)
<1>1. /\ q \notin HealthStates => t = n
      /\ q \in HealthStates /\ Refused(r, q) => t = a
      /\ q \in HealthStates /\ ~Refused(r, q) /\ (q = r.status \/ q = r.quality) => t = v
      /\ q \in HealthStates /\ ~Refused(r, q) /\ q # r.status /\ q # r.quality => t = w
  BY DEF Judged
<1>2. risk \in BOOLEAN
  BY DEF Multiplier
<1> HIDE DEF risk, t
<1>3. Alike(r, o) /\ o.quality = r.quality /\ o.pausedFrom = r.pausedFrom
  BY OperatedRow
<1> HIDE DEF o
<1>4. Keeps(r, n) /\ n.label = r.label /\ n.status = r.status
      /\ n.quality = r.quality /\ n.pausedFrom = r.pausedFrom
  BY <1>2, <1>3 DEF Keeps, Alike, Row
<1>5. q \in HealthStates \union {"none", "released_paper"}
  OBVIOUS
<1>6. Keeps(r, a) /\ a.label = r.label /\ a.status = q
      /\ a.quality = r.quality /\ a.pausedFrom = r.pausedFrom
  BY <1>3, <1>5 DEF Keeps, Alike, Row
<1> HIDE DEF n, a
<1>7. Keeps(r, u) /\ u.label = r.label /\ u.status = q
      /\ u.quality = r.quality /\ u.pausedFrom = r.pausedFrom
  BY <1>2, <1>6 DEF Keeps, Row
<1> HIDE DEF u
<1>8. q \in HealthStates => q \in Labels /\ q \in QualityStates
  BY DEF HealthStates, Labels, Trading, QualityStates, Terminal
<1>9. q \in HealthStates => /\ Keeps(r, v) /\ v.label = q /\ v.status = q
                            /\ v.quality = r.quality /\ v.pausedFrom = r.pausedFrom
  BY <1>7, <1>8 DEF Keeps, Row
<1> HIDE DEF v
<1>10. q # "operator_paused"
  BY DEF HealthStates
<1>11. q \in HealthStates => Alike(v, w) /\ w.quality = q /\ w.pausedFrom = NotPaused
  BY <1>8, <1>9, <1>10, MovedRow DEF Keeps
<1> HIDE DEF w
<1>12. q \in HealthStates => /\ Keeps(r, w) /\ w.label = q /\ w.status = q
  BY <1>9, <1>11 DEF Keeps, Alike
<1> QED BY <1>1, <1>4, <1>6, <1>9, <1>11, <1>12 DEF t

LEMMA JudgedFollows ==
  ASSUME NEW r, Held(r), r.label \in Trading, r.status # "none",
         NEW q \in {r.status, "quarantined", "retired"} \union Windows(r.status),
         NEW operational \in Operational
  PROVE  Follows(r, Judged(r, q, operational))
<1> DEFINE t == Judged(r, q, operational)
<1>1. /\ r \in Row
      /\ Steadily =>
           /\ r.pausedFrom = NotPaused
           /\ \/ r.quality = Quality(r.label) /\ r.status = Quality(r.label) /\ (r.row \/ Loose)
              \/ /\ Loose /\ r.label # "quarantined" /\ r.quality \in Early
                 /\ r.status \in {"released_paper", "healthy", "watch"}
  BY TradedRow
<1>2. q \in HealthStates \union {"released_paper"}
  BY <1>1 DEF Row, HealthStates, Windows
<1>3. /\ Keeps(r, t)
      /\ \/ /\ q \notin HealthStates
            /\ t.label = r.label /\ t.status = r.status
            /\ t.quality = r.quality /\ t.pausedFrom = r.pausedFrom
         \/ /\ q \in HealthStates /\ Refused(r, q)
            /\ t.label = r.label /\ t.status = q
            /\ t.quality = r.quality /\ t.pausedFrom = r.pausedFrom
         \/ /\ q \in HealthStates /\ (q = r.status \/ q = r.quality)
            /\ t.label = q /\ t.status = q
            /\ t.quality = r.quality /\ t.pausedFrom = r.pausedFrom
         \/ /\ q \in HealthStates
            /\ t.label = q /\ t.status = q
            /\ t.quality = q /\ t.pausedFrom = NotPaused
  BY <1>1, <1>2, JudgedRow
<1> HIDE DEF t
<1>4. t.label \in Trading \union {"retired"}
  BY <1>3 DEF Trading, HealthStates
<1>5. Steadily /\ r.label = "quarantined" => t.label \in {"quarantined", "retired"}
  BY <1>1, <1>3 DEF Quality, Windows, Trading
<1>6. ASSUME Steadily, Refused(r, q)
      PROVE  /\ Loose /\ r.label # "quarantined" /\ r.quality \in Early
             /\ q \in {"healthy", "watch"}
  <2>1. q # r.quality /\ ~Legal(r, q) /\ q # r.status /\ q \in HealthStates
    BY <1>6 DEF Refused
  <2>2. q \notin {"quarantined", "retired"}
    BY <1>6, <2>1, TradedMoves
  <2>3. q \in {"healthy", "watch"}
    BY <2>1, <2>2 DEF HealthStates
  <2>4. ~(r.quality = Quality(r.label) /\ r.status = Quality(r.label))
    <3> SUFFICES ASSUME r.quality = Quality(r.label), r.status = Quality(r.label)
                 PROVE  FALSE
      OBVIOUS
    <3>1. r.quality \in {"released_paper", "healthy", "watch", "quarantined"}
      BY DEF Quality, Trading
    <3>2. r.quality # "quarantined"
      BY <2>1, <2>2 DEF Windows
    <3>3. r.quality # "operator_paused"
      BY <3>1
    <3> QED BY <1>1, <2>1, <2>3, <3>1, <3>2, <3>3, LegalMoves
  <2> QED BY <1>1, <1>6, <2>3, <2>4
<1>7. Steadily =>
        /\ t.pausedFrom = NotPaused
        /\ t.label = "retired" => t.quality = "retired"
        /\ t.label \in Trading =>
             \/ t.quality = Quality(t.label) /\ t.status = Quality(t.label) /\ (r.row \/ Loose)
             \/ /\ Loose /\ t.label # "quarantined" /\ t.quality \in Early
                /\ t.status \in {"none", "released_paper", "healthy", "watch"}
  <2> SUFFICES ASSUME Steadily
               PROVE  /\ t.pausedFrom = NotPaused
                      /\ t.label = "retired" => t.quality = "retired"
                      /\ t.label \in Trading =>
                           \/ /\ t.quality = Quality(t.label) /\ t.status = Quality(t.label)
                              /\ (r.row \/ Loose)
                           \/ /\ Loose /\ t.label # "quarantined" /\ t.quality \in Early
                              /\ t.status \in {"none", "released_paper", "healthy", "watch"}
    OBVIOUS
  <2>1. t.pausedFrom = NotPaused
    BY <1>1, <1>3
  <2>2. CASE q \notin HealthStates
    BY <1>1, <1>3, <2>1, <2>2 DEF Trading
  <2>3. CASE Refused(r, q) /\ t.label = r.label /\ t.status = q /\ t.quality = r.quality
    BY <1>6, <2>1, <2>3 DEF Trading
  <2>4. CASE /\ q \in HealthStates /\ (q = r.status \/ q = r.quality)
             /\ t.label = q /\ t.status = q /\ t.quality = r.quality
    BY <1>1, <2>1, <2>4 DEF Quality, Early, HealthStates, Trading
  <2>5. CASE q \in HealthStates /\ t.label = q /\ t.status = q /\ t.quality = q
    <3>1. r.row \/ Loose
      BY <1>1
    <3> QED BY <2>1, <2>5, <3>1 DEF Quality, HealthStates
  <2> QED BY <1>3, <2>2, <2>3, <2>4, <2>5
<1>8. Follows(r, t)
  BY <1>3, <1>4, <1>5, <1>7, TradedFollows
<1> QED BY <1>8 DEF t

-----------------------------------------------------------------------------
(* Operator commands *)

LEMMA PausedFollows ==
  ASSUME NEW r, Held(r), r.label # "unborn",
         r.quality = "operator_paused" \/ Legal(r, "operator_paused"),
         InRun(r) => ~Steadily,
         NEW t, t = [IF r.quality = "operator_paused" THEN r ELSE Moved(r, "operator_paused")
                     EXCEPT !.resume = r.label, !.label = "operator_paused"]
  PROVE  Follows(r, t)
<1> DEFINE a == IF r.quality = "operator_paused" THEN r ELSE Moved(r, "operator_paused")
           label == r.label
<1>1. r \in Row /\ Vouched(r) /\ (Steadily => Steady(r)) /\ label = r.label
  BY DEF Held
<1>2. "operator_paused" \in QualityStates /\ "operator_paused" \in Labels
      /\ label \in Labels \union {NotPaused} /\ label # NotPaused /\ r.quality # NotPaused
  BY <1>1 DEF QualityStates, Terminal, Labels, NotPaused, Trading, Row
<1>3. /\ Alike(r, a) /\ a.quality = "operator_paused"
      /\ r.quality = "operator_paused" => a.pausedFrom = r.pausedFrom
      /\ r.quality # "operator_paused" => a.pausedFrom = r.quality
  BY <1>1, <1>2, MovedRow DEF Alike
<1>4. t = [a EXCEPT !.resume = label, !.label = "operator_paused"]
  OBVIOUS
<1> HIDE DEF a, label
<1>5. /\ t \in Row /\ t.label = "operator_paused" /\ t.resume = label
      /\ t.quality = "operator_paused" /\ t.pausedFrom = a.pausedFrom /\ t.status = r.status
      /\ t.development = r.development /\ t.holdout = r.holdout /\ t.sealed = r.sealed
      /\ t.released = r.released /\ t.row = r.row /\ t.champion = r.champion
  <2>1. a \in Row
    BY <1>3 DEF Alike
  <2>2. t \in Row
    BY <1>2, <1>4, <2>1 DEF Row
  <2>3. /\ t.label = "operator_paused" /\ t.resume = label
        /\ t.quality = a.quality /\ t.pausedFrom = a.pausedFrom /\ t.status = a.status
        /\ t.development = a.development /\ t.holdout = a.holdout /\ t.sealed = a.sealed
        /\ t.released = a.released /\ t.row = a.row /\ t.champion = a.champion
    BY <1>4, <2>1 DEF Row
  <2> QED BY <1>3, <2>2, <2>3 DEF Alike
<1>6. Vouched(t)
  BY <1>1, <1>5 DEF Vouched, Late, Trading
<1>7. Steadily => Steady(t)
  <2> SUFFICES ASSUME Steadily PROVE Steady(t)
    OBVIOUS
  <2>1. t.development # "queued" /\ t.holdout # "queued"
    BY <1>5 DEF InRun
  <2>2. /\ t.pausedFrom # "operator_paused" /\ t.pausedFrom # NotPaused
    BY <1>1, <1>2, <1>3, <1>5 DEF Steady
  <2>3. t.resume # "operator_paused" => Stands(t, t.resume, t.pausedFrom)
    BY <1>1, <1>3, <1>5 DEF Steady, Stands
  <2> QED BY <1>2, <1>5, <2>1, <2>2, <2>3 DEF Steady
<1>8. Trades(t) => Trades(r) /\ t.champion = r.champion
  BY <1>1, <1>5 DEF Trades, Trading
<1>9. Steadily => r.label \notin {"retired", "quarantined"}
  <2> SUFFICES ASSUME Steadily, r.label \in {"retired", "quarantined"} PROVE FALSE
    OBVIOUS
  <2>1. r.quality \in {"retired", "quarantined"}
    BY <1>1 DEF Steady, Stands, Quality, Trading
  <2> QED BY <1>1, <2>1, LegalMoves
<1>10. OneWay(r, t)
  BY <1>9 DEF OneWay
<1> QED BY <1>5, <1>6, <1>7, <1>8, <1>10 DEF Follows, Held

LEMMA ResumedFollows ==
  ASSUME NEW r, Held(r), r.pausedFrom # NotPaused,
         NEW t, t = [Moved(r, r.pausedFrom) EXCEPT
                       !.label = IF r.resume = NotPaused THEN "generated" ELSE r.resume,
                       !.resume = NotPaused]
  PROVE  Follows(r, t)
<1> DEFINE a == Moved(r, r.pausedFrom)
           label == IF r.resume = NotPaused THEN "generated" ELSE r.resume
<1>1. r \in Row /\ Vouched(r) /\ (Steadily => Steady(r))
  BY DEF Held
<1>2. r.pausedFrom \in QualityStates /\ label \in Labels
      /\ NotPaused \in Labels \union {NotPaused}
  BY <1>1 DEF Row, Labels
<1>3. /\ Alike(r, a) /\ a.quality = r.pausedFrom
      /\ r.pausedFrom # "operator_paused" => a.pausedFrom = NotPaused
  BY <1>1, <1>2, MovedRow
<1>4. t = [a EXCEPT !.label = label, !.resume = NotPaused]
  OBVIOUS
<1>5. label = "generated" \/ label = r.resume
  OBVIOUS
<1>6. r.resume # NotPaused => label = r.resume
  OBVIOUS
<1> HIDE DEF a, label
<1>7. /\ t \in Row /\ t.label = label /\ t.resume = NotPaused
      /\ t.quality = r.pausedFrom /\ t.pausedFrom = a.pausedFrom /\ t.status = r.status
      /\ t.development = r.development /\ t.holdout = r.holdout /\ t.sealed = r.sealed
      /\ t.released = r.released /\ t.row = r.row /\ t.champion = r.champion
  <2>1. a \in Row
    BY <1>3 DEF Alike
  <2>2. t \in Row
    BY <1>2, <1>4, <2>1 DEF Row
  <2>3. /\ t.label = label /\ t.resume = NotPaused
        /\ t.quality = a.quality /\ t.pausedFrom = a.pausedFrom /\ t.status = a.status
        /\ t.development = a.development /\ t.holdout = a.holdout /\ t.sealed = a.sealed
        /\ t.released = a.released /\ t.row = a.row /\ t.champion = a.champion
    BY <1>4, <2>1 DEF Row
  <2> QED BY <1>3, <2>2, <2>3 DEF Alike
<1>8. NotPaused \notin Late /\ "generated" \notin Late /\ Trading \subseteq Late
  BY DEF NotPaused, Late, Trading
<1>9. Vouched(t)
  BY <1>1, <1>5, <1>7, <1>8 DEF Vouched
<1>10. Trades(t) => Trades(r) /\ t.champion = r.champion
  BY <1>5, <1>7, <1>8 DEF Trades
<1>11. Steadily =>
         /\ r.quality = "operator_paused" /\ r.label = "operator_paused"
         /\ r.pausedFrom # "operator_paused" /\ r.resume # NotPaused
         /\ r.resume # "operator_paused" => Stands(r, r.resume, r.pausedFrom)
         /\ r.development # "queued" /\ r.holdout # "queued"
  BY <1>1 DEF Steady
<1>12. Steadily => Steady(t)
  <2> SUFFICES ASSUME Steadily PROVE Steady(t)
    OBVIOUS
  <2>1. t.label = r.resume /\ t.pausedFrom = NotPaused /\ t.quality # "operator_paused"
    BY <1>3, <1>6, <1>7, <1>11
  <2>2. t.label # "operator_paused" => Stands(t, t.label, t.quality)
    BY <1>7, <1>11, <2>1 DEF Stands
  <2> QED BY <1>7, <1>11, <2>1, <2>2 DEF Steady, NotPaused
<1>13. OneWay(r, t)
  BY <1>11 DEF OneWay
<1> QED BY <1>7, <1>9, <1>10, <1>12, <1>13 DEF Follows, Held

LEMMA RetriedFollows ==
  ASSUME NEW r, Held(r), NEW t, t = [r EXCEPT !.work = "queued"]
  PROVE  Follows(r, t)
<1>1. r \in Row
  BY DEF Held
<1>2. Alike(r, t) /\ t.quality = r.quality /\ t.pausedFrom = r.pausedFrom
  BY <1>1 DEF Alike, Row, Operational
<1> QED BY <1>2, AlikeFollows

-----------------------------------------------------------------------------
(* The population *)

LEMMA BornHeld ==
  ASSUME NEW attempt \in 0..MaxRework, NEW champion \in Strategy \union {Nobody}
  PROVE  LET t == Born(attempt, champion) IN
         Held(t) /\ t.label = "generated" /\ ~Trades(t)
<1> DEFINE t == Born(attempt, champion)
<1>1. /\ "generated" \in Labels /\ "screened" \in QualityStates
      /\ "ready" \in Operational /\ "none" \in RunStates
  BY DEF Labels, QualityStates, Operational, RunStates
<1>2. t \in Row
  BY <1>1 DEF Born, Row
<1>3. /\ t.label = "generated" /\ t.resume = NotPaused /\ t.quality = "screened"
      /\ t.pausedFrom = NotPaused /\ t.status = "none" /\ t.development = "none"
      /\ t.holdout = "none"
  BY DEF Born
<1> HIDE DEF t
<1>4. Vouched(t)
  BY <1>3 DEF Vouched, Late, Trading, NotPaused
<1>5. Steady(t)
  BY <1>3 DEF Steady, Stands, Trading, Unmonitored, NotPaused
<1> QED BY <1>2, <1>3, <1>4, <1>5 DEF Held, Trades, Trading, NotPaused, t

\* SteadyIInv, of a population R.
Standing(R) ==
  /\ R \in [Strategy -> Row]
  /\ \A s \in Strategy : Held(R[s]) /\ (Steadily => Succeeds(R[s], R))

\* What a step owes to strategy s: when it begins to trade, its champion does not.
Advances(R, s) ==
  /\ Held(R[s])
  /\ OneWay(rows[s], R[s])
  /\ Trades(R[s]) =>
       \/ Trades(rows[s]) /\ R[s].champion = rows[s].champion
       \/ R[s].champion = Nobody
       \/ Loose
       \/ R[R[s].champion].label = "retired"

LEMMA AdvancesStands ==
  ASSUME Standing(rows), NEW R \in [Strategy -> Row], \A s \in Strategy : Advances(R, s)
  PROVE  Standing(R)
<1> SUFFICES ASSUME NEW s \in Strategy, Steadily, Trades(R[s]), R[s].champion # Nobody, ~Loose
             PROVE  R[R[s].champion].label = "retired"
  BY DEF Standing, Advances, Succeeds, Trades
<1> DEFINE c == R[s].champion
<1>1. c \in Strategy
  BY DEF Row
<1>2. CASE Trades(rows[s]) /\ c = rows[s].champion
  <2>1. rows[c].label = "retired"
    BY <1>2 DEF Standing, Succeeds, Trades
  <2>2. OneWay(rows[c], R[c])
    BY <1>1 DEF Advances
  <2> QED BY <2>1, <2>2 DEF OneWay
<1>3. CASE R[c].label = "retired"
  BY <1>3
<1> QED BY <1>2, <1>3 DEF Advances

LEMMA FollowsAdvances ==
  ASSUME NEW R, NEW s, Follows(rows[s], R[s])
  PROVE  Advances(R, s)
BY DEF Follows, Advances

LEMMA StandingHeld ==
  ASSUME Standing(rows), NEW s \in Strategy
  PROVE  Held(rows[s]) /\ rows[s] \in Row
BY DEF Standing

\* A step of one strategy.
LEMMA OneAdvances ==
  ASSUME Standing(rows), NEW s \in Strategy, NEW t, NEW R, R = [rows EXCEPT ![s] = t],
         Advances(R, s)
  PROVE  R \in [Strategy -> Row] /\ \A x \in Strategy : Advances(R, x)
<1>1. rows \in [Strategy -> Row] /\ R[s] = t
  BY DEF Standing
<1>2. R \in [Strategy -> Row]
  BY <1>1 DEF Advances, Held
<1>3. ASSUME NEW x \in Strategy, x # s
      PROVE  Advances(R, x)
  <2>1. R[x] = rows[x]
    BY <1>1, <1>3
  <2>2. Follows(rows[x], R[x])
    BY <2>1, StandingHeld, HeldFollows
  <2> QED BY <2>2, FollowsAdvances
<1> QED BY <1>2, <1>3

LEMMA OneFollows ==
  ASSUME Standing(rows), NEW s \in Strategy, NEW t, Follows(rows[s], t),
         NEW R, R = [rows EXCEPT ![s] = t]
  PROVE  R \in [Strategy -> Row] /\ \A x \in Strategy : Advances(R, x)
<1>1. R[s] = t
  BY DEF Standing
<1>2. Advances(R, s)
  BY <1>1, FollowsAdvances
<1> QED BY <1>2, OneAdvances

LEMMA BornFollows ==
  ASSUME Standing(rows), NEW s \in Strategy, rows[s].label = "unborn",
         NEW attempt \in 0..MaxRework, NEW champion \in Strategy \union {Nobody}
  PROVE  Follows(rows[s], Born(attempt, champion))
<1> DEFINE t == Born(attempt, champion)
<1>1. Held(t) /\ t.label = "generated" /\ ~Trades(t)
  BY BornHeld
<1> HIDE DEF t
<1>2. Follows(rows[s], t)
  BY <1>1 DEF Follows, OneWay
<1> QED BY <1>2 DEF t

\* The child takes an identifier nobody has, or is not followed.
LEMMA CradleUnborn ==
  ASSUME NEW kid \in Cradle
  PROVE  /\ kid \in Strategy \union {Elsewhere}
         /\ kid \in Strategy => rows[kid].label = "unborn"
BY LifecycleAssumption DEF Cradle, Unborn

-----------------------------------------------------------------------------
(* The steps *)

LEMMA SetAsideFollows ==
  ASSUME NEW r, Held(r), r.label = "rework", NEW label \in {"dropped", "superseded"},
         NEW t, t = [r EXCEPT !.label = label]
  PROVE  Follows(r, t)
<1>1. label \in Labels /\ r \in Row
  BY DEF Labels, Held
<1>2. /\ t \in Row /\ t.label = label /\ t.resume = r.resume /\ t.quality = r.quality
      /\ t.pausedFrom = r.pausedFrom /\ t.status = r.status
      /\ t.development = r.development /\ t.holdout = r.holdout /\ t.sealed = r.sealed
      /\ t.released = r.released /\ t.row = r.row /\ t.champion = r.champion
  BY <1>1 DEF Row
<1>3. Vouched(t)
  BY <1>2 DEF Held, Vouched, Late, Trading
<1>4. Steadily => Steady(t)
  BY <1>2 DEF Held, Steady, Stands, Trading, Unmonitored
<1>5. Trades(t) => Trades(r) /\ t.champion = r.champion
  BY <1>2 DEF Trades, Trading
<1> QED BY <1>2, <1>3, <1>4, <1>5 DEF Follows, Held, OneWay

LEMMA ReworkedFollows ==
  ASSUME Standing(rows), NEW kid \in [Waiting \ Exhausted -> Cradle], NEW s \in Strategy
  PROVE  Follows(rows[s], Reworked(kid)[s])
<1> DEFINE r == rows[s]
           t == Reworked(kid)[s]
           parents == Waiting \ Exhausted
<1>1. Held(r) /\ r \in Row
  BY StandingHeld
<1> DEFINE dropped == [r EXCEPT !.label = "dropped"]
           superseded == [r EXCEPT !.label = "superseded"]
           child == Born(rows[CHOOSE p \in parents : kid[p] = s].attempt + 1, Nobody)
           chosen == \E p \in parents : kid[p] = s
<1>2. t = CASE s \in Exhausted -> dropped
            [] s \in parents -> superseded
            [] chosen -> child
            [] OTHER -> r
  BY DEF Reworked
<1> HIDE DEF t, dropped, superseded, child, chosen
<1>3. s \in Waiting => r.label = "rework"
  BY DEF Waiting
<1> DEFINE q == CHOOSE p \in parents : kid[p] = s
<1>4. chosen => q \in parents /\ kid[q] = s /\ r.label = "unborn"
  <2> SUFFICES ASSUME chosen PROVE q \in parents /\ kid[q] = s /\ r.label = "unborn"
    OBVIOUS
  <2>1. q \in parents /\ kid[q] = s
    BY DEF chosen
  <2> HIDE DEF q
  <2>2. kid[q] \in Cradle
    BY <2>1
  <2> QED BY <2>1, <2>2, CradleUnborn
<1>5. ASSUME s \in Waiting
      PROVE  Follows(r, t)
  <2>1. s \in Exhausted \/ s \in parents
    BY <1>5
  <2>2. s \in Exhausted => s \notin parents
    OBVIOUS
  <2>3. ~chosen
    BY <1>3, <1>5, <1>4
  <2> HIDE DEF parents
  <2>4. t = dropped \/ t = superseded
    BY <1>2, <1>5, <2>1, <2>2, <2>3
  <2> HIDE DEF r
  <2> QED BY <1>1, <1>3, <1>5, <2>4, SetAsideFollows DEF dropped, superseded
<1>6. ASSUME s \notin Waiting, chosen
      PROVE  Follows(r, t)
  <2>1. q \in parents /\ r.label = "unborn"
    BY <1>6, <1>4
  <2>2. t = Born(rows[q].attempt + 1, Nobody)
    BY <1>2, <1>6 DEF Exhausted, child
  <2> HIDE DEF q
  <2>3. q \in Strategy /\ ~(rows[q].attempt >= MaxRework)
    BY <2>1 DEF Waiting, Exhausted
  <2>4. rows[q].attempt \in 0..MaxRework
    BY <2>3, StandingHeld DEF Row
  <2>5. rows[q].attempt + 1 \in 0..MaxRework
    BY <2>3, <2>4, LifecycleAssumption
  <2> QED BY <2>1, <2>2, <2>5, BornFollows
<1>7. ASSUME s \notin Waiting, ~chosen
      PROVE  Follows(r, t)
  <2>1. t = r
    BY <1>2, <1>7 DEF Exhausted
  <2> QED BY <1>1, <2>1, HeldFollows
<1> QED BY <1>5, <1>6, <1>7 DEF t

LEMMA BetweenTransitive ==
  ASSUME NEW r, NEW t, NEW u, Follows(r, t), Between(t, u)
  PROVE  Between(r, u)
BY DEF Follows, Between, OneWay

\* applyHoldoutCapacity ends the step.
LEMMA PooledAdvances ==
  ASSUME NEW R, NEW chosen, \A s \in Strategy : Between(rows[s], R[s])
  PROVE  LET S == Capacity(R, chosen) IN
         S \in [Strategy -> Row] /\ \A s \in Strategy : Advances(S, s)
<1> DEFINE S == Capacity(R, chosen)
<1>1. \A s \in Strategy : Follows(rows[s], S[s])
  BY CapacityFollows
<1>2. S = [s \in Strategy |-> S[s]]
  BY DEF Capacity
<1> HIDE DEF S
<1>3. \A s \in Strategy : Advances(S, s)
  BY <1>1, FollowsAdvances
<1>4. S \in [Strategy -> Row]
  BY <1>2, <1>3 DEF Advances, Held
<1> QED BY <1>3, <1>4 DEF S

LEMMA ReviewAdvances ==
  ASSUME Standing(rows), Review
  PROVE  rows' \in [Strategy -> Row] /\ \A s \in Strategy : Advances(rows', s)
<1>1. PICK kid \in [Waiting \ Exhausted -> Cradle] :
        LET R == Reworked(kid)
            candidates == {s \in Strategy : R[s].label = "generated"} IN
        \E out \in [candidates -> ReviewOutcome] :
          LET S == [s \in Strategy |-> IF s \in candidates THEN Reviewed(R[s], out[s]) ELSE R[s]] IN
          \E chosen \in Admissions(S) : rows' = Capacity(S, chosen)
  BY DEF Review
<1> DEFINE R == Reworked(kid)
           candidates == {s \in Strategy : R[s].label = "generated"}
<1>2. PICK out \in [candidates -> ReviewOutcome] :
        LET S == [s \in Strategy |-> IF s \in candidates THEN Reviewed(R[s], out[s]) ELSE R[s]] IN
        \E chosen \in Admissions(S) : rows' = Capacity(S, chosen)
  BY <1>1
<1> DEFINE S == [s \in Strategy |-> IF s \in candidates THEN Reviewed(R[s], out[s]) ELSE R[s]]
<1>3. PICK chosen \in Admissions(S) : rows' = Capacity(S, chosen)
  BY <1>2
<1>4. \A s \in Strategy : Follows(rows[s], R[s])
  BY ReworkedFollows
<1> HIDE DEF R
<1>5. ASSUME NEW s \in Strategy
      PROVE  Between(rows[s], S[s])
  <2>1. Follows(rows[s], R[s])
    BY <1>4
  <2>2. CASE s \in candidates
    <3>1. S[s] = Reviewed(R[s], out[s]) /\ R[s].label = "generated" /\ out[s] \in ReviewOutcome
      BY <2>2
    <3>2. Held(R[s])
      BY <2>1 DEF Follows
    <3>3. Between(R[s], S[s])
      BY <3>1, <3>2, ReviewedBetween
    <3> QED BY <2>1, <3>3, BetweenTransitive
  <2>3. CASE s \notin candidates
    BY <2>1, <2>3, FollowsBetween
  <2> QED BY <2>2, <2>3
<1> HIDE DEF S
<1> QED BY <1>3, <1>5, PooledAdvances

LEMMA ValidatedFollows ==
  ASSUME NEW r, Held(r), r.label = "validation", NEW out \in ValidateOutcome(r)
  PROVE  Follows(r, Validated(r, out))
<1> DEFINE t == Validated(r, out)
<1>1. r \in Row /\ Vouched(r) /\ (Steadily => Steady(r))
  BY DEF Held
<1>2. ASSUME r.sealed = "none"
      PROVE  Awaiting(r)
  BY <1>1, <1>2 DEF Awaiting, Steady, Stands
<1>3. ASSUME ~setting.partitioned
      PROVE  r.holdout # "queued"
  BY <1>1, <1>3 DEF Vouched
<1>4. \/ out = "not_dispatched"
      \/ /\ r.sealed = "none"
         /\ \/ out = "service_error"
            \/ out = "enqueued" /\ setting.partitioned
            \/ out \in Verdict /\ ~setting.partitioned
            \/ out = "unsaved" /\ Loose /\ ~setting.partitioned
  BY DEF ValidateOutcome, Loose
<1>5. CASE out = "not_dispatched"
  <2>1. t = r
    BY <1>5 DEF Validated
  <2> QED BY <2>1, HeldFollows
<1>6. CASE out = "service_error"
  <2>1. t = Deferred(Dispatched(r))
    BY <1>6 DEF Validated
  <2> QED BY <2>1, DeferredFollows
<1>7. CASE out = "enqueued" /\ setting.partitioned /\ r.sealed = "none"
  <2>1. t = [Dispatched(r) EXCEPT !.holdout = IF @ = "none" THEN "queued" ELSE @]
    BY <1>7 DEF Validated
  <2> QED BY <1>2, <1>7, <2>1, DeferredFollows
<1>8. CASE out \in Verdict /\ ~setting.partitioned /\ r.sealed = "none"
  <2>1. t = Sealed(Dispatched(r), out)
    BY <1>8 DEF Validated, Verdict
  <2> QED BY <1>2, <1>3, <1>8, <2>1, SealedFollows
<1>9. CASE out = "unsaved" /\ Loose /\ ~setting.partitioned /\ r.sealed = "none"
  <2>1. t = SealedUnsaved(Dispatched(r))
    BY <1>9 DEF Validated
  <2> QED BY <1>2, <1>3, <1>9, <2>1, UnsavedFollows
<1> QED BY <1>4, <1>5, <1>6, <1>7, <1>8, <1>9

LEMMA ValidateAdvances ==
  ASSUME Standing(rows), Validate
  PROVE  rows' \in [Strategy -> Row] /\ \A s \in Strategy : Advances(rows', s)
<1> DEFINE candidates == {s \in Strategy : rows[s].label = "validation"}
           Outcomes == UNION {ValidateOutcome(rows[s]) : s \in candidates}
<1>1. PICK out \in [candidates -> Outcomes] :
        /\ \A s \in candidates : out[s] \in ValidateOutcome(rows[s])
        /\ LET R == [s \in Strategy |-> IF s \in candidates THEN Validated(rows[s], out[s])
                                        ELSE rows[s]] IN
           \E chosen \in Admissions(R) : rows' = Capacity(R, chosen)
  BY DEF Validate
<1> DEFINE R == [s \in Strategy |-> IF s \in candidates THEN Validated(rows[s], out[s])
                                    ELSE rows[s]]
<1>2. PICK chosen \in Admissions(R) : rows' = Capacity(R, chosen)
  BY <1>1
<1>3. ASSUME NEW s \in Strategy
      PROVE  Between(rows[s], R[s])
  <2>1. Held(rows[s])
    BY StandingHeld
  <2>2. CASE s \in candidates
    <3>1. R[s] = Validated(rows[s], out[s]) /\ out[s] \in ValidateOutcome(rows[s])
      BY <1>1, <2>2
    <3>2. Follows(rows[s], R[s])
      BY <2>1, <2>2, <3>1, ValidatedFollows
    <3> QED BY <3>2, FollowsBetween
  <2>3. CASE s \notin candidates
    <3>1. R[s] = rows[s]
      BY <2>3
    <3> QED BY <2>1, <3>1, HeldFollows, FollowsBetween
  <2> QED BY <2>2, <2>3
<1> HIDE DEF R
<1> QED BY <1>2, <1>3, PooledAdvances

\* A finalized run changes its strategy, then the capacity is applied to all.
LEMMA FinalizedAdvances ==
  ASSUME Standing(rows), NEW s \in Strategy, NEW t, Between(rows[s], t),
         NEW R, R = [rows EXCEPT ![s] = t],
         NEW chosen, rows' = Capacity(R, chosen)
  PROVE  rows' \in [Strategy -> Row] /\ \A x \in Strategy : Advances(rows', x)
<1>1. ASSUME NEW x \in Strategy
      PROVE  Between(rows[x], R[x])
  <2>1. rows \in [Strategy -> Row]
    BY DEF Standing
  <2>2. CASE x = s
    BY <2>1, <2>2
  <2>3. CASE x # s
    <3>1. R[x] = rows[x]
      BY <2>1, <2>3
    <3>2. Follows(rows[x], R[x])
      BY <3>1, StandingHeld, HeldFollows
    <3> QED BY <3>2, FollowsBetween
  <2> QED BY <2>2, <2>3
<1> QED BY <1>1, PooledAdvances

LEMMA QueuedRow ==
  ASSUME Standing(rows), NEW s \in Strategy
  PROVE  /\ rows[s].development = "queued" => (Steadily => rows[s].label = "generated")
         /\ rows[s].holdout = "queued" => Awaiting(rows[s])
<1>1. Held(rows[s])
  BY StandingHeld
<1> QED BY <1>1 DEF Held, Vouched, Steady, Awaiting

LEMMA FinalizeAdvances ==
  ASSUME Standing(rows), NEW s \in Strategy,
         \/ FinalizeDevelopment(s) \/ FinalizeDevelopmentFails(s)
         \/ FinalizeHoldout(s) \/ FinalizeHoldoutFails(s)
  PROVE  rows' \in [Strategy -> Row] /\ \A x \in Strategy : Advances(rows', x)
<1> DEFINE r == rows[s]
<1>1. Held(r)
  BY StandingHeld
<1>2. CASE FinalizeDevelopment(s)
  <2>1. PICK d \in DevelopmentDecision :
          \E chosen \in Admissions([rows EXCEPT ![s] =
              [Decided(InDevelopment(r), d) EXCEPT !.development = "finalized"]]) :
            rows' = Capacity([rows EXCEPT ![s] =
                [Decided(InDevelopment(r), d) EXCEPT !.development = "finalized"]], chosen)
    BY <1>2 DEF FinalizeDevelopment
  <2> DEFINE t == [Decided(InDevelopment(r), d) EXCEPT !.development = "finalized"]
             R == [rows EXCEPT ![s] = t]
  <2>2. PICK chosen : rows' = Capacity(R, chosen)
    BY <2>1
  <2>3. Steadily => r.label = "generated"
    BY <1>2, QueuedRow DEF FinalizeDevelopment
  <2>4. Between(r, t)
    BY <1>1, <2>3, DecidedBetween
  <2> HIDE DEF t
  <2> QED BY <2>2, <2>4, FinalizedAdvances
<1>3. CASE FinalizeDevelopmentFails(s)
  <2> DEFINE t == [Deferred(InDevelopment(r)) EXCEPT !.development = "finalized"]
             R == [rows EXCEPT ![s] = t]
  <2>1. PICK chosen : rows' = Capacity(R, chosen)
    BY <1>3 DEF FinalizeDevelopmentFails
  <2>2. Steadily => r.label = "generated"
    BY <1>3, QueuedRow DEF FinalizeDevelopmentFails
  <2>3. "finalized" \in RunStates
    BY DEF RunStates
  <2>4. Follows(r, t)
    BY <1>1, <2>2, <2>3, BegunFollows
  <2> HIDE DEF t
  <2>5. Between(r, t)
    BY <2>4, FollowsBetween
  <2> QED BY <2>1, <2>5, FinalizedAdvances
<1>4. CASE FinalizeHoldout(s)
  <2>1. PICK v \in Verdict :
          \E chosen \in Admissions([rows EXCEPT ![s] =
              [Sealed(Dispatched(r), v) EXCEPT !.holdout = "finalized"]]) :
            rows' = Capacity([rows EXCEPT ![s] =
                [Sealed(Dispatched(r), v) EXCEPT !.holdout = "finalized"]], chosen)
    BY <1>4 DEF FinalizeHoldout
  <2> DEFINE t == [Sealed(Dispatched(r), v) EXCEPT !.holdout = "finalized"]
             R == [rows EXCEPT ![s] = t]
  <2>2. PICK chosen : rows' = Capacity(R, chosen)
    BY <2>1
  <2>3. Awaiting(r)
    BY <1>4, QueuedRow DEF FinalizeHoldout
  <2>4. Follows(r, t)
    BY <1>1, <2>3, SealedFollows
  <2> HIDE DEF t
  <2>5. Between(r, t)
    BY <2>4, FollowsBetween
  <2> QED BY <2>2, <2>5, FinalizedAdvances
<1>5. CASE FinalizeHoldoutFails(s)
  <2>1. PICK u \in {Deferred(Dispatched(r)), SealedUnsaved(Dispatched(r))} :
          \E chosen \in Admissions([rows EXCEPT ![s] = [u EXCEPT !.holdout = "finalized"]]) :
            rows' = Capacity([rows EXCEPT ![s] = [u EXCEPT !.holdout = "finalized"]], chosen)
    BY <1>5 DEF FinalizeHoldoutFails
  <2> DEFINE t == [u EXCEPT !.holdout = "finalized"]
             R == [rows EXCEPT ![s] = t]
  <2>2. PICK chosen : rows' = Capacity(R, chosen)
    BY <2>1
  <2>3. Awaiting(r) /\ Loose
    BY <1>5, QueuedRow DEF FinalizeHoldoutFails, Loose
  <2>4. Follows(r, t)
    BY <1>1, <2>1, <2>3, DeferredFollows, UnsavedFollows
  <2> HIDE DEF t
  <2>5. Between(r, t)
    BY <2>4, FollowsBetween
  <2> QED BY <2>2, <2>5, FinalizedAdvances
<1> QED BY <1>2, <1>3, <1>4, <1>5

\* The champion is relieved by its challenger, or the challenger retires.
LEMMA ReplacesAdvances ==
  ASSUME Standing(rows), NEW s \in Strategy,
         rows[s].label \in {"incubation", "release_blocked_short"},
         rows[s].champion # Nobody, NEW improved \in BOOLEAN,
         NEW R, R = Replaces(s, improved)
  PROVE  R \in [Strategy -> Row] /\ \A x \in Strategy : Advances(R, x)
<1> DEFINE r == rows[s]
           c == r.champion
           a == Installed(r)
           b == StoodDown(a)
           d == StoodDown(rows[c])
<1>1. rows \in [Strategy -> Row] /\ Held(r) /\ r \in Row
  BY StandingHeld DEF Standing
<1>2. c \in Strategy
  BY <1>1 DEF Row
<1>3. Held(a) /\ a.label = "released" /\ a.resume = r.resume /\ a.champion = r.champion
  BY <1>1, InstalledHeld
<1>4. CASE improved /\ rows[c].label \in Trading
  <2>1. c # s
    BY <1>4 DEF Trading
  <2>2. R = [rows EXCEPT ![s] = a, ![c] = d]
    BY <1>4 DEF Replaces
  <2>3. Held(rows[c])
    BY <1>2, StandingHeld
  <2>4. Follows(rows[c], d) /\ d.label = "retired"
    BY <1>4, <2>3, StoodDownFollows
  <2>5. a \in Row /\ d \in Row
    BY <1>3, <2>4 DEF Follows, Held
  <2> HIDE DEF a, c, d
  <2>6. /\ R \in [Strategy -> Row] /\ R[s] = a /\ R[c] = d
        /\ \A x \in Strategy : x # s /\ x # c => R[x] = rows[x]
    BY <1>1, <1>2, <2>1, <2>2, <2>5
  <2>7. Advances(R, s)
    BY <1>1, <1>3, <2>4, <2>6 DEF Advances, OneWay, c
  <2>8. ASSUME NEW x \in Strategy, x # s
        PROVE  Advances(R, x)
    <3>1. Follows(rows[x], R[x])
      BY <2>4, <2>6, <2>8, StandingHeld, HeldFollows
    <3> QED BY <3>1, FollowsAdvances
  <2> QED BY <2>6, <2>7, <2>8
<1>5. CASE ~(improved /\ rows[c].label \in Trading)
  <2>1. R = [rows EXCEPT ![s] = b]
    BY <1>5 DEF Replaces
  <2>2. /\ Follows(a, b) /\ b.label = "retired" /\ b.resume = a.resume
    BY <1>3, StoodDownFollows DEF Trading
  <2> HIDE DEF a, b
  <2>3. Follows(r, b)
    BY <1>3, <2>2 DEF Follows, OneWay, Trades, Trading
  <2> QED BY <2>1, <2>3, OneFollows
<1> QED BY <1>4, <1>5

LEMMA IncubateAdvances ==
  ASSUME Standing(rows), NEW s \in Strategy, Incubate(s) \/ Release(s) \/ ReleaseFails(s)
  PROVE  rows' \in [Strategy -> Row] /\ \A x \in Strategy : Advances(rows', x)
<1> DEFINE r == rows[s]
<1>1. Held(r) /\ r \in Row /\ r.label \in {"incubation", "release_blocked_short"}
  BY StandingHeld DEF Incubate, Release, ReleaseFails, Releasable
<1>2. Installed(r).champion = r.champion /\ Held(Installed(r))
  BY <1>1, InstalledHeld
<1>3. ASSUME NEW t \in {SentBack(r), GateRejected(r), HeldByOperator(r), HeldForShorts(r)},
             rows' = [rows EXCEPT ![s] = t]
      PROVE  rows' \in [Strategy -> Row] /\ \A x \in Strategy : Advances(rows', x)
  <2>1. Follows(r, t)
    BY <1>1, GateFollows
  <2> QED BY <1>3, <2>1, OneFollows
<1>4. ASSUME NEW t, Held(t), t.champion = Nobody \/ Loose, rows' = [rows EXCEPT ![s] = t]
      PROVE  rows' \in [Strategy -> Row] /\ \A x \in Strategy : Advances(rows', x)
  <2>1. rows'[s] = t
    BY <1>4 DEF Standing
  <2>2. Advances(rows', s)
    BY <1>1, <1>4, <2>1 DEF Advances, OneWay
  <2> QED BY <1>4, <2>2, OneAdvances
<1>5. ASSUME NEW improved \in BOOLEAN, rows' = Replaces(s, improved), r.champion # Nobody
      PROVE  rows' \in [Strategy -> Row] /\ \A x \in Strategy : Advances(rows', x)
  BY <1>1, <1>5, ReplacesAdvances
<1>6. CASE Incubate(s)
  <2>1. PICK gate \in GateOutcome, improved \in BOOLEAN :
          rows' = CASE gate = "rework" -> [rows EXCEPT ![s] = SentBack(r)]
                    [] gate = "reject" -> [rows EXCEPT ![s] = GateRejected(r)]
                    [] gate = "pass" /\ releasePaused -> [rows EXCEPT ![s] = HeldByOperator(r)]
                    [] gate = "pass" /\ ~releasePaused /\ ~CanRelease(s) ->
                         [rows EXCEPT ![s] = HeldForShorts(r)]
                    [] gate = "pass" /\ ~releasePaused /\ CanRelease(s) /\ r.champion = Nobody ->
                         [rows EXCEPT ![s] = Installed(r)]
                    [] OTHER -> Replaces(s, improved)
    BY <1>6 DEF Incubate
  <2>2. \/ \E t \in {SentBack(r), GateRejected(r), HeldByOperator(r), HeldForShorts(r)} :
             rows' = [rows EXCEPT ![s] = t]
        \/ rows' = [rows EXCEPT ![s] = Installed(r)] /\ r.champion = Nobody
        \/ rows' = Replaces(s, improved) /\ r.champion # Nobody
    BY <2>1 DEF GateOutcome
  <2> QED BY <1>2, <1>3, <1>4, <1>5, <2>2
<1>7. CASE Release(s)
  <2>1. PICK improved \in BOOLEAN :
          rows' = IF releasePaused THEN [rows EXCEPT ![s] = HeldByOperator(r)]
                  ELSE IF ~CanRelease(s) THEN [rows EXCEPT ![s] = HeldForShorts(r)]
                  ELSE IF r.champion = Nobody THEN [rows EXCEPT ![s] = Installed(r)]
                  ELSE Replaces(s, improved)
    BY <1>7 DEF Release
  <2>2. \/ \E t \in {SentBack(r), GateRejected(r), HeldByOperator(r), HeldForShorts(r)} :
             rows' = [rows EXCEPT ![s] = t]
        \/ rows' = [rows EXCEPT ![s] = Installed(r)] /\ r.champion = Nobody
        \/ rows' = Replaces(s, improved) /\ r.champion # Nobody
    BY <2>1
  <2> QED BY <1>2, <1>3, <1>4, <1>5, <2>2
<1>8. CASE ReleaseFails(s)
  <2>1. /\ Loose
        /\ \E t \in {Labelled(r), Installed(r)} : rows' = [rows EXCEPT ![s] = t]
    BY <1>8 DEF ReleaseFails, Loose
  <2>2. Held(Labelled(r))
    BY <1>1, <2>1, LabelledHeld
  <2> QED BY <1>2, <1>4, <2>1, <2>2
<1> QED BY <1>6, <1>7, <1>8

\* A health decision, with the child it breeds.
LEMMA ApplyAdvances ==
  ASSUME Standing(rows), NEW s \in Strategy, NEW r, Follows(rows[s], r),
         r.label \in Trading, r.status # "none",
         NEW q \in {r.status, "quarantined", "retired"} \union Windows(r.status),
         NEW operational \in Operational, Apply(s, r, q, operational)
  PROVE  rows' \in [Strategy -> Row] /\ \A x \in Strategy : Advances(rows', x)
<1> DEFINE t == Judged(r, q, operational)
<1>1. Held(r) /\ r \in Row
  BY DEF Follows, Held
<1>2. Follows(r, t)
  BY <1>1, JudgedFollows
<1>3. Follows(rows[s], t)
  BY <1>2, FollowsTransitive
<1>4. CASE ~Breeds(r, q)
  <2>1. rows' = [rows EXCEPT ![s] = t]
    BY <1>4 DEF Apply
  <2> HIDE DEF t
  <2> QED BY <1>3, <2>1, OneFollows
<1>5. CASE Breeds(r, q)
  <2>1. PICK kid \in Cradle :
          rows' = [x \in Strategy |-> IF x = s THEN [t EXCEPT !.challenger = kid]
                                      ELSE IF x = kid THEN Born(r.attempt, s) ELSE rows[x]]
    BY <1>5 DEF Apply
  <2>2. /\ kid \in Strategy \union {Elsewhere}
        /\ kid \in Strategy => rows[kid].label = "unborn"
    BY CradleUnborn
  <2>3. Follows(rows[s], [t EXCEPT !.challenger = kid])
    BY <1>3, <2>2, ChallengerFollows
  <2>4. r.attempt \in 0..MaxRework
    BY <1>1 DEF Row
  <2> DEFINE u == [t EXCEPT !.challenger = kid]
             b == Born(r.attempt, s)
  <2>5. ASSUME NEW x \in Strategy, x = kid
        PROVE  Follows(rows[x], b)
    BY <2>2, <2>4, <2>5, BornFollows
  <2> HIDE DEF t, u, b
  <2>6. ASSUME NEW x \in Strategy
        PROVE  Follows(rows[x], rows'[x])
    <3>1. rows'[x] = IF x = s THEN u ELSE IF x = kid THEN b ELSE rows[x]
      BY <2>1 DEF u, b
    <3>2. Follows(rows[x], rows[x])
      BY StandingHeld, HeldFollows
    <3>3. CASE x = s
      BY <2>3, <3>1, <3>3 DEF u
    <3>4. CASE x # s /\ x = kid
      BY <2>5, <3>1, <3>4
    <3>5. CASE x # s /\ x # kid
      BY <3>1, <3>2, <3>5
    <3> QED BY <3>3, <3>4, <3>5
  <2>7. \A x \in Strategy : Advances(rows', x)
    BY <2>6, FollowsAdvances
  <2>8. rows' = [x \in Strategy |-> rows'[x]]
    BY <2>1
  <2> QED BY <2>7, <2>8 DEF Advances, Held
<1> QED BY <1>4, <1>5
LEMMA NotedFollows ==
  ASSUME NEW r, Held(r), r.label \in Trading, NEW finding
  PROVE  LET t == Noted(r, finding) IN
         Follows(r, t) /\ t.label = r.label /\ t.status # "none"
<1> DEFINE m == Monitored(r)
           today == IF "hard" \in {finding, m.today} THEN "hard"
                    ELSE IF "blocked" \in {finding, m.today} THEN "blocked" ELSE "clean"
           t == Noted(r, finding)
<1>1. Follows(r, m) /\ m.label = r.label /\ m.status # "none"
  BY MonitoredFollows
<1>2. t = [m EXCEPT !.today = today]
  BY DEF Noted
<1>3. today \in {"clean", "blocked", "hard"}
  OBVIOUS
<1> HIDE DEF m, today, t
<1>4. Follows(m, t) /\ t.label = m.label /\ t.status = m.status
  BY <1>1, <1>2, <1>3, TodayFollows DEF Follows
<1> QED BY <1>1, <1>4, FollowsTransitive DEF t

LEMMA HealthAdvances ==
  ASSUME Standing(rows), NEW s \in Strategy,
         Observe(s) \/ ObserveFails(s) \/ CloseSession(s) \/ Remove(s)
  PROVE  rows' \in [Strategy -> Row] /\ \A x \in Strategy : Advances(rows', x)
<1> DEFINE r == rows[s]
           m == Monitored(r)
           over == [m EXCEPT !.today = "clean"]
<1>1. Held(r) /\ r.label \in Trading
  BY StandingHeld DEF Observe, ObserveFails, CloseSession, Remove
<1>2. Follows(r, m) /\ m.label \in Trading /\ m.status # "none"
  BY <1>1, MonitoredFollows
<1>3. Follows(r, over) /\ over.label \in Trading /\ over.status = m.status
  <2> HIDE DEF m
  <2>1. Follows(m, over) /\ over.label = m.label /\ over.status = m.status
    BY <1>2, TodayFollows DEF Follows
  <2> HIDE DEF over
  <2> QED BY <1>2, <2>1, FollowsTransitive
<1>4. "ready" \in Operational /\ "operational_blocked" \in Operational
  BY DEF Operational
<1>5. CASE Observe(s)
  <2>1. PICK finding \in {"clean", "blocked", "hard"} :
          LET t == Noted(r, finding) IN
          CASE finding = "clean" -> rows' = [rows EXCEPT ![s] = t]
            [] finding = "blocked" -> Apply(s, t, t.status, "operational_blocked")
            [] OTHER -> Apply(s, t, "quarantined", "ready")
    BY <1>5 DEF Observe
  <2> DEFINE t == Noted(r, finding)
  <2>2. Follows(r, t) /\ t.label \in Trading /\ t.status # "none"
    BY <1>1, NotedFollows
  <2>3. \/ rows' = [rows EXCEPT ![s] = t]
        \/ Apply(s, t, t.status, "operational_blocked")
        \/ Apply(s, t, "quarantined", "ready")
    BY <2>1
  <2> HIDE DEF t
  <2> QED BY <1>4, <2>2, <2>3, OneFollows, ApplyAdvances
<1>6. CASE ObserveFails(s)
  <2>1. PICK finding : rows' = [rows EXCEPT ![s] = Noted(r, finding)]
    BY <1>6 DEF ObserveFails
  <2>2. Follows(r, Noted(r, finding))
    BY <1>1, NotedFollows
  <2> QED BY <2>1, <2>2, OneFollows
<1>7. CASE CloseSession(s)
  <2>1. \/ \E t \in {m, over} : Apply(s, t, "quarantined", "ready")
        \/ Apply(s, over, m.status, "operational_blocked")
        \/ \E q \in Windows(m.status) : Apply(s, over, q, "ready")
    BY <1>7 DEF CloseSession
  <2> HIDE DEF m, over
  <2> QED BY <1>2, <1>3, <1>4, <2>1, ApplyAdvances
<1>8. CASE Remove(s)
  <2>1. PICK q \in {"quarantined", "retired"} : Apply(s, m, q, "ready")
    BY <1>8 DEF Remove
  <2> HIDE DEF m
  <2> QED BY <1>2, <1>4, <2>1, ApplyAdvances
<1> QED BY <1>5, <1>6, <1>7, <1>8

LEMMA OperatorAdvances ==
  ASSUME Standing(rows), NEW s \in Strategy, Pause(s) \/ Resume(s) \/ RetryOperational(s)
  PROVE  rows' \in [Strategy -> Row] /\ \A x \in Strategy : Advances(rows', x)
<1> DEFINE r == rows[s]
<1>1. Held(r) /\ rows \in [Strategy -> Row]
  BY StandingHeld DEF Standing
<1>2. CASE Pause(s)
  <2> DEFINE t == [IF r.quality = "operator_paused" THEN r ELSE Moved(r, "operator_paused")
                   EXCEPT !.resume = r.label, !.label = "operator_paused"]
  <2>1. /\ r.label # "unborn"
        /\ r.quality = "operator_paused" \/ Legal(r, "operator_paused")
        /\ InRun(r) => ~Steadily
        /\ rows' = [rows EXCEPT ![s] = t]
    BY <1>2 DEF Pause, Steadily
  <2>2. Follows(r, t)
    BY <1>1, <2>1, PausedFollows
  <2> HIDE DEF t
  <2> QED BY <2>1, <2>2, OneFollows
<1>3. CASE Resume(s)
  <2> DEFINE t == [Moved(r, r.pausedFrom) EXCEPT
                     !.label = IF r.resume = NotPaused THEN "generated" ELSE r.resume,
                     !.resume = NotPaused]
  <2>1. /\ r.pausedFrom # NotPaused
        /\ rows' = [rows EXCEPT ![s] = t]
    BY <1>3 DEF Resume
  <2>2. Follows(r, t)
    BY <1>1, <2>1, ResumedFollows
  <2> HIDE DEF t
  <2> QED BY <2>1, <2>2, OneFollows
<1>4. CASE RetryOperational(s)
  <2> DEFINE t == [r EXCEPT !.work = "queued"]
  <2>1. rows' = [rows EXCEPT ![s] = t]
    BY <1>4 DEF RetryOperational
  <2>2. Follows(r, t)
    BY <1>1, RetriedFollows
  <2> HIDE DEF t
  <2> QED BY <2>1, <2>2, OneFollows
<1> QED BY <1>2, <1>3, <1>4

-----------------------------------------------------------------------------
(* The invariant *)

LEMMA SteadyStands ==
  SteadyIInv <=> /\ Standing(rows) /\ releasePaused \in BOOLEAN /\ shortsEnabled \in BOOLEAN
                 /\ setting \in [trouble: Troubles, partitioned: BOOLEAN]
BY DEF SteadyIInv, VouchedIInv, TypeOK, Standing, Held, Steadily

LEMMA StepAdvances ==
  ASSUME SteadyIInv, Next
  PROVE  /\ rows' \in [Strategy -> Row] /\ \A s \in Strategy : Advances(rows', s)
         /\ releasePaused' \in BOOLEAN /\ shortsEnabled' \in BOOLEAN
         /\ setting' = setting
<1>1. Standing(rows) /\ releasePaused \in BOOLEAN /\ shortsEnabled \in BOOLEAN
  BY SteadyStands
<1>2. ASSUME rows' = rows
      PROVE  rows' \in [Strategy -> Row] /\ \A s \in Strategy : Advances(rows', s)
  <2>1. ASSUME NEW s \in Strategy
        PROVE  Advances(rows', s)
    <3>1. Follows(rows[s], rows'[s])
      BY <1>1, <1>2, StandingHeld, HeldFollows
    <3> QED BY <3>1, FollowsAdvances
  <2> QED BY <1>1, <1>2, <2>1 DEF Standing
<1>3. CASE Review
  BY <1>1, <1>3, ReviewAdvances DEF Review
<1>4. CASE Validate
  BY <1>1, <1>4, ValidateAdvances DEF Validate
<1>5. ASSUME NEW s \in Strategy,
             \/ FinalizeDevelopment(s) \/ FinalizeDevelopmentFails(s)
             \/ FinalizeHoldout(s) \/ FinalizeHoldoutFails(s)
      PROVE  /\ rows' \in [Strategy -> Row] /\ \A x \in Strategy : Advances(rows', x)
             /\ UNCHANGED <<releasePaused, shortsEnabled, setting>>
  <2>1. UNCHANGED <<releasePaused, shortsEnabled, setting>>
    BY <1>5 DEF FinalizeDevelopment, FinalizeDevelopmentFails, FinalizeHoldout,
                FinalizeHoldoutFails
  <2> QED BY <1>1, <1>5, <2>1, FinalizeAdvances
<1>6. ASSUME NEW s \in Strategy, Incubate(s) \/ Release(s) \/ ReleaseFails(s)
      PROVE  /\ rows' \in [Strategy -> Row] /\ \A x \in Strategy : Advances(rows', x)
             /\ UNCHANGED <<releasePaused, shortsEnabled, setting>>
  <2>1. UNCHANGED <<releasePaused, shortsEnabled, setting>>
    BY <1>6 DEF Incubate, Release, ReleaseFails
  <2> QED BY <1>1, <1>6, <2>1, IncubateAdvances
<1>7. ASSUME NEW s \in Strategy,
             Observe(s) \/ ObserveFails(s) \/ CloseSession(s) \/ Remove(s)
      PROVE  /\ rows' \in [Strategy -> Row] /\ \A x \in Strategy : Advances(rows', x)
             /\ UNCHANGED <<releasePaused, shortsEnabled, setting>>
  <2>1. UNCHANGED <<releasePaused, shortsEnabled, setting>>
    BY <1>7 DEF Observe, ObserveFails, CloseSession, Remove
  <2> QED BY <1>1, <1>7, <2>1, HealthAdvances
<1>8. ASSUME NEW s \in Strategy, Pause(s) \/ Resume(s) \/ RetryOperational(s)
      PROVE  /\ rows' \in [Strategy -> Row] /\ \A x \in Strategy : Advances(rows', x)
             /\ UNCHANGED <<releasePaused, shortsEnabled, setting>>
  <2>1. UNCHANGED <<releasePaused, shortsEnabled, setting>>
    BY <1>8 DEF Pause, Resume, RetryOperational
  <2> QED BY <1>1, <1>8, <2>1, OperatorAdvances
<1>9. CASE PauseReleases
  BY <1>1, <1>2, <1>9 DEF PauseReleases
<1>10. CASE EnableShorts
  BY <1>1, <1>2, <1>10 DEF EnableShorts
<1> QED BY <1>1, <1>3, <1>4, <1>5, <1>6, <1>7, <1>8, <1>9, <1>10 DEF Next

LEMMA InitStands ==
  ASSUME Init
  PROVE  SteadyIInv
<1>1. setting \in [trouble: Troubles, partitioned: BOOLEAN]
  BY DEF Init
<1>2. ASSUME NEW s \in Strategy
      PROVE  Held(rows[s]) /\ ~Trades(rows[s])
  <2> DEFINE b == Born(0, Nobody)
             label == IF s \in Founders THEN "generated" ELSE "unborn"
  <2>1. rows[s] = [b EXCEPT !.label = label]
    BY DEF Init
  <2>2. 0 \in 0..MaxRework
    BY LifecycleAssumption
  <2>3. Held(b)
    BY <2>2, BornHeld
  <2>4. /\ b.resume = NotPaused /\ b.quality = "screened"
        /\ b.pausedFrom = NotPaused /\ b.status = "none" /\ b.development = "none"
        /\ b.holdout = "none"
    BY DEF Born
  <2>5. label \in {"generated", "unborn"}
    OBVIOUS
  <2>6. label \in Labels
    BY <2>5 DEF Labels
  <2> HIDE DEF b, label
  <2> DEFINE t == rows[s]
  <2>7. /\ t \in Row /\ t.label = label /\ t.resume = NotPaused /\ t.quality = "screened"
        /\ t.pausedFrom = NotPaused /\ t.status = "none" /\ t.development = "none"
        /\ t.holdout = "none"
    BY <2>1, <2>3, <2>4, <2>6 DEF Held, Row
  <2> HIDE DEF t
  <2>8. Vouched(t)
    BY <2>5, <2>7 DEF Vouched, Late, Trading, NotPaused
  <2>9. Steady(t)
    BY <2>5, <2>7 DEF Steady, Stands, Trading, Unmonitored, NotPaused
  <2>10. Held(t) /\ ~Trades(t)
    BY <2>5, <2>7, <2>8, <2>9 DEF Held, Trades, Trading, NotPaused
  <2> QED BY <2>10 DEF t
<1>3. rows = [s \in Strategy |-> rows[s]]
  BY DEF Init
<1>4. rows \in [Strategy -> Row]
  BY <1>2, <1>3 DEF Held
<1>5. Standing(rows)
  BY <1>2, <1>4 DEF Standing, Succeeds, Trades
<1> QED BY <1>1, <1>5, SteadyStands DEF Init

LEMMA StandsUnchanged ==
  ASSUME setting' = setting, NEW R, rows' = R, Standing(R),
         releasePaused' \in BOOLEAN, shortsEnabled' \in BOOLEAN,
         setting \in [trouble: Troubles, partitioned: BOOLEAN]
  PROVE  SteadyIInv'
<1>1. Loose' <=> Loose
  BY DEF Loose
<1>2. TypeOK'
  BY DEF TypeOK, Standing
<1>3. \A s \in Strategy : Vouched(rows[s])'
  BY DEF Standing, Held, Vouched
<1>4. ASSUME setting.trouble # "paused_in_run", NEW s \in Strategy
      PROVE  Steady(rows[s])' /\ Succeeds(rows[s], rows)'
  <2>1. Steady(R[s]) /\ Succeeds(R[s], R)
    BY <1>4 DEF Standing, Held, Steadily
  <2>2. Steady(rows[s])'
    BY <1>1, <2>1 DEF Steady, Stands
  <2>3. Succeeds(rows[s], rows)'
    BY <1>1, <2>1 DEF Succeeds
  <2> QED BY <2>2, <2>3
<1> QED BY <1>2, <1>3, <1>4 DEF SteadyIInv, VouchedIInv

LEMMA NextStands ==
  ASSUME SteadyIInv, [Next]_vars
  PROVE  SteadyIInv'
<1>1. Standing(rows) /\ releasePaused \in BOOLEAN /\ shortsEnabled \in BOOLEAN
      /\ setting \in [trouble: Troubles, partitioned: BOOLEAN]
  BY SteadyStands
<1>2. CASE Next
  <2>1. /\ rows' \in [Strategy -> Row] /\ \A s \in Strategy : Advances(rows', s)
        /\ releasePaused' \in BOOLEAN /\ shortsEnabled' \in BOOLEAN
        /\ setting' = setting
    BY <1>2, StepAdvances
  <2>2. Standing(rows')
    BY <1>1, <2>1, AdvancesStands
  <2> QED BY <1>1, <2>1, <2>2, StandsUnchanged
<1>3. CASE UNCHANGED vars
  BY <1>1, <1>3, StandsUnchanged DEF vars
<1> QED BY <1>2, <1>3

(* Both copies of where a strategy stands agree in every state, but for what a *)
(* failing store leaves behind, as long as nobody is paused during a run.       *)
THEOREM LifecycleInvariant == Spec => []SteadyIInv
<1>1. Init => SteadyIInv
  BY InitStands
<1>2. SteadyIInv /\ [Next]_vars => SteadyIInv'
  BY NextStands
<1> QED BY <1>1, <1>2, PTL DEF Spec

(* Every strategy's record keeps its types, whatever goes wrong.               *)
THEOREM LifecycleTyped == Spec => []TypeOK
<1>1. SteadyIInv => TypeOK
  BY DEF SteadyIInv, VouchedIInv
<1> QED BY <1>1, LifecycleInvariant, PTL

(* Whoever is traded, or would be once resumed, was released after passing its *)
(* sealed holdout: applyIncubationDecision, applyHealthDecision and the          *)
(* operator's resume never trade another, failing stores and pauses included.   *)
THEOREM OnlyReleasedTrade == Spec => []TradesOnlyReleased
<1>1. SteadyIInv => TradesOnlyReleased
  BY DEF SteadyIInv, VouchedIInv, Vouched, TradesOnlyReleased, Late
<1> QED BY <1>1, LifecycleInvariant, PTL

(* With stores that answer and nobody paused during a run, a traded strategy's *)
(* lifecycle agrees with its label, its release row and monitor exist, and the  *)
(* champion it relieved is retired.                                             *)
THEOREM ReleasesAreWhole == Spec => []ReleaseIsWhole
<1>1. ASSUME SteadyIInv
      PROVE  ReleaseIsWhole
  <2> SUFFICES ASSUME Undisturbed, NEW s \in Strategy, rows[s].label \in Trading
               PROVE  LET r == rows[s] IN
                      /\ r.quality = IF r.label = "released" THEN "released_paper" ELSE r.label
                      /\ r.row
                      /\ r.status # "none"
                      /\ r.champion # Nobody => rows[r.champion].label = "retired"
    BY DEF ReleaseIsWhole
  <2> DEFINE r == rows[s]
  <2>1. Standing(rows) /\ Steadily /\ ~Loose
    BY <1>1, SteadyStands DEF Undisturbed, Steadily, Loose
  <2>2. Held(r) /\ Succeeds(r, rows)
    BY <2>1 DEF Standing
  <2>3. r.quality = Quality(r.label) /\ r.status = Quality(r.label) /\ r.row
    BY <2>1, <2>2, TradedRow
  <2>4. r.status # "none"
    BY <2>3 DEF Quality, Trading
  <2>5. r.champion # Nobody => rows[r.champion].label = "retired"
    BY <2>1, <2>2 DEF Succeeds
  <2> QED BY <2>3, <2>4, <2>5 DEF Quality
<1> QED BY <1>1, LifecycleInvariant, PTL

(* A quarantined release only leaves for retirement and nothing leaves          *)
(* retirement: applyHealthDecision, the championship and the operator's pause   *)
(* and resume find no way back, unless a strategy was paused during its run.    *)
THEOREM NoReturn == Spec => NoWayBack
<1>1. SteadyIInv /\ [Next]_vars =>
        [setting.trouble # "paused_in_run" => \A s \in Strategy :
           /\ rows[s].label = "retired" => rows'[s].label = "retired"
           /\ rows[s].label = "quarantined" =>
                rows'[s].label \in {"quarantined", "retired"}]_vars
  BY StepAdvances DEF Advances, OneWay, Steadily
<1> QED BY <1>1, LifecycleInvariant, PTL DEF Spec, NoWayBack
=============================================================================

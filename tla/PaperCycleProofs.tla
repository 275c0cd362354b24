---------------------------- MODULE PaperCycleProofs ----------------------------
(* The paper-trading cycle of PaperCycle, for any commands, positions, marks,  *)
(* bounds and number of overlapping requests.  What a cycle plans is still true *)
(* when it submits unless another request's order or cancellation met it since  *)
(* it read the account: overtaken.                                              *)
EXTENDS PaperCycle, FiniteSetTheorems, TLAPS

Request == [at: Steps, command: Command \union {NoIntent}, mem: Saved, plan: Plan]
Order == [delta: Int \ {0}, status: {"open", "cancelling", "canceled", "filled"}]

Closers == {"flatten", "kill"}

Book(os) ==
  /\ os \in [DOMAIN os -> Order]
  /\ DOMAIN os \subseteq Intent /\ IsFiniteSet(DOMAIN os)

\* A request's locals among themselves and with the orders that exist.
Requested(r, ids) ==
  /\ r.at # "idle" => r.command \in Command
  /\ r.at \in {"list", "cancel"} => Kind[r.command] \in {"kill", "cancel"}
  /\ r.at = "verify" => Kind[r.command] = "verify"
  /\ r.plan.intent # NoIntent => r.plan.intent.bucket = r.command
  /\ r.plan.delta # 0 => r.plan.intent \in Intent /\ r.plan.intent.bucket = r.command
  /\ r.plan.placed = "yes" => r.plan.intent \in ids
  /\ r.plan.fills \subseteq ids

TypedIInv ==
  /\ position \in Int
  /\ Book(orders)
  /\ phase \in {"open", "reduce_only", "flatten", "closed"}
  /\ disk \in Saved
  /\ status \in [Command -> {"none", "pending", "done"}]
  /\ blocks \in [Command -> BOOLEAN]
  /\ journal \in [Command -> Intent \union {NoIntent}]
  /\ \A c \in Command : journal[c] # NoIntent => journal[c].bucket = c
  /\ receipts \subseteq DOMAIN orders
  /\ req \in [Worker -> Request]
  /\ \A w \in Worker : Requested(req[w], DOMAIN orders)
  /\ trouble \in Seq(Troubles) /\ changes \in Nat
  /\ Len(trouble) + changes <= MaxEvents

-----------------------------------------------------------------------------
Stops == {"entries_paused", "execution_paused", "kill_switch"}
Ahead == {"persist", "clear", "submit"}
After == {"journal", "apply"}

\* What follows takes what it is about as arguments, so that a state and the
\* next one can be compared.
Status(os, s) == {o \in DOMAIN os : os[o].status \in s}
Open(os) == Status(os, {"open"})
Working(os) == Status(os, {"open", "cancelling"})
Executions(os) == Status(os, {"filled"})
Undisturbed(t) == Range(t) \intersect {"late", "torn"} = {}

\* The kill switch pauses execution as well.
Kept(m) == "kill_switch" \in m.controls => "execution_paused" \in m.controls

\* What a plan with an order says of the position it was made for; block is what
\* the command's actions say of new risk.
Frozen(r, block) ==
  LET p == r.plan IN
  /\ p.position = p.intent.current
  /\ p.delta = Leg(p.intent.current, p.intent.target)
  /\ block \/ r.mem.controls \intersect Stops # {} => Reduces(p.position, p.delta)

\* Before its submission all that is at work is to be cancelled, and a fill in
\* the meantime makes a cancellation fail.
Clearing(r, os, held, t) ==
  LET p == r.plan IN
  /\ Open(os) \subseteq p.cancels
  /\ r.at = "submit" => p.cancels = {}
  /\ Undisturbed(t) => held = p.position \/ ~ p.cancels \subseteq Working(os)

\* At most one order is open, and it is for the position there is.
Suited(os, held, t) ==
  /\ \A o, p \in Open(os) : o = p
  /\ Undisturbed(t) =>
       \A o \in Open(os) : held = o.current /\ os[o].delta = Leg(o.current, o.target)

\* What a set of orders makes of the position, given the orders: what they buy
\* and what they sell as functions, so that what holds of Units holds of both.
Units(d, S) == UNION {{o} \X (1..d[o]) : o \in S}
Buys(os)  == [o \in DOMAIN os |-> os[o].delta]
Sells(os) == [o \in DOMAIN os |-> -os[o].delta]
Net(os, S) == Cardinality(Units(Buys(os), S)) - Cardinality(Units(Sells(os), S))

\* What FillsCountOnce says, and that only what was executed was seen.
Squared(d, os, held) ==
  /\ d.unattributed \subseteq d.seen /\ d.seen \subseteq Executions(os)
  /\ held = d.attribution + Net(os, d.unattributed) + Net(os, Executions(os) \ d.seen)

\* A request at work: its copy, however old, counts every fill once, and its plan
\* clears the book for its order unless it was overtaken (is in out).
Sound(w, r, block, out, os, held, t) ==
  /\ Kept(r.mem) /\ Squared(r.mem, os, held)
  /\ r.plan.fills \subseteq Executions(os)
  /\ r.at \in Ahead =>
       /\ r.plan.delta # 0 => Frozen(r, block)
       /\ w \notin out /\ (r.plan.delta # 0 \/ r.plan.forced) => Clearing(r, os, held, t)

\* What a command's actions say is fixed before a request works on them.
Committed(st, c) == st[c] # "none" \/ Kind[c] = "kill"

CycleIInv ==
  /\ TypedIInv
  /\ ~crossed => Suited(orders, position, trouble)
  /\ Kept(disk)
  /\ Squared(disk, orders, position)
  /\ \A w \in Worker : req[w].at # "idle" =>
       /\ Committed(status, req[w].command)
       /\ Sound(w, req[w], blocks[req[w].command], overtaken, orders, position, trouble)

-----------------------------------------------------------------------------
(* The plan *)

LEMMA LegReduces ==
  ASSUME NEW held \in Int, NEW target \in Int, target # held,
         target = 0 \/ (held * target > 0 /\ Abs(target) < Abs(held))
  PROVE  Reduces(held, Leg(held, target)) /\ Leg(held, target) = target - held
<1>1. held * target >= 0
  OBVIOUS
<1>2. Leg(held, target) = target - held
  BY <1>1 DEF Leg
<1>3. held + (target - held) = target
  OBVIOUS
<1>4. Abs(target) < Abs(held)
  BY DEF Abs
<1> QED BY <1>2, <1>3, <1>4 DEF Reduces

LEMMA ReducedTarget ==
  ASSUME NEW held \in Int, NEW wanted \in Int, NEW block \in BOOLEAN
  PROVE  LET target == Reduced(held, wanted, block) IN
         /\ target \in Int
         /\ block /\ target # held =>
              target = 0 \/ (held * target > 0 /\ Abs(target) < Abs(held))
         /\ wanted = 0 => target = 0
<1>1. held * wanted \in Int
  OBVIOUS
<1>2. wanted = 0 => held * wanted = 0
  OBVIOUS
<1> QED BY <1>1, <1>2 DEF Reduced

\* What a cycle decides.
Decided(p, c, block, mem, held, live, filled) ==
  /\ p \in Plan
  /\ p.position = held /\ p.fills = filled /\ p.placed = "no"
  /\ p.intent # NoIntent => p.intent.bucket = c
  /\ p.delta # 0 => /\ p.intent \in Intent /\ p.intent.bucket = c
                    /\ p.intent.current = held
                    /\ p.delta = Leg(held, p.intent.target)
                    /\ held = 0 \/ mem.managed
  /\ p.delta # 0 \/ p.forced => live \subseteq p.cancels
  /\ (block \/ (Kept(mem) /\ mem.controls \intersect Stops # {})) /\ p.delta # 0
       => Reduces(held, p.delta)
  /\ Kind[c] \in Closers =>
       /\ p.forced
       /\ held = 0 => p.delta = 0
       /\ held # 0 => p.delta = -held \/ (p.delta = 0 /\ ~mem.managed)

LEMMA PlanMade ==
  ASSUME NEW c \in Command, NEW mem \in Saved, NEW held \in Int,
         NEW live \in SUBSET Intent, NEW filled \in SUBSET Intent,
         NEW desired \in Desired, NEW mark \in Marks, NEW condition \in Condition,
         blocks[c] \in BOOLEAN
  PROVE  Decided(PlanFor(c, mem, held, live, filled, desired, mark, condition),
                 c, blocks[c], mem, held, live, filled)
<1> DEFINE halted  == mem.halted \/ condition = "loss"
           stopped == \/ Kind[c] \in {"flatten", "kill"}
                      \/ mem.controls \intersect {"flatten_requested", "kill_switch"} # {}
                      \/ halted
                      \/ phase = "flatten"
           forced  == stopped \/ (mem.attribution # 0 /\ mem.attribution # held)
           wanted  == IF stopped THEN 0 ELSE desired
           block   == Blocked(c, mem, halted) \/ condition = "degraded"
           target  == Reduced(held, IF forced THEN 0 ELSE wanted, block)
           cancels == IF forced THEN live ELSE {}
           skipped == target = held \/ Suppressed(held, live \ cancels, mem.managed)
           leg     == Leg(held, target)
           shares  == IF wanted # 0 THEN <<"targets", wanted>>
                      ELSE IF mem.attribution # 0 THEN <<"held", mem.attribution>>
                      ELSE <<"none", 0>>
           value   == IF held = 0 THEN 0 ELSE mark
           made    == [bucket |-> c, target |-> target, current |-> held,
                       mark |-> value, allocations |-> shares]
           intent  == IF skipped THEN NoIntent ELSE made
           delta   == IF skipped \/ (condition = "refused" /\ ~Reduces(held, leg)) THEN 0 ELSE leg
           ready   == condition # "unready" /\ phase # "closed"
           p == PlanFor(c, mem, held, live, filled, desired, mark, condition)
<1>1. p = [intent |-> intent, delta |-> delta, forced |-> forced, halted |-> halted,
           ready |-> ready, position |-> held, cancels |-> cancels, fills |-> filled,
           placed |-> "no"]
  BY DEF PlanFor
<1>2. /\ halted \in BOOLEAN /\ stopped \in BOOLEAN /\ forced \in BOOLEAN /\ block \in BOOLEAN
      /\ ready \in BOOLEAN /\ skipped \in BOOLEAN
  BY DEF Saved, Blocked, Suppressed
<1>3. desired \in Int /\ mark \in Nat /\ mem.attribution \in Int
  BY CycleAssumption DEF Saved
<1>4. wanted \in Int /\ (IF forced THEN 0 ELSE wanted) \in Int
  BY <1>3
<1>5. shares \in Allocation /\ value \in Nat
  BY <1>3, <1>4 DEF Allocation
<1> HIDE DEF p
<1>6. cancels \in SUBSET Intent /\ (forced => cancels = live)
  OBVIOUS
<1>7. /\ target \in Int
      /\ block /\ target # held =>
           target = 0 \/ (held * target > 0 /\ Abs(target) < Abs(held))
      /\ forced => target = 0
  <2> DEFINE goal == IF forced THEN 0 ELSE wanted
  <2> HIDE DEF forced, wanted, block
  <2>1. goal \in Int /\ (forced => goal = 0)
    BY <1>4
  <2> HIDE DEF goal
  <2>2. target = Reduced(held, goal, block)
    BY DEF goal
  <2> QED BY <1>2, <2>1, <2>2, ReducedTarget
<1>8. leg \in Int
  BY <1>7 DEF Leg
<1>9. blocks[c] \/ (Kept(mem) /\ mem.controls \intersect Stops # {}) => block
  BY DEF Kept, Stops, Blocked
<1>10. ~skipped => target # held /\ live \subseteq cancels /\ (held = 0 \/ mem.managed)
  BY DEF Suppressed
<1>11. made \in Intent /\ made.bucket = c /\ made.current = held /\ made.target = target
  <2> HIDE DEF target, shares, value
  <2> QED BY <1>5, <1>7 DEF Intent
<1>12. Kind[c] \in Closers => forced
  BY DEF Closers
<1>13. /\ target # held /\ block => Reduces(held, leg)
       /\ target # held /\ target = 0 => Reduces(held, leg) /\ leg = -held
  <2> HIDE DEF target, block
  <2>1. target # held /\ target = 0 => Reduces(held, leg) /\ leg = target - held
    BY <1>7, LegReduces
  <2>2. target # held /\ block => Reduces(held, leg)
    BY <1>7, LegReduces
  <2> QED BY <2>1, <2>2
<1>14. skipped <=> target = held \/ ~(live \subseteq cancels) \/ (held # 0 /\ ~mem.managed)
  BY DEF Suppressed
<1> HIDE DEF halted, stopped, forced, wanted, block, target, cancels, leg, shares, value, made, ready, skipped
<1>15. /\ delta # 0 => ~skipped /\ delta = leg
       /\ delta \in Int
       /\ intent = IF skipped THEN NoIntent ELSE made
  BY <1>8
<1>16. intent \in Intent \union {NoIntent} /\ (intent # NoIntent => intent.bucket = c)
       /\ (delta # 0 => intent = made)
  BY <1>11, <1>15
<1>17. Kind[c] \in Closers =>
         /\ held = 0 => delta = 0
         /\ held # 0 => delta = -held \/ (delta = 0 /\ ~mem.managed)
  <2> SUFFICES ASSUME Kind[c] \in Closers
               PROVE  /\ held = 0 => delta = 0
                      /\ held # 0 => delta = -held \/ (delta = 0 /\ ~mem.managed)
    OBVIOUS
  <2>1. target = 0 /\ live \subseteq cancels
    BY <1>6, <1>7, <1>12
  <2>2. held = 0 => delta = 0
    BY <1>10, <1>15, <2>1
  <2>3. held # 0 /\ mem.managed => delta = -held
    BY <1>13, <1>14, <2>1
  <2>4. held # 0 /\ ~mem.managed => delta = 0
    BY <1>10, <1>15
  <2> QED BY <2>2, <2>3, <2>4
<1> HIDE DEF delta, intent
<1>18. p \in Plan
  BY <1>1, <1>2, <1>6, <1>15, <1>16 DEF Plan
<1>19. /\ p.position = held /\ p.fills = filled /\ p.placed = "no"
       /\ p.intent = intent /\ p.delta = delta /\ p.forced = forced /\ p.cancels = cancels
  BY <1>1
<1>20. (blocks[c] \/ (Kept(mem) /\ mem.controls \intersect Stops # {})) /\ delta # 0
         => Reduces(held, delta)
  BY <1>9, <1>10, <1>13, <1>15
<1>21. delta # 0 \/ forced => live \subseteq cancels
  BY <1>6, <1>10, <1>15
<1>22. delta # 0 => /\ intent \in Intent /\ intent.bucket = c /\ intent.current = held
                    /\ delta = Leg(held, intent.target) /\ (held = 0 \/ mem.managed)
  BY <1>10, <1>11, <1>15, <1>16 DEF leg
<1>23. Kind[c] \in Closers =>
         /\ p.forced
         /\ held = 0 => p.delta = 0
         /\ held # 0 => p.delta = -held \/ (p.delta = 0 /\ ~mem.managed)
  BY <1>12, <1>17, <1>19
<1>24. Decided(p, c, blocks[c], mem, held, live, filled)
  BY <1>16, <1>18, <1>19, <1>20, <1>21, <1>22, <1>23 DEF Decided
<1> QED BY <1>24 DEF p
-----------------------------------------------------------------------------
(* Sizes of sets of fills *)

LEMMA UnitsFinite ==
  ASSUME NEW S, IsFiniteSet(S), NEW d, \A o \in S : d[o] \in Int
  PROVE  IsFiniteSet(Units(d, S))
<1> DEFINE f == [o \in S |-> {o} \X (1..d[o])]
           T == {{o} \X (1..d[o]) : o \in S}
<1>1. f \in Surjection(S, T)
  BY DEF Surjection
<1>2. IsFiniteSet(T)
  BY <1>1, FS_Surjection
<1>3. \A U \in T : IsFiniteSet(U)
  <2> SUFFICES ASSUME NEW o \in S PROVE IsFiniteSet({o} \X (1..d[o]))
    OBVIOUS
  <2> DEFINE A == {o}
             B == 1..d[o]
  <2>0. 1 \in Int /\ d[o] \in Int
    OBVIOUS
  <2>1. IsFiniteSet(A) /\ IsFiniteSet(B)
    BY <2>0, FS_Singleton, FS_Interval
  <2> HIDE DEF A, B
  <2>2. IsFiniteSet(A \X B)
    BY <2>1, FS_Product
  <2> QED BY <2>2 DEF A, B
<1> QED BY <1>2, <1>3, FS_UNION DEF Units

LEMMA UnitsDisjoint ==
  ASSUME NEW S, NEW T, IsFiniteSet(S), IsFiniteSet(T), S \intersect T = {},
         NEW d, \A o \in S \union T : d[o] \in Int
  PROVE  Cardinality(Units(d, S \union T)) = Cardinality(Units(d, S)) + Cardinality(Units(d, T))
<1> DEFINE A == Units(d, S)
           B == Units(d, T)
<1>1. IsFiniteSet(A) /\ IsFiniteSet(B)
  BY UnitsFinite
<1>2. A \intersect B = {}
  <2>1. ASSUME NEW x \in A, NEW y \in B PROVE x # y
    <3>1. PICK o \in S : x \in {o} \X (1..d[o])
      BY DEF Units
    <3>2. PICK p \in T : y \in {p} \X (1..d[p])
      BY DEF Units
    <3>3. o # p
      OBVIOUS
    <3> QED BY <3>1, <3>2, <3>3
  <2> QED BY <2>1
<1>3. Units(d, S \union T) = A \union B
  BY DEF Units
<1>4. Cardinality(A \union B) = Cardinality(A) + Cardinality(B) - Cardinality(A \intersect B)
  BY <1>1, FS_Union
<1>5. Cardinality(A) \in Nat /\ Cardinality(B) \in Nat
  BY <1>1, FS_CardinalityType
<1>6. Cardinality(A \intersect B) = 0
  BY <1>2, FS_EmptySet, Zenon
<1> HIDE DEF A, B
<1>7. Cardinality(A \union B) = Cardinality(A) + Cardinality(B)
  BY <1>4, <1>5, <1>6
<1> QED BY <1>3, <1>7 DEF A, B

LEMMA UnitsOfOne ==
  ASSUME NEW o, NEW d, d[o] \in Int
  PROVE  Cardinality(Units(d, {o})) = IF d[o] > 0 THEN d[o] ELSE 0
<1>1. Units(d, {o}) = {o} \X (1..d[o])
  BY DEF Units
<1>2. IsFiniteSet({o}) /\ Cardinality({o}) = 1
  BY FS_Singleton
<1>3. /\ IsFiniteSet(1..d[o])
      /\ Cardinality(1..d[o]) = IF 1 > d[o] THEN 0 ELSE d[o] - 1 + 1
  BY FS_Interval
<1>4. Cardinality({o} \X (1..d[o])) = Cardinality({o}) * Cardinality(1..d[o])
  <2> DEFINE A == {o}
             B == 1..d[o]
  <2>1. IsFiniteSet(A) /\ IsFiniteSet(B)
    BY <1>2, <1>3
  <2> HIDE DEF A, B
  <2>2. Cardinality(A \X B) = Cardinality(A) * Cardinality(B)
    BY <2>1, FS_Product
  <2> QED BY <2>2 DEF A, B
<1>5. Cardinality(1..d[o]) = IF d[o] > 0 THEN d[o] ELSE 0
  BY <1>3
<1> DEFINE n == Cardinality(1..d[o])
<1>6. n \in Nat
  BY <1>5
<1> HIDE DEF n
<1>7. 1 * n = n
  BY <1>6
<1> QED BY <1>1, <1>2, <1>4, <1>5, <1>7 DEF n

LEMMA SizeIsNet ==
  ASSUME NEW S \in SUBSET DOMAIN orders
  PROVE  Size(S) = Net(orders, S)
<1>1. Bought(S) = Units(Buys(orders), S)
  BY DEF Bought, Units, Buys
<1>2. Sold(S) = Units(Sells(orders), S)
  BY DEF Sold, Units, Sells
<1> QED BY <1>1, <1>2 DEF Size, Net

LEMMA NetType ==
  ASSUME NEW os, NEW S \in SUBSET DOMAIN os, IsFiniteSet(S),
         \A o \in S : os[o].delta \in Int
  PROVE  Net(os, S) \in Int
<1>1. \A o \in S : Buys(os)[o] \in Int /\ Sells(os)[o] \in Int
  BY DEF Buys, Sells
<1>2. IsFiniteSet(Units(Buys(os), S)) /\ IsFiniteSet(Units(Sells(os), S))
  BY <1>1, UnitsFinite
<1>3. Cardinality(Units(Buys(os), S)) \in Nat /\ Cardinality(Units(Sells(os), S)) \in Nat
  BY <1>2, FS_CardinalityType
<1> QED BY <1>3 DEF Net

LEMMA NetDisjoint ==
  ASSUME NEW os, NEW S \in SUBSET DOMAIN os, NEW T \in SUBSET DOMAIN os,
         IsFiniteSet(S), IsFiniteSet(T), S \intersect T = {},
         \A o \in S \union T : os[o].delta \in Int
  PROVE  Net(os, S \union T) = Net(os, S) + Net(os, T)
<1>1. \A o \in S \union T : Buys(os)[o] \in Int /\ Sells(os)[o] \in Int
  BY DEF Buys, Sells
<1> DEFINE b(X) == Cardinality(Units(Buys(os), X))
           s(X) == Cardinality(Units(Sells(os), X))
<1>2. b(S \union T) = b(S) + b(T)
  BY <1>1, UnitsDisjoint
<1>3. s(S \union T) = s(S) + s(T)
  BY <1>1, UnitsDisjoint
<1>4. /\ IsFiniteSet(Units(Buys(os), S)) /\ IsFiniteSet(Units(Buys(os), T))
      /\ IsFiniteSet(Units(Sells(os), S)) /\ IsFiniteSet(Units(Sells(os), T))
  BY <1>1, UnitsFinite
<1>5. b(S) \in Nat /\ b(T) \in Nat /\ s(S) \in Nat /\ s(T) \in Nat
  BY <1>4, FS_CardinalityType
<1>6. \A X : Net(os, X) = b(X) - s(X)
  BY DEF Net
<1> HIDE DEF b, s
<1> QED BY <1>2, <1>3, <1>5, <1>6

LEMMA NetOfOne ==
  ASSUME NEW os, NEW o \in DOMAIN os, os[o].delta \in Int
  PROVE  Net(os, {o}) = os[o].delta
<1>1. Buys(os)[o] = os[o].delta /\ Sells(os)[o] = -os[o].delta
  BY DEF Buys, Sells
<1>2. Buys(os)[o] \in Int /\ Sells(os)[o] \in Int
  BY <1>1
<1>3. Cardinality(Units(Buys(os), {o})) = IF os[o].delta > 0 THEN os[o].delta ELSE 0
  BY <1>1, <1>2, UnitsOfOne
<1>4. Cardinality(Units(Sells(os), {o})) = IF -os[o].delta > 0 THEN -os[o].delta ELSE 0
  BY <1>1, <1>2, UnitsOfOne
<1> QED BY <1>3, <1>4 DEF Net

LEMMA NetOfNone == \A os : Net(os, {}) = 0
<1> TAKE os
<1>1. Units(Buys(os), {}) = {} /\ Units(Sells(os), {}) = {}
  BY DEF Units
<1>2. Cardinality({}) = 0
  BY FS_EmptySet
<1> QED BY <1>1, <1>2 DEF Net

\* An order keeps what it was placed for.
LEMMA NetKept ==
  ASSUME NEW os, NEW pt, NEW S, S \subseteq DOMAIN os, S \subseteq DOMAIN pt,
         \A o \in S : pt[o].delta = os[o].delta
  PROVE  Net(pt, S) = Net(os, S)
<1>1. /\ Units(Buys(pt), S) = Units(Buys(os), S)
      /\ Units(Sells(pt), S) = Units(Sells(os), S)
  BY DEF Units, Buys, Sells
<1> QED BY <1>1 DEF Net

-----------------------------------------------------------------------------
(* Types *)

LEMMA IdleIsRequest == Idle \in Request /\ Fresh \in Saved /\ \A ids : Requested(Idle, ids)
<1>1. Fresh \in Saved
  BY DEF Fresh, Saved
<1>2. NoPlan \in Plan
  BY DEF NoPlan, Plan
<1>3. Idle \in Request
  BY <1>1, <1>2 DEF Idle, Request, Steps
<1>4. \A ids : Requested(Idle, ids)
  BY DEF Requested, Idle, NoPlan
<1> QED BY <1>1, <1>3, <1>4

LEMMA RequestMoves ==
  ASSUME TypedIInv, NEW w \in Worker, NEW r \in Request,
         NEW ids, DOMAIN orders \subseteq ids, Requested(r, ids)
  PROVE  LET q == [req EXCEPT ![w] = r] IN
         q \in [Worker -> Request] /\ \A v \in Worker : Requested(q[v], ids)
<1> DEFINE q == [req EXCEPT ![w] = r]
<1>1. req \in [Worker -> Request] /\ \A v \in Worker : Requested(req[v], DOMAIN orders)
  BY DEF TypedIInv
<1>2. q \in [Worker -> Request]
  BY <1>1
<1>3. ASSUME NEW v \in Worker PROVE Requested(q[v], ids)
  <2>1. Requested(req[v], ids)
    BY <1>1 DEF Requested
  <2>2. q[v] = r \/ q[v] = req[v]
    BY <1>1
  <2> HIDE DEF q
  <2> QED BY <2>1, <2>2
<1> QED BY <1>2, <1>3

\* A step of a request that leaves its plan alone.
LEMMA GotoTyped ==
  ASSUME TypedIInv, NEW w \in Worker, NEW step \in Steps, Goto(w, step),
         req[w].at # "idle", step \notin {"list", "cancel", "verify"}
  PROVE  /\ req' \in [Worker -> Request]
         /\ \A v \in Worker : Requested(req'[v], DOMAIN orders)
         /\ req' = [req EXCEPT ![w] = [req[w] EXCEPT !.at = step]]
<1> DEFINE r == [req[w] EXCEPT !.at = step]
<1>1. req[w] \in Request /\ Requested(req[w], DOMAIN orders)
  BY DEF TypedIInv
<1>2. r \in Request
  BY <1>1 DEF Request
<1>3. Requested(r, DOMAIN orders)
  BY <1>1 DEF Requested, Request
<1>4. req' = [req EXCEPT ![w] = r]
  BY DEF Goto, TypedIInv
<1> HIDE DEF r
<1>5. /\ req' \in [Worker -> Request]
      /\ \A v \in Worker : Requested(req'[v], DOMAIN orders)
  BY <1>2, <1>3, <1>4, RequestMoves
<1> QED BY <1>4, <1>5 DEF r

LEMMA LeaveTyped ==
  ASSUME TypedIInv, NEW w \in Worker, req[w].at # "idle", NEW mem \in Saved,
         NEW outcome \in {"pending", "done"}, Leave(w, mem, outcome)
  PROVE  /\ disk' \in Saved
         /\ status' \in [Command -> {"none", "pending", "done"}]
         /\ req' \in [Worker -> Request]
         /\ \A v \in Worker : Requested(req'[v], DOMAIN orders)
<1>1. req' = [req EXCEPT ![w] = Idle] /\ disk' = mem
      /\ status' = [status EXCEPT ![req[w].command] = outcome]
  BY DEF Leave
<1>2. /\ req' \in [Worker -> Request]
      /\ \A v \in Worker : Requested(req'[v], DOMAIN orders)
  BY <1>1, IdleIsRequest, RequestMoves
<1>3. status' \in [Command -> {"none", "pending", "done"}]
  BY <1>1 DEF TypedIInv
<1> QED BY <1>1, <1>2, <1>3

LEMMA OrderChanges ==
  ASSUME Book(orders), NEW o \in DOMAIN orders,
         NEW s \in {"open", "cancelling", "canceled", "filled"},
         NEW os, os = [orders EXCEPT ![o].status = s]
  PROVE  /\ Book(os) /\ DOMAIN os = DOMAIN orders
         /\ \A p \in DOMAIN orders :
              /\ os[p].delta = orders[p].delta
              /\ os[p].status = IF p = o THEN s ELSE orders[p].status
<1>1. DOMAIN os = DOMAIN orders
  OBVIOUS
<1>2. \A p \in DOMAIN orders :
        /\ os[p] \in Order
        /\ os[p].delta = orders[p].delta
        /\ os[p].status = IF p = o THEN s ELSE orders[p].status
  BY DEF Book, Order
<1>3. os \in [DOMAIN os -> Order]
  BY <1>1, <1>2
<1> QED BY <1>1, <1>2, <1>3 DEF Book

LEMMA ExecutedOrder ==
  ASSUME Book(orders), NEW o \in DOMAIN orders, Executed(o)
  PROVE  /\ Book(orders') /\ DOMAIN orders' = DOMAIN orders
         /\ \A p \in DOMAIN orders :
              /\ orders'[p].delta = orders[p].delta
              /\ orders'[p].status = IF p = o THEN "filled" ELSE orders[p].status
<1>1. orders' = [orders EXCEPT ![o].status = "filled"]
  BY DEF Executed
<1>2. DOMAIN orders' = DOMAIN orders
  BY <1>1
<1>3. \A p \in DOMAIN orders :
        /\ orders'[p] \in Order
        /\ orders'[p].delta = orders[p].delta
        /\ orders'[p].status = IF p = o THEN "filled" ELSE orders[p].status
  BY <1>1 DEF Book, Order
<1>4. orders' \in [DOMAIN orders' -> Order]
  BY <1>1, <1>2, <1>3
<1> QED BY <1>2, <1>3, <1>4 DEF Book

LEMMA PostedBook ==
  ASSUME TypedIInv, NEW w \in Worker, Placing(w), Posted(w)
  PROVE  /\ Book(orders') /\ DOMAIN orders' = DOMAIN orders \union {req[w].plan.intent}
         /\ \A o \in DOMAIN orders : orders'[o] = orders[o]
         /\ req[w].plan.intent \notin DOMAIN orders =>
              orders'[req[w].plan.intent] = [delta |-> req[w].plan.delta, status |-> "open"]
<1> DEFINE i == req[w].plan.intent
           d == req[w].plan.delta
           new == [delta |-> d, status |-> "open"]
<1>1. req[w] \in Request /\ Requested(req[w], DOMAIN orders) /\ Book(orders)
  BY DEF TypedIInv
<1>2. i \in Intent /\ d \in Int \ {0}
  BY <1>1 DEF Placing, Request, Plan, Requested
<1>3. orders' = [o \in DOMAIN orders \union {i} |->
                   IF o \in DOMAIN orders THEN orders[o] ELSE new]
  BY DEF Posted
<1>4. new \in Order
  BY <1>2 DEF Order
<1> HIDE DEF new, i, d
<1>5. DOMAIN orders' = DOMAIN orders \union {i}
  BY <1>3
<1>6. \A o \in DOMAIN orders : orders'[o] = orders[o]
  BY <1>3
<1>7. i \notin DOMAIN orders => orders'[i] = new
  BY <1>3
<1>8. orders' \in [DOMAIN orders' -> Order]
  BY <1>1, <1>3, <1>4, <1>5 DEF Book
<1>9. IsFiniteSet(DOMAIN orders')
  BY <1>1, <1>5, FS_AddElement DEF Book
<1>10. Book(orders')
  BY <1>1, <1>2, <1>5, <1>8, <1>9 DEF Book
<1> QED BY <1>5, <1>6, <1>7, <1>10 DEF i, new, d

LEMMA AppliedTyped ==
  ASSUME TypedIInv, NEW w \in Worker, req[w].at # "idle"
  PROVE  Applied(w) \in Saved
<1> DEFINE p == req[w].plan
           m == req[w].mem
           placed == IF p.placed = "yes" THEN {p.intent} ELSE {}
           A == Attributable(w)
<1>1. req[w] \in Request /\ Requested(req[w], DOMAIN orders) /\ Book(orders)
      /\ receipts \subseteq DOMAIN orders
  BY DEF TypedIInv
<1>2. p \in Plan /\ m \in Saved /\ req[w].command \in Command
  BY <1>1 DEF Request, Requested
<1>3. placed \in SUBSET Intent
  BY <1>1 DEF Requested, Book
<1>4. p.fills \in SUBSET DOMAIN orders /\ NewFills(w) \in SUBSET p.fills
  BY <1>1 DEF Requested, NewFills
<1>5. A \in SUBSET DOMAIN orders
  BY <1>4 DEF Attributable
<1>6. Size(A) \in Int
  <2>1. IsFiniteSet(A)
    BY <1>1, <1>5, FS_Subset DEF Book
  <2>2. \A o \in A : orders[o].delta \in Int
    BY <1>1, <1>5 DEF Book, Order
  <2> HIDE DEF A
  <2>3. Net(orders, A) \in Int
    BY <1>5, <2>1, <2>2, NetType
  <2> QED BY <1>5, <2>3, SizeIsNet
<1> DEFINE saved ==
      [controls |-> IF p.forced /\ p.position = 0
                    THEN m.controls \ {"flatten_requested"} ELSE m.controls,
       halted |-> p.halted,
       managed |-> m.managed \/ placed # {},
       known |-> m.known \union placed,
       attribution |-> m.attribution + Size(A),
       seen |-> m.seen \union p.fills,
       unattributed |-> m.unattributed \union (NewFills(w) \ A),
       lastBucket |-> req[w].command]
<1>7. Applied(w) = IF m.lastBucket = req[w].command THEN m ELSE saved
  BY DEF Applied
<1>8. p.fills \in SUBSET Intent
  BY <1>1, <1>4 DEF Book
<1> HIDE DEF placed, A
<1>9. saved \in Saved
  BY <1>2, <1>3, <1>4, <1>6, <1>8 DEF Saved, Plan
<1> QED BY <1>2, <1>7, <1>9

LEMMA FaultTyped ==
  ASSUME TypedIInv, NEW kind, Fault(kind)
  PROVE  /\ trouble' \in Seq(Troubles) /\ Len(trouble') + changes <= MaxEvents
         /\ Range(trouble') = Range(trouble) \union {kind}
<1>1. trouble \in Seq(Troubles) /\ changes \in Nat /\ kind \in Troubles /\ MaxEvents \in Nat
      /\ Len(trouble) + changes < MaxEvents /\ trouble' = Append(trouble, kind)
  BY CycleAssumption DEF TypedIInv, Fault, Eventful
<1>2. trouble' \in Seq(Troubles) /\ Len(trouble') = Len(trouble) + 1 /\ Len(trouble) \in Nat
  BY <1>1
<1>3. Len(trouble') + changes <= MaxEvents
  BY <1>1, <1>2
<1>4. /\ \A i \in 1..Len(trouble) : trouble'[i] = trouble[i]
      /\ trouble'[Len(trouble) + 1] = kind
      /\ DOMAIN trouble' = 1..Len(trouble) + 1 /\ DOMAIN trouble = 1..Len(trouble)
  BY <1>1, <1>2
<1>5. Range(trouble') \subseteq Range(trouble) \union {kind}
  BY <1>2, <1>4 DEF Range
<1>6. Range(trouble) \union {kind} \subseteq Range(trouble')
  BY <1>2, <1>4 DEF Range
<1> QED BY <1>2, <1>3, <1>5, <1>6

\* A cycle's reading: its request holds the plan made of what was read.
LEMMA FreezeTyped ==
  ASSUME TypedIInv, NEW w \in Worker, req[w].at = "read",
         NEW live \in SUBSET DOMAIN orders, NEW filled \in SUBSET DOMAIN orders,
         Freeze(w, position, live, filled),
         trouble' \in Seq(Troubles), Len(trouble') + changes <= MaxEvents
  PROVE  /\ changes' \in Nat /\ Len(trouble') + changes' <= MaxEvents
         /\ req' \in [Worker -> Request]
         /\ \A v \in Worker : Requested(req'[v], DOMAIN orders)
         /\ \E p \in Plan :
              /\ Decided(p, req[w].command, blocks[req[w].command], req[w].mem, position,
                         live, filled)
              /\ req' = [req EXCEPT ![w] = [req[w] EXCEPT !.at = "persist", !.plan = p]]
<1>1. req[w] \in Request /\ Requested(req[w], DOMAIN orders) /\ Book(orders)
      /\ position \in Int /\ req \in [Worker -> Request] /\ changes \in Nat
      /\ blocks \in [Command -> BOOLEAN]
  BY DEF TypedIInv
<1>2. PICK desired \in Desired, mark \in Marks, condition \in Condition :
        /\ condition # "fine" => Len(trouble') + changes < MaxEvents
        /\ changes' = IF condition = "fine" THEN changes ELSE changes + 1
        /\ req' = [req EXCEPT ![w].at = "persist",
             ![w].plan = PlanFor(req[w].command, req[w].mem, position, live, filled,
                                 desired, mark, condition)]
  BY DEF Freeze
<1> DEFINE p == PlanFor(req[w].command, req[w].mem, position, live, filled,
                        desired, mark, condition)
           r == [req[w] EXCEPT !.at = "persist", !.plan = p]
<1>3. req[w].command \in Command /\ req[w].mem \in Saved
  BY <1>1 DEF Request, Requested
<1>4. live \in SUBSET Intent /\ filled \in SUBSET Intent
  BY <1>1 DEF Book
<1>5. Decided(p, req[w].command, blocks[req[w].command], req[w].mem, position, live, filled)
  <2> DEFINE c == req[w].command
             mem == req[w].mem
  <2>1. c \in Command /\ mem \in Saved /\ position \in Int /\ blocks[c] \in BOOLEAN
    BY <1>1, <1>3
  <2> HIDE DEF c, mem
  <2>2. Decided(PlanFor(c, mem, position, live, filled, desired, mark, condition),
                c, blocks[c], mem, position, live, filled)
    BY <1>2, <1>4, <2>1, PlanMade
  <2> QED BY <2>2 DEF c, mem
<1>6. req' = [req EXCEPT ![w].at = "persist", ![w].plan = p]
  BY <1>2
<1> HIDE DEF p
<1>7. req' = [req EXCEPT ![w] = r]
  BY <1>1, <1>6 DEF Request
<1>8. p \in Plan
  BY <1>5 DEF Decided
<1>9. r \in Request /\ r.at = "persist" /\ r.command = req[w].command /\ r.plan = p
  BY <1>1, <1>8 DEF Request, Steps
<1>12. Requested(r, DOMAIN orders)
  BY <1>3, <1>5, <1>9 DEF Requested, Decided
<1> HIDE DEF r
<1>10. /\ req' \in [Worker -> Request]
       /\ \A v \in Worker : Requested(req'[v], DOMAIN orders)
  BY <1>7, <1>9, <1>12, RequestMoves
<1>11. changes' \in Nat /\ Len(trouble') + changes' <= MaxEvents
  <2>1. Len(trouble') \in Nat /\ MaxEvents \in Nat
    BY CycleAssumption
  <2> QED BY <1>1, <1>2, <2>1
<1> QED BY <1>5, <1>7, <1>8, <1>10, <1>11 DEF r

LEMMA TypedInit == Init => TypedIInv
<1> SUFFICES ASSUME Init PROVE TypedIInv
  OBVIOUS
<1>1. Book(orders) /\ DOMAIN orders = {}
  BY FS_EmptySet DEF Init, Book
<1>2. disk \in Saved
  BY IdleIsRequest DEF Init, Saved, Controls
<1>3. req \in [Worker -> Request] /\ \A w \in Worker : Requested(req[w], DOMAIN orders)
  BY IdleIsRequest DEF Init
<1>4. trouble \in Seq(Troubles) /\ changes \in Nat /\ Len(trouble) + changes <= MaxEvents
  BY CycleAssumption DEF Init
<1> QED BY <1>1, <1>2, <1>3, <1>4 DEF Init, TypedIInv

\* What a step must show of the types it may disturb.
LEMMA TypedCommands ==
  ASSUME TypedIInv,
         (\E c \in Command : Schedule(c)) \/ Operate
  PROVE  TypedIInv'
<1>1. ASSUME NEW c \in Command, Schedule(c) PROVE TypedIInv'
  <2>1. status' \in [Command -> {"none", "pending", "done"}]
    BY <1>1 DEF TypedIInv, Schedule
  <2>2. blocks' \in [Command -> BOOLEAN]
    BY <1>1 DEF TypedIInv, Schedule
  <2>3. disk' \in Saved
    BY <1>1 DEF TypedIInv, Schedule, Saved, Controls
  <2> QED BY <1>1, <2>1, <2>2, <2>3 DEF TypedIInv, Schedule, broker, ledger
<1>2. ASSUME NEW controls \in SUBSET Controls, Set(controls) PROVE TypedIInv'
  <2>1. disk' \in Saved
    BY <1>2 DEF TypedIInv, Set, Saved
  <2>2. changes' \in Nat /\ Len(trouble) + changes' <= MaxEvents
    BY <1>2, CycleAssumption DEF TypedIInv, Set, Eventful
  <2> QED BY <1>2, <2>1, <2>2 DEF TypedIInv, Set, broker, ledger
<1>3. Operate => \E controls \in SUBSET Controls : Set(controls)
  <2>1. disk.controls \in SUBSET Controls
    BY DEF TypedIInv, Saved
  <2> QED BY <2>1 DEF Operate, StopEntries, PauseExecution, ResumeExecution, ClearKill,
                     PauseAutonomy, ResumeAutonomy, Controls
<1> QED BY <1>1, <1>2, <1>3

LEMMA TypedBroker ==
  ASSUME TypedIInv, Broker \/ Restart
  PROVE  TypedIInv'
<1>1. ASSUME TimePasses PROVE TypedIInv'
  <2>1. Book(orders') /\ DOMAIN orders' = DOMAIN orders
    <3>1. CASE phase' # "closed"
      BY <1>1, <3>1 DEF TimePasses, TypedIInv
    <3>2. CASE phase' = "closed"
      <4>1. orders' = [o \in DOMAIN orders |-> IF o \in Live
                         THEN [orders[o] EXCEPT !.status = "canceled"] ELSE orders[o]]
        BY <1>1, <3>2 DEF TimePasses
      <4>2. DOMAIN orders' = DOMAIN orders
        BY <4>1
      <4>3. \A o \in DOMAIN orders : orders'[o] \in Order
        BY <4>1 DEF TypedIInv, Book, Order
      <4>4. orders' \in [DOMAIN orders' -> Order]
        BY <4>1, <4>2, <4>3
      <4> QED BY <4>2, <4>4 DEF TypedIInv, Book
    <3> QED BY <3>1, <3>2
  <2>2. phase' \in {"open", "reduce_only", "flatten", "closed"}
    BY <1>1 DEF TimePasses
  <2> QED BY <1>1, <2>1, <2>2 DEF TypedIInv, TimePasses, ledger
<1>2. ASSUME NEW o \in DOMAIN orders, Executed(o) PROVE position' \in Int
  BY <1>2 DEF TypedIInv, Executed, Book, Order
<1>3. ASSUME NEW o \in DOMAIN orders, Fill(o) PROVE TypedIInv'
  <2>1. Book(orders') /\ DOMAIN orders' = DOMAIN orders
    BY <1>3, ExecutedOrder DEF TypedIInv, Fill
  <2>2. position' \in Int
    BY <1>2, <1>3 DEF Fill
  <2> QED BY <1>3, <2>1, <2>2 DEF TypedIInv, Fill, ledger
<1>4. ASSUME NEW o \in DOMAIN orders, FillLate(o) PROVE TypedIInv'
  <2>1. Book(orders') /\ DOMAIN orders' = DOMAIN orders
    BY <1>4, ExecutedOrder DEF TypedIInv, FillLate
  <2>2. position' \in Int
    BY <1>2, <1>4 DEF FillLate
  <2>3. trouble' \in Seq(Troubles) /\ Len(trouble') + changes <= MaxEvents
    BY <1>4, FaultTyped DEF FillLate
  <2> QED BY <1>4, <2>1, <2>2, <2>3 DEF TypedIInv, FillLate, ledger
<1>5. ASSUME NEW o \in DOMAIN orders, CancelTakesEffect(o) PROVE TypedIInv'
  <2>1. Book(orders') /\ DOMAIN orders' = DOMAIN orders
    BY <1>5, OrderChanges DEF TypedIInv, CancelTakesEffect
  <2> QED BY <1>5, <2>1 DEF TypedIInv, CancelTakesEffect, ledger
<1>6. ASSUME Restart PROVE TypedIInv'
  <2>1. trouble' \in Seq(Troubles) /\ Len(trouble') + changes <= MaxEvents
    BY <1>6, FaultTyped DEF Restart
  <2>2. req' \in [Worker -> Request] /\ \A w \in Worker : Requested(req'[w], DOMAIN orders)
    BY <1>6, IdleIsRequest DEF Restart
  <2> QED BY <1>6, <2>1, <2>2 DEF TypedIInv, Restart, broker, ledger
<1> QED BY <1>1, <1>3, <1>4, <1>5, <1>6 DEF Broker

LEMMA TypedReading ==
  ASSUME TypedIInv, NEW w \in Worker, Read(w) \/ ReadTorn(w)
  PROVE  TypedIInv'
<1>1. Live \in SUBSET DOMAIN orders /\ Filled \in SUBSET DOMAIN orders
  BY DEF Live, Filled, With
<1>2. ASSUME Read(w) PROVE TypedIInv'
  <2>1. trouble' = trouble /\ trouble' \in Seq(Troubles) /\ Len(trouble') + changes <= MaxEvents
    BY <1>2 DEF TypedIInv, Read
  <2>2. /\ changes' \in Nat /\ Len(trouble') + changes' <= MaxEvents
        /\ req' \in [Worker -> Request]
        /\ \A v \in Worker : Requested(req'[v], DOMAIN orders)
    BY <1>1, <1>2, <2>1, FreezeTyped DEF Read
  <2> QED BY <1>2, <2>1, <2>2 DEF TypedIInv, Read, broker, ledger
<1>3. ASSUME ReadTorn(w) PROVE TypedIInv'
  <2>1. trouble' \in Seq(Troubles) /\ Len(trouble') + changes <= MaxEvents
    BY <1>3, FaultTyped DEF ReadTorn
  <2>2. PICK o \in With({"open"}) :
          /\ Executed(o)
          /\ \E filled \in {Filled, Filled \union {o}} :
               Freeze(w, position, Live \ {o}, filled)
    BY <1>3 DEF ReadTorn
  <2>3. PICK filled \in {Filled, Filled \union {o}} : Freeze(w, position, Live \ {o}, filled)
    BY <2>2
  <2>4. o \in DOMAIN orders /\ Live \ {o} \in SUBSET DOMAIN orders
        /\ filled \in SUBSET DOMAIN orders
    BY <1>1, <2>2, <2>3 DEF With
  <2>5. /\ changes' \in Nat /\ Len(trouble') + changes' <= MaxEvents
        /\ req' \in [Worker -> Request]
        /\ \A v \in Worker : Requested(req'[v], DOMAIN orders)
    BY <1>3, <2>1, <2>3, <2>4, FreezeTyped DEF ReadTorn
  <2>6. Book(orders') /\ DOMAIN orders' = DOMAIN orders
    BY <2>2, <2>4, ExecutedOrder DEF TypedIInv
  <2>7. position' \in Int
    BY <2>2, <2>4 DEF TypedIInv, Executed, Book, Order
  <2> QED BY <1>3, <2>1, <2>5, <2>6, <2>7 DEF TypedIInv, ReadTorn, ledger
<1> QED BY <1>2, <1>3

\* Steps that end a request.
LEMMA TypedLeaving ==
  ASSUME TypedIInv, NEW w \in Worker, req[w].at # "idle",
         NEW mem \in Saved, NEW outcome \in {"pending", "done"}, Leave(w, mem, outcome),
         UNCHANGED <<broker, ledger, blocks, changes>>,
         trouble' \in Seq(Troubles), Len(trouble') + changes <= MaxEvents
  PROVE  TypedIInv'
<1>1. /\ disk' \in Saved
      /\ status' \in [Command -> {"none", "pending", "done"}]
      /\ req' \in [Worker -> Request]
      /\ \A v \in Worker : Requested(req'[v], DOMAIN orders)
  BY LeaveTyped
<1> QED BY <1>1 DEF TypedIInv, broker, ledger

LEMMA TypedEnding ==
  ASSUME TypedIInv, NEW w \in Worker,
         \/ PersistConflicts(w) \/ CancelRefused(w) \/ Apply(w) \/ Verify(w) \/ Fails(w)
         \/ Cancelled(w) /\ Kind[req[w].command] # "kill"
  PROVE  TypedIInv'
<1> DEFINE trace == trouble' \in Seq(Troubles) /\ Len(trouble') + changes <= MaxEvents
<1>1. req[w] \in Request /\ Requested(req[w], DOMAIN orders) /\ req[w].mem \in Saved
  BY DEF TypedIInv, Request
<1>2. UNCHANGED trouble => trace
  BY DEF TypedIInv
<1>3. req[w].at # "idle" => Applied(w) \in Saved
  BY AppliedTyped
<1> DEFINE verified == [req[w].mem EXCEPT !.controls = @ \ {"flatten_requested"}]
<1>4. verified \in Saved
  BY <1>1 DEF Saved
<1> HIDE DEF trace, verified
<1>5. CASE PersistConflicts(w)
  <2>1. /\ req[w].at # "idle" /\ Leave(w, req[w].mem, "pending")
        /\ UNCHANGED <<broker, ledger, blocks, trouble, changes>>
    BY <1>5 DEF PersistConflicts, Throw
  <2> QED BY <1>1, <1>2, <2>1, TypedLeaving DEF trace
<1>6. CASE CancelRefused(w)
  <2>1. /\ req[w].at # "idle" /\ Leave(w, req[w].mem, "pending")
        /\ UNCHANGED <<broker, ledger, blocks, trouble, changes>>
    BY <1>6 DEF CancelRefused, Throw
  <2> QED BY <1>1, <1>2, <2>1, TypedLeaving DEF trace
<1>7. CASE Apply(w)
  <2>1. PICK outcome \in {"pending", "done"} :
          /\ req[w].at # "idle" /\ Leave(w, Applied(w), outcome)
          /\ UNCHANGED <<broker, ledger, blocks, trouble, changes>>
    BY <1>7 DEF Apply
  <2> QED BY <1>2, <1>3, <2>1, TypedLeaving DEF trace
<1>8. CASE Verify(w)
  <2>1. PICK mem \in {req[w].mem, verified} :
          /\ req[w].at # "idle" /\ Leave(w, mem, "done")
          /\ UNCHANGED <<broker, ledger, blocks, trouble, changes>>
    BY <1>8 DEF Verify, verified
  <2>2. mem \in Saved
    BY <1>1, <1>4, <2>1
  <2> QED BY <1>2, <2>1, <2>2, TypedLeaving DEF trace
<1>9. CASE Fails(w)
  <2>1. /\ trouble' \in Seq(Troubles) /\ Len(trouble') + changes <= MaxEvents
    BY <1>9, FaultTyped DEF Fails
  <2>2. PICK mem \in {req[w].mem, Applied(w)} :
          /\ req[w].at # "idle" /\ Leave(w, mem, "pending")
          /\ UNCHANGED <<broker, ledger, blocks, changes>>
    BY <1>9 DEF Fails, Throw
  <2>3. mem \in Saved
    BY <1>1, <1>3, <2>2
  <2> QED BY <2>1, <2>2, <2>3, TypedLeaving
<1>10. CASE Cancelled(w) /\ Kind[req[w].command] # "kill"
  <2>1. /\ req[w].at # "idle" /\ Leave(w, req[w].mem, "done")
        /\ UNCHANGED <<broker, ledger, blocks, trouble, changes>>
    BY <1>10 DEF Cancelled
  <2> QED BY <1>1, <1>2, <2>1, TypedLeaving DEF trace
<1> QED BY <1>5, <1>6, <1>7, <1>8, <1>9, <1>10

\* Steps that end no request.
LEMMA BeginTyped ==
  ASSUME TypedIInv, NEW w \in Worker, NEW c \in Command, Begin(w, c)
  PROVE  TypedIInv'
<1> DEFINE mem == IF Kind[c] = "kill" /\ status[c] = "none"
                  THEN [disk EXCEPT !.controls = @ \union {"kill_switch",
                          "execution_paused", "entries_paused", "flatten_requested"}]
                  ELSE disk
           r == [at |-> FirstStep(c), command |-> c, mem |-> mem, plan |-> NoPlan]
<1>1. disk \in Saved
  BY DEF TypedIInv
<1>2. mem \in Saved
  BY <1>1 DEF Saved, Controls
<1>3. req' = [req EXCEPT ![w] = r]
  BY DEF Begin
<1> HIDE DEF mem
<1>4. /\ FirstStep(c) \in {"list", "verify", "read"}
      /\ FirstStep(c) = "list" => Kind[c] \in {"kill", "cancel"}
      /\ FirstStep(c) = "verify" => Kind[c] = "verify"
  BY DEF FirstStep
<1>5. NoPlan \in Plan
  BY DEF NoPlan, Plan
<1>6. r \in Request
  BY <1>2, <1>4, <1>5 DEF Request, Steps
<1>7. Requested(r, DOMAIN orders)
  BY <1>4 DEF Requested, NoPlan
<1> HIDE DEF r
<1>8. /\ req' \in [Worker -> Request]
      /\ \A v \in Worker : Requested(req'[v], DOMAIN orders)
  BY <1>3, <1>6, <1>7, RequestMoves
<1> QED BY <1>8 DEF TypedIInv, Begin, broker, ledger

LEMMA CancellingTyped ==
  ASSUME TypedIInv, NEW w \in Worker, List(w) \/ CancelOne(w)
  PROVE  TypedIInv'
<1>1. req[w] \in Request /\ Requested(req[w], DOMAIN orders) /\ Book(orders)
      /\ req \in [Worker -> Request]
  BY DEF TypedIInv
<1>2. ASSUME NEW step \in Steps, NEW L \in SUBSET Intent,
             step \in {req[w].at, "cancel"}, req[w].at \in {"list", "cancel", "clear"},
             step = "cancel" => req[w].at \in {"list", "cancel"},
             req' = [req EXCEPT ![w] = [req[w] EXCEPT !.at = step,
                                          !.plan = [req[w].plan EXCEPT !.cancels = L]]]
      PROVE  /\ req' \in [Worker -> Request]
             /\ \A v \in Worker : Requested(req'[v], DOMAIN orders)
  <2> DEFINE r == [req[w] EXCEPT !.at = step, !.plan = [req[w].plan EXCEPT !.cancels = L]]
  <2>1. r \in Request
    BY <1>1 DEF Request, Plan
  <2>2. /\ r.at = step /\ r.command = req[w].command /\ r.plan.intent = req[w].plan.intent
        /\ r.plan.delta = req[w].plan.delta /\ r.plan.placed = req[w].plan.placed
        /\ r.plan.fills = req[w].plan.fills
    BY <1>1 DEF Request, Plan
  <2> HIDE DEF r
  <2>3. Requested(r, DOMAIN orders)
    BY <1>1, <1>2, <2>2 DEF Requested
  <2> QED BY <1>2, <2>1, <2>3, RequestMoves DEF r
<1>3. CASE List(w)
  <2>1. Live \in SUBSET Intent
    BY <1>1 DEF Live, With, Book
  <2>2. req' = [req EXCEPT ![w].at = "cancel", ![w].plan.cancels = Live]
    BY <1>3 DEF List
  <2> DEFINE L == Live
  <2> HIDE DEF L
  <2>3. req' = [req EXCEPT ![w] = [req[w] EXCEPT !.at = "cancel",
                                     !.plan = [req[w].plan EXCEPT !.cancels = L]]]
    BY <1>1, <2>2 DEF L, Request, Plan
  <2>4. L \in SUBSET Intent /\ req[w].at = "list" /\ "cancel" \in Steps
    BY <1>3, <2>1 DEF L, List, Steps
  <2>5. /\ req' \in [Worker -> Request]
        /\ \A v \in Worker : Requested(req'[v], DOMAIN orders)
    BY <1>2, <2>3, <2>4
  <2> QED BY <1>3, <2>5 DEF TypedIInv, List, broker, ledger
<1>4. CASE CancelOne(w)
  <2>1. PICK o \in req[w].plan.cancels :
          /\ o \in Live
          /\ orders' = [orders EXCEPT ![o].status = "cancelling"]
          /\ req' = [req EXCEPT ![w].plan.cancels = @ \ {o}]
    BY <1>4 DEF CancelOne
  <2> DEFINE L == req[w].plan.cancels \ {o}
  <2>2. L \in SUBSET Intent
    BY <1>1 DEF Request, Plan
  <2>3. req' = [req EXCEPT ![w] = [req[w] EXCEPT !.at = req[w].at,
                                     !.plan = [req[w].plan EXCEPT !.cancels = L]]]
    BY <1>1, <2>1 DEF Request, Plan
  <2> HIDE DEF L
  <2>4. req[w].at \in {"cancel", "clear"} /\ req[w].at \in Steps
    BY <1>1, <1>4 DEF CancelOne, Request
  <2>5. /\ req' \in [Worker -> Request]
        /\ \A v \in Worker : Requested(req'[v], DOMAIN orders)
    BY <1>2, <2>2, <2>3, <2>4
  <2>6. o \in DOMAIN orders
    BY <2>1 DEF Live, With
  <2>7. Book(orders') /\ DOMAIN orders' = DOMAIN orders
    BY <1>1, <2>1, <2>6, OrderChanges
  <2> QED BY <1>4, <2>5, <2>7 DEF TypedIInv, CancelOne, ledger
<1> QED BY <1>3, <1>4

LEMMA PlacedTyped ==
  ASSUME TypedIInv, NEW w \in Worker, req[w].at = "submit",
         NEW outcome \in {"no", "yes", "error"}, Placed(w, outcome),
         NEW ids, DOMAIN orders \subseteq ids,
         outcome = "yes" => req[w].plan.intent \in ids
  PROVE  /\ req' \in [Worker -> Request]
         /\ \A v \in Worker : Requested(req'[v], ids)
         /\ req' = [req EXCEPT ![w] = [req[w] EXCEPT !.at = "journal",
                                         !.plan = [req[w].plan EXCEPT !.placed = outcome]]]
<1>1. req[w] \in Request /\ Requested(req[w], DOMAIN orders) /\ req \in [Worker -> Request]
  BY DEF TypedIInv
<1> DEFINE r == [req[w] EXCEPT !.at = "journal",
                               !.plan = [req[w].plan EXCEPT !.placed = outcome]]
<1>2. r \in Request
  BY <1>1 DEF Request, Plan, Steps
<1>3. /\ r.at = "journal" /\ r.command = req[w].command /\ r.plan.intent = req[w].plan.intent
      /\ r.plan.delta = req[w].plan.delta /\ r.plan.placed = outcome
      /\ r.plan.fills = req[w].plan.fills
  BY <1>1 DEF Request, Plan
<1>4. req' = [req EXCEPT ![w] = r]
  BY <1>1 DEF Placed, Request, Plan
<1> HIDE DEF r
<1>5. Requested(r, ids)
  BY <1>1, <1>3 DEF Requested
<1>6. /\ req' \in [Worker -> Request]
      /\ \A v \in Worker : Requested(req'[v], ids)
  BY <1>2, <1>4, <1>5, RequestMoves
<1> QED BY <1>4, <1>6 DEF r

LEMMA SubmittingTyped ==
  ASSUME TypedIInv, NEW w \in Worker,
         Submit(w) \/ SubmitFails(w) \/ NothingToSubmit(w)
  PROVE  TypedIInv'
<1>1. CASE Submit(w)
  <2>1. /\ Book(orders') /\ DOMAIN orders' = DOMAIN orders \union {req[w].plan.intent}
    BY <1>1, PostedBook DEF Submit
  <2>2. /\ req' \in [Worker -> Request]
        /\ \A v \in Worker : Requested(req'[v], DOMAIN orders')
    BY <1>1, <2>1, PlacedTyped DEF Submit, Placing
  <2>3. receipts \subseteq DOMAIN orders'
    BY <2>1 DEF TypedIInv
  <2> QED BY <1>1, <2>1, <2>2, <2>3 DEF TypedIInv, Submit, ledger
<1>2. CASE SubmitFails(w)
  <2>1. /\ Book(orders') /\ DOMAIN orders \subseteq DOMAIN orders'
    <3>1. CASE Posted(w)
      BY <1>2, <3>1, PostedBook DEF SubmitFails
    <3>2. CASE UNCHANGED orders
      BY <3>2 DEF TypedIInv
    <3> QED BY <1>2, <3>1, <3>2 DEF SubmitFails
  <2>2. /\ req' \in [Worker -> Request]
        /\ \A v \in Worker : Requested(req'[v], DOMAIN orders')
    BY <1>2, <2>1, PlacedTyped DEF SubmitFails, Placing
  <2>3. receipts \subseteq DOMAIN orders'
    BY <2>1 DEF TypedIInv
  <2>4. trouble' \in Seq(Troubles) /\ Len(trouble') + changes <= MaxEvents
    BY <1>2, FaultTyped DEF SubmitFails
  <2> QED BY <1>2, <2>1, <2>2, <2>3, <2>4 DEF TypedIInv, SubmitFails, ledger
<1>3. CASE NothingToSubmit(w)
  <2>1. /\ req' \in [Worker -> Request]
        /\ \A v \in Worker : Requested(req'[v], DOMAIN orders)
    BY <1>3, PlacedTyped DEF NothingToSubmit
  <2> QED BY <1>3, <2>1 DEF TypedIInv, NothingToSubmit, broker, ledger
<1> QED BY <1>1, <1>2, <1>3

LEMMA JournallingTyped ==
  ASSUME TypedIInv, NEW w \in Worker,
         \/ Persist(w) \/ Cleared(w) \/ Journal(w)
         \/ Cancelled(w) /\ Kind[req[w].command] = "kill"
  PROVE  TypedIInv'
<1>1. req[w] \in Request /\ Requested(req[w], DOMAIN orders)
  BY DEF TypedIInv
<1>2. CASE Persist(w)
  <2>1. req' \in [Worker -> Request] /\ \A v \in Worker : Requested(req'[v], DOMAIN orders)
    BY <1>2, GotoTyped DEF Persist, Steps
  <2>2. journal' \in [Command -> Intent \union {NoIntent}]
    BY <1>1, <1>2 DEF TypedIInv, Persist, Request, Plan, Requested
  <2>3. \A c \in Command : journal'[c] # NoIntent => journal'[c].bucket = c
    BY <1>1, <1>2 DEF TypedIInv, Persist, Requested
  <2> QED BY <1>2, <2>1, <2>2, <2>3 DEF TypedIInv, Persist, broker
<1>3. CASE Cleared(w)
  <2>1. req' \in [Worker -> Request] /\ \A v \in Worker : Requested(req'[v], DOMAIN orders)
    BY <1>3, GotoTyped DEF Cleared, Steps
  <2> QED BY <1>3, <2>1 DEF TypedIInv, Cleared, broker, ledger
<1>4. CASE Journal(w)
  <2>1. req' \in [Worker -> Request] /\ \A v \in Worker : Requested(req'[v], DOMAIN orders)
    BY <1>4, GotoTyped DEF Journal, Steps
  <2>2. receipts' \subseteq DOMAIN orders
    BY <1>1, <1>4 DEF TypedIInv, Journal, Requested
  <2> QED BY <1>4, <2>1, <2>2 DEF TypedIInv, Journal, broker
<1>5. CASE Cancelled(w) /\ Kind[req[w].command] = "kill"
  <2>1. Goto(w, "read") /\ req[w].at = "cancel" /\ UNCHANGED <<disk, status>>
        /\ UNCHANGED <<broker, ledger, blocks, trouble, changes>>
    BY <1>5 DEF Cancelled
  <2>2. req' \in [Worker -> Request] /\ \A v \in Worker : Requested(req'[v], DOMAIN orders)
    BY <2>1, GotoTyped DEF Steps
  <2> QED BY <2>1, <2>2 DEF TypedIInv, broker, ledger
<1> QED BY <1>2, <1>3, <1>4, <1>5

LEMMA TypedNext == TypedIInv /\ [Next]_vars => TypedIInv'
<1> SUFFICES ASSUME TypedIInv, [Next]_vars PROVE TypedIInv'
  OBVIOUS
<1>1. CASE UNCHANGED vars
  BY <1>1 DEF TypedIInv, vars
<1>2. ASSUME NEW w \in Worker, Step(w) PROVE TypedIInv'
  <2>1. ASSUME NEW c \in Command, Begin(w, c) PROVE TypedIInv'
    BY <2>1, BeginTyped
  <2>2. CASE Cycle(w)
    BY <2>2, TypedReading, TypedEnding, SubmittingTyped, JournallingTyped DEF Cycle
  <2> QED BY <1>2, <2>1, <2>2, TypedEnding, CancellingTyped, JournallingTyped DEF Step
<1> QED BY <1>1, <1>2, TypedCommands, TypedBroker DEF Next

LEMMA TypedAlways == Spec => []TypedIInv
<1> QED BY TypedInit, TypedNext, PTL DEF Spec

\* The history variables name requests.
Remembered == overtaken \subseteq Worker /\ crossed \in BOOLEAN

LEMMA RememberedNext == Remembered /\ [Next]_vars => Remembered'
<1> SUFFICES ASSUME Remembered, [Next]_vars PROVE Remembered'
  OBVIOUS
<1>1. UNCHANGED history => Remembered'
  BY DEF Remembered, history
<1>2. CASE \/ UNCHANGED vars \/ Restart \/ Broker
           \/ \E c \in Command : Schedule(c)
           \/ Operate
  BY <1>1, <1>2 DEF vars, history, Restart, Broker, TimePasses, Fill, FillLate, CancelTakesEffect,
                   Schedule, Operate, StopEntries, PauseExecution, ResumeExecution, ClearKill,
                   PauseAutonomy, ResumeAutonomy, Set
<1>3. ASSUME NEW w \in Worker, Step(w) PROVE Remembered'
  <2>1. Overtakes(w) => overtaken' \subseteq Worker
    BY DEF Overtakes, Remembered
  <2>2. Posted(w) => Remembered'
    BY <2>1 DEF Posted, Remembered
  <2>3. CASE CancelOne(w)
    BY <2>1, <2>3 DEF CancelOne, Remembered
  <2>4. CASE Submit(w) \/ SubmitFails(w)
    BY <1>1, <2>2, <2>4 DEF Submit, SubmitFails
  <2>5. CASE Read(w) \/ ReadTorn(w)
    BY <2>5 DEF Read, ReadTorn, Freeze, Remembered
  <2>6. CASE \/ \E c \in Command : Begin(w, c)
             \/ List(w) \/ CancelRefused(w) \/ Cancelled(w) \/ Verify(w)
    BY <1>1, <2>6 DEF Begin, List, CancelRefused, Cancelled, Verify
  <2>7. CASE \/ Persist(w) \/ PersistConflicts(w) \/ Cleared(w) \/ NothingToSubmit(w)
             \/ Journal(w) \/ Apply(w) \/ Fails(w)
    BY <1>1, <2>7 DEF Persist, PersistConflicts, Cleared, NothingToSubmit, Journal, Apply, Fails
  <2> QED BY <1>3, <2>3, <2>4, <2>5, <2>6, <2>7 DEF Step, Cycle
<1> QED BY <1>2, <1>3 DEF Next

(* What the cycle keeps has its types, and its bounds, however many requests   *)
(* of the object overlap.                                                       *)
THEOREM CycleTyped == Spec => []TypeOK
<1>1. TypedIInv /\ Remembered => TypeOK
  <2> SUFFICES ASSUME TypedIInv, Remembered PROVE TypeOK
    OBVIOUS
  <2>1. \A o \in DOMAIN orders :
          /\ o \in Intent
          /\ orders[o].delta \in Int \ {0}
          /\ orders[o].status \in {"open", "cancelling", "canceled", "filled"}
    BY DEF TypedIInv, Book, Order
  <2>2. \A c \in Command : journal[c] # NoIntent =>
          journal[c] \in Intent /\ journal[c].bucket = c
    BY DEF TypedIInv
  <2>3. \A w \in Worker :
          /\ req[w].at \in Steps
          /\ req[w].at # "idle" => req[w].command \in Command
          /\ req[w].mem \in Saved
          /\ req[w].plan \in Plan
    BY DEF TypedIInv, Requested, Request
  <2> QED BY <2>1, <2>2, <2>3 DEF TypedIInv, TypeOK, Remembered
<1>2. Init => Remembered
  BY DEF Init, Remembered
<1>3. Spec => []Remembered
  BY <1>2, RememberedNext, PTL DEF Spec
<1> QED BY <1>1, <1>3, TypedAlways, PTL
-----------------------------------------------------------------------------
(* Fills and what they make of the books *)

\* Orders keep what they were placed for.
Extends(pt, os) ==
  /\ DOMAIN os \subseteq DOMAIN pt
  /\ \A o \in DOMAIN os : pt[o].delta = os[o].delta

LEMMA NetOfSome ==
  ASSUME NEW os, Book(os), NEW S \in SUBSET DOMAIN os
  PROVE  IsFiniteSet(S) /\ Net(os, S) \in Int
<1>1. IsFiniteSet(S)
  BY FS_Subset DEF Book
<1>2. \A o \in S : os[o].delta \in Int
  BY DEF Book, Order
<1> QED BY <1>1, <1>2, NetType

LEMMA NetOfParts ==
  ASSUME NEW os, Book(os), NEW S \in SUBSET DOMAIN os, NEW T \in SUBSET DOMAIN os,
         S \intersect T = {}
  PROVE  Net(os, S \union T) = Net(os, S) + Net(os, T)
<1>1. IsFiniteSet(S) /\ IsFiniteSet(T)
  BY NetOfSome
<1>2. \A o \in S \union T : os[o].delta \in Int
  BY DEF Book, Order
<1> QED BY <1>1, <1>2, NetDisjoint

LEMMA SquaredKept ==
  ASSUME NEW d, NEW os, NEW pt, NEW held, Squared(d, os, held),
         Extends(pt, os), Executions(pt) = Executions(os)
  PROVE  Squared(d, pt, held)
<1> DEFINE U == d.unattributed
           F == Executions(os) \ d.seen
<1>1. U \subseteq DOMAIN os /\ F \subseteq DOMAIN os
  BY DEF Squared, Executions, Status
<1>2. U \subseteq DOMAIN pt /\ F \subseteq DOMAIN pt
  BY <1>1 DEF Extends
<1>3. \A o \in U \union F : pt[o].delta = os[o].delta
  BY <1>1 DEF Extends
<1>4. Net(pt, U) = Net(os, U)
  BY <1>1, <1>2, <1>3, NetKept
<1>5. Net(pt, F) = Net(os, F)
  BY <1>1, <1>2, <1>3, NetKept
<1> QED BY <1>4, <1>5 DEF Squared

\* An order that fills is one more that has not been seen.
LEMMA SquaredFilled ==
  ASSUME NEW d, d.attribution \in Int, NEW os, Book(os), NEW pt, Book(pt), NEW held \in Int,
         Squared(d, os, held), NEW o \in DOMAIN os, o \notin Executions(os),
         Extends(pt, os), Executions(pt) = Executions(os) \union {o}
  PROVE  Squared(d, pt, held + os[o].delta)
<1> DEFINE U == d.unattributed
           F == Executions(os) \ d.seen
           G == F \union {o}
<1>1. U \in SUBSET DOMAIN os /\ F \in SUBSET DOMAIN os /\ o \notin F /\ {o} \in SUBSET DOMAIN os
  BY DEF Squared, Executions, Status
<1>2. o \notin d.seen
  BY DEF Squared
<1>3. Executions(pt) \ d.seen = G
  BY <1>2
<1>4. Net(os, U) \in Int /\ Net(os, F) \in Int /\ os[o].delta \in Int
  BY <1>1, NetOfSome DEF Book, Order
<1>5. held = d.attribution + Net(os, U) + Net(os, F)
  BY DEF Squared
<1>6. Net(os, {o}) = os[o].delta
  BY <1>4, NetOfOne
<1>7. Net(os, G) = Net(os, F) + Net(os, {o})
  BY <1>1, NetOfParts
<1>8. /\ U \subseteq DOMAIN pt /\ G \subseteq DOMAIN pt /\ G \subseteq DOMAIN os
      /\ \A p \in U \union G : pt[p].delta = os[p].delta
  BY <1>1 DEF Extends
<1>9. Net(pt, U) = Net(os, U) /\ Net(pt, G) = Net(os, G)
  BY <1>1, <1>8, NetKept
<1>10. U \subseteq d.seen /\ d.seen \subseteq Executions(pt)
  BY DEF Squared
<1> HIDE DEF U, F, G
<1>11. held + os[o].delta = d.attribution + Net(pt, U) + Net(pt, G)
  BY <1>4, <1>5, <1>6, <1>7, <1>9
<1> QED BY <1>3, <1>10, <1>11 DEF Squared, U, G

\* A cycle that is applied: what it saw is attributed or somebody must look at it.
LEMMA SquaredApplied ==
  ASSUME NEW d, d.attribution \in Int, NEW os, Book(os), NEW held \in Int,
         Squared(d, os, held), NEW fills, fills \subseteq Executions(os),
         NEW A, A \subseteq fills \ d.seen,
         NEW e, e.attribution = d.attribution + Net(os, A), e.seen = d.seen \union fills,
         e.unattributed = d.unattributed \union ((fills \ d.seen) \ A)
  PROVE  Squared(e, os, held)
<1> DEFINE U == d.unattributed
           F == Executions(os) \ d.seen
           B == (fills \ d.seen) \ A
           R == Executions(os) \ e.seen
           V == U \union B
           Q == A \union B
<1>1. /\ U \in SUBSET DOMAIN os /\ A \in SUBSET DOMAIN os /\ B \in SUBSET DOMAIN os
      /\ R \in SUBSET DOMAIN os /\ Q \in SUBSET DOMAIN os
  BY DEF Squared, Executions, Status
<1>2. U \intersect B = {} /\ A \intersect B = {} /\ Q \intersect R = {}
  BY DEF Squared
<1>3. F = Q \union R /\ e.unattributed = V
  OBVIOUS
<1>4. V \subseteq e.seen /\ e.seen \subseteq Executions(os)
  BY DEF Squared
<1>5. held = d.attribution + Net(os, U) + Net(os, F)
  BY DEF Squared
<1> HIDE DEF U, F, B, R, V, Q
<1>6. /\ Net(os, U) \in Int /\ Net(os, A) \in Int /\ Net(os, B) \in Int /\ Net(os, R) \in Int
  BY <1>1, NetOfSome
<1>7. Net(os, U \union B) = Net(os, U) + Net(os, B)
  BY <1>1, <1>2, NetOfParts
<1>8. Net(os, A \union B) = Net(os, A) + Net(os, B)
  BY <1>1, <1>2, NetOfParts
<1>9. Net(os, Q \union R) = Net(os, Q) + Net(os, R)
  BY <1>1, <1>2, NetOfParts
<1>10. held = e.attribution + Net(os, V) + Net(os, R)
  BY <1>3, <1>5, <1>6, <1>7, <1>8, <1>9 DEF V, Q
<1> QED BY <1>3, <1>4, <1>10 DEF Squared, R
-----------------------------------------------------------------------------
(* What a request holds on to while the world moves *)

\* Orders stop being at work; only those that are at work fill.
Settles(pt, os) ==
  /\ Extends(pt, os)
  /\ Open(pt) \subseteq Open(os) /\ Executions(os) \subseteq Executions(pt)

LEMMA SuitedKept ==
  ASSUME NEW os, NEW pt, NEW held, NEW later, NEW t, NEW u, Suited(os, held, t), Settles(pt, os),
         Undisturbed(u) => Undisturbed(t) /\ (later = held \/ Open(pt) = {})
  PROVE  Suited(pt, later, u)
<1>1. \A o \in Open(pt) : o \in Open(os) /\ o \in DOMAIN os
  BY DEF Settles, Open, Status
<1>2. \A o \in Open(pt) : pt[o].delta = os[o].delta
  BY <1>1 DEF Settles, Extends
<1>3. \A o, p \in Open(pt) : o = p
  BY <1>1 DEF Suited
<1>4. ASSUME Undisturbed(u), NEW o \in Open(pt)
      PROVE  later = o.current /\ pt[o].delta = Leg(o.current, o.target)
  <2>1. later = held /\ Undisturbed(t)
    BY <1>4
  <2> QED BY <1>1, <1>2, <2>1 DEF Suited
<1> QED BY <1>3, <1>4 DEF Suited

\* The plan of a request that nothing overtakes: what the broker does of its own
\* accord only takes from the orders at work, and a fill shows.
Undone(os, pt, held, later, t, u) ==
  /\ Open(pt) \subseteq Open(os)
  /\ Undisturbed(u) =>
       /\ Undisturbed(t)
       /\ \/ later = held /\ Working(pt) \subseteq Working(os)
          \/ ~ Open(os) \subseteq Working(pt)

LEMMA SoundKept ==
  ASSUME NEW w, NEW r, NEW block, NEW out, NEW beyond, NEW os, NEW pt, NEW held, NEW later, NEW t, NEW u,
         Sound(w, r, block, out, os, held, t), Squared(r.mem, pt, later),
         Executions(os) \subseteq Executions(pt), w \in out => w \in beyond,
         r.at \in Ahead /\ w \notin beyond => Undone(os, pt, held, later, t, u)
  PROVE  Sound(w, r, block, beyond, pt, later, u)
<1>1. r.plan.fills \subseteq Executions(pt) /\ Kept(r.mem)
  BY DEF Sound
<1>2. ASSUME Clearing(r, os, held, t), Undone(os, pt, held, later, t, u)
      PROVE  Clearing(r, pt, later, u)
  <2>1. Open(os) \subseteq r.plan.cancels /\ Open(pt) \subseteq r.plan.cancels
    BY <1>2 DEF Clearing, Undone
  <2>2. Undisturbed(u) => later = r.plan.position \/ ~ r.plan.cancels \subseteq Working(pt)
    BY <1>2, <2>1 DEF Clearing, Undone
  <2> QED BY <1>2, <2>1, <2>2 DEF Clearing
<1> QED BY <1>1, <1>2 DEF Sound

LEMMA TroubleAdds ==
  ASSUME TypedIInv, NEW kind, Fault(kind)
  PROVE  /\ Undisturbed(trouble') => Undisturbed(trouble)
         /\ kind \in {"late", "torn"} => ~ Undisturbed(trouble')
<1>1. Range(trouble') = Range(trouble) \union {kind}
  BY FaultTyped
<1> QED BY <1>1 DEF Undisturbed

\* Copies that counted every fill still do: the broker's books go on from theirs.
Accrues(os, pt, held, later) ==
  /\ Executions(os) \subseteq Executions(pt)
  /\ \A d \in Saved : Squared(d, os, held) => Squared(d, pt, later)

LEMMA AccruesNothing ==
  ASSUME NEW os, NEW pt, NEW held, Extends(pt, os), Executions(pt) = Executions(os)
  PROVE  Accrues(os, pt, held, held)
BY SquaredKept DEF Accrues

\* An execution, whether of an open order or of one being cancelled.
LEMMA ExecutionAccrues ==
  ASSUME TypedIInv, NEW o \in DOMAIN orders, o \in Working(orders), Executed(o)
  PROVE  /\ Accrues(orders, orders', position, position')
         /\ Settles(orders', orders)
         /\ Open(orders') = Open(orders) \ {o}
         /\ Working(orders') = Working(orders) \ {o}
         /\ Executions(orders') = Executions(orders) \union {o}
<1>1. /\ Book(orders') /\ DOMAIN orders' = DOMAIN orders
      /\ \A p \in DOMAIN orders :
           /\ orders'[p].delta = orders[p].delta
           /\ orders'[p].status = IF p = o THEN "filled" ELSE orders[p].status
  BY ExecutedOrder DEF TypedIInv
<1>2. /\ Open(orders') = Open(orders) \ {o}
      /\ Working(orders') = Working(orders) \ {o}
      /\ Executions(orders') = Executions(orders) \union {o}
  BY <1>1 DEF Open, Working, Executions, Status
<1>3. Extends(orders', orders)
  BY <1>1 DEF Extends
<1>4. o \notin Executions(orders)
  BY DEF Working, Executions, Status
<1>5. position \in Int /\ Book(orders) /\ position' = position + orders[o].delta
  BY DEF TypedIInv, Executed
<1>6. ASSUME NEW d \in Saved, Squared(d, orders, position) PROVE Squared(d, orders', position')
  <2>1. d.attribution \in Int
    BY DEF Saved
  <2>2. Squared(d, orders', position + orders[o].delta)
    BY <1>1, <1>2, <1>3, <1>4, <1>5, <1>6, <2>1, SquaredFilled
  <2> QED BY <1>5, <2>2
<1> QED BY <1>2, <1>3, <1>6 DEF Settles, Accrues

\* The session's end and the broker's cancellations.
LEMMA WithdrawalSettles ==
  ASSUME NEW os, NEW pt, DOMAIN pt = DOMAIN os,
         \A o \in DOMAIN os :
           /\ pt[o].delta = os[o].delta
           /\ \/ pt[o].status = os[o].status
              \/ /\ os[o].status \in {"open", "cancelling"}
                 /\ pt[o].status \in {"cancelling", "canceled"}
  PROVE  /\ Settles(pt, os) /\ Executions(pt) = Executions(os)
         /\ Working(pt) \subseteq Working(os)
<1>1. Extends(pt, os)
  BY DEF Extends
<1>2. Open(pt) \subseteq Open(os) /\ Executions(pt) = Executions(os)
      /\ Working(pt) \subseteq Working(os)
  BY DEF Open, Executions, Working, Status
<1> QED BY <1>1, <1>2 DEF Settles
-----------------------------------------------------------------------------
(* The invariant of the cycle *)

\* The requests of S move, the others stand where they did.
LEMMA CycleMoves ==
  ASSUME CycleIInv, TypedIInv', NEW S \in SUBSET Worker,
         \A v \in Worker \ S : req'[v] = req[v] /\ (v \in overtaken => v \in overtaken'),
         \A c \in Command : Committed(status, c) => Committed(status', c) /\ blocks'[c] = blocks[c],
         \A v \in S : req'[v].at # "idle" =>
           /\ Committed(status', req'[v].command)
           /\ Sound(v, req'[v], blocks'[req'[v].command], overtaken', orders', position', trouble'),
         Kept(disk'), Squared(disk', orders', position'),
         ~crossed' => Suited(orders', position', trouble'),
         Accrues(orders, orders', position, position'),
         \A v \in Worker \ S : req[v].at \in Ahead /\ v \notin overtaken' =>
           Undone(orders, orders', position, position', trouble, trouble')
  PROVE  CycleIInv'
<1>1. ASSUME NEW v \in Worker \ S, req'[v].at # "idle"
      PROVE  /\ Committed(status', req'[v].command)
             /\ Sound(v, req'[v], blocks'[req'[v].command], overtaken', orders', position', trouble')
  <2> DEFINE c == req[v].command
  <2>1. /\ Committed(status, c) /\ c \in Command
        /\ Sound(v, req[v], blocks[c], overtaken, orders, position, trouble)
    BY <1>1 DEF CycleIInv, TypedIInv, Requested
  <2>2. Committed(status', c) /\ blocks'[c] = blocks[c]
    BY <1>1, <2>1
  <2>3. req[v].mem \in Saved
    BY DEF CycleIInv, TypedIInv, Request
  <2>4. Squared(req[v].mem, orders', position') /\ Executions(orders) \subseteq Executions(orders')
    BY <2>1, <2>3 DEF Sound, Accrues
  <2> HIDE DEF c
  <2>5. Sound(v, req[v], blocks[c], overtaken', orders', position', trouble')
    BY <2>1, <2>4, SoundKept
  <2> QED BY <1>1, <2>2, <2>5 DEF c
<1>2. \A v \in Worker : req'[v].at # "idle" =>
        /\ Committed(status', req'[v].command)
        /\ Sound(v, req'[v], blocks'[req'[v].command], overtaken', orders', position', trouble')
  BY <1>1
<1> QED BY <1>2 DEF CycleIInv

\* Nothing happens at the broker.
LEMMA BrokerStill ==
  ASSUME UNCHANGED <<orders, position>>, Undisturbed(trouble') => Undisturbed(trouble),
         crossed' = crossed, CycleIInv
  PROVE  /\ Accrues(orders, orders', position, position')
         /\ Undone(orders, orders', position, position', trouble, trouble')
         /\ ~crossed' => Suited(orders', position', trouble')
<1>1. Accrues(orders, orders', position, position')
  BY DEF Accrues
<1>2. Undone(orders, orders', position, position', trouble, trouble')
  BY DEF Undone
<1>3. ~crossed' => Suited(orders', position', trouble')
  BY DEF CycleIInv, Suited
<1> QED BY <1>1, <1>2, <1>3

\* The broker acts: requests stand where they did.
LEMMA CycleWaits ==
  ASSUME CycleIInv, TypedIInv', UNCHANGED <<disk, req, status, blocks, overtaken, crossed>>,
         Accrues(orders, orders', position, position'),
         ~crossed => Suited(orders', position', trouble'),
         Undone(orders, orders', position, position', trouble, trouble')
  PROVE  CycleIInv'
<1>1. disk \in Saved /\ Squared(disk, orders, position) /\ Kept(disk)
  BY DEF CycleIInv, TypedIInv
<1>2. Squared(disk', orders', position') /\ Kept(disk')
  BY <1>1 DEF Accrues
<1>3. \A c \in Command : Committed(status, c) => Committed(status', c) /\ blocks'[c] = blocks[c]
  BY DEF Committed
<1> DEFINE S == {}
<1>4. /\ S \in SUBSET Worker /\ \A v \in S : FALSE
      /\ \A v \in Worker \ S : req'[v] = req[v] /\ (v \in overtaken => v \in overtaken')
  OBVIOUS
<1> HIDE DEF S
<1> QED BY <1>2, <1>3, <1>4, CycleMoves

LEMMA CycleWithdrawal ==
  ASSUME CycleIInv, TypedIInv',
         UNCHANGED <<disk, req, position, trouble, status, blocks, overtaken, crossed>>,
         DOMAIN orders' = DOMAIN orders,
         \A o \in DOMAIN orders :
           /\ orders'[o].delta = orders[o].delta
           /\ \/ orders'[o].status = orders[o].status
              \/ /\ orders[o].status \in {"open", "cancelling"}
                 /\ orders'[o].status \in {"cancelling", "canceled"}
  PROVE  CycleIInv'
<1>1. /\ Settles(orders', orders) /\ Executions(orders') = Executions(orders)
      /\ Working(orders') \subseteq Working(orders)
  BY WithdrawalSettles
<1>2. Accrues(orders, orders', position, position')
  BY <1>1, AccruesNothing DEF Settles
<1>3. ~crossed => Suited(orders', position', trouble')
  BY <1>1, SuitedKept DEF CycleIInv
<1>4. Undone(orders, orders', position, position', trouble, trouble')
  BY <1>1 DEF Undone, Settles
<1> QED BY <1>2, <1>3, <1>4, CycleWaits

LEMMA CycleBroker ==
  ASSUME CycleIInv, Broker \/ Restart
  PROVE  CycleIInv'
<1>1. TypedIInv /\ TypedIInv' /\ Book(orders)
  BY TypedBroker DEF CycleIInv, TypedIInv
<1>2. ASSUME TimePasses PROVE CycleIInv'
  <2>1. /\ DOMAIN orders' = DOMAIN orders
        /\ \A o \in DOMAIN orders :
             /\ orders'[o].delta = orders[o].delta
             /\ \/ orders'[o].status = orders[o].status
                \/ /\ orders[o].status \in {"open", "cancelling"}
                   /\ orders'[o].status \in {"cancelling", "canceled"}
    <3>1. CASE phase' # "closed"
      BY <1>2, <3>1 DEF TimePasses
    <3>2. CASE phase' = "closed"
      <4>1. orders' = [o \in DOMAIN orders |-> IF o \in Live
                         THEN [orders[o] EXCEPT !.status = "canceled"] ELSE orders[o]]
        BY <1>2, <3>2 DEF TimePasses
      <4>2. \A o \in Live : orders[o].status \in {"open", "cancelling"}
        BY DEF Live, With
      <4>3. \A o \in DOMAIN orders : orders[o] \in Order
        BY <1>1 DEF Book
      <4>4. DOMAIN orders' = DOMAIN orders
        BY <4>1
      <4>5. ASSUME NEW o \in DOMAIN orders
            PROVE  /\ orders'[o].delta = orders[o].delta
                   /\ \/ orders'[o].status = orders[o].status
                      \/ o \in Live /\ orders'[o].status = "canceled"
        BY <4>1, <4>3 DEF Order
      <4> QED BY <4>2, <4>4, <4>5
    <3> QED BY <3>1, <3>2
  <2> QED BY <1>1, <1>2, <2>1, CycleWithdrawal DEF TimePasses, history
<1>3. ASSUME NEW o \in DOMAIN orders, CancelTakesEffect(o) PROVE CycleIInv'
  <2>1. /\ DOMAIN orders' = DOMAIN orders
        /\ \A p \in DOMAIN orders :
             /\ orders'[p].delta = orders[p].delta
             /\ orders'[p].status = IF p = o THEN "canceled" ELSE orders[p].status
    BY <1>1, <1>3, OrderChanges DEF CancelTakesEffect
  <2>2. orders[o].status = "cancelling"
    BY <1>3 DEF CancelTakesEffect
  <2> QED BY <1>1, <1>3, <2>1, <2>2, CycleWithdrawal DEF CancelTakesEffect, history
<1>4. ASSUME NEW o \in DOMAIN orders, Fill(o) PROVE CycleIInv'
  <2>1. o \in Open(orders) /\ o \in Working(orders) /\ Executed(o)
    BY <1>4 DEF Fill, Open, Working, Status
  <2>2. /\ Accrues(orders, orders', position, position')
        /\ Settles(orders', orders)
        /\ Open(orders') = Open(orders) \ {o}
        /\ Working(orders') = Working(orders) \ {o}
    BY <1>1, <2>1, ExecutionAccrues
  <2>3. ~crossed => Open(orders') = {}
    BY <2>1, <2>2 DEF CycleIInv, Suited
  <2>4. ~crossed => Suited(orders', position', trouble')
    BY <2>3 DEF Suited
  <2>5. Undone(orders, orders', position, position', trouble, trouble')
    BY <1>4, <2>1, <2>2 DEF Undone, Fill
  <2> QED BY <1>1, <1>4, <2>2, <2>4, <2>5, CycleWaits DEF Fill, history
<1>5. ASSUME NEW o \in DOMAIN orders, FillLate(o) PROVE CycleIInv'
  <2>1. o \in Working(orders) /\ Executed(o)
    BY <1>5 DEF FillLate, Working, Status
  <2>2. ~ Undisturbed(trouble')
    BY <1>1, <1>5, TroubleAdds DEF FillLate
  <2>3. Accrues(orders, orders', position, position') /\ Settles(orders', orders)
    BY <1>1, <2>1, ExecutionAccrues
  <2>4. ~crossed => Suited(orders', position', trouble')
    BY <2>2, <2>3, SuitedKept DEF CycleIInv
  <2>5. Undone(orders, orders', position, position', trouble, trouble')
    BY <2>2, <2>3 DEF Undone, Settles
  <2> QED BY <1>1, <1>5, <2>3, <2>4, <2>5, CycleWaits DEF FillLate, history
<1>6. ASSUME Restart PROVE CycleIInv'
  <2>1. Undisturbed(trouble') => Undisturbed(trouble)
    BY <1>1, <1>6, TroubleAdds DEF Restart
  <2>2. UNCHANGED <<disk, orders, position, status, blocks, overtaken, crossed>>
    BY <1>6 DEF Restart, broker, history
  <2>3. ~crossed' => Suited(orders', position', trouble')
    BY <2>1, <2>2, BrokerStill
  <2>4. \A w \in Worker : req'[w].at = "idle"
    BY <1>6 DEF Restart, Idle
  <2> QED BY <1>1, <2>2, <2>3, <2>4 DEF CycleIInv
<1> QED BY <1>2, <1>3, <1>4, <1>5, <1>6 DEF Broker

\* Controls are set, also while requests are at work: each keeps its copy.
LEMMA CycleCommands ==
  ASSUME CycleIInv, (\E c \in Command : Schedule(c)) \/ Operate
  PROVE  CycleIInv'
<1>1. TypedIInv /\ TypedIInv'
  BY TypedCommands DEF CycleIInv
<1>2. /\ UNCHANGED <<orders, position, trouble, req, overtaken, crossed>>
      /\ \E controls \in SUBSET Controls :
           /\ disk' = [disk EXCEPT !.controls = controls]
           /\ "kill_switch" \in controls =>
                "execution_paused" \in controls \/ "execution_paused" \notin disk.controls
           /\ "kill_switch" \in controls => "kill_switch" \in disk.controls
  <2>1. disk \in Saved /\ disk.controls \in SUBSET Controls
    BY <1>1 DEF TypedIInv, Saved
  <2>2. ASSUME NEW c \in Command, Schedule(c)
        PROVE  \E controls \in SUBSET Controls :
                 /\ disk' = [disk EXCEPT !.controls = controls]
                 /\ controls \in {disk.controls, disk.controls \union {"flatten_requested"}}
    <3>1. CASE Kind[c] = "flatten"
      BY <2>1, <2>2, <3>1 DEF Schedule, Controls
    <3>2. CASE Kind[c] # "flatten"
      <4>1. disk = [disk EXCEPT !.controls = disk.controls]
        BY <2>1 DEF Saved
      <4> QED BY <2>1, <2>2, <3>2, <4>1 DEF Schedule
    <3> QED BY <3>1, <3>2
  <2>3. ASSUME Operate
        PROVE  \E controls \in SUBSET Controls :
                 /\ Set(controls)
                 /\ "kill_switch" \in controls =>
                      "execution_paused" \in controls \/ "execution_paused" \notin disk.controls
                 /\ "kill_switch" \in controls => "kill_switch" \in disk.controls
    BY <2>1, <2>3 DEF Operate, StopEntries, PauseExecution, ResumeExecution, ClearKill,
                      PauseAutonomy, ResumeAutonomy, Controls
  <2>4. CASE \E c \in Command : Schedule(c)
    BY <2>2, <2>4 DEF Schedule, broker, history
  <2>5. CASE Operate
    BY <2>3, <2>5 DEF Set, broker, history
  <2> QED BY <2>4, <2>5
<1>3. Kept(disk') /\ disk'.attribution = disk.attribution /\ disk'.seen = disk.seen
      /\ disk'.unattributed = disk.unattributed
  BY <1>1, <1>2 DEF CycleIInv, TypedIInv, Saved, Kept
<1>4. Squared(disk', orders', position')
  BY <1>2, <1>3 DEF CycleIInv, Squared
<1>5. \A c \in Command : Committed(status, c) => Committed(status', c) /\ blocks'[c] = blocks[c]
  <2>1. ASSUME NEW x \in Command, Schedule(x)
        PROVE  /\ Kind[x] # "kill" /\ status[x] = "none"
               /\ status' = [status EXCEPT ![x] = "pending"]
               /\ \E b : blocks' = [blocks EXCEPT ![x] = b]
    BY <2>1 DEF Schedule
  <2>2. Operate => UNCHANGED <<status, blocks>>
    BY DEF Operate, StopEntries, PauseExecution, ResumeExecution, ClearKill,
           PauseAutonomy, ResumeAutonomy, Set
  <2> QED BY <1>1, <2>1, <2>2 DEF Committed, TypedIInv
<1>6. /\ Accrues(orders, orders', position, position')
      /\ Undone(orders, orders', position, position', trouble, trouble')
      /\ ~crossed' => Suited(orders', position', trouble')
  BY <1>2, BrokerStill
<1> DEFINE S == {}
<1>7. /\ S \in SUBSET Worker /\ \A v \in S : FALSE
      /\ \A v \in Worker \ S : req'[v] = req[v] /\ (v \in overtaken => v \in overtaken')
  BY <1>2
<1> HIDE DEF S
<1> QED BY <1>1, <1>3, <1>4, <1>5, <1>6, <1>7, CycleMoves
-----------------------------------------------------------------------------
(* The steps of a request *)

LEMMA CycleStays ==
  ASSUME CycleIInv, TypedIInv', NEW w \in Worker, NEW r, req' = [req EXCEPT ![w] = r],
         UNCHANGED <<disk, status, blocks>>,
         \A v \in Worker \ {w} : v \in overtaken => v \in overtaken',
         Committed(status, r.command),
         Sound(w, r, blocks[r.command], overtaken', orders', position', trouble'),
         ~crossed' => Suited(orders', position', trouble'),
         Accrues(orders, orders', position, position'),
         \A v \in Worker \ {w} : req[v].at \in Ahead /\ v \notin overtaken' =>
           Undone(orders, orders', position, position', trouble, trouble')
  PROVE  CycleIInv'
<1> DEFINE S == {w}
<1>1. req \in [Worker -> Request]
  BY DEF CycleIInv, TypedIInv
<1>2. /\ S \in SUBSET Worker /\ req'[w] = r
      /\ \A v \in Worker \ S : req'[v] = req[v]
  BY <1>1
<1>3. \A c \in Command : Committed(status, c) => Committed(status', c) /\ blocks'[c] = blocks[c]
  OBVIOUS
<1>4. disk \in Saved /\ Squared(disk, orders, position) /\ Kept(disk)
  BY DEF CycleIInv, TypedIInv
<1>5. Squared(disk', orders', position') /\ Kept(disk')
  BY <1>4 DEF Accrues
<1>6. \A v \in S : req'[v].at # "idle" =>
        /\ Committed(status', req'[v].command)
        /\ Sound(v, req'[v], blocks'[req'[v].command], overtaken', orders', position', trouble')
  BY <1>2
<1>7. \A v \in Worker \ S : v # w
  OBVIOUS
<1> HIDE DEF S
<1> QED BY <1>2, <1>3, <1>5, <1>6, <1>7, CycleMoves

LEMMA CycleLeaves ==
  ASSUME CycleIInv, TypedIInv', NEW w \in Worker, req[w].at # "idle",
         NEW mem, NEW outcome \in {"pending", "done"}, Leave(w, mem, outcome),
         UNCHANGED <<broker, blocks, overtaken, crossed>>,
         Kept(mem), Squared(mem, orders, position),
         Undisturbed(trouble') => Undisturbed(trouble)
  PROVE  CycleIInv'
<1> DEFINE S == {w}
<1>1. /\ disk' = mem /\ req' = [req EXCEPT ![w] = Idle] /\ orders' = orders /\ position' = position
      /\ status' = [status EXCEPT ![req[w].command] = outcome]
  BY DEF Leave, broker
<1>2. req \in [Worker -> Request] /\ status \in [Command -> {"none", "pending", "done"}]
  BY DEF CycleIInv, TypedIInv
<1>3. /\ S \in SUBSET Worker /\ \A v \in S : req'[v].at = "idle"
      /\ \A v \in Worker \ S : req'[v] = req[v] /\ (v \in overtaken => v \in overtaken')
  BY <1>1, <1>2 DEF Idle
<1>4. \A c \in Command : Committed(status, c) => Committed(status', c) /\ blocks'[c] = blocks[c]
  BY <1>1, <1>2 DEF Committed
<1>5. Kept(disk') /\ Squared(disk', orders', position')
  BY <1>1
<1>6. /\ Accrues(orders, orders', position, position')
      /\ Undone(orders, orders', position, position', trouble, trouble')
      /\ ~crossed' => Suited(orders', position', trouble')
  BY <1>1, BrokerStill
<1> HIDE DEF S
<1> QED BY <1>3, <1>4, <1>5, <1>6, CycleMoves

\* A copy that counts every fill, and what applying its cycle makes of it.
LEMMA CopyIsSquared ==
  ASSUME CycleIInv, NEW w \in Worker, req[w].at # "idle"
  PROVE  /\ Kept(req[w].mem) /\ Squared(req[w].mem, orders, position)
         /\ Kept(Applied(w)) /\ Squared(Applied(w), orders, position)
<1> DEFINE m == req[w].mem
           p == req[w].plan
           A == Attributable(w)
           placed == IF p.placed = "yes" THEN {p.intent} ELSE {}
           e == [controls |-> IF p.forced /\ p.position = 0
                              THEN m.controls \ {"flatten_requested"} ELSE m.controls,
                 halted |-> p.halted,
                 managed |-> m.managed \/ placed # {},
                 known |-> m.known \union placed,
                 attribution |-> m.attribution + Size(A),
                 seen |-> m.seen \union p.fills,
                 unattributed |-> m.unattributed \union (NewFills(w) \ A),
                 lastBucket |-> req[w].command]
<1>1. /\ Sound(w, req[w], blocks[req[w].command], overtaken, orders, position, trouble)
      /\ Book(orders) /\ position \in Int /\ m \in Saved
  BY DEF CycleIInv, TypedIInv, Request
<1>2. /\ Kept(m) /\ Squared(m, orders, position) /\ m.attribution \in Int
      /\ p.fills \subseteq Executions(orders)
  BY <1>1 DEF Sound, Saved
<1>4. Applied(w) = m \/ Applied(w) = e
  BY DEF Applied
<1>5. A \subseteq p.fills \ m.seen /\ NewFills(w) = p.fills \ m.seen
  BY DEF Attributable, NewFills
<1>6. A \in SUBSET DOMAIN orders
  BY <1>2, <1>5 DEF Executions, Status
<1> HIDE DEF A
<1>7. Size(A) = Net(orders, A)
  BY <1>6, SizeIsNet
<1>8. /\ e.attribution = m.attribution + Net(orders, A) /\ e.seen = m.seen \union p.fills
      /\ e.unattributed = m.unattributed \union ((p.fills \ m.seen) \ A)
      /\ e.controls \subseteq m.controls /\ m.controls \subseteq e.controls \union {"flatten_requested"}
  BY <1>5, <1>7
<1> HIDE DEF e, m, p
<1>9. Squared(e, orders, position)
  BY <1>1, <1>2, <1>5, <1>8, SquaredApplied
<1>10. Kept(e)
  BY <1>2, <1>8 DEF Kept
<1> QED BY <1>2, <1>4, <1>9, <1>10 DEF m

LEMMA CycleEnding ==
  ASSUME CycleIInv, NEW w \in Worker,
         \/ PersistConflicts(w) \/ CancelRefused(w) \/ Apply(w) \/ Verify(w) \/ Fails(w)
         \/ Cancelled(w) /\ Kind[req[w].command] # "kill"
  PROVE  CycleIInv'
<1>1. TypedIInv' /\ TypedIInv /\ w \in Worker
  BY TypedEnding DEF CycleIInv
<1> DEFINE verified == [req[w].mem EXCEPT !.controls = @ \ {"flatten_requested"}]
           M == {req[w].mem, Applied(w), verified}
<1> HIDE DEF verified, M
<1>2. /\ req[w].at # "idle" /\ UNCHANGED <<broker, blocks, overtaken, crossed>>
      /\ \E mem \in M, outcome \in {"pending", "done"} : Leave(w, mem, outcome)
  <2>1. CASE PersistConflicts(w) \/ CancelRefused(w) \/ Fails(w)
    BY <2>1 DEF PersistConflicts, CancelRefused, Fails, Throw, M, history
  <2>2. CASE Apply(w)
    BY <2>2 DEF Apply, M, history
  <2>3. CASE Verify(w)
    BY <2>3 DEF Verify, M, verified, history
  <2>4. CASE Cancelled(w) /\ Kind[req[w].command] # "kill"
    BY <2>4 DEF Cancelled, M, history
  <2> QED BY <2>1, <2>2, <2>3, <2>4
<1>3. PICK mem \in M, outcome \in {"pending", "done"} : Leave(w, mem, outcome)
  BY <1>2
<1>4. /\ Kept(req[w].mem) /\ Squared(req[w].mem, orders, position)
      /\ Kept(Applied(w)) /\ Squared(Applied(w), orders, position)
  BY <1>1, <1>2, CopyIsSquared
<1>5. Kept(verified) /\ Squared(verified, orders, position)
  <2>1. req[w].mem \in Saved
    BY <1>1 DEF TypedIInv, Request
  <2>2. /\ verified.controls = req[w].mem.controls \ {"flatten_requested"}
        /\ verified.attribution = req[w].mem.attribution /\ verified.seen = req[w].mem.seen
        /\ verified.unattributed = req[w].mem.unattributed
    BY <2>1 DEF verified, Saved
  <2> QED BY <1>4, <2>2 DEF Kept, Squared
<1>6. Kept(mem) /\ Squared(mem, orders, position)
  BY <1>3, <1>4, <1>5 DEF M
<1>7. Undisturbed(trouble') => Undisturbed(trouble)
  <2>1. CASE Fails(w)
    BY <1>1, <2>1, TroubleAdds DEF Fails
  <2>2. CASE ~Fails(w)
    BY <2>2 DEF PersistConflicts, CancelRefused, Apply, Verify, Cancelled
  <2> QED BY <2>1, <2>2
<1> QED BY <1>1, <1>2, <1>3, <1>6, <1>7, CycleLeaves

\* A step within the request: nothing that others see changes.
LEMMA CycleAdvances ==
  ASSUME CycleIInv, TypedIInv', NEW w \in Worker, req[w].at # "idle",
         UNCHANGED <<broker, disk, status, blocks, trouble, overtaken, crossed>>,
         NEW r, req' = [req EXCEPT ![w] = r],
         r.command = req[w].command, r.mem = req[w].mem, r.plan.fills = req[w].plan.fills,
         \/ r.at \notin Ahead
         \/ /\ req[w].at \in Ahead /\ r.plan = req[w].plan
            /\ r.at = "submit" => r.plan.cancels = {}
  PROVE  CycleIInv'
<1> DEFINE b == blocks[req[w].command]
<1>1. /\ Sound(w, req[w], b, overtaken, orders, position, trouble)
      /\ Committed(status, req[w].command)
  BY DEF CycleIInv
<1> HIDE DEF b
<1>2. Sound(w, r, b, overtaken, orders, position, trouble)
  BY <1>1 DEF Sound, Frozen, Clearing
<1>3. orders' = orders /\ position' = position /\ trouble' = trouble /\ overtaken' = overtaken
  BY DEF broker
<1>4. /\ Accrues(orders, orders', position, position')
      /\ Undone(orders, orders', position, position', trouble, trouble')
      /\ ~crossed' => Suited(orders', position', trouble')
  BY <1>3, BrokerStill
<1>5. Sound(w, r, blocks[r.command], overtaken', orders', position', trouble')
  BY <1>2, <1>3 DEF b
<1> QED BY <1>1, <1>3, <1>4, <1>5, CycleStays

LEMMA CycleGoesOn ==
  ASSUME CycleIInv, NEW w \in Worker,
         \/ List(w) \/ Persist(w) \/ Cleared(w) \/ Journal(w) \/ NothingToSubmit(w)
         \/ Cancelled(w) /\ Kind[req[w].command] = "kill"
  PROVE  CycleIInv'
<1>1. /\ TypedIInv /\ w \in Worker
      /\ req[w] \in Request /\ Requested(req[w], DOMAIN orders) /\ req \in [Worker -> Request]
  BY DEF CycleIInv, TypedIInv
<1>2. TypedIInv'
  BY <1>1, CancellingTyped, JournallingTyped, SubmittingTyped
<1>3. ASSUME NEW step \in Steps, Goto(w, step), req[w].at # "idle",
             UNCHANGED <<broker, disk, status, blocks, trouble, overtaken, crossed>>,
             \/ step \notin Ahead
             \/ req[w].at \in Ahead /\ (step = "submit" => req[w].plan.cancels = {})
      PROVE  CycleIInv'
  <2> DEFINE r == [req[w] EXCEPT !.at = step]
  <2>1. req' = [req EXCEPT ![w] = r]
    BY <1>1, <1>3 DEF Goto
  <2>2. r.at = step /\ r.command = req[w].command /\ r.mem = req[w].mem /\ r.plan = req[w].plan
    BY <1>1 DEF Request
  <2> HIDE DEF r
  <2> QED BY <1>2, <1>3, <2>1, <2>2, CycleAdvances
<1>4. CASE List(w)
  <2> DEFINE L == Live
             r == [req[w] EXCEPT !.at = "cancel", !.plan = [req[w].plan EXCEPT !.cancels = L]]
  <2>1. req' = [req EXCEPT ![w].at = "cancel", ![w].plan.cancels = L]
    BY <1>4 DEF List
  <2> HIDE DEF L
  <2>2. req' = [req EXCEPT ![w] = r]
    BY <1>1, <2>1 DEF Request, Plan
  <2>3. r.at = "cancel" /\ r.command = req[w].command /\ r.mem = req[w].mem /\ r.plan.fills = req[w].plan.fills
    BY <1>1 DEF Request, Plan
  <2> HIDE DEF r
  <2>4. req[w].at # "idle" /\ UNCHANGED <<broker, disk, status, blocks, trouble, overtaken, crossed>> /\ r.at \notin Ahead
    BY <1>4, <2>3 DEF List, Ahead, history
  <2> QED BY <1>2, <2>2, <2>3, <2>4, CycleAdvances
<1>5. CASE NothingToSubmit(w)
  <2> DEFINE r == [req[w] EXCEPT !.at = "journal",
                                 !.plan = [req[w].plan EXCEPT !.placed = "no"]]
  <2>1. req' = [req EXCEPT ![w] = r]
    BY <1>1, <1>5, PlacedTyped DEF NothingToSubmit
  <2>2. r.at = "journal" /\ r.command = req[w].command /\ r.mem = req[w].mem /\ r.plan.fills = req[w].plan.fills
    BY <1>1 DEF Request, Plan
  <2> HIDE DEF r
  <2>3. req[w].at # "idle" /\ UNCHANGED <<broker, disk, status, blocks, trouble, overtaken, crossed>> /\ r.at \notin Ahead
    BY <1>5, <2>2 DEF NothingToSubmit, Ahead, history
  <2> QED BY <1>2, <2>1, <2>2, <2>3, CycleAdvances
<1>6. CASE Persist(w)
  <2>1. /\ Goto(w, "clear") /\ req[w].at = "persist" /\ UNCHANGED <<broker, disk, status, blocks, trouble, overtaken, crossed>>
    BY <1>6 DEF Persist, history
  <2> QED BY <1>3, <2>1 DEF Ahead, Steps
<1>7. CASE Cleared(w)
  <2>1. /\ Goto(w, "submit") /\ req[w].at = "clear" /\ req[w].plan.cancels = {}
        /\ UNCHANGED <<broker, disk, status, blocks, trouble, overtaken, crossed>>
    BY <1>7 DEF Cleared, history
  <2> QED BY <1>3, <2>1 DEF Ahead, Steps
<1>8. CASE Journal(w)
  <2>1. /\ Goto(w, "apply") /\ req[w].at = "journal" /\ UNCHANGED <<broker, disk, status, blocks, trouble, overtaken, crossed>>
    BY <1>8 DEF Journal, history
  <2> QED BY <1>3, <2>1 DEF Ahead, Steps
<1>9. CASE Cancelled(w) /\ Kind[req[w].command] = "kill"
  <2>1. /\ Goto(w, "read") /\ req[w].at = "cancel" /\ UNCHANGED <<broker, disk, status, blocks, trouble, overtaken, crossed>>
    BY <1>9 DEF Cancelled, history
  <2> QED BY <1>3, <2>1 DEF Ahead, Steps
<1> QED BY <1>4, <1>5, <1>6, <1>7, <1>8, <1>9

LEMMA CycleBegins ==
  ASSUME CycleIInv, NEW w \in Worker, NEW c \in Command, Begin(w, c)
  PROVE  CycleIInv'
<1> DEFINE mem == IF Kind[c] = "kill" /\ status[c] = "none"
                  THEN [disk EXCEPT !.controls = @ \union {"kill_switch",
                          "execution_paused", "entries_paused", "flatten_requested"}]
                  ELSE disk
           r == [at |-> FirstStep(c), command |-> c, mem |-> mem, plan |-> NoPlan]
<1>1. TypedIInv' /\ disk \in Saved /\ Kept(disk) /\ Squared(disk, orders, position)
  BY BeginTyped DEF CycleIInv, TypedIInv
<1>2. req' = [req EXCEPT ![w] = r] /\ Committed(status, c)
  BY DEF Begin, Committed
<1>3. Kept(mem) /\ Squared(mem, orders, position)
  BY <1>1 DEF Saved, Kept, Squared
<1> HIDE DEF mem
<1>4. FirstStep(c) \notin Ahead
  BY DEF FirstStep, Ahead
<1>5. r.mem = mem /\ r.at = FirstStep(c) /\ r.plan.fills = {} /\ r.command = c
  BY DEF NoPlan
<1> HIDE DEF r
<1>6. \A b, t : Sound(w, r, b, overtaken, orders, position, t)
  BY <1>3, <1>4, <1>5 DEF Sound
<1>7. UNCHANGED <<orders, position, trouble, disk, status, blocks, overtaken, crossed>>
  BY DEF Begin, broker, history
<1>8. /\ Accrues(orders, orders', position, position')
      /\ Undone(orders, orders', position, position', trouble, trouble')
      /\ ~crossed' => Suited(orders', position', trouble')
  BY <1>7, BrokerStill
<1>9. Sound(w, r, blocks[r.command], overtaken', orders', position', trouble')
      /\ Committed(status, r.command)
  BY <1>2, <1>5, <1>6, <1>7
<1> QED BY <1>1, <1>2, <1>7, <1>8, <1>9, CycleStays

\* Who is between reading the account and saving meets what this request does.
LEMMA OvertakesAll ==
  ASSUME NEW w \in Worker, Overtakes(w), NEW v \in Worker \ {w}
  PROVE  /\ v \in overtaken => v \in overtaken'
         /\ req[v].at \in Ahead \union After => v \in overtaken'
BY DEF Overtakes, Ahead, After

LEMMA CycleCancels ==
  ASSUME CycleIInv, NEW w \in Worker, CancelOne(w)
  PROVE  CycleIInv'
<1>1. /\ TypedIInv /\ TypedIInv' /\ w \in Worker /\ Book(orders)
      /\ req[w] \in Request /\ Requested(req[w], DOMAIN orders) /\ req \in [Worker -> Request]
  BY CancellingTyped DEF CycleIInv, TypedIInv
<1>2. PICK o \in req[w].plan.cancels :
        /\ o \in Live
        /\ orders' = [orders EXCEPT ![o].status = "cancelling"]
        /\ req' = [req EXCEPT ![w].plan.cancels = @ \ {o}]
  BY DEF CancelOne
<1> DEFINE L == req[w].plan.cancels \ {o}
           r == [req[w] EXCEPT !.plan = [req[w].plan EXCEPT !.cancels = L]]
           b == blocks[req[w].command]
<1>3. req' = [req EXCEPT ![w] = r]
  BY <1>1, <1>2 DEF Request, Plan
<1>4. /\ r.at = req[w].at /\ r.mem = req[w].mem /\ r.plan.fills = req[w].plan.fills
      /\ r.plan.delta = req[w].plan.delta /\ r.plan.forced = req[w].plan.forced
      /\ r.plan.intent = req[w].plan.intent /\ r.plan.position = req[w].plan.position
      /\ r.plan.cancels = L /\ r.command = req[w].command
  BY <1>1 DEF Request, Plan
<1> HIDE DEF r, b
<1>5. o \in DOMAIN orders /\ orders[o].status \in {"open", "cancelling"}
  BY <1>2 DEF Live, With
<1>6. /\ DOMAIN orders' = DOMAIN orders
      /\ \A p \in DOMAIN orders :
           /\ orders'[p].delta = orders[p].delta
           /\ orders'[p].status = IF p = o THEN "cancelling" ELSE orders[p].status
  BY <1>1, <1>2, <1>5, OrderChanges
<1>7. Settles(orders', orders) /\ Executions(orders') = Executions(orders)
  BY <1>5, <1>6, WithdrawalSettles
<1>8. /\ Open(orders') = Open(orders) \ {o}
      /\ Working(orders') = Working(orders)
  BY <1>5, <1>6 DEF Open, Working, Status
<1>9. UNCHANGED <<position, trouble, disk, status, blocks, crossed>> /\ Overtakes(w)
  BY DEF CancelOne
<1>10. Accrues(orders, orders', position, position')
  BY <1>7, <1>9, AccruesNothing DEF Settles
<1>11. ~crossed' => Suited(orders', position', trouble')
  BY <1>7, <1>9, SuitedKept DEF CycleIInv
<1>12. req[w].at \in {"cancel", "clear"}
  BY DEF CancelOne
<1>13. Sound(w, req[w], b, overtaken, orders, position, trouble) /\ req[w].mem \in Saved
       /\ Committed(status, req[w].command)
  BY <1>1, <1>12 DEF CycleIInv, b, Request
<1>14. o \in Working(orders)
  BY <1>5 DEF Working, Status
<1>15. Clearing(req[w], orders, position, trouble) => Clearing(r, orders', position', trouble')
  BY <1>4, <1>8, <1>9, <1>12, <1>14 DEF Clearing
<1>16. Frozen(req[w], b) => Frozen(r, b)
  BY <1>4 DEF Frozen
<1>17. w \in overtaken => w \in overtaken'
  BY <1>9 DEF Overtakes
<1>18. Sound(w, r, b, overtaken', orders', position', trouble')
  BY <1>4, <1>7, <1>10, <1>13, <1>15, <1>16, <1>17 DEF Sound, Accrues
<1>19. \A v \in Worker \ {w} :
         /\ v \in overtaken => v \in overtaken'
         /\ req[v].at \in Ahead => v \in overtaken'
  BY <1>9, OvertakesAll
<1> QED BY <1>1, <1>3, <1>4, <1>9, <1>10, <1>11, <1>13, <1>18, <1>19, CycleStays DEF b

LEMMA PlanIsSound ==
  ASSUME NEW w, NEW r, NEW b, NEW out, NEW pt, NEW later, NEW u, NEW c, NEW held, NEW live,
         NEW filled, Decided(r.plan, c, b, r.mem, held, live, filled), r.at = "persist",
         Kept(r.mem), Squared(r.mem, pt, later),
         filled \subseteq Executions(pt), Open(pt) \subseteq live,
         Undisturbed(u) => later = held
  PROVE  Sound(w, r, b, out, pt, later, u)
<1>1. r.plan.delta # 0 => Frozen(r, b)
  BY DEF Decided, Frozen
<1>2. r.plan.delta # 0 \/ r.plan.forced => Clearing(r, pt, later, u)
  BY DEF Decided, Clearing
<1>3. r.plan.fills \subseteq Executions(pt)
  BY DEF Decided
<1> QED BY <1>1, <1>2, <1>3 DEF Sound

LEMMA CycleReads ==
  ASSUME CycleIInv, NEW w \in Worker, Read(w) \/ ReadTorn(w)
  PROVE  CycleIInv'
<1>1. /\ TypedIInv /\ TypedIInv' /\ w \in Worker
      /\ req[w] \in Request /\ req \in [Worker -> Request]
  BY TypedReading DEF CycleIInv, TypedIInv
<1> DEFINE b == blocks[req[w].command]
<1>2. req[w].at = "read" /\ UNCHANGED <<disk, status, blocks, crossed>>
      /\ overtaken' = overtaken \ {w}
  BY DEF Read, ReadTorn, Freeze
<1>3. /\ Kept(req[w].mem) /\ Squared(req[w].mem, orders, position) /\ req[w].mem \in Saved
      /\ Committed(status, req[w].command)
  BY <1>1, <1>2 DEF CycleIInv, Sound, Request
<1>4. /\ Live = Working(orders) /\ Filled = Executions(orders) /\ With({"open"}) = Open(orders)
  BY DEF Live, Filled, With, Working, Executions, Open, Status
<1> HIDE DEF b
<1>5. ASSUME NEW p \in Plan, NEW live, NEW filled,
             Decided(p, req[w].command, b, req[w].mem, position, live, filled),
             filled \subseteq Executions(orders'), Open(orders') \subseteq live,
             Undisturbed(trouble') => position' = position,
             req' = [req EXCEPT ![w] = [req[w] EXCEPT !.at = "persist", !.plan = p]],
             ~crossed' => Suited(orders', position', trouble'),
             Accrues(orders, orders', position, position'),
             Undone(orders, orders', position, position', trouble, trouble')
      PROVE  CycleIInv'
  <2> DEFINE r == [req[w] EXCEPT !.at = "persist", !.plan = p]
  <2>1. r.at = "persist" /\ r.plan = p /\ r.mem = req[w].mem /\ r.command = req[w].command
    BY <1>1 DEF Request
  <2>2. req' = [req EXCEPT ![w] = r]
    BY <1>5
  <2> HIDE DEF r
  <2>3. Decided(r.plan, req[w].command, b, r.mem, position, live, filled)
    BY <1>5, <2>1
  <2>4. Kept(r.mem) /\ Squared(r.mem, orders', position')
    BY <1>3, <1>5, <2>1 DEF Accrues
  <2>5. Sound(w, r, b, overtaken', orders', position', trouble')
    BY <1>5, <2>1, <2>3, <2>4, PlanIsSound
  <2> QED BY <1>1, <1>2, <1>3, <1>5, <2>1, <2>2, <2>5, CycleStays DEF b
<1>6. CASE Read(w)
  <2>1. trouble' = trouble /\ orders' = orders /\ position' = position
    BY <1>6 DEF Read, broker
  <2>2. trouble' \in Seq(Troubles) /\ Len(trouble') + changes <= MaxEvents
    BY <1>1, <2>1 DEF TypedIInv
  <2>3. Live \in SUBSET DOMAIN orders /\ Filled \in SUBSET DOMAIN orders
    BY DEF Live, Filled, With
  <2>4. PICK p \in Plan :
          /\ Decided(p, req[w].command, b, req[w].mem, position, Live, Filled)
          /\ req' = [req EXCEPT ![w] = [req[w] EXCEPT !.at = "persist", !.plan = p]]
    BY <1>1, <1>6, <2>2, <2>3, FreezeTyped DEF Read, b
  <2>5. Filled \subseteq Executions(orders') /\ Open(orders') \subseteq Live
    BY <1>4, <2>1 DEF Working, Open, Status
  <2>6. /\ Accrues(orders, orders', position, position')
        /\ Undone(orders, orders', position, position', trouble, trouble')
        /\ ~crossed' => Suited(orders', position', trouble')
    BY <1>2, <2>1, BrokerStill
  <2> QED BY <1>5, <2>1, <2>4, <2>5, <2>6
<1>7. CASE ReadTorn(w)
  <2>1. trouble' \in Seq(Troubles) /\ Len(trouble') + changes <= MaxEvents
    BY <1>1, <1>7, FaultTyped DEF ReadTorn
  <2>2. ~ Undisturbed(trouble')
    BY <1>1, <1>7, TroubleAdds DEF ReadTorn
  <2>3. PICK o \in With({"open"}) :
          /\ Executed(o)
          /\ \E filled \in {Filled, Filled \union {o}} :
               Freeze(w, position, Live \ {o}, filled)
    BY <1>7 DEF ReadTorn
  <2>4. PICK filled \in {Filled, Filled \union {o}} : Freeze(w, position, Live \ {o}, filled)
    BY <2>3
  <2>5. /\ o \in DOMAIN orders /\ o \in Open(orders) /\ o \in Working(orders)
        /\ Live \ {o} \in SUBSET DOMAIN orders /\ filled \in SUBSET DOMAIN orders
    BY <1>4, <2>3, <2>4 DEF Live, Filled, With, Open, Working, Status
  <2>6. PICK p \in Plan :
          /\ Decided(p, req[w].command, b, req[w].mem, position, Live \ {o}, filled)
          /\ req' = [req EXCEPT ![w] = [req[w] EXCEPT !.at = "persist", !.plan = p]]
    BY <1>1, <1>2, <2>1, <2>4, <2>5, FreezeTyped DEF b
  <2>7. /\ Accrues(orders, orders', position, position')
        /\ Settles(orders', orders)
        /\ Open(orders') = Open(orders) \ {o}
        /\ Executions(orders') = Executions(orders) \union {o}
    BY <1>1, <2>3, <2>5, ExecutionAccrues
  <2>8. ~crossed' => Suited(orders', position', trouble')
    BY <1>2, <2>2, <2>7, SuitedKept DEF CycleIInv
  <2>9. filled \subseteq Executions(orders') /\ Open(orders') \subseteq Live \ {o}
    BY <1>4, <2>4, <2>7 DEF Working, Open, Status
  <2>10. Undone(orders, orders', position, position', trouble, trouble')
    BY <2>2, <2>7 DEF Undone, Settles
  <2> QED BY <1>5, <2>2, <2>6, <2>7, <2>8, <2>9, <2>10
<1> QED BY <1>6, <1>7

\* A cycle with an order to place or a position to close that nobody overtook finds,
\* when it submits, nothing open and the position its plan was made for.
LEMMA AllClear ==
  ASSUME CycleIInv, NEW w \in Worker \ overtaken, req[w].at = "submit",
         req[w].plan.delta # 0 \/ req[w].plan.forced
  PROVE  Open(orders) = {} /\ (Undisturbed(trouble) => position = req[w].plan.position)
<1>1. Clearing(req[w], orders, position, trouble)
  BY DEF CycleIInv, Sound, Ahead
<1> QED BY <1>1 DEF Clearing

LEMMA ReadyToSubmit ==
  ASSUME CycleIInv, NEW w \in Worker, Placing(w)
  PROVE  /\ Frozen(req[w], blocks[req[w].command]) /\ Kept(req[w].mem)
         /\ w \notin overtaken =>
              /\ Open(orders) = {}
              /\ Undisturbed(trouble) => position = req[w].plan.position
<1>1. /\ Sound(w, req[w], blocks[req[w].command], overtaken, orders, position, trouble)
      /\ req[w].at = "submit" /\ req[w].plan.delta # 0
  BY DEF CycleIInv, Placing
<1>2. Frozen(req[w], blocks[req[w].command]) /\ Kept(req[w].mem)
  BY <1>1 DEF Sound, Ahead
<1> QED BY <1>1, <1>2, AllClear

\* An order reaches the broker, or was there already.
LEMMA OrderPlaced ==
  ASSUME CycleIInv, NEW w \in Worker, Placing(w), Posted(w)
  PROVE  LET i == req[w].plan.intent
             d == req[w].plan.delta IN
         /\ Extends(orders', orders) /\ Executions(orders') = Executions(orders)
         /\ crossed => crossed'
         /\ i \in DOMAIN orders => orders' = orders
         /\ i \notin DOMAIN orders =>
              /\ Open(orders') = Open(orders) \union {i} /\ orders'[i].delta = d
              /\ w \in overtaken => crossed'
<1> DEFINE i == req[w].plan.intent
           d == req[w].plan.delta
<1>1. /\ DOMAIN orders' = DOMAIN orders \union {i}
      /\ \A o \in DOMAIN orders : orders'[o] = orders[o]
      /\ i \notin DOMAIN orders => orders'[i] = [delta |-> d, status |-> "open"]
      /\ Book(orders) /\ Book(orders')
  BY PostedBook DEF CycleIInv, TypedIInv
<1>2. /\ crossed => crossed'
      /\ w \in overtaken /\ i \notin DOMAIN orders => crossed'
  BY DEF Posted
<1> HIDE DEF i, d
<1>3. Extends(orders', orders) /\ Executions(orders') = Executions(orders)
  BY <1>1 DEF Extends, Executions, Status
<1>4. ASSUME i \in DOMAIN orders PROVE orders' = orders
  <2>1. DOMAIN orders' = DOMAIN orders
    BY <1>1, <1>4
  <2>2. orders \in [DOMAIN orders -> Order] /\ orders' \in [DOMAIN orders -> Order]
    BY <1>1, <2>1 DEF Book
  <2>3. \A o \in DOMAIN orders : orders'[o] = orders[o]
    BY <1>1
  <2> QED BY <2>2, <2>3
<1>5. ASSUME i \notin DOMAIN orders
      PROVE  /\ Open(orders') = Open(orders) \union {i} /\ orders'[i].delta = d
             /\ w \in overtaken => crossed'
  <2>1. i \in Open(orders') /\ Open(orders') = Open(orders) \union {i}
    BY <1>1, <1>5 DEF Open, Status
  <2>2. orders'[i].delta = d
    BY <1>1, <1>5
  <2> QED BY <1>2, <1>5, <2>1, <2>2
<1> QED BY <1>2, <1>3, <1>4, <1>5 DEF i, d

LEMMA CycleSubmits ==
  ASSUME CycleIInv, NEW w \in Worker, Submit(w) \/ SubmitFails(w)
  PROVE  CycleIInv'
<1>1. /\ TypedIInv /\ TypedIInv' /\ w \in Worker
      /\ req[w] \in Request /\ req \in [Worker -> Request] /\ req[w].mem \in Saved
  BY SubmittingTyped DEF CycleIInv, TypedIInv, Request
<1> DEFINE i == req[w].plan.intent
           d == req[w].plan.delta
           b == blocks[req[w].command]
<1>2. /\ Placing(w) /\ UNCHANGED <<disk, position, status, blocks>>
      /\ \E outcome \in {"no", "yes", "error"} : Placed(w, outcome)
      /\ Posted(w) \/ UNCHANGED <<orders, history>>
      /\ Undisturbed(trouble') => Undisturbed(trouble)
  <2>1. CASE Submit(w)
    BY <2>1 DEF Submit
  <2>2. CASE SubmitFails(w)
    BY <1>1, <2>2, TroubleAdds DEF SubmitFails
  <2> QED BY <2>1, <2>2
<1>3. /\ Frozen(req[w], b)
      /\ w \notin overtaken =>
           /\ Open(orders) = {}
           /\ Undisturbed(trouble) => position = req[w].plan.position
  BY <1>1, <1>2, ReadyToSubmit
<1>4. /\ Extends(orders', orders) /\ Executions(orders') = Executions(orders)
      /\ crossed => crossed'
      /\ \/ orders' = orders
         \/ /\ Open(orders') = Open(orders) \union {i} /\ orders'[i].delta = d
            /\ w \in overtaken => crossed'
  <2>1. CASE Posted(w)
    BY <1>2, <2>1, OrderPlaced
  <2>2. CASE UNCHANGED <<orders, history>>
    BY <2>2 DEF Extends, history
  <2> QED BY <1>2, <2>1, <2>2
<1>5. \A v \in Worker \ {w} :
        /\ v \in overtaken => v \in overtaken'
        /\ req[v].at \in Ahead /\ v \notin overtaken' => orders' = orders
  <2>1. CASE Posted(w)
    BY <2>1, OvertakesAll DEF Posted
  <2>2. CASE UNCHANGED <<orders, history>>
    BY <2>2 DEF history
  <2> QED BY <1>2, <2>1, <2>2
<1>6. Accrues(orders, orders', position, position')
  BY <1>2, <1>4, AccruesNothing
<1>7. ASSUME ~crossed' PROVE Suited(orders', position', trouble')
  <2>0. Suited(orders, position, trouble)
    BY <1>4, <1>7 DEF CycleIInv
  <2>1. CASE orders' = orders
    BY <1>2, <2>0, <2>1 DEF Suited
  <2>2. CASE orders' # orders
    <3>1. w \notin overtaken /\ Open(orders') = {i} /\ orders'[i].delta = d
      BY <1>3, <1>4, <1>7, <2>2
    <3>2. Undisturbed(trouble') => position' = i.current /\ d = Leg(i.current, i.target)
      BY <1>2, <1>3, <3>1 DEF Frozen, i, d
    <3> HIDE DEF i, d
    <3> QED BY <3>1, <3>2 DEF Suited
  <2> QED BY <2>1, <2>2
<1> HIDE DEF i, d, b
<1>8. PICK outcome \in {"no", "yes", "error"} : Placed(w, outcome)
  BY <1>2
<1> DEFINE r == [req[w] EXCEPT !.at = "journal",
                               !.plan = [req[w].plan EXCEPT !.placed = outcome]]
<1>9. req' = [req EXCEPT ![w] = r]
  BY <1>1, <1>8 DEF Placed, Request, Plan
<1>10. r.at = "journal" /\ r.mem = req[w].mem /\ r.plan.fills = req[w].plan.fills
       /\ r.command = req[w].command
  BY <1>1 DEF Request, Plan
<1> HIDE DEF r
<1>11. Sound(w, req[w], b, overtaken, orders, position, trouble)
       /\ Committed(status, req[w].command)
  BY <1>1, <1>2 DEF CycleIInv, Placing, b
<1>12. Sound(w, r, b, overtaken', orders', position', trouble')
  BY <1>1, <1>4, <1>6, <1>10, <1>11 DEF Sound, Ahead, Accrues
<1>13. \A v \in Worker \ {w} : req[v].at \in Ahead /\ v \notin overtaken' =>
         Undone(orders, orders', position, position', trouble, trouble')
  BY <1>2, <1>5 DEF Undone
<1> QED BY <1>1, <1>2, <1>5, <1>6, <1>7, <1>9, <1>10, <1>11, <1>12, <1>13, CycleStays DEF b

-----------------------------------------------------------------------------
LEMMA CycleInit == Init => CycleIInv
<1> SUFFICES ASSUME Init PROVE CycleIInv
  OBVIOUS
<1>1. TypedIInv
  BY TypedInit
<1>2. \A s : Status(orders, s) = {}
  BY DEF Init, Status
<1>3. Suited(orders, position, trouble)
  BY <1>2 DEF Suited, Open
<1>4. Kept(disk) /\ disk.unattributed = {} /\ disk.seen = {} /\ disk.attribution = 0
  BY DEF Init, Fresh, Kept
<1>5. Executions(orders) \ disk.seen = {} /\ Net(orders, {}) = 0 /\ position = 0
  BY <1>2, NetOfNone DEF Executions, Init
<1>6. Squared(disk, orders, position)
  BY <1>4, <1>5 DEF Squared
<1>7. \A w \in Worker : req[w].at = "idle"
  BY DEF Init, Idle
<1> QED BY <1>1, <1>3, <1>4, <1>6, <1>7 DEF CycleIInv

LEMMA CycleNext == CycleIInv /\ [Next]_vars => CycleIInv'
<1> SUFFICES ASSUME CycleIInv, [Next]_vars PROVE CycleIInv'
  OBVIOUS
<1>1. CASE UNCHANGED vars
  BY <1>1 DEF CycleIInv, TypedIInv, vars
<1>2. ASSUME NEW w \in Worker, Step(w) PROVE CycleIInv'
  <2>1. ASSUME NEW c \in Command, Begin(w, c) PROVE CycleIInv'
    BY <2>1, CycleBegins
  <2>2. CASE Cycle(w)
    BY <2>2, CycleReads, CycleEnding, CycleSubmits, CycleGoesOn DEF Cycle
  <2> QED BY <1>2, <2>1, <2>2, CycleEnding, CycleCancels, CycleGoesOn DEF Step
<1> QED BY <1>1, <1>2, CycleCommands, CycleBroker DEF Next

(* The inductive invariant, for any number of overlapping requests: every copy  *)
(* of the state counts each fill once, what a request that nobody overtook holds *)
(* on to between its awaits is still true when it acts, and the orders at work    *)
(* suit the position until an overtaken request places one.                       *)
THEOREM CycleInvariant == Spec => []CycleIInv
<1> QED BY CycleInit, CycleNext, PTL DEF Spec

(* One order is open at a time, until a request places one although another's    *)
(* order or cancellation overtook it: any other request submits only when        *)
(* nothing it read as open is left, and nothing opens in between.                 *)
THEOREM NeverTwoOpen == Spec => []OneLiveOrder
<1>1. CycleIInv => OneLiveOrder
  <2> SUFFICES ASSUME CycleIInv, ~crossed PROVE OneLiveOrder
    BY DEF OneLiveOrder
  <2> DEFINE S == With({"open"})
  <2>1. \A o, p \in S : o = p
    BY DEF CycleIInv, Suited, Open, Status, With
  <2> HIDE DEF S
  <2>2. CASE S = {}
    <3>1. Cardinality(S) = 0
      BY <2>2, FS_EmptySet
    <3> QED BY <3>1 DEF OneLiveOrder, S
  <2>3. CASE S # {}
    <3>1. PICK o : S = {o}
      BY <2>1, <2>3
    <3>2. Cardinality(S) = 1
      BY <3>1, FS_Singleton
    <3> QED BY <3>2 DEF OneLiveOrder, S
  <2> QED BY <2>2, <2>3
<1> QED BY <1>1, CycleInvariant, PTL

(* Every fill is counted once, however many requests save over each other: the  *)
(* position is what strategies own, what was found to be nobody's and what no    *)
(* cycle has seen.                                                              *)
THEOREM EveryFillCounts == Spec => []FillsCountOnce
<1>1. CycleIInv => FillsCountOnce
  <2> SUFFICES ASSUME CycleIInv PROVE FillsCountOnce
    OBVIOUS
  <2> DEFINE U == disk.unattributed
             F == Filled \ disk.seen
  <2>1. Filled = Executions(orders)
    BY DEF Filled, With, Executions, Status
  <2>2. position = disk.attribution + Net(orders, U) + Net(orders, F)
    BY <2>1 DEF CycleIInv, Squared
  <2>3. U \in SUBSET DOMAIN orders /\ F \in SUBSET DOMAIN orders
    BY <2>1 DEF CycleIInv, Squared, Executions, Status
  <2> HIDE DEF U, F
  <2>4. Size(U) = Net(orders, U) /\ Size(F) = Net(orders, F)
    BY <2>3, SizeIsNet
  <2> QED BY <2>2, <2>4 DEF FillsCountOnce, U, F
<1> QED BY <1>1, CycleInvariant, PTL

\* When nothing fills late or between two reads, an open order's fill is the only
\* step that moves the position.
LEMMA OnlyFills ==
  ASSUME TypedIInv, [Next]_vars, Undisturbed(trouble')
  PROVE  \/ \E o \in DOMAIN orders : Fill(o)
         \/ /\ position' = position
            /\ \A o \in DOMAIN orders :
                 orders'[o].status = "filled" => orders[o].status = "filled"
<1> DEFINE Still == /\ position' = position
                    /\ \A o \in DOMAIN orders :
                         orders'[o].status = "filled" => orders[o].status = "filled"
<1>0. Book(orders)
  BY DEF TypedIInv
<1>1. UNCHANGED <<position, orders>> => Still
  OBVIOUS
<1>2. CASE UNCHANGED vars
  BY <1>1, <1>2 DEF vars
<1>3. CASE \/ \E c \in Command : Schedule(c)
           \/ Operate \/ Restart
  BY <1>1, <1>3 DEF Schedule, Operate, StopEntries, PauseExecution, ResumeExecution,
                   ClearKill, PauseAutonomy, ResumeAutonomy, Set, Restart, broker
<1>4. CASE TimePasses
  <2>1. \A o \in DOMAIN orders :
          orders'[o].status \in {orders[o].status, "canceled"}
    <3>1. CASE phase' # "closed"
      BY <1>4, <3>1 DEF TimePasses
    <3>2. CASE phase' = "closed"
      <4>1. orders' = [o \in DOMAIN orders |-> IF o \in Live
                         THEN [orders[o] EXCEPT !.status = "canceled"] ELSE orders[o]]
        BY <1>4, <3>2 DEF TimePasses
      <4>2. \A o \in DOMAIN orders : orders[o] \in Order
        BY <1>0 DEF Book
      <4> QED BY <4>1, <4>2 DEF Order
    <3> QED BY <3>1, <3>2
  <2> QED BY <1>4, <2>1 DEF TimePasses
<1>5. ASSUME NEW o \in DOMAIN orders, Fill(o) \/ FillLate(o) \/ CancelTakesEffect(o)
      PROVE  Still \/ \E p \in DOMAIN orders : Fill(p)
  <2>1. CASE CancelTakesEffect(o)
    <3>1. \A p \in DOMAIN orders :
            orders'[p].status = IF p = o THEN "canceled" ELSE orders[p].status
      BY <1>0, <2>1, OrderChanges DEF CancelTakesEffect
    <3> QED BY <2>1, <3>1 DEF CancelTakesEffect
  <2>2. ~FillLate(o)
    BY TroubleAdds DEF FillLate
  <2> QED BY <1>5, <2>1, <2>2
<1>6. ASSUME NEW w \in Worker, Step(w) PROVE Still
  <2>1. ASSUME NEW c \in Command, Begin(w, c) PROVE Still
    BY <1>1, <2>1 DEF Begin, broker
  <2>2. CASE CancelOne(w)
    <3>1. PICK o \in req[w].plan.cancels :
            /\ o \in Live
            /\ orders' = [orders EXCEPT ![o].status = "cancelling"]
      BY <2>2 DEF CancelOne
    <3>2. o \in DOMAIN orders
      BY <3>1 DEF Live, With
    <3>3. \A p \in DOMAIN orders :
            orders'[p].status = IF p = o THEN "cancelling" ELSE orders[p].status
      BY <1>0, <3>1, <3>2, OrderChanges
    <3> QED BY <2>2, <3>3 DEF CancelOne
  <2>3. CASE Submit(w) \/ SubmitFails(w)
    <3>1. position' = position /\ Placing(w) /\ (Posted(w) \/ UNCHANGED <<orders, history>>)
      BY <2>3 DEF Submit, SubmitFails
    <3>2. Posted(w) => \A o \in DOMAIN orders : orders'[o] = orders[o]
      BY <3>1, PostedBook
    <3> QED BY <3>1, <3>2
  <2>4. ~ReadTorn(w)
    BY TroubleAdds DEF ReadTorn
  <2>5. CASE List(w) \/ CancelRefused(w) \/ Cancelled(w) \/ Verify(w)
    BY <1>1, <2>5 DEF List, CancelRefused, Cancelled, Verify, broker
  <2>6. CASE \/ Read(w) \/ Persist(w) \/ PersistConflicts(w) \/ Cleared(w)
             \/ NothingToSubmit(w) \/ Journal(w) \/ Apply(w) \/ Fails(w)
    BY <1>1, <2>6 DEF Read, Persist, PersistConflicts, Cleared, NothingToSubmit, Journal,
                      Apply, Fails, broker
  <2> QED BY <1>6, <2>1, <2>2, <2>3, <2>4, <2>5, <2>6 DEF Step, Cycle
<1> QED BY <1>2, <1>3, <1>4, <1>5, <1>6 DEF Next, Broker

\* A suited order's fill stays on the position's side, and one that reduces does.
LEMMA LegKeepsSide ==
  ASSUME NEW held \in Int, NEW target \in Int, Leg(held, target) # 0
  PROVE  /\ held * (held + Leg(held, target)) >= 0
         /\ held * Leg(held, target) < 0 => Reduces(held, Leg(held, target))
<1>1. held * target \in Int
  OBVIOUS
<1>2. CASE held * target < 0
  <2>1. Leg(held, target) = -held /\ held # 0
    BY <1>2 DEF Leg
  <2>2. held + Leg(held, target) = 0
    BY <2>1
  <2> QED BY <2>1, <2>2 DEF Reduces, Abs
<1>3. CASE ~(held * target < 0)
  <2>1. Leg(held, target) = target - held
    BY <1>3 DEF Leg
  <2>2. held + Leg(held, target) = target
    BY <2>1
  <2>3. CASE held = 0
    BY <2>1, <2>2, <2>3
  <2>4. CASE held > 0
    <3>1. target >= 0
      BY <1>3, <2>4
    <3>2. held * (target - held) < 0 => target < held
      BY <2>4, <3>1
    <3> QED BY <1>1, <1>3, <2>1, <2>2, <2>4, <3>1, <3>2 DEF Reduces, Abs
  <2>5. CASE held < 0
    <3>1. target <= 0
      BY <1>3, <2>5
    <3>2. held * (target - held) < 0 => target > held
      BY <2>5, <3>1
    <3> QED BY <1>1, <1>3, <2>1, <2>2, <2>5, <3>1, <3>2 DEF Reduces, Abs
  <2> QED BY <2>3, <2>4, <2>5
<1> QED BY <1>2, <1>3

(* When no order fills late or between two reads of one overview, and none was   *)
(* placed by an overtaken request, none overshoots: the one that fills is for the *)
(* position there is.                                                            *)
THEOREM OrdersFit == Spec => NoOvershoot
<1> DEFINE Fitting ==
      ~Happened({"late", "torn"})' /\ ~crossed =>
        /\ position * position' >= 0
        /\ \A o \in DOMAIN orders :
             orders'[o].status # orders[o].status /\ orders'[o].status = "filled"
             /\ o.current * orders[o].delta < 0
               => Reduces(position, orders[o].delta)
<1>1. CycleIInv /\ [Next]_vars => [Fitting]_vars
  <2> SUFFICES ASSUME CycleIInv, [Next]_vars, Undisturbed(trouble'), ~crossed
               PROVE  Fitting
    BY DEF Happened, Undisturbed
  <2>1. TypedIInv /\ position \in Int /\ Book(orders)
    BY DEF CycleIInv, TypedIInv
  <2>2. CASE \E o \in DOMAIN orders : Fill(o)
    <3>1. PICK o \in DOMAIN orders : Fill(o)
      BY <2>2
    <3>2. o \in Open(orders) /\ position' = position + orders[o].delta
          /\ trouble' = trouble /\ Executed(o)
      BY <3>1 DEF Fill, Executed, Open, Status
    <3>3. position = o.current /\ orders[o].delta = Leg(o.current, o.target)
      BY <3>2 DEF CycleIInv, Suited
    <3>4. o.target \in Int /\ orders[o].delta # 0
      BY <2>1 DEF Book, Intent, Order
    <3>5. /\ position * (position + orders[o].delta) >= 0
          /\ position * orders[o].delta < 0 => Reduces(position, orders[o].delta)
      BY <2>1, <3>3, <3>4, LegKeepsSide
    <3>6. \A p \in DOMAIN orders : p # o => orders'[p].status = orders[p].status
      BY <2>1, <3>2, ExecutedOrder
    <3> QED BY <3>2, <3>3, <3>5, <3>6
  <2>3. CASE ~ \E o \in DOMAIN orders : Fill(o)
    <3>1. /\ position' = position
          /\ \A o \in DOMAIN orders :
               orders'[o].status = "filled" => orders[o].status = "filled"
      BY <2>1, <2>3, OnlyFills
    <3>2. position * position >= 0
      BY <2>1
    <3> QED BY <3>1, <3>2
  <2> QED BY <2>2, <2>3
<1> QED BY <1>1, CycleInvariant, PTL DEF Spec, NoOvershoot

\* Only a submission makes orders.
LEMMA OnlySubmissions ==
  ASSUME TypedIInv, [Next]_vars, NEW o \in DOMAIN orders' \ DOMAIN orders
  PROVE  \E w \in Worker : /\ Placing(w)
                           /\ orders'[o].delta = req[w].plan.delta
                           /\ \A v \in Worker \ {w} : req'[v] = req[v]
<1>0. Book(orders)
  BY DEF TypedIInv
<1>1. DOMAIN orders' # DOMAIN orders
  OBVIOUS
<1>2. ~ UNCHANGED vars
  BY <1>1 DEF vars
<1>3. ~ (\/ \E c \in Command : Schedule(c)
         \/ Operate \/ Restart)
  BY <1>1 DEF Schedule, Operate, StopEntries, PauseExecution, ResumeExecution,
              ClearKill, PauseAutonomy, ResumeAutonomy, Set, Restart, broker
<1>4. ~Broker
  <2>1. ~TimePasses
    BY <1>1 DEF TimePasses
  <2>2. ASSUME NEW p \in DOMAIN orders, Fill(p) \/ FillLate(p) \/ CancelTakesEffect(p)
        PROVE  FALSE
    BY <1>1, <2>2 DEF Fill, FillLate, CancelTakesEffect, Executed
  <2> QED BY <2>1, <2>2 DEF Broker
<1>5. PICK w \in Worker : Step(w)
  BY <1>2, <1>3, <1>4 DEF Next
<1>6. \A c \in Command : ~Begin(w, c)
  BY <1>1 DEF Begin, broker
<1>7. ~CancelOne(w) /\ ~ReadTorn(w)
  BY <1>1 DEF CancelOne, ReadTorn, Executed
<1>8. ~(List(w) \/ CancelRefused(w) \/ Cancelled(w) \/ Verify(w))
  BY <1>1 DEF List, CancelRefused, Cancelled, Verify, broker
<1>9. ~(\/ Read(w) \/ Persist(w) \/ PersistConflicts(w) \/ Cleared(w)
        \/ NothingToSubmit(w) \/ Journal(w) \/ Apply(w) \/ Fails(w))
  BY <1>1 DEF Read, Persist, PersistConflicts, Cleared, NothingToSubmit, Journal,
              Apply, Fails, broker
<1>10. Placing(w) /\ Posted(w) /\ \E outcome : Placed(w, outcome)
  BY <1>1, <1>5, <1>6, <1>7, <1>8, <1>9 DEF Step, Cycle, Submit, SubmitFails
<1>12. \A v \in Worker \ {w} : req'[v] = req[v]
  BY <1>10 DEF Placed, TypedIInv
<1>11. /\ DOMAIN orders' = DOMAIN orders \union {req[w].plan.intent}
       /\ req[w].plan.intent \notin DOMAIN orders =>
            orders'[req[w].plan.intent] = [delta |-> req[w].plan.delta, status |-> "open"]
  BY <1>10, PostedBook
<1> QED BY <1>10, <1>11, <1>12

(* A command committed, or a request begun, under controls that stop entries     *)
(* places only orders that make the position they meet smaller, unless the        *)
(* request is overtaken or an order fills late or between two reads.               *)
THEOREM PausesHold == Spec => StopsHold
<1> DEFINE Holding ==
      ~Happened({"late", "torn"}) =>
        \A w \in Worker \ overtaken :
          req[w].at = "submit" /\ req'[w].at = "journal" /\ Stopped(w)
            => \A o \in DOMAIN orders' \ DOMAIN orders :
                 Reduces(position, orders'[o].delta)
<1>1. CycleIInv /\ [Next]_vars => [Holding]_vars
  <2> SUFFICES ASSUME CycleIInv, [Next]_vars, Undisturbed(trouble),
                      NEW w \in Worker \ overtaken, req[w].at = "submit", req'[w].at = "journal",
                      Stopped(w), NEW o \in DOMAIN orders' \ DOMAIN orders
               PROVE  Reduces(position, orders'[o].delta)
    BY DEF Happened, Undisturbed
  <2>1. TypedIInv
    BY DEF CycleIInv
  <2>2. PICK v \in Worker : /\ Placing(v) /\ orders'[o].delta = req[v].plan.delta
                            /\ \A u \in Worker \ {v} : req'[u] = req[u]
    BY <2>1, OnlySubmissions
  <2>3. v = w
    BY <2>2
  <2>4. Frozen(req[w], blocks[req[w].command]) /\ position = req[w].plan.position
    BY <2>2, <2>3, ReadyToSubmit
  <2> QED BY <2>2, <2>3, <2>4 DEF Frozen, Stopped, Stops
<1> QED BY <1>1, CycleInvariant, PTL DEF Spec, StopsHold
-----------------------------------------------------------------------------
(* What a flattening command leaves behind when nothing goes wrong *)

\* Its order was accepted, and it is not settled that the command is done.
Answered(r) == r.at \in After /\ r.plan.placed = "yes"

Covered(os, held) ==
  \/ held = 0 /\ Open(os) = {}
  \/ \E o \in Open(os) : Open(os) = {o} /\ os[o].delta = -held

\* What a cycle that flattens left at the broker while nobody overtook it.
Left(r, os, held, ph) ==
  LET p == r.plan IN
  \/ p.placed = "yes" /\ (Covered(os, held) \/ ph = "closed")
  \/ /\ p.placed = "no" /\ held = p.position /\ Open(os) = {}
     /\ p.delta = 0 \/ ~p.ready

\* A cycle that flattens.
Flattening(w, r, out, os, held, ph) ==
  LET p == r.plan IN
  /\ p.forced
  /\ p.position = 0 => p.delta = 0
  /\ p.position # 0 => p.delta = -p.position \/ (p.delta = 0 /\ ~r.mem.managed)
  /\ r.at \in After /\ w \notin out => Left(r, os, held, ph)

Orderly(w, r, st, out, os, held, ph) ==
  /\ st[r.command] # "done"
  /\ r.at \in After => r.plan.placed # "error" /\ (r.plan.placed = "yes" => r.plan.ready)
  /\ Kind[r.command] \in Closers /\ r.at \in Ahead \union After
       => Flattening(w, r, out, os, held, ph)

\* An order's command is done, or its request is about to say so.
Accounted(os, st, rq) ==
  \A o \in DOMAIN os :
    \/ st[o.bucket] = "done"
    \/ \E w \in Worker : Answered(rq[w]) /\ rq[w].command = o.bucket

\* A command is delivered again only when no request works on it.
Apart(rq) ==
  \A v, w \in Worker :
    rq[v].at # "idle" /\ rq[w].at # "idle" /\ rq[v].command = rq[w].command => v = w

ClosedIInv ==
  /\ CycleIInv
  /\ Apart(req)
  /\ \A w \in Worker : req[w].at = "idle" => req[w].command = NoIntent
  /\ trouble = << >> =>
       /\ Accounted(orders, status, req)
       /\ \A w \in Worker : req[w].at # "idle" =>
            Orderly(w, req[w], status, overtaken, orders, position, phase)

LEMMA FaultShows ==
  ASSUME TypedIInv, NEW kind, Fault(kind)
  PROVE  trouble' # << >>
<1>1. trouble \in Seq(Troubles) /\ kind \in Troubles /\ trouble' = Append(trouble, kind)
  BY DEF TypedIInv, Fault
<1>2. Len(trouble') = Len(trouble) + 1 /\ Len(trouble) \in Nat /\ Len(<< >>) = 0
  BY <1>1
<1> QED BY <1>2

\* Requests keep their commands apart: one begins, goes on or ends.
ApartAll == Apart(req) /\ \A w \in Worker : req[w].at = "idle" => req[w].command = NoIntent

LEMMA StepMoves ==
  ASSUME TypedIInv, NEW w \in Worker, Step(w)
  PROVE  \/ \E c \in Command : Begin(w, c)
         \/ req[w].at # "idle" /\ req' = [req EXCEPT ![w] = Idle]
         \/ /\ req[w].at # "idle" /\ req'[w].at # "idle"
            /\ \A v \in Worker \ {w} : req'[v] = req[v]
            /\ req'[w].command = req[w].command
<1> DEFINE Ends == req[w].at # "idle" /\ req' = [req EXCEPT ![w] = Idle]
           Stays == /\ req[w].at # "idle" /\ req'[w].at # "idle"
                    /\ \A v \in Worker \ {w} : req'[v] = req[v]
                    /\ req'[w].command = req[w].command
<1>0. req \in [Worker -> Request] /\ req[w] \in Request
  BY DEF TypedIInv
<1>1. ASSUME NEW step, Goto(w, step), step # "idle", req[w].at # "idle" PROVE Stays
  BY <1>0, <1>1 DEF Goto, Request
<1>2. ASSUME NEW mem, NEW outcome, Leave(w, mem, outcome), req[w].at # "idle" PROVE Ends
  BY <1>2 DEF Leave
<1>3. CASE List(w) \/ CancelOne(w)
  BY <1>0, <1>3 DEF List, CancelOne, Request
<1>4. CASE Read(w) \/ ReadTorn(w)
  <2>1. req[w].at = "read" /\ \E x : req' = [req EXCEPT ![w].at = "persist", ![w].plan = x]
    BY <1>4 DEF Read, ReadTorn, Freeze
  <2> QED BY <1>0, <2>1 DEF Request
<1>5. CASE Submit(w) \/ SubmitFails(w) \/ NothingToSubmit(w)
  <2>1. req[w].at = "submit" /\ \E x : Placed(w, x)
    BY <1>5 DEF Submit, SubmitFails, NothingToSubmit, Placing
  <2> QED BY <1>0, <2>1 DEF Request, Placed
<1>6. CASE CancelRefused(w) \/ Cancelled(w) \/ Verify(w)
  BY <1>1, <1>2, <1>6 DEF CancelRefused, Cancelled, Verify, Throw
<1>7. CASE Persist(w) \/ PersistConflicts(w) \/ Cleared(w) \/ Journal(w) \/ Apply(w) \/ Fails(w)
  BY <1>1, <1>2, <1>7 DEF Persist, PersistConflicts, Cleared, Journal, Apply, Fails, Throw
<1> QED BY <1>3, <1>4, <1>5, <1>6, <1>7 DEF Step, Cycle

LEMMA ApartNext ==
  ASSUME TypedIInv, ApartAll, [Next]_vars
  PROVE  ApartAll'
<1>0. req \in [Worker -> Request]
  BY DEF TypedIInv
<1>1. CASE UNCHANGED req
  BY <1>1 DEF ApartAll, Apart
<1>2. CASE Restart
  BY <1>2 DEF Restart, ApartAll, Apart, Idle
<1>3. ASSUME NEW w \in Worker, Step(w) PROVE ApartAll'
  <2>1. ASSUME NEW c \in Command, Begin(w, c) PROVE ApartAll'
    <3>1. /\ req[w].at = "idle" /\ \A v \in Worker : req[v].command # c
          /\ \A v \in Worker \ {w} : req'[v] = req[v]
          /\ req'[w].at = FirstStep(c) /\ req'[w].command = c
      BY <1>0, <2>1 DEF Begin
    <3>2. FirstStep(c) # "idle"
      BY DEF FirstStep
    <3> QED BY <3>1, <3>2 DEF ApartAll, Apart
  <2>2. CASE req[w].at # "idle" /\ req' = [req EXCEPT ![w] = Idle]
    <3>1. req'[w] = Idle /\ \A v \in Worker \ {w} : req'[v] = req[v]
      BY <1>0, <2>2
    <3>2. Idle.at = "idle" /\ Idle.command = NoIntent
      BY DEF Idle
    <3> QED BY <3>1, <3>2 DEF ApartAll, Apart
  <2>3. CASE /\ req[w].at # "idle" /\ req'[w].at # "idle"
             /\ \A v \in Worker \ {w} : req'[v] = req[v]
             /\ req'[w].command = req[w].command
    BY <2>3 DEF ApartAll, Apart
  <2> QED BY <1>3, <2>1, <2>2, <2>3, StepMoves
<1>4. CASE \/ UNCHANGED vars \/ Broker
           \/ \E c \in Command : Schedule(c)
           \/ Operate
  BY <1>1, <1>4 DEF vars, Broker, TimePasses, Fill, FillLate, CancelTakesEffect,
                   Schedule, Operate, StopEntries, PauseExecution, ResumeExecution, ClearKill,
                   PauseAutonomy, ResumeAutonomy, Set
<1> QED BY <1>2, <1>3, <1>4 DEF Next

\* The requests of S move, the others stand where they did.
LEMMA ClosedMoves ==
  ASSUME ClosedIInv, CycleIInv', ApartAll', trouble = << >>, NEW S \in SUBSET Worker,
         \A v \in Worker \ S : req'[v] = req[v] /\ (v \in overtaken => v \in overtaken'),
         \A v \in S : req'[v].at # "idle" =>
           Orderly(v, req'[v], status', overtaken', orders', position', phase'),
         Accounted(orders', status', req'),
         \A v \in Worker \ S : req[v].at # "idle" /\ status[req[v].command] # "done" =>
           status'[req[v].command] # "done",
         \A v \in Worker \ S : req[v].at \in After /\ v \notin overtaken' =>
           (Left(req[v], orders, position, phase) => Left(req[v], orders', position', phase'))
  PROVE  ClosedIInv'
<1>1. ASSUME NEW v \in Worker \ S, req'[v].at # "idle"
      PROVE  Orderly(v, req'[v], status', overtaken', orders', position', phase')
  <2>1. req'[v] = req[v] /\ (v \notin overtaken' => v \notin overtaken)
    OBVIOUS
  <2>2. Orderly(v, req[v], status, overtaken, orders, position, phase)
    BY <1>1, <2>1 DEF ClosedIInv
  <2>3. status'[req[v].command] # "done"
    BY <1>1, <2>1, <2>2 DEF Orderly
  <2>4. Flattening(v, req[v], overtaken, orders, position, phase)
          => Flattening(v, req[v], overtaken', orders', position', phase')
    BY <2>1 DEF Flattening
  <2>5. Orderly(v, req[v], status', overtaken', orders', position', phase')
    BY <2>2, <2>3, <2>4 DEF Orderly
  <2> QED BY <2>1, <2>5
<1>2. \A v \in Worker : req'[v].at # "idle" =>
        Orderly(v, req'[v], status', overtaken', orders', position', phase')
  BY <1>1
<1> QED BY <1>2 DEF ClosedIInv, ApartAll

\* The broker acts: every request is where it was.
LEMMA ClosedWorld ==
  ASSUME ClosedIInv, CycleIInv', ApartAll', trouble = << >>,
         UNCHANGED <<status, req, overtaken>>, DOMAIN orders' = DOMAIN orders,
         \A r : Left(r, orders, position, phase) => Left(r, orders', position', phase')
  PROVE  ClosedIInv'
<1> DEFINE S == {}
<1>1. Accounted(orders', status', req')
  BY DEF ClosedIInv, Accounted
<1>2. /\ S \in SUBSET Worker /\ \A v \in S : FALSE
      /\ \A v \in Worker \ S : req'[v] = req[v] /\ (v \in overtaken => v \in overtaken')
      /\ \A v \in Worker \ S : status'[req[v].command] = status[req[v].command]
  OBVIOUS
<1> HIDE DEF S
<1> QED BY <1>1, <1>2, ClosedMoves

LEMMA ClosedBroker ==
  ASSUME ClosedIInv, CycleIInv', ApartAll', trouble = << >>, trouble' = << >>, Broker
  PROVE  ClosedIInv'
<1>1. TypedIInv /\ Book(orders) /\ CycleIInv /\ position \in Int
  BY DEF ClosedIInv, CycleIInv, TypedIInv
<1>2. ASSUME TimePasses PROVE ClosedIInv'
  <2>1. CASE phase' # "closed"
    <3>1. orders' = orders /\ position' = position
      BY <1>2, <2>1 DEF TimePasses
    <3>2. phase # "closed"
      BY <1>2 DEF TimePasses
    <3>3. \A r : Left(r, orders, position, phase) => Left(r, orders', position', phase')
      BY <3>1, <3>2 DEF Left
    <3> QED BY <1>2, <3>1, <3>3, ClosedWorld DEF TimePasses, history
  <2>2. CASE phase' = "closed"
    <3>1. orders' = [o \in DOMAIN orders |-> IF o \in Live
                       THEN [orders[o] EXCEPT !.status = "canceled"] ELSE orders[o]]
      BY <1>2, <2>2 DEF TimePasses
    <3>2. DOMAIN orders' = DOMAIN orders /\ position' = position
      BY <1>2, <3>1 DEF TimePasses
    <3>3. Open(orders') = {}
      <4>1. \A o \in DOMAIN orders : orders[o] \in Order
        BY <1>1 DEF Book
      <4>2. \A o \in DOMAIN orders : orders'[o].status # "open"
        BY <3>1, <4>1 DEF Order, Live, With
      <4> QED BY <3>2, <4>2 DEF Open, Status
    <3>4. \A r : Left(r, orders, position, phase) => Left(r, orders', position', phase')
      BY <2>2, <3>2, <3>3 DEF Left
    <3> QED BY <1>2, <3>2, <3>4, ClosedWorld DEF TimePasses, history
  <2> QED BY <2>1, <2>2
<1>3. ASSUME NEW o \in DOMAIN orders, CancelTakesEffect(o) PROVE ClosedIInv'
  <2>1. /\ DOMAIN orders' = DOMAIN orders
        /\ \A p \in DOMAIN orders :
             /\ orders'[p].delta = orders[p].delta
             /\ orders'[p].status = IF p = o THEN "canceled" ELSE orders[p].status
    BY <1>1, <1>3, OrderChanges DEF CancelTakesEffect
  <2>2. orders[o].status = "cancelling" /\ position' = position /\ phase' = phase
    BY <1>3 DEF CancelTakesEffect
  <2>3. Open(orders') = Open(orders) /\ \A p \in Open(orders) : orders'[p].delta = orders[p].delta
    BY <2>1, <2>2 DEF Open, Status
  <2>4. \A r : Left(r, orders, position, phase) => Left(r, orders', position', phase')
    BY <2>2, <2>3 DEF Left, Covered
  <2> QED BY <1>3, <2>1, <2>4, ClosedWorld DEF CancelTakesEffect, history
<1>4. ASSUME NEW o \in DOMAIN orders, Fill(o) PROVE ClosedIInv'
  <2>1. o \in Open(orders) /\ Executed(o)
    BY <1>4 DEF Fill, Open, Status
  <2>2. /\ DOMAIN orders' = DOMAIN orders
        /\ \A p \in DOMAIN orders :
             /\ orders'[p].delta = orders[p].delta
             /\ orders'[p].status = IF p = o THEN "filled" ELSE orders[p].status
    BY <1>1, <2>1, ExecutedOrder
  <2>3. Open(orders') = Open(orders) \ {o}
    BY <2>2 DEF Open, Status
  <2>4. position' = position + orders[o].delta /\ phase' = phase
    BY <1>4, <2>1 DEF Executed, Fill
  <2>5. Covered(orders, position) => position' = 0 /\ Open(orders') = {}
    BY <1>1, <2>1, <2>3, <2>4 DEF Covered
  <2>6. \A r : Left(r, orders, position, phase) => Left(r, orders', position', phase')
    <3>1. Covered(orders, position) => Covered(orders', position')
      BY <2>5 DEF Covered
    <3>2. Open(orders) # {}
      BY <2>1
    <3> QED BY <2>4, <3>1, <3>2 DEF Left
  <2> QED BY <1>4, <2>2, <2>6, ClosedWorld DEF Fill, history
<1>5. ASSUME NEW o \in DOMAIN orders, FillLate(o) PROVE FALSE
  BY <1>1, <1>5, FaultShows DEF FillLate
<1> QED BY <1>2, <1>3, <1>4, <1>5 DEF Broker

LEMMA ClosedCommands ==
  ASSUME ClosedIInv, CycleIInv', ApartAll', trouble = << >>,
         (\E c \in Command : Schedule(c)) \/ Operate
  PROVE  ClosedIInv'
<1>1. TypedIInv /\ UNCHANGED <<orders, position, phase, req, overtaken>>
  BY DEF ClosedIInv, CycleIInv, Schedule, Operate, StopEntries, PauseExecution, ResumeExecution,
         ClearKill, PauseAutonomy, ResumeAutonomy, Set, broker, history
<1>2. \A c \in Command : (status[c] = "done" <=> status'[c] = "done")
  <2>1. status \in [Command -> {"none", "pending", "done"}]
    BY <1>1 DEF TypedIInv
  <2>2. ASSUME NEW c \in Command, Schedule(c)
        PROVE  status[c] = "none" /\ status' = [status EXCEPT ![c] = "pending"]
    BY <2>2 DEF Schedule
  <2>3. Operate => UNCHANGED status
    BY DEF Operate, StopEntries, PauseExecution, ResumeExecution, ClearKill,
           PauseAutonomy, ResumeAutonomy, Set
  <2> QED BY <2>1, <2>2, <2>3
<1>3. \A o \in DOMAIN orders : o.bucket \in Command
  BY <1>1 DEF TypedIInv, Book, Intent
<1>4. Accounted(orders', status', req')
  BY <1>1, <1>2, <1>3 DEF ClosedIInv, Accounted
<1>5. \A v \in Worker : req[v].at # "idle" => req[v].command \in Command
  BY <1>1 DEF TypedIInv, Requested
<1> DEFINE S == {}
<1>6. /\ S \in SUBSET Worker /\ \A v \in S : FALSE
      /\ \A v \in Worker \ S : v \in Worker
      /\ \A v \in Worker \ S : req'[v] = req[v] /\ (v \in overtaken => v \in overtaken')
      /\ \A r : Left(r, orders, position, phase) => Left(r, orders', position', phase')
  BY <1>1
<1> HIDE DEF S
<1>7. \A v \in Worker \ S : req[v].at # "idle" /\ status[req[v].command] # "done" =>
         status'[req[v].command] # "done"
  BY <1>2, <1>5
<1> QED BY <1>4, <1>6, <1>7, ClosedMoves

\* The request takes a step and stays at work.
LEMMA ClosedStays ==
  ASSUME ClosedIInv, CycleIInv', ApartAll', trouble = << >>, NEW w \in Worker,
         UNCHANGED <<status, position, phase>>,
         NEW r, req' = [req EXCEPT ![w] = r],
         \A v \in Worker \ {w} : v \in overtaken => v \in overtaken',
         \A v \in Worker \ {w} : req[v].at \in After /\ v \notin overtaken' => orders' = orders,
         \A o \in DOMAIN orders' : o \in DOMAIN orders \/ (Answered(r) /\ r.command = o.bucket),
         Answered(req[w]) => Answered(r) /\ r.command = req[w].command,
         Orderly(w, r, status, overtaken', orders', position, phase)
  PROVE  ClosedIInv'
<1> DEFINE S == {w}
<1>1. req \in [Worker -> Request]
  BY DEF ClosedIInv, CycleIInv, TypedIInv
<1>2. req'[w] = r /\ \A v \in Worker \ {w} : req'[v] = req[v]
  BY <1>1
<1>3. Accounted(orders', status', req')
  <2> SUFFICES ASSUME NEW o \in DOMAIN orders', status[o.bucket] # "done"
               PROVE  \E v \in Worker : Answered(req'[v]) /\ req'[v].command = o.bucket
    BY DEF Accounted
  <2>1. CASE o \in DOMAIN orders
    <3>1. PICK v \in Worker : Answered(req[v]) /\ req[v].command = o.bucket
      BY <2>1 DEF ClosedIInv, Accounted
    <3> QED BY <1>2, <3>1
  <2>2. CASE o \notin DOMAIN orders
    BY <1>2, <2>2
  <2> QED BY <2>1, <2>2
<1>4. /\ S \in SUBSET Worker /\ \A v \in S : v = w /\ req'[v] = r
      /\ \A v \in Worker \ S : v # w /\ req'[v] = req[v] /\ (v \in overtaken => v \in overtaken')
      /\ \A v \in Worker \ S : req[v].at \in After /\ v \notin overtaken' =>
           (Left(req[v], orders, position, phase) => Left(req[v], orders', position', phase'))
  BY <1>2
<1>5. \A v \in S : Orderly(v, req'[v], status', overtaken', orders', position', phase')
  BY <1>4
<1> HIDE DEF S
<1> QED BY <1>3, <1>4, <1>5, ClosedMoves

LEMMA ClosedBegins ==
  ASSUME ClosedIInv, CycleIInv', ApartAll', trouble = << >>,
         NEW w \in Worker, NEW c \in Command, Begin(w, c)
  PROVE  ClosedIInv'
<1> DEFINE mem == IF Kind[c] = "kill" /\ status[c] = "none"
                  THEN [disk EXCEPT !.controls = @ \union {"kill_switch",
                          "execution_paused", "entries_paused", "flatten_requested"}]
                  ELSE disk
           r == [at |-> FirstStep(c), command |-> c, mem |-> mem, plan |-> NoPlan]
<1>0. req' = [req EXCEPT ![w] = r]
  BY DEF Begin
<1> HIDE DEF mem
<1>1. r.at = FirstStep(c) /\ r.command = c
  OBVIOUS
<1> HIDE DEF r
<1>2. r.at \notin Ahead \union After
  BY <1>1 DEF FirstStep, Ahead, After
<1>3. status[c] # "done" /\ req[w].at = "idle"
      /\ UNCHANGED <<status, position, phase, trouble, orders, overtaken>>
  BY DEF Begin, broker, history
<1>4. Orderly(w, r, status, overtaken', orders', position, phase)
  BY <1>1, <1>2, <1>3 DEF Orderly
<1>5. ~Answered(req[w])
  BY <1>3 DEF Answered, After
<1>6. \A o \in DOMAIN orders' : o \in DOMAIN orders
  BY <1>3
<1> QED BY <1>0, <1>3, <1>4, <1>5, <1>6, ClosedStays

\* The request ends, with its command's actions applied or cut short.
LEMMA ClosedLeaves ==
  ASSUME ClosedIInv, CycleIInv', ApartAll', trouble = << >>, NEW w \in Worker, req[w].at # "idle",
         UNCHANGED <<orders, position, phase, overtaken>>,
         NEW mem, NEW outcome, Leave(w, mem, outcome),
         Answered(req[w]) => outcome = "done"
  PROVE  ClosedIInv'
<1> DEFINE c == req[w].command
           S == {w}
<1>1. /\ req[w] \in Request /\ Requested(req[w], DOMAIN orders) /\ Book(orders)
      /\ status \in [Command -> {"none", "pending", "done"}] /\ req \in [Worker -> Request]
      /\ \A v \in Worker : Requested(req[v], DOMAIN orders)
  BY DEF ClosedIInv, CycleIInv, TypedIInv
<1>2. c \in Command /\ status[c] # "done"
  BY <1>1 DEF Requested, ClosedIInv, Orderly
<1>3. status' = [status EXCEPT ![c] = outcome] /\ req' = [req EXCEPT ![w] = Idle]
  BY DEF Leave
<1>4. req'[w].at = "idle" /\ \A v \in Worker \ {w} : req'[v] = req[v]
  BY <1>1, <1>3 DEF Idle
<1>5. \A x \in Command : status'[x] = IF x = c THEN outcome ELSE status[x]
  BY <1>1, <1>3
<1>6. \A v \in Worker \ {w} : req[v].at # "idle" => req[v].command # c /\ req[v].command \in Command
  BY <1>1 DEF ClosedIInv, Apart, Requested
<1> HIDE DEF c
<1>7. Accounted(orders', status', req')
  <2> SUFFICES ASSUME NEW o \in DOMAIN orders, status'[o.bucket] # "done"
               PROVE  \E v \in Worker : Answered(req'[v]) /\ req'[v].command = o.bucket
    BY DEF Accounted
  <2>1. o.bucket \in Command
    BY <1>1 DEF Book, Intent
  <2>2. status[o.bucket] # "done"
    BY <1>2, <1>5, <2>1
  <2>3. PICK v \in Worker : Answered(req[v]) /\ req[v].command = o.bucket
    BY <2>2 DEF ClosedIInv, Accounted
  <2>4. v # w
    BY <1>5, <2>1, <2>3 DEF c
  <2> QED BY <1>4, <2>3, <2>4
<1>8. /\ S \in SUBSET Worker /\ \A v \in S : req'[v].at = "idle"
      /\ \A v \in Worker \ S : v # w /\ req'[v] = req[v] /\ (v \in overtaken => v \in overtaken')
      /\ \A r : Left(r, orders, position, phase) => Left(r, orders', position', phase')
  BY <1>4
<1>9. \A v \in Worker \ S : req[v].at # "idle" /\ status[req[v].command] # "done" =>
        status'[req[v].command] # "done"
  BY <1>5, <1>6, <1>8
<1> HIDE DEF S
<1> QED BY <1>7, <1>8, <1>9, ClosedMoves

LEMMA ClosedEnding ==
  ASSUME ClosedIInv, CycleIInv', ApartAll', trouble = << >>, trouble' = << >>, NEW w \in Worker,
         \/ PersistConflicts(w) \/ CancelRefused(w) \/ Apply(w) \/ Verify(w) \/ Fails(w)
         \/ Cancelled(w) /\ Kind[req[w].command] # "kill"
  PROVE  ClosedIInv'
<1>1. TypedIInv
  BY DEF ClosedIInv, CycleIInv
<1>2. ~Fails(w)
  BY <1>1, FaultShows DEF Fails
<1>3. req[w].at # "idle" /\ UNCHANGED <<orders, position, phase, overtaken>>
  BY <1>2 DEF PersistConflicts, CancelRefused, Apply, Verify, Cancelled, broker, history
<1>4. CASE \/ PersistConflicts(w) \/ CancelRefused(w) \/ Verify(w)
           \/ Cancelled(w) /\ Kind[req[w].command] # "kill"
  <2>1. \E mem, outcome : Leave(w, mem, outcome)
    BY <1>4 DEF PersistConflicts, CancelRefused, Cancelled, Verify, Throw
  <2>2. ~Answered(req[w])
    BY <1>4 DEF PersistConflicts, CancelRefused, Cancelled, Verify, Answered, After
  <2> QED BY <1>3, <2>1, <2>2, ClosedLeaves
<1>5. CASE Apply(w)
  <2> DEFINE outcome == IF Flattened(w) THEN "done" ELSE "pending"
  <2>1. Leave(w, Applied(w), outcome) /\ req[w].at = "apply"
    BY <1>5 DEF Apply
  <2>2. Orderly(w, req[w], status, overtaken, orders, position, phase)
    BY <1>3 DEF ClosedIInv
  <2>3. req[w].plan.placed = "yes" => req[w].plan.ready
    BY <2>1, <2>2 DEF Orderly, After
  <2>4. Answered(req[w]) => outcome = "done"
    BY <2>3 DEF Flattened, Answered
  <2> HIDE DEF outcome
  <2> QED BY <1>3, <2>1, <2>4, ClosedLeaves
<1> QED BY <1>2, <1>4, <1>5

LEMMA ClosedAdvances ==
  ASSUME ClosedIInv, CycleIInv', ApartAll', trouble = << >>, NEW w \in Worker, req[w].at # "idle",
         UNCHANGED <<status, position, phase>>, DOMAIN orders' = DOMAIN orders,
         \A v \in Worker : v \in overtaken => v \in overtaken',
         \A v \in Worker \ {w} : req[v].at \in After /\ v \notin overtaken' => orders' = orders,
         NEW r, req' = [req EXCEPT ![w] = r],
         r.command = req[w].command, r.mem = req[w].mem,
         r.plan.forced = req[w].plan.forced, r.plan.position = req[w].plan.position,
         r.plan.delta = req[w].plan.delta, r.plan.placed = req[w].plan.placed,
         r.plan.ready = req[w].plan.ready,
         \/ r.at \in After /\ req[w].at \in After /\ orders' = orders
         \/ r.at \notin After /\ req[w].at \notin After /\ (r.at \in Ahead => req[w].at \in Ahead)
  PROVE  ClosedIInv'
<1>1. Orderly(w, req[w], status, overtaken, orders, position, phase)
  BY DEF ClosedIInv
<1>2. Orderly(w, r, status, overtaken', orders', position, phase)
  BY <1>1 DEF Orderly, Flattening, Left
<1>3. Answered(req[w]) => Answered(r) /\ r.command = req[w].command
  BY DEF Answered
<1> QED BY <1>2, <1>3, ClosedStays

LEMMA ClosedGoesOn ==
  ASSUME ClosedIInv, CycleIInv', ApartAll', trouble = << >>, NEW w \in Worker,
         \/ List(w) \/ CancelOne(w) \/ Persist(w) \/ Cleared(w) \/ Journal(w)
         \/ Cancelled(w) /\ Kind[req[w].command] = "kill"
  PROVE  ClosedIInv'
<1>1. req[w] \in Request /\ req \in [Worker -> Request] /\ Book(orders)
  BY DEF ClosedIInv, CycleIInv, TypedIInv
<1>2. ASSUME NEW step, NEW L, NEW plan,
             plan \in {req[w].plan, [req[w].plan EXCEPT !.cancels = L]},
             req' = [req EXCEPT ![w] = [req[w] EXCEPT !.at = step, !.plan = plan]],
             req[w].at # "idle", UNCHANGED <<status, position, phase>>,
             DOMAIN orders' = DOMAIN orders,
             \A v \in Worker : v \in overtaken => v \in overtaken',
             \A v \in Worker \ {w} : req[v].at \in After /\ v \notin overtaken' => orders' = orders,
             \/ step \in After /\ req[w].at \in After /\ orders' = orders
             \/ step \notin After /\ req[w].at \notin After
                /\ (step \in Ahead => req[w].at \in Ahead)
      PROVE  ClosedIInv'
  <2> DEFINE r == [req[w] EXCEPT !.at = step, !.plan = plan]
  <2>1. r.at = step /\ r.command = req[w].command /\ r.mem = req[w].mem /\ r.plan = plan
    BY <1>1 DEF Request
  <2>2. /\ plan.forced = req[w].plan.forced /\ plan.position = req[w].plan.position
        /\ plan.delta = req[w].plan.delta /\ plan.placed = req[w].plan.placed
        /\ plan.ready = req[w].plan.ready
    BY <1>1, <1>2 DEF Request, Plan
  <2> HIDE DEF r
  <2> QED BY <1>2, <2>1, <2>2, ClosedAdvances DEF r
<1>3. ASSUME NEW step, Goto(w, step)
      PROVE  req' = [req EXCEPT ![w] = [req[w] EXCEPT !.at = step, !.plan = req[w].plan]]
  BY <1>1, <1>3 DEF Goto, Request
<1>4. CASE Persist(w)
  <2>1. /\ Goto(w, "clear") /\ req[w].at = "persist"
        /\ UNCHANGED <<status, position, phase, orders, overtaken>>
    BY <1>4 DEF Persist, broker, history
  <2>2. "clear" \notin After /\ req[w].at \notin After /\ req[w].at \in Ahead
    BY <2>1 DEF Ahead, After
  <2> QED BY <1>2, <1>3, <2>1, <2>2
<1>5. CASE Cleared(w)
  <2>1. /\ Goto(w, "submit") /\ req[w].at = "clear"
        /\ UNCHANGED <<status, position, phase, orders, overtaken>>
    BY <1>5 DEF Cleared, broker, history
  <2>2. "submit" \notin After /\ req[w].at \notin After /\ req[w].at \in Ahead
    BY <2>1 DEF Ahead, After
  <2> QED BY <1>2, <1>3, <2>1, <2>2
<1>6. CASE Journal(w)
  <2>1. /\ Goto(w, "apply") /\ req[w].at = "journal"
        /\ UNCHANGED <<status, position, phase, orders, overtaken>>
    BY <1>6 DEF Journal, broker, history
  <2>2. "apply" \in After /\ req[w].at \in After
    BY <2>1 DEF After
  <2> QED BY <1>2, <1>3, <2>1, <2>2
<1>7. CASE Cancelled(w) /\ Kind[req[w].command] = "kill"
  <2>1. /\ Goto(w, "read") /\ req[w].at = "cancel"
        /\ UNCHANGED <<status, position, phase, orders, overtaken>>
    BY <1>7 DEF Cancelled, broker, history
  <2>2. "read" \notin After \union Ahead /\ req[w].at \notin After
    BY <2>1 DEF Ahead, After
  <2> QED BY <1>2, <1>3, <2>1, <2>2
<1>8. CASE List(w)
  <2> DEFINE L == Live
             plan == [req[w].plan EXCEPT !.cancels = L]
  <2>1. /\ req' = [req EXCEPT ![w].at = "cancel", ![w].plan.cancels = L]
        /\ req[w].at = "list"
        /\ UNCHANGED <<status, position, phase, orders, overtaken>>
    BY <1>8 DEF List, broker, history
  <2> HIDE DEF L
  <2>2. req' = [req EXCEPT ![w] = [req[w] EXCEPT !.at = "cancel", !.plan = plan]]
    BY <1>1, <2>1 DEF Request, Plan
  <2> QED BY <1>2, <2>1, <2>2 DEF Ahead, After
<1>9. CASE CancelOne(w)
  <2>1. PICK o \in req[w].plan.cancels :
          /\ o \in Live
          /\ orders' = [orders EXCEPT ![o].status = "cancelling"]
          /\ req' = [req EXCEPT ![w].plan.cancels = @ \ {o}]
    BY <1>9 DEF CancelOne
  <2> DEFINE L == req[w].plan.cancels \ {o}
             plan == [req[w].plan EXCEPT !.cancels = L]
             step == req[w].at
  <2>2. req' = [req EXCEPT ![w] = [req[w] EXCEPT !.at = step, !.plan = plan]]
    BY <1>1, <2>1 DEF Request, Plan
  <2>3. step \in {"cancel", "clear"} /\ UNCHANGED <<status, position, phase>> /\ Overtakes(w)
    BY <1>9 DEF CancelOne
  <2>6. /\ \A v \in Worker : v \in overtaken => v \in overtaken'
        /\ \A v \in Worker \ {w} : req[v].at \in After => v \in overtaken'
    BY <2>3, OvertakesAll DEF Overtakes
  <2>4. DOMAIN orders' = DOMAIN orders
    BY <2>1
  <2> HIDE DEF L, step
  <2>5. step \notin After /\ req[w].at \notin After /\ req[w].at # "idle"
        /\ (step \in Ahead => req[w].at \in Ahead)
    BY <2>3 DEF step, After
  <2> QED BY <1>2, <2>2, <2>3, <2>4, <2>5, <2>6
<1> QED BY <1>4, <1>5, <1>6, <1>7, <1>8, <1>9

LEMMA ClosedReads ==
  ASSUME ClosedIInv, CycleIInv', ApartAll', trouble = << >>, trouble' = << >>, NEW w \in Worker, Read(w) \/ ReadTorn(w)
  PROVE  ClosedIInv'
<1>1. TypedIInv /\ req[w] \in Request /\ req \in [Worker -> Request] /\ w \in Worker
  BY DEF ClosedIInv, CycleIInv, TypedIInv
<1>2. ~ReadTorn(w)
  BY <1>1, FaultShows DEF ReadTorn
<1>3. Read(w) /\ req[w].at = "read" /\ overtaken' = overtaken \ {w}
      /\ UNCHANGED <<status, position, phase, orders>>
  BY <1>2 DEF Read, Freeze, broker
<1>4. trouble' \in Seq(Troubles) /\ Len(trouble') + changes <= MaxEvents
  BY <1>1, <1>3 DEF TypedIInv
<1>5. Live \in SUBSET DOMAIN orders /\ Filled \in SUBSET DOMAIN orders
  BY DEF Live, Filled, With
<1>6. PICK p \in Plan :
        /\ Decided(p, req[w].command, blocks[req[w].command], req[w].mem, position, Live, Filled)
        /\ req' = [req EXCEPT ![w] = [req[w] EXCEPT !.at = "persist", !.plan = p]]
  BY <1>1, <1>3, <1>4, <1>5, FreezeTyped DEF Read
<1> DEFINE r == [req[w] EXCEPT !.at = "persist", !.plan = p]
<1>7. r.at = "persist" /\ r.plan = p /\ r.mem = req[w].mem /\ r.command = req[w].command
  BY <1>1 DEF Request
<1>8. req' = [req EXCEPT ![w] = r]
  BY <1>6
<1> HIDE DEF r
<1>9. status[req[w].command] # "done"
  BY <1>3 DEF ClosedIInv, Orderly
<1>10. r.at \notin After /\ req[w].at \notin After
  BY <1>3, <1>7 DEF After
<1>11. Kind[r.command] \in Closers => Flattening(w, r, overtaken', orders', position, phase)
  BY <1>6, <1>7, <1>10 DEF Decided, Flattening
<1>12. Orderly(w, r, status, overtaken', orders', position, phase)
  BY <1>7, <1>9, <1>10, <1>11 DEF Orderly
<1>13. ~Answered(req[w])
  BY <1>10 DEF Answered
<1> QED BY <1>3, <1>8, <1>12, <1>13, ClosedStays

LEMMA ClosedSubmits ==
  ASSUME ClosedIInv, CycleIInv', ApartAll', trouble = << >>, trouble' = << >>, NEW w \in Worker,
         Submit(w) \/ SubmitFails(w) \/ NothingToSubmit(w)
  PROVE  ClosedIInv'
<1>1. /\ TypedIInv /\ CycleIInv /\ w \in Worker
      /\ req[w] \in Request /\ Requested(req[w], DOMAIN orders) /\ req \in [Worker -> Request]
  BY DEF ClosedIInv, CycleIInv, TypedIInv
<1>2. ~SubmitFails(w)
  BY <1>1, FaultShows DEF SubmitFails
<1>3. req[w].at = "submit" /\ UNCHANGED <<status, position, phase>>
  BY <1>2 DEF Submit, NothingToSubmit, Placing, broker
<1>4. Undisturbed(trouble)
  BY DEF Undisturbed, Range
<1>12. /\ \A v \in Worker : v \in overtaken => v \in overtaken'
       /\ \A v \in Worker \ {w} : req[v].at \in After /\ v \notin overtaken' => orders' = orders
  <2>1. CASE Submit(w)
    BY <2>1, OvertakesAll DEF Submit, Posted, Overtakes
  <2>2. CASE NothingToSubmit(w)
    BY <2>2 DEF NothingToSubmit, broker, history
  <2> QED BY <1>2, <2>1, <2>2
<1> DEFINE i == req[w].plan.intent
           d == req[w].plan.delta
           p == req[w].plan
           c == req[w].command
           R(x) == [req[w] EXCEPT !.at = "journal", !.plan = [req[w].plan EXCEPT !.placed = x]]
<1>5. \A x : /\ R(x).at = "journal" /\ R(x).command = c /\ R(x).mem = req[w].mem
             /\ R(x).plan.forced = p.forced /\ R(x).plan.position = p.position
             /\ R(x).plan.delta = d /\ R(x).plan.placed = x /\ R(x).plan.ready = p.ready
  BY <1>1 DEF Request, Plan
<1>6. Orderly(w, req[w], status, overtaken, orders, position, phase) /\ ~Answered(req[w])
  BY <1>3, <1>4 DEF ClosedIInv, Answered, After
<1>7. /\ status[c] # "done"
      /\ Kind[c] \in Closers =>
           /\ p.forced /\ (p.position = 0 => d = 0)
           /\ p.position # 0 => d = -p.position \/ (d = 0 /\ ~req[w].mem.managed)
  BY <1>3, <1>6 DEF Orderly, Flattening, Ahead
<1>8. w \notin overtaken /\ (d # 0 \/ p.forced) => Open(orders) = {} /\ position = p.position
  BY <1>1, <1>3, <1>4, AllClear
<1>9. ASSUME Placed(w, "yes") \/ Placed(w, "no")
      PROVE  \E x \in {"yes", "no"} : Placed(w, x) /\ req' = [req EXCEPT ![w] = R(x)]
  BY <1>1, <1>9 DEF Placed, Request, Plan
<1>10. CASE Submit(w)
  <2>1. Placing(w) /\ Posted(w) /\ Placed(w, "yes")
    BY <1>10 DEF Submit
  <2>2. req' = [req EXCEPT ![w] = R("yes")]
    BY <1>1, <2>1 DEF Placed, Request, Plan
  <2>3. i \in Intent /\ i.bucket = c /\ d # 0 /\ p.ready
    BY <1>1, <2>1 DEF Requested, Placing
  <2>4. i \notin DOMAIN orders
    <3>1. \A v \in Worker : Answered(req[v]) /\ req[v].command = c => v = w
      BY <1>3 DEF ClosedIInv, Apart, Answered, After
    <3> QED BY <1>4, <1>6, <1>7, <2>3, <3>1 DEF ClosedIInv, Accounted
  <2>5. /\ DOMAIN orders' = DOMAIN orders \union {i}
        /\ orders'[i] = [delta |-> d, status |-> "open"]
        /\ \A o \in DOMAIN orders : orders'[o] = orders[o]
    BY <1>1, <2>1, <2>4, PostedBook
  <2> DEFINE r == R("yes")
  <2>6. /\ r.at = "journal" /\ r.command = c /\ r.mem = req[w].mem
        /\ r.plan.forced = p.forced /\ r.plan.position = p.position
        /\ r.plan.delta = d /\ r.plan.placed = "yes" /\ r.plan.ready = p.ready
    BY <1>5
  <2> HIDE DEF r, R, i, d, p, c
  <2>7. Answered(r)
    BY <2>6 DEF Answered, After
  <2>8. Kind[c] \in Closers /\ w \notin overtaken => Covered(orders', position)
    <3>1. w \notin overtaken => Open(orders') = {i} /\ orders'[i].delta = d
      BY <1>8, <2>3, <2>5 DEF Open, Status
    <3>2. Kind[c] \in Closers /\ w \notin overtaken => d = -position
      BY <1>7, <1>8, <2>3
    <3> QED BY <3>1, <3>2 DEF Covered
  <2>9. Orderly(w, r, status, overtaken', orders', position, phase)
    BY <1>7, <1>12, <2>3, <2>6, <2>8 DEF Orderly, Flattening, Left, After
  <2>10. \A o \in DOMAIN orders' : o \in DOMAIN orders \/ (Answered(r) /\ r.command = o.bucket)
    BY <2>3, <2>5, <2>6, <2>7
  <2>11. req' = [req EXCEPT ![w] = r]
    BY <2>2 DEF r
  <2> QED BY <1>3, <1>6, <1>12, <2>9, <2>10, <2>11, ClosedStays
<1>11. CASE NothingToSubmit(w)
  <2>1. Placed(w, "no") /\ (d = 0 \/ ~p.ready) /\ orders' = orders
    BY <1>11 DEF NothingToSubmit, broker
  <2>2. req' = [req EXCEPT ![w] = R("no")]
    BY <1>1, <2>1 DEF Placed, Request, Plan
  <2> DEFINE r == R("no")
  <2>3. /\ r.at = "journal" /\ r.command = c /\ r.mem = req[w].mem
        /\ r.plan.forced = p.forced /\ r.plan.position = p.position
        /\ r.plan.delta = d /\ r.plan.placed = "no" /\ r.plan.ready = p.ready
    BY <1>5
  <2> HIDE DEF r, R, i, d, p, c
  <2>4. Orderly(w, r, status, overtaken', orders', position, phase)
    BY <1>7, <1>8, <1>12, <2>1, <2>3 DEF Orderly, Flattening, Left, After
  <2>5. req' = [req EXCEPT ![w] = r]
    BY <2>2 DEF r
  <2> QED BY <1>3, <1>6, <1>12, <2>1, <2>4, <2>5, ClosedStays
<1> QED BY <1>2, <1>10, <1>11


LEMMA ClosedInit == Init => ClosedIInv
<1> SUFFICES ASSUME Init PROVE ClosedIInv
  OBVIOUS
<1>1. CycleIInv
  BY CycleInit
<1>2. DOMAIN orders = {} /\ \A w \in Worker : req[w].at = "idle" /\ req[w].command = NoIntent
  BY DEF Init, Idle
<1>3. Accounted(orders, status, req)
  BY <1>2 DEF Accounted
<1>4. Apart(req)
  BY <1>2 DEF Apart
<1> QED BY <1>1, <1>2, <1>3, <1>4 DEF ClosedIInv

\* What has gone wrong is never forgotten.
LEMMA TroubleStays ==
  ASSUME TypedIInv, [Next]_vars, trouble' = << >>
  PROVE  trouble = << >>
<1>1. ~Restart
  BY FaultShows DEF Restart
<1>2. ASSUME NEW w \in Worker, Step(w) PROVE trouble' = trouble
  <2>1. ~(ReadTorn(w) \/ SubmitFails(w) \/ Fails(w))
    BY FaultShows DEF ReadTorn, SubmitFails, Fails
  <2>2. CASE \/ \E c \in Command : Begin(w, c)
             \/ List(w) \/ CancelOne(w) \/ CancelRefused(w) \/ Cancelled(w) \/ Verify(w)
    BY <2>2 DEF Begin, List, CancelOne, CancelRefused, Cancelled, Verify
  <2>3. CASE \/ Read(w) \/ Persist(w) \/ PersistConflicts(w) \/ Cleared(w) \/ Submit(w)
             \/ NothingToSubmit(w) \/ Journal(w) \/ Apply(w)
    BY <2>3 DEF Read, Persist, PersistConflicts, Cleared, Submit, NothingToSubmit, Journal, Apply
  <2> QED BY <1>2, <2>1, <2>2, <2>3 DEF Step, Cycle
<1>3. Broker => trouble' = trouble
  <2>1. ASSUME NEW o \in DOMAIN orders PROVE ~FillLate(o)
    BY FaultShows DEF FillLate
  <2> QED BY <2>1 DEF Broker, TimePasses, Fill, CancelTakesEffect
<1>4. (\E c \in Command : Schedule(c)) \/ Operate \/ UNCHANGED vars => trouble' = trouble
  BY DEF Schedule, Operate, StopEntries, PauseExecution, ResumeExecution, ClearKill,
         PauseAutonomy, ResumeAutonomy, Set, vars
<1> QED BY <1>1, <1>2, <1>3, <1>4 DEF Next

LEMMA ClosedNext == ClosedIInv /\ [Next]_vars => ClosedIInv'
<1> SUFFICES ASSUME ClosedIInv, [Next]_vars PROVE ClosedIInv'
  OBVIOUS
<1>1. CycleIInv' /\ TypedIInv /\ ApartAll'
  <2>1. TypedIInv /\ ApartAll
    BY DEF ClosedIInv, CycleIInv, ApartAll
  <2> QED BY <2>1, CycleNext, ApartNext DEF ClosedIInv
<1>2. CASE trouble' # << >>
  BY <1>1, <1>2 DEF ClosedIInv, ApartAll
<1>3. CASE trouble' = << >>
  <2>0. trouble = << >>
    BY <1>1, <1>3, TroubleStays
  <2>1. CASE UNCHANGED vars
    BY <1>1, <2>1 DEF ClosedIInv, vars
  <2>2. ASSUME NEW w \in Worker, Step(w) PROVE ClosedIInv'
    <3>2. ASSUME NEW c \in Command, Begin(w, c) PROVE ClosedIInv'
      BY <1>1, <2>0, <3>2, ClosedBegins
    <3>3. CASE Read(w) \/ ReadTorn(w)
      BY <1>1, <1>3, <2>0, <3>3, ClosedReads
    <3>4. CASE Submit(w) \/ SubmitFails(w) \/ NothingToSubmit(w)
      BY <1>1, <1>3, <2>0, <3>4, ClosedSubmits
    <3>5. CASE \/ List(w) \/ CancelOne(w) \/ Persist(w) \/ Cleared(w) \/ Journal(w)
               \/ Cancelled(w) /\ Kind[req[w].command] = "kill"
      BY <1>1, <2>0, <3>5, ClosedGoesOn
    <3>6. CASE \/ PersistConflicts(w) \/ CancelRefused(w) \/ Apply(w) \/ Verify(w) \/ Fails(w)
               \/ Cancelled(w) /\ Kind[req[w].command] # "kill"
      BY <1>1, <1>3, <2>0, <3>6, ClosedEnding
    <3> QED BY <2>2, <3>2, <3>3, <3>4, <3>5, <3>6 DEF Step, Cycle
  <2>3. ~Restart
    BY <1>1, <1>3, FaultShows DEF Restart
  <2>4. (\E c \in Command : Schedule(c)) \/ Operate => ClosedIInv'
    BY <1>1, <2>0, ClosedCommands
  <2>5. Broker => ClosedIInv'
    BY <1>1, <1>3, <2>0, ClosedBroker
  <2> QED BY <2>1, <2>2, <2>3, <2>4, <2>5 DEF Next
<1> QED BY <1>2, <1>3

(* When nothing goes wrong, a flattening command that reports success before the *)
(* close, was not overtaken and began with the symbol among the managed ones,    *)
(* leaves it flat or an order at work that closes it.                            *)
THEOREM FlattensClose == Spec => FlattenCloses
<1> DEFINE Closes ==
      trouble = << >> /\ phase # "closed" =>
        \A w \in Worker \ overtaken :
          /\ req[w].at # "idle" /\ req[w].mem.managed /\ Succeeds(req[w].command)
          => Closing(position, With({"open"}))
<1>1. ClosedIInv /\ [Next]_vars => [Closes]_vars
  <2> SUFFICES ASSUME ClosedIInv, [Next]_vars, trouble = << >>, phase # "closed",
                      NEW w \in Worker \ overtaken, req[w].at # "idle", req[w].mem.managed,
                      Succeeds(req[w].command)
               PROVE  Closing(position, With({"open"}))
    OBVIOUS
  <2> DEFINE c == req[w].command
  <2>1. /\ TypedIInv /\ req \in [Worker -> Request] /\ c \in Command
        /\ status \in [Command -> {"none", "pending", "done"}]
        /\ \A v \in Worker : Requested(req[v], DOMAIN orders)
    BY DEF ClosedIInv, CycleIInv, TypedIInv, Requested
  <2>2. status'[c] = "done" /\ status[c] # "done" /\ Kind[c] \in Closers
    BY DEF Succeeds, Closers
  <2>a. \A v \in Worker : req[v].at # "idle" /\ req[v].command = c => v = w
    BY DEF ClosedIInv, Apart
  <2> HIDE DEF c
  <2>3. ~ UNCHANGED status
    BY <2>2
  <2>4. ASSUME NEW x \in Command, Schedule(x) PROVE FALSE
    <3>1. status' = [status EXCEPT ![x] = "pending"]
      BY <2>4 DEF Schedule
    <3> QED BY <2>1, <2>2, <3>1
  <2>5. ~(Operate \/ Restart \/ Broker \/ UNCHANGED vars)
    BY <2>3 DEF Operate, StopEntries, PauseExecution, ResumeExecution, ClearKill, PauseAutonomy,
                ResumeAutonomy, Set, Restart, Broker, TimePasses, Fill, FillLate,
                CancelTakesEffect, vars
  <2>6. PICK v \in Worker : Step(v)
    BY <2>4, <2>5 DEF Next
  <2>7. ASSUME NEW mem, NEW outcome, Leave(v, mem, outcome)
        PROVE  req[v].command = c /\ outcome = "done"
    BY <2>1, <2>2, <2>7 DEF Leave
  <2>8. ASSUME Throw(v) PROVE FALSE
    BY <2>7, <2>8 DEF Throw
  <2>9. ASSUME NEW x \in Command PROVE ~Begin(v, x)
    BY <2>3 DEF Begin
  <2>10. ~(List(v) \/ CancelOne(v) \/ CancelRefused(v))
    BY <2>3, <2>8 DEF List, CancelOne, CancelRefused
  <2>11. ~(\/ Read(v) \/ ReadTorn(v) \/ Persist(v) \/ PersistConflicts(v) \/ Cleared(v)
           \/ Submit(v) \/ SubmitFails(v) \/ NothingToSubmit(v) \/ Journal(v) \/ Fails(v))
    <3>1. ~Fails(v)
      BY <2>7, <2>8 DEF Fails
    <3> QED BY <2>3, <2>8, <3>1 DEF Read, ReadTorn, Persist, PersistConflicts, Cleared, Submit,
                                    SubmitFails, NothingToSubmit, Journal
  <2>12. ~Cancelled(v)
    <3>1. SUFFICES ASSUME Cancelled(v) PROVE FALSE
      OBVIOUS
    <3>2. req[v].at = "cancel" /\ Kind[req[v].command] # "kill" /\ Leave(v, req[v].mem, "done")
      BY <2>3, <3>1 DEF Cancelled
    <3>3. Kind[req[v].command] = "cancel" /\ req[v].command = c
      BY <2>1, <2>7, <3>2 DEF Requested
    <3> QED BY <2>2, <3>3 DEF Closers
  <2>13. ~Verify(v)
    <3>1. SUFFICES ASSUME Verify(v) PROVE FALSE
      OBVIOUS
    <3>2. req[v].at = "verify" /\ \E mem : Leave(v, mem, "done")
      BY <3>1 DEF Verify
    <3>3. Kind[req[v].command] = "verify" /\ req[v].command = c
      BY <2>1, <2>7, <3>2 DEF Requested
    <3> QED BY <2>2, <3>3 DEF Closers
  <2>14. Apply(v)
    BY <2>6, <2>9, <2>10, <2>11, <2>12, <2>13 DEF Step, Cycle
  <2>15. req[v].at = "apply" /\ req[v].command = c /\ Flattened(v)
    BY <2>7, <2>14 DEF Apply
  <2>16. v = w /\ req[w].at = "apply" /\ Flattened(w)
    BY <2>a, <2>15
  <2>17. Flattening(w, req[w], overtaken, orders, position, phase)
    BY <2>2, <2>16 DEF ClosedIInv, Orderly, After, c
  <2> DEFINE p == req[w].plan
  <2>18. Left(req[w], orders, position, phase)
    BY <2>16, <2>17 DEF Flattening, After
  <2>19. CASE p.placed = "yes"
    <3>1. Covered(orders, position)
      BY <2>18, <2>19 DEF Left
    <3> QED BY <3>1 DEF Covered, Closing, Open, Status, With
  <2>20. CASE p.placed # "yes"
    <3>1. position = p.position /\ (p.delta = 0 \/ ~p.ready)
      BY <2>18, <2>20 DEF Left
    <3>2. p.position # 0 => p.delta = -p.position
      BY <2>17 DEF Flattening
    <3>3. Applied(w).managed
      BY DEF Applied
    <3>4. p.position = 0 \/ p.ready
      BY <2>2, <2>16, <3>3 DEF Flattened, Closers, c
    <3>5. p.position \in Int
      BY <2>1 DEF TypedIInv, Request, Plan
    <3> QED BY <3>1, <3>2, <3>4, <3>5 DEF Closing
  <2> QED BY <2>19, <2>20
<1>2. Spec => []ClosedIInv
  BY ClosedInit, ClosedNext, PTL DEF Spec
<1> QED BY <1>1, <1>2, PTL DEF Spec, FlattenCloses
=============================================================================

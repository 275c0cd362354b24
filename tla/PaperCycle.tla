----------------------------- MODULE PaperCycle -----------------------------
(* The paper-trading cycle on one symbol (worker/alpaca.js, runBrokerCycle    *)
(* and the broker actions of worker/index.js, worker/broker-store.js,         *)
(* applyAlpacaCycle of worker/engine.js) during one session.  A cycle reads   *)
(* the account, freezes a plan, journals it in D1, cancels and submits at the *)
(* broker, journals the outcome and only then saves the object's state: five  *)
(* places that may disagree when it is cut short and its command redelivered. *)
(*                                                                          *)
(* Positions are whole units, a fill is all of an order, every order here was *)
(* placed by the framework, and long and short trading are enabled.  The      *)
(* broker is modelled from how the code uses it.  Requests of the object      *)
(* interleave at every await, each with a copy of the state it saves whole.   *)
EXTENDS Integers, Sequences, FiniteSets, Functions

CONSTANTS
  Command,     \* command identifiers; the bucket of a command's cycle
  Kind,        \* the kind of each command
  Desired,     \* the positions the allocation may ask for
  Marks,       \* prices that tell the same position's market value apart
  Worker,      \* concurrent requests of the object
  NoIntent,
  Troubles,    \* what may go wrong, see Trouble
  MaxCommands, \* bound: commands that are given
  MaxEvents    \* bound: troubles, changed controls and adverse conditions

Kinds == {"compute", "flatten", "kill", "cancel", "verify"}

Trouble == {"restart",  \* the object restarts in the middle of a request
            "post",     \* an order's POST is refused, or its answer is lost
            "store",    \* a read, a D1 write or what follows the cycle throws
            "late",     \* an order fills after its cancellation was accepted
            "torn"}     \* an order fills between the requests of one overview

ASSUME CycleAssumption ==
  /\ Kind \in [Command -> Kinds]
  /\ Desired \subseteq Int
  /\ Marks \subseteq Nat
  /\ Troubles \subseteq Trouble
  /\ MaxCommands \in Nat
  /\ MaxEvents \in Nat
  /\ NoIntent \notin Command

VARIABLES
  position,  \* the broker's position, signed
  orders,    \* the broker's orders by client_order_id
  phase,     \* how close the session is to its end
  disk,      \* the object's saved state
  status,    \* of each command
  blocks,    \* block_new_risk, frozen in a command's stored actions
  journal,   \* broker_intents in D1: the intent of each bucket
  receipts,  \* orders whose broker_order_id D1 knows
  req,       \* the local variables of each request
  trouble,   \* history: what has gone wrong so far
  changes,   \* how often controls or conditions changed
  overtaken, \* history: requests that met another's order or cancellation
             \* since they read the account
  crossed    \* history: an overtaken request has placed an order

vars == <<position, orders, phase, disk, status, blocks, journal, receipts,
          req, trouble, changes, overtaken, crossed>>

Controls == {"entries_paused", "execution_paused", "kill_switch",
             "flatten_requested", "autonomy_paused"}

Allocation == {"targets", "held", "none"} \X Int

\* What client_order_id is a hash of.
Intent == [bucket: Command, target: Int, current: Int, mark: Nat,
           allocations: Allocation]

\* state.alpaca and the controls: managed_symbols, known_orders,
\* position_attribution, fills (those attributed to nobody apart),
\* risk_session.halted and last_cycle_bucket.
Saved == [controls: SUBSET Controls, halted: BOOLEAN, managed: BOOLEAN,
          known: SUBSET Intent, attribution: Int,
          seen: SUBSET Intent, unattributed: SUBSET Intent,
          lastBucket: Command \union {NoIntent}]

Plan == [intent: Intent \union {NoIntent}, delta: Int, forced: BOOLEAN,
         halted: BOOLEAN, ready: BOOLEAN, position: Int,
         cancels: SUBSET Intent, fills: SUBSET Intent,
         placed: {"no", "yes", "error"}]

Steps == {"idle", "list", "cancel", "read", "persist", "clear", "submit",
          "journal", "apply", "verify"}

TypeOK ==
  /\ position \in Int
  /\ \A o \in DOMAIN orders :
       /\ o \in Intent
       /\ orders[o].delta \in Int \ {0}
       /\ orders[o].status \in {"open", "cancelling", "canceled", "filled"}
  /\ phase \in {"open", "reduce_only", "flatten", "closed"}
  /\ disk \in Saved
  /\ status \in [Command -> {"none", "pending", "done"}]
  /\ blocks \in [Command -> BOOLEAN]
  /\ \A c \in Command : journal[c] # NoIntent =>
       journal[c] \in Intent /\ journal[c].bucket = c
  /\ receipts \subseteq DOMAIN orders
  /\ \A w \in Worker :
       /\ req[w].at \in Steps
       /\ req[w].at # "idle" => req[w].command \in Command
       /\ req[w].mem \in Saved
       /\ req[w].plan \in Plan
  /\ trouble \in Seq(Troubles) /\ changes \in Nat
  /\ Len(trouble) + changes <= MaxEvents
  /\ overtaken \subseteq Worker /\ crossed \in BOOLEAN

Fresh == [controls |-> {}, halted |-> FALSE, managed |-> FALSE, known |-> {},
          attribution |-> 0, seen |-> {}, unattributed |-> {},
          lastBucket |-> NoIntent]

NoPlan == [intent |-> NoIntent, delta |-> 0, forced |-> FALSE, halted |-> FALSE,
           ready |-> FALSE, position |-> 0, cancels |-> {}, fills |-> {},
           placed |-> "no"]

Idle == [at |-> "idle", command |-> NoIntent, mem |-> Fresh, plan |-> NoPlan]

\* The session begins flat, with what earlier ones may have left paused.
Init ==
  /\ position = 0
  /\ orders = << >>
  /\ phase = "open"
  /\ \E controls \in {{}, {"entries_paused"}, {"autonomy_paused"}} :
       disk = [Fresh EXCEPT !.controls = controls]
  /\ status = [c \in Command |-> "none"]
  /\ blocks = [c \in Command |-> FALSE]
  /\ journal = [c \in Command |-> NoIntent]
  /\ receipts = {}
  /\ req = [w \in Worker |-> Idle]
  /\ trouble = << >>
  /\ changes = 0
  /\ overtaken = {} /\ crossed = FALSE

broker == <<position, orders, phase>>
ledger == <<journal, receipts>>
history == <<overtaken, crossed>>

With(s) == {o \in DOMAIN orders : orders[o].status \in s}
Live    == With({"open", "cancelling"})
Filled  == With({"filled"})
Abs(n)  == IF n < 0 THEN -n ELSE n
Reduces(held, delta) == Abs(held + delta) < Abs(held)

Room == Cardinality({c \in Command : status[c] # "none"}) < MaxCommands

Quiet == \A w \in Worker : req[w].at = "idle"
Goto(w, step) == req' = [req EXCEPT ![w].at = step]
Eventful == Len(trouble) + changes < MaxEvents

Fault(kind) ==
  /\ kind \in Troubles
  /\ Eventful
  /\ trouble' = Append(trouble, kind)

Happened(kinds) == Range(trouble) \intersect kinds # {}

\* What a request does at the broker escapes those that have read the account.
Overtakes(w) ==
  overtaken' = overtaken \union
    {v \in Worker \ {w} : req[v].at \in {"persist", "clear", "submit", "journal", "apply"}}

-----------------------------------------------------------------------------
(* Commands and controls (worker/orchestration.js).                          *)

\* A committed command: its effect on the controls and its actions are fixed.
Schedule(c) ==
  /\ Kind[c] # "kill" /\ status[c] = "none" /\ Room
  /\ Kind[c] = "compute" =>
       disk.controls \intersect {"kill_switch", "execution_paused"} = {}
  /\ status' = [status EXCEPT ![c] = "pending"]
  /\ blocks' = [blocks EXCEPT ![c] = Kind[c] = "compute"
       /\ disk.controls \intersect {"entries_paused", "autonomy_paused"} # {}]
  /\ disk' = IF Kind[c] = "flatten"
             THEN [disk EXCEPT !.controls = @ \union {"flatten_requested"}] ELSE disk
  /\ UNCHANGED <<broker, ledger, req, trouble, changes, history>>

\* An operator's request, served at once, also while another awaits the broker.
Set(controls) ==
  /\ Eventful
  /\ controls # disk.controls
  /\ disk' = [disk EXCEPT !.controls = controls]
  /\ changes' = changes + 1
  /\ UNCHANGED <<broker, ledger, status, blocks, req, trouble, history>>

StopEntries    == Set(disk.controls \union {"entries_paused"})
PauseExecution == Set(disk.controls \union {"execution_paused"})
ClearKill      == Set(disk.controls \ {"kill_switch"})
PauseAutonomy  == Set(disk.controls \union {"autonomy_paused"})

ResumeExecution ==
  /\ "kill_switch" \notin disk.controls
  /\ Set(disk.controls \ {"execution_paused", "entries_paused"})

ResumeAutonomy ==
  /\ disk.controls \intersect {"kill_switch", "execution_paused"} = {}
  /\ Set(disk.controls \ {"autonomy_paused"})

FirstStep(c) ==
  CASE Kind[c] \in {"kill", "cancel"} -> "list"
    [] Kind[c] = "verify" -> "verify"
    [] OTHER -> "read"

\* A delivery, or the kill switch, which an operator sends and sends again.
Begin(w, c) ==
  LET mem == IF Kind[c] = "kill" /\ status[c] = "none"
             THEN [disk EXCEPT !.controls = @ \union {"kill_switch",
                     "execution_paused", "entries_paused", "flatten_requested"}]
             ELSE disk IN
  /\ req[w].at = "idle"
  /\ \A v \in Worker : req[v].command # c
  /\ \/ status[c] = "pending"
     \/ Kind[c] = "kill" /\ status[c] = "none" /\ Room
  /\ req' = [req EXCEPT ![w] =
       [at |-> FirstStep(c), command |-> c, mem |-> mem, plan |-> NoPlan]]
  /\ UNCHANGED <<broker, ledger, disk, status, blocks, trouble, changes, history>>

\* The request saves its copy of the state, whether its actions succeed or not.
Leave(w, mem, outcome) ==
  /\ disk' = mem
  /\ status' = [status EXCEPT ![req[w].command] = outcome]
  /\ req' = [req EXCEPT ![w] = Idle]

Throw(w) == Leave(w, req[w].mem, "pending")

-----------------------------------------------------------------------------
(* buildPaperCycle.                                                          *)

\* riskReducingTarget.
Reduced(held, wanted, block) ==
  IF ~block THEN wanted
  ELSE IF held * wanted <= 0 THEN 0
  ELSE IF Abs(wanted) < Abs(held) THEN wanted ELSE held

\* Mutant: an order may close a position and open the opposite one.
OnePhase(held, target) == target - held

\* Crossing zero takes two orders of two cycles.
Leg(held, target) == IF held * target < 0 THEN -held ELSE target - held

\* Mutant: a symbol with an open order is planned like any other.
SuppressedByOwner(held, pending, managed) == held # 0 /\ ~managed

Suppressed(held, pending, managed) == pending # {} \/ (held # 0 /\ ~managed)

\* Mutant: the controls are only looked at when the command is committed.
BlockedAtCommit(c, mem, halted) == blocks[c] \/ phase # "open" \/ halted

Blocked(c, mem, halted) ==
  \/ blocks[c]
  \/ mem.controls \intersect {"entries_paused", "execution_paused"} # {}
  \/ phase # "open"
  \/ halted

\* What the world looks like to one cycle: it may have lost the daily limit,
\* have bad data, no borrow for its order, or an account that cannot trade.
Condition == {"fine", "loss", "degraded", "refused", "unready"}

\* held, live and filled are what the overview and the fill ledger answered.
PlanFor(c, mem, held, live, filled, desired, mark, condition) ==
  LET halted  == mem.halted \/ condition = "loss"
      stopped == \/ Kind[c] \in {"flatten", "kill"}
                 \/ mem.controls \intersect {"flatten_requested", "kill_switch"} # {}
                 \/ halted
                 \/ phase = "flatten"
      forced  == stopped \/ (mem.attribution # 0 /\ mem.attribution # held)
      wanted  == IF stopped THEN 0 ELSE desired
      target  == Reduced(held, IF forced THEN 0 ELSE wanted,
                         Blocked(c, mem, halted) \/ condition = "degraded")
      cancels == IF forced THEN live ELSE {}
      skipped == target = held \/ Suppressed(held, live \ cancels, mem.managed)
      delta   == Leg(held, target)
      shares  == IF wanted # 0 THEN <<"targets", wanted>>
                 ELSE IF mem.attribution # 0 THEN <<"held", mem.attribution>>
                 ELSE <<"none", 0>>
  IN [intent |-> IF skipped THEN NoIntent
                 ELSE [bucket |-> c, target |-> target, current |-> held,
                       mark |-> IF held = 0 THEN 0 ELSE mark,
                       allocations |-> shares],
      delta |-> IF skipped \/ (condition = "refused" /\ ~Reduces(held, delta))
                THEN 0 ELSE delta,
      forced |-> forced, halted |-> halted,
      ready |-> condition # "unready" /\ phase # "closed",
      position |-> held, cancels |-> cancels, fills |-> filled, placed |-> "no"]

Freeze(w, held, live, filled) ==
  \E desired \in Desired, mark \in Marks, condition \in Condition :
    /\ condition # "fine" => Len(trouble') + changes < MaxEvents
    /\ changes' = IF condition = "fine" THEN changes ELSE changes + 1
    /\ overtaken' = overtaken \ {w}
    /\ UNCHANGED crossed
    /\ req' = [req EXCEPT ![w].at = "persist",
      ![w].plan = PlanFor(req[w].command, req[w].mem, held, live, filled,
                          desired, mark, condition)]

Read(w) ==
  /\ req[w].at = "read"
  /\ UNCHANGED <<broker, ledger, disk, status, blocks, trouble>>
  /\ Freeze(w, position, Live, Filled)

Executed(o) ==
  /\ position' = position + orders[o].delta
  /\ orders' = [orders EXCEPT ![o].status = "filled"]

\* Positions, open orders and fills are five requests sent at once.
ReadTorn(w) ==
  /\ Fault("torn")
  /\ req[w].at = "read"
  /\ phase # "closed"
  /\ \E o \in With({"open"}) :
       /\ Executed(o)
       /\ \E filled \in {Filled, Filled \union {o}} :
            Freeze(w, position, Live \ {o}, filled)
  /\ UNCHANGED <<ledger, phase, disk, status, blocks>>

-----------------------------------------------------------------------------
(* persistPlan, executePaperPlan, persistExecution, applyAlpacaCycle.        *)

\* One intent for a bucket and symbol: UNIQUE (.., idempotency_key).
Persist(w) ==
  LET intent == req[w].plan.intent
      c == req[w].command IN
  /\ req[w].at = "persist"
  /\ intent = NoIntent \/ journal[c] \in {NoIntent, intent}
  /\ journal' = IF intent = NoIntent THEN journal
                ELSE [journal EXCEPT ![c] = intent]
  /\ Goto(w, "clear")
  /\ UNCHANGED <<broker, receipts, disk, status, blocks, trouble, changes, history>>

PersistConflicts(w) ==
  /\ req[w].at = "persist"
  /\ req[w].plan.intent # NoIntent
  /\ journal[req[w].command] \notin {NoIntent, req[w].plan.intent}
  /\ Throw(w)
  /\ UNCHANGED <<broker, ledger, blocks, trouble, changes, history>>

\* cancelManagedOpenOrders lists the orders itself.
List(w) ==
  /\ req[w].at = "list"
  /\ req' = [req EXCEPT ![w].at = "cancel", ![w].plan.cancels = Live]
  /\ UNCHANGED <<broker, ledger, disk, status, blocks, trouble, changes, history>>

CancelOne(w) ==
  /\ req[w].at \in {"cancel", "clear"}
  /\ \E o \in req[w].plan.cancels :
       /\ o \in Live
       /\ orders' = [orders EXCEPT ![o].status = "cancelling"]
       /\ req' = [req EXCEPT ![w].plan.cancels = @ \ {o}]
  /\ Overtakes(w)
  /\ UNCHANGED <<position, phase, ledger, disk, status, blocks, trouble, changes, crossed>>

\* DELETE of an order that is no longer open is an error and ends the request.
CancelRefused(w) ==
  /\ req[w].at \in {"cancel", "clear"}
  /\ ~ req[w].plan.cancels \subseteq Live
  /\ Throw(w)
  /\ UNCHANGED <<broker, ledger, blocks, trouble, changes, history>>

\* The kill switch goes on to flatten; a cancel command is done.
Cancelled(w) ==
  /\ req[w].at = "cancel"
  /\ req[w].plan.cancels = {}
  /\ IF Kind[req[w].command] = "kill"
     THEN Goto(w, "read") /\ UNCHANGED <<disk, status>>
     ELSE Leave(w, req[w].mem, "done")
  /\ UNCHANGED <<broker, ledger, blocks, trouble, changes, history>>

Cleared(w) ==
  /\ req[w].at = "clear"
  /\ req[w].plan.cancels = {}
  /\ Goto(w, "submit")
  /\ UNCHANGED <<broker, ledger, disk, status, blocks, trouble, changes, history>>

Placing(w) ==
  /\ req[w].at = "submit"
  /\ req[w].plan.delta # 0
  /\ req[w].plan.ready

Placed(w, outcome) ==
  req' = [req EXCEPT ![w].at = "journal", ![w].plan.placed = outcome]

Posted(w) ==
  /\ orders' = [o \in DOMAIN orders \union {req[w].plan.intent} |->
       IF o \in DOMAIN orders THEN orders[o]
       ELSE [delta |-> req[w].plan.delta, status |-> "open"]]
  /\ Overtakes(w)
  /\ crossed' = (crossed \/ (w \in overtaken /\ req[w].plan.intent \notin DOMAIN orders))

\* submitOrder first looks the client order ID up: an order that exists, in
\* whatever status, is the answer.
Submit(w) ==
  /\ Placing(w)
  /\ Posted(w)
  /\ Placed(w, "yes")
  /\ UNCHANGED <<position, phase, ledger, disk, status, blocks, trouble, changes>>

\* The error is kept with the cycle; the order may exist all the same.
SubmitFails(w) ==
  /\ Fault("post")
  /\ Placing(w)
  /\ Posted(w) \/ UNCHANGED <<orders, history>>
  /\ Placed(w, "error")
  /\ UNCHANGED <<position, phase, ledger, disk, status, blocks, changes>>

NothingToSubmit(w) ==
  /\ req[w].at = "submit"
  /\ req[w].plan.delta = 0 \/ ~req[w].plan.ready
  /\ Placed(w, "no")
  /\ UNCHANGED <<broker, ledger, disk, status, blocks, trouble, changes, history>>

\* Mutant: D1 is told that every planned order was placed.
JournalPlanned(w) ==
  /\ req[w].at = "journal"
  /\ receipts' = receipts \union ({req[w].plan.intent} \ {NoIntent})
  /\ Goto(w, "apply")
  /\ UNCHANGED <<broker, journal, disk, status, blocks, trouble, changes, history>>

Journal(w) ==
  /\ req[w].at = "journal"
  /\ receipts' = IF req[w].plan.placed = "yes"
                 THEN receipts \union {req[w].plan.intent} ELSE receipts
  /\ Goto(w, "apply")
  /\ UNCHANGED <<broker, journal, disk, status, blocks, trouble, changes, history>>

\* Mutant: a fill counts whenever the ledger reports it.
EveryFill(w) == req[w].plan.fills

\* priorFillIds: the ledger's pages overlap.
NewFills(w) == req[w].plan.fills \ req[w].mem.seen

\* What the fills of S make of the position, counted in units bought and sold.
Bought(S) == UNION {{o} \X (1..orders[o].delta) : o \in S}
Sold(S)   == UNION {{o} \X (1..-orders[o].delta) : o \in S}
Size(S)   == Cardinality(Bought(S)) - Cardinality(Sold(S))

\* A fill's allocations come from known_orders, or from D1 if it knows the order.
Attributable(w) ==
  {o \in NewFills(w) : /\ o.allocations[1] # "none"
                       /\ o \in req[w].mem.known \union receipts}

Applied(w) ==
  LET p == req[w].plan
      m == req[w].mem
      placed == IF p.placed = "yes" THEN {p.intent} ELSE {} IN
  IF m.lastBucket = req[w].command THEN m
  ELSE [controls |-> IF p.forced /\ p.position = 0
                     THEN m.controls \ {"flatten_requested"} ELSE m.controls,
        halted |-> p.halted,
        managed |-> m.managed \/ placed # {},
        known |-> m.known \union placed,
        attribution |-> m.attribution + Size(Attributable(w)),
        seen |-> m.seen \union p.fills,
        unattributed |-> m.unattributed \union (NewFills(w) \ Attributable(w)),
        lastBucket |-> req[w].command]

\* Mutant: flattening with an account that cannot trade counts as done.
FlattenedUnchecked(w) ==
  Kind[req[w].command] \in {"flatten", "kill"} => req[w].plan.placed # "error"

\* broker.flatten_all throws unless what is exposed could be closed.
Flattened(w) ==
  Kind[req[w].command] \in {"flatten", "kill"} =>
    /\ req[w].plan.placed # "error"
    /\ req[w].plan.position = 0 \/ ~Applied(w).managed \/ req[w].plan.ready

Apply(w) ==
  /\ req[w].at = "apply"
  /\ Leave(w, Applied(w), IF Flattened(w) THEN "done" ELSE "pending")
  /\ UNCHANGED <<broker, ledger, blocks, trouble, changes, history>>

\* broker.verify_flat.
Verify(w) ==
  /\ req[w].at = "verify"
  /\ Leave(w, IF position # 0 /\ req[w].mem.managed THEN req[w].mem
              ELSE [req[w].mem EXCEPT !.controls = @ \ {"flatten_requested"}], "done")
  /\ UNCHANGED <<broker, ledger, blocks, trouble, changes, history>>

\* A broker read, a D1 batch or the work that follows an applied cycle throws.
Fails(w) ==
  /\ Fault("store")
  /\ \/ req[w].at \in {"list", "read", "persist", "journal", "verify"} /\ Throw(w)
     \/ req[w].at = "apply" /\ Leave(w, Applied(w), "pending")
  /\ UNCHANGED <<broker, ledger, blocks, changes, history>>

Restart ==
  /\ Fault("restart")
  /\ ~Quiet
  /\ req' = [w \in Worker |-> Idle]
  /\ UNCHANGED <<broker, ledger, disk, status, blocks, changes, history>>

-----------------------------------------------------------------------------
(* The broker.                                                               *)

Fill(o) ==
  /\ phase # "closed"
  /\ orders[o].status = "open"
  /\ Executed(o)
  /\ UNCHANGED <<phase, ledger, disk, status, req, blocks, trouble, changes, history>>

FillLate(o) ==
  /\ Fault("late")
  /\ phase # "closed"
  /\ orders[o].status = "cancelling"
  /\ Executed(o)
  /\ UNCHANGED <<phase, ledger, disk, status, req, blocks, changes, history>>

CancelTakesEffect(o) ==
  /\ orders[o].status = "cancelling"
  /\ orders' = [orders EXCEPT ![o].status = "canceled"]
  /\ UNCHANGED <<position, phase, ledger, disk, status, req, blocks, trouble, changes, history>>

\* entry_cutoff_minutes, flatten_start_minutes, the close; orders are for the day.
TimePasses ==
  /\ phase # "closed"
  /\ phase' = CASE phase = "open" -> "reduce_only"
                [] phase = "reduce_only" -> "flatten"
                [] OTHER -> "closed"
  /\ orders' = IF phase' # "closed" THEN orders
               ELSE [o \in DOMAIN orders |-> IF o \in Live
                       THEN [orders[o] EXCEPT !.status = "canceled"] ELSE orders[o]]
  /\ UNCHANGED <<position, ledger, disk, status, req, blocks, trouble, changes, history>>

Operate ==
  \/ StopEntries \/ PauseExecution \/ ResumeExecution \/ ClearKill
  \/ PauseAutonomy \/ ResumeAutonomy

Cycle(w) ==
  \/ Read(w) \/ ReadTorn(w) \/ Persist(w) \/ PersistConflicts(w)
  \/ Cleared(w) \/ Submit(w) \/ SubmitFails(w) \/ NothingToSubmit(w)
  \/ Journal(w) \/ Apply(w) \/ Fails(w)

Step(w) ==
  \/ \E c \in Command : Begin(w, c)
  \/ List(w) \/ CancelOne(w) \/ CancelRefused(w) \/ Cancelled(w) \/ Verify(w)
  \/ Cycle(w)

Broker == TimePasses \/ \E o \in DOMAIN orders : Fill(o) \/ FillLate(o) \/ CancelTakesEffect(o)

Next ==
  \/ \E c \in Command : Schedule(c)
  \/ Operate
  \/ \E w \in Worker : Step(w)
  \/ Restart
  \/ Broker

Spec == Init /\ [][Next]_vars
-----------------------------------------------------------------------------
(* Properties                                                                *)

(* Open-order suppression: the framework never has two orders at work on a    *)
(* symbol, except one it asked to cancel, whatever is redelivered, cut short  *)
(* or read while an order fills, until an order is placed by a request that   *)
(* another's order or cancellation overtook.                                  *)
OneLiveOrder == crossed \/ Cardinality(With({"open"})) <= 1

(* No order overshoots: one planned to reduce a position still makes it       *)
(* smaller when it fills, however old its plan, and none takes the position    *)
(* from one side to the other; a flip is closed first and opened by a later    *)
(* cycle (README.md, Modes and safety).  Not so when an order fills after its  *)
(* cancellation or within an overview, or an overtaken request placed one.     *)
NoOvershoot ==
  [][~Happened({"late", "torn"})' /\ ~crossed =>
       /\ position * position' >= 0
       /\ \A o \in DOMAIN orders :
            orders'[o].status # orders[o].status /\ orders'[o].status = "filled"
            /\ o.current * orders[o].delta < 0
              => Reduces(position, orders[o].delta)]_vars

\* The request works on controls that stop entries, or for a command committed
\* under such controls.
Stopped(w) ==
  \/ blocks[req[w].command]
  \/ req[w].mem.controls \intersect {"entries_paused", "execution_paused", "kill_switch"} # {}

(* An order makes the position it meets at the broker smaller, although fills, *)
(* cancellations and awaits lie between its plan and its POST, when entries    *)
(* were stopped before its request began, be it after its command was          *)
(* committed.  A pause that is saved while the request is under way does not   *)
(* reach its plan (alpaca.js, blockIncrease), and the property does not say so. *)
StopsHold ==
  [][~Happened({"late", "torn"}) =>
       \A w \in Worker \ overtaken :
         req[w].at = "submit" /\ req'[w].at = "journal" /\ Stopped(w)
           => \A o \in DOMAIN orders' \ DOMAIN orders :
                Reduces(position, orders'[o].delta)]_vars

(* No fill is attributed twice or forgotten, in spite of restarts, retries of *)
(* a bucket, overlapping fill pages and requests that save over each other:    *)
(* the position is what strategies own, what was found to be nobody's, and     *)
(* what has not been seen yet.                                                *)
FillsCountOnce ==
  position = disk.attribution + Size(disk.unattributed) + Size(Filled \ disk.seen)

\* A flattening command reports success.
Succeeds(c) == Kind[c] \in {"flatten", "kill"} /\ status[c] # "done" /\ status'[c] = "done"

Closing(held, live) == held = 0 \/ \E o \in live : orders[o].delta = -held

(* A flatten that succeeds before the close leaves the symbol flat or an      *)
(* order at work that closes it, when nothing goes wrong, no other request     *)
(* overtook it and the state it loaded had the symbol among the managed ones.  *)
FlattenCloses ==
  [][trouble = << >> /\ phase # "closed" =>
       \A w \in Worker \ overtaken :
         /\ req[w].at # "idle" /\ req[w].mem.managed /\ Succeeds(req[w].command)
         => Closing(position, With({"open"}))]_vars

(* The same on a managed symbol whatever deliveries were cut short before.     *)
(* README.md: "Stable client order IDs and open-order suppression make          *)
(* retries idempotent."                                                        *)
RetriedFlattenCloses ==
  [][disk'.managed /\ phase # "closed" =>
       \A c \in Command : Succeeds(c) => Closing(position, With({"open"}))]_vars
=============================================================================

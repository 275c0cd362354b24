------------------------- MODULE SealedHoldoutProofs --------------------------
(* The one-time evaluation of SealedHoldout, for any strategies, shards,      *)
(* requests and faults, however the requests overlap.  What a request holds   *)
(* was burned, sent and received at some time; and until an older copy is     *)
(* saved, what was burned and frozen is still on disk.                        *)
EXTENDS SealedHoldout, TLAPS

Local == [at: Steps, msg: Message \union {NoMessage}, set: Payload, mem: State]

Burns(d, S) == \A s \in S : d.ledger[s].burned

\* A copy's outcomes and receipts come from payloads the service has seen.
Sound(m, burned, exposed) ==
  /\ \A s \in Strategy :
       m.ledger[s].outcome # NoOutcome => <<s, m.ledger[s].artifact>> \in exposed
  /\ \A S \in Payload : \A p \in m.runs[S].receipts :
       p \in Shards(S) /\ S \subseteq burned /\ \A s \in p : <<s, p>> \in exposed

\* A message comes from a run whose strategies were burned before.
Warranted(m, burned) ==
  /\ m.run \subseteq burned
  /\ m.kind = "shard" => m.shard \in Shards(m.run)

\* How far a request has come.
Claim(r, burned, exposed) ==
  /\ r.at = "idle" => r = NoRequest
  /\ Sound(r.mem, burned, exposed)
  /\ r.at = "burn" => Burns(r.mem, r.set)
  /\ r.at \in {"enqueue", "send", "read", "bind", "service"} => r.set \subseteq burned
  /\ r.at = "settle" => \A p \in Shards(r.set) : \A s \in p : <<s, p>> \in exposed
  /\ r.at \in {"receipt", "close"} => r.msg # NoMessage
  /\ r.msg # NoMessage /\ r.at # "settle" =>
       r.msg.kind = "shard" /\ Warranted(r.msg, burned) /\ r.set = r.msg.shard
  /\ r.at = "receipt" => \A s \in r.set : <<s, r.set>> \in exposed

(* Whatever is overwritten: slices were read after a burn had been on disk,   *)
(* and copies, messages and requests only tell what happened.                 *)
Traced ==
  /\ read \subseteq burns
  /\ \A x \in sent : x[2] # {}
  /\ Sound(disk, burns, sent)
  /\ \A m \in queue : Warranted(m, burns)
  /\ \A q \in Request : Claim(req[q], burns, sent)

\* Only a burned lineage is bound.
Clean(d) == \A s \in Strategy : d.ledger[s].burned \/ d.ledger[s].wire = {}

\* What was burned and exposed is on disk.
Frozen(d, burned, exposed) ==
  /\ Burns(d, burned) /\ Clean(d)
  /\ \A x \in exposed : d.ledger[x[1]].wire = x[2]

\* What the copy of a request that is not behind has in common with the disk.
Current(r, d) ==
  /\ r.at = "burn" => r.mem.ledger = Burned(d, r.set).ledger
  /\ r.at \notin {"idle", "burn"} => r.mem.ledger = d.ledger

\* What is about to be exposed is frozen on disk.
Ready(r, d) == r.at = "service" => \A p \in Shards(r.set) : \A s \in p : d.ledger[s].wire = p

(* Until an older copy is saved.                                              *)
Preserved ==
  overwritten \/
    /\ Frozen(disk, burns, sent)
    /\ \A q \in Request : Ready(req[q], disk) /\ (q \in behind \/ Current(req[q], disk))

HoldoutIInv == TypeOK /\ Traced /\ Preserved

-----------------------------------------------------------------------------
(* Shards *)

\* Every strategy of a set is in exactly one of its shards.
LEMMA OneShard ==
  ASSUME layout \in Layout, NEW S \in Payload, NEW s \in S
  PROVE  /\ PayloadOf(S, s) \in Shards(S) /\ s \in PayloadOf(S, s)
         /\ \A p \in Shards(S) : s \in p => p = PayloadOf(S, s)
<1>1. PICK g \in layout.groups : s \in g
  BY LayoutAssumption DEF Payload
<1>2. \A h \in layout.groups : g # h => g \intersect h = {}
  BY LayoutAssumption
<1>3. S \intersect g \in Shards(S) /\ s \in S \intersect g
  BY <1>1 DEF Shards
<1>4. \A p \in Shards(S) : s \in p => p = S \intersect g
  BY <1>1, <1>2 DEF Shards
<1>5. PayloadOf(S, s) \in Shards(S) /\ s \in PayloadOf(S, s)
  BY <1>3 DEF PayloadOf
<1> QED BY <1>4, <1>5

LEMMA ShardTypes ==
  ASSUME NEW S \in Payload, NEW p \in Shards(S)
  PROVE  p \in Payload /\ p \subseteq S /\ p # {}
BY DEF Shards, Payload

\* A shard is the payload of each of its strategies, alone as in the run.
LEMMA ShardAlone ==
  ASSUME layout \in Layout, NEW S \in Payload, NEW p \in Shards(S), NEW s \in p
  PROVE  PayloadOf(p, s) = p
<1>1. p \in Payload /\ p # {}
  BY ShardTypes
<1>2. PICK g \in layout.groups : p = S \intersect g
  BY DEF Shards
<1>3. p \intersect g = p
  BY <1>2
<1>4. p \in Shards(p)
  BY <1>1, <1>3 DEF Shards
<1> QED BY <1>1, <1>4, OneShard

-----------------------------------------------------------------------------
(* What the operators on the state return.  *)

LEMMA BurnedTypes ==
  ASSUME NEW m \in State, NEW S \in Payload
  PROVE  /\ Burned(m, S) \in State
         /\ Burned(m, S).runs = m.runs
         /\ \A s \in Strategy :
              Burned(m, S).ledger[s] =
                IF s \in S /\ ~m.ledger[s].burned
                THEN [Unburned EXCEPT !.burned = TRUE, !.sliced = m.sliced]
                ELSE m.ledger[s]
<1> DEFINE fresh == [Unburned EXCEPT !.burned = TRUE, !.sliced = m.sliced]
           ledger == [s \in Strategy |-> IF s \in S /\ ~m.ledger[s].burned
                                         THEN fresh ELSE m.ledger[s]]
<1>1. m.ledger \in [Strategy -> Reservation] /\ m.sliced \in BOOLEAN
  BY DEF State
<1>2. fresh \in Reservation
  BY <1>1 DEF Unburned, Reservation, Payload
<1>3. ledger \in [Strategy -> Reservation]
  <2> HIDE DEF fresh
  <2> QED BY <1>1, <1>2
<1>4. Burned(m, S) = [m EXCEPT !.ledger = ledger]
  BY DEF Burned
<1> HIDE DEF ledger
<1>5. [m EXCEPT !.ledger = ledger] \in State /\ [m EXCEPT !.ledger = ledger].ledger = ledger
      /\ [m EXCEPT !.ledger = ledger].runs = m.runs
  BY <1>3 DEF State
<1> QED BY <1>4, <1>5 DEF ledger

LEMMA BoundTypes ==
  ASSUME layout \in Layout, NEW q \in Request, req[q] \in Local,
         NEW S, S \subseteq req[q].set
  PROVE  /\ Bound(q, S) \in State
         /\ Bound(q, S).runs = req[q].mem.runs
         /\ \A s \in Strategy :
              /\ s \notin S => Bound(q, S).ledger[s] = req[q].mem.ledger[s]
              /\ s \in S =>
                   Bound(q, S).ledger[s] =
                     [req[q].mem.ledger[s] EXCEPT !.wire = PayloadOf(req[q].set, s)]
<1> DEFINE m == req[q].mem
           ledger == [s \in Strategy |->
                        IF s \in S THEN [m.ledger[s] EXCEPT !.wire = PayloadOf(req[q].set, s)]
                        ELSE m.ledger[s]]
<1>1. m \in State /\ m.ledger \in [Strategy -> Reservation] /\ req[q].set \in Payload
  BY DEF Local, State
<1>2. ASSUME NEW s \in Strategy
      PROVE  ledger[s] \in Reservation
  <2>1. CASE s \in S
    <3>1. PayloadOf(req[q].set, s) \in Payload
      BY <1>1, <2>1, OneShard, ShardTypes
    <3> QED BY <1>1, <2>1, <3>1 DEF Reservation
  <2> QED BY <1>1, <2>1
<1>3. ledger \in [Strategy -> Reservation]
  BY <1>2
<1>4. Bound(q, S) = [m EXCEPT !.ledger = ledger]
  BY DEF Bound
<1> HIDE DEF ledger
<1>5. [m EXCEPT !.ledger = ledger] \in State /\ [m EXCEPT !.ledger = ledger].ledger = ledger
      /\ [m EXCEPT !.ledger = ledger].runs = m.runs
  BY <1>1, <1>3 DEF State
<1> QED BY <1>4, <1>5 DEF ledger

LEMMA DecidedTypes ==
  ASSUME layout \in Layout, NEW m \in State, NEW run \in Payload, NEW S \in SUBSET run,
         NEW verdict \in [run -> Verdict]
  PROVE  /\ Decided(m, S, run, verdict) \in State
         /\ Decided(m, S, run, verdict).runs = m.runs
         /\ \A s \in Strategy :
              /\ s \notin S => Decided(m, S, run, verdict).ledger[s] = m.ledger[s]
              /\ s \in S => Decided(m, S, run, verdict).ledger[s].artifact = PayloadOf(run, s)
              /\ Decided(m, S, run, verdict).ledger[s].burned = m.ledger[s].burned
              /\ Decided(m, S, run, verdict).ledger[s].wire = m.ledger[s].wire
<1> DEFINE ledger == [s \in Strategy |->
                        IF s \in S THEN [m.ledger[s] EXCEPT !.outcome = verdict[s],
                                                           !.artifact = PayloadOf(run, s)]
                        ELSE m.ledger[s]]
           phase == [s \in Strategy |-> IF s \in S THEN "decided" ELSE m.phase[s]]
<1>1. m.ledger \in [Strategy -> Reservation]
      /\ m.phase \in [Strategy -> {"earlier", "validation", "decided"}]
  BY DEF State
<1>2. ASSUME NEW s \in Strategy
      PROVE  /\ ledger[s] \in Reservation
             /\ s \in S => ledger[s].artifact = PayloadOf(run, s)
             /\ ledger[s].burned = m.ledger[s].burned /\ ledger[s].wire = m.ledger[s].wire
  <2>1. CASE s \in S
    <3>1. PayloadOf(run, s) \in Payload /\ verdict[s] \in Verdict \union {NoOutcome}
      BY <2>1, OneShard, ShardTypes
    <3> QED BY <1>1, <2>1, <3>1 DEF Reservation
  <2>2. CASE s \notin S
    BY <1>1, <2>2
  <2> QED BY <2>1, <2>2
<1>3. ledger \in [Strategy -> Reservation]
  BY <1>2
<1>4. phase \in [Strategy -> {"earlier", "validation", "decided"}]
  BY <1>1
<1>5. Decided(m, S, run, verdict) = [m EXCEPT !.ledger = ledger, !.phase = phase]
  BY DEF Decided
<1> HIDE DEF ledger, phase
<1> DEFINE d == [m EXCEPT !.ledger = ledger, !.phase = phase]
<1>6. d \in State /\ d.ledger = ledger /\ d.runs = m.runs
  BY <1>3, <1>4 DEF State
<1>7. \A s \in Strategy : s \notin S => ledger[s] = m.ledger[s]
  BY DEF ledger
<1> QED BY <1>2, <1>5, <1>6, <1>7

LEMMA RunTypes ==
  ASSUME NEW m \in State, NEW S \in Payload, NEW status \in {"absent", "queued", "finalized"},
         NEW receipts \in SUBSET Payload
  PROVE  /\ [m EXCEPT !.runs[S].status = status] \in State
         /\ [m EXCEPT !.runs[S].status = status].ledger = m.ledger
         /\ \A R \in Payload :
              [m EXCEPT !.runs[S].status = status].runs[R].receipts = m.runs[R].receipts
         /\ [m EXCEPT !.runs[S].receipts = receipts] \in State
         /\ [m EXCEPT !.runs[S].receipts = receipts].ledger = m.ledger
         /\ \A R \in Payload : [m EXCEPT !.runs[S].receipts = receipts].runs[R].receipts =
              IF R = S THEN receipts ELSE m.runs[R].receipts
<1>1. m.runs \in [Payload -> Run]
  BY DEF State
<1> DEFINE one == [m.runs EXCEPT ![S].status = status]
           two == [m.runs EXCEPT ![S].receipts = receipts]
<1>2. /\ one \in [Payload -> Run]
      /\ \A R \in Payload : one[R].receipts = m.runs[R].receipts
  BY <1>1 DEF Run
<1>3. /\ two \in [Payload -> Run]
      /\ \A R \in Payload : two[R].receipts = IF R = S THEN receipts ELSE m.runs[R].receipts
  BY <1>1 DEF Run
<1>4. /\ [m EXCEPT !.runs[S].status = status] = [m EXCEPT !.runs = one]
      /\ [m EXCEPT !.runs[S].receipts = receipts] = [m EXCEPT !.runs = two]
  BY DEF State
<1> HIDE DEF one, two
<1>5. /\ [m EXCEPT !.runs = one] \in State /\ [m EXCEPT !.runs = one].ledger = m.ledger
      /\ [m EXCEPT !.runs = one].runs = one
  BY <1>2 DEF State
<1>6. /\ [m EXCEPT !.runs = two] \in State /\ [m EXCEPT !.runs = two].ledger = m.ledger
      /\ [m EXCEPT !.runs = two].runs = two
  BY <1>3 DEF State
<1> QED BY <1>2, <1>3, <1>4, <1>5, <1>6

-----------------------------------------------------------------------------
(* Types, for any number of requests. *)

LEMMA FreshTypes == Fresh \in State /\ NoRequest \in Local
<1> DEFINE runs == [p \in Payload |-> [status |-> "absent", receipts |-> {}]]
           ledger == [s \in Strategy |-> Unburned]
           phase == [s \in Strategy |-> "earlier"]
<1>1. runs \in [Payload -> Run]
  BY DEF Run
<1>2. Unburned \in Reservation
  BY DEF Unburned, Reservation, Payload
<1>3. ledger \in [Strategy -> Reservation] /\ phase \in [Strategy -> {"earlier", "validation", "decided"}]
  BY <1>2
<1>4. Fresh = [phase |-> phase, ledger |-> ledger, sliced |-> FALSE, runs |-> runs]
  BY DEF Fresh
<1> HIDE DEF runs, ledger, phase
<1>5. Fresh \in State
  BY <1>1, <1>3, <1>4 DEF State
<1> HIDE DEF Fresh
<1> QED BY <1>5 DEF NoRequest, Local, Steps, Payload

\* A step sets a request's local variables to typed values.
Moves(q) == \E r \in Local : req' = [req EXCEPT ![q] = r]

\* And it saves a copy, or loads one, or leaves the stored state alone.
Stores(q) ==
  \/ UNCHANGED <<disk, history>>
  \/ disk' = disk /\ \E r : Load(q, r)
  \/ \E m \in State : Save(q, m)

LEMMA TypeStep ==
  ASSUME TypeOK, NEW q \in Request, Moves(q), Stores(q),
         layout' = layout, queue' \subseteq Message, read' \subseteq Strategy,
         sent' \subseteq Strategy \X Payload, faults' \in 0..MaxFaults
  PROVE  TypeOK'
<1>1. disk' \in State /\ burns' \subseteq Strategy /\ behind' \subseteq Request /\ overwritten' \in BOOLEAN
  BY DEF TypeOK, Stores, Load, Save, history
<1> QED BY <1>1 DEF TypeOK, Local, Moves

LEMMA GotoTypes ==
  ASSUME TypeOK, NEW q \in Request, NEW step \in Steps, Goto(q, step)
  PROVE  Moves(q)
<1>1. req[q] \in Local
  BY DEF TypeOK, Local
<1> DEFINE r == [req[q] EXCEPT !.at = step]
<1>2. r \in Local
  BY <1>1 DEF Local
<1>3. req' = [req EXCEPT ![q] = r]
  BY DEF Goto, TypeOK
<1> HIDE DEF r
<1> QED BY <1>2, <1>3 DEF Moves

LEMMA KeepTypes ==
  ASSUME TypeOK, NEW q \in Request, NEW step \in Steps, NEW m \in State, Keep(q, step, m)
  PROVE  Moves(q)
<1>1. req[q] \in Local
  BY DEF TypeOK, Local
<1> DEFINE r == [req[q] EXCEPT !.at = step, !.mem = m]
<1>2. r \in Local
  BY <1>1 DEF Local
<1>3. req' = [req EXCEPT ![q] = r]
  BY DEF Keep, TypeOK
<1> HIDE DEF r
<1> QED BY <1>2, <1>3 DEF Moves

LEMMA FinishTypes ==
  ASSUME NEW q \in Request, Finish(q)
  PROVE  Moves(q)
BY FreshTypes DEF Finish, Moves

LEMMA StepNames ==
  /\ "enqueue" \in Steps /\ "read" \in Steps /\ "send" \in Steps /\ "answer" \in Steps
  /\ "close" \in Steps /\ "bind" \in Steps /\ "service" \in Steps /\ "receipt" \in Steps
  /\ "settle" \in Steps /\ "burn" \in Steps
BY DEF Steps

LEMMA RequestTypes ==
  ASSUME TypeOK, NEW q \in Request
  PROVE  /\ req[q] \in Local /\ req[q].mem \in State /\ req[q].set \in Payload
         /\ req[q].msg \in Message \union {NoMessage}
         /\ req[q].msg.run \in Payload /\ req[q].msg.shard \in Payload
         /\ layout \in Layout /\ faults \in 0..MaxFaults
BY DEF TypeOK, Local, Message, NoMessage, Payload

LEMMA ValidateTypes ==
  ASSUME TypeOK, NEW q \in Request,
         Validate(q) \/ SaveBurn(q) \/ Enqueue(q) \/ Send(q) \/ Answer(q)
  PROVE  TypeOK'
<1> USE RequestTypes
<1>1. CASE Validate(q)
  <2> DEFINE S == Admitted(disk)
             r == [at |-> "burn", msg |-> NoMessage, set |-> S, mem |-> Burned(disk, S)]
  <2>1. S \in Payload /\ disk \in State
    BY DEF Admitted, Payload, TypeOK
  <2>2. Burned(disk, S) \in State
    BY <2>1, BurnedTypes
  <2> HIDE DEF S
  <2>3. r \in Local
    BY <2>1, <2>2 DEF Local, Steps
  <2>4. Load(q, r) /\ UNCHANGED <<layout, disk, queue, read, sent, faults>>
    BY <1>1 DEF Validate, S
  <2> HIDE DEF r
  <2>5. Moves(q) /\ Stores(q)
    BY <2>3, <2>4 DEF Moves, Stores, Load
  <2> QED BY <2>4, <2>5, TypeStep DEF TypeOK
<1>2. CASE SaveBurn(q)
  <2>1. PICK step \in {"enqueue", "read"} : Goto(q, step)
    BY <1>2 DEF SaveBurn
  <2>2. Moves(q) /\ Stores(q)
    BY <1>2, <2>1, StepNames, GotoTypes DEF SaveBurn, Stores
  <2> QED BY <1>2, <2>2, TypeStep DEF SaveBurn, TypeOK
<1>3. CASE Enqueue(q)
  <2> DEFINE m == [req[q].mem EXCEPT !.runs[req[q].set].status = IF @ = "absent" THEN "queued" ELSE @]
             old == req[q].mem.runs[req[q].set].status
             new == IF old = "absent" THEN "queued" ELSE old
  <2>1. new \in {"absent", "queued", "finalized"}
    BY DEF State, Run
  <2>2. m = [req[q].mem EXCEPT !.runs[req[q].set].status = new]
    BY DEF State
  <2>3. m \in State
    BY <2>1, <2>2, RunTypes
  <2> HIDE DEF m
  <2>4. Save(q, m) /\ Keep(q, "send", m) /\ UNCHANGED <<layout, queue, read, sent, faults>>
    BY <1>3 DEF Enqueue, m
  <2>5. Moves(q) /\ Stores(q)
    BY <2>3, <2>4, StepNames, KeepTypes DEF Stores
  <2> QED BY <2>3, <2>4, <2>5, TypeStep DEF TypeOK
<1>4. CASE Send(q)
  <2>1. Goto(q, "answer") /\ UNCHANGED <<layout, disk, read, sent, history, faults>>
    BY <1>4 DEF Send
  <2>2. FinalizeMessage(req[q].set) \in Message
    BY DEF FinalizeMessage, Message, Payload
  <2>3. ASSUME NEW p \in Shards(req[q].set)
        PROVE  ShardMessage(req[q].set, p) \in Message
    BY ShardTypes DEF ShardMessage, Message
  <2>4. queue' \subseteq Message
    BY <1>4, <2>2, <2>3 DEF Send, TypeOK
  <2>5. Moves(q) /\ Stores(q)
    BY <2>1, StepNames, GotoTypes DEF Stores
  <2> QED BY <2>1, <2>4, <2>5, TypeStep DEF TypeOK
<1>5. CASE Answer(q)
  <2>1. Moves(q) /\ Stores(q)
    BY <1>5, FinishTypes DEF Answer, Stores
  <2> QED BY <1>5, <2>1, TypeStep DEF Answer, TypeOK
<1> QED BY <1>1, <1>2, <1>3, <1>4, <1>5

LEMMA MessageTypes ==
  ASSUME TypeOK, NEW q \in Request, NEW m \in queue, Receive(q, m)
  PROVE  TypeOK'
<1> DEFINE loaded == [at |-> "read", msg |-> m, set |-> m.shard, mem |-> disk]
<1>1. m \in Message /\ disk \in State
  BY DEF TypeOK
<1>2. ASSUME NEW step \in Steps, NEW S \in Payload
      PROVE  [loaded EXCEPT !.at = step, !.set = S] \in Local
  BY <1>1 DEF Local
<1>3. ASSUME NEW step \in Steps
      PROVE  [loaded EXCEPT !.at = step] \in Local
  BY <1>1 DEF Local, Message
<1> HIDE DEF loaded
<1>4. {"close", "read", "settle"} \subseteq Steps /\ m.run \in Payload
  BY <1>1 DEF Steps, Message
<1>5. UNCHANGED <<layout, disk, read, sent, faults>> /\ queue' \subseteq Message
  BY DEF Receive, TypeOK
<1>6. CASE disk.runs[m.run].status = "finalized"
  BY <1>5, <1>6 DEF Receive, TypeOK, history
<1>7. CASE disk.runs[m.run].status # "finalized"
  <2>1. \/ \E step \in {"close", "read"} : Load(q, [loaded EXCEPT !.at = step])
        \/ Load(q, [loaded EXCEPT !.at = "settle", !.set = m.run])
    BY <1>7 DEF Receive, loaded
  <2>a. PICK r \in Local : Load(q, r)
    BY <1>2, <1>3, <1>4, <2>1
  <2>2. Moves(q) /\ Stores(q)
    BY <1>5, <2>a DEF Moves, Stores, Load
  <2> QED BY <1>5, <2>2, TypeStep DEF TypeOK
<1> QED BY <1>6, <1>7

LEMMA ReceiptTypes ==
  ASSUME TypeOK, NEW q \in Request, Receipt(q) \/ Close(q)
  PROVE  TypeOK'
<1> USE RequestTypes
<1>1. CASE Receipt(q)
  <2> DEFINE run == req[q].msg.run
             receipts == req[q].mem.runs[run].receipts \union {req[q].msg.shard}
             m == [req[q].mem EXCEPT !.runs[req[q].msg.run].receipts = @ \union {req[q].msg.shard}]
  <2>1. receipts \in SUBSET Payload
    BY DEF State, Run
  <2>2. m = [req[q].mem EXCEPT !.runs[run].receipts = receipts]
    BY DEF State
  <2>3. m \in State
    BY <2>1, <2>2, RunTypes
  <2> HIDE DEF m
  <2>4. Save(q, m) /\ Keep(q, "close", m) /\ UNCHANGED <<layout, queue, read, sent, faults>>
    BY <1>1 DEF Receipt, m
  <2>5. Moves(q) /\ Stores(q)
    BY <2>3, <2>4, StepNames, KeepTypes DEF Stores
  <2> QED BY <2>3, <2>4, <2>5, TypeStep DEF TypeOK
<1>2. CASE Close(q)
  <2>1. FinalizeMessage(req[q].msg.run) \in Message
    BY DEF FinalizeMessage, Message, Payload
  <2>2. queue' \subseteq Message /\ Stores(q)
    BY <1>2, <2>1 DEF Close, TypeOK, Stores
  <2> QED BY <1>2, <2>2, FinishTypes, TypeStep DEF Close, TypeOK
<1> QED BY <1>1, <1>2

LEMMA EvaluationTypes ==
  ASSUME TypeOK, NEW q \in Request,
         ReadSlice(q) \/ Bind(q) \/ BindThrows(q) \/ Service(q) \/ ServiceFails(q)
  PROVE  TypeOK'
<1> USE RequestTypes
<1>1. CASE ReadSlice(q)
  <2> DEFINE known == req[q].mem.sliced \/ ForQueue(q)
             m == [req[q].mem EXCEPT !.sliced = @ \/ ForQueue(q)]
  <2>1. known \in BOOLEAN /\ m = [req[q].mem EXCEPT !.sliced = known]
    BY Zenon
  <2>2. m \in State
    <3> HIDE DEF known, m
    <3> QED BY <2>1 DEF State
  <2>3. Keep(q, "bind", m) /\ UNCHANGED <<layout, disk, queue, sent, history, faults>> /\ read' \subseteq Strategy
    BY <1>1 DEF ReadSlice, TypeOK, Payload
  <2> HIDE DEF m
  <2>4. Moves(q) /\ Stores(q)
    BY <2>2, <2>3, StepNames, KeepTypes DEF Stores
  <2> QED BY <2>3, <2>4, TypeStep DEF TypeOK
<1>2. CASE Bind(q)
  <2>1. Bound(q, req[q].set) \in State
    BY BoundTypes
  <2>2. Save(q, Bound(q, req[q].set)) /\ Keep(q, "service", Bound(q, req[q].set))
        /\ UNCHANGED <<layout, queue, read, sent, faults>>
    BY <1>2 DEF Bind, Save
  <2>3. Moves(q) /\ Stores(q)
    BY <2>1, <2>2, StepNames, KeepTypes DEF Stores
  <2> QED BY <2>1, <2>2, <2>3, TypeStep DEF TypeOK
<1>3. CASE BindThrows(q)
  <2>1. PICK S \in SUBSET {s \in req[q].set : Binds(q, s)} : Abandon(q, Bound(q, S))
    BY <1>3 DEF BindThrows
  <2>2. S \subseteq req[q].set
    OBVIOUS
  <2>3. Bound(q, S) \in State
    BY <2>2, BoundTypes
  <2>4. Stores(q) /\ Moves(q)
    BY <2>1, <2>3, FinishTypes DEF Abandon, TypeOK, Stores
  <2> QED BY <1>3, <2>4, TypeStep DEF BindThrows, TypeOK
<1>4. ASSUME Evaluated(q)
      PROVE  sent' \subseteq Strategy \X Payload
  <2>1. ASSUME NEW s \in req[q].set
        PROVE  <<s, PayloadOf(req[q].set, s)>> \in Strategy \X Payload
    <3>1. PayloadOf(req[q].set, s) \in Shards(req[q].set)
      BY OneShard
    <3>2. PayloadOf(req[q].set, s) \in Payload
      BY <3>1, ShardTypes
    <3> QED BY <3>2 DEF Payload
  <2> QED BY <1>4, <2>1 DEF Evaluated, TypeOK
<1>5. CASE Service(q)
  <2>1. PICK step \in {"receipt", "settle"} : Goto(q, step)
    BY <1>5 DEF Service
  <2>2. Moves(q) /\ Stores(q)
    BY <1>5, <2>1, StepNames, GotoTypes DEF Service, Stores
  <2> QED BY <1>4, <1>5, <2>2, TypeStep DEF Service, TypeOK
<1>6. CASE ServiceFails(q)
  <2>1. Stores(q) /\ Moves(q)
    BY <1>6, FinishTypes DEF ServiceFails, Abandon, TypeOK, Stores
  <2>2. faults' \in 0..MaxFaults
    BY <1>6, MaxFaultsAssumption DEF ServiceFails, TypeOK
  <2> QED BY <1>4, <1>6, <2>1, <2>2, TypeStep DEF ServiceFails, TypeOK
<1> QED BY <1>1, <1>2, <1>3, <1>5, <1>6

LEMMA SettledTypes ==
  ASSUME TypeOK, NEW q \in Request, NEW S \in SUBSET req[q].set,
         NEW verdict \in [req[q].set -> Verdict], Settled(q, S, verdict)
  PROVE  Stores(q) /\ queue' \subseteq Message /\ Moves(q)
<1> DEFINE m == Decided(req[q].mem, S, req[q].set, verdict)
<1>1. m \in State
  BY RequestTypes, DecidedTypes
<1>2. [m EXCEPT !.runs[req[q].set].status = "finalized"] \in State
  <2> HIDE DEF m
  <2> QED BY <1>1, RequestTypes, RunTypes
<1> HIDE DEF m
<1>3. /\ Save(q, IF ForQueue(q) THEN [m EXCEPT !.runs[req[q].set].status = "finalized"] ELSE m)
      /\ queue' = (IF ForQueue(q) THEN queue \ {req[q].msg} ELSE queue)
      /\ Finish(q)
  BY DEF Settled, m
<1>4. \E saved \in State : Save(q, saved)
  BY <1>1, <1>2, <1>3
<1> QED BY <1>3, <1>4, FinishTypes DEF TypeOK, Stores

LEMMA SettleTypes ==
  ASSUME TypeOK, NEW q \in Request, Settle(q) \/ SettleThrows(q) \/ SettleFails(q)
  PROVE  TypeOK'
<1>1. \E S \in SUBSET req[q].set, verdict \in [req[q].set -> Verdict] : Settled(q, S, verdict)
  BY DEF Settle, SettleThrows, SettleFails
<1>2. Stores(q) /\ queue' \subseteq Message /\ Moves(q)
  BY <1>1, SettledTypes
<1>3. UNCHANGED <<layout, read, sent>> /\ faults' \in 0..MaxFaults
  BY MaxFaultsAssumption DEF Settle, SettleThrows, SettleFails, TypeOK
<1> QED BY <1>2, <1>3, TypeStep DEF TypeOK

LEMMA OtherTypes ==
  ASSUME TypeOK,
         \/ \E q \in Request, s \in Strategy : Admit(q, s)
         \/ Restart
         \/ \E S \in Payload : \E p \in Shards(S) : Redeliver(S, p)
  PROVE  TypeOK'
<1>1. ASSUME NEW q \in Request, NEW s \in Strategy, Admit(q, s)
      PROVE  TypeOK'
  <2> DEFINE m == [disk EXCEPT !.phase[s] = "validation"]
             r == [NoRequest EXCEPT !.at = "answer", !.mem = m]
  <2>1. m \in State
    BY DEF TypeOK, State
  <2>2. Load(q, r) /\ UNCHANGED <<layout, disk, queue, read, sent, faults>>
    BY <1>1 DEF Admit
  <2> HIDE DEF m
  <2>3. r \in Local
    BY <2>1, FreshTypes, StepNames DEF Local
  <2> HIDE DEF r
  <2>4. Moves(q) /\ Stores(q)
    BY <2>2, <2>3 DEF Moves, Stores, Load
  <2> QED BY <2>2, <2>4, TypeStep DEF TypeOK
<1>2. CASE Restart
  BY <1>2, FreshTypes, MaxFaultsAssumption DEF Restart, TypeOK, Local, history
<1>3. ASSUME NEW S \in Payload, NEW p \in Shards(S), Redeliver(S, p)
      PROVE  TypeOK'
  <2>1. ShardMessage(S, p) \in Message
    BY ShardTypes DEF ShardMessage, Message
  <2>2. queue' \subseteq Message /\ faults' \in 0..MaxFaults
    BY <1>3, <2>1, MaxFaultsAssumption DEF Redeliver, TypeOK
  <2> QED BY <1>3, <2>2 DEF Redeliver, TypeOK, history
<1> QED BY <1>1, <1>2, <1>3

LEMMA TypesStep == TypeOK /\ [Next]_vars => TypeOK'
<1> SUFFICES ASSUME TypeOK, [Next]_vars PROVE TypeOK'
  OBVIOUS
<1>1. ASSUME NEW q \in Request, Proceed(q)
      PROVE  TypeOK'
  BY <1>1, ValidateTypes, EvaluationTypes, ReceiptTypes, SettleTypes DEF Proceed
<1>2. CASE Fault
  BY <1>2, OtherTypes, EvaluationTypes, SettleTypes DEF Fault
<1>3. CASE Next
  BY <1>1, <1>2, <1>3, OtherTypes, ValidateTypes, MessageTypes DEF Next
<1>4. CASE UNCHANGED vars
  BY <1>4 DEF vars, history, TypeOK
<1> QED BY <1>3, <1>4

LEMMA TypesStart == Init => TypeOK
<1> SUFFICES ASSUME Init PROVE TypeOK
  OBVIOUS
<1>1. req \in [Request -> Local] /\ disk \in State /\ faults \in 0..MaxFaults
  BY FreshTypes, MaxFaultsAssumption DEF Init
<1>2. overwritten \in BOOLEAN
  BY DEF Init
<1> QED BY <1>1, <1>2 DEF Init, TypeOK, Local

(* The stored state, every request's copy of it, the queue and what was read  *)
(* and sent keep their types, however many requests there are.                *)
THEOREM HoldoutTyped == Spec => []TypeOK
<1>1. Init => TypeOK
  BY TypesStart
<1> QED BY <1>1, TypesStep, PTL DEF Spec

-----------------------------------------------------------------------------
(* What a copy, a message and a request tell stays true.                      *)

LEMMA SoundSame ==
  ASSUME NEW m, NEW n, NEW burned, NEW exposed, Sound(m, burned, exposed),
         n.ledger = m.ledger, \A S \in Payload : n.runs[S].receipts = m.runs[S].receipts
  PROVE  Sound(n, burned, exposed)
BY DEF Sound

LEMMA ClaimGrows ==
  ASSUME NEW burned, NEW later, NEW exposed, NEW seen, burned \subseteq later, exposed \subseteq seen
  PROVE  /\ \A m : Sound(m, burned, exposed) => Sound(m, later, seen)
         /\ \A m : Warranted(m, burned) => Warranted(m, later)
         /\ \A r : Claim(r, burned, exposed) => Claim(r, later, seen)
<1>1. ASSUME NEW m, Sound(m, burned, exposed) PROVE Sound(m, later, seen)
  BY <1>1 DEF Sound
<1>2. ASSUME NEW m, Warranted(m, burned) PROVE Warranted(m, later)
  BY <1>2 DEF Warranted
<1>3. ASSUME NEW r, Claim(r, burned, exposed) PROVE Claim(r, later, seen)
  BY <1>1, <1>2, <1>3 DEF Claim
<1> QED BY <1>1, <1>2, <1>3

LEMMA SoundBurned ==
  ASSUME NEW m \in State, NEW S \in Payload, NEW burned, NEW exposed, Sound(m, burned, exposed)
  PROVE  Sound(Burned(m, S), burned, exposed) /\ Burns(Burned(m, S), S)
<1> DEFINE e == Burned(m, S)
<1>1. /\ e.runs = m.runs
      /\ \A s \in Strategy : e.ledger[s] = IF s \in S /\ ~m.ledger[s].burned
                                          THEN [Unburned EXCEPT !.burned = TRUE, !.sliced = m.sliced]
                                          ELSE m.ledger[s]
  BY BurnedTypes
<1> HIDE DEF e
<1>2. Burns(e, S)
  BY <1>1 DEF Unburned, Payload, Burns
<1>3. \A s \in Strategy : e.ledger[s].outcome # NoOutcome => <<s, e.ledger[s].artifact>> \in exposed
  BY <1>1 DEF Sound, Unburned
<1> QED BY <1>1, <1>2, <1>3 DEF Sound, e

LEMMA SoundBound ==
  ASSUME layout \in Layout, NEW q \in Request, req[q] \in Local, NEW S, S \subseteq req[q].set,
         NEW burned, NEW exposed, Sound(req[q].mem, burned, exposed)
  PROVE  Sound(Bound(q, S), burned, exposed)
<1> DEFINE e == Bound(q, S)
           m == req[q].mem
<1>1. m.ledger \in [Strategy -> Reservation]
  BY DEF Local, State
<1>2. /\ e.runs = m.runs
      /\ \A s \in Strategy :
           /\ s \notin S => e.ledger[s] = m.ledger[s]
           /\ s \in S => e.ledger[s] = [m.ledger[s] EXCEPT !.wire = PayloadOf(req[q].set, s)]
  BY BoundTypes
<1> HIDE DEF e, m
<1>3. ASSUME NEW s \in Strategy
      PROVE  /\ e.ledger[s].outcome = m.ledger[s].outcome
             /\ e.ledger[s].artifact = m.ledger[s].artifact
  <2>1. m.ledger[s] \in Reservation
    BY <1>1
  <2>2. CASE s \in S
    BY <1>2, <2>1, <2>2 DEF Reservation
  <2>3. CASE s \notin S
    BY <1>2, <2>3
  <2> QED BY <2>2, <2>3
<1>4. Sound(m, burned, exposed)
  BY DEF m
<1> QED BY <1>2, <1>3, <1>4 DEF Sound, e

LEMMA SoundDecided ==
  ASSUME layout \in Layout, NEW m \in State, NEW burned, NEW exposed, Sound(m, burned, exposed),
         NEW run \in Payload, NEW S \in SUBSET run, NEW verdict \in [run -> Verdict],
         \A p \in Shards(run) : \A s \in p : <<s, p>> \in exposed
  PROVE  Sound(Decided(m, S, run, verdict), burned, exposed)
<1> DEFINE e == Decided(m, S, run, verdict)
<1>1. /\ e.runs = m.runs
      /\ \A s \in Strategy :
           /\ s \notin S => e.ledger[s] = m.ledger[s]
           /\ s \in S => e.ledger[s].artifact = PayloadOf(run, s)
  BY DecidedTypes
<1>2. \A s \in S : <<s, PayloadOf(run, s)>> \in exposed
  BY OneShard
<1> HIDE DEF e
<1> QED BY <1>1, <1>2 DEF Sound, e

LEMMA SoundReceipt ==
  ASSUME NEW d \in State, NEW burned, NEW exposed, Sound(d, burned, exposed),
         NEW m \in Message, Warranted(m, burned), m.kind = "shard",
         \A s \in m.shard : <<s, m.shard>> \in exposed
  PROVE  LET e == [d EXCEPT !.runs[m.run].receipts = @ \union {m.shard}] IN
         e \in State /\ e.ledger = d.ledger /\ Sound(e, burned, exposed)
<1> DEFINE receipts == d.runs[m.run].receipts \union {m.shard}
           e == [d EXCEPT !.runs[m.run].receipts = @ \union {m.shard}]
           f == [d EXCEPT !.runs[m.run].receipts = receipts]
<1>1. m.run \in Payload /\ m.shard \in Payload /\ receipts \in SUBSET Payload
  BY DEF Message, State, Run
<1>2. e = f
  BY DEF State
<1>3. /\ f \in State /\ f.ledger = d.ledger
      /\ \A R \in Payload : f.runs[R].receipts = IF R = m.run THEN receipts ELSE d.runs[R].receipts
  <2> HIDE DEF receipts
  <2>1. f \in State
    BY <1>1, RunTypes
  <2>2. f.ledger = d.ledger /\ f.runs = [d.runs EXCEPT ![m.run].receipts = receipts]
    BY DEF State
  <2>3. \A R \in Payload : f.runs[R].receipts = IF R = m.run THEN receipts ELSE d.runs[R].receipts
    BY <1>1, <2>2 DEF State, Run
  <2> QED BY <2>1, <2>2, <2>3
<1> HIDE DEF e, f
<1>4. Sound(f, burned, exposed)
  BY <1>3 DEF Sound, Warranted
<1> QED BY <1>2, <1>3, <1>4 DEF e

-----------------------------------------------------------------------------
(* What was burned and frozen stays so in the copy that is saved.             *)

Grows(d, e) ==
  \A s \in Strategy : /\ d.ledger[s].burned => e.ledger[s].burned
                      /\ d.ledger[s].wire # {} => e.ledger[s].wire = d.ledger[s].wire

LEMMA SameGrows ==
  ASSUME NEW d, NEW e, Clean(d), e.ledger = d.ledger
  PROVE  Grows(d, e) /\ Clean(e)
BY DEF Clean, Grows

LEMMA BurnedGrows ==
  ASSUME NEW d \in State, NEW S \in Payload, Clean(d), NEW e, e.ledger = Burned(d, S).ledger
  PROVE  Grows(d, e) /\ Clean(e)
<1> DEFINE b == Burned(d, S)
<1>1. \A s \in Strategy : b.ledger[s] = IF s \in S /\ ~d.ledger[s].burned
                                          THEN [Unburned EXCEPT !.burned = TRUE, !.sliced = d.sliced]
                                          ELSE d.ledger[s]
  BY BurnedTypes
<1> HIDE DEF b
<1>a. e.ledger = b.ledger
  BY DEF b
<1>2. ASSUME NEW s \in Strategy
      PROVE  \/ e.ledger[s] = d.ledger[s]
             \/ ~d.ledger[s].burned /\ e.ledger[s].burned /\ e.ledger[s].wire = {}
  <2> DEFINE fresh == [Unburned EXCEPT !.burned = TRUE, !.sliced = d.sliced]
  <2>1. fresh.burned /\ fresh.wire = {}
    BY DEF Unburned
  <2> HIDE DEF fresh
  <2>2. CASE s \in S /\ ~d.ledger[s].burned
    <3>1. e.ledger[s] = fresh
      BY <1>1, <1>a, <2>2 DEF fresh
    <3> QED BY <2>1, <2>2, <3>1
  <2>3. CASE ~(s \in S /\ ~d.ledger[s].burned)
    BY <1>1, <1>a, <2>3
  <2> QED BY <2>2, <2>3
<1> QED BY <1>2 DEF Clean, Grows

LEMMA BoundGrows ==
  ASSUME layout \in Layout, NEW q \in Request, req[q] \in Local, NEW d,
         req[q].mem.ledger = d.ledger, Clean(d), Burns(d, req[q].set),
         NEW S, S \subseteq req[q].set, \A s \in S : Binds(q, s)
  PROVE  Grows(d, Bound(q, S)) /\ Clean(Bound(q, S))
<1> DEFINE e == Bound(q, S)
<1>1. d.ledger \in [Strategy -> Reservation]
  BY DEF Local, State
<1>2. \A s \in Strategy :
        /\ s \notin S => e.ledger[s] = d.ledger[s]
        /\ s \in S => e.ledger[s] = [d.ledger[s] EXCEPT !.wire = PayloadOf(req[q].set, s)]
  BY BoundTypes
<1>3. \A s \in S : d.ledger[s].wire \in {{}, PayloadOf(req[q].set, s)}
  BY DEF Binds
<1> HIDE DEF e
<1>4. \A s \in Strategy : e.ledger[s].burned = d.ledger[s].burned
  BY <1>1, <1>2 DEF Reservation
<1>5. ASSUME NEW s \in S, s \in Strategy
      PROVE  e.ledger[s].wire = PayloadOf(req[q].set, s)
  <2>1. e.ledger[s] = [d.ledger[s] EXCEPT !.wire = PayloadOf(req[q].set, s)]
    BY <1>2, <1>5
  <2>2. d.ledger[s] \in Reservation
    BY <1>1, <1>5
  <2> QED BY <2>1, <2>2 DEF Reservation
<1>6. ASSUME NEW s \in Strategy
      PROVE  /\ d.ledger[s].burned => e.ledger[s].burned
             /\ d.ledger[s].wire # {} => e.ledger[s].wire = d.ledger[s].wire
  <2>1. CASE s \in S
    BY <1>3, <1>4, <1>5, <2>1
  <2>2. CASE s \notin S
    BY <1>2, <1>4, <2>2
  <2> QED BY <2>1, <2>2
<1>7. Clean(e)
  BY <1>2, <1>4 DEF Clean, Burns
<1>8. Grows(d, e)
  BY <1>6 DEF Grows
<1> QED BY <1>7, <1>8 DEF e

LEMMA FrozenSaved ==
  ASSUME NEW d, NEW e, NEW burned \in SUBSET Strategy, NEW exposed \in SUBSET (Strategy \X Payload),
         Frozen(d, burned, exposed), Grows(d, e), Clean(e), \A x \in exposed : x[2] # {}
  PROVE  Frozen(e, burned \union {s \in Strategy : e.ledger[s].burned}, exposed)
<1>1. Burns(e, burned \union {s \in Strategy : e.ledger[s].burned})
  BY DEF Frozen, Burns, Grows
<1>2. ASSUME NEW x \in exposed PROVE e.ledger[x[1]].wire = x[2]
  <2>1. x[1] \in Strategy /\ d.ledger[x[1]].wire = x[2] /\ x[2] # {}
    BY DEF Frozen
  <2> QED BY <2>1 DEF Grows
<1> QED BY <1>1, <1>2 DEF Frozen

LEMMA ReadyGrows ==
  ASSUME NEW r \in Local, NEW d, NEW e, Ready(r, d), Grows(d, e)
  PROVE  Ready(r, e)
<1> SUFFICES ASSUME r.at = "service", NEW p \in Shards(r.set), NEW s \in p
             PROVE  e.ledger[s].wire = p
  BY DEF Ready
<1>1. r.set \in Payload /\ d.ledger[s].wire = p
  BY DEF Ready, Local
<1>2. p # {} /\ s \in Strategy
  BY <1>1, ShardTypes DEF Payload
<1> QED BY <1>1, <1>2 DEF Grows

-----------------------------------------------------------------------------
(* What a step has to show to keep the invariant.                             *)

LEMMA Held ==
  ASSUME HoldoutIInv, NEW q \in Request
  PROVE  /\ TypeOK /\ layout \in Layout /\ disk \in State /\ req[q] \in Local
         /\ req[q].mem \in State /\ req[q].set \in Payload
         /\ read \subseteq burns /\ burns \in SUBSET Strategy
         /\ sent \in SUBSET (Strategy \X Payload) /\ \A x \in sent : x[2] # {}
         /\ Sound(disk, burns, sent) /\ \A m \in queue : m \in Message /\ Warranted(m, burns)
         /\ Claim(req[q], burns, sent) /\ Sound(req[q].mem, burns, sent)
         /\ req[q].msg # NoMessage => req[q].msg \in Message
         /\ ~overwritten => Frozen(disk, burns, sent) /\ Ready(req[q], disk)
         /\ ~overwritten /\ q \notin behind => Current(req[q], disk)
BY DEF HoldoutIInv, TypeOK, Local, Traced, Preserved, Claim

LEMMA IdleFits ==
  ASSUME NEW burned, NEW exposed, NEW d
  PROVE  Claim(NoRequest, burned, exposed) /\ Current(NoRequest, d) /\ Ready(NoRequest, d)
<1>1. Sound(Fresh, burned, exposed)
  BY DEF Sound, Fresh, Unburned
<1> QED BY <1>1 DEF Claim, Current, Ready, NoRequest

\* In terms of the next state, when the layout stays.
LEMMA Restate ==
  ASSUME layout' = layout, TypeOK', read' \subseteq burns', \A x \in sent' : x[2] # {},
         Sound(disk', burns', sent'), \A m \in queue' : Warranted(m, burns'),
         \A q \in Request : Claim(req'[q], burns', sent'),
         \/ overwritten'
         \/ /\ Frozen(disk', burns', sent')
            /\ \A q \in Request : Ready(req'[q], disk') /\ (q \in behind' \/ Current(req'[q], disk'))
  PROVE  HoldoutIInv'
<1>1. Sound(disk, burns, sent)'
  BY DEF Sound, Shards
<1>2. (\A m \in queue : Warranted(m, burns))'
  BY DEF Warranted, Shards
<1>3. (\A q \in Request : Claim(req[q], burns, sent))'
  BY DEF Claim, Sound, Warranted, Burns, Shards
<1>4. Preserved'
  <2>1. CASE overwritten'
    BY <2>1 DEF Preserved
  <2>2. CASE /\ Frozen(disk', burns', sent')
             /\ \A q \in Request : Ready(req'[q], disk') /\ (q \in behind' \/ Current(req'[q], disk'))
    <3>1. Frozen(disk, burns, sent)'
      BY <2>2 DEF Frozen, Burns, Clean
    <3>2. (\A q \in Request : Ready(req[q], disk))'
      BY <2>2 DEF Ready, Shards
    <3>3. (\A q \in Request : q \in behind \/ Current(req[q], disk))'
      BY <2>2 DEF Current, Burned
    <3> QED BY <3>1, <3>2, <3>3 DEF Preserved
  <2> QED BY <2>1, <2>2
<1> QED BY <1>1, <1>2, <1>3, <1>4 DEF HoldoutIInv, Traced

\* A request that goes on tells what happened, and is not ahead of the disk.
Fits(p) ==
  /\ Claim(req'[p], burns, sent')
  /\ ~overwritten => Ready(req'[p], disk) /\ (p \notin behind => Current(req'[p], disk))

LEMMA QuietHolds ==
  ASSUME HoldoutIInv, TypeOK', UNCHANGED <<layout, disk, history>>, read' \subseteq burns,
         sent \subseteq sent', \A x \in sent' : x[2] # {}, \A m \in queue' : Warranted(m, burns),
         \A p \in Request : req'[p] = req[p] \/ Fits(p),
         ~overwritten => Frozen(disk, burns, sent')
  PROVE  HoldoutIInv'
<1>1. /\ disk' = disk /\ burns' = burns /\ behind' = behind /\ overwritten' = overwritten
  BY DEF history
<1>2. Sound(disk', burns', sent')
  BY <1>1, ClaimGrows DEF HoldoutIInv, Traced
<1>3. ASSUME NEW p \in Request
      PROVE  /\ Claim(req'[p], burns', sent')
             /\ ~overwritten => Ready(req'[p], disk) /\ (p \notin behind => Current(req'[p], disk))
  <2>1. CASE req'[p] = req[p]
    BY <1>1, <2>1, Held, ClaimGrows
  <2>2. CASE Fits(p)
    BY <1>1, <2>2 DEF Fits
  <2> QED BY <2>1, <2>2
<1> QED BY <1>1, <1>2, <1>3, Restate

LEMMA LoadHolds ==
  ASSUME HoldoutIInv, TypeOK', UNCHANGED <<layout, disk, read, sent>>, queue' \subseteq queue,
         NEW q \in Request, NEW r, Load(q, r),
         Claim(r, burns, sent), Current(r, disk), r.at # "service"
  PROVE  HoldoutIInv'
<1>1. /\ burns' = burns /\ behind' = behind \ {q} /\ overwritten' = overwritten
      /\ req'[q] = r /\ \A p \in Request \ {q} : req'[p] = req[p]
  BY DEF Load, HoldoutIInv, TypeOK
<1>2. ASSUME NEW p \in Request
      PROVE  /\ Claim(req'[p], burns', sent')
             /\ ~overwritten => Ready(req'[p], disk') /\ (p \notin behind' => Current(req'[p], disk'))
  <2>1. CASE p = q
    BY <1>1, <2>1 DEF Ready
  <2>2. CASE p # q
    BY <1>1, <2>2, Held
  <2> QED BY <2>1, <2>2
<1>3. \A m \in queue' : Warranted(m, burns')
  BY <1>1 DEF HoldoutIInv, Traced
<1>4. /\ read' \subseteq burns' /\ Sound(disk', burns', sent') /\ \A x \in sent' : x[2] # {}
      /\ overwritten' \/ Frozen(disk', burns', sent')
  BY <1>1 DEF HoldoutIInv, Traced, Preserved
<1> QED BY <1>1, <1>2, <1>3, <1>4, Restate

LEMMA SaveHolds ==
  ASSUME HoldoutIInv, TypeOK', UNCHANGED <<layout, read>>, NEW q \in Request, NEW m \in State, Save(q, m),
         \A p \in Request \ {q} : req'[p] = req[p],
         sent \subseteq sent', \A x \in sent' : x[2] # {},
         Sound(m, burns', sent'), \A msg \in queue' : Warranted(msg, burns'),
         Claim(req'[q], burns', sent'),
         ~overwritten /\ q \notin behind =>
           /\ Frozen(disk, burns, sent') /\ Grows(disk, m) /\ Clean(m)
           /\ Ready(req'[q], m) /\ Current(req'[q], m)
  PROVE  HoldoutIInv'
<1>1. /\ disk' = m /\ burns' = burns \union {s \in Strategy : m.ledger[s].burned}
      /\ behind' = {p \in Request \ {q} : req[p].at # "idle"}
      /\ overwritten' = (overwritten \/ q \in behind)
  BY DEF Save
<1>2. ASSUME NEW p \in Request
      PROVE  Claim(req'[p], burns', sent')
  <2>1. CASE p = q
    BY <2>1
  <2>2. CASE p # q
    BY <1>1, <2>2, Held, ClaimGrows
  <2> QED BY <2>1, <2>2
<1>3. ASSUME ~overwritten'
      PROVE  /\ Frozen(m, burns', sent')
             /\ \A p \in Request : Ready(req'[p], m) /\ (p \in behind' \/ Current(req'[p], m))
  <2>1. ~overwritten /\ q \notin behind
    BY <1>1, <1>3
  <2>2. sent' \in SUBSET (Strategy \X Payload) /\ burns \in SUBSET Strategy
    BY DEF TypeOK, HoldoutIInv
  <2>3. Frozen(m, burns', sent')
    BY <1>1, <2>1, <2>2, FrozenSaved
  <2>4. ASSUME NEW p \in Request \ {q}
        PROVE  Ready(req'[p], m) /\ (p \in behind' \/ Current(req'[p], m))
    <3>1. Ready(req[p], disk) /\ req[p] \in Local
      BY <2>1, Held
    <3>2. Ready(req[p], m)
      BY <2>1, <3>1, ReadyGrows
    <3>3. req[p].at = "idle" => Current(req[p], m)
      BY DEF Current
    <3> QED BY <1>1, <3>2, <3>3
  <2> QED BY <2>1, <2>3, <2>4
<1>4. read' \subseteq burns'
  BY <1>1 DEF HoldoutIInv, Traced
<1> QED BY <1>1, <1>2, <1>3, <1>4, Restate

LEMMA Gone ==
  ASSUME TypeOK, NEW q \in Request, NEW step, Goto(q, step)
  PROVE  /\ req'[q].at = step /\ req'[q].mem = req[q].mem
         /\ req'[q].set = req[q].set /\ req'[q].msg = req[q].msg
         /\ \A p \in Request \ {q} : req'[p] = req[p]
<1>1. /\ req[q] \in Local /\ req'[q] = [req[q] EXCEPT !.at = step]
      /\ \A p \in Request \ {q} : req'[p] = req[p]
  BY DEF Goto, TypeOK, Local
<1> QED BY <1>1 DEF Local

LEMMA Kept ==
  ASSUME TypeOK, NEW q \in Request, NEW step, NEW m, Keep(q, step, m)
  PROVE  /\ req'[q].at = step /\ req'[q].mem = m
         /\ req'[q].set = req[q].set /\ req'[q].msg = req[q].msg
         /\ \A p \in Request \ {q} : req'[p] = req[p]
<1>1. /\ req[q] \in Local /\ req'[q] = [req[q] EXCEPT !.at = step, !.mem = m]
      /\ \A p \in Request \ {q} : req'[p] = req[p]
  BY DEF Keep, TypeOK, Local
<1> QED BY <1>1 DEF Local

LEMMA Finished ==
  ASSUME TypeOK, NEW q \in Request, Finish(q)
  PROVE  req'[q] = NoRequest /\ \A p \in Request \ {q} : req'[p] = req[p]
BY DEF Finish, TypeOK

\* A request that saves and ends.
LEMMA LastSave ==
  ASSUME HoldoutIInv, TypeOK', UNCHANGED <<layout, read>>, NEW q \in Request, NEW m \in State,
         Save(q, m), Finish(q),
         sent \subseteq sent', \A x \in sent' : x[2] # {},
         Sound(m, burns, sent'), \A msg \in queue' : Warranted(msg, burns),
         ~overwritten /\ q \notin behind => Frozen(disk, burns, sent') /\ Grows(disk, m) /\ Clean(m)
  PROVE  HoldoutIInv'
<1>1. burns \subseteq burns'
  BY DEF Save
<1>2. Sound(m, burns', sent') /\ \A msg \in queue' : Warranted(msg, burns')
  BY <1>1, ClaimGrows
<1> QED BY <1>2, IdleFits, Finished, Held, SaveHolds

-----------------------------------------------------------------------------
(* Action by action.                                                          *)

LEMMA AdmitHolds ==
  ASSUME HoldoutIInv, TypeOK', NEW q \in Request, NEW s \in Strategy, Admit(q, s)
  PROVE  HoldoutIInv'
<1> USE Held
<1> DEFINE m == [disk EXCEPT !.phase[s] = "validation"]
           r == [NoRequest EXCEPT !.at = "answer", !.mem = m]
<1>1. m.ledger = disk.ledger /\ m.runs = disk.runs
  <2>1. m = [disk EXCEPT !.phase = [disk.phase EXCEPT ![s] = "validation"]]
    BY DEF State
  <2> HIDE DEF m
  <2> QED BY <2>1 DEF State
<1>2. Load(q, r) /\ UNCHANGED <<layout, disk, queue, read, sent>>
  BY DEF Admit
<1> HIDE DEF m
<1>3. r.at = "answer" /\ r.mem = m /\ r.msg = NoMessage
  BY DEF NoRequest
<1>4. Sound(m, burns, sent)
  BY <1>1, SoundSame
<1> HIDE DEF r
<1>5. Claim(r, burns, sent) /\ Current(r, disk)
  BY <1>1, <1>3, <1>4 DEF Claim, Current
<1> QED BY <1>2, <1>3, <1>5, LoadHolds

LEMMA ValidateHolds ==
  ASSUME HoldoutIInv, TypeOK', NEW q \in Request, Validate(q)
  PROVE  HoldoutIInv'
<1> USE Held
<1> DEFINE S == Admitted(disk)
           r == [at |-> "burn", msg |-> NoMessage, set |-> S, mem |-> Burned(disk, S)]
<1>1. Load(q, r) /\ UNCHANGED <<layout, disk, queue, read, sent>>
  BY DEF Validate
<1>2. S \in Payload
  BY DEF Admitted, Payload
<1> HIDE DEF S
<1>3. Sound(Burned(disk, S), burns, sent) /\ Burns(Burned(disk, S), S)
  BY <1>2, SoundBurned
<1>4. Claim(r, burns, sent) /\ Current(r, disk) /\ r.at # "service"
  BY <1>3 DEF Claim, Current
<1> HIDE DEF r
<1> QED BY <1>1, <1>4, LoadHolds

LEMMA SaveBurnHolds ==
  ASSUME HoldoutIInv, TypeOK', NEW q \in Request, SaveBurn(q)
  PROVE  HoldoutIInv'
<1> USE Held
<1> DEFINE m == req[q].mem
<1>1. /\ req[q].at = "burn" /\ Save(q, m) /\ UNCHANGED <<layout, queue, read, sent>>
      /\ \E step \in {"enqueue", "read"} : Goto(q, step)
  BY DEF SaveBurn
<1>2. /\ req'[q].at \in {"enqueue", "read"} /\ req'[q].mem = m /\ req'[q].set = req[q].set
      /\ req'[q].msg = req[q].msg /\ \A p \in Request \ {q} : req'[p] = req[p]
  BY <1>1, Gone
<1>3. burns \subseteq burns' /\ req[q].set \subseteq burns'
  <2>1. Burns(m, req[q].set)
    BY <1>1 DEF Claim
  <2> QED BY <1>1, <2>1 DEF Save, Burns, Payload
<1>4. Claim(req[q], burns', sent') /\ \A msg \in queue' : Warranted(msg, burns')
  BY <1>1, <1>3, ClaimGrows
<1>5. Claim(req'[q], burns', sent') /\ Sound(m, burns', sent')
  BY <1>1, <1>2, <1>3, <1>4 DEF Claim
<1>6. ASSUME ~overwritten, q \notin behind
      PROVE  /\ Frozen(disk, burns, sent') /\ Grows(disk, m) /\ Clean(m)
             /\ Ready(req'[q], m) /\ Current(req'[q], m)
  <2>1. m.ledger = Burned(disk, req[q].set).ledger /\ Frozen(disk, burns, sent)
    BY <1>1, <1>6 DEF Current
  <2>2. Grows(disk, m) /\ Clean(m)
    BY <2>1, BurnedGrows DEF Frozen
  <2> QED BY <1>1, <1>2, <2>1, <2>2 DEF Ready, Current
<1> QED BY <1>1, <1>2, <1>4, <1>5, <1>6, SaveHolds

LEMMA EnqueueHolds ==
  ASSUME HoldoutIInv, TypeOK', NEW q \in Request, Enqueue(q)
  PROVE  HoldoutIInv'
<1> USE Held
<1> DEFINE m == [req[q].mem EXCEPT !.runs[req[q].set].status = IF @ = "absent" THEN "queued" ELSE @]
           old == req[q].mem.runs[req[q].set].status
           new == IF old = "absent" THEN "queued" ELSE old
<1>1. new \in {"absent", "queued", "finalized"}
  BY DEF State, Run
<1>2. m = [req[q].mem EXCEPT !.runs[req[q].set].status = new]
  BY DEF State
<1>3. /\ m \in State /\ m.ledger = req[q].mem.ledger
      /\ \A R \in Payload : m.runs[R].receipts = req[q].mem.runs[R].receipts
  <2>1. req[q].mem \in State /\ req[q].set \in Payload /\ {} \in SUBSET Payload
    OBVIOUS
  <2>2. m \in State
    BY <1>1, <1>2, <2>1, RunTypes
  <2> HIDE DEF m, old, new
  <2>3. m.ledger = req[q].mem.ledger
    BY <1>1, <1>2, <2>1, RunTypes
  <2>4. \A R \in Payload : m.runs[R].receipts = req[q].mem.runs[R].receipts
    BY <1>1, <1>2, <2>1, RunTypes
  <2> QED BY <2>2, <2>3, <2>4
<1> HIDE DEF m
<1>4. /\ Save(q, m) /\ Keep(q, "send", m) /\ req[q].at = "enqueue"
      /\ UNCHANGED <<layout, queue, read, sent>>
  BY Zenon DEF Enqueue, m
<1>5. /\ req'[q].at = "send" /\ req'[q].mem = m /\ req'[q].set = req[q].set
      /\ req'[q].msg = req[q].msg /\ \A p \in Request \ {q} : req'[p] = req[p]
  BY <1>4, Kept
<1>6. burns \subseteq burns'
  BY <1>4 DEF Save
<1>7. Claim(req[q], burns', sent') /\ \A msg \in queue' : Warranted(msg, burns')
  BY <1>4, <1>6, ClaimGrows
<1>8. Sound(m, burns', sent')
  <2>1. Sound(req[q].mem, burns', sent')
    BY <1>7 DEF Claim
  <2> QED BY <1>3, <2>1, SoundSame
<1>9. Claim(req'[q], burns', sent')
  BY <1>4, <1>5, <1>7, <1>8 DEF Claim
<1>10. ASSUME ~overwritten, q \notin behind
       PROVE  /\ Frozen(disk, burns, sent') /\ Grows(disk, m) /\ Clean(m)
              /\ Ready(req'[q], m) /\ Current(req'[q], m)
  <2>1. m.ledger = disk.ledger /\ Frozen(disk, burns, sent)
    BY <1>3, <1>4, <1>10 DEF Current
  <2>2. Grows(disk, m) /\ Clean(m)
    BY <2>1, SameGrows DEF Frozen
  <2> QED BY <1>4, <1>5, <2>1, <2>2 DEF Ready, Current
<1> QED BY <1>3, <1>4, <1>5, <1>7, <1>8, <1>9, <1>10, SaveHolds

LEMMA SendHolds ==
  ASSUME HoldoutIInv, TypeOK', NEW q \in Request, Send(q)
  PROVE  HoldoutIInv'
<1> USE Held
<1> DEFINE S == req[q].set
<1>1. /\ UNCHANGED <<layout, disk, read, sent, history>> /\ req[q].at = "send"
      /\ Goto(q, "answer")
  BY DEF Send
<1>2. S \subseteq burns
  BY <1>1 DEF Claim
<1>3. \A m \in queue' : m \in queue \/ m = FinalizeMessage(S)
                        \/ \E p \in Shards(S) : m = ShardMessage(S, p)
  BY DEF Send
<1>4. \A m \in queue' : Warranted(m, burns)
  BY <1>2, <1>3 DEF FinalizeMessage, ShardMessage, Warranted
<1>5. /\ req'[q].at = "answer" /\ req'[q].mem = req[q].mem /\ req'[q].set = req[q].set
      /\ req'[q].msg = req[q].msg /\ \A p \in Request \ {q} : req'[p] = req[p]
  BY <1>1, Gone
<1>6. Fits(q)
  BY <1>1, <1>5 DEF Fits, Claim, Ready, Current
<1>7. \A p \in Request : req'[p] = req[p] \/ Fits(p)
  BY <1>5, <1>6
<1> QED BY <1>1, <1>4, <1>7, QuietHolds

LEMMA AnswerHolds ==
  ASSUME HoldoutIInv, TypeOK', NEW q \in Request, Answer(q)
  PROVE  HoldoutIInv'
<1> USE Held
<1>1. /\ req[q].at = "answer" /\ Save(q, req[q].mem) /\ Finish(q)
      /\ UNCHANGED <<layout, queue, read, sent>>
  BY DEF Answer
<1>2. ASSUME ~overwritten, q \notin behind
      PROVE  Frozen(disk, burns, sent') /\ Grows(disk, req[q].mem) /\ Clean(req[q].mem)
  BY <1>1, <1>2, SameGrows DEF Current, Frozen
<1> QED BY <1>1, <1>2, LastSave

LEMMA ReceiveHolds ==
  ASSUME HoldoutIInv, TypeOK', NEW q \in Request, NEW m \in queue, Receive(q, m)
  PROVE  HoldoutIInv'
<1> USE Held
<1> DEFINE loaded == [at |-> "read", msg |-> m, set |-> m.shard, mem |-> disk]
           shard == [loaded EXCEPT !.at = IF m.shard \in disk.runs[m.run].receipts
                                          THEN "close" ELSE "read"]
           final == [loaded EXCEPT !.at = "settle", !.set = m.run]
<1>1. m \in Message /\ Warranted(m, burns)
  OBVIOUS
<1>2. m.run \in Payload /\ m.shard \in Payload /\ m # NoMessage
  BY <1>1 DEF Message, NoMessage
<1>3. UNCHANGED <<layout, disk, read, sent>> /\ queue' \subseteq queue
  BY DEF Receive
<1>4. CASE UNCHANGED <<req, history>>
  <2>1. \A x \in queue' : Warranted(x, burns)
    BY <1>3
  <2>2. \A p \in Request : req'[p] = req[p] \/ Fits(p)
    BY <1>4
  <2> QED BY <1>3, <1>4, <2>1, <2>2, QuietHolds
<1>5. CASE m.kind = "shard" /\ Load(q, shard)
  <2>1. m.shard \subseteq burns
    BY <1>1, <1>2, <1>5, ShardTypes DEF Warranted
  <2>2. /\ shard.at \in {"read", "close"} /\ shard.msg = m /\ shard.set = m.shard
        /\ shard.mem = disk
    OBVIOUS
  <2> HIDE DEF loaded, shard, final
  <2>3. Claim(shard, burns, sent) /\ Current(shard, disk) /\ shard.at # "service"
    BY <1>1, <1>2, <1>5, <2>1, <2>2 DEF Claim, Current
  <2> QED BY <1>3, <1>5, <2>3, LoadHolds
<1>6. CASE disk.runs[m.run].receipts = Shards(m.run) /\ Load(q, final)
  <2>1. \A p \in Shards(m.run) : \A s \in p : <<s, p>> \in sent
    BY <1>2, <1>6 DEF Sound
  <2>2. final.at = "settle" /\ final.msg = m /\ final.set = m.run /\ final.mem = disk
    OBVIOUS
  <2> HIDE DEF loaded, shard, final
  <2>3. Claim(final, burns, sent) /\ Current(final, disk) /\ final.at # "service"
    BY <2>1, <2>2 DEF Claim, Current
  <2> QED BY <1>3, <1>6, <2>3, LoadHolds
<1> QED BY <1>4, <1>5, <1>6 DEF Receive

LEMMA ReceiptHolds ==
  ASSUME HoldoutIInv, TypeOK', NEW q \in Request, Receipt(q)
  PROVE  HoldoutIInv'
<1> USE Held
<1> DEFINE msg == req[q].msg
           m == [req[q].mem EXCEPT !.runs[msg.run].receipts = @ \union {msg.shard}]
<1>1. /\ req[q].at = "receipt" /\ Save(q, m) /\ Keep(q, "close", m)
      /\ UNCHANGED <<layout, queue, read, sent>>
  BY Zenon DEF Receipt
<1>2. /\ msg \in Message /\ msg # NoMessage /\ Warranted(msg, burns)
      /\ msg.kind = "shard" /\ req[q].set = msg.shard
      /\ \A s \in msg.shard : <<s, msg.shard>> \in sent
  BY <1>1 DEF Claim
<1>3. m \in State /\ m.ledger = req[q].mem.ledger /\ Sound(m, burns, sent)
  BY <1>2, SoundReceipt
<1> HIDE DEF m
<1>4. /\ req'[q].at = "close" /\ req'[q].mem = m /\ req'[q].set = req[q].set
      /\ req'[q].msg = msg /\ \A p \in Request \ {q} : req'[p] = req[p]
  BY <1>1, Kept
<1>5. burns \subseteq burns'
  BY <1>1 DEF Save
<1>6. /\ Sound(m, burns', sent') /\ Warranted(msg, burns')
      /\ \A x \in queue' : Warranted(x, burns')
  BY <1>1, <1>2, <1>3, <1>5, ClaimGrows
<1>7. Claim(req'[q], burns', sent')
  BY <1>2, <1>4, <1>6 DEF Claim
<1>8. ASSUME ~overwritten, q \notin behind
      PROVE  /\ Frozen(disk, burns, sent') /\ Grows(disk, m) /\ Clean(m)
             /\ Ready(req'[q], m) /\ Current(req'[q], m)
  <2>1. m.ledger = disk.ledger /\ Frozen(disk, burns, sent)
    BY <1>1, <1>3, <1>8 DEF Current
  <2>2. Grows(disk, m) /\ Clean(m)
    BY <2>1, SameGrows DEF Frozen
  <2> QED BY <1>1, <1>4, <2>1, <2>2 DEF Ready, Current
<1> QED BY <1>1, <1>3, <1>4, <1>6, <1>7, <1>8, SaveHolds

LEMMA CloseHolds ==
  ASSUME HoldoutIInv, TypeOK', NEW q \in Request, Close(q)
  PROVE  HoldoutIInv'
<1> USE Held
<1> DEFINE run == req[q].msg.run
<1>1. /\ req[q].at = "close" /\ Finish(q) /\ UNCHANGED <<layout, read, sent>>
      /\ queue' \subseteq queue \union {FinalizeMessage(run)}
      /\ Save(q, req[q].mem) \/ UNCHANGED <<disk, history>>
  BY DEF Close
<1>2. run \subseteq burns
  BY <1>1 DEF Claim, Warranted
<1>3. \A x \in queue' : Warranted(x, burns)
  BY <1>1, <1>2 DEF Warranted, FinalizeMessage
<1>4. CASE Save(q, req[q].mem)
  <2>1. ASSUME ~overwritten, q \notin behind
        PROVE  Frozen(disk, burns, sent') /\ Grows(disk, req[q].mem) /\ Clean(req[q].mem)
    BY <1>1, <2>1, SameGrows DEF Current, Frozen
  <2> QED BY <1>1, <1>3, <1>4, <2>1, LastSave
<1>5. CASE UNCHANGED <<disk, history>>
  <2>1. \A p \in Request : req'[p] = req[p] \/ Fits(p)
    BY <1>1, IdleFits, Finished DEF Fits
  <2> QED BY <1>1, <1>3, <1>5, <2>1, QuietHolds
<1> QED BY <1>1, <1>4, <1>5

LEMMA ReadHolds ==
  ASSUME HoldoutIInv, TypeOK', NEW q \in Request, ReadSlice(q)
  PROVE  HoldoutIInv'
<1> USE Held
<1> DEFINE m == [req[q].mem EXCEPT !.sliced = @ \/ ForQueue(q)]
<1>1. m.ledger = req[q].mem.ledger /\ m.runs = req[q].mem.runs
  BY DEF State
<1>2. /\ req[q].at = "read" /\ Keep(q, "bind", m) /\ read' = read \union req[q].set
      /\ UNCHANGED <<layout, disk, queue, sent, history>>
  BY DEF ReadSlice
<1> HIDE DEF m
<1>3. /\ req'[q].at = "bind" /\ req'[q].mem = m /\ req'[q].set = req[q].set
      /\ req'[q].msg = req[q].msg /\ \A p \in Request \ {q} : req'[p] = req[p]
  BY <1>2, Kept
<1>4. req[q].set \subseteq burns /\ Sound(m, burns, sent)
  BY <1>1, <1>2, SoundSame DEF Claim
<1>5. Fits(q)
  <2>1. Claim(req'[q], burns, sent')
    BY <1>2, <1>3, <1>4 DEF Claim
  <2>2. ~overwritten => Ready(req'[q], disk) /\ (q \notin behind => Current(req'[q], disk))
    BY <1>1, <1>2, <1>3 DEF Ready, Current
  <2> QED BY <2>1, <2>2 DEF Fits
<1>6. \A p \in Request : req'[p] = req[p] \/ Fits(p)
  BY <1>3, <1>5
<1> QED BY <1>2, <1>4, <1>6, QuietHolds

\* Binding, of all strategies or of some before one is refused.
LEMMA BoundHolds ==
  ASSUME HoldoutIInv, NEW q \in Request, req[q].at = "bind", NEW S, S \subseteq req[q].set,
         \A s \in S : Binds(q, s)
  PROVE  /\ Bound(q, S) \in State /\ Sound(Bound(q, S), burns, sent)
         /\ ~overwritten /\ q \notin behind =>
              Frozen(disk, burns, sent) /\ Grows(disk, Bound(q, S)) /\ Clean(Bound(q, S))
<1> USE Held
<1>1. Bound(q, S) \in State /\ Sound(Bound(q, S), burns, sent)
  BY BoundTypes, SoundBound
<1>2. ASSUME ~overwritten, q \notin behind
      PROVE  Frozen(disk, burns, sent) /\ Grows(disk, Bound(q, S)) /\ Clean(Bound(q, S))
  <2>1. Frozen(disk, burns, sent) /\ req[q].mem.ledger = disk.ledger /\ req[q].set \subseteq burns
    BY <1>2 DEF Current, Claim
  <2>2. Clean(disk) /\ Burns(disk, req[q].set)
    BY <2>1 DEF Frozen, Burns
  <2> QED BY <2>1, <2>2, BoundGrows
<1> QED BY <1>1, <1>2

LEMMA BindHolds ==
  ASSUME HoldoutIInv, TypeOK', NEW q \in Request, Bind(q)
  PROVE  HoldoutIInv'
<1> USE Held
<1> DEFINE m == Bound(q, req[q].set)
<1>1. /\ req[q].at = "bind" /\ \A s \in req[q].set : Binds(q, s)
      /\ Save(q, m) /\ Keep(q, "service", m) /\ UNCHANGED <<layout, queue, read, sent>>
  BY DEF Bind, Save
<1>2. /\ m \in State /\ Sound(m, burns, sent)
      /\ ~overwritten /\ q \notin behind => Frozen(disk, burns, sent) /\ Grows(disk, m) /\ Clean(m)
  BY <1>1, BoundHolds
<1>3. ASSUME NEW p \in Shards(req[q].set), NEW s \in p
      PROVE  m.ledger[s].wire = p
  <2>1. s \in req[q].set /\ s \in Strategy /\ p = PayloadOf(req[q].set, s)
    BY OneShard, ShardTypes DEF Payload
  <2>2. m.ledger[s] = [req[q].mem.ledger[s] EXCEPT !.wire = p]
    BY <2>1, BoundTypes
  <2> QED BY <2>1, <2>2 DEF State, Reservation
<1> HIDE DEF m
<1>4. /\ req'[q].at = "service" /\ req'[q].mem = m /\ req'[q].set = req[q].set
      /\ req'[q].msg = req[q].msg /\ \A p \in Request \ {q} : req'[p] = req[p]
  BY <1>1, Kept
<1>5. burns \subseteq burns'
  BY <1>1 DEF Save
<1>6. /\ Claim(req[q], burns', sent') /\ Sound(m, burns', sent')
      /\ \A x \in queue' : Warranted(x, burns')
  BY <1>1, <1>2, <1>5, ClaimGrows
<1>7. Claim(req'[q], burns', sent')
  BY <1>1, <1>4, <1>6 DEF Claim
<1>8. Ready(req'[q], m) /\ Current(req'[q], m)
  BY <1>3, <1>4 DEF Ready, Current
<1> QED BY <1>1, <1>2, <1>4, <1>6, <1>7, <1>8, SaveHolds

\* A request that gives up saves its copy or, for the queue, nothing.
LEMMA AbandonHolds ==
  ASSUME HoldoutIInv, TypeOK', NEW q \in Request, NEW m \in State, Abandon(q, m),
         UNCHANGED <<layout, queue, read>>, sent \subseteq sent', \A x \in sent' : x[2] # {},
         Sound(m, burns, sent'), ~overwritten => Frozen(disk, burns, sent'),
         ~overwritten /\ q \notin behind => Grows(disk, m) /\ Clean(m)
  PROVE  HoldoutIInv'
<1> USE Held
<1>1. Finish(q) /\ (Save(q, m) \/ UNCHANGED <<disk, history>>)
  BY DEF Abandon
<1>2. CASE Save(q, m)
  BY <1>1, <1>2, LastSave
<1>3. CASE UNCHANGED <<disk, history>>
  <2>1. \A p \in Request : req'[p] = req[p] \/ Fits(p)
    BY <1>1, IdleFits, Finished DEF Fits
  <2> QED BY <1>3, <2>1, QuietHolds
<1> QED BY <1>1, <1>2, <1>3

LEMMA BindThrowsHolds ==
  ASSUME HoldoutIInv, TypeOK', NEW q \in Request, BindThrows(q)
  PROVE  HoldoutIInv'
<1> USE Held
<1>1. PICK S \in SUBSET {s \in req[q].set : Binds(q, s)} : Abandon(q, Bound(q, S))
  BY DEF BindThrows
<1>2. S \subseteq req[q].set /\ \A s \in S : Binds(q, s)
  OBVIOUS
<1>3. req[q].at = "bind" /\ UNCHANGED <<layout, queue, read, sent>>
  BY DEF BindThrows
<1>4. /\ Bound(q, S) \in State /\ Sound(Bound(q, S), burns, sent)
      /\ ~overwritten /\ q \notin behind =>
           Grows(disk, Bound(q, S)) /\ Clean(Bound(q, S))
  BY <1>2, <1>3, BoundHolds
<1> QED BY <1>1, <1>3, <1>4, AbandonHolds

\* What the service sees of a bound set is frozen on disk.
LEMMA EvaluatedHolds ==
  ASSUME HoldoutIInv, NEW q \in Request, req[q].at = "service", Evaluated(q)
  PROVE  /\ sent \subseteq sent' /\ \A x \in sent' : x[2] # {}
         /\ \A p \in Shards(req[q].set) : \A s \in p : <<s, p>> \in sent'
         /\ ~overwritten => Frozen(disk, burns, sent')
<1> USE Held
<1>1. sent' = sent \union {<<s, PayloadOf(req[q].set, s)>> : s \in req[q].set}
  BY DEF Evaluated
<1>2. \A s \in req[q].set :
        /\ PayloadOf(req[q].set, s) \in Shards(req[q].set) /\ s \in PayloadOf(req[q].set, s)
        /\ \A p \in Shards(req[q].set) : s \in p => p = PayloadOf(req[q].set, s)
  BY OneShard
<1>3. ASSUME NEW p \in Shards(req[q].set), NEW s \in p
      PROVE  <<s, p>> \in sent'
  <2>1. s \in req[q].set
    BY ShardTypes
  <2> QED BY <1>1, <1>2, <2>1
<1>4. ASSUME NEW x \in sent'
      PROVE  x[2] # {} /\ (~overwritten => disk.ledger[x[1]].wire = x[2])
  <2>1. CASE x \in sent
    BY <2>1 DEF Frozen
  <2>2. CASE x \notin sent
    <3>1. PICK s \in req[q].set : x = <<s, PayloadOf(req[q].set, s)>>
      BY <1>1, <2>2
    <3> QED BY <1>2, <3>1 DEF Ready
  <2> QED BY <2>1, <2>2
<1>5. ~overwritten => Frozen(disk, burns, sent')
  BY <1>4 DEF Frozen
<1> QED BY <1>1, <1>3, <1>4, <1>5

LEMMA ServiceHolds ==
  ASSUME HoldoutIInv, TypeOK', NEW q \in Request, Service(q)
  PROVE  HoldoutIInv'
<1> USE Held
<1>1. /\ req[q].at = "service" /\ Evaluated(q) /\ UNCHANGED <<layout, disk, queue, read, history>>
      /\ Goto(q, IF ForQueue(q) THEN "receipt" ELSE "settle")
  BY DEF Service
<1>2. /\ sent \subseteq sent' /\ \A x \in sent' : x[2] # {}
      /\ \A p \in Shards(req[q].set) : \A s \in p : <<s, p>> \in sent'
      /\ ~overwritten => Frozen(disk, burns, sent')
  BY <1>1, EvaluatedHolds
<1>3. /\ req'[q].at = (IF ForQueue(q) THEN "receipt" ELSE "settle")
      /\ req'[q].mem = req[q].mem /\ req'[q].set = req[q].set
      /\ req'[q].msg = req[q].msg /\ \A p \in Request \ {q} : req'[p] = req[p]
  BY <1>1, Gone
<1>4. Claim(req[q], burns, sent')
  BY <1>2, ClaimGrows
<1>5. Claim(req'[q], burns, sent')
  <2>1. CASE ForQueue(q)
    <3>1. req[q].msg \in Message /\ Warranted(req[q].msg, burns) /\ req[q].msg.kind = "shard"
          /\ req[q].set = req[q].msg.shard
      BY <1>1, <2>1 DEF ForQueue, Claim
    <3>2. ASSUME NEW s \in req[q].set
          PROVE  <<s, req[q].set>> \in sent'
      <4>1. req[q].msg.run \in Payload /\ req[q].set \in Shards(req[q].msg.run)
        BY <3>1 DEF Warranted, Message
      <4>2. PayloadOf(req[q].set, s) = req[q].set
        BY <4>1, ShardAlone
      <4> QED BY <1>1, <4>2 DEF Evaluated
    <3>3. req'[q].at = "receipt" /\ req[q].msg # NoMessage
      BY <1>3, <2>1 DEF ForQueue
    <3> QED BY <1>1, <1>3, <1>4, <3>2, <3>3 DEF Claim
  <2>2. CASE ~ForQueue(q)
    <3>1. req'[q].at = "settle"
      BY <1>3, <2>2
    <3> QED BY <1>2, <1>3, <1>4, <3>1 DEF Claim
  <2> QED BY <2>1, <2>2
<1>6. Fits(q)
  <2>1. req'[q].at \in {"receipt", "settle"}
    BY <1>3
  <2> QED BY <1>1, <1>3, <1>5, <2>1 DEF Fits, Ready, Current
<1>7. \A p \in Request : req'[p] = req[p] \/ Fits(p)
  BY <1>3, <1>6
<1>8. \A m \in queue' : Warranted(m, burns)
  BY <1>1
<1> QED BY <1>1, <1>2, <1>7, <1>8, QuietHolds

LEMMA ServiceFailsHolds ==
  ASSUME HoldoutIInv, TypeOK', NEW q \in Request, ServiceFails(q)
  PROVE  HoldoutIInv'
<1> USE Held
<1>1. /\ req[q].at = "service" /\ Evaluated(q) /\ UNCHANGED <<layout, queue, read>>
      /\ Abandon(q, req[q].mem)
  BY DEF ServiceFails
<1>2. /\ sent \subseteq sent' /\ \A x \in sent' : x[2] # {}
      /\ ~overwritten => Frozen(disk, burns, sent')
  BY <1>1, EvaluatedHolds
<1>3. Sound(req[q].mem, burns, sent')
  BY <1>2, ClaimGrows
<1>4. ASSUME ~overwritten, q \notin behind
      PROVE  Grows(disk, req[q].mem) /\ Clean(req[q].mem)
  BY <1>1, <1>4, SameGrows DEF Current, Frozen
<1> QED BY <1>1, <1>2, <1>3, <1>4, AbandonHolds

LEMMA SettleHolds ==
  ASSUME HoldoutIInv, TypeOK', NEW q \in Request, Settle(q) \/ SettleThrows(q) \/ SettleFails(q)
  PROVE  HoldoutIInv'
<1> USE Held
<1>1. /\ req[q].at = "settle" /\ UNCHANGED <<layout, read, sent>>
      /\ \E S \in SUBSET req[q].set, verdict \in [req[q].set -> Verdict] : Settled(q, S, verdict)
  BY DEF Settle, SettleThrows, SettleFails
<1>2. PICK S \in SUBSET req[q].set, verdict \in [req[q].set -> Verdict] : Settled(q, S, verdict)
  BY <1>1
<1> DEFINE e == Decided(req[q].mem, S, req[q].set, verdict)
           marked == [e EXCEPT !.runs[req[q].set].status = "finalized"]
<1>3. /\ e \in State
      /\ \A s \in Strategy : /\ e.ledger[s].burned = req[q].mem.ledger[s].burned
                             /\ e.ledger[s].wire = req[q].mem.ledger[s].wire
  <2>1. req[q].mem \in State /\ req[q].set \in Payload /\ layout \in Layout
    OBVIOUS
  <2>2. e \in State
    BY <2>1, DecidedTypes
  <2>3. ASSUME NEW s \in Strategy
        PROVE  e.ledger[s].burned = req[q].mem.ledger[s].burned
    BY <2>1, DecidedTypes
  <2>4. ASSUME NEW s \in Strategy
        PROVE  e.ledger[s].wire = req[q].mem.ledger[s].wire
    BY <2>1, DecidedTypes
  <2> HIDE DEF e
  <2> QED BY <2>2, <2>3, <2>4
<1>4. Sound(e, burns, sent)
  BY <1>1, SoundDecided DEF Claim
<1>5. (Save(q, e) \/ Save(q, marked)) /\ Finish(q) /\ queue' \subseteq queue
  <2>1. Save(q, IF ForQueue(q) THEN [e EXCEPT !.runs[req[q].set].status = "finalized"] ELSE e)
    BY <1>2, Zenon DEF Settled
  <2>2. Finish(q) /\ queue' \subseteq queue
    BY <1>2, Zenon DEF Settled
  <2> HIDE DEF e
  <2> QED BY <2>1, <2>2
<1> HIDE DEF e
<1>6. /\ marked \in State /\ marked.ledger = e.ledger
      /\ \A R \in Payload : marked.runs[R].receipts = e.runs[R].receipts
  <2>1. e \in State /\ req[q].set \in Payload /\ {} \in SUBSET Payload
    BY <1>3
  <2> HIDE DEF e
  <2>2. marked \in State
    BY <2>1, RunTypes
  <2>3. marked.ledger = e.ledger
    BY <2>1, RunTypes
  <2>4. \A R \in Payload : marked.runs[R].receipts = e.runs[R].receipts
    BY <2>1, RunTypes
  <2> QED BY <2>2, <2>3, <2>4
<1> HIDE DEF marked
<1>7. Sound(marked, burns, sent)
  BY <1>4, <1>6, SoundSame
<1>8. ASSUME ~overwritten, q \notin behind
      PROVE  /\ Frozen(disk, burns, sent) /\ Grows(disk, e) /\ Clean(e)
             /\ Grows(disk, marked) /\ Clean(marked)
  <2>1. req[q].mem.ledger = disk.ledger /\ Frozen(disk, burns, sent)
    BY <1>1, <1>8 DEF Current
  <2>2. Grows(disk, e) /\ Clean(e)
    BY <1>3, <2>1 DEF Frozen, Clean, Grows
  <2> QED BY <1>6, <2>1, <2>2 DEF Clean, Grows
<1>9. \A msg \in queue' : Warranted(msg, burns)
  BY <1>5
<1> QED BY <1>1, <1>3, <1>4, <1>5, <1>6, <1>7, <1>8, <1>9, LastSave

\* Neither a restart nor the queue takes anything back.
LEMMA OtherHolds ==
  ASSUME HoldoutIInv, TypeOK',
         \/ Restart
         \/ \E S \in Payload : \E p \in Shards(S) : Redeliver(S, p)
         \/ UNCHANGED vars
  PROVE  HoldoutIInv'
<1>1. /\ read \subseteq burns /\ Sound(disk, burns, sent) /\ \A x \in sent : x[2] # {}
      /\ \A m \in queue : Warranted(m, burns)
      /\ ~overwritten => Frozen(disk, burns, sent)
  BY DEF HoldoutIInv, Traced, Preserved
<1>2. CASE Restart
  <2>1. UNCHANGED <<layout, disk, queue, read, sent, history>> /\ \A p \in Request : req'[p] = NoRequest
    BY <1>2 DEF Restart
  <2>2. \A p \in Request : req'[p] = req[p] \/ Fits(p)
    BY <2>1, IdleFits DEF Fits
  <2>3. /\ UNCHANGED <<layout, disk, history>> /\ read' \subseteq burns /\ sent \subseteq sent'
        /\ \A x \in sent' : x[2] # {}
        /\ \A m \in queue' : Warranted(m, burns)
        /\ ~overwritten => Frozen(disk, burns, sent')
    <3>1. UNCHANGED <<layout, disk, history>> /\ read' = read /\ sent' = sent /\ queue' = queue
      BY <2>1
    <3> QED BY <1>1, <3>1
  <2> QED BY <2>2, <2>3, QuietHolds
<1>3. ASSUME NEW S \in Payload, NEW p \in Shards(S), Redeliver(S, p)
      PROVE  HoldoutIInv'
  <2>1. /\ p \in disk.runs[S].receipts /\ queue' = queue \union {ShardMessage(S, p)}
        /\ UNCHANGED <<layout, disk, req, read, sent, history>>
    BY <1>3 DEF Redeliver
  <2>2. Warranted(ShardMessage(S, p), burns)
    BY <1>1, <2>1 DEF Sound, Warranted, ShardMessage
  <2>3. /\ UNCHANGED <<layout, disk, history>> /\ read' \subseteq burns /\ sent \subseteq sent'
        /\ \A x \in sent' : x[2] # {}
        /\ \A m \in queue' : Warranted(m, burns)
        /\ ~overwritten => Frozen(disk, burns, sent')
    <3>1. UNCHANGED <<layout, disk, history>> /\ read' = read /\ sent' = sent
      BY <2>1
    <3> QED BY <1>1, <2>1, <2>2, <3>1
  <2>4. \A r \in Request : req'[r] = req[r] \/ Fits(r)
    BY <2>1
  <2> QED BY <2>3, <2>4, QuietHolds
<1>4. CASE UNCHANGED vars
  <2>1. UNCHANGED <<layout, disk, history>> /\ req' = req /\ read' = read /\ sent' = sent /\ queue' = queue
    BY <1>4 DEF vars
  <2>2. /\ read' \subseteq burns /\ sent \subseteq sent'
        /\ \A x \in sent' : x[2] # {}
        /\ \A m \in queue' : Warranted(m, burns)
        /\ ~overwritten => Frozen(disk, burns, sent')
    BY <1>1, <2>1
  <2> QED BY <2>1, <2>2, QuietHolds
<1> QED BY <1>2, <1>3, <1>4

LEMMA HoldoutHolds ==
  ASSUME HoldoutIInv, [Next]_vars
  PROVE  HoldoutIInv'
<1>1. TypeOK'
  BY TypesStep DEF HoldoutIInv
<1>2. ASSUME NEW q \in Request, Proceed(q)
      PROVE  HoldoutIInv'
  BY <1>1, <1>2, SaveBurnHolds, EnqueueHolds, SendHolds, AnswerHolds, ReadHolds, BindHolds,
     BindThrowsHolds, ServiceHolds, ReceiptHolds, CloseHolds, SettleHolds DEF Proceed
<1>3. CASE Fault
  BY <1>1, <1>3, OtherHolds, ServiceFailsHolds, SettleHolds DEF Fault
<1>4. CASE Next
  BY <1>1, <1>2, <1>3, <1>4, AdmitHolds, ValidateHolds, ReceiveHolds DEF Next
<1> QED BY <1>1, <1>4, OtherHolds

LEMMA HoldoutStarts == Init => HoldoutIInv
<1> SUFFICES ASSUME Init PROVE HoldoutIInv
  OBVIOUS
<1>1. TypeOK
  BY TypesStart
<1>2. Sound(Fresh, burns, sent) /\ Frozen(Fresh, burns, sent)
  BY DEF Init, Sound, Fresh, Frozen, Burns, Clean, Unburned
<1>3. \A q \in Request : Claim(req[q], burns, sent) /\ Ready(req[q], disk) /\ Current(req[q], disk)
  BY IdleFits DEF Init
<1> QED BY <1>1, <1>2, <1>3 DEF Init, HoldoutIInv, Traced, Preserved

(* However requests overlap, copies and messages only tell of burns, calls of *)
(* the service and receipts that happened, and until an older copy is saved   *)
(* what was burned and bound is on disk: the inductive invariant.             *)
THEOREM HoldoutInvariant == Spec => []HoldoutIInv
<1>1. HoldoutIInv /\ [Next]_vars => HoldoutIInv'
  BY HoldoutHolds
<1> QED BY <1>1, HoldoutStarts, PTL DEF Spec

(* A sealed slice is read only once its burn has been on disk, and no restart,*)
(* redelivery, refused payload or failed service takes the burn back          *)
(* (BurnedBeforeRead).                                                        *)
THEOREM ReadIsBurned == Spec => []BurnedBeforeRead
<1>1. HoldoutIInv => BurnedBeforeRead
  BY DEF HoldoutIInv, Traced, Preserved, Frozen, Burns, BurnedBeforeRead
<1> QED BY <1>1, HoldoutInvariant, PTL

(* Until an older copy is saved the service sees a lineage under one payload, *)
(* the one frozen on disk; and an outcome is always drawn from a payload that *)
(* it has seen (SingleExposure).                                              *)
THEOREM ExposedOnce == Spec => []SingleExposure
<1>1. HoldoutIInv => SingleExposure
  BY DEF HoldoutIInv, Traced, Preserved, Frozen, Sound, SingleExposure
<1> QED BY <1>1, HoldoutInvariant, PTL
=============================================================================

--------------------------- MODULE MCSealedHoldout --------------------------
(* Instances for TLC: two lineages, sharing a shard or not, of a dataset    *)
(* that is partitioned or not.  Requests come one after the other, among    *)
(* faults and with either verdict; or two of them overlap, with one verdict *)
(* and a fault at most, none when the dataset is partitioned.               *)
EXTENDS SealedHoldout, TLC

CONSTANTS a, b

Shared   == {{a, b}}
Apart    == {{a}, {b}}
Layouts  == [partitioned: BOOLEAN, groups: {Shared, Apart}]

VARIABLE together  \* requests may overlap in this behaviour

AtWork == {q \in Request : req[q].at # "idle"}

OneByOne == Cardinality(AtWork') <= 1

\* After an older copy was saved no further overlap begins.
Overlapping ==
  /\ faults' <= IF layout.partitioned THEN 0 ELSE 1
  /\ \A s \in Strategy : disk'.ledger[s].outcome \in {NoOutcome, CHOOSE v \in Verdict : TRUE}
  /\ overwritten => Cardinality(AtWork') <= 1 \/ AtWork' \subseteq AtWork

Bounded == UNCHANGED together /\ IF together THEN Overlapping ELSE OneByOne

MCInit == Init /\ together \in BOOLEAN

mcVars == <<vars, together>>

MCSpec == MCInit /\ [][Next /\ Bounded]_mcVars

(* Pipeline commands keep validating what waits for validation, and a request *)
(* in progress ends.  Inline evaluation waits for no message.                 *)
FairSpec ==
  /\ MCSpec
  /\ \A q \in Request : WF_mcVars(Proceed(q) /\ Bounded)
  /\ SF_mcVars(\E q \in Request : Validate(q) /\ Bounded)
=============================================================================

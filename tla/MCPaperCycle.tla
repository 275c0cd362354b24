---------------------------- MODULE MCPaperCycle ----------------------------
(* TLC instances of PaperCycle: two target computations and commands that *)
(* flatten, cancel or verify.  The run explores two bounded worlds: requests  *)
(* that come one after the other, with controls and troubles in the midst of  *)
(* them, and requests that overlap.                                           *)
EXTENDS PaperCycle, TLC

CONSTANTS bar1, bar2, flat, kill, cancel, verify, w1, w2

MCKind ==
  [c \in Command |-> CASE c = flat -> "flatten" [] c = kill -> "kill"
                       [] c = cancel -> "cancel" [] c = verify -> "verify"
                       [] OTHER -> "compute"]

MCDesired == {-1, 1, 2}

Alike == Permutations({bar1, bar2}) \union Permutations(Worker)

VARIABLE together  \* requests may overlap in this behaviour

Given == {c \in Command : status[c] # "none"}

AtWork == {w \in Worker : req[w].at # "idle"}

\* Three commands, given between the requests, and a single event.
OneByOne ==
  /\ Next
  /\ Cardinality(AtWork') <= 1
  /\ Quiet \/ \A c \in Given' \ Given : Kind[c] = "kill"

\* Two commands and no event.
Together ==
  /\ Next
  /\ Cardinality(Given') <= 2 /\ Len(trouble') + changes' = 0

MCInit == Init /\ together \in BOOLEAN

MCNext ==
  /\ UNCHANGED together
  /\ \/ ~together /\ OneByOne
     \/ together /\ Together

MCSpec == MCInit /\ [][MCNext]_<<vars, together>>
=============================================================================

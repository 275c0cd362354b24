-------------------------- MODULE CommandDelivery ---------------------------
(***************************************************************************)
(* What the job store promises the rest of the system about one committed  *)
(* orchestration command, without outbox, queue, leases or processes: it   *)
(* is run at most MaxAttempts times, succeeds only by a run, and is given   *)
(* up only when every run it was allowed has been started.                  *)
(***************************************************************************)
EXTENDS Naturals

CONSTANTS Command, MaxAttempts

VARIABLES
  phase,  \* how far the command has come
  runs    \* how many times a worker has leased it

Phase == {"none", "pending", "done", "dead"}

Init ==
  /\ phase = [c \in Command |-> "none"]
  /\ runs = [c \in Command |-> 0]

Submit(c) ==
  /\ phase[c] = "none"
  /\ phase' = [phase EXCEPT ![c] = "pending"]
  /\ UNCHANGED runs

Run(c) ==
  /\ phase[c] = "pending"
  /\ runs[c] < MaxAttempts
  /\ runs' = [runs EXCEPT ![c] = @ + 1]
  /\ UNCHANGED phase

Succeed(c) ==
  /\ phase[c] = "pending"
  /\ runs[c] > 0
  /\ phase' = [phase EXCEPT ![c] = "done"]
  /\ UNCHANGED runs

\* A worker that outlives its last lease may finish just before the repair
\* pass writes what it read: the verdict "done" is then overwritten.
GiveUp(c) ==
  /\ phase[c] \in {"pending", "done"}
  /\ runs[c] = MaxAttempts
  /\ phase' = [phase EXCEPT ![c] = "dead"]
  /\ UNCHANGED runs

Next == \E c \in Command : Submit(c) \/ Run(c) \/ Succeed(c) \/ GiveUp(c)

Spec == Init /\ [][Next]_<<phase, runs>>
=============================================================================

---------------------------- MODULE MCLiveSession ----------------------------
(* A session without faults or corrections, longer than the book's retention. *)
EXTENDS LiveSession, TLC

MCPhases == [close_valid_day_ledger |-> -1]
=============================================================================

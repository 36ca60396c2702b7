----------------------------- MODULE MCScheduler -----------------------------
(* Small instances of Scheduler for TLC. *)
EXTENDS SchedulerBackend, TLC

\* Requests and rows are interchangeable (safety runs only).
Symm == Permutations(Uid) \cup Permutations(Slot)
=============================================================================

--------------------------- MODULE SchedulerBackend ---------------------------
(* Scheduler implements Backend, the contract its clients rely on. *)
EXTENDS Scheduler

\* What the API server can know of a request: a terminal reply outranks everything else, also a
\* request that only arrives after it.
Life(u) == IF Terminal(u) THEN "over" ELSE IF u \in toSend THEN "unsent" ELSE "live"

Contract == INSTANCE Backend WITH
    life <- [u \in Uid |-> Life(u)],
    tokens <- [u \in Uid |-> sent[u].tokens]

\* The scheduler loop implements Backend: whatever the order of arrivals, aborts, overlapped
\* forwards, finishes and rebuilds, tokens are only sent for a request that arrived and has not
\* been answered for good, one per drained step, and a terminal reply is final (scheduler.py,
\* _process_last_data and _flush_abort_acks).
ImplementsBackend == Contract!Spec
===============================================================================

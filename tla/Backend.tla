------------------------------- MODULE Backend -------------------------------
(***************************************************************************)
(* What the scheduler promises the API server about each request: tokens   *)
(* come only between the request's arrival and its end, and the end is     *)
(* final, whether it is a finish, an error or the acknowledgement of an    *)
(* abort that may even have come first.  Scheduler implements this         *)
(* (SchedulerBackend), Frontend is built on it.                            *)
(***************************************************************************)
EXTENDS Naturals

CONSTANT Uid

VARIABLES
    life,    \* of each request: not arrived, being served, answered for good
    tokens   \* tokens reported for each request

vars == <<life, tokens>>

Init == life = [u \in Uid |-> "unsent"] /\ tokens = [u \in Uid |-> 0]

Arrive(u) == life[u] = "unsent" /\ life'[u] = "live" /\ tokens'[u] = tokens[u]

Token(u) == life[u] = "live" /\ life'[u] \in {"live", "over"} /\ tokens'[u] = tokens[u] + 1

End(u) == life'[u] = "over" /\ tokens'[u] = tokens[u]

Same(u) == life'[u] = life[u] /\ tokens'[u] = tokens[u]

\* One step of the scheduler may report on several requests.
Next ==
    /\ life' \in [Uid -> {"unsent", "live", "over"}] /\ tokens' \in [Uid -> Nat]
    /\ \A u \in Uid : Arrive(u) \/ Token(u) \/ End(u) \/ Same(u)

Spec == Init /\ [][Next]_vars
=============================================================================

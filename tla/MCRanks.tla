------------------------------- MODULE MCRanks -------------------------------
(* Small instances of Ranks for TLC. *)
EXTENDS Ranks, TLC

CONSTANTS m1, m2, m3

\* One message that is over at once (an abort) and two that keep the managers runnable.
SmallSteps == m1 :> 0 @@ m2 :> 1 @@ m3 :> 2
==============================================================================

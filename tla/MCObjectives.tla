---------------------------- MODULE MCObjectives ----------------------------
(* Small instances of Objectives for TLC. *)
EXTENDS Objectives

\* The second candidate is built on the first.
Chain == [c \in Cand |-> c - 1]

\* The second candidate runs the first one's positions.
Router == [c \in Cand |-> IF c = 2 THEN {1} ELSE {}]

\* One model submits every candidate.
OneModel == [c \in Cand |-> 1]

\* Pairs of events that meet in the same rows, and each event at least once
Meetings == {{"retest", "delete"}, {"retest", "demote"}, {"retest", "crash"}, {"rerun", "crash"},
             {"delete", "crash"}, {"rescore", "delete"}, {"audit", "demote"}, {"retire", "demote"},
             {"data", "crash"}}
=============================================================================

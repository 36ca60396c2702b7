--------------------------- MODULE MCSchedulerModes ---------------------------
(***************************************************************************)
(* Two further configurations of the scheduler process in one state space, *)
(* told apart by the constant variable mode: the overlapped loop with      *)
(* runtime rebuilds, and the loop with overlap disabled, both on few pages *)
(* of four tokens, where an allocation may fail.                           *)
(***************************************************************************)
EXTENDS Naturals

CONSTANTS Uid, Slot, NoSlot

VARIABLES
    mode,
    phase, waiting, toSend, aborts, job, pending, chunked, req, running, adder, reserved,
    lastData, ongoing, todo, finished, newFinished, freeSlots, freePages, numPages, tombstones,
    acks, rebuild, rebuilds, wedged, sent

Overlapped == INSTANCE Scheduler WITH
    Overlap <- TRUE, NumPages <- 2, PageCounts <- {1, 3}, PageSize <- 4, PrefillBudget <- 2,
    ConfigMaxSeqLen <- 5, PromptLens <- {1, 3, 5}, OutLens <- {1, 2}, TombstoneCap <- 3,
    MaxAborts <- 1, MaxRebuilds <- 2

Normal == INSTANCE Scheduler WITH
    Overlap <- FALSE, NumPages <- 2, PageCounts <- {2}, PageSize <- 4, PrefillBudget <- 6,
    ConfigMaxSeqLen <- 8, PromptLens <- {1, 5, 7}, OutLens <- {1, 2}, TombstoneCap <- 3,
    MaxAborts <- 1, MaxRebuilds <- 0

modeVars == <<mode, Overlapped!vars>>

ModeInit == \/ mode = "overlap" /\ Overlapped!Init
            \/ mode = "normal" /\ Normal!Init

ModePass == \/ mode = "overlap" /\ Overlapped!Pass /\ UNCHANGED mode
            \/ mode = "normal" /\ Normal!Pass /\ UNCHANGED mode

ModeNext == \/ ModePass
            \/ mode = "overlap" /\ Overlapped!Receive /\ UNCHANGED mode
            \/ mode = "normal" /\ Normal!Receive /\ UNCHANGED mode

ModeSpec == ModeInit /\ [][ModeNext]_modeVars /\ WF_modeVars(ModePass)

\* Scheduler!EveryRequestEnds: every request that reached the scheduler gets a terminal reply.
EveryRequestEnds == Overlapped!EveryRequestEnds

\* Scheduler!RebuildAnswered: every queued rebuild is executed and answered.
RebuildAnswered == Overlapped!RebuildAnswered

\* Without overlap a request that ends with "length" has had its whole output budget.
LengthMeansFullBudget == mode = "normal" => Normal!LengthMeansFullBudget
===============================================================================

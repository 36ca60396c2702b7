----------------------------- MODULE Objectives -----------------------------
(***************************************************************************)
(* A standing objective of the control plane: its candidates, the          *)
(* background look-ahead tests, audits, and who holds the title.           *)
(*                                                                         *)
(* One objective that marks positions to market, tests every candidate for *)
(* look-ahead and ranks higher scores first.  A request handler runs on    *)
(* the event loop up to its next await, so each such stretch is one step;  *)
(* rescore_stored runs on a thread of its own and interleaves with them.   *)
(* Several tests cut the data at the same moment and share one truncated   *)
(* copy, which is all that is kept of a test's many cuts; the data under   *)
(* it may change while they run.                                           *)
(*                                                                         *)
(* Rows, title, kept positions and truncated copies are on disk and        *)
(* outlive the process; evaluations, tests, the re-test and the rescoring  *)
(* do not.                                                                 *)
(***************************************************************************)
EXTENDS Naturals, Sequences, FiniteSets, SequencesExt, FiniteSetsExt

CONSTANTS
    MaxCands,      \* bound: candidates submitted
    MaxScore,      \* scores are 1 .. MaxScore
    Parent,        \* of each candidate, the one it was built on (or NoCand)
    UsesLib,       \* candidates whose code reaches the library modules
    Members,       \* of each candidate, those its code runs (candidate_positions)
    Author,        \* of each candidate, the model that wrote it
    RequireAudit,
    FullRanks,     \* LOOKAHEAD_FULL_RANKS
    Slots,         \* background tests at once (_LOOKAHEAD_SLOTS)
    Plans          \* bound: sets of things the operator and the process do, each once

Cand == 1 .. MaxCands
NoCand == 0
NoScore == 0
NoCopy == 0
Events == {"rerun", "audit", "demote", "retire", "delete", "retest", "rescore", "crash",
           "data"}

ASSUME ObjectivesConstants ==
    /\ {MaxCands, MaxScore, FullRanks, Slots} \subseteq Nat \ {0}
    /\ Plans \subseteq SUBSET Events /\ RequireAudit \in BOOLEAN
    /\ Parent \in [Cand -> Cand \cup {NoCand}] /\ Members \in [Cand -> SUBSET Cand]
    /\ UsesLib \subseteq Cand /\ DOMAIN Author = Cand

VARIABLES
    up,                 \* is the control plane running?
    row, best,          \* the candidates' rows; best_id
    kept,               \* candidates whose positions are kept for a pending test
    evals,              \* evaluations under way: <<candidate, is it a re-run?>>
    tests,              \* look-ahead tests under way
    retest,             \* the re-test's queue, the one being tested first
    auditing,           \* candidates whose audit an auditor has taken
    rescore,            \* the thread in rescore_stored
    cutUsers,           \* _cut_users of the shared cut
    mirror,             \* the data its copy on disk was made from (or NoCopy)
    data,               \* the data folder, by the number of its changes
    plan,               \* events that may still happen
    stale,              \* history: a rescoring wrote to a row that had changed under it
    moved,              \* history: the data changed under the users of the shared cut
    lost,               \* history: re-runs that raised where nothing records it
    marked              \* history: rows another's crash wrote to under their own evaluation

board   == <<row, best>>
tasks   == <<evals, tests, retest, rescore>>
cutVars == <<cutUsers, mirror, data, moved>>
history == <<stale, lost, marked>>
vars    == <<up, board, kept, tasks, auditing, cutVars, plan, history>>

Blank == [status |-> "unborn", score |-> NoScore, look |-> "skipped", audit |-> "none"]
Idle  == [step |-> "idle", ids |-> {}, champ |-> NoCand, top |-> NoCand]

Init ==
    /\ up = TRUE /\ row = [c \in Cand |-> Blank] /\ best = NoCand /\ kept = {}
    /\ evals = {} /\ tests = {} /\ retest = <<>> /\ auditing = {} /\ rescore = Idle
    /\ cutUsers = 0 /\ mirror = NoCopy /\ data = 1 /\ plan \in Plans
    /\ stale = FALSE /\ moved = FALSE /\ lost = {} /\ marked = {}

-----------------------------------------------------------------------------
(* The leaderboard, as functions of the rows r and the title holder b *)

Exists(r, c) == c # NoCand /\ r[c].status \notin {"unborn", "gone"}

Better(a, b) == a # NoScore /\ (b = NoScore \/ a > b)

\* A champion (_best) or parent whose row is gone counts as none.
ScoreOf(r, c) == IF Exists(r, c) THEN r[c].score ELSE NoScore

Ranked(r) == {c \in Cand : /\ r[c].status = "ok" /\ r[c].score # NoScore
                           /\ r[c].look \notin {"fail", "error", "pending"} /\ r[c].audit # "fail"}

\* ORDER BY score DESC, seq ASC
Above(r, c, d) == r[c].score > r[d].score \/ (r[c].score = r[d].score /\ c < d)
First(r, S) == IF S = {} THEN NoCand ELSE CHOOSE c \in S : \A d \in S \ {c} : Above(r, c, d)

InOrder(r, S) ==
    {s \in [1 .. Cardinality(S) -> S] : \A i, j \in DOMAIN s : i < j => Above(r, s[i], s[j])}

\* _distinct: of candidates with the same score only the first; then the top FullRanks of them
TopDistinct(r) ==
    LET distinct == {c \in Ranked(r) : \A d \in Ranked(r) : r[d].score = r[c].score => c <= d}
    IN {c \in distinct : Cardinality({d \in distinct : Above(r, d, c)}) < FullRanks}

\* A board is the pair of the rows and the title.
Board == [row |-> row, best |-> best]
Set(bd, c, field, v) == IF Exists(bd.row, c) THEN [bd EXCEPT !.row[c][field] = v] ELSE bd
FailAudit(bd, S) ==
    [bd EXCEPT !.row = [c \in Cand |-> IF c \in S THEN [@[c] EXCEPT !.audit = "fail"] ELSE @[c]]]

\* best_id = NULL, then the first of what is still ranked is crowned
HandOn(bd) == [bd EXCEPT !.best = First(bd.row, Ranked(bd.row))]

\* ensembles.disqualify_dependents: what runs a disqualified member goes with it.
DisqualifyDependents(bd, S) ==
    LET hit == {d \in Cand : /\ Exists(bd.row, d) /\ bd.row[d].audit # "fail"
                             /\ Members[d] \cap S # {}}
        failed == FailAudit(bd, hit)
    IN IF bd.best \in hit THEN HandOn(failed) ELSE failed

\* _cascade_quarantine: every other candidate on the quarantined modules is disqualified.
Cascade(bd, origin) ==
    LET hit == {d \in UsesLib \ {origin} : bd.row[d].status = "ok" /\ bd.row[d].audit # "fail"}
        after == DisqualifyDependents(FailAudit(bd, hit), hit)
        b == after.best
    IN IF hit = {} THEN bd
       ELSE IF ~Exists(after.row, b) \/ after.row[b].audit = "fail" THEN HandOn(after)
       ELSE after

\* _auto_quarantine, with the preference on
AutoQuarantine(bd, c) == IF c \in UsesLib THEN Cascade(bd, c) ELSE bd

\* _settle with the fields {status, score, lookahead}
Settle(bd, c, status, score, v) ==
    LET contender == status = "ok" /\ v = "pass" /\ Better(score, ScoreOf(bd.row, bd.best))
        audit == IF contender /\ RequireAudit THEN "pending" ELSE bd.row[c].audit
        scored == [bd EXCEPT !.row[c] = [status |-> status, score |-> score, look |-> v,
                                         audit |-> audit]]
        swept == IF v = "fail" THEN AutoQuarantine(scored, c) ELSE scored
    IN IF contender /\ ~RequireAudit THEN [swept EXCEPT !.best = c] ELSE swept

Apply(bd) == row' = bd.row /\ best' = bd.best

-----------------------------------------------------------------------------
(* Evaluations: submit, rerun and evaluate *)

Op(event) == up /\ event \in plan /\ plan' = plan \ {event}

Submit(c) ==
    /\ up /\ row[c].status = "unborn" /\ \A d \in Cand : d < c => row[d].status # "unborn"
    /\ row' = [row EXCEPT ![c].status = "evaluating"]
    /\ evals' = evals \cup {<<c, FALSE>>}
    /\ UNCHANGED <<up, best, kept, tests, retest, rescore, auditing, cutVars, plan, history>>

MayRerun(c) ==
    /\ Exists(row, c) /\ row[c].status # "evaluating"
    /\ row[c].status = "error" \/ row[c].look = "error" \/ row[c].score = NoScore
    /\ best # c

\* The row is wiped before the first await; a test of the old run goes on.
Rerun(c) ==
    /\ Op("rerun") /\ MayRerun(c)
    /\ row' = [row EXCEPT ![c] = [Blank EXCEPT !.status = "evaluating"]]
    /\ evals' = evals \cup {<<c, TRUE>>}
    /\ UNCHANGED <<up, best, kept, tests, retest, rescore, auditing, cutVars, history>>

\* Tests of one candidate and kind are told apart by a copy number.
Spawn(ts, c, kind, score) ==
    LET used == {t.copy : t \in {u \in ts : u.c = c /\ u.kind = kind}}
    IN ts \cup {[c |-> c, kind |-> kind, tier |-> IF kind = "new" THEN 1 ELSE 2,
                 phase |-> "queued", score |-> score, sig |-> NoCopy,
                 copy |-> Min((0 .. Cardinality(used)) \ used)]}

Ends(e) ==
    e \in evals /\ evals' = evals \ {e} /\ UNCHANGED <<up, retest, rescore, auditing, cutVars, plan>>

\* Scored, perhaps without a rank: the positions are copied aside, the row is pending and the
\* test starts.
EvalScores(e, s) ==
    /\ Ends(e)
    /\ Apply(Set(Set(Set(Board, e[1], "status", "ok"), e[1], "score", s), e[1], "look", "pending"))
    /\ kept' = kept \cup {e[1]}
    /\ tests' = Spawn(tests, e[1], "new", NoScore)
    /\ UNCHANGED history

\* A broken script, or a harness failure that carries an HTTP status: the row says error.
EvalFails(e) ==
    /\ Ends(e)
    /\ Apply(Set(Board, e[1], "status", "error"))
    /\ UNCHANGED <<kept, tests, history>>

\* Any other exception of a first run: submit writes it to the row, and to whatever else of the
\* last hour its author has under evaluation.
EvalCrashes(e) ==
    /\ ~e[2] /\ Ends(e)
    /\ \E others \in SUBSET {d \in Cand \ {e[1]} : /\ row[d].status = "evaluating"
                                                   /\ Author[d] = Author[e[1]]} :
          /\ row' = [c \in Cand |-> IF c \in others \/ (c = e[1] /\ Exists(row, c))
                                    THEN [row[c] EXCEPT !.status = "error"] ELSE row[c]]
          /\ marked' = marked \cup others
    /\ UNCHANGED <<best, kept, tests, stale, lost>>

\* A re-run that raises outside evaluate's own try, at the listing of the data folder: nothing is
\* written, and the row goes on saying "evaluating".
EvalLost(e) ==
    /\ e[2] /\ Ends(e) /\ lost' = lost \cup {e[1]}
    /\ UNCHANGED <<board, kept, tests, stale, marked>>

\* SANDBOX_DOWN: a first run that never started leaves no candidate.
SandboxDown(e) ==
    /\ ~e[2] /\ Ends(e)
    /\ row' = [row EXCEPT ![e[1]] = [Blank EXCEPT !.status = "gone"]]
    /\ UNCHANGED <<best, kept, tests, history>>

Evaluate(c) ==
    \E again \in BOOLEAN :
        \/ \E s \in {NoScore} \cup 1 .. MaxScore : EvalScores(<<c, again>>, s)
        \/ EvalFails(<<c, again>>) \/ EvalCrashes(<<c, again>>) \/ SandboxDown(<<c, again>>)
        \/ EvalLost(<<c, again>>)

-----------------------------------------------------------------------------
(* Look-ahead tests: _settle_lookahead, _finish_short_test, _retest *)

\* Phases in which a test is counted in _cut_users
Holding == {"held", "cut", "broken"}

Goes(t, phase) == tests' = (tests \ {t}) \cup {[t EXCEPT !.phase = phase]}

\* Mutant of HoldCut: a user of the cut is not counted.
HoldCutUncounted == UNCHANGED cutUsers
HoldCut == cutUsers' = cutUsers + 1

\* Mutant of DiscardCut: whoever is done with the cut removes its copy.
DiscardCutFirst == cutUsers' = cutUsers - 1 /\ mirror' = NoCopy

\* The last user removes the copy.
DiscardCut == cutUsers' = cutUsers - 1 /\ mirror' = IF cutUsers = 1 THEN NoCopy ELSE mirror

Release == DiscardCut /\ moved' = (moved /\ cutUsers # 1) /\ UNCHANGED data

\* A re-test has a slot of its own; the second tier keeps the slot of the first.
SlotFree == Cardinality({t \in tests : t.kind # "retest" /\ t.phase # "queued"}) < Slots

\* The cut is held and build_mirror, on a thread, reads the signature of the data folder.
BeginCut(t) ==
    /\ \/ t.phase = "queued" /\ (t.kind = "retest" \/ SlotFree)
       \/ t.phase = "between"
    /\ HoldCut
    /\ tests' = (tests \ {t}) \cup {[t EXCEPT !.phase = "held", !.sig = data]}
    /\ UNCHANGED <<up, board, kept, evals, retest, rescore, auditing, mirror, data, moved,
                   plan, history>>

\* Under the lock of the copy, and of nobody who uses it, a copy with this signature is found, or
\* what is there is removed and one is made.
BuildMirror(t) ==
    /\ t.phase = "held" /\ mirror' = t.sig /\ Goes(t, "cut")
    /\ UNCHANGED <<up, board, kept, evals, retest, rescore, auditing, cutUsers, data, moved,
                   plan, history>>

\* What is half made has no manifest.
BuildFails(t) ==
    /\ t.phase = "held" /\ mirror # t.sig /\ mirror' = NoCopy /\ Goes(t, "broken")
    /\ UNCHANGED <<up, board, kept, evals, retest, rescore, auditing, cutUsers, data, moved,
                   plan, history>>

\* Somebody writes to the data folder.
ChangeData ==
    /\ "data" \in plan /\ plan' = plan \ {"data"}
    /\ data' = data + 1 /\ moved' = (moved \/ cutUsers > 0)
    /\ UNCHANGED <<up, board, kept, tasks, auditing, cutUsers, mirror, history>>

\* _worth_full_lookahead
Worth(c) ==
    LET s == row[c].score
        top == TopDistinct(row)
    IN /\ Exists(row, c) /\ s # NoScore
       /\ \/ Better(s, ScoreOf(row, best))
          \/ Cardinality(top) < FullRanks \/ c \in top
          \/ \E d \in top : (\A u \in top : ~Above(row, d, u)) /\ Better(s, row[d].score)
          \/ Better(s, ScoreOf(row, Parent[c]))

\* The first tier passed, its cut is released, and the rest of the cuts matter.
SecondTier(t) ==
    /\ t.tier = 1 /\ t.phase = "cut"
    /\ tests' = (tests \ {t}) \cup {[t EXCEPT !.tier = 2, !.phase = "between"]}
    /\ Worth(t.c) /\ Release
    /\ UNCHANGED <<up, board, kept, evals, retest, rescore, auditing, plan, history>>

\* What _lookahead and _two_tier may answer: whatever raises under a held cut is an error; a first
\* tier that passes ends the test only when the rest does not matter.
MayAnswer(t, v) ==
    /\ t.phase \in (IF v = "error" THEN Holding ELSE {"cut"})
    /\ v = "short" => t.tier = 1 /\ ~Worth(t.c)
    /\ v = "pass" => t.tier = 2

\* _settle_lookahead after the test: a verdict that something else replaced stands.
Settled(t, v) ==
    IF Exists(row, t.c) /\ row[t.c].look = "pending"
    THEN Settle(Board, t.c, row[t.c].status, row[t.c].score, v) ELSE Board

\* _finish_short_test settles with the score it read when it began.
Finished(t, v) ==
    IF v # "error" /\ Exists(row, t.c) /\ row[t.c].look = "short"
    THEN Settle(Board, t.c, "ok", t.score, v) ELSE Board

\* _retest: a pass is noted, a leak disqualifies, an error leaves the old verdict.
Retested(t, v) ==
    LET noted == Set(Board, t.c, "look", v)
        handed == IF best = t.c THEN HandOn(noted) ELSE noted
    IN CASE v = "error" -> Board
         [] v = "pass" -> noted
         [] OTHER -> DisqualifyDependents(AutoQuarantine(handed, t.c), {t.c})

EndTest(t, v) ==
    /\ tests' = tests \ {t} /\ MayAnswer(t, v) /\ Release
    /\ kept' = IF t.kind = "new" THEN kept \ {t.c} ELSE kept
    /\ retest' = IF t.kind = "retest" THEN Tail(retest) ELSE retest
    /\ Apply(CASE t.kind = "new" -> Settled(t, v)
                [] t.kind = "finish" -> Finished(t, v)
                [] OTHER -> Retested(t, v))
    /\ UNCHANGED <<up, evals, rescore, auditing, plan, history>>

\* Any step of a test; a sandbox that fails under it ends it with "error".
TestStep(t) ==
    \/ BeginCut(t) \/ BuildMirror(t) \/ BuildFails(t)
    \/ EndTest(t, "error")
    \/ SecondTier(t)
    \/ \E v \in {"short", "pass", "fail"} : EndTest(t, v)

\* _finish_short_tests, at an agent's next iteration: one test at a time per candidate
FinishShort(c) ==
    /\ up /\ c \in TopDistinct(row) /\ row[c].look = "short"
    /\ \A t \in tests : ~(t.c = c /\ t.kind = "finish")
    /\ tests' = Spawn(tests, c, "finish", row[c].score)
    /\ UNCHANGED <<up, board, kept, evals, retest, rescore, auditing, cutVars, plan, history>>

\* start_retest: the leaderboard's candidates in order
StartRetest ==
    /\ Op("retest") /\ retest = <<>> /\ Ranked(row) # {}
    /\ retest' \in InOrder(row, Ranked(row))
    /\ UNCHANGED <<up, board, kept, evals, tests, rescore, auditing, cutVars, history>>

NextRetest ==
    /\ retest # <<>> /\ \A t \in tests : t.kind # "retest"
    /\ tests' = Spawn(tests, Head(retest), "retest", NoScore)
    /\ UNCHANGED <<up, board, kept, evals, retest, rescore, auditing, cutVars, plan, history>>

\* cancel_retest: the candidate in flight is abandoned, its cut released.
CancelRetest ==
    /\ up /\ retest # <<>> /\ retest' = <<>>
    /\ LET flight == {t \in tests : t.kind = "retest"}
       IN /\ tests' = tests \ flight
          /\ IF \E t \in flight : t.phase \in Holding THEN Release ELSE UNCHANGED cutVars
    /\ UNCHANGED <<up, board, kept, evals, rescore, auditing, plan, history>>

-----------------------------------------------------------------------------
(* Audits *)

Audits(S) == auditing' = S /\ UNCHANGED <<up, kept, tasks, cutVars, history>>

\* An agent takes the chore, or the operator has it run now (run_audit).
LeaseAudit(c) ==
    /\ up /\ row[c].audit = "pending" /\ c \notin auditing /\ Audits(auditing \cup {c})
    /\ UNCHANGED <<board, plan>>

RunAudit(c) ==
    /\ Op("audit") /\ row[c].status = "ok" /\ row[c].score # NoScore /\ row[c].audit \notin {"pass", "fail"}
    /\ Apply(Set(Board, c, "audit", "pending")) /\ Audits(auditing \cup {c})

\* The auditor dies or answers nothing usable: the audit stays pending.
AuditorFails(c) == c \in auditing /\ Audits(auditing \ {c}) /\ UNCHANGED <<board, plan>>

\* audit(): the score is compared with the current champion's; nothing else is asked of the row.
AuditVerdict(c, passed) ==
    /\ up /\ c \in auditing /\ Audits(auditing \ {c}) /\ UNCHANGED plan
    /\ LET noted == Set(Board, c, "audit", IF passed THEN "pass" ELSE "fail")
       IN Apply(CASE ~Exists(row, c) -> Board
                  [] Exists(row, c) /\ passed ->
                       IF Better(row[c].score, ScoreOf(row, best)) THEN [noted EXCEPT !.best = c] ELSE noted
                  [] OTHER -> DisqualifyDependents(AutoQuarantine(noted, c), {c}))

-----------------------------------------------------------------------------
(* The operator *)

Demote(c, quarantine) ==
    /\ Op("demote") /\ Exists(row, c)
    /\ LET failed == FailAudit(Board, {c})
           handed == IF best = c THEN HandOn(failed) ELSE failed
           swept == IF quarantine THEN AutoQuarantine(handed, c) ELSE handed
       IN Apply(DisqualifyDependents(swept, {c}))
    /\ UNCHANGED <<up, kept, tasks, auditing, cutVars, history>>

\* retire_modules: a review of the library module itself
RetireModules ==
    /\ Op("retire") /\ Apply(Cascade(Board, NoCand))
    /\ UNCHANGED <<up, kept, tasks, auditing, cutVars, history>>

\* Mutant of MayDelete: what the re-test has still to reach is deleted too.
MayDeleteHeld(c) == Exists(row, c) /\ row[c].status # "evaluating"
MayDelete(c) == Exists(row, c) /\ row[c].status # "evaluating" /\ c \notin ToSet(retest)

Delete(c) ==
    /\ Op("delete") /\ MayDelete(c)
    /\ LET left == [Board EXCEPT !.row[c] = [Blank EXCEPT !.status = "gone"]]
       IN Apply(IF best # NoCand /\ ~Exists(left.row, best) THEN HandOn(left) ELSE left)
    /\ UNCHANGED <<up, kept, tasks, auditing, cutVars, history>>

(* rescore_stored, on a thread: select, update, rank, crown *)

Thread(r) == rescore' = r /\ UNCHANGED <<up, kept, evals, tests, retest, auditing, cutVars>>

RescoreRead ==
    /\ Op("rescore") /\ rescore = Idle
    /\ Thread([Idle EXCEPT !.step = "write", !.ids = {c \in Cand : row[c].status = "ok"}])
    /\ UNCHANGED <<board, history>>

RescoreWrite ==
    /\ rescore.step = "write"
    /\ \E s \in [rescore.ids -> {NoScore} \cup 1 .. MaxScore] :
           row' = [c \in Cand |-> IF c \in rescore.ids /\ Exists(row, c)
                                  THEN [row[c] EXCEPT !.score = s[c]] ELSE row[c]]
    /\ stale' = (stale \/ \E c \in rescore.ids : row[c].status # "ok")
    /\ Thread([rescore EXCEPT !.step = "rank", !.ids = {}]) /\ UNCHANGED <<best, plan, lost, marked>>

\* _recrown reads the ranking ...
RescoreRank ==
    /\ rescore.step = "rank"
    /\ LET passed == {c \in Ranked(row) : row[c].look = "pass"}
           champ == First(row, {c \in passed : row[c].audit = "pass" \/ ~RequireAudit})
           top == First(row, passed)
       IN Thread([rescore EXCEPT
                    !.step = "crown",
                    !.champ = IF champ # best THEN champ ELSE NoCand,
                    !.top = IF RequireAudit /\ top # champ /\ top # NoCand /\ row[top].audit = "none"
                            THEN top ELSE NoCand])
    /\ UNCHANGED <<board, plan, history>>

\* ... and then moves the title and queues the leader's audit.
RescoreCrown ==
    /\ rescore.step = "crown" /\ Thread(Idle)
    /\ LET crowned == IF rescore.champ = NoCand THEN Board ELSE [Board EXCEPT !.best = rescore.champ]
       IN Apply(IF rescore.top = NoCand THEN crowned ELSE Set(crowned, rescore.top, "audit", "pending"))
    /\ stale' = (stale \/ (rescore.champ # NoCand /\ row[rescore.champ].status # "ok"))
    /\ UNCHANGED <<plan, lost, marked>>

Rescore == RescoreWrite \/ RescoreRank \/ RescoreCrown

-----------------------------------------------------------------------------
(* The process ends and starts again *)

\* A copy that was being made is left without a manifest.
Crash ==
    /\ Op("crash") /\ up' = FALSE
    /\ evals' = {} /\ tests' = {} /\ retest' = <<>> /\ rescore' = Idle
    /\ cutUsers' = 0 /\ moved' = FALSE /\ lost' = {}
    /\ \/ mirror' = mirror
       \/ mirror' = NoCopy /\ \E t \in tests : t.phase = "held" /\ t.sig # mirror
    /\ UNCHANGED <<board, kept, auditing, data, stale, marked>>

\* Mutant of Interrupted: an evaluation that died with the process stays "evaluating".
InterruptedForgets(r) == r

\* db(): what was evaluating will never finish; resume_pending_lookaheads: a pending test whose
\* inputs are gone, or whose data cannot be listed, is written off.
Interrupted(r) ==
    LET status == IF r.status = "evaluating" THEN "error" ELSE r.status
    IN [r EXCEPT !.status = status,
                 !.look = IF @ = "pending" /\ status # "ok" THEN "error" ELSE @]

Resumable(c) == row[c].status = "ok" /\ row[c].look = "pending"

Restart ==
    /\ ~up /\ up' = TRUE
    /\ \E resumed \in SUBSET {c \in kept : Resumable(c)} :
          /\ row' = [c \in Cand |-> IF Resumable(c) /\ c \notin resumed
                                    THEN [row[c] EXCEPT !.look = "error"] ELSE Interrupted(row[c])]
          /\ tests' = {[c |-> c, kind |-> "new", tier |-> 1, phase |-> "queued", score |-> NoScore,
                        sig |-> NoCopy, copy |-> 0] : c \in resumed}
    /\ UNCHANGED <<best, kept, evals, retest, rescore, auditing, cutVars, plan, history>>

-----------------------------------------------------------------------------
Next ==
    \/ \E c \in Cand :
          \/ Submit(c) \/ Rerun(c) \/ Evaluate(c) \/ FinishShort(c)
          \/ LeaseAudit(c) \/ RunAudit(c) \/ AuditorFails(c)
          \/ \E passed \in BOOLEAN : AuditVerdict(c, passed)
          \/ \E quarantine \in BOOLEAN : Demote(c, quarantine)
          \/ Delete(c)
    \/ \E t \in tests : TestStep(t)
    \/ StartRetest \/ NextRetest \/ CancelRetest \/ RetireModules
    \/ RescoreRead \/ Rescore \/ Crash \/ Restart \/ ChangeData

\* Evaluations end (every sandbox run has a timeout), tests go on whenever they can, the
\* semaphore is fair, and the control plane is started again.  Nobody has to submit, audit or
\* operate anything.
Fairness ==
    /\ WF_vars(Restart)
    /\ \A c \in Cand :
          /\ WF_vars(Evaluate(c))
          /\ SF_vars(\E t \in tests : t.c = c /\ t.kind = "new" /\ TestStep(t))
          /\ WF_vars(\E t \in tests : t.c = c /\ t.kind # "new" /\ TestStep(t))

Spec == Init /\ [][Next]_vars /\ Fairness

-----------------------------------------------------------------------------
(* Properties *)

Kinds == {"new", "finish", "retest"}

\* Rows, tasks and the thread have their types; the users of the shared cut are counted exactly.
TypeOK ==
    /\ row \in [Cand -> [status : {"unborn", "evaluating", "ok", "error", "gone"},
                          score : 0 .. MaxScore,
                          look : {"skipped", "pending", "short", "pass", "fail", "error"},
                          audit : {"none", "pending", "pass", "fail"}]]
    /\ best \in Cand \cup {NoCand} /\ kept \subseteq Cand /\ auditing \subseteq Cand
    /\ evals \subseteq Cand \X BOOLEAN /\ retest \in Seq(Cand)
    /\ \A t \in tests : t.c \in Cand /\ t.kind \in Kinds /\ t.phase \in {"queued", "between"} \cup Holding
    /\ cutUsers = Cardinality({t \in tests : t.phase \in Holding})
    /\ data \in Nat \ {NoCopy} /\ mirror \in {NoCopy} \cup 1 .. data

\* What the objective names is there: the champion is a scored row, neither deleted nor under
\* re-evaluation, and the re-test only has rows before it (get_candidate would raise and leave
\* it "running" for ever).  Deletions, re-runs, demotions, late verdicts and restarts keep it.
\* Two things do not: a rescoring thread that writes to a row changed since it read it (stale),
\* and a crashed submission that writes "error" to a row of its author whose own evaluation goes
\* on, so that a second one may be started beside it (marked).
NothingDangles ==
    /\ best # NoCand /\ ~stale /\ best \notin marked => row[best].status = "ok"
    /\ \A c \in ToSet(retest) \ marked : Exists(row, c)

\* "The last user deletes them": while the data folder stays as it is, no test that reads the
\* shared truncated copy finds it gone or replaced, whatever the other users of the cut do.  When
\* the folder changes under them, build_mirror removes the copy under whoever reads it: it holds
\* the lock of the copy and does not ask _cut_users (moved).
CutInUse == ~moved => \A t \in tests : t.phase = "cut" => mirror = t.sig

\* No candidate stays "evaluating" or "pending", whatever is deleted, re-run or restarted
\* meanwhile: evaluations and background tests end in a verdict.  The one exception is a re-run
\* that raises where neither evaluate nor rerun records it (lost): its row waits for a restart.
EveryCandidateSettles ==
    \A c \in Cand : (row[c].status = "evaluating" \/ row[c].look = "pending")
                        ~> \/ row[c].status # "evaluating" /\ row[c].look # "pending"
                           \/ c \in lost

\* docs/task-servers.md: a candidate that fails the look-ahead test "can never hold the title".
LeakHoldsNoTitle == best # NoCand => row[best].look # "fail"
=============================================================================

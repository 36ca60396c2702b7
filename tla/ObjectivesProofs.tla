-------------------------- MODULE ObjectivesProofs --------------------------
(* The objective's types, its shared cut and its title, for any number of candidates, tests,  *)
(* audits, operator actions and restarts.                                                     *)
EXTENDS Objectives, FiniteSetTheorems, DataLemmas, TLAPS

\* The values of a row's columns, of a test's fields and of the rescoring thread's variables
Status == {"unborn", "evaluating", "ok", "error", "gone"}
Look == {"skipped", "pending", "short", "pass", "fail", "error"}
Row == [status : Status, score : 0 .. MaxScore, look : Look,
        audit : {"none", "pending", "pass", "fail"}]
Test == [c : Cand, kind : Kinds, tier : {1, 2}, phase : {"queued", "between"} \cup Holding,
         score : 0 .. MaxScore, sig : Nat, copy : Nat]
Rescoring == [step : {"idle", "write", "rank", "crown"}, ids : SUBSET Cand,
           champ : Cand \cup {NoCand}, top : Cand \cup {NoCand}]

\* The variables TypeOK does not name, and TypeOK's parts without the count
Types ==
    /\ up \in BOOLEAN /\ stale \in BOOLEAN /\ moved \in BOOLEAN /\ plan \subseteq Events
    /\ row \in [Cand -> Row] /\ best \in Cand \cup {NoCand}
    /\ kept \subseteq Cand /\ auditing \subseteq Cand /\ evals \subseteq Cand \X BOOLEAN
    /\ retest \in Seq(Cand) /\ tests \subseteq Test /\ rescore \in Rescoring
    /\ data \in Nat \ {NoCopy} /\ mirror \in {NoCopy} \cup 1 .. data
    /\ lost \subseteq Cand /\ marked \subseteq Cand

\* The tests that share the cut: as long as the data did not change under them they all asked for
\* the same copy, and those that read it have it.
HoldingTests == {t \in tests : t.phase \in Holding}
CutInv ==
    /\ cutUsers = 0 => ~moved
    /\ \A t \in HoldingTests : /\ t.sig \in 1 .. data
                               /\ ~moved => t.sig = data
                               /\ ~moved /\ t.phase = "cut" => mirror = t.sig

TestInv ==
    /\ IsFiniteSet(tests) /\ cutUsers = Cardinality(HoldingTests)
    /\ \A t, u \in tests : t.c = u.c /\ t.kind = u.kind /\ t.copy = u.copy => t = u
    /\ \A t, u \in tests : t.kind = "retest" /\ u.kind = "retest" => t = u
    /\ \A t \in tests : t.kind # "new" => t.tier = 2
    /\ \A t \in tests : t.kind = "retest" => retest # <<>>
    /\ CutInv

\* A server that is down has no evaluation, test, re-test or rescoring under way.
DownInv == ~up => evals = {} /\ tests = {} /\ retest = <<>> /\ rescore = Idle

\* The looks that a verdict is still due for
Open == {"short", "pending"}

\* What is scored or tested was evaluated; a row that is evaluated is one evaluation's and holds
\* no title, and unless it is re-run no re-test waits for it.
RowOf(c) ==
    /\ row[c].look \in Open => row[c].status = "ok"
    /\ row[c].score # NoScore /\ ~stale => row[c].status = "ok"
    /\ \A e \in evals : e[1] = c => /\ row[c].status = "evaluating"
                                    /\ e[2] = FALSE => c \notin ToSet(retest)
    /\ \A e, f \in evals : e[1] = c /\ f[1] = c => e = f
    /\ best = c /\ ~stale => row[c].status = "ok"
    /\ c \in ToSet(retest) => Exists(row, c)

\* It holds of every row that no other submission's crash wrote to.
RowInv == \A c \in Cand : c \notin marked => RowOf(c)

\* The inductive invariant
IndInv == Types /\ TestInv /\ DownInv /\ RowInv

\* The boards that the judgements take and return
Boards == [row : [Cand -> Row], best : Cand \cup {NoCand}]

\* Between the boards a and b nothing was judged but audits, titles and finished tests.
Judged(a, b) ==
    /\ b \in Boards
    /\ \A c \in Cand : c \notin marked =>
           /\ b.row[c].status = a.row[c].status
           /\ b.row[c].look \in Open => a.row[c].look \in Open
           /\ b.row[c].score = NoScore \/ a.row[c].score # NoScore \/ a.row[c].status = "ok"
    /\ b.best \in {a.best, NoCand} \cup marked \/ b.row[b.best].status = "ok"

-----------------------------------------------------------------------------
(* The leaderboard's first row *)

USE ObjectivesConstants DEF Cand, NoCand, NoScore, NoCopy, history

\* The leaderboard has a first row whenever it has one.
LEMMA FirstIn ==
    ASSUME NEW r \in [Cand -> Row], NEW S \in SUBSET Cand
    PROVE  First(r, S) \in S \cup {NoCand} /\ (S # {} => First(r, S) \in S)
<1>1. CASE S = {}
  BY <1>1 DEF First
<1>2. CASE S # {}
  <2> DEFINE K == {MaxScore - r[c].score : c \in S}
  <2>1. \A c \in Cand : r[c].score \in 0 .. MaxScore
    BY DEF Row
  <2>2. K \in SUBSET Nat /\ K # {}
    <3>1. MaxScore \in Nat
      OBVIOUS
    <3>2. \A c \in S : MaxScore - r[c].score \in Nat
      BY <2>1, <3>1
    <3>3. K \in SUBSET Nat
      BY <3>2
    <3>4. PICK c \in S : TRUE
      BY <1>2
    <3>5. MaxScore - r[c].score \in K
      OBVIOUS
    <3> QED BY <3>3, <3>5
  <2>3. PICK c1 \in S : \A d \in S : r[d].score <= r[c1].score
    <3>1. PICK k \in K : \A j \in K : k <= j
      BY <2>2, Least
    <3>2. PICK c \in S : k = MaxScore - r[c].score
      BY <3>1
    <3>3. \A d \in S : MaxScore - r[c].score <= MaxScore - r[d].score
      BY <3>1, <3>2
    <3>4. MaxScore \in Nat /\ \A d \in S : r[d].score \in Nat
      <4>1. MaxScore \in Nat
        OBVIOUS
      <4>2. ASSUME NEW d \in S PROVE r[d].score \in Nat
        <5>1. r[d].score \in 0 .. MaxScore
          BY <2>1
        <5> QED BY <4>1, <5>1
      <4> QED BY <4>1, <4>2
    <3>5. ASSUME NEW d \in S PROVE r[d].score <= r[c].score
      <4>1. MaxScore - r[c].score <= MaxScore - r[d].score
        BY <3>3
      <4> QED BY <3>4, <4>1
    <3> QED BY <3>5
  <2> DEFINE T == {c \in S : r[c].score = r[c1].score}
  <2>4. PICK c2 \in T : \A d \in T : c2 <= d
    <3>1. T \in SUBSET Nat /\ c1 \in T
      <4>1. Cand \subseteq Nat
        OBVIOUS
      <4> HIDE DEF Cand
      <4> QED BY <2>3, <4>1
    <3> HIDE DEF T
    <3> QED BY <3>1, Least
  <2>5. c2 \in S /\ \A d \in S \ {c2} : Above(r, c2, d)
    BY <2>1, <2>3, <2>4 DEF Above
  <2> QED BY <1>2, <2>5 DEF First
<1> QED BY <1>1, <1>2

\* The copy number Spawn chooses is one that no test of the same candidate and kind has.
LEMMA FreshCopy ==
    ASSUME NEW U, IsFiniteSet(U)
    PROVE  Min((0 .. Cardinality(U)) \ U) \in Nat \ U
<1> DEFINE T == (0 .. Cardinality(U)) \ U
<1>1. Cardinality(U) \in Nat
  BY FS_CardinalityType
<1>2. T \in SUBSET Nat
  BY <1>1
<1>3. T # {}
  <2>1. Cardinality(0 .. Cardinality(U)) = Cardinality(U) + 1
    BY <1>1, FS_Interval
  <2> SUFFICES ASSUME 0 .. Cardinality(U) \in SUBSET U PROVE FALSE
    OBVIOUS
  <2> QED BY <1>1, <2>1, FS_Subset
<1> HIDE DEF T
<1>4. \E x \in T : \A y \in T : x <= y
  BY <1>2, <1>3, Least
<1>5. Min(T) \in T
  BY <1>4 DEF Min
<1> QED BY <1>2, <1>5 DEF T

-----------------------------------------------------------------------------
(* What the judgements do to a board *)

\* The rows and the title of a state make a board.
LEMMA BoardType == ASSUME Types PROVE Board \in Boards /\ Board.row = row /\ Board.best = best
BY DEF Board, Boards, Types

\* One judgement after another is a judgement, ...
LEMMA JudgedTrans ==
    ASSUME NEW a \in Boards, NEW b, NEW c, Judged(a, b), Judged(b, c)
    PROVE  Judged(a, c)
BY DEF Judged, Boards, Row

\* ... and so is none.
LEMMA JudgedSelf == ASSUME NEW a \in Boards PROVE Judged(a, a)
BY DEF Judged, Boards

\* The title passes to a row that ranks, or to nobody.
LEMMA HandOnJudged == ASSUME NEW a \in Boards PROVE Judged(a, HandOn(a))
<1>1. /\ a.row \in [Cand -> Row]
      /\ Ranked(a.row) \in SUBSET Cand /\ \A c \in Ranked(a.row) : a.row[c].status = "ok"
  BY DEF Boards, Ranked
<1>2. First(a.row, Ranked(a.row)) \in Ranked(a.row) \cup {NoCand}
  BY <1>1, FirstIn
<1> DEFINE f == First(a.row, Ranked(a.row))
<1>3. HandOn(a) = [a EXCEPT !.best = f]
  BY DEF HandOn
<1> HIDE DEF f
<1>4. HandOn(a) \in Boards /\ HandOn(a).row = a.row /\ HandOn(a).best = f
  BY <1>1, <1>2, <1>3 DEF Boards, f
<1>5. f = NoCand \/ a.row[f].status = "ok"
  BY <1>1, <1>2 DEF f
<1> QED BY <1>4, <1>5 DEF Judged

\* A failed audit changes no other column, ...
LEMMA FailJudged ==
    ASSUME NEW a \in Boards, NEW S PROVE Judged(a, FailAudit(a, S)) /\ FailAudit(a, S).best = a.best
<1> DEFINE r == [c \in Cand |-> IF c \in S THEN [a.row[c] EXCEPT !.audit = "fail"] ELSE a.row[c]]
<1>1. FailAudit(a, S) = [a EXCEPT !.row = r]
  BY DEF FailAudit, Boards
<1>2. /\ r \in [Cand -> Row]
      /\ \A c \in Cand : /\ r[c].status = a.row[c].status /\ r[c].look = a.row[c].look
                         /\ r[c].score = a.row[c].score
  <2> SUFFICES ASSUME NEW c \in Cand
               PROVE  /\ r[c] \in Row /\ r[c].status = a.row[c].status
                      /\ r[c].look = a.row[c].look /\ r[c].score = a.row[c].score
    OBVIOUS
  <2>1. a.row[c] \in Row
    BY DEF Boards
  <2>2. /\ [a.row[c] EXCEPT !.audit = "fail"] \in Row
        /\ [a.row[c] EXCEPT !.audit = "fail"].status = a.row[c].status
        /\ [a.row[c] EXCEPT !.audit = "fail"].look = a.row[c].look
        /\ [a.row[c] EXCEPT !.audit = "fail"].score = a.row[c].score
    BY <2>1 DEF Row
  <2> QED BY <2>1, <2>2
<1> HIDE DEF r
<1>3. /\ FailAudit(a, S) \in Boards /\ FailAudit(a, S).row = r
      /\ FailAudit(a, S).best = a.best
  BY <1>1, <1>2 DEF Boards
<1> QED BY <1>2, <1>3 DEF Judged

\* ... nor does failing what runs a disqualified member ...
LEMMA DependentsJudged ==
    ASSUME NEW a \in Boards, NEW S PROVE Judged(a, DisqualifyDependents(a, S))
<1> DEFINE hit == {d \in Cand : /\ Exists(a.row, d) /\ a.row[d].audit # "fail"
                                /\ Members[d] \cap S # {}}
<1>1. DisqualifyDependents(a, S) =
          IF a.best \in hit THEN HandOn(FailAudit(a, hit)) ELSE FailAudit(a, hit)
  BY DEF DisqualifyDependents
<1> HIDE DEF hit
<1>2. Judged(a, FailAudit(a, hit)) /\ FailAudit(a, hit) \in Boards
  BY FailJudged DEF Judged
<1>3. Judged(a, HandOn(FailAudit(a, hit)))
  BY <1>2, HandOnJudged, JudgedTrans
<1> QED BY <1>1, <1>2, <1>3

\* ... or everything on a quarantined module, ...
LEMMA CascadeJudged ==
    ASSUME NEW a \in Boards, NEW origin PROVE Judged(a, Cascade(a, origin))
<1> DEFINE hit == {d \in UsesLib \ {origin} : a.row[d].status = "ok" /\ a.row[d].audit # "fail"}
           after == DisqualifyDependents(FailAudit(a, hit), hit)
<1>1. Cascade(a, origin) \in {a, HandOn(after), after}
  BY DEF Cascade
<1> HIDE DEF hit
<1>2. Judged(a, FailAudit(a, hit)) /\ FailAudit(a, hit) \in Boards
  BY FailJudged DEF Judged
<1>3. Judged(a, after) /\ after \in Boards
  BY <1>2, DependentsJudged, JudgedTrans DEF Judged
<1> HIDE DEF after
<1>4. Judged(a, HandOn(after))
  BY <1>3, HandOnJudged, JudgedTrans
<1> QED BY <1>1, <1>3, <1>4, JudgedSelf

\* ... whether or not the candidate uses one.
LEMMA QuarantineJudged ==
    ASSUME NEW a \in Boards, NEW c PROVE Judged(a, AutoQuarantine(a, c))
BY CascadeJudged, JudgedSelf DEF AutoQuarantine

\* A new audit verdict or look-ahead verdict of one row
LEMMA SetJudged ==
    ASSUME NEW a \in Boards, NEW c \in Cand, NEW v
    PROVE  /\ v \in {"none", "pending", "pass", "fail"} =>
                  /\ Judged(a, Set(a, c, "audit", v))
                  /\ Set(a, c, "audit", v).best = a.best
           /\ v \in Look \ Open => Judged(a, Set(a, c, "look", v))
<1>1. ASSUME v \in {"none", "pending", "pass", "fail"}
      PROVE  /\ [a EXCEPT !.row[c]["audit"] = v].best = a.best
             /\ Judged(a, [a EXCEPT !.row[c]["audit"] = v])
  <2> DEFINE r == [a.row[c] EXCEPT !["audit"] = v]
             b == [a EXCEPT !.row[c]["audit"] = v]
  <2>1. /\ r \in Row /\ r.status = a.row[c].status /\ r.score = a.row[c].score
        /\ r.look \in Open => a.row[c].look \in Open
    <3>1. a.row[c] \in Row
      BY DEF Boards
    <3> QED BY <1>1, <3>1 DEF Row
  <2>2. b = [a EXCEPT !.row[c] = r]
    OBVIOUS
  <2> HIDE DEF b, r
  <2>3. /\ b \in Boards /\ b.best = a.best /\ b.row[c] = r
        /\ \A d \in Cand : d # c => b.row[d] = a.row[d]
    BY <2>1, <2>2 DEF Boards
  <2>4. Judged(a, b)
    BY <2>1, <2>3 DEF Judged
  <2> QED BY <2>3, <2>4 DEF b
<1>2. ASSUME v \in Look \ Open
      PROVE  Judged(a, [a EXCEPT !.row[c]["look"] = v])
  <2> DEFINE r == [a.row[c] EXCEPT !["look"] = v]
             b == [a EXCEPT !.row[c]["look"] = v]
  <2>1. /\ r \in Row /\ r.status = a.row[c].status /\ r.score = a.row[c].score
        /\ r.look \in Open => a.row[c].look \in Open
    <3>1. a.row[c] \in Row
      BY DEF Boards
    <3> QED BY <1>2, <3>1 DEF Row
  <2>2. b = [a EXCEPT !.row[c] = r]
    OBVIOUS
  <2> HIDE DEF b, r
  <2>3. /\ b \in Boards /\ b.best = a.best /\ b.row[c] = r
        /\ \A d \in Cand : d # c => b.row[d] = a.row[d]
    BY <2>1, <2>2 DEF Boards
  <2>4. Judged(a, b)
    BY <2>1, <2>3 DEF Judged
  <2> QED BY <2>3, <2>4 DEF b
<1> QED BY <1>1, <1>2, JudgedSelf DEF Set

\* The columns of one row
LEMMA SetType ==
    ASSUME NEW a \in Boards, NEW c \in Cand, NEW v
    PROVE  /\ v \in Status => Set(a, c, "status", v) \in Boards
           /\ v \in 0 .. MaxScore => Set(a, c, "score", v) \in Boards
           /\ v \in Look => Set(a, c, "look", v) \in Boards
<1>1. \A r \in Row : /\ v \in Status => [r EXCEPT !["status"] = v] \in Row
                     /\ v \in 0 .. MaxScore => [r EXCEPT !["score"] = v] \in Row
                     /\ v \in Look => [r EXCEPT !["look"] = v] \in Row
  BY DEF Row
<1>2. \A r \in Row : [a EXCEPT !.row[c] = r] \in Boards
  BY DEF Boards
<1> QED BY <1>1, <1>2 DEF Set, Boards

\* _settle keeps the columns' types ...
LEMMA SettleType ==
    ASSUME NEW a \in Boards, NEW c \in Cand, NEW status \in Status, NEW score \in 0 .. MaxScore,
           NEW v \in Look
    PROVE  Settle(a, c, status, score, v) \in Boards
<1> DEFINE contender == status = "ok" /\ v = "pass" /\ Better(score, ScoreOf(a.row, a.best))
           audit == IF contender /\ RequireAudit THEN "pending" ELSE a.row[c].audit
           r == [status |-> status, score |-> score, look |-> v, audit |-> audit]
           scored == [a EXCEPT !.row[c] = r]
           swept == IF v = "fail" THEN AutoQuarantine(scored, c) ELSE scored
<1>1. Settle(a, c, status, score, v) =
          IF contender /\ ~RequireAudit THEN [swept EXCEPT !.best = c] ELSE swept
  BY Zenon DEF Settle
<1> HIDE DEF contender
<1>6. audit \in {"none", "pending", "pass", "fail"}
  BY DEF Boards, Row
<1> HIDE DEF audit
<1>2. r \in Row
  BY <1>6 DEF Boards, Row
<1> HIDE DEF r
<1>3. scored \in Boards
  BY <1>2 DEF Boards
<1> HIDE DEF scored
<1>4. swept \in Boards
  BY <1>3, QuarantineJudged DEF Judged
<1> HIDE DEF swept
<1>5. [swept EXCEPT !.best = c] \in Boards
  BY <1>4 DEF Boards
<1> QED BY <1>1, <1>4, <1>5

\* ... and is a judgement when the row keeps its status, or is marked.
LEMMA SettleJudged ==
    ASSUME NEW a \in Boards, NEW c \in Cand, NEW score \in 0 .. MaxScore, NEW v \in Look,
           NEW status \in Status,
           c \notin marked => /\ status = a.row[c].status
                              /\ v \in Open => a.row[c].look \in Open
                              /\ score = a.row[c].score \/ status = "ok"
    PROVE  Judged(a, Settle(a, c, status, score, v))
<1> DEFINE contender == status = "ok" /\ v = "pass" /\ Better(score, ScoreOf(a.row, a.best))
           audit == IF contender /\ RequireAudit THEN "pending" ELSE a.row[c].audit
           r == [status |-> status, score |-> score, look |-> v, audit |-> audit]
           scored == [a EXCEPT !.row[c] = r]
           swept == IF v = "fail" THEN AutoQuarantine(scored, c) ELSE scored
<1>1. Settle(a, c, status, score, v) =
          IF contender /\ ~RequireAudit THEN [swept EXCEPT !.best = c] ELSE swept
  BY Zenon DEF Settle
<1>2. r \in Row /\ r.status = status /\ r.score = score /\ r.look = v
  BY DEF Boards, Row
<1>3. contender => status = "ok"
  OBVIOUS
<1> HIDE DEF contender, audit, r
<1>4. /\ scored \in Boards /\ scored.best = a.best /\ scored.row[c] = r
      /\ \A d \in Cand : d # c => scored.row[d] = a.row[d]
  BY <1>2 DEF Boards
<1> HIDE DEF scored
<1>5. Judged(a, scored)
  BY <1>2, <1>4 DEF Judged
<1>6. Judged(a, swept) /\ swept \in Boards
  BY <1>4, <1>5, QuarantineJudged, JudgedTrans DEF Judged
<1> HIDE DEF swept
<1>7. contender => Judged(a, [swept EXCEPT !.best = c])
  BY <1>3, <1>6 DEF Judged, Boards
<1> QED BY <1>1, <1>6, <1>7

\* What is set in one row leaves the others and the title alone.
LEMMA SetOthers ==
    ASSUME NEW a \in Boards, NEW c \in Cand, NEW field, NEW v
    PROVE  /\ Set(a, c, field, v).best = a.best
           /\ \A d \in Cand : d # c => Set(a, c, field, v).row[d] = a.row[d]
BY DEF Set, Boards

\* What keeps a row's status, and gives it no new test, evaluation, title or re-test, keeps what is
\* known of it.
LEMMA RowKept ==
    ASSUME NEW c \in Cand, RowOf(c), row'[c].status = row[c].status,
           row'[c].look \in Open => row[c].look \in Open,
           row'[c].score # NoScore /\ ~stale' => row[c].score # NoScore \/ row[c].status = "ok",
           \A e \in evals' : e[1] = c => e \in evals,
           c \in ToSet(retest') => c \in ToSet(retest),
           best' = c /\ ~stale' => best = c \/ row[c].status = "ok",
           stale => stale'
    PROVE  RowOf(c)'
BY DEF RowOf, Exists

\* A judgement keeps what is known of the rows.
LEMMA JudgedRows ==
    ASSUME IndInv, NEW bd, Judged(Board, bd), Apply(bd), UNCHANGED <<evals, history>>,
           ToSet(retest') \subseteq ToSet(retest)
    PROVE  row' \in [Cand -> Row] /\ best' \in Cand \cup {NoCand} /\ RowInv'
<1>1. bd \in Boards /\ row' = bd.row /\ best' = bd.best /\ Board.row = row /\ Board.best = best
  BY DEF Apply, Judged, Board
<1>2. row' \in [Cand -> Row] /\ best' \in Cand \cup {NoCand}
  BY <1>1 DEF Boards
<1>3. ASSUME NEW c \in Cand, c \notin marked' PROVE RowOf(c)'
  <2>1. c \notin marked /\ RowOf(c)
    BY <1>3 DEF IndInv, RowInv
  <2>2. /\ row'[c].status = row[c].status
        /\ row'[c].look \in Open => row[c].look \in Open
        /\ row'[c].score # NoScore => row[c].score # NoScore \/ row[c].status = "ok"
        /\ best' = c => best = c \/ row[c].status = "ok"
    BY <1>1, <2>1 DEF Judged
  <2> QED BY <2>1, <2>2, RowKept
<1> QED BY <1>2, <1>3 DEF RowInv

-----------------------------------------------------------------------------
(* What a step does to the tests *)

\* Their types are in Types; TestInv and DownInv see nothing else of a state.
LEMMA TestFrame ==
    ASSUME TestInv, UNCHANGED <<tests, retest, cutVars>>
    PROVE  TestInv'
BY DEF TestInv, HoldingTests, CutInv, cutVars

\* Spawn adds a test that waits, different from all others.
LEMMA SpawnTests ==
    ASSUME IndInv, NEW c \in Cand, NEW kind \in Kinds, NEW score \in 0 .. MaxScore,
           kind = "retest" => retest # <<>> /\ \A t \in tests : t.kind # "retest",
           tests' = Spawn(tests, c, kind, score), UNCHANGED <<retest, cutVars>>
    PROVE  tests' \subseteq Test /\ TestInv'
<1> DEFINE same == {u \in tests : u.c = c /\ u.kind = kind}
           used == {t.copy : t \in same}
           m == Min((0 .. Cardinality(used)) \ used)
           n == [c |-> c, kind |-> kind, tier |-> IF kind = "new" THEN 1 ELSE 2,
                 phase |-> "queued", score |-> score, sig |-> NoCopy, copy |-> m]
<1>1. tests' = tests \cup {n}
  BY DEF Spawn
<1>2. IsFiniteSet(used)
  <2>1. IsFiniteSet(same)
    BY FS_Subset DEF IndInv, TestInv
  <2>2. [t \in same |-> t.copy] \in Surjection(same, used)
    BY DEF Surjection
  <2> HIDE DEF same, used
  <2> QED BY <2>1, <2>2, FS_Surjection
<1>3. m \in Nat \ used
  <2> HIDE DEF used
  <2> QED BY <1>2, FreshCopy
<1>4. \A t \in tests : t.c = c /\ t.kind = kind => t.copy # m
  BY <1>3
<1> HIDE DEF used, m
<1>5. n \in Test /\ n.phase \notin Holding /\ (n.kind # "new" => n.tier = 2)
  BY <1>3 DEF Test, Holding
<1>6. tests' \subseteq Test
  BY <1>1, <1>5 DEF IndInv, Types
<1>7. n.c = c /\ n.kind = kind /\ n.copy = m
  OBVIOUS
<1> HIDE DEF n
<1>8. HoldingTests' = HoldingTests
  BY <1>1, <1>5 DEF HoldingTests
<1>9. IsFiniteSet(tests')
  BY <1>1, FS_AddElement DEF IndInv, TestInv
<1>10. cutUsers' = Cardinality(HoldingTests')
  BY <1>8 DEF IndInv, TestInv, cutVars
<1>11. \A t, u \in tests' : t.c = u.c /\ t.kind = u.kind /\ t.copy = u.copy => t = u
  BY <1>1, <1>4, <1>7 DEF IndInv, TestInv
<1>0. \A t, u \in tests' : t.kind = "retest" /\ u.kind = "retest" => t = u
  BY <1>1, <1>7 DEF IndInv, TestInv
<1>13. \A t \in tests' : (t.kind # "new" => t.tier = 2) /\ (t.kind = "retest" => retest' # <<>>)
  BY <1>1, <1>5, <1>7 DEF IndInv, TestInv
<1>14. CutInv'
  BY <1>8 DEF IndInv, TestInv, CutInv, cutVars
<1> QED BY <1>6, <1>9, <1>10, <1>11, <1>0, <1>13, <1>14 DEF TestInv

\* A test that goes to another phase stays the test it is.
LEMMA Moves ==
    ASSUME IndInv, NEW t \in tests, NEW n,
           n \in Test, n.c = t.c, n.kind = t.kind, n.copy = t.copy,
           t.tier = 2 => n.tier = 2,
           tests' = (tests \ {t}) \cup {n}, retest' = retest
    PROVE  /\ tests' \subseteq Test /\ IsFiniteSet(tests') /\ n \notin tests \ {t}
           /\ HoldingTests' = (HoldingTests \ {t}) \cup (IF n.phase \in Holding THEN {n} ELSE {})
           /\ \A v, u \in tests' : v.c = u.c /\ v.kind = u.kind /\ v.copy = u.copy => v = u
           /\ \A v, u \in tests' : v.kind = "retest" /\ u.kind = "retest" => v = u
           /\ \A v \in tests' : /\ v.kind # "new" => v.tier = 2
                                /\ v.kind = "retest" => retest' # <<>>
           /\ IsFiniteSet(HoldingTests) /\ cutUsers = Cardinality(HoldingTests)
           /\ Cardinality(HoldingTests) \in Nat
<1> USE DEF IndInv, TestInv
<1>1. tests' \subseteq Test
  BY DEF Types
<1>2. IsFiniteSet(tests')
  BY FS_RemoveElement, FS_AddElement
<1>3. n \notin tests \ {t}
  OBVIOUS
<1>4. HoldingTests' = (HoldingTests \ {t}) \cup (IF n.phase \in Holding THEN {n} ELSE {})
  BY DEF HoldingTests
<1>5. \A v, u \in tests' : v.c = u.c /\ v.kind = u.kind /\ v.copy = u.copy => v = u
  OBVIOUS
<1>6. \A v, u \in tests' : v.kind = "retest" /\ u.kind = "retest" => v = u
  OBVIOUS
<1>7. \A v \in tests' : (v.kind # "new" => v.tier = 2) /\ (v.kind = "retest" => retest' # <<>>)
  OBVIOUS
<1>8. IsFiniteSet(HoldingTests)
  BY FS_Subset DEF HoldingTests
<1>9. Cardinality(HoldingTests) \in Nat
  BY <1>8, FS_CardinalityType
<1> QED BY <1>1, <1>2, <1>3, <1>4, <1>5, <1>6, <1>7, <1>8, <1>9

\* The last user of the cut, and only the last, leaves without it.
LEMMA Discards ==
    ASSUME IndInv, Release,
           NEW t \in HoldingTests, HoldingTests' = HoldingTests \ {t}
    PROVE  /\ cutUsers' = Cardinality(HoldingTests')
           /\ data' = data /\ mirror' \in {NoCopy} \cup 1 .. data /\ moved' \in BOOLEAN
           /\ CutInv'
<1>1. IsFiniteSet(HoldingTests) /\ cutUsers = Cardinality(HoldingTests)
  BY FS_Subset DEF IndInv, TestInv, HoldingTests
<1>2. cutUsers \in Nat
  BY <1>1, FS_CardinalityType
<1>3. cutUsers' = Cardinality(HoldingTests') /\ cutUsers' = cutUsers - 1
  BY <1>1, <1>2, FS_RemoveElement DEF Release, DiscardCut
<1>4. ASSUME cutUsers = 1 PROVE HoldingTests' = {}
  <2>1. PICK u : HoldingTests = {u}
    BY <1>1, <1>4, FS_Singleton
  <2> QED BY <2>1
<1>5. /\ mirror' = IF cutUsers = 1 THEN NoCopy ELSE mirror
      /\ moved' = (moved /\ cutUsers # 1) /\ data' = data
      /\ mirror \in {NoCopy} \cup 1 .. data /\ moved \in BOOLEAN
  BY DEF Release, DiscardCut, IndInv, Types
<1>6. CutInv
  BY DEF IndInv, TestInv
<1>7. CutInv'
  <2>1. CASE cutUsers = 1
    BY <1>4, <1>5, <2>1 DEF CutInv
  <2>2. CASE cutUsers # 1
    <3>1. /\ cutUsers' # 0 /\ mirror' = mirror /\ moved' = moved
          /\ HoldingTests' \subseteq HoldingTests
      BY <1>2, <1>3, <1>5, <2>2
    <3> QED BY <1>5, <1>6, <3>1 DEF CutInv
  <2> QED BY <2>1, <2>2
<1> QED BY <1>3, <1>5, <1>7

-----------------------------------------------------------------------------
(* One lemma per action *)

USE DEF board, cutVars, tasks

\* A new row is on no list yet.
LEMMA SubmitInv == ASSUME IndInv, NEW c \in Cand, Submit(c) PROVE IndInv'
<1>1. Types'
  <2>1. row' \in [Cand -> Row]
    BY ZenonT(30) DEF IndInv, Types, Submit, Row, Status
  <2>2. <<c, FALSE>> \in Cand \X BOOLEAN
    OBVIOUS
  <2>3. evals' \subseteq Cand \X BOOLEAN
    BY <2>2 DEF IndInv, Types, Submit
  <2> QED BY <2>1, <2>3 DEF IndInv, Types, Submit
<1>2. TestInv' /\ DownInv'
  BY TestFrame DEF IndInv, DownInv, Submit
<1>3. ASSUME NEW d \in Cand, d \notin marked' PROVE RowOf(d)'
  <2>1. RowOf(d)
    BY <1>3 DEF IndInv, RowInv, Submit
  <2>2. /\ row' = [row EXCEPT ![c].status = "evaluating"] /\ evals' = evals \cup {<<c, FALSE>>}
        /\ row[c].status = "unborn" /\ row[c] \in Row /\ UNCHANGED <<retest, best, stale>>
    BY DEF Submit, IndInv, Types
  <2>3. CASE d # c
    <3> DEFINE n == <<c, FALSE>>
    <3>1. evals' = evals \cup {n} /\ n[1] # d
      BY <2>2, <2>3
    <3> HIDE DEF n
    <3>2. row'[d] = row[d] /\ \A e \in evals' : e[1] = d => e \in evals
      BY <2>2, <2>3, <3>1 DEF IndInv, Types
    <3> QED BY <2>1, <2>2, <3>2, RowKept
  <2>4. CASE d = c
    <3>1. /\ row'[d].status = "evaluating" /\ row'[d].look = row[d].look
          /\ row'[d].score = row[d].score
      BY <2>2, <2>4 DEF Row, IndInv, Types
    <3>2. /\ row[d].look \notin Open /\ (~stale => row[d].score = NoScore /\ best # d)
          /\ d \notin ToSet(retest) /\ \A e \in evals : e[1] # d
      BY <2>1, <2>2, <2>4 DEF RowOf, Exists
    <3> DEFINE n == <<c, FALSE>>
    <3>3. evals' = evals \cup {n}
      BY <2>2
    <3> HIDE DEF n
    <3>4. \A e, f \in evals' : e[1] = d /\ f[1] = d => e = f
      BY <3>2, <3>3
    <3> QED BY <2>2, <3>1, <3>2, <3>4 DEF RowOf
  <2> QED BY <2>3, <2>4
<1> QED BY <1>1, <1>2, <1>3 DEF IndInv, RowInv

\* The row is wiped; it is not the champion and is scored or failed, so no list needs it.
LEMMA RerunInv == ASSUME IndInv, NEW c \in Cand, Rerun(c) PROVE IndInv'
<1> USE DEF Op
<1>1. Types'
  <2>1. row' \in [Cand -> Row]
    BY SMTT(30) DEF IndInv, Types, Rerun, Row, Status, Look, Blank
  <2>2. <<c, TRUE>> \in Cand \X BOOLEAN
    OBVIOUS
  <2>3. evals' \subseteq Cand \X BOOLEAN
    BY <2>2 DEF IndInv, Types, Rerun
  <2> QED BY <2>1, <2>3 DEF IndInv, Types, Rerun
<1>2. TestInv' /\ DownInv'
  BY TestFrame DEF IndInv, DownInv, Rerun
<1>3. ASSUME NEW d \in Cand, d \notin marked' PROVE RowOf(d)'
  <2>1. RowOf(d)
    BY <1>3 DEF IndInv, RowInv, Rerun
  <2>2. /\ row' = [row EXCEPT ![c] = [Blank EXCEPT !.status = "evaluating"]]
        /\ evals' = evals \cup {<<c, TRUE>>}
        /\ row[c].status # "evaluating" /\ best # c /\ UNCHANGED <<retest, best, stale>>
    BY DEF Rerun, MayRerun
  <2>3. CASE d # c
    <3> DEFINE n == <<c, TRUE>>
    <3>1. evals' = evals \cup {n} /\ n[1] # d
      BY <2>2, <2>3
    <3> HIDE DEF n
    <3>2. row'[d] = row[d] /\ \A e \in evals' : e[1] = d => e \in evals
      BY <2>2, <2>3, <3>1 DEF IndInv, Types
    <3> QED BY <2>1, <2>2, <3>2, RowKept
  <2>4. CASE d = c
    <3>1. /\ row'[d].status = "evaluating" /\ row'[d].look = "skipped"
          /\ row'[d].score = NoScore
      BY <2>2, <2>4 DEF Blank, IndInv, Types
    <3>2. \A e \in evals : e[1] # d
      BY <2>1, <2>2, <2>4 DEF RowOf
    <3> DEFINE n == <<c, TRUE>>
    <3>3. evals' = evals \cup {n} /\ n[2] # FALSE
      BY <2>2
    <3> HIDE DEF n
    <3>4. \A e, f \in evals' : e[1] = d /\ f[1] = d => e = f
      BY <3>2, <3>3
    <3>5. \A e \in evals' : e[1] = d => e[2] # FALSE
      BY <3>2, <3>3
    <3>6. Exists(row', d) /\ row'[d].look \notin Open /\ best' # d
      BY <2>2, <2>4, <3>1 DEF Exists, Open
    <3>7. \A e \in evals' : e[1] = d => /\ row'[d].status = "evaluating"
                                        /\ e[2] = FALSE => d \notin ToSet(retest')
      BY <3>1, <3>5
    <3> QED BY <3>1, <3>4, <3>6, <3>7 DEF RowOf
  <2> QED BY <2>3, <2>4
<1> QED BY <1>1, <1>2, <1>3 DEF IndInv, RowInv

\* An evaluation that ends: its row is still the one it was started for.
LEMMA EvalRow ==
    ASSUME IndInv, NEW e \in evals, e[1] \notin marked
    PROVE  /\ RowOf(e[1]) /\ row[e[1]].status = "evaluating" /\ Exists(row, e[1])
           /\ row[e[1]].look \notin Open /\ (~stale => row[e[1]].score = NoScore)
<1>1. e[1] \in Cand
  BY DEF IndInv, Types
<1>2. RowOf(e[1])
  BY <1>1 DEF IndInv, RowInv
<1> QED BY <1>1, <1>2 DEF RowOf, Exists

\* What follows when no other row changes, those apart that it marks
LEMMA EvalEnds ==
    ASSUME IndInv, NEW e \in evals,
           evals' = evals \ {e}, UNCHANGED <<retest, best, stale>>, marked \subseteq marked',
           \A d \in Cand : d # e[1] /\ d \notin marked' => row'[d] = row[d],
           e[1] \notin marked' =>
               /\ row'[e[1]].look \in Open => row'[e[1]].status = "ok"
               /\ row'[e[1]].score # NoScore /\ ~stale => row'[e[1]].status = "ok"
               /\ row'[e[1]].status \notin {"gone", "unborn"} \/ e[2] = FALSE
    PROVE  RowInv'
<1>1. ASSUME NEW d \in Cand, d \notin marked' PROVE RowOf(d)'
  <2>1. RowOf(d) /\ d \notin marked
    BY <1>1 DEF IndInv, RowInv
  <2>2. CASE d # e[1]
    <3>1. row'[d] = row[d]
      BY <1>1, <2>2
    <3> QED BY <2>1, <3>1, RowKept
  <2>3. CASE d = e[1]
    <3>1. \A f \in evals' : f[1] # d
      BY <2>1, <2>3 DEF RowOf
    <3>2. row[d].status = "evaluating" /\ (e[2] = FALSE => d \notin ToSet(retest))
      BY <2>1, <2>3 DEF RowOf
    <3>3. best = d => stale
      BY <2>1, <3>2 DEF RowOf
    <3>4. d \in ToSet(retest') => Exists(row', d)
      BY <1>1, <2>3, <3>2 DEF Exists
    <3> QED BY <1>1, <2>3, <3>1, <3>3, <3>4 DEF RowOf
  <2> QED BY <2>2, <2>3
<1> QED BY <1>1 DEF RowInv

\* A score settles the row and its test is spawned.
LEMMA EvalScoresInv ==
    ASSUME IndInv, NEW c \in Cand, NEW again \in BOOLEAN, NEW s \in {NoScore} \cup 1 .. MaxScore,
           EvalScores(<<c, again>>, s)
    PROVE  IndInv'
<1> DEFINE b1 == Set(Board, c, "status", "ok")
           b2 == Set(b1, c, "score", s)
           b3 == Set(b2, c, "look", "pending")
<1>1. Apply(b3) /\ <<c, again>> \in evals
  BY DEF EvalScores, Ends
<1>2. b1 \in Boards
  BY BoardType, SetType DEF Status, IndInv
<1> HIDE DEF b1
<1>3. b2 \in Boards
  BY SMTT(30), <1>2, SetType
<1> HIDE DEF b2
<1>4. b3 \in Boards
  BY <1>3, SetType DEF Look
<1> HIDE DEF b3
<1>5. UNCHANGED <<retest, cutVars>> /\ tests' = Spawn(tests, c, "new", NoScore)
  BY DEF EvalScores, Ends
<1>6. tests' \subseteq Test /\ TestInv'
  BY SMTT(30), <1>5, SpawnTests DEF Kinds
<1>7. Types'
  BY <1>1, <1>4, <1>6 DEF IndInv, Types, EvalScores, Ends, Apply, Boards
<1>8. DownInv'
  BY <1>1 DEF IndInv, DownInv, EvalScores, Ends
<1>9. b3.best = best /\ \A d \in Cand : d # c => b3.row[d] = row[d]
  BY <1>2, <1>3, BoardType, SetOthers DEF b1, b2, b3, IndInv
<1>10. ASSUME c \notin marked PROVE b3.row[c].status = "ok"
  <2> DEFINE e == <<c, again>>
  <2>15. e \in evals /\ e[1] = c
    BY <1>1
  <2> HIDE DEF e
  <2>1. Exists(row, c)
    BY <1>10, <2>15, EvalRow
  <2> DEFINE r1 == [row[c] EXCEPT !["status"] = "ok"]
             r2 == [r1 EXCEPT !["score"] = s]
             r3 == [r2 EXCEPT !["look"] = "pending"]
  <2>2. r1 \in Row /\ r1.status = "ok"
    BY DEF IndInv, Types, Row, Status
  <2>3. b1 = [row |-> [row EXCEPT ![c] = r1], best |-> best]
    BY <2>1 DEF b1, Set, Board
  <2> HIDE DEF r1
  <2>4. r2 \in Row /\ r2.status = "ok"
    BY <2>2 DEF Row
  <2>5. b1.row[c] = r1 /\ Exists(b1.row, c)
    BY <2>1, <2>2, <2>3 DEF Exists, IndInv, Types
  <2>6. b2 = [b1 EXCEPT !.row[c]["score"] = s]
    BY <2>5 DEF b2, Set
  <2>7. b2 = [row |-> [row EXCEPT ![c] = r2], best |-> best]
    BY <2>3, <2>5, <2>6 DEF IndInv, Types
  <2> HIDE DEF r2
  <2>8. r3 \in Row /\ r3.status = "ok"
    BY <2>4 DEF Row, Look
  <2>9. b2.row[c] = r2 /\ Exists(b2.row, c)
    BY <2>1, <2>4, <2>7 DEF Exists, IndInv, Types
  <2>10. b3 = [b2 EXCEPT !.row[c]["look"] = "pending"]
    BY <2>9 DEF b3, Set
  <2>11. b3 = [row |-> [row EXCEPT ![c] = r3], best |-> best]
    BY <2>7, <2>9, <2>10 DEF IndInv, Types
  <2> HIDE DEF r3
  <2> QED BY <2>8, <2>11 DEF IndInv, Types
<1>11. RowInv'
  <2> DEFINE e == <<c, again>>
  <2>1. /\ e \in evals /\ e[1] = c /\ row' = b3.row /\ best' = b3.best
        /\ evals' = evals \ {e} /\ UNCHANGED <<retest, stale, marked>>
    BY <1>1 DEF EvalScores, Ends, Apply
  <2> HIDE DEF e, b3
  <2>2. best' = best /\ \A d \in Cand : d # e[1] => row'[d] = row[d]
    BY <1>9, <2>1
  <2>3. e[1] \notin marked' => row'[e[1]].status = "ok"
    BY <1>10, <2>1
  <2> QED BY <2>1, <2>2, <2>3, EvalEnds
<1> QED BY <1>6, <1>7, <1>8, <1>11 DEF IndInv

\* A failed evaluation says so in its own row.
LEMMA EvalFailsInv ==
    ASSUME IndInv, NEW c \in Cand, NEW again \in BOOLEAN, EvalFails(<<c, again>>)
    PROVE  IndInv'
<1> DEFINE b1 == Set(Board, c, "status", "error")
           e == <<c, again>>
<1>1. /\ Apply(b1) /\ e \in evals /\ e[1] = c /\ evals' = evals \ {e}
      /\ UNCHANGED <<up, tests, kept, plan, auditing, rescore, retest, cutVars, history>>
  BY DEF EvalFails, Ends
<1>2. b1 \in Boards
  BY BoardType, SetType DEF Status, IndInv
<1>3. Types'
  <2> HIDE DEF b1, e
  <2> QED BY <1>1, <1>2 DEF IndInv, Types, Apply, Boards
<1>4. TestInv' /\ DownInv'
  BY <1>1, TestFrame DEF IndInv, DownInv
<1>5. b1.best = best /\ \A d \in Cand : d # c => b1.row[d] = row[d]
  BY BoardType, SetOthers DEF IndInv
<1>6. ASSUME c \notin marked
      PROVE  /\ b1.row[c].status = "error" /\ b1.row[c].look \notin Open
             /\ ~stale => b1.row[c].score = NoScore
  <2> HIDE DEF e
  <2> DEFINE r1 == [row[c] EXCEPT !["status"] = "error"]
  <2>1. /\ row[c].look \notin Open /\ (~stale => row[c].score = NoScore)
        /\ Exists(row, c)
    BY <1>1, <1>6, EvalRow
  <2>3. r1.status = "error" /\ r1.look = row[c].look /\ r1.score = row[c].score
    BY DEF IndInv, Types, Row
  <2>4. b1 = [row |-> [row EXCEPT ![c] = r1], best |-> best]
    BY <2>1 DEF Set, Board
  <2> HIDE DEF r1, b1
  <2>5. b1.row[c] = r1
    BY <2>4 DEF IndInv, Types
  <2> QED BY <2>1, <2>3, <2>5
<1>7. RowInv'
  <2> HIDE DEF e, b1
  <2>1. row' = b1.row /\ best' = best
    BY <1>1, <1>5 DEF Apply
  <2> QED BY <1>1, <1>5, <1>6, <2>1, EvalEnds
<1> QED BY <1>3, <1>4, <1>7 DEF IndInv

\* Its own row, and rows that are marked from then on
LEMMA EvalCrashesInv ==
    ASSUME IndInv, NEW c \in Cand, NEW again \in BOOLEAN, EvalCrashes(<<c, again>>)
    PROVE  IndInv'
<1> DEFINE e == <<c, again>>
           r(others) == [d \in Cand |-> IF d \in others \/ (d = c /\ Exists(row, d))
                                        THEN [row[d] EXCEPT !.status = "error"] ELSE row[d]]
<1>1. /\ e \in evals /\ e[1] = c /\ evals' = evals \ {e}
      /\ UNCHANGED <<best, up, tests, kept, plan, auditing, rescore, retest, cutVars, stale, lost>>
  BY DEF EvalCrashes, Ends
<1>2. PICK others \in SUBSET (Cand \ {c}) : row' = r(others) /\ marked' = marked \cup others
  BY DEF EvalCrashes
<1>3. r(others) \in [Cand -> Row]
  <2>1. ASSUME NEW d \in Cand
        PROVE  row[d] \in Row /\ [row[d] EXCEPT !.status = "error"] \in Row
    BY DEF IndInv, Types, Row, Status
  <2> QED BY <2>1
<1>4. Types'
  <2> HIDE DEF r, e
  <2> QED BY <1>1, <1>2, <1>3 DEF IndInv, Types
<1>5. TestInv' /\ DownInv'
  BY <1>1, TestFrame DEF IndInv, DownInv
<1>6. \A d \in Cand : d # e[1] /\ d \notin marked' => row'[d] = row[d]
  BY <1>1, <1>2
<1>7. ASSUME c \notin marked'
      PROVE  /\ row'[c].status = "error" /\ row'[c].look \notin Open
             /\ ~stale => row'[c].score = NoScore
  <2> HIDE DEF e
  <2>1. /\ row[c].look \notin Open /\ (~stale => row[c].score = NoScore)
        /\ Exists(row, c)
    BY <1>1, <1>2, <1>7, EvalRow
  <2>2. row'[c] = [row[c] EXCEPT !.status = "error"]
    BY <1>2, <2>1
  <2>3. row'[c].status = "error" /\ row'[c].look = row[c].look /\ row'[c].score = row[c].score
    BY <2>2 DEF IndInv, Types, Row
  <2> QED BY <2>1, <2>3
<1>8. RowInv'
  <2> HIDE DEF e, r
  <2> QED BY <1>1, <1>2, <1>6, <1>7, EvalEnds
<1> QED BY <1>4, <1>5, <1>8 DEF IndInv

\* A re-run nobody records leaves its row as it is.
LEMMA EvalLostInv ==
    ASSUME IndInv, NEW c \in Cand, NEW again \in BOOLEAN, EvalLost(<<c, again>>)
    PROVE  IndInv'
<1> DEFINE e == <<c, again>>
<1>1. /\ e \in evals /\ e[1] = c /\ evals' = evals \ {e} /\ lost' = lost \cup {c}
      /\ UNCHANGED <<row, best, up, tests, kept, plan, auditing, rescore, retest, cutVars, stale,
                     marked>>
  BY DEF EvalLost, Ends
<1> HIDE DEF e
<1>2. Types' /\ DownInv'
  BY <1>1 DEF IndInv, Types, DownInv
<1>3. TestInv'
  BY <1>1, TestFrame DEF IndInv
<1>4. RowInv'
  <2>1. e[1] \notin marked' => /\ row'[e[1]].look \notin Open /\ row'[e[1]].status = "evaluating"
                               /\ ~stale => row'[e[1]].score = NoScore
    BY <1>1, EvalRow
  <2> QED BY <1>1, <2>1, EvalEnds
<1> QED BY <1>2, <1>3, <1>4 DEF IndInv

\* The row that goes was never scored: nothing refers to it.
LEMMA SandboxDownInv ==
    ASSUME IndInv, NEW c \in Cand, NEW again \in BOOLEAN, SandboxDown(<<c, again>>)
    PROVE  IndInv'
<1> DEFINE e == <<c, again>>
           r == [Blank EXCEPT !.status = "gone"]
<1>1. /\ row' = [row EXCEPT ![c] = r]
      /\ e \in evals /\ e[1] = c /\ e[2] = again /\ ~again /\ evals' = evals \ {e}
      /\ UNCHANGED <<best, up, tests, kept, plan, auditing, rescore, retest, cutVars, history>>
  BY DEF SandboxDown, Ends
<1>2. r \in Row /\ r.status = "gone" /\ r.look = "skipped" /\ r.score = NoScore
  BY DEF Blank, Row, Status, Look
<1>3. Types'
  <2> HIDE DEF r, e
  <2> QED BY <1>1, <1>2 DEF IndInv, Types
<1>4. TestInv' /\ DownInv'
  BY <1>1, TestFrame DEF IndInv, DownInv
<1>5. RowInv'
  <2>1. e[2] = FALSE
    BY <1>1
  <2> HIDE DEF r, e
  <2>2. row'[c] = r /\ \A d \in Cand : d # c => row'[d] = row[d]
    BY <1>1 DEF IndInv, Types
  <2> QED BY <1>1, <1>2, <2>1, <2>2, EvalEnds DEF Open
<1> QED BY <1>3, <1>4, <1>5 DEF IndInv

\* What only moves tests leaves the rows alone.
LEMMA RowFrame ==
    ASSUME RowInv, UNCHANGED <<row, best, evals, history>>, ToSet(retest') \subseteq ToSet(retest)
    PROVE  RowInv'
<1> SUFFICES ASSUME NEW c \in Cand, c \notin marked' PROVE RowOf(c)'
  BY DEF RowInv
<1>1. RowOf(c)
  BY DEF RowInv
<1> QED BY <1>1, RowKept

\* A test that begins is counted, ...
LEMMA BeginCutInv == ASSUME IndInv, NEW t \in tests, BeginCut(t) PROVE IndInv'
<1> DEFINE n == [t EXCEPT !.phase = "held", !.sig = data]
<1>1. /\ n \in Test /\ n.c = t.c /\ n.kind = t.kind /\ n.copy = t.copy /\ n.tier = t.tier
      /\ n.phase = "held" /\ n.sig = data /\ t.phase \notin Holding /\ t \in Test
  BY DEF IndInv, Types, Test, Holding, BeginCut
<1>2. /\ tests' = (tests \ {t}) \cup {n} /\ cutUsers' = cutUsers + 1
      /\ UNCHANGED <<up, board, kept, evals, retest, rescore, auditing, mirror, data, moved, plan,
                     history>>
  BY DEF BeginCut, HoldCut
<1> HIDE DEF n
<1>3. /\ tests' \subseteq Test /\ IsFiniteSet(tests') /\ n \notin tests \ {t}
      /\ HoldingTests' = (HoldingTests \ {t}) \cup (IF n.phase \in Holding THEN {n} ELSE {})
      /\ \A v, u \in tests' : v.c = u.c /\ v.kind = u.kind /\ v.copy = u.copy => v = u
      /\ \A v, u \in tests' : v.kind = "retest" /\ u.kind = "retest" => v = u
      /\ \A v \in tests' : (v.kind # "new" => v.tier = 2) /\ (v.kind = "retest" => retest' # <<>>)
      /\ IsFiniteSet(HoldingTests) /\ cutUsers = Cardinality(HoldingTests)
      /\ Cardinality(HoldingTests) \in Nat
  BY <1>1, <1>2, Moves
<1>4. HoldingTests' = HoldingTests \cup {n} /\ n \notin HoldingTests
  BY <1>1, <1>3 DEF HoldingTests, Holding
<1>5. cutUsers' = Cardinality(HoldingTests') /\ cutUsers' # 0
  <2>1. IsFiniteSet(HoldingTests) /\ cutUsers = Cardinality(HoldingTests) /\ cutUsers \in Nat
    BY <1>3
  <2>2. Cardinality(HoldingTests \cup {n}) = cutUsers + 1
    BY <1>4, <2>1, FS_AddElement
  <2> QED BY <1>2, <1>4, <2>1, <2>2
<1>6. CutInv'
  <2>1. CutInv /\ data \in Nat \ {NoCopy} /\ data' = data
    BY <1>2 DEF IndInv, TestInv, Types
  <2> QED BY <1>1, <1>2, <1>4, <1>5, <2>1 DEF CutInv
<1>7. TestInv'
  BY <1>3, <1>5, <1>6 DEF TestInv
<1>8. Types' /\ DownInv'
  BY <1>2, <1>3 DEF IndInv, Types, DownInv
<1> QED BY <1>2, <1>7, <1>8, RowFrame DEF IndInv

\* A test that goes on under the cut stays one of its users.
LEMMA StaysHolding ==
    ASSUME IndInv, NEW t \in HoldingTests, NEW n \in Test, n.phase \in Holding,
           n.c = t.c, n.kind = t.kind, n.copy = t.copy, n.tier = t.tier,
           tests' = (tests \ {t}) \cup {n},
           UNCHANGED <<up, board, kept, evals, retest, rescore, auditing, cutUsers, data, moved, plan,
                       history>>,
           mirror' \in {NoCopy, t.sig},
           CutInv /\ HoldingTests' = (HoldingTests \ {t}) \cup {n} => CutInv'
    PROVE  IndInv'
<1>1. t \in tests /\ t \in Test
  BY DEF HoldingTests, IndInv, Types
<1>2. tests' = (tests \ {t}) \cup {n} /\ retest' = retest /\ cutUsers' = cutUsers
  OBVIOUS
<1>3. /\ tests' \subseteq Test /\ IsFiniteSet(tests') /\ n \notin tests \ {t}
      /\ HoldingTests' = (HoldingTests \ {t}) \cup (IF n.phase \in Holding THEN {n} ELSE {})
      /\ \A v, u \in tests' : v.c = u.c /\ v.kind = u.kind /\ v.copy = u.copy => v = u
      /\ \A v, u \in tests' : v.kind = "retest" /\ u.kind = "retest" => v = u
      /\ \A v \in tests' : (v.kind # "new" => v.tier = 2) /\ (v.kind = "retest" => retest' # <<>>)
      /\ IsFiniteSet(HoldingTests) /\ cutUsers = Cardinality(HoldingTests)
      /\ Cardinality(HoldingTests) \in Nat
  BY <1>1, <1>2, Moves
<1>4. /\ HoldingTests' = (HoldingTests \ {t}) \cup {n}
      /\ n \notin HoldingTests \ {t}
  BY <1>3 DEF HoldingTests
<1>5. cutUsers' = Cardinality(HoldingTests')
  <2>1. IsFiniteSet(HoldingTests \ {t}) /\ Cardinality(HoldingTests \ {t}) = cutUsers - 1
    BY <1>3, <1>4, FS_RemoveElement
  <2>2. Cardinality((HoldingTests \ {t}) \cup {n}) = cutUsers - 1 + 1
    BY <1>4, <2>1, FS_AddElement
  <2>3. cutUsers \in Nat
    BY <1>3
  <2> QED BY <1>2, <1>4, <2>2, <2>3
<1>6. CutInv /\ CutInv'
  BY <1>4 DEF IndInv, TestInv
<1>7. TestInv'
  BY <1>3, <1>5, <1>6 DEF TestInv
<1>8. mirror' \in {NoCopy} \cup 1 .. data
  BY <1>6 DEF CutInv
<1>9. Types'
  <2>1. /\ data' = data /\ moved' = moved
        /\ UNCHANGED <<up, row, best, kept, evals, retest, rescore, auditing, plan, stale, lost, marked>>
    BY DEF board
  <2> QED BY <1>3, <1>8, <2>1 DEF IndInv, Types
<1>10. DownInv'
  BY <1>1, <1>2 DEF IndInv, DownInv
<1> QED BY <1>7, <1>9, <1>10, RowFrame DEF IndInv

\* ... the copy it needs is there once it has built it, ...
LEMMA BuildMirrorInv == ASSUME IndInv, NEW t \in tests, BuildMirror(t) PROVE IndInv'
<1> DEFINE n == [t EXCEPT !.phase = "cut"]
<1>1. /\ n \in Test /\ n.c = t.c /\ n.kind = t.kind /\ n.copy = t.copy /\ n.tier = t.tier
      /\ n.phase = "cut" /\ n.phase \in Holding /\ n.sig = t.sig /\ t \in HoldingTests
  BY DEF IndInv, Types, Test, Holding, HoldingTests, BuildMirror
<1>2. /\ tests' = (tests \ {t}) \cup {n} /\ mirror' = t.sig
      /\ UNCHANGED <<up, board, kept, evals, retest, rescore, auditing, cutUsers, data, moved, plan,
                     history>>
  BY DEF BuildMirror, Goes
<1> HIDE DEF n
<1>3. CutInv /\ HoldingTests' = (HoldingTests \ {t}) \cup {n} => CutInv'
  BY <1>1, <1>2 DEF CutInv
<1> QED BY <1>1, <1>2, <1>3, StaysHolding

\* ... a copy is only removed half made when nobody reads one, or the data changed, ...
LEMMA BuildFailsInv == ASSUME IndInv, NEW t \in tests, BuildFails(t) PROVE IndInv'
<1> DEFINE n == [t EXCEPT !.phase = "broken"]
<1>1. /\ n \in Test /\ n.c = t.c /\ n.kind = t.kind /\ n.copy = t.copy /\ n.tier = t.tier
      /\ n.phase = "broken" /\ n.phase \in Holding /\ n.sig = t.sig /\ t \in HoldingTests
  BY DEF IndInv, Types, Test, Holding, HoldingTests, BuildFails
<1>2. /\ tests' = (tests \ {t}) \cup {n} /\ mirror' = NoCopy /\ mirror # t.sig
      /\ UNCHANGED <<up, board, kept, evals, retest, rescore, auditing, cutUsers, data, moved, plan,
                     history>>
  BY DEF BuildFails, Goes
<1> HIDE DEF n
<1>3. CutInv /\ HoldingTests' = (HoldingTests \ {t}) \cup {n} => CutInv'
  BY <1>1, <1>2 DEF CutInv
<1> QED BY <1>1, <1>2, <1>3, StaysHolding

\* ... data that changes under its users says so in moved, ...
LEMMA ChangeDataInv == ASSUME IndInv, ChangeData PROVE IndInv'
<1>1. /\ plan' \subseteq plan /\ data' = data + 1 /\ moved' = (moved \/ cutUsers > 0)
      /\ UNCHANGED <<up, board, kept, tasks, auditing, cutUsers, mirror, history>>
  BY DEF ChangeData
<1>2. HoldingTests' = HoldingTests /\ data \in Nat \ {NoCopy} /\ moved \in BOOLEAN /\ CutInv
  BY <1>1 DEF HoldingTests, IndInv, Types, TestInv
<1>3. cutUsers \in Nat /\ (cutUsers = 0 => HoldingTests = {})
  <2>1. IsFiniteSet(HoldingTests) /\ cutUsers = Cardinality(HoldingTests)
    BY FS_Subset DEF IndInv, TestInv, HoldingTests
  <2> QED BY <2>1, FS_CardinalityType, FS_EmptySet
<1>4. CutInv'
  <2>1. CASE cutUsers = 0
    BY <1>1, <1>2, <1>3, <2>1 DEF CutInv
  <2>2. CASE cutUsers # 0
    <3>1. cutUsers > 0 /\ cutUsers' = cutUsers /\ data' = data + 1
      BY <1>1, <1>3, <2>2
    <3>2. moved'
      BY <1>1, <3>1, Zenon
    <3>3. cutUsers' # 0
      BY <3>1, <2>2
    <3>4. 1 .. data \subseteq 1 .. data'
      BY <1>2, <3>1
    <3>5. \A t \in HoldingTests : t.sig \in 1 .. data
      BY <1>2 DEF CutInv
    <3>6. \A t \in HoldingTests' : t.sig \in 1 .. data'
      BY <1>2, <3>4, <3>5
    <3> QED BY <3>6, <3>2, <3>3 DEF CutInv
  <2> QED BY <2>1, <2>2
<1>5. TestInv'
  BY <1>1, <1>2, <1>4 DEF IndInv, TestInv
<1>6. Types' /\ DownInv'
  BY <1>1, <1>2, <1>3 DEF IndInv, Types, DownInv
<1> QED BY <1>1, <1>5, <1>6, RowFrame DEF IndInv

\* ... and between its tiers it is not counted.
LEMMA SecondTierInv == ASSUME IndInv, NEW t \in tests, SecondTier(t) PROVE IndInv'
<1> DEFINE n == [t EXCEPT !.tier = 2, !.phase = "between"]
<1>1. /\ n \in Test /\ n.c = t.c /\ n.kind = t.kind /\ n.copy = t.copy /\ n.tier = 2
      /\ n.phase = "between" /\ t.phase \in Holding /\ t \in Test
  BY DEF IndInv, Types, Test, Holding, SecondTier
<1>2. /\ tests' = (tests \ {t}) \cup {n} /\ Release
      /\ UNCHANGED <<up, board, kept, evals, retest, rescore, auditing, plan, history>>
  BY DEF SecondTier
<1> HIDE DEF n
<1>3. /\ tests' \subseteq Test /\ IsFiniteSet(tests') /\ n \notin tests \ {t}
      /\ HoldingTests' = (HoldingTests \ {t}) \cup (IF n.phase \in Holding THEN {n} ELSE {})
      /\ \A v, u \in tests' : v.c = u.c /\ v.kind = u.kind /\ v.copy = u.copy => v = u
      /\ \A v, u \in tests' : v.kind = "retest" /\ u.kind = "retest" => v = u
      /\ \A v \in tests' : (v.kind # "new" => v.tier = 2) /\ (v.kind = "retest" => retest' # <<>>)
  BY <1>1, <1>2, Moves
<1>4. HoldingTests' = HoldingTests \ {t} /\ t \in HoldingTests
  BY <1>1, <1>3 DEF HoldingTests, Holding
<1>5. /\ cutUsers' = Cardinality(HoldingTests') /\ CutInv'
      /\ data' = data /\ mirror' \in {NoCopy} \cup 1 .. data /\ moved' \in BOOLEAN
  BY <1>2, <1>4, Discards
<1>6. TestInv'
  BY <1>3, <1>5 DEF TestInv
<1>7. Types' /\ DownInv'
  BY <1>2, <1>3, <1>5 DEF IndInv, Types, DownInv
<1> QED BY <1>2, <1>6, <1>7, RowFrame DEF IndInv

\* _settle_lookahead, _finish_short_test and _retest judge.
LEMMA VerdictJudged ==
    ASSUME IndInv, NEW t \in tests, NEW v \in {"short", "pass", "fail", "error"}, MayAnswer(t, v)
    PROVE  /\ Settled(t, v) \in Boards /\ Finished(t, v) \in Boards
           /\ t.tier = 2 => Judged(Board, Retested(t, v)) /\ Judged(Board, Finished(t, v))
           /\ Judged(Board, Settled(t, v))
<1>1. /\ Board \in Boards /\ Board.row = row /\ Board.best = best /\ t \in Test
      /\ row \in [Cand -> Row] /\ t.c \in Cand /\ t.score \in 0 .. MaxScore /\ v \in Look
      /\ t.tier = 2 => v \notin Open
  BY SMTT(30), BoardType DEF IndInv, Types, Test, Look, MayAnswer, Open
<1>2. row[t.c].status \in Status /\ row[t.c].score \in 0 .. MaxScore
  BY <1>1 DEF Row
<1>3. Judged(Board, Settled(t, v))
  <2>1. CASE Exists(row, t.c) /\ row[t.c].look = "pending"
    <3>1. Judged(Board, Settle(Board, t.c, Board.row[t.c].status, row[t.c].score, v))
      BY <1>1, <1>2, <2>1, SettleJudged DEF Open
    <3> QED BY <1>1, <2>1, <3>1 DEF Settled
  <2>2. CASE ~(Exists(row, t.c) /\ row[t.c].look = "pending")
    BY <1>1, <2>2, JudgedSelf DEF Settled
  <2> QED BY <2>1, <2>2
<1>4. Finished(t, v) \in Boards
  BY <1>1, SettleType DEF Finished, Status
<1>5. ASSUME t.tier = 2 PROVE Judged(Board, Finished(t, v))
  <2>1. CASE v # "error" /\ Exists(row, t.c) /\ row[t.c].look = "short"
    <3>1. t.c \notin marked => Board.row[t.c].status = "ok"
      BY <1>1, <1>5, <2>1 DEF IndInv, RowInv, RowOf, Open
    <3>2. Judged(Board, Settle(Board, t.c, "ok", t.score, v))
      <4>1. "ok" \in Status
        BY DEF Status
      <4> QED BY <1>1, <1>5, <3>1, <4>1, SettleJudged
    <3> QED BY <2>1, <3>2 DEF Finished
  <2>2. CASE ~(v # "error" /\ Exists(row, t.c) /\ row[t.c].look = "short")
    BY <1>1, <2>2, JudgedSelf DEF Finished
  <2> QED BY <2>1, <2>2
<1>6. ASSUME t.tier = 2 PROVE Judged(Board, Retested(t, v))
  <2> DEFINE noted == Set(Board, t.c, "look", v)
             handed == IF best = t.c THEN HandOn(noted) ELSE noted
             swept == AutoQuarantine(handed, t.c)
             last == DisqualifyDependents(swept, {t.c})
  <2>1. Retested(t, v) \in {Board, noted, last}
    BY DEF Retested
  <2>6. Judged(Board, noted)
    BY <1>1, <1>6, SetJudged
  <2>2. Judged(Board, noted) /\ noted \in Boards
    BY <2>6 DEF Judged
  <2> HIDE DEF noted
  <2>3. Judged(Board, handed) /\ handed \in Boards
    <3>1. Judged(Board, HandOn(noted))
      BY <1>1, <2>2, HandOnJudged, JudgedTrans
    <3> QED BY <2>2, <3>1 DEF Judged
  <2> HIDE DEF handed
  <2>4. Judged(Board, swept) /\ swept \in Boards
    BY SMTT(30), <1>1, <2>3, QuarantineJudged, JudgedTrans DEF Judged
  <2> HIDE DEF swept
  <2>5. Judged(Board, last)
    BY <1>1, <2>4, DependentsJudged, JudgedTrans
  <2> QED BY <1>1, <2>1, <2>2, <2>5, JudgedSelf
<1> QED BY <1>3, <1>4, <1>5, <1>6 DEF Judged

\* A test that ends is one user less, and the head of the re-test list if it is the re-test.
LEMMA EndTestInv ==
    ASSUME IndInv, NEW t \in tests, NEW v \in {"short", "pass", "fail", "error"}, EndTest(t, v)
    PROVE  IndInv'
<1> DEFINE bd == CASE t.kind = "new" -> Settled(t, v)
                   [] t.kind = "finish" -> Finished(t, v)
                   [] OTHER -> Retested(t, v)
<1>1. /\ tests' = tests \ {t} /\ MayAnswer(t, v) /\ Release /\ Apply(bd)
      /\ retest' = IF t.kind = "retest" THEN Tail(retest) ELSE retest
      /\ kept' \subseteq kept
      /\ UNCHANGED <<up, evals, rescore, auditing, plan, history>>
  BY DEF EndTest
<1>2. /\ t \in Test /\ t \in HoldingTests
      /\ (t.kind # "new" => t.tier = 2) /\ (t.kind = "retest" => retest # <<>>)
  BY <1>1 DEF IndInv, Types, TestInv, MayAnswer, HoldingTests, Holding
<1>4. retest' \in Seq(Cand) /\ ToSet(retest') \subseteq ToSet(retest)
  <2>1. retest \in Seq(Cand)
    BY DEF IndInv, Types
  <2>2. CASE t.kind = "retest"
    <3>1. /\ Tail(retest) \in Seq(Cand) /\ Len(retest) \in Nat
          /\ Len(Tail(retest)) = Len(retest) - 1
          /\ \A i \in 1 .. Len(Tail(retest)) : Tail(retest)[i] = retest[i + 1]
      BY <1>2, <2>1, <2>2
    <3>2. ASSUME NEW i \in 1 .. Len(Tail(retest)) PROVE Tail(retest)[i] \in ToSet(retest)
      BY <2>1, <3>1, InToSet
    <3>3. ToSet(Tail(retest)) \subseteq ToSet(retest)
      BY <3>1, <3>2 DEF ToSet
    <3> QED BY <1>1, <2>2, <3>1, <3>3
  <2>3. CASE t.kind # "retest"
    BY <1>1, <2>1, <2>3
  <2> QED BY <2>2, <2>3
<1>5. Judged(Board, bd) /\ bd \in Boards
  <2>1. /\ Settled(t, v) \in Boards /\ Finished(t, v) \in Boards
        /\ t.tier = 2 => Judged(Board, Retested(t, v)) /\ Judged(Board, Finished(t, v))
        /\ Judged(Board, Settled(t, v))
    BY <1>1, VerdictJudged
  <2>2. \A b : Judged(Board, b) => b \in Boards
    BY DEF Judged
  <2>3. CASE t.kind = "new"
    BY <2>1, <2>3
  <2>4. CASE t.kind = "finish"
    BY <1>2, <2>1, <2>4
  <2>5. CASE t.kind \notin {"new", "finish"}
    BY <1>2, <2>1, <2>2, <2>5
  <2> QED BY <2>3, <2>4, <2>5
<1> HIDE DEF bd
<1>6. HoldingTests' = HoldingTests \ {t}
  BY <1>1 DEF HoldingTests
<1>7. /\ cutUsers' = Cardinality(HoldingTests') /\ CutInv'
      /\ data' = data /\ mirror' \in {NoCopy} \cup 1 .. data /\ moved' \in BOOLEAN
  BY <1>1, <1>2, <1>6, Discards
<1>8. TestInv'
  <2>1. IsFiniteSet(tests')
    BY <1>1, FS_RemoveElement DEF IndInv, TestInv
  <2>2. \A u \in tests' : (u.kind # "new" => u.tier = 2) /\ (u.kind = "retest" => retest' # <<>>)
    BY <1>1 DEF IndInv, TestInv
  <2> QED BY <1>1, <1>7, <2>1, <2>2 DEF IndInv, TestInv
<1>9. Types' /\ DownInv'
  BY <1>1, <1>4, <1>5, <1>7 DEF IndInv, Types, DownInv, Apply, Boards
<1>10. RowInv'
  BY <1>1, <1>4, <1>5, JudgedRows
<1> QED BY <1>8, <1>9, <1>10 DEF IndInv

\* The second half of a short test is a test like the others.
LEMMA FinishShortInv == ASSUME IndInv, NEW c \in Cand, FinishShort(c) PROVE IndInv'
<1>1. /\ tests' = Spawn(tests, c, "finish", row[c].score)
      /\ UNCHANGED <<up, board, kept, evals, retest, rescore, auditing, cutVars, plan, history>>
  BY DEF FinishShort
<1>2. row[c].score \in 0 .. MaxScore
  BY DEF IndInv, Types, Row
<1>3. tests' \subseteq Test /\ TestInv'
  BY <1>1, <1>2, SpawnTests DEF Kinds
<1>4. Types' /\ DownInv'
  BY <1>1, <1>3 DEF IndInv, Types, DownInv, FinishShort
<1> QED BY <1>1, <1>3, <1>4, RowFrame DEF IndInv

\* The re-test list is made of rows that rank: none of them is evaluating.
LEMMA StartRetestInv == ASSUME IndInv, StartRetest PROVE IndInv'
<1>1. /\ retest' \in InOrder(row, Ranked(row)) /\ retest = <<>> /\ up /\ plan' \subseteq plan
      /\ UNCHANGED <<up, board, kept, evals, tests, rescore, auditing, cutVars, history>>
  BY DEF StartRetest, Op
<1>2. retest' \in [1 .. Cardinality(Ranked(row)) -> Ranked(row)]
  BY <1>1 DEF InOrder
<1>3. Ranked(row) \in SUBSET Cand /\ \A c \in Ranked(row) : row[c].status = "ok"
  BY DEF Ranked
<1>4. Cardinality(Ranked(row)) \in Nat
  <2>1. IsFiniteSet(Cand)
    BY FS_Interval
  <2> QED BY <1>3, <2>1, FS_Subset, FS_CardinalityType
<1>5. retest' \in Seq(Cand) /\ \A c \in ToSet(retest') : c \in Ranked(row)
  <2> DEFINE n == Cardinality(Ranked(row))
             R == Ranked(row)
             s == retest'
  <2>1. s \in [1 .. n -> R] /\ n \in Nat /\ R \subseteq Cand
    BY <1>2, <1>3, <1>4
  <2> HIDE DEF n, R, s
  <2>2. s \in Seq(R) /\ s \in Seq(Cand)
    <3> HIDE DEF Cand
    <3>1. s \in [1 .. n -> Cand]
      BY <2>1
    <3> QED BY <2>1, <3>1
  <2>3. ToSet(s) \subseteq R
    BY <2>2, ElemsType
  <2> QED BY <2>2, <2>3 DEF s, R
<1>6. TestInv'
  BY <1>1 DEF IndInv, TestInv, HoldingTests, CutInv
<1>7. Types' /\ DownInv'
  BY <1>1, <1>5 DEF IndInv, Types, DownInv
<1>8. ASSUME NEW c \in Cand, c \notin marked' PROVE RowOf(c)'
  <2>1. RowOf(c)
    BY <1>1, <1>8 DEF IndInv, RowInv
  <2>2. c \in ToSet(retest') => row[c].status = "ok"
    BY <1>3, <1>5
  <2> QED BY <1>1, <2>1, <2>2 DEF RowOf, Exists
<1> QED BY <1>6, <1>7, <1>8 DEF IndInv, RowInv

\* One re-test at a time, of the head of the list
LEMMA NextRetestInv == ASSUME IndInv, NextRetest PROVE IndInv'
<1>1. /\ tests' = Spawn(tests, Head(retest), "retest", NoScore)
      /\ retest # <<>> /\ \A t \in tests : t.kind # "retest"
      /\ UNCHANGED <<up, board, kept, evals, retest, rescore, auditing, cutVars, plan, history>>
  BY DEF NextRetest
<1>2. Head(retest) \in Cand
  BY <1>1 DEF IndInv, Types
<1>3. tests' \subseteq Test /\ TestInv'
  BY <1>1, <1>2, SpawnTests DEF Kinds
<1>4. Types' /\ DownInv'
  BY <1>1, <1>3 DEF IndInv, Types, DownInv
<1> QED BY <1>1, <1>3, <1>4, RowFrame DEF IndInv

\* The re-test in flight is at most one: it is one user of the cut, or none.
LEMMA CancelRetestInv == ASSUME IndInv, CancelRetest PROVE IndInv'
<1> DEFINE flight == {t \in tests : t.kind = "retest"}
<1>1. /\ tests' = tests \ flight /\ retest' = <<>>
      /\ IF \E t \in flight : t.phase \in Holding THEN Release ELSE UNCHANGED cutVars
      /\ UNCHANGED <<up, board, kept, evals, rescore, auditing, plan, history>>
  BY DEF CancelRetest
<1>2. \A t, u \in flight : t = u
  BY DEF IndInv, TestInv
<1>3. IsFiniteSet(tests') /\ HoldingTests' = HoldingTests \ flight
  BY <1>1, FS_Subset DEF IndInv, TestInv, HoldingTests
<1>4. /\ cutUsers' = Cardinality(HoldingTests') /\ CutInv'
      /\ data' = data /\ mirror' \in {NoCopy} \cup 1 .. data /\ moved' \in BOOLEAN
  <2>1. CASE \E t \in flight : t.phase \in Holding
    <3>1. PICK t \in flight : t.phase \in Holding
      BY <2>1
    <3>2. t \in HoldingTests /\ flight = {t}
      BY <1>2, <3>1 DEF HoldingTests
    <3> HIDE DEF flight
    <3>3. Release /\ HoldingTests' = HoldingTests \ {t}
      BY <1>1, <1>3, <2>1, <3>2
    <3> QED BY <3>2, <3>3, Discards
  <2>2. CASE ~\E t \in flight : t.phase \in Holding
    <3>1. HoldingTests' = HoldingTests
      BY <1>3, <2>2 DEF HoldingTests
    <3> QED BY <1>1, <2>2, <3>1 DEF IndInv, TestInv, Types, CutInv
  <2> QED BY <2>1, <2>2
<1>6. TestInv'
  BY <1>1, <1>3, <1>4 DEF IndInv, TestInv
<1>7. retest' \in Seq(Cand) /\ ToSet(retest') = {}
  BY <1>1, EmptyElems
<1> HIDE DEF flight
<1>8. Types' /\ DownInv'
  BY <1>1, <1>4, <1>7 DEF IndInv, Types, DownInv, CancelRetest
<1>9. RowInv'
  BY <1>1, <1>7, RowFrame DEF IndInv
<1> QED BY <1>6, <1>8, <1>9 DEF IndInv

-----------------------------------------------------------------------------
(* Audits and the operator *)

\* Actions that judge the board and touch nothing else of the invariant
LEMMA JudgementInv ==
    ASSUME IndInv, NEW bd, Judged(Board, bd), Apply(bd), auditing' \subseteq Cand,
           plan' \subseteq plan, UNCHANGED <<up, kept, tasks, cutVars, history>>
    PROVE  IndInv'
<1>1. row' \in [Cand -> Row] /\ best' \in Cand \cup {NoCand} /\ RowInv'
  BY JudgedRows
<1>2. TestInv' /\ DownInv'
  BY TestFrame DEF IndInv, DownInv
<1>3. Types'
  BY <1>1 DEF IndInv, Types
<1> QED BY <1>1, <1>2, <1>3 DEF IndInv

\* Leasing an audit, having it run, and an auditor that dies touch only the audit column.
LEMMA AuditsInv ==
    ASSUME IndInv, NEW c \in Cand, LeaseAudit(c) \/ RunAudit(c) \/ AuditorFails(c)
    PROVE  IndInv'
<1>1. Board \in Boards /\ Board.row = row /\ Board.best = best
  BY BoardType DEF IndInv
<1>2. /\ auditing' \subseteq Cand /\ plan' \subseteq plan
      /\ UNCHANGED <<up, kept, tasks, cutVars, history>>
  BY DEF LeaseAudit, RunAudit, AuditorFails, Audits, Op, IndInv, Types
<1>3. CASE RunAudit(c)
  <2>1. Apply(Set(Board, c, "audit", "pending")) /\ Judged(Board, Set(Board, c, "audit", "pending"))
    BY <1>1, <1>3, SetJudged DEF RunAudit
  <2> QED BY <1>2, <2>1, JudgementInv
<1>4. CASE LeaseAudit(c) \/ AuditorFails(c)
  <2>1. Apply(Board)
    BY <1>1, <1>4 DEF LeaseAudit, AuditorFails, Apply
  <2> QED BY <1>1, <1>2, <2>1, JudgedSelf, JudgementInv
<1> QED BY <1>3, <1>4

\* A verdict that is late: a passing one crowns whatever row still has a score.
LEMMA AuditVerdictInv ==
    ASSUME IndInv, NEW c \in Cand, NEW passed \in BOOLEAN, AuditVerdict(c, passed)
    PROVE  IndInv'
<1> DEFINE noted == Set(Board, c, "audit", IF passed THEN "pass" ELSE "fail")
           crowned == [noted EXCEPT !.best = c]
           last == DisqualifyDependents(AutoQuarantine(noted, c), {c})
<1>1. Board \in Boards /\ Board.row = row /\ Board.best = best /\ row \in [Cand -> Row]
  BY BoardType DEF IndInv, Types
<1>2. /\ auditing' \subseteq Cand /\ plan' \subseteq plan
      /\ UNCHANGED <<up, kept, tasks, cutVars, history>>
  BY DEF AuditVerdict, Audits, IndInv, Types
<1>3. \/ Apply(Board) \/ Apply(noted) \/ Apply(last)
      \/ Apply(crowned) /\ Better(row[c].score, ScoreOf(row, best))
  <2>1. CASE ~Exists(row, c)
    BY <2>1 DEF AuditVerdict
  <2>2. CASE Exists(row, c) /\ passed
    BY <2>2 DEF AuditVerdict
  <2>3. CASE Exists(row, c) /\ ~passed
    BY <2>3 DEF AuditVerdict
  <2> QED BY <2>1, <2>2, <2>3
<1>4. Judged(Board, noted)
  BY <1>1, SetJudged
<1>5. noted \in Boards
  BY <1>4 DEF Judged
<1> HIDE DEF noted
<1>6. Judged(Board, last)
  <2>1. Judged(Board, AutoQuarantine(noted, c))
    BY <1>1, <1>4, <1>5, QuarantineJudged, JudgedTrans
  <2>2. AutoQuarantine(noted, c) \in Boards
    BY <2>1 DEF Judged
  <2> QED BY <1>1, <2>1, <2>2, DependentsJudged, JudgedTrans
<1> HIDE DEF last
<1>7. CASE Apply(Board) \/ Apply(noted) \/ Apply(last)
  BY <1>1, <1>2, <1>4, <1>6, <1>7, JudgedSelf, JudgementInv
<1>8. CASE Apply(crowned) /\ Better(row[c].score, ScoreOf(row, best))
  <2>1. crowned \in Boards /\ crowned.row = noted.row /\ crowned.best = c
    BY <1>5 DEF Boards
  <2>2. row' = noted.row /\ best' = c
    BY <1>8, <2>1 DEF Apply
  <2>3. Types' /\ TestInv' /\ DownInv'
    BY <1>2, <1>5, <2>2, TestFrame DEF IndInv, Types, DownInv, Boards
  <2>4. ASSUME NEW d \in Cand, d \notin marked' PROVE RowOf(d)'
    <3>1. RowOf(d) /\ d \notin marked
      BY <1>2, <2>4 DEF IndInv, RowInv
    <3>2. /\ row'[d].status = row[d].status
          /\ row'[d].look \in Open => row[d].look \in Open
          /\ row'[d].score # NoScore => row[d].score # NoScore \/ row[d].status = "ok"
      BY <1>1, <1>4, <2>2, <3>1 DEF Judged
    <3>3. row[c].score # NoScore
      BY <1>8 DEF Better
    <3>4. best' = d /\ ~stale' => row[d].status = "ok"
      BY <1>2, <2>2, <3>1, <3>3 DEF RowOf
    <3> QED BY <1>2, <3>1, <3>2, <3>4, RowKept
  <2> QED BY <2>3, <2>4 DEF IndInv, RowInv
<1> QED BY <1>3, <1>7, <1>8

\* Demoting a candidate and retiring a module are judgements.
LEMMA OperatorInv ==
    ASSUME IndInv,
           RetireModules \/ \E c \in Cand : \E quarantine \in BOOLEAN : Demote(c, quarantine)
    PROVE  IndInv'
<1>1. Board \in Boards /\ Board.row = row /\ Board.best = best
  BY BoardType DEF IndInv
<1>2. CASE RetireModules
  <2>1. Judged(Board, Cascade(Board, NoCand)) /\ Apply(Cascade(Board, NoCand))
    BY <1>1, <1>2, CascadeJudged DEF RetireModules
  <2>2. /\ auditing' \subseteq Cand /\ plan' \subseteq plan
        /\ UNCHANGED <<up, kept, tasks, cutVars, history>>
    BY <1>2 DEF RetireModules, Op, IndInv, Types
  <2> QED BY <2>1, <2>2, JudgementInv
<1>3. ASSUME NEW c \in Cand, NEW quarantine \in BOOLEAN, Demote(c, quarantine) PROVE IndInv'
  <2> DEFINE failed == FailAudit(Board, {c})
             handed == IF best = c THEN HandOn(failed) ELSE failed
             swept == IF quarantine THEN AutoQuarantine(handed, c) ELSE handed
             last == DisqualifyDependents(swept, {c})
  <2>1. Apply(last)
    BY <1>3 DEF Demote
  <2>2. Judged(Board, failed) /\ failed \in Boards
    BY <1>1, FailJudged DEF Judged
  <2> HIDE DEF failed
  <2>3. Judged(Board, handed) /\ handed \in Boards
    <3>1. Judged(Board, HandOn(failed))
      BY <1>1, <2>2, HandOnJudged, JudgedTrans
    <3> QED BY <2>2, <3>1 DEF Judged
  <2> HIDE DEF handed
  <2>4. Judged(Board, swept) /\ swept \in Boards
    <3>1. Judged(Board, AutoQuarantine(handed, c))
      BY <1>1, <2>3, QuarantineJudged, JudgedTrans
    <3> QED BY <2>3, <3>1 DEF Judged
  <2> HIDE DEF swept
  <2>5. Judged(Board, last)
    BY <1>1, <2>4, DependentsJudged, JudgedTrans
  <2> HIDE DEF last
  <2>6. /\ auditing' \subseteq Cand /\ plan' \subseteq plan
        /\ UNCHANGED <<up, kept, tasks, cutVars, history>>
    BY <1>3 DEF Demote, Op, IndInv, Types
  <2> QED BY <2>1, <2>5, <2>6, JudgementInv
<1> QED BY <1>2, <1>3

\* The deleted row is on no list, and if it held the title somebody else gets it.
LEMMA DeleteInv == ASSUME IndInv, NEW c \in Cand, Delete(c) PROVE IndInv'
<1> DEFINE gone == [Blank EXCEPT !.status = "gone"]
           left == [Board EXCEPT !.row[c] = gone]
           handed == IF best # NoCand /\ ~Exists(left.row, best) THEN HandOn(left) ELSE left
<1>1. /\ Apply(handed) /\ Exists(row, c) /\ row[c].status # "evaluating" /\ c \notin ToSet(retest)
      /\ UNCHANGED <<up, kept, tasks, auditing, cutVars, history>> /\ plan' \subseteq plan
  BY DEF Delete, MayDelete, Op
<1>2. gone \in Row /\ gone.status = "gone" /\ gone.look = "skipped" /\ gone.score = NoScore
  BY DEF Blank, Row, Status, Look
<1>3. Board \in Boards /\ Board.row = row /\ Board.best = best /\ row \in [Cand -> Row]
  BY BoardType DEF IndInv, Types
<1> HIDE DEF gone
<1>4. /\ left \in Boards /\ left.best = best /\ left.row[c] = gone
      /\ \A d \in Cand : d # c => left.row[d] = row[d]
  BY <1>2, <1>3 DEF Boards
<1> HIDE DEF left
<1>5. Judged(left, handed) /\ handed \in Boards
  BY <1>4, HandOnJudged, JudgedSelf DEF Judged
<1>7. \/ handed.best = NoCand \/ handed.row[handed.best].status = "ok"
      \/ handed.best = best /\ Exists(left.row, best)
  <2>1. CASE best # NoCand /\ ~Exists(left.row, best)
    <3>1. First(left.row, Ranked(left.row)) \in Ranked(left.row) \cup {NoCand}
      <4>1. left.row \in [Cand -> Row] /\ Ranked(left.row) \in SUBSET Cand
        BY <1>4 DEF Boards, Ranked
      <4> QED BY <4>1, FirstIn
    <3>2. handed.row = left.row /\ handed.best = First(left.row, Ranked(left.row))
      BY <1>4, <2>1 DEF HandOn, Boards
    <3>3. \A d \in Ranked(left.row) : left.row[d].status = "ok"
      BY DEF Ranked
    <3> QED BY <3>1, <3>2, <3>3
  <2>2. CASE ~(best # NoCand /\ ~Exists(left.row, best))
    BY <1>4, <2>2
  <2> QED BY <2>1, <2>2
<1> HIDE DEF handed
<1>8. row' = handed.row /\ best' = handed.best
  BY <1>1 DEF Apply
<1>9. Types' /\ TestInv' /\ DownInv'
  BY <1>1, <1>5, <1>8, TestFrame DEF IndInv, Types, DownInv, Boards
<1>10. ASSUME NEW d \in Cand, d \notin marked' PROVE RowOf(d)'
  <2>1. RowOf(d) /\ d \notin marked
    BY <1>1, <1>10 DEF IndInv, RowInv
  <2>2. /\ row'[d].status = left.row[d].status
        /\ row'[d].look \in Open => left.row[d].look \in Open
        /\ row'[d].score # NoScore => left.row[d].score # NoScore \/ left.row[d].status = "ok"
    BY <1>5, <1>8, <2>1 DEF Judged
  <2>3. best' = d => (best = d /\ Exists(left.row, d)) \/ row'[d].status = "ok"
    BY <1>7, <1>8
  <2>4. CASE d # c
    BY <1>1, <1>4, <2>1, <2>2, <2>3, <2>4, RowKept
  <2>5. CASE d = c
    <3>1. /\ row'[d].status = "gone" /\ row'[d].look \notin Open /\ row'[d].score = NoScore
          /\ best' # d
      BY <1>2, <1>4, <2>2, <2>3, <2>5 DEF Open, Exists
    <3>2. d \notin ToSet(retest') /\ \A e \in evals' : e[1] # d
      BY <1>1, <2>1, <2>5 DEF RowOf
    <3> QED BY <3>1, <3>2 DEF RowOf
  <2> QED BY <2>4, <2>5
<1> QED BY <1>9, <1>10 DEF IndInv, RowInv

-----------------------------------------------------------------------------
(* The rescoring thread, the end of the process and its restart *)

\* The thread notes which rows are scored, ...
LEMMA RescoreReadInv == ASSUME IndInv, RescoreRead PROVE IndInv'
<1>1. /\ rescore' = [Idle EXCEPT !.step = "write", !.ids = {c \in Cand : row[c].status = "ok"}]
      /\ up /\ plan' \subseteq plan
      /\ UNCHANGED <<up, kept, evals, tests, retest, auditing, cutVars, board, history>>
  BY DEF RescoreRead, Thread, Op
<1>2. rescore' \in Rescoring
  BY <1>1 DEF Idle, Rescoring
<1>3. Types' /\ TestInv' /\ DownInv'
  BY <1>1, <1>2, TestFrame DEF IndInv, Types, DownInv
<1> QED BY <1>1, <1>3, RowFrame DEF IndInv

\* A rescoring that writes a score to a row that is no longer scored says so in stale.
LEMMA RescoreWriteInv == ASSUME IndInv, RescoreWrite PROVE IndInv'
<1>1. PICK s \in [rescore.ids -> {NoScore} \cup 1 .. MaxScore] :
          row' = [c \in Cand |-> IF c \in rescore.ids /\ Exists(row, c)
                                 THEN [row[c] EXCEPT !.score = s[c]] ELSE row[c]]
  BY DEF RescoreWrite
<1>2. /\ rescore.step = "write" /\ rescore' = [rescore EXCEPT !.step = "rank", !.ids = {}]
      /\ stale' = (stale \/ \E c \in rescore.ids : row[c].status # "ok")
      /\ UNCHANGED <<up, kept, evals, tests, retest, auditing, cutVars, best, plan, lost, marked>>
  BY DEF RescoreWrite, Thread
<1>3. /\ row' \in [Cand -> Row]
      /\ \A c \in Cand : row'[c].status = row[c].status /\ row'[c].look = row[c].look
      /\ \A c \in Cand : row'[c].score # row[c].score => c \in rescore.ids
  <2>1. row \in [Cand -> Row]
    BY DEF IndInv, Types
  <2>2. ASSUME NEW c \in Cand, c \in rescore.ids, Exists(row, c)
        PROVE  /\ row'[c] \in Row
               /\ row'[c].status = row[c].status /\ row'[c].look = row[c].look
    <3>1. s[c] \in 0 .. MaxScore
      BY <2>2
    <3>2. row'[c] = [row[c] EXCEPT !.score = s[c]]
      BY <1>1, <2>2
    <3>3. row[c] \in Row
      BY <2>1
    <3>4. /\ [row[c] EXCEPT !.score = s[c]] \in Row
          /\ [row[c] EXCEPT !.score = s[c]].status = row[c].status
          /\ [row[c] EXCEPT !.score = s[c]].look = row[c].look
      BY <3>1, <3>3 DEF Row
    <3> QED BY <3>2, <3>4
  <2>3. \A c \in Cand : ~(c \in rescore.ids /\ Exists(row, c)) => row'[c] = row[c]
    BY <1>1
  <2>4. row' = [c \in Cand |-> row'[c]]
    BY <1>1
  <2>5. \A c \in Cand : row'[c] \in Row
    BY <2>1, <2>2, <2>3
  <2>6. row' \in [Cand -> Row]
    BY <2>4, <2>5
  <2> QED BY <2>2, <2>3, <2>6
<1>4. rescore' \in Rescoring /\ stale' \in BOOLEAN /\ rescore.ids \subseteq Cand
  BY <1>2 DEF IndInv, Types, Rescoring
<1>5. up
  BY <1>2 DEF IndInv, DownInv, Idle
<1>6. Types' /\ TestInv' /\ DownInv'
  BY <1>2, <1>3, <1>4, <1>5, TestFrame DEF IndInv, Types, DownInv
<1>7. ASSUME NEW c \in Cand, c \notin marked' PROVE RowOf(c)'
  <2>1. RowOf(c)
    BY <1>2, <1>7 DEF IndInv, RowInv
  <2>2. ~stale' => ~stale /\ \A d \in rescore.ids : row[d].status = "ok"
    BY <1>2
  <2>3. row'[c].score # NoScore /\ ~stale' => row[c].score # NoScore \/ row[c].status = "ok"
    BY <1>3, <2>2
  <2> QED BY <1>2, <1>3, <2>1, <2>2, <2>3, RowKept
<1> QED BY <1>6, <1>7 DEF IndInv, RowInv

\* ... later reads the ranking, ...
LEMMA RescoreRankInv == ASSUME IndInv, RescoreRank PROVE IndInv'
<1> DEFINE passed == {c \in Ranked(row) : row[c].look = "pass"}
           champ == First(row, {c \in passed : row[c].audit = "pass" \/ ~RequireAudit})
           top == First(row, passed)
<1>1. /\ \E a \in {champ, NoCand}, b \in {top, NoCand} :
             rescore' = [rescore EXCEPT !.step = "crown", !.champ = a, !.top = b]
      /\ rescore.step = "rank"
      /\ UNCHANGED <<up, kept, evals, tests, retest, auditing, cutVars, board, plan, history>>
  BY DEF RescoreRank, Thread
<1>2. champ \in Cand \cup {NoCand} /\ top \in Cand \cup {NoCand}
  <2>1. /\ passed \in SUBSET Cand
        /\ {c \in passed : row[c].audit = "pass" \/ ~RequireAudit} \in SUBSET Cand
    BY DEF Ranked
  <2>2. row \in [Cand -> Row]
    BY DEF IndInv, Types
  <2> HIDE DEF passed
  <2> QED BY <2>1, <2>2, FirstIn
<1> HIDE DEF champ, top
<1>3. rescore' \in Rescoring /\ up
  <2>1. PICK a \in {champ, NoCand}, b \in {top, NoCand} :
            rescore' = [rescore EXCEPT !.step = "crown", !.champ = a, !.top = b]
    BY <1>1
  <2>2. a \in Cand \cup {NoCand} /\ b \in Cand \cup {NoCand} /\ rescore \in Rescoring
    BY <1>2 DEF IndInv, Types
  <2>3. rescore' \in Rescoring
    BY <2>1, <2>2 DEF Rescoring
  <2> QED BY <1>1, <2>3 DEF IndInv, DownInv, Idle
<1>4. Types' /\ TestInv' /\ DownInv'
  BY <1>1, <1>3, TestFrame DEF IndInv, Types, DownInv
<1> QED BY <1>1, <1>4, RowFrame DEF IndInv

\* ... and then crowns a row that may have changed: then stale says so.
LEMMA RescoreCrownInv == ASSUME IndInv, RescoreCrown PROVE IndInv'
<1> DEFINE crowned == IF rescore.champ = NoCand THEN Board
                      ELSE [Board EXCEPT !.best = rescore.champ]
           last == IF rescore.top = NoCand THEN crowned
                   ELSE Set(crowned, rescore.top, "audit", "pending")
<1>1. /\ rescore.step = "crown" /\ rescore' = Idle /\ Apply(last)
      /\ stale' = (stale \/ (rescore.champ # NoCand /\ row[rescore.champ].status # "ok"))
      /\ UNCHANGED <<up, kept, evals, tests, retest, auditing, cutVars, plan, lost, marked>>
  BY DEF RescoreCrown, Thread
<1>2. /\ Board \in Boards /\ Board.row = row /\ Board.best = best /\ row \in [Cand -> Row]
      /\ rescore.champ \in Cand \cup {NoCand} /\ rescore.top \in Cand \cup {NoCand}
  BY BoardType DEF IndInv, Types, Rescoring
<1>3. /\ crowned \in Boards /\ crowned.row = row
      /\ crowned.best = IF rescore.champ = NoCand THEN best ELSE rescore.champ
  BY <1>2 DEF Boards
<1> HIDE DEF crowned
<1>4. Judged(crowned, last) /\ last.best = crowned.best
  BY <1>2, <1>3, SetJudged, JudgedSelf
<1> HIDE DEF last
<1>5. /\ last \in Boards /\ row' = last.row /\ best' = crowned.best
      /\ \A c \in Cand : c \notin marked =>
           /\ row'[c].status = row[c].status
           /\ row'[c].look \in Open => row[c].look \in Open
           /\ row'[c].score = NoScore \/ row[c].score # NoScore \/ row[c].status = "ok"
  BY <1>1, <1>3, <1>4 DEF Judged, Apply
<1>6. rescore' \in Rescoring /\ stale' \in BOOLEAN /\ up
  BY <1>1 DEF IndInv, Types, DownInv, Idle, Rescoring
<1>7. Types' /\ TestInv' /\ DownInv'
  BY <1>1, <1>3, <1>5, <1>6, TestFrame DEF IndInv, Types, DownInv, Boards
<1>8. ASSUME NEW c \in Cand, c \notin marked' PROVE RowOf(c)'
  <2>1. RowOf(c) /\ c \notin marked
    BY <1>1, <1>8 DEF IndInv, RowInv
  <2>2. ~stale' => ~stale /\ (rescore.champ # NoCand => row[rescore.champ].status = "ok")
    BY <1>1
  <2>3. best' = c /\ ~stale' => best = c \/ row[c].status = "ok"
    BY <1>3, <1>5, <2>2
  <2> QED BY <1>1, <1>5, <2>1, <2>2, <2>3, RowKept
<1> QED BY <1>7, <1>8 DEF IndInv, RowInv

\* What a crash drops holds no cut any more.
LEMMA CrashInv == ASSUME IndInv, Crash PROVE IndInv'
<1>1. /\ ~up' /\ up' \in BOOLEAN /\ evals' = {} /\ tests' = {} /\ retest' = <<>> /\ rescore' = Idle
      /\ cutUsers' = 0 /\ moved' = FALSE /\ lost' = {} /\ mirror' \in {mirror, NoCopy}
      /\ plan' \subseteq plan /\ UNCHANGED <<board, kept, auditing, data, stale, marked>>
  BY DEF Crash, Op
<1>2. Idle \in Rescoring /\ retest' \in Seq(Cand) /\ ToSet(retest') = {}
  BY <1>1, EmptyElems DEF Idle, Rescoring
<1>3. TestInv'
  BY <1>1, FS_EmptySet DEF TestInv, HoldingTests, CutInv
<1>4. Types' /\ DownInv'
  BY <1>1, <1>2 DEF IndInv, Types, DownInv
<1>5. ASSUME NEW c \in Cand, c \notin marked' PROVE RowOf(c)'
  BY <1>1, <1>2, <1>5, RowKept DEF IndInv, RowInv
<1> QED BY <1>3, <1>4, <1>5 DEF IndInv, RowInv

\* What waited for a verdict is tested again, each candidate once; what was evaluating is not.
LEMMA RestartInv == ASSUME IndInv, Restart PROVE IndInv'
<1> DEFINE new(c) == [c |-> c, kind |-> "new", tier |-> 1, phase |-> "queued", score |-> NoScore,
                      sig |-> NoCopy, copy |-> 0]
<1>0. PICK waiting \in SUBSET {c \in kept : Resumable(c)} :
         /\ row' = [c \in Cand |-> IF Resumable(c) /\ c \notin waiting
                                   THEN [row[c] EXCEPT !.look = "error"] ELSE Interrupted(row[c])]
         /\ tests' = {new(c) : c \in waiting}
  BY DEF Restart
<1>1. /\ row' = [c \in Cand |-> IF Resumable(c) /\ c \notin waiting
                               THEN [row[c] EXCEPT !.look = "error"] ELSE Interrupted(row[c])]
      /\ tests' = {new(c) : c \in waiting} /\ ~up /\ up' = TRUE
      /\ waiting \subseteq kept
      /\ UNCHANGED <<best, kept, evals, retest, rescore, auditing, cutVars, plan, history>>
  BY <1>0 DEF Restart
<1>2. evals = {} /\ tests = {} /\ retest = <<>>
  BY <1>1 DEF IndInv, DownInv
<1>3. /\ row' \in [Cand -> Row]
      /\ \A c \in Cand : /\ row'[c].score = row[c].score
                         /\ row[c].status = "ok" => row'[c].status = "ok"
                         /\ row'[c].status # row[c].status =>
                                row'[c].status = "error" /\ row[c].status = "evaluating"
                         /\ row'[c].look \in Open => row[c].look \in Open
  <2>1. row \in [Cand -> Row] /\ DOMAIN row' = Cand /\ row' = [c \in Cand |-> row'[c]]
    BY <1>1 DEF IndInv, Types
  <2>2. ASSUME NEW c \in Cand
        PROVE  /\ row'[c] \in Row /\ row'[c].score = row[c].score
               /\ row[c].status = "ok" => row'[c].status = "ok"
               /\ row'[c].status # row[c].status =>
                      row'[c].status = "error" /\ row[c].status = "evaluating"
               /\ row'[c].look \in Open => row[c].look \in Open
    <3> DEFINE q == row[c]
    <3>1. q \in Row
      BY <2>1
    <3> HIDE DEF q
    <3>2. CASE row'[c] = [q EXCEPT !.look = "error"]
      <4>1. /\ row'[c] \in Row /\ row'[c].score = q.score /\ row'[c].status = q.status
            /\ row'[c].look = "error"
        BY <3>1, <3>2 DEF Row, Look
      <4> QED BY <4>1 DEF q, Open
    <3>3. CASE row'[c] = Interrupted(q)
      <4> DEFINE status == IF q.status = "evaluating" THEN "error" ELSE q.status
                 look == IF q.look = "pending" /\ status # "ok" THEN "error" ELSE q.look
      <4>1. row'[c] = [q EXCEPT !.status = status, !.look = look]
        BY <3>1, <3>3 DEF Interrupted, Row
      <4>2. status \in Status /\ look \in Look
        BY <3>1 DEF Row, Status, Look
      <4>3. /\ q.status = "ok" => status = "ok"
            /\ status # q.status => status = "error" /\ q.status = "evaluating"
            /\ look \in Open => q.look \in Open
        BY DEF Open
      <4> HIDE DEF status, look
      <4>4. /\ row'[c] \in Row /\ row'[c].score = q.score /\ row'[c].status = status
            /\ row'[c].look = look
        BY <3>1, <4>1, <4>2 DEF Row
      <4> QED BY <4>3, <4>4 DEF q
    <3>4. row'[c] = [q EXCEPT !.look = "error"] \/ row'[c] = Interrupted(q)
      BY <1>1 DEF q
    <3> QED BY <3>2, <3>3, <3>4
  <2> QED BY <2>1, <2>2
<1>4. /\ tests' \subseteq Test
      /\ \A t \in tests' : t.phase = "queued" /\ t.kind = "new" /\ t = new(t.c)
  BY <1>1 DEF IndInv, Types, Test, Kinds, Holding
<1>5. IsFiniteSet(tests')
  <2>1. IsFiniteSet(waiting)
    <3>1. IsFiniteSet(Cand)
      BY FS_Interval
    <3>2. waiting \subseteq Cand
      BY <1>1 DEF IndInv, Types
    <3> HIDE DEF Cand
    <3> QED BY <3>1, <3>2, FS_Subset
  <2>2. [c \in waiting |-> new(c)] \in Surjection(waiting, tests')
    BY <1>1 DEF Surjection
  <2> QED BY <2>1, <2>2, FS_Surjection
<1>6. HoldingTests = {} /\ HoldingTests' = {}
  BY <1>2, <1>4 DEF HoldingTests, Holding
<1>7. cutUsers' = Cardinality(HoldingTests') /\ CutInv'
  BY <1>1, <1>6 DEF IndInv, TestInv, CutInv
<1>8. \A t, u \in tests' : t.c = u.c => t = u
  BY <1>4
<1>9. TestInv'
  BY <1>4, <1>5, <1>7, <1>8 DEF TestInv
<1>10. Types' /\ DownInv'
  BY <1>1, <1>3, <1>4 DEF IndInv, Types, DownInv
<1>11. ASSUME NEW c \in Cand, c \notin marked' PROVE RowOf(c)'
  <2>1. RowOf(c)
    BY <1>1, <1>11 DEF IndInv, RowInv
  <2>2. ToSet(retest') = {} /\ evals' = {}
    BY <1>1, <1>2, EmptyElems
  <2> QED BY <1>1, <1>3, <2>1, <2>2 DEF RowOf
<1> QED BY <1>9, <1>10, <1>11 DEF IndInv, RowInv

-----------------------------------------------------------------------------
(* Theorems *)

\* The empty board
LEMMA InitInv == ASSUME Init PROVE IndInv
<1>1. Types
  <2>1. row \in [Cand -> Row]
    BY DEF Init, Blank, Row, Status, Look
  <2>2. retest \in Seq(Cand) /\ evals \subseteq Cand \X BOOLEAN /\ tests \subseteq Test
    BY DEF Init
  <2>3. rescore \in Rescoring
    BY DEF Init, Idle, Rescoring
  <2>4. plan \subseteq Events
    BY DEF Init
  <2>5. data \in Nat \ {NoCopy} /\ mirror \in {NoCopy} \cup 1 .. data
    BY DEF Init
  <2>6. up \in BOOLEAN /\ stale \in BOOLEAN /\ moved \in BOOLEAN
    BY DEF Init
  <2>7. /\ best \in Cand \cup {NoCand} /\ kept \subseteq Cand /\ auditing \subseteq Cand
        /\ lost \subseteq Cand /\ marked \subseteq Cand
    BY DEF Init
  <2> QED BY <2>1, <2>2, <2>3, <2>4, <2>5, <2>6, <2>7 DEF Types
<1>2. TestInv /\ DownInv
  BY FS_EmptySet DEF Init, TestInv, DownInv, HoldingTests, CutInv
<1>3. RowInv
  BY EmptyElems DEF Init, RowInv, RowOf, Open, Blank
<1> QED BY <1>1, <1>2, <1>3 DEF IndInv

\* The inductive invariant: whatever is evaluated, tested, audited, deleted or restarted.
THEOREM Inductive == Spec => []IndInv
<1>1. IndInv /\ [Next]_vars => IndInv'
  <2> SUFFICES ASSUME IndInv, [Next]_vars PROVE IndInv'
    OBVIOUS
  <2>1. ASSUME NEW c \in Cand,
               \/ Submit(c) \/ Rerun(c) \/ Evaluate(c) \/ FinishShort(c)
               \/ LeaseAudit(c) \/ RunAudit(c) \/ AuditorFails(c)
               \/ \E passed \in BOOLEAN : AuditVerdict(c, passed)
               \/ \E quarantine \in BOOLEAN : Demote(c, quarantine)
               \/ Delete(c)
        PROVE  IndInv'
    <3>1. CASE Evaluate(c)
      BY <3>1, EvalScoresInv, EvalFailsInv, EvalCrashesInv, EvalLostInv, SandboxDownInv
         DEF Evaluate
    <3> QED BY <2>1, <3>1, SubmitInv, RerunInv, FinishShortInv, AuditsInv, AuditVerdictInv,
               OperatorInv, DeleteInv
  <2>2. ASSUME NEW t \in tests, TestStep(t) PROVE IndInv'
    <3>1. ASSUME NEW v \in {"short", "pass", "fail", "error"}, EndTest(t, v) PROVE IndInv'
      BY <3>1, EndTestInv
    <3> QED BY <2>2, <3>1, BeginCutInv, BuildMirrorInv, BuildFailsInv, SecondTierInv
           DEF TestStep
  <2>3. CASE StartRetest \/ NextRetest \/ CancelRetest \/ RetireModules
    BY <2>3, StartRetestInv, NextRetestInv, CancelRetestInv, OperatorInv
  <2>4. CASE RescoreRead \/ Rescore \/ Crash \/ Restart \/ ChangeData
    BY <2>4, RescoreReadInv, RescoreWriteInv, RescoreRankInv, RescoreCrownInv, CrashInv, RestartInv,
       ChangeDataInv DEF Rescore
  <2>5. CASE UNCHANGED vars
    <3>1. Types' /\ TestInv' /\ DownInv'
      BY <2>5, TestFrame DEF vars, IndInv, Types, DownInv
    <3> QED BY <2>5, <3>1, RowFrame DEF vars, IndInv
  <2> QED BY <2>1, <2>2, <2>3, <2>4, <2>5 DEF Next
<1> QED BY <1>1, InitInv, PTL DEF Spec

\* Every variable keeps its type and _cut_users counts the tests that hold the cut.
THEOREM TypeCorrect == Spec => []TypeOK
<1>1. IndInv => TypeOK
  BY DEF IndInv, Types, TestInv, TypeOK, HoldingTests, Row, Status, Look, Test
<1> QED BY <1>1, Inductive, PTL

\* "The last user deletes them": however many tests share the truncated copy, and in whatever
\* order they build it, fail to, end, are cancelled or cross a restart, none of them finds it gone
\* or replaced, as long as the data folder does not change under them.
THEOREM CutIsThere == Spec => []CutInUse
<1>1. IndInv => CutInUse
  BY DEF IndInv, TestInv, CutInv, CutInUse, HoldingTests, Holding
<1> QED BY <1>1, Inductive, PTL

\* The champion is a scored row and the re-test has only rows before it, whoever submits what and
\* whatever is re-run, deleted, demoted or restarted: only a rescoring that overwrites a changed
\* row, and a row that another submission's crash wrote to, escape it.
THEOREM ChampionIsThere == Spec => []NothingDangles
<1>1. ASSUME IndInv PROVE NothingDangles
  <2>1. best \in Cand \cup {NoCand} /\ ToSet(retest) \subseteq Cand
    BY <1>1, ElemsType DEF IndInv, Types
  <2> QED BY <1>1, <2>1 DEF IndInv, RowInv, RowOf, NothingDangles
<1> QED BY <1>1, Inductive, PTL
=============================================================================

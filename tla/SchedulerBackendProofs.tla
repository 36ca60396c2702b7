------------------------ MODULE SchedulerBackendProofs ------------------------
(* What the scheduler reports about a request: its prompt once, no token beyond its budget,   *)
(* nothing after it was answered for good.  And with that, Scheduler implements Backend.      *)
EXTENDS SchedulerBackend, SchedulerProofs, FiniteSetTheorems

(* Where the answers to a request stand *)

\* A sampled token of u is still to come: from the batch that is drained, or from the one that
\* overlap launched in front of that drain.
TokenDue(u)  == u \in Undrained \ DrainBatch.chunked
TokenNext(u) == u \in Overtaking \ ongoing.chunked
TokensDue(u) == (IF TokenDue(u) THEN 1 ELSE 0) + (IF TokenNext(u) THEN 1 ELSE 0)

\* The prompt is reported with the first chunk that is launched.
AdmitInv ==
    /\ adder.fresh \subseteq adder.reqs
    /\ \A u \in Uid : sent[u].admitted \in {0, 1}
    /\ \A u \in Uid : u \in toSend \cup adder.fresh => sent[u].admitted = 0
    /\ \A u \in ToSet(pending) \ (chunked \cup adder.reqs) : sent[u].admitted = 0
    /\ \A u \in (chunked \cup adder.reqs \cup running) \ adder.fresh : sent[u].admitted = 1

\* No token was sent for u, and none is on its way.
Unsampled(u) == sent[u].tokens = 0 /\ ~TokenDue(u) /\ ~TokenNext(u) /\ u \notin running

\* Every step of u put one position in its row: the tokens sent and those on their way are among
\* them, and they are all of them as long as the drain still reports on u.
Sampled(u) ==
    /\ sent[u].admitted = 1 /\ u \notin ToSet(pending) \cup toSend
    /\ req[u].maxLen = job[u].input + job[u].output
    /\ req[u].deviceLen <= req[u].maxLen
    /\ job[u].input + sent[u].tokens + TokensDue(u) <= req[u].deviceLen
    /\ \/ u \notin running /\ ~TokenDue(u) /\ ~TokenNext(u)
       \/ req[u].aborted \/ u \in finished \cup newFinished
       \/ job[u].input + sent[u].tokens + TokensDue(u) = req[u].deviceLen

TokenInv ==
    /\ \A u \in ToSet(pending) : job[u].output >= 1
    /\ \A u \in adder.reqs \ ToSet(adder.chunks) :
          req[u].deviceLen = job[u].input /\ req[u].maxLen = job[u].input + job[u].output
    /\ finished \cap Overtaking = {} /\ newFinished \cap Undrained = {}
    /\ \A u \in Uid : Unsampled(u) \/ Sampled(u)

\* A request that was answered for good, or whose acknowledgement is about to go out, is nowhere
\* the loop could serve it from again.
QuietInv ==
    \A u \in Uid :
        /\ Terminal(u) \/ u \in acks =>
              /\ u \notin ToSet(pending) \cup running
              /\ u \in toSend => u \in ToSet(tombstones)
        /\ u \in acks => ~TokenNext(u)
        /\ Terminal(u) => /\ TokenDue(u) => req[u].aborted \/ u \in finished
                          /\ TokenNext(u) => u \in newFinished

\* A request that ended with "length" has had its budget (without overlap).
FullInv ==
    \A u \in Uid : sent[u].finish = "length" =>
        /\ u \notin toSend \cup ToSet(pending) \cup running /\ ~TokenDue(u)
        /\ sent[u].tokens = job[u].output

\* The tombstones have room for every request: none is dropped while its UserMsg is on its way
\* (65536 in the code; a queue of more aborted requests than that forgets the oldest).
AbortsRemembered == IsFiniteSet(Uid) /\ Cardinality(Uid) <= TombstoneCap

\* What a step may not do to a request that was answered for good
AnswersKept ==
    \A u \in Uid : Terminal(u) =>
        /\ sent'[u].admitted = sent[u].admitted
        /\ sent'[u].tokens = sent[u].tokens
        /\ sent'[u].finish = sent[u].finish

\* What a step may report about a request: it arrives, it gets a token, it ends, or nothing.
Reported(u) ==
    \/ Life(u) = "unsent" /\ Life(u)' = "live" /\ sent'[u].tokens = sent[u].tokens
    \/ Life(u) = "live" /\ Life(u)' \in {"live", "over"} /\ sent'[u].tokens = sent[u].tokens + 1
    \/ Life(u)' = "over" /\ sent'[u].tokens = sent[u].tokens
    \/ Life(u)' = Life(u) /\ sent'[u].tokens = sent[u].tokens

\* The three together: what a step must do once nothing was reported wrongly before it.
Answers == AnswersKept /\ \A u \in Uid : Reported(u)

\* A report on each request is a step of the contract.
LEMMA ContractStep == ControlTypeOK' /\ Answers => Contract!Next
<1> SUFFICES ASSUME ControlTypeOK', \A u \in Uid : Reported(u) PROVE Contract!Next
  BY DEF Answers
<1> DEFINE life   == [u \in Uid |-> Life(u)]
           tokens == [u \in Uid |-> sent[u].tokens]
<1>1. \A u \in Uid : life[u] = Life(u) /\ life'[u] = Life(u)'
  OBVIOUS
<1>2. \A u \in Uid : tokens[u] = sent[u].tokens /\ tokens'[u] = sent'[u].tokens
  OBVIOUS
<1>3. life' \in [Uid -> {"unsent", "live", "over"}]
  BY DEF Life
<1>4. tokens' \in [Uid -> Nat]
  BY DEF ControlTypeOK, Sent
<1>5. ASSUME NEW u \in Uid
      PROVE  \/ life[u] = "unsent" /\ life'[u] = "live" /\ tokens'[u] = tokens[u]
             \/ /\ life[u] = "live" /\ life'[u] \in {"live", "over"}
                /\ tokens'[u] = tokens[u] + 1
             \/ life'[u] = "over" /\ tokens'[u] = tokens[u]
             \/ life'[u] = life[u] /\ tokens'[u] = tokens[u]
  <2> HIDE DEF life, tokens
  <2> QED BY <1>1, <1>2 DEF Reported
<1> HIDE DEF life, tokens
<1>6. /\ life' \in [Uid -> {"unsent", "live", "over"}] /\ tokens' \in [Uid -> Nat]
      /\ \A u \in Uid : \/ life[u] = "unsent" /\ life'[u] = "live" /\ tokens'[u] = tokens[u]
                        \/ /\ life[u] = "live" /\ life'[u] \in {"live", "over"}
                           /\ tokens'[u] = tokens[u] + 1
                        \/ life'[u] = "over" /\ tokens'[u] = tokens[u]
                        \/ life'[u] = life[u] /\ tokens'[u] = tokens[u]
  BY <1>3, <1>4, <1>5
<1> QED BY <1>6 DEF life, tokens, Contract!Next, Contract!Arrive, Contract!Token, Contract!End,
                    Contract!Same

\* A step that reports nothing and takes no message from the front end.
LEMMA SilentStep ==
    ASSUME UNCHANGED <<sent, toSend>>
    PROVE  Answers
BY DEF Answers, AnswersKept, Reported, Life, Terminal

\* What has to be shown of a step.  Only the last line needs that tombstones are not dropped.
AnswerStep ==
    /\ AdmitInv' /\ TokenInv'
    /\ ~Overlap /\ FullInv => FullInv'
    /\ AbortsRemembered /\ QuietInv => QuietInv' /\ Answers

\* A step that leaves every request and its reports alone.
LEMMA SameAnswers ==
    ASSUME AdmitInv, TokenInv, phase' = "drain" <=> phase = "drain",
           adder'.reqs = adder.reqs, adder'.fresh = adder.fresh, adder'.chunks = adder.chunks,
           UNCHANGED <<toSend, job, pending, chunked, req, running, lastData, ongoing, todo,
                       finished, newFinished, tombstones, acks, sent>>
    PROVE  AnswerStep
<1>1. Undrained' = Undrained /\ Overtaking' = Overtaking /\ DrainBatch' = DrainBatch
  BY DEF Undrained, Overtaking, DrainBatch, Drained
<1>2. \A v : /\ TokenDue(v)' <=> TokenDue(v)
             /\ TokenNext(v)' <=> TokenNext(v)
             /\ TokensDue(v)' = TokensDue(v)
  BY <1>1 DEF TokenDue, TokenNext, TokensDue
<1>3. AdmitInv'
  BY DEF AdmitInv
<1>4. TokenInv'
  BY <1>1, <1>2 DEF TokenInv, Unsampled, Sampled
<1>5. FullInv => FullInv'
  BY <1>2 DEF FullInv
<1>6. QuietInv => QuietInv'
  BY <1>2 DEF QuietInv, Terminal
<1> QED BY <1>3, <1>4, <1>5, <1>6, SilentStep DEF AnswerStep

-----------------------------------------------------------------------------
(* Receiving *)

\* A UserMsg: dropped for its tombstone, refused, or queued.  Nothing was reported on it before,
\* unless its abort was, and that has left the tombstone.
LEMMA RecvUserAnswers ==
    ASSUME IndInv, AdmitInv, TokenInv,
           NEW u \in Uid, NEW p \in PromptLens, NEW m \in OutLens, RecvUser(u, p, m)
    PROVE  AnswerStep
<1> USE SchedulerConstants
<1>1. /\ phase = "recv" /\ u \in toSend /\ toSend' = toSend \ {u}
      /\ UNCHANGED <<phase, chunked, req, running, adder, lastData, ongoing, todo, newFinished,
                     finished, acks>>
  BY DEF RecvUser, passVars, batchVars
<1>2. adder.reqs = {} /\ adder.fresh = {}
  BY <1>1 DEF IndInv, Ownership, QueueInv, NoAdder
<1>3. Undrained' = Undrained /\ Overtaking' = Overtaking /\ DrainBatch' = DrainBatch
  BY <1>1 DEF Undrained, Overtaking, DrainBatch, Drained
<1>4. \A v : /\ TokenDue(v)' <=> TokenDue(v)
             /\ TokenNext(v)' <=> TokenNext(v)
             /\ TokensDue(v)' = TokensDue(v)
  BY <1>1, <1>3 DEF TokenDue, TokenNext, TokensDue
<1>5. u \notin ToSet(pending) /\ u \notin running /\ u \notin chunked
  BY <1>1 DEF IndInv, Ownership, QueueInv, HolderInv
<1>6. Unsampled(u)
  BY <1>1 DEF TokenInv, Sampled
<1>7. /\ tombstones \in Seq(Uid) /\ IsInjective(tombstones) /\ pending \in Seq(Uid)
      /\ job \in [Uid -> [input : Nat, output : Nat]] /\ sent \in [Uid -> Sent]
      /\ MaxSeqLen \in Nat
  BY DEF IndInv, ControlTypeOK, Ownership, QueueInv, MaxSeqLen
<1>8. \/ /\ u \in ToSet(tombstones) /\ ToSet(tombstones') = ToSet(tombstones) \ {u}
         /\ ToSet(pending') = ToSet(pending) /\ job' = job /\ sent' = sent
      \/ /\ u \notin ToSet(tombstones) /\ tombstones' = tombstones
         /\ ToSet(pending') = ToSet(pending) /\ job' = job
         /\ sent' = [sent EXCEPT ![u].finish = "error"]
      \/ /\ u \notin ToSet(tombstones) /\ tombstones' = tombstones
         /\ ToSet(pending') = ToSet(pending) \cup {u}
         /\ job'[u].output >= 1 /\ \A v \in Uid : v # u => job'[v] = job[v]
         /\ sent' = sent
  <2>1. CASE u \in ToSet(tombstones)
    <3>1. /\ tombstones' = RemoveFirst(tombstones, u) /\ pending' = pending /\ job' = job
          /\ sent' = sent
      BY <2>1 DEF RecvUser
    <3> QED BY <1>7, <2>1, <3>1, RemoveElems
  <2>2. CASE u \notin ToSet(tombstones) /\ MaxSeqLen - p <= 0
    <3>1. /\ tombstones' = tombstones /\ pending' = pending /\ job' = job
          /\ sent' = TooLongReply(u)
      BY <1>7, <2>2 DEF RecvUser
    <3> QED BY <1>7, <2>2, <3>1 DEF TooLongReply
  <2>3. CASE u \notin ToSet(tombstones) /\ MaxSeqLen - p > 0
    <3> DEFINE given == IF m > MaxSeqLen - p THEN MaxSeqLen - p ELSE m
    <3>1. /\ job' = [job EXCEPT ![u] = [input |-> p, output |-> given]]
          /\ pending' = Append(pending, u) /\ tombstones' = tombstones /\ sent' = sent
      BY <1>7, <2>3 DEF RecvUser
    <3>2. given \in Nat /\ given >= 1
      <4> DEFINE room == MaxSeqLen - p
      <4>1. room \in Nat /\ room > 0 /\ m \in Nat /\ m >= 1
        BY <1>7, <2>3
      <4> HIDE DEF room
      <4>2. given = IF m > room THEN room ELSE m
        BY DEF room
      <4> HIDE DEF given
      <4> QED BY <4>1, <4>2
    <3> HIDE DEF given
    <3>3. job'[u].output = given /\ \A v \in Uid : v # u => job'[v] = job[v]
      BY <1>7, <3>1
    <3>4. ToSet(pending') = ToSet(pending) \cup {u}
      BY <1>7, <3>1, AppendElems
    <3> QED BY <2>3, <3>1, <3>2, <3>3, <3>4
  <2>4. MaxSeqLen - p <= 0 \/ MaxSeqLen - p > 0
    BY <1>7
  <2> QED BY <2>1, <2>2, <2>3, <2>4
<1>9. /\ \A v \in Uid : /\ sent'[v].admitted = sent[v].admitted
                        /\ sent'[v].tokens = sent[v].tokens
                        /\ sent'[v].acks = sent[v].acks
                        /\ v # u => sent'[v] = sent[v] /\ job'[v] = job[v]
      /\ sent'[u].finish \in {sent[u].finish, "error"}
      /\ sent'[u].finish # sent[u].finish =>
            u \notin ToSet(tombstones) /\ ToSet(pending') = ToSet(pending)
  <2>1. CASE sent' = sent
    BY <1>8, <2>1
  <2>2. CASE sent' = [sent EXCEPT ![u].finish = "error"]
    <3>1. /\ \A v \in Uid : v # u => sent'[v] = sent[v]
          /\ sent'[u] = [sent[u] EXCEPT !.finish = "error"]
      BY <1>7, <2>2
    <3>2. sent[u] \in Sent
      BY <1>7
    <3>3. /\ sent'[u].admitted = sent[u].admitted /\ sent'[u].tokens = sent[u].tokens
          /\ sent'[u].acks = sent[u].acks /\ sent'[u].finish = "error"
      BY <3>1, <3>2 DEF Sent
    <3> QED BY <1>8, <3>1, <3>3
  <2> QED BY <1>8, <2>1, <2>2
<1>10. /\ ToSet(pending) \subseteq ToSet(pending')
       /\ ToSet(pending') \subseteq ToSet(pending) \cup {u}
       /\ u \in ToSet(pending') => u \notin ToSet(tombstones) /\ job'[u].output >= 1 /\ sent' = sent
       /\ u \notin ToSet(tombstones) => ToSet(tombstones') = ToSet(tombstones)
       /\ \A v \in ToSet(tombstones) : v # u => v \in ToSet(tombstones')
  BY <1>5, <1>8
<1>11. /\ ToSet(pending) \subseteq Uid /\ toSend \subseteq Uid
       /\ running \subseteq Uid /\ chunked \subseteq Uid
  BY <1>7, ElemsType DEF IndInv, ControlTypeOK
<1>12. AdmitInv'
  <2>1. sent[u].admitted = 0
    BY <1>1 DEF AdmitInv
  <2> QED BY <1>1, <1>2, <1>5, <1>9, <1>10, <1>11, <2>1 DEF AdmitInv
<1>13. TokenInv'
  <2>1. \A v \in ToSet(pending') : job'[v].output >= 1
    BY <1>9, <1>10, <1>11 DEF TokenInv
  <2>2. ASSUME NEW v \in Uid PROVE Unsampled(v)' \/ Sampled(v)'
    <3>1. CASE v = u
      BY <1>1, <1>4, <1>6, <1>9, <3>1 DEF Unsampled
    <3>2. CASE v # u
      <4>1. CASE Unsampled(v)
        BY <1>1, <1>4, <1>9, <3>2, <4>1 DEF Unsampled
      <4>2. CASE Sampled(v)
        <5>1. v \notin ToSet(pending') \cup toSend'
          BY <1>1, <1>10, <3>2, <4>2 DEF Sampled
        <5> QED BY <1>1, <1>4, <1>9, <3>2, <4>2, <5>1 DEF Sampled
      <4> QED BY <4>1, <4>2 DEF TokenInv
    <3> QED BY <3>1, <3>2
  <2> QED BY <1>1, <1>2, <1>3, <2>1, <2>2 DEF TokenInv
<1>14. FullInv => FullInv'
  <2> SUFFICES ASSUME FullInv, NEW v \in Uid, sent'[v].finish = "length"
               PROVE  /\ v \notin toSend' \cup ToSet(pending') \cup running' /\ ~TokenDue(v)'
                      /\ sent'[v].tokens = job'[v].output
    BY DEF FullInv
  <2>1. sent[v].finish = "length"
    BY <1>9
  <2>2. v # u
    BY <1>1, <2>1 DEF FullInv
  <2> QED BY <1>1, <1>4, <1>9, <1>10, <2>1, <2>2 DEF FullInv
<1>15. ASSUME QuietInv PROVE QuietInv' /\ Answers
  <2>1. u \notin ToSet(tombstones) => ~Terminal(u) /\ u \notin acks
    BY <1>1, <1>15 DEF QuietInv
  <2>2. \A v \in Uid : v # u => (Terminal(v)' <=> Terminal(v))
    BY <1>9 DEF Terminal
  <2>3. u \in ToSet(pending') => ~Terminal(u)' /\ u \notin acks
    BY <1>10, <2>1 DEF Terminal
  <2>4. QuietInv'
    <3> SUFFICES ASSUME NEW v \in Uid
                 PROVE  /\ Terminal(v)' \/ v \in acks' =>
                              /\ v \notin ToSet(pending') \cup running'
                              /\ v \in toSend' => v \in ToSet(tombstones')
                        /\ v \in acks' => ~TokenNext(v)'
                        /\ Terminal(v)' => /\ TokenDue(v)' => req'[v].aborted \/ v \in finished'
                                           /\ TokenNext(v)' => v \in newFinished'
      BY DEF QuietInv
    <3>1. CASE v = u
      BY <1>1, <1>4, <1>5, <1>6, <2>3, <3>1 DEF Unsampled
    <3>2. CASE v # u
      <4>1. v \in ToSet(pending') => v \in ToSet(pending)
        BY <1>10, <3>2
      <4>2. v \in ToSet(tombstones) => v \in ToSet(tombstones')
        BY <1>10, <3>2
      <4> QED BY <1>1, <1>4, <1>15, <2>2, <3>2, <4>1, <4>2 DEF QuietInv
    <3> QED BY <3>1, <3>2
  <2>5. AnswersKept
    <3>1. Terminal(u) => sent'[u].finish = sent[u].finish
      BY <1>9, <2>1
    <3> QED BY <1>9, <3>1 DEF AnswersKept
  <2>6. ASSUME NEW v \in Uid PROVE Reported(v)
    <3>1. CASE v = u
      <4>1. Terminal(u) => Terminal(u)'
        BY <1>9 DEF Terminal
      <4>2. u \notin toSend'
        BY <1>1
      <4> QED BY <1>1, <1>9, <3>1, <4>1, <4>2 DEF Reported, Life
    <3>2. CASE v # u
      BY <1>1, <1>9, <2>2, <3>2 DEF Reported, Life
    <3> QED BY <3>1, <3>2
  <2> QED BY <2>4, <2>5, <2>6 DEF Answers
<1> QED BY <1>12, <1>13, <1>14, <1>15 DEF AnswerStep

\* A list of distinct elements of a finite set is no longer than the set is large.
LEMMA DistinctBounded ==
    ASSUME NEW S, IsFiniteSet(S), NEW s \in Seq(S), IsInjective(s)
    PROVE  Len(s) <= Cardinality(S)
<1>1. Len(s) \in Nat /\ s \in [1 .. Len(s) -> S]
  OBVIOUS
<1>2. \A i, j \in 1 .. Len(s) : s[i] = s[j] => i = j
  BY Injective
<1>3. s \in Injection(1 .. Len(s), S)
  BY <1>1, <1>2 DEF Injection, IsInjective
<1>4. Cardinality(1 .. Len(s)) <= Cardinality(S)
  BY <1>3, FS_Injection
<1>5. Cardinality(1 .. Len(s)) = Len(s)
  <2>1. Cardinality(1 .. Len(s)) = IF 1 > Len(s) THEN 0 ELSE Len(s) - 1 + 1
    BY <1>1, FS_Interval
  <2> QED BY <1>1, <2>1
<1> QED BY <1>4, <1>5

\* An abort leaves its tombstone; none is dropped for it.
LEMMA TombstonesKept ==
    ASSUME IndInv, AbortsRemembered, NEW u \in Uid
    PROVE  ToSet(AddTombstone(u)) = ToSet(tombstones) \cup {u}
<1> DEFINE added == IF u \in ToSet(tombstones) THEN tombstones ELSE Append(tombstones, u)
<1>1. tombstones \in Seq(Uid) /\ IsInjective(tombstones)
  BY DEF IndInv, ControlTypeOK, Ownership, QueueInv
<1>2. added \in Seq(Uid) /\ IsInjective(added) /\ ToSet(added) = ToSet(tombstones) \cup {u}
  BY <1>1, AppendElems
<1>3. AddTombstone(u) = IF Len(added) > TombstoneCap THEN Tail(added) ELSE added
  BY DEF AddTombstone
<1> HIDE DEF added
<1>4. Len(added) <= Cardinality(Uid) /\ Len(added) \in Nat
  BY <1>2, DistinctBounded DEF AbortsRemembered
<1>5. Cardinality(Uid) \in Nat /\ TombstoneCap \in Nat /\ Cardinality(Uid) <= TombstoneCap
  BY FS_CardinalityType, SchedulerConstants DEF AbortsRemembered
<1>6. ~(Len(added) > TombstoneCap)
  BY <1>4, <1>5
<1> QED BY <1>2, <1>3, <1>6

\* An abort takes the request out of both managers; what is in flight is marked, or ends by
\* itself with this very step.
LEMMA RecvAbortAnswers ==
    ASSUME IndInv, AdmitInv, TokenInv, NEW u \in Uid, RecvAbort(u)
    PROVE  AnswerStep
<1>1. /\ phase = "recv" /\ chunked' = chunked \ {u} /\ running' = running \ {u}
      /\ ToSet(pending') = ToSet(pending) \ {u}
      /\ acks' = acks \cup {u} /\ tombstones' = AddTombstone(u)
      /\ adder = NoAdder /\ ongoing = NoBatch /\ Undrained = lastData.reqs
      /\ UNCHANGED <<phase, toSend, job, adder, lastData, ongoing, todo, newFinished, finished,
                     sent>>
  BY AbortEffect
<1>2. /\ \A v \in Uid : v # u => req'[v] = req[v]
      /\ \A v \in Uid : req'[v].deviceLen = req[v].deviceLen /\ req'[v].maxLen = req[v].maxLen
      /\ u \in lastData.reqs /\ u \in running => req'[u].aborted
      /\ \A v \in Uid : req[v].aborted => req'[v].aborted
  BY AbortEffect DEF AbortLeaves
<1>3. /\ Undrained' = Undrained /\ Overtaking' = Overtaking /\ DrainBatch' = DrainBatch
      /\ Overtaking = {}
  BY <1>1 DEF Undrained, Overtaking, DrainBatch, Drained, NoBatch
<1>4. \A v : /\ TokenDue(v)' <=> TokenDue(v)
             /\ TokenNext(v)' <=> TokenNext(v)
             /\ TokensDue(v)' = TokensDue(v)
             /\ ~TokenNext(v)
             /\ TokenDue(v) => v \in lastData.reqs
  BY <1>1, <1>3 DEF TokenDue, TokenNext, TokensDue
<1>5. ToSet(pending) \subseteq Uid /\ running \subseteq Uid /\ chunked \subseteq Uid
  BY ElemsType DEF IndInv, ControlTypeOK
<1>6. adder.reqs = {} /\ adder.fresh = {}
  BY <1>1 DEF NoAdder
<1>7. AdmitInv'
  BY <1>1, <1>6 DEF AdmitInv
<1>8. TokenInv'
  <2>1. ASSUME NEW v \in Uid PROVE Unsampled(v)' \/ Sampled(v)'
    <3>1. CASE Unsampled(v)
      BY <1>1, <1>4, <3>1 DEF Unsampled
    <3>2. CASE Sampled(v)
      <4>1. CASE v # u
        BY <1>1, <1>2, <1>4, <3>2, <4>1 DEF Sampled
      <4>2. CASE v = u
        <5>1. /\ sent'[u].admitted = 1 /\ u \notin ToSet(pending') \cup toSend'
              /\ req'[u].maxLen = job'[u].input + job'[u].output
              /\ req'[u].deviceLen <= req'[u].maxLen
              /\ job'[u].input + sent'[u].tokens + TokensDue(u)' <= req'[u].deviceLen
          BY <1>1, <1>2, <1>4, <3>2, <4>2 DEF Sampled
        <5>2. \/ u \notin running' /\ ~TokenDue(u)' /\ ~TokenNext(u)'
              \/ req'[u].aborted \/ u \in finished' \cup newFinished'
              \/ job'[u].input + sent'[u].tokens + TokensDue(u)' = req'[u].deviceLen
          <6>1. CASE u \in running
            BY <1>1, <1>2, <1>4, <6>1
          <6>2. CASE u \notin running
            BY <1>1, <1>2, <1>4, <3>2, <4>2, <6>2 DEF Sampled
          <6> QED BY <6>1, <6>2
        <5> QED BY <4>2, <5>1, <5>2 DEF Sampled
      <4> QED BY <4>1, <4>2
    <3> QED BY <3>1, <3>2 DEF TokenInv
  <2>2. \A v \in ToSet(pending') : job'[v].output >= 1
    BY <1>1 DEF TokenInv
  <2> QED BY <1>1, <1>3, <1>6, <2>1, <2>2 DEF TokenInv
<1>9. FullInv => FullInv'
  BY <1>1, <1>4 DEF FullInv
<1>10. ASSUME AbortsRemembered, QuietInv PROVE QuietInv'
  <2>1. ToSet(tombstones') = ToSet(tombstones) \cup {u}
    BY <1>1, <1>10, TombstonesKept
  <2>2. \A v \in Uid : Terminal(v)' <=> Terminal(v)
    BY <1>1 DEF Terminal
  <2> QED BY <1>1, <1>2, <1>4, <1>10, <2>1, <2>2 DEF QuietInv
<1>11. Answers
  BY <1>1, SilentStep
<1> QED BY <1>7, <1>8, <1>9, <1>10, <1>11 DEF AnswerStep

-----------------------------------------------------------------------------
(* Admission and launch *)

\* Admission decides what the next batch will report; nothing was sampled of the request yet.
LEMMA AdmitOneAnswers ==
    ASSUME IndInv, AdmitInv, TokenInv, AdmitOne
    PROVE  AnswerStep
<1>0. PICK u : u = Head(adder.rest)
  OBVIOUS
<1>1. /\ phase = "admit" /\ u \in Uid /\ u \in ToSet(pending)
      /\ UNCHANGED <<phase, toSend, job, pending, running, lastData, ongoing, todo, newFinished,
                     finished, tombstones, acks, sent>>
  BY <1>0, AdmitEffect
<1>2. /\ u \notin toSend /\ u \notin running /\ u \notin adder.reqs /\ u \notin ToSet(adder.chunks)
      /\ u \notin lastData.reqs \ lastData.chunked
  BY <1>0, AdmitEffect
<1>3. /\ req'[u].deviceLen = ChunkStart(u) + ChunkTaken(u)
      /\ req'[u].maxLen = ChunkStart(u) + ChunkTaken(u) + job[u].output
      /\ \A v \in Uid : v # u => req'[v] = req[v]
  BY <1>0, AdmitEffect
<1>4. ChunkPlaced(u) /\ adder'.reqs = adder.reqs \cup {u} /\ adder'.fresh = Fresh(u)
  BY <1>0, AdmitEffect
<1>5. /\ Undrained' = Undrained /\ Overtaking' = Overtaking /\ DrainBatch' = DrainBatch
  BY <1>1 DEF Undrained, Overtaking, DrainBatch, Drained
<1>6. \A v : /\ TokenDue(v)' <=> TokenDue(v)
             /\ TokenNext(v)' <=> TokenNext(v)
             /\ TokensDue(v)' = TokensDue(v)
  BY <1>1, <1>5 DEF TokenDue, TokenNext, TokensDue
<1>7. Unsampled(u)
  BY <1>1 DEF TokenInv, Sampled
<1>8. /\ chunked' \subseteq chunked \cup {u} /\ chunked \subseteq chunked' \cup {u}
      /\ ToSet(adder.chunks) \subseteq ToSet(adder'.chunks)
      /\ ToSet(adder'.chunks) \subseteq ToSet(adder.chunks) \cup {u}
      /\ u \notin ToSet(adder'.chunks) => ChunkStart(u) + ChunkTaken(u) = job[u].input
  BY <1>4 DEF ChunkPlaced
<1>9. adder.reqs \subseteq Uid /\ chunked \subseteq ToSet(pending)
  BY DEF IndInv, ControlTypeOK, Adder, Ownership, QueueInv
<1>10. AdmitInv'
  <2>1. u \notin adder.fresh
    BY <1>2 DEF AdmitInv
  <2>2. CASE u \in chunked
    <3>1. adder'.fresh = adder.fresh
      BY <1>4, <2>2 DEF Fresh
    <3>2. sent[u].admitted = 1
      BY <2>1, <2>2 DEF AdmitInv
    <3> QED BY <1>1, <1>2, <1>4, <1>8, <3>1, <3>2 DEF AdmitInv
  <2>3. CASE u \notin chunked
    <3>1. adder'.fresh = adder.fresh \cup {u}
      BY <1>4, <2>3 DEF Fresh
    <3>2. sent[u].admitted = 0
      BY <1>1, <1>2, <2>3 DEF AdmitInv
    <3> QED BY <1>1, <1>2, <1>4, <1>8, <3>1, <3>2 DEF AdmitInv
  <2> QED BY <2>2, <2>3
<1>11. TokenInv'
  <2>1. ASSUME NEW v \in Uid PROVE Unsampled(v)' \/ Sampled(v)'
    <3>1. CASE v = u
      BY <1>1, <1>6, <1>7, <3>1 DEF Unsampled
    <3>2. CASE v # u
      BY <1>1, <1>3, <1>6, <3>2 DEF TokenInv, Unsampled, Sampled
    <3> QED BY <3>1, <3>2
  <2>2. ASSUME NEW v \in adder'.reqs \ ToSet(adder'.chunks)
        PROVE  req'[v].deviceLen = job'[v].input /\ req'[v].maxLen = job'[v].input + job'[v].output
    <3>1. CASE v = u
      BY <1>1, <1>3, <1>8, <2>2, <3>1
    <3>2. CASE v # u
      <4>1. v \in adder.reqs \ ToSet(adder.chunks)
        BY <1>4, <1>8, <2>2, <3>2
      <4> QED BY <1>1, <1>3, <1>9, <3>2, <4>1 DEF TokenInv
    <3> QED BY <3>1, <3>2
  <2> QED BY <1>1, <1>5, <2>1, <2>2 DEF TokenInv
<1>12. FullInv => FullInv'
  BY <1>1, <1>6 DEF FullInv
<1>13. QuietInv => QuietInv'
  <2>1. \A v \in Uid : Terminal(v)' <=> Terminal(v)
    BY <1>1 DEF Terminal
  <2>2. QuietInv => ~Terminal(u)
    BY <1>1 DEF QuietInv
  <2>3. \A v \in Uid : v # u => req'[v].aborted = req[v].aborted
    BY <1>3
  <2> QED BY <1>1, <1>6, <2>1, <2>2, <2>3 DEF QuietInv
<1>14. Answers
  BY <1>1, SilentStep
<1> QED BY <1>10, <1>11, <1>12, <1>13, <1>14 DEF AnswerStep

\* A launch owes one more token to everybody in the batch but its chunks, and reports the
\* prompts whose first chunk is in it.
LEMMA LaunchAnswers ==
    ASSUME IndInv, AdmitInv, TokenInv, Launch
    PROVE  AnswerStep
<1>0. PICK b : b = NextBatch
  OBVIOUS
<1>1. /\ phase = "admit" /\ phase' = "drain" /\ adder' = NoAdder /\ newFinished' = {}
      /\ ongoing' = b /\ sent' = ReportPromptAdmissions
      /\ UNCHANGED <<toSend, job, chunked, lastData, finished, tombstones, acks>>
  BY <1>0, LaunchEffect
<1>2. BatchChosen(b) /\ DrainStarts(b) /\ Completed(b)
  BY <1>0, LaunchEffect
<1>3. /\ ToSet(pending') = ToSet(adder.chunks) \cup ToSet(adder.rest)
      /\ ToSet(pending') \subseteq ToSet(pending)
      /\ running' = {v \in running \cup (b.reqs \ b.chunked) : CanDecode(v)'}
      /\ (b.reqs \ b.chunked) \cap (ToSet(pending') \cup toSend') = {}
      /\ b.chunked \subseteq b.reqs /\ \A v \in b.reqs : v \in Uid /\ Holds(v)
  BY <1>0, LaunchEffect
<1>4. /\ b.reqs = IF adder.reqs # {} THEN adder.reqs ELSE running
      /\ b.chunked = ToSet(adder.chunks)
  BY <1>2 DEF BatchChosen
<1>5. /\ adder.reqs \subseteq ToSet(pending)
      /\ ToSet(adder.chunks) \subseteq adder.reqs \cap chunked
      /\ ToSet(adder.rest) \cap adder.reqs = {} /\ ToSet(pending) \cap toSend = {}
      /\ chunked \subseteq ToSet(pending) /\ running \cap (ToSet(pending) \cup toSend) = {}
      /\ chunked \subseteq ToSet(adder.rest) \cup ToSet(adder.chunks)
  BY <1>1 DEF IndInv, Ownership, QueueInv, HolderInv
<1>6. /\ newFinished = {} /\ ongoing = NoBatch
      /\ \A v \in finished : ~Holds(v)
      /\ \A v \in Uid : req[v].aborted => v \notin running
  BY <1>1 DEF IndInv, Ownership, BatchInv
<1>7. /\ ToSet(pending) \subseteq Uid /\ running \subseteq Uid /\ adder.reqs \subseteq Uid
      /\ \A v \in Uid : /\ job[v].input \in Nat /\ job[v].output \in Nat
                        /\ sent[v] \in Sent /\ sent[v].tokens \in Nat /\ sent[v].admitted \in Nat
                        /\ req[v].deviceLen \in Nat /\ req[v].maxLen \in Nat
  BY ElemsType DEF IndInv, ControlTypeOK, Adder, Sent, Req
<1>8. \A v \in Uid : v \in b.reqs \ b.chunked =>
          v \in running \/ v \in adder.reqs \ ToSet(adder.chunks)
  BY <1>4
\* Tokens that are due before and after
<1>9. /\ \A v : ~TokenNext(v)
      /\ \A v : TokenDue(v)' \/ TokenNext(v)' => TokenDue(v) \/ v \in b.reqs \ b.chunked
      /\ \A v : Overlap => (TokenDue(v)' <=> TokenDue(v))
      /\ \A v : Overlap => (TokenNext(v)' <=> v \in b.reqs \ b.chunked)
      /\ \A v : ~Overlap => ~TokenNext(v)' /\ ~TokenDue(v)
      /\ \A v : ~Overlap => (TokenDue(v)' <=> v \in b.reqs \ b.chunked)
  BY <1>1, <1>2 DEF DrainStarts, TokenDue, TokenNext
<1>10. ASSUME NEW v
       PROVE  /\ TokensDue(v) \in Nat
              /\ TokensDue(v)' = TokensDue(v) + (IF v \in b.reqs \ b.chunked THEN 1 ELSE 0)
  <2>1. CASE Overlap
    <3>1. TokensDue(v) = IF TokenDue(v) THEN 1 ELSE 0
      BY <1>9 DEF TokensDue
    <3>2. TokensDue(v)' = (IF TokenDue(v) THEN 1 ELSE 0)
                          + (IF v \in b.reqs \ b.chunked THEN 1 ELSE 0)
      BY <1>9, <2>1 DEF TokensDue
    <3> QED BY <3>1, <3>2
  <2>2. CASE ~Overlap
    <3>1. TokensDue(v) = 0
      BY <1>9, <2>2 DEF TokensDue
    <3>2. TokensDue(v)' = IF v \in b.reqs \ b.chunked THEN 1 ELSE 0
      BY <1>9, <2>2 DEF TokensDue
    <3> QED BY <3>1, <3>2
  <2> QED BY <2>1, <2>2
\* What is reported
<1>11. /\ \A v \in Uid : /\ sent'[v].tokens = sent[v].tokens /\ sent'[v].finish = sent[v].finish
                         /\ sent'[v].acks = sent[v].acks
                         /\ v \in adder.fresh => sent'[v].admitted = sent[v].admitted + 1
                         /\ v \notin adder.fresh => sent'[v] = sent[v]
  <2> SUFFICES ASSUME NEW v \in Uid
               PROVE  /\ sent'[v].tokens = sent[v].tokens /\ sent'[v].finish = sent[v].finish
                      /\ sent'[v].acks = sent[v].acks
                      /\ v \in adder.fresh => sent'[v].admitted = sent[v].admitted + 1
                      /\ v \notin adder.fresh => sent'[v] = sent[v]
    OBVIOUS
  <2>1. sent'[v] = IF v \in adder.fresh THEN [sent[v] EXCEPT !.admitted = @ + 1] ELSE sent[v]
    BY <1>1 DEF ReportPromptAdmissions
  <2>2. CASE v \in adder.fresh
    <3>1. sent'[v] = [sent[v] EXCEPT !.admitted = sent[v].admitted + 1] /\ sent[v] \in Sent
      BY <1>7, <2>1, <2>2
    <3> QED BY <2>2, <3>1 DEF Sent
  <2>3. CASE v \notin adder.fresh
    BY <2>1, <2>3
  <2> QED BY <2>2, <2>3
<1>12. \A v \in Uid : Terminal(v)' <=> Terminal(v)
  BY <1>11 DEF Terminal
<1>13. adder'.reqs = {} /\ adder'.fresh = {}
  BY <1>1 DEF NoAdder
<1>14. \A v \in adder.reqs : sent'[v].admitted = 1
  <2> SUFFICES ASSUME NEW v \in adder.reqs PROVE sent'[v].admitted = 1
    OBVIOUS
  <2>1. CASE v \in adder.fresh
    <3>1. v \in Uid /\ sent[v].admitted = 0
      BY <1>7, <2>1 DEF AdmitInv
    <3> QED BY <1>11, <2>1, <3>1
  <2>2. CASE v \notin adder.fresh
    BY <1>7, <1>11, <2>2 DEF AdmitInv
  <2> QED BY <2>1, <2>2
<1>15. AdmitInv'
  <2>1. \A v \in Uid : sent'[v].admitted \in {0, 1}
    <3> SUFFICES ASSUME NEW v \in Uid PROVE sent'[v].admitted \in {0, 1}
      OBVIOUS
    <3>1. CASE v \in adder.reqs
      BY <1>14, <3>1
    <3>2. CASE v \notin adder.reqs
      BY <1>11, <3>2 DEF AdmitInv
    <3> QED BY <3>1, <3>2
  <2>2. \A v \in Uid : v \in toSend' => sent'[v].admitted = 0
    <3> SUFFICES ASSUME NEW v \in Uid, v \in toSend PROVE sent'[v].admitted = 0
      BY <1>1
    <3>1. v \notin adder.fresh
      BY <1>5 DEF AdmitInv
    <3> QED BY <1>11, <3>1 DEF AdmitInv
  <2>3. ASSUME NEW v \in ToSet(pending') \ (chunked' \cup adder'.reqs)
        PROVE  sent'[v].admitted = 0
    <3>1. v \in ToSet(pending) \ (chunked \cup adder.reqs) /\ v \in Uid
      BY <1>1, <1>3, <1>5, <1>7, <2>3
    <3>2. v \notin adder.fresh
      BY <3>1 DEF AdmitInv
    <3> QED BY <1>11, <3>1, <3>2 DEF AdmitInv
  <2>4. ASSUME NEW v \in (chunked' \cup adder'.reqs \cup running') \ adder'.fresh
        PROVE  sent'[v].admitted = 1
    <3>1. v \in Uid /\ (v \in chunked \/ v \in adder.reqs \/ v \in running)
      BY <1>1, <1>3, <1>4, <1>5, <1>7, <1>13, <2>4
    <3>2. CASE v \in adder.reqs
      BY <1>14, <3>2
    <3>3. CASE v \notin adder.reqs
      <4>1. v \notin adder.fresh
        BY <3>3 DEF AdmitInv
      <4> QED BY <1>11, <3>1, <4>1 DEF AdmitInv
    <3> QED BY <3>2, <3>3
  <2> QED BY <1>13, <2>1, <2>2, <2>3, <2>4 DEF AdmitInv
<1>16. TokenInv'
  <2>1. \A v \in ToSet(pending') : job'[v].output >= 1
    BY <1>1, <1>3 DEF TokenInv
  <2>2. finished' \cap Overtaking' = {} /\ newFinished' = {}
    BY <1>1, <1>2, <1>3, <1>6 DEF DrainStarts
  <2>3. ASSUME NEW v \in Uid PROVE Unsampled(v)' \/ Sampled(v)'
    <3> DEFINE len == req[v].deviceLen
               in == job[v].input
               out == job[v].output
               n == sent[v].tokens
               due == TokensDue(v)
    <3>1. /\ len \in Nat /\ in \in Nat /\ out \in Nat /\ n \in Nat /\ due \in Nat
          /\ job'[v].input = in /\ job'[v].output = out /\ sent'[v].tokens = n
          /\ req'[v].maxLen = req[v].maxLen /\ req'[v].aborted = req[v].aborted
      BY <1>1, <1>2, <1>7, <1>10, <1>11 DEF Completed
    <3>2. CASE v \in b.reqs \ b.chunked
      <4>1. req'[v].deviceLen = len + 1 /\ TokensDue(v)' = due + 1
        BY <1>2, <1>10, <3>2 DEF Completed
      <4>2. v \notin ToSet(pending') \cup toSend'
        BY <1>3, <3>2
      <4>3. CASE v \in running
        <5>1. Sampled(v) /\ v \notin adder.reqs
          BY <1>5, <4>3 DEF TokenInv, Unsampled
        <5>2. sent'[v].admitted = 1
          BY <1>11, <5>1 DEF Sampled, AdmitInv
        <5>3. Holds(v) /\ CanDecode(v)
          BY <4>3 DEF IndInv, Ownership, HolderInv
        <5>4. in + n + due = len
          BY <1>6, <4>3, <5>1, <5>3 DEF Sampled
        <5>5. len < req[v].maxLen /\ req[v].maxLen = in + out
          BY <1>7, <5>1, <5>3 DEF CanDecode, RemainLen, Sampled
        <5> HIDE DEF len, in, out, n, due
        <5>6. in + n + (due + 1) = len + 1 /\ len + 1 <= in + out
          BY <3>1, <5>4, <5>5
        <5> QED BY <3>1, <4>1, <4>2, <5>2, <5>5, <5>6 DEF Sampled
      <4>4. CASE v \in adder.reqs \ ToSet(adder.chunks)
        <5>1. v \in ToSet(pending) /\ Unsampled(v)
          BY <1>5, <4>4 DEF TokenInv, Sampled
        <5>2. sent'[v].admitted = 1
          BY <1>14, <4>4
        <5>3. len = in /\ req[v].maxLen = in + out /\ out >= 1
          BY <4>4, <5>1 DEF TokenInv
        <5>4. n = 0 /\ due = 0
          BY <5>1 DEF Unsampled, TokensDue
        <5> HIDE DEF len, in, out, n, due
        <5>5. in + n + (due + 1) = len + 1 /\ len + 1 <= in + out
          BY <3>1, <5>3, <5>4
        <5> QED BY <3>1, <4>1, <4>2, <5>2, <5>3, <5>5 DEF Sampled
      <4> QED BY <1>8, <3>2, <4>3, <4>4
    <3>3. CASE v \notin b.reqs \ b.chunked
      <4>1. TokensDue(v)' = due /\ (TokenDue(v)' \/ TokenNext(v)' => TokenDue(v) \/ TokenNext(v))
        BY <1>9, <1>10, <3>1, <3>3
      <4>2. v \in running' => v \in running
        BY <1>3, <3>3
      <4>3. CASE Unsampled(v)
        BY <1>11, <4>1, <4>2, <4>3 DEF Unsampled
      <4>4. CASE Sampled(v)
        <5>1. v \notin adder.reqs /\ v \notin ToSet(pending') \cup toSend'
          BY <1>1, <1>3, <1>5, <4>4 DEF Sampled
        <5>2. v \notin b.reqs
          BY <1>4, <1>5, <3>3, <5>1
        <5>3. req'[v] = req[v] /\ sent'[v] = sent[v]
          BY <1>2, <1>11, <5>1, <5>2 DEF Completed, AdmitInv
        <5> QED BY <1>1, <1>6, <4>1, <4>2, <4>4, <5>1, <5>3 DEF Sampled
      <4> QED BY <4>3, <4>4 DEF TokenInv
    <3> QED BY <3>2, <3>3
  <2> QED BY <1>13, <2>1, <2>2, <2>3 DEF TokenInv
<1>17. ~Overlap /\ FullInv => FullInv'
  <2> SUFFICES ASSUME ~Overlap, FullInv, NEW v \in Uid, sent'[v].finish = "length"
               PROVE  /\ v \notin toSend' \cup ToSet(pending') \cup running' /\ ~TokenDue(v)'
                      /\ sent'[v].tokens = job'[v].output
    BY DEF FullInv
  <2>1. /\ v \notin toSend \cup ToSet(pending) \cup running /\ sent[v].tokens = job[v].output
    BY <1>11 DEF FullInv
  <2>2. v \notin b.reqs
    BY <1>4, <1>5, <2>1
  <2> QED BY <1>1, <1>3, <1>9, <1>11, <2>1, <2>2
<1>18. ASSUME QuietInv PROVE QuietInv' /\ Answers
  <2>1. ASSUME NEW v \in Uid, Terminal(v) \/ v \in acks
        PROVE  /\ v \notin ToSet(pending) \cup running /\ v \notin b.reqs
               /\ v \notin ToSet(pending') \cup running' /\ ~TokenNext(v)' /\ v \notin adder.fresh
               /\ TokenDue(v)' => TokenDue(v)
    <3>1. v \notin ToSet(pending) \cup running
      BY <1>18, <2>1 DEF QuietInv
    <3>2. v \notin b.reqs /\ v \notin adder.fresh
      BY <1>4, <1>5, <3>1 DEF AdmitInv
    <3> QED BY <1>3, <1>9, <3>1, <3>2
  <2>2. QuietInv'
    <3> SUFFICES ASSUME NEW v \in Uid
                 PROVE  /\ Terminal(v)' \/ v \in acks' =>
                              /\ v \notin ToSet(pending') \cup running'
                              /\ v \in toSend' => v \in ToSet(tombstones')
                        /\ v \in acks' => ~TokenNext(v)'
                        /\ Terminal(v)' => /\ TokenDue(v)' => req'[v].aborted \/ v \in finished'
                                           /\ TokenNext(v)' => v \in newFinished'
      BY DEF QuietInv
    <3>1. req'[v].aborted = req[v].aborted
      BY <1>2 DEF Completed
    <3> QED BY <1>1, <1>12, <1>18, <2>1, <3>1 DEF QuietInv
  <2>3. AnswersKept
    BY <1>11, <2>1 DEF AnswersKept
  <2>4. \A v \in Uid : Reported(v)
    BY <1>1, <1>11, <1>12 DEF Reported, Life
  <2> QED BY <2>2, <2>3, <2>4 DEF Answers
<1> QED BY <1>15, <1>16, <1>17, <1>18 DEF AnswerStep

-----------------------------------------------------------------------------
(* The drain *)

\* A sampled token: the last one of the request, or one of a request that goes on decoding.
TokenSent(u) ==
    /\ ~req[u].aborted /\ u \notin finished
    /\ \A v \in Uid : v # u => sent'[v] = sent[v]
    /\ sent'[u].tokens = sent[u].tokens + 1 /\ sent'[u].admitted = sent[u].admitted
    /\ sent'[u].acks = sent[u].acks
    /\ \/ sent'[u].finish = sent[u].finish
       \/ u \in newFinished' /\ u \notin running'
    /\ sent'[u].finish = "length" => sent[u].finish = "length" \/ ~CanDecode(u)

LEMMA SampledEffect ==
    ASSUME IndInv, NEW u \in Uid, NEW stop \in BOOLEAN, DrainSampled(u, stop)
    PROVE  TokenSent(u)
<1> DEFINE end == IF stop THEN "stop" ELSE IF ~CanDecode(u) THEN "length" ELSE sent[u].finish
<1>1. /\ sent' = [sent EXCEPT ![u].tokens = @ + 1, ![u].finish = end]
      /\ ~req[u].aborted /\ u \notin finished
      /\ stop \/ ~CanDecode(u) => u \in newFinished' /\ u \notin running'
  BY DEF DrainSampled
<1>2. sent \in [Uid -> Sent] /\ sent[u] \in Sent
  BY DEF IndInv, ControlTypeOK
<1>3. /\ end = sent[u].finish \/ stop \/ ~CanDecode(u)
      /\ end = "length" => sent[u].finish = "length" \/ ~CanDecode(u)
  OBVIOUS
<1> HIDE DEF end
<1>4. /\ \A v \in Uid : v # u => sent'[v] = sent[v]
      /\ sent'[u] = [sent[u] EXCEPT !.tokens = @ + 1, !.finish = end]
  BY <1>1, <1>2
<1>5. /\ sent'[u].tokens = sent[u].tokens + 1 /\ sent'[u].admitted = sent[u].admitted
      /\ sent'[u].acks = sent[u].acks /\ sent'[u].finish = end
  BY <1>2, <1>4 DEF Sent
<1> QED BY <1>1, <1>3, <1>4, <1>5 DEF TokenSent

\* A drain step settles at most one token of one request.
LEMMA DrainOneAnswers ==
    ASSUME IndInv, AdmitInv, TokenInv, NEW u \in Uid, NEW stop \in BOOLEAN, DrainOne(u, stop)
    PROVE  AnswerStep
<1>1. /\ phase = "drain" /\ u \in todo /\ todo' = todo \ {u}
      /\ UNCHANGED <<phase, toSend, job, pending, chunked, adder, lastData, ongoing, finished,
                     tombstones, acks>>
      /\ adder.reqs = {} /\ Undrained = todo /\ Undrained' = todo \ {u}
      /\ DrainBatch = Drained /\ DrainBatch' = DrainBatch /\ Overtaking' = Overtaking
      /\ u \notin Drained.chunked => u \notin ToSet(pending) \cup toSend
  BY DrainEffect
<1>2. \A v \in Uid : /\ req'[v].aborted = req[v].aborted
                     /\ req'[v].deviceLen = req[v].deviceLen
                     /\ req'[v].maxLen = req[v].maxLen
                     /\ CanDecode(v)' <=> CanDecode(v)
  BY DrainEffect
<1>3. /\ running' \subseteq running /\ \A v \in running : v \in running' \/ v = u
      /\ newFinished \subseteq newFinished' /\ newFinished' \subseteq newFinished \cup {u}
      /\ u \notin running' \/ u \in newFinished' \/ running' = running
  <2>1. DrainLeaves(u)
    BY DrainEffect
  <2> QED BY <2>1 DEF DrainLeaves
<1>4. /\ \A v : TokenDue(v)' <=> TokenDue(v) /\ v # u
      /\ \A v : TokenNext(v)' <=> TokenNext(v)
      /\ TokenDue(u) <=> u \notin Drained.chunked
  BY <1>1 DEF TokenDue, TokenNext
<1>5. /\ \A v : v # u => TokensDue(v)' = TokensDue(v)
      /\ ~TokenDue(u) => TokensDue(u)' = TokensDue(u)
      /\ TokenDue(u) => TokensDue(u) = TokensDue(u)' + 1
      /\ \A v : TokensDue(v) \in Nat /\ TokensDue(v)' \in Nat
  <2>1. \A v : /\ TokensDue(v) = (IF TokenDue(v) THEN 1 ELSE 0) + (IF TokenNext(v) THEN 1 ELSE 0)
               /\ TokensDue(v)' = (IF TokenDue(v)' THEN 1 ELSE 0) + (IF TokenNext(v)' THEN 1 ELSE 0)
    BY DEF TokensDue
  <2> QED BY <1>4, <2>1
<1>6. \/ sent' = sent /\ (TokenDue(u) => req[u].aborted \/ u \in finished)
      \/ TokenDue(u) /\ TokenSent(u)
  <2>1. CASE DrainChunk(u)
    BY <1>4, <2>1 DEF DrainChunk
  <2>2. CASE DrainAborted(u)
    BY <2>2 DEF DrainAborted
  <2>3. CASE DrainFinished(u)
    BY <2>3 DEF DrainFinished
  <2>4. CASE DrainSampled(u, stop)
    <3>1. TokenSent(u)
      BY <2>4, SampledEffect
    <3> QED BY <1>4, <2>4, <3>1 DEF DrainSampled
  <2> QED BY <2>1, <2>2, <2>3, <2>4 DEF DrainOne
<1>7. /\ \A v \in Uid : v # u => sent'[v] = sent[v]
      /\ sent'[u].admitted = sent[u].admitted /\ sent'[u].acks = sent[u].acks
  BY <1>6 DEF TokenSent
<1>8. /\ ToSet(pending) \subseteq Uid /\ running \subseteq Uid /\ chunked \subseteq Uid
      /\ \A v \in Uid : /\ job[v].input \in Nat /\ job[v].output \in Nat
                        /\ sent[v].tokens \in Nat /\ req[v].deviceLen \in Nat
                        /\ req[v].maxLen \in Nat
  BY ElemsType DEF IndInv, ControlTypeOK, Sent, Req
<1>9. AdmitInv'
  <2>1. \A v \in Uid : sent'[v].admitted = sent[v].admitted
    BY <1>7
  <2> QED BY <1>1, <1>3, <1>8, <2>1 DEF AdmitInv
<1>10. TokenDue(u) => Sampled(u) /\ u \notin newFinished
  BY <1>1 DEF TokenInv, Unsampled, TokenDue
<1>11. TokenInv'
  <2>1. ASSUME NEW v \in Uid PROVE Unsampled(v)' \/ Sampled(v)'
    <3>1. CASE Unsampled(v)
      <4>1. v = u => ~TokenDue(u)
        BY <3>1 DEF Unsampled
      <4>2. sent'[v].tokens = sent[v].tokens
        BY <1>6, <1>7, <4>1
      <4> QED BY <1>3, <1>4, <3>1, <4>2 DEF Unsampled
    <3>2. CASE Sampled(v) /\ (v # u \/ ~TokenDue(u))
      <4>1. sent'[v] = sent[v] /\ TokensDue(v)' = TokensDue(v)
        BY <1>5, <1>6, <1>7, <3>2
      <4> QED BY <1>1, <1>2, <1>3, <1>4, <3>2, <4>1 DEF Sampled
    <3>3. CASE v = u /\ TokenDue(u)
      <4> DEFINE len == req[u].deviceLen
                 in == job[u].input
                 n == sent[u].tokens
                 due == TokensDue(u)'
      <4>1. /\ Sampled(u) /\ len \in Nat /\ in \in Nat /\ n \in Nat /\ due \in Nat
            /\ TokensDue(u) = due + 1
        BY <1>5, <1>8, <1>10, <3>3
      <4>2. /\ sent'[u].admitted = 1 /\ u \notin ToSet(pending') \cup toSend'
            /\ req'[u].maxLen = job'[u].input + job'[u].output
            /\ req'[u].deviceLen <= req'[u].maxLen
            /\ req'[u].deviceLen = len /\ job'[u].input = in
            /\ in + n + (due + 1) <= len
        BY <1>1, <1>2, <1>7, <4>1 DEF Sampled
      <4>3. CASE sent' = sent /\ (req[u].aborted \/ u \in finished)
        <5>1. req'[u].aborted \/ u \in finished' \cup newFinished'
          BY <1>1, <1>2, <4>3
        <5>2. sent'[u].tokens = n
          BY <4>3
        <5> HIDE DEF len, in, n, due
        <5>3. in + n + due <= len
          BY <4>1, <4>2
        <5> QED BY <3>3, <4>2, <5>1, <5>2, <5>3 DEF Sampled, due
      <4>4. CASE TokenSent(u)
        <5>1. in + n + (due + 1) = len
          BY <1>10, <3>3, <4>1, <4>4 DEF Sampled, TokenSent
        <5>2. sent'[u].tokens = n + 1
          BY <4>4 DEF TokenSent
        <5> HIDE DEF len, in, n, due
        <5>3. in + (n + 1) + due = len /\ in + (n + 1) + due <= len
          BY <4>1, <5>1
        <5> QED BY <3>3, <4>2, <5>2, <5>3 DEF Sampled, due
      <4> QED BY <1>6, <3>3, <4>3, <4>4
    <3> QED BY <3>1, <3>2, <3>3 DEF TokenInv
  <2>2. finished' \cap Overtaking' = {} /\ newFinished' \cap Undrained' = {}
    BY <1>1, <1>3 DEF TokenInv
  <2> QED BY <1>1, <2>1, <2>2 DEF TokenInv
<1>12. ~Overlap /\ FullInv => FullInv'
  <2> SUFFICES ASSUME ~Overlap, FullInv, NEW v \in Uid, sent'[v].finish = "length"
               PROVE  /\ v \notin toSend' \cup ToSet(pending') \cup running' /\ ~TokenDue(v)'
                      /\ sent'[v].tokens = job'[v].output
    BY DEF FullInv
  <2>1. CASE sent[v].finish = "length"
    <3>1. v = u => ~TokenDue(u)
      BY <2>1 DEF FullInv
    <3>2. sent'[v].tokens = sent[v].tokens
      BY <1>6, <1>7, <3>1
    <3> QED BY <1>1, <1>3, <1>4, <2>1, <3>2 DEF FullInv
  <2>2. CASE sent[v].finish # "length"
    <3>1. v = u /\ TokenDue(u) /\ TokenSent(u)
      BY <1>6, <1>7, <2>2
    <3>2. ~CanDecode(u) /\ u \notin running'
      BY <2>2, <3>1 DEF TokenSent
    <3>3. /\ Sampled(u) /\ job[u].input + sent[u].tokens + TokensDue(u) = req[u].deviceLen
      BY <1>10, <3>1 DEF Sampled, TokenSent
    <3>4. TokensDue(u) = 1
      BY <3>1 DEF TokensDue, TokenNext, Overtaking
    <3>5. req[u].maxLen <= req[u].deviceLen
      BY <1>8, <3>2 DEF CanDecode, RemainLen
    <3>6. req[u].maxLen = job[u].input + job[u].output /\ req[u].deviceLen <= req[u].maxLen
          /\ u \notin ToSet(pending) \cup toSend
      BY <3>3 DEF Sampled
    <3>7. sent[u].tokens + 1 = job[u].output
      <4> DEFINE len == req[u].deviceLen
                 max == req[u].maxLen
                 in == job[u].input
                 out == job[u].output
                 n == sent[u].tokens
      <4>1. /\ len \in Nat /\ max \in Nat /\ in \in Nat /\ out \in Nat /\ n \in Nat
            /\ in + n + 1 = len /\ max <= len /\ max = in + out /\ len <= max
        BY <1>8, <3>3, <3>4, <3>5, <3>6
      <4> HIDE DEF len, max, in, out, n
      <4>2. n + 1 = out
        BY <4>1
      <4> QED BY <4>2 DEF n, out
    <3> QED BY <1>1, <1>4, <3>1, <3>2, <3>6, <3>7 DEF TokenSent
  <2> QED BY <2>1, <2>2
<1>13. ASSUME QuietInv PROVE QuietInv' /\ Answers
  <2>1. TokenDue(u) /\ TokenSent(u) => ~Terminal(u) /\ u \notin ToSet(pending) \cup toSend
    BY <1>1, <1>4, <1>13 DEF QuietInv, TokenSent
  <2>2. ASSUME NEW v \in Uid, Terminal(v)'
        PROVE  Terminal(v) \/ (v = u /\ TokenDue(u) /\ TokenSent(u))
    <3>1. CASE sent' = sent
      BY <2>2, <3>1 DEF Terminal
    <3>2. CASE sent' # sent /\ v # u
      BY <1>7, <2>2, <3>2 DEF Terminal
    <3> QED BY <1>6, <3>1, <3>2
  <2>3. QuietInv'
    <3> SUFFICES ASSUME NEW v \in Uid
                 PROVE  /\ Terminal(v)' \/ v \in acks' =>
                              /\ v \notin ToSet(pending') \cup running'
                              /\ v \in toSend' => v \in ToSet(tombstones')
                        /\ v \in acks' => ~TokenNext(v)'
                        /\ Terminal(v)' => /\ TokenDue(v)' => req'[v].aborted \/ v \in finished'
                                           /\ TokenNext(v)' => v \in newFinished'
      BY DEF QuietInv
    <3>1. CASE Terminal(v) \/ ~Terminal(v)'
      BY <1>1, <1>2, <1>3, <1>4, <1>13, <3>1 DEF QuietInv
    <3>2. CASE ~Terminal(v) /\ Terminal(v)'
      <4>1. v = u /\ TokenDue(u) /\ TokenSent(u) /\ u \notin ToSet(pending) \cup toSend
        BY <2>1, <2>2, <3>2
      <4>2. sent'[u].finish # sent[u].finish
        BY <3>2, <4>1 DEF Terminal, TokenSent
      <4>3. u \in newFinished' /\ u \notin running'
        BY <4>1, <4>2 DEF TokenSent
      <4> QED BY <1>1, <1>4, <1>13, <4>1, <4>3 DEF QuietInv
    <3> QED BY <3>1, <3>2
  <2>4. AnswersKept
    <3>1. Terminal(u) => sent'[u] = sent[u]
      BY <1>6, <2>1
    <3> QED BY <1>7, <3>1 DEF AnswersKept
  <2>5. ASSUME NEW v \in Uid PROVE Reported(v)
    <3>1. CASE sent'[v] = sent[v]
      BY <1>1, <3>1 DEF Reported, Life, Terminal
    <3>2. CASE sent'[v] # sent[v]
      <4>1. v = u /\ TokenDue(u) /\ TokenSent(u)
        BY <1>6, <1>7, <3>2
      <4>2. Life(u) = "live" /\ Life(u)' \in {"live", "over"}
        BY <1>1, <2>1, <4>1 DEF Life
      <4> QED BY <4>1, <4>2 DEF Reported, TokenSent
    <3> QED BY <3>1, <3>2
  <2> QED BY <2>3, <2>4, <2>5 DEF Answers
<1> QED BY <1>9, <1>11, <1>12, <1>13 DEF AnswerStep

\* The end of the pass: the acknowledgements go out, and what overlap has launched is what the
\* next drain settles.
LEMMA EndPassAnswers ==
    ASSUME IndInv, AdmitInv, TokenInv, EndPass
    PROVE  AnswerStep
<1>1. /\ phase = "drain" /\ phase' = "recv" /\ todo = {} /\ ongoing' = NoBatch
      /\ newFinished' = {} /\ acks' = {} /\ sent' = FlushAbortAcks
      /\ lastData' = IF Overlap THEN ongoing ELSE NoBatch
      /\ finished' = IF Drained = NoBatch THEN finished ELSE newFinished
      /\ UNCHANGED <<toSend, job, pending, chunked, req, running, adder, tombstones>>
  BY DEF EndPass, envVars, queueVars, passVars
<1>2. /\ Undrained' = Overtaking /\ Overtaking' = {} /\ Undrained = {} /\ DrainBatch' = lastData'
  BY <1>1 DEF Undrained, Overtaking, DrainBatch, NoBatch
<1>3. /\ \A v : ~TokenDue(v) /\ ~TokenNext(v)'
      /\ \A v : TokenDue(v)' <=> TokenNext(v)
  BY <1>1, <1>2 DEF TokenDue, TokenNext, Overtaking, NoBatch
<1>4. \A v : TokensDue(v)' = TokensDue(v)
  BY <1>3 DEF TokensDue
<1>5. newFinished \subseteq finished' /\ finished' \subseteq finished \cup newFinished
      /\ (finished' = newFinished \/ (finished' = finished /\ newFinished = {}))
  BY <1>1 DEF IndInv, Ownership, BatchInv
<1>6. \A v \in finished : v \notin running
  BY DEF IndInv, Ownership, BatchInv, HolderInv
<1>7. \A v \in Uid : /\ sent'[v].admitted = sent[v].admitted
                     /\ sent'[v].tokens = sent[v].tokens
                     /\ sent'[v].finish = sent[v].finish
                     /\ Terminal(v)' <=> Terminal(v) \/ v \in acks
  <2> SUFFICES ASSUME NEW v \in Uid
               PROVE  /\ sent'[v].admitted = sent[v].admitted
                      /\ sent'[v].tokens = sent[v].tokens
                      /\ sent'[v].finish = sent[v].finish
                      /\ Terminal(v)' <=> Terminal(v) \/ v \in acks
    OBVIOUS
  <2>1. sent[v] \in Sent /\ sent[v].acks \in Nat
    BY DEF IndInv, ControlTypeOK, Sent
  <2>2. sent'[v] = IF v \in acks THEN [sent[v] EXCEPT !.acks = sent[v].acks + 1] ELSE sent[v]
    BY <1>1 DEF FlushAbortAcks
  <2>3. /\ sent'[v].admitted = sent[v].admitted
        /\ sent'[v].tokens = sent[v].tokens
        /\ sent'[v].finish = sent[v].finish
        /\ sent'[v].acks = IF v \in acks THEN sent[v].acks + 1 ELSE sent[v].acks
    BY <2>1, <2>2 DEF Sent
  <2>4. Terminal(v)' <=> Terminal(v) \/ v \in acks
    BY <2>1, <2>3 DEF Terminal
  <2> QED BY <2>3, <2>4
<1>8. ToSet(pending) \subseteq Uid /\ running \subseteq Uid /\ chunked \subseteq Uid
      /\ adder.reqs \subseteq Uid
  BY ElemsType DEF IndInv, ControlTypeOK, Adder
<1>9. AdmitInv'
  BY <1>1, <1>7, <1>8 DEF AdmitInv
<1>10. TokenInv'
  <2>1. ASSUME NEW v \in Uid PROVE Unsampled(v)' \/ Sampled(v)'
    <3>1. CASE Unsampled(v)
      BY <1>1, <1>3, <1>7, <3>1 DEF Unsampled
    <3>2. CASE Sampled(v)
      <4>1. \/ v \notin running' /\ ~TokenDue(v)' /\ ~TokenNext(v)'
            \/ req'[v].aborted \/ v \in finished' \cup newFinished'
            \/ job'[v].input + sent'[v].tokens + TokensDue(v)' = req'[v].deviceLen
        <5>1. CASE v \in finished \ newFinished
          <6>1. ~TokenNext(v)
            BY <5>1 DEF TokenInv, TokenNext
          <6> QED BY <1>1, <1>3, <1>6, <5>1, <6>1
        <5>2. CASE v \notin finished \ newFinished
          BY <1>1, <1>3, <1>4, <1>5, <1>7, <3>2, <5>2 DEF Sampled
        <5> QED BY <5>1, <5>2
      <4> QED BY <1>1, <1>4, <1>7, <3>2, <4>1 DEF Sampled
    <3> QED BY <3>1, <3>2 DEF TokenInv
  <2> QED BY <1>1, <1>2, <2>1 DEF TokenInv
<1>11. ~Overlap /\ FullInv => FullInv'
  <2>1. ~Overlap => \A v : ~TokenDue(v)'
    BY <1>2 DEF TokenDue, Overtaking
  <2> QED BY <1>1, <1>7, <2>1 DEF FullInv
<1>12. ASSUME QuietInv PROVE QuietInv' /\ Answers
  <2>1. QuietInv'
    <3> SUFFICES ASSUME NEW v \in Uid
                 PROVE  /\ Terminal(v)' \/ v \in acks' =>
                              /\ v \notin ToSet(pending') \cup running'
                              /\ v \in toSend' => v \in ToSet(tombstones')
                        /\ v \in acks' => ~TokenNext(v)'
                        /\ Terminal(v)' => /\ TokenDue(v)' => req'[v].aborted \/ v \in finished'
                                           /\ TokenNext(v)' => v \in newFinished'
      BY DEF QuietInv
    <3> QED BY <1>1, <1>3, <1>5, <1>7, <1>12 DEF QuietInv
  <2>2. AnswersKept
    BY <1>7 DEF AnswersKept
  <2>3. \A v \in Uid : Reported(v)
    BY <1>1, <1>7 DEF Reported, Life
  <2> QED BY <2>1, <2>2, <2>3 DEF Answers
<1> QED BY <1>9, <1>10, <1>11, <1>12 DEF AnswerStep

-----------------------------------------------------------------------------
(* The theorems *)

\* In the first state nothing was reported and nothing is on its way.
LEMMA InitAnswers == Init => AdmitInv /\ TokenInv /\ QuietInv /\ FullInv
<1> SUFFICES ASSUME Init PROVE AdmitInv /\ TokenInv /\ QuietInv /\ FullInv
  OBVIOUS
<1>1. /\ toSend = Uid /\ pending = <<>> /\ chunked = {} /\ running = {} /\ acks = {}
      /\ adder.reqs = {} /\ adder.fresh = {} /\ finished = {} /\ newFinished = {}
      /\ \A u \in Uid : sent[u].admitted = 0 /\ sent[u].tokens = 0 /\ ~Terminal(u)
                        /\ sent[u].finish = "none"
  BY DEF Init, NoAdder, NothingSent, Terminal
<1>2. ToSet(pending) = {}
  BY <1>1, EmptyElems
<1>3. Undrained = {} /\ Overtaking = {}
  BY DEF Init, Undrained, Overtaking, NoBatch
<1>4. \A u : ~TokenDue(u) /\ ~TokenNext(u)
  BY <1>3 DEF TokenDue, TokenNext
<1> QED BY <1>1, <1>2, <1>3, <1>4 DEF AdmitInv, TokenInv, QuietInv, FullInv, Unsampled

\* Every message and every step of the loop reports what it should.
LEMMA NextAnswers ==
    ASSUME IndInv, AdmitInv, TokenInv, [Next]_vars
    PROVE  AnswerStep
<1>1. ASSUME NEW u \in Uid, NEW p \in PromptLens, NEW m \in OutLens, RecvUser(u, p, m)
      PROVE  AnswerStep
  BY <1>1, RecvUserAnswers
<1>2. ASSUME NEW u \in Uid, RecvAbort(u) PROVE AnswerStep
  BY <1>2, RecvAbortAnswers
<1>3. CASE RecvRebuild
  <2>1. /\ UNCHANGED <<phase, toSend, job, pending, chunked, req, running, lastData, ongoing, todo,
                       finished, newFinished, tombstones, acks, sent, adder>>
    BY <1>3 DEF RecvRebuild, envVars, queueVars, passVars, batchVars
  <2> QED BY <2>1, SameAnswers
<1>4. CASE EndRecv \/ \E n \in PageCounts : ExecuteRebuild(n)
  <2>1. /\ phase = "recv" /\ phase' = "admit" /\ adder' = FreshAdder
        /\ UNCHANGED <<toSend, job, pending, chunked, req, running, lastData, ongoing, todo,
                       finished, newFinished, tombstones, acks, sent>>
    BY <1>4 DEF EndRecv, ExecuteRebuild, envVars, queueVars, batchVars
  <2>2. /\ adder'.reqs = adder.reqs /\ adder'.fresh = adder.fresh /\ adder'.chunks = adder.chunks
    BY <2>1 DEF FreshAdder, NoAdder, IndInv, Ownership, QueueInv
  <2> QED BY <2>1, <2>2, SameAnswers
<1>5. CASE AdmitOne
  BY <1>5, AdmitOneAnswers
<1>6. CASE Launch
  BY <1>6, LaunchAnswers
<1>7. CASE LaunchDies
  <2>1. /\ phase = "admit" /\ phase' \in {"allocfail", "dead"}
        /\ UNCHANGED <<toSend, job, pending, chunked, req, running, lastData, ongoing, todo,
                       finished, newFinished, tombstones, acks, sent, adder>>
    BY <1>7 DEF LaunchDies, envVars, queueVars, passVars, batchVars
  <2> QED BY <2>1, SameAnswers
<1>8. ASSUME NEW u \in Uid, NEW stop \in BOOLEAN, DrainOne(u, stop) PROVE AnswerStep
  BY <1>8, DrainOneAnswers
<1>9. CASE EndPass
  BY <1>9, EndPassAnswers
<1>10. CASE UNCHANGED vars
  <2>1. /\ UNCHANGED <<phase, toSend, job, pending, chunked, req, running, lastData, ongoing, todo,
                       finished, newFinished, tombstones, acks, sent, adder>>
    BY <1>10 DEF vars, loopVars, envVars, queueVars, passVars, batchVars
  <2> QED BY <2>1, SameAnswers
<1> QED BY <1>1, <1>2, <1>3, <1>4, <1>5, <1>6, <1>7, <1>8, <1>9, <1>10 DEF Next, Receive, Pass

\* The bookkeeping of prompts and tokens is inductive, in both loops and for every capacity.
LEMMA Bookkeeping == Spec => [](AdmitInv /\ TokenInv)
<1>1. IndInv /\ AdmitInv /\ TokenInv /\ [Next]_vars => (AdmitInv /\ TokenInv)'
  BY NextAnswers DEF AnswerStep
<1> QED BY <1>1, Inductive, InitAnswers, PTL DEF Spec

\* A prompt is reported once, however it is chunked, and no client gets more tokens than its
\* clamped max_tokens, whatever the loop has launched beyond that (prompt_admissions,
\* _process_last_data).
THEOREM PromptsAccountedOnce == Spec => []AccountedOnce
<1>1. IndInv /\ AdmitInv /\ TokenInv => AccountedOnce
  <2> SUFFICES ASSUME IndInv, AdmitInv, TokenInv, NEW u \in Uid
               PROVE  sent[u].admitted <= 1 /\ sent[u].tokens <= job[u].output * sent[u].admitted
    BY DEF AccountedOnce
  <2>1. /\ job[u].input \in Nat /\ job[u].output \in Nat /\ sent[u].tokens \in Nat
        /\ req[u].deviceLen \in Nat
    BY DEF IndInv, ControlTypeOK, Sent, Req
  <2>2. sent[u].admitted \in {0, 1}
    BY DEF AdmitInv
  <2>3. CASE Unsampled(u)
    <3>1. sent[u].tokens = 0 /\ 0 <= job[u].output * sent[u].admitted
      BY <2>1, <2>2, <2>3 DEF Unsampled
    <3> QED BY <2>2, <3>1
  <2>4. CASE Sampled(u)
    <3>1. /\ sent[u].admitted = 1
          /\ job[u].input + sent[u].tokens + TokensDue(u) <= req[u].deviceLen
          /\ req[u].deviceLen <= job[u].input + job[u].output
      BY <2>4 DEF Sampled
    <3>2. TokensDue(u) \in Nat
      BY DEF TokensDue
    <3>3. sent[u].tokens <= job[u].output
      BY <2>1, <3>1, <3>2
    <3> QED BY <2>1, <3>1, <3>3
  <2> QED BY <2>3, <2>4 DEF TokenInv
<1> QED BY <1>1, Bookkeeping, Inductive, PTL

\* Without overlap "length" means that the whole budget was delivered; with it the last token
\* of a request may be lost (the run SchedulerLength shows how).
THEOREM FullBudget ==
    ASSUME Overlap = FALSE
    PROVE  Spec => []LengthMeansFullBudget
<1>1. IndInv /\ AdmitInv /\ TokenInv /\ FullInv /\ [Next]_vars => FullInv'
  BY NextAnswers DEF AnswerStep
<1>2. FullInv => LengthMeansFullBudget
  BY DEF FullInv, LengthMeansFullBudget
<1> QED BY <1>1, <1>2, Bookkeeping, Inductive, InitAnswers, PTL DEF Spec

\* With room for the tombstones, a request that was answered for good is out of the loop.
LEMMA Quiet == AbortsRemembered => (Spec => [](IndInv /\ AdmitInv /\ TokenInv /\ QuietInv))
<1> SUFFICES ASSUME AbortsRemembered PROVE Spec => [](IndInv /\ AdmitInv /\ TokenInv /\ QuietInv)
  OBVIOUS
<1>1. IndInv /\ AdmitInv /\ TokenInv /\ QuietInv /\ [Next]_vars => QuietInv'
  BY NextAnswers DEF AnswerStep
<1> QED BY <1>1, Bookkeeping, Inductive, InitAnswers, PTL DEF Spec

\* A terminal reply is final: no token, no prompt report and no second finish follows it, and a
\* request aborted before it arrived is not revived.
THEOREM AnswersAreFinal ==
    ASSUME AbortsRemembered
    PROVE  Spec => NothingAfterTerminal
<1>1. IndInv /\ AdmitInv /\ TokenInv /\ QuietInv /\ [Next]_vars => AnswersKept
  BY NextAnswers DEF AnswerStep, Answers
<1>2. AnswersKept => [\A u \in Uid : Terminal(u) =>
                        /\ sent'[u].admitted = sent[u].admitted
                        /\ sent'[u].tokens = sent[u].tokens
                        /\ sent'[u].finish = sent[u].finish]_vars
  BY DEF AnswersKept
<1>3. IndInv /\ AdmitInv /\ TokenInv /\ QuietInv /\ [Next]_vars =>
          [\A u \in Uid : Terminal(u) =>
                        /\ sent'[u].admitted = sent[u].admitted
                        /\ sent'[u].tokens = sent[u].tokens
                        /\ sent'[u].finish = sent[u].finish]_vars
  BY <1>1, <1>2
<1> QED BY <1>3, Quiet, PTL DEF Spec, NothingAfterTerminal

\* Scheduler implements Backend: the first state maps to its first state, and every step to one
\* in which each request arrives, gets a token, ends for good, or stays as it is.
THEOREM BackendImplemented ==
    ASSUME AbortsRemembered
    PROVE  Spec => ImplementsBackend
<1>1. Init => Contract!Init
  <2> SUFFICES ASSUME Init PROVE Contract!Init
    OBVIOUS
  <2>1. \A u \in Uid : Life(u) = "unsent" /\ sent[u].tokens = 0
    BY DEF Init, Life, Terminal, NothingSent
  <2> QED BY <2>1 DEF Contract!Init
<1>2. IndInv /\ IndInv' /\ AdmitInv /\ TokenInv /\ QuietInv /\ [Next]_vars => Contract!Next
  BY NextAnswers, ContractStep DEF AnswerStep, IndInv
<1>3. Contract!Next => [Contract!Next]_(Contract!vars)
  OBVIOUS
<1> QED BY <1>1, <1>2, <1>3, Quiet, PTL DEF Spec, ImplementsBackend, Contract!Spec
===============================================================================

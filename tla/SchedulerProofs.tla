-------------------------- MODULE SchedulerProofs --------------------------
(* The scheduler never loses, shares or double-frees a row of the page table, for any number  *)
(* of requests, rows and pages and in both loops.  The argument is one inductive invariant.   *)
EXTENDS Scheduler, DataLemmas, FiniteSetTheorems, TLAPS

\* The inductive invariant: types, the two conclusions, and where each request is.
IndInv == ControlTypeOK /\ SlotsConserved /\ InflightSafe /\ Ownership

\* _free_req_resources gives a row back once, however often it is called.
LEMMA FreeOnce ==
    ASSUME NEW u \in Uid, ControlTypeOK, SlotsConserved, FreeReqResources(u)
    PROVE  /\ req' \in [Uid -> Req] /\ freeSlots' \in [Slot -> Nat]
           /\ SlotsConserved'
           /\ \A v \in Uid : v # u => req'[v] = req[v]
           /\ req'[u] = [req[u] EXCEPT !.tableIdx = NoSlot]
           /\ ~Holds(u)'
           /\ \A v \in Uid : Holds(v)' => Holds(v)
           /\ \A v \in Uid : req'[v].aborted = req[v].aborted
           /\ \A v \in Uid : CanDecode(v)' <=> CanDecode(v)
           /\ \A v \in Uid : req'[v].deviceLen = req[v].deviceLen
           /\ \A v \in Uid : req'[v].cachedLen = req[v].cachedLen
           /\ \A v \in Uid : req'[v].maxLen = req[v].maxLen
<1> USE SchedulerConstants
<1>1. req \in [Uid -> Req] /\ freeSlots \in [Slot -> Nat]
  BY DEF ControlTypeOK
<1>2. req' = [req EXCEPT ![u] = [req[u] EXCEPT !.tableIdx = NoSlot]]
  BY DEF FreeReqResources, Freed
<1>3. /\ req' \in [Uid -> Req] /\ req'[u] = [req[u] EXCEPT !.tableIdx = NoSlot]
      /\ \A v \in Uid : v # u => req'[v] = req[v]
  BY <1>1, <1>2 DEF Req
<1>4. /\ freeSlots' \in [Slot -> Nat]
      /\ \A s \in Slot : freeSlots'[s] = IF s = req[u].tableIdx THEN freeSlots[s] + 1
                                         ELSE freeSlots[s]
  BY <1>1 DEF FreeReqResources
<1>5. SlotsConserved'
  <2>1. \A v \in Uid : req'[v].tableIdx = IF v = u THEN NoSlot ELSE req[v].tableIdx
    BY <1>1, <1>3 DEF Req
  <2>2. ASSUME NEW s \in Slot, s = req[u].tableIdx
        PROVE  /\ freeSlots'[s] = 1 /\ \A v \in Uid : req'[v].tableIdx # s
    BY <1>1, <1>4, <2>1, <2>2 DEF SlotsConserved
  <2>3. ASSUME NEW s \in Slot, s # req[u].tableIdx
        PROVE  /\ freeSlots'[s] = freeSlots[s]
               /\ \A v \in Uid : req'[v].tableIdx = s <=> req[v].tableIdx = s
    BY <1>1, <1>4, <2>1, <2>3
  <2> SUFFICES ASSUME NEW s \in Slot
               PROVE  /\ freeSlots'[s] \in {0, 1}
                      /\ freeSlots'[s] = 1 <=> \A v \in Uid : req'[v].tableIdx # s
                      /\ \A v, w \in Uid : req'[v].tableIdx = s /\ req'[w].tableIdx = s => v = w
    BY DEF SlotsConserved
  <2>4. CASE s = req[u].tableIdx
    BY <2>2, <2>4
  <2>5. CASE s # req[u].tableIdx
    BY <2>3, <2>5 DEF SlotsConserved
  <2> QED BY <2>4, <2>5
<1>6. ~Holds(u)' /\ \A v \in Uid : Holds(v)' => Holds(v)
  BY <1>1, <1>3 DEF Holds, Req
<1>7. \A v \in Uid : /\ req'[v].aborted = req[v].aborted
                     /\ req'[v].deviceLen = req[v].deviceLen
                     /\ req'[v].maxLen = req[v].maxLen
                     /\ req'[v].cachedLen = req[v].cachedLen
  BY <1>1, <1>3 DEF Req
<1>8. \A v \in Uid : CanDecode(v)' <=> CanDecode(v)
  BY <1>7 DEF CanDecode, RemainLen
<1> QED BY <1>3, <1>4, <1>5, <1>6, <1>7, <1>8

\* Init: nobody holds anything, every row is free (TableManager.__init__).
LEMMA InitInv == Init => IndInv
<1> SUFFICES ASSUME Init PROVE IndInv
  OBVIOUS
<1> USE SchedulerConstants
<1>1. ControlTypeOK
  <2>1. /\ phase \in Phases /\ waiting \in BOOLEAN
        /\ toSend \subseteq Uid /\ aborts \in [Uid -> Nat] /\ pending \in Seq(Uid)
        /\ chunked \subseteq Uid /\ running \subseteq Uid /\ todo \subseteq Uid
        /\ finished \subseteq Uid /\ newFinished \subseteq Uid /\ tombstones \in Seq(Uid)
        /\ acks \subseteq Uid
    BY DEF Init, Phases
  <2>2. /\ freeSlots \in [Slot -> Nat] /\ numPages \in Nat /\ rebuild \in BOOLEAN
        /\ rebuilds \in [received : Nat, replied : Nat] /\ wedged \in BOOLEAN
    BY DEF Init
  <2>3. adder \in Adder
    BY DEF Init, NoAdder, Adder
  <2>4. lastData \in Batch /\ ongoing \in Batch
    BY DEF Init, NoBatch, Batch
  <2>5. req \in [Uid -> Req]
    BY DEF Init, NoReq, Req
  <2>6. sent \in [Uid -> Sent]
    BY DEF Init, NothingSent, Sent
  <2>7. job \in [Uid -> [input : Nat, output : Nat]]
    BY DEF Init, NoJob
  <2> QED BY <2>1, <2>2, <2>3, <2>4, <2>5, <2>6, <2>7 DEF ControlTypeOK
<1>2. \A u \in Uid : ~Holds(u) /\ ~req[u].aborted
  BY DEF Init, NoReq, Holds
<1>3. SlotsConserved
  BY DEF Init, SlotsConserved, NoReq
<1>4. InflightSafe
  BY DEF Init, InflightSafe, Undrained, Overtaking, NoBatch
<1>5. QueueInv
  BY DEF Init, QueueInv, NoAdder, IsInjective, ToSet
<1>6. HolderInv
  BY <1>2, <1>5 DEF Init, HolderInv, QueueInv, NoAdder, ToSet
<1>7. ChunkInv
  BY DEF Init, ChunkInv
<1>8. BatchInv
  BY <1>2 DEF Init, BatchInv, Undrained, DrainBatch, Overtaking, NoBatch, Drained
<1> QED BY <1>1, <1>3, <1>4, <1>5, <1>6, <1>7, <1>8 DEF IndInv, Ownership

-----------------------------------------------------------------------------
(* Receiving *)

\* The variables the invariant, the types apart, is about.
coreVars == <<phase, toSend, job, pending, chunked, req, running, adder, lastData, ongoing, todo,
              finished, newFinished, freeSlots>>

\* A step that leaves them alone keeps the invariant.
LEMMA SameCore ==
    ASSUME IndInv, UNCHANGED <<coreVars, tombstones>>
    PROVE  SlotsConserved' /\ InflightSafe' /\ Ownership'
<1> USE DEF coreVars
<1>1. SlotsConserved'
  BY DEF IndInv, SlotsConserved
<1>2. InflightSafe'
  BY DEF IndInv, InflightSafe, Undrained, Overtaking, Holds
<1>3. QueueInv'
  BY DEF IndInv, Ownership, QueueInv
<1>4. HolderInv'
  BY DEF IndInv, Ownership, HolderInv, Undrained, Overtaking, Holds, CanDecode, RemainLen
<1>5. ChunkInv'
  BY DEF IndInv, Ownership, ChunkInv
<1>6. BatchInv'
  BY DEF IndInv, Ownership, BatchInv, Undrained, DrainBatch, Drained, Overtaking, Holds,
         CanDecode, RemainLen
<1> QED BY <1>1, <1>2, <1>3, <1>4, <1>5, <1>6 DEF Ownership

\* A rebuild message only sets a flag or is answered.
LEMMA RecvRebuildInv == IndInv /\ RecvRebuild => IndInv'
<1> SUFFICES ASSUME IndInv, RecvRebuild PROVE IndInv'
  OBVIOUS
<1>1. UNCHANGED <<coreVars, tombstones>>
  BY DEF RecvRebuild, coreVars, envVars, queueVars, passVars, batchVars, poolVars
<1>2. ControlTypeOK'
  <2>1. rebuild' \in BOOLEAN /\ waiting' \in BOOLEAN
    BY Zenon DEF RecvRebuild
  <2>2. rebuilds' \in [received : Nat, replied : Nat]
    BY DEF IndInv, ControlTypeOK, RecvRebuild
  <2>3. UNCHANGED <<aborts, numPages, tombstones, acks, wedged, sent>>
    BY DEF RecvRebuild, envVars
  <2> QED BY <1>1, <2>1, <2>2, <2>3 DEF IndInv, ControlTypeOK, coreVars
<1> QED BY <1>1, <1>2, SameCore DEF IndInv

\* A UserMsg is dropped, refused or queued; in each case it has left toSend.
LEMMA RecvUserInv ==
    ASSUME IndInv, NEW u \in Uid, NEW p \in PromptLens, NEW m \in OutLens, RecvUser(u, p, m)
    PROVE  IndInv'
<1> USE SchedulerConstants
<1>1. /\ phase = "recv" /\ u \in toSend /\ toSend' = toSend \ {u} /\ waiting' = FALSE
      /\ UNCHANGED <<phase, aborts, chunked, req, running, adder, lastData, ongoing, todo,
                     newFinished, finished, freeSlots, acks, rebuild, rebuilds, wedged, numPages>>
  BY DEF RecvUser, passVars, batchVars, poolVars, ctlVars
<1>2. /\ pending \in Seq(Uid) /\ IsInjective(pending) /\ ToSet(pending) \cap toSend = {}
      /\ job \in [Uid -> [input : Nat, output : Nat]] /\ tombstones \in Seq(Uid)
      /\ IsInjective(tombstones) /\ sent \in [Uid -> Sent] /\ numPages \in Nat
  BY DEF IndInv, ControlTypeOK, Ownership, QueueInv
<1>3. /\ pending' \in Seq(Uid) /\ IsInjective(pending')
      /\ ToSet(pending) \subseteq ToSet(pending')
      /\ ToSet(pending') \subseteq ToSet(pending) \cup {u}
  <2>1. pending' = pending \/ pending' = Append(pending, u)
    BY DEF RecvUser
  <2>2. u \notin ToSet(pending)
    BY <1>1, <1>2
  <2>3. CASE pending' = pending
    BY <1>2, <2>3
  <2>4. CASE pending' = Append(pending, u)
    BY <1>2, <2>2, <2>4, AppendElems
  <2> QED BY <2>1, <2>3, <2>4
<1>4. tombstones' \in Seq(Uid) /\ IsInjective(tombstones')
  <2>1. tombstones' = tombstones \/ tombstones' = RemoveFirst(tombstones, u)
    BY DEF RecvUser
  <2> QED BY <1>2, <2>1, RemoveElems
<1>5. sent' \in [Uid -> Sent]
  <2>1. sent' = sent \/ sent' = [sent EXCEPT ![u].finish = "error"]
    BY DEF RecvUser, TooLongReply
  <2>2. [sent[u] EXCEPT !.finish = "error"] \in Sent
    BY <1>2 DEF Sent
  <2> QED BY <1>2, <2>1, <2>2
<1>6. /\ job' \in [Uid -> [input : Nat, output : Nat]]
      /\ \A v \in Uid : v # u => job'[v] = job[v]
  <2>1. MaxSeqLen \in Nat
    BY <1>2 DEF MaxSeqLen
  <2>2. \/ job' = job
        \/ /\ MaxSeqLen - p > 0
           /\ job' = [job EXCEPT ![u] = [input |-> p, output |-> IF m > MaxSeqLen - p
                                                                 THEN MaxSeqLen - p ELSE m]]
    BY DEF RecvUser
  <2>3. MaxSeqLen - p > 0 => [input |-> p, output |-> IF m > MaxSeqLen - p
                              THEN MaxSeqLen - p ELSE m] \in [input : Nat, output : Nat]
    BY <2>1
  <2> QED BY <1>2, <2>2, <2>3
<1>7. ControlTypeOK'
  BY <1>1, <1>3, <1>4, <1>5, <1>6 DEF IndInv, ControlTypeOK
<1>8. SlotsConserved' /\ InflightSafe'
  BY <1>1 DEF IndInv, SlotsConserved, InflightSafe, Undrained, Overtaking, Holds
<1>9. QueueInv'
  BY <1>1, <1>3, <1>4 DEF IndInv, Ownership, QueueInv
<1>10. HolderInv'
  BY <1>1, <1>3 DEF IndInv, Ownership, HolderInv, Undrained, Overtaking, Holds, CanDecode, RemainLen
<1>11. ChunkInv'
  <2>1. \A v \in chunked : v \in Uid /\ v # u
    BY <1>1, <1>2 DEF IndInv, ControlTypeOK, Ownership, QueueInv
  <2> QED BY <1>1, <1>6, <2>1 DEF IndInv, Ownership, ChunkInv
<1>12. BatchInv'
  <2>1. ToSet(pending') \cup toSend' \subseteq ToSet(pending) \cup toSend
    BY <1>1, <1>3
  <2> QED BY <1>1, <2>1 DEF IndInv, Ownership, BatchInv, Undrained, DrainBatch, Drained,
                            Overtaking, Holds, CanDecode, RemainLen
<1> QED BY <1>7, <1>8, <1>9, <1>10, <1>11, <1>12 DEF IndInv, Ownership

\* What an abort makes of the Req object: it is freed now, or marked for the drain to free it.
AbortLeaves(u) ==
    /\ \A v \in Uid : v # u => req'[v] = req[v]
    /\ \A v \in Uid : Holds(v)' => Holds(v)
    /\ \A v \in Uid : /\ CanDecode(v)' <=> CanDecode(v)
                      /\ req'[v].deviceLen = req[v].deviceLen
                      /\ req'[v].maxLen = req[v].maxLen
    /\ Holds(u)' /\ u \in chunked \cup running => u \in lastData.reqs
    /\ u \in lastData.reqs /\ u \in chunked \cup running => req'[u].aborted
    /\ u \in lastData.reqs => (Holds(u)' <=> Holds(u))
    /\ req'[u].aborted => req[u].aborted \/ u \in chunked \cup running
    /\ req[u].aborted => req'[u].aborted

\* What an abort does, variable by variable.
LEMMA AbortEffect ==
    ASSUME IndInv, NEW u \in Uid, RecvAbort(u)
    PROVE  /\ phase = "recv" /\ chunked' = chunked \ {u} /\ running' = running \ {u}
           /\ pending' \in Seq(Uid) /\ IsInjective(pending')
           /\ ToSet(pending') = ToSet(pending) \ {u}
           /\ waiting' = FALSE /\ acks' = acks \cup {u} /\ tombstones' = AddTombstone(u)
           /\ aborts' = [aborts EXCEPT ![u] = @ + 1]
           /\ adder = NoAdder /\ ongoing = NoBatch /\ newFinished = {}
           /\ Undrained = lastData.reqs
           /\ UNCHANGED <<phase, toSend, job, adder, reserved, lastData, ongoing, todo, newFinished,
                          finished, rebuild, rebuilds, wedged, numPages, sent>>
           /\ req' \in [Uid -> Req] /\ freeSlots' \in [Slot -> Nat] /\ SlotsConserved'
           /\ AbortLeaves(u)
<1> USE SchedulerConstants
<1>1. /\ phase = "recv" /\ chunked' = chunked \ {u} /\ waiting' = FALSE
      /\ pending' = RemoveFirst(pending, u) /\ acks' = acks \cup {u}
      /\ tombstones' = AddTombstone(u) /\ aborts' = [aborts EXCEPT ![u] = @ + 1]
      /\ UNCHANGED <<phase, toSend, job, adder, reserved, lastData, ongoing, todo, newFinished,
                     finished, rebuild, rebuilds, wedged, numPages, sent>>
  BY DEF RecvAbort, passVars, batchVars, ctlVars
<1>2. /\ pending' \in Seq(Uid) /\ IsInjective(pending') /\ ToSet(pending') = ToSet(pending) \ {u}
  BY <1>1, RemoveElems DEF IndInv, ControlTypeOK, Ownership, QueueInv
<1>3. adder = NoAdder /\ ongoing = NoBatch /\ newFinished = {} /\ Undrained = lastData.reqs
  BY <1>1 DEF IndInv, Ownership, QueueInv, BatchInv, Undrained
<1>4. running' = running \ {u}
  BY DEF RecvAbort, IndInv, Ownership, QueueInv, HolderInv
<1>6. /\ req' \in [Uid -> Req] /\ freeSlots' \in [Slot -> Nat] /\ SlotsConserved'
      /\ AbortLeaves(u)
  <2>1. CASE AbortFinds(u) /\ InFlight(u)
    <3>1. req' = [req EXCEPT ![u].aborted = TRUE] /\ freeSlots' = freeSlots
      BY <2>1 DEF RecvAbort, poolVars
    <3>2. req \in [Uid -> Req] /\ freeSlots \in [Slot -> Nat]
      BY DEF IndInv, ControlTypeOK
    <3>3. /\ req' \in [Uid -> Req] /\ req'[u].aborted
          /\ \A v \in Uid : v # u => req'[v] = req[v]
          /\ \A v \in Uid : /\ req'[v].tableIdx = req[v].tableIdx
                            /\ req'[v].maxLen = req[v].maxLen
                            /\ req'[v].deviceLen = req[v].deviceLen
      BY ZenonT(30), <3>1, <3>2 DEF Req
    <3>4. \A v \in Uid : (Holds(v)' <=> Holds(v)) /\ (CanDecode(v)' <=> CanDecode(v))
      BY <3>3 DEF Holds, CanDecode, RemainLen
    <3>5. SlotsConserved'
      BY <3>1, <3>3 DEF IndInv, SlotsConserved
    <3> QED BY <2>1, <3>1, <3>2, <3>3, <3>4, <3>5 DEF AbortLeaves, AbortFinds, InFlight
  <2>2. CASE AbortFinds(u) /\ ~InFlight(u)
    <3>1. FreeReqResources(u)
      BY <2>2 DEF RecvAbort
    <3> QED BY <2>2, <3>1, FreeOnce DEF AbortLeaves, IndInv, AbortFinds, InFlight
  <2>3. CASE ~AbortFinds(u)
    <3>1. req' = req /\ freeSlots' = freeSlots
      BY <2>3 DEF RecvAbort, poolVars
    <3> QED BY <2>3, <3>1 DEF AbortLeaves, IndInv, ControlTypeOK, SlotsConserved, Holds, CanDecode,
                              RemainLen, AbortFinds
  <2> QED BY <2>1, <2>2, <2>3
<1> QED BY <1>1, <1>2, <1>3, <1>4, <1>6

\* An abort takes the request out of both managers; it frees the row now, or, under a forward
\* in flight, leaves the mark that makes the drain free it.
LEMMA RecvAbortInv ==
    ASSUME IndInv, NEW u \in Uid, RecvAbort(u)
    PROVE  IndInv'
<1> USE SchedulerConstants
<1>1. /\ phase = "recv" /\ chunked' = chunked \ {u} /\ waiting' = FALSE
      /\ acks' = acks \cup {u}
      /\ tombstones' = AddTombstone(u) /\ aborts' = [aborts EXCEPT ![u] = @ + 1]
      /\ UNCHANGED <<phase, toSend, job, adder, lastData, ongoing, todo, newFinished, finished,
                     rebuild, rebuilds, wedged, numPages, sent>>
  BY AbortEffect
<1>2. /\ pending' \in Seq(Uid) /\ IsInjective(pending') /\ ToSet(pending') = ToSet(pending) \ {u}
  BY AbortEffect
<1>3. adder = NoAdder /\ ongoing = NoBatch /\ newFinished = {} /\ Undrained = lastData.reqs
  BY AbortEffect
<1>4. running' = running \ {u}
  BY AbortEffect
<1>5. tombstones' \in Seq(Uid) /\ IsInjective(tombstones')
  <2> DEFINE added == IF u \in ToSet(tombstones) THEN tombstones ELSE Append(tombstones, u)
  <2>1. tombstones \in Seq(Uid) /\ IsInjective(tombstones)
    BY DEF IndInv, ControlTypeOK, Ownership, QueueInv
  <2>2. added \in Seq(Uid) /\ IsInjective(added)
    BY <2>1, AppendElems
  <2>3. tombstones' = added \/ (Len(added) > TombstoneCap /\ tombstones' = Tail(added))
    BY <1>1 DEF AddTombstone
  <2> HIDE DEF added
  <2>4. CASE Len(added) > TombstoneCap /\ tombstones' = Tail(added)
    <3>1. added # <<>>
      BY <2>2, <2>4
    <3> QED BY <2>2, <2>4, <3>1, TailElems
  <2> QED BY <2>2, <2>3, <2>4
<1>6. /\ req' \in [Uid -> Req] /\ freeSlots' \in [Slot -> Nat] /\ SlotsConserved'
      /\ \A v \in Uid : v # u => req'[v] = req[v]
      /\ \A v \in Uid : Holds(v)' => Holds(v)
      /\ \A v \in Uid : CanDecode(v)' <=> CanDecode(v)
      /\ Holds(u)' /\ u \in chunked \cup running => u \in lastData.reqs
      /\ u \in lastData.reqs /\ u \in chunked \cup running => req'[u].aborted
      /\ u \in lastData.reqs => (Holds(u)' <=> Holds(u))
      /\ req'[u].aborted => req[u].aborted \/ u \in chunked \cup running
      /\ req[u].aborted => req'[u].aborted
  BY AbortEffect DEF AbortLeaves
<1>7. ControlTypeOK'
  <2>1. aborts' \in [Uid -> Nat]
    BY <1>1 DEF IndInv, ControlTypeOK
  <2>2. acks' \subseteq Uid
    BY <1>1 DEF IndInv, ControlTypeOK
  <2> QED BY <1>1, <1>2, <1>4, <1>5, <1>6, <2>1, <2>2 DEF IndInv, ControlTypeOK
<1>8. InflightSafe'
  <2>1. Undrained' = lastData.reqs /\ Overtaking' = {}
    BY <1>1, <1>3 DEF Undrained, Overtaking, NoBatch
  <2>2. \A v \in lastData.reqs : v \in Uid /\ (Holds(v) \/ v \in finished)
    BY <1>3 DEF IndInv, InflightSafe, ControlTypeOK, Batch
  <2>3. \A v \in Uid : v # u => (Holds(v)' <=> Holds(v))
    BY <1>6 DEF Holds
  <2> QED BY <1>1, <1>6, <2>1, <2>2, <2>3 DEF InflightSafe
<1>9. QueueInv'
  <2>1. adder' = NoAdder /\ adder'.reqs = {} /\ adder'.rest = <<>> /\ adder'.chunks = <<>>
    BY <1>1, <1>3 DEF NoAdder
  <2> QED BY <1>1, <1>2, <1>5, <2>1, EmptyElems DEF IndInv, Ownership, QueueInv
<1>10. HolderInv'
  <2>1. \A v \in Uid : v # u => (Holds(v)' <=> Holds(v))
    BY <1>6 DEF Holds
  <2>2. Undrained' = lastData.reqs /\ Overtaking' = {} /\ Overtaking = {}
    BY <1>1, <1>3 DEF Undrained, Overtaking, NoBatch
  <2>3. adder.reqs = {}
    BY <1>3 DEF NoAdder
  <2>4. running \subseteq Uid /\ chunked \subseteq Uid /\ toSend \subseteq Uid
        /\ ToSet(pending) \subseteq Uid
    BY ElemsType DEF IndInv, ControlTypeOK
  <2>5. \A v \in toSend' : ~Holds(v)'
    BY <1>1, <1>6, <2>4 DEF IndInv, Ownership, HolderInv
  <2>6. \A v \in ToSet(pending') \ (chunked' \cup adder'.reqs) : ~Holds(v)'
    BY <1>1, <1>2, <1>6, <2>4 DEF IndInv, Ownership, HolderInv
  <2>7. \A v \in adder'.reqs \cup running' \cup chunked' : Holds(v)'
    BY <1>1, <1>4, <2>1, <2>3, <2>4 DEF IndInv, Ownership, HolderInv
  <2>8. \A v \in running' : CanDecode(v)'
    BY <1>4, <1>6, <2>4 DEF IndInv, Ownership, HolderInv
  <2>9. \A v \in Uid : Holds(v)' => v \in running' \cup chunked' \cup adder'.reqs
                                          \cup Undrained' \cup Overtaking'
    BY <1>1, <1>3, <1>4, <1>6, <2>1, <2>2, <2>3 DEF IndInv, Ownership, HolderInv
  <2> QED BY <1>1, <1>2, <1>4, <2>5, <2>6, <2>7, <2>8, <2>9 DEF IndInv, Ownership, HolderInv
<1>11. ChunkInv'
  <2>1. \A v \in chunked' : v \in chunked /\ v \in Uid /\ req'[v] = req[v]
    BY <1>1, <1>6 DEF IndInv, ControlTypeOK
  <2> QED BY <1>1, <2>1 DEF IndInv, Ownership, ChunkInv
<1>12. BatchInv'
  <2>1. ToSet(pending') \subseteq ToSet(pending) /\ toSend' = toSend
    BY <1>1, <1>2
  <2>2. \A v \in Uid : v # u => (req'[v].aborted <=> req[v].aborted)
    BY <1>6
  <2>3. lastData.reqs \subseteq Uid /\ finished \subseteq Uid
    BY DEF IndInv, ControlTypeOK, Batch
  <2>4. \A v \in finished' \cup newFinished' : ~Holds(v)' /\ v \notin ToSet(pending') \cup toSend'
    BY <1>1, <1>3, <1>6, <2>1, <2>3 DEF IndInv, Ownership, BatchInv
  <2>5. \A v \in Uid : req'[v].aborted =>
              v \notin ToSet(pending') \cup toSend' \cup running' \cup ongoing'.reqs
    BY <1>1, <1>2, <1>3, <1>4, <1>6, <2>2
       DEF IndInv, Ownership, BatchInv, HolderInv, QueueInv, NoBatch
  <2>6. Undrained' = lastData.reqs /\ Overtaking' = {} /\ DrainBatch' = lastData
        /\ Overtaking = {} /\ DrainBatch = lastData
    BY <1>1, <1>3 DEF Undrained, Overtaking, DrainBatch, NoBatch
  <2>7. adder'.reqs = {} /\ adder.reqs = {}
    BY <1>1, <1>3 DEF NoAdder
  <2>8. \A v \in Undrained' \cap DrainBatch'.chunked :
              req'[v].aborted \/ v \in chunked' \cup adder'.reqs \cup Overtaking'
    BY <1>1, <1>3, <1>6, <2>2, <2>3, <2>6, <2>7 DEF IndInv, Ownership, BatchInv
  <2>9. \A v \in Undrained' \ DrainBatch'.chunked :
              req'[v].aborted \/ v \in finished' \/ ~CanDecode(v)' \/ v \in running'
    BY <1>1, <1>3, <1>4, <1>6, <2>2, <2>3, <2>6 DEF IndInv, Ownership, BatchInv
  <2>10. ongoing'.chunked \subseteq chunked' /\ Drained' = Drained
    BY <1>1, <1>3 DEF NoBatch, Drained
  <2> QED BY <1>1, <2>1, <2>4, <2>5, <2>6, <2>8, <2>9, <2>10 DEF IndInv, Ownership, BatchInv
<1> QED BY <1>6, <1>7, <1>8, <1>9, <1>10, <1>11, <1>12 DEF IndInv, Ownership

-----------------------------------------------------------------------------
(* From receiving to scheduling *)

\* A rebuild throws the page table away: at that point no request holds a row.
LEMMA RebuildFinds == IndInv => RebuildOwnsAll
<1> SUFFICES ASSUME IndInv, phase = "recv", RebuildDue, NEW u \in Uid, Holds(u) PROVE FALSE
  BY DEF RebuildOwnsAll
<1>1. adder.reqs = {} /\ ongoing.reqs = {} /\ lastData.reqs = {} /\ running = {} /\ pending = <<>>
  BY DEF IndInv, Ownership, QueueInv, BatchInv, NoAdder, NoBatch, RebuildDue, Runnable
<1>2. chunked = {}
  BY <1>1, EmptyElems DEF IndInv, Ownership, QueueInv
<1> QED BY <1>1, <1>2 DEF IndInv, Ownership, HolderInv, Undrained, Overtaking

\* Starting a PrefillAdder over the queue changes nobody's place.
LEMMA StartPassInv ==
    ASSUME IndInv, phase = "recv", phase' = "admit", adder' = FreshAdder, SlotsConserved',
           freeSlots' \in [Slot -> Nat],
           UNCHANGED <<toSend, job, pending, chunked, req, running, lastData, ongoing, todo,
                       finished, newFinished, tombstones>>
    PROVE  adder' \in Adder /\ SlotsConserved' /\ InflightSafe' /\ Ownership'
<1> USE SchedulerConstants
<1>1. /\ adder'.reqs = {} /\ adder'.chunks = <<>> /\ adder'.rest = pending
      /\ adder.reqs = {} /\ adder.chunks = <<>>
  BY DEF FreshAdder, IndInv, Ownership, QueueInv, NoAdder
<1>2. adder' \in Adder
  BY DEF FreshAdder, Adder, IndInv, ControlTypeOK
<1>3. Undrained' = Undrained /\ Overtaking' = Overtaking /\ DrainBatch' = DrainBatch
      /\ Drained' = Drained
  BY DEF Undrained, Overtaking, DrainBatch, Drained
<1>4. \A v : (Holds(v)' <=> Holds(v)) /\ (CanDecode(v)' <=> CanDecode(v))
  BY DEF Holds, CanDecode, RemainLen
<1>5. InflightSafe'
  BY <1>3, <1>4 DEF IndInv, InflightSafe
<1>6. QueueInv'
  BY <1>1, EmptyElems DEF IndInv, Ownership, QueueInv
<1>7. HolderInv'
  BY <1>1, <1>3, <1>4 DEF IndInv, Ownership, HolderInv
<1>8. ChunkInv'
  BY <1>1 DEF IndInv, Ownership, ChunkInv
<1>9. BatchInv'
  BY <1>1, <1>3, <1>4 DEF IndInv, Ownership, BatchInv
<1> QED BY <1>2, <1>5, <1>6, <1>7, <1>8, <1>9 DEF Ownership

\* overlap_loop goes on to _schedule_next_batch with every request where it was.
LEMMA EndRecvInv == IndInv /\ EndRecv => IndInv'
<1> SUFFICES ASSUME IndInv, EndRecv PROVE IndInv'
  OBVIOUS
<1>1. /\ phase = "recv" /\ phase' = "admit" /\ adder' = FreshAdder
      /\ UNCHANGED <<waiting, toSend, aborts, job, pending, chunked, req, running, lastData,
                     ongoing, todo, newFinished, finished, freeSlots, tombstones, acks, rebuild,
                     rebuilds, wedged, numPages, sent>>
  BY DEF EndRecv, envVars, queueVars, batchVars, poolVars, ctlVars
<1>2. freeSlots' \in [Slot -> Nat] /\ SlotsConserved'
  BY <1>1 DEF IndInv, ControlTypeOK, SlotsConserved
<1>3. adder' \in Adder /\ SlotsConserved' /\ InflightSafe' /\ Ownership'
  BY <1>1, <1>2, StartPassInv
<1>4. ControlTypeOK'
  BY <1>1, <1>3 DEF IndInv, ControlTypeOK, Phases
<1> QED BY <1>3, <1>4 DEF IndInv

\* A rebuild may reset the free list because no request holds a row when it runs.
LEMMA ExecuteRebuildInv ==
    ASSUME IndInv, NEW n \in PageCounts, ExecuteRebuild(n)
    PROVE  IndInv'
<1> USE SchedulerConstants
<1>1. /\ phase = "recv" /\ phase' = "admit" /\ adder' = FreshAdder /\ RebuildDue
      /\ rebuild' = FALSE /\ rebuilds' = [rebuilds EXCEPT !.replied = @ + 1]
      /\ freeSlots' = freeSlots \/ freeSlots' = [s \in Slot |-> 1]
      /\ numPages' \in {numPages, n} /\ (wedged' = wedged \/ wedged' = TRUE)
      /\ UNCHANGED <<waiting, toSend, aborts, job, pending, chunked, req, running, lastData,
                     ongoing, todo, newFinished, finished, tombstones, acks, sent>>
  BY DEF ExecuteRebuild, envVars, queueVars, batchVars, poolVars
<1>2. \A u \in Uid : ~Holds(u)
  BY <1>1, RebuildFinds DEF RebuildOwnsAll
<1>3. freeSlots' \in [Slot -> Nat] /\ SlotsConserved'
  <2>1. CASE freeSlots' = freeSlots
    BY <1>1, <2>1 DEF IndInv, ControlTypeOK, SlotsConserved
  <2>2. CASE freeSlots' = [s \in Slot |-> 1]
    BY <1>1, <1>2, <2>2 DEF SlotsConserved, Holds
  <2> QED BY <1>1, <2>1, <2>2
<1>4. adder' \in Adder /\ SlotsConserved' /\ InflightSafe' /\ Ownership'
  BY <1>1, <1>3, StartPassInv
<1>5. ControlTypeOK'
  <2>1. rebuilds' \in [received : Nat, replied : Nat]
    <3>1. rebuilds \in [received : Nat, replied : Nat] /\ rebuilds.replied + 1 \in Nat
      BY DEF IndInv, ControlTypeOK
    <3> QED BY <1>1, <3>1
  <2>2. numPages' \in Nat
    BY <1>1 DEF IndInv, ControlTypeOK
  <2>3. wedged' \in BOOLEAN
    BY <1>1 DEF IndInv, ControlTypeOK
  <2> QED BY <1>1, <1>3, <1>4, <2>1, <2>2, <2>3 DEF IndInv, ControlTypeOK, Phases
<1> QED BY <1>4, <1>5 DEF IndInv

-----------------------------------------------------------------------------
(* Admission and launch *)

\* The chunk that try_add_one takes from the prompt of u; it is cut when the budget ends first.
ChunkStart(u) == IF u \in chunked THEN req[u].cachedLen ELSE 0
ChunkTaken(u) == ChunkSize(job[u].input - ChunkStart(u))
ChunkCut(u)   == ChunkTaken(u) < job[u].input - ChunkStart(u)

\* A fresh request takes a free row, a chunked one keeps its own.
RowTaken(u) ==
    \/ u \in chunked /\ req'[u].tableIdx = req[u].tableIdx /\ freeSlots' = freeSlots
    \/ /\ u \notin chunked /\ req'[u].tableIdx \in Slot /\ freeSlots[req'[u].tableIdx] > 0
       /\ freeSlots' = [freeSlots EXCEPT ![req'[u].tableIdx] = @ - 1]

\* A request whose chunk is cut stays queued as the one chunked request of the pass.
ChunkPlaced(u) ==
    /\ IF ChunkCut(u)
       THEN ChunkStart(u) + ChunkTaken(u) < job[u].input /\ ChunkTaken(u) = adder.budget
       ELSE ChunkStart(u) + ChunkTaken(u) = job[u].input
    /\ chunked' = IF ChunkCut(u) THEN chunked \cup {u} ELSE chunked \ {u}
    /\ adder'.chunks = IF ChunkCut(u) THEN Append(adder.chunks, u) ELSE adder.chunks
    /\ ToSet(adder'.chunks) = IF ChunkCut(u) THEN ToSet(adder.chunks) \cup {u}
                              ELSE ToSet(adder.chunks)

\* What try_add_one does, variable by variable.
LEMMA AdmitEffect ==
    ASSUME IndInv, AdmitOne, NEW u, u = Head(adder.rest)
    PROVE  /\ phase = "admit" /\ adder.rest # <<>> /\ adder.budget > 0 /\ CanAdd(u)
           /\ UNCHANGED <<phase, waiting, toSend, aborts, job, pending, running, lastData, ongoing,
                          todo, newFinished, finished, freePages, tombstones, acks, rebuild,
                          rebuilds, wedged, numPages, sent>>
           /\ u \in Uid /\ u \in ToSet(adder.rest) /\ u \in ToSet(pending) /\ u \notin adder.reqs
           /\ u \notin ToSet(adder.chunks)
           /\ u \notin toSend \cup running \cup finished \cup newFinished
           /\ ~req[u].aborted /\ u \notin lastData.reqs \ lastData.chunked
           /\ ChunkStart(u) \in Nat /\ ChunkTaken(u) \in Nat /\ ChunkTaken(u) <= adder.budget
           /\ job[u].input \in Nat /\ job[u].output \in Nat
           /\ req' \in [Uid -> Req] /\ \A v \in Uid : v # u => req'[v] = req[v]
           /\ req'[u].cachedLen = ChunkStart(u)
           /\ req'[u].deviceLen = ChunkStart(u) + ChunkTaken(u)
           /\ req'[u].maxLen = ChunkStart(u) + ChunkTaken(u) + job[u].output
           /\ ~req'[u].aborted
           /\ RowTaken(u) /\ ChunkPlaced(u)
           /\ reserved' = reserved + (job[u].input - ChunkStart(u)) + job[u].output
           /\ adder' \in Adder /\ adder'.budget = adder.budget - ChunkTaken(u)
           /\ adder'.reqs = adder.reqs \cup {u} /\ adder'.fresh = Fresh(u)
           /\ adder'.rest = Tail(adder.rest) /\ IsInjective(adder'.rest)
           /\ ToSet(adder'.rest) = ToSet(adder.rest) \ {u}
           /\ IsInjective(adder'.chunks)
<1> USE SchedulerConstants
<1>1. /\ phase = "admit" /\ adder.rest # <<>> /\ adder.budget > 0 /\ CanAdd(u)
      /\ UNCHANGED <<phase, waiting, toSend, aborts, job, pending, running, lastData, ongoing,
                     todo, newFinished, finished, freePages, tombstones, acks, rebuild, rebuilds,
                     wedged, numPages, sent>>
  BY DEF AdmitOne, CanAdd, loopVars, envVars, batchVars, ctlVars
<1>2. /\ adder \in Adder /\ adder.rest \in Seq(Uid) /\ adder.chunks \in Seq(Uid)
      /\ adder.budget \in Nat /\ adder.reqs \subseteq Uid /\ adder.fresh \subseteq Uid
      /\ IsInjective(adder.rest) /\ IsInjective(adder.chunks)
  BY DEF IndInv, ControlTypeOK, Adder, Ownership, QueueInv
<1>3. /\ u \in Uid /\ u \in ToSet(adder.rest) /\ u \in ToSet(pending) /\ u \notin adder.reqs
      /\ u \notin ToSet(adder.chunks)
      /\ Tail(adder.rest) \in Seq(Uid) /\ IsInjective(Tail(adder.rest))
      /\ ToSet(Tail(adder.rest)) = ToSet(adder.rest) \ {u}
  BY <1>1, <1>2, TailElems DEF IndInv, Ownership, QueueInv
<1>4. /\ u \notin toSend \cup running \cup finished \cup newFinished
      /\ ~req[u].aborted /\ u \notin lastData.reqs \ lastData.chunked
  BY <1>3 DEF IndInv, Ownership, QueueInv, HolderInv, BatchInv
<1> DEFINE start  == ChunkStart(u)
           remain == job[u].input - start
           size   == ChunkTaken(u)
<1>5. /\ start \in Nat /\ size \in Nat /\ size <= adder.budget
      /\ job[u].input \in Nat /\ job[u].output \in Nat
      /\ IF size < remain THEN start + size < job[u].input /\ size = adder.budget
                          ELSE start + size = job[u].input
  <2>1. req[u].cachedLen \in Nat /\ job[u].input \in Nat /\ job[u].output \in Nat
    BY <1>3 DEF IndInv, ControlTypeOK, Req
  <2>2. u \in chunked => req[u].cachedLen < job[u].input
    BY <1>3 DEF IndInv, Ownership, ChunkInv
  <2> QED BY <1>2, <2>1, <2>2 DEF ChunkSize, ChunkStart, ChunkTaken
<1>6. PICK row \in Slot \cup {NoSlot} :
         /\ AddOneReq(u, row)
         /\ \/ u \in chunked /\ row = req[u].tableIdx /\ freeSlots' = freeSlots
            \/ /\ u \notin chunked /\ row \in Slot /\ freeSlots[row] > 0
               /\ freeSlots' = [freeSlots EXCEPT ![row] = @ - 1]
  <2>1. req[u].tableIdx \in Slot \cup {NoSlot}
    BY <1>3 DEF IndInv, ControlTypeOK, Req
  <2> QED BY <2>1 DEF AdmitOne
<1>7. /\ req' = [req EXCEPT ![u] = [tableIdx |-> row, cachedLen |-> start,
                                    deviceLen |-> start + size,
                                    maxLen |-> start + size + job[u].output, aborted |-> FALSE]]
      /\ chunked' = IF size < remain THEN chunked \cup {u} ELSE chunked \ {u}
      /\ reserved' = reserved + remain + job[u].output
      /\ adder' = [budget |-> adder.budget - size, reqs |-> adder.reqs \cup {u},
                   fresh |-> Fresh(u),
                   chunks |-> IF size < remain THEN Append(adder.chunks, u) ELSE adder.chunks,
                   rest |-> Tail(adder.rest)]
  BY <1>6 DEF AddOneReq, ChunkStart, ChunkTaken, Reserved
<1> HIDE DEF start, remain, size
<1>8. /\ req' \in [Uid -> Req] /\ \A v \in Uid : v # u => req'[v] = req[v]
      /\ req'[u].tableIdx = row /\ ~req'[u].aborted /\ req'[u].deviceLen = start + size
      /\ req'[u].cachedLen = start /\ req'[u].maxLen = start + size + job[u].output
  <2>1. [tableIdx |-> row, cachedLen |-> start, deviceLen |-> start + size,
         maxLen |-> start + size + job[u].output, aborted |-> FALSE] \in Req
    BY <1>5, <1>6 DEF Req
  <2> QED BY <1>3, <1>7, <2>1 DEF IndInv, ControlTypeOK
<1>9. /\ adder'.reqs = adder.reqs \cup {u} /\ adder'.rest = Tail(adder.rest)
      /\ adder'.fresh = Fresh(u) /\ adder'.budget = adder.budget - size
      /\ adder'.chunks = IF size < remain THEN Append(adder.chunks, u) ELSE adder.chunks
      /\ adder'.chunks \in Seq(Uid) /\ IsInjective(adder'.chunks)
      /\ ToSet(adder'.chunks) = IF size < remain THEN ToSet(adder.chunks) \cup {u}
                                ELSE ToSet(adder.chunks)
  <2>1. /\ adder'.reqs = adder.reqs \cup {u} /\ adder'.rest = Tail(adder.rest)
        /\ adder'.fresh = Fresh(u) /\ adder'.budget = adder.budget - size
        /\ adder'.chunks = IF size < remain THEN Append(adder.chunks, u) ELSE adder.chunks
    BY <1>7
  <2>2. CASE size < remain
    BY <1>2, <1>3, <2>1, <2>2, AppendElems
  <2>3. CASE ~(size < remain)
    BY <1>2, <2>1, <2>3
  <2> QED BY <2>1, <2>2, <2>3
<1>10. adder' \in Adder
  <2>1. adder.budget - size \in Nat /\ Fresh(u) \subseteq Uid
    BY <1>2, <1>3, <1>5 DEF Fresh
  <2> QED BY <1>2, <1>3, <1>7, <1>9, <2>1 DEF Adder
<1>11. ChunkCut(u) <=> size < remain
  BY DEF ChunkCut, size, remain, start
<1>12. ChunkPlaced(u)
  BY <1>5, <1>7, <1>9, <1>11 DEF ChunkPlaced, start, size
<1>13. reserved' = reserved + (job[u].input - start) + job[u].output
  BY <1>7 DEF remain
<1> USE DEF start, size
<1>14. RowTaken(u)
  BY <1>6, <1>8 DEF RowTaken
<1> HIDE DEF ChunkStart, ChunkTaken
<1> QED BY <1>1, <1>3, <1>4, <1>5, <1>8, <1>9, <1>10, <1>12, <1>13, <1>14

\* try_add_one: a fresh request takes a free row, a chunked one keeps its own.
LEMMA AdmitOneInv == IndInv /\ AdmitOne => IndInv'
<1> SUFFICES ASSUME IndInv, AdmitOne PROVE IndInv'
  OBVIOUS
<1> USE SchedulerConstants
<1>0. PICK u : u = Head(adder.rest)
  OBVIOUS
<1>1. /\ phase = "admit" /\ adder.rest # <<>> /\ u \in Uid /\ u \in ToSet(pending)
      /\ u \in ToSet(adder.rest)
      /\ UNCHANGED <<phase, waiting, toSend, aborts, job, pending, running, lastData, ongoing,
                     todo, newFinished, finished, tombstones, acks, rebuild, rebuilds, wedged,
                     numPages, sent>>
  BY <1>0, AdmitEffect
<1>5. /\ u \notin toSend /\ u \notin running /\ u \notin finished /\ u \notin newFinished
      /\ ~req[u].aborted /\ u \notin adder.reqs /\ u \notin ToSet(adder.chunks)
      /\ u \notin lastData.reqs \ lastData.chunked
  BY <1>0, AdmitEffect
<1>2. RowTaken(u) /\ ChunkPlaced(u) /\ req'[u].deviceLen = ChunkStart(u) + ChunkTaken(u)
  BY <1>0, AdmitEffect
<1>7. /\ chunked' = IF ChunkCut(u) THEN chunked \cup {u} ELSE chunked \ {u}
      /\ ChunkCut(u) => req'[u].deviceLen < job[u].input
      /\ ToSet(adder'.chunks) = IF ChunkCut(u) THEN ToSet(adder.chunks) \cup {u}
                                ELSE ToSet(adder.chunks)
  BY <1>2 DEF ChunkPlaced
<1>8. /\ req' \in [Uid -> Req] /\ ~req'[u].aborted
      /\ \A v \in Uid : v # u => req'[v] = req[v]
  BY <1>0, AdmitEffect
<1>9. /\ adder' \in Adder /\ adder'.reqs = adder.reqs \cup {u} /\ IsInjective(adder'.rest)
      /\ ToSet(adder'.rest) = ToSet(adder.rest) \ {u} /\ IsInjective(adder'.chunks)
  BY <1>0, AdmitEffect
<1>10. /\ Holds(u)'
       /\ \A v \in Uid : v # u => (Holds(v)' <=> Holds(v)) /\ (CanDecode(v)' <=> CanDecode(v))
  <2>1. req'[u].tableIdx # NoSlot
    BY <1>2 DEF RowTaken, Holds, IndInv, Ownership, HolderInv
  <2>2. Holds(u)'
    BY <2>1 DEF Holds
  <2>3. \A v \in Uid : v # u => (Holds(v)' <=> Holds(v)) /\ (CanDecode(v)' <=> CanDecode(v))
    BY <1>8 DEF Holds, CanDecode, RemainLen
  <2> QED BY <2>2, <2>3
<1>11. ControlTypeOK'
  <2>2. freeSlots' \in [Slot -> Nat]
    <3>1. freeSlots \in [Slot -> Nat]
      BY DEF IndInv, ControlTypeOK
    <3>2. CASE freeSlots' = freeSlots
      BY <3>1, <3>2
    <3>3. CASE /\ req'[u].tableIdx \in Slot /\ freeSlots[req'[u].tableIdx] > 0
               /\ freeSlots' = [freeSlots EXCEPT ![req'[u].tableIdx] = @ - 1]
      <4>1. freeSlots[req'[u].tableIdx] - 1 \in Nat
        BY <3>1, <3>3
      <4> QED BY <3>1, <3>3, <4>1
    <3> QED BY <1>2, <3>2, <3>3 DEF RowTaken
  <2>3. chunked' \subseteq Uid
    BY <1>1, <1>7 DEF IndInv, ControlTypeOK
  <2> QED BY <1>1, <1>8, <1>9, <2>2, <2>3 DEF IndInv, ControlTypeOK
<1>12. SlotsConserved'
  <2>1. CASE u \in chunked
    <3>1. freeSlots' = freeSlots /\ \A v \in Uid : req'[v].tableIdx = req[v].tableIdx
      BY <1>1, <1>2, <1>8, <2>1 DEF RowTaken
    <3> QED BY <3>1 DEF IndInv, SlotsConserved
  <2>2. CASE u \notin chunked
    <3>1. req[u].tableIdx = NoSlot
      BY <1>1, <1>5, <2>2 DEF IndInv, Ownership, HolderInv, Holds
    <3>0. PICK row : row = req'[u].tableIdx
      OBVIOUS
    <3>2. /\ row \in Slot /\ freeSlots \in [Slot -> Nat] /\ freeSlots[row] = 1
          /\ freeSlots' = [freeSlots EXCEPT ![row] = @ - 1]
      BY <1>2, <2>2, <3>0 DEF RowTaken, IndInv, ControlTypeOK, SlotsConserved
    <3>3. \A v \in Uid : req[v].tableIdx # row
      BY <3>2 DEF IndInv, SlotsConserved
    <3>4. freeSlots'[row] = 0 /\ \A s \in Slot : s # row => freeSlots'[s] = freeSlots[s]
      BY <3>2
    <3>5. \A v \in Uid : req'[v].tableIdx = IF v = u THEN row ELSE req[v].tableIdx
      BY <1>8, <3>0
    <3> QED BY <1>1, <3>1, <3>2, <3>3, <3>4, <3>5 DEF IndInv, SlotsConserved
  <2> QED BY <2>1, <2>2
<1>13. /\ Undrained' = lastData.reqs /\ Undrained = lastData.reqs /\ DrainBatch' = lastData
       /\ DrainBatch = lastData /\ Overtaking = {} /\ Overtaking' = {} /\ Drained' = Drained
  BY <1>1 DEF Undrained, DrainBatch, Overtaking, Drained, NoBatch, IndInv, Ownership, BatchInv
<1>14. /\ lastData.reqs \subseteq Uid /\ running \subseteq Uid /\ chunked \subseteq Uid
       /\ toSend \subseteq Uid /\ ToSet(pending) \subseteq Uid /\ finished \subseteq Uid
       /\ newFinished \subseteq Uid
  BY ElemsType DEF IndInv, ControlTypeOK, Batch
<1>15. InflightSafe'
  <2>1. \A v \in Uid : Holds(v) => Holds(v)'
    BY <1>10
  <2> QED BY <1>1, <1>13, <1>14, <2>1 DEF IndInv, InflightSafe
<1>16. QueueInv'
  BY <1>1, <1>5, <1>7, <1>9 DEF IndInv, Ownership, QueueInv
<1>17. HolderInv'
  <2>1. \A v \in toSend' : ~Holds(v)'
    BY <1>1, <1>5, <1>10, <1>14 DEF IndInv, Ownership, HolderInv
  <2>2. \A v \in ToSet(pending') \ (chunked' \cup adder'.reqs) : ~Holds(v)'
    BY <1>1, <1>7, <1>9, <1>10, <1>14 DEF IndInv, Ownership, HolderInv
  <2>3. \A v \in adder'.reqs \cup running' \cup chunked' : Holds(v)'
    <3>1. \A v \in (adder.reqs \cup running \cup chunked) \ {u} : v \in Uid /\ Holds(v)
      BY <1>14 DEF IndInv, Ownership, HolderInv, QueueInv
    <3> QED BY <1>1, <1>7, <1>9, <1>10, <3>1
  <2>4. \A v \in running' : CanDecode(v)'
    BY <1>1, <1>5, <1>10, <1>14 DEF IndInv, Ownership, HolderInv
  <2>5. \A v \in Uid : Holds(v)' => v \in running' \cup chunked' \cup adder'.reqs
                                          \cup Undrained' \cup Overtaking'
    BY <1>1, <1>7, <1>9, <1>10, <1>13 DEF IndInv, Ownership, HolderInv
  <2> QED BY <1>1, <2>1, <2>2, <2>3, <2>4, <2>5 DEF IndInv, Ownership, HolderInv
<1>18. ChunkInv'
  BY <1>1, <1>5, <1>7, <1>8, <1>9, <1>14 DEF IndInv, Ownership, ChunkInv
<1>19. BatchInv'
  <2>1. \A v \in Uid : v # u => (req'[v].aborted <=> req[v].aborted)
    BY <1>8
  <2>2. \A v \in finished' \cup newFinished' : ~Holds(v)' /\ v \notin ToSet(pending') \cup toSend'
    BY <1>1, <1>5, <1>10, <1>14 DEF IndInv, Ownership, BatchInv
  <2>3. \A v \in Uid : req'[v].aborted =>
            v \notin ToSet(pending') \cup toSend' \cup running' \cup ongoing'.reqs
    BY <1>1, <1>8, <2>1 DEF IndInv, Ownership, BatchInv
  <2>4. \A v \in Undrained' \cap DrainBatch'.chunked :
            req'[v].aborted \/ v \in chunked' \cup adder'.reqs \cup Overtaking'
    BY <1>1, <1>7, <1>9, <1>13, <1>14, <2>1 DEF IndInv, Ownership, BatchInv
  <2>5. \A v \in Undrained' \ DrainBatch'.chunked :
            req'[v].aborted \/ v \in finished' \/ ~CanDecode(v)' \/ v \in running'
    BY <1>1, <1>5, <1>10, <1>13, <1>14, <2>1 DEF IndInv, Ownership, BatchInv
  <2>6. ongoing'.chunked \subseteq chunked'
    BY <1>1 DEF IndInv, Ownership, BatchInv, NoBatch
  <2> QED BY <1>1, <1>13, <2>2, <2>3, <2>4, <2>5, <2>6 DEF IndInv, Ownership, BatchInv
<1> QED BY <1>11, <1>12, <1>15, <1>16, <1>17, <1>18, <1>19 DEF IndInv, Ownership

\* The batch of a pass: what was admitted, or else everything that decodes.
BatchChosen(b) ==
    /\ b = NextBatch /\ b \in Batch
    /\ b.reqs = IF adder.reqs # {} THEN adder.reqs ELSE running
    /\ b.chunked = ToSet(adder.chunks)

\* The drain that starts goes through the last batch (overlap) or through this one.
DrainStarts(b) ==
    /\ Undrained' = IF Overlap THEN lastData.reqs ELSE b.reqs
    /\ Overtaking' = IF Overlap THEN b.reqs ELSE {}
    /\ DrainBatch' = IF Overlap THEN lastData ELSE b
    /\ Drained' = IF Overlap THEN lastData ELSE b
    /\ Undrained = lastData.reqs /\ DrainBatch = lastData /\ Overtaking = {}
    /\ ~Overlap => lastData.reqs = {}

\* complete_one moves the requests of the batch on by what was just prefilled or decoded.
Completed(b) ==
    \A v \in Uid : /\ req'[v].tableIdx = req[v].tableIdx
                   /\ req'[v].aborted = req[v].aborted
                   /\ req'[v].maxLen = req[v].maxLen
                   /\ v \in b.reqs => /\ req'[v].cachedLen = req[v].deviceLen
                                      /\ req'[v].deviceLen = req[v].deviceLen + 1
                   /\ v \notin b.reqs => req'[v] = req[v]

\* What a launch does, variable by variable.
LEMMA LaunchEffect ==
    ASSUME IndInv, Launch, NEW b, b = NextBatch
    PROVE  /\ phase = "admit" /\ phase' = "drain" /\ adder' = NoAdder /\ reserved' = 0
           /\ newFinished' = {} /\ ongoing' = b /\ sent' = ReportPromptAdmissions
           /\ todo' = IF Overlap THEN lastData.reqs ELSE b.reqs
           /\ freePages' = freePages - NeededPages(b) /\ ~(NeededPages(b) > freePages)
           /\ UNCHANGED <<waiting, toSend, aborts, job, chunked, lastData, finished, freeSlots,
                          tombstones, acks, rebuild, rebuilds, wedged, numPages>>
           /\ BatchChosen(b) /\ DrainStarts(b)
           /\ pending' \in Seq(Uid) /\ IsInjective(pending')
           /\ ToSet(pending') = ToSet(adder.chunks) \cup ToSet(adder.rest)
           /\ ToSet(pending') \subseteq ToSet(pending)
           /\ req' \in [Uid -> Req] /\ Completed(b)
           /\ running' = {v \in running \cup (b.reqs \ b.chunked) : CanDecode(v)'}
           /\ (b.reqs \ b.chunked) \cap (ToSet(pending') \cup toSend') = {}
           /\ running \cap (ToSet(pending') \cup toSend') = {}
           /\ b.chunked \subseteq b.reqs /\ b.chunked \subseteq chunked
           /\ \A v \in b.reqs : v \in Uid /\ Holds(v)
<1> USE SchedulerConstants
<1>1. /\ phase = "admit" /\ phase' = "drain" /\ pending' = adder.chunks \o adder.rest
      /\ newFinished' = {} /\ adder' = NoAdder /\ ongoing' = b /\ reserved' = 0
      /\ todo' = IF Overlap THEN lastData.reqs ELSE b.reqs
      /\ req' = [v \in Uid |-> IF v \in b.reqs THEN CompleteOne(req[v]) ELSE req[v]]
      /\ running' = FilterReqs(req', b) /\ sent' = ReportPromptAdmissions
      /\ freePages' = freePages - NeededPages(b) /\ ~(NeededPages(b) > freePages)
      /\ UNCHANGED <<waiting, toSend, aborts, job, chunked, lastData, finished, freeSlots,
                     tombstones, acks, rebuild, rebuilds, wedged, numPages>>
  BY DEF Launch, EvictionShort, envVars, ctlVars
<1>3. /\ adder \in Adder /\ adder.rest \in Seq(Uid) /\ adder.chunks \in Seq(Uid)
      /\ adder.reqs \subseteq Uid /\ running \subseteq Uid /\ lastData \in Batch
      /\ lastData.reqs \subseteq Uid /\ chunked \subseteq Uid /\ toSend \subseteq Uid
      /\ finished \subseteq Uid /\ ToSet(adder.chunks) \subseteq adder.reqs
      /\ req \in [Uid -> Req]
  BY DEF IndInv, ControlTypeOK, Adder, Batch, Ownership, QueueInv
<1>4. /\ b.reqs = IF adder.reqs # {} THEN adder.reqs ELSE running
      /\ b.chunked = ToSet(adder.chunks) /\ b \in Batch
  <2>1. CASE adder.reqs # {}
    BY <1>3, <2>1 DEF NextBatch, PrefillBatch, Batch
  <2>2. CASE adder.reqs = {} /\ running = {}
    BY <1>3, <2>2 DEF NextBatch, DecodeBatch, NoBatch, Batch
  <2>3. CASE adder.reqs = {} /\ running # {}
    BY <1>3, <2>3 DEF NextBatch, DecodeBatch, Batch
  <2> QED BY <2>1, <2>2, <2>3
<1>5. /\ pending' \in Seq(Uid) /\ IsInjective(pending')
      /\ ToSet(pending') = ToSet(adder.chunks) \cup ToSet(adder.rest)
      /\ ToSet(pending') \subseteq ToSet(pending)
  <2>1. ToSet(adder.chunks) \cap ToSet(adder.rest) = {}
    BY DEF IndInv, Ownership, QueueInv
  <2>2. IsInjective(adder.chunks) /\ IsInjective(adder.rest)
    BY DEF IndInv, Ownership, QueueInv
  <2>3. /\ pending' \in Seq(Uid) /\ IsInjective(pending')
        /\ ToSet(pending') = ToSet(adder.chunks) \cup ToSet(adder.rest)
    BY <1>1, <1>3, <2>1, <2>2, ConcatElems
  <2> QED BY <2>3 DEF IndInv, Ownership, QueueInv
<1>6. req' \in [Uid -> Req] /\ Completed(b)
  <2>1. ASSUME NEW v \in Uid
        PROVE  /\ CompleteOne(req[v]) \in Req
               /\ CompleteOne(req[v]).tableIdx = req[v].tableIdx
               /\ CompleteOne(req[v]).aborted = req[v].aborted
               /\ CompleteOne(req[v]).maxLen = req[v].maxLen
               /\ CompleteOne(req[v]).cachedLen = req[v].deviceLen
               /\ CompleteOne(req[v]).deviceLen = req[v].deviceLen + 1
    <3>1. req[v] \in Req /\ req[v].deviceLen \in Nat /\ req[v].deviceLen + 1 \in Nat
      BY <1>3 DEF Req
    <3>2. CompleteOne(req[v]) \in Req
      BY <3>1 DEF CompleteOne, Req
    <3> QED BY <3>1, <3>2 DEF CompleteOne, Req
  <2> HIDE DEF CompleteOne
  <2> QED BY <1>1, <1>3, <2>1 DEF Completed
<1>8. running' = {v \in running \cup (b.reqs \ b.chunked) : CanDecode(v)'}
  BY <1>1 DEF FilterReqs, CanDecode, RemainLen
<1>9. \A v \in b.reqs : v \in Uid /\ Holds(v)
  BY <1>3, <1>4 DEF IndInv, Ownership, HolderInv
<1>10. DrainStarts(b)
  BY <1>1 DEF DrainStarts, Undrained, Overtaking, DrainBatch, Drained, IndInv, Ownership,
              BatchInv, NoBatch
<1>11. /\ (b.reqs \ b.chunked) \cap (ToSet(pending') \cup toSend') = {}
       /\ running \cap (ToSet(pending') \cup toSend') = {}
       /\ b.chunked \subseteq b.reqs /\ b.chunked \subseteq chunked
  <2>1. running \cap (ToSet(pending) \cup toSend) = {}
    BY DEF IndInv, Ownership, HolderInv
  <2>2. running \cap (ToSet(pending') \cup toSend') = {}
    BY <1>1, <1>5, <2>1
  <2>3. (adder.reqs \ ToSet(adder.chunks)) \cap (ToSet(pending') \cup toSend') = {}
    BY <1>1, <1>5 DEF IndInv, Ownership, QueueInv
  <2>4. ToSet(adder.chunks) \subseteq adder.reqs \cap chunked
    BY DEF IndInv, Ownership, QueueInv
  <2> QED BY <1>4, <2>2, <2>3, <2>4
<1>12. BatchChosen(b)
  BY <1>4 DEF BatchChosen
<1> QED BY <1>1, <1>5, <1>6, <1>8, <1>9, <1>10, <1>11, <1>12

\* Launching moves the admitted requests from the adder into the batch (and, unless they are
\* chunks, into running_reqs); decode_manager.filter_reqs drops only requests of the batch.
LEMMA LaunchInv == IndInv /\ Launch => IndInv'
<1> SUFFICES ASSUME IndInv, Launch PROVE IndInv'
  OBVIOUS
<1> USE SchedulerConstants
<1>2. PICK b : b = NextBatch
  OBVIOUS
<1>1. /\ phase = "admit" /\ phase' = "drain" /\ newFinished' = {} /\ adder' = NoAdder
      /\ ongoing' = b /\ todo' = (IF Overlap THEN lastData.reqs ELSE b.reqs)
      /\ sent' = ReportPromptAdmissions
      /\ UNCHANGED <<waiting, toSend, aborts, job, chunked, lastData, finished, freeSlots,
                     tombstones, acks, rebuild, rebuilds, wedged, numPages>>
  BY <1>2, LaunchEffect
<1>3. /\ adder \in Adder /\ adder.rest \in Seq(Uid) /\ adder.chunks \in Seq(Uid)
      /\ adder.reqs \subseteq Uid /\ running \subseteq Uid /\ lastData \in Batch
      /\ lastData.reqs \subseteq Uid /\ chunked \subseteq Uid /\ toSend \subseteq Uid
      /\ finished \subseteq Uid /\ ToSet(adder.chunks) \subseteq adder.reqs
      /\ req \in [Uid -> Req]
  BY DEF IndInv, ControlTypeOK, Adder, Batch, Ownership, QueueInv
<1>4. /\ b.reqs = IF adder.reqs # {} THEN adder.reqs ELSE running
      /\ b.chunked = ToSet(adder.chunks) /\ b \in Batch
  BY <1>2, LaunchEffect DEF BatchChosen
<1>5. /\ pending' \in Seq(Uid) /\ IsInjective(pending')
      /\ ToSet(pending') = ToSet(adder.chunks) \cup ToSet(adder.rest)
      /\ ToSet(pending') \subseteq ToSet(pending)
  BY <1>2, LaunchEffect
<1>6. /\ req' \in [Uid -> Req]
      /\ \A v \in Uid : /\ req'[v].tableIdx = req[v].tableIdx
                        /\ req'[v].aborted = req[v].aborted
                        /\ req'[v].maxLen = req[v].maxLen
                        /\ v \in b.reqs => /\ req'[v].cachedLen = req[v].deviceLen
                                           /\ req'[v].deviceLen = req[v].deviceLen + 1
                        /\ v \notin b.reqs => req'[v] = req[v]
  BY <1>2, LaunchEffect DEF Completed
<1>7. /\ \A v \in Uid : Holds(v)' <=> Holds(v)
      /\ \A v \in Uid : CanDecode(v)' => CanDecode(v)
      /\ \A v \in Uid \ b.reqs : CanDecode(v)' <=> CanDecode(v)
  <2>1. \A v \in Uid : req[v].maxLen \in Nat /\ req[v].deviceLen \in Nat
    BY <1>3 DEF Req
  <2> QED BY <1>6, <2>1 DEF Holds, CanDecode, RemainLen
<1>8. /\ running' \subseteq Uid
      /\ \A v \in Uid : v \in running' <=>
            v \in running \cup (b.reqs \ b.chunked) /\ CanDecode(v)'
  <2>1. running' = {v \in running \cup (b.reqs \ b.chunked) : CanDecode(v)'}
    BY <1>2, LaunchEffect
  <2>2. b.reqs \subseteq Uid
    BY <1>3, <1>4
  <2> QED BY <1>3, <2>1, <2>2
<1>9. /\ adder'.reqs = {} /\ adder'.rest = <<>> /\ adder'.chunks = <<>> /\ adder' \in Adder
  BY <1>1 DEF NoAdder, Adder
<1>10. ControlTypeOK'
  <2>1. sent' \in [Uid -> Sent]
    <3>1. ASSUME NEW v \in Uid PROVE [sent[v] EXCEPT !.admitted = @ + 1] \in Sent
      <4>1. sent[v] \in Sent /\ sent[v].admitted + 1 \in Nat
        BY DEF IndInv, ControlTypeOK, Sent
      <4> QED BY <4>1 DEF Sent
    <3> QED BY <1>1, <3>1 DEF ReportPromptAdmissions, IndInv, ControlTypeOK
  <2>2. ongoing' \in Batch /\ todo' \subseteq Uid
    BY <1>1, <1>2, <1>3, <1>4 DEF Batch
  <2> QED BY <1>1, <1>5, <1>6, <1>8, <1>9, <2>1, <2>2 DEF IndInv, ControlTypeOK, Phases
<1>11. SlotsConserved'
  BY <1>1, <1>6 DEF IndInv, SlotsConserved
<1>12. \A v \in b.reqs : v \in Uid /\ Holds(v)
  BY <1>2, LaunchEffect
<1>13. /\ Undrained' = IF Overlap THEN lastData.reqs ELSE b.reqs
       /\ Overtaking' = IF Overlap THEN b.reqs ELSE {}
       /\ DrainBatch' = IF Overlap THEN lastData ELSE b
       /\ Drained' = IF Overlap THEN lastData ELSE b
       /\ Undrained = lastData.reqs /\ DrainBatch = lastData /\ Overtaking = {}
       /\ ~Overlap => lastData.reqs = {}
  BY <1>2, LaunchEffect DEF DrainStarts
<1>14. InflightSafe'
  BY <1>1, <1>3, <1>7, <1>12, <1>13 DEF IndInv, InflightSafe
<1>15. QueueInv'
  <2>1. chunked' \subseteq ToSet(pending') /\ ToSet(pending') \cap toSend' = {}
    BY <1>1, <1>5 DEF IndInv, Ownership, QueueInv
  <2> QED BY <1>1, <1>5, <1>9, <2>1, EmptyElems DEF IndInv, Ownership, QueueInv
<1>16. /\ (b.reqs \ b.chunked) \cap (ToSet(pending') \cup toSend') = {}
       /\ running \cap (ToSet(pending') \cup toSend') = {}
       /\ b.chunked \subseteq b.reqs /\ b.chunked \subseteq chunked
  BY <1>2, LaunchEffect
<1>17. HolderInv'
  <2>1. \A v \in toSend' : ~Holds(v)'
    BY <1>1, <1>3, <1>7 DEF IndInv, Ownership, HolderInv
  <2>2. \A v \in ToSet(pending') \ (chunked' \cup adder'.reqs) : ~Holds(v)'
    <3>1. ToSet(pending) \subseteq Uid
      BY ElemsType DEF IndInv, ControlTypeOK
    <3> QED BY <1>1, <1>5, <1>7, <3>1 DEF IndInv, Ownership, HolderInv, QueueInv
  <2>3. \A v \in adder'.reqs \cup running' \cup chunked' : Holds(v)'
    BY <1>1, <1>3, <1>7, <1>8, <1>9, <1>12 DEF IndInv, Ownership, HolderInv
  <2>4. \A v \in running' : CanDecode(v)'
    BY <1>8
  <2>5. running' \cap (ToSet(pending') \cup toSend') = {}
    BY <1>8, <1>16
  <2>6. \A v \in Uid : Holds(v)' => v \in running' \cup chunked' \cup adder'.reqs
                                          \cup Undrained' \cup Overtaking'
    <3>1. running \subseteq running' \cup b.reqs
      BY <1>3, <1>7, <1>8 DEF IndInv, Ownership, HolderInv
    <3>2. adder.reqs \subseteq b.reqs
      BY <1>4
    <3>3. lastData.reqs \cup b.reqs = Undrained' \cup Overtaking'
      BY <1>13
    <3> QED BY <1>1, <1>7, <1>13, <3>1, <3>2, <3>3 DEF IndInv, Ownership, HolderInv
  <2> QED BY <2>1, <2>2, <2>3, <2>4, <2>5, <2>6 DEF HolderInv
<1>18. ChunkInv'
  <2>1. ASSUME NEW v \in chunked PROVE req'[v].cachedLen < job[v].input
    <3>1. v \in Uid /\ v \notin running
      BY <1>3, <2>1 DEF IndInv, Ownership, QueueInv, HolderInv
    <3>2. CASE v \in adder.reqs
      BY <1>4, <1>6, <2>1, <3>1, <3>2 DEF IndInv, Ownership, ChunkInv
    <3>3. CASE v \notin adder.reqs
      BY <1>4, <1>6, <2>1, <3>1, <3>3 DEF IndInv, Ownership, ChunkInv
    <3> QED BY <3>2, <3>3
  <2> QED BY <1>1, <1>9, <2>1 DEF ChunkInv
<1>19. BatchInv'
  <2>1. todo' \subseteq Drained'.reqs /\ newFinished' = {} /\ (~Overlap => lastData' = NoBatch)
        /\ phase' = "drain"
    BY <1>1, <1>2, <1>13 DEF IndInv, Ownership, BatchInv
  <2>2. ongoing'.chunked \subseteq chunked'
    BY <1>1, <1>2, <1>16
  <2>3. ASSUME NEW c \in {lastData', ongoing'}
        PROVE  /\ c.chunked \subseteq c.reqs
               /\ (c.reqs \ c.chunked) \cap (ToSet(pending') \cup toSend') = {}
    <3>1. CASE c = lastData
      BY <1>1, <1>5, <3>1 DEF IndInv, Ownership, BatchInv
    <3>2. CASE c = b
      BY <1>16, <3>2
    <3> QED BY <1>1, <1>2, <3>1, <3>2
  <2>4. \A v \in finished' \cup newFinished' : ~Holds(v)' /\ v \notin ToSet(pending') \cup toSend'
    BY <1>1, <1>3, <1>5, <1>7 DEF IndInv, Ownership, BatchInv
  <2>5. \A v \in Uid : req'[v].aborted =>
            v \notin ToSet(pending') \cup toSend' \cup running' \cup ongoing'.reqs
    <3>1. \A v \in Uid : req[v].aborted => v \notin ToSet(pending) \cup toSend \cup running
      BY DEF IndInv, Ownership, BatchInv
    <3>2. b.reqs \subseteq ToSet(pending) \cup running
      BY <1>4 DEF IndInv, Ownership, QueueInv
    <3> QED BY <1>1, <1>2, <1>5, <1>6, <1>8, <3>1, <3>2
  <2>6. \A v \in Undrained' \cap DrainBatch'.chunked :
            req'[v].aborted \/ v \in chunked' \cup adder'.reqs \cup Overtaking'
    <3>1. CASE Overlap
      <4>1. \A v \in lastData.reqs \cap lastData.chunked :
                req[v].aborted \/ v \in chunked \cup adder.reqs
        BY <1>13 DEF IndInv, Ownership, BatchInv
      <4>2. adder.reqs \subseteq b.reqs
        BY <1>4
      <4> QED BY <1>1, <1>3, <1>6, <1>13, <3>1, <4>1, <4>2
    <3>2. CASE ~Overlap
      BY <1>1, <1>13, <1>16, <3>2
    <3> QED BY <3>1, <3>2
  <2>7. \A v \in Undrained' \ DrainBatch'.chunked :
            req'[v].aborted \/ v \in finished' \/ ~CanDecode(v)' \/ v \in running'
    <3>1. CASE Overlap
      <4>1. \A v \in lastData.reqs \ lastData.chunked :
                req[v].aborted \/ v \in finished \/ ~CanDecode(v) \/ v \in running
        BY <1>13 DEF IndInv, Ownership, BatchInv
      <4> QED BY <1>1, <1>3, <1>6, <1>7, <1>8, <1>13, <3>1, <4>1
    <3>2. CASE ~Overlap
      BY <1>8, <1>12, <1>13, <3>2
    <3> QED BY <3>1, <3>2
  <2>8. \A v \in Overtaking' \ ongoing'.chunked :
            req'[v].aborted \/ v \in newFinished' \/ ~CanDecode(v)' \/ v \in running'
    BY <1>1, <1>2, <1>8, <1>12, <1>13
  <2> QED BY <2>1, <2>2, <2>3, <2>4, <2>5, <2>6, <2>7, <2>8 DEF BatchInv
<1> QED BY <1>10, <1>11, <1>14, <1>15, <1>17, <1>18, <1>19 DEF IndInv, Ownership

\* The process dies on the assertion or on the missing pools: nothing moves any more.
LEMMA LaunchDiesInv == IndInv /\ LaunchDies => IndInv'
<1> SUFFICES ASSUME IndInv, LaunchDies PROVE IndInv'
  OBVIOUS
<1>1. /\ phase = "admit" /\ phase' \in {"allocfail", "dead"}
      /\ UNCHANGED <<waiting, toSend, aborts, job, pending, chunked, req, running, adder, lastData,
                     ongoing, todo, newFinished, finished, freeSlots, tombstones, acks, rebuild,
                     rebuilds, wedged, numPages, sent>>
  BY DEF LaunchDies, envVars, queueVars, passVars, batchVars, poolVars, ctlVars
<1>2. Undrained' = Undrained /\ Overtaking' = Overtaking /\ DrainBatch' = DrainBatch
      /\ Drained' = Drained
  BY <1>1 DEF Undrained, Overtaking, DrainBatch, Drained
<1>3. \A v : (Holds(v)' <=> Holds(v)) /\ (CanDecode(v)' <=> CanDecode(v))
  BY <1>1 DEF Holds, CanDecode, RemainLen
<1>4. ControlTypeOK'
  BY <1>1 DEF IndInv, ControlTypeOK, Phases
<1>5. SlotsConserved' /\ InflightSafe'
  BY <1>1, <1>2, <1>3 DEF IndInv, SlotsConserved, InflightSafe
<1>6. QueueInv' /\ ChunkInv'
  BY <1>1 DEF IndInv, Ownership, QueueInv, ChunkInv
<1>7. HolderInv'
  BY <1>1, <1>2, <1>3 DEF IndInv, Ownership, HolderInv
<1>8. BatchInv'
  BY <1>1, <1>2, <1>3 DEF IndInv, Ownership, BatchInv
<1> QED BY <1>4, <1>5, <1>6, <1>7, <1>8 DEF IndInv, Ownership

-----------------------------------------------------------------------------
(* The drain *)

\* What becomes of a request the drain has come to: it stays as it was, and the loop will meet
\* it again; or it is a chunk that was aborted; or it has ended.
DrainLeaves(u) ==
    \/ /\ running' = running /\ newFinished' = newFinished
       /\ (Holds(u)' <=> Holds(u))
       /\ Holds(u)' => u \in running \cup chunked \cup Overtaking
    \/ /\ running' = running /\ newFinished' = newFinished /\ ~Holds(u)'
       /\ u \notin running \cup chunked \cup ongoing.reqs
    \/ /\ running' = running \ {u} /\ newFinished' = newFinished \cup {u} /\ ~Holds(u)'
       /\ u \notin ToSet(pending) \cup toSend \cup chunked

\* What a drain step does, variable by variable.
LEMMA DrainEffect ==
    ASSUME IndInv, NEW u \in Uid, NEW stop \in BOOLEAN, DrainOne(u, stop)
    PROVE  /\ phase = "drain" /\ u \in todo /\ todo' = todo \ {u}
           /\ UNCHANGED <<phase, waiting, toSend, aborts, job, pending, chunked, adder, reserved,
                          lastData, ongoing, finished, tombstones, acks, rebuild, rebuilds,
                          wedged, numPages>>
           /\ u \in Drained.reqs /\ adder = NoAdder /\ adder.reqs = {}
           /\ Undrained = todo /\ Undrained' = todo \ {u} /\ DrainBatch = Drained
           /\ Overtaking' = Overtaking /\ DrainBatch' = DrainBatch /\ Drained' = Drained
           /\ u \notin Drained.chunked => u \notin ToSet(pending) \cup toSend /\ u \notin chunked
           /\ req' \in [Uid -> Req] /\ freeSlots' \in [Slot -> Nat] /\ SlotsConserved'
           /\ \A v \in Uid : v # u => req'[v] = req[v]
           /\ \A v \in Uid : Holds(v)' => Holds(v)
           /\ \A v \in Uid : /\ CanDecode(v)' <=> CanDecode(v)
                             /\ req'[v].aborted = req[v].aborted
                             /\ req'[v].deviceLen = req[v].deviceLen
                             /\ req'[v].cachedLen = req[v].cachedLen
                             /\ req'[v].maxLen = req[v].maxLen
           /\ DrainLeaves(u)
<1> USE SchedulerConstants
<1>1. /\ phase = "drain" /\ u \in todo /\ todo' = todo \ {u}
      /\ UNCHANGED <<phase, waiting, toSend, aborts, job, pending, chunked, adder, reserved,
                     lastData, ongoing, finished, tombstones, acks, rebuild, rebuilds, wedged,
                     numPages>>
  BY DEF DrainOne, loopVars, envVars, queueVars, passVars, ctlVars
<1>2. /\ u \in Drained.reqs /\ adder = NoAdder /\ adder.reqs = {}
      /\ Undrained = todo /\ Undrained' = todo \ {u} /\ DrainBatch = Drained
      /\ Overtaking' = Overtaking /\ DrainBatch' = DrainBatch /\ Drained' = Drained
  BY <1>1 DEF IndInv, Ownership, BatchInv, QueueInv, NoAdder, Undrained, DrainBatch, Overtaking,
              Drained
<1>3. u \notin Drained.chunked => u \notin ToSet(pending) \cup toSend /\ u \notin chunked
  BY <1>2 DEF IndInv, Ownership, BatchInv, QueueInv, Drained
<1>4. /\ running \subseteq Uid /\ chunked \subseteq Uid /\ toSend \subseteq Uid
      /\ ToSet(pending) \subseteq Uid /\ finished \subseteq Uid /\ newFinished \subseteq Uid
      /\ todo \subseteq Uid /\ ongoing.reqs \subseteq Uid /\ Overtaking \subseteq ongoing.reqs
  BY ElemsType DEF IndInv, ControlTypeOK, Batch, Overtaking
<1>5. \/ /\ UNCHANGED <<req, freeSlots, running, newFinished>>
         /\ Holds(u) => u \in running \cup chunked \cup Overtaking
      \/ /\ FreeReqResources(u) /\ UNCHANGED <<running, newFinished>>
         /\ u \notin running \cup chunked \cup ongoing.reqs
      \/ /\ FreeReqResources(u) /\ running' = running \ {u} /\ newFinished' = newFinished \cup {u}
         /\ u \notin ToSet(pending) \cup toSend \cup chunked
  <2>1. CASE DrainChunk(u)
    <3>1. CASE req[u].aborted
      <4>1. u \notin ToSet(pending) \cup running \cup ongoing.reqs
        BY <3>1 DEF IndInv, Ownership, BatchInv
      <4>2. u \notin chunked
        BY <4>1 DEF IndInv, Ownership, QueueInv
      <4> QED BY <2>1, <3>1, <4>1, <4>2 DEF DrainChunk
    <3>2. CASE ~req[u].aborted
      <4>1. u \in chunked \cup Overtaking
        BY <1>1, <1>2, <2>1, <3>2 DEF IndInv, Ownership, BatchInv, DrainChunk
      <4> QED BY <2>1, <3>2, <4>1 DEF DrainChunk, poolVars
    <3> QED BY <3>1, <3>2
  <2>2. CASE DrainAborted(u)
    BY <1>3, <2>2 DEF DrainAborted
  <2>3. CASE DrainFinished(u)
    <3>1. ~Holds(u)
      BY <2>3 DEF DrainFinished, IndInv, Ownership, BatchInv
    <3> QED BY <2>3, <3>1 DEF DrainFinished, poolVars
  <2>4. CASE DrainSampled(u, stop)
    <3>1. CASE stop \/ ~CanDecode(u)
      BY <1>3, <2>4, <3>1 DEF DrainSampled
    <3>2. CASE ~(stop \/ ~CanDecode(u))
      <4>1. u \in running
        BY <1>1, <1>2, <2>4, <3>2 DEF IndInv, Ownership, BatchInv, DrainSampled
      <4> QED BY <2>4, <3>2, <4>1 DEF DrainSampled, poolVars
    <3> QED BY <3>1, <3>2
  <2> QED BY <2>1, <2>2, <2>3, <2>4 DEF DrainOne
<1>6. /\ req' \in [Uid -> Req] /\ freeSlots' \in [Slot -> Nat] /\ SlotsConserved'
      /\ \A v \in Uid : v # u => req'[v] = req[v]
      /\ \A v \in Uid : Holds(v)' => Holds(v)
      /\ \A v \in Uid : /\ CanDecode(v)' <=> CanDecode(v)
                        /\ req'[v].aborted = req[v].aborted
                        /\ req'[v].deviceLen = req[v].deviceLen
                        /\ req'[v].cachedLen = req[v].cachedLen
                        /\ req'[v].maxLen = req[v].maxLen
  <2>1. CASE UNCHANGED <<req, freeSlots>>
    BY <2>1 DEF IndInv, ControlTypeOK, SlotsConserved, Holds, CanDecode, RemainLen
  <2>2. CASE FreeReqResources(u)
    BY <2>2, FreeOnce DEF IndInv
  <2> QED BY <1>5, <2>1, <2>2
<1>8. DrainLeaves(u)
  <2>1. CASE /\ UNCHANGED <<req, freeSlots, running, newFinished>>
             /\ Holds(u) => u \in running \cup chunked \cup Overtaking
    BY <2>1 DEF DrainLeaves, Holds
  <2>2. FreeReqResources(u) => ~Holds(u)'
    BY FreeOnce DEF IndInv
  <2> QED BY <1>5, <2>1, <2>2 DEF DrainLeaves
<1> QED BY <1>1, <1>2, <1>3, <1>6, <1>8

\* What a drain step does to one request, as far as the invariant can see: it leaves it alone
\* only if the loop will meet it again, and otherwise frees it and takes it out of running_reqs.
LEMMA DrainOneInv ==
    ASSUME IndInv, NEW u \in Uid, NEW stop \in BOOLEAN, DrainOne(u, stop)
    PROVE  IndInv'
<1> USE SchedulerConstants
<1>1. /\ phase = "drain" /\ u \in todo /\ todo' = todo \ {u}
      /\ UNCHANGED <<phase, waiting, toSend, aborts, job, pending, chunked, adder, lastData,
                     ongoing, finished, tombstones, acks, rebuild, rebuilds, wedged, numPages>>
  BY DrainEffect
<1>2. /\ u \in Drained.reqs /\ adder = NoAdder /\ adder.reqs = {}
      /\ Undrained = todo /\ Undrained' = todo \ {u} /\ DrainBatch = Drained
      /\ Overtaking' = Overtaking /\ DrainBatch' = DrainBatch /\ Drained' = Drained
  BY DrainEffect
<1>4. /\ running \subseteq Uid /\ chunked \subseteq Uid /\ toSend \subseteq Uid
      /\ ToSet(pending) \subseteq Uid /\ finished \subseteq Uid /\ newFinished \subseteq Uid
      /\ todo \subseteq Uid /\ ongoing.reqs \subseteq Uid /\ Overtaking \subseteq ongoing.reqs
  BY ElemsType DEF IndInv, ControlTypeOK, Batch, Overtaking
<1>6. /\ req' \in [Uid -> Req] /\ freeSlots' \in [Slot -> Nat] /\ SlotsConserved'
      /\ \A v \in Uid : v # u => req'[v] = req[v]
      /\ \A v \in Uid : Holds(v)' => Holds(v)
      /\ \A v \in Uid : /\ CanDecode(v)' <=> CanDecode(v)
                        /\ req'[v].aborted = req[v].aborted
                        /\ req'[v].cachedLen = req[v].cachedLen
  BY DrainEffect
<1>7. \A v \in Uid : v # u => (Holds(v)' <=> Holds(v))
  BY <1>6 DEF Holds
<1>8. \/ /\ running' = running /\ newFinished' = newFinished
         /\ (Holds(u)' <=> Holds(u))
         /\ Holds(u)' => u \in running \cup chunked \cup Overtaking
      \/ /\ running' = running /\ newFinished' = newFinished /\ ~Holds(u)'
         /\ u \notin running \cup chunked \cup ongoing.reqs
      \/ /\ running' = running \ {u} /\ newFinished' = newFinished \cup {u} /\ ~Holds(u)'
         /\ u \notin ToSet(pending) \cup toSend \cup chunked
  BY DrainEffect DEF DrainLeaves
<1>9. ControlTypeOK'
  <2>1. sent' \in [Uid -> Sent]
    <3>1. sent \in [Uid -> Sent]
      BY DEF IndInv, ControlTypeOK
    <3>2. CASE sent' = sent
      BY <3>1, <3>2
    <3>3. CASE DrainSampled(u, stop)
      <4>1. PICK f \in {"none", "stop", "length", "error"} :
               sent' = [sent EXCEPT ![u].tokens = @ + 1, ![u].finish = f]
        <5>1. sent[u].finish \in {"none", "stop", "length", "error"}
          BY <3>1 DEF Sent
        <5> QED BY <3>1, <3>3, <5>1 DEF DrainSampled
      <4>2. sent[u] \in Sent /\ sent[u].tokens + 1 \in Nat
        BY <3>1 DEF Sent
      <4>3. [sent[u] EXCEPT !.tokens = @ + 1, !.finish = f] \in Sent
        BY <4>2 DEF Sent
      <4> QED BY <3>1, <4>1, <4>3
    <3> QED BY <3>2, <3>3 DEF DrainOne, DrainChunk, DrainAborted, DrainFinished
  <2>2. running' \subseteq Uid /\ newFinished' \subseteq Uid /\ todo' \subseteq Uid
    BY <1>1, <1>4, <1>8
  <2> QED BY <1>1, <1>6, <2>1, <2>2 DEF IndInv, ControlTypeOK
<1>10. InflightSafe'
  <2>1. \A v \in todo \ {u} : Holds(v)' \/ v \in finished
    BY <1>2, <1>4, <1>7 DEF IndInv, InflightSafe
  <2>2. \A v \in Overtaking : Holds(v)' \/ v \in newFinished'
    BY <1>4, <1>7, <1>8 DEF IndInv, InflightSafe
  <2> QED BY <1>1, <1>2, <2>1, <2>2 DEF InflightSafe
<1>11. QueueInv'
  BY <1>1 DEF IndInv, Ownership, QueueInv
<1>12. HolderInv'
  <2>1. \A v \in toSend' : ~Holds(v)'
    BY <1>1, <1>4, <1>6 DEF IndInv, Ownership, HolderInv
  <2>2. \A v \in ToSet(pending') \ (chunked' \cup adder'.reqs) : ~Holds(v)'
    BY <1>1, <1>4, <1>6 DEF IndInv, Ownership, HolderInv
  <2>3. \A v \in adder'.reqs \cup running' \cup chunked' : Holds(v)'
    BY <1>1, <1>2, <1>4, <1>7, <1>8 DEF IndInv, Ownership, HolderInv
  <2>4. \A v \in running' : CanDecode(v)'
    BY <1>4, <1>6, <1>8 DEF IndInv, Ownership, HolderInv
  <2>5. \A v \in Uid : Holds(v)' => v \in running' \cup chunked' \cup adder'.reqs
                                          \cup Undrained' \cup Overtaking'
    BY <1>1, <1>2, <1>7, <1>8 DEF IndInv, Ownership, HolderInv
  <2>6. running' \cap (ToSet(pending') \cup toSend') = {}
    BY <1>1, <1>8 DEF IndInv, Ownership, HolderInv
  <2> QED BY <2>1, <2>2, <2>3, <2>4, <2>5, <2>6 DEF HolderInv
<1>13. ChunkInv'
  BY <1>1, <1>2, <1>4, <1>6 DEF IndInv, Ownership, ChunkInv
<1>14. BatchInv'
  <2>1. /\ ~Overlap => lastData' = NoBatch
        /\ phase' = "drain" /\ todo' \subseteq Drained'.reqs
        /\ ongoing'.chunked \subseteq chunked'
        /\ \A c \in {lastData', ongoing'} :
              /\ c.chunked \subseteq c.reqs
              /\ (c.reqs \ c.chunked) \cap (ToSet(pending') \cup toSend') = {}
    BY <1>1, <1>2 DEF IndInv, Ownership, BatchInv
  <2>2. Drained' # NoBatch
    BY <1>2 DEF NoBatch
  <2>3. \A v \in finished' \cup newFinished' : ~Holds(v)' /\ v \notin ToSet(pending') \cup toSend'
    BY <1>1, <1>4, <1>6, <1>8 DEF IndInv, Ownership, BatchInv
  <2>4. \A v \in Uid : req'[v].aborted =>
            v \notin ToSet(pending') \cup toSend' \cup running' \cup ongoing'.reqs
    <3>1. running' \subseteq running
      BY <1>8
    <3> QED BY <1>1, <1>6, <3>1 DEF IndInv, Ownership, BatchInv
  <2>5. \A v \in Undrained' \cap DrainBatch'.chunked :
            req'[v].aborted \/ v \in chunked' \cup adder'.reqs \cup Overtaking'
    BY <1>1, <1>2, <1>4, <1>6 DEF IndInv, Ownership, BatchInv
  <2>6. \A v \in Undrained' \ DrainBatch'.chunked :
            req'[v].aborted \/ v \in finished' \/ ~CanDecode(v)' \/ v \in running'
    <3>1. \A v \in running : v # u => v \in running'
      BY <1>8
    <3> QED BY <1>1, <1>2, <1>4, <1>6, <3>1 DEF IndInv, Ownership, BatchInv
  <2>7. \A v \in Overtaking' \ ongoing'.chunked :
            req'[v].aborted \/ v \in newFinished' \/ ~CanDecode(v)' \/ v \in running'
    <3>1. /\ newFinished \subseteq newFinished'
          /\ \A v \in running : v \in running' \/ v \in newFinished'
      BY <1>8
    <3> QED BY <1>1, <1>2, <1>4, <1>6, <3>1 DEF IndInv, Ownership, BatchInv
  <2> QED BY <2>1, <2>2, <2>3, <2>4, <2>5, <2>6, <2>7 DEF BatchInv
<1> QED BY <1>6, <1>9, <1>10, <1>11, <1>12, <1>13, <1>14 DEF IndInv, Ownership

\* The end of the pass: the launched batch becomes the one to drain, and finished_reqs is
\* replaced by what this drain finished exactly when a batch was drained.
LEMMA EndPassInv == IndInv /\ EndPass => IndInv'
<1> SUFFICES ASSUME IndInv, EndPass PROVE IndInv'
  OBVIOUS
<1> USE SchedulerConstants
<1>1. /\ phase = "drain" /\ phase' = "recv" /\ todo = {} /\ ongoing' = NoBatch
      /\ newFinished' = {} /\ acks' = {} /\ sent' = FlushAbortAcks
      /\ lastData' = IF Overlap THEN ongoing ELSE NoBatch
      /\ finished' = IF Drained = NoBatch THEN finished ELSE newFinished
      /\ UNCHANGED <<toSend, aborts, job, pending, chunked, req, running, adder, todo, freeSlots,
                     tombstones, rebuild, rebuilds, wedged, numPages>>
  BY DEF EndPass, envVars, queueVars, passVars, poolVars, ctlVars
<1>2. waiting' \in BOOLEAN
  BY Zenon DEF EndPass, Blocking
<1>3. /\ Undrained' = Overtaking /\ Overtaking' = {} /\ Undrained = {} /\ adder.reqs = {}
      /\ DrainBatch' = lastData' /\ adder = NoAdder /\ adder' = NoAdder /\ adder'.reqs = {}
  BY <1>1 DEF Undrained, Overtaking, DrainBatch, NoBatch, NoAdder, IndInv, Ownership, QueueInv
<1>4. \A v : (Holds(v)' <=> Holds(v)) /\ (CanDecode(v)' <=> CanDecode(v))
  BY <1>1 DEF Holds, CanDecode, RemainLen
<1>5. newFinished \subseteq finished' /\ finished' \subseteq finished \cup newFinished
  BY <1>1 DEF IndInv, Ownership, BatchInv
<1>6. ControlTypeOK'
  <2>1. sent' \in [Uid -> Sent]
    <3>1. ASSUME NEW v \in Uid PROVE [sent[v] EXCEPT !.acks = @ + 1] \in Sent
      <4>1. sent[v] \in Sent /\ sent[v].acks + 1 \in Nat
        BY DEF IndInv, ControlTypeOK, Sent
      <4> QED BY <4>1 DEF Sent
    <3> QED BY <1>1, <3>1 DEF FlushAbortAcks, IndInv, ControlTypeOK
  <2>2. lastData' \in Batch /\ ongoing' \in Batch
    BY <1>1 DEF IndInv, ControlTypeOK, NoBatch, Batch
  <2> QED BY <1>1, <1>2, <2>1, <2>2 DEF IndInv, ControlTypeOK, Phases
<1>7. SlotsConserved'
  BY <1>1 DEF IndInv, SlotsConserved
<1>8. InflightSafe'
  BY <1>3, <1>4, <1>5 DEF IndInv, InflightSafe
<1>9. QueueInv' /\ ChunkInv'
  BY <1>1, <1>3 DEF IndInv, Ownership, QueueInv, ChunkInv
<1>10. HolderInv'
  BY <1>1, <1>3, <1>4 DEF IndInv, Ownership, HolderInv
<1>11. BatchInv'
  <2>1. /\ ~Overlap => lastData' = NoBatch
        /\ ongoing' = NoBatch /\ todo' = {} /\ newFinished' = {}
        /\ todo' \subseteq Drained'.reqs /\ ongoing'.chunked = {} /\ ongoing'.reqs = {}
    BY <1>1 DEF NoBatch
  <2>2. \A c \in {lastData', ongoing'} :
            /\ c.chunked \subseteq c.reqs
            /\ (c.reqs \ c.chunked) \cap (ToSet(pending') \cup toSend') = {}
    BY <1>1 DEF IndInv, Ownership, BatchInv, NoBatch
  <2>3. \A v \in finished' \cup newFinished' : ~Holds(v)' /\ v \notin ToSet(pending') \cup toSend'
    BY <1>1, <1>4, <1>5 DEF IndInv, Ownership, BatchInv
  <2>4. \A v \in Uid : req'[v].aborted =>
            v \notin ToSet(pending') \cup toSend' \cup running' \cup ongoing'.reqs
    BY <1>1, <2>1 DEF IndInv, Ownership, BatchInv
  <2>5. \A v \in Undrained' \cap DrainBatch'.chunked :
            req'[v].aborted \/ v \in chunked' \cup adder'.reqs \cup Overtaking'
    BY <1>1, <1>3 DEF IndInv, Ownership, BatchInv, Overtaking
  <2>6. \A v \in Undrained' \ DrainBatch'.chunked :
            req'[v].aborted \/ v \in finished' \/ ~CanDecode(v)' \/ v \in running'
    BY <1>1, <1>3, <1>4, <1>5 DEF IndInv, Ownership, BatchInv, Overtaking
  <2>7. Overtaking' = {}
    BY <1>3
  <2> QED BY <2>1, <2>2, <2>3, <2>4, <2>5, <2>6, <2>7 DEF BatchInv
<1> QED BY <1>6, <1>7, <1>8, <1>9, <1>10, <1>11 DEF IndInv, Ownership

-----------------------------------------------------------------------------
(* What holds of the rows *)

\* The invariant is inductive: every step of the loop and every message keeps it.
THEOREM Inductive == Spec => []IndInv
<1>1. IndInv /\ [Next]_vars => IndInv'
  <2> SUFFICES ASSUME IndInv, [Next]_vars PROVE IndInv'
    OBVIOUS
  <2>1. ASSUME NEW u \in Uid, NEW p \in PromptLens, NEW m \in OutLens, RecvUser(u, p, m)
        PROVE  IndInv'
    BY <2>1, RecvUserInv
  <2>2. ASSUME NEW u \in Uid, RecvAbort(u) PROVE IndInv'
    BY <2>2, RecvAbortInv
  <2>3. CASE RecvRebuild
    BY <2>3, RecvRebuildInv
  <2>4. CASE EndRecv
    BY <2>4, EndRecvInv
  <2>5. ASSUME NEW n \in PageCounts, ExecuteRebuild(n) PROVE IndInv'
    BY <2>5, ExecuteRebuildInv
  <2>6. CASE AdmitOne
    BY <2>6, AdmitOneInv
  <2>7. CASE Launch
    BY <2>7, LaunchInv
  <2>8. CASE LaunchDies
    BY <2>8, LaunchDiesInv
  <2>9. ASSUME NEW u \in Uid, NEW stop \in BOOLEAN, DrainOne(u, stop) PROVE IndInv'
    BY <2>9, DrainOneInv
  <2>10. CASE EndPass
    BY <2>10, EndPassInv
  <2>11. CASE UNCHANGED vars
    <3>1. UNCHANGED <<coreVars, tombstones>>
      BY <2>11 DEF vars, coreVars, loopVars, envVars, queueVars, passVars, batchVars, poolVars
    <3>2. UNCHANGED <<waiting, aborts, numPages, acks, rebuild, rebuilds, wedged, sent>>
      BY <2>11 DEF vars, loopVars, envVars, ctlVars
    <3>3. ControlTypeOK'
      BY <3>1, <3>2 DEF IndInv, ControlTypeOK, coreVars
    <3> QED BY <3>1, <3>3, SameCore DEF IndInv
  <2> QED BY <2>1, <2>2, <2>3, <2>4, <2>5, <2>6, <2>7, <2>8, <2>9, <2>10, <2>11
          DEF Next, Receive, Pass
<1> QED BY <1>1, InitInv, PTL DEF Spec

\* The control state keeps its types; a chunk never exceeds the prefill budget or the prompt.
THEOREM TypeCorrect == Spec => []ControlTypeOK
BY Inductive, PTL DEF IndInv

\* No order of aborts, finishes and drains frees a row twice, loses it or gives it to two
\* requests (_free_req_resources, TableManager).
THEOREM RowsConserved == Spec => []SlotsConserved
BY Inductive, PTL DEF IndInv

\* An abort frees no request under a forward that is in flight, and what a drain has finished is
\* skipped by the next one.
THEOREM NoFreeUnderForward == Spec => []InflightSafe
BY Inductive, PTL DEF IndInv

\* Every row that is taken is reachable from a structure the loop will go through.
THEOREM RowsReachable == Spec => []Ownership
BY Inductive, PTL DEF IndInv

\* When a runtime cache rebuild runs, nobody holds a row of the table it throws away.
THEOREM RebuildSafe == Spec => []RebuildOwnsAll
BY Inductive, RebuildFinds, PTL

-----------------------------------------------------------------------------
(* The pages.  Sums are over the requests, so there are finitely many of them. *)

\* The counters are natural numbers, free and held pages are the pool, and a loop that waits has
\* nothing queued, running or in flight.
PoolInv ==
    /\ reserved \in Nat /\ freePages \in Nat /\ PagesConserved
    /\ waiting => phase = "recv" /\ lastData = NoBatch /\ pending = <<>> /\ running = {}

\* A number of tokens takes a number of pages, no tokens take none.
LEMMA PagesOfTokens == DivCeil(0, PageSize) = 0 /\ \A n \in Nat : DivCeil(n, PageSize) \in Nat
BY SchedulerConstants DEF DivCeil

LEMMA PagesHeldNat == ControlTypeOK => \A u \in Uid : PagesHeld(u) \in Nat
<1> SUFFICES ASSUME ControlTypeOK, NEW u \in Uid PROVE PagesHeld(u) \in Nat
  OBVIOUS
<1>1. req[u].cachedLen \in Nat
  BY DEF ControlTypeOK, Req
<1> QED BY <1>1, PagesOfTokens DEF PagesHeld

\* A step that frees and takes no page.
LEMMA PagesKept ==
    ASSUME PagesConserved, UNCHANGED <<freePages, numPages>>,
           \A u \in Uid : PagesHeld(u)' = PagesHeld(u)
    PROVE  PagesConserved'
<1>1. [u \in Uid |-> PagesHeld(u)'] = [u \in Uid |-> PagesHeld(u)]
  OBVIOUS
<1> QED BY <1>1 DEF PagesConserved

\* _free_req_resources gives back exactly the pages that the request holds.
LEMMA FreePagesBack ==
    ASSUME IsFiniteSet(Uid), NEW u \in Uid, ControlTypeOK, SlotsConserved, PoolInv,
           FreeReqResources(u), numPages' = numPages
    PROVE  freePages' \in Nat /\ PagesConserved'
<1>1. /\ req[u].cachedLen \in Nat /\ ~Holds(u)'
      /\ \A v \in Uid : v # u => req'[v] = req[v]
  BY FreeOnce DEF ControlTypeOK, Req
<1>2. freePages' = freePages + PagesHeld(u)
  BY <1>1 DEF FreeReqResources, OwnPages, PagesHeld, Holds
<1>3. PagesHeld(u)' = 0 /\ \A v \in Uid : v # u => PagesHeld(v)' = PagesHeld(v)
  BY <1>1 DEF PagesHeld, Holds
<1> DEFINE held == [v \in Uid |-> PagesHeld(v)]
           now  == [v \in Uid |-> PagesHeld(v)']
<1>4. /\ \A v \in Uid : held[v] \in Int /\ (v # u => now[v] = held[v])
      /\ held[u] = PagesHeld(u) /\ now[u] = 0 /\ DOMAIN held = Uid /\ DOMAIN now = Uid
  BY <1>3, PagesHeldNat
<1>5. freePages + SumFunction(held) = numPages
  BY DEF PoolInv, PagesConserved
<1>6. PagesConserved' <=> freePages' + SumFunction(now) = numPages'
  BY DEF PagesConserved
<1> HIDE DEF held, now
<1>7. SumFunction(now) = SumFunction(held) - held[u] + now[u]
  BY <1>4, SumChange DEF SumFunction
<1>8. SumFunction(held) \in Int
  BY <1>4, SumFirst DEF SumFunction
<1>9. PagesHeld(u) \in Nat /\ freePages \in Nat
  BY PagesHeldNat DEF PoolInv
<1> QED BY <1>2, <1>4, <1>5, <1>6, <1>7, <1>8, <1>9

\* A request that decodes has tokens left, so the estimate for the running ones is a number.
LEMMA InflightNat ==
    ASSUME IsFiniteSet(Uid), IndInv
    PROVE  InflightTokens \in Nat
<1> DEFINE left == [u \in running |-> RemainLen(u)]
<1>1. IsFiniteSet(running) /\ Cardinality(running) \in Nat
  BY FS_Subset, FS_CardinalityType DEF IndInv, ControlTypeOK
<1>2. \A u \in running : RemainLen(u) \in Nat
  BY DEF IndInv, ControlTypeOK, Req, Ownership, HolderInv, CanDecode, RemainLen
<1>3. SumFunction(left) \in Nat
  <2>1. DOMAIN left = running /\ \A u \in running : left[u] \in Nat
    BY <1>2
  <2> HIDE DEF left
  <2> QED BY <1>1, <2>1, SumNat DEF SumFunction
<1> HIDE DEF left
<1>4. InflightTokens = SumFunction(left) + (PageSize - 1) * Cardinality(running)
  BY DEF InflightTokens, left
<1>5. (PageSize - 1) * Cardinality(running) \in Nat
  BY <1>1, SchedulerConstants
<1> QED BY <1>3, <1>4, <1>5

\* Receiving
LEMMA RecvPool ==
    ASSUME IsFiniteSet(Uid), IndInv, PoolInv, Receive
    PROVE  PoolInv'
<1>1. waiting' = FALSE /\ reserved' = reserved /\ numPages' = numPages
  BY DEF Receive, RecvUser, RecvAbort, RecvRebuild, passVars, ctlVars
<1>2. freePages' \in Nat /\ PagesConserved'
  <2>1. CASE UNCHANGED <<req, poolVars>>
    <3>1. \A u \in Uid : PagesHeld(u)' = PagesHeld(u)
      BY <2>1 DEF PagesHeld, Holds
    <3> QED BY <1>1, <2>1, <3>1, PagesKept DEF PoolInv, poolVars
  <2>2. ASSUME NEW u \in Uid, FreeReqResources(u) PROVE freePages' \in Nat /\ PagesConserved'
    BY <1>1, <2>2, FreePagesBack DEF IndInv
  <2>3. ASSUME NEW u \in Uid, req' = [req EXCEPT ![u].aborted = TRUE], UNCHANGED poolVars
        PROVE  freePages' \in Nat /\ PagesConserved'
    <3>1. req \in [Uid -> Req]
      BY DEF IndInv, ControlTypeOK
    <3>2. \A v \in Uid : req'[v].tableIdx = req[v].tableIdx /\ req'[v].cachedLen = req[v].cachedLen
      BY <2>3, <3>1 DEF Req
    <3>3. \A v \in Uid : PagesHeld(v)' = PagesHeld(v)
      BY <3>2 DEF PagesHeld, Holds
    <3> QED BY <1>1, <2>3, <3>3, PagesKept DEF PoolInv, poolVars
  <2>4. \/ UNCHANGED <<req, poolVars>>
        \/ \E u \in Uid : FreeReqResources(u)
        \/ \E u \in Uid : req' = [req EXCEPT ![u].aborted = TRUE] /\ UNCHANGED poolVars
    BY DEF Receive, RecvUser, RecvAbort, RecvRebuild
  <2> QED BY <2>1, <2>2, <2>3, <2>4
<1> QED BY <1>1, <1>2 DEF PoolInv

\* The pass begins: after a rebuild every pool starts over, and nobody held a page.
LEMMA StartPassPool ==
    ASSUME IsFiniteSet(Uid), IndInv, PoolInv,
           EndRecv \/ \E n \in PageCounts : ExecuteRebuild(n)
    PROVE  PoolInv'
<1>1. ~waiting' /\ reserved' = InflightTokens /\ req' = req
  BY DEF EndRecv, ExecuteRebuild
<1>2. reserved' \in Nat
  BY <1>1, InflightNat
<1>3. \A u \in Uid : PagesHeld(u)' = PagesHeld(u)
  BY <1>1 DEF PagesHeld, Holds
<1>4. CASE UNCHANGED <<freePages, numPages>>
  BY <1>1, <1>2, <1>3, <1>4, PagesKept DEF PoolInv
<1>5. CASE ~UNCHANGED <<freePages, numPages>>
  <2>1. PICK n \in PageCounts : ExecuteRebuild(n) /\ numPages' = n /\ freePages' = n
    BY <1>5 DEF EndRecv, ExecuteRebuild, poolVars, ctlVars
  <2>2. \A u \in Uid : ~Holds(u)
    BY <2>1, RebuildFinds DEF RebuildOwnsAll, ExecuteRebuild
  <2> DEFINE held == [u \in Uid |-> PagesHeld(u)']
             none == [u \in {} |-> 0]
  <2>3. /\ DOMAIN held = Uid /\ DOMAIN none = {}
        /\ \A u \in Uid : held[u] \in Int /\ held[u] = 0
    BY <1>3, <2>2 DEF PagesHeld
  <2>4. PagesConserved' <=> freePages' + SumFunction(held) = numPages'
    BY DEF PagesConserved
  <2> HIDE DEF held, none
  <2>5. SumFunction(none) = SumFunction(held)
    BY <2>3, SumExtends
  <2>6. SumFunction(none) = 0
    BY <2>3, SumFirst, FS_EmptySet DEF SumFunction
  <2>7. n \in Nat
    BY SchedulerConstants
  <2> QED BY <1>1, <1>2, <2>1, <2>4, <2>5, <2>6, <2>7 DEF PoolInv
<1> QED BY <1>4, <1>5

\* The estimate grows by what is left of the prompt and by the output; the row's pages are those
\* it had.
LEMMA AdmitPool ==
    ASSUME IndInv, PoolInv, AdmitOne
    PROVE  PoolInv'
<1> PICK u : u = Head(adder.rest)
  OBVIOUS
<1>1. /\ phase = "admit" /\ UNCHANGED <<waiting, freePages, numPages>>
      /\ u \in Uid /\ u \notin adder.reqs /\ job[u].input \in Nat /\ job[u].output \in Nat
      /\ \A v \in Uid : v # u => req'[v] = req[v]
      /\ ChunkStart(u) \in Nat /\ req'[u].cachedLen = ChunkStart(u)
      /\ reserved' = reserved + (job[u].input - ChunkStart(u)) + job[u].output
  BY AdmitEffect
<1>2. RowTaken(u) /\ u \in ToSet(pending)
  BY AdmitEffect
<1>3. u \in chunked => ChunkStart(u) = req[u].cachedLen /\ req[u].cachedLen < job[u].input
  BY <1>1 DEF IndInv, Ownership, ChunkInv, ChunkStart
<1>4. reserved' \in Nat
  <2>1. ChunkStart(u) <= job[u].input
    BY <1>1, <1>3 DEF ChunkStart
  <2> QED BY <1>1, <2>1 DEF PoolInv
<1>5. PagesHeld(u)' = PagesHeld(u)
  <2>1. CASE u \in chunked
    BY <1>1, <1>2, <1>3, <2>1 DEF PagesHeld, Holds, RowTaken
  <2>2. CASE u \notin chunked
    <3>1. ~Holds(u) /\ req'[u].cachedLen = 0
      BY <1>1, <1>2, <2>2 DEF IndInv, Ownership, HolderInv, ChunkStart
    <3> QED BY <3>1, PagesOfTokens DEF PagesHeld
  <2> QED BY <2>1, <2>2
<1>6. \A v \in Uid : PagesHeld(v)' = PagesHeld(v)
  BY <1>1, <1>5 DEF PagesHeld, Holds
<1> QED BY <1>1, <1>4, <1>6, PagesKept DEF PoolInv

\* The launch takes from the free pages what it adds to the pages of its requests.
LEMMA LaunchPool ==
    ASSUME IsFiniteSet(Uid), IndInv, PoolInv, Launch
    PROVE  PoolInv'
<1> DEFINE b == NextBatch
<1>1. /\ phase = "admit" /\ reserved' = 0 /\ UNCHANGED <<waiting, numPages>>
      /\ freePages' = freePages - NeededPages(b) /\ ~(NeededPages(b) > freePages)
      /\ Completed(b) /\ \A v \in b.reqs : v \in Uid /\ Holds(v)
  BY LaunchEffect
<1> HIDE DEF b
<1> DEFINE held == [v \in Uid |-> PagesHeld(v)]
           now  == [v \in Uid |-> PagesHeld(v)']
           need == [v \in b.reqs |-> PagesNeeded(v)]
           more == [v \in Uid |-> IF v \in b.reqs THEN PagesNeeded(v) ELSE 0]
<1>2. \A v \in Uid : PagesHeld(v) \in Int /\ PagesHeld(v)' \in Int /\ more[v] \in Int
                     /\ PagesHeld(v)' = PagesHeld(v) + more[v]
  <2> SUFFICES ASSUME NEW v \in Uid
               PROVE  PagesHeld(v) \in Int /\ PagesHeld(v)' \in Int /\ more[v] \in Int
                      /\ PagesHeld(v)' = PagesHeld(v) + more[v]
    OBVIOUS
  <2>1. req[v].cachedLen \in Nat /\ req[v].deviceLen \in Nat
    BY DEF IndInv, ControlTypeOK, Req
  <2>2. PagesHeld(v) \in Nat
    BY PagesHeldNat DEF IndInv
  <2>3. /\ DivCeil(req[v].cachedLen, PageSize) \in Nat
        /\ DivCeil(req[v].deviceLen, PageSize) \in Nat
    BY <2>1, PagesOfTokens
  <2>4. CASE v \in b.reqs
    <3>1. /\ PagesHeld(v) = DivCeil(req[v].cachedLen, PageSize)
          /\ PagesHeld(v)' = DivCeil(req[v].deviceLen, PageSize)
      BY <1>1, <2>4 DEF PagesHeld, Holds, Completed
    <3>2. more[v] = PagesHeld(v)' - PagesHeld(v)
      BY <2>4, <3>1 DEF PagesNeeded
    <3> QED BY <2>3, <3>1, <3>2
  <2>5. CASE v \notin b.reqs
    <3>1. PagesHeld(v)' = PagesHeld(v) /\ more[v] = 0
      BY <1>1, <2>5 DEF PagesHeld, Holds, Completed
    <3> QED BY <2>2, <3>1
  <2> QED BY <2>4, <2>5
<1>3. /\ DOMAIN held = Uid /\ DOMAIN now = Uid /\ DOMAIN need = b.reqs /\ DOMAIN more = Uid
      /\ b.reqs \subseteq Uid
  BY <1>1
<1>4. \A v \in Uid : /\ held[v] \in Int /\ more[v] \in Int /\ now[v] = held[v] + more[v]
                     /\ more[v] = IF v \in DOMAIN need THEN need[v] ELSE 0
  BY <1>2
<1>5. /\ freePages + SumFunction(held) = numPages /\ NeededPages(b) = SumFunction(need)
      /\ PagesConserved' <=> freePages' + SumFunction(now) = numPages'
  BY DEF PoolInv, PagesConserved, NeededPages
<1> HIDE DEF held, now, need, more
<1>6. SumFunction(now) = SumFunction(held) + SumFunction(more)
  BY <1>3, <1>4, SumPlus DEF SumFunction
<1>7. SumFunction(need) = SumFunction(more)
  BY <1>3, <1>4, SumExtends
<1>8. SumFunction(held) \in Int
  BY <1>3, <1>4, SumFirst DEF SumFunction
<1>9. SumFunction(more) \in Int
  BY <1>3, <1>4, SumFirst DEF SumFunction
<1>10. freePages \in Nat /\ ~waiting
  BY <1>1 DEF PoolInv
<1>11. freePages' \in Nat /\ freePages' + SumFunction(now) = numPages'
  BY <1>1, <1>5, <1>6, <1>7, <1>8, <1>9, <1>10
<1> QED BY <1>1, <1>5, <1>10, <1>11 DEF PoolInv

\* A step of the drain frees the request or leaves the pools alone.
LEMMA DrainPool ==
    ASSUME IsFiniteSet(Uid), IndInv, PoolInv,
           NEW u \in Uid, NEW stop \in BOOLEAN, DrainOne(u, stop)
    PROVE  PoolInv'
<1>1. phase = "drain" /\ UNCHANGED <<waiting, reserved, numPages>>
  BY DEF DrainOne, loopVars, passVars, ctlVars
<1>2. FreeReqResources(u) \/ UNCHANGED <<req, poolVars>>
  BY DEF DrainOne, DrainChunk, DrainAborted, DrainFinished, DrainSampled
<1>3. freePages' \in Nat /\ PagesConserved'
  <2>1. CASE UNCHANGED <<req, poolVars>>
    <3>1. \A v \in Uid : PagesHeld(v)' = PagesHeld(v)
      BY <2>1 DEF PagesHeld, Holds
    <3> QED BY <1>1, <2>1, <3>1, PagesKept DEF PoolInv, poolVars
  <2>2. CASE FreeReqResources(u)
    BY <1>1, <2>2, FreePagesBack DEF IndInv
  <2> QED BY <1>2, <2>1, <2>2
<1> QED BY <1>1, <1>3 DEF PoolInv

\* Everything else leaves requests and pools alone; the loop waits only with nothing to do.
LEMMA RestPool ==
    ASSUME PoolInv, EndPass \/ LaunchDies \/ UNCHANGED vars
    PROVE  PoolInv'
<1>1. UNCHANGED <<req, reserved, freePages, numPages, pending, running>>
  BY DEF EndPass, LaunchDies, vars, queueVars, passVars, poolVars, ctlVars
<1>2. PagesConserved'
  <2>1. \A u \in Uid : PagesHeld(u)' = PagesHeld(u)
    BY <1>1 DEF PagesHeld, Holds
  <2> QED BY <1>1, <2>1, PagesKept DEF PoolInv
<1>3. waiting' => phase' = "recv" /\ lastData' = NoBatch /\ pending' = <<>> /\ running' = {}
  <2>1. CASE EndPass
    <3>1. phase' = "recv" /\ waiting' = Blocking(lastData')
      BY <2>1 DEF EndPass
    <3> QED BY <1>1, <3>1 DEF Blocking, Runnable
  <2>2. CASE LaunchDies
    BY <2>2 DEF LaunchDies, PoolInv
  <2>3. CASE UNCHANGED vars
    BY <2>3 DEF vars, loopVars, queueVars, batchVars, PoolInv
  <2> QED BY <2>1, <2>2, <2>3
<1> QED BY <1>1, <1>2, <1>3 DEF PoolInv

LEMMA InitPool == IsFiniteSet(Uid) /\ Init => PoolInv
<1> SUFFICES ASSUME IsFiniteSet(Uid), Init PROVE PoolInv
  OBVIOUS
<1> DEFINE held == [u \in Uid |-> PagesHeld(u)]
           none == [u \in {} |-> 0]
<1>1. /\ DOMAIN held = Uid /\ DOMAIN none = {}
      /\ \A u \in Uid : held[u] \in Int /\ held[u] = 0
  BY DEF Init, PagesHeld, Holds, NoReq
<1>2. PagesConserved <=> freePages + SumFunction(held) = numPages
  BY DEF PagesConserved
<1> HIDE DEF held, none
<1>3. SumFunction(none) = SumFunction(held)
  BY <1>1, SumExtends
<1>4. SumFunction(none) = 0
  BY <1>1, SumFirst, FS_EmptySet DEF SumFunction
<1> QED BY <1>2, <1>3, <1>4, SchedulerConstants DEF Init, PoolInv

\* The page counters are inductive on top of the rows.
LEMMA PoolCounted == IsFiniteSet(Uid) => (Spec => [](IndInv /\ PoolInv))
<1> SUFFICES ASSUME IsFiniteSet(Uid) PROVE Spec => [](IndInv /\ PoolInv)
  OBVIOUS
<1>1. IndInv /\ PoolInv /\ [Next]_vars => PoolInv'
  <2> SUFFICES ASSUME IndInv, PoolInv, [Next]_vars PROVE PoolInv'
    OBVIOUS
  <2>1. CASE Receive
    BY <2>1, RecvPool
  <2>2. CASE EndRecv \/ \E n \in PageCounts : ExecuteRebuild(n)
    BY <2>2, StartPassPool
  <2>3. CASE AdmitOne
    BY <2>3, AdmitPool
  <2>4. CASE Launch
    BY <2>4, LaunchPool
  <2>5. ASSUME NEW u \in Uid, NEW stop \in BOOLEAN, DrainOne(u, stop) PROVE PoolInv'
    BY <2>5, DrainPool
  <2>6. CASE EndPass \/ LaunchDies \/ UNCHANGED vars
    BY <2>6, RestPool
  <2> QED BY <2>1, <2>2, <2>3, <2>4, <2>5, <2>6 DEF Next, Pass
<1> QED BY <1>1, InitPool, Inductive, PTL DEF Spec

\* reserved_size and the number of free pages never go below zero.
THEOREM CountersNatural ==
    ASSUME IsFiniteSet(Uid)
    PROVE  Spec => []TypeOK
<1>1. IndInv /\ PoolInv => TypeOK
  BY DEF IndInv, PoolInv, TypeOK
<1> QED BY <1>1, PoolCounted, PTL

\* No page is lost, and none is freed twice, by any order of chunks, aborts, finishes and the
\* extra step that overlap decodes (allocate_paged, cache_req).
THEOREM PagesAddUp ==
    ASSUME IsFiniteSet(Uid)
    PROVE  Spec => []PagesConserved
<1>1. PoolInv => PagesConserved
  BY DEF PoolInv
<1> QED BY <1>1, PoolCounted, PTL

\* Whenever the loop is about to block, every row and every page is back (check_integrity).
THEOREM IdleIsClean ==
    ASSUME IsFiniteSet(Uid)
    PROVE  Spec => []IdleIntegrity
<1>1. IndInv /\ PoolInv => IdleIntegrity
  <2> SUFFICES ASSUME IndInv, PoolInv, phase = "recv", waiting
               PROVE  freePages = numPages /\ \A u \in Uid : ~Holds(u)
    BY DEF IdleIntegrity
  <2>1. running = {} /\ chunked = {} /\ adder.reqs = {} /\ Undrained = {} /\ Overtaking = {}
    BY DEF PoolInv, IndInv, Ownership, QueueInv, BatchInv, NoAdder, NoBatch, Undrained,
           Overtaking, ToSet
  <2>2. \A u \in Uid : ~Holds(u)
    BY <2>1 DEF IndInv, Ownership, HolderInv
  <2> DEFINE held == [u \in Uid |-> PagesHeld(u)]
             none == [u \in {} |-> 0]
  <2>3. /\ DOMAIN held = Uid /\ DOMAIN none = {}
        /\ \A u \in Uid : held[u] \in Int /\ held[u] = 0
    BY <2>2 DEF PagesHeld
  <2>4. freePages + SumFunction(held) = numPages
    BY DEF PoolInv, PagesConserved
  <2> HIDE DEF held, none
  <2>5. SumFunction(none) = SumFunction(held)
    BY <2>3, SumExtends
  <2>6. SumFunction(none) = 0
    BY <2>3, SumFirst, FS_EmptySet DEF SumFunction
  <2> QED BY <2>2, <2>4, <2>5, <2>6 DEF PoolInv
<1> QED BY <1>1, PoolCounted, PTL

-----------------------------------------------------------------------------
(* The estimate of admission, for pages of one token (the code's default page_size) *)

\* What the loop may still take from the pool for u: the rest of an admitted prompt and its
\* output, or the steps a decoding request has left.
Claim(u) ==
    IF u \in running THEN RemainLen(u)
    ELSE IF u \in chunked \cup adder.reqs THEN job[u].input - req[u].cachedLen + job[u].output
    ELSE 0

Claims == [u \in Uid |-> Claim(u)]

\* The part of it that this pass has counted in reserved_size
Granted == [u \in Uid |-> IF u \in running \cup adder.reqs THEN Claim(u) ELSE 0]

\* What the launch takes for u
Taken(b) == [u \in Uid |-> IF u \in b.reqs THEN PagesNeeded(u) ELSE 0]

\* A decode step is one token; an admitted request has its prompt in front of it.
StepInv ==
    /\ \A u \in running : req[u].deviceLen = req[u].cachedLen + 1
    /\ \A u \in adder.reqs :
          /\ req[u].cachedLen <= req[u].deviceLen
          /\ u \notin ToSet(adder.chunks) =>
                req[u].deviceLen = job[u].input /\ req[u].maxLen = job[u].input + job[u].output

\* One request at most is chunked.  It is the head of the queue, and a pass admits it before any
\* other, so that no estimate is made without its claim; a chunk that is cut ends the budget.
ChunkFirst ==
    /\ phase \in {"recv", "drain"} => \A u \in chunked : pending # <<>> /\ Head(pending) = u
    /\ phase = "admit" =>
          \/ /\ adder.reqs = {} /\ adder.chunks = <<>> /\ adder.budget > 0
             /\ \A u \in chunked : adder.rest # <<>> /\ Head(adder.rest) = u
          \/ adder.chunks = <<>> /\ chunked = {}
          \/ adder.budget = 0 /\ \E u \in chunked : chunked = {u} /\ adder.chunks = <<u>>

\* All that was promised is there.
ClaimsFit ==
    /\ SumFunction(Claims) <= freePages
    /\ phase = "admit" => reserved = SumFunction(Granted)

FitInv == StepInv /\ ChunkFirst /\ ClaimsFit /\ AllocationFits

\* What is known of every state when a step is looked at
Known == IsFiniteSet(Uid) /\ PageSize = 1 /\ IndInv /\ PoolInv /\ FitInv

LEMMA OnePage == PageSize = 1 => \A n \in Nat : DivCeil(n, PageSize) = n
BY DEF DivCeil

\* Claims are natural numbers.
LEMMA ClaimNat ==
    ASSUME IndInv, StepInv, NEW u \in Uid
    PROVE  Claim(u) \in Nat
<1>1. /\ req[u].cachedLen \in Nat /\ req[u].deviceLen \in Nat /\ req[u].maxLen \in Nat
      /\ job[u].input \in Nat /\ job[u].output \in Nat
  BY DEF IndInv, ControlTypeOK, Req
<1>2. CASE u \in running
  <2>1. RemainLen(u) > 0
    BY <1>2 DEF IndInv, Ownership, HolderInv, CanDecode
  <2> QED BY <1>1, <1>2, <2>1 DEF Claim, RemainLen
<1>3. CASE u \notin running /\ u \in adder.reqs
  <2>1. req[u].cachedLen <= req[u].deviceLen
    BY <1>3 DEF StepInv
  <2>2. req[u].deviceLen <= job[u].input
    <3>1. CASE u \in ToSet(adder.chunks)
      <4>1. u \in chunked
        BY <3>1 DEF IndInv, Ownership, QueueInv
      <4> QED BY <1>1, <1>3, <4>1 DEF IndInv, Ownership, ChunkInv
    <3>2. CASE u \notin ToSet(adder.chunks)
      BY <1>1, <1>3, <3>2 DEF StepInv
    <3> QED BY <3>1, <3>2
  <2> QED BY <1>1, <1>3, <2>1, <2>2 DEF Claim
<1>4. CASE u \notin running /\ u \in chunked \ adder.reqs
  <2>1. req[u].cachedLen < job[u].input
    BY <1>4 DEF IndInv, Ownership, ChunkInv
  <2> QED BY <1>1, <1>4, <2>1 DEF Claim
<1>5. CASE u \notin running \cup chunked \cup adder.reqs
  BY <1>5 DEF Claim
<1> QED BY <1>2, <1>3, <1>4, <1>5

\* The claims and those that were granted, as functions whose values can be summed.
ClaimFacts ==
    /\ DOMAIN Claims = Uid /\ \A u \in Uid : Claims[u] = Claim(u) /\ Claim(u) \in Nat
    /\ SumFunction(Claims) = SumFunctionOnSet(Claims, Uid) /\ SumFunction(Claims) \in Nat
    /\ DOMAIN Granted = Uid
    /\ \A u \in Uid : Granted[u] = IF u \in running \cup adder.reqs THEN Claim(u) ELSE 0
    /\ SumFunction(Granted) = SumFunctionOnSet(Granted, Uid)

LEMMA ClaimSums == IsFiniteSet(Uid) /\ IndInv /\ StepInv => ClaimFacts
<1> SUFFICES ASSUME IsFiniteSet(Uid), IndInv, StepInv PROVE ClaimFacts
  OBVIOUS
<1>1. \A u \in Uid : Claim(u) \in Nat
  BY ClaimNat
<1>2. DOMAIN Claims = Uid /\ \A u \in Uid : Claims[u] = Claim(u)
  BY DEF Claims
<1>3. SumFunction(Claims) = SumFunctionOnSet(Claims, Uid)
  BY <1>2 DEF SumFunction
<1>4. SumFunctionOnSet(Claims, Uid) \in Nat
  BY <1>1, <1>2, SumNat
<1>5. /\ DOMAIN Granted = Uid
      /\ \A u \in Uid : Granted[u] = IF u \in running \cup adder.reqs THEN Claim(u) ELSE 0
  BY DEF Granted
<1>6. SumFunction(Granted) = SumFunctionOnSet(Granted, Uid)
  BY <1>5 DEF SumFunction
<1> QED BY <1>1, <1>2, <1>3, <1>4, <1>5, <1>6 DEF ClaimFacts

\* What a step must leave as it is, or may only let shrink, for the claims to fit still.
LEMMA ClaimsFall ==
    ASSUME IsFiniteSet(Uid), ClaimFacts, ClaimFacts', PoolInv, PoolInv',
           SumFunction(Claims) <= freePages, freePages' >= freePages,
           \A u \in Uid : Claim(u)' <= Claim(u)
    PROVE  SumFunction(Claims)' <= freePages'
<1>1. /\ \A u \in Uid : Claims[u] \in Int /\ Claims'[u] \in Int /\ Claims'[u] <= Claims[u]
      /\ SumFunction(Claims) = SumFunctionOnSet(Claims, Uid)
      /\ SumFunction(Claims') = SumFunctionOnSet(Claims', Uid)
      /\ SumFunction(Claims) \in Nat /\ SumFunction(Claims') \in Nat
  BY DEF ClaimFacts
<1>2. SumFunctionOnSet(Claims', Uid) <= SumFunctionOnSet(Claims, Uid)
  BY <1>1, SumLe
<1>3. freePages \in Nat /\ freePages' \in Nat
  BY DEF PoolInv
<1> QED BY <1>1, <1>2, <1>3

\* What has to be shown of a step.
FitStep == StepInv' /\ ChunkFirst' /\ AllocationFits' /\ (ClaimFacts' => ClaimsFit')

LEMMA KnownClaims == Known => ClaimFacts
BY ClaimSums DEF Known, FitInv

\* A step that admits nothing and lets claims go, if at all.
LEMMA FitKept ==
    ASSUME Known, PoolInv', phase' \notin {"admit", "allocfail"}, freePages' >= freePages,
           adder' = adder, running' \subseteq running, chunked' \subseteq chunked,
           \A u \in running' : /\ req'[u].cachedLen = req[u].cachedLen
                               /\ req'[u].deviceLen = req[u].deviceLen
                               /\ req'[u].maxLen = req[u].maxLen,
           \A u \in chunked' : job'[u] = job[u] /\ req'[u].cachedLen = req[u].cachedLen,
           \A u \in adder.reqs : job'[u] = job[u] /\ req'[u] = req[u],
           ChunkFirst'
    PROVE  FitStep
<1>1. StepInv'
  BY DEF Known, FitInv, StepInv
<1>2. ClaimFacts
  BY KnownClaims
<1>3. ASSUME NEW u \in Uid PROVE Claim(u)' <= Claim(u)
  <2>1. Claim(u) \in Nat
    BY <1>2 DEF ClaimFacts
  <2>2. u \in chunked \cup adder.reqs => u \notin running
    BY DEF Known, IndInv, Ownership, QueueInv, HolderInv
  <2>3. CASE u \in running'
    <3>1. Claim(u)' = Claim(u)
      BY <2>3 DEF Claim, RemainLen
    <3> QED BY <2>1, <3>1
  <2>4. CASE u \notin running' /\ u \in chunked' \cup adder.reqs
    <3>1. Claim(u)' = Claim(u)
      BY <2>2, <2>4 DEF Claim
    <3> QED BY <2>1, <3>1
  <2>5. CASE u \notin running' /\ u \notin chunked' \cup adder.reqs
    <3>1. Claim(u)' = 0
      BY <2>5 DEF Claim
    <3> QED BY <2>1, <3>1
  <2> QED BY <2>3, <2>4, <2>5
<1>4. ClaimFacts' => SumFunction(Claims)' <= freePages'
  BY <1>2, <1>3, ClaimsFall DEF Known, FitInv, ClaimsFit
<1> QED BY <1>1, <1>4 DEF FitStep, ClaimsFit, AllocationFits

\* A new request is queued behind the others and claims nothing yet.
LEMMA RecvUserFit ==
    ASSUME Known, PoolInv',
           NEW u \in Uid, NEW p \in PromptLens, NEW m \in OutLens, RecvUser(u, p, m)
    PROVE  FitStep
<1>1. /\ phase = "recv" /\ phase' = "recv" /\ u \in toSend
      /\ UNCHANGED <<chunked, req, running, adder, freePages>>
      /\ pending' \in {pending, Append(pending, u)}
      /\ job \in [Uid -> [input : Nat, output : Nat]]
  BY DEF RecvUser, passVars, poolVars, Known, IndInv, ControlTypeOK
<1>2. adder.reqs = {} /\ u \notin ToSet(pending) /\ chunked \subseteq ToSet(pending)
      /\ pending \in Seq(Uid) /\ chunked \subseteq Uid
  BY <1>1 DEF Known, IndInv, Ownership, QueueInv, NoAdder, ControlTypeOK
<1>3. \A v \in Uid : v # u => job'[v] = job[v]
  BY <1>1 DEF RecvUser
<1>4. \A v \in chunked : job'[v] = job[v]
  BY <1>2, <1>3
<1>5. ChunkFirst'
  <2>1. ASSUME NEW v \in chunked PROVE pending' # <<>> /\ Head(pending') = v
    <3>1. pending # <<>> /\ Head(pending) = v
      BY <1>1 DEF Known, FitInv, ChunkFirst
    <3>2. Append(pending, u) # <<>> /\ Head(Append(pending, u)) = Head(pending)
      <4>1. Len(pending) > 0 /\ Len(Append(pending, u)) = Len(pending) + 1
        BY <1>2, <3>1
      <4>2. Append(pending, u)[1] = pending[1]
        BY <1>2, <4>1
      <4> QED BY <1>2, <4>1, <4>2
    <3> QED BY <1>1, <3>1, <3>2
  <2> QED BY <1>1, <2>1 DEF ChunkFirst
<1>6. freePages' >= freePages
  BY <1>1 DEF Known, PoolInv
<1> QED BY <1>1, <1>2, <1>4, <1>5, <1>6, FitKept

\* An abort takes the claim away, and with it maybe the head of the queue.
LEMMA RecvAbortFit ==
    ASSUME Known, PoolInv', NEW u \in Uid, RecvAbort(u)
    PROVE  FitStep
<1>1. /\ phase = "recv" /\ phase' = "recv" /\ UNCHANGED <<job, adder>>
      /\ chunked' = chunked \ {u} /\ running' = running \ {u} /\ adder.reqs = {}
      /\ \A v \in Uid : v # u => req'[v] = req[v]
  <2>1. AbortLeaves(u)
    BY AbortEffect DEF Known
  <2>2. /\ phase = "recv" /\ phase' = "recv" /\ UNCHANGED <<job, adder>> /\ adder = NoAdder
        /\ chunked' = chunked \ {u} /\ running' = running \ {u}
    BY AbortEffect DEF Known
  <2> QED BY <2>1, <2>2 DEF AbortLeaves, NoAdder
<1>2. /\ chunked \subseteq Uid /\ running \subseteq Uid
      /\ pending \in Seq(Uid) /\ IsInjective(pending) /\ pending' = RemoveFirst(pending, u)
  BY DEF RecvAbort, Known, IndInv, Ownership, QueueInv, ControlTypeOK
<1>3. ChunkFirst'
  <2>1. ASSUME NEW v \in chunked' PROVE pending' # <<>> /\ Head(pending') = v
    <3>1. pending # <<>> /\ Head(pending) = v /\ v # u
      BY <1>1, <2>1 DEF Known, FitInv, ChunkFirst
    <3> QED BY <1>2, <3>1, RemoveElems
  <2> QED BY <1>1, <2>1 DEF ChunkFirst
<1>4. freePages' >= freePages
  <2>1. freePages' = freePages \/ FreeReqResources(u)
    BY DEF RecvAbort, poolVars
  <2>2. req[u].cachedLen \in Nat /\ freePages \in Nat
    BY DEF Known, PoolInv, IndInv, ControlTypeOK, Req
  <2>3. OwnPages(req[u]) \in Nat
    BY <2>2, PagesOfTokens DEF OwnPages
  <2> QED BY <2>1, <2>2, <2>3 DEF FreeReqResources
<1> QED BY <1>1, <1>2, <1>3, <1>4, FitKept

\* A step of the drain lets the claim of an ended request go.
LEMMA DrainFit ==
    ASSUME Known, PoolInv', NEW u \in Uid, NEW stop \in BOOLEAN, DrainOne(u, stop)
    PROVE  FitStep
<1>1. /\ phase = "drain" /\ UNCHANGED <<phase, job, pending, chunked, adder>> /\ adder.reqs = {}
      /\ \A v \in Uid : /\ req'[v].cachedLen = req[v].cachedLen
                        /\ req'[v].deviceLen = req[v].deviceLen
                        /\ req'[v].maxLen = req[v].maxLen
  BY DrainEffect DEF Known
<1>2. running' \subseteq running
  <2>1. DrainLeaves(u)
    BY DrainEffect DEF Known
  <2> QED BY <2>1 DEF DrainLeaves
<1>3. running \subseteq Uid /\ chunked \subseteq Uid
  BY DEF Known, IndInv, ControlTypeOK
<1>4. ChunkFirst'
  BY <1>1 DEF Known, FitInv, ChunkFirst
<1>5. freePages' >= freePages
  <2>1. FreeReqResources(u) \/ UNCHANGED <<req, poolVars>>
    BY DEF DrainOne, DrainChunk, DrainAborted, DrainFinished, DrainSampled
  <2>2. req[u].cachedLen \in Nat /\ freePages \in Nat
    BY DEF Known, PoolInv, IndInv, ControlTypeOK, Req
  <2>3. OwnPages(req[u]) \in Nat
    BY <2>2, PagesOfTokens DEF OwnPages
  <2> QED BY <2>1, <2>2, <2>3 DEF FreeReqResources, poolVars
<1> QED BY <1>1, <1>2, <1>3, <1>4, <1>5, FitKept

\* The rest of the loop leaves requests and claims alone.
LEMMA RestFit ==
    ASSUME Known, PoolInv', RecvRebuild \/ EndPass
    PROVE  FitStep
<1>1. /\ phase' = "recv" /\ phase \in {"recv", "drain"}
      /\ UNCHANGED <<job, pending, chunked, adder, req, running, freePages>>
  BY DEF RecvRebuild, EndPass, queueVars, passVars, poolVars
<1>2. ChunkFirst'
  BY <1>1 DEF Known, FitInv, ChunkFirst
<1>3. freePages' >= freePages
  BY <1>1 DEF Known, PoolInv
<1> QED BY <1>1, <1>2, <1>3, FitKept

\* A pass starts with the claims of the running requests granted; after a rebuild there are none.
LEMMA StartPassFit ==
    ASSUME Known, PoolInv', EndRecv \/ \E n \in PageCounts : ExecuteRebuild(n)
    PROVE  FitStep
<1>1. /\ phase = "recv" /\ phase' = "admit" /\ UNCHANGED <<job, pending, chunked, req, running>>
      /\ adder' = FreshAdder /\ reserved' = InflightTokens
  BY DEF EndRecv, ExecuteRebuild, queueVars
<1>2. /\ adder'.reqs = {} /\ adder'.chunks = <<>> /\ adder'.budget > 0 /\ adder'.rest = pending
      /\ adder.reqs = {}
  BY <1>1, SchedulerConstants DEF FreshAdder, Known, IndInv, Ownership, QueueInv, NoAdder
<1>3. StepInv' /\ ChunkFirst' /\ AllocationFits'
  BY <1>1, <1>2 DEF Known, FitInv, StepInv, ChunkFirst, AllocationFits
<1>4. ClaimFacts /\ \A u \in Uid : Claim(u)' = Claim(u)
  BY <1>1, <1>2, KnownClaims DEF Claim, RemainLen
<1>5. ASSUME ClaimFacts' PROVE SumFunction(Claims)' <= freePages'
  <2>1. CASE freePages' = freePages
    <3>1. freePages' >= freePages /\ \A u \in Uid : Claim(u)' <= Claim(u)
      BY <1>4, <2>1 DEF ClaimFacts, Known, PoolInv
    <3> QED BY <1>4, <1>5, <3>1, ClaimsFall DEF Known, FitInv, ClaimsFit
  <2>2. CASE freePages' # freePages
    <3>1. ~Runnable
      BY <2>2 DEF EndRecv, ExecuteRebuild, RebuildDue, poolVars
    <3>2. running = {} /\ chunked = {}
      BY <3>1 DEF Runnable, Known, IndInv, Ownership, QueueInv, ToSet
    <3> DEFINE none == [u \in {} |-> 0]
    <3>3. DOMAIN Claims' = Uid /\ \A u \in Uid : Claims'[u] = 0
      BY <1>1, <1>2, <1>5, <3>2 DEF ClaimFacts, Claim
    <3>4. DOMAIN none = {}
      OBVIOUS
    <3> HIDE DEF none
    <3>5. SumFunction(none) = SumFunction(Claims')
      BY <3>3, <3>4, SumExtends DEF Known
    <3>6. SumFunction(none) = 0
      BY <3>4, SumFirst, FS_EmptySet DEF SumFunction
    <3> QED BY <3>5, <3>6 DEF PoolInv
  <2> QED BY <2>1, <2>2
<1>6. ASSUME ClaimFacts' PROVE reserved' = SumFunction(Granted)'
  <2> DEFINE left == [u \in running |-> RemainLen(u)]
  <2>1. DOMAIN left = running /\ running \subseteq Uid
    BY DEF Known, IndInv, ControlTypeOK
  <2>2. \A u \in Uid : /\ Claim(u) \in Nat
                       /\ Granted'[u] = IF u \in running THEN Claim(u) ELSE 0
    BY <1>1, <1>2, <1>4, <1>6 DEF ClaimFacts
  <2>3. \A u \in running : left[u] = Claim(u)
    BY DEF Claim
  <2>4. Cardinality(running) \in Nat
    BY <2>1, FS_Subset, FS_CardinalityType DEF Known
  <2>5. InflightTokens = SumFunction(left) + (PageSize - 1) * Cardinality(running)
    BY DEF InflightTokens
  <2> HIDE DEF left
  <2>6. SumFunction(left) = SumFunction(Granted')
    <3>1. DOMAIN Granted' = Uid
      BY <1>6 DEF ClaimFacts
    <3>2. \A u \in Uid : /\ Granted'[u] \in Int
                         /\ Granted'[u] = IF u \in DOMAIN left THEN left[u] ELSE 0
      BY <2>1, <2>2, <2>3
    <3> QED BY <2>1, <3>1, <3>2, SumExtends DEF Known
  <2>7. InflightTokens = SumFunction(left)
    <3>1. SumFunction(left) \in Int
      <4>1. IsFiniteSet(running) /\ \A u \in running : left[u] \in Int
        BY <2>1, <2>2, <2>3, FS_Subset DEF Known
      <4> QED BY <2>1, <4>1, SumFirst DEF SumFunction
    <3>2. (PageSize - 1) * Cardinality(running) = 0
      BY <2>4 DEF Known
    <3> QED BY <2>5, <3>1, <3>2
  <2> QED BY <1>1, <2>6, <2>7
<1> QED BY <1>1, <1>3, <1>5, <1>6 DEF FitStep, ClaimsFit

\* An admitted request claims what the estimate adds for it; a chunked one had claimed it before.
LEMMA AdmitFit ==
    ASSUME Known, PoolInv', AdmitOne
    PROVE  FitStep
<1> PICK u : u = Head(adder.rest)
  OBVIOUS
<1>0. IndInv
  BY DEF Known
<1>1. /\ phase = "admit" /\ UNCHANGED <<phase, job, running, freePages>>
      /\ adder.rest # <<>> /\ adder.budget > 0 /\ CanAdd(u)
      /\ u \in Uid /\ u \notin adder.reqs \cup ToSet(adder.chunks) \cup running
      /\ \A v \in Uid : v # u => req'[v] = req[v]
      /\ job[u].input \in Nat /\ job[u].output \in Nat
      /\ ChunkStart(u) \in Nat /\ ChunkTaken(u) \in Nat
      /\ req'[u].cachedLen = ChunkStart(u)
      /\ req'[u].deviceLen = ChunkStart(u) + ChunkTaken(u)
      /\ req'[u].maxLen = ChunkStart(u) + ChunkTaken(u) + job[u].output
      /\ reserved' = reserved + (job[u].input - ChunkStart(u)) + job[u].output
      /\ adder'.reqs = adder.reqs \cup {u} /\ adder'.budget = adder.budget - ChunkTaken(u)
  BY <1>0, AdmitEffect
<1>2. ChunkPlaced(u) /\ adder.budget \in Nat
  BY <1>0, AdmitEffect DEF IndInv, ControlTypeOK, Adder
<1>3. /\ chunked' = (IF ChunkCut(u) THEN chunked \cup {u} ELSE chunked \ {u})
      /\ adder'.chunks = (IF ChunkCut(u) THEN Append(adder.chunks, u) ELSE adder.chunks)
      /\ ToSet(adder'.chunks) = (IF ChunkCut(u) THEN ToSet(adder.chunks) \cup {u}
                                 ELSE ToSet(adder.chunks))
      /\ ChunkCut(u) => ChunkTaken(u) = adder.budget
      /\ ~ChunkCut(u) => ChunkStart(u) + ChunkTaken(u) = job[u].input
  BY <1>2 DEF ChunkPlaced
<1> HIDE DEF ChunkPlaced
<1>4. adder.chunks = <<>> /\ chunked \subseteq {u}
  BY <1>1 DEF Known, FitInv, ChunkFirst
<1>5. ChunkFirst'
  <2>1. CASE ChunkCut(u)
    <3>1. adder'.budget = 0 /\ chunked' = {u} /\ adder'.chunks = <<u>>
      BY <1>1, <1>3, <1>4, <2>1
    <3> QED BY <1>1, <3>1 DEF ChunkFirst
  <2>2. CASE ~ChunkCut(u)
    <3>1. chunked' = {} /\ adder'.chunks = <<>>
      BY <1>3, <1>4, <2>2
    <3> QED BY <1>1, <3>1 DEF ChunkFirst
  <2> QED BY <2>1, <2>2
<1>6. StepInv'
  <2>1. ASSUME NEW v \in running' PROVE req'[v].deviceLen = req'[v].cachedLen + 1
    <3>1. v # u /\ v \in Uid /\ v \in running
      BY <1>1, <2>1 DEF Known, IndInv, ControlTypeOK
    <3> QED BY <1>1, <3>1 DEF Known, FitInv, StepInv
  <2>2. ASSUME NEW v \in adder'.reqs
        PROVE  /\ req'[v].cachedLen <= req'[v].deviceLen
               /\ v \notin ToSet(adder'.chunks) =>
                    req'[v].deviceLen = job'[v].input
                    /\ req'[v].maxLen = job'[v].input + job'[v].output
    <3>1. CASE v = u
      BY <1>1, <1>3, <3>1
    <3>2. CASE v # u
      <4>1. v \in adder.reqs /\ v \in Uid
        BY <1>1, <2>2, <3>2 DEF Known, IndInv, ControlTypeOK, Adder
      <4>2. v \notin ToSet(adder'.chunks) => v \notin ToSet(adder.chunks)
        BY <1>3
      <4> QED BY <1>1, <3>2, <4>1, <4>2 DEF Known, FitInv, StepInv
    <3> QED BY <3>1, <3>2
  <2> QED BY <2>1, <2>2 DEF StepInv
<1> DEFINE c == job[u].input - ChunkStart(u) + job[u].output
<1>7. /\ ClaimFacts /\ Claim(u)' = c /\ c \in Int /\ reserved' = reserved + c
      /\ \A v \in Uid : v # u => Claim(v)' = Claim(v)
      /\ reserved \in Nat /\ freePages \in Nat /\ reserved = SumFunction(Granted)
  <2>1. reserved \in Nat /\ freePages \in Nat /\ reserved = SumFunction(Granted)
    BY <1>1 DEF Known, PoolInv, FitInv, ClaimsFit
  <2>2. c \in Int /\ reserved' = reserved + c
    BY <1>1, <2>1
  <2>3. Claim(u)' = c
    BY <1>1 DEF Claim
  <2>4. ASSUME NEW v \in Uid, v # u PROVE Claim(v)' = Claim(v)
    <3>1. /\ v \in chunked' <=> v \in chunked
          /\ v \in adder'.reqs <=> v \in adder.reqs
          /\ req'[v] = req[v] /\ job' = job /\ running' = running
      BY <1>1, <1>3, <2>4
    <3> QED BY <3>1 DEF Claim, RemainLen
  <2> QED BY <2>1, <2>2, <2>3, <2>4, KnownClaims
<1>8. u \in chunked => Claim(u) = c
  BY <1>1 DEF Claim, ChunkStart
<1>9. u \notin chunked => c + reserved <= freePages
  BY <1>1, <1>7 DEF CanAdd, CanAllocate, ChunkStart, Known
<1> HIDE DEF c
<1>10. ASSUME ClaimFacts' PROVE reserved' = SumFunction(Granted)'
  <2>1. /\ \A v \in Uid : Granted[v] \in Int /\ (v # u => Granted'[v] = Granted[v])
        /\ Granted[u] = 0 /\ Granted'[u] = c
    <3>1. /\ \A v \in Uid : /\ Claim(v) \in Nat
                             /\ Granted[v] = IF v \in running \cup adder.reqs THEN Claim(v) ELSE 0
          /\ \A v \in Uid : /\ Claim(v)' \in Nat
                             /\ Granted'[v] = IF v \in running' \cup adder'.reqs THEN Claim(v)'
                                              ELSE 0
      BY <1>7, <1>10 DEF ClaimFacts
    <3>2. running' = running /\ adder'.reqs = adder.reqs \cup {u} /\ u \in Uid
          /\ u \notin running \cup adder.reqs
      BY <1>1
    <3> QED BY <1>7, <3>1, <3>2
  <2>2. SumFunctionOnSet(Granted', Uid)
            = SumFunctionOnSet(Granted, Uid) - Granted[u] + Granted'[u]
    <3> DEFINE f == Granted
               g == Granted'
    <3>1. IsFiniteSet(Uid) /\ u \in Uid /\ g[u] \in Int
      BY <1>1, <1>7, <2>1 DEF Known
    <3>2. \A v \in Uid : f[v] \in Int /\ (v # u => g[v] = f[v])
      BY <2>1
    <3> HIDE DEF f, g
    <3>3. SumFunctionOnSet(g, Uid) = SumFunctionOnSet(f, Uid) - f[u] + g[u]
      BY <3>1, <3>2, SumChange
    <3> QED BY <3>3 DEF f, g
  <2>3. /\ SumFunction(Granted) = SumFunctionOnSet(Granted, Uid)
        /\ SumFunction(Granted') = SumFunctionOnSet(Granted', Uid)
    BY <1>7, <1>10 DEF ClaimFacts
  <2> QED BY <1>7, <2>1, <2>2, <2>3
<1>11. ASSUME ClaimFacts' PROVE SumFunction(Claims)' <= freePages'
  <2>1. CASE u \in chunked
    <3>1. freePages' >= freePages /\ \A v \in Uid : Claim(v)' <= Claim(v)
      <4>1. \A v \in Uid : Claim(v)' = Claim(v) /\ Claim(v) \in Nat
        BY <1>7, <1>8, <2>1 DEF ClaimFacts
      <4> QED BY <1>1, <1>7, <4>1
    <3> QED BY <1>7, <1>11, <3>1, ClaimsFall DEF Known, FitInv, ClaimsFit
  <2>2. CASE u \notin chunked
    <3>1. \A v \in Uid : Claims'[v] = Granted'[v] /\ Granted'[v] \in Int
      <4> SUFFICES ASSUME NEW v \in Uid PROVE Claims'[v] = Granted'[v] /\ Granted'[v] \in Int
        OBVIOUS
      <4>1. v \notin (running \cup adder.reqs)' => Claim(v)' = 0
        BY <1>1, <1>4, <1>7, <2>2 DEF Claim
      <4> QED BY <1>11, <4>1 DEF ClaimFacts
    <3>2. SumFunctionOnSet(Claims', Uid) = SumFunctionOnSet(Granted', Uid)
      BY <3>1, SumSame DEF Known
    <3>3. SumFunction(Claims') = reserved'
      BY <1>10, <1>11, <3>2 DEF ClaimFacts
    <3> QED BY <1>1, <1>7, <1>9, <2>2, <3>3
  <2> QED BY <2>1, <2>2
<1> QED BY <1>1, <1>5, <1>6, <1>10, <1>11 DEF FitStep, ClaimsFit, AllocationFits

\* When admission is done, a chunked request has had its next chunk and stands for all chunks.
LEMMA ChunkedAdmitted ==
    ASSUME Known, phase = "admit", AdmitDone
    PROVE  /\ chunked \subseteq ToSet(adder.chunks)
           /\ chunked = {} \/ \E u \in chunked : chunked = {u} /\ adder.chunks = <<u>>
<1>1. CASE /\ adder.reqs = {} /\ adder.budget > 0
           /\ \A u \in chunked : adder.rest # <<>> /\ Head(adder.rest) = u
  BY <1>1 DEF AdmitDone, CanAdd
<1>2. CASE chunked = {}
  BY <1>2
<1>3. CASE \E u \in chunked : chunked = {u} /\ adder.chunks = <<u>>
  <2>1. PICK u \in chunked : chunked = {u} /\ adder.chunks = <<u>>
    BY <1>3
  <2>2. u \in ToSet(adder.chunks)
    BY <2>1 DEF ToSet
  <2> QED BY <2>1, <2>2
<1> QED BY <1>1, <1>2, <1>3 DEF Known, FitInv, ChunkFirst

\* A batch takes no more for a request than that has claimed.
LEMMA BatchCovered ==
    ASSUME Known, phase = "admit", AdmitDone, NEW u \in Uid
    PROVE  /\ Taken(NextBatch)[u] \in Nat /\ Taken(NextBatch)[u] <= Claim(u)
           /\ u \in NextBatch.reqs => Taken(NextBatch)[u] = req[u].deviceLen - req[u].cachedLen
           /\ u \notin NextBatch.reqs => Taken(NextBatch)[u] = 0
<1> DEFINE b == NextBatch
           n == Taken(b)[u]
<1> SUFFICES /\ n \in Nat /\ n <= Claim(u)
             /\ u \in b.reqs => n = req[u].deviceLen - req[u].cachedLen
             /\ u \notin b.reqs => n = 0
  OBVIOUS
<1>1. /\ req[u].cachedLen \in Nat /\ req[u].deviceLen \in Nat /\ req[u].maxLen \in Nat
      /\ job[u].input \in Nat /\ job[u].output \in Nat
  BY DEF Known, IndInv, ControlTypeOK, Req
<1>2. b.reqs = IF adder.reqs # {} THEN adder.reqs ELSE running
  BY DEF NextBatch, PrefillBatch, DecodeBatch, NoBatch
<1>3. n = IF u \in b.reqs THEN req[u].deviceLen - req[u].cachedLen ELSE 0
  BY <1>1, OnePage DEF Taken, PagesNeeded, Known
<1> HIDE DEF b, n
<1>4. Claim(u) \in Nat
  BY ClaimNat DEF Known, FitInv
<1>5. CASE u \notin b.reqs
  BY <1>3, <1>4, <1>5
<1>6. CASE u \in b.reqs /\ u \in running
  <2>1. req[u].deviceLen = req[u].cachedLen + 1 /\ CanDecode(u)
    BY <1>6 DEF Known, FitInv, StepInv, IndInv, Ownership, HolderInv
  <2> QED BY <1>1, <1>3, <1>6, <2>1 DEF Claim, CanDecode, RemainLen
<1>7. CASE u \in b.reqs /\ u \notin running
  <2>1. u \in adder.reqs
    BY <1>2, <1>7
  <2>2. req[u].cachedLen <= req[u].deviceLen
    BY <2>1 DEF Known, FitInv, StepInv
  <2>3. req[u].deviceLen <= job[u].input
    <3>1. CASE u \in ToSet(adder.chunks)
      <4>1. u \in chunked
        BY <3>1 DEF Known, IndInv, Ownership, QueueInv
      <4>2. req[u].deviceLen < job[u].input
        BY <2>1, <4>1 DEF Known, IndInv, Ownership, ChunkInv
      <4> QED BY <1>1, <4>2
    <3>2. CASE u \notin ToSet(adder.chunks)
      BY <1>1, <2>1, <3>2 DEF Known, FitInv, StepInv
    <3> QED BY <3>1, <3>2
  <2>4. Claim(u) = job[u].input - req[u].cachedLen + job[u].output
    BY <1>7, <2>1 DEF Claim
  <2> QED BY <1>1, <1>3, <1>7, <2>2, <2>3, <2>4
<1> QED BY <1>5, <1>6, <1>7

\* The pages a batch needs are the sum over all requests of what it takes for them.
LEMMA NeededIsTaken ==
    ASSUME Known, phase = "admit", AdmitDone
    PROVE  /\ DOMAIN Taken(NextBatch) = Uid
           /\ NeededPages(NextBatch) = SumFunctionOnSet(Taken(NextBatch), Uid)
<1> DEFINE b == NextBatch
           taken == Taken(b)
           need == [v \in b.reqs |-> PagesNeeded(v)]
<1>1. b.reqs \subseteq Uid
  BY DEF NextBatch, PrefillBatch, DecodeBatch, NoBatch, Known, IndInv, ControlTypeOK, Adder
<1>2. /\ DOMAIN need = b.reqs /\ DOMAIN taken = Uid /\ NeededPages(b) = SumFunction(need)
      /\ \A v \in Uid : taken[v] = IF v \in DOMAIN need THEN need[v] ELSE 0
  BY DEF Taken, NeededPages
<1>3. \A v \in Uid : taken[v] \in Int
  BY BatchCovered
<1> HIDE DEF b, taken, need
<1>4. SumFunction(need) = SumFunction(taken)
  BY <1>1, <1>2, <1>3, SumExtends DEF Known
<1>5. SumFunction(taken) = SumFunctionOnSet(taken, Uid)
  BY <1>2 DEF SumFunction
<1> QED BY <1>2, <1>4, <1>5 DEF b, taken

\* So what admission let in fits, and _allocate finds its pages.
LEMMA BatchFits ==
    ASSUME Known, phase = "admit", AdmitDone
    PROVE  ~EvictionShort
<1> DEFINE taken == Taken(NextBatch)
           claims == Claims
<1>1. ClaimFacts
  BY KnownClaims
<1>2. \A v \in Uid : taken[v] \in Int /\ claims[v] \in Int /\ taken[v] <= claims[v]
  BY <1>1, BatchCovered DEF ClaimFacts
<1>3. NeededPages(NextBatch) = SumFunctionOnSet(taken, Uid)
  BY NeededIsTaken
<1>4. /\ SumFunctionOnSet(claims, Uid) <= freePages /\ freePages \in Nat
      /\ SumFunctionOnSet(claims, Uid) \in Nat
  BY <1>1 DEF ClaimFacts, Known, PoolInv, FitInv, ClaimsFit
<1>5. IsFiniteSet(Uid)
  BY DEF Known
<1> HIDE DEF taken, claims
<1>6. SumFunctionOnSet(taken, Uid) <= SumFunctionOnSet(claims, Uid)
  BY <1>2, <1>5, SumLe
<1>7. SumFunctionOnSet(taken, Uid) \in Int
  BY <1>2, <1>5, SumFirst
<1> QED BY <1>3, <1>4, <1>6, <1>7 DEF EvictionShort

\* After the launch every request claims what it claimed before, less what was taken for it.
LEMMA LaunchClaims ==
    ASSUME Known, Launch, NEW u \in Uid
    PROVE  Claim(u)' <= Claim(u) - Taken(NextBatch)[u]
<1> PICK b : b = NextBatch
  OBVIOUS
<1> DEFINE n == Taken(NextBatch)[u]
<1> SUFFICES Claim(u)' <= Claim(u) - n
  OBVIOUS
<1>1. /\ phase = "admit" /\ UNCHANGED <<job, chunked>> /\ adder' = NoAdder
      /\ running' = {v \in running \cup (b.reqs \ b.chunked) : CanDecode(v)'}
      /\ Completed(b) /\ BatchChosen(b) /\ req' \in [Uid -> Req]
  BY LaunchEffect DEF Known
<1>2. /\ b.reqs = (IF adder.reqs # {} THEN adder.reqs ELSE running)
      /\ b.chunked = ToSet(adder.chunks) /\ adder'.reqs = {}
  BY <1>1 DEF BatchChosen, NoAdder
<1>3. /\ n \in Nat /\ n <= Claim(u)
      /\ u \in b.reqs => n = req[u].deviceLen - req[u].cachedLen
      /\ u \notin b.reqs => n = 0
  <2>1. AdmitDone
    BY DEF Launch
  <2> QED BY <1>1, <2>1, BatchCovered
<1>4. chunked \subseteq ToSet(adder.chunks) /\ ToSet(adder.chunks) \subseteq adder.reqs
  BY <1>1, ChunkedAdmitted DEF Launch, Known, IndInv, Ownership, QueueInv
<1>5. /\ req[u].cachedLen \in Nat /\ req[u].deviceLen \in Nat /\ req[u].maxLen \in Nat
      /\ job[u].input \in Nat /\ job[u].output \in Nat /\ Claim(u) \in Nat
  BY ClaimNat DEF Known, FitInv, IndInv, ControlTypeOK, Req
<1>6. /\ req'[u].maxLen = req[u].maxLen
      /\ u \in b.reqs => /\ req'[u].cachedLen = req[u].deviceLen
                         /\ req'[u].deviceLen = req[u].deviceLen + 1
      /\ u \notin b.reqs => req'[u] = req[u]
  BY <1>1 DEF Completed
<1>7. u \in running' => Claim(u)' = req[u].maxLen - req'[u].deviceLen
  BY <1>6 DEF Claim, RemainLen
<1>8. u \notin running' /\ u \notin chunked => Claim(u)' = 0
  BY <1>1, <1>2 DEF Claim
<1>9. u \in adder.reqs => u \notin running
  BY DEF Known, IndInv, Ownership, QueueInv, HolderInv
<1> HIDE DEF n
<1>10. CASE u \in ToSet(adder.chunks)
  <2>1. u \in adder.reqs /\ u \in b.reqs /\ u \in b.chunked /\ u \notin running /\ u \in chunked
    BY <1>2, <1>4, <1>9, <1>10 DEF Known, IndInv, Ownership, QueueInv
  <2>2. u \notin running'
    BY <1>1, <2>1
  <2>3. Claim(u)' = job[u].input - req[u].deviceLen + job[u].output
    BY <1>1, <1>6, <2>1, <2>2 DEF Claim
  <2>4. Claim(u) = job[u].input - req[u].cachedLen + job[u].output
    BY <2>1 DEF Claim
  <2> QED BY <1>3, <1>5, <2>1, <2>3, <2>4
<1>11. CASE u \in adder.reqs \ ToSet(adder.chunks)
  <2>1. u \in b.reqs /\ u \notin running /\ u \notin chunked
    BY <1>2, <1>4, <1>9, <1>11
  <2>2. req[u].deviceLen = job[u].input /\ req[u].maxLen = job[u].input + job[u].output
    BY <1>11 DEF Known, FitInv, StepInv
  <2>3. Claim(u) - n = job[u].output
    <3>1. Claim(u) = job[u].input - req[u].cachedLen + job[u].output
      BY <1>11, <2>1 DEF Claim
    <3> QED BY <1>3, <1>5, <2>1, <2>2, <3>1
  <2>4. Claim(u)' <= job[u].output
    <3>1. CASE u \in running'
      BY <1>5, <1>6, <1>7, <2>1, <2>2, <3>1
    <3>2. CASE u \notin running'
      BY <1>5, <1>8, <2>1, <3>2
    <3> QED BY <3>1, <3>2
  <2> QED BY <2>3, <2>4
<1>12. CASE u \notin adder.reqs /\ u \in running
  <2>1. u \notin chunked /\ Claim(u) = req[u].maxLen - req[u].deviceLen
    BY <1>4, <1>12 DEF Claim, RemainLen
  <2>2. CASE u \in b.reqs
    <3>1. req[u].deviceLen = req[u].cachedLen + 1 /\ n = 1 /\ Claim(u) - n \in Nat
      <4>1. req[u].deviceLen = req[u].cachedLen + 1
        BY <1>12 DEF Known, FitInv, StepInv
      <4>2. n = 1
        BY <1>3, <1>5, <2>2, <4>1
      <4> QED BY <1>3, <1>5, <4>1, <4>2
    <3>2. CASE u \in running'
      BY <1>5, <1>6, <1>7, <2>1, <2>2, <3>1, <3>2
    <3>3. CASE u \notin running'
      BY <1>5, <1>8, <2>1, <3>1, <3>3
    <3> QED BY <3>2, <3>3
  <2>3. CASE u \notin b.reqs
    <3>1. CASE u \in running'
      BY <1>3, <1>5, <1>6, <1>7, <2>1, <2>3, <3>1
    <3>2. CASE u \notin running'
      BY <1>3, <1>5, <1>8, <2>1, <2>3, <3>2
    <3> QED BY <3>1, <3>2
  <2> QED BY <2>2, <2>3
<1>13. CASE u \notin adder.reqs /\ u \notin running
  <2>1. u \notin b.reqs /\ u \notin chunked /\ u \notin running'
    BY <1>1, <1>2, <1>4, <1>13
  <2> QED BY <1>3, <1>5, <1>8, <2>1
<1> QED BY <1>10, <1>11, <1>12, <1>13

\* The claims shrink by what the launch takes; a chunk that was cut heads the queue again.
LEMMA LaunchFit ==
    ASSUME Known, PoolInv', Launch
    PROVE  FitStep
<1> PICK b : b = NextBatch
  OBVIOUS
<1>1. /\ phase = "admit" /\ phase' = "drain" /\ adder' = NoAdder /\ chunked' = chunked
      /\ running' = {v \in running \cup (b.reqs \ b.chunked) : CanDecode(v)'}
      /\ Completed(b) /\ freePages' = freePages - NeededPages(b)
      /\ \A v \in b.reqs : v \in Uid
  BY LaunchEffect DEF Known
<1>2. AdmitDone /\ pending' = adder.chunks \o adder.rest
  BY DEF Launch
<1>3. StepInv'
  <2>1. ASSUME NEW v \in running' PROVE req'[v].deviceLen = req'[v].cachedLen + 1
    <3>1. CASE v \in b.reqs
      BY <1>1, <3>1 DEF Completed
    <3>2. CASE v \notin b.reqs
      <4>1. v \in running /\ v \in Uid
        BY <1>1, <2>1, <3>2 DEF Known, IndInv, ControlTypeOK
      <4> QED BY <1>1, <3>2, <4>1 DEF Completed, Known, FitInv, StepInv
    <3> QED BY <3>1, <3>2
  <2> QED BY <1>1, <2>1 DEF StepInv, NoAdder
<1>4. ChunkFirst'
  <2>1. ASSUME NEW u \in chunked PROVE pending' # <<>> /\ Head(pending') = u
    <3>1. adder.chunks = <<u>> /\ u \in Uid /\ adder.rest \in Seq(Uid)
      BY <1>1, <1>2, ChunkedAdmitted DEF Known, IndInv, ControlTypeOK, Adder
    <3>2. <<u>> \in Seq(Uid) /\ Len(<<u>>) = 1 /\ <<u>>[1] = u
      BY <3>1
    <3>3. /\ <<u>> \o adder.rest \in Seq(Uid)
          /\ Len(<<u>> \o adder.rest) >= 1 /\ (<<u>> \o adder.rest)[1] = u
      BY <3>1, <3>2
    <3> QED BY <1>2, <3>1, <3>3
  <2> QED BY <1>1, <2>1 DEF ChunkFirst
<1>5. ASSUME ClaimFacts' PROVE SumFunction(Claims)' <= freePages'
  <2> DEFINE taken == Taken(b)
             claims == Claims
             now == Claims'
             left == [u \in Uid |-> claims[u] - taken[u]]
  <2>1. /\ \A u \in Uid : claims[u] = Claim(u) /\ Claim(u) \in Nat
        /\ SumFunctionOnSet(claims, Uid) <= freePages
    BY KnownClaims DEF ClaimFacts, Known, FitInv, ClaimsFit
  <2>2. /\ \A u \in Uid : now[u] = Claim(u)' /\ Claim(u)' \in Nat
        /\ SumFunction(Claims') = SumFunctionOnSet(now, Uid)
    BY <1>5 DEF ClaimFacts
  <2>3. \A u \in Uid : taken[u] \in Nat /\ Claim(u)' <= Claim(u) - taken[u]
    <3>1. ASSUME NEW u \in Uid PROVE taken[u] \in Nat
      BY <1>1, <1>2, BatchCovered
    <3>2. ASSUME NEW u \in Uid PROVE Claim(u)' <= Claim(u) - taken[u]
      BY LaunchClaims
    <3> QED BY <3>1, <3>2
  <2>4. NeededPages(b) = SumFunctionOnSet(taken, Uid)
    BY <1>1, <1>2, NeededIsTaken
  <2>5. freePages \in Nat /\ IsFiniteSet(Uid)
    BY DEF Known, PoolInv
  <2>6. \A u \in Uid : left[u] = claims[u] - taken[u]
    OBVIOUS
  <2> HIDE DEF taken, claims, now, left
  <2>7. \A u \in Uid : /\ left[u] \in Int /\ taken[u] \in Int /\ claims[u] = left[u] + taken[u]
                       /\ now[u] \in Int /\ now[u] <= left[u]
    BY <2>1, <2>2, <2>3, <2>6
  <2>8. SumFunctionOnSet(claims, Uid) = SumFunctionOnSet(left, Uid) + SumFunctionOnSet(taken, Uid)
    BY <2>5, <2>7, SumPlus
  <2>9. SumFunctionOnSet(now, Uid) <= SumFunctionOnSet(left, Uid)
    BY <2>5, <2>7, SumLe
  <2>10. SumFunctionOnSet(left, Uid) \in Int
    BY <2>5, <2>7, SumFirst
  <2>11. SumFunctionOnSet(taken, Uid) \in Int
    BY <2>5, <2>7, SumFirst
  <2>12. SumFunctionOnSet(now, Uid) \in Int
    BY <2>5, <2>7, SumFirst
  <2> QED BY <1>1, <2>1, <2>2, <2>4, <2>5, <2>8, <2>9, <2>10, <2>11, <2>12
<1> QED BY <1>1, <1>3, <1>4, <1>5 DEF FitStep, ClaimsFit, AllocationFits

\* The process dies of a failed rebuild only.
LEMMA LaunchDiesFit ==
    ASSUME Known, PoolInv', LaunchDies
    PROVE  FitStep
<1>1. /\ phase = "admit" /\ phase' = "dead"
      /\ UNCHANGED <<job, pending, chunked, adder, req, running, freePages>>
  BY BatchFits DEF LaunchDies, queueVars, passVars, poolVars
<1>2. ChunkFirst'
  BY <1>1 DEF ChunkFirst
<1>3. freePages' >= freePages
  BY <1>1 DEF Known, PoolInv
<1> QED BY <1>1, <1>2, <1>3, FitKept

\* Admission keeps its promises, initially and from then on.
LEMMA InitFit == IsFiniteSet(Uid) /\ Init => FitInv
<1> SUFFICES ASSUME IsFiniteSet(Uid), Init PROVE FitInv
  OBVIOUS
<1>1. phase = "recv" /\ running = {} /\ chunked = {} /\ adder.reqs = {} /\ freePages \in Nat
  BY SchedulerConstants DEF Init, NoAdder
<1> DEFINE claims == Claims
           none == [u \in {} |-> 0]
<1>2. /\ DOMAIN claims = Uid /\ DOMAIN none = {}
      /\ \A u \in Uid : claims[u] \in Int /\ claims[u] = 0
  BY <1>1 DEF Claims, Claim
<1> HIDE DEF claims, none
<1>3. SumFunction(none) = SumFunction(claims)
  BY <1>2, SumExtends
<1>4. SumFunction(none) = 0
  BY <1>2, SumFirst, FS_EmptySet DEF SumFunction
<1>5. SumFunction(Claims) <= freePages
  BY <1>1, <1>3, <1>4 DEF claims
<1> QED BY <1>1, <1>5 DEF FitInv, StepInv, ChunkFirst, ClaimsFit, AllocationFits

LEMMA NextFit ==
    ASSUME Known, IndInv', PoolInv', [Next]_vars
    PROVE  FitInv'
<1>1. CASE UNCHANGED vars
  <2>1. /\ UNCHANGED <<phase, running, chunked, adder, req, job, pending, reserved, freePages>>
    BY <1>1 DEF vars, loopVars, queueVars, passVars, poolVars
  <2>2. \A u \in Uid : Claim(u)' = Claim(u)
    BY <2>1 DEF Claim, RemainLen
  <2>3. Claims' = Claims /\ Granted' = Granted
    BY <2>1, <2>2 DEF Claims, Granted
  <2> QED BY <2>1, <2>3 DEF Known, FitInv, StepInv, ChunkFirst, ClaimsFit, AllocationFits
<1>2. CASE FitStep
  <2>1. IsFiniteSet(Uid) /\ IndInv' /\ StepInv'
    BY <1>2 DEF Known, FitStep
  <2>2. (IsFiniteSet(Uid) /\ IndInv /\ StepInv => ClaimFacts)'
    BY ClaimSums, PTL
  <2>3. ClaimFacts'
    BY <2>1, <2>2
  <2> QED BY <1>2, <2>3 DEF FitStep, FitInv
<1>3. ASSUME NEW u \in Uid, NEW p \in PromptLens, NEW m \in OutLens, RecvUser(u, p, m)
      PROVE  FitStep
  BY <1>3, RecvUserFit
<1>4. ASSUME NEW u \in Uid, RecvAbort(u) PROVE FitStep
  BY <1>4, RecvAbortFit
<1>5. CASE RecvRebuild \/ EndPass
  BY <1>2, <1>5, RestFit
<1>6. CASE EndRecv \/ \E n \in PageCounts : ExecuteRebuild(n)
  BY <1>2, <1>6, StartPassFit
<1>7. CASE AdmitOne
  BY <1>2, <1>7, AdmitFit
<1>8. CASE Launch
  BY <1>2, <1>8, LaunchFit
<1>9. CASE LaunchDies
  BY <1>2, <1>9, LaunchDiesFit
<1>10. ASSUME NEW u \in Uid, NEW stop \in BOOLEAN, DrainOne(u, stop) PROVE FitStep
  BY <1>10, DrainFit
<1> QED BY <1>1, <1>2, <1>3, <1>4, <1>5, <1>6, <1>7, <1>8, <1>9, <1>10 DEF Next, Receive, Pass

\* The assertion of CacheManager._allocate is never hit with pages of one token: whatever was
\* admitted, chunked, aborted, finished or rebuilt before, the estimate has left enough pages for
\* every batch.
THEOREM AdmittedFits ==
    ASSUME IsFiniteSet(Uid), PageSize = 1
    PROVE  Spec => []AllocationFits
<1>1. IndInv /\ PoolInv /\ IndInv' /\ PoolInv' /\ FitInv /\ [Next]_vars => FitInv'
  BY NextFit DEF Known
<1>2. FitInv => AllocationFits
  BY DEF FitInv
<1> QED BY <1>1, <1>2, InitFit, PoolCounted, PTL DEF Spec
=============================================================================

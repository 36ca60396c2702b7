------------------------------ MODULE Scheduler ------------------------------
(***************************************************************************)
(* The scheduler process of the inference engine: one thread that loops    *)
(* over receive / admit / launch / drain (scheduler.py, prefill.py,        *)
(* decode.py, table.py).  With Overlap the batch launched in an iteration  *)
(* is drained in the next one, so a request's forward is in flight while   *)
(* the following messages are handled and the following batch is built.    *)
(*                                                                         *)
(* The prefix cache is the naive one (naive_cache.py): no request reuses   *)
(* another's pages, pages are counted and not named.  RadixCache models    *)
(* the shared cache and the identity of the pages.                         *)
(***************************************************************************)
EXTENDS Integers, Sequences, FiniteSets, Functions, SequencesExt

CONSTANTS
    Uid,             \* requests
    Slot,            \* rows of the page table (config.max_running_req)
    NoSlot,          \* table_idx = -1
    NumPages,        \* KV pages at start
    PageCounts,      \* KV page counts a runtime rebuild may ask for
    PageSize,        \* tokens per page
    PrefillBudget,   \* config.max_extend_tokens
    ConfigMaxSeqLen, \* config.max_seq_len
    PromptLens,      \* lengths of the prompts that arrive
    OutLens,         \* max_tokens of the requests that arrive
    TombstoneCap,    \* 65536 in the code
    MaxAborts,       \* bound: abort messages per request
    MaxRebuilds,     \* bound: cache-rebuild messages in a run
    Overlap          \* ~ENV.DISABLE_OVERLAP_SCHEDULING

ASSUME SchedulerConstants ==
    /\ NoSlot \notin Slot
    /\ NumPages \in Nat \ {0} /\ PageCounts \subseteq Nat \ {0}
    /\ PageSize \in Nat \ {0} /\ PrefillBudget \in Nat \ {0}
    /\ ConfigMaxSeqLen \in Nat
    /\ PromptLens \subseteq Nat \ {0} /\ OutLens \subseteq Nat \ {0}
    /\ TombstoneCap \in Nat \ {0} /\ MaxAborts \in Nat /\ MaxRebuilds \in Nat
    /\ Overlap \in BOOLEAN

VARIABLES
    phase,      \* where the loop stands
    waiting,    \* receive_msg blocks: the loop was idle when the pass began
    toSend,     \* requests whose UserMsg has not arrived
    aborts,     \* abort messages received so far, per request
    job,        \* PendingReq: prompt length and clamped max_tokens
    pending,    \* prefill_manager.pending_list
    chunked,    \* pending requests whose chunked_req is set
    req,        \* the Req object of each request
    running,    \* decode_manager.running_reqs
    adder,      \* the PrefillAdder of this pass
    reserved,   \* its reserved_size
    lastData,   \* _last_data: launched and not drained (overlap)
    ongoing,    \* the batch launched in this pass
    todo,       \* requests of the drained batch the drain loop has left
    finished,   \* finished_reqs
    newFinished,\* new_finished_reqs of the drain under way
    freeSlots,  \* table_manager._free_slots, as a bag
    freePages,  \* len(cache_manager.free_slots)
    numPages,   \* engine.num_pages
    tombstones, \* _abort_tombstones, oldest first
    acks,       \* _pending_abort_acks
    rebuild,    \* _pending_rebuild is not None
    rebuilds,   \* rebuild messages received, and replies sent to them
    wedged,     \* a rebuild and its rollback both failed
    sent        \* history: what was sent to the detokenizer, per request

loopVars  == <<phase, waiting>>
envVars   == <<toSend, aborts>>
queueVars == <<job, pending, chunked>>
passVars  == <<adder, reserved>>
batchVars == <<lastData, ongoing, todo, newFinished>>
poolVars  == <<freeSlots, freePages>>
ctlVars   == <<rebuild, rebuilds, wedged, numPages>>
vars == <<loopVars, envVars, queueVars, req, running, passVars, batchVars, finished,
          poolVars, tombstones, acks, ctlVars, sent>>

-----------------------------------------------------------------------------
(* Types and helpers *)

NoBatch == [phase |-> "none", reqs |-> {}, chunked |-> {}]
NoReq   == [tableIdx |-> NoSlot, cachedLen |-> 0, deviceLen |-> 0, maxLen |-> 0,
            aborted |-> FALSE]
NoJob   == [input |-> 0, output |-> 0]
NoAdder == [budget |-> 0, reqs |-> {}, fresh |-> {},
            chunks |-> <<>>, rest |-> <<>>]
NothingSent == [admitted |-> 0, tokens |-> 0, finish |-> "none", acks |-> 0]

Batch == [phase : {"none", "prefill", "decode"}, reqs : SUBSET Uid, chunked : SUBSET Uid]
Req   == [tableIdx : Slot \cup {NoSlot}, cachedLen : Nat, deviceLen : Nat, maxLen : Nat,
          aborted : BOOLEAN]
Adder == [budget : Nat, reqs : SUBSET Uid, fresh : SUBSET Uid,
          chunks : Seq(Uid), rest : Seq(Uid)]
Sent  == [admitted : Nat, tokens : Nat, finish : {"none", "stop", "length", "error"},
          acks : Nat]
Phases == {"recv", "admit", "drain", "allocfail", "dead"}

DivCeil(a, b) == (a + b - 1) \div b
MaxSeqLen == IF ConfigMaxSeqLen < numPages * PageSize THEN ConfigMaxSeqLen
             ELSE numPages * PageSize

\* Req.remain_len / Req.can_decode
RemainLen(u) == req[u].maxLen - req[u].deviceLen

\* Mutant of CanDecode: one token short.
CanDecodeLess(u) == RemainLen(u) > 1

CanDecode(u) == RemainLen(u) > 0

\* decode_manager.inflight_tokens
InflightTokens ==
    SumFunction([u \in running |-> RemainLen(u)]) + (PageSize - 1) * Cardinality(running)

Runnable == pending # <<>> \/ running # {}
Drained  == IF Overlap THEN lastData ELSE ongoing

\* Nothing to do after the batch last: receive_msg blocks, and run_when_idle checks the pools.
Blocking(last) == last = NoBatch /\ ~Runnable /\ ~rebuild

-----------------------------------------------------------------------------
Init ==
    /\ phase = "recv" /\ waiting = TRUE
    /\ toSend = Uid /\ aborts = [u \in Uid |-> 0]
    /\ job = [u \in Uid |-> NoJob] /\ pending = <<>> /\ chunked = {}
    /\ req = [u \in Uid |-> NoReq] /\ running = {} /\ adder = NoAdder /\ reserved = 0
    /\ lastData = NoBatch /\ ongoing = NoBatch /\ todo = {}
    /\ finished = {} /\ newFinished = {}
    /\ freeSlots = [s \in Slot |-> 1] /\ freePages = NumPages /\ numPages = NumPages
    /\ tombstones = <<>> /\ acks = {}
    /\ rebuild = FALSE /\ rebuilds = [received |-> 0, replied |-> 0] /\ wedged = FALSE
    /\ sent = [u \in Uid |-> NothingSent]

-----------------------------------------------------------------------------
(* _process_one_msg *)

\* Mutant of TooLongReply: the request is dropped silently.
TooLongDropped(u) == sent

\* The reply to a prompt that leaves no room: "prompt is too long"
TooLongReply(u) == [sent EXCEPT ![u].finish = "error"]

\* UserMsg.  Its abort may have overtaken it (another tokenizer worker): the tombstone
\* drops it.  A prompt with no room to generate is refused; max_tokens is clamped.
RecvUser(u, p, m) ==
    /\ phase = "recv" /\ u \in toSend
    /\ toSend' = toSend \ {u}
    /\ waiting' = FALSE
    /\ LET room == MaxSeqLen - p
       IN \/ /\ u \in ToSet(tombstones)
             /\ tombstones' = RemoveFirst(tombstones, u)
             /\ UNCHANGED <<job, pending, sent>>
          \/ /\ u \notin ToSet(tombstones)
             /\ room <= 0
             /\ sent' = TooLongReply(u)
             /\ UNCHANGED <<job, pending, tombstones>>
          \/ /\ u \notin ToSet(tombstones)
             /\ room > 0
             /\ job' = [job EXCEPT ![u] = [input |-> p, output |-> IF m > room THEN room ELSE m]]
             /\ pending' = Append(pending, u)
             /\ UNCHANGED <<tombstones, sent>>
    /\ UNCHANGED <<phase, aborts, chunked, req, running, passVars, batchVars, finished, poolVars,
                   acks, ctlVars>>

\* Mutant of AddTombstone: an abort of an unknown request leaves no trace.
NoTombstone(u) == IF u \in toSend THEN tombstones ELSE Append(tombstones, u)

\* The bounded dict of aborted uids: the oldest entry goes first.
AddTombstone(u) ==
    LET added == IF u \in ToSet(tombstones) THEN tombstones ELSE Append(tombstones, u)
    IN IF Len(added) > TombstoneCap THEN Tail(added) ELSE added

\* Mutant of Freed: the row is given back but table_idx keeps naming it.
FreedKeepsRow(r) == r

\* req.table_idx = -1, the mark that makes _free_req_resources idempotent
Freed(r) == [r EXCEPT !.tableIdx = NoSlot]

\* Mutant of OwnPages: frees what the host has appended, not what the forward has written.
OwnPagesOfHost(r) == DivCeil(r.deviceLen, PageSize)

\* cache_req(finished=True), _padded_tail: the pages up to the page-ceil of cached_len
OwnPages(r) == DivCeil(r.cachedLen, PageSize)

\* _free_req_resources
FreeReqResources(u) ==
    /\ freeSlots' = [s \in Slot |-> IF s = req[u].tableIdx THEN freeSlots[s] + 1 ELSE freeSlots[s]]
    /\ freePages' = freePages + (IF req[u].tableIdx = NoSlot THEN 0 ELSE OwnPages(req[u]))
    /\ req' = [req EXCEPT ![u] = Freed(@)]

\* The request the two managers hand to the abort: prefill's chunked_req or decode's Req.
AbortFinds(u) == u \in chunked \/ u \in running

\* Mutant of InFlight: the abort handler frees at once.
NeverInFlight(u) == FALSE

\* The abort handler's test against self._last_data
InFlight(u) == u \in lastData.reqs

\* AbortBackendMsg.  A request whose forward is in flight is only marked; the drain frees it.
RecvAbort(u) ==
    /\ phase = "recv" /\ aborts[u] < MaxAborts
    /\ aborts' = [aborts EXCEPT ![u] = @ + 1]
    /\ waiting' = FALSE
    /\ tombstones' = AddTombstone(u)
    /\ pending' = RemoveFirst(pending, u)
    /\ chunked' = chunked \ {u}
    /\ running' = IF u \in chunked THEN running ELSE running \ {u}
    /\ \/ /\ AbortFinds(u) /\ InFlight(u)
          /\ req' = [req EXCEPT ![u].aborted = TRUE]
          /\ UNCHANGED poolVars
       \/ /\ AbortFinds(u) /\ ~InFlight(u)
          /\ FreeReqResources(u)
       \/ /\ ~AbortFinds(u)
          /\ UNCHANGED <<req, poolVars>>
    /\ acks' = acks \cup {u}
    /\ UNCHANGED <<phase, toSend, job, passVars, batchVars, finished, ctlVars, sent>>

\* CacheRebuildBackendMsg.  The frontend's maintenance gate keeps at most one in flight and
\* sends none once it has latched "failed".
RecvRebuild ==
    /\ phase = "recv" /\ rebuilds.received < MaxRebuilds /\ ~wedged
    /\ rebuilds.received = rebuilds.replied
    /\ waiting' = FALSE
    /\ rebuild' = ~Runnable
    /\ rebuilds' = [received |-> rebuilds.received + 1,
                    replied  |-> rebuilds.replied + (IF Runnable THEN 1 ELSE 0)]
    /\ UNCHANGED <<phase, envVars, queueVars, req, running, passVars, batchVars, finished, poolVars,
                   tombstones, acks, wedged, numPages, sent>>

-----------------------------------------------------------------------------
(* The end of receiving: a queued rebuild at the safe point, then scheduling. *)

\* Mutant of RebuildDue: runs as soon as nothing is queued, over an undrained batch.
RebuildDueUndrained == rebuild /\ ~Runnable

\* Mutant of RebuildDue: also waits for finished_reqs, which only a drained batch replaces.
RebuildDueNoFinished == rebuild /\ lastData = NoBatch /\ ~Runnable /\ finished = {}

RebuildDue == rebuild /\ lastData = NoBatch /\ ~Runnable

FreshAdder ==
    [budget |-> PrefillBudget, reqs |-> {}, fresh |-> {}, chunks |-> <<>>, rest |-> pending]

\* _execute_pending_rebuild: applied (every pool starts over with n pages), refused or rolled
\* back (same geometry), or failed together with its rollback.
ExecuteRebuild(n) ==
    /\ phase = "recv" /\ ~waiting /\ RebuildDue
    /\ phase' = "admit" /\ adder' = FreshAdder /\ reserved' = InflightTokens
    /\ rebuild' = FALSE /\ rebuilds' = [rebuilds EXCEPT !.replied = @ + 1]
    /\ \/ /\ numPages' = n /\ freePages' = n /\ freeSlots' = [s \in Slot |-> 1]
          /\ UNCHANGED wedged
       \/ UNCHANGED <<numPages, poolVars, wedged>>
       \/ wedged' = TRUE /\ UNCHANGED <<numPages, poolVars>>
    /\ UNCHANGED <<waiting, envVars, queueVars, req, running, batchVars, finished, tombstones,
                   acks, sent>>

EndRecv ==
    /\ phase = "recv" /\ ~waiting /\ ~RebuildDue
    /\ phase' = "admit" /\ adder' = FreshAdder /\ reserved' = InflightTokens
    /\ UNCHANGED <<waiting, envVars, queueVars, req, running, batchVars, finished, poolVars,
                   tombstones, acks, ctlVars, sent>>

-----------------------------------------------------------------------------
(* PrefillManager.schedule_next_batch: one step per pending request, then the launch. *)

\* PrefillAdder._try_allocate_one: a row of the table and an estimate that fits.
CanAllocate(u) ==
    /\ \E s \in Slot : freeSlots[s] > 0
    /\ job[u].input + job[u].output + reserved <= freePages * PageSize

\* PrefillAdder.try_add_one
CanAdd(u) == adder.budget > 0 /\ (u \in chunked \/ CanAllocate(u))

\* Mutant of Reserved: only what this chunk needs is set aside.
ReservedChunk(u, start, size) == reserved + size

\* What an added request keeps of the pool: the rest of its prompt and all of its output.
Reserved(u, start, size) == reserved + (job[u].input - start) + job[u].output

\* Mutant of Fresh: a continuation chunk reports its prompt again.
FreshEveryChunk(u) == adder.fresh \cup {u}

\* prompt_admissions: the first chunk only
Fresh(u) == IF u \in chunked THEN adder.fresh ELSE adder.fresh \cup {u}

\* Mutant of ChunkSize: the budget of the pass does not cap the chunk.
ChunkUncapped(remain) == remain

\* The part of the remaining prompt that this pass prefills
ChunkSize(remain) == IF adder.budget < remain THEN adder.budget ELSE remain

\* PrefillAdder._add_one_req: the next chunk of u's prompt, on row s.
AddOneReq(u, s) ==
    LET start  == IF u \in chunked THEN req[u].cachedLen ELSE 0
        remain == job[u].input - start
        size   == ChunkSize(remain)
    IN /\ req' = [req EXCEPT ![u] = [tableIdx |-> s, cachedLen |-> start,
                                     deviceLen |-> start + size,
                                     maxLen |-> start + size + job[u].output,
                                     aborted |-> FALSE]]
       /\ chunked' = IF size < remain THEN chunked \cup {u} ELSE chunked \ {u}
       /\ reserved' = Reserved(u, start, size)
       /\ adder' = [budget |-> adder.budget - size,
                    reqs   |-> adder.reqs \cup {u},
                    fresh  |-> Fresh(u),
                    chunks |-> IF size < remain THEN Append(adder.chunks, u) ELSE adder.chunks,
                    rest   |-> Tail(adder.rest)]

AdmitOne ==
    /\ phase = "admit" /\ adder.rest # <<>>
    /\ LET u == Head(adder.rest)
       IN /\ CanAdd(u)
          /\ \/ /\ u \in chunked
                /\ AddOneReq(u, req[u].tableIdx)
                /\ UNCHANGED freeSlots
             \/ \E s \in Slot :
                /\ u \notin chunked /\ freeSlots[s] > 0
                /\ AddOneReq(u, s)
                /\ freeSlots' = [freeSlots EXCEPT ![s] = @ - 1]
    /\ UNCHANGED <<loopVars, envVars, job, pending, running, batchVars, finished, freePages,
                   tombstones, acks, ctlVars, sent>>

AdmitDone == IF adder.rest = <<>> THEN TRUE ELSE ~CanAdd(Head(adder.rest))

\* The batch of the pass: prefill first, else decode (DecodeManager.schedule_next_batch)
PrefillBatch == [phase |-> "prefill", reqs |-> adder.reqs, chunked |-> ToSet(adder.chunks)]
DecodeBatch == IF running = {} THEN NoBatch
               ELSE [phase |-> "decode", reqs |-> running, chunked |-> {}]
NextBatch == IF adder.reqs # {} THEN PrefillBatch ELSE DecodeBatch

\* CacheManager.allocate_paged
PagesNeeded(u) == DivCeil(req[u].deviceLen, PageSize) - DivCeil(req[u].cachedLen, PageSize)
NeededPages(b) == SumFunction([u \in b.reqs |-> PagesNeeded(u)])

\* CacheManager._allocate asserts that eviction freed enough for the batch.
EvictionShort == NeededPages(NextBatch) > freePages

\* Req.complete_one, run for the whole batch when the forward is launched
CompleteOne(r) == [r EXCEPT !.cachedLen = r.deviceLen, !.deviceLen = r.deviceLen + 1]

\* Mutant of FilterReqs: keeps the requests of this batch only.
FilterBatchOnly(rs, b) == {u \in b.reqs \ b.chunked : rs[u].maxLen - rs[u].deviceLen > 0}

\* decode_manager.filter_reqs, over the requests as the launch leaves them (rs); a ChunkedReq
\* never decodes.
FilterReqs(rs, b) ==
    {u \in running \cup (b.reqs \ b.chunked) : rs[u].maxLen - rs[u].deviceLen > 0}

\* _report_prompt_admissions
ReportPromptAdmissions ==
    [u \in Uid |-> IF u \in adder.fresh THEN [sent[u] EXCEPT !.admitted = @ + 1] ELSE sent[u]]

\* _schedule_next_batch, _prepare_batch, _report_prompt_admissions and _forward; then the
\* drain starts on the previous batch (overlap) or on this one.
Launch ==
    /\ phase = "admit" /\ AdmitDone
    /\ wedged => NextBatch = NoBatch
    /\ ~EvictionShort
    /\ pending' = adder.chunks \o adder.rest
    /\ freePages' = freePages - NeededPages(NextBatch)
    /\ req' = [u \in Uid |-> IF u \in NextBatch.reqs THEN CompleteOne(req[u]) ELSE req[u]]
    /\ running' = FilterReqs(req', NextBatch)
    /\ sent' = ReportPromptAdmissions
    /\ ongoing' = NextBatch
    /\ todo' = IF Overlap THEN lastData.reqs ELSE NextBatch.reqs
    /\ newFinished' = {}
    /\ adder' = NoAdder /\ reserved' = 0
    /\ phase' = "drain"
    /\ UNCHANGED <<waiting, envVars, job, chunked, lastData, finished, freeSlots, tombstones, acks,
                   ctlVars>>

\* The launch raises and kills the process: on that assertion, or, after a rebuild whose rollback
\* failed, because the engine has no pools.
LaunchDies ==
    /\ phase = "admit" /\ AdmitDone /\ NextBatch # NoBatch
    /\ wedged \/ EvictionShort
    /\ phase' = IF wedged THEN "dead" ELSE "allocfail"
    /\ UNCHANGED <<waiting, envVars, queueVars, req, running, passVars, batchVars, finished,
                   poolVars, tombstones, acks, ctlVars, sent>>

-----------------------------------------------------------------------------
(* _process_last_data: one step per request of the batch *)

\* Mutant of DrainChunk: an aborted chunk is skipped like any other chunk.
DrainChunkSkips(u) ==
    /\ u \in Drained.chunked
    /\ UNCHANGED <<req, poolVars, running, newFinished, sent>>

\* A chunk is never sampled; it is freed here only when its request was aborted.
DrainChunk(u) ==
    /\ u \in Drained.chunked
    /\ IF req[u].aborted THEN FreeReqResources(u) ELSE UNCHANGED <<req, poolVars>>
    /\ UNCHANGED <<running, newFinished, sent>>

DrainAborted(u) ==
    /\ u \notin Drained.chunked /\ req[u].aborted
    /\ running' = running \ {u}
    /\ FreeReqResources(u)
    /\ newFinished' = newFinished \cup {u}
    /\ UNCHANGED sent

\* Mutant of DrainFinished: the token of the extra step is sent.
DrainFinishedSends(u) ==
    /\ u \notin Drained.chunked /\ ~req[u].aborted /\ u \in finished
    /\ sent' = [sent EXCEPT ![u].tokens = @ + 1]
    /\ UNCHANGED <<running, req, poolVars, newFinished>>

\* The extra decode step overlap launched for a request that had already ended.
DrainFinished(u) ==
    /\ u \notin Drained.chunked /\ ~req[u].aborted /\ u \in finished
    /\ UNCHANGED <<running, req, poolVars, newFinished, sent>>

\* A sampled token; stop is an EOS token or a stop string.
DrainSampled(u, stop) ==
    LET hitLength == ~CanDecode(u)
        finish    == stop \/ hitLength
    IN /\ u \notin Drained.chunked /\ ~req[u].aborted /\ u \notin finished
       /\ sent' = [sent EXCEPT ![u].tokens = @ + 1,
                               ![u].finish = IF stop THEN "stop"
                                             ELSE IF hitLength THEN "length" ELSE @]
       /\ IF finish
          THEN /\ running' = running \ {u}
               /\ FreeReqResources(u)
               /\ newFinished' = newFinished \cup {u}
          ELSE UNCHANGED <<running, req, poolVars, newFinished>>

DrainOne(u, stop) ==
    /\ phase = "drain" /\ u \in todo
    /\ todo' = todo \ {u}
    /\ DrainChunk(u) \/ DrainAborted(u) \/ DrainFinished(u) \/ DrainSampled(u, stop)
    /\ UNCHANGED <<loopVars, envVars, queueVars, passVars, lastData, ongoing, finished, tombstones,
                   acks, ctlVars>>

\* _flush_abort_acks
FlushAbortAcks ==
    [u \in Uid |-> IF u \in acks THEN [sent[u] EXCEPT !.acks = @ + 1] ELSE sent[u]]

\* The end of the drain and of the pass: finished_reqs is replaced when a batch was drained,
\* the abort acknowledgements go out after the replies, the launched batch becomes lastData.
EndPass ==
    /\ phase = "drain" /\ todo = {}
    /\ finished' = IF Drained = NoBatch THEN finished ELSE newFinished
    /\ sent' = FlushAbortAcks
    /\ acks' = {}
    /\ lastData' = IF Overlap THEN ongoing ELSE NoBatch
    /\ ongoing' = NoBatch /\ newFinished' = {}
    /\ phase' = "recv"
    /\ waiting' = Blocking(lastData')
    /\ UNCHANGED <<envVars, queueVars, req, running, passVars, todo, poolVars, tombstones, ctlVars>>

-----------------------------------------------------------------------------
Receive == \/ \E u \in Uid, p \in PromptLens, m \in OutLens : RecvUser(u, p, m)
           \/ \E u \in Uid : RecvAbort(u)
           \/ RecvRebuild

Pass == \/ EndRecv \/ (\E n \in PageCounts : ExecuteRebuild(n))
        \/ AdmitOne \/ Launch \/ LaunchDies
        \/ (\E u \in Uid, stop \in BOOLEAN : DrainOne(u, stop))
        \/ EndPass

Next == Receive \/ Pass

\* The loop thread never stops stepping; messages come or do not come.
Spec == Init /\ [][Next]_vars /\ WF_vars(Pass)

-----------------------------------------------------------------------------
(* Properties *)

\* The types of the control state.  The two sums, reserved_size and the page count, are apart:
\* that they never go below zero is TypeOK's own claim.
ControlTypeOK ==
    /\ phase \in Phases /\ waiting \in BOOLEAN
    /\ toSend \subseteq Uid /\ aborts \in [Uid -> Nat]
    /\ job \in [Uid -> [input : Nat, output : Nat]]
    /\ pending \in Seq(Uid) /\ chunked \subseteq Uid
    /\ req \in [Uid -> Req] /\ running \subseteq Uid /\ adder \in Adder
    /\ lastData \in Batch /\ ongoing \in Batch /\ todo \subseteq Uid
    /\ finished \subseteq Uid /\ newFinished \subseteq Uid
    /\ freeSlots \in [Slot -> Nat] /\ numPages \in Nat
    /\ tombstones \in Seq(Uid) /\ acks \subseteq Uid
    /\ rebuild \in BOOLEAN /\ rebuilds \in [received : Nat, replied : Nat]
    /\ wedged \in BOOLEAN /\ sent \in [Uid -> Sent]

\* Every variable keeps its type; no chunk is longer than what is left of the prefill budget.
TypeOK == ControlTypeOK /\ reserved \in Nat /\ freePages \in Nat

Holds(u) == req[u].tableIdx # NoSlot

\* The batch the next drain (or the one under way) goes through, what is left of it, and under
\* overlap the batch that was launched in front of that drain.
DrainBatch == IF phase = "drain" THEN Drained ELSE lastData
Undrained  == IF phase = "drain" THEN todo ELSE lastData.reqs
Overtaking == IF Overlap THEN ongoing.reqs ELSE {}

\* A row of the page table is on the free list exactly once or belongs to exactly one request:
\* no abort, finish and drain order frees a row twice or loses it (_free_req_resources).
SlotsConserved ==
    \A s \in Slot :
        /\ freeSlots[s] \in {0, 1}
        /\ freeSlots[s] = 1 <=> \A u \in Uid : req[u].tableIdx # s
        /\ \A u, v \in Uid : req[u].tableIdx = s /\ req[v].tableIdx = s => u = v

\* Free pages and the pages of the requests that hold a row make up the pool: an EOS finish
\* under overlap frees the page of the extra step too, an aborted chunk frees all its chunks.
PagesHeld(u) == IF Holds(u) THEN DivCeil(req[u].cachedLen, PageSize) ELSE 0
PagesConserved == freePages + SumFunction([u \in Uid |-> PagesHeld(u)]) = numPages

\* A batch that is in flight, or half drained, contains a freed request only if the drain will
\* skip it: abort never frees under a forward, finish leaves a mark in finished_reqs.
InflightSafe ==
    /\ \A u \in Undrained : Holds(u) \/ u \in finished
    /\ \A u \in Overtaking : Holds(u) \/ u \in newFinished

(* Where each request is.  Ownership is inductive together with the properties above: it says *)
(* which structure still leads the scheduler to every row that is taken.                     *)

\* pending_list and what the pass has made of it: each request once, the chunked ones still in it.
QueueInv ==
    /\ IsInjective(pending) /\ ToSet(pending) \cap toSend = {} /\ chunked \subseteq ToSet(pending)
    /\ IsInjective(adder.rest) /\ IsInjective(adder.chunks) /\ IsInjective(tombstones)
    /\ ToSet(adder.rest) \subseteq ToSet(pending) /\ adder.reqs \subseteq ToSet(pending)
    /\ ToSet(adder.rest) \cap adder.reqs = {}
    /\ ToSet(adder.chunks) \subseteq adder.reqs \cap chunked
    /\ phase = "admit" => chunked \subseteq ToSet(adder.rest) \cup ToSet(adder.chunks)
    /\ phase \in {"recv", "drain"} => adder = NoAdder

\* Who holds a row: nobody before admission, everybody from admission to the drain that ends it,
\* and then always somebody the loop will meet again.
HolderInv ==
    /\ \A u \in toSend : ~Holds(u)
    /\ \A u \in ToSet(pending) \ (chunked \cup adder.reqs) : ~Holds(u)
    /\ \A u \in adder.reqs \cup running \cup chunked : Holds(u)
    /\ running \cap (ToSet(pending) \cup toSend) = {}
    /\ \A u \in running : CanDecode(u)
    /\ \A u \in Uid : Holds(u) =>
          u \in running \cup chunked \cup adder.reqs \cup Undrained \cup Overtaking

\* What a chunked request has prefilled so far is a proper part of its prompt.
ChunkInv ==
    \A u \in chunked :
        (IF u \in adder.reqs THEN req[u].deviceLen ELSE req[u].cachedLen) < job[u].input

\* A batch that is not drained: only its chunks are still queued, and the drain can tell from
\* aborted, finished_reqs and can_decode alone who is still in the managers.
BatchInv ==
    /\ ~Overlap => lastData = NoBatch
    /\ phase # "drain" => ongoing = NoBatch /\ todo = {} /\ newFinished = {}
    /\ todo \subseteq Drained.reqs
    /\ Drained = NoBatch => newFinished = {}
    /\ ongoing.chunked \subseteq chunked
    /\ \A b \in {lastData, ongoing} :
          /\ b.chunked \subseteq b.reqs
          /\ (b.reqs \ b.chunked) \cap (ToSet(pending) \cup toSend) = {}
    /\ \A u \in finished \cup newFinished : ~Holds(u) /\ u \notin ToSet(pending) \cup toSend
    /\ \A u \in Uid : req[u].aborted =>
          u \notin ToSet(pending) \cup toSend \cup running \cup ongoing.reqs
    /\ \A u \in Undrained \cap DrainBatch.chunked :
          req[u].aborted \/ u \in chunked \cup adder.reqs \cup Overtaking
    /\ \A u \in Undrained \ DrainBatch.chunked :
          req[u].aborted \/ u \in finished \/ ~CanDecode(u) \/ u \in running
    /\ \A u \in Overtaking \ ongoing.chunked :
          req[u].aborted \/ u \in newFinished \/ ~CanDecode(u) \/ u \in running

\* Every row that is taken belongs to a request the loop will meet again (queued as a chunk,
\* decoding, or in a batch still to be drained), and a request is in one of these places only,
\* whatever the order of admissions, aborts, finishes and overlapped drains.
Ownership == QueueInv /\ HolderInv /\ ChunkInv /\ BatchInv

\* What run_when_idle asserts (check_integrity) when the loop is about to block: every page
\* and every row is back.
IdleIntegrity ==
    phase = "recv" /\ waiting =>
        /\ freePages = numPages
        /\ \A u \in Uid : ~Holds(u)

\* A rebuild throws the page table and the pools away: no request may hold a row then, an
\* aborted one whose forward is still in flight included.
RebuildOwnsAll == phase = "recv" /\ RebuildDue => \A u \in Uid : ~Holds(u)

\* The assertion "Eviction did not free enough space." in CacheManager._allocate is never hit:
\* what admission let in fits.
AllocationFits == phase # "allocfail"

\* A request whose output budget ended it got its whole budget ("length" is output budget
\* exhausted).
LengthMeansFullBudget ==
    \A u \in Uid : sent[u].finish = "length" => sent[u].tokens = job[u].output

\* The prompt is accounted once per request, before the first token, whatever its chunking; a
\* client never gets more tokens than the clamped max_tokens.
AccountedOnce ==
    \A u \in Uid :
        /\ sent[u].admitted <= 1
        /\ sent[u].tokens <= job[u].output * sent[u].admitted

Terminal(u) == sent[u].finish # "none" \/ sent[u].acks > 0

\* After a terminal reply (finished, error or abort acknowledgement) nothing but a further
\* acknowledgement is sent: a request aborted before it arrived is never revived, the extra
\* overlapped step sends no token.
NothingAfterTerminal ==
    [][\A u \in Uid : Terminal(u) =>
          /\ sent'[u].admitted = sent[u].admitted
          /\ sent'[u].tokens = sent[u].tokens
          /\ sent'[u].finish = sent[u].finish]_vars

Dead == phase \in {"allocfail", "dead"}

\* Every request that reached the scheduler gets a terminal reply, unless the engine died.
EveryRequestEnds == \A u \in Uid : (u \notin toSend) ~> (Terminal(u) \/ Dead)

\* Every queued rebuild is executed and answered once the traffic before it is through.
RebuildAnswered == rebuild ~> (~rebuild \/ Dead)
=============================================================================

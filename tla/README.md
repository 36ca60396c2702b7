# FreeSwarm in TLA+

FreeSwarm is a local LLM inference stack: an engine (`src/python/freetoken`) that
batches generation requests on the GPU behind an HTTP server, a daemon that supervises the
engine process, and a control plane (`src/ui/backend`) that sets models standing objectives and
judges what they submit. This directory specifies the parts of it whose correctness depends on
the order of events: the scheduler loop, the shared KV prefix cache, the tensor-parallel receive,
the API server with its tokenizer workers, the daemon's supervision of the engine, and the life of a
candidate of an objective.

    tlc -workers 2 -config SchedulerOverlap.cfg MCScheduler     # any run of PROJECT.json
    tlapm SchedulerProofs.tla                                   # the proofs

Line numbers below and in `PROJECT.json` are those of the commit under `src/`.

## 1. Inventory

| component | state | operations | what makes it correct |
|---|---|---|---|
| **Scheduler loop** (`scheduler/scheduler.py`, `prefill.py`, `decode.py`, `table.py`) | pending list, running set, the batch launched and not drained, free rows of the page table, abort tombstones, queued rebuild | handle a message (request, abort, rebuild), admit, launch a forward, drain the previous one, flush acks | no row or page is lost, shared or freed under a forward; what is admitted fits; each request ends exactly once |
| **Page allocator and radix cache** (`scheduler/cache.py`, `kvcache/radix_cache.py`) | free pages, radix tree with reference counts, two size counters, each request's handle and row | match, lock, allocate (evicting), insert with dedup, commit, finish | a request always reads KV of its own tokens; counters and references agree with the tree; eviction suffices |
| **Tensor-parallel receive** (`scheduler/io.py`) | rank 0's queue, one channel and one count per other rank | block, count, publish, process | every rank takes the same messages in the same iteration; none waits for ever |
| **API server and tokenizer workers** (`server/api_server.py`, `generation.py`, `accounting.py`, `supervisor.py`, `stats.py`, `tokenizer/server.py`) | maintenance gate, waiting clients, active requests, token totals, rebuild futures, supervisor thread, queues of the workers | admit, answer, disconnect, abort, rebuild, prepare-stop, backend failure, shutdown | sealed totals are final; a rebuild neither reopens nor wedges the gate; stops complete and clients are answered |
| **Serve supervisor** (`daemon/serve_manager.py`, `pidfile.py`, `accounting.py`) | current child, three latches, pidfile, outbox, monitor and restart threads | start, stop, switch, shutdown, reap, auto-restart, re-adopt | one engine; stop and shutdown are final; each engine's usage is recorded once, before it is signalled; the engine survives the daemon |
| **Objectives** (`ui/backend/app/objectives.py`, `ensembles.py`) | candidates' rows and the title on disk; evaluations, background tests, a re-test and a rescoring thread in memory; truncated data shared by tests | submit, re-run, evaluate, test for look-ahead, audit, demote, retire, delete, rescore, restart | the title names a scored row; tests that share data do not delete it under each other; every candidate settles |
| Hybrid, SWA and DSV4 caches (`kvcache/`) | state snapshots, window tombstones, tiers | as the radix cache | as the radix cache |
| MoE offload (`moe/offload*.py`) | resident experts, transfers in flight | load, evict | no expert is replaced while a kernel reads it |
| Daemon app, checkpoints, logs (`daemon/`) | download and checkpoint jobs, log ring | HTTP routes | jobs exclude each other |
| Rest of the control plane (`ui/backend/app/`, `swarm_runner.py`) | work log, message board, downloads, engine control, federation, agents' loops | append, post, download, unload, iterate | downloads resume; one engine operation at a time |
| Task kit (`mcp/taskkit`), shell, benchmarks, web UI | - | - | - |
| Models, kernels, attention, quantisation (`models/`, `kernel/`, `attention/`, `layers/`) | tensors | a forward | numeric |

How they interact. The API server sends a request to a tokenizer worker, which sends it
to the scheduler process; replies return through a detokenizer. All of these are ZMQ
queues between processes, so messages of different workers overtake each other; an
abort may arrive before the request it aborts. The scheduler is one thread per rank, but with
overlap scheduling the forward of iteration N is still on the GPU while the messages of
iteration N+1 are handled and its batch is built. The daemon starts the API server (which
spawns the rest) as one child process group; it talks to it over HTTP (`prepare-stop`) and
signals, and to later instances of itself through the pidfile and the accounting outbox. The
control plane is a separate web application; its agents generate through the API server and submit
candidates to objectives, which it runs in sandboxes.

The hard behaviours, each listed at its line under `hazards` in `PROJECT.json`: state of a
request changed while its forward is in flight; the extra overlapped step of a request
that has just ended; estimates in tokens against allocation in pages; pages shared and
deduplicated between requests; a radix node split under a lock; ranks that decide alone whether to
block; a gate written by two threads; a timeout whose late answer still comes; daemon threads
that act after the lock they decided under was released; a daemon or control plane that dies between
two writes; a verdict that arrives for a row that changed meanwhile.

## 2. Modules

| module | models |
|---|---|
| `Scheduler` | the scheduler loop on one rank with the naive (non-sharing) cache |
| `Backend` | abstract: what the scheduler promises its clients about each request |
| `SchedulerBackend` | `Scheduler` implements `Backend` |
| `RadixCache` | CacheManager over RadixPrefixCache, driven by admitted requests |
| `Lockstep` | abstract: all ranks take the same batches |
| `Ranks` | the receive of several ranks; implements `Lockstep` |
| `Frontend` | API server, tokenizer workers and backend supervisor over a scheduler that keeps `Backend` |
| `ServeManager` | the daemon's ServeManager, pidfile and outbox writes |
| `Objectives` | candidates, look-ahead tests, audits and the title of one objective |
| `MCScheduler`, `MCSchedulerModes`, `MCRadixCache`, `MCRanks`, `MCFrontend`, `MCServeManager`, `MCObjectives` | instances for TLC |
| `DataLemmas` | what Append, Tail, concatenation and removal do to the elements and the injectivity of a sequence; least elements; sums over finite sets |
| `SchedulerProofs`, `RadixCacheProofs`, `RanksProofs`, `FrontendProofs`, `ServeManagerProofs`, `ObjectivesProofs` | the inductive invariant of each module and its theorems |
| `SchedulerBackendProofs` | what the scheduler reports about a request, and that it implements `Backend` |

Definitions named as mutants in their comment (`FreedKeepsRow`, `TailSpanAligned`, ...) are
variants of the definition that follows them with a plausible mistake. `PROJECT.json`
pairs each checked property with one that it rejects.

### 2.1 Scheduler

`phase` is the position in the loop body: `recv` (`receive_msg`, `_process_one_msg`), `admit`
(`PrefillManager.schedule_next_batch`, one step per pending request), `drain`
(`_process_last_data`, one step per request of the batch). Launching, i.e. choosing the batch,
allocating pages, forwarding and `complete_one`, is the one step from `admit` to `drain`. The
loop is a single thread, so splitting it into these steps adds no interleaving; it lets TLC see
intermediate states and keeps one action per operation.

* `Overlap` selects between `overlap_loop` and `normal_loop`: the batch drained in a pass is the one
  launched in the previous pass (`lastData`) or in this one (`ongoing`).
* `RecvUser`, `RecvAbort`, `RecvRebuild` are the branches of `_process_one_msg`, early returns
  included. `waiting` says that the loop was idle and `receive_msg` blocks; `EndRecv` is not
  enabled then.
* `AddOneReq` is `PrefillAdder.try_add_one` with `_add_one_req` and, for a continuing chunk, the
  branch that skips the allocation check. `reserved` is the adder's `reserved_size`.
* `Launch` covers `_schedule_next_batch`, `_prepare_batch`, the forward, `complete_one` and
  `filter_reqs`, with the accounting message of newly admitted prompts. `LaunchDies` is
  a launch that raises: on the assertion of `CacheManager._allocate`, or after a failed rebuild.
* `DrainChunk`, `DrainAborted`, `DrainFinished`, `DrainSampled` are the branches of the drain
  loop. Whether a sampled token ends the request (EOS or stop string) is left open.
* `ExecuteRebuild` is `_execute_pending_rebuild`: applied, refused or rolled back, or failed
  together with its rollback.
* `sent` records per request what the detokenizer was sent; it influences nothing.

Abstracted: token values, sampling, positions, multimodal payloads, model-specific slots, and
the CUDA streams, whose order the loop establishes with stream waits. Rows are named, pages are
counted. `RecvRebuild` requires that no earlier rebuild is unanswered; that the API server
guarantees this is `RebuildHoldsGate` of `Frontend`.

`Backend` is the contract a client of the scheduler may rely on: per request, tokens come only
between its arrival and its end, and an end (finish, error, or the acknowledgement of an abort, which
may precede the request) is final. `SchedulerBackend` states that `Scheduler` implements it under the
mapping `Life`; `Frontend` is built on the contract and is checked to keep it.

### 2.2 RadixCache

A node is identified by the token path from the root to its end. This name survives a split
(the new node is the upper half), and the key of a node is what its path adds to its parent's.
`value` maps each cached page-aligned prefix to its page, which is what the concatenation of the
nodes' `value` tensors amounts to. `kv` is a ghost: the token path whose KV a page holds, written when
a forward runs. It makes "a request reads the right KV" expressible.

`Admit` is `match_prefix`, the size check, `lock` and the second check after the lock (which can
fail because the lock moved pages from evictable to protected). `Prefill` and `Decode` start an
allocation, `EvictOne` is one iteration of `evict`'s loop (any unreferenced leaf: the order of
the heap is by access time and left open), `Extend` ends the allocation and writes the KV.
`Commit` and `Finish` are `cache_req(finished=False/True)`: insert, free duplicates, re-point the
row, free the tail, unlock and lock. Multimodal requests bypass the tree.

Left out: the hybrid, SWA and DSV4 branches of CacheManager and the rebuild of the tree.

### 2.3 ServeManager

Three kinds of threads. A *lifecycle transaction* (`tx`) holds `_lifecycle` from its first to its last
step: a client call on the one-worker pool, or an auto-restart thread that got the lock. A
*monitor* per engine (`mon[g]`) waits for it to die, writes the crash receipt (`MonAccount`), clears
`_child` (`MonForget`), clears the pidfile (`MonClear`) and decides about a restart (`MonRestart`).
*Auto-restart threads* (`restart[g]`) wait for the lock. Each block under `_cond`, each disk write and
each process call is a step; monitors interleave with the transaction everywhere. The prepare-stop
call with its receipt, and the crash receipt, are atomic because `_accounting_guard` is held across
them. `EngineDies` may happen whenever an engine is alive. `DaemonExit` forgets everything but
engines, pidfile and outbox; `Boot` is `readopt`.

Abstracted: receipts are `<<engine, kind>>` without totals, and acknowledging them, which only
deletes a file, is not modelled. `_starting` waits are absent since `_lifecycle` already excludes a second
transaction. Identity of a process (pid, start time and command line) is the engine's number.
A behaviour draws its `faults` from `FaultSets` at the start: with `outbox` a receipt may fail to be
written, with `store` the pidfile may, with `exit` the daemon may die or detach; the empty set is the
daemon without faults (`Calm`). `lost` (engines alive at an exit that the pidfile did not name),
`stopAcked` and `started` are history variables used by properties only.

### 2.4 Frontend

The event loop of the API server runs one handler at a time, so a handler is one step from one await
to the next. The supervisor of the backend is another thread and interleaves with it anywhere; it
shares `maintenance_state` (`gate`) and `fatal_error` (`fatal`) with the loop. A handler that reads one
of them and then writes the gate is therefore split, `loop` holding what it has read (`ResolveRebuild`
/ `SetGate`, `CheckRebuild` / `DispatchRebuild`); the supervisor's own test and write are `Ready` / `Open`
and `NoticeDeath` / `Fail`.

* A request: `NewUser` (admission and the send, which may raise), `ClientDone`, `Disconnect`, and
  `AbortUser`, the task that a disconnect or a stop starts and that sleeps before it acts.
* Replies: `Listen` and `ListenRefusal` are `FrontendManager.listen` with `StatsTracker.observe`. Refusals come
  from the tokenizer workers over another socket, unordered with the detokenizer's.
* A rebuild: dispatch, send or roll back, timeout, late reply.
* A stop: `PrepareStop`, `Drained`, `Barrier` are `prepare_stop_accounting`: close the gate, drain, abort what is left,
  seal. A call that times out is repeated by the daemon (`Retries`).
* Workers have a queue each; a message goes to any of them, so an abort overtakes its request. The
  scheduler (`backend`) is given by its contract: it keeps a tombstone for an early abort, acknowledges
  every abort behind the replies already sent, answers every rebuild. `Scheduler` shows this of the code.
* `Crash` is the death of a backend process; `Terminate`, `TerminateWorkers`, `Exit` the orderly end.

Abstracted: token values (a reply counts or does not, finishes or does not), the windows and percentiles of
the statistics, HTTP parsing, shell mode. `sampled` and `backend.over` are history variables.

### 2.5 Ranks

Rank 0 reads the tokenizers' queue. If it is idle it blocks for one message and forwards it; then it
reads what else has come, broadcasts how many, and forwards them. Every other rank decides for itself
whether it is idle, and so whether the next thing on its channel is a message it must block for or
whether a count comes first. `work` stands for what the messages so far have left the rank's managers with, a
deterministic function of the batches (`Steps`), as in the code, where the managers are replicas. `Lockstep`
is the agreement the collectives need: rank 0 decides a batch, the others repeat it. In the refinement
the batch counts as decided when rank 0 counts (`Decided`), since another rank may be through with a batch
before rank 0 has published it to the rest.

### 2.6 Objectives

One objective that marks positions to market, tests for look-ahead and, in the run, requires an audit. A
handler runs on the event loop up to its next await; `rescore_stored` runs on a thread, in four steps
(`RescoreRead`, `RescoreWrite`, `RescoreRank`, `RescoreCrown`). A row is status, score, look-ahead verdict and audit
verdict; what `_settle`, `disqualify_dependents`, `_cascade_quarantine` and `_auto_quarantine` do to a board (rows and
title) are operators of the same names, so that a handler composes them in the code's order.

* `Submit`, `Rerun`, `Evaluate`: an evaluation ends scored (`EvalScores`; a background test starts), with a broken script or a
  failure of the harness (`EvalFails`), because the sandbox is down (`SandboxDown`), by an exception of a first run, which
  `submit` writes to every evaluation of the same author (`EvalCrashes`), or by one of a re-run that nobody records
  (`EvalLost`).
* A test waits for a slot, holds the cut and reads the signature of the data folder (`BeginCut`), and under the lock of the
  copy finds one with that signature or replaces what is there (`BuildMirror`), or fails to (`BuildFails`); it passes its first
  tier (`SecondTier`) or ends (`EndTest`) with a verdict that applies to a fresh candidate (`Settled`), the rest of a short
  test (`Finished`) or a re-test (`Retested`), and releases the cut (`Release`). All tests share one cut: the reference
  count, the copy and its deletion by the last user are per cut, so one is enough to see them fail. `ChangeData` changes the
  folder at any time, users or not; `mirror` is the signature of the copy on disk.
* Audits are leased by agents or ordered by the operator; the verdict may come at any later time.
* `Crash` forgets evaluations, tests, re-test and rescoring; `Restart` does what `db()` and
  `resume_pending_lookaheads` do. Rows, title, kept positions and truncated copies survive.

Abstracted: scores are small positive numbers, all candidates of the run reach the library, and
`_worth_full_lookahead` reads the leaderboard in one step. `_hold_cut` and the reading of the signature in `build_mirror`
are one step: in between only a change of the folder could matter, and there it would count as one under a user. The copy
is the one of a known set of datasets; the copy of all of them (a script whose reads are unknown) is released in the same way.
Left out: objectives judged by a model or with self-reported scores, task servers, ensembles' construction, the second auditor
that takes an expired lease, the thread that goes on building the truncated data of a cancelled re-test, and a database or a
message board that raises.
Four history variables: `stale` (a rescoring wrote to a row that had changed since it read it), `moved` (the data folder
changed while the cut had users), `lost` (candidates whose re-run raised unrecorded) and `marked` (rows that another's
crash wrote to under their own evaluation).

## 3. What the runs check

All counts are distinct states.

| run | instance | states | properties |
|---|---|---|---|
| `sched_overlap` | 3 requests, 2 rows, 3 pages of 2 tokens, prefill budget 2, one abort per request, one rebuild | 1,735,816 | TypeOK, SlotsConserved, Ownership, PagesConserved, InflightSafe, AllocationFits, AccountedOnce, IdleIntegrity, RebuildOwnsAll, NothingAfterTerminal, ImplementsBackend |
| `sched_modes` | 2 requests on 2 pages of 4 tokens, so that an allocation may fail; overlap with 2 rebuilds to 1 or 3 pages; and no overlap with prompts of 1, 5 and 7 | 382,028 | LengthMeansFullBudget, EveryRequestEnds, RebuildAnswered |
| `sched_length`, `sched_pagesize` | findings 1 and 2 | | violated |
| `radix` | 3 requests reused, one multimodal, 4 pages of 2 tokens, prompts that share prefixes | 281,327 | TypeOK, PagesPartitioned, KVInPlace, CountersMatchTree, EvictionSuffices |
| `ranks` | 3 ranks, 3 messages bringing 0, 1 and 2 iterations of work | 53,244 | CaughtUpMeansEmpty, ImplementsLockstep, EveryoneProcesses |
| `frontend` | 1 request, 2 workers, 1 rebuild, 1 failing send, 1 backend death, repeated prepare-stop | 177,336 | TypeOK, SealIsFinal, RebuildHoldsGate, KeepsBackend, RebuildReleases, StopCompletes, ClientsAnswered |
| `frontend_gate` | finding 4 | | violated |
| `serve` | 2 engines, 3 client calls, auto-restart; without faults, and with 1 daemon exit, failing outbox and pidfile writes | 291,794 | TypeOK, OneEngine, SignalledRecorded, StopIsFinal, ReceiptsExact, DeadChildForgotten, ForcedStopKills |
| `serve_orphan` | finding 3 | | violated |
| `objectives` | 2 candidates of one model, the second built on and running the first; 9 pairs of operator actions, crash and a change of the data | 297,001 | TypeOK, NothingDangles, CutInUse, EveryCandidateSettles |
| `title_leak` | finding 5 | | violated |

**What they show.** *Scheduler*: rows and pages stay exactly owned through aborts, chunks, the extra overlapped step and
a rebuild; admission's estimate covers what is allocated; tokens stop at the terminal reply; and every request
and rebuild is answered, the wedged engine included. *Radix*: a row never points at a page that holds other
tokens' KV, after splits, dedup and eviction. *Ranks*: agreement and progress although each rank decides alone.
*Frontend*: the totals handed to the daemon are final even for requests whose abort overtook them, and neither
a timed-out rebuild nor an unsent request keeps the server from stopping. *Serve*: one engine, with its
receipt before any signal, under every interleaving of calls, monitors and restarts. *Objectives*: nothing names a
row that is gone, the users of a cut do not delete it under each other, and everything settles, restarts included; each with the
exceptions listed below.

**Why these bounds.** Prompts of 1 and 3 tokens against a prefill budget of 2 give prompts of one and
two chunks, with budget left for a second request; a prompt of 5 leaves no room under `max_seq_len` (5) and
is refused (in `sched_modes` a rebuild to one page of 4 tokens also cuts the output of a prompt of 3 and makes the other request wait).
Three requests on two rows make one wait and take over a row just freed, which is when a double
free or a late write would hit somebody else. An output budget of 1 ends in the prefill, one of 3
in decode; one abort per request lets each arrive before, during and after its request. Two
rebuilds let one fail before another succeeds. `TombstoneCap` is the number of requests: at its cap the
code drops the oldest tombstone by design. In `radix` a pool of 4 pages is less than two requests want, so
admission refuses, and evicts; prompts that are prefixes of each other, equal, or divergent force splits, dedup
and empty matches; a request object is reused after it ended, so the run is not bounded in length. In `ranks`
the messages are an abort and two that keep a rank busy, so idle and busy receives alternate. In `frontend` one
request meets every other operation; requests of different clients share only the gate and the
barrier, and the safety properties also hold of two requests without a failing send and a backend death (4,000,587
states). `MaxPending`
bounds how many undelivered messages a repeated prepare-stop may add to. In `serve` two engines are a
crashed one and its restart or a client's; the safety properties also hold with three engines (1,486,146
states). In `objectives` the pairs are those whose events touch the same rows; the safety properties
were also checked for all 36 pairs (2,963,993 states), and all properties without required audits (190,095 states).

**Symmetry** is used in safety runs only, over requests, rows and pages, which the models never order.

**Deadlock** is not checked where the system may idle: a scheduler with no message, an API server that went down, a
daemon with no call, an objective with nothing to judge.

**Fairness.** `Scheduler` assumes weak fairness of `Pass`: the loop thread keeps stepping whenever it is
not blocked in `receive_msg`, and a forward that was launched completes. No message has to arrive, so an
idle loop with something left undone is a counterexample. `Ranks`: each rank keeps stepping while it is not
blocked. `Frontend`: the event loop runs every handler that is ready, workers, scheduler and supervisor
are processes and threads of their own, SIGTERM comes from a daemon that has its totals or from the timer of
a dead backend, and the daemon repeats a refused prepare-stop; clients, disconnects, rebuild calls, timeouts and
crashes need not happen. `ServeManager` assumes weak fairness of the
open transaction (its waits all have timeouts), of each monitor and each auto-restart thread (OS
threads; the lifecycle lock is free infinitely often because client calls are finitely many), and of the
death of a process that was sent SIGKILL. `Objectives`: evaluations and tests run in sandboxes with timeouts, so they end; a
test that waits for a slot gets one (strong fairness: asyncio's semaphore is first-in first-out); a control plane that died is
started again. Nobody has to submit, audit or operate anything.

**Restrictions stated with the properties.** StopIsFinal, ReceiptsExact, DeadChildForgotten and ForcedStopKills speak of
behaviours without faults (`Calm`): an engine that dies while no daemon runs gets no receipt, since `readopt` only
clears its record; `_durable_accounting` does not survive an exit; and if saving the pidfile raises, no
monitor exists for that child. OneEngine leaves out engines that an exit lost between spawn and
pidfile.

In `Objectives` each exception is a weakness of the code that the model contains, and each is needed: without it TLC finds the
property violated (for the re-test and `marked`, with a re-run and a re-test planned together).

* NothingDangles leaves out the title after a `stale` rescoring, which can crown a deleted row until the next deletion repairs
  it, and `marked` rows: `submit` writes `error` to every evaluation of a crashed submission's author (objectives.py:5342), the
  row's own evaluation goes on, and it can be deleted, or re-run beside it, so that the second evaluation takes the score of
  what has meanwhile become the champion.
* CutInUse speaks of a data folder that stays as it is while the cut has users (`~moved`). When it changes, the next
  `build_mirror` for the cut finds another signature and removes the copy (objectives.py:804-812): it holds the lock of the
  copy and does not look at `_cut_users`, so a test that runs on the copy loses it or reads another one. A test that read the
  signature before the change and gets the lock after such a rebuild replaces the copy once more.
* EveryCandidateSettles leaves out a re-run that raises while it lists the data folder (`lost`): the row is already
  `evaluating` (objectives.py:3655), the listing (3676) is before `evaluate`'s `try`, and `rerun` (5374) takes the exception
  for recorded. The row waits for the next restart.

Two further weaknesses show in no property: a test of an earlier run can give a re-run row its verdict
(objectives.py:4038), and the rest of a short test overwrites a rescoring with the score it read (objectives.py:4005).

## 4. Findings

1. `sched_length` (scheduler.py:339). With overlap, `hit_length = not req.can_decode` is evaluated at the drain of
   step N after the launch of step N+1 has advanced `device_len`; a request that is ended by its budget ends
   one token early. Without overlap the property holds (`sched_modes`).
2. `sched_pagesize` (prefill.py:61). Admission adds up tokens while each request allocates whole pages; with a page size
   of four, two one-token requests are admitted to one page and "Eviction did not free enough space."
   (cache.py:626) is raised.
3. `serve_orphan` (serve_manager.py:800). The monitor clears the pidfile after releasing the lock; it can delete the record of
   an engine started in between, which a later daemon then does not re-adopt (daemon/README.md:85). For the same reason a stop that falls
   into this window returns while the pidfile still names the dead engine, against the comment at line 796.
4. `frontend_gate` (api_server.py:985). The supervisor thread tests that the gate is still `loading` and then opens
   it; a prepare-stop on the event loop can close it and seal the totals in between, against the comment at line 983. Requests
   admitted then are in no receipt. `SealIsFinal` holds all the same: it speaks of requests admitted before the seal.
5. `title_leak` (objectives.py:5397). The operator may order the audit of a candidate whose look-ahead test is still pending; a
   passing audit crowns it on its score alone, and a test that fails later does not take the title back, against
   docs/task-servers.md:80. Likewise, where audits are not required, a failing audit of
   the holder marks it and hands the title on only if the quarantine of its library modules hits another candidate.

## 5. What is proved

`SchedulerProofs` proves about `Scheduler`, for every set of requests and rows, every page size, pool size, budget
and bound, and both loops, from the assumption `SchedulerConstants`
and the hypotheses in the table:

| theorem | statement |
|---|---|
| `TypeCorrect` | `Spec => []ControlTypeOK` |
| `RowsConserved` | `Spec => []SlotsConserved` |
| `NoFreeUnderForward` | `Spec => []InflightSafe` |
| `RowsReachable` | `Spec => []Ownership` |
| `RebuildSafe` | `Spec => []RebuildOwnsAll` |
| `CountersNatural` | `Spec => []TypeOK`, if the requests are finitely many |
| `PagesAddUp` | `Spec => []PagesConserved`, if the requests are finitely many |
| `IdleIsClean` | `Spec => []IdleIntegrity`, if the requests are finitely many |
| `AdmittedFits` | `Spec => []AllocationFits`, if the requests are finitely many and `PageSize = 1` |

The first five follow from `Inductive`: `Spec => []IndInv` with

    IndInv == ControlTypeOK /\ SlotsConserved /\ InflightSafe /\ Ownership

*Rows.* That a free does not return a row twice (`SlotsConserved`) depends on the freed request
still holding its row or being recognised as freed, so one needs to know where a request can be when
something frees it. `HolderInv` says it from both sides: everything queued as a chunk, admitted in this
pass or running holds a row; and whoever holds a row is in one of these places, in the
part of a batch that is still to be drained, or in the batch that overtook the drain. The drain removes
a request from the last two places, and must therefore free it or find it in one of the first: this is
`BatchInv`, whose last three conjuncts say that `aborted`, `finished_reqs` and `can_decode` alone tell
the drain which case it is in. They rest on `ChunkInv` (a chunk is a proper part of its prompt, so a
chunked request is not finished) and on `QueueInv` (each request is queued once). An abort
of a request in `lastData` only sets `aborted`, and `BatchInv` hands that request to the drain; an abort of any
other frees a request that is in no undrained batch, which gives `InflightSafe`. A rebuild is due only
with empty queues and no undrained batch, so `HolderInv` leaves no holder: `RebuildOwnsAll`.

There is one lemma per action (`RecvAbortInv`, `LaunchInv`, `DrainOneInv`, ...), with a step per conjunct the
action can disturb. `FreeOnce` is the fact about `_free_req_resources` that the aborting and
draining steps share; `DataLemmas` supplies what the steps need about `pending_list` and the tombstones.
`IndInv` is checked by TLC too: its conjuncts are invariants of `sched_overlap`.

*Pages.* `PagesConserved` is a sum over the requests, which is why they must be finitely many. `PoolInv` adds to it that the two
counters are natural numbers and what an idle loop has left behind (nothing). A free returns what the request
holds (`FreePagesBack`), a launch takes what its requests grow by; a launch that needs more than is free
raises instead (`LaunchDies`), so `PoolInv` needs nothing of the estimate that admission makes.

*The estimate.* That this launch never has to raise is `AdmittedFits`. A running request claims the steps it has left, an admitted
or chunked one the rest of its prompt and its output (`Claim`), and `ClaimsFit` says that all claims together fit into
the free pages, and that `reserved_size` is what this pass has counted of them. The code admits against `reserved_size`
alone, which leaves out the claim of a chunked request until the pass has admitted it again. That is safe because of
`ChunkFirst`: at most one request is chunked, it is the head of the queue, and it is the first that a pass
admits, without a test. An admission that cuts a chunk uses up the budget, so that no second one is cut after it. The hypothesis
`PageSize = 1` is the code's default (engine/config.py:59). With larger pages the theorem is false (finding 2).

`SchedulerBackendProofs` proves about what the loop sends, from `IndInv`:

| theorem | statement |
|---|---|
| `PromptsAccountedOnce` | `Spec => []AccountedOnce` |
| `FullBudget` | `Spec => []LengthMeansFullBudget`, without overlap |
| `AnswersAreFinal` | `Spec => NothingAfterTerminal`, if `AbortsRemembered` |
| `BackendImplemented` | `Spec => ImplementsBackend`, if `AbortsRemembered` |

`AdmitInv` says where a request stands whose prompt was reported, `TokenInv` that the tokens sent and those on their way from
the two batches that may be in flight are among the positions of its row (`Sampled`), and all of them as long as the drain still
reports on it. The drain of a token that uses up the budget therefore finds the whole budget sent when no second
batch is in flight (`FullInv`); with overlap it is one short, which is finding 1. `QuietInv` says that a request with a terminal reply
or with an acknowledgement about to go out cannot be served from anywhere: it is not queued, not running, a batch that still
holds it is bound to skip it, and if its own message has yet to arrive, its tombstone is there. The last
part is what `AbortsRemembered` is for: `TombstoneCap` is at least the number of requests. A full tombstone list drops its oldest
entry, and the request it stood for would be served after its abort was acknowledged; the code's cap is 65536. The
refinement then goes action by action, with `Life` as the mapping.

`RadixCacheProofs`, for any finite sets of requests and pages (`RadixConstants`), any prompts, page size and sharing:

| theorem | statement |
|---|---|
| `TypeCorrect` | `Spec => []TypeOK` |
| `PagesOwnedOnce` | `Spec => []PagesPartitioned` |
| `RowsReadOwnKV` | `Spec => []KVInPlace` |
| `CountersOfTree` | `Spec => []CountersMatchTree` |
| `EvictionFinds` | `Spec => []EvictionSuffices`, if `PageSize <= 2` |

The first four follow from `Inductive`: `Spec => []IndInv` with

    IndInv == TreeInv /\ ReqInv /\ PageInv /\ CountInv /\ KVInPlace

*The tree.* `TreeInv` gives each cached prefix one home, the node whose key it ends in. The invariants then speak of prefixes,
one per page, and not of nodes, and a split, which moves prefixes from one node to another, changes none of them. The
homes are the nodes of `CountersMatchTree`: what a node's key adds is `PageSize` times the prefixes at home there (`KeySum`),
and the `ref_count` of the node is the number of handles at or below it (`CountInv`).

*The pages.* `PageInv` says that every page is on the free list, in the tree or in the own part of one row, the pages
beyond the handle (`OwnAt`). Up to the handle the row holds the pages of the tree (`RowOf`). The insert of a commit
or a finish has to keep both when another request has cached the same tokens first: it frees the request's
duplicates, gives the rest to the tree and points the row at the tree's pages. A leaf is evicted only unreferenced, so no
handle lies on it and no row loses a page, which with the ghost `kv` gives `KVInPlace`.

*The eviction.* `FitInv` says that the locked tokens and the demands of all running requests fit into the pool. The demand of a request
is what it may come to hold beyond its handle; it does not depend on what it has been allocated, so that only admission, commit and
finish touch it. A commit moves the handle, and the lock gains at most what the demand loses. Since the
pool is free pages, tree and own pages (`PoolSplit`), an allocation that wants more than is free leaves something unlocked in the
tree, and below anything unlocked there is an unlocked leaf (`LeafBelow`). Admission counts tokens where the demand is in whole
pages. `ClaimCovers` shows that up to two tokens per page its estimate still covers them, because the last token
of a request is never stored; with larger pages it does not, which is finding 2. The code's default is 1 (engine/config.py:59).

`RanksProofs`, for any number of ranks and messages:

| theorem | statement |
|---|---|
| `NothingLeftOver` | `RanksSpec => []CaughtUpMeansEmpty` |
| `RanksAgree` | `RanksSpec => ImplementsLockstep` |

Each rank decides alone whether to block, so the argument needs the common history that they all decide from. `IndInv`
says that one exists: `F`, the messages in the order of their arrival; `e[i]`, how many of them the first `i` batches hold;
`w[i]`, the work left after them. Everything in the system is then a stretch of `F`: the logs are its first batches, what
rank 0 holds is what it has read and not batched, each rank's message channel runs from what it has read to what rank 0 has
sent, and its count channel holds one count per batch it has not begun. That `w` is a function of the batches alone is what makes
every rank block in the same iterations. `Lockstep` follows step by step: rank 0 extends the history when it counts
(`PrimaryCounts`), any other rank's step that completes a batch completes the next one of the history.

`FrontendProofs`, for any number of requests, workers, rebuild calls, retries and crashes:

| theorem | statement |
|---|---|
| `TypeCorrect` | `Spec => []TypeOK` |
| `SealedTotalsAreFinal` | `Spec => []SealIsFinal` |
| `RebuildKeepsGateShut` | `Spec => []RebuildHoldsGate` |
| `BackendKept` | `Spec => KeepsBackend` |

The seal is final because of what holds of a request that is not active any more (`Ended`): it is not running, no
sampled token of it is on the way, and if its message still waits in a worker's queue, a tombstone waits for it at
the scheduler. This needs `InOrder` (the reply that ends a request is behind all its tokens, so that the
listener, when it takes the request off the active ones, has counted them), `Life` (a request is in one queue at most) and
`Counted` (what was sampled is counted or on the way). The gate is shut during a rebuild because the rebuild is at
one place (`Single`): dispatched and not sent, in one queue, at the scheduler or answered; when the gate serves it is
nowhere, and the supervisor opens the gate only where it cannot have been dispatched. The refinement needs `Life` as well: a request whose
abort was acknowledged first is only ever dropped.

`ServeManagerProofs`, for any number of engines, calls, exits and faults:

| theorem | statement |
|---|---|
| `TypeCorrect` | `Spec => []TypeOK` |
| `AtMostOneEngine` | `Spec => []OneEngine` |
| `SignalsAreRecorded` | `Spec => []SignalledRecorded` |
| `StopsAreFinal` | `Spec => []StopIsFinal` |
| `OneReceiptEach` | `Spec => []ReceiptsExact` |

One engine: whatever is alive and not lost by an exit is known (`KnownInv`) as `_child`, or to a start transaction that is about to
publish it, or, while no daemon runs, to the pidfile; and a start proceeds only without a child (`TxInv`). `MonInv` ties
each monitor to its engine: until it has cleared `_child` the child is its own. That engines end with one receipt is
about who writes it: `EndedInv` says that the monitor's or the stop's is there before the engine is forgotten, `OnceInv` that an engine whose
receipt is durable answers no further prepare-stop, unless the stop that wrote it is about to signal it.

`ObjectivesProofs`, for any number of candidates, tests, audits, operator actions and restarts:

| theorem | statement |
|---|---|
| `TypeCorrect` | `Spec => []TypeOK` |
| `CutIsThere` | `Spec => []CutInUse` |
| `ChampionIsThere` | `Spec => []NothingDangles` |

`TestInv` counts the tests that hold the cut; a finite set of tests with distinct identities makes "the last user" well
defined. Its part `CutInv` says which data the users have seen: as long as nothing changed under them they all read the
signature of today's folder, so whoever builds after another finds the other's copy, and whoever fails to build does so before
there is one. `RowInv` says, of every row that no crash of another marked, that a row under evaluation is one evaluation's,
and that what is scored or tested was evaluated (`RowOf`); every judgement (`_settle`, the quarantines) is shown to keep it by
one relation between the boards before and after (`Judged`). A marked row is free to break it, and the proof shows that it
disturbs no other.

Each of these inductive invariants was also checked by TLC on the instances of the runs (`FitInv` of `SchedulerProofs` on one with pages of one token).
`DataLemmas` supplies what the proofs need about sequences, least elements and sums.

Every safety property of the runs that hold is stated by a theorem; `LengthMeansFullBudget` is the one of `Scheduler`
without overlap, as in `sched_modes`. Only model-checked: the liveness properties (`DeadChildForgotten` and `ForcedStopKills` among them), which rest on ENABLED and fairness and are out of the
prover's reach. Of the hypotheses in the tables, the finiteness of a set is there for sums and cardinalities; those on the loop and on the
page size exclude findings 1 and 2, that on the tombstones the entry the code drops by design.

## 6. Not modelled

Listed with reasons under `components` in `PROJECT.json`. In short: models, kernels, attention and
quantisation are numeric GPU code; protocol adapters, parsers, CLI, shell and web UI are formatting; logs and
metrics are I/O. The other caches, the offload cache, checkpoint jobs, downloads and engine control
have control state of their own and are in the plan. The work log and the message board of the control plane are
append-only files behind one lock, with nothing to interleave. The agents' loop (`swarm_runner.py`) is
sequential orchestration of HTTP calls whose order is the model's choice, and the sandbox library (`ft.py`) is numeric.

## 7. Plan

Done: `Scheduler` with its contract `Backend`, `RadixCache`, `Ranks` with `Lockstep`, `Frontend`, `ServeManager`,
`Objectives`, and the proofs of section 5. Next, in this order:

1. `RadixCache` extended by the window tombstones of the SWA cache and the snapshots of the hybrid one.
2. The checkpoint jobs of the daemon, the downloads and the engine gate of the control plane, the offload cache.

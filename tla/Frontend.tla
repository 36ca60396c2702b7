------------------------------- MODULE Frontend -------------------------------
(***************************************************************************)
(* The API server process: request admission and the reply listener        *)
(* (api_server.py), the accounting barrier of a stop (accounting.py,       *)
(* stats.py), the cache-rebuild gate, and the supervisor thread that       *)
(* watches the backend (supervisor.py), together with the tokenizer        *)
(* workers between it and the scheduler (tokenizer/server.py).             *)
(*                                                                         *)
(* Handlers of the event loop run one at a time between their awaits; the  *)
(* supervisor is another thread and interleaves with them anywhere.  Only  *)
(* the handlers that read a field the supervisor writes and then write the *)
(* gate are split in two (loop says which one is half done).               *)
(*                                                                         *)
(* The scheduler appears by what the module Scheduler shows of it: it     *)
(* keeps the contract Backend, an abort that overtakes its request leaves  *)
(* a tombstone, and every abort and every rebuild is answered.             *)
(***************************************************************************)
EXTENDS Integers, Sequences, FiniteSets, SequencesExt

CONSTANTS
    User,        \* requests (uid_counter never repeats one)
    Worker,      \* tokenizer workers
    Rebuild,     \* POST /v1/cache/rebuild calls
    MaxTokens,   \* sampled replies of a request
    MaxFaults,   \* bound: puts on the tokenizer socket that raise
    MaxPending,  \* bound: messages under way when a prepare-stop is repeated
    MaxCrashes   \* bound: deaths of a backend worker (0 or 1)

ASSUME FrontendConstants ==
    /\ Worker # {} /\ MaxTokens \in Nat \ {0}
    /\ MaxFaults \in Nat /\ MaxPending \in Nat /\ MaxCrashes \in 0..1

VARIABLES
    gate,       \* maintenance_state
    fatal,      \* fatal_error is not None
    loop,       \* a handler of the loop that is between its test and its write
    sup,        \* where the supervisor thread stands
    client,     \* the HTTP handler of each request
    ackMap,     \* keys of ack_map (and of event_map)
    mail,       \* requests whose ack list ends in a finished reply
    inflight,   \* stats._inflight
    aborting,   \* stats._aborting
    counted,    \* token replies observed, per request (the cumulative totals)
    abortTask,  \* abort_user tasks: started by a disconnect or by prepare-stop
    call,       \* the coroutine of each rebuild call
    future,     \* rebuild_futures
    stop,       \* prepare_stop_accounting
    sealed,     \* _sealed_accounting
    queue,      \* what each tokenizer worker has to read
    backend,    \* the scheduler: running, answered for good (history), tombstones, alive
    sampled,    \* history: token replies the scheduler sent, per request
    out,        \* replies on their way from the detokenizer to the frontend
    refused,    \* terminal replies of tokenizer workers on their way
    faults,     \* puts that raised
    down        \* "up", then "flagged" (_SHUTTING_DOWN), then "down"

gateVars  == <<gate, fatal, loop>>
userVars  == <<client, ackMap, mail>>
statVars  == <<inflight, aborting, counted>>
callVars  == <<call, future>>
stopVars  == <<stop, sealed>>
wireVars  == <<queue, out, refused>>
backVars  == <<backend, sampled>>
vars == <<gateVars, sup, userVars, statVars, abortTask, callVars, stopVars, wireVars, backVars,
          faults, down>>

NoSeal == [users |-> {}, totals |-> [u \in {} |-> 0], done |-> FALSE]
Free == [op |-> "none"]

\* The loop runs a handler: none is half done, and the process is not going down.
Loop == loop = Free /\ down = "up"

Init ==
    /\ gate = "loading" /\ fatal = FALSE /\ loop = Free /\ sup = "load"
    /\ client = [u \in User |-> "new"] /\ ackMap = {} /\ mail = {}
    /\ inflight = {} /\ aborting = {} /\ counted = [u \in User |-> 0]
    /\ abortTask = {} /\ call = [r \in Rebuild |-> "new"] /\ future = {}
    /\ stop = "none" /\ sealed = NoSeal
    /\ queue = [w \in Worker |-> <<>>] /\ out = <<>> /\ refused = {}
    /\ backend = [alive |-> TRUE, running |-> {}, over |-> {}, tombs |-> {},
                  crashed |-> FALSE]
    /\ sampled = [u \in User |-> 0] /\ faults = 0 /\ down = "up"

\* send_one: the PUSH socket hands the message to one of the workers.
Send(m) == \E w \in Worker : queue' = [queue EXCEPT ![w] = Append(@, m)]

\* A put that raises: the message is not sent.
PutRaises == faults < MaxFaults /\ faults' = faults + 1

-----------------------------------------------------------------------------
(* Requests *)

\* FrontendManager.new_user and the send of submit_generation.  When the put raises, the handler
\* fails and the request stays admitted: nothing was sent that would end it.
NewUser(u) ==
    /\ Loop /\ client[u] = "new" /\ gate = "serving"
    /\ ackMap' = ackMap \cup {u} /\ inflight' = inflight \cup {u} /\ aborting' = aborting \ {u}
    /\ \/ /\ Send([t |-> "gen", id |-> u])
          /\ client' = [client EXCEPT ![u] = "waiting"] /\ UNCHANGED faults
       \/ /\ PutRaises
          /\ client' = [client EXCEPT ![u] = "error"] /\ UNCHANGED queue
    /\ UNCHANGED <<gateVars, sup, mail, counted, abortTask, callVars, stopVars, out, refused,
                   backVars, down>>

\* wait_for_ack hands the finished reply over and its finally clause drops both maps.  A
\* request whose maps abort_user deleted is not woken any more.
ClientDone(u) ==
    /\ Loop /\ client[u] = "waiting" /\ u \in mail \cap ackMap
    /\ client' = [client EXCEPT ![u] = "answered"] /\ ackMap' = ackMap \ {u}
    /\ UNCHANGED <<gateVars, sup, mail, statVars, abortTask, callVars, stopVars, wireVars, backVars,
                   faults, down>>

\* stream_with_cancellation: the client went away, abort_user becomes a task of its own.
Disconnect(u) ==
    /\ Loop /\ client[u] = "waiting"
    /\ client' = [client EXCEPT ![u] = "gone"] /\ abortTask' = abortTask \cup {<<u, "client">>}
    /\ UNCHANGED <<gateVars, sup, ackMap, mail, statVars, callVars, stopVars, wireVars, backVars,
                   faults, down>>

\* Mutants of OnAbort: the request stops being active when the abort is sent; a request that has
\* already ended is marked.
OnAbortAlways(u) == aborting' = aborting \cup {u} /\ UNCHANGED inflight
OnAbortForgets(u) == inflight' = inflight \ {u} /\ UNCHANGED aborting

\* StatsTracker.on_abort: the request stays active until its terminal reply.
OnAbort(u) ==
    /\ aborting' = IF u \in inflight THEN aborting \cup {u} ELSE aborting
    /\ UNCHANGED inflight

\* abort_user after its sleep.  A put that raises inside prepare-stop's gather ends that call.
AbortUser(u, by) ==
    /\ Loop /\ <<u, by>> \in abortTask
    /\ ackMap' = ackMap \ {u} /\ OnAbort(u) /\ abortTask' = abortTask \ {<<u, by>>}
    /\ \/ /\ Send([t |-> "abort", id |-> u])
          /\ UNCHANGED <<faults, stop>>
       \/ /\ PutRaises
          /\ stop' = IF by = "stop" /\ stop = "abort" THEN "error" ELSE stop
          /\ UNCHANGED queue
    /\ UNCHANGED <<gateVars, sup, client, mail, counted, callVars, sealed, out, refused, backVars,
                   down>>

-----------------------------------------------------------------------------
(* Replies: FrontendManager.listen *)

Finishes(m) == m.t \in {"last", "error"}
Counts(m) == m.t \in {"token", "last"}

\* StatsTracker.observe
Observe(m) ==
    /\ counted' = IF Counts(m) THEN [counted EXCEPT ![m.id] = @ + 1] ELSE counted
    /\ inflight' = IF Finishes(m) THEN inflight \ {m.id} ELSE inflight
    /\ aborting' = IF Finishes(m) THEN aborting \ {m.id} ELSE aborting

\* One reply: counted whether or not anybody waits for it, then delivered if somebody does.
Listened(m) ==
    /\ Observe(m)
    /\ mail' = IF m.id \in ackMap /\ Finishes(m) THEN mail \cup {m.id} ELSE mail

Listen ==
    /\ Loop /\ out # <<>> /\ Head(out).t # "rebuild"
    /\ Listened(Head(out)) /\ out' = Tail(out)
    /\ UNCHANGED <<gateVars, sup, client, ackMap, abortTask, callVars, stopVars, queue, refused,
                   backVars, faults, down>>

\* A terminal error reply of a tokenizer worker: another socket, so not ordered with out.
ListenRefusal(u) ==
    /\ Loop /\ u \in refused
    /\ Listened([t |-> "error", id |-> u]) /\ refused' = refused \ {u}
    /\ UNCHANGED <<gateVars, sup, client, ackMap, abortTask, callVars, stopVars, queue, out,
                   backVars, faults, down>>

\* Mutant of ResolveRebuild: the reply to a caller that timed out is dropped.
ResolveRebuildIfAwaited ==
    /\ Loop /\ out # <<>> /\ Head(out).t = "rebuild"
    /\ LET m == Head(out) IN
          /\ future' = future \ {m.id}
          /\ call' = [call EXCEPT ![m.id] = IF m.id \in future THEN "done" ELSE @]
          /\ loop' = IF m.id \notin future THEN Free
                     ELSE [op |-> "resolve", gate |-> IF fatal \/ ~m.ok THEN "failed" ELSE "serving"]
    /\ out' = Tail(out)
    /\ UNCHANGED <<gate, fatal, sup, userVars, statVars, abortTask, stopVars, queue, refused,
                   backVars, faults, down>>

\* _resolve_rebuild, first half: the waiter is woken, fatal_error is read.
ResolveRebuild ==
    /\ Loop /\ out # <<>> /\ Head(out).t = "rebuild"
    /\ LET m == Head(out) IN
          /\ future' = future \ {m.id}
          /\ call' = [call EXCEPT ![m.id] = IF m.id \in future THEN "done" ELSE @]
          /\ loop' = [op |-> "resolve",
                      gate |-> IF fatal \/ ~m.ok THEN "failed" ELSE "serving"]
    /\ out' = Tail(out)
    /\ UNCHANGED <<gate, fatal, sup, userVars, statVars, abortTask, stopVars, queue, refused,
                   backVars, faults, down>>

\* ... second half: the gate is written.
SetGate ==
    /\ loop.op = "resolve" /\ down = "up"
    /\ gate' = loop.gate /\ loop' = Free
    /\ UNCHANGED <<fatal, sup, userVars, statVars, abortTask, callVars, stopVars, wireVars,
                   backVars, faults, down>>

-----------------------------------------------------------------------------
(* Cache rebuild calls *)

\* cache_rebuild: only a serving engine passes the 503 and 409 answers.
CheckRebuild(r) ==
    /\ Loop /\ call[r] = "new" /\ gate = "serving"
    /\ loop' = [op |-> "rebuild", id |-> r]
    /\ UNCHANGED <<gate, fatal, sup, userVars, statVars, abortTask, callVars, stopVars, wireVars,
                   backVars, faults, down>>

\* dispatch_rebuild up to its await: the future exists, the gate closes.
DispatchRebuild ==
    /\ loop.op = "rebuild" /\ down = "up"
    /\ call' = [call EXCEPT ![loop.id] = "sending"] /\ future' = future \cup {loop.id}
    /\ gate' = "rebuilding" /\ loop' = Free
    /\ UNCHANGED <<fatal, sup, userVars, statVars, abortTask, stopVars, wireVars, backVars, faults,
                   down>>

\* The put of dispatch_rebuild: sent, or rolled back to serving.
SendRebuild(r) ==
    /\ Loop /\ call[r] = "sending"
    /\ \/ /\ Send([t |-> "rebuild", id |-> r])
          /\ call' = [call EXCEPT ![r] = "waiting"] /\ UNCHANGED <<gate, future, faults>>
       \/ /\ PutRaises
          /\ call' = [call EXCEPT ![r] = "done"] /\ future' = future \ {r}
          /\ gate' = "serving" /\ UNCHANGED queue
    /\ UNCHANGED <<fatal, loop, sup, userVars, statVars, abortTask, stopVars, out, refused,
                   backVars, down>>

\* Mutant of TimeoutGate: the caller's timeout reopens the gate.
TimeoutGateReopens == gate' = "serving"

\* The caller's timeout leaves the gate to the reply that is still to come.
TimeoutGate == UNCHANGED gate

RebuildTimeout(r) ==
    /\ Loop /\ call[r] = "waiting" /\ r \in future
    /\ call' = [call EXCEPT ![r] = "done"] /\ future' = future \ {r} /\ TimeoutGate
    /\ UNCHANGED <<fatal, loop, sup, userVars, statVars, abortTask, stopVars, wireVars, backVars,
                   faults, down>>

-----------------------------------------------------------------------------
(* prepare_stop_accounting.  The daemon repeats the call until it has the totals. *)

Sealing ==
    /\ stop' = "sealed"
    /\ sealed' = [users |-> {u \in User : client[u] # "new"}, totals |-> counted, done |-> TRUE]

\* Everything still admitted is aborted, whether or not its client is there.
AbortStarts == abortTask' = abortTask \cup {<<u, "stop">> : u \in inflight}

BarrierOver == inflight = {}

\* Messages under way between the frontend and the scheduler
Pending == FoldSet(LAMBDA w, n : Len(queue[w]) + n, Len(out), Worker)

\* The call closes the gate; with nothing active the totals are sealed at once.
PrepareStop ==
    /\ Loop /\ stop \in {"none", "error"} /\ ~sealed.done
    /\ stop = "error" => Pending <= MaxPending
    /\ gate # "rebuilding" /\ gate' = "stopping"
    /\ IF inflight = {} THEN Sealing ELSE stop' = "drain" /\ UNCHANGED sealed
    /\ UNCHANGED <<fatal, loop, sup, userVars, statVars, abortTask, callVars, wireVars, backVars,
                   faults, down>>

\* The drain ended, or its timeout did: then what is left is aborted.
Drained ==
    /\ Loop /\ stop = "drain"
    /\ \/ inflight = {} /\ Sealing /\ UNCHANGED abortTask
       \/ inflight # {} /\ stop' = "abort" /\ AbortStarts /\ UNCHANGED sealed
    /\ UNCHANGED <<gateVars, sup, userVars, statVars, callVars, wireVars, backVars, faults, down>>

\* The abort barrier, once every abort was sent: sealed, or AccountingDrainError at its timeout.
Barrier ==
    /\ Loop /\ stop = "abort" /\ \A u \in User : <<u, "stop">> \notin abortTask
    /\ \/ BarrierOver /\ Sealing
       \/ ~BarrierOver /\ stop' = "error" /\ UNCHANGED sealed
    /\ UNCHANGED <<gateVars, sup, userVars, statVars, abortTask, callVars, wireVars, backVars,
                   faults, down>>

-----------------------------------------------------------------------------
(* Tokenizer workers and the scheduler behind them *)

\* Mutant of TokenizeOne: a request that cannot be encoded is dropped without a reply.
TokenizeOneDrops(w) ==
    LET u == Head(queue[w]).id IN
    /\ backend.alive /\ queue[w] # <<>> /\ Head(queue[w]).t = "gen"
    /\ queue' = [queue EXCEPT ![w] = Tail(@)]
    /\ \/ UNCHANGED backend
       \/ backend' = IF u \in backend.tombs
                     THEN [backend EXCEPT !.tombs = @ \ {u}]
                     ELSE [backend EXCEPT !.running = @ \cup {u}]
    /\ UNCHANGED <<gateVars, sup, userVars, statVars, abortTask, callVars, stopVars, out, refused,
                   sampled, faults, down>>

\* tokenize_worker on a request: refused with a terminal reply, or passed to the scheduler, which
\* drops it if its abort arrived first and else runs it.
TokenizeOne(w) ==
    LET u == Head(queue[w]).id IN
    /\ backend.alive /\ queue[w] # <<>> /\ Head(queue[w]).t = "gen"
    /\ queue' = [queue EXCEPT ![w] = Tail(@)]
    /\ \/ refused' = refused \cup {u} /\ UNCHANGED backend
       \/ /\ backend' = IF u \in backend.tombs
                        THEN [backend EXCEPT !.tombs = @ \ {u}]
                        ELSE [backend EXCEPT !.running = @ \cup {u}]
          /\ UNCHANGED refused
    /\ UNCHANGED <<gateVars, sup, userVars, statVars, abortTask, callVars, stopVars, out, sampled,
                   faults, down>>

\* Mutants of AbortBackend: no tombstone; no acknowledgement of an unknown request.
AbortBackendNoTomb(u) ==
    /\ backend' = [backend EXCEPT !.running = @ \ {u}, !.over = @ \cup {u}]
    /\ out' = Append(out, [t |-> "error", id |-> u])
AbortBackendKnown(u) ==
    /\ backend' = [backend EXCEPT !.running = @ \ {u}, !.tombs = @ \cup {u}, !.over = @ \cup {u}]
    /\ out' = IF u \in backend.running THEN Append(out, [t |-> "error", id |-> u]) ELSE out

\* AbortBackendMsg: tombstone, release, and always an acknowledgement behind the replies sent.
AbortBackend(u) ==
    /\ backend' = [backend EXCEPT !.running = @ \ {u}, !.tombs = @ \cup {u}, !.over = @ \cup {u}]
    /\ out' = Append(out, [t |-> "error", id |-> u])

AbortOne(w) ==
    /\ backend.alive /\ queue[w] # <<>> /\ Head(queue[w]).t = "abort"
    /\ queue' = [queue EXCEPT ![w] = Tail(@)] /\ AbortBackend(Head(queue[w]).id)
    /\ UNCHANGED <<gateVars, sup, userVars, statVars, abortTask, callVars, stopVars, refused,
                   sampled, faults, down>>

\* The rebuild message, answered: only a failed rebuild is told apart from the other results.
RebuildOne(w) ==
    /\ backend.alive /\ queue[w] # <<>> /\ Head(queue[w]).t = "rebuild"
    /\ queue' = [queue EXCEPT ![w] = Tail(@)]
    /\ \E ok \in BOOLEAN : out' = Append(out, [t |-> "rebuild", id |-> Head(queue[w]).id, ok |-> ok])
    /\ UNCHANGED <<gateVars, sup, userVars, statVars, abortTask, callVars, stopVars, refused,
                   backVars, faults, down>>

\* A reply of the scheduler: a sampled token, the last one, or a prompt it refuses.
Generate(u) ==
    /\ backend.alive /\ u \in backend.running
    /\ \E t \in {"token", "last", "error"} :
          /\ t = "token" => sampled[u] < MaxTokens - 1
          /\ t = "error" => sampled[u] = 0
          /\ out' = Append(out, [t |-> t, id |-> u])
          /\ sampled' = [sampled EXCEPT ![u] = IF t = "error" THEN @ ELSE @ + 1]
          /\ backend' = IF t = "token" THEN backend
                         ELSE [backend EXCEPT !.running = @ \ {u}, !.over = @ \cup {u}]
    /\ UNCHANGED <<gateVars, sup, userVars, statVars, abortTask, callVars, stopVars, queue,
                   refused, faults, down>>

\* A backend worker dies by itself.
Crash ==
    /\ MaxCrashes = 1 /\ backend.alive /\ down = "up"
    /\ backend' = [backend EXCEPT !.alive = FALSE, !.crashed = TRUE]
    /\ UNCHANGED <<gateVars, sup, userVars, statVars, abortTask, callVars, stopVars, wireVars,
                   sampled, faults, down>>

-----------------------------------------------------------------------------
(* The supervisor thread and the end of the process *)

\* drain_ready ends, _on_ready reads the gate.
Ready ==
    /\ sup = "load" /\ backend.alive /\ down # "down"
    /\ sup' = IF gate = "loading" THEN "opening" ELSE "watch"
    /\ UNCHANGED <<gateVars, userVars, statVars, abortTask, callVars, stopVars, wireVars, backVars,
                   faults, down>>

\* _on_ready writes the gate.
Open ==
    /\ sup = "opening" /\ down # "down"
    /\ gate' = "serving" /\ sup' = "watch"
    /\ UNCHANGED <<fatal, loop, userVars, statVars, abortTask, callVars, stopVars, wireVars,
                   backVars, faults, down>>

\* A dead worker is noticed, then the shutdown flag is read: _on_failure latches the error, or
\* the thread ends silently.
NoticeDeath ==
    /\ sup \in {"load", "watch"} /\ ~backend.alive /\ down # "down"
    /\ IF down = "flagged" THEN sup' = "off" /\ UNCHANGED fatal
                           ELSE sup' = "failing" /\ fatal' = TRUE
    /\ UNCHANGED <<gate, loop, userVars, statVars, abortTask, callVars, stopVars, wireVars,
                   backVars, faults, down>>

\* _on_failure closes the gate and hands the pending futures to the loop.
Fail ==
    /\ sup = "failing" /\ down # "down"
    /\ gate' = "failed" /\ sup' = "failed"
    /\ UNCHANGED <<fatal, loop, userVars, statVars, abortTask, callVars, stopVars, wireVars,
                   backVars, faults, down>>

\* fail_pending_rebuilds on the loop
FailPending ==
    /\ Loop /\ sup = "failed" /\ future # {}
    /\ call' = [r \in Rebuild |-> IF r \in future THEN "done" ELSE call[r]] /\ future' = {}
    /\ UNCHANGED <<gateVars, sup, userVars, statVars, abortTask, stopVars, wireVars, backVars,
                   faults, down>>

\* lifespan: _SHUTTING_DOWN is set and then the workers are terminated.
Shutdown == down' = "flagged" /\ UNCHANGED backend

\* SIGTERM: from the daemon, which has the totals, or from the timer of a dead backend.
Terminate ==
    /\ down = "up" /\ (sealed.done \/ sup = "failed")
    /\ Shutdown
    /\ UNCHANGED <<gateVars, sup, userVars, statVars, abortTask, callVars, stopVars, wireVars,
                   sampled, faults>>

\* _terminate_backend_workers, and the process after it
TerminateWorkers ==
    /\ down = "flagged" /\ backend.alive
    /\ backend' = [backend EXCEPT !.alive = FALSE]
    /\ UNCHANGED <<gateVars, sup, userVars, statVars, abortTask, callVars, stopVars, wireVars,
                   sampled, faults, down>>

Exit ==
    /\ down = "flagged" /\ ~backend.alive /\ down' = "down"
    /\ UNCHANGED <<gateVars, sup, userVars, statVars, abortTask, callVars, stopVars, wireVars,
                   backVars, faults>>

-----------------------------------------------------------------------------
Handler ==
    \/ \E u \in User : ClientDone(u) \/ \E by \in {"client", "stop"} : AbortUser(u, by)
    \/ Listen \/ (\E u \in User : ListenRefusal(u))
    \/ ResolveRebuild \/ SetGate \/ DispatchRebuild \/ FailPending
    \/ \E r \in Rebuild : SendRebuild(r)
    \/ Drained \/ Barrier

Client == \E u \in User : NewUser(u) \/ Disconnect(u)
Control == \E r \in Rebuild : CheckRebuild(r) \/ RebuildTimeout(r)
Supervisor == Ready \/ Open \/ NoticeDeath \/ Fail
Process == Terminate \/ TerminateWorkers \/ Exit

Next ==
    \/ Handler \/ Client \/ Control \/ PrepareStop \/ Supervisor \/ Process \/ Crash
    \/ \E w \in Worker : TokenizeOne(w) \/ AbortOne(w) \/ RebuildOne(w)
    \/ \E u \in User : Generate(u)

\* The event loop keeps running handlers, the listener and the abort tasks included; workers,
\* scheduler and supervisor are processes and threads of their own; SIGTERM and the timer come.
Fairness ==
    /\ WF_vars(Listen) /\ WF_vars(ResolveRebuild) /\ WF_vars(SetGate) /\ WF_vars(DispatchRebuild)
    /\ \A u \in User :
          /\ WF_vars(ClientDone(u)) /\ WF_vars(ListenRefusal(u)) /\ WF_vars(Generate(u))
          /\ WF_vars(AbortUser(u, "client")) /\ WF_vars(AbortUser(u, "stop"))
    /\ \A r \in Rebuild : WF_vars(SendRebuild(r))
    /\ WF_vars(Drained) /\ WF_vars(Barrier) /\ WF_vars(Supervisor) /\ WF_vars(Process)
    /\ \A w \in Worker : WF_vars(TokenizeOne(w) \/ AbortOne(w) \/ RebuildOne(w))

\* The daemon repeats a prepare-stop that was refused or timed out.
Retries == WF_vars(stop = "error" /\ PrepareStop)

Spec == Init /\ [][Next]_vars /\ Fairness /\ Retries

-----------------------------------------------------------------------------
(* Properties *)

Msg == [t : {"gen", "abort"}, id : User] \cup [t : {"rebuild"}, id : Rebuild]
Reply == [t : {"token", "last", "error"}, id : User]
            \cup [t : {"rebuild"}, id : Rebuild, ok : BOOLEAN]

\* The fields hold what the code gives them; only an admitted request is being aborted.
TypeOK ==
    /\ gate \in {"loading", "serving", "rebuilding", "stopping", "failed"} /\ fatal \in BOOLEAN
    /\ sup \in {"load", "opening", "watch", "failing", "failed", "off"}
    /\ client \in [User -> {"new", "waiting", "error", "answered", "gone"}]
    /\ ackMap \subseteq User /\ mail \subseteq User /\ inflight \subseteq User
    /\ aborting \subseteq inflight
    /\ counted \in [User -> 0..MaxTokens] /\ sampled \in [User -> 0..MaxTokens]
    /\ abortTask \subseteq User \X {"client", "stop"}
    /\ call \in [Rebuild -> {"new", "sending", "waiting", "done"}] /\ future \subseteq Rebuild
    /\ stop \in {"none", "drain", "abort", "error", "sealed"}
    /\ queue \in [Worker -> Seq(Msg)] /\ out \in Seq(Reply) /\ refused \subseteq User
    /\ faults \in 0..MaxFaults /\ down \in {"up", "flagged", "down"}

\* The sealed totals are final (accounting.py: "process shutdown can no longer race the last
\* sampled-token reply"): whatever the scheduler ever samples for a request admitted before the
\* seal is already in them, aborts overtaking their requests and clients that left included.
SealIsFinal ==
    sealed.done => \A u \in sealed.users : sampled[u] = sealed.totals[u]

\* Rebuild messages between dispatch_rebuild and _resolve_rebuild
InFlightRebuilds ==
    {r \in Rebuild :
        \/ \E w \in Worker : [t |-> "rebuild", id |-> r] \in ToSet(queue[w])
        \/ \E m \in ToSet(out) : m.t = "rebuild" /\ m.id = r}

\* A rebuild that was sent keeps the gate closed until its reply arrives, even when its caller
\* has timed out, so the scheduler never sees a second one before it answered the first
\* (Scheduler!RecvRebuild relies on it).
RebuildHoldsGate ==
    /\ Cardinality(InFlightRebuilds) <= 1
    /\ InFlightRebuilds # {} => gate # "serving"

Contract == INSTANCE Backend WITH
    Uid <- User,
    life <- [u \in User |-> IF u \in backend.running THEN "live"
                            ELSE IF u \in backend.over THEN "over" ELSE "unsent"],
    tokens <- sampled

\* Through any number of tokenizer workers, repeated aborts and refusals the scheduler stays in
\* its contract: a request whose abort was acknowledged is not revived when it arrives later.
KeepsBackend == Contract!Spec

\* A rebuild never wedges the gate ("a rebuild can never wedge the server in rebuilding
\* forever"): it leaves that state, or the process goes down with its dead backend.
RebuildReleases == gate = "rebuilding" ~> (gate # "rebuilding" \/ down # "up")

\* A stop that the daemon repeats ends with sealed totals unless the backend dies: every request
\* still admitted gets a terminal reply, the ones that were never sent included.
StopCompletes == stop = "drain" ~> (sealed.done \/ ~backend.alive)

\* A client that waits is answered, unless the server stops or its backend dies.
ClientsAnswered ==
    \A u \in User : client[u] = "waiting" ~> (client[u] # "waiting" \/ gate \in {"stopping", "failed"}
                                               \/ ~backend.alive)

\* api_server.py, _on_ready: "never reopen that gate after the daemon has received a final
\* accounting snapshot".
SealedStaysClosed == sealed.done => gate # "serving"
===============================================================================

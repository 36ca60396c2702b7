---------------------------- MODULE ServeManager ----------------------------
(***************************************************************************)
(* The daemon's supervisor of one `ft serve` process: ServeManager with    *)
(* the pidfile (ServeStateStore) and the accounting outbox it writes.      *)
(*                                                                         *)
(* Threads: the one-worker lifecycle pool that runs client calls, one      *)
(* monitor thread per child (the sole reaper), and one auto-restart thread *)
(* per crash.  A lifecycle transaction holds the _lifecycle lock from its  *)
(* first to its last step, so `tx` is the one that is open; monitors do    *)
(* not take that lock and interleave with it.  Every block under _cond,    *)
(* every disk write and every process call is a step of its own.           *)
(* _accounting_guard is held from the prepare-stop call to the durable     *)
(* receipt, and around the crash receipt, so each of these is one step.    *)
(*                                                                         *)
(* Engines, pidfile and outbox survive the daemon; the rest is its memory. *)
(***************************************************************************)
EXTENDS Naturals, FiniteSets

CONSTANTS
    Cfg,          \* (model, port, args) triples a client may ask for
    NoCfg,        \* none of them
    Legacy,       \* those whose engine has no prepare-stop endpoint
    AutoRestart,  \* --auto-restart
    FaultSets,    \* the sets of faults a behaviour may meet (see faults)
    MaxGens,      \* bound: engines spawned (later spawns fail)
    MaxCalls,     \* bound: client lifecycle calls
    MaxExits      \* bound: daemon crashes or detaching exits in one that has them

ASSUME ServeConstants ==
    /\ Legacy \subseteq Cfg /\ NoCfg \notin Cfg
    /\ AutoRestart \in BOOLEAN /\ FaultSets \subseteq SUBSET {"outbox", "store", "exit"}
    /\ MaxGens \in Nat \ {0} /\ MaxCalls \in Nat /\ MaxExits \in Nat

Gen == 1 .. MaxGens      \* an engine process: pid and start time identify it
NoGen == 0

VARIABLES
    daemon,            \* "up" or "down"
    alive, cfg, sig,   \* live engines, their configuration, signal sent to a live one
    store,             \* the engine the pidfile records
    outbox,            \* receipts <<engine, kind>> written so far, acknowledged or not
    child, model,      \* _child; _model/_port/_args, which outlive the child
    stopping, stopRequested, shutdownRequested,
    durable,           \* _durable_accounting
    reaped,            \* children whose reaped event is set
    tx,                \* the transaction that holds _lifecycle
    mon,               \* the monitor thread of each engine
    restart,           \* pending auto-restart threads, by the engine that died
    faults,            \* of this behaviour: "outbox", persisting a receipt may raise
                       \* AccountingOutboxError; "store", saving the pidfile may raise OSError;
                       \* "exit", the daemon may die or detach
    calls, exits,      \* bounded counters
    lost,              \* history: engines alive at an exit that the pidfile did not record
    stopAcked, \* history: the last word was a stop
    started             \* history: live engines whose start call has returned

disk    == <<alive, cfg, sig, store, outbox>>
flags   == <<stopping, stopRequested, shutdownRequested>>
threads == <<mon, restart, durable, reaped>>
bounds  == <<faults, calls, exits, lost>>
history == <<stopAcked, started>>
vars    == <<daemon, disk, child, model, flags, threads, tx, bounds, history>>

Client == 0   \* the thread a transaction runs on: the client pool, or a restart's engine
NoTx == [op |-> "none", who |-> Client, cfg |-> NoCfg, force |-> FALSE,
         step |-> "idle", gen |-> NoGen]
NoMon == [step |-> "none", was |-> FALSE, cur |-> FALSE]
Kinds == {"sealed", "snapshot", "degraded", "crash"}

Init ==
    /\ daemon = "up"
    /\ alive = {} /\ cfg = [g \in Gen |-> NoCfg] /\ sig = [g \in Gen |-> "none"]
    /\ store = NoGen /\ outbox = {}
    /\ child = NoGen /\ model = NoCfg
    /\ stopping = FALSE /\ stopRequested = FALSE /\ shutdownRequested = FALSE
    /\ durable = {} /\ reaped = {}
    /\ tx = NoTx /\ mon = [g \in Gen |-> NoMon] /\ restart = [g \in Gen |-> NoCfg]
    /\ faults \in FaultSets /\ calls = 0 /\ exits = 0 /\ lost = {}
    /\ stopAcked = FALSE /\ started = {}

At(step) == daemon = "up" /\ tx.step = step
Goto(step) == tx' = [tx EXCEPT !.step = step]

-----------------------------------------------------------------------------
(* start() *)

\* Mutant of Refused: a restart ignores the stop latch.
RefusedUnlatched(who) == shutdownRequested

\* A closed or overtaken start returns before it looks at the child.
Refused(who) == shutdownRequested \/ (who # Client /\ stopRequested)

\* Mutant of Occupied: a start does not look at the current child.
OccupiedNever == FALSE
Occupied == child # NoGen /\ ~stopping

\* The first block of _start: an explicit start clears the stop latch even
\* when it then finds the slot taken and raises Conflict.
BeginStart(who, c) ==
    /\ stopRequested' = (stopRequested /\ (Refused(who) \/ who # Client))
    /\ tx' = IF Refused(who) \/ Occupied THEN NoTx
             ELSE [NoTx EXCEPT !.op = "start", !.who = who, !.cfg = c, !.step = "spawn"]

Call == /\ At("idle") /\ calls < MaxCalls
        /\ calls' = calls + 1 /\ UNCHANGED <<faults, exits, lost>>

ClientStart(c) ==
    /\ Call
    /\ BeginStart(Client, c)
    /\ stopAcked' = FALSE
    /\ UNCHANGED <<daemon, disk, child, model, stopping, shutdownRequested, threads, started>>

AutoStart(g) ==
    /\ At("idle") /\ restart[g] # NoCfg
    /\ BeginStart(g, restart[g])
    /\ restart' = [restart EXCEPT ![g] = NoCfg]
    /\ UNCHANGED <<daemon, disk, child, model, stopping, shutdownRequested, mon, durable, reaped,
                   bounds, history>>

Spawn(g) ==
    /\ At("spawn") /\ cfg[g] = NoCfg /\ \A h \in Gen : h < g => cfg[h] # NoCfg
    /\ alive' = alive \cup {g}
    /\ cfg' = [cfg EXCEPT ![g] = tx.cfg]
    /\ tx' = [tx EXCEPT !.gen = g, !.step = "publish"]
    /\ UNCHANGED <<daemon, sig, store, outbox, child, model, flags, threads, bounds, history>>

SpawnFails ==
    /\ At("spawn")
    /\ tx' = NoTx
    /\ UNCHANGED <<daemon, disk, child, model, flags, threads, bounds, history>>

\* Mutant of Publish: the previous serve's configuration is kept.
PublishKeepsModel ==
    /\ At("publish")
    /\ child' = tx.gen /\ stopping' = FALSE
    /\ Goto("persist")
    /\ UNCHANGED <<daemon, disk, model, stopRequested, shutdownRequested, threads, bounds, history>>

Publish ==
    /\ At("publish")
    /\ child' = tx.gen /\ model' = tx.cfg /\ stopping' = FALSE
    /\ Goto("persist")
    /\ UNCHANGED <<daemon, disk, stopRequested, shutdownRequested, threads, bounds, history>>

Persist ==
    /\ At("persist")
    /\ store' = tx.gen
    /\ Goto("watch")
    /\ UNCHANGED <<daemon, alive, cfg, sig, outbox, child, model, flags, threads, bounds, history>>

\* The exception leaves _start before the monitor exists.
PersistFails ==
    /\ "store" \in faults /\ At("persist")
    /\ tx' = NoTx
    /\ UNCHANGED <<daemon, disk, child, model, flags, threads, bounds, history>>

BeginWatch ==
    /\ At("watch")
    /\ mon' = [mon EXCEPT ![tx.gen] = [NoMon EXCEPT !.step = "wait"]]
    /\ tx' = NoTx
    /\ started' = started \cup ({tx.gen} \cap alive)
    /\ UNCHANGED <<daemon, disk, child, model, flags, restart, durable, reaped, bounds, stopAcked>>

-----------------------------------------------------------------------------
(* stop(), shutdown() and switch() *)

\* What follows a stop that succeeded: switch goes on to its start.
Stopped(op, c) ==
    IF op = "switch"
    THEN /\ tx' = [NoTx EXCEPT !.op = op, !.cfg = c, !.step = "switch"]
         /\ UNCHANGED history
    ELSE /\ tx' = NoTx
         /\ stopAcked' = TRUE
         /\ UNCHANGED started

\* An exception on the way out of _stop: the child stays, retryable; a
\* failed shutdown reopens the daemon; the stop latch is kept.
StopRaises ==
    /\ stopping' = (stopping /\ child # tx.gen)
    /\ shutdownRequested' = (shutdownRequested /\ tx.op # "shutdown")
    /\ tx' = NoTx

ClientStop(op, c, force) ==
    /\ Call
    /\ stopRequested' = TRUE
    /\ shutdownRequested' = (shutdownRequested \/ op = "shutdown")
    /\ IF child = NoGen
       THEN Stopped(op, c) /\ UNCHANGED stopping
       ELSE /\ stopping' = TRUE
            /\ tx' = [op |-> op, who |-> Client, cfg |-> c, force |-> force,
                      step |-> "prepare", gen |-> child]
            /\ UNCHANGED history
    /\ UNCHANGED <<daemon, disk, child, model, threads>>

\* An engine that was sent SIGKILL no longer answers.
Answers(g) == g \in alive /\ sig[g] # "kill"

\* prepare-stop answered with a drained, valid snapshot.
SealedReceipt(g) == {k \in {"sealed"} : Answers(g) /\ cfg[g] \notin Legacy}

\* No prepare-stop, or a forced stop it failed for: the engine's stats, or
\* null totals if the stop is forced and they cannot be read either.
BestEffortReceipt(g, force) ==
    {k \in {"snapshot"} : Answers(g)} \cup {k \in {"degraded"} : force}

Receipts(g, force) ==
    SealedReceipt(g) \cup (IF cfg[g] \in Legacy \/ force THEN BestEffortReceipt(g, force) ELSE {})

\* AccountingOutbox.persist: durable, and a no-op for an id already there.
PersistReceipt(g, kinds) == \E k \in kinds : outbox' = outbox \cup {<<g, k>>}

Prepare ==
    /\ At("prepare")
    /\ PersistReceipt(tx.gen, Receipts(tx.gen, tx.force))
    /\ durable' = durable \cup {tx.gen}
    /\ Goto("signal")
    /\ UNCHANGED <<daemon, alive, cfg, sig, store, child, model, flags, mon, restart, reaped,
                   bounds, history>>

\* Mutant of PrepareFails: the stop goes on without a receipt.
PrepareFailsProceeds ==
    /\ At("prepare") /\ (~tx.force \/ "outbox" \in faults)
    /\ Goto("signal")
    /\ UNCHANGED <<daemon, disk, child, model, flags, threads, bounds, history>>

PrepareFails ==
    /\ At("prepare") /\ (~tx.force \/ "outbox" \in faults)
    /\ StopRaises
    /\ UNCHANGED <<daemon, disk, child, model, stopRequested, threads, bounds, history>>

SendSignal(s, step) ==
    /\ tx.gen \notin reaped
    /\ sig' = [sig EXCEPT ![tx.gen] = IF tx.gen \in alive THEN s ELSE @]
    /\ Goto(step)
    /\ UNCHANGED <<daemon, alive, cfg, store, outbox, child, model, flags, threads, bounds, history>>

Terminate == At("signal") /\ SendSignal("term", "term")

\* Mutant of GraceExpires: the stop never escalates.
GraceExpiresTerm == At("term") /\ SendSignal("term", "kill")
GraceExpires == At("term") /\ SendSignal("kill", "kill")

StopReturns ==
    /\ daemon = "up" /\ tx.step \in {"signal", "term", "kill"} /\ tx.gen \in reaped
    /\ Stopped(tx.op, tx.cfg)
    /\ UNCHANGED <<daemon, disk, child, model, flags, threads, bounds>>

ReapWaitExpires ==
    /\ At("kill") /\ tx.gen \notin reaped
    /\ StopRaises
    /\ UNCHANGED <<daemon, disk, child, model, stopRequested, threads, bounds, history>>

SwitchStart ==
    /\ At("switch")
    /\ BeginStart(Client, tx.cfg)
    /\ stopAcked' = FALSE
    /\ UNCHANGED <<daemon, disk, child, model, stopping, shutdownRequested, threads, bounds, started>>

-----------------------------------------------------------------------------
(* The monitor thread: _monitor and _reap *)

MonAt(g, step) == daemon = "up" /\ mon[g].step = step
MonGoto(g, step) == mon' = [mon EXCEPT ![g].step = step]

\* Mutant of MonRead: during a stop the monitor leaves the reaping to stop().
MonReadDefers(g) ==
    /\ MonAt(g, "wait") /\ g \notin alive
    /\ mon' = [mon EXCEPT ![g] = [step |-> IF stopping THEN "none" ELSE "account",
                                  was  |-> stopping \/ stopRequested, cur |-> child = g]]
    /\ UNCHANGED <<daemon, disk, child, model, flags, restart, durable, reaped, tx, bounds, history>>

MonRead(g) ==
    /\ MonAt(g, "wait") /\ g \notin alive
    /\ mon' = [mon EXCEPT ![g] = [step |-> IF child = g THEN "account" ELSE "forget",
                                  was  |-> stopping \/ stopRequested, cur |-> child = g]]
    /\ UNCHANGED <<daemon, disk, child, model, flags, restart, durable, reaped, tx, bounds, history>>

\* Mutant of MonAccount: a crash during a stop is left to the stop to record.
MonAccountLazy(g) ==
    /\ MonAt(g, "account")
    /\ IF g \in durable \/ mon[g].was THEN UNCHANGED outbox ELSE PersistReceipt(g, {"crash"})
    /\ durable' = durable \cup {g}
    /\ MonGoto(g, "forget")
    /\ UNCHANGED <<daemon, alive, cfg, sig, store, child, model, flags, restart, reaped, tx,
                   bounds, history>>

MonAccount(g) ==
    /\ MonAt(g, "account")
    /\ IF g \in durable THEN UNCHANGED outbox ELSE PersistReceipt(g, {"crash"})
    /\ durable' = durable \cup {g}
    /\ MonGoto(g, "forget")
    /\ UNCHANGED <<daemon, alive, cfg, sig, store, child, model, flags, restart, reaped, tx,
                   bounds, history>>

MonAccountFails(g) ==
    /\ "outbox" \in faults /\ MonAt(g, "account") /\ g \notin durable
    /\ stopRequested' = TRUE
    /\ MonGoto(g, "forget")
    /\ UNCHANGED <<daemon, disk, child, model, stopping, shutdownRequested, restart, durable, reaped, tx,
                   bounds, history>>

MonForget(g) ==
    /\ MonAt(g, "forget")
    /\ child' = IF child = g THEN NoGen ELSE child
    /\ stopping' = (stopping /\ child # g)
    /\ mon' = [mon EXCEPT ![g] = [@ EXCEPT !.step = "clear", !.cur = (child = g)]]
    /\ UNCHANGED <<daemon, disk, model, stopRequested, shutdownRequested, restart, durable, reaped, tx,
                   bounds, history>>

MonClear(g) ==
    /\ MonAt(g, "clear")
    /\ store' = IF mon[g].cur THEN NoGen ELSE store
    /\ reaped' = reaped \cup {g}
    /\ MonGoto(g, "restart")
    /\ UNCHANGED <<daemon, alive, cfg, sig, outbox, child, model, flags, restart, durable, tx,
                   bounds, history>>

\* _restart_async reads the configuration now, not when the child died.
MonRestart(g) ==
    /\ MonAt(g, "restart")
    /\ restart' = [restart EXCEPT ![g] =
                     IF mon[g].cur /\ AutoRestart /\ ~mon[g].was /\ ~stopRequested THEN model ELSE @]
    /\ mon' = [mon EXCEPT ![g] = NoMon]
    /\ UNCHANGED <<daemon, disk, child, model, flags, durable, reaped, tx, bounds, history>>

-----------------------------------------------------------------------------
(* The engine and the daemon process *)

EngineDies(g) ==
    /\ g \in alive
    /\ alive' = alive \ {g}
    /\ sig' = [sig EXCEPT ![g] = "none"]
    /\ started' = started \ {g}
    /\ UNCHANGED <<daemon, cfg, store, outbox, child, model, flags, threads, tx, bounds,
                   stopAcked>>

\* A crash, or the default exit, which detaches from the engine.
DaemonExit ==
    /\ daemon = "up" /\ "exit" \in faults /\ exits < MaxExits
    /\ daemon' = "down" /\ exits' = exits + 1 /\ lost' = lost \cup (alive \ {store})
    /\ child' = NoGen /\ model' = NoCfg
    /\ stopping' = FALSE /\ stopRequested' = FALSE /\ shutdownRequested' = FALSE
    /\ durable' = {} /\ reaped' = {}
    /\ tx' = NoTx /\ mon' = [g \in Gen |-> NoMon] /\ restart' = [g \in Gen |-> NoCfg]
    /\ UNCHANGED <<disk, faults, calls, stopAcked, started>>

\* The record names a live process with the same start time and command line.
Adoptable == store \in alive

\* readopt(): a recorded engine that is gone is forgotten.
Boot ==
    /\ daemon = "down" /\ daemon' = "up"
    /\ IF Adoptable
       THEN /\ child' = store /\ model' = cfg[store]
            /\ mon' = [mon EXCEPT ![store] = [NoMon EXCEPT !.step = "wait"]]
            /\ UNCHANGED store
       ELSE store' = NoGen /\ UNCHANGED <<child, model, mon>>
    /\ UNCHANGED <<alive, cfg, sig, outbox, flags, restart, durable, reaped, tx, bounds, history>>

-----------------------------------------------------------------------------

StopOps == {<<"stop", NoCfg>>, <<"shutdown", NoCfg>>} \cup {<<"switch", c>> : c \in Cfg}

Calls == \/ \E c \in Cfg : ClientStart(c)
         \/ \E o \in StopOps, force \in BOOLEAN : ClientStop(o[1], o[2], force)

TxStep == \/ \E g \in Gen : Spawn(g)
          \/ SpawnFails \/ Publish \/ Persist \/ PersistFails \/ BeginWatch
          \/ Prepare \/ PrepareFails \/ Terminate \/ GraceExpires
          \/ StopReturns \/ ReapWaitExpires \/ SwitchStart

MonStep(g) == \/ MonRead(g) \/ MonAccount(g) \/ MonAccountFails(g)
              \/ MonForget(g) \/ MonClear(g) \/ MonRestart(g)

Next == \/ Calls \/ TxStep
        \/ \E g \in Gen : AutoStart(g) \/ MonStep(g) \/ EngineDies(g)
        \/ DaemonExit \/ Boot

\* Threads run, timeouts expire, a restart thread gets the lock once client
\* calls stop arriving, and SIGKILL takes effect.  No call has to arrive and
\* no engine has to crash.
Fairness ==
    /\ WF_vars(TxStep)
    /\ \A g \in Gen : WF_vars(MonStep(g)) /\ WF_vars(AutoStart(g))
                      /\ WF_vars(sig[g] = "kill" /\ EngineDies(g))

Spec == Init /\ [][Next]_vars /\ Fairness

-----------------------------------------------------------------------------
(* Properties *)

Recorded(g) == \E k \in Kinds : <<g, k>> \in outbox
Spawned == {g \in Gen : cfg[g] # NoCfg}
Starting(g) == tx.step \in {"publish", "persist", "watch"} /\ tx.gen = g

\* Every variable of the manager, its disk state and its threads has its type.
TypeOK ==
    /\ daemon \in {"up", "down"} /\ alive \subseteq Spawned
    /\ cfg \in [Gen -> Cfg \cup {NoCfg}]
    /\ sig \in [Gen -> {"none", "term", "kill"}]
    /\ {store, child} \subseteq Spawned \cup {NoGen}
    /\ outbox \subseteq Gen \X Kinds
    /\ model \in Cfg \cup {NoCfg} /\ (child # NoGen => model = cfg[child])
    /\ {stopping, stopRequested, shutdownRequested, stopAcked} \subseteq BOOLEAN
    /\ durable \subseteq Gen /\ reaped \subseteq Gen
    /\ started \subseteq alive /\ lost \subseteq Spawned
    /\ restart \in [Gen -> Cfg \cup {NoCfg}]
    /\ tx.gen \in Spawned \cup {NoGen} /\ tx.cfg \in Cfg \cup {NoCfg}

\* "Own exactly one ft serve child's lifecycle": clients, restart threads, monitors and the
\* re-adoption after an exit never bring a second engine to life beside the first, engines apart
\* that an exit lost before the pidfile named them.
OneEngine == Cardinality(alive \ lost) <= 1

Calm == faults = {}

\* Without daemon exits and failing writes, a stop that returned is final until a client asks for
\* an engine again (no auto-restart, queued or late, leaves one running), and after a shutdown no
\* queued or late call leaves an engine that the exiting daemon would detach.
StopIsFinal ==
    Calm => /\ stopAcked => alive = {} /\ child = NoGen
            /\ shutdownRequested /\ tx.op # "shutdown" => alive = {}

\* Without daemon exits and failing writes, the totals of an engine that ended are recorded
\* before it is forgotten, and never by two receipts: the monitor's crash receipt and the
\* stop's exclude each other.
ReceiptsExact ==
    Calm => /\ \A g \in Spawned : g \notin alive /\ g # child /\ ~Starting(g) => Recorded(g)
            /\ \A g \in Gen :
                   Cardinality({k \in Kinds \ {"degraded"} : <<g, k>> \in outbox}) <= 1

\* A stop signals an engine only after its receipt is durable, whatever the
\* daemon, its restarts and its retries do.
SignalledRecorded == \A g \in Gen : sig[g] # "none" => Recorded(g)

\* A dead child does not stay current: its monitor forgets it, so starts are not refused for
\* ever (without exits and failing writes: no monitor watches a child whose pidfile could not
\* be saved).
DeadChildForgotten ==
    \A g \in Gen : (Calm /\ child = g /\ g \notin alive) ~> (child # g)

\* A forced stop that can write its receipt ends with the engine gone.
ForcedStopKills ==
    \A g \in Gen : (Calm /\ tx.gen = g /\ tx.step = "prepare" /\ tx.force) ~> (g \notin alive)

\* "A daemon blip never orphans a live engine": an engine whose start call has
\* returned is the child of a running daemon, or the one the pidfile records.
NeverOrphaned ==
    \A g \in alive \cap started : IF daemon = "up" THEN child = g ELSE store = g
=============================================================================

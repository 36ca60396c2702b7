------------------------- MODULE ServeManagerProofs -------------------------
(* The safety properties of ServeManager for any number of engines, calls, exits and faults. *)
EXTENDS ServeManager, FiniteSetTheorems, TLAPS

Steps == {"idle", "spawn", "publish", "persist", "watch", "prepare", "signal", "term", "kill",
          "switch"}
StopSteps == {"prepare", "signal", "term", "kill"}
Transaction == [op : {"none", "start", "stop", "shutdown", "switch"}, who : Gen \cup {Client},
                cfg : Cfg \cup {NoCfg}, force : BOOLEAN, step : Steps, gen : Gen \cup {NoGen}]
Monitor == [step : {"none", "wait", "account", "forget", "clear", "restart"},
            was : BOOLEAN, cur : BOOLEAN]

\* TypeOK with the types of the threads
Types == TypeOK /\ tx \in Transaction /\ mon \in [Gen -> Monitor]

\* What is true of the open transaction at each of its steps
TxInv ==
    /\ tx.step = "idle" => tx = NoTx
    /\ tx.step \in {"spawn", "publish", "switch"} => tx.cfg \in Cfg /\ child = NoGen
    /\ tx.step \in {"publish", "persist", "watch"} =>
           tx.gen \in Spawned /\ mon[tx.gen].step = "none" /\ tx.gen \notin reaped \cup durable
    /\ tx.step = "publish" => cfg[tx.gen] = tx.cfg
    /\ tx.step \in {"persist", "watch"} => child = tx.gen
    /\ tx.step \in StopSteps => tx.gen \in Spawned /\ child \in {tx.gen, NoGen} /\ stopRequested
    /\ tx.op = "switch" => tx.cfg \in Cfg
    /\ tx.op = "shutdown" => tx.step \in StopSteps
    /\ stopping => tx.step \in StopSteps /\ child = tx.gen

\* Each engine's monitor: while it has not forgotten its engine, that engine is the child.
MonInv ==
    \A g \in Gen :
        /\ mon[g].step # "none" => g \in Spawned
        /\ mon[g].step \in {"wait", "account", "forget"} => child = g
        /\ mon[g].step \in {"account", "forget", "clear", "restart"} => g \notin alive
        /\ mon[g].step \in {"clear", "restart"} => child # g
        /\ g \in reaped => g \in Spawned /\ g \notin alive /\ child # g
        /\ g \in durable => g \in Spawned

\* The daemon knows every engine that no exit has lost.
KnownInv ==
    \A g \in alive \ lost :
        IF daemon = "up" THEN g = child \/ (tx.step = "publish" /\ tx.gen = g) ELSE g = store

DownInv == daemon = "down" =>
    /\ tx = NoTx /\ child = NoGen /\ ~Calm
    /\ \A g \in Gen : mon[g] = NoMon

\* A stop that is about to signal has written its receipt.
SignalInv ==
    /\ \A g \in Gen : sig[g] # "none" => Recorded(g)
    /\ tx.step \in {"signal", "term", "kill"} => Recorded(tx.gen)

\* Latches: after a stop that returned, and after a shutdown, only a queued start can be open.
LatchInv ==
    /\ lost = {}
    /\ stopAcked => stopRequested /\ child = NoGen /\ tx.step \in {"idle", "switch"}
    /\ shutdownRequested /\ tx.op # "shutdown" => child = NoGen /\ tx.step \in {"idle", "switch"}

\* _durable_accounting: an engine is in it before its monitor forgets it ...
EndedInv ==
    \A g \in Gen :
        /\ g \in Spawned /\ g # child /\ ~Starting(g) => g \in durable
        /\ mon[g].step = "forget" => g \in durable

\* ... and exactly when it has a receipt.
DurableInv ==
    \A g \in Gen :
        /\ g \in durable => Recorded(g)
        /\ \A k \in Kinds : <<g, k>> \in outbox => g \in durable

\* The guard that keeps a second receipt out: an engine whose receipt is durable no longer
\* answers, unless the stop that wrote it is about to signal it.
OnceInv ==
    \A g \in Gen :
        /\ g \in durable /\ Answers(g) => tx.gen = g /\ tx.step \in {"signal", "term"}
        /\ \A k, l \in Kinds \ {"degraded"} : <<g, k>> \in outbox /\ <<g, l>> \in outbox => k = l

\* Latches and receipts of a daemon without faults
CalmInv == Calm => LatchInv /\ EndedInv /\ DurableInv /\ OnceInv

IndInv == Types /\ TxInv /\ MonInv /\ KnownInv /\ DownInv /\ SignalInv /\ CalmInv

USE ServeConstants DEF IndInv, Types, Gen, NoGen, Client, disk, flags, threads, bounds, history,
    NoTx, NoMon, At, Goto, MonAt, MonGoto

\* start(): a refused or conflicting call leaves no transaction.
LEMMA ClientStartInv == ASSUME NEW c \in Cfg, IndInv, ClientStart(c) PROVE IndInv'
<1>1. Types'
  <2>1. tx' \in Transaction
    BY DEF ClientStart, Call, BeginStart, Refused, Occupied, Transaction, Steps
  <2>2. mon' \in [Gen -> Monitor]
    BY DEF ClientStart, Call, BeginStart, Refused
  <2>3. alive' \subseteq Spawned' /\ {store', child'} \subseteq Spawned' \cup {NoGen}
    BY DEF ClientStart, Call, BeginStart, TypeOK, Spawned
  <2>4. tx'.gen \in Spawned' \cup {NoGen} /\ lost' \subseteq Spawned' /\ started' \subseteq alive'
    BY DEF ClientStart, Call, BeginStart, TypeOK, Spawned
  <2>5. TypeOK'
    BY <2>1, <2>3, <2>4 DEF ClientStart, Call, BeginStart, Refused, Occupied, TypeOK
  <2> QED BY <2>1, <2>2, <2>5
<1>2. TxInv'
  BY DEF ClientStart, Call, BeginStart, Refused, Occupied, TypeOK, Spawned, TxInv, StopSteps
<1>3. MonInv'
  BY DEF ClientStart, Call, BeginStart, Refused, Occupied, TypeOK, Spawned, MonInv
<1>4. KnownInv'
  BY DEF ClientStart, Call, BeginStart, Refused, Occupied, TypeOK, Spawned, KnownInv
<1>5. DownInv'
  BY DEF ClientStart, Call, DownInv
<1>6. SignalInv'
  BY DEF ClientStart, Call, BeginStart, Refused, Occupied, TypeOK, Spawned, SignalInv, Recorded
<1>7. CalmInv'
  <2>1. Calm' => LatchInv'
    BY DEF ClientStart, Call, BeginStart, Refused, Occupied, TypeOK, Spawned, Transaction,
       CalmInv, Calm, LatchInv, TxInv
  <2>2. Calm' => EndedInv'
    BY DEF ClientStart, Call, BeginStart, Refused, Occupied, TypeOK, Spawned, Transaction,
       Monitor, CalmInv, Calm, EndedInv, Starting
  <2>3. Calm' => DurableInv'
    BY DEF ClientStart, Call, BeginStart, Refused, Occupied, TypeOK, Spawned, Transaction,
       CalmInv, Calm, DurableInv, Recorded
  <2>4. Calm' => OnceInv'
    BY DEF ClientStart, Call, BeginStart, Refused, Occupied, TypeOK, Spawned, Transaction,
       CalmInv, Calm, OnceInv, Answers
  <2> QED BY <2>1, <2>2, <2>3, <2>4 DEF CalmInv
<1> QED BY <1>1, <1>2, <1>3, <1>4, <1>5, <1>6, <1>7

\* The thread of _restart_async gets the lifecycle lock.
LEMMA AutoStartInv == ASSUME NEW g \in Gen, IndInv, AutoStart(g) PROVE IndInv'
<1>1. Types'
  <2>1. tx' \in Transaction
    BY ZenonT(30) DEF AutoStart, BeginStart, Refused, Occupied, TypeOK, Transaction, Steps
  <2>2. mon' \in [Gen -> Monitor]
    BY DEF AutoStart, BeginStart, Refused
  <2>3. alive' \subseteq Spawned' /\ {store', child'} \subseteq Spawned' \cup {NoGen}
    BY DEF AutoStart, BeginStart, TypeOK, Spawned
  <2>4. tx'.gen \in Spawned' \cup {NoGen} /\ lost' \subseteq Spawned' /\ started' \subseteq alive'
    BY DEF AutoStart, BeginStart, TypeOK, Spawned
  <2>5. TypeOK'
    BY <2>1, <2>3, <2>4 DEF AutoStart, BeginStart, Refused, Occupied, TypeOK
  <2> QED BY <2>1, <2>2, <2>5
<1>2. TxInv'
  BY DEF AutoStart, BeginStart, Refused, Occupied, TypeOK, Spawned, TxInv, StopSteps
<1>3. MonInv'
  BY DEF AutoStart, BeginStart, Refused, Occupied, TypeOK, Spawned, MonInv
<1>4. KnownInv'
  BY DEF AutoStart, BeginStart, Refused, Occupied, TypeOK, Spawned, KnownInv
<1>5. DownInv'
  BY DEF AutoStart, DownInv
<1>6. SignalInv'
  BY DEF AutoStart, BeginStart, Refused, Occupied, TypeOK, Spawned, SignalInv, Recorded
<1>7. CalmInv'
  <2>1. Calm' => LatchInv'
    BY DEF AutoStart, BeginStart, Refused, Occupied, TypeOK, Spawned, Transaction, CalmInv, Calm,
       LatchInv, TxInv
  <2>2. Calm' => EndedInv'
    BY DEF AutoStart, BeginStart, Refused, Occupied, TypeOK, Spawned, Transaction, Monitor,
       CalmInv, Calm, EndedInv, Starting
  <2>3. Calm' => DurableInv'
    BY DEF AutoStart, BeginStart, Refused, Occupied, TypeOK, Spawned, Transaction, CalmInv, Calm,
       DurableInv, Recorded
  <2>4. Calm' => OnceInv'
    BY DEF AutoStart, BeginStart, Refused, Occupied, TypeOK, Spawned, Transaction, CalmInv, Calm,
       OnceInv, Answers
  <2> QED BY <2>1, <2>2, <2>3, <2>4 DEF CalmInv
<1> QED BY <1>1, <1>2, <1>3, <1>4, <1>5, <1>6, <1>7

\* subprocess.Popen: while no engine is the child.
LEMMA SpawnInv == ASSUME NEW g \in Gen, IndInv, Spawn(g) PROVE IndInv'
<1>1. Types'
  <2>1. tx' \in Transaction
    BY DEF Spawn, Transaction, Steps
  <2>2. mon' \in [Gen -> Monitor]
    BY DEF Spawn
  <2>3. alive' \subseteq Spawned' /\ {store', child'} \subseteq Spawned' \cup {NoGen}
    BY DEF Spawn, TypeOK, Spawned, TxInv
  <2>4. tx'.gen \in Spawned' \cup {NoGen} /\ lost' \subseteq Spawned' /\ started' \subseteq alive'
    BY DEF Spawn, TypeOK, Spawned, TxInv
  <2>5. TypeOK'
    BY <2>1, <2>3, <2>4 DEF Spawn, TypeOK, Spawned
  <2> QED BY <2>1, <2>2, <2>5
<1>2. TxInv'
  BY DEF Spawn, TypeOK, Spawned, Transaction, TxInv, MonInv, StopSteps
<1>3. MonInv'
  BY DEF Spawn, TypeOK, Spawned, MonInv
<1>4. KnownInv'
  BY DEF Spawn, TypeOK, Spawned, KnownInv
<1>5. DownInv'
  BY DEF Spawn, DownInv
<1>6. SignalInv'
  BY DEF Spawn, TypeOK, Spawned, Transaction, SignalInv, Recorded
<1>7. CalmInv'
  <2>1. Calm' => LatchInv'
    BY DEF Spawn, TypeOK, Spawned, CalmInv, Calm, LatchInv
  <2>2. Calm' => EndedInv'
    BY DEF Spawn, TypeOK, Spawned, Transaction, Monitor, CalmInv, Calm, EndedInv, Starting
  <2>3. Calm' => DurableInv'
    BY DEF Spawn, TypeOK, Spawned, Transaction, CalmInv, Calm, DurableInv, Recorded
  <2>4. Calm' => OnceInv'
    BY DEF Spawn, TypeOK, Spawned, Transaction, CalmInv, Calm, OnceInv, Answers, MonInv
  <2> QED BY <2>1, <2>2, <2>3, <2>4 DEF CalmInv
<1> QED BY <1>1, <1>2, <1>3, <1>4, <1>5, <1>6, <1>7

\* Popen raises.
LEMMA SpawnFailsInv == ASSUME IndInv, SpawnFails PROVE IndInv'
<1>1. Types'
  BY DEF SpawnFails, TypeOK, Spawned, Transaction, Steps
<1>2. TxInv'
  BY DEF SpawnFails, TypeOK, Spawned, TxInv, StopSteps
<1>3. MonInv'
  BY DEF SpawnFails, TypeOK, Spawned, MonInv
<1>4. KnownInv'
  BY DEF SpawnFails, TypeOK, Spawned, KnownInv
<1>5. DownInv'
  BY DEF SpawnFails, DownInv
<1>6. SignalInv'
  BY DEF SpawnFails, TypeOK, Spawned, SignalInv, Recorded
<1>7. CalmInv'
  <2>1. Calm' => LatchInv'
    BY DEF SpawnFails, TypeOK, Spawned, Transaction, CalmInv, Calm, LatchInv, TxInv
  <2>2. Calm' => EndedInv'
    BY DEF SpawnFails, TypeOK, Spawned, Transaction, Monitor, CalmInv, Calm, EndedInv, Starting
  <2>3. Calm' => DurableInv'
    BY DEF SpawnFails, TypeOK, Spawned, Transaction, CalmInv, Calm, DurableInv, Recorded
  <2>4. Calm' => OnceInv'
    BY DEF SpawnFails, TypeOK, Spawned, Transaction, CalmInv, Calm, OnceInv, Answers
  <2> QED BY <2>1, <2>2, <2>3, <2>4 DEF CalmInv
<1> QED BY <1>1, <1>2, <1>3, <1>4, <1>5, <1>6, <1>7

\* The block of _start that installs the child.
LEMMA PublishInv == ASSUME IndInv, Publish PROVE IndInv'
<1>1. Types'
  <2>1. tx' \in Transaction
    BY DEF Publish, Transaction, Steps
  <2>2. mon' \in [Gen -> Monitor]
    BY DEF Publish
  <2>3. alive' \subseteq Spawned' /\ {store', child'} \subseteq Spawned' \cup {NoGen}
    BY DEF Publish, TypeOK, Spawned
  <2>4. tx'.gen \in Spawned' \cup {NoGen} /\ lost' \subseteq Spawned' /\ started' \subseteq alive'
    BY DEF Publish, TypeOK, Spawned
  <2>5. TypeOK'
    BY <2>1, <2>3, <2>4 DEF Publish, TypeOK, Transaction, TxInv
  <2> QED BY <2>1, <2>2, <2>5
<1>2. TxInv'
  BY DEF Publish, TypeOK, Spawned, TxInv, StopSteps
<1>3. MonInv'
  BY DEF Publish, TypeOK, Spawned, MonInv, TxInv
<1>4. KnownInv'
  BY DEF Publish, TypeOK, Spawned, Transaction, KnownInv, TxInv
<1>5. DownInv'
  BY DEF Publish, DownInv
<1>6. SignalInv'
  BY DEF Publish, TypeOK, Spawned, Transaction, SignalInv, Recorded
<1>7. CalmInv'
  <2>1. Calm' => LatchInv'
    BY DEF Publish, TypeOK, Spawned, CalmInv, Calm, LatchInv
  <2>2. Calm' => EndedInv'
    BY DEF Publish, TypeOK, Spawned, Transaction, Monitor, CalmInv, Calm, EndedInv, Starting,
       TxInv
  <2>3. Calm' => DurableInv'
    BY DEF Publish, TypeOK, Spawned, Transaction, CalmInv, Calm, DurableInv, Recorded
  <2>4. Calm' => OnceInv'
    BY DEF Publish, TypeOK, Spawned, Transaction, CalmInv, Calm, OnceInv, Answers
  <2> QED BY <2>1, <2>2, <2>3, <2>4 DEF CalmInv
<1> QED BY <1>1, <1>2, <1>3, <1>4, <1>5, <1>6, <1>7

\* The pidfile is written.
LEMMA PersistInv == ASSUME IndInv, Persist PROVE IndInv'
<1>1. Types'
  <2>1. tx' \in Transaction
    BY DEF Persist, Transaction, Steps
  <2>2. mon' \in [Gen -> Monitor]
    BY DEF Persist
  <2>3. alive' \subseteq Spawned' /\ {store', child'} \subseteq Spawned' \cup {NoGen}
    BY DEF Persist, TypeOK, Spawned
  <2>4. tx'.gen \in Spawned' \cup {NoGen} /\ lost' \subseteq Spawned' /\ started' \subseteq alive'
    BY DEF Persist, TypeOK, Spawned
  <2>5. TypeOK'
    BY <2>1, <2>3, <2>4 DEF Persist, TypeOK
  <2> QED BY <2>1, <2>2, <2>5
<1>2. TxInv'
  BY DEF Persist, TypeOK, Spawned, TxInv, StopSteps
<1>3. MonInv'
  BY DEF Persist, TypeOK, Spawned, MonInv
<1>4. KnownInv'
  BY DEF Persist, TypeOK, Spawned, KnownInv
<1>5. DownInv'
  BY DEF Persist, DownInv
<1>6. SignalInv'
  BY DEF Persist, TypeOK, Spawned, Transaction, SignalInv, Recorded
<1>7. CalmInv'
  <2>1. Calm' => LatchInv'
    BY DEF Persist, TypeOK, Spawned, CalmInv, Calm, LatchInv
  <2>2. Calm' => EndedInv'
    BY DEF Persist, TypeOK, Spawned, Transaction, Monitor, CalmInv, Calm, EndedInv, Starting
  <2>3. Calm' => DurableInv'
    BY DEF Persist, TypeOK, Spawned, Transaction, CalmInv, Calm, DurableInv, Recorded
  <2>4. Calm' => OnceInv'
    BY DEF Persist, TypeOK, Spawned, Transaction, CalmInv, Calm, OnceInv, Answers
  <2> QED BY <2>1, <2>2, <2>3, <2>4 DEF CalmInv
<1> QED BY <1>1, <1>2, <1>3, <1>4, <1>5, <1>6, <1>7

\* Writing the pidfile raises.
LEMMA PersistFailsInv == ASSUME IndInv, PersistFails PROVE IndInv'
<1>1. Types'
  BY DEF PersistFails, TypeOK, Spawned, Transaction, Steps
<1>2. TxInv'
  BY DEF PersistFails, TypeOK, Spawned, TxInv, StopSteps
<1>3. MonInv'
  BY DEF PersistFails, TypeOK, Spawned, MonInv
<1>4. KnownInv'
  BY DEF PersistFails, TypeOK, Spawned, KnownInv
<1>5. DownInv'
  BY DEF PersistFails, DownInv
<1>6. SignalInv'
  BY DEF PersistFails, TypeOK, Spawned, SignalInv, Recorded
<1>7. CalmInv'
  <2>1. Calm' => LatchInv'
    BY DEF PersistFails, TypeOK, Spawned, Calm
  <2>2. Calm' => EndedInv'
    BY DEF PersistFails, TypeOK, Spawned, Transaction, Monitor, Calm
  <2>3. Calm' => DurableInv'
    BY DEF PersistFails, TypeOK, Calm
  <2>4. Calm' => OnceInv'
    BY DEF PersistFails, TypeOK, Spawned, Calm
  <2> QED BY <2>1, <2>2, <2>3, <2>4 DEF CalmInv
<1> QED BY <1>1, <1>2, <1>3, <1>4, <1>5, <1>6, <1>7

\* The monitor thread starts.
LEMMA BeginWatchInv == ASSUME IndInv, BeginWatch PROVE IndInv'
<1>1. Types'
  <2>1. tx' \in Transaction
    BY DEF BeginWatch, Transaction, Steps
  <2>2. mon' \in [Gen -> Monitor]
    BY DEF BeginWatch, Monitor
  <2>3. alive' \subseteq Spawned' /\ {store', child'} \subseteq Spawned' \cup {NoGen}
    BY DEF BeginWatch, TypeOK, Spawned
  <2>4. tx'.gen \in Spawned' \cup {NoGen} /\ lost' \subseteq Spawned' /\ started' \subseteq alive'
    BY DEF BeginWatch, TypeOK, Spawned
  <2>5. TypeOK'
    BY <2>1, <2>3, <2>4 DEF BeginWatch, TypeOK
  <2> QED BY <2>1, <2>2, <2>5
<1>2. TxInv'
  BY DEF BeginWatch, TypeOK, Spawned, TxInv, StopSteps
<1>3. MonInv'
  BY DEF BeginWatch, TypeOK, Spawned, MonInv, TxInv
<1>4. KnownInv'
  BY DEF BeginWatch, TypeOK, Spawned, KnownInv
<1>5. DownInv'
  BY DEF BeginWatch, DownInv
<1>6. SignalInv'
  BY DEF BeginWatch, TypeOK, Spawned, SignalInv, Recorded
<1>7. CalmInv'
  <2>1. Calm' => LatchInv'
    BY DEF BeginWatch, TypeOK, Spawned, Transaction, CalmInv, Calm, LatchInv, TxInv, StopSteps
  <2>2. Calm' => EndedInv'
    BY DEF BeginWatch, TypeOK, Spawned, Transaction, Monitor, CalmInv, Calm, EndedInv, Starting,
       TxInv
  <2>3. Calm' => DurableInv'
    BY DEF BeginWatch, TypeOK, Spawned, Transaction, CalmInv, Calm, DurableInv, Recorded
  <2>4. Calm' => OnceInv'
    BY DEF BeginWatch, TypeOK, Spawned, Transaction, CalmInv, Calm, OnceInv, Answers
  <2> QED BY <2>1, <2>2, <2>3, <2>4 DEF CalmInv
<1> QED BY <1>1, <1>2, <1>3, <1>4, <1>5, <1>6, <1>7

\* What a stop call carries.
LEMMA StopOpsFacts ==
    ASSUME NEW o \in StopOps
    PROVE  /\ o[1] \in {"stop", "shutdown", "switch"} /\ o[2] \in Cfg \cup {NoCfg}
           /\ o[1] = "switch" => o[2] \in Cfg
BY DEF StopOps

\* stop(), shutdown(), switch() of a child: the latch closes and the stop begins.
LEMMA BeginStopInv ==
    ASSUME NEW op \in {"stop", "shutdown", "switch"}, NEW c \in Cfg \cup {NoCfg},
           op = "switch" => c \in Cfg, NEW force \in BOOLEAN,
           IndInv, ClientStop(op, c, force), child # NoGen
    PROVE  IndInv'
<1>0. /\ tx = NoTx /\ stopRequested' = TRUE /\ stopping' = TRUE
      /\ UNCHANGED <<child, lost, faults, stopAcked>>
      /\ tx' = [op |-> op, who |-> Client, cfg |-> c, force |-> force,
                step |-> "prepare", gen |-> child]
  BY DEF ClientStop, Call, TxInv
<1>1. Types'
  <2>1. tx' \in Transaction
    BY <1>0 DEF Transaction, Steps, TypeOK, Spawned
  <2>2. tx'.gen \in Spawned \cup {NoGen} /\ tx'.cfg \in Cfg \cup {NoCfg}
    BY <1>0 DEF TypeOK
  <2>3. TypeOK'
    BY ZenonT(30), <2>2 DEF ClientStop, Call, TypeOK, Spawned
  <2> QED BY <2>1, <2>3 DEF ClientStop
<1>2. TxInv'
  BY <1>0 DEF ClientStop, TypeOK, TxInv, StopSteps, Spawned
<1>3. MonInv'
  BY <1>0 DEF ClientStop, MonInv, Spawned
<1>4. KnownInv'
  BY <1>0 DEF ClientStop, KnownInv
<1>5. DownInv'
  BY DEF ClientStop, DownInv
<1>6. SignalInv'
  BY <1>0 DEF ClientStop, SignalInv, Recorded
<1>7. CalmInv'
  <2>1. Calm' => LatchInv'
    BY <1>0 DEF ClientStop, CalmInv, LatchInv, Calm
  <2>2. Calm' => EndedInv'
    BY <1>0 DEF ClientStop, CalmInv, EndedInv, Calm, Starting, Spawned
  <2>3. Calm' => DurableInv'
    BY <1>0 DEF ClientStop, CalmInv, DurableInv, Calm, Recorded
  <2>4. Calm' => OnceInv'
    BY <1>0 DEF ClientStop, CalmInv, OnceInv, Calm, Answers
  <2> QED BY <2>1, <2>2, <2>3, <2>4 DEF CalmInv
<1> QED BY <1>1, <1>2, <1>3, <1>4, <1>5, <1>6, <1>7

\* Without a child there is nothing to stop; a switch goes on to its start.
LEMMA NothingToStopInv ==
    ASSUME NEW op \in {"stop", "shutdown", "switch"}, NEW c \in Cfg \cup {NoCfg},
           op = "switch" => c \in Cfg, NEW force \in BOOLEAN,
           IndInv, ClientStop(op, c, force), child = NoGen
    PROVE  IndInv'
<1>0. /\ tx = NoTx /\ stopRequested' = TRUE /\ UNCHANGED <<child, stopping, lost, faults>>
      /\ tx' = IF op = "switch" THEN [NoTx EXCEPT !.op = op, !.cfg = c, !.step = "switch"] ELSE NoTx
  BY DEF ClientStop, Call, Stopped, TxInv
<1>1. Types'
  <2>1. tx' \in Transaction
    BY <1>0 DEF Transaction, Steps
  <2>2. tx'.gen \in Spawned \cup {NoGen} /\ tx'.cfg \in Cfg \cup {NoCfg}
    BY <1>0
  <2>3. TypeOK'
    BY ZenonT(30), <2>2 DEF ClientStop, Call, Stopped, TypeOK, Spawned
  <2> QED BY <2>1, <2>3 DEF ClientStop
<1>2. TxInv'
  BY <1>0 DEF TxInv, StopSteps
<1>3. MonInv'
  BY <1>0 DEF ClientStop, MonInv, Spawned
<1>4. KnownInv'
  BY <1>0 DEF ClientStop, KnownInv
<1>5. DownInv'
  BY DEF ClientStop, Call, DownInv
<1>6. SignalInv'
  BY <1>0 DEF ClientStop, SignalInv, Recorded
<1>7. CalmInv'
  <2>1. Calm' => LatchInv'
    BY <1>0 DEF ClientStop, Call, CalmInv, LatchInv, Calm
  <2>2. Calm' => EndedInv'
    BY <1>0 DEF ClientStop, CalmInv, EndedInv, Calm, Starting, Spawned
  <2>3. Calm' => DurableInv'
    BY <1>0 DEF ClientStop, CalmInv, DurableInv, Calm, Recorded
  <2>4. Calm' => OnceInv'
    BY <1>0 DEF ClientStop, CalmInv, OnceInv, Calm, Answers
  <2> QED BY <2>1, <2>2, <2>3, <2>4 DEF CalmInv
<1> QED BY <1>1, <1>2, <1>3, <1>4, <1>5, <1>6, <1>7

\* prepare-stop and the receipt it makes durable.
LEMMA PrepareInv == ASSUME IndInv, Prepare PROVE IndInv'
<1>0. PICK k \in Kinds : /\ outbox' = outbox \cup {<<tx.gen, k>>}
                         /\ k # "degraded" => Answers(tx.gen)
  BY DEF Prepare, PersistReceipt, Receipts, SealedReceipt, BestEffortReceipt, Kinds
<1>1. Types'
  <2>1. tx' \in Transaction
    BY <1>0 DEF Prepare, PersistReceipt, Transaction, Steps
  <2>2. mon' \in [Gen -> Monitor]
    BY <1>0 DEF Prepare
  <2>3. alive' \subseteq Spawned' /\ {store', child'} \subseteq Spawned' \cup {NoGen}
    BY <1>0 DEF Prepare, TypeOK, Spawned
  <2>4. tx'.gen \in Spawned' \cup {NoGen} /\ lost' \subseteq Spawned' /\ started' \subseteq alive'
    BY <1>0 DEF Prepare, TypeOK, Spawned
  <2>5. TypeOK'
    BY <1>0, <2>1, <2>3, <2>4 DEF Prepare, PersistReceipt, TypeOK, Spawned, TxInv, StopSteps
  <2> QED BY <2>1, <2>2, <2>5
<1>2. TxInv'
  BY <1>0 DEF Prepare, PersistReceipt, TypeOK, Spawned, TxInv, StopSteps
<1>3. MonInv'
  BY <1>0 DEF Prepare, PersistReceipt, TypeOK, Spawned, MonInv
<1>4. KnownInv'
  BY <1>0 DEF Prepare, PersistReceipt, TypeOK, Spawned, KnownInv
<1>5. DownInv'
  BY <1>0 DEF Prepare, DownInv
<1>6. SignalInv'
  BY <1>0 DEF Prepare, PersistReceipt, TypeOK, Spawned, Transaction, SignalInv, Recorded
<1>7. CalmInv'
  <2>1. Calm' => LatchInv'
    BY <1>0 DEF Prepare, PersistReceipt, TypeOK, Spawned, CalmInv, Calm, LatchInv
  <2>2. Calm' => EndedInv'
    BY <1>0 DEF Prepare, PersistReceipt, TypeOK, Spawned, Transaction, Monitor, CalmInv, Calm,
       EndedInv, Starting
  <2>3. Calm' => DurableInv'
    BY <1>0 DEF Prepare, PersistReceipt, TypeOK, Spawned, Transaction, CalmInv, Calm, DurableInv,
       Recorded
  <2>4. Calm' => OnceInv'
    <3> SUFFICES ASSUME Calm PROVE OnceInv'
      BY DEF Prepare, Calm
    <3>1. k # "degraded" => \A l \in Kinds : <<tx.gen, l>> \notin outbox
      BY <1>0 DEF Prepare, CalmInv, OnceInv, DurableInv, TxInv, StopSteps, Spawned
    <3>2. ASSUME NEW g \in Gen, g \in durable', Answers(g)'
          PROVE  tx'.gen = g /\ tx'.step \in {"signal", "term"}
      BY <3>2 DEF Prepare, CalmInv, OnceInv, Answers
    <3>3. ASSUME NEW g \in Gen, NEW l \in Kinds \ {"degraded"}, NEW m \in Kinds \ {"degraded"},
                 <<g, l>> \in outbox', <<g, m>> \in outbox'
          PROVE  l = m
      BY <1>0, <3>1, <3>3 DEF CalmInv, OnceInv
    <3> QED BY <3>2, <3>3 DEF OnceInv
  <2> QED BY <2>1, <2>2, <2>3, <2>4 DEF CalmInv
<1> QED BY <1>1, <1>2, <1>3, <1>4, <1>5, <1>6, <1>7

\* prepare-stop or its receipt fails: the stop raises.
LEMMA PrepareFailsInv == ASSUME IndInv, PrepareFails PROVE IndInv'
<1>1. Types'
  BY DEF PrepareFails, StopRaises, TypeOK, Spawned, Transaction, Steps
<1>2. TxInv'
  BY DEF PrepareFails, StopRaises, TypeOK, Spawned, TxInv, StopSteps
<1>3. MonInv'
  BY DEF PrepareFails, StopRaises, TypeOK, Spawned, MonInv
<1>4. KnownInv'
  BY DEF PrepareFails, StopRaises, TypeOK, Spawned, KnownInv
<1>5. DownInv'
  BY DEF PrepareFails, DownInv
<1>6. SignalInv'
  BY DEF PrepareFails, StopRaises, TypeOK, Spawned, SignalInv, Recorded
<1>7. CalmInv'
  <2>1. Calm' => LatchInv'
    BY DEF PrepareFails, StopRaises, TypeOK, Spawned, CalmInv, Calm, LatchInv
  <2>2. Calm' => EndedInv'
    BY DEF PrepareFails, StopRaises, TypeOK, Spawned, Transaction, Monitor, CalmInv, Calm,
       EndedInv, Starting
  <2>3. Calm' => DurableInv'
    BY DEF PrepareFails, StopRaises, TypeOK, Spawned, Transaction, CalmInv, Calm, DurableInv,
       Recorded
  <2>4. Calm' => OnceInv'
    BY DEF PrepareFails, StopRaises, TypeOK, Spawned, Transaction, CalmInv, Calm, OnceInv, Answers
  <2> QED BY <2>1, <2>2, <2>3, <2>4 DEF CalmInv
<1> QED BY <1>1, <1>2, <1>3, <1>4, <1>5, <1>6, <1>7

\* SIGTERM goes to an engine whose receipt is durable.
LEMMA TerminateInv == ASSUME IndInv, Terminate PROVE IndInv'
<1>1. Types'
  <2>1. tx' \in Transaction
    BY DEF Terminate, SendSignal, Transaction, Steps
  <2>2. mon' \in [Gen -> Monitor]
    BY DEF Terminate, SendSignal
  <2>3. alive' \subseteq Spawned' /\ {store', child'} \subseteq Spawned' \cup {NoGen}
    BY DEF Terminate, SendSignal, TypeOK, Spawned
  <2>4. tx'.gen \in Spawned' \cup {NoGen} /\ lost' \subseteq Spawned' /\ started' \subseteq alive'
    BY DEF Terminate, SendSignal, TypeOK, Spawned
  <2>5. TypeOK'
    BY <2>1, <2>3, <2>4 DEF Terminate, SendSignal, TypeOK, Spawned, TxInv, StopSteps
  <2> QED BY <2>1, <2>2, <2>5
<1>2. TxInv'
  BY DEF Terminate, SendSignal, TypeOK, Spawned, TxInv, StopSteps
<1>3. MonInv'
  BY DEF Terminate, SendSignal, TypeOK, Spawned, MonInv
<1>4. KnownInv'
  BY DEF Terminate, SendSignal, TypeOK, Spawned, KnownInv
<1>5. DownInv'
  BY DEF Terminate, SendSignal, DownInv
<1>6. SignalInv'
  <2>1. /\ outbox' = outbox /\ tx'.gen = tx.gen /\ Recorded(tx.gen)
        /\ \A g \in Gen : g # tx.gen => sig'[g] = sig[g]
    BY DEF Terminate, SendSignal, SignalInv
  <2> QED BY <2>1 DEF SignalInv, Recorded
<1>7. CalmInv'
  <2>1. Calm' => LatchInv'
    BY DEF Terminate, SendSignal, TypeOK, Spawned, CalmInv, Calm, LatchInv
  <2>2. Calm' => EndedInv'
    BY DEF Terminate, SendSignal, TypeOK, Spawned, Transaction, Monitor, CalmInv, Calm, EndedInv,
       Starting
  <2>3. Calm' => DurableInv'
    BY DEF Terminate, SendSignal, TypeOK, Spawned, Transaction, CalmInv, Calm, DurableInv,
       Recorded
  <2>4. Calm' => OnceInv'
    BY DEF Terminate, SendSignal, TypeOK, Spawned, Transaction, CalmInv, Calm, OnceInv, Answers
  <2> QED BY <2>1, <2>2, <2>3, <2>4 DEF CalmInv
<1> QED BY <1>1, <1>2, <1>3, <1>4, <1>5, <1>6, <1>7

\* The grace period ends: SIGKILL.
LEMMA GraceExpiresInv == ASSUME IndInv, GraceExpires PROVE IndInv'
<1>1. Types'
  <2>1. tx' \in Transaction
    BY DEF GraceExpires, SendSignal, Transaction, Steps
  <2>2. mon' \in [Gen -> Monitor]
    BY DEF GraceExpires, SendSignal
  <2>3. alive' \subseteq Spawned' /\ {store', child'} \subseteq Spawned' \cup {NoGen}
    BY DEF GraceExpires, SendSignal, TypeOK, Spawned
  <2>4. tx'.gen \in Spawned' \cup {NoGen} /\ lost' \subseteq Spawned' /\ started' \subseteq alive'
    BY DEF GraceExpires, SendSignal, TypeOK, Spawned
  <2>5. TypeOK'
    BY <2>1, <2>3, <2>4 DEF GraceExpires, SendSignal, TypeOK, Spawned, TxInv, StopSteps
  <2> QED BY <2>1, <2>2, <2>5
<1>2. TxInv'
  BY DEF GraceExpires, SendSignal, TypeOK, Spawned, TxInv, StopSteps
<1>3. MonInv'
  BY DEF GraceExpires, SendSignal, TypeOK, Spawned, MonInv
<1>4. KnownInv'
  BY DEF GraceExpires, SendSignal, TypeOK, Spawned, KnownInv
<1>5. DownInv'
  BY DEF GraceExpires, SendSignal, DownInv
<1>6. SignalInv'
  <2>1. /\ outbox' = outbox /\ tx'.gen = tx.gen /\ Recorded(tx.gen)
        /\ \A g \in Gen : g # tx.gen => sig'[g] = sig[g]
    BY DEF GraceExpires, SendSignal, SignalInv
  <2> QED BY <2>1 DEF SignalInv, Recorded
<1>7. CalmInv'
  <2>1. Calm' => LatchInv'
    BY DEF GraceExpires, SendSignal, TypeOK, Spawned, CalmInv, Calm, LatchInv
  <2>2. Calm' => EndedInv'
    BY DEF GraceExpires, SendSignal, TypeOK, Spawned, Transaction, Monitor, CalmInv, Calm,
       EndedInv, Starting
  <2>3. Calm' => DurableInv'
    BY DEF GraceExpires, SendSignal, TypeOK, Spawned, Transaction, CalmInv, Calm, DurableInv,
       Recorded
  <2>4. Calm' => OnceInv'
    BY DEF GraceExpires, SendSignal, TypeOK, Spawned, Transaction, CalmInv, Calm, OnceInv, Answers
  <2> QED BY <2>1, <2>2, <2>3, <2>4 DEF CalmInv
<1> QED BY <1>1, <1>2, <1>3, <1>4, <1>5, <1>6, <1>7

\* The child is reaped: the stop returns, or switch goes on.
LEMMA StopReturnsInv == ASSUME IndInv, StopReturns PROVE IndInv'
<1>0. /\ child = NoGen
      /\ tx' = IF tx.op = "switch"
               THEN [NoTx EXCEPT !.op = "switch", !.cfg = tx.cfg, !.step = "switch"]
               ELSE NoTx
  BY DEF StopReturns, Stopped, TypeOK, TxInv, MonInv, StopSteps
<1>1. Types'
  <2>1. tx' \in Transaction
    BY <1>0 DEF Transaction, Steps
  <2>2. TypeOK'
    BY <1>0 DEF StopReturns, Stopped, TypeOK, Spawned
  <2> QED BY <2>1, <2>2 DEF StopReturns
<1>2. TxInv'
  BY <1>0 DEF StopReturns, Stopped, TypeOK, Spawned, TxInv, StopSteps
<1>3. MonInv'
  BY <1>0 DEF StopReturns, Stopped, TypeOK, Spawned, MonInv
<1>4. KnownInv'
  BY <1>0 DEF StopReturns, Stopped, TypeOK, Spawned, KnownInv
<1>5. DownInv'
  BY <1>0 DEF StopReturns, DownInv
<1>6. SignalInv'
  BY <1>0 DEF StopReturns, Stopped, TypeOK, Spawned, SignalInv, Recorded
<1>7. CalmInv'
  <2>1. Calm' => LatchInv'
    BY <1>0 DEF StopReturns, Stopped, TypeOK, Spawned, Transaction, CalmInv, Calm, LatchInv,
       TxInv, StopSteps
  <2>2. Calm' => EndedInv'
    BY <1>0 DEF StopReturns, Stopped, TypeOK, Spawned, Transaction, Monitor, CalmInv, Calm,
       EndedInv, Starting
  <2>3. Calm' => DurableInv'
    BY <1>0 DEF StopReturns, Stopped, TypeOK, Spawned, Transaction, CalmInv, Calm, DurableInv,
       Recorded
  <2>4. Calm' => OnceInv'
    BY <1>0 DEF StopReturns, Stopped, TypeOK, Spawned, Transaction, CalmInv, Calm, OnceInv,
       Answers, MonInv
  <2> QED BY <2>1, <2>2, <2>3, <2>4 DEF CalmInv
<1> QED BY <1>1, <1>2, <1>3, <1>4, <1>5, <1>6, <1>7

\* The child does not go away: the stop raises.
LEMMA ReapWaitExpiresInv == ASSUME IndInv, ReapWaitExpires PROVE IndInv'
<1>1. Types'
  BY DEF ReapWaitExpires, StopRaises, TypeOK, Spawned, Transaction, Steps
<1>2. TxInv'
  BY DEF ReapWaitExpires, StopRaises, TypeOK, Spawned, TxInv, StopSteps
<1>3. MonInv'
  BY DEF ReapWaitExpires, StopRaises, TypeOK, Spawned, MonInv
<1>4. KnownInv'
  BY DEF ReapWaitExpires, StopRaises, TypeOK, Spawned, KnownInv
<1>5. DownInv'
  BY DEF ReapWaitExpires, DownInv
<1>6. SignalInv'
  BY DEF ReapWaitExpires, StopRaises, TypeOK, Spawned, SignalInv, Recorded
<1>7. CalmInv'
  <2>1. Calm' => LatchInv'
    BY DEF ReapWaitExpires, StopRaises, TypeOK, Spawned, CalmInv, Calm, LatchInv
  <2>2. Calm' => EndedInv'
    BY DEF ReapWaitExpires, StopRaises, TypeOK, Spawned, Transaction, Monitor, CalmInv, Calm,
       EndedInv, Starting
  <2>3. Calm' => DurableInv'
    BY DEF ReapWaitExpires, StopRaises, TypeOK, Spawned, Transaction, CalmInv, Calm, DurableInv,
       Recorded
  <2>4. Calm' => OnceInv'
    BY DEF ReapWaitExpires, StopRaises, TypeOK, Spawned, Transaction, CalmInv, Calm, OnceInv,
       Answers
  <2> QED BY <2>1, <2>2, <2>3, <2>4 DEF CalmInv
<1> QED BY <1>1, <1>2, <1>3, <1>4, <1>5, <1>6, <1>7

\* The start of switch().
LEMMA SwitchStartInv == ASSUME IndInv, SwitchStart PROVE IndInv'
<1>1. Types'
  <2>1. tx' \in Transaction
    BY DEF SwitchStart, BeginStart, Refused, Occupied, Transaction, Steps
  <2>2. mon' \in [Gen -> Monitor]
    BY DEF SwitchStart, BeginStart, Refused
  <2>3. alive' \subseteq Spawned' /\ {store', child'} \subseteq Spawned' \cup {NoGen}
    BY DEF SwitchStart, BeginStart, TypeOK, Spawned
  <2>4. tx'.gen \in Spawned' \cup {NoGen} /\ lost' \subseteq Spawned' /\ started' \subseteq alive'
    BY DEF SwitchStart, BeginStart, TypeOK, Spawned
  <2>5. TypeOK'
    BY <2>1, <2>3, <2>4 DEF SwitchStart, BeginStart, Refused, Occupied, TypeOK
  <2> QED BY <2>1, <2>2, <2>5
<1>2. TxInv'
  BY DEF SwitchStart, BeginStart, Refused, Occupied, TypeOK, Spawned, TxInv, StopSteps
<1>3. MonInv'
  BY DEF SwitchStart, BeginStart, Refused, Occupied, TypeOK, Spawned, MonInv
<1>4. KnownInv'
  BY DEF SwitchStart, BeginStart, Refused, Occupied, TypeOK, Spawned, KnownInv
<1>5. DownInv'
  BY DEF SwitchStart, DownInv
<1>6. SignalInv'
  BY DEF SwitchStart, BeginStart, Refused, Occupied, TypeOK, Spawned, SignalInv, Recorded
<1>7. CalmInv'
  <2>1. Calm' => LatchInv'
    BY DEF SwitchStart, BeginStart, Refused, Occupied, TypeOK, Spawned, Transaction, CalmInv,
       Calm, LatchInv, TxInv
  <2>2. Calm' => EndedInv'
    BY DEF SwitchStart, BeginStart, Refused, Occupied, TypeOK, Spawned, Transaction, Monitor,
       CalmInv, Calm, EndedInv, Starting
  <2>3. Calm' => DurableInv'
    BY DEF SwitchStart, BeginStart, Refused, Occupied, TypeOK, Spawned, Transaction, CalmInv,
       Calm, DurableInv, Recorded
  <2>4. Calm' => OnceInv'
    BY DEF SwitchStart, BeginStart, Refused, Occupied, TypeOK, Spawned, Transaction, CalmInv,
       Calm, OnceInv, Answers
  <2> QED BY <2>1, <2>2, <2>3, <2>4 DEF CalmInv
<1> QED BY <1>1, <1>2, <1>3, <1>4, <1>5, <1>6, <1>7

\* The child has exited: _monitor reads the latches.
LEMMA MonReadInv == ASSUME NEW g \in Gen, IndInv, MonRead(g) PROVE IndInv'
<1>1. Types'
  BY DEF MonRead, TypeOK, Spawned, Monitor
<1>2. TxInv'
  BY DEF MonRead, TypeOK, Spawned, TxInv
<1>3. MonInv'
  BY DEF MonRead, TypeOK, Spawned, MonInv
<1>4. KnownInv'
  BY DEF MonRead, TypeOK, Spawned, KnownInv
<1>5. DownInv'
  BY DEF MonRead, DownInv
<1>6. SignalInv'
  BY DEF MonRead, TypeOK, Spawned, SignalInv, Recorded
<1>7. CalmInv'
  <2>1. Calm' => LatchInv'
    BY DEF MonRead, TypeOK, Spawned, CalmInv, Calm, LatchInv
  <2>2. Calm' => EndedInv'
    BY DEF MonRead, TypeOK, Spawned, Transaction, Monitor, CalmInv, Calm, EndedInv, Starting,
       MonInv
  <2>3. Calm' => DurableInv'
    BY DEF MonRead, TypeOK, Spawned, Transaction, CalmInv, Calm, DurableInv, Recorded
  <2>4. Calm' => OnceInv'
    BY DEF MonRead, TypeOK, Spawned, Transaction, CalmInv, Calm, OnceInv, Answers
  <2> QED BY <2>1, <2>2, <2>3, <2>4 DEF CalmInv
<1> QED BY <1>1, <1>2, <1>3, <1>4, <1>5, <1>6, <1>7

\* The crash receipt, unless a stop has written one.
LEMMA MonAccountInv == ASSUME NEW g \in Gen, IndInv, MonAccount(g) PROVE IndInv'
<1>0. /\ mon' \in [Gen -> Monitor] /\ mon'[g].step = "forget" /\ mon'[g].cur = mon[g].cur
      /\ \A h \in Gen : h # g => mon'[h] = mon[h]
  BY DEF MonAccount, Monitor
<1>1. Types'
  <2>1. tx' \in Transaction
    BY <1>0 DEF MonAccount
  <2>2. mon' \in [Gen -> Monitor]
    BY <1>0 DEF MonAccount
  <2>3. alive' \subseteq Spawned' /\ {store', child'} \subseteq Spawned' \cup {NoGen}
    BY <1>0 DEF MonAccount, TypeOK, Spawned
  <2>4. tx'.gen \in Spawned' \cup {NoGen} /\ lost' \subseteq Spawned' /\ started' \subseteq alive'
    BY <1>0 DEF MonAccount, TypeOK, Spawned
  <2>5. TypeOK'
    BY <1>0, <2>1, <2>3, <2>4 DEF MonAccount, PersistReceipt, TypeOK, Kinds
  <2> QED BY <2>1, <2>2, <2>5
<1>2. TxInv'
  BY <1>0 DEF MonAccount, PersistReceipt, TypeOK, Spawned, TxInv
<1>3. MonInv'
  BY <1>0 DEF MonAccount, PersistReceipt, TypeOK, Spawned, MonInv
<1>4. KnownInv'
  BY <1>0 DEF MonAccount, PersistReceipt, TypeOK, Spawned, KnownInv
<1>5. DownInv'
  BY <1>0 DEF MonAccount, DownInv
<1>6. SignalInv'
  <2>1. outbox \subseteq outbox' /\ UNCHANGED <<sig, tx>>
    BY DEF MonAccount, PersistReceipt
  <2> QED BY <2>1 DEF SignalInv, Recorded
<1>7. CalmInv'
  <2>1. /\ outbox' = IF g \in durable THEN outbox ELSE outbox \cup {<<g, "crash">>}
        /\ durable' = durable \cup {g} /\ g \notin alive /\ "crash" \in Kinds
        /\ UNCHANGED <<faults, tx, alive, sig>>
    BY DEF MonAccount, PersistReceipt, MonInv, Kinds
  <2>2. Calm' => LatchInv'
    BY DEF MonAccount, CalmInv, Calm, LatchInv
  <2>3. Calm' => EndedInv'
    BY <1>0 DEF MonAccount, TypeOK, Transaction, Spawned, CalmInv, Calm, EndedInv, Starting
  <2>4. Calm' => DurableInv'
    <3> SUFFICES ASSUME Calm, NEW h \in Gen
                 PROVE  /\ h \in durable' => Recorded(h)'
                        /\ \A k \in Kinds : <<h, k>> \in outbox' => h \in durable'
      BY <2>1 DEF Calm, DurableInv
    <3> QED BY <2>1 DEF CalmInv, DurableInv, Recorded
  <2>5. Calm' => OnceInv'
    <3> SUFFICES ASSUME Calm, NEW h \in Gen
                 PROVE  /\ h \in durable' /\ Answers(h)' => tx.gen = h /\ tx.step \in {"signal", "term"}
                        /\ \A k, l \in Kinds \ {"degraded"} :
                               <<h, k>> \in outbox' /\ <<h, l>> \in outbox' => k = l
      BY <2>1 DEF Calm, OnceInv
    <3>1. h \in durable' /\ Answers(h)' => tx.gen = h /\ tx.step \in {"signal", "term"}
      BY <2>1 DEF Answers, CalmInv, OnceInv
    <3>2. g \notin durable => \A l \in Kinds : <<g, l>> \notin outbox
      BY DEF CalmInv, DurableInv
    <3>3. \A k, l \in Kinds \ {"degraded"} :
              <<h, k>> \in outbox' /\ <<h, l>> \in outbox' => k = l
      BY <2>1, <3>2 DEF CalmInv, OnceInv
    <3> QED BY <3>1, <3>3
  <2> QED BY <2>2, <2>3, <2>4, <2>5 DEF CalmInv
<1> QED BY <1>1, <1>2, <1>3, <1>4, <1>5, <1>6, <1>7

\* The crash receipt cannot be written: auto-restart is latched off.
LEMMA MonAccountFailsInv == ASSUME NEW g \in Gen, IndInv, MonAccountFails(g) PROVE IndInv'
<1>0. /\ mon' \in [Gen -> Monitor] /\ mon'[g].step = "forget" /\ mon'[g].cur = mon[g].cur
      /\ \A h \in Gen : h # g => mon'[h] = mon[h]
  BY DEF MonAccountFails, Monitor
<1>1. Types'
  <2>1. tx' \in Transaction
    BY <1>0 DEF MonAccountFails
  <2>2. mon' \in [Gen -> Monitor]
    BY <1>0
  <2>3. alive' \subseteq Spawned' /\ {store', child'} \subseteq Spawned' \cup {NoGen}
    BY <1>0 DEF MonAccountFails, TypeOK, Spawned
  <2>4. tx'.gen \in Spawned' \cup {NoGen} /\ lost' \subseteq Spawned' /\ started' \subseteq alive'
    BY <1>0 DEF MonAccountFails, TypeOK, Spawned
  <2>5. TypeOK'
    BY <1>0, <2>1, <2>3, <2>4 DEF MonAccountFails, TypeOK
  <2> QED BY <2>1, <2>2, <2>5
<1>2. TxInv'
  BY <1>0 DEF MonAccountFails, TypeOK, Spawned, TxInv
<1>3. MonInv'
  BY <1>0 DEF MonAccountFails, TypeOK, Spawned, MonInv
<1>4. KnownInv'
  BY <1>0 DEF MonAccountFails, TypeOK, Spawned, KnownInv
<1>5. DownInv'
  BY <1>0 DEF MonAccountFails, DownInv
<1>6. SignalInv'
  BY <1>0 DEF MonAccountFails, TypeOK, Spawned, SignalInv, Recorded
<1>7. CalmInv'
  <2>1. Calm' => LatchInv'
    BY <1>0 DEF MonAccountFails, TypeOK, Spawned, Calm
  <2>2. Calm' => EndedInv'
    BY <1>0 DEF MonAccountFails, TypeOK, Spawned, Transaction, Monitor, Calm
  <2>3. Calm' => DurableInv'
    BY <1>0 DEF MonAccountFails, TypeOK, Calm
  <2>4. Calm' => OnceInv'
    BY <1>0 DEF MonAccountFails, TypeOK, Spawned, Calm
  <2> QED BY <2>1, <2>2, <2>3, <2>4 DEF CalmInv
<1> QED BY <1>1, <1>2, <1>3, <1>4, <1>5, <1>6, <1>7

\* _reap: the block that forgets the child.
LEMMA MonForgetInv == ASSUME NEW g \in Gen, IndInv, MonForget(g) PROVE IndInv'
<1>0. /\ mon' \in [Gen -> Monitor] /\ mon'[g].step = "clear"
      /\ \A h \in Gen : h # g => mon'[h] = mon[h]
  <2>1. \A b \in BOOLEAN : [mon[g] EXCEPT !.step = "clear", !.cur = b] \in Monitor
    <3>1. mon[g] \in Monitor
      OBVIOUS
    <3> QED BY <3>1 DEF Monitor
  <2>2. (child = g) \in BOOLEAN
    OBVIOUS
  <2> DEFINE m == [mon[g] EXCEPT !.step = "clear", !.cur = (child = g)]
  <2>3. m \in Monitor
    BY <2>1, <2>2, Zenon
  <2>4. m.step = "clear" /\ mon' = [mon EXCEPT ![g] = m]
    BY DEF MonForget
  <2> QED BY <2>3, <2>4
<1>1. Types'
  <2>1. tx' \in Transaction
    BY <1>0 DEF MonForget
  <2>2. mon' \in [Gen -> Monitor]
    BY <1>0 
  <2>3. alive' \subseteq Spawned' /\ {store', child'} \subseteq Spawned' \cup {NoGen}
    BY <1>0 DEF MonForget, TypeOK, Spawned
  <2>4. tx'.gen \in Spawned' \cup {NoGen} /\ lost' \subseteq Spawned' /\ started' \subseteq alive'
    BY <1>0 DEF MonForget, TypeOK, Spawned
  <2>5. TypeOK'
    BY <1>0, <2>1, <2>3, <2>4 DEF MonForget, TypeOK
  <2> QED BY <2>1, <2>2, <2>5
<1>2. TxInv'
  BY <1>0 DEF MonForget, TxInv, Spawned
<1>3. MonInv'
  BY <1>0 DEF MonForget, TypeOK, Spawned, MonInv
<1>4. KnownInv'
  BY <1>0 DEF MonForget, TypeOK, Spawned, KnownInv, MonInv
<1>5. DownInv'
  BY <1>0 DEF MonForget, DownInv
<1>6. SignalInv'
  BY <1>0 DEF MonForget, TypeOK, Spawned, SignalInv, Recorded
<1>7. CalmInv'
  <2>1. Calm' => LatchInv'
    BY <1>0 DEF MonForget, TypeOK, Spawned, CalmInv, Calm, LatchInv
  <2>2. Calm' => EndedInv'
    BY <1>0 DEF MonForget, TypeOK, Spawned, Transaction, Monitor, CalmInv, Calm, EndedInv,
       Starting
  <2>3. Calm' => DurableInv'
    BY <1>0 DEF MonForget, TypeOK, Spawned, Transaction, CalmInv, Calm, DurableInv, Recorded
  <2>4. Calm' => OnceInv'
    BY <1>0 DEF MonForget, TypeOK, Spawned, Transaction, CalmInv, Calm, OnceInv, Answers
  <2> QED BY <2>1, <2>2, <2>3, <2>4 DEF CalmInv
<1> QED BY <1>1, <1>2, <1>3, <1>4, <1>5, <1>6, <1>7

\* _reap: the pidfile is cleared and the reaped event set.
LEMMA MonClearInv == ASSUME NEW g \in Gen, IndInv, MonClear(g) PROVE IndInv'
<1>0. /\ mon' \in [Gen -> Monitor] /\ mon'[g].step = "restart" /\ mon'[g].cur = mon[g].cur
      /\ \A h \in Gen : h # g => mon'[h] = mon[h]
  BY DEF MonClear, Monitor
<1>1. Types'
  <2>1. tx' \in Transaction
    BY <1>0 DEF MonClear
  <2>2. mon' \in [Gen -> Monitor]
    BY <1>0
  <2>3. alive' \subseteq Spawned' /\ {store', child'} \subseteq Spawned' \cup {NoGen}
    BY <1>0 DEF MonClear, TypeOK, Spawned
  <2>4. tx'.gen \in Spawned' \cup {NoGen} /\ lost' \subseteq Spawned' /\ started' \subseteq alive'
    BY <1>0 DEF MonClear, TypeOK, Spawned
  <2>5. TypeOK'
    BY <1>0, <2>1, <2>3, <2>4 DEF MonClear, TypeOK
  <2> QED BY <2>1, <2>2, <2>5
<1>2. TxInv'
  BY <1>0 DEF MonClear, TypeOK, Spawned, TxInv
<1>3. MonInv'
  BY <1>0 DEF MonClear, TypeOK, Spawned, MonInv
<1>4. KnownInv'
  BY <1>0 DEF MonClear, TypeOK, Spawned, KnownInv
<1>5. DownInv'
  BY <1>0 DEF MonClear, DownInv
<1>6. SignalInv'
  BY <1>0 DEF MonClear, TypeOK, Spawned, SignalInv, Recorded
<1>7. CalmInv'
  <2>1. Calm' => LatchInv'
    BY <1>0 DEF MonClear, TypeOK, Spawned, CalmInv, Calm, LatchInv
  <2>2. Calm' => EndedInv'
    BY <1>0 DEF MonClear, TypeOK, Spawned, Transaction, Monitor, CalmInv, Calm, EndedInv, Starting
  <2>3. Calm' => DurableInv'
    BY <1>0 DEF MonClear, TypeOK, Spawned, Transaction, CalmInv, Calm, DurableInv, Recorded
  <2>4. Calm' => OnceInv'
    BY <1>0 DEF MonClear, TypeOK, Spawned, Transaction, CalmInv, Calm, OnceInv, Answers
  <2> QED BY <2>1, <2>2, <2>3, <2>4 DEF CalmInv
<1> QED BY <1>1, <1>2, <1>3, <1>4, <1>5, <1>6, <1>7

\* _reap: an unexpected exit may queue a restart.
LEMMA MonRestartInv == ASSUME NEW g \in Gen, IndInv, MonRestart(g) PROVE IndInv'
<1>1. Types'
  BY DEF MonRestart, TypeOK, Spawned, Monitor
<1>2. TxInv'
  BY DEF MonRestart, TypeOK, Spawned, TxInv
<1>3. MonInv'
  BY DEF MonRestart, TypeOK, Spawned, MonInv
<1>4. KnownInv'
  BY DEF MonRestart, TypeOK, Spawned, KnownInv
<1>5. DownInv'
  BY DEF MonRestart, DownInv
<1>6. SignalInv'
  BY DEF MonRestart, TypeOK, Spawned, SignalInv, Recorded
<1>7. CalmInv'
  <2>1. Calm' => LatchInv'
    BY DEF MonRestart, TypeOK, Spawned, CalmInv, Calm, LatchInv
  <2>2. Calm' => EndedInv'
    BY DEF MonRestart, TypeOK, Spawned, Transaction, Monitor, CalmInv, Calm, EndedInv, Starting
  <2>3. Calm' => DurableInv'
    BY DEF MonRestart, TypeOK, Spawned, Transaction, CalmInv, Calm, DurableInv, Recorded
  <2>4. Calm' => OnceInv'
    BY DEF MonRestart, TypeOK, Spawned, Transaction, CalmInv, Calm, OnceInv, Answers
  <2> QED BY <2>1, <2>2, <2>3, <2>4 DEF CalmInv
<1> QED BY <1>1, <1>2, <1>3, <1>4, <1>5, <1>6, <1>7

\* An engine exits or is killed.
LEMMA EngineDiesInv == ASSUME NEW g \in Gen, IndInv, EngineDies(g) PROVE IndInv'
<1>1. Types'
  BY DEF EngineDies, TypeOK, Spawned
<1>2. TxInv'
  BY DEF EngineDies, TypeOK, Spawned, TxInv
<1>3. MonInv'
  BY DEF EngineDies, TypeOK, Spawned, MonInv
<1>4. KnownInv'
  BY DEF EngineDies, TypeOK, Spawned, KnownInv
<1>5. DownInv'
  BY DEF EngineDies, DownInv, Calm
<1>6. SignalInv'
  BY DEF EngineDies, TypeOK, Spawned, Transaction, SignalInv, Recorded, Kinds
<1>7. CalmInv'
  <2>1. Calm' => LatchInv'
    BY DEF EngineDies, TypeOK, Spawned, CalmInv, Calm, LatchInv
  <2>2. Calm' => EndedInv'
    BY DEF EngineDies, TypeOK, Spawned, Transaction, Monitor, CalmInv, Calm, EndedInv, Starting
  <2>3. Calm' => DurableInv'
    BY DEF EngineDies, TypeOK, Spawned, Transaction, CalmInv, Calm, DurableInv, Recorded
  <2>4. Calm' => OnceInv'
    BY DEF EngineDies, TypeOK, Spawned, Transaction, CalmInv, Calm, OnceInv, Answers
  <2> QED BY <2>1, <2>2, <2>3, <2>4 DEF CalmInv
<1> QED BY <1>1, <1>2, <1>3, <1>4, <1>5, <1>6, <1>7

\* The daemon is gone, with all its memory.
LEMMA DaemonExitInv == ASSUME IndInv, DaemonExit PROVE IndInv'
<1>1. Types'
  <2>1. tx' \in Transaction
    BY DEF DaemonExit, Transaction, Steps
  <2>2. mon' \in [Gen -> Monitor]
    BY DEF DaemonExit, Monitor
  <2>3. alive' \subseteq Spawned' /\ {store', child'} \subseteq Spawned' \cup {NoGen}
    BY DEF DaemonExit, TypeOK, Spawned
  <2>4. tx'.gen \in Spawned' \cup {NoGen} /\ lost' \subseteq Spawned' /\ started' \subseteq alive'
    BY DEF DaemonExit, TypeOK, Spawned
  <2>5. TypeOK'
    BY <2>1, <2>3, <2>4 DEF DaemonExit, TypeOK
  <2> QED BY <2>1, <2>2, <2>5
<1>2. TxInv'
  BY DEF DaemonExit, TypeOK, Spawned, TxInv, StopSteps
<1>3. MonInv'
  BY DEF DaemonExit, TypeOK, MonInv
<1>4. KnownInv'
  BY DEF DaemonExit, TypeOK, Spawned, KnownInv
<1>5. DownInv'
  BY DEF DaemonExit, DownInv, Calm
<1>6. SignalInv'
  BY DEF DaemonExit, TypeOK, Spawned, SignalInv, Recorded
<1>7. CalmInv'
  <2>1. Calm' => LatchInv'
    BY DEF DaemonExit, TypeOK, Spawned, Calm
  <2>2. Calm' => EndedInv'
    BY DEF DaemonExit, TypeOK, Spawned, Transaction, Monitor, Calm
  <2>3. Calm' => DurableInv'
    BY DEF DaemonExit, TypeOK, Calm
  <2>4. Calm' => OnceInv'
    BY DEF DaemonExit, TypeOK, Spawned, Calm
  <2> QED BY <2>1, <2>2, <2>3, <2>4 DEF CalmInv
<1> QED BY <1>1, <1>2, <1>3, <1>4, <1>5, <1>6, <1>7

\* readopt().
LEMMA BootInv == ASSUME IndInv, Boot PROVE IndInv'
<1>0. /\ mon' \in [Gen -> Monitor]
      /\ Adoptable => store \in Spawned
      /\ \A h \in Gen : mon'[h].step = IF Adoptable /\ h = store THEN "wait" ELSE "none"
  <2>1. [NoMon EXCEPT !.step = "wait"] \in Monitor
    BY DEF Monitor
  <2>2. Adoptable => store \in Spawned
    BY DEF Adoptable, TypeOK
  <2>3. Adoptable => mon' = [mon EXCEPT ![store] = [NoMon EXCEPT !.step = "wait"]]
    BY DEF Boot
  <2>4. ~Adoptable => mon' = mon
    BY DEF Boot
  <2>5. \A h \in Gen : mon[h].step = "none"
    BY DEF Boot, DownInv
  <2>6. CASE Adoptable
    <3>1. store \in Gen /\ mon' = [mon EXCEPT ![store] = [NoMon EXCEPT !.step = "wait"]]
      BY <2>2, <2>3, <2>6 DEF Spawned
    <3> QED BY <2>1, <2>2, <2>5, <2>6, <3>1
  <2>7. CASE ~Adoptable
    BY <2>4, <2>5, <2>7
  <2> QED BY <2>6, <2>7
<1>1. Types'
  <2>1. tx' \in Transaction
    BY <1>0 DEF Boot
  <2>2. mon' \in [Gen -> Monitor]
    BY <1>0 
  <2>3. alive' \subseteq Spawned' /\ {store', child'} \subseteq Spawned' \cup {NoGen}
    BY <1>0 DEF Boot, TypeOK, Spawned
  <2>4. tx'.gen \in Spawned' \cup {NoGen} /\ lost' \subseteq Spawned' /\ started' \subseteq alive'
    BY <1>0 DEF Boot, TypeOK, Spawned
  <2>5. TypeOK'
    BY <1>0, <2>1, <2>3, <2>4 DEF Boot, Adoptable, TypeOK, Spawned
  <2> QED BY <2>1, <2>2, <2>5
<1>2. TxInv'
  BY <1>0 DEF Boot, Adoptable, TypeOK, Spawned, TxInv, DownInv
<1>3. MonInv'
  BY <1>0 DEF Boot, Adoptable, TypeOK, Spawned, MonInv
<1>4. KnownInv'
  BY <1>0 DEF Boot, Adoptable, TypeOK, Spawned, KnownInv
<1>5. DownInv'
  BY <1>0 DEF Boot, DownInv
<1>6. SignalInv'
  BY <1>0 DEF Boot, Adoptable, TypeOK, Spawned, SignalInv, Recorded
<1>7. CalmInv'
  BY DEF Boot, DownInv, Calm, CalmInv
<1> QED BY <1>1, <1>2, <1>3, <1>4, <1>5, <1>6, <1>7

\* __init__: no child, no thread, nothing written.
LEMMA InitInv == ASSUME Init PROVE IndInv
<1>1. tx \in Transaction /\ mon \in [Gen -> Monitor]
  BY DEF Init, Transaction, Monitor, Steps
<1>2. TypeOK
  BY DEF Init, TypeOK
<1>3. TxInv /\ MonInv /\ KnownInv /\ DownInv
  BY DEF Init, TxInv, MonInv, KnownInv, DownInv, StopSteps
<1>4. SignalInv /\ CalmInv
  BY DEF Init, SignalInv, CalmInv, LatchInv, EndedInv, DurableInv, OnceInv, Spawned
<1> QED BY <1>1, <1>2, <1>3, <1>4

\* A step that changes nothing.
LEMMA StutterInv == ASSUME IndInv, UNCHANGED vars PROVE IndInv'
<1> USE DEF vars, Spawned
<1>1. Types'
  BY DEF TypeOK
<1>2. TxInv' /\ MonInv' /\ KnownInv' /\ DownInv'
  BY DEF TxInv, MonInv, KnownInv, DownInv, Calm
<1>3. SignalInv' /\ CalmInv'
  BY DEF SignalInv, CalmInv, Calm, LatchInv, EndedInv, DurableInv, OnceInv, Recorded, Starting,
     Answers
<1> QED BY <1>1, <1>2, <1>3

\* The inductive invariant holds in every state of the manager: whatever calls, restart threads,
\* monitors, engine deaths and daemon exits interleave.
THEOREM Inductive == Spec => []IndInv
<1>1. IndInv /\ [Next]_vars => IndInv'
  <2> SUFFICES ASSUME IndInv, [Next]_vars PROVE IndInv'
    OBVIOUS
  <2>1. ASSUME NEW c \in Cfg, ClientStart(c) PROVE IndInv'
    BY <2>1, ClientStartInv
  <2>2. ASSUME NEW o \in StopOps, NEW force \in BOOLEAN, ClientStop(o[1], o[2], force) PROVE IndInv'
    BY <2>2, StopOpsFacts, BeginStopInv, NothingToStopInv
  <2>3. CASE TxStep
    BY <2>3, SpawnInv, SpawnFailsInv, PublishInv, PersistInv, PersistFailsInv, BeginWatchInv,
       PrepareInv, PrepareFailsInv, TerminateInv, GraceExpiresInv, StopReturnsInv,
       ReapWaitExpiresInv, SwitchStartInv DEF TxStep
  <2>4. ASSUME NEW g \in Gen, AutoStart(g) \/ MonStep(g) \/ EngineDies(g) PROVE IndInv'
    BY <2>4, AutoStartInv, MonReadInv, MonAccountInv, MonAccountFailsInv, MonForgetInv,
       MonClearInv, MonRestartInv, EngineDiesInv DEF MonStep
  <2>5. CASE DaemonExit
    BY <2>5, DaemonExitInv
  <2>6. CASE Boot
    BY <2>6, BootInv
  <2>7. CASE UNCHANGED vars
    BY <2>7, StutterInv
  <2> QED BY <2>1, <2>2, <2>3, <2>4, <2>5, <2>6, <2>7 DEF Next, Calls
<1> QED BY <1>1, InitInv, PTL DEF Spec

\* A set any two elements of which are equal has at most one.
LEMMA AtMostOne ==
    ASSUME NEW S, \A x, y \in S : x = y
    PROVE  Cardinality(S) <= 1
<1>1. CASE S = {}
  BY <1>1, FS_EmptySet
<1>2. ASSUME NEW x \in S PROVE Cardinality(S) = 1
  <2>1. S = {x}
    OBVIOUS
  <2> QED BY <2>1, FS_Singleton
<1> QED BY <1>1, <1>2

\* Every variable keeps its type.
THEOREM TypeCorrect == Spec => []TypeOK
BY Inductive, PTL

\* "Own exactly one ft serve child's lifecycle", for any number of engines, calls and exits.
THEOREM AtMostOneEngine == Spec => []OneEngine
<1>1. IndInv => OneEngine
  <2> SUFFICES ASSUME IndInv, NEW g \in alive \ lost, NEW h \in alive \ lost PROVE g = h
    BY AtMostOne DEF OneEngine
  <2> QED BY DEF KnownInv, TxInv, TypeOK, Spawned
<1> QED BY <1>1, Inductive, PTL

\* No engine is signalled before its receipt is durable.
THEOREM SignalsAreRecorded == Spec => []SignalledRecorded
<1>1. IndInv => SignalledRecorded
  BY DEF SignalInv, SignalledRecorded
<1> QED BY <1>1, Inductive, PTL

\* Without exits and failing writes a stop that returned stays in force until the next start call.
THEOREM StopsAreFinal == Spec => []StopIsFinal
<1>1. IndInv => StopIsFinal
  BY DEF StopIsFinal, CalmInv, LatchInv, KnownInv, DownInv, TypeOK, Spawned
<1> QED BY <1>1, Inductive, PTL

\* Without exits and failing writes every engine that ended has its totals in exactly one receipt.
THEOREM OneReceiptEach == Spec => []ReceiptsExact
<1>1. IndInv => ReceiptsExact
  <2> SUFFICES ASSUME IndInv, Calm PROVE ReceiptsExact
    BY DEF ReceiptsExact
  <2>1. ASSUME NEW g \in Spawned, g # child, ~Starting(g) PROVE Recorded(g)
    BY <2>1 DEF CalmInv, EndedInv, DurableInv, Spawned
  <2>2. ASSUME NEW g \in Gen PROVE Cardinality({k \in Kinds \ {"degraded"} : <<g, k>> \in outbox}) <= 1
    BY AtMostOne DEF CalmInv, OnceInv
  <2> QED BY <2>1, <2>2 DEF ReceiptsExact
<1> QED BY <1>1, Inductive, PTL
=============================================================================

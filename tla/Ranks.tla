-------------------------------- MODULE Ranks --------------------------------
(***************************************************************************)
(* How the tensor-parallel ranks of the scheduler receive their messages   *)
(* (scheduler/io.py).  Rank 0 reads the tokenizers' queue; it forwards the *)
(* message it blocked for as it is, then broadcasts how many more it read  *)
(* and forwards those.  Whether to block is decided by each rank on its    *)
(* own, from the work the messages so far have left it with; a rank that   *)
(* decides differently waits for a message that is not for it.             *)
(***************************************************************************)
EXTENDS Integers, Sequences, FiniteSets, SequencesExt, FiniteSetsExt

CONSTANTS
    Rank,      \* ranks
    Primary,   \* rank 0
    Message,   \* messages the tokenizers send
    Steps      \* iterations of work a message brings (0: refused, or an abort)

ASSUME RanksConstants == Primary \in Rank /\ Steps \in [Message -> Nat]

VARIABLES
    unsent,  \* messages still to come
    inbox,   \* the PULL queue of rank 0
    sub,     \* the SUB queue of each other rank
    count,   \* broadcasts each other rank has not received
    pc,      \* where each rank is in its iteration
    got,     \* pending_msgs
    more,    \* raw messages read (rank 0), messages still to be read (other ranks)
    work,    \* iterations until the rank's managers have nothing runnable
    log      \* history: the batch of every iteration

ranksVars == <<unsent, inbox, sub, count, pc, got, more, work, log>>

Other == Rank \ {Primary}

RanksInit ==
    /\ unsent = Message /\ inbox = <<>>
    /\ sub = [r \in Other |-> <<>>] /\ count = [r \in Other |-> <<>>]
    /\ pc = [r \in Rank |-> "start"] /\ got = [r \in Rank |-> <<>>]
    /\ more = [r \in Rank |-> IF r = Primary THEN <<>> ELSE 0]
    /\ work = [r \in Rank |-> 0] /\ log = [r \in Rank |-> <<>>]

Arrive ==
    /\ \E m \in unsent : unsent' = unsent \ {m} /\ inbox' = Append(inbox, m)
    /\ UNCHANGED <<sub, count, pc, got, more, work, log>>

\* What an iteration leaves of n iterations of work: one is done, its batch brings more.
WorkAfter(n, batch) == (IF n > 0 THEN n - 1 ELSE 0) + FoldSeq(LAMBDA m, k : Steps[m] + k, 0, batch)

\* The iteration the messages are for, processed.
Processed(r, batch) ==
    /\ log' = [log EXCEPT ![r] = Append(@, batch)]
    /\ work' = [work EXCEPT ![r] = WorkAfter(@, batch)]
    /\ got' = [got EXCEPT ![r] = <<>>] /\ pc' = [pc EXCEPT ![r] = "start"]

-----------------------------------------------------------------------------
(* _recv_msg_multi_rank0 *)

\* An idle primary blocks for a message and forwards it before it counts.
Block0 ==
    /\ pc[Primary] = "start" /\ work[Primary] = 0 /\ inbox # <<>>
    /\ inbox' = Tail(inbox) /\ got' = [got EXCEPT ![Primary] = <<Head(inbox)>>]
    /\ sub' = [r \in Other |-> Append(sub[r], Head(inbox))]
    /\ pc' = [pc EXCEPT ![Primary] = "count"]
    /\ UNCHANGED <<unsent, count, more, work, log>>

\* Mutant of Counted: the message it blocked for is counted again.
CountedAll(raws) == Len(raws) + Len(got[Primary])

\* Only what was read after the blocking receive is broadcast as the count.
Counted(raws) == Len(raws)

\* Everything that has arrived is read and its number broadcast.
Count0 ==
    /\ \/ pc[Primary] = "start" /\ work[Primary] > 0
       \/ pc[Primary] = "count"
    /\ more' = [more EXCEPT ![Primary] = inbox] /\ inbox' = <<>>
    /\ count' = [r \in Other |-> Append(count[r], Counted(inbox))]
    /\ pc' = [pc EXCEPT ![Primary] = "publish"]
    /\ UNCHANGED <<unsent, sub, got, work, log>>

\* The raw messages are forwarded and the iteration begins.
Publish0 ==
    /\ pc[Primary] = "publish"
    /\ sub' = [r \in Other |-> sub[r] \o more[Primary]]
    /\ more' = [more EXCEPT ![Primary] = <<>>]
    /\ Processed(Primary, got[Primary] \o more[Primary])
    /\ UNCHANGED <<unsent, inbox, count>>

-----------------------------------------------------------------------------
(* _recv_msg_multi_rank1 *)

\* Mutant of MustBlock: a rank blocks only if nothing is waiting for it.
MustBlockIfEmpty(r) == work[r] = 0 /\ sub[r] = <<>>

MustBlock(r) == work[r] = 0

Block1(r) ==
    /\ pc[r] = "start" /\ MustBlock(r) /\ sub[r] # <<>>
    /\ got' = [got EXCEPT ![r] = <<Head(sub[r])>>] /\ sub' = [sub EXCEPT ![r] = Tail(@)]
    /\ pc' = [pc EXCEPT ![r] = "count"]
    /\ UNCHANGED <<unsent, inbox, count, more, work, log>>

\* The count arrives (the broadcast blocks until it does).
Count1(r) ==
    /\ \/ pc[r] = "start" /\ ~MustBlock(r)
       \/ pc[r] = "count"
    /\ count[r] # <<>>
    /\ more' = [more EXCEPT ![r] = Head(count[r])] /\ count' = [count EXCEPT ![r] = Tail(@)]
    /\ pc' = [pc EXCEPT ![r] = "get"]
    /\ UNCHANGED <<unsent, inbox, sub, got, work, log>>

Get1(r) ==
    /\ pc[r] = "get" /\ more[r] > 0 /\ sub[r] # <<>>
    /\ got' = [got EXCEPT ![r] = Append(@, Head(sub[r]))] /\ sub' = [sub EXCEPT ![r] = Tail(@)]
    /\ more' = [more EXCEPT ![r] = @ - 1]
    /\ UNCHANGED <<unsent, inbox, count, pc, work, log>>

\* Mutant of Enough: a rank goes on with whatever has reached it.
EnoughHere(r) == more[r] = 0 \/ sub[r] = <<>>

Enough(r) == more[r] = 0

Process1(r) ==
    /\ pc[r] = "get" /\ Enough(r)
    /\ Processed(r, got[r])
    /\ UNCHANGED <<unsent, inbox, sub, count, more>>

Step0 == Block0 \/ Count0 \/ Publish0
Step1(r) == Block1(r) \/ Count1(r) \/ Get1(r) \/ Process1(r)

RanksNext == Arrive \/ Step0 \/ \E r \in Other : Step1(r)

\* Every rank is a process that keeps stepping while it is not blocked.
RanksSpec ==
    RanksInit /\ [][RanksNext]_ranksVars /\ WF_ranksVars(Step0)
              /\ \A r \in Other : WF_ranksVars(Step1(r))

-----------------------------------------------------------------------------
(* Properties *)

\* The primary's batch is decided when it counts: a rank with nothing more to read may go on
\* before the primary has forwarded the rest to the others.
Decided ==
    [log EXCEPT ![Primary] = IF pc[Primary] = "publish"
                             THEN Append(@, got[Primary] \o more[Primary]) ELSE @]

\* The ranks' receive implements Lockstep: rank 0 decides a batch, every other rank takes the
\* same messages in the same order in the same iteration, although each decides for itself
\* whether to block (io.py: "ensure all ranks have the same number of raw messages").
Agreement == INSTANCE Lockstep WITH log <- Decided
ImplementsLockstep == Agreement!LockstepSpec

\* No rank is left waiting for another: every message sent is processed by every rank.
EveryoneProcesses ==
    \A m \in Message : m \notin unsent ~>
        \A r \in Rank : \E i \in DOMAIN log[r] : m \in ToSet(log[r][i])

\* Nothing is left over for a later iteration to misread: a rank that has caught up with the
\* primary finds its two channels empty, but for the message the primary blocked for.
CaughtUpMeansEmpty ==
    \A r \in Other :
        pc[Primary] # "publish" /\ pc[r] = "start" /\ Len(log[r]) = Len(log[Primary])
            => count[r] = <<>> /\ sub[r] = got[Primary]
==============================================================================

------------------------------- MODULE Lockstep -------------------------------
(***************************************************************************)
(* What tensor-parallel ranks must agree on: the batch of messages each    *)
(* one processes in its i-th iteration.  The primary decides it, every     *)
(* other rank follows with exactly the same batch, later.                  *)
(***************************************************************************)
EXTENDS Naturals, Sequences, SequencesExt

CONSTANTS Rank, Primary, Message

VARIABLE log   \* the batches each rank has taken from receive_msg

LeadInit == log = [r \in Rank |-> <<>>]

Taken == UNION {ToSet(log[Primary][i]) : i \in DOMAIN log[Primary]}

\* The batch is made of messages that were in no batch before.
Lead(r) ==
    /\ r = Primary /\ log'[r] # <<>>
    /\ LET batch == Last(log'[r]) IN
          /\ batch \in Seq(Message) /\ IsInjective(batch) /\ ToSet(batch) \cap Taken = {}
          /\ log' = [log EXCEPT ![r] = Append(@, batch)]

Follow(r) ==
    /\ r # Primary /\ Len(log[r]) < Len(log[Primary])
    /\ log' = [log EXCEPT ![r] = Append(@, log[Primary][Len(@) + 1])]

LockstepSpec == LeadInit /\ [][\E r \in Rank : Lead(r) \/ Follow(r)]_log
===============================================================================

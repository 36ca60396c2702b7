--------------------------- MODULE FrontendProofs ---------------------------
(* The API server's accounting and its rebuild gate, and the contract of the scheduler behind  *)
(* it, for any number of requests, tokenizer workers, rebuild calls and faults.                *)
EXTENDS Frontend, FiniteSetTheorems, DataLemmas, TLAPS

\* Messages and replies about one request, and about rebuilds
MsgOf(u) == [t : {"gen", "abort"}, id : {u}]
GenOf(u) == [t : {"gen"}, id : {u}]
CountsOf(u) == [t : {"token", "last"}, id : {u}]
FinishesOf(u) == [t : {"last", "error"}, id : {u}]
Rebuilds == [t : {"rebuild"}, id : Rebuild]
Results == [t : {"rebuild"}, id : Rebuild, ok : BOOLEAN]

\* Messages of the set T in one sequence and in all queues
Absent(s, T) == \A i \in 1 .. Len(s) : s[i] \notin T
Once(s, T)   == \A i, j \in 1 .. Len(s) : s[i] \in T /\ s[j] \in T => i = j
Nowhere(q, T) == \A w \in Worker : Absent(q[w], T)
AtMostOne(q, T) ==
    /\ \A w \in Worker : Once(q[w], T)
    /\ \A w, v \in Worker : w # v => Absent(q[w], T) \/ Absent(q[v], T)
Ordered(s, F, C) == \A i, j \in 1 .. Len(s) : i < j /\ s[i] \in F => s[j] \notin C
Count(s, T)  == Cardinality({i \in 1 .. Len(s) : s[i] \in T})

\* What TypeOK says and the values of the variables it does not name
Types ==
    /\ TypeOK
    /\ loop \in {Free} \cup [op : {"rebuild"}, id : Rebuild]
                       \cup [op : {"resolve"}, gate : {"serving", "failed"}]
    /\ backend \in [alive : BOOLEAN, running : SUBSET User, over : SUBSET User,
                    tombs : SUBSET User, crashed : BOOLEAN]

\* A reply that ends a request is behind every token of it, and the scheduler sent it.
InOrder(u) ==
    /\ Ordered(out, FinishesOf(u), CountsOf(u))
    /\ u \in backend.over \/ Absent(out, FinishesOf(u))

\* A request is sent once; it samples nothing before it runs, and it does not run once it ended.
Life(u) ==
    /\ client[u] = "new" => /\ u \notin inflight \cup refused \cup backend.running \cup backend.over
                            /\ \A by \in {"client", "stop"} : <<u, by>> \notin abortTask
                            /\ Nowhere(queue, MsgOf(u))
    /\ AtMostOne(queue, GenOf(u))
    /\ ~Nowhere(queue, GenOf(u)) => /\ u \notin refused \cup backend.running /\ sampled[u] = 0
                                    /\ u \in backend.over => u \in backend.tombs
    /\ u \in refused => u \notin backend.running /\ sampled[u] = 0
    /\ u \notin backend.running \cup backend.over => sampled[u] = 0
    /\ u \in backend.running => u \notin backend.over /\ sampled[u] < MaxTokens

\* What is not active any more is counted and will sample nothing.
Ended(u) ==
    client[u] # "new" /\ u \notin inflight =>
        /\ u \notin backend.running /\ Absent(out, CountsOf(u))
        /\ Nowhere(queue, GenOf(u)) \/ u \in backend.tombs

Counted(u) == sampled[u] = counted[u] + Count(out, CountsOf(u))

UserInv == \A u \in User : InOrder(u) /\ Life(u) /\ Ended(u) /\ Counted(u)

SealInv ==
    sealed.done => \A u \in sealed.users :
                       /\ u \in User /\ client[u] # "new" /\ u \notin inflight
                       /\ sampled[u] = sealed.totals[u]

\* The rebuild under way is in one place: dispatched, in a queue, answered, or being resolved.
Unsent == \A r \in Rebuild : call[r] # "sending"
Idle == Unsent /\ Nowhere(queue, Rebuilds) /\ Absent(out, Results)
Single ==
    /\ \A r, s \in Rebuild : call[r] = "sending" /\ call[s] = "sending" => r = s
    /\ AtMostOne(queue, Rebuilds) /\ Once(out, Results)
    /\ loop # Free => Idle
    /\ Unsent \/ (Nowhere(queue, Rebuilds) /\ Absent(out, Results))
    /\ Nowhere(queue, Rebuilds) \/ Absent(out, Results)

GateInv ==
    /\ Single
    /\ gate = "serving" => Idle /\ loop.op # "resolve"
    /\ sup \in {"load", "opening"} =>
           gate \in {"loading", "stopping"} /\ loop = Free /\ Idle

IndInv == Types /\ UserInv /\ SealInv /\ GateInv

-----------------------------------------------------------------------------
(* Sequences *)

\* Where the elements are after an append
LEMMA AppendAt ==
    ASSUME NEW S, NEW s \in Seq(S), NEW m \in S
    PROVE  /\ Append(s, m) \in Seq(S) /\ Len(s) \in Nat /\ Len(Append(s, m)) = Len(s) + 1
           /\ Append(s, m)[Len(s) + 1] = m
           /\ \A i \in 1 .. Len(s) : Append(s, m)[i] = s[i] /\ i # Len(s) + 1
           /\ 1 .. Len(Append(s, m)) = (1 .. Len(s)) \cup {Len(s) + 1}
OBVIOUS

\* What appending does to the messages of a set, to their order before others and their count
LEMMA AppendFacts ==
    ASSUME NEW S, NEW s \in Seq(S), NEW m \in S, NEW T
    PROVE  /\ Absent(Append(s, m), T) <=> Absent(s, T) /\ m \notin T
           /\ Once(s, T) /\ (m \notin T \/ Absent(s, T)) => Once(Append(s, m), T)
           /\ \A C : Ordered(s, T, C) /\ (m \notin C \/ Absent(s, T)) => Ordered(Append(s, m), T, C)
           /\ Count(Append(s, m), T) = IF m \in T THEN Count(s, T) + 1 ELSE Count(s, T)
           /\ Count(s, T) \in Nat
<1> DEFINE a == Append(s, m)
           n == Len(s) + 1
<1>1. /\ Len(s) \in Nat /\ n \in Nat /\ 1 .. Len(a) = (1 .. Len(s)) \cup {n} /\ a[n] = m
      /\ \A i \in 1 .. Len(s) : a[i] = s[i] /\ i < n /\ i \in Int
  BY AppendAt
<1> HIDE DEF a, n
<1>2. Absent(a, T) <=> Absent(s, T) /\ m \notin T
  BY <1>1 DEF Absent
<1>3. Once(s, T) /\ (m \notin T \/ Absent(s, T)) => Once(a, T)
  BY <1>1 DEF Once, Absent
<1>4. ASSUME NEW C, Ordered(s, T, C), m \notin C \/ Absent(s, T) PROVE Ordered(a, T, C)
  BY <1>1, <1>4 DEF Ordered, Absent
<1> DEFINE H == {i \in 1 .. Len(s) : s[i] \in T}
           G == {i \in 1 .. Len(a) : a[i] \in T}
<1>5. IsFiniteSet(H) /\ Cardinality(H) \in Nat /\ n \notin H
  <2>1. IsFiniteSet(1 .. Len(s)) /\ H \in SUBSET (1 .. Len(s))
    BY <1>1, FS_Interval
  <2>2. IsFiniteSet(H)
    BY <2>1, FS_Subset
  <2> QED BY <1>1, <2>2, FS_CardinalityType
<1>6. G = IF m \in T THEN H \cup {n} ELSE H
  BY <1>1
<1>7. Cardinality(G) = IF m \in T THEN Cardinality(H) + 1 ELSE Cardinality(H)
  <2> HIDE DEF G, H
  <2> QED BY <1>5, <1>6, FS_AddElement
<1> QED BY <1>2, <1>3, <1>4, <1>5, <1>7 DEF Count, a

\* ... and without the head
LEMMA TailAt ==
    ASSUME NEW S, NEW s \in Seq(S), s # <<>>
    PROVE  /\ Tail(s) \in Seq(S) /\ Len(s) \in Nat \ {0} /\ Len(Tail(s)) = Len(s) - 1
           /\ Head(s) = s[1] /\ Head(s) \in S
           /\ \A i \in 1 .. Len(Tail(s)) : Tail(s)[i] = s[i + 1]
OBVIOUS

\* What taking the head off does to them
LEMMA TailFacts ==
    ASSUME NEW S, NEW s \in Seq(S), s # <<>>, NEW T
    PROVE  /\ Absent(s, T) <=> Absent(Tail(s), T) /\ Head(s) \notin T
           /\ Once(s, T) => Once(Tail(s), T)
           /\ Once(s, T) /\ Head(s) \in T => Absent(Tail(s), T)
           /\ \A C : Ordered(s, T, C) => Ordered(Tail(s), T, C)
           /\ \A C : Ordered(s, T, C) /\ Head(s) \in T => Absent(Tail(s), C)
           /\ Count(Tail(s), T) = IF Head(s) \in T THEN Count(s, T) - 1 ELSE Count(s, T)
           /\ Count(s, T) \in Nat
<1> DEFINE t == Tail(s)
<1>1. /\ Len(s) \in Nat \ {0} /\ Len(t) = Len(s) - 1 /\ Head(s) = s[1]
      /\ \A i \in 1 .. Len(t) : t[i] = s[i + 1]
  BY TailAt
<1> HIDE DEF t
<1>2. \A i \in 1 .. Len(t) : i + 1 \in 1 .. Len(s) /\ i + 1 # 1 /\ 1 < i + 1
  BY <1>1
<1>3. \A j \in 1 .. Len(s) : j # 1 => j - 1 \in 1 .. Len(t) /\ t[j - 1] = s[j]
  <2> SUFFICES ASSUME NEW j \in 1 .. Len(s), j # 1 PROVE j - 1 \in 1 .. Len(t) /\ t[j - 1] = s[j]
    OBVIOUS
  <2>1. j - 1 \in 1 .. Len(t) /\ (j - 1) + 1 = j
    BY <1>1
  <2> QED BY <1>1, <2>1
<1>4. Absent(s, T) <=> Absent(t, T) /\ Head(s) \notin T
  <2>1. 1 \in 1 .. Len(s)
    BY <1>1
  <2>2. Absent(s, T) => Absent(t, T) /\ Head(s) \notin T
    BY <1>1, <1>2, <2>1 DEF Absent
  <2>3. Absent(t, T) /\ Head(s) \notin T => Absent(s, T)
    BY <1>1, <1>3 DEF Absent
  <2> QED BY <2>2, <2>3
<1>5. Once(s, T) => Once(t, T)
  <2> SUFFICES ASSUME Once(s, T), NEW i \in 1 .. Len(t), NEW j \in 1 .. Len(t),
                      t[i] \in T, t[j] \in T
               PROVE  i = j
    BY DEF Once
  <2>1. i + 1 = j + 1
    BY <1>1, <1>2 DEF Once
  <2> QED BY <2>1
<1>6. Once(s, T) /\ Head(s) \in T => Absent(t, T)
  <2> SUFFICES ASSUME Once(s, T), Head(s) \in T, NEW i \in 1 .. Len(t), t[i] \in T PROVE FALSE
    BY DEF Absent
  <2>1. 1 \in 1 .. Len(s)
    BY <1>1
  <2> QED BY <1>1, <1>2, <2>1 DEF Once
<1>7. ASSUME NEW C, Ordered(s, T, C) PROVE Ordered(t, T, C) /\ (Head(s) \in T => Absent(t, C))
  <2>1. \A i, j \in 1 .. Len(t) : i < j => i + 1 < j + 1
    OBVIOUS
  <2>2. Ordered(t, T, C)
    BY <1>1, <1>2, <1>7, <2>1 DEF Ordered
  <2>3. 1 \in 1 .. Len(s)
    BY <1>1
  <2> QED BY <1>1, <1>2, <1>7, <2>2, <2>3 DEF Ordered, Absent
<1> DEFINE H == {i \in 1 .. Len(s) : s[i] \in T}
           G == {i \in 1 .. Len(t) : t[i] \in T}
<1>8. IsFiniteSet(H) /\ Cardinality(H) \in Nat /\ (Head(s) \in T <=> 1 \in H)
  <2>1. IsFiniteSet(1 .. Len(s)) /\ H \in SUBSET (1 .. Len(s))
    BY <1>1, FS_Interval
  <2>2. IsFiniteSet(H)
    BY <2>1, FS_Subset
  <2> QED BY <1>1, <2>2, FS_CardinalityType
<1>9. ExistsBijection(H \ {1}, G)
  <2> DEFINE f == [i \in H \ {1} |-> i - 1]
  <2>1. f \in [H \ {1} -> G]
    BY <1>3
  <2>2. \A i, j \in H \ {1} : f[i] = f[j] => i = j
    OBVIOUS
  <2>3. \A k \in G : k + 1 \in H \ {1} /\ f[k + 1] = k
    <3> SUFFICES ASSUME NEW k \in G PROVE k + 1 \in H \ {1} /\ f[k + 1] = k
      OBVIOUS
    <3>1. k + 1 \in H \ {1}
      BY <1>1, <1>2
    <3> QED BY <3>1
  <2> HIDE DEF f, G, H
  <2>4. f \in Bijection(H \ {1}, G)
    BY <2>1, <2>2, <2>3 DEF Bijection, Injection, Surjection, IsInjective
  <2> QED BY <2>4 DEF ExistsBijection
<1>10. Cardinality(G) = IF Head(s) \in T THEN Cardinality(H) - 1 ELSE Cardinality(H)
  <2> HIDE DEF G, H
  <2>1. /\ IsFiniteSet(H \ {1})
        /\ Cardinality(H \ {1}) = IF 1 \in H THEN Cardinality(H) - 1 ELSE Cardinality(H)
    BY <1>8, FS_RemoveElement
  <2>2. Cardinality(G) = Cardinality(H \ {1})
    BY <1>9, <2>1, FS_Bijection
  <2> QED BY <1>8, <2>1, <2>2
<1> QED BY <1>4, <1>5, <1>6, <1>7, <1>8, <1>10 DEF Count, t

\* A count is a number.
LEMMA CountNat == ASSUME NEW S, NEW s \in Seq(S), NEW T PROVE Count(s, T) \in Nat
<1> DEFINE H == {i \in 1 .. Len(s) : s[i] \in T}
<1>1. IsFiniteSet(1 .. Len(s)) /\ H \in SUBSET (1 .. Len(s))
  BY FS_Interval
<1>2. IsFiniteSet(H)
  BY <1>1, FS_Subset
<1> QED BY <1>2, FS_CardinalityType DEF Count

\* Absent is counted 0 times.
LEMMA NoneCounted ==
    ASSUME NEW S, NEW s \in Seq(S), NEW T
    PROVE  Absent(s, T) <=> Count(s, T) = 0
<1> DEFINE H == {i \in 1 .. Len(s) : s[i] \in T}
<1>1. IsFiniteSet(H)
  <2>1. IsFiniteSet(1 .. Len(s)) /\ H \in SUBSET (1 .. Len(s))
    BY FS_Interval
  <2> QED BY <2>1, FS_Subset
<1>2. Cardinality(H) = 0 <=> H = {}
  BY <1>1, FS_EmptySet
<1> QED BY <1>2 DEF Absent, Count

\* A message put on one of the queues
LEMMA PutFacts ==
    ASSUME NEW S, NEW q \in [Worker -> Seq(S)], NEW w \in Worker, NEW m \in S, NEW T
    PROVE  LET p == [q EXCEPT ![w] = Append(@, m)] IN
           /\ p \in [Worker -> Seq(S)]
           /\ Nowhere(p, T) <=> Nowhere(q, T) /\ m \notin T
           /\ AtMostOne(q, T) /\ (m \notin T \/ Nowhere(q, T)) => AtMostOne(p, T)
<1> DEFINE p == [q EXCEPT ![w] = Append(@, m)]
<1>1. p \in [Worker -> Seq(S)] /\ p[w] = Append(q[w], m) /\ \A v \in Worker : v # w => p[v] = q[v]
  BY AppendAt
<1> HIDE DEF p
<1>2. /\ Absent(p[w], T) <=> Absent(q[w], T) /\ m \notin T
      /\ Once(q[w], T) /\ (m \notin T \/ Absent(q[w], T)) => Once(p[w], T)
  BY <1>1, AppendFacts
<1>3. Nowhere(p, T) <=> Nowhere(q, T) /\ m \notin T
  BY <1>1, <1>2 DEF Nowhere
<1>4. AtMostOne(q, T) /\ (m \notin T \/ Nowhere(q, T)) => AtMostOne(p, T)
  BY <1>1, <1>2 DEF Nowhere, AtMostOne
<1> QED BY <1>1, <1>3, <1>4 DEF p

\* ... and the oldest message of a queue taken
LEMMA TakeFacts ==
    ASSUME NEW S, NEW q \in [Worker -> Seq(S)], NEW w \in Worker, q[w] # <<>>, NEW T
    PROVE  LET p == [q EXCEPT ![w] = Tail(@)] IN
           /\ p \in [Worker -> Seq(S)] /\ Head(q[w]) \in S
           /\ Nowhere(q, T) => Nowhere(p, T) /\ Head(q[w]) \notin T
           /\ Head(q[w]) \notin T /\ Nowhere(p, T) => Nowhere(q, T)
           /\ AtMostOne(q, T) => AtMostOne(p, T)
           /\ AtMostOne(q, T) /\ Head(q[w]) \in T => Nowhere(p, T)
<1> DEFINE p == [q EXCEPT ![w] = Tail(@)]
<1>1. /\ p \in [Worker -> Seq(S)] /\ p[w] = Tail(q[w]) /\ \A v \in Worker : v # w => p[v] = q[v]
      /\ Head(q[w]) \in S
  BY TailAt
<1> HIDE DEF p
<1>2. /\ Absent(q[w], T) <=> Absent(p[w], T) /\ Head(q[w]) \notin T
      /\ Once(q[w], T) => Once(p[w], T)
      /\ Once(q[w], T) /\ Head(q[w]) \in T => Absent(p[w], T)
  BY <1>1, TailFacts
<1>3. /\ Nowhere(q, T) => Nowhere(p, T) /\ Head(q[w]) \notin T
      /\ Head(q[w]) \notin T /\ Nowhere(p, T) => Nowhere(q, T)
  BY <1>1, <1>2 DEF Nowhere
<1>4. AtMostOne(q, T) => AtMostOne(p, T)
  BY <1>1, <1>2 DEF AtMostOne
<1>5. AtMostOne(q, T) /\ Head(q[w]) \in T => Nowhere(p, T)
  BY <1>1, <1>2 DEF AtMostOne, Nowhere
<1> QED BY <1>1, <1>3, <1>4, <1>5 DEF p

-----------------------------------------------------------------------------
(* Frames: what an action leaves alone *)

USE FrontendConstants

\* The sets of messages and replies
LEMMA Kinds ==
    ASSUME NEW u \in User
    PROVE  /\ \A v \in User : \A t \in {"gen", "abort"} :
                  /\ [t |-> t, id |-> v] \in Msg
                  /\ [t |-> t, id |-> v] \in MsgOf(u) <=> u = v
                  /\ [t |-> t, id |-> v] \in GenOf(u) <=> u = v /\ t = "gen"
                  /\ [t |-> t, id |-> v] \notin Rebuilds
           /\ \A v \in User : \A t \in {"token", "last", "error"} :
                  /\ [t |-> t, id |-> v] \in Reply
                  /\ [t |-> t, id |-> v] \in CountsOf(u) <=> u = v /\ t # "error"
                  /\ [t |-> t, id |-> v] \in FinishesOf(u) <=> u = v /\ t # "token"
                  /\ [t |-> t, id |-> v] \notin Results
           /\ \A m \in Rebuilds : m \in Msg /\ m \notin MsgOf(u) /\ m \notin GenOf(u)
           /\ \A m \in Results : m \in Reply /\ m \notin CountsOf(u) /\ m \notin FinishesOf(u)
BY DEF Msg, Reply, MsgOf, GenOf, CountsOf, FinishesOf, Rebuilds, Results

\* A message of a queue or of out, by its type
LEMMA Sorts ==
    /\ \A m \in Msg : \/ \E u \in User : m.id = u /\ m = [t |-> "gen", id |-> u]
                      \/ \E u \in User : m.id = u /\ m = [t |-> "abort", id |-> u]
                      \/ m \in Rebuilds
    /\ \A m \in Reply : \/ /\ m.t # "rebuild" /\ m.t \in {"token", "last", "error"}
                           /\ m.id \in User /\ m = [t |-> m.t, id |-> m.id]
                        \/ m.t = "rebuild" /\ m \in Results
<1>1. ASSUME NEW m \in Msg
      PROVE  \/ \E u \in User : m.id = u /\ m = [t |-> "gen", id |-> u]
             \/ \E u \in User : m.id = u /\ m = [t |-> "abort", id |-> u]
             \/ m \in Rebuilds
  BY DEF Msg, Rebuilds
<1>2. ASSUME NEW m \in Reply
      PROVE  \/ /\ m.t # "rebuild" /\ m.t \in {"token", "last", "error"}
                /\ m.id \in User /\ m = [t |-> m.t, id |-> m.id]
             \/ m.t = "rebuild" /\ m \in Results
  BY DEF Reply, Results
<1> QED BY <1>1, <1>2

\* Requests see nothing of a step that moves only rebuild messages.
LEMMA UserFrame ==
    ASSUME UserInv, UNCHANGED <<inflight, refused, sampled, counted>>,
           UNCHANGED <<backend.running, backend.over, backend.tombs>>,
           \A u \in User : client'[u] = "new" <=> client[u] = "new",
           \A u \in User : \A by \in {"client", "stop"} :
               client[u] = "new" => <<u, by>> \notin abortTask',
           \A u \in User : /\ Nowhere(queue, MsgOf(u)) => Nowhere(queue', MsgOf(u))
                           /\ Nowhere(queue, GenOf(u)) <=> Nowhere(queue', GenOf(u))
                           /\ AtMostOne(queue, GenOf(u)) => AtMostOne(queue', GenOf(u)),
           \A u \in User : /\ Absent(out, CountsOf(u)) => Absent(out', CountsOf(u))
                           /\ Absent(out, FinishesOf(u)) => Absent(out', FinishesOf(u))
                           /\ Ordered(out, FinishesOf(u), CountsOf(u)) =>
                                  Ordered(out', FinishesOf(u), CountsOf(u))
                           /\ Count(out', CountsOf(u)) = Count(out, CountsOf(u))
    PROVE  UserInv'
<1> SUFFICES ASSUME NEW u \in User PROVE (InOrder(u) /\ Life(u) /\ Ended(u) /\ Counted(u))'
  BY DEF UserInv
<1>0. InOrder(u) /\ Life(u) /\ Ended(u) /\ Counted(u)
  BY DEF UserInv
<1>1. InOrder(u)'
  BY <1>0 DEF InOrder
<1>2. Life(u)'
  BY <1>0 DEF Life
<1>3. Ended(u)'
  BY <1>0 DEF Ended
<1>4. Counted(u)'
  BY <1>0 DEF Counted
<1> QED BY <1>1, <1>2, <1>3, <1>4

\* The case that no message moves
LEMMA UserStill ==
    ASSUME UserInv, UNCHANGED <<inflight, refused, sampled, counted, queue, out>>,
           UNCHANGED <<backend.running, backend.over, backend.tombs>>,
           \A u \in User : client'[u] = "new" <=> client[u] = "new",
           \A u \in User : \A by \in {"client", "stop"} :
               client[u] = "new" => <<u, by>> \notin abortTask'
    PROVE  UserInv'
BY UserFrame

\* The gate sees nothing of a step that moves only messages about requests.
LEMMA GateFrame ==
    ASSUME GateInv, UNCHANGED <<call, loop, gate, sup>>,
           Nowhere(queue, Rebuilds) => Nowhere(queue', Rebuilds),
           AtMostOne(queue, Rebuilds) => AtMostOne(queue', Rebuilds),
           Absent(out, Results) => Absent(out', Results),
           Once(out, Results) => Once(out', Results)
    PROVE  GateInv'
<1>1. Single'
  BY DEF GateInv, Single, Idle, Unsent
<1> QED BY <1>1 DEF GateInv, Idle, Unsent

\* The case that no message moves
LEMMA GateStill ==
    ASSUME GateInv, UNCHANGED <<call, loop, gate, sup, queue, out>> PROVE GateInv'
BY GateFrame

\* Sealed totals of requests that stay out of inflight and sample nothing
LEMMA SealFrame ==
    ASSUME SealInv, UNCHANGED sealed,
           \A u \in User : client[u] # "new" /\ u \notin inflight =>
               client'[u] # "new" /\ u \notin inflight' /\ sampled'[u] = sampled[u]
    PROVE  SealInv'
BY DEF SealInv

\* What a put on the tokenizer's socket does
LEMMA SendFacts ==
    ASSUME Types, NEW m \in Msg, Send(m)
    PROVE  /\ queue' \in [Worker -> Seq(Msg)]
           /\ \A T : /\ Nowhere(queue', T) <=> Nowhere(queue, T) /\ m \notin T
                     /\ AtMostOne(queue, T) /\ (m \notin T \/ Nowhere(queue, T)) =>
                            AtMostOne(queue', T)
<1>1. queue \in [Worker -> Seq(Msg)]
  BY DEF Types, TypeOK
<1>2. PICK w \in Worker : queue' = [queue EXCEPT ![w] = Append(@, m)]
  BY DEF Send
<1>3. queue' \in [Worker -> Seq(Msg)]
  BY <1>1, <1>2, PutFacts
<1>4. ASSUME NEW T
      PROVE  /\ Nowhere(queue', T) <=> Nowhere(queue, T) /\ m \notin T
             /\ AtMostOne(queue, T) /\ (m \notin T \/ Nowhere(queue, T)) => AtMostOne(queue', T)
  BY ZenonT(30), <1>1, <1>2, PutFacts
<1> QED BY <1>3, <1>4

\* A put that raises is a fault like the others.
LEMMA RaiseFacts == ASSUME Types, PutRaises PROVE faults' \in 0 .. MaxFaults
BY DEF Types, TypeOK, PutRaises

-----------------------------------------------------------------------------
(* Requests *)

\* A request that nothing is queued of is not queued itself.
LEMMA GenIsMsg ==
    ASSUME NEW q, NEW u \in User, Nowhere(q, MsgOf(u)) PROVE Nowhere(q, GenOf(u))
BY DEF Nowhere, Absent, MsgOf, GenOf

\* new_user: what is admitted was never sent, and nothing of it is under way.
LEMMA NewUserInv == ASSUME IndInv, NEW u \in User, NewUser(u) PROVE IndInv'
<1> DEFINE m == [t |-> "gen", id |-> u]
<1>1. /\ (Send(m) /\ UNCHANGED faults) \/ (PutRaises /\ UNCHANGED queue)
      /\ client[u] = "new" /\ gate = "serving"
      /\ ackMap' = ackMap \cup {u} /\ inflight' = inflight \cup {u} /\ aborting' = aborting \ {u}
      /\ client' \in {[client EXCEPT ![u] = "waiting"], [client EXCEPT ![u] = "error"]}
      /\ UNCHANGED <<gateVars, sup, mail, counted, abortTask, callVars, stopVars, out, refused,
                     backVars, down>>
  BY DEF NewUser
<1>2. m \in Msg /\ m \in GenOf(u)
  BY Kinds
<1>3. /\ queue' \in [Worker -> Seq(Msg)] /\ faults' \in 0 .. MaxFaults
      /\ \A T : /\ Nowhere(queue, T) /\ m \notin T => Nowhere(queue', T)
                /\ Nowhere(queue', T) => Nowhere(queue, T)
                /\ AtMostOne(queue, T) /\ (m \notin T \/ Nowhere(queue, T)) => AtMostOne(queue', T)
  <2>1. queue \in [Worker -> Seq(Msg)] /\ faults \in 0 .. MaxFaults
    BY DEF IndInv, Types, TypeOK
  <2> QED BY <1>1, <1>2, <2>1, SendFacts, RaiseFacts DEF IndInv
<1> HIDE DEF m
<1>4. \A v \in User : /\ v # u => client'[v] = client[v]
                      /\ v = u => client'[v] # "new"
  BY <1>1 DEF IndInv, Types, TypeOK
<1>5. Types'
  <2>1. TypeOK'
    BY ZenonT(30), <1>1, <1>3 DEF IndInv, Types, TypeOK, gateVars, callVars, stopVars, backVars
  <2> QED BY <1>1, <2>1 DEF IndInv, Types, gateVars, backVars
<1>6. UserInv'
  <2> SUFFICES ASSUME NEW v \in User PROVE (InOrder(v) /\ Life(v) /\ Ended(v) /\ Counted(v))'
    BY DEF UserInv
  <2>0. InOrder(v) /\ Life(v) /\ Ended(v) /\ Counted(v) /\ Life(u)
    BY DEF IndInv, UserInv
  <2>1. InOrder(v)' /\ Counted(v)'
    BY <1>1, <2>0 DEF InOrder, Counted, backVars
  <2>2. CASE v = u
    <3>1. Nowhere(queue, GenOf(u))
      BY <1>1, <2>0, GenIsMsg DEF Life
    <3>2. Life(v)'
      BY <1>1, <1>3, <1>4, <2>0, <2>2, <3>1 DEF Life, backVars
    <3>3. Ended(v)'
      BY <1>1, <2>2 DEF Ended
    <3> QED BY <2>1, <3>2, <3>3
  <2>3. CASE v # u
    <3>1. m \notin MsgOf(v) /\ m \notin GenOf(v)
      BY <2>3, Kinds DEF m
    <3>2. Life(v)'
      BY <1>1, <1>3, <1>4, <2>0, <2>3, <3>1 DEF Life, backVars
    <3>3. Ended(v)'
      BY <1>1, <1>3, <1>4, <2>0, <2>3, <3>1 DEF Ended, backVars
    <3> QED BY <2>1, <3>2, <3>3
  <2> QED BY <2>2, <2>3
<1>7. SealInv'
  <2>1. \A v \in User : client[v] # "new" => v # u
    BY <1>1
  <2> QED BY <1>1, <1>4, <2>1, SealFrame DEF IndInv, stopVars, backVars
<1>8. GateInv'
  <2>1. m \notin Rebuilds
    BY Kinds DEF m
  <2> QED BY <1>1, <1>3, <2>1, GateFrame DEF IndInv, gateVars, callVars
<1> QED BY <1>5, <1>6, <1>7, <1>8 DEF IndInv

\* wait_for_ack returns.
LEMMA ClientDoneInv == ASSUME IndInv, NEW u \in User, ClientDone(u) PROVE IndInv'
<1>1. Types'
  BY DEF IndInv, Types, TypeOK, ClientDone, gateVars, statVars, callVars, stopVars, wireVars,
         backVars
<1>2. \A v \in User : client'[v] = "new" <=> client[v] = "new"
  BY DEF IndInv, Types, TypeOK, ClientDone
<1>3. UserInv'
  <2>1. \A v \in User : \A by \in {"client", "stop"} :
            client[v] = "new" => <<v, by>> \notin abortTask
    BY DEF IndInv, UserInv, Life
  <2> QED BY <1>2, <2>1, UserStill DEF IndInv, ClientDone, statVars, wireVars, backVars
<1>4. SealInv'
  BY <1>2, SealFrame DEF IndInv, ClientDone, statVars, stopVars, backVars
<1>5. GateInv'
  BY GateStill DEF IndInv, ClientDone, gateVars, callVars, wireVars
<1> QED BY <1>1, <1>3, <1>4, <1>5 DEF IndInv

\* A client that goes away was waiting: its request was admitted.
LEMMA DisconnectInv == ASSUME IndInv, NEW u \in User, Disconnect(u) PROVE IndInv'
<1>1. Types'
  BY SMTT(30) DEF IndInv, Types, TypeOK, Disconnect, gateVars, statVars, callVars, stopVars,
                  wireVars, backVars
<1>2. \A v \in User : client'[v] = "new" <=> client[v] = "new"
  BY DEF IndInv, Types, TypeOK, Disconnect
<1>3. UserInv'
  <2>1. \A v \in User : \A by \in {"client", "stop"} :
            client[v] = "new" => <<v, by>> \notin abortTask'
    BY DEF IndInv, UserInv, Life, Disconnect
  <2> QED BY <1>2, <2>1, UserStill DEF IndInv, Disconnect, statVars, wireVars, backVars
<1>4. SealInv'
  BY <1>2, SealFrame DEF IndInv, Disconnect, statVars, stopVars, backVars
<1>5. GateInv'
  BY GateStill DEF IndInv, Disconnect, gateVars, callVars, wireVars
<1> QED BY <1>1, <1>3, <1>4, <1>5 DEF IndInv

\* An abort is of an admitted request; the message is put on a queue, or not.
LEMMA AbortUserInv ==
    ASSUME IndInv, NEW u \in User, NEW by \in {"client", "stop"}, AbortUser(u, by)
    PROVE  IndInv'
<1> DEFINE m == [t |-> "abort", id |-> u]
<1>1. /\ (Send(m) /\ UNCHANGED faults) \/ (PutRaises /\ UNCHANGED queue)
      /\ <<u, by>> \in abortTask /\ abortTask' = abortTask \ {<<u, by>>}
      /\ stop' \in {stop, "error"} /\ ackMap' = ackMap \ {u} /\ OnAbort(u)
      /\ UNCHANGED <<gateVars, sup, client, mail, counted, callVars, sealed, out, refused, backVars,
                     down>>
  BY DEF AbortUser
<1>2. /\ m \in Msg /\ m \notin Rebuilds
      /\ \A v \in User : m \notin GenOf(v) /\ (v # u => m \notin MsgOf(v))
  BY Kinds
<1>3. /\ queue' \in [Worker -> Seq(Msg)] /\ faults' \in 0 .. MaxFaults
      /\ \A T : m \notin T => /\ Nowhere(queue, T) <=> Nowhere(queue', T)
                              /\ AtMostOne(queue, T) => AtMostOne(queue', T)
  <2>1. queue \in [Worker -> Seq(Msg)] /\ faults \in 0 .. MaxFaults
    BY DEF IndInv, Types, TypeOK
  <2> QED BY <1>1, <1>2, <2>1, SendFacts, RaiseFacts DEF IndInv
<1> HIDE DEF m
<1>4. Types'
  <2>1. TypeOK'
    BY <1>1, <1>3 DEF IndInv, Types, TypeOK, OnAbort, gateVars, callVars, stopVars, backVars
  <2> QED BY <1>1, <2>1 DEF IndInv, Types, gateVars, backVars
<1>5. UserInv'
  <2>1. \A v \in User : client[v] = "new" => v # u
    BY <1>1 DEF IndInv, UserInv, Life
  <2>2. \A v \in User : \A b \in {"client", "stop"} :
            client[v] = "new" => <<v, b>> \notin abortTask'
    BY <1>1 DEF IndInv, UserInv, Life
  <2> SUFFICES ASSUME NEW v \in User PROVE (InOrder(v) /\ Life(v) /\ Ended(v) /\ Counted(v))'
    BY DEF UserInv
  <2>3. InOrder(v) /\ Life(v) /\ Ended(v) /\ Counted(v)
    BY DEF IndInv, UserInv
  <2>4. InOrder(v)' /\ Counted(v)'
    BY <1>1, <2>3 DEF InOrder, Counted, backVars
  <2>5. Life(v)'
    BY <1>1, <1>2, <1>3, <2>1, <2>2, <2>3 DEF Life, backVars, OnAbort
  <2>6. Ended(v)'
    BY <1>1, <1>2, <1>3, <2>3 DEF Ended, backVars, OnAbort
  <2> QED BY <2>4, <2>5, <2>6
<1>6. SealInv'
  BY <1>1, SealFrame DEF IndInv, backVars, OnAbort
<1>7. GateInv'
  BY <1>1, <1>2, <1>3, GateFrame DEF IndInv, gateVars, callVars
<1> QED BY <1>4, <1>5, <1>6, <1>7 DEF IndInv

-----------------------------------------------------------------------------
(* Replies *)

\* One reply less on its way: its request stays admitted, or nothing of it is left to sample.
LEMMA ListenInv == ASSUME IndInv, Listen PROVE IndInv'
<1> DEFINE m == Head(out)
           u == m.id
<1>1. /\ out # <<>> /\ m.t # "rebuild" /\ Observe(m) /\ out' = Tail(out)
      /\ mail' \in {mail, mail \cup {u}}
      /\ UNCHANGED <<gateVars, sup, client, ackMap, abortTask, callVars, stopVars, queue, refused,
                     backVars, faults, down>>
  BY DEF Listen, Listened
<1>2. out \in Seq(Reply) /\ out' \in Seq(Reply) /\ m \in Reply
  BY <1>1, TailAt DEF IndInv, Types, TypeOK
<1>3. u \in User /\ m.t \in {"token", "last", "error"} /\ m = [t |-> m.t, id |-> u]
  BY <1>1, <1>2, Sorts
<1>4. /\ \A T : /\ Absent(out, T) => Absent(out', T) /\ m \notin T
                /\ Once(out, T) => Once(out', T)
                /\ \A C : Ordered(out, T, C) => Ordered(out', T, C)
                /\ \A C : Ordered(out, T, C) /\ m \in T => Absent(out', C)
                /\ Count(out', T) = IF m \in T THEN Count(out, T) - 1 ELSE Count(out, T)
                /\ Count(out, T) \in Nat /\ Count(out', T) \in Nat
  <2>1. ASSUME NEW T
        PROVE  /\ Absent(out, T) => Absent(out', T) /\ m \notin T
               /\ Once(out, T) => Once(out', T)
               /\ \A C : Ordered(out, T, C) => Ordered(out', T, C)
               /\ \A C : Ordered(out, T, C) /\ m \in T => Absent(out', C)
               /\ Count(out', T) = IF m \in T THEN Count(out, T) - 1 ELSE Count(out, T)
               /\ Count(out, T) \in Nat
    BY <1>1, <1>2, TailFacts
  <2>2. ASSUME NEW T PROVE Count(out', T) \in Nat
    BY <1>2, CountNat
  <2> QED BY <2>1, <2>2
<1>5. \A v \in User : /\ m \in CountsOf(v) <=> v = u /\ Counts(m)
                      /\ m \in FinishesOf(v) <=> v = u /\ Finishes(m)
  <2> HIDE DEF m, u
  <2>1. PICK t \in {"token", "last", "error"} : m = [t |-> t, id |-> u] /\ m.t = t
    BY <1>3
  <2> QED BY ZenonT(30), <1>3, <2>1, Kinds DEF Counts, Finishes
<1> HIDE DEF m, u
<1>6. UserInv'
  <2> SUFFICES ASSUME NEW v \in User PROVE (InOrder(v) /\ Life(v) /\ Ended(v) /\ Counted(v))'
    BY DEF UserInv
  <2>1. InOrder(v) /\ Life(v) /\ Ended(v) /\ Counted(v)
    BY DEF IndInv, UserInv
  <2>2. InOrder(v)'
    BY <1>1, <1>4, <2>1 DEF InOrder, backVars
  <2>3. inflight' \subseteq inflight
    BY <1>1 DEF Observe
  <2>4. Life(v)'
    BY <1>1, <2>1, <2>3 DEF Life, backVars
  <2>5. Counted(v)'
    <3>1. counted \in [User -> 0 .. MaxTokens]
      BY DEF IndInv, Types, TypeOK
    <3>2. counted'[v] = IF m \in CountsOf(v) THEN counted[v] + 1 ELSE counted[v]
      BY <1>1, <1>3, <1>5, <3>1 DEF Observe, u
    <3> QED BY <1>1, <1>4, <2>1, <3>1, <3>2 DEF Counted, backVars
  <2>6. Ended(v)'
    <3>1. CASE client[v] # "new" /\ v \notin inflight
      BY <1>1, <1>4, <2>1, <3>1 DEF Ended, backVars
    <3>2. CASE v \in inflight /\ v \notin inflight'
      <4>1. m \in FinishesOf(v)
        BY <1>1, <1>5, <3>2 DEF Observe, u
      <4>2. Absent(out', CountsOf(v)) /\ v \in backend.over
        BY <1>4, <2>1, <4>1 DEF InOrder
      <4> QED BY <1>1, <2>1, <4>2 DEF Life, Ended, backVars
    <3> QED BY <1>1, <2>3, <3>1, <3>2 DEF Ended
  <2> QED BY <2>2, <2>4, <2>5, <2>6
<1>7. Types'
  <2>1. counted' \in [User -> 0 .. MaxTokens]
    <3>1. counted \in [User -> 0 .. MaxTokens] /\ sampled \in [User -> 0 .. MaxTokens]
      BY DEF IndInv, Types, TypeOK
    <3>2. \A v \in User : sampled[v] = counted'[v] + Count(out', CountsOf(v))
      BY <1>1, <1>6 DEF UserInv, Counted, backVars
    <3>3. counted' \in [User -> Int]
      BY <1>1, <1>3, <3>1 DEF Observe, u
    <3>4. ASSUME NEW v \in User PROVE counted'[v] \in 0 .. MaxTokens
      <4>1. counted'[v] >= 0 /\ counted'[v] \in Int
        BY <1>1, <3>1 DEF Observe
      <4>2. Count(out', CountsOf(v)) \in Nat /\ sampled[v] \in 0 .. MaxTokens
        BY <1>4, <3>1
      <4> QED BY <3>2, <4>1, <4>2
    <3> QED BY <3>3, <3>4
  <2>2. TypeOK'
    BY SMTT(30), <1>1, <1>2, <1>3, <2>1
       DEF IndInv, Types, TypeOK, Observe, u, gateVars, callVars, stopVars, backVars
  <2> QED BY <1>1, <2>2 DEF IndInv, Types, gateVars, backVars
<1>8. SealInv'
  BY <1>1, SealFrame DEF IndInv, stopVars, backVars, Observe
<1>9. GateInv'
  BY <1>1, <1>4, GateFrame DEF IndInv, gateVars, callVars
<1> QED BY <1>6, <1>7, <1>8, <1>9 DEF IndInv

\* A refusal is of a request that never ran.
LEMMA ListenRefusalInv == ASSUME IndInv, NEW u \in User, ListenRefusal(u) PROVE IndInv'
<1>1. /\ u \in refused /\ refused' = refused \ {u} /\ mail' \in {mail, mail \cup {u}}
      /\ counted' = counted /\ inflight' = inflight \ {u} /\ aborting' = aborting \ {u}
      /\ UNCHANGED <<gateVars, sup, client, ackMap, abortTask, callVars, stopVars, queue, out,
                     backVars, faults, down>>
  BY DEF ListenRefusal, Listened, Observe, Counts, Finishes
<1>2. Types'
  <2>1. TypeOK'
    BY <1>1 DEF IndInv, Types, TypeOK, gateVars, callVars, stopVars, backVars
  <2> QED BY <1>1, <2>1 DEF IndInv, Types, gateVars, backVars
<1>3. UserInv'
  <2> SUFFICES ASSUME NEW v \in User PROVE (InOrder(v) /\ Life(v) /\ Ended(v) /\ Counted(v))'
    BY DEF UserInv
  <2>1. InOrder(v) /\ Life(v) /\ Ended(v) /\ Counted(v)
    BY DEF IndInv, UserInv
  <2>2. InOrder(v)' /\ Counted(v)'
    BY <1>1, <2>1 DEF InOrder, Counted, backVars
  <2>3. Life(v)'
    BY <1>1, <2>1 DEF Life, backVars
  <2>4. v \in refused => Absent(out, CountsOf(v)) /\ Nowhere(queue, GenOf(v))
    <3>1. /\ out \in Seq(Reply) /\ counted[v] \in Nat
      BY DEF IndInv, Types, TypeOK
    <3>2. Count(out, CountsOf(v)) \in Nat
      BY <3>1, CountNat
    <3>3. v \in refused => Count(out, CountsOf(v)) = 0
      BY <2>1, <3>1, <3>2 DEF Life, Counted
    <3> QED BY <2>1, <3>1, <3>3, NoneCounted DEF Life
  <2>5. Ended(v)'
    BY <1>1, <2>1, <2>4 DEF Ended, Life, backVars
  <2> QED BY <2>2, <2>3, <2>5
<1>4. SealInv'
  BY <1>1, SealFrame DEF IndInv, stopVars, backVars
<1>5. GateInv'
  BY <1>1, GateStill DEF IndInv, gateVars, callVars
<1> QED BY <1>2, <1>3, <1>4, <1>5 DEF IndInv

\* The answer to a rebuild leaves out; the handler that holds it is the only place it is in.
LEMMA ResolveRebuildInv == ASSUME IndInv, ResolveRebuild PROVE IndInv'
<1> DEFINE m == Head(out)
<1>1. /\ out # <<>> /\ m.t = "rebuild" /\ out' = Tail(out) /\ loop = Free
      /\ future' = future \ {m.id}
      /\ call' = [call EXCEPT ![m.id] = IF m.id \in future THEN "done" ELSE @]
      /\ loop' \in [op : {"resolve"}, gate : {"serving", "failed"}]
      /\ UNCHANGED <<gate, fatal, sup, userVars, statVars, abortTask, stopVars, queue, refused,
                     backVars, faults, down>>
  BY DEF ResolveRebuild, Loop
<1>2. out \in Seq(Reply) /\ out' \in Seq(Reply) /\ m \in Reply
  BY <1>1, TailAt DEF IndInv, Types, TypeOK
<1>3. m \in Results
  BY <1>1, <1>2, Sorts
<1>4. \A T : /\ Absent(out, T) => Absent(out', T) /\ m \notin T
             /\ Once(out, T) => Once(out', T)
             /\ Once(out, T) /\ m \in T => Absent(out', T)
             /\ \A C : Ordered(out, T, C) => Ordered(out', T, C)
             /\ m \notin T => Count(out', T) = Count(out, T)
  BY <1>1, <1>2, TailFacts
<1> HIDE DEF m
<1>5. Types'
  <2>1. TypeOK'
    BY ZenonT(30), <1>1, <1>2 DEF IndInv, Types, TypeOK, userVars, statVars, stopVars, backVars
  <2> QED BY <1>1, <2>1 DEF IndInv, Types, backVars
<1>6. UserInv'
  <2>1. \A u \in User : \A by \in {"client", "stop"} :
            client[u] = "new" => <<u, by>> \notin abortTask
    BY DEF IndInv, UserInv, Life
  <2>2. \A u \in User : m \notin CountsOf(u) /\ m \notin FinishesOf(u)
    BY <1>3, Kinds
  <2> QED BY <1>1, <1>4, <2>1, <2>2, UserFrame DEF IndInv, userVars, statVars, backVars
<1>7. SealInv'
  BY <1>1, SealFrame DEF IndInv, userVars, statVars, stopVars, backVars
<1>8. GateInv'
  <2>1. ~Absent(out, Results) /\ Once(out, Results) /\ Unsent /\ Nowhere(queue, Rebuilds)
    BY <1>3, <1>4 DEF IndInv, GateInv, Single
  <2>2. gate # "serving" /\ sup \notin {"load", "opening"}
    BY <2>1 DEF IndInv, GateInv, Idle
  <2>3. Absent(out', Results)
    BY <1>3, <1>4, <2>1
  <2>4. Unsent'
    BY <1>1, <2>1 DEF IndInv, Types, TypeOK, Unsent
  <2>5. Idle' /\ Single'
    BY <1>1, <1>4, <2>1, <2>3, <2>4 DEF IndInv, GateInv, Single, Idle, Unsent
  <2> QED BY <1>1, <2>2, <2>5 DEF GateInv
<1> QED BY <1>5, <1>6, <1>7, <1>8 DEF IndInv

-----------------------------------------------------------------------------
(* What moves no message *)

\* A step that neither moves a message nor touches a request or its totals
LEMMA Quiet ==
    ASSUME IndInv, UNCHANGED <<userVars, statVars, abortTask, stopVars, wireVars, sampled>>,
           UNCHANGED <<backend.running, backend.over, backend.tombs>>
    PROVE  UserInv' /\ SealInv'
<1>1. UserInv'
  <2>1. \A u \in User : \A by \in {"client", "stop"} :
            client[u] = "new" => <<u, by>> \notin abortTask
    BY DEF IndInv, UserInv, Life
  <2> QED BY <2>1, UserStill DEF IndInv, userVars, statVars, wireVars
<1>2. SealInv'
  BY SealFrame DEF IndInv, userVars, statVars, stopVars
<1> QED BY <1>1, <1>2

\* The gate is written: the rebuild is over.
LEMMA SetGateInv == ASSUME IndInv, SetGate PROVE IndInv'
<1>1. Types'
  <2>1. gate' \in {"serving", "failed"} /\ loop' = Free
    BY DEF IndInv, Types, SetGate, Free
  <2>2. TypeOK'
    BY <2>1 DEF SetGate, IndInv, Types, TypeOK, userVars, statVars, callVars, stopVars, wireVars,
                backVars
  <2> QED BY <2>1, <2>2 DEF SetGate, IndInv, Types, backVars
<1>2. UserInv' /\ SealInv'
  BY Quiet DEF SetGate, backVars
<1>3. GateInv'
  <2>1. loop # Free /\ loop' = Free /\ UNCHANGED <<call, queue, out, sup>>
    BY DEF SetGate, Free, callVars, wireVars
  <2>2. Idle' /\ Single'
    BY <2>1 DEF IndInv, GateInv, Single, Idle, Unsent
  <2> QED BY <2>1, <2>2 DEF IndInv, GateInv, Free
<1> QED BY <1>1, <1>2, <1>3 DEF IndInv

\* A serving gate has no rebuild under way.
LEMMA CheckRebuildInv == ASSUME IndInv, NEW r \in Rebuild, CheckRebuild(r) PROVE IndInv'
<1>1. Types'
  <2>1. loop' \in [op : {"rebuild"}, id : Rebuild]
    BY DEF CheckRebuild
  <2>2. TypeOK'
    BY DEF CheckRebuild, IndInv, Types, TypeOK, userVars, statVars, callVars, stopVars, wireVars,
           backVars
  <2> QED BY <2>1, <2>2 DEF CheckRebuild, IndInv, Types, backVars
<1>2. UserInv' /\ SealInv'
  BY Quiet DEF CheckRebuild, backVars
<1>3. GateInv'
  <2>1. gate = "serving" /\ loop'.op = "rebuild" /\ UNCHANGED <<gate, call, queue, out, sup>>
    BY DEF CheckRebuild, callVars, wireVars
  <2>2. Idle' /\ Single'
    BY <2>1 DEF IndInv, GateInv, Single, Idle, Unsent
  <2> QED BY <2>1, <2>2 DEF IndInv, GateInv
<1> QED BY <1>1, <1>2, <1>3 DEF IndInv

\* dispatch_rebuild closes the gate.
LEMMA DispatchRebuildInv == ASSUME IndInv, DispatchRebuild PROVE IndInv'
<1>1. loop.id \in Rebuild /\ loop # Free
  BY DEF IndInv, Types, DispatchRebuild, Free
<1>2. Types'
  <2>1. TypeOK'
    BY <1>1 DEF DispatchRebuild, IndInv, Types, TypeOK, userVars, statVars, stopVars, wireVars,
                backVars
  <2> QED BY <2>1 DEF DispatchRebuild, IndInv, Types, backVars
<1>3. UserInv' /\ SealInv'
  BY Quiet DEF DispatchRebuild, backVars
<1>4. GateInv'
  <2>1. /\ gate' = "rebuilding" /\ loop' = Free /\ call' = [call EXCEPT ![loop.id] = "sending"]
        /\ UNCHANGED <<queue, out, sup>>
        /\ call \in [Rebuild -> {"new", "sending", "waiting", "done"}]
    BY DEF DispatchRebuild, wireVars, IndInv, Types, TypeOK
  <2>2. Idle /\ sup \notin {"load", "opening"}
    BY <1>1 DEF IndInv, GateInv, Single
  <2>3. \A r \in Rebuild : call'[r] = "sending" => r = loop.id
    BY <2>1, <2>2 DEF Idle, Unsent
  <2>4. Single'
    BY <2>1, <2>2, <2>3 DEF IndInv, GateInv, Single, Idle, Unsent
  <2> QED BY <2>1, <2>2, <2>4 DEF GateInv
<1> QED BY <1>2, <1>3, <1>4 DEF IndInv

\* A call that times out or is failed takes nothing with it.
LEMMA CallsInv ==
    ASSUME IndInv, FailPending \/ \E r \in Rebuild : RebuildTimeout(r) PROVE IndInv'
<1>1. /\ UNCHANGED <<gateVars, sup, userVars, statVars, abortTask, stopVars, wireVars, backVars,
                     faults, down>>
      /\ future' \subseteq future
      /\ call' \in [Rebuild -> {"new", "sending", "waiting", "done"}]
      /\ \A s \in Rebuild : call'[s] = "sending" => call[s] = "sending"
  <2>1. CASE FailPending
    BY <2>1 DEF FailPending, IndInv, Types, TypeOK
  <2>2. ASSUME NEW r \in Rebuild, RebuildTimeout(r)
        PROVE  /\ UNCHANGED <<gateVars, sup, userVars, statVars, abortTask, stopVars, wireVars,
                              backVars, faults, down>>
               /\ future' \subseteq future
               /\ call' \in [Rebuild -> {"new", "sending", "waiting", "done"}]
               /\ \A s \in Rebuild : call'[s] = "sending" => call[s] = "sending"
    BY <2>2 DEF RebuildTimeout, TimeoutGate, IndInv, Types, TypeOK, gateVars
  <2> QED BY <2>1, <2>2
<1>2. Types'
  <2>1. TypeOK'
    BY <1>1 DEF IndInv, Types, TypeOK, gateVars, userVars, statVars, stopVars, wireVars, backVars
  <2> QED BY <1>1, <2>1 DEF IndInv, Types, gateVars, backVars
<1>3. UserInv' /\ SealInv'
  BY <1>1, Quiet DEF backVars
<1>4. GateInv'
  <2>1. Unsent => Unsent'
    BY <1>1 DEF Unsent
  <2>2. Single'
    BY <1>1, <2>1 DEF IndInv, GateInv, Single, Idle, gateVars, wireVars
  <2> QED BY <1>1, <2>1, <2>2 DEF IndInv, GateInv, Idle, gateVars, wireVars
<1> QED BY <1>2, <1>3, <1>4 DEF IndInv

\* The call is sent, or rolled back: then it is nowhere.
LEMMA SendRebuildInv == ASSUME IndInv, NEW r \in Rebuild, SendRebuild(r) PROVE IndInv'
<1> DEFINE m == [t |-> "rebuild", id |-> r]
<1>1. /\ loop = Free /\ call[r] = "sending"
      /\ call \in [Rebuild -> {"new", "sending", "waiting", "done"}]
      /\ \/ /\ Send(m) /\ call' = [call EXCEPT ![r] = "waiting"]
            /\ UNCHANGED <<gate, future, faults>>
         \/ /\ PutRaises /\ call' = [call EXCEPT ![r] = "done"] /\ future' = future \ {r}
            /\ gate' = "serving" /\ UNCHANGED queue
      /\ UNCHANGED <<fatal, loop, sup, userVars, statVars, abortTask, stopVars, out, refused,
                     backVars, down>>
  BY DEF SendRebuild, Loop, IndInv, Types, TypeOK
<1>2. /\ m \in Msg /\ m \in Rebuilds /\ \A u \in User : m \notin MsgOf(u) /\ m \notin GenOf(u)
  BY DEF Msg, Rebuilds, MsgOf, GenOf
<1>3. /\ queue' \in [Worker -> Seq(Msg)] /\ faults' \in 0 .. MaxFaults
      /\ \A T : AtMostOne(queue, T) /\ (m \notin T \/ Nowhere(queue, T)) => AtMostOne(queue', T)
      /\ \A T : m \notin T => (Nowhere(queue, T) <=> Nowhere(queue', T))
  <2>1. queue \in [Worker -> Seq(Msg)] /\ faults \in 0 .. MaxFaults
    BY DEF IndInv, Types, TypeOK
  <2> QED BY <1>1, <1>2, <2>1, SendFacts, RaiseFacts DEF IndInv
<1> HIDE DEF m
<1>4. Types'
  <2>1. TypeOK'
    BY ZenonT(30), <1>1, <1>3 DEF IndInv, Types, TypeOK, userVars, statVars, stopVars, backVars
  <2> QED BY <1>1, <2>1 DEF IndInv, Types, backVars
<1>5. UserInv'
  <2>1. \A u \in User : \A by \in {"client", "stop"} :
            client[u] = "new" => <<u, by>> \notin abortTask
    BY DEF IndInv, UserInv, Life
  <2> QED BY <1>1, <1>2, <1>3, <2>1, UserFrame DEF IndInv, userVars, statVars, backVars
<1>6. SealInv'
  BY <1>1, SealFrame DEF IndInv, userVars, statVars, stopVars, backVars
<1>7. GateInv'
  <2>1. /\ ~Unsent /\ Nowhere(queue, Rebuilds) /\ Absent(out, Results)
        /\ gate # "serving" /\ sup \notin {"load", "opening"}
    BY <1>1 DEF IndInv, GateInv, Single, Idle, Unsent
  <2>2. Unsent' /\ Absent(out', Results) /\ Once(out', Results) /\ AtMostOne(queue', Rebuilds)
    BY <1>1, <1>3, <2>1 DEF IndInv, GateInv, Single, Unsent
  <2>3. Single'
    BY <1>1, <2>2 DEF Single, Unsent
  <2>4. gate' = "serving" => Idle'
    BY <1>1, <2>1, <2>2 DEF Idle
  <2>5. loop.op = "none"
    BY <1>1 DEF Free
  <2> QED BY <1>1, <2>1, <2>3, <2>4, <2>5 DEF GateInv
<1> QED BY <1>4, <1>5, <1>6, <1>7 DEF IndInv

-----------------------------------------------------------------------------
(* prepare_stop_accounting *)

\* The totals sealed with nothing active are all the scheduler sampled for what was admitted.
LEMMA SealingFacts ==
    ASSUME IndInv, Sealing, inflight = {}, UNCHANGED <<client, inflight, sampled>>
    PROVE  /\ SealInv'
           /\ stop' = "sealed"
<1>1. /\ sealed'.users = {u \in User : client[u] # "new"} /\ sealed'.totals = counted
      /\ stop' = "sealed"
  BY DEF Sealing
<1>2. ASSUME NEW u \in User, client[u] # "new" PROVE sampled[u] = counted[u]
  <2>1. Absent(out, CountsOf(u)) /\ sampled[u] = counted[u] + Count(out, CountsOf(u))
    BY <1>2 DEF IndInv, UserInv, Ended, Counted
  <2>2. out \in Seq(Reply) /\ counted[u] \in Nat
    BY DEF IndInv, Types, TypeOK
  <2>3. Count(out, CountsOf(u)) = 0
    BY <2>1, <2>2, NoneCounted
  <2> QED BY <2>1, <2>2, <2>3
<1> QED BY <1>1, <1>2 DEF SealInv

\* The barrier: aborts of what is admitted are started, or the totals are sealed.
LEMMA StopInv == ASSUME IndInv, PrepareStop \/ Drained \/ Barrier PROVE IndInv'
<1>1. /\ UNCHANGED <<fatal, sup, loop, userVars, statVars, callVars, wireVars, backVars, faults,
                     down>>
      /\ gate' = gate \/ (gate # "rebuilding" /\ gate' = "stopping")
      /\ abortTask' \subseteq abortTask \cup {<<u, "stop">> : u \in inflight}
      /\ \/ UNCHANGED sealed /\ stop' \in {"drain", "abort", "error"}
         \/ inflight = {} /\ Sealing
  <2>1. CASE PrepareStop
    BY <2>1 DEF PrepareStop
  <2>2. CASE Drained
    BY <2>2 DEF Drained, AbortStarts, gateVars
  <2>3. CASE Barrier
    BY <2>3 DEF Barrier, BarrierOver, gateVars
  <2> QED BY <2>1, <2>2, <2>3
<1>2. Types'
  <2>1. stop' \in {"none", "drain", "abort", "error", "sealed"}
    BY <1>1 DEF Sealing
  <2>2. inflight \subseteq User /\ abortTask \subseteq User \X {"client", "stop"}
    BY DEF IndInv, Types, TypeOK
  <2>3. abortTask' \subseteq User \X {"client", "stop"}
    BY <1>1, <2>2
  <2>4. TypeOK'
    BY <1>1, <2>1, <2>3
       DEF IndInv, Types, TypeOK, userVars, statVars, callVars, wireVars, backVars
  <2> QED BY <1>1, <2>4 DEF IndInv, Types, backVars
<1>3. UserInv'
  <2>1. \A u \in User : \A by \in {"client", "stop"} :
            client[u] = "new" => <<u, by>> \notin abortTask'
    BY <1>1 DEF IndInv, UserInv, Life
  <2> QED BY <1>1, <2>1, UserStill DEF IndInv, userVars, statVars, wireVars, backVars
<1>4. SealInv'
  BY <1>1, SealFrame, SealingFacts DEF IndInv, userVars, statVars, backVars
<1>5. GateInv'
  <2>1. UNCHANGED <<call, queue, out, loop, sup>>
    BY <1>1 DEF callVars, wireVars
  <2>2. Idle' = Idle /\ (Single => Single')
    BY <2>1 DEF Single, Idle, Unsent
  <2> QED BY <1>1, <2>1, <2>2 DEF IndInv, GateInv
<1> QED BY <1>2, <1>3, <1>4, <1>5 DEF IndInv

-----------------------------------------------------------------------------
(* Tokenizer workers and the scheduler *)

\* A message taken from a queue: which one it is
LEMMA HeadFacts ==
    ASSUME IndInv, NEW w \in Worker, queue[w] # <<>>, queue' = [queue EXCEPT ![w] = Tail(@)]
    PROVE  /\ queue' \in [Worker -> Seq(Msg)] /\ Head(queue[w]) \in Msg
           /\ \A T : /\ Nowhere(queue, T) => Nowhere(queue', T) /\ Head(queue[w]) \notin T
                     /\ Head(queue[w]) \notin T /\ Nowhere(queue', T) => Nowhere(queue, T)
                     /\ AtMostOne(queue, T) => AtMostOne(queue', T)
                     /\ AtMostOne(queue, T) /\ Head(queue[w]) \in T => Nowhere(queue', T)
<1>1. queue \in [Worker -> Seq(Msg)]
  BY DEF IndInv, Types, TypeOK
<1>2. queue' \in [Worker -> Seq(Msg)] /\ Head(queue[w]) \in Msg
  BY <1>1, TakeFacts
<1>3. ASSUME NEW T
      PROVE  /\ Nowhere(queue, T) => Nowhere(queue', T) /\ Head(queue[w]) \notin T
             /\ Head(queue[w]) \notin T /\ Nowhere(queue', T) => Nowhere(queue, T)
             /\ AtMostOne(queue, T) => AtMostOne(queue', T)
             /\ AtMostOne(queue, T) /\ Head(queue[w]) \in T => Nowhere(queue', T)
  BY <1>1, TakeFacts
<1> QED BY <1>2, <1>3

\* A reply that the scheduler sends
LEMMA ReplyFacts ==
    ASSUME IndInv, NEW m \in Reply, out' = Append(out, m)
    PROVE  /\ out' \in Seq(Reply)
           /\ \A T : /\ m \notin T /\ Absent(out, T) => Absent(out', T)
                     /\ Once(out, T) /\ (m \notin T \/ Absent(out, T)) => Once(out', T)
                     /\ \A C : Ordered(out, T, C) /\ (m \notin C \/ Absent(out, T)) =>
                                   Ordered(out', T, C)
                     /\ Count(out', T) = IF m \in T THEN Count(out, T) + 1 ELSE Count(out, T)
                     /\ Count(out, T) \in Nat
<1>1. out \in Seq(Reply)
  BY DEF IndInv, Types, TypeOK
<1>2. out' \in Seq(Reply)
  BY <1>1, AppendAt
<1>3. ASSUME NEW T
      PROVE  /\ m \notin T /\ Absent(out, T) => Absent(out', T)
             /\ Once(out, T) /\ (m \notin T \/ Absent(out, T)) => Once(out', T)
             /\ \A C : Ordered(out, T, C) /\ (m \notin C \/ Absent(out, T)) => Ordered(out', T, C)
             /\ Count(out', T) = IF m \in T THEN Count(out, T) + 1 ELSE Count(out, T)
             /\ Count(out, T) \in Nat
  BY <1>1, AppendFacts
<1> QED BY <1>2, <1>3

\* A request that arrives is refused, dropped for its tombstone, or runs: then it is active.
LEMMA TokenizeOneInv == ASSUME IndInv, NEW w \in Worker, TokenizeOne(w) PROVE IndInv'
<1> DEFINE m == Head(queue[w])
           u == m.id
<1>1. /\ queue[w] # <<>> /\ m.t = "gen" /\ queue' = [queue EXCEPT ![w] = Tail(@)]
      /\ \/ refused' = refused \cup {u} /\ UNCHANGED backend
         \/ /\ u \in backend.tombs /\ backend' = [backend EXCEPT !.tombs = @ \ {u}]
            /\ UNCHANGED refused
         \/ /\ u \notin backend.tombs /\ backend' = [backend EXCEPT !.running = @ \cup {u}]
            /\ UNCHANGED refused
      /\ UNCHANGED <<gateVars, sup, userVars, statVars, abortTask, callVars, stopVars, out,
                     sampled, faults, down>>
  BY DEF TokenizeOne
<1>2. /\ queue' \in [Worker -> Seq(Msg)] /\ m \in Msg
      /\ \A T : /\ Nowhere(queue, T) => Nowhere(queue', T) /\ m \notin T
                /\ m \notin T /\ Nowhere(queue', T) => Nowhere(queue, T)
                /\ AtMostOne(queue, T) => AtMostOne(queue', T)
                /\ AtMostOne(queue, T) /\ m \in T => Nowhere(queue', T)
  BY <1>1, HeadFacts
<1>3. u \in User /\ m = [t |-> "gen", id |-> u]
  BY <1>1, <1>2, Sorts DEF Rebuilds
<1>4. \A v \in User : m \in GenOf(v) <=> v = u
  <2> HIDE DEF m, u
  <2>1. PICK x \in User : x = u /\ m = [t |-> "gen", id |-> x]
    BY <1>3
  <2> QED BY <2>1, Kinds
<1>5. m \in MsgOf(u)
  <2> HIDE DEF m, u
  <2>1. PICK x \in User : x = u /\ m = [t |-> "gen", id |-> x]
    BY <1>3
  <2> QED BY <2>1, Kinds
<1> HIDE DEF m, u
<1>6. /\ backend.running \subseteq User /\ backend.over \subseteq User
      /\ backend.tombs \subseteq User
      /\ backend' \in [alive : BOOLEAN, running : SUBSET User, over : SUBSET User,
                       tombs : SUBSET User, crashed : BOOLEAN]
      /\ backend'.over = backend.over
      /\ \/ /\ refused' = refused \cup {u} /\ backend'.running = backend.running
            /\ backend'.tombs = backend.tombs
         \/ /\ u \in backend.tombs /\ backend'.running = backend.running
            /\ backend'.tombs = backend.tombs \ {u} /\ UNCHANGED refused
         \/ /\ u \notin backend.tombs /\ backend'.running = backend.running \cup {u}
            /\ backend'.tombs = backend.tombs /\ UNCHANGED refused
  BY <1>1, <1>3 DEF IndInv, Types
<1>7. Types'
  <2>1. TypeOK'
    BY SMTT(30), <1>1, <1>2, <1>3
       DEF IndInv, Types, TypeOK, gateVars, userVars, statVars, callVars, stopVars
  <2> QED BY <1>1, <1>6, <2>1 DEF IndInv, Types, gateVars
<1>8. UserInv'
  <2> SUFFICES ASSUME NEW v \in User PROVE (InOrder(v) /\ Life(v) /\ Ended(v) /\ Counted(v))'
    BY DEF UserInv
  <2>1. InOrder(v) /\ Life(v) /\ Ended(v) /\ Counted(v)
    BY DEF IndInv, UserInv
  <2>2. InOrder(v)' /\ Counted(v)'
    BY <1>1, <1>6, <2>1 DEF InOrder, Counted, statVars
  <2>3. CASE v = u
    <3>1. /\ client[v] # "new" /\ ~Nowhere(queue, GenOf(v)) /\ Nowhere(queue', GenOf(v))
          /\ AtMostOne(queue', GenOf(v))
      BY <1>2, <1>4, <1>5, <2>1, <2>3 DEF Life
    <3>2. MaxTokens > 0
      OBVIOUS
    <3>3. Life(v)'
      BY <1>1, <1>6, <2>1, <2>3, <3>1, <3>2 DEF Life, userVars, statVars
    <3>4. Ended(v)'
      BY <1>1, <1>6, <2>1, <2>3, <3>1 DEF Ended, userVars, statVars
    <3> QED BY <2>2, <3>3, <3>4
  <2>4. CASE v # u
    <3>1. /\ Nowhere(queue, GenOf(v)) <=> Nowhere(queue', GenOf(v))
          /\ Nowhere(queue, MsgOf(v)) => Nowhere(queue', MsgOf(v))
          /\ AtMostOne(queue, GenOf(v)) => AtMostOne(queue', GenOf(v))
      BY <1>2, <1>4, <2>4
    <3>2. Life(v)'
      BY <1>1, <1>6, <2>1, <2>4, <3>1 DEF Life, userVars, statVars
    <3>3. Ended(v)'
      BY <1>1, <1>6, <2>1, <2>4, <3>1 DEF Ended, userVars, statVars
    <3> QED BY <2>2, <3>2, <3>3
  <2> QED BY <2>3, <2>4
<1>9. SealInv'
  BY <1>1, SealFrame DEF IndInv, userVars, statVars, stopVars
<1>10. GateInv'
  BY <1>1, <1>2, GateFrame DEF IndInv, gateVars, callVars
<1> QED BY <1>7, <1>8, <1>9, <1>10 DEF IndInv

\* An abort ends its request for good, behind every token of it.
LEMMA AbortOneInv == ASSUME IndInv, NEW w \in Worker, AbortOne(w) PROVE IndInv'
<1> DEFINE m == Head(queue[w])
           u == m.id
           a == [t |-> "error", id |-> u]
<1>1. /\ queue[w] # <<>> /\ m.t = "abort" /\ queue' = [queue EXCEPT ![w] = Tail(@)]
      /\ backend' = [backend EXCEPT !.running = @ \ {u}, !.tombs = @ \cup {u}, !.over = @ \cup {u}]
      /\ out' = Append(out, a)
      /\ UNCHANGED <<gateVars, sup, userVars, statVars, abortTask, callVars, stopVars, refused,
                     sampled, faults, down>>
  BY DEF AbortOne, AbortBackend
<1>2. /\ queue' \in [Worker -> Seq(Msg)] /\ m \in Msg
      /\ \A T : /\ Nowhere(queue, T) => Nowhere(queue', T) /\ m \notin T
                /\ m \notin T /\ Nowhere(queue', T) => Nowhere(queue, T)
                /\ AtMostOne(queue, T) => AtMostOne(queue', T)
  BY <1>1, HeadFacts
<1>3. u \in User /\ m = [t |-> "abort", id |-> u]
  BY <1>1, <1>2, Sorts DEF Rebuilds
<1>4. /\ m \in MsgOf(u) /\ \A v \in User : m \notin GenOf(v)
      /\ a \in Reply /\ a \notin Results
      /\ \A v \in User : a \notin CountsOf(v) /\ (v # u => a \notin FinishesOf(v))
  <2> HIDE DEF m, u
  <2>1. PICK x \in User : x = u /\ m = [t |-> "abort", id |-> x]
    BY <1>3
  <2> QED BY <2>1, Kinds
<1> HIDE DEF m, u, a
<1>5. /\ out' \in Seq(Reply)
      /\ \A T : /\ a \notin T /\ Absent(out, T) => Absent(out', T)
                /\ Once(out, T) /\ a \notin T => Once(out', T)
                /\ \A C : Ordered(out, T, C) /\ a \notin C => Ordered(out', T, C)
                /\ a \notin T => Count(out', T) = Count(out, T)
  BY SMTT(30), <1>1, <1>4, ReplyFacts
<1>6. /\ backend' \in [alive : BOOLEAN, running : SUBSET User, over : SUBSET User,
                       tombs : SUBSET User, crashed : BOOLEAN]
      /\ backend'.over = backend.over \cup {u} /\ backend'.running = backend.running \ {u}
      /\ backend'.tombs = backend.tombs \cup {u}
  BY <1>1, <1>3 DEF IndInv, Types
<1>7. Types'
  <2>1. TypeOK'
    BY SMTT(30), <1>1, <1>2, <1>5
       DEF IndInv, Types, TypeOK, gateVars, userVars, statVars, callVars, stopVars
  <2> QED BY <1>1, <1>6, <2>1 DEF IndInv, Types, gateVars
<1>8. UserInv'
  <2> SUFFICES ASSUME NEW v \in User PROVE (InOrder(v) /\ Life(v) /\ Ended(v) /\ Counted(v))'
    BY DEF UserInv
  <2>1. InOrder(v) /\ Life(v) /\ Ended(v) /\ Counted(v)
    BY DEF IndInv, UserInv
  <2>2. client[v] = "new" => v # u
    BY <1>2, <1>4, <2>1 DEF Life
  <2>3. /\ Nowhere(queue, GenOf(v)) <=> Nowhere(queue', GenOf(v))
        /\ Nowhere(queue, MsgOf(v)) => Nowhere(queue', MsgOf(v))
        /\ AtMostOne(queue, GenOf(v)) => AtMostOne(queue', GenOf(v))
    BY <1>2, <1>4
  <2>4. InOrder(v)'
    BY <1>4, <1>5, <1>6, <2>1 DEF InOrder
  <2>5. Counted(v)'
    BY <1>1, <1>4, <1>5, <2>1 DEF Counted, statVars
  <2>6. Life(v)'
    BY <1>1, <1>6, <2>1, <2>2, <2>3 DEF Life, userVars, statVars
  <2>7. Ended(v)'
    BY <1>1, <1>4, <1>5, <1>6, <2>1, <2>3 DEF Ended, userVars, statVars
  <2> QED BY <2>4, <2>5, <2>6, <2>7
<1>9. SealInv'
  BY <1>1, SealFrame DEF IndInv, userVars, statVars, stopVars
<1>10. GateInv'
  BY <1>1, <1>2, <1>4, <1>5, GateFrame DEF IndInv, gateVars, callVars
<1> QED BY <1>7, <1>8, <1>9, <1>10 DEF IndInv

\* The answer to the one rebuild takes its place.
LEMMA RebuildOneInv == ASSUME IndInv, NEW w \in Worker, RebuildOne(w) PROVE IndInv'
<1> DEFINE m == Head(queue[w])
<1>1. PICK ok \in BOOLEAN : out' = Append(out, [t |-> "rebuild", id |-> m.id, ok |-> ok])
  BY DEF RebuildOne
<1> DEFINE a == [t |-> "rebuild", id |-> m.id, ok |-> ok]
<1>2. /\ queue[w] # <<>> /\ m.t = "rebuild" /\ queue' = [queue EXCEPT ![w] = Tail(@)]
      /\ out' = Append(out, a)
      /\ UNCHANGED <<gateVars, sup, userVars, statVars, abortTask, callVars, stopVars, refused,
                     backVars, faults, down>>
  BY <1>1 DEF RebuildOne
<1>3. /\ queue' \in [Worker -> Seq(Msg)] /\ m \in Msg
      /\ \A T : /\ Nowhere(queue, T) => Nowhere(queue', T) /\ m \notin T
                /\ m \notin T /\ Nowhere(queue', T) => Nowhere(queue, T)
                /\ AtMostOne(queue, T) => AtMostOne(queue', T)
                /\ AtMostOne(queue, T) /\ m \in T => Nowhere(queue', T)
  BY <1>2, HeadFacts
<1>4. m \in Rebuilds
  BY <1>2, <1>3, Sorts
<1>5. a \in Results /\ a \in Reply
  BY <1>4 DEF Rebuilds, Results, Reply
<1>6. \A v \in User : /\ m \notin MsgOf(v) /\ m \notin GenOf(v)
                      /\ a \notin CountsOf(v) /\ a \notin FinishesOf(v)
  BY <1>4, <1>5, Kinds
<1> HIDE DEF m, a
<1>7. /\ out' \in Seq(Reply)
      /\ \A T : /\ a \notin T /\ Absent(out, T) => Absent(out', T)
                /\ Once(out, T) /\ (a \notin T \/ Absent(out, T)) => Once(out', T)
                /\ \A C : Ordered(out, T, C) /\ a \notin C => Ordered(out', T, C)
                /\ a \notin T => Count(out', T) = Count(out, T)
  BY <1>2, <1>5, ReplyFacts
<1>8. Types'
  <2>1. TypeOK'
    BY <1>2, <1>3, <1>7
       DEF IndInv, Types, TypeOK, gateVars, userVars, statVars, callVars, stopVars, backVars
  <2> QED BY <1>2, <2>1 DEF IndInv, Types, gateVars, backVars
<1>9. UserInv'
  <2>1. \A u \in User : \A by \in {"client", "stop"} :
            client[u] = "new" => <<u, by>> \notin abortTask
    BY DEF IndInv, UserInv, Life
  <2> QED BY <1>2, <1>3, <1>6, <1>7, <2>1, UserFrame DEF IndInv, userVars, statVars, backVars
<1>10. SealInv'
  BY <1>2, SealFrame DEF IndInv, userVars, statVars, stopVars, backVars
<1>11. GateInv'
  <2>1. ~Nowhere(queue, Rebuilds) /\ AtMostOne(queue, Rebuilds) /\ Unsent /\ Absent(out, Results)
    BY <1>3, <1>4 DEF IndInv, GateInv, Single
  <2>2. gate # "serving" /\ sup \notin {"load", "opening"} /\ loop = Free
    BY <2>1 DEF IndInv, GateInv, Single, Idle
  <2>3. /\ Nowhere(queue', Rebuilds) /\ AtMostOne(queue', Rebuilds) /\ Once(out', Results)
        /\ UNCHANGED <<gate, sup, loop, call>>
    BY <1>2, <1>3, <1>4, <1>7, <2>1 DEF IndInv, GateInv, Single, gateVars, callVars
  <2>4. Single'
    BY <2>1, <2>2, <2>3 DEF Single, Unsent
  <2> QED BY <2>2, <2>3, <2>4 DEF GateInv
<1> QED BY <1>8, <1>9, <1>10, <1>11 DEF IndInv

\* A reply of the scheduler about a request that runs: then the request is active.
LEMMA GenerateInv == ASSUME IndInv, NEW u \in User, Generate(u) PROVE IndInv'
<1>1. PICK t \in {"token", "last", "error"} :
          /\ t = "token" => sampled[u] < MaxTokens - 1
          /\ t = "error" => sampled[u] = 0
          /\ out' = Append(out, [t |-> t, id |-> u])
          /\ sampled' = [sampled EXCEPT ![u] = IF t = "error" THEN @ ELSE @ + 1]
          /\ backend' = IF t = "token" THEN backend
                         ELSE [backend EXCEPT !.running = @ \ {u}, !.over = @ \cup {u}]
  BY DEF Generate
<1> DEFINE a == [t |-> t, id |-> u]
<1>2. /\ u \in backend.running
      /\ UNCHANGED <<gateVars, sup, userVars, statVars, abortTask, callVars, stopVars, queue,
                     refused, faults, down>>
  BY DEF Generate
<1>3. /\ a \in Reply /\ a \notin Results
      /\ \A v \in User : /\ a \in CountsOf(v) <=> v = u /\ t # "error"
                         /\ a \in FinishesOf(v) <=> v = u /\ t # "token"
  BY <1>1, Kinds
<1> HIDE DEF a
<1>4. /\ out' \in Seq(Reply)
      /\ \A T : /\ a \notin T /\ Absent(out, T) => Absent(out', T)
                /\ Once(out, T) /\ a \notin T => Once(out', T)
                /\ \A C : Ordered(out, T, C) /\ (a \notin C \/ Absent(out, T)) =>
                              Ordered(out', T, C)
                /\ Count(out', T) = IF a \in T THEN Count(out, T) + 1 ELSE Count(out, T)
                /\ Count(out, T) \in Nat
  <2>1. out' = Append(out, a)
    BY <1>1 DEF a
  <2> QED BY <1>3, <2>1, ReplyFacts
<1>5. /\ backend' \in [alive : BOOLEAN, running : SUBSET User, over : SUBSET User,
                       tombs : SUBSET User, crashed : BOOLEAN]
      /\ backend'.tombs = backend.tombs
      /\ t = "token" => backend'.over = backend.over /\ backend'.running = backend.running
      /\ t # "token" => /\ backend'.over = backend.over \cup {u}
                        /\ backend'.running = backend.running \ {u}
  BY <1>1 DEF IndInv, Types
<1>6. /\ sampled \in [User -> 0 .. MaxTokens] /\ sampled[u] < MaxTokens /\ u \notin backend.over
      /\ \A v \in User : v # u => sampled'[v] = sampled[v]
      /\ sampled'[u] = IF t = "error" THEN sampled[u] ELSE sampled[u] + 1
      /\ t = "token" => sampled'[u] < MaxTokens
      /\ sampled' \in [User -> 0 .. MaxTokens]
  <2>1. /\ sampled \in [User -> 0 .. MaxTokens] /\ sampled[u] < MaxTokens /\ u \notin backend.over
    BY <1>2 DEF IndInv, UserInv, Life, Types, TypeOK
  <2>2. sampled[u] \in Nat /\ MaxTokens \in Nat
    BY <2>1
  <2>3. sampled' \in [User -> 0 .. MaxTokens]
    BY <1>1, <2>1, <2>2
  <2>4. t = "token" => sampled'[u] < MaxTokens
    BY <1>1, <2>1, <2>2
  <2> QED BY <1>1, <2>1, <2>3, <2>4
<1>7. Types'
  <2>1. TypeOK'
    BY <1>2, <1>4, <1>6
       DEF IndInv, Types, TypeOK, gateVars, userVars, statVars, callVars, stopVars
  <2> QED BY <1>2, <1>5, <2>1 DEF IndInv, Types, gateVars
<1>8. UserInv'
  <2> SUFFICES ASSUME NEW v \in User PROVE (InOrder(v) /\ Life(v) /\ Ended(v) /\ Counted(v))'
    BY DEF UserInv
  <2>1. InOrder(v) /\ Life(v) /\ Ended(v) /\ Counted(v)
    BY DEF IndInv, UserInv
  <2>2. Counted(v)'
    <3>1. counted[v] \in Nat /\ sampled[v] \in Nat /\ Count(out, CountsOf(v)) \in Nat
      BY <1>4 DEF IndInv, Types, TypeOK
    <3>2. a \in CountsOf(v) <=> v = u /\ t # "error"
      BY <1>3
    <3>3. Count(out', CountsOf(v)) = IF v = u /\ t # "error" THEN Count(out, CountsOf(v)) + 1
                                     ELSE Count(out, CountsOf(v))
      BY <1>4, <3>2
    <3>4. sampled'[v] = IF v = u /\ t # "error" THEN sampled[v] + 1 ELSE sampled[v]
      BY <1>6
    <3> QED BY <1>2, <2>1, <3>1, <3>3, <3>4 DEF Counted, statVars
  <2>3. CASE v = u
    <3>1. Absent(out, FinishesOf(v))
      BY <1>6, <2>1, <2>3 DEF InOrder
    <3>2. InOrder(v)'
      BY <1>3, <1>4, <1>5, <2>1, <2>3, <3>1 DEF InOrder
    <3>3. /\ client[v] # "new" /\ v \in inflight /\ v \notin refused /\ Nowhere(queue, GenOf(v))
      BY <1>2, <2>1, <2>3 DEF Life, Ended
    <3>4. Life(v)'
      BY <1>2, <1>5, <1>6, <2>1, <2>3, <3>3 DEF Life, userVars, statVars
    <3>5. Ended(v)'
      BY <1>2, <2>3, <3>3 DEF Ended, userVars, statVars
    <3> QED BY <2>2, <3>2, <3>4, <3>5
  <2>4. CASE v # u
    <3>1. InOrder(v)'
      BY <1>3, <1>4, <1>5, <2>1, <2>4 DEF InOrder
    <3>2. Life(v)'
      BY <1>2, <1>5, <1>6, <2>1, <2>4 DEF Life, userVars, statVars
    <3>3. Ended(v)'
      BY <1>2, <1>3, <1>4, <1>5, <2>1, <2>4 DEF Ended, userVars, statVars
    <3> QED BY <2>2, <3>1, <3>2, <3>3
  <2> QED BY <2>3, <2>4
<1>9. SealInv'
  <2>1. \A v \in User : client[v] # "new" /\ v \notin inflight => v # u
    BY <1>2 DEF IndInv, UserInv, Ended
  <2> QED BY <1>2, <1>6, <2>1, SealFrame DEF IndInv, userVars, statVars, stopVars
<1>10. GateInv'
  BY <1>2, <1>3, <1>4, GateFrame DEF IndInv, gateVars, callVars
<1> QED BY <1>7, <1>8, <1>9, <1>10 DEF IndInv

-----------------------------------------------------------------------------
(* The supervisor, crashes and the end of the process *)

\* The supervisor opens the gate only from its first states, when no rebuild was ever asked for.
LEMMA SupervisorInv == ASSUME IndInv, Supervisor PROVE IndInv'
<1>1. /\ UNCHANGED <<loop, userVars, statVars, abortTask, callVars, stopVars, wireVars, backVars,
                     faults, down>>
      /\ fatal' \in {fatal, TRUE}
      /\ \/ sup = "load" /\ sup' = "opening" /\ gate = "loading" /\ UNCHANGED gate
         \/ sup' \in {"watch", "off", "failing"} /\ UNCHANGED gate
         \/ sup = "opening" /\ gate' = "serving" /\ sup' = "watch"
         \/ gate' = "failed" /\ sup' = "failed"
  <2>1. CASE Ready
    BY <2>1 DEF Ready, gateVars
  <2>2. CASE Open
    BY <2>2 DEF Open
  <2>3. CASE NoticeDeath
    BY <2>3 DEF NoticeDeath
  <2>4. CASE Fail
    BY <2>4 DEF Fail
  <2> QED BY <2>1, <2>2, <2>3, <2>4 DEF Supervisor
<1>2. Types'
  <2>1. TypeOK'
    BY ZenonT(30), <1>1
       DEF IndInv, Types, TypeOK, userVars, statVars, callVars, stopVars, wireVars, backVars
  <2> QED BY <1>1, <2>1 DEF IndInv, Types, backVars
<1>3. UserInv' /\ SealInv'
  BY <1>1, Quiet DEF backVars
<1>4. GateInv'
  <2>1. UNCHANGED <<call, queue, out, loop>>
    BY <1>1 DEF callVars, wireVars
  <2>2. Idle' = Idle /\ (Single => Single')
    BY <2>1 DEF Single, Idle, Unsent
  <2>3. loop = Free => loop.op # "resolve"
    BY DEF Free
  <2> QED BY <1>1, <2>1, <2>2, <2>3 DEF IndInv, GateInv
<1> QED BY <1>2, <1>3, <1>4 DEF IndInv

\* Dead workers and a dead process send nothing.
LEMMA ProcessInv == ASSUME IndInv, Process \/ Crash PROVE IndInv'
<1>1. /\ UNCHANGED <<gateVars, sup, userVars, statVars, abortTask, callVars, stopVars, wireVars,
                     sampled, faults>>
      /\ down' \in {"up", "flagged", "down"}
      /\ backend' \in [alive : BOOLEAN, running : SUBSET User, over : SUBSET User,
                       tombs : SUBSET User, crashed : BOOLEAN]
      /\ UNCHANGED <<backend.running, backend.over, backend.tombs>>
  <2>1. /\ down \in {"up", "flagged", "down"}
        /\ backend \in [alive : BOOLEAN, running : SUBSET User, over : SUBSET User,
                        tombs : SUBSET User, crashed : BOOLEAN]
    BY DEF IndInv, Types, TypeOK
  <2>2. CASE Terminate
    BY <2>1, <2>2 DEF Terminate, Shutdown
  <2>3. CASE TerminateWorkers
    BY <2>1, <2>3 DEF TerminateWorkers
  <2>4. CASE Exit
    BY <2>1, <2>4 DEF Exit, backVars
  <2>5. CASE Crash
    BY <2>1, <2>5 DEF Crash
  <2> QED BY <2>2, <2>3, <2>4, <2>5 DEF Process
<1>2. Types'
  <2>1. TypeOK'
    BY <1>1 DEF IndInv, Types, TypeOK, gateVars, userVars, statVars, callVars, stopVars, wireVars
  <2> QED BY <1>1, <2>1 DEF IndInv, Types, gateVars
<1>3. UserInv' /\ SealInv'
  BY <1>1, Quiet
<1>4. GateInv'
  BY <1>1, GateStill DEF IndInv, gateVars, callVars, wireVars
<1> QED BY <1>2, <1>3, <1>4 DEF IndInv

-----------------------------------------------------------------------------
(* Theorems *)

\* Nothing was sent yet.
LEMMA InitInv == ASSUME Init PROVE IndInv
<1>1. /\ out = <<>> /\ \A w \in Worker : queue[w] = <<>>
      /\ \A T : Nowhere(queue, T) /\ AtMostOne(queue, T) /\ Absent(out, T) /\ Once(out, T)
  BY DEF Init, Nowhere, AtMostOne, Absent, Once
<1>2. Types
  <2>1. queue \in [Worker -> Seq(Msg)] /\ out \in Seq(Reply)
    BY DEF Init
  <2>2. /\ counted \in [User -> 0 .. MaxTokens] /\ sampled \in [User -> 0 .. MaxTokens]
        /\ faults \in 0 .. MaxFaults
    BY DEF Init
  <2>3. TypeOK
    BY <2>1, <2>2 DEF Init, TypeOK
  <2> QED BY <2>3 DEF Init, Types
<1>3. UserInv
  <2> SUFFICES ASSUME NEW u \in User PROVE InOrder(u) /\ Life(u) /\ Ended(u) /\ Counted(u)
    BY DEF UserInv
  <2>1. InOrder(u)
    BY <1>1 DEF InOrder, Ordered
  <2>2. Life(u)
    BY <1>1 DEF Life, Init
  <2>3. Ended(u)
    BY DEF Ended, Init
  <2>4. Counted(u)
    <3>1. Count(out, CountsOf(u)) = 0
      BY <1>1, <1>2, NoneCounted DEF Types, TypeOK
    <3> QED BY <3>1 DEF Counted, Init
  <2> QED BY <2>1, <2>2, <2>3, <2>4
<1>4. SealInv
  BY DEF SealInv, Init, NoSeal
<1>5. GateInv
  BY <1>1 DEF GateInv, Single, Idle, Unsent, Init
<1> QED BY <1>2, <1>3, <1>4, <1>5 DEF IndInv

\* A step in which nothing happens
LEMMA StutterInv == ASSUME IndInv, UNCHANGED vars PROVE IndInv'
<1>1. Types'
  BY DEF vars, IndInv, Types, TypeOK, gateVars, userVars, statVars, callVars, stopVars, wireVars,
         backVars
<1>2. UserInv' /\ SealInv'
  BY Quiet DEF vars, backVars
<1>3. GateInv'
  BY GateStill DEF vars, IndInv, gateVars, callVars, wireVars
<1> QED BY <1>1, <1>2, <1>3 DEF IndInv

\* The inductive invariant holds of every behaviour of the API server.
THEOREM Inductive == Spec => []IndInv
<1>1. IndInv /\ [Next]_vars => IndInv'
  <2> SUFFICES ASSUME IndInv, [Next]_vars PROVE IndInv'
    OBVIOUS
  <2>1. CASE Handler
    BY <2>1, ClientDoneInv, AbortUserInv, ListenInv, ListenRefusalInv, ResolveRebuildInv,
       SetGateInv, DispatchRebuildInv, CallsInv, SendRebuildInv, StopInv DEF Handler
  <2>2. CASE Client
    BY <2>2, NewUserInv, DisconnectInv DEF Client
  <2>3. CASE Control
    BY <2>3, CheckRebuildInv, CallsInv DEF Control
  <2>4. ASSUME NEW w \in Worker, TokenizeOne(w) \/ AbortOne(w) \/ RebuildOne(w) PROVE IndInv'
    BY <2>4, TokenizeOneInv, AbortOneInv, RebuildOneInv
  <2> QED BY <2>1, <2>2, <2>3, <2>4, StopInv, SupervisorInv, ProcessInv, GenerateInv, StutterInv
          DEF Next
<1> QED BY <1>1, InitInv, PTL DEF Spec

\* Every variable keeps its type, only an active request is being aborted, and no request is
\* counted more often than it can be sampled.
THEOREM TypeCorrect == Spec => []TypeOK
<1>1. IndInv => TypeOK
  BY DEF IndInv, Types
<1> QED BY <1>1, Inductive, PTL

\* "Process shutdown can no longer race the last sampled-token reply": totals that
\* prepare_stop_accounting sealed are all that is ever sampled for the requests they cover, for
\* any number of requests and workers, aborts that overtake their requests included.
THEOREM SealedTotalsAreFinal == Spec => []SealIsFinal
<1>1. IndInv => SealIsFinal
  BY DEF IndInv, SealInv, SealIsFinal
<1> QED BY <1>1, Inductive, PTL

\* A set any two elements of which are equal has at most one.
LEMMA AtMostOneElement ==
    ASSUME NEW S, \A x, y \in S : x = y
    PROVE  Cardinality(S) <= 1
<1>1. CASE S = {}
  BY <1>1, FS_EmptySet
<1>2. ASSUME NEW x \in S PROVE Cardinality(S) = 1
  <2>1. S = {x}
    OBVIOUS
  <2> QED BY <2>1, FS_Singleton
<1> QED BY <1>1, <1>2

\* "A rebuild can never wedge the server", nor can two be under way: while one is between
\* dispatch_rebuild and _resolve_rebuild there is no other and the gate does not serve, whoever
\* timed out, failed, stopped or crashed meanwhile.
THEOREM RebuildKeepsGateShut == Spec => []RebuildHoldsGate
<1>1. IndInv => RebuildHoldsGate
  <2> SUFFICES ASSUME IndInv PROVE RebuildHoldsGate
    OBVIOUS
  <2>1. queue \in [Worker -> Seq(Msg)] /\ out \in Seq(Reply)
    BY DEF IndInv, Types, TypeOK
  <2>2. ASSUME NEW r \in InFlightRebuilds
        PROVE  \/ \E w \in Worker : \E i \in 1 .. Len(queue[w]) :
                      queue[w][i] = [t |-> "rebuild", id |-> r] /\ queue[w][i] \in Rebuilds
               \/ \E i \in 1 .. Len(out) : out[i] \in Results /\ out[i].id = r
    <3>1. CASE \E w \in Worker : [t |-> "rebuild", id |-> r] \in ToSet(queue[w])
      BY <2>1, <3>1, InToSet DEF InFlightRebuilds, Rebuilds
    <3>2. CASE \E m \in ToSet(out) : m.t = "rebuild" /\ m.id = r
      <4>1. PICK i \in 1 .. Len(out) : out[i].t = "rebuild" /\ out[i].id = r
        BY <2>1, <3>2, InToSet
      <4>2. out[i] \in Reply
        BY <2>1
      <4> QED BY <4>1, <4>2, Sorts
    <3> QED BY <3>1, <3>2 DEF InFlightRebuilds
  <2>3. InFlightRebuilds # {} => gate # "serving"
    BY <2>2 DEF IndInv, GateInv, Idle, Nowhere, Absent
  <2>4. \A r, s \in InFlightRebuilds : r = s
    <3> SUFFICES ASSUME NEW r \in InFlightRebuilds, NEW s \in InFlightRebuilds PROVE r = s
      OBVIOUS
    <3>1. Nowhere(queue, Rebuilds) \/ Absent(out, Results)
      BY DEF IndInv, GateInv, Single
    <3>2. CASE Nowhere(queue, Rebuilds)
      <4>1. /\ \E i \in 1 .. Len(out) : out[i] \in Results /\ out[i].id = r
            /\ \E i \in 1 .. Len(out) : out[i] \in Results /\ out[i].id = s
        BY <2>2, <3>2 DEF Nowhere, Absent
      <4> QED BY <4>1 DEF IndInv, GateInv, Single, Once
    <3>3. CASE Absent(out, Results)
      <4>1. /\ \E w \in Worker : \E i \in 1 .. Len(queue[w]) :
                    queue[w][i] = [t |-> "rebuild", id |-> r] /\ queue[w][i] \in Rebuilds
            /\ \E w \in Worker : \E i \in 1 .. Len(queue[w]) :
                    queue[w][i] = [t |-> "rebuild", id |-> s] /\ queue[w][i] \in Rebuilds
        BY <2>2, <3>3 DEF Absent
      <4>2. PICK w \in Worker : \E i \in 1 .. Len(queue[w]) :
                queue[w][i] = [t |-> "rebuild", id |-> r] /\ queue[w][i] \in Rebuilds
        BY <4>1
      <4>3. PICK i \in 1 .. Len(queue[w]) :
                queue[w][i] = [t |-> "rebuild", id |-> r] /\ queue[w][i] \in Rebuilds
        BY <4>2
      <4>4. PICK v \in Worker : \E j \in 1 .. Len(queue[v]) :
                queue[v][j] = [t |-> "rebuild", id |-> s] /\ queue[v][j] \in Rebuilds
        BY <4>1
      <4>5. PICK j \in 1 .. Len(queue[v]) :
                queue[v][j] = [t |-> "rebuild", id |-> s] /\ queue[v][j] \in Rebuilds
        BY <4>4
      <4>6. w = v /\ i = j
        BY <4>3, <4>5 DEF IndInv, GateInv, Single, AtMostOne, Once, Absent
      <4>7. [t |-> "rebuild", id |-> r].id = [t |-> "rebuild", id |-> s].id
        BY <4>3, <4>5, <4>6
      <4> QED BY <4>7
    <3> QED BY <3>1, <3>2, <3>3
  <2> QED BY <2>3, <2>4, AtMostOneElement DEF RebuildHoldsGate
<1> QED BY <1>1, Inductive, PTL

-----------------------------------------------------------------------------
(* The contract of the scheduler *)

\* The state of a request in the contract, by the refinement mapping of Contract
Served(u) == IF u \in backend.running THEN "live"
             ELSE IF u \in backend.over THEN "over" ELSE "unsent"

\* What each request may see of a step
MayBecome(u) ==
    \/ Served(u) = "unsent" /\ Served(u)' = "live" /\ sampled'[u] = sampled[u]
    \/ Served(u) = "live" /\ Served(u)' \in {"live", "over"} /\ sampled'[u] = sampled[u] + 1
    \/ Served(u)' = "over" /\ sampled'[u] = sampled[u]
    \/ Served(u)' = Served(u) /\ sampled'[u] = sampled[u]

\* A step that no request objects to is a step of the contract.
LEMMA ContractStep ==
    ASSUME sampled' \in [User -> Nat], \A u \in User : MayBecome(u) PROVE Contract!Next
<1>1. \A u \in User : Served(u)' \in {"unsent", "live", "over"}
  BY DEF Served
<1>2. ASSUME NEW u \in User
      PROVE  Contract!Arrive(u) \/ Contract!Token(u) \/ Contract!End(u) \/ Contract!Same(u)
  BY <1>2 DEF MayBecome, Served, Contract!Arrive, Contract!Token, Contract!End, Contract!Same
<1> QED BY <1>1, <1>2 DEF Contract!Next, Served

\* An arriving request is new to the scheduler, or leaves with its tombstone.
LEMMA TokenizeOneKeeps == ASSUME IndInv, NEW w \in Worker, TokenizeOne(w) PROVE Contract!Next
<1> DEFINE m == Head(queue[w])
           u == m.id
<1>1. /\ queue[w] # <<>> /\ m.t = "gen" /\ UNCHANGED sampled
      /\ queue' = [queue EXCEPT ![w] = Tail(@)]
      /\ \/ UNCHANGED backend
         \/ u \in backend.tombs /\ backend' = [backend EXCEPT !.tombs = @ \ {u}]
         \/ u \notin backend.tombs /\ backend' = [backend EXCEPT !.running = @ \cup {u}]
  BY DEF TokenizeOne
<1>2. m \in Msg /\ \A T : Nowhere(queue, T) => m \notin T
  BY <1>1, HeadFacts
<1>3. u \in User /\ m = [t |-> "gen", id |-> u]
  BY <1>1, <1>2, Sorts DEF Rebuilds
<1>4. m \in GenOf(u)
  <2> HIDE DEF m, u
  <2>1. PICK x \in User : x = u /\ m = [t |-> "gen", id |-> x]
    BY <1>3
  <2> QED BY <2>1, Kinds
<1>5. u \in backend.running \cup backend.over => u \in backend.tombs
  BY <1>2, <1>3, <1>4 DEF IndInv, UserInv, Life
<1> HIDE DEF m, u
<1>6. /\ UNCHANGED backend.over
      /\ \/ UNCHANGED backend.running
         \/ u \notin backend.tombs /\ backend'.running = backend.running \cup {u}
  BY <1>1, <1>3 DEF IndInv, Types
<1>7. ASSUME NEW v \in User PROVE MayBecome(v)
  BY <1>1, <1>5, <1>6 DEF MayBecome, Served
<1>8. sampled' \in [User -> Nat]
  BY <1>1 DEF IndInv, Types, TypeOK
<1> QED BY <1>7, <1>8, ContractStep

\* The acknowledgement of an abort ends the request, whatever it was doing.
LEMMA AbortOneKeeps == ASSUME IndInv, NEW w \in Worker, AbortOne(w) PROVE Contract!Next
<1> DEFINE u == Head(queue[w]).id
<1>1. /\ UNCHANGED sampled
      /\ backend' = [backend EXCEPT !.running = @ \ {u}, !.tombs = @ \cup {u}, !.over = @ \cup {u}]
  BY DEF AbortOne, AbortBackend
<1> HIDE DEF u
<1>2. backend'.over = backend.over \cup {u} /\ backend'.running = backend.running \ {u}
  BY <1>1 DEF IndInv, Types
<1>3. ASSUME NEW v \in User PROVE MayBecome(v)
  BY <1>1, <1>2 DEF MayBecome, Served
<1>4. sampled' \in [User -> Nat]
  BY <1>1 DEF IndInv, Types, TypeOK
<1> QED BY <1>3, <1>4, ContractStep

\* A running request is live; its last reply ends it.
LEMMA GenerateKeeps == ASSUME IndInv, NEW u \in User, Generate(u) PROVE Contract!Next
<1>1. PICK t \in {"token", "last", "error"} :
          /\ sampled' = [sampled EXCEPT ![u] = IF t = "error" THEN @ ELSE @ + 1]
          /\ backend' = IF t = "token" THEN backend
                         ELSE [backend EXCEPT !.running = @ \ {u}, !.over = @ \cup {u}]
  BY DEF Generate
<1>2. /\ t = "token" => backend' = backend
      /\ t # "token" => /\ backend'.over = backend.over \cup {u}
                        /\ backend'.running = backend.running \ {u}
      /\ u \in backend.running
  BY <1>1 DEF IndInv, Types, Generate
<1>3. sampled \in [User -> Nat]
  BY DEF IndInv, Types, TypeOK
<1>4. ASSUME NEW v \in User PROVE MayBecome(v)
  <2>1. sampled'[v] = IF v = u /\ t # "error" THEN sampled[v] + 1 ELSE sampled[v]
    BY <1>1, <1>3
  <2> QED BY <1>1, <1>2, <2>1 DEF MayBecome, Served
<1>5. sampled' \in [User -> Nat]
  BY <1>1, <1>3
<1> QED BY <1>4, <1>5, ContractStep

\* Nothing else touches the scheduler's requests.
LEMMA StepKeepsBackend == ASSUME IndInv, [Next]_vars PROVE [Contract!Next]_(Contract!vars)
<1>1. CASE backend'.running = backend.running /\ backend'.over = backend.over /\ sampled' = sampled
  BY <1>1 DEF Contract!vars
<1>2. CASE Handler
  BY <1>1, <1>2 DEF Handler, ClientDone, AbortUser, Listen, ListenRefusal, ResolveRebuild, SetGate,
         DispatchRebuild, FailPending, SendRebuild, Drained, Barrier, backVars
<1>3. CASE Client \/ Control \/ PrepareStop
  BY <1>1, <1>3 DEF Client, Control, NewUser, Disconnect, CheckRebuild, RebuildTimeout, PrepareStop,
         backVars
<1>4. CASE Supervisor
  BY <1>1, <1>4 DEF Supervisor, Ready, Open, NoticeDeath, Fail, backVars
<1>5. CASE Process \/ Crash
  <2>1. UNCHANGED <<backend.running, backend.over, sampled>>
    BY <1>5 DEF Process, Terminate, Shutdown, TerminateWorkers, Exit, Crash, backVars, IndInv, Types
  <2> QED BY <1>1, <2>1
<1>6. ASSUME NEW w \in Worker, RebuildOne(w) PROVE [Contract!Next]_(Contract!vars)
  BY <1>1, <1>6 DEF RebuildOne, backVars
<1>7. CASE UNCHANGED vars
  BY <1>1, <1>7 DEF vars, backVars
<1> QED BY <1>2, <1>3, <1>4, <1>5, <1>6, <1>7, TokenizeOneKeeps, AbortOneKeeps, GenerateKeeps
        DEF Next

\* Through tokenizer workers that reorder requests and aborts, refusals and repeated stops, the
\* API server drives a scheduler that keeps the contract Backend: it never revives a request
\* whose abort was acknowledged.
THEOREM BackendKept == Spec => KeepsBackend
<1>1. Init => Contract!Init
  BY DEF Init, Contract!Init
<1> QED BY <1>1, StepKeepsBackend, Inductive, PTL DEF Spec, KeepsBackend, Contract!Spec
=============================================================================

----------------------------- MODULE RanksProofs -----------------------------
(* For any number of ranks and messages: every rank takes the batches of the primary, and the *)
(* channels between them hold exactly what the primary has sent and the rank has not read.    *)
EXTENDS Ranks, DataLemmas, TLAPS

-----------------------------------------------------------------------------
(* Slices: every list of messages in the system is a stretch of the arrival order. *)

\* The messages of s after the first a, up to the b-th.
Slice(s, a, b) == [j \in 1 .. b - a |-> s[a + j]]

\* A slice is a sequence of the elements it was cut from.
LEMMA SliceSeq ==
    ASSUME NEW S, NEW s \in Seq(S), NEW a \in Nat, NEW b \in Nat, a <= b, b <= Len(s)
    PROVE  Slice(s, a, b) \in Seq(S) /\ Len(Slice(s, a, b)) = b - a
BY DEF Slice

\* The empty slice.
LEMMA SliceEmpty ==
    ASSUME NEW s, NEW a \in Nat
    PROVE  Slice(s, a, a) = <<>>
BY DEF Slice

\* One message taken from the front.
LEMMA SliceHead ==
    ASSUME NEW S, NEW s \in Seq(S), NEW a \in Nat, NEW b \in Nat, a <= b, b <= Len(s),
           Slice(s, a, b) # <<>>
    PROVE  /\ a < b
           /\ Head(Slice(s, a, b)) = s[a + 1] /\ Tail(Slice(s, a, b)) = Slice(s, a + 1, b)
           /\ <<Head(Slice(s, a, b))>> = Slice(s, a, a + 1) /\ Head(Slice(s, a, b)) \in S
<1>1. a < b
  BY SliceEmpty
<1>2. Head(Slice(s, a, b)) = s[a + 1]
  BY <1>1 DEF Slice
<1>3. Tail(Slice(s, a, b)) = Slice(s, a + 1, b)
  BY <1>1, SliceSeq DEF Slice
<1>4. <<s[a + 1]>> = Slice(s, a, a + 1)
  BY <1>1 DEF Slice
<1>5. s[a + 1] \in S
  BY <1>1
<1> QED BY <1>1, <1>2, <1>3, <1>4, <1>5

\* Two adjacent slices make one.
LEMMA SliceConcat ==
    ASSUME NEW S, NEW s \in Seq(S), NEW a \in Nat, NEW b \in Nat, NEW c \in Nat,
           a <= b, b <= c, c <= Len(s)
    PROVE  Slice(s, a, b) \o Slice(s, b, c) = Slice(s, a, c)
<1>0. Len(s) \in Nat /\ b <= Len(s) /\ a <= c /\ a <= Len(s)
  OBVIOUS
<1>1. Slice(s, a, b) \in Seq(S) /\ Len(Slice(s, a, b)) = b - a
  BY <1>0, SliceSeq
<1>2. Slice(s, b, c) \in Seq(S) /\ Len(Slice(s, b, c)) = c - b
  BY SliceSeq
<1>3. Slice(s, a, c) \in Seq(S) /\ Len(Slice(s, a, c)) = c - a
  BY <1>0, SliceSeq
<1> DEFINE t == Slice(s, a, b) \o Slice(s, b, c)
<1>4. t \in Seq(S) /\ Len(t) = c - a
  BY <1>1, <1>2
<1>5. \A j \in 1 .. c - a : t[j] = Slice(s, a, c)[j]
  <2> SUFFICES ASSUME NEW j \in 1 .. c - a PROVE t[j] = s[a + j]
    BY DEF Slice
  <2>1. CASE j <= b - a
    BY <1>1, <1>2, <2>1 DEF Slice
  <2>2. CASE ~ (j <= b - a)
    <3>1. t[j] = Slice(s, b, c)[j - (b - a)]
      BY <1>1, <1>2, <2>2
    <3>2. j - (b - a) \in 1 .. c - b /\ b + (j - (b - a)) = a + j
      BY <2>2
    <3> QED BY <3>1, <3>2 DEF Slice
  <2> QED BY <2>1, <2>2
<1> HIDE DEF t
<1>6. t = Slice(s, a, c)
  BY <1>3, <1>4, <1>5
<1> QED BY <1>6 DEF t

\* One more message read.
LEMMA SliceAppend ==
    ASSUME NEW S, NEW s \in Seq(S), NEW a \in Nat, NEW b \in Nat, a <= b, b < Len(s)
    PROVE  Append(Slice(s, a, b), s[b + 1]) = Slice(s, a, b + 1)
<1>0. Len(s) \in Nat /\ b <= Len(s) /\ b + 1 <= Len(s) /\ a <= b + 1 /\ b + 1 \in Nat
  OBVIOUS
<1>1. Slice(s, a, b) \in Seq(S) /\ Len(Slice(s, a, b)) = b - a
  BY ZenonT(30), <1>0, SliceSeq
<1>4. s[b + 1] \in S
  BY <1>0
<1>3. Slice(s, a, b + 1) \in Seq(S) /\ Len(Slice(s, a, b + 1)) = b + 1 - a
  BY <1>0 DEF Slice
<1>2. \A j \in 1 .. b + 1 - a : Append(Slice(s, a, b), s[b + 1])[j] = Slice(s, a, b + 1)[j]
  BY <1>1, <1>4 DEF Slice
<1> QED BY <1>1, <1>2, <1>3, <1>4

\* An arrival leaves the slices of what came before as they were, and lengthens the last one.
LEMMA SliceOfAppend ==
    ASSUME NEW S, NEW s \in Seq(S), NEW m \in S
    PROVE  /\ Append(s, m) \in Seq(S) /\ Len(Append(s, m)) = Len(s) + 1
           /\ \A a, b \in Nat : a <= b /\ b <= Len(s) => Slice(Append(s, m), a, b) = Slice(s, a, b)
           /\ \A a \in Nat : a <= Len(s) =>
                  Append(Slice(s, a, Len(s)), m) = Slice(Append(s, m), a, Len(s) + 1)
<1>1. Append(s, m) \in Seq(S) /\ Len(Append(s, m)) = Len(s) + 1 /\ Append(s, m)[Len(s) + 1] = m
  OBVIOUS
<1>2. ASSUME NEW a \in Nat, NEW b \in Nat, a <= b, b <= Len(s)
      PROVE  Slice(Append(s, m), a, b) = Slice(s, a, b)
  BY <1>2 DEF Slice
<1>3. ASSUME NEW a \in Nat, a <= Len(s)
      PROVE  Append(Slice(s, a, Len(s)), m) = Slice(Append(s, m), a, Len(s) + 1)
  <2>1. Slice(Append(s, m), a, Len(s)) = Slice(s, a, Len(s))
    BY <1>2, <1>3
  <2>2. Append(Slice(Append(s, m), a, Len(s)), Append(s, m)[Len(s) + 1]) =
            Slice(Append(s, m), a, Len(s) + 1)
    <3>1. Len(s) \in Nat /\ Len(s) < Len(Append(s, m))
      BY <1>1
    <3> QED BY <1>1, <1>3, <3>1, SliceAppend
  <2> QED BY <1>1, <2>1, <2>2
<1> QED BY <1>1, <1>2, <1>3

-----------------------------------------------------------------------------
(* The inductive invariant *)

\* Batches the primary has decided.
NDecided == Len(log[Primary]) + (IF pc[Primary] = "publish" THEN 1 ELSE 0)

\* What the state says of three histories: F, the messages in the order they arrived; e[i], how
\* many of them are in the first i batches; w[i], the work that is left after i iterations.
\* Iteration i + 1 begins with a blocking receive where w[i] is 0.
Blocked(w, i) == IF w[i] = 0 THEN 1 ELSE 0

\* The batch of iteration i + 1, and the counts broadcast in iterations a + 1 .. b
Batch(F, e, i) == Slice(F, e[i], e[i + 1])
Counts(e, w, a, b) == [j \in 1 .. b - a |-> e[a + j] - (e[a + j - 1] + Blocked(w, a + j - 1))]

\* Read by the primary; forwarded by it
NRead(F) == Len(F) - Len(inbox)
NSent(F) == NRead(F) - Len(more[Primary])

\* The messages arrive once each; the batches cut the arrival order into consecutive stretches.
Histories(F, e, w) ==
    /\ F \in Seq(Message) /\ IsInjective(F) /\ unsent \subseteq Message /\ ToSet(F) \cap unsent = {}
    /\ (\A i \in Nat : e[i] \in Nat) /\ e[0] = 0 /\ e[NDecided] <= Len(F)
    /\ \A i \in Nat : i < NDecided =>
           /\ e[i] + Blocked(w, i) <= e[i + 1] /\ e[i + 1] <= e[NDecided]
           /\ w[i + 1] = WorkAfter(w[i], Batch(F, e, i))
    /\ w[0] = 0

\* Every rank has processed a prefix of the batches and has the work these left it with.
Followed(F, e, w) ==
    /\ log \in [Rank -> Seq(Seq(Message))]
    /\ \A r \in Rank :
        /\ Len(log[r]) <= NDecided /\ work[r] = w[Len(log[r])]
        /\ \A i \in Nat : i < Len(log[r]) => log[r][i + 1] = Batch(F, e, i)

\* Rank 0: what is in its hands is what it has read and not yet put into a batch it processed.
Primary0(F, e, w) ==
    LET n == Len(log[Primary]) IN
    /\ NRead(F) \in 0 .. Len(F) /\ inbox = Slice(F, NRead(F), Len(F))
    /\ pc[Primary] \in {"start", "count", "publish"}
    /\ pc[Primary] = "start" =>
           got[Primary] = <<>> /\ more[Primary] = <<>> /\ NRead(F) = e[n]
    /\ pc[Primary] = "count" =>
           /\ w[n] = 0 /\ NRead(F) = e[n] + 1
           /\ got[Primary] = Slice(F, e[n], e[n] + 1) /\ more[Primary] = <<>>
    /\ pc[Primary] = "publish" =>
           /\ NRead(F) = e[n + 1]
           /\ got[Primary] = Slice(F, e[n], e[n] + Blocked(w, n))
           /\ more[Primary] = Slice(F, e[n] + Blocked(w, n), e[n + 1])

\* Another rank: it holds the messages of its next batch it has read, and its two channels the
\* messages and the counts that the primary has sent and it has not read.
Other1(F, e, w, r) ==
    LET k == Len(log[r])
        p == e[k] + Len(got[r])
    IN
    /\ p \in Nat /\ p <= NSent(F)
    /\ got[r] = Slice(F, e[k], p) /\ sub[r] = Slice(F, p, NSent(F))
    /\ pc[r] \in {"start", "count", "get"}
    /\ pc[r] = "start" => got[r] = <<>> /\ count[r] = Counts(e, w, k, NDecided)
    /\ pc[r] = "count" => Len(got[r]) = 1 /\ w[k] = 0 /\ count[r] = Counts(e, w, k, NDecided)
    /\ pc[r] = "get" => /\ k < NDecided /\ more[r] \in Nat /\ p + more[r] = e[k + 1]
                        /\ count[r] = Counts(e, w, k + 1, NDecided)

Types ==
    /\ got \in [Rank -> Seq(Message)] /\ DOMAIN pc = Rank /\ DOMAIN more = Rank
    /\ DOMAIN work = Rank /\ DOMAIN sub = Other /\ DOMAIN count = Other

Inv(F, e, w) ==
    /\ Types /\ Histories(F, e, w) /\ Followed(F, e, w) /\ Primary0(F, e, w)
    /\ \A r \in Other : Other1(F, e, w, r)

IndInv == \E F, e, w : Inv(F, e, w)

-----------------------------------------------------------------------------
(* Consequences of the invariant, and the counts *)

\* The counts of consecutive iterations are a sequence of numbers.
LEMMA CountsSeq ==
    ASSUME NEW e, NEW w, \A i \in Nat : e[i] \in Nat, NEW a \in Nat, NEW b \in Nat, a <= b
    PROVE  Counts(e, w, a, b) \in Seq(Int) /\ Len(Counts(e, w, a, b)) = b - a
<1>1. \A i \in Nat : Blocked(w, i) \in Nat
  BY DEF Blocked
<1>2. ASSUME NEW j \in 1 .. b - a
      PROVE  e[a + j] - (e[a + j - 1] + Blocked(w, a + j - 1)) \in Int
  <2>1. a + j \in Nat /\ a + j - 1 \in Nat
    OBVIOUS
  <2>2. e[a + j] \in Nat /\ e[a + j - 1] \in Nat /\ Blocked(w, a + j - 1) \in Nat
    BY <1>1, <2>1
  <2> QED BY <2>2
<1> QED BY <1>2 DEF Counts

\* The counts of no iteration; the first count of several.
LEMMA CountsFacts ==
    ASSUME NEW e, NEW w, \A i \in Nat : e[i] \in Nat, NEW a \in Nat, NEW b \in Nat
    PROVE  /\ Counts(e, w, a, a) = <<>>
           /\ a <= b /\ Counts(e, w, a, b) # <<>> =>
                  /\ a < b
                  /\ Head(Counts(e, w, a, b)) = e[a + 1] - (e[a] + Blocked(w, a))
                  /\ Tail(Counts(e, w, a, b)) = Counts(e, w, a + 1, b)
<1>1. Counts(e, w, a, a) = <<>>
  BY DEF Counts
<1>2. ASSUME a <= b, Counts(e, w, a, b) # <<>>
      PROVE  /\ a < b
             /\ Head(Counts(e, w, a, b)) = e[a + 1] - (e[a] + Blocked(w, a))
             /\ Tail(Counts(e, w, a, b)) = Counts(e, w, a + 1, b)
  <2>1. a < b
    BY <1>1, <1>2
  <2>2. Head(Counts(e, w, a, b)) = e[a + 1] - (e[a] + Blocked(w, a))
    BY <2>1 DEF Counts
  <2>3. Tail(Counts(e, w, a, b)) = Counts(e, w, a + 1, b)
    <3> DEFINE c == Counts(e, w, a, b)
               d == Counts(e, w, a + 1, b)
    <3>2. c \in Seq(Int) /\ Len(c) = b - a
      BY <2>1, CountsSeq
    <3>3. d \in Seq(Int) /\ Len(d) = b - a - 1
      BY <2>1, CountsSeq
    <3>4. \A j \in 1 .. b - a - 1 : d[j] = c[j + 1]
      BY <2>1 DEF Counts
    <3> HIDE DEF c, d
    <3>5. Tail(c) \in Seq(Int) /\ Len(Tail(c)) = Len(d)
      BY <2>1, <3>2, <3>3
    <3>8. \A j \in 1 .. b - a - 1 : Tail(c)[j] = c[j + 1]
      BY <2>1, <3>2
    <3>6. \A j \in 1 .. Len(d) : Tail(c)[j] = d[j]
      BY <3>3, <3>4, <3>8
    <3>7. Tail(c) = d
      BY SMTT(30), <3>3, <3>5, <3>6
    <3> QED BY <3>7 DEF c, d
  <2> QED BY <2>1, <2>2, <2>3
<1> QED BY <1>1, <1>2

\* Where the primary stands.
LEMMA PrimaryFacts ==
    ASSUME NEW F, NEW e, NEW w, Inv(F, e, w)
    PROVE  /\ F \in Seq(Message) /\ \A i \in Nat : e[i] \in Nat
           /\ Len(F) \in Nat /\ Len(log[Primary]) \in Nat /\ NDecided \in Nat
           /\ NRead(F) \in Nat /\ NSent(F) \in Nat /\ NSent(F) <= NRead(F) /\ NRead(F) <= Len(F)
           /\ e[NDecided] \in Nat /\ e[NDecided] <= NRead(F) /\ e[Len(log[Primary])] \in Nat
           /\ pc[Primary] = "start" =>
                  NDecided = Len(log[Primary]) /\ NSent(F) = e[Len(log[Primary])]
           /\ pc[Primary] = "count" =>
                  NDecided = Len(log[Primary]) /\ NSent(F) = e[Len(log[Primary])] + 1
           /\ pc[Primary] = "publish" =>
                  /\ NDecided = Len(log[Primary]) + 1
                  /\ NSent(F) = e[Len(log[Primary])] + Blocked(w, Len(log[Primary]))
<1> DEFINE n == Len(log[Primary])
<1>1. F \in Seq(Message) /\ Len(F) \in Nat /\ \A i \in Nat : e[i] \in Nat
  BY DEF Inv, Histories
<1>2. n \in Nat
  BY RanksConstants DEF Inv, Followed
<1>3. NRead(F) \in Nat /\ NRead(F) <= Len(F) /\ Blocked(w, n) \in Nat
  BY <1>1 DEF Inv, Primary0, Blocked
<1>8. e[n] \in Nat /\ e[n + 1] \in Nat
  BY <1>1, <1>2
<1>4. CASE pc[Primary] = "start"
  <2>1. NDecided = n /\ more[Primary] = <<>> /\ NRead(F) = e[n]
    BY <1>2, <1>4 DEF NDecided, Inv, Primary0
  <2>2. NSent(F) = e[n]
    BY <1>3, <1>8, <2>1 DEF NSent
  <2> QED BY <1>1, <1>2, <1>3, <1>8, <1>4, <2>1, <2>2
<1>5. CASE pc[Primary] = "count"
  <2>1. NDecided = n /\ more[Primary] = <<>> /\ NRead(F) = e[n] + 1
    BY <1>2, <1>5 DEF NDecided, Inv, Primary0
  <2>2. NSent(F) = e[n] + 1
    BY <1>3, <1>8, <2>1 DEF NSent
  <2> QED BY <1>1, <1>2, <1>3, <1>8, <1>5, <2>1, <2>2
<1>6. CASE pc[Primary] = "publish"
  <2>1. NDecided = n + 1 /\ n < NDecided /\ NDecided - 1 = n
    BY <1>2, <1>6 DEF NDecided
  <2>2. /\ e[n + 1] = NRead(F) /\ e[n] \in Nat /\ e[n + 1] \in Nat
        /\ more[Primary] = Slice(F, e[n] + Blocked(w, n), e[n + 1])
    BY <1>1, <1>2, <1>6 DEF Inv, Primary0
  <2>3. e[n] + Blocked(w, n) <= e[n + 1] /\ e[n] + Blocked(w, n) \in Nat
    BY <1>2, <1>3, <1>8, <2>1 DEF Inv, Histories
  <2>4. Len(more[Primary]) = e[n + 1] - (e[n] + Blocked(w, n))
    <3> DEFINE a == e[n] + Blocked(w, n)
               b == e[n + 1]
    <3>1. a \in Nat /\ b \in Nat /\ a <= b /\ b <= Len(F)
      BY <1>3, <2>2, <2>3
    <3>2. more[Primary] = Slice(F, a, b)
      BY <2>2
    <3> HIDE DEF a, b
    <3>3. Len(more[Primary]) = b - a
      BY <1>1, <3>1, <3>2, SliceSeq
    <3> QED BY <3>3 DEF a, b
  <2>5. NSent(F) = e[n] + Blocked(w, n)
    BY <1>3, <2>2, <2>3, <2>4 DEF NSent
  <2> QED BY <1>1, <1>2, <1>3, <1>8, <1>6, <2>1, <2>2, <2>3, <2>5
<1>7. pc[Primary] \in {"start", "count", "publish"}
  BY DEF Inv, Primary0
<1> QED BY <1>4, <1>5, <1>6, <1>7

\* The batches cut the messages read into consecutive stretches.
LEMMA BatchFacts ==
    ASSUME NEW F, NEW e, NEW w, Inv(F, e, w), NEW i \in Nat, i < NDecided
    PROVE  /\ e[i] \in Nat /\ e[i + 1] \in Nat /\ Blocked(w, i) \in {0, 1}
           /\ e[i] + Blocked(w, i) <= e[i + 1] /\ e[i] <= e[i + 1]
           /\ e[i + 1] <= e[NDecided] /\ e[i + 1] <= Len(F)
           /\ Batch(F, e, i) \in Seq(Message)
<1>1. /\ e[i] \in Nat /\ e[i + 1] \in Nat /\ Blocked(w, i) \in {0, 1}
      /\ e[i] + Blocked(w, i) <= e[i + 1] /\ e[i + 1] <= e[NDecided]
  BY DEF Inv, Histories, Blocked
<1>2. e[i] <= e[i + 1] /\ e[i + 1] <= Len(F)
  <2>1. e[NDecided] \in Nat /\ e[NDecided] <= Len(F) /\ Len(F) \in Nat
    BY PrimaryFacts
  <2> QED BY <1>1, <2>1
<1>3. Batch(F, e, i) \in Seq(Message)
  BY <1>1, <1>2, PrimaryFacts, SliceSeq DEF Batch
<1> QED BY <1>1, <1>2, <1>3

-----------------------------------------------------------------------------
(* The steps *)

\* RanksInit: nothing has arrived.
LEMMA InitInv == ASSUME RanksInit PROVE IndInv
<1> DEFINE e == [i \in Nat |-> 0]
           w == [i \in Nat |-> 0]
<1> USE RanksConstants DEF RanksInit, Other
<1>1. NDecided = 0 /\ NRead(<<>>) = 0
  BY DEF NDecided, NRead
<1>8. NSent(<<>>) = 0
  BY <1>1 DEF NSent
<1>2. Types
  BY DEF Types
<1>3. Histories(<<>>, e, w)
  BY <1>1 DEF Histories, IsInjective, ToSet
<1>4. Followed(<<>>, e, w)
  BY <1>1 DEF Followed
<1>5. Primary0(<<>>, e, w)
  BY <1>1, SliceEmpty DEF Primary0
<1>6. ASSUME NEW r \in Other PROVE Other1(<<>>, e, w, r)
  <2>1. Counts(e, w, 0, 0) = <<>> /\ Slice(<<>>, 0, 0) = <<>>
    BY SliceEmpty DEF Counts
  <2> QED BY <1>1, <1>8, <2>1 DEF Other1
<1>7. Inv(<<>>, e, w)
  BY <1>2, <1>3, <1>4, <1>5, <1>6 DEF Inv
<1> QED BY <1>7 DEF IndInv

\* A tokenizer's message arrives: the arrival order grows at its end.
LEMMA ArriveInv ==
    ASSUME NEW F, NEW e, NEW w, Inv(F, e, w), Arrive
    PROVE  IndInv'
<1>1. PICK m \in unsent : unsent' = unsent \ {m} /\ inbox' = Append(inbox, m)
  BY DEF Arrive
<1> DEFINE G == Append(F, m)
<1>2. UNCHANGED <<sub, count, pc, got, more, work, log>> /\ m \in Message
  BY <1>1 DEF Arrive, Inv, Histories
<1>3. /\ G \in Seq(Message) /\ Len(G) = Len(F) + 1
      /\ \A a, b \in Nat : a <= b /\ b <= Len(F) => Slice(G, a, b) = Slice(F, a, b)
      /\ inbox' = Slice(G, NRead(F), Len(G)) /\ Len(inbox') = Len(inbox) + 1
      /\ IsInjective(G) /\ ToSet(G) \cap unsent' = {}
  <2>1. /\ G \in Seq(Message) /\ Len(G) = Len(F) + 1
        /\ \A a, b \in Nat : a <= b /\ b <= Len(F) => Slice(G, a, b) = Slice(F, a, b)
    BY <1>2, PrimaryFacts, SliceOfAppend
  <2>2. inbox' = Slice(G, NRead(F), Len(G))
    BY <1>1, <1>2, PrimaryFacts, SliceOfAppend DEF Inv, Primary0
  <2>3. Len(inbox') = Len(inbox) + 1
    BY <1>1, PrimaryFacts, SliceSeq DEF Inv, Primary0
  <2>4. IsInjective(G) /\ ToSet(G) = ToSet(F) \cup {m}
    BY <1>1, <1>2, AppendElems, PrimaryFacts DEF Inv, Histories
  <2> QED BY <1>1, <2>1, <2>2, <2>3, <2>4 DEF Inv, Histories
<1> HIDE DEF G
<1>4. NDecided' = NDecided /\ NRead(G)' = NRead(F) /\ NSent(G)' = NSent(F)
  BY <1>2, <1>3, PrimaryFacts DEF NDecided, NRead, NSent
<1>5. ASSUME NEW i \in Nat, i < NDecided PROVE Batch(G, e, i) = Batch(F, e, i)
  BY <1>3, <1>5, BatchFacts DEF Batch
<1>6. Types'
  BY <1>2, <1>1 DEF Inv, Types
<1>7. Histories(G, e, w)'
  <2>1. e[NDecided] <= Len(G)
    BY <1>3, PrimaryFacts
  <2> QED BY <1>1, <1>2, <1>3, <1>4, <1>5, <2>1 DEF Inv, Histories
<1>8. Followed(G, e, w)'
  <2>1. \A r \in Rank : Len(log[r]) \in Nat /\ Len(log[r]) <= NDecided
    BY DEF Inv, Followed
  <2>2. \A i \in Nat, r \in Rank : i < Len(log[r]) => i < NDecided
    BY <2>1, PrimaryFacts
  <2> QED BY <1>2, <1>4, <1>5, <2>2 DEF Inv, Followed
<1>9. Primary0(G, e, w)'
  <2> DEFINE n == Len(log[Primary])
  <2>1. n \in Nat /\ e[n] \in Nat /\ NRead(F) \in 0 .. Len(G) /\ e[n + 1] \in Nat
    BY <1>3, PrimaryFacts
  <2>2. pc[Primary] = "count" => Slice(G, e[n], e[n] + 1) = Slice(F, e[n], e[n] + 1)
    BY <1>3, <2>1, PrimaryFacts DEF Inv, Primary0
  <2>3. pc[Primary] = "publish" =>
            /\ Slice(G, e[n], e[n] + Blocked(w, n)) = Slice(F, e[n], e[n] + Blocked(w, n))
            /\ Slice(G, e[n] + Blocked(w, n), e[n + 1]) = Slice(F, e[n] + Blocked(w, n), e[n + 1])
    <3> SUFFICES ASSUME pc[Primary] = "publish"
                 PROVE  /\ Slice(G, e[n], e[n] + Blocked(w, n)) =
                                  Slice(F, e[n], e[n] + Blocked(w, n))
                        /\ Slice(G, e[n] + Blocked(w, n), e[n + 1]) =
                                  Slice(F, e[n] + Blocked(w, n), e[n + 1])
      OBVIOUS
    <3> DEFINE a == e[n] + Blocked(w, n)
    <3>1. n < NDecided
      BY <2>1, PrimaryFacts
    <3>2. Blocked(w, n) \in {0, 1} /\ a <= e[n + 1] /\ e[n + 1] <= Len(F)
      BY <2>1, <3>1, BatchFacts
    <3>3. a \in Nat /\ e[n] <= a /\ a <= Len(F)
      BY <2>1, <3>2, PrimaryFacts
    <3> HIDE DEF a
    <3>4. Slice(G, e[n], a) = Slice(F, e[n], a) /\ Slice(G, a, e[n + 1]) = Slice(F, a, e[n + 1])
      BY <1>3, <2>1, <3>2, <3>3
    <3> QED BY <3>4 DEF a
  <2> QED BY <1>2, <1>3, <1>4, <2>1, <2>2, <2>3 DEF Inv, Primary0
<1>11. ASSUME NEW r \in Other PROVE Other1(G, e, w, r)'
  <2> DEFINE k == Len(log[r])
             p == e[k] + Len(got[r])
  <2>1. k \in Nat /\ e[k] \in Nat /\ p \in Nat /\ p <= NSent(F) /\ Len(got[r]) \in Nat
    <3>1. k \in Nat /\ Len(got[r]) \in Nat
      BY DEF Inv, Followed, Types, Other
    <3>2. p \in Nat /\ p <= NSent(F)
      BY DEF Inv, Other1
    <3> QED BY <3>1, <3>2, PrimaryFacts
  <2>2. Slice(G, e[k], p) = Slice(F, e[k], p) /\ Slice(G, p, NSent(F)) = Slice(F, p, NSent(F))
    BY SMTT(30), <1>3, <2>1, PrimaryFacts
  <2> QED BY <1>2, <1>4, <2>1, <2>2 DEF Inv, Other1
<1>10. Inv(G, e, w)'
  BY <1>6, <1>7, <1>8, <1>9, <1>11 DEF Inv
<1> QED BY <1>10 DEF IndInv

\* Where another rank stands.
LEMMA OtherFacts ==
    ASSUME NEW F, NEW e, NEW w, Inv(F, e, w), NEW r \in Other
    PROVE  /\ r \in Rank /\ r # Primary
           /\ Len(log[r]) \in Nat /\ Len(log[r]) <= NDecided /\ e[Len(log[r])] \in Nat
           /\ Len(got[r]) \in Nat /\ e[Len(log[r])] + Len(got[r]) \in Nat
           /\ e[Len(log[r])] + Len(got[r]) <= NSent(F)
           /\ work[r] = w[Len(log[r])]
<1>1. r \in Rank /\ r # Primary
  BY DEF Other
<1>2. /\ Len(log[r]) \in Nat /\ Len(log[r]) <= NDecided /\ Len(got[r]) \in Nat
      /\ work[r] = w[Len(log[r])]
  BY <1>1 DEF Inv, Followed, Types
<1>3. /\ e[Len(log[r])] + Len(got[r]) \in Nat
      /\ e[Len(log[r])] + Len(got[r]) <= NSent(F)
  BY DEF Inv, Other1
<1> QED BY <1>1, <1>2, <1>3, PrimaryFacts

\* A step of another rank touches its own iteration and its own channels only.
LocalTo(r) ==
    /\ UNCHANGED <<unsent, inbox>>
    /\ \A s \in Rank \ {r} : /\ got'[s] = got[s] /\ pc'[s] = pc[s] /\ more'[s] = more[s]
                             /\ work'[s] = work[s] /\ log'[s] = log[s]
    /\ \A s \in Other \ {r} : sub'[s] = sub[s] /\ count'[s] = count[s]

LEMMA LocalStep ==
    ASSUME NEW F, NEW e, NEW w, Inv(F, e, w), NEW r \in Other, LocalTo(r)
    PROVE  /\ NDecided' = NDecided /\ NRead(F)' = NRead(F) /\ NSent(F)' = NSent(F)
           /\ Types' /\ Followed(F, e, w)' /\ Other1(F, e, w, r)' => Inv(F, e, w)'
<1>1. r \in Rank /\ r # Primary /\ Primary \in Rank \ {r}
  BY RanksConstants DEF Other
<1>2. /\ pc'[Primary] = pc[Primary] /\ got'[Primary] = got[Primary]
      /\ more'[Primary] = more[Primary] /\ log'[Primary] = log[Primary]
  BY <1>1 DEF LocalTo
<1>3. NDecided' = NDecided /\ NRead(F)' = NRead(F) /\ NSent(F)' = NSent(F)
  BY <1>2 DEF LocalTo, NDecided, NRead, NSent
<1>4. ASSUME Types', Followed(F, e, w)', Other1(F, e, w, r)' PROVE Inv(F, e, w)'
  <2>1. Histories(F, e, w)'
    BY <1>3 DEF Inv, Histories, LocalTo
  <2>2. Primary0(F, e, w)'
    BY <1>2, <1>3 DEF Inv, Primary0, LocalTo
  <2>3. ASSUME NEW s \in Other, s # r PROVE Other1(F, e, w, s)'
    <3>1. /\ got'[s] = got[s] /\ pc'[s] = pc[s] /\ more'[s] = more[s] /\ log'[s] = log[s]
          /\ sub'[s] = sub[s] /\ count'[s] = count[s]
      BY <2>3 DEF LocalTo, Other
    <3> QED BY <1>3, <3>1 DEF Inv, Other1
  <2> QED BY <1>4, <2>1, <2>2, <2>3 DEF Inv
<1> QED BY <1>3, <1>4

\* An idle rank takes the message it blocked for.
LEMMA Block1Inv ==
    ASSUME NEW F, NEW e, NEW w, Inv(F, e, w), NEW r \in Other, Block1(r)
    PROVE  Inv(F, e, w)'
<1> DEFINE k == Len(log[r])
<1>2. /\ k \in Nat /\ e[k] \in Nat /\ e[k] <= NSent(F)
      /\ NSent(F) <= Len(F) /\ NSent(F) \in Nat /\ w[k] = 0
  BY OtherFacts, PrimaryFacts DEF Block1, MustBlock
<1>3. sub[r] = Slice(F, e[k], NSent(F)) /\ sub[r] # <<>> /\ count[r] = Counts(e, w, k, NDecided)
  BY <1>2 DEF Inv, Other1, Block1
<1>4. /\ e[k] < NSent(F) /\ Head(sub[r]) \in Message /\ <<Head(sub[r])>> = Slice(F, e[k], e[k] + 1)
      /\ Tail(sub[r]) = Slice(F, e[k] + 1, NSent(F))
  <2> DEFINE x == e[k]
             z == NSent(F)
  <2>1. x \in Nat /\ z \in Nat /\ x <= z /\ z <= Len(F) /\ F \in Seq(Message)
    BY <1>2, PrimaryFacts
  <2> HIDE DEF x, z
  <2>2. Slice(F, x, z) # <<>>
    BY <1>3 DEF x, z
  <2>3. x < z /\ Head(Slice(F, x, z)) \in Message /\ <<Head(Slice(F, x, z))>> = Slice(F, x, x + 1)
        /\ Tail(Slice(F, x, z)) = Slice(F, x + 1, z)
    BY <2>1, <2>2, SliceHead
  <2> QED BY <1>3, <2>3 DEF x, z
<1>1. LocalTo(r) /\ Types' /\ Followed(F, e, w)'
  <2>1. LocalTo(r)
    BY DEF Block1, LocalTo, Inv, Types, Other
  <2>2. NDecided' = NDecided
    BY <2>1, LocalStep
  <2>3. Followed(F, e, w)'
    BY <2>2 DEF Block1, Inv, Followed
  <2>4. <<Head(sub[r])>> \in Seq(Message)
    BY <1>4
  <2>5. Types'
    BY <2>4 DEF Block1, Inv, Types
  <2> QED BY <2>1, <2>3, <2>5
<1>5. /\ got'[r] = <<Head(sub[r])>> /\ sub'[r] = Tail(sub[r])
      /\ pc'[r] = "count" /\ Len(got'[r]) = 1
      /\ UNCHANGED <<count, log>>
  BY DEF Block1, Inv, Types, Other
<1>6. Other1(F, e, w, r)'
  BY <1>1, <1>2, <1>3, <1>4, <1>5, LocalStep DEF Other1
<1> QED BY <1>1, <1>6, LocalStep

\* The count of the iteration is received.
LEMMA Count1Inv ==
    ASSUME NEW F, NEW e, NEW w, Inv(F, e, w), NEW r \in Other, Count1(r)
    PROVE  Inv(F, e, w)'
<1> DEFINE k == Len(log[r])
           p == e[k] + Len(got[r])
<1>1. LocalTo(r) /\ Types' /\ Followed(F, e, w)'
  <2>1. LocalTo(r)
    BY DEF Count1, LocalTo, Inv, Types, Other
  <2>2. NDecided' = NDecided
    BY <2>1, LocalStep
  <2>3. Followed(F, e, w)' /\ Types'
    BY <2>2 DEF Count1, Inv, Followed, Types
  <2> QED BY <2>1, <2>3
<1>2. k \in Nat /\ e[k] \in Nat /\ k <= NDecided /\ NDecided \in Nat
  BY OtherFacts, PrimaryFacts
<1>3. count[r] = Counts(e, w, k, NDecided) /\ count[r] # <<>> /\ Len(got[r]) = Blocked(w, k)
  <2>1. CASE pc[r] = "start"
    <3>1. w[k] # 0 /\ got[r] = <<>> /\ Len(<<>>) = 0
      BY <2>1, OtherFacts DEF Inv, Other1, Count1, MustBlock
    <3> QED BY <2>1, <3>1 DEF Inv, Other1, Count1, Blocked
  <2>2. CASE pc[r] = "count"
    BY <2>2 DEF Inv, Other1, Count1, Blocked
  <2> QED BY <2>1, <2>2 DEF Count1
<1>4. /\ k < NDecided /\ Head(count[r]) = e[k + 1] - (e[k] + Blocked(w, k))
      /\ Tail(count[r]) = Counts(e, w, k + 1, NDecided)
  <2>1. \A i \in Nat : e[i] \in Nat
    BY PrimaryFacts
  <2> DEFINE n == NDecided
  <2>2. k \in Nat /\ n \in Nat /\ k <= n /\ Counts(e, w, k, n) # <<>>
    BY <1>2, <1>3
  <2> HIDE DEF k, n
  <2>3. /\ k < n /\ Head(Counts(e, w, k, n)) = e[k + 1] - (e[k] + Blocked(w, k))
        /\ Tail(Counts(e, w, k, n)) = Counts(e, w, k + 1, n)
    BY <2>1, <2>2, CountsFacts
  <2> QED BY <1>3, <2>3 DEF n
<1>5. e[k + 1] \in Nat /\ e[k] + Blocked(w, k) <= e[k + 1] /\ Blocked(w, k) \in {0, 1}
  BY <1>2, <1>4, BatchFacts
<1>6. /\ more'[r] = Head(count[r]) /\ count'[r] = Tail(count[r]) /\ pc'[r] = "get"
      /\ UNCHANGED <<sub, got, log>>
  BY DEF Count1, Inv, Types, Other
<1>7. more'[r] \in Nat /\ p + more'[r] = e[k + 1]
  BY <1>2, <1>3, <1>4, <1>5, <1>6
<1>8. p \in Nat /\ p <= NSent(F) /\ got[r] = Slice(F, e[k], p) /\ sub[r] = Slice(F, p, NSent(F))
  BY DEF Inv, Other1
<1>9. Other1(F, e, w, r)'
  BY <1>1, <1>4, <1>6, <1>7, <1>8, LocalStep DEF Other1
<1> QED BY <1>1, <1>9, LocalStep

\* One more of the counted messages is read.
LEMMA Get1Inv ==
    ASSUME NEW F, NEW e, NEW w, Inv(F, e, w), NEW r \in Other, Get1(r)
    PROVE  Inv(F, e, w)'
<1> DEFINE k == Len(log[r])
           p == e[k] + Len(got[r])
<1>2. /\ k \in Nat /\ e[k] \in Nat /\ p \in Nat /\ e[k] <= p /\ p <= NSent(F) /\ NSent(F) <= Len(F)
      /\ NSent(F) \in Nat /\ NDecided \in Nat /\ e[k + 1] \in Nat
  BY SMTT(30), OtherFacts, PrimaryFacts
<1>3. /\ got[r] = Slice(F, e[k], p) /\ sub[r] = Slice(F, p, NSent(F)) /\ sub[r] # <<>>
      /\ k < NDecided /\ count[r] = Counts(e, w, k + 1, NDecided)
      /\ more[r] \in Nat /\ more[r] > 0 /\ p + more[r] = e[k + 1]
  BY DEF Inv, Other1, Get1
<1>4. /\ p < NSent(F) /\ Head(sub[r]) = F[p + 1]
      /\ Tail(sub[r]) = Slice(F, p + 1, NSent(F)) /\ F[p + 1] \in Message
  <2> HIDE DEF p
  <2> QED BY SMTT(30), <1>2, <1>3, PrimaryFacts, SliceHead
<1>5. Append(got[r], Head(sub[r])) = Slice(F, e[k], p + 1)
  <2> DEFINE a == e[k]
  <2>1. a \in Nat /\ p \in Nat /\ a <= p /\ p < Len(F) /\ F \in Seq(Message)
    BY <1>2, <1>4, PrimaryFacts
  <2>2. got[r] = Slice(F, a, p)
    BY <1>3
  <2> HIDE DEF p, a
  <2>3. Append(Slice(F, a, p), F[p + 1]) = Slice(F, a, p + 1)
    BY <2>1, SliceAppend
  <2> QED BY <1>4, <2>2, <2>3 DEF a
<1>1. LocalTo(r) /\ Types' /\ Followed(F, e, w)'
  <2>1. LocalTo(r)
    BY DEF Get1, LocalTo, Inv, Types, Other
  <2>2. NDecided' = NDecided
    BY <2>1, LocalStep
  <2>3. Followed(F, e, w)'
    BY <2>2 DEF Get1, Inv, Followed
  <2>4. Types'
    BY SMTT(30), <1>4, OtherFacts DEF Get1, Inv, Types
  <2> QED BY <2>1, <2>3, <2>4
<1>6. /\ more'[r] = more[r] - 1 /\ got'[r] = Append(got[r], Head(sub[r])) /\ sub'[r] = Tail(sub[r])
      /\ pc'[r] = "get" /\ UNCHANGED <<count, log>> /\ Len(got'[r]) = Len(got[r]) + 1
  BY OtherFacts DEF Get1, Inv, Types, Other
<1>7. e[k] + Len(got'[r]) = p + 1
  <2>1. Len(got[r]) \in Nat
    BY OtherFacts
  <2> QED BY <1>2, <1>6, <2>1
<1>8. more'[r] \in Nat /\ (p + 1) + more'[r] = e[k + 1]
  <2> HIDE DEF p
  <2> QED BY SMTT(30), <1>2, <1>3, <1>6
<1>9. Other1(F, e, w, r)'
  <2>1. p + 1 \in Nat /\ p + 1 <= NSent(F)
    BY <1>2, <1>4
  <2>2. NDecided' = NDecided /\ NSent(F)' = NSent(F)
    BY <1>1, LocalStep
  <2> HIDE DEF p
  <2> QED BY <1>3, <1>4, <1>5, <1>6, <1>7, <1>8, <2>1, <2>2 DEF Other1
<1> QED BY <1>1, <1>9, LocalStep

\* All of them are there: the rank processes the batch the primary decided.
LEMMA Process1Inv ==
    ASSUME NEW F, NEW e, NEW w, Inv(F, e, w), NEW r \in Other, Process1(r)
    PROVE  /\ Inv(F, e, w)' /\ Len(log[r]) < NDecided
           /\ log' = [log EXCEPT ![r] = Append(@, Batch(F, e, Len(log[r])))]
<1> DEFINE k == Len(log[r])
<1>1. /\ k \in Nat /\ e[k] \in Nat /\ r \in Rank /\ k < NDecided /\ NDecided \in Nat
      /\ e[k] + Len(got[r]) = e[k + 1] /\ e[k + 1] \in Nat /\ e[k + 1] <= NSent(F)
      /\ got[r] = Batch(F, e, k) /\ sub[r] = Slice(F, e[k + 1], NSent(F))
      /\ count[r] = Counts(e, w, k + 1, NDecided)
  <2>1. /\ k \in Nat /\ e[k] \in Nat /\ r \in Rank
        /\ NDecided \in Nat /\ Len(got[r]) \in Nat /\ e[k + 1] \in Nat
    BY OtherFacts, PrimaryFacts
  <2>2. pc[r] = "get" /\ more[r] = 0
    BY DEF Process1, Enough
  <2>3. e[k] + Len(got[r]) = e[k + 1] /\ k < NDecided /\ count[r] = Counts(e, w, k + 1, NDecided)
    BY <2>1, <2>2 DEF Inv, Other1
  <2>4. /\ e[k + 1] <= NSent(F) /\ got[r] = Slice(F, e[k], e[k + 1])
        /\ sub[r] = Slice(F, e[k + 1], NSent(F))
    BY <2>3 DEF Inv, Other1
  <2> QED BY <2>1, <2>3, <2>4 DEF Batch
<1>2. log' = [log EXCEPT ![r] = Append(@, Batch(F, e, k))]
  BY <1>1 DEF Process1, Processed
<1>3. /\ Batch(F, e, k) \in Seq(Message) /\ w[k + 1] = WorkAfter(w[k], Batch(F, e, k))
      /\ work[r] = w[k]
  <2>1. Batch(F, e, k) \in Seq(Message) /\ work[r] = w[k]
    BY <1>1, BatchFacts, OtherFacts
  <2>2. w[k + 1] = WorkAfter(w[k], Batch(F, e, k))
    <3> HIDE DEF k
    <3> QED BY <1>1 DEF Inv, Histories
  <2> QED BY <2>1, <2>2
<1>4. /\ log' \in [Rank -> Seq(Seq(Message))] /\ Len(log'[r]) = k + 1
      /\ log'[r][k + 1] = Batch(F, e, k)
      /\ \A i \in 1 .. k : log'[r][i] = log[r][i]
      /\ \A s \in Rank \ {r} : log'[s] = log[s]
  BY <1>1, <1>2, <1>3 DEF Inv, Followed
<1>5. /\ LocalTo(r) /\ work'[r] = w[k + 1] /\ got'[r] = <<>> /\ pc'[r] = "start"
      /\ UNCHANGED <<sub, count>>
  BY <1>1, <1>3, <1>4 DEF Process1, Processed, LocalTo, Inv, Types, Other
<1>6. NDecided' = NDecided /\ NSent(F)' = NSent(F)
  BY <1>5, LocalStep
<1>7. Types'
  BY <1>1 DEF Process1, Processed, Inv, Types
<1>8. Followed(F, e, w)'
  <2>1. ASSUME NEW s \in Rank
        PROVE  /\ Len(log'[s]) <= NDecided /\ work'[s] = w[Len(log'[s])]
               /\ \A i \in Nat : i < Len(log'[s]) => log'[s][i + 1] = Batch(F, e, i)
    <3>1. CASE s = r
      <4>1. Len(log'[s]) <= NDecided /\ work'[s] = w[Len(log'[s])]
        BY <1>1, <1>4, <1>5, <3>1
      <4>2. ASSUME NEW i \in Nat, i < k + 1 PROVE log'[r][i + 1] = Batch(F, e, i)
        <5>1. CASE i < k
          <6>1. i + 1 \in 1 .. k /\ log[r][i + 1] = Batch(F, e, i)
            BY <1>1, <5>1 DEF Inv, Followed
          <6> QED BY <1>4, <6>1
        <5>2. CASE i = k
          BY <1>4, <5>2
        <5> QED BY <1>1, <4>2, <5>1, <5>2
      <4> QED BY <1>4, <3>1, <4>1, <4>2
    <3>2. CASE s # r
      BY <1>4, <1>5, <3>2 DEF Inv, Followed, LocalTo
    <3> QED BY <3>1, <3>2
  <2> QED BY <1>4, <1>6, <2>1 DEF Followed
<1>9. Other1(F, e, w, r)'
  <2>1. Slice(F, e[k + 1], e[k + 1]) = <<>>
    BY <1>1, SliceEmpty
  <2>2. e[k + 1] + Len(got'[r]) = e[k + 1]
    BY <1>1, <1>5
  <2> QED BY <1>1, <1>4, <1>5, <1>6, <2>1, <2>2 DEF Other1
<1> QED BY <1>1, <1>2, <1>5, <1>7, <1>8, <1>9, LocalStep

\* An idle primary takes the message it blocked for and forwards it.
LEMMA Block0Inv ==
    ASSUME NEW F, NEW e, NEW w, Inv(F, e, w), Block0
    PROVE  Inv(F, e, w)'
<1> DEFINE n == Len(log[Primary])
<1>1. /\ n \in Nat /\ e[n] \in Nat /\ NDecided = n /\ w[n] = 0 /\ NRead(F) = e[n] /\ NSent(F) = e[n]
      /\ Len(F) \in Nat /\ e[n] <= Len(F) /\ F \in Seq(Message)
  BY PrimaryFacts, RanksConstants DEF Inv, Followed, Primary0, Block0
<1>2. /\ e[n] < Len(F) /\ Head(inbox) = F[e[n] + 1] /\ Tail(inbox) = Slice(F, e[n] + 1, Len(F))
      /\ <<Head(inbox)>> = Slice(F, e[n], e[n] + 1) /\ Head(inbox) \in Message
      /\ Len(Tail(inbox)) = Len(F) - (e[n] + 1)
  <2> DEFINE a == e[n]
             b == Len(F)
  <2>1. a \in Nat /\ b \in Nat /\ a <= b /\ inbox = Slice(F, a, b) /\ inbox # <<>>
    BY <1>1 DEF Inv, Primary0, Block0
  <2> HIDE DEF a, b
  <2>2. /\ a < b /\ Head(inbox) = F[a + 1] /\ Tail(inbox) = Slice(F, a + 1, b)
        /\ <<Head(inbox)>> = Slice(F, a, a + 1) /\ Head(inbox) \in Message
    BY <1>1, <2>1, SliceHead DEF b
  <2>3. a + 1 \in Nat /\ a + 1 <= b
    BY <2>1, <2>2
  <2>5. b <= Len(F)
    BY <1>1 DEF b
  <2>4. Len(Tail(inbox)) = b - (a + 1)
    BY <1>1, <2>1, <2>2, <2>3, <2>5, SliceSeq
  <2> QED BY <2>2, <2>4 DEF a, b
<1>3. /\ pc[Primary] = "start" /\ pc'[Primary] = "count" /\ got'[Primary] = <<Head(inbox)>>
      /\ \A s \in Rank \ {Primary} : pc'[s] = pc[s] /\ got'[s] = got[s]
      /\ inbox' = Tail(inbox) /\ UNCHANGED <<unsent, count, more, work, log>>
      /\ more[Primary] = <<>>
  BY RanksConstants DEF Block0, Inv, Types, Primary0
<1>4. NDecided' = n /\ NRead(F)' = e[n] + 1 /\ NSent(F)' = e[n] + 1
  BY <1>1, <1>2, <1>3 DEF NDecided, NRead, NSent
<1>5. Types'
  <2>1. <<Head(inbox)>> \in Seq(Message)
    BY <1>2
  <2> QED BY <2>1 DEF Block0, Inv, Types
<1>6. Histories(F, e, w)' /\ Followed(F, e, w)'
  BY <1>1, <1>3, <1>4 DEF Inv, Histories, Followed
<1>7. Primary0(F, e, w)'
  BY <1>1, <1>2, <1>3, <1>4 DEF Primary0
<1>8. ASSUME NEW r \in Other PROVE Other1(F, e, w, r)'
  <2> DEFINE k == Len(log[r])
             p == e[k] + Len(got[r])
  <2>1. p \in Nat /\ p <= e[n] /\ sub[r] = Slice(F, p, e[n])
    BY <1>1 DEF Inv, Other1
  <2>2. sub'[r] = Append(sub[r], F[e[n] + 1])
    BY <1>2 DEF Block0
  <2>3. sub'[r] = Slice(F, p, e[n] + 1)
    <3> DEFINE a == e[n]
    <3>1. a \in Nat /\ a < Len(F) /\ p \in Nat /\ p <= a
      BY <1>1, <1>2, <2>1
    <3> HIDE DEF a, p
    <3>2. Append(Slice(F, p, a), F[a + 1]) = Slice(F, p, a + 1)
      BY <1>1, <3>1, SliceAppend
    <3> QED BY <2>1, <2>2, <3>2 DEF a
  <2>4. pc'[r] = pc[r] /\ got'[r] = got[r] /\ p <= e[n] + 1
    BY <1>1, <1>3, <2>1 DEF Other
  <2> QED BY SMTT(30), <1>1, <1>3, <1>4, <2>1, <2>3, <2>4 DEF Inv, Other1
<1> QED BY <1>5, <1>6, <1>7, <1>8 DEF Inv

\* What has arrived becomes the rest of the batch; the count goes to the other ranks.
LEMMA Count0Inv ==
    ASSUME NEW F, NEW e, NEW w, Inv(F, e, w), Count0
    PROVE  /\ IndInv'
           /\ pc[Primary] # "publish" /\ pc'[Primary] = "publish" /\ UNCHANGED <<log, got>>
           /\ e[NDecided] <= Len(F)
           /\ got[Primary] \o inbox = Slice(F, e[NDecided], Len(F))
           /\ more' = [more EXCEPT ![Primary] = inbox]
<1>0. PICK n : n = Len(log[Primary])
  OBVIOUS
<1> DEFINE b == Slice(F, e[n], Len(F))
           f == [i \in Nat |-> IF i = n + 1 THEN Len(F) ELSE e[i]]
           v == [i \in Nat |-> IF i = n + 1 THEN WorkAfter(w[n], b) ELSE w[i]]
<1>1. /\ n \in Nat /\ e[n] \in Nat /\ NDecided = n /\ NRead(F) = e[n] + Blocked(w, n)
      /\ NSent(F) = NRead(F) /\ Len(F) \in Nat /\ NRead(F) \in Nat /\ NRead(F) <= Len(F)
      /\ F \in Seq(Message) /\ Blocked(w, n) \in {0, 1} /\ \A i \in Nat : e[i] \in Nat
      /\ got[Primary] = Slice(F, e[n], NRead(F)) /\ more[Primary] = <<>> /\ pc[Primary] # "publish"
  <2>1. CASE pc[Primary] = "start"
    <3>1. n \in Nat /\ e[n] \in Nat /\ NDecided = n /\ NRead(F) = e[n] /\ NSent(F) = e[n]
      BY <1>0, <2>1, PrimaryFacts DEF Inv, Primary0
    <3>2. w[n] # 0
      BY <1>0, <2>1, RanksConstants DEF Count0, Inv, Followed
    <3>3. got[Primary] = <<>> /\ more[Primary] = <<>> /\ Slice(F, e[n], e[n]) = <<>>
      BY <1>0, <2>1, <3>1, SliceEmpty DEF Inv, Primary0
    <3> QED BY <2>1, <3>1, <3>2, <3>3, PrimaryFacts DEF Blocked
  <2>2. CASE pc[Primary] = "count"
    <3>1. n \in Nat /\ e[n] \in Nat /\ NDecided = n /\ NRead(F) = e[n] + 1 /\ NSent(F) = e[n] + 1
      BY <1>0, <2>2, PrimaryFacts DEF Inv, Primary0
    <3>2. w[n] = 0 /\ got[Primary] = Slice(F, e[n], e[n] + 1) /\ more[Primary] = <<>>
      BY <1>0, <2>2, RanksConstants DEF Inv, Primary0
    <3> QED BY <2>2, <3>1, <3>2, PrimaryFacts DEF Blocked
  <2> QED BY <2>1, <2>2 DEF Count0
<1>2. /\ got[Primary] \o inbox = b /\ inbox = Slice(F, NRead(F), Len(F))
      /\ Len(inbox) = Len(F) - NRead(F)
  <2> DEFINE x == e[n]
             y == NRead(F)
             z == Len(F)
  <2>1. x \in Nat /\ y \in Nat /\ z \in Nat /\ x <= y /\ y <= z /\ z <= Len(F) /\ F \in Seq(Message)
    BY <1>1
  <2>2. inbox = Slice(F, y, z) /\ got[Primary] = Slice(F, x, y)
    BY <1>1 DEF Inv, Primary0
  <2> HIDE DEF x, y, z
  <2>3. got[Primary] \o inbox = Slice(F, x, z)
    <3>1. Slice(F, x, y) \o Slice(F, y, z) = Slice(F, x, z)
      BY <2>1, SliceConcat
    <3> QED BY <2>2, <3>1
  <2>4. Len(inbox) = z - y
    BY <2>1, <2>2, SliceSeq
  <2> QED BY <2>2, <2>3, <2>4 DEF x, y, z
<1>3. /\ pc'[Primary] = "publish"
      /\ \A s \in Rank \ {Primary} : pc'[s] = pc[s] /\ more'[s] = more[s]
      /\ more'[Primary] = inbox /\ inbox' = <<>> /\ more' = [more EXCEPT ![Primary] = inbox]
      /\ \A r \in Other : count'[r] = Append(count[r], Len(inbox))
      /\ UNCHANGED <<unsent, sub, got, work, log>>
  BY RanksConstants DEF Count0, Counted, Inv, Types
<1>4. NDecided' = n + 1 /\ NRead(F)' = Len(F) /\ NSent(F)' = NRead(F)
  BY <1>0, <1>1, <1>2, <1>3 DEF NDecided, NRead, NSent
<1>5. /\ f[n + 1] = Len(F) /\ v[n + 1] = WorkAfter(w[n], b)
      /\ \A i \in Nat : i <= n => f[i] = e[i] /\ v[i] = w[i]
      /\ \A i \in Nat : f[i] \in Nat
  BY <1>1
<1> HIDE DEF f, v
<1>6. /\ \A i \in Nat : i <= n => Blocked(v, i) = Blocked(w, i)
      /\ \A i \in Nat : i < n => Batch(F, f, i) = Batch(F, e, i)
      /\ Batch(F, f, n) = b
  BY <1>1, <1>5 DEF Blocked, Batch
<1>7. Types'
  BY DEF Count0, Inv, Types
<1>8. Histories(F, f, v)'
  <2>1. ASSUME NEW i \in Nat, i < n + 1
        PROVE  /\ f[i] + Blocked(v, i) <= f[i + 1] /\ f[i + 1] <= f[n + 1]
               /\ v[i + 1] = WorkAfter(v[i], Batch(F, f, i))
    <3>1. CASE i < n
      <4>1. /\ e[i] + Blocked(w, i) <= e[i + 1] /\ e[i + 1] <= Len(F)
            /\ w[i + 1] = WorkAfter(w[i], Batch(F, e, i))
        BY <1>1, <3>1, BatchFacts DEF Inv, Histories
      <4> QED BY <1>1, <1>5, <1>6, <3>1, <4>1
    <3>2. CASE i = n
      BY <1>1, <1>5, <1>6, <3>2
    <3> QED BY <1>1, <2>1, <3>1, <3>2
  <2>2. f[0] = 0 /\ v[0] = 0
    BY <1>1, <1>5 DEF Inv, Histories
  <2> QED BY <1>1, <1>3, <1>4, <1>5, <2>1, <2>2 DEF Inv, Histories
<1>9. Followed(F, f, v)'
  <2>1. ASSUME NEW r \in Rank
        PROVE  /\ Len(log[r]) <= n + 1 /\ work[r] = v[Len(log[r])]
               /\ \A i \in Nat : i < Len(log[r]) => log[r][i + 1] = Batch(F, f, i)
    <3>1. Len(log[r]) \in Nat /\ Len(log[r]) <= n
      BY <1>1 DEF Inv, Followed
    <3> QED BY <1>1, <1>5, <1>6, <3>1 DEF Inv, Followed
  <2> QED BY <1>3, <1>4, <2>1 DEF Inv, Followed
<1>10. Primary0(F, f, v)'
  <2>1. /\ Slice(F, Len(F), Len(F)) = <<>> /\ f[n] + Blocked(v, n) = NRead(F) /\ f[n] = e[n]
    BY <1>1, <1>5, <1>6, SliceEmpty
  <2> QED BY <1>0, <1>1, <1>2, <1>3, <1>4, <1>5, <2>1 DEF Primary0
<1>11. ASSUME NEW r \in Other PROVE Other1(F, f, v, r)'
  <2> DEFINE k == Len(log[r])
  <2>1. k \in Nat /\ k <= n /\ e[k] \in Nat /\ f[k] = e[k] /\ v[k] = w[k]
    BY <1>1, <1>5, OtherFacts
  <2>2. ASSUME NEW a \in Nat, a <= n
        PROVE  Append(Counts(e, w, a, n), Len(inbox)) = Counts(f, v, a, n + 1)
    <3>1. Len(inbox) = f[n + 1] - (f[n] + Blocked(v, n)) /\ Len(inbox) \in Int
      <4>1. f[n] = e[n] /\ Blocked(v, n) = Blocked(w, n) /\ f[n + 1] = Len(F)
        BY <1>1, <1>5, <1>6
      <4> QED BY <1>1, <1>2, <4>1
    <3>2. \A j \in 1 .. n - a : /\ f[a + j] = e[a + j] /\ f[a + j - 1] = e[a + j - 1]
                               /\ Blocked(v, a + j - 1) = Blocked(w, a + j - 1)
      BY <1>1, <1>5, <1>6, <2>2
    <3> DEFINE c == Counts(e, w, a, n)
               d == Counts(f, v, a, n + 1)
    <3>4. c \in Seq(Int) /\ Len(c) = n - a
      BY <1>1, <2>2, CountsSeq
    <3>5. d \in Seq(Int) /\ Len(d) = n + 1 - a
      <4> DEFINE m == n + 1
      <4>1. m \in Nat /\ a <= m
        BY <1>1, <2>2
      <4>3. d = Counts(f, v, a, m)
        BY DEF m
      <4>4. m - a = n + 1 - a
        BY <1>1 DEF m
      <4> HIDE DEF m
      <4>2. Counts(f, v, a, m) \in Seq(Int) /\ Len(Counts(f, v, a, m)) = m - a
        BY <1>5, <4>1, CountsSeq
      <4> HIDE DEF d
      <4> QED BY <4>2, <4>3, <4>4
    <3>6. d[n + 1 - a] = Len(inbox)
      BY <1>1, <2>2, <3>1 DEF Counts
    <3>7. \A j \in 1 .. n - a : d[j] = c[j]
      BY <1>1, <2>2, <3>2 DEF Counts
    <3> HIDE DEF c, d
    <3>8. Append(c, Len(inbox)) = d
      BY SMTT(30), <1>1, <2>2, <3>1, <3>4, <3>5, <3>6, <3>7
    <3> QED BY <3>8 DEF c, d
  <2>3. pc'[r] = pc[r] /\ more'[r] = more[r] /\ count'[r] = Append(count[r], Len(inbox))
    BY <1>3 DEF Other
  <2>4. k < n => f[k + 1] = e[k + 1]
    BY <1>1, <1>5, <2>1
  <2>5. /\ f[k] + Len(got[r]) = e[k] + Len(got[r]) /\ NSent(F)' = NSent(F) /\ n < n + 1
        /\ sub'[r] = sub[r] /\ got'[r] = got[r] /\ log'[r] = log[r]
    BY <1>1, <1>3, <1>4, <2>1
  <2>6. Other1(F, e, w, r) /\ NDecided = n
    BY <1>1 DEF Inv
  <2>7. /\ pc[r] \in {"start", "count"} => count'[r] = Counts(f, v, k, n + 1)
        /\ pc[r] = "get" => k < n /\ count'[r] = Counts(f, v, k + 1, n + 1)
    <3>1. k < n => k + 1 \in Nat /\ k + 1 <= n
      BY <1>1, <2>1
    <3> QED BY <2>1, <2>2, <2>3, <2>6, <3>1 DEF Other1
  <2>8. k < n => k < n + 1
    BY <1>1, <2>1
  <2> QED BY <1>4, <2>1, <2>3, <2>4, <2>5, <2>6, <2>7, <2>8 DEF Other1
<1>12. Inv(F, f, v)'
  BY <1>7, <1>8, <1>9, <1>10, <1>11 DEF Inv
<1> QED BY <1>1, <1>2, <1>3, <1>12 DEF IndInv

\* The rest of the batch is forwarded and the primary's iteration begins.
LEMMA Publish0Inv ==
    ASSUME NEW F, NEW e, NEW w, Inv(F, e, w), Publish0
    PROVE  Inv(F, e, w)'
<1> DEFINE n == Len(log[Primary])
           a == e[n] + Blocked(w, n)
<1>1. /\ n \in Nat /\ e[n] \in Nat /\ e[n + 1] \in Nat /\ NDecided = n + 1 /\ NRead(F) = e[n + 1]
      /\ NSent(F) = a /\ a \in Nat /\ e[n] <= a /\ a <= e[n + 1] /\ e[n + 1] <= Len(F)
      /\ got[Primary] = Slice(F, e[n], a) /\ more[Primary] = Slice(F, a, e[n + 1])
      /\ F \in Seq(Message) /\ Len(F) \in Nat /\ Primary \in Rank
  <2>1. /\ n \in Nat /\ e[n] \in Nat /\ e[n + 1] \in Nat /\ NDecided = n + 1
        /\ NSent(F) = a /\ F \in Seq(Message) /\ Len(F) \in Nat
    BY PrimaryFacts DEF Publish0
  <2>2. Blocked(w, n) \in {0, 1} /\ a <= e[n + 1] /\ e[n + 1] <= Len(F)
    BY <2>1, BatchFacts
  <2>3. /\ NRead(F) = e[n + 1] /\ got[Primary] = Slice(F, e[n], a)
        /\ more[Primary] = Slice(F, a, e[n + 1])
    BY DEF Inv, Primary0, Publish0
  <2> QED BY <2>1, <2>2, <2>3, RanksConstants
<1>2. got[Primary] \o more[Primary] = Batch(F, e, n) /\ Batch(F, e, n) \in Seq(Message)
  <2> DEFINE x == e[n]
             z == e[n + 1]
  <2>1. x \in Nat /\ a \in Nat /\ z \in Nat /\ x <= a /\ a <= z /\ z <= Len(F)
    BY <1>1
  <2>2. got[Primary] = Slice(F, x, a) /\ more[Primary] = Slice(F, a, z)
    BY <1>1
  <2> HIDE DEF x, a, z
  <2>3. F \in Seq(Message) /\ x <= z
    BY <1>1, <2>1
  <2>4. got[Primary] \o more[Primary] = Slice(F, x, z)
    BY <2>1, <2>2, <2>3, SliceConcat
  <2>5. Slice(F, x, z) \in Seq(Message)
    BY <2>1, <2>3, SliceSeq
  <2> QED BY <2>4, <2>5 DEF Batch, x, z
<1>3. /\ pc'[Primary] = "start" /\ got'[Primary] = <<>> /\ more'[Primary] = <<>>
      /\ log'[Primary] = Append(log[Primary], Batch(F, e, n))
      /\ work'[Primary] = WorkAfter(work[Primary], Batch(F, e, n))
      /\ \A s \in Rank \ {Primary} : /\ pc'[s] = pc[s] /\ got'[s] = got[s] /\ more'[s] = more[s]
                                     /\ log'[s] = log[s] /\ work'[s] = work[s]
      /\ \A r \in Other : sub'[r] = sub[r] \o more[Primary]
      /\ UNCHANGED <<unsent, inbox, count>>
  BY <1>1, <1>2 DEF Publish0, Processed, Inv, Types, Followed
<1>4. /\ log' \in [Rank -> Seq(Seq(Message))] /\ Len(log'[Primary]) = n + 1
      /\ log'[Primary][n + 1] = Batch(F, e, n)
      /\ \A i \in 1 .. n : log'[Primary][i] = log[Primary][i]
  <2>1. log' = [log EXCEPT ![Primary] = Append(@, Batch(F, e, n))]
    BY <1>2 DEF Publish0, Processed
  <2> QED BY <1>1, <1>2, <2>1 DEF Inv, Followed
<1>5. NDecided' = n + 1 /\ NRead(F)' = e[n + 1] /\ NSent(F)' = e[n + 1]
  BY <1>1, <1>3, <1>4 DEF NDecided, NRead, NSent
<1>6. Types'
  BY <1>1 DEF Publish0, Processed, Inv, Types
<1>7. Histories(F, e, w)'
  BY <1>1, <1>3, <1>5 DEF Inv, Histories
<1>8. Followed(F, e, w)'
  <2>1. ASSUME NEW s \in Rank
        PROVE  /\ Len(log'[s]) <= n + 1 /\ work'[s] = w[Len(log'[s])]
               /\ \A i \in Nat : i < Len(log'[s]) => log'[s][i + 1] = Batch(F, e, i)
    <3>1. CASE s = Primary
      <4>1. work'[Primary] = w[n + 1]
        <5>1. work[Primary] = w[n]
          BY <1>1 DEF Inv, Followed
        <5>2. w[n + 1] = WorkAfter(w[n], Batch(F, e, n))
          BY <1>1 DEF Inv, Histories
        <5> QED BY <1>3, <5>1, <5>2
      <4>2. ASSUME NEW i \in Nat, i < n + 1 PROVE log'[Primary][i + 1] = Batch(F, e, i)
        <5>1. CASE i < n
          <6>1. i + 1 \in 1 .. n /\ log[Primary][i + 1] = Batch(F, e, i)
            BY <1>1, <5>1 DEF Inv, Followed
          <6> QED BY <1>4, <6>1
        <5>2. CASE i = n
          BY <1>4, <5>2
        <5> QED BY <1>1, <4>2, <5>1, <5>2
      <4> QED BY <1>1, <1>4, <3>1, <4>1, <4>2
    <3>2. CASE s # Primary
      BY <1>1, <1>3, <3>2 DEF Inv, Followed
    <3> QED BY <3>1, <3>2
  <2> QED BY <1>4, <1>5, <2>1 DEF Followed
<1>9. Primary0(F, e, w)'
  BY <1>1, <1>3, <1>4, <1>5 DEF Inv, Primary0
<1>10. ASSUME NEW r \in Other PROVE Other1(F, e, w, r)'
  <2> DEFINE k == Len(log[r])
             p == e[k] + Len(got[r])
             z == e[n + 1]
  <2>1. p \in Nat /\ p <= a /\ sub[r] = Slice(F, p, a)
    BY <1>1 DEF Inv, Other1
  <2>2. sub'[r] = Slice(F, p, z) /\ p <= z
    <3>1. a \in Nat /\ z \in Nat /\ a <= z /\ z <= Len(F) /\ more[Primary] = Slice(F, a, z)
      BY <1>1
    <3>2. sub'[r] = sub[r] \o more[Primary]
      BY <1>3
    <3> HIDE DEF a, p, z
    <3>3. Slice(F, p, a) \o Slice(F, a, z) = Slice(F, p, z)
      BY <1>1, <2>1, <3>1, SliceConcat
    <3> QED BY <2>1, <3>1, <3>2, <3>3
  <2>3. pc'[r] = pc[r] /\ got'[r] = got[r] /\ more'[r] = more[r] /\ log'[r] = log[r]
    BY <1>3 DEF Other
  <2> QED BY <1>1, <1>3, <1>5, <2>1, <2>2, <2>3 DEF Inv, Other1
<1> QED BY <1>6, <1>7, <1>8, <1>9, <1>10 DEF Inv

-----------------------------------------------------------------------------
(* The theorems *)

\* The inductive invariant holds in every state: of every rank, and of the channels between them.
THEOREM Inductive == RanksSpec => []IndInv
<1>1. IndInv /\ [RanksNext]_ranksVars => IndInv'
  <2> SUFFICES ASSUME IndInv, [RanksNext]_ranksVars PROVE IndInv'
    OBVIOUS
  <2>0. PICK F, e, w : Inv(F, e, w)
    BY DEF IndInv
  <2>1. CASE Arrive
    BY <2>0, <2>1, ArriveInv
  <2>2. CASE Block0
    BY <2>0, <2>2, Block0Inv DEF IndInv
  <2>3. CASE Count0
    BY <2>0, <2>3, Count0Inv
  <2>4. CASE Publish0
    BY <2>0, <2>4, Publish0Inv DEF IndInv
  <2>5. ASSUME NEW r \in Other, Step1(r) PROVE Inv(F, e, w)'
    BY <2>0, <2>5, Block1Inv, Count1Inv, Get1Inv, Process1Inv DEF Step1
  <2>6. CASE UNCHANGED ranksVars
    <3> USE <2>0, <2>6 DEF ranksVars, Inv
    <3>1. NDecided' = NDecided /\ NRead(F)' = NRead(F) /\ NSent(F)' = NSent(F)
      BY DEF NDecided, NRead, NSent
    <3>2. Types' /\ Histories(F, e, w)' /\ Followed(F, e, w)' /\ Primary0(F, e, w)'
      BY <3>1 DEF Types, Histories, Followed, Primary0
    <3>3. ASSUME NEW r \in Other PROVE Other1(F, e, w, r)'
      BY <3>1 DEF Other1
    <3> QED BY <3>2, <3>3 DEF IndInv
  <2> QED BY <2>1, <2>2, <2>3, <2>4, <2>5, <2>6 DEF RanksNext, Step0, IndInv
<1> QED BY <1>1, InitInv, PTL DEF RanksSpec

\* A rank that has caught up with the primary finds nothing in its channels that it could take
\* for part of a later iteration.
THEOREM NothingLeftOver == RanksSpec => []CaughtUpMeansEmpty
<1>1. IndInv => CaughtUpMeansEmpty
  <2> SUFFICES ASSUME IndInv, NEW r \in Other, pc[Primary] # "publish", pc[r] = "start",
                      Len(log[r]) = Len(log[Primary])
               PROVE  count[r] = <<>> /\ sub[r] = got[Primary]
    BY DEF CaughtUpMeansEmpty
  <2>0. PICK F, e, w : Inv(F, e, w)
    BY DEF IndInv
  <2> DEFINE n == Len(log[Primary])
  <2>1. n \in Nat /\ e[n] \in Nat /\ NDecided = n /\ \A i \in Nat : e[i] \in Nat
    BY <2>0, PrimaryFacts DEF Inv, Primary0
  <2>2. count[r] = Counts(e, w, n, n) /\ sub[r] = Slice(F, e[n], NSent(F))
    <3>1. got[r] = <<>> /\ e[n] + Len(<<>>) = e[n]
      BY <2>0, <2>1 DEF Inv, Other1
    <3> QED BY <2>0, <2>1, <3>1 DEF Inv, Other1
  <2>3. Counts(e, w, n, n) = <<>>
    BY <2>1, CountsFacts
  <2>4. Slice(F, e[n], NSent(F)) = got[Primary]
    BY <2>0, <2>1, PrimaryFacts, SliceEmpty DEF Inv, Primary0
  <2> QED BY <2>2, <2>3, <2>4
<1> QED BY <1>1, Inductive, PTL

\* The batches decided so far are the stretches of the arrival order between the marks.
LEMMA DecidedFacts ==
    ASSUME NEW F, NEW e, NEW w, Inv(F, e, w)
    PROVE  /\ Decided \in [Rank -> Seq(Seq(Message))] /\ Len(Decided[Primary]) = NDecided
           /\ \A r \in Other : Decided[r] = log[r]
           /\ \A i \in Nat : i < NDecided => Decided[Primary][i + 1] = Batch(F, e, i)
<1> DEFINE n == Len(log[Primary])
<1>1. log \in [Rank -> Seq(Seq(Message))] /\ Primary \in Rank /\ n \in Nat
  BY RanksConstants DEF Inv, Followed
<1>2. \A i \in Nat : i < n => log[Primary][i + 1] = Batch(F, e, i)
  BY <1>1 DEF Inv, Followed
<1>3. CASE pc[Primary] # "publish"
  BY <1>1, <1>2, <1>3 DEF Decided, NDecided, Other
<1>4. CASE pc[Primary] = "publish"
  <2>1. NDecided = n + 1 /\ n < NDecided
    BY <1>1, <1>4 DEF NDecided
  <2>2. got[Primary] \o more[Primary] = Batch(F, e, n) /\ Batch(F, e, n) \in Seq(Message)
    <3> DEFINE x == e[n]
               a == e[n] + Blocked(w, n)
               z == e[n + 1]
    <3>1. /\ x \in Nat /\ z \in Nat /\ a \in Nat /\ x <= a
          /\ a <= z /\ z <= Len(F) /\ F \in Seq(Message)
      BY <1>1, <2>1, BatchFacts, PrimaryFacts
    <3>2. got[Primary] = Slice(F, x, a) /\ more[Primary] = Slice(F, a, z)
      BY <1>4 DEF Inv, Primary0
    <3>3. Batch(F, e, n) \in Seq(Message)
      BY <1>1, <2>1, BatchFacts
    <3> HIDE DEF x, a, z
    <3>4. got[Primary] \o more[Primary] = Slice(F, x, z)
      BY <3>1, <3>2, SliceConcat
    <3> QED BY <3>3, <3>4 DEF Batch, x, z
  <2>3. Decided = [log EXCEPT ![Primary] = Append(@, Batch(F, e, n))]
    BY <1>4, <2>2 DEF Decided
  <2>4. /\ Decided[Primary] = Append(log[Primary], Batch(F, e, n))
        /\ Decided \in [Rank -> Seq(Seq(Message))] /\ \A r \in Other : Decided[r] = log[r]
    BY <1>1, <2>2, <2>3 DEF Other
  <2>5. Len(Decided[Primary]) = n + 1 /\ Decided[Primary][n + 1] = Batch(F, e, n)
        /\ \A i \in 1 .. n : Decided[Primary][i] = log[Primary][i]
    BY <1>1, <2>2, <2>4
  <2>6. ASSUME NEW i \in Nat, i < n + 1 PROVE Decided[Primary][i + 1] = Batch(F, e, i)
    <3>1. CASE i = n
      BY <2>5, <3>1
    <3>2. CASE i < n
      <4>1. i + 1 \in 1 .. n /\ log[Primary][i + 1] = Batch(F, e, i)
        BY <1>1, <1>2, <3>2
      <4> QED BY <2>5, <4>1
    <3> QED BY <1>1, <2>6, <3>1, <3>2
  <2> QED BY <2>1, <2>4, <2>5, <2>6
<1> QED BY <1>3, <1>4

\* When it counts, the primary decides a batch of messages that were in no batch before.
LEMMA CountLeads ==
    ASSUME IndInv, Count0
    PROVE  Agreement!Lead(Primary)
<1>0. PICK F, e, w : Inv(F, e, w)
  BY DEF IndInv
<1>1. PICK n : n = NDecided
  OBVIOUS
<1> DEFINE a == e[n]
           b == Slice(F, a, Len(F))
<1>2. /\ n \in Nat /\ a \in Nat /\ a <= Len(F) /\ F \in Seq(Message) /\ Len(F) \in Nat
      /\ Primary \in Rank
  BY <1>0, <1>1, PrimaryFacts, RanksConstants
<1>3. /\ pc[Primary] # "publish" /\ pc'[Primary] = "publish" /\ UNCHANGED <<log, got>>
      /\ got[Primary] \o inbox = b /\ more' = [more EXCEPT ![Primary] = inbox]
  BY <1>0, <1>1, Count0Inv
<1>4. b \in Seq(Message) /\ Len(b) = Len(F) - a /\ \A j \in 1 .. Len(b) : b[j] = F[a + j]
  <2>1. b \in Seq(Message) /\ Len(b) = Len(F) - a
    <3> DEFINE z == Len(F)
    <3>1. z \in Nat /\ z <= Len(F) /\ a <= z
      BY <1>2
    <3> HIDE DEF a, z
    <3>2. Slice(F, a, z) \in Seq(Message) /\ Len(Slice(F, a, z)) = z - a
      BY <1>2, <3>1, SliceSeq
    <3> QED BY <3>2 DEF z
  <2> QED BY <1>2, <2>1 DEF Slice
<1> HIDE DEF b
<1>5. Decided' = [Decided EXCEPT ![Primary] = Append(@, b)]
  BY <1>0, <1>2, <1>3 DEF Decided, Inv, Types, Followed
<1>6. Decided \in [Rank -> Seq(Seq(Message))] /\ Len(Decided[Primary]) = n
  BY <1>0, <1>1, DecidedFacts
<1>7. Decided'[Primary] # <<>> /\ Last(Decided'[Primary]) = b
  <2>1. Decided'[Primary] = Append(Decided[Primary], b) /\ Decided[Primary] \in Seq(Seq(Message))
    BY <1>2, <1>5, <1>6
  <2>2. /\ Len(Decided'[Primary]) = n + 1 /\ Decided'[Primary][n + 1] = b
        /\ Decided'[Primary] # <<>>
    <3> DEFINE s == Decided[Primary]
               T == Seq(Message)
    <3>1. s \in Seq(T) /\ b \in T /\ Len(s) = n /\ Decided'[Primary] = Append(s, b)
      BY <1>4, <1>6, <2>1
    <3> HIDE DEF s, T
    <3> QED BY SMTT(30), <1>2, <3>1
  <2> QED BY <2>2 DEF Last
<1>8. \A i, j \in 1 .. Len(F) : F[i] = F[j] => i = j
  BY <1>0, <1>2, Injective DEF Inv, Histories
<1>9. IsInjective(b)
  <2>1. ASSUME NEW i \in 1 .. Len(b), NEW j \in 1 .. Len(b), b[i] = b[j] PROVE i = j
    <3>1. a + i \in 1 .. Len(F) /\ a + j \in 1 .. Len(F) /\ F[a + i] = F[a + j]
      <4>1. F[a + i] = F[a + j]
        BY <1>4, <2>1
      <4>2. i \in 1 .. Len(F) - a /\ j \in 1 .. Len(F) - a
        BY <1>4
      <4> HIDE DEF a
      <4> QED BY <1>2, <4>1, <4>2
    <3>2. a + i = a + j
      BY <1>8, <3>1
    <3> QED BY <1>2, <3>2
  <2> QED BY <1>4, <2>1, Injective
<1>10. ASSUME NEW x \in ToSet(b), x \in Agreement!Taken PROVE FALSE
  <2>1. PICK j \in 1 .. Len(b) : x = b[j]
    BY <1>4, InToSet
  <2>2. PICK i \in DOMAIN Decided[Primary] : x \in ToSet(Decided[Primary][i])
    BY <1>10 DEF Agreement!Taken, Agreement!ToSet, ToSet
  <2>3. i \in 1 .. n /\ i - 1 \in Nat /\ i - 1 < n /\ (i - 1) + 1 = i
    BY <1>2, <1>6, <2>2
  <2>4. Decided[Primary][i] = Batch(F, e, i - 1)
    BY <1>0, <1>1, <2>3, DecidedFacts
  <2>5. /\ e[i - 1] \in Nat /\ e[i] \in Nat /\ e[i - 1] <= e[i] /\ e[i] <= a
        /\ Batch(F, e, i - 1) \in Seq(Message)
    BY <1>0, <1>1, <2>3, BatchFacts
  <2>6. PICK k \in 1 .. e[i] - e[i - 1] : x = F[e[i - 1] + k]
    <3>1. Batch(F, e, i - 1) = [k \in 1 .. e[i] - e[i - 1] |-> F[e[i - 1] + k]]
      BY <2>3 DEF Batch, Slice
    <3>2. PICK k \in 1 .. Len(Batch(F, e, i - 1)) : x = Batch(F, e, i - 1)[k]
      BY <2>2, <2>4, <2>5, InToSet
    <3> QED BY SMTT(30), <2>5, <3>1, <3>2
  <2>7. e[i - 1] + k \in 1 .. Len(F) /\ a + j \in 1 .. Len(F) /\ e[i - 1] + k < a + j
    <3> DEFINE c == e[i - 1]
               d == e[i]
    <3>1. c \in Nat /\ d \in Nat /\ c <= d /\ d <= a /\ k \in 1 .. d - c /\ j \in 1 .. Len(F) - a
      BY <1>4, <2>1, <2>5, <2>6
    <3> HIDE DEF a, c, d
    <3>2. c + k \in 1 .. Len(F) /\ a + j \in 1 .. Len(F) /\ c + k < a + j
      BY <1>2, <3>1
    <3> QED BY <3>2 DEF c
  <2>8. F[e[i - 1] + k] = F[a + j]
    BY <1>4, <2>1, <2>6
  <2>9. e[i - 1] + k = a + j
    BY <1>8, <2>7, <2>8
  <2> QED BY <2>7, <2>9
<1>11. /\ Agreement!Last(Decided'[Primary]) = b /\ Agreement!IsInjective(b)
       /\ Agreement!ToSet(b) \cap Agreement!Taken = {}
  BY <1>7, <1>9, <1>10
     DEF Agreement!Last, Last, Agreement!IsInjective, IsInjective, Agreement!ToSet, ToSet
<1> QED BY <1>4, <1>5, <1>7, <1>11 DEF Agreement!Lead

\* Every step of the ranks is a decision of the primary, another rank taking the next batch, or
\* invisible to the log of batches.
LEMMA StepRefines ==
    ASSUME IndInv, [RanksNext]_ranksVars
    PROVE  [\E r \in Rank : Agreement!Lead(r) \/ Agreement!Follow(r)]_Decided
<1>0. PICK F, e, w : Inv(F, e, w)
  BY DEF IndInv
<1>1. Primary \in Rank /\ \A r \in Other : r \in Rank /\ r # Primary
  BY RanksConstants DEF Other
<1>2. CASE Arrive
  BY <1>2 DEF Arrive, Decided
<1>3. CASE Block0
  BY <1>0, <1>1, <1>3 DEF Block0, Decided, Inv, Types
<1>4. CASE Count0
  BY <1>1, <1>4, CountLeads
<1>5. CASE Publish0
  BY <1>0, <1>1, <1>5 DEF Publish0, Processed, Decided, Inv, Types
<1>6. ASSUME NEW r \in Other, Block1(r) \/ Count1(r) \/ Get1(r) PROVE UNCHANGED Decided
  <2>1. /\ UNCHANGED log /\ pc'[Primary] = pc[Primary] /\ got'[Primary] = got[Primary]
        /\ more'[Primary] = more[Primary]
    BY <1>0, <1>1, <1>6 DEF Block1, Count1, Get1, Inv, Types
  <2> QED BY <2>1 DEF Decided
<1>7. ASSUME NEW r \in Other, Process1(r) PROVE Agreement!Follow(r)
  <2> DEFINE k == Len(log[r])
  <2>1. k < NDecided /\ log' = [log EXCEPT ![r] = Append(@, Batch(F, e, k))] /\ k \in Nat
    BY <1>0, <1>7, Process1Inv, OtherFacts
  <2>2. /\ Decided[r] = log[r] /\ Len(Decided[Primary]) = NDecided
        /\ Decided[Primary][k + 1] = Batch(F, e, k)
    BY <1>0, <2>1, DecidedFacts
  <2>3. /\ pc'[Primary] = pc[Primary] /\ got'[Primary] = got[Primary]
        /\ more'[Primary] = more[Primary] /\ log'[Primary] = log[Primary]
    BY <1>0, <1>1, <1>7 DEF Process1, Processed, Inv, Types, Followed
  <2>4. Decided' = [Decided EXCEPT ![r] = Append(@, Batch(F, e, k))]
    BY <1>0, <1>1, <2>1, <2>3 DEF Decided, Inv, Followed
  <2> QED BY <1>1, <2>1, <2>2, <2>4 DEF Agreement!Follow
<1>8. CASE UNCHANGED ranksVars
  BY <1>8 DEF ranksVars, Decided
<1> QED BY <1>1, <1>2, <1>3, <1>4, <1>5, <1>6, <1>7, <1>8 DEF RanksNext, Step0, Step1

\* The ranks' receive implements Lockstep: whatever the timing, every rank takes the batches of
\* the primary, in order, and no message twice.
THEOREM RanksAgree == RanksSpec => ImplementsLockstep
<1>1. RanksInit => Agreement!LeadInit
  BY RanksConstants DEF RanksInit, Agreement!LeadInit, Decided
<1> QED BY <1>1, StepRefines, Inductive, PTL
       DEF RanksSpec, ImplementsLockstep, Agreement!LockstepSpec
=============================================================================

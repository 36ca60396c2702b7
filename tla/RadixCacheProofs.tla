--------------------------- MODULE RadixCacheProofs ---------------------------
(* The inductive invariant of RadixCache: the tree is a set of page-aligned prefixes, each of  *)
(* them in the key of one node; every page has one owner; every row reads the KV of its own    *)
(* tokens; the counters are those of the tree; what was promised can be evicted.               *)
EXTENDS RadixCache, DataLemmas, FiniteSetTheorems, TLAPS

-----------------------------------------------------------------------------
(* The tree *)

\* A whole number of pages
Aligned(n) == n % PageSize = 0

\* Token paths that a node may end at
Paths == {q \in Seq(Tok) : Len(q) >= 1 /\ Aligned(Len(q))}

\* The node of ns whose key q ends in: the first at or below q.
HomeIn(ns, q, h) ==
    /\ h \in ns /\ IsPrefix(q, h)
    /\ \A m \in ns : IsPrefix(q, m) => IsPrefix(h, m)

\* D is closed under page-aligned prefixes, and each of its members ends in one node's key.
TreeOf(ns, D) ==
    /\ IsFiniteSet(D) /\ D \subseteq Paths /\ ns \subseteq D
    /\ \A q \in D : \A k \in 1 .. Len(q) : Aligned(k) => Upto(q, k) \in D
    /\ \A q \in D : \E h \in ns : HomeIn(ns, q, h)

\* The radix tree
TreeInv == TreeOf(nodes, DOMAIN value)

(* The requests *)

\* Req objects
ReqType == [active : BOOLEAN, toks : Seq(Tok), plen : Nat, max : Nat, cached : Nat, hlen : Nat,
            row : Seq(Page), committed : BOOLEAN]

\* The path that r holds a lock on
Handle(r) == Upto(req[r].toks, req[r].hlen)

\* The row holds the pages of the cached tokens; up to the handle they are those of the tree.
RowOf(r) ==
    /\ req[r].cached <= Len(req[r].toks) /\ req[r].plen <= Len(req[r].toks)
    /\ req[r].hlen <= req[r].cached /\ Aligned(req[r].hlen)
    /\ req[r].cached < req[r].max /\ req[r].plen < req[r].max
    /\ Len(req[r].row) = DivCeil(req[r].cached, PageSize)
    /\ r \in Multimodal => req[r].hlen = 0
    /\ req[r].hlen > 0 => Handle(r) \in nodes
    /\ \A i \in 1 .. Len(req[r].row) :
          i * PageSize <= req[r].hlen => req[r].row[i] = value[Upto(req[r].toks, i * PageSize)]

\* Every running request, and the allocation under way for one of them
ReqInv ==
    /\ req \in [Req -> ReqType] /\ \A r \in Active : RowOf(r)
    /\ \/ alloc = NoAlloc
       \/ /\ alloc.req \in Active /\ alloc.upto \in Nat
          /\ req[alloc.req].cached < alloc.upto /\ alloc.upto < req[alloc.req].max
          /\ alloc.upto <= Len(req[alloc.req].toks)

(* The pages *)

\* The part of the row that is the request's own
OwnAt(r) == {i \in 1 .. Len(req[r].row) : i * PageSize > req[r].hlen}

\* Pages in use
Taken(p) == p \in Range(value) \/ \E r \in Active : p \in Own(r)

\* Every page has one owner; a page without an owner is on the free list, once.
PageInv ==
    /\ value \in [DOMAIN value -> Page] /\ IsInjective(value)
    /\ \A r \in Active : \A i, j \in OwnAt(r) : req[r].row[i] = req[r].row[j] => i = j
    /\ \A r \in Active : Own(r) \cap Range(value) = {}
    /\ \A r, s \in Active : r # s => Own(r) \cap Own(s) = {}
    /\ free \in [Page -> {0, 1}] /\ \A p \in Page : free[p] = 0 <=> Taken(p)

(* The counters *)

\* The requests whose handles lie at or below q
Lockers(q) == {r \in Active : IsPrefix(q, Handle(r))}
Locks(q)   == Cardinality(Lockers(q))

\* ref_count and the two sizes, counted by requests and pages
CountInv ==
    /\ ref \in [nodes -> Nat] /\ \A n \in nodes : ref[n] = Locks(n)
    /\ evictable = PageSize * Cardinality({q \in DOMAIN value : Locks(q) = 0})
    /\ protected = PageSize * Cardinality({q \in DOMAIN value : Locks(q) > 0})

(* The estimate of admission, in tokens of whole pages *)

\* What a running request may come to hold beyond its handle, what it holds of that, and the rest
Demand(r) ==
    IF req[r].active THEN DivCeil(req[r].max - 1, PageSize) * PageSize - req[r].hlen ELSE 0
Held(r) == IF req[r].active THEN Len(req[r].row) * PageSize - req[r].hlen ELSE 0
Need(r) ==
    IF req[r].active
    THEN DivCeil(req[r].max - 1, PageSize) * PageSize - Len(req[r].row) * PageSize
    ELSE 0

\* The same as maps
Demands == [r \in Req |-> Demand(r)]
Holds   == [r \in Req |-> Held(r)]
Needs   == [r \in Req |-> Need(r)]

\* The pool has room for what is locked and for all that running requests may come to hold.
FitInv == SumFunction(Demands) + protected <= Cardinality(Page) * PageSize

\* The inductive invariant
IndInv == TreeInv /\ ReqInv /\ PageInv /\ CountInv /\ KVInPlace

-----------------------------------------------------------------------------
(* Prefixes *)

\* A prefix agrees with the path position by position.
LEMMA PrefixAt ==
    ASSUME NEW S, NEW s \in Seq(S), NEW t \in Seq(S)
    PROVE  IsPrefix(s, t) <=> Len(s) <= Len(t) /\ \A i \in 1 .. Len(s) : s[i] = t[i]
<1>1. CASE Len(s) <= Len(t)
  <2> DEFINE a == SubSeq(s, 1, Len(s))
             b == SubSeq(t, 1, Len(s))
  <2>1. /\ a \in Seq(S) /\ Len(a) = Len(s) /\ \A i \in 1 .. Len(s) : a[i] = s[i]
        /\ b \in Seq(S) /\ Len(b) = Len(s) /\ \A i \in 1 .. Len(s) : b[i] = t[i]
    BY <1>1
  <2>2. a = b <=> \A i \in 1 .. Len(s) : a[i] = b[i]
    BY <2>1
  <2>3. IsPrefix(s, t) <=> a = b
    BY <1>1 DEF IsPrefix
  <2> HIDE DEF a, b
  <2> QED BY <1>1, <2>1, <2>2, <2>3
<1>2. CASE ~(Len(s) <= Len(t))
  BY <1>2 DEF IsPrefix
<1> QED BY <1>1, <1>2

\* The first n tokens.
LEMMA UptoAt ==
    ASSUME NEW S, NEW s \in Seq(S), NEW n \in 0 .. Len(s)
    PROVE  /\ Upto(s, n) \in Seq(S) /\ Len(Upto(s, n)) = n
           /\ \A i \in 1 .. n : Upto(s, n)[i] = s[i]
           /\ IsPrefix(Upto(s, n), s)
<1>1. /\ Upto(s, n) \in Seq(S) /\ Len(Upto(s, n)) = n
      /\ \A i \in 1 .. n : Upto(s, n)[i] = s[i]
  BY DEF Upto
<1> QED BY <1>1, PrefixAt

\* Two paths are the same when they have the same length and tokens.
LEMMA SameSeq ==
    ASSUME NEW S, NEW s \in Seq(S), NEW t \in Seq(S), Len(s) = Len(t),
           \A i \in 1 .. Len(s) : s[i] = t[i]
    PROVE  s = t
OBVIOUS

\* A prefix is the path cut at its length.
LEMMA PrefixUpto ==
    ASSUME NEW S, NEW s \in Seq(S), NEW t \in Seq(S)
    PROVE  IsPrefix(s, t) <=> Len(s) <= Len(t) /\ s = Upto(t, Len(s))
<1>1. CASE Len(s) <= Len(t)
  <2>1. Len(s) \in 0 .. Len(t)
    BY <1>1
  <2>2. /\ Upto(t, Len(s)) \in Seq(S) /\ Len(Upto(t, Len(s))) = Len(s)
        /\ \A i \in 1 .. Len(s) : Upto(t, Len(s))[i] = t[i]
        /\ IsPrefix(Upto(t, Len(s)), t)
    BY <2>1, UptoAt
  <2>3. ASSUME IsPrefix(s, t) PROVE s = Upto(t, Len(s))
    <3>1. \A i \in 1 .. Len(s) : s[i] = t[i]
      BY <2>3, PrefixAt
    <3> QED BY <2>2, <3>1, SameSeq
  <2> QED BY <1>1, <2>2, <2>3
<1>2. CASE ~(Len(s) <= Len(t))
  BY <1>2, PrefixAt
<1> QED BY <1>1, <1>2

\* Being a prefix is an order whose initial segments are linear.
LEMMA PrefixOrder ==
    ASSUME NEW S, NEW a \in Seq(S), NEW b \in Seq(S), NEW c \in Seq(S)
    PROVE  /\ IsPrefix(a, a)
           /\ IsPrefix(a, b) /\ IsPrefix(b, c) => IsPrefix(a, c)
           /\ IsPrefix(a, b) /\ IsPrefix(b, a) => a = b
           /\ IsPrefix(a, b) /\ Len(a) = Len(b) => a = b
           /\ IsPrefix(a, c) /\ IsPrefix(b, c) /\ Len(a) <= Len(b) => IsPrefix(a, b)
           /\ IsPrefix(a, c) /\ IsPrefix(b, c) => IsPrefix(a, b) \/ IsPrefix(b, a)
           /\ IsPrefix(a, b) => Len(a) <= Len(b)
<1>1. Len(a) \in Nat /\ Len(b) \in Nat /\ Len(c) \in Nat
  OBVIOUS
<1>2. \A s, t \in Seq(S) :
         IsPrefix(s, t) <=> Len(s) <= Len(t) /\ \A i \in 1 .. Len(s) : s[i] = t[i]
  BY PrefixAt
<1>3. IsPrefix(a, b) /\ IsPrefix(b, c) => IsPrefix(a, c)
  BY <1>1, <1>2
<1>4. IsPrefix(a, b) /\ Len(a) = Len(b) => a = b
  BY <1>1, <1>2, SameSeq
<1>5. \A s, t \in Seq(S) : IsPrefix(s, c) /\ IsPrefix(t, c) /\ Len(s) <= Len(t) => IsPrefix(s, t)
  BY <1>1, <1>2
<1> QED BY <1>1, <1>2, <1>3, <1>4, <1>5

\* Cutting a path twice.
LEMMA UptoUpto ==
    ASSUME NEW S, NEW s \in Seq(S), NEW n \in 0 .. Len(s), NEW k \in 0 .. n
    PROVE  Upto(Upto(s, n), k) = Upto(s, k)
<1>1. /\ Upto(s, n) \in Seq(S) /\ Len(Upto(s, n)) = n
      /\ \A i \in 1 .. n : Upto(s, n)[i] = s[i]
  BY UptoAt
<1>2. /\ Upto(s, k) \in Seq(S) /\ Len(Upto(s, k)) = k
      /\ \A i \in 1 .. k : Upto(s, k)[i] = s[i]
  BY UptoAt
<1> DEFINE t == Upto(s, n)
<1> HIDE DEF t
<1>3. t \in Seq(S) /\ k \in 0 .. Len(t)
  BY <1>1 DEF t
<1>4. /\ Upto(t, k) \in Seq(S) /\ Len(Upto(t, k)) = k
      /\ \A i \in 1 .. k : Upto(t, k)[i] = t[i]
  BY <1>3, UptoAt
<1>5. \A i \in 1 .. k : Upto(t, k)[i] = Upto(s, k)[i]
  BY <1>1, <1>2, <1>4 DEF t
<1>6. Upto(t, k) = Upto(s, k)
  BY <1>2, <1>4, <1>5, SameSeq
<1> QED BY <1>6 DEF t

\* A shorter cut is a prefix of a longer one.
LEMMA UptoPrefix ==
    ASSUME NEW S, NEW s \in Seq(S), NEW n \in 0 .. Len(s), NEW k \in 0 .. Len(s)
    PROVE  IsPrefix(Upto(s, k), Upto(s, n)) <=> k <= n
<1>1. /\ Upto(s, n) \in Seq(S) /\ Len(Upto(s, n)) = n /\ IsPrefix(Upto(s, n), s)
      /\ Upto(s, k) \in Seq(S) /\ Len(Upto(s, k)) = k /\ IsPrefix(Upto(s, k), s)
  BY UptoAt
<1> QED BY <1>1, PrefixOrder

\* A token appended does not change what was there.
LEMMA UptoAppend ==
    ASSUME NEW S, NEW s \in Seq(S), NEW x \in S, NEW n \in 0 .. Len(s)
    PROVE  /\ Append(s, x) \in Seq(S) /\ Len(Append(s, x)) = Len(s) + 1
           /\ Upto(Append(s, x), n) = Upto(s, n)
<1>1. Append(s, x) \in Seq(S) /\ Len(Append(s, x)) = Len(s) + 1
  OBVIOUS
<1>2. \A i \in 1 .. Len(s) : Append(s, x)[i] = s[i]
  OBVIOUS
<1>3. /\ Upto(s, n) \in Seq(S) /\ Len(Upto(s, n)) = n
      /\ \A i \in 1 .. n : Upto(s, n)[i] = s[i]
  BY UptoAt
<1> DEFINE t == Append(s, x)
<1> HIDE DEF t
<1>4. t \in Seq(S) /\ n \in 0 .. Len(t)
  BY <1>1 DEF t
<1>5. /\ Upto(t, n) \in Seq(S) /\ Len(Upto(t, n)) = n
      /\ \A i \in 1 .. n : Upto(t, n)[i] = t[i]
  BY <1>4, UptoAt
<1>6. Upto(t, n) = Upto(s, n)
  BY <1>2, <1>3, <1>5, SameSeq DEF t
<1> QED BY <1>1, <1>6 DEF t

-----------------------------------------------------------------------------
(* Pages and tokens *)

\* Multiples of the page size.
LEMMA Multiples ==
    /\ PageSize \in Nat \ {0}
    /\ \A i \in Nat : i * PageSize \in Nat
    /\ \A i, j \in Nat : i <= j <=> i * PageSize <= j * PageSize
    /\ \A i, j \in Nat : i < j <=> i * PageSize < j * PageSize
    /\ \A i \in Nat : (i + 1) * PageSize = i * PageSize + PageSize
    /\ \A i \in Nat : i >= 1 => (i - 1) * PageSize = i * PageSize - PageSize
    /\ \A i, j \in Nat : i * PageSize = j * PageSize => i = j
    /\ \A i, j \in Nat : (i - j) * PageSize = i * PageSize - j * PageSize
    /\ \A i, j \in Nat : (i + j) * PageSize = i * PageSize + j * PageSize
    /\ \A i \in Nat : PageSize * i = i * PageSize
<1> DEFINE P == PageSize
<1>1. P \in Nat /\ P >= 1
  BY RadixConstants
<1> SUFFICES /\ P \in Nat \ {0}
             /\ \A i \in Nat : i * P \in Nat
             /\ \A i, j \in Nat : i <= j <=> i * P <= j * P
             /\ \A i, j \in Nat : i < j <=> i * P < j * P
             /\ \A i \in Nat : (i + 1) * P = i * P + P
             /\ \A i \in Nat : i >= 1 => (i - 1) * P = i * P - P
             /\ \A i, j \in Nat : i * P = j * P => i = j
             /\ \A i, j \in Nat : (i - j) * P = i * P - j * P
             /\ \A i, j \in Nat : (i + j) * P = i * P + j * P
             /\ \A i \in Nat : P * i = i * P
  OBVIOUS
<1> HIDE DEF P
<1>2. \A i \in Nat : i * P \in Nat
  BY <1>1
<1>3. \A i, j \in Nat : i <= j => i * P <= j * P
  BY <1>1
<1>4. \A i, j \in Nat : i < j => i * P < j * P
  BY <1>1
<1>5. \A i, j \in Nat : (i - j) * P = i * P - j * P
  BY <1>1
<1>6. \A i \in Nat : (i + 1) * P = i * P + P
  BY <1>1
<1>7. \A i \in Nat : (i - 1) * P = i * P - P
  BY <1>1
<1>8. \A i, j \in Nat : (i + j) * P = i * P + j * P
  BY <1>1
<1>9. \A i \in Nat : P * i = i * P
  BY <1>1
<1>10. ASSUME NEW i \in Nat, NEW j \in Nat
       PROVE  /\ i * P <= j * P => i <= j
              /\ i * P < j * P => i < j
              /\ i * P = j * P => i = j
  <2>1. i * P \in Nat /\ j * P \in Nat
    BY <1>2
  <2>2. i < j \/ i = j \/ j < i
    OBVIOUS
  <2>3. i < j => i * P < j * P
    BY <1>4
  <2>4. j < i => j * P < i * P
    BY <1>4
  <2> QED BY <2>1, <2>2, <2>3, <2>4
<1> QED BY <1>1, <1>2, <1>3, <1>4, <1>5, <1>6, <1>7, <1>8, <1>9, <1>10

\* Division by the page size.
LEMMA Division ==
    ASSUME NEW n \in Nat
    PROVE  /\ n \div PageSize \in Nat /\ n % PageSize \in 0 .. PageSize - 1
           /\ n = (n \div PageSize) * PageSize + (n % PageSize)
<1>1. PageSize \in Nat /\ PageSize >= 1
  BY RadixConstants
<1> QED BY <1>1

\* An aligned length is a number of pages.
LEMMA AlignedPages ==
    ASSUME NEW n \in Nat
    PROVE  Aligned(n) <=> n = (n \div PageSize) * PageSize
<1>1. /\ n \div PageSize \in Nat /\ n % PageSize \in 0 .. PageSize - 1
      /\ n = (n \div PageSize) * PageSize + (n % PageSize)
  BY Division
<1>2. (n \div PageSize) * PageSize \in Nat /\ n % PageSize \in Nat
  BY <1>1, Multiples
<1> DEFINE m == (n \div PageSize) * PageSize
           k == n % PageSize
<1> HIDE DEF m, k
<1>3. k = 0 <=> n = m
  BY <1>1, <1>2 DEF m, k
<1> QED BY <1>3 DEF m, k, Aligned

\* So many pages and no rest: the quotient is known.
LEMMA Quotient ==
    ASSUME NEW n \in Nat, NEW i \in Nat, i * PageSize <= n, n < i * PageSize + PageSize
    PROVE  n \div PageSize = i /\ n % PageSize = n - i * PageSize
<1> DEFINE d == n \div PageSize
           k == n % PageSize
<1>1. d \in Nat /\ k \in 0 .. PageSize - 1 /\ n = d * PageSize + k
  BY Division
<1> HIDE DEF d, k
<1>2. PageSize \in Nat /\ d * PageSize \in Nat /\ i * PageSize \in Nat
      /\ (i + 1) * PageSize = i * PageSize + PageSize
      /\ (d + 1) * PageSize = d * PageSize + PageSize
  BY <1>1, Multiples
<1>3. d < i + 1
  <2>1. d * PageSize < (i + 1) * PageSize
    BY <1>1, <1>2
  <2> QED BY <1>1, <2>1, Multiples
<1>4. i < d + 1
  <2>1. i * PageSize < (d + 1) * PageSize
    BY <1>1, <1>2
  <2> QED BY <1>1, <2>1, Multiples
<1>5. d = i
  BY <1>1, <1>3, <1>4
<1> QED BY <1>1, <1>2, <1>5 DEF d, k

\* Whole pages are aligned.
LEMMA AlignedTimes ==
    ASSUME NEW i \in Nat
    PROVE  Aligned(i * PageSize) /\ (i * PageSize) \div PageSize = i
<1>1. i * PageSize \in Nat /\ PageSize \in Nat /\ PageSize >= 1
  BY Multiples
<1>2. (i * PageSize) \div PageSize = i /\ (i * PageSize) % PageSize = i * PageSize - i * PageSize
  <2> DEFINE n == i * PageSize
  <2>1. n \in Nat /\ i * PageSize <= n /\ n < i * PageSize + PageSize
    BY <1>1
  <2> QED BY <2>1, Quotient
<1> QED BY <1>1, <1>2 DEF Aligned

\* Where a page ends.
LEMMA PageEnd ==
    ASSUME NEW i \in Nat \ {0}
    PROVE  /\ i * PageSize \in Nat /\ i * PageSize >= 1
           /\ Aligned(i * PageSize) /\ (i * PageSize) \div PageSize = i
<1>1. i * PageSize \in Nat /\ 1 <= i /\ 1 * PageSize <= i * PageSize
  BY Multiples
<1>2. 1 * PageSize >= 1
  BY Multiples
<1>3. i * PageSize >= 1
  <2> DEFINE k == i * PageSize
             j == 1 * PageSize
  <2>1. j \in Nat /\ k \in Nat /\ j <= k /\ j >= 1
    BY <1>1, <1>2, Multiples
  <2> HIDE DEF k, j
  <2>2. k >= 1
    BY <2>1
  <2> QED BY <2>2 DEF k
<1> QED BY <1>1, <1>3, AlignedTimes

\* The empty prefix is whole pages.
LEMMA AlignedZero == Aligned(0)
BY Multiples, AlignedTimes, 0 * PageSize = 0

\* align_down: the longest whole number of pages.
LEMMA AlignDownFacts ==
    ASSUME NEW n \in Nat
    PROVE  /\ AlignDown(n) \in Nat /\ AlignDown(n) <= n /\ n < AlignDown(n) + PageSize
           /\ Aligned(AlignDown(n))
           /\ \A k \in Nat : Aligned(k) /\ k <= n => k <= AlignDown(n)
<1> DEFINE d == n \div PageSize
<1>1. d \in Nat /\ n % PageSize \in 0 .. PageSize - 1 /\ n = d * PageSize + (n % PageSize)
  BY Division
<1>2. AlignDown(n) = d * PageSize
  BY DEF AlignDown
<1> HIDE DEF d
<1>3. d * PageSize \in Nat /\ PageSize \in Nat /\ (d + 1) * PageSize = d * PageSize + PageSize
  BY <1>1, Multiples
<1>4. Aligned(d * PageSize)
  BY <1>1, AlignedTimes
<1>5. n < d * PageSize + PageSize /\ d * PageSize <= n
  <2> DEFINE k == n % PageSize
             m == d * PageSize
  <2>1. k \in 0 .. PageSize - 1 /\ m \in Nat /\ n = m + k
    BY <1>1, <1>3
  <2> HIDE DEF k, m
  <2>2. n < m + PageSize /\ m <= n
    BY <1>3, <2>1
  <2> QED BY <2>2 DEF m
<1>6. ASSUME NEW k \in Nat, Aligned(k), k <= n PROVE k <= d * PageSize
  <2>1. PICK i \in Nat : k = i * PageSize
    BY <1>6, AlignedPages, Division
  <2>2. i * PageSize < (d + 1) * PageSize
    BY <1>3, <1>5, <1>6, <2>1
  <2>3. i < d + 1
    BY <1>1, <2>2, Multiples
  <2>4. i <= d
    BY <1>1, <2>3
  <2> QED BY <1>1, <2>1, <2>4, Multiples
<1> QED BY <1>2, <1>3, <1>4, <1>5, <1>6

\* div_ceil: the pages that n tokens begin.
LEMMA DivCeilFacts ==
    ASSUME NEW n \in Nat
    PROVE  /\ DivCeil(n, PageSize) \in Nat /\ n <= DivCeil(n, PageSize) * PageSize
           /\ DivCeil(n, PageSize) * PageSize < n + PageSize
           /\ Aligned(n) => DivCeil(n, PageSize) * PageSize = n
<1> DEFINE a == n + PageSize - 1
           d == DivCeil(n, PageSize)
<1>1. PageSize \in Nat /\ PageSize >= 1
  BY Multiples
<1>2. a \in Nat
  BY <1>1
<1>3. d = a \div PageSize
  BY DEF DivCeil
<1> DEFINE k == a % PageSize
<1>4. d \in Nat /\ k \in 0 .. PageSize - 1 /\ a = d * PageSize + k
  BY <1>2, <1>3, Division
<1> DEFINE m == d * PageSize
<1>5. m \in Nat
  BY <1>4, Multiples
<1>6. n <= m /\ m < n + PageSize
  <2> HIDE DEF d, k, m
  <2>1. a = m + k
    BY <1>4 DEF m
  <2> QED BY <1>1, <1>4, <1>5, <2>1
<1>7. ASSUME Aligned(n) PROVE m = n
  <2>1. PICK i \in Nat : n = i * PageSize
    BY <1>7, AlignedPages, Division
  <2>2. (i + 1) * PageSize = i * PageSize + PageSize
    BY <2>1, Multiples
  <2> HIDE DEF d
  <2>3. i <= d
    BY <1>4, <1>6, <2>1, Multiples
  <2>4. d < i + 1
    BY <1>4, <1>6, <2>1, <2>2, Multiples
  <2>5. d = i
    BY <1>4, <2>3, <2>4
  <2> QED BY <2>1, <2>5
<1> QED BY <1>4, <1>5, <1>6, <1>7

\* More tokens begin no fewer pages.
LEMMA DivCeilLe ==
    ASSUME NEW m \in Nat, NEW n \in Nat, m <= n
    PROVE  DivCeil(m, PageSize) <= DivCeil(n, PageSize)
<1> DEFINE c == DivCeil(m, PageSize)
           d == DivCeil(n, PageSize)
<1>1. /\ c \in Nat /\ m <= c * PageSize /\ c * PageSize < m + PageSize
      /\ d \in Nat /\ n <= d * PageSize /\ d * PageSize < n + PageSize
  BY DivCeilFacts
<1> HIDE DEF c, d
<1>2. /\ c * PageSize \in Nat /\ d * PageSize \in Nat /\ PageSize \in Nat
      /\ (d + 1) * PageSize = d * PageSize + PageSize
  BY <1>1, Multiples
<1>3. c * PageSize < (d + 1) * PageSize
  BY <1>1, <1>2
<1>4. c < d + 1
  BY <1>1, <1>3, Multiples
<1>5. c <= d
  BY <1>1, <1>4
<1> QED BY <1>5 DEF c, d

-----------------------------------------------------------------------------
(* Trees of prefixes *)

\* The order of the paths, in the form the provers take it.
LEMMA PathOrder ==
    /\ \A a \in Seq(Tok) : IsPrefix(a, a)
    /\ \A a, b, c \in Seq(Tok) : IsPrefix(a, b) /\ IsPrefix(b, c) => IsPrefix(a, c)
    /\ \A a, b \in Seq(Tok) : IsPrefix(a, b) /\ IsPrefix(b, a) => a = b
    /\ \A a, b \in Seq(Tok) : IsPrefix(a, b) => Len(a) <= Len(b) /\ (Len(a) = Len(b) => a = b)
    /\ \A a, b, c \in Seq(Tok) :
          IsPrefix(a, c) /\ IsPrefix(b, c) /\ Len(a) <= Len(b) => IsPrefix(a, b)
    /\ \A a, b, c \in Seq(Tok) :
          IsPrefix(a, c) /\ IsPrefix(b, c) => IsPrefix(a, b) \/ IsPrefix(b, a)
    /\ \A a \in Seq(Tok) : Len(a) \in Nat
BY PrefixOrder

\* A node's path is not the root's.
LEMMA PathsType == \A q \in Paths : q \in Seq(Tok) /\ q # <<>> /\ Len(q) \in Nat /\ Len(q) >= 1
BY DEF Paths

\* No path is a prefix of the root.
LEMMA RootFirst ==
    ASSUME NEW s \in Seq(Tok)
    PROVE  /\ Upto(s, 0) = <<>> /\ <<>> \in Seq(Tok) /\ IsPrefix(<<>>, s)
           /\ \A q \in Paths : ~IsPrefix(q, <<>>)
<1>1. <<>> \in Seq(Tok) /\ Len(<<>>) = 0
  OBVIOUS
<1>2. /\ Upto(s, 0) \in Seq(Tok) /\ Len(Upto(s, 0)) = 0 /\ IsPrefix(Upto(s, 0), s)
  BY UptoAt
<1>3. Upto(s, 0) = <<>>
  BY <1>2
<1>4. ASSUME NEW q \in Paths, NEW e \in Seq(Tok), Len(e) = 0 PROVE ~IsPrefix(q, e)
  <2>1. q \in Seq(Tok) /\ Len(q) >= 1 /\ Len(q) \in Nat
    BY PathsType
  <2>2. IsPrefix(q, e) => Len(q) <= Len(e)
    BY <2>1, PrefixAt
  <2> QED BY <1>4, <2>1, <2>2
<1> QED BY <1>1, <1>2, <1>3, <1>4

\* Every page-aligned prefix of a cached path is cached.
LEMMA TreeClosed ==
    ASSUME NEW ns, NEW D, TreeOf(ns, D), NEW q \in D, NEW p \in Paths, IsPrefix(p, q)
    PROVE  p \in D
<1>1. q \in Seq(Tok) /\ p \in Seq(Tok) /\ Len(p) >= 1 /\ Aligned(Len(p)) /\ Len(p) \in Nat
  BY DEF TreeOf, Paths
<1>2. Len(p) <= Len(q) /\ p = Upto(q, Len(p))
  BY <1>1, PrefixUpto
<1>3. Len(p) \in 1 .. Len(q)
  BY <1>1, <1>2
<1> QED BY <1>1, <1>2, <1>3 DEF TreeOf

\* The order on the members of a tree.
LEMMA TreeOrder ==
    ASSUME NEW ns, NEW D, TreeOf(ns, D)
    PROVE  /\ ns \subseteq D /\ D \subseteq Paths /\ \A q \in D : q \in Seq(Tok) /\ Len(q) \in Nat
           /\ \A a, b, c \in D : IsPrefix(a, b) /\ IsPrefix(b, c) => IsPrefix(a, c)
           /\ \A a, b \in D : IsPrefix(a, b) /\ IsPrefix(b, a) => a = b
           /\ \A a \in D : IsPrefix(a, a)
           /\ \A q \in D : \E h \in ns : HomeIn(ns, q, h)
           /\ \A q, h, k \in D : HomeIn(ns, q, h) /\ HomeIn(ns, q, k) => h = k
           /\ \A n \in ns : HomeIn(ns, n, n)
<1>1. ns \subseteq D /\ D \subseteq Paths /\ \A q \in D : q \in Seq(Tok) /\ Len(q) \in Nat
  BY PathsType DEF TreeOf
<1>2. /\ \A a, b, c \in D : IsPrefix(a, b) /\ IsPrefix(b, c) => IsPrefix(a, c)
      /\ \A a, b \in D : IsPrefix(a, b) /\ IsPrefix(b, a) => a = b
      /\ \A a \in D : IsPrefix(a, a)
  BY <1>1, PathOrder
<1>3. \A q \in D : \E h \in ns : HomeIn(ns, q, h)
  BY DEF TreeOf
<1>4. \A q, h, k \in D : HomeIn(ns, q, h) /\ HomeIn(ns, q, k) => h = k
  BY <1>2 DEF HomeIn
<1>5. \A n \in ns : HomeIn(ns, n, n)
  BY <1>1, <1>2 DEF HomeIn
<1> QED BY <1>1, <1>2, <1>3, <1>4, <1>5

\* _tree_walk may split a node: the prefix node is the end of a cached path.
LEMMA TreeSplit ==
    ASSUME NEW ns, NEW D, TreeOf(ns, D), NEW p \in D
    PROVE  TreeOf(ns \cup {p}, D)
<1> DEFINE ms == ns \cup {p}
<1>1. ASSUME NEW q \in D PROVE \E h \in ms : HomeIn(ms, q, h)
  <2>1. PICK h \in ns : HomeIn(ns, q, h)
    BY TreeOrder
  <2>2. CASE ~IsPrefix(q, p)
    BY <2>1, <2>2 DEF HomeIn
  <2>3. CASE IsPrefix(q, p) /\ IsPrefix(h, p)
    BY <2>1, <2>3 DEF HomeIn
  <2>4. CASE IsPrefix(q, p) /\ ~IsPrefix(h, p)
    <3>1. PICK k \in ns : HomeIn(ns, p, k)
      BY TreeOrder
    <3>2. IsPrefix(p, k) /\ k \in D /\ h \in D
      BY <3>1, TreeOrder DEF HomeIn
    <3>3. IsPrefix(q, k)
      BY <2>4, <3>2, TreeOrder
    <3>4. IsPrefix(h, k)
      BY <2>1, <3>1, <3>3 DEF HomeIn
    <3>5. h \in Seq(Tok) /\ k \in Seq(Tok) /\ p \in Seq(Tok)
      BY <3>2, TreeOrder
    <3>6. IsPrefix(p, h)
      BY <2>4, <3>2, <3>4, <3>5, PathOrder
    <3>7. \A m \in ns : IsPrefix(q, m) => IsPrefix(p, m)
      <4> SUFFICES ASSUME NEW m \in ns, IsPrefix(q, m) PROVE IsPrefix(p, m)
        OBVIOUS
      <4>1. IsPrefix(h, m) /\ m \in D
        BY <2>1, TreeOrder DEF HomeIn
      <4> QED BY <3>2, <3>6, <4>1, TreeOrder
    <3>8. HomeIn(ms, q, p)
      BY <2>4, <3>7, TreeOrder DEF HomeIn
    <3> QED BY <3>8
  <2> QED BY <2>2, <2>3, <2>4
<1> QED BY <1>1 DEF TreeOf

\* insert_prefix: the pages of ids beyond the matched path p become the key of one new node.
LEMMA TreeInsert ==
    ASSUME NEW ns, NEW D, TreeOf(ns, D), NEW p \in Seq(Tok), p = <<>> \/ p \in ns,
           NEW ids \in Paths, IsPrefix(p, ids),
           \A q \in D : IsPrefix(q, ids) => IsPrefix(q, p),
           NEW E, E = D \cup {q \in Paths : IsPrefix(q, ids)}, IsFiniteSet(E)
    PROVE  TreeOf(ns \cup {ids}, E)
<1> DEFINE ms == ns \cup {ids}
<1>1. ids \in Seq(Tok) /\ ids \in E /\ D \subseteq E /\ E \subseteq Paths
  BY PathOrder DEF TreeOf, Paths
<1>2. ns \subseteq D /\ D \subseteq Paths
  BY TreeOrder
<1>3. ASSUME NEW q \in E, NEW k \in 1 .. Len(q), Aligned(k) PROVE Upto(q, k) \in E
  <2>1. q \in Seq(Tok) /\ k \in 0 .. Len(q) /\ k \in Nat /\ k >= 1
    BY <1>1, PathsType
  <2>2. Upto(q, k) \in Paths /\ IsPrefix(Upto(q, k), q)
    BY <1>3, <2>1, UptoAt DEF Paths
  <2>3. CASE q \in D
    BY <1>1, <2>2, <2>3, TreeClosed
  <2>4. CASE IsPrefix(q, ids)
    <3>1. IsPrefix(Upto(q, k), ids)
      BY <1>1, <2>1, <2>2, <2>4, PathOrder, PathsType
    <3> QED BY <2>2, <3>1
  <2> QED BY <2>3, <2>4
<1>4. ASSUME NEW q \in E PROVE \E h \in ms : HomeIn(ms, q, h)
  <2>1. q \in Seq(Tok) /\ q \in Paths
    BY <1>1, PathsType
  <2>2. CASE q \in D
    <3>1. PICK h \in ns : HomeIn(ns, q, h)
      BY <2>2, TreeOrder
    <3>2. h \in Seq(Tok)
      BY <1>2, PathsType
    <3>3. ASSUME IsPrefix(q, ids) PROVE IsPrefix(h, ids)
      <4>1. IsPrefix(q, p)
        BY <2>2, <3>3
      <4>2. p \in ns
        BY <2>1, <4>1, RootFirst
      <4>3. IsPrefix(h, p)
        BY <3>1, <4>1, <4>2 DEF HomeIn
      <4> QED BY <1>1, <3>2, <4>3, PathOrder
    <3>4. HomeIn(ms, q, h)
      BY <3>1, <3>3 DEF HomeIn
    <3> QED BY <3>4
  <2>3. CASE q \notin D
    <3>1. IsPrefix(q, ids)
      BY <2>3
    <3>2. \A m \in ns : ~IsPrefix(q, m)
      BY <1>2, <2>1, <2>3, TreeClosed
    <3>3. HomeIn(ms, q, ids)
      BY <1>1, <3>1, <3>2, PathOrder DEF HomeIn
    <3> QED BY <3>3
  <2> QED BY <2>2, <2>3
<1> QED BY <1>1, <1>2, <1>3, <1>4 DEF TreeOf

\* evict: a leaf goes with the pages of its key.
LEMMA TreeEvict ==
    ASSUME NEW ns, NEW D, TreeOf(ns, D), NEW n \in ns, \A m \in ns : ~IsStrictPrefix(n, m),
           NEW E, E = {q \in D : ~HomeIn(ns, q, n)}
    PROVE  TreeOf(ns \ {n}, E)
<1> DEFINE ms == ns \ {n}
<1>1. E \subseteq D /\ IsFiniteSet(E)
  BY FS_Subset DEF TreeOf
<1>2. ms \subseteq E
  <2> SUFFICES ASSUME NEW m \in ms PROVE ~HomeIn(ns, m, n)
    BY TreeOrder
  <2> QED BY TreeOrder
<1>3. ASSUME NEW q \in E, NEW k \in 1 .. Len(q), Aligned(k) PROVE Upto(q, k) \in E
  <2> DEFINE p == Upto(q, k)
  <2>1. q \in D /\ q \in Seq(Tok) /\ k \in 0 .. Len(q) /\ k \in Nat /\ k >= 1
    BY <1>1, TreeOrder
  <2>2. p \in Paths /\ IsPrefix(p, q)
    BY <1>3, <2>1, UptoAt DEF Paths
  <2> HIDE DEF p
  <2>3. p \in D
    BY <2>1, <2>2, TreeClosed
  <2>4. ASSUME HomeIn(ns, p, n) PROVE FALSE
    <3>1. PICK h \in ns : HomeIn(ns, q, h)
      BY <2>1, TreeOrder
    <3>2. h \in D /\ IsPrefix(q, h)
      BY <3>1, TreeOrder DEF HomeIn
    <3>3. IsPrefix(p, h)
      BY <2>1, <2>2, <2>3, <3>2, TreeOrder
    <3>4. IsPrefix(n, h)
      BY <2>4, <3>3 DEF HomeIn
    <3>5. h = n
      BY <3>4 DEF IsStrictPrefix
    <3> QED BY <3>1, <3>5
  <2>5. p \in E
    BY <2>3, <2>4
  <2> QED BY <2>5 DEF p
<1>4. ASSUME NEW q \in E PROVE \E h \in ms : HomeIn(ms, q, h)
  <2>1. PICK h \in ns : HomeIn(ns, q, h)
    BY <1>1, TreeOrder
  <2>2. h \in ms /\ HomeIn(ms, q, h)
    BY <2>1 DEF HomeIn
  <2> QED BY <2>2
<1> QED BY <1>1, <1>2, <1>3, <1>4, TreeOrder DEF TreeOf

-----------------------------------------------------------------------------
(* Keys *)

\* The greatest of a bounded set of naturals.
LEMMA MaxIn ==
    ASSUME NEW T \in SUBSET Nat, T # {}, NEW b \in Nat, \A x \in T : x <= b
    PROVE  Max(T) \in T /\ \A x \in T : x <= Max(T)
<1> DEFINE N == {b - x : x \in T}
<1>1. N \in SUBSET Nat /\ N # {}
  <2>1. PICK x \in T : TRUE
    OBVIOUS
  <2>2. b - x \in N
    OBVIOUS
  <2>3. \A z \in T : b - z \in Nat
    OBVIOUS
  <2> QED BY <2>2, <2>3
<1>2. PICK y \in N : \A z \in N : y <= z
  <2> HIDE DEF N
  <2> QED BY <1>1, Least
<1>3. PICK x \in T : y = b - x
  BY <1>2
<1>4. ASSUME NEW z \in T PROVE x >= z
  <2>1. b - z \in N
    OBVIOUS
  <2>2. b - x <= b - z
    BY <1>2, <1>3, <2>1
  <2>3. x \in Nat /\ z \in Nat
    OBVIOUS
  <2> QED BY <2>2, <2>3
<1>5. Max(T) \in T /\ \A z \in T : Max(T) >= z
  BY <1>4 DEF Max
<1> QED BY <1>5

\* Where the key of a node begins: at the root or at the end of the nearest node above.
LEMMA ParentFacts ==
    ASSUME NEW ns, NEW D, TreeOf(ns, D), NEW n \in ns
    PROVE  /\ ParentLen(ns, n) \in Nat /\ ParentLen(ns, n) < Len(n) /\ Aligned(ParentLen(ns, n))
           /\ \A m \in ns : IsStrictPrefix(m, n) => Len(m) <= ParentLen(ns, n)
           /\ \/ ParentLen(ns, n) = 0
              \/ \E m \in ns : IsStrictPrefix(m, n) /\ Len(m) = ParentLen(ns, n)
<1> DEFINE above == {Len(m) : m \in {k \in ns : IsStrictPrefix(k, n)}}
<1>1. \A m \in ns : m \in Seq(Tok) /\ Len(m) \in Nat /\ Len(m) >= 1 /\ Aligned(Len(m))
  BY TreeOrder DEF Paths
<1>2. \A m \in ns : IsStrictPrefix(m, n) => Len(m) < Len(n)
  BY <1>1, PathOrder DEF IsStrictPrefix
<1>3. ParentLen(ns, n) = IF above = {} THEN 0 ELSE Max(above)
  BY DEF ParentLen
<1>4. CASE above = {}
  <2>1. \A m \in ns : ~IsStrictPrefix(m, n)
    BY <1>4
  <2>2. ParentLen(ns, n) = 0
    BY <1>3, <1>4
  <2>3. Len(n) \in Nat /\ Len(n) >= 1
    BY <1>1
  <2> QED BY <2>1, <2>2, <2>3, AlignedZero
<1>5. CASE above # {}
  <2>1. above \in SUBSET Nat /\ \A x \in above : x <= Len(n)
    BY <1>1, <1>2
  <2>2. Max(above) \in above /\ \A x \in above : x <= Max(above)
    <3> HIDE DEF above
    <3> QED BY <1>1, <1>5, <2>1, MaxIn
  <2>3. PICK m \in ns : IsStrictPrefix(m, n) /\ Len(m) = Max(above)
    BY <2>2
  <2>4. ParentLen(ns, n) = Len(m)
    BY <1>3, <1>5, <2>3
  <2>5. \A k \in ns : IsStrictPrefix(k, n) => Len(k) <= Len(m)
    BY <2>2, <2>3
  <2> QED BY <1>1, <1>2, <2>3, <2>4, <2>5
<1> QED BY <1>4, <1>5

\* A cached path ends in the key of n exactly when it is a prefix of n beyond that beginning.
LEMMA KeyHome ==
    ASSUME NEW ns, NEW D, TreeOf(ns, D), NEW n \in ns, NEW q \in D
    PROVE  HomeIn(ns, q, n) <=> IsPrefix(q, n) /\ Len(q) > ParentLen(ns, n)
<1>1. /\ q \in Seq(Tok) /\ n \in Seq(Tok) /\ n \in D /\ Len(q) \in Nat /\ Len(q) >= 1
  BY TreeOrder, PathsType
<1>2. ASSUME HomeIn(ns, q, n), Len(q) <= ParentLen(ns, n) PROVE FALSE
  <2>1. PICK m \in ns : IsStrictPrefix(m, n) /\ Len(m) = ParentLen(ns, n)
    BY <1>1, <1>2, ParentFacts
  <2>2. m \in Seq(Tok) /\ IsPrefix(m, n) /\ m # n /\ IsPrefix(q, n)
    BY <1>2, <2>1, TreeOrder DEF IsStrictPrefix, HomeIn
  <2>3. IsPrefix(q, m)
    BY <1>1, <1>2, <2>1, <2>2, PathOrder
  <2>4. IsPrefix(n, m)
    BY <1>2, <2>1, <2>3 DEF HomeIn
  <2> QED BY <1>1, <2>2, <2>4, PathOrder
<1>3. ASSUME IsPrefix(q, n), Len(q) > ParentLen(ns, n) PROVE HomeIn(ns, q, n)
  <2>1. PICK h \in ns : HomeIn(ns, q, h)
    BY TreeOrder
  <2>2. h \in Seq(Tok) /\ Len(h) \in Nat /\ IsPrefix(h, n) /\ Len(q) <= Len(h)
    BY <1>1, <1>3, <2>1, TreeOrder, PathOrder DEF HomeIn
  <2>3. ASSUME h # n PROVE FALSE
    <3>1. Len(h) <= ParentLen(ns, n) /\ ParentLen(ns, n) \in Nat
      BY <2>1, <2>2, <2>3, ParentFacts DEF IsStrictPrefix
    <3> QED BY <1>1, <1>3, <2>2, <3>1
  <2> QED BY <2>1, <2>3
<1>4. HomeIn(ns, q, n) => IsPrefix(q, n)
  BY DEF HomeIn
<1>5. Len(q) > ParentLen(ns, n) \/ Len(q) <= ParentLen(ns, n)
  BY <1>1, ParentFacts
<1> QED BY <1>2, <1>3, <1>4, <1>5

\* The aligned prefixes of s that are longer than a and not longer than b
Between(s, a, b) == {q \in Paths : IsPrefix(q, s) /\ Len(q) > a /\ Len(q) <= b}

\* They are one for each page.
LEMMA BetweenPages ==
    ASSUME NEW s \in Seq(Tok), NEW i \in Nat, NEW j \in Nat, i <= j, j * PageSize <= Len(s)
    PROVE  /\ IsFiniteSet(Between(s, i * PageSize, j * PageSize))
           /\ Cardinality(Between(s, i * PageSize, j * PageSize)) = j - i
           /\ \A k \in i + 1 .. j :
                 Upto(s, k * PageSize) \in Between(s, i * PageSize, j * PageSize)
           /\ \A q \in Between(s, i * PageSize, j * PageSize) :
                 \E k \in i + 1 .. j : q = Upto(s, k * PageSize)
<1> DEFINE B == Between(s, i * PageSize, j * PageSize)
           I == i + 1 .. j
           f == [k \in I |-> Upto(s, k * PageSize)]
<1>1. /\ i * PageSize \in Nat /\ j * PageSize \in Nat
      /\ \A k \in Nat : k * PageSize \in Nat
  BY Multiples
<1>2. ASSUME NEW k \in I
      PROVE  /\ Upto(s, k * PageSize) \in B /\ Len(Upto(s, k * PageSize)) = k * PageSize
  <2>1. k \in Nat /\ k >= 1 /\ i < k /\ k <= j
    OBVIOUS
  <2>2. i * PageSize < k * PageSize /\ k * PageSize <= j * PageSize /\ k * PageSize \in Nat
    BY <2>1, Multiples
  <2>3. k * PageSize \in 0 .. Len(s) /\ k * PageSize >= 1
    <3> DEFINE x == i * PageSize
               y == j * PageSize
               z == k * PageSize
    <3>1. x \in Nat /\ y \in Nat /\ z \in Nat /\ x < z /\ z <= y /\ y <= Len(s) /\ Len(s) \in Nat
      BY <1>1, <2>2
    <3> HIDE DEF x, y, z
    <3>2. z \in 0 .. Len(s) /\ z >= 1
      BY <3>1
    <3> QED BY <3>2 DEF z
  <2>4. Aligned(k * PageSize)
    BY <2>1, AlignedTimes
  <2>5. /\ Upto(s, k * PageSize) \in Seq(Tok) /\ Len(Upto(s, k * PageSize)) = k * PageSize
        /\ IsPrefix(Upto(s, k * PageSize), s)
    BY <2>3, UptoAt
  <2> QED BY <2>2, <2>3, <2>4, <2>5 DEF Between, Paths
<1>3. ASSUME NEW q \in B PROVE \E k \in I : q = Upto(s, k * PageSize)
  <2>1. /\ q \in Seq(Tok) /\ Len(q) \in Nat /\ Aligned(Len(q)) /\ IsPrefix(q, s)
        /\ Len(q) > i * PageSize /\ Len(q) <= j * PageSize
    BY DEF Between, Paths
  <2>2. PICK k \in Nat : Len(q) = k * PageSize
    BY <2>1, AlignedPages, Division
  <2>3. i < k /\ k <= j
    BY <2>1, <2>2, Multiples
  <2>4. q = Upto(s, k * PageSize)
    BY <2>1, <2>2, PrefixUpto
  <2> QED BY <2>3, <2>4
<1>4. f \in Bijection(I, B)
  <2>1. f \in [I -> B]
    BY <1>2
  <2>2. ASSUME NEW k \in I, NEW l \in I, f[k] = f[l] PROVE k = l
    <3>1. k * PageSize = l * PageSize
      BY <1>2, <2>2
    <3> QED BY <3>1, Multiples
  <2>3. \A q \in B : \E k \in I : f[k] = q
    BY <1>3
  <2> HIDE DEF f, I, B
  <2> QED BY <2>1, <2>2, <2>3 DEF Bijection, Injection, Surjection, IsInjective
<1>5. IsFiniteSet(I) /\ Cardinality(I) = j - i
  <2>1. IsFiniteSet(I) /\ Cardinality(I) = IF i + 1 > j THEN 0 ELSE j - (i + 1) + 1
    BY FS_Interval
  <2> QED BY <2>1
<1>6. IsFiniteSet(B) /\ Cardinality(B) = j - i
  <2> HIDE DEF f, I, B
  <2>1. ExistsBijection(I, B)
    BY <1>4 DEF ExistsBijection
  <2> QED BY <1>5, <2>1, FS_Bijection
<1> QED BY <1>2, <1>3, <1>6

\* The same for lengths that are whole pages.
LEMMA BetweenCount ==
    ASSUME NEW s \in Seq(Tok), NEW a \in Nat, NEW b \in Nat, a <= b, b <= Len(s),
           Aligned(a), Aligned(b)
    PROVE  /\ IsFiniteSet(Between(s, a, b)) /\ Cardinality(Between(s, a, b)) \in Nat
           /\ PageSize * Cardinality(Between(s, a, b)) = b - a
<1>1. PICK i \in Nat : a = i * PageSize
  BY AlignedPages, Division
<1>2. PICK j \in Nat : b = j * PageSize
  BY AlignedPages, Division
<1>3. i <= j
  BY <1>1, <1>2, Multiples
<1>4. IsFiniteSet(Between(s, a, b)) /\ Cardinality(Between(s, a, b)) = j - i
  BY <1>1, <1>2, <1>3, BetweenPages
<1>5. j - i \in Nat /\ (j - i) * PageSize = b - a
  BY <1>1, <1>2, <1>3, Multiples
<1>6. PageSize * (j - i) = b - a
  BY <1>5, Multiples
<1> QED BY <1>4, <1>5, <1>6

\* The length of a node's key is that of the cached pages that end in it.
LEMMA KeyCount ==
    ASSUME NEW ns, NEW D, TreeOf(ns, D), NEW n \in ns
    PROVE  /\ IsFiniteSet({q \in D : HomeIn(ns, q, n)})
           /\ KeyLen(ns, n) = PageSize * Cardinality({q \in D : HomeIn(ns, q, n)})
           /\ KeyLen(ns, n) \in Nat
<1>1. /\ n \in D /\ n \in Seq(Tok) /\ Len(n) \in Nat /\ Aligned(Len(n)) /\ D \subseteq Paths
  BY TreeOrder DEF Paths
<1> DEFINE a == ParentLen(ns, n)
<1>2. a \in Nat /\ a < Len(n) /\ Aligned(a)
  BY ParentFacts
<1>3. {q \in D : HomeIn(ns, q, n)} = Between(n, a, Len(n))
  <2>1. ASSUME NEW q \in D PROVE HomeIn(ns, q, n) <=> q \in Between(n, a, Len(n))
    <3>1. q \in Paths /\ q \in Seq(Tok) /\ (IsPrefix(q, n) => Len(q) <= Len(n))
      BY <1>1, PathsType, PathOrder
    <3> QED BY <3>1, KeyHome DEF Between
  <2>2. \A q \in Between(n, a, Len(n)) : q \in D
    BY <1>1, TreeClosed DEF Between
  <2> QED BY <2>1, <2>2
<1>4. KeyLen(ns, n) = Len(n) - a
  BY DEF KeyLen
<1> HIDE DEF a
<1>5. /\ IsFiniteSet(Between(n, a, Len(n)))
      /\ PageSize * Cardinality(Between(n, a, Len(n))) = Len(n) - a
  BY <1>1, <1>2, BetweenCount
<1>6. Len(n) - a \in Nat
  BY <1>1, <1>2
<1> QED BY <1>3, <1>4, <1>5, <1>6

-----------------------------------------------------------------------------
(* Counting by pages: sums of key lengths do not change when a node is split. *)

\* Two parts of a finite set
LEMMA CardParts ==
    ASSUME NEW A, NEW B, IsFiniteSet(A), IsFiniteSet(B), A \cap B = {}
    PROVE  /\ IsFiniteSet(A \cup B) /\ Cardinality(A \cup B) = Cardinality(A) + Cardinality(B)
           /\ Cardinality(A) \in Nat /\ Cardinality(B) \in Nat
           /\ Cardinality(A \cup B) \in Nat
<1>1. Cardinality(A \cap B) = 0
  BY FS_EmptySet
<1>2. /\ IsFiniteSet(A \cup B)
      /\ Cardinality(A \cup B) = Cardinality(A) + Cardinality(B) - Cardinality(A \cap B)
  BY FS_Union
<1>3. Cardinality(A) \in Nat /\ Cardinality(B) \in Nat
  BY FS_CardinalityType
<1> QED BY <1>1, <1>2, <1>3

\* The cached pages that end in the keys of some nodes
InKeys(ns, D, some) == {q \in D : \E n \in some : HomeIn(ns, q, n)}

\* The keys of some nodes together.
LEMMA KeySum ==
    ASSUME NEW ns, NEW D, TreeOf(ns, D), NEW some \in SUBSET ns
    PROVE  /\ KeyTokens(ns, some) = PageSize * Cardinality(InKeys(ns, D, some))
           /\ IsFiniteSet(InKeys(ns, D, some)) /\ Cardinality(InKeys(ns, D, some)) \in Nat
<1> DEFINE f == [n \in some |-> KeyLen(ns, n)]
           G == [T \in SUBSET some |-> PageSize * Cardinality(InKeys(ns, D, T))]
<1>1. IsFiniteSet(some)
  <2>1. IsFiniteSet(D) /\ some \in SUBSET D
    BY TreeOrder DEF TreeOf
  <2> QED BY <2>1, FS_Subset
<1>2. \A T \in SUBSET some : IsFiniteSet(InKeys(ns, D, T)) /\ Cardinality(InKeys(ns, D, T)) \in Nat
  <2>1. \A T \in SUBSET some : InKeys(ns, D, T) \in SUBSET D
    BY DEF InKeys
  <2>2. IsFiniteSet(D)
    BY DEF TreeOf
  <2> QED BY <2>1, <2>2, FS_Subset, FS_CardinalityType
<1>3. \A n \in some : f[n] \in Int
  <2>1. \A n \in ns : KeyLen(ns, n) \in Nat
    BY KeyCount
  <2> QED BY <2>1
<1>4. G[{}] = 0
  <2>1. InKeys(ns, D, {}) = {}
    BY DEF InKeys
  <2>2. Cardinality(InKeys(ns, D, {})) = 0
    BY <2>1, FS_EmptySet
  <2>3. PageSize * 0 = 0
    BY Multiples
  <2> QED BY <2>2, <2>3
<1>5. ASSUME NEW T \in SUBSET some, NEW n \in T PROVE G[T] = f[n] + G[T \ {n}]
  <2> DEFINE A == {q \in D : HomeIn(ns, q, n)}
             B == InKeys(ns, D, T \ {n})
             S == InKeys(ns, D, T)
  <2>1. /\ IsFiniteSet(A) /\ f[n] = PageSize * Cardinality(A)
    BY KeyCount
  <2>2. IsFiniteSet(B)
    BY <1>2
  <2>3. S = A \cup B
    BY DEF InKeys
  <2>4. A \cap B = {}
    BY TreeOrder DEF InKeys
  <2>5. G[T] = PageSize * Cardinality(S) /\ G[T \ {n}] = PageSize * Cardinality(B)
    OBVIOUS
  <2>6. /\ Cardinality(S) = Cardinality(A) + Cardinality(B)
        /\ Cardinality(A) \in Nat /\ Cardinality(B) \in Nat
    <3>1. IsFiniteSet(A)
      BY <2>1
    <3> HIDE DEF A, B, S
    <3> QED BY <3>1, <2>2, <2>3, <2>4, CardParts
  <2> HIDE DEF A, B, S, G, f
  <2>7. PageSize * Cardinality(S) = PageSize * Cardinality(A) + PageSize * Cardinality(B)
    <3>1. /\ PageSize * Cardinality(A) = Cardinality(A) * PageSize
          /\ PageSize * Cardinality(B) = Cardinality(B) * PageSize
          /\ (Cardinality(A) + Cardinality(B)) * PageSize
                = Cardinality(A) * PageSize + Cardinality(B) * PageSize
          /\ Cardinality(A) + Cardinality(B) \in Nat
      BY <2>6, Multiples
    <3>2. PageSize * Cardinality(S) = Cardinality(S) * PageSize
      BY <2>6, <3>1, Multiples
    <3> QED BY <2>6, <3>1, <3>2
  <2> QED BY <2>1, <2>5, <2>7
<1>6. \A T \in SUBSET some : \A n \in T : G[T \ {n}] \in Int => G[T] = f[n] + G[T \ {n}]
  BY <1>5
<1>7. G[some] = PageSize * Cardinality(InKeys(ns, D, some))
  OBVIOUS
<1>8. KeyTokens(ns, some) = SumFunctionOnSet(f, some)
  BY DEF KeyTokens, SumFunction
<1> HIDE DEF f, G
<1>9. G[some] = SumFunctionOnSet(f, some)
  BY <1>1, <1>3, <1>4, <1>6, SumUnique
<1> QED BY <1>2, <1>7, <1>8, <1>9

\* rf counts for each node what L counts for each page of its key.
Counts(ns, D, rf, L) ==
    /\ DOMAIN rf = ns /\ \A n \in ns : rf[n] = L[n]
    /\ \A q \in D : \A h \in ns : HomeIn(ns, q, h) => L[q] = L[h]

\* The keys of the nodes with a given count.
LEMMA CountedSum ==
    ASSUME NEW ns, NEW D, TreeOf(ns, D), NEW rf, NEW L, Counts(ns, D, rf, L)
    PROVE  /\ KeyTokens(ns, {n \in ns : rf[n] = 0}) = PageSize * Cardinality({q \in D : L[q] = 0})
           /\ KeyTokens(ns, {n \in ns : rf[n] > 0}) = PageSize * Cardinality({q \in D : L[q] > 0})
<1>1. InKeys(ns, D, {n \in ns : rf[n] = 0}) = {q \in D : L[q] = 0}
  BY TreeOrder DEF InKeys, Counts
<1>2. InKeys(ns, D, {n \in ns : rf[n] > 0}) = {q \in D : L[q] > 0}
  BY TreeOrder DEF InKeys, Counts
<1> DEFINE zero == {n \in ns : rf[n] = 0}
           some == {n \in ns : rf[n] > 0}
<1>3. zero \in SUBSET ns /\ some \in SUBSET ns
  OBVIOUS
<1>4. /\ KeyTokens(ns, zero) = PageSize * Cardinality(InKeys(ns, D, zero))
      /\ KeyTokens(ns, some) = PageSize * Cardinality(InKeys(ns, D, some))
  <2> HIDE DEF zero, some
  <2> QED BY <1>3, KeySum
<1> QED BY <1>1, <1>2, <1>4

\* A cached path ends at or above a node exactly when its home does.
LEMMA HomeBelow ==
    ASSUME NEW ns, NEW D, TreeOf(ns, D), NEW q \in D, NEW h \in ns, HomeIn(ns, q, h),
           NEW path \in Seq(Tok), path = <<>> \/ path \in ns
    PROVE  IsPrefix(q, path) <=> IsPrefix(h, path)
<1>1. q \in Paths /\ h \in Paths /\ q \in Seq(Tok) /\ h \in Seq(Tok)
  BY TreeOrder
<1>2. CASE path = <<>>
  BY <1>1, <1>2, RootFirst
<1>3. CASE path \in ns
  <2>1. IsPrefix(q, path) => IsPrefix(h, path)
    BY <1>3 DEF HomeIn
  <2>2. IsPrefix(h, path) => IsPrefix(q, path)
    BY <1>1, PathOrder DEF HomeIn
  <2> QED BY <2>1, <2>2
<1> QED BY <1>2, <1>3

\* The tokens that a lock or an unlock moves between the two sizes.
LEMMA CrossingSum ==
    ASSUME NEW ns, NEW D, TreeOf(ns, D), NEW rf, NEW L, Counts(ns, D, rf, L),
           NEW path \in Seq(Tok), path = <<>> \/ path \in ns, NEW at
    PROVE  Crossing(rf, path, at)
               = PageSize * Cardinality({q \in D : IsPrefix(q, path) /\ L[q] = at})
<1> DEFINE some == {n \in ns : IsPrefix(n, path) /\ rf[n] = at}
<1>1. Crossing(rf, path, at) = KeyTokens(ns, some)
  <2>1. {n \in OnPath(DOMAIN rf, path) : rf[n] = at} = some
    BY DEF OnPath, Counts
  <2> QED BY <2>1 DEF Crossing, Counts
<1>2. InKeys(ns, D, some) = {q \in D : IsPrefix(q, path) /\ L[q] = at}
  <2>1. ASSUME NEW q \in D
        PROVE  q \in InKeys(ns, D, some) <=> IsPrefix(q, path) /\ L[q] = at
    <3>1. PICK h \in ns : HomeIn(ns, q, h)
      BY TreeOrder
    <3>2. IsPrefix(q, path) <=> IsPrefix(h, path)
      BY <3>1, HomeBelow
    <3>3. L[q] = L[h] /\ rf[h] = L[h]
      BY <3>1 DEF Counts
    <3>4. \A n \in ns : HomeIn(ns, q, n) => n = h
      BY <3>1, TreeOrder
    <3>5. q \in InKeys(ns, D, some) <=> h \in some
      BY <3>1, <3>4 DEF InKeys
    <3> QED BY <3>2, <3>3, <3>5
  <2> QED BY <2>1 DEF InKeys
<1>3. some \in SUBSET ns
  OBVIOUS
<1> HIDE DEF some
<1> QED BY <1>1, <1>2, <1>3, KeySum

-----------------------------------------------------------------------------
(* What the invariant says of one request *)

\* The fields of an active request and its handle.
LEMMA RequestFacts ==
    ASSUME ReqInv, NEW r \in Active
    PROVE  /\ r \in Req /\ req[r] \in ReqType /\ RowOf(r)
           /\ req[r].toks \in Seq(Tok) /\ req[r].row \in Seq(Page) /\ Len(req[r].toks) \in Nat
           /\ Len(req[r].row) \in Nat /\ req[r].cached \in Nat /\ req[r].hlen \in Nat
           /\ req[r].max \in Nat /\ req[r].plen \in Nat
           /\ req[r].hlen <= req[r].cached /\ req[r].cached <= Len(req[r].toks)
           /\ Aligned(req[r].hlen)
<1>1. r \in Req /\ req[r] \in ReqType /\ RowOf(r)
  BY DEF ReqInv, Active
<1>2. /\ req[r].toks \in Seq(Tok) /\ req[r].row \in Seq(Page)
      /\ req[r].cached \in Nat /\ req[r].hlen \in Nat
      /\ req[r].max \in Nat /\ req[r].plen \in Nat
  BY <1>1 DEF ReqType
<1>3. Len(req[r].toks) \in Nat /\ Len(req[r].row) \in Nat
  BY <1>2
<1> QED BY <1>1, <1>2, <1>3 DEF RowOf

\* A handle is the root or a node.
LEMMA HandleFacts ==
    ASSUME ReqInv, NEW r \in Active
    PROVE  /\ Handle(r) \in Seq(Tok) /\ Len(Handle(r)) = req[r].hlen
           /\ Handle(r) = <<>> \/ Handle(r) \in nodes
           /\ \A n \in 0 .. Len(req[r].toks) :
                 req[r].hlen <= n => IsPrefix(Handle(r), Upto(req[r].toks, n))
<1>1. /\ req[r].toks \in Seq(Tok) /\ Len(req[r].toks) \in Nat /\ req[r].cached \in Nat
      /\ req[r].hlen \in Nat /\ req[r].hlen <= req[r].cached
      /\ req[r].cached <= Len(req[r].toks) /\ RowOf(r)
  BY RequestFacts
<1>2. req[r].hlen \in 0 .. Len(req[r].toks)
  BY <1>1
<1>3. Handle(r) \in Seq(Tok) /\ Len(Handle(r)) = req[r].hlen
  BY <1>1, <1>2, UptoAt DEF Handle
<1>4. Handle(r) = <<>> \/ Handle(r) \in nodes
  <2>1. CASE req[r].hlen = 0
    BY <1>1, <2>1, RootFirst DEF Handle
  <2>2. CASE req[r].hlen # 0
    BY <1>1, <2>2 DEF RowOf
  <2> QED BY <2>1, <2>2
<1>5. \A n \in 0 .. Len(req[r].toks) :
         req[r].hlen <= n => IsPrefix(Handle(r), Upto(req[r].toks, n))
  BY <1>1, <1>2, UptoPrefix DEF Handle
<1> QED BY <1>3, <1>4, <1>5

\* Locks are counted.
LEMMA LockersFinite == \A q : IsFiniteSet(Lockers(q)) /\ Locks(q) \in Nat
<1> SUFFICES ASSUME NEW q PROVE IsFiniteSet(Lockers(q)) /\ Locks(q) \in Nat
  OBVIOUS
<1>1. Lockers(q) \in SUBSET Req
  BY DEF Lockers, Active
<1>2. IsFiniteSet(Lockers(q))
  BY <1>1, FS_Subset, RadixConstants
<1> QED BY <1>2, FS_CardinalityType DEF Locks

\* A page of a key is locked by the handles that lock its node: ref_count is its count too.
LEMMA RefCounts ==
    ASSUME TreeInv, ReqInv, CountInv
    PROVE  Counts(nodes, DOMAIN value, ref, [q \in DOMAIN value |-> Locks(q)])
<1>1. TreeOf(nodes, DOMAIN value)
  BY DEF TreeInv
<1>2. nodes \subseteq DOMAIN value
  BY <1>1, TreeOrder
<1>3. ASSUME NEW q \in DOMAIN value, NEW h \in nodes, HomeIn(nodes, q, h)
      PROVE  Locks(q) = Locks(h)
  <2>1. ASSUME NEW r \in Active PROVE IsPrefix(q, Handle(r)) <=> IsPrefix(h, Handle(r))
    <3>1. Handle(r) \in Seq(Tok) /\ (Handle(r) = <<>> \/ Handle(r) \in nodes)
      BY HandleFacts
    <3> QED BY <1>1, <1>3, <3>1, HomeBelow
  <2>2. Lockers(q) = Lockers(h)
    BY <2>1 DEF Lockers
  <2> QED BY <2>2 DEF Locks
<1> QED BY <1>2, <1>3 DEF Counts, CountInv

\* What the tree cuts off of ids: the longest cached prefix.
LEMMA MatchFacts ==
    ASSUME TreeInv, NEW ids \in Seq(Tok)
    PROVE  /\ MatchLen(ids) \in 0 .. Len(ids) /\ Aligned(MatchLen(ids))
           /\ Upto(ids, MatchLen(ids)) \in Seq(Tok)
           /\ Len(Upto(ids, MatchLen(ids))) = MatchLen(ids)
           /\ IsPrefix(Upto(ids, MatchLen(ids)), ids)
           /\ Upto(ids, MatchLen(ids)) = <<>> \/ Upto(ids, MatchLen(ids)) \in DOMAIN value
           /\ \A q \in DOMAIN value : IsPrefix(q, ids) =>
                 Len(q) <= MatchLen(ids) /\ IsPrefix(q, Upto(ids, MatchLen(ids)))
<1> DEFINE T == {0} \cup {k \in 1 .. Len(ids) : Upto(ids, k) \in DOMAIN value}
           m == MatchLen(ids)
<1>1. TreeOf(nodes, DOMAIN value) /\ Len(ids) \in Nat
  BY DEF TreeInv
<1>2. T \in SUBSET Nat /\ T # {} /\ \A x \in T : x <= Len(ids)
  BY <1>1
<1>3. m \in T /\ \A x \in T : x <= m
  <2>1. m = Max(T)
    BY DEF MatchLen
  <2> HIDE DEF T, m
  <2> QED BY <1>1, <1>2, <2>1, MaxIn
<1>4. m \in 0 .. Len(ids)
  BY <1>1, <1>3
<1>5. Upto(ids, m) \in Seq(Tok) /\ Len(Upto(ids, m)) = m /\ IsPrefix(Upto(ids, m), ids)
  <2> HIDE DEF m
  <2> QED BY <1>4, UptoAt
<1>6. m = 0 \/ Upto(ids, m) \in DOMAIN value
  BY <1>3
<1>7. Aligned(m) /\ (Upto(ids, m) = <<>> \/ Upto(ids, m) \in DOMAIN value)
  <2>1. CASE m = 0
    BY <2>1, AlignedZero, RootFirst
  <2>2. CASE Upto(ids, m) \in DOMAIN value
    BY <1>1, <1>5, <2>2, TreeOrder DEF Paths
  <2> QED BY <1>6, <2>1, <2>2
<1>8. ASSUME NEW q \in DOMAIN value, IsPrefix(q, ids)
      PROVE  Len(q) <= m /\ IsPrefix(q, Upto(ids, m))
  <2>1. q \in Seq(Tok) /\ Len(q) \in Nat /\ Len(q) >= 1
    BY <1>1, TreeOrder, PathsType
  <2>2. Len(q) <= Len(ids) /\ q = Upto(ids, Len(q))
    BY <1>8, <2>1, PrefixUpto
  <2>3. Len(q) \in T
    BY <2>1, <2>2
  <2>4. Len(q) <= m
    BY <1>3, <2>3
  <2> HIDE DEF m
  <2> QED BY <1>5, <1>8, <2>1, <2>4, PathOrder
<1> HIDE DEF m, T
<1> QED BY <1>4, <1>5, <1>7, <1>8 DEF m

-----------------------------------------------------------------------------
(* Init *)

\* An empty tree, and every page free.
LEMMA InitInv == Init => IndInv
<1> SUFFICES ASSUME Init PROVE IndInv
  OBVIOUS
<1>1. /\ nodes = {} /\ DOMAIN value = {} /\ DOMAIN ref = {} /\ alloc = NoAlloc
      /\ evictable = 0 /\ protected = 0 /\ free = [p \in Page |-> 1]
      /\ req = [r \in Req |-> Idle] /\ Active = {}
  BY DEF Init, Active, Idle
<1>2. TreeInv
  BY <1>1, FS_EmptySet DEF TreeInv, TreeOf
<1>3. ReqInv
  <2>1. Idle \in ReqType
    BY DEF Idle, ReqType
  <2> QED BY <1>1, <2>1 DEF ReqInv
<1>4. PageInv
  <2>1. Range(value) = {}
    BY <1>1 DEF Range
  <2>2. IsInjective(value)
    BY <1>1 DEF IsInjective
  <2>3. value \in [DOMAIN value -> Page]
    BY <1>1 DEF Init
  <2> QED BY <1>1, <2>1, <2>2, <2>3 DEF PageInv, Taken
<1>5. CountInv
  <2>1. /\ {q \in DOMAIN value : Locks(q) = 0} = {} /\ {q \in DOMAIN value : Locks(q) > 0} = {}
    BY <1>1
  <2>2. /\ Cardinality({q \in DOMAIN value : Locks(q) = 0}) = 0
        /\ Cardinality({q \in DOMAIN value : Locks(q) > 0}) = 0
    BY <2>1, FS_EmptySet
  <2>3. PageSize * 0 = 0
    BY Multiples
  <2>4. ref \in [nodes -> Nat]
    BY <1>1 DEF Init
  <2> QED BY <1>1, <2>2, <2>3, <2>4 DEF CountInv
<1>6. KVInPlace
  BY <1>1 DEF KVInPlace
<1> QED BY <1>2, <1>3, <1>4, <1>5, <1>6 DEF IndInv

-----------------------------------------------------------------------------
(* Requests that a step leaves alone *)

\* What is said of a request is said of its fields and of the tree.
LEMMA SameRequest ==
    ASSUME NEW r \in Req, req'[r] = req[r]
    PROVE  /\ (r \in Active)' <=> r \in Active
           /\ Handle(r)' = Handle(r) /\ OwnAt(r)' = OwnAt(r) /\ Own(r)' = Own(r)
BY DEF Active, Handle, OwnAt, Own

\* The row of a request that a step leaves alone stays right when the tree keeps what it uses.
LEMMA SameRow ==
    ASSUME NEW r \in Req, req'[r] = req[r], RowOf(r),
           req[r].hlen > 0 => Handle(r) \in nodes',
           \A i \in 1 .. Len(req[r].row) : i * PageSize <= req[r].hlen =>
               value'[Upto(req[r].toks, i * PageSize)] = value[Upto(req[r].toks, i * PageSize)]
    PROVE  RowOf(r)'
<1>1. Handle(r)' = Handle(r)
  BY DEF Handle
<1> QED BY <1>1 DEF RowOf

\* When the tree and the pages stay, only the requests are to be looked at.
LEMMA SamePages ==
    ASSUME PageInv, UNCHANGED <<value, free>>, Active' = Active,
           \A r \in Active : OwnAt(r)' = OwnAt(r) /\ Own(r)' = Own(r) /\ req'[r].row = req[r].row
    PROVE  PageInv'
<1>1. \A p : Taken(p)' <=> Taken(p)
  BY DEF Taken
<1> QED BY <1>1 DEF PageInv

\* The counters depend on the tree and the handles alone.
LEMMA SameCounts ==
    ASSUME CountInv, UNCHANGED <<nodes, ref, value, evictable, protected>>, Active' = Active,
           \A r \in Active : Handle(r)' = Handle(r)
    PROVE  CountInv'
<1>1. \A q : Locks(q)' = Locks(q)
  BY DEF Locks, Lockers
<1> QED BY <1>1 DEF CountInv


-----------------------------------------------------------------------------
(* Walks, locks and inserts keep the counts *)

\* The prefixes without a lock, and those with one
Loose(D, L)  == {q \in D : L[q] = 0}
Pinned(D, L) == {q \in D : L[q] > 0}

\* evictable_size e and protected_size p are those of a tree whose prefixes have the counts L.
Sized(D, L, e, p) ==
    /\ e = PageSize * Cardinality(Loose(D, L))
    /\ p = PageSize * Cardinality(Pinned(D, L))

\* The prefixes of B that get their first lock move from one size to the other.
LEMMA FirstLocks ==
    ASSUME NEW D, IsFiniteSet(D), NEW B \in SUBSET D, NEW L, NEW M,
           \A q \in D : L[q] \in Nat /\ M[q] = IF q \in B THEN L[q] + 1 ELSE L[q]
    PROVE  /\ PageSize * Cardinality(Loose(D, M))
                  = PageSize * Cardinality(Loose(D, L))
                    - PageSize * Cardinality(Loose(B, L))
           /\ PageSize * Cardinality(Pinned(D, M))
                  = PageSize * Cardinality(Pinned(D, L))
                    + PageSize * Cardinality(Loose(B, L))
<1> DEFINE X == Loose(B, L)
           Y == Loose(D, M)
           Z == Pinned(D, L)
           U == Loose(D, L)
           V == Pinned(D, M)
<1>1. U = X \cup Y /\ X \cap Y = {}
  BY DEF Loose
<1>2. V = X \cup Z /\ X \cap Z = {}
  BY DEF Loose, Pinned
<1>3. X \in SUBSET D /\ Y \in SUBSET D /\ Z \in SUBSET D
  BY DEF Loose, Pinned
<1>4. IsFiniteSet(X) /\ IsFiniteSet(Y) /\ IsFiniteSet(Z)
  BY <1>3, FS_Subset
<1>5. /\ Cardinality(U) = Cardinality(X) + Cardinality(Y)
      /\ Cardinality(X) \in Nat /\ Cardinality(Y) \in Nat
  <2> HIDE DEF X, Y, U
  <2> QED BY <1>1, <1>4, CardParts
<1>6. /\ Cardinality(V) = Cardinality(Z) + Cardinality(X)
      /\ Cardinality(Z) \in Nat
  <2> HIDE DEF X, Z, V
  <2> QED BY <1>2, <1>4, CardParts
<1>7. /\ PageSize * Cardinality(U) = PageSize * Cardinality(Y) + PageSize * Cardinality(X)
      /\ PageSize * Cardinality(V) = PageSize * Cardinality(Z) + PageSize * Cardinality(X)
  <2>1. \A i, j \in Nat : PageSize * (i + j) = PageSize * i + PageSize * j
    BY Multiples
  <2> QED BY <1>5, <1>6, <2>1
<1>8. /\ PageSize * Cardinality(X) \in Nat /\ PageSize * Cardinality(Y) \in Nat
      /\ PageSize * Cardinality(Z) \in Nat
  BY <1>5, <1>6, Multiples
<1>9. /\ PageSize * Cardinality(Y) = PageSize * Cardinality(U) - PageSize * Cardinality(X)
      /\ PageSize * Cardinality(V) = PageSize * Cardinality(Z) + PageSize * Cardinality(X)
  BY <1>7, <1>8
<1> QED BY <1>9

\* A lock or unlock of a path changes the counts of all that lies above its end.
LEMMA LockCounts ==
    ASSUME NEW ns, NEW D, TreeOf(ns, D), NEW rf, NEW L, Counts(ns, D, rf, L),
           NEW path \in Seq(Tok), path = <<>> \/ path \in ns, NEW d, NEW M,
           \A q \in D : M[q] = IF IsPrefix(q, path) THEN L[q] + d ELSE L[q]
    PROVE  Counts(ns, D, LockRef(rf, path, d), M)
<1>1. ns \subseteq D
  BY TreeOrder
<1>2. ASSUME NEW q \in D, NEW h \in ns, HomeIn(ns, q, h)
      PROVE  M[q] = M[h]
  <2>1. IsPrefix(q, path) <=> IsPrefix(h, path)
    BY <1>2, HomeBelow
  <2>2. L[q] = L[h]
    BY <1>2 DEF Counts
  <2> QED BY <1>1, <2>1, <2>2
<1> QED BY <1>1, <1>2 DEF Counts, LockRef

\* lock: what becomes protected stops being evictable.
LEMMA LockSizes ==
    ASSUME NEW ns, NEW D, TreeOf(ns, D), NEW rf, NEW L, Counts(ns, D, rf, L),
           \A q \in D : L[q] \in Nat,
           NEW path \in Seq(Tok), path = <<>> \/ path \in ns, NEW M,
           \A q \in D : M[q] = IF IsPrefix(q, path) THEN L[q] + 1 ELSE L[q],
           NEW e, NEW p, Sized(D, L, e, p)
    PROVE  /\ Counts(ns, D, LockRef(rf, path, 1), M) /\ Crossing(rf, path, 0) \in Nat
           /\ Sized(D, M, e - Crossing(rf, path, 0), p + Crossing(rf, path, 0))
<1> DEFINE B == {q \in D : IsPrefix(q, path)}
<1>1. Counts(ns, D, LockRef(rf, path, 1), M)
  BY LockCounts
<1>2. IsFiniteSet(D)
  BY DEF TreeOf
<1>3. Crossing(rf, path, 0) = PageSize * Cardinality({q \in D : IsPrefix(q, path) /\ L[q] = 0})
  BY CrossingSum
<1>4. {q \in D : IsPrefix(q, path) /\ L[q] = 0} = Loose(B, L)
  BY DEF Loose
<1>5. /\ B \in SUBSET D
      /\ \A q \in D : L[q] \in Nat /\ M[q] = IF q \in B THEN L[q] + 1 ELSE L[q]
  OBVIOUS
<1>6. Crossing(rf, path, 0) \in Nat
  <2>1. {q \in D : IsPrefix(q, path) /\ L[q] = 0} \in SUBSET D
    OBVIOUS
  <2>2. Cardinality({q \in D : IsPrefix(q, path) /\ L[q] = 0}) \in Nat
    BY <1>2, <2>1, FS_Subset, FS_CardinalityType
  <2> QED BY <1>3, <2>2, Multiples
<1> HIDE DEF B
<1>7. /\ PageSize * Cardinality(Loose(D, M))
             = PageSize * Cardinality(Loose(D, L))
               - PageSize * Cardinality(Loose(B, L))
      /\ PageSize * Cardinality(Pinned(D, M))
             = PageSize * Cardinality(Pinned(D, L))
               + PageSize * Cardinality(Loose(B, L))
  BY <1>2, <1>5, FirstLocks
<1> QED BY <1>1, <1>3, <1>4, <1>7, <1>6 DEF Sized

\* unlock: what loses its last lock is evictable again.
LEMMA UnlockSizes ==
    ASSUME NEW ns, NEW D, TreeOf(ns, D), NEW rf, NEW L, Counts(ns, D, rf, L),
           NEW path \in Seq(Tok), path = <<>> \/ path \in ns, NEW M,
           \A q \in D : M[q] \in Nat,
           \A q \in D : L[q] = IF IsPrefix(q, path) THEN M[q] + 1 ELSE M[q],
           NEW e \in Int, NEW p \in Int, Sized(D, L, e, p)
    PROVE  /\ Counts(ns, D, LockRef(rf, path, -1), M)
           /\ Crossing(rf, path, 1) \in Nat
           /\ Sized(D, M, e + Crossing(rf, path, 1), p - Crossing(rf, path, 1))
<1> DEFINE B == {q \in D : IsPrefix(q, path)}
           x == PageSize * Cardinality(Loose(B, M))
<1>1. \A q \in D : M[q] = IF IsPrefix(q, path) THEN L[q] + (-1) ELSE L[q]
  OBVIOUS
<1>2. Counts(ns, D, LockRef(rf, path, -1), M)
  BY <1>1, LockCounts
<1>3. IsFiniteSet(D)
  BY DEF TreeOf
<1>4. Crossing(rf, path, 1) = PageSize * Cardinality({q \in D : IsPrefix(q, path) /\ L[q] = 1})
  BY CrossingSum
<1>5. {q \in D : IsPrefix(q, path) /\ L[q] = 1} = Loose(B, M)
  BY DEF Loose
<1>6. /\ B \in SUBSET D
      /\ \A q \in D : M[q] \in Nat /\ L[q] = IF q \in B THEN M[q] + 1 ELSE M[q]
  OBVIOUS
<1>7. x \in Nat
  <2>1. Loose(B, M) \in SUBSET D
    BY <1>6 DEF Loose
  <2>2. Cardinality(Loose(B, M)) \in Nat
    BY <1>3, <2>1, FS_Subset, FS_CardinalityType
  <2> QED BY <2>2, Multiples
<1> HIDE DEF B
<1>8. /\ PageSize * Cardinality(Loose(D, L))
             = PageSize * Cardinality(Loose(D, M)) - x
      /\ PageSize * Cardinality(Pinned(D, L))
             = PageSize * Cardinality(Pinned(D, M)) + x
  BY <1>3, <1>6, FirstLocks
<1>9. /\ PageSize * Cardinality(Loose(D, M)) \in Nat
      /\ PageSize * Cardinality(Pinned(D, M)) \in Nat
  <2>1. /\ Cardinality(Loose(D, M)) \in Nat
        /\ Cardinality(Pinned(D, M)) \in Nat
    <3>1. Loose(D, M) \in SUBSET D /\ Pinned(D, M) \in SUBSET D
      BY DEF Loose, Pinned
    <3> QED BY <1>3, <3>1, FS_Subset, FS_CardinalityType
  <2> QED BY <2>1, Multiples
<1>10. Crossing(rf, path, 1) = x
  BY <1>4, <1>5
<1> DEFINE c0 == PageSize * Cardinality(Loose(D, M))
           c1 == PageSize * Cardinality(Pinned(D, M))
<1>11. e = c0 - x /\ p = c1 + x
  BY <1>8 DEF Sized
<1> HIDE DEF x, c0, c1
<1>12. e + x = c0 /\ p - x = c1
  BY <1>7, <1>9, <1>11 DEF c0, c1
<1> QED BY <1>2, <1>7, <1>10, <1>12 DEF Sized, c0, c1

\* The locks of the requests other than r.
Others(r, q) == Cardinality({s \in Active \ {r} : IsPrefix(q, Handle(s))})

\* The same as a map
OtherMap(r, D) == [q \in D |-> Others(r, q)]

\* The locks of all are those of r and those of the others.
LocksSplit(r) ==
    \A q : /\ Others(r, q) \in Nat
           /\ Locks(q) = IF r \in Active /\ IsPrefix(q, Handle(r)) THEN Others(r, q) + 1
                         ELSE Others(r, q)

\* For every request
AllLocksSplit == \A r \in Req : LocksSplit(r)

\* A request locks what lies above its handle.
LEMMA LocksOthers == AllLocksSplit
<1> SUFFICES ASSUME NEW r \in Req, NEW q
             PROVE  /\ Others(r, q) \in Nat
                    /\ Locks(q) = IF r \in Active /\ IsPrefix(q, Handle(r)) THEN Others(r, q) + 1
                                  ELSE Others(r, q)
  BY DEF AllLocksSplit, LocksSplit
<1> DEFINE O == {s \in Active \ {r} : IsPrefix(q, Handle(s))}
<1>1. O \in SUBSET Req
  BY DEF Active
<1>2. IsFiniteSet(O) /\ r \notin O
  BY <1>1, FS_Subset, RadixConstants
<1>3. Lockers(q) = IF r \in Active /\ IsPrefix(q, Handle(r)) THEN O \cup {r} ELSE O
  BY DEF Lockers
<1>4. Others(r, q) = Cardinality(O)
  BY DEF Others
<1> HIDE DEF O
<1>5. Cardinality(O) \in Nat /\ Cardinality(O \cup {r}) = Cardinality(O) + 1
  BY <1>2, FS_AddElement, FS_CardinalityType
<1> QED BY <1>3, <1>4, <1>5 DEF Locks

\* A step of r leaves the locks of the others alone.
LEMMA SameOthers ==
    ASSUME NEW r \in Req, \A s \in Req : s # r => req'[s] = req[s]
    PROVE  \A q : Others(r, q)' = Others(r, q)
<1> SUFFICES ASSUME NEW q PROVE Others(r, q)' = Others(r, q)
  OBVIOUS
<1>1. {s \in Active \ {r} : IsPrefix(q, Handle(s))}'
          = {s \in Active \ {r} : IsPrefix(q, Handle(s))}
  BY DEF Active, Handle
<1> QED BY <1>1 DEF Others

-----------------------------------------------------------------------------
(* _tree_walk and insert_prefix *)

\* A walk that ends inside a node splits it; the upper half takes its ref_count over, so the
\* counts of all prefixes stay.
LEMMA WalkCounts ==
    ASSUME TreeInv, ReqInv, CountInv, NEW p \in Seq(Tok), p = <<>> \/ p \in DOMAIN value
    PROVE  /\ TreeOf(WalkNodes(p), DOMAIN value)
           /\ Counts(WalkNodes(p), DOMAIN value, WalkRef(p), [q \in DOMAIN value |-> Locks(q)])
           /\ nodes \subseteq WalkNodes(p) /\ (p = <<>> \/ p \in WalkNodes(p))
<1> DEFINE D == DOMAIN value
           L == [q \in D |-> Locks(q)]
<1>1. TreeOf(nodes, D) /\ Counts(nodes, D, ref, L)
  BY RefCounts DEF TreeInv
<1>2. nodes \subseteq WalkNodes(p) /\ (p = <<>> \/ p \in WalkNodes(p))
  BY DEF WalkNodes
<1>3. nodes \subseteq D
  BY <1>1, TreeOrder
<1>4. CASE p = <<>>
  <2>1. WalkNodes(p) = nodes
    BY <1>4 DEF WalkNodes
  <2>2. \A n \in nodes : WalkRef(p)[n] = ref[n]
    BY <2>1 DEF WalkRef
  <2>3. DOMAIN WalkRef(p) = nodes
    BY <2>1 DEF WalkRef
  <2> QED BY <1>1, <1>2, <2>1, <2>2, <2>3 DEF Counts
<1>5. CASE p # <<>>
  <2>1. p \in D /\ WalkNodes(p) = nodes \cup {p}
    BY <1>5 DEF WalkNodes
  <2>2. TreeOf(WalkNodes(p), D)
    BY <1>1, <2>1, TreeSplit
  <2>3. PICK g \in nodes : HomeIn(nodes, p, g)
    BY <1>1, <2>1, TreeOrder
  <2>4. IsPrefix(p, g) /\ \A m \in nodes : IsPrefix(p, m) => IsPrefix(g, m)
    BY <2>3 DEF HomeIn
  <2>5. \A a, b \in D : IsPrefix(a, b) => Len(a) <= Len(b) /\ (Len(a) = Len(b) => a = b)
    BY <1>1, TreeOrder, PathOrder
  <2>6. \A a \in D : Len(a) \in Nat
    BY <1>1, TreeOrder
  <2>7. SplitRef(p) = ref[g]
    <3> DEFINE Near(n) == IsPrefix(p, n) /\ \A m \in nodes : IsPrefix(p, m) => Len(n) <= Len(m)
    <3>1. Near(g)
      BY <1>3, <2>4, <2>5
    <3>2. ASSUME NEW n \in nodes, Near(n) PROVE n = g
      <4>1. IsPrefix(g, n) /\ Len(n) <= Len(g) /\ Len(g) <= Len(n)
        BY <1>3, <2>4, <2>5, <3>2
      <4>2. Len(g) = Len(n)
        BY <1>3, <2>6, <4>1
      <4> QED BY <1>3, <2>5, <4>1, <4>2
    <3> HIDE DEF Near
    <3>3. (CHOOSE n \in nodes : Near(n)) = g
      BY <3>1, <3>2
    <3> QED BY <3>3 DEF SplitRef, Near
  <2>8. L[p] = L[g]
    BY <1>1, <2>1, <2>3 DEF Counts
  <2>9. DOMAIN WalkRef(p) = WalkNodes(p) /\ \A n \in WalkNodes(p) : WalkRef(p)[n] = L[n]
    <3>1. ref[g] = L[g] /\ \A n \in nodes : ref[n] = L[n]
      BY <1>1 DEF Counts
    <3>2. ASSUME NEW n \in WalkNodes(p) PROVE WalkRef(p)[n] = L[n]
      <4> HIDE DEF L
      <4>1. CASE n \in nodes
        BY <3>1, <4>1 DEF WalkRef
      <4>2. CASE n \notin nodes
        BY <2>1, <2>7, <2>8, <3>1, <4>2 DEF WalkRef
      <4> QED BY <4>1, <4>2
    <3>3. DOMAIN WalkRef(p) = WalkNodes(p)
      BY DEF WalkRef
    <3> QED BY <3>2, <3>3
  <2>10. ASSUME NEW q \in D, NEW h \in WalkNodes(p), HomeIn(WalkNodes(p), q, h)
         PROVE  L[q] = L[h]
    <3>1. IsPrefix(q, h) /\ \A m \in nodes : IsPrefix(q, m) => IsPrefix(h, m)
      BY <2>1, <2>10 DEF HomeIn
    <3>2. CASE h \in nodes
      <4>1. HomeIn(nodes, q, h)
        BY <3>1, <3>2 DEF HomeIn
      <4> QED BY <1>1, <3>2, <4>1 DEF Counts
    <3>3. CASE h = p
      <4>1. IsPrefix(q, g)
        BY <1>1, <1>3, <2>1, <2>4, <3>1, <3>3, TreeOrder
      <4>2. HomeIn(nodes, q, g)
        BY <2>4, <3>1, <3>3, <4>1 DEF HomeIn
      <4>3. L[q] = L[g]
        BY <1>1, <4>2 DEF Counts
      <4> QED BY <2>8, <3>3, <4>3
    <3> QED BY <2>1, <3>2, <3>3
  <2> HIDE DEF L
  <2>11. Counts(WalkNodes(p), D, WalkRef(p), L)
    BY <2>9, <2>10 DEF Counts
  <2> QED BY <1>2, <2>2, <2>11 DEF L
<1> QED BY <1>4, <1>5

\* Nothing outside the tree is locked.
LEMMA LockedInTree ==
    ASSUME TreeInv, ReqInv, NEW q \in Paths, q \notin DOMAIN value
    PROVE  Locks(q) = 0
<1>1. TreeOf(nodes, DOMAIN value) /\ nodes \subseteq DOMAIN value
  BY TreeOrder DEF TreeInv
<1>2. ASSUME NEW r \in Active, IsPrefix(q, Handle(r)) PROVE FALSE
  <2>1. Handle(r) = <<>> \/ Handle(r) \in nodes
    BY HandleFacts
  <2>2. CASE Handle(r) = <<>>
    <3>1. q \in Seq(Tok)
      BY PathsType
    <3> QED BY <1>2, <2>2, <3>1, RootFirst
  <2>3. CASE Handle(r) \in nodes
    BY <1>1, <1>2, <2>3, TreeClosed
  <2> QED BY <2>1, <2>2, <2>3
<1>3. Lockers(q) = {}
  BY <1>2 DEF Lockers
<1> QED BY <1>3, FS_EmptySet DEF Locks

\* The cached prefixes after insert_prefix of ids
Grown(ids) == DOMAIN value \cup {q \in Paths : IsPrefix(q, ids)}

\* What insert_prefix adds are the whole pages of ids beyond the match.
LEMMA FreshPaths ==
    ASSUME TreeInv, NEW ids \in Seq(Tok), Aligned(Len(ids)),
           NEW E, E = Grown(ids)
    PROVE  /\ E \ DOMAIN value = Between(ids, MatchLen(ids), Len(ids))
           /\ IsFiniteSet(E) /\ IsFiniteSet(E \ DOMAIN value)
           /\ PageSize * Cardinality(E \ DOMAIN value) = Len(ids) - MatchLen(ids)
           /\ \A q \in DOMAIN value : Len(q) \in Nat
<1>grown. E = DOMAIN value \cup {q \in Paths : IsPrefix(q, ids)}
  BY DEF Grown
<1> DEFINE D == DOMAIN value
           m == MatchLen(ids)
           p == Upto(ids, m)
<1>1. TreeOf(nodes, D)
  BY DEF TreeInv
<1>2. /\ m \in 0 .. Len(ids) /\ Aligned(m) /\ p \in Seq(Tok) /\ Len(p) = m
      /\ IsPrefix(p, ids) /\ (p = <<>> \/ p \in D)
      /\ \A q \in D : IsPrefix(q, ids) => Len(q) <= m /\ IsPrefix(q, p)
  BY MatchFacts
<1>3. \A q \in Paths : q \in Seq(Tok) /\ Len(q) \in Nat /\ Len(q) >= 1
  BY PathsType
<1> HIDE DEF D, m, p
<1>4. ASSUME NEW q \in Paths, IsPrefix(q, ids)
      PROVE  q \notin D <=> Len(q) > m
  <2>1. q \in D => Len(q) <= m
    BY <1>2, <1>4
  <2>2. ASSUME Len(q) <= m PROVE q \in D
    <3>1. IsPrefix(q, p)
      BY <1>2, <1>3, <1>4, <2>2, PathOrder
    <3>2. p \in D
      BY <1>2, <3>1, RootFirst
    <3> QED BY <1>1, <3>1, <3>2, TreeClosed
  <2>3. m \in Nat /\ Len(q) \in Nat
    BY <1>2, <1>3
  <2> QED BY <2>1, <2>2, <2>3
<1>5. \A q \in Paths : IsPrefix(q, ids) => Len(q) <= Len(ids)
  BY <1>3, PathOrder
<1>6. E \ D = Between(ids, m, Len(ids))
  BY <1>grown, <1>4, <1>5 DEF Between, D
<1>7. /\ IsFiniteSet(E \ D) /\ PageSize * Cardinality(E \ D) = Len(ids) - m
  <2>1. m \in Nat /\ Len(ids) \in Nat /\ m <= Len(ids)
    BY <1>2
  <2>2. \A k \in Nat : k <= Len(ids) /\ Aligned(k) =>
            /\ IsFiniteSet(Between(ids, k, Len(ids)))
            /\ PageSize * Cardinality(Between(ids, k, Len(ids))) = Len(ids) - k
    BY <2>1, BetweenCount
  <2> QED BY <1>2, <1>6, <2>1, <2>2
<1>8. IsFiniteSet(E)
  <2>1. IsFiniteSet(D)
    BY <1>1 DEF TreeOf
  <2>2. E = D \cup (E \ D)
    BY <1>grown DEF D
  <2> QED BY <1>7, <2>1, <2>2, FS_Union
<1>9. \A q \in D : Len(q) \in Nat
  BY <1>1, TreeOrder
<1> QED BY <1>6, <1>7, <1>8, <1>9 DEF D, m

\* insert_prefix: one more node at ids, whose key is the pages that were not cached; all of
\* them are evictable until the handle is locked.
LEMMA InsertTree ==
    ASSUME TreeInv, ReqInv, CountInv, NEW ids \in Seq(Tok), Aligned(Len(ids)),
           NEW row, NEW t, t = Inserted(ids, row),
           NEW E, E = Grown(ids)
    PROVE  /\ TreeOf(t.nodes, E) /\ nodes \subseteq t.nodes /\ DOMAIN t.value = E
           /\ t.match = MatchLen(ids) /\ (ids = <<>> \/ ids \in t.nodes)
           /\ Counts(t.nodes, E, t.ref, [q \in E |-> Locks(q)])
           /\ Sized(E, [q \in E |-> Locks(q)], evictable + (Len(ids) - t.match), protected)
<1>grown. E = DOMAIN value \cup {q \in Paths : IsPrefix(q, ids)}
  BY DEF Grown
<1> DEFINE D == DOMAIN value
           m == Upto(ids, MatchLen(ids))
           W == WalkNodes(m)
           L == [q \in D |-> Locks(q)]
           M == [q \in E |-> Locks(q)]
<1>1. TreeOf(nodes, D)
  BY DEF TreeInv
<1>2. /\ MatchLen(ids) \in 0 .. Len(ids) /\ m \in Seq(Tok) /\ Len(m) = MatchLen(ids)
      /\ IsPrefix(m, ids) /\ (m = <<>> \/ m \in D)
      /\ \A q \in D : IsPrefix(q, ids) => IsPrefix(q, m)
  BY MatchFacts
<1>3. /\ t.nodes = W \cup (IF ids = <<>> THEN {} ELSE {ids}) /\ t.match = MatchLen(ids)
      /\ t.ref = [n \in t.nodes |-> IF n \in W THEN WalkRef(m)[n] ELSE 0]
      /\ DOMAIN t.value = D \cup {Upto(ids, i * PageSize) : i \in 1 .. (Len(ids) \div PageSize)}
  BY <1>2 DEF Inserted
<1>4. /\ TreeOf(W, D) /\ Counts(W, D, WalkRef(m), L)
      /\ nodes \subseteq W /\ (m = <<>> \/ m \in W)
  BY <1>2, WalkCounts
<1>5. ids = <<>> \/ (ids \in Paths /\ Len(ids) \in Nat)
  <2>1. Len(ids) = 0 => ids = <<>>
    OBVIOUS
  <2>2. Len(ids) \in Nat
    OBVIOUS
  <2> QED BY <2>1, <2>2 DEF Paths
<1>6. /\ IsFiniteSet(E) /\ IsFiniteSet(E \ D)
      /\ PageSize * Cardinality(E \ D) = Len(ids) - MatchLen(ids)
  BY FreshPaths
<1>7. \A q \in E \ D : q \in Paths /\ IsPrefix(q, ids) /\ Locks(q) = 0
  BY <1>grown, LockedInTree
<1>8. TreeOf(t.nodes, E)
  <2>1. CASE ids = <<>>
    <3>1. E = D
      BY <1>grown, <1>7, <2>1, RootFirst
    <3> QED BY <1>3, <1>4, <2>1, <3>1
  <2>2. CASE ids # <<>>
    <3>1. ids \in Paths /\ t.nodes = W \cup {ids}
      BY <1>3, <1>5, <2>2
    <3> HIDE DEF m, W
    <3> QED BY <1>grown, <1>2, <1>4, <1>6, <3>1, TreeInsert
  <2> QED BY <2>1, <2>2
<1>9. DOMAIN t.value = E
  <2> DEFINE k == Len(ids) \div PageSize
  <2>1. k \in Nat /\ Len(ids) = k * PageSize /\ 0 * PageSize = 0
    <3>1. Len(ids) \in Nat
      OBVIOUS
    <3>2. 0 * PageSize = 0
      BY Multiples
    <3> QED BY <3>1, <3>2, AlignedPages, Division
  <2> HIDE DEF k
  <2>2. \A j \in 1 .. k : Upto(ids, j * PageSize) \in Between(ids, 0, Len(ids))
    BY <2>1, BetweenPages
  <2>3. \A q \in Between(ids, 0, Len(ids)) : \E j \in 1 .. k : q = Upto(ids, j * PageSize)
    BY <2>1, BetweenPages
  <2>4. Between(ids, 0, Len(ids)) = {q \in Paths : IsPrefix(q, ids)}
    BY PathsType, PathOrder DEF Between
  <2> QED BY <1>grown, <1>3, <2>2, <2>3, <2>4 DEF k
<1>10. ids = <<>> \/ ids \in t.nodes
  BY <1>3
<1>11. ASSUME ids # <<>>, ids \in D PROVE ids \in W
  <2>1. IsPrefix(ids, m)
    BY <1>2, <1>11, PathOrder
  <2>2. ids = m
    BY <1>2, <2>1, PathOrder
  <2> QED BY <1>4, <1>11, <2>2
<1> HIDE DEF m, W
<1>12. DOMAIN t.ref = t.nodes /\ \A n \in t.nodes : t.ref[n] = M[n]
  <2>1. t.nodes \subseteq E
    BY <1>8, TreeOrder
  <2>2. ASSUME NEW n \in t.nodes PROVE t.ref[n] = Locks(n)
    <3>1. CASE n \in W
      <4>1. WalkRef(m)[n] = L[n] /\ n \in D
        BY <1>4, <3>1, TreeOrder DEF Counts
      <4> QED BY <1>3, <2>2, <3>1, <4>1
    <3>2. CASE n \notin W
      <4>1. n = ids /\ ids # <<>> /\ n \notin D /\ n \in E
        BY <1>3, <1>11, <2>1, <2>2, <3>2
      <4>2. Locks(n) = 0
        BY <1>7, <4>1
      <4> QED BY <1>3, <2>2, <3>2, <4>2
    <3> QED BY <3>1, <3>2
  <2>3. DOMAIN t.ref = t.nodes
    BY <1>3
  <2> QED BY <2>1, <2>2, <2>3
<1>13. ASSUME NEW q \in E, NEW h \in t.nodes, HomeIn(t.nodes, q, h)
       PROVE  Locks(q) = Locks(h)
  <2>1. h \in E /\ W \subseteq D /\ D \subseteq Paths
    BY <1>1, <1>4, <1>8, TreeOrder
  <2>2. IsPrefix(q, h) /\ \A n \in W : IsPrefix(q, n) => IsPrefix(h, n)
    BY <1>3, <1>13 DEF HomeIn
  <2>3. CASE q \in D
    <3>1. h \in W
      <4> SUFFICES ASSUME h \notin W PROVE FALSE
        OBVIOUS
      <4>1. h = ids /\ ids # <<>>
        BY <1>3, <1>13
      <4>2. IsPrefix(q, m)
        BY <1>2, <2>2, <2>3, <4>1
      <4>3. m \in W
        BY <1>4, <2>1, <2>3, <4>2, RootFirst
      <4>4. IsPrefix(ids, m)
        BY <2>2, <4>1, <4>2, <4>3
      <4>5. ids = m
        BY <1>2, <4>4, PathOrder
      <4> QED BY <4>1, <4>3, <4>5
    <3>2. HomeIn(W, q, h)
      BY <2>2, <3>1 DEF HomeIn
    <3>3. L[q] = L[h]
      BY <1>4, <2>3, <3>1, <3>2 DEF Counts
    <3> QED BY <2>1, <2>3, <3>1, <3>3
  <2>4. CASE q \notin D
    <3>1. q \in Paths /\ Locks(q) = 0
      BY <1>7, <2>4
    <3>2. h \notin D
      BY <1>1, <2>2, <2>4, <3>1, TreeClosed
    <3>3. Locks(h) = 0
      BY <1>7, <2>1, <3>2
    <3> QED BY <3>1, <3>3
  <2> QED BY <2>3, <2>4
<1>14. Counts(t.nodes, E, t.ref, M)
  <2>1. t.nodes \subseteq E
    BY <1>8, TreeOrder
  <2> QED BY <1>12, <1>13, <2>1 DEF Counts
<1>15. Sized(E, M, evictable + (Len(ids) - t.match), protected)
  <2> DEFINE a == Loose(D, L)
             b == E \ D
  <2>1. /\ evictable = PageSize * Cardinality(a) /\ protected = PageSize * Cardinality(Pinned(D, L))
    <3>1. /\ a = {q \in D : Locks(q) = 0} /\ Pinned(D, L) = {q \in D : Locks(q) > 0}
      BY DEF Loose, Pinned
    <3> QED BY <3>1 DEF CountInv
  <2>2. Loose(E, M) = a \cup b /\ a \cap b = {}
    BY <1>grown, <1>7 DEF Loose
  <2>3. Pinned(E, M) = Pinned(D, L)
    BY <1>grown, <1>7 DEF Pinned
  <2>4. IsFiniteSet(a)
    <3>1. a \in SUBSET D
      BY DEF Loose
    <3>2. IsFiniteSet(D)
      BY <1>1 DEF TreeOf
    <3> QED BY <3>1, <3>2, FS_Subset
  <2>5. PageSize * Cardinality(b) = Len(ids) - t.match
    BY <1>3, <1>6
  <2>6. /\ Cardinality(a \cup b) = Cardinality(a) + Cardinality(b)
        /\ Cardinality(a) \in Nat /\ Cardinality(b) \in Nat
    <3> HIDE DEF a
    <3> QED BY <1>6, <2>2, <2>4, CardParts
  <2>7. \A i, j \in Nat : PageSize * (i + j) = PageSize * i + PageSize * j
    BY Multiples
  <2>8. PageSize * Cardinality(a \cup b) = PageSize * Cardinality(a) + PageSize * Cardinality(b)
    BY <2>6, <2>7
  <2> HIDE DEF a, b, M, L
  <2> QED BY <2>1, <2>2, <2>3, <2>5, <2>8 DEF Sized
<1> QED BY <1>3, <1>4, <1>8, <1>9, <1>10, <1>14, <1>15 DEF W

-----------------------------------------------------------------------------
(* The pages of a request that is committed or finished *)

\* The pages of a handle are cached.
LEMMA HandlePages ==
    ASSUME TreeInv, ReqInv, NEW r \in Active, NEW i \in 1 .. Len(req[r].row),
           i * PageSize <= req[r].hlen
    PROVE  /\ Upto(req[r].toks, i * PageSize) \in DOMAIN value
           /\ IsPrefix(Upto(req[r].toks, i * PageSize), Handle(r))
<1> DEFINE k == i * PageSize
           q == Upto(req[r].toks, k)
<1>1. TreeOf(nodes, DOMAIN value) /\ nodes \subseteq DOMAIN value
  BY TreeOrder DEF TreeInv
<1>2. /\ req[r].toks \in Seq(Tok) /\ Len(req[r].toks) \in Nat /\ req[r].hlen \in Nat
      /\ req[r].hlen <= Len(req[r].toks) /\ Len(req[r].row) \in Nat /\ RowOf(r)
  BY RequestFacts
<1>3. i \in Nat /\ i >= 1
  BY <1>2
<1>4. k \in Nat /\ Aligned(k) /\ k >= 1
  BY <1>3, PageEnd
<1>5. k <= req[r].hlen
  OBVIOUS
<1> HIDE DEF k
<1>6. k \in 0 .. Len(req[r].toks) /\ req[r].hlen \in 0 .. Len(req[r].toks) /\ req[r].hlen > 0
  BY <1>2, <1>4, <1>5
<1>7. q \in Seq(Tok) /\ Len(q) = k
  BY <1>2, <1>6, UptoAt
<1>8. IsPrefix(q, Handle(r))
  BY <1>2, <1>5, <1>6, UptoPrefix DEF Handle
<1>9. q \in Paths
  BY <1>4, <1>7 DEF Paths
<1>10. Handle(r) \in DOMAIN value
  BY <1>1, <1>2, <1>6 DEF RowOf
<1>11. q \in DOMAIN value
  BY <1>1, <1>8, <1>9, <1>10, TreeClosed
<1> QED BY <1>8, <1>11 DEF k

\* What is inserted: the whole pages of the written tokens; it begins with the handle.
LEMMA InsertIdsFacts ==
    ASSUME ReqInv, NEW r \in Active, NEW ids, ids = InsertIds(req[r])
    PROVE  /\ ids \in Seq(Tok) /\ Len(ids) \in Nat /\ Aligned(Len(ids))
           /\ Len(ids) <= req[r].cached /\ req[r].cached < Len(ids) + PageSize
           /\ req[r].hlen <= Len(ids) /\ IsPrefix(Handle(r), ids)
           /\ ids = Upto(req[r].toks, Len(ids))
           /\ \A k \in 0 .. Len(ids) : Upto(ids, k) = Upto(req[r].toks, k)
           /\ \A i \in Nat \ {0} : i * PageSize <= Len(ids) => i \in 1 .. Len(req[r].row)
<1> DEFINE n == AlignDown(req[r].cached)
<1>1. /\ req[r].toks \in Seq(Tok) /\ Len(req[r].toks) \in Nat /\ req[r].hlen \in Nat
      /\ req[r].cached \in Nat /\ req[r].hlen <= req[r].cached /\ Aligned(req[r].hlen)
      /\ req[r].cached <= Len(req[r].toks) /\ Len(req[r].row) \in Nat /\ RowOf(r)
  BY RequestFacts
<1>2. /\ n \in Nat /\ n <= req[r].cached /\ req[r].cached < n + PageSize /\ Aligned(n)
      /\ req[r].hlen <= n
  BY <1>1, AlignDownFacts
<1>3. ids = Upto(req[r].toks, n)
  BY DEF InsertIds
<1> HIDE DEF n
<1>4. n \in 0 .. Len(req[r].toks)
  BY <1>1, <1>2
<1>5. ids \in Seq(Tok) /\ Len(ids) = n
  BY <1>1, <1>3, <1>4, UptoAt
<1>6. IsPrefix(Handle(r), ids)
  BY <1>2, <1>3, <1>4, HandleFacts
<1>7. \A k \in 0 .. n : Upto(ids, k) = Upto(req[r].toks, k)
  BY <1>1, <1>3, <1>4, UptoUpto
<1>8. ASSUME NEW i \in Nat \ {0}, i * PageSize <= n PROVE i \in 1 .. Len(req[r].row)
  <2>1. req[r].cached <= Len(req[r].row) * PageSize
    BY <1>1, DivCeilFacts DEF RowOf
  <2>2. i * PageSize \in Nat /\ Len(req[r].row) * PageSize \in Nat
    BY <1>1, Multiples
  <2>3. i * PageSize <= Len(req[r].row) * PageSize
    BY <1>1, <1>2, <1>8, <2>1, <2>2
  <2>4. i <= Len(req[r].row)
    BY <1>1, <2>3, Multiples
  <2> QED BY <1>1, <2>4
<1> QED BY <1>2, <1>3, <1>5, <1>6, <1>7, <1>8

\* The row's part between two lengths
RowAt(r, a, b) == {i \in 1 .. Len(req[r].row) : i * PageSize > a /\ i * PageSize <= b}

\* A span between aligned lengths is made of whole pages.
LEMMA SpanFacts ==
    ASSUME NEW r, Len(req[r].row) \in Nat, NEW a \in Nat, NEW b \in Nat, Aligned(a), Aligned(b)
    PROVE  Span(req[r].row, a, b) = RowAt(r, a, b)
<1> SUFFICES ASSUME NEW i \in 1 .. Len(req[r].row)
             PROVE  /\ (i - 1) * PageSize >= a <=> i * PageSize > a
                    /\ (i - 1) * PageSize < b <=> i * PageSize <= b
  BY DEF Span, RowAt
<1> DEFINE x == a \div PageSize
           y == b \div PageSize
           z == i - 1
<1>1. x \in Nat /\ a = x * PageSize /\ y \in Nat /\ b = y * PageSize
  BY AlignedPages, Division
<1>2. z \in Nat /\ i \in Nat /\ i = z + 1
  OBVIOUS
<1> HIDE DEF x, y, z
<1>3. /\ z * PageSize >= x * PageSize <=> z >= x
      /\ i * PageSize > x * PageSize <=> i > x
      /\ z * PageSize < y * PageSize <=> z < y
      /\ i * PageSize <= y * PageSize <=> i <= y
  BY <1>1, <1>2, Multiples
<1>4. (z >= x <=> i > x) /\ (z < y <=> i <= y)
  BY <1>1, <1>2
<1> QED BY <1>1, <1>3, <1>4 DEF z

\* Which pages the tree takes from the row, and which it has already.
LEMMA InsertedAt ==
    ASSUME TreeInv, ReqInv, NEW r \in Active, NEW ids, ids = InsertIds(req[r]),
           NEW t, t = Inserted(ids, req[r].row),
           NEW E, E = Grown(ids), DOMAIN t.value = E
    PROVE  /\ t.match \in Nat /\ Aligned(t.match) /\ req[r].hlen <= t.match /\ t.match <= Len(ids)
           /\ \A q \in DOMAIN value : t.value[q] = value[q]
           /\ \A q \in E \ DOMAIN value :
                 \E i \in RowAt(r, t.match, Len(ids)) :
                    q = Upto(ids, i * PageSize) /\ t.value[q] = req[r].row[i]
           /\ \A i \in RowAt(r, t.match, Len(ids)) :
                 /\ Upto(ids, i * PageSize) \in E \ DOMAIN value
                 /\ t.value[Upto(ids, i * PageSize)] = req[r].row[i]
           /\ \A i \in 1 .. Len(req[r].row) : i * PageSize <= t.match =>
                 Upto(ids, i * PageSize) \in DOMAIN value
<1>grown. E = DOMAIN value \cup {q \in Paths : IsPrefix(q, ids)}
  BY DEF Grown
<1> DEFINE D == DOMAIN value
           m == MatchLen(ids)
           row == req[r].row
<1>1. /\ ids \in Seq(Tok) /\ Len(ids) \in Nat /\ Aligned(Len(ids)) /\ IsPrefix(Handle(r), ids)
      /\ \A i \in Nat \ {0} : i * PageSize <= Len(ids) => i \in 1 .. Len(row)
  BY InsertIdsFacts
<1>2. /\ m \in 0 .. Len(ids) /\ Aligned(m)
      /\ Upto(ids, m) = <<>> \/ Upto(ids, m) \in D
      /\ \A q \in D : IsPrefix(q, ids) => Len(q) <= m /\ IsPrefix(q, Upto(ids, m))
      /\ Upto(ids, m) \in Seq(Tok) /\ Len(Upto(ids, m)) = m
  BY <1>1, MatchFacts
<1>3. TreeOf(nodes, D) /\ nodes \subseteq D
  BY TreeOrder DEF TreeInv
<1>4. /\ Handle(r) \in Seq(Tok) /\ Len(Handle(r)) = req[r].hlen
      /\ Handle(r) = <<>> \/ Handle(r) \in nodes
  BY HandleFacts
<1>5. req[r].hlen <= m
  <2>1. CASE Handle(r) = <<>>
    BY <1>2, <1>4, <2>1
  <2>2. CASE Handle(r) \in nodes
    BY <1>1, <1>2, <1>3, <1>4, <2>2
  <2> QED BY <1>4, <2>1, <2>2
<1>6. /\ t.match = m
      /\ \A q \in E : t.value[q] = IF q \in D THEN value[q] ELSE row[Len(q) \div PageSize]
  BY <1>2 DEF Inserted
<1>7. Len(row) \in Nat
  BY RequestFacts
<1>8. ASSUME NEW i \in Nat \ {0}, i * PageSize <= Len(ids)
      PROVE  /\ Upto(ids, i * PageSize) \in Paths /\ IsPrefix(Upto(ids, i * PageSize), ids)
             /\ Len(Upto(ids, i * PageSize)) = i * PageSize
             /\ (i * PageSize) \div PageSize = i
  <2> DEFINE k == i * PageSize
  <2>1. k \in Nat /\ k >= 1 /\ Aligned(k) /\ k \div PageSize = i
    BY PageEnd
  <2>2. k <= Len(ids)
    BY <1>8
  <2> HIDE DEF k
  <2>3. k \in 0 .. Len(ids)
    BY <1>1, <2>1, <2>2
  <2>4. Upto(ids, k) \in Seq(Tok) /\ Len(Upto(ids, k)) = k /\ IsPrefix(Upto(ids, k), ids)
    BY <1>1, <2>3, UptoAt
  <2> QED BY <2>1, <2>4 DEF Paths, k
<1> HIDE DEF m
<1>9. ASSUME NEW q \in E \ D
      PROVE  \E i \in RowAt(r, m, Len(ids)) : q = Upto(ids, i * PageSize) /\ t.value[q] = row[i]
  <2> DEFINE i == Len(q) \div PageSize
  <2>1. q \in Paths /\ IsPrefix(q, ids) /\ q \in Seq(Tok) /\ Len(q) \in Nat /\ Len(q) >= 1
    BY <1>grown, PathsType
  <2>2. Len(q) <= Len(ids) /\ q = Upto(ids, Len(q))
    BY <1>1, <2>1, PrefixUpto
  <2>3. i \in Nat /\ Len(q) = i * PageSize
    BY <2>1, AlignedPages, Division DEF Paths
  <2>4. t.value[q] = row[i]
    BY <1>6
  <2> HIDE DEF i
  <2>5. i # 0
    <3>1. 0 * PageSize = 0
      BY Multiples
    <3> QED BY <2>1, <2>3, <3>1
  <2>6. i \in 1 .. Len(row)
    BY <1>1, <2>2, <2>3, <2>5
  <2>7. Len(q) > m
    <3> SUFFICES ASSUME Len(q) <= m PROVE FALSE
      BY <1>2, <2>1
    <3>1. IsPrefix(q, Upto(ids, m))
      <4>1. m \in 0 .. Len(ids) /\ Len(q) \in 0 .. Len(ids)
        BY <1>2, <2>1, <2>2
      <4> QED BY <1>1, <2>2, <4>1, UptoPrefix
    <3>2. Upto(ids, m) \in D
      BY <1>2, <2>1, <3>1, RootFirst
    <3> QED BY <1>3, <2>1, <3>1, <3>2, TreeClosed
  <2>8. i \in RowAt(r, m, Len(ids))
    BY <2>2, <2>3, <2>6, <2>7 DEF RowAt
  <2> QED BY <2>2, <2>3, <2>4, <2>8
<1>10. ASSUME NEW i \in RowAt(r, m, Len(ids))
       PROVE  /\ Upto(ids, i * PageSize) \in E \ D
              /\ t.value[Upto(ids, i * PageSize)] = row[i]
  <2>1. i \in Nat \ {0} /\ i * PageSize > m /\ i * PageSize <= Len(ids)
    BY <1>7 DEF RowAt
  <2>2. /\ Upto(ids, i * PageSize) \in Paths /\ IsPrefix(Upto(ids, i * PageSize), ids)
        /\ Len(Upto(ids, i * PageSize)) = i * PageSize
        /\ (i * PageSize) \div PageSize = i
    BY <1>8, <2>1
  <2>3. i * PageSize \in Nat /\ m \in Nat
    BY <1>2, <2>1, Multiples
  <2>4. Upto(ids, i * PageSize) \notin D
    <3> DEFINE u == Upto(ids, i * PageSize)
               k == i * PageSize
    <3>1. k \in Nat /\ k > m /\ Len(u) = k /\ IsPrefix(u, ids)
      BY <2>1, <2>2, <2>3
    <3> HIDE DEF u, k
    <3>2. u \notin D
      BY <1>2, <2>3, <3>1
    <3> QED BY <3>2 DEF u
  <2> QED BY <1>grown, <1>6, <2>2, <2>4
<1>11. ASSUME NEW i \in 1 .. Len(row), i * PageSize <= m
       PROVE  Upto(ids, i * PageSize) \in D
  <2>1. i \in Nat \ {0} /\ m \in Nat /\ m <= Len(ids)
    BY <1>2, <1>7
  <2>2. i * PageSize \in Nat /\ i * PageSize <= Len(ids) /\ i * PageSize >= 1
    <3>1. i * PageSize \in Nat /\ i * PageSize >= 1
      BY <2>1, PageEnd
    <3> DEFINE k == i * PageSize
    <3>2. k <= m
      BY <1>11
    <3> HIDE DEF k
    <3> QED BY <1>1, <2>1, <3>1, <3>2 DEF k
  <2>3. Upto(ids, i * PageSize) \in Paths
    BY <1>8, <2>1, <2>2
  <2>4. IsPrefix(Upto(ids, i * PageSize), Upto(ids, m))
    <3> DEFINE k == i * PageSize
    <3>1. k \in 0 .. Len(ids) /\ m \in 0 .. Len(ids) /\ k <= m
      BY <1>1, <1>11, <2>1, <2>2
    <3> HIDE DEF k
    <3>2. IsPrefix(Upto(ids, k), Upto(ids, m))
      BY <1>1, <3>1, UptoPrefix
    <3> QED BY <3>2 DEF k
  <2>5. Upto(ids, m) \in D
    BY <1>2, <2>3, <2>4, RootFirst
  <2> QED BY <1>3, <2>3, <2>4, <2>5, TreeClosed
<1>12. m \in Nat /\ Aligned(m) /\ m <= Len(ids)
  BY <1>2
<1>13. \A q \in D : t.value[q] = value[q]
  BY <1>grown, <1>6
<1> QED BY <1>5, <1>6, <1>9, <1>10, <1>11, <1>12, <1>13

\* The pages of val are those of the tree and the row's at nw.
TakesIn(val, r, nw) ==
    \A p : p \in Range(val) <=> p \in Range(value) \/ \E i \in nw : req[r].row[i] = p

\* val gives each prefix of E a page of its own that holds it.
ValuesOf(val, E) ==
    /\ val \in [E -> Page] /\ IsInjective(val)
    /\ \A q \in E : kv[val[q]] = q

\* The tree takes pages of the request's own; they hold what they are inserted for.
LEMMA InsertedPages ==
    ASSUME TreeInv, ReqInv, PageInv, KVInPlace,
           NEW r \in Active, NEW ids, ids = InsertIds(req[r]),
           NEW t, t = Inserted(ids, req[r].row),
           NEW E, E = Grown(ids), DOMAIN t.value = E
    PROVE  ValuesOf(t.value, E) /\ TakesIn(t.value, r, RowAt(r, t.match, Len(ids)))
<1>grown. E = DOMAIN value \cup {q \in Paths : IsPrefix(q, ids)}
  BY DEF Grown
<1> DEFINE D == DOMAIN value
           row == req[r].row
           N == RowAt(r, t.match, Len(ids))
<1>1. /\ t.match \in Nat /\ req[r].hlen <= t.match
      /\ \A q \in D : t.value[q] = value[q]
      /\ \A q \in E \ D : \E i \in N : q = Upto(ids, i * PageSize) /\ t.value[q] = row[i]
      /\ \A i \in N : Upto(ids, i * PageSize) \in E \ D /\ t.value[Upto(ids, i * PageSize)] = row[i]
  BY InsertedAt
<1>2. /\ ids \in Seq(Tok) /\ Len(ids) \in Nat /\ Len(ids) <= req[r].cached
      /\ \A k \in 0 .. Len(ids) : Upto(ids, k) = Upto(req[r].toks, k)
  BY InsertIdsFacts
<1>3. /\ row \in Seq(Page) /\ Len(row) \in Nat /\ req[r].hlen \in Nat /\ req[r].cached \in Nat
  BY RequestFacts
<1>4. /\ value \in [D -> Page] /\ IsInjective(value) /\ Own(r) \cap Range(value) = {}
      /\ \A i, j \in OwnAt(r) : row[i] = row[j] => i = j
  BY DEF PageInv
<1>5. ASSUME NEW i \in N
      PROVE  /\ i \in OwnAt(r) /\ row[i] \in Page /\ row[i] \notin Range(value)
             /\ kv[row[i]] = Upto(ids, i * PageSize)
  <2> DEFINE k == i * PageSize
  <2>1. i \in 1 .. Len(row) /\ k > t.match /\ k <= Len(ids) /\ i \in Nat \ {0}
    BY <1>3, <1>5 DEF RowAt
  <2>2. k \in Nat
    BY <2>1, Multiples
  <2>3. row[i] \in Page
    BY <1>3, <2>1
  <2>4. kv[row[i]] = Upto(req[r].toks, IF k < req[r].cached THEN k ELSE req[r].cached)
    BY <2>1 DEF KVInPlace
  <2> HIDE DEF k
  <2>5. k > req[r].hlen /\ (IF k < req[r].cached THEN k ELSE req[r].cached) = k
    BY <1>1, <1>2, <1>3, <2>1, <2>2
  <2>6. k \in 0 .. Len(ids)
    BY <1>2, <2>1, <2>2
  <2>7. kv[row[i]] = Upto(ids, k)
    BY <1>2, <2>4, <2>5, <2>6
  <2>8. i \in OwnAt(r)
    BY <2>1, <2>5 DEF OwnAt, k
  <2>9. row[i] \in Own(r)
    BY <2>8 DEF Own, OwnAt
  <2> QED BY <1>4, <2>3, <2>7, <2>8, <2>9 DEF k
<1>6. \A q \in D : kv[value[q]] = q /\ value[q] \in Page /\ value[q] \in Range(value)
  BY <1>4 DEF KVInPlace, Range
<1>7. D \subseteq E
  BY <1>grown
<1> HIDE DEF D, N, row
<1>8. \A q \in E : kv[t.value[q]] = q /\ t.value[q] \in Page
  <2> TAKE q \in E
  <2>1. CASE q \in D
    BY <1>1, <1>6, <2>1
  <2>2. CASE q \notin D
    BY <1>1, <1>5, <2>2
  <2> QED BY <2>1, <2>2
<1>9. t.value \in [E -> Page]
  <2>1. t.value = [q \in DOMAIN t.value |-> t.value[q]]
    BY DEF Inserted
  <2> QED BY <1>8, <2>1
<1>10. IsInjective(t.value)
  BY <1>8 DEF IsInjective
<1>11. ASSUME NEW p
       PROVE  p \in Range(t.value) <=> p \in Range(value) \/ \E i \in N : row[i] = p
  <2>1. \A q \in E \ D : \E i \in N : t.value[q] = row[i]
    BY <1>1
  <2>2. \A i \in N : \E q \in E : t.value[q] = row[i]
    BY <1>1
  <2>3. \A q \in D : t.value[q] = value[q] /\ q \in E
    BY <1>1, <1>7
  <2>4. p \in Range(t.value) <=> \E q \in E : t.value[q] = p
    BY DEF Range
  <2>5. p \in Range(value) <=> \E q \in D : value[q] = p
    BY DEF Range, D
  <2> QED BY <2>1, <2>2, <2>3, <2>4, <2>5
<1> QED BY <1>8, <1>9, <1>10, <1>11 DEF N, row, TakesIn, ValuesOf

\* Pages of a request's own that are given back are free once.
LEMMA Released ==
    ASSUME ReqInv, PageInv, NEW r \in Active, NEW is \in SUBSET OwnAt(r)
    PROVE  /\ FreePages(req[r].row, is) \in [Page -> {0, 1}]
           /\ \A p \in Page :
                 FreePages(req[r].row, is)[p] = 0 <=>
                     free[p] = 0 /\ \A i \in is : req[r].row[i] # p
<1> DEFINE row == req[r].row
<1> SUFFICES ASSUME NEW p \in Page
             PROVE  /\ FreePages(row, is)[p] \in {0, 1}
                    /\ FreePages(row, is)[p] = 0 <=> free[p] = 0 /\ \A i \in is : row[i] # p
  BY DEF FreePages
<1>1. /\ free \in [Page -> {0, 1}] /\ (free[p] = 0 <=> Taken(p))
      /\ \A i, j \in OwnAt(r) : row[i] = row[j] => i = j
  BY DEF PageInv
<1>2. \A i \in OwnAt(r) : row[i] \in Own(r)
  BY DEF OwnAt, Own
<1> HIDE DEF row
<1>3. FreePages(row, is)[p] = free[p] + Cardinality({i \in is : row[i] = p})
  BY DEF FreePages
<1>4. CASE \A i \in is : row[i] # p
  <2>1. {i \in is : row[i] = p} = {}
    BY <1>4
  <2>2. Cardinality({i \in is : row[i] = p}) = 0
    BY <2>1, FS_EmptySet
  <2> QED BY <1>1, <1>3, <1>4, <2>2
<1>5. ASSUME NEW i \in is, row[i] = p
      PROVE  FreePages(row, is)[p] = 1
  <2>1. {j \in is : row[j] = p} = {i}
    BY <1>1, <1>5
  <2>2. Cardinality({j \in is : row[j] = p}) = 1
    BY <2>1, FS_Singleton
  <2>3. free[p] = 0
    BY <1>1, <1>2, <1>5 DEF Taken, row
  <2> QED BY <1>3, <2>2, <2>3
<1> QED BY <1>4, <1>5

\* Commit and finish: some pages of the request are freed, some go to the tree, and it keeps
\* the rest for as long as it runs.
PagesMoved(r, is, nw, tl) ==
    /\ OwnAt(r) = is \cup nw \cup tl /\ is \cap nw = {} /\ is \cap tl = {} /\ nw \cap tl = {}
    /\ value' \in [DOMAIN value' -> Page] /\ IsInjective(value')
    /\ TakesIn(value', r, nw)
    /\ free' = FreePages(req[r].row, is)
    /\ \A s \in Req : s # r => req'[s] = req[s]
    /\ Active' \subseteq Active /\ Active \ {r} \subseteq Active'
    /\ r \in Active' => OwnAt(r)' = tl /\ \A i \in tl : req'[r].row[i] = req[r].row[i]
    /\ r \notin Active' => tl = {}

\* Then every page still has one owner.
LEMMA PagesMove ==
    ASSUME ReqInv, PageInv, NEW r \in Active, NEW is, NEW nw, NEW tl, PagesMoved(r, is, nw, tl)
    PROVE  PageInv'
<1> USE DEF PagesMoved, TakesIn
<1> DEFINE row == req[r].row
<1>1. /\ \A i, j \in OwnAt(r) : row[i] = row[j] => i = j
      /\ \A s \in Active : Own(s) \cap Range(value) = {}
      /\ \A s \in Active : \A i, j \in OwnAt(s) : req[s].row[i] = req[s].row[j] => i = j
      /\ \A s, u \in Active : s # u => Own(s) \cap Own(u) = {}
      /\ free \in [Page -> {0, 1}] /\ \A p \in Page : free[p] = 0 <=> Taken(p)
  BY DEF PageInv
<1>2. is \in SUBSET OwnAt(r)
  OBVIOUS
<1>3. /\ free' \in [Page -> {0, 1}]
      /\ \A p \in Page : free'[p] = 0 <=> free[p] = 0 /\ \A i \in is : row[i] # p
  BY <1>2, Released
<1>4. \A s \in Active' : s \in Req /\ s \in Active /\ (s # r => req'[s] = req[s])
  BY DEF Active
<1>5. \A s \in Active' : s # r => OwnAt(s)' = OwnAt(s) /\ Own(s)' = Own(s)
  BY <1>4 DEF OwnAt, Own
<1>6. \A p : p \in Own(r) <=> \E i \in OwnAt(r) : row[i] = p
  BY DEF Own, OwnAt
<1>7. r \in Active' => \A p : p \in Own(r)' <=> \E i \in tl : row[i] = p
  <2> SUFFICES ASSUME r \in Active', NEW p
               PROVE  p \in Own(r)' <=> \E i \in tl : row[i] = p
    OBVIOUS
  <2>1. p \in Own(r)' <=> \E i \in OwnAt(r)' : req'[r].row[i] = p
    BY DEF Own, OwnAt
  <2> QED BY <2>1
<1> HIDE DEF row
<1>8. \A s \in Active' : Own(s)' \subseteq Own(s)
  BY <1>5, <1>6, <1>7
<1>9. \A s \in Active' : \A i, j \in OwnAt(s)' : req'[s].row[i] = req'[s].row[j] => i = j
  <2> SUFFICES ASSUME NEW s \in Active', NEW i \in OwnAt(s)', NEW j \in OwnAt(s)',
                      req'[s].row[i] = req'[s].row[j]
               PROVE  i = j
    OBVIOUS
  <2>1. CASE s = r
    BY <1>1, <2>1 DEF row
  <2>2. CASE s # r
    BY <1>1, <1>4, <1>5, <2>2
  <2> QED BY <2>1, <2>2
<1>10. \A s \in Active' : Own(s)' \cap Range(value)' = {}
  <2> SUFFICES ASSUME NEW s \in Active', NEW p, p \in Own(s)', p \in Range(value') PROVE FALSE
    OBVIOUS
  <2>1. p \in Own(s) /\ s \in Active
    BY <1>4, <1>8
  <2>2. p \notin Range(value)
    BY <1>1, <2>1
  <2>3. PICK i \in nw : row[i] = p
    BY <2>2 DEF row
  <2>4. p \in Own(r)
    BY <1>6, <2>3
  <2>5. s = r
    BY <1>1, <2>1, <2>4
  <2>6. PICK j \in tl : row[j] = p
    BY <1>7, <2>5
  <2> QED BY <1>1, <2>3, <2>6
<1>11. \A s, u \in Active' : s # u => Own(s)' \cap Own(u)' = {}
  BY <1>1, <1>4, <1>8
<1>12. ASSUME NEW p \in Page PROVE free'[p] = 0 <=> Taken(p)'
  <2>1. Taken(p)' <=> p \in Range(value') \/ \E s \in Active' : p \in Own(s)'
    BY DEF Taken
  <2>2. Taken(p) <=> p \in Range(value) \/ \E s \in Active : p \in Own(s)
    BY DEF Taken
  <2>3. CASE \E i \in is : row[i] = p
    <3>1. PICK i \in is : row[i] = p
      BY <2>3
    <3>2. p \in Own(r) /\ p \notin Range(value)
      BY <1>1, <1>6, <3>1
    <3>3. p \notin Range(value')
      <4>1. \A j \in nw : row[j] # p
        BY <1>1, <3>1
      <4> QED BY <3>2, <4>1 DEF row
    <3>4. \A s \in Active' : p \notin Own(s)'
      <4> SUFFICES ASSUME NEW s \in Active', p \in Own(s)' PROVE FALSE
        OBVIOUS
      <4>1. s = r
        BY <1>1, <1>4, <1>8, <3>2
      <4>2. PICK j \in tl : row[j] = p
        BY <1>7, <4>1
      <4> QED BY <1>1, <3>1, <4>2
    <3> QED BY <1>3, <2>1, <2>3, <3>3, <3>4
  <2>4. CASE \A i \in is : row[i] # p
    <3>1. free'[p] = 0 <=> free[p] = 0
      BY <1>3, <2>4
    <3>2. Taken(p)' => Taken(p)
      <4>1. (\E i \in nw : row[i] = p) => p \in Own(r)
        BY <1>6
      <4> QED BY <1>4, <1>8, <2>1, <2>2, <4>1 DEF row
    <3>3. Taken(p) => Taken(p)'
      <4>1. CASE p \in Range(value)
        BY <2>1, <4>1
      <4>2. ASSUME NEW s \in Active, p \in Own(s), s # r PROVE Taken(p)'
        <5>1. s \in Active'
          BY <4>2
        <5> QED BY <1>5, <2>1, <4>2, <5>1
      <4>3. ASSUME p \in Own(r) PROVE Taken(p)'
        <5>1. PICK i \in OwnAt(r) : row[i] = p
          BY <1>6, <4>3
        <5>2. i \in nw \/ i \in tl
          BY <2>4, <5>1
        <5>3. CASE i \in nw
          BY <2>1, <5>1, <5>3 DEF row
        <5>4. CASE i \in tl
          BY <1>7, <2>1, <5>1, <5>4
        <5> QED BY <5>2, <5>3, <5>4
      <4> QED BY <2>2, <4>1, <4>2, <4>3
    <3> QED BY <1>1, <3>1, <3>2, <3>3
  <2> QED BY <2>3, <2>4
<1> QED BY <1>3, <1>9, <1>10, <1>11, <1>12 DEF PageInv

-----------------------------------------------------------------------------
(* What the steps need of the tree before them and after them *)

\* The number of handles at or below each cached prefix
LockMap == [q \in DOMAIN value |-> Locks(q)]

\* The counters are those of the tree when they are those of its prefixes.
LEMMA CountsGive ==
    /\ TreeInv /\ Counts(nodes, DOMAIN value, ref, LockMap)
    /\ Sized(DOMAIN value, LockMap, evictable, protected)
    /\ ref = [n \in DOMAIN ref |-> ref[n]]
    => CountInv
<1> SUFFICES ASSUME TreeInv, Counts(nodes, DOMAIN value, ref, LockMap),
                    Sized(DOMAIN value, LockMap, evictable, protected),
                    ref = [n \in DOMAIN ref |-> ref[n]]
             PROVE  CountInv
  OBVIOUS
<1>1. nodes \subseteq DOMAIN value
  BY TreeOrder DEF TreeInv
<1>2. DOMAIN ref = nodes /\ \A n \in nodes : ref[n] = Locks(n)
  BY <1>1 DEF Counts, LockMap
<1>3. ref \in [nodes -> Nat]
  BY <1>2, LockersFinite
<1>4. /\ Loose(DOMAIN value, LockMap) = {q \in DOMAIN value : Locks(q) = 0}
      /\ Pinned(DOMAIN value, LockMap) = {q \in DOMAIN value : Locks(q) > 0}
  BY DEF Loose, Pinned, LockMap
<1> QED BY <1>2, <1>3, <1>4 DEF Sized, CountInv

\* evictable_size and protected_size are never negative.
LEMMA SizesNat ==
    ASSUME TreeInv, CountInv
    PROVE  evictable \in Nat /\ protected \in Nat
<1>1. IsFiniteSet(DOMAIN value)
  BY DEF TreeInv, TreeOf
<1>2. /\ IsFiniteSet({q \in DOMAIN value : Locks(q) = 0})
      /\ IsFiniteSet({q \in DOMAIN value : Locks(q) > 0})
  BY <1>1, FS_Subset
<1>3. /\ Cardinality({q \in DOMAIN value : Locks(q) = 0}) \in Nat
      /\ Cardinality({q \in DOMAIN value : Locks(q) > 0}) \in Nat
  BY <1>2, FS_CardinalityType
<1> QED BY <1>3, Multiples DEF CountInv

\* The row of a request stays right while the tree only grows.
LEMMA KeptRow ==
    ASSUME TreeInv, ReqInv, NEW s \in Active, req'[s] = req[s], nodes \subseteq nodes',
           \A q \in DOMAIN value : value'[q] = value[q]
    PROVE  RowOf(s)'
<1>1. s \in Req /\ RowOf(s)
  BY RequestFacts
<1>2. req[s].hlen > 0 => Handle(s) \in nodes'
  BY <1>1 DEF RowOf
<1>3. \A i \in 1 .. Len(req[s].row) : i * PageSize <= req[s].hlen =>
         Upto(req[s].toks, i * PageSize) \in DOMAIN value
  BY HandlePages
<1> QED BY <1>1, <1>2, <1>3, SameRow

\* The part of the row beyond a length
TailAt(r, n) == {i \in 1 .. Len(req[r].row) : i * PageSize > n}

\* cache_req deals with all of the request's own pages: the duplicates, the new, and the tail.
LEMMA SplitOwn ==
    ASSUME ReqInv, NEW r \in Active, NEW m \in Nat, NEW n \in Nat, Aligned(m), Aligned(n),
           req[r].hlen <= m, m <= n
    PROVE  LET is == DupSpan(req[r], m)
               nw == RowAt(r, m, n)
               tl == TailAt(r, n)
           IN /\ OwnAt(r) = is \cup nw \cup tl
              /\ is \cap nw = {} /\ is \cap tl = {} /\ nw \cap tl = {}
              /\ TailSpan(req[r], n) = tl
<1>1. /\ Len(req[r].row) \in Nat /\ req[r].hlen \in Nat /\ Aligned(req[r].hlen)
      /\ req[r].cached \in Nat /\ Len(req[r].row) = DivCeil(req[r].cached, PageSize)
  BY RequestFacts DEF RowOf
<1> DEFINE len == Len(req[r].row)
<1>2. DupSpan(req[r], m) = RowAt(r, req[r].hlen, m)
  BY <1>1, SpanFacts DEF DupSpan
<1>3. \A i \in 1 .. len : i * PageSize \in Nat /\ i * PageSize <= len * PageSize
  <2>1. \A i \in 1 .. len : i \in Nat /\ i <= len
    BY <1>1
  <2> QED BY <1>1, <2>1, Multiples
<1>4. TailSpan(req[r], n) = RowAt(r, n, len * PageSize)
  <2>1. len * PageSize \in Nat /\ Aligned(len * PageSize)
    BY <1>1, AlignedTimes, Multiples
  <2> DEFINE k == len * PageSize
  <2>2. TailSpan(req[r], n) = Span(req[r].row, n, k)
    BY <1>1 DEF TailSpan
  <2> HIDE DEF k
  <2>3. k \in Nat /\ Aligned(k)
    BY <2>1 DEF k
  <2>4. Span(req[r].row, n, k) = RowAt(r, n, k)
    BY <1>1, <2>3, SpanFacts
  <2> QED BY <2>2, <2>4 DEF k
<1>5. RowAt(r, n, len * PageSize) = TailAt(r, n)
  BY <1>3 DEF RowAt, TailAt
<1>6. ASSUME NEW i \in 1 .. len
      PROVE  /\ i \in OwnAt(r) <=> i \in RowAt(r, req[r].hlen, m) \/ i \in RowAt(r, m, n)
                                      \/ i \in TailAt(r, n)
             /\ ~(i \in RowAt(r, req[r].hlen, m) /\ i \in RowAt(r, m, n))
             /\ ~(i \in RowAt(r, req[r].hlen, m) /\ i \in TailAt(r, n))
             /\ ~(i \in RowAt(r, m, n) /\ i \in TailAt(r, n))
  <2> DEFINE k == i * PageSize
  <2>1. k \in Nat
    BY <1>3
  <2>2. /\ i \in OwnAt(r) <=> k > req[r].hlen
        /\ i \in RowAt(r, req[r].hlen, m) <=> k > req[r].hlen /\ k <= m
        /\ i \in RowAt(r, m, n) <=> k > m /\ k <= n
        /\ i \in TailAt(r, n) <=> k > n
    BY DEF OwnAt, RowAt, TailAt
  <2> HIDE DEF k
  <2> QED BY <1>1, <2>1, <2>2
<1>7. /\ OwnAt(r) \subseteq 1 .. len /\ RowAt(r, req[r].hlen, m) \subseteq 1 .. len
      /\ RowAt(r, m, n) \subseteq 1 .. len /\ TailAt(r, n) \subseteq 1 .. len
  BY DEF OwnAt, RowAt, TailAt
<1> HIDE DEF len
<1>8. /\ OwnAt(r) = RowAt(r, req[r].hlen, m) \cup RowAt(r, m, n) \cup TailAt(r, n)
      /\ RowAt(r, req[r].hlen, m) \cap RowAt(r, m, n) = {}
      /\ RowAt(r, req[r].hlen, m) \cap TailAt(r, n) = {}
      /\ RowAt(r, m, n) \cap TailAt(r, n) = {}
  BY <1>6, <1>7
<1> QED BY <1>2, <1>4, <1>5, <1>8

\* insert, then unlock: the state of the tree in the middle of cache_req.
LEMMA InsertUnlock ==
    ASSUME TreeInv, ReqInv, CountInv, NEW r \in Active, NEW ids, ids = InsertIds(req[r]),
           NEW t, t = Inserted(ids, req[r].row), NEW u, u = Unlocked(t.ref, Handle(r)),
           NEW E, E = Grown(ids)
    PROVE  /\ TreeOf(t.nodes, E) /\ nodes \subseteq t.nodes /\ DOMAIN t.value = E
           /\ ids = <<>> \/ ids \in t.nodes
           /\ Counts(t.nodes, E, u.ref, OtherMap(r, E))
           /\ u.moved \in Nat
           /\ Sized(E, OtherMap(r, E),
                    evictable + (Len(ids) - t.match) + u.moved, protected - u.moved)
<1> DEFINE L == [q \in E |-> Locks(q)]
           O == OtherMap(r, E)
           e == evictable + (Len(ids) - t.match)
<1>1. ids \in Seq(Tok) /\ Aligned(Len(ids)) /\ Len(ids) \in Nat
  BY InsertIdsFacts
<1>2. /\ TreeOf(t.nodes, E) /\ nodes \subseteq t.nodes /\ DOMAIN t.value = E
      /\ t.match = MatchLen(ids) /\ (ids = <<>> \/ ids \in t.nodes)
      /\ Counts(t.nodes, E, t.ref, L) /\ Sized(E, L, e, protected)
  BY <1>1, InsertTree
<1>3. Handle(r) \in Seq(Tok) /\ (Handle(r) = <<>> \/ Handle(r) \in t.nodes)
  BY <1>2, HandleFacts
<1>4. r \in Req
  BY DEF Active
<1>5. \A q \in E : O[q] \in Nat /\ L[q] = IF IsPrefix(q, Handle(r)) THEN O[q] + 1 ELSE O[q]
  BY <1>4, LocksOthers DEF AllLocksSplit, LocksSplit, OtherMap
<1>6. e \in Int /\ protected \in Int
  <2>1. MatchLen(ids) \in 0 .. Len(ids)
    BY <1>1, MatchFacts
  <2> QED BY <1>1, <1>2, <2>1, SizesNat
<1>7. /\ u.ref = LockRef(t.ref, Handle(r), -1)
      /\ u.moved = Crossing(t.ref, Handle(r), 1)
  BY DEF Unlocked
<1> HIDE DEF L, O, e
<1>8. /\ Counts(t.nodes, E, u.ref, O) /\ u.moved \in Nat
      /\ Sized(E, O, e + u.moved, protected - u.moved)
  <2> DEFINE h == Handle(r)
  <2>1. \A q \in E : O[q] \in Nat
    BY <1>5
  <2>2. \A q \in E : L[q] = IF IsPrefix(q, h) THEN O[q] + 1 ELSE O[q]
    BY <1>5
  <2>3. h \in Seq(Tok) /\ (h = <<>> \/ h \in t.nodes)
    BY <1>3
  <2>4. TreeOf(t.nodes, E) /\ Counts(t.nodes, E, t.ref, L) /\ Sized(E, L, e, protected)
    BY <1>2
  <2> HIDE DEF h
  <2>5. /\ Counts(t.nodes, E, LockRef(t.ref, h, -1), O) /\ Crossing(t.ref, h, 1) \in Nat
        /\ Sized(E, O, e + Crossing(t.ref, h, 1), protected - Crossing(t.ref, h, 1))
    BY <1>6, <2>1, <2>2, <2>3, <2>4, UnlockSizes
  <2> QED BY <1>7, <2>5 DEF h
<1> QED BY <1>2, <1>8 DEF O, e

-----------------------------------------------------------------------------
(* Commit and Finish *)

\* The commit of a prefill: the row is inserted, the duplicates are freed and re-pointed, the
\* handle moves from the admission's match to the whole pages written.
LEMMA CommitInv ==
    ASSUME IndInv, NEW r \in Req, Commit(r), r \notin Multimodal
    PROVE  IndInv'
<1> DEFINE row == req[r].row
<1>1. TreeInv /\ ReqInv /\ PageInv /\ CountInv /\ KVInPlace /\ r \in Active
  BY DEF IndInv, Commit
<1>2. PICK ids : ids = InsertIds(req[r])
  OBVIOUS
<1>3. PICK t : t = Inserted(ids, req[r].row)
  OBVIOUS
<1>4. PICK u : u = Unlocked(t.ref, Handle(r))
  OBVIOUS
<1>5. PICK E : E = Grown(ids)
  OBVIOUS
<1>6. /\ nodes' = t.nodes /\ value' = t.value /\ ref' = LockRef(u.ref, ids, 1)
      /\ evictable' = evictable + (Len(ids) - t.match) + u.moved - Crossing(u.ref, ids, 0)
      /\ protected' = protected - u.moved + Crossing(u.ref, ids, 0)
      /\ free' = FreePages(row, DupSpan(req[r], t.match))
      /\ req' = [req EXCEPT ![r].row = Repointed(row, t.value, ids),
                            ![r].hlen = Len(ids), ![r].committed = TRUE]
      /\ alloc = NoAlloc /\ alloc' = alloc /\ kv' = kv
  BY <1>2, <1>3, <1>4 DEF Commit, Handle
<1>7. /\ ids \in Seq(Tok) /\ Len(ids) \in Nat /\ Aligned(Len(ids))
      /\ Len(ids) <= req[r].cached
      /\ ids = Upto(req[r].toks, Len(ids))
      /\ \A k \in 0 .. Len(ids) : Upto(ids, k) = Upto(req[r].toks, k)
  BY <1>1, <1>2, InsertIdsFacts
<1>8. /\ TreeOf(t.nodes, E) /\ nodes \subseteq t.nodes /\ DOMAIN t.value = E
      /\ ids = <<>> \/ ids \in t.nodes
      /\ Counts(t.nodes, E, u.ref, OtherMap(r, E)) /\ u.moved \in Nat
      /\ Sized(E, OtherMap(r, E),
               evictable + (Len(ids) - t.match) + u.moved, protected - u.moved)
  BY <1>1, <1>2, <1>3, <1>4, <1>5, InsertUnlock
<1>9. /\ t.match \in Nat /\ Aligned(t.match) /\ req[r].hlen <= t.match /\ t.match <= Len(ids)
      /\ \A q \in DOMAIN value : t.value[q] = value[q]
      /\ \A i \in RowAt(r, t.match, Len(ids)) : Upto(ids, i * PageSize) \in E \ DOMAIN value
      /\ \A i \in 1 .. Len(row) :
            i * PageSize <= t.match => Upto(ids, i * PageSize) \in DOMAIN value
  BY <1>1, <1>2, <1>3, <1>5, <1>8, InsertedAt
<1>10. /\ t.value \in [E -> Page] /\ IsInjective(t.value)
       /\ TakesIn(t.value, r, RowAt(r, t.match, Len(ids)))
       /\ \A q \in E : kv[t.value[q]] = q
  <2>1. DOMAIN t.value = E
    BY <1>8
  <2>2. ValuesOf(t.value, E) /\ TakesIn(t.value, r, RowAt(r, t.match, Len(ids)))
    BY <1>1, <1>2, <1>3, <1>5, <2>1, InsertedPages
  <2> QED BY <2>2 DEF ValuesOf
<1>11. /\ req[r] \in ReqType /\ RowOf(r) /\ row \in Seq(Page) /\ Len(row) \in Nat
       /\ req[r].cached \in Nat /\ req \in [Req -> ReqType]
  BY <1>1, RequestFacts DEF ReqInv
<1>12. ASSUME NEW i \in 1 .. Len(row), i * PageSize <= Len(ids)
       PROVE  Upto(ids, i * PageSize) \in E
  <2>1. CASE i * PageSize <= t.match
    BY <1>5, <1>9, <2>1 DEF Grown
  <2>2. CASE ~(i * PageSize <= t.match)
    <3>1. i * PageSize \in Nat
      BY <1>11, Multiples
    <3>2. i \in RowAt(r, t.match, Len(ids))
      BY <1>9, <1>12, <2>2, <3>1 DEF RowAt
    <3> QED BY <1>9, <3>2
  <2> QED BY <2>1, <2>2
<1> DEFINE new == Repointed(row, t.value, ids)
<1>13. /\ new \in Seq(Page) /\ Len(new) = Len(row)
       /\ \A i \in 1 .. Len(row) :
             new[i] = IF i * PageSize <= Len(ids) THEN t.value[Upto(ids, i * PageSize)] ELSE row[i]
  <2>1. \A i \in 1 .. Len(row) :
           new[i] = IF i * PageSize <= Len(ids) THEN t.value[Upto(ids, i * PageSize)] ELSE row[i]
    BY DEF Repointed
  <2>2. \A i \in 1 .. Len(row) : new[i] \in Page
    BY <1>10, <1>11, <1>12, <2>1
  <2>3. new = [i \in 1 .. Len(row) |-> new[i]]
    BY DEF Repointed
  <2> HIDE DEF new, row
  <2>4. new \in [1 .. Len(row) -> Page]
    BY <2>2, <2>3
  <2>5. new \in Seq(Page) /\ Len(new) = Len(row)
    BY <1>11, <2>4
  <2> QED BY <2>1, <2>5
<1> HIDE DEF new
<1>14. /\ req'[r] = [req[r] EXCEPT !.row = new, !.hlen = Len(ids), !.committed = TRUE]
       /\ \A s \in Req : s # r => req'[s] = req[s]
  BY <1>6, <1>11 DEF new
<1>15. req'[r] \in ReqType
  BY <1>7, <1>11, <1>13, <1>14 DEF ReqType
<1>16. /\ req'[r].active = req[r].active /\ req'[r].toks = req[r].toks /\ req'[r].row = new
       /\ req'[r].cached = req[r].cached /\ req'[r].max = req[r].max
       /\ req'[r].plen = req[r].plen /\ req'[r].hlen = Len(ids)
  BY <1>11, <1>14 DEF ReqType
<1>17. req' \in [Req -> ReqType]
  BY <1>6, <1>11, <1>14, <1>15
<1>18. Active' = Active
  BY <1>14, <1>16 DEF Active
<1>19. Handle(r)' = ids
  BY <1>7, <1>16 DEF Handle
<1>20. TreeInv'
  BY <1>6, <1>8 DEF TreeInv
<1>21. ReqInv'
  <2>1. ASSUME NEW s \in Active' PROVE RowOf(s)'
    <3>1. CASE s # r
      <4>1. s \in Active /\ req'[s] = req[s]
        BY <1>14, <1>18, <3>1 DEF Active
      <4>2. nodes \subseteq nodes' /\ \A q \in DOMAIN value : value'[q] = value[q]
        BY <1>6, <1>8, <1>9
      <4> QED BY <1>1, <4>1, <4>2, KeptRow
    <3>2. CASE s = r
      <4>1. req'[r].hlen > 0 => Handle(r)' \in nodes'
        <5>1. Len(ids) > 0 => ids # <<>>
          OBVIOUS
        <5> QED BY <1>6, <1>8, <1>16, <1>19, <5>1
      <4>2. ASSUME NEW i \in 1 .. Len(row), i * PageSize <= Len(ids)
            PROVE  new[i] = value'[Upto(req[r].toks, i * PageSize)]
        <5>1. i * PageSize \in Nat
          BY <1>11, Multiples
        <5>2. i * PageSize \in 0 .. Len(ids)
          BY <1>7, <4>2, <5>1
        <5>3. Upto(ids, i * PageSize) = Upto(req[r].toks, i * PageSize)
          BY <1>7, <5>2
        <5>4. new[i] = t.value[Upto(ids, i * PageSize)]
          BY <1>13, <4>2
        <5> QED BY <1>6, <5>3, <5>4
      <4>3. \A i \in 1 .. Len(req'[r].row) : i * PageSize <= req'[r].hlen =>
               req'[r].row[i] = value'[Upto(req'[r].toks, i * PageSize)]
        BY <1>13, <1>16, <4>2
      <4>4. /\ req[r].cached <= Len(req[r].toks) /\ req[r].plen <= Len(req[r].toks)
            /\ req[r].cached < req[r].max /\ req[r].plen < req[r].max
            /\ Len(req[r].row) = DivCeil(req[r].cached, PageSize)
        BY <1>11 DEF RowOf
      <4> QED BY <1>7, <1>13, <1>16, <3>2, <4>1, <4>3, <4>4 DEF RowOf
    <3> QED BY <3>1, <3>2
  <2>2. alloc' = NoAlloc
    BY <1>6
  <2> QED BY <1>17, <2>1, <2>2 DEF ReqInv
<1>22. PageInv'
  <2> DEFINE is == DupSpan(req[r], t.match)
             nw == RowAt(r, t.match, Len(ids))
             tl == TailAt(r, Len(ids))
  <2>1. OwnAt(r) = is \cup nw \cup tl /\ is \cap nw = {} /\ is \cap tl = {} /\ nw \cap tl = {}
    BY <1>1, <1>7, <1>9, SplitOwn
  <2>2. OwnAt(r)' = tl
    BY <1>13, <1>16 DEF OwnAt, TailAt
  <2>3. \A i \in tl : req'[r].row[i] = req[r].row[i]
    <3> SUFFICES ASSUME NEW i \in tl PROVE new[i] = row[i]
      BY <1>16
    <3>1. i \in 1 .. Len(row) /\ i * PageSize > Len(ids)
      BY DEF TailAt
    <3>2. i * PageSize \in Nat
      BY <1>11, <3>1, Multiples
    <3>3. ~(i * PageSize <= Len(ids))
      BY <1>7, <3>1, <3>2
    <3> QED BY <1>13, <3>1, <3>3
  <2>4. /\ value' \in [DOMAIN value' -> Page] /\ IsInjective(value')
        /\ TakesIn(value', r, nw)
    BY <1>6, <1>8, <1>10
  <2>5. free' = FreePages(req[r].row, is)
    BY <1>6
  <2>6. Active' \subseteq Active /\ Active \ {r} \subseteq Active' /\ r \in Active'
    BY <1>1, <1>18
  <2>7. PagesMoved(r, is, nw, tl)
    BY <1>14, <2>1, <2>2, <2>3, <2>4, <2>5, <2>6 DEF PagesMoved
  <2> QED BY <1>1, <2>7, PagesMove
<1>23. CountInv'
  <2> DEFINE O == OtherMap(r, E)
             M == LockMap'
             e == evictable + (Len(ids) - t.match) + u.moved
             p == protected - u.moved
  <2>1. \A q \in E : O[q] \in Nat /\ M[q] = Locks(q)'
    BY <1>6, <1>8, LocksOthers DEF LockMap, OtherMap, AllLocksSplit, LocksSplit
  <2>2. \A q \in E : M[q] = IF IsPrefix(q, ids) THEN O[q] + 1 ELSE O[q]
    <3>1. \A q : Others(r, q)' = Others(r, q)
      BY <1>14, SameOthers
    <3>2. AllLocksSplit'
      BY LocksOthers, PTL
    <3>3. \A q : Locks(q)' = IF (r \in Active)' /\ IsPrefix(q, Handle(r)') THEN Others(r, q)' + 1
                             ELSE Others(r, q)'
      BY <3>2 DEF AllLocksSplit, LocksSplit
    <3> QED BY <1>1, <1>18, <1>19, <2>1, <3>1, <3>3 DEF OtherMap
  <2>3. TreeOf(t.nodes, E) /\ Counts(t.nodes, E, u.ref, O) /\ Sized(E, O, e, p)
    BY <1>8
  <2>4. ids \in Seq(Tok) /\ (ids = <<>> \/ ids \in t.nodes)
    BY <1>7, <1>8
  <2>5. \A q \in E : O[q] \in Nat
    BY <2>1
  <2> HIDE DEF O, M, e, p
  <2>6. /\ Counts(t.nodes, E, LockRef(u.ref, ids, 1), M) /\ Crossing(u.ref, ids, 0) \in Nat
        /\ Sized(E, M, e - Crossing(u.ref, ids, 0), p + Crossing(u.ref, ids, 0))
    BY <2>2, <2>3, <2>4, <2>5, LockSizes
  <2>7. Counts(nodes', DOMAIN value', ref', M) /\ Sized(DOMAIN value', M, evictable', protected')
    <3>1. evictable' = e - Crossing(u.ref, ids, 0) /\ protected' = p + Crossing(u.ref, ids, 0)
      BY <1>1, <1>6, <1>7, <1>8, <1>9, <2>6, SizesNat DEF e, p
    <3>2. nodes' = t.nodes /\ DOMAIN value' = E /\ ref' = LockRef(u.ref, ids, 1)
      BY <1>6, <1>8
    <3> QED BY <2>6, <3>1, <3>2
  <2>8. ref' = [n \in DOMAIN ref' |-> ref'[n]]
    BY <1>6 DEF LockRef
  <2>9. (/\ TreeInv /\ Counts(nodes, DOMAIN value, ref, LockMap)
         /\ Sized(DOMAIN value, LockMap, evictable, protected)
         /\ ref = [n \in DOMAIN ref |-> ref[n]]
         => CountInv)'
    BY CountsGive, PTL
  <2> QED BY <1>20, <2>7, <2>8, <2>9 DEF M
<1>24. KVInPlace'
  <2>1. ASSUME NEW s \in Active', NEW i \in 1 .. Len(req'[s].row)
        PROVE  kv'[req'[s].row[i]]
                  = Upto(req'[s].toks, IF i * PageSize < req'[s].cached THEN i * PageSize
                                       ELSE req'[s].cached)
    <3>1. CASE s # r
      <4>1. s \in Active /\ req'[s] = req[s]
        BY <1>14, <1>18, <3>1 DEF Active
      <4> QED BY <1>1, <1>6, <2>1, <4>1 DEF KVInPlace
    <3>2. CASE s = r
      <4>1. i \in 1 .. Len(row)
        BY <1>13, <1>16, <2>1, <3>2
      <4>2. kv[row[i]] = Upto(req[r].toks, IF i * PageSize < req[r].cached THEN i * PageSize
                                           ELSE req[r].cached)
        BY <1>1, <4>1 DEF KVInPlace
      <4>3. CASE ~(i * PageSize <= Len(ids))
        <5>1. new[i] = row[i]
          BY <1>13, <4>1, <4>3
        <5> QED BY <1>6, <1>16, <3>2, <4>2, <5>1
      <4>4. CASE i * PageSize <= Len(ids)
        <5> DEFINE k == i * PageSize
        <5>1. k \in Nat /\ k <= Len(ids)
          BY <1>11, <4>1, <4>4, Multiples
        <5>2. new[i] = t.value[Upto(ids, k)] /\ Upto(ids, k) \in E
          BY <1>12, <1>13, <4>1, <4>4
        <5>3. kv[new[i]] = Upto(ids, k)
          BY <1>10, <5>2
        <5> HIDE DEF k
        <5>4. k \in 0 .. Len(ids) /\ (IF k < req[r].cached THEN k ELSE req[r].cached) = k
          BY <1>7, <1>11, <5>1
        <5>5. kv[new[i]] = Upto(req[r].toks, k)
          BY <1>7, <5>3, <5>4
        <5> QED BY <1>6, <1>16, <3>2, <5>4, <5>5 DEF k
      <4> QED BY <4>3, <4>4
    <3> QED BY <3>1, <3>2
  <2>2. \A q \in DOMAIN value' : kv'[value'[q]] = q
    BY <1>6, <1>8, <1>10
  <2> QED BY <2>1, <2>2 DEF KVInPlace
<1> QED BY <1>20, <1>21, <1>22, <1>23, <1>24 DEF IndInv

\* A request that ends leaves the state of a request that never ran.
LEMMA EndedRequest ==
    ASSUME ReqInv, NEW r \in Active, req' = [req EXCEPT ![r] = Idle]
    PROVE  /\ req' \in [Req -> ReqType] /\ Active' = Active \ {r}
           /\ \A s \in Req : s # r => req'[s] = req[s]
<1>1. req \in [Req -> ReqType] /\ r \in Req
  BY DEF ReqInv, Active
<1>2. Idle \in ReqType /\ Idle.active = FALSE
  BY DEF Idle, ReqType
<1>3. req'[r] = Idle /\ \A s \in Req : s # r => req'[s] = req[s]
  BY <1>1
<1>4. req' \in [Req -> ReqType]
  BY <1>1, <1>2
<1>5. Active' = Active \ {r}
  BY <1>2, <1>3 DEF Active
<1> QED BY <1>3, <1>4, <1>5

\* The end of a request: the row is inserted, the duplicates and the tail are freed, and the
\* handle's lock is taken back.
LEMMA FinishInv ==
    ASSUME IndInv, NEW r \in Req, Finish(r), r \notin Multimodal
    PROVE  IndInv'
<1> DEFINE row == req[r].row
<1>1. TreeInv /\ ReqInv /\ PageInv /\ CountInv /\ KVInPlace /\ r \in Active
  BY DEF IndInv, Finish
<1>2. PICK ids : ids = InsertIds(req[r])
  OBVIOUS
<1>3. PICK t : t = Inserted(ids, req[r].row)
  OBVIOUS
<1>4. PICK u : u = Unlocked(t.ref, Handle(r))
  OBVIOUS
<1>5. PICK E : E = Grown(ids)
  OBVIOUS
<1>6. /\ nodes' = t.nodes /\ value' = t.value /\ ref' = u.ref
      /\ evictable' = evictable + (Len(ids) - t.match) + u.moved
      /\ protected' = protected - u.moved
      /\ free' = FreePages(row, DupSpan(req[r], t.match) \cup TailSpan(req[r], Len(ids)))
      /\ req' = [req EXCEPT ![r] = Idle]
      /\ alloc = NoAlloc /\ alloc' = alloc /\ kv' = kv
  BY <1>2, <1>3, <1>4 DEF Finish, Handle
<1>7. ids \in Seq(Tok) /\ Len(ids) \in Nat /\ Aligned(Len(ids))
  BY <1>1, <1>2, InsertIdsFacts
<1>8. /\ TreeOf(t.nodes, E) /\ nodes \subseteq t.nodes /\ DOMAIN t.value = E
      /\ Counts(t.nodes, E, u.ref, OtherMap(r, E))
      /\ Sized(E, OtherMap(r, E),
               evictable + (Len(ids) - t.match) + u.moved, protected - u.moved)
  BY <1>1, <1>2, <1>3, <1>4, <1>5, InsertUnlock
<1>9. /\ t.match \in Nat /\ Aligned(t.match) /\ req[r].hlen <= t.match /\ t.match <= Len(ids)
      /\ \A q \in DOMAIN value : t.value[q] = value[q]
  BY <1>1, <1>2, <1>3, <1>5, <1>8, InsertedAt
<1>10. ValuesOf(t.value, E) /\ TakesIn(t.value, r, RowAt(r, t.match, Len(ids)))
  <2>1. DOMAIN t.value = E
    BY <1>8
  <2> QED BY <1>1, <1>2, <1>3, <1>5, <2>1, InsertedPages
<1>11. /\ req' \in [Req -> ReqType] /\ Active' = Active \ {r}
       /\ \A s \in Req : s # r => req'[s] = req[s]
  BY <1>1, <1>6, EndedRequest
<1>12. \A s \in Active' : s \in Active /\ s # r /\ req'[s] = req[s]
  BY <1>11 DEF Active
<1>13. TreeInv'
  BY <1>6, <1>8 DEF TreeInv
<1>14. ReqInv'
  <2>1. ASSUME NEW s \in Active' PROVE RowOf(s)'
    <3>1. nodes \subseteq nodes' /\ \A q \in DOMAIN value : value'[q] = value[q]
      BY <1>6, <1>8, <1>9
    <3>2. s \in Active /\ req'[s] = req[s]
      BY <1>12
    <3> QED BY <1>1, <3>1, <3>2, KeptRow
  <2>2. alloc' = NoAlloc
    BY <1>6
  <2> QED BY <1>11, <2>1, <2>2 DEF ReqInv
<1>15. PageInv'
  <2> DEFINE is == DupSpan(req[r], t.match) \cup TailSpan(req[r], Len(ids))
             nw == RowAt(r, t.match, Len(ids))
  <2>1. OwnAt(r) = is \cup nw \cup {} /\ is \cap nw = {}
    <3>1. /\ OwnAt(r) = DupSpan(req[r], t.match) \cup nw \cup TailAt(r, Len(ids))
          /\ DupSpan(req[r], t.match) \cap nw = {} /\ nw \cap TailAt(r, Len(ids)) = {}
          /\ TailSpan(req[r], Len(ids)) = TailAt(r, Len(ids))
      BY <1>1, <1>7, <1>9, SplitOwn
    <3> HIDE DEF nw
    <3> QED BY <3>1
  <2>2. /\ value' \in [DOMAIN value' -> Page] /\ IsInjective(value') /\ TakesIn(value', r, nw)
    BY <1>6, <1>8, <1>10 DEF ValuesOf
  <2>3. free' = FreePages(req[r].row, is)
    BY <1>6
  <2>4. r \notin Active' /\ Active' \subseteq Active /\ Active \ {r} \subseteq Active'
    BY <1>11
  <2>5. PagesMoved(r, is, nw, {})
    BY <1>11, <2>1, <2>2, <2>3, <2>4 DEF PagesMoved
  <2> QED BY <1>1, <2>5, PagesMove
<1>16. CountInv'
  <2> DEFINE M == LockMap'
  <2>1. M = OtherMap(r, E)
    <3>1. \A q : Others(r, q)' = Others(r, q)
      BY <1>11, SameOthers
    <3>2. AllLocksSplit'
      BY LocksOthers, PTL
    <3>3. \A q : Locks(q)' = Others(r, q)
      BY <1>11, <3>1, <3>2 DEF AllLocksSplit, LocksSplit
    <3> QED BY <1>6, <1>8, <3>3 DEF LockMap, OtherMap
  <2> HIDE DEF M
  <2>2. Counts(nodes', DOMAIN value', ref', M) /\ Sized(DOMAIN value', M, evictable', protected')
    <3>1. nodes' = t.nodes /\ DOMAIN value' = E /\ ref' = u.ref
      BY <1>6, <1>8
    <3> QED BY <1>6, <1>8, <2>1, <3>1
  <2>3. ref' = [n \in DOMAIN ref' |-> ref'[n]]
    BY <1>4, <1>6 DEF LockRef, Unlocked
  <2>4. (/\ TreeInv /\ Counts(nodes, DOMAIN value, ref, LockMap)
         /\ Sized(DOMAIN value, LockMap, evictable, protected)
         /\ ref = [n \in DOMAIN ref |-> ref[n]]
         => CountInv)'
    BY CountsGive, PTL
  <2> QED BY <1>13, <2>2, <2>3, <2>4 DEF M
<1>17. KVInPlace'
  <2>1. \A q \in DOMAIN value' : kv'[value'[q]] = q
    BY <1>6, <1>8, <1>10 DEF ValuesOf
  <2> QED BY <1>1, <1>6, <1>12, <2>1 DEF KVInPlace
<1> QED BY <1>13, <1>14, <1>15, <1>16, <1>17 DEF IndInv

\* The tree keeps its counts when no cached prefix is locked or unlocked.
LEMMA SameLocks ==
    ASSUME TreeInv, CountInv, UNCHANGED treeVars,
           \A q \in DOMAIN value : Locks(q)' = Locks(q)
    PROVE  TreeInv' /\ CountInv'
<1>1. nodes \subseteq DOMAIN value
  BY TreeOrder DEF TreeInv
<1>2. TreeInv'
  BY DEF TreeInv, treeVars
<1>3. CountInv'
  BY <1>1 DEF CountInv, treeVars
<1> QED BY <1>2, <1>3

\* A multimodal request shares nothing: its end gives all its pages back.
LEMMA FinishMultimodalInv ==
    ASSUME IndInv, NEW r \in Req, Finish(r), r \in Multimodal
    PROVE  IndInv'
<1>1. TreeInv /\ ReqInv /\ PageInv /\ CountInv /\ KVInPlace /\ r \in Active
  BY DEF IndInv, Finish
<1>2. /\ UNCHANGED treeVars /\ free' = FreePages(req[r].row, TailSpan(req[r], req[r].hlen))
      /\ req' = [req EXCEPT ![r] = Idle]
      /\ alloc = NoAlloc /\ alloc' = alloc /\ kv' = kv
  BY DEF Finish
<1>3. req[r].hlen = 0 /\ Aligned(req[r].hlen) /\ req[r].toks \in Seq(Tok)
  BY <1>1, RequestFacts DEF RowOf
<1>4. /\ req' \in [Req -> ReqType] /\ Active' = Active \ {r}
      /\ \A s \in Req : s # r => req'[s] = req[s]
  BY <1>1, <1>2, EndedRequest
<1>5. \A s \in Active' : s \in Active /\ s # r /\ req'[s] = req[s]
  BY <1>4 DEF Active
<1>6. nodes' = nodes /\ value' = value
  BY <1>2 DEF treeVars
<1>7. ReqInv'
  <2>1. ASSUME NEW s \in Active' PROVE RowOf(s)'
    <3>1. nodes \subseteq nodes' /\ \A q \in DOMAIN value : value'[q] = value[q]
      BY <1>6
    <3>2. s \in Active /\ req'[s] = req[s]
      BY <1>5
    <3> QED BY <1>1, <3>1, <3>2, KeptRow
  <2>2. alloc' = NoAlloc
    BY <1>2
  <2> QED BY <1>4, <2>1, <2>2 DEF ReqInv
<1>8. PageInv'
  <2> DEFINE is == TailSpan(req[r], req[r].hlen)
  <2>1. OwnAt(r) = is \cup {} \cup {}
    <3>1. is = TailAt(r, req[r].hlen)
      <4>1. req[r].hlen \in Nat /\ req[r].hlen <= req[r].hlen
        BY <1>3
      <4> QED BY <1>1, <1>3, <4>1, SplitOwn
    <3> QED BY <3>1 DEF OwnAt, TailAt
  <2>2. /\ value' \in [DOMAIN value' -> Page] /\ IsInjective(value') /\ TakesIn(value', r, {})
    BY <1>1, <1>6 DEF PageInv, TakesIn
  <2>3. free' = FreePages(req[r].row, is)
    BY <1>2
  <2>4. r \notin Active' /\ Active' \subseteq Active /\ Active \ {r} \subseteq Active'
    BY <1>4
  <2>5. PagesMoved(r, is, {}, {})
    BY <1>4, <2>1, <2>2, <2>3, <2>4 DEF PagesMoved
  <2> QED BY <1>1, <2>5, PagesMove
<1>9. TreeInv' /\ CountInv'
  <2>1. \A q : Others(r, q)' = Others(r, q)
    BY <1>4, SameOthers
  <2>2. AllLocksSplit /\ AllLocksSplit'
    BY LocksOthers, PTL
  <2>3. \A q : Locks(q)' = Others(r, q)
    BY <1>4, <2>1, <2>2 DEF AllLocksSplit, LocksSplit
  <2>4. \A q \in DOMAIN value : ~IsPrefix(q, Handle(r))
    <3>1. Handle(r) = <<>>
      BY <1>3, RootFirst DEF Handle
    <3>2. DOMAIN value \subseteq Paths
      BY <1>1, TreeOrder DEF TreeInv
    <3> QED BY <1>3, <3>1, <3>2, RootFirst
  <2>5. \A q \in DOMAIN value : Locks(q) = Others(r, q)
    BY <2>2, <2>4 DEF AllLocksSplit, LocksSplit
  <2> QED BY <1>1, <1>2, <2>3, <2>5, SameLocks
<1>10. KVInPlace'
  BY <1>1, <1>2, <1>5, <1>6 DEF KVInPlace
<1> QED BY <1>7, <1>8, <1>9, <1>10 DEF IndInv

-----------------------------------------------------------------------------
(* Steps that leave tree and pages alone *)

\* A step of one request that keeps its row and what its tokens were.
Touched(r) ==
    /\ UNCHANGED <<treeVars, free, kv>> /\ req' \in [Req -> ReqType]
    /\ \A s \in Req : s # r => req'[s] = req[s]
    /\ req'[r].active = req[r].active /\ req'[r].plen = req[r].plen
    /\ req'[r].max = req[r].max /\ req'[r].cached = req[r].cached
    /\ req'[r].hlen = req[r].hlen /\ req'[r].row = req[r].row
    /\ Len(req[r].toks) <= Len(req'[r].toks)
    /\ \A k \in 0 .. Len(req[r].toks) : Upto(req'[r].toks, k) = Upto(req[r].toks, k)

\* Such a step keeps everything but the bounds of the allocation under way.
LEMMA TouchedInv ==
    ASSUME TreeInv, ReqInv, PageInv, CountInv, KVInPlace, NEW r \in Active, Touched(r)
    PROVE  /\ TreeInv' /\ PageInv' /\ CountInv' /\ KVInPlace' /\ Active' = Active
           /\ \A s \in Active' : RowOf(s)'
<1>1. /\ UNCHANGED <<nodes, ref, value, evictable, protected, free, kv>>
      /\ req' \in [Req -> ReqType] /\ \A s \in Req : s # r => req'[s] = req[s]
  BY DEF Touched, treeVars
<1>2. /\ req'[r].active = req[r].active /\ req'[r].plen = req[r].plen
      /\ req'[r].max = req[r].max /\ req'[r].cached = req[r].cached
      /\ req'[r].hlen = req[r].hlen /\ req'[r].row = req[r].row
      /\ Len(req[r].toks) <= Len(req'[r].toks)
      /\ \A k \in 0 .. Len(req[r].toks) : Upto(req'[r].toks, k) = Upto(req[r].toks, k)
  BY DEF Touched
<1>3. /\ r \in Req /\ RowOf(r) /\ Len(req[r].toks) \in Nat /\ req[r].hlen \in Nat
      /\ req[r].cached \in Nat /\ Len(req[r].row) \in Nat /\ req[r].plen \in Nat
      /\ req[r].hlen <= req[r].cached /\ req[r].cached <= Len(req[r].toks)
  BY RequestFacts
<1>4. Active' = Active
  BY <1>1, <1>2 DEF Active
<1>5. \A s \in Active : Handle(s)' = Handle(s)
  <2> SUFFICES ASSUME NEW s \in Active PROVE Handle(s)' = Handle(s)
    OBVIOUS
  <2>1. CASE s = r
    BY <1>2, <1>3, <2>1 DEF Handle
  <2>2. CASE s # r
    BY <1>1, <2>2 DEF Handle, Active
  <2> QED BY <2>1, <2>2
<1>6. \A s \in Active : OwnAt(s)' = OwnAt(s) /\ Own(s)' = Own(s) /\ req'[s].row = req[s].row
  <2> SUFFICES ASSUME NEW s \in Active
               PROVE  /\ OwnAt(s)' = OwnAt(s) /\ Own(s)' = Own(s)
                      /\ req'[s].row = req[s].row
    OBVIOUS
  <2>1. req'[s].row = req[s].row /\ req'[s].hlen = req[s].hlen
    BY <1>1, <1>2 DEF Active
  <2> QED BY <2>1 DEF Own, OwnAt
<1>7. TreeInv'
  BY <1>1 DEF TreeInv
<1>8. PageInv'
  BY <1>1, <1>4, <1>6, SamePages
<1>9. CountInv'
  BY <1>1, <1>4, <1>5, SameCounts
<1>10. \A i \in 1 .. Len(req[r].row) : i * PageSize \in Nat
  BY <1>3, Multiples
<1>11. RowOf(r)'
  <2>1. ASSUME NEW i \in 1 .. Len(req[r].row), i * PageSize <= req[r].hlen
        PROVE  Upto(req'[r].toks, i * PageSize) = Upto(req[r].toks, i * PageSize)
    <3> DEFINE k == i * PageSize
    <3>1. k \in Nat /\ k <= req[r].hlen
      BY <1>10, <2>1
    <3> HIDE DEF k
    <3>2. k \in 0 .. Len(req[r].toks)
      BY <1>3, <3>1
    <3>3. Upto(req'[r].toks, k) = Upto(req[r].toks, k)
      BY <1>2, <3>2
    <3> QED BY <3>3 DEF k
  <2>2. \A i \in 1 .. Len(req'[r].row) : i * PageSize <= req'[r].hlen =>
           req'[r].row[i] = value'[Upto(req'[r].toks, i * PageSize)]
    BY <1>1, <1>2, <1>3, <2>1 DEF RowOf
  <2>3. Len(req'[r].toks) \in Nat
    <3>1. req'[r] \in ReqType
      BY <1>1, <1>3
    <3>2. req'[r].toks \in Seq(Tok)
      BY <3>1 DEF ReqType
    <3> QED BY <3>2
  <2>4. req'[r].cached <= Len(req'[r].toks) /\ req'[r].plen <= Len(req'[r].toks)
    <3>1. req[r].plen <= Len(req[r].toks)
      BY <1>3 DEF RowOf
    <3>2. Len(req[r].toks) <= Len(req'[r].toks)
      BY <1>2
    <3>3. req'[r].cached = req[r].cached /\ req'[r].plen = req[r].plen
      BY <1>2
    <3> QED BY <1>3, <2>3, <3>1, <3>2, <3>3
  <2>5. req'[r].hlen > 0 => Handle(r)' \in nodes'
    BY <1>1, <1>2, <1>3, <1>5 DEF RowOf
  <2> QED BY <1>2, <1>3, <2>2, <2>4, <2>5 DEF RowOf
<1>12. \A s \in Active' : RowOf(s)'
  <2> SUFFICES ASSUME NEW s \in Active', s # r PROVE RowOf(s)'
    BY <1>11
  <2>1. s \in Active /\ req'[s] = req[s]
    BY <1>1, <1>4 DEF Active
  <2>2. nodes \subseteq nodes' /\ \A q \in DOMAIN value : value'[q] = value[q]
    BY <1>1
  <2> QED BY <2>1, <2>2, KeptRow
<1>13. KVInPlace'
  <2>1. ASSUME NEW s \in Active', NEW i \in 1 .. Len(req'[s].row)
        PROVE  kv'[req'[s].row[i]]
                  = Upto(req'[s].toks, IF i * PageSize < req'[s].cached THEN i * PageSize
                                       ELSE req'[s].cached)
    <3>1. CASE s # r
      <4>1. s \in Active /\ req'[s] = req[s]
        BY <1>1, <1>4, <3>1 DEF Active
      <4> QED BY <1>1, <2>1, <4>1 DEF KVInPlace
    <3>2. CASE s = r
      <4> DEFINE k == i * PageSize
                 end == IF k < req[r].cached THEN k ELSE req[r].cached
      <4>1. i \in 1 .. Len(req[r].row)
        BY <1>2, <2>1, <3>2
      <4>2. kv[req[r].row[i]] = Upto(req[r].toks, end)
        BY <4>1 DEF KVInPlace
      <4>3. k \in Nat
        BY <1>10, <4>1
      <4> HIDE DEF k
      <4>4. end \in 0 .. Len(req[r].toks)
        BY <1>3, <4>3
      <4>5. Upto(req'[r].toks, end) = Upto(req[r].toks, end)
        BY <1>2, <4>4
      <4> QED BY <1>1, <1>2, <3>2, <4>2, <4>5 DEF k
    <3> QED BY <3>1, <3>2
  <2>2. \A q \in DOMAIN value' : kv'[value'[q]] = q
    BY <1>1 DEF KVInPlace
  <2> QED BY <2>1, <2>2 DEF KVInPlace
<1> QED BY <1>4, <1>7, <1>8, <1>9, <1>12, <1>13

\* The commit of a multimodal prefill only lets it decode.
LEMMA CommitMultimodalInv ==
    ASSUME IndInv, NEW r \in Req, Commit(r), r \in Multimodal
    PROVE  IndInv'
<1>1. TreeInv /\ ReqInv /\ PageInv /\ CountInv /\ KVInPlace /\ r \in Active
  BY DEF IndInv, Commit
<1>2. /\ UNCHANGED <<treeVars, free, kv, alloc>> /\ alloc = NoAlloc
      /\ req' = [req EXCEPT ![r].committed = TRUE]
  BY DEF Commit
<1>3. req \in [Req -> ReqType] /\ req[r] \in ReqType
  BY <1>1 DEF ReqInv
<1>4. /\ req'[r] = [req[r] EXCEPT !.committed = TRUE]
      /\ \A s \in Req : s # r => req'[s] = req[s]
  BY <1>2, <1>3
<1>5. req'[r] \in ReqType
  BY <1>3, <1>4 DEF ReqType
<1>6. req' \in [Req -> ReqType]
  BY <1>2, <1>3, <1>4, <1>5
<1>7. /\ req'[r].active = req[r].active /\ req'[r].plen = req[r].plen
      /\ req'[r].max = req[r].max /\ req'[r].cached = req[r].cached
      /\ req'[r].hlen = req[r].hlen /\ req'[r].row = req[r].row
      /\ req'[r].toks = req[r].toks
  BY <1>3, <1>4 DEF ReqType
<1>8. Len(req[r].toks) <= Len(req[r].toks)
  <2>1. Len(req[r].toks) \in Nat
    BY <1>1, RequestFacts
  <2> QED BY <2>1
<1>9. Touched(r)
  BY <1>2, <1>4, <1>6, <1>7, <1>8 DEF Touched
<1>10. /\ TreeInv' /\ PageInv' /\ CountInv' /\ KVInPlace'
       /\ \A s \in Active' : RowOf(s)'
  BY <1>1, <1>9, TouchedInv
<1> QED BY <1>2, <1>6, <1>10 DEF IndInv, ReqInv

\* The next chunk of a prompt
LEMMA PrefillInv ==
    ASSUME IndInv, NEW r \in Req, NEW n \in 1 .. req[r].plen, Prefill(r, n)
    PROVE  IndInv'
<1>1. TreeInv /\ ReqInv /\ PageInv /\ CountInv /\ KVInPlace /\ r \in Active
  BY DEF IndInv, Prefill
<1>2. /\ UNCHANGED <<treeVars, free, kv, req>> /\ alloc' = [req |-> r, upto |-> n]
      /\ req[r].cached < n /\ n <= req[r].plen
  BY DEF Prefill
<1>3. /\ req \in [Req -> ReqType] /\ req[r].plen \in Nat /\ Len(req[r].toks) \in Nat
      /\ req[r].max \in Nat /\ req[r].plen <= Len(req[r].toks) /\ req[r].plen < req[r].max
  BY <1>1, RequestFacts DEF ReqInv, RowOf
<1>4. Touched(r)
  BY <1>2, <1>3 DEF Touched
<1>5. /\ TreeInv' /\ PageInv' /\ CountInv' /\ KVInPlace' /\ Active' = Active
      /\ \A s \in Active' : RowOf(s)'
  BY <1>1, <1>4, TouchedInv
<1>6. ReqInv'
  <2>1. alloc'.req = r /\ alloc'.upto = n
    BY <1>2
  <2>2. n \in Nat /\ n < req[r].max /\ n <= Len(req[r].toks)
    BY <1>2, <1>3
  <2> QED BY <1>1, <1>2, <1>3, <1>5, <2>1, <2>2 DEF ReqInv
<1> QED BY <1>5, <1>6 DEF IndInv

\* One more token
LEMMA DecodeInv ==
    ASSUME IndInv, NEW r \in Req, NEW x \in Tok, Decode(r, x)
    PROVE  IndInv'
<1>1. TreeInv /\ ReqInv /\ PageInv /\ CountInv /\ KVInPlace /\ r \in Active
  BY DEF IndInv, Decode
<1>2. /\ UNCHANGED <<treeVars, free, kv>> /\ req[r].cached + 1 < req[r].max
      /\ alloc' = [req |-> r, upto |-> req[r].cached + 1]
      /\ req' = [req EXCEPT ![r].toks = Append(@, x)]
  BY DEF Decode
<1>3. /\ req \in [Req -> ReqType] /\ req[r] \in ReqType /\ req[r].toks \in Seq(Tok)
      /\ Len(req[r].toks) \in Nat /\ req[r].cached \in Nat
      /\ req[r].cached <= Len(req[r].toks)
  BY <1>1, RequestFacts DEF ReqInv
<1>4. /\ req'[r] = [req[r] EXCEPT !.toks = Append(req[r].toks, x)]
      /\ \A s \in Req : s # r => req'[s] = req[s]
  BY <1>2, <1>3
<1>5. /\ Append(req[r].toks, x) \in Seq(Tok)
      /\ Len(Append(req[r].toks, x)) = Len(req[r].toks) + 1
      /\ \A k \in 0 .. Len(req[r].toks) : Upto(Append(req[r].toks, x), k) = Upto(req[r].toks, k)
  <2>1. Append(req[r].toks, x) \in Seq(Tok) /\ Len(Append(req[r].toks, x)) = Len(req[r].toks) + 1
    BY <1>3
  <2>2. \A k \in 0 .. Len(req[r].toks) : Upto(Append(req[r].toks, x), k) = Upto(req[r].toks, k)
    BY <1>3, UptoAppend
  <2> QED BY <2>1, <2>2
<1> DEFINE longer == Append(req[r].toks, x)
<1> HIDE DEF longer
<1>6. req'[r] = [req[r] EXCEPT !.toks = longer]
  BY <1>4 DEF longer
<1>7. longer \in Seq(Tok) /\ Len(longer) = Len(req[r].toks) + 1
  BY <1>5 DEF longer
<1>8. req'[r] \in ReqType
  BY <1>3, <1>6, <1>7 DEF ReqType
<1>9. req' \in [Req -> ReqType]
  BY <1>2, <1>3, <1>4, <1>8
<1>10. /\ req'[r].active = req[r].active /\ req'[r].plen = req[r].plen
       /\ req'[r].max = req[r].max /\ req'[r].cached = req[r].cached
       /\ req'[r].hlen = req[r].hlen /\ req'[r].row = req[r].row
       /\ req'[r].toks = longer
  BY <1>3, <1>6 DEF ReqType
<1>11. Len(req[r].toks) <= Len(req'[r].toks)
  BY <1>3, <1>7, <1>10
<1>12. \A k \in 0 .. Len(req[r].toks) : Upto(req'[r].toks, k) = Upto(req[r].toks, k)
  BY <1>5, <1>10 DEF longer
<1>13. Touched(r)
  BY <1>2, <1>4, <1>9, <1>10, <1>11, <1>12 DEF Touched
<1>14. /\ TreeInv' /\ PageInv' /\ CountInv' /\ KVInPlace' /\ Active' = Active
       /\ \A s \in Active' : RowOf(s)'
  BY <1>1, <1>13, TouchedInv
<1>15. ReqInv'
  <2>1. alloc'.req = r /\ alloc'.upto = req[r].cached + 1
    BY <1>2
  <2>2. /\ req[r].cached + 1 \in Nat /\ req'[r].cached < req[r].cached + 1
        /\ req[r].cached + 1 < req'[r].max /\ req[r].cached + 1 <= Len(req'[r].toks)
    BY <1>2, <1>3, <1>7, <1>10
  <2> QED BY <1>1, <1>9, <1>14, <2>1, <2>2 DEF ReqInv
<1> QED BY <1>14, <1>15 DEF IndInv

-----------------------------------------------------------------------------
(* Admit *)

\* The matched prefix is cached, and shorter than the prompt.
LEMMA MatchedFacts ==
    ASSUME TreeInv, NEW r \in Req, NEW ids \in Prompts, NEW path, path = Matched(r, ids)
    PROVE  /\ ids \in Seq(Tok) /\ Len(ids) \in Nat /\ Len(ids) >= 1
           /\ path \in Seq(Tok) /\ Len(path) \in Nat /\ Aligned(Len(path)) /\ Len(path) < Len(ids)
           /\ path = <<>> \/ path \in DOMAIN value
           /\ path = Upto(ids, Len(path))
           /\ r \in Multimodal => Len(path) = 0
<1>1. ids \in Seq(Tok) /\ ids # <<>> /\ Len(ids) \in Nat /\ Len(ids) >= 1
  <2>1. ids \in Seq(Tok) /\ ids # <<>>
    BY RadixConstants
  <2> QED BY <2>1
<1>2. CASE r \in Multimodal
  <2>1. path = <<>>
    BY <1>2 DEF Matched
  <2>2. Len(path) = 0 /\ path = Upto(ids, 0) /\ path \in Seq(Tok)
    BY <1>1, <2>1, RootFirst
  <2> QED BY <1>1, <2>1, <2>2, AlignedZero
<1>3. CASE r \notin Multimodal
  <2> DEFINE n == Len(ids) - 1
             short == Upto(ids, n)
             m == MatchLen(short)
  <2>1. n \in 0 .. Len(ids) /\ n \in Nat
    BY <1>1
  <2>2. path = Upto(ids, m)
    BY <1>3 DEF Matched
  <2> HIDE DEF n
  <2>3. short \in Seq(Tok) /\ Len(short) = n
    BY <1>1, <2>1, UptoAt
  <2> HIDE DEF short
  <2>4. /\ m \in 0 .. n /\ Aligned(m)
        /\ Upto(short, m) = <<>> \/ Upto(short, m) \in DOMAIN value
    BY <2>3, MatchFacts
  <2> HIDE DEF m
  <2>5. Upto(short, m) = Upto(ids, m)
    BY <1>1, <2>1, <2>4, UptoUpto DEF short
  <2>6. m \in Nat /\ m < Len(ids) /\ m \in 0 .. Len(ids)
    BY <1>1, <2>1, <2>4 DEF n
  <2>7. path \in Seq(Tok) /\ Len(path) = m
    BY <1>1, <2>2, <2>6, UptoAt
  <2> QED BY <1>1, <1>3, <2>2, <2>4, <2>5, <2>6, <2>7
<1> QED BY <1>2, <1>3

\* The counters as those of the prefixes
LEMMA SizedNow ==
    ASSUME CountInv
    PROVE  Sized(DOMAIN value, LockMap, evictable, protected)
<1>1. /\ Loose(DOMAIN value, LockMap) = {q \in DOMAIN value : Locks(q) = 0}
      /\ Pinned(DOMAIN value, LockMap) = {q \in DOMAIN value : Locks(q) > 0}
  BY DEF Loose, Pinned, LockMap
<1> QED BY <1>1 DEF Sized, CountInv

\* A request that is refused leaves at most a split node behind.
LEMMA RefusedInv ==
    ASSUME IndInv, NEW path \in Seq(Tok), path = <<>> \/ path \in DOMAIN value, alloc = NoAlloc,
           nodes' = WalkNodes(path), ref' = WalkRef(path),
           UNCHANGED <<evictable, protected, req, value, free, alloc, kv>>
    PROVE  IndInv'
<1>1. TreeInv /\ ReqInv /\ PageInv /\ CountInv /\ KVInPlace
  BY DEF IndInv
<1>2. /\ TreeOf(WalkNodes(path), DOMAIN value)
      /\ Counts(WalkNodes(path), DOMAIN value, WalkRef(path), LockMap)
      /\ nodes \subseteq WalkNodes(path)
  BY <1>1, WalkCounts DEF LockMap
<1>3. Active' = Active
  BY DEF Active
<1>4. TreeInv'
  BY <1>2 DEF TreeInv
<1>5. ReqInv'
  <2>1. ASSUME NEW s \in Active' PROVE RowOf(s)'
    <3>1. s \in Active /\ req'[s] = req[s]
      BY <1>3
    <3>2. nodes \subseteq nodes' /\ \A q \in DOMAIN value : value'[q] = value[q]
      BY <1>2
    <3> QED BY <1>1, <3>1, <3>2, KeptRow
  <2>2. req' \in [Req -> ReqType]
    BY <1>1 DEF ReqInv
  <2> QED BY <2>1, <2>2 DEF ReqInv
<1>6. PageInv'
  <2>1. \A s \in Active : OwnAt(s)' = OwnAt(s) /\ Own(s)' = Own(s) /\ req'[s].row = req[s].row
    BY DEF OwnAt, Own
  <2> QED BY <1>1, <1>3, <2>1, SamePages
<1>7. CountInv'
  <2>1. LockMap' = LockMap
    <3>1. \A q : Locks(q)' = Locks(q)
      BY <1>3 DEF Locks, Lockers, Handle
    <3> QED BY <3>1 DEF LockMap
  <2>2. Sized(DOMAIN value, LockMap, evictable, protected)
    BY <1>1, SizedNow
  <2>3. /\ Counts(nodes', DOMAIN value', ref', LockMap')
        /\ Sized(DOMAIN value', LockMap', evictable', protected')
    BY <1>2, <2>1, <2>2
  <2>4. ref' = [n \in DOMAIN ref' |-> ref'[n]]
    BY DEF WalkRef
  <2>5. (/\ TreeInv /\ Counts(nodes, DOMAIN value, ref, LockMap)
         /\ Sized(DOMAIN value, LockMap, evictable, protected)
         /\ ref = [n \in DOMAIN ref |-> ref[n]]
         => CountInv)'
    BY CountsGive, PTL
  <2> QED BY <1>4, <2>3, <2>4, <2>5
<1>8. KVInPlace'
  BY <1>1, <1>3 DEF KVInPlace
<1> QED BY <1>4, <1>5, <1>6, <1>7, <1>8 DEF IndInv

\* The request as admission leaves it
Admitted(ids, out, path) ==
    [active |-> TRUE, toks |-> ids, plen |-> Len(ids), max |-> Len(ids) + out,
     cached |-> Len(path), hlen |-> Len(path), committed |-> FALSE,
     row |-> [i \in 1 .. (Len(path) \div PageSize) |-> value[Upto(path, i * PageSize)]]]

\* A request that is admitted has its match locked and reads the tree's pages.
LEMMA AdmittedInv ==
    ASSUME IndInv, NEW r \in Req, r \notin Active, NEW ids \in Prompts, NEW out \in OutLens,
           NEW path, path = Matched(r, ids), alloc = NoAlloc,
           nodes' = WalkNodes(path), ref' = LockRef(WalkRef(path), path, 1),
           evictable' = evictable - Crossing(WalkRef(path), path, 0),
           protected' = protected + Crossing(WalkRef(path), path, 0),
           req' = [req EXCEPT ![r] = Admitted(ids, out, path)],
           UNCHANGED <<value, free, alloc, kv>>
    PROVE  IndInv'
<1> DEFINE k == Len(path) \div PageSize
           row == [i \in 1 .. k |-> value[Upto(path, i * PageSize)]]
<1>1. TreeInv /\ ReqInv /\ PageInv /\ CountInv /\ KVInPlace
  BY DEF IndInv
<1>2. /\ ids \in Seq(Tok) /\ Len(ids) \in Nat /\ Len(ids) >= 1
      /\ path \in Seq(Tok) /\ Len(path) \in Nat /\ Aligned(Len(path)) /\ Len(path) < Len(ids)
      /\ path = <<>> \/ path \in DOMAIN value
      /\ path = Upto(ids, Len(path))
      /\ r \in Multimodal => Len(path) = 0
  BY <1>1, MatchedFacts
<1>3. /\ TreeOf(WalkNodes(path), DOMAIN value)
      /\ Counts(WalkNodes(path), DOMAIN value, WalkRef(path), LockMap)
      /\ nodes \subseteq WalkNodes(path) /\ (path = <<>> \/ path \in WalkNodes(path))
  BY <1>1, <1>2, WalkCounts DEF LockMap
<1>4. k \in Nat /\ Len(path) = k * PageSize
  BY <1>2, AlignedPages, Division
<1> HIDE DEF k
<1>5. ASSUME NEW i \in 1 .. k
      PROVE  /\ Upto(path, i * PageSize) \in DOMAIN value
             /\ Upto(path, i * PageSize) = Upto(ids, i * PageSize)
             /\ i * PageSize \in Nat /\ i * PageSize <= Len(path)
             /\ row[i] = value[Upto(path, i * PageSize)]
  <2> DEFINE e == i * PageSize
  <2>1. i \in Nat \ {0} /\ i <= k
    BY <1>4
  <2>2. e \in Nat /\ e >= 1 /\ Aligned(e) /\ e <= Len(path)
    BY <1>4, <2>1, PageEnd, Multiples
  <2> HIDE DEF e
  <2>3. e \in 0 .. Len(path) /\ Len(path) \in 0 .. Len(ids)
    BY <1>2, <2>2
  <2>4. Upto(path, e) \in Seq(Tok) /\ Len(Upto(path, e)) = e /\ IsPrefix(Upto(path, e), path)
    BY <1>2, <2>3, UptoAt
  <2>5. Upto(path, e) \in Paths
    BY <2>2, <2>4 DEF Paths
  <2>6. path \in DOMAIN value
    BY <1>2, <2>4, <2>5, RootFirst
  <2>7. Upto(path, e) \in DOMAIN value
    BY <1>1, <2>4, <2>5, <2>6, TreeClosed DEF TreeInv
  <2>8. Upto(path, e) = Upto(ids, e)
    <3> DEFINE n == Len(path)
    <3>1. e \in 0 .. n /\ n \in 0 .. Len(ids) /\ path = Upto(ids, n)
      BY <1>2, <2>3
    <3> HIDE DEF n
    <3>2. Upto(Upto(ids, n), e) = Upto(ids, e)
      BY <1>2, <3>1, UptoUpto
    <3> QED BY <3>1, <3>2
  <2> QED BY <2>2, <2>7, <2>8 DEF e
<1>6. row \in Seq(Page) /\ Len(row) = k
  <2>1. \A i \in 1 .. k : row[i] \in Page
    BY <1>1, <1>5 DEF PageInv
  <2>2. row = [i \in 1 .. k |-> row[i]]
    OBVIOUS
  <2> HIDE DEF row
  <2>3. row \in [1 .. k -> Page]
    BY <2>1, <2>2
  <2> QED BY <1>4, <2>3
<1>7. Admitted(ids, out, path)
          = [active |-> TRUE, toks |-> ids, plen |-> Len(ids), max |-> Len(ids) + out,
             cached |-> Len(path), hlen |-> Len(path), committed |-> FALSE, row |-> row]
  BY DEF Admitted, k
<1> HIDE DEF row
<1>8. out \in Nat /\ out >= 1
  BY RadixConstants
<1>9. req \in [Req -> ReqType]
  BY <1>1 DEF ReqInv
<1>10. /\ req'[r] = Admitted(ids, out, path) /\ \A s \in Req : s # r => req'[s] = req[s]
  BY <1>9
<1>11. /\ req'[r].active = TRUE /\ req'[r].toks = ids /\ req'[r].plen = Len(ids)
       /\ req'[r].max = Len(ids) + out /\ req'[r].cached = Len(path)
       /\ req'[r].hlen = Len(path) /\ req'[r].row = row
  BY <1>7, <1>10
<1>12. Admitted(ids, out, path) \in ReqType
  BY <1>2, <1>6, <1>7, <1>8 DEF ReqType
<1>13. req' \in [Req -> ReqType]
  BY <1>9, <1>12
<1>14. Active' = Active \cup {r}
  BY <1>10, <1>11 DEF Active
<1>15. Handle(r)' = path
  BY <1>2, <1>11 DEF Handle
<1>16. \A s \in Active : s # r /\ req'[s] = req[s]
  BY <1>10 DEF Active
<1>17. TreeInv'
  BY <1>3 DEF TreeInv
<1>18. ReqInv'
  <2>1. ASSUME NEW s \in Active PROVE RowOf(s)'
    <3>1. req'[s] = req[s]
      BY <1>16
    <3>2. nodes \subseteq nodes' /\ \A q \in DOMAIN value : value'[q] = value[q]
      BY <1>3
    <3> QED BY <1>1, <3>1, <3>2, KeptRow
  <2>2. RowOf(r)'
    <3>1. k = DivCeil(Len(path), PageSize)
      <4> DEFINE c == DivCeil(Len(path), PageSize)
      <4>1. c \in Nat /\ c * PageSize = k * PageSize
        BY <1>2, <1>4, DivCeilFacts
      <4> HIDE DEF c
      <4>2. c = k
        BY <1>4, <4>1, Multiples
      <4> QED BY <4>2 DEF c
    <3>2. req'[r].hlen > 0 => Handle(r)' \in nodes'
      <4>1. Len(path) > 0 => path # <<>>
        OBVIOUS
      <4> QED BY <1>3, <1>11, <1>15, <4>1
    <3>3. \A i \in 1 .. Len(req'[r].row) : i * PageSize <= req'[r].hlen =>
             req'[r].row[i] = value'[Upto(req'[r].toks, i * PageSize)]
      BY <1>5, <1>6, <1>11
    <3>4. /\ req'[r].cached <= Len(req'[r].toks) /\ req'[r].plen <= Len(req'[r].toks)
          /\ req'[r].hlen <= req'[r].cached /\ Aligned(req'[r].hlen)
          /\ req'[r].cached < req'[r].max /\ req'[r].plen < req'[r].max
      <4>1. /\ Len(path) \in Nat /\ Len(ids) \in Nat /\ Len(path) <= Len(ids)
            /\ Aligned(Len(path))
        BY <1>2
      <4>2. Len(path) < Len(ids) + out /\ Len(ids) < Len(ids) + out
        BY <1>8, <4>1
      <4>3. Len(ids) <= Len(ids) /\ Len(path) <= Len(path)
        BY <4>1
      <4> QED BY <1>11, <4>1, <4>2, <4>3
    <3> QED BY <1>2, <1>6, <1>11, <3>1, <3>2, <3>3, <3>4 DEF RowOf
  <2>3. \A s \in Active' : RowOf(s)'
    BY <1>14, <2>1, <2>2
  <2> QED BY <1>13, <2>3 DEF ReqInv
<1>19. PageInv'
  <2>1. \A s \in Active : OwnAt(s)' = OwnAt(s) /\ Own(s)' = Own(s) /\ req'[s].row = req[s].row
    BY <1>16 DEF OwnAt, Own
  <2>2. OwnAt(r)' = {}
    <3>1. \A i \in 1 .. k : ~(i * PageSize > Len(path))
      BY <1>2, <1>5
    <3> QED BY <1>6, <1>11, <3>1 DEF OwnAt
  <2>3. Own(r)' = {}
    BY <2>2 DEF OwnAt, Own
  <2>4. \A p : Taken(p)' <=> Taken(p)
    BY <1>14, <2>1, <2>3 DEF Taken
  <2>5. \A s \in Active' : \A i, j \in OwnAt(s)' : req'[s].row[i] = req'[s].row[j] => i = j
    BY <1>1, <1>14, <2>1, <2>2 DEF PageInv
  <2>6. \A s \in Active' : Own(s)' \cap Range(value)' = {}
    BY <1>1, <1>14, <2>1, <2>3 DEF PageInv
  <2>7. \A s, z \in Active' : s # z => Own(s)' \cap Own(z)' = {}
    BY <1>1, <1>14, <2>1, <2>3 DEF PageInv
  <2>8. free' \in [Page -> {0, 1}] /\ \A p \in Page : free'[p] = 0 <=> Taken(p)'
    BY <1>1, <2>4 DEF PageInv
  <2>9. value' \in [DOMAIN value' -> Page] /\ IsInjective(value')
    BY <1>1 DEF PageInv
  <2> QED BY <2>5, <2>6, <2>7, <2>8, <2>9 DEF PageInv
<1>20. CountInv'
  <2> DEFINE L == LockMap
             M == LockMap'
             W == WalkNodes(path)
             rf == WalkRef(path)
  <2>1. \A q : Locks(q) \in Nat /\ Locks(q)' = IF IsPrefix(q, path) THEN Locks(q) + 1 ELSE Locks(q)
    <3>1. \A q : Others(r, q)' = Others(r, q)
      BY <1>10, SameOthers
    <3>2. AllLocksSplit /\ AllLocksSplit'
      BY LocksOthers, PTL
    <3>3. \A q : Locks(q) = Others(r, q) /\ Others(r, q) \in Nat
      BY <3>2 DEF AllLocksSplit, LocksSplit
    <3>4. \A q : Locks(q)' = IF (r \in Active)' /\ IsPrefix(q, Handle(r)') THEN Others(r, q)' + 1
                             ELSE Others(r, q)'
      BY <3>2 DEF AllLocksSplit, LocksSplit
    <3> QED BY <1>14, <1>15, <3>1, <3>3, <3>4
  <2>2. \A q \in DOMAIN value : L[q] \in Nat
    BY <2>1 DEF LockMap
  <2>3. \A q \in DOMAIN value : M[q] = IF IsPrefix(q, path) THEN L[q] + 1 ELSE L[q]
    BY <2>1 DEF LockMap
  <2>4. TreeOf(W, DOMAIN value) /\ Counts(W, DOMAIN value, rf, L) /\ (path = <<>> \/ path \in W)
    BY <1>3
  <2>5. Sized(DOMAIN value, L, evictable, protected)
    BY <1>1, SizedNow
  <2> HIDE DEF L, M, W, rf
  <2>6. /\ Counts(W, DOMAIN value, LockRef(rf, path, 1), M)
        /\ Sized(DOMAIN value, M, evictable - Crossing(rf, path, 0),
                 protected + Crossing(rf, path, 0))
    BY <1>2, <2>2, <2>3, <2>4, <2>5, LockSizes
  <2>7. Counts(nodes', DOMAIN value', ref', M) /\ Sized(DOMAIN value', M, evictable', protected')
    BY <2>6 DEF W, rf
  <2>8. ref' = [n \in DOMAIN ref' |-> ref'[n]]
    BY DEF LockRef
  <2>9. (/\ TreeInv /\ Counts(nodes, DOMAIN value, ref, LockMap)
         /\ Sized(DOMAIN value, LockMap, evictable, protected)
         /\ ref = [n \in DOMAIN ref |-> ref[n]]
         => CountInv)'
    BY CountsGive, PTL
  <2> QED BY <1>17, <2>7, <2>8, <2>9 DEF M
<1>21. KVInPlace'
  <2>1. ASSUME NEW i \in 1 .. k
        PROVE  kv[row[i]] = Upto(ids, IF i * PageSize < Len(path) THEN i * PageSize ELSE Len(path))
    <3>1. kv[row[i]] = Upto(ids, i * PageSize)
      BY <1>1, <1>5 DEF KVInPlace
    <3>2. (IF i * PageSize < Len(path) THEN i * PageSize ELSE Len(path)) = i * PageSize
      <4> DEFINE e == i * PageSize
      <4>1. e \in Nat /\ e <= Len(path)
        BY <1>5
      <4> HIDE DEF e
      <4>2. (IF e < Len(path) THEN e ELSE Len(path)) = e
        BY <1>2, <4>1
      <4> QED BY <4>2 DEF e
    <3> QED BY <3>1, <3>2
  <2>2. \A s \in Active' : \A i \in 1 .. Len(req'[s].row) :
           LET end == IF i * PageSize < req'[s].cached THEN i * PageSize ELSE req'[s].cached
           IN kv'[req'[s].row[i]] = Upto(req'[s].toks, end)
    <3>1. \A s \in Active : \A i \in 1 .. Len(req'[s].row) :
           LET end == IF i * PageSize < req'[s].cached THEN i * PageSize ELSE req'[s].cached
           IN kv'[req'[s].row[i]] = Upto(req'[s].toks, end)
      BY <1>1, <1>16 DEF KVInPlace
    <3>2. \A i \in 1 .. Len(req'[r].row) :
           LET end == IF i * PageSize < req'[r].cached THEN i * PageSize ELSE req'[r].cached
           IN kv'[req'[r].row[i]] = Upto(req'[r].toks, end)
      BY <1>6, <1>11, <2>1
    <3> QED BY <1>14, <3>1, <3>2
  <2>3. \A q \in DOMAIN value' : kv'[value'[q]] = q
    BY <1>1 DEF KVInPlace
  <2> QED BY <2>2, <2>3 DEF KVInPlace
<1> QED BY <1>17, <1>18, <1>19, <1>20, <1>21 DEF IndInv

\* Admission, with and without success.
LEMMA AdmitInv ==
    ASSUME IndInv, NEW r \in Req, NEW ids \in Prompts, NEW out \in OutLens, Admit(r, ids, out)
    PROVE  IndInv'
<1>1. PICK path : path = Matched(r, ids)
  OBVIOUS
<1>2. /\ alloc = NoAlloc /\ r \notin Active /\ nodes' = WalkNodes(path)
      /\ UNCHANGED <<value, free, alloc, kv>>
      /\ \/ /\ ref' = LockRef(WalkRef(path), path, 1)
            /\ evictable' = evictable - Crossing(WalkRef(path), path, 0)
            /\ protected' = protected + Crossing(WalkRef(path), path, 0)
            /\ req' = [req EXCEPT ![r] = Admitted(ids, out, path)]
         \/ ref' = WalkRef(path) /\ UNCHANGED <<evictable, protected, req>>
  BY <1>1 DEF Admit, Locked, Admitted
<1>3. path \in Seq(Tok) /\ (path = <<>> \/ path \in DOMAIN value)
  BY <1>1, MatchedFacts DEF IndInv
<1>4. CASE ref' = WalkRef(path) /\ UNCHANGED <<evictable, protected, req>>
  BY <1>2, <1>3, <1>4, RefusedInv
<1>5. CASE /\ ref' = LockRef(WalkRef(path), path, 1)
           /\ evictable' = evictable - Crossing(WalkRef(path), path, 0)
           /\ protected' = protected + Crossing(WalkRef(path), path, 0)
           /\ req' = [req EXCEPT ![r] = Admitted(ids, out, path)]
  BY <1>1, <1>2, <1>5, AdmittedInv
<1> QED BY <1>2, <1>4, <1>5

-----------------------------------------------------------------------------
(* EvictOne *)

\* The pages in the key of an unlocked leaf are in no one's row.
LEMMA LeafUnused ==
    ASSUME TreeInv, ReqInv, CountInv, NEW n \in nodes, ref[n] = 0,
           NEW s \in Active, NEW q \in DOMAIN value, HomeIn(nodes, q, n)
    PROVE  ~IsPrefix(q, Handle(s))
<1> SUFFICES ASSUME IsPrefix(q, Handle(s)) PROVE FALSE
  OBVIOUS
<1>1. TreeOf(nodes, DOMAIN value) /\ nodes \subseteq DOMAIN value
  BY TreeOrder DEF TreeInv
<1>2. Handle(s) \in Seq(Tok) /\ (Handle(s) = <<>> \/ Handle(s) \in nodes)
  BY HandleFacts
<1>3. IsPrefix(n, Handle(s))
  BY <1>1, <1>2, HomeBelow
<1>4. s \in Lockers(n)
  BY <1>3 DEF Lockers
<1>5. Locks(n) = 0
  BY DEF CountInv
<1> QED BY <1>4, <1>5, LockersFinite, FS_EmptySet DEF Locks

\* evict: the leaf goes, its pages are free, and evictable_size falls by its key.
LEMMA EvictInv ==
    ASSUME IndInv, NEW n \in nodes, EvictOne(n)
    PROVE  IndInv'
<1> DEFINE D == DOMAIN value
           gone == {q \in D : HomeIn(nodes, q, n)}
           E == {q \in D : ~HomeIn(nodes, q, n)}
           ns == nodes \ {n}
<1>1. TreeInv /\ ReqInv /\ PageInv /\ CountInv /\ KVInPlace
  BY DEF IndInv
<1>2. TreeOf(nodes, D) /\ nodes \subseteq D
  BY <1>1, TreeOrder DEF TreeInv
<1>3. ref[n] = 0 /\ \A m \in nodes : ~IsStrictPrefix(n, m)
  BY DEF EvictOne, Leaves
<1>4. {q \in D : IsPrefix(q, n) /\ Len(q) > ParentLen(nodes, n)} = gone
  BY <1>2, KeyHome
<1>5. /\ nodes' = ns /\ ref' = [m \in ns |-> ref[m]]
      /\ value' = [q \in E |-> value[q]]
      /\ free' = [p \in Page |-> free[p] + Cardinality({q \in gone : value[q] = p})]
      /\ evictable' = evictable - KeyLen(nodes, n)
      /\ UNCHANGED <<protected, req, alloc, kv>>
  <2>1. D \ gone = E
    OBVIOUS
  <2> QED BY <1>4, <2>1 DEF EvictOne
<1>6. TreeOf(ns, E)
  BY <1>2, <1>3, TreeEvict
<1>7. DOMAIN value' = E /\ \A q \in E : value'[q] = value[q] /\ q \in D
  BY <1>5
<1>8. TreeInv'
  BY <1>5, <1>6, <1>7 DEF TreeInv
<1>9. Active' = Active /\ (\A s : Handle(s)' = Handle(s)) /\ (\A q : Locks(q)' = Locks(q))
  BY <1>5 DEF Active, Handle, Locks, Lockers
<1>10. ReqInv'
  <2>1. ASSUME NEW s \in Active PROVE RowOf(s)'
    <3>1. s \in Req /\ req'[s] = req[s] /\ RowOf(s)
      BY <1>1, <1>5, RequestFacts
    <3>2. req[s].hlen > 0 => Handle(s) \in nodes'
      <4> SUFFICES ASSUME req[s].hlen > 0, Handle(s) = n PROVE FALSE
        BY <1>5, <3>1 DEF RowOf
      <4>1. HomeIn(nodes, n, n) /\ n \in D
        BY <1>2, TreeOrder
      <4>2. ~IsPrefix(n, Handle(s))
        BY <1>1, <1>3, <4>1, LeafUnused
      <4>3. IsPrefix(n, n)
        BY <1>2, TreeOrder
      <4> QED BY <4>2, <4>3
    <3>3. ASSUME NEW i \in 1 .. Len(req[s].row), i * PageSize <= req[s].hlen
          PROVE  value'[Upto(req[s].toks, i * PageSize)] = value[Upto(req[s].toks, i * PageSize)]
      <4>1. /\ Upto(req[s].toks, i * PageSize) \in D
            /\ IsPrefix(Upto(req[s].toks, i * PageSize), Handle(s))
        BY <1>1, <3>3, HandlePages
      <4>2. Upto(req[s].toks, i * PageSize) \in E
        BY <1>1, <1>3, <4>1, LeafUnused
      <4> QED BY <1>7, <4>2
    <3> QED BY <3>1, <3>2, <3>3, SameRow
  <2>2. \A s \in Active' : RowOf(s)'
    BY <1>9, <2>1
  <2>3. req' \in [Req -> ReqType]
    BY <1>1, <1>5 DEF ReqInv
  <2> QED BY <1>1, <1>5, <1>9, <2>2, <2>3 DEF ReqInv
<1>11. PageInv'
  <2>1. \A s \in Active : OwnAt(s)' = OwnAt(s) /\ Own(s)' = Own(s) /\ req'[s].row = req[s].row
    BY <1>5 DEF OwnAt, Own
  <2>2. /\ value \in [D -> Page] /\ IsInjective(value)
        /\ free \in [Page -> {0, 1}] /\ \A p \in Page : free[p] = 0 <=> Taken(p)
        /\ \A s \in Active : Own(s) \cap Range(value) = {}
    BY <1>1 DEF PageInv
  <2>3. \A p : p \in Range(value') <=> \E q \in E : value[q] = p
    BY <1>5, <1>7 DEF Range
  <2>4. \A p : p \in Range(value) <=> \E q \in D : value[q] = p
    BY DEF Range
  <2>5. Range(value') \subseteq Range(value)
    BY <1>7, <2>3, <2>4
  <2>6. value' \in [DOMAIN value' -> Page]
    BY <1>5, <2>2
  <2>7. \A a, b \in D : value[a] = value[b] => a = b
    BY <2>2 DEF IsInjective
  <2>8. IsInjective(value')
    BY <1>7, <2>7 DEF IsInjective
  <2>9. ASSUME NEW p \in Page
        PROVE  free'[p] \in {0, 1} /\ (free'[p] = 0 <=> Taken(p)')
    <3> DEFINE X == {q \in gone : value[q] = p}
    <3>1. free'[p] = free[p] + Cardinality(X)
      BY <1>5
    <3>2. Taken(p)' <=> p \in Range(value') \/ \E s \in Active : p \in Own(s)
      BY <1>9, <2>1 DEF Taken
    <3>3. Taken(p) <=> p \in Range(value) \/ \E s \in Active : p \in Own(s)
      BY DEF Taken
    <3>4. ASSUME NEW q \in gone, value[q] = p
          PROVE  free'[p] = 1 /\ ~Taken(p)'
      <4>1. X = {q}
        BY <2>7, <3>4
      <4>2. Cardinality(X) = 1
        BY <4>1, FS_Singleton
      <4>3. p \in Range(value)
        BY <2>4, <3>4
      <4>4. free[p] = 0
        BY <2>2, <3>3, <4>3
      <4>5. p \notin Range(value')
        BY <2>3, <2>7, <3>4
      <4>6. ~Taken(p)'
        BY <2>2, <3>2, <4>3, <4>5
      <4> HIDE DEF X
      <4> QED BY <3>1, <4>2, <4>4, <4>6
    <3>5. CASE \A q \in gone : value[q] # p
      <4>1. X = {}
        BY <3>5
      <4>2. Cardinality(X) = 0
        BY <4>1, FS_EmptySet
      <4>3. p \in Range(value') <=> p \in Range(value)
        <5>1. \A q \in D : q \in gone \/ q \in E
          OBVIOUS
        <5> HIDE DEF gone, E
        <5> QED BY <2>3, <2>4, <2>5, <3>5, <5>1
      <4>4. Taken(p)' <=> Taken(p)
        BY <3>2, <3>3, <4>3
      <4> HIDE DEF X
      <4> QED BY <2>2, <3>1, <4>2, <4>4
    <3> QED BY <3>4, <3>5
  <2>10. free' \in [Page -> {0, 1}]
    BY <1>5, <2>9
  <2> QED BY <1>1, <1>9, <2>1, <2>2, <2>5, <2>6, <2>8, <2>9, <2>10 DEF PageInv
<1>12. CountInv'
  <2>1. \A m \in nodes : ref[m] = Locks(m) /\ ref[m] \in Nat
    BY <1>1 DEF CountInv
  <2>2. \A q \in D : \A h \in nodes : HomeIn(nodes, q, h) => Locks(q) = Locks(h)
    BY <1>1, <1>2, RefCounts DEF Counts
  <2>3. \A q \in gone : Locks(q) = 0
    BY <1>3, <2>1, <2>2
  <2>4. ref' \in [nodes' -> Nat] /\ \A m \in nodes' : ref'[m] = Locks(m)'
    BY <1>5, <1>9, <2>1
  <2>5. {q \in D : Locks(q) = 0} = {q \in E : Locks(q) = 0} \cup gone
    BY <2>3
  <2>6. {q \in D : Locks(q) > 0} = {q \in E : Locks(q) > 0}
    BY <2>3
  <2>7. /\ IsFiniteSet(gone) /\ KeyLen(nodes, n) = PageSize * Cardinality(gone)
    BY <1>2, KeyCount
  <2> DEFINE a == {q \in E : Locks(q) = 0}
  <2>8. IsFiniteSet(a) /\ a \cap gone = {}
    <3>1. IsFiniteSet(D)
      BY <1>2 DEF TreeOf
    <3>2. a \in SUBSET D
      OBVIOUS
    <3>3. a \cap gone = {}
      OBVIOUS
    <3> QED BY <3>1, <3>2, <3>3, FS_Subset
  <2>9. evictable = PageSize * Cardinality(a \cup gone)
    BY <1>1, <2>5 DEF CountInv
  <2> HIDE DEF a, gone
  <2>10. /\ Cardinality(a \cup gone) = Cardinality(a) + Cardinality(gone)
         /\ Cardinality(a) \in Nat /\ Cardinality(gone) \in Nat
    BY <2>7, <2>8, CardParts
  <2>11. \A i, j \in Nat : PageSize * (i + j) = PageSize * i + PageSize * j
    BY Multiples
  <2>12. PageSize * Cardinality(a) \in Nat /\ PageSize * Cardinality(gone) \in Nat
    BY <2>10, Multiples
  <2>13. evictable' = PageSize * Cardinality(a)
    <3>1. PageSize * Cardinality(a \cup gone)
              = PageSize * Cardinality(a) + PageSize * Cardinality(gone)
      BY <2>10, <2>11
    <3> QED BY <1>5, <2>7, <2>9, <2>12, <3>1
  <2>14. a = {q \in DOMAIN value' : Locks(q)' = 0}
    BY <1>7, <1>9 DEF a
  <2>15. {q \in DOMAIN value' : Locks(q)' > 0} = {q \in D : Locks(q) > 0}
    BY <1>7, <1>9, <2>6
  <2>16. protected' = PageSize * Cardinality({q \in D : Locks(q) > 0})
    BY <1>1, <1>5 DEF CountInv
  <2> QED BY <2>4, <2>13, <2>14, <2>15, <2>16 DEF CountInv
<1>13. KVInPlace'
  BY <1>1, <1>5, <1>7, <1>9 DEF KVInPlace
<1> QED BY <1>8, <1>10, <1>11, <1>12, <1>13 DEF IndInv

-----------------------------------------------------------------------------
(* Extend *)

\* The request of the allocation under way, and the pages it asks for.
LEMMA AllocFacts ==
    ASSUME ReqInv, alloc # NoAlloc
    PROVE  /\ alloc.req \in Active /\ alloc.upto \in Nat
           /\ req[alloc.req].cached < alloc.upto /\ alloc.upto < req[alloc.req].max
           /\ alloc.upto <= Len(req[alloc.req].toks)
           /\ PagesFor(alloc.req, alloc.upto) \in Nat
           /\ DivCeil(alloc.upto, PageSize)
                 = DivCeil(req[alloc.req].cached, PageSize) + PagesFor(alloc.req, alloc.upto)
<1>1. /\ alloc.req \in Active /\ alloc.upto \in Nat
      /\ req[alloc.req].cached < alloc.upto /\ alloc.upto < req[alloc.req].max
      /\ alloc.upto <= Len(req[alloc.req].toks)
  BY DEF ReqInv
<1>2. req[alloc.req].cached \in Nat
  BY <1>1, RequestFacts
<1> DEFINE c == DivCeil(req[alloc.req].cached, PageSize)
           d == DivCeil(alloc.upto, PageSize)
<1>3. c \in Nat /\ d \in Nat /\ c <= d
  <2>1. c \in Nat /\ d \in Nat
    BY <1>1, <1>2, DivCeilFacts
  <2>2. req[alloc.req].cached <= alloc.upto
    BY <1>1, <1>2
  <2>3. c <= d
    BY <1>1, <1>2, <2>2, DivCeilLe
  <2> QED BY <2>1, <2>3
<1>4. PagesFor(alloc.req, alloc.upto) = d - c
  BY DEF PagesFor
<1> HIDE DEF c, d
<1>5. PagesFor(alloc.req, alloc.upto) \in Nat /\ d = c + PagesFor(alloc.req, alloc.upto)
  BY <1>3, <1>4
<1> QED BY <1>1, <1>5 DEF c, d

\* allocate_paged: free pages become the request's, and the forward writes its tokens' KV into
\* them and into the page that was not full; no page that others read is written.
LEMMA ExtendInv ==
    ASSUME IndInv, alloc # NoAlloc, NEW pages \in [1 .. PagesFor(alloc.req, alloc.upto) -> Page],
           Extend(pages)
    PROVE  IndInv'
<1>1. TreeInv /\ ReqInv /\ PageInv /\ CountInv /\ KVInPlace
  BY DEF IndInv
<1>2. PICK r : r = alloc.req
  OBVIOUS
<1>3. PICK upto : upto = alloc.upto
  OBVIOUS
<1>4. PICK old : old = req[r].row
  OBVIOUS
<1>5. PICK row : row = old \o pages
  OBVIOUS
<1>6. PICK cached : cached = req[r].cached
  OBVIOUS
<1>7. /\ r \in Active /\ r \in Req /\ upto \in Nat /\ cached < upto /\ upto < req[r].max
      /\ upto <= Len(req[r].toks) /\ PagesFor(r, upto) \in Nat
      /\ DivCeil(upto, PageSize) = DivCeil(cached, PageSize) + PagesFor(r, upto)
  BY <1>1, <1>2, <1>3, <1>6, AllocFacts DEF Active
<1>8. /\ req[r] \in ReqType /\ RowOf(r) /\ req[r].toks \in Seq(Tok) /\ old \in Seq(Page)
      /\ Len(old) \in Nat /\ cached \in Nat /\ req[r].hlen \in Nat /\ req[r].hlen <= cached
      /\ Len(old) = DivCeil(cached, PageSize) /\ req \in [Req -> ReqType]
      /\ Len(req[r].toks) \in Nat
  BY <1>1, <1>4, <1>6, <1>7, RequestFacts DEF RowOf, ReqInv
<1>9. pages \in Seq(Page) /\ Len(pages) = PagesFor(r, upto) /\ Len(pages) \in Nat
  BY <1>2, <1>3, <1>7
<1>10. /\ row \in Seq(Page) /\ Len(row) = Len(old) + Len(pages) /\ Len(row) \in Nat
       /\ \A i \in 1 .. Len(row) : row[i] = IF i <= Len(old) THEN old[i] ELSE pages[i - Len(old)]
  BY <1>5, <1>8, <1>9, ConcatAt
<1>11. /\ IsInjective(pages) /\ \A i \in 1 .. Len(pages) : free[pages[i]] > 0
       /\ free' = [p \in Page |-> free[p] - (IF Contains(pages, p) THEN 1 ELSE 0)]
       /\ req' = [req EXCEPT ![r].row = row, ![r].cached = upto]
       /\ kv' = [p \in Page |->
             LET at == {i \in 1 .. Len(row) : row[i] = p /\ i * PageSize > cached}
             IN IF at = {} THEN kv[p]
                ELSE LET end == Max(at) * PageSize
                     IN Upto(req[r].toks, IF end > upto THEN upto ELSE end)]
       /\ alloc' = NoAlloc
       /\ UNCHANGED <<nodes, ref, value, evictable, protected>>
  BY <1>2, <1>3, <1>4, <1>5, <1>6 DEF Extend, treeVars
<1>12. /\ req'[r] = [req[r] EXCEPT !.row = row, !.cached = upto]
       /\ \A s \in Req : s # r => req'[s] = req[s]
  BY <1>7, <1>8, <1>11
<1>13. req'[r] \in ReqType
  BY <1>7, <1>8, <1>10, <1>12 DEF ReqType
<1>14. req' \in [Req -> ReqType]
  BY <1>8, <1>11, <1>12, <1>13
<1>15. /\ req'[r].active = req[r].active /\ req'[r].toks = req[r].toks /\ req'[r].row = row
       /\ req'[r].cached = upto /\ req'[r].max = req[r].max
       /\ req'[r].plen = req[r].plen /\ req'[r].hlen = req[r].hlen
  BY <1>8, <1>12 DEF ReqType
<1>16. Active' = Active
  BY <1>12, <1>15 DEF Active
<1>17. \A s \in Active : Handle(s)' = Handle(s)
  BY <1>12, <1>15 DEF Handle, Active
<1>18. \A i \in 1 .. Len(row) : i \in Nat /\ i >= 1 /\ i * PageSize \in Nat
  <2>1. \A i \in 1 .. Len(row) : i \in Nat /\ i >= 1
    BY <1>10
  <2> QED BY <2>1, Multiples
<1>19. \A i \in 1 .. Len(row) : i * PageSize <= cached => i <= Len(old)
  <2> SUFFICES ASSUME NEW i \in 1 .. Len(row), i * PageSize <= cached PROVE i <= Len(old)
    OBVIOUS
  <2>1. cached <= Len(old) * PageSize /\ Len(old) * PageSize \in Nat
    BY <1>8, DivCeilFacts, Multiples
  <2>2. i * PageSize <= Len(old) * PageSize
    BY <1>8, <1>18, <2>1
  <2> QED BY <1>8, <1>18, <2>2, Multiples
<1>20. \A i \in 1 .. Len(old) : i \in 1 .. Len(row) /\ row[i] = old[i]
  BY <1>8, <1>9, <1>10
<1>21. TreeInv'
  BY <1>1, <1>11 DEF TreeInv
<1>22. RowOf(r)'
  <2>1. Len(row) = DivCeil(upto, PageSize)
    BY <1>7, <1>8, <1>9, <1>10
  <2>2. ASSUME NEW i \in 1 .. Len(row), i * PageSize <= req[r].hlen
        PROVE  row[i] = value'[Upto(req[r].toks, i * PageSize)]
    <3>1. i * PageSize <= cached
      BY <1>8, <1>18, <2>2
    <3>2. i \in 1 .. Len(old) /\ row[i] = old[i]
      BY <1>8, <1>18, <1>19, <1>20, <3>1
    <3>3. old[i] = value[Upto(req[r].toks, i * PageSize)]
      BY <1>4, <1>8, <2>2, <3>2 DEF RowOf
    <3> QED BY <1>11, <3>2, <3>3
  <2>3. req[r].hlen <= upto
    BY <1>7, <1>8
  <2>4. req'[r].hlen > 0 => Handle(r)' \in nodes'
    BY <1>7, <1>8, <1>11, <1>15, <1>17 DEF RowOf
  <2>5. /\ req[r].plen <= Len(req[r].toks) /\ req[r].plen < req[r].max /\ Aligned(req[r].hlen)
        /\ r \in Multimodal => req[r].hlen = 0
    BY <1>8 DEF RowOf
  <2>6. \A i \in 1 .. Len(req'[r].row) : i * PageSize <= req'[r].hlen =>
           req'[r].row[i] = value'[Upto(req'[r].toks, i * PageSize)]
    BY <1>15, <2>2
  <2> QED BY <1>7, <1>15, <2>1, <2>3, <2>4, <2>5, <2>6 DEF RowOf
<1>23. ReqInv'
  <2>1. ASSUME NEW s \in Active', s # r PROVE RowOf(s)'
    <3>1. s \in Active /\ req'[s] = req[s]
      BY <1>12, <1>16, <2>1 DEF Active
    <3>2. nodes \subseteq nodes' /\ \A q \in DOMAIN value : value'[q] = value[q]
      BY <1>11
    <3> QED BY <1>1, <3>1, <3>2, KeptRow
  <2> QED BY <1>11, <1>14, <1>22, <2>1 DEF ReqInv
<1>24. /\ \A s \in Active : s # r => OwnAt(s)' = OwnAt(s) /\ Own(s)' = Own(s)
                                        /\ req'[s].row = req[s].row
       /\ OwnAt(r)' = {i \in 1 .. Len(row) : i * PageSize > req[r].hlen}
  BY <1>12, <1>15 DEF Active, OwnAt, Own
<1>25. \A p : Contains(pages, p) <=> \E i \in 1 .. Len(pages) : pages[i] = p
  BY DEF Contains
<1>26. ASSUME NEW i \in OwnAt(r)'
       PROVE  \/ i \in OwnAt(r) /\ row[i] = old[i]
              \/ /\ i > Len(old) /\ i - Len(old) \in 1 .. Len(pages)
                 /\ row[i] = pages[i - Len(old)]
  <2>1. i \in 1 .. Len(row) /\ i * PageSize > req[r].hlen
    BY <1>24
  <2>2. CASE i <= Len(old)
    BY <1>4, <1>8, <1>10, <2>1, <2>2 DEF OwnAt
  <2>3. CASE ~(i <= Len(old))
    BY <1>8, <1>9, <1>10, <2>1, <2>3
  <2> QED BY <2>2, <2>3
<1>27. \A p : p \in Own(r)' <=> \E i \in OwnAt(r)' : row[i] = p
  BY <1>15 DEF Own, OwnAt
<1>28. \A p : p \in Own(r)' <=> p \in Own(r) \/ Contains(pages, p)
  <2>1. ASSUME NEW p, p \in Own(r)' PROVE p \in Own(r) \/ Contains(pages, p)
    <3>1. PICK i \in OwnAt(r)' : row[i] = p
      BY <1>27, <2>1
    <3>2. CASE i \in OwnAt(r) /\ row[i] = old[i]
      BY <1>4, <3>1, <3>2 DEF Own, OwnAt
    <3>3. CASE i - Len(old) \in 1 .. Len(pages) /\ row[i] = pages[i - Len(old)]
      BY <1>25, <3>1, <3>3
    <3> QED BY <1>26, <3>2, <3>3
  <2>2. ASSUME NEW p, p \in Own(r) PROVE p \in Own(r)'
    <3>1. PICK i \in OwnAt(r) : old[i] = p
      BY <1>4, <2>2 DEF Own, OwnAt
    <3>2. i \in 1 .. Len(old) /\ i * PageSize > req[r].hlen
      BY <1>4 DEF OwnAt
    <3> QED BY <1>20, <1>24, <1>27, <3>1, <3>2
  <2>3. ASSUME NEW p, Contains(pages, p) PROVE p \in Own(r)'
    <3>1. PICK j \in 1 .. Len(pages) : pages[j] = p
      BY <1>25, <2>3
    <3> DEFINE i == Len(old) + j
    <3>2. i \in 1 .. Len(row) /\ i > Len(old) /\ i - Len(old) = j
      BY <1>8, <1>9, <1>10
    <3> HIDE DEF i
    <3>3. row[i] = p
      BY <1>8, <1>10, <3>1, <3>2
    <3>4. i * PageSize > req[r].hlen
      <4>1. i * PageSize > cached
        BY <1>8, <1>18, <1>19, <3>2
      <4> QED BY <1>8, <1>18, <3>2, <4>1
    <3> QED BY <1>24, <1>27, <3>2, <3>3, <3>4
  <2> QED BY <2>1, <2>2, <2>3
<1>29. /\ \A s \in Active : Own(s) \cap Range(value) = {}
       /\ \A s, z \in Active : s # z => Own(s) \cap Own(z) = {}
       /\ \A s \in Active : \A i, j \in OwnAt(s) : req[s].row[i] = req[s].row[j] => i = j
       /\ free \in [Page -> {0, 1}] /\ \A p \in Page : free[p] = 0 <=> Taken(p)
       /\ value \in [DOMAIN value -> Page] /\ IsInjective(value)
  BY <1>1 DEF PageInv
<1>30. \A p : Contains(pages, p) => p \in Page /\ free[p] = 1 /\ ~Taken(p)
  <2> SUFFICES ASSUME NEW p, Contains(pages, p) PROVE p \in Page /\ free[p] = 1 /\ ~Taken(p)
    OBVIOUS
  <2>1. PICK i \in 1 .. Len(pages) : pages[i] = p
    BY <1>25
  <2>2. p \in Page
    <3>1. \A j \in 1 .. Len(pages) : pages[j] \in Page
      BY <1>2, <1>3, <1>7, <1>9
    <3> QED BY <2>1, <3>1
  <2>3. \A j \in 1 .. Len(pages) : free[pages[j]] > 0
    BY <1>11
  <2>4. free[p] > 0
    BY <2>1, <2>3
  <2>5. free[p] \in {0, 1}
    BY <1>29, <2>2
  <2> QED BY <1>29, <2>2, <2>4, <2>5
<1>31. \A p : Taken(p)' <=> Taken(p) \/ Contains(pages, p)
  BY <1>7, <1>11, <1>16, <1>24, <1>28 DEF Taken
<1>32. \A i, j \in OwnAt(r)' : row[i] = row[j] => i = j
  <2> SUFFICES ASSUME NEW i \in OwnAt(r)', NEW j \in OwnAt(r)', row[i] = row[j] PROVE i = j
    OBVIOUS
  <2>1. i \in Nat /\ j \in Nat
    BY <1>18, <1>24
  <2>2. \A x, y \in 1 .. Len(pages) : pages[x] = pages[y] => x = y
    BY <1>9, <1>11, Injective
  <2>3. \A x \in OwnAt(r), y \in 1 .. Len(pages) : old[x] # pages[y]
    <3> SUFFICES ASSUME NEW x \in OwnAt(r), NEW y \in 1 .. Len(pages), old[x] = pages[y]
                 PROVE  FALSE
      OBVIOUS
    <3>1. old[x] \in Own(r)
      BY <1>4 DEF Own, OwnAt
    <3>2. Taken(old[x])
      BY <1>7, <3>1 DEF Taken
    <3> QED BY <1>25, <1>30, <3>2
  <2>4. \A x, y \in OwnAt(r) : old[x] = old[y] => x = y
    BY <1>4, <1>7, <1>29
  <2>5. CASE i \in OwnAt(r) /\ row[i] = old[i]
    <3>1. CASE j \in OwnAt(r) /\ row[j] = old[j]
      BY <2>4, <2>5, <3>1
    <3>2. CASE j - Len(old) \in 1 .. Len(pages) /\ row[j] = pages[j - Len(old)]
      BY <2>3, <2>5, <3>2
    <3> QED BY <1>26, <3>1, <3>2
  <2>6. CASE i - Len(old) \in 1 .. Len(pages) /\ row[i] = pages[i - Len(old)]
    <3>1. CASE j \in OwnAt(r) /\ row[j] = old[j]
      BY <2>3, <2>6, <3>1
    <3>2. CASE j - Len(old) \in 1 .. Len(pages) /\ row[j] = pages[j - Len(old)]
      <4>1. i - Len(old) = j - Len(old)
        BY <2>2, <2>6, <3>2
      <4> QED BY <1>8, <2>1, <4>1
    <3> QED BY <1>26, <3>1, <3>2
  <2> QED BY <1>26, <2>5, <2>6
<1>33. /\ \A s \in Active' : Own(s)' \cap Range(value) = {}
       /\ \A s, z \in Active' : s # z => Own(s)' \cap Own(z)' = {}
  <2>1. \A p : Contains(pages, p) => p \notin Range(value) /\ \A s \in Active : p \notin Own(s)
    BY <1>30 DEF Taken
  <2> QED BY <1>16, <1>24, <1>28, <1>29, <2>1
<1>34. PageInv'
  <2>1. ASSUME NEW p \in Page PROVE free'[p] \in {0, 1} /\ (free'[p] = 0 <=> Taken(p)')
    <3>1. free'[p] = free[p] - (IF Contains(pages, p) THEN 1 ELSE 0)
      BY <1>11
    <3> QED BY <1>29, <1>30, <1>31, <3>1
  <2>2. free' \in [Page -> {0, 1}]
    BY <1>11, <2>1
  <2>3. \A s \in Active' : \A i, j \in OwnAt(s)' : req'[s].row[i] = req'[s].row[j] => i = j
    <3>1. \A s \in Active' : s # r => s \in Active /\ OwnAt(s)' = OwnAt(s)
                                      /\ req'[s].row = req[s].row
      BY <1>16, <1>24
    <3> QED BY <1>15, <1>29, <1>32, <3>1
  <2> QED BY <1>11, <1>29, <1>33, <2>1, <2>2, <2>3 DEF PageInv
<1>35. CountInv'
  BY <1>1, <1>11, <1>16, <1>17, SameCounts
<1> DEFINE At(p) == {i \in 1 .. Len(row) : row[i] = p /\ i * PageSize > cached}
<1>36. \A p : At(p) # {} => p \in Own(r)'
  <2> SUFFICES ASSUME NEW p, NEW i \in At(p) PROVE p \in Own(r)'
    OBVIOUS
  <2>1. i \in 1 .. Len(row) /\ i * PageSize > req[r].hlen
    BY <1>8, <1>18
  <2> QED BY <1>24, <1>27, <2>1
<1>37. \A p \in Page : At(p) = {} => kv'[p] = kv[p]
  BY <1>11
<1>38. \A p \in Page : p \notin Own(r)' => kv'[p] = kv[p]
  BY <1>36, <1>37
<1>39. ASSUME NEW i \in 1 .. Len(row)
       PROVE  kv'[row[i]] = Upto(req[r].toks, IF i * PageSize < upto THEN i * PageSize ELSE upto)
  <2> DEFINE k == i * PageSize
  <2>1. k \in Nat /\ row[i] \in Page
    BY <1>10, <1>18
  <2>2. CASE k > cached
    <3>1. i \in OwnAt(r)'
      BY <1>8, <1>18, <1>24, <2>2
    <3>2. \A j \in At(row[i]) : j \in OwnAt(r)' /\ row[j] = row[i]
      BY <1>8, <1>18, <1>24
    <3>3. At(row[i]) = {i}
      BY <1>32, <2>2, <3>1, <3>2
    <3>4. Max({i}) = i
      <4>1. i \in Nat /\ {i} \in SUBSET Nat /\ {i} # {} /\ \A x \in {i} : x <= i
        BY <1>18
      <4>2. Max({i}) \in {i}
        BY <4>1, MaxIn
      <4> QED BY <4>2
    <3>5. kv'[row[i]] = Upto(req[r].toks, IF Max({i}) * PageSize > upto THEN upto
                                          ELSE Max({i}) * PageSize)
      BY <1>11, <2>1, <3>3
    <3>6. kv'[row[i]] = Upto(req[r].toks, IF k > upto THEN upto ELSE k)
      BY <3>4, <3>5
    <3>7. (IF k > upto THEN upto ELSE k) = (IF k < upto THEN k ELSE upto)
      <4> HIDE DEF k
      <4> QED BY <1>7, <2>1
    <3> QED BY <3>6, <3>7
  <2>3. CASE ~(k > cached)
    <3>1. i \in 1 .. Len(old) /\ row[i] = old[i]
      <4>1. k <= cached
        <5> HIDE DEF k
        <5> QED BY <1>8, <2>1, <2>3
      <4> QED BY <1>8, <1>18, <1>19, <1>20, <4>1
    <3>2. At(row[i]) = {}
      <4> SUFFICES ASSUME NEW j \in At(row[i]) PROVE FALSE
        OBVIOUS
      <4>1. j \in OwnAt(r)' /\ row[j] = row[i] /\ j * PageSize > cached
        BY <1>8, <1>18, <1>24
      <4>2. i # j
        BY <2>3, <4>1
      <4>3. i \notin OwnAt(r)'
        BY <1>32, <4>1, <4>2
      <4>4. ~(k > req[r].hlen)
        BY <1>24, <4>3
      <4>5. k <= req[r].hlen
        <5> HIDE DEF k
        <5> QED BY <1>8, <2>1, <4>4
      <4>6. /\ old[i] = value[Upto(req[r].toks, k)]
            /\ Upto(req[r].toks, k) \in DOMAIN value
        BY <1>1, <1>4, <1>7, <1>8, <3>1, <4>5, HandlePages DEF RowOf
      <4>7. old[i] \in Range(value)
        BY <4>6 DEF Range
      <4>8. row[i] \in Own(r)'
        BY <1>27, <4>1
      <4> QED BY <1>7, <1>16, <1>33, <3>1, <4>7, <4>8
    <3>3. kv'[row[i]] = kv[old[i]]
      BY <1>37, <2>1, <3>1, <3>2
    <3>4. kv[old[i]] = Upto(req[r].toks, IF k < cached THEN k ELSE cached)
      BY <1>1, <1>4, <1>6, <1>7, <3>1 DEF KVInPlace
    <3>5. (IF k < cached THEN k ELSE cached) = k /\ (IF k < upto THEN k ELSE upto) = k
      <4> HIDE DEF k
      <4> QED BY <1>7, <1>8, <2>1, <2>3
    <3> QED BY <3>3, <3>4, <3>5
  <2> QED BY <2>2, <2>3
<1> HIDE DEF At
<1>40. KVInPlace'
  <2>1. \A q \in DOMAIN value : kv'[value[q]] = q
    <3> SUFFICES ASSUME NEW q \in DOMAIN value PROVE kv'[value[q]] = q
      OBVIOUS
    <3>1. value[q] \in Range(value) /\ value[q] \in Page
      BY <1>29 DEF Range
    <3>2. value[q] \notin Own(r)'
      BY <1>7, <1>16, <1>33, <3>1
    <3> QED BY <1>1, <1>38, <3>1, <3>2 DEF KVInPlace
  <2>2. ASSUME NEW s \in Active, s # r, NEW i \in 1 .. Len(req[s].row)
        PROVE  kv'[req[s].row[i]] = kv[req[s].row[i]]
    <3>1. RowOf(s) /\ req[s].row \in Seq(Page) /\ req[s].hlen \in Nat /\ Len(req[s].row) \in Nat
      BY <1>1, RequestFacts
    <3>2. req[s].row[i] \in Page
      BY <3>1
    <3>3. req[s].row[i] \notin Own(r)'
      <4>1. CASE i * PageSize > req[s].hlen
        <5>1. req[s].row[i] \in Own(s)'
          BY <1>24, <2>2, <4>1 DEF Own
        <5> QED BY <1>7, <1>16, <1>33, <2>2, <5>1
      <4>2. CASE ~(i * PageSize > req[s].hlen)
        <5>1. i * PageSize <= req[s].hlen
          <6>1. i * PageSize \in Nat
            BY <3>1, Multiples
          <6> QED BY <3>1, <4>2, <6>1
        <5>2. /\ req[s].row[i] = value[Upto(req[s].toks, i * PageSize)]
              /\ Upto(req[s].toks, i * PageSize) \in DOMAIN value
          BY <1>1, <3>1, <5>1, HandlePages DEF RowOf
        <5>3. req[s].row[i] \in Range(value)
          BY <5>2 DEF Range
        <5> QED BY <1>7, <1>16, <1>33, <5>3
      <4> QED BY <4>1, <4>2
    <3> QED BY <1>38, <3>2, <3>3
  <2>3. ASSUME NEW s \in Active', NEW i \in 1 .. Len(req'[s].row)
        PROVE  kv'[req'[s].row[i]]
                  = Upto(req'[s].toks, IF i * PageSize < req'[s].cached THEN i * PageSize
                                       ELSE req'[s].cached)
    <3>1. CASE s = r
      BY <1>15, <1>39, <2>3, <3>1
    <3>2. CASE s # r
      <4>1. s \in Active /\ req'[s] = req[s]
        BY <1>12, <1>16, <3>2 DEF Active
      <4>2. kv'[req[s].row[i]] = kv[req[s].row[i]]
        BY <2>2, <2>3, <3>2, <4>1
      <4> QED BY <1>1, <2>3, <4>1, <4>2 DEF KVInPlace
    <3> QED BY <3>1, <3>2
  <2> QED BY <1>11, <2>1, <2>3 DEF KVInPlace
<1> QED BY <1>21, <1>23, <1>34, <1>35, <1>40 DEF IndInv

-----------------------------------------------------------------------------
(* The theorems *)

\* A step that changes nothing keeps the invariant.
LEMMA StutterInv == IndInv /\ UNCHANGED vars => IndInv'
<1> SUFFICES ASSUME IndInv, UNCHANGED vars PROVE IndInv'
  OBVIOUS
<1>1. UNCHANGED <<nodes, ref, value, evictable, protected, free, req, alloc, kv>>
  BY DEF vars, treeVars
<1>2. TreeInv /\ ReqInv /\ PageInv /\ CountInv /\ KVInPlace
  BY DEF IndInv
<1>3. /\ Active' = Active /\ (\A s : Handle(s)' = Handle(s)) /\ (\A q : Locks(q)' = Locks(q))
      /\ (\A s : Own(s)' = Own(s) /\ OwnAt(s)' = OwnAt(s)) /\ (\A p : Taken(p)' <=> Taken(p))
      /\ (\A s : RowOf(s)' <=> RowOf(s))
  BY <1>1 DEF Active, Handle, Locks, Lockers, Own, OwnAt, Taken, RowOf
<1>4. TreeInv' /\ CountInv' /\ KVInPlace'
  BY <1>1, <1>2, <1>3 DEF TreeInv, CountInv, KVInPlace
<1>5. ReqInv'
  BY <1>1, <1>2, <1>3 DEF ReqInv
<1>6. PageInv'
  BY <1>1, <1>2, <1>3 DEF PageInv
<1> QED BY <1>4, <1>5, <1>6 DEF IndInv

\* Every operation of the cache keeps the tree, the rows, the owners of the pages, the counters
\* and the KV together.
LEMMA Inductive == Spec => []IndInv
<1>1. Init => IndInv
  BY InitInv
<1>2. IndInv /\ [Next]_vars => IndInv'
  <2> SUFFICES ASSUME IndInv, [Next]_vars PROVE IndInv'
    OBVIOUS
  <2>1. CASE UNCHANGED vars
    BY <2>1, StutterInv
  <2>2. ASSUME NEW r \in Req, NEW ids \in Prompts, NEW out \in OutLens, Admit(r, ids, out)
        PROVE  IndInv'
    BY <2>2, AdmitInv
  <2>3. ASSUME NEW r \in Req, NEW n \in 1 .. req[r].plen, Prefill(r, n) PROVE IndInv'
    BY <2>3, PrefillInv
  <2>4. ASSUME NEW r \in Req, NEW t \in Tok, Decode(r, t) PROVE IndInv'
    BY <2>4, DecodeInv
  <2>5. ASSUME NEW n \in nodes, EvictOne(n) PROVE IndInv'
    BY <2>5, EvictInv
  <2>6. ASSUME alloc # NoAlloc, NEW pages \in [1 .. PagesFor(alloc.req, alloc.upto) -> Page],
               Extend(pages)
        PROVE  IndInv'
    BY <2>6, ExtendInv
  <2>7. ASSUME NEW r \in Req, Commit(r) PROVE IndInv'
    <3>1. CASE r \in Multimodal
      BY <2>7, <3>1, CommitMultimodalInv
    <3>2. CASE r \notin Multimodal
      BY <2>7, <3>2, CommitInv
    <3> QED BY <3>1, <3>2
  <2>8. ASSUME NEW r \in Req, Finish(r) PROVE IndInv'
    <3>1. CASE r \in Multimodal
      BY <2>8, <3>1, FinishMultimodalInv
    <3>2. CASE r \notin Multimodal
      BY <2>8, <3>2, FinishInv
    <3> QED BY <3>1, <3>2
  <2> QED BY <2>1, <2>2, <2>3, <2>4, <2>5, <2>6, <2>7, <2>8 DEF Next
<1> QED BY <1>1, <1>2, PTL DEF Spec

\* Types; the two sizes never go below zero.
THEOREM TypeCorrect == Spec => []TypeOK
<1>1. IndInv => TypeOK
  <2> SUFFICES ASSUME IndInv PROVE TypeOK
    OBVIOUS
  <2>1. TreeInv /\ PageInv /\ CountInv
    BY DEF IndInv
  <2>2. nodes \subseteq DOMAIN value /\ DOMAIN value \subseteq Seq(Tok)
    BY <2>1, TreeOrder DEF TreeInv
  <2>3. nodes \subseteq Seq(Tok) /\ DOMAIN value \subseteq Seq(Tok)
    BY <2>2
  <2>4. Range(value) \subseteq Page /\ free \in [Page -> Nat]
    BY <2>1 DEF PageInv, Range
  <2>5. evictable \in Nat /\ protected \in Nat /\ ref \in [nodes -> Nat]
    BY <2>1, SizesNat DEF CountInv
  <2> QED BY <2>3, <2>4, <2>5 DEF TypeOK
<1> QED BY <1>1, Inductive, PTL

\* A page is on the free list, or in the tree, or one request's.
THEOREM PagesOwnedOnce == Spec => []PagesPartitioned
<1>1. IndInv => PagesPartitioned
  <2> SUFFICES ASSUME IndInv, NEW p \in Page
               PROVE  free[p] + Cardinality({q \in DOMAIN value : value[q] = p})
                              + Cardinality({r \in Active : p \in Own(r)}) = 1
    BY DEF PagesPartitioned
  <2> DEFINE tree == {q \in DOMAIN value : value[q] = p}
             owners == {r \in Active : p \in Own(r)}
  <2>1. /\ \A q, z \in DOMAIN value : value[q] = value[z] => q = z
        /\ \A r \in Active : Own(r) \cap Range(value) = {}
        /\ \A r, s \in Active : r # s => Own(r) \cap Own(s) = {}
        /\ free[p] \in {0, 1} /\ (free[p] = 0 <=> Taken(p))
    BY DEF IndInv, PageInv, IsInjective
  <2>2. p \in Range(value) <=> tree # {}
    BY DEF Range
  <2>3. Taken(p) <=> tree # {} \/ owners # {}
    BY <2>2 DEF Taken
  <2>4. tree = {} \/ owners = {}
    BY <2>1, <2>2
  <2>5. tree = {} \/ \E q : tree = {q}
    BY <2>1
  <2>6. owners = {} \/ \E r : owners = {r}
    BY <2>1
  <2> HIDE DEF tree, owners
  <2>7. \A S : (S = {} => Cardinality(S) = 0) /\ ((\E x : S = {x}) => Cardinality(S) = 1)
    BY FS_EmptySet, FS_Singleton
  <2>8. tree # {} => Cardinality(tree) = 1
    BY <2>5, <2>7
  <2>9. owners # {} => Cardinality(owners) = 1
    BY <2>6, <2>7
  <2>10. (tree = {} => Cardinality(tree) = 0) /\ (owners = {} => Cardinality(owners) = 0)
    BY <2>7
  <2>11. free[p] + Cardinality(tree) + Cardinality(owners) = 1
    BY <2>1, <2>3, <2>4, <2>8, <2>9, <2>10
  <2> QED BY <2>11 DEF tree, owners
<1> QED BY <1>1, Inductive, PTL

\* Attention reads the KV of the request's own tokens.
THEOREM RowsReadOwnKV == Spec => []KVInPlace
<1>1. IndInv => KVInPlace
  BY DEF IndInv
<1> QED BY <1>1, Inductive, PTL

\* The two sizes together are the tokens in the tree.
LEMMA TreeTokens ==
    ASSUME TreeInv, CountInv
    PROVE  evictable + protected = PageSize * Cardinality(DOMAIN value)
<1> DEFINE A == {q \in DOMAIN value : Locks(q) = 0}
           B == {q \in DOMAIN value : Locks(q) > 0}
<1>1. IsFiniteSet(DOMAIN value)
  BY DEF TreeInv, TreeOf
<1>2. IsFiniteSet(A) /\ IsFiniteSet(B)
  BY <1>1, FS_Subset
<1>3. A \cap B = {}
  OBVIOUS
<1>4. A \cup B = DOMAIN value
  BY LockersFinite
<1>5. evictable = PageSize * Cardinality(A) /\ protected = PageSize * Cardinality(B)
  BY DEF CountInv
<1> HIDE DEF A, B
<1>6. /\ Cardinality(DOMAIN value) = Cardinality(A) + Cardinality(B)
      /\ Cardinality(A) \in Nat /\ Cardinality(B) \in Nat
  BY <1>2, <1>3, <1>4, CardParts
<1>7. PageSize * (Cardinality(A) + Cardinality(B))
         = PageSize * Cardinality(A) + PageSize * Cardinality(B)
  BY <1>6, Multiples
<1> QED BY <1>5, <1>6, <1>7

\* ref_count, evictable_size and protected_size are what the handles and the tree say.
THEOREM CountersOfTree == Spec => []CountersMatchTree
<1>1. IndInv => CountersMatchTree
  <2> SUFFICES ASSUME IndInv PROVE CountersMatchTree
    OBVIOUS
  <2>1. TreeInv /\ ReqInv /\ CountInv
    BY DEF IndInv
  <2>2. TreeOf(nodes, DOMAIN value)
    BY <2>1 DEF TreeInv
  <2>3. Counts(nodes, DOMAIN value, ref, LockMap)
    BY <2>1, RefCounts DEF LockMap
  <2>4. \A q \in DOMAIN value : LockMap[q] = Locks(q)
    BY DEF LockMap
  <2>5. /\ {q \in DOMAIN value : LockMap[q] = 0} = {q \in DOMAIN value : Locks(q) = 0}
        /\ {q \in DOMAIN value : LockMap[q] > 0} = {q \in DOMAIN value : Locks(q) > 0}
    BY <2>4
  <2>6. /\ KeyTokens(nodes, {n \in nodes : ref[n] = 0})
              = PageSize * Cardinality({q \in DOMAIN value : LockMap[q] = 0})
        /\ KeyTokens(nodes, {n \in nodes : ref[n] > 0})
              = PageSize * Cardinality({q \in DOMAIN value : LockMap[q] > 0})
    BY <2>2, <2>3, CountedSum
  <2>7. /\ evictable = KeyTokens(nodes, {n \in nodes : ref[n] = 0})
        /\ protected = KeyTokens(nodes, {n \in nodes : ref[n] > 0})
    BY <2>1, <2>5, <2>6 DEF CountInv
  <2>8. \A n \in nodes :
           ref[n] = Cardinality({r \in Active : IsPrefix(n, Upto(req[r].toks, req[r].hlen))})
    BY <2>1 DEF CountInv, Locks, Lockers, Handle
  <2>9. evictable + protected = PageSize * Cardinality(DOMAIN value)
    BY <2>1, TreeTokens
  <2> QED BY <2>7, <2>8, <2>9 DEF CountersMatchTree
<1> QED BY <1>1, Inductive, PTL
-----------------------------------------------------------------------------
(* Eviction finds what admission promised *)

\* The three shares of a request, and what a request that never ran has of them
LEMMA Shares ==
    ASSUME ReqInv
    PROVE  /\ \A r \in Req : Demand(r) \in Nat /\ Held(r) \in Nat /\ Need(r) \in Nat
           /\ \A r \in Req : Demand(r) = Need(r) + Held(r)
           /\ \A r \in Req : ~req[r].active => Demand(r) = 0 /\ Held(r) = 0 /\ Need(r) = 0
<1> SUFFICES ASSUME NEW r \in Req
             PROVE  /\ Demand(r) \in Nat /\ Held(r) \in Nat /\ Need(r) \in Nat
                    /\ Demand(r) = Need(r) + Held(r)
                    /\ ~req[r].active => Demand(r) = 0 /\ Held(r) = 0 /\ Need(r) = 0
  OBVIOUS
<1>1. CASE ~req[r].active
  BY <1>1 DEF Demand, Held, Need
<1>2. CASE req[r].active
  <2>1. r \in Active
    BY <1>2 DEF Active
  <2>2. /\ RowOf(r) /\ req[r].cached \in Nat /\ req[r].max \in Nat /\ req[r].hlen \in Nat
        /\ req[r].hlen <= req[r].cached
    BY <2>1, RequestFacts
  <2>3. req[r].cached < req[r].max /\ Len(req[r].row) = DivCeil(req[r].cached, PageSize)
    BY <2>2 DEF RowOf
  <2>4. req[r].max - 1 \in Nat /\ req[r].cached <= req[r].max - 1
    BY <2>2, <2>3
  <2> DEFINE c == DivCeil(req[r].cached, PageSize)
             d == DivCeil(req[r].max - 1, PageSize)
  <2>5. c \in Nat /\ req[r].cached <= c * PageSize
    BY <2>2, DivCeilFacts
  <2>6. d \in Nat
    BY <2>4, DivCeilFacts
  <2>7. c <= d
    BY <2>2, <2>4, DivCeilLe
  <2>8. /\ Demand(r) = d * PageSize - req[r].hlen /\ Held(r) = c * PageSize - req[r].hlen
        /\ Need(r) = d * PageSize - c * PageSize
    BY <1>2, <2>3 DEF Demand, Held, Need
  <2> HIDE DEF c, d
  <2>9. c * PageSize \in Nat /\ d * PageSize \in Nat /\ c * PageSize <= d * PageSize
    BY <2>5, <2>6, <2>7, Multiples
  <2> DEFINE x == c * PageSize
             y == d * PageSize
  <2> HIDE DEF x, y
  <2>10. x \in Nat /\ y \in Nat /\ x <= y /\ req[r].cached <= x
    BY <2>5, <2>9 DEF x, y
  <2>11. Demand(r) = y - req[r].hlen /\ Held(r) = x - req[r].hlen /\ Need(r) = y - x
    BY <2>8 DEF x, y
  <2> QED BY <1>2, <2>2, <2>10, <2>11
<1> QED BY <1>1, <1>2

\* The pages of a request's own
LEMMA OwnCount ==
    ASSUME ReqInv, PageInv, NEW r \in Active
    PROVE  /\ Own(r) \in SUBSET Page /\ IsFiniteSet(Own(r)) /\ Cardinality(Own(r)) \in Nat
           /\ Cardinality(Own(r)) * PageSize = Held(r)
<1>1. /\ RowOf(r) /\ req[r].row \in Seq(Page) /\ Len(req[r].row) \in Nat /\ req[r].cached \in Nat
      /\ req[r].hlen \in Nat /\ req[r].hlen <= req[r].cached /\ Aligned(req[r].hlen)
  BY RequestFacts
<1>2. PICK k \in Nat : req[r].hlen = k * PageSize
  BY <1>1, AlignedPages, Division
<1>3. PICK n \in Nat : n = Len(req[r].row)
  BY <1>1
<1>4. req[r].cached <= n * PageSize
  BY <1>1, <1>3, DivCeilFacts DEF RowOf
<1>5. k <= n
  <2>1. k * PageSize \in Nat /\ n * PageSize \in Nat /\ k * PageSize <= n * PageSize
    BY <1>1, <1>2, <1>4, Multiples
  <2> QED BY <2>1, Multiples
<1>6. OwnAt(r) = k + 1 .. n
  <2>1. ASSUME NEW i \in 1 .. n PROVE i * PageSize > k * PageSize <=> i \in k + 1 .. n
    <3>1. i \in Nat /\ i * PageSize \in Nat /\ k * PageSize \in Nat
      BY Multiples
    <3>2. k < i <=> k * PageSize < i * PageSize
      BY <3>1, Multiples
    <3> QED BY <3>1, <3>2
  <2>2. OwnAt(r) = {i \in 1 .. n : i * PageSize > k * PageSize}
    BY <1>2, <1>3 DEF OwnAt
  <2>3. \A i \in k + 1 .. n : i \in 1 .. n
    OBVIOUS
  <2> QED BY <2>1, <2>2, <2>3
<1>7. IsFiniteSet(OwnAt(r)) /\ Cardinality(OwnAt(r)) = n - k
  <2>1. k + 1 \in Int /\ n \in Int
    OBVIOUS
  <2>2. IsFiniteSet(k + 1 .. n)
        /\ Cardinality(k + 1 .. n) = IF k + 1 > n THEN 0 ELSE n - (k + 1) + 1
    BY <2>1, FS_Interval
  <2>3. (IF k + 1 > n THEN 0 ELSE n - (k + 1) + 1) = n - k
    BY <1>5
  <2> QED BY <1>6, <2>2, <2>3
<1>8. Own(r) \in SUBSET Page
  BY <1>1 DEF Own
<1>9. ExistsBijection(OwnAt(r), Own(r))
  <2> DEFINE f == [i \in OwnAt(r) |-> req[r].row[i]]
  <2>1. \A p : p \in Own(r) <=> \E i \in OwnAt(r) : f[i] = p
    BY DEF Own, OwnAt
  <2>2. \A i, j \in OwnAt(r) : f[i] = f[j] => i = j
    BY DEF PageInv
  <2>3. f \in [OwnAt(r) -> Own(r)]
    BY <2>1
  <2> HIDE DEF f
  <2>4. f \in Bijection(OwnAt(r), Own(r))
    BY <2>1, <2>2, <2>3 DEF Bijection, Injection, Surjection, IsInjective
  <2> QED BY <2>4 DEF ExistsBijection
<1>10. IsFiniteSet(Own(r)) /\ Cardinality(Own(r)) = n - k
  BY <1>7, <1>9, FS_Bijection
<1>11. (n - k) * PageSize = n * PageSize - k * PageSize /\ n - k \in Nat
  BY <1>5, Multiples
<1>12. Held(r) = n * PageSize - k * PageSize
  BY <1>2, <1>3 DEF Held, Active
<1> QED BY <1>8, <1>10, <1>11, <1>12

\* The pages that requests of T own
OwnedBy(T) == {p \in Page : \E r \in T : r \in Active /\ p \in Own(r)}

\* All requests together hold their pages, each of them one owner's.
LEMMA OwnedPages ==
    ASSUME ReqInv, PageInv
    PROVE  /\ SumFunction(Holds) = Cardinality(OwnedBy(Req)) * PageSize
           /\ IsFiniteSet(OwnedBy(Req)) /\ Cardinality(OwnedBy(Req)) \in Nat
<1> DEFINE G == [T \in SUBSET Req |-> Cardinality(OwnedBy(T)) * PageSize]
<1>1. IsFiniteSet(Req) /\ IsFiniteSet(Page)
  BY RadixConstants
<1>2. \A T : IsFiniteSet(OwnedBy(T)) /\ Cardinality(OwnedBy(T)) \in Nat
  <2>1. \A T : OwnedBy(T) \in SUBSET Page
    BY DEF OwnedBy
  <2> QED BY <1>1, <2>1, FS_Subset, FS_CardinalityType
<1>3. \A r \in Req : Holds[r] \in Int
  BY Shares DEF Holds
<1>4. G[{}] = 0
  <2>1. OwnedBy({}) = {}
    BY DEF OwnedBy
  <2>2. Cardinality(OwnedBy({})) = 0
    BY <2>1, FS_EmptySet
  <2>3. 0 * PageSize = 0
    BY Multiples
  <2> QED BY <2>2, <2>3
<1>5. ASSUME NEW T \in SUBSET Req, NEW r \in T PROVE G[T] = Holds[r] + G[T \ {r}]
  <2> DEFINE U == T \ {r}
  <2>1. G[T] = Cardinality(OwnedBy(T)) * PageSize /\ G[U] = Cardinality(OwnedBy(U)) * PageSize
    OBVIOUS
  <2>2. Holds[r] = Held(r)
    BY DEF Holds
  <2>3. CASE r \in Active
    <3>1. /\ Own(r) \in SUBSET Page /\ IsFiniteSet(Own(r)) /\ Cardinality(Own(r)) \in Nat
          /\ Cardinality(Own(r)) * PageSize = Held(r)
      BY <2>3, OwnCount
    <3>2. OwnedBy(T) = Own(r) \cup OwnedBy(U)
      BY <2>3, <3>1 DEF OwnedBy
    <3>3. Own(r) \cap OwnedBy(U) = {}
      BY <2>3 DEF OwnedBy, PageInv
    <3>4. IsFiniteSet(OwnedBy(U)) /\ Cardinality(OwnedBy(U)) \in Nat
      BY <1>2
    <3> HIDE DEF G, U
    <3>5. Cardinality(OwnedBy(T)) = Cardinality(Own(r)) + Cardinality(OwnedBy(U))
      BY <3>1, <3>2, <3>3, <3>4, CardParts
    <3>6. (Cardinality(Own(r)) + Cardinality(OwnedBy(U))) * PageSize
             = Cardinality(Own(r)) * PageSize + Cardinality(OwnedBy(U)) * PageSize
      BY <3>1, <3>4, Multiples
    <3>7. G[T] = Held(r) + G[U]
      BY <2>1, <3>1, <3>5, <3>6
    <3> QED BY <2>2, <3>7 DEF U
  <2>4. CASE r \notin Active
    <3>1. OwnedBy(T) = OwnedBy(U)
      BY <2>4 DEF OwnedBy
    <3>2. Held(r) = 0
      BY <2>4 DEF Held, Active
    <3>3. Cardinality(OwnedBy(U)) * PageSize \in Nat
      BY <1>2, Multiples
    <3> HIDE DEF G, U
    <3>4. G[T] = Held(r) + G[U]
      BY <2>1, <3>1, <3>2, <3>3
    <3> QED BY <2>2, <3>4 DEF U
  <2> QED BY <2>3, <2>4
<1>6. \A T \in SUBSET Req : \A r \in T : G[T \ {r}] \in Int => G[T] = Holds[r] + G[T \ {r}]
  BY <1>5
<1>7. G[Req] = Cardinality(OwnedBy(Req)) * PageSize
  OBVIOUS
<1>8. DOMAIN Holds = Req
  BY DEF Holds
<1> HIDE DEF G
<1>9. G[Req] = SumFunctionOnSet(Holds, Req)
  BY <1>1, <1>3, <1>4, <1>6, SumUnique
<1> QED BY <1>2, <1>7, <1>8, <1>9 DEF SumFunction

\* The free list
Unused == {p \in Page : free[p] = 1}

\* It holds every free page once.
LEMMA FreePagesCount ==
    ASSUME PageInv
    PROVE  FreeCount = Cardinality(Unused) /\ IsFiniteSet(Unused) /\ FreeCount \in Nat
<1> DEFINE part(T) == {p \in T : free[p] = 1}
           G == [T \in SUBSET Page |-> Cardinality(part(T))]
<1>1. IsFiniteSet(Page) /\ free \in [Page -> {0, 1}]
  BY RadixConstants DEF PageInv
<1>2. \A T \in SUBSET Page : IsFiniteSet(part(T)) /\ Cardinality(part(T)) \in Nat
  <2>1. \A T \in SUBSET Page : part(T) \in SUBSET Page
    OBVIOUS
  <2> HIDE DEF part
  <2> QED BY <1>1, <2>1, FS_Subset, FS_CardinalityType
<1>3. \A p \in Page : free[p] \in Int
  BY <1>1
<1>4. G[{}] = 0
  <2>1. part({}) = {}
    OBVIOUS
  <2>2. Cardinality(part({})) = 0
    BY <2>1, FS_EmptySet
  <2> QED BY <2>2
<1>5. ASSUME NEW T \in SUBSET Page, NEW p \in T PROVE G[T] = free[p] + G[T \ {p}]
  <2>1. CASE free[p] = 1
    <3>1. part(T) = part(T \ {p}) \cup {p} /\ p \notin part(T \ {p})
      BY <2>1
    <3>2. IsFiniteSet(part(T \ {p})) /\ Cardinality(part(T \ {p})) \in Nat
      BY <1>2
    <3>3. G[T] = Cardinality(part(T)) /\ G[T \ {p}] = Cardinality(part(T \ {p}))
      OBVIOUS
    <3> HIDE DEF part, G
    <3>4. Cardinality(part(T)) = Cardinality(part(T \ {p})) + 1
      BY <3>1, <3>2, FS_AddElement
    <3> QED BY <2>1, <3>2, <3>3, <3>4
  <2>2. CASE free[p] = 0
    <3>1. part(T) = part(T \ {p})
      BY <2>2
    <3>2. Cardinality(part(T \ {p})) \in Nat
      BY <1>2
    <3>3. G[T] = Cardinality(part(T)) /\ G[T \ {p}] = Cardinality(part(T \ {p}))
      OBVIOUS
    <3> HIDE DEF part, G
    <3> QED BY <2>2, <3>1, <3>2, <3>3
  <2>3. free[p] \in {0, 1}
    BY <1>1
  <2> QED BY <2>1, <2>2, <2>3
<1>6. \A T \in SUBSET Page : \A p \in T : G[T \ {p}] \in Int => G[T] = free[p] + G[T \ {p}]
  BY <1>5
<1>7. G[Page] = Cardinality(Unused)
  BY DEF Unused
<1>8. IsFiniteSet(Unused) /\ Cardinality(Unused) \in Nat
  BY <1>2 DEF Unused
<1>9. DOMAIN free = Page
  BY <1>1
<1> HIDE DEF G, part
<1>10. G[Page] = SumFunctionOnSet(free, Page)
  BY <1>1, <1>3, <1>4, <1>6, SumUnique
<1> QED BY <1>7, <1>8, <1>9, <1>10 DEF FreeCount, SumFunction

\* What is available is the pool less the locked prefixes and the pages of running requests.
LEMMA PoolSplit ==
    ASSUME IndInv
    PROVE  /\ Available = Cardinality(Page) * PageSize - protected - SumFunction(Holds)
           /\ Cardinality(Page) \in Nat /\ SumFunction(Holds) \in Nat /\ FreeCount \in Nat
<1>1. TreeInv /\ ReqInv /\ PageInv /\ CountInv
  BY DEF IndInv
<1> DEFINE tree == Range(value)
           own == OwnedBy(Req)
<1>2. /\ SumFunction(Holds) = Cardinality(own) * PageSize
      /\ IsFiniteSet(own) /\ Cardinality(own) \in Nat
  BY <1>1, OwnedPages
<1>3. FreeCount = Cardinality(Unused) /\ IsFiniteSet(Unused) /\ FreeCount \in Nat
  BY <1>1, FreePagesCount
<1>4. IsFiniteSet(tree) /\ Cardinality(tree) = Cardinality(DOMAIN value)
  <2>1. value \in [DOMAIN value -> tree] /\ IsInjective(value)
        /\ \A p \in tree : \E q \in DOMAIN value : value[q] = p
    BY <1>1 DEF PageInv, Range
  <2>2. value \in Bijection(DOMAIN value, tree)
    <3> HIDE DEF tree
    <3> QED BY <2>1 DEF Bijection, Injection, Surjection, IsInjective
  <2>3. ExistsBijection(DOMAIN value, tree)
    BY <2>2 DEF ExistsBijection
  <2>4. IsFiniteSet(DOMAIN value)
    BY <1>1 DEF TreeInv, TreeOf
  <2> HIDE DEF tree
  <2> QED BY <2>3, <2>4, FS_Bijection
<1>5. \A p \in own : \E r \in Active : p \in Own(r)
  BY DEF OwnedBy
<1>6. \A p \in Page : Taken(p) <=> p \in tree \/ p \in own
  BY DEF Taken, OwnedBy, Active
<1>7. tree \subseteq Page /\ own \subseteq Page /\ tree \cap own = {}
  BY <1>1, <1>5 DEF PageInv, Range, OwnedBy
<1>8. \A p \in Page : free[p] \in {0, 1} /\ (free[p] = 0 <=> Taken(p))
  BY <1>1 DEF PageInv
<1>9. Page = (tree \cup own) \cup Unused /\ (tree \cup own) \cap Unused = {}
  BY <1>6, <1>7, <1>8 DEF Unused
<1>10. evictable + protected = PageSize * Cardinality(DOMAIN value)
  BY <1>1, TreeTokens
<1> HIDE DEF tree, own
<1>11. /\ Cardinality(tree \cup own) = Cardinality(tree) + Cardinality(own)
       /\ IsFiniteSet(tree \cup own) /\ Cardinality(tree) \in Nat
  BY <1>2, <1>4, <1>7, CardParts
<1>12. Cardinality(Page) = Cardinality(tree) + Cardinality(own) + Cardinality(Unused)
  BY <1>3, <1>9, <1>11, CardParts
<1> DEFINE c == Cardinality(tree)
           o == Cardinality(own)
<1>13. c \in Nat /\ o \in Nat /\ c + o \in Nat /\ FreeCount \in Nat
  BY <1>2, <1>3, <1>11
<1>14. /\ Cardinality(Page) = c + o + FreeCount /\ SumFunction(Holds) = o * PageSize
       /\ evictable + protected = c * PageSize
  <2>1. PageSize * c = c * PageSize
    BY <1>13, Multiples
  <2> QED BY <1>2, <1>3, <1>4, <1>10, <1>12, <2>1
<1> HIDE DEF c, o
<1>15. (c + o + FreeCount) * PageSize = c * PageSize + o * PageSize + FreeCount * PageSize
  <2>1. (c + o + FreeCount) * PageSize = (c + o) * PageSize + FreeCount * PageSize
    BY <1>13, Multiples
  <2>2. (c + o) * PageSize = c * PageSize + o * PageSize
    BY <1>13, Multiples
  <2> QED BY <2>1, <2>2
<1>16. c * PageSize \in Nat /\ o * PageSize \in Nat /\ FreeCount * PageSize \in Nat
  BY <1>13, Multiples
<1>17. evictable \in Nat /\ protected \in Nat
  BY <1>1, SizesNat
<1>18. Available = evictable + FreeCount * PageSize
  BY DEF Available
<1> DEFINE x == c * PageSize
           y == o * PageSize
           z == FreeCount * PageSize
           all == Cardinality(Page) * PageSize
           hold == SumFunction(Holds)
<1>19. /\ x \in Nat /\ y \in Nat /\ z \in Nat /\ all = x + y + z
       /\ evictable + protected = x /\ hold = y /\ Available = evictable + z
  BY <1>14, <1>15, <1>16, <1>18
<1>20. Cardinality(Page) \in Nat
  BY <1>13, <1>14
<1> HIDE DEF x, y, z, all, hold
<1>21. Available = all - protected - hold /\ hold \in Nat
  BY <1>17, <1>19
<1> QED BY <1>13, <1>20, <1>21 DEF all, hold

\* The three sums
LEMMA SumShares ==
    ASSUME ReqInv
    PROVE  /\ SumFunction(Demands) \in Nat /\ SumFunction(Needs) \in Nat
           /\ SumFunction(Holds) \in Nat
           /\ SumFunction(Demands) = SumFunction(Needs) + SumFunction(Holds)
           /\ \A r \in Req : Need(r) \in Nat /\ Need(r) <= SumFunction(Needs)
<1>1. IsFiniteSet(Req)
  BY RadixConstants
<1>2. /\ DOMAIN Demands = Req /\ DOMAIN Needs = Req /\ DOMAIN Holds = Req
      /\ \A r \in Req : Demands[r] = Demand(r) /\ Needs[r] = Need(r) /\ Holds[r] = Held(r)
  BY DEF Demands, Needs, Holds
<1>3. \A r \in Req : /\ Demands[r] \in Nat /\ Needs[r] \in Nat /\ Holds[r] \in Nat
                     /\ Demands[r] = Needs[r] + Holds[r]
  BY <1>2, Shares
<1>4. /\ SumFunctionOnSet(Demands, Req) \in Nat /\ SumFunctionOnSet(Needs, Req) \in Nat
      /\ SumFunctionOnSet(Holds, Req) \in Nat
  <2>1. SumFunctionOnSet(Demands, Req) \in Nat
    BY <1>1, <1>3, SumNat
  <2>2. SumFunctionOnSet(Needs, Req) \in Nat
    BY <1>1, <1>3, SumNat
  <2>3. SumFunctionOnSet(Holds, Req) \in Nat
    BY <1>1, <1>3, SumNat
  <2> QED BY <2>1, <2>2, <2>3
<1>5. SumFunctionOnSet(Demands, Req) = SumFunctionOnSet(Needs, Req) + SumFunctionOnSet(Holds, Req)
  BY <1>1, <1>3, SumPlus
<1>6. ASSUME NEW r \in Req PROVE Needs[r] <= SumFunctionOnSet(Needs, Req)
  <2>1. SumFunctionOnSet(Needs, Req) = Needs[r] + SumFunctionOnSet(Needs, Req \ {r})
    BY <1>1, <1>3, SumRemove
  <2>2. IsFiniteSet(Req \ {r}) /\ \A s \in Req \ {r} : Needs[s] \in Nat
    BY <1>1, <1>3, FS_Subset
  <2>3. SumFunctionOnSet(Needs, Req \ {r}) \in Nat
    BY <2>2, SumNat
  <2> QED BY <1>3, <2>1, <2>3
<1> QED BY <1>2, <1>3, <1>4, <1>5, <1>6 DEF SumFunction

\* With pages of at most two tokens, what admission counts for a running request covers the
\* pages it will still take.
LEMMA ClaimCovers ==
    ASSUME PageSize <= 2, ReqInv, NEW r \in Active
    PROVE  Claim(r) \in Int /\ Need(r) <= Claim(r)
<1>1. /\ RowOf(r) /\ req[r].cached \in Nat /\ req[r].max \in Nat /\ req[r].plen \in Nat
      /\ r \in Req
  BY RequestFacts
<1>2. req[r].cached < req[r].max /\ Len(req[r].row) = DivCeil(req[r].cached, PageSize)
  BY <1>1 DEF RowOf
<1>3. req[r].max - 1 \in Nat
  BY <1>1, <1>2
<1> DEFINE x == DivCeil(req[r].cached, PageSize) * PageSize
           y == DivCeil(req[r].max - 1, PageSize) * PageSize
<1>4. x \in Nat /\ req[r].cached <= x
  BY <1>1, DivCeilFacts, Multiples
<1>5. y \in Nat /\ y < req[r].max - 1 + PageSize
  <2>1. DivCeil(req[r].max - 1, PageSize) \in Nat /\ y < (req[r].max - 1) + PageSize
    BY <1>3, DivCeilFacts
  <2>2. y \in Nat
    BY <2>1, Multiples
  <2> HIDE DEF y
  <2> QED BY <1>1, <2>1, <2>2, RadixConstants
<1>6. Need(r) = y - x
  BY <1>2 DEF Need, Active
<1>7. PageSize \in {1, 2}
  BY RadixConstants
<1> HIDE DEF x, y
<1>8. CASE req[r].cached < req[r].plen
  <2>1. Claim(r) = req[r].max - req[r].cached
    BY <1>1, <1>8 DEF Claim
  <2> QED BY <1>1, <1>4, <1>5, <1>6, <1>7, <2>1
<1>9. CASE req[r].cached >= req[r].plen /\ req[r].max - req[r].cached > 1
  <2>1. Claim(r) = req[r].max - req[r].cached - 1 + (PageSize - 1)
    BY <1>1, <1>9 DEF Claim
  <2> QED BY <1>1, <1>4, <1>5, <1>6, <1>7, <2>1
<1>10. CASE req[r].cached >= req[r].plen /\ ~(req[r].max - req[r].cached > 1)
  <2>1. Claim(r) = 0
    BY <1>1, <1>10 DEF Claim
  <2>2. req[r].cached = req[r].max - 1
    BY <1>1, <1>2, <1>10
  <2>3. x = y
    BY <2>2 DEF x, y
  <2> QED BY <1>4, <1>6, <2>1, <2>3
<1> QED BY <1>1, <1>8, <1>9, <1>10

\* All of them together
LEMMA ReservedCovers ==
    ASSUME PageSize <= 2, ReqInv
    PROVE  ReservedSize \in Int /\ SumFunction(Needs) <= ReservedSize
<1> DEFINE f == [r \in Active |-> Claim(r)]
           g == [r \in Req |-> IF r \in Active THEN Claim(r) ELSE 0]
<1>1. IsFiniteSet(Req) /\ Active \subseteq Req
  BY RadixConstants DEF Active
<1>2. \A r \in Active : Claim(r) \in Int /\ Need(r) <= Claim(r)
  BY ClaimCovers
<1>3. \A r \in Req : Needs[r] = Need(r) /\ Need(r) \in Nat /\ (r \notin Active => Need(r) = 0)
  BY Shares DEF Needs, Active
<1>4. /\ DOMAIN f \subseteq Req /\ DOMAIN g = Req
      /\ \A r \in Req : g[r] \in Int /\ g[r] = IF r \in DOMAIN f THEN f[r] ELSE 0
  BY <1>1, <1>2
<1>5. \A r \in Req : Needs[r] \in Int /\ g[r] \in Int /\ Needs[r] <= g[r]
  BY <1>2, <1>3
<1>6. ReservedSize = SumFunction(f)
  BY DEF ReservedSize
<1>7. DOMAIN Needs = Req
  BY DEF Needs
<1> HIDE DEF f, g
<1>8. SumFunction(f) = SumFunction(g)
  BY <1>1, <1>4, SumExtends
<1>9. SumFunctionOnSet(Needs, Req) <= SumFunctionOnSet(g, Req)
  BY <1>1, <1>5, SumLe
<1>10. SumFunctionOnSet(g, Req) \in Int
  BY <1>1, <1>5, SumFirst
<1> QED BY <1>4, <1>6, <1>7, <1>8, <1>9, <1>10 DEF SumFunction

\* The locked prefixes
LockedPages == {q \in DOMAIN value : Locks(q) > 0}

\* protected_size is theirs.
LEMMA LockedTokens ==
    TreeInv /\ CountInv => /\ IsFiniteSet(LockedPages) /\ Cardinality(LockedPages) \in Nat
                           /\ protected = Cardinality(LockedPages) * PageSize
<1> SUFFICES ASSUME TreeInv, CountInv
             PROVE  /\ IsFiniteSet(LockedPages) /\ Cardinality(LockedPages) \in Nat
                    /\ protected = Cardinality(LockedPages) * PageSize
  OBVIOUS
<1>1. IsFiniteSet(DOMAIN value) /\ LockedPages \in SUBSET DOMAIN value
  BY DEF TreeInv, TreeOf, LockedPages
<1>2. IsFiniteSet(LockedPages) /\ Cardinality(LockedPages) \in Nat
  BY <1>1, FS_Subset, FS_CardinalityType
<1>3. protected = PageSize * Cardinality(LockedPages)
  BY DEF CountInv, LockedPages
<1> QED BY <1>2, <1>3, Multiples

\* What lies above a handle is cached and locked.
LEMMA AboveHandle ==
    ASSUME TreeInv, ReqInv, NEW s \in Active, NEW q \in Paths, IsPrefix(q, Handle(s))
    PROVE  q \in LockedPages
<1>1. s \in Lockers(q)
  BY DEF Lockers
<1>2. Locks(q) # 0 /\ Locks(q) \in Nat
  BY <1>1, LockersFinite, FS_EmptySet DEF Locks
<1>3. q \in DOMAIN value
  BY <1>2, LockedInTree
<1> QED BY <1>2, <1>3 DEF LockedPages

\* A locked prefix lies above a handle.
LockedHaveHandle == \A q \in LockedPages : \E s \in Active : IsPrefix(q, Handle(s))

\* Nothing else can have locked it.
LEMMA LockedAbove == LockedHaveHandle
<1> SUFFICES ASSUME NEW q \in LockedPages PROVE \E s \in Active : IsPrefix(q, Handle(s))
  BY DEF LockedHaveHandle
<1>1. Locks(q) > 0
  BY DEF LockedPages
<1>2. Lockers(q) # {}
  BY <1>1, FS_EmptySet DEF Locks
<1> QED BY <1>2 DEF Lockers

\* An empty pool of requests fits.
LEMMA InitFit == Init => FitInv
<1> SUFFICES ASSUME Init PROVE FitInv
  OBVIOUS
<1>1. \A r \in Req : Demands[r] = 0
  BY DEF Init, Idle, Demands, Demand
<1>2. DOMAIN Demands = Req /\ IsFiniteSet(Req) /\ IsFiniteSet(Page)
  BY RadixConstants DEF Demands
<1>3. SumFunctionOnSet(Demands, Req) = SumFunctionOnSet(Demands, {})
  <2>1. {} \in SUBSET Req /\ \A r \in Req : Demands[r] \in Int /\ (r \notin {} => Demands[r] = 0)
    BY <1>1
  <2> QED BY <1>2, <2>1, SumSupport
<1>4. SumFunctionOnSet(Demands, {}) = 0
  <2>1. \A r \in Req : Demands[r] \in Int
    BY <1>1
  <2> QED BY <1>2, <2>1, SumFirst
<1>5. protected = 0
  BY DEF Init
<1>6. Cardinality(Page) * PageSize \in Nat
  BY <1>2, FS_CardinalityType, Multiples
<1> QED BY <1>2, <1>3, <1>4, <1>5, <1>6 DEF FitInv, SumFunction

\* Chunks, decodes, evictions and allocations change nothing of what a request may come to hold.
LEMMA QuietFit ==
    ASSUME FitInv, protected' = protected,
           \A r \in Req : /\ req'[r].active = req[r].active /\ req'[r].max = req[r].max
                          /\ req'[r].hlen = req[r].hlen
    PROVE  FitInv'
<1>1. \A r \in Req : Demand(r)' = Demand(r)
  BY DEF Demand
<1>2. Demands' = Demands
  BY <1>1 DEF Demands
<1> QED BY <1>2 DEF FitInv

\* Demands are natural numbers.
DemandsNat == \A r \in Req : Demand(r) \in Nat

\* A handle is not longer than what was written.
LEMMA DemandType == ReqInv => DemandsNat
BY Shares DEF DemandsNat

\* A step of one request
LEMMA OneDemand ==
    ASSUME ReqInv, ReqInv', NEW r \in Req, \A s \in Req : s # r => req'[s] = req[s]
    PROVE  /\ SumFunction(Demands') = SumFunction(Demands) - Demand(r) + Demand(r)'
           /\ SumFunction(Demands) \in Nat /\ Demand(r) \in Nat
<1>1. IsFiniteSet(Req)
  BY RadixConstants
<1>2. \A s \in Req : s # r => Demand(s)' = Demand(s)
  BY DEF Demand
<1>3. /\ DOMAIN Demands = Req /\ DOMAIN Demands' = Req
      /\ \A s \in Req : Demands[s] = Demand(s) /\ Demands'[s] = Demand(s)'
  BY DEF Demands
<1>4. \A s \in Req : Demand(s) \in Nat
  BY DemandType DEF DemandsNat
<1>5. (ReqInv => DemandsNat)'
  BY DemandType, PTL
<1>6. \A s \in Req : Demand(s)' \in Nat
  BY <1>5 DEF DemandsNat
<1> DEFINE f == Demands
<1>7. PICK g : g = Demands'
  OBVIOUS
<1>8. g[r] \in Int /\ \A s \in Req : f[s] \in Int /\ (s # r => g[s] = f[s])
  BY <1>2, <1>3, <1>4, <1>6, <1>7
<1> HIDE DEF f
<1>9. SumFunctionOnSet(g, Req) = SumFunctionOnSet(f, Req) - f[r] + g[r]
  BY <1>1, <1>8, SumChange
<1>10. SumFunctionOnSet(Demands, Req) \in Nat
  BY <1>1, <1>3, <1>4, SumNat
<1> QED BY <1>3, <1>4, <1>7, <1>9, <1>10 DEF f, SumFunction

\* The end of a request gives its demand back and locks nothing.
LEMMA FinishFit ==
    ASSUME IndInv, IndInv', FitInv, NEW r \in Req, Finish(r)
    PROVE  FitInv'
<1>1. TreeInv /\ ReqInv /\ CountInv /\ TreeInv' /\ ReqInv' /\ CountInv' /\ r \in Active
  BY DEF IndInv, Finish
<1>2. /\ Active' = Active \ {r} /\ \A s \in Req : s # r => req'[s] = req[s]
  BY <1>1, EndedRequest DEF Finish
<1>3. LockedPages' \subseteq LockedPages
  <2> SUFFICES ASSUME NEW q \in LockedPages' PROVE q \in LockedPages
    OBVIOUS
  <2>1. q \in DOMAIN value' /\ DOMAIN value' \subseteq Paths
    BY <1>1 DEF LockedPages, TreeInv, TreeOf
  <2>2. LockedHaveHandle'
    BY LockedAbove, PTL
  <2>3. PICK s \in Active' : IsPrefix(q, Handle(s)')
    BY <2>2 DEF LockedHaveHandle
  <2>4. s \in Active /\ req'[s] = req[s]
    BY <1>2, <2>3 DEF Active
  <2>5. IsPrefix(q, Handle(s))
    BY <2>3, <2>4 DEF Handle
  <2>6. q \in Paths
    BY <2>1
  <2> QED BY <1>1, <2>4, <2>5, <2>6, AboveHandle
<1>4. protected' <= protected /\ protected \in Int /\ protected' \in Int
  <2>1. /\ IsFiniteSet(LockedPages) /\ Cardinality(LockedPages) \in Nat
        /\ protected = Cardinality(LockedPages) * PageSize
    BY <1>1, LockedTokens
  <2>2. (TreeInv /\ CountInv => /\ IsFiniteSet(LockedPages) /\ Cardinality(LockedPages) \in Nat
                                /\ protected = Cardinality(LockedPages) * PageSize)'
    BY LockedTokens, PTL
  <2>3. PICK new : new = LockedPages'
    OBVIOUS
  <2>4. /\ Cardinality(new) \in Nat /\ protected' = Cardinality(new) * PageSize
        /\ new \in SUBSET LockedPages
    BY <1>1, <1>3, <2>2, <2>3
  <2>5. Cardinality(new) <= Cardinality(LockedPages)
    BY <2>1, <2>4, FS_Subset
  <2> QED BY <2>1, <2>4, <2>5, Multiples
<1>5. /\ SumFunction(Demands') = SumFunction(Demands) - Demand(r) + Demand(r)'
      /\ SumFunction(Demands) \in Nat /\ Demand(r) \in Nat
  BY <1>1, <1>2, OneDemand
<1>6. Demand(r)' = 0
  BY <1>2 DEF Demand, Active
<1>7. Cardinality(Page) * PageSize \in Nat
  BY RadixConstants, FS_CardinalityType, Multiples
<1> QED BY <1>4, <1>5, <1>6, <1>7 DEF FitInv

\* The commit of a prefill turns pages of the request's own into locked ones.
LEMMA CommitFit ==
    ASSUME IndInv, IndInv', FitInv, NEW r \in Req, Commit(r), r \notin Multimodal
    PROVE  FitInv'
<1>1. TreeInv /\ ReqInv /\ CountInv /\ TreeInv' /\ ReqInv' /\ CountInv' /\ r \in Active
  BY DEF IndInv, Commit
<1>2. PICK ids : ids = InsertIds(req[r])
  OBVIOUS
<1>3. PICK toks : toks = req[r].toks
  OBVIOUS
<1>4. PICK h : h = req[r].hlen
  OBVIOUS
<1>5. PICK n : n = Len(ids)
  OBVIOUS
<1>6. /\ toks \in Seq(Tok) /\ Len(toks) \in Nat /\ h \in Nat /\ Aligned(h)
      /\ req[r].cached \in Nat /\ req[r].cached <= Len(toks)
  BY <1>1, <1>3, <1>4, RequestFacts
<1>7. /\ ids \in Seq(Tok) /\ n \in Nat /\ Aligned(n) /\ n <= req[r].cached /\ h <= n
      /\ IsPrefix(Handle(r), ids) /\ ids = Upto(toks, n)
  BY <1>1, <1>2, <1>3, <1>4, <1>5, InsertIdsFacts
<1>8. n <= Len(toks)
  BY <1>6, <1>7
<1>9. \E row : req' = [req EXCEPT ![r].row = row, ![r].hlen = n, ![r].committed = TRUE]
  BY <1>2, <1>5 DEF Commit
<1>10. /\ req \in [Req -> ReqType] /\ req[r] \in ReqType
  BY <1>1 DEF ReqInv
<1>11. /\ req'[r].active = req[r].active /\ req'[r].toks = toks /\ req'[r].max = req[r].max
       /\ req'[r].hlen = n /\ \A s \in Req : s # r => req'[s] = req[s]
  BY <1>3, <1>9, <1>10 DEF ReqType
<1>12. Active' = Active
  BY <1>11 DEF Active
<1> DEFINE more == Between(toks, h, n)
<1>13. /\ IsFiniteSet(more) /\ Cardinality(more) \in Nat /\ PageSize * Cardinality(more) = n - h
  BY <1>4, <1>6, <1>7, <1>8, BetweenCount
<1>14. LockedPages' \subseteq LockedPages \cup more
  <2> SUFFICES ASSUME NEW q \in LockedPages' PROVE q \in LockedPages \cup more
    OBVIOUS
  <2>1. q \in DOMAIN value' /\ DOMAIN value' \subseteq Paths
    BY <1>1 DEF LockedPages, TreeInv, TreeOf
  <2>2. q \in Paths /\ q \in Seq(Tok) /\ Len(q) \in Nat
    BY <2>1, PathsType
  <2>3. LockedHaveHandle'
    BY LockedAbove, PTL
  <2>4. PICK s \in Active' : IsPrefix(q, Handle(s)')
    BY <2>3 DEF LockedHaveHandle
  <2>5. CASE s # r
    <3>1. s \in Active /\ req'[s] = req[s]
      BY <1>11, <1>12, <2>4, <2>5 DEF Active
    <3>2. IsPrefix(q, Handle(s))
      BY <2>4, <3>1 DEF Handle
    <3> QED BY <1>1, <2>2, <3>1, <3>2, AboveHandle
  <2>6. CASE s = r
    <3>1. IsPrefix(q, ids)
      BY <1>7, <1>11, <2>4, <2>6 DEF Handle
    <3>2. n \in 0 .. Len(toks)
      BY <1>6, <1>7, <1>8
    <3>3. IsPrefix(ids, toks) /\ Len(ids) = n
      BY <1>5, <1>6, <1>7, <3>2, UptoAt
    <3>4. IsPrefix(q, toks) /\ Len(q) <= n
      BY <1>6, <1>7, <2>2, <3>1, <3>3, PathOrder
    <3>5. CASE Len(q) > h
      BY <2>2, <3>4, <3>5 DEF Between
    <3>6. CASE Len(q) <= h
      <4>1. Handle(r) \in Seq(Tok) /\ Len(Handle(r)) = h
        BY <1>1, <1>4, HandleFacts
      <4>2. IsPrefix(q, Handle(r))
        BY <1>7, <2>2, <3>1, <3>6, <4>1, PathOrder
      <4> QED BY <1>1, <2>2, <4>2, AboveHandle
    <3> QED BY <1>6, <2>2, <3>5, <3>6
  <2> QED BY <2>5, <2>6
<1>15. protected' <= protected + (n - h) /\ protected \in Int /\ protected' \in Int
  <2>1. /\ IsFiniteSet(LockedPages) /\ Cardinality(LockedPages) \in Nat
        /\ protected = Cardinality(LockedPages) * PageSize
    BY <1>1, LockedTokens
  <2>2. (TreeInv /\ CountInv => /\ IsFiniteSet(LockedPages) /\ Cardinality(LockedPages) \in Nat
                                /\ protected = Cardinality(LockedPages) * PageSize)'
    BY LockedTokens, PTL
  <2>3. PICK new : new = LockedPages'
    OBVIOUS
  <2>4. PICK old : old = LockedPages
    OBVIOUS
  <2>5. /\ Cardinality(new) \in Nat /\ protected' = Cardinality(new) * PageSize
        /\ new \in SUBSET (old \cup more)
    BY <1>1, <1>14, <2>2, <2>3, <2>4
  <2>6. /\ IsFiniteSet(old) /\ Cardinality(old) \in Nat /\ protected = Cardinality(old) * PageSize
    BY <2>1, <2>4
  <2> HIDE DEF more
  <2>7. /\ IsFiniteSet(old \cup more)
        /\ Cardinality(old \cup more)
              = Cardinality(old) + Cardinality(more) - Cardinality(old \cap more)
    BY <1>13, <2>6, FS_Union
  <2>8. Cardinality(old \cap more) \in Nat
    BY <1>13, <2>6, FS_Intersection, FS_CardinalityType
  <2>9. Cardinality(new) <= Cardinality(old \cup more)
    BY <2>5, <2>7, FS_Subset
  <2>10. Cardinality(new) <= Cardinality(old) + Cardinality(more)
    BY <1>13, <2>5, <2>6, <2>7, <2>8, <2>9
  <2>11. /\ Cardinality(old) + Cardinality(more) \in Nat
         /\ (Cardinality(old) + Cardinality(more)) * PageSize
               = Cardinality(old) * PageSize + Cardinality(more) * PageSize
         /\ Cardinality(more) * PageSize = n - h
    BY <1>13, <2>6, Multiples
  <2>12. /\ Cardinality(new) * PageSize \in Nat /\ Cardinality(old) * PageSize \in Nat
         /\ Cardinality(new) * PageSize <= (Cardinality(old) + Cardinality(more)) * PageSize
    BY <2>5, <2>6, <2>10, <2>11, Multiples
  <2> QED BY <1>6, <1>7, <2>5, <2>6, <2>11, <2>12
<1>16. /\ SumFunction(Demands') = SumFunction(Demands) - Demand(r) + Demand(r)'
       /\ SumFunction(Demands) \in Nat /\ Demand(r) \in Nat
  BY <1>1, <1>11, OneDemand
<1>17. PICK cap : cap = DivCeil(req[r].max - 1, PageSize) * PageSize
  OBVIOUS
<1>18. Demand(r) = cap - h /\ Demand(r)' = cap - n /\ cap \in Nat
  <2>1. Demand(r) = cap - h /\ Demand(r)' = cap - n
    BY <1>4, <1>11, <1>17, <1>1 DEF Demand, Active
  <2>2. req[r].max - 1 \in Nat
    BY <1>1, RequestFacts DEF RowOf
  <2>3. cap \in Nat
    BY <1>17, <2>2, DivCeilFacts, Multiples
  <2> QED BY <2>1, <2>3
<1>19. Cardinality(Page) * PageSize \in Nat
  BY RadixConstants, FS_CardinalityType, Multiples
<1> QED BY <1>6, <1>7, <1>15, <1>16, <1>18, <1>19 DEF FitInv

\* What a lock moves is a natural number of tokens.
LEMMA MovedNat ==
    ASSUME TreeInv, ReqInv, CountInv, NEW path \in Seq(Tok), path = <<>> \/ path \in DOMAIN value
    PROVE  Crossing(WalkRef(path), path, 0) \in Nat
<1>1. /\ TreeOf(WalkNodes(path), DOMAIN value)
      /\ Counts(WalkNodes(path), DOMAIN value, WalkRef(path), LockMap)
      /\ path = <<>> \/ path \in WalkNodes(path)
  BY WalkCounts DEF LockMap
<1>2. Crossing(WalkRef(path), path, 0)
         = PageSize * Cardinality({q \in DOMAIN value : IsPrefix(q, path) /\ LockMap[q] = 0})
  BY <1>1, CrossingSum
<1>3. IsFiniteSet(DOMAIN value)
  BY DEF TreeInv, TreeOf
<1>4. Cardinality({q \in DOMAIN value : IsPrefix(q, path) /\ LockMap[q] = 0}) \in Nat
  BY <1>3, FS_Subset, FS_CardinalityType
<1> QED BY <1>2, <1>4, Multiples

\* Admission lets in what fits, with pages of at most two tokens: the second look counts the
\* request, what is reserved for the running ones, and the pages that its lock takes.
LEMMA AdmitFit ==
    ASSUME PageSize <= 2, IndInv, IndInv', FitInv,
           NEW r \in Req, NEW ids \in Prompts, NEW out \in OutLens, Admit(r, ids, out)
    PROVE  FitInv'
<1>1. TreeInv /\ ReqInv /\ CountInv /\ ReqInv'
  BY DEF IndInv
<1>2. PICK path : path = Matched(r, ids)
  OBVIOUS
<1>3. PICK moved : moved = Crossing(WalkRef(path), path, 0)
  OBVIOUS
<1>4. /\ ids \in Seq(Tok) /\ Len(ids) \in Nat /\ Len(ids) >= 1
      /\ path \in Seq(Tok) /\ Len(path) \in Nat /\ Len(path) < Len(ids)
      /\ path = <<>> \/ path \in DOMAIN value
  BY <1>1, <1>2, MatchedFacts
<1>5. moved \in Nat
  BY <1>1, <1>3, <1>4, MovedNat
<1>6. /\ r \notin Active
      /\ \/ /\ (Len(ids) - Len(path) + out) + ReservedSize <= Available - moved
            /\ protected' = protected + moved
            /\ req' = [req EXCEPT ![r] = Admitted(ids, out, path)]
         \/ UNCHANGED <<protected, req>>
  BY <1>2, <1>3 DEF Admit, Locked, Admitted
<1>7. CASE UNCHANGED <<protected, req>>
  BY <1>7, QuietFit
<1>8. CASE /\ (Len(ids) - Len(path) + out) + ReservedSize <= Available - moved
           /\ protected' = protected + moved
           /\ req' = [req EXCEPT ![r] = Admitted(ids, out, path)]
  <2>1. /\ req'[r] = Admitted(ids, out, path) /\ \A s \in Req : s # r => req'[s] = req[s]
    BY <1>1, <1>8 DEF ReqInv
  <2>2. /\ req'[r].active = TRUE /\ req'[r].max = Len(ids) + out /\ req'[r].hlen = Len(path)
    BY <2>1 DEF Admitted
  <2>3. out \in Nat /\ out >= 1
    BY RadixConstants
  <2>4. PICK max : max = Len(ids) + out
    OBVIOUS
  <2>5. max \in Nat /\ max - 1 \in Nat
    BY <1>4, <2>3, <2>4
  <2>6. PICK cap : cap = DivCeil(max - 1, PageSize) * PageSize
    OBVIOUS
  <2>7. cap \in Nat /\ cap < (max - 1) + PageSize
    BY <2>5, <2>6, DivCeilFacts, Multiples
  <2>8. Demand(r) = 0 /\ Demand(r)' = cap - Len(path)
    BY <1>6, <2>2, <2>4, <2>6 DEF Demand, Active
  <2>9. /\ SumFunction(Demands') = SumFunction(Demands) - Demand(r) + Demand(r)'
        /\ SumFunction(Demands) \in Nat
    BY <1>1, <2>1, OneDemand
  <2>10. /\ SumFunction(Needs) \in Nat /\ SumFunction(Holds) \in Nat
         /\ SumFunction(Demands) = SumFunction(Needs) + SumFunction(Holds)
    BY <1>1, SumShares
  <2>11. ReservedSize \in Int /\ SumFunction(Needs) <= ReservedSize
    BY <1>1, ReservedCovers
  <2>12. /\ Available = Cardinality(Page) * PageSize - protected - SumFunction(Holds)
         /\ Cardinality(Page) * PageSize \in Nat
    BY PoolSplit, Multiples
  <2>13. protected \in Nat
    BY <1>1, SizesNat
  <2>14. PageSize \in {1, 2}
    BY RadixConstants
  <2>15. cap - Len(path) <= Len(ids) - Len(path) + out
    <3>1. cap <= max
      BY <2>5, <2>7, <2>14
    <3> QED BY <1>4, <2>3, <2>4, <2>7, <3>1
  <2>16. PICK est, gain : est = (Len(ids) - Len(path)) + out /\ gain = cap - Len(path)
    OBVIOUS
  <2>17. est \in Int /\ gain \in Int /\ gain <= est /\ est + ReservedSize <= Available - moved
    BY <1>4, <1>8, <2>3, <2>7, <2>15, <2>16
  <2> DEFINE d == SumFunction(Demands)
             n == SumFunction(Needs)
             h == SumFunction(Holds)
             all == Cardinality(Page) * PageSize
  <2>18. /\ d = n + h /\ n \in Nat /\ h \in Nat /\ n <= ReservedSize /\ all \in Nat
         /\ Available = all - protected - h /\ SumFunction(Demands') = d + gain
    BY <1>4, <2>7, <2>8, <2>9, <2>10, <2>11, <2>12, <2>16
  <2> HIDE DEF d, n, h, all
  <2>19. (d + gain) + (protected + moved) <= all
    BY <1>5, <2>11, <2>13, <2>17, <2>18
  <2>20. SumFunction(Demands') + protected' <= all
    BY <1>8, <2>18, <2>19
  <2> QED BY <2>20 DEF FitInv, all
<1> QED BY <1>6, <1>7, <1>8

\* The steps of a request between its admission and its commit
LEMMA RunFit ==
    ASSUME IndInv, IndInv', FitInv,
           \/ \E r \in Req : \E n \in 1 .. req[r].plen : Prefill(r, n)
           \/ \E r \in Req, t \in Tok : Decode(r, t)
           \/ \E n \in nodes : EvictOne(n)
           \/ \E pages : Extend(pages)
           \/ \E r \in Req : r \in Multimodal /\ Commit(r)
    PROVE  FitInv'
<1>1. req \in [Req -> ReqType]
  BY DEF IndInv, ReqInv
<1>2. CASE \E r \in Req : \E n \in 1 .. req[r].plen : Prefill(r, n)
  BY <1>2, QuietFit DEF Prefill, treeVars
<1>3. CASE \E n \in nodes : EvictOne(n)
  BY <1>3, QuietFit DEF EvictOne
<1>4. ASSUME NEW r \in Req, req[r] \in ReqType, protected' = protected,
             \/ \E s : req' = [req EXCEPT ![r].toks = s]
             \/ \E row, c : req' = [req EXCEPT ![r].row = row, ![r].cached = c]
             \/ req' = [req EXCEPT ![r].committed = TRUE]
      PROVE  FitInv'
  <2>1. \A s \in Req : s # r => req'[s] = req[s]
    BY <1>1, <1>4
  <2>2. /\ req'[r].active = req[r].active /\ req'[r].max = req[r].max
        /\ req'[r].hlen = req[r].hlen
    <3>0. r \in Req /\ req[r] \in ReqType
      BY <1>4
    <3>1. CASE \E s : req' = [req EXCEPT ![r].toks = s]
      <4>1. PICK s : req' = [req EXCEPT ![r].toks = s]
        BY <3>1
      <4>2. req'[r] = [req[r] EXCEPT !.toks = s]
        BY <1>1, <3>0, <4>1
      <4> QED BY <3>0, <4>2 DEF ReqType
    <3>2. CASE \E row, c : req' = [req EXCEPT ![r].row = row, ![r].cached = c]
      <4>1. PICK row, c : req' = [req EXCEPT ![r].row = row, ![r].cached = c]
        BY <3>2
      <4>2. req'[r] = [req[r] EXCEPT !.row = row, !.cached = c]
        BY <1>1, <3>0, <4>1
      <4> QED BY <3>0, <4>2 DEF ReqType
    <3>3. CASE req' = [req EXCEPT ![r].committed = TRUE]
      BY <1>1, <3>0, <3>3 DEF ReqType
    <3> QED BY <1>4, <3>1, <3>2, <3>3
  <2>3. \A s \in Req : /\ req'[s].active = req[s].active /\ req'[s].max = req[s].max
                       /\ req'[s].hlen = req[s].hlen
    BY <2>1, <2>2
  <2> QED BY <1>4, <2>3, QuietFit
<1>5. CASE \E r \in Req, t \in Tok : Decode(r, t)
  <2>1. PICK r \in Req, t \in Tok : Decode(r, t)
    BY <1>5
  <2>2. (\E s : req' = [req EXCEPT ![r].toks = s]) /\ protected' = protected
    BY <2>1 DEF Decode, treeVars
  <2> QED BY <1>1, <1>4, <2>2
<1>6. CASE \E pages : Extend(pages)
  <2>1. PICK pages : Extend(pages)
    BY <1>6
  <2>2. alloc.req \in Req
    BY <2>1, AllocFacts DEF Extend, IndInv, Active
  <2>3. /\ \E row, c : req' = [req EXCEPT ![alloc.req].row = row, ![alloc.req].cached = c]
        /\ protected' = protected
    BY <2>1 DEF Extend, treeVars
  <2> QED BY <1>1, <1>4, <2>2, <2>3
<1>7. CASE \E r \in Req : r \in Multimodal /\ Commit(r)
  <2>1. PICK r \in Req : r \in Multimodal /\ Commit(r)
    BY <1>7
  <2>2. req' = [req EXCEPT ![r].committed = TRUE] /\ protected' = protected
    BY <2>1 DEF Commit, treeVars
  <2> QED BY <1>1, <1>4, <2>2
<1> QED BY <1>2, <1>3, <1>5, <1>6, <1>7

\* Below a cached prefix that no one has locked there is a leaf that no one has locked.
LEMMA LeafBelow ==
    ASSUME TreeInv, ReqInv, CountInv, NEW q \in DOMAIN value, Locks(q) = 0
    PROVE  Leaves # {}
<1>1. /\ TreeOf(nodes, DOMAIN value) /\ nodes \subseteq DOMAIN value
      /\ \A p \in DOMAIN value : p \in Seq(Tok)
  BY TreeOrder DEF TreeInv
<1> DEFINE below(n) == {m \in nodes : IsPrefix(n, m)}
           S == below(q)
           counts == {Cardinality(below(n)) : n \in S}
<1>2. \A n : IsFiniteSet(below(n)) /\ Cardinality(below(n)) \in Nat
  <2>1. IsFiniteSet(DOMAIN value)
    BY DEF TreeInv, TreeOf
  <2>2. IsFiniteSet(nodes)
    BY <1>1, <2>1, FS_Subset
  <2>3. \A n : below(n) \in SUBSET nodes
    OBVIOUS
  <2> HIDE DEF below
  <2> QED BY <2>2, <2>3, FS_Subset, FS_CardinalityType
<1>3. S # {}
  BY <1>1, TreeOrder DEF HomeIn
<1>4. counts \in SUBSET Nat /\ counts # {}
  <2> HIDE DEF below, S
  <2> QED BY <1>2, <1>3
<1>5. PICK c \in counts : \A d \in counts : c <= d
  <2> HIDE DEF counts
  <2> QED BY <1>4, Least
<1>6. PICK n \in S : c = Cardinality(below(n))
  OBVIOUS
<1>7. n \in nodes /\ IsPrefix(q, n)
  OBVIOUS
<1>8. ASSUME NEW m \in nodes, IsStrictPrefix(n, m) PROVE FALSE
  <2>1. IsPrefix(n, m) /\ n # m
    BY <1>8 DEF IsStrictPrefix
  <2>2. m \in S
    BY <1>1, <1>7, <2>1, PathOrder
  <2>3. below(m) \in SUBSET below(n)
    BY <1>1, <1>7, <2>1, PathOrder
  <2>4. n \in below(n) /\ n \notin below(m)
    BY <1>1, <1>7, <2>1, PathOrder
  <2>5. Cardinality(below(m)) \in counts
    BY <2>2
  <2>6. Cardinality(below(n)) <= Cardinality(below(m))
    BY <1>5, <1>6, <2>5
  <2> HIDE DEF below, counts, S
  <2> QED BY <1>2, <2>3, <2>4, <2>6, FS_Subset
<1>9. Lockers(n) \subseteq Lockers(q)
  <2>1. ASSUME NEW s \in Lockers(n) PROVE IsPrefix(q, Handle(s))
    <3>1. s \in Active /\ IsPrefix(n, Handle(s))
      BY DEF Lockers
    <3>2. Handle(s) \in Seq(Tok)
      BY <3>1, HandleFacts
    <3> QED BY <1>1, <1>7, <3>1, <3>2, PathOrder
  <2> QED BY <2>1 DEF Lockers
<1>10. Lockers(q) = {}
  BY LockersFinite, FS_EmptySet DEF Locks
<1>11. Locks(n) = 0
  BY <1>9, <1>10, FS_EmptySet DEF Locks
<1>12. ref[n] = 0
  BY <1>7, <1>11 DEF CountInv
<1> QED BY <1>7, <1>8, <1>12 DEF Leaves

\* An allocation that the free list cannot serve finds a leaf to evict.
LEMMA FitEvicts ==
    ASSUME IndInv, FitInv
    PROVE  EvictionSuffices
<1> SUFFICES ASSUME alloc # NoAlloc, ~(PagesFor(alloc.req, alloc.upto) <= FreeCount)
             PROVE  Leaves # {}
  BY DEF EvictionSuffices
<1>1. TreeInv /\ ReqInv /\ CountInv
  BY DEF IndInv
<1>2. PICK r : r = alloc.req
  OBVIOUS
<1>3. PICK n : n = PagesFor(alloc.req, alloc.upto)
  OBVIOUS
<1>4. /\ r \in Active /\ alloc.upto \in Nat /\ alloc.upto < req[r].max /\ n \in Nat
      /\ DivCeil(alloc.upto, PageSize) = DivCeil(req[r].cached, PageSize) + n
  BY <1>1, <1>2, <1>3, AllocFacts
<1>5. /\ req[r].cached \in Nat /\ req[r].max \in Nat /\ r \in Req
      /\ Len(req[r].row) = DivCeil(req[r].cached, PageSize)
  BY <1>1, <1>4, RequestFacts DEF RowOf
<1> DEFINE c == DivCeil(req[r].cached, PageSize)
           u == DivCeil(alloc.upto, PageSize)
           d == DivCeil(req[r].max - 1, PageSize)
<1>6. req[r].max - 1 \in Nat /\ alloc.upto <= req[r].max - 1
  BY <1>4, <1>5
<1>7. c \in Nat /\ u \in Nat /\ d \in Nat
  BY <1>4, <1>5, <1>6, DivCeilFacts
<1>8. u <= d
  BY <1>4, <1>6, DivCeilLe
<1>9. u = c + n /\ Need(r) = d * PageSize - c * PageSize
  BY <1>4, <1>5 DEF Need, Active
<1> HIDE DEF c, u, d
<1>10. /\ c * PageSize \in Nat /\ n * PageSize \in Nat /\ d * PageSize \in Nat
       /\ c * PageSize + n * PageSize <= d * PageSize
  <2>1. (c + n) * PageSize = c * PageSize + n * PageSize /\ c + n \in Nat /\ c + n <= d
    BY <1>4, <1>7, <1>8, <1>9, Multiples
  <2>2. (c + n) * PageSize <= d * PageSize
    BY <1>7, <2>1, Multiples
  <2> QED BY <1>4, <1>7, <2>1, <2>2, Multiples
<1>11. n * PageSize <= Need(r)
  BY <1>9, <1>10
<1>12. /\ SumFunction(Demands) \in Nat /\ SumFunction(Needs) \in Nat
       /\ SumFunction(Demands) = SumFunction(Needs) + SumFunction(Holds)
       /\ Need(r) \in Nat /\ Need(r) <= SumFunction(Needs)
  BY <1>1, <1>5, SumShares
<1>13. /\ Available = Cardinality(Page) * PageSize - protected - SumFunction(Holds)
       /\ Cardinality(Page) * PageSize \in Nat /\ SumFunction(Holds) \in Nat
       /\ FreeCount \in Nat
  BY PoolSplit, Multiples
<1>14. evictable \in Nat /\ protected \in Nat
  BY <1>1, SizesNat
<1> DEFINE all == Cardinality(Page) * PageSize
           need == SumFunction(Needs)
           hold == SumFunction(Holds)
           room == FreeCount * PageSize
           more == n * PageSize
<1>15. (need + hold) + protected <= all /\ evictable + room = all - protected - hold
  BY <1>12, <1>13 DEF FitInv, Available
<1>16. more \in Nat /\ more <= need
  BY <1>10, <1>11, <1>12
<1>17. room \in Nat /\ room < more
  BY <1>3, <1>4, <1>13, Multiples
<1>18. need \in Nat /\ hold \in Nat /\ all \in Nat
  BY <1>12, <1>13
<1> HIDE DEF all, need, hold, room, more
<1>19. evictable > 0
  BY <1>14, <1>15, <1>16, <1>17, <1>18
<1>20. \E q \in DOMAIN value : Locks(q) = 0
  <2> SUFFICES ASSUME \A q \in DOMAIN value : Locks(q) # 0 PROVE FALSE
    OBVIOUS
  <2>1. {q \in DOMAIN value : Locks(q) = 0} = {}
    OBVIOUS
  <2>2. Cardinality({q \in DOMAIN value : Locks(q) = 0}) = 0
    BY <2>1, FS_EmptySet
  <2>3. evictable = PageSize * 0 /\ PageSize * 0 = 0
    BY <1>1, <2>2, Multiples DEF CountInv
  <2> QED BY <1>19, <2>3
<1> QED BY <1>1, <1>20, LeafBelow

\* "Eviction did not free enough space." is not raised: with pages of one token, the default of
\* the code, or of two, an allocation of an admitted request finds its pages free or evicts them.
THEOREM EvictionFinds ==
    ASSUME PageSize <= 2
    PROVE  Spec => []EvictionSuffices
<1>1. Init => FitInv
  BY InitFit
<1>2. IndInv /\ IndInv' /\ FitInv /\ [Next]_vars => FitInv'
  <2> SUFFICES ASSUME IndInv, IndInv', FitInv, [Next]_vars PROVE FitInv'
    OBVIOUS
  <2>1. CASE UNCHANGED vars
    BY <2>1, QuietFit DEF vars, treeVars
  <2>2. ASSUME NEW r \in Req, NEW ids \in Prompts, NEW out \in OutLens, Admit(r, ids, out)
        PROVE  FitInv'
    BY <2>2, AdmitFit
  <2>3. CASE \/ \E r \in Req : \E n \in 1 .. req[r].plen : Prefill(r, n)
             \/ \E r \in Req, t \in Tok : Decode(r, t)
             \/ \E n \in nodes : EvictOne(n)
             \/ \E pages : Extend(pages)
    BY <2>3, RunFit
  <2>4. ASSUME NEW r \in Req, Commit(r) PROVE FitInv'
    <3>1. CASE r \in Multimodal
      BY <2>4, <3>1, RunFit
    <3>2. CASE r \notin Multimodal
      BY <2>4, <3>2, CommitFit
    <3> QED BY <3>1, <3>2
  <2>5. ASSUME NEW r \in Req, Finish(r) PROVE FitInv'
    BY <2>5, FinishFit
  <2> QED BY <2>1, <2>2, <2>3, <2>4, <2>5 DEF Next
<1>3. IndInv /\ FitInv => EvictionSuffices
  BY FitEvicts
<1> QED BY <1>1, <1>2, <1>3, Inductive, PTL DEF Spec

=============================================================================

------------------------------ MODULE DataLemmas ------------------------------
(* Facts about sequences and sums over finite sets that the proofs of several modules need. *)
EXTENDS Integers, Sequences, FiniteSets, SequencesExt, FiniteSetTheorems, WellFoundedInduction,
        TLAPS

-----------------------------------------------------------------------------
(* Sequences: the queues the scheduler and the ranks keep *)

\* Membership in a sequence's set of elements is occurrence at an index.
LEMMA InToSet ==
    ASSUME NEW S, NEW s \in Seq(S), NEW x
    PROVE  x \in ToSet(s) <=> \E i \in 1 .. Len(s) : s[i] = x
BY DEF ToSet

\* The elements of a list are of its type; the empty list has none and no repetition.
LEMMA ElemsType ==
    ASSUME NEW S, NEW s \in Seq(S)
    PROVE  ToSet(s) \subseteq S
BY DEF ToSet

\* An empty pending_list.
LEMMA EmptyElems == ToSet(<<>>) = {} /\ IsInjective(<<>>)
BY DEF ToSet, IsInjective

\* A sequence without repetition: pending_list holds each request once.
LEMMA Injective ==
    ASSUME NEW S, NEW s \in Seq(S)
    PROVE  IsInjective(s) <=> \A i, j \in 1 .. Len(s) : s[i] = s[j] => i = j
BY DEF IsInjective

\* What list.append does to the elements.
LEMMA AppendElems ==
    ASSUME NEW S, NEW s \in Seq(S), NEW e \in S
    PROVE  /\ Append(s, e) \in Seq(S)
           /\ ToSet(Append(s, e)) = ToSet(s) \cup {e}
           /\ IsInjective(s) /\ e \notin ToSet(s) => IsInjective(Append(s, e))
<1> DEFINE t == Append(s, e)
<1>1. /\ t \in Seq(S) /\ Len(t) = Len(s) + 1 /\ Len(s) \in Nat
      /\ \A i \in 1 .. Len(s) : t[i] = s[i]
      /\ t[Len(s) + 1] = e
  OBVIOUS
<1> HIDE DEF t
<1>2. ASSUME NEW x PROVE x \in ToSet(t) <=> x \in ToSet(s) \/ x = e
  BY <1>1, InToSet
<1>3. IsInjective(s) /\ e \notin ToSet(s) => IsInjective(t)
  BY <1>1, InToSet DEF IsInjective
<1> QED BY <1>1, <1>2, <1>3 DEF t

\* What taking the head of a repetition-free list leaves.
LEMMA TailElems ==
    ASSUME NEW S, NEW s \in Seq(S), s # <<>>, IsInjective(s)
    PROVE  /\ Tail(s) \in Seq(S) /\ IsInjective(Tail(s)) /\ Head(s) \in S
           /\ Head(s) \in ToSet(s)
           /\ ToSet(Tail(s)) = ToSet(s) \ {Head(s)}
<1> DEFINE t == Tail(s)
<1>1. /\ t \in Seq(S) /\ Len(t) = Len(s) - 1 /\ Len(s) \in Nat \ {0}
      /\ \A i \in 1 .. Len(t) : t[i] = s[i + 1]
      /\ Head(s) = s[1] /\ Head(s) \in S
  OBVIOUS
<1> HIDE DEF t
<1>2. ASSUME NEW x \in ToSet(t) PROVE x \in ToSet(s) \ {Head(s)}
  BY <1>1, InToSet DEF IsInjective
<1>3. ASSUME NEW x \in ToSet(s) \ {Head(s)} PROVE x \in ToSet(t)
  <2>1. PICK i \in 1 .. Len(s) : s[i] = x /\ i # 1
    BY <1>1, InToSet
  <2>2. i - 1 \in 1 .. Len(t) /\ t[i - 1] = x
    BY <1>1, <2>1
  <2> QED BY <1>1, <2>2, InToSet
<1>4. IsInjective(t)
  BY SMTT(30), <1>1, Injective
<1>5. Head(s) \in ToSet(s)
  BY <1>1, InToSet
<1> QED BY <1>1, <1>2, <1>3, <1>4, <1>5 DEF t

\* The elements of a concatenation by index.
LEMMA ConcatAt ==
    ASSUME NEW S, NEW s \in Seq(S), NEW t \in Seq(S)
    PROVE  /\ s \o t \in Seq(S) /\ Len(s \o t) = Len(s) + Len(t)
           /\ Len(s) \in Nat /\ Len(t) \in Nat
           /\ \A i \in 1 .. Len(s \o t) :
                 (s \o t)[i] = IF i <= Len(s) THEN s[i] ELSE t[i - Len(s)]
OBVIOUS

\* chunked_list + pending_list[len(reqs):] has the elements of both parts.
LEMMA ConcatElems ==
    ASSUME NEW S, NEW s \in Seq(S), NEW t \in Seq(S)
    PROVE  /\ s \o t \in Seq(S)
           /\ ToSet(s \o t) = ToSet(s) \cup ToSet(t)
           /\ IsInjective(s) /\ IsInjective(t) /\ ToSet(s) \cap ToSet(t) = {} => IsInjective(s \o t)
<1> DEFINE c == s \o t
<1>1. /\ c \in Seq(S) /\ Len(c) = Len(s) + Len(t) /\ Len(s) \in Nat /\ Len(t) \in Nat
      /\ \A i \in 1 .. Len(c) : c[i] = IF i <= Len(s) THEN s[i] ELSE t[i - Len(s)]
  BY ConcatAt
<1> HIDE DEF c
<1>2. ASSUME NEW x \in ToSet(c) PROVE x \in ToSet(s) \cup ToSet(t)
  <2>1. PICK i \in 1 .. Len(c) : c[i] = x
    BY <1>1, InToSet
  <2>2. CASE i <= Len(s)
    BY <1>1, <2>1, <2>2, InToSet
  <2>3. CASE ~ (i <= Len(s))
    <3>1. i - Len(s) \in 1 .. Len(t) /\ t[i - Len(s)] = x
      BY <1>1, <2>1, <2>3
    <3> QED BY <3>1, InToSet
  <2> QED BY <2>2, <2>3
<1>3. ASSUME NEW x \in ToSet(s) PROVE x \in ToSet(c)
  BY <1>1, InToSet
<1>4. ASSUME NEW x \in ToSet(t) PROVE x \in ToSet(c)
  <2>1. PICK i \in 1 .. Len(t) : t[i] = x
    BY InToSet
  <2>2. i + Len(s) \in 1 .. Len(c) /\ ~ (i + Len(s) <= Len(s))
    BY <1>1
  <2>3. c[i + Len(s)] = t[(i + Len(s)) - Len(s)] /\ (i + Len(s)) - Len(s) = i
    BY <1>1, <2>2
  <2> QED BY <1>1, <2>1, <2>2, <2>3, InToSet
<1>5. ASSUME IsInjective(s), IsInjective(t), ToSet(s) \cap ToSet(t) = {} PROVE IsInjective(c)
  <2> SUFFICES ASSUME NEW i \in 1 .. Len(c), NEW j \in 1 .. Len(c), c[i] = c[j], i <= j
               PROVE  i = j
    BY <1>1 DEF IsInjective
  <2>1. CASE j <= Len(s)
    BY <1>1, <1>5, <2>1 DEF IsInjective
  <2>2. CASE i > Len(s)
    <3>1. /\ i - Len(s) \in 1 .. Len(t) /\ j - Len(s) \in 1 .. Len(t)
          /\ t[i - Len(s)] = t[j - Len(s)]
      BY <1>1, <2>2
    <3>2. i - Len(s) = j - Len(s)
      BY <1>5, <3>1 DEF IsInjective
    <3> QED BY <1>1, <3>2
  <2>3. CASE i <= Len(s) /\ j > Len(s)
    <3>1. c[i] \in ToSet(s)
      BY <1>1, <2>3, InToSet
    <3>2. j - Len(s) \in 1 .. Len(t) /\ t[j - Len(s)] = c[j]
      BY <1>1, <2>3
    <3>3. c[j] \in ToSet(t)
      BY <3>2, InToSet
    <3> QED BY <1>5, <3>1, <3>3
  <2> QED BY <1>1, <2>1, <2>2, <2>3
<1> QED BY <1>1, <1>2, <1>3, <1>4, <1>5 DEF c

\* pending_list.pop(i) at the request's index takes that request out and nothing else.
LEMMA RemoveElems ==
    ASSUME NEW S, NEW s \in Seq(S), NEW e, IsInjective(s)
    PROVE  /\ RemoveFirst(s, e) \in Seq(S)
           /\ ToSet(RemoveFirst(s, e)) = ToSet(s) \ {e}
           /\ IsInjective(RemoveFirst(s, e))
           /\ s # <<>> /\ Head(s) # e =>
                 RemoveFirst(s, e) # <<>> /\ Head(RemoveFirst(s, e)) = Head(s)
<1>1. CASE ~ \E i \in 1 .. Len(s) : s[i] = e
  <2>1. RemoveFirst(s, e) = s
    BY <1>1 DEF RemoveFirst
  <2>2. e \notin ToSet(s)
    BY <1>1, InToSet
  <2> QED BY <2>1, <2>2
<1>2. CASE \E i \in 1 .. Len(s) : s[i] = e
  <2>1. PICK k \in 1 .. Len(s) : s[k] = e
    BY <1>2
  <2>2. {i \in 1 .. Len(s) : s[i] = e} = {k}
    BY <2>1 DEF IsInjective
  <2>8. Min({k}) = k
    BY <2>1 DEF Min
  <2>3. RemoveFirst(s, e) = RemoveAt(s, k)
    BY <2>1, <2>2, <2>8 DEF RemoveFirst, SelectInSeq
  <2> DEFINE a == SubSeq(s, 1, k - 1)
             b == SubSeq(s, k + 1, Len(s))
             r == a \o b
  <2>9. /\ a \in Seq(S) /\ Len(a) = k - 1
        /\ \A i \in 1 .. Len(a) : a[i] = s[i]
    BY <2>1
  <2>10. /\ b \in Seq(S) /\ Len(b) = Len(s) - k
        /\ \A i \in 1 .. Len(b) : b[i] = s[k + i]
    BY <2>1
  <2>11. r = RemoveAt(s, k)
    BY DEF RemoveAt
  <2> HIDE DEF a, b
  <2>4. /\ r \in Seq(S) /\ Len(r) = Len(s) - 1
        /\ \A i \in 1 .. Len(r) : r[i] = IF i < k THEN s[i] ELSE s[i + 1]
    <3>1. /\ r \in Seq(S) /\ Len(r) = Len(a) + Len(b)
          /\ \A i \in 1 .. Len(r) : r[i] = IF i <= Len(a) THEN a[i] ELSE b[i - Len(a)]
      BY <2>9, <2>10, ConcatAt
    <3> HIDE DEF r
    <3>2. Len(r) = Len(s) - 1
      BY <2>1, <2>9, <2>10, <3>1
    <3>3. ASSUME NEW i \in 1 .. Len(r), i < k PROVE r[i] = s[i]
      BY <2>1, <2>9, <3>1, <3>2, <3>3
    <3>4. ASSUME NEW i \in 1 .. Len(r), ~ (i < k) PROVE r[i] = s[i + 1]
      <4>1. i - Len(a) \in 1 .. Len(b) /\ ~ (i <= Len(a)) /\ k + (i - Len(a)) = i + 1
        BY <2>1, <2>9, <2>10, <3>2, <3>4
      <4> QED BY <2>10, <3>1, <4>1
    <3> QED BY <3>1, <3>2, <3>3, <3>4
  <2> HIDE DEF r
  <2>5. ASSUME NEW x \in ToSet(s) \ {e} PROVE x \in ToSet(r)
    <3>1. PICK i \in 1 .. Len(s) : s[i] = x
      BY <2>5, InToSet
    <3>2. CASE i < k
      BY <2>1, <2>4, <3>1, <3>2, InToSet
    <3>3. CASE i > k
      <4>1. i - 1 \in 1 .. Len(r) /\ r[i - 1] = x
        BY <2>1, <2>4, <3>1, <3>3
      <4> QED BY <2>4, <4>1, InToSet
    <3>4. i # k
      BY <2>1, <2>5, <3>1
    <3> QED BY <2>1, <3>2, <3>3, <3>4
  <2>6. ASSUME NEW x \in ToSet(r) PROVE x \in ToSet(s) \ {e}
    <3>1. PICK i \in 1 .. Len(r) : r[i] = x
      BY <2>4, InToSet
    <3>2. CASE i < k
      <4>1. i \in 1 .. Len(s) /\ s[i] = x /\ i # k
        BY <2>1, <2>4, <3>1, <3>2
      <4> QED BY <2>1, <4>1, InToSet DEF IsInjective
    <3>3. CASE ~ (i < k)
      <4>1. i + 1 \in 1 .. Len(s) /\ s[i + 1] = x /\ i + 1 # k
        BY <2>1, <2>4, <3>1, <3>3
      <4> QED BY <2>1, <4>1, InToSet DEF IsInjective
    <3> QED BY <3>2, <3>3
  <2>7. IsInjective(r)
    <3>1. \A i, j \in 1 .. Len(s) : s[i] = s[j] => i = j
      BY Injective
    <3>2. ASSUME NEW i \in 1 .. Len(r), NEW j \in 1 .. Len(r), r[i] = r[j] PROVE i = j
      <4> DEFINE at(n) == IF n < k THEN n ELSE n + 1
      <4>1. /\ at(i) \in 1 .. Len(s) /\ at(j) \in 1 .. Len(s)
            /\ r[i] = s[at(i)] /\ r[j] = s[at(j)]
        BY <2>1, <2>4
      <4> HIDE DEF at
      <4>2. at(i) = at(j)
        BY <3>1, <3>2, <4>1
      <4> QED BY <2>1, <4>2 DEF at
    <3> QED BY <2>4, <3>2, Injective
  <2>12. s # <<>> /\ Head(s) # e => r # <<>> /\ Head(r) = Head(s)
    <3> SUFFICES ASSUME s # <<>>, Head(s) # e PROVE r # <<>> /\ Head(r) = Head(s)
      OBVIOUS
    <3>1. Head(s) = s[1] /\ k # 1
      BY <2>1
    <3>2. 1 \in 1 .. Len(r) /\ r[1] = s[1]
      BY <2>1, <2>4, <3>1
    <3> QED BY <2>4, <3>1, <3>2
  <2> QED BY <2>3, <2>11, <2>4, <2>5, <2>6, <2>7, <2>12
<1> QED BY <1>1, <1>2

-----------------------------------------------------------------------------
(* Least elements *)

\* The order of the naturals as a well-founded relation, in the form WFMin takes.
LEMMA NatOrder == \E R : IsWellFoundedOn(R, Nat) /\ \A x, y \in Nat : y < x => <<y, x>> \in R
<1>1. \A x, y \in Nat : y < x => <<y, x>> \in OpToRel(<, Nat)
  BY DEF OpToRel
<1> QED BY <1>1, NatLessThanWellFounded

\* Every nonempty set of naturals has a least element.
LEMMA Least ==
    ASSUME NEW T \in SUBSET Nat, T # {}
    PROVE  \E x \in T : \A y \in T : x <= y
<1>1. PICK R : IsWellFoundedOn(R, Nat) /\ \A x, y \in Nat : y < x => <<y, x>> \in R
  BY NatOrder
<1>2. PICK x \in T : \A y \in T : ~(<<y, x>> \in R)
  BY <1>1, WFMin
<1>3. \A y \in T : x \in Nat /\ y \in Nat /\ ~(y < x)
  BY <1>1, <1>2
<1> QED BY <1>3

\* A family of subsets of a finite set has a smallest member.
LEMMA Smallest ==
    ASSUME NEW S, IsFiniteSet(S), NEW F \in SUBSET SUBSET S, F # {}
    PROVE  \E T \in F : \A U \in SUBSET T : U # T => U \notin F
<1>1. \A T \in SUBSET S : IsFiniteSet(T) /\ Cardinality(T) \in Nat
  BY FS_Subset, FS_CardinalityType
<1> DEFINE N == {Cardinality(T) : T \in F}
<1>2. N \in SUBSET Nat /\ N # {}
  BY <1>1
<1>3. PICK n \in N : \A m \in N : n <= m
  <2> HIDE DEF N
  <2> QED BY <1>2, Least
<1>4. PICK T \in F : n = Cardinality(T)
  OBVIOUS
<1>5. ASSUME NEW U \in SUBSET T, U # T PROVE U \notin F
  <2>1. Cardinality(U) < Cardinality(T)
    BY <1>1, <1>5, FS_Subset
  <2>2. Cardinality(T) \in Nat /\ Cardinality(U) \in Nat
    BY <1>1
  <2>3. U \in F => Cardinality(T) <= Cardinality(U)
    BY <1>3, <1>4
  <2> QED BY <2>1, <2>2, <2>3
<1> QED BY <1>5

-----------------------------------------------------------------------------
(* Sums over finite sets: SumFunctionOnSet of the community modules *)

\* The element that a fold over T takes first
Picked(T) == CHOOSE x \in T : TRUE

\* g sums f over the subsets of S, element by element.
Folded(g, f, S) ==
    g = [T \in SUBSET S |-> IF T = {} THEN 0 ELSE f[Picked(T)] + g[T \ {Picked(T)}]]

LEMMA PickedIn == \A T : T # {} => Picked(T) \in T
BY DEF Picked

\* There is such a function for a finite S.
LEMMA FoldedExists ==
    ASSUME NEW S, IsFiniteSet(S), NEW f, \A x \in S : f[x] \in Int
    PROVE  \E g \in [SUBSET S -> Int] : Folded(g, f, S)
<1> DEFINE Sum(g, T) == IF T = {} THEN 0 ELSE f[Picked(T)] + g[T \ {Picked(T)}]
           UpTo(g, n) == \A T \in SUBSET S : Cardinality(T) <= n => g[T] = Sum(g, T)
           Bad == {n \in Nat : ~ \E g \in [SUBSET S -> Int] : UpTo(g, n)}
<1>1. \A T \in SUBSET S : /\ IsFiniteSet(T) /\ Cardinality(T) \in Nat
                          /\ T # {} => Picked(T) \in T /\ T \ {Picked(T)} \in SUBSET S
                                       /\ Cardinality(T \ {Picked(T)}) = Cardinality(T) - 1
                          /\ Cardinality(T) <= 0 => T = {}
  <2> SUFFICES ASSUME NEW T \in SUBSET S
               PROVE  /\ IsFiniteSet(T) /\ Cardinality(T) \in Nat
                      /\ T # {} => Picked(T) \in T /\ T \ {Picked(T)} \in SUBSET S
                                       /\ Cardinality(T \ {Picked(T)}) = Cardinality(T) - 1
                      /\ Cardinality(T) <= 0 => T = {}
    OBVIOUS
  <2>1. IsFiniteSet(T) /\ Cardinality(T) \in Nat
    BY FS_Subset, FS_CardinalityType
  <2>2. T # {} => Picked(T) \in T
    BY PickedIn
  <2>3. T # {} => Cardinality(T \ {Picked(T)}) = Cardinality(T) - 1
    BY <2>1, <2>2, FS_RemoveElement
  <2>4. Cardinality(T) <= 0 => T = {}
    BY <2>1, FS_EmptySet
  <2> QED BY <2>1, <2>2, <2>3, <2>4
<1>2. Bad = {}
  <2> SUFFICES ASSUME Bad # {} PROVE FALSE
    OBVIOUS
  <2>1. PICK n \in Bad : \A m \in Bad : n <= m
    <3>1. Bad \in SUBSET Nat
      OBVIOUS
    <3> HIDE DEF Bad
    <3> QED BY <3>1, Least
  <2>2. n # 0
    <3> DEFINE z == [T \in SUBSET S |-> 0]
    <3>1. z \in [SUBSET S -> Int]
      OBVIOUS
    <3>2. UpTo(z, 0)
      <4> SUFFICES ASSUME NEW T \in SUBSET S, Cardinality(T) <= 0 PROVE z[T] = Sum(z, T)
        OBVIOUS
      <4>1. T = {} /\ z[T] = 0
        BY <1>1
      <4> QED BY <4>1
    <3>3. 0 \notin Bad
      <4> HIDE DEF z, UpTo
      <4> QED BY <3>1, <3>2
    <3> QED BY <2>1, <3>3
  <2>3. n - 1 \in Nat /\ n - 1 \notin Bad
    <3>1. n \in Nat /\ n - 1 \in Nat
      BY <2>2
    <3> HIDE DEF Bad
    <3>2. n - 1 \in Bad => n <= n - 1
      BY <2>1
    <3>3. ~(n <= n - 1)
      BY <3>1
    <3> QED BY <3>1, <3>2, <3>3
  <2>4. PICK g \in [SUBSET S -> Int] : UpTo(g, n - 1)
    BY <2>3
  <2> DEFINE h == [T \in SUBSET S |-> Sum(g, T)]
  <2>5. h \in [SUBSET S -> Int]
    <3> SUFFICES ASSUME NEW T \in SUBSET S PROVE Sum(g, T) \in Int
      OBVIOUS
    <3>1. CASE T = {}
      BY <3>1
    <3>2. CASE T # {}
      <4>1. f[Picked(T)] \in Int /\ g[T \ {Picked(T)}] \in Int
        BY <1>1, <3>2
      <4> QED BY <3>2, <4>1
    <3> QED BY <3>1, <3>2
  <2>6. UpTo(h, n)
    <3> SUFFICES ASSUME NEW T \in SUBSET S, Cardinality(T) <= n PROVE h[T] = Sum(h, T)
      OBVIOUS
    <3>1. CASE T = {}
      BY <3>1
    <3>2. CASE T # {}
      <4>1. T \ {Picked(T)} \in SUBSET S /\ Cardinality(T \ {Picked(T)}) <= n - 1
        BY <1>1, <2>3, <3>2
      <4>2. g[T \ {Picked(T)}] = Sum(g, T \ {Picked(T)})
        BY <2>4, <4>1
      <4>3. h[T \ {Picked(T)}] = Sum(g, T \ {Picked(T)})
        BY <4>1
      <4> HIDE DEF h
      <4>4. h[T] = Sum(g, T)
        BY DEF h
      <4> QED BY <3>2, <4>2, <4>3, <4>4
    <3> QED BY <3>1, <3>2
  <2>7. n \notin Bad
    <3> HIDE DEF h, UpTo
    <3> QED BY <2>5, <2>6
  <2> QED BY <2>1, <2>7
<1>3. Cardinality(S) \in Nat
  BY FS_CardinalityType
<1>4. PICK g \in [SUBSET S -> Int] : UpTo(g, Cardinality(S))
  <2> HIDE DEF UpTo
  <2> QED BY <1>2, <1>3
<1>5. \A T \in SUBSET S : g[T] = Sum(g, T)
  <2>1. \A T \in SUBSET S : Cardinality(T) <= Cardinality(S)
    BY FS_Subset
  <2> QED BY <1>4, <2>1
<1>6. g = [T \in SUBSET S |-> Sum(g, T)]
  <2> HIDE DEF Sum
  <2> QED BY <1>5
<1> QED BY <1>6 DEF Folded

\* It is unique.
LEMMA FoldedUnique ==
    ASSUME NEW S, IsFiniteSet(S), NEW f, NEW g, NEW h, Folded(g, f, S), Folded(h, f, S)
    PROVE  g = h
<1> DEFINE Diff == {T \in SUBSET S : g[T] # h[T]}
<1>1. SUFFICES Diff = {}
  <2>1. DOMAIN g = SUBSET S /\ DOMAIN h = SUBSET S /\ g = [T \in DOMAIN g |-> g[T]]
        /\ h = [T \in DOMAIN h |-> h[T]]
    BY DEF Folded
  <2> QED BY <1>1, <2>1
<1> SUFFICES ASSUME Diff # {} PROVE FALSE
  OBVIOUS
<1>2. PICK T \in Diff : \A U \in SUBSET T : U # T => U \notin Diff
  <2>1. Diff \in SUBSET SUBSET S
    OBVIOUS
  <2> HIDE DEF Diff
  <2> QED BY <2>1, Smallest
<1>3. /\ g[T] = IF T = {} THEN 0 ELSE f[Picked(T)] + g[T \ {Picked(T)}]
      /\ h[T] = IF T = {} THEN 0 ELSE f[Picked(T)] + h[T \ {Picked(T)}]
  BY DEF Folded
<1>4. T # {}
  BY <1>3
<1>5. T \ {Picked(T)} \notin Diff
  BY <1>2, <1>4, PickedIn
<1> QED BY <1>3, <1>4, <1>5

\* What the library's sum is
LEMMA SumFolded ==
    ASSUME NEW S, IsFiniteSet(S), NEW f, \A x \in S : f[x] \in Int,
           NEW g, Folded(g, f, S)
    PROVE  SumFunctionOnSet(f, S) = g[S]
<1> DEFINE k == CHOOSE k : k = [T \in SUBSET S |-> IF T = {} THEN 0
                                   ELSE f[Picked(T)] + k[T \ {Picked(T)}]]
<1>1. SumFunctionOnSet(f, S) = k[S]
  BY DEF SumFunctionOnSet, FoldFunctionOnSet, MapThenFoldSet, Picked
<1>2. Folded(k, f, S)
  BY DEF Folded
<1>3. k = g
  <2> HIDE DEF k
  <2> QED BY <1>2, FoldedUnique
<1> QED BY <1>1, <1>3

\* A sum over a finite set is an integer; over the empty set it is 0.
LEMMA SumFirst ==
    ASSUME NEW S, IsFiniteSet(S), NEW f, \A x \in S : f[x] \in Int
    PROVE  /\ SumFunctionOnSet(f, S) \in Int
           /\ SumFunctionOnSet(f, {}) = 0
           /\ S # {} => SumFunctionOnSet(f, S)
                            = f[Picked(S)] + SumFunctionOnSet(f, S \ {Picked(S)})
<1>1. PICK g \in [SUBSET S -> Int] : Folded(g, f, S)
  BY FoldedExists
<1>2. ASSUME NEW T \in SUBSET S PROVE SumFunctionOnSet(f, T) = g[T]
  <2> DEFINE r == [U \in SUBSET T |-> g[U]]
  <2>1. r = [U \in SUBSET T |-> IF U = {} THEN 0 ELSE f[Picked(U)] + r[U \ {Picked(U)}]]
    <3>1. ASSUME NEW U \in SUBSET T
          PROVE  r[U] = IF U = {} THEN 0 ELSE f[Picked(U)] + r[U \ {Picked(U)}]
      <4>1. r[U] = g[U] /\ U \in SUBSET S /\ r[U \ {Picked(U)}] = g[U \ {Picked(U)}]
        OBVIOUS
      <4>2. g[U] = IF U = {} THEN 0 ELSE f[Picked(U)] + g[U \ {Picked(U)}]
        BY <1>1, <4>1 DEF Folded
      <4> QED BY <4>1, <4>2
    <3> QED BY <3>1
  <2>2. Folded(r, f, T) /\ r[T] = g[T]
    BY <2>1 DEF Folded
  <2>3. IsFiniteSet(T) /\ \A x \in T : f[x] \in Int
    BY FS_Subset
  <2> HIDE DEF r
  <2> QED BY <2>2, <2>3, SumFolded
<1>3. SumFunctionOnSet(f, S) = g[S] /\ SumFunctionOnSet(f, {}) = g[{}]
      /\ SumFunctionOnSet(f, S \ {Picked(S)}) = g[S \ {Picked(S)}]
  BY <1>2
<1>4. g[{}] = 0 /\ g[S] \in Int
  BY <1>1 DEF Folded
<1>5. S # {} => g[S] = f[Picked(S)] + g[S \ {Picked(S)}]
  BY <1>1 DEF Folded
<1> QED BY <1>3, <1>4, <1>5

\* Any element may be taken out of a sum.
LEMMA SumRemove ==
    ASSUME NEW S, IsFiniteSet(S), NEW f, \A x \in S : f[x] \in Int, NEW x \in S
    PROVE  SumFunctionOnSet(f, S) = f[x] + SumFunctionOnSet(f, S \ {x})
<1> DEFINE Sum(T) == SumFunctionOnSet(f, T)
           Bad == {T \in SUBSET S : \E y \in T : Sum(T) # f[y] + Sum(T \ {y})}
<1>1. ASSUME NEW T \in SUBSET S
      PROVE  Sum(T) \in Int /\ (T # {} => Sum(T) = f[Picked(T)] + Sum(T \ {Picked(T)}))
  <2>1. IsFiniteSet(T) /\ \A y \in T : f[y] \in Int
    BY FS_Subset
  <2> QED BY <2>1, SumFirst
<1> HIDE DEF Sum
<1> SUFFICES ASSUME Bad # {} PROVE FALSE
  BY DEF Sum
<1>2. PICK T \in Bad : \A U \in SUBSET T : U # T => U \notin Bad
  <2>1. Bad \in SUBSET SUBSET S
    OBVIOUS
  <2> HIDE DEF Bad
  <2> QED BY <2>1, Smallest
<1>3. PICK y \in T : Sum(T) # f[y] + Sum(T \ {y})
  OBVIOUS
<1> DEFINE c == Picked(T)
<1>4. c \in T /\ T \in SUBSET S
  BY <1>3, PickedIn
<1>5. c # y
  BY <1>1, <1>3, <1>4
<1> HIDE DEF c
<1>6. Sum(T) = f[c] + Sum(T \ {c})
  BY <1>1, <1>4 DEF c
<1>7. Sum(T \ {c}) = f[y] + Sum((T \ {c}) \ {y})
  <2>1. T \ {c} \notin Bad
    BY <1>2, <1>4
  <2> QED BY <1>4, <1>5, <2>1
<1>8. Sum(T \ {y}) = f[c] + Sum((T \ {y}) \ {c})
  <2>1. T \ {y} \notin Bad
    BY <1>2, <1>3
  <2> QED BY <1>4, <1>5, <2>1
<1>9. (T \ {y}) \ {c} = (T \ {c}) \ {y}
  OBVIOUS
<1>10. f[c] \in Int /\ f[y] \in Int /\ Sum((T \ {c}) \ {y}) \in Int
  BY <1>1, <1>4
<1>11. Sum((T \ {y}) \ {c}) = Sum((T \ {c}) \ {y})
  BY <1>9
<1> DEFINE k == Sum((T \ {c}) \ {y})
<1>12. f[c] + (f[y] + k) = f[y] + (f[c] + k)
  <2>1. k \in Int
    BY <1>10
  <2> HIDE DEF k
  <2> QED BY <1>10, <2>1
<1> QED BY <1>3, <1>6, <1>7, <1>8, <1>11, <1>12

\* What is added up element by element is the sum.
LEMMA SumUnique ==
    ASSUME NEW S, IsFiniteSet(S), NEW f, \A x \in S : f[x] \in Int,
           NEW G, G[{}] = 0,
           \A T \in SUBSET S : \A x \in T : G[T \ {x}] \in Int => G[T] = f[x] + G[T \ {x}]
    PROVE  G[S] = SumFunctionOnSet(f, S)
<1> DEFINE Bad == {T \in SUBSET S : G[T] # SumFunctionOnSet(f, T)}
<1> SUFFICES ASSUME Bad # {} PROVE FALSE
  OBVIOUS
<1>1. PICK T \in Bad : \A U \in SUBSET T : U # T => U \notin Bad
  <2>1. Bad \in SUBSET SUBSET S
    OBVIOUS
  <2> HIDE DEF Bad
  <2> QED BY <2>1, Smallest
<1>2. IsFiniteSet(T) /\ \A x \in T : f[x] \in Int
  BY FS_Subset
<1>3. T # {}
  BY <1>2, SumFirst
<1>4. PICK x \in T : TRUE
  BY <1>3
<1>5. G[T \ {x}] = SumFunctionOnSet(f, T \ {x})
  BY <1>1
<1>6. SumFunctionOnSet(f, T \ {x}) \in Int
  <2>1. IsFiniteSet(T \ {x}) /\ \A y \in T \ {x} : f[y] \in Int
    BY <1>2, FS_Subset
  <2> QED BY <2>1, SumFirst
<1>7. G[T] = f[x] + G[T \ {x}]
  BY <1>5, <1>6
<1>8. SumFunctionOnSet(f, T) = f[x] + SumFunctionOnSet(f, T \ {x})
  BY <1>2, SumRemove
<1> QED BY <1>5, <1>7, <1>8

\* The sum depends on the summands only.
LEMMA SumSame ==
    ASSUME NEW S, IsFiniteSet(S), NEW f, NEW g, \A x \in S : f[x] \in Int /\ g[x] = f[x]
    PROVE  SumFunctionOnSet(g, S) = SumFunctionOnSet(f, S)
<1> DEFINE G == [T \in SUBSET S |-> SumFunctionOnSet(g, T)]
<1>1. G[{}] = 0
  BY SumFirst
<1>2. ASSUME NEW T \in SUBSET S, NEW x \in T PROVE G[T] = f[x] + G[T \ {x}]
  <2>1. IsFiniteSet(T) /\ \A y \in T : g[y] \in Int
    BY FS_Subset
  <2>2. SumFunctionOnSet(g, T) = g[x] + SumFunctionOnSet(g, T \ {x})
    BY <2>1, SumRemove
  <2> QED BY <2>2
<1>3. G[S] = SumFunctionOnSet(g, S)
  OBVIOUS
<1> HIDE DEF G
<1>4. /\ \A x \in S : f[x] \in Int
      /\ \A T \in SUBSET S : \A x \in T :
            G[T \ {x}] \in Int => G[T] = f[x] + G[T \ {x}]
  BY <1>2
<1>5. G[S] = SumFunctionOnSet(f, S)
  BY <1>1, <1>4, SumUnique
<1> QED BY <1>3, <1>5

\* Sums over the same set are added summand by summand.
LEMMA SumPlus ==
    ASSUME NEW S, IsFiniteSet(S), NEW f, NEW g, NEW h,
           \A x \in S : f[x] \in Int /\ g[x] \in Int /\ h[x] = f[x] + g[x]
    PROVE  SumFunctionOnSet(h, S) = SumFunctionOnSet(f, S) + SumFunctionOnSet(g, S)
<1> DEFINE G == [T \in SUBSET S |-> SumFunctionOnSet(f, T) + SumFunctionOnSet(g, T)]
<1>1. G[{}] = 0
  <2>1. SumFunctionOnSet(f, {}) = 0 /\ SumFunctionOnSet(g, {}) = 0
    <3>1. SumFunctionOnSet(f, {}) = 0
      BY SumFirst
    <3>2. SumFunctionOnSet(g, {}) = 0
      BY SumFirst
    <3> QED BY <3>1, <3>2
  <2> QED BY <2>1
<1>2. ASSUME NEW T \in SUBSET S, NEW x \in T PROVE G[T] = h[x] + G[T \ {x}]
  <2>1. /\ IsFiniteSet(T) /\ IsFiniteSet(T \ {x})
        /\ \A y \in T : f[y] \in Int /\ g[y] \in Int
    BY FS_Subset
  <2>2. SumFunctionOnSet(g, T) = g[x] + SumFunctionOnSet(g, T \ {x})
    BY <2>1, SumRemove
  <2>3. SumFunctionOnSet(f, T) = f[x] + SumFunctionOnSet(f, T \ {x})
    BY <2>1, SumRemove
  <2>4. SumFunctionOnSet(f, T \ {x}) \in Int
    BY <2>1, SumFirst
  <2>5. SumFunctionOnSet(g, T \ {x}) \in Int
    BY <2>1, SumFirst
  <2>6. h[x] = f[x] + g[x] /\ f[x] \in Int /\ g[x] \in Int
    OBVIOUS
  <2> QED BY <2>2, <2>3, <2>4, <2>5, <2>6
<1>3. G[S] = SumFunctionOnSet(f, S) + SumFunctionOnSet(g, S)
  OBVIOUS
<1>4. \A x \in S : h[x] \in Int
  OBVIOUS
<1> HIDE DEF G
<1>5. G[S] = SumFunctionOnSet(h, S)
  BY <1>1, <1>2, <1>4, SumUnique
<1> QED BY <1>3, <1>5

\* Summands that are 0 do not count.
LEMMA SumSupport ==
    ASSUME NEW S, IsFiniteSet(S), NEW f, NEW R \in SUBSET S,
           \A x \in S : f[x] \in Int /\ (x \notin R => f[x] = 0)
    PROVE  SumFunctionOnSet(f, S) = SumFunctionOnSet(f, R)
<1> DEFINE G == [T \in SUBSET S |-> SumFunctionOnSet(f, T \cap R)]
<1>1. G[{}] = 0
  BY SumFirst, {} \cap R = {}
<1>2. ASSUME NEW T \in SUBSET S, NEW x \in T, G[T \ {x}] \in Int PROVE G[T] = f[x] + G[T \ {x}]
  <2>1. IsFiniteSet(T \cap R) /\ \A y \in T \cap R : f[y] \in Int
    BY FS_Subset
  <2>2. CASE x \in R
    <3>1. SumFunctionOnSet(f, T \cap R) = f[x] + SumFunctionOnSet(f, (T \cap R) \ {x})
      BY <2>1, <2>2, SumRemove
    <3>2. (T \cap R) \ {x} = (T \ {x}) \cap R
      OBVIOUS
    <3> QED BY <3>1, <3>2
  <2>3. CASE x \notin R
    <3>1. T \cap R = (T \ {x}) \cap R /\ f[x] = 0
      BY <2>3
    <3>2. G[T] = G[T \ {x}]
      BY <3>1
    <3> QED BY <1>2, <3>1, <3>2
  <2> QED BY <2>2, <2>3
<1>3. G[S] = SumFunctionOnSet(f, R)
  BY S \cap R = R
<1> HIDE DEF G
<1>4. G[S] = SumFunctionOnSet(f, S)
  BY <1>1, <1>2, SumUnique
<1> QED BY <1>3, <1>4

\* A sum of naturals is a natural number.
LEMMA SumNat ==
    ASSUME NEW S, IsFiniteSet(S), NEW f, \A x \in S : f[x] \in Nat
    PROVE  SumFunctionOnSet(f, S) \in Nat
<1> DEFINE Bad == {T \in SUBSET S : SumFunctionOnSet(f, T) \notin Nat}
<1> SUFFICES ASSUME Bad # {} PROVE FALSE
  OBVIOUS
<1>1. PICK T \in Bad : \A U \in SUBSET T : U # T => U \notin Bad
  <2>1. Bad \in SUBSET SUBSET S
    OBVIOUS
  <2> HIDE DEF Bad
  <2> QED BY <2>1, Smallest
<1>2. IsFiniteSet(T) /\ \A x \in T : f[x] \in Int
  BY FS_Subset
<1>3. T # {}
  <2>1. SumFunctionOnSet(f, {}) = 0
    BY <1>2, SumFirst
  <2> QED BY <2>1
<1>4. Picked(T) \in T
  BY <1>3, PickedIn
<1>5. SumFunctionOnSet(f, T \ {Picked(T)}) \in Nat
  BY <1>1, <1>4
<1>6. SumFunctionOnSet(f, T) = f[Picked(T)] + SumFunctionOnSet(f, T \ {Picked(T)})
  BY <1>2, <1>3, SumFirst
<1> QED BY <1>4, <1>5, <1>6

\* Changing one summand changes the sum by as much.
LEMMA SumChange ==
    ASSUME NEW S, IsFiniteSet(S), NEW f, NEW g, NEW x \in S, g[x] \in Int,
           \A y \in S : f[y] \in Int /\ (y # x => g[y] = f[y])
    PROVE  SumFunctionOnSet(g, S) = SumFunctionOnSet(f, S) - f[x] + g[x]
<1>1. SumFunctionOnSet(f, S) = f[x] + SumFunctionOnSet(f, S \ {x})
  BY SumRemove
<1>2. SumFunctionOnSet(g, S) = g[x] + SumFunctionOnSet(g, S \ {x})
  <2>1. \A y \in S : g[y] \in Int
    OBVIOUS
  <2> QED BY <2>1, SumRemove
<1>3. IsFiniteSet(S \ {x}) /\ \A y \in S \ {x} : f[y] \in Int /\ g[y] = f[y]
  BY FS_Subset
<1>4. SumFunctionOnSet(g, S \ {x}) = SumFunctionOnSet(f, S \ {x})
  BY <1>3, SumSame
<1>5. SumFunctionOnSet(f, S \ {x}) \in Int
  BY <1>3, SumFirst
<1> QED BY <1>1, <1>2, <1>4, <1>5

\* Larger summands, larger sum
LEMMA SumLe ==
    ASSUME NEW S, IsFiniteSet(S), NEW f, NEW g,
           \A x \in S : f[x] \in Int /\ g[x] \in Int /\ f[x] <= g[x]
    PROVE  SumFunctionOnSet(f, S) <= SumFunctionOnSet(g, S)
<1> DEFINE h == [x \in S |-> g[x] - f[x]]
<1>1. \A x \in S : h[x] \in Nat /\ g[x] = f[x] + h[x]
  OBVIOUS
<1> HIDE DEF h
<1>2. SumFunctionOnSet(g, S) = SumFunctionOnSet(f, S) + SumFunctionOnSet(h, S)
  BY <1>1, SumPlus
<1>3. SumFunctionOnSet(h, S) \in Nat
  BY <1>1, SumNat
<1>4. SumFunctionOnSet(f, S) \in Int
  BY SumFirst
<1> QED BY <1>2, <1>3, <1>4

\* A function on part of S and its extension by zeros have the same sum.
LEMMA SumExtends ==
    ASSUME NEW S, IsFiniteSet(S), NEW f, NEW g, DOMAIN f \subseteq S, DOMAIN g = S,
           \A x \in S : g[x] \in Int /\ g[x] = IF x \in DOMAIN f THEN f[x] ELSE 0
    PROVE  SumFunction(f) = SumFunction(g)
<1> DEFINE R == DOMAIN f
<1>1. IsFiniteSet(R) /\ R \in SUBSET S
  BY FS_Subset
<1>2. \A x \in R : g[x] \in Int /\ f[x] = g[x]
  OBVIOUS
<1>3. \A x \in S : g[x] \in Int /\ (x \notin R => g[x] = 0)
  OBVIOUS
<1> HIDE DEF R
<1>4. SumFunctionOnSet(f, R) = SumFunctionOnSet(g, R)
  BY <1>1, <1>2, SumSame
<1>5. SumFunctionOnSet(g, S) = SumFunctionOnSet(g, R)
  BY <1>1, <1>3, SumSupport
<1> QED BY <1>4, <1>5 DEF SumFunction, R

===============================================================================

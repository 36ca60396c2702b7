----------------------------- MODULE RadixCache -----------------------------
(***************************************************************************)
(* The shared KV prefix cache: CacheManager (scheduler/cache.py) over       *)
(* RadixPrefixCache (kvcache/radix_cache.py), driven by the requests of     *)
(* the scheduler: admission with a prefix match, paged allocation with      *)
(* eviction, the commit of a finished prefill, the finish (or abort) of a   *)
(* request.                                                                 *)
(*                                                                         *)
(* A radix node is named by the token path from the root to its end, which  *)
(* a split never changes; its key is the part of the path below its parent. *)
(* Which unlocked leaf is evicted first (the heap is ordered by access      *)
(* time) is left open.                                                      *)
(***************************************************************************)
EXTENDS Integers, Sequences, FiniteSets, FiniteSetsExt, Functions, SequencesExt

CONSTANTS
    Req,       \* request objects; one is reused after it has ended
    Multimodal,\* the requests that carry image embeddings
    Page,      \* KV pages
    Tok,       \* token ids
    Prompts,   \* prompts that arrive
    OutLens,   \* max_tokens that arrive
    PageSize   \* tokens per page

ASSUME RadixConstants ==
    /\ Multimodal \subseteq Req
    /\ Prompts \subseteq Seq(Tok) \ {<<>>} /\ OutLens \subseteq Nat \ {0}
    /\ PageSize \in Nat \ {0}
    /\ IsFiniteSet(Req) /\ IsFiniteSet(Page)

VARIABLES
    nodes,     \* the radix nodes, the root excluded, by path
    ref,       \* ref_count of each node
    value,     \* page of every cached page-aligned prefix (the nodes' values)
    evictable, \* evictable_size
    protected, \* protected_size
    free,      \* free_slots, as a bag
    req,       \* Req objects
    alloc,     \* the allocate_paged call under way
    kv         \* ghost: the token path whose KV each page holds

treeVars == <<nodes, ref, value, evictable, protected>>
vars == <<treeVars, free, req, alloc, kv>>

-----------------------------------------------------------------------------
DivCeil(a, b) == (a + b - 1) \div b
AlignDown(n)  == (n \div PageSize) * PageSize
Upto(s, n)    == SubSeq(s, 1, n)

Idle    == [active |-> FALSE, toks |-> <<>>, plen |-> 0, max |-> 0, cached |-> 0,
            hlen |-> 0, row |-> <<>>, committed |-> FALSE]
NoAlloc == [req |-> "none", upto |-> 0]

Active == {r \in Req : req[r].active}

\* Pages of the free list, and how many of its entries there are
FreeCount == SumFunction(free)
\* CacheManager.available_size
Available == evictable + FreeCount * PageSize

\* The end of the parent of a node, the length of its key
ParentLen(ns, n) == LET above == {Len(m) : m \in {k \in ns : IsStrictPrefix(k, n)}}
                    IN IF above = {} THEN 0 ELSE Max(above)
KeyLen(ns, n) == Len(n) - ParentLen(ns, n)

\* Tokens in the keys of some of the nodes
KeyTokens(ns, some) == SumFunction([n \in some |-> KeyLen(ns, n)])

\* get_match_len over the walk: the longest cached page-aligned prefix of ids
MatchLen(ids) == Max({0} \cup {k \in 1 .. Len(ids) : Upto(ids, k) \in DOMAIN value})

\* Mutant of SplitRef: the new prefix node starts unlocked.
SplitRefZero(path) == 0

\* RadixTreeNode.split_at: the new prefix node takes over the ref_count of the node it splits.
SplitRef(path) ==
    ref[CHOOSE n \in nodes : IsPrefix(path, n) /\ \A m \in nodes : IsPrefix(path, m) => Len(n) <= Len(m)]

\* _tree_walk: the nodes after walking to path, which is split off when it ends inside a node
WalkNodes(path) == IF path = <<>> THEN nodes ELSE nodes \cup {path}
WalkRef(path) ==
    [n \in WalkNodes(path) |-> IF n \in nodes THEN ref[n] ELSE SplitRef(path)]

\* Handles lock the path from their node to the root.
OnPath(ns, path) == {n \in ns : IsPrefix(n, path)}
LockRef(rf, path, d) ==
    [n \in DOMAIN rf |-> IF IsPrefix(n, path) THEN rf[n] + d ELSE rf[n]]
\* Tokens whose node goes from ref_count 0 to 1 (lock) or from 1 to 0 (unlock)
Crossing(rf, path, at) ==
    KeyTokens(DOMAIN rf, {n \in OnPath(DOMAIN rf, path) : rf[n] = at})

\* Mutant of Claim: only the prompt is counted.
ClaimPrompt(r) == IF req[r].cached < req[r].plen THEN req[r].plen - req[r].cached ELSE 0

\* Tokens a request may still ask the allocator for: the adder's reservation for one whose prompt
\* is not through, inflight_tokens of one that can still decode, nothing of any other.
Claim(r) ==
    LET left == req[r].max - req[r].cached
    IN CASE req[r].cached < req[r].plen -> left
         [] req[r].cached >= req[r].plen /\ left > 1 -> left - 1 + (PageSize - 1)
         [] OTHER -> 0
ReservedSize == SumFunction([r \in Active |-> Claim(r)])

-----------------------------------------------------------------------------
Init ==
    /\ nodes = {} /\ ref = <<>> /\ value = <<>> /\ evictable = 0 /\ protected = 0
    /\ free = [p \in Page |-> 1]
    /\ req = [r \in Req |-> Idle]
    /\ alloc = NoAlloc
    /\ kv = [p \in Page |-> <<>>]

-----------------------------------------------------------------------------
(* Admission: match_req and PrefillAdder._try_allocate_one *)

\* The prefix a request may reuse: never its last token, nothing for a multimodal request.
Matched(r, ids) == IF r \in Multimodal THEN <<>> ELSE Upto(ids, MatchLen(Upto(ids, Len(ids) - 1)))

\* Mutant of Locked: the matched prefix is used without a lock.
LockedNot(path) == [ref |-> WalkRef(path), moved |-> 0]

\* cache_manager.lock(handle): the ref counts, and the tokens that stop being evictable
Locked(path) == [ref |-> LockRef(WalkRef(path), path, 1), moved |-> Crossing(WalkRef(path), path, 0)]

Admit(r, ids, out) ==
    /\ alloc = NoAlloc /\ r \notin Active
    /\ LET path == Matched(r, ids)
           est  == Len(ids) - Len(path) + out
           lock == Locked(path)
       IN /\ nodes' = WalkNodes(path)
          /\ \/ \* both estimates fit: lock, take the matched pages into the row
                /\ est + ReservedSize <= Available
                /\ est + ReservedSize <= Available - lock.moved
                /\ ref' = lock.ref
                /\ evictable' = evictable - lock.moved
                /\ protected' = protected + lock.moved
                /\ req' = [req EXCEPT ![r] =
                      [active |-> TRUE, toks |-> ids, plen |-> Len(ids), max |-> Len(ids) + out,
                       cached |-> Len(path), hlen |-> Len(path), committed |-> FALSE,
                       row |-> [i \in 1 .. (Len(path) \div PageSize) |->
                                   value[Upto(path, i * PageSize)]]]]
             \/ \* refused, before the lock or by the second look after it
                /\ est + ReservedSize > Available - lock.moved
                /\ ref' = WalkRef(path)
                /\ UNCHANGED <<evictable, protected, req>>
    /\ UNCHANGED <<value, free, alloc, kv>>

-----------------------------------------------------------------------------
(* allocate_paged for the next forward of a request: a chunk of its prompt, or one decode *)

PagesFor(r, n) == DivCeil(n, PageSize) - DivCeil(req[r].cached, PageSize)

Prefill(r, n) ==
    /\ alloc = NoAlloc /\ r \in Active
    /\ req[r].cached < n /\ n <= req[r].plen
    /\ alloc' = [req |-> r, upto |-> n]
    /\ UNCHANGED <<treeVars, free, req, kv>>

\* One decode step; with overlap one step may be launched before the prefill is committed.
Decode(r, t) ==
    /\ alloc = NoAlloc /\ r \in Active
    /\ req[r].cached >= req[r].plen /\ req[r].cached + 1 < req[r].max
    /\ req[r].committed \/ req[r].cached = req[r].plen
    /\ req' = [req EXCEPT ![r].toks = Append(@, t)]
    /\ alloc' = [req |-> r, upto |-> req[r].cached + 1]
    /\ UNCHANGED <<treeVars, free, kv>>

\* _collect_leave_nodes_for_evict
Leaves == {n \in nodes : ref[n] = 0 /\ \A m \in nodes : ~IsStrictPrefix(n, m)}

\* One turn of RadixPrefixCache.evict, called by _allocate while the free list is short
EvictOne(n) ==
    /\ alloc # NoAlloc /\ PagesFor(alloc.req, alloc.upto) > FreeCount
    /\ n \in Leaves
    /\ LET gone == {q \in DOMAIN value : IsPrefix(q, n) /\ Len(q) > ParentLen(nodes, n)}
       IN /\ nodes' = nodes \ {n}
          /\ ref' = [m \in nodes \ {n} |-> ref[m]]
          /\ value' = [q \in DOMAIN value \ gone |-> value[q]]
          /\ free' = [p \in Page |-> free[p] + Cardinality({q \in gone : value[q] = p})]
          /\ evictable' = evictable - KeyLen(nodes, n)
    /\ UNCHANGED <<protected, req, alloc, kv>>

\* The pages are taken, written into the row, and the forward writes their KV.
Extend(pages) ==
    /\ alloc # NoAlloc
    /\ LET r   == alloc.req
           row == req[r].row \o pages
       IN /\ Len(pages) = PagesFor(r, alloc.upto)
          /\ IsInjective(pages) /\ \A i \in 1 .. Len(pages) : free[pages[i]] > 0
          /\ free' = [p \in Page |-> free[p] - (IF Contains(pages, p) THEN 1 ELSE 0)]
          /\ req' = [req EXCEPT ![r].row = row, ![r].cached = alloc.upto]
          /\ kv' = [p \in Page |->
                LET at == {i \in 1 .. Len(row) : row[i] = p /\ i * PageSize > req[r].cached}
                IN IF at = {} THEN kv[p]
                   ELSE LET end == Max(at) * PageSize
                        IN Upto(req[r].toks, IF end > alloc.upto THEN alloc.upto ELSE end)]
    /\ alloc' = NoAlloc
    /\ UNCHANGED treeVars

-----------------------------------------------------------------------------
(* CacheManager.cache_req *)

\* insert_prefix of ids: the tree after it.  Only a full match inserts nothing.
Inserted(ids, row) ==
    LET m    == Upto(ids, MatchLen(ids))
        ns   == WalkNodes(m) \cup (IF ids = <<>> THEN {} ELSE {ids})
    IN [match |-> Len(m),
        nodes |-> ns,
        ref   |-> [n \in ns |-> IF n \in WalkNodes(m) THEN WalkRef(m)[n] ELSE 0],
        value |-> [q \in DOMAIN value \cup {Upto(ids, i * PageSize) : i \in 1 .. (Len(ids) \div PageSize)}
                     |-> IF q \in DOMAIN value THEN value[q] ELSE row[Len(q) \div PageSize]]]

\* Pages row[i] for the token span [from, to), one entry of the free list each
Span(row, from, to) == {i \in 1 .. Len(row) : (i - 1) * PageSize >= from /\ (i - 1) * PageSize < to}
FreePages(row, is) == [p \in Page |-> free[p] + Cardinality({i \in is : row[i] = p})]

\* What cache_req inserts: the written tokens, whole pages only
InsertIds(q) == Upto(q.toks, AlignDown(q.cached))

\* Mutant of Repointed: the row keeps the duplicate pages that were just freed.
RepointedNot(row, val, ids) == row

\* The deduplicated span of the row is pointed at the tree's pages.
Repointed(row, val, ids) ==
    [i \in 1 .. Len(row) |-> IF i * PageSize <= Len(ids) THEN val[Upto(ids, i * PageSize)] ELSE row[i]]

\* The pages another request has cached since this one was admitted: [old_handle, match)
DupSpan(q, match) == Span(q.row, q.hlen, match)

\* Mutant of TailSpan: the tail ends at cached_len aligned down, the partial page is forgotten.
TailSpanAligned(q, from) == Span(q.row, from, AlignDown(q.cached))

\* _padded_tail: [from, page_ceil(cached_len))
TailSpan(q, from) == Span(q.row, from, DivCeil(q.cached, PageSize) * PageSize)

\* insert, then unlock the old handle: ref counts and sizes
Unlocked(rf, path) ==
    [ref |-> LockRef(rf, path, -1), moved |-> Crossing(rf, path, 1)]

\* The commit of a prefill (finished=False): the request goes on with a handle on its prompt.
Commit(r) ==
    /\ alloc = NoAlloc /\ r \in Active /\ ~req[r].committed /\ req[r].cached >= req[r].plen
    /\ req[r].cached + 1 < req[r].max
    /\ IF r \in Multimodal
       THEN /\ req' = [req EXCEPT ![r].committed = TRUE]
            /\ UNCHANGED <<treeVars, free>>
       ELSE LET q   == req[r]
                ids == InsertIds(q)
                t   == Inserted(ids, q.row)
                u   == Unlocked(t.ref, Upto(q.toks, q.hlen))
                l   == [ref |-> LockRef(u.ref, ids, 1), moved |-> Crossing(u.ref, ids, 0)]
                new == Len(ids) - t.match
            IN /\ nodes' = t.nodes /\ value' = t.value /\ ref' = l.ref
               /\ evictable' = evictable + new + u.moved - l.moved
               /\ protected' = protected - u.moved + l.moved
               /\ free' = FreePages(q.row, DupSpan(q, t.match))
               /\ req' = [req EXCEPT ![r].row = Repointed(q.row, t.value, ids),
                                     ![r].hlen = Len(ids), ![r].committed = TRUE]
    /\ UNCHANGED <<alloc, kv>>

\* The end of a request, by finish or abort, in a prompt chunk or later (finished=True)
Finish(r) ==
    /\ alloc = NoAlloc /\ r \in Active
    /\ req[r].committed \/ req[r].cached > req[r].hlen
    /\ LET q == req[r]
       IN IF r \in Multimodal
          THEN /\ free' = FreePages(q.row, TailSpan(q, q.hlen))
               /\ UNCHANGED treeVars
          ELSE LET ids == InsertIds(q)
                   t   == Inserted(ids, q.row)
                   u   == Unlocked(t.ref, Upto(q.toks, q.hlen))
               IN /\ nodes' = t.nodes /\ value' = t.value /\ ref' = u.ref
                  /\ evictable' = evictable + (Len(ids) - t.match) + u.moved
                  /\ protected' = protected - u.moved
                  /\ free' = FreePages(q.row, DupSpan(q, t.match) \cup TailSpan(q, Len(ids)))
    /\ req' = [req EXCEPT ![r] = Idle]
    /\ UNCHANGED <<alloc, kv>>

-----------------------------------------------------------------------------
Next ==
    \/ \E r \in Req, ids \in Prompts, out \in OutLens : Admit(r, ids, out)
    \/ \E r \in Req : \E n \in 1 .. req[r].plen : Prefill(r, n)
    \/ \E r \in Req, t \in Tok : Decode(r, t)
    \/ \E n \in nodes : EvictOne(n)
    \/ alloc # NoAlloc /\ \E pages \in [1 .. PagesFor(alloc.req, alloc.upto) -> Page] : Extend(pages)
    \/ \E r \in Req : Commit(r) \/ Finish(r)

Spec == Init /\ [][Next]_vars

-----------------------------------------------------------------------------
(* Properties *)

\* The types of the tree and the pool; evictable_size and protected_size never go below zero.
TypeOK ==
    /\ nodes \subseteq Seq(Tok) /\ ref \in [nodes -> Nat]
    /\ DOMAIN value \subseteq Seq(Tok) /\ Range(value) \subseteq Page
    /\ evictable \in Nat /\ protected \in Nat /\ free \in [Page -> Nat]

\* Pages a request owns itself: those of its row beyond its handle
Own(r) == {req[r].row[i] : i \in {j \in 1 .. Len(req[r].row) : j * PageSize > req[r].hlen}}

\* Every page is on the free list once, or in the tree once, or owned by one request: dedup,
\* eviction, commit and finish neither lose a page nor give one out twice.
PagesPartitioned ==
    \A p \in Page :
        free[p] + Cardinality({q \in DOMAIN value : value[q] = p})
                + Cardinality({r \in Active : p \in Own(r)}) = 1

\* What attention reads through the row of an active request is the KV of its own tokens, and
\* a prefix that admission may hand out is the KV it stands for, after any dedup, re-point,
\* eviction and reuse of pages by others.
KVInPlace ==
    /\ \A r \in Active : \A i \in 1 .. Len(req[r].row) :
           LET end == IF i * PageSize < req[r].cached THEN i * PageSize ELSE req[r].cached
           IN kv[req[r].row[i]] = Upto(req[r].toks, end)
    /\ \A q \in DOMAIN value : kv[value[q]] = q

\* A node is locked by exactly the handles below it: a split, insert or eviction in between
\* shifts no reference (otherwise pages are pinned for ever, or evicted under a reader); and
\* evictable_size and protected_size, the numbers admission trusts, are those of the tree.
CountersMatchTree ==
    /\ \A n \in nodes :
           ref[n] = Cardinality({r \in Active : IsPrefix(n, Upto(req[r].toks, req[r].hlen))})
    /\ evictable = KeyTokens(nodes, {n \in nodes : ref[n] = 0})
    /\ protected = KeyTokens(nodes, {n \in nodes : ref[n] > 0})
    /\ evictable + protected = PageSize * Cardinality(DOMAIN value)

\* An allocation under way never runs out of leaves to evict ("Eviction did not free enough
\* space."): admission counted with every page the requests it let in will need.
EvictionSuffices ==
    alloc # NoAlloc => PagesFor(alloc.req, alloc.upto) <= FreeCount \/ Leaves # {}
=============================================================================

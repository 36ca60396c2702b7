SPECIFICATION Spec
CONSTANTS
    a = a
    b = b
    Req = {r1, r2, m1}
    Multimodal = {m1}
    Page = {p1, p2, p3, p4}
    Tok = {a, b}
    Prompts <- PagedPrompts
    OutLens = {1, 3}
    PageSize = 2
SYMMETRY Symm
INVARIANTS TypeOK PagesPartitioned KVInPlace CountersMatchTree EvictionSuffices

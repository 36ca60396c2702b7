---------------------------- MODULE MCRadixCache ----------------------------
(* Small instances of RadixCache for TLC. *)
EXTENDS RadixCache, TLC

CONSTANTS a, b

\* Prompts that share prefixes, end inside one another, and diverge in a page
PagedPrompts == {<<a, a, b>>, <<a, a, b, a, b>>}
Symm == Permutations(Page)
=============================================================================

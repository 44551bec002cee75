--------------------------- MODULE MCKVCacheManager ---------------------------
(* KVCacheManager on small instances. *)
EXTENDS KVCacheManager, TLC

CONSTANTS h1, h2, h3

\* Two prompts that share their first block and differ in the second one.
MCHashes == {h1, h2, h3}
MCChains == {<<>>, <<h1>>, <<h1, h2>>, <<h1, h3>>}

Symmetry == Permutations(Blocks) \cup Permutations(Reqs)
=============================================================================

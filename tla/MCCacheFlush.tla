--------------------------- MODULE MCCacheFlush ---------------------------
(* Instances of CacheFlush for TLC: one path in the tree that is            *)
(* invalidated recursively and one beside it that has no record, two        *)
(* threads that flush, two calls of invalidate_tree.                        *)
EXTENDS CacheFlush, TLC

CONSTANTS outside, inside, f1, f2, c1, c2

MCPaths == {outside, inside}
MCTree == {inside}
MCFlushers == {f1, f2}
MCClearers == {c1, c2}
MCMaxVersion == [p \in MCPaths |-> IF p = inside THEN 2 ELSE 0]
MCMaxEpoch == MCMaxVersion
Interchangeable == Permutations(MCFlushers) \cup Permutations(MCClearers)
=============================================================================

----------------------------- MODULE MCTokenCache -----------------------------
(* A small renderer for TLC: two keys share the cache's bytes, a third fits *)
(* beside neither, a fourth never fits.                                     *)
EXTENDS TokenCacheProperties, TLC

CONSTANTS short, middle, long, oversize

Costs == short :> 1 @@ middle :> 2 @@ long :> 3 @@ oversize :> 4
Symmetric == Permutations(Threads) \cup Permutations(Tokenizers)
                \cup Permutations(Caches)
=============================================================================

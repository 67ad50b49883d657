----------------------------- MODULE MCPepCache -----------------------------
(* Small instances of PepCache for TLC. *)
EXTENDS PepCache, TLC

CONSTANTS k1, k2, c1, c2

BatchesOfTwo == {<<k1, k2>>, <<k1, k1>>}
NoBatches == {}

Symmetric == Permutations(Caller)

=============================================================================

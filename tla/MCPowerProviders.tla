--------------------------- MODULE MCPowerProviders ---------------------------
(* Two providers from before and one to be created; one device; two calls.    *)
EXTENDS PowerProviders, TLC

CONSTANTS p1, p2, p3, c1, c2

Symmetry == Permutations({p1, p2}) \cup Permutations({c1, c2})
=============================================================================

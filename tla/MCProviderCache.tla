-------------------------- MODULE MCProviderCache --------------------------
(* Two requests, one deployment, caches of one and two blocks.              *)
EXTENDS ProviderCache, TLC

CONSTANTS r1, r2, health

MCCheckTtl == health :> 2

MCSymmetry == Permutations({r1, r2})
=============================================================================

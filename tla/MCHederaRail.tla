---------------------------- MODULE MCHederaRail ----------------------------
(* HederaRail with two requests that carry one payment and one with its own. *)
EXTENDS HederaRail, TLC

CONSTANTS r1, r2, r3, t1, t2

MCTxOf == (r1 :> t1) @@ (r2 :> t1) @@ (r3 :> t2)
=============================================================================

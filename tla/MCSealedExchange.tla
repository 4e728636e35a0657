-------------------------- MODULE MCSealedExchange --------------------------
(***************************************************************************)
(* A small instance of SealedExchange: one envelope sealed by a Hedera     *)
(* account and one by an Arc account.  The window, the TTL and the settle  *)
(* bound keep the order the assumption asks for (4 > 2 * 1 + 1), and the   *)
(* clock runs past the expiry of a nonce committed at any admissible time. *)
(***************************************************************************)
EXTENDS SealedExchange, TLC

CONSTANTS r1, r2, eHedera, eArc, hAcct, aAcct

MCRequests  == {r1, r2}
MCEnvelopes == {eHedera, eArc}
MCPayers    == {hAcct, aAcct}
MCPayersOn  == [rail \in Rails |-> IF rail = "hedera" THEN {hAcct} ELSE {aAcct}]
MCPayerOf   == [e \in Envelopes |-> IF e = eArc THEN aAcct ELSE hAcct]

Symmetry == Permutations(Requests)
=============================================================================

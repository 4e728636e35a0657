----------------------------- MODULE MCHcsQueue -----------------------------
(***************************************************************************)
(* Two receipts the topic accepts and one it never does, room for two      *)
(* drains, a cache of one, commitments of two chunks on pages of one       *)
(* message: rotation, eviction, a restart, a commitment that lands twice   *)
(* and one that lies across the last page all happen.                      *)
(***************************************************************************)
EXTENDS HcsTopic

CONSTANTS good1, good2, poison, d1, d2

MCReceipts == {good1, good2, poison}
MCPoison   == {poison}
MCDrains   == {d1, d2}
=============================================================================

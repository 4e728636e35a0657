---------------------------- MODULE MCVaultSink ----------------------------
(* Two vaults, two depositors, a refresh slot every second block.           *)
EXTENDS VaultSink

CONSTANTS v1, v2, o1, o2

\* The addresses give v1 an even slot and v2 an odd one.
MCAddress == v1 :> <<7, 1, 2, 3, 4, 5, 6, 7, 8>> @@ v2 :> <<3>>

L(v, o, k, a, s, p) ==
    [vault |-> v, owner |-> o, kind |-> k, assets |-> a, shares |-> s, parses |-> p]

MCLogs ==
    {L(v1, o1, "deposit", 3, 2, TRUE),
     L(v1, o2, "deposit", 1, 0, TRUE),
     L(v1, o1, "withdraw", 2, 1, TRUE),
     L(v2, o1, "deposit", 1, 1, TRUE),
     L(v1, o2, "deposit", 4, 1, FALSE)}

MCFigures == {[assets |-> 5, supply |-> 2], [assets |-> 1, supply |-> 0]}
=============================================================================

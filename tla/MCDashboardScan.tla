-------------------------- MODULE MCDashboardScan ---------------------------
(* DashboardScan with three requests, two of them of one client: no two large *)
(* ones and a small one fit the cap, three small ones do.                     *)
EXTENDS DashboardScan, TLC

CONSTANTS r1, r2, r3, k1, k2

MCKeyOf == (r1 :> k1) @@ (r2 :> k1) @@ (r3 :> k2)

MCPricings ==
    { (r1 :> 200) @@ (r2 :> 200) @@ (r3 :> 100), (r1 :> 100) @@ (r2 :> 100) @@ (r3 :> 100) }
=============================================================================

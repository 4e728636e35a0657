-------------------------- MODULE MCAgentPurchase --------------------------
(* AgentPurchase with two vaults on two chains and the service's real prices. *)
EXTENDS AgentPurchase, TLC

CONSTANTS v1, v2, c1, c2, good, rogue, ours, other

MCChainOf == (v1 :> c1) @@ (v2 :> c2)

Loaded(hedera, arc, privacy, prefers, pins) ==
    [budget |-> [hedera |-> hedera, arc |-> arc], privacy |-> privacy,
     prefers |-> prefers, maxAge |-> 900, pins |-> pins]

\* arc can be cheaper or dearer, two tables can be one too many.
MCPolicies ==
    {Loaded(60000, 120000, "strict", "hedera", {}),
     Loaded(120000, 60000, "strict", "cheapest", {ours}),
     Loaded(2000, 3000, "balanced", "cheapest", {}),
     Loaded(1500, 3000, "cheap", "arc", {})}

Card(key, sig, onChain) ==
    [key |-> key, sigValid |-> sig, bindingValid |-> TRUE, onChain |-> onChain]

MCCards ==
    {Card(good, TRUE, (ours :> "match")),
     Card(good, TRUE, (ours :> "unread")),
     Card(good, FALSE, (ours :> "match")),
     Card(rogue, TRUE, (ours :> "mismatch") @@ (other :> "match")),
     Card(rogue, TRUE, (other :> "match"))}

Att(v, by, age) == [vault |-> v, by |-> by, age |-> age]

Data(vaults, reports, atts) == [vaults |-> vaults, reports |-> reports, atts |-> atts]

Reply(body, sealed, by, forResponse, over) ==
    [vaults |-> body.vaults, reports |-> body.reports, atts |-> body.atts,
     sealed |-> sealed, by |-> by, forRequest |-> TRUE, forResponse |-> forResponse,
     over |-> over]

One == Data({v1}, (v1 :> "alert"), {Att(v1, good, 10)})
Late == Data({v1}, (v1 :> "ok"), {Att(v1, good, 901)})
Ahead == Data({v2}, (v2 :> "ok"), {Att(v2, good, -121)})
Both == Data({v1, v2}, (v1 :> "watch") @@ (v2 :> "unavailable"),
             {Att(v1, good, 10), Att(v2, good, -120)})
Forged == Data({v1}, (v1 :> "alert"), {Att(v1, rogue, 10)})
Nothing == Data({}, <<>>, {})

MCAnswers ==
    {Reply(b, TRUE, good, TRUE, 0) : b \in {One, Late, Ahead, Both, Forged, Nothing}}
    \cup {Reply(One, TRUE, rogue, TRUE, 0), Reply(Both, TRUE, good, FALSE, 0),
          Reply(Both, FALSE, good, TRUE, 0), Reply(One, FALSE, good, TRUE, -1)}

MCScanPrice ==
    [hedera |-> [n \in 1 .. 2 |-> 1000 + 500 * n],
     arc |-> [n \in 1 .. 2 |-> IF n <= 5 THEN 3000 ELSE IF n <= 20 THEN 10000 ELSE 50000]]
=============================================================================

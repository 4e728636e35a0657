------------------------- MODULE MCDashboardPages --------------------------
(* Two agent sessions, one of whose ids ends with the other, two scans from *)
(* the form; two keys and two identities for the receipts.                  *)
EXTENDS DashboardPages, TLC

CONSTANTS ab, b, w1, w2, demo, rec, dots, v1, v2, v1upper, blank, malformed, k1, k2, i1, i2

MCTails == {<<b, ab>>}
MCReads == [l \in {v1, v2, v1upper, blank, malformed} |->
               IF l = v1upper THEN v1 ELSE IF l = blank THEN Blank
               ELSE IF l = malformed THEN Malformed ELSE l]

Judged(vault, verdict, score, points) ==
    [vault |-> vault, verdict |-> verdict, score |-> score, points |-> points]
Bad == [verdicts |-> <<Judged(v1, "unavailable", 0, 0), Judged(v2, "alert", 60, 2)>>, rejected |-> {}]
Late == [verdicts |-> <<Judged(v2, "ok", 0, 2), Judged(v1, "ok", 0, 2)>>, rejected |-> {v2}]
Fine == [verdicts |-> <<Judged(v1, "ok", 0, 2), Judged(v2, "watch", 30, 2)>>, rejected |-> {}]
MCAnswers == {Bad, Late}

MCDemo == <<Run(demo, 0, <<Fine>>)>>
MCRecordings == <<Run(demo, 0, <<Bad>>), FailedRun(rec, 0, {v1})>>

MCBeside == [runs |-> {ab, b}, form |-> {b}]
MCTexts == {<<v2>>, <<v1upper, blank, v1, v2>>, <<v2, malformed>>}
Receipt(signer, names, intact, claims) ==
    [signer |-> signer, names |-> names, intact |-> intact, claims |-> claims]
Genuine == Receipt(k1, k1, TRUE, {i1, i2})
MCReceipts == {Genuine, Receipt(k1, k1, TRUE, {})}
MCCards == {[key |-> k1, hash |-> k1, intact |-> TRUE, identities |-> {i1, i2}],
            [key |-> k2, hash |-> k1, intact |-> TRUE, identities |-> {i2}]}
MCRegistries == {[i \in {i1, i2} |-> k1]}
MCPins == {{}, {i1}, Mistyped}
MCSymmetry == Permutations({w1, w2})
=============================================================================

---------------------------- MODULE MCRiskReport ----------------------------
(* An hour of two ticks and a day of two hours; drops of five percent of a  *)
(* price of 1 and outflows of an eighth and of exactly a fifth; queries that *)
(* reach three rows of the sink or two snapshots.                            *)
EXTENDS RiskReport, TLC

MCMissing == -1
MCUnreadable == -2

MCReadings == {[price |-> 100, balance |-> 24, told |-> FALSE],
               [price |-> 95, balance |-> 20, told |-> TRUE],
               [price |-> MCMissing, balance |-> 21, told |-> TRUE],
               [price |-> MCUnreadable, balance |-> 24, told |-> TRUE]}

MCWindowMin == "share_price_drawdown_1h" :> 2 @@ "share_price_drawdown_24h" :> 3
                 @@ "share_price_drawdown_7d" :> 4
MCWindowMax == "share_price_drawdown_1h" :> 4 @@ "share_price_drawdown_24h" :> 5
                 @@ "share_price_drawdown_7d" :> 6
=============================================================================

---------------------------- MODULE MCDailyMicro -----------------------------
(* Instances of DailyMicro: one heavy and two lighter tickers.              *)
EXTENDS DailyMicro

CONSTANTS heavy, light, other

MCTickers   == {heavy, light, other}
MCDisclosed == [t \in MCTickers |-> IF t = heavy THEN 32 ELSE 16]
=============================================================================

--------------------------- MODULE MC_TradeClient ---------------------------
(* Two rounds without a fee, and one round with a fee the operator confirms. *)
EXTENDS TradeClient

MCDeals == {[rounds |-> IF f THEN 1 ELSE 2, fee |-> f, confirm |-> f,
             position |-> "AfterLastRound"] : f \in BOOLEAN}
=============================================================================

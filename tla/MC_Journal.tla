----------------------------- MODULE MC_Journal -----------------------------
(* Sessions without a fee, or with a fee leg at the end that the operator   *)
(* confirms.                                                                *)
EXTENDS Journal

MCFeeConfigs == {[fee |-> f, confirm |-> f, position |-> "AfterLastRound"] :
                    f \in BOOLEAN}

\* A fee leg before the first round, not confirmed.
MCEarlyFee == {[fee |-> TRUE, confirm |-> FALSE, position |-> "BeforeFirstRound"]}
=============================================================================

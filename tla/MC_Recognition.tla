--------------------------- MODULE MC_Recognition ---------------------------
(* Recognition for TLC: which secret and which file is which does not      *)
(* matter, nor which nonce was drawn first.                                *)
EXTENDS Recognition, TLC

Names == Permutations(Paths) \cup Permutations(Secrets)
             \cup Permutations(Nonces) \cup Permutations(Keys)
=============================================================================

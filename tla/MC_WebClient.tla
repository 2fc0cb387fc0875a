---------------------------- MODULE MC_WebClient ----------------------------
(* WebClient for TLC: the HTTP threads are alike, and so are the users. *)
EXTENDS WebClient, TLC

Sym == Permutations(Threads) \cup Permutations(Users)
=============================================================================

-------------------------- MODULE MC_BlindTickets --------------------------
\* The workers are interchangeable.
EXTENDS BlindTickets, TLC

Sym == Permutations(Workers)
=============================================================================

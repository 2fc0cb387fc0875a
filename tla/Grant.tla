------------------------------- MODULE Grant -------------------------------
(***************************************************************************)
(* What the mediator promises about the right to one blind-signed          *)
(* credential that each party of a completed room has: it is used at most  *)
(* once, it is given back only while no ticket exists for it, an operator  *)
(* signs its ticket once, and a ticket that was signed and handed out      *)
(* never comes back.  q7933_issuance_store.hpp and                         *)
(* blindsig_ticket_store_q7933.hpp state this; BlindTickets shows that the *)
(* signer's queue, its workers and the two stores implement it, crashes    *)
(* and disk errors included.                                               *)
(***************************************************************************)
CONSTANT Rights

VARIABLE grant

Stages == {"free", "claimed", "pending", "signed", "taken"}

Init == grant = [r \in Rights |-> "free"]

Move(r, from, to) ==
    /\ grant[r] = from
    /\ grant' = [grant EXCEPT ![r] = to]

Claim(r)   == Move(r, "free", "claimed")
Release(r) == Move(r, "claimed", "free")
Issue(r)   == Move(r, "claimed", "pending")
Sign(r)    == Move(r, "pending", "signed")
Take(r)    == Move(r, "signed", "taken")

Next == \E r \in Rights :
    Claim(r) \/ Release(r) \/ Issue(r) \/ Sign(r) \/ Take(r)

Spec == Init /\ [][Next]_grant
=============================================================================

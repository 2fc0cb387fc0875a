------------------------------ MODULE Exchange ------------------------------
(***************************************************************************)
(* What a settlement promises to the two parties of a room, without rounds *)
(* and legs, turns, gates, acknowledgements or restarts: goods move in     *)
(* small instalments, one at a time, and never further on one side than on *)
(* the other by more than the one that is under way; the fee is paid at    *)
(* most once; and the exchange is called settled only when all of it has   *)
(* arrived.  MediatorSession implements this.                              *)
(***************************************************************************)
EXTENDS Integers

CONSTANTS MaxRounds, MaxTotal

VARIABLES
    deal,       \* [rounds, total, fee], fixed when the room opens
    landed,     \* instalments of each party that arrived
    flying,     \* the party whose instalment is under way, or "none"
    units,      \* units that have left each party
    fees,       \* fees that were paid
    outcome     \* "open", "settled" or "broken"

exchange == <<deal, landed, flying, units, fees, outcome>>

Sides == {"A", "B"}
Across(p) == IF p = "A" THEN "B" ELSE "A"

Deals == {d \in [rounds : 1..MaxRounds, total : [Sides -> 0..MaxTotal],
                 fee : BOOLEAN] : \A p \in Sides : d.total[p] >= d.rounds}

Init ==
    /\ deal \in Deals
    /\ landed = [p \in Sides |-> 0]
    /\ flying = "none"
    /\ units = [p \in Sides |-> 0]
    /\ fees = 0
    /\ outcome = "open"

\* Everything is where it should be.
Even ==
    /\ landed = [p \in Sides |-> deal.rounds]
    /\ flying = "none"
    /\ units = deal.total
    /\ fees = IF deal.fee THEN 1 ELSE 0

\* The instalments of a party differ by at most one unit, and no party sends
\* the next one while it is ahead.
Send(p) ==
    /\ outcome = "open" /\ flying = "none"
    /\ landed[p] <= landed[Across(p)] /\ landed[p] < deal.rounds
    /\ flying' = p
    /\ \E more \in {0, 1} :
          units' = [units EXCEPT
                      ![p] = @ + (deal.total[p] \div deal.rounds) + more]
    /\ UNCHANGED <<deal, landed, fees, outcome>>

Settles == outcome' \in {"open", "settled"} /\ (outcome' = "settled" => Even')

Land ==
    /\ outcome = "open" /\ flying # "none"
    /\ landed' = [landed EXCEPT ![flying] = @ + 1]
    /\ flying' = "none"
    /\ UNCHANGED <<deal, units, fees>>
    /\ Settles

PayFee ==
    /\ outcome = "open" /\ flying = "none"
    /\ deal.fee /\ fees = 0
    /\ fees' = 1
    /\ UNCHANGED <<deal, landed, flying, units>>
    /\ Settles

Settle ==
    /\ outcome = "open"
    /\ outcome' = "settled" /\ Even
    /\ UNCHANGED <<deal, landed, flying, units, fees>>

Break ==
    /\ outcome = "open"
    /\ outcome' = "broken"
    /\ UNCHANGED <<deal, landed, flying, units, fees>>

Next == (\E p \in Sides : Send(p)) \/ Land \/ PayFee \/ Settle \/ Break

Spec == Init /\ [][Next]_exchange
=============================================================================

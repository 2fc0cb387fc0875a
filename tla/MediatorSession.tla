-------------------------- MODULE MediatorSession --------------------------
(***************************************************************************)
(* One settlement session as a state machine: every public mutator of      *)
(* class MediatorSession is an action, and a restart of the mediator       *)
(* (persist, restore) is one more.  The calls may come in any order and    *)
(* with any signal; a call the class rejects throws before it assigns, so  *)
(* it is no step at all.                                                   *)
(*                                                                         *)
(* The history variables record what the parties really did, apart from    *)
(* what the session says they did:                                         *)
(*   sent[p]    tranches party p reported sent                             *)
(*   value[p]   the units of p's asset in those tranches, as announced     *)
(*              turn by turn                                               *)
(*   got[p]     tranches p reported received                               *)
(*   fees       fee legs reported sent, confirmed those the operator       *)
(*              confirmed                                                  *)
(*   agreed     parties that acknowledged the final-receipt gate           *)
(***************************************************************************)
EXTENDS SessionCore

CONSTANTS MaxRounds,     \* bound on terms.rounds (kMaxRounds in the code)
          MaxTotal,      \* bound on the units traded of each asset
          MaxRestarts    \* bound on the restarts of one behaviour

ASSUME BoundsAssumption ==
    MaxRounds \in Nat \ {0} /\ MaxTotal \in Nat /\ MaxRestarts \in Nat

VARIABLES session, sent, value, got, fees, confirmed, agreed, restarts

history == <<sent, value, got, fees, confirmed, agreed>>
vars == <<session, history, restarts>>

-----------------------------------------------------------------------------
Terms == {t \in [rounds : 1..MaxRounds, total : [Parties -> 0..MaxTotal],
                 first_sender : Parties] : ValidTerms(t)}

\* What a RoundSignalMessage can carry besides the room id.
Signals == [round : 0..MaxRounds, sender : Parties]

Init ==
    /\ \E t \in Terms, fee \in BOOLEAN, confirm \in BOOLEAN,
          position \in FeePositions :
          session = NewSession(t, fee, confirm, position)
    /\ sent = [p \in Parties |-> 0]
    /\ value = [p \in Parties |-> 0]
    /\ got = [p \in Parties |-> 0]
    /\ fees = 0
    /\ confirmed = 0
    /\ agreed = {}
    /\ restarts = 0

PeerJoins ==
    /\ JoinAccepted(session)
    /\ session' = Join(session)
    /\ UNCHANGED <<history, restarts>>

\* sender_reported_sent on a tranche: the party had been announced the turn
\* of this round, so tranche_amount of it has left the party's wallet.
ReportTrancheSent(p, m) ==
    /\ session.state = "WaitingForSent"
    /\ SentAccepted(session, p, m)
    /\ session' = SenderReportedSent(session)
    /\ sent' = [sent EXCEPT ![p] = @ + 1]
    /\ value' = [value EXCEPT ![p] =
                    @ + TrancheAmount(session.terms.total[p],
                                      session.terms.rounds, session.round)]
    /\ UNCHANGED <<got, fees, confirmed, agreed, restarts>>

\* sender_reported_sent on the fee leg.
ReportFeeSent(p, m) ==
    /\ session.state = "WaitingForFeeSent"
    /\ SentAccepted(session, p, m)
    /\ session' = SenderReportedSent(session)
    /\ fees' = fees + 1
    /\ UNCHANGED <<sent, value, got, confirmed, agreed, restarts>>

ReportReceived(p, m) ==
    /\ ReceivedAccepted(session, p, m)
    /\ session' = ReceiverReportedReceived(session)
    /\ got' = [got EXCEPT ![p] = @ + 1]
    /\ UNCHANGED <<sent, value, fees, confirmed, agreed, restarts>>

AcknowledgeFinal(p) ==
    /\ AckAccepted(session, p)
    /\ session' = AcknowledgeFinalReceipt(session, p)
    /\ agreed' = agreed \cup {p}
    /\ UNCHANGED <<sent, value, got, fees, confirmed, restarts>>

OperatorConfirmsFee ==
    /\ ConfirmAccepted(session)
    /\ session' = ConfirmFeeReceived(session)
    /\ confirmed' = confirmed + 1
    /\ UNCHANGED <<sent, value, got, fees, agreed, restarts>>

AbortSession ==
    /\ AbortAccepted(session)
    /\ session' = Abort(session)
    /\ UNCHANGED <<history, restarts>>

\* A room is persisted after join and pruned once it is over, so restore()
\* sees the states between.
RestartWith(confirm, position) ==
    /\ restarts < MaxRestarts
    /\ session.state \notin {"WaitingForPeer", "Complete", "Aborted"}
    /\ restarts' = restarts + 1
    /\ session' = Restore(session, confirm, position)
    /\ UNCHANGED history

\* The operator starts the mediator with the configuration it had.
Restart == RestartWith(session.confirm, session.position)

\* The operator starts the mediator with another TRADEP2P_FEE_POSITION or
\* TRADEP2P_FEE_REQUIRE_CONFIRMATION.
ReconfiguredRestart ==
    \E confirm \in BOOLEAN, position \in FeePositions :
        RestartWith(confirm, position)

Next ==
    \/ PeerJoins
    \/ \E p \in Parties, m \in Signals :
          ReportTrancheSent(p, m) \/ ReportFeeSent(p, m) \/ ReportReceived(p, m)
    \/ \E p \in Parties : AcknowledgeFinal(p)
    \/ OperatorConfirmsFee
    \/ AbortSession
    \/ Restart

Spec == Init /\ [][Next]_vars

ReconfiguredSpec == Init /\ [][Next \/ ReconfiguredRestart]_vars

\* Two cooperating parties and an attentive operator: nobody who is to act
\* stays idle for ever.  The code cannot make people act; the fairness is the
\* hypothesis under which the session itself must not get stuck.
Cooperation ==
    /\ WF_vars(PeerJoins)
    /\ WF_vars(\E p \in Parties, m \in Signals :
                  ReportTrancheSent(p, m) \/ ReportFeeSent(p, m))
    /\ WF_vars(\E p \in Parties, m \in Signals : ReportReceived(p, m))
    /\ \A p \in Parties : WF_vars(AcknowledgeFinal(p))
    /\ WF_vars(OperatorConfirmsFee)

CooperativeSpec == Spec /\ Cooperation

-----------------------------------------------------------------------------
TypeOK ==
    /\ session \in [terms : Terms, fee : BOOLEAN, confirm : BOOLEAN,
                    position : FeePositions, state : SessionStates,
                    round : 0..MaxRounds, leg : {0, 1},
                    acked : SUBSET Parties]
    /\ session.round <= session.terms.rounds
    /\ sent \in [Parties -> Nat]
    /\ value \in [Parties -> Nat]
    /\ got \in [Parties -> Nat]
    /\ fees \in Nat
    /\ confirmed \in Nat
    /\ agreed \in SUBSET Parties
    /\ restarts \in 0..MaxRestarts

\* The README's cap on theft: at any moment, aborted sessions included, a
\* party has sent at most one tranche more than it has confirmed receiving,
\* and never one tranche more than the deal.
OneTrancheAtRisk ==
    \A p \in Parties : /\ sent[p] - got[p] <= 1
                       /\ sent[p] <= session.terms.rounds

\* "Remainder distributed across the earliest rounds, so nothing is lost to
\* integer division": a session that reports Complete has moved each total
\* exactly, every tranche was confirmed by its receiver, and the fee was
\* settled exactly once if there is one (and confirmed once if the operator
\* asked for that).
SettledExactly ==
    session.state = "Complete" =>
        /\ value = session.terms.total
        /\ \A p \in Parties : got[p] = session.terms.rounds
        /\ fees = IF session.fee THEN 1 ELSE 0
        /\ confirmed = IF session.fee /\ session.confirm THEN 1 ELSE 0

\* The withholding fix: the true final transfer (the last tranche, or the fee
\* leg when it trails the rounds) is sent only after both parties
\* acknowledged the final receipt.
FinalTransferGated ==
    LET trailingFee == session.fee /\ session.position = "AfterLastRound"
    IN  agreed # Parties =>
            IF trailingFee
            THEN fees = 0
            ELSE \E p \in Parties : sent[p] < session.terms.rounds

\* FeePosition: with an early position no tranche that should follow the fee
\* moves before the fee leg was reported and, if asked for, confirmed; with
\* AfterLastRound the fee is paid only when every tranche has arrived.
FeeOnTime ==
    LET settled == fees = 1 /\ (session.confirm => confirmed = 1)
        tranchesBeforeFee ==
            IF session.position = "BeforeFirstRound" THEN 0
            ELSE session.terms.rounds - 1
    IN  session.fee =>
            IF session.position = "AfterLastRound"
            THEN fees > 0 =>
                    \A p \in Parties : got[p] = session.terms.rounds
            ELSE (\E p \in Parties : sent[p] > tranchesBeforeFee) => settled

\* current_turn() is called whenever the session waits for a transfer and must
\* not throw: the round it asks tranche_amount about exists.
TurnNeverThrows ==
    session.state \in {"WaitingForSent", "WaitingForReceived",
                       "WaitingForFeeSent"} => TurnDefined(session)

\* A session only moves forward: rounds and legs never go back, not even
\* through a restart, and a session that is over never runs again.
Forward ==
    /\ 2 * session.round + session.leg <= 2 * session'.round + session'.leg
    /\ session.state \in {"Complete", "Aborted"}
          => session'.state = session.state

OnlyForward == [][Forward]_session

\* No call sequence wedges a session: without an abort, and as long as the
\* parties and the operator cooperate, it ends in Complete.
EventuallySettled ==
    [](session.state # "Aborted") => <>(session.state = "Complete")

-----------------------------------------------------------------------------
\* After a restart with another configuration the session must still trade
\* every round: mediator.hpp says the position in effect when the fee was
\* triggered "is already baked into the persisted round_index/state".
NoRoundSkipped ==
    session.state = "Complete" =>
        \A p \in Parties : got[p] = session.terms.rounds

-----------------------------------------------------------------------------
(***************************************************************************)
(* The inductive invariant behind the safety properties.  It ties the      *)
(* history to (round, leg, state): which tranches have left and arrived,   *)
(* where in the protocol each state can occur, when the fee has been paid  *)
(* and when both acknowledgements must have been given.                    *)
(***************************************************************************)
\* Who sends in this leg, whatever the state.
LegSender ==
    IF session.leg = 0 THEN FirstSenderForRound(session)
                       ELSE OtherParty(FirstSenderForRound(session))

\* Units in the first k tranches, in closed form.
Least(m, n) == IF m < n THEN m ELSE n

Cumulative(total, rounds, k) ==
    k * (total \div rounds) + Least(k, total % rounds)

\* p's tranches that its peer confirmed.
Arrived(p) == got[OtherParty(p)]

InFlight(p) == sent[p] # Arrived(p)

TranchesInv ==
    \A p \in Parties :
        /\ Arrived(p) = IF session.leg = 1 /\ p # LegSender
                        THEN session.round + 1 ELSE session.round
        /\ sent[p] \in {Arrived(p), Arrived(p) + 1}
        /\ InFlight(p) => /\ p = LegSender
                          /\ session.round < session.terms.rounds
                          /\ session.state \in {"WaitingForReceived", "Aborted"}
        /\ session.state = "WaitingForReceived" /\ p = LegSender => InFlight(p)

ValueInv ==
    \A p \in Parties :
        value[p] = Cumulative(session.terms.total[p], session.terms.rounds,
                              sent[p])

TrailingFee == session.fee /\ session.position = "AfterLastRound"

\* The round at whose start the fee leg comes.
FeeRound ==
    IF session.position = "BeforeFirstRound" THEN 0
    ELSE IF session.position = "BeforeLastRound" THEN session.terms.rounds - 1
    ELSE session.terms.rounds

PhaseInv ==
    /\ session.round = session.terms.rounds => session.leg = 0
    /\ session.state = "WaitingForPeer" => session.round = 0 /\ session.leg = 0
    /\ session.state \in {"WaitingForSent", "WaitingForReceived"}
          => session.round < session.terms.rounds
    /\ session.state \in {"WaitingForFeeSent", "WaitingForFeeConfirmation"}
          => session.fee /\ session.round = FeeRound /\ session.leg = 0
    /\ session.state = "WaitingForFinalReceiptAck"
          => IF TrailingFee
             THEN session.round = session.terms.rounds
             ELSE session.round + 1 = session.terms.rounds /\ session.leg = 1
    /\ session.state = "Complete" => session.round = session.terms.rounds

FeeSettled == fees = 1 /\ confirmed = IF session.confirm THEN 1 ELSE 0

\* Has the session gone past its fee leg, as far as round, leg and the
\* tranches under way can tell?
PastFee ==
    \/ session.round > FeeRound
    \/ session.round = FeeRound /\ (session.leg = 1 \/ InFlight(LegSender))

FeeInv ==
    /\ fees \in {0, 1} /\ confirmed \in {0, 1}
    /\ ~session.fee => fees = 0 /\ confirmed = 0
    /\ session.state \in {"WaitingForPeer", "WaitingForFeeSent"}
          => fees = 0 /\ confirmed = 0
    /\ session.state = "WaitingForFeeConfirmation"
          => session.confirm /\ fees = 1 /\ confirmed = 0
    /\ session.fee =>
          /\ session.round < FeeRound => fees = 0 /\ confirmed = 0
          /\ PastFee => FeeSettled
          /\ session.state \in {"WaitingForSent", "WaitingForReceived"}
                /\ session.round = FeeRound => FeeSettled
          /\ TrailingFee /\ session.state = "WaitingForFinalReceiptAck"
                => fees = 0 /\ confirmed = 0
          /\ session.state = "Complete" => FeeSettled

GateInv ==
    /\ session.acked \subseteq agreed
    /\ TrailingFee =>
          /\ fees > 0 => agreed = Parties
          /\ session.state = "WaitingForFeeSent" => agreed = Parties
    /\ ~TrailingFee =>
          /\ session.round = session.terms.rounds => agreed = Parties
          /\ (/\ session.round + 1 = session.terms.rounds
              /\ session.leg = 1
              /\ \/ session.state \in {"WaitingForSent", "WaitingForReceived"}
                 \/ InFlight(LegSender))
                => agreed = Parties

IndInv == TypeOK /\ TranchesInv /\ ValueInv /\ PhaseInv /\ FeeInv /\ GateInv

-----------------------------------------------------------------------------
\* The exchange a session stands for.
TheExchange == INSTANCE Exchange WITH
    deal <- [rounds |-> session.terms.rounds, total |-> session.terms.total,
             fee |-> session.fee],
    landed <- [p \in Parties |-> Arrived(p)],
    flying <- IF \E p \in Parties : InFlight(p)
              THEN CHOOSE p \in Parties : InFlight(p) ELSE "none",
    units <- value,
    fees <- fees,
    outcome <- CASE session.state = "Complete" -> "settled"
                 [] session.state = "Aborted" -> "broken"
                 [] OTHER -> "open"

\* The session implements the exchange it stands for: whatever the order of
\* the calls, a restart included, what the parties did is a behaviour of
\* Exchange, in which the gates and the turns are not seen.
ImplementsExchange == TheExchange!Spec
=============================================================================

---------------------------- MODULE SessionCore ----------------------------
(***************************************************************************)
(* The value part of class MediatorSession (mediator.hpp, mediator.cpp):   *)
(* one room's settlement session as a record, and each method as an        *)
(* operator from the session before the call to the session after it.      *)
(* A method that throws before it assigns anything is a guard              *)
(* (SentAccepted, ReceivedAccepted, ...) that the callers conjoin.         *)
(*                                                                         *)
(* Abstractions: the room id is implicit (callers index sessions by it);   *)
(* the assets, addresses and the fee's asset and address play no part in   *)
(* any transition and are left out; of the fee amount only "is it > 0" is  *)
(* read by the class, so fee is a Boolean.                                 *)
(*                                                                         *)
(* An operator whose name ends in Mutant is a plausible fault of the one   *)
(* after it; no specification uses it, the mutation checks do.             *)
(***************************************************************************)
EXTENDS Integers

Parties == {"A", "B"}

OtherParty(p) == IF p = "A" THEN "B" ELSE "A"

SessionStates ==
    {"WaitingForPeer", "WaitingForSent", "WaitingForReceived",
     "WaitingForFeeSent", "Complete", "Aborted",
     "WaitingForFinalReceiptAck", "WaitingForFeeConfirmation"}

FeePositions == {"BeforeFirstRound", "BeforeLastRound", "AfterLastRound"}

\* validate_terms: at least one round, and every round moves at least one unit
\* of each asset.
ValidTerms(t) ==
    /\ t.rounds > 0
    /\ \A p \in Parties : t.total[p] >= t.rounds
    /\ t.first_sender \in Parties

\* The remainder is lost to integer division.
TrancheAmountMutant(total, rounds, round_index) == total \div rounds

\* tranche_amount: the remainder goes to the earliest rounds.
TrancheAmount(total, rounds, round_index) ==
    (total \div rounds) + (IF round_index < total % rounds THEN 1 ELSE 0)

\* The constructor: a session that still waits for the second party.
NewSession(terms, fee, require_fee_confirmation, fee_position) ==
    [terms |-> terms, fee |-> fee, confirm |-> require_fee_confirmation,
     position |-> fee_position, state |-> "WaitingForPeer",
     round |-> 0, leg |-> 0, acked |-> {}]

\* MediatorSession::restore after a restart: progress is read back from disk,
\* the confirmation flag and the fee position are this start's configuration,
\* and the two acknowledgement flags are at their defaults.
Restore(s, require_fee_confirmation, fee_position) ==
    [s EXCEPT !.confirm = require_fee_confirmation,
              !.position = fee_position,
              !.acked = {}]

-----------------------------------------------------------------------------
\* The degenerate one-round case is forgotten.
FeeDueBeforeAnyRoundMutant(s) == s.fee /\ s.position = "BeforeFirstRound"

\* join: only from WaitingForPeer; an early fee leg comes before any tranche.
FeeDueBeforeAnyRound(s) ==
    /\ s.fee
    /\ \/ s.position = "BeforeFirstRound"
       \/ s.position = "BeforeLastRound" /\ s.terms.rounds <= 1

JoinAccepted(s) == s.state = "WaitingForPeer"

Join(s) ==
    [s EXCEPT !.state = IF FeeDueBeforeAnyRound(s) THEN "WaitingForFeeSent"
                                                   ELSE "WaitingForSent"]

-----------------------------------------------------------------------------
\* first_sender_for_round: the parties take turns to go first.
FirstSenderForRound(s) ==
    IF s.round % 2 # 0 THEN OtherParty(s.terms.first_sender)
                       ELSE s.terms.first_sender

\* current_sender; it throws (is undefined) in every other state.
CurrentSender(s) ==
    IF s.state = "WaitingForFeeSent" THEN "A"
    ELSE IF s.leg = 0 THEN FirstSenderForRound(s)
                      ELSE OtherParty(FirstSenderForRound(s))

\* current_turn does not throw: for a tranche it needs a round that
\* tranche_amount accepts.
TurnDefined(s) ==
    \/ s.state = "WaitingForFeeSent"
    \/ /\ s.state \in {"WaitingForSent", "WaitingForReceived"}
       /\ s.round < s.terms.rounds

-----------------------------------------------------------------------------
\* validate_signal: the message names this round and this leg's sender.
ValidSignal(s, m) == m.round = s.round /\ m.sender = CurrentSender(s)

\* sender_reported_sent: guard and effect.
SentAccepted(s, party, m) ==
    /\ s.state \in {"WaitingForFeeSent", "WaitingForSent"}
    /\ ValidSignal(s, m)
    /\ party = CurrentSender(s)

SenderReportedSent(s) ==
    [s EXCEPT !.state =
        IF s.state = "WaitingForSent" THEN "WaitingForReceived"
        ELSE IF s.confirm THEN "WaitingForFeeConfirmation"
        ELSE IF s.position = "AfterLastRound" THEN "Complete"
        ELSE "WaitingForSent"]

\* confirm_fee_received.
ConfirmAccepted(s) == s.state = "WaitingForFeeConfirmation"

ConfirmFeeReceived(s) ==
    [s EXCEPT !.state = IF s.position = "AfterLastRound" THEN "Complete"
                                                         ELSE "WaitingForSent"]

-----------------------------------------------------------------------------
\* advance_after_receipt, first leg done: the second leg of the last round is
\* gated unless a fee leg follows it.
AfterFirstLeg(s) ==
    LET final == /\ s.round + 1 = s.terms.rounds
                 /\ ~s.fee \/ s.position # "AfterLastRound"
    IN  [s EXCEPT !.leg = 1,
                  !.acked = IF final THEN {} ELSE @,
                  !.state = IF final THEN "WaitingForFinalReceiptAck"
                                     ELSE "WaitingForSent"]

\* The end of the last round is missed by one.
AfterSecondLegMutant(s) ==
    [s EXCEPT !.leg = 0, !.round = @ + 1,
              !.state = IF s.round = s.terms.rounds THEN "Complete"
                                                    ELSE "WaitingForSent"]

\* advance_after_receipt, second leg done: the next round, the fee leg, the
\* gate in front of a trailing fee leg, or the end.
AfterSecondLeg(s) ==
    LET next == s.round + 1
        feeBeforeLast == /\ s.fee
                         /\ s.position = "BeforeLastRound"
                         /\ next = s.terms.rounds - 1
        gate == /\ ~feeBeforeLast
                /\ next = s.terms.rounds
                /\ s.fee
                /\ s.position = "AfterLastRound"
    IN  [s EXCEPT !.leg = 0,
                  !.round = next,
                  !.acked = IF gate THEN {} ELSE @,
                  !.state = IF feeBeforeLast THEN "WaitingForFeeSent"
                            ELSE IF gate THEN "WaitingForFinalReceiptAck"
                            ELSE IF next = s.terms.rounds THEN "Complete"
                            ELSE "WaitingForSent"]

AdvanceAfterReceipt(s) == IF s.leg = 0 THEN AfterFirstLeg(s)
                                       ELSE AfterSecondLeg(s)

\* Who reports the receipt is not checked.
ReceivedAcceptedMutant(s, party, m) ==
    s.state = "WaitingForReceived" /\ ValidSignal(s, m)

\* receiver_reported_received: guard and effect.
ReceivedAccepted(s, party, m) ==
    /\ s.state = "WaitingForReceived"
    /\ ValidSignal(s, m)
    /\ party = OtherParty(CurrentSender(s))

ReceiverReportedReceived(s) == AdvanceAfterReceipt(s)

-----------------------------------------------------------------------------
\* final_receipt_gate_is_fee_leg.
GateIsFeeLeg(s) ==
    s.fee /\ s.position = "AfterLastRound" /\ s.round = s.terms.rounds

\* One acknowledgement opens the gate.
AcknowledgeFinalReceiptMutant(s, party) ==
    [s EXCEPT !.acked = @ \cup {party},
              !.state = IF GateIsFeeLeg(s) THEN "WaitingForFeeSent"
                                           ELSE "WaitingForSent"]

\* The flags are tested before the new acknowledgement is recorded.
AcknowledgeFinalReceiptLateMutant(s, party) ==
    [s EXCEPT !.acked = @ \cup {party},
              !.state = IF s.acked # Parties THEN @ ELSE "WaitingForSent"]

\* acknowledge_final_receipt: a party acknowledges once; the second one opens
\* the gate.
AckAccepted(s, party) ==
    s.state = "WaitingForFinalReceiptAck" /\ party \notin s.acked

AcknowledgeFinalReceipt(s, party) ==
    LET acked == s.acked \cup {party}
    IN  [s EXCEPT !.acked = acked,
                  !.state = IF acked # Parties THEN @
                            ELSE IF GateIsFeeLeg(s) THEN "WaitingForFeeSent"
                            ELSE "WaitingForSent"]

\* A completed session can be aborted.
AbortAcceptedMutant(s) == TRUE

\* abort: a completed session cannot be aborted.
AbortAccepted(s) == s.state # "Complete"

Abort(s) == [s EXCEPT !.state = "Aborted"]
=============================================================================

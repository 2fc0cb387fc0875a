----------------------- MODULE MediatorSession_proofs -----------------------
(***************************************************************************)
(* What MediatorSession guarantees for every number of rounds, every deal  *)
(* and every fee configuration, proved from the inductive invariant IndInv.*)
(***************************************************************************)
EXTENDS MediatorSession, TLAPS

-----------------------------------------------------------------------------
\* tranche_amount: the tranche of round k is what the closed form gains there.
LEMMA CumulativeStep ==
    ASSUME NEW total \in Nat, NEW rounds \in Nat \ {0}, NEW k \in Nat
    PROVE  Cumulative(total, rounds, k + 1)
              = Cumulative(total, rounds, k) + TrancheAmount(total, rounds, k)
<1> DEFINE q == total \div rounds
           r == total % rounds
<1>1. q \in Int /\ r \in Int
  OBVIOUS
<1>2. (k + 1) * q = k * q + q
  BY <1>1
<1>3. Least(k + 1, r) = Least(k, r) + (IF k < r THEN 1 ELSE 0)
  BY <1>1 DEF Least
<1>4. k * q \in Int
  BY <1>1
<1>5. Least(k, r) \in Int
  BY <1>1 DEF Least
<1> HIDE DEF q, r
<1>6. (k + 1) * q + Least(k + 1, r)
         = (k * q + Least(k, r)) + (q + (IF k < r THEN 1 ELSE 0))
  BY <1>1, <1>2, <1>3, <1>4, <1>5
<1> QED
  BY <1>6 DEF Cumulative, TrancheAmount, q, r

\* "Nothing is lost to integer division": all the tranches make the total.
LEMMA CumulativeAll ==
    ASSUME NEW total \in Nat, NEW rounds \in Nat \ {0}
    PROVE  Cumulative(total, rounds, rounds) = total
<1>1. total % rounds < rounds
  OBVIOUS
<1>2. (rounds * (total \div rounds)) + (total % rounds) = total
  OBVIOUS
<1> QED
  BY <1>1, <1>2 DEF Cumulative, Least

\* No tranche, and no units.
LEMMA CumulativeNone ==
    ASSUME NEW total \in Nat, NEW rounds \in Nat \ {0}
    PROVE  /\ Cumulative(total, rounds, 0) = 0
           /\ \A k \in Nat : TrancheAmount(total, rounds, k) \in Nat
  BY DEF Cumulative, Least, TrancheAmount

-----------------------------------------------------------------------------
\* What the type invariant says about the parts of a session.
LEMMA SessionFacts ==
    ASSUME TypeOK
    PROVE  /\ session.terms \in Terms
           /\ session.terms.rounds \in Nat \ {0}
           /\ session.terms.total \in [Parties -> Nat]
           /\ session.terms.first_sender \in Parties
           /\ session.round \in Nat /\ session.round <= session.terms.rounds
           /\ session.leg \in {0, 1}
           /\ FirstSenderForRound(session) \in Parties
           /\ LegSender \in Parties
<1>1. session.terms \in Terms
  BY DEF TypeOK
<1>2. /\ session.terms.rounds \in 1..MaxRounds
      /\ session.terms.total \in [Parties -> 0..MaxTotal]
      /\ session.terms.first_sender \in Parties
  BY <1>1 DEF Terms
<1>3. /\ session.terms.rounds \in Nat \ {0}
      /\ session.terms.total \in [Parties -> Nat]
  BY <1>2, BoundsAssumption
<1>4. session.round \in Nat /\ session.leg \in {0, 1}
  BY BoundsAssumption DEF TypeOK
<1>5. session.round <= session.terms.rounds
  BY DEF TypeOK
<1>6. FirstSenderForRound(session) \in Parties
  BY <1>2 DEF FirstSenderForRound, OtherParty, Parties
<1>7. LegSender \in Parties
  BY <1>6 DEF LegSender, OtherParty, Parties
<1> QED
  BY <1>1, <1>2, <1>3, <1>4, <1>5, <1>6, <1>7

\* The initial states satisfy the inductive invariant.
LEMMA InitIndInv == Init => IndInv
<1> SUFFICES ASSUME Init PROVE IndInv
  OBVIOUS
<1>1. PICK t \in Terms, fee \in BOOLEAN, confirm \in BOOLEAN,
           position \in FeePositions :
           session = NewSession(t, fee, confirm, position)
  BY DEF Init
<1>2. TypeOK
  BY <1>1, BoundsAssumption
     DEF Init, TypeOK, NewSession, SessionStates, Terms, ValidTerms
<1>3. TranchesInv
  BY <1>1, <1>2, SessionFacts
     DEF Init, NewSession, TranchesInv, Arrived, InFlight, Parties, OtherParty
<1>4. ValueInv
  BY <1>2, SessionFacts, CumulativeNone DEF Init, ValueInv
<1>5. PhaseInv
  BY <1>1, <1>2, SessionFacts DEF Init, NewSession, PhaseInv
<1>6. LegSender \in Parties /\ OtherParty(LegSender) \in Parties
  BY <1>2, SessionFacts DEF OtherParty, Parties
<1>7. FeeInv
  BY <1>1, <1>2, <1>6, SessionFacts
     DEF Init, NewSession, FeeInv, PastFee, FeeRound, InFlight, Arrived
<1>8. GateInv
  BY <1>1, <1>2, <1>6, SessionFacts
     DEF Init, NewSession, GateInv, InFlight, Arrived, TrailingFee
<1> QED
  BY <1>2, <1>3, <1>4, <1>5, <1>7, <1>8 DEF IndInv

-----------------------------------------------------------------------------
\* A step that keeps terms, round and leg keeps the leg's sender.
LEMMA SameLegSender ==
    ASSUME session'.terms = session.terms, session'.round = session.round,
           session'.leg = session.leg
    PROVE  LegSender' = LegSender
  BY DEF LegSender, FirstSenderForRound

\* join() preserves the invariant.
LEMMA PeerJoinsInd ==
    ASSUME IndInv, PeerJoins PROVE IndInv'
<1> USE DEF IndInv
<1>1. /\ session' = [session EXCEPT !.state = session'.state]
      /\ session.state = "WaitingForPeer"
      /\ session'.state = IF FeeDueBeforeAnyRound(session)
                          THEN "WaitingForFeeSent" ELSE "WaitingForSent"
      /\ UNCHANGED <<sent, value, got, fees, confirmed, agreed, restarts>>
  BY DEF PeerJoins, Join, JoinAccepted, history, TypeOK
<1>2. TypeOK'
  BY <1>1 DEF TypeOK, SessionStates
<1>3. /\ session'.terms = session.terms /\ session'.round = session.round
      /\ session'.leg = session.leg /\ session'.fee = session.fee
      /\ session'.confirm = session.confirm
      /\ session'.position = session.position
      /\ session'.acked = session.acked
  BY <1>1 DEF TypeOK
<1>4. LegSender' = LegSender
  BY <1>3, SameLegSender
<1>5. TranchesInv'
  BY <1>1, <1>3, <1>4 DEF TranchesInv, Arrived, InFlight
<1>6. ValueInv'
  BY <1>1, <1>3 DEF ValueInv
<1>7. PhaseInv'
  BY <1>1, <1>3, SessionFacts
     DEF PhaseInv, FeeDueBeforeAnyRound, FeeRound, TrailingFee, TypeOK,
         FeePositions
<1>8. FeeInv'
  <2>1. ~InFlight(LegSender)
    BY <1>1, SessionFacts DEF TranchesInv
  <2>2. ~InFlight(LegSender)'
    BY <2>1, <1>1, <1>4 DEF InFlight, Arrived
  <2> QED
    BY <1>1, <1>3, <2>2, SessionFacts
       DEF FeeInv, PhaseInv, PastFee, FeeRound, FeeSettled, TrailingFee, TypeOK,
           FeePositions, FeeDueBeforeAnyRound
<1>9. GateInv'
  BY <1>1, <1>3, <1>4, SessionFacts
     DEF GateInv, PhaseInv, FeeInv, InFlight, Arrived, TrailingFee,
         FeeDueBeforeAnyRound
<1> QED
  BY <1>2, <1>5, <1>6, <1>7, <1>8, <1>9

\* sender_reported_sent() on a tranche preserves the invariant.
LEMMA ReportTrancheSentInd ==
    ASSUME IndInv, NEW p \in Parties, NEW m \in Signals,
           ReportTrancheSent(p, m)
    PROVE  IndInv'
<1> USE DEF IndInv
<1>1. /\ session' = [session EXCEPT !.state = "WaitingForReceived"]
      /\ session.state = "WaitingForSent"
      /\ p = LegSender
      /\ UNCHANGED <<got, fees, confirmed, agreed, restarts>>
  BY DEF ReportTrancheSent, SenderReportedSent, SentAccepted, CurrentSender,
         LegSender
<1>2. /\ session'.terms = session.terms /\ session'.round = session.round
      /\ session'.leg = session.leg /\ session'.fee = session.fee
      /\ session'.confirm = session.confirm
      /\ session'.position = session.position
      /\ session'.acked = session.acked
      /\ session'.state = "WaitingForReceived"
  BY <1>1 DEF TypeOK
<1>3. LegSender' = LegSender
  BY <1>2, SameLegSender
<1>4. session.round < session.terms.rounds
  BY <1>1 DEF PhaseInv
<1>5. sent[p] = Arrived(p) /\ Arrived(p) = session.round
  BY <1>1 DEF TranchesInv, InFlight
<1>6. sent' = [sent EXCEPT ![p] = session.round + 1]
  BY <1>5 DEF ReportTrancheSent
<1>7. /\ sent \in [Parties -> Nat] /\ value \in [Parties -> Nat]
      /\ got \in [Parties -> Nat]
  BY DEF TypeOK
<1>8. value' = [value EXCEPT ![p] =
                   Cumulative(session.terms.total[p], session.terms.rounds,
                              session.round + 1)]
  <2>1. value[p] = Cumulative(session.terms.total[p], session.terms.rounds,
                              session.round)
    BY <1>5 DEF ValueInv
  <2>2. /\ session.terms.total[p] \in Nat
        /\ session.terms.rounds \in Nat \ {0}
        /\ session.round \in Nat
    BY SessionFacts
  <2>3. Cumulative(session.terms.total[p], session.terms.rounds,
                   session.round + 1)
           = value[p] + TrancheAmount(session.terms.total[p],
                                      session.terms.rounds, session.round)
    BY <2>1, <2>2, CumulativeStep
  <2> QED
    BY <2>3 DEF ReportTrancheSent
<1>9. TypeOK'
  <2>1. value[p] + TrancheAmount(session.terms.total[p], session.terms.rounds,
                                 session.round) \in Nat
    BY <1>7, SessionFacts, CumulativeNone
  <2>2. value' \in [Parties -> Nat]
    BY <2>1, <1>7 DEF ReportTrancheSent
  <2>3. sent' \in [Parties -> Nat]
    BY <1>6, <1>7, SessionFacts
  <2> QED
    BY <2>2, <2>3, <1>1, <1>2 DEF TypeOK, SessionStates
<1>10. TranchesInv'
  BY <1>1, <1>2, <1>3, <1>4, <1>5, <1>6, <1>7
     DEF TranchesInv, Arrived, InFlight
<1>11. ValueInv'
  BY <1>2, <1>6, <1>7, <1>8 DEF ValueInv
<1>12. PhaseInv'
  BY <1>1, <1>2, <1>4 DEF PhaseInv
<1>13. FeeInv'
  <2>1. session.fee => (session.round >= FeeRound => FeeSettled)
    BY <1>1, SessionFacts DEF FeeInv, PastFee, FeeRound
  <2>2. FeeRound' = FeeRound /\ (FeeSettled' <=> FeeSettled)
    BY <1>1, <1>2 DEF FeeRound, FeeSettled
  <2>3. FeeRound \in Int
    BY SessionFacts DEF FeeRound
  <2> QED
    BY <1>1, <1>2, <2>1, <2>2, <2>3, SessionFacts
       DEF FeeInv, PastFee, TrailingFee
<1>14. GateInv'
  BY <1>1, <1>2, <1>3, <1>4 DEF GateInv, TrailingFee
<1> QED
  BY <1>9, <1>10, <1>11, <1>12, <1>13, <1>14

\* sender_reported_sent() on the fee leg preserves the invariant.
LEMMA ReportFeeSentInd ==
    ASSUME IndInv, NEW p \in Parties, NEW m \in Signals, ReportFeeSent(p, m)
    PROVE  IndInv'
<1> USE DEF IndInv
<1>1. /\ session' = [session EXCEPT !.state = session'.state]
      /\ session.state = "WaitingForFeeSent"
      /\ session'.state = IF session.confirm THEN "WaitingForFeeConfirmation"
                          ELSE IF session.position = "AfterLastRound"
                          THEN "Complete" ELSE "WaitingForSent"
      /\ fees' = fees + 1
      /\ UNCHANGED <<sent, value, got, confirmed, agreed, restarts>>
  BY DEF ReportFeeSent, SenderReportedSent, TypeOK
<1>2. /\ session'.terms = session.terms /\ session'.round = session.round
      /\ session'.leg = session.leg /\ session'.fee = session.fee
      /\ session'.confirm = session.confirm
      /\ session'.position = session.position
      /\ session'.acked = session.acked
  BY <1>1 DEF TypeOK
<1>3. LegSender' = LegSender
  BY <1>2, SameLegSender
<1>4. session.fee /\ session.round = FeeRound /\ session.leg = 0
  BY <1>1 DEF PhaseInv
<1>5. fees = 0 /\ confirmed = 0 /\ fees' = 1
  BY <1>1 DEF FeeInv
<1>6. session.position # "AfterLastRound" => session.round < session.terms.rounds
  BY <1>4, SessionFacts DEF FeeRound, TypeOK, FeePositions
<1>7. session.position = "AfterLastRound" => session.round = session.terms.rounds
  BY <1>4, SessionFacts DEF FeeRound
<1>8. TypeOK'
  BY <1>1, <1>2, <1>5 DEF TypeOK, SessionStates
<1>9. TranchesInv'
  BY <1>1, <1>2, <1>3 DEF TranchesInv, Arrived, InFlight
<1>10. ValueInv'
  BY <1>1, <1>2 DEF ValueInv
<1>11. PhaseInv'
  BY <1>1, <1>2, <1>4, <1>6, <1>7 DEF PhaseInv, FeeRound
<1>12. FeeInv'
  <2>1. FeeRound' = FeeRound /\ FeeRound \in Int
    BY <1>1, <1>2, SessionFacts DEF FeeRound
  <2>2. ~InFlight(LegSender)
    BY <1>1, SessionFacts DEF TranchesInv
  <2>3. ~InFlight(LegSender)'
    BY <2>2, <1>1, <1>3 DEF InFlight, Arrived
  <2>4. ~PastFee'
    BY <2>1, <2>3, <1>2, <1>4, SessionFacts DEF PastFee
  <2> QED
    BY <1>1, <1>2, <1>4, <1>5, <2>1, <2>4, SessionFacts
       DEF FeeInv, FeeSettled, TrailingFee
<1>13. GateInv'
  BY <1>1, <1>2, <1>3, <1>4, <1>5, <1>6
     DEF GateInv, TrailingFee, InFlight, Arrived
<1> QED
  BY <1>8, <1>9, <1>10, <1>11, <1>12, <1>13

\* receiver_reported_received() on the first leg of a round preserves the
\* invariant.
LEMMA FirstLegReceivedInd ==
    ASSUME IndInv, NEW p \in Parties, NEW m \in Signals, ReportReceived(p, m),
           session.leg = 0
    PROVE  IndInv'
<1> USE DEF IndInv
<1> DEFINE final == /\ session.round + 1 = session.terms.rounds
                    /\ ~session.fee \/ session.position # "AfterLastRound"
<1>1. /\ session.state = "WaitingForReceived"
      /\ p = OtherParty(LegSender)
      /\ session' = AfterFirstLeg(session)
      /\ got' = [got EXCEPT ![p] = @ + 1]
      /\ UNCHANGED <<sent, value, fees, confirmed, agreed, restarts>>
  BY DEF ReportReceived, ReceivedAccepted, CurrentSender, LegSender,
         ReceiverReportedReceived, AdvanceAfterReceipt
<1>2. /\ session' = [session EXCEPT !.leg = 1, !.acked = session'.acked,
                                    !.state = session'.state]
      /\ session'.acked = IF final THEN {} ELSE session.acked
      /\ session'.state = IF final THEN "WaitingForFinalReceiptAck"
                                   ELSE "WaitingForSent"
  BY <1>1 DEF AfterFirstLeg, TypeOK
<1>3. /\ session'.terms = session.terms /\ session'.round = session.round
      /\ session'.leg = 1 /\ session'.fee = session.fee
      /\ session'.confirm = session.confirm
      /\ session'.position = session.position
  BY <1>2 DEF TypeOK
<1>4. LegSender' = OtherParty(LegSender) /\ LegSender \in Parties
  BY <1>3, SessionFacts DEF LegSender, FirstSenderForRound, OtherParty, Parties
<1>5. /\ OtherParty(LegSender) \in Parties
      /\ OtherParty(LegSender) # LegSender
      /\ OtherParty(OtherParty(LegSender)) = LegSender
      /\ \A x \in Parties : x = LegSender \/ x = OtherParty(LegSender)
  BY <1>4 DEF OtherParty, Parties
<1>6. session.round < session.terms.rounds
  BY <1>1 DEF PhaseInv
<1>7. /\ sent[LegSender] = Arrived(LegSender) + 1
      /\ Arrived(LegSender) = session.round
      /\ sent[OtherParty(LegSender)] = Arrived(OtherParty(LegSender))
      /\ Arrived(OtherParty(LegSender)) = session.round
  BY <1>1, <1>4, <1>5 DEF TranchesInv, InFlight
<1>8. /\ got'[OtherParty(LegSender)] = session.round + 1
      /\ got'[LegSender] = session.round
  BY <1>1, <1>4, <1>5, <1>7 DEF Arrived, TypeOK
<1>9. TypeOK'
  <2>1. got' \in [Parties -> Nat]
    BY <1>1 DEF TypeOK
  <2> QED
    BY <2>1, <1>1, <1>2, <1>3 DEF TypeOK, SessionStates
<1>10. TranchesInv'
  <2>1. \A x \in Parties : Arrived(x)' = sent'[x]
    BY <1>1, <1>5, <1>7, <1>8 DEF Arrived
  <2>2. \A x \in Parties : Arrived(x)' = IF x = LegSender THEN session.round + 1
                                          ELSE session.round
    BY <1>5, <1>8 DEF Arrived
  <2> QED
    BY <2>1, <2>2, <1>2, <1>3, <1>4, <1>5, SessionFacts
       DEF TranchesInv, InFlight
<1>11. ValueInv'
  BY <1>1, <1>3 DEF ValueInv
<1>12. PhaseInv'
  BY <1>2, <1>3, <1>6, SessionFacts DEF PhaseInv, TrailingFee
<1>13. ~InFlight(LegSender)'
  BY <1>1, <1>4, <1>5, <1>7, <1>8 DEF InFlight, Arrived
<1>14. FeeInv'
  <2>1. /\ FeeRound' = FeeRound /\ FeeRound \in Int
        /\ FeeSettled' <=> FeeSettled
    BY <1>1, <1>3, SessionFacts DEF FeeRound, FeeSettled
  <2>2. session.fee => (session.round >= FeeRound => FeeSettled)
    BY <2>1, <1>1, SessionFacts DEF FeeInv, PastFee
  <2>3. session.fee /\ session.position = "AfterLastRound"
           => session.round < FeeRound
    BY <1>6, SessionFacts DEF FeeRound
  <2> QED
    BY <1>1, <1>2, <1>3, <2>1, <2>2, <2>3, SessionFacts
       DEF FeeInv, PastFee, TrailingFee
<1>15. GateInv'
  BY <1>1, <1>2, <1>3, <1>6, <1>13, SessionFacts DEF GateInv, TrailingFee
<1> QED
  BY <1>9, <1>10, <1>11, <1>12, <1>14, <1>15

\* receiver_reported_received() on the second leg preserves the invariant.
LEMMA SecondLegReceivedInd ==
    ASSUME IndInv, NEW p \in Parties, NEW m \in Signals, ReportReceived(p, m),
           session.leg = 1
    PROVE  IndInv'
<1> USE DEF IndInv
<1> DEFINE next == session.round + 1
           early == /\ session.fee /\ session.position = "BeforeLastRound"
                    /\ next = session.terms.rounds - 1
           gate == /\ ~early /\ next = session.terms.rounds
                   /\ session.fee /\ session.position = "AfterLastRound"
<1>1. /\ session.state = "WaitingForReceived"
      /\ p = OtherParty(LegSender)
      /\ session' = AfterSecondLeg(session)
      /\ got' = [got EXCEPT ![p] = @ + 1]
      /\ UNCHANGED <<sent, value, fees, confirmed, agreed, restarts>>
  BY DEF ReportReceived, ReceivedAccepted, CurrentSender, LegSender,
         ReceiverReportedReceived, AdvanceAfterReceipt
<1>2. /\ session' = [session EXCEPT !.leg = 0, !.round = next,
                                    !.acked = session'.acked,
                                    !.state = session'.state]
      /\ session'.acked = IF gate THEN {} ELSE session.acked
      /\ session'.state = IF early THEN "WaitingForFeeSent"
                          ELSE IF gate THEN "WaitingForFinalReceiptAck"
                          ELSE IF next = session.terms.rounds THEN "Complete"
                          ELSE "WaitingForSent"
  BY <1>1 DEF AfterSecondLeg, TypeOK
<1>3. /\ session'.terms = session.terms /\ session'.round = next
      /\ session'.leg = 0 /\ session'.fee = session.fee
      /\ session'.confirm = session.confirm
      /\ session'.position = session.position
  BY <1>2 DEF TypeOK
<1>4. LegSender \in Parties
  BY SessionFacts
<1>5. /\ OtherParty(LegSender) \in Parties
      /\ OtherParty(LegSender) # LegSender
      /\ OtherParty(OtherParty(LegSender)) = LegSender
      /\ \A x \in Parties : x = LegSender \/ x = OtherParty(LegSender)
  BY <1>4 DEF OtherParty, Parties
<1>6. session.round < session.terms.rounds
  BY <1>1 DEF PhaseInv
<1>7. /\ sent[LegSender] = Arrived(LegSender) + 1
      /\ Arrived(LegSender) = session.round
      /\ sent[OtherParty(LegSender)] = Arrived(OtherParty(LegSender))
      /\ Arrived(OtherParty(LegSender)) = session.round + 1
  BY <1>1, <1>4, <1>5 DEF TranchesInv, InFlight
<1>8. \A x \in Parties : Arrived(x)' = next /\ sent'[x] = next
  BY <1>1, <1>5, <1>7 DEF Arrived, TypeOK
<1>9. TypeOK'
  <2>1. got' \in [Parties -> Nat]
    BY <1>1 DEF TypeOK
  <2>2. session.terms.rounds \in 1..MaxRounds
    BY SessionFacts DEF Terms
  <2>3. next \in 0..MaxRounds /\ next <= session.terms.rounds
    BY <2>2, <1>6, SessionFacts, BoundsAssumption
  <2> QED
    BY <2>1, <2>3, <1>1, <1>2, <1>3 DEF TypeOK, SessionStates
<1>10. \A x \in Parties : ~InFlight(x)'
  BY <1>8 DEF InFlight
<1>11. TranchesInv'
  BY <1>2, <1>3, <1>8, <1>10, SessionFacts DEF TranchesInv
<1>12. ValueInv'
  BY <1>1, <1>3 DEF ValueInv
<1>13. PhaseInv'
  BY <1>2, <1>3, <1>6, SessionFacts DEF PhaseInv, TrailingFee, FeeRound
<1>14. LegSender' \in Parties
  BY <1>3, SessionFacts
     DEF LegSender, FirstSenderForRound, OtherParty, Parties
<1>15. ~InFlight(LegSender)'
  BY <1>10, <1>14 DEF InFlight, Arrived
<1>16. FeeInv'
  <2>1. /\ FeeRound' = FeeRound /\ FeeRound \in Int
        /\ FeeSettled' <=> FeeSettled
    BY <1>1, <1>3, SessionFacts DEF FeeRound, FeeSettled
  <2>2. session.fee => (session.round >= FeeRound => FeeSettled)
    BY <2>1, <1>1, SessionFacts DEF FeeInv, PastFee
  <2>3. session.fee /\ session.round < FeeRound => fees = 0 /\ confirmed = 0
    BY DEF FeeInv
  <2>4. session.fee /\ session.position = "AfterLastRound"
           => session.round < FeeRound
    BY <1>6, SessionFacts DEF FeeRound
  <2>5. session.fee /\ session'.state = "WaitingForSent" /\ next = FeeRound
           => FALSE
    BY <1>2, <1>6, SessionFacts DEF FeeRound, TypeOK, FeePositions
  <2>6. session.fee /\ session'.state = "Complete" => session.round >= FeeRound
    BY <1>2, <1>6, SessionFacts DEF FeeRound, TypeOK, FeePositions
  <2>7. session'.state = "WaitingForFeeSent" => session.fee /\ session.round < FeeRound
    BY <1>2, <1>6, SessionFacts DEF FeeRound
  <2> QED
    BY <1>1, <1>2, <1>3, <1>15, <2>1, <2>2, <2>3, <2>4, <2>5, <2>6, <2>7,
       SessionFacts DEF FeeInv, PastFee, TrailingFee
<1>17. GateInv'
  BY <1>1, <1>2, <1>3, <1>6, <1>15, SessionFacts
     DEF GateInv, TrailingFee, FeeInv, FeeRound
<1> QED
  BY <1>9, <1>11, <1>12, <1>13, <1>16, <1>17

\* acknowledge_final_receipt() preserves the invariant.
LEMMA AcknowledgeFinalInd ==
    ASSUME IndInv, NEW p \in Parties, AcknowledgeFinal(p)
    PROVE  IndInv'
<1> USE DEF IndInv
<1>1. /\ session.state = "WaitingForFinalReceiptAck"
      /\ session' = AcknowledgeFinalReceipt(session, p)
      /\ agreed' = agreed \cup {p}
      /\ UNCHANGED <<sent, value, got, fees, confirmed, restarts>>
  BY DEF AcknowledgeFinal, AckAccepted
<1>2. GateIsFeeLeg(session) <=> TrailingFee
  BY <1>1 DEF GateIsFeeLeg, TrailingFee, PhaseInv
<1>3. /\ session' = [session EXCEPT !.acked = session.acked \cup {p},
                                    !.state = session'.state]
      /\ session'.acked = session.acked \cup {p}
      /\ session'.state = IF session'.acked # Parties
                          THEN "WaitingForFinalReceiptAck"
                          ELSE IF TrailingFee THEN "WaitingForFeeSent"
                          ELSE "WaitingForSent"
  BY <1>1, <1>2 DEF AcknowledgeFinalReceipt, TypeOK
<1>4. /\ session'.terms = session.terms /\ session'.round = session.round
      /\ session'.leg = session.leg /\ session'.fee = session.fee
      /\ session'.confirm = session.confirm
      /\ session'.position = session.position
  BY <1>3 DEF TypeOK
<1>5. LegSender' = LegSender
  BY <1>4, SameLegSender
<1>6. TypeOK'
  BY <1>1, <1>3, <1>4 DEF TypeOK, SessionStates
<1>7. session'.acked \subseteq agreed' /\ agreed' \subseteq Parties
  BY <1>1, <1>3 DEF GateInv, TypeOK
<1>8. session'.state # "WaitingForFinalReceiptAck" => agreed' = Parties
  BY <1>3, <1>7
<1>9. \A x \in Parties : ~InFlight(x) /\ (InFlight(x)' <=> InFlight(x))
  BY <1>1 DEF TranchesInv, InFlight, Arrived
<1>10. TranchesInv'
  BY <1>1, <1>3, <1>4, <1>5, ZenonT(40) DEF TranchesInv, Arrived, InFlight
<1>11. ValueInv'
  BY <1>1, <1>4 DEF ValueInv
<1>12. PhaseInv'
  <2>1. IF TrailingFee
        THEN session.round = session.terms.rounds /\ session.leg = 0
        ELSE session.round + 1 = session.terms.rounds /\ session.leg = 1
    BY <1>1 DEF PhaseInv
  <2>2. TrailingFee => session.fee /\ FeeRound = session.terms.rounds
    BY DEF TrailingFee, FeeRound
  <2>3. FeeRound' = FeeRound /\ (TrailingFee' <=> TrailingFee)
    BY <1>4 DEF FeeRound, TrailingFee
  <2>4. CASE TrailingFee
    BY <2>1, <2>2, <2>3, <2>4, <1>3, <1>4, SessionFacts DEF PhaseInv
  <2>5. CASE ~TrailingFee
    <3>1. session.round < session.terms.rounds
      BY <2>1, <2>5, SessionFacts
    <3>2. session'.state \in {"WaitingForFinalReceiptAck", "WaitingForSent"}
      BY <1>3, <2>5
    <3> QED
      BY <2>1, <2>3, <2>5, <3>1, <3>2, <1>4 DEF PhaseInv
  <2> QED
    BY <2>4, <2>5
<1>13. FeeInv'
  <2>1. /\ FeeRound' = FeeRound /\ FeeRound \in Int
        /\ FeeSettled' <=> FeeSettled
    BY <1>1, <1>4, SessionFacts DEF FeeRound, FeeSettled
  <2>2. ~InFlight(LegSender)'
    BY <1>5, <1>9, SessionFacts DEF InFlight, Arrived
  <2>3. PastFee' => PastFee
    BY <2>1, <2>2, <1>4 DEF PastFee
  <2>4. TrailingFee => fees = 0 /\ confirmed = 0
    BY <1>1 DEF FeeInv, TrailingFee
  <2>5. session.fee /\ ~TrailingFee => FeeSettled
    BY <1>1, <2>1, SessionFacts
       DEF FeeInv, PhaseInv, PastFee, FeeRound, TrailingFee, TypeOK, FeePositions
  <2> QED
    BY <1>1, <1>3, <1>4, <2>1, <2>3, <2>4, <2>5, SessionFacts
       DEF FeeInv, TrailingFee
<1>14. GateInv'
  <2>1. ~InFlight(LegSender)'
    BY <1>5, <1>9, SessionFacts DEF InFlight, Arrived
  <2>2. agreed = Parties => agreed' = Parties
    BY <1>1, <1>7
  <2> QED
    BY <1>1, <1>3, <1>4, <1>7, <1>8, <2>1, <2>2 DEF GateInv, TrailingFee
<1> QED
  BY <1>6, <1>10, <1>11, <1>12, <1>13, <1>14

\* confirm_fee_received() preserves the invariant.
LEMMA OperatorConfirmsFeeInd ==
    ASSUME IndInv, OperatorConfirmsFee PROVE IndInv'
<1> USE DEF IndInv
<1>1. /\ session' = [session EXCEPT !.state = session'.state]
      /\ session.state = "WaitingForFeeConfirmation"
      /\ session'.state = IF session.position = "AfterLastRound"
                          THEN "Complete" ELSE "WaitingForSent"
      /\ confirmed' = confirmed + 1
      /\ UNCHANGED <<sent, value, got, fees, agreed, restarts>>
  BY DEF OperatorConfirmsFee, ConfirmFeeReceived, ConfirmAccepted, TypeOK
<1>2. /\ session'.terms = session.terms /\ session'.round = session.round
      /\ session'.leg = session.leg /\ session'.fee = session.fee
      /\ session'.confirm = session.confirm
      /\ session'.position = session.position
      /\ session'.acked = session.acked
  BY <1>1 DEF TypeOK
<1>3. LegSender' = LegSender
  BY <1>2, SameLegSender
<1>4. session.fee /\ session.round = FeeRound /\ session.leg = 0
  BY <1>1 DEF PhaseInv
<1>5. session.confirm /\ fees = 1 /\ confirmed = 0 /\ confirmed' = 1
  BY <1>1 DEF FeeInv
<1>6. session.position # "AfterLastRound" => session.round < session.terms.rounds
  BY <1>4, SessionFacts DEF FeeRound, TypeOK, FeePositions
<1>7. session.position = "AfterLastRound" => session.round = session.terms.rounds
  BY <1>4, SessionFacts DEF FeeRound
<1>8. TypeOK'
  BY <1>1, <1>2, <1>5 DEF TypeOK, SessionStates
<1>9. TranchesInv'
  BY <1>1, <1>2, <1>3 DEF TranchesInv, Arrived, InFlight
<1>10. ValueInv'
  BY <1>1, <1>2 DEF ValueInv
<1>11. PhaseInv'
  BY <1>1, <1>2, <1>4, <1>6, <1>7 DEF PhaseInv, FeeRound
<1>12. FeeInv'
  <2>1. FeeRound' = FeeRound /\ FeeRound \in Int
    BY <1>1, <1>2, SessionFacts DEF FeeRound
  <2>2. FeeSettled'
    BY <1>1, <1>2, <1>5 DEF FeeSettled
  <2> QED
    BY <1>1, <1>2, <1>4, <1>5, <2>1, <2>2, SessionFacts
       DEF FeeInv, TrailingFee
<1>13. GateInv'
  BY <1>1, <1>2, <1>3, <1>4, <1>5, <1>6
     DEF GateInv, TrailingFee, InFlight, Arrived
<1> QED
  BY <1>8, <1>9, <1>10, <1>11, <1>12, <1>13

\* abort() preserves the invariant: it forgets the state, not the progress.
LEMMA AbortSessionInd ==
    ASSUME IndInv, AbortSession PROVE IndInv'
<1> USE DEF IndInv
<1>1. /\ session' = [session EXCEPT !.state = "Aborted"]
      /\ UNCHANGED <<sent, value, got, fees, confirmed, agreed, restarts>>
  BY DEF AbortSession, Abort, history
<1>2. /\ session'.terms = session.terms /\ session'.round = session.round
      /\ session'.leg = session.leg /\ session'.fee = session.fee
      /\ session'.confirm = session.confirm
      /\ session'.position = session.position
      /\ session'.acked = session.acked
      /\ session'.state = "Aborted"
  BY <1>1 DEF TypeOK
<1>3. LegSender' = LegSender
  BY <1>2, SameLegSender
<1>4. TypeOK'
  BY <1>1, <1>2 DEF TypeOK, SessionStates
<1>5. TranchesInv'
  BY <1>1, <1>2, <1>3 DEF TranchesInv, Arrived, InFlight
<1>6. ValueInv'
  BY <1>1, <1>2 DEF ValueInv
<1>7. PhaseInv'
  BY <1>2 DEF PhaseInv
<1>8. FeeInv'
  BY <1>1, <1>2, <1>3
     DEF FeeInv, PastFee, FeeRound, FeeSettled, TrailingFee, InFlight, Arrived
<1>9. GateInv'
  BY <1>1, <1>2, <1>3 DEF GateInv, TrailingFee, InFlight, Arrived
<1> QED
  BY <1>4, <1>5, <1>6, <1>7, <1>8, <1>9

\* restore() under the same configuration preserves the invariant: it loses
\* the acknowledgements, so the gate asks for them again.
LEMMA RestartInd ==
    ASSUME IndInv, Restart PROVE IndInv'
<1> USE DEF IndInv
<1>1. /\ session' = [session EXCEPT !.confirm = session.confirm,
                                    !.position = session.position,
                                    !.acked = {}]
      /\ restarts < MaxRestarts /\ restarts' = restarts + 1
      /\ UNCHANGED <<sent, value, got, fees, confirmed, agreed>>
  BY DEF Restart, RestartWith, Restore, history
<1>2. /\ session'.terms = session.terms /\ session'.round = session.round
      /\ session'.leg = session.leg /\ session'.fee = session.fee
      /\ session'.confirm = session.confirm
      /\ session'.position = session.position
      /\ session'.acked = {}
      /\ session'.state = session.state
  BY <1>1 DEF TypeOK
<1>3. LegSender' = LegSender
  BY <1>2, SameLegSender
<1>4. TypeOK'
  <2>1. session' = [session EXCEPT !.acked = {}]
    BY <1>1 DEF TypeOK
  <2> QED
    BY <1>1, <1>2, <2>1, BoundsAssumption DEF TypeOK
<1>5. TranchesInv'
  BY <1>1, <1>2, <1>3 DEF TranchesInv, Arrived, InFlight
<1>6. ValueInv'
  BY <1>1, <1>2 DEF ValueInv
<1>7. PhaseInv'
  BY <1>2 DEF PhaseInv, TrailingFee, FeeRound
<1>8. FeeInv'
  BY <1>1, <1>2, <1>3
     DEF FeeInv, PastFee, FeeRound, FeeSettled, TrailingFee, InFlight, Arrived
<1>9. GateInv'
  BY <1>1, <1>2, <1>3 DEF GateInv, TrailingFee, InFlight, Arrived
<1> QED
  BY <1>4, <1>5, <1>6, <1>7, <1>8, <1>9

\* Every step of the session preserves the inductive invariant.
LEMMA NextIndInv == IndInv /\ [Next]_vars => IndInv'
<1> SUFFICES ASSUME IndInv, [Next]_vars PROVE IndInv'
  OBVIOUS
<1>1. CASE PeerJoins
  BY <1>1, PeerJoinsInd
<1>2. ASSUME NEW p \in Parties, NEW m \in Signals, ReportTrancheSent(p, m)
      PROVE  IndInv'
  BY <1>2, ReportTrancheSentInd
<1>3. ASSUME NEW p \in Parties, NEW m \in Signals, ReportFeeSent(p, m)
      PROVE  IndInv'
  BY <1>3, ReportFeeSentInd
<1>4. ASSUME NEW p \in Parties, NEW m \in Signals, ReportReceived(p, m)
      PROVE  IndInv'
  <2>1. session.leg = 0 \/ session.leg = 1
    BY DEF IndInv, TypeOK
  <2> QED
    BY <2>1, <1>4, FirstLegReceivedInd, SecondLegReceivedInd
<1>5. ASSUME NEW p \in Parties, AcknowledgeFinal(p) PROVE IndInv'
  BY <1>5, AcknowledgeFinalInd
<1>6. CASE OperatorConfirmsFee
  BY <1>6, OperatorConfirmsFeeInd
<1>7. CASE AbortSession
  BY <1>7, AbortSessionInd
<1>8. CASE Restart
  BY <1>8, RestartInd
<1>9. CASE UNCHANGED vars
  BY <1>9 DEF vars, history, IndInv, TypeOK, TranchesInv, ValueInv, PhaseInv,
              FeeInv, GateInv, Arrived, InFlight, LegSender, FeeRound,
              FeeSettled, PastFee, TrailingFee
<1> QED
  BY <1>1, <1>2, <1>3, <1>4, <1>5, <1>6, <1>7, <1>8, <1>9 DEF Next

-----------------------------------------------------------------------------
\* The inductive invariant holds in every reachable state of the session.
THEOREM Inductive == Spec => []IndInv
<1>1. Init => IndInv
  BY InitIndInv
<1>2. IndInv /\ [Next]_vars => IndInv'
  BY NextIndInv
<1> QED
  BY <1>1, <1>2, PTL DEF Spec

\* Type correctness: round_index_ never passes terms.rounds and leg_index_ is
\* 0 or 1, whatever is called in whatever order.
THEOREM TypeCorrect == Spec => []TypeOK
<1>1. IndInv => TypeOK
  BY DEF IndInv
<1> QED
  BY <1>1, Inductive, PTL

\* The cap on theft, for every number of rounds: a party never has more than
\* one unanswered tranche out, aborted sessions included.
THEOREM TheftCapped == Spec => []OneTrancheAtRisk
<1>1. IndInv => OneTrancheAtRisk
  <2> SUFFICES ASSUME IndInv PROVE OneTrancheAtRisk
    OBVIOUS
  <2> USE DEF IndInv
  <2>1. SUFFICES ASSUME NEW p \in Parties
                 PROVE  sent[p] - got[p] <= 1 /\ sent[p] <= session.terms.rounds
    BY DEF OneTrancheAtRisk
  <2>2. /\ OtherParty(p) \in Parties /\ OtherParty(OtherParty(p)) = p
        /\ OtherParty(p) # p
        /\ \A x \in Parties : x = p \/ x = OtherParty(p)
    BY DEF OtherParty, Parties
  <2>3. got[p] = Arrived(OtherParty(p))
    BY <2>2 DEF Arrived
  <2>4. /\ sent[p] \in Int /\ got[p] \in Int
        /\ session.round = session.terms.rounds => session.leg = 0
    BY DEF TypeOK, PhaseInv
  <2>5. CASE p = LegSender
    <3>1. Arrived(p) = session.round /\ got[p] >= session.round
      BY <2>2, <2>3, <2>5, SessionFacts DEF TranchesInv
    <3>2. \/ sent[p] = session.round
          \/ /\ sent[p] = session.round + 1
             /\ session.round < session.terms.rounds
      BY <3>1 DEF TranchesInv, InFlight
    <3> QED
      BY <3>1, <3>2, <2>4, SessionFacts
  <2>6. CASE p # LegSender
    <3>1. sent[p] = Arrived(p) /\ got[p] = session.round
      BY <2>2, <2>3, <2>6, SessionFacts DEF TranchesInv, InFlight
    <3>2. Arrived(p) = IF session.leg = 1 THEN session.round + 1
                                          ELSE session.round
      BY <2>6 DEF TranchesInv
    <3> QED
      BY <3>1, <3>2, <2>4, SessionFacts
  <2> QED
    BY <2>5, <2>6
<1> QED
  BY <1>1, Inductive, PTL

\* Exact settlement, for every deal: a session that says Complete has moved
\* both totals to the unit, had every tranche confirmed, and settled the fee
\* exactly once (confirmed exactly once if the operator asked for it).
THEOREM SettlementExact == Spec => []SettledExactly
<1>1. IndInv => SettledExactly
  <2> SUFFICES ASSUME IndInv PROVE SettledExactly
    OBVIOUS
  <2> USE DEF IndInv
  <2> SUFFICES ASSUME session.state = "Complete"
               PROVE  /\ value = session.terms.total
                      /\ \A p \in Parties : got[p] = session.terms.rounds
                      /\ fees = IF session.fee THEN 1 ELSE 0
                      /\ confirmed = IF session.fee /\ session.confirm
                                     THEN 1 ELSE 0
    BY DEF SettledExactly
  <2>1. session.round = session.terms.rounds /\ session.leg = 0
    BY DEF PhaseInv
  <2>2. \A p \in Parties : /\ Arrived(p) = session.terms.rounds
                           /\ sent[p] = session.terms.rounds
    <3>1. SUFFICES ASSUME NEW p \in Parties
                   PROVE  /\ Arrived(p) = session.terms.rounds
                          /\ sent[p] = session.terms.rounds
      OBVIOUS
    <3>2. Arrived(p) = session.round
      BY <2>1 DEF TranchesInv
    <3>3. ~InFlight(p)
      BY DEF TranchesInv
    <3> QED
      BY <2>1, <3>2, <3>3 DEF InFlight
  <2>3. \A p \in Parties : got[p] = session.terms.rounds
    BY <2>2 DEF Arrived, OtherParty, Parties
  <2>4. \A p \in Parties : value[p] = session.terms.total[p]
    <3>1. SUFFICES ASSUME NEW p \in Parties
                   PROVE  value[p] = session.terms.total[p]
      OBVIOUS
    <3>2. session.terms.total[p] \in Nat /\ session.terms.rounds \in Nat \ {0}
      BY SessionFacts
    <3> QED
      BY <2>2, <3>2, CumulativeAll DEF ValueInv
  <2>5. value = session.terms.total
    BY <2>4, SessionFacts DEF TypeOK
  <2>6. /\ fees = IF session.fee THEN 1 ELSE 0
        /\ confirmed = IF session.fee /\ session.confirm THEN 1 ELSE 0
    BY DEF FeeInv, FeeSettled
  <2> QED
    BY <2>3, <2>5, <2>6
<1> QED
  BY <1>1, Inductive, PTL

\* The withholding fix, for every deal: without both acknowledgements the true
\* final transfer is never sent.
THEOREM GateHolds == Spec => []FinalTransferGated
<1>1. IndInv => FinalTransferGated
  <2> SUFFICES ASSUME IndInv PROVE FinalTransferGated
    OBVIOUS
  <2> USE DEF IndInv
  <2>1. CASE TrailingFee
    BY <2>1 DEF GateInv, FeeInv, FinalTransferGated, TrailingFee
  <2>2. CASE ~TrailingFee
    <3>1. SUFFICES ASSUME agreed # Parties
                   PROVE  \E p \in Parties : sent[p] < session.terms.rounds
      BY <2>2 DEF FinalTransferGated, TrailingFee
    <3>2. session.round < session.terms.rounds
      BY <2>2, <3>1, SessionFacts DEF GateInv
    <3>3. CASE session.leg = 0
      <4>1. OtherParty(LegSender) \in Parties /\ OtherParty(LegSender) # LegSender
        BY SessionFacts DEF OtherParty, Parties
      <4>2. sent[OtherParty(LegSender)] = session.round
        BY <3>3, <4>1 DEF TranchesInv, InFlight
      <4> QED
        BY <3>2, <4>1, <4>2
    <3>4. CASE session.leg = 1
      <4>1. Arrived(LegSender) = session.round /\ LegSender \in Parties
        BY SessionFacts DEF TranchesInv
      <4>2. CASE InFlight(LegSender)
        <5>1. session.round + 1 # session.terms.rounds
          BY <2>2, <3>1, <3>4, <4>2 DEF GateInv
        <5>2. sent[LegSender] = session.round + 1
          BY <4>1, <4>2 DEF TranchesInv, InFlight
        <5> QED
          BY <3>2, <4>1, <5>1, <5>2, SessionFacts
      <4>3. CASE ~InFlight(LegSender)
        BY <3>2, <4>1, <4>3 DEF InFlight
      <4> QED
        BY <4>2, <4>3
    <3> QED
      BY <3>3, <3>4, SessionFacts
  <2> QED
    BY <2>1, <2>2
<1> QED
  BY <1>1, Inductive, PTL

\* A turn can always be computed, for every deal: tranche_amount is never
\* asked about a round that does not exist.
THEOREM TurnsDefined == Spec => []TurnNeverThrows
<1>1. IndInv => TurnNeverThrows
  BY DEF IndInv, PhaseInv, TurnNeverThrows, TurnDefined
<1> QED
  BY <1>1, Inductive, PTL

\* The fee leg is where it was agreed, for every deal and fee position: no
\* tranche behind an early fee leg moves before that leg is settled, and a
\* trailing fee is paid only when every tranche has arrived.
THEOREM FeeLegOnTime == Spec => []FeeOnTime
<1>1. IndInv => FeeOnTime
  <2> SUFFICES ASSUME IndInv, session.fee PROVE FeeOnTime
    BY DEF FeeOnTime
  <2> USE DEF IndInv
  <2>1. CASE session.position = "AfterLastRound"
    <3>1. SUFFICES ASSUME fees > 0
                   PROVE  \A p \in Parties : got[p] = session.terms.rounds
      BY <2>1 DEF FeeOnTime
    <3>2. session.round = session.terms.rounds
      BY <2>1, <3>1, SessionFacts DEF FeeInv, FeeRound
    <3>3. session.leg # 1
      BY <3>2 DEF PhaseInv
    <3>4. \A p \in Parties : Arrived(p) = session.terms.rounds
      BY <3>2, <3>3 DEF TranchesInv
    <3> QED
      BY <3>4 DEF Arrived, OtherParty, Parties
  <2>2. CASE session.position # "AfterLastRound"
    <3>1. SUFFICES ASSUME NEW p \in Parties, sent[p] > FeeRound
                   PROVE  FeeSettled
      <4>1. FeeRound = IF session.position = "BeforeFirstRound" THEN 0
                       ELSE session.terms.rounds - 1
        BY <2>2 DEF FeeRound, TypeOK, FeePositions
      <4>2. FeeSettled => fees = 1 /\ (session.confirm => confirmed = 1)
        BY DEF FeeSettled
      <4> QED
        BY <2>2, <4>1, <4>2 DEF FeeOnTime
    <3>2. FeeRound \in Int
      BY SessionFacts DEF FeeRound
    <3>3. CASE InFlight(p)
      <4>1. p = LegSender /\ sent[p] = session.round + 1
        BY <3>3, SessionFacts DEF TranchesInv, InFlight
      <4>2. PastFee
        BY <3>1, <3>2, <3>3, <4>1, SessionFacts DEF PastFee
      <4> QED
        BY <4>2 DEF FeeInv
    <3>4. CASE ~InFlight(p)
      <4>1. \/ sent[p] = session.round
            \/ sent[p] = session.round + 1 /\ session.leg = 1
        BY <3>4 DEF TranchesInv, InFlight
      <4>2. PastFee
        BY <3>1, <3>2, <4>1, SessionFacts DEF PastFee
      <4> QED
        BY <4>2 DEF FeeInv
    <3> QED
      BY <3>3, <3>4
  <2> QED
    BY <2>1, <2>2
<1> QED
  BY <1>1, Inductive, PTL

\* A step that leaves round and leg alone, and that a session which is over
\* does not take, is a step forward.
LEMMA StayForward ==
    ASSUME TypeOK, session'.round = session.round, session'.leg = session.leg,
           \/ session.state \notin {"Complete", "Aborted"}
           \/ session'.state = session.state
    PROVE  Forward
  BY SessionFacts DEF Forward

\* Progress is never lost, for every deal: no call and no restart takes a
\* session back to an earlier leg, and nothing revives one that is over.
THEOREM NeverBack == Spec => OnlyForward
<1>1. IndInv /\ [Next]_vars => [Forward]_session
  <2> SUFFICES ASSUME TypeOK, [Next]_vars, session' # session
               PROVE  Forward
    BY DEF IndInv
  <2>1. CASE PeerJoins
    <3>1. /\ session'.round = session.round /\ session'.leg = session.leg
          /\ session.state = "WaitingForPeer"
      BY <2>1 DEF PeerJoins, Join, JoinAccepted, TypeOK
    <3> QED
      BY <3>1, StayForward
  <2>2. ASSUME NEW p \in Parties, NEW m \in Signals,
               ReportTrancheSent(p, m) \/ ReportFeeSent(p, m)
        PROVE  Forward
    <3>1. /\ session'.round = session.round /\ session'.leg = session.leg
          /\ session.state \in {"WaitingForSent", "WaitingForFeeSent"}
      BY <2>2 DEF ReportTrancheSent, ReportFeeSent, SenderReportedSent, TypeOK
    <3> QED
      BY <3>1, StayForward
  <2>3. ASSUME NEW p \in Parties, NEW m \in Signals, ReportReceived(p, m)
        PROVE  Forward
    <3>1. session.state = "WaitingForReceived"
      BY <2>3 DEF ReportReceived, ReceivedAccepted
    <3>2. CASE session.leg = 0
      <4>1. session'.round = session.round /\ session'.leg = 1
        BY <2>3, <3>2 DEF ReportReceived, ReceiverReportedReceived,
                          AdvanceAfterReceipt, AfterFirstLeg, TypeOK
      <4> QED
        BY <3>1, <3>2, <4>1, SessionFacts DEF Forward
    <3>3. CASE session.leg = 1
      <4>1. session'.round = session.round + 1 /\ session'.leg = 0
        BY <2>3, <3>3 DEF ReportReceived, ReceiverReportedReceived,
                          AdvanceAfterReceipt, AfterSecondLeg, TypeOK
      <4> QED
        BY <3>1, <3>3, <4>1, SessionFacts DEF Forward
    <3> QED
      BY <3>2, <3>3, SessionFacts
  <2>4. ASSUME NEW p \in Parties, AcknowledgeFinal(p) PROVE Forward
    <3>1. /\ session'.round = session.round /\ session'.leg = session.leg
          /\ session.state = "WaitingForFinalReceiptAck"
      BY <2>4 DEF AcknowledgeFinal, AckAccepted, AcknowledgeFinalReceipt, TypeOK
    <3> QED
      BY <3>1, StayForward
  <2>5. CASE OperatorConfirmsFee
    <3>1. /\ session'.round = session.round /\ session'.leg = session.leg
          /\ session.state = "WaitingForFeeConfirmation"
      BY <2>5 DEF OperatorConfirmsFee, ConfirmAccepted, ConfirmFeeReceived,
                  TypeOK
    <3> QED
      BY <3>1, StayForward
  <2>6. CASE AbortSession
    <3>1. /\ session'.round = session.round /\ session'.leg = session.leg
          /\ session.state # "Complete" /\ session'.state = "Aborted"
      BY <2>6 DEF AbortSession, AbortAccepted, Abort, TypeOK
    <3> QED
      BY <3>1, StayForward
  <2>7. CASE Restart
    <3>1. /\ session'.round = session.round /\ session'.leg = session.leg
          /\ session'.state = session.state
      BY <2>7 DEF Restart, RestartWith, Restore, TypeOK
    <3> QED
      BY <3>1, StayForward
  <2>8. CASE UNCHANGED vars
    BY <2>8 DEF vars
  <2> QED
    BY <2>1, <2>2, <2>3, <2>4, <2>5, <2>6, <2>7, <2>8 DEF Next
<1> QED
  BY <1>1, Inductive, PTL DEF Spec, OnlyForward

-----------------------------------------------------------------------------
(* The refinement of Exchange: what the session stands for, by name.       *)

Deal == [rounds |-> session.terms.rounds, total |-> session.terms.total,
         fee |-> session.fee]
Landed == [p \in Parties |-> Arrived(p)]
Flying == IF \E p \in Parties : InFlight(p)
          THEN CHOOSE p \in Parties : InFlight(p) ELSE "none"
Outcome == CASE session.state = "Complete" -> "settled"
             [] session.state = "Aborted" -> "broken"
             [] OTHER -> "open"

\* At most one instalment is under way, and it is the one of this leg.
LEMMA FlyingFacts ==
    ASSUME TranchesInv
    PROVE  /\ \A p \in Parties : InFlight(p) => Flying = p
           /\ (\A p \in Parties : ~InFlight(p)) => Flying = "none"
<1>1. \A p, q \in Parties : InFlight(p) /\ InFlight(q) => p = q
  BY DEF TranchesInv
<1>2. ASSUME NEW p \in Parties, InFlight(p) PROVE Flying = p
  <2>1. Flying \in Parties /\ InFlight(Flying)
    BY <1>2 DEF Flying
  <2> QED
    BY <1>1, <1>2, <2>1
<1> QED
  BY <1>2 DEF Flying

\* The instalments in flight after a step.
LEMMA FlyingNextFacts ==
    ASSUME TranchesInv'
    PROVE  /\ \A p \in Parties : InFlight(p)' => Flying' = p
           /\ (\A p \in Parties : ~InFlight(p)') => Flying' = "none"
<1>1. \A p, q \in Parties : InFlight(p)' /\ InFlight(q)' => p = q
  BY DEF TranchesInv
<1>2. ASSUME NEW p \in Parties, InFlight(p)' PROVE Flying' = p
  <2>1. \E q \in Parties : Flying' = q /\ InFlight(q)'
    BY <1>2 DEF Flying
  <2> QED
    BY <1>1, <1>2, <2>1
<1> QED
  BY <1>2 DEF Flying

\* The outcome the mapping gives to each state of the session.
LEMMA OutcomeFacts ==
    /\ Outcome = "settled" <=> session.state = "Complete"
    /\ Outcome = "broken" <=> session.state = "Aborted"
    /\ Outcome = "open" <=> session.state \notin {"Complete", "Aborted"}
    /\ Outcome' = "settled" <=> session'.state = "Complete"
    /\ Outcome' = "broken" <=> session'.state = "Aborted"
    /\ Outcome' = "open" <=> session'.state \notin {"Complete", "Aborted"}
  BY DEF Outcome

\* The names are those of the instance.
LEMMA Names ==
    /\ TheExchange!exchange = <<Deal, Landed, Flying, value, fees, Outcome>>
    /\ TheExchange!exchange' = <<Deal', Landed', Flying', value', fees', Outcome'>>
  BY DEF TheExchange!exchange, Deal, Landed, Flying, Outcome

\* A session that is Complete has moved everything, at either end of a step.
EvenNow ==
    /\ Landed = [p \in Parties |-> Deal.rounds] /\ Flying = "none"
    /\ value = Deal.total /\ fees = IF Deal.fee THEN 1 ELSE 0

\* A completed session has every instalment landed.
LEMMA CompleteIsEven ==
    ASSUME TranchesInv', SettledExactly', session'.state = "Complete"
    PROVE  EvenNow'
<1>1. Flying' = "none"
  BY FlyingNextFacts DEF TranchesInv
<1>2. \A p \in Parties : OtherParty(p) \in Parties
  BY DEF OtherParty, Parties
<1>3. Landed' = [p \in Parties |-> Deal.rounds]'
  BY <1>2 DEF Landed, Arrived, SettledExactly, Deal
<1> QED
  BY <1>1, <1>3 DEF EvenNow, SettledExactly, Deal

\* The steps of Exchange, in these names.
LEMMA IsSend ==
    ASSUME NEW p \in Parties, Outcome = "open", Flying = "none",
           Landed[p] <= Landed[OtherParty(p)], Landed[p] < Deal.rounds, Flying' = p,
           NEW more \in {0, 1},
           value' = [value EXCEPT ![p] = @ + (Deal.total[p] \div Deal.rounds) + more],
           UNCHANGED <<Deal, Landed, fees, Outcome>>
    PROVE  TheExchange!Send(p)
  BY DEF TheExchange!Send, TheExchange!Across, OtherParty, Deal, Landed, Flying, Outcome

\* A Received lands the instalment in flight.
LEMMA IsLand ==
    ASSUME Outcome = "open", Flying # "none",
           Landed' = [Landed EXCEPT ![Flying] = @ + 1], Flying' = "none",
           UNCHANGED <<Deal, value, fees>>,
           Outcome' \in {"open", "settled"}, Outcome' = "settled" => EvenNow'
    PROVE  TheExchange!Land
  BY DEF TheExchange!Land, TheExchange!Settles, TheExchange!Even, TheExchange!Sides,
         Parties, EvenNow, Deal, Landed, Flying, Outcome

\* A fee that is reported is paid once.
LEMMA IsPayFee ==
    ASSUME Outcome = "open", Flying = "none", Deal.fee, fees = 0, fees' = 1,
           UNCHANGED <<Deal, Landed, Flying, value>>,
           Outcome' \in {"open", "settled"}, Outcome' = "settled" => EvenNow'
    PROVE  TheExchange!PayFee
  BY DEF TheExchange!PayFee, TheExchange!Settles, TheExchange!Even, TheExchange!Sides,
         Parties, EvenNow, Deal, Landed, Flying, Outcome

\* The last report settles the exchange.
LEMMA IsSettle ==
    ASSUME Outcome = "open", Outcome' = "settled", EvenNow,
           UNCHANGED <<Deal, Landed, Flying, value, fees>>
    PROVE  TheExchange!Settle
  BY DEF TheExchange!Settle, TheExchange!Even, TheExchange!Sides,
         Parties, EvenNow, Deal, Landed, Flying, Outcome

\* An abort breaks it off.
LEMMA IsBreak ==
    ASSUME Outcome = "open", Outcome' = "broken",
           UNCHANGED <<Deal, Landed, Flying, value, fees>>
    PROVE  TheExchange!Break
  BY DEF TheExchange!Break, Deal, Landed, Flying, Outcome

\* A step that no party makes leaves the goods where they are.
LEMMA GoodsStay ==
    ASSUME UNCHANGED <<sent, got>>, session'.terms = session.terms,
           session'.fee = session.fee
    PROVE  UNCHANGED <<Deal, Landed, Flying>>
<1>1. \A p \in Parties : Arrived(p)' = Arrived(p) /\ InFlight(p)' = InFlight(p)
  BY DEF Arrived, InFlight
<1>2. Flying' = Flying
  BY DEF Flying, InFlight, Arrived
<1> QED
  BY <1>1, <1>2 DEF Deal, Landed

\* Every call is a step of Exchange, or changes nothing that Exchange sees.
LEMMA ExchangeStep ==
    ASSUME IndInv, IndInv', SettledExactly', [Next]_vars
    PROVE  [TheExchange!Next]_(TheExchange!exchange)
<1>0. /\ TypeOK /\ TranchesInv /\ PhaseInv /\ FeeInv /\ TranchesInv'
      /\ LegSender \in Parties
  BY SessionFacts DEF IndInv
<1> DEFINE Stutter == UNCHANGED <<Deal, Landed, Flying, value, fees, Outcome>>
<1>1. Stutter => [TheExchange!Next]_(TheExchange!exchange)
  BY Names
<1>2. (\E p \in Parties : TheExchange!Send(p)) \/ TheExchange!Land \/ TheExchange!PayFee
         \/ TheExchange!Settle \/ TheExchange!Break => TheExchange!Next
  BY DEF TheExchange!Next, TheExchange!Sides, Parties
<1>3. CASE PeerJoins
  <2>1. /\ session'.terms = session.terms /\ session'.fee = session.fee
        /\ UNCHANGED <<sent, got, value, fees>> /\ session.state = "WaitingForPeer"
        /\ session'.state \in {"WaitingForFeeSent", "WaitingForSent"}
    BY <1>0, <1>3 DEF PeerJoins, Join, JoinAccepted, TypeOK, history
  <2> QED
    BY <1>1, <2>1, GoodsStay, OutcomeFacts
<1>4. ASSUME NEW p \in Parties, NEW m \in Signals, ReportTrancheSent(p, m)
      PROVE  TheExchange!Send(p)
  <2>1. /\ session.state = "WaitingForSent" /\ session'.state = "WaitingForReceived"
        /\ p = LegSender /\ session'.terms = session.terms /\ session'.fee = session.fee
        /\ session'.round = session.round /\ session'.leg = session.leg
    BY <1>0, <1>4 DEF ReportTrancheSent, SentAccepted, CurrentSender, LegSender,
                      SenderReportedSent, TypeOK
  <2>2. /\ sent' = [sent EXCEPT ![p] = @ + 1] /\ UNCHANGED <<got, fees>>
        /\ value' = [value EXCEPT ![p] =
                        @ + TrancheAmount(session.terms.total[p],
                                          session.terms.rounds, session.round)]
    BY <1>4 DEF ReportTrancheSent
  <2>3. UNCHANGED <<Deal, Landed>> /\ Outcome = "open" /\ Outcome' = "open"
    BY <2>1, <2>2, OutcomeFacts DEF Deal, Landed, Arrived
  <2>4. Flying = "none"
    BY <1>0, <2>1, FlyingFacts DEF TranchesInv
  <2>5. Flying' = p
    <3>1. LegSender' = LegSender
      BY <2>1, SameLegSender
    <3>2. InFlight(p)'
      BY <1>0, <2>1, <3>1 DEF TranchesInv
    <3> QED
      BY <1>0, <3>2, FlyingNextFacts
  <2>6. Landed[p] <= Landed[OtherParty(p)] /\ Landed[p] < Deal.rounds
    <3>1. OtherParty(p) \in Parties
      BY DEF OtherParty, Parties
    <3>2. /\ Arrived(p) = session.round
          /\ Arrived(OtherParty(p)) \in {session.round, session.round + 1}
      BY <1>0, <2>1, <3>1 DEF TranchesInv
    <3> QED
      BY <1>0, <2>1, <3>1, <3>2, SessionFacts DEF Landed, Deal, PhaseInv
  <2>7. PICK more \in {0, 1} :
           TrancheAmount(session.terms.total[p], session.terms.rounds, session.round)
              = (session.terms.total[p] \div session.terms.rounds) + more
    BY DEF TrancheAmount
  <2>8. value' = [value EXCEPT ![p] = @ + (Deal.total[p] \div Deal.rounds) + more]
    <3>1. /\ Deal.total = session.terms.total /\ Deal.rounds = session.terms.rounds
          /\ value[p] \in Nat
      BY <1>0 DEF Deal, TypeOK
    <3>2. session.terms.total[p] \div session.terms.rounds \in Int
      BY <1>0, SessionFacts
    <3>3. value[p] + TrancheAmount(session.terms.total[p], session.terms.rounds,
                                   session.round)
             = value[p] + (session.terms.total[p] \div session.terms.rounds) + more
      BY <2>7, <3>1, <3>2
    <3> QED
      BY <2>2, <3>1, <3>3
  <2> QED
    BY <2>2, <2>3, <2>4, <2>5, <2>6, <2>8, IsSend
<1>5. ASSUME NEW p \in Parties, NEW m \in Signals, ReportFeeSent(p, m)
      PROVE  TheExchange!PayFee
  <2>1. /\ session.state = "WaitingForFeeSent"
        /\ session'.state \in {"WaitingForFeeConfirmation", "Complete", "WaitingForSent"}
        /\ session'.terms = session.terms /\ session'.fee = session.fee
    BY <1>0, <1>5 DEF ReportFeeSent, SenderReportedSent, TypeOK
  <2>2. UNCHANGED <<sent, got, value>> /\ fees' = fees + 1
    BY <1>5 DEF ReportFeeSent
  <2>3. Deal.fee /\ fees = 0
    BY <1>0, <2>1 DEF PhaseInv, FeeInv, Deal
  <2>4. Flying = "none"
    BY <1>0, <2>1, FlyingFacts DEF TranchesInv
  <2>5. Outcome' = "settled" => EvenNow'
    BY <1>0, CompleteIsEven, OutcomeFacts
  <2>6. UNCHANGED <<Deal, Landed, Flying>>
    BY <2>1, <2>2, GoodsStay
  <2>7. Outcome = "open" /\ Outcome' \in {"open", "settled"} /\ fees' = 1
    BY <2>1, <2>2, <2>3, OutcomeFacts
  <2> QED
    BY <2>2, <2>3, <2>4, <2>5, <2>6, <2>7, IsPayFee
<1>6. ASSUME NEW p \in Parties, NEW m \in Signals, ReportReceived(p, m)
      PROVE  TheExchange!Land
  <2>1. /\ session.state = "WaitingForReceived" /\ p = OtherParty(LegSender)
        /\ session'.state \notin {"WaitingForReceived", "Aborted"}
        /\ session'.terms = session.terms /\ session'.fee = session.fee
    BY <1>0, <1>6 DEF ReportReceived, ReceivedAccepted, CurrentSender, LegSender,
       ReceiverReportedReceived, AdvanceAfterReceipt, AfterFirstLeg, AfterSecondLeg, TypeOK
  <2>2. got' = [got EXCEPT ![p] = @ + 1] /\ UNCHANGED <<sent, value, fees>>
    BY <1>6 DEF ReportReceived
  <2>3. Flying = LegSender
    BY <1>0, <2>1, FlyingFacts DEF TranchesInv
  <2>4. Flying' = "none"
    BY <1>0, <2>1, FlyingNextFacts DEF TranchesInv
  <2>5. Landed' = [Landed EXCEPT ![Flying] = @ + 1]
    <3>1. /\ Arrived(LegSender) = got[p]
          /\ \A q \in Parties : Arrived(q)' = IF q = LegSender THEN got[p] + 1 ELSE Arrived(q)
      BY <1>0, <2>1, <2>2 DEF Arrived, OtherParty, Parties, TypeOK
    <3> QED
      BY <1>0, <2>3, <3>1 DEF Landed
  <2>6. Outcome' = "settled" => EvenNow'
    BY <1>0, CompleteIsEven, OutcomeFacts
  <2>7. Outcome = "open" /\ Outcome' \in {"open", "settled"} /\ Flying # "none"
    BY <1>0, <2>1, <2>3, OutcomeFacts DEF Parties
  <2>8. UNCHANGED Deal
    BY <2>1 DEF Deal
  <2> QED
    BY <2>2, <2>4, <2>5, <2>6, <2>7, <2>8, IsLand
<1>7. ASSUME NEW p \in Parties, AcknowledgeFinal(p) PROVE Stutter
  <2>1. /\ session'.terms = session.terms /\ session'.fee = session.fee
        /\ UNCHANGED <<sent, got, value, fees>>
        /\ session.state = "WaitingForFinalReceiptAck"
        /\ session'.state \notin {"Complete", "Aborted"}
    BY <1>0, <1>7 DEF AcknowledgeFinal, AckAccepted, AcknowledgeFinalReceipt, TypeOK
  <2> QED
    BY <2>1, GoodsStay, OutcomeFacts
<1>8. ASSUME OperatorConfirmsFee PROVE Stutter \/ TheExchange!Settle
  <2>1. /\ session'.terms = session.terms /\ session'.fee = session.fee
        /\ UNCHANGED <<sent, got, value, fees>>
        /\ session.state = "WaitingForFeeConfirmation"
        /\ session'.state \in {"Complete", "WaitingForSent"}
    BY <1>0, <1>8 DEF OperatorConfirmsFee, ConfirmAccepted, ConfirmFeeReceived, TypeOK
  <2>2. UNCHANGED <<Deal, Landed, Flying, value, fees>> /\ Outcome = "open"
    BY <2>1, GoodsStay, OutcomeFacts
  <2>3. CASE session'.state = "WaitingForSent"
    BY <2>2, <2>3, OutcomeFacts
  <2>4. CASE session'.state = "Complete"
    <3>1. EvenNow'
      BY <1>0, <2>4, CompleteIsEven
    <3>2. EvenNow
      BY <2>2, <3>1 DEF EvenNow
    <3> QED
      BY <2>2, <2>4, <3>2, OutcomeFacts, IsSettle
  <2> QED
    BY <2>1, <2>3, <2>4
<1>9. ASSUME AbortSession PROVE Stutter \/ TheExchange!Break
  <2>1. /\ session'.terms = session.terms /\ session'.fee = session.fee
        /\ UNCHANGED <<sent, got, value, fees>>
        /\ session.state # "Complete" /\ session'.state = "Aborted"
    BY <1>0, <1>9 DEF AbortSession, AbortAccepted, Abort, TypeOK, history
  <2>2. UNCHANGED <<Deal, Landed, Flying, value, fees>>
    BY <2>1, GoodsStay
  <2>3. CASE session.state = "Aborted"
    BY <2>1, <2>2, <2>3, OutcomeFacts
  <2>4. CASE session.state # "Aborted"
    BY <2>1, <2>2, <2>4, OutcomeFacts, IsBreak
  <2> QED
    BY <2>3, <2>4
<1>10. ASSUME Restart PROVE Stutter
  <2>1. /\ session'.terms = session.terms /\ session'.fee = session.fee
        /\ UNCHANGED <<sent, got, value, fees>> /\ session'.state = session.state
    BY <1>0, <1>10 DEF Restart, RestartWith, Restore, TypeOK, history
  <2> QED
    BY <2>1, GoodsStay DEF Outcome
<1>11. ASSUME UNCHANGED vars PROVE Stutter
  <2>1. UNCHANGED <<session, sent, got, value, fees>>
    BY <1>11 DEF vars, history
  <2> QED
    BY <2>1, GoodsStay DEF Outcome
<1> HIDE DEF Stutter
<1> QED
  BY <1>1, <1>2, <1>3, <1>4, <1>5, <1>6, <1>7, <1>8, <1>9, <1>10, <1>11 DEF Next

\* The session implements the exchange it stands for, for every deal and
\* through every restart: goods move one instalment at a time, no side runs
\* ahead by more than the one under way, the fee is paid at most once, and
\* the session is Complete only when everything has arrived.
THEOREM ExchangeRefined == Spec => ImplementsExchange
<1>1. Init => TheExchange!Init
  <2> SUFFICES ASSUME Init PROVE TheExchange!Init
    OBVIOUS
  <2>1. PICK t \in Terms, fee \in BOOLEAN, confirm \in BOOLEAN, position \in FeePositions :
           session = NewSession(t, fee, confirm, position)
    BY DEF Init
  <2>2. /\ session.terms = t /\ session.fee = fee /\ session.state = "WaitingForPeer"
    BY <2>1 DEF NewSession
  <2>3. /\ sent = [p \in Parties |-> 0] /\ got = [p \in Parties |-> 0]
        /\ value = [p \in Parties |-> 0] /\ fees = 0
    BY DEF Init
  <2>4. \A p \in Parties : Arrived(p) = 0 /\ ~InFlight(p)
    BY <2>3 DEF Arrived, InFlight, OtherParty, Parties
  <2>5. Deal \in TheExchange!Deals
    BY <2>2 DEF Deal, TheExchange!Deals, TheExchange!Sides, Terms, ValidTerms, Parties
  <2>6. Landed = [p \in Parties |-> 0] /\ Flying = "none" /\ Outcome = "open"
    BY <2>2, <2>4, OutcomeFacts DEF Landed, Flying
  <2> QED
    BY <2>3, <2>5, <2>6
    DEF TheExchange!Init, TheExchange!Sides, Parties, Deal, Landed, Flying, Outcome
<1> QED
  BY Inductive, SettlementExact, <1>1, ExchangeStep, PTL
  DEF Spec, ImplementsExchange, TheExchange!Spec
=============================================================================

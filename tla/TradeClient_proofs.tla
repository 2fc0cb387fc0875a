------------------------- MODULE TradeClient_proofs -------------------------
(***************************************************************************)
(* What a client of the mediator may rely on in one room, for every deal,  *)
(* any number of clicks and lost connections and every order in which the  *)
(* mediator's threads tell the parties.                                    *)
(*                                                                         *)
(* The mediator's steps come first: what each call does to the session     *)
(* and what its thread has then to tell.  On them rest three arguments,    *)
(* about the turns a signal is for, about the receipts of a room, and      *)
(* about the receipts the page offers to confirm.                          *)
(***************************************************************************)
EXTENDS TradeClient, SequenceTheorems, TLAPS

-----------------------------------------------------------------------------
Turns == [round : Int, sender : Parties, is_fee : BOOLEAN]

Sessions ==
    [terms : [rounds : Nat \ {0}, first_sender : {"A"}, total : [Parties -> Nat]],
     fee : BOOLEAN, confirm : BOOLEAN, position : FeePositions,
     state : SessionStates, round : Nat, leg : {0, 1}, acked : SUBSET Parties]

LateFee(s) == s.fee /\ s.position = "AfterLastRound"

InTranche == {"WaitingForSent", "WaitingForReceived"}
InFee == {"WaitingForFeeSent", "WaitingForFeeConfirmation"}

\* Where a session may be in each state.
SessionInv(s) ==
    /\ s.round <= s.terms.rounds
    /\ s.round = s.terms.rounds => s.leg = 0
    /\ s.state = "WaitingForPeer" => s.round = 0 /\ s.leg = 0
    /\ s.state \in InTranche => s.round < s.terms.rounds
    /\ s.state \in InFee => /\ s.fee /\ s.leg = 0
                            /\ LateFee(s) <=> s.round = s.terms.rounds
    /\ s.state = "WaitingForFinalReceiptAck" =>
          /\ s.acked # Parties
          /\ LateFee(s) => s.round = s.terms.rounds
          /\ ~LateFee(s) => s.round + 1 = s.terms.rounds /\ s.leg = 1

\* The gate in front of the last transfer is open.
Passed(s) ==
    \/ /\ s.state \in InTranche
       /\ s.leg = 1 /\ s.round + 1 = s.terms.rounds /\ ~LateFee(s)
    \/ s.state \in InFee /\ LateFee(s)

Kept(s, s2) == /\ s2.terms = s.terms /\ s2.fee = s.fee
               /\ s2.confirm = s.confirm /\ s2.position = s.position

Stays(s, s2) == s2.round = s.round /\ s2.leg = s.leg

GoesOn(s, s2) == \/ s.leg = 0 /\ s2.leg = 1 /\ s2.round = s.round
                 \/ s.leg = 1 /\ s2.leg = 0 /\ s2.round = s.round + 1

\* What a call by t may make of session s.
Joins(s, s2) ==
    /\ s.state = "WaitingForPeer"
    /\ s2.state \in {"WaitingForSent", "WaitingForFeeSent"}
    /\ Stays(s, s2) /\ ~Passed(s2)
Sends(t, s, s2) ==
    /\ s.state = "WaitingForSent" /\ s2.state = "WaitingForReceived"
    /\ t = CurrentSender(s) /\ Stays(s, s2)
PaysFee(t, s, s2) ==
    /\ s.state = "WaitingForFeeSent" /\ t = "A" /\ Stays(s, s2)
    /\ \/ s2.state = "WaitingForFeeConfirmation"
       \/ s2.state = "Complete" /\ LateFee(s)
       \/ s2.state = "WaitingForSent" /\ ~LateFee(s)
Receives(t, s, s2) ==
    /\ s.state = "WaitingForReceived" /\ t = OtherParty(CurrentSender(s))
    /\ GoesOn(s, s2) /\ ~Passed(s2)
    /\ \/ s2.state = "Complete" /\ Passed(s)
       \/ s2.state = "WaitingForFinalReceiptAck" /\ s2.acked = {} /\ ~Passed(s)
       \/ s2.state \in {"WaitingForSent", "WaitingForFeeSent"} /\ ~Passed(s)
Acks(t, s, s2) ==
    /\ s.state = "WaitingForFinalReceiptAck" /\ t \in Parties
    /\ s2.acked = s.acked \cup {t} /\ Stays(s, s2)
    /\ \/ s2.state = "WaitingForFinalReceiptAck"
       \/ /\ s2.state \in {"WaitingForSent", "WaitingForFeeSent"}
          /\ Passed(s2) /\ s2.acked = Parties
Confirms(t, s, s2) ==
    /\ s.state = "WaitingForFeeConfirmation" /\ LateFee(s) /\ t = "operator"
    /\ s2.state = "Complete" /\ Stays(s, s2)
Aborts(s, s2) ==
    /\ s.state \notin {"WaitingForPeer", "Complete", "Aborted"}
    /\ s2.state = "Aborted" /\ Stays(s, s2)

Becomes(t, s, s2) ==
    /\ s2 \in Sessions /\ SessionInv(s2) /\ Kept(s, s2)
    /\ \/ Joins(s, s2) \/ Sends(t, s, s2) \/ PaysFee(t, s, s2)
       \/ Receives(t, s, s2) \/ Acks(t, s, s2) \/ Confirms(t, s, s2)
       \/ Aborts(s, s2)

\* join.
LEMMA JoinFacts ==
  ASSUME NEW s \in Sessions, SessionInv(s), JoinAccepted(s), NEW t
  PROVE  Becomes(t, s, Join(s))
<1>1. PICK s2 : s2 = Join(s) OBVIOUS
<1>2. s2 \in Sessions /\ Kept(s, s2) /\ Stays(s, s2)
  BY <1>1 DEF Join, Sessions, SessionStates, Kept, Stays
<1>3. s2.state = IF FeeDueBeforeAnyRound(s) THEN "WaitingForFeeSent" ELSE "WaitingForSent"
  BY <1>1 DEF Join, Sessions
<1>4. SessionInv(s2) /\ ~Passed(s2)
  BY <1>2, <1>3 DEF SessionInv, Passed, JoinAccepted, Sessions, Kept, Stays, LateFee, InTranche,
       InFee, FeeDueBeforeAnyRound
<1> QED BY <1>1, <1>2, <1>3, <1>4 DEF Becomes, Joins, JoinAccepted

\* sender_reported_sent.
LEMMA SentFacts ==
  ASSUME NEW s \in Sessions, SessionInv(s), NEW t, NEW m \in Turns, SentAccepted(s, t, m)
  PROVE  Becomes(t, s, SenderReportedSent(s))
<1>1. PICK s2 : s2 = SenderReportedSent(s) OBVIOUS
<1>2. s2 \in Sessions /\ Kept(s, s2) /\ Stays(s, s2) /\ s2.acked = s.acked
  BY <1>1 DEF SenderReportedSent, Sessions, SessionStates, Kept, Stays
<1>3. s2.state = IF s.state = "WaitingForSent" THEN "WaitingForReceived"
                 ELSE IF s.confirm THEN "WaitingForFeeConfirmation"
                 ELSE IF s.position = "AfterLastRound" THEN "Complete"
                 ELSE "WaitingForSent"
  BY <1>1 DEF SenderReportedSent, Sessions
<1>4. SessionInv(s2)
  BY <1>2, <1>3 DEF SessionInv, SentAccepted, Sessions, Kept, Stays, LateFee, InTranche, InFee
<1>5. Sends(t, s, s2) \/ PaysFee(t, s, s2)
  BY <1>2, <1>3 DEF Sends, PaysFee, SentAccepted, CurrentSender, SessionInv, LateFee, InFee
<1> QED BY <1>1, <1>2, <1>4, <1>5 DEF Becomes

\* receiver_reported_received, after the first leg of a round.
LEMMA FirstLegFacts ==
  ASSUME NEW s \in Sessions, SessionInv(s), NEW t, NEW m \in Turns, ReceivedAccepted(s, t, m),
         s.leg = 0
  PROVE  Becomes(t, s, AfterFirstLeg(s))
<1> DEFINE final == s.round + 1 = s.terms.rounds /\ ~LateFee(s)
<1>1. PICK s2 : s2 = AfterFirstLeg(s) OBVIOUS
<1>2. /\ s2 \in Sessions /\ Kept(s, s2) /\ s2.round = s.round /\ s2.leg = 1
      /\ s2.state = IF final THEN "WaitingForFinalReceiptAck" ELSE "WaitingForSent"
      /\ final => s2.acked = {}
  BY <1>1 DEF AfterFirstLeg, Sessions, SessionStates, Kept, LateFee
<1> HIDE DEF final
<1>3. final <=> s.round + 1 = s.terms.rounds /\ ~LateFee(s)
  BY DEF final
<1>4. LateFee(s2) = LateFee(s) /\ s2.terms = s.terms
  BY <1>2 DEF LateFee, Kept
<1>5. s.round < s.terms.rounds /\ s.round \in Nat /\ s.terms.rounds \in Nat \ {0} /\ s2.round \in Nat
  BY <1>2 DEF SessionInv, ReceivedAccepted, InTranche, Sessions
<1>6. SessionInv(s2)
  <2>1. CASE final
    <3>1. s2.acked = {} /\ {} # Parties BY <1>2, <2>1 DEF Parties
    <3> QED BY <1>2, <1>3, <1>4, <1>5, <2>1, <3>1 DEF SessionInv, InTranche, InFee
  <2>2. CASE ~final
    BY <1>2, <1>4, <1>5, <2>2 DEF SessionInv, InTranche, InFee
  <2> QED BY <2>1, <2>2
<1>7. ~Passed(s2) /\ ~Passed(s)
  BY <1>2, <1>3, <1>4 DEF Passed, InTranche, InFee, ReceivedAccepted
<1>8. Receives(t, s, s2)
  BY <1>2, <1>7 DEF Receives, GoesOn, ReceivedAccepted
<1> QED BY <1>1, <1>2, <1>6, <1>8 DEF Becomes

\* receiver_reported_received, after the second leg of a round.
LEMMA SecondLegFacts ==
  ASSUME NEW s \in Sessions, SessionInv(s), NEW t, NEW m \in Turns, ReceivedAccepted(s, t, m),
         s.leg = 1
  PROVE  Becomes(t, s, AfterSecondLeg(s))
<1> DEFINE early == s.fee /\ s.position = "BeforeLastRound" /\ s.round + 1 = s.terms.rounds - 1
           gate == ~early /\ s.round + 1 = s.terms.rounds /\ LateFee(s)
<1>1. PICK s2 : s2 = AfterSecondLeg(s) OBVIOUS
<1>2. /\ s2 \in Sessions /\ Kept(s, s2) /\ s2.round = s.round + 1 /\ s2.leg = 0
      /\ s2.state = IF early THEN "WaitingForFeeSent"
                    ELSE IF gate THEN "WaitingForFinalReceiptAck"
                    ELSE IF s.round + 1 = s.terms.rounds THEN "Complete" ELSE "WaitingForSent"
      /\ gate => s2.acked = {}
  <2>1. early <=> s.fee /\ s.position = "BeforeLastRound" /\ s.round + 1 = s.terms.rounds - 1
    OBVIOUS
  <2>2. gate <=> ~early /\ s.round + 1 = s.terms.rounds /\ s.fee /\ s.position = "AfterLastRound"
    BY DEF LateFee
  <2> HIDE DEF early, gate
  <2>3. PICK acked, state :
           /\ acked = IF gate THEN {} ELSE s.acked
           /\ state = IF early THEN "WaitingForFeeSent"
                      ELSE IF gate THEN "WaitingForFinalReceiptAck"
                      ELSE IF s.round + 1 = s.terms.rounds THEN "Complete" ELSE "WaitingForSent"
    OBVIOUS
  <2>4. s2 = [s EXCEPT !.leg = 0, !.round = s.round + 1, !.acked = acked, !.state = state]
    BY <1>1, <2>1, <2>2, <2>3 DEF AfterSecondLeg
  <2>5. acked \in SUBSET Parties /\ state \in SessionStates
    BY <2>3 DEF Sessions, SessionStates
  <2>6. s.round + 1 \in Nat
    BY DEF Sessions
  <2>7. s2 \in Sessions
    BY <2>4, <2>5, <2>6 DEF Sessions
  <2>8. s2.acked = acked /\ s2.state = state /\ s2.round = s.round + 1 /\ s2.leg = 0
    BY <2>4, <2>5 DEF Sessions
  <2>9. Kept(s, s2)
    BY <2>4 DEF Sessions, Kept
  <2> QED BY <2>3, <2>7, <2>8, <2>9
<1>3. /\ early => s.fee /\ ~LateFee(s) /\ s.round + 1 # s.terms.rounds
      /\ gate => s.round + 1 = s.terms.rounds /\ LateFee(s)
      /\ ~early /\ ~gate /\ s.round + 1 = s.terms.rounds => ~LateFee(s)
  BY DEF LateFee, Sessions
<1> HIDE DEF early, gate
<1>4. LateFee(s2) = LateFee(s) /\ s2.terms = s.terms /\ s2.fee = s.fee
  BY <1>2 DEF LateFee, Kept
<1>5. s.round < s.terms.rounds /\ s.round \in Nat /\ s.terms.rounds \in Nat \ {0} /\ s2.round \in Nat
  BY <1>2 DEF SessionInv, ReceivedAccepted, InTranche, Sessions
<1>6. SessionInv(s2)
  BY <1>2, <1>3, <1>4, <1>5 DEF SessionInv, InTranche, InFee, Parties
<1>7. ~Passed(s2) /\ (Passed(s) <=> s.round + 1 = s.terms.rounds /\ ~LateFee(s))
  BY <1>2, <1>3, <1>4 DEF Passed, InTranche, InFee, ReceivedAccepted
<1>8. Receives(t, s, s2)
  BY <1>2, <1>3, <1>7 DEF Receives, GoesOn, ReceivedAccepted
<1> QED BY <1>1, <1>2, <1>6, <1>8 DEF Becomes

\* acknowledge_final_receipt.
LEMMA AckFacts ==
  ASSUME NEW s \in Sessions, SessionInv(s), NEW t \in Parties, AckAccepted(s, t)
  PROVE  Becomes(t, s, AcknowledgeFinalReceipt(s, t))
<1>1. PICK s2 : s2 = AcknowledgeFinalReceipt(s, t) OBVIOUS
<1>2. /\ s2 \in Sessions /\ Kept(s, s2) /\ Stays(s, s2) /\ s2.acked = s.acked \cup {t}
      /\ s2.state = IF s2.acked # Parties THEN s.state
                    ELSE IF GateIsFeeLeg(s) THEN "WaitingForFeeSent" ELSE "WaitingForSent"
  BY <1>1 DEF AcknowledgeFinalReceipt, Sessions, SessionStates, Kept, Stays
<1>3. /\ LateFee(s2) = LateFee(s) /\ s2.terms = s.terms /\ s2.fee = s.fee
      /\ GateIsFeeLeg(s) <=> LateFee(s)
  BY <1>2 DEF LateFee, Kept, GateIsFeeLeg, SessionInv, AckAccepted
<1>4. s2.round \in Nat /\ s2.terms.rounds \in Nat \ {0}
  BY <1>2 DEF Sessions
<1>5. SessionInv(s2)
  BY <1>2, <1>3, <1>4 DEF SessionInv, Stays, InTranche, InFee, AckAccepted, LateFee
<1>6. s2.state # "WaitingForFinalReceiptAck" => Passed(s2) /\ s2.acked = Parties
  BY <1>2, <1>3 DEF Passed, SessionInv, Stays, InTranche, InFee, AckAccepted
<1>7. Acks(t, s, s2)
  BY <1>2, <1>6 DEF Acks, AckAccepted
<1> QED BY <1>1, <1>2, <1>5, <1>7 DEF Becomes

\* confirm_fee_received, for the fee leg that comes last.
LEMMA ConfirmFacts ==
  ASSUME NEW s \in Sessions, SessionInv(s), ConfirmAccepted(s), s.position = "AfterLastRound"
  PROVE  Becomes("operator", s, ConfirmFeeReceived(s))
<1>1. PICK s2 : s2 = ConfirmFeeReceived(s) OBVIOUS
<1>2. s2 \in Sessions /\ Kept(s, s2) /\ Stays(s, s2) /\ s2.state = "Complete"
  BY <1>1 DEF ConfirmFeeReceived, Sessions, SessionStates, Kept, Stays
<1>3. SessionInv(s2) /\ LateFee(s)
  BY <1>2 DEF SessionInv, ConfirmAccepted, Kept, Stays, LateFee, InTranche, InFee
<1> QED BY <1>1, <1>2, <1>3 DEF Becomes, Confirms, ConfirmAccepted

\* abort.
LEMMA AbortFacts ==
  ASSUME NEW s \in Sessions, SessionInv(s), NEW t
  PROVE  /\ Abort(s) \in Sessions /\ SessionInv(Abort(s)) /\ Kept(s, Abort(s))
         /\ Stays(s, Abort(s)) /\ Abort(s).state = "Aborted"
         /\ s.state \notin {"WaitingForPeer", "Complete", "Aborted"} => Becomes(t, s, Abort(s))
<1>1. PICK s2 : s2 = Abort(s) OBVIOUS
<1>2. s2 \in Sessions /\ Kept(s, s2) /\ Stays(s, s2) /\ s2.state = "Aborted"
  BY <1>1 DEF Abort, Sessions, SessionStates, Kept, Stays
<1>3. SessionInv(s2)
  BY <1>2 DEF SessionInv, Kept, Stays, InTranche, InFee
<1> QED BY <1>1, <1>2, <1>3 DEF Becomes, Aborts

-----------------------------------------------------------------------------
(***************************************************************************)
(* What a thread has to tell after a call.                                 *)
(***************************************************************************)
Receipts == [type : {"Receipt"}, stage : {3, 4}, keys : [Parties -> Nat],
             prev : {<<>>, <<3>>}]
Plain == {"TradeReady", "Sent", "Received", "Complete", "Abort", "FeeConfirmationPending",
          "ReceiptAckRequired", "TradeEphemeralKey"}
Downs == [type : {"Turn"}, turn : Turns] \cup Receipts \cup [type : Plain]
Jobs == Parties \X Downs

Type(job) == job[2].type

\* Receipts are due when the gate opens and at the end.
Due(s, s2) == \/ s2.state = "Complete"
              \/ /\ s.state = "WaitingForFinalReceiptAck"
                 /\ s2.state \in {"WaitingForSent", "WaitingForFeeSent"}
Stage(s2) == IF s2.state = "Complete" THEN 4 ELSE 3

LEMMA TwoPieces ==
  ASSUME NEW a \in Seq(Jobs), NEW b \in Seq(Jobs), NEW n, n = a \o b
  PROVE  /\ n \in Seq(Jobs) /\ Len(n) = Len(a) + Len(b)
         /\ \A i \in 1..Len(a) : n[i] = a[i]
         /\ \A i \in 1..Len(b) : n[Len(a) + i] = b[i]
OBVIOUS

LEMMA Pieces ==
  ASSUME NEW a \in Seq(Jobs), NEW b \in Seq(Jobs), NEW c \in Seq(Jobs),
         NEW n, n = (a \o b) \o c
  PROVE  /\ n \in Seq(Jobs)
         /\ Len(n) = Len(a) + Len(b) + Len(c)
         /\ \A i \in 1..Len(a) : n[i] = a[i]
         /\ \A i \in 1..Len(b) : n[Len(a) + i] = b[i]
         /\ \A i \in 1..Len(c) : n[Len(a) + Len(b) + i] = c[i]
<1>1. PICK d : d = a \o b OBVIOUS
<1>2. /\ d \in Seq(Jobs) /\ Len(d) = Len(a) + Len(b)
      /\ \A i \in 1..Len(a) : d[i] = a[i]
      /\ \A i \in 1..Len(b) : d[Len(a) + i] = b[i]
  BY <1>1, TwoPieces
<1>3. n = d \o c BY <1>1
<1>4. /\ n \in Seq(Jobs) /\ Len(n) = Len(d) + Len(c)
      /\ \A i \in 1..Len(d) : n[i] = d[i]
      /\ \A i \in 1..Len(c) : n[Len(d) + i] = c[i]
  <2>1. d \in Seq(Jobs) BY <1>2
  <2> QED BY <2>1, <1>3, TwoPieces
<1>5. Len(a) \in Nat /\ Len(b) \in Nat /\ Len(c) \in Nat BY LenProperties
<1>6. \A i \in 1..Len(a) : i \in 1..Len(d) BY <1>2, <1>5
<1>7. \A i \in 1..Len(b) : Len(a) + i \in 1..Len(d) BY <1>2, <1>5
<1> QED BY <1>2, <1>4, <1>5, <1>6, <1>7

LEMMA RoomFacts ==
  ASSUME NEW f \in Downs
  PROVE  /\ ToRoom(f) \in Seq(Jobs) /\ Len(ToRoom(f)) = 2
         /\ ToRoom(f)[1] = <<"A", f>> /\ ToRoom(f)[2] = <<"B", f>>
<1>1. <<"A", f>> \in Jobs /\ <<"B", f>> \in Jobs BY DEF Jobs, Parties
<1> QED BY <1>1 DEF ToRoom

LEMMA PlainFrames == \A x \in Plain : Frame(x) \in Downs /\ Frame(x).type = x
BY DEF Frame, Downs

LEMMA TurnFacts ==
  ASSUME NEW s \in Sessions
  PROVE  /\ CurrentSender(s) \in Parties /\ FirstSenderForRound(s) \in Parties
         /\ TurnOf(s) \in Turns /\ TurnFrame(s) \in Downs
         /\ TurnFrame(s).type = "Turn" /\ TurnFrame(s).turn = TurnOf(s)
<1>1. CurrentSender(s) \in Parties /\ FirstSenderForRound(s) \in Parties
  BY DEF Sessions, CurrentSender, FirstSenderForRound, OtherParty, Parties
<1>2. TurnOf(s) \in Turns
  BY <1>1 DEF Sessions, TurnOf, Turns
<1> QED BY <1>1, <1>2 DEF TurnFrame, Downs

\* What comes first, if anything, is that the other party reported.
Reports == {"Sent", "Received", "TradeReady"}
SaidFirst(first) == /\ first \in Seq(Jobs)
                    /\ \A i \in 1..Len(first) : Type(first[i]) \in Reports

\* The task of a thread, a part said first, the receipts and then the news.
Scripted(n, a, b, c, r, f) ==
    /\ \A i \in 1..Len(n) :
          /\ n[i] \in Jobs
          /\ Type(n[i]) = "Receipt" => b = ToRoom(r) /\ n[i][2] = r
          /\ Type(n[i]) \notin {"Receipt"} \cup Reports =>
                /\ c = ToRoom(f) /\ n[i][2] = f
                /\ \A j \in 1..Len(n) : Type(n[j]) = "Receipt" => j < i
          /\ Type(n[i]) = "Sent" /\ f.type # "Sent" => i \in 1..Len(a) /\ n[i] = a[i]
    /\ \A i, j \in 1..Len(n) : n[i] = n[j] /\ Type(n[i]) = "Receipt" => i = j
    /\ b = ToRoom(r) => \A p \in Parties : \E i \in 1..Len(n) : n[i] = <<p, r>>
    /\ c = ToRoom(f) => \A p \in Parties : \E i \in 1..Len(n) : n[i] = <<p, f>>

LEMMA ScriptFacts ==
  ASSUME NEW a, SaidFirst(a), NEW b \in Seq(Jobs), NEW c \in Seq(Jobs),
         NEW r \in Receipts, NEW f \in Downs, f.type # "Receipt",
         b = <<>> \/ b = ToRoom(r), c = <<>> \/ c = ToRoom(f),
         NEW n, n = (a \o b) \o c
  PROVE  n \in Seq(Jobs) /\ Scripted(n, a, b, c, r, f)
<1>a. /\ a \in Seq(Jobs)
      /\ \A i \in 1..Len(a) : Type(a[i]) \in Reports
  BY DEF SaidFirst
<1>0. PICK la, lb, lc : la = Len(a) /\ lb = Len(b) /\ lc = Len(c)
  OBVIOUS
<1>1. /\ n \in Seq(Jobs) /\ Len(n) = la + lb + lc
      /\ \A i \in 1..la : n[i] = a[i]
      /\ \A i \in 1..lb : n[la + i] = b[i]
      /\ \A i \in 1..lc : n[la + lb + i] = c[i]
  <2>1. /\ n \in Seq(Jobs) /\ Len(n) = Len(a) + Len(b) + Len(c)
        /\ \A i \in 1..Len(a) : n[i] = a[i]
        /\ \A i \in 1..Len(b) : n[Len(a) + i] = b[i]
        /\ \A i \in 1..Len(c) : n[Len(a) + Len(b) + i] = c[i]
    BY <1>a, Pieces
  <2> QED BY <1>0, <2>1
<1>2. la \in Nat /\ lb \in Nat /\ lc \in Nat
  BY <1>0, <1>a, LenProperties
<1>3. r \in Downs /\ r.type = "Receipt"
  BY DEF Downs, Receipts
<1>4. /\ lb = IF b = <<>> THEN 0 ELSE 2
      /\ b # <<>> => b = ToRoom(r) /\ b[1] = <<"A", r>> /\ b[2] = <<"B", r>>
      /\ b = ToRoom(r) => b # <<>>
  <2>1. ToRoom(r)[1] = <<"A", r>> /\ ToRoom(r)[2] = <<"B", r>> /\ Len(ToRoom(r)) = 2
    BY <1>3, RoomFacts, Zenon
  <2>2. Len(<<>>) = 0 OBVIOUS
  <2>3. ToRoom(r) # <<>> BY <2>1, <2>2
  <2>4. b # <<>> => b = ToRoom(r) OBVIOUS
  <2>5. lb = IF b = <<>> THEN 0 ELSE 2
    <3>1. CASE b = <<>> BY <1>0, <2>2, <3>1
    <3>2. CASE b # <<>> BY <1>0, <2>1, <2>4, <3>2
    <3> QED BY <3>1, <3>2
  <2> QED BY <2>1, <2>3, <2>4, <2>5, Zenon
<1>5. /\ lc = IF c = <<>> THEN 0 ELSE 2
      /\ c # <<>> => c = ToRoom(f) /\ c[1] = <<"A", f>> /\ c[2] = <<"B", f>>
      /\ c = ToRoom(f) => c # <<>>
  <2>1. ToRoom(f)[1] = <<"A", f>> /\ ToRoom(f)[2] = <<"B", f>> /\ Len(ToRoom(f)) = 2
    BY RoomFacts, Zenon
  <2>2. Len(<<>>) = 0 OBVIOUS
  <2>3. ToRoom(f) # <<>> BY <2>1, <2>2
  <2>4. c # <<>> => c = ToRoom(f) OBVIOUS
  <2>5. lc = IF c = <<>> THEN 0 ELSE 2
    <3>1. CASE c = <<>> BY <1>0, <2>2, <3>1
    <3>2. CASE c # <<>> BY <1>0, <2>1, <2>4, <3>2
    <3> QED BY <3>1, <3>2
  <2> QED BY <2>1, <2>3, <2>4, <2>5, Zenon
<1>6. \A i \in 1..Len(n) :
         \/ i \in 1..la /\ n[i] = a[i]
         \/ /\ b # <<>> /\ i \in {la + 1, la + 2}
            /\ n[i] = IF i = la + 1 THEN <<"A", r>> ELSE <<"B", r>>
         \/ /\ c # <<>> /\ i \in {la + lb + 1, la + lb + 2}
            /\ n[i] = IF i = la + lb + 1 THEN <<"A", f>> ELSE <<"B", f>>
  <2> TAKE i \in 1..Len(n)
  <2>1. CASE i <= la
    BY <1>1, <1>2, <2>1
  <2>2. CASE i > la /\ i <= la + lb
    <3>1. i - la \in 1..lb /\ la + (i - la) = i BY <1>2, <1>4, <2>2
    <3>2. n[i] = b[i - la] BY <1>1, <3>1
    <3>3. b # <<>> /\ i - la \in {1, 2} BY <1>4, <3>1
    <3>4. CASE i = la + 1
      <4>1. i - la = 1 BY <1>2, <3>4
      <4> QED BY <1>4, <3>2, <3>3, <3>4, <4>1
    <3>5. CASE i = la + 2
      <4>1. i - la = 2 /\ i # la + 1 BY <1>2, <3>5
      <4> QED BY <1>4, <3>2, <3>3, <3>5, <4>1
    <3> QED BY <1>2, <3>1, <3>3, <3>4, <3>5
  <2>3. CASE i > la + lb
    <3>1. i - (la + lb) \in 1..lc /\ (la + lb) + (i - (la + lb)) = i
      <4>1. Len(n) = la + lb + lc BY <1>1
      <4> QED BY <1>2, <2>3, <4>1
    <3>2. n[i] = c[i - (la + lb)] BY <1>1, <3>1
    <3>3. c # <<>> /\ i - (la + lb) \in {1, 2} BY <1>5, <3>1
    <3>4. CASE i = la + lb + 1
      <4>1. i - (la + lb) = 1 BY <1>2, <3>4
      <4> QED BY <1>5, <3>2, <3>3, <3>4, <4>1
    <3>5. CASE i = la + lb + 2
      <4>1. i - (la + lb) = 2 /\ i # la + lb + 1 BY <1>2, <3>5
      <4> QED BY <1>5, <3>2, <3>3, <3>5, <4>1
    <3> QED BY <1>2, <3>1, <3>3, <3>4, <3>5
  <2> QED BY <1>2, <1>4, <2>1, <2>2, <2>3
<1>7. \A i \in 1..Len(n) :
         \/ i \in 1..la /\ n[i] = a[i] /\ Type(n[i]) \in Reports
         \/ /\ b # <<>> /\ i \in {la + 1, la + 2} /\ n[i][2] = r
            /\ n[i][1] = IF i = la + 1 THEN "A" ELSE "B"
         \/ /\ c # <<>> /\ i \in {la + lb + 1, la + lb + 2} /\ n[i][2] = f
  <2> TAKE i \in 1..Len(n)
  <2>1. i \in 1..la => Type(a[i]) \in Reports BY <1>0, <1>a
  <2>2. CASE i \in 1..la /\ n[i] = a[i] BY <2>1, <2>2
  <2>3. CASE /\ b # <<>> /\ i \in {la + 1, la + 2}
             /\ n[i] = IF i = la + 1 THEN <<"A", r>> ELSE <<"B", r>>
    BY <2>3
  <2>4. CASE /\ c # <<>> /\ i \in {la + lb + 1, la + lb + 2}
             /\ n[i] = IF i = la + lb + 1 THEN <<"A", f>> ELSE <<"B", f>>
    BY <2>4
  <2> QED BY <1>6, <2>2, <2>3, <2>4
<1>8. \A i \in 1..Len(n) : Type(n[i]) = "Receipt" =>
         /\ b # <<>> /\ i \in {la + 1, la + 2} /\ n[i][2] = r
         /\ n[i][1] = IF i = la + 1 THEN "A" ELSE "B"
  BY <1>7 DEF Type, Reports
<1>9. ASSUME NEW i \in 1..Len(n)
      PROVE  /\ n[i] \in Jobs
             /\ Type(n[i]) = "Receipt" => b = ToRoom(r) /\ n[i][2] = r
             /\ Type(n[i]) \notin {"Receipt"} \cup Reports =>
                   /\ c = ToRoom(f) /\ n[i][2] = f
                   /\ \A j \in 1..Len(n) : Type(n[j]) = "Receipt" => j < i
             /\ Type(n[i]) = "Sent" /\ f.type # "Sent" => i \in 1..Len(a) /\ n[i] = a[i]
  <2>1. n[i] \in Jobs BY <1>1
  <2>2. Type(n[i]) = "Receipt" => b = ToRoom(r) /\ n[i][2] = r BY <1>8, <1>4
  <2>3. ASSUME Type(n[i]) \notin {"Receipt"} \cup Reports
        PROVE  /\ c = ToRoom(f) /\ n[i][2] = f
               /\ \A j \in 1..Len(n) : Type(n[j]) = "Receipt" => j < i
    <3>1. c # <<>> /\ i \in {la + lb + 1, la + lb + 2} /\ n[i][2] = f
      BY <1>7, <1>3, <2>3 DEF Type, Reports
    <3>2. ASSUME NEW j \in 1..Len(n), Type(n[j]) = "Receipt" PROVE j < i
      <4>1. b # <<>> /\ j \in {la + 1, la + 2} BY <1>8, <3>2
      <4>2. lb = 2 BY <1>4, <4>1
      <4> QED BY <1>2, <3>1, <4>1, <4>2
    <3> QED BY <1>5, <3>1, <3>2
  <2>4. ASSUME Type(n[i]) = "Sent", f.type # "Sent" PROVE i \in 1..Len(a) /\ n[i] = a[i]
    <3>1. i \in 1..la /\ n[i] = a[i] BY <1>7, <1>3, <2>4 DEF Type, Reports
    <3> QED BY <1>0, <3>1
  <2> QED BY <2>1, <2>2, <2>3, <2>4
<1>10. \A i, j \in 1..Len(n) : n[i] = n[j] /\ Type(n[i]) = "Receipt" => i = j
  <2> SUFFICES ASSUME NEW i \in 1..Len(n), NEW j \in 1..Len(n), n[i] = n[j], Type(n[i]) = "Receipt"
               PROVE  i = j
    OBVIOUS
  <2>1. Type(n[j]) = "Receipt" /\ n[i][1] = n[j][1] OBVIOUS
  <2>2. /\ i \in {la + 1, la + 2} /\ n[i][1] = IF i = la + 1 THEN "A" ELSE "B"
        /\ j \in {la + 1, la + 2} /\ n[j][1] = IF j = la + 1 THEN "A" ELSE "B"
    BY <1>8, <2>1
  <2> QED BY <2>1, <2>2
<1>11. b = ToRoom(r) => \A p \in Parties : \E i \in 1..Len(n) : n[i] = <<p, r>>
  <2> SUFFICES ASSUME b = ToRoom(r), NEW p \in Parties PROVE \E i \in 1..Len(n) : n[i] = <<p, r>>
    OBVIOUS
  <2>1. lb = 2 /\ 1 \in 1..lb /\ 2 \in 1..lb BY <1>4
  <2>2. la + 1 \in 1..Len(n) /\ la + 2 \in 1..Len(n) BY <1>1, <1>2, <1>5, <2>1
  <2>3. n[la + 1] = <<"A", r>> /\ n[la + 2] = <<"B", r>> BY <1>1, <1>4, <2>1
  <2> QED BY <2>2, <2>3 DEF Parties
<1>12. c = ToRoom(f) => \A p \in Parties : \E i \in 1..Len(n) : n[i] = <<p, f>>
  <2> SUFFICES ASSUME c = ToRoom(f), NEW p \in Parties PROVE \E i \in 1..Len(n) : n[i] = <<p, f>>
    OBVIOUS
  <2>1. lc = 2 /\ 1 \in 1..lc /\ 2 \in 1..lc BY <1>5
  <2>2. la + lb + 1 \in 1..Len(n) /\ la + lb + 2 \in 1..Len(n)
    BY <1>1, <1>2, <1>4, <2>1
  <2>3. n[la + lb + 1] = <<"A", f>> /\ n[la + lb + 2] = <<"B", f>>
    BY <1>1, <1>5, <2>1
  <2> QED BY <2>2, <2>3 DEF Parties
<1> QED BY <1>1, <1>9, <1>10, <1>11, <1>12 DEF Scripted

-----------------------------------------------------------------------------
(***************************************************************************)
(* The types of the state, and which receipts exist in each state of the   *)
(* session.                                                                *)
(***************************************************************************)
Ups == [type : {"Sent", "Received", "Abort", "JoinOffer"}, turn : Turns, offered : BOOLEAN]
          \cup [type : {"TradeEphemeralKey", "ReceiptAck"}]
Views == [status : {"none", "active", "complete", "aborted"}, turn : Turns,
          peer_sent : BOOLEAN, pending : BOOLEAN]

Types ==
    /\ me \in Parties /\ session \in Sessions /\ keys \in [Parties -> Nat]
    /\ task \in [Threads -> Seq(Jobs)]
    /\ told \in [ready : BOOLEAN, turn : Turns, sent : BOOLEAN, gate : BOOLEAN]
    /\ member \in BOOLEAN
    /\ up \in Seq(Ups) /\ down \in Seq(Downs)
    /\ outgoing \in Seq(Ups) /\ batch \in Seq(Ups)
    /\ pressed \in {<<>>} \cup ({"built", "checked"} \X Ups)
    /\ room \in Views /\ chain \in Seq(Receipts)

ReceiptsIssued ==
    /\ issued \in {<<>>, <<3>>, <<3, 4>>}
    /\ session.state = "Complete" => issued = <<3, 4>>
    /\ Passed(session) => issued = <<3>>
    /\ session.state \notin {"Complete", "Aborted"} /\ ~Passed(session) => issued = <<>>
    /\ session.state = "WaitingForFinalReceiptAck" => \A p \in session.acked : keys[p] # 0
    /\ issued # <<>> => CanIssue

TradeInv == Types /\ SessionInv(session) /\ ReceiptsIssued

LEMMA Chains == /\ Append(<<>>, 3) = <<3>> /\ Append(<<3>>, 4) = <<3, 4>>
                /\ <<>> # <<3>> /\ <<3>> # <<3, 4>> /\ <<>> # <<3, 4>>
                /\ Len(<<>>) = 0 /\ Len(<<3>>) = 1 /\ Len(<<3, 4>>) = 2
<1>1. Append(<<>>, 3) = <<3>> OBVIOUS
<1>2. Append(<<3>>, 4) = <<3, 4>>
  <2>1. PICK a : a = Append(<<3>>, 4) OBVIOUS
  <2>2. <<3>> \in Seq(Nat) /\ Len(<<3>>) = 1 /\ <<3>>[1] = 3 OBVIOUS
  <2>3. a \in Seq(Nat) /\ Len(a) = 2 /\ a[1] = 3 /\ a[2] = 4
    BY <2>1, <2>2, AppendProperties
  <2>4. a = <<a[1], a[2]>> BY <2>3
  <2> QED BY <2>1, <2>3, <2>4
<1>3. Len(<<>>) = 0 /\ Len(<<3>>) = 1 /\ Len(<<3, 4>>) = 2 OBVIOUS
<1>4. <<>> # <<3>> /\ <<3>> # <<3, 4>> /\ <<>> # <<3, 4>> BY <1>3
<1> QED BY <1>1, <1>2, <1>3, <1>4

\* A receipt is issued for the right chain, once both parties have a key.
LEMMA DueFacts ==
  ASSUME TradeInv, NEW t, NEW s2, Becomes(t, session, s2), Due(session, s2)
  PROVE  /\ s2.state = "Complete" => issued = <<3>> /\ Passed(session)
         /\ s2.state # "Complete" => /\ issued = <<>> /\ Passed(s2) /\ Acks(t, session, s2)
                                     /\ s2.acked = Parties
         /\ s2.state # "Complete" /\ (t \in session.acked \/ keys[t] # 0) => CanIssue
         /\ s2.state = "Complete" => CanIssue
         /\ CanIssue => Receipt(Stage(s2)) \in Receipts
<1>1. s2.state = "Complete" => Passed(session)
  BY DEF Due, Becomes, Joins, Sends, PaysFee, Receives, Acks, Confirms, Aborts, Passed, InFee
<1>2. s2.state = "Complete" => issued = <<3>>
  BY <1>1 DEF TradeInv, ReceiptsIssued
<1>3. s2.state # "Complete" => Passed(s2) /\ Acks(t, session, s2) /\ s2.acked = Parties
  BY DEF Due, Becomes, Joins, Sends, PaysFee, Receives, Acks, Confirms, Aborts
<1>4. s2.state # "Complete" => session.state = "WaitingForFinalReceiptAck"
  BY DEF Due
<1>5. s2.state # "Complete" => issued = <<>>
  BY <1>4 DEF TradeInv, ReceiptsIssued, Passed, InTranche, InFee
<1>6. s2.state # "Complete" /\ (t \in session.acked \/ keys[t] # 0) => CanIssue
  BY <1>3, <1>4 DEF TradeInv, ReceiptsIssued, CanIssue, Acks
<1>7. s2.state = "Complete" => CanIssue
  BY <1>2, Chains DEF TradeInv, ReceiptsIssued
<1>8. Receipt(Stage(s2)) \in Receipts
  <2>1. issued \in {<<>>, <<3>>} BY <1>2, <1>5
  <2>2. keys \in [Parties -> Nat] BY DEF TradeInv, Types
  <2>3. Stage(s2) \in {3, 4} BY DEF Stage
  <2> QED BY <2>1, <2>2, <2>3 DEF Receipt, Receipts
<1> QED BY <1>1, <1>2, <1>3, <1>5, <1>6, <1>7, <1>8

\* What Settle leaves in the task of its thread.
Tells(n, s, s2, first) ==
    /\ \A i \in 1..Len(n) :
          /\ n[i] \in Jobs
          /\ Type(n[i]) = "Receipt" =>
                Due(s, s2) /\ CanIssue /\ n[i][2] = Receipt(Stage(s2))
          /\ Type(n[i]) = "Turn" =>
                /\ s2.state \in {"WaitingForSent", "WaitingForFeeSent"}
                /\ n[i][2] = TurnFrame(s2)
          /\ Type(n[i]) = "Complete" => s2.state = "Complete"
          /\ Type(n[i]) \in {"Turn", "Complete"} =>
                \A j \in 1..Len(n) : Type(n[j]) = "Receipt" => j < i
          /\ Type(n[i]) = "Sent" => i \in 1..Len(first) /\ n[i] = first[i]
    /\ \A i, j \in 1..Len(n) : n[i] = n[j] /\ Type(n[i]) = "Receipt" => i = j
    /\ Due(s, s2) /\ CanIssue =>
          \A p \in Parties : \E i \in 1..Len(n) : n[i] = <<p, Receipt(Stage(s2))>>
    /\ s2.state \in {"WaitingForSent", "WaitingForFeeSent"} =>
          \A p \in Parties : \E i \in 1..Len(n) : n[i] = <<p, TurnFrame(s2)>>

LEMMA SettleFacts ==
  ASSUME TradeInv, NEW t \in Threads, NEW s2, Becomes(t, session, s2),
         NEW first, SaidFirst(first), Settle(t, s2, first)
  PROVE  /\ session' = s2
         /\ issued' = IF Due(session, s2) /\ CanIssue THEN Append(issued, Stage(s2)) ELSE issued
         /\ \E n \in Seq(Jobs) : task' = [task EXCEPT ![t] = n] /\ Tells(n, session, s2, first)
<1> DEFINE st == s2.state
           news == CASE st = "Complete" -> Frame("Complete")
                     [] st = "Aborted" -> Frame("Abort")
                     [] st = "WaitingForFeeConfirmation" -> Frame("FeeConfirmationPending")
                     [] st = "WaitingForFinalReceiptAck" -> Frame("ReceiptAckRequired")
                     [] OTHER -> TurnFrame(s2)
           said == ~(\/ st = "WaitingForReceived"
                     \/ st = "WaitingForFinalReceiptAck" /\ session.state = st)
<1>1. session' = s2
  BY DEF Settle
<1>2. s2 \in Sessions
  BY DEF Becomes
<1>3. st \in {"Complete", "Aborted", "WaitingForFeeConfirmation", "WaitingForFinalReceiptAck",
              "WaitingForReceived", "WaitingForSent", "WaitingForFeeSent"}
  BY DEF Becomes, Joins, Sends, PaysFee, Receives, Acks, Confirms, Aborts
<1>4. PICK f : f = news OBVIOUS
<1>5. /\ f \in Downs /\ f.type \notin {"Receipt"} \cup Reports
      /\ f.type = "Turn" /\ st # "WaitingForReceived" =>
            st \in {"WaitingForSent", "WaitingForFeeSent"}
      /\ st \in {"WaitingForSent", "WaitingForFeeSent"} => f = TurnFrame(s2)
      /\ f.type = "Turn" => f = TurnFrame(s2)
      /\ f.type = "Complete" => st = "Complete"
  <2>1. CASE st \in {"WaitingForReceived", "WaitingForSent", "WaitingForFeeSent"}
    <3>1. f = TurnFrame(s2) BY <1>4, <2>1
    <3> QED BY <1>2, <2>1, <3>1, TurnFacts DEF Reports
  <2>2. CASE st = "Complete"
    <3>1. f = Frame("Complete") BY <1>4, <2>2
    <3> QED BY <2>2, <3>1, PlainFrames DEF Plain, Reports
  <2>3. CASE st = "Aborted"
    <3>1. f = Frame("Abort") BY <1>4, <2>3
    <3> QED BY <2>3, <3>1, PlainFrames DEF Plain, Reports
  <2>4. CASE st = "WaitingForFeeConfirmation"
    <3>1. f = Frame("FeeConfirmationPending") BY <1>4, <2>4
    <3> QED BY <2>4, <3>1, PlainFrames DEF Plain, Reports
  <2>5. CASE st = "WaitingForFinalReceiptAck"
    <3>1. f = Frame("ReceiptAckRequired") BY <1>4, <2>5
    <3> QED BY <2>5, <3>1, PlainFrames DEF Plain, Reports
  <2> QED BY <1>3, <2>1, <2>2, <2>3, <2>4, <2>5
<1>6. PICK b : b = IF Due(session, s2) /\ CanIssue THEN ToRoom(Receipt(Stage(s2))) ELSE <<>>
  OBVIOUS
<1>7. PICK c : c = IF said THEN ToRoom(f) ELSE <<>>
  OBVIOUS
<1>8. PICK r \in Receipts : Due(session, s2) /\ CanIssue => r = Receipt(Stage(s2))
  <2>1. CASE Due(session, s2) /\ CanIssue
    BY <2>1, DueFacts
  <2>2. CASE ~(Due(session, s2) /\ CanIssue)
    <3>1. [type |-> "Receipt", stage |-> 3, keys |-> [p \in Parties |-> 0], prev |-> <<>>]
            \in Receipts
      BY DEF Receipts
    <3> QED BY <2>2, <3>1
  <2> QED BY <2>1, <2>2
<1>9. PICK n : n = (first \o b) \o c OBVIOUS
<1>10. task' = [task EXCEPT ![t] = n]
  <2>1. b = IF st = "Complete" \/ (/\ session.state = "WaitingForFinalReceiptAck"
                                   /\ st \in {"WaitingForSent", "WaitingForFeeSent"})
            THEN ReceiptToRoom(IF st = "Complete" THEN 4 ELSE 3) ELSE <<>>
    BY <1>6 DEF Due, Stage, ReceiptToRoom
  <2>2. c = CASE st = "Complete" -> ToRoom(Frame("Complete"))
              [] st = "Aborted" -> ToRoom(Frame("Abort"))
              [] st = "WaitingForFeeConfirmation" -> ToRoom(Frame("FeeConfirmationPending"))
              [] st = "WaitingForFinalReceiptAck" -> IF session.state = st THEN <<>>
                                                     ELSE ToRoom(Frame("ReceiptAckRequired"))
              [] st = "WaitingForReceived" -> <<>>
              [] OTHER -> ToRoom(TurnFrame(s2))
    BY <1>3, <1>4, <1>7
  <2>3. PICK b2, c2 : b2 = b /\ c2 = c OBVIOUS
  <2> QED BY <1>9, <2>1, <2>2 DEF Settle
<1>11. issued' = IF Due(session, s2) /\ CanIssue THEN Append(issued, Stage(s2)) ELSE issued
  BY DEF Settle, Due, Stage, IssueReceipt

<1>12. /\ b = <<>> \/ b = ToRoom(r)
       /\ c = <<>> \/ c = ToRoom(f)
       /\ b \in Seq(Jobs) /\ c \in Seq(Jobs) /\ <<>> # ToRoom(r) /\ <<>> # ToRoom(f)
  <2>1. r \in Downs BY DEF Downs
  <2>2. /\ ToRoom(r) \in Seq(Jobs) /\ Len(ToRoom(r)) = 2
        /\ ToRoom(f) \in Seq(Jobs) /\ Len(ToRoom(f)) = 2
    BY <1>5, <2>1, RoomFacts
  <2>3. <<>> \in Seq(Jobs) /\ Len(<<>>) = 0 OBVIOUS
  <2>4. b = <<>> \/ b = ToRoom(r) BY <1>6, <1>8
  <2>5. c = <<>> \/ c = ToRoom(f) BY <1>7
  <2>6. <<>> # ToRoom(r) /\ <<>> # ToRoom(f) BY <2>2, <2>3
  <2> QED BY <2>2, <2>3, <2>4, <2>5, <2>6, Zenon
<1>13. /\ b = ToRoom(r) <=> Due(session, s2) /\ CanIssue
       /\ c = ToRoom(f) <=> said
  BY <1>6, <1>7, <1>8, <1>12
<1> HIDE DEF news, said
<1>15. /\ n \in Seq(Jobs)
       /\ \A i \in 1..Len(n) :
             /\ n[i] \in Jobs
             /\ Type(n[i]) = "Receipt" => b = ToRoom(r) /\ n[i][2] = r
             /\ Type(n[i]) \notin {"Receipt"} \cup Reports =>
                   /\ c = ToRoom(f) /\ n[i][2] = f
                   /\ \A j \in 1..Len(n) : Type(n[j]) = "Receipt" => j < i
             /\ Type(n[i]) = "Sent" /\ f.type # "Sent" => i \in 1..Len(first) /\ n[i] = first[i]
       /\ \A i, j \in 1..Len(n) : n[i] = n[j] /\ Type(n[i]) = "Receipt" => i = j
       /\ b = ToRoom(r) => \A p \in Parties : \E i \in 1..Len(n) : n[i] = <<p, r>>
       /\ c = ToRoom(f) => \A p \in Parties : \E i \in 1..Len(n) : n[i] = <<p, f>>
  <2>1. f \in Downs /\ f.type # "Receipt" BY <1>5
  <2>2. n \in Seq(Jobs) /\ Scripted(n, first, b, c, r, f)
    BY <2>1, <1>8, <1>9, <1>12, ScriptFacts, ZenonT(40)
  <2> QED BY <2>2, Zenon DEF Scripted
<1>16. said /\ f.type = "Turn" => st \in {"WaitingForSent", "WaitingForFeeSent"}
  BY <1>5 DEF said
<1>17. st \in {"WaitingForSent", "WaitingForFeeSent"} => said
  BY DEF said
<1>18. \A i \in 1..Len(n) :
          /\ Type(n[i]) = "Turn" => said /\ f.type = "Turn" /\ n[i][2] = f
          /\ Type(n[i]) = "Complete" => f.type = "Complete"
          /\ Type(n[i]) \in {"Turn", "Complete"} =>
                \A j \in 1..Len(n) : Type(n[j]) = "Receipt" => j < i
  <2> TAKE i \in 1..Len(n)
  <2>1. CASE Type(n[i]) \notin {"Receipt"} \cup Reports
    <3>1. c = ToRoom(f) /\ n[i][2] = f BY <1>15, <2>1
    <3>2. Type(n[i]) = f.type BY <3>1 DEF Type
    <3> QED BY <1>13, <1>15, <2>1, <3>1, <3>2
  <2>2. CASE Type(n[i]) \in {"Receipt"} \cup Reports
    BY <2>2 DEF Reports
  <2> QED BY <2>1, <2>2
<1>19. Tells(n, session, s2, first)
  <2>1. ASSUME NEW i \in 1..Len(n)
        PROVE  /\ n[i] \in Jobs
               /\ Type(n[i]) = "Receipt" =>
                     Due(session, s2) /\ CanIssue /\ n[i][2] = Receipt(Stage(s2))
               /\ Type(n[i]) = "Sent" => i \in 1..Len(first) /\ n[i] = first[i]
    BY <1>5, <1>8, <1>13, <1>15 DEF Reports
  <2>2. ASSUME NEW i \in 1..Len(n)
        PROVE  /\ Type(n[i]) = "Turn" =>
                     /\ s2.state \in {"WaitingForSent", "WaitingForFeeSent"}
                     /\ n[i][2] = TurnFrame(s2)
               /\ Type(n[i]) = "Complete" => s2.state = "Complete"
               /\ Type(n[i]) \in {"Turn", "Complete"} =>
                     \A j \in 1..Len(n) : Type(n[j]) = "Receipt" => j < i
    BY <1>5, <1>16, <1>18
  <2>3. \A i, j \in 1..Len(n) : n[i] = n[j] /\ Type(n[i]) = "Receipt" => i = j
    BY <1>15
  <2>4. Due(session, s2) /\ CanIssue =>
          \A p \in Parties : \E i \in 1..Len(n) : n[i] = <<p, Receipt(Stage(s2))>>
    BY <1>8, <1>13, <1>15
  <2>5. s2.state \in {"WaitingForSent", "WaitingForFeeSent"} =>
          \A p \in Parties : \E i \in 1..Len(n) : n[i] = <<p, TurnFrame(s2)>>
    <3> SUFFICES ASSUME s2.state \in {"WaitingForSent", "WaitingForFeeSent"}
                 PROVE \A p \in Parties : \E i \in 1..Len(n) : n[i] = <<p, TurnFrame(s2)>>
      OBVIOUS
    <3>1. c = ToRoom(f) /\ f = TurnFrame(s2) BY <1>5, <1>13, <1>17
    <3> QED BY <1>15, <3>1
  <2> QED BY <2>1, <2>2, <2>3, <2>4, <2>5 DEF Tells
<1> QED BY <1>1, <1>10, <1>11, <1>15, <1>19

-----------------------------------------------------------------------------
(***************************************************************************)
(* The calls of the mediator's threads, one by one.                        *)
(***************************************************************************)
\* A signal of this client is taken: it is the first frame under way.
SignalTaken(type, m) ==
    /\ up # <<>> /\ Head(up).type = type /\ Head(up).turn = m
    /\ accepted' = accepted \cup {[type |-> type, turn |-> m, at |-> TurnOf(session),
                                   offered |-> Head(up).offered]}

Signalled(t, type, m) ==
    /\ t \in Parties
    /\ t = me => SignalTaken(type, m)
    /\ t # me => m = told.turn /\ UNCHANGED accepted

Called(t) ==
    /\ UNCHANGED keys
    /\ \/ \E m \in Turns : MedSent(t, m) /\ Signalled(t, "Sent", m)
       \/ \E m \in Turns : MedReceived(t, m) /\ Signalled(t, "Received", m)
       \/ t \in Parties /\ MedAck(t) /\ UNCHANGED accepted
       \/ t \in Parties /\ MedAbort(t) /\ UNCHANGED accepted
       \/ t = "B" /\ MedJoin /\ UNCHANGED accepted
       \/ /\ t = "operator" /\ UNCHANGED accepted
          /\ ConfirmAccepted(session) /\ session.position = "AfterLastRound"
          /\ Settle("operator", ConfirmFeeReceived(session), <<>>)

Announces(t) ==
    /\ t \in Parties
    /\ \E k \in Nat \ {0} : /\ k = 1 \/ k <= MaxKeys
                            /\ keys' = [keys EXCEPT ![t] = k]
    /\ task' = [task EXCEPT ![t] = Forward(t, "TradeEphemeralKey")]
    /\ UNCHANGED <<session, issued, accepted>>

LEMMA MedCalls ==
  ASSUME TradeInv, MedConfirm \/ PeerActs \/ MedHandles
  PROVE  /\ UNCHANGED <<me, told, member, leaving, down, worker, outgoing, pressed>>
         /\ up' = up \/ (up # <<>> /\ up' = Tail(up))
         /\ \/ UNCHANGED <<session, keys, issued, task, accepted>>
            \/ \E t \in Threads : task[t] = <<>> /\ (Called(t) \/ Announces(t))
<1>1. /\ me \in Parties /\ told.turn \in Turns /\ them \in Parties /\ them # me
      /\ keys \in [Parties -> Nat] /\ up \in Seq(Ups)
      /\ Parties \subseteq Threads /\ "operator" \in Threads
  BY DEF TradeInv, Types, them, OtherParty, Parties, Threads
<1>2. CASE MedConfirm
  BY <1>1, <1>2 DEF MedConfirm, Called
<1>3. CASE PeerActs
  <2>1. task[them] = <<>> /\ UNCHANGED accepted
    BY <1>3 DEF PeerActs
  <2>2. /\ UNCHANGED <<me, told, member, leaving, down, worker, outgoing, pressed>>
        /\ up' = up
    BY <1>3 DEF PeerActs
  <2>3. Called(them) \/ Announces(them)
    <3>1. CASE them = "B" /\ MedJoin /\ UNCHANGED keys
      BY <2>1, <3>1 DEF Called
    <3>2. CASE told.turn.sender = them /\ MedSent(them, told.turn) /\ UNCHANGED keys
      BY <1>1, <2>1, <3>2 DEF Called, Signalled
    <3>3. CASE told.sent /\ MedReceived(them, told.turn) /\ UNCHANGED keys
      BY <1>1, <2>1, <3>3 DEF Called, Signalled
    <3>4. CASE told.gate /\ MedAck(them) /\ UNCHANGED keys
      BY <1>1, <2>1, <3>4 DEF Called
    <3>5. CASE told.ready /\ MedAbort(them) /\ UNCHANGED keys
      BY <1>1, <2>1, <3>5 DEF Called
    <3>6. CASE /\ told.ready /\ keys[them] < MaxKeys /\ ~Over
               /\ keys' = [keys EXCEPT ![them] = @ + 1]
               /\ task' = [task EXCEPT ![them] = Forward(them, "TradeEphemeralKey")]
               /\ UNCHANGED <<session, issued>>
      <4>1. MaxKeys \in Nat /\ keys[them] \in Nat
        BY <1>1, TradeClientAssumption
      <4>2. keys[them] + 1 \in Nat \ {0} /\ keys[them] + 1 <= MaxKeys
        BY <3>6, <4>1
      <4> QED BY <1>1, <2>1, <3>6, <4>2 DEF Announces
    <3> QED BY <1>3, <3>1, <3>2, <3>3, <3>4, <3>5, <3>6 DEF PeerActs
  <2> QED BY <1>1, <2>1, <2>2, <2>3
<1>4. CASE MedHandles
  <2>1. /\ UNCHANGED <<me, told, member, leaving, down, worker, outgoing, pressed>>
        /\ up # <<>> /\ up' = Tail(up) /\ task[me] = <<>>
    BY <1>4 DEF MedHandles
  <2>2. PICK f \in Ups : f = Head(up)
    BY <1>1, <2>1
  <2>3. \/ /\ Takes(f)
           /\ accepted' = IF f.type \in {"Sent", "Received"} THEN accepted \cup
                             {[type |-> f.type, turn |-> f.turn,
                               at |-> TurnOf(session), offered |-> f.offered]}
                          ELSE accepted
        \/ UNCHANGED <<session, keys, issued, task, accepted>>
    BY <1>4, <2>2 DEF MedHandles
  <2>4. CASE /\ Takes(f)
             /\ accepted' = IF f.type \in {"Sent", "Received"} THEN accepted \cup
                               {[type |-> f.type, turn |-> f.turn,
                                 at |-> TurnOf(session), offered |-> f.offered]}
                            ELSE accepted
    <3>1. f.type \in {"Sent", "Received"} => f.turn \in Turns
      BY <2>2 DEF Ups
    <3>2. CASE f.type = "Sent" /\ MedSent(me, f.turn) /\ UNCHANGED keys
      <4>1. SignalTaken("Sent", f.turn)
        BY <2>1, <2>2, <2>4, <3>2 DEF SignalTaken
      <4> QED BY <1>1, <2>1, <3>1, <3>2, <4>1 DEF Called, Signalled
    <3>3. CASE f.type = "Received" /\ MedReceived(me, f.turn) /\ UNCHANGED keys
      <4>1. SignalTaken("Received", f.turn)
        BY <2>1, <2>2, <2>4, <3>3 DEF SignalTaken
      <4> QED BY <1>1, <2>1, <3>1, <3>3, <4>1 DEF Called, Signalled
    <3>4. CASE f.type = "ReceiptAck" /\ MedAck(me) /\ UNCHANGED keys
      BY <1>1, <2>1, <2>4, <3>4 DEF Called
    <3>5. CASE f.type = "Abort" /\ MedAbort(me) /\ UNCHANGED keys
      BY <1>1, <2>1, <2>4, <3>5 DEF Called
    <3>6. CASE f.type = "JoinOffer" /\ me = "B" /\ MedJoin /\ UNCHANGED keys
      BY <1>1, <2>1, <2>4, <3>6 DEF Called
    <3>7. CASE /\ f.type = "TradeEphemeralKey"
               /\ ~Over
               /\ keys' = [keys EXCEPT ![me] = 1]
               /\ task' = [task EXCEPT ![me] = Forward(me, "TradeEphemeralKey")]
               /\ UNCHANGED <<session, issued>>
      <4>1. accepted' = accepted BY <2>4, <3>7
      <4>2. 1 \in Nat \ {0} OBVIOUS
      <4> QED BY <1>1, <2>1, <3>7, <4>1, <4>2 DEF Announces
    <3> QED BY <2>4, <3>2, <3>3, <3>4, <3>5, <3>6, <3>7 DEF Takes
  <2>5. CASE UNCHANGED <<session, keys, issued, task, accepted>>
    BY <2>1, <2>5
  <2> QED BY <2>1, <2>3, <2>4, <2>5
<1> QED BY <1>2, <1>3, <1>4

\* A call moves the session and leaves its news in the task of its thread.
LEMMA CallFacts ==
  ASSUME TradeInv, NEW t \in Threads, Called(t)
  PROVE  \E first :
            /\ SaidFirst(first) /\ Settle(t, session', first)
            /\ Becomes(t, session, session') /\ UNCHANGED keys
            /\ \A i \in 1..Len(first) : Type(first[i]) = "Sent" =>
                  Sends(t, session, session') /\ first[i] = <<OtherParty(t), Frame("Sent")>>
            /\ Sends(t, session, session') =>
                  Len(first) = 1 /\ first[1] = <<OtherParty(t), Frame("Sent")>>
            /\ Acks(t, session, session') => t \in session.acked \/ keys[t] # 0
            /\ Sends(t, session, session') \/ PaysFee(t, session, session') =>
                  \E m \in Turns : ValidSignal(session, m) /\ Signalled(t, "Sent", m)
            /\ Receives(t, session, session') =>
                  \E m \in Turns : ValidSignal(session, m) /\ Signalled(t, "Received", m)
            /\ \/ UNCHANGED accepted
               \/ /\ Sends(t, session, session') \/ PaysFee(t, session, session')
                        \/ Receives(t, session, session')
                  /\ t = me
<1> DEFINE s2 == session'
<1>1. session \in Sessions /\ SessionInv(session) /\ UNCHANGED keys
  BY DEF TradeInv, Types, Called
<1>2. \A p \in Parties, x \in {"Sent", "Received"} :
         /\ SaidFirst(Forward(p, x)) /\ Len(Forward(p, x)) = 1
         /\ Forward(p, x)[1] = <<OtherParty(p), Frame(x)>>
         /\ Type(Forward(p, x)[1]) = x
  <2> TAKE p \in Parties, x \in {"Sent", "Received"}
  <2>1. PICK j : j = <<OtherParty(p), Frame(x)>> OBVIOUS
  <2>2. j \in Jobs /\ Type(j) = x
    BY <2>1, PlainFrames DEF Jobs, Type, OtherParty, Parties, Plain
  <2>3. Forward(p, x) = <<j>> BY <2>1 DEF Forward
  <2>4. <<j>> \in Seq(Jobs) /\ Len(<<j>>) = 1 /\ <<j>>[1] = j BY <2>2
  <2> QED BY <2>1, <2>2, <2>3, <2>4 DEF SaidFirst, Reports
<1>3. SaidFirst(<<>>) /\ Len(<<>>) = 0
  BY DEF SaidFirst
<1> DEFINE Fine(first) ==
            /\ SaidFirst(first) /\ Settle(t, session', first)
            /\ Becomes(t, session, session') /\ UNCHANGED keys
            /\ \A i \in 1..Len(first) : Type(first[i]) = "Sent" =>
                  Sends(t, session, session') /\ first[i] = <<OtherParty(t), Frame("Sent")>>
            /\ Sends(t, session, session') =>
                  Len(first) = 1 /\ first[1] = <<OtherParty(t), Frame("Sent")>>
            /\ Acks(t, session, session') => t \in session.acked \/ keys[t] # 0
            /\ Sends(t, session, session') \/ PaysFee(t, session, session') =>
                  \E m \in Turns : ValidSignal(session, m) /\ Signalled(t, "Sent", m)
            /\ Receives(t, session, session') =>
                  \E m \in Turns : ValidSignal(session, m) /\ Signalled(t, "Received", m)
            /\ \/ UNCHANGED accepted
               \/ /\ Sends(t, session, session') \/ PaysFee(t, session, session')
                        \/ Receives(t, session, session')
                  /\ t = me
<1>4. ASSUME NEW m \in Turns, MedSent(t, m), Signalled(t, "Sent", m)
      PROVE  \E first : Fine(first)
  <2>1. SentAccepted(session, t, m) /\ t \in Parties
    BY <1>4 DEF MedSent, Signalled
  <2>2. PICK first : first = IF s2.state = "WaitingForReceived" THEN Forward(t, "Sent") ELSE <<>>
    OBVIOUS
  <2>3. session' = SenderReportedSent(session) /\ Settle(t, s2, first)
    BY <1>4, <2>2 DEF MedSent, Settle
  <2>4. Becomes(t, session, s2)
    BY <1>1, <2>1, <2>3, SentFacts
  <2>5. Sends(t, session, s2) <=> s2.state = "WaitingForReceived"
    BY <2>1, <2>4 DEF Becomes, SentAccepted, Joins, Sends, PaysFee, Receives, Acks, Confirms, Aborts
  <2>6. ~Acks(t, session, s2) /\ ~Receives(t, session, s2)
    BY <2>1 DEF SentAccepted, Acks, Receives
  <2>7. ValidSignal(session, m) /\ (UNCHANGED accepted \/ t = me)
    BY <1>4, <2>1 DEF SentAccepted, Signalled
  <2>8. Sends(t, session, s2) \/ PaysFee(t, session, s2)
    BY <2>1, <2>3, <2>4, <2>6 DEF Becomes, Joins, Confirms, Aborts, SentAccepted, SenderReportedSent, Sessions
  <2>9. SaidFirst(first)
    BY <1>2, <1>3, <2>1, <2>2
  <2>10. /\ Len(first) = IF s2.state = "WaitingForReceived" THEN 1 ELSE 0
         /\ s2.state = "WaitingForReceived" => first[1] = <<OtherParty(t), Frame("Sent")>>
    BY <1>2, <1>3, <2>1, <2>2
  <2>11. \A i \in 1..Len(first) : i = 1 /\ s2.state = "WaitingForReceived"
    BY <2>10
  <2> QED BY <1>1, <1>4, <2>3, <2>4, <2>5, <2>6, <2>7, <2>8, <2>9, <2>10, <2>11
<1>5. ASSUME NEW m \in Turns, MedReceived(t, m), Signalled(t, "Received", m)
      PROVE  \E first : Fine(first)
  <2>1. ReceivedAccepted(session, t, m) /\ t \in Parties
    BY <1>5 DEF MedReceived, Signalled
  <2>2. PICK first : first = Forward(t, "Received")
    OBVIOUS
  <2>3. session' = ReceiverReportedReceived(session) /\ Settle(t, s2, first)
    BY <1>5, <2>2 DEF MedReceived, Settle
  <2>4. Becomes(t, session, s2)
    <3>1. session.leg \in {0, 1} BY <1>1 DEF Sessions
    <3> QED BY <1>1, <2>1, <2>3, <3>1, FirstLegFacts, SecondLegFacts
            DEF ReceiverReportedReceived, AdvanceAfterReceipt
  <2>5. session.state = "WaitingForReceived" /\ s2.state # "Aborted"
    BY <1>1, <2>1, <2>3 DEF ReceivedAccepted, ReceiverReportedReceived, AdvanceAfterReceipt,
         AfterFirstLeg, AfterSecondLeg, Sessions
  <2>6. /\ ~Acks(t, session, s2) /\ ~Sends(t, session, s2) /\ ~PaysFee(t, session, s2)
        /\ Receives(t, session, s2)
    BY <2>4, <2>5 DEF Becomes, Joins, Confirms, Aborts, Acks, Sends, PaysFee
  <2>7. ValidSignal(session, m) /\ (UNCHANGED accepted \/ t = me)
    BY <1>5, <2>1 DEF ReceivedAccepted, Signalled
  <2>8. /\ SaidFirst(first) /\ Len(first) = 1 /\ Type(first[1]) = "Received"
    BY <1>2, <2>1, <2>2
  <2>9. \A i \in 1..Len(first) : Type(first[i]) # "Sent"
    BY <2>8
  <2> QED BY <1>1, <1>5, <2>3, <2>4, <2>6, <2>7, <2>8, <2>9
<1>6. ASSUME UNCHANGED accepted, Settle(t, s2, <<>>), Becomes(t, session, s2),
             Acks(t, session, s2) => t \in session.acked \/ keys[t] # 0,
             ~Sends(t, session, s2), ~PaysFee(t, session, s2), ~Receives(t, session, s2)
      PROVE  \E first : Fine(first)
  <2>1. Fine(<<>>)
    BY <1>1, <1>3, <1>6
  <2> QED BY <2>1
<1>7. ASSUME t \in Parties, MedAck(t), UNCHANGED accepted
      PROVE  \E first : Fine(first)
  <2>1. session' = AcknowledgeFinalReceipt(session, t) /\ Settle(t, s2, <<>>)
        /\ AckAccepted(session, t) /\ keys[t] # 0
    BY <1>7 DEF MedAck, Settle
  <2>2. Becomes(t, session, s2) BY <1>1, <1>7, <2>1, AckFacts
  <2> QED BY <1>6, <1>7, <2>1, <2>2 DEF AckAccepted, Sends, PaysFee, Receives
<1>8. ASSUME t \in Parties, MedAbort(t), UNCHANGED accepted
      PROVE  \E first : Fine(first)
  <2>1. session' = Abort(session) /\ Settle(t, s2, <<>>)
        /\ session.state \notin {"WaitingForPeer", "Complete", "Aborted"}
    BY <1>8 DEF MedAbort, Settle, Over
  <2>2. Becomes(t, session, s2) /\ s2.state = "Aborted" BY <1>1, <2>1, AbortFacts
  <2> QED BY <1>6, <1>8, <2>1, <2>2 DEF Acks, Sends, PaysFee, Receives
<1>9. ASSUME t = "B", MedJoin, UNCHANGED accepted
      PROVE  \E first : Fine(first)
  <2>1. PICK f, first : f = Frame("TradeReady") /\ first = ToRoom(f) OBVIOUS
  <2>2. /\ session' = Join(session) /\ Settle(t, s2, first) /\ JoinAccepted(session)
        /\ session.state = "WaitingForPeer"
    BY <1>9, <2>1 DEF MedJoin, Settle, JoinAccepted
  <2>3. Becomes(t, session, s2) BY <1>1, <2>2, JoinFacts
  <2>4. /\ ~Sends(t, session, s2) /\ ~PaysFee(t, session, s2) /\ ~Receives(t, session, s2)
        /\ ~Acks(t, session, s2)
    BY <2>2 DEF Acks, Sends, PaysFee, Receives
  <2>5. f \in Downs /\ f.type = "TradeReady" BY <2>1, PlainFrames DEF Plain
  <2>6. /\ first \in Seq(Jobs) /\ Len(first) = 2
        /\ first[1] = <<"A", f>> /\ first[2] = <<"B", f>>
    BY <2>1, <2>5, RoomFacts
  <2>7. \A i \in 1..Len(first) : Type(first[i]) = "TradeReady"
    <3> TAKE i \in 1..Len(first)
    <3>1. i \in {1, 2} BY <2>6
    <3> QED BY <2>5, <2>6, <3>1 DEF Type
  <2>8. SaidFirst(first) BY <2>6, <2>7 DEF SaidFirst, Reports
  <2> QED BY <1>1, <1>9, <2>2, <2>3, <2>4, <2>7, <2>8
<1>10. ASSUME t = "operator", UNCHANGED accepted, ConfirmAccepted(session),
              session.position = "AfterLastRound",
              Settle("operator", ConfirmFeeReceived(session), <<>>)
      PROVE  \E first : Fine(first)
  <2>1. session' = ConfirmFeeReceived(session) /\ Settle(t, s2, <<>>)
    BY <1>10 DEF Settle
  <2>2. Becomes(t, session, s2) BY <1>1, <1>10, <2>1, ConfirmFacts
  <2> QED BY <1>6, <1>10, <2>1, <2>2 DEF ConfirmAccepted, Acks, Sends, PaysFee, Receives
<1> HIDE DEF Fine
<1>11. \E first : Fine(first)
  BY <1>4, <1>5, <1>7, <1>8, <1>9, <1>10 DEF Called
<1> QED BY <1>11 DEF Fine

-----------------------------------------------------------------------------
(***************************************************************************)
(* The types and the receipts that exist are kept by every step.           *)
(***************************************************************************)
\* A step of the client's own threads, or of the connection.
ClientStep ==
    \/ \E type \in {"Sent", "Received", "Abort", "JoinOffer"} : Press(type)
    \/ CheckConnected \/ Push \/ Swap \/ SendFrame \/ HandleFrame
    \/ LoseLink \/ SetDisconnected \/ ClearQueue \/ Reconnect

LEMMA PressedFacts ==
  ASSUME Types, pressed # <<>>
  PROVE  /\ pressed[2] \in Ups /\ pressed[1] \in {"built", "checked"}
         /\ <<"checked", pressed[2]>> \in {"built", "checked"} \X Ups
BY DEF Types

LEMMA ViewFacts ==
  ASSUME NEW v \in Views, NEW f \in Downs
  PROVE  View(v, f) \in Views
<1>1. NoTurn \in Turns BY DEF NoTurn, Turns, Parties
<1>2. NoView \in Views BY <1>1 DEF NoView, Views
<1>3. f.type = "Turn" => f.turn \in Turns BY DEF Downs, Receipts, Plain
<1> QED BY <1>1, <1>2, <1>3 DEF View, Views

LEMMA AnswerFacts ==
  ASSUME NEW f \in Downs
  PROVE  /\ Answers(f) \in Seq(Ups)
         /\ \A i \in 1..Len(Answers(f)) : Answers(f)[i].type \in {"TradeEphemeralKey", "ReceiptAck"}
<1>1. PICK k, a : k = Frame("TradeEphemeralKey") /\ a = Frame("ReceiptAck") OBVIOUS
<1>2. k \in Ups /\ a \in Ups /\ k.type = "TradeEphemeralKey" /\ a.type = "ReceiptAck"
  BY <1>1 DEF Frame, Ups
<1>3. Answers(f) = IF f.type = "TradeReady" THEN <<k>>
                   ELSE IF f.type = "ReceiptAckRequired" THEN <<a>> ELSE <<>>
  BY <1>1 DEF Answers
<1>4. /\ <<k>> \in Seq(Ups) /\ Len(<<k>>) = 1 /\ <<k>>[1] = k
      /\ <<a>> \in Seq(Ups) /\ Len(<<a>>) = 1 /\ <<a>>[1] = a
      /\ <<>> \in Seq(Ups) /\ Len(<<>>) = 0
  BY <1>2
<1>5. CASE f.type = "TradeReady" BY <1>2, <1>3, <1>4, <1>5
<1>6. CASE f.type = "ReceiptAckRequired" BY <1>2, <1>3, <1>4, <1>6
<1>7. CASE f.type \notin {"TradeReady", "ReceiptAckRequired"} BY <1>3, <1>4, <1>7
<1> QED BY <1>5, <1>6, <1>7

LEMMA ClientKeepsServer ==
  ClientStep => UNCHANGED <<me, session, keys, issued, task, told, accepted>>
BY DEF ClientStep, Press, CheckConnected, Push, Swap, SendFrame, HandleFrame, LoseLink,
   SetDisconnected, ClearQueue, Reconnect, server, worker

LEMMA ClientTypes ==
  ASSUME Types, ClientStep PROVE Types'
<1>1. /\ me \in Parties /\ session \in Sessions /\ keys \in [Parties -> Nat]
      /\ task \in [Threads -> Seq(Jobs)]
      /\ told \in [ready : BOOLEAN, turn : Turns, sent : BOOLEAN, gate : BOOLEAN]
      /\ member \in BOOLEAN
  BY DEF Types
<1>2. UNCHANGED <<me, session, keys, task, told>> BY ClientKeepsServer
<1> DEFINE Rest == /\ member \in BOOLEAN
                   /\ up \in Seq(Ups) /\ down \in Seq(Downs)
                   /\ outgoing \in Seq(Ups) /\ batch \in Seq(Ups)
                   /\ pressed \in {<<>>} \cup ({"built", "checked"} \X Ups)
                   /\ room \in Views /\ chain \in Seq(Receipts)
<1>3. Rest BY DEF Types
<1>4. NoTurn \in Turns /\ NoView \in Views
  BY DEF NoTurn, Turns, Parties, NoView, Views
<1>5. ASSUME NEW type \in {"Sent", "Received", "Abort", "JoinOffer"}, Press(type) PROVE Rest'
  <2>1. PICK f : f = [type |-> type, turn |-> room.turn,
                      offered |-> type = "Received" => Action = "received"]
    OBVIOUS
  <2>2. f \in Ups BY <1>3, <2>1 DEF Views, Ups
  <2>3. pressed' = <<"built", f>> BY <1>5, <2>1 DEF Press
  <2> QED BY <1>3, <1>5, <2>2, <2>3 DEF Press, server, worker
<1>6. ASSUME CheckConnected PROVE Rest'
  BY <1>3, <1>6, PressedFacts DEF CheckConnected, server, worker
<1>7. ASSUME Push PROVE Rest'
  <2>1. pressed[2] \in Ups BY <1>7, PressedFacts DEF Push
  <2> QED BY <1>3, <1>7, <2>1 DEF Push, server, worker
<1>8. ASSUME Swap PROVE Rest' BY <1>3, <1>8 DEF Swap, server, worker
<1>9. ASSUME SendFrame PROVE Rest' BY <1>3, <1>9 DEF SendFrame, server, worker
<1>10. ASSUME HandleFrame PROVE Rest'
  <2>1. PICK f \in Downs : f = Head(down) BY <1>3, <1>10 DEF HandleFrame
  <2>2. /\ room' = View(room, f) /\ down' = Tail(down)
        /\ chain' = IF f.type = "Receipt" THEN Append(chain, f) ELSE chain
        /\ outgoing' = outgoing \o Answers(f)
        /\ UNCHANGED <<member, up, batch, pressed>>
    BY <1>10, <2>1 DEF HandleFrame, server
  <2>3. f.type = "Receipt" => f \in Receipts BY <2>1 DEF Downs, Plain
  <2>4. room' \in Views BY <1>3, <2>1, <2>2, ViewFacts
  <2>5. outgoing' \in Seq(Ups) BY <1>3, <2>1, <2>2, AnswerFacts
  <2>6. down' \in Seq(Downs) /\ chain' \in Seq(Receipts) BY <1>3, <1>10, <2>2, <2>3 DEF HandleFrame
  <2> QED BY <1>3, <2>2, <2>4, <2>5, <2>6
<1>11. ASSUME LoseLink PROVE Rest'
  <2>1. /\ up' = <<>> /\ down' = <<>> /\ batch' = <<>> /\ member' = FALSE
        /\ UNCHANGED <<outgoing, pressed, room, chain>>
    BY <1>11 DEF LoseLink
  <2>2. <<>> \in Seq(Ups) /\ <<>> \in Seq(Downs) OBVIOUS
  <2> QED BY <1>3, <2>1, <2>2
<1>12. ASSUME SetDisconnected PROVE Rest' BY <1>3, <1>12 DEF SetDisconnected, server
<1>13. ASSUME ClearQueue PROVE Rest' BY <1>3, <1>13 DEF ClearQueue, server
<1>14. ASSUME Reconnect PROVE Rest' BY <1>3, <1>4, <1>14 DEF Reconnect, server
<1>15. Rest'
  BY <1>5, <1>6, <1>7, <1>8, <1>9, <1>10, <1>11, <1>12, <1>13, <1>14, SMTT(20) DEF ClientStep
<1> QED BY <1>1, <1>2, <1>15 DEF Types

\* One Client::enqueue.
LEMMA EnqueueFacts ==
  ASSUME Types, NEW t \in Threads, MedEnqueue(t)
  PROVE  /\ task[t] # <<>> /\ Head(task[t]) \in Jobs /\ Len(task[t]) \in Nat \ {0}
         /\ Head(task[t]) = task[t][1]
         /\ task' = [task EXCEPT ![t] = Tail(task[t])]
         /\ Len(task'[t]) = Len(task[t]) - 1
         /\ \A i \in 1..Len(task'[t]) : i + 1 \in 1..Len(task[t]) /\ task'[t][i] = task[t][i + 1]
         /\ \A u \in Threads : u # t => task'[u] = task[u]
         /\ task' \in [Threads -> Seq(Jobs)]
         /\ down' = IF task[t][1][1] = me /\ member THEN Append(down, task[t][1][2]) ELSE down
         /\ told' \in [ready : BOOLEAN, turn : Turns, sent : BOOLEAN, gate : BOOLEAN]
         /\ told'.turn = IF task[t][1][1] # me /\ Type(task[t][1]) = "Turn"
                         THEN task[t][1][2].turn ELSE told.turn
         /\ UNCHANGED <<me, session, keys, issued, member, leaving, up, worker, outgoing,
                        pressed, accepted>>
<1>1. /\ task \in [Threads -> Seq(Jobs)] /\ me \in Parties
      /\ told \in [ready : BOOLEAN, turn : Turns, sent : BOOLEAN, gate : BOOLEAN]
  BY DEF Types
<1>2. PICK q \in Seq(Jobs) : q = task[t] BY <1>1
<1>3. q # <<>> /\ task' = [task EXCEPT ![t] = Tail(q)]
  BY <1>2 DEF MedEnqueue
<1>4. /\ Head(q) \in Jobs /\ Len(q) \in Nat \ {0} /\ Head(q) = q[1]
      /\ Tail(q) \in Seq(Jobs) /\ Len(Tail(q)) = Len(q) - 1
      /\ \A i \in 1..Len(Tail(q)) : i + 1 \in 1..Len(q) /\ Tail(q)[i] = q[i + 1]
  BY <1>3
<1>5. task'[t] = Tail(q) /\ \A u \in Threads : u # t => task'[u] = task[u]
  BY <1>1, <1>3
<1>6. PICK to, f : to = Head(q)[1] /\ f = Head(q)[2] OBVIOUS
<1>7. /\ down' = IF to = me /\ member THEN Append(down, f) ELSE down
      /\ told' = IF to = me THEN told
                 ELSE CASE f.type = "TradeReady" -> [told EXCEPT !.ready = TRUE]
                        [] f.type = "Turn" -> [told EXCEPT !.turn = f.turn,
                                                           !.sent = FALSE,
                                                           !.gate = FALSE]
                        [] f.type = "Sent" -> [told EXCEPT !.sent = TRUE]
                        [] f.type = "ReceiptAckRequired" -> [told EXCEPT !.gate = TRUE]
                        [] OTHER -> told
  BY <1>2, <1>6 DEF MedEnqueue
<1>8. f \in Downs /\ (f.type = "Turn" => f.turn \in Turns)
  BY <1>4, <1>6 DEF Jobs, Downs, Receipts, Plain
<1>9. /\ told' \in [ready : BOOLEAN, turn : Turns, sent : BOOLEAN, gate : BOOLEAN]
      /\ told'.turn = IF to # me /\ f.type = "Turn" THEN f.turn ELSE told.turn
  BY <1>1, <1>7, <1>8
<1>10. UNCHANGED <<me, session, keys, issued, member, leaving, up, worker, outgoing,
                   pressed, accepted>>
  BY DEF MedEnqueue
<1>11. task' \in [Threads -> Seq(Jobs)]
  BY <1>1, <1>3, <1>4
<1> QED BY <1>2, <1>3, <1>4, <1>5, <1>6, <1>7, <1>9, <1>10, <1>11 DEF Type

\* The receipts that exist after a call.
LEMMA IssuedFacts ==
  ASSUME TradeInv, NEW t, Becomes(t, session, session'), UNCHANGED keys,
         Acks(t, session, session') => t \in session.acked \/ keys[t] # 0,
         issued' = IF Due(session, session') /\ CanIssue
                   THEN Append(issued, Stage(session')) ELSE issued
  PROVE  ReceiptsIssued'
<1> DEFINE s2 == session'
<1>1. /\ issued \in {<<>>, <<3>>, <<3, 4>>} /\ (issued # <<>> => CanIssue)
      /\ CanIssue' = CanIssue /\ session \in Sessions
      /\ Passed(session) => issued = <<3>>
      /\ session.state \notin {"Complete", "Aborted"} /\ ~Passed(session) => issued = <<>>
      /\ session.state = "WaitingForFinalReceiptAck" => \A p \in session.acked : keys[p] # 0
  BY DEF TradeInv, ReceiptsIssued, CanIssue, Types
<1>2. s2 \in Sessions /\ Kept(session, s2) /\ session.state \notin {"Complete", "Aborted"}
  BY DEF Becomes, Joins, Sends, PaysFee, Receives, Acks, Confirms, Aborts
<1>3. LateFee(s2) <=> LateFee(session)
  BY <1>2 DEF LateFee, Kept
<1>4. CASE s2.state = "Complete"
  <2>1. Due(session, s2) BY <1>4 DEF Due
  <2>2. issued = <<3>> /\ CanIssue BY <1>4, <2>1, DueFacts
  <2>3. issued' = <<3, 4>> BY <1>4, <2>1, <2>2, Chains DEF Stage
  <2>4. ~Passed(s2) BY <1>4 DEF Passed, InTranche, InFee
  <2> QED BY <1>1, <1>4, <2>2, <2>3, <2>4 DEF ReceiptsIssued
<1>5. CASE s2.state # "Complete" /\ Due(session, s2)
  <2>1. issued = <<>> /\ Passed(s2) /\ CanIssue BY <1>5, DueFacts
  <2>2. issued' = <<3>> BY <1>5, <2>1, Chains DEF Stage
  <2>3. s2.state \in InTranche \cup InFee BY <2>1 DEF Passed
  <2> QED BY <1>1, <1>5, <2>1, <2>2, <2>3 DEF ReceiptsIssued, InTranche, InFee
<1>6. CASE s2.state # "Complete" /\ ~Due(session, s2)
  <2>1. issued' = issued BY <1>6
  <2>2. CASE s2.state = "Aborted"
    <3>1. ~Passed(s2) BY <2>2 DEF Passed, InTranche, InFee
    <3> QED BY <1>1, <2>1, <2>2, <3>1 DEF ReceiptsIssued
  <2>3. CASE s2.state # "Aborted"
    <3>1. ~Passed(s2) <=> ~Passed(session)
      <4>1. CASE Joins(session, s2)
        BY <4>1, <2>3 DEF Joins, Passed, InTranche, InFee
      <4>2. CASE Sends(t, session, s2)
        BY <1>2, <1>3, <4>2 DEF Sends, Passed, InTranche, InFee, Stays, Kept
      <4>3. CASE PaysFee(t, session, s2)
        <5>1. s2.state = "WaitingForFeeConfirmation" \/ (s2.state = "WaitingForSent" /\ ~LateFee(session))
          BY <1>6, <4>3 DEF PaysFee
        <5>2. session.leg = 0 /\ s2.leg = 0
          BY <4>3 DEF PaysFee, TradeInv, SessionInv, InFee, Stays
        <5> QED BY <1>3, <4>3, <5>1, <5>2 DEF PaysFee, Passed, InTranche, InFee
      <4>4. CASE Receives(t, session, s2)
        BY <1>6, <4>4 DEF Receives
      <4>5. CASE Acks(t, session, s2)
        BY <1>6, <4>5 DEF Acks, Due, Passed, InTranche, InFee
      <4>6. CASE Confirms(t, session, s2)
        BY <1>6, <4>6 DEF Confirms
      <4>7. CASE Aborts(session, s2)
        BY <2>3, <4>7 DEF Aborts
      <4> QED BY <4>1, <4>2, <4>3, <4>4, <4>5, <4>6, <4>7 DEF Becomes
    <3>2. ASSUME s2.state = "WaitingForFinalReceiptAck", NEW p \in s2.acked PROVE keys[p] # 0
      <4>1. CASE Receives(t, session, s2)
        BY <3>2, <4>1 DEF Receives
      <4>2. CASE Acks(t, session, s2)
        BY <1>1, <3>2, <4>2 DEF Acks
      <4> QED BY <1>6, <3>2, <4>1, <4>2 DEF Becomes, Joins, Sends, PaysFee, Confirms, Aborts
    <3> QED BY <1>1, <1>2, <1>6, <2>1, <2>3, <3>1, <3>2 DEF ReceiptsIssued
  <2> QED BY <2>2, <2>3
<1> QED BY <1>4, <1>5, <1>6

\* remove_client aborts the session, or leaves it.
LEMMA RemoveFacts ==
  ASSUME TradeInv, MedRemoves
  PROVE  /\ UNCHANGED <<me, keys, issued, told, member, up, down, worker, outgoing, pressed,
                        accepted>>
         /\ task[me] = <<>> /\ member' = member
         /\ \/ UNCHANGED <<session, task>>
            \/ /\ session' \in Sessions /\ SessionInv(session') /\ Kept(session, session')
               /\ Stays(session, session') /\ session'.state = "Aborted"
               /\ session.state \notin {"Complete", "Aborted"}
               /\ \E n \in Seq(Jobs) :
                     /\ task' = [task EXCEPT ![me] = n]
                     /\ \A i \in 1..Len(n) : Type(n[i]) = "Abort" /\ n[i][1] = them
<1>1. session \in Sessions /\ SessionInv(session) BY DEF TradeInv, Types
<1>2. /\ UNCHANGED <<me, keys, issued, told, member, up, down, worker, outgoing, pressed, accepted>>
      /\ task[me] = <<>>
  BY DEF MedRemoves
<1>3. CASE Over \/ session.state = "WaitingForFeeConfirmation"
              \/ (session.state = "WaitingForPeer" /\ me = "B")
  BY <1>2, <1>3 DEF MedRemoves
<1>4. CASE ~(Over \/ session.state = "WaitingForFeeConfirmation"
              \/ (session.state = "WaitingForPeer" /\ me = "B"))
  <2>1. session' = Abort(session)
    BY <1>4 DEF MedRemoves
  <2>2. PICK j : j = <<them, Frame("Abort")>> OBVIOUS
  <2>3. j \in Jobs /\ Type(j) = "Abort" /\ j[1] = them
    BY <2>2, PlainFrames DEF Jobs, Type, Plain, them, OtherParty, Parties
  <2>4. task' = [task EXCEPT ![me] = IF session.state = "WaitingForPeer" THEN <<>> ELSE <<j>>]
    BY <1>4, <2>2 DEF MedRemoves
  <2>5. /\ <<>> \in Seq(Jobs) /\ Len(<<>>) = 0
        /\ <<j>> \in Seq(Jobs) /\ Len(<<j>>) = 1 /\ <<j>>[1] = j
    BY <2>3
  <2>6. \E n \in Seq(Jobs) : /\ task' = [task EXCEPT ![me] = n]
                             /\ \A i \in 1..Len(n) : Type(n[i]) = "Abort" /\ n[i][1] = them
    <3>1. PICK q : q = IF session.state = "WaitingForPeer" THEN <<>> ELSE <<j>> OBVIOUS
    <3>2. q \in Seq(Jobs) /\ Len(q) \in {0, 1} /\ (Len(q) = 1 => q[1] = j)
      <4>1. CASE session.state = "WaitingForPeer" BY <2>5, <3>1, <4>1
      <4>2. CASE session.state # "WaitingForPeer" BY <2>5, <3>1, <4>2
      <4> QED BY <4>1, <4>2
    <3>3. \A i \in 1..Len(q) : q[i] = j BY <3>2
    <3>4. task' = [task EXCEPT ![me] = q] BY <2>4, <3>1
    <3> QED BY <2>3, <3>2, <3>3, <3>4
  <2>7. session.state \notin {"Complete", "Aborted"} BY <1>4 DEF Over
  <2> QED BY <1>1, <1>2, <2>1, <2>6, <2>7, AbortFacts
<1> QED BY <1>3, <1>4

\* The types survive every step.
LEMMA TypesStep ==
  ASSUME TradeInv, [Next]_vars
  PROVE  Types' /\ SessionInv(session')
<1>1. Types /\ session \in Sessions /\ SessionInv(session) /\ task \in [Threads -> Seq(Jobs)]
      /\ me \in Threads
  BY DEF TradeInv, Types, Parties, Threads
<1>2. CASE ClientStep
  BY <1>1, <1>2, ClientTypes, ClientKeepsServer
<1>3. ASSUME NEW t \in Threads, MedEnqueue(t) PROVE Types' /\ SessionInv(session')
  <2>1. /\ task' \in [Threads -> Seq(Jobs)]
        /\ told' \in [ready : BOOLEAN, turn : Turns, sent : BOOLEAN, gate : BOOLEAN]
        /\ task[t][1] \in Jobs
        /\ down' = IF task[t][1][1] = me /\ member THEN Append(down, task[t][1][2]) ELSE down
        /\ UNCHANGED <<me, session, keys, member, up, worker, outgoing, pressed>>
    BY <1>1, <1>3, EnqueueFacts
  <2>2. down' \in Seq(Downs)
    BY <1>1, <2>1 DEF Types, Jobs
  <2> QED BY <1>1, <2>1, <2>2 DEF Types, worker
<1>4. CASE MedConfirm \/ PeerActs \/ MedHandles
  <2>1. /\ UNCHANGED <<me, told, member, leaving, down, worker, outgoing, pressed>>
        /\ up' = up \/ (up # <<>> /\ up' = Tail(up))
    BY <1>4, MedCalls
  <2>2. up' \in Seq(Ups)
    <3>1. up \in Seq(Ups) BY <1>1 DEF Types
    <3>2. CASE up # <<>> /\ up' = Tail(up) BY <3>1, <3>2
    <3> QED BY <2>1, <3>1, <3>2
  <2>3. /\ session' \in Sessions /\ SessionInv(session') /\ keys' \in [Parties -> Nat]
        /\ task' \in [Threads -> Seq(Jobs)]
    <3>1. CASE UNCHANGED <<session, keys, issued, task, accepted>>
      BY <1>1, <3>1 DEF Types
    <3>2. ASSUME NEW t \in Threads, Called(t)
          PROVE  /\ session' \in Sessions /\ SessionInv(session') /\ keys' \in [Parties -> Nat]
                 /\ task' \in [Threads -> Seq(Jobs)]
      <4>1. PICK first : /\ SaidFirst(first) /\ Settle(t, session', first)
                         /\ Becomes(t, session, session') /\ UNCHANGED keys
        BY <3>2, CallFacts
      <4>2. \E n \in Seq(Jobs) : task' = [task EXCEPT ![t] = n]
        BY <4>1, SettleFacts
      <4> QED BY <1>1, <4>1, <4>2 DEF Becomes, Types
    <3>3. ASSUME NEW t \in Threads, Announces(t)
          PROVE  /\ session' \in Sessions /\ SessionInv(session') /\ keys' \in [Parties -> Nat]
                 /\ task' \in [Threads -> Seq(Jobs)]
      <4>1. PICK j : j = <<OtherParty(t), Frame("TradeEphemeralKey")>> OBVIOUS
      <4>2. j \in Jobs
        BY <4>1, PlainFrames DEF Jobs, Plain, OtherParty, Parties
      <4>3. task' = [task EXCEPT ![t] = <<j>>] /\ UNCHANGED session
        BY <3>3, <4>1 DEF Announces, Forward
      <4>4. keys' \in [Parties -> Nat]
        BY <1>1, <3>3 DEF Announces, Types
      <4> QED BY <1>1, <4>2, <4>3, <4>4
    <3> QED BY <1>4, <3>1, <3>2, <3>3, MedCalls
  <2> QED BY <1>1, <2>1, <2>2, <2>3 DEF Types, worker
<1>5. CASE MedRemoves
  <2>1. UNCHANGED <<me, keys, issued, told, member, up, down, worker, outgoing, pressed>>
    BY <1>5, RemoveFacts
  <2>2. session' \in Sessions /\ SessionInv(session') /\ task' \in [Threads -> Seq(Jobs)]
    BY <1>1, <1>5, RemoveFacts
  <2> QED BY <1>1, <2>1, <2>2 DEF Types, worker
<1>6. CASE UNCHANGED vars
  BY <1>1, <1>6 DEF Types, vars, server, worker
<1> QED BY <1>2, <1>3, <1>4, <1>5, <1>6 DEF Next, ClientStep

\* So do the receipts that exist.
LEMMA IssuedStep ==
  ASSUME TradeInv, [Next]_vars
  PROVE  ReceiptsIssued'
<1>1. ReceiptsIssued BY DEF TradeInv
<1>2. CASE UNCHANGED <<session, keys, issued>>
  BY <1>1, <1>2 DEF ReceiptsIssued, CanIssue
<1>3. ASSUME NEW t \in Threads, Called(t) PROVE ReceiptsIssued'
  <2>1. PICK first : /\ SaidFirst(first) /\ Settle(t, session', first)
                     /\ Becomes(t, session, session') /\ UNCHANGED keys
                     /\ Acks(t, session, session') => t \in session.acked \/ keys[t] # 0
    BY <1>3, CallFacts
  <2>2. issued' = IF Due(session, session') /\ CanIssue
                  THEN Append(issued, Stage(session')) ELSE issued
    BY <2>1, SettleFacts
  <2> QED BY <2>1, <2>2, IssuedFacts
<1>4. ASSUME NEW t \in Threads, Announces(t) PROVE ReceiptsIssued'
  <2>1. keys \in [Parties -> Nat] BY DEF TradeInv, Types
  <2>2. UNCHANGED <<session, issued>> /\ \A p \in Parties : keys[p] # 0 => keys'[p] # 0
    BY <1>4, <2>1 DEF Announces
  <2>3. session.acked \subseteq Parties BY DEF TradeInv, Types, Sessions
  <2> QED BY <1>1, <2>2, <2>3 DEF ReceiptsIssued, CanIssue
<1>5. CASE ClientStep
  BY <1>2, <1>5, ClientKeepsServer
<1>6. ASSUME NEW t \in Threads, MedEnqueue(t) PROVE ReceiptsIssued'
  BY <1>2, <1>6 DEF MedEnqueue
<1>7. CASE MedConfirm \/ PeerActs \/ MedHandles
  BY <1>2, <1>3, <1>4, <1>7, MedCalls
<1>8. CASE MedRemoves
  <2>1. /\ UNCHANGED <<keys, issued>>
        /\ \/ UNCHANGED session
           \/ session'.state = "Aborted"
    BY <1>8, RemoveFacts
  <2>2. CASE session'.state = "Aborted"
    BY <1>1, <2>1, <2>2 DEF ReceiptsIssued, CanIssue, Passed, InTranche, InFee
  <2> QED BY <1>2, <2>1, <2>2
<1>9. CASE UNCHANGED vars
  BY <1>2, <1>9 DEF vars, server
<1> QED BY <1>5, <1>6, <1>7, <1>8, <1>9 DEF Next, ClientStep

LEMMA TradeInit == Init => TradeInv
<1> SUFFICES ASSUME Init PROVE TradeInv OBVIOUS
<1>1. PICK d \in Deals :
         session = NewSession([rounds |-> d.rounds, first_sender |-> "A",
                               total |-> [p \in Parties |-> d.rounds]],
                              d.fee, d.confirm, d.position)
  BY DEF Init
<1>2. d \in [rounds : Nat \ {0}, fee : BOOLEAN, confirm : BOOLEAN, position : FeePositions]
  BY TradeClientAssumption
<1>3. /\ session \in Sessions /\ session.state = "WaitingForPeer"
      /\ session.round = 0 /\ session.leg = 0 /\ session.terms.rounds = d.rounds
  BY <1>1, <1>2 DEF NewSession, Sessions, SessionStates
<1>4. SessionInv(session)
  BY <1>2, <1>3 DEF SessionInv, InTranche, InFee
<1>5. ReceiptsIssued
  BY <1>3 DEF Init, ReceiptsIssued, Passed, InTranche, InFee
<1>6. NoTurn \in Turns /\ NoView \in Views
  BY DEF NoTurn, Turns, Parties, NoView, Views
<1>7. \A S : <<>> \in Seq(S) OBVIOUS
<1>8. Types
  BY <1>3, <1>6, <1>7 DEF Init, Types
<1> QED BY <1>4, <1>5, <1>8 DEF TradeInv

LEMMA TradeStep == TradeInv /\ [Next]_vars => TradeInv'
BY TypesStep, IssuedStep DEF TradeInv

\* Types and receipts are sound in every state, whatever the deal.
THEOREM TradeSound == Spec => []TradeInv
<1>1. TradeInv /\ [Next]_vars => TradeInv' BY TradeStep
<1> QED BY <1>1, TradeInit, PTL DEF Spec

-----------------------------------------------------------------------------
(***************************************************************************)
(* How a turn reaches a signal: from a thread's task to one of the         *)
(* parties, to what the page shows, to what the user does.                 *)
(***************************************************************************)
Clicks == {"Sent", "Received", "Abort", "JoinOffer"}

Within(f, q) == \E i \in 1..Len(q) : q[i] = f

\* What the user did is still on its way to the mediator.
Underway(f) == \/ Within(f, outgoing) \/ Within(f, batch) \/ Within(f, up)
               \/ pressed # <<>> /\ pressed[2] = f

Click(type) == [type |-> type, turn |-> room.turn,
                offered |-> type = "Received" => Action = "received"]

LEMMA WithinTail ==
  ASSUME NEW S, NEW q \in Seq(S), q # <<>>
  PROVE  /\ \A f : Within(f, Tail(q)) => Within(f, q)
         /\ Within(Head(q), q)
<1>1. /\ Len(q) \in Nat \ {0} /\ Len(Tail(q)) = Len(q) - 1 /\ Head(q) = q[1]
      /\ \A i \in 1..Len(Tail(q)) : Tail(q)[i] = q[i + 1]
  OBVIOUS
<1>2. ASSUME NEW f, Within(f, Tail(q)) PROVE Within(f, q)
  <2>1. PICK i \in 1..Len(Tail(q)) : Tail(q)[i] = f BY <1>2 DEF Within
  <2>2. i + 1 \in 1..Len(q) /\ q[i + 1] = f BY <1>1, <2>1
  <2> QED BY <2>2 DEF Within
<1>3. Within(Head(q), q)
  <2>1. 1 \in 1..Len(q) BY <1>1
  <2> QED BY <1>1, <2>1 DEF Within
<1> QED BY <1>2, <1>3

LEMMA WithinAppend ==
  ASSUME NEW S, NEW q \in Seq(S), NEW e \in S
  PROVE  \A f : Within(f, Append(q, e)) <=> f = e \/ Within(f, q)
<1>1. /\ Len(q) \in Nat /\ Len(Append(q, e)) = Len(q) + 1 /\ Append(q, e)[Len(q) + 1] = e
      /\ \A i \in 1..Len(q) : Append(q, e)[i] = q[i]
  BY AppendProperties
<1>2. ASSUME NEW f, Within(f, Append(q, e)) PROVE f = e \/ Within(f, q)
  <2>1. PICK i \in 1..Len(Append(q, e)) : Append(q, e)[i] = f BY <1>2 DEF Within
  <2>2. i = Len(q) + 1 \/ i \in 1..Len(q) BY <1>1, <2>1
  <2> QED BY <1>1, <2>1, <2>2 DEF Within
<1>3. ASSUME NEW f, f = e \/ Within(f, q) PROVE Within(f, Append(q, e))
  <2>1. Len(q) + 1 \in 1..Len(Append(q, e)) /\ \A i \in 1..Len(q) : i \in 1..Len(Append(q, e))
    BY <1>1
  <2>2. CASE f = e
    BY <1>1, <2>1, <2>2 DEF Within
  <2>3. CASE Within(f, q)
    <3>1. PICK i \in 1..Len(q) : q[i] = f BY <2>3 DEF Within
    <3>2. i \in 1..Len(Append(q, e)) /\ Append(q, e)[i] = f BY <1>1, <2>1, <3>1
    <3> QED BY <3>2 DEF Within
  <2> QED BY <1>3, <2>2, <2>3
<1> QED BY <1>2, <1>3

LEMMA WithinBoth ==
  ASSUME NEW S, NEW a \in Seq(S), NEW b \in Seq(S)
  PROVE  \A f : Within(f, a \o b) => Within(f, a) \/ Within(f, b)
<1> SUFFICES ASSUME NEW f, Within(f, a \o b) PROVE Within(f, a) \/ Within(f, b)
  OBVIOUS
<1>1. /\ Len(a) \in Nat /\ Len(b) \in Nat /\ Len(a \o b) = Len(a) + Len(b)
      /\ \A i \in 1..(Len(a) + Len(b)) :
            (a \o b)[i] = IF i <= Len(a) THEN a[i] ELSE b[i - Len(a)]
  BY ConcatProperties
<1>2. PICK i \in 1..Len(a \o b) : (a \o b)[i] = f BY DEF Within
<1>3. CASE i <= Len(a)
  <2>1. i \in 1..Len(a) /\ a[i] = f BY <1>1, <1>2, <1>3
  <2> QED BY <2>1 DEF Within
<1>4. CASE i > Len(a)
  <2>1. i - Len(a) \in 1..Len(b) /\ b[i - Len(a)] = f BY <1>1, <1>2, <1>4
  <2> QED BY <2>1 DEF Within
<1> QED BY <1>1, <1>2, <1>3, <1>4

LEMMA WithinNone == \A f : ~Within(f, <<>>)
<1>1. Len(<<>>) = 0 OBVIOUS
<1> QED BY <1>1 DEF Within

\* What is on its way to the mediator was there before, or is a new click.
LEMMA ClickStep ==
  ASSUME TradeInv, [Next]_vars, NEW f, f.type \in Clicks, Underway(f)'
  PROVE  Underway(f) \/ \E type \in Clicks : Press(type) /\ f = Click(type)
<1>1. /\ up \in Seq(Ups) /\ outgoing \in Seq(Ups) /\ batch \in Seq(Ups) /\ down \in Seq(Downs)
  BY DEF TradeInv, Types
<1>2. CASE UNCHANGED <<up, outgoing, batch, pressed>>
  BY <1>2 DEF Underway
<1>3. ASSUME NEW type \in Clicks, Press(type)
      PROVE  Underway(f) \/ f = Click(type)
  <2>1. pressed' = <<"built", Click(type)>> /\ UNCHANGED <<up, outgoing, batch>>
    BY <1>3 DEF Press, Click, worker
  <2> QED BY <2>1 DEF Underway
<1>4. CASE CheckConnected
  <2>1. /\ UNCHANGED <<up, outgoing, batch>> /\ pressed # <<>>
        /\ pressed' = <<"checked", pressed[2]>> \/ pressed' = <<>>
    BY <1>4 DEF CheckConnected, worker
  <2> QED BY <2>1 DEF Underway
<1>5. CASE Push
  <2>1. /\ UNCHANGED <<up, batch>> /\ pressed # <<>> /\ pressed' = <<>>
        /\ outgoing' = Append(outgoing, pressed[2])
    BY <1>5 DEF Push, worker
  <2>2. pressed[2] \in Ups BY <2>1, PressedFacts DEF TradeInv
  <2>3. Within(f, outgoing') => f = pressed[2] \/ Within(f, outgoing)
    BY <1>1, <2>1, <2>2, WithinAppend
  <2> QED BY <2>1, <2>3 DEF Underway
<1>6. CASE Swap
  <2>1. UNCHANGED <<up, pressed>> /\ batch' = outgoing /\ outgoing' = <<>>
    BY <1>6 DEF Swap
  <2> QED BY <2>1, WithinNone DEF Underway
<1>7. CASE SendFrame
  <2>1. /\ UNCHANGED <<outgoing, pressed>> /\ batch # <<>> /\ batch' = Tail(batch)
        /\ up' = Append(up, Head(batch))
    BY <1>7 DEF SendFrame
  <2>2. Head(batch) \in Ups /\ Within(Head(batch), batch)
        /\ (Within(f, Tail(batch)) => Within(f, batch))
    BY <1>1, <2>1, WithinTail
  <2>3. Within(f, up') => f = Head(batch) \/ Within(f, up)
    BY <1>1, <2>1, <2>2, WithinAppend
  <2> QED BY <2>1, <2>2, <2>3 DEF Underway
<1>8. CASE HandleFrame
  <2>0. PICK g \in Downs : g = Head(down) BY <1>1, <1>8 DEF HandleFrame
  <2>1. outgoing' = outgoing \o Answers(g) /\ UNCHANGED <<up, batch, pressed>>
    BY <1>8, <2>0 DEF HandleFrame
  <2>2. Answers(g) \in Seq(Ups) /\ ~Within(f, Answers(g))
    BY AnswerFacts DEF Clicks, Within
  <2>3. Within(f, outgoing') => Within(f, outgoing)
    BY <1>1, <2>1, <2>2, WithinBoth
  <2> QED BY <2>1, <2>3 DEF Underway
<1>9. CASE LoseLink
  <2>1. UNCHANGED <<outgoing, pressed>> /\ up' = <<>> /\ batch' = <<>>
    BY <1>9 DEF LoseLink
  <2> QED BY <2>1, WithinNone DEF Underway
<1>10. CASE ClearQueue
  <2>1. UNCHANGED <<up, batch, pressed>> /\ outgoing' = <<>>
    BY <1>10, SMTT(20) DEF ClearQueue
  <2> QED BY <2>1, WithinNone DEF Underway
<1>11. CASE SetDisconnected \/ Reconnect \/ MedRemoves \/ (\E t \in Threads : MedEnqueue(t))
  BY <1>2, <1>11 DEF SetDisconnected, Reconnect, MedRemoves, MedEnqueue, worker
<1>12. CASE MedConfirm \/ PeerActs \/ MedHandles
  <2>1. /\ UNCHANGED <<outgoing, batch, pressed>>
        /\ up' = up \/ (up # <<>> /\ up' = Tail(up))
    BY <1>12, MedCalls DEF worker
  <2>2. Within(f, up') => Within(f, up) BY <1>1, <2>1, WithinTail
  <2> QED BY <2>1, <2>2 DEF Underway
<1>13. CASE UNCHANGED vars BY <1>2, <1>13 DEF vars, worker
<1> QED BY <1>3, <1>4, <1>5, <1>6, <1>7, <1>8, <1>9, <1>10, <1>11, <1>12, <1>13 DEF Next, Clicks

\* A turn that one of the parties knows, or that is under way to or from the
\* client.
Posted(t) == \E f : Within(f, down) /\ f.type = "Turn" /\ f.turn = t
Signed(t) == \E f : Underway(f) /\ f.type \in Clicks /\ f.turn = t
Heard(t) == room.turn = t \/ told.turn = t \/ Posted(t) \/ Signed(t)

LEMMA PostedStep ==
  ASSUME TradeInv, [Next]_vars, NEW f, Within(f, down')
  PROVE  Within(f, down) \/ \E u \in Threads : MedEnqueue(u) /\ f = task[u][1][2]
                                                /\ task[u][1][1] = me /\ member
<1>1. down \in Seq(Downs) BY DEF TradeInv, Types
<1>2. CASE UNCHANGED down BY <1>2
<1>3. ASSUME NEW u \in Threads, MedEnqueue(u)
      PROVE  Within(f, down) \/ (f = task[u][1][2] /\ task[u][1][1] = me /\ member)
  <2>1. /\ task[u][1] \in Jobs
        /\ down' = IF task[u][1][1] = me /\ member THEN Append(down, task[u][1][2]) ELSE down
    BY <1>3, EnqueueFacts DEF TradeInv
  <2>2. task[u][1][2] \in Downs BY <2>1 DEF Jobs
  <2> QED BY <1>1, <2>1, <2>2, WithinAppend
<1>4. CASE HandleFrame
  BY <1>1, <1>4, WithinTail DEF HandleFrame
<1>5. CASE LoseLink BY <1>5, WithinNone DEF LoseLink
<1>6. CASE ClientStep
  BY <1>2, <1>4, <1>5, <1>6 DEF ClientStep, Press, CheckConnected, Push, Swap, SendFrame,
     SetDisconnected, ClearQueue, Reconnect
<1>7. CASE MedConfirm \/ PeerActs \/ MedHandles
  BY <1>2, <1>7, MedCalls
<1>8. CASE MedRemoves BY <1>2, <1>8 DEF MedRemoves
<1>9. CASE UNCHANGED vars BY <1>2, <1>9 DEF vars
<1> QED BY <1>3, <1>6, <1>7, <1>8, <1>9 DEF Next, ClientStep

\* The page shows a turn that was under way to it, or none.
LEMMA RoomStep ==
  ASSUME TradeInv, [Next]_vars
  PROVE  \/ UNCHANGED room
         \/ Reconnect /\ room' = NoView
         \/ HandleFrame /\ down # <<>> /\ Head(down) \in Downs /\ room' = View(room, Head(down))
<1>1. down \in Seq(Downs) BY DEF TradeInv, Types
<1>2. CASE HandleFrame
  <2>1. down # <<>> /\ room' = View(room, Head(down)) BY <1>2 DEF HandleFrame
  <2> QED BY <1>1, <1>2, <2>1
<1>3. CASE ClientStep
  BY <1>2, <1>3 DEF ClientStep, Press, CheckConnected, Push, Swap, SendFrame, LoseLink,
     SetDisconnected, ClearQueue, Reconnect, worker
<1>4. ASSUME NEW u \in Threads, MedEnqueue(u) PROVE UNCHANGED room
  BY <1>4 DEF MedEnqueue, worker
<1>5. CASE MedConfirm \/ PeerActs \/ MedHandles
  BY <1>5, MedCalls DEF worker
<1>6. CASE MedRemoves BY <1>6 DEF MedRemoves, worker
<1>7. CASE UNCHANGED vars BY <1>7 DEF vars, worker
<1> QED BY <1>3, <1>4, <1>5, <1>6, <1>7 DEF Next, ClientStep

LEMMA ToldStep ==
  ASSUME TradeInv, [Next]_vars
  PROVE  \/ told'.turn = told.turn
         \/ \E u \in Threads : /\ MedEnqueue(u) /\ Type(task[u][1]) = "Turn"
                               /\ told'.turn = task[u][1][2].turn
<1>1. ASSUME NEW u \in Threads, MedEnqueue(u)
      PROVE  told'.turn = told.turn \/ (Type(task[u][1]) = "Turn"
                                        /\ told'.turn = task[u][1][2].turn)
  BY <1>1, EnqueueFacts DEF TradeInv
<1>2. CASE ClientStep BY <1>2, ClientKeepsServer
<1>3. CASE MedConfirm \/ PeerActs \/ MedHandles BY <1>3, MedCalls
<1>4. CASE MedRemoves BY <1>4 DEF MedRemoves
<1>5. CASE UNCHANGED vars BY <1>5 DEF vars, server
<1> QED BY <1>1, <1>2, <1>3, <1>4, <1>5 DEF Next, ClientStep

LEMMA HeardStep ==
  ASSUME TradeInv, [Next]_vars, NEW t, Heard(t)'
  PROVE  \/ Heard(t) \/ t = NoTurn
         \/ \E u \in Threads : /\ MedEnqueue(u) /\ Type(task[u][1]) = "Turn"
                               /\ task[u][1][2].turn = t
<1>1. CASE told'.turn = t
  BY <1>1, ToldStep DEF Heard
<1>2. CASE Posted(t)'
  <2>1. PICK f : Within(f, down') /\ f.type = "Turn" /\ f.turn = t
    BY <1>2 DEF Posted
  <2>2. CASE Within(f, down) BY <2>1, <2>2 DEF Heard, Posted
  <2>3. ASSUME NEW u \in Threads, MedEnqueue(u), f = task[u][1][2]
        PROVE Type(task[u][1]) = "Turn" /\ task[u][1][2].turn = t
    BY <2>1, <2>3 DEF Type
  <2> QED BY <2>1, <2>2, <2>3, PostedStep
<1>3. CASE room'.turn = t
  <2>1. room \in Views /\ down \in Seq(Downs) BY DEF TradeInv, Types
  <2>2. CASE UNCHANGED room BY <1>3, <2>2 DEF Heard
  <2>3. CASE room' = NoView BY <1>3, <2>3 DEF NoView
  <2>4. CASE /\ down # <<>> /\ Head(down) \in Downs /\ room' = View(room, Head(down))
    <3>1. PICK f \in Downs : f = Head(down) BY <2>4
    <3>2. \/ room'.turn \in {room.turn, NoTurn}
          \/ f.type = "Turn" /\ room'.turn = f.turn
      BY <2>1, <2>4, <3>1 DEF View, NoView, Views
    <3>3. Within(f, down) BY <2>1, <2>4, <3>1, WithinTail
    <3> QED BY <1>3, <3>2, <3>3 DEF Heard, Posted
  <2> QED BY <2>2, <2>3, <2>4, RoomStep
<1>4. CASE Signed(t)'
  <2>1. PICK f : Underway(f)' /\ f.type \in Clicks /\ f.turn = t
    BY <1>4 DEF Signed
  <2>2. CASE Underway(f) BY <2>1, <2>2 DEF Heard, Signed
  <2>3. ASSUME NEW type \in Clicks, f = Click(type) PROVE Heard(t)
    <3>1. f.turn = room.turn BY <2>3 DEF Click
    <3> QED BY <2>1, <3>1 DEF Heard
  <2> QED BY <2>1, <2>2, <2>3, ClickStep
<1> QED BY <1>1, <1>2, <1>3, <1>4 DEF Heard

\* A call of thread u leaves n in its task.
Makes(u, n) ==
    /\ n \in Seq(Jobs) /\ task' = [task EXCEPT ![u] = n]
    /\ Becomes(u, session, session')
    /\ \E first : /\ Tells(n, session, session', first)
                  /\ \A i \in 1..Len(first) : Type(first[i]) = "Sent" =>
                        Sends(u, session, session') /\ first[i] = <<OtherParty(u), Frame("Sent")>>
                  /\ Sends(u, session, session') =>
                        Len(first) = 1 /\ first[1] = <<OtherParty(u), Frame("Sent")>>

LEMMA CallMakes ==
  ASSUME TradeInv, NEW u \in Threads, Called(u)
  PROVE  /\ \E n : Makes(u, n)
         /\ Becomes(u, session, session') /\ UNCHANGED keys
         /\ issued' = IF Due(session, session') /\ CanIssue
                      THEN Append(issued, Stage(session')) ELSE issued
         /\ Acks(u, session, session') => u \in session.acked \/ keys[u] # 0
<1>1. PICK first :
         /\ SaidFirst(first) /\ Settle(u, session', first)
         /\ Becomes(u, session, session') /\ UNCHANGED keys
         /\ \A i \in 1..Len(first) : Type(first[i]) = "Sent" =>
               Sends(u, session, session') /\ first[i] = <<OtherParty(u), Frame("Sent")>>
         /\ Sends(u, session, session') =>
               Len(first) = 1 /\ first[1] = <<OtherParty(u), Frame("Sent")>>
         /\ Acks(u, session, session') => u \in session.acked \/ keys[u] # 0
  BY CallFacts
<1>2. PICK n \in Seq(Jobs) : task' = [task EXCEPT ![u] = n] /\ Tells(n, session, session', first)
  BY <1>1, SettleFacts
<1>3. issued' = IF Due(session, session') /\ CanIssue
                THEN Append(issued, Stage(session')) ELSE issued
  BY <1>1, SettleFacts
<1>4. Makes(u, n)
  BY <1>1, <1>2 DEF Makes
<1> QED BY <1>1, <1>3, <1>4

\* What kinds of steps the threads of the mediator take.
LEMMA ServerSteps ==
  ASSUME TradeInv, [Next]_vars
  PROVE  \/ UNCHANGED <<session, keys, issued, task, accepted>>
         \/ \E u \in Threads : MedEnqueue(u)
         \/ /\ MedConfirm \/ PeerActs \/ MedHandles
            /\ \E u \in Threads : task[u] = <<>> /\ (Called(u) \/ Announces(u))
         \/ MedRemoves
<1>1. CASE ClientStep BY <1>1, ClientKeepsServer
<1>2. CASE UNCHANGED vars BY <1>2 DEF vars, server
<1>3. CASE MedConfirm \/ PeerActs \/ MedHandles BY <1>3, MedCalls
<1> QED BY <1>1, <1>2, <1>3 DEF Next, ClientStep

LEMMA AnnounceFacts ==
  ASSUME TradeInv, NEW u \in Threads, Announces(u)
  PROVE  /\ UNCHANGED <<session, issued, accepted>> /\ u \in Parties
         /\ keys' \in [Parties -> Nat]
         /\ \A p \in Parties : keys[p] # 0 => keys'[p] # 0
         /\ \E n \in Seq(Jobs) : /\ task' = [task EXCEPT ![u] = n]
                                 /\ \A i \in 1..Len(n) : Type(n[i]) = "TradeEphemeralKey"
<1>1. PICK j : j = <<OtherParty(u), Frame("TradeEphemeralKey")>> OBVIOUS
<1>2. j \in Jobs /\ Type(j) = "TradeEphemeralKey"
  BY <1>1, PlainFrames DEF Jobs, Plain, OtherParty, Parties, Type
<1>3. task' = [task EXCEPT ![u] = <<j>>] /\ UNCHANGED <<session, issued, accepted>>
  BY <1>1 DEF Announces, Forward
<1>4. keys \in [Parties -> Nat] BY DEF TradeInv, Types
<1>5. keys' \in [Parties -> Nat] /\ \A p \in Parties : keys[p] # 0 => keys'[p] # 0
  BY <1>4 DEF Announces
<1>6. <<j>> \in Seq(Jobs) /\ Len(<<j>>) = 1 /\ <<j>>[1] = j BY <1>2
<1>7. \A i \in 1..Len(<<j>>) : Type(<<j>>[i]) = "TradeEphemeralKey"
  <2> TAKE i \in 1..Len(<<j>>)
  <2>1. i = 1 BY <1>6
  <2> QED BY <1>2, <1>6, <2>1
<1> QED BY <1>3, <1>5, <1>6, <1>7 DEF Announces

\* A job of a thread was one before, or the thread has just been called.
LEMMA TaskStep ==
  ASSUME TradeInv, [Next]_vars, NEW u \in Threads, NEW j, Within(j, task'[u])
  PROVE  \/ Within(j, task[u])
         \/ Type(j) \in {"TradeEphemeralKey", "Abort"}
         \/ /\ Called(u) /\ task[u] = <<>>
            /\ MedConfirm \/ PeerActs \/ MedHandles
<1>1. task \in [Threads -> Seq(Jobs)] /\ me \in Threads
  BY DEF TradeInv, Types, Parties, Threads
<1>2. CASE UNCHANGED task BY <1>2
<1>3. ASSUME NEW v \in Threads, MedEnqueue(v) PROVE Within(j, task[u])
  <2>1. task[v] # <<>> /\ task' = [task EXCEPT ![v] = Tail(task[v])]
    BY <1>3, EnqueueFacts DEF TradeInv
  <2>2. CASE v = u
    <3>1. task'[u] = Tail(task[u]) BY <1>1, <2>1, <2>2
    <3> QED BY <1>1, <2>1, <2>2, <3>1, WithinTail
  <2>3. CASE v # u
    <3>1. task'[u] = task[u] BY <1>1, <2>1, <2>3
    <3> QED BY <3>1
  <2> QED BY <2>2, <2>3
<1>4. ASSUME NEW v \in Threads, task[v] = <<>>, Called(v), MedConfirm \/ PeerActs \/ MedHandles
      PROVE  Within(j, task[u]) \/ (Called(u) /\ task[u] = <<>>)
  <2>1. CASE v = u BY <1>4, <2>1
  <2>2. CASE v # u
    <3>1. PICK n : task' = [task EXCEPT ![v] = n] BY <1>4, CallMakes DEF Makes
    <3>2. task'[u] = task[u] BY <1>1, <2>2, <3>1
    <3> QED BY <3>2
  <2> QED BY <2>1, <2>2
<1>5. ASSUME NEW v \in Threads, Announces(v)
      PROVE  Within(j, task[u]) \/ Type(j) = "TradeEphemeralKey"
  <2>1. PICK n \in Seq(Jobs) : /\ task' = [task EXCEPT ![v] = n]
                               /\ \A i \in 1..Len(n) : Type(n[i]) = "TradeEphemeralKey"
    BY <1>5, AnnounceFacts
  <2>2. CASE v = u
    <3>1. task'[u] = n BY <1>1, <2>1, <2>2
    <3> QED BY <2>1, <3>1 DEF Within
  <2>3. CASE v # u
    <3>1. task'[u] = task[u] BY <1>1, <2>1, <2>3
    <3> QED BY <3>1
  <2> QED BY <2>2, <2>3
<1>6. CASE MedRemoves
  <2>1. CASE UNCHANGED task BY <2>1
  <2>2. CASE ~UNCHANGED task
    <3>1. PICK n \in Seq(Jobs) : /\ task' = [task EXCEPT ![me] = n]
                                 /\ \A i \in 1..Len(n) : Type(n[i]) = "Abort"
      BY <1>6, <2>2, RemoveFacts
    <3>2. CASE me = u
      <4>1. task'[u] = n BY <1>1, <3>1, <3>2
      <4> QED BY <3>1, <4>1 DEF Within
    <3>3. CASE me # u
      <4>1. task'[u] = task[u] BY <1>1, <3>1, <3>3
      <4> QED BY <4>1
    <3> QED BY <3>2, <3>3
  <2> QED BY <2>1, <2>2
<1> QED BY <1>2, <1>3, <1>4, <1>5, <1>6, ServerSteps

\* The terms and the fee of a session do not change.
LEMMA KeptStep ==
  ASSUME TradeInv, [Next]_vars
  PROVE  Kept(session, session')
<1>1. CASE UNCHANGED session BY <1>1 DEF Kept
<1>2. ASSUME NEW u \in Threads, Called(u) PROVE Kept(session, session')
  BY <1>2, CallMakes DEF Becomes
<1>3. ASSUME NEW u \in Threads, Announces(u) PROVE UNCHANGED session
  BY <1>3 DEF Announces
<1>4. ASSUME NEW u \in Threads, MedEnqueue(u) PROVE UNCHANGED session
  BY <1>4 DEF MedEnqueue
<1> QED BY <1>1, <1>2, <1>3, <1>4, ServerSteps, RemoveFacts

\* A signal that is accepted names the round and the sender of the session.
LEMMA AcceptedStep ==
  ASSUME TradeInv, [Next]_vars, NEW a \in accepted', a \notin accepted
  PROVE  \E f : /\ Within(f, up) /\ f.type \in {"Sent", "Received"} /\ f.turn \in Turns
                /\ a = [type |-> f.type, turn |-> f.turn, at |-> TurnOf(session),
                        offered |-> f.offered]
                /\ ValidSignal(session, f.turn)
                /\ session.state \in {"WaitingForSent", "WaitingForReceived", "WaitingForFeeSent"}
<1>1. up \in Seq(Ups) BY DEF TradeInv, Types
<1>2. ASSUME NEW u \in Threads, Called(u) PROVE u = me /\ u \in Parties /\
               \E m \in Turns, x \in {"Sent", "Received"} :
                  /\ ValidSignal(session, m) /\ SignalTaken(x, m)
                  /\ session.state \in {"WaitingForSent", "WaitingForReceived", "WaitingForFeeSent"}
  <2>1. PICK first :
            /\ Sends(u, session, session') \/ PaysFee(u, session, session') =>
                  \E m \in Turns : ValidSignal(session, m) /\ Signalled(u, "Sent", m)
            /\ Receives(u, session, session') =>
                  \E m \in Turns : ValidSignal(session, m) /\ Signalled(u, "Received", m)
            /\ \/ UNCHANGED accepted
               \/ /\ Sends(u, session, session') \/ PaysFee(u, session, session')
                        \/ Receives(u, session, session')
                  /\ u = me
    BY <1>2, CallFacts
  <2>2. u = me /\ (Sends(u, session, session') \/ PaysFee(u, session, session')
                   \/ Receives(u, session, session'))
    BY <2>1
  <2>3. session.state \in {"WaitingForSent", "WaitingForReceived", "WaitingForFeeSent"}
    BY <2>2 DEF Sends, PaysFee, Receives
  <2>4. PICK m \in Turns, x \in {"Sent", "Received"} : ValidSignal(session, m) /\ Signalled(u, x, m)
    BY <2>1, <2>2
  <2>5. SignalTaken(x, m) /\ u \in Parties BY <2>2, <2>4 DEF Signalled
  <2> QED BY <2>2, <2>3, <2>4, <2>5
<1>3. ASSUME NEW u \in Threads, Announces(u) PROVE FALSE
  BY <1>3 DEF Announces
<1>4. ASSUME NEW u \in Threads, MedEnqueue(u) PROVE FALSE
  BY <1>4 DEF MedEnqueue
<1>5. PICK m \in Turns, x \in {"Sent", "Received"} :
         /\ ValidSignal(session, m) /\ SignalTaken(x, m)
         /\ session.state \in {"WaitingForSent", "WaitingForReceived", "WaitingForFeeSent"}
  BY <1>2, <1>3, <1>4, ServerSteps, RemoveFacts
<1>6. PICK f : f = Head(up) OBVIOUS
<1>7. /\ Within(f, up) /\ f.type = x /\ f.turn = m
      /\ a = [type |-> x, turn |-> m, at |-> TurnOf(session), offered |-> f.offered]
  BY <1>1, <1>5, <1>6, WithinTail DEF SignalTaken
<1> QED BY <1>5, <1>7

-----------------------------------------------------------------------------
(***************************************************************************)
(* A signal counts for its own turn.  Round and sender are compared by the *)
(* session; whether the leg is a fee is not, so the round has to tell a    *)
(* fee leg from a tranche.  It does when the fee comes after the last      *)
(* round.                                                                  *)
(***************************************************************************)
FeesComeLast == \A d \in Deals : d.fee => d.position = "AfterLastRound"

\* The round tells whether the turn is the fee leg.
RoundTells(t) == t.is_fee <=> t.round = session.terms.rounds

TurnsInv ==
    /\ session.fee => session.position = "AfterLastRound"
    /\ \A t : Heard(t) => RoundTells(t)
    /\ \A u \in Threads : \A j : Within(j, task[u]) /\ Type(j) = "Turn" => RoundTells(j[2].turn)
    /\ SignalsMeanTheirTurn

LEMMA AnnouncedTurns ==
  ASSUME TradeInv, session.fee => session.position = "AfterLastRound",
         NEW s \in Sessions, SessionInv(s), Kept(session, s),
         s.state \in {"WaitingForSent", "WaitingForReceived", "WaitingForFeeSent"}
  PROVE  RoundTells(TurnOf(s))
<1>1. s.terms = session.terms /\ (s.fee => LateFee(s)) BY DEF Kept, LateFee
<1>2. TurnOf(s).is_fee = (s.state = "WaitingForFeeSent") /\ TurnOf(s).round = s.round
  BY DEF TurnOf
<1>3. s.round <= s.terms.rounds /\ s.round \in Nat /\ s.terms.rounds \in Nat
  BY DEF SessionInv, Sessions
<1>4. s.state = "WaitingForFeeSent" => s.round = s.terms.rounds
  BY <1>1 DEF SessionInv, InFee
<1>5. s.state # "WaitingForFeeSent" => s.round < s.terms.rounds
  BY DEF SessionInv, InTranche
<1>6. (s.state = "WaitingForFeeSent") <=> s.round = session.terms.rounds
  BY <1>1, <1>3, <1>4, <1>5
<1> QED BY <1>2, <1>6 DEF RoundTells

LEMMA TurnsInit == Init /\ FeesComeLast => TurnsInv
<1> SUFFICES ASSUME Init, FeesComeLast PROVE TurnsInv OBVIOUS
<1>1. PICK d \in Deals :
         session = NewSession([rounds |-> d.rounds, first_sender |-> "A",
                               total |-> [p \in Parties |-> d.rounds]],
                              d.fee, d.confirm, d.position)
  BY DEF Init
<1>2. session.fee => session.position = "AfterLastRound"
  BY <1>1 DEF FeesComeLast, NewSession
<1>3. session.terms.rounds \in Nat
  BY TradeInit DEF TradeInv, Types, Sessions
<1>4. RoundTells(NoTurn)
  BY <1>3 DEF RoundTells, NoTurn
<1>5. ASSUME NEW t, Heard(t) PROVE t = NoTurn
  <2>1. ~Posted(t) BY WithinNone DEF Init, Posted
  <2>2. ~Signed(t) BY WithinNone DEF Init, Signed, Underway
  <2> QED BY <1>5, <2>1, <2>2 DEF Init, Heard, NoView
<1>6. \A u \in Threads : \A j : ~Within(j, task[u])
  BY WithinNone DEF Init
<1>7. SignalsMeanTheirTurn BY DEF Init, SignalsMeanTheirTurn
<1> QED BY <1>2, <1>4, <1>5, <1>6, <1>7 DEF TurnsInv

LEMMA TurnsStep ==
  ASSUME TradeInv, TurnsInv, [Next]_vars
  PROVE  TurnsInv'
<1>1. Kept(session, session') BY KeptStep
<1>2. \A t : RoundTells(t)' <=> RoundTells(t) BY <1>1 DEF RoundTells, Kept
<1>3. (session.fee => session.position = "AfterLastRound")'
  BY <1>1 DEF Kept, TurnsInv
<1>4. ASSUME NEW t, Heard(t)' PROVE RoundTells(t)
  <2>1. CASE Heard(t) BY <2>1 DEF TurnsInv
  <2>2. CASE t = NoTurn
    <3>1. session.terms.rounds \in Nat BY DEF TradeInv, Types, Sessions
    <3> QED BY <2>2, <3>1 DEF RoundTells, NoTurn
  <2>3. ASSUME NEW u \in Threads, MedEnqueue(u), Type(task[u][1]) = "Turn",
               task[u][1][2].turn = t
        PROVE  RoundTells(t)
    <3>1. /\ task[u] # <<>> /\ task[u] \in Seq(Jobs) /\ Head(task[u]) = task[u][1]
      BY <2>3, EnqueueFacts DEF TradeInv, Types
    <3>2. Within(task[u][1], task[u]) BY <3>1, WithinTail
    <3> QED BY <2>3, <3>2 DEF TurnsInv
  <2> QED BY <1>4, <2>1, <2>2, <2>3, HeardStep
<1>5. ASSUME NEW u \in Threads, NEW j, Within(j, task'[u]), Type(j) = "Turn"
      PROVE  RoundTells(j[2].turn)
  <2>1. CASE Within(j, task[u]) BY <1>5, <2>1 DEF TurnsInv
  <2>2. CASE Called(u)
    <3>1. PICK n : Makes(u, n) BY <2>2, CallMakes
    <3>2. task'[u] = n BY <3>1 DEF Makes, TradeInv, Types
    <3>3. session' \in Sessions /\ SessionInv(session') BY <3>1 DEF Makes, Becomes
    <3>4. /\ session'.state \in {"WaitingForSent", "WaitingForFeeSent"}
          /\ j[2] = TurnFrame(session')
      BY <1>5, <3>1, <3>2 DEF Makes, Tells, Within
    <3>5. j[2].turn = TurnOf(session') BY <3>4 DEF TurnFrame
    <3>6. RoundTells(TurnOf(session')) BY <1>1, <3>3, <3>4, AnnouncedTurns DEF TurnsInv
    <3> QED BY <3>5, <3>6
  <2> QED BY <1>5, <2>1, <2>2, TaskStep
<1>6. ASSUME NEW a \in accepted' PROVE a.turn = a.at
  <2>1. CASE a \in accepted BY <2>1 DEF TurnsInv, SignalsMeanTheirTurn
  <2>2. CASE a \notin accepted
    <3>1. PICK f : /\ Within(f, up) /\ f.type \in {"Sent", "Received"} /\ f.turn \in Turns
                   /\ a = [type |-> f.type, turn |-> f.turn, at |-> TurnOf(session),
                           offered |-> f.offered]
                   /\ ValidSignal(session, f.turn)
                   /\ session.state \in {"WaitingForSent", "WaitingForReceived", "WaitingForFeeSent"}
      BY <2>2, AcceptedStep
    <3>2. PICK m, at : m = f.turn /\ at = TurnOf(session) OBVIOUS
    <3>3. Heard(m) BY <3>1, <3>2 DEF Heard, Signed, Underway, Clicks
    <3>4. RoundTells(m) BY <3>3 DEF TurnsInv
    <3>5. session \in Sessions /\ SessionInv(session) BY DEF TradeInv, Types
    <3>6. RoundTells(at) /\ at \in Turns
      BY <3>1, <3>2, <3>5, AnnouncedTurns, TurnFacts DEF Kept, TurnsInv
    <3>7. m.round = at.round /\ m.sender = at.sender
      BY <3>1, <3>2 DEF ValidSignal, TurnOf
    <3>8. m.is_fee = at.is_fee /\ m \in Turns
      BY <3>1, <3>2, <3>4, <3>6, <3>7 DEF RoundTells, Turns
    <3>9. m = at BY <3>6, <3>7, <3>8 DEF Turns
    <3> QED BY <3>1, <3>2, <3>9
  <2> QED BY <2>1, <2>2
<1> QED BY <1>2, <1>3, <1>4, <1>5, <1>6 DEF TurnsInv, SignalsMeanTheirTurn

\* A click that the mediator accepts counts for the very turn the page showed
\* when it was made, whatever was queued, delayed or lost with a connection
\* (enqueue_turn_signal, flush_outgoing, validate_signal), in every room whose
\* fee, if it has one, comes after the last round.
THEOREM ClicksMeanTheirTurn ==
  FeesComeLast => (Spec => []SignalsMeanTheirTurn)
<1> SUFFICES ASSUME FeesComeLast PROVE Spec => []SignalsMeanTheirTurn
  OBVIOUS
<1>1. Init => TurnsInv BY TurnsInit
<1>2. TradeInv /\ TurnsInv /\ [Next]_vars => TurnsInv' BY TurnsStep
<1>3. TurnsInv => SignalsMeanTheirTurn BY DEF TurnsInv
<1> QED BY <1>1, <1>2, <1>3, TradeSound, PTL DEF Spec

-----------------------------------------------------------------------------
(***************************************************************************)
(* The receipts of a room.  A party announces one key for it, so there are *)
(* two receipts, the one of the gate and the last one.                     *)
(***************************************************************************)
OneKey == MaxKeys <= 1

KeysOnce == [p \in Parties |-> 1]
R3 == [type |-> "Receipt", stage |-> 3, keys |-> KeysOnce, prev |-> <<>>]
R4 == [type |-> "Receipt", stage |-> 4, keys |-> KeysOnce, prev |-> <<3>>]

LEMMA ReceiptNames ==
  /\ R3 # R4 /\ R3.type = "Receipt" /\ R4.type = "Receipt"
  /\ R3.stage = 3 /\ R4.stage = 4 /\ R3.keys = R4.keys
  /\ R3.prev = <<>> /\ R4.prev = <<3>>
  /\ R3 \in Receipts /\ R4 \in Receipts
BY DEF R3, R4, Receipts, KeysOnce

\* A receipt that is under way has been issued.
Exists(f) == \/ f = R3 /\ issued # <<>>
             \/ f = R4 /\ issued = <<3, 4>>

KnownInv ==
    /\ \A p \in Parties : keys[p] \in {0, 1}
    /\ \A u \in Threads : \A j : Within(j, task[u]) /\ Type(j) = "Receipt" => Exists(j[2])
    /\ \A f : Within(f, down) /\ f.type = "Receipt" => Exists(f)

\* What a call issues.
LEMMA CallReceipts ==
  ASSUME TradeInv, KnownInv, NEW u \in Threads, Called(u), NEW n, Makes(u, n)
  PROVE  LET s2 == session' IN
         /\ Due(session, s2) /\ s2.state = "Complete" =>
               /\ issued = <<3>> /\ issued' = <<3, 4>> /\ CanIssue
               /\ Receipt(Stage(s2)) = R4
         /\ Due(session, s2) /\ s2.state # "Complete" =>
               /\ issued = <<>> /\ issued' = <<3>> /\ CanIssue
               /\ Receipt(Stage(s2)) = R3
               /\ Passed(s2) /\ Acks(u, session, s2)
         /\ ~Due(session, s2) => issued' = issued
<1> DEFINE s2 == session'
<1>1. /\ Becomes(u, session, s2)
      /\ issued' = IF Due(session, s2) /\ CanIssue THEN Append(issued, Stage(s2)) ELSE issued
      /\ Acks(u, session, s2) => u \in session.acked \/ keys[u] # 0
  BY CallMakes
<1>2. ASSUME Due(session, s2)
      PROVE  /\ s2.state = "Complete" => issued = <<3>> /\ CanIssue
             /\ s2.state # "Complete" => /\ issued = <<>> /\ Passed(s2) /\ Acks(u, session, s2)
                                         /\ CanIssue
  BY <1>1, <1>2, DueFacts
<1>3. ASSUME CanIssue PROVE keys = KeysOnce
  <2>1. keys \in [Parties -> Nat] /\ \A p \in Parties : keys[p] = 1
    BY <1>3 DEF KnownInv, CanIssue, TradeInv, Types
  <2> QED BY <2>1 DEF KeysOnce
<1>4. CASE Due(session, s2) /\ s2.state = "Complete"
  BY <1>1, <1>2, <1>3, <1>4, Chains DEF Receipt, Stage, R4
<1>5. CASE Due(session, s2) /\ s2.state # "Complete"
  BY <1>1, <1>2, <1>3, <1>5, Chains DEF Receipt, Stage, R3
<1> QED BY <1>1, <1>4, <1>5

\* Receipts are not taken back.
LEMMA IssuedGrows ==
  ASSUME TradeInv, KnownInv, [Next]_vars
  PROVE  /\ issued # <<>> => issued' # <<>>
         /\ issued = <<3, 4>> => issued' = <<3, 4>>
         /\ \A f : Exists(f) => Exists(f)'
<1>1. ASSUME NEW u \in Threads, Called(u)
      PROVE  /\ issued # <<>> => issued' # <<>>
             /\ issued = <<3, 4>> => issued' = <<3, 4>>
  BY <1>1, CallMakes, CallReceipts, Chains
<1>2. ASSUME NEW u \in Threads, Announces(u) PROVE UNCHANGED issued
  BY <1>2 DEF Announces
<1>3. ASSUME NEW u \in Threads, MedEnqueue(u) PROVE UNCHANGED issued
  BY <1>3 DEF MedEnqueue
<1>4. /\ issued # <<>> => issued' # <<>>
      /\ issued = <<3, 4>> => issued' = <<3, 4>>
  BY <1>1, <1>2, <1>3, ServerSteps, RemoveFacts
<1> QED BY <1>4 DEF Exists

LEMMA KnownStep ==
  ASSUME TradeInv, OneKey, KnownInv, [Next]_vars
  PROVE  KnownInv'
<1>1. \A f : Exists(f) => Exists(f)' BY IssuedGrows
<1>2. \A p \in Parties : keys'[p] \in {0, 1}
  <2>1. ASSUME NEW u \in Threads, Called(u) PROVE UNCHANGED keys
    BY <2>1, CallMakes
  <2>2. ASSUME NEW u \in Threads, Announces(u) PROVE \A p \in Parties : keys'[p] \in {0, 1}
    <3>1. PICK k \in Nat \ {0} : (k = 1 \/ k <= MaxKeys) /\ keys' = [keys EXCEPT ![u] = k]
      BY <2>2 DEF Announces
    <3>2. k = 1 BY <3>1, TradeClientAssumption DEF OneKey
    <3> QED BY <3>1, <3>2 DEF KnownInv, TradeInv, Types
  <2>3. ASSUME NEW u \in Threads, MedEnqueue(u) PROVE UNCHANGED keys
    BY <2>3 DEF MedEnqueue
  <2>4. CASE UNCHANGED keys BY <2>4 DEF KnownInv
  <2> QED BY <2>1, <2>2, <2>3, <2>4, ServerSteps, RemoveFacts
<1>3. ASSUME NEW u \in Threads, NEW j, Within(j, task'[u]), Type(j) = "Receipt"
      PROVE  Exists(j[2])'
  <2>1. CASE Within(j, task[u]) BY <1>1, <1>3, <2>1 DEF KnownInv
  <2>2. CASE Called(u)
    <3>1. PICK n : Makes(u, n) BY <2>2, CallMakes
    <3>2. task'[u] = n BY <3>1 DEF Makes, TradeInv, Types
    <3>3. Due(session, session') /\ j[2] = Receipt(Stage(session'))
      BY <1>3, <3>1, <3>2 DEF Makes, Tells, Within
    <3> QED BY <2>2, <3>1, <3>3, CallReceipts, Chains DEF Exists
  <2> QED BY <1>3, <2>1, <2>2, TaskStep
<1>4. ASSUME NEW f, Within(f, down'), f.type = "Receipt"
      PROVE  Exists(f)'
  <2>1. CASE Within(f, down) BY <1>1, <1>4, <2>1 DEF KnownInv
  <2>2. ASSUME NEW u \in Threads, MedEnqueue(u), f = task[u][1][2] PROVE Exists(f)'
    <3>1. task[u] # <<>> /\ task[u] \in Seq(Jobs) /\ Head(task[u]) = task[u][1]
      BY <2>2, EnqueueFacts DEF TradeInv, Types
    <3>2. Within(task[u][1], task[u]) BY <3>1, WithinTail
    <3>3. Exists(task[u][1][2]) BY <1>4, <2>2, <3>2 DEF KnownInv, Type
    <3> QED BY <1>1, <2>2, <3>3
  <2> QED BY <1>4, <2>1, <2>2, PostedStep
<1> QED BY <1>2, <1>3, <1>4 DEF KnownInv

-----------------------------------------------------------------------------
(***************************************************************************)
(* The receipts of the gate are told before the last ones exist: nobody    *)
(* brings the session to its end before the thread that opened the gate    *)
(* has told both parties.  It takes two steps of the parties' own threads  *)
(* after the gate, or the turn of the late fee, which that thread tells    *)
(* last.                                                                   *)
(***************************************************************************)
Owed(f) == \E u \in Threads : \E j : Within(j, task[u]) /\ j[2] = f

IsLast(t) == t.round = session.terms.rounds

GateTold ==
    \A u \in Threads : \A j : Within(j, task[u]) /\ j[2] = R3 =>
        /\ u \in Parties
        /\ session.state \notin {"WaitingForFeeConfirmation", "Complete"}
        /\ session.state = "WaitingForReceived" => u # CurrentSender(session)

FeeHeard == \A t : Heard(t) /\ IsLast(t) => issued # <<>> /\ ~Owed(R3)

FeeTold ==
    \A u \in Threads : \A i \in 1..Len(task[u]) :
        Type(task[u][i]) = "Turn" /\ IsLast(task[u][i][2].turn) =>
            /\ issued # <<>>
            /\ \A v \in Threads : \A k \in 1..Len(task[v]) :
                  task[v][k][2] = R3 => v = u /\ k < i

GateInv == GateTold /\ FeeHeard /\ FeeTold

\* The turn of the late fee reaches the payer behind the receipts.
LEMMA LatePayment ==
  ASSUME TradeInv, GateInv, NEW u \in Threads, Called(u),
         PaysFee(u, session, session'), LateFee(session)
  PROVE  ~Owed(R3)
<1>1. PICK m \in Turns : ValidSignal(session, m) /\ Signalled(u, "Sent", m)
  BY CallFacts
<1>2. session.round = session.terms.rounds
  BY DEF PaysFee, TradeInv, SessionInv, InFee
<1>3. IsLast(m) BY <1>1, <1>2 DEF ValidSignal, IsLast
<1>4. Heard(m)
  <2>1. CASE u = me
    <3>1. up # <<>> /\ Head(up).type = "Sent" /\ Head(up).turn = m
      BY <1>1, <2>1 DEF Signalled, SignalTaken
    <3>2. Within(Head(up), up) BY <3>1, WithinTail DEF TradeInv, Types
    <3> QED BY <3>1, <3>2 DEF Heard, Signed, Underway, Clicks
  <2>2. CASE u # me
    BY <1>1, <2>2 DEF Signalled, Heard
  <2> QED BY <2>1, <2>2
<1> QED BY <1>3, <1>4 DEF GateInv, FeeHeard

\* Where a receipt of the gate is still to be told after a call.
LEMMA GateCall ==
  ASSUME TradeInv, KnownInv, GateInv, NEW u \in Threads, Called(u), task[u] = <<>>,
         NEW v \in Threads, NEW j, Within(j, task'[v]), j[2] = R3
  PROVE  /\ v \in Parties
         /\ session'.state \notin {"WaitingForFeeConfirmation", "Complete"}
         /\ session'.state = "WaitingForReceived" => v # CurrentSender(session')
         /\ \/ v # u /\ Within(j, task[v]) /\ issued # <<>>
            \/ v = u /\ issued = <<>> /\ issued' # <<>>
<1> DEFINE s2 == session'
<1>1. PICK n : Makes(u, n) BY CallMakes
<1>2. task'[u] = n /\ \A w \in Threads : w # u => task'[w] = task[w]
  BY <1>1 DEF Makes, TradeInv, Types
<1>3. Becomes(u, session, s2) BY <1>1 DEF Makes
<1>4. CASE v = u
  <2>1. Type(j) = "Receipt" BY ReceiptNames DEF Type
  <2>2. Due(session, s2) /\ R3 = Receipt(Stage(s2))
    BY <1>1, <1>2, <1>4, <2>1 DEF Makes, Tells, Within
  <2>3. s2.state # "Complete" BY <1>1, <2>2, CallReceipts, ReceiptNames
  <2>4. Acks(u, session, s2) /\ issued = <<>> /\ issued' = <<3>>
    BY <1>1, <2>2, <2>3, CallReceipts
  <2>5. s2.state \in {"WaitingForSent", "WaitingForFeeSent"}
    BY <2>2, <2>3 DEF Due
  <2>6. issued' # <<>> BY <2>4, Chains
  <2> QED BY <1>4, <2>4, <2>5, <2>6 DEF Acks
<1>5. CASE v # u
  <2>1. Within(j, task[v]) BY <1>2, <1>5
  <2>2. Type(j) = "Receipt" BY ReceiptNames DEF Type
  <2>3. issued # <<>> BY <2>1, <2>2, ReceiptNames, Chains DEF KnownInv, Exists
  <2>4. /\ v \in Parties
        /\ session.state \notin {"WaitingForFeeConfirmation", "Complete"}
        /\ session.state = "WaitingForReceived" => v # CurrentSender(session)
    BY <2>1 DEF GateInv, GateTold
  <2>5. session.state # "Aborted" => Passed(session)
    BY <2>3, <2>4 DEF TradeInv, ReceiptsIssued
  <2>6. Owed(R3) BY <2>1 DEF Owed
  <2>7. session.leg \in {0, 1} /\ CurrentSender(session) \in Parties
    BY TurnFacts DEF TradeInv, Types, Sessions
  <2>8. /\ s2.state \notin {"WaitingForFeeConfirmation", "Complete"}
        /\ s2.state = "WaitingForReceived" => v # CurrentSender(s2)
    <3>1. CASE Joins(session, s2)
      BY <3>1 DEF Joins
    <3>2. CASE Sends(u, session, s2)
      <4>1. CurrentSender(s2) = CurrentSender(session)
        BY <1>3, <3>2 DEF Sends, Becomes, Kept, Stays, CurrentSender, FirstSenderForRound
      <4> QED BY <1>5, <3>2, <4>1 DEF Sends
    <3>3. CASE PaysFee(u, session, s2)
      <4>1. Passed(session) /\ session.state = "WaitingForFeeSent" BY <2>5, <3>3 DEF PaysFee
      <4>2. LateFee(session) BY <4>1 DEF Passed, InTranche
      <4> QED BY <2>6, <3>3, <4>2, LatePayment
    <3>4. CASE Receives(u, session, s2)
      <4>1. v # CurrentSender(session) /\ u = OtherParty(CurrentSender(session))
        BY <2>4, <3>4 DEF Receives
      <4>2. v = u BY <2>4, <2>7, <4>1 DEF OtherParty, Parties
      <4> QED BY <1>5, <4>2
    <3>5. CASE Acks(u, session, s2)
      BY <3>5 DEF Acks
    <3>6. CASE Confirms(u, session, s2)
      BY <2>4, <3>6 DEF Confirms
    <3>7. CASE Aborts(session, s2)
      BY <3>7 DEF Aborts
    <3> QED BY <1>3, <3>1, <3>2, <3>3, <3>4, <3>5, <3>6, <3>7 DEF Becomes
  <2> QED BY <1>5, <2>1, <2>3, <2>4, <2>8
<1> QED BY <1>4, <1>5

\* A step that has nothing to do with turns or receipts.
Aside ==
    /\ UNCHANGED issued /\ (UNCHANGED session \/ session'.state = "Aborted")
    /\ \/ UNCHANGED task
       \/ \E w \in Threads : \E n \in Seq(Jobs) :
             /\ task[w] = <<>> /\ task' = [task EXCEPT ![w] = n]
             /\ \A i \in 1..Len(n) : Type(n[i]) \in {"TradeEphemeralKey", "Abort"}

LEMMA TaskCases ==
  ASSUME TradeInv, [Next]_vars
  PROVE  \/ \E w \in Threads : MedEnqueue(w)
         \/ /\ MedConfirm \/ PeerActs \/ MedHandles
            /\ \E w \in Threads : task[w] = <<>> /\ Called(w)
         \/ Aside
<1>1. CASE UNCHANGED <<session, keys, issued, task, accepted>> BY <1>1 DEF Aside
<1>2. ASSUME NEW w \in Threads, task[w] = <<>>, Announces(w) PROVE Aside
  <2>1. PICK n \in Seq(Jobs) : /\ task' = [task EXCEPT ![w] = n]
                               /\ \A i \in 1..Len(n) : Type(n[i]) = "TradeEphemeralKey"
    BY <1>2, AnnounceFacts
  <2>2. UNCHANGED <<session, issued>> BY <1>2 DEF Announces
  <2> QED BY <1>2, <2>1, <2>2 DEF Aside
<1>3. CASE MedRemoves
  <2>1. UNCHANGED issued /\ (UNCHANGED session \/ session'.state = "Aborted")
    BY <1>3, RemoveFacts
  <2>2. CASE UNCHANGED task BY <2>1, <2>2 DEF Aside
  <2>3. CASE ~UNCHANGED task
    <3>1. PICK n \in Seq(Jobs) : /\ task' = [task EXCEPT ![me] = n]
                                 /\ \A i \in 1..Len(n) : Type(n[i]) = "Abort"
      BY <1>3, <2>3, RemoveFacts
    <3>2. me \in Threads /\ task[me] = <<>>
      BY <1>3, RemoveFacts DEF TradeInv, Types, Parties, Threads
    <3> QED BY <2>1, <3>1, <3>2 DEF Aside
  <2> QED BY <2>2, <2>3
<1> QED BY <1>1, <1>2, <1>3, ServerSteps

LEMMA AsideFacts ==
  ASSUME TradeInv, Aside, NEW u \in Threads, NEW i \in 1..Len(task'[u]),
         Type(task'[u][i]) \notin {"TradeEphemeralKey", "Abort"}
  PROVE  i \in 1..Len(task[u]) /\ task'[u][i] = task[u][i]
<1>1. task \in [Threads -> Seq(Jobs)] BY DEF TradeInv, Types
<1>2. CASE UNCHANGED task BY <1>2
<1>3. ASSUME NEW w \in Threads, NEW n \in Seq(Jobs), task' = [task EXCEPT ![w] = n],
             \A k \in 1..Len(n) : Type(n[k]) \in {"TradeEphemeralKey", "Abort"}
      PROVE  i \in 1..Len(task[u]) /\ task'[u][i] = task[u][i]
  <2>1. CASE u = w
    <3>1. task'[u] = n BY <1>1, <1>3, <2>1
    <3> QED BY <1>3, <3>1
  <2>2. CASE u # w
    <3>1. task'[u] = task[u] BY <1>1, <1>3, <2>2
    <3> QED BY <3>1
  <2> QED BY <2>1, <2>2
<1> QED BY <1>2, <1>3 DEF Aside

LEMMA GateToldStep ==
  ASSUME TradeInv, KnownInv, GateInv, [Next]_vars
  PROVE  GateTold'
<1>1. ASSUME NEW w \in Threads, task[w] = <<>>, Called(w) PROVE GateTold'
  BY <1>1, GateCall DEF GateTold
<1>2. CASE ~\E w \in Threads : task[w] = <<>> /\ Called(w)
  <2>1. ASSUME NEW u \in Threads, NEW j, Within(j, task'[u]), j[2] = R3
        PROVE  Within(j, task[u])
    <3>1. Type(j) = "Receipt" BY <2>1, ReceiptNames DEF Type
    <3> QED BY <1>2, <2>1, <3>1, TaskStep
  <2>2. UNCHANGED session \/ session'.state = "Aborted"
    <3>1. ASSUME NEW w \in Threads, MedEnqueue(w) PROVE UNCHANGED session
      BY <3>1 DEF MedEnqueue
    <3> QED BY <1>2, <3>1, TaskCases DEF Aside
  <2>3. CASE UNCHANGED session
    BY <2>1, <2>3 DEF GateInv, GateTold
  <2>4. CASE session'.state = "Aborted"
    BY <2>1, <2>4 DEF GateInv, GateTold
  <2> QED BY <2>2, <2>3, <2>4
<1> QED BY <1>1, <1>2

LEMMA OwedStep ==
  ASSUME TradeInv, KnownInv, GateInv, [Next]_vars, issued # <<>>, ~Owed(R3)
  PROVE  ~Owed(R3)'
<1> SUFFICES ASSUME NEW u \in Threads, NEW j, Within(j, task'[u]), j[2] = R3 PROVE FALSE
  BY DEF Owed
<1>1. Type(j) = "Receipt" BY ReceiptNames DEF Type
<1>2. Within(j, task[u]) \/ (Called(u) /\ task[u] = <<>>)
  BY <1>1, TaskStep
<1>3. ~Within(j, task[u]) BY DEF Owed
<1> QED BY <1>2, <1>3, GateCall

LEMMA FeeHeardStep ==
  ASSUME TradeInv, KnownInv, GateInv, [Next]_vars
  PROVE  FeeHeard'
<1> SUFFICES ASSUME NEW t, Heard(t)', IsLast(t)' PROVE issued' # <<>> /\ ~Owed(R3)'
  BY DEF FeeHeard
<1>1. IsLast(t) BY KeptStep DEF IsLast, Kept
<1>2. SUFFICES issued # <<>> /\ ~Owed(R3)
  BY <1>2, OwedStep, IssuedGrows
<1>3. CASE Heard(t) BY <1>1, <1>3 DEF GateInv, FeeHeard
<1>4. t # NoTurn
  <2>1. session.terms.rounds \in Nat BY DEF TradeInv, Types, Sessions
  <2> QED BY <1>1, <2>1 DEF IsLast, NoTurn
<1>5. ASSUME NEW u \in Threads, MedEnqueue(u), Type(task[u][1]) = "Turn",
             task[u][1][2].turn = t
      PROVE  issued # <<>> /\ ~Owed(R3)
  <2>1. 1 \in 1..Len(task[u]) BY <1>5, EnqueueFacts DEF TradeInv
  <2>2. /\ issued # <<>>
        /\ \A v \in Threads : \A k \in 1..Len(task[v]) : task[v][k][2] = R3 => v = u /\ k < 1
    BY <1>1, <1>5, <2>1 DEF GateInv, FeeTold
  <2>3. ASSUME NEW v \in Threads, NEW j, Within(j, task[v]), j[2] = R3 PROVE FALSE
    <3>1. PICK k \in 1..Len(task[v]) : task[v][k] = j BY <2>3 DEF Within
    <3>2. k < 1 BY <2>2, <2>3, <3>1
    <3> QED BY <3>1, <3>2
  <2> QED BY <2>2, <2>3 DEF Owed
<1> QED BY <1>3, <1>4, <1>5, HeardStep

LEMMA FeeToldStep ==
  ASSUME TradeInv, KnownInv, GateInv, [Next]_vars
  PROVE  FeeTold'
<1> SUFFICES ASSUME NEW u \in Threads, NEW i \in 1..Len(task'[u]), Type(task'[u][i]) = "Turn",
                    task'[u][i][2].turn.round = session'.terms.rounds
             PROVE  /\ issued' # <<>>
                    /\ \A v \in Threads : \A k \in 1..Len(task'[v]) :
                          task'[v][k][2] = R3 => v = u /\ k < i
  BY DEF FeeTold, IsLast
<1>1. IsLast(task'[u][i][2].turn) BY KeptStep DEF IsLast, Kept
<1>2. task \in [Threads -> Seq(Jobs)] BY DEF TradeInv, Types
<1>3. ASSUME NEW w \in Threads, task[w] = <<>>, Called(w)
      PROVE  /\ issued' # <<>>
             /\ \A v \in Threads : \A k \in 1..Len(task'[v]) :
                   task'[v][k][2] = R3 => v = u /\ k < i
  <2>1. PICK n : Makes(w, n) BY <1>3, CallMakes
  <2>2. task'[w] = n /\ \A v \in Threads : v # w => task'[v] = task[v]
    BY <1>2, <2>1 DEF Makes
  <2>3. ASSUME NEW v \in Threads, NEW k \in 1..Len(task'[v]), task'[v][k][2] = R3
        PROVE  \/ v # w /\ issued # <<>> /\ k \in 1..Len(task[v]) /\ task[v][k][2] = R3
                     /\ session.state # "Aborted"
               \/ v = w /\ issued = <<>> /\ issued' # <<>>
    <3>1. Within(task'[v][k], task'[v]) BY DEF Within
    <3>2. session.state # "Aborted"
      BY <2>1 DEF Makes, Becomes, Joins, Sends, PaysFee, Receives, Acks, Confirms, Aborts
    <3> QED BY <1>3, <2>2, <2>3, <3>1, <3>2, GateCall
  <2>4. CASE u # w
    <3>1. i \in 1..Len(task[u]) /\ task[u][i] = task'[u][i] BY <2>2, <2>4
    <3>2. /\ issued # <<>>
          /\ \A v \in Threads : \A k \in 1..Len(task[v]) : task[v][k][2] = R3 => v = u /\ k < i
      BY <1>1, <3>1 DEF GateInv, FeeTold
    <3>3. issued' # <<>> BY <3>2, IssuedGrows
    <3> QED BY <2>3, <3>2, <3>3
  <2>5. CASE u = w
    <3>1. PICK s2 : s2 = session' OBVIOUS
    <3>2. Becomes(w, session, s2) /\ s2 \in Sessions /\ SessionInv(s2)
      BY <2>1, <3>1 DEF Makes, Becomes
    <3>3. s2.state \in {"WaitingForSent", "WaitingForFeeSent"} /\ task'[u][i][2] = TurnFrame(s2)
      BY <2>1, <2>2, <2>5, <3>1 DEF Makes, Tells
    <3>4. s2.round = s2.terms.rounds
      <4>1. task'[u][i][2].turn = TurnOf(s2) BY <3>3 DEF TurnFrame
      <4>2. s2.terms = session.terms BY <3>2 DEF Becomes, Kept
      <4> QED BY <1>1, <4>1, <4>2 DEF IsLast, TurnOf
    <3>5. s2.state = "WaitingForFeeSent" /\ LateFee(s2) /\ Passed(s2)
      <4>1. s2.round \in Nat BY <3>2 DEF Sessions
      <4>2. s2.state # "WaitingForSent" BY <3>2, <3>4, <4>1 DEF SessionInv, InTranche
      <4> QED BY <3>2, <3>3, <3>4, <4>2 DEF SessionInv, InFee, Passed
    <3>6. issued' # <<>>
      <4>1. Passed(session') BY <3>1, <3>5
      <4> QED BY <4>1, IssuedStep, Chains DEF ReceiptsIssued
    <3>7. ASSUME NEW v \in Threads, v # w, issued # <<>>,
                 NEW k \in 1..Len(task[v]), task[v][k][2] = R3
          PROVE  FALSE
      <4>1. Within(task[v][k], task[v]) BY DEF Within
      <4>2. session.state \notin {"Complete", "Aborted"}
        BY <3>2 DEF Becomes, Joins, Sends, PaysFee, Receives, Acks, Confirms, Aborts
      <4>3. Passed(session) BY <3>7, <4>2 DEF TradeInv, ReceiptsIssued
      <4> QED BY <3>2, <3>5, <4>3 DEF Becomes, Joins, Sends, PaysFee, Receives, Acks, Confirms,
              Aborts, Passed, InTranche, InFee
    <3>8. ASSUME NEW k \in 1..Len(n), n[k][2] = R3 PROVE k < i
      <4>1. Type(n[k]) = "Receipt" BY <3>8, ReceiptNames DEF Type
      <4>2. i \in 1..Len(n) /\ Type(n[i]) = "Turn" BY <2>2, <2>5
      <4> QED BY <2>1, <4>1, <4>2 DEF Makes, Tells
    <3> QED BY <2>2, <2>3, <2>5, <3>6, <3>7, <3>8
  <2> QED BY <2>4, <2>5
<1>4. ASSUME NEW w \in Threads, MedEnqueue(w)
      PROVE  /\ issued' # <<>>
             /\ \A v \in Threads : \A k \in 1..Len(task'[v]) :
                   task'[v][k][2] = R3 => v = u /\ k < i
  <2>1. /\ \A k \in 1..Len(task'[w]) : k + 1 \in 1..Len(task[w]) /\ task'[w][k] = task[w][k + 1]
        /\ \A v \in Threads : v # w => task'[v] = task[v]
        /\ UNCHANGED issued
    BY <1>4, EnqueueFacts DEF TradeInv
  <2>2. PICK h : h = IF u = w THEN i + 1 ELSE i OBVIOUS
  <2>3. h \in 1..Len(task[u]) /\ task[u][h] = task'[u][i] BY <2>1, <2>2
  <2>4. /\ issued # <<>>
        /\ \A v \in Threads : \A k \in 1..Len(task[v]) : task[v][k][2] = R3 => v = u /\ k < h
    BY <1>1, <2>3 DEF GateInv, FeeTold
  <2>5. ASSUME NEW v \in Threads, NEW k \in 1..Len(task'[v]), task'[v][k][2] = R3
        PROVE  v = u /\ k < i
    <3>1. CASE v = w
      <4>1. k + 1 \in 1..Len(task[v]) /\ task[v][k + 1][2] = R3 BY <2>1, <2>5, <3>1
      <4>2. v = u /\ k + 1 < h BY <2>4, <4>1
      <4> QED BY <2>2, <3>1, <4>2
    <3>2. CASE v # w
      <4>1. k \in 1..Len(task[v]) /\ task[v][k][2] = R3 BY <2>1, <2>5, <3>2
      <4>2. v = u /\ k < h BY <2>4, <4>1
      <4> QED BY <2>2, <3>2, <4>2
    <3> QED BY <3>1, <3>2
  <2> QED BY <2>1, <2>4, <2>5
<1>5. CASE Aside
  <2>1. i \in 1..Len(task[u]) /\ task'[u][i] = task[u][i] BY <1>5, AsideFacts
  <2>2. /\ issued # <<>>
        /\ \A v \in Threads : \A k \in 1..Len(task[v]) : task[v][k][2] = R3 => v = u /\ k < i
    BY <1>1, <2>1 DEF GateInv, FeeTold
  <2>3. ASSUME NEW v \in Threads, NEW k \in 1..Len(task'[v]), task'[v][k][2] = R3
        PROVE  v = u /\ k < i
    <3>1. Type(task'[v][k]) = "Receipt" BY <2>3, ReceiptNames DEF Type
    <3>2. k \in 1..Len(task[v]) /\ task'[v][k] = task[v][k] BY <1>5, <3>1, AsideFacts
    <3> QED BY <2>2, <2>3, <3>2
  <2> QED BY <1>5, <2>2, <2>3 DEF Aside
<1> QED BY <1>3, <1>4, <1>5, TaskCases

LEMMA GateStep ==
  ASSUME TradeInv, KnownInv, GateInv, [Next]_vars
  PROVE  GateInv'
BY GateToldStep, FeeHeardStep, FeeToldStep DEF GateInv

-----------------------------------------------------------------------------
(***************************************************************************)
(* The receipts and the end of a trade reach the client in their order.    *)
(* Of the frames on the connection only these have a rank; what comes next *)
(* is always the one after what the client holds.                          *)
(***************************************************************************)
Rank(f) == IF f = R3 THEN 1 ELSE IF f = R4 THEN 2 ELSE IF f.type = "Complete" THEN 3 ELSE 0

\* c receipts are held, and q is on its way.
InOrder(c, q) ==
    /\ \A i \in 1..Len(q) : Rank(q[i]) \in {1, 2} => Rank(q[i]) > c
    /\ \A i \in 1..Len(q) : Rank(q[i]) # 0 =>
          Rank(q[i]) = c + 1 \/ \E j \in 1..Len(q) : j < i /\ Rank(q[j]) = Rank(q[i]) - 1
    /\ \A i, j \in 1..Len(q) : i < j /\ Rank(q[i]) # 0 /\ Rank(q[j]) # 0 =>
          Rank(q[i]) < Rank(q[j]) \/ Rank(q[i]) = 3

\* Receipt r is held or on its way.
Gets(r, c, q) == r <= c \/ \E i \in 1..Len(q) : Rank(q[i]) = r

LEMMA RankFacts ==
  /\ \A f : Rank(f) \in {0, 1, 2, 3}
  /\ Rank(R3) = 1 /\ Rank(R4) = 2
  /\ \A f : Rank(f) = 1 => f = R3
  /\ \A f : Rank(f) = 2 => f = R4
  /\ \A f : Rank(f) = 3 <=> f.type = "Complete"
BY ReceiptNames DEF Rank

LEMMA OrderAppend ==
  ASSUME NEW c \in 0..2, NEW q \in Seq(Downs), InOrder(c, q), NEW f \in Downs,
         Rank(f) \in {1, 2} => ~Gets(Rank(f), c, q),
         Rank(f) = 2 => Gets(1, c, q), Rank(f) = 3 => Gets(2, c, q)
  PROVE  /\ InOrder(c, Append(q, f))
         /\ \A s \in {1, 2} : Gets(s, c, Append(q, f)) <=> Gets(s, c, q) \/ Rank(f) = s
<1>1. PICK p, m : p = Append(q, f) /\ m = Len(q) OBVIOUS
<1>2. /\ m \in Nat /\ Len(p) = m + 1 /\ p[m + 1] = f
      /\ \A i \in 1..m : p[i] = q[i]
  BY <1>1, AppendProperties
<1>3. \A g : Rank(g) \in {0, 1, 2, 3} BY RankFacts
<1>4. /\ \A i \in 1..m : Rank(q[i]) \in {1, 2} => Rank(q[i]) > c
      /\ \A i \in 1..m : Rank(q[i]) # 0 =>
            Rank(q[i]) = c + 1 \/ \E j \in 1..m : j < i /\ Rank(q[j]) = Rank(q[i]) - 1
      /\ \A i, j \in 1..m : i < j /\ Rank(q[i]) # 0 /\ Rank(q[j]) # 0 =>
            Rank(q[i]) < Rank(q[j]) \/ Rank(q[i]) = 3
  BY <1>1 DEF InOrder
<1>5. \A i \in 1..Len(p) : i = m + 1 \/ i \in 1..m BY <1>2
<1>6. \A i \in 1..m : i \in 1..Len(p) /\ i < m + 1 BY <1>2
<1>7. m + 1 \in 1..Len(p) BY <1>2
<1>8. PICK r : r = Rank(f) OBVIOUS
<1>9. r \in {1, 2} => r > c /\ \A i \in 1..m : Rank(q[i]) # r
  BY <1>1, <1>8 DEF Gets
<1>10. r = 2 => 1 <= c \/ \E i \in 1..m : Rank(q[i]) = 1
  BY <1>1, <1>8 DEF Gets
<1>11. r = 3 => 2 <= c \/ \E i \in 1..m : Rank(q[i]) = 2
  BY <1>1, <1>8 DEF Gets
<1>12. \A i \in 1..Len(p) : Rank(p[i]) \in {1, 2} => Rank(p[i]) > c
  BY <1>2, <1>4, <1>5, <1>8, <1>9
<1>13. ASSUME NEW i \in 1..Len(p), Rank(p[i]) # 0
       PROVE  Rank(p[i]) = c + 1 \/ \E j \in 1..Len(p) : j < i /\ Rank(p[j]) = Rank(p[i]) - 1
  <2>1. CASE i \in 1..m
    <3>1. Rank(q[i]) = c + 1 \/ \E j \in 1..m : j < i /\ Rank(q[j]) = Rank(q[i]) - 1
      BY <1>2, <1>4, <1>13, <2>1
    <3> QED BY <1>2, <1>6, <2>1, <3>1
  <2>2. CASE i = m + 1
    <3>1. p[i] = f /\ r \in {1, 2, 3} BY <1>2, <1>3, <1>8, <1>13, <2>2
    <3>2. CASE r = 1
      BY <1>8, <1>9, <3>1, <3>2
    <3>3. CASE r = 2
      <4>1. CASE 1 <= c BY <1>8, <1>9, <3>1, <3>3, <4>1
      <4>2. ASSUME NEW j \in 1..m, Rank(q[j]) = 1
            PROVE  \E k \in 1..Len(p) : k < i /\ Rank(p[k]) = Rank(p[i]) - 1
        <5>1. j \in 1..Len(p) /\ j < i /\ p[j] = q[j] BY <1>2, <1>6, <2>2
        <5>2. Rank(p[i]) = 2 BY <1>8, <3>1, <3>3
        <5> QED BY <4>2, <5>1, <5>2
      <4> QED BY <1>10, <3>3, <4>1, <4>2
    <3>4. CASE r = 3
      <4>1. CASE 2 <= c BY <1>8, <3>1, <3>4, <4>1
      <4>2. ASSUME NEW j \in 1..m, Rank(q[j]) = 2
            PROVE  \E k \in 1..Len(p) : k < i /\ Rank(p[k]) = Rank(p[i]) - 1
        <5>1. j \in 1..Len(p) /\ j < i /\ p[j] = q[j] BY <1>2, <1>6, <2>2
        <5>2. Rank(p[i]) = 3 BY <1>8, <3>1, <3>4
        <5> QED BY <4>2, <5>1, <5>2
      <4> QED BY <1>11, <3>4, <4>1, <4>2
    <3> QED BY <3>1, <3>2, <3>3, <3>4
  <2> QED BY <1>5, <2>1, <2>2
<1>14. ASSUME NEW i \in 1..Len(p), NEW j \in 1..Len(p), i < j, Rank(p[i]) # 0, Rank(p[j]) # 0
       PROVE  Rank(p[i]) < Rank(p[j]) \/ Rank(p[i]) = 3
  <2>1. i \in 1..m BY <1>2, <1>5, <1>14
  <2>2. CASE j \in 1..m BY <1>2, <1>4, <1>14, <2>1, <2>2
  <2>3. CASE j = m + 1
    <3>1. p[j] = f /\ p[i] = q[i] /\ r \in {1, 2, 3} /\ Rank(q[i]) \in {1, 2, 3}
      BY <1>2, <1>3, <1>8, <1>14, <2>1, <2>3
    <3>2. CASE r = 1
      <4>1. c = 0 /\ Rank(q[i]) # 1 BY <1>9, <2>1, <3>2
      <4>2. CASE Rank(q[i]) = 2
        <5>1. PICK k \in 1..m : k < i /\ Rank(q[k]) = 1 BY <1>4, <2>1, <4>1, <4>2
        <5> QED BY <1>9, <3>2, <5>1
      <4> QED BY <3>1, <4>1, <4>2
    <3>3. CASE r = 2
      <4>1. Rank(q[i]) # 2 BY <1>9, <2>1, <3>3
      <4> QED BY <1>8, <3>1, <3>3, <4>1
    <3>4. CASE r = 3
      BY <1>8, <3>1, <3>4
    <3> QED BY <3>1, <3>2, <3>3, <3>4
  <2> QED BY <1>5, <2>2, <2>3
<1>15. ASSUME NEW s \in {1, 2}
       PROVE Gets(s, c, p) <=> Gets(s, c, q) \/ Rank(f) = s
  <2>1. (\E i \in 1..Len(p) : Rank(p[i]) = s) <=> (\E i \in 1..m : Rank(q[i]) = s) \/ r = s
    BY <1>2, <1>5, <1>6, <1>7, <1>8
  <2> QED BY <1>1, <1>8, <2>1 DEF Gets
<1> QED BY <1>1, <1>12, <1>13, <1>14, <1>15 DEF InOrder

LEMMA OrderTail ==
  ASSUME NEW c \in 0..2, NEW q \in Seq(Downs), InOrder(c, q), q # <<>>,
         NEW c2, c2 = IF Rank(Head(q)) \in {1, 2} THEN c + 1 ELSE c
  PROVE  /\ Rank(Head(q)) # 0 => Rank(Head(q)) = c + 1
         /\ InOrder(c2, Tail(q))
         /\ \A s \in {1, 2} : Gets(s, c2, Tail(q)) <=> Gets(s, c, q)
<1>1. PICK p, m, f, r : p = Tail(q) /\ m = Len(q) /\ f = Head(q) /\ r = Rank(f) OBVIOUS
<1>2. /\ m \in Nat \ {0} /\ Len(p) = m - 1 /\ q[1] = f
      /\ \A i \in 1..(m - 1) : p[i] = q[i + 1] /\ i + 1 \in 1..m
  BY <1>1
<1>3. \A g : Rank(g) \in {0, 1, 2, 3} BY RankFacts
<1>4. /\ \A i \in 1..m : Rank(q[i]) \in {1, 2} => Rank(q[i]) > c
      /\ \A i \in 1..m : Rank(q[i]) # 0 =>
            Rank(q[i]) = c + 1 \/ \E j \in 1..m : j < i /\ Rank(q[j]) = Rank(q[i]) - 1
      /\ \A i, j \in 1..m : i < j /\ Rank(q[i]) # 0 /\ Rank(q[j]) # 0 =>
            Rank(q[i]) < Rank(q[j]) \/ Rank(q[i]) = 3
  BY <1>1 DEF InOrder
<1>5. 1 \in 1..m /\ \A i \in 1..m : i = 1 \/ (i - 1 \in 1..(m - 1) /\ q[i] = p[i - 1])
  BY <1>2
<1>6. r # 0 => r = c + 1
  <2> SUFFICES ASSUME r # 0, r # c + 1 PROVE FALSE OBVIOUS
  <2>1. Rank(q[1]) = r BY <1>1, <1>2
  <2>2. \E j \in 1..m : j < 1 /\ Rank(q[j]) = Rank(q[1]) - 1 BY <1>4, <1>5, <2>1
  <2> QED BY <1>2, <2>2
<1>7. c2 = IF r \in {1, 2} THEN c + 1 ELSE c BY <1>1
<1>8. \A i \in 1..(m - 1) : r # 0 /\ Rank(p[i]) # 0 => r < Rank(p[i]) \/ r = 3
  <2> TAKE i \in 1..(m - 1)
  <2>1. p[i] = q[i + 1] /\ i + 1 \in 1..m /\ 1 < i + 1 BY <1>2
  <2> QED BY <1>1, <1>2, <1>4, <1>5, <2>1
<1>9. ASSUME NEW i \in 1..(m - 1), Rank(p[i]) \in {1, 2} PROVE Rank(p[i]) > c2
  <2>1. Rank(p[i]) > c BY <1>2, <1>4, <1>9
  <2>2. CASE r \in {1, 2} BY <1>6, <1>7, <1>8, <1>9, <2>2
  <2>3. CASE r \notin {1, 2} BY <1>7, <2>1, <2>3
  <2> QED BY <2>2, <2>3
<1>10. ASSUME NEW i \in 1..(m - 1), Rank(p[i]) # 0
       PROVE  Rank(p[i]) = c2 + 1 \/ \E j \in 1..(m - 1) : j < i /\ Rank(p[j]) = Rank(p[i]) - 1
  <2>1. p[i] = q[i + 1] /\ i + 1 \in 1..m BY <1>2
  <2>2. Rank(p[i]) \in {1, 2, 3} BY <1>3, <1>10
  <2>3. CASE Rank(p[i]) = c + 1
    <3>1. CASE r \in {1, 2} BY <1>6, <1>8, <1>10, <2>3, <3>1
    <3>2. CASE r \notin {1, 2} BY <1>7, <2>3, <3>2
    <3> QED BY <3>1, <3>2
  <2>4. ASSUME NEW j \in 1..m, j < i + 1, Rank(q[j]) = Rank(p[i]) - 1
        PROVE  Rank(p[i]) = c2 + 1 \/ \E k \in 1..(m - 1) : k < i /\ Rank(p[k]) = Rank(p[i]) - 1
    <3>1. CASE j = 1
      <4>1. r = Rank(p[i]) - 1 BY <1>1, <1>2, <2>4, <3>1
      <4>2. CASE r = 0
        <5>1. Rank(p[i]) = 1 /\ c < 1 BY <1>9, <1>7, <2>2, <4>1, <4>2
        <5> QED BY <1>7, <4>2, <5>1
      <4>3. CASE r # 0
        <5>1. r \in {1, 2} /\ r = c + 1 BY <1>6, <2>2, <4>1, <4>3
        <5> QED BY <1>7, <2>2, <4>1, <5>1
      <4> QED BY <4>2, <4>3
    <3>2. CASE j # 1
      <4>1. j - 1 \in 1..(m - 1) /\ q[j] = p[j - 1] /\ j - 1 < i BY <1>5, <2>4, <3>2
      <4> QED BY <2>4, <4>1
    <3> QED BY <3>1, <3>2
  <2> QED BY <1>4, <1>10, <2>1, <2>3, <2>4
<1>11. ASSUME NEW i \in 1..(m - 1), NEW j \in 1..(m - 1), i < j, Rank(p[i]) # 0, Rank(p[j]) # 0
       PROVE  Rank(p[i]) < Rank(p[j]) \/ Rank(p[i]) = 3
  <2>1. p[i] = q[i + 1] /\ p[j] = q[j + 1] /\ i + 1 \in 1..m /\ j + 1 \in 1..m /\ i + 1 < j + 1
    BY <1>2, <1>11
  <2>2. PICK a \in 1..m, b \in 1..m : a = i + 1 /\ b = j + 1 /\ a < b BY <2>1
  <2>3. p[i] = q[a] /\ p[j] = q[b] /\ Rank(q[a]) # 0 /\ Rank(q[b]) # 0 BY <1>11, <2>1, <2>2
  <2> QED BY <1>4, <2>2, <2>3
<1>12. ASSUME NEW s \in {1, 2} PROVE Gets(s, c2, p) <=> Gets(s, c, q)
  <2>1. (\E i \in 1..m : Rank(q[i]) = s) <=> (\E i \in 1..(m - 1) : Rank(p[i]) = s) \/ r = s
    <3>1. ASSUME NEW i \in 1..m, Rank(q[i]) = s
          PROVE  r = s \/ \E k \in 1..(m - 1) : Rank(p[k]) = s
      <4>1. CASE i = 1 BY <1>1, <1>2, <3>1, <4>1
      <4>2. CASE i - 1 \in 1..(m - 1) /\ q[i] = p[i - 1] BY <3>1, <4>2
      <4> QED BY <1>5, <4>1, <4>2
    <3>2. ASSUME NEW k \in 1..(m - 1), Rank(p[k]) = s PROVE \E i \in 1..m : Rank(q[i]) = s
      <4>1. k + 1 \in 1..m /\ Rank(q[k + 1]) = s BY <1>2, <3>2
      <4> QED BY <4>1
    <3>3. r = s => \E i \in 1..m : Rank(q[i]) = s BY <1>1, <1>2, <1>5
    <3> QED BY <3>1, <3>2, <3>3
  <2>2. CASE r \in {1, 2}
    <3>1. r = c + 1 /\ c2 = c + 1 BY <1>6, <1>7, <2>2
    <3>2. s <= c2 <=> s <= c \/ s = r BY <3>1
    <3> QED BY <1>1, <1>2, <2>1, <3>2 DEF Gets
  <2>3. CASE r \notin {1, 2}
    <3>1. r # s /\ c2 = c BY <1>7, <2>3
    <3> QED BY <1>1, <1>2, <2>1, <3>1 DEF Gets
  <2> QED BY <2>2, <2>3
<1>13. InOrder(c2, p) BY <1>2, <1>9, <1>10, <1>11 DEF InOrder
<1> QED BY <1>1, <1>6, <1>12, <1>13

\* The steps as the frames on the connection see them.
LEMMA Moves ==
  ASSUME TradeInv, [Next]_vars
  PROVE  /\ UNCHANGED me
         /\ \/ \E u \in Threads : MedEnqueue(u)
            \/ HandleFrame
            \/ LoseLink
            \/ /\ UNCHANGED <<down, chain, member>>
               /\ room'.status = "complete" => room.status = "complete"
               /\ Aside \/ \E w \in Threads : task[w] = <<>> /\ Called(w)
<1>1. ASSUME NEW u \in Threads, MedEnqueue(u) PROVE UNCHANGED me BY <1>1 DEF MedEnqueue
<1>2. CASE MedConfirm \/ PeerActs \/ MedHandles
  <2>1. UNCHANGED <<me, down, chain, member, room>> BY <1>2, MedCalls DEF worker
  <2>2. UNCHANGED <<session, keys, issued, task, accepted>> => Aside BY DEF Aside
  <2> QED BY <1>1, <1>2, <2>1, <2>2, TaskCases
<1>3. CASE MedRemoves
  <2>1. UNCHANGED <<me, down, chain, member, room>> BY <1>3, RemoveFacts DEF worker
  <2> QED BY <1>3, <2>1, TaskCases
<1>4. CASE UNCHANGED vars
  BY <1>4 DEF vars, server, worker, Aside
<1>5. CASE ClientStep /\ ~HandleFrame /\ ~LoseLink
  <2>1. UNCHANGED <<me, session, issued, task>> BY <1>5, ClientKeepsServer
  <2>2. UNCHANGED <<down, chain, member>> /\ (UNCHANGED room \/ room' = NoView)
    BY <1>5 DEF ClientStep, Press, CheckConnected, Push, Swap, SendFrame, SetDisconnected,
       ClearQueue, Reconnect, server, worker
  <2> QED BY <2>1, <2>2 DEF Aside, NoView
<1>6. CASE HandleFrame \/ LoseLink
  <2>1. ClientStep BY <1>6 DEF ClientStep
  <2> QED BY <1>6, <2>1, ClientKeepsServer
<1> QED BY <1>1, <1>2, <1>3, <1>4, <1>5, <1>6 DEF Next, ClientStep

Got(r) == Gets(r, Len(chain), down)
ToMe(u, i, f) == i \in 1..Len(task[u]) /\ task[u][i] = <<me, f>>

ChainInv ==
    /\ chain \in {<<>>, <<R3>>, <<R3, R4>>}
    /\ 1 <= Len(chain) => Exists(R3)
    /\ 2 <= Len(chain) => Exists(R4)
    /\ InOrder(Len(chain), down)
    /\ ~member => down = <<>>
    /\ room.status = "complete" => Len(chain) = 2

TaskInv ==
    member =>
      /\ \A u \in Threads : \A i, f : ToMe(u, i, f) /\ f \in {R3, R4} => ~Got(Rank(f))
      /\ \A u, v \in Threads : \A i, k, f :
            ToMe(u, i, f) /\ ToMe(v, k, f) /\ f \in {R3, R4} => u = v /\ i = k
      /\ \A u \in Threads : \A i : ToMe(u, i, R4) => Got(1)
      /\ \A u \in Threads : \A i, f : ToMe(u, i, f) /\ f.type = "Complete" =>
            Got(2) \/ \E k : k < i /\ ToMe(u, k, R4)
      /\ issued # <<>> => Got(1) \/ \E u \in Threads : \E i : ToMe(u, i, R3)

LEMMA ReceiptChains ==
  /\ Append(<<>>, R3) = <<R3>> /\ Append(<<R3>>, R4) = <<R3, R4>>
  /\ Len(<<>>) = 0 /\ Len(<<R3>>) = 1 /\ Len(<<R3, R4>>) = 2
  /\ <<R3, R4>>[1] = R3 /\ <<R3, R4>>[2] = R4
<1>1. PICK a, b : a = R3 /\ b = R4 OBVIOUS
<1>2. a \in Receipts /\ b \in Receipts BY <1>1, ReceiptNames
<1>3. Append(<<>>, a) = <<a>> OBVIOUS
<1>4. Append(<<a>>, b) = <<a, b>>
  <2>1. PICK q : q = Append(<<a>>, b) OBVIOUS
  <2>2. <<a>> \in Seq(Receipts) /\ Len(<<a>>) = 1 /\ <<a>>[1] = a BY <1>2
  <2>3. q \in Seq(Receipts) /\ Len(q) = 2 /\ q[1] = a /\ q[2] = b
    BY <1>2, <2>1, <2>2, AppendProperties
  <2>4. q = <<q[1], q[2]>> BY <2>3
  <2> QED BY <2>1, <2>3, <2>4
<1>5. Len(<<>>) = 0 /\ Len(<<a>>) = 1 /\ Len(<<a, b>>) = 2 /\ <<a, b>>[1] = a /\ <<a, b>>[2] = b
  OBVIOUS
<1> QED BY <1>1, <1>3, <1>4, <1>5

LEMMA ChainStep ==
  ASSUME TradeInv, KnownInv, ChainInv, TaskInv, [Next]_vars
  PROVE  /\ ChainInv'
         /\ HandleFrame => \A r \in {1, 2} : Got(r)' <=> Got(r)
         /\ \A u \in Threads : MedEnqueue(u) /\ member =>
               \A r \in {1, 2} : Got(r)' <=> Got(r) \/ (/\ task[u][1][1] = me
                                                       /\ Rank(task[u][1][2]) = r)
<1>1. /\ chain \in {<<>>, <<R3>>, <<R3, R4>>} /\ InOrder(Len(chain), down)
      /\ 1 <= Len(chain) => Exists(R3)
      /\ 2 <= Len(chain) => Exists(R4)
      /\ ~member => down = <<>>
      /\ room.status = "complete" => Len(chain) = 2
  BY DEF ChainInv
<1>2. down \in Seq(Downs) /\ room \in Views BY DEF TradeInv, Types
<1>3. PICK c \in 0..2 : c = Len(chain) BY <1>1, ReceiptChains
<1>4. /\ c = 0 => chain = <<>>
      /\ c = 1 => chain = <<R3>>
      /\ c = 2 => chain = <<R3, R4>>
  BY <1>1, <1>3, ReceiptChains
<1>5. \A f : Exists(f) => Exists(f)' BY IssuedGrows
<1>6. ASSUME HandleFrame
      PROVE  ChainInv' /\ \A r \in {1, 2} : Got(r)' <=> Got(r)
  <2>1. PICK f \in Downs : f = Head(down) BY <1>2, <1>6 DEF HandleFrame
  <2>2. /\ down # <<>> /\ down' = Tail(down) /\ room' = View(room, f)
        /\ chain' = IF f.type = "Receipt" THEN Append(chain, f) ELSE chain
        /\ UNCHANGED member
    BY <1>6, <2>1 DEF HandleFrame, server
  <2>3. Within(f, down) BY <1>2, <2>1, <2>2, WithinTail
  <2>4. f.type = "Receipt" => f \in {R3, R4} /\ Exists(f)
    BY <2>3 DEF KnownInv, Exists
  <2>5. PICK c2 : c2 = IF Rank(f) \in {1, 2} THEN c + 1 ELSE c OBVIOUS
  <2>6. /\ Rank(f) # 0 => Rank(f) = c + 1
        /\ InOrder(c2, down')
        /\ \A s \in {1, 2} : Gets(s, c2, down') <=> Gets(s, c, down)
    <3>1. InOrder(c, down) /\ c2 = IF Rank(Head(down)) \in {1, 2} THEN c + 1 ELSE c
      BY <1>1, <1>3, <2>1, <2>5
    <3>2. /\ Rank(Head(down)) # 0 => Rank(Head(down)) = c + 1
          /\ InOrder(c2, Tail(down))
          /\ \A s \in {1, 2} : Gets(s, c2, Tail(down)) <=> Gets(s, c, down)
      BY <1>2, <2>2, <3>1, OrderTail
    <3> QED BY <2>1, <2>2, <3>2
  <2>7. /\ chain' \in {<<>>, <<R3>>, <<R3, R4>>} /\ Len(chain') = c2
        /\ f.type = "Receipt" => Exists(f) /\ f = IF c2 = 1 THEN R3 ELSE R4
    <3>1. CASE f = R3
      <4>1. Rank(f) = 1 /\ f.type = "Receipt" BY <3>1, RankFacts, ReceiptNames
      <4>2. c = 0 /\ c2 = 1 BY <2>5, <2>6, <4>1
      <4>3. chain' = <<R3>> BY <1>4, <2>2, <3>1, <4>1, <4>2, ReceiptChains
      <4> QED BY <2>4, <3>1, <4>1, <4>2, <4>3, ReceiptChains
    <3>2. CASE f = R4
      <4>1. Rank(f) = 2 /\ f.type = "Receipt" BY <3>2, RankFacts, ReceiptNames
      <4>2. c = 1 /\ c2 = 2 BY <2>5, <2>6, <4>1
      <4>3. chain' = <<R3, R4>> BY <1>4, <2>2, <3>2, <4>1, <4>2, ReceiptChains
      <4> QED BY <2>4, <3>2, <4>1, <4>2, <4>3, ReceiptChains
    <3>3. CASE f.type # "Receipt"
      <4>1. Rank(f) \notin {1, 2} BY <3>3, ReceiptNames DEF Rank
      <4> QED BY <1>1, <1>3, <2>2, <2>5, <3>3, <4>1
    <3> QED BY <2>4, <3>1, <3>2, <3>3
  <2>8. /\ 1 <= c2 => Exists(R3)
        /\ 2 <= c2 => Exists(R4)
    <3>1. Exists(R4) => Exists(R3) BY Chains, ReceiptNames DEF Exists
    <3>2. CASE f.type = "Receipt"
      <4>1. c2 \in {1, 2}
        <5>1. Rank(f) \in {1, 2} BY <2>4, <3>2, RankFacts
        <5> QED BY <2>5, <2>6, <5>1
      <4> QED BY <2>7, <3>1, <3>2, <4>1
    <3>3. CASE f.type # "Receipt"
      <4>1. Rank(f) \notin {1, 2} BY <3>3, ReceiptNames DEF Rank
      <4> QED BY <1>1, <1>3, <2>5, <4>1
    <3> QED BY <3>2, <3>3
  <2>9. room'.status = "complete" => c2 = 2
    <3>1. CASE f.type = "Complete"
      <4>1. Rank(f) = 3 BY <3>1, RankFacts
      <4> QED BY <2>5, <2>6, <4>1
    <3>2. CASE f.type # "Complete"
      <4>1. room'.status = "complete" => room.status = "complete"
        BY <1>2, <2>2, <3>2 DEF View, Views, NoView
      <4>2. c2 = c \/ c2 = c + 1 BY <2>5
      <4>3. room.status = "complete" => c2 = 2
        <5> SUFFICES ASSUME room.status = "complete" PROVE c2 = 2 OBVIOUS
        <5>1. c = 2 BY <1>1, <1>3
        <5>2. Rank(f) \notin {1, 2} BY <2>6, <5>1
        <5> QED BY <2>5, <5>1, <5>2
      <4> QED BY <4>1, <4>3
    <3> QED BY <3>1, <3>2
  <2>10. down = <<>> \/ member BY <1>1
  <2>11. ChainInv'
    BY <1>5, <2>2, <2>6, <2>7, <2>8, <2>9, <2>10 DEF ChainInv
  <2>12. \A r \in {1, 2} : Got(r)' <=> Got(r)
    BY <1>3, <2>6, <2>7 DEF Got
  <2> QED BY <2>11, <2>12
<1>7. ASSUME NEW u \in Threads, MedEnqueue(u)
      PROVE  /\ ChainInv'
             /\ member => \A r \in {1, 2} :
                   Got(r)' <=> Got(r) \/ (task[u][1][1] = me /\ Rank(task[u][1][2]) = r)
  <2>1. /\ task[u] # <<>> /\ task[u][1] \in Jobs /\ Len(task[u]) \in Nat \ {0}
        /\ down' = IF task[u][1][1] = me /\ member THEN Append(down, task[u][1][2]) ELSE down
        /\ UNCHANGED <<chain, member, room>>
    BY <1>7, EnqueueFacts DEF TradeInv, worker
  <2>2. PICK to, f : to = task[u][1][1] /\ f = task[u][1][2] /\ f \in Downs
                     /\ task[u][1] = <<to, f>>
    BY <2>1 DEF Jobs
  <2>3. CASE to = me /\ member
    <3>1. ToMe(u, 1, f) BY <2>1, <2>2, <2>3 DEF ToMe
    <3>2. Rank(f) \in {1, 2} => f \in {R3, R4} BY RankFacts
    <3>3. Rank(f) \in {1, 2} => ~Gets(Rank(f), c, down)
      BY <1>3, <2>3, <3>1, <3>2 DEF TaskInv, Got
    <3>4. Rank(f) = 2 => Gets(1, c, down)
      BY <1>3, <2>3, <3>1, RankFacts DEF TaskInv, Got
    <3>5. Rank(f) = 3 => Gets(2, c, down)
      <4>1. ASSUME f.type = "Complete" PROVE Got(2)
        <5>1. Got(2) \/ \E k : k < 1 /\ ToMe(u, k, R4)
          BY <2>3, <3>1, <4>1 DEF TaskInv
        <5>2. ~\E k : k < 1 /\ ToMe(u, k, R4) BY DEF ToMe
        <5> QED BY <5>1, <5>2
      <4> QED BY <1>3, <4>1, RankFacts DEF Got
    <3>6. down' = Append(down, f) BY <2>1, <2>2, <2>3
    <3>7. /\ InOrder(c, down')
          /\ \A s \in {1, 2} : Gets(s, c, down') <=> Gets(s, c, down) \/ Rank(f) = s
      <4>1. InOrder(c, down) BY <1>1, <1>3
      <4>2. /\ InOrder(c, Append(down, f))
            /\ \A s \in {1, 2} : Gets(s, c, Append(down, f)) <=> Gets(s, c, down) \/ Rank(f) = s
        BY <1>2, <2>2, <3>3, <3>4, <3>5, <4>1, OrderAppend
      <4> QED BY <3>6, <4>2
    <3> QED BY <1>1, <1>3, <1>5, <2>1, <2>2, <2>3, <3>7 DEF ChainInv, Got
  <2>4. CASE ~(to = me /\ member)
    BY <1>1, <1>5, <2>1, <2>2, <2>4 DEF ChainInv, Got
  <2> QED BY <2>3, <2>4
<1>8. ASSUME LoseLink PROVE ChainInv'
  <2>1. down' = <<>> /\ UNCHANGED <<chain, room>>
    BY <1>8 DEF LoseLink
  <2>2. InOrder(c, <<>>)
    <3>1. Len(<<>>) = 0 OBVIOUS
    <3> QED BY <3>1 DEF InOrder
  <2> QED BY <1>1, <1>3, <1>5, <2>1, <2>2 DEF ChainInv
<1>9. ASSUME UNCHANGED <<down, chain, member>>, room'.status = "complete" => room.status = "complete"
      PROVE  ChainInv'
  BY <1>1, <1>5, <1>9 DEF ChainInv
<1> QED BY <1>6, <1>7, <1>8, <1>9, Moves

\* A thread tells its next job.
LEMMA TaskEnqueue ==
  ASSUME TradeInv, KnownInv, ChainInv, TaskInv, NEW w \in Threads, MedEnqueue(w)
  PROVE  TaskInv'
<1> SUFFICES ASSUME member PROVE TaskInv'
  BY EnqueueFacts DEF TaskInv, TradeInv
<1>1. /\ \A k \in 1..Len(task'[w]) : k + 1 \in 1..Len(task[w]) /\ task'[w][k] = task[w][k + 1]
      /\ \A v \in Threads : v # w => task'[v] = task[v]
      /\ Len(task[w]) \in Nat \ {0} /\ Len(task'[w]) = Len(task[w]) - 1
      /\ task[w][1] \in Jobs
      /\ UNCHANGED <<me, issued, member>>
  BY EnqueueFacts DEF TradeInv
<1>2. PICK to, g : to = task[w][1][1] /\ g = task[w][1][2] /\ task[w][1] = <<to, g>>
  BY <1>1 DEF Jobs
<1>3. \A r \in {1, 2} : Got(r)' <=> Got(r) \/ (to = me /\ Rank(g) = r)
  <2>1. [Next]_vars BY DEF Next
  <2> QED BY <1>2, <2>1, ChainStep
<1>4. /\ \A v \in Threads : \A i, f : ToMe(v, i, f) /\ f \in {R3, R4} => ~Got(Rank(f))
      /\ \A v, u \in Threads : \A i, k, f :
            ToMe(v, i, f) /\ ToMe(u, k, f) /\ f \in {R3, R4} => v = u /\ i = k
      /\ \A v \in Threads : \A i : ToMe(v, i, R4) => Got(1)
      /\ \A v \in Threads : \A i, f : ToMe(v, i, f) /\ f.type = "Complete" =>
            Got(2) \/ \E k : k < i /\ ToMe(v, k, R4)
      /\ issued # <<>> => Got(1) \/ \E v \in Threads : \E i : ToMe(v, i, R3)
  BY DEF TaskInv
<1>5. \A v \in Threads : \A i, f : ToMe(v, i, f)' <=>
         IF v = w THEN i + 1 \in 2..Len(task[w]) /\ i \in Int /\ ToMe(w, i + 1, f)
                  ELSE ToMe(v, i, f)
  <2> TAKE v \in Threads
  <2> TAKE i, f
  <2>1. CASE v = w
    <3>1. ToMe(v, i, f)' <=> i \in 1..Len(task'[w]) /\ task'[w][i] = <<me, f>>
      BY <1>1, <2>1 DEF ToMe
    <3>2. i \in 1..Len(task'[w]) <=> i \in Int /\ i + 1 \in 2..Len(task[w])
      BY <1>1
    <3>3. i \in 1..Len(task'[w]) => task'[w][i] = task[w][i + 1] /\ i + 1 \in 1..Len(task[w])
      BY <1>1
    <3> QED BY <2>1, <3>1, <3>2, <3>3 DEF ToMe
  <2>2. CASE v # w
    BY <1>1, <2>2 DEF ToMe
  <2> QED BY <2>1, <2>2
<1>6. 1 \in 1..Len(task[w]) /\ (to = me => ToMe(w, 1, g)) BY <1>1, <1>2 DEF ToMe
<1>7. ASSUME NEW v \in Threads, NEW i, NEW f, ToMe(v, i, f)'
      PROVE  \E k : /\ ToMe(v, k, f) /\ ~(v = w /\ k = 1)
                    /\ k = IF v = w THEN i + 1 ELSE i
  <2>1. CASE v = w
    <3>1. i + 1 \in 2..Len(task[w]) /\ i \in Int /\ ToMe(w, i + 1, f) BY <1>5, <1>7, <2>1
    <3>2. i + 1 # 1 BY <3>1
    <3> QED BY <2>1, <3>1, <3>2
  <2>2. CASE v # w
    BY <1>5, <1>7, <2>2
  <2> QED BY <2>1, <2>2
<1>8. ASSUME NEW v \in Threads, NEW i, NEW f, ToMe(v, i, f)', f \in {R3, R4}
      PROVE  ~Got(Rank(f))'
  <2>1. PICK k : ToMe(v, k, f) /\ ~(v = w /\ k = 1) BY <1>7, <1>8
  <2>2. ~Got(Rank(f)) BY <1>4, <1>8, <2>1
  <2>3. Rank(f) \in {1, 2} /\ ~(to = me /\ Rank(g) = Rank(f))
    <3>1. ASSUME to = me, Rank(g) = Rank(f) PROVE FALSE
      <4>1. g = f BY <1>8, <3>1, RankFacts
      <4>2. ToMe(w, 1, f) BY <1>6, <3>1, <4>1
      <4> QED BY <1>4, <1>8, <2>1, <4>2
    <3> QED BY <1>8, <3>1, RankFacts
  <2>4. PICK r \in {1, 2} : r = Rank(f) BY <2>3
  <2>5. ~Got(r)' BY <1>3, <2>2, <2>3, <2>4
  <2> QED BY <2>4, <2>5 DEF Rank, R3, R4, KeysOnce
<1>9. ASSUME NEW v \in Threads, NEW u \in Threads, NEW i, NEW k, NEW f,
             ToMe(v, i, f)', ToMe(u, k, f)', f \in {R3, R4}
      PROVE  v = u /\ i = k
  <2>1. PICK a : ToMe(v, a, f) /\ a = IF v = w THEN i + 1 ELSE i BY <1>7, <1>9
  <2>2. PICK b : ToMe(u, b, f) /\ b = IF u = w THEN k + 1 ELSE k BY <1>7, <1>9
  <2>3. v = u /\ a = b BY <1>4, <1>9, <2>1, <2>2
  <2>4. v = w => i \in Int /\ k \in Int BY <1>5, <1>9, <2>3
  <2> QED BY <2>1, <2>2, <2>3, <2>4
<1>10. ASSUME NEW v \in Threads, NEW i, ToMe(v, i, R4)' PROVE Got(1)'
  <2>1. PICK k : ToMe(v, k, R4) BY <1>7, <1>10
  <2> QED BY <1>3, <1>4, <2>1
<1>11. ASSUME NEW v \in Threads, NEW i, NEW f, ToMe(v, i, f)', f.type = "Complete"
       PROVE  Got(2)' \/ \E k : k < i /\ ToMe(v, k, R4)'
  <2>1. PICK a : ToMe(v, a, f) /\ a = IF v = w THEN i + 1 ELSE i BY <1>7, <1>11
  <2>2. CASE Got(2) BY <1>3, <2>2
  <2>3. ASSUME NEW k, k < a, ToMe(v, k, R4)
        PROVE  Got(2)' \/ \E h : h < i /\ ToMe(v, h, R4)'
    <3>1. CASE v # w
      BY <1>5, <2>1, <2>3, <3>1
    <3>2. CASE v = w /\ k = 1
      <4>1. task[w][1] = <<me, R4>> BY <2>3, <3>2 DEF ToMe
      <4>2. to = me /\ g = R4 BY <1>2, <4>1
      <4> QED BY <1>3, <4>2, RankFacts
    <3>3. CASE v = w /\ k # 1
      <4>1. k \in 1..Len(task[w]) /\ i \in Int /\ a = i + 1
        BY <1>5, <1>11, <2>1, <2>3, <3>3 DEF ToMe
      <4>2. PICK h : h = k - 1 OBVIOUS
      <4>3. h \in Int /\ h + 1 = k /\ k \in 2..Len(task[w]) /\ h < i BY <2>3, <3>3, <4>1, <4>2
      <4>4. ToMe(v, h, R4)' BY <1>5, <2>3, <3>3, <4>3
      <4> QED BY <4>3, <4>4
    <3> QED BY <3>1, <3>2, <3>3
  <2> QED BY <1>4, <1>11, <2>1, <2>2, <2>3
<1>12. ASSUME issued' # <<>> PROVE Got(1)' \/ \E v \in Threads : \E i : ToMe(v, i, R3)'
  <2>1. CASE Got(1) BY <1>3, <2>1
  <2>2. ASSUME NEW v \in Threads, NEW i, ToMe(v, i, R3)
        PROVE  Got(1)' \/ \E u \in Threads : \E k : ToMe(u, k, R3)'
    <3>1. CASE v # w BY <1>5, <2>2, <3>1
    <3>2. CASE v = w /\ i = 1
      <4>1. task[w][1] = <<me, R3>> BY <2>2, <3>2 DEF ToMe
      <4>2. to = me /\ g = R3 BY <1>2, <4>1
      <4> QED BY <1>3, <4>2, RankFacts
    <3>3. CASE v = w /\ i # 1
      <4>1. i \in 1..Len(task[w]) BY <2>2, <3>3 DEF ToMe
      <4>2. PICK h : h = i - 1 OBVIOUS
      <4>3. h \in Int /\ h + 1 = i /\ i \in 2..Len(task[w]) BY <1>1, <3>3, <4>1, <4>2
      <4>4. ToMe(v, h, R3)' BY <1>5, <2>2, <3>3, <4>3
      <4> QED BY <4>4
    <3> QED BY <3>1, <3>2, <3>3
  <2> QED BY <1>1, <1>4, <1>12, <2>1, <2>2
<1> QED BY <1>8, <1>9, <1>10, <1>11, <1>12 DEF TaskInv

LEMMA AsideKeeps ==
  ASSUME TradeInv, Aside, NEW u \in Threads, NEW i \in 1..Len(task[u])
  PROVE  i \in 1..Len(task'[u]) /\ task'[u][i] = task[u][i]
<1>1. task \in [Threads -> Seq(Jobs)] /\ Len(<<>>) = 0 BY DEF TradeInv, Types
<1>2. CASE UNCHANGED task BY <1>2
<1>3. ASSUME NEW w \in Threads, NEW n, task[w] = <<>>, task' = [task EXCEPT ![w] = n]
      PROVE  i \in 1..Len(task'[u]) /\ task'[u][i] = task[u][i]
  <2>1. u # w BY <1>1, <1>3
  <2>2. task'[u] = task[u] BY <1>1, <1>3, <2>1
  <2> QED BY <2>2
<1> QED BY <1>2, <1>3 DEF Aside

\* A step that leaves the jobs about receipts alone.
LEMMA TaskSame ==
  ASSUME TaskInv, UNCHANGED <<me, issued>>, member' => member,
         \A r \in {1, 2} : Got(r)' <=> Got(r),
         \A u \in Threads : \A i, f :
            f \in {R3, R4} \/ f.type = "Complete" => (ToMe(u, i, f)' <=> ToMe(u, i, f))
  PROVE  TaskInv'
<1> SUFFICES ASSUME member PROVE TaskInv' BY DEF TaskInv
<1>1. /\ \A v \in Threads : \A i, f : ToMe(v, i, f) /\ f \in {R3, R4} => ~Got(Rank(f))
      /\ \A v, u \in Threads : \A i, k, f :
            ToMe(v, i, f) /\ ToMe(u, k, f) /\ f \in {R3, R4} => v = u /\ i = k
      /\ \A v \in Threads : \A i : ToMe(v, i, R4) => Got(1)
      /\ \A v \in Threads : \A i, f : ToMe(v, i, f) /\ f.type = "Complete" =>
            Got(2) \/ \E k : k < i /\ ToMe(v, k, R4)
      /\ issued # <<>> => Got(1) \/ \E v \in Threads : \E i : ToMe(v, i, R3)
  BY DEF TaskInv
<1>2. ASSUME NEW v \in Threads, NEW i, NEW f, ToMe(v, i, f)', f \in {R3, R4}
      PROVE  ~Got(Rank(f))'
  <2>1. ~Got(Rank(f)) BY <1>1, <1>2
  <2>2. PICK r \in {1, 2} : r = Rank(f) BY <1>2, RankFacts
  <2>3. ~Got(r)' BY <2>1, <2>2
  <2> QED BY <2>2, <2>3 DEF Rank, R3, R4, KeysOnce
<1>3. ASSUME NEW v \in Threads, NEW u \in Threads, NEW i, NEW k, NEW f,
             ToMe(v, i, f)', ToMe(u, k, f)', f \in {R3, R4}
      PROVE  v = u /\ i = k
  <2>1. ToMe(v, i, f) /\ ToMe(u, k, f) BY <1>3
  <2> QED BY <1>1, <1>3, <2>1
<1>4. ASSUME NEW v \in Threads, NEW i, ToMe(v, i, R4)' PROVE Got(1)'
  <2>1. ToMe(v, i, R4) BY <1>4
  <2>2. Got(1) BY <1>1, <2>1
  <2> QED BY <2>2
<1>5. ASSUME NEW v \in Threads, NEW i, NEW f, ToMe(v, i, f)', f.type = "Complete"
      PROVE  Got(2)' \/ \E k : k < i /\ ToMe(v, k, R4)'
  <2>1. ToMe(v, i, f) BY <1>5
  <2>2. Got(2) \/ \E k : k < i /\ ToMe(v, k, R4) BY <1>1, <1>5, <2>1
  <2>3. \A k : ToMe(v, k, R4) => ToMe(v, k, R4)' OBVIOUS
  <2> QED BY <2>2, <2>3
<1>6. ASSUME issued' # <<>> PROVE Got(1)' \/ \E v \in Threads : \E i : ToMe(v, i, R3)'
  <2>1. Got(1) \/ \E v \in Threads : \E i : ToMe(v, i, R3) BY <1>1, <1>6
  <2>2. \A v \in Threads : \A k : ToMe(v, k, R3) => ToMe(v, k, R3)' OBVIOUS
  <2> QED BY <2>1, <2>2
<1> QED BY <1>2, <1>3, <1>4, <1>5, <1>6 DEF TaskInv

LEMMA TaskAside ==
  ASSUME TradeInv, TaskInv, UNCHANGED <<me, down, chain, member>>, Aside
  PROVE  TaskInv'
<1>1. \A r \in {1, 2} : Got(r)' <=> Got(r) BY DEF Got, Gets
<1>2. ASSUME NEW u \in Threads, NEW i, NEW f, f \in {R3, R4} \/ f.type = "Complete"
      PROVE  ToMe(u, i, f)' <=> ToMe(u, i, f)
  <2>1. ASSUME ToMe(u, i, f) PROVE ToMe(u, i, f)'
    BY <2>1, AsideKeeps DEF ToMe
  <2>2. ASSUME ToMe(u, i, f)' PROVE ToMe(u, i, f)
    <3>1. i \in 1..Len(task'[u]) /\ task'[u][i] = <<me, f>> BY <2>2 DEF ToMe
    <3>2. Type(task'[u][i]) \notin {"TradeEphemeralKey", "Abort"}
      BY <1>2, <3>1, ReceiptNames DEF Type
    <3> QED BY <3>1, <3>2, AsideFacts DEF ToMe
  <2> QED BY <2>1, <2>2
<1> QED BY <1>1, <1>2, TaskSame DEF Aside

\* A call adds receipts that are new, and behind the last one the end.
LEMMA TaskCall ==
  ASSUME TradeInv, KnownInv, GateInv, ChainInv, TaskInv, UNCHANGED <<me, down, chain, member>>,
         NEW w \in Threads, task[w] = <<>>, Called(w)
  PROVE  TaskInv'
<1> SUFFICES ASSUME member PROVE TaskInv' BY DEF TaskInv
<1>1. \A r : Got(r)' <=> Got(r) BY DEF Got, Gets
<1>2. PICK s2 : s2 = session' OBVIOUS
<1>3. PICK n : Makes(w, n) BY CallMakes
<1>4. task'[w] = n /\ \A v \in Threads : v # w => task'[v] = task[v]
  BY <1>3 DEF Makes, TradeInv, Types
<1>5. PICK first : Tells(n, session, s2, first) BY <1>2, <1>3 DEF Makes
<1>6. /\ Due(session, s2) /\ s2.state = "Complete" =>
            /\ issued = <<3>> /\ issued' = <<3, 4>> /\ CanIssue
            /\ Receipt(Stage(s2)) = R4
      /\ Due(session, s2) /\ s2.state # "Complete" =>
            /\ issued = <<>> /\ issued' = <<3>> /\ CanIssue
            /\ Receipt(Stage(s2)) = R3
      /\ ~Due(session, s2) => issued' = issued
  BY <1>2, <1>3, CallReceipts
<1>7. /\ \A v \in Threads : \A i, f : ToMe(v, i, f) /\ f \in {R3, R4} => ~Got(Rank(f))
      /\ \A v, u \in Threads : \A i, k, f :
            ToMe(v, i, f) /\ ToMe(u, k, f) /\ f \in {R3, R4} => v = u /\ i = k
      /\ \A v \in Threads : \A i : ToMe(v, i, R4) => Got(1)
      /\ \A v \in Threads : \A i, f : ToMe(v, i, f) /\ f.type = "Complete" =>
            Got(2) \/ \E k : k < i /\ ToMe(v, k, R4)
      /\ issued # <<>> => Got(1) \/ \E v \in Threads : \E i : ToMe(v, i, R3)
  BY DEF TaskInv
<1>8. \A v \in Threads : \A i, f : v # w => (ToMe(v, i, f)' <=> ToMe(v, i, f))
  BY <1>4 DEF ToMe
<1>9. \A i, f : ToMe(w, i, f)' <=> i \in 1..Len(n) /\ n[i] = <<me, f>>
  BY <1>4 DEF ToMe
<1>10. \A i, f : ~ToMe(w, i, f)
  <2>1. Len(<<>>) = 0 OBVIOUS
  <2> QED BY <2>1 DEF ToMe
\* A receipt that does not exist yet is not held, and not under way.
<1>11. ASSUME NEW f \in {R3, R4}, ~Exists(f)
       PROVE  ~Got(Rank(f)) /\ \A v \in Threads : \A i : ~ToMe(v, i, f)
  <2>1. ASSUME Got(Rank(f)) PROVE FALSE
    <3>1. PICK r \in {1, 2} : r = Rank(f) BY RankFacts
    <3>2. CASE r <= Len(chain)
      BY <1>11, <3>1, <3>2, RankFacts, ReceiptNames, ReceiptChains DEF ChainInv
    <3>3. ASSUME NEW i \in 1..Len(down), Rank(down[i]) = r PROVE FALSE
      <4>1. down[i] = f BY <3>1, <3>3, RankFacts
      <4>2. Within(f, down) BY <4>1 DEF Within
      <4> QED BY <1>11, <4>2, ReceiptNames DEF KnownInv
    <3> QED BY <2>1, <3>1, <3>2, <3>3 DEF Got, Gets
  <2>2. ASSUME NEW v \in Threads, NEW i, ToMe(v, i, f) PROVE FALSE
    <3>1. Within(<<me, f>>, task[v]) BY <2>2 DEF ToMe, Within
    <3>2. PICK j : j = <<me, f>> OBVIOUS
    <3>3. Type(j) = "Receipt" /\ j[2] = f BY <3>2, ReceiptNames DEF Type
    <3> QED BY <1>11, <3>1, <3>2, <3>3 DEF KnownInv
  <2> QED BY <2>1, <2>2
<1>12. ASSUME NEW i, NEW f, ToMe(w, i, f)', f \in {R3, R4}
       PROVE  /\ ~Exists(f) /\ Due(session, s2) /\ i \in 1..Len(n) /\ n[i] = <<me, f>>
              /\ Type(n[i]) = "Receipt"
              /\ f = R4 => s2.state = "Complete"
  <2>1. i \in 1..Len(n) /\ n[i] = <<me, f>> BY <1>9, <1>12
  <2>2. Type(n[i]) = "Receipt" BY <1>12, <2>1, ReceiptNames DEF Type
  <2>3. Due(session, s2) /\ f = Receipt(Stage(s2)) BY <1>5, <2>1, <2>2 DEF Tells
  <2>4. CASE s2.state = "Complete"
    BY <1>6, <2>1, <2>2, <2>3, <2>4, ReceiptNames, Chains DEF Exists
  <2>5. CASE s2.state # "Complete"
    BY <1>6, <2>1, <2>2, <2>3, <2>5, ReceiptNames, Chains DEF Exists
  <2> QED BY <2>4, <2>5
<1>13. ASSUME NEW v \in Threads, NEW i, NEW f, ToMe(v, i, f)', f \in {R3, R4}
       PROVE  ~Got(Rank(f))'
  <2>1. ~Got(Rank(f))
    <3>1. CASE v = w BY <1>11, <1>12, <1>13, <3>1
    <3>2. CASE v # w BY <1>7, <1>8, <1>13, <3>2
    <3> QED BY <3>1, <3>2
  <2>2. PICK r \in {1, 2} : r = Rank(f) BY <1>13, RankFacts
  <2>3. ~Got(r)' BY <1>1, <2>1, <2>2
  <2> QED BY <2>2, <2>3 DEF Rank, R3, R4, KeysOnce
<1>14. ASSUME NEW v \in Threads, NEW u \in Threads, NEW i, NEW k, NEW f,
             ToMe(v, i, f)', ToMe(u, k, f)', f \in {R3, R4}
       PROVE  v = u /\ i = k
  <2>1. CASE v = w /\ u = w
    <3>1. /\ i \in 1..Len(n) /\ n[i] = <<me, f>> /\ Type(n[i]) = "Receipt"
          /\ k \in 1..Len(n) /\ n[k] = <<me, f>>
      BY <1>12, <1>14, <2>1
    <3>2. n[i] = n[k] BY <3>1
    <3> QED BY <1>5, <2>1, <3>1, <3>2 DEF Tells
  <2>2. CASE v = w /\ u # w
    BY <1>8, <1>11, <1>12, <1>14, <2>2
  <2>3. CASE v # w /\ u = w
    BY <1>8, <1>11, <1>12, <1>14, <2>3
  <2>4. CASE v # w /\ u # w
    <3>1. ToMe(v, i, f) /\ ToMe(u, k, f) BY <1>8, <1>14, <2>4
    <3> QED BY <1>7, <1>14, <3>1
  <2> QED BY <2>1, <2>2, <2>3, <2>4
<1>15. ASSUME NEW v \in Threads, NEW i, ToMe(v, i, R4)' PROVE Got(1)'
  <2>1. CASE v # w
    <3>1. ToMe(v, i, R4) BY <1>8, <1>15, <2>1
    <3> QED BY <1>1, <1>7, <3>1
  <2>2. CASE v = w
    <3>1. Due(session, s2) /\ s2.state = "Complete" BY <1>12, <1>15, <2>2
    <3>2. issued # <<>> BY <1>6, <3>1, Chains
    <3>3. ASSUME NEW u \in Threads, NEW k, ToMe(u, k, R3) PROVE FALSE
      <4>1. u # w BY <1>10, <3>3
      <4>2. ToMe(u, k, R3)' BY <1>8, <3>3, <4>1
      <4>3. Within(<<me, R3>>, task'[u]) BY <4>2 DEF ToMe, Within
      <4>4. PICK j : j = <<me, R3>> OBVIOUS
      <4>5. j[2] = R3 BY <4>4
      <4> QED BY <1>2, <3>1, <4>3, <4>4, <4>5, GateCall
    <3> QED BY <1>1, <1>7, <3>2, <3>3
  <2> QED BY <2>1, <2>2
<1>16. ASSUME NEW v \in Threads, NEW i, NEW f, ToMe(v, i, f)', f.type = "Complete"
       PROVE  Got(2)' \/ \E k : k < i /\ ToMe(v, k, R4)'
  <2>1. CASE v # w
    <3>1. ToMe(v, i, f) BY <1>8, <1>16, <2>1
    <3>2. Got(2) \/ \E k : k < i /\ ToMe(v, k, R4) BY <1>7, <1>16, <3>1
    <3> QED BY <1>1, <1>8, <2>1, <3>2
  <2>2. CASE v = w
    <3>1. i \in 1..Len(n) /\ Type(n[i]) = "Complete" BY <1>9, <1>16, <2>2 DEF Type
    <3>2. s2.state = "Complete" BY <1>5, <3>1 DEF Tells
    <3>3. Due(session, s2) /\ CanIssue /\ Receipt(Stage(s2)) = R4
      BY <1>6, <3>2 DEF Due
    <3>4. me \in Parties BY DEF TradeInv, Types
    <3>5. PICK k \in 1..Len(n) : n[k] = <<me, R4>> BY <1>5, <3>3, <3>4 DEF Tells
    <3>6. Type(n[k]) = "Receipt" BY <3>5, ReceiptNames DEF Type
    <3>7. k < i BY <1>5, <3>1, <3>5, <3>6 DEF Tells
    <3>8. ToMe(w, k, R4)' BY <1>9, <3>5
    <3> QED BY <2>2, <3>7, <3>8
  <2> QED BY <2>1, <2>2
<1>17. ASSUME issued' # <<>> PROVE Got(1)' \/ \E v \in Threads : \E i : ToMe(v, i, R3)'
  <2>1. CASE issued # <<>>
    <3>1. CASE Got(1) BY <1>1, <3>1
    <3>2. ASSUME NEW v \in Threads, NEW i, ToMe(v, i, R3)
          PROVE  \E u \in Threads : \E k : ToMe(u, k, R3)'
      <4>1. v # w BY <1>10, <3>2
      <4>2. ToMe(v, i, R3)' BY <1>8, <3>2, <4>1
      <4> QED BY <4>2
    <3> QED BY <1>7, <2>1, <3>1, <3>2
  <2>2. CASE issued = <<>>
    <3>1. Due(session, s2) /\ s2.state # "Complete" BY <1>6, <1>17, <2>2, Chains
    <3>2. CanIssue /\ Receipt(Stage(s2)) = R3 BY <1>6, <3>1
    <3>3. me \in Parties BY DEF TradeInv, Types
    <3>4. PICK k \in 1..Len(n) : n[k] = <<me, R3>> BY <1>5, <3>1, <3>2, <3>3 DEF Tells
    <3>5. ToMe(w, k, R3)' BY <1>9, <3>4
    <3> QED BY <3>5
  <2> QED BY <2>1, <2>2
<1> QED BY <1>13, <1>14, <1>15, <1>16, <1>17 DEF TaskInv

LEMMA TaskFrame ==
  ASSUME TradeInv, KnownInv, ChainInv, TaskInv, HandleFrame, [Next]_vars
  PROVE  TaskInv'
<1>1. UNCHANGED <<me, task, issued, member>>
  BY DEF HandleFrame, server
<1>2. \A r \in {1, 2} : Got(r)' <=> Got(r) BY ChainStep
<1>3. \A u \in Threads : \A i, f : ToMe(u, i, f)' <=> ToMe(u, i, f)
  BY <1>1 DEF ToMe
<1> QED BY <1>1, <1>2, <1>3, TaskSame

ReceiptInv == KnownInv /\ GateInv /\ ChainInv /\ TaskInv

LEMMA ReceiptStep ==
  ASSUME TradeInv, OneKey, ReceiptInv, [Next]_vars
  PROVE  ReceiptInv'
<1>1. KnownInv /\ GateInv /\ ChainInv /\ TaskInv BY DEF ReceiptInv
<1>2. KnownInv' BY <1>1, KnownStep
<1>3. GateInv' BY <1>1, GateStep
<1>4. ChainInv' BY <1>1, ChainStep
<1>5. TaskInv'
  <2>1. ASSUME NEW u \in Threads, MedEnqueue(u) PROVE TaskInv'
    BY <1>1, <2>1, TaskEnqueue
  <2>2. CASE HandleFrame
    BY <1>1, <2>2, TaskFrame
  <2>3. CASE LoseLink
    BY <2>3 DEF LoseLink, TaskInv
  <2>4. ASSUME UNCHANGED <<me, down, chain, member>>, Aside PROVE TaskInv'
    BY <1>1, <2>4, TaskAside
  <2>5. ASSUME UNCHANGED <<me, down, chain, member>>,
               NEW w \in Threads, task[w] = <<>>, Called(w)
        PROVE  TaskInv'
    BY <1>1, <2>5, TaskCall
  <2> QED BY <2>1, <2>2, <2>3, <2>4, <2>5, Moves
<1> QED BY <1>2, <1>3, <1>4, <1>5 DEF ReceiptInv

LEMMA ReceiptInit == Init => ReceiptInv
<1> SUFFICES ASSUME Init PROVE ReceiptInv OBVIOUS
<1>1. TradeInv BY TradeInit
<1>2. /\ issued = <<>> /\ chain = <<>> /\ down = <<>> /\ room = NoView
      /\ \A u \in Threads : task[u] = <<>>
      /\ keys = [p \in Parties |-> 0] /\ member = TRUE
  BY DEF Init
<1>3. Len(<<>>) = 0 OBVIOUS
<1>4. \A u \in Threads : \A j : ~Within(j, task[u]) BY <1>2, WithinNone
<1>5. \A f : ~Within(f, down) BY <1>2, WithinNone
<1>6. KnownInv BY <1>2, <1>4, <1>5 DEF KnownInv
<1>7. ASSUME NEW t, Heard(t) PROVE ~IsLast(t)
  <2>1. ~Posted(t) BY <1>5 DEF Posted
  <2>2. ~Signed(t) BY WithinNone DEF Init, Signed, Underway
  <2>3. t = NoTurn BY <1>7, <2>1, <2>2 DEF Init, Heard, NoView
  <2>4. session.terms.rounds \in Nat BY <1>1 DEF TradeInv, Types, Sessions
  <2> QED BY <2>3, <2>4 DEF IsLast, NoTurn
<1>8. GateInv
  <2>1. \A u \in Threads : \A i : ~(i \in 1..Len(task[u])) BY <1>2, <1>3
  <2> QED BY <1>4, <1>7, <2>1 DEF GateInv, GateTold, FeeHeard, FeeTold
<1>9. ChainInv
  BY <1>2, <1>3 DEF ChainInv, InOrder, NoView
<1>10. TaskInv
  <2>1. \A u \in Threads : \A i, f : ~ToMe(u, i, f) BY <1>2, <1>3 DEF ToMe
  <2> QED BY <1>2, <2>1 DEF TaskInv
<1> QED BY <1>6, <1>8, <1>9, <1>10 DEF ReceiptInv

\* Both receipts pass verify_receipt_chain.
LEMMA BothVerify == ChainVerifies(<<R3, R4>>)
<1>1. PICK c : c = <<R3, R4>> OBVIOUS
<1>2. c[1] = R3 /\ c[2] = R4 /\ DOMAIN c = {1, 2}
  BY <1>1
<1>3. R3.prev = [j \in 1..(1 - 1) |-> c[j].stage]
  <2>1. PICK q : q = [j \in 1..0 |-> c[j].stage] OBVIOUS
  <2>2. DOMAIN q = {} BY <2>1
  <2>3. q = <<>> BY <2>1, <2>2
  <2> QED BY <2>1, <2>3, ReceiptNames
<1>4. R4.prev = [j \in 1..(2 - 1) |-> c[j].stage]
  <2>1. PICK q : q = [j \in 1..1 |-> c[j].stage] OBVIOUS
  <2>2. q[1] = 3 BY <1>2, <2>1, ReceiptNames
  <2>3. q \in Seq(Nat) /\ Len(q) = 1 BY <1>2, <2>1, ReceiptNames
  <2>4. q = <<3>> BY <2>2, <2>3
  <2> QED BY <2>1, <2>4, ReceiptNames
<1>5. ASSUME NEW i \in DOMAIN c
      PROVE  /\ c[i].prev = [j \in 1..(i - 1) |-> c[j].stage]
             /\ c[i].keys = c[1].keys
             /\ i > 1 => c[i].stage > c[i - 1].stage
  <2>1. CASE i = 1 BY <1>2, <1>3, <2>1
  <2>2. CASE i = 2 BY <1>2, <1>4, <2>2, ReceiptNames
  <2> QED BY <1>2, <2>1, <2>2
<1>6. ChainVerifies(c) BY <1>5 DEF ChainVerifies
<1> QED BY <1>1, <1>6

\* A room that the client shows as complete has the receipts of the gate and
\* of the end, in the order of the chain, although different threads of the
\* mediator issue and send them (issue_receipt, Client::enqueue, handle_frame):
\* for every deal, with one key of each party.
THEOREM ReceiptsBeforeTheEnd ==
  OneKey => (Spec => []CompleteRoomsHaveReceipts)
<1> SUFFICES ASSUME OneKey PROVE Spec => []CompleteRoomsHaveReceipts
  OBVIOUS
<1>1. Init => ReceiptInv BY ReceiptInit
<1>2. TradeInv /\ ReceiptInv /\ [Next]_vars => ReceiptInv' BY ReceiptStep
<1>3. ReceiptInv => CompleteRoomsHaveReceipts
  <2> SUFFICES ASSUME ReceiptInv, room.status = "complete"
               PROVE  Len(chain) = 2 /\ ChainVerifies(chain)
    BY DEF CompleteRoomsHaveReceipts
  <2>1. Len(chain) = 2 /\ chain \in {<<>>, <<R3>>, <<R3, R4>>} BY DEF ReceiptInv, ChainInv
  <2>2. chain # <<>> BY <2>1, ReceiptChains
  <2>3. chain # <<R3>>
    <3>1. PICK q : q = <<R3>> OBVIOUS
    <3>2. Len(q) = 1 BY <3>1, ReceiptChains
    <3>3. chain # q BY <2>1, <3>2
    <3> QED BY <3>1, <3>3
  <2>4. chain = <<R3, R4>> BY <2>1, <2>2, <2>3
  <2> QED BY <2>1, <2>4, BothVerify
<1> QED BY <1>1, <1>2, <1>3, TradeSound, PTL DEF Spec

-----------------------------------------------------------------------------
(***************************************************************************)
(* The page offers to confirm a receipt only when there is one.  Every     *)
(* turn that anybody knows is one the trade has passed or its current one, *)
(* the current one is on its way to the page or shown, and "Sent" is for   *)
(* the current turn.                                                       *)
(***************************************************************************)
\* The turn of a session, in states of which current_turn is silent too.
Current(s) ==
    [round |-> s.round,
     sender |-> IF s.round = s.terms.rounds THEN "A"
                ELSE IF s.leg = 0 THEN FirstSenderForRound(s)
                ELSE OtherParty(FirstSenderForRound(s)),
     is_fee |-> s.round = s.terms.rounds]

Past(t, s) == \/ t.round < s.round
              \/ t.round = s.round /\ s.leg = 1 /\ t.sender = FirstSenderForRound(s)

\* The current turn has been announced.
Announced(s) == s.state \notin {"WaitingForPeer", "WaitingForFinalReceiptAck"}

Known(t) == Past(t, session) \/ (Announced(session) /\ t = Current(session))

Active(s) == s.state \in {"WaitingForSent", "WaitingForReceived", "WaitingForFeeSent",
                          "WaitingForFeeConfirmation"}

LEMMA SamePlace ==
  ASSUME NEW s, NEW s2, Kept(s, s2), Stays(s, s2)
  PROVE  Current(s2) = Current(s) /\ \A t : Past(t, s2) <=> Past(t, s)
BY DEF Kept, Stays, Current, Past, FirstSenderForRound

LEMMA MovedOn ==
  ASSUME NEW s \in Sessions, NEW s2 \in Sessions, Kept(s, s2), GoesOn(s, s2),
         s.round < s.terms.rounds, NEW t, t.round \in Int, Past(t, s) \/ t = Current(s)
  PROVE  Past(t, s2)
<1>1. s.round \in Nat /\ s2.round \in Nat /\ s.terms.rounds \in Nat BY DEF Sessions
<1>2. CASE s.leg = 0 /\ s2.leg = 1 /\ s2.round = s.round
  <2>1. FirstSenderForRound(s2) = FirstSenderForRound(s)
    BY <1>2 DEF Kept, FirstSenderForRound
  <2>2. CASE Past(t, s) BY <1>2, <2>1, <2>2 DEF Past
  <2>3. CASE t = Current(s)
    <3>1. t.round = s.round /\ t.sender = FirstSenderForRound(s)
      BY <1>1, <1>2, <2>3 DEF Current
    <3> QED BY <1>2, <2>1, <3>1 DEF Past
  <2> QED BY <2>2, <2>3
<1>3. CASE s.leg = 1 /\ s2.leg = 0 /\ s2.round = s.round + 1
  <2>1. t.round <= s.round BY <1>1 DEF Past, Current
  <2> QED BY <1>1, <1>3, <2>1 DEF Past
<1> QED BY <1>2, <1>3 DEF GoesOn

LEMMA PastIsPast ==
  ASSUME NEW s \in Sessions, SessionInv(s), NEW t, Past(t, s)
  PROVE  t # Current(s)
<1> SUFFICES ASSUME t = Current(s) PROVE FALSE OBVIOUS
<1>1. s.round \in Nat /\ t.round = s.round BY DEF Current, Sessions
<1>2. s.leg = 1 /\ t.sender = FirstSenderForRound(s) BY <1>1 DEF Past
<1>3. s.round # s.terms.rounds BY <1>2 DEF SessionInv
<1>4. t.sender = OtherParty(FirstSenderForRound(s)) BY <1>2, <1>3 DEF Current
<1>5. FirstSenderForRound(s) \in Parties BY TurnFacts
<1> QED BY <1>2, <1>4, <1>5 DEF OtherParty, Parties

LEMMA CurrentFacts ==
  ASSUME NEW s \in Sessions, SessionInv(s), s.fee => s.position = "AfterLastRound"
  PROVE  /\ Current(s) \in Turns
         /\ s.state \in InTranche => s.round < s.terms.rounds /\ ~Current(s).is_fee
         /\ s.state \in InFee => s.round = s.terms.rounds /\ Current(s).is_fee
         /\ s.state \in {"WaitingForSent", "WaitingForReceived", "WaitingForFeeSent"} =>
               TurnOf(s) = Current(s) /\ CurrentSender(s) = Current(s).sender
<1>1. s.round \in Nat /\ s.terms.rounds \in Nat /\ s.leg \in {0, 1} BY DEF Sessions
<1>2. FirstSenderForRound(s) \in Parties BY TurnFacts
<1>3. Current(s) \in Turns BY <1>1, <1>2 DEF Current, Turns, OtherParty, Parties
<1>4. s.state \in InTranche => s.round < s.terms.rounds BY DEF SessionInv
<1>5. s.state \in InFee => s.round = s.terms.rounds BY DEF SessionInv, LateFee
<1>6. /\ Current(s).round = s.round /\ Current(s).is_fee = (s.round = s.terms.rounds)
      /\ Current(s).sender = IF s.round = s.terms.rounds THEN "A"
                             ELSE IF s.leg = 0 THEN FirstSenderForRound(s)
                             ELSE OtherParty(FirstSenderForRound(s))
  BY DEF Current
<1>7. CASE s.state \in InTranche
  <2>1. s.round # s.terms.rounds BY <1>1, <1>4, <1>7
  <2>2. CurrentSender(s) = Current(s).sender
    BY <1>6, <1>7, <2>1 DEF CurrentSender, InTranche
  <2>3. TurnOf(s) = Current(s) BY <1>7, <2>1, <2>2 DEF TurnOf, Current, InTranche
  <2> QED BY <1>3, <1>4, <1>6, <1>7, <2>1, <2>2, <2>3 DEF InTranche, InFee
<1>8. CASE s.state \in InFee
  <2>1. s.round = s.terms.rounds BY <1>5, <1>8
  <2>2. s.state = "WaitingForFeeSent" =>
           CurrentSender(s) = Current(s).sender /\ TurnOf(s) = Current(s)
    BY <2>1 DEF CurrentSender, Current, TurnOf
  <2> QED BY <1>3, <1>5, <1>6, <1>8, <2>1, <2>2 DEF InTranche, InFee
<1> QED BY <1>3, <1>7, <1>8 DEF InTranche, InFee

KnowInv ==
    /\ \A t : Heard(t) => t \in Turns /\ Known(t)
    /\ \A u \in Threads : \A j : Within(j, task[u]) /\ Type(j) = "Turn" =>
          /\ u \in Parties /\ Announced(session)
          /\ j[2].turn = Current(session)
          /\ session.state = "WaitingForReceived" => u # CurrentSender(session)

\* A valid signal is for the current turn.
LEMMA SignalIsCurrent ==
  ASSUME TradeInv, TurnsInv, KnowInv, NEW m, Heard(m), ValidSignal(session, m),
         session.state \in {"WaitingForSent", "WaitingForReceived", "WaitingForFeeSent"}
  PROVE  m = Current(session)
<1>1. session \in Sessions /\ SessionInv(session) BY DEF TradeInv, Types
<1>2. m.round = Current(session).round /\ m.sender = Current(session).sender
  BY <1>1, CurrentFacts DEF ValidSignal, TurnsInv, Current
<1>3. Past(m, session) => FALSE
  <2> SUFFICES ASSUME Past(m, session) PROVE FALSE OBVIOUS
  <2>1. m.round = session.round /\ session.round \in Nat
    BY <1>1, <1>2 DEF Current, Sessions
  <2>2. session.leg = 1 /\ m.sender = FirstSenderForRound(session)
    BY <2>1 DEF Past
  <2>3. session.round # session.terms.rounds BY <1>1, <2>2 DEF SessionInv
  <2>4. m.sender = OtherParty(FirstSenderForRound(session)) BY <1>2, <2>2, <2>3 DEF Current
  <2>5. FirstSenderForRound(session) \in Parties BY <1>1, TurnFacts
  <2> QED BY <2>2, <2>4, <2>5 DEF OtherParty, Parties
<1> QED BY <1>3 DEF KnowInv, Known

LEMMA SessionSteps ==
  ASSUME TradeInv, [Next]_vars
  PROVE  \/ UNCHANGED session
         \/ MedRemoves /\ Kept(session, session') /\ Stays(session, session')
            /\ session'.state = "Aborted"
         \/ \E w \in Threads : task[w] = <<>> /\ Called(w)
<1>1. ASSUME NEW w \in Threads, MedEnqueue(w) PROVE UNCHANGED session BY <1>1 DEF MedEnqueue
<1>2. ASSUME NEW w \in Threads, Announces(w) PROVE UNCHANGED session BY <1>2 DEF Announces
<1> QED BY <1>1, <1>2, RemoveFacts, ServerSteps

\* Only the parties' threads announce a turn.
LEMMA CallerIsParty ==
  ASSUME TradeInv, NEW w \in Threads, Called(w),
         session'.state \in {"WaitingForSent", "WaitingForFeeSent"}
  PROVE  w \in Parties
<1> SUFFICES ASSUME w \notin Parties PROVE FALSE OBVIOUS
<1>1. w # "B" BY DEF Parties
<1>2. session.state = "WaitingForFeeConfirmation"
  BY <1>1 DEF Called, Signalled, ConfirmAccepted
<1>3. Becomes(w, session, session') BY CallMakes
<1> QED BY <1>2, <1>3 DEF Becomes, Joins, Sends, PaysFee, Receives, Acks, Confirms, Aborts

\* Where a call leaves the turn.
LEMMA CallPlace ==
  ASSUME TradeInv, TurnsInv, NEW w \in Threads, Called(w)
  PROVE  LET s2 == session' IN
         /\ session \in Sessions /\ SessionInv(session)
         /\ s2 \in Sessions /\ SessionInv(s2) /\ Kept(session, s2)
         /\ s2.fee => s2.position = "AfterLastRound"
         /\ \/ /\ Stays(session, s2) /\ Announced(session) /\ Announced(s2)
               /\ s2.state \notin {"WaitingForSent", "WaitingForFeeSent"}
               /\ s2.state = "WaitingForReceived" => Sends(w, session, s2)
               /\ ~Receives(w, session, s2)
            \/ /\ Stays(session, s2) /\ ~Announced(session)
               /\ s2.state # "WaitingForReceived" /\ ~Sends(w, session, s2)
               /\ ~Receives(w, session, s2)
            \/ /\ Receives(w, session, s2) /\ Announced(session)
               /\ s2.state # "WaitingForReceived" /\ ~Sends(w, session, s2)
<1> DEFINE s2 == session'
<1>1. Becomes(w, session, s2) BY CallMakes
<1>2. /\ s2 \in Sessions /\ SessionInv(s2) /\ Kept(session, s2)
      /\ session \in Sessions /\ SessionInv(session)
      /\ s2.fee => s2.position = "AfterLastRound"
  BY <1>1 DEF Becomes, Kept, TurnsInv, TradeInv, Types
<1>3. CASE Joins(session, s2)
  BY <1>2, <1>3 DEF Joins, Announced, Sends, Receives
<1>4. CASE Sends(w, session, s2)
  BY <1>2, <1>4 DEF Sends, Announced, Receives
<1>5. CASE PaysFee(w, session, s2)
  <2>1. LateFee(session) BY <1>2, <1>5 DEF PaysFee, SessionInv, InFee, LateFee, TurnsInv
  <2> QED BY <1>2, <1>5, <2>1 DEF PaysFee, Announced, Receives
<1>6. CASE Receives(w, session, s2)
  BY <1>2, <1>6 DEF Receives, Announced, Sends
<1>7. CASE Acks(w, session, s2)
  BY <1>2, <1>7 DEF Acks, Announced, Sends, Receives
<1>8. CASE Confirms(w, session, s2)
  BY <1>2, <1>8 DEF Confirms, Announced, Receives
<1>9. CASE Aborts(session, s2)
  <2>1. ~Receives(w, session, s2) /\ ~Sends(w, session, s2) /\ Announced(s2)
    BY <1>9 DEF Aborts, Receives, Sends, Announced
  <2>2. s2.state = "Aborted" /\ Stays(session, s2) BY <1>9 DEF Aborts
  <2> QED BY <1>2, <2>1, <2>2
<1> QED BY <1>1, <1>3, <1>4, <1>5, <1>6, <1>7, <1>8, <1>9 DEF Becomes

\* A known turn stays known, and is passed once another one is announced.
LEMMA KnownOn ==
  ASSUME TradeInv, TurnsInv, NEW w \in Threads, Called(w), NEW t \in Turns, Known(t)
  PROVE  /\ Known(t)'
         /\ ~(Announced(session) /\ Stays(session, session')) => Past(t, session')
<1> DEFINE s2 == session'
<1>1. /\ session \in Sessions /\ SessionInv(session)
      /\ s2 \in Sessions /\ Kept(session, s2)
      /\ \/ /\ Stays(session, s2) /\ Announced(session) /\ Announced(s2)
         \/ /\ Stays(session, s2) /\ ~Announced(session)
         \/ Receives(w, session, s2) /\ Announced(session)
  BY CallPlace
<1>2. Known(t)' <=> Past(t, s2) \/ (Announced(s2) /\ t = Current(s2))
  BY DEF Known
<1>3. CASE Stays(session, s2) /\ Announced(session) /\ Announced(s2)
  BY <1>1, <1>2, <1>3, SamePlace DEF Known
<1>4. CASE Stays(session, s2) /\ ~Announced(session)
  BY <1>1, <1>2, <1>4, SamePlace DEF Known
<1>5. CASE Receives(w, session, s2) /\ Announced(session)
  <2>1. GoesOn(session, s2) /\ session.round < session.terms.rounds
    BY <1>1, <1>5 DEF Receives, SessionInv, InTranche
  <2>2. Past(t, session) \/ t = Current(session) BY DEF Known
  <2>3. t.round \in Int BY DEF Turns
  <2>4. Past(t, s2) BY <1>1, <2>1, <2>2, <2>3, MovedOn
  <2> QED BY <1>2, <2>4
<1> QED BY <1>1, <1>3, <1>4, <1>5

LEMMA KnowStep ==
  ASSUME TradeInv, TurnsInv, KnowInv, [Next]_vars
  PROVE  KnowInv'
<1>1. session \in Sessions /\ SessionInv(session) /\ task \in [Threads -> Seq(Jobs)]
  BY DEF TradeInv, Types
<1>2. ASSUME NEW t \in Turns, Known(t) PROVE Known(t)'
  <2>1. CASE UNCHANGED session BY <1>2, <2>1 DEF Known
  <2>2. CASE Kept(session, session') /\ Stays(session, session') /\ session'.state = "Aborted"
    <3>1. /\ Current(session') = Current(session)
          /\ Past(t, session') <=> Past(t, session)
      BY <2>2, SamePlace
    <3>2. Announced(session') BY <2>2 DEF Announced
    <3> QED BY <1>2, <3>1, <3>2 DEF Known
  <2>3. ASSUME NEW w \in Threads, Called(w) PROVE Known(t)'
    BY <1>2, <2>3, KnownOn
  <2> QED BY <2>1, <2>2, <2>3, SessionSteps
<1>3. ASSUME NEW t, Heard(t)' PROVE t \in Turns /\ Known(t)
  <2>1. CASE Heard(t) BY <2>1 DEF KnowInv
  <2>2. CASE t = NoTurn
    <3>1. session.round \in Nat BY <1>1 DEF Sessions
    <3> QED BY <2>2, <3>1 DEF NoTurn, Turns, Parties, Known, Past
  <2>3. ASSUME NEW u \in Threads, MedEnqueue(u), Type(task[u][1]) = "Turn",
               task[u][1][2].turn = t
        PROVE  t \in Turns /\ Known(t)
    <3>1. task[u] # <<>> /\ task[u] \in Seq(Jobs) /\ Head(task[u]) = task[u][1]
          /\ task[u][1] \in Jobs
      BY <2>3, EnqueueFacts DEF TradeInv, Types
    <3>2. Within(task[u][1], task[u]) BY <3>1, WithinTail
    <3>3. Known(t) BY <2>3, <3>2 DEF KnowInv, Known
    <3>4. t \in Turns BY <2>3, <3>1 DEF Jobs, Downs, Receipts, Plain, Type
    <3> QED BY <3>3, <3>4
  <2> QED BY <1>3, <2>1, <2>2, <2>3, HeardStep
<1>4. ASSUME NEW u \in Threads, NEW j, Within(j, task'[u]), Type(j) = "Turn"
      PROVE  /\ u \in Parties /\ Announced(session')
             /\ j[2].turn = Current(session')
             /\ session'.state = "WaitingForReceived" => u # CurrentSender(session')
  <2>1. ASSUME Within(j, task[u])
        PROVE  /\ u \in Parties /\ Announced(session)
               /\ j[2].turn = Current(session)
               /\ session.state = "WaitingForReceived" => u # CurrentSender(session)
    BY <1>4, <2>1 DEF KnowInv
  <2>2. ASSUME NEW w \in Threads, task[w] = <<>>, Called(w)
        PROVE  /\ u \in Parties /\ Announced(session')
               /\ j[2].turn = Current(session')
               /\ session'.state = "WaitingForReceived" => u # CurrentSender(session')
    <3> DEFINE s2 == session'
    <3>1. PICK n : Makes(w, n) BY <2>2, CallMakes
    <3>2. task'[w] = n /\ \A v \in Threads : v # w => task'[v] = task[v]
      BY <1>1, <3>1 DEF Makes
    <3>3. /\ s2 \in Sessions /\ SessionInv(s2) /\ Kept(session, s2)
          /\ s2.fee => s2.position = "AfterLastRound"
          /\ \/ /\ Stays(session, s2) /\ Announced(session) /\ Announced(s2)
                /\ s2.state = "WaitingForReceived" => Sends(w, session, s2)
             \/ /\ Stays(session, s2) /\ ~Announced(session)
             \/ Receives(w, session, s2) /\ Announced(session)
      BY <2>2, CallPlace
    <3>4. CASE u = w
      <4>1. s2.state \in {"WaitingForSent", "WaitingForFeeSent"} /\ j[2] = TurnFrame(s2)
        BY <1>4, <3>1, <3>2, <3>4 DEF Makes, Tells, Within
      <4>2. j[2].turn = TurnOf(s2) BY <4>1 DEF TurnFrame
      <4>3. TurnOf(s2) = Current(s2) BY <3>3, <4>1, CurrentFacts
      <4>4. u \in Parties BY <2>2, <3>4, <4>1, CallerIsParty
      <4> QED BY <4>1, <4>2, <4>3, <4>4 DEF Announced
    <3>5. CASE u # w
      <4>1. /\ u \in Parties /\ Announced(session)
            /\ j[2].turn = Current(session)
            /\ session.state = "WaitingForReceived" => u # CurrentSender(session)
        BY <1>4, <2>1, <3>2, <3>5
      <4>2. CASE /\ Stays(session, s2) /\ Announced(s2)
                 /\ s2.state = "WaitingForReceived" => Sends(w, session, s2)
        <5>1. Current(s2) = Current(session) BY <3>3, <4>2, SamePlace
        <5>2. ASSUME s2.state = "WaitingForReceived" PROVE u # CurrentSender(s2)
          <6>1. Sends(w, session, s2) BY <4>2, <5>2
          <6>2. CurrentSender(s2) = CurrentSender(session)
            BY <3>3, <6>1 DEF Sends, Kept, Stays, CurrentSender, FirstSenderForRound
          <6> QED BY <3>5, <6>1, <6>2 DEF Sends
        <5> QED BY <4>1, <4>2, <5>1, <5>2
      <4>3. CASE Receives(w, session, s2)
        <5>1. u # CurrentSender(session) /\ w = OtherParty(CurrentSender(session))
          BY <4>1, <4>3 DEF Receives
        <5>2. CurrentSender(session) \in Parties BY <1>1, TurnFacts
        <5> QED BY <3>5, <4>1, <5>1, <5>2 DEF OtherParty, Parties
      <4> QED BY <3>3, <4>1, <4>2, <4>3
    <3> QED BY <3>4, <3>5
  <2>3. CASE ~\E w \in Threads : task[w] = <<>> /\ Called(w)
    <3>1. Within(j, task[u]) BY <1>4, <2>3, TaskStep
    <3>2. CASE UNCHANGED session BY <2>1, <3>1, <3>2
    <3>3. CASE Kept(session, session') /\ Stays(session, session') /\ session'.state = "Aborted"
      <4>1. Current(session') = Current(session) BY <3>3, SamePlace
      <4> QED BY <2>1, <3>1, <3>3, <4>1 DEF Announced
    <3> QED BY <2>3, <3>2, <3>3, SessionSteps
  <2> QED BY <2>2, <2>3
<1> QED BY <1>2, <1>3, <1>4 DEF KnowInv

LEMMA KnowInit == Init /\ FeesComeLast => KnowInv
<1> SUFFICES ASSUME Init, FeesComeLast PROVE KnowInv OBVIOUS
<1>1. session.round \in Nat BY TradeInit DEF TradeInv, Types, Sessions
<1>2. NoTurn \in Turns /\ Known(NoTurn)
  BY <1>1 DEF NoTurn, Turns, Parties, Known, Past
<1>3. ASSUME NEW t, Heard(t) PROVE t = NoTurn
  <2>1. ~Posted(t) BY WithinNone DEF Init, Posted
  <2>2. ~Signed(t) BY WithinNone DEF Init, Signed, Underway
  <2> QED BY <1>3, <2>1, <2>2 DEF Init, Heard, NoView
<1>4. \A u \in Threads : \A j : ~Within(j, task[u])
  BY WithinNone DEF Init
<1> QED BY <1>2, <1>3, <1>4 DEF KnowInv

\* Where the jobs of the threads are after one of them has told its next.
LEMMA JobsMove ==
  ASSUME TradeInv, NEW w \in Threads, MedEnqueue(w)
  PROVE  /\ \A v \in Threads : \A i, f : ToMe(v, i, f)' =>
               \E k : /\ ToMe(v, k, f) /\ ~(v = w /\ k = 1) /\ i \in Int
                      /\ k = IF v = w THEN i + 1 ELSE i
         /\ \A v \in Threads : \A k, f : ToMe(v, k, f) =>
               \/ v = w /\ k = 1 /\ task[w][1] = <<me, f>>
               \/ \E i : ToMe(v, i, f)'
<1>1. /\ \A k \in 1..Len(task'[w]) : k + 1 \in 1..Len(task[w]) /\ task'[w][k] = task[w][k + 1]
      /\ \A v \in Threads : v # w => task'[v] = task[v]
      /\ Len(task[w]) \in Nat \ {0} /\ Len(task'[w]) = Len(task[w]) - 1
      /\ UNCHANGED me
  BY EnqueueFacts DEF TradeInv
<1>2. ASSUME NEW v \in Threads, NEW i, NEW f, ToMe(v, i, f)'
      PROVE  \E k : /\ ToMe(v, k, f) /\ ~(v = w /\ k = 1) /\ i \in Int
                    /\ k = IF v = w THEN i + 1 ELSE i
  <2>1. i \in 1..Len(task'[v]) /\ task'[v][i] = <<me, f>> BY <1>1, <1>2 DEF ToMe
  <2>2. CASE v = w
    <3>1. i + 1 \in 1..Len(task[w]) /\ task[w][i + 1] = <<me, f>> /\ i + 1 # 1 /\ i \in Int
      BY <1>1, <2>1, <2>2
    <3>2. ToMe(v, i + 1, f) BY <2>2, <3>1 DEF ToMe
    <3> QED BY <2>2, <3>1, <3>2
  <2>3. CASE v # w
    <3>1. ToMe(v, i, f) BY <1>1, <2>1, <2>3 DEF ToMe
    <3> QED BY <2>1, <2>3, <3>1
  <2> QED BY <2>2, <2>3
<1>3. ASSUME NEW v \in Threads, NEW k, NEW f, ToMe(v, k, f), ~(v = w /\ k = 1)
      PROVE  \E i : ToMe(v, i, f)'
  <2>1. CASE v # w
    <3>1. ToMe(v, k, f)' BY <1>1, <1>3, <2>1 DEF ToMe
    <3> QED BY <3>1
  <2>2. CASE v = w
    <3>1. k \in 1..Len(task[w]) /\ k # 1 /\ task[w][k] = <<me, f>> BY <1>3, <2>2 DEF ToMe
    <3>2. PICK i : i = k - 1 OBVIOUS
    <3>3. i \in 1..Len(task'[w]) /\ i + 1 = k BY <1>1, <3>1, <3>2
    <3>4. task'[w][i] = <<me, f>> BY <1>1, <3>1, <3>3
    <3>5. ToMe(v, i, f)' BY <1>1, <2>2, <3>3, <3>4 DEF ToMe
    <3> QED BY <3>5
  <2> QED BY <2>1, <2>2
<1>4. ASSUME NEW v \in Threads, NEW k, NEW f, ToMe(v, k, f)
      PROVE  (v = w /\ k = 1 /\ task[w][1] = <<me, f>>) \/ \E i : ToMe(v, i, f)'
  <2>1. v = w /\ k = 1 => task[w][1] = <<me, f>> BY <1>4 DEF ToMe
  <2> QED BY <1>3, <1>4, <2>1
<1> QED BY <1>2, <1>4

\* What a told job does to the frames under way to the client.
LEMMA DownMoves ==
  ASSUME TradeInv, NEW w \in Threads, MedEnqueue(w), member
  PROVE  \E to, g :
            /\ task[w][1] = <<to, g>> /\ g \in Downs /\ Within(<<to, g>>, task[w])
            /\ Len(down) \in Nat
            /\ \/ to # me /\ UNCHANGED down
               \/ /\ to = me /\ ToMe(w, 1, g)
                  /\ Len(down') = Len(down) + 1 /\ down'[Len(down) + 1] = g
                  /\ \A i \in 1..Len(down) : down'[i] = down[i]
<1>1. /\ task[w] # <<>> /\ task[w][1] \in Jobs /\ Len(task[w]) \in Nat \ {0}
      /\ Head(task[w]) = task[w][1]
      /\ down' = IF task[w][1][1] = me THEN Append(down, task[w][1][2]) ELSE down
      /\ task \in [Threads -> Seq(Jobs)] /\ down \in Seq(Downs)
  BY EnqueueFacts DEF TradeInv, Types
<1>2. PICK to, g : to = task[w][1][1] /\ g = task[w][1][2] /\ task[w][1] = <<to, g>> /\ g \in Downs
  BY <1>1 DEF Jobs
<1>3. Within(<<to, g>>, task[w]) BY <1>1, <1>2, WithinTail
<1>4. Len(down) \in Nat BY <1>1
<1>5. CASE to # me BY <1>1, <1>2, <1>3, <1>4, <1>5
<1>6. CASE to = me
  <2>1. down' = Append(down, g) BY <1>1, <1>2, <1>6
  <2>2. /\ Len(down') = Len(down) + 1 /\ down'[Len(down) + 1] = g
        /\ \A i \in 1..Len(down) : down'[i] = down[i]
    BY <1>1, <1>2, <2>1, AppendProperties
  <2>3. ToMe(w, 1, g) BY <1>1, <1>2, <1>6 DEF ToMe
  <2> QED BY <1>2, <1>3, <1>4, <1>6, <2>2, <2>3
<1> QED BY <1>5, <1>6

\* The first frame under way is handled.
LEMMA DownTail ==
  ASSUME TradeInv, HandleFrame
  PROVE  /\ down # <<>> /\ Len(down) \in Nat \ {0} /\ Len(down') = Len(down) - 1
         /\ \A i \in 1..Len(down') : i + 1 \in 1..Len(down) /\ down'[i] = down[i + 1]
         /\ down[1] \in Downs /\ room' = View(room, down[1])
         /\ UNCHANGED <<me, session, task, told, accepted, member>>
<1>1. down \in Seq(Downs) BY DEF TradeInv, Types
<1>2. down # <<>> /\ down' = Tail(down) /\ room' = View(room, Head(down)) /\ UNCHANGED member
  BY DEF HandleFrame, server
<1>3. /\ Len(down) \in Nat \ {0} /\ Len(Tail(down)) = Len(down) - 1
      /\ \A i \in 1..Len(Tail(down)) : i + 1 \in 1..Len(down) /\ Tail(down)[i] = down[i + 1]
      /\ down[1] \in Downs /\ Head(down) = down[1]
  BY <1>1, <1>2
<1>4. UNCHANGED <<me, session, task, told, accepted>>
  BY ClientKeepsServer DEF ClientStep
<1> QED BY <1>2, <1>3, <1>4

\* The current turn, told to the page or still to be told.
Now(f) == f.type = "Turn" /\ f.turn = Current(session)
NowJob == \E u \in Threads : \E i, f : ToMe(u, i, f) /\ Now(f)
NowAt(i) == i \in 1..Len(down) /\ Now(down[i])

NowComes == NowJob \/ (\E i : NowAt(i)) \/ room.turn \in {Current(session), NoTurn}

NowIsLast ==
    \A i \in 1..Len(down) : down[i].type = "Turn" /\ ~Now(down[i]) =>
        NowJob \/ \E k : k \in Int /\ i < k /\ NowAt(k)

LatestInv ==
    /\ \A t : Heard(t) => t = NoTurn \/ t.round \in Nat
    /\ member /\ Active(session) => NowComes /\ NowIsLast

\* Only turns of rounds are told.
LEMMA RoundsStep ==
  ASSUME TradeInv, TurnsInv, KnowInv, LatestInv, [Next]_vars, NEW t, Heard(t)'
  PROVE  t = NoTurn \/ t.round \in Nat
<1>1. CASE Heard(t) BY <1>1 DEF LatestInv
<1>2. ASSUME NEW u \in Threads, MedEnqueue(u), Type(task[u][1]) = "Turn",
             task[u][1][2].turn = t
      PROVE  t.round \in Nat
  <2>1. task[u] # <<>> /\ task[u] \in Seq(Jobs) /\ Head(task[u]) = task[u][1]
    BY <1>2, EnqueueFacts DEF TradeInv, Types
  <2>2. Within(task[u][1], task[u]) BY <2>1, WithinTail
  <2>3. t = Current(session) BY <1>2, <2>2 DEF KnowInv
  <2> QED BY <2>3 DEF Current, TradeInv, Types, Sessions
<1> QED BY <1>1, <1>2, HeardStep

LEMMA LatestEnqueue ==
  ASSUME TradeInv, KnowInv, NEW w \in Threads, MedEnqueue(w), member, NowComes, NowIsLast
  PROVE  NowComes' /\ NowIsLast'
<1>1. UNCHANGED <<me, session, room>>
  BY EnqueueFacts DEF TradeInv, worker
<1>2. \A f : Now(f)' <=> Now(f) BY <1>1 DEF Now
<1>3. PICK to, g :
            /\ task[w][1] = <<to, g>> /\ g \in Downs /\ Within(<<to, g>>, task[w])
            /\ Len(down) \in Nat
            /\ \/ to # me /\ UNCHANGED down
               \/ /\ to = me /\ ToMe(w, 1, g)
                  /\ Len(down') = Len(down) + 1 /\ down'[Len(down) + 1] = g
                  /\ \A i \in 1..Len(down) : down'[i] = down[i]
  BY DownMoves
<1>4. \A i : NowAt(i) => NowAt(i)'
  BY <1>2, <1>3 DEF NowAt
<1>m. PICK m \in Nat : m = Len(down) + 1 BY <1>3
<1>5. ASSUME NowJob PROVE NowJob' \/ NowAt(m)'
  <2>0. PICK u \in Threads : \E i, f : ToMe(u, i, f) /\ Now(f) BY <1>5 DEF NowJob
  <2>1. PICK i, f : ToMe(u, i, f) /\ Now(f) BY <2>0
  <2>2. CASE \E k : ToMe(u, k, f)' BY <1>2, <2>1, <2>2 DEF NowJob
  <2>3. CASE u = w /\ i = 1 /\ task[w][1] = <<me, f>>
    <3>1. to = me /\ g = f BY <1>3, <2>3
    <3>2. m \in 1..Len(down') /\ down'[m] = f BY <1>3, <1>m, <3>1
    <3> QED BY <1>2, <2>1, <3>2 DEF NowAt
  <2> QED BY <2>1, <2>2, <2>3, JobsMove
<1>6. NowComes' BY <1>1, <1>4, <1>5 DEF NowComes
<1>7. ASSUME NEW i \in 1..Len(down'), down'[i].type = "Turn", ~Now(down'[i])
      PROVE  NowJob' \/ \E k : k \in Int /\ i < k /\ NowAt(k)'
  <2>1. CASE i \in 1..Len(down)
    <3>1. down'[i] = down[i] BY <1>3, <2>1
    <3>2. NowJob \/ \E k : k \in Int /\ i < k /\ NowAt(k) BY <1>7, <2>1, <3>1 DEF NowIsLast
    <3>3. i < m BY <1>3, <1>m, <2>1
    <3> QED BY <1>4, <1>5, <3>2, <3>3
  <2>2. CASE i \notin 1..Len(down)
    <3>1. to = me /\ i = Len(down) + 1 /\ down'[i] = g BY <1>3, <1>7, <2>2
    <3>2. PICK j : j = <<to, g>> OBVIOUS
    <3>3. Within(j, task[w]) /\ Type(j) = "Turn" /\ j[2] = g BY <1>3, <1>7, <3>1, <3>2 DEF Type
    <3>4. g.turn = Current(session) BY <3>3 DEF KnowInv
    <3> QED BY <1>7, <3>1, <3>4 DEF Now
  <2> QED BY <2>1, <2>2
<1>8. NowIsLast' BY <1>2, <1>7 DEF NowIsLast
<1> QED BY <1>6, <1>8

LEMMA LatestHandle ==
  ASSUME TradeInv, HandleFrame, NowComes, NowIsLast
  PROVE  NowComes' /\ NowIsLast'
<1>1. /\ down # <<>> /\ Len(down) \in Nat \ {0} /\ Len(down') = Len(down) - 1
      /\ \A i \in 1..Len(down') : i + 1 \in 1..Len(down) /\ down'[i] = down[i + 1]
      /\ down[1] \in Downs /\ room' = View(room, down[1]) /\ room \in Views
      /\ UNCHANGED <<me, session, task>>
  BY DownTail DEF TradeInv, Types
<1>2. (\A f : Now(f)' <=> Now(f)) /\ (NowJob' <=> NowJob) BY <1>1 DEF Now, NowJob, ToMe
<1>3. ASSUME NEW k \in Int, NowAt(k), k # 1 PROVE NowAt(k - 1)'
  <2>1. k - 1 \in 1..Len(down') /\ (k - 1) + 1 = k BY <1>1, <1>3 DEF NowAt
  <2>2. down'[k - 1] = down[k] BY <1>1, <2>1
  <2> QED BY <1>2, <1>3, <2>1, <2>2 DEF NowAt
<1>4. NowComes'
  <2>1. CASE down[1].type = "Turn"
    <3>1. room'.turn = down[1].turn BY <1>1, <2>1 DEF View, Views
    <3>2. CASE Now(down[1]) BY <1>1, <3>1, <3>2 DEF Now, NowComes
    <3>3. CASE ~Now(down[1])
      <4>1. 1 \in 1..Len(down) BY <1>1
      <4>2. NowJob \/ \E k : k \in Int /\ 1 < k /\ NowAt(k) BY <2>1, <3>3, <4>1 DEF NowIsLast
      <4> QED BY <1>2, <1>3, <4>2 DEF NowComes
    <3> QED BY <3>2, <3>3
  <2>2. CASE down[1].type # "Turn"
    <3>1. room'.turn \in {room.turn, NoTurn} BY <1>1, <2>2 DEF View, Views, NoView
    <3>2. ~NowAt(1) BY <2>2 DEF NowAt, Now
    <3>3. \A k : NowAt(k) => k \in Int BY DEF NowAt
    <3> QED BY <1>1, <1>2, <1>3, <3>1, <3>2, <3>3 DEF NowComes
  <2> QED BY <2>1, <2>2
<1>5. ASSUME NEW i \in 1..Len(down'), down'[i].type = "Turn", ~Now(down'[i])
      PROVE  NowJob' \/ \E k : k \in Int /\ i < k /\ NowAt(k)'
  <2>1. i + 1 \in 1..Len(down) /\ down'[i] = down[i + 1] BY <1>1
  <2>2. NowJob \/ \E k : k \in Int /\ i + 1 < k /\ NowAt(k) BY <1>5, <2>1 DEF NowIsLast
  <2>3. ASSUME NEW k \in Int, i + 1 < k, NowAt(k) PROVE k - 1 \in Int /\ i < k - 1 /\ NowAt(k - 1)'
    BY <1>3, <2>1, <2>3
  <2> QED BY <1>2, <2>2, <2>3
<1>6. NowIsLast' BY <1>2, <1>5 DEF NowIsLast
<1> QED BY <1>4, <1>6

\* A call announces the turn it opens, and leaves the others alone.
LEMMA LatestCall ==
  ASSUME TradeInv, TurnsInv, UNCHANGED <<me, down>>, room'.turn \in {room.turn, NoTurn},
         NEW w \in Threads, task[w] = <<>>, Called(w), Active(session'),
         Active(session) => NowComes /\ NowIsLast
  PROVE  NowComes' /\ NowIsLast'
<1> DEFINE s2 == session'
<1>1. PICK n : Makes(w, n) BY CallMakes
<1>2. task'[w] = n /\ \A v \in Threads : v # w => task'[v] = task[v]
  BY <1>1 DEF Makes, TradeInv, Types
<1>3. CASE s2.state \in {"WaitingForSent", "WaitingForFeeSent"}
  <2>1. me \in Parties BY DEF TradeInv, Types
  <2>2. PICK i \in 1..Len(n) : n[i] = <<me, TurnFrame(s2)>>
    BY <1>1, <1>3, <2>1 DEF Makes, Tells
  <2>3. PICK f : f = TurnFrame(s2) OBVIOUS
  <2>4. f.type = "Turn" /\ f.turn = Current(s2)
    <3>1. s2 \in Sessions /\ SessionInv(s2) /\ (s2.fee => s2.position = "AfterLastRound")
      BY CallPlace
    <3>2. TurnOf(s2) = Current(s2) BY <1>3, <3>1, CurrentFacts
    <3> QED BY <2>3, <3>2 DEF TurnFrame
  <2>5. ToMe(w, i, f)' BY <1>2, <2>2, <2>3 DEF ToMe
  <2>6. Now(f)' BY <2>4 DEF Now
  <2>7. NowJob' BY <2>5, <2>6 DEF NowJob
  <2> QED BY <2>7 DEF NowComes, NowIsLast
<1>4. CASE s2.state \in {"WaitingForReceived", "WaitingForFeeConfirmation"}
  <2>1. Becomes(w, session, s2) BY <1>1 DEF Makes
  <2>2. Sends(w, session, s2) \/ PaysFee(w, session, s2)
    BY <1>4, <2>1 DEF Becomes, Joins, Receives, Acks, Confirms, Aborts
  <2>3. Active(session) /\ Stays(session, s2) BY <2>2 DEF Active, Sends, PaysFee
  <2>4. Current(s2) = Current(session) BY <2>1, <2>3, SamePlace DEF Becomes
  <2>5. \A f : Now(f)' <=> Now(f) BY <2>4 DEF Now
  <2>6. \A i : NowAt(i)' <=> NowAt(i) BY <2>5 DEF NowAt
  <2>7. NowJob => NowJob'
    <3> SUFFICES ASSUME NEW u \in Threads, NEW i, NEW f, ToMe(u, i, f), Now(f) PROVE NowJob'
      BY DEF NowJob
    <3>1. u # w
      <4>1. Len(<<>>) = 0 OBVIOUS
      <4> QED BY <4>1 DEF ToMe
    <3>2. ToMe(u, i, f)' BY <1>2, <3>1 DEF ToMe
    <3> QED BY <2>5, <3>2 DEF NowJob
  <2>8. NowComes /\ NowIsLast BY <2>3
  <2>9. NowComes' BY <2>4, <2>6, <2>7, <2>8 DEF NowComes
  <2>10. NowIsLast' BY <2>5, <2>6, <2>7, <2>8 DEF NowIsLast
  <2> QED BY <2>9, <2>10
<1> QED BY <1>3, <1>4 DEF Active

LEMMA LatestAside ==
  ASSUME TradeInv, UNCHANGED <<me, down>>, room'.turn \in {room.turn, NoTurn},
         Aside, Active(session'), NowComes, NowIsLast
  PROVE  NowComes' /\ NowIsLast'
<1>1. UNCHANGED session BY DEF Aside, Active
<1>2. \A f : Now(f)' <=> Now(f) BY <1>1 DEF Now
<1>3. \A i : NowAt(i)' <=> NowAt(i) BY <1>2 DEF NowAt
<1>4. ASSUME NEW u \in Threads, NEW i, NEW f, ToMe(u, i, f), Now(f) PROVE NowJob'
  <2>1. ToMe(u, i, f)' BY <1>4, AsideKeeps DEF ToMe
  <2> QED BY <1>2, <1>4, <2>1 DEF NowJob
<1>5. NowJob => NowJob' BY <1>4 DEF NowJob
<1>6. NowComes' BY <1>1, <1>3, <1>5 DEF NowComes
<1>7. NowIsLast' BY <1>2, <1>3, <1>5 DEF NowIsLast
<1> QED BY <1>6, <1>7

LEMMA LatestStep ==
  ASSUME TradeInv, TurnsInv, KnowInv, LatestInv, [Next]_vars
  PROVE  LatestInv'
<1>1. ASSUME member', Active(session') PROVE NowComes' /\ NowIsLast'
  <2>1. ASSUME NEW w \in Threads, MedEnqueue(w) PROVE NowComes' /\ NowIsLast'
    <3>1. UNCHANGED <<session, member>> BY <2>1 DEF MedEnqueue
    <3> QED BY <1>1, <2>1, <3>1, LatestEnqueue DEF LatestInv, Active
  <2>2. CASE HandleFrame
    <3>1. UNCHANGED <<session, member>> BY <2>2, DownTail
    <3> QED BY <1>1, <2>2, <3>1, LatestHandle DEF LatestInv, Active
  <2>3. CASE LoseLink BY <1>1, <2>3 DEF LoseLink
  <2>4. CASE ~HandleFrame /\ UNCHANGED <<down, chain, member>>
             /\ (Aside \/ \E w \in Threads : task[w] = <<>> /\ Called(w))
    <3>1. room'.turn \in {room.turn, NoTurn} BY <2>4, RoomStep DEF NoView
    <3>2. UNCHANGED <<me, down>> /\ member BY <1>1, <2>4, Moves
    <3>3. Active(session) => NowComes /\ NowIsLast BY <3>2 DEF LatestInv
    <3>4. CASE Aside
      <4>1. UNCHANGED session BY <1>1, <3>4 DEF Aside, Active
      <4> QED BY <1>1, <3>1, <3>2, <3>3, <3>4, <4>1, LatestAside DEF Active
    <3>5. ASSUME NEW w \in Threads, task[w] = <<>>, Called(w) PROVE NowComes' /\ NowIsLast'
      BY <1>1, <3>1, <3>2, <3>3, <3>5, LatestCall
    <3> QED BY <2>4, <3>4, <3>5
  <2> QED BY <2>1, <2>2, <2>3, <2>4, Moves
<1> QED BY <1>1, RoundsStep DEF LatestInv

LEMMA LatestInit == Init => LatestInv
<1> SUFFICES ASSUME Init PROVE LatestInv OBVIOUS
<1>1. ASSUME NEW t, Heard(t) PROVE t = NoTurn
  <2>1. ~Posted(t) BY WithinNone DEF Init, Posted
  <2>2. ~Signed(t) BY WithinNone DEF Init, Signed, Underway
  <2> QED BY <1>1, <2>1, <2>2 DEF Init, Heard, NoView
<1>2. ~Active(session) BY DEF Init, NewSession, Active
<1> QED BY <1>1, <1>2 DEF LatestInv

\* The other party has reported the transfer, and the page has not heard it.
SentJob(u, i) == \E f : ToMe(u, i, f) /\ f.type = "Sent"
SentAt(i) == i \in 1..Len(down) /\ down[i].type = "Sent"
Undelivered == (\E u \in Threads : \E i : SentJob(u, i)) \/ \E i : SentAt(i)

\* The user never confirmed a receipt before the page offered it.
Offered == \A a \in accepted : a.offered

\* Turn t may be confirmed if it is the current one.
OfferOk(t) ==
    session.state \in InTranche /\ t = Current(session) /\ t.sender = them =>
        session.state = "WaitingForReceived" /\ ~Undelivered

SentOnce ==
    /\ \A u, v \in Threads : \A i, k : SentJob(u, i) /\ SentJob(v, k) => u = v /\ i = k
    /\ \A i, k : SentAt(i) /\ SentAt(k) => i = k
    /\ \A u \in Threads : \A i, k : SentJob(u, i) => ~SentAt(k)

SentInTime ==
    Undelivered => \/ session.state = "Aborted"
                   \/ session.state = "WaitingForReceived" /\ CurrentSender(session) = them

OffersHold ==
    /\ room.peer_sent => OfferOk(room.turn)
    /\ \A f : Underway(f) /\ f.type = "Received" /\ f.offered => OfferOk(f.turn)

SentInv == member /\ Offered => SentOnce /\ SentInTime /\ OffersHold

LEMMA SentEnqueue ==
  ASSUME TradeInv, NEW w \in Threads, MedEnqueue(w), member, SentOnce
  PROVE  SentOnce' /\ (Undelivered' <=> Undelivered)
<1>1. PICK to, g :
            /\ task[w][1] = <<to, g>> /\ g \in Downs
            /\ Len(down) \in Nat
            /\ \/ to # me /\ UNCHANGED down
               \/ /\ to = me /\ ToMe(w, 1, g)
                  /\ Len(down') = Len(down) + 1 /\ down'[Len(down) + 1] = g
                  /\ \A i \in 1..Len(down) : down'[i] = down[i]
  BY DownMoves
<1>2. PICK m \in Nat : m = Len(down) + 1 BY <1>1
<1>3. \A i : SentAt(i) => SentAt(i)' /\ i # m
  BY <1>1, <1>2 DEF SentAt
<1>4. ASSUME NEW i, SentAt(i)'
      PROVE  SentAt(i) \/ (i = m /\ to = me /\ SentJob(w, 1))
  <2>1. CASE to # me BY <1>1, <1>4, <2>1 DEF SentAt
  <2>2. CASE to = me
    <3>1. i \in 1..Len(down) \/ i = m BY <1>1, <1>2, <1>4, <2>2 DEF SentAt
    <3>2. CASE i \in 1..Len(down) BY <1>1, <1>4, <2>2, <3>2 DEF SentAt
    <3>3. CASE i = m
      <4>1. g.type = "Sent" BY <1>1, <1>2, <1>4, <2>2, <3>3 DEF SentAt
      <4> QED BY <1>1, <2>2, <3>3, <4>1 DEF SentJob
    <3> QED BY <3>1, <3>2, <3>3
  <2> QED BY <2>1, <2>2
<1>5. ASSUME NEW v \in Threads, NEW i, SentJob(v, i)'
      PROVE  \E k : /\ SentJob(v, k) /\ ~(v = w /\ k = 1) /\ i \in Int
                    /\ k = IF v = w THEN i + 1 ELSE i
  <2>1. PICK f : ToMe(v, i, f)' /\ f.type = "Sent" BY <1>5 DEF SentJob
  <2>2. PICK k : /\ ToMe(v, k, f) /\ ~(v = w /\ k = 1) /\ i \in Int
                 /\ k = IF v = w THEN i + 1 ELSE i
    BY <2>1, JobsMove
  <2> QED BY <2>1, <2>2 DEF SentJob
<1>6. ASSUME NEW v \in Threads, NEW k, SentJob(v, k)
      PROVE  (\E i : SentJob(v, i)') \/ SentAt(m)'
  <2>1. PICK f : ToMe(v, k, f) /\ f.type = "Sent" BY <1>6 DEF SentJob
  <2>2. CASE \E i : ToMe(v, i, f)' BY <2>1, <2>2 DEF SentJob
  <2>3. CASE task[w][1] = <<me, f>>
    <3>1. to = me /\ g = f BY <1>1, <2>3
    <3>2. m \in 1..Len(down') /\ down'[m] = f BY <1>1, <1>2, <3>1
    <3> QED BY <2>1, <3>2 DEF SentAt
  <2> QED BY <2>1, <2>2, <2>3, JobsMove
<1>7. Undelivered' <=> Undelivered
  BY <1>3, <1>4, <1>5, <1>6 DEF Undelivered
<1>8. /\ \A u, v \in Threads : \A i, k : SentJob(u, i) /\ SentJob(v, k) => u = v /\ i = k
      /\ \A i, k : SentAt(i) /\ SentAt(k) => i = k
      /\ \A u \in Threads : \A i, k : SentJob(u, i) => ~SentAt(k)
  BY DEF SentOnce
<1>9. ASSUME NEW u \in Threads, NEW v \in Threads, NEW i, NEW k, SentJob(u, i)', SentJob(v, k)'
      PROVE  u = v /\ i = k
  <2>1. PICK a : /\ SentJob(u, a) /\ i \in Int
                 /\ a = IF u = w THEN i + 1 ELSE i
    BY <1>5, <1>9
  <2>2. PICK b : /\ SentJob(v, b) /\ k \in Int
                 /\ b = IF v = w THEN k + 1 ELSE k
    BY <1>5, <1>9
  <2>3. u = v /\ a = b BY <1>8, <2>1, <2>2
  <2> QED BY <2>1, <2>2, <2>3
<1>10. ASSUME NEW i, NEW k, SentAt(i)', SentAt(k)' PROVE i = k
  BY <1>4, <1>8, <1>10
<1>11. ASSUME NEW u \in Threads, NEW i, NEW k, SentJob(u, i)', SentAt(k)' PROVE FALSE
  <2>1. PICK a : SentJob(u, a) /\ ~(u = w /\ a = 1) BY <1>5, <1>11
  <2>2. SentAt(k) \/ SentJob(w, 1) BY <1>4, <1>11
  <2> QED BY <1>8, <2>1, <2>2
<1>12. SentOnce' BY <1>9, <1>10, <1>11 DEF SentOnce
<1> QED BY <1>7, <1>12

LEMMA SentHandle ==
  ASSUME TradeInv, HandleFrame, SentOnce
  PROVE  /\ SentOnce' /\ (Undelivered' => Undelivered)
         /\ down[1].type = "Sent" => Undelivered /\ ~Undelivered'
<1>1. /\ down # <<>> /\ Len(down) \in Nat \ {0} /\ Len(down') = Len(down) - 1
      /\ \A i \in 1..Len(down') : i + 1 \in 1..Len(down) /\ down'[i] = down[i + 1]
      /\ UNCHANGED <<me, session, task>>
  BY DownTail
<1>2. \A u \in Threads : \A i : SentJob(u, i)' <=> SentJob(u, i)
  BY <1>1 DEF SentJob, ToMe
<1>3. ASSUME NEW i, SentAt(i)' PROVE i \in Int /\ SentAt(i + 1) /\ i + 1 # 1
  <2>1. i \in 1..Len(down') /\ down'[i].type = "Sent" BY <1>3 DEF SentAt
  <2>2. i + 1 \in 1..Len(down) /\ down[i + 1].type = "Sent" /\ i \in Int /\ i + 1 # 1 BY <1>1, <2>1
  <2> QED BY <2>2 DEF SentAt
<1>4. /\ \A u, v \in Threads : \A i, k : SentJob(u, i) /\ SentJob(v, k) => u = v /\ i = k
      /\ \A i, k : SentAt(i) /\ SentAt(k) => i = k
      /\ \A u \in Threads : \A i, k : SentJob(u, i) => ~SentAt(k)
  BY DEF SentOnce
<1>5. Undelivered' => Undelivered BY <1>2, <1>3 DEF Undelivered
<1>6. ASSUME NEW i, NEW k, SentAt(i)', SentAt(k)' PROVE i = k
  <2>1. i \in Int /\ k \in Int /\ SentAt(i + 1) /\ SentAt(k + 1) BY <1>3, <1>6
  <2>2. i + 1 = k + 1 BY <1>4, <2>1
  <2> QED BY <2>1, <2>2
<1>7. SentOnce'
  <2>1. \A u, v \in Threads : \A i, k : SentJob(u, i)' /\ SentJob(v, k)' => u = v /\ i = k
    BY <1>2, <1>4
  <2>2. \A u \in Threads : \A i, k : SentJob(u, i)' => ~SentAt(k)'
    BY <1>2, <1>3, <1>4
  <2> QED BY <1>6, <2>1, <2>2 DEF SentOnce
<1>8. ASSUME down[1].type = "Sent" PROVE Undelivered /\ ~Undelivered'
  <2>1. SentAt(1) BY <1>1, <1>8 DEF SentAt
  <2>2. \A u \in Threads : \A i : ~SentJob(u, i)' BY <1>2, <1>4, <2>1
  <2>3. \A i : ~SentAt(i)' BY <1>3, <1>4, <2>1
  <2> QED BY <2>1, <2>2, <2>3 DEF Undelivered
<1> QED BY <1>5, <1>7, <1>8

\* Only the report of the other party puts "Sent" into a task.
LEMMA CallSent ==
  ASSUME TradeInv, UNCHANGED me, NEW w \in Threads, task[w] = <<>>, Called(w)
  PROVE  /\ \A v \in Threads : \A i : SentJob(v, i)' =>
               SentJob(v, i) \/ (v = w /\ i = 1 /\ Sends(w, session, session') /\ w = them)
         /\ \A v \in Threads : \A i : SentJob(v, i) => SentJob(v, i)'
<1>1. PICK n : Makes(w, n) BY CallMakes
<1>2. task'[w] = n /\ \A v \in Threads : v # w => task'[v] = task[v]
  BY <1>1 DEF Makes, TradeInv, Types
<1>3. PICK first : /\ Tells(n, session, session', first)
                   /\ \A i \in 1..Len(first) : Type(first[i]) = "Sent" =>
                        Sends(w, session, session') /\ first[i] = <<OtherParty(w), Frame("Sent")>>
                   /\ Sends(w, session, session') =>
                        Len(first) = 1 /\ first[1] = <<OtherParty(w), Frame("Sent")>>
  BY <1>1 DEF Makes
<1>4. \A v \in Threads : \A i : v # w => (SentJob(v, i)' <=> SentJob(v, i))
  BY <1>2 DEF SentJob, ToMe
<1>5. ASSUME NEW i, SentJob(w, i)' PROVE i = 1 /\ Sends(w, session, session') /\ w = them
  <2>1. PICK f : i \in 1..Len(n) /\ n[i] = <<me, f>> /\ f.type = "Sent"
    BY <1>2, <1>5 DEF SentJob, ToMe
  <2>2. Type(n[i]) = "Sent" BY <2>1 DEF Type
  <2>3. i \in 1..Len(first) /\ n[i] = first[i] BY <1>3, <2>1, <2>2 DEF Tells
  <2>4. Sends(w, session, session') /\ n[i] = <<OtherParty(w), Frame("Sent")>>
    BY <1>3, <2>2, <2>3
  <2>5. i = 1
    <3>1. Len(first) = 1 BY <1>3, <2>4
    <3>2. i \in 1..Len(first) BY <2>3
    <3> QED BY <3>1, <3>2
  <2>6. OtherParty(w) = me BY <2>1, <2>4
  <2>7. w \in Parties
    BY <2>4, TurnFacts DEF Sends, TradeInv, Types
  <2> QED BY <2>4, <2>5, <2>6, <2>7 DEF them, OtherParty, Parties
<1>6. \A i : ~SentJob(w, i)
  <2>1. Len(<<>>) = 0 OBVIOUS
  <2> QED BY <2>1 DEF SentJob, ToMe
<1> QED BY <1>4, <1>5, <1>6

\* A receipt of this client that the mediator takes was offered, so the report
\* it confirms has been delivered.
LEMMA ConfirmsWhatItHeard ==
  ASSUME TradeInv, TurnsInv, KnowInv, OffersHold, Offered', Called(me),
         Receives(me, session, session')
  PROVE  ~Undelivered
<1>1. PICK m \in Turns : ValidSignal(session, m) /\ Signalled(me, "Received", m)
  <2>1. me \in Threads BY DEF TradeInv, Types, Parties, Threads
  <2> QED BY <2>1, CallFacts
<1>2. up \in Seq(Ups) /\ me \in Parties /\ session \in Sessions /\ SessionInv(session)
  BY DEF TradeInv, Types
<1>3. PICK f : f = Head(up) OBVIOUS
<1>4. /\ up # <<>> /\ f.type = "Received" /\ f.turn = m
      /\ accepted' = accepted \cup {[type |-> "Received", turn |-> m, at |-> TurnOf(session),
                                     offered |-> f.offered]}
  BY <1>1, <1>3 DEF Signalled, SignalTaken
<1>5. f.offered
  <2>1. PICK a : a = [type |-> "Received", turn |-> m, at |-> TurnOf(session),
                      offered |-> f.offered]
    OBVIOUS
  <2>2. a \in accepted' /\ a.offered = f.offered BY <1>4, <2>1
  <2> QED BY <2>2 DEF Offered
<1>6. Underway(f) BY <1>2, <1>3, <1>4, WithinTail DEF Underway
<1>7. OfferOk(m) BY <1>4, <1>5, <1>6 DEF OffersHold
<1>8. Heard(m) BY <1>4, <1>6 DEF Heard, Signed, Clicks
<1>9. session.state = "WaitingForReceived" /\ me = OtherParty(CurrentSender(session))
  BY DEF Receives
<1>10. m = Current(session) BY <1>1, <1>8, <1>9, SignalIsCurrent
<1>11. m.sender = CurrentSender(session) /\ CurrentSender(session) \in Parties
  BY <1>2, <1>9, <1>10, CurrentFacts, TurnFacts DEF TurnsInv
<1>12. m.sender = them BY <1>2, <1>9, <1>11 DEF them, OtherParty, Parties
<1> QED BY <1>7, <1>9, <1>10, <1>12 DEF OfferOk, InTranche

LEMMA SentCall ==
  ASSUME TradeInv, TurnsInv, KnowInv, SentOnce, SentInTime, OffersHold, Offered',
         UNCHANGED <<me, down>>, NEW w \in Threads, task[w] = <<>>, Called(w)
  PROVE  /\ SentOnce' /\ SentInTime'
         /\ \A t : Heard(t) /\ OfferOk(t) => OfferOk(t)'
<1> DEFINE s2 == session'
<1>1. Becomes(w, session, s2) BY CallMakes
<1>2. /\ session \in Sessions /\ SessionInv(session)
      /\ s2 \in Sessions /\ SessionInv(s2) /\ Kept(session, s2)
  BY CallPlace
<1>3. UNCHANGED them /\ \A i : SentAt(i)' <=> SentAt(i) BY DEF them, SentAt
<1>4. CASE Sends(w, session, s2)
  <2>1. ~Undelivered BY <1>4 DEF SentInTime, Sends
  <2>2. /\ \A i : ~SentAt(i)'
        /\ \A v \in Threads : \A i : SentJob(v, i)' => v = w /\ i = 1 /\ w = them
    BY <1>3, <2>1, CallSent DEF Undelivered
  <2>3. SentOnce' BY <2>2 DEF SentOnce
  <2>4. CurrentSender(s2) = CurrentSender(session) /\ Current(s2) = Current(session)
    BY <1>2, <1>4, SamePlace DEF Sends, Kept, Stays, CurrentSender, FirstSenderForRound
  <2>5. SentInTime'
    <3>1. Undelivered' => w = them BY <2>2 DEF Undelivered
    <3> QED BY <1>3, <1>4, <2>4, <3>1 DEF SentInTime, Sends
  <2>6. ASSUME NEW t, OfferOk(t) PROVE OfferOk(t)'
    <3>1. ~(t = Current(session) /\ t.sender = them)
      BY <1>4, <2>6 DEF OfferOk, Sends, InTranche
    <3> QED BY <1>3, <2>4, <3>1 DEF OfferOk
  <2> QED BY <2>3, <2>5, <2>6
<1>5. CASE ~Sends(w, session, s2)
  <2>1. \A v \in Threads : \A i : SentJob(v, i)' <=> SentJob(v, i)
    BY <1>5, CallSent
  <2>2. Undelivered' <=> Undelivered BY <1>3, <2>1 DEF Undelivered
  <2>3. SentOnce' BY <1>3, <2>1 DEF SentOnce
  <2>4. ASSUME Undelivered PROVE s2.state = "Aborted"
    <3>1. session.state # "Aborted"
      BY <1>1 DEF Becomes, Joins, Sends, PaysFee, Receives, Acks, Confirms, Aborts
    <3>2. session.state = "WaitingForReceived" /\ CurrentSender(session) = them
      BY <2>4, <3>1 DEF SentInTime
    <3>3. ~Receives(w, session, s2)
      <4>1. ASSUME Receives(w, session, s2) PROVE FALSE
        <5>1. w = me
          BY <3>2, <4>1 DEF Receives, them, OtherParty, Parties, TradeInv, Types
        <5> QED BY <2>4, <4>1, <5>1, ConfirmsWhatItHeard
      <4> QED BY <4>1
    <3> QED BY <1>1, <3>2, <3>3
            DEF Becomes, Joins, Sends, PaysFee, Acks, Confirms, Aborts
  <2>5. SentInTime' BY <2>2, <2>4 DEF SentInTime
  <2>6. ASSUME NEW t, Heard(t), s2.state \in InTranche PROVE t # Current(s2)
    <3>1. t \in Turns /\ Known(t) BY <2>6 DEF KnowInv
    <3>2. ~(Announced(session) /\ Stays(session, s2))
      <4>1. CASE Stays(session, s2) /\ Announced(session)
        <5>1. \/ /\ s2.state \notin {"WaitingForSent", "WaitingForFeeSent"}
                 /\ s2.state = "WaitingForReceived" => Sends(w, session, s2)
              \/ Receives(w, session, s2)
          BY <4>1, CallPlace
        <5>2. CASE Receives(w, session, s2)
          <6>1. session.round \in Nat BY <1>2 DEF Sessions
          <6> QED BY <4>1, <5>2, <6>1 DEF Receives, GoesOn, Stays
        <5> QED BY <1>5, <2>6, <5>1, <5>2 DEF InTranche
      <4> QED BY <4>1
    <3>3. Past(t, s2) BY <3>1, <3>2, KnownOn
    <3> QED BY <1>2, <3>3, PastIsPast
  <2>7. ASSUME NEW t, Heard(t) PROVE OfferOk(t)'
    BY <2>6, <2>7 DEF OfferOk
  <2> QED BY <2>3, <2>5, <2>7
<1> QED BY <1>4, <1>5

LEMMA SentAside ==
  ASSUME TradeInv, SentOnce, SentInTime, UNCHANGED <<me, down>>, Aside
  PROVE  /\ SentOnce' /\ SentInTime'
         /\ \A t : OfferOk(t) => OfferOk(t)'
<1>1. UNCHANGED them /\ \A i : SentAt(i)' <=> SentAt(i) BY DEF them, SentAt
<1>2. ASSUME NEW v \in Threads, NEW i PROVE SentJob(v, i)' <=> SentJob(v, i)
  <2>1. ASSUME NEW f, f.type = "Sent", ToMe(v, i, f)' PROVE ToMe(v, i, f)
    <3>1. i \in 1..Len(task'[v]) /\ task'[v][i] = <<me, f>> BY <2>1 DEF ToMe
    <3>2. Type(task'[v][i]) = "Sent" BY <2>1, <3>1 DEF Type
    <3> QED BY <3>1, <3>2, AsideFacts DEF ToMe
  <2>2. ASSUME NEW f, ToMe(v, i, f) PROVE ToMe(v, i, f)'
    BY <2>2, AsideKeeps DEF ToMe
  <2> QED BY <2>1, <2>2 DEF SentJob
<1>3. Undelivered' <=> Undelivered BY <1>1, <1>2 DEF Undelivered
<1>4. SentOnce' BY <1>1, <1>2 DEF SentOnce
<1>5. CASE UNCHANGED session
  BY <1>1, <1>3, <1>4, <1>5 DEF SentInTime, OfferOk
<1>6. CASE session'.state = "Aborted"
  BY <1>1, <1>3, <1>4, <1>6 DEF SentInTime, OfferOk, InTranche
<1> QED BY <1>5, <1>6 DEF Aside

LEMMA AcceptedGrows ==
  ASSUME TradeInv, [Next]_vars
  PROVE  accepted \subseteq accepted'
<1>1. ASSUME NEW u \in Threads, Called(u) PROVE accepted \subseteq accepted'
  BY <1>1 DEF Called, Signalled, SignalTaken
<1>2. ASSUME NEW u \in Threads, Announces(u) PROVE UNCHANGED accepted
  BY <1>2 DEF Announces
<1>3. ASSUME NEW u \in Threads, MedEnqueue(u) PROVE UNCHANGED accepted
  BY <1>3 DEF MedEnqueue
<1> QED BY <1>1, <1>2, <1>3, ServerSteps, RemoveFacts

\* What the user may confirm is what the page offered.
LEMMA OffersStep ==
  ASSUME TradeInv, [Next]_vars, OffersHold,
         \A t : Heard(t) /\ OfferOk(t) => OfferOk(t)',
         HandleFrame => \A t : down[1].type = "Sent" /\ Heard(t) => OfferOk(t)'
  PROVE  OffersHold'
<1>1. room \in Views /\ session.round \in Nat BY DEF TradeInv, Types, Sessions
<1>2. /\ room.peer_sent => OfferOk(room.turn)
      /\ \A f : Underway(f) /\ f.type = "Received" /\ f.offered => OfferOk(f.turn)
  BY DEF OffersHold
<1>3. ASSUME NEW f, Underway(f)', f.type = "Received", f.offered PROVE OfferOk(f.turn)'
  <2>1. PICK t : t = f.turn OBVIOUS
  <2>2. Heard(t) /\ OfferOk(t)
    <3>1. CASE Underway(f)
      BY <1>2, <1>3, <2>1, <3>1 DEF Heard, Signed, Clicks
    <3>2. ASSUME NEW type \in Clicks, f = Click(type) PROVE Heard(t) /\ OfferOk(t)
      <4>1. type = "Received" /\ t = room.turn /\ Action = "received"
        BY <1>3, <2>1, <3>2 DEF Click
      <4>2. room.peer_sent BY <4>1 DEF Action
      <4> QED BY <1>2, <4>1, <4>2 DEF Heard
    <3> QED BY <1>3, <3>1, <3>2, ClickStep DEF Clicks
  <2>3. OfferOk(t)' BY <2>2
  <2> QED BY <2>1, <2>3
<1>4. ASSUME NEW t, t = room'.turn, room'.peer_sent PROVE OfferOk(t)'
  <2>1. CASE UNCHANGED room BY <1>2, <1>4, <2>1 DEF Heard
  <2>2. CASE room' = NoView BY <1>4, <2>2 DEF NoView
  <2>3. CASE HandleFrame
    <3>1. room' = View(room, down[1]) BY <2>3, DownTail
    <3>2. CASE down[1].type \in {"TradeReady", "Turn"}
      BY <1>1, <1>4, <3>1, <3>2 DEF View, NoView, Views
    <3>3. CASE down[1].type = "Sent"
      <4>1. t = room.turn BY <1>1, <1>4, <3>1, <3>3 DEF View, Views
      <4> QED BY <2>3, <3>3, <4>1 DEF Heard
    <3>4. CASE down[1].type \in {"Complete", "Abort"}
      <4>1. t = NoTurn BY <1>1, <1>4, <3>1, <3>4 DEF View, Views
      <4>2. session' = session BY <2>3, DownTail
      <4>3. t # Current(session') BY <1>1, <4>1, <4>2 DEF NoTurn, Current
      <4> QED BY <4>3 DEF OfferOk
    <3>5. CASE down[1].type \notin {"TradeReady", "Turn", "Sent", "Complete", "Abort"}
      <4>1. t = room.turn /\ room.peer_sent
        BY <1>1, <1>4, <3>1, <3>5 DEF View, Views
      <4> QED BY <1>2, <4>1 DEF Heard
    <3> QED BY <3>2, <3>3, <3>4, <3>5
  <2> QED BY <2>1, <2>2, <2>3, RoomStep
<1> QED BY <1>3, <1>4 DEF OffersHold, OfferOk

LEMMA SentStep ==
  ASSUME TradeInv, TurnsInv, KnowInv, SentInv, [Next]_vars
  PROVE  SentInv'
<1> SUFFICES ASSUME member', Offered' PROVE SentOnce' /\ SentInTime' /\ OffersHold'
  BY DEF SentInv
<1>1. CASE HandleFrame
  <2>1. UNCHANGED <<me, session, accepted, member>> BY <1>1, DownTail
  <2>2. SentOnce /\ SentInTime /\ OffersHold BY <2>1 DEF SentInv, Offered
  <2>3. /\ SentOnce' /\ (Undelivered' => Undelivered)
        /\ down[1].type = "Sent" => Undelivered /\ ~Undelivered'
    BY <1>1, <2>2, SentHandle
  <2>4. UNCHANGED them BY <2>1 DEF them
  <2>5. SentInTime' BY <2>1, <2>2, <2>3, <2>4 DEF SentInTime
  <2>6. \A t : OfferOk(t) => OfferOk(t)' BY <2>1, <2>3, <2>4 DEF OfferOk
  <2>7. ASSUME NEW t, down[1].type = "Sent" PROVE OfferOk(t)'
    <3>1. session.state \in {"Aborted", "WaitingForReceived"} /\ ~Undelivered'
      BY <2>2, <2>3, <2>7 DEF SentInTime
    <3> QED BY <2>1, <3>1 DEF OfferOk, InTranche
  <2>8. OffersHold' BY <1>1, <2>2, <2>6, <2>7, OffersStep
  <2> QED BY <2>3, <2>5, <2>8
<1>2. ASSUME NEW w \in Threads, MedEnqueue(w), ~HandleFrame
      PROVE  SentOnce' /\ SentInTime' /\ OffersHold'
  <2>1. UNCHANGED <<me, session, accepted, member, room>>
    BY <1>2, EnqueueFacts DEF TradeInv, worker
  <2>2. member /\ SentOnce /\ SentInTime /\ OffersHold BY <2>1 DEF SentInv, Offered
  <2>3. SentOnce' /\ (Undelivered' <=> Undelivered) BY <1>2, <2>2, SentEnqueue
  <2>4. UNCHANGED them BY <2>1 DEF them
  <2>5. SentInTime' BY <2>1, <2>2, <2>3, <2>4 DEF SentInTime
  <2>6. \A t : OfferOk(t) => OfferOk(t)' BY <2>1, <2>3, <2>4 DEF OfferOk
  <2>7. OffersHold' BY <1>2, <2>2, <2>6, OffersStep
  <2> QED BY <2>3, <2>5, <2>7
<1>3. CASE ~HandleFrame /\ UNCHANGED <<down, chain, member>>
           /\ (Aside \/ \E w \in Threads : task[w] = <<>> /\ Called(w))
  <2>1. UNCHANGED <<me, down, member>> BY <1>3, Moves
  <2>2. accepted \subseteq accepted' BY AcceptedGrows
  <2>3. member /\ SentOnce /\ SentInTime /\ OffersHold BY <2>1, <2>2 DEF SentInv, Offered
  <2>4. SentOnce' /\ SentInTime' /\ \A t : Heard(t) /\ OfferOk(t) => OfferOk(t)'
    <3>1. CASE Aside BY <2>1, <2>3, <3>1, SentAside
    <3>2. ASSUME NEW w \in Threads, task[w] = <<>>, Called(w)
          PROVE  SentOnce' /\ SentInTime' /\ \A t : Heard(t) /\ OfferOk(t) => OfferOk(t)'
      BY <2>1, <2>3, <3>2, SentCall
    <3> QED BY <1>3, <3>1, <3>2
  <2>5. UNCHANGED room \/ room' = NoView BY <1>3, RoomStep
  <2>6. OffersHold' BY <1>3, <2>3, <2>4, <2>5, OffersStep
  <2> QED BY <2>4, <2>6
<1>4. CASE LoseLink BY <1>4 DEF LoseLink
<1> QED BY <1>1, <1>2, <1>3, <1>4, Moves

LEMMA SentInit == Init => SentInv
<1> SUFFICES ASSUME Init PROVE SentOnce /\ SentInTime /\ OffersHold BY DEF SentInv
<1>1. Len(<<>>) = 0 OBVIOUS
<1>2. \A u \in Threads : \A i : ~SentJob(u, i)
  BY <1>1 DEF Init, SentJob, ToMe
<1>3. \A i : ~SentAt(i) BY <1>1 DEF Init, SentAt
<1>4. \A f : ~Underway(f) BY WithinNone DEF Init, Underway
<1>5. ~room.peer_sent BY DEF Init, NoView
<1>6. SentOnce /\ SentInTime BY <1>2, <1>3 DEF SentOnce, SentInTime, Undelivered
<1> QED BY <1>4, <1>5, <1>6 DEF OffersHold

\* Once everything has arrived, an offered receipt is the one that is due.
LEMMA OfferIsDue ==
  ASSUME TradeInv, TurnsInv, KnowInv, LatestInv, SentInv
  PROVE  ReceivedOnlyWhenSent
<1> SUFFICES ASSUME Quiet, Action = "received", ~Over, Offered,
                    session.state # "WaitingForFinalReceiptAck"
             PROVE  session.state = "WaitingForReceived" /\ TurnOf(session) = room.turn
  BY DEF ReceivedOnlyWhenSent, Offered
<1>1. /\ session \in Sessions /\ SessionInv(session) /\ me \in Parties
      /\ room \in Views /\ room.turn \in Turns
  BY DEF TradeInv, Types, Views
<1>2. /\ room.turn # NoTurn /\ room.turn.sender # me /\ ~room.turn.is_fee /\ room.peer_sent
  BY DEF Action
<1>3. Heard(room.turn) BY DEF Heard
<1>4. session.state # "WaitingForPeer"
  <2> SUFFICES ASSUME session.state = "WaitingForPeer" PROVE FALSE OBVIOUS
  <2>1. session.round = 0 /\ session.leg = 0 BY <1>1 DEF SessionInv
  <2>2. room.turn.round \in Nat BY <1>2, <1>3 DEF LatestInv
  <2>3. Past(room.turn, session) BY <1>3 DEF KnowInv, Known, Announced
  <2> QED BY <2>1, <2>2, <2>3 DEF Past
<1>5. Active(session) BY <1>1, <1>4 DEF Active, Over, Sessions, SessionStates
<1>6. member /\ down = <<>> /\ \A t \in Threads : task[t] = <<>> BY DEF Quiet
<1>7. Len(<<>>) = 0 OBVIOUS
<1>8. ~NowJob /\ \A i : ~NowAt(i)
  BY <1>6, <1>7 DEF NowJob, NowAt, ToMe
<1>9. room.turn = Current(session)
  BY <1>2, <1>5, <1>6, <1>8 DEF LatestInv, NowComes
<1>10. session.fee => session.position = "AfterLastRound" BY DEF TurnsInv
<1>11. session.state \in InTranche
  BY <1>1, <1>2, <1>5, <1>9, <1>10, CurrentFacts DEF Active, InTranche, InFee
<1>12. room.turn.sender = them BY <1>1, <1>2 DEF Turns, them, OtherParty, Parties
<1>13. OfferOk(room.turn) BY <1>2, <1>6 DEF SentInv, OffersHold
<1>14. session.state = "WaitingForReceived"
  BY <1>9, <1>11, <1>12, <1>13 DEF OfferOk
<1>15. TurnOf(session) = Current(session) BY <1>1, <1>10, <1>14, CurrentFacts
<1> QED BY <1>9, <1>14, <1>15

\* When the page offers to confirm a receipt and nothing is under way any
\* more, the session waits for that receipt, or has it and waits at the final
\* gate: whatever was sent twice, told late or lost with a connection, as long
\* as the user never confirmed before it was offered (state_json,
\* enqueue_turn_signal, handle_received), in every room whose fee, if it has
\* one, comes after the last round.
THEOREM OffersAreDue ==
  FeesComeLast => (Spec => []ReceivedOnlyWhenSent)
<1> SUFFICES ASSUME FeesComeLast PROVE Spec => []ReceivedOnlyWhenSent
  OBVIOUS
<1> DEFINE Inv == TradeInv /\ TurnsInv /\ KnowInv /\ LatestInv /\ SentInv
<1>1. Init => Inv BY TradeInit, TurnsInit, KnowInit, LatestInit, SentInit
<1>2. Inv /\ [Next]_vars => Inv'
  BY TradeStep, TurnsStep, KnowStep, LatestStep, SentStep
<1>3. Inv => ReceivedOnlyWhenSent BY OfferIsDue
<1> QED BY <1>1, <1>2, <1>3, PTL DEF Spec

=============================================================================

---------------------------- MODULE TradeClient ----------------------------
(***************************************************************************)
(* The trading client of the dashboards (dashboard_client.cpp) in one room *)
(* of the mediator: the HTTP threads that queue what the user does, the    *)
(* worker that sends and receives, the mediator's threads that take a      *)
(* signal and then tell the parties one after the other, and a connection  *)
(* that may be lost and is opened again.                                   *)
(*                                                                         *)
(* The client under study is party me; the other party uses some client    *)
(* and acts on what the mediator has told it.  The room's session is the   *)
(* one of SessionCore.  Recognition has a module of its own, and the       *)
(* mediator's other duties are the subject of Lobby.                       *)
(***************************************************************************)
EXTENDS SessionCore, Sequences, SequencesExt

CONSTANTS Deals,        \* [rounds, fee, confirm, position] of the session
          MaxPresses,   \* bound on what the user does in one behaviour
          MaxDrops,     \* bound on the connections lost
          MaxKeys       \* bound on the keys the other party announces

ASSUME TradeClientAssumption ==
    /\ Deals \subseteq [rounds : Nat \ {0}, fee : BOOLEAN, confirm : BOOLEAN,
                         position : FeePositions]
    /\ {MaxPresses, MaxDrops, MaxKeys} \subseteq Nat

VARIABLES
    me,         \* the party this client plays
    session,    \* the mediator's session of the room
    keys,       \* the last ephemeral key each party announced, 0 if none
    issued,     \* receipts the mediator has issued for the room
    task,       \* what each mediator thread has still to enqueue, and to whom
    told,       \* what the other party knows
    member,     \* this connection is the one of party me
    leaving,    \* the mediator has still to remove the connection of me
    up, down,   \* frames under way from and to this client
    link,       \* "up", "lost" (not yet noticed), "clearing" or "down"
    connected,  \* connected_
    outgoing,   \* outgoing_
    batch,      \* the frames that flush_outgoing has swapped out
    pressed,    \* where the HTTP thread is: <<>> or <<stage, frame>>
    room,       \* the RoomView in rooms_
    chain,      \* room_receipts_ of the room
    presses, drops,
    accepted    \* history: signals of this client that the session took,
                \* each with the turn it was pressed for

server == <<session, keys, issued, task, told, member, leaving>>
worker == <<link, connected, batch, room, chain, drops>>
vars == <<me, server, up, down, worker, outgoing, pressed, presses, accepted>>

-----------------------------------------------------------------------------
NoTurn == [round |-> -1, sender |-> "A", is_fee |-> FALSE]

\* current_turn, as far as the client reads it.
TurnOf(s) == [round |-> s.round, sender |-> CurrentSender(s),
              is_fee |-> s.state = "WaitingForFeeSent"]

Frame(type) == [type |-> type]
TurnFrame(s) == [type |-> "Turn", turn |-> TurnOf(s)]

Over == session.state \in {"Complete", "Aborted"}
them == OtherParty(me)
Threads == Parties \cup {"operator"}

\* A RoomView; "none" if rooms_ has no entry.
NoView == [status |-> "none", turn |-> NoTurn, peer_sent |-> FALSE,
           pending |-> FALSE]

\* The first party's offer is open and this client is connected.
Init ==
    /\ me \in Parties
    /\ \E d \in Deals :
           session = NewSession([rounds |-> d.rounds, first_sender |-> "A",
                                 total |-> [p \in Parties |-> d.rounds]],
                                d.fee, d.confirm, d.position)
    /\ keys = [p \in Parties |-> 0]
    /\ issued = <<>>
    /\ task = [t \in Threads |-> <<>>]
    /\ told = [ready |-> FALSE, turn |-> NoTurn, sent |-> FALSE, gate |-> FALSE]
    /\ member = TRUE /\ leaving = FALSE
    /\ up = <<>> /\ down = <<>>
    /\ link = "up" /\ connected = TRUE
    /\ outgoing = <<>> /\ batch = <<>>
    /\ pressed = <<>>
    /\ room = NoView
    /\ chain = <<>>
    /\ presses = 0 /\ drops = 0
    /\ accepted = {}

-----------------------------------------------------------------------------
\* The mediator's handlers.  What a handler sends is left in task, since it
\* enqueues after it has released the room, first for A and then for B.
ToRoom(f) == << <<"A", f>>, <<"B", f>> >>

\* The receipt is not chained to the one before.
ReceiptMutant(stage) == [type |-> "Receipt", stage |-> stage, keys |-> keys,
                         prev |-> <<>>]

\* issue_receipt, when both parties have announced their keys.
Receipt(stage) == [type |-> "Receipt", stage |-> stage, keys |-> keys,
                   prev |-> issued]
CanIssue == \A p \in Parties : keys[p] # 0
IssueReceipt(stage) ==
    issued' = IF CanIssue THEN Append(issued, stage) ELSE issued
ReceiptToRoom(stage) == IF CanIssue THEN ToRoom(Receipt(stage)) ELSE <<>>

\* A session step of thread t that leaves the session as s and then sends.
Settle(t, s, first) ==
    LET complete == s.state = "Complete"
        opened == /\ session.state = "WaitingForFinalReceiptAck"
                  /\ s.state \in {"WaitingForSent", "WaitingForFeeSent"}
        stage == IF complete THEN 4 ELSE 3
    IN  /\ session' = s
        /\ IF complete \/ opened THEN IssueReceipt(stage) ELSE UNCHANGED issued
        /\ task' = [task EXCEPT ![t] =
              first \o (IF complete \/ opened THEN ReceiptToRoom(stage) ELSE <<>>)
                    \o (CASE complete -> ToRoom(Frame("Complete"))
                          [] s.state = "Aborted" -> ToRoom(Frame("Abort"))
                          [] s.state = "WaitingForFeeConfirmation" ->
                                ToRoom(Frame("FeeConfirmationPending"))
                          [] s.state = "WaitingForFinalReceiptAck" ->
                                IF session.state = s.state THEN <<>>
                                ELSE ToRoom(Frame("ReceiptAckRequired"))
                          [] s.state = "WaitingForReceived" -> <<>>
                          [] OTHER -> ToRoom(TurnFrame(s)))]

Forward(p, type) == << <<OtherParty(p), Frame(type)>> >>

\* The round of the signal is not compared with the session's.
MedSentMutant(p, m) ==
    /\ ~Over /\ SentAccepted(session, p, TurnOf(session))
    /\ LET s == SenderReportedSent(session)
       IN  Settle(p, s, IF s.state = "WaitingForReceived" THEN Forward(p, "Sent")
                                                          ELSE <<>>)

\* handle_sent, handle_received, handle_receipt_ack and handle_abort of p.
MedSent(p, m) ==
    /\ ~Over /\ SentAccepted(session, p, m)
    /\ LET s == SenderReportedSent(session)
       IN  Settle(p, s, IF s.state = "WaitingForReceived" THEN Forward(p, "Sent")
                                                          ELSE <<>>)

MedReceived(p, m) ==
    /\ ~Over /\ ReceivedAccepted(session, p, m)
    /\ Settle(p, ReceiverReportedReceived(session), Forward(p, "Received"))

MedAck(p) ==
    /\ ~Over /\ keys[p] # 0 /\ AckAccepted(session, p)
    /\ Settle(p, AcknowledgeFinalReceipt(session, p), <<>>)

MedAbort(p) == /\ session.state # "WaitingForPeer" /\ ~Over
               /\ Settle(p, Abort(session), <<>>)

\* handle_join_offer by B.
MedJoin ==
    /\ JoinAccepted(session)
    /\ Settle("B", Join(session), ToRoom(Frame("TradeReady")))

\* try_confirm_fee_locked, for a fee leg that is the last one.
MedConfirm ==
    /\ task["operator"] = <<>>
    /\ ConfirmAccepted(session) /\ session.position = "AfterLastRound"
    /\ Settle("operator", ConfirmFeeReceived(session), <<>>)
    /\ UNCHANGED <<me, keys, told, member, leaving, up, down, worker, outgoing, pressed,
                   presses, accepted>>

\* One Client::enqueue of a handler.
MedEnqueue(t) ==
    /\ task[t] # <<>>
    /\ LET to == Head(task[t])[1]
           f == Head(task[t])[2]
       IN  /\ down' = IF to = me /\ member THEN Append(down, f) ELSE down
           /\ told' = IF to = me THEN told
                      ELSE CASE f.type = "TradeReady" -> [told EXCEPT !.ready = TRUE]
                             [] f.type = "Turn" -> [told EXCEPT !.turn = f.turn,
                                                                !.sent = FALSE,
                                                                !.gate = FALSE]
                             [] f.type = "Sent" -> [told EXCEPT !.sent = TRUE]
                             [] f.type = "ReceiptAckRequired" ->
                                    [told EXCEPT !.gate = TRUE]
                             [] OTHER -> told
    /\ task' = [task EXCEPT ![t] = Tail(@)]
    /\ UNCHANGED <<me, session, keys, issued, member, leaving, up, worker, outgoing,
                   pressed, presses, accepted>>

\* The other party does what it has been told to do, or aborts.
PeerActs ==
    /\ task[them] = <<>>
    /\ \/ /\ them = "B" /\ MedJoin /\ UNCHANGED keys
       \/ /\ told.turn.sender = them /\ MedSent(them, told.turn)
          /\ UNCHANGED keys
       \/ /\ told.sent /\ MedReceived(them, told.turn) /\ UNCHANGED keys
       \/ /\ told.gate /\ MedAck(them) /\ UNCHANGED keys
       \/ /\ told.ready /\ MedAbort(them) /\ UNCHANGED keys
       \/ /\ told.ready /\ keys[them] < MaxKeys /\ ~Over
          /\ keys' = [keys EXCEPT ![them] = @ + 1]
          /\ task' = [task EXCEPT ![them] = Forward(them, "TradeEphemeralKey")]
          /\ UNCHANGED <<session, issued>>
    /\ UNCHANGED <<me, told, member, leaving, up, down, worker, outgoing, pressed,
                   presses, accepted>>

\* find_room_for: only a party's own connection acts in its room.
Member == member

\* The mediator takes the next frame of this client.
Takes(f) ==
    /\ Member
    /\ \/ f.type = "Sent" /\ MedSent(me, f.turn) /\ UNCHANGED keys
       \/ f.type = "Received" /\ MedReceived(me, f.turn) /\ UNCHANGED keys
       \/ f.type = "ReceiptAck" /\ MedAck(me) /\ UNCHANGED keys
       \/ f.type = "Abort" /\ MedAbort(me) /\ UNCHANGED keys
       \/ f.type = "JoinOffer" /\ me = "B" /\ MedJoin /\ UNCHANGED keys
       \/ /\ f.type = "TradeEphemeralKey"
          /\ ~Over
          /\ keys' = [keys EXCEPT ![me] = 1]
          /\ task' = [task EXCEPT ![me] = Forward(me, "TradeEphemeralKey")]
          /\ UNCHANGED <<session, issued>>

MedHandles ==
    /\ up # <<>> /\ task[me] = <<>>
    /\ LET f == Head(up)
           signal == f.type \in {"Sent", "Received"}
       IN  \/ /\ Takes(f)
              /\ accepted' = IF signal THEN accepted \cup
                                {[type |-> f.type, turn |-> f.turn,
                                  at |-> TurnOf(session), offered |-> f.offered]}
                             ELSE accepted
           \/ /\ ~ENABLED Takes(f)
              /\ UNCHANGED <<session, keys, issued, task, accepted>>
    /\ up' = Tail(up)
    /\ UNCHANGED <<me, told, member, leaving, down, worker, outgoing, pressed, presses>>

-----------------------------------------------------------------------------
\* state_json: what the page offers the user.
Action ==
    IF room.status # "active" \/ room.turn = NoTurn \/ room.pending THEN "none"
    ELSE IF room.turn.sender = me THEN "sent"
    ELSE IF room.turn.is_fee THEN "none"
    ELSE IF room.peer_sent THEN "received"
    ELSE "awaiting_peer_send"

\* The user, on an HTTP thread: enqueue_turn_signal and the calls that need no
\* turn read the room under state_mutex_ ...
MaySignal(type) ==
    /\ room.status = "active" /\ room.turn # NoTurn
    /\ (type = "Sent") <=> (room.turn.sender = me)

Press(type) ==
    /\ pressed = <<>> /\ presses < MaxPresses
    /\ type \in {"Sent", "Received"} => MaySignal(type)
    /\ type = "JoinOffer" => me = "B" /\ room = NoView
    /\ type = "Abort" => room.status = "active"
    /\ pressed' = <<"built", [type |-> type, turn |-> room.turn,
                              offered |-> type = "Received" => Action = "received"]>>
    /\ presses' = presses + 1
    /\ UNCHANGED <<me, server, up, down, worker, outgoing, accepted>>

\* ... then enqueue() looks at connected_ under the same mutex, or throws ...
CheckConnected ==
    /\ pressed # <<>> /\ pressed[1] = "built"
    /\ pressed' = IF connected THEN <<"checked", pressed[2]>> ELSE <<>>
    /\ UNCHANGED <<me, server, up, down, worker, outgoing, presses, accepted>>

\* ... and pushes under queue_mutex_.
Push ==
    /\ pressed # <<>> /\ pressed[1] = "checked"
    /\ outgoing' = Append(outgoing, pressed[2])
    /\ pressed' = <<>>
    /\ UNCHANGED <<me, server, up, down, worker, presses, accepted>>

-----------------------------------------------------------------------------
\* flush_outgoing: swap the queue out, then send frame by frame.
Swap ==
    /\ link = "up" /\ batch = <<>> /\ outgoing # <<>>
    /\ batch' = outgoing
    /\ outgoing' = <<>>
    /\ UNCHANGED <<me, server, up, down, link, connected, room, chain, drops,
                   pressed, presses, accepted>>

SendFrame ==
    /\ link = "up" /\ batch # <<>>
    /\ up' = Append(up, Head(batch))
    /\ batch' = Tail(batch)
    /\ UNCHANGED <<me, server, down, link, connected, outgoing, room, chain,
                   drops, pressed, presses, accepted>>

\* verify_receipt_chain.
ChainVerifies(c) ==
    \A i \in DOMAIN c : /\ c[i].prev = [j \in 1..(i - 1) |-> c[j].stage]
                        /\ c[i].keys = c[1].keys
                        /\ i > 1 => c[i].stage > c[i - 1].stage

\* peer_sent_this_turn is not reset by the next Turn.
ViewMutant(v, f) ==
    CASE f.type = "TradeReady" -> [NoView EXCEPT !.status = "active"]
      [] f.type = "Turn" -> [v EXCEPT !.status = "active", !.turn = f.turn]
      [] f.type = "Sent" -> [v EXCEPT !.peer_sent = TRUE]
      [] f.type = "Complete" -> [v EXCEPT !.status = "complete"]
      [] f.type = "Abort" -> [v EXCEPT !.status = "aborted"]
      [] OTHER -> v

\* handle_frame, what each frame does to the view of the room.
View(v, f) ==
    CASE f.type = "TradeReady" -> [NoView EXCEPT !.status = "active"]
      [] f.type = "Turn" -> [v EXCEPT !.status = "active", !.turn = f.turn,
                                      !.peer_sent = FALSE]
      [] f.type = "Sent" -> [v EXCEPT !.peer_sent = TRUE]
      [] f.type = "Complete" -> [v EXCEPT !.status = "complete", !.turn = NoTurn,
                                          !.pending = FALSE]
      [] f.type = "Abort" -> [v EXCEPT !.status = "aborted", !.turn = NoTurn,
                                       !.pending = FALSE]
      [] f.type = "FeeConfirmationPending" -> [v EXCEPT !.pending = TRUE]
      [] OTHER -> v

\* What handle_frame queues by itself once it has released the state.
Answers(f) ==
    CASE f.type = "TradeReady" -> <<Frame("TradeEphemeralKey")>>
      [] f.type = "ReceiptAckRequired" -> <<Frame("ReceiptAck")>>
      [] OTHER -> <<>>

HandleFrame ==
    /\ link = "up" /\ batch = <<>> /\ down # <<>>
    /\ LET f == Head(down)
       IN  /\ room' = View(room, f)
           /\ chain' = IF f.type = "Receipt" THEN Append(chain, f) ELSE chain
           /\ outgoing' = outgoing \o Answers(f)
    /\ down' = Tail(down)
    /\ UNCHANGED <<me, server, up, link, connected, batch, drops, pressed,
                   presses, accepted>>

-----------------------------------------------------------------------------
\* The connection breaks, or the mediator ends it at the third frame that it
\* rejects.
LoseLink ==
    /\ link = "up" /\ drops < MaxDrops
    /\ link' = "lost" /\ drops' = drops + 1
    /\ up' = <<>> /\ down' = <<>> /\ batch' = <<>>
    /\ member' = FALSE
    /\ leaving' = member
    /\ UNCHANGED <<me, session, keys, issued, task, told, connected, outgoing,
                   room, chain, pressed, presses, accepted>>

\* remove_client, once the thread of the connection has ended its handler: an
\* open offer is withdrawn, a room is aborted unless only the operator's
\* confirmation is missing.
MedRemoves ==
    /\ leaving /\ task[me] = <<>>
    /\ leaving' = FALSE
    /\ LET open == session.state = "WaitingForPeer"
       IN  IF Over \/ session.state = "WaitingForFeeConfirmation"
              \/ (open /\ me = "B")
           THEN UNCHANGED <<session, task>>
           ELSE /\ session' = Abort(session)
                /\ task' = [task EXCEPT ![me] =
                               IF open THEN <<>> ELSE << <<them, Frame("Abort")>> >>]
    /\ UNCHANGED <<me, keys, issued, told, member, up, down, worker, outgoing,
                   pressed, presses, accepted>>

\* set_disconnected: the flag under one mutex, the queue under the other.
SetDisconnected ==
    /\ link = "lost"
    /\ link' = "clearing" /\ connected' = FALSE
    /\ UNCHANGED <<me, server, up, down, outgoing, batch, room, chain, drops,
                   pressed, presses, accepted>>

ClearQueue ==
    /\ link = "clearing"
    /\ link' = "down" /\ outgoing' = <<>>
    /\ UNCHANGED <<me, server, up, down, connected, batch, room, chain, drops,
                   pressed, presses, accepted>>

\* worker_loop connects again: a new client id, and no rooms.
Reconnect ==
    /\ link = "down"
    /\ link' = "up" /\ connected' = TRUE
    /\ room' = NoView
    /\ UNCHANGED <<me, server, up, down, outgoing, batch, chain, drops, pressed,
                   presses, accepted>>

Next ==
    \/ MedConfirm \/ PeerActs \/ MedHandles \/ MedRemoves
    \/ \E t \in Threads : MedEnqueue(t)
    \/ \E type \in {"Sent", "Received", "Abort", "JoinOffer"} : Press(type)
    \/ CheckConnected \/ Push
    \/ Swap \/ SendFrame \/ HandleFrame
    \/ LoseLink \/ SetDisconnected \/ ClearQueue \/ Reconnect

Spec == Init /\ [][Next]_vars

-----------------------------------------------------------------------------
\* Nothing is under way.
Quiet == /\ up = <<>> /\ down = <<>> /\ outgoing = <<>> /\ batch = <<>>
         /\ \A t \in Threads : task[t] = <<>>
         /\ link = "up" /\ member

TypeOK ==
    /\ session.state \in SessionStates
    /\ room.status \in {"none", "active", "complete", "aborted"}
    /\ room.turn.round \in -1..session.terms.rounds
    /\ link \in {"up", "lost", "clearing", "down"}
    /\ link = "up" => connected
    /\ batch # <<>> => link = "up"
    /\ Len(chain) <= 2

\* A signal the mediator accepts was given by the user for that very leg of
\* the trade: no click that was queued twice, waited for the worker or
\* survived a lost connection counts for a later leg (enqueue_turn_signal
\* copies the turn before enqueue() releases and takes the locks again).
SignalsMeanTheirTurn == \A a \in accepted : a.turn = a.at

\* Whoever's threads sent them, the receipts of a room reach this client in
\* the order of the chain: a room it shows as complete has both, and
\* verify_receipt_chain accepts them.
CompleteRoomsHaveReceipts ==
    room.status = "complete" => Len(chain) = 2 /\ ChainVerifies(chain)

\* The page offers "I verified receipt" only when there is something to
\* confirm: once everything under way has arrived the session does wait for
\* this party's receipt, or has it and waits at the final gate; provided the
\* user never confirmed a receipt before the page offered it (the endpoint
\* takes one, and the Sent that is then still under way counts for the next
\* turn if the same party sends in it).
ReceivedOnlyWhenSent ==
    (Quiet /\ Action = "received" /\ ~Over /\ \A a \in accepted : a.offered) =>
        \/ session.state = "WaitingForFinalReceiptAck"
        \/ /\ session.state = "WaitingForReceived"
           /\ TurnOf(session) = room.turn

\* peer_sent_this_turn is "True once the CURRENT turn's sender has actually
\* reported Sent": when the session waits for this party's receipt and
\* everything under way has arrived, the page offers to confirm it.
ReceiptCanBeConfirmed ==
    (Quiet /\ session.state = "WaitingForReceived" /\ CurrentSender(session) = them)
        => Action = "received"
=============================================================================

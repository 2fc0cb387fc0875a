------------------------------- MODULE Lobby -------------------------------
(***************************************************************************)
(* The mediator server, class LobbyServer::Impl (lobby.cpp): connections,  *)
(* open offers, settlement rooms, their persisted copy on disk, the admin  *)
(* channel (or fee plugin) that confirms fees, and a crash of the process  *)
(* followed by a restart.                                                  *)
(*                                                                         *)
(* Every connection has a thread of its own, which runs one handler at a   *)
(* time; the admin loop and the plugin loop are threads too.  A handler is *)
(* cut into steps where it releases a lock: what happens inside one        *)
(* critical section is one action, and task[a] says where thread a will    *)
(* continue.  The order of lock acquisitions is the subject of LobbyLocks. *)
(*                                                                         *)
(* A rejected request (BenignRejection or any other exception) changes     *)
(* nothing here; the strikes it may cost are the connection's business.    *)
(***************************************************************************)
EXTENDS SessionCore, FiniteSets

CONSTANTS Clients,             \* ClientIds: a connection never reuses one
          Operators,           \* threads that confirm fees: admin, plugin
          Rooms,               \* room ids, drawn at random by create_offer
          NoRoom, NoClient,    \* the absent room and the absent client
          Rounds,              \* rounds of every deal offered
          FeeConfigs,          \* start configurations [confirm, position]
          MaxClients,          \* kMaxClients
          MaxRooms,            \* kMaxRooms
          MaxOpenOffers,       \* kMaxOpenOffers
          MaxOffersPerClient,  \* kMaxOffersPerClient
          MaxFaults            \* bound on the crashes and the failed writes

\* Rooms and their persisted copies are records; NoRoom is none of them.
DealTerms == [rounds |-> Rounds, total |-> [p \in Parties |-> Rounds],
              first_sender |-> "A"]

Sessions == [terms : {DealTerms}, fee : BOOLEAN, confirm : BOOLEAN,
             position : FeePositions, state : SessionStates,
             round : 0..Rounds, leg : {0, 1}, acked : SUBSET Parties]

Entries == [a : Clients, b : Clients, session : Sessions, version : Nat,
            active : BOOLEAN, keys : SUBSET Parties, final_ack : BOOLEAN,
            restored : BOOLEAN]

Snapshots == [a : Clients, b : Clients, session : Sessions, version : Nat]

ASSUME LobbyAssumption ==
    /\ NoRoom \notin Rooms /\ NoRoom \notin Entries /\ NoRoom \notin Snapshots
    /\ NoClient \notin Clients
    /\ Clients \cap Operators = {}
    /\ Rounds \in Nat \ {0}
    /\ FeeConfigs \subseteq [confirm : BOOLEAN, position : FeePositions]
    /\ {MaxClients, MaxRooms, MaxOpenOffers, MaxOffersPerClient, MaxFaults}
           \subseteq Nat

VARIABLES
    conn,       \* conn[c]: "fresh", "up" (in clients_), "leaving" or "gone"
    offers,     \* offers_: the creator of each open offer, or NoClient
    drawn,      \* room ids that random_id has returned so far
    rooms,      \* keys of rooms_
    entry,      \* the RoomEntry object of each room id, or NoRoom
    disk,       \* the room persistence file: a snapshot per room, or NoRoom
    image,      \* persisted_rooms_: what the next write puts on disk
    failures,   \* writes of the file that failed so far
    config,     \* require_fee_confirmation_ and fee_position_
    fee,        \* fee_: is a fee configured right now
    task,       \* where each thread continues
    crashes,
    told,       \* history: newest session version a client was told about
    outcomes,   \* history: the final messages sent to each room's parties
    issued,     \* history: receipt stages issued for each room
    recorded,   \* history: record_completed_trade calls for each room
    pruned,     \* history: rooms removed from the persistence file
    hasty,      \* history: rooms with a message that did not wait for disk
    agreed      \* history: the fee each room was opened with

roomHistory == <<told, outcomes, issued, recorded, hasty, agreed>>
hub == <<conn, offers, drawn, rooms>>
store == <<disk, image, failures, pruned>>
vars == <<hub, entry, store, config, fee, task, crashes, roomHistory>>

-----------------------------------------------------------------------------
\* Threads and their continuations.
Actors == Clients \cup Operators

Ops == {"idle", "joined", "ready", "sent", "received", "ack", "key", "abort",
        "confirm", "announce", "prune", "erase", "tell", "leave"}

Requests == {"sent", "received", "ack", "key", "abort"}

Idle == [op |-> "idle", room |-> NoRoom, version |-> 0, outcome |-> "none",
         todo |-> {}]

Do(op, r) == [Idle EXCEPT !.op = op, !.room = r]

Announce(r, version, outcome) ==
    [Do("announce", r) EXCEPT !.version = version, !.outcome = outcome]

Ending(r, outcome) == [Do("prune", r) EXCEPT !.outcome = outcome]

Go(a, t) == task' = [task EXCEPT ![a] = t]

Up(c) == conn[c] = "up"
Ready(c) == Up(c) /\ task[c] = Idle
Leaving(a) == a \in Clients /\ conn[a] = "leaving"

\* Rooms and their persisted copies.
Signals == [round : 0..Rounds, sender : Parties]

PartyFor(e, c) == IF e.a = c THEN "A" ELSE "B"
Member(e, p) == IF p = "A" THEN e.a ELSE e.b
IsMember(e, c) == c \in {e.a, e.b}
Peer(e, c) == Member(e, OtherParty(PartyFor(e, c)))

Parked(e) == e.active /\ e.session.state = "WaitingForFeeConfirmation"

\* Each accepted call on the session counts as one more version of it.
Advance(e, s) == [e EXCEPT !.session = s, !.version = @ + 1]

\* What abort_room and remove_client do to an active room: it is inactive from
\* here on, and its session aborted unless it is over.
AbortEntry(e) ==
    [(IF e.session.state \in {"Complete", "Aborted"} THEN e
      ELSE Advance(e, Abort(e.session))) EXCEPT !.active = FALSE]

\* persisted_room_snapshot.
Snapshot(e) == [a |-> e.a, b |-> e.b, session |-> e.session,
                version |-> e.version]

\* Only the steps that change whose turn it is are saved.
UpsertedMutant(r, e) ==
    IF e.session.state = "WaitingForReceived" THEN image
    ELSE [image EXCEPT ![r] = Snapshot(e)]

\* persist_room_upsert, with the room's mutex held.
Upserted(r, e) == [image EXCEPT ![r] = Snapshot(e)]

\* persist_room_remove.
Removed(r) == [image EXCEPT ![r] = NoRoom]

\* write_persisted_rooms_locked: the whole map replaces the file ...
Write(rs) ==
    /\ image' = rs /\ disk' = rs
    /\ pruned' = pruned \cup {r \in Rooms : disk[r] # NoRoom /\ rs[r] = NoRoom}
    /\ UNCHANGED failures

\* ... or the write throws: the map has the change, the file has not.
WriteFails(rs) ==
    /\ crashes + failures < MaxFaults
    /\ failures' = failures + 1
    /\ image' = rs
    /\ UNCHANGED <<disk, pruned>>

\* The handler that wrote goes on, whether or not the write succeeded.
PersistThenMutant(a, rs, next) == (Write(rs) \/ WriteFails(rs)) /\ Go(a, next)

\* A handler saves before it says anything: the exception of a failed write
\* ends it, and the session keeps the change.
PersistThen(a, rs, next) ==
    \/ Write(rs) /\ Go(a, next)
    \/ WriteFails(rs) /\ Go(a, Idle)

\* The RoomEntry constructor that takes an offer; it joins at once.
NewEntry(a, b) ==
    [a |-> a, b |-> b,
     session |-> Join(NewSession(DealTerms, fee, config.confirm,
                                 config.position)),
     version |-> 1, active |-> TRUE, keys |-> {}, final_ack |-> FALSE,
     restored |-> FALSE]

\* The RoomEntry constructor that takes a PersistedRoom: no keys, no receipt.
RestoredEntry(d) ==
    [a |-> d.a, b |-> d.b,
     session |-> Restore(d.session, config.confirm, config.position),
     version |-> d.version,
     active |-> d.session.state \notin {"Complete", "Aborted"},
     keys |-> {}, final_ack |-> FALSE, restored |-> TRUE]

Init ==
    /\ conn = [c \in Clients |-> "fresh"]
    /\ offers = [r \in Rooms |-> NoClient]
    /\ drawn = {}
    /\ rooms = {}
    /\ entry = [r \in Rooms |-> NoRoom]
    /\ disk = [r \in Rooms |-> NoRoom]
    /\ image = disk
    /\ failures = 0
    /\ config \in FeeConfigs
    /\ fee \in BOOLEAN
    /\ task = [a \in Actors |-> Idle]
    /\ crashes = 0
    /\ told = [r \in Rooms |-> 0]
    /\ outcomes = [r \in Rooms |-> {}]
    /\ issued = [r \in Rooms |-> {}]
    /\ recorded = [r \in Rooms |-> 0]
    /\ pruned = {}
    /\ hasty = {}
    /\ agreed = [r \in Rooms |-> FALSE]

-----------------------------------------------------------------------------
\* run(): a finished handshake becomes a client unless the mediator is full.
Connect(c) ==
    /\ conn[c] = "fresh"
    /\ Cardinality({d \in Clients : Up(d)}) < MaxClients
    /\ conn' = [conn EXCEPT ![c] = "up"]
    /\ UNCHANGED <<offers, drawn, rooms, entry, store, config, fee, task,
                   crashes, roomHistory>>

OpenOffers == {r \in Rooms : offers[r] # NoClient}

HandleCreateOffer(c, r) ==
    /\ Ready(c)
    /\ Cardinality(OpenOffers) < MaxOpenOffers
    /\ Cardinality({q \in OpenOffers : offers[q] = c}) < MaxOffersPerClient
    /\ r \notin drawn
    /\ drawn' = drawn \cup {r}
    /\ offers' = [offers EXCEPT ![r] = c]
    /\ UNCHANGED <<conn, rooms, entry, store, config, fee, task, crashes,
                   roomHistory>>

HandleCancelOffer(c, r) ==
    /\ Ready(c)
    /\ offers[r] = c
    /\ offers' = [offers EXCEPT ![r] = NoClient]
    /\ UNCHANGED <<conn, drawn, rooms, entry, store, config, fee, task,
                   crashes, roomHistory>>

\* handle_join_offer under hub_mutex_: the offer becomes a room, with the fee
\* of this moment.  (The branch for a creator who is gone is dead code:
\* OpenOffersHaveCreators.)
HandleJoinOffer(c, r) ==
    /\ Ready(c)
    /\ offers[r] \notin {NoClient, c}
    /\ Cardinality(rooms) < MaxRooms
    /\ Up(offers[r])
    /\ entry' = [entry EXCEPT ![r] = NewEntry(offers[r], c)]
    /\ rooms' = rooms \cup {r}
    /\ offers' = [offers EXCEPT ![r] = NoClient]
    /\ agreed' = [agreed EXCEPT ![r] = fee]
    /\ Go(c, Do("joined", r))
    /\ UNCHANGED <<conn, drawn, store, config, fee, crashes, told, outcomes,
                   issued, recorded, hasty>>

\* ... then under the room's mutex: the first persisted copy.
JoinPersist(c) ==
    LET r == task[c].room
    IN  /\ task[c].op = "joined"
        /\ PersistThen(c, Upserted(r, entry[r]), Do("ready", r))
        /\ UNCHANGED <<hub, entry, config, fee, crashes, roomHistory>>

\* ... then without a lock: ready_message throws for an aborted session,
\* otherwise both parties learn of the room.
JoinAnnounce(c) ==
    LET r == task[c].room
        e == entry[r]
    IN  /\ task[c].op = "ready"
        /\ told' = IF e.session.state = "Aborted" THEN told
                   ELSE [told EXCEPT ![r] = IF @ < e.version THEN e.version
                                                             ELSE @]
        /\ hasty' = IF disk[r] # NoRoom /\ disk[r].version < e.version
                    THEN hasty \cup {r} ELSE hasty
        /\ Go(c, Idle)
        /\ UNCHANGED <<hub, entry, store, config, fee, crashes, outcomes,
                       issued, recorded, agreed>>

-----------------------------------------------------------------------------
\* find_room_for, the first step of every request about a room: the handler
\* goes on with the RoomEntry it found, whatever becomes of rooms_.
FindRoomFor(c, r, request) ==
    /\ Ready(c)
    /\ r \in rooms
    /\ IsMember(entry[r], c)
    /\ Go(c, Do(request, r))
    /\ UNCHANGED <<hub, entry, store, config, fee, crashes, roomHistory>>

\* The room is no longer active, or the session (or a signature check)
\* refuses the message.
RejectRequest(c) ==
    /\ \/ task[c].op \in {"sent", "received", "ack"}
       \/ task[c].op = "abort" /\ ~entry[task[c].room].active
    /\ Go(c, Idle)
    /\ UNCHANGED <<hub, entry, store, config, fee, crashes, roomHistory>>

\* issue_receipt: it throws unless both parties announced their keys.
CanIssueReceipt(e) == e.keys = Parties

\* The last critical section of a room that completed: it becomes inactive
\* and the stage-4 receipt is issued.  If that throws, the handler ends here.
CompleteRoom(a, r, e, next) ==
    /\ entry' = [entry EXCEPT ![r] = [e EXCEPT !.active = FALSE]]
    /\ IF CanIssueReceipt(e)
       THEN /\ issued' = [issued EXCEPT ![r] = @ \cup
                  {IF e.final_ack THEN "completed" ELSE "completed_unchained"}]
            /\ Go(a, next)
       ELSE /\ Go(a, Idle)
            /\ UNCHANGED issued
    /\ UNCHANGED store

\* handle_sent under the room's mutex.
HandleSent(c) ==
    LET r == task[c].room
        e == entry[r]
        after == Advance(e, SenderReportedSent(e.session))
    IN  /\ task[c].op = "sent"
        /\ e.active
        /\ \E m \in Signals : SentAccepted(e.session, PartyFor(e, c), m)
        /\ IF after.session.state = "Complete"
           THEN CompleteRoom(c, r, after, Ending(r, "Complete"))
           ELSE /\ entry' = [entry EXCEPT ![r] = after]
                /\ PersistThen(c, Upserted(r, after),
                               IF /\ after.session.state = "WaitingForReceived"
                                  /\ ~Up(Peer(e, c))
                               THEN Do("abort", r)
                               ELSE Announce(r, after.version, "none"))
                /\ UNCHANGED issued
        /\ UNCHANGED <<hub, config, fee, crashes, told, outcomes, recorded,
                       hasty, agreed>>

\* handle_received under the room's mutex; on completion the sender is told
\* first, if it is still there, and the room pruned afterwards.
HandleReceived(c) ==
    LET r == task[c].room
        e == entry[r]
        after == Advance(e, ReceiverReportedReceived(e.session))
    IN  /\ task[c].op = "received"
        /\ e.active
        /\ \E m \in Signals : ReceivedAccepted(e.session, PartyFor(e, c), m)
        /\ IF after.session.state = "Complete"
           THEN CompleteRoom(c, r, after,
                             IF Up(Peer(e, c))
                             THEN Announce(r, after.version, "Complete")
                             ELSE Ending(r, "Complete"))
           ELSE /\ entry' = [entry EXCEPT ![r] = after]
                /\ PersistThen(c, Upserted(r, after),
                               Announce(r, after.version, "none"))
                /\ UNCHANGED issued
        /\ UNCHANGED <<hub, config, fee, crashes, told, outcomes, recorded,
                       hasty, agreed>>

\* handle_trade_ephemeral_key: no look at the room's state; the relay to the
\* peer that follows changes nothing here.
HandleTradeEphemeralKey(c) ==
    LET r == task[c].room
    IN  /\ task[c].op = "key"
        /\ entry' = [entry EXCEPT ![r].keys = @ \cup {PartyFor(entry[r], c)}]
        /\ Go(c, Idle)
        /\ UNCHANGED <<hub, store, config, fee, crashes, roomHistory>>

\* The acknowledged stage-3 receipt is issued but not kept for the next stage.
HandleReceiptAckMutant(c) ==
    LET r == task[c].room
        e == entry[r]
        p == PartyFor(e, c)
        after == Advance(e, AcknowledgeFinalReceipt(e.session, p))
        opened == after.session.state # "WaitingForFinalReceiptAck"
    IN  /\ task[c].op = "ack"
        /\ e.active
        /\ AckAccepted(e.session, p)
        /\ p \in e.keys
        /\ opened => CanIssueReceipt(e)
        /\ entry' = [entry EXCEPT ![r] = after]
        /\ issued' = [issued EXCEPT ![r] = IF opened THEN @ \cup {"penultimate"}
                                                     ELSE @]
        /\ PersistThen(c, Upserted(r, after),
                       IF opened THEN Announce(r, after.version, "none")
                                 ELSE Idle)
        /\ UNCHANGED <<hub, config, fee, crashes, told, outcomes, recorded,
                       hasty, agreed>>

\* handle_receipt_ack under the room's mutex; the acknowledgement that opens
\* the gate also issues the stage-3 receipt.
HandleReceiptAck(c) ==
    LET r == task[c].room
        e == entry[r]
        p == PartyFor(e, c)
        s == AcknowledgeFinalReceipt(e.session, p)
        opened == s.state # "WaitingForFinalReceiptAck"
        after == [Advance(e, s) EXCEPT !.final_ack = @ \/ opened]
    IN  /\ task[c].op = "ack"
        /\ e.active
        /\ AckAccepted(e.session, p)
        /\ p \in e.keys
        /\ opened => CanIssueReceipt(e)
        /\ entry' = [entry EXCEPT ![r] = after]
        /\ issued' = [issued EXCEPT ![r] = IF opened THEN @ \cup {"penultimate"}
                                                     ELSE @]
        /\ PersistThen(c, Upserted(r, after),
                       IF opened THEN Announce(r, after.version, "none")
                                 ELSE Idle)
        /\ UNCHANGED <<hub, config, fee, crashes, told, outcomes, recorded,
                       hasty, agreed>>

\* abort_room under the room's mutex, for handle_abort and for a Sent whose
\* receiver is gone.
AbortRoom(c) ==
    LET r == task[c].room
    IN  /\ task[c].op = "abort"
        /\ entry[r].active
        /\ entry' = [entry EXCEPT ![r] = AbortEntry(@)]
        /\ Go(c, Ending(r, "Abort"))
        /\ UNCHANGED <<hub, store, config, fee, crashes, roomHistory>>

\* The messages a handler sends once it holds no lock.
AnnounceStep(c) ==
    LET t == task[c]
    IN  /\ t.op = "announce"
        /\ told' = [told EXCEPT ![t.room] = IF @ < t.version THEN t.version
                                                             ELSE @]
        /\ hasty' = IF t.outcome = "none" THEN hasty ELSE hasty \cup {t.room}
        /\ Go(c, IF t.outcome = "none" THEN Idle ELSE Ending(t.room, t.outcome))
        /\ UNCHANGED <<hub, entry, store, config, fee, crashes, outcomes,
                       issued, recorded, agreed>>

-----------------------------------------------------------------------------
\* try_confirm_fee_locked: find the room, then one critical section.
FindPendingFee(o, r) ==
    /\ task[o] = Idle
    /\ r \in rooms
    /\ Go(o, Do("confirm", r))
    /\ UNCHANGED <<hub, entry, store, config, fee, crashes, roomHistory>>

\* Any room can be confirmed: it need neither wait for its fee nor be active.
ConfirmFeeMutant(o) ==
    LET r == task[o].room
    IN  /\ task[o].op = "confirm"
        /\ CompleteRoom(o, r, entry[r], Ending(r, "Complete"))
        /\ UNCHANGED <<hub, config, fee, crashes, told, outcomes, recorded,
                       hasty, agreed>>

ConfirmFee(o) ==
    LET r == task[o].room
        e == entry[r]
    IN  /\ task[o].op = "confirm"
        /\ IF Parked(e)
           THEN CompleteRoom(o, r, Advance(e, ConfirmFeeReceived(e.session)),
                             Ending(r, "Complete"))
           ELSE Go(o, Idle) /\ UNCHANGED <<entry, store, issued>>
        /\ UNCHANGED <<hub, config, fee, crashes, told, outcomes, recorded,
                       hasty, agreed>>

\* SETFEE on the admin channel.
SetFee ==
    /\ fee' = ~fee
    /\ UNCHANGED <<hub, entry, store, config, task, crashes, roomHistory>>

-----------------------------------------------------------------------------
\* The end of a room that completed or was aborted: record_completed_trade
\* and persist_room_remove, erase_room, the final message to whoever is there.
Prune(a) ==
    LET t == task[a]
    IN  /\ t.op = "prune"
        /\ Write(Removed(t.room))
        /\ recorded' = [recorded EXCEPT ![t.room] =
                           IF t.outcome = "Complete" THEN @ + 1 ELSE @]
        /\ Go(a, [t EXCEPT !.op = IF Leaving(a) THEN "tell" ELSE "erase"])
        /\ UNCHANGED <<hub, entry, config, fee, crashes, told, outcomes,
                       issued, hasty, agreed>>

\* A removal that fails ends the handler, with the room off but still in
\* rooms_ and nobody told; in remove_client nothing catches the exception,
\* and the process dies.
PruneFails(a) ==
    LET t == task[a]
    IN  /\ t.op = "prune"
        /\ ~Leaving(a)
        /\ WriteFails(Removed(t.room))
        /\ recorded' = [recorded EXCEPT ![t.room] =
                           IF t.outcome = "Complete" THEN @ + 1 ELSE @]
        /\ Go(a, Idle)
        /\ UNCHANGED <<hub, entry, config, fee, crashes, told, outcomes,
                       issued, hasty, agreed>>

EraseRoom(a) ==
    LET t == task[a]
    IN  /\ t.op = "erase"
        /\ rooms' = rooms \ {t.room}
        /\ Go(a, [t EXCEPT !.op = "tell"])
        /\ UNCHANGED <<conn, offers, drawn, entry, store, config, fee, crashes,
                       roomHistory>>

TellOutcome(a) ==
    LET t == task[a]
    IN  /\ t.op = "tell"
        /\ outcomes' = [outcomes EXCEPT ![t.room] =
               IF \E p \in Parties : Up(Member(entry[t.room], p))
               THEN @ \cup {t.outcome} ELSE @]
        /\ Go(a, IF Leaving(a) THEN [Idle EXCEPT !.op = "leave", !.todo = t.todo]
                               ELSE Idle)
        /\ UNCHANGED <<hub, entry, store, config, fee, crashes, told, issued,
                       recorded, hasty, agreed>>

-----------------------------------------------------------------------------
\* Only the rooms whose offer the client created are its rooms.
AffectedRoomsMutant(c) == {r \in rooms : entry[r].a = c /\ ~Parked(entry[r])}

\* remove_client under hub_mutex_: the client, its offers and its rooms
\* leave the hub, but a room parked for the operator stays.
AffectedRooms(c) == {r \in rooms : IsMember(entry[r], c) /\ ~Parked(entry[r])}

RemoveClient(c) ==
    /\ Ready(c)
    /\ conn' = [conn EXCEPT ![c] = "leaving"]
    /\ offers' = [r \in Rooms |-> IF offers[r] = c THEN NoClient ELSE offers[r]]
    /\ rooms' = rooms \ AffectedRooms(c)
    /\ Go(c, [Idle EXCEPT !.op = "leave", !.todo = AffectedRooms(c)])
    /\ UNCHANGED <<drawn, entry, store, config, fee, crashes, roomHistory>>

\* The room a leaving client aborts stays on disk.
LeaveRoomMutant(c, r) ==
    LET t == task[c]
    IN  /\ t.op = "leave"
        /\ r \in t.todo
        /\ IF entry[r].active
           THEN /\ entry' = [entry EXCEPT ![r] = AbortEntry(@)]
                /\ Go(c, [Ending(r, "Abort") EXCEPT !.op = "tell",
                                                   !.todo = t.todo \ {r}])
           ELSE /\ Go(c, [t EXCEPT !.todo = @ \ {r}])
                /\ UNCHANGED entry
        /\ UNCHANGED <<hub, store, config, fee, crashes, roomHistory>>

\* ... then room by room under the room's mutex.
LeaveRoom(c, r) ==
    LET t == task[c]
    IN  /\ t.op = "leave"
        /\ r \in t.todo
        /\ IF entry[r].active
           THEN /\ entry' = [entry EXCEPT ![r] = AbortEntry(@)]
                /\ Go(c, [Ending(r, "Abort") EXCEPT !.todo = t.todo \ {r}])
           ELSE /\ Go(c, [t EXCEPT !.todo = @ \ {r}])
                /\ UNCHANGED entry
        /\ UNCHANGED <<hub, store, config, fee, crashes, roomHistory>>

\* ... and the connection's thread ends.
LeaveDone(c) ==
    /\ task[c].op = "leave"
    /\ task[c].todo = {}
    /\ conn' = [conn EXCEPT ![c] = "gone"]
    /\ Go(c, Idle)
    /\ UNCHANGED <<offers, drawn, rooms, entry, store, config, fee, crashes,
                   roomHistory>>

\* The process starts again: load_persisted_rooms_at_startup.  No later
\* connection has the ClientId of an earlier one.
Restart ==
    /\ conn' = [c \in Clients |-> IF conn[c] = "fresh" THEN "fresh" ELSE "gone"]
    /\ offers' = [r \in Rooms |-> NoClient]
    /\ rooms' = {r \in Rooms : disk[r] # NoRoom}
    /\ entry' = [r \in Rooms |-> IF disk[r] = NoRoom THEN NoRoom
                                 ELSE RestoredEntry(disk[r])]
    /\ image' = disk
    /\ task' = [a \in Actors |-> Idle]
    /\ UNCHANGED <<drawn, disk, pruned, config, fee, roomHistory>>

CrashAndRestart ==
    /\ crashes + failures < MaxFaults
    /\ crashes' = crashes + 1
    /\ Restart
    /\ UNCHANGED failures

PruneFailsLeaving(c) ==
    /\ task[c].op = "prune"
    /\ Leaving(c)
    /\ crashes + failures < MaxFaults
    /\ failures' = failures + 1
    /\ Restart
    /\ UNCHANGED crashes

-----------------------------------------------------------------------------
\* What a busy thread does next.
ClientStep(c) ==
    \/ JoinPersist(c) \/ JoinAnnounce(c)
    \/ RejectRequest(c)
    \/ HandleSent(c) \/ HandleReceived(c)
    \/ HandleTradeEphemeralKey(c) \/ HandleReceiptAck(c)
    \/ AbortRoom(c) \/ AnnounceStep(c)
    \/ \E r \in Rooms : LeaveRoom(c, r)
    \/ LeaveDone(c)
    \/ PruneFailsLeaving(c)

EndStep(a) == Prune(a) \/ PruneFails(a) \/ EraseRoom(a) \/ TellOutcome(a)

Request(c) ==
    \/ \E r \in Rooms : \/ HandleCreateOffer(c, r)
                        \/ HandleCancelOffer(c, r)
                        \/ HandleJoinOffer(c, r)
                        \/ \E q \in Requests : FindRoomFor(c, r, q)
    \/ RemoveClient(c)

Next ==
    \/ \E c \in Clients : Connect(c) \/ Request(c) \/ ClientStep(c)
    \/ \E o \in Operators : \/ \E r \in Rooms : FindPendingFee(o, r)
                            \/ ConfirmFee(o)
    \/ \E a \in Actors : EndStep(a)
    \/ SetFee
    \/ CrashAndRestart

Spec == Init /\ [][Next]_vars

\* Threads are scheduled: a handler that is under way comes to its end.
ThreadsRun ==
    /\ \A c \in Clients : WF_vars(ClientStep(c))
    /\ \A o \in Operators : WF_vars(ConfirmFee(o))
    /\ \A a \in Actors : WF_vars(EndStep(a))

FairSpec == Spec /\ ThreadsRun

-----------------------------------------------------------------------------
TypeOK ==
    /\ conn \in [Clients -> {"fresh", "up", "leaving", "gone"}]
    /\ offers \in [Rooms -> Clients \cup {NoClient}]
    /\ drawn \subseteq Rooms
    /\ rooms \subseteq drawn
    /\ entry \in [Rooms -> Entries \cup {NoRoom}]
    /\ disk \in [Rooms -> Snapshots \cup {NoRoom}]
    /\ image \in [Rooms -> Snapshots \cup {NoRoom}]
    /\ \A r \in rooms : entry[r] # NoRoom /\ offers[r] = NoClient
    /\ config \in FeeConfigs
    /\ fee \in BOOLEAN
    /\ task \in [Actors -> [op : Ops, room : Rooms \cup {NoRoom},
                            version : Nat, todo : SUBSET Rooms,
                            outcome : {"none", "Complete", "Abort"}]]
    /\ crashes + failures \in 0..MaxFaults

\* The branch of handle_join_offer for a creator who is gone is unreachable:
\* remove_client takes a client and its offers out of the hub together, so an
\* open offer always has a connected creator.
OpenOffersHaveCreators == \A r \in OpenOffers : Up(offers[r])

\* The parties of a room are told Complete or Abort, never both and never
\* about a trade recorded twice, however completion, abort, confirmation,
\* disconnects and a crash race: whoever clears `active` first decides.
OneOutcome ==
    \A r \in Rooms : /\ outcomes[r] # {"Complete", "Abort"}
                     /\ recorded[r] <= 1
                     /\ "Abort" \in outcomes[r] => recorded[r] = 0

\* Complete is announced only for a session that is Complete, and that ran
\* with the fee the offer had when it was taken, whatever SETFEE did since.
CompleteMeansSettled ==
    \A r \in Rooms :
        "Complete" \in outcomes[r] /\ entry[r] # NoRoom
            => /\ entry[r].session.state = "Complete"
               /\ entry[r].session.fee = agreed[r]

\* A live room never waits for a client that left: each party is connected,
\* or the room is parked for the operator, or it was read back from disk.
NoOrphanedRooms ==
    \A r \in rooms :
        \/ ~entry[r].active
        \/ Parked(entry[r])
        \/ entry[r].restored
        \/ \A p \in Parties : Up(Member(entry[r], p))

\* The receipt chain of issue_receipt: the settlement receipt is issued only
\* on top of the acknowledged penultimate one.
SettlementReceiptChained ==
    \A r \in Rooms :
        /\ "completed_unchained" \notin issued[r]
        /\ "completed" \in issued[r] => "penultimate" \in issued[r]

\* Outside the creation of a room, a live room and what persistence keeps of
\* it are the same version: every critical section that advances a session
\* saves it, and a write that failed is made good by the next one.
LiveRoomsOnDisk ==
    /\ image # disk => failures > 0
    /\ \A r \in Rooms :
          \/ entry[r] = NoRoom
          \/ ~entry[r].active
          \/ \E c \in Clients : task[c] = Do("joined", r)
          \/ image[r] # NoRoom /\ image[r].version = entry[r].version

\* "The mediator must never tell a client about a transition it could still
\* forget on the very next crash": what a client was told is on disk, or the
\* room's end is.
NeverForgets ==
    \A r \in Rooms :
        \/ told[r] = 0
        \/ r \in pruned
        \/ disk[r] # NoRoom /\ told[r] <= disk[r].version

\* The same when writes may fail: no client is told of a change that a crash
\* can still undo.  Two messages are left out: the Received that completes a
\* room (NeverForgets), and handle_join_offer's announcement of a session that
\* moved on while nothing was locked, when the write of that move failed.
NeverForgetsOpenRooms ==
    \A r \in Rooms :
        \/ told[r] = 0
        \/ r \in pruned \cup hasty
        \/ disk[r] # NoRoom /\ told[r] <= disk[r].version

\* "Complete/Aborted are pruned immediately, not persisted": no finished
\* session is ever in the persistence file.
NoFinishedRoomOnDisk ==
    \A r \in Rooms :
        disk[r] # NoRoom => disk[r].session.state \notin {"Complete", "Aborted"}

\* The PRECONDITION of issue_receipt: when an operator can confirm a room's
\* fee, both parties' keys are known.
ConfirmableRoomsHaveKeys ==
    \A r \in rooms : Parked(entry[r]) => CanIssueReceipt(entry[r])

\* remove_client's promise: a disconnect does not abort a room that is waiting
\* for the operator; only an explicit abort request ends it.
ParkedRoomSurvives(r) ==
    (/\ entry[r] # NoRoom
     /\ Parked(entry[r])
     /\ entry'[r] # NoRoom
     /\ entry'[r].session.state = "Aborted")
        => \E c \in Clients : /\ task[c] = Do("abort", r)
                              /\ task'[c] # task[c]

DisconnectSparesParkedRooms == [][\A r \in Rooms : ParkedRoomSurvives(r)]_vars

\* A room that is over is eventually gone from the hub and from the disk, and
\* a party that stays connected has been told how it ended: no interleaving of
\* the handlers loses the clean-up.  (Left out is the room that its own
\* creation writes to disk after its end; NoFinishedRoomOnDisk is about it.)
OverRoomsCleanedUp ==
    \A r \in Rooms :
        (/\ entry[r] # NoRoom
         /\ ~entry[r].active
         /\ \A c \in Clients : task[c] # Do("joined", r)
         /\ disk[r] # NoRoom => disk[r].session.state # "Aborted")
            ~> (/\ disk[r] = NoRoom
                /\ r \notin rooms
                /\ \/ outcomes[r] # {}
                   \/ /\ entry[r] # NoRoom
                      /\ \A p \in Parties : ~Up(Member(entry[r], p)))
=============================================================================

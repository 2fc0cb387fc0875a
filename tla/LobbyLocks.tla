----------------------------- MODULE LobbyLocks -----------------------------
(***************************************************************************)
(* The mutexes of lobby.cpp and the order in which its threads take them:  *)
(* hub_mutex_, one mutex per room, persistence_mutex_, fee_mutex_ and      *)
(* price_history_mutex_, all std::mutex held by std::scoped_lock.  What    *)
(* the critical sections do is the subject of Lobby; here a handler is the *)
(* sequence of lock and unlock operations it performs.  Where a handler    *)
(* branches, each branch is a sequence of its own.                         *)
(*                                                                         *)
(* queue_mutex is left out: Client::enqueue and take_outgoing take it with *)
(* no other mutex held and take none while they hold it.                   *)
(***************************************************************************)
EXTENDS Naturals, Sequences

CONSTANTS Threads,   \* connection threads, the admin, plugin, snapshot threads
          Rooms,     \* rooms whose parties the threads serve
          Handlers   \* the handlers that this instance lets threads run

\* The mutexes of Impl; every RoomEntry has one more, named by its room.
ImplMutexes == {"hub", "persistence", "fee", "prices"}
Mutexes == Rooms \cup ImplMutexes

AllHandlers ==
    {"offers", "join", "report", "reportComplete", "reportPeerGone", "ack",
     "key", "abort", "recovery", "confirm", "inspect", "setFee", "load",
     "removeClient"}

ASSUME LocksAssumption ==
    /\ Rooms \cap ImplMutexes = {}
    /\ Handlers \subseteq AllHandlers

VARIABLES rest,      \* what is left of the handler each thread runs
          held       \* the mutexes each thread holds

lockVars == <<rest, held>>

-----------------------------------------------------------------------------
\* A critical section of mutex m around body, and an empty one.
Locked(m, body) == <<[do |-> "lock", mutex |-> m]>> \o body
                      \o <<[do |-> "unlock", mutex |-> m]>>

Touch(m) == Locked(m, <<>>)

FindRoomFor == Touch("hub")
ClientForParty == Touch("hub")
SendToRoom == Touch("hub")
EraseRoom == Touch("hub")
CurrentFee == Touch("fee")
RecordCompletedTrade == Touch("prices")
PersistRoomUpsert == Touch("persistence")
PersistRoomRemove == Touch("persistence")

FinishRoom == RecordCompletedTrade \o PersistRoomRemove \o EraseRoom
                 \o SendToRoom \o SendToRoom

AbortRoom(r) == Touch(r) \o PersistRoomRemove \o EraseRoom \o SendToRoom

\* handle_create_offer, handle_cancel_offer, handle_list_offers.
HandleOffers == Touch("hub")

HandleJoinOffer(r) ==
    Locked("hub", CurrentFee) \o Locked(r, PersistRoomUpsert) \o SendToRoom

\* handle_sent and handle_received: the peer is looked up in the hub with the
\* room's mutex held.
ReportContinues(r) ==
    FindRoomFor \o Locked(r, ClientForParty \o PersistRoomUpsert) \o SendToRoom

ReportCompletes(r) ==
    FindRoomFor \o Locked(r, ClientForParty) \o FinishRoom

ReportPeerGone(r) ==
    FindRoomFor \o Locked(r, ClientForParty \o PersistRoomUpsert) \o AbortRoom(r)

\* A fault for the mutation check: persistence_mutex_ around the room's mutex.
HandleReceiptAckMutant(r) ==
    FindRoomFor \o Locked("persistence", Touch(r)) \o SendToRoom \o SendToRoom

HandleReceiptAck(r) ==
    FindRoomFor \o Locked(r, PersistRoomUpsert) \o SendToRoom \o SendToRoom

\* handle_trade_ephemeral_key, with the relay's own find_room_for.
HandleTradeEphemeralKey(r) ==
    FindRoomFor \o Touch(r) \o FindRoomFor \o ClientForParty

HandleAbort(r) == FindRoomFor \o AbortRoom(r)

HandleRecoveryStateRequest(r) ==
    Touch("hub") \o Touch(r) \o Touch(r) \o ClientForParty \o ClientForParty

TryConfirmFee(r) == Touch("hub") \o Touch(r) \o FinishRoom

\* pending_fee_details_locked and write_state_snapshot copy the room pointers
\* first and lock the rooms one at a time.
InspectRooms(r) == Touch("hub") \o Touch(r)

SetFee == Touch("fee")

\* remove_client: every room of the client is locked inside the hub's lock to
\* see whether it is parked, then the affected ones are aborted.
RemoveClient(r) ==
    Locked("hub", Touch(r)) \o Touch(r) \o PersistRoomRemove \o SendToRoom

\* load_persisted_rooms_at_startup: no connection is served yet, but the admin
\* and plugin threads run.
LoadPersistedRooms == Locked("hub", Touch("persistence"))

Program(h, r) ==
    CASE h = "offers"         -> HandleOffers
      [] h = "join"           -> HandleJoinOffer(r)
      [] h = "report"         -> ReportContinues(r)
      [] h = "reportComplete" -> ReportCompletes(r)
      [] h = "reportPeerGone" -> ReportPeerGone(r)
      [] h = "ack"            -> HandleReceiptAck(r)
      [] h = "key"            -> HandleTradeEphemeralKey(r)
      [] h = "abort"          -> HandleAbort(r)
      [] h = "recovery"       -> HandleRecoveryStateRequest(r)
      [] h = "confirm"        -> TryConfirmFee(r)
      [] h = "inspect"        -> InspectRooms(r)
      [] h = "setFee"         -> SetFee
      [] h = "load"           -> LoadPersistedRooms
      [] h = "removeClient"   -> RemoveClient(r)

-----------------------------------------------------------------------------
LocksInit ==
    /\ rest = [t \in Threads |-> <<>>]
    /\ held = [t \in Threads |-> {}]

\* A thread begins a handler.
Begin(t, h, r) ==
    /\ rest[t] = <<>>
    /\ rest' = [rest EXCEPT ![t] = Program(h, r)]
    /\ UNCHANGED held

Wants(t, m) ==
    /\ rest[t] # <<>>
    /\ Head(rest[t]).do = "lock"
    /\ Head(rest[t]).mutex = m

Lock(t) ==
    /\ rest[t] # <<>>
    /\ LET m == Head(rest[t]).mutex
       IN  /\ Wants(t, m)
           /\ \A u \in Threads : m \notin held[u]
           /\ held' = [held EXCEPT ![t] = @ \cup {m}]
    /\ rest' = [rest EXCEPT ![t] = Tail(@)]

Unlock(t) ==
    /\ rest[t] # <<>>
    /\ Head(rest[t]).do = "unlock"
    /\ held' = [held EXCEPT ![t] = @ \ {Head(rest[t]).mutex}]
    /\ rest' = [rest EXCEPT ![t] = Tail(@)]

LocksNext ==
    \E t \in Threads : \/ \E h \in Handlers, r \in Rooms : Begin(t, h, r)
                       \/ Lock(t)
                       \/ Unlock(t)

LocksSpec == LocksInit /\ [][LocksNext]_lockVars

-----------------------------------------------------------------------------
Waits(t, u) == \E m \in held[u] : Wants(t, m)

\* The "lock-ordering discipline" lobby.cpp's comments rely on: there is never
\* a group of threads each of which waits for a mutex that a member of the
\* group holds (a thread that waits for itself included).
NoDeadlock ==
    ~ \E S \in SUBSET Threads : /\ S # {}
                                /\ \A t \in S : \E u \in S : Waits(t, u)
=============================================================================

---------------------------- MODULE Lobby_proofs ----------------------------
(***************************************************************************)
(* What the mediator server guarantees for every set of clients, operators *)
(* and rooms, every limit, and any number of crashes and failed writes.    *)
(*                                                                         *)
(* A step is first put into one of a few kinds (Rests, Talks, Keyed,       *)
(* Opens, Saves, Moves, Finishes, Removes, Restarts), which say what it    *)
(* does to rooms, to their saved copies and to the threads; the parts of   *)
(* the inductive invariant are then preserved kind by kind.                *)
(***************************************************************************)
EXTENDS Lobby, TLAPS

Tasks == [op : Ops, room : Rooms \cup {NoRoom}, version : Nat,
          todo : SUBSET Rooms, outcome : {"none", "Complete", "Abort"}]

Hub ==
    /\ conn \in [Clients -> {"fresh", "up", "leaving", "gone"}]
    /\ offers \in [Rooms -> Clients \cup {NoClient}]
    /\ drawn \subseteq Rooms /\ rooms \subseteq drawn
    /\ \A r \in rooms : entry[r] # NoRoom /\ offers[r] = NoClient
    /\ \A r \in Rooms : offers[r] # NoClient => r \in drawn
    /\ config \in FeeConfigs
    /\ fee \in BOOLEAN

Shapes ==
    /\ entry \in [Rooms -> Entries \cup {NoRoom}]
    /\ disk \in [Rooms -> Snapshots \cup {NoRoom}]
    /\ image \in [Rooms -> Snapshots \cup {NoRoom}]
    /\ task \in [Actors -> Tasks]
    /\ crashes \in Nat /\ failures \in Nat /\ crashes + failures <= MaxFaults
    /\ told \in [Rooms -> Nat] /\ recorded \in [Rooms -> Nat]
    /\ outcomes \in [Rooms -> SUBSET {"Complete", "Abort"}]
    /\ issued \in [Rooms -> SUBSET {"penultimate", "completed",
                                    "completed_unchained"}]
    /\ agreed \in [Rooms -> BOOLEAN]

-----------------------------------------------------------------------------
\* What a continuation t has to do with room r.
Concerns(t, r) == t.room = r \/ r \in t.todo

\* It is the ending of the room ...
Ends(t, r) ==
    /\ t.room = r
    /\ \/ t.op \in {"prune", "erase", "tell"}
       \/ t.op = "announce" /\ t.outcome # "none"

\* ... before and after the room is recorded and removed from the file.
Due(t, r) == Ends(t, r) /\ t.op \in {"announce", "prune"}
Late(t, r, o) == t.room = r /\ t.outcome = o /\ t.op \in {"erase", "tell"}

\* It tells the parties of a change that was saved.
Speaks(t, r) == t.room = r /\ t.op = "announce" /\ t.outcome = "none"

\* It announces the room, whose first copy was saved.
Welcomes(t, r) == t.room = r /\ t.op = "ready"

\* What rooms_, the persistence file or a thread mentions has a RoomEntry.
KnownInv ==
    /\ \A r \in Rooms :
          disk[r] # NoRoom \/ image[r] # NoRoom => entry[r] # NoRoom
    /\ \A a \in Actors :
          /\ task[a].op \notin {"idle", "leave"} => task[a].room \in Rooms
          /\ task[a].op \in {"idle", "leave"} => task[a].room = NoRoom
          /\ task[a].op \in {"prune", "erase", "tell"}
                => task[a].outcome # "none"
          /\ \A r \in Rooms : Concerns(task[a], r) => entry[r] # NoRoom

\* An id that is not drawn, or whose offer is still open, has left no trace.
Fresh(r) == r \notin drawn \/ offers[r] # NoClient

Blank(r) ==
    /\ entry[r] = NoRoom /\ disk[r] = NoRoom /\ image[r] = NoRoom
    /\ outcomes[r] = {} /\ recorded[r] = 0 /\ issued[r] = {} /\ told[r] = 0

BlankInv == \A r \in Rooms : Fresh(r) => Blank(r)

\* Whoever clears `active` ends the room, alone; a restored room is never
\* ended by anyone.
EndInv == \A a \in Actors, r \in Rooms :
    Ends(task[a], r) =>
        /\ ~entry[r].active
        /\ ~entry[r].restored
        /\ \A b \in Actors : Ends(task[b], r) => b = a

\* Parties are clients that connected; those of a restored room are gone.
Was(c) == conn[c] # "fresh"
Gone(c) == conn[c] = "gone"

MembersInv ==
    /\ \A c \in Clients : task[c] # Idle => ~Gone(c) /\ Was(c)
    /\ \A r \in Rooms : entry[r] # NoRoom =>
          /\ Was(entry[r].a) /\ Was(entry[r].b)
          /\ entry[r].restored => /\ Gone(entry[r].a) /\ Gone(entry[r].b)
                                  /\ entry[r].keys = {}
    /\ \A r \in Rooms : disk[r] # NoRoom => Was(disk[r].a) /\ Was(disk[r].b)
    /\ \A r \in Rooms : image[r] # NoRoom => Was(image[r].a) /\ Was(image[r].b)
    /\ \A c \in Clients :
          /\ task[c].op \in Requests => IsMember(entry[task[c].room], c)
          /\ \A r \in task[c].todo : IsMember(entry[r], c)
          /\ task[c].op = "leave" => conn[c] = "leaving"

\* A session as the mediator's configuration lets it be.
Legal(s, cfg) ==
    /\ s \in Sessions
    /\ s.confirm = cfg.confirm /\ s.position = cfg.position
    /\ s.state \in {"WaitingForSent", "WaitingForReceived"} => s.round < Rounds
    /\ s.state = "WaitingForFeeSent" /\ s.position # "AfterLastRound"
          => s.round < Rounds /\ s.leg = 0
    /\ s.state = "WaitingForFeeConfirmation"
          => /\ s.confirm
             /\ s.position # "AfterLastRound" => s.round < Rounds /\ s.leg = 0
    /\ s.state = "WaitingForFinalReceiptAck" /\ s.round = Rounds
          => GateIsFeeLeg(s)

\* The session is behind its gate: what is left of it ends the room.
PastGate(s) ==
    \/ /\ s.state \in {"WaitingForSent", "WaitingForReceived"}
       /\ s.leg = 1 /\ s.round + 1 = Rounds
       /\ ~s.fee \/ s.position # "AfterLastRound"
    \/ /\ s.state \in {"WaitingForFeeSent", "WaitingForFeeConfirmation"}
       /\ s.position = "AfterLastRound"

\* Nobody gets there without the acknowledged stage-3 receipt, which is lost
\* only when the room is read back from disk.
Gated(e) == PastGate(e.session) => e.final_ack \/ e.restored

\* An operator confirms only fees that are paid after the last round.
Trailing == \A c \in FeeConfigs : c.confirm => c.position = "AfterLastRound"

Fits(x, r) == Legal(x.session, config) /\ x.session.fee = agreed[r]

SessionInv == \A r \in Rooms : /\ entry[r] # NoRoom => Fits(entry[r], r)
                               /\ disk[r] # NoRoom => Fits(disk[r], r)
                               /\ image[r] # NoRoom => Fits(image[r], r)

\* The file is never ahead of the map to be written, nor that of the room.
VersionInv == \A r \in Rooms :
    /\ disk[r] # NoRoom => disk[r].version <= entry[r].version
    /\ image[r] # NoRoom => image[r].version <= entry[r].version
    /\ disk[r] # NoRoom /\ image[r] # NoRoom
          => disk[r].version <= image[r].version

\* Version v of the room is on disk, or the room's end is.
Safe(r, v) == r \in pruned \/ (disk[r] # NoRoom /\ v <= disk[r].version)

SafeInv ==
    /\ \A a \in Actors, r \in Rooms :
          /\ Speaks(task[a], r) => Safe(r, task[a].version)
          /\ Welcomes(task[a], r) => Safe(r, 0)
    /\ NeverForgetsOpenRooms

\* How a room ended is not known before the thread that ended it says so.
Untold(r) == outcomes[r] = {} /\ recorded[r] = 0

OutcomeInv ==
    /\ \A r \in Rooms :
          entry[r] # NoRoom /\ entry[r].active /\ ~entry[r].restored
              => Untold(r)
    /\ \A a \in Actors, r \in Rooms : Due(task[a], r) => Untold(r)
    /\ \A a \in Actors, r \in Rooms : \A o \in {"Complete", "Abort"} :
          Late(task[a], r, o) =>
              /\ outcomes[r] = {}
              /\ recorded[r] = IF o = "Complete" THEN 1 ELSE 0
    /\ OneOutcome

-----------------------------------------------------------------------------
\* The session's methods keep a session legal and its fee as agreed.
LEMMA NewLegal ==
    ASSUME NEW f \in BOOLEAN, NEW cfg \in FeeConfigs
    PROVE  LET s == Join(NewSession(DealTerms, f, cfg.confirm, cfg.position))
           IN  Legal(s, cfg) /\ s.fee = f
<1>1. cfg \in [confirm : BOOLEAN, position : FeePositions] /\ Rounds \in Nat \ {0}
  BY LobbyAssumption
<1> QED
  BY <1>1 DEF Join, NewSession, FeeDueBeforeAnyRound, Legal, Sessions,
     SessionStates, DealTerms

\* handle_sent's call of the session.
LEMMA SentLegal ==
    ASSUME NEW cfg, NEW s, Legal(s, cfg),
           s.state \in {"WaitingForFeeSent", "WaitingForSent"}
    PROVE  /\ Legal(SenderReportedSent(s), cfg)
           /\ SenderReportedSent(s).fee = s.fee
  BY LobbyAssumption DEF SenderReportedSent, Legal, Sessions, SessionStates, GateIsFeeLeg

\* handle_received's call: the next leg, the next round, the gate or the end.
LEMMA ReceivedLegal ==
    ASSUME NEW cfg, NEW s, Legal(s, cfg), s.state = "WaitingForReceived"
    PROVE  /\ Legal(ReceiverReportedReceived(s), cfg)
           /\ ReceiverReportedReceived(s).fee = s.fee
<1>1. s.terms.rounds = Rounds /\ Rounds \in Nat \ {0} /\ s.round \in 0..Rounds
      /\ s.leg \in {0, 1} /\ s.round < Rounds
  BY LobbyAssumption DEF Legal, Sessions, DealTerms
<1> DEFINE n == ReceiverReportedReceived(s)
<1>2. s \in Sessions
  BY DEF Legal
<1>3. n \in Sessions /\ n.fee = s.fee /\ n.confirm = s.confirm
      /\ n.position = s.position /\ n.terms = s.terms
  <2>1. \A l \in {0, 1}, k \in 0..Rounds, ack \in SUBSET Parties,
           st \in SessionStates :
           LET x == [s EXCEPT !.leg = l, !.round = k, !.acked = ack,
                              !.state = st]
           IN  x \in Sessions /\ x.fee = s.fee /\ x.confirm = s.confirm
               /\ x.position = s.position /\ x.terms = s.terms
    <3> SUFFICES ASSUME NEW l \in {0, 1}, NEW k \in 0..Rounds,
                        NEW ack \in SUBSET Parties, NEW st \in SessionStates
                 PROVE  LET x == [s EXCEPT !.leg = l, !.round = k, !.acked = ack,
                                           !.state = st]
                        IN  x \in Sessions /\ x.fee = s.fee /\ x.confirm = s.confirm
                            /\ x.position = s.position /\ x.terms = s.terms
      OBVIOUS
    <3> QED
      BY <1>2 DEF Sessions
  <2>2. s.acked \in SUBSET Parties /\ {} \in SUBSET Parties
    BY <1>2 DEF Sessions
  <2>3. CASE s.leg = 0
    <3>1. PICK ack \in SUBSET Parties, st \in SessionStates :
             n = [s EXCEPT !.leg = 1, !.acked = ack, !.state = st]
      BY <2>2, <2>3 DEF ReceiverReportedReceived, AdvanceAfterReceipt,
         AfterFirstLeg, SessionStates
    <3>2. n = [s EXCEPT !.leg = 1, !.round = s.round, !.acked = ack,
                        !.state = st]
      BY <3>1, <1>2 DEF Sessions
    <3>3. 1 \in {0, 1} /\ s.round \in 0..Rounds
      BY <1>1
    <3> HIDE DEF n
    <3> QED
      BY <3>2, <3>3, <2>1, ZenonT(40)
  <2>4. CASE s.leg # 0
    <3>1. s.round + 1 \in 0..Rounds
      BY <1>1
    <3>2. PICK ack \in SUBSET Parties, st \in SessionStates :
             n = [s EXCEPT !.leg = 0, !.round = s.round + 1, !.acked = ack,
                           !.state = st]
      BY <2>2, <2>4 DEF ReceiverReportedReceived, AdvanceAfterReceipt,
         AfterSecondLeg, SessionStates
    <3> HIDE DEF n
    <3> QED
      BY <3>1, <3>2, <2>1, ZenonT(40)
  <2> QED
    BY <2>3, <2>4
<1>4. ASSUME s.leg = 0
      PROVE  /\ n.round = s.round
             /\ n.state \in {"WaitingForFinalReceiptAck", "WaitingForSent"}
  BY <1>1, <1>2, <1>4 DEF ReceiverReportedReceived, AdvanceAfterReceipt,
     AfterFirstLeg, Sessions
<1>5. ASSUME s.leg # 0
      PROVE  /\ n.round = s.round + 1 /\ n.leg = 0
             /\ n.state \in {"WaitingForFeeSent", "WaitingForFinalReceiptAck",
                             "Complete", "WaitingForSent"}
             /\ n.state = "WaitingForFeeSent" => n.round < Rounds
             /\ n.state = "WaitingForSent" => n.round # Rounds
             /\ n.state = "WaitingForFinalReceiptAck" =>
                   s.fee /\ s.position = "AfterLastRound"
  BY <1>1, <1>2, <1>5 DEF ReceiverReportedReceived, AdvanceAfterReceipt,
     AfterSecondLeg, Sessions
<1>6. n.round \in 0..Rounds
  BY <1>3 DEF Sessions
<1> HIDE DEF n
<1>7. Legal(n, cfg)
  BY <1>1, <1>3, <1>4, <1>5, <1>6 DEF Legal, GateIsFeeLeg
<1> QED
  BY <1>3, <1>7 DEF n

\* ... and no message brings it behind its gate but the acknowledgement.
LEMMA SentGate ==
    ASSUME NEW cfg, NEW s, Legal(s, cfg),
           s.state \in {"WaitingForFeeSent", "WaitingForSent"}
    PROVE  /\ PastGate(SenderReportedSent(s)) => PastGate(s)
           /\ SenderReportedSent(s).state = "Complete" => PastGate(s)
<1> DEFINE n == SenderReportedSent(s)
<1>1. s \in Sessions
  BY DEF Legal
<1>2. n.leg = s.leg /\ n.round = s.round /\ n.position = s.position
      /\ n.fee = s.fee
  BY <1>1 DEF SenderReportedSent, Sessions
<1>3. /\ s.state = "WaitingForSent" => n.state = "WaitingForReceived"
      /\ s.state = "WaitingForFeeSent" =>
            /\ n.state \in {"WaitingForFeeConfirmation", "Complete",
                            "WaitingForSent"}
            /\ n.state = "Complete" => s.position = "AfterLastRound"
            /\ n.state = "WaitingForSent" => s.position # "AfterLastRound"
  BY <1>1 DEF SenderReportedSent, Sessions
<1>4. s.state = "WaitingForFeeSent" /\ s.position # "AfterLastRound" => s.leg = 0
  BY DEF Legal
<1> HIDE DEF n
<1> QED
  BY <1>2, <1>3, <1>4 DEF PastGate, n

\* A Received completes a session only from behind the gate.
LEMMA ReceivedGate ==
    ASSUME NEW cfg, NEW s, Legal(s, cfg), s.state = "WaitingForReceived"
    PROVE  /\ ~PastGate(ReceiverReportedReceived(s))
           /\ ReceiverReportedReceived(s).state = "Complete" => PastGate(s)
<1> DEFINE n == ReceiverReportedReceived(s)
<1>1. s \in Sessions /\ s.terms.rounds = Rounds /\ s.leg \in {0, 1}
  BY DEF Legal, Sessions, DealTerms
<1>2. ASSUME s.leg = 0
      PROVE  /\ n.state \in {"WaitingForFinalReceiptAck", "WaitingForSent"}
             /\ n.round = s.round /\ n.fee = s.fee /\ n.position = s.position
             /\ n.state = "WaitingForSent" =>
                   ~(/\ s.round + 1 = Rounds
                     /\ ~s.fee \/ s.position # "AfterLastRound")
  BY <1>1, <1>2 DEF ReceiverReportedReceived, AdvanceAfterReceipt,
     AfterFirstLeg, Sessions
<1>3. ASSUME s.leg # 0
      PROVE  /\ n.leg = 0 /\ n.position = s.position
             /\ n.state \in {"WaitingForFeeSent", "WaitingForFinalReceiptAck",
                             "Complete", "WaitingForSent"}
             /\ n.state = "WaitingForFeeSent" => s.position # "AfterLastRound"
             /\ n.state = "Complete" =>
                   /\ s.round + 1 = Rounds
                   /\ ~s.fee \/ s.position # "AfterLastRound"
  BY <1>1, <1>3 DEF ReceiverReportedReceived, AdvanceAfterReceipt,
     AfterSecondLeg, Sessions
<1> HIDE DEF n
<1> QED
  BY <1>1, <1>2, <1>3 DEF PastGate, n

\* An acknowledgement of the stage-3 receipt.
LEMMA AckLegal ==
    ASSUME NEW cfg, NEW s, NEW p \in Parties, Legal(s, cfg),
           s.state = "WaitingForFinalReceiptAck"
    PROVE  /\ Legal(AcknowledgeFinalReceipt(s, p), cfg)
           /\ AcknowledgeFinalReceipt(s, p).fee = s.fee
<1>1. s.terms.rounds = Rounds /\ Rounds \in Nat \ {0} /\ s.round \in 0..Rounds
  BY LobbyAssumption DEF Legal, Sessions, DealTerms
<1> DEFINE n == AcknowledgeFinalReceipt(s, p)
<1>2. s \in Sessions
  BY DEF Legal
<1>3. n \in Sessions /\ n.fee = s.fee /\ n.confirm = s.confirm
      /\ n.position = s.position /\ n.terms = s.terms
      /\ n.round = s.round /\ n.leg = s.leg
  BY <1>2 DEF AcknowledgeFinalReceipt, Sessions, SessionStates
<1>4. /\ n.state \in {"WaitingForFinalReceiptAck", "WaitingForFeeSent",
                      "WaitingForSent"}
      /\ n.state = "WaitingForFeeSent" => GateIsFeeLeg(s)
      /\ n.state = "WaitingForSent" => ~GateIsFeeLeg(s)
  BY <1>2 DEF AcknowledgeFinalReceipt, Sessions
<1> HIDE DEF n
<1>5. Legal(n, cfg)
  BY <1>1, <1>3, <1>4 DEF Legal, GateIsFeeLeg
<1> QED
  BY <1>3, <1>5 DEF n

\* The operator's confirmation.
LEMMA ConfirmLegal ==
    ASSUME NEW cfg, NEW s, Legal(s, cfg), s.state = "WaitingForFeeConfirmation"
    PROVE  /\ Legal(ConfirmFeeReceived(s), cfg)
           /\ ConfirmFeeReceived(s).fee = s.fee
  BY LobbyAssumption DEF ConfirmFeeReceived, Legal, Sessions, SessionStates, GateIsFeeLeg

\* An abort, by whomever.
LEMMA AbortLegal ==
    ASSUME NEW cfg, NEW s, Legal(s, cfg)
    PROVE  Legal(Abort(s), cfg) /\ Abort(s).fee = s.fee
  BY DEF Abort, Legal, Sessions, SessionStates, GateIsFeeLeg

\* A session read back from the file, under the configuration it had.
LEMMA RestoreLegal ==
    ASSUME NEW cfg, NEW s, Legal(s, cfg)
    PROVE  /\ Legal(Restore(s, cfg.confirm, cfg.position), cfg)
           /\ Restore(s, cfg.confirm, cfg.position).fee = s.fee
  BY DEF Restore, Legal, Sessions, SessionStates, GateIsFeeLeg

-----------------------------------------------------------------------------
\* The kinds of steps.
Others(a) == /\ \A b \in Actors : b # a => task'[b] = task[b]
             /\ task' = [task EXCEPT ![a] = task'[a]]

Elsewhere(r) == \A q \in Rooms : q # r => entry'[q] = entry[q]

Saved == <<disk, image, pruned, failures>>

\* Nothing happens to a room or to a thread.
Rests ==
    /\ UNCHANGED <<entry, Saved, crashes, config, issued, recorded, agreed>>
    /\ UNCHANGED <<task, outcomes, told, hasty>>

\* Thread a goes on, in a way that changes no room and no saved copy.
Talks(a) ==
    /\ UNCHANGED <<entry, Saved, crashes, config, issued, recorded, agreed>>
    /\ Others(a)
    /\ task[a].op # "joined"
    /\ task'[a] \in Tasks
    /\ task'[a].op \notin {"announce", "joined", "ready"}
    /\ task'[a].op \notin {"idle", "leave"} => task'[a].room \in Rooms
    /\ task'[a].op \in {"idle", "leave"} => task'[a].room = NoRoom
    /\ task'[a].op \in {"prune", "erase", "tell"} =>
          /\ task'[a].outcome # "none"
          /\ Ends(task[a], task'[a].room)
          /\ task'[a].outcome = task[a].outcome
          /\ task[a].op = "announce" => task'[a].op = "prune"
          /\ task[a].op # "announce" => task'[a].op = "tell"
                                        /\ task[a].op = "erase"
    /\ \A r \in Rooms : Concerns(task'[a], r) => entry[r] # NoRoom

\* A party's ephemeral key.
Keyed(a, r) ==
    /\ Others(a) /\ Elsewhere(r) /\ a \in Clients
    /\ task[a].op = "key" /\ task[a].room = r /\ task'[a] = Idle
    /\ entry[r] # NoRoom
    /\ entry'[r] \in Entries /\ entry' \in [Rooms -> Entries \cup {NoRoom}]
    /\ entry'[r] = [entry[r] EXCEPT !.keys = entry'[r].keys]
    /\ UNCHANGED <<Saved, crashes, config, issued, recorded, agreed>>
    /\ UNCHANGED <<outcomes, told, hasty, conn, rooms>>

\* Thread a takes an offer.
Opens(a, r) ==
    /\ Others(a) /\ Elsewhere(r)
    /\ a \in Clients /\ Up(a)
    /\ task[a] = Idle /\ task'[a] = Do("joined", r)
    /\ Fresh(r) /\ r \in drawn' /\ offers'[r] = NoClient
    /\ entry' \in [Rooms -> Entries \cup {NoRoom}]
    /\ entry'[r] \in Entries
    /\ entry'[r].active /\ ~entry'[r].restored /\ ~entry'[r].final_ack
    /\ entry'[r].keys = {}
    /\ Up(entry'[r].a) /\ Up(entry'[r].b)
    /\ Legal(entry'[r].session, config)
    /\ entry'[r].session.state # "WaitingForFeeConfirmation"
    /\ entry'[r].session.leg = 0
    /\ entry'[r].session.state = "WaitingForFeeSent"
          => entry'[r].session.position # "AfterLastRound"
    /\ entry'[r].session.fee = agreed'[r]
    /\ agreed' \in [Rooms -> BOOLEAN]
    /\ \A q \in Rooms : q # r => agreed'[q] = agreed[q]
    /\ rooms' = rooms \cup {r}
    /\ UNCHANGED <<Saved, crashes, config, issued, recorded>>
    /\ UNCHANGED <<outcomes, told, hasty, conn>>

\* A write of room r's copy, which lets thread a go on, or fails.
Puts(a, r) ==
    /\ image' = [image EXCEPT ![r] = Snapshot(entry'[r])]
    /\ \/ /\ disk' = image' /\ failures' = failures
          /\ pruned' = pruned \cup {q \in Rooms : /\ disk[q] # NoRoom
                                                  /\ image'[q] = NoRoom}
       \/ /\ disk' = disk /\ pruned' = pruned /\ failures' = failures + 1
          /\ crashes + failures < MaxFaults
          /\ task'[a] = Idle
    /\ UNCHANGED <<crashes, config, agreed, recorded, outcomes, told, hasty>>

\* The first copy of a room.
Saves(a, r) ==
    /\ Others(a) /\ entry' = entry /\ issued' = issued
    /\ entry[r] # NoRoom
    /\ task[a].room = r /\ task[a].op = "joined"
    /\ task'[a] \in {Idle, Do("ready", r)}
    /\ Puts(a, r)
    /\ UNCHANGED <<conn, rooms>>

\* A party's message moves the session, and the room stays open.
Moves(a, r) ==
    /\ Others(a) /\ Elsewhere(r)
    /\ task[a].room = r /\ task[a].op \in Requests
    /\ entry[r] # NoRoom
    /\ entry' \in [Rooms -> Entries \cup {NoRoom}]
    /\ entry'[r] \in Entries
    /\ entry[r].active /\ entry'[r].active
    /\ ~Parked(entry[r])
    /\ entry'[r].a = entry[r].a /\ entry'[r].b = entry[r].b
    /\ entry'[r].restored = entry[r].restored
    /\ entry'[r].keys = entry[r].keys
    /\ entry'[r].version = entry[r].version + 1
    /\ Legal(entry'[r].session, config)
    /\ entry'[r].session.fee = entry[r].session.fee
    /\ issued' \in [Rooms -> SUBSET {"penultimate", "completed",
                                     "completed_unchained"}]
    /\ \A q \in Rooms : q # r => issued'[q] = issued[q]
    /\ issued'[r] \in {issued[r], issued[r] \cup {"penultimate"}}
    /\ Gated(entry[r]) => Gated(entry'[r])
    /\ entry'[r].final_ack
          => entry[r].final_ack \/ "penultimate" \in issued'[r]
    /\ task'[a] \in {Idle, Do("abort", r),
                     Announce(r, entry'[r].version, "none")}
    /\ Puts(a, r)
    /\ UNCHANGED <<conn, rooms>>

\* The room is closed, by a thread that goes on to end it or that an exception
\* stops.
Finishes(a, r) ==
    /\ Others(a) /\ Elsewhere(r)
    /\ entry[r] # NoRoom
    /\ entry' \in [Rooms -> Entries \cup {NoRoom}]
    /\ entry'[r] \in Entries
    /\ entry[r].active /\ ~entry'[r].active
    /\ entry'[r].a = entry[r].a /\ entry'[r].b = entry[r].b
    /\ entry'[r].restored = entry[r].restored
    /\ entry'[r].keys = entry[r].keys
    /\ entry'[r].version >= entry[r].version
    /\ Legal(entry'[r].session, config)
    /\ entry'[r].session.fee = entry[r].session.fee
    /\ task[a].op \notin {"joined", "idle"}
    /\ \/ task'[a] = Idle
       \/ /\ task'[a] \in Tasks
          /\ Due(task'[a], r) /\ task'[a].outcome # "none"
          /\ task'[a].todo \subseteq task[a].todo
          /\ ~entry[r].restored
    /\ issued' \in [Rooms -> SUBSET {"penultimate", "completed",
                                     "completed_unchained"}]
    /\ \A q \in Rooms : q # r => issued'[q] = issued[q]
    /\ \/ issued'[r] = issued[r]
       \/ /\ entry[r].keys = Parties
          /\ issued'[r] = issued[r] \cup
                {IF entry[r].final_ack THEN "completed" ELSE "completed_unchained"}
          /\ Trailing => PastGate(entry[r].session)
    /\ entry'[r].final_ack => entry[r].final_ack
    /\ Trailing /\ task'[a].outcome = "Complete"
          => entry'[r].session.state = "Complete"
    /\ UNCHANGED <<Saved, crashes, config, recorded, agreed>>
    /\ UNCHANGED <<outcomes, told, hasty, conn, rooms>>

\* The thread that ends the room records it and takes it out of the file; a
\* write that fails stops the thread.
Removes(a, r) ==
    /\ Others(a) /\ entry' = entry
    /\ task[a].room = r /\ task[a].op = "prune"
    /\ image' = [image EXCEPT ![r] = NoRoom]
    /\ recorded' = [recorded EXCEPT ![r] =
                       IF task[a].outcome = "Complete" THEN @ + 1 ELSE @]
    /\ \/ /\ disk' = image' /\ failures' = failures
          /\ pruned' = pruned \cup {q \in Rooms : /\ disk[q] # NoRoom
                                                  /\ image'[q] = NoRoom}
          /\ Late(task'[a], r, task[a].outcome)
          /\ task'[a] \in Tasks
          /\ task'[a].todo = task[a].todo
       \/ /\ disk' = disk /\ pruned' = pruned /\ failures' = failures + 1
          /\ crashes + failures < MaxFaults
          /\ task'[a] = Idle
    /\ UNCHANGED <<crashes, config, issued, agreed, outcomes, told, hasty>>
    /\ UNCHANGED <<conn, rooms>>

Restarts ==
    /\ Restart
    /\ crashes' \in Nat /\ failures' \in Nat
    /\ crashes' + failures' <= MaxFaults

Kind ==
    \/ Rests \/ Restarts
    \/ \E a \in Actors :
          \/ Talks(a)
          \/ \E r \in Rooms : \/ Keyed(a, r) \/ Opens(a, r) \/ Saves(a, r)
                              \/ Moves(a, r) \/ Finishes(a, r) \/ Removes(a, r)

-----------------------------------------------------------------------------
\* Which action is of which kind.
LEMMA TaskFacts ==
    ASSUME Shapes, NEW a \in Actors, NEW t, Go(a, t)
    PROVE  task'[a] = t /\ Others(a)
  BY DEF Shapes, Go, Others

\* What the continuations Do and Announce carry.
LEMMA Continuations ==
    ASSUME NEW r \in Rooms
    PROVE  /\ Idle \in Tasks
           /\ \A op \in Ops : Do(op, r) \in Tasks
           /\ \A v \in Nat, o \in {"none", "Complete", "Abort"} :
                 Announce(r, v, o) \in Tasks
           /\ \A o \in {"none", "Complete", "Abort"} : Ending(r, o) \in Tasks
           /\ Idle.room = NoRoom /\ Idle.op = "idle" /\ Idle.todo = {}
           /\ Idle.outcome = "none"
           /\ \A op : Do(op, r).room = r /\ Do(op, r).op = op
                      /\ Do(op, r).todo = {} /\ Do(op, r).outcome = "none"
           /\ \A v, o : /\ Announce(r, v, o).room = r
                        /\ Announce(r, v, o).op = "announce"
                        /\ Announce(r, v, o).todo = {}
                        /\ Announce(r, v, o).outcome = o
                        /\ Announce(r, v, o).version = v
           /\ \A o : /\ Ending(r, o).room = r /\ Ending(r, o).op = "prune"
                     /\ Ending(r, o).todo = {} /\ Ending(r, o).outcome = o
<1>1. Idle \in Tasks /\ Idle.room = NoRoom /\ Idle.op = "idle"
      /\ Idle.todo = {} /\ Idle.outcome = "none"
  BY DEF Idle, Tasks, Ops
<1>2. \A op \in Ops : Do(op, r) \in Tasks
  BY DEF Do, Idle, Tasks
<1>3. \A op : Do(op, r).room = r /\ Do(op, r).op = op
              /\ Do(op, r).todo = {} /\ Do(op, r).outcome = "none"
  BY DEF Do, Idle
<1>4. \A v \in Nat, o \in {"none", "Complete", "Abort"} :
         Announce(r, v, o) \in Tasks
  BY DEF Announce, Do, Idle, Tasks, Ops
<1>5. \A v, o : /\ Announce(r, v, o).room = r
                /\ Announce(r, v, o).op = "announce"
                /\ Announce(r, v, o).todo = {}
                /\ Announce(r, v, o).outcome = o
                /\ Announce(r, v, o).version = v
  BY DEF Announce, Do, Idle
<1>6. \A o \in {"none", "Complete", "Abort"} : Ending(r, o) \in Tasks
  BY DEF Ending, Do, Idle, Tasks, Ops
<1>7. \A o : /\ Ending(r, o).room = r /\ Ending(r, o).op = "prune"
             /\ Ending(r, o).todo = {} /\ Ending(r, o).outcome = o
  BY DEF Ending, Do, Idle
<1> QED
  BY <1>1, <1>2, <1>3, <1>4, <1>5, <1>6, <1>7

\* A thread with nothing to do.
LEMMA IdleFacts ==
    /\ Idle \in Tasks
    /\ Idle.room = NoRoom /\ Idle.op = "idle" /\ Idle.todo = {}
    /\ Idle.outcome = "none"
  BY DEF Idle, Tasks, Ops

\* What is left of remove_client.
LeaveOf(S) == [Idle EXCEPT !.op = "leave", !.todo = S]

\* A client's thread on its way out, with the rooms it still has to leave.
LEMMA LeaveFacts ==
    ASSUME NEW S \in SUBSET Rooms
    PROVE  /\ LeaveOf(S) \in Tasks
           /\ LeaveOf(S).room = NoRoom /\ LeaveOf(S).op = "leave"
           /\ LeaveOf(S).todo = S
  BY DEF LeaveOf, Idle, Tasks, Ops

\* Steps that change the hub only.
LEMMA RestKind ==
    ASSUME NEW c \in Clients, NEW r \in Rooms,
           \/ Connect(c) \/ HandleCreateOffer(c, r) \/ HandleCancelOffer(c, r)
           \/ SetFee \/ UNCHANGED vars
    PROVE  Rests
  BY DEF Rests, Saved, Connect, HandleCreateOffer, HandleCancelOffer, SetFee,
     vars, hub, store, roomHistory

\* Steps of a thread that change no room and save nothing.
LEMMA FindRoomTalks ==
    ASSUME Shapes, Hub, NEW c \in Clients, NEW r \in Rooms, NEW q \in Requests,
           FindRoomFor(c, r, q)
    PROVE  Talks(c) /\ task'[c] = Do(q, r) /\ IsMember(entry[r], c) /\ Up(c)
           /\ UNCHANGED <<outcomes, told, hasty, conn, rooms>>
<1>1. task'[c] = Do(q, r) /\ Others(c) /\ task[c] = Idle
  BY TaskFacts DEF FindRoomFor, Actors, Ready
<1>2. q \in Ops /\ q \notin {"announce", "joined", "ready", "idle", "leave",
                             "prune", "erase", "tell"}
  BY DEF Requests, Ops
<1>3. entry[r] # NoRoom
  BY DEF FindRoomFor, Hub
<1>4. \A x : Concerns(task'[c], x) => x = r
  BY <1>1, Continuations DEF Concerns
<1>5. /\ UNCHANGED <<entry, Saved, crashes, config, issued, recorded, agreed>>
      /\ UNCHANGED <<outcomes, told, hasty, conn, rooms>>
      /\ Up(c) /\ IsMember(entry[r], c)
  BY DEF FindRoomFor, Saved, store, hub, roomHistory, Ready
<1>6. /\ task'[c] \in Tasks /\ task'[c].op = q /\ task'[c].room = r
      /\ task[c].op = "idle"
  <2>1. Do(q, r) \in Tasks /\ Do(q, r).op = q /\ Do(q, r).room = r
    BY <1>2, Continuations
  <2>2. Idle.op = "idle"
    BY IdleFacts
  <2> QED
    BY <1>1, <2>1, <2>2
<1> QED
  BY <1>1, <1>2, <1>3, <1>4, <1>5, <1>6 DEF Talks

\* A request that is refused.
LEMMA RejectTalks ==
    ASSUME Shapes, KnownInv, NEW c \in Clients, RejectRequest(c)
    PROVE  Talks(c) /\ task'[c] = Idle
           /\ UNCHANGED <<outcomes, told, hasty, conn, rooms>>
<1>1. task'[c] = Idle /\ Others(c)
  BY TaskFacts DEF RejectRequest, Actors
<1> QED
  BY <1>1, IdleFacts, LobbyAssumption
     DEF Talks, RejectRequest, Saved, store, hub, roomHistory, Concerns

\* The announcement of a new room.
LEMMA JoinAnnounceTalks ==
    ASSUME Shapes, KnownInv, NEW c \in Clients, JoinAnnounce(c)
    PROVE  Talks(c) /\ task'[c] = Idle
           /\ UNCHANGED <<outcomes, conn, rooms>>
<1>1. task'[c] = Idle /\ Others(c)
  BY TaskFacts DEF JoinAnnounce, Actors
<1> QED
  BY <1>1, IdleFacts, LobbyAssumption
     DEF Talks, JoinAnnounce, Saved, store, hub, roomHistory, Concerns

\* The messages to the parties after a change.
LEMMA AnnounceTalks ==
    ASSUME Shapes, KnownInv, NEW c \in Clients, AnnounceStep(c)
    PROVE  Talks(c) /\ UNCHANGED <<outcomes, conn, rooms>>
<1> DEFINE r == task[c].room
<1>1. task'[c] = (IF task[c].outcome = "none" THEN Idle
                  ELSE Ending(r, task[c].outcome)) /\ Others(c)
  BY TaskFacts DEF AnnounceStep, Actors
<1>2. r \in Rooms /\ entry[r] # NoRoom /\ task[c] \in Tasks
  BY DEF AnnounceStep, KnownInv, Concerns, Shapes, Actors
<1>3. /\ task[c].op = "announce"
      /\ UNCHANGED <<entry, Saved, crashes, config, issued, recorded, agreed,
                     outcomes, conn, rooms>>
  BY DEF AnnounceStep, Saved, store, hub
<1>4. task[c].outcome \in {"none", "Complete", "Abort"}
  BY <1>2 DEF Tasks
<1> HIDE DEF r
<1>5. CASE task[c].outcome = "none"
  BY <1>1, <1>3, <1>5, IdleFacts, LobbyAssumption DEF Talks, Concerns
<1>6. CASE task[c].outcome # "none"
  <2>1. /\ task'[c] \in Tasks /\ task'[c].room = r /\ task'[c].op = "prune"
        /\ task'[c].todo = {} /\ task'[c].outcome = task[c].outcome
    BY <1>1, <1>2, <1>4, <1>6, Continuations
  <2>2. Ends(task[c], r)
    BY <1>3, <1>6 DEF Ends, r
  <2> QED
    BY <1>1, <1>2, <1>3, <1>6, <2>1, <2>2 DEF Talks, Concerns
<1> QED
  BY <1>5, <1>6

\* The operator finds a room whose fee is to be confirmed.
LEMMA FindPendingTalks ==
    ASSUME Shapes, Hub, NEW o \in Operators, NEW r \in Rooms,
           FindPendingFee(o, r)
    PROVE  Talks(o) /\ task'[o] = Do("confirm", r)
           /\ UNCHANGED <<outcomes, told, hasty, conn, rooms>>
<1>1. task'[o] = Do("confirm", r) /\ Others(o) /\ task[o] = Idle
  BY TaskFacts DEF FindPendingFee, Actors
<1>2. entry[r] # NoRoom
  BY DEF FindPendingFee, Hub
<1>3. \A x : Concerns(task'[o], x) => x = r
  BY <1>1, Continuations DEF Concerns
<1>4. /\ UNCHANGED <<entry, Saved, crashes, config, issued, recorded, agreed>>
      /\ UNCHANGED <<outcomes, told, hasty, conn, rooms>>
  BY DEF FindPendingFee, Saved, store, hub, roomHistory
<1>5. /\ task'[o] \in Tasks /\ task'[o].op = "confirm" /\ task'[o].room = r
      /\ task[o].op = "idle"
  <2>1. Do("confirm", r) \in Tasks /\ Do("confirm", r).op = "confirm"
        /\ Do("confirm", r).room = r
    BY Continuations DEF Ops
  <2>2. Idle.op = "idle"
    BY IdleFacts
  <2> QED
    BY <1>1, <2>1, <2>2
<1> QED
  BY <1>1, <1>2, <1>3, <1>4, <1>5 DEF Talks

\* erase_room.
LEMMA EraseTalks ==
    ASSUME Shapes, KnownInv, NEW a \in Actors, EraseRoom(a)
    PROVE  Talks(a) /\ UNCHANGED <<outcomes, told, hasty, conn>>
           /\ task'[a].todo = task[a].todo
           /\ rooms' = rooms \ {task[a].room}
<1>1. task'[a] = [task[a] EXCEPT !.op = "tell"] /\ Others(a)
  BY TaskFacts DEF EraseRoom
<1>2. task[a] \in Tasks /\ task[a].op = "erase"
  BY DEF EraseRoom, Shapes
<1>3. /\ task'[a] \in Tasks /\ task'[a].op = "tell"
      /\ task'[a].room = task[a].room /\ task'[a].todo = task[a].todo
      /\ task'[a].outcome = task[a].outcome
  BY <1>1, <1>2 DEF Tasks, Ops
<1>4. /\ UNCHANGED <<entry, Saved, crashes, config, issued, recorded, agreed>>
      /\ UNCHANGED <<outcomes, told, hasty, conn>>
      /\ rooms' = rooms \ {task[a].room}
  BY DEF EraseRoom, Saved, store, roomHistory
<1>5. /\ task[a].room \in Rooms /\ task[a].outcome # "none"
      /\ \A r \in Rooms : Concerns(task[a], r) => entry[r] # NoRoom
  BY <1>2 DEF KnownInv
<1> QED
  BY <1>1, <1>2, <1>3, <1>4, <1>5 DEF Talks, Concerns, Ends

\* The parties are told how the room ended.
LEMMA TellTalks ==
    ASSUME Shapes, KnownInv, NEW a \in Actors, TellOutcome(a)
    PROVE  /\ Talks(a) /\ UNCHANGED <<told, hasty, conn, rooms>>
           /\ task'[a] = IF Leaving(a)
                         THEN [Idle EXCEPT !.op = "leave",
                                           !.todo = task[a].todo]
                         ELSE Idle
<1>1. /\ task'[a] = IF Leaving(a)
                    THEN [Idle EXCEPT !.op = "leave", !.todo = task[a].todo]
                    ELSE Idle
      /\ Others(a)
  BY TaskFacts DEF TellOutcome
<1>2. task[a] \in Tasks /\ task[a].op = "tell" /\ task[a].todo \in SUBSET Rooms
  BY DEF TellOutcome, Shapes, Tasks
<1>3. /\ task'[a] \in Tasks /\ task'[a].op \in {"idle", "leave"}
      /\ task'[a].room = NoRoom /\ task'[a].todo \subseteq task[a].todo
  <2>1. LeaveOf(task[a].todo) \in Tasks /\ LeaveOf(task[a].todo).op = "leave"
        /\ LeaveOf(task[a].todo).room = NoRoom
        /\ LeaveOf(task[a].todo).todo = task[a].todo
    BY <1>2, LeaveFacts
  <2>2. Idle \in Tasks /\ Idle.op = "idle" /\ Idle.room = NoRoom
        /\ Idle.todo = {}
    BY IdleFacts
  <2> QED
    BY <1>1, <2>1, <2>2 DEF LeaveOf
<1>4. /\ UNCHANGED <<entry, Saved, crashes, config, issued, recorded, agreed>>
      /\ UNCHANGED <<told, hasty, conn, rooms>>
  BY DEF TellOutcome, Saved, store, hub
<1>5. \A r \in Rooms : Concerns(task[a], r) => entry[r] # NoRoom
  BY DEF KnownInv
<1>6. NoRoom \notin Rooms
  BY LobbyAssumption
<1> QED
  BY <1>1, <1>2, <1>3, <1>4, <1>5, <1>6 DEF Talks, Concerns

\* The hub's part of remove_client.
LEMMA RemoveClientTalks ==
    ASSUME Shapes, Hub, NEW c \in Clients, RemoveClient(c)
    PROVE  Talks(c) /\ UNCHANGED <<outcomes, told, hasty>>
           /\ task'[c] = [Idle EXCEPT !.op = "leave", !.todo = AffectedRooms(c)]
           /\ conn' = [conn EXCEPT ![c] = "leaving"] /\ Up(c)
           /\ rooms' = rooms \ AffectedRooms(c)
<1>1. /\ task'[c] = [Idle EXCEPT !.op = "leave", !.todo = AffectedRooms(c)]
      /\ Others(c) /\ task[c] = Idle
  BY TaskFacts DEF RemoveClient, Actors, Ready
<1>2. AffectedRooms(c) \subseteq rooms /\ rooms \subseteq Rooms
  BY DEF AffectedRooms, Hub
<1>3. /\ task'[c] \in Tasks /\ task'[c].op = "leave"
      /\ task'[c].room = NoRoom /\ task'[c].todo = AffectedRooms(c)
      /\ task[c].op = "idle"
  <2>1. AffectedRooms(c) \in SUBSET Rooms
    BY <1>2
  <2>2. LeaveOf(AffectedRooms(c)) \in Tasks
        /\ LeaveOf(AffectedRooms(c)).op = "leave"
        /\ LeaveOf(AffectedRooms(c)).room = NoRoom
        /\ LeaveOf(AffectedRooms(c)).todo = AffectedRooms(c)
    BY <2>1, LeaveFacts
  <2>3. Idle.op = "idle"
    BY IdleFacts
  <2> QED
    BY <1>1, <2>2, <2>3 DEF LeaveOf
<1>4. /\ UNCHANGED <<entry, Saved, crashes, config, issued, recorded, agreed>>
      /\ UNCHANGED <<outcomes, told, hasty>>
      /\ conn' = [conn EXCEPT ![c] = "leaving"] /\ Up(c)
      /\ rooms' = rooms \ AffectedRooms(c)
  BY DEF RemoveClient, Saved, store, roomHistory, Ready
<1>5. \A r \in rooms : entry[r] # NoRoom
  BY DEF Hub
<1>6. NoRoom \notin Rooms
  BY LobbyAssumption
<1>7. \A r \in Rooms : Concerns(task'[c], r) => entry[r] # NoRoom
  BY <1>2, <1>3, <1>5, <1>6 DEF Concerns
<1> QED
  BY <1>1, <1>3, <1>4, <1>7 DEF Talks

\* The last step of remove_client.
LEMMA LeaveDoneTalks ==
    ASSUME Shapes, NEW c \in Clients, LeaveDone(c)
    PROVE  Talks(c) /\ UNCHANGED <<outcomes, told, hasty, rooms>>
           /\ task'[c] = Idle /\ conn' = [conn EXCEPT ![c] = "gone"]
<1>1. task'[c] = Idle /\ Others(c)
  BY TaskFacts DEF LeaveDone, Actors
<1>2. /\ UNCHANGED <<entry, Saved, crashes, config, issued, recorded, agreed>>
      /\ UNCHANGED <<outcomes, told, hasty, rooms>>
      /\ task[c].op = "leave" /\ conn' = [conn EXCEPT ![c] = "gone"]
  BY DEF LeaveDone, Saved, store, roomHistory
<1> QED
  BY <1>1, <1>2, IdleFacts, LobbyAssumption DEF Talks, Concerns

\* remove_client finds nothing to do in a room.
LEMMA LeaveNothingTalks ==
    ASSUME Shapes, KnownInv, NEW c \in Clients, NEW r \in Rooms,
           LeaveRoom(c, r), ~entry[r].active
    PROVE  Talks(c) /\ UNCHANGED <<outcomes, told, hasty, conn, rooms>>
           /\ task'[c].op = "leave" /\ task'[c].todo \subseteq task[c].todo
           /\ task[c].op = "leave"
<1>1. task'[c] = [task[c] EXCEPT !.todo = @ \ {r}] /\ Others(c)
  BY TaskFacts DEF LeaveRoom, Actors
<1>2. task[c] \in Tasks /\ task[c].op = "leave"
  BY DEF LeaveRoom, Shapes, Actors
<1>3. /\ task'[c] \in Tasks /\ task'[c].op = "leave"
      /\ task'[c].room = task[c].room /\ task'[c].todo \subseteq task[c].todo
  BY <1>1, <1>2 DEF Tasks
<1>4. /\ UNCHANGED <<entry, Saved, crashes, config, issued, recorded, agreed>>
      /\ UNCHANGED <<outcomes, told, hasty, conn, rooms>>
  BY DEF LeaveRoom, Saved, store, hub, roomHistory
<1>5. /\ task[c].room = NoRoom
      /\ \A q \in Rooms : Concerns(task[c], q) => entry[q] # NoRoom
  BY <1>2 DEF KnownInv, Actors
<1> QED
  BY <1>1, <1>2, <1>3, <1>4, <1>5 DEF Talks, Concerns

\* The operator confirms what needs no confirmation any more.
LEMMA ConfirmNothingTalks ==
    ASSUME Shapes, NEW o \in Operators, ConfirmFee(o), ~Parked(entry[task[o].room])
    PROVE  Talks(o) /\ UNCHANGED <<outcomes, told, hasty, conn, rooms>>
           /\ task'[o] = Idle
<1>1. task'[o] = Idle /\ Others(o)
  BY TaskFacts DEF ConfirmFee, Actors
<1>2. /\ UNCHANGED <<entry, Saved, crashes, config, issued, recorded, agreed>>
      /\ UNCHANGED <<outcomes, told, hasty, conn, rooms>>
      /\ task[o].op = "confirm"
  BY DEF ConfirmFee, Saved, store, hub
<1> QED
  BY <1>1, <1>2, IdleFacts, LobbyAssumption DEF Talks, Concerns

-----------------------------------------------------------------------------
\* Steps that change a room or its saved copy.
LEMMA EntryFacts ==
    ASSUME Shapes, KnownInv, MembersInv, NEW c \in Clients,
           task[c].op \in Requests
    PROVE  /\ task[c].room \in Rooms
           /\ entry[task[c].room] \in Entries
           /\ entry[task[c].room] # NoRoom
           /\ IsMember(entry[task[c].room], c)
           /\ ~entry[task[c].room].restored
<1>1. c \in Actors /\ task[c].op \notin {"idle", "leave"}
  BY DEF Actors, Requests
<1>2. task[c].room \in Rooms /\ entry[task[c].room] # NoRoom
  BY <1>1 DEF KnownInv, Concerns
<1>3. entry[task[c].room] \in Entries
  BY <1>2 DEF Shapes
<1>4. IsMember(entry[task[c].room], c)
  BY DEF MembersInv
<1>5. task[c] # Idle
  BY <1>1, IdleFacts
<1>6. ~Gone(c)
  BY <1>5 DEF MembersInv
<1>7. entry[task[c].room].restored => Gone(entry[task[c].room].a)
                                      /\ Gone(entry[task[c].room].b)
  BY <1>2 DEF MembersInv
<1> QED
  BY <1>2, <1>3, <1>4, <1>6, <1>7 DEF IsMember

\* A RoomEntry whose session moved.
LEMMA AdvanceFacts ==
    ASSUME NEW e \in Entries, NEW s \in Sessions
    PROVE  /\ Advance(e, s) \in Entries
           /\ Advance(e, s).session = s
           /\ Advance(e, s).version = e.version + 1
           /\ Advance(e, s).active = e.active
           /\ Advance(e, s).a = e.a /\ Advance(e, s).b = e.b
           /\ Advance(e, s).keys = e.keys
           /\ Advance(e, s).final_ack = e.final_ack
           /\ Advance(e, s).restored = e.restored
<1>1. \A v \in Nat : [e EXCEPT !.session = s, !.version = v] \in Entries
  BY DEF Entries
<1>2. e.version \in Nat /\ e.version + 1 \in Nat
  BY DEF Entries
<1>3. /\ Advance(e, s).session = s
      /\ Advance(e, s).version = e.version + 1
      /\ Advance(e, s).a = e.a /\ Advance(e, s).b = e.b
      /\ Advance(e, s).keys = e.keys
  BY DEF Advance, Entries
<1>4. /\ Advance(e, s).active = e.active
      /\ Advance(e, s).final_ack = e.final_ack
      /\ Advance(e, s).restored = e.restored
  BY DEF Advance, Entries
<1> QED
  BY <1>1, <1>2, <1>3, <1>4 DEF Advance

\* ... and the entry that is closed, or that keeps the acknowledged receipt.
LEMMA CloseFacts ==
    ASSUME NEW e \in Entries
    PROVE  LET f == [e EXCEPT !.active = FALSE]
           IN  /\ f \in Entries /\ ~f.active
               /\ f.session = e.session /\ f.version = e.version
               /\ f.a = e.a /\ f.b = e.b /\ f.keys = e.keys
               /\ f.final_ack = e.final_ack /\ f.restored = e.restored
  BY DEF Entries

\* A RoomEntry that noted the acknowledged stage-3 receipt.
LEMMA AckedFacts ==
    ASSUME NEW e \in Entries, NEW ok \in BOOLEAN
    PROVE  LET f == [e EXCEPT !.final_ack = @ \/ ok]
           IN  /\ f \in Entries /\ f.active = e.active
               /\ f.session = e.session /\ f.version = e.version
               /\ f.a = e.a /\ f.b = e.b /\ f.keys = e.keys
               /\ f.restored = e.restored
               /\ f.final_ack <=> e.final_ack \/ ok
  BY DEF Entries

\* A RoomEntry put back in place.
LEMMA PutFacts ==
    ASSUME Shapes, NEW a \in Actors, NEW r \in Rooms, NEW next,
           PersistThen(a, Upserted(r, entry'[r]), next),
           UNCHANGED <<crashes, config, agreed, recorded, outcomes, told, hasty>>
    PROVE  Puts(a, r) /\ Others(a) /\ task'[a] \in {Idle, next}
<1>1. CASE Write(Upserted(r, entry'[r])) /\ Go(a, next)
  BY <1>1, TaskFacts DEF Write, Upserted, Puts
<1>2. CASE WriteFails(Upserted(r, entry'[r])) /\ Go(a, Idle)
  BY <1>2, TaskFacts DEF WriteFails, Upserted, Puts
<1> QED
  BY <1>1, <1>2 DEF PersistThen

\* handle_trade_ephemeral_key.
LEMMA KeyKind ==
    ASSUME Shapes, KnownInv, MembersInv, NEW c \in Clients,
           HandleTradeEphemeralKey(c)
    PROVE  Keyed(c, task[c].room)
<1> DEFINE r == task[c].room
<1>1. r \in Rooms /\ entry[r] \in Entries /\ entry[r] # NoRoom
  BY EntryFacts DEF HandleTradeEphemeralKey, Requests
<1>2. task'[c] = Idle /\ Others(c)
  BY TaskFacts DEF HandleTradeEphemeralKey, Actors
<1>3. PartyFor(entry[r], c) \in Parties
  BY DEF PartyFor, Parties
<1>4. entry[r].keys \cup {PartyFor(entry[r], c)} \in SUBSET Parties
  BY <1>1, <1>3 DEF Entries
<1>5. entry' = [entry EXCEPT ![r] = [entry[r] EXCEPT !.keys =
                    entry[r].keys \cup {PartyFor(entry[r], c)}]]
  BY DEF HandleTradeEphemeralKey
<1>6. \A K \in SUBSET Parties : [entry[r] EXCEPT !.keys = K] \in Entries
                                /\ [entry[r] EXCEPT !.keys = K].keys = K
  BY <1>1 DEF Entries
<1> HIDE DEF r
<1>7. /\ entry'[r] = [entry[r] EXCEPT !.keys =
                          entry[r].keys \cup {PartyFor(entry[r], c)}]
      /\ Elsewhere(r)
  BY <1>1, <1>5 DEF Shapes, Elsewhere
<1>8. /\ entry'[r] \in Entries
      /\ entry'[r] = [entry[r] EXCEPT !.keys = entry'[r].keys]
  BY <1>4, <1>6, <1>7
<1>9. entry' \in [Rooms -> Entries \cup {NoRoom}]
  BY <1>5, <1>7, <1>8 DEF Shapes
<1>10. /\ UNCHANGED <<Saved, crashes, config, issued, recorded, agreed>>
       /\ UNCHANGED <<outcomes, told, hasty, conn, rooms>>
       /\ task[c].op = "key"
  BY DEF HandleTradeEphemeralKey, Saved, store, hub, roomHistory
<1> QED
  BY <1>1, <1>2, <1>7, <1>8, <1>9, <1>10 DEF Keyed, r

\* handle_join_offer, under the hub's mutex.
LEMMA OpenKind ==
    ASSUME Shapes, Hub, NEW c \in Clients, NEW r \in Rooms, HandleJoinOffer(c, r)
    PROVE  Opens(c, r)
<1> DEFINE e == NewEntry(offers[r], c)
           s == Join(NewSession(DealTerms, fee, config.confirm, config.position))
<1>1. offers[r] \in Clients /\ Up(offers[r]) /\ Up(c) /\ task[c] = Idle
      /\ offers[r] # NoClient
  BY DEF HandleJoinOffer, Hub, Ready
<1>2. Legal(s, config) /\ s.fee = fee /\ s \in Sessions
  BY NewLegal DEF Hub, Legal
<1>3. /\ s.state \in {"WaitingForFeeSent", "WaitingForSent"} /\ s.leg = 0
      /\ s.state = "WaitingForFeeSent" => s.position # "AfterLastRound"
  BY DEF Join, NewSession, FeeDueBeforeAnyRound
<1> HIDE DEF s
<1>4. /\ e \in Entries /\ e.active /\ ~e.restored /\ ~e.final_ack
      /\ e.keys = {} /\ e.a = offers[r] /\ e.b = c /\ e.session = s
  BY <1>1, <1>2 DEF NewEntry, Entries, s
<1>5. entry' = [entry EXCEPT ![r] = e] /\ agreed' = [agreed EXCEPT ![r] = fee]
  BY DEF HandleJoinOffer
<1> HIDE DEF e
<1>6. entry'[r] = e /\ Elsewhere(r)
      /\ entry' \in [Rooms -> Entries \cup {NoRoom}]
  BY <1>4, <1>5 DEF Shapes, Elsewhere
<1>7. /\ agreed'[r] = fee /\ agreed' \in [Rooms -> BOOLEAN]
      /\ \A q \in Rooms : q # r => agreed'[q] = agreed[q]
  BY <1>5 DEF Shapes, Hub
<1>8. task'[c] = Do("joined", r) /\ Others(c)
  BY TaskFacts DEF HandleJoinOffer, Actors
<1>9. /\ UNCHANGED <<Saved, crashes, config, issued, recorded>>
      /\ UNCHANGED <<outcomes, told, hasty, conn>>
      /\ rooms' = rooms \cup {r}
  BY DEF HandleJoinOffer, Saved, store
<1>10. r \in drawn' /\ offers'[r] = NoClient
  BY <1>1 DEF HandleJoinOffer, Hub
<1> QED
  BY <1>1, <1>2, <1>3, <1>4, <1>6, <1>7, <1>8, <1>9, <1>10 DEF Opens, Fresh

\* handle_join_offer's first write of the new room.
LEMMA SaveKind ==
    ASSUME Shapes, KnownInv, NEW c \in Clients, JoinPersist(c)
    PROVE  Saves(c, task[c].room) /\ task[c].room \in Rooms
<1> DEFINE r == task[c].room
<1>1. r \in Rooms /\ entry[r] # NoRoom
  BY DEF JoinPersist, KnownInv, Concerns, Actors
<1>2. /\ entry' = entry /\ issued' = issued /\ task[c].op = "joined"
      /\ PersistThen(c, Upserted(r, entry'[r]), Do("ready", r))
      /\ UNCHANGED <<crashes, config, agreed, recorded, outcomes, told, hasty>>
      /\ UNCHANGED <<conn, rooms>>
  BY DEF JoinPersist, hub, roomHistory
<1>3. Puts(c, r) /\ Others(c) /\ task'[c] \in {Idle, Do("ready", r)}
  BY <1>1, <1>2, PutFacts DEF Actors
<1> QED
  BY <1>1, <1>2, <1>3 DEF Saves

\* A message that the session accepts and that does not end the room.
LEMMA MoveFacts ==
    ASSUME Shapes, KnownInv, MembersInv, NEW c \in Clients,
           task[c].op \in Requests,
           NEW r \in Rooms, r = task[c].room,
           NEW after \in Entries, entry' = [entry EXCEPT ![r] = after],
           entry[r].active, after.active, ~Parked(entry[r]),
           after.a = entry[r].a, after.b = entry[r].b,
           after.restored = entry[r].restored, after.keys = entry[r].keys,
           after.version = entry[r].version + 1,
           Legal(after.session, config),
           after.session.fee = entry[r].session.fee,
           NEW more \in SUBSET {"penultimate"},
           Gated(entry[r]) => Gated(after),
           after.final_ack => entry[r].final_ack \/ "penultimate" \in more,
           issued' = [issued EXCEPT ![r] = @ \cup more],
           NEW next,
           next \in {Idle, Do("abort", r), Announce(r, after.version, "none")},
           PersistThen(c, Upserted(r, after), next),
           UNCHANGED <<crashes, config, agreed, recorded, outcomes, told, hasty>>,
           UNCHANGED <<conn, rooms>>
    PROVE  Moves(c, r)
<1>1. entry[r] # NoRoom /\ entry[r] \in Entries
  BY EntryFacts
<1>2. /\ entry'[r] = after /\ Elsewhere(r)
      /\ entry' \in [Rooms -> Entries \cup {NoRoom}]
  BY DEF Shapes, Elsewhere
<1>3. c \in Actors
  BY DEF Actors
<1>4. PersistThen(c, Upserted(r, entry'[r]), next)
  BY <1>2
<1>5. Puts(c, r) /\ Others(c) /\ task'[c] \in {Idle, next}
  BY <1>3, <1>4, PutFacts
<1>6. /\ issued' \in [Rooms -> SUBSET {"penultimate", "completed",
                                       "completed_unchained"}]
      /\ \A q \in Rooms : q # r => issued'[q] = issued[q]
      /\ issued'[r] = issued[r] \cup more
  BY DEF Shapes
<1>7. issued'[r] \in {issued[r], issued[r] \cup {"penultimate"}}
  BY <1>6
<1>8. /\ Gated(entry[r]) => Gated(entry'[r])
      /\ entry'[r].final_ack
            => entry[r].final_ack \/ "penultimate" \in issued'[r]
  BY <1>2, <1>6
<1> QED
  BY <1>1, <1>2, <1>5, <1>6, <1>7, <1>8 DEF Moves

\* A session that is over: the room is closed, and its receipt issued.
LEMMA CompleteFacts ==
    ASSUME Shapes, NEW a \in Actors, NEW r \in Rooms,
           task[a].op \notin {"joined", "idle"},
           entry[r] # NoRoom, entry[r].active,
           ~entry[r].restored \/ entry[r].keys = {},
           NEW e \in Entries, e.a = entry[r].a, e.b = entry[r].b,
           e.restored = entry[r].restored, e.keys = entry[r].keys,
           e.version = entry[r].version + 1, entry[r] \in Entries,
           Legal(e.session, config), e.session.fee = entry[r].session.fee,
           e.final_ack <=> entry[r].final_ack,
           Trailing => /\ e.session.state = "Complete"
                       /\ PastGate(entry[r].session),
           NEW next \in {Announce(r, e.version, "Complete"),
                         Ending(r, "Complete")},
           CompleteRoom(a, r, e, next),
           UNCHANGED <<crashes, config, agreed, recorded, outcomes, told, hasty>>,
           UNCHANGED <<conn, rooms>>
    PROVE  Finishes(a, r)
<1> DEFINE f == [e EXCEPT !.active = FALSE]
<1>1. /\ f \in Entries /\ ~f.active
      /\ f.session = e.session /\ f.version = e.version
      /\ f.a = e.a /\ f.b = e.b /\ f.keys = e.keys /\ f.restored = e.restored
      /\ f.final_ack = e.final_ack
  BY CloseFacts
<1>2. entry' = [entry EXCEPT ![r] = f] /\ UNCHANGED Saved
  BY DEF CompleteRoom, store, Saved
<1> HIDE DEF f
<1>3. /\ entry'[r] = f /\ Elsewhere(r)
      /\ entry' \in [Rooms -> Entries \cup {NoRoom}]
  BY <1>1, <1>2 DEF Shapes, Elsewhere
<1>4. e.version >= entry[r].version /\ e.version \in Nat
  BY DEF Entries
<1>5. /\ issued' \in [Rooms -> SUBSET {"penultimate", "completed",
                                       "completed_unchained"}]
      /\ \A q \in Rooms : q # r => issued'[q] = issued[q]
  BY DEF Shapes, CompleteRoom
<1>6. Others(a) /\ task'[a] \in {Idle, next}
  BY TaskFacts DEF CompleteRoom
<1>7. task'[a] = next => CanIssueReceipt(e) \/ next = Idle
  BY TaskFacts DEF CompleteRoom
<1>8. /\ next \in Tasks /\ Due(next, r) /\ next.outcome # "none"
      /\ next.todo = {} /\ next.op # "idle"
  <2>1. CASE next = Announce(r, e.version, "Complete")
    BY <2>1, <1>4, Continuations DEF Due, Ends
  <2>2. CASE next = Ending(r, "Complete")
    BY <2>2, Continuations DEF Due, Ends
  <2> QED
    BY <2>1, <2>2
<1>9. next # Idle
  BY <1>8, IdleFacts
<1>10. task'[a] = next => ~entry[r].restored
  BY <1>7, <1>9 DEF CanIssueReceipt, Parties
<1>11. \/ issued'[r] = issued[r]
       \/ /\ entry[r].keys = Parties
          /\ issued'[r] = issued[r] \cup
                {IF entry[r].final_ack THEN "completed" ELSE "completed_unchained"}
          /\ Trailing => PastGate(entry[r].session)
  BY DEF CompleteRoom, CanIssueReceipt, Shapes
<1>12. /\ entry'[r].final_ack => entry[r].final_ack
       /\ Trailing => entry'[r].session.state = "Complete"
  BY <1>1, <1>3
<1> QED
  BY <1>1, <1>2, <1>3, <1>4, <1>5, <1>6, <1>8, <1>10, <1>11, <1>12 DEF Finishes

\* handle_sent moves the session or completes it.
LEMMA SentKind ==
    ASSUME Shapes, KnownInv, MembersInv, SessionInv, NEW c \in Clients,
           HandleSent(c)
    PROVE  \E r \in Rooms : Moves(c, r) \/ Finishes(c, r)
<1> DEFINE r == task[c].room
           e == entry[r]
           s == SenderReportedSent(e.session)
           after == Advance(e, s)
<1>1. /\ task[c].op = "sent" /\ task[c].op \in Requests /\ e.active
      /\ e.session.state \in {"WaitingForFeeSent", "WaitingForSent"}
  BY DEF HandleSent, Requests, SentAccepted
<1>2. r \in Rooms /\ e \in Entries /\ e # NoRoom /\ ~e.restored
  BY <1>1, EntryFacts
<1>3. Legal(e.session, config)
  BY <1>2 DEF SessionInv, Fits
<1>4. Legal(s, config) /\ s.fee = e.session.fee /\ s \in Sessions
  <2>1. Legal(s, config) /\ s.fee = e.session.fee
    BY <1>1, <1>3, SentLegal
  <2> QED
    BY <2>1 DEF Legal
<1>a. /\ PastGate(s) => PastGate(e.session)
      /\ s.state = "Complete" => PastGate(e.session)
  BY <1>1, <1>3, SentGate
<1> HIDE DEF s
<1>5. /\ after \in Entries /\ after.session = s
      /\ after.version = e.version + 1 /\ after.active = e.active
      /\ after.a = e.a /\ after.b = e.b /\ after.keys = e.keys
      /\ after.restored = e.restored /\ after.final_ack = e.final_ack
  BY <1>2, <1>4, AdvanceFacts
<1>b. (Gated(e) => Gated(after)) /\ (after.final_ack <=> e.final_ack)
  BY <1>a, <1>5 DEF Gated
<1>6. /\ UNCHANGED <<crashes, config, agreed, recorded, outcomes, told, hasty>>
      /\ UNCHANGED <<conn, rooms>>
  BY DEF HandleSent, hub
<1>7. c \in Actors
  BY DEF Actors
<1>8. CASE after.session.state = "Complete"
  <2>1. CompleteRoom(c, r, after, Ending(r, "Complete"))
    BY <1>8 DEF HandleSent, s
  <2>a. Trailing => after.session.state = "Complete" /\ PastGate(e.session)
    BY <1>5, <1>8, <1>a
  <2> HIDE DEF after, e, r
  <2>2. Finishes(c, r)
    BY <1>1, <1>2, <1>4, <1>5, <1>6, <1>7, <1>b, <2>1, <2>a, CompleteFacts
       DEF e, r
  <2> QED
    BY <1>2, <2>2
<1>9. CASE after.session.state # "Complete"
  <2> DEFINE next == IF /\ after.session.state = "WaitingForReceived"
                        /\ ~Up(Peer(e, c))
                     THEN Do("abort", r)
                     ELSE Announce(r, after.version, "none")
  <2>1. /\ entry' = [entry EXCEPT ![r] = after] /\ UNCHANGED issued
        /\ PersistThen(c, Upserted(r, after), next)
    BY <1>9 DEF HandleSent, s
  <2>2. ~Parked(e)
    BY <1>1 DEF Parked
  <2>4. issued' = [issued EXCEPT ![r] = @ \cup {}]
    BY <1>2, <2>1 DEF Shapes
  <2>5. /\ {} \in SUBSET {"penultimate"} /\ r = task[c].room /\ e = entry[r]
        /\ Legal(after.session, config)
        /\ after.session.fee = e.session.fee
    BY <1>4, <1>5
  <2> HIDE DEF next, after, e, r
  <2>6. /\ entry[r].active /\ after.active /\ ~Parked(entry[r])
        /\ after.a = entry[r].a /\ after.b = entry[r].b
        /\ after.restored = entry[r].restored /\ after.keys = entry[r].keys
        /\ after.version = entry[r].version + 1
        /\ after.session.fee = entry[r].session.fee
        /\ Gated(entry[r]) => Gated(after)
        /\ after.final_ack => entry[r].final_ack \/ "penultimate" \in {}
    BY <1>1, <1>5, <1>b, <2>2, <2>5
  <2>7. after \in Entries /\ r \in Rooms /\ task[c].op \in Requests
    BY <1>1, <1>2, <1>5
  <2>8. Moves(c, r)
    <3>1. CASE next = Do("abort", r)
      <4>1. PersistThen(c, Upserted(r, after), Do("abort", r))
        BY <2>1, <3>1
      <4> QED
        BY <1>6, <2>1, <2>4, <2>5, <2>6, <2>7, <4>1, MoveFacts
    <3>2. CASE next = Announce(r, after.version, "none")
      <4>1. PersistThen(c, Upserted(r, after),
                        Announce(r, after.version, "none"))
        BY <2>1, <3>2
      <4> QED
        BY <1>6, <2>1, <2>4, <2>5, <2>6, <2>7, <4>1, MoveFacts
    <3> QED
      BY <3>1, <3>2 DEF next
  <2> QED
    BY <1>2, <2>8
<1> QED
  BY <1>8, <1>9

\* handle_received moves the session or completes it.
LEMMA ReceivedKind ==
    ASSUME Shapes, KnownInv, MembersInv, SessionInv, NEW c \in Clients,
           HandleReceived(c)
    PROVE  \E r \in Rooms : Moves(c, r) \/ Finishes(c, r)
<1> DEFINE r == task[c].room
           e == entry[r]
           s == ReceiverReportedReceived(e.session)
           after == Advance(e, s)
<1>1. /\ task[c].op = "received" /\ task[c].op \in Requests /\ e.active
      /\ e.session.state = "WaitingForReceived"
  BY DEF HandleReceived, Requests, ReceivedAccepted
<1>2. r \in Rooms /\ e \in Entries /\ e # NoRoom /\ ~e.restored
  BY <1>1, EntryFacts
<1>3. Legal(e.session, config)
  BY <1>2 DEF SessionInv, Fits
<1>4. Legal(s, config) /\ s.fee = e.session.fee /\ s \in Sessions
  <2>1. Legal(s, config) /\ s.fee = e.session.fee
    BY <1>1, <1>3, ReceivedLegal
  <2> QED
    BY <2>1 DEF Legal
<1>a. ~PastGate(s) /\ (s.state = "Complete" => PastGate(e.session))
  BY <1>1, <1>3, ReceivedGate
<1> HIDE DEF s
<1>5. /\ after \in Entries /\ after.session = s
      /\ after.version = e.version + 1 /\ after.active = e.active
      /\ after.a = e.a /\ after.b = e.b /\ after.keys = e.keys
      /\ after.restored = e.restored /\ after.final_ack = e.final_ack
  BY <1>2, <1>4, AdvanceFacts
<1>b. (Gated(e) => Gated(after)) /\ (after.final_ack <=> e.final_ack)
  BY <1>a, <1>5 DEF Gated
<1>6. /\ UNCHANGED <<crashes, config, agreed, recorded, outcomes, told, hasty>>
      /\ UNCHANGED <<conn, rooms>>
  BY DEF HandleReceived, hub
<1>7. c \in Actors
  BY DEF Actors
<1>8. CASE after.session.state = "Complete"
  <2> DEFINE next == IF Up(Peer(e, c))
                     THEN Announce(r, after.version, "Complete")
                     ELSE Ending(r, "Complete")
  <2>1. CompleteRoom(c, r, after, next)
    BY <1>8 DEF HandleReceived, s
  <2>2. next \in {Announce(r, after.version, "Complete"), Ending(r, "Complete")}
    OBVIOUS
  <2>a. Trailing => after.session.state = "Complete" /\ PastGate(e.session)
    BY <1>5, <1>8, <1>a
  <2> HIDE DEF after, e, r, next
  <2>3. Finishes(c, r)
    BY <1>1, <1>2, <1>4, <1>5, <1>6, <1>7, <1>b, <2>1, <2>2, <2>a,
       CompleteFacts DEF e, r
  <2> QED
    BY <1>2, <2>3
<1>9. CASE after.session.state # "Complete"
  <2>1. /\ entry' = [entry EXCEPT ![r] = after] /\ UNCHANGED issued
        /\ PersistThen(c, Upserted(r, after), Announce(r, after.version, "none"))
    BY <1>9 DEF HandleReceived, s
  <2>2. ~Parked(e)
    BY <1>1 DEF Parked
  <2>3. issued' = [issued EXCEPT ![r] = @ \cup {}]
    BY <1>2, <2>1 DEF Shapes
  <2>4. /\ {} \in SUBSET {"penultimate"} /\ r = task[c].room /\ e = entry[r]
        /\ Legal(after.session, config)
        /\ after.session.fee = e.session.fee
        /\ Gated(e) => Gated(after)
        /\ after.final_ack => e.final_ack \/ "penultimate" \in {}
    BY <1>4, <1>5, <1>b
  <2> HIDE DEF after, e, r
  <2>5. Moves(c, r)
    BY <1>1, <1>2, <1>5, <1>6, <2>1, <2>2, <2>3, <2>4, MoveFacts
  <2> QED
    BY <1>2, <2>5
<1> QED
  BY <1>8, <1>9

\* handle_receipt_ack moves the session, or only notes who acknowledged.
LEMMA AckKind ==
    ASSUME Shapes, KnownInv, MembersInv, SessionInv, NEW c \in Clients,
           HandleReceiptAck(c)
    PROVE  \E r \in Rooms : Moves(c, r)
<1> DEFINE r == task[c].room
           e == entry[r]
           p == PartyFor(e, c)
           s == AcknowledgeFinalReceipt(e.session, p)
           opened == s.state # "WaitingForFinalReceiptAck"
           adv == Advance(e, s)
           after == [adv EXCEPT !.final_ack = @ \/ opened]
           next == IF opened THEN Announce(r, after.version, "none") ELSE Idle
           more == IF opened THEN {"penultimate"} ELSE {}
<1>1. /\ task[c].op = "ack" /\ task[c].op \in Requests /\ e.active
      /\ e.session.state = "WaitingForFinalReceiptAck"
  BY DEF HandleReceiptAck, Requests, AckAccepted
<1>2. r \in Rooms /\ e \in Entries /\ e # NoRoom /\ r = task[c].room
      /\ e = entry[r]
  BY <1>1, EntryFacts
<1>3. Legal(e.session, config) /\ p \in Parties
  BY <1>2 DEF SessionInv, Fits, PartyFor, Parties
<1>4. Legal(s, config) /\ s.fee = e.session.fee /\ s \in Sessions
  <2>1. Legal(s, config) /\ s.fee = e.session.fee
    BY <1>1, <1>3, AckLegal
  <2> QED
    BY <2>1 DEF Legal
<1>5. /\ entry' = [entry EXCEPT ![r] = after]
      /\ PersistThen(c, Upserted(r, after), next)
      /\ issued' = [issued EXCEPT ![r] = IF opened THEN @ \cup {"penultimate"}
                                                   ELSE @]
      /\ UNCHANGED <<crashes, config, agreed, recorded, outcomes, told, hasty>>
      /\ UNCHANGED <<conn, rooms>>
  BY DEF HandleReceiptAck, hub
<1>6. opened \in BOOLEAN
  OBVIOUS
<1>7. ~Parked(e)
  BY <1>1 DEF Parked
<1>a. ~opened => ~PastGate(s)
  BY DEF PastGate
<1> HIDE DEF s, opened
<1>8. /\ adv \in Entries /\ adv.session = s
      /\ adv.version = e.version + 1 /\ adv.active = e.active
      /\ adv.a = e.a /\ adv.b = e.b /\ adv.keys = e.keys
      /\ adv.restored = e.restored /\ adv.final_ack = e.final_ack
  BY <1>2, <1>4, AdvanceFacts
<1> HIDE DEF adv
<1>9. /\ after \in Entries /\ after.active = adv.active
      /\ after.session = adv.session /\ after.version = adv.version
      /\ after.a = adv.a /\ after.b = adv.b /\ after.keys = adv.keys
      /\ after.restored = adv.restored
      /\ after.final_ack <=> adv.final_ack \/ opened
  BY <1>6, <1>8, AckedFacts
<1>b. /\ Gated(e) => Gated(after)
      /\ after.final_ack => e.final_ack \/ "penultimate" \in more
  <2>1. after.session = s /\ (after.final_ack <=> e.final_ack \/ opened)
        /\ ("penultimate" \in more <=> opened)
    BY <1>8, <1>9
  <2> HIDE DEF after, more, e
  <2>2. CASE opened
    BY <2>1, <2>2 DEF Gated
  <2>3. CASE ~opened
    BY <2>1, <2>3, <1>a DEF Gated
  <2> QED
    BY <2>2, <2>3
<1>10. more \in SUBSET {"penultimate"}
  OBVIOUS
<1>11. issued' = [issued EXCEPT ![r] = @ \cup more]
  BY <1>2, <1>5 DEF Shapes
<1>12. Legal(after.session, config) /\ after.session.fee = e.session.fee
  BY <1>4, <1>8, <1>9
<1> HIDE DEF next, more, after, e, r, p
<1>13. /\ entry[r].active /\ after.active /\ ~Parked(entry[r])
       /\ after.a = entry[r].a /\ after.b = entry[r].b
       /\ after.restored = entry[r].restored /\ after.keys = entry[r].keys
       /\ after.version = entry[r].version + 1
       /\ after.session.fee = entry[r].session.fee
       /\ Gated(entry[r]) => Gated(after)
       /\ after.final_ack => entry[r].final_ack \/ "penultimate" \in more
  BY <1>1, <1>2, <1>7, <1>8, <1>9, <1>12, <1>b
<1>14. after \in Entries /\ r \in Rooms /\ task[c].op \in Requests
       /\ r = task[c].room
  BY <1>1, <1>2, <1>9
<1>15. Moves(c, r)
  <2>1. CASE next = Idle
    <3>1. PersistThen(c, Upserted(r, after), Idle)
      BY <1>5, <2>1
    <3> QED
      BY <1>5, <1>10, <1>11, <1>12, <1>13, <1>14, <3>1, MoveFacts
  <2>2. CASE next = Announce(r, after.version, "none")
    <3>1. PersistThen(c, Upserted(r, after), Announce(r, after.version, "none"))
      BY <1>5, <2>2
    <3> QED
      BY <1>5, <1>10, <1>11, <1>12, <1>13, <1>14, <3>1, MoveFacts
  <2> QED
    BY <2>1, <2>2 DEF next
<1> QED
  BY <1>2, <1>15

\* A RoomEntry that was aborted.
LEMMA AbortEntryFacts ==
    ASSUME NEW e \in Entries, NEW cfg, Legal(e.session, cfg)
    PROVE  /\ AbortEntry(e) \in Entries /\ ~AbortEntry(e).active
           /\ AbortEntry(e).a = e.a /\ AbortEntry(e).b = e.b
           /\ AbortEntry(e).keys = e.keys
           /\ AbortEntry(e).restored = e.restored
           /\ AbortEntry(e).final_ack = e.final_ack
           /\ AbortEntry(e).version >= e.version
           /\ Legal(AbortEntry(e).session, cfg)
           /\ AbortEntry(e).session.fee = e.session.fee
           /\ AbortEntry(e).session.state \in {"Complete", "Aborted"}
<1> DEFINE s == Abort(e.session)
           f == IF e.session.state \in {"Complete", "Aborted"} THEN e
                ELSE Advance(e, s)
<1>1. Legal(s, cfg) /\ s.fee = e.session.fee /\ s \in Sessions
  BY AbortLegal DEF Legal
<1>2. s.state = "Aborted"
  BY DEF Abort, Legal, Sessions
<1>3. e.version \in Nat
  BY DEF Entries
<1> HIDE DEF s
<1>4. /\ f \in Entries /\ f.a = e.a /\ f.b = e.b /\ f.keys = e.keys
      /\ f.restored = e.restored /\ f.final_ack = e.final_ack
      /\ f.version >= e.version
      /\ Legal(f.session, cfg) /\ f.session.fee = e.session.fee
      /\ f.session.state \in {"Complete", "Aborted"}
  <2>1. CASE e.session.state \in {"Complete", "Aborted"}
    BY <2>1, <1>3
  <2>2. CASE e.session.state \notin {"Complete", "Aborted"}
    <3>1. f = Advance(e, s)
      BY <2>2
    <3> HIDE DEF f
    <3> QED
      BY <3>1, <1>1, <1>2, <1>3, AdvanceFacts
  <2> QED
    BY <2>1, <2>2
<1>5. AbortEntry(e) = [f EXCEPT !.active = FALSE]
  BY DEF AbortEntry, s
<1> HIDE DEF f
<1> QED
  BY <1>4, <1>5, CloseFacts

\* abort_room, or one room of remove_client.
LEMMA AbortFacts ==
    ASSUME Shapes, SessionInv, NEW c \in Clients, NEW r \in Rooms,
           entry[r] # NoRoom, entry[r].active, ~entry[r].restored,
           task[c].op \notin {"joined", "idle"},
           entry' = [entry EXCEPT ![r] = AbortEntry(@)],
           NEW t \in Tasks, Go(c, t), Due(t, r), t.outcome = "Abort",
           t.todo \subseteq task[c].todo,
           UNCHANGED <<hub, store, config, fee, crashes, roomHistory>>
    PROVE  Finishes(c, r)
<1> DEFINE f == AbortEntry(entry[r])
<1>1. entry[r] \in Entries /\ Legal(entry[r].session, config)
  BY DEF Shapes, SessionInv, Fits
<1>2. /\ f \in Entries /\ ~f.active /\ f.a = entry[r].a /\ f.b = entry[r].b
      /\ f.keys = entry[r].keys /\ f.restored = entry[r].restored
      /\ f.final_ack = entry[r].final_ack
      /\ f.version >= entry[r].version
      /\ Legal(f.session, config)
      /\ f.session.fee = entry[r].session.fee
  BY <1>1, AbortEntryFacts
<1> HIDE DEF f
<1>3. /\ entry'[r] = f /\ Elsewhere(r)
      /\ entry' \in [Rooms -> Entries \cup {NoRoom}]
  BY <1>2 DEF Shapes, Elsewhere, f
<1>4. task'[c] = t /\ Others(c)
  BY TaskFacts DEF Actors
<1>5. /\ UNCHANGED <<Saved, crashes, config, issued, recorded, agreed>>
      /\ UNCHANGED <<outcomes, told, hasty, conn, rooms>>
  BY DEF Saved, store, hub, roomHistory
<1>6. /\ issued' \in [Rooms -> SUBSET {"penultimate", "completed",
                                       "completed_unchained"}]
      /\ \A q \in Rooms : q # r => issued'[q] = issued[q]
  BY <1>5 DEF Shapes
<1>7. entry'[r].final_ack => entry[r].final_ack
  BY <1>2, <1>3
<1>8. issued'[r] = issued[r] /\ task'[c].outcome = "Abort"
  BY <1>4, <1>5
<1> QED
  BY <1>2, <1>3, <1>4, <1>5, <1>6, <1>7, <1>8 DEF Finishes

\* An abort by a party closes the room.
LEMMA AbortKind ==
    ASSUME Shapes, KnownInv, MembersInv, SessionInv, NEW c \in Clients,
           AbortRoom(c)
    PROVE  Finishes(c, task[c].room) /\ task[c].room \in Rooms
           /\ task'[c] = Ending(task[c].room, "Abort")
<1> DEFINE r == task[c].room
<1>1. task[c].op = "abort" /\ task[c].op \in Requests /\ entry[r].active
  BY DEF AbortRoom, Requests
<1>2. r \in Rooms /\ entry[r] # NoRoom /\ ~entry[r].restored
  BY <1>1, EntryFacts
<1>3. /\ entry' = [entry EXCEPT ![r] = AbortEntry(@)]
      /\ Go(c, Ending(r, "Abort"))
      /\ UNCHANGED <<hub, store, config, fee, crashes, roomHistory>>
  BY DEF AbortRoom
<1>4. /\ Ending(r, "Abort") \in Tasks /\ Due(Ending(r, "Abort"), r)
      /\ Ending(r, "Abort").outcome = "Abort"
      /\ Ending(r, "Abort").todo \subseteq task[c].todo
  BY <1>2, Continuations DEF Due, Ends
<1>5. task'[c] = Ending(r, "Abort")
  BY <1>3, TaskFacts DEF Actors
<1> HIDE DEF r
<1> QED
  BY <1>1, <1>2, <1>3, <1>4, <1>5, AbortFacts DEF r

\* remove_client closes a room, or parks it for the operator.
LEMMA LeaveKind ==
    ASSUME Shapes, KnownInv, MembersInv, SessionInv, NEW c \in Clients,
           NEW r \in Rooms, LeaveRoom(c, r), entry[r].active
    PROVE  Finishes(c, r)
           /\ task'[c].room = r /\ task'[c].op = "prune"
           /\ task'[c].outcome = "Abort" /\ task'[c].todo \subseteq task[c].todo
<1> DEFINE t == [Ending(r, "Abort") EXCEPT !.todo = task[c].todo \ {r}]
<1>1. task[c].op = "leave" /\ r \in task[c].todo /\ c \in Actors
  BY DEF LeaveRoom, Actors
<1>2. entry[r] # NoRoom
  BY <1>1 DEF KnownInv, Concerns
<1>3. task[c] # Idle
  BY <1>1, IdleFacts
<1>4. ~entry[r].restored
  BY <1>1, <1>2, <1>3 DEF MembersInv, IsMember
<1>5. /\ entry' = [entry EXCEPT ![r] = AbortEntry(@)] /\ Go(c, t)
      /\ UNCHANGED <<hub, store, config, fee, crashes, roomHistory>>
  BY DEF LeaveRoom
<1>6. Ending(r, "Abort") \in Tasks /\ task[c].todo \ {r} \in SUBSET Rooms
  BY <1>1, Continuations DEF Shapes, Tasks
<1>7. /\ Ending(r, "Abort").room = r /\ Ending(r, "Abort").op = "prune"
      /\ Ending(r, "Abort").outcome = "Abort"
  BY Continuations
<1>8. /\ t \in Tasks /\ t.room = r /\ t.op = "prune" /\ t.outcome = "Abort"
      /\ t.todo \subseteq task[c].todo
  BY <1>6, <1>7 DEF Tasks
<1> HIDE DEF t
<1>9. Due(t, r)
  BY <1>8 DEF Due, Ends
<1>10. task'[c] = t
  BY <1>1, <1>5, TaskFacts
<1> QED
  BY <1>1, <1>2, <1>4, <1>5, <1>8, <1>9, <1>10, AbortFacts

\* try_confirm_fee_locked closes the room whose fee was confirmed.
LEMMA ConfirmKind ==
    ASSUME Shapes, Hub, KnownInv, MembersInv, SessionInv, NEW o \in Operators,
           ConfirmFee(o), Parked(entry[task[o].room])
    PROVE  Finishes(o, task[o].room) /\ task[o].room \in Rooms
<1> DEFINE r == task[o].room
           s == ConfirmFeeReceived(entry[r].session)
           e == Advance(entry[r], s)
<1>1. task[o].op = "confirm" /\ o \in Actors
  BY DEF ConfirmFee, Actors
<1>2. r \in Rooms /\ entry[r] # NoRoom /\ entry[r] \in Entries
  BY <1>1 DEF KnownInv, Concerns, Shapes
<1>3. /\ entry[r].active
      /\ entry[r].session.state = "WaitingForFeeConfirmation"
  BY DEF Parked
<1>4. Legal(entry[r].session, config)
  BY <1>2 DEF SessionInv, Fits
<1>5. Legal(s, config) /\ s.fee = entry[r].session.fee /\ s \in Sessions
  <2>1. Legal(s, config) /\ s.fee = entry[r].session.fee
    BY <1>3, <1>4, ConfirmLegal
  <2> QED
    BY <2>1 DEF Legal
<1>6. CompleteRoom(o, r, e, Ending(r, "Complete"))
  BY DEF ConfirmFee
<1>7. /\ UNCHANGED <<crashes, config, agreed, recorded, outcomes, told, hasty>>
      /\ UNCHANGED <<conn, rooms>>
  BY DEF ConfirmFee, hub
<1>8. ~entry[r].restored \/ entry[r].keys = {}
  BY <1>2 DEF MembersInv
<1>a. ASSUME Trailing
      PROVE  s.state = "Complete" /\ PastGate(entry[r].session)
  <2>1. config \in FeeConfigs
    BY DEF Hub
  <2>2. entry[r].session.position = "AfterLastRound"
        /\ entry[r].session \in Sessions
    BY <1>a, <1>3, <1>4, <2>1 DEF Trailing, Legal
  <2> QED
    BY <1>3, <2>2 DEF ConfirmFeeReceived, PastGate, Sessions
<1> HIDE DEF s
<1>9. /\ e \in Entries /\ e.session = s
      /\ e.version = entry[r].version + 1
      /\ e.a = entry[r].a /\ e.b = entry[r].b /\ e.keys = entry[r].keys
      /\ e.restored = entry[r].restored /\ e.final_ack = entry[r].final_ack
  BY <1>2, <1>5, AdvanceFacts
<1> HIDE DEF e, r
<1>10. task[o].op \notin {"joined", "idle"} /\ Ending(r, "Complete") \in
           {Announce(r, e.version, "Complete"), Ending(r, "Complete")}
       /\ Legal(e.session, config)
       /\ e.session.fee = entry[r].session.fee
  BY <1>1, <1>5, <1>9
<1>c. Trailing => e.session.state = "Complete" /\ PastGate(entry[r].session)
  BY <1>9, <1>a
<1>b. (e.final_ack <=> entry[r].final_ack) /\ e \in Entries
  BY <1>9
<1>11. Finishes(o, r)
  BY <1>1, <1>2, <1>3, <1>6, <1>7, <1>8, <1>9, <1>10, <1>b, <1>c,
     CompleteFacts
<1> QED
  BY <1>2, <1>11 DEF r

\* The end of a room is recorded and written, or the write fails.
LEMMA RemoveKind ==
    ASSUME Shapes, KnownInv, NEW a \in Actors, Prune(a) \/ PruneFails(a)
    PROVE  Removes(a, task[a].room) /\ task[a].room \in Rooms
<1> DEFINE r == task[a].room
<1>1. task[a].op = "prune" /\ task[a] \in Tasks /\ r \in Rooms
  BY DEF Prune, PruneFails, KnownInv, Shapes
<1>2. /\ entry' = entry
      /\ recorded' = [recorded EXCEPT ![r] =
                         IF task[a].outcome = "Complete" THEN @ + 1 ELSE @]
      /\ UNCHANGED <<crashes, config, issued, agreed, outcomes, told, hasty>>
      /\ UNCHANGED <<conn, rooms>>
  BY DEF Prune, PruneFails, hub
<1>3. CASE Prune(a)
  <2> DEFINE t == [task[a] EXCEPT !.op = IF Leaving(a) THEN "tell" ELSE "erase"]
  <2>1. Others(a) /\ task'[a] = t /\ Write(Removed(r))
    BY <1>3, TaskFacts DEF Prune
  <2>2. /\ t \in Tasks /\ t.room = r /\ t.outcome = task[a].outcome
        /\ t.op \in {"erase", "tell"} /\ t.todo = task[a].todo
    BY <1>1 DEF Tasks, Ops
  <2> HIDE DEF t, r
  <2>3. Late(t, r, task[a].outcome)
    BY <2>2 DEF Late
  <2> QED
    BY <1>1, <1>2, <2>1, <2>2, <2>3 DEF Removes, Write, Removed, r
<1>4. CASE PruneFails(a)
  <2>1. Others(a) /\ task'[a] = Idle /\ WriteFails(Removed(r))
    BY <1>4, TaskFacts DEF PruneFails
  <2> QED
    BY <1>1, <1>2, <2>1 DEF Removes, WriteFails, Removed
<1> QED
  BY <1>3, <1>4

\* A crash, or a failed write in remove_client, which ends the process too.
LEMMA RestartKind ==
    ASSUME Shapes, NEW c \in Clients, CrashAndRestart \/ PruneFailsLeaving(c)
    PROVE  Restarts
  BY LobbyAssumption DEF CrashAndRestart, PruneFailsLeaving, Restarts, Shapes

\* A crash when no client is connected.
LEMMA CrashKind ==
    ASSUME Shapes, CrashAndRestart
    PROVE  Restarts
  BY LobbyAssumption DEF CrashAndRestart, Restarts, Shapes

\* SETFEE touches no room.
LEMMA SetFeeKind ==
    ASSUME SetFee \/ UNCHANGED vars
    PROVE  Rests
  BY DEF Rests, Saved, SetFee, vars, hub, store, roomHistory

\* What a step can be.
Cases ==
    \/ SetFee \/ CrashAndRestart
    \/ \E c \in Clients, r \in Rooms :
          \/ HandleCreateOffer(c, r) \/ HandleCancelOffer(c, r)
          \/ HandleJoinOffer(c, r) \/ LeaveRoom(c, r)
          \/ \E q \in Requests : FindRoomFor(c, r, q)
    \/ \E c \in Clients :
          \/ Connect(c) \/ RemoveClient(c) \/ JoinPersist(c) \/ JoinAnnounce(c)
          \/ RejectRequest(c) \/ HandleSent(c) \/ HandleReceived(c)
          \/ HandleTradeEphemeralKey(c) \/ HandleReceiptAck(c)
          \/ AbortRoom(c) \/ AnnounceStep(c) \/ LeaveDone(c)
          \/ PruneFailsLeaving(c)
    \/ \E o \in Operators : \/ \E r \in Rooms : FindPendingFee(o, r)
                            \/ ConfirmFee(o)
    \/ \E a \in Actors : \/ Prune(a) \/ PruneFails(a)
                         \/ EraseRoom(a) \/ TellOutcome(a)

\* Next without its grouping.
LEMMA NextCases == Next => Cases
  BY DEF Next, Cases, Request, ClientStep, EndStep

\* A client connects.
LEMMA ConnectKind ==
    ASSUME NEW c \in Clients, Connect(c)
    PROVE  Rests
  BY DEF Rests, Saved, Connect, store, roomHistory

\* Every step is of one of the kinds.
LEMMA NextKind ==
    ASSUME Shapes, Hub, KnownInv, MembersInv, SessionInv, [Next]_vars
    PROVE  Kind
<1>0. \A c \in Clients : c \in Actors
  BY DEF Actors
<1>1. CASE UNCHANGED vars \/ SetFee
  BY <1>1, SetFeeKind DEF Kind
<1>2. CASE CrashAndRestart
  BY <1>2, CrashKind DEF Kind
<1>3. ASSUME NEW c \in Clients, NEW r \in Rooms,
             \/ HandleCreateOffer(c, r) \/ HandleCancelOffer(c, r)
             \/ HandleJoinOffer(c, r) \/ LeaveRoom(c, r)
             \/ \E q \in Requests : FindRoomFor(c, r, q)
      PROVE  Kind
  <2>1. CASE HandleCreateOffer(c, r) \/ HandleCancelOffer(c, r)
    BY <2>1, RestKind DEF Kind
  <2>2. CASE HandleJoinOffer(c, r)
    BY <2>2, <1>0, OpenKind DEF Kind
  <2>3. CASE LeaveRoom(c, r) /\ entry[r].active
    BY <2>3, <1>0, LeaveKind DEF Kind
  <2>4. CASE LeaveRoom(c, r) /\ ~entry[r].active
    BY <2>4, <1>0, LeaveNothingTalks DEF Kind
  <2>5. CASE \E q \in Requests : FindRoomFor(c, r, q)
    BY <2>5, <1>0, FindRoomTalks DEF Kind
  <2> QED
    BY <1>3, <2>1, <2>2, <2>3, <2>4, <2>5
<1>4. ASSUME NEW c \in Clients,
             \/ Connect(c) \/ RemoveClient(c) \/ JoinPersist(c)
             \/ JoinAnnounce(c) \/ RejectRequest(c) \/ HandleSent(c)
             \/ HandleReceived(c) \/ HandleTradeEphemeralKey(c)
             \/ HandleReceiptAck(c) \/ AbortRoom(c) \/ AnnounceStep(c)
             \/ LeaveDone(c) \/ PruneFailsLeaving(c)
      PROVE  Kind
  <2>1. CASE Connect(c)
    BY <2>1, ConnectKind DEF Kind
  <2>2. CASE RemoveClient(c)
    BY <2>2, <1>0, RemoveClientTalks DEF Kind
  <2>3. CASE JoinPersist(c)
    BY <2>3, <1>0, SaveKind DEF Kind
  <2>4. CASE JoinAnnounce(c)
    BY <2>4, <1>0, JoinAnnounceTalks DEF Kind
  <2>5. CASE RejectRequest(c)
    BY <2>5, <1>0, RejectTalks DEF Kind
  <2>6. CASE HandleSent(c)
    BY <2>6, <1>0, SentKind DEF Kind
  <2>7. CASE HandleReceived(c)
    BY <2>7, <1>0, ReceivedKind DEF Kind
  <2>8. CASE HandleTradeEphemeralKey(c)
    <3>1. Keyed(c, task[c].room) /\ task[c].room \in Rooms
      BY <2>8, KeyKind, EntryFacts DEF HandleTradeEphemeralKey, Requests
    <3> QED
      BY <3>1, <1>0 DEF Kind
  <2>9. CASE HandleReceiptAck(c)
    BY <2>9, <1>0, AckKind DEF Kind
  <2>10. CASE AbortRoom(c)
    BY <2>10, <1>0, AbortKind DEF Kind
  <2>11. CASE AnnounceStep(c)
    BY <2>11, <1>0, AnnounceTalks DEF Kind
  <2>12. CASE LeaveDone(c)
    BY <2>12, <1>0, LeaveDoneTalks DEF Kind
  <2>13. CASE PruneFailsLeaving(c)
    BY <2>13, RestartKind DEF Kind
  <2> QED
    BY <1>4, <2>1, <2>2, <2>3, <2>4, <2>5, <2>6, <2>7, <2>8, <2>9, <2>10,
       <2>11, <2>12, <2>13
<1>5. ASSUME NEW o \in Operators,
             (\E r \in Rooms : FindPendingFee(o, r)) \/ ConfirmFee(o)
      PROVE  Kind
  <2>0. o \in Actors
    BY DEF Actors
  <2>1. CASE \E r \in Rooms : FindPendingFee(o, r)
    BY <2>0, <2>1, FindPendingTalks DEF Kind
  <2>2. CASE ConfirmFee(o) /\ Parked(entry[task[o].room])
    BY <2>0, <2>2, ConfirmKind DEF Kind
  <2>3. CASE ConfirmFee(o) /\ ~Parked(entry[task[o].room])
    BY <2>0, <2>3, ConfirmNothingTalks DEF Kind
  <2> QED
    BY <1>5, <2>1, <2>2, <2>3
<1>6. ASSUME NEW a \in Actors, \/ Prune(a) \/ PruneFails(a)
                               \/ EraseRoom(a) \/ TellOutcome(a)
      PROVE  Kind
  <2>1. CASE Prune(a) \/ PruneFails(a)
    BY <2>1, RemoveKind DEF Kind
  <2>2. CASE EraseRoom(a)
    BY <2>2, EraseTalks DEF Kind
  <2>3. CASE TellOutcome(a)
    BY <2>3, TellTalks DEF Kind
  <2> QED
    BY <1>6, <2>1, <2>2, <2>3
<1> QED
  BY <1>1, <1>2, <1>3, <1>4, <1>5, <1>6, NextCases DEF Cases

-----------------------------------------------------------------------------
\* The parts of the invariant, kind by kind.
LEMMA QuietTasks ==
    ASSUME NEW r \in Rooms, NEW q \in Rooms
    PROVE  /\ ~Concerns(Idle, r) /\ ~Ends(Idle, r) /\ ~Speaks(Idle, r)
           /\ Idle # Do("ready", r)
           /\ \A op \in Ops : Concerns(Do(op, q), r) => r = q
           /\ \A op \in Ops \ {"prune", "erase", "tell"} : ~Ends(Do(op, q), r)
           /\ \A op \in Ops : op # "announce" => ~Speaks(Do(op, q), r)
           /\ \A v : /\ Concerns(Announce(q, v, "none"), r) => r = q
                     /\ ~Ends(Announce(q, v, "none"), r)
                     /\ Speaks(Announce(q, v, "none"), r) => r = q
                     /\ Announce(q, v, "none") # Do("ready", r)
<1>1. NoRoom \notin Rooms
  BY LobbyAssumption
<1>2. Idle.room = NoRoom /\ Idle.todo = {} /\ Idle.op = "idle"
  BY IdleFacts
<1>3. \A op : Do(op, q).room = q /\ Do(op, q).op = op
              /\ Do(op, q).todo = {} /\ Do(op, q).outcome = "none"
  BY Continuations
<1>4. Do("ready", r).op = "ready"
  BY Continuations
<1>5. \A v : /\ Announce(q, v, "none").room = q
             /\ Announce(q, v, "none").op = "announce"
             /\ Announce(q, v, "none").todo = {}
             /\ Announce(q, v, "none").outcome = "none"
  BY Continuations
<1>6. ~Concerns(Idle, r) /\ ~Ends(Idle, r) /\ ~Speaks(Idle, r)
  BY <1>1, <1>2 DEF Concerns, Ends, Speaks
<1>7. Idle # Do("ready", r)
  BY <1>2, <1>4
<1>8. \A op \in Ops : Concerns(Do(op, q), r) => r = q
  BY <1>3 DEF Concerns
<1>9. \A op \in Ops \ {"prune", "erase", "tell"} : ~Ends(Do(op, q), r)
  BY <1>3 DEF Ends
<1>10. \A op \in Ops : op # "announce" => ~Speaks(Do(op, q), r)
  BY <1>3 DEF Speaks
<1>11. \A v : /\ Concerns(Announce(q, v, "none"), r) => r = q
              /\ ~Ends(Announce(q, v, "none"), r)
              /\ Speaks(Announce(q, v, "none"), r) => r = q
  BY <1>5 DEF Concerns, Ends, Speaks
<1>12. \A v : Announce(q, v, "none") # Do("ready", r)
  BY <1>4, <1>5
<1> QED
  BY <1>6, <1>7, <1>8, <1>9, <1>10, <1>11, <1>12

\* An entry is never the mark of its absence.
LEMMA NotAbsent == \A x \in Entries : x # NoRoom
  BY LobbyAssumption

\* What the file keeps of a RoomEntry.
LEMMA SnapshotFacts ==
    ASSUME NEW e \in Entries
    PROVE  /\ Snapshot(e) \in Snapshots /\ Snapshot(e) # NoRoom
           /\ Snapshot(e).a = e.a /\ Snapshot(e).b = e.b
           /\ Snapshot(e).session = e.session
           /\ Snapshot(e).version = e.version
<1>1. /\ Snapshot(e) \in Snapshots
      /\ Snapshot(e).a = e.a /\ Snapshot(e).b = e.b
      /\ Snapshot(e).session = e.session
      /\ Snapshot(e).version = e.version
  BY DEF Snapshot, Snapshots, Entries
<1> QED
  BY <1>1, LobbyAssumption

\* What a RoomEntry is after it was read back.
LEMMA RestoredFacts ==
    ASSUME NEW d \in Snapshots, Legal(d.session, config)
    PROVE  /\ RestoredEntry(d) \in Entries
           /\ RestoredEntry(d).a = d.a /\ RestoredEntry(d).b = d.b
           /\ RestoredEntry(d).version = d.version
           /\ RestoredEntry(d).keys = {}
           /\ RestoredEntry(d).restored /\ ~RestoredEntry(d).final_ack
           /\ Legal(RestoredEntry(d).session, config)
           /\ RestoredEntry(d).session.fee = d.session.fee
           /\ RestoredEntry(d).session.state = d.session.state
           /\ RestoredEntry(d).active
                 => d.session.state \notin {"Complete", "Aborted"}
<1> DEFINE s == Restore(d.session, config.confirm, config.position)
<1>1. Legal(s, config) /\ s.fee = d.session.fee /\ s \in Sessions
  BY RestoreLegal DEF Legal
<1>2. s.state = d.session.state
  BY DEF Restore, Legal, Sessions
<1> HIDE DEF s
<1>3. /\ RestoredEntry(d).a = d.a /\ RestoredEntry(d).b = d.b
      /\ RestoredEntry(d).version = d.version
      /\ RestoredEntry(d).keys = {}
      /\ RestoredEntry(d).restored /\ ~RestoredEntry(d).final_ack
      /\ RestoredEntry(d).session = s
      /\ RestoredEntry(d).active
            => d.session.state \notin {"Complete", "Aborted"}
  BY DEF RestoredEntry, s
<1>4. RestoredEntry(d) \in Entries
  BY <1>1 DEF RestoredEntry, Entries, Snapshots, s
<1> QED
  BY <1>1, <1>2, <1>3, <1>4

\* After a restart every thread is new, and every room was read from the file.
LEMMA RestartFacts ==
    ASSUME Shapes, SessionInv, Restarts
    PROVE  /\ \A a \in Actors : task'[a] = Idle
           /\ task' \in [Actors -> Tasks]
           /\ disk' = disk /\ image' = disk /\ pruned' = pruned
           /\ config' = config
           /\ UNCHANGED <<told, outcomes, issued, recorded, hasty, agreed>>
           /\ entry' \in [Rooms -> Entries \cup {NoRoom}]
           /\ \A r \in Rooms :
                 /\ disk[r] = NoRoom => entry'[r] = NoRoom
                 /\ disk[r] # NoRoom =>
                       /\ entry'[r] \in Entries
                       /\ entry'[r].a = disk[r].a /\ entry'[r].b = disk[r].b
                       /\ entry'[r].version = disk[r].version
                       /\ entry'[r].keys = {}
                       /\ entry'[r].restored /\ ~entry'[r].final_ack
                       /\ Legal(entry'[r].session, config)
                       /\ entry'[r].session.fee = disk[r].session.fee
                       /\ entry'[r].session.state = disk[r].session.state
                       /\ entry'[r].active => disk[r].session.state # "Complete"
<1>1. /\ task' = [a \in Actors |-> Idle]
      /\ disk' = disk /\ image' = disk /\ pruned' = pruned
      /\ config' = config
      /\ UNCHANGED <<told, outcomes, issued, recorded, hasty, agreed>>
      /\ entry' = [r \in Rooms |-> IF disk[r] = NoRoom THEN NoRoom
                                   ELSE RestoredEntry(disk[r])]
  BY DEF Restarts, Restart, roomHistory
<1>2. \A r \in Rooms : disk[r] # NoRoom =>
          disk[r] \in Snapshots /\ Legal(disk[r].session, config)
  BY DEF Shapes, SessionInv, Fits
<1>3. task' \in [Actors -> Tasks] /\ \A a \in Actors : task'[a] = Idle
  BY <1>1, IdleFacts
<1>4. \A r \in Rooms : disk[r] = NoRoom => entry'[r] = NoRoom
  BY <1>1
<1>5. \A r \in Rooms : disk[r] # NoRoom =>
          /\ entry'[r] \in Entries
          /\ entry'[r].a = disk[r].a /\ entry'[r].b = disk[r].b
          /\ entry'[r].version = disk[r].version
          /\ entry'[r].keys = {}
          /\ entry'[r].restored /\ ~entry'[r].final_ack
          /\ Legal(entry'[r].session, config)
          /\ entry'[r].session.fee = disk[r].session.fee
          /\ entry'[r].session.state = disk[r].session.state
          /\ entry'[r].active => disk[r].session.state # "Complete"
  <2> SUFFICES ASSUME NEW r \in Rooms, disk[r] # NoRoom
               PROVE  /\ entry'[r] \in Entries
                      /\ entry'[r].a = disk[r].a /\ entry'[r].b = disk[r].b
                      /\ entry'[r].version = disk[r].version
                      /\ entry'[r].keys = {}
                      /\ entry'[r].restored /\ ~entry'[r].final_ack
                      /\ Legal(entry'[r].session, config)
                      /\ entry'[r].session.fee = disk[r].session.fee
                      /\ entry'[r].session.state = disk[r].session.state
                      /\ entry'[r].active => disk[r].session.state # "Complete"
    OBVIOUS
  <2>1. entry'[r] = RestoredEntry(disk[r])
    BY <1>1
  <2>2. disk[r] \in Snapshots /\ Legal(disk[r].session, config)
    BY <1>2
  <2> QED
    BY <2>1, <2>2, RestoredFacts
<1>6. entry' \in [Rooms -> Entries \cup {NoRoom}]
  <2>1. \A r \in Rooms : entry'[r] \in Entries \cup {NoRoom}
    BY <1>4, <1>5
  <2> QED
    BY <2>1, <1>1
<1> QED
  BY <1>1, <1>3, <1>4, <1>5, <1>6

\* What a write can do to the copies of a room.
LEMMA PutsFacts ==
    ASSUME Shapes, NEW a \in Actors, NEW r \in Rooms, Puts(a, r),
           entry'[r] \in Entries
    PROVE  /\ image'[r] = Snapshot(entry'[r])
           /\ \A q \in Rooms : q # r => image'[q] = image[q]
           /\ \/ disk' = image' \/ disk' = disk
           /\ \A q \in Rooms : \/ disk'[q] = image'[q]
                               \/ disk'[q] = disk[q]
           /\ \A q \in Rooms : q \in pruned => q \in pruned'
           /\ \A q \in Rooms : disk[q] # NoRoom /\ disk'[q] = NoRoom
                                  => q \in pruned'
           /\ task'[a] # Idle => disk'[r] = Snapshot(entry'[r])
           /\ disk' \in [Rooms -> Snapshots \cup {NoRoom}]
           /\ image' \in [Rooms -> Snapshots \cup {NoRoom}]
           /\ failures' \in Nat /\ crashes' \in Nat
           /\ crashes' + failures' <= MaxFaults
<1>1. Snapshot(entry'[r]) \in Snapshots
  BY SnapshotFacts
<1>2. /\ image'[r] = Snapshot(entry'[r])
      /\ \A q \in Rooms : q # r => image'[q] = image[q]
      /\ image' \in [Rooms -> Snapshots \cup {NoRoom}]
  BY <1>1 DEF Puts, Shapes
<1>3. /\ \/ disk' = image' \/ disk' = disk
      /\ task'[a] # Idle => disk' = image'
      /\ \A q \in Rooms : q \in pruned => q \in pruned'
      /\ \A q \in Rooms : disk[q] # NoRoom /\ disk'[q] = NoRoom
                             => q \in pruned'
  BY DEF Puts
<1>4. /\ failures' \in Nat /\ crashes' \in Nat
      /\ crashes' + failures' <= MaxFaults
  BY LobbyAssumption DEF Puts, Shapes
<1> QED
  BY <1>2, <1>3, <1>4 DEF Shapes

\* What the removal of a room can do to the copies.
LEMMA RemovesFacts ==
    ASSUME Shapes, NEW a \in Actors, NEW r \in Rooms, Removes(a, r)
    PROVE  /\ image'[r] = NoRoom
           /\ \A q \in Rooms : q # r => image'[q] = image[q]
           /\ \/ disk' = image' \/ disk' = disk
           /\ \A q \in Rooms : \/ disk'[q] = image'[q]
                               \/ disk'[q] = disk[q]
           /\ \A q \in Rooms : q \in pruned => q \in pruned'
           /\ \A q \in Rooms : disk[q] # NoRoom /\ disk'[q] = NoRoom
                                  => q \in pruned'
           /\ disk' \in [Rooms -> Snapshots \cup {NoRoom}]
           /\ image' \in [Rooms -> Snapshots \cup {NoRoom}]
           /\ failures' \in Nat /\ crashes' \in Nat
           /\ crashes' + failures' <= MaxFaults
           /\ task'[a] \in Tasks
           /\ task'[a].todo \subseteq task[a].todo
           /\ task'[a] = Idle \/ Late(task'[a], r, task[a].outcome)
<1>1. /\ image'[r] = NoRoom
      /\ \A q \in Rooms : q # r => image'[q] = image[q]
      /\ image' \in [Rooms -> Snapshots \cup {NoRoom}]
  BY DEF Removes, Shapes
<1>2. /\ \/ disk' = image' \/ disk' = disk
      /\ \A q \in Rooms : q \in pruned => q \in pruned'
      /\ \A q \in Rooms : disk[q] # NoRoom /\ disk'[q] = NoRoom
                             => q \in pruned'
  BY DEF Removes
<1>3. /\ failures' \in Nat /\ crashes' \in Nat
      /\ crashes' + failures' <= MaxFaults
  BY LobbyAssumption DEF Removes, Shapes
<1>4. /\ task'[a] \in Tasks
      /\ task'[a].todo \subseteq task[a].todo
      /\ task'[a] = Idle \/ Late(task'[a], r, task[a].outcome)
  BY IdleFacts DEF Removes
<1> QED
  BY <1>1, <1>2, <1>3, <1>4 DEF Shapes

\* No thread and no copy survives its RoomEntry: rooms are only forgotten by a
\* restart, which forgets the threads too.
LEMMA KnownStep ==
    ASSUME Shapes, SessionInv, KnownInv, BlankInv, Kind
    PROVE  KnownInv'
<1> DEFINE Fine(t, e) ==
              /\ t.op \notin {"idle", "leave"} => t.room \in Rooms
              /\ t.op \in {"idle", "leave"} => t.room = NoRoom
              /\ t.op \in {"prune", "erase", "tell"} => t.outcome # "none"
              /\ \A r \in Rooms : Concerns(t, r) => e[r] # NoRoom
<1>0. \A e : Fine(Idle, e)
  BY IdleFacts, QuietTasks
<1>a. \A a \in Actors : Fine(task[a], entry)
  BY DEF KnownInv
<1>b. (\A a \in Actors : Fine(task'[a], entry'))
      /\ (\A r \in Rooms : disk'[r] # NoRoom \/ image'[r] # NoRoom
                              => entry'[r] # NoRoom)
      => KnownInv'
  BY DEF KnownInv
<1>d. \A e, f, t : Fine(t, e) /\ (\A r \in Rooms : e[r] # NoRoom => f[r] # NoRoom)
                   => Fine(t, f)
  OBVIOUS
<1>e. \A r \in Rooms, op \in Ops \ {"idle", "leave", "prune", "erase", "tell"} :
         \A e : e[r] # NoRoom => Fine(Do(op, r), e)
  BY Continuations DEF Concerns
<1>f. \A r \in Rooms : \A v, e : e[r] # NoRoom => Fine(Announce(r, v, "none"), e)
  BY Continuations DEF Concerns
<1>1. CASE Rests
  BY <1>1 DEF Rests, KnownInv, Saved
<1>2. CASE Restarts
  <2>1. /\ \A a \in Actors : task'[a] = Idle
        /\ disk' = disk /\ image' = disk
        /\ \A r \in Rooms : disk[r] # NoRoom => entry'[r] \in Entries
    BY <1>2, RestartFacts
  <2> HIDE DEF Fine
  <2> QED
    BY <2>1, <1>0, <1>b, NotAbsent
<1>3. ASSUME NEW a \in Actors, Talks(a) PROVE KnownInv'
  <2>1. Fine(task'[a], entry)
    BY <1>3 DEF Talks
  <2>2. /\ entry' = entry /\ disk' = disk /\ image' = image
        /\ \A b \in Actors : b # a => task'[b] = task[b]
    BY <1>3 DEF Talks, Others, Saved
  <2>3. \A r \in Rooms : disk'[r] # NoRoom \/ image'[r] # NoRoom
                            => entry'[r] # NoRoom
    BY <2>2 DEF KnownInv
  <2> HIDE DEF Fine
  <2> QED
    BY <2>1, <2>2, <2>3, <1>a, <1>b
<1>4. ASSUME NEW a \in Actors, NEW r \in Rooms,
             Keyed(a, r) \/ Opens(a, r) \/ Finishes(a, r) \/ Moves(a, r)
             \/ Saves(a, r)
      PROVE  KnownInv'
  <2>1. /\ entry'[r] # NoRoom
        /\ \A q \in Rooms : q # r => entry'[q] = entry[q]
        /\ \A b \in Actors : b # a => task'[b] = task[b]
    BY <1>4, NotAbsent DEF Keyed, Opens, Finishes, Moves, Saves, Others, Elsewhere
  <2>2. \A q \in Rooms : entry[q] # NoRoom => entry'[q] # NoRoom
    BY <2>1
  <2>3. \A b \in Actors : b # a => Fine(task'[b], entry')
    <3> HIDE DEF Fine
    <3> QED
      BY <2>1, <2>2, <1>a, <1>d
  <2>4. Fine(task'[a], entry')
    <3>1. CASE task'[a] = Idle
      <4> HIDE DEF Fine
      <4> QED
        BY <3>1, <1>0
    <3>2. CASE \E op \in {"joined", "ready", "abort"} : task'[a] = Do(op, r)
      <4>1. {"joined", "ready", "abort"} \subseteq
               Ops \ {"idle", "leave", "prune", "erase", "tell"}
        BY DEF Ops
      <4> HIDE DEF Fine
      <4> QED
        BY <3>2, <4>1, <2>1, <1>e
    <3>3. CASE \E v : task'[a] = Announce(r, v, "none")
      <4> HIDE DEF Fine
      <4> QED
        BY <3>3, <2>1, <1>f
    <3>4. CASE Finishes(a, r) /\ task'[a] # Idle
      <4>1. /\ task'[a].room = r /\ task'[a].op \in {"announce", "prune"}
            /\ task'[a].outcome # "none" /\ task'[a].todo \subseteq task[a].todo
        BY <3>4 DEF Finishes, Due, Ends
      <4>2. \A q \in Rooms : Concerns(task'[a], q)
                                => q = r \/ Concerns(task[a], q)
        BY <4>1 DEF Concerns
      <4>3. \A q \in Rooms : Concerns(task'[a], q) => entry'[q] # NoRoom
        BY <2>1, <2>2, <4>2, <1>a
      <4> QED
        BY <4>1, <4>3
    <3>5. Keyed(a, r) => task'[a] = Idle
      BY DEF Keyed
    <3>6. Opens(a, r) => \E op \in {"joined", "ready", "abort"} :
                            task'[a] = Do(op, r)
      BY DEF Opens
    <3>7. Saves(a, r) => task'[a] = Idle
             \/ \E op \in {"joined", "ready", "abort"} : task'[a] = Do(op, r)
      BY DEF Saves
    <3>8. Moves(a, r) => task'[a] = Idle
             \/ (\E op \in {"joined", "ready", "abort"} : task'[a] = Do(op, r))
             \/ (\E v : task'[a] = Announce(r, v, "none"))
      BY DEF Moves
    <3> HIDE DEF Fine
    <3> QED
      BY <1>4, <3>1, <3>2, <3>3, <3>4, <3>5, <3>6, <3>7, <3>8
  <2>5. \A q \in Rooms : q # r => image'[q] = image[q]
                                  /\ (disk'[q] = disk[q] \/ disk'[q] = image'[q])
    <3>1. CASE Keyed(a, r) \/ Opens(a, r) \/ Finishes(a, r)
      BY <3>1 DEF Keyed, Opens, Finishes, Saved
    <3>2. CASE Moves(a, r)
      BY <3>2, PutsFacts DEF Moves
    <3>3. CASE Saves(a, r)
      <4>1. entry'[r] \in Entries
        BY <3>3 DEF Saves, Shapes
      <4> QED
        BY <3>3, <4>1, PutsFacts DEF Saves
    <3> QED
      BY <1>4, <3>1, <3>2, <3>3
  <2>6. \A q \in Rooms : disk'[q] # NoRoom \/ image'[q] # NoRoom
                            => entry'[q] # NoRoom
    BY <2>1, <2>2, <2>5 DEF KnownInv
  <2> HIDE DEF Fine
  <2> QED
    BY <2>3, <2>4, <2>6, <1>b
<1>5. ASSUME NEW a \in Actors, NEW r \in Rooms, Removes(a, r) PROVE KnownInv'
  <2>1. /\ \A b \in Actors : b # a => task'[b] = task[b]
        /\ entry' = entry /\ task[a].room = r /\ task[a].op = "prune"
    BY <1>5 DEF Removes, Others
  <2>2. /\ image'[r] = NoRoom
        /\ \A q \in Rooms : q # r => image'[q] = image[q]
        /\ \A q \in Rooms : disk'[q] = image'[q] \/ disk'[q] = disk[q]
        /\ task'[a].todo \subseteq task[a].todo
        /\ task'[a] = Idle \/ Late(task'[a], r, task[a].outcome)
    BY <1>5, RemovesFacts
  <2>3. \A q \in Rooms : disk'[q] # NoRoom \/ image'[q] # NoRoom
                            => entry'[q] # NoRoom
    BY <2>1, <2>2 DEF KnownInv
  <2>4. Fine(task'[a], entry)
    <3>1. CASE task'[a] = Idle
      <4> HIDE DEF Fine
      <4> QED
        BY <3>1, <1>0
    <3>2. CASE Late(task'[a], r, task[a].outcome)
      <4>1. /\ task'[a].room = r /\ task'[a].op \in {"erase", "tell"}
            /\ task'[a].outcome = task[a].outcome
        BY <3>2 DEF Late
      <4>2. \A q \in Rooms : Concerns(task'[a], q) => Concerns(task[a], q)
        BY <2>1, <2>2, <4>1 DEF Concerns
      <4>3. task[a].outcome # "none"
        BY <2>1, <1>a
      <4> QED
        BY <4>1, <4>2, <4>3, <1>a
    <3> QED
      BY <2>2, <3>1, <3>2
  <2> HIDE DEF Fine
  <2> QED
    BY <2>1, <2>3, <2>4, <1>a, <1>b
<1> QED
  BY <1>1, <1>2, <1>3, <1>4, <1>5 DEF Kind

\* `active` is cleared once, so a second thread never starts to end the room.
LEMMA EndsStep ==
    ASSUME Shapes, SessionInv, KnownInv, BlankInv, EndInv, Kind
    PROVE  EndInv'
<1> SUFFICES ASSUME NEW x \in Actors, NEW q \in Rooms, Ends(task'[x], q)
             PROVE  /\ ~entry'[q].active /\ ~entry'[q].restored
                    /\ \A b \in Actors : Ends(task'[b], q) => b = x
  BY DEF EndInv
<1> DEFINE Goal == /\ ~entry'[q].active /\ ~entry'[q].restored
                   /\ \A b \in Actors : Ends(task'[b], q) => b = x
<1>0. \A b \in Actors : Ends(task[b], q) =>
         /\ ~entry[q].active /\ ~entry[q].restored
         /\ \A d \in Actors : Ends(task[d], q) => d = b
  BY DEF EndInv
<1>1. CASE Rests
  BY <1>1, <1>0 DEF Rests
<1>2. CASE Restarts
  BY <1>2, RestartFacts, QuietTasks
<1>3. ASSUME NEW a \in Actors, Talks(a) PROVE Goal
  <2>1. Ends(task'[a], q) => Ends(task[a], q)
    BY <1>3 DEF Talks, Ends
  <2>2. entry' = entry /\ \A b \in Actors : b # a => task'[b] = task[b]
    BY <1>3 DEF Talks, Others
  <2>3. \A b \in Actors : Ends(task'[b], q) => Ends(task[b], q)
    BY <2>1, <2>2
  <2> QED
    BY <2>2, <2>3, <1>0
<1>4. ASSUME NEW a \in Actors, NEW r \in Rooms,
             Keyed(a, r) \/ Opens(a, r) \/ Moves(a, r) \/ Saves(a, r)
      PROVE  Goal
  <2>1. ~Ends(task'[a], q)
    <3>1. CASE task'[a] = Idle
      BY <3>1, QuietTasks
    <3>2. CASE task'[a] # Idle
      <4>1. "joined" \in Ops /\ "ready" \in Ops /\ "abort" \in Ops
        BY DEF Ops
      <4>2. task'[a] \in {Do("joined", r), Do("ready", r), Do("abort", r)}
            \/ \E v : task'[a] = Announce(r, v, "none")
        BY <1>4, <3>2 DEF Keyed, Opens, Moves, Saves
      <4> QED
        BY <4>1, <4>2, QuietTasks
    <3> QED
      BY <3>1, <3>2
  <2>2. \A b \in Actors : b # a => task'[b] = task[b]
    BY <1>4 DEF Keyed, Opens, Moves, Saves, Others
  <2>3. \A b \in Actors : Ends(task'[b], q) => Ends(task[b], q)
    BY <2>1, <2>2
  <2>4. Ends(task[x], q)
    BY <2>3
  <2>5. entry[q] # NoRoom
    BY <2>4 DEF KnownInv, Ends, Concerns
  <2>6. CASE q # r
    <3>1. entry'[q] = entry[q]
      BY <1>4, <2>6 DEF Keyed, Opens, Moves, Saves, Elsewhere
    <3> QED
      BY <3>1, <2>3, <2>4, <1>0
  <2>7. CASE q = r
    <3>1. ~Moves(a, r)
      BY <2>4, <2>7, <1>0 DEF Moves
    <3>2. ~Opens(a, r)
      BY <2>5, <2>7 DEF Opens, BlankInv, Blank
    <3>3. CASE Saves(a, r)
      BY <3>3, <2>3, <2>4, <1>0 DEF Saves
    <3>4. CASE Keyed(a, r)
      <4>1. entry[r] \in Entries
        BY <2>5, <2>7 DEF Shapes
      <4>2. entry'[r].active = entry[r].active
            /\ entry'[r].restored = entry[r].restored
        BY <3>4, <4>1 DEF Keyed, Entries
      <4> QED
        BY <4>2, <2>3, <2>4, <2>7, <1>0
    <3> QED
      BY <1>4, <3>1, <3>2, <3>3, <3>4
  <2> QED
    BY <2>6, <2>7
<1>5. ASSUME NEW a \in Actors, NEW r \in Rooms, Finishes(a, r)
      PROVE  Goal
  <2>1. /\ \A b \in Actors : b # a => task'[b] = task[b]
        /\ \A p \in Rooms : p # r => entry'[p] = entry[p]
        /\ entry[r].active /\ ~entry'[r].active
        /\ task'[a] = Idle \/ (Ends(task'[a], r) /\ ~entry'[r].restored)
    BY <1>5 DEF Finishes, Others, Elsewhere, Due
  <2>2. \A b \in Actors : ~Ends(task[b], r)
    BY <2>1 DEF EndInv
  <2>3. CASE q = r
    <3>1. \A b \in Actors : Ends(task'[b], q) => b = a
      BY <2>1, <2>2, <2>3
    <3>2. x = a /\ task'[a] # Idle
      BY <3>1, QuietTasks
    <3> QED
      BY <2>1, <2>3, <3>1, <3>2
  <2>4. CASE q # r
    <3>1. ~Ends(task'[a], q)
      BY <2>1, <2>4, QuietTasks DEF Ends
    <3>2. \A b \in Actors : Ends(task'[b], q) => Ends(task[b], q)
      BY <2>1, <3>1
    <3> QED
      BY <2>1, <2>4, <3>2, <1>0
  <2> QED
    BY <2>3, <2>4
<1>6. ASSUME NEW a \in Actors, NEW r \in Rooms, Removes(a, r)
      PROVE  Goal
  <2>1. /\ \A b \in Actors : b # a => task'[b] = task[b]
        /\ entry' = entry /\ Ends(task[a], r)
    BY <1>6 DEF Removes, Others, Ends
  <2>2. task'[a] = Idle \/ Late(task'[a], r, task[a].outcome)
    BY <1>6, RemovesFacts
  <2>3. Ends(task'[a], q) => q = r
    BY <2>2, QuietTasks DEF Late, Ends
  <2>4. \A b \in Actors : Ends(task'[b], q) => Ends(task[b], q)
    BY <2>1, <2>3
  <2> QED
    BY <2>1, <2>4, <1>0
<1> QED
  BY <1>1, <1>2, <1>3, <1>4, <1>5, <1>6 DEF Kind

\* Rooms and copies hold legal sessions with the agreed fee.
LEMMA SessionStep ==
    ASSUME Shapes, SessionInv, BlankInv, Kind
    PROVE  SessionInv'
<1> SUFFICES ASSUME NEW q \in Rooms
             PROVE  /\ entry'[q] # NoRoom => Fits(entry[q], q)'
                    /\ disk'[q] # NoRoom => Fits(disk[q], q)'
                    /\ image'[q] # NoRoom => Fits(image[q], q)'
  BY DEF SessionInv
<1> DEFINE Ok(x, cfg, f) == x # NoRoom => Legal(x.session, cfg)
                                          /\ x.session.fee = f
           Goal == /\ Ok(entry'[q], config', agreed'[q])
                   /\ Ok(disk'[q], config', agreed'[q])
                   /\ Ok(image'[q], config', agreed'[q])
<1>a. /\ Ok(entry[q], config, agreed[q]) /\ Ok(disk[q], config, agreed[q])
      /\ Ok(image[q], config, agreed[q])
  BY DEF SessionInv, Fits
<1>b. \A e \in Entries : \A cfg, f : Ok(e, cfg, f) => Ok(Snapshot(e), cfg, f)
  BY SnapshotFacts, NotAbsent
<1>c. Ok(NoRoom, config, agreed[q])
  OBVIOUS
<1>1. ASSUME Rests PROVE Goal
  BY <1>1, <1>a DEF Rests, Saved
<1>2. ASSUME Restarts PROVE Goal
  BY <1>2, <1>a, RestartFacts
<1>3. ASSUME NEW a \in Actors, Talks(a) PROVE Goal
  BY <1>3, <1>a DEF Talks, Saved
<1>4. ASSUME NEW a \in Actors, NEW r \in Rooms, Moves(a, r) PROVE Goal
  <2>1. config' = config /\ agreed' = agreed /\ entry'[r] \in Entries
    BY <1>4 DEF Moves, Puts
  <2>2. Ok(entry'[q], config, agreed[q])
    BY <1>4, <1>a DEF Moves, Elsewhere
  <2>3. /\ image'[r] = Snapshot(entry'[r])
        /\ \A p \in Rooms : p # r => image'[p] = image[p]
        /\ disk'[q] = image'[q] \/ disk'[q] = disk[q]
    BY <1>4, <2>1, PutsFacts DEF Moves
  <2> HIDE DEF Ok
  <2>4. Ok(image'[q], config, agreed[q])
    BY <2>1, <2>2, <2>3, <1>a, <1>b
  <2> QED
    BY <2>1, <2>2, <2>3, <2>4, <1>a
<1>5. ASSUME NEW a \in Actors, NEW r \in Rooms, Saves(a, r) PROVE Goal
  <2>1. config' = config /\ agreed' = agreed /\ entry' = entry
        /\ entry'[r] \in Entries
    BY <1>5 DEF Saves, Puts, Shapes
  <2>2. /\ image'[r] = Snapshot(entry'[r])
        /\ \A p \in Rooms : p # r => image'[p] = image[p]
        /\ disk'[q] = image'[q] \/ disk'[q] = disk[q]
    BY <1>5, <2>1, PutsFacts DEF Saves
  <2> HIDE DEF Ok
  <2>3. Ok(image'[q], config, agreed[q])
    BY <2>1, <2>2, <1>a, <1>b
  <2> QED
    BY <2>1, <2>2, <2>3, <1>a
<1>6. ASSUME NEW a \in Actors, NEW r \in Rooms, Finishes(a, r) PROVE Goal
  BY <1>6, <1>a DEF Finishes, Elsewhere, Saved
<1>7. ASSUME NEW a \in Actors, NEW r \in Rooms, Keyed(a, r) PROVE Goal
  <2>1. q = r => entry'[q].session = entry[q].session
    BY <1>7 DEF Keyed, Entries
  <2>2. entry[r] # NoRoom
    BY <1>7 DEF Keyed
  <2> QED
    BY <1>7, <2>1, <2>2, <1>a DEF Keyed, Elsewhere, Saved
<1>8. ASSUME NEW a \in Actors, NEW r \in Rooms, Opens(a, r) PROVE Goal
  <2>1. disk[r] = NoRoom /\ image[r] = NoRoom
    BY <1>8 DEF Opens, BlankInv, Blank
  <2>2. config' = config /\ disk' = disk /\ image' = image
    BY <1>8 DEF Opens, Saved
  <2>3. Ok(entry'[q], config', agreed'[q])
    BY <1>8, <2>2, <1>a DEF Opens, Elsewhere
  <2>4. q # r => agreed'[q] = agreed[q]
    BY <1>8 DEF Opens
  <2> QED
    BY <2>1, <2>2, <2>3, <2>4, <1>a
<1>9. ASSUME NEW a \in Actors, NEW r \in Rooms, Removes(a, r) PROVE Goal
  <2>1. config' = config /\ agreed' = agreed /\ entry' = entry
    BY <1>9 DEF Removes
  <2>2. /\ image'[q] = NoRoom \/ image'[q] = image[q]
        /\ disk'[q] = image'[q] \/ disk'[q] = disk[q]
    BY <1>9, RemovesFacts
  <2> HIDE DEF Ok
  <2> QED
    BY <2>1, <2>2, <1>a, <1>c
<1>10. Goal
  <2> HIDE DEF Goal
  <2> QED
    BY <1>1, <1>2, <1>3, <1>4, <1>5, <1>6, <1>7, <1>8, <1>9 DEF Kind
<1> QED
  BY <1>10 DEF Fits

\* Copies follow their room and the file follows the map.
LEMMA VersionStep ==
    ASSUME Shapes, SessionInv, KnownInv, BlankInv, VersionInv, Kind
    PROVE  VersionInv'
<1> SUFFICES ASSUME NEW q \in Rooms
             PROVE  /\ disk'[q] # NoRoom => disk'[q].version <= entry'[q].version
                    /\ image'[q] # NoRoom
                          => image'[q].version <= entry'[q].version
                    /\ disk'[q] # NoRoom /\ image'[q] # NoRoom
                          => disk'[q].version <= image'[q].version
  BY DEF VersionInv
<1> DEFINE Goal ==
              /\ disk'[q] # NoRoom => disk'[q].version <= entry'[q].version
              /\ image'[q] # NoRoom => image'[q].version <= entry'[q].version
              /\ disk'[q] # NoRoom /\ image'[q] # NoRoom
                    => disk'[q].version <= image'[q].version
<1>a. /\ disk[q] # NoRoom => disk[q].version <= entry[q].version
      /\ image[q] # NoRoom => image[q].version <= entry[q].version
      /\ disk[q] # NoRoom /\ image[q] # NoRoom
            => disk[q].version <= image[q].version
  BY DEF VersionInv
<1>b. /\ disk[q] # NoRoom => disk[q].version \in Nat
      /\ image[q] # NoRoom => image[q].version \in Nat
      /\ entry[q] # NoRoom => entry[q].version \in Nat
  BY DEF Shapes, Entries, Snapshots
<1>c. disk[q] # NoRoom \/ image[q] # NoRoom => entry[q] # NoRoom
  BY DEF KnownInv
<1>1. CASE Rests
  BY <1>1, <1>a DEF Rests, Saved
<1>2. CASE Restarts
  BY <1>2, <1>a, <1>b, RestartFacts
<1>3. ASSUME NEW a \in Actors, Talks(a) PROVE Goal
  BY <1>3, <1>a DEF Talks, Saved
<1>4. ASSUME NEW a \in Actors, NEW r \in Rooms, Moves(a, r) \/ Saves(a, r)
      PROVE  Goal
  <2>1. entry'[r] \in Entries /\ Puts(a, r)
    BY <1>4 DEF Moves, Saves, Shapes
  <2>2. /\ image'[r] = Snapshot(entry'[r])
        /\ \A p \in Rooms : p # r => image'[p] = image[p]
        /\ disk'[q] = image'[q] \/ disk'[q] = disk[q]
    BY <2>1, PutsFacts
  <2>3. image'[r] # NoRoom /\ image'[r].version = entry'[r].version
    BY <2>1, <2>2, SnapshotFacts
  <2>4. q # r => entry'[q] = entry[q]
    BY <1>4 DEF Moves, Saves, Elsewhere
  <2>5. entry'[r].version \in Nat
    BY <2>1 DEF Entries
  <2>6. entry[r] # NoRoom /\ entry[r].version \in Nat
        /\ entry'[r].version >= entry[r].version
    BY <1>4 DEF Moves, Saves, Shapes, Entries
  <2>7. CASE q = r
    BY <2>2, <2>3, <2>5, <2>6, <2>7, <1>a, <1>b
  <2>8. CASE q # r
    BY <2>2, <2>4, <2>8, <1>a, <1>b
  <2> QED
    BY <2>7, <2>8
<1>5. ASSUME NEW a \in Actors, NEW r \in Rooms,
             Finishes(a, r) \/ Keyed(a, r) \/ Opens(a, r)
      PROVE  Goal
  <2>1. disk' = disk /\ image' = image
    BY <1>5 DEF Finishes, Keyed, Opens, Saved
  <2>2. q # r => entry'[q] = entry[q]
    BY <1>5 DEF Finishes, Keyed, Opens, Elsewhere
  <2>3. CASE q = r /\ Finishes(a, r)
    <3>1. entry'[q].version >= entry[q].version /\ entry'[q].version \in Nat
      BY <2>3 DEF Finishes, Entries
    <3> QED
      BY <3>1, <2>1, <1>a, <1>b, <1>c
  <2>4. CASE q = r /\ Keyed(a, r)
    <3>1. entry[r] # NoRoom => entry'[r].version = entry[r].version
      BY <2>4 DEF Keyed, Shapes, Entries
    <3> QED
      BY <3>1, <2>1, <2>4, <1>a, <1>c
  <2>5. CASE q = r /\ Opens(a, r)
    <3>1. disk[r] = NoRoom /\ image[r] = NoRoom
      BY <2>5 DEF Opens, BlankInv, Blank
    <3> QED
      BY <3>1, <2>1, <2>5
  <2> QED
    BY <1>5, <2>1, <2>2, <2>3, <2>4, <2>5, <1>a
<1>6. ASSUME NEW a \in Actors, NEW r \in Rooms, Removes(a, r) PROVE Goal
  <2>1. /\ image'[q] = NoRoom \/ image'[q] = image[q]
        /\ disk'[q] = image'[q] \/ disk'[q] = disk[q]
    BY <1>6, RemovesFacts
  <2>2. entry' = entry
    BY <1>6 DEF Removes
  <2> QED
    BY <2>1, <2>2, <1>a, <1>b
<1> QED
  BY <1>1, <1>2, <1>3, <1>4, <1>5, <1>6 DEF Kind

\* Which steps change the hub, and which tell a client something.
LEMMA HubCases ==
    ASSUME [Next]_vars
    PROVE  \/ UNCHANGED <<hub, config, fee>>
           \/ SetFee \/ Restart
           \/ \E c \in Clients : Connect(c) \/ RemoveClient(c) \/ LeaveDone(c)
           \/ \E c \in Clients, r \in Rooms :
                 \/ HandleCreateOffer(c, r) \/ HandleCancelOffer(c, r)
                 \/ HandleJoinOffer(c, r)
           \/ \E a \in Actors : EraseRoom(a)
<1> DEFINE Same == UNCHANGED <<hub, config, fee>>
<1>1. UNCHANGED vars => Same
  BY DEF vars, hub
<1>2. \A c \in Clients :
         \/ JoinPersist(c) \/ JoinAnnounce(c) \/ RejectRequest(c)
         \/ HandleSent(c) \/ HandleReceived(c) \/ HandleTradeEphemeralKey(c)
         \/ HandleReceiptAck(c) \/ AbortRoom(c) \/ AnnounceStep(c)
         => Same
  BY ZenonT(40) DEF JoinPersist, JoinAnnounce, RejectRequest, HandleSent, HandleReceived,
     HandleTradeEphemeralKey, HandleReceiptAck, AbortRoom, AnnounceStep
<1>3. \A c \in Clients, r \in Rooms :
         LeaveRoom(c, r) \/ (\E q \in Requests : FindRoomFor(c, r, q)) => Same
  BY DEF LeaveRoom, FindRoomFor
<1>4. \A o \in Operators, r \in Rooms :
         FindPendingFee(o, r) \/ ConfirmFee(o) => Same
  BY DEF FindPendingFee, ConfirmFee
<1>5. \A o \in Operators : ConfirmFee(o) => Same
  BY DEF ConfirmFee
<1>6. \A a \in Actors : Prune(a) \/ PruneFails(a) \/ TellOutcome(a) => Same
  BY DEF Prune, PruneFails, TellOutcome
<1>7. CrashAndRestart \/ (\E c \in Clients : PruneFailsLeaving(c)) => Restart
  BY DEF CrashAndRestart, PruneFailsLeaving
<1> HIDE DEF Same
<1> QED
  BY <1>1, <1>2, <1>3, <1>4, <1>5, <1>6, <1>7, NextCases DEF Cases, Same

\* Which actions tell clients something.
LEMMA NewsCases ==
    ASSUME [Next]_vars
    PROVE  /\ \/ UNCHANGED <<told, hasty>>
              \/ \E c \in Clients : JoinAnnounce(c) \/ AnnounceStep(c)
           /\ UNCHANGED outcomes \/ \E a \in Actors : TellOutcome(a)
<1> DEFINE Same == UNCHANGED <<told, hasty, outcomes>>
<1>1. UNCHANGED vars \/ SetFee \/ CrashAndRestart => Same
  BY DEF vars, roomHistory, SetFee, CrashAndRestart, Restart
<1>2. \A c \in Clients :
         \/ JoinPersist(c) \/ RejectRequest(c)
         \/ HandleSent(c) \/ HandleReceived(c) \/ HandleTradeEphemeralKey(c)
         \/ HandleReceiptAck(c) \/ AbortRoom(c)
         \/ Connect(c) \/ RemoveClient(c) \/ LeaveDone(c) \/ PruneFailsLeaving(c)
         => Same
  BY ZenonT(40) DEF JoinPersist, RejectRequest, HandleSent, HandleReceived,
     HandleTradeEphemeralKey, HandleReceiptAck, AbortRoom, Connect,
     RemoveClient, LeaveDone, PruneFailsLeaving, Restart, roomHistory
<1>3. \A c \in Clients, r \in Rooms :
         \/ LeaveRoom(c, r) \/ (\E q \in Requests : FindRoomFor(c, r, q))
         \/ HandleCreateOffer(c, r) \/ HandleCancelOffer(c, r)
         \/ HandleJoinOffer(c, r)
         => Same
  BY DEF LeaveRoom, FindRoomFor, HandleCreateOffer, HandleCancelOffer,
     HandleJoinOffer, roomHistory
<1>4. \A o \in Operators, r \in Rooms : FindPendingFee(o, r) => Same
  BY DEF FindPendingFee, roomHistory
<1>5. \A o \in Operators : ConfirmFee(o) => Same
  BY DEF ConfirmFee
<1>6. \A a \in Actors : Prune(a) \/ PruneFails(a) \/ EraseRoom(a) => Same
  BY DEF Prune, PruneFails, EraseRoom, roomHistory
<1>7. \A a \in Actors : TellOutcome(a) => UNCHANGED <<told, hasty>>
  BY DEF TellOutcome
<1>8. \A c \in Clients : JoinAnnounce(c) \/ AnnounceStep(c) => UNCHANGED outcomes
  BY DEF JoinAnnounce, AnnounceStep
<1>9. Same => UNCHANGED <<told, hasty>> /\ UNCHANGED outcomes
  OBVIOUS
<1> HIDE DEF Same
<1> QED
  BY <1>1, <1>2, <1>3, <1>4, <1>5, <1>6, <1>7, <1>8, <1>9, NextCases DEF Cases

\* Every step keeps the types of rooms, copies and threads.
LEMMA ShapesStep ==
    ASSUME Shapes, SessionInv, KnownInv, Kind, [Next]_vars
    PROVE  Shapes'
<1>1. told' \in [Rooms -> Nat]
  <2>1. CASE UNCHANGED <<told, hasty>>
    BY <2>1 DEF Shapes
  <2>2. ASSUME NEW c \in Clients, JoinAnnounce(c) PROVE told' \in [Rooms -> Nat]
    <3>1. task[c].room \in Rooms /\ entry[task[c].room] \in Entries
      BY <2>2 DEF JoinAnnounce, KnownInv, Concerns, Shapes, Actors
    <3>2. entry[task[c].room].version \in Nat
      BY <3>1 DEF Entries
    <3> QED
      BY <2>2, <3>1, <3>2 DEF JoinAnnounce, Shapes
  <2>3. ASSUME NEW c \in Clients, AnnounceStep(c) PROVE told' \in [Rooms -> Nat]
    <3>1. task[c].version \in Nat
      BY DEF Shapes, Tasks, Actors
    <3> QED
      BY <2>3, <3>1 DEF AnnounceStep, Shapes
  <2> QED
    BY <2>1, <2>2, <2>3, NewsCases
<1>2. outcomes' \in [Rooms -> SUBSET {"Complete", "Abort"}]
  <2>1. ASSUME NEW a \in Actors, TellOutcome(a)
        PROVE  outcomes' \in [Rooms -> SUBSET {"Complete", "Abort"}]
    <3>1. task[a].outcome \in {"Complete", "Abort"}
      BY <2>1 DEF TellOutcome, KnownInv, Shapes, Tasks
    <3> QED
      BY <2>1, <3>1 DEF TellOutcome, Shapes
  <2> QED
    BY <2>1, NewsCases DEF Shapes
<1> DEFINE Rest ==
              /\ entry' \in [Rooms -> Entries \cup {NoRoom}]
              /\ disk' \in [Rooms -> Snapshots \cup {NoRoom}]
              /\ image' \in [Rooms -> Snapshots \cup {NoRoom}]
              /\ crashes' \in Nat /\ failures' \in Nat
              /\ crashes' + failures' <= MaxFaults
              /\ recorded' \in [Rooms -> Nat]
              /\ issued' \in [Rooms -> SUBSET {"penultimate", "completed",
                                               "completed_unchained"}]
              /\ agreed' \in [Rooms -> BOOLEAN]
<1>3. task' \in [Actors -> Tasks]
  <2>1. CASE Rests
    BY <2>1 DEF Rests, Shapes
  <2>2. CASE Restarts
    BY <2>2, IdleFacts DEF Restarts, Restart
  <2>3. ASSUME NEW a \in Actors, Others(a), task'[a] \in Tasks
        PROVE  task' \in [Actors -> Tasks]
    BY <2>3 DEF Others, Shapes
  <2>4. ASSUME NEW a \in Actors, NEW r \in Rooms,
               \/ Keyed(a, r) \/ Opens(a, r) \/ Saves(a, r)
               \/ Moves(a, r) \/ Finishes(a, r) \/ Removes(a, r)
        PROVE  Others(a) /\ task'[a] \in Tasks
    <3>1. /\ Idle \in Tasks /\ Do("joined", r) \in Tasks
          /\ Do("ready", r) \in Tasks /\ Do("abort", r) \in Tasks
      BY Continuations DEF Ops
    <3>2. CASE Moves(a, r)
      <4>1. entry'[r].version \in Nat
        BY <3>2 DEF Moves, Entries
      <4>2. Announce(r, entry'[r].version, "none") \in Tasks
        BY <4>1, Continuations
      <4> QED
        BY <3>1, <3>2, <4>2 DEF Moves
    <3>3. CASE Keyed(a, r) \/ Opens(a, r) \/ Saves(a, r)
      BY <3>1, <3>3 DEF Keyed, Opens, Saves
    <3>4. CASE Finishes(a, r) \/ Removes(a, r)
      BY <3>1, <3>4 DEF Finishes, Removes
    <3> QED
      BY <2>4, <3>2, <3>3, <3>4
  <2>5. ASSUME NEW a \in Actors, Talks(a)
        PROVE  Others(a) /\ task'[a] \in Tasks
    BY <2>5 DEF Talks
  <2> QED
    BY <2>1, <2>2, <2>3, <2>4, <2>5 DEF Kind
<1>4. ASSUME Rests \/ \E a \in Actors : Talks(a)
      PROVE  Rest
  BY <1>4 DEF Rests, Talks, Saved, Shapes
<1>5. ASSUME Restarts
      PROVE  Rest
  <2>1. entry' \in [Rooms -> Entries \cup {NoRoom}]
    <3>1. entry' = [q \in Rooms |-> IF disk[q] = NoRoom THEN NoRoom
                                    ELSE RestoredEntry(disk[q])]
      BY <1>5 DEF Restarts, Restart
    <3>2. ASSUME NEW q \in Rooms, disk[q] # NoRoom
          PROVE  RestoredEntry(disk[q]) \in Entries
      BY <3>2, <1>5, <3>1, RestartFacts
    <3> QED
      BY <3>1, <3>2
  <2>2. /\ disk' = disk /\ image' = disk /\ recorded' = recorded
        /\ issued' = issued /\ agreed' = agreed
    BY <1>5 DEF Restarts, Restart, roomHistory
  <2> QED
    BY <1>5, <2>1, <2>2 DEF Restarts, Shapes
<1>6. ASSUME NEW a \in Actors, NEW r \in Rooms,
             Keyed(a, r) \/ Opens(a, r) \/ Finishes(a, r)
      PROVE  Rest
  BY <1>6 DEF Keyed, Opens, Finishes, Saved, Shapes
<1>7. ASSUME NEW a \in Actors, NEW r \in Rooms, Saves(a, r) \/ Moves(a, r)
      PROVE  Rest
  <2>1. /\ entry' \in [Rooms -> Entries \cup {NoRoom}] /\ Puts(a, r)
        /\ issued' \in [Rooms -> SUBSET {"penultimate", "completed",
                                         "completed_unchained"}]
        /\ entry'[r] \in Entries
    BY <1>7 DEF Saves, Moves, Shapes
  <2>2. image' \in [Rooms -> Snapshots \cup {NoRoom}]
    BY <2>1, SnapshotFacts DEF Puts, Shapes
  <2> QED
    BY <2>1, <2>2, LobbyAssumption DEF Puts, Shapes
<1>8. ASSUME NEW a \in Actors, NEW r \in Rooms, Removes(a, r)
      PROVE  Rest
  <2>1. image' \in [Rooms -> Snapshots \cup {NoRoom}]
    BY <1>8 DEF Removes, Shapes
  <2>2. recorded' \in [Rooms -> Nat]
    BY <1>8 DEF Removes, Shapes
  <2> QED
    BY <1>8, <2>1, <2>2, LobbyAssumption DEF Removes, Shapes
<1>9. Rest
  <2> HIDE DEF Rest
  <2> QED
    BY <1>4, <1>5, <1>6, <1>7, <1>8 DEF Kind
<1> QED
  BY <1>1, <1>2, <1>3, <1>9 DEF Shapes

\* A RoomEntry is kept until the process restarts.
LEMMA KeepsRooms ==
    ASSUME Shapes, Kind, ~Restart
    PROVE  \A q \in Rooms : entry[q] # NoRoom => entry'[q] # NoRoom
<1> SUFFICES ASSUME NEW q \in Rooms, entry[q] # NoRoom
             PROVE  entry'[q] # NoRoom
  OBVIOUS
<1>1. CASE Rests \/ \E a \in Actors : Talks(a)
  BY <1>1 DEF Rests, Talks
<1>2. ASSUME NEW a \in Actors, NEW r \in Rooms,
             Keyed(a, r) \/ Opens(a, r) \/ Moves(a, r) \/ Finishes(a, r)
      PROVE  entry'[q] # NoRoom
  BY <1>2, NotAbsent DEF Keyed, Opens, Moves, Finishes, Elsewhere
<1>3. ASSUME NEW a \in Actors, NEW r \in Rooms, Saves(a, r) \/ Removes(a, r)
      PROVE  entry'[q] # NoRoom
  BY <1>3 DEF Saves, Removes
<1> QED
  BY <1>1, <1>2, <1>3 DEF Kind, Restarts

\* Every step keeps the hub's maps consistent.
LEMMA HubStep ==
    ASSUME Shapes, SessionInv, Hub, KnownInv, BlankInv, Kind, [Next]_vars
    PROVE  Hub'
<1>a. \A r \in Rooms : disk[r] # NoRoom => r \in drawn
  BY DEF BlankInv, Blank, Fresh
<1>1. CASE Restart
  <2>1. \A r \in Rooms : disk[r] # NoRoom => entry'[r] # NoRoom
    <3> SUFFICES ASSUME NEW r \in Rooms, disk[r] # NoRoom
                 PROVE  entry'[r] # NoRoom
      OBVIOUS
    <3>1. disk[r] \in Snapshots /\ Legal(disk[r].session, config)
      BY DEF Shapes, SessionInv, Fits
    <3>2. RestoredEntry(disk[r]) # NoRoom
      BY <3>1, RestoredFacts, NotAbsent
    <3> QED
      BY <1>1, <3>2 DEF Restart
  <2>2. rooms' = {r \in Rooms : disk[r] # NoRoom}
        /\ offers' = [r \in Rooms |-> NoClient] /\ drawn' = drawn
        /\ config' = config /\ fee' = fee
    BY <1>1 DEF Restart
  <2>3. conn' \in [Clients -> {"fresh", "up", "leaving", "gone"}]
    BY <1>1 DEF Restart, Hub
  <2> QED
    BY <1>a, <2>1, <2>2, <2>3 DEF Hub
<1>2. CASE ~Restart
  <2>0. \A r \in rooms : r \in Rooms /\ entry'[r] # NoRoom
    BY <1>2, KeepsRooms DEF Hub
  <2>1. CASE UNCHANGED <<hub, config, fee>>
    BY <2>0, <2>1 DEF Hub, hub
  <2>2. CASE SetFee
    BY <2>0, <2>2 DEF Hub, hub, SetFee
  <2>3. ASSUME NEW c \in Clients, Connect(c) \/ LeaveDone(c) PROVE Hub'
    BY <2>0, <2>3 DEF Hub, Connect, LeaveDone
  <2>4. ASSUME NEW c \in Clients, RemoveClient(c) PROVE Hub'
    BY <2>0, <2>4 DEF Hub, RemoveClient
  <2>5. ASSUME NEW c \in Clients, NEW r \in Rooms, HandleCreateOffer(c, r)
        PROVE  Hub'
    BY <2>0, <2>5 DEF Hub, HandleCreateOffer
  <2>6. ASSUME NEW c \in Clients, NEW r \in Rooms, HandleCancelOffer(c, r)
        PROVE  Hub'
    <3>1. \A q \in Rooms : offers'[q] # NoClient => offers'[q] = offers[q]
      BY <2>6 DEF HandleCancelOffer, Hub
    <3> QED
      BY <2>0, <2>6, <3>1 DEF Hub, HandleCancelOffer
  <2>7. ASSUME NEW c \in Clients, NEW r \in Rooms, HandleJoinOffer(c, r)
        PROVE  Hub'
    <3>1. Opens(c, r)
      BY <2>7, OpenKind DEF Actors
    <3>2. entry'[r] # NoRoom
      BY <3>1, NotAbsent DEF Opens
    <3>3. rooms' = rooms \cup {r} /\ offers' = [offers EXCEPT ![r] = NoClient]
          /\ r \in drawn
          /\ UNCHANGED <<conn, drawn, config, fee>>
      BY <2>7 DEF HandleJoinOffer, Hub
    <3> QED
      BY <2>0, <3>2, <3>3 DEF Hub
  <2>8. ASSUME NEW a \in Actors, EraseRoom(a) PROVE Hub'
    BY <2>0, <2>8 DEF Hub, EraseRoom
  <2> QED
    BY <1>2, <2>1, <2>2, <2>3, <2>4, <2>5, <2>6, <2>7, <2>8, HubCases
<1> QED
  BY <1>1, <1>2

\* An id that was used never becomes fresh again.
LEMMA FreshStep ==
    ASSUME Hub, [Next]_vars, NEW q \in Rooms, Fresh(q)'
    PROVE  Fresh(q)
<1>1. CASE Restart
  BY <1>1 DEF Restart, Fresh
<1>2. CASE UNCHANGED <<hub, config, fee>>
  BY <1>2 DEF Fresh, hub
<1>3. CASE SetFee
  BY <1>3 DEF Fresh, SetFee, hub
<1>4. ASSUME NEW c \in Clients, Connect(c) \/ LeaveDone(c) PROVE Fresh(q)
  BY <1>4 DEF Fresh, Connect, LeaveDone
<1>5. ASSUME NEW c \in Clients, RemoveClient(c) PROVE Fresh(q)
  BY <1>5 DEF Fresh, RemoveClient
<1>6. ASSUME NEW c \in Clients, NEW r \in Rooms,
             \/ HandleCreateOffer(c, r) \/ HandleCancelOffer(c, r)
             \/ HandleJoinOffer(c, r)
      PROVE  Fresh(q)
  BY <1>6 DEF Fresh, HandleCreateOffer, HandleCancelOffer, HandleJoinOffer, Hub
<1>7. ASSUME NEW a \in Actors, EraseRoom(a) PROVE Fresh(q)
  BY <1>7 DEF Fresh, EraseRoom
<1> QED
  BY <1>1, <1>2, <1>3, <1>4, <1>5, <1>6, <1>7, HubCases

\* An id that was not used for a room has left no trace.
LEMMA BlankStep ==
    ASSUME Shapes, SessionInv, Hub, KnownInv, BlankInv, Kind, [Next]_vars
    PROVE  BlankInv'
<1> SUFFICES ASSUME NEW q \in Rooms, Fresh(q)'
             PROVE  Blank(q)'
  BY DEF BlankInv
<1>1. Fresh(q) /\ Blank(q)
  BY FreshStep DEF BlankInv
<1>2. \A a \in Actors : ~Concerns(task[a], q)
  BY <1>1 DEF KnownInv, Blank
<1>3. told'[q] = 0 /\ outcomes'[q] = {}
  <2>1. told'[q] = 0
    <3>1. ASSUME NEW c \in Clients, JoinAnnounce(c) \/ AnnounceStep(c)
          PROVE  told'[q] = told[q]
      <4>1. task[c].room # q
        BY <1>2 DEF Concerns, Actors
      <4> QED
        BY <3>1, <4>1 DEF JoinAnnounce, AnnounceStep, Shapes
    <3> QED
      BY <1>1, <3>1, NewsCases DEF Blank
  <2>2. outcomes'[q] = {}
    <3>1. ASSUME NEW a \in Actors, TellOutcome(a)
          PROVE  outcomes'[q] = outcomes[q]
      <4>1. task[a].room # q
        BY <1>2 DEF Concerns
      <4> QED
        BY <3>1, <4>1 DEF TellOutcome, Shapes
    <3> QED
      BY <1>1, <3>1, NewsCases DEF Blank
  <2> QED
    BY <2>1, <2>2
<1> DEFINE Goal == /\ entry'[q] = NoRoom /\ disk'[q] = NoRoom
                   /\ image'[q] = NoRoom
                   /\ recorded'[q] = 0 /\ issued'[q] = {}
<1>4. ASSUME Rests \/ \E a \in Actors : Talks(a) PROVE Goal
  BY <1>1, <1>4 DEF Rests, Talks, Saved, Blank
<1>5. ASSUME Restarts PROVE Goal
  BY <1>1, <1>5, RestartFacts DEF Blank
<1>6. ASSUME NEW a \in Actors, NEW r \in Rooms,
             Keyed(a, r) \/ Finishes(a, r)
      PROVE  Goal
  BY <1>1, <1>6 DEF Keyed, Finishes, Elsewhere, Saved, Blank
<1>7. ASSUME NEW a \in Actors, NEW r \in Rooms, Opens(a, r) PROVE Goal
  <2>1. q # r
    BY <1>7 DEF Opens, Fresh
  <2> QED
    BY <1>1, <1>7, <2>1 DEF Opens, Elsewhere, Saved, Blank
<1>8. ASSUME NEW a \in Actors, NEW r \in Rooms, Saves(a, r) \/ Moves(a, r)
      PROVE  Goal
  <2>1. q # r /\ entry'[q] = entry[q] /\ issued'[q] = issued[q]
    BY <1>1, <1>8 DEF Saves, Moves, Elsewhere, Blank
  <2>2. Puts(a, r) /\ entry'[r] \in Entries
    BY <1>8 DEF Saves, Moves, Shapes
  <2>3. /\ image'[q] = image[q] /\ disk'[q] \in {image[q], disk[q]}
        /\ recorded' = recorded
    BY <2>1, <2>2, PutsFacts DEF Puts
  <2> QED
    BY <1>1, <2>1, <2>3 DEF Blank
<1>9. ASSUME NEW a \in Actors, NEW r \in Rooms, Removes(a, r) PROVE Goal
  <2>1. q # r
    BY <1>2, <1>9 DEF Removes, Concerns
  <2>2. image'[q] = image[q] /\ disk'[q] \in {image[q], disk[q]}
    BY <1>9, <2>1, RemovesFacts
  <2>3. entry' = entry /\ issued' = issued /\ recorded'[q] = recorded[q]
    BY <1>9, <2>1 DEF Removes, Shapes
  <2> QED
    BY <1>1, <2>2, <2>3 DEF Blank
<1>10. Goal
  <2> HIDE DEF Goal
  <2> QED
    BY <1>4, <1>5, <1>6, <1>7, <1>8, <1>9 DEF Kind
<1> QED
  BY <1>3, <1>10 DEF Blank

\* A client comes and goes once; its thread goes on until it has left.
LEMMA ConnStep ==
    ASSUME Shapes, Hub, [Next]_vars, NEW c \in Clients
    PROVE  /\ Was(c) => Was(c)'
           /\ Gone(c) => Gone(c)'
           /\ ~Restart /\ ~Gone(c) /\ Gone(c)' => task'[c] = Idle
           /\ ~Restart /\ conn[c] = "leaving" /\ conn'[c] # "leaving"
                 => task'[c] = Idle
<1> DEFINE Goal ==
             /\ conn[c] # "fresh" => conn'[c] # "fresh"
             /\ conn[c] = "gone" => conn'[c] = "gone"
             /\ ~Restart /\ conn[c] # "gone" /\ conn'[c] = "gone"
                   => task'[c] = Idle
             /\ ~Restart /\ conn[c] = "leaving" /\ conn'[c] # "leaving"
                   => task'[c] = Idle
<1>1. ASSUME Restart PROVE Goal
  BY <1>1 DEF Restart
<1>2. ASSUME conn' = conn PROVE Goal
  BY <1>2
<1>3. ASSUME NEW d \in Clients, Connect(d) PROVE Goal
  BY <1>3 DEF Connect, Hub
<1>4. ASSUME NEW d \in Clients, RemoveClient(d) PROVE Goal
  BY <1>4 DEF RemoveClient, Ready, Up, Hub
<1>5. ASSUME NEW d \in Clients, LeaveDone(d) PROVE Goal
  <2>1. task'[d] = Idle /\ conn' = [conn EXCEPT ![d] = "gone"]
    BY <1>5, LeaveDoneTalks
  <2> QED
    BY <2>1 DEF Hub
<1>6. ASSUME NEW d \in Clients, NEW r \in Rooms,
             \/ HandleCreateOffer(d, r) \/ HandleCancelOffer(d, r)
             \/ HandleJoinOffer(d, r)
      PROVE  conn' = conn
  BY <1>6 DEF HandleCreateOffer, HandleCancelOffer, HandleJoinOffer
<1>7. UNCHANGED <<hub, config, fee>> \/ SetFee
         \/ (\E a \in Actors : EraseRoom(a)) => conn' = conn
  BY DEF SetFee, hub, EraseRoom
<1>8. Goal
  <2> HIDE DEF Goal
  <2> QED
    BY <1>1, <1>2, <1>3, <1>4, <1>5, <1>6, <1>7, HubCases
<1> QED
  BY <1>8 DEF Was, Gone

\* The parties of a room, and whether it was read from the file, never change.
LEMMA PartiesKept ==
    ASSUME Shapes, BlankInv, Kind, ~Restart, NEW q \in Rooms, entry[q] # NoRoom
    PROVE  /\ entry'[q].a = entry[q].a /\ entry'[q].b = entry[q].b
           /\ entry'[q].restored = entry[q].restored
           /\ \/ entry'[q].keys = entry[q].keys
              \/ \E c \in Clients : task[c].op = "key" /\ task[c].room = q
<1> DEFINE Goal ==
             /\ entry'[q].a = entry[q].a /\ entry'[q].b = entry[q].b
             /\ entry'[q].restored = entry[q].restored
             /\ \/ entry'[q].keys = entry[q].keys
                \/ \E c \in Clients : task[c].op = "key" /\ task[c].room = q
<1>1. ASSUME entry'[q] = entry[q] PROVE Goal
  BY <1>1
<1>2. ASSUME NEW a \in Actors, NEW r \in Rooms, Keyed(a, r) PROVE Goal
  <2>1. CASE q = r
    <3>1. entry[r] \in Entries
      BY <2>1 DEF Shapes
    <3>2. /\ entry'[q].a = entry[q].a /\ entry'[q].b = entry[q].b
          /\ entry'[q].restored = entry[q].restored
      BY <1>2, <2>1, <3>1 DEF Keyed, Entries
    <3> QED
      BY <1>2, <2>1, <3>2 DEF Keyed
  <2>2. CASE q # r
    BY <1>2, <2>2 DEF Keyed, Elsewhere
  <2> QED
    BY <2>1, <2>2
<1>3. ASSUME NEW a \in Actors, NEW r \in Rooms, Moves(a, r) \/ Finishes(a, r)
      PROVE  Goal
  BY <1>3 DEF Moves, Finishes, Elsewhere
<1>4. ASSUME NEW a \in Actors, NEW r \in Rooms, Opens(a, r)
      PROVE  entry'[q] = entry[q]
  <2>1. q # r
    BY <1>4 DEF Opens, BlankInv, Blank
  <2> QED
    BY <1>4, <2>1 DEF Opens, Elsewhere
<1>5. ASSUME NEW a \in Actors, NEW r \in Rooms,
             Saves(a, r) \/ Removes(a, r) \/ Talks(a)
      PROVE  entry'[q] = entry[q]
  BY <1>5 DEF Saves, Removes, Talks
<1>6. Rests \/ (\E a \in Actors : Talks(a)) => entry'[q] = entry[q]
  BY DEF Rests, Talks
<1> HIDE DEF Goal
<1>7. Goal
  BY <1>1, <1>2, <1>3, <1>4, <1>5, <1>6 DEF Kind, Restarts
<1> QED
  BY <1>7 DEF Goal

\* What a thread takes up: a client only while it is connected, and only
\* rooms it is a party of.
Duty(c) ==
    /\ task'[c] = Idle \/ task[c] # Idle \/ Up(c)
    /\ task'[c].op \in Requests => IsMember(entry[task'[c].room], c)
    /\ \A r \in task'[c].todo : IsMember(entry[r], c)
    /\ task'[c].op = "leave" => conn'[c] = "leaving"

\* A thread that has nothing to do owes nothing.
LEMMA IdleDuty ==
    ASSUME NEW c, task'[c] = Idle
    PROVE  Duty(c)
  BY IdleFacts DEF Duty, Requests

\* A thread that works on one room, or goes on leaving.
LEMMA RoomDuty ==
    ASSUME Shapes, MembersInv, NEW c \in Clients, NEW r \in Rooms,
           \/ Keyed(c, r) \/ Opens(c, r) \/ Saves(c, r) \/ Moves(c, r)
           \/ Finishes(c, r) \/ Removes(c, r)
    PROVE  Duty(c)
<1>0. c \in Actors /\ \A x \in task[c].todo : IsMember(entry[x], c)
  BY DEF Actors, MembersInv
<1>1. CASE task'[c] = Idle
  BY <1>1, IdleDuty
<1>2. CASE task'[c] # Idle /\ Opens(c, r)
  <2>1. task'[c].op = "joined" /\ task'[c].todo = {} /\ Up(c)
    BY <1>2, Continuations DEF Opens
  <2> QED
    BY <2>1 DEF Duty, Requests
<1>3. CASE task'[c] # Idle /\ Saves(c, r)
  <2>1. task'[c].op = "ready" /\ task'[c].todo = {}
    BY <1>3, Continuations DEF Saves
  <2>2. task[c] # Idle
    BY <1>3, IdleFacts DEF Saves
  <2> QED
    BY <2>1, <2>2 DEF Duty, Requests
<1>4. CASE task'[c] # Idle /\ Moves(c, r)
  <2>1. /\ task'[c].op \in {"abort", "announce"} /\ task'[c].todo = {}
        /\ task'[c].room = r
    BY <1>4, Continuations DEF Moves
  <2>2. task[c] # Idle /\ IsMember(entry[r], c)
    BY <1>4, IdleFacts DEF Moves, MembersInv, Requests
  <2> QED
    BY <2>1, <2>2 DEF Duty, Requests
<1>5. CASE task'[c] # Idle /\ Finishes(c, r)
  <2>1. task'[c].op \in {"announce", "prune"} /\ task[c] # Idle
        /\ task'[c].todo \subseteq task[c].todo
    BY <1>5, IdleFacts DEF Finishes, Due
  <2> QED
    BY <1>0, <2>1 DEF Duty, Requests
<1>6. CASE task'[c] # Idle /\ Removes(c, r)
  <2>1. task'[c].op \in {"erase", "tell"} /\ task'[c].todo \subseteq task[c].todo
    BY <1>0, <1>6, RemovesFacts DEF Late
  <2>2. task[c] # Idle
    BY <1>6, IdleFacts DEF Removes
  <2> QED
    BY <1>0, <2>1, <2>2 DEF Duty, Requests
<1> QED
  BY <1>1, <1>2, <1>3, <1>4, <1>5, <1>6 DEF Keyed

\* A thread that talks is still entitled to what it does.
LEMMA TalkDuty ==
    ASSUME Shapes, Hub, KnownInv, MembersInv, NEW c \in Clients,
           \/ \E r \in Rooms : \E q \in Requests : FindRoomFor(c, r, q)
           \/ \E r \in Rooms : LeaveRoom(c, r) /\ ~entry[r].active
           \/ RejectRequest(c) \/ JoinAnnounce(c) \/ AnnounceStep(c)
           \/ EraseRoom(c) \/ TellOutcome(c)
           \/ RemoveClient(c) \/ LeaveDone(c)
    PROVE  Duty(c)
<1>0. c \in Actors /\ \A x \in task[c].todo : IsMember(entry[x], c)
  BY DEF Actors, MembersInv
<1>1. ASSUME NEW r \in Rooms, NEW q \in Requests, FindRoomFor(c, r, q)
      PROVE  Duty(c)
  <2>1. task'[c] = Do(q, r) /\ IsMember(entry[r], c) /\ Up(c)
    BY <1>1, FindRoomTalks
  <2>2. Do(q, r).room = r /\ Do(q, r).todo = {} /\ Do(q, r).op = q
    BY Continuations
  <2>3. q # "leave"
    BY DEF Requests
  <2> QED
    BY <2>1, <2>2, <2>3 DEF Duty
<1>2. CASE RejectRequest(c) \/ JoinAnnounce(c) \/ LeaveDone(c)
  <2>1. task'[c] = Idle
    BY <1>2, RejectTalks, JoinAnnounceTalks, LeaveDoneTalks
  <2> QED
    BY <2>1, IdleDuty
<1>3. CASE AnnounceStep(c)
  <2>1. task'[c] = Idle \/ task'[c] = Ending(task[c].room, task[c].outcome)
    BY <1>0, <1>3, TaskFacts DEF AnnounceStep
  <2>2. task[c].room \in Rooms /\ task[c] # Idle
    BY <1>0, <1>3, IdleFacts DEF AnnounceStep, KnownInv
  <2>3. Ending(task[c].room, task[c].outcome).op = "prune"
        /\ Ending(task[c].room, task[c].outcome).todo = {}
    BY <2>2, Continuations
  <2>4. CASE task'[c] # Idle
    BY <2>1, <2>2, <2>3, <2>4 DEF Duty, Requests
  <2> QED
    BY <2>4, IdleDuty
<1>4. CASE EraseRoom(c)
  <2>1. task'[c].todo = task[c].todo /\ task[c].op = "erase"
        /\ task'[c] = [task[c] EXCEPT !.op = "tell"]
    BY <1>0, <1>4, EraseTalks, TaskFacts DEF EraseRoom
  <2>2. task'[c].op = "tell"
    BY <1>0, <2>1 DEF Shapes, Tasks
  <2>3. task[c] # Idle
    BY <2>1, IdleFacts
  <2> QED
    BY <1>0, <2>1, <2>2, <2>3 DEF Duty, Requests
<1>5. CASE TellOutcome(c)
  <2>1. /\ task'[c] = IF Leaving(c) THEN LeaveOf(task[c].todo) ELSE Idle
        /\ conn' = conn
    BY <1>0, <1>5, TellTalks DEF LeaveOf
  <2>2. task[c].todo \in SUBSET Rooms /\ task[c].op = "tell"
    BY <1>0, <1>5 DEF TellOutcome, Shapes, Tasks
  <2>3. LeaveOf(task[c].todo).op = "leave"
        /\ LeaveOf(task[c].todo).todo = task[c].todo
    BY <2>2, LeaveFacts
  <2>4. task[c] # Idle
    BY <2>2, IdleFacts
  <2>5. CASE Leaving(c)
    BY <1>0, <2>1, <2>3, <2>4, <2>5 DEF Duty, Requests, Leaving
  <2> QED
    BY <2>1, <2>5, IdleDuty
<1>6. CASE RemoveClient(c)
  <2>1. /\ task'[c] = LeaveOf(AffectedRooms(c)) /\ Up(c)
        /\ conn' = [conn EXCEPT ![c] = "leaving"]
    BY <1>6, RemoveClientTalks DEF LeaveOf
  <2>2. AffectedRooms(c) \in SUBSET Rooms
        /\ \A r \in AffectedRooms(c) : IsMember(entry[r], c)
    BY DEF AffectedRooms, Hub
  <2>3. LeaveOf(AffectedRooms(c)).op = "leave"
        /\ LeaveOf(AffectedRooms(c)).todo = AffectedRooms(c)
    BY <2>2, LeaveFacts
  <2>4. conn'[c] = "leaving"
    BY <2>1 DEF Hub
  <2> QED
    BY <2>1, <2>2, <2>3, <2>4 DEF Duty, Requests
<1>7. ASSUME NEW r \in Rooms, LeaveRoom(c, r), ~entry[r].active
      PROVE  Duty(c)
  <2>1. /\ task'[c].op = "leave" /\ task'[c].todo \subseteq task[c].todo
        /\ task[c].op = "leave" /\ conn' = conn
    BY <1>7, LeaveNothingTalks
  <2>2. task[c] # Idle /\ conn[c] = "leaving"
    BY <2>1, IdleFacts DEF MembersInv
  <2> QED
    BY <1>0, <2>1, <2>2 DEF Duty, Requests
<1> QED
  BY <1>1, <1>2, <1>3, <1>4, <1>5, <1>6, <1>7

\* After a step each thread is a member of the rooms it works on.
LEMMA DutyStep ==
    ASSUME Shapes, Hub, KnownInv, MembersInv, SessionInv, [Next]_vars,
           ~Restart, NEW c \in Clients
    PROVE  task'[c] = task[c] \/ Duty(c)
<1> DEFINE Goal == task'[c] = task[c] \/ Duty(c)
<1>0. c \in Actors /\ \A d \in Clients : d \in Actors
  BY DEF Actors
<1>a. ASSUME NEW a \in Actors, Others(a), a = c => Duty(c) PROVE Goal
  BY <1>0, <1>a DEF Others
<1>b. ASSUME NEW a \in Actors, NEW r \in Rooms,
             \/ Keyed(a, r) \/ Opens(a, r) \/ Saves(a, r) \/ Moves(a, r)
             \/ Finishes(a, r) \/ Removes(a, r)
      PROVE  Goal
  <2>1. Others(a)
    BY <1>b DEF Keyed, Opens, Saves, Moves, Finishes, Removes
  <2>2. a = c => Duty(c)
    BY <1>b, RoomDuty
  <2> HIDE DEF Goal
  <2> QED
    BY <2>1, <2>2, <1>a
<1>c. ASSUME NEW a \in Actors, Talks(a), a = c => Duty(c) PROVE Goal
  <2>1. Others(a)
    BY <1>c DEF Talks
  <2> QED
    BY <1>c, <2>1, <1>a
<1>1. Rests => Goal
  BY DEF Rests
<1> HIDE DEF Goal
<1>3. ASSUME NEW d \in Clients, NEW r \in Rooms,
             \/ HandleCreateOffer(d, r) \/ HandleCancelOffer(d, r)
             \/ HandleJoinOffer(d, r) \/ LeaveRoom(d, r)
             \/ \E q \in Requests : FindRoomFor(d, r, q)
      PROVE  Goal
  <2>1. CASE HandleCreateOffer(d, r) \/ HandleCancelOffer(d, r)
    BY <2>1, <1>1, RestKind
  <2>2. CASE HandleJoinOffer(d, r)
    BY <2>2, <1>0, <1>b, OpenKind
  <2>3. CASE LeaveRoom(d, r) /\ entry[r].active
    BY <2>3, <1>0, <1>b, LeaveKind
  <2>4. CASE LeaveRoom(d, r) /\ ~entry[r].active
    <3>1. Talks(d) /\ Duty(d)
      BY <2>4, LeaveNothingTalks, TalkDuty
    <3> QED
      BY <3>1, <1>0, <1>c
  <2>5. ASSUME NEW q \in Requests, FindRoomFor(d, r, q) PROVE Goal
    <3>1. Talks(d) /\ Duty(d)
      BY <2>5, FindRoomTalks, TalkDuty
    <3> QED
      BY <3>1, <1>0, <1>c
  <2> QED
    BY <1>3, <2>1, <2>2, <2>3, <2>4, <2>5
<1>4. ASSUME NEW d \in Clients,
             \/ JoinPersist(d) \/ HandleSent(d)
             \/ HandleReceived(d) \/ HandleTradeEphemeralKey(d)
             \/ HandleReceiptAck(d) \/ AbortRoom(d)
      PROVE  Goal
  <2>1. PICK r \in Rooms : \/ Keyed(d, r) \/ Saves(d, r) \/ Moves(d, r)
                           \/ Finishes(d, r)
    <3>1. CASE HandleTradeEphemeralKey(d)
      BY <3>1, KeyKind, EntryFacts DEF HandleTradeEphemeralKey, Requests
    <3> QED
      BY <1>4, <3>1, SaveKind, SentKind, ReceivedKind, AckKind, AbortKind
  <2> QED
    BY <2>1, <1>0, <1>b
<1>5. ASSUME NEW d \in Clients,
             \/ JoinAnnounce(d) \/ RejectRequest(d) \/ RemoveClient(d)
             \/ AnnounceStep(d) \/ LeaveDone(d)
      PROVE  Goal
  <2>1. Talks(d) /\ Duty(d)
    BY <1>5, JoinAnnounceTalks, RejectTalks, RemoveClientTalks, AnnounceTalks,
       LeaveDoneTalks, TalkDuty
  <2> QED
    BY <2>1, <1>0, <1>c
<1>6. ASSUME NEW a \in Actors, EraseRoom(a) \/ TellOutcome(a) PROVE Goal
  <2>1. Talks(a)
    BY <1>6, EraseTalks, TellTalks
  <2>2. a = c => Duty(c)
    BY <1>6, TalkDuty
  <2> QED
    BY <2>1, <2>2, <1>c
<1>7. ASSUME NEW a \in Actors, Prune(a) \/ PruneFails(a) PROVE Goal
  BY <1>7, <1>b, RemoveKind
<1>8. ASSUME NEW o \in Operators,
             (\E r \in Rooms : FindPendingFee(o, r)) \/ ConfirmFee(o)
      PROVE  Goal
  <2>0. o \in Actors /\ o # c
    BY LobbyAssumption DEF Actors
  <2>1. CASE \E r \in Rooms : FindPendingFee(o, r)
    BY <2>0, <2>1, <1>c, FindPendingTalks
  <2>2. CASE ConfirmFee(o) /\ Parked(entry[task[o].room])
    BY <2>0, <2>2, <1>b, ConfirmKind
  <2>3. CASE ConfirmFee(o) /\ ~Parked(entry[task[o].room])
    BY <2>0, <2>3, <1>c, ConfirmNothingTalks
  <2> QED
    BY <1>8, <2>1, <2>2, <2>3
<1>9. UNCHANGED vars \/ SetFee \/ (\E d \in Clients : Connect(d)) => Goal
  BY <1>1, SetFeeKind, ConnectKind
<1>10. ~CrashAndRestart /\ \A d \in Clients : ~PruneFailsLeaving(d)
  BY DEF CrashAndRestart, PruneFailsLeaving
<1>11. Goal
  BY <1>3, <1>4, <1>5, <1>6, <1>7, <1>8, <1>9, <1>10, NextCases DEF Cases
<1> QED
  BY <1>11 DEF Goal

\* A RoomEntry appears when an offer is taken, and its thread alone knows it.
LEMMA OpensOnly ==
    ASSUME Shapes, KnownInv, Kind, ~Restart, NEW q \in Rooms,
           entry[q] = NoRoom, entry'[q] # NoRoom
    PROVE  /\ \E a \in Actors : Opens(a, q)
           /\ \A b \in Actors : Concerns(task'[b], q)
                                   => task'[b] = Do("joined", q)
<1>1. ~Rests /\ ~Restarts /\ \A a \in Actors : ~Talks(a)
  BY DEF Rests, Restarts, Talks
<1>2. ASSUME NEW a \in Actors, NEW r \in Rooms
      PROVE  /\ ~Saves(a, r) /\ ~Removes(a, r)
             /\ ~Keyed(a, r) /\ ~Moves(a, r) /\ ~Finishes(a, r)
             /\ Opens(a, r) => q = r
  BY DEF Saves, Removes, Keyed, Moves, Finishes, Opens, Elsewhere
<1>3. PICK a \in Actors : Opens(a, q)
  BY <1>1, <1>2 DEF Kind
<1>4. \A b \in Actors : ~Concerns(task[b], q)
  BY DEF KnownInv
<1>5. \A b \in Actors : b # a => task'[b] = task[b]
  BY <1>3 DEF Opens, Others
<1>6. task'[a] = Do("joined", q)
  BY <1>3 DEF Opens
<1> QED
  BY <1>3, <1>4, <1>5, <1>6

\* Parties stay parties, and those of restored rooms stay gone.
LEMMA MembersStep ==
    ASSUME Shapes, Shapes', Hub, KnownInv, KnownInv', BlankInv, MembersInv,
           SessionInv, Kind, [Next]_vars
    PROVE  MembersInv'
<1>0. \A c \in Clients : c \in Actors
  BY DEF Actors
<1>a. \A c \in Clients : (Was(c) => Was(c)') /\ (Gone(c) => Gone(c)')
  BY ConnStep
<1>1. CASE Restart
  <2>1. Restarts
    BY <1>1 DEF Restarts, Shapes
  <2>2. \A c \in Clients : task'[c] = Idle
    BY <2>1, <1>0, RestartFacts
  <2>3. /\ \A r \in Rooms : disk[r] = NoRoom => entry'[r] = NoRoom
        /\ \A r \in Rooms : disk[r] # NoRoom =>
              /\ entry'[r].a = disk[r].a /\ entry'[r].b = disk[r].b
              /\ entry'[r].keys = {}
        /\ disk' = disk /\ image' = disk
    BY <2>1, RestartFacts
  <2>4. \A c \in Clients : Was(c) => Gone(c)'
    BY <1>1 DEF Restart, Was, Gone
  <2>5. \A r \in Rooms : disk[r] # NoRoom =>
           /\ disk[r].a \in Clients /\ disk[r].b \in Clients
           /\ Was(disk[r].a) /\ Was(disk[r].b)
    BY DEF MembersInv, Shapes, Snapshots
  <2>6. \A r \in Rooms : entry'[r] # NoRoom =>
          /\ Was(entry[r].a)' /\ Was(entry[r].b)'
          /\ Gone(entry[r].a)' /\ Gone(entry[r].b)'
          /\ entry'[r].keys = {}
    <3> SUFFICES ASSUME NEW r \in Rooms, entry'[r] # NoRoom
                 PROVE  /\ Was(entry[r].a)' /\ Was(entry[r].b)'
                        /\ Gone(entry[r].a)' /\ Gone(entry[r].b)'
                        /\ entry'[r].keys = {}
      OBVIOUS
    <3>1. /\ entry'[r].a = disk[r].a /\ entry'[r].b = disk[r].b
          /\ entry'[r].keys = {}
          /\ disk[r].a \in Clients /\ disk[r].b \in Clients
          /\ Was(disk[r].a) /\ Was(disk[r].b)
      BY <2>3, <2>5
    <3>2. conn'[disk[r].a] = "gone" /\ conn'[disk[r].b] = "gone"
      BY <3>1, <2>4 DEF Gone
    <3> QED
      BY <3>1, <3>2 DEF Was, Gone
  <2>7. \A r \in Rooms : disk[r] # NoRoom =>
            conn'[disk[r].a] # "fresh" /\ conn'[disk[r].b] # "fresh"
    BY <2>5, <1>a DEF Was
  <2>8. Idle.op = "idle" /\ Idle.todo = {}
    BY IdleFacts
  <2> QED
    BY <2>2, <2>3, <2>6, <2>7, <2>8 DEF MembersInv, Was, Gone, Requests
<1>2. CASE ~Restart
  <2>1. \A q \in Rooms : entry[q] # NoRoom =>
          /\ entry'[q] # NoRoom
          /\ entry'[q].a = entry[q].a /\ entry'[q].b = entry[q].b
          /\ entry'[q].restored = entry[q].restored
    BY <1>2, KeepsRooms, PartiesKept
  <2>2. \A c \in Clients : /\ task'[c] # Idle => ~Gone(c)' /\ Was(c)'
                           /\ task'[c].op = "leave" => conn'[c] = "leaving"
    <3> SUFFICES ASSUME NEW c \in Clients, task'[c] # Idle
                 PROVE  /\ ~Gone(c)' /\ Was(c)'
                        /\ task'[c].op = "leave" => conn'[c] = "leaving"
      BY IdleFacts
    <3>1. task[c] # Idle \/ Up(c)
      BY <1>2, DutyStep DEF Duty
    <3>2. ~Gone(c) /\ Was(c)
      BY <3>1 DEF MembersInv, Up, Gone, Was
    <3>3. ~Gone(c)' /\ Was(c)'
      BY <1>2, <3>2, ConnStep
    <3>4. ASSUME task'[c].op = "leave" PROVE conn'[c] = "leaving"
      <4>1. CASE task'[c] = task[c]
        BY <1>2, <3>4, <4>1, ConnStep DEF MembersInv
      <4> QED
        BY <1>2, <3>4, <4>1, DutyStep DEF Duty
    <3> QED
      BY <3>3, <3>4
  <2>3. ASSUME NEW q \in Rooms, entry'[q] # NoRoom
        PROVE  /\ Was(entry[q].a)' /\ Was(entry[q].b)'
               /\ entry'[q].restored => /\ Gone(entry[q].a)' /\ Gone(entry[q].b)'
                                        /\ entry'[q].keys = {}
    <3>1. CASE entry[q] # NoRoom
      <4>1. /\ entry'[q].a = entry[q].a /\ entry'[q].b = entry[q].b
            /\ entry'[q].restored = entry[q].restored
        BY <2>1, <3>1
      <4>2. entry[q].a \in Clients /\ entry[q].b \in Clients
        BY <3>1 DEF Shapes, Entries
      <4>3. /\ Was(entry[q].a) /\ Was(entry[q].b)
            /\ entry[q].restored => /\ Gone(entry[q].a) /\ Gone(entry[q].b)
                                    /\ entry[q].keys = {}
        BY <3>1 DEF MembersInv
      <4>4. entry[q].restored => entry'[q].keys = {}
        <5>1. ASSUME entry[q].restored, NEW c \in Clients, task[c].op = "key",
                     task[c].room = q
              PROVE  FALSE
          <6>1. IsMember(entry[q], c) /\ ~Gone(c)
            BY <5>1, IdleFacts DEF MembersInv, Requests
          <6> QED
            BY <6>1, <5>1, <4>3 DEF IsMember
        <5> QED
          BY <1>2, <3>1, <4>3, <5>1, PartiesKept
      <4>5. conn'[entry[q].a] # "fresh" /\ conn'[entry[q].b] # "fresh"
        BY <4>2, <4>3, <1>a DEF Was
      <4>6. entry[q].restored => conn'[entry[q].a] = "gone"
                                 /\ conn'[entry[q].b] = "gone"
        BY <4>2, <4>3, <1>a DEF Gone
      <4> QED
        BY <4>1, <4>4, <4>5, <4>6 DEF Was, Gone
    <3>2. CASE entry[q] = NoRoom
      <4>1. \E a \in Actors : Opens(a, q)
        BY <1>2, <2>3, <3>2, OpensOnly
      <4>2. ~entry'[q].restored /\ Up(entry'[q].a) /\ Up(entry'[q].b)
            /\ conn' = conn
        BY <4>1 DEF Opens
      <4> QED
        BY <4>2 DEF Was, Up
    <3> QED
      BY <3>1, <3>2
  <2>4. ASSUME NEW q \in Rooms
        PROVE  /\ disk'[q] # NoRoom => Was(disk[q].a)' /\ Was(disk[q].b)'
               /\ image'[q] # NoRoom => Was(image[q].a)' /\ Was(image[q].b)'
    <3> DEFINE Known(x) == x # NoRoom => conn'[x.a] # "fresh"
                                         /\ conn'[x.b] # "fresh"
    <3>1. Known(disk[q]) /\ Known(image[q]) /\ Known(NoRoom)
      <4>1. /\ disk[q] # NoRoom => disk[q].a \in Clients /\ disk[q].b \in Clients
            /\ image[q] # NoRoom
                  => image[q].a \in Clients /\ image[q].b \in Clients
        BY DEF Shapes, Snapshots
      <4> QED
        BY <4>1, <1>a DEF MembersInv, Was
    <3>2. ASSUME NEW a \in Actors, Puts(a, q), entry'[q] \in Entries
          PROVE  Known(Snapshot(entry'[q]))
      <4>1. entry'[q] # NoRoom
        BY <3>2, NotAbsent
      <4> QED
        BY <3>2, <4>1, <2>3, SnapshotFacts DEF Was
    <3> HIDE DEF Known
    <3>3. ASSUME NEW a \in Actors, NEW r \in Rooms, Puts(a, r),
                 entry'[r] \in Entries
          PROVE  Known(disk'[q]) /\ Known(image'[q])
      <4>1. image'[q] = image[q] \/ (q = r /\ image'[q] = Snapshot(entry'[r]))
        BY <3>3, PutsFacts
      <4>2. disk'[q] = image'[q] \/ disk'[q] = disk[q]
        BY <3>3, PutsFacts
      <4>3. Known(image'[q])
        BY <4>1, <3>1, <3>2, <3>3
      <4> QED
        BY <4>2, <4>3, <3>1
    <3>4. ASSUME NEW a \in Actors, NEW r \in Rooms, Removes(a, r)
          PROVE  Known(disk'[q]) /\ Known(image'[q])
      <4>1. image'[q] = image[q] \/ image'[q] = NoRoom
        BY <3>4, RemovesFacts
      <4>2. disk'[q] = image'[q] \/ disk'[q] = disk[q]
        BY <3>4, RemovesFacts
      <4> QED
        BY <4>1, <4>2, <3>1
    <3>5. ASSUME UNCHANGED <<disk, image>>
          PROVE  Known(disk'[q]) /\ Known(image'[q])
      BY <3>1, <3>5
    <3>6. \A a \in Actors, r \in Rooms :
             \/ Rests \/ Talks(a) \/ Keyed(a, r) \/ Opens(a, r) \/ Finishes(a, r)
             => UNCHANGED <<disk, image>>
      BY DEF Rests, Talks, Keyed, Opens, Finishes, Saved
    <3>7. \A a \in Actors, r \in Rooms :
             Saves(a, r) \/ Moves(a, r) => Puts(a, r) /\ entry'[r] \in Entries
      BY DEF Saves, Moves, Shapes
    <3>8. Rests \/ (\E a \in Actors : Talks(a)) => UNCHANGED <<disk, image>>
      BY DEF Rests, Talks, Saved
    <3>9. Known(disk'[q]) /\ Known(image'[q])
      BY <1>2, <3>3, <3>4, <3>5, <3>6, <3>7, <3>8 DEF Kind, Restarts
    <3> QED
      BY <3>9 DEF Known, Was
  <2>5. ASSUME NEW c \in Clients, task'[c].op \in Requests
        PROVE  IsMember(entry'[task'[c].room], c)
    <3> DEFINE q == task'[c].room
    <3>1. IsMember(entry[q], c)
      BY <1>2, <2>5, DutyStep DEF Duty, MembersInv
    <3>2. q \in Rooms /\ entry'[q] # NoRoom /\ Concerns(task'[c], q)
      BY <2>5, <1>0 DEF KnownInv, Concerns, Requests
    <3> HIDE DEF q
    <3>3. Do("joined", q).op = "joined"
      BY <3>2, Continuations
    <3>4. entry[q] # NoRoom
      BY <1>0, <1>2, <2>5, <3>2, <3>3, OpensOnly DEF Requests
    <3> QED
      BY <3>1, <3>2, <3>4, <2>1 DEF IsMember, q
  <2>6. ASSUME NEW c \in Clients, NEW q \in task'[c].todo
        PROVE  IsMember(entry'[q], c)
    <3>1. IsMember(entry[q], c)
      BY <1>2, <2>6, DutyStep DEF Duty, MembersInv
    <3>2. q \in Rooms /\ entry'[q] # NoRoom /\ Concerns(task'[c], q)
      BY <2>6, <1>0 DEF KnownInv, Concerns, Shapes, Tasks
    <3>3. Do("joined", q).todo = {}
      BY <3>2, Continuations
    <3>4. entry[q] # NoRoom
      BY <1>0, <1>2, <2>6, <3>2, <3>3, OpensOnly
    <3> QED
      BY <3>1, <3>2, <3>4, <2>1 DEF IsMember
  <2> QED
    BY <2>2, <2>3, <2>4, <2>5, <2>6 DEF MembersInv
<1> QED
  BY <1>1, <1>2

\* A room that is off stays off, and a parked room stays parked until it ends.
LEMMA ActiveKept ==
    ASSUME Shapes, BlankInv, Kind, ~Restart, NEW q \in Rooms, entry[q] # NoRoom
    PROVE  /\ entry'[q].active => entry[q].active
           /\ entry'[q].active /\ Parked(entry[q]) => Parked(entry'[q])
<1>1. CASE entry'[q] = entry[q]
  BY <1>1
<1>2. ASSUME NEW a \in Actors, Keyed(a, q)
      PROVE  entry'[q].active = entry[q].active
             /\ entry'[q].session = entry[q].session
  BY <1>2 DEF Keyed, Shapes, Entries
<1>3. ASSUME NEW a \in Actors, Moves(a, q) \/ Finishes(a, q)
      PROVE  /\ entry'[q].active => entry[q].active
             /\ entry'[q].active => ~Parked(entry[q])
  BY <1>3 DEF Moves, Finishes
<1>4. \/ entry'[q] = entry[q]
      \/ \E a \in Actors : Keyed(a, q) \/ Moves(a, q) \/ Finishes(a, q)
  <2>1. Rests \/ (\E a \in Actors : Talks(a)) => entry'[q] = entry[q]
    BY DEF Rests, Talks
  <2>2. ASSUME NEW a \in Actors, NEW r \in Rooms, Opens(a, r)
        PROVE  entry'[q] = entry[q]
    BY <2>2 DEF Opens, Elsewhere, BlankInv, Blank
  <2>3. ASSUME NEW a \in Actors, NEW r \in Rooms, Saves(a, r) \/ Removes(a, r)
        PROVE  entry'[q] = entry[q]
    BY <2>3 DEF Saves, Removes
  <2>4. ASSUME NEW a \in Actors, NEW r \in Rooms, r # q,
               Keyed(a, r) \/ Moves(a, r) \/ Finishes(a, r)
        PROVE  entry'[q] = entry[q]
    BY <2>4 DEF Keyed, Moves, Finishes, Elsewhere
  <2> QED
    BY <2>1, <2>2, <2>3, <2>4 DEF Kind, Restarts
<1>5. CASE \E a \in Actors : Keyed(a, q)
  BY <1>2, <1>5 DEF Parked
<1>6. CASE \E a \in Actors : Moves(a, q) \/ Finishes(a, q)
  BY <1>3, <1>6
<1> QED
  BY <1>1, <1>4, <1>5, <1>6

\* A client that leaves ends or parks every room it is in.
LEMMA OrphanStep ==
    ASSUME Shapes, Shapes', Hub, KnownInv, BlankInv, MembersInv, SessionInv,
           NoOrphanedRooms, Kind, [Next]_vars
    PROVE  NoOrphanedRooms'
<1>1. CASE Restart
  <2>1. Restarts
    BY <1>1 DEF Restarts, Shapes
  <2>2. rooms' = {r \in Rooms : disk[r] # NoRoom}
    BY <1>1 DEF Restart
  <2>3. \A r \in rooms' : entry'[r].restored
    BY <2>1, <2>2, RestartFacts
  <2> QED
    BY <2>3 DEF NoOrphanedRooms
<1>2. CASE ~Restart
  <2> SUFFICES ASSUME NEW q \in rooms', entry'[q].active, ~Parked(entry'[q]),
                      ~entry'[q].restored, NEW p \in Parties
               PROVE  conn'[Member(entry'[q], p)] = "up"
    BY DEF NoOrphanedRooms, Up
  <2>1. CASE \E a \in Actors : Opens(a, q)
    <3>1. Up(entry'[q].a) /\ Up(entry'[q].b) /\ conn' = conn
      BY <2>1 DEF Opens
    <3> QED
      BY <3>1 DEF Up, Member
  <2>2. CASE ~\E a \in Actors : Opens(a, q)
    <3>1. q \in rooms
      <4>1. ASSUME NEW c \in Clients, NEW r \in Rooms, HandleJoinOffer(c, r)
            PROVE  q \in rooms
        <5>1. Opens(c, r)
          BY <4>1, OpenKind
        <5>2. rooms' = rooms \cup {r}
          BY <5>1 DEF Opens
        <5> QED
          BY <2>2, <5>1, <5>2 DEF Actors
      <4>2. UNCHANGED <<hub, config, fee>> \/ SetFee => q \in rooms
        BY DEF SetFee, hub
      <4>3. \A c \in Clients :
               Connect(c) \/ RemoveClient(c) \/ LeaveDone(c) => q \in rooms
        BY DEF Connect, RemoveClient, LeaveDone
      <4>4. \A c \in Clients, r \in Rooms :
               HandleCreateOffer(c, r) \/ HandleCancelOffer(c, r) => q \in rooms
        BY DEF HandleCreateOffer, HandleCancelOffer
      <4>5. \A a \in Actors : EraseRoom(a) => q \in rooms
        BY DEF EraseRoom
      <4> QED
        BY <1>2, <4>1, <4>2, <4>3, <4>4, <4>5, HubCases
    <3>2. q \in Rooms /\ entry[q] # NoRoom
      BY <3>1 DEF Hub
    <3>3. /\ entry'[q].a = entry[q].a /\ entry'[q].b = entry[q].b
          /\ entry'[q].restored = entry[q].restored
      BY <1>2, <3>2, PartiesKept
    <3>4. entry[q].active /\ ~Parked(entry[q])
      BY <1>2, <3>2, ActiveKept
    <3> DEFINE m == Member(entry[q], p)
    <3>5. conn[m] = "up"
      BY <3>1, <3>3, <3>4 DEF NoOrphanedRooms, Up
    <3>6. m \in Clients /\ IsMember(entry[q], m) /\ Member(entry'[q], p) = m
      BY <3>2, <3>3 DEF Member, IsMember, Shapes, Entries
    <3> HIDE DEF m
    <3>7. conn'[m] = "up"
      <4>1. ASSUME NEW c \in Clients, RemoveClient(c) PROVE conn'[m] = "up"
        <5>1. q \notin AffectedRooms(c)
          BY <4>1 DEF RemoveClient
        <5>2. c # m
          BY <5>1, <3>1, <3>4, <3>6 DEF AffectedRooms
        <5> QED
          BY <4>1, <5>2, <3>5, <3>6 DEF RemoveClient, Hub
      <4>2. ASSUME NEW c \in Clients, LeaveDone(c) PROVE conn'[m] = "up"
        <5>1. conn[c] = "leaving"
          BY <4>2 DEF LeaveDone, MembersInv
        <5> QED
          BY <4>2, <5>1, <3>5, <3>6 DEF LeaveDone, Hub
      <4>3. ASSUME NEW c \in Clients, Connect(c) PROVE conn'[m] = "up"
        BY <4>3, <3>5, <3>6 DEF Connect, Hub
      <4>4. conn' = conn => conn'[m] = "up"
        BY <3>5
      <4>5. \A c \in Clients, r \in Rooms :
               \/ HandleCreateOffer(c, r) \/ HandleCancelOffer(c, r)
               \/ HandleJoinOffer(c, r)
               => conn' = conn
        BY DEF HandleCreateOffer, HandleCancelOffer, HandleJoinOffer
      <4>6. UNCHANGED <<hub, config, fee>> \/ SetFee
               \/ (\E a \in Actors : EraseRoom(a)) => conn' = conn
        BY DEF SetFee, hub, EraseRoom
      <4> QED
        BY <1>2, <4>1, <4>2, <4>3, <4>4, <4>5, <4>6, HubCases
    <3> QED
      BY <3>6, <3>7
  <2> QED
    BY <2>1, <2>2
<1> QED
  BY <1>1, <1>2

\* A step that moves a live room puts its copy into persisted_rooms_.
LEMMA LiveStep ==
    ASSUME Shapes, Shapes', SessionInv, KnownInv, BlankInv, EndInv,
           LiveRoomsOnDisk, Kind
    PROVE  LiveRoomsOnDisk'
<1> DEFINE Creating(q) == \E c \in Clients : task[c] = Do("joined", q)
           Kept(q) == image[q] # NoRoom /\ image[q].version = entry[q].version
           First == image' # disk' => failures' > 0
           Goal == \A q \in Rooms : \/ entry'[q] = NoRoom
                                    \/ ~entry'[q].active
                                    \/ Creating(q)'
                                    \/ Kept(q)'
<1>0. (\A c \in Clients : c \in Actors) /\ failures \in Nat
  BY DEF Actors, Shapes
<1>a. /\ image # disk => failures > 0
      /\ \A q \in Rooms : \/ entry[q] = NoRoom
                          \/ ~entry[q].active
                          \/ Creating(q)
                          \/ Kept(q)
  BY DEF LiveRoomsOnDisk
<1>b. \A q \in Rooms : Do("joined", q).op = "joined" /\ Do("joined", q).room = q
  BY Continuations
<1>c. ASSUME NEW a \in Actors, Others(a), task[a].op # "joined", NEW q \in Rooms,
             Creating(q)
      PROVE  Creating(q)'
  BY <1>0, <1>b, <1>c DEF Others
<1>1. ASSUME Rests PROVE First /\ Goal
  BY <1>1, <1>a DEF Rests, Saved
<1>2. ASSUME Restarts PROVE First /\ Goal
  <2>1. /\ disk' = image' /\ image' = disk
        /\ \A q \in Rooms : /\ disk[q] = NoRoom => entry'[q] = NoRoom
                            /\ disk[q] # NoRoom
                                  => entry'[q].version = disk[q].version
    BY <1>2, RestartFacts
  <2> QED
    BY <2>1
<1> HIDE DEF Creating
<1>3. ASSUME NEW a \in Actors, Talks(a) PROVE First /\ Goal
  <2>1. UNCHANGED <<entry, disk, image, failures>> /\ Others(a)
        /\ task[a].op # "joined"
    BY <1>3 DEF Talks, Saved
  <2> QED
    BY <2>1, <1>a, <1>c
<1>4. ASSUME NEW a \in Actors, NEW r \in Rooms, Keyed(a, r) PROVE First /\ Goal
  <2>1. UNCHANGED <<disk, image, failures>> /\ Others(a)
        /\ task[a].op # "joined" /\ entry[r] \in Entries
    BY <1>4 DEF Keyed, Saved, Shapes
  <2>2. \A q \in Rooms : q # r => entry'[q] = entry[q]
    BY <1>4 DEF Keyed, Elsewhere
  <2>3. entry'[r].version = entry[r].version /\ entry'[r].active = entry[r].active
        /\ entry[r] # NoRoom
    BY <1>4, <2>1 DEF Keyed, Entries
  <2> QED
    BY <2>1, <2>2, <2>3, <1>a, <1>c
<1>5. ASSUME NEW a \in Actors, NEW r \in Rooms, Opens(a, r) PROVE First /\ Goal
  <2>1. UNCHANGED <<disk, image, failures>> /\ Others(a)
        /\ task[a] = Idle /\ task'[a] = Do("joined", r) /\ a \in Clients
    BY <1>5 DEF Opens, Saved
  <2>2. \A q \in Rooms : q # r => entry'[q] = entry[q]
    BY <1>5 DEF Opens, Elsewhere
  <2>3. Creating(r)' /\ task[a].op # "joined"
    BY <2>1, IdleFacts DEF Creating
  <2> QED
    BY <2>1, <2>2, <2>3, <1>a, <1>c
<1>6. ASSUME NEW a \in Actors, NEW r \in Rooms, Finishes(a, r)
      PROVE  First /\ Goal
  <2>1. UNCHANGED <<disk, image, failures>> /\ Others(a)
        /\ task[a].op # "joined" /\ ~entry'[r].active
    BY <1>6 DEF Finishes, Saved
  <2>2. \A q \in Rooms : q # r => entry'[q] = entry[q]
    BY <1>6 DEF Finishes, Elsewhere
  <2> QED
    BY <2>1, <2>2, <1>a, <1>c
<1>7. ASSUME NEW a \in Actors, NEW r \in Rooms, Saves(a, r) \/ Moves(a, r)
      PROVE  First /\ Goal
  <2>1. Puts(a, r) /\ Others(a) /\ entry'[r] \in Entries
        /\ task[a].room = r
        /\ \A q \in Rooms : q # r => entry'[q] = entry[q]
    BY <1>7 DEF Saves, Moves, Shapes, Elsewhere
  <2>2. /\ image'[r] = Snapshot(entry'[r])
        /\ \A q \in Rooms : q # r => image'[q] = image[q]
    BY <2>1, PutsFacts
  <2>3. Kept(r)'
    BY <2>1, <2>2, SnapshotFacts
  <2>4. \A q \in Rooms : q # r /\ Creating(q) => Creating(q)'
    BY <2>1, <1>0, <1>b DEF Creating, Others
  <2>5. First
    BY <2>1, <1>0 DEF Puts
  <2> QED
    BY <2>1, <2>2, <2>3, <2>4, <2>5, <1>a
<1>8. ASSUME NEW a \in Actors, NEW r \in Rooms, Removes(a, r)
      PROVE  First /\ Goal
  <2>1. /\ entry' = entry /\ Others(a) /\ task[a].op # "joined"
        /\ Ends(task[a], r)
        /\ disk' = image' \/ failures' = failures + 1
    BY <1>8 DEF Removes, Ends
  <2>2. ~entry[r].active
    BY <2>1 DEF EndInv
  <2>3. \A q \in Rooms : q # r => image'[q] = image[q]
    BY <1>8, RemovesFacts
  <2> QED
    BY <2>1, <2>2, <2>3, <1>0, <1>a, <1>c
<1>9. First /\ Goal
  <2> HIDE DEF First, Goal
  <2> QED
    BY <1>1, <1>2, <1>3, <1>4, <1>5, <1>6, <1>7, <1>8 DEF Kind
<1> QED
  BY <1>9 DEF LiveRoomsOnDisk, Creating

\* Safe(r, v) after the step.
SafeNext(r, v) == \/ r \in pruned'
                  \/ disk'[r] # NoRoom /\ v <= disk'[r].version

\* What is on disk stays on disk, until the room's end is.
LEMMA SafeKept ==
    ASSUME Shapes, SessionInv, KnownInv, BlankInv, VersionInv, Kind,
           NEW q \in Rooms, NEW v \in Nat, Safe(q, v)
    PROVE  SafeNext(q, v)
<1>1. CASE UNCHANGED <<disk, pruned>>
  BY <1>1 DEF Safe, SafeNext
<1>2. ASSUME NEW a \in Actors, NEW r \in Rooms, Saves(a, r) \/ Moves(a, r)
      PROVE  SafeNext(q, v)
  <2>1. Puts(a, r) /\ entry'[r] \in Entries
    BY <1>2 DEF Saves, Moves, Shapes
  <2>2. /\ q \in pruned => q \in pruned'
        /\ disk[q] # NoRoom /\ disk'[q] = NoRoom => q \in pruned'
        /\ disk'[q] = image'[q] \/ disk'[q] = disk[q]
        /\ image'[r] = Snapshot(entry'[r])
        /\ q # r => image'[q] = image[q]
    BY <2>1, PutsFacts
  <2>3. entry[r] \in Entries /\ entry'[r].version >= entry[r].version
    BY <1>2 DEF Saves, Moves, Shapes, Entries
  <2>4. image'[r].version = entry'[r].version
        /\ entry'[r].version \in Nat /\ entry[r].version \in Nat
    BY <2>1, <2>2, <2>3, SnapshotFacts DEF Entries
  <2>5. disk[q] # NoRoom => /\ disk[q].version \in Nat
                            /\ disk[q].version <= entry[q].version
                            /\ image[q] # NoRoom =>
                                  /\ image[q].version \in Nat
                                  /\ disk[q].version <= image[q].version
    BY DEF Shapes, Snapshots, VersionInv
  <2>6. CASE q \in pruned \/ disk'[q] = NoRoom
    BY <2>2, <2>6 DEF Safe, SafeNext
  <2>7. CASE q \notin pruned /\ disk'[q] # NoRoom
    <3>1. disk[q] # NoRoom /\ v <= disk[q].version
      BY <2>7 DEF Safe, SafeNext
    <3>2. disk[q].version <= disk'[q].version /\ disk'[q].version \in Nat
      <4>1. CASE disk'[q] = disk[q]
        BY <4>1, <3>1, <2>5
      <4>2. CASE disk'[q] = image'[q] /\ q = r
        BY <4>2, <3>1, <2>3, <2>4, <2>5
      <4>3. CASE disk'[q] = image'[q] /\ q # r
        BY <4>3, <3>1, <2>2, <2>5, <2>7
      <4> QED
        BY <2>2, <4>1, <4>2, <4>3
    <3> QED
      BY <2>5, <2>7, <3>1, <3>2 DEF Safe, SafeNext
  <2> QED
    BY <2>6, <2>7
<1>3. ASSUME NEW a \in Actors, NEW r \in Rooms, Removes(a, r)
      PROVE  SafeNext(q, v)
  <2>1. /\ q \in pruned => q \in pruned'
        /\ disk[q] # NoRoom /\ disk'[q] = NoRoom => q \in pruned'
        /\ disk'[q] = image'[q] \/ disk'[q] = disk[q]
        /\ image'[q] = NoRoom \/ image'[q] = image[q]
    BY <1>3, RemovesFacts
  <2>2. disk[q] # NoRoom /\ image[q] # NoRoom =>
           /\ disk[q].version \in Nat /\ image[q].version \in Nat
           /\ disk[q].version <= image[q].version
    BY DEF Shapes, Snapshots, VersionInv
  <2> QED
    BY <2>1, <2>2 DEF Safe, SafeNext
<1>4. \A a \in Actors, r \in Rooms :
         Keyed(a, r) \/ Opens(a, r) \/ Finishes(a, r) => UNCHANGED <<disk, pruned>>
  BY DEF Keyed, Opens, Finishes, Saved
<1>5. Rests \/ Restarts \/ (\E a \in Actors : Talks(a))
         => UNCHANGED <<disk, pruned>>
  BY DEF Rests, Restarts, Restart, Talks, Saved
<1> QED
  BY <1>1, <1>2, <1>3, <1>4, <1>5 DEF Kind

\* A thread speaks of a change only after the write that saved it.
LEMMA SpeechStep ==
    ASSUME Shapes, SessionInv, KnownInv, BlankInv, VersionInv, SafeInv, Kind,
           NEW x \in Actors, NEW q \in Rooms
    PROVE  /\ Speaks(task'[x], q) => SafeNext(q, task'[x].version)
           /\ Welcomes(task'[x], q) => SafeNext(q, 0)
<1> DEFINE Goal == /\ Speaks(task'[x], q) => SafeNext(q, task'[x].version)
                   /\ Welcomes(task'[x], q) => SafeNext(q, 0)
<1>a. ASSUME task'[x] = task[x] PROVE Goal
  <2>1. task[x].version \in Nat /\ 0 \in Nat
    BY DEF Shapes, Tasks
  <2>2. ASSUME Speaks(task[x], q) PROVE SafeNext(q, task[x].version)
    BY <2>1, <2>2, SafeKept DEF SafeInv
  <2>3. ASSUME Welcomes(task[x], q) PROVE SafeNext(q, 0)
    BY <2>1, <2>3, SafeKept DEF SafeInv
  <2> QED
    BY <1>a, <2>2, <2>3
<1>b. ASSUME ~Speaks(task'[x], q), ~Welcomes(task'[x], q) PROVE Goal
  BY <1>b
<1>c. ~Speaks(Idle, q) /\ ~Welcomes(Idle, q)
  BY IdleFacts DEF Speaks, Welcomes
<1> HIDE DEF Goal
<1>1. Rests => Goal
  BY <1>a DEF Rests
<1>2. Restarts => Goal
  BY <1>b, <1>c, RestartFacts
<1>3. ASSUME NEW a \in Actors, Talks(a) PROVE Goal
  <2>1. x # a => task'[x] = task[x]
    BY <1>3 DEF Talks, Others
  <2>2. x = a => ~Speaks(task'[x], q) /\ ~Welcomes(task'[x], q)
    BY <1>3 DEF Talks, Speaks, Welcomes
  <2> QED
    BY <2>1, <2>2, <1>a, <1>b
<1>4. ASSUME NEW a \in Actors, NEW r \in Rooms, Saves(a, r) \/ Moves(a, r)
      PROVE  Goal
  <2>1. x # a => task'[x] = task[x]
    BY <1>4 DEF Saves, Moves, Others
  <2>2. Puts(a, r) /\ entry'[r] \in Entries
    BY <1>4 DEF Saves, Moves, Shapes
  <2>3. entry'[r].version \in Nat
    BY <2>2 DEF Entries
  <2>4. ASSUME task'[a] # Idle
        PROVE  disk'[r] # NoRoom /\ disk'[r].version = entry'[r].version
    <3>1. disk'[r] = Snapshot(entry'[r])
      BY <2>2, <2>4, PutsFacts
    <3> QED
      BY <2>2, <3>1, SnapshotFacts
  <2>5. /\ task'[a] # Idle /\ Saves(a, r) => task'[a] = Do("ready", r)
        /\ task'[a] # Idle /\ Moves(a, r) =>
              \/ task'[a] = Do("abort", r)
              \/ task'[a] = Announce(r, entry'[r].version, "none")
    BY DEF Saves, Moves
  <2>6. CASE x = a /\ task'[a] = Announce(r, entry'[r].version, "none")
    <3>1. task'[x].room = r /\ task'[x].op = "announce"
          /\ task'[x].version = entry'[r].version
      BY <2>6, Continuations
    <3>2. task'[a] # Idle
      BY <3>1, <2>6, IdleFacts
    <3>3. SafeNext(r, task'[x].version)
      BY <2>3, <2>4, <3>1, <3>2 DEF Safe, SafeNext
    <3>4. Speaks(task'[x], q) => q = r
      BY <3>1 DEF Speaks
    <3>5. ~Welcomes(task'[x], q)
      BY <3>1 DEF Welcomes
    <3> QED
      BY <3>3, <3>4, <3>5 DEF Goal
  <2>7. CASE x = a /\ task'[a] = Do("ready", r)
    <3>1. task'[x].room = r /\ task'[x].op = "ready"
      BY <2>7, Continuations
    <3>2. task'[a] # Idle
      BY <3>1, <2>7, IdleFacts
    <3>3. SafeNext(r, 0)
      BY <2>3, <2>4, <3>2 DEF Safe, SafeNext
    <3>4. ~Speaks(task'[x], q)
      BY <3>1 DEF Speaks
    <3>5. Welcomes(task'[x], q) => q = r
      BY <3>1 DEF Welcomes
    <3> QED
      BY <3>3, <3>4, <3>5 DEF Goal
  <2>8. CASE x = a /\ task'[a] = Do("abort", r)
    <3>1. task'[x].op = "abort"
      BY <2>8, Continuations
    <3> QED
      BY <3>1, <1>b DEF Speaks, Welcomes
  <2> QED
    BY <1>4, <2>1, <2>5, <2>6, <2>7, <2>8, <1>a, <1>b, <1>c
<1>5. ASSUME NEW a \in Actors, NEW r \in Rooms,
             \/ Keyed(a, r) \/ Opens(a, r) \/ Finishes(a, r) \/ Removes(a, r)
      PROVE  Goal
  <2>1. x # a => task'[x] = task[x]
    BY <1>5 DEF Keyed, Opens, Finishes, Removes, Others
  <2>2. \/ task'[a] = Idle \/ task'[a] = Do("joined", r)
        \/ (Due(task'[a], r) /\ task'[a].outcome # "none")
        \/ task'[a].op \in {"erase", "tell"}
    BY <1>5 DEF Keyed, Opens, Finishes, Removes, Late
  <2>3. Do("joined", r).op = "joined"
    BY Continuations
  <2>4. x = a => ~Speaks(task'[x], q) /\ ~Welcomes(task'[x], q)
    BY <2>2, <2>3, <1>c DEF Speaks, Welcomes, Due
  <2> QED
    BY <2>1, <2>4, <1>a, <1>b
<1>6. Goal
  BY <1>1, <1>2, <1>3, <1>4, <1>5 DEF Kind
<1> QED
  BY <1>6 DEF Goal

\* Versions that are to be told, or were, are in the file or past its end.
LEMMA SafeStep ==
    ASSUME Shapes, SessionInv, KnownInv, BlankInv, VersionInv, SafeInv, Kind,
           [Next]_vars
    PROVE  SafeInv'
<1>1. \A a \in Actors, r \in Rooms :
        /\ Speaks(task'[a], r) => SafeNext(r, task'[a].version)
        /\ Welcomes(task'[a], r) => SafeNext(r, 0)
  BY SpeechStep
<1>2. NeverForgetsOpenRooms'
  <2> SUFFICES ASSUME NEW q \in Rooms
               PROVE  \/ told'[q] = 0
                      \/ q \in pruned' \cup hasty'
                      \/ disk'[q] # NoRoom /\ told'[q] <= disk'[q].version
    BY DEF NeverForgetsOpenRooms
  <2> DEFINE Ok == \/ told'[q] = 0
                   \/ q \in pruned' \cup hasty'
                   \/ disk'[q] # NoRoom /\ told'[q] <= disk'[q].version
  <2>0. told[q] = 0 \/ q \in hasty \/ Safe(q, told[q])
    BY DEF SafeInv, NeverForgetsOpenRooms, Safe
  <2>a. told[q] \in Nat
    BY DEF Shapes
  <2>1. ASSUME told'[q] = told[q], q \in hasty => q \in hasty' PROVE Ok
    <3>1. Safe(q, told[q]) => SafeNext(q, told[q])
      BY <2>a, SafeKept
    <3>2. CASE Safe(q, told[q])
      BY <2>1, <3>1, <3>2 DEF SafeNext
    <3> QED
      BY <2>0, <2>1, <3>1, <3>2
  <2>2. ASSUME NEW c \in Clients, JoinAnnounce(c) PROVE Ok
    <3> DEFINE r == task[c].room
               v == entry[r].version
    <3>1. c \in Actors /\ task[c].op = "ready" /\ r \in Rooms
          /\ entry[r] # NoRoom
      BY <2>2 DEF JoinAnnounce, KnownInv, Concerns, Actors
    <3>2. Safe(r, 0)
      BY <3>1 DEF SafeInv, Welcomes
    <3>3. /\ told' = told \/ told' = [told EXCEPT ![r] = IF @ < v THEN v ELSE @]
          /\ hasty' = IF disk[r] # NoRoom /\ disk[r].version < v
                      THEN hasty \cup {r} ELSE hasty
          /\ disk' = disk /\ pruned' = pruned
      BY <2>2 DEF JoinAnnounce, store
    <3>4. v \in Nat /\ (disk[r] # NoRoom => disk[r].version \in Nat)
      BY <3>1 DEF Shapes, Entries, Snapshots
    <3> HIDE DEF v, r
    <3>5. CASE told'[q] = told[q]
      <4>1. q \in hasty => q \in hasty'
        BY <3>3
      <4> QED
        BY <2>1, <3>5, <4>1
    <3>6. CASE told'[q] # told[q]
      <4>1. q = r /\ told'[q] = v
        BY <3>1, <3>3, <3>6 DEF Shapes
      <4> QED
        BY <3>2, <3>3, <3>4, <4>1 DEF Safe, SafeNext
    <3> QED
      BY <3>5, <3>6
  <2>3. ASSUME NEW c \in Clients, AnnounceStep(c) PROVE Ok
    <3> DEFINE r == task[c].room
               v == task[c].version
    <3>1. c \in Actors /\ task[c].op = "announce" /\ r \in Rooms /\ v \in Nat
      BY <2>3 DEF AnnounceStep, KnownInv, Actors, Shapes, Tasks
    <3>2. task[c].outcome = "none" => Safe(r, v)
      BY <3>1 DEF SafeInv, Speaks
    <3>3. /\ told' = [told EXCEPT ![r] = IF @ < v THEN v ELSE @]
          /\ hasty' = IF task[c].outcome = "none" THEN hasty
                      ELSE hasty \cup {r}
          /\ disk' = disk /\ pruned' = pruned
      BY <2>3 DEF AnnounceStep, store
    <3> HIDE DEF v, r
    <3>4. CASE told'[q] = told[q]
      <4>1. q \in hasty => q \in hasty'
        BY <3>3
      <4> QED
        BY <2>1, <3>4, <4>1
    <3>5. CASE told'[q] # told[q]
      <4>1. q = r /\ told'[q] = v
        BY <3>1, <3>3, <3>5 DEF Shapes
      <4> QED
        BY <3>2, <3>3, <4>1 DEF Safe, SafeNext
    <3> QED
      BY <3>4, <3>5
  <2>4. ASSUME UNCHANGED <<told, hasty>> PROVE Ok
    BY <2>1, <2>4
  <2> QED
    BY <2>2, <2>3, <2>4, NewsCases
<1> QED
  BY <1>1, <1>2 DEF SafeInv, Safe, SafeNext

\* The books about room q: nobody knows its end, or nobody but thread a does.
LEMMA OutcomeStep ==
    ASSUME Shapes, Shapes', SessionInv, KnownInv, BlankInv, EndInv, OutcomeInv,
           Kind, [Next]_vars
    PROVE  OutcomeInv'
<1> SUFFICES ASSUME NEW q \in Rooms
             PROVE  /\ entry'[q] # NoRoom /\ entry'[q].active
                          /\ ~entry'[q].restored => Untold(q)'
                    /\ \A x \in Actors : Due(task'[x], q) => Untold(q)'
                    /\ \A x \in Actors : \A o \in {"Complete", "Abort"} :
                          Late(task'[x], q, o) =>
                              /\ outcomes'[q] = {}
                              /\ recorded'[q] = IF o = "Complete" THEN 1 ELSE 0
                    /\ outcomes'[q] # {"Complete", "Abort"}
                    /\ recorded'[q] <= 1
                    /\ "Abort" \in outcomes'[q] => recorded'[q] = 0
  BY DEF OutcomeInv, OneOutcome
<1> DEFINE Live == entry[q] # NoRoom /\ entry[q].active /\ ~entry[q].restored
           One(out, rec) == /\ out # {"Complete", "Abort"}
                            /\ rec <= 1
                            /\ "Abort" \in out => rec = 0
           Told(o, out, rec) == out = {} /\ rec = IF o = "Complete" THEN 1 ELSE 0
           Goal == /\ Live' => outcomes'[q] = {} /\ recorded'[q] = 0
                   /\ \A x \in Actors : Due(task'[x], q)
                         => outcomes'[q] = {} /\ recorded'[q] = 0
                   /\ \A x \in Actors : \A o \in {"Complete", "Abort"} :
                         Late(task'[x], q, o) => Told(o, outcomes'[q], recorded'[q])
                   /\ One(outcomes'[q], recorded'[q])
<1>a. /\ Live => outcomes[q] = {} /\ recorded[q] = 0
      /\ \A x \in Actors : Due(task[x], q)
            => outcomes[q] = {} /\ recorded[q] = 0
      /\ \A x \in Actors : \A o \in {"Complete", "Abort"} :
            Late(task[x], q, o) => Told(o, outcomes[q], recorded[q])
      /\ One(outcomes[q], recorded[q])
  BY DEF OutcomeInv, OneOutcome, Untold
<1>b. ASSUME outcomes'[q] = outcomes[q], recorded'[q] = recorded[q],
             Live' => Live,
             \A x \in Actors : Due(task'[x], q) => \E y \in Actors : Due(task[y], q),
             \A x \in Actors : \A o \in {"Complete", "Abort"} :
                Late(task'[x], q, o) => \E y \in Actors : Late(task[y], q, o)
      PROVE  Goal
  <2> HIDE DEF Live, One, Told
  <2> QED
    BY <1>a, <1>b
<1>c. /\ ~Due(Idle, q) /\ \A o : ~Late(Idle, q, o)
      /\ \A o : ~Late(Do("joined", q), q, o)
  <2>1. Do("joined", q).op = "joined"
    BY Continuations
  <2> QED
    BY <2>1, IdleFacts DEF Due, Late
<1>d. \A t, o : Late(t, q, o) \/ Due(t, q) => Ends(t, q)
  BY DEF Late, Due, Ends
<1>e. ASSUME ~Restart, entry[q] # NoRoom PROVE Live' => Live
  BY <1>e, ActiveKept, PartiesKept
<1> HIDE DEF Live, Goal
<1>1. ASSUME Restarts PROVE Goal
  <2>1. outcomes' = outcomes /\ recorded' = recorded
        /\ \A x \in Actors : task'[x] = Idle
    BY <1>1, RestartFacts
  <2>2. ~Live'
    BY <1>1, RestartFacts DEF Live
  <2> QED
    BY <2>1, <2>2, <1>b, <1>c
<1>2. ASSUME \E a \in Actors : TellOutcome(a) PROVE Goal
  <2>1. PICK a \in Actors : TellOutcome(a)
    BY <1>2
  <2>2. Talks(a) /\ task[a].op = "tell"
    BY <2>1, TellTalks DEF TellOutcome
  <2>3. entry' = entry /\ recorded' = recorded /\ Others(a)
    BY <2>2 DEF Talks
  <2>4. task'[a].op \in {"idle", "leave"}
    <3>1. task[a].todo \in SUBSET Rooms
      BY DEF Shapes, Tasks
    <3>2. LeaveOf(task[a].todo).op = "leave" /\ Idle.op = "idle"
      BY <3>1, LeaveFacts, IdleFacts
    <3>3. task'[a] = LeaveOf(task[a].todo) \/ task'[a] = Idle
      BY <2>1, TellTalks DEF LeaveOf
    <3> QED
      BY <3>2, <3>3
  <2>5. ~Due(task'[a], q) /\ \A o : ~Late(task'[a], q, o)
    BY <2>4 DEF Due, Late
  <2>6. CASE q # task[a].room
    <3>1. outcomes'[q] = outcomes[q]
      BY <2>1, <2>6 DEF TellOutcome, Shapes
    <3>2. Live' => Live
      BY <2>3 DEF Live
    <3> QED
      BY <3>1, <3>2, <2>3, <2>5, <1>b DEF Others
  <2>7. CASE q = task[a].room
    <3>1. task[a].outcome \in {"Complete", "Abort"} /\ Ends(task[a], q)
      BY <2>2, <2>7 DEF KnownInv, Shapes, Tasks, Ends
    <3>2. ~Live /\ \A b \in Actors : Ends(task[b], q) => b = a
      BY <3>1 DEF EndInv, Live
    <3>3. Told(task[a].outcome, outcomes[q], recorded[q])
      <4>1. Late(task[a], q, task[a].outcome)
        BY <2>2, <2>7 DEF Late
      <4> QED
        BY <3>1, <4>1, <1>a
    <3>4. outcomes'[q] = {} \/ outcomes'[q] = {task[a].outcome}
      BY <2>1, <2>7, <3>3 DEF TellOutcome, Shapes
    <3>5. ~Live'
      BY <2>3, <3>2 DEF Live
    <3>6. \A x \in Actors : ~Due(task'[x], q) /\ \A o : ~Late(task'[x], q, o)
      BY <2>3, <2>5, <3>2, <1>d DEF Others
    <3>7. One(outcomes'[q], recorded'[q])
      BY <2>3, <3>1, <3>3, <3>4
    <3> QED
      BY <3>5, <3>6, <3>7 DEF Goal
  <2> QED
    BY <2>6, <2>7
<1>3. ASSUME ~Restarts, outcomes' = outcomes PROVE Goal
  <2>1. CASE Rests
    BY <1>3, <2>1, <1>b DEF Rests, Live
  <2>2. ASSUME NEW a \in Actors, Talks(a) PROVE Goal
    <3>1. entry' = entry /\ recorded' = recorded
          /\ \A b \in Actors : b # a => task'[b] = task[b]
      BY <2>2 DEF Talks, Others
    <3>2. Due(task'[a], q) => Due(task[a], q)
      BY <2>2 DEF Talks, Due, Ends
    <3>3. \A o \in {"Complete", "Abort"} :
             Late(task'[a], q, o) => Late(task[a], q, o)
      BY <2>2 DEF Talks, Late, Ends
    <3>4. Live' => Live
      BY <3>1 DEF Live
    <3> QED
      BY <1>3, <3>1, <3>2, <3>3, <3>4, <1>b
  <2>3. ASSUME NEW a \in Actors, NEW r \in Rooms,
               Keyed(a, r) \/ Saves(a, r) \/ Moves(a, r)
        PROVE  Goal
    <3>1. recorded' = recorded /\ \A b \in Actors : b # a => task'[b] = task[b]
      BY <2>3 DEF Keyed, Saves, Moves, Others, Puts
    <3>2. /\ task'[a] \in {Idle, Do("ready", r), Do("abort", r)}
             \/ task'[a] = Announce(r, entry'[r].version, "none")
      BY <2>3 DEF Keyed, Saves, Moves
    <3>3. ~Ends(task'[a], q)
      BY <3>2, QuietTasks DEF Ops
    <3>4. Live' => Live
      <4>1. CASE q = r
        <5>1. entry[q] # NoRoom /\ ~Restart
          <6>1. entry[q] # NoRoom
            BY <2>3, <4>1 DEF Keyed, Saves, Moves
          <6>2. ~Restart
            BY <1>3 DEF Restarts, Shapes
          <6> QED
            BY <6>1, <6>2
        <5> QED
          BY <5>1, <1>e
      <4>2. CASE q # r
        BY <2>3, <4>2 DEF Keyed, Saves, Moves, Elsewhere, Live
      <4> QED
        BY <4>1, <4>2
    <3> QED
      BY <1>3, <3>1, <3>3, <3>4, <1>b, <1>d
  <2>4. ASSUME NEW a \in Actors, NEW r \in Rooms, Opens(a, r) PROVE Goal
    <3>1. recorded' = recorded /\ \A b \in Actors : b # a => task'[b] = task[b]
      BY <2>4 DEF Opens, Others
    <3>2. task'[a] = Do("joined", r)
      BY <2>4 DEF Opens
    <3>3. ~Ends(task'[a], q)
      BY <3>2, QuietTasks DEF Ops
    <3>4. \A x \in Actors : Ends(task'[x], q) => task'[x] = task[x]
      BY <3>1, <3>3
    <3>5. CASE q = r
      <4>1. outcomes[q] = {} /\ recorded[q] = 0 /\ entry[q] = NoRoom
        BY <2>4, <3>5 DEF Opens, BlankInv, Blank
      <4>2. \A x \in Actors : ~Ends(task[x], q)
        BY <4>1 DEF KnownInv, Ends, Concerns
      <4>3. \A x \in Actors : ~Ends(task'[x], q)
        BY <3>4, <4>2
      <4>4. One(outcomes'[q], recorded'[q])
        BY <1>3, <3>1, <4>1
      <4> QED
        BY <1>3, <3>1, <4>1, <4>3, <4>4, <1>d DEF Goal
    <3>6. CASE q # r
      <4>1. Live' => Live
        BY <2>4, <3>6 DEF Opens, Elsewhere, Live
      <4> QED
        BY <1>3, <3>1, <3>4, <4>1, <1>b, <1>d
    <3> QED
      BY <3>5, <3>6
  <2>5. ASSUME NEW a \in Actors, NEW r \in Rooms, Finishes(a, r) PROVE Goal
    <3>1. /\ recorded' = recorded
          /\ \A b \in Actors : b # a => task'[b] = task[b]
          /\ entry[r] # NoRoom /\ entry[r].active /\ ~entry'[r].active
          /\ task'[a] = Idle \/ (Due(task'[a], r) /\ ~entry[r].restored)
      BY <2>5 DEF Finishes, Others
    <3>2. ~Late(task'[a], q, "Complete") /\ ~Late(task'[a], q, "Abort")
      BY <3>1, <1>c DEF Due, Late
    <3>3. Due(task'[a], q) => Live /\ q = r
      BY <3>1, <1>c DEF Due, Ends, Live
    <3>4. Live' => Live
      BY <2>5, <3>1 DEF Finishes, Elsewhere, Live
    <3>5. Live => outcomes'[q] = {} /\ recorded'[q] = 0
      BY <1>3, <3>1, <1>a
    <3>6. One(outcomes'[q], recorded'[q])
      BY <1>3, <3>1, <1>a
    <3> HIDE DEF One, Told
    <3>7. \A x \in Actors : Due(task'[x], q) => outcomes'[q] = {} /\ recorded'[q] = 0
      BY <1>3, <3>1, <3>3, <3>5, <1>a
    <3>8. \A x \in Actors : \A o \in {"Complete", "Abort"} :
             Late(task'[x], q, o) => Told(o, outcomes'[q], recorded'[q])
      BY <1>3, <3>1, <3>2, <1>a
    <3> QED
      BY <3>4, <3>5, <3>6, <3>7, <3>8 DEF Goal
  <2>6. ASSUME NEW a \in Actors, NEW r \in Rooms, Removes(a, r) PROVE Goal
    <3>1. /\ entry' = entry
          /\ \A b \in Actors : b # a => task'[b] = task[b]
          /\ task[a].room = r /\ task[a].op = "prune"
          /\ recorded' = [recorded EXCEPT ![r] =
                             IF task[a].outcome = "Complete" THEN @ + 1 ELSE @]
      BY <2>6 DEF Removes, Others
    <3>2. Ends(task[a], r) /\ Due(task[a], r)
      BY <3>1 DEF Ends, Due
    <3>3. task'[a] = Idle \/ Late(task'[a], r, task[a].outcome)
      BY <2>6, RemovesFacts
    <3>4. ~Due(task'[a], q)
      BY <3>3, <1>c DEF Late, Due
    <3>5. CASE q = r
      <4>1. outcomes[q] = {} /\ recorded[q] = 0
        BY <3>2, <3>5, <1>a
      <4>2. recorded'[q] = IF task[a].outcome = "Complete" THEN 1 ELSE 0
        BY <3>1, <3>5, <4>1 DEF Shapes
      <4>3. ~Live /\ \A b \in Actors : Ends(task[b], q) => b = a
        BY <3>2, <3>5 DEF EndInv, Live
      <4>4. ~Live'
        BY <4>3, <3>1 DEF Live
      <4>5. \A x \in Actors : x # a => ~Ends(task'[x], q)
        BY <4>3, <3>1
      <4>6. \A o : Late(task'[a], q, o) => o = task[a].outcome
        BY <3>3, <1>c DEF Late
      <4>7. One(outcomes'[q], recorded'[q])
        BY <1>3, <4>1, <4>2
      <4>8. Told(task[a].outcome, outcomes'[q], recorded'[q])
        BY <1>3, <4>1, <4>2
      <4> HIDE DEF One, Told
      <4> QED
        BY <3>4, <4>4, <4>5, <4>6, <4>7, <4>8, <1>d DEF Goal
    <3>6. CASE q # r
      <4>1. recorded'[q] = recorded[q]
        BY <3>1, <3>6 DEF Shapes
      <4>2. \A o : ~Late(task'[a], q, o)
        BY <3>3, <3>6, <1>c DEF Late
      <4>3. Live' => Live
        BY <3>1 DEF Live
      <4> QED
        BY <1>3, <3>1, <3>4, <4>1, <4>2, <4>3, <1>b
    <3> QED
      BY <3>5, <3>6
  <2> QED
    BY <1>3, <2>1, <2>2, <2>3, <2>4, <2>5, <2>6 DEF Kind
<1>4. Goal
  BY <1>1, <1>2, <1>3, NewsCases
<1> QED
  BY <1>4 DEF Goal, Live, Untold

-----------------------------------------------------------------------------
\* The inductive invariant.
Inv ==
    /\ Shapes /\ Hub /\ KnownInv /\ BlankInv /\ MembersInv /\ SessionInv
    /\ VersionInv /\ EndInv /\ SafeInv /\ OutcomeInv
    /\ NoOrphanedRooms /\ LiveRoomsOnDisk

\* It holds when the mediator starts for the first time.
LEMMA InitInv == Init => Inv
<1> SUFFICES ASSUME Init PROVE Inv
  OBVIOUS
<1>1. Idle \in Tasks /\ Idle.op = "idle" /\ Idle.room = NoRoom /\ Idle.todo = {}
  BY IdleFacts
<1>2. NoRoom \notin Rooms /\ MaxFaults \in Nat
      /\ NoClient \notin Clients
  BY LobbyAssumption
<1>3. /\ \A a \in Actors : task[a] = Idle
      /\ task = [a \in Actors |-> Idle]
  BY DEF Init
<1>4. Shapes
  BY <1>1, <1>2, <1>3 DEF Init, Shapes
<1>5. Hub
  BY <1>2 DEF Init, Hub
<1>6. /\ \A r \in Rooms : entry[r] = NoRoom /\ disk[r] = NoRoom
                          /\ image[r] = NoRoom
      /\ \A r \in Rooms : outcomes[r] = {} /\ recorded[r] = 0
                          /\ issued[r] = {} /\ told[r] = 0
      /\ rooms = {} /\ image = disk
  BY DEF Init
<1>7. \A a \in Actors, r \in Rooms :
         ~Concerns(task[a], r) /\ ~Ends(task[a], r) /\ ~Speaks(task[a], r)
         /\ ~Welcomes(task[a], r) /\ ~Due(task[a], r)
         /\ \A o : ~Late(task[a], r, o)
  BY <1>1, <1>2, <1>3 DEF Concerns, Ends, Speaks, Welcomes, Due, Late
<1>8. KnownInv
  BY <1>1, <1>3, <1>6, <1>7 DEF KnownInv
<1>9. BlankInv /\ SessionInv /\ VersionInv /\ EndInv /\ SafeInv
  BY <1>6, <1>7 DEF BlankInv, Blank, SessionInv, VersionInv, EndInv, SafeInv,
     NeverForgetsOpenRooms
<1>10. MembersInv
  BY <1>1, <1>3, <1>6 DEF MembersInv, Requests, Actors
<1>11. OutcomeInv
  BY <1>6, <1>7 DEF OutcomeInv, OneOutcome, Untold
<1>12. NoOrphanedRooms /\ LiveRoomsOnDisk
  BY <1>6 DEF NoOrphanedRooms, LiveRoomsOnDisk
<1> QED
  BY <1>4, <1>5, <1>8, <1>9, <1>10, <1>11, <1>12 DEF Inv

\* Every step of the mediator, its threads and its crashes preserves it.
LEMMA StepInv == Inv /\ [Next]_vars => Inv'
<1> SUFFICES ASSUME Inv, [Next]_vars PROVE Inv'
  OBVIOUS
<1> USE DEF Inv
<1>1. Kind
  BY NextKind
<1>2. Shapes'
  BY <1>1, ShapesStep
<1>3. KnownInv'
  BY <1>1, KnownStep
<1>4. Hub' /\ BlankInv'
  BY <1>1, HubStep, BlankStep
<1>5. EndInv'
  BY <1>1, EndsStep
<1>6. SessionInv' /\ VersionInv'
  BY <1>1, SessionStep, VersionStep
<1>7. MembersInv'
  BY <1>1, <1>2, <1>3, MembersStep
<1>8. NoOrphanedRooms' /\ LiveRoomsOnDisk'
  BY <1>1, <1>2, OrphanStep, LiveStep
<1>9. SafeInv' /\ OutcomeInv'
  BY <1>1, <1>2, SafeStep, OutcomeStep
<1> QED
  BY <1>2, <1>3, <1>4, <1>5, <1>6, <1>7, <1>8, <1>9

\* The inductive invariant holds at all times: for every set of clients,
\* operators and rooms, every limit and any number of crashes and failed writes.
THEOREM Inductive == Spec => []Inv
  BY InitInv, StepInv, PTL DEF Spec

\* The state of lobby.cpp has its types: in particular every room of rooms_ has
\* a RoomEntry and no open offer, and only drawn ids are in use.
THEOREM TypeCorrect == Spec => []TypeOK
<1>1. Inv => TypeOK
  <2> SUFFICES ASSUME Inv PROVE TypeOK
    OBVIOUS
  <2>1. crashes + failures \in 0..MaxFaults
    BY LobbyAssumption DEF Inv, Shapes
  <2> QED
    BY <2>1 DEF Inv, Shapes, Hub, TypeOK, Tasks
<1> QED
  BY <1>1, Inductive, PTL

\* Whoever clears `active` first decides: the parties are told one outcome, and
\* the trade is recorded at most once and never after an abort.
THEOREM OutcomeDecidedOnce == Spec => []OneOutcome
<1>1. Inv => OneOutcome
  BY DEF Inv, OutcomeInv
<1> QED
  BY <1>1, Inductive, PTL

\* remove_client leaves no live room behind that waits for the client it removed.
THEOREM RoomsHaveTheirParties == Spec => []NoOrphanedRooms
<1>1. Inv => NoOrphanedRooms
  BY DEF Inv
<1> QED
  BY <1>1, Inductive, PTL

\* Every critical section that moves a session saves it: outside its creation,
\* persisted_rooms_ has the version of every live room.
THEOREM LiveRoomsSaved == Spec => []LiveRoomsOnDisk
<1>1. Inv => LiveRoomsOnDisk
  BY DEF Inv
<1> QED
  BY <1>1, Inductive, PTL

\* What a handler tells a client is on disk before, also when writes fail.
THEOREM NothingToldIsForgotten == Spec => []NeverForgetsOpenRooms
<1>1. Inv => NeverForgetsOpenRooms
  BY DEF Inv, SafeInv
<1> QED
  BY <1>1, Inductive, PTL

-----------------------------------------------------------------------------
\* A thread that is to tell the parties Complete has a completed session.
FinalInv == \A a \in Actors, r \in Rooms :
    Ends(task[a], r) /\ task[a].outcome = "Complete"
        => entry[r].session.state = "Complete"

\* Once the room's removal is on disk, what is left of it is complete, in
\* memory and in any copy of it that its creation still writes.
Decided(r) == \/ "Complete" \in outcomes[r]
              \/ \E a \in Actors : Late(task[a], r, "Complete")

Settled(e) == e = NoRoom \/ (e.session.state = "Complete" /\ ~e.active)
Over(x) == x = NoRoom \/ x.session.state = "Complete"

OverInv == \A r \in Rooms :
    Decided(r) => Settled(entry[r]) /\ Over(disk[r]) /\ Over(image[r])

\* The receipt chain: a live session is behind its gate only with the
\* acknowledged stage-3 receipt, and that receipt was issued.
ReceiptInv ==
    /\ \A r \in Rooms : entry[r] # NoRoom =>
          /\ entry[r].active => Gated(entry[r])
          /\ entry[r].final_ack => "penultimate" \in issued[r]
    /\ SettlementReceiptChained

\* With trailing fees only, whoever is to tell Complete has a completed session.
LEMMA FinalStep ==
    ASSUME Trailing, Shapes, SessionInv, KnownInv, BlankInv, EndInv, FinalInv,
           Kind
    PROVE  FinalInv'
<1> SUFFICES ASSUME NEW x \in Actors, NEW q \in Rooms, Ends(task'[x], q),
                    task'[x].outcome = "Complete"
             PROVE  entry'[q].session.state = "Complete"
  BY DEF FinalInv
<1> DEFINE Goal == entry'[q].session.state = "Complete"
<1>a. ASSUME Ends(task[x], q), task[x].outcome = "Complete"
      PROVE  entry[q].session.state = "Complete" /\ ~entry[q].active
             /\ entry[q] # NoRoom
  BY <1>a DEF FinalInv, EndInv, KnownInv, Concerns, Ends
<1>1. CASE Rests
  BY <1>1, <1>a DEF Rests
<1>2. CASE Restarts
  BY <1>2, RestartFacts, QuietTasks
<1>3. ASSUME NEW a \in Actors, Talks(a) PROVE Goal
  <2>1. entry' = entry /\ (x # a => task'[x] = task[x])
    BY <1>3 DEF Talks, Others
  <2>2. x = a => Ends(task[x], q) /\ task[x].outcome = "Complete"
    BY <1>3 DEF Talks, Ends
  <2> QED
    BY <2>1, <2>2, <1>a
<1>4. ASSUME NEW a \in Actors, NEW r \in Rooms,
             \/ Keyed(a, r) \/ Opens(a, r) \/ Saves(a, r) \/ Moves(a, r)
      PROVE  Goal
  <2>1. /\ task'[a] \in {Idle, Do("joined", r), Do("ready", r), Do("abort", r)}
           \/ task'[a] = Announce(r, entry'[r].version, "none")
    BY <1>4 DEF Keyed, Opens, Saves, Moves
  <2>2. ~Ends(task'[a], q)
    BY <2>1, QuietTasks DEF Ops
  <2>3. x # a => task'[x] = task[x]
    BY <1>4 DEF Keyed, Opens, Saves, Moves, Others
  <2>4. entry[q].session.state = "Complete" /\ ~entry[q].active
        /\ entry[q] # NoRoom
    BY <2>2, <2>3, <1>a
  <2>5. CASE q # r
    BY <1>4, <2>4, <2>5 DEF Keyed, Opens, Saves, Moves, Elsewhere
  <2>6. CASE q = r
    <3>1. ~Moves(a, r) /\ ~Opens(a, r)
      BY <2>4, <2>6 DEF Moves, Opens, BlankInv, Blank
    <3>2. Saves(a, r) => Goal
      BY <2>4 DEF Saves
    <3>3. Keyed(a, r) => entry'[q].session = entry[q].session
      BY <2>4, <2>6 DEF Keyed, Shapes, Entries
    <3> QED
      BY <1>4, <2>4, <3>1, <3>2, <3>3
  <2> QED
    BY <2>5, <2>6
<1>5. ASSUME NEW a \in Actors, NEW r \in Rooms, Finishes(a, r) PROVE Goal
  <2>1. CASE x = a
    <3>1. task'[a] # Idle
      BY <2>1, QuietTasks
    <3>2. Due(task'[a], r) /\ entry'[r].session.state = "Complete"
      BY <1>5, <2>1, <3>1 DEF Finishes
    <3> QED
      BY <2>1, <3>2 DEF Due, Ends
  <2>2. CASE x # a
    <3>1. task'[x] = task[x]
      BY <1>5, <2>2 DEF Finishes, Others
    <3>2. q # r
      BY <1>5, <3>1, <1>a DEF Finishes
    <3> QED
      BY <1>5, <3>1, <3>2, <1>a DEF Finishes, Elsewhere
  <2> QED
    BY <2>1, <2>2
<1>6. ASSUME NEW a \in Actors, NEW r \in Rooms, Removes(a, r) PROVE Goal
  <2>1. entry' = entry /\ (x # a => task'[x] = task[x])
    BY <1>6 DEF Removes, Others
  <2>2. ASSUME x = a PROVE Ends(task[x], q) /\ task[x].outcome = "Complete"
    <3>1. task'[a] = Idle \/ Late(task'[a], r, task[a].outcome)
      BY <1>6, RemovesFacts
    <3>2. Late(task'[a], r, task[a].outcome)
      BY <2>2, <3>1, QuietTasks
    <3> QED
      BY <1>6, <2>2, <3>2 DEF Late, Ends, Removes
  <2> QED
    BY <2>1, <2>2, <1>a
<1> QED
  BY <1>1, <1>2, <1>3, <1>4, <1>5, <1>6 DEF Kind

\* A completion is decided by the write that removes the room.
LEMMA DecidedStep ==
    ASSUME Shapes, SessionInv, KnownInv, Kind, [Next]_vars,
           NEW q \in Rooms, Decided(q)'
    PROVE  \/ Decided(q)
           \/ \E a \in Actors : /\ Removes(a, q) /\ disk' = image'
                                /\ task[a].outcome = "Complete"
<1> DEFINE Goal == \/ Decided(q)
                   \/ \E a \in Actors : /\ Removes(a, q) /\ disk' = image'
                                        /\ task[a].outcome = "Complete"
<1>1. ASSUME "Complete" \in outcomes'[q] PROVE Decided(q)
  <2>1. CASE outcomes' = outcomes
    BY <1>1, <2>1 DEF Decided
  <2>2. ASSUME NEW a \in Actors, TellOutcome(a), "Complete" \notin outcomes[q]
        PROVE  Late(task[a], q, "Complete")
    <3>1. task[a].room = q /\ task[a].outcome = "Complete"
      BY <1>1, <2>2 DEF TellOutcome, Shapes
    <3> QED
      BY <2>2, <3>1 DEF TellOutcome, Late
  <2> QED
    BY <2>1, <2>2, NewsCases DEF Decided
<1>2. ASSUME NEW x \in Actors, Late(task'[x], q, "Complete") PROVE Goal
  <2>0. ~Late(Idle, q, "Complete")
    BY IdleFacts DEF Late
  <2>a. task'[x] # task[x] \/ Decided(q)
    BY <1>2 DEF Decided
  <2>1. ASSUME NEW a \in Actors, Talks(a) PROVE Goal
    <3>1. x # a => task'[x] = task[x]
      BY <2>1 DEF Talks, Others
    <3>2. x = a => Late(task[x], q, "Complete")
      BY <1>2, <2>1 DEF Talks, Late, Ends
    <3> QED
      BY <2>a, <3>1, <3>2 DEF Decided
  <2>2. ASSUME NEW a \in Actors, NEW r \in Rooms,
               \/ Keyed(a, r) \/ Opens(a, r) \/ Saves(a, r) \/ Moves(a, r)
               \/ Finishes(a, r)
        PROVE  Goal
    <3>1. x # a => task'[x] = task[x]
      BY <2>2 DEF Keyed, Opens, Saves, Moves, Finishes, Others
    <3>2. \/ task'[a] \in {Idle, Do("joined", r), Do("ready", r), Do("abort", r)}
          \/ task'[a] = Announce(r, entry'[r].version, "none")
          \/ Due(task'[a], r)
      BY <2>2 DEF Keyed, Opens, Saves, Moves, Finishes
    <3>3. \A op : Do(op, r).op = op
      BY Continuations
    <3>4. ~Late(task'[a], q, "Complete")
      BY <3>2, <3>3, <2>0, Continuations DEF Late, Due
    <3> QED
      BY <1>2, <2>a, <3>1, <3>4
  <2>3. ASSUME NEW a \in Actors, NEW r \in Rooms, Removes(a, r) PROVE Goal
    <3>1. x # a => task'[x] = task[x]
      BY <2>3 DEF Removes, Others
    <3>2. ASSUME x = a
          PROVE  r = q /\ task[a].outcome = "Complete" /\ disk' = image'
      <4>1. task'[a] # Idle
        BY <1>2, <3>2, <2>0
      <4> QED
        BY <1>2, <2>3, <3>2, <4>1 DEF Removes, Late
    <3> QED
      BY <2>3, <2>a, <3>1, <3>2
  <2>4. CASE Rests
    BY <2>4, <2>a DEF Rests
  <2>5. ~Restarts
    BY <1>2, <2>0, RestartFacts
  <2> QED
    BY <2>1, <2>2, <2>3, <2>4, <2>5 DEF Kind
<1> QED
  BY <1>1, <1>2 DEF Decided

\* Nothing opens a room again whose completion is on disk, and a copy of it that
\* is written late, or read back after a crash, is that of a completed session.
LEMMA OverStep ==
    ASSUME Shapes, SessionInv, KnownInv, BlankInv, EndInv, FinalInv, OverInv,
           Kind, [Next]_vars
    PROVE  OverInv'
<1> SUFFICES ASSUME NEW q \in Rooms, Decided(q)'
             PROVE  Settled(entry'[q]) /\ Over(disk'[q]) /\ Over(image'[q])
  BY DEF OverInv
<1> DEFINE Goal == Settled(entry'[q]) /\ Over(disk'[q]) /\ Over(image'[q])
<1>a. ASSUME NEW a \in Actors, Removes(a, q), disk' = image',
             task[a].outcome = "Complete"
      PROVE  Goal
  <2>1. Ends(task[a], q) /\ entry' = entry
    BY <1>a DEF Removes, Ends
  <2>2. entry[q].session.state = "Complete" /\ ~entry[q].active
    BY <1>a, <2>1 DEF FinalInv, EndInv
  <2>3. image'[q] = NoRoom /\ disk'[q] = NoRoom
    BY <1>a, RemovesFacts
  <2> QED
    BY <2>1, <2>2, <2>3 DEF Settled, Over
<1>b. ASSUME Decided(q) PROVE Goal
  <2>a. Settled(entry[q]) /\ Over(disk[q]) /\ Over(image[q])
    BY <1>b DEF OverInv
  <2>b. Over(NoRoom) /\ \A e \in Entries : Settled(e) => Over(Snapshot(e))
    BY SnapshotFacts, NotAbsent DEF Settled, Over
  <2>1. ASSUME Rests PROVE Goal
    BY <2>1, <2>a DEF Rests, Saved
  <2>2. ASSUME Restarts PROVE Goal
    <3>1. image' = disk /\ disk' = disk
      BY <2>2, RestartFacts
    <3>2. CASE disk[q] = NoRoom
      BY <2>2, <3>1, <3>2, <2>a, RestartFacts DEF Settled, Over
    <3>3. CASE disk[q] # NoRoom
      <4>1. disk[q].session.state = "Complete"
        BY <3>3, <2>a DEF Over
      <4>2. entry'[q].session.state = "Complete" /\ ~entry'[q].active
        BY <2>2, <3>3, <4>1, RestartFacts
      <4> QED
        BY <3>1, <4>2, <2>a DEF Settled
    <3> QED
      BY <3>2, <3>3
  <2>3. ASSUME NEW a \in Actors, Talks(a) PROVE Goal
    BY <2>3, <2>a DEF Talks, Saved
  <2>4. ASSUME NEW a \in Actors, NEW r \in Rooms, Keyed(a, r) PROVE Goal
    <3>1. q = r => /\ entry'[q].session = entry[q].session
                   /\ entry'[q].active = entry[q].active
                   /\ entry[q] # NoRoom
      BY <2>4 DEF Keyed, Shapes, Entries
    <3>2. q # r => entry'[q] = entry[q]
      BY <2>4 DEF Keyed, Elsewhere
    <3>3. disk' = disk /\ image' = image
      BY <2>4 DEF Keyed, Saved
    <3> QED
      BY <3>1, <3>2, <3>3, <2>a DEF Settled
  <2>5. ASSUME NEW a \in Actors, NEW r \in Rooms, Opens(a, r) PROVE Goal
    <3>1. q # r
      <4>1. ASSUME q = r PROVE FALSE
        <5>1. outcomes[q] = {} /\ entry[q] = NoRoom
          BY <2>5, <4>1 DEF Opens, BlankInv, Blank
        <5>2. \A x \in Actors : ~Late(task[x], q, "Complete")
          BY <5>1 DEF Late, KnownInv, Concerns
        <5> QED
          BY <5>1, <5>2, <1>b DEF Decided
      <4> QED
        BY <4>1
    <3>2. entry'[q] = entry[q] /\ disk' = disk /\ image' = image
      BY <2>5, <3>1 DEF Opens, Elsewhere, Saved
    <3> QED
      BY <3>2, <2>a
  <2>6. ASSUME NEW a \in Actors, NEW r \in Rooms, Saves(a, r) PROVE Goal
    <3>1. entry' = entry /\ entry'[r] \in Entries
      BY <2>6 DEF Saves, Shapes
    <3>2. /\ image'[r] = Snapshot(entry'[r])
          /\ q # r => image'[q] = image[q]
          /\ disk'[q] = image'[q] \/ disk'[q] = disk[q]
      BY <2>6, <3>1, PutsFacts DEF Saves
    <3> QED
      BY <3>1, <3>2, <2>a, <2>b
  <2>7. ASSUME NEW a \in Actors, NEW r \in Rooms, Moves(a, r) PROVE Goal
    <3>1. q # r
      BY <2>7, <2>a DEF Moves, Settled
    <3>2. entry'[q] = entry[q] /\ entry'[r] \in Entries
      BY <2>7, <3>1 DEF Moves, Elsewhere
    <3>3. /\ image'[q] = image[q]
          /\ disk'[q] = image'[q] \/ disk'[q] = disk[q]
      BY <2>7, <3>1, <3>2, PutsFacts DEF Moves
    <3> QED
      BY <3>2, <3>3, <2>a
  <2>8. ASSUME NEW a \in Actors, NEW r \in Rooms, Finishes(a, r) PROVE Goal
    <3>1. q # r
      BY <2>8, <2>a DEF Finishes, Settled
    <3> QED
      BY <2>8, <3>1, <2>a DEF Finishes, Elsewhere, Saved
  <2>9. ASSUME NEW a \in Actors, NEW r \in Rooms, Removes(a, r) PROVE Goal
    <3>1. /\ image'[q] = NoRoom \/ image'[q] = image[q]
          /\ disk'[q] = image'[q] \/ disk'[q] = disk[q]
      BY <2>9, RemovesFacts
    <3>2. entry' = entry
      BY <2>9 DEF Removes
    <3> QED
      BY <3>1, <3>2, <2>a, <2>b
  <2> HIDE DEF Goal
  <2> QED
    BY <2>1, <2>2, <2>3, <2>4, <2>5, <2>6, <2>7, <2>8, <2>9 DEF Kind
<1> QED
  BY <1>a, <1>b, DecidedStep

\* A settlement receipt is issued only for a live session behind its gate; a
\* restored room, which has lost its acknowledged receipt, has no keys to issue
\* one with.
LEMMA ReceiptStep ==
    ASSUME Trailing, Shapes, SessionInv, MembersInv, BlankInv, ReceiptInv, Kind
    PROVE  ReceiptInv'
<1> DEFINE Chain(e, i) == e # NoRoom =>
              /\ e.active => Gated(e)
              /\ e.final_ack => "penultimate" \in i
           Issued(i) == /\ "completed_unchained" \notin i
                        /\ "completed" \in i => "penultimate" \in i
<1> SUFFICES ASSUME NEW q \in Rooms
             PROVE  Chain(entry'[q], issued'[q]) /\ Issued(issued'[q])
  BY DEF ReceiptInv, SettlementReceiptChained, Gated, PastGate
<1> DEFINE Goal == Chain(entry'[q], issued'[q]) /\ Issued(issued'[q])
<1>a. \A p \in Rooms : Chain(entry[p], issued[p]) /\ Issued(issued[p])
  BY DEF ReceiptInv, SettlementReceiptChained
<1>1. ASSUME Rests PROVE Goal
  BY <1>1, <1>a DEF Rests
<1>2. ASSUME Restarts PROVE Goal
  <2>1. issued' = issued
    BY <1>2, RestartFacts
  <2>2. entry'[q] # NoRoom => entry'[q].restored /\ ~entry'[q].final_ack
    BY <1>2, RestartFacts
  <2> QED
    BY <2>1, <2>2, <1>a DEF Gated
<1>3. ASSUME NEW a \in Actors, Talks(a) PROVE Goal
  BY <1>3, <1>a DEF Talks
<1>4. ASSUME NEW a \in Actors, NEW r \in Rooms, Keyed(a, r) PROVE Goal
  <2>1. issued' = issued /\ (q # r => entry'[q] = entry[q])
    BY <1>4 DEF Keyed, Elsewhere
  <2>2. q = r => /\ entry'[q].session = entry[q].session
                 /\ entry'[q].active = entry[q].active
                 /\ entry'[q].final_ack = entry[q].final_ack
                 /\ entry'[q].restored = entry[q].restored
                 /\ entry[q] # NoRoom
    BY <1>4 DEF Keyed, Shapes, Entries
  <2> QED
    BY <2>1, <2>2, <1>a DEF Gated
<1>5. ASSUME NEW a \in Actors, NEW r \in Rooms, Opens(a, r) PROVE Goal
  <2>1. issued' = issued /\ (q # r => entry'[q] = entry[q])
    BY <1>5 DEF Opens, Elsewhere
  <2>2. ~entry'[r].final_ack
    BY <1>5 DEF Opens
  <2>3. ~PastGate(entry'[r].session)
    BY <1>5 DEF Opens, PastGate
  <2> QED
    BY <2>1, <2>2, <2>3, <1>a DEF Gated
<1>6. ASSUME NEW a \in Actors, NEW r \in Rooms, Saves(a, r) PROVE Goal
  BY <1>6, <1>a DEF Saves
<1>7. ASSUME NEW a \in Actors, NEW r \in Rooms, Moves(a, r) PROVE Goal
  <2>1. CASE q # r
    BY <1>7, <2>1, <1>a DEF Moves, Elsewhere
  <2>2. CASE q = r
    <3>1. /\ entry[r] # NoRoom /\ entry[r].active
          /\ issued'[r] \in {issued[r], issued[r] \cup {"penultimate"}}
          /\ Gated(entry[r]) => Gated(entry'[r])
          /\ entry'[r].final_ack
                => entry[r].final_ack \/ "penultimate" \in issued'[r]
      BY <1>7 DEF Moves
    <3>2. Chain(entry[r], issued[r]) /\ Issued(issued[r])
      BY <1>a
    <3>3. Gated(entry'[r])
      BY <3>1, <3>2
    <3>4. Issued(issued'[r])
      BY <3>1, <3>2
    <3>5. entry'[r].final_ack => "penultimate" \in issued'[r]
      BY <3>1, <3>2
    <3> QED
      BY <2>2, <3>3, <3>4, <3>5
  <2> QED
    BY <2>1, <2>2
<1>8. ASSUME NEW a \in Actors, NEW r \in Rooms, Finishes(a, r) PROVE Goal
  <2>1. CASE q # r
    BY <1>8, <2>1, <1>a DEF Finishes, Elsewhere
  <2>2. CASE q = r
    <3>1. /\ entry[r] # NoRoom /\ entry[r].active /\ ~entry'[r].active
          /\ entry'[r].final_ack => entry[r].final_ack
          /\ \/ issued'[r] = issued[r]
             \/ /\ entry[r].keys = Parties
                /\ issued'[r] = issued[r] \cup
                      {IF entry[r].final_ack THEN "completed"
                                             ELSE "completed_unchained"}
                /\ PastGate(entry[r].session)
      BY <1>8 DEF Finishes
    <3>2. Chain(entry[r], issued[r]) /\ Issued(issued[r])
      BY <1>a
    <3>3. entry[r].final_ack => "penultimate" \in issued[r]
      BY <3>1, <3>2
    <3>4. ASSUME issued'[r] # issued[r] PROVE entry[r].final_ack
      <4>1. Parties # {}
        BY DEF Parties
      <4>2. ~entry[r].restored
        BY <3>1, <3>4, <4>1 DEF MembersInv
      <4> QED
        BY <3>1, <3>2, <3>4, <4>2 DEF Gated
    <3>5. \/ issued'[r] = issued[r]
          \/ issued'[r] = issued[r] \cup {"completed"}
      BY <3>1, <3>4
    <3>6. Issued(issued'[r])
      <4>1. CASE issued'[r] = issued[r]
        BY <4>1, <3>2
      <4>2. CASE issued'[r] # issued[r]
        BY <4>2, <3>2, <3>3, <3>4, <3>5
      <4> QED
        BY <4>1, <4>2
    <3>7. entry'[r].final_ack => "penultimate" \in issued'[r]
      BY <3>1, <3>3, <3>5
    <3> QED
      BY <2>2, <3>1, <3>6, <3>7
  <2> QED
    BY <2>1, <2>2
<1>9. ASSUME NEW a \in Actors, NEW r \in Rooms, Removes(a, r) PROVE Goal
  BY <1>9, <1>a DEF Removes
<1>10. Goal
  <2> HIDE DEF Goal
  <2> QED
    BY <1>1, <1>2, <1>3, <1>4, <1>5, <1>6, <1>7, <1>8, <1>9 DEF Kind
<1> QED
  BY <1>10

\* The invariant of a mediator whose operators confirm trailing fees only.
SettledInv == Inv /\ FinalInv /\ OverInv /\ ReceiptInv

\* It is inductive as well.
LEMMA InitSettled == Init => SettledInv
<1> SUFFICES ASSUME Init PROVE SettledInv
  OBVIOUS
<1>1. Inv
  BY InitInv
<1>2. /\ \A r \in Rooms : entry[r] = NoRoom /\ outcomes[r] = {} /\ issued[r] = {}
      /\ \A a \in Actors : task[a] = Idle
  BY DEF Init
<1>3. \A a \in Actors, r \in Rooms : /\ ~Ends(task[a], r)
                                     /\ ~Late(task[a], r, "Complete")
  BY <1>2, IdleFacts DEF Ends, Late
<1>4. FinalInv /\ OverInv
  BY <1>2, <1>3 DEF FinalInv, OverInv, Decided
<1>5. ReceiptInv
  BY <1>2 DEF ReceiptInv, SettlementReceiptChained
<1> QED
  BY <1>1, <1>4, <1>5 DEF SettledInv

\* Every step preserves it.
LEMMA StepSettled ==
    ASSUME Trailing
    PROVE  SettledInv /\ [Next]_vars => SettledInv'
<1> SUFFICES ASSUME SettledInv, [Next]_vars PROVE SettledInv'
  OBVIOUS
<1>1. Inv' /\ Kind
  BY StepInv, NextKind DEF SettledInv, Inv
<1>2. FinalInv'
  BY <1>1, FinalStep DEF SettledInv, Inv
<1>3. OverInv'
  BY <1>1, OverStep DEF SettledInv, Inv
<1>4. ReceiptInv'
  BY <1>1, ReceiptStep DEF SettledInv, Inv
<1> QED
  BY <1>1, <1>2, <1>3, <1>4 DEF SettledInv

\* When the parties are told Complete the session is Complete, with the fee of
\* the offer, through crashes and failed writes. The hypothesis cannot be
\* dropped: try_confirm_fee_locked ends a room after an early fee too.
THEOREM CompleteIsSettled ==
    ASSUME Trailing
    PROVE  Spec => []CompleteMeansSettled
<1>1. SettledInv => CompleteMeansSettled
  BY DEF SettledInv, Inv, SessionInv, Fits, OverInv, Decided, Settled,
     CompleteMeansSettled
<1> QED
  BY <1>1, InitSettled, StepSettled, PTL DEF Spec

\* The settlement receipt that closes a trade always chains to the acknowledged
\* stage-3 receipt, also when crashes make the mediator forget receipts. Here
\* too the hypothesis is needed, for the same reason.
THEOREM ReceiptsChained ==
    ASSUME Trailing
    PROVE  Spec => []SettlementReceiptChained
<1>1. SettledInv => SettlementReceiptChained
  BY DEF SettledInv, ReceiptInv
<1> QED
  BY <1>1, InitSettled, StepSettled, PTL DEF Spec

=============================================================================

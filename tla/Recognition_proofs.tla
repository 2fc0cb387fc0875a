------------------------- MODULE Recognition_proofs -------------------------
(***************************************************************************)
(* What recognition guarantees for any number of rooms, keys, challenges,  *)
(* keystore files and identities, and any number of crashes, lost links    *)
(* and failed writes.                                                      *)
(*                                                                         *)
(* The properties rest on three facts that none of them states.  What      *)
(* happens once (a challenge from the peer, the end of a room) is in one   *)
(* place at a time: on the wire, with the worker, on the page, done        *)
(* (ChallengesInv, EndsInv).  A master secret lives at one path, and the   *)
(* open history is that of the loaded identity (HomeInv).  The open        *)
(* history is as good as its file, and as what the file should say         *)
(* (BlockedInv, CountedInv).                                               *)
(***************************************************************************)
EXTENDS Recognition, FiniteSetTheorems, TLAPS

Frames ==
    [type : {"challenge"}, room : Rooms, nonce : PeerNonces, key : {None},
     good : BOOLEAN]
      \cup [type : {"response"}, room : Rooms, nonce : Nonces, key : Keys,
            good : BOOLEAN]
      \cup [type : {"complete", "aborted"}, room : Rooms, nonce : {None},
            key : {None}, good : BOOLEAN]

Workers ==
    {Idle} \cup [pc : {"key"}, room : Rooms, what : PeerNonces]
           \cup [pc : {"report"}, room : Rooms, what : Keys]

SessionShapes ==
    /\ link \in BOOLEAN
    /\ live \in [Rooms -> {"fresh", "open", "over"}]
    /\ view \in [Rooms -> [status : {"none", "active", "complete", "aborted"},
                           fingerprint : Keys \cup {None},
                           incoming : PeerNonces \cup {None}]]
    /\ outstanding \subseteq [nonce : Nonces, room : Rooms]
    /\ asked \subseteq [nonce : Nonces, room : Rooms]
    /\ inbox \in Seq(Frames)
    /\ worker \in Workers

TrackerInv ==
    IsFiniteSet(outstanding) /\ Cardinality(outstanding) <= MaxOutstanding

IdentShapes ==
    /\ keystores \in [Paths -> Secrets \cup {None}]
    /\ identity \in Identities \cup {None}
    /\ persistent \in BOOLEAN
    /\ destroying \subseteq Paths
    /\ faults \in 0..MaxFaults

RecordShapes ==
    /\ histories \in [Paths -> Histories \cup {None}]
    /\ handle \in Handles \cup {None}

GhostShapes ==
    /\ failed \in BOOLEAN
    /\ signed \in [Rooms -> SUBSET Keys]
    /\ credits \subseteq [secret : Secrets, key : Keys, room : Rooms]
    /\ IsFiniteSet(credits)
    /\ answers \in [PeerNonces -> Nat]
    /\ wanted \in [Secrets -> [Keys -> SUBSET BOOLEAN]]

Shapes == SessionShapes /\ IdentShapes /\ RecordShapes /\ GhostShapes

-----------------------------------------------------------------------------
\* Where a challenge m of the counterparty is.
Carried(i, m) == inbox[i].type = "challenge" /\ inbox[i].nonce = m
Wired(m) == \E i \in 1..Len(inbox) : Carried(i, m)
Handled(m) == worker.pc = "key" /\ worker.what = m
Shown(r, m) == view[r].incoming = m

\* It is in one place at a time, in none before it is drawn and in none once it
\* is answered.
InOnePlace(m) ==
    /\ answers[m] <= 1
    /\ m \notin drawn \/ answers[m] = 1 =>
          ~Wired(m) /\ ~Handled(m) /\ \A r \in Rooms : ~Shown(r, m)
    /\ m \notin drawn => answers[m] = 0
    /\ \A i, j \in 1..Len(inbox) : Carried(i, m) /\ Carried(j, m) => i = j
    /\ Wired(m) => ~Handled(m) /\ \A r \in Rooms : ~Shown(r, m)
    /\ Handled(m) => \A r \in Rooms : ~Shown(r, m)
    /\ \A q, r \in Rooms : Shown(q, m) /\ Shown(r, m) => q = r

ChallengesInv == \A m \in PeerNonces : InOnePlace(m)

\* Where the end of room r is: on the wire, with the worker, or recorded.
EndsAt(i, r) == inbox[i].room = r /\ inbox[i].type \in {"complete", "aborted"}
Ending(r) == \E i \in 1..Len(inbox) : EndsAt(i, r)
Reported(r) == worker.pc = "report" /\ worker.room = r
Recorded(r) == \E c \in credits : c.room = r

\* It happens once.
EndsOnce(r) ==
    /\ live[r] # "over" => ~Ending(r) /\ ~Reported(r) /\ ~Recorded(r)
    /\ \A i, j \in 1..Len(inbox) : EndsAt(i, r) /\ EndsAt(j, r) => i = j
    /\ Ending(r) => ~Reported(r) /\ ~Recorded(r)
    /\ Reported(r) => ~Recorded(r)

EndsInv ==
    /\ \A r \in Rooms : EndsOnce(r)
    /\ \A c, d \in credits : c.room = d.room => c = d

\* Every fingerprint, wherever it is kept, is a key that signed in that room.
SignedInv ==
    /\ \A i \in 1..Len(inbox) :
          inbox[i].type = "response" /\ inbox[i].good
              => inbox[i].key \in signed[inbox[i].room]
    /\ \A r \in Rooms : view[r].fingerprint \in signed[r] \cup {None}
    /\ worker.pc = "report" => worker.what \in signed[worker.room]
    /\ \A c \in credits : c.key \in signed[c.room]

-----------------------------------------------------------------------------
\* Secret s lives at path p.
At(s, p) ==
    \/ keystores[p] = s
    \/ identity # None /\ identity.path = p /\ identity.secret = s
    \/ histories[p] # None /\ histories[p].secret = s

\* A master secret lives at one path only, since it is drawn once; the open
\* history is that of the identity, and its file is its own.
HomeInv ==
    /\ \A s \in Secrets, p, q \in Paths : At(s, p) /\ At(s, q) => p = q
    /\ \A s \in Secrets, p \in Paths : At(s, p) => s \in drawn
    /\ \A c \in credits : c.secret \in drawn
    /\ handle # None =>
          /\ identity # None
          /\ handle.path = identity.path /\ handle.secret = identity.secret
          /\ histories[handle.path] # None =>
                histories[handle.path].secret = handle.secret

\* Entries e block what the wishes w allow.
Heeds(e, w) == \A k \in Keys : e[k].blocked \in w[k]

BlockedInv ==
    /\ \A p \in Paths :
          histories[p] # None =>
              Heeds(histories[p].entries, wanted[histories[p].secret])
    /\ handle # None => Heeds(handle.entries, wanted[handle.secret])
    /\ \A s \in Secrets :
          (\A p \in Paths : histories[p] = None \/ histories[p].secret # s)
              => \A k \in Keys : FALSE \in wanted[s][k]

\* Entries e count what C says was earned in the name of s, or less.
Earned(C, s, k) == {c \in C : c.secret = s /\ c.key = k}

Counts(e, C, s, exactly) ==
    \A k \in Keys :
        /\ e[k].count <= Cardinality(Earned(C, s, k))
        /\ exactly => e[k].count = Cardinality(Earned(C, s, k))

CountedInv ==
    /\ \A p \in Paths :
          histories[p] # None =>
              Counts(histories[p].entries, credits, histories[p].secret, ~failed)
    /\ handle # None => Counts(handle.entries, credits, handle.secret, ~failed)
    /\ ~failed =>
          \A c \in credits :
              \E p \in Paths : histories[p] # None
                               /\ histories[p].secret = c.secret

Once == ChallengesInv /\ EndsInv /\ SignedInv
Files == HomeInv /\ BlockedInv /\ CountedInv
IndInv == Shapes /\ TrackerInv /\ Once /\ Files

-----------------------------------------------------------------------------
\* None is not one of the things it stands in for.
LEMMA NoneFacts ==
    /\ None \notin Keys /\ None \notin PeerNonces
    /\ None \notin Paths /\ None \notin Secrets
    /\ None \notin Histories /\ None \notin Handles /\ None \notin Identities
    /\ MaxOutstanding \in Nat /\ MaxFaults \in Nat
  BY RecognitionAssumption

\* What the worker is doing says what it does it with.
LEMMA WorkerFacts ==
    ASSUME worker \in Workers
    PROVE  /\ worker.pc = "key" => worker.room \in Rooms /\ worker.what \in PeerNonces
           /\ worker.pc = "report" => worker.room \in Rooms /\ worker.what \in Keys
  BY DEF Workers, Idle

\* The frame at the head of the inbox, and the frames behind it.
LEMMA HeadFacts ==
    ASSUME inbox \in Seq(Frames), inbox # <<>>
    PROVE  /\ Len(inbox) \in Nat /\ Len(inbox) > 0
           /\ Head(inbox) = inbox[1] /\ Head(inbox) \in Frames
           /\ Tail(inbox) \in Seq(Frames) /\ Len(Tail(inbox)) = Len(inbox) - 1
           /\ \A i \in 1..Len(Tail(inbox)) :
                 i + 1 \in 1..Len(inbox) /\ Tail(inbox)[i] = inbox[i + 1]
<1>1. Len(inbox) \in Nat /\ Len(inbox) > 0
  OBVIOUS
<1>2. Head(inbox) = inbox[1] /\ 1 \in 1..Len(inbox)
  BY <1>1
<1>3. Head(inbox) \in Frames
  BY <1>2
<1>4. Tail(inbox) \in Seq(Frames) /\ Len(Tail(inbox)) = Len(inbox) - 1
  BY <1>1
<1>5. \A i \in 1..Len(Tail(inbox)) :
         i + 1 \in 1..Len(inbox) /\ Tail(inbox)[i] = inbox[i + 1]
  BY <1>1, <1>4
<1> QED
  BY <1>1, <1>2, <1>3, <1>4, <1>5

\* The kinds of frames.
LEMMA FrameFacts ==
    ASSUME NEW f \in Frames
    PROVE  /\ f.room \in Rooms /\ f.good \in BOOLEAN
           /\ f.type = "challenge" => f.nonce \in PeerNonces
           /\ f.type = "response" => f.nonce \in Nonces /\ f.key \in Keys
           /\ f.type \in {"challenge", "response", "complete", "aborted"}
  BY DEF Frames

\* What a new frame does to the inbox.
LEMMA AppendFacts ==
    ASSUME inbox \in Seq(Frames), NEW f \in Frames, inbox' = Append(inbox, f)
    PROVE  /\ inbox' \in Seq(Frames)
           /\ Len(inbox) \in Nat /\ Len(inbox') = Len(inbox) + 1
           /\ inbox'[Len(inbox')] = f
           /\ \A i \in 1..Len(inbox') : \/ i \in 1..Len(inbox) /\ inbox'[i] = inbox[i]
                                        \/ i = Len(inbox') /\ inbox'[i] = f
  OBVIOUS

-----------------------------------------------------------------------------
(***************************************************************************)
(* Steps that leave one half of the state alone: nothing happens in any    *)
(* room (Quiet), or nothing to any file or identity (Still).               *)
(***************************************************************************)
Quiet ==
    /\ drawn \subseteq drawn'
    /\ UNCHANGED <<link, live, view, outstanding, asked, inbox, worker,
                   answers, signed, credits>>

Still ==
    /\ drawn \subseteq drawn'
    /\ UNCHANGED <<keystores, identity, histories, handle, failed, credits,
                   wanted>>

\* The steps of the rooms.
RoomStep ==
    \/ \E r \in Rooms :
          \/ OpenRoom(r)
          \/ EndRoom(r, "complete") \/ EndRoom(r, "aborted")
          \/ \E m \in PeerNonces : PeerChallenges(r, m) \/ SubmitResponse(r, m)
          \/ \E n \in Nonces : Recognize(r, n)
    \/ \E c \in asked, k \in Keys, good \in BOOLEAN : PeerAnswers(c, k, good)
    \/ HandleFrame \/ SendAnswer \/ Decline
    \/ ReportNothing \/ ReportUnreadable \/ LoseLink \/ Reconnect

\* The steps of the identity and its files.
FileStep ==
    \/ ListHistory
    \/ \E k \in Keys, b \in BOOLEAN : SetBlocked(k, b)
    \/ \E p \in Paths :
          \/ \E s \in Secrets : CreateIdentity(p, s)
          \/ UnlockIdentity(p)
          \/ DestroyFile(p) \/ ForgetDestroyed(p)
    \/ LockIdentity \/ SetTier

\* A step belongs to one half, or is one of three that belong to both.
LEMMA StepCases ==
    ASSUME [Next]_vars
    PROVE  RoomStep \/ FileStep \/ Report \/ ReportUnsaved \/ Crash
           \/ UNCHANGED vars
  BY DEF Next, RoomStep, FileStep

\* The steps of the files are quiet.
LEMMA FileStepQuiet ==
    ASSUME FileStep \/ UNCHANGED vars
    PROVE  Quiet
<1>1. ListHistory => Quiet
  BY DEF ListHistory, Quiet, session, ghosts
<1>2. \A k \in Keys, b \in BOOLEAN : SetBlocked(k, b) => Quiet
  BY DEF SetBlocked, Quiet, session
<1>3. \A p \in Paths, s \in Secrets : CreateIdentity(p, s) => Quiet
  BY DEF CreateIdentity, Quiet, ghosts
<1>4. \A p \in Paths : UnlockIdentity(p) \/ DestroyFile(p) \/ ForgetDestroyed(p)
                           => Quiet
  BY DEF UnlockIdentity, DestroyFile, ForgetDestroyed, Quiet, session, ghosts
<1>5. LockIdentity \/ SetTier => Quiet
  BY DEF LockIdentity, SetTier, Quiet, session, ghosts
<1>6. UNCHANGED vars => Quiet
  BY DEF vars, Quiet, session, ghosts
<1> QED
  BY <1>1, <1>2, <1>3, <1>4, <1>5, <1>6 DEF FileStep

\* The steps of the rooms are still.
LEMMA RoomStepStill ==
    ASSUME RoomStep \/ UNCHANGED vars
    PROVE  Still
<1>1. \A r \in Rooms : OpenRoom(r) \/ EndRoom(r, "complete") \/ EndRoom(r, "aborted")
                           => Still
  BY DEF OpenRoom, EndRoom, Still, ident, records, ghosts
<1>2. \A r \in Rooms, m \in PeerNonces : PeerChallenges(r, m) => Still
  BY DEF PeerChallenges, Still, ident, records, ghosts
<1>3. \A r \in Rooms, m \in PeerNonces : SubmitResponse(r, m) => Still
  BY DEF SubmitResponse, Still, ident, records
<1>4. \A r \in Rooms, n \in Nonces : Recognize(r, n) => Still
  BY DEF Recognize, Still, ident, records, ghosts
<1>5. \A c \in asked, k \in Keys, good \in BOOLEAN : PeerAnswers(c, k, good) => Still
  BY DEF PeerAnswers, Still, ident, records
<1>6. HandleFrame => Still
  BY DEF HandleFrame, Still, ident, records, ghosts
<1>7. SendAnswer \/ Decline => Still
  BY DEF SendAnswer, Decline, Still, session, ident, records, ghosts
<1>8. ReportNothing \/ ReportUnreadable \/ LoseLink \/ Reconnect => Still
  BY DEF ReportNothing, ReportUnreadable, LoseLink, Reconnect, Disconnected, Still,
     session, ident, records, ghosts
<1>9. UNCHANGED vars => Still
  BY DEF vars, Still, session, ident, records, ghosts
<1> QED
  BY <1>1, <1>2, <1>3, <1>4, <1>5, <1>6, <1>7, <1>8, <1>9 DEF RoomStep

-----------------------------------------------------------------------------
\* Every step keeps the types of what the worker and the page show.
LEMMA SessionShapesStep ==
    ASSUME Shapes, [Next]_vars
    PROVE  SessionShapes'
<1> DEFINE Views == [status : {"none", "active", "complete", "aborted"},
                     fingerprint : Keys \cup {None},
                     incoming : PeerNonces \cup {None}]
           Asks == [nonce : Nonces, room : Rooms]
           Goal == /\ link' \in BOOLEAN
                   /\ live' \in [Rooms -> {"fresh", "open", "over"}]
                   /\ view' \in [Rooms -> Views]
                   /\ outstanding' \subseteq Asks
                   /\ asked' \subseteq Asks
                   /\ inbox' \in Seq(Frames)
                   /\ worker' \in Workers
<1> USE DEF Shapes, SessionShapes
<1>1. NoView \in Views /\ Idle \in Workers /\ inbox \in Seq(Frames)
  BY DEF NoView, Workers
<1>2. <<>> \in Seq(Frames)
  OBVIOUS
<1>3. ASSUME Quiet PROVE Goal
  BY <1>3 DEF Quiet
<1>4. ASSUME NEW r \in Rooms, OpenRoom(r) PROVE Goal
  BY <1>4 DEF OpenRoom
<1>5. ASSUME NEW r \in Rooms, NEW t \in {"complete", "aborted"}, EndRoom(r, t)
      PROVE  Goal
  <2>1. Frame(t, r, None, None, TRUE) \in Frames
    BY DEF Frame, Frames
  <2>2. inbox' \in Seq(Frames)
    BY <1>1, <1>5, <2>1, AppendFacts DEF EndRoom
  <2> QED
    BY <1>5, <2>2 DEF EndRoom
<1>6. ASSUME NEW r \in Rooms, NEW m \in PeerNonces, PeerChallenges(r, m)
      PROVE  Goal
  <2>1. Frame("challenge", r, m, None, TRUE) \in Frames
    BY DEF Frame, Frames
  <2>2. inbox' \in Seq(Frames)
    BY <1>1, <1>6, <2>1, AppendFacts DEF PeerChallenges
  <2> QED
    BY <1>6, <2>2 DEF PeerChallenges
<1>7. ASSUME NEW r \in Rooms, NEW m \in PeerNonces, SubmitResponse(r, m)
      PROVE  Goal
  <2>1. view' = [view EXCEPT ![r].incoming = None]
        /\ UNCHANGED <<link, live, outstanding, asked, inbox, worker>>
    BY <1>7 DEF SubmitResponse
  <2>2. view' \in [Rooms -> Views]
    BY <2>1
  <2> QED
    BY <2>1, <2>2
<1>8. ASSUME NEW r \in Rooms, NEW n \in Nonces, Recognize(r, n) PROVE Goal
  BY <1>8 DEF Recognize, Issued
<1>9. ASSUME NEW c \in asked, NEW k \in Keys, NEW good \in BOOLEAN,
             PeerAnswers(c, k, good)
      PROVE  Goal
  <2>1. c.room \in Rooms /\ c.nonce \in Nonces
    OBVIOUS
  <2>2. Frame("response", c.room, c.nonce, k, good) \in Frames
    BY <2>1 DEF Frame, Frames
  <2>3. inbox' \in Seq(Frames)
    BY <1>9, <2>2 DEF PeerAnswers
  <2> QED
    BY <1>9, <2>3 DEF PeerAnswers
<1>10. ASSUME HandleFrame PROVE Goal
  <2> DEFINE f == Head(inbox)
  <2>1. f \in Frames /\ inbox' = Tail(inbox) /\ inbox' \in Seq(Frames)
    BY <1>10, HeadFacts DEF HandleFrame
  <2>2. /\ f.room \in Rooms
        /\ f.type = "challenge" => f.nonce \in PeerNonces
        /\ f.type = "response" => f.nonce \in Nonces /\ f.key \in Keys
        /\ f.type \in {"challenge", "response", "complete", "aborted"}
    BY <2>1, FrameFacts
  <2> HIDE DEF f
  <2>3. link' = link /\ live' = live /\ asked' = asked
    BY <1>10 DEF HandleFrame
  <2>4. CASE f.type = "challenge"
    <3>1. /\ worker' = [pc |-> "key", room |-> f.room, what |-> f.nonce]
          /\ view' = view /\ outstanding' = outstanding
      BY <1>10, <2>4 DEF HandleFrame, f
    <3>2. worker' \in Workers
      BY <2>2, <2>4, <3>1 DEF Workers
    <3> QED
      BY <2>1, <2>3, <3>1, <3>2
  <2>5. CASE f.type = "response"
    <3>1. /\ worker' = worker /\ outstanding' = Consumed(f)
          /\ view' = view \/ view' = [view EXCEPT ![f.room].fingerprint = f.key]
      BY <1>10, <2>5 DEF HandleFrame, Recognized, f
    <3>2. f.room \in Rooms /\ f.key \in Keys
      BY <2>2, <2>5
    <3>3. view' \in [Rooms -> Views]
      <4>1. CASE view' = view
        BY <4>1
      <4>2. CASE view' = [view EXCEPT ![f.room].fingerprint = f.key]
        <5>1. [view[f.room] EXCEPT !.fingerprint = f.key] \in Views
          BY <3>2
        <5> QED
          BY <3>2, <4>2, <5>1
      <4> QED
        BY <3>1, <4>1, <4>2
    <3>4. outstanding' \subseteq Asks
      BY <3>1 DEF Consumed
    <3> QED
      BY <2>1, <2>3, <3>1, <3>3, <3>4
  <2>6. CASE f.type \in {"complete", "aborted"}
    <3>1. /\ view' = [view EXCEPT ![f.room].status = f.type]
          /\ outstanding' = outstanding
          /\ worker' = IF view[f.room].fingerprint = None THEN Idle
                       ELSE [pc |-> "report", room |-> f.room,
                             what |-> view[f.room].fingerprint]
      BY <1>10, <2>6 DEF HandleFrame, f
    <3>2. worker' \in Workers
      BY <1>1, <2>2, <3>1 DEF Workers
    <3>3. view' \in [Rooms -> Views]
      <4>1. [view[f.room] EXCEPT !.status = f.type] \in Views
        BY <2>2, <2>6
      <4> QED
        BY <2>2, <3>1, <4>1
    <3> QED
      BY <2>1, <2>3, <3>1, <3>2, <3>3
  <2> QED
    BY <2>2, <2>4, <2>5, <2>6
<1>11. ASSUME SendAnswer PROVE Goal
  BY <1>1, <1>11 DEF SendAnswer, session
<1>12. ASSUME Decline PROVE Goal
  BY <1>1, <1>12, WorkerFacts DEF Decline
<1>13. ASSUME Report \/ ReportNothing PROVE Goal
  BY <1>1, <1>13 DEF Report, ReportNothing, session
<1>14. ASSUME Disconnected, UNCHANGED view PROVE Goal
  BY <1>1, <1>2, <1>14 DEF Disconnected
<1>15. ASSUME Reconnect PROVE Goal
  BY <1>1, <1>15 DEF Reconnect
<1>16. ASSUME Crash PROVE Goal
  BY <1>1, <1>2, <1>16 DEF Crash
<1>17. ReportUnsaved \/ ReportUnreadable \/ LoseLink => Disconnected /\ UNCHANGED view
  BY DEF ReportUnsaved, ReportUnreadable, LoseLink
<1>18. Goal
  <2> HIDE DEF Goal
  <2>1. RoomStep => Goal
    BY <1>4, <1>5, <1>6, <1>7, <1>8, <1>9, <1>10, <1>11, <1>12, <1>13, <1>14,
       <1>15, <1>17 DEF RoomStep
  <2> QED
    BY <1>3, <1>13, <1>14, <1>16, <1>17, <2>1, StepCases, FileStepQuiet
<1> QED
  BY <1>18

\* The tracker never holds more than kRecognitionMaxOutstandingChallenges.
LEMMA TrackerStep ==
    ASSUME Shapes, TrackerInv, [Next]_vars
    PROVE  TrackerInv'
<1> USE NoneFacts
<1>0. IsFiniteSet(outstanding) /\ Cardinality(outstanding) \in Nat
  BY FS_CardinalityType DEF TrackerInv
<1>1. ASSUME outstanding' \subseteq outstanding PROVE TrackerInv'
  <2>1. IsFiniteSet(outstanding') /\ Cardinality(outstanding') <= Cardinality(outstanding)
    BY <1>0, <1>1, FS_Subset
  <2>2. Cardinality(outstanding') \in Nat
    BY <2>1, FS_CardinalityType
  <2> QED
    BY <1>0, <2>1, <2>2 DEF TrackerInv
<1>2. ASSUME NEW r \in Rooms, NEW n \in Nonces, Recognize(r, n) PROVE TrackerInv'
  <2> DEFINE c == [nonce |-> n, room |-> r]
  <2>1. /\ IsFiniteSet(outstanding \cup {c})
        /\ \/ Cardinality(outstanding \cup {c}) = Cardinality(outstanding)
           \/ Cardinality(outstanding \cup {c}) = Cardinality(outstanding) + 1
    BY <1>0, FS_AddElement
  <2>2. outstanding' = outstanding \cup {c} /\ Cardinality(outstanding) < MaxOutstanding
    BY <1>2 DEF Recognize, Issued
  <2> HIDE DEF c
  <2> QED
    BY <1>0, <2>1, <2>2 DEF TrackerInv
<1>3. HandleFrame => outstanding' \subseteq outstanding
  BY DEF HandleFrame, Consumed
<1>4. SendAnswer \/ Decline \/ ReportNothing \/ ReportUnreadable \/ LoseLink
         \/ Reconnect \/ Report \/ ReportUnsaved \/ Crash
         => outstanding' \subseteq outstanding
  BY DEF SendAnswer, Decline, ReportNothing, ReportUnreadable, LoseLink, Reconnect,
     Report, ReportUnsaved, Crash, Disconnected, session
<1>5. \A r \in Rooms, m \in PeerNonces :
         OpenRoom(r) \/ EndRoom(r, "complete") \/ EndRoom(r, "aborted")
         \/ PeerChallenges(r, m) \/ SubmitResponse(r, m)
         => outstanding' \subseteq outstanding
  BY DEF OpenRoom, EndRoom, PeerChallenges, SubmitResponse
<1>6. \A r \in Rooms : OpenRoom(r) \/ EndRoom(r, "complete") \/ EndRoom(r, "aborted")
         => outstanding' \subseteq outstanding
  BY DEF OpenRoom, EndRoom
<1>7. \A c \in asked, k \in Keys, good \in BOOLEAN :
         PeerAnswers(c, k, good) => outstanding' \subseteq outstanding
  BY DEF PeerAnswers
<1>8. RoomStep => TrackerInv'
  BY <1>1, <1>2, <1>3, <1>4, <1>5, <1>6, <1>7 DEF RoomStep
<1>9. Quiet => outstanding' \subseteq outstanding
  BY DEF Quiet
<1> QED
  BY <1>1, <1>4, <1>8, <1>9, StepCases, FileStepQuiet

-----------------------------------------------------------------------------
\* The history that a request works on: the open one, or the file beside the
\* keystore, or a new one.
LEMMA OpenedFacts ==
    ASSUME Shapes, HomeInv, Opens
    PROVE  /\ identity \in Identities /\ Secret \in Secrets
           /\ Opened \in Handles
           /\ Opened.path = identity.path /\ Opened.secret = Secret
           /\ histories[Opened.path] # None => histories[Opened.path].secret = Secret
           /\ handle # None => Opened.entries = handle.entries
           /\ handle = None /\ histories[Opened.path] # None
                 => Opened.entries = histories[Opened.path].entries
           /\ handle = None /\ histories[Opened.path] = None
                 => Opened.entries = NoEntries
<1> USE NoneFacts DEF Shapes, IdentShapes, RecordShapes
<1>1. identity \in Identities /\ Secret \in Secrets /\ identity.path \in Paths
  BY DEF Opens, Unlocked, Secret, Identities
<1>2. NoEntries \in Entries
  BY DEF NoEntries, Entries
<1>3. CASE handle # None
  BY <1>1, <1>3 DEF Opened, HomeInv, Secret
<1>4. CASE handle = None /\ histories[identity.path] = None
  BY <1>1, <1>2, <1>4 DEF Opened, Handles
<1>5. CASE handle = None /\ histories[identity.path] # None
  <2>1. histories[identity.path] \in Histories
    BY <1>1, <1>5
  <2>2. histories[identity.path].entries \in Entries
    BY <2>1 DEF Histories
  <2>3. histories[identity.path].secret = Secret
    BY <1>5 DEF Opens
  <2> QED
    BY <1>1, <1>5, <2>2, <2>3 DEF Opened, Handles
<1> QED
  BY <1>3, <1>4, <1>5

\* Blocking a key changes that of its entry and nothing else.
LEMMA BlockFacts ==
    ASSUME NEW h \in Handles, NEW k \in Keys, NEW b \in BOOLEAN,
           NEW g, g = [h EXCEPT !.entries[k].blocked = b]
    PROVE  /\ g \in Handles /\ g.path = h.path /\ g.secret = h.secret
           /\ g.entries[k].blocked = b
           /\ \A j \in Keys : /\ g.entries[j].count = h.entries[j].count
                              /\ j # k => g.entries[j] = h.entries[j]
<1>1. h.entries \in Entries /\ h.path \in Paths /\ h.secret \in Secrets
  BY DEF Handles
<1>2. h.entries[k] \in [count : Nat, blocked : BOOLEAN]
  BY <1>1 DEF Entries
<1>3. [h.entries EXCEPT ![k].blocked = b] \in Entries
  BY <1>1, <1>2 DEF Entries
<1> QED
  BY <1>1, <1>2, <1>3 DEF Handles, Entries

\* Counting an encounter changes that of its entry and nothing else.
LEMMA CountFacts ==
    ASSUME NEW h \in Handles, NEW k \in Keys,
           NEW g, g = [h EXCEPT !.entries[k].count = @ + 1]
    PROVE  /\ g \in Handles /\ g.path = h.path /\ g.secret = h.secret
           /\ g.entries[k].count = h.entries[k].count + 1
           /\ \A j \in Keys : /\ g.entries[j].blocked = h.entries[j].blocked
                              /\ j # k => g.entries[j] = h.entries[j]
<1>1. h.entries \in Entries /\ h.path \in Paths /\ h.secret \in Secrets
  BY DEF Handles
<1>2. h.entries[k] \in [count : Nat, blocked : BOOLEAN]
  BY <1>1 DEF Entries
<1>3. [h.entries EXCEPT ![k].count = @ + 1] \in Entries
  BY <1>1, <1>2 DEF Entries
<1> QED
  BY <1>1, <1>2, <1>3 DEF Handles, Entries

\* Every step keeps the types of the identity.
LEMMA IdentShapesStep ==
    ASSUME Shapes, [Next]_vars
    PROVE  IdentShapes'
<1> USE NoneFacts DEF Shapes, IdentShapes
<1>1. ASSUME NEW p \in Paths, NEW s \in Secrets, CreateIdentity(p, s)
      PROVE  IdentShapes'
  BY <1>1 DEF CreateIdentity, Identities
<1>2. ASSUME NEW p \in Paths, UnlockIdentity(p) PROVE IdentShapes'
  <2>1. Loaded(p) \in Identities
    BY <1>2 DEF UnlockIdentity, Loaded, Identities
  <2> QED
    BY <1>2, <2>1 DEF UnlockIdentity
<1>3. ASSUME NEW p \in Paths, DestroyFile(p) \/ ForgetDestroyed(p)
      PROVE  IdentShapes'
  BY <1>3 DEF DestroyFile, ForgetDestroyed
<1>4. ASSUME LockIdentity PROVE IdentShapes'
  <2>1. [identity EXCEPT !.unlocked = FALSE] \in Identities
    BY <1>4 DEF LockIdentity, Unlocked, Identities
  <2> QED
    BY <1>4, <2>1 DEF LockIdentity
<1>5. ASSUME SetTier \/ ListHistory PROVE IdentShapes'
  BY <1>5 DEF SetTier, ListHistory, ident
<1>6. ASSUME NEW k \in Keys, NEW b \in BOOLEAN, SetBlocked(k, b) PROVE IdentShapes'
  <2>0. \E h : PersistFails(h) \/ UNCHANGED faults
    BY <1>6 DEF SetBlocked
  <2>1. faults' = faults \/ (faults < MaxFaults /\ faults' = faults + 1)
    BY <2>0 DEF PersistFails
  <2>2. UNCHANGED ident
    BY <1>6 DEF SetBlocked
  <2> QED
    BY <2>1, <2>2 DEF ident
<1>7. ASSUME Report \/ ReportUnsaved PROVE IdentShapes'
  BY <1>7 DEF Report, ReportUnsaved, PersistFails, ident
<1>8. ASSUME Crash PROVE IdentShapes'
  <2>1. /\ faults < MaxFaults /\ faults' = faults + 1
        /\ identity' = None /\ persistent' = FALSE /\ destroying' = {}
        /\ UNCHANGED keystores
    BY <1>8 DEF Crash
  <2>2. faults' \in 0..MaxFaults
    BY <2>1
  <2>3. /\ keystores' \in [Paths -> Secrets \cup {None}]
        /\ identity' \in Identities \cup {None}
        /\ persistent' \in BOOLEAN /\ destroying' \subseteq Paths
    BY <2>1
  <2> QED
    BY <2>2, <2>3
<1>9. ASSUME UNCHANGED <<ident, faults>> PROVE IdentShapes'
  BY <1>9 DEF ident
<1>10. ASSUME LoseLink PROVE IdentShapes'
  BY <1>10 DEF LoseLink, ident
<1>11. RoomStep => LoseLink \/ UNCHANGED <<ident, faults>>
  <2>1. \A r \in Rooms : OpenRoom(r) \/ EndRoom(r, "complete") \/ EndRoom(r, "aborted")
           => UNCHANGED <<ident, faults>>
    BY DEF OpenRoom, EndRoom
  <2>2. \A r \in Rooms, m \in PeerNonces : PeerChallenges(r, m) \/ SubmitResponse(r, m)
           => UNCHANGED <<ident, faults>>
    BY DEF PeerChallenges, SubmitResponse
  <2>3. \A r \in Rooms, n \in Nonces : Recognize(r, n) => UNCHANGED <<ident, faults>>
    BY DEF Recognize
  <2>4. \A c \in asked, k \in Keys, good \in BOOLEAN :
           PeerAnswers(c, k, good) => UNCHANGED <<ident, faults>>
    BY DEF PeerAnswers
  <2>5. HandleFrame \/ SendAnswer \/ Decline \/ ReportNothing \/ ReportUnreadable
        \/ Reconnect => UNCHANGED <<ident, faults>>
    BY DEF HandleFrame, SendAnswer, Decline, ReportNothing, ReportUnreadable, Reconnect
  <2> QED
    BY <2>1, <2>2, <2>3, <2>4, <2>5 DEF RoomStep
<1>12. UNCHANGED vars => UNCHANGED <<ident, faults>>
  BY DEF vars
<1>13. FileStep => IdentShapes'
  <2> HIDE DEF IdentShapes
  <2> QED
    BY <1>1, <1>2, <1>3, <1>4, <1>5, <1>6 DEF FileStep
<1> QED
  BY <1>7, <1>8, <1>9, <1>10, <1>11, <1>12, <1>13, StepCases

\* A write, or one that fails, keeps the types of the history and its files.
LEMMA WriteShapes ==
    ASSUME Shapes, NEW h \in Handles, Persist(h) \/ PersistFails(h)
    PROVE  RecordShapes'
<1>1. h.path \in Paths /\ [secret |-> h.secret, entries |-> h.entries] \in Histories
  BY DEF Handles, Histories
<1>2. CASE Persist(h)
  BY <1>1, <1>2 DEF Persist, Shapes, RecordShapes
<1>3. CASE PersistFails(h)
  BY <1>3 DEF PersistFails, Shapes, RecordShapes
<1> QED
  BY <1>2, <1>3

\* Every step keeps the types of the history and its files.
LEMMA RecordShapesStep ==
    ASSUME Shapes, HomeInv, [Next]_vars
    PROVE  RecordShapes'
<1> USE NoneFacts
<1>1. ASSUME UNCHANGED histories, handle' \in {handle, None} PROVE RecordShapes'
  BY <1>1 DEF Shapes, RecordShapes
<1>2. RoomStep \/ UNCHANGED vars => UNCHANGED histories /\ handle' \in {handle, None}
  BY RoomStepStill DEF Still
<1>3. \A p \in Paths, s \in Secrets : CreateIdentity(p, s)
         => UNCHANGED histories /\ handle' \in {handle, None}
  BY DEF CreateIdentity
<1>4. \A p \in Paths : UnlockIdentity(p) \/ DestroyFile(p) \/ ForgetDestroyed(p)
         => UNCHANGED histories /\ handle' \in {handle, None}
  BY DEF UnlockIdentity, DestroyFile, ForgetDestroyed, records
<1>5. LockIdentity \/ SetTier \/ Crash
         => UNCHANGED histories /\ handle' \in {handle, None}
  BY DEF LockIdentity, SetTier, Crash, records
<1>6. ListHistory => RecordShapes'
  BY OpenedFacts DEF ListHistory, Shapes, RecordShapes
<1>7. ASSUME NEW k \in Keys, NEW b \in BOOLEAN, SetBlocked(k, b) PROVE RecordShapes'
  <2>1. Opens /\ Opened \in Handles
    BY <1>7, OpenedFacts DEF SetBlocked
  <2>2. [Opened EXCEPT !.entries[k].blocked = b] \in Handles
    BY <2>1, BlockFacts
  <2> QED
    BY <1>7, <2>2, WriteShapes DEF SetBlocked
<1>8. ASSUME Report \/ ReportUnsaved PROVE RecordShapes'
  <2>1. Opens /\ Opened \in Handles
    BY <1>8, OpenedFacts DEF Report, ReportUnsaved
  <2>2. worker.what \in Keys
    BY <1>8, WorkerFacts DEF Report, ReportUnsaved, Shapes, SessionShapes
  <2>3. Counted \in Handles
    BY <2>1, <2>2, CountFacts DEF Counted
  <2> QED
    BY <1>8, <2>3, WriteShapes DEF Report, ReportUnsaved
<1>9. FileStep => RecordShapes'
  BY <1>1, <1>3, <1>4, <1>5, <1>6, <1>7 DEF FileStep
<1> QED
  BY <1>1, <1>2, <1>5, <1>8, <1>9, StepCases

\* Every step keeps the types of the history variables.
LEMMA GhostShapesStep ==
    ASSUME Shapes, HomeInv, [Next]_vars
    PROVE  GhostShapes'
<1> USE DEF GhostShapes
<1>0. GhostShapes /\ worker \in Workers
  BY DEF Shapes, SessionShapes
<1>1. ASSUME UNCHANGED ghosts PROVE GhostShapes'
  BY <1>0, <1>1 DEF ghosts
<1>2. ASSUME NEW c \in asked, NEW k \in Keys, NEW good \in BOOLEAN,
             PeerAnswers(c, k, good)
      PROVE  GhostShapes'
  <2>1. c.room \in Rooms
    BY DEF Shapes, SessionShapes
  <2>2. signed' \in [Rooms -> SUBSET Keys]
    BY <1>0, <1>2, <2>1 DEF PeerAnswers
  <2>3. UNCHANGED <<failed, credits, answers, wanted>>
    BY <1>2 DEF PeerAnswers
  <2> QED
    BY <1>0, <2>2, <2>3
<1>3. ASSUME NEW m \in PeerNonces,
             answers' = [answers EXCEPT ![m] = @ + 1] \/ answers' = answers,
             UNCHANGED <<failed, signed, credits, wanted>>
      PROVE  GhostShapes'
  <2>1. answers' \in [PeerNonces -> Nat]
    BY <1>0, <1>3
  <2> QED
    BY <1>0, <1>3, <2>1
<1>4. ASSUME NEW r \in Rooms, NEW m \in PeerNonces, SubmitResponse(r, m)
      PROVE  GhostShapes'
  BY <1>3, <1>4 DEF SubmitResponse
<1>5. ASSUME SendAnswer PROVE GhostShapes'
  BY <1>0, <1>3, <1>5, WorkerFacts DEF SendAnswer
<1>6. ASSUME NEW k \in Keys, NEW b \in BOOLEAN, SetBlocked(k, b)
      PROVE  GhostShapes'
  <2>1. Secret \in Secrets
    BY <1>6, OpenedFacts DEF SetBlocked
  <2>2. \/ wanted' = [wanted EXCEPT ![Secret][k] = {b}]
        \/ wanted' = [wanted EXCEPT ![Secret][k] = @ \cup {b}]
    BY <1>6 DEF SetBlocked
  <2>3. wanted' \in [Secrets -> [Keys -> SUBSET BOOLEAN]]
    BY <1>0, <2>1, <2>2
  <2>4. \E h : UNCHANGED failed \/ PersistFails(h)
    BY <1>6 DEF SetBlocked
  <2>5. failed' \in BOOLEAN
    BY <1>0, <2>4 DEF PersistFails
  <2>6. UNCHANGED <<signed, credits, answers>>
    BY <1>6 DEF SetBlocked
  <2> QED
    BY <1>0, <2>3, <2>5, <2>6
<1>7. ASSUME Report \/ ReportUnsaved PROVE GhostShapes'
  <2>1. /\ Secret \in Secrets /\ worker.what \in Keys /\ worker.room \in Rooms
    BY <1>0, <1>7, OpenedFacts, WorkerFacts DEF Report, ReportUnsaved
  <2>2. Credit \in [secret : Secrets, key : Keys, room : Rooms]
    BY <2>1 DEF Credit
  <2>3. credits' = credits \cup {Credit} /\ UNCHANGED <<signed, answers, wanted>>
    BY <1>7 DEF Report, ReportUnsaved
  <2>4. IsFiniteSet(credits')
    BY <1>0, <2>3, FS_AddElement
  <2>5. failed' \in BOOLEAN
    BY <1>0, <1>7 DEF Report, ReportUnsaved, PersistFails
  <2> QED
    BY <1>0, <2>2, <2>3, <2>4, <2>5
<1>8. \A r \in Rooms : OpenRoom(r) \/ EndRoom(r, "complete") \/ EndRoom(r, "aborted")
         => UNCHANGED ghosts
  BY DEF OpenRoom, EndRoom
<1>9. \A r \in Rooms, m \in PeerNonces : PeerChallenges(r, m) => UNCHANGED ghosts
  BY DEF PeerChallenges
<1>10. \A r \in Rooms, n \in Nonces : Recognize(r, n) => UNCHANGED ghosts
  BY DEF Recognize
<1>11. HandleFrame \/ Decline \/ ReportNothing \/ ReportUnreadable \/ LoseLink
       \/ Reconnect \/ Crash \/ ListHistory \/ LockIdentity \/ SetTier
       \/ UNCHANGED vars => UNCHANGED ghosts
  BY DEF HandleFrame, Decline, ReportNothing, ReportUnreadable, LoseLink, Reconnect,
     Crash, ListHistory, LockIdentity, SetTier, vars
<1>12. \A p \in Paths, s \in Secrets : CreateIdentity(p, s) => UNCHANGED ghosts
  BY DEF CreateIdentity
<1>13. \A p \in Paths : UnlockIdentity(p) \/ DestroyFile(p) \/ ForgetDestroyed(p)
          => UNCHANGED ghosts
  BY DEF UnlockIdentity, DestroyFile, ForgetDestroyed
<1> HIDE DEF GhostShapes
<1>14. RoomStep => GhostShapes'
  BY <1>1, <1>2, <1>4, <1>5, <1>8, <1>9, <1>10, <1>11 DEF RoomStep
<1>15. FileStep => GhostShapes'
  BY <1>1, <1>6, <1>11, <1>12, <1>13 DEF FileStep
<1> QED
  BY <1>1, <1>7, <1>11, <1>14, <1>15, StepCases

-----------------------------------------------------------------------------
\* A step that only takes challenges away leaves each in one place.
LEMMA ChallengesLost ==
    ASSUME Shapes, ChallengesInv,
           inbox' = inbox \/ inbox' = <<>>,
           worker' = worker \/ worker'.pc # "key",
           \A r \in Rooms : view'[r].incoming \in {view[r].incoming, None},
           answers' = answers, drawn \subseteq drawn'
    PROVE  ChallengesInv'
<1> SUFFICES ASSUME NEW m \in PeerNonces PROVE InOnePlace(m)'
  BY DEF ChallengesInv
<1>1. InOnePlace(m)
  BY DEF ChallengesInv
<1>2. \A i \in 1..Len(inbox') : Carried(i, m)' => i \in 1..Len(inbox) /\ Carried(i, m)
  BY DEF Carried
<1>3. Wired(m)' => Wired(m)
  BY <1>2 DEF Wired
<1>4. Handled(m)' => Handled(m)
  BY DEF Handled
<1>5. \A r \in Rooms : Shown(r, m)' => Shown(r, m)
  BY NoneFacts DEF Shown
<1> QED
  BY <1>1, <1>2, <1>3, <1>4, <1>5 DEF InOnePlace

\* A frame that is no challenge changes nothing about them.
LEMMA ChallengesSent ==
    ASSUME Shapes, ChallengesInv,
           NEW f \in Frames, f.type # "challenge", inbox' = Append(inbox, f),
           UNCHANGED <<worker, view, answers, drawn>>
    PROVE  ChallengesInv'
<1> SUFFICES ASSUME NEW m \in PeerNonces PROVE InOnePlace(m)'
  BY DEF ChallengesInv
<1>1. InOnePlace(m)
  BY DEF ChallengesInv
<1>2. \A i \in 1..Len(inbox') : Carried(i, m)' => i \in 1..Len(inbox) /\ Carried(i, m)
  BY AppendFacts DEF Carried, Shapes, SessionShapes
<1>3. Wired(m)' => Wired(m)
  BY <1>2 DEF Wired
<1>4. Handled(m)' = Handled(m) /\ \A r \in Rooms : Shown(r, m)' = Shown(r, m)
  BY DEF Handled, Shown
<1> QED
  BY <1>1, <1>2, <1>3, <1>4 DEF InOnePlace

\* A new challenge was nowhere before.
LEMMA ChallengesDrawn ==
    ASSUME Shapes, ChallengesInv,
           NEW q \in Rooms, NEW n \in PeerNonces, PeerChallenges(q, n)
    PROVE  ChallengesInv'
<1> SUFFICES ASSUME NEW m \in PeerNonces PROVE InOnePlace(m)'
  BY DEF ChallengesInv
<1> DEFINE f == Frame("challenge", q, n, None, TRUE)
<1>1. InOnePlace(m)
  BY DEF ChallengesInv
<1>2. /\ f \in Frames /\ f.type = "challenge" /\ f.nonce = n
      /\ inbox' = Append(inbox, f) /\ inbox \in Seq(Frames)
      /\ n \notin drawn /\ drawn' = drawn \cup {n}
      /\ UNCHANGED <<worker, view, answers>>
  BY DEF Frame, Frames, PeerChallenges, ghosts, Shapes, SessionShapes
<1> HIDE DEF f
<1>3. Handled(m)' = Handled(m) /\ \A r \in Rooms : Shown(r, m)' = Shown(r, m)
  BY <1>2 DEF Handled, Shown
<1>4. CASE m # n
  <2>1. \A i \in 1..Len(inbox') : Carried(i, m)' => i \in 1..Len(inbox) /\ Carried(i, m)
    BY <1>2, <1>4, AppendFacts DEF Carried
  <2>2. Wired(m)' => Wired(m)
    BY <2>1 DEF Wired
  <2> QED
    BY <1>1, <1>2, <1>3, <1>4, <2>1, <2>2 DEF InOnePlace
<1>5. CASE m = n
  <2>1. ~Wired(m) /\ ~Handled(m) /\ \A r \in Rooms : ~Shown(r, m)
    BY <1>1, <1>2, <1>5 DEF InOnePlace
  <2>2. \A i \in 1..Len(inbox') : Carried(i, m)' => i = Len(inbox')
    BY <1>2, <2>1, AppendFacts DEF Carried, Wired
  <2>3. answers'[m] = 0 /\ m \in drawn'
    BY <1>1, <1>2, <1>5 DEF InOnePlace
  <2> QED
    BY <1>3, <2>1, <2>2, <2>3 DEF InOnePlace
<1> QED
  BY <1>4, <1>5

\* A challenge goes from the wire to the worker.
LEMMA ChallengesHandled ==
    ASSUME Shapes, ChallengesInv, HandleFrame
    PROVE  ChallengesInv'
<1> SUFFICES ASSUME NEW m \in PeerNonces PROVE InOnePlace(m)'
  BY DEF ChallengesInv
<1> DEFINE f == Head(inbox)
<1>1. InOnePlace(m)
  BY DEF ChallengesInv
<1>2. /\ inbox \in Seq(Frames) /\ inbox # <<>> /\ inbox' = Tail(inbox)
      /\ worker = Idle /\ UNCHANGED <<drawn, answers>>
  BY DEF HandleFrame, Shapes, SessionShapes, ghosts
<1>3. f \in Frames /\ f = inbox[1] /\ 1 \in 1..Len(inbox)
  BY <1>2, HeadFacts
<1>4. \A i \in 1..Len(inbox') :
         i + 1 \in 1..Len(inbox) /\ i + 1 # 1 /\ (Carried(i, m)' <=> Carried(i + 1, m))
  BY <1>2, HeadFacts DEF Carried
<1>5. Wired(m)' => Wired(m)
  BY <1>4 DEF Wired
<1>6. \A i, j \in 1..Len(inbox') : Carried(i, m)' /\ Carried(j, m)' => i = j
  <2> SUFFICES ASSUME NEW i \in 1..Len(inbox'), NEW j \in 1..Len(inbox'),
                      Carried(i, m)', Carried(j, m)'
               PROVE  i = j
    OBVIOUS
  <2>1. i + 1 = j + 1
    BY <1>1, <1>4 DEF InOnePlace
  <2> QED
    BY <2>1
<1>7. ~Handled(m)
  BY <1>2 DEF Handled, Idle
<1>8. view' = view \/ \E v : \/ view' = [view EXCEPT ![f.room].fingerprint = v]
                             \/ view' = [view EXCEPT ![f.room].status = v]
  BY DEF HandleFrame, Recognized
<1>9. \A r \in Rooms : Shown(r, m)' <=> Shown(r, m)
  <2>1. view \in [Rooms -> [status : {"none", "active", "complete", "aborted"},
                           fingerprint : Keys \cup {None},
                           incoming : PeerNonces \cup {None}]]
    BY DEF Shapes, SessionShapes
  <2>2. f.room \in Rooms
    BY <1>3, FrameFacts
  <2> HIDE DEF f
  <2>3. \A r \in Rooms : view'[r].incoming = view[r].incoming
    <3>1. CASE view' = view
      BY <3>1
    <3>2. ASSUME NEW v, view' = [view EXCEPT ![f.room].fingerprint = v]
          PROVE  \A r \in Rooms : view'[r].incoming = view[r].incoming
      BY <2>1, <2>2, <3>2
    <3>3. ASSUME NEW v, view' = [view EXCEPT ![f.room].status = v]
          PROVE  \A r \in Rooms : view'[r].incoming = view[r].incoming
      BY <2>1, <2>2, <3>3
    <3> QED
      BY <1>8, <3>1, <3>2, <3>3
  <2> QED
    BY <2>3 DEF Shown
<1>10. CASE Handled(m)'
  <2>1. f.type = "challenge" /\ f.nonce = m
    BY <1>2, <1>10 DEF HandleFrame, Handled, Idle
  <2>2. Carried(1, m) /\ Wired(m)
    BY <1>3, <2>1 DEF Carried, Wired
  <2>3. ~Wired(m)'
    BY <1>1, <1>3, <1>4, <2>2 DEF InOnePlace, Wired
  <2> QED
    BY <1>1, <1>2, <1>6, <1>9, <1>10, <2>2, <2>3 DEF InOnePlace
<1>11. CASE ~Handled(m)'
  BY <1>1, <1>2, <1>5, <1>6, <1>9, <1>11 DEF InOnePlace
<1> QED
  BY <1>10, <1>11

\* A challenge the worker handles is answered, or left on the page.
LEMMA ChallengesTaken ==
    ASSUME Shapes, ChallengesInv, SendAnswer \/ Decline
    PROVE  ChallengesInv'
<1> SUFFICES ASSUME NEW m \in PeerNonces PROVE InOnePlace(m)'
  BY DEF ChallengesInv
<1>1. InOnePlace(m) /\ answers \in [PeerNonces -> Nat]
  BY DEF ChallengesInv, Shapes, GhostShapes
<1>2. /\ worker.pc = "key" /\ worker.room \in Rooms /\ worker.what \in PeerNonces
      /\ InOnePlace(worker.what)
      /\ worker' = Idle /\ UNCHANGED <<inbox, drawn>>
  BY WorkerFacts DEF SendAnswer, Decline, session, Shapes, SessionShapes, ChallengesInv
<1>3. Wired(m)' = Wired(m) /\ \A i \in 1..Len(inbox) : Carried(i, m)' = Carried(i, m)
  BY <1>2 DEF Wired, Carried
<1>4. ~Handled(m)'
  BY <1>2 DEF Handled, Idle
<1>5. CASE SendAnswer
  <2>1. answers' = [answers EXCEPT ![worker.what] = @ + 1] /\ view' = view
    BY <1>5 DEF SendAnswer, session
  <2>2. \A r \in Rooms : Shown(r, m)' = Shown(r, m)
    BY <2>1 DEF Shown
  <2>3. CASE worker.what = m
    <3>1. Handled(m)
      BY <1>2, <2>3 DEF Handled
    <3>2. answers[m] = 0 /\ m \in drawn /\ ~Wired(m) /\ \A r \in Rooms : ~Shown(r, m)
      BY <1>1, <3>1 DEF InOnePlace
    <3>3. answers'[m] = 1
      BY <1>1, <2>1, <2>3, <3>2
    <3> QED
      BY <1>1, <1>2, <1>3, <1>4, <2>2, <3>2, <3>3 DEF InOnePlace
  <2>4. CASE worker.what # m
    <3>1. answers'[m] = answers[m]
      BY <1>1, <2>1, <2>4
    <3> QED
      BY <1>1, <1>2, <1>3, <1>4, <2>2, <3>1 DEF InOnePlace
  <2> QED
    BY <2>3, <2>4
<1>6. CASE Decline
  <2>1. view' = [view EXCEPT ![worker.room].incoming = worker.what]
        /\ answers' = answers
    BY <1>6 DEF Decline, ghosts
  <2>2. \A r \in Rooms : view'[r].incoming = IF r = worker.room THEN worker.what
                                             ELSE view[r].incoming
    BY <1>2, <2>1 DEF Shapes, SessionShapes
  <2>3. CASE worker.what = m
    <3>1. Handled(m)
      BY <1>2, <2>3 DEF Handled
    <3>2. answers[m] # 1 /\ m \in drawn /\ ~Wired(m) /\ \A r \in Rooms : ~Shown(r, m)
      BY <1>1, <3>1 DEF InOnePlace
    <3>3. \A r \in Rooms : Shown(r, m)' => r = worker.room
      BY <2>2, <3>2 DEF Shown
    <3> QED
      BY <1>1, <1>2, <1>3, <1>4, <2>1, <3>2, <3>3 DEF InOnePlace
  <2>4. CASE worker.what # m
    <3>1. \A r \in Rooms : Shown(r, m)' => Shown(r, m)
      BY <2>2, <2>4 DEF Shown
    <3> QED
      BY <1>1, <1>2, <1>3, <1>4, <2>1, <3>1 DEF InOnePlace
  <2> QED
    BY <2>3, <2>4
<1> QED
  BY <1>5, <1>6

\* A challenge answered by hand leaves the page.
LEMMA ChallengesSubmitted ==
    ASSUME Shapes, ChallengesInv, NEW q \in Rooms, NEW n \in PeerNonces,
           SubmitResponse(q, n)
    PROVE  ChallengesInv'
<1> SUFFICES ASSUME NEW m \in PeerNonces PROVE InOnePlace(m)'
  BY DEF ChallengesInv
<1>1. InOnePlace(m) /\ answers \in [PeerNonces -> Nat]
  BY DEF ChallengesInv, Shapes, GhostShapes
<1>2. /\ Shown(q, n) /\ UNCHANGED <<inbox, drawn, worker>>
      /\ view' = [view EXCEPT ![q].incoming = None]
      /\ answers' = answers \/ answers' = [answers EXCEPT ![n] = @ + 1]
  BY DEF SubmitResponse, Shown
<1>3. /\ Wired(m)' = Wired(m) /\ Handled(m)' = Handled(m)
      /\ \A i \in 1..Len(inbox) : Carried(i, m)' = Carried(i, m)
  BY <1>2 DEF Wired, Carried, Handled
<1>4. \A r \in Rooms : view'[r].incoming = IF r = q THEN None ELSE view[r].incoming
  BY <1>2 DEF Shapes, SessionShapes
<1>5. \A r \in Rooms : Shown(r, m)' => r # q /\ Shown(r, m)
  BY <1>4, NoneFacts DEF Shown
<1>6. CASE n = m
  <2>1. /\ answers[m] = 0 /\ m \in drawn /\ ~Wired(m) /\ ~Handled(m)
        /\ \A r \in Rooms : Shown(r, m) => r = q
    BY <1>1, <1>2, <1>6 DEF InOnePlace
  <2>2. answers'[m] \in {0, 1} /\ \A r \in Rooms : ~Shown(r, m)'
    BY <1>1, <1>2, <1>5, <1>6, <2>1
  <2> QED
    BY <1>1, <1>2, <1>3, <2>1, <2>2 DEF InOnePlace
<1>7. CASE n # m
  <2>1. answers'[m] = answers[m]
    BY <1>1, <1>2, <1>7
  <2> QED
    BY <1>1, <1>2, <1>3, <1>5, <2>1 DEF InOnePlace
<1> QED
  BY <1>6, <1>7

\* Every step keeps each challenge of the counterparty in one place.
LEMMA ChallengesStep ==
    ASSUME Shapes, ChallengesInv, [Next]_vars
    PROVE  ChallengesInv'
<1> DEFINE Lost == /\ inbox' = inbox \/ inbox' = <<>>
                   /\ worker' = worker \/ worker'.pc # "key"
                   /\ \A r \in Rooms : view'[r].incoming \in {view[r].incoming, None}
                   /\ answers' = answers /\ drawn \subseteq drawn'
<1>1. Lost => ChallengesInv'
  BY ChallengesLost
<1>2. Quiet \/ UNCHANGED vars => Lost
  BY DEF Quiet, vars, session, ghosts
<1>3. \A r \in Rooms : OpenRoom(r) => Lost
  <2>1. \A r, q : r \in Rooms /\ q \in Rooms =>
           [view EXCEPT ![r].status = "active"][q].incoming = view[q].incoming
    BY DEF Shapes, SessionShapes
  <2> QED
    BY <2>1 DEF OpenRoom, ghosts
<1>4. \A r \in Rooms, n \in Nonces : Recognize(r, n) => Lost
  BY DEF Recognize, ghosts
<1>5. Disconnected /\ UNCHANGED <<view, answers>> => Lost
  BY DEF Disconnected, Idle
<1>6. ReportUnsaved \/ ReportUnreadable \/ LoseLink
         => Disconnected /\ UNCHANGED <<view, answers>>
  BY DEF ReportUnsaved, ReportUnreadable, LoseLink, ghosts
<1>7. Report \/ ReportNothing \/ Reconnect \/ Crash => Lost
  BY DEF Report, ReportNothing, Reconnect, Crash, session, ghosts, Idle, NoView
<1>8. ASSUME NEW r \in Rooms, NEW t \in {"complete", "aborted"}, EndRoom(r, t)
      PROVE  ChallengesInv'
  <2> DEFINE f == Frame(t, r, None, None, TRUE)
  <2>1. f \in Frames /\ f.type # "challenge"
    BY DEF Frame, Frames
  <2>2. inbox' = Append(inbox, f) /\ UNCHANGED <<worker, view, answers, drawn>>
    BY <1>8 DEF EndRoom, ghosts
  <2> HIDE DEF f
  <2> QED
    BY <2>1, <2>2, ChallengesSent
<1>9. ASSUME NEW c \in asked, NEW k \in Keys, NEW good \in BOOLEAN,
             PeerAnswers(c, k, good)
      PROVE  ChallengesInv'
  <2> DEFINE f == Frame("response", c.room, c.nonce, k, good)
  <2>1. c.room \in Rooms /\ c.nonce \in Nonces
    BY DEF Shapes, SessionShapes
  <2>2. f \in Frames /\ f.type # "challenge"
    BY <2>1 DEF Frame, Frames
  <2>3. inbox' = Append(inbox, f) /\ UNCHANGED <<worker, view, answers, drawn>>
    BY <1>9 DEF PeerAnswers
  <2> HIDE DEF f
  <2> QED
    BY <2>2, <2>3, ChallengesSent
<1> HIDE DEF Lost
<1>10. RoomStep => ChallengesInv'
  BY <1>1, <1>3, <1>4, <1>5, <1>6, <1>7, <1>8, <1>9, ChallengesDrawn,
     ChallengesHandled, ChallengesTaken, ChallengesSubmitted DEF RoomStep
<1> QED
  BY <1>1, <1>2, <1>5, <1>6, <1>7, <1>10, StepCases, FileStepQuiet

-----------------------------------------------------------------------------
\* The end of a room stays over.
OverStays == \A r \in Rooms : live'[r] # "over" => live[r] # "over"

\* A step that only takes ends of rooms away leaves each to happen once.
LEMMA EndsLost ==
    ASSUME Shapes, EndsInv, OverStays,
           inbox' = inbox \/ inbox' = <<>>,
           worker' = worker \/ worker'.pc # "report",
           credits' = credits
    PROVE  EndsInv'
<1> SUFFICES ASSUME NEW r \in Rooms PROVE EndsOnce(r)'
  BY DEF EndsInv
<1>1. EndsOnce(r)
  BY DEF EndsInv
<1>2. \A i \in 1..Len(inbox') : EndsAt(i, r)' => i \in 1..Len(inbox) /\ EndsAt(i, r)
  BY DEF EndsAt
<1>3. Ending(r)' => Ending(r)
  BY <1>2 DEF Ending
<1>4. (Reported(r)' => Reported(r)) /\ (Recorded(r)' => Recorded(r))
  BY DEF Reported, Recorded
<1> QED
  BY <1>1, <1>2, <1>3, <1>4 DEF EndsOnce, OverStays

\* A frame that ends no room changes nothing about them.
LEMMA EndsSent ==
    ASSUME Shapes, EndsInv,
           NEW f \in Frames, f.type \in {"challenge", "response"},
           inbox' = Append(inbox, f), UNCHANGED <<worker, live, credits>>
    PROVE  EndsInv'
<1> SUFFICES ASSUME NEW r \in Rooms PROVE EndsOnce(r)'
  BY DEF EndsInv
<1>1. EndsOnce(r)
  BY DEF EndsInv
<1>2. \A i \in 1..Len(inbox') : EndsAt(i, r)' => i \in 1..Len(inbox) /\ EndsAt(i, r)
  BY AppendFacts DEF EndsAt, Shapes, SessionShapes
<1>3. Ending(r)' => Ending(r)
  BY <1>2 DEF Ending
<1>4. (Reported(r)' => Reported(r)) /\ (Recorded(r)' => Recorded(r))
  BY DEF Reported, Recorded
<1> QED
  BY <1>1, <1>2, <1>3, <1>4 DEF EndsOnce

\* A room that ends was open before.
LEMMA EndsBegin ==
    ASSUME Shapes, EndsInv, NEW q \in Rooms, NEW t \in {"complete", "aborted"},
           EndRoom(q, t)
    PROVE  EndsInv'
<1> SUFFICES ASSUME NEW r \in Rooms PROVE EndsOnce(r)'
  BY DEF EndsInv, EndRoom, ghosts
<1> DEFINE f == Frame(t, q, None, None, TRUE)
<1>1. EndsOnce(r)
  BY DEF EndsInv
<1>2. /\ f \in Frames /\ f.room = q
      /\ inbox' = Append(inbox, f) /\ inbox \in Seq(Frames)
      /\ live[q] = "open" /\ live' = [live EXCEPT ![q] = "over"]
      /\ live \in [Rooms -> {"fresh", "open", "over"}]
      /\ UNCHANGED <<worker, credits>>
  BY DEF Frame, Frames, EndRoom, ghosts, Shapes, SessionShapes
<1> HIDE DEF f
<1>3. (Reported(r)' => Reported(r)) /\ (Recorded(r)' => Recorded(r))
  BY <1>2 DEF Reported, Recorded
<1>4. CASE r # q
  <2>1. \A i \in 1..Len(inbox') : EndsAt(i, r)' => i \in 1..Len(inbox) /\ EndsAt(i, r)
    BY <1>2, <1>4, AppendFacts DEF EndsAt
  <2>2. Ending(r)' => Ending(r)
    BY <2>1 DEF Ending
  <2>3. live'[r] = live[r]
    BY <1>2, <1>4
  <2> QED
    BY <1>1, <1>3, <2>1, <2>2, <2>3 DEF EndsOnce
<1>5. CASE r = q
  <2>1. ~Ending(r) /\ ~Reported(r) /\ ~Recorded(r)
    BY <1>1, <1>2, <1>5 DEF EndsOnce
  <2>2. \A i \in 1..Len(inbox') : EndsAt(i, r)' => i = Len(inbox')
    BY <1>2, <2>1, AppendFacts DEF EndsAt, Ending
  <2>3. live'[r] = "over"
    BY <1>2, <1>5
  <2> QED
    BY <1>3, <2>1, <2>2, <2>3 DEF EndsOnce
<1> QED
  BY <1>4, <1>5

\* The end of a room goes from the wire to the worker.
LEMMA EndsHandled ==
    ASSUME Shapes, EndsInv, HandleFrame
    PROVE  EndsInv'
<1> SUFFICES ASSUME NEW r \in Rooms PROVE EndsOnce(r)'
  BY DEF EndsInv, HandleFrame, ghosts
<1> DEFINE f == Head(inbox)
<1>1. EndsOnce(r)
  BY DEF EndsInv
<1>2. /\ inbox \in Seq(Frames) /\ inbox # <<>> /\ inbox' = Tail(inbox)
      /\ worker = Idle /\ UNCHANGED <<live, credits>>
  BY DEF HandleFrame, Shapes, SessionShapes, ghosts
<1>3. f \in Frames /\ f = inbox[1] /\ 1 \in 1..Len(inbox)
  BY <1>2, HeadFacts
<1>4. \A i \in 1..Len(inbox') :
         i + 1 \in 1..Len(inbox) /\ i + 1 # 1 /\ (EndsAt(i, r)' <=> EndsAt(i + 1, r))
  BY <1>2, HeadFacts DEF EndsAt
<1>5. Ending(r)' => Ending(r)
  BY <1>4 DEF Ending
<1>6. \A i, j \in 1..Len(inbox') : EndsAt(i, r)' /\ EndsAt(j, r)' => i = j
  <2> SUFFICES ASSUME NEW i \in 1..Len(inbox'), NEW j \in 1..Len(inbox'),
                      EndsAt(i, r)', EndsAt(j, r)'
               PROVE  i = j
    OBVIOUS
  <2>1. i + 1 = j + 1
    BY <1>1, <1>4 DEF EndsOnce
  <2> QED
    BY <2>1
<1>7. ~Reported(r) /\ Recorded(r)' = Recorded(r)
  BY <1>2 DEF Reported, Recorded, Idle
<1>8. CASE Reported(r)'
  <2>1. f.room = r /\ f.type \notin {"challenge", "response"}
    BY <1>2, <1>8 DEF HandleFrame, Reported, Idle
  <2>2. f.type \in {"complete", "aborted"}
    BY <1>3, <2>1, FrameFacts
  <2>3. EndsAt(1, r) /\ Ending(r)
    BY <1>3, <2>1, <2>2 DEF EndsAt, Ending
  <2>4. ~Ending(r)'
    BY <1>1, <1>3, <1>4, <2>3 DEF EndsOnce, Ending
  <2> QED
    BY <1>1, <1>2, <1>6, <1>7, <1>8, <2>3, <2>4 DEF EndsOnce
<1>9. CASE ~Reported(r)'
  BY <1>1, <1>2, <1>5, <1>6, <1>7, <1>9 DEF EndsOnce
<1> QED
  BY <1>8, <1>9

\* The worker records the end of a room, which is then nowhere else.
LEMMA EndsRecorded ==
    ASSUME Shapes, EndsInv, Report \/ ReportUnsaved
    PROVE  EndsInv'
<1>1. /\ worker.pc = "report" /\ worker.room \in Rooms /\ Reported(worker.room)
      /\ worker' = Idle /\ credits' = credits \cup {Credit}
      /\ Credit.room = worker.room
      /\ inbox' = inbox \/ inbox' = <<>>
  BY WorkerFacts DEF Report, ReportUnsaved, Disconnected, session, Shapes,
     SessionShapes, Reported, Credit
<1>2. OverStays
  BY DEF Report, ReportUnsaved, Disconnected, session, OverStays, Shapes, SessionShapes
<1>3. live[worker.room] = "over" /\ ~Ending(worker.room) /\ ~Recorded(worker.room)
  BY <1>1 DEF EndsInv, EndsOnce
<1>4. \A c, d \in credits' : c.room = d.room => c = d
  BY <1>1, <1>3 DEF EndsInv, Recorded
<1>5. ASSUME NEW r \in Rooms PROVE EndsOnce(r)'
  <2>1. EndsOnce(r)
    BY DEF EndsInv
  <2>2. \A i \in 1..Len(inbox') : EndsAt(i, r)' => i \in 1..Len(inbox) /\ EndsAt(i, r)
    BY <1>1 DEF EndsAt
  <2>3. Ending(r)' => Ending(r)
    BY <2>2 DEF Ending
  <2>4. ~Reported(r)'
    BY <1>1 DEF Reported, Idle
  <2>5. Recorded(r)' => Recorded(r) \/ r = worker.room
    BY <1>1 DEF Recorded
  <2> QED
    BY <1>2, <1>3, <2>1, <2>2, <2>3, <2>4, <2>5 DEF EndsOnce, OverStays
<1> QED
  BY <1>4, <1>5 DEF EndsInv

\* Every step keeps the end of each room in one place.
LEMMA EndsStep ==
    ASSUME Shapes, EndsInv, [Next]_vars
    PROVE  EndsInv'
<1> DEFINE Lost == /\ OverStays
                   /\ inbox' = inbox \/ inbox' = <<>>
                   /\ worker' = worker \/ worker'.pc # "report"
                   /\ credits' = credits
<1>0. live \in [Rooms -> {"fresh", "open", "over"}]
  BY DEF Shapes, SessionShapes
<1>1. Lost => EndsInv'
  BY EndsLost
<1>2. Quiet \/ UNCHANGED vars => Lost
  BY DEF Quiet, vars, session, ghosts, OverStays
<1>3. \A r \in Rooms : OpenRoom(r) => Lost
  BY <1>0 DEF OpenRoom, ghosts, OverStays
<1>4. \A r \in Rooms, n \in Nonces : Recognize(r, n) => Lost
  BY DEF Recognize, ghosts, OverStays
<1>5. \A r \in Rooms, m \in PeerNonces : SubmitResponse(r, m) => Lost
  BY DEF SubmitResponse, OverStays
<1>6. Disconnected /\ UNCHANGED credits => Lost
  BY <1>0 DEF Disconnected, Idle, OverStays
<1>7. ReportUnreadable \/ LoseLink => Disconnected /\ UNCHANGED credits
  BY DEF ReportUnreadable, LoseLink, ghosts
<1>8. SendAnswer \/ Decline \/ ReportNothing \/ Reconnect => Lost
  BY DEF SendAnswer, Decline, ReportNothing, Reconnect, session, ghosts, Idle, OverStays
<1>9. Crash => Lost
  BY <1>0 DEF Crash, ghosts, Idle, OverStays
<1>10. ASSUME NEW r \in Rooms, NEW m \in PeerNonces, PeerChallenges(r, m)
       PROVE  EndsInv'
  <2> DEFINE f == Frame("challenge", r, m, None, TRUE)
  <2>1. f \in Frames /\ f.type = "challenge"
    BY DEF Frame, Frames
  <2>2. inbox' = Append(inbox, f) /\ UNCHANGED <<worker, live, credits>>
    BY <1>10 DEF PeerChallenges, ghosts
  <2> HIDE DEF f
  <2> QED
    BY <2>1, <2>2, EndsSent
<1>11. ASSUME NEW c \in asked, NEW k \in Keys, NEW good \in BOOLEAN,
             PeerAnswers(c, k, good)
       PROVE  EndsInv'
  <2> DEFINE f == Frame("response", c.room, c.nonce, k, good)
  <2>1. c.room \in Rooms /\ c.nonce \in Nonces
    BY DEF Shapes, SessionShapes
  <2>2. f \in Frames /\ f.type = "response"
    BY <2>1 DEF Frame, Frames
  <2>3. inbox' = Append(inbox, f) /\ UNCHANGED <<worker, live, credits>>
    BY <1>11 DEF PeerAnswers
  <2> HIDE DEF f
  <2> QED
    BY <2>2, <2>3, EndsSent
<1> HIDE DEF Lost
<1>12. RoomStep => EndsInv'
  BY <1>1, <1>3, <1>4, <1>5, <1>6, <1>7, <1>8, <1>10, <1>11, EndsBegin, EndsHandled
     DEF RoomStep
<1> QED
  BY <1>1, <1>2, <1>9, <1>12, EndsRecorded, StepCases, FileStepQuiet

-----------------------------------------------------------------------------
\* Frames whose good answers are by keys that signed.
SignedFrame(f) == f.type = "response" /\ f.good => f.key \in signed[f.room]

\* A step that brings no fingerprint.
LEMMA SignedLost ==
    ASSUME Shapes, SignedInv, UNCHANGED signed,
           inbox' = inbox \/ inbox' = <<>>,
           \A r \in Rooms : view'[r].fingerprint \in {view[r].fingerprint, None},
           worker' = worker \/ worker'.pc # "report",
           credits' = credits
    PROVE  SignedInv'
  BY DEF SignedInv

\* A frame is put on the wire; its key, if it signed, is noted.
LEMMA SignedSent ==
    ASSUME Shapes, SignedInv, \A r \in Rooms : signed[r] \subseteq signed'[r],
           NEW f \in Frames, inbox' = Append(inbox, f), SignedFrame(f)',
           UNCHANGED <<view, worker, credits>>
    PROVE  SignedInv'
<1>1. \A i \in 1..Len(inbox') :
         inbox'[i] = f \/ (i \in 1..Len(inbox) /\ inbox'[i] = inbox[i])
  BY AppendFacts DEF Shapes, SessionShapes
<1>2. \A i \in 1..Len(inbox) : inbox[i].room \in Rooms
  BY FrameFacts DEF Shapes, SessionShapes
<1>3. \A i \in 1..Len(inbox') : inbox'[i].type = "response" /\ inbox'[i].good
         => inbox'[i].key \in signed'[inbox'[i].room]
  <2> SUFFICES ASSUME NEW i \in 1..Len(inbox'),
                      inbox'[i].type = "response", inbox'[i].good
               PROVE  inbox'[i].key \in signed'[inbox'[i].room]
    OBVIOUS
  <2>1. CASE inbox'[i] = f
    BY <2>1 DEF SignedFrame
  <2>2. CASE i \in 1..Len(inbox) /\ inbox'[i] = inbox[i]
    BY <1>2, <2>2 DEF SignedInv
  <2> QED
    BY <1>1, <2>1, <2>2
<1>4. worker.pc = "report" => worker.room \in Rooms
  BY WorkerFacts DEF Shapes, SessionShapes
<1>5. \A c \in credits : c.room \in Rooms
  BY DEF Shapes, GhostShapes
<1>6. \A r \in Rooms : view'[r].fingerprint \in signed'[r] \cup {None}
  BY DEF SignedInv
<1>7. worker'.pc = "report" => worker'.what \in signed'[worker'.room]
  BY <1>4 DEF SignedInv
<1>8. \A c \in credits' : c.key \in signed'[c.room]
  BY <1>5 DEF SignedInv
<1> QED
  BY <1>3, <1>6, <1>7, <1>8 DEF SignedInv

\* The key of an answer that verifies is shown, and reported when the room ends.
LEMMA SignedHandled ==
    ASSUME Shapes, SignedInv, HandleFrame
    PROVE  SignedInv'
<1> DEFINE f == Head(inbox)
           r == f.room
<1>1. /\ inbox \in Seq(Frames) /\ inbox # <<>> /\ inbox' = Tail(inbox)
      /\ worker = Idle /\ UNCHANGED <<signed, credits>>
  BY DEF HandleFrame, Shapes, SessionShapes, ghosts
<1>2. f \in Frames /\ f = inbox[1] /\ 1 \in 1..Len(inbox)
  BY <1>1, HeadFacts
<1>3. r \in Rooms /\ f.type \in {"challenge", "response", "complete", "aborted"}
  BY <1>2, FrameFacts
<1>4. f.type = "response" /\ f.good => f.key \in signed[r]
  BY <1>2 DEF SignedInv
<1>5. \A i \in 1..Len(inbox') : inbox'[i].type = "response" /\ inbox'[i].good
         => inbox'[i].key \in signed'[inbox'[i].room]
  <2>1. \A i \in 1..Len(inbox') : i + 1 \in 1..Len(inbox) /\ inbox'[i] = inbox[i + 1]
    BY <1>1, HeadFacts
  <2> QED
    BY <1>1, <2>1 DEF SignedInv
<1>6. view \in [Rooms -> [status : {"none", "active", "complete", "aborted"},
                          fingerprint : Keys \cup {None},
                          incoming : PeerNonces \cup {None}]]
  BY DEF Shapes, SessionShapes
<1>7. \/ view' = view
      \/ f.type = "response" /\ f.good /\ view' = [view EXCEPT ![r].fingerprint = f.key]
      \/ view' = [view EXCEPT ![r].status = f.type]
  BY DEF HandleFrame, Recognized, Verifies
<1>8. \/ worker' = Idle
      \/ worker'.pc = "key"
      \/ worker'.room = r /\ worker'.what = view[r].fingerprint
         /\ view[r].fingerprint # None
  BY <1>1 DEF HandleFrame
<1> HIDE DEF f, r
<1>9. \A q \in Rooms : view'[q].fingerprint \in signed'[q] \cup {None}
  <2>1. CASE view' = view
    BY <1>1, <2>1 DEF SignedInv
  <2>2. CASE f.type = "response" /\ f.good
             /\ view' = [view EXCEPT ![r].fingerprint = f.key]
    BY <1>1, <1>3, <1>4, <1>6, <2>2 DEF SignedInv
  <2>3. CASE view' = [view EXCEPT ![r].status = f.type]
    BY <1>1, <1>3, <1>6, <2>3 DEF SignedInv
  <2> QED
    BY <1>7, <2>1, <2>2, <2>3
<1>10. worker'.pc = "report" => worker'.what \in signed'[worker'.room]
  BY <1>1, <1>3, <1>8 DEF SignedInv, Idle
<1> QED
  BY <1>1, <1>5, <1>9, <1>10 DEF SignedInv

\* The end of a room is recorded for a key that signed in it.
LEMMA SignedRecorded ==
    ASSUME Shapes, SignedInv, Report \/ ReportUnsaved
    PROVE  SignedInv'
<1>1. /\ worker.pc = "report" /\ worker' = Idle
      /\ credits' = credits \cup {Credit}
      /\ Credit.key = worker.what /\ Credit.room = worker.room
      /\ inbox' = inbox \/ inbox' = <<>>
      /\ UNCHANGED <<view, signed>>
  BY DEF Report, ReportUnsaved, Disconnected, session, Credit
<1> QED
  BY <1>1 DEF SignedInv, Idle

\* Every step keeps fingerprints to the keys that signed.
LEMMA SignedStep ==
    ASSUME Shapes, SignedInv, [Next]_vars
    PROVE  SignedInv'
<1> DEFINE Lost == /\ UNCHANGED signed
                   /\ inbox' = inbox \/ inbox' = <<>>
                   /\ \A r \in Rooms :
                         view'[r].fingerprint \in {view[r].fingerprint, None}
                   /\ worker' = worker \/ worker'.pc # "report"
                   /\ credits' = credits
<1>0. view \in [Rooms -> [status : {"none", "active", "complete", "aborted"},
                          fingerprint : Keys \cup {None},
                          incoming : PeerNonces \cup {None}]]
  BY DEF Shapes, SessionShapes
<1>1. Lost => SignedInv'
  BY SignedLost
<1>2. Quiet \/ UNCHANGED vars => Lost
  BY DEF Quiet, vars, session, ghosts
<1>3. \A r \in Rooms : OpenRoom(r) => Lost
  BY <1>0 DEF OpenRoom, ghosts
<1>4. \A r \in Rooms, n \in Nonces : Recognize(r, n) => Lost
  BY DEF Recognize, ghosts
<1>5. \A r \in Rooms, m \in PeerNonces : SubmitResponse(r, m) => Lost
  BY <1>0 DEF SubmitResponse
<1>6. Disconnected /\ UNCHANGED <<view, signed, credits>> => Lost
  BY DEF Disconnected, Idle
<1>7. ReportUnreadable \/ LoseLink
         => Disconnected /\ UNCHANGED <<view, signed, credits>>
  BY DEF ReportUnreadable, LoseLink, ghosts
<1>8. SendAnswer \/ ReportNothing \/ Reconnect => Lost
  BY DEF SendAnswer, ReportNothing, Reconnect, session, ghosts, Idle, NoView
<1>9. ASSUME Decline PROVE Lost
  <2>1. worker.room \in Rooms
    BY <1>9, WorkerFacts DEF Decline, Shapes, SessionShapes
  <2> QED
    BY <1>0, <1>9, <2>1 DEF Decline, ghosts, Idle
<1>10. Crash => Lost
  BY DEF Crash, ghosts, Idle, NoView
<1>11. ASSUME NEW r \in Rooms, NEW type \in {"challenge", "complete", "aborted"},
              NEW n \in PeerNonces \cup {None}, type = "challenge" <=> n \in PeerNonces,
              inbox' = Append(inbox, Frame(type, r, n, None, TRUE)),
              UNCHANGED <<signed, view, worker, credits>>
       PROVE  SignedInv'
  <2> DEFINE f == Frame(type, r, n, None, TRUE)
  <2>1. f \in Frames /\ f.type = type /\ f.type # "response"
    BY <1>11 DEF Frame, Frames
  <2> HIDE DEF f
  <2>2. SignedFrame(f)'
    BY <2>1 DEF SignedFrame
  <2>3. inbox' = Append(inbox, f)
    BY <1>11 DEF f
  <2> QED
    BY <1>11, <2>1, <2>2, <2>3, SignedSent
<1>12. ASSUME NEW c \in asked, NEW k \in Keys, NEW good \in BOOLEAN,
              PeerAnswers(c, k, good)
       PROVE  SignedInv'
  <2> DEFINE f == Frame("response", c.room, c.nonce, k, good)
  <2>1. c.room \in Rooms /\ c.nonce \in Nonces /\ signed \in [Rooms -> SUBSET Keys]
    BY DEF Shapes, SessionShapes, GhostShapes
  <2>2. f \in Frames /\ f.room = c.room /\ f.key = k /\ f.good = good
    BY <2>1 DEF Frame, Frames
  <2>3. /\ inbox' = Append(inbox, f) /\ UNCHANGED <<worker, view, credits>>
        /\ signed' = IF good THEN [signed EXCEPT ![c.room] = @ \cup {k}] ELSE signed
    BY <1>12 DEF PeerAnswers
  <2> HIDE DEF f
  <2>4. \A r \in Rooms : signed[r] \subseteq signed'[r]
    BY <2>1, <2>3
  <2>5. good => k \in signed'[c.room]
    BY <2>1, <2>3
  <2>6. SignedFrame(f)'
    BY <2>2, <2>5 DEF SignedFrame
  <2> QED
    BY <2>2, <2>3, <2>4, <2>6, SignedSent
<1>13. ASSUME NEW r \in Rooms, NEW t \in {"complete", "aborted"}, EndRoom(r, t)
       PROVE  SignedInv'
  BY <1>11, <1>13, NoneFacts DEF EndRoom, ghosts
<1>14. ASSUME NEW r \in Rooms, NEW m \in PeerNonces, PeerChallenges(r, m)
       PROVE  SignedInv'
  BY <1>11, <1>14 DEF PeerChallenges, ghosts
<1> HIDE DEF Lost
<1>15. RoomStep => SignedInv'
  BY <1>1, <1>3, <1>4, <1>5, <1>6, <1>7, <1>8, <1>9, <1>12, <1>13, <1>14, SignedHandled
     DEF RoomStep
<1> QED
  BY <1>1, <1>2, <1>10, <1>15, SignedRecorded, StepCases, FileStepQuiet

-----------------------------------------------------------------------------
\* An identity that opens its history lives at its path.
LEMMA HomeOfIdentity ==
    ASSUME Shapes, HomeInv, identity # None
    PROVE  /\ identity \in Identities /\ Secret \in Secrets /\ identity.path \in Paths
           /\ At(Secret, identity.path) /\ Secret \in drawn
           /\ \A p \in Paths : At(Secret, p) => p = identity.path
<1>1. identity \in Identities
  BY DEF Shapes, IdentShapes
<1>2. Secret \in Secrets /\ identity.path \in Paths
  BY <1>1 DEF Secret, Identities
<1>3. At(Secret, identity.path)
  BY DEF At, Secret
<1> QED
  BY <1>1, <1>2, <1>3 DEF HomeInv

\* Secrets stay where they are when nothing new is put anywhere, and the open
\* history goes with its identity.
LEMMA HomeKept ==
    ASSUME Shapes, HomeInv, drawn \subseteq drawn', UNCHANGED histories,
           \A c \in credits' : c.secret \in drawn,
           \A s \in Secrets, p \in Paths : At(s, p)' => At(s, p),
           handle' # None =>
              /\ handle' = handle /\ identity' # None
              /\ identity'.path = identity.path /\ identity'.secret = identity.secret
    PROVE  HomeInv'
  BY DEF HomeInv

\* The file of the loaded identity is written, or only its history in memory.
LEMMA HomeWritten ==
    ASSUME Shapes, HomeInv, drawn' = drawn, Opens,
           NEW h \in Handles, h.path = identity.path, h.secret = Secret,
           handle' = h, UNCHANGED <<keystores, identity>>,
           \/ UNCHANGED histories
           \/ histories' = [histories EXCEPT ![h.path] =
                               [secret |-> h.secret, entries |-> h.entries]],
           \A c \in credits' : c \in credits \/ c.secret = Secret
    PROVE  HomeInv'
<1>1. identity # None
  BY DEF Opens, Unlocked
<1>2. /\ identity \in Identities /\ Secret \in Secrets /\ identity.path \in Paths
      /\ At(Secret, identity.path) /\ Secret \in drawn
  BY <1>1, HomeOfIdentity
<1>3. histories[h.path] # None => histories[h.path].secret = Secret
  BY OpenedFacts DEF Shapes, RecordShapes
<1>4. histories \in [Paths -> Histories \cup {None}]
  BY DEF Shapes, RecordShapes
<1>5. \A p \in Paths : histories'[p] # None =>
          \/ histories[p] # None /\ histories'[p].secret = histories[p].secret
          \/ p = identity.path /\ histories'[p].secret = Secret
  BY <1>2, <1>4
<1>6. \A s \in Secrets, p \in Paths : At(s, p)' => At(s, p)
  BY <1>2, <1>5 DEF At
<1>7. histories'[h.path] # None => histories'[h.path].secret = h.secret
  BY <1>2, <1>3, <1>4
<1> QED
  BY <1>1, <1>2, <1>6, <1>7 DEF HomeInv, Secret

\* Every step keeps each secret at its path, and the open history with its
\* identity.
LEMMA HomeStep ==
    ASSUME Shapes, HomeInv, [Next]_vars
    PROVE  HomeInv'
<1> USE NoneFacts
<1>0. \A c \in credits : c.secret \in drawn
  BY DEF HomeInv
<1>1. ASSUME Still PROVE HomeInv'
  BY <1>1 DEF Still, HomeInv, At
<1>2. ASSUME NEW p \in Paths, NEW s \in Secrets, CreateIdentity(p, s)
      PROVE  HomeInv'
  <2>1. /\ s \notin drawn /\ drawn' = drawn \cup {s}
        /\ keystores' = [keystores EXCEPT ![p] = s]
        /\ identity' = [path |-> p, secret |-> s, unlocked |-> TRUE]
        /\ handle' = None /\ UNCHANGED <<histories, credits>>
    BY <1>2 DEF CreateIdentity, ghosts
  <2>2. \A q \in Paths : ~At(s, q)
    BY <2>1 DEF HomeInv
  <2>3. \A t \in Secrets, q \in Paths : At(t, q)' => At(t, q) \/ (t = s /\ q = p)
    BY <2>1 DEF At, Shapes, IdentShapes
  <2>4. \A t \in Secrets, q, r \in Paths : At(t, q)' /\ At(t, r)' => q = r
    BY <2>2, <2>3 DEF HomeInv
  <2>5. \A t \in Secrets, q \in Paths : At(t, q)' => t \in drawn'
    BY <2>1, <2>3 DEF HomeInv
  <2> QED
    BY <1>0, <2>1, <2>4, <2>5 DEF HomeInv
<1>3. ASSUME NEW p \in Paths, UnlockIdentity(p) PROVE HomeInv'
  <2>1. /\ keystores[p] # None /\ handle' = None
        /\ identity' = [path |-> p, secret |-> keystores[p], unlocked |-> TRUE]
        /\ UNCHANGED <<drawn, keystores, histories, credits>>
    BY <1>3 DEF UnlockIdentity, Loaded, session, ghosts
  <2>2. \A s \in Secrets, q \in Paths : At(s, q)' => At(s, q)
    BY <2>1 DEF At
  <2> QED
    BY <1>0, <2>1, <2>2, HomeKept
<1>4. ASSUME NEW p \in Paths, DestroyFile(p) PROVE HomeInv'
  <2>1. /\ keystores' = [keystores EXCEPT ![p] = None]
        /\ UNCHANGED <<identity, handle, drawn, histories, credits>>
    BY <1>4 DEF DestroyFile, session, records, ghosts
  <2>2. \A s \in Secrets, q \in Paths : At(s, q)' => At(s, q)
    BY <2>1 DEF At, Shapes, IdentShapes
  <2> QED
    BY <1>0, <2>1, <2>2, HomeKept DEF HomeInv
<1>5. ASSUME NEW p \in Paths, ForgetDestroyed(p) PROVE HomeInv'
  <2>1. /\ (identity' = None /\ handle' = None) \/ UNCHANGED <<identity, handle>>
        /\ UNCHANGED <<drawn, keystores, histories, credits>>
    BY <1>5 DEF ForgetDestroyed, session, ghosts
  <2>2. \A s \in Secrets, q \in Paths : At(s, q)' => At(s, q)
    BY <2>1 DEF At
  <2> QED
    BY <1>0, <2>1, <2>2, HomeKept DEF HomeInv
<1>6. ASSUME LockIdentity PROVE HomeInv'
  <2>1. /\ identity # None /\ identity' = [identity EXCEPT !.unlocked = FALSE]
        /\ UNCHANGED <<handle, drawn, keystores, histories, credits>>
    BY <1>6 DEF LockIdentity, Unlocked, session, records, ghosts
  <2>2. identity \in Identities
    BY <2>1 DEF Shapes, IdentShapes
  <2>3. identity' \in Identities /\ identity'.path = identity.path
        /\ identity'.secret = identity.secret
    BY <2>1, <2>2 DEF Identities
  <2>4. \A s \in Secrets, q \in Paths : At(s, q)' => At(s, q)
    BY <2>1, <2>3 DEF At
  <2> QED
    BY <1>0, <2>1, <2>3, <2>4, HomeKept
<1>7. ASSUME SetTier PROVE HomeInv'
  BY <1>1, <1>7 DEF SetTier, Still, session, records, ghosts
<1>8. ASSUME Crash PROVE HomeInv'
  <2>1. /\ identity' = None /\ handle' = None
        /\ UNCHANGED <<drawn, keystores, histories, credits>>
    BY <1>8 DEF Crash, ghosts
  <2>2. \A s \in Secrets, q \in Paths : At(s, q)' => At(s, q)
    BY <2>1 DEF At
  <2> QED
    BY <1>0, <2>1, <2>2, HomeKept
<1>9. ASSUME ListHistory PROVE HomeInv'
  <2>1. /\ Opens /\ handle' = Opened
        /\ UNCHANGED <<drawn, keystores, identity, histories, credits>>
    BY <1>9 DEF ListHistory, session, ident, ghosts
  <2> QED
    BY <2>1, OpenedFacts, HomeWritten
<1>10. ASSUME NEW k \in Keys, NEW b \in BOOLEAN, SetBlocked(k, b) PROVE HomeInv'
  <2> DEFINE h == [Opened EXCEPT !.entries[k].blocked = b]
  <2>1. /\ Opens /\ UNCHANGED <<drawn, keystores, identity, credits>>
        /\ Persist(h) \/ PersistFails(h)
    BY <1>10 DEF SetBlocked, session, ident
  <2>2. h \in Handles /\ h.path = identity.path /\ h.secret = Secret
    <3>1. Opened \in Handles /\ Opened.path = identity.path /\ Opened.secret = Secret
      BY <2>1, OpenedFacts
    <3>2. h \in Handles /\ h.path = Opened.path /\ h.secret = Opened.secret
      BY <3>1, BlockFacts
    <3> QED
      BY <3>1, <3>2
  <2> HIDE DEF h
  <2>3. /\ handle' = h
        /\ \/ UNCHANGED histories
           \/ histories' = [histories EXCEPT ![h.path] =
                               [secret |-> h.secret, entries |-> h.entries]]
    BY <2>1 DEF Persist, PersistFails
  <2> QED
    BY <2>1, <2>2, <2>3, HomeWritten
<1>11. ASSUME Report \/ ReportUnsaved PROVE HomeInv'
  <2>1. /\ Opens /\ UNCHANGED <<drawn, keystores, identity>>
        /\ Persist(Counted) \/ PersistFails(Counted)
        /\ credits' = credits \cup {Credit} /\ Credit.secret = Secret
        /\ worker.what \in Keys
    BY <1>11, WorkerFacts DEF Report, ReportUnsaved, Disconnected, session, ident,
       Credit, Shapes, SessionShapes
  <2>2. Counted \in Handles /\ Counted.path = identity.path /\ Counted.secret = Secret
    BY <2>1, OpenedFacts, CountFacts DEF Counted
  <2>3. /\ handle' = Counted
        /\ \/ UNCHANGED histories
           \/ histories' = [histories EXCEPT ![Counted.path] =
                               [secret |-> Counted.secret, entries |-> Counted.entries]]
    BY <2>1 DEF Persist, PersistFails
  <2> QED
    BY <2>1, <2>2, <2>3, HomeWritten
<1> HIDE DEF HomeInv
<1>12. FileStep => HomeInv'
  BY <1>2, <1>3, <1>4, <1>5, <1>6, <1>7, <1>9, <1>10 DEF FileStep
<1> QED
  BY <1>1, <1>8, <1>11, <1>12, StepCases, RoomStepStill

-----------------------------------------------------------------------------
\* Nobody but the loaded identity has a file with its secret.
LEMMA OwnFile ==
    ASSUME Shapes, HomeInv, Opens
    PROVE  /\ \A p \in Paths : histories[p] # None /\ histories[p].secret = Secret
                                  => p = identity.path
           /\ histories[identity.path] # None => histories[identity.path].secret = Secret
           /\ identity.path \in Paths /\ Secret \in Secrets
<1>1. identity # None
  BY DEF Opens, Unlocked
<1>2. \A p \in Paths : histories[p] # None /\ histories[p].secret = Secret
                          => At(Secret, p)
  BY DEF At
<1> QED
  BY <1>1, <1>2, HomeOfIdentity, OpenedFacts

\* The history that is opened blocks what it should.
LEMMA OpenedBlocked ==
    ASSUME Shapes, HomeInv, BlockedInv, Opens
    PROVE  Heeds(Opened.entries, wanted[Secret])
<1>1. CASE handle # None
  BY <1>1, OpenedFacts DEF BlockedInv, HomeInv, Secret
<1>2. CASE handle = None /\ histories[Opened.path] # None
  <2>1. Opened.path \in Paths
    BY OpenedFacts, OwnFile
  <2> QED
    BY <1>2, <2>1, OpenedFacts DEF BlockedInv
<1>3. CASE handle = None /\ histories[Opened.path] = None
  <2>1. Opened.entries = NoEntries /\ Opened.path = identity.path
    BY <1>3, OpenedFacts
  <2>2. \A p \in Paths : histories[p] = None \/ histories[p].secret # Secret
    BY <1>3, <2>1, OwnFile
  <2>3. \A k \in Keys : FALSE \in wanted[Secret][k]
    BY <2>2, OwnFile DEF BlockedInv
  <2>4. \A k \in Keys : NoEntries[k].blocked = FALSE
    BY DEF NoEntries
  <2> QED
    BY <2>1, <2>3, <2>4 DEF Heeds
<1> QED
  BY <1>1, <1>2, <1>3

\* A history is kept, in its file or in memory only, that blocks what it should
\* after a change of the wish of its own identity at most.
LEMMA BlockedKept ==
    ASSUME Shapes, HomeInv, BlockedInv, Opens,
           NEW h \in Handles, h.path = identity.path, h.secret = Secret,
           handle' = h, Heeds(h.entries, wanted'[Secret]),
           UNCHANGED identity,
           \A s \in Secrets : s # Secret => wanted'[s] = wanted[s],
           \/ histories' = [histories EXCEPT ![h.path] =
                               [secret |-> h.secret, entries |-> h.entries]]
           \/ UNCHANGED histories
              /\ \A k \in Keys : wanted[Secret][k] \subseteq wanted'[Secret][k]
    PROVE  BlockedInv'
<1> USE NoneFacts
<1>1. /\ histories \in [Paths -> Histories \cup {None}]
      /\ identity.path \in Paths /\ Secret \in Secrets
      /\ histories[identity.path] # None => histories[identity.path].secret = Secret
      /\ \A p \in Paths : histories[p] # None /\ histories[p].secret = Secret
                                  => p = identity.path
  BY OwnFile DEF Shapes, RecordShapes
<1>2. \A p \in Paths : histories[p] # None =>
          histories[p].secret \in Secrets /\ Heeds(histories[p].entries, wanted[histories[p].secret])
  BY <1>1 DEF BlockedInv, Histories
<1>3. Heeds(h.entries, wanted'[h.secret])
  OBVIOUS
<1>4. CASE histories' = [histories EXCEPT ![h.path] =
                            [secret |-> h.secret, entries |-> h.entries]]
  <2>1. /\ histories'[h.path] = [secret |-> h.secret, entries |-> h.entries]
        /\ [secret |-> h.secret, entries |-> h.entries] \in Histories
    BY <1>1, <1>4 DEF Handles, Histories
  <2>2. \A p \in Paths : p # h.path => histories'[p] = histories[p]
    BY <1>1, <1>4
  <2>3. ASSUME NEW p \in Paths, histories'[p] # None
        PROVE  Heeds(histories'[p].entries, wanted'[histories'[p].secret])
    <3>1. CASE p = h.path
      BY <1>3, <2>1, <3>1 DEF Heeds
    <3>2. CASE p # h.path
      <4>1. histories'[p] = histories[p] /\ histories[p].secret # Secret
            /\ histories[p].secret \in Secrets
        BY <1>1, <1>2, <2>2, <2>3, <3>2
      <4>2. wanted'[histories[p].secret] = wanted[histories[p].secret]
        BY <4>1
      <4> QED
        BY <1>2, <2>3, <4>1, <4>2 DEF Heeds
    <3> QED
      BY <3>1, <3>2
  <2>4. ASSUME NEW s \in Secrets,
               \A p \in Paths : histories'[p] = None \/ histories'[p].secret # s
        PROVE  \A k \in Keys : FALSE \in wanted'[s][k]
    <3>1. histories'[h.path] # None /\ histories'[h.path].secret = Secret
      BY <2>1
    <3>2. s # Secret
      BY <1>1, <2>4, <3>1
    <3>3. \A p \in Paths : histories[p] = None \/ histories[p].secret # s
      BY <1>1, <2>2, <2>4, <3>2
    <3> QED
      BY <3>2, <3>3 DEF BlockedInv
  <2> QED
    BY <1>3, <2>3, <2>4 DEF BlockedInv, Heeds
<1>5. CASE UNCHANGED histories
           /\ \A k \in Keys : wanted[Secret][k] \subseteq wanted'[Secret][k]
  <2>1. \A s \in Secrets, k \in Keys : wanted[s][k] \subseteq wanted'[s][k]
    BY <1>5
  <2>2. \A p \in Paths : histories'[p] # None =>
           Heeds(histories'[p].entries, wanted'[histories'[p].secret])
    BY <1>2, <1>5, <2>1 DEF Heeds
  <2>3. \A s \in Secrets :
          (\A p \in Paths : histories'[p] = None \/ histories'[p].secret # s)
              => \A k \in Keys : FALSE \in wanted'[s][k]
    BY <1>5, <2>1 DEF BlockedInv
  <2> QED
    BY <1>3, <2>2, <2>3 DEF BlockedInv, Heeds
<1> QED
  BY <1>4, <1>5

\* Every step keeps the blocks.
LEMMA BlockedStep ==
    ASSUME Shapes, HomeInv, BlockedInv, [Next]_vars
    PROVE  BlockedInv'
<1>1. ASSUME UNCHANGED <<histories, wanted>>, handle' \in {handle, None}
      PROVE  BlockedInv'
  BY <1>1 DEF BlockedInv, Heeds
<1>2. RoomStep \/ UNCHANGED vars
         => UNCHANGED <<histories, wanted>> /\ handle' \in {handle, None}
  BY RoomStepStill DEF Still
<1>3. \A p \in Paths, s \in Secrets : CreateIdentity(p, s)
         => UNCHANGED <<histories, wanted>> /\ handle' \in {handle, None}
  BY DEF CreateIdentity, ghosts
<1>4. \A p \in Paths : UnlockIdentity(p) \/ DestroyFile(p) \/ ForgetDestroyed(p)
         => UNCHANGED <<histories, wanted>> /\ handle' \in {handle, None}
  BY DEF UnlockIdentity, DestroyFile, ForgetDestroyed, records, ghosts
<1>5. LockIdentity \/ SetTier \/ Crash
         => UNCHANGED <<histories, wanted>> /\ handle' \in {handle, None}
  BY DEF LockIdentity, SetTier, Crash, records, ghosts
<1>6. ASSUME ListHistory PROVE BlockedInv'
  <2>1. Opens /\ handle' = Opened /\ UNCHANGED <<histories, wanted>>
    BY <1>6 DEF ListHistory, ghosts
  <2>2. Heeds(Opened.entries, wanted[Opened.secret])
    BY <2>1, OpenedBlocked, OpenedFacts
  <2> QED
    BY <2>1, <2>2 DEF BlockedInv, Heeds
<1>7. ASSUME NEW k \in Keys, NEW b \in BOOLEAN, SetBlocked(k, b) PROVE BlockedInv'
  <2> DEFINE h == [Opened EXCEPT !.entries[k].blocked = b]
  <2>1. /\ Opens /\ UNCHANGED identity
        /\ \/ Persist(h) /\ wanted' = [wanted EXCEPT ![Secret][k] = {b}]
           \/ PersistFails(h) /\ wanted' = [wanted EXCEPT ![Secret][k] = @ \cup {b}]
    BY <1>7 DEF SetBlocked, ident
  <2>2. /\ Opened \in Handles /\ Opened.path = identity.path
        /\ Opened.secret = Secret /\ Secret \in Secrets
        /\ Heeds(Opened.entries, wanted[Secret])
    BY <2>1, OpenedFacts, OpenedBlocked
  <2>3. /\ h \in Handles /\ h.path = Opened.path /\ h.secret = Opened.secret
        /\ h.entries[k].blocked = b
        /\ \A j \in Keys : j # k => h.entries[j] = Opened.entries[j]
    <3>1. Opened \in Handles
      BY <2>2
    <3>2. h = [Opened EXCEPT !.entries[k].blocked = b]
      OBVIOUS
    <3> HIDE DEF h
    <3>3. h \in Handles /\ h.path = Opened.path /\ h.secret = Opened.secret
      BY <3>1, <3>2, BlockFacts
    <3>4. h.entries[k].blocked = b
      BY <3>1, <3>2 DEF Handles, Entries
    <3>5. \A j \in Keys : j # k => h.entries[j] = Opened.entries[j]
      BY <3>1, <3>2, BlockFacts
    <3> QED
      BY <3>3, <3>4, <3>5
  <2> HIDE DEF h
  <2>4. wanted \in [Secrets -> [Keys -> SUBSET BOOLEAN]]
    BY DEF Shapes, GhostShapes
  <2>5. /\ \A s \in Secrets : s # Secret => wanted'[s] = wanted[s]
        /\ \A j \in Keys : j # k => wanted'[Secret][j] = wanted[Secret][j]
        /\ b \in wanted'[Secret][k]
    BY <2>1, <2>2, <2>4
  <2>6. Secret' = Secret
    BY <2>1 DEF Secret
  <2>7. Heeds(h.entries, wanted'[Secret])
    BY <2>1, <2>2, <2>3, <2>5, <2>6 DEF Heeds, Persist, PersistFails
  <2>8. handle' = h
    BY <2>1 DEF Persist, PersistFails
  <2>9. \/ histories' = [histories EXCEPT ![h.path] =
                            [secret |-> h.secret, entries |-> h.entries]]
        \/ UNCHANGED histories
              /\ \A j \in Keys : wanted[Secret][j] \subseteq wanted'[Secret][j]
    BY <2>1, <2>2, <2>4 DEF Persist, PersistFails
  <2> QED
    BY <2>1, <2>2, <2>3, <2>5, <2>7, <2>8, <2>9, BlockedKept
<1>8. ASSUME Report \/ ReportUnsaved PROVE BlockedInv'
  <2>1. /\ Opens /\ UNCHANGED <<identity, wanted>>
        /\ Persist(Counted) \/ PersistFails(Counted)
        /\ worker.what \in Keys
    BY <1>8, WorkerFacts DEF Report, ReportUnsaved, ident, Shapes, SessionShapes
  <2>2. /\ Opened \in Handles /\ Opened.path = identity.path
        /\ Opened.secret = Secret /\ Secret \in Secrets
        /\ Heeds(Opened.entries, wanted[Secret])
    BY <2>1, OpenedFacts, OpenedBlocked
  <2>3. /\ Counted \in Handles /\ Counted.path = Opened.path
        /\ Counted.secret = Opened.secret
        /\ \A j \in Keys : Counted.entries[j].blocked = Opened.entries[j].blocked
    BY <2>1, <2>2, CountFacts DEF Counted
  <2>4. \E h : h = Counted
    OBVIOUS
  <2>5. PICK h : h = Counted
    BY <2>4
  <2>6. Secret' = Secret
    BY <2>1 DEF Secret
  <2>7. Heeds(h.entries, wanted[Secret])
    BY <2>2, <2>3, <2>5 DEF Heeds
  <2>8. Heeds(h.entries, wanted'[Secret])
    BY <2>1, <2>6, <2>7 DEF Heeds
  <2>9. /\ handle' = h
        /\ \/ histories' = [histories EXCEPT ![h.path] =
                               [secret |-> h.secret, entries |-> h.entries]]
           \/ UNCHANGED histories
    BY <2>1, <2>5 DEF Persist, PersistFails
  <2>10. h \in Handles /\ h.path = identity.path /\ h.secret = Secret
    BY <2>2, <2>3, <2>5
  <2>11. \A j \in Keys : wanted[Secret][j] \subseteq wanted'[Secret][j]
    BY <2>1
  <2>12. \A s \in Secrets : s # Secret => wanted'[s] = wanted[s]
    BY <2>1
  <2> QED
    BY <2>1, <2>8, <2>9, <2>10, <2>11, <2>12, BlockedKept
<1> HIDE DEF BlockedInv
<1>9. FileStep => BlockedInv'
  BY <1>1, <1>3, <1>4, <1>5, <1>6, <1>7 DEF FileStep
<1> QED
  BY <1>1, <1>2, <1>5, <1>8, <1>9, StepCases

-----------------------------------------------------------------------------
\* The encounters earned in one name are finitely many, and more credits are
\* not fewer.
LEMMA EarnedFacts ==
    ASSUME NEW C, IsFiniteSet(C), NEW D, D \subseteq C, NEW s, NEW k
    PROVE  /\ IsFiniteSet(Earned(C, s, k)) /\ Cardinality(Earned(C, s, k)) \in Nat
           /\ Cardinality(Earned(D, s, k)) \in Nat
           /\ Cardinality(Earned(D, s, k)) <= Cardinality(Earned(C, s, k))
<1>1. Earned(C, s, k) \subseteq C /\ Earned(D, s, k) \subseteq Earned(C, s, k)
  BY DEF Earned
<1>2. IsFiniteSet(Earned(C, s, k))
  BY <1>1, FS_Subset
<1>3. /\ IsFiniteSet(Earned(D, s, k))
      /\ Cardinality(Earned(D, s, k)) <= Cardinality(Earned(C, s, k))
  BY <1>1, <1>2, FS_Subset
<1> QED
  BY <1>2, <1>3, FS_CardinalityType

\* The history that is opened counts what was earned.
LEMMA OpenedCounted ==
    ASSUME Shapes, HomeInv, CountedInv, Opens
    PROVE  Counts(Opened.entries, credits, Secret, ~failed)
<1>1. CASE handle # None
  BY <1>1, OpenedFacts DEF CountedInv, HomeInv, Secret
<1>2. CASE handle = None /\ histories[Opened.path] # None
  <2>1. Opened.path \in Paths
    BY OpenedFacts, OwnFile
  <2> QED
    BY <1>2, <2>1, OpenedFacts DEF CountedInv
<1>3. CASE handle = None /\ histories[Opened.path] = None
  <2>1. Opened.entries = NoEntries /\ Opened.path = identity.path
    BY <1>3, OpenedFacts
  <2>2. \A p \in Paths : histories[p] = None \/ histories[p].secret # Secret
    BY <1>3, <2>1, OwnFile
  <2>3. \A k \in Keys : NoEntries[k].count = 0
    BY DEF NoEntries
  <2>4. \A k \in Keys : Cardinality(Earned(credits, Secret, k)) \in Nat
    BY EarnedFacts DEF Shapes, GhostShapes
  <2>5. ASSUME ~failed, NEW k \in Keys PROVE Cardinality(Earned(credits, Secret, k)) = 0
    <3>1. Earned(credits, Secret, k) = {}
      BY <2>2, <2>5 DEF CountedInv, Earned
    <3> QED
      BY <3>1, FS_EmptySet
  <2> QED
    BY <2>1, <2>3, <2>4, <2>5 DEF Counts
<1> QED
  BY <1>1, <1>2, <1>3

\* A history is kept, in its file or in memory only, that counts what it should,
\* after a credit to its own identity at most.
LEMMA CountedKept ==
    ASSUME Shapes, HomeInv, CountedInv, Opens,
           NEW h \in Handles, h.path = identity.path, h.secret = Secret,
           handle' = h, Counts(h.entries, credits', Secret, ~failed'),
           credits \subseteq credits', IsFiniteSet(credits'),
           \A c \in credits' : c \in credits \/ c.secret = Secret,
           failed => failed',
           \/ histories' = [histories EXCEPT ![h.path] =
                               [secret |-> h.secret, entries |-> h.entries]]
           \/ UNCHANGED histories /\ (failed' \/ UNCHANGED credits)
    PROVE  CountedInv'
<1> USE NoneFacts
<1>1. /\ histories \in [Paths -> Histories \cup {None}]
      /\ identity.path \in Paths /\ Secret \in Secrets
      /\ histories[identity.path] # None => histories[identity.path].secret = Secret
      /\ \A p \in Paths : histories[p] # None /\ histories[p].secret = Secret
                                  => p = identity.path
  BY OwnFile DEF Shapes, RecordShapes
<1>2. Counts(h.entries, credits', h.secret, ~failed')
  OBVIOUS
<1>3. ASSUME NEW p \in Paths, histories[p] # None,
             histories[p].secret # Secret \/ failed' \/ UNCHANGED credits
      PROVE  Counts(histories[p].entries, credits', histories[p].secret, ~failed')
  <2> DEFINE e == histories[p].entries
             s == histories[p].secret
  <2>1. e \in Entries
    BY <1>1, <1>3 DEF Histories
  <2>2. Counts(e, credits, s, ~failed)
    BY <1>3 DEF CountedInv
  <2>3. s # Secret => \A k \in Keys : Earned(credits', s, k) = Earned(credits, s, k)
    BY DEF Earned
  <2>4. \A k \in Keys :
           /\ Cardinality(Earned(credits', s, k)) \in Nat
           /\ Cardinality(Earned(credits, s, k)) \in Nat
           /\ Cardinality(Earned(credits, s, k)) <= Cardinality(Earned(credits', s, k))
    BY EarnedFacts
  <2>5. s # Secret \/ failed' \/ UNCHANGED credits
    BY <1>3
  <2> HIDE DEF e, s
  <2>6. \A k \in Keys : e[k].count \in Nat
    BY <2>1 DEF Entries
  <2>7. Counts(e, credits', s, ~failed')
    BY <2>2, <2>3, <2>4, <2>5, <2>6 DEF Counts
  <2> QED
    BY <2>7 DEF e, s
<1>4. CASE histories' = [histories EXCEPT ![h.path] =
                            [secret |-> h.secret, entries |-> h.entries]]
  <2>1. /\ histories'[h.path] = [secret |-> h.secret, entries |-> h.entries]
        /\ [secret |-> h.secret, entries |-> h.entries] \in Histories
    BY <1>1, <1>4 DEF Handles, Histories
  <2>2. \A p \in Paths : p # h.path => histories'[p] = histories[p]
    BY <1>1, <1>4
  <2>3. ASSUME NEW p \in Paths, histories'[p] # None
        PROVE  Counts(histories'[p].entries, credits', histories'[p].secret, ~failed')
    <3>1. CASE p = h.path
      BY <1>2, <2>1, <3>1
    <3>2. CASE p # h.path
      BY <1>1, <1>3, <2>2, <2>3, <3>2
    <3> QED
      BY <3>1, <3>2
  <2>4. ASSUME ~failed', NEW c \in credits'
        PROVE  \E p \in Paths : histories'[p] # None /\ histories'[p].secret = c.secret
    <3>1. CASE c.secret = Secret
      BY <1>1, <2>1, <3>1
    <3>2. CASE c.secret # Secret
      <4>1. PICK p \in Paths : histories[p] # None /\ histories[p].secret = c.secret
        BY <2>4, <3>2 DEF CountedInv
      <4>2. p # h.path
        BY <1>1, <3>2, <4>1
      <4> QED
        BY <2>2, <4>1, <4>2
    <3> QED
      BY <3>1, <3>2
  <2> QED
    BY <1>2, <2>3, <2>4 DEF CountedInv
<1>5. CASE UNCHANGED histories /\ (failed' \/ UNCHANGED credits)
  <2>1. \A p \in Paths : histories'[p] # None =>
           Counts(histories'[p].entries, credits', histories'[p].secret, ~failed')
    BY <1>3, <1>5
  <2>2. ~failed' =>
           \A c \in credits' :
              \E p \in Paths : histories'[p] # None /\ histories'[p].secret = c.secret
    BY <1>5 DEF CountedInv
  <2> QED
    BY <1>2, <2>1, <2>2 DEF CountedInv
<1> QED
  BY <1>4, <1>5

\* Every step keeps the counts.
LEMMA CountedStep ==
    ASSUME Shapes, EndsInv, HomeInv, CountedInv, [Next]_vars
    PROVE  CountedInv'
<1> DEFINE Same == UNCHANGED <<histories, credits, failed>> /\ handle' \in {handle, None}
<1>1. Same => CountedInv'
  BY DEF CountedInv
<1>2. RoomStep \/ UNCHANGED vars => Same
  BY RoomStepStill DEF Still
<1>3. \A p \in Paths, s \in Secrets : CreateIdentity(p, s) => Same
  BY DEF CreateIdentity, ghosts
<1>4. \A p \in Paths : UnlockIdentity(p) \/ DestroyFile(p) \/ ForgetDestroyed(p) => Same
  BY DEF UnlockIdentity, DestroyFile, ForgetDestroyed, records, ghosts
<1>5. LockIdentity \/ SetTier \/ Crash => Same
  BY DEF LockIdentity, SetTier, Crash, records, ghosts
<1>6. ASSUME ListHistory PROVE CountedInv'
  <2>1. Opens /\ handle' = Opened /\ UNCHANGED <<histories, credits, failed>>
    BY <1>6 DEF ListHistory, ghosts
  <2>2. Counts(Opened.entries, credits, Opened.secret, ~failed)
    BY <2>1, OpenedCounted, OpenedFacts
  <2> QED
    BY <2>1, <2>2 DEF CountedInv
<1>7. ASSUME NEW k \in Keys, NEW b \in BOOLEAN, SetBlocked(k, b) PROVE CountedInv'
  <2> DEFINE h == [Opened EXCEPT !.entries[k].blocked = b]
  <2>1. /\ Opens /\ UNCHANGED <<identity, credits>>
        /\ (Persist(h) /\ UNCHANGED failed) \/ PersistFails(h)
    BY <1>7 DEF SetBlocked, ident
  <2>2. /\ Opened \in Handles /\ Opened.path = identity.path
        /\ Opened.secret = Secret
        /\ Counts(Opened.entries, credits, Secret, ~failed)
    BY <2>1, OpenedFacts, OpenedCounted
  <2>3. h = [Opened EXCEPT !.entries[k].blocked = b]
    OBVIOUS
  <2> HIDE DEF h
  <2>4. /\ h \in Handles /\ h.path = Opened.path /\ h.secret = Opened.secret
        /\ \A j \in Keys : h.entries[j].count = Opened.entries[j].count
    BY <2>2, <2>3, BlockFacts
  <2>5. /\ handle' = h
        /\ failed => failed'
        /\ \/ histories' = [histories EXCEPT ![h.path] =
                               [secret |-> h.secret, entries |-> h.entries]]
           \/ UNCHANGED histories
    BY <2>1 DEF Persist, PersistFails
  <2>6. Counts(h.entries, credits', Secret, ~failed')
    BY <2>1, <2>2, <2>4, <2>5 DEF Counts
  <2>7. IsFiniteSet(credits)
    BY DEF Shapes, GhostShapes
  <2> QED
    BY <2>1, <2>2, <2>4, <2>5, <2>6, <2>7, CountedKept
<1>8. ASSUME Report \/ ReportUnsaved PROVE CountedInv'
  <2> DEFINE s == Secret
             k == worker.what
  <2>1. /\ Opens /\ UNCHANGED identity
        /\ (Persist(Counted) /\ UNCHANGED failed) \/ PersistFails(Counted)
        /\ k \in Keys /\ worker.room \in Rooms /\ Reported(worker.room)
        /\ credits' = credits \cup {Credit}
    BY <1>8, WorkerFacts DEF Report, ReportUnsaved, ident, Shapes, SessionShapes, Reported
  <2>2. /\ Credit.secret = s /\ Credit.key = k /\ Credit.room = worker.room
    BY DEF Credit
  <2>3. Credit \notin credits
    BY <2>1, <2>2 DEF EndsInv, EndsOnce, Recorded
  <2>4. /\ Opened \in Handles /\ Opened.path = identity.path
        /\ Opened.secret = s
        /\ Counts(Opened.entries, credits, s, ~failed)
    BY <2>1, OpenedFacts, OpenedCounted
  <2>5. PICK h : h = Counted
    OBVIOUS
  <2>6. h = [Opened EXCEPT !.entries[k].count = @ + 1]
    BY <2>5 DEF Counted
  <2>7. /\ handle' = h
        /\ failed => failed'
        /\ \/ histories' = [histories EXCEPT ![h.path] =
                               [secret |-> h.secret, entries |-> h.entries]]
           \/ UNCHANGED histories /\ failed'
    BY <2>1, <2>5 DEF Persist, PersistFails
  <2>8. IsFiniteSet(credits) /\ IsFiniteSet(credits')
    BY <2>1, FS_AddElement DEF Shapes, GhostShapes
  <2> HIDE DEF s, k
  <2>9. /\ h \in Handles /\ h.path = Opened.path /\ h.secret = Opened.secret
        /\ h.entries[k].count = Opened.entries[k].count + 1
        /\ \A j \in Keys : j # k => h.entries[j] = Opened.entries[j]
    <3>1. Opened \in Handles /\ k \in Keys
      BY <2>1, <2>4
    <3>2. /\ h \in Handles /\ h.path = Opened.path /\ h.secret = Opened.secret
          /\ h.entries[k].count = Opened.entries[k].count + 1
      <4>1. Counted \in Handles /\ Counted.path = Opened.path
            /\ Counted.secret = Opened.secret
        BY <3>1, CountFacts DEF Counted, k
      <4>2. h.entries[k].count = Opened.entries[k].count + 1
        BY <2>6, <3>1 DEF Handles, Entries
      <4> QED
        BY <2>5, <4>1, <4>2
    <3>3. \A j \in Keys : j # k => h.entries[j] = Opened.entries[j]
      BY <2>6, <3>1 DEF Handles, Entries
    <3> QED
      BY <3>2, <3>3
  <2>10. \A j \in Keys : j # k => Earned(credits', s, j) = Earned(credits, s, j)
    BY <2>1, <2>2 DEF Earned
  <2>11. /\ Cardinality(Earned(credits', s, k)) = Cardinality(Earned(credits, s, k)) + 1
         /\ Cardinality(Earned(credits, s, k)) \in Nat
    <3>1. /\ Earned(credits', s, k) = Earned(credits, s, k) \cup {Credit}
          /\ Credit \notin Earned(credits, s, k)
      BY <2>1, <2>2, <2>3 DEF Earned
    <3>2. IsFiniteSet(Earned(credits, s, k))
      BY <2>8, EarnedFacts
    <3> QED
      BY <3>1, <3>2, FS_AddElement, FS_CardinalityType
  <2>12. Opened.entries[k].count \in Nat
    BY <2>1, <2>4 DEF Handles, Entries
  <2>13. Counts(h.entries, credits', s, ~failed')
    <3> DEFINE Right(j) ==
                  /\ h.entries[j].count <= Cardinality(Earned(credits', s, j))
                  /\ ~failed' => h.entries[j].count = Cardinality(Earned(credits', s, j))
    <3>1. Right(k)
      <4>1. /\ Opened.entries[k].count <= Cardinality(Earned(credits, s, k))
            /\ ~failed => Opened.entries[k].count = Cardinality(Earned(credits, s, k))
        BY <2>1, <2>4 DEF Counts
      <4> QED
        BY <2>7, <2>9, <2>11, <2>12, <4>1
    <3>2. ASSUME NEW j \in Keys, j # k PROVE Right(j)
      BY <2>4, <2>7, <2>9, <2>10, <3>2 DEF Counts
    <3> QED
      BY <3>1, <3>2 DEF Counts
  <2>14. \A c \in credits' : c \in credits \/ c.secret = s
    BY <2>1, <2>2
  <2> USE DEF s
  <2> QED
    BY <2>1, <2>4, <2>7, <2>8, <2>9, <2>13, <2>14, CountedKept
<1> HIDE DEF CountedInv, Same
<1>9. FileStep => CountedInv'
  BY <1>1, <1>3, <1>4, <1>5, <1>6, <1>7 DEF FileStep
<1> QED
  BY <1>1, <1>2, <1>5, <1>8, <1>9, StepCases

-----------------------------------------------------------------------------
\* The invariant holds before anything has happened.
LEMMA InitInv == Init => IndInv
<1> SUFFICES ASSUME Init PROVE IndInv
  OBVIOUS
<1> USE NoneFacts DEF Init
<1>1. IsFiniteSet({}) /\ Cardinality({}) = 0
  BY FS_EmptySet
<1>2. <<>> \in Seq(Frames) /\ Idle \in Workers
  BY DEF Workers
<1>3. SessionShapes
  BY <1>2 DEF SessionShapes, NoView
<1>4. IdentShapes /\ RecordShapes
  <2>1. keystores \in [Paths -> Secrets \cup {None}]
    OBVIOUS
  <2>2. histories \in [Paths -> Histories \cup {None}]
    OBVIOUS
  <2>3. identity = None /\ handle = None /\ persistent = FALSE /\ destroying = {}
    OBVIOUS
  <2>4. faults \in 0..MaxFaults
    OBVIOUS
  <2> QED
    BY <2>1, <2>2, <2>3, <2>4 DEF IdentShapes, RecordShapes
<1>5. GhostShapes
  BY <1>1 DEF GhostShapes
<1>6. TrackerInv
  BY <1>1 DEF TrackerInv
<1>7. ChallengesInv
  BY DEF ChallengesInv, InOnePlace, Wired, Carried, Handled, Shown, Idle, NoView
<1>8. EndsInv
  BY DEF EndsInv, EndsOnce, Ending, EndsAt, Reported, Recorded, Idle
<1>9. SignedInv
  BY DEF SignedInv, Idle, NoView
<1>10. HomeInv
  BY DEF HomeInv, At
<1>11. BlockedInv /\ CountedInv
  BY DEF BlockedInv, CountedInv
<1> QED
  BY <1>3, <1>4, <1>5, <1>6, <1>7, <1>8, <1>9, <1>10, <1>11
     DEF IndInv, Shapes, Once, Files

\* Every step keeps the invariant.
LEMMA StepInv == IndInv /\ [Next]_vars => IndInv'
<1> SUFFICES ASSUME IndInv, [Next]_vars PROVE IndInv'
  OBVIOUS
<1>1. /\ Shapes /\ TrackerInv /\ ChallengesInv /\ EndsInv /\ SignedInv
      /\ HomeInv /\ BlockedInv /\ CountedInv
  BY DEF IndInv, Once, Files
<1>2. Shapes'
  BY <1>1, SessionShapesStep, IdentShapesStep, RecordShapesStep, GhostShapesStep
     DEF Shapes
<1>3. TrackerInv' /\ ChallengesInv' /\ EndsInv' /\ SignedInv'
  BY <1>1, TrackerStep, ChallengesStep, EndsStep, SignedStep
<1>4. HomeInv' /\ BlockedInv' /\ CountedInv'
  BY <1>1, HomeStep, BlockedStep, CountedStep
<1> QED
  BY <1>2, <1>3, <1>4 DEF IndInv, Once, Files

\* The inductive invariant of recognition holds at all times.
THEOREM Inductive == Spec => []IndInv
  BY InitInv, StepInv, PTL DEF Spec

\* The types; among them the limit on outstanding challenges.
THEOREM TypeCorrect == Spec => []TypeOK
<1>1. IndInv => TypeOK
  BY DEF IndInv, Shapes, SessionShapes, IdentShapes, RecordShapes, TrackerInv, TypeOK
<1> QED
  BY <1>1, Inductive, PTL

\* A challenge of the counterparty is answered at most once, by the worker or by
\* hand, for any number of rooms and challenges (handle_frame,
\* submit_recognition_response).
THEOREM AnsweredOnce == Spec => []OneAnswerPerChallenge
<1>1. IndInv => OneAnswerPerChallenge
  BY DEF IndInv, Once, ChallengesInv, InOnePlace, OneAnswerPerChallenge
<1> QED
  BY <1>1, Inductive, PTL

\* A confirmed block is in the file of the identity that asked for it, and in no
\* other, through every change of identity, failed write and crash (set_blocked).
THEOREM BlocksKept == Spec => []BlocksStick
<1>1. IndInv => BlocksStick
  BY DEF IndInv, Files, BlockedInv, Heeds, BlocksStick
<1> QED
  BY <1>1, Inductive, PTL

\* The history files count each room that ended once, for the identity that was
\* unlocked and a key that signed in it (record_encounter).
THEOREM EncountersCounted == Spec => []EncountersCountedOnce
<1>1. ASSUME IndInv PROVE EncountersCountedOnce
  <2>1. \A p \in Paths, k \in Keys : histories[p] # None =>
           Counts(histories[p].entries, credits, histories[p].secret, ~failed)
    BY <1>1 DEF IndInv, Files, CountedInv
  <2>2. /\ \A c \in credits : c.key \in signed[c.room]
        /\ \A c, d \in credits : c.room = d.room => c = d
    BY <1>1 DEF IndInv, Once, SignedInv, EndsInv
  <2> QED
    BY <2>1, <2>2 DEF Counts, Earned, EncountersCountedOnce
<1> QED
  BY <1>1, Inductive, PTL

=============================================================================

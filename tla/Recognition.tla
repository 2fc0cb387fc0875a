---------------------------- MODULE Recognition ----------------------------
(***************************************************************************)
(* Counterparty recognition in the dashboard and what is kept of it        *)
(* (recognition.cpp, dashboard_client.cpp, http_dashboard.cpp, history.cpp *)
(* and keystore.cpp): the challenges this client issues and answers, the   *)
(* identity that answers them, and the encrypted file in which encounters  *)
(* and blocks are remembered.                                              *)
(*                                                                         *)
(* Three kinds of thread meet here.  The HTTP server's threads run the     *)
(* user's requests; the client's worker handles one frame of the mediator  *)
(* after the other and calls back into the identity once it holds no lock; *)
(* the counterparty answers when it likes, by hand perhaps, or not at all. *)
(* A critical section is one action.                                       *)
(*                                                                         *)
(* Signatures are abstracted to whether they verify, a counterparty's      *)
(* fingerprint to the key it answered with, and a keystore file to its     *)
(* master secret: rotating the generation or changing the passphrase       *)
(* rewrites the file with the same one.  Of a history entry the encounters *)
(* and the block are kept; notes and evidence hashes are written alike.    *)
(***************************************************************************)
EXTENDS Integers, Sequences, FiniteSets

CONSTANTS Rooms, Keys,         \* rooms; keys counterparties prove
          Nonces,              \* nonces of the challenges issued here
          PeerNonces,          \* nonces of the challenges received
          Paths, Secrets,      \* keystore files; master secrets drawn
          None,
          MaxOutstanding,      \* kRecognitionMaxOutstandingChallenges
          MaxFaults            \* bound on crashes, lost links, failed writes

\* What the dashboard keeps about keys, in a file and in memory, and about the
\* identity it has loaded.
Entries == [Keys -> [count : Nat, blocked : BOOLEAN]]
Histories == [secret : Secrets, entries : Entries]
Handles == [path : Paths, secret : Secrets, entries : Entries]
Identities == [path : Paths, secret : Secrets, unlocked : BOOLEAN]

ASSUME RecognitionAssumption ==
    /\ None \notin Keys \cup PeerNonces \cup Paths \cup Secrets
    /\ None \notin Histories /\ None \notin Handles /\ None \notin Identities
    /\ MaxOutstanding \in Nat /\ MaxFaults \in Nat

VARIABLES
    link,        \* is the client connected
    live,        \* the mediator's rooms: "fresh", "open" or "over"
    view,        \* rooms_: what the dashboard shows of each room
    outstanding, \* recognition_tracker_: challenges not yet answered
    drawn,       \* nonces and master secrets used so far: each is random
    asked,       \* challenges the counterparty has not answered yet
    inbox,       \* frames on their way to the worker
    worker,      \* what the worker does once it holds no lock
    keystores,   \* the keystore files
    histories,   \* the history files, one beside each keystore
    identity,    \* identity_state.keystore, or None
    handle,      \* identity_state.history, or None
    persistent,  \* persistent_identity_enabled
    destroying,  \* paths whose file is gone and whose identity is still loaded
    faults,      \* crashes, lost links and failed writes so far
    failed,      \* history: did a write fail
    signed,      \* history: keys that answered a challenge in each room
    credits,     \* history: encounters recorded, by identity and room
    answers,     \* history: answers sent to each received challenge
    wanted       \* history: blocks requested and confirmed, by identity

session == <<link, live, view, outstanding, drawn, asked, inbox>>
ident == <<keystores, identity, persistent, destroying>>
records == <<histories, handle>>
ghosts == <<failed, signed, credits, answers, wanted>>
vars == <<session, worker, ident, records, faults, ghosts>>

NoView == [status |-> "none", fingerprint |-> None, incoming |-> None]

Idle == [pc |-> "idle", room |-> None, what |-> None]

NoEntries == [k \in Keys |-> [count |-> 0, blocked |-> FALSE]]

Secret == identity.secret
Unlocked == identity # None /\ identity.unlocked

Init ==
    /\ link = TRUE
    /\ live = [r \in Rooms |-> "fresh"]
    /\ view = [r \in Rooms |-> NoView]
    /\ outstanding = {} /\ drawn = {} /\ asked = {}
    /\ inbox = <<>>
    /\ worker = Idle
    /\ keystores = [p \in Paths |-> None]
    /\ histories = [p \in Paths |-> None]
    /\ identity = None
    /\ handle = None
    /\ persistent = FALSE
    /\ destroying = {}
    /\ faults = 0
    /\ failed = FALSE
    /\ signed = [r \in Rooms |-> {}]
    /\ credits = {}
    /\ answers = [m \in PeerNonces |-> 0]
    /\ wanted = [s \in Secrets |-> [k \in Keys |-> {FALSE}]]

-----------------------------------------------------------------------------
\* The room and the counterparty, seen through the mediator's relay, which
\* knows a room until it is over.
OpenRoom(r) ==
    /\ link /\ live[r] = "fresh"
    /\ live' = [live EXCEPT ![r] = "open"]
    /\ view' = [view EXCEPT ![r].status = "active"]
    /\ UNCHANGED <<link, outstanding, drawn, asked, inbox, worker, ident,
                   records, faults, ghosts>>

Frame(type, r, nonce, key, good) ==
    [type |-> type, room |-> r, nonce |-> nonce, key |-> key, good |-> good]

EndRoom(r, type) ==
    /\ link /\ live[r] = "open"
    /\ live' = [live EXCEPT ![r] = "over"]
    /\ inbox' = Append(inbox, Frame(type, r, None, None, TRUE))
    /\ UNCHANGED <<link, view, outstanding, drawn, asked, worker, ident,
                   records, faults, ghosts>>

PeerChallenges(r, m) ==
    /\ link /\ live[r] = "open" /\ m \notin drawn
    /\ drawn' = drawn \cup {m}
    /\ inbox' = Append(inbox, Frame("challenge", r, m, None, TRUE))
    /\ UNCHANGED <<link, live, view, outstanding, asked, worker, ident,
                   records, faults, ghosts>>

\* A signature that does not verify: the wrong suite, the wrong key.
PeerAnswers(c, k, good) ==
    /\ link /\ live[c.room] = "open" /\ c \in asked
    /\ asked' = asked \ {c}
    /\ inbox' = Append(inbox, Frame("response", c.room, c.nonce, k, good))
    /\ signed' = IF good THEN [signed EXCEPT ![c.room] = @ \cup {k}] ELSE signed
    /\ UNCHANGED <<link, live, view, outstanding, drawn, worker, ident,
                   records, faults, failed, credits, answers, wanted>>

-----------------------------------------------------------------------------
Issued(r, n) == outstanding \cup {[nonce |-> n, room |-> r]}

\* recognize: the challenge is outstanding even when there is no connection to
\* send it on.
Recognize(r, n) ==
    /\ view[r].status = "active"
    /\ Cardinality(outstanding) < MaxOutstanding
    /\ n \notin drawn
    /\ drawn' = drawn \cup {n}
    /\ outstanding' = Issued(r, n)
    /\ asked' = IF link THEN asked \cup {[nonce |-> n, room |-> r]} ELSE asked
    /\ UNCHANGED <<link, live, view, inbox, worker, ident, records, faults,
                   ghosts>>

\* A response is enough, whether or not it verifies.
VerifiesMutant(f, expired) ==
    [nonce |-> f.nonce, room |-> f.room] \in outstanding

\* consume: the challenge is known, for this room, not expired by now, and the
\* signature verifies.
Verifies(f, expired) ==
    /\ [nonce |-> f.nonce, room |-> f.room] \in outstanding
    /\ ~expired
    /\ f.good

\* ... and whatever comes of it, the challenge is used up.
Consumed(f) == outstanding \ {[nonce |-> f.nonce, room |-> f.room]}

\* A failed answer leaves an earlier recognition as it was.
Recognized(f, expired) ==
    IF Verifies(f, expired) THEN [view EXCEPT ![f.room].fingerprint = f.key]
    ELSE view

\* handle_frame under state_mutex_: callbacks are left for afterwards.
HandleFrame ==
    LET f == Head(inbox)
        r == f.room
    IN  /\ link /\ worker = Idle /\ inbox # <<>>
        /\ inbox' = Tail(inbox)
        /\ CASE f.type = "challenge" ->
                  /\ worker' = [pc |-> "key", room |-> r, what |-> f.nonce]
                  /\ UNCHANGED <<view, outstanding>>
             [] f.type = "response" ->
                  /\ outstanding' = Consumed(f)
                  /\ \E expired \in BOOLEAN : view' = Recognized(f, expired)
                  /\ UNCHANGED worker
             [] OTHER ->
                  /\ view' = [view EXCEPT ![r].status = f.type]
                  /\ worker' = IF view[r].fingerprint = None THEN Idle
                               ELSE [pc |-> "report", room |-> r,
                                     what |-> view[r].fingerprint]
                  /\ UNCHANGED outstanding
        /\ UNCHANGED <<link, live, drawn, asked, ident, records, faults,
                       ghosts>>

\* The key provider, asked under the identity's mutex: the user opted in, and a
\* keystore is unlocked.
HasKey == persistent /\ Unlocked

\* The answer is queued by the worker itself.
SendAnswer ==
    /\ worker.pc = "key"
    /\ HasKey
    /\ answers' = [answers EXCEPT ![worker.what] = @ + 1]
    /\ worker' = Idle
    /\ UNCHANGED <<session, ident, records, faults, failed, signed, credits,
                   wanted>>

\* Without a key, or for a suite this client does not know, the challenge
\* stays on the page, to be answered from outside.
Decline ==
    /\ worker.pc = "key"
    /\ view' = [view EXCEPT ![worker.room].incoming = worker.what]
    /\ worker' = Idle
    /\ UNCHANGED <<link, live, outstanding, drawn, asked, inbox, ident, records,
                   faults, ghosts>>

\* The pending challenge is looked at but not taken off the page.
SubmitResponseMutant(r, m) ==
    /\ view[r].incoming = m
    /\ answers' = IF link THEN [answers EXCEPT ![m] = @ + 1] ELSE answers
    /\ UNCHANGED <<session, worker, ident, records, faults, failed, signed,
                   credits, wanted>>

\* submit_recognition_response; without a connection the challenge is gone and
\* the answer not sent.
SubmitResponse(r, m) ==
    /\ view[r].incoming = m
    /\ view' = [view EXCEPT ![r].incoming = None]
    /\ answers' = IF link THEN [answers EXCEPT ![m] = @ + 1] ELSE answers
    /\ UNCHANGED <<link, live, outstanding, drawn, asked, inbox, worker,
                   ident, records, faults, failed, signed, credits, wanted>>

-----------------------------------------------------------------------------
\* LocalCounterpartyHistory.  ensure_history_open_locked needs an unlocked
\* keystore, and open a file that this keystore encrypted.
Opens ==
    /\ Unlocked
    /\ handle = None /\ histories[identity.path] # None =>
           histories[identity.path].secret = Secret

Opened ==
    IF handle # None THEN handle
    ELSE [path |-> identity.path, secret |-> Secret,
          entries |-> IF histories[identity.path] = None THEN NoEntries
                      ELSE histories[identity.path].entries]

\* persist: every change rewrites the file, and the whole of it.
Persist(h) ==
    /\ handle' = h
    /\ histories' = [histories EXCEPT ![h.path] =
                        [secret |-> h.secret, entries |-> h.entries]]

\* It throws: the change is in memory, and the next one will save it.
PersistFails(h) ==
    /\ faults < MaxFaults
    /\ faults' = faults + 1
    /\ failed' = TRUE
    /\ handle' = h
    /\ UNCHANGED histories

\* history/list opens the file and shows what is in it.
ListHistory ==
    /\ Opens
    /\ handle' = Opened
    /\ UNCHANGED <<session, worker, ident, histories, faults, ghosts>>

\* set_blocked, for block and unblock.
SetBlocked(k, b) ==
    LET h == [Opened EXCEPT !.entries[k].blocked = b]
    IN  /\ Opens
        /\ \/ /\ Persist(h)
              /\ wanted' = [wanted EXCEPT ![Secret][k] = {b}]
              /\ UNCHANGED <<faults, failed>>
           \/ /\ PersistFails(h)
              /\ wanted' = [wanted EXCEPT ![Secret][k] = @ \cup {b}]
        /\ UNCHANGED <<session, worker, ident, signed, credits, answers>>

\* The connection breaks: the mediator ends this client's rooms, and what was
\* under way is lost.  The tracker keeps its challenges.
Disconnected ==
    /\ link' = FALSE
    /\ live' = [r \in Rooms |-> IF live[r] = "fresh" THEN "fresh" ELSE "over"]
    /\ inbox' = <<>>
    /\ asked' = {}
    /\ worker' = Idle
    /\ UNCHANGED <<outstanding, drawn>>

\* record_encounter, for the identity that is unlocked.
Counted == [Opened EXCEPT !.entries[worker.what].count = @ + 1]

Credit == [secret |-> Secret, key |-> worker.what, room |-> worker.room]

\* The outcome handler, called by the worker: its exceptions end the connection.
Report ==
    /\ worker.pc = "report"
    /\ Opens
    /\ Persist(Counted)
    /\ credits' = credits \cup {Credit}
    /\ worker' = Idle
    /\ UNCHANGED <<session, ident, faults, failed, signed, answers, wanted>>

ReportNothing ==
    /\ worker.pc = "report"
    /\ ~Unlocked
    /\ worker' = Idle
    /\ UNCHANGED <<session, ident, records, faults, ghosts>>

ReportUnsaved ==
    /\ worker.pc = "report"
    /\ Opens
    /\ PersistFails(Counted)
    /\ credits' = credits \cup {Credit}
    /\ Disconnected
    /\ UNCHANGED <<view, ident, signed, answers, wanted>>

\* The file beside the keystore belongs to one that was there before.
ReportUnreadable ==
    /\ worker.pc = "report"
    /\ Unlocked /\ ~Opens
    /\ Disconnected
    /\ UNCHANGED <<view, ident, records, faults, ghosts>>

-----------------------------------------------------------------------------
\* The user's identity.  create refuses a path that is taken; unlock reads the
\* file; both forget the history of whichever identity was there before.
CreateIdentity(p, s) ==
    /\ keystores[p] = None /\ s \notin drawn
    /\ drawn' = drawn \cup {s}
    /\ keystores' = [keystores EXCEPT ![p] = s]
    /\ identity' = [path |-> p, secret |-> s, unlocked |-> TRUE]
    /\ handle' = None
    /\ UNCHANGED <<link, live, view, outstanding, asked, inbox, worker,
                   persistent, destroying, histories, faults, ghosts>>

Loaded(p) == [path |-> p, secret |-> keystores[p], unlocked |-> TRUE]

\* The handle on the history of the previous identity stays.
UnlockIdentityMutant(p) ==
    /\ keystores[p] # None
    /\ identity' = Loaded(p)
    /\ UNCHANGED <<session, worker, keystores, persistent, destroying,
                   histories, handle, faults, ghosts>>

UnlockIdentity(p) ==
    /\ keystores[p] # None
    /\ identity' = Loaded(p)
    /\ handle' = None
    /\ UNCHANGED <<session, worker, keystores, persistent, destroying,
                   histories, faults, ghosts>>

LockIdentity ==
    /\ Unlocked
    /\ identity' = [identity EXCEPT !.unlocked = FALSE]
    /\ UNCHANGED <<session, worker, keystores, persistent, destroying, records,
                   faults, ghosts>>

SetTier ==
    /\ persistent' = ~persistent
    /\ UNCHANGED <<session, worker, keystores, identity, destroying, records,
                   faults, ghosts>>

\* The file is shredded before the identity's mutex is taken ...
DestroyFile(p) ==
    /\ keystores[p] # None
    /\ keystores' = [keystores EXCEPT ![p] = None]
    /\ destroying' = destroying \cup {p}
    /\ UNCHANGED <<session, worker, identity, persistent, records, faults,
                   ghosts>>

\* ... and whatever identity has that path by then is forgotten.
ForgetDestroyed(p) ==
    /\ p \in destroying
    /\ destroying' = destroying \ {p}
    /\ IF identity # None /\ identity.path = p
       THEN identity' = None /\ handle' = None
       ELSE UNCHANGED <<identity, handle>>
    /\ UNCHANGED <<session, worker, keystores, persistent, histories, faults,
                   ghosts>>

-----------------------------------------------------------------------------
\* The worker finds the connection broken, between two frames.
LoseLink ==
    /\ link /\ worker = Idle /\ faults < MaxFaults
    /\ faults' = faults + 1
    /\ Disconnected
    /\ UNCHANGED <<view, ident, records, ghosts>>

\* worker_loop connects again and forgets its rooms.
Reconnect ==
    /\ ~link
    /\ link' = TRUE
    /\ view' = [r \in Rooms |-> NoView]
    /\ UNCHANGED <<live, outstanding, drawn, asked, inbox, worker, ident,
                   records, faults, ghosts>>

\* The dashboard dies and is started again.
Crash ==
    /\ faults < MaxFaults
    /\ faults' = faults + 1
    /\ link' = FALSE
    /\ live' = [r \in Rooms |-> IF live[r] = "fresh" THEN "fresh" ELSE "over"]
    /\ inbox' = <<>> /\ asked' = {} /\ outstanding' = {}
    /\ view' = [r \in Rooms |-> NoView]
    /\ worker' = Idle
    /\ identity' = None /\ handle' = None
    /\ persistent' = FALSE /\ destroying' = {}
    /\ UNCHANGED <<drawn, keystores, histories, ghosts>>

Next ==
    \/ \E r \in Rooms :
          \/ OpenRoom(r)
          \/ EndRoom(r, "complete") \/ EndRoom(r, "aborted")
          \/ \E m \in PeerNonces : PeerChallenges(r, m) \/ SubmitResponse(r, m)
          \/ \E n \in Nonces : Recognize(r, n)
    \/ \E c \in asked, k \in Keys, good \in BOOLEAN : PeerAnswers(c, k, good)
    \/ HandleFrame \/ SendAnswer \/ Decline
    \/ ListHistory
    \/ \E k \in Keys, b \in BOOLEAN : SetBlocked(k, b)
    \/ Report \/ ReportNothing \/ ReportUnsaved \/ ReportUnreadable
    \/ \E p \in Paths :
          \/ \E s \in Secrets : CreateIdentity(p, s)
          \/ UnlockIdentity(p)
          \/ DestroyFile(p) \/ ForgetDestroyed(p)
    \/ LockIdentity \/ SetTier
    \/ LoseLink \/ Reconnect \/ Crash

Spec == Init /\ [][Next]_vars

-----------------------------------------------------------------------------
TypeOK ==
    LET challenges == [nonce : Nonces, room : Rooms]
    IN  /\ link \in BOOLEAN
        /\ live \in [Rooms -> {"fresh", "open", "over"}]
        /\ view \in [Rooms ->
               [status : {"none", "active", "complete", "aborted"},
                fingerprint : Keys \cup {None},
                incoming : PeerNonces \cup {None}]]
        /\ outstanding \subseteq challenges
        /\ asked \subseteq challenges
        /\ Cardinality(outstanding) <= MaxOutstanding
        /\ keystores \in [Paths -> Secrets \cup {None}]
        /\ histories \in [Paths -> Histories \cup {None}]
        /\ identity \in Identities \cup {None}
        /\ handle \in Handles \cup {None}
        /\ persistent \in BOOLEAN
        /\ destroying \subseteq Paths
        /\ faults \in 0..MaxFaults

\* "Exactly once per room ... never for a room where no fingerprint was ever
\* recognized": what a history file says about a key is the number of rooms
\* that ended while that identity was unlocked and in which that key answered
\* a challenge, through locks, changes of identity, crashes and lost links; a
\* write that failed can only make it fewer.
EncountersCountedOnce ==
    /\ \A c \in credits : c.key \in signed[c.room]
    /\ \A c, d \in credits : c.room = d.room => c = d
    /\ \A p \in Paths, k \in Keys :
          histories[p] # None =>
              LET earned == Cardinality({c \in credits :
                                /\ c.secret = histories[p].secret
                                /\ c.key = k})
              IN  /\ histories[p].entries[k].count <= earned
                  /\ ~failed => histories[p].entries[k].count = earned

\* A block or unblock that was confirmed is in the identity's file until the
\* user changes it: no encounter, change of identity or crash undoes it or
\* puts it into the file of another identity.  One that was refused for a
\* failed write may or may not be there.
BlocksStick ==
    \A s \in Secrets, k \in Keys :
        LET files == {p \in Paths : histories[p] # None
                                    /\ histories[p].secret = s}
        IN  /\ \A p \in files :
                  histories[p].entries[k].blocked \in wanted[s][k]
            /\ files = {} => FALSE \in wanted[s][k]

\* A received challenge is answered at most once, by the worker or by hand:
\* the counterparty takes one answer and treats the next one as a failure.
OneAnswerPerChallenge == \A m \in PeerNonces : answers[m] <= 1
=============================================================================

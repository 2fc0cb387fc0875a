---------------------------- MODULE BlindTickets ----------------------------
(***************************************************************************)
(* Blind-signed credentials: the session of a client                       *)
(* (blindsig_client_q7933.cpp) with its prover thread, the connection that *)
(* carries a request in chunks, the mediator's handlers (lobby.cpp), the   *)
(* signer's bounded queue and workers (blindsig_signer_q7933.cpp), and the *)
(* two stores on disk: the markers that a right was used                   *)
(* (q7933_issuance_store.cpp) and the tickets that wait for the operator   *)
(* (blindsig_ticket_store_q7933.cpp).                                      *)
(*                                                                         *)
(* A request is named by its place in asks.  Its blinded target, the       *)
(* randomness that unblinds the signature, and the random id of its ticket *)
(* are all known by that number.  A client's right is the one of the party *)
(* it played in a completed room, and is named by the client; a raw        *)
(* request uses no right.  A right is also for one epoch, which the        *)
(* request names itself (lobby.cpp:1521): here it is always the one that   *)
(* the dashboard sends (dashboard_client.cpp:354).  A crash is the end of  *)
(* the process, and what it wrote stays written.                           *)
(***************************************************************************)
EXTENDS Naturals, Sequences, FiniteSets

CONSTANTS Clients, Workers,
          CommandLine,      \* clients that can only make raw requests (main.cpp)
          QueueCapacity,    \* queue_capacity_
          MaxTickets,       \* max_pending_tickets_
          Chunks,           \* chunks of a request
          MaxPresses, MaxRequests,
          MaxTroubles       \* bound on lost connections, crashes, disk errors

ASSUME BlindTicketsAssumption ==
    /\ {QueueCapacity, MaxTickets, Chunks} \subseteq Nat \ {0}
    /\ {MaxPresses, MaxRequests, MaxTroubles} \subseteq Nat
    /\ CommandLine \subseteq Clients
    /\ Workers # {} /\ "raw" \notin Clients

VARIABLES
    asks,       \* the requests made: [client, right]
    stage,      \* stage_ of each client's session
    ticket,     \* pending_ticket_id_, 0 if none
    target,     \* the request that mu_, r_json_ and rho_hex_ belong to
    credential, \* credential_: the request it was issued for, 0 if none
    prover,     \* the session's worker_ thread: [pc, of, chunk]
    starting,   \* the right of a start_request that waits in join, or "no"
    known,      \* rooms_ still has the completed room
    connected, conn,    \* the connection is up, and its number
    up, down,   \* frames under way
    assembler,  \* the mediator's blindsig_assembler of the connection
    bad,        \* bad_messages
    queue,      \* queue_ of the signer: [of, conn]
    worker,     \* the signer's workers: [pc, job]
    marker,     \* the issuance marker of each right: "none", "torn", "whole"
    burnt,      \* history: the rights on whose marker a call to the disk failed
    tickets,    \* the ticket files: status by ticket
    issued,     \* history: the requests that got a ticket file
    presses, troubles,
    crashed     \* history: the mediator has crashed

session == <<stage, ticket, target, credential, prover, starting>>
wire == <<connected, conn, known, up, down, assembler, bad>>
signer == <<queue, worker>>
disk == <<marker, burnt, tickets, issued>>
budget == <<presses, troubles, crashed>>
vars == <<asks, session, wire, signer, disk, budget>>

-----------------------------------------------------------------------------
Asks == 1..Len(asks)
Client(a) == asks[a].client
Right(a) == asks[a].right
UsesRight(a) == Right(a) # "raw"

NoProver == [pc |-> "none", of |-> 0, chunk |-> 0]
NoAssembler == [of |-> 0, next |-> 1]
NoJob == [of |-> 0, conn |-> 0]
Idle == [pc |-> "idle", job |-> NoJob]

Init ==
    /\ asks = <<>>
    /\ stage = [c \in Clients |-> "Idle"]
    /\ ticket = [c \in Clients |-> 0]
    /\ target = [c \in Clients |-> 0]
    /\ credential = [c \in Clients |-> 0]
    /\ prover = [c \in Clients |-> NoProver]
    /\ starting = [c \in Clients |-> "no"]
    /\ known = [c \in Clients |-> TRUE]
    /\ connected = [c \in Clients |-> TRUE]
    /\ conn = [c \in Clients |-> 1]
    /\ up = [c \in Clients |-> <<>>]
    /\ down = [c \in Clients |-> <<>>]
    /\ assembler = [c \in Clients |-> NoAssembler]
    /\ bad = [c \in Clients |-> 0]
    /\ queue = <<>>
    /\ worker = [w \in Workers |-> Idle]
    /\ marker = [c \in Clients |-> "none"]
    /\ burnt = {}
    /\ tickets = <<>>
    /\ issued = {}
    /\ presses = 0 /\ troubles = 0 /\ crashed = FALSE

-----------------------------------------------------------------------------
(* The client's session.                                                   *)

Press ==
    /\ presses < MaxPresses
    /\ presses' = presses + 1
    /\ UNCHANGED <<troubles, crashed>>

Trouble == troubles < MaxTroubles /\ troubles' = troubles + 1

SetStage(c, s) == stage' = [stage EXCEPT ![c] = s]

\* DashboardClient::enqueue throws when the connection is down; the caller has
\* already stored its new stage by then.
Send(c, frame) ==
    up' = IF connected[c] THEN [up EXCEPT ![c] = Append(@, frame)] ELSE up

RequestInfo(c) ==
    /\ Press
    /\ SetStage(c, "AwaitingInfo")
    /\ Send(c, [type |-> "Info"])
    /\ UNCHANGED <<asks, ticket, target, credential, prover, starting, known,
                   connected, conn, down, assembler, bad, signer, disk>>

\* Whatever the session was doing, the answer makes it idle.
OnInfoResponse(c) ==
    /\ down[c] # <<>> /\ Head(down[c]).type = "Info"
    /\ down' = [down EXCEPT ![c] = Tail(@)]
    /\ SetStage(c, "Idle")
    /\ UNCHANGED <<asks, ticket, target, credential, prover, starting, known,
                   connected, conn, up, assembler, bad, signer, disk, budget>>

\* The stage is checked before the previous thread is joined; a room's right
\* can be asked for while the room is still in rooms_.
StartRequest(c, right) ==
    /\ Press
    /\ stage[c] = "Idle" /\ starting[c] = "no"
    /\ right = c => known[c] /\ c \notin CommandLine
    /\ starting' = [starting EXCEPT ![c] = right]
    /\ UNCHANGED <<asks, stage, ticket, target, credential, prover, wire,
                   signer, disk>>

\* The thread blinds its message, proves, and then sends; all this time the
\* stage is kBlindingAndProvingNizk1, unless somebody overwrites it.
StartProver(c) ==
    /\ starting[c] # "no" /\ prover[c] = NoProver
    /\ Len(asks) < MaxRequests
    /\ asks' = Append(asks, [client |-> c, right |-> starting[c]])
    /\ starting' = [starting EXCEPT ![c] = "no"]
    /\ ticket' = [ticket EXCEPT ![c] = 0]
    /\ credential' = [credential EXCEPT ![c] = 0]
    /\ SetStage(c, "Blinding")
    /\ prover' = [prover EXCEPT
                    ![c] = [pc |-> "send", of |-> Len(asks) + 1, chunk |-> 1]]
    /\ target' = [target EXCEPT ![c] = Len(asks) + 1]
    /\ UNCHANGED <<wire, signer, disk, budget>>

\* fail(): the stage is overwritten whatever it is.
ProverFails(c) ==
    /\ SetStage(c, "Failed")
    /\ prover' = [prover EXCEPT ![c] = NoProver]

\* user-blind, user-prove-nizk1 or the authorization by the party's key fails.
ProofFails(c) ==
    /\ prover[c].pc = "send" /\ prover[c].chunk = 1
    /\ ProverFails(c)
    /\ UNCHANGED <<asks, ticket, target, credential, starting, wire, signer,
                   disk, budget>>

SendChunk(c) ==
    /\ prover[c].pc = "send"
    /\ IF connected[c]
       THEN /\ Send(c, [type |-> "Chunk", of |-> prover[c].of,
                        index |-> prover[c].chunk])
            /\ prover' = [prover EXCEPT
                    ![c].chunk = @ + 1,
                    ![c].pc = IF prover[c].chunk = Chunks THEN "sent" ELSE @]
            /\ UNCHANGED stage
       ELSE ProverFails(c) /\ UNCHANGED up
    /\ UNCHANGED <<asks, ticket, target, credential, starting, known,
                   connected, conn, down, assembler, bad, signer, disk, budget>>

\* The stage in which an answer is expected is stored after the last chunk
\* went out.
AwaitResponse(c) ==
    /\ prover[c].pc = "sent"
    /\ SetStage(c, "AwaitingInitial")
    /\ prover' = [prover EXCEPT ![c] = NoProver]
    /\ UNCHANGED <<asks, ticket, target, credential, starting, wire, signer,
                   disk, budget>>

PollTicket(c) ==
    /\ Press
    /\ ticket[c] # 0
    /\ SetStage(c, "AwaitingPolled")
    /\ Send(c, [type |-> "Poll", of |-> ticket[c]])
    /\ UNCHANGED <<asks, ticket, target, credential, prover, starting, known,
                   connected, conn, down, assembler, bad, signer, disk>>

Expecting(c) ==
    stage[c] \in {"AwaitingInitial", "AwaitingPolled", "AwaitingApproval"}

OnSignerResponse(c) ==
    /\ down[c] # <<>> /\ Head(down[c]).type = "Response"
    /\ down' = [down EXCEPT ![c] = Tail(@)]
    /\ LET r == Head(down[c]) IN
       \/ /\ ~Expecting(c) \/ r.status \notin {"Pending", "Ok"}
          /\ SetStage(c, "Failed")
          /\ UNCHANGED <<ticket, prover>>
       \/ /\ Expecting(c) /\ r.status = "Pending"
          /\ ticket' = [ticket EXCEPT ![c] = r.of]
          /\ SetStage(c, "AwaitingApproval")
          /\ UNCHANGED prover
       \/ /\ Expecting(c) /\ r.status = "Ok"
          /\ prover[c] = NoProver
          /\ SetStage(c, "Finalizing")
          /\ prover' = [prover EXCEPT
                          ![c] = [pc |-> "finalize", of |-> r.of, chunk |-> 0]]
          /\ UNCHANGED ticket
    /\ UNCHANGED <<asks, target, credential, starting, known, connected, conn,
                   up, assembler, bad, signer, disk, budget>>

\* user-finalize-prove-nizk2 and verify-signature: the unblinded signature
\* verifies when it is the one of the target that the session's randomness
\* belongs to.
VerifiesMutant(c) == TRUE

Verifies(c) == prover[c].of = target[c]

Ready(c) ==
    /\ credential' = [credential EXCEPT ![c] = prover[c].of]
    /\ ticket' = [ticket EXCEPT ![c] = 0]
    /\ SetStage(c, "Ready")
    /\ prover' = [prover EXCEPT ![c] = NoProver]

Finalize(c) ==
    /\ prover[c].pc = "finalize"
    /\ \/ Verifies(c) /\ Ready(c)
       \/ ProverFails(c) /\ UNCHANGED <<credential, ticket>>
    /\ UNCHANGED <<asks, target, starting, wire, signer, disk, budget>>

-----------------------------------------------------------------------------
(* The connection.  When it ends, what is under way on it is lost, and so  *)
(* are the mediator's assembler and the answers its workers still owe it.  *)

Closed(c) ==
    /\ connected' = [connected EXCEPT ![c] = FALSE]
    /\ up' = [up EXCEPT ![c] = <<>>]
    /\ down' = [down EXCEPT ![c] = <<>>]
    /\ assembler' = [assembler EXCEPT ![c] = NoAssembler]
    /\ bad' = [bad EXCEPT ![c] = 0]

Drop(c) ==
    /\ connected[c]
    /\ Trouble
    /\ Closed(c)
    /\ UNCHANGED <<asks, session, known, conn, signer, disk, presses,
                   crashed>>

\* worker_loop opens the connection again and clears rooms_.
Reconnect(c) ==
    /\ ~connected[c]
    /\ connected' = [connected EXCEPT ![c] = TRUE]
    /\ conn' = [conn EXCEPT ![c] = @ + 1]
    /\ known' = [known EXCEPT ![c] = FALSE]
    /\ UNCHANGED <<asks, session, up, down, assembler, bad, signer, disk,
                   budget>>

-----------------------------------------------------------------------------
(* The mediator's handlers.                                                *)

\* Busy, Rejected and Error are one answer to the client: it fails.
Response(status, a) == [type |-> "Response", status |-> status, of |-> a]

\* The queue of answers of connection k of client c: enqueue on a Client that
\* is gone reaches nobody.
Reply(c, k, frame) ==
    down' = IF connected[c] /\ conn[c] = k
            THEN [down EXCEPT ![c] = Append(@, frame)] ELSE down

Receives(c, type) == up[c] # <<>> /\ Head(up[c]).type = type
Consume(c) == up' = [up EXCEPT ![c] = Tail(@)]

HandleInfoRequest(c) ==
    /\ Receives(c, "Info")
    /\ Consume(c)
    /\ Reply(c, conn[c], [type |-> "Info"])
    /\ UNCHANGED <<asks, session, connected, conn, known, assembler, bad,
                   signer, disk, budget>>

\* add_chunk: the first chunk seen fixes the length of the request, even one
\* that is refused for its index, and an assembler that refused a chunk is
\* kept.  A later request may have another length, and is then refused, or
\* the same.
Started(c, a) ==
    IF assembler[c].of = 0 THEN [assembler[c] EXCEPT !.of = a] ELSE assembler[c]

Fits(c, m) == m.index = assembler[c].next

FitsNot(c, m) ==
    m.index # assembler[c].next \/ Started(c, m.of).of # m.of

\* The third message that a handler refuses ends the connection.
RefuseChunk(c) ==
    /\ Receives(c, "Chunk") /\ FitsNot(c, Head(up[c]))
    /\ IF bad[c] + 1 >= 3
       THEN Closed(c)
       ELSE /\ Consume(c)
            /\ assembler' = [assembler EXCEPT ![c] = Started(c, Head(up[c]).of)]
            /\ bad' = [bad EXCEPT ![c] = @ + 1]
            /\ UNCHANGED <<connected, down>>
    /\ UNCHANGED <<asks, session, conn, known, signer, disk, budget>>

AddChunk(c) ==
    /\ Receives(c, "Chunk") /\ Fits(c, Head(up[c]))
    /\ Head(up[c]).index < Chunks
    /\ Consume(c)
    /\ assembler' = [assembler EXCEPT
                       ![c] = [of |-> Head(up[c]).of, next |-> Head(up[c]).index + 1]]
    /\ UNCHANGED <<asks, session, connected, conn, known, down, bad, signer,
                   disk, budget>>

HasRoom == Len(queue) < QueueCapacity

\* The last chunk: the authorization of a right is verified, and the request
\* is queued unless the queue is full.
SubmitRequest(c) ==
    /\ Receives(c, "Chunk") /\ Fits(c, Head(up[c]))
    /\ Head(up[c]).index = Chunks
    /\ Consume(c)
    /\ assembler' = [assembler EXCEPT ![c] = NoAssembler]
    /\ LET a == Head(up[c]).of IN
       \/ /\ UsesRight(a)
          /\ Reply(c, conn[c], Response("Refused", 0))
          /\ UNCHANGED queue
       \/ /\ ~HasRoom
          /\ Reply(c, conn[c], Response("Refused", 0))
          /\ UNCHANGED queue
       \/ /\ HasRoom
          /\ queue' = Append(queue, [of |-> a, conn |-> conn[c]])
          /\ UNCHANGED down
    /\ UNCHANGED <<asks, session, connected, conn, known, bad, worker, disk,
                   budget>>

Pending(a) == a \in DOMAIN tickets /\ tickets[a] = "pending"
Signed(a) == a \in DOMAIN tickets /\ tickets[a] = "signed"
Without(f, a) == [b \in DOMAIN f \ {a} |-> f[b]]

\* find, the answer, and remove once the answer is queued; remove ignores
\* that the file could not be removed.
CollectsMutant(a) == Signed(a) \/ Pending(a)

Collects(a) == Signed(a)

HandlePoll(c) ==
    /\ Receives(c, "Poll")
    /\ Consume(c)
    /\ LET a == Head(up[c]).of IN
       /\ Reply(c, conn[c], CASE Signed(a) -> Response("Ok", a)
                              [] Pending(a) -> Response("Pending", a)
                              [] OTHER -> Response("Refused", 0))
       /\ \/ Collects(a) /\ tickets' = Without(tickets, a)
          \/ UNCHANGED tickets
    /\ UNCHANGED <<asks, session, connected, conn, known, assembler, bad,
                   signer, marker, burnt, issued, budget>>

\* SIGNBLINDSIG on the operator's channel, which is served by one thread.
SignTicket(a) ==
    /\ Pending(a)
    /\ tickets' = [tickets EXCEPT ![a] = "signed"]
    /\ UNCHANGED <<asks, session, wire, signer, marker, burnt, issued, budget>>

-----------------------------------------------------------------------------
(* The signer's workers.                                                   *)

At(w, pc) == worker[w].pc = pc
Ask(w) == worker[w].job.of
Goto(w, pc) == worker' = [worker EXCEPT ![w].pc = pc]

\* The job ends with an answer.
Answer(w, status) ==
    /\ worker' = [worker EXCEPT ![w] = Idle]
    /\ Reply(Client(Ask(w)), worker[w].job.conn,
             Response(status, IF status = "Pending" THEN Ask(w) ELSE 0))

Fault == Trouble /\ UNCHANGED <<presses, crashed>>

\* The proof of the request is checked before anything on disk is touched.
TakeJob(w) ==
    /\ At(w, "idle") /\ queue # <<>>
    /\ worker' = [worker EXCEPT ![w] =
            [pc |-> IF UsesRight(Head(queue).of) THEN "claim" ELSE "count",
             job |-> Head(queue)]]
    /\ queue' = Tail(queue)
    /\ UNCHANGED <<asks, session, wire, disk, budget>>

\* signer-verify-nizk1 fails, or refuses the proof.
RefuseProof ==
    /\ queue # <<>>
    /\ \E w \in Workers : At(w, "idle")
    /\ queue' = Tail(queue)
    /\ Reply(Client(Head(queue).of), Head(queue).conn, Response("Refused", 0))
    /\ UNCHANGED <<asks, session, connected, conn, known, up, assembler, bad,
                   worker, disk, budget>>

\* record_issuance: the file is created exclusively under its final name, an
\* existing one is read, and an error of either refuses the request.
UnusedMutant(r) == marker[r] # "whole"

Unused(r) == marker[r] = "none"

Claim(w) ==
    /\ At(w, "claim")
    /\ LET r == Right(Ask(w)) IN
       \/ /\ Unused(r)
          /\ marker' = [marker EXCEPT ![r] = "torn"]
          /\ Goto(w, "write")
          /\ UNCHANGED <<down, budget>>
       \/ /\ \/ ~Unused(r) /\ UNCHANGED budget
             \/ Fault
          /\ Answer(w, "Refused")
          /\ UNCHANGED marker
    /\ UNCHANGED <<asks, session, connected, conn, known, up, assembler, bad,
                   queue, burnt, tickets, issued>>

\* write, fsync and close.  When one of them fails, what is in the file by then
\* stays, all of it after a failing fsync or close; process_job has not set
\* issuance_claimed yet, and rolls nothing back.
Burn(w) == burnt' = burnt \cup {Right(Ask(w))}

WriteMarker(w) ==
    /\ At(w, "write")
    /\ LET whole == [marker EXCEPT ![Right(Ask(w))] = "whole"] IN
       \/ /\ marker' = whole
          /\ Goto(w, "count")
          /\ UNCHANGED <<burnt, down, budget>>
       \/ /\ Fault
          /\ marker' \in {marker, whole}
          /\ Burn(w)
          /\ Answer(w, "Refused")
    /\ UNCHANGED <<asks, session, connected, conn, known, up, assembler, bad,
                   queue, tickets, issued>>

\* rollback_uncommitted_issuance is best effort: an error of the removal is
\* ignored.
RollbackMutant(w) == UNCHANGED <<marker, burnt>>

Rollback(w) ==
    \/ ~UsesRight(Ask(w)) /\ UNCHANGED <<marker, burnt>>
    \/ /\ UsesRight(Ask(w))
       /\ marker' = [marker EXCEPT ![Right(Ask(w))] = "none"]
       /\ UNCHANGED burnt
    \/ UsesRight(Ask(w)) /\ Burn(w) /\ UNCHANGED marker

\* Q7933TicketStore::submit counts the files and then writes its own.
Full == Cardinality(DOMAIN tickets) >= MaxTickets

CountTickets(w) ==
    /\ At(w, "count")
    /\ \/ /\ Full
          /\ Rollback(w)
          /\ Answer(w, "Refused")
       \/ /\ ~Full
          /\ Goto(w, "store")
          /\ UNCHANGED <<marker, burnt, down>>
    /\ UNCHANGED <<asks, session, connected, conn, known, up, assembler, bad,
                   queue, tickets, issued, budget>>

StoreTicket(w) ==
    /\ At(w, "store")
    /\ \/ /\ tickets' = [a \in DOMAIN tickets \cup {Ask(w)} |->
                           IF a = Ask(w) THEN "pending" ELSE tickets[a]]
          /\ issued' = issued \cup {Ask(w)}
          /\ Answer(w, "Pending")
          /\ UNCHANGED <<marker, burnt, budget>>
       \/ /\ Fault
          /\ Rollback(w)
          /\ Answer(w, "Refused")
          /\ UNCHANGED <<tickets, issued>>
    /\ UNCHANGED <<asks, session, connected, conn, known, up, assembler, bad,
                   queue>>

-----------------------------------------------------------------------------
\* The mediator's process ends anywhere and is started again on its stores.
Crash ==
    /\ Trouble
    /\ crashed' = TRUE
    /\ queue' = <<>>
    /\ worker' = [w \in Workers |-> Idle]
    /\ connected' = [c \in Clients |-> FALSE]
    /\ up' = [c \in Clients |-> <<>>]
    /\ down' = [c \in Clients |-> <<>>]
    /\ assembler' = [c \in Clients |-> NoAssembler]
    /\ bad' = [c \in Clients |-> 0]
    /\ UNCHANGED <<asks, session, conn, known, disk, presses>>

ClientStep(c) ==
    \/ RequestInfo(c) \/ OnInfoResponse(c)
    \/ \E right \in {c, "raw"} : StartRequest(c, right)
    \/ StartProver(c)
    \/ ProofFails(c) \/ SendChunk(c) \/ AwaitResponse(c)
    \/ PollTicket(c) \/ OnSignerResponse(c) \/ Finalize(c)

MediatorStep(c) ==
    \/ HandleInfoRequest(c) \/ AddChunk(c) \/ RefuseChunk(c)
    \/ SubmitRequest(c) \/ HandlePoll(c)

WorkerStep(w) ==
    \/ TakeJob(w) \/ Claim(w) \/ WriteMarker(w)
    \/ CountTickets(w) \/ StoreTicket(w)

Next ==
    \/ \E c \in Clients : \/ ClientStep(c) \/ MediatorStep(c)
                          \/ Drop(c) \/ Reconnect(c)
    \/ RefuseProof \/ \E w \in Workers : WorkerStep(w)
    \/ \E a \in Asks : SignTicket(a)
    \/ Crash

Spec == Init /\ [][Next]_vars

-----------------------------------------------------------------------------
Stages == {"Idle", "AwaitingInfo", "Blinding", "AwaitingInitial",
           "AwaitingApproval", "AwaitingPolled", "Finalizing", "Ready", "Failed"}

TypeOK ==
    /\ asks \in Seq([client : Clients, right : Clients \cup {"raw"}])
    /\ stage \in [Clients -> Stages]
    /\ {ticket[c] : c \in Clients} \subseteq Asks \cup {0}
    /\ {target[c] : c \in Clients} \subseteq Asks \cup {0}
    /\ {credential[c] : c \in Clients} \subseteq Asks \cup {0}
    /\ Len(queue) <= QueueCapacity
    /\ \A w \in Workers : At(w, "idle") \/ Ask(w) \in Asks
    /\ marker \in [Clients -> {"none", "torn", "whole"}]
    /\ burnt \subseteq Clients
    /\ DOMAIN tickets \subseteq issued /\ issued \subseteq Asks

\* However often a client asks, whichever worker takes the job, and whatever
\* fails or restarts in between: a right never gets a second ticket.
OneTicketPerRight ==
    \A a, b \in issued : UsesRight(a) /\ Right(a) = Right(b) => a = b

Working(r) == \E w \in Workers :
    worker[w].pc \in {"write", "count", "store"} /\ Right(Ask(w)) = r

\* A right with a marker, whole or torn, has had a ticket or is one a worker is
\* just using: whether the store is full, the ticket cannot be written or a
\* connection is gone, the right is given back (process_job).  Two things only
\* can cost a client its credential: the end of the process in between, and a
\* disk that fails on the marker itself, when it is written or rolled back.
RightsAreGivenBack ==
    \A r \in Clients \ burnt :
        marker[r] # "none" /\ ~crashed
            => Working(r) \/ \E a \in issued : Right(a) = r

\* A ticket of a right keeps its marker, so that the rollback of another
\* job can never release a right that is in use.
TicketsKeepTheirMarker ==
    \A a \in issued : UsesRight(a) => marker[Right(a)] = "whole"

\* A credential is for a target that this client blinded, and for which the
\* mediator once issued a ticket, even when the answer to an abandoned
\* request was taken for the answer to the next one.
CredentialsAreOwn ==
    \A c \in Clients : credential[c] # 0 =>
        /\ credential[c] = target[c] /\ Client(credential[c]) = c
        /\ credential[c] \in issued /\ ~Pending(credential[c])

\* Where a right is, read off the two stores.
Rights == Clients \ CommandLine

GrantOf(r) ==
    IF marker[r] = "none" THEN "free"
    ELSE LET mine == {a \in issued : Right(a) = r} IN
         CASE mine = {} -> "claimed"
           [] \E a \in mine : Pending(a) -> "pending"
           [] \E a \in mine : Signed(a) -> "signed"
           [] OTHER -> "taken"

GrantSpec == INSTANCE Grant WITH grant <- [r \in Rights |-> GrantOf(r)]

\* The signer's queue, its workers and the two stores on disk implement Grant:
\* a right moves from free to taken one step at a time, and back to free only
\* before it has a ticket, whatever crashes or fails in between.
ImplementsGrant == GrantSpec!Spec

-----------------------------------------------------------------------------
\* Q7933TicketStore::remove is "called once a client has successfully polled
\* and retrieved a kSigned ticket's result" (blindsig_ticket_store_q7933.hpp):
\* a signature that has left the store is with its client or on its way.
RetrievedBeforeRemoved ==
    \A a \in issued \ DOMAIN tickets :
        LET c == Client(a) IN
        \/ \E i \in 1..Len(down[c]) :
               down[c][i] = Response("Ok", a)
        \/ stage[c] \in {"Finalizing", "Ready", "Failed"}
=============================================================================

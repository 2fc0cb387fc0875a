------------------------ MODULE BlindTickets_proofs ------------------------
(***************************************************************************)
(* Theorems about BlindTickets, for any number of clients, workers,        *)
(* requests, chunks and failures: a right never gets a second ticket, it   *)
(* is given back unless the process ended in between, a credential is the  *)
(* client's own, and the signer with its two stores implements Grant.      *)
(*                                                                         *)
(* Two invariants carry them.  RightsInv is about the markers: a right is  *)
(* in the hands of at most one worker between record_issuance and the      *)
(* ticket, and of none once it has a ticket.  OnTheWay is about the        *)
(* requests: from the prover over the wire, the queue and a worker to the  *)
(* ticket file, a request is in one place at a time, so that a ticket that *)
(* was collected is never written again.                                   *)
(***************************************************************************)
EXTENDS BlindTickets, TLAPS

UpFrames ==
    [type : {"Info"}] \cup [type : {"Poll"}, of : Nat]
        \cup [type : {"Chunk"}, of : Nat, index : Nat]

DownFrames ==
    [type : {"Info"}]
        \cup [type : {"Response"}, status : {"Pending", "Ok", "Refused"}, of : Nat]

Provers == [pc : {"none", "send", "sent", "finalize"}, of : Nat, chunk : Nat]
Jobs == [of : Nat, conn : Nat]
Pcs == {"idle", "claim", "write", "count", "store"}

SessionShapes ==
    /\ asks \in Seq([client : Clients, right : Clients \cup {"raw"}])
    /\ stage \in [Clients -> Stages]
    /\ ticket \in [Clients -> Nat] /\ target \in [Clients -> Nat]
    /\ credential \in [Clients -> Nat]
    /\ prover \in [Clients -> Provers]
    /\ starting \in [Clients -> Clients \cup {"raw", "no"}]

WireShapes ==
    /\ conn \in [Clients -> Nat]
    /\ up \in [Clients -> Seq(UpFrames)]
    /\ down \in [Clients -> Seq(DownFrames)]

SignerShapes ==
    /\ queue \in Seq(Jobs) /\ Len(queue) <= QueueCapacity
    /\ worker \in [Workers -> [pc : Pcs, job : Jobs]]
    /\ marker \in [Clients -> {"none", "torn", "whole"}]
    /\ burnt \subseteq Clients

Shapes == SessionShapes /\ WireShapes /\ SignerShapes

\* The final chunk of a request is what submits it.
Final(f) == f.type = "Chunk" /\ f.index = Chunks

\* The places in which request a waits for its ticket: a client's prover, the
\* wire, the signer's queue, a worker.
Sends(c, a) == prover[c].pc = "send" /\ prover[c].of = a
Wired(c, a) == \E i \in 1..Len(up[c]) : Final(up[c][i]) /\ up[c][i].of = a
Queued(a) == \E i \in 1..Len(queue) : queue[i].of = a
Works(w, a) == ~At(w, "idle") /\ Ask(w) = a

\* A number that names a request is the number of one that was made.
Known ==
    /\ \A a \in Nat :
          /\ \A c \in Clients : Sends(c, a) \/ Wired(c, a) => a \in Asks
          /\ Queued(a) => a \in Asks
          /\ \A w \in Workers : Works(w, a) => a \in Asks
    /\ DOMAIN tickets \subseteq issued /\ issued \subseteq Asks
    /\ \A c \in Clients : target[c] # 0 =>
          target[c] \in Asks /\ Client(target[c]) = c

\* Between record_issuance and the ticket a right is in one worker's hands.
Holds(w) == worker[w].pc \in {"write", "count", "store"} /\ UsesRight(Ask(w))

RightsInv ==
    /\ \A w \in Workers : worker[w].pc \in {"claim", "write"} => UsesRight(Ask(w))
    /\ \A w \in Workers : Holds(w) =>
          marker[Right(Ask(w))] = IF At(w, "write") THEN "torn" ELSE "whole"
    /\ \A v, w \in Workers :
          Holds(v) /\ Holds(w) /\ Right(Ask(v)) = Right(Ask(w)) => v = w
    /\ \A w \in Workers : \A a \in issued :
          Holds(w) => Right(a) # Right(Ask(w))

\* A request on its way to a ticket is in one place only, and nowhere on that
\* way once it has its ticket.
OnTheWay ==
    \A a \in Nat :
        /\ \A c, d \in Clients : Sends(c, a) /\ Sends(d, a) => c = d
        /\ \A c, d \in Clients : Wired(c, a) /\ Wired(d, a) => c = d
        /\ \A v, w \in Workers : Works(v, a) /\ Works(w, a) => v = w
        /\ \A c, d \in Clients : Sends(c, a) => ~Wired(d, a)
        /\ \A c \in Clients : Sends(c, a) \/ Wired(c, a) => ~Queued(a) /\ a \notin issued
        /\ \A c \in Clients, w \in Workers :
              Sends(c, a) \/ Wired(c, a) => ~Works(w, a)
        /\ Queued(a) => a \notin issued
        /\ \A w \in Workers : Works(w, a) => ~Queued(a) /\ a \notin issued

\* And only once in that place.
OnceWired(c) ==
    \A i, j \in 1..Len(up[c]) :
        Final(up[c][i]) /\ Final(up[c][j]) /\ up[c][i].of = up[c][j].of => i = j

OnceQueued == \A i, j \in 1..Len(queue) : queue[i].of = queue[j].of => i = j

Once == (\A c \in Clients : OnceWired(c)) /\ OnceQueued

\* A signature that was handed out is of a ticket that waits for no operator.
Gone(a) == a \in issued /\ ~Pending(a)

\* An answer about request a that is under way.
Answered(c, status, a) ==
    \E i \in 1..Len(down[c]) : /\ down[c][i].type = "Response"
                               /\ down[c][i].status = status
                               /\ down[c][i].of = a

CollectedInv ==
    /\ \A a \in Nat : \A c \in Clients :
          /\ Answered(c, "Pending", a) => a \in issued
          /\ Answered(c, "Ok", a) => Gone(a)
    /\ \A c \in Clients : ticket[c] # 0 => ticket[c] \in issued
    /\ \A c \in Clients : prover[c].pc = "finalize" => Gone(prover[c].of)
    /\ \A c \in Clients : credential[c] # 0 =>
          credential[c] = target[c] /\ Gone(credential[c])

IndInv ==
    /\ Shapes /\ Known /\ RightsInv /\ TicketsKeepTheirMarker
    /\ OneTicketPerRight /\ RightsAreGivenBack
    /\ OnTheWay /\ Once /\ CollectedInv

-----------------------------------------------------------------------------
(* Shapes.                                                                 *)

\* What the constants are.
LEMMA Bounds == Chunks \in Nat /\ Chunks > 0 /\ QueueCapacity \in Nat
                /\ QueueCapacity > 0 /\ "raw" \notin Clients
  BY BlindTicketsAssumption

\* Who made a request, and with which right.
LEMMA AskFacts ==
    ASSUME SessionShapes, NEW a \in Asks
    PROVE  /\ a \in Nat /\ a # 0 /\ Client(a) \in Clients
           /\ UsesRight(a) => Right(a) \in Clients
<1> DEFINE Requests == [client : Clients, right : Clients \cup {"raw"}]
<1>0. asks \in Seq(Requests)
  BY DEF SessionShapes
<1>1. asks[a] \in Requests /\ a \in Nat /\ a # 0
  <2> HIDE DEF Requests
  <2> QED
    BY <1>0 DEF Asks
<1> QED
  BY <1>1 DEF Client, Right, UsesRight

\* A request, once made, stays the same; only start_request makes new ones.
LEMMA AsksGrow ==
    ASSUME SessionShapes, [Next]_vars
    PROVE  Asks \subseteq Asks' /\ \A a \in Asks : asks'[a] = asks[a]
<1>1. ASSUME NEW c \in Clients, StartProver(c)
      PROVE  Asks \subseteq Asks' /\ \A a \in Asks : asks'[a] = asks[a]
  BY <1>1 DEF StartProver, SessionShapes, Asks
<1>2. CASE UNCHANGED asks
  BY <1>2 DEF Asks
<1>3. (\E c \in Clients : StartProver(c)) \/ UNCHANGED asks
  BY ZenonT(40) DEF Next, ClientStep, MediatorStep, WorkerStep, vars, RequestInfo,
         OnInfoResponse, StartRequest, ProofFails, SendChunk, AwaitResponse,
         PollTicket, OnSignerResponse, Finalize, HandleInfoRequest, AddChunk,
         RefuseChunk, SubmitRequest, HandlePoll, Drop, Reconnect, RefuseProof,
         TakeJob, Claim, WriteMarker, CountTickets, StoreTicket, SignTicket,
         Crash
<1> QED
  BY <1>1, <1>2, <1>3

\* A busy worker has a request that was made.
LEMMA WorkFacts ==
    ASSUME Shapes, Known, NEW w \in Workers, ~At(w, "idle")
    PROVE  Ask(w) \in Asks /\ Ask(w) \in Nat
<1>1. Ask(w) \in Nat
  BY DEF Shapes, SignerShapes, Ask, Jobs
<1> QED
  BY <1>1 DEF Known, Works

\* Requests appended to or taken from a client's frames stay frames.
LEMMA FrameFacts ==
    ASSUME WireShapes, NEW c \in Clients
    PROVE  /\ \A f \in UpFrames : Append(up[c], f) \in Seq(UpFrames)
           /\ \A f \in DownFrames : Append(down[c], f) \in Seq(DownFrames)
           /\ up[c] # <<>> => Tail(up[c]) \in Seq(UpFrames) /\ Head(up[c]) \in UpFrames
           /\ down[c] # <<>> =>
                 Tail(down[c]) \in Seq(DownFrames) /\ Head(down[c]) \in DownFrames
<1>1. up[c] \in Seq(UpFrames) /\ down[c] \in Seq(DownFrames)
  BY DEF WireShapes
<1> QED
  BY <1>1

\* What the queue holds.
LEMMA QueueHead ==
    ASSUME Shapes, NEW i \in 1..Len(queue) PROVE queue[i] \in Jobs /\ queue[i].of \in Nat
<1>1. queue[i] \in Jobs
  BY DEF Shapes, SignerShapes
<1> QED
  BY <1>1 DEF Jobs

\* An answer of the mediator is a frame.
LEMMA ResponseShape ==
    ASSUME NEW a \in Nat, NEW status \in {"Pending", "Ok", "Refused"}
    PROVE  Response(status, a) \in DownFrames
  BY DEF Response, DownFrames

\* The answer of a handler or a worker leaves the wire well-formed.
LEMMA ReplyShape ==
    ASSUME WireShapes, NEW c \in Clients, NEW k, NEW f \in DownFrames,
           Reply(c, k, f)
    PROVE  down' \in [Clients -> Seq(DownFrames)]
<1>1. Append(down[c], f) \in Seq(DownFrames)
  BY FrameFacts
<1> QED
  BY <1>1 DEF Reply, WireShapes

\* A frame that is sent.
LEMMA SendShape ==
    ASSUME WireShapes, NEW c \in Clients, NEW f \in UpFrames, Send(c, f)
    PROVE  up' \in [Clients -> Seq(UpFrames)]
<1>1. Append(up[c], f) \in Seq(UpFrames)
  BY FrameFacts
<1> QED
  BY <1>1 DEF Send, WireShapes

\* A frame that is taken off the wire.
LEMMA ConsumeShape ==
    ASSUME WireShapes, NEW c \in Clients, up[c] # <<>>, Consume(c)
    PROVE  up' \in [Clients -> Seq(UpFrames)]
<1>1. Tail(up[c]) \in Seq(UpFrames)
  BY FrameFacts
<1> QED
  BY <1>1 DEF Consume, WireShapes

\* A connection that was closed.
LEMMA ClosedShape ==
    ASSUME WireShapes, NEW c \in Clients, Closed(c)
    PROVE  up' \in [Clients -> Seq(UpFrames)] /\ down' \in [Clients -> Seq(DownFrames)]
<1>1. <<>> \in Seq(UpFrames) /\ <<>> \in Seq(DownFrames)
  OBVIOUS
<1> QED
  BY <1>1 DEF Closed, WireShapes

\* Every step keeps the types of the client's side.
LEMMA SessionShapesStep == Shapes /\ [Next]_vars => SessionShapes'
<1> SUFFICES ASSUME Shapes, [Next]_vars PROVE SessionShapes'
  OBVIOUS
<1> USE DEF Shapes, SessionShapes
<1>1. ASSUME NEW c \in Clients, StartProver(c) PROVE SessionShapes'
  <2>1. asks' \in Seq([client : Clients, right : Clients \cup {"raw"}])
    <3>1. [client |-> c, right |-> starting[c]]
             \in [client : Clients, right : Clients \cup {"raw"}]
      BY <1>1 DEF StartProver
    <3> QED
      BY <1>1, <3>1 DEF StartProver
  <2>2. prover' \in [Clients -> Provers]
    <3>1. [pc |-> "send", of |-> Len(asks) + 1, chunk |-> 1] \in Provers
      BY DEF Provers
    <3> QED
      BY <1>1, <3>1 DEF StartProver
  <2>3. stage' \in [Clients -> Stages]
    BY <1>1 DEF StartProver, SetStage, Stages
  <2> QED
    BY <1>1, <2>1, <2>2, <2>3 DEF StartProver
<1>2. ASSUME NEW c \in Clients, RequestInfo(c) \/ OnInfoResponse(c)
      PROVE  SessionShapes'
  BY <1>2 DEF RequestInfo, OnInfoResponse, SetStage, Stages
<1>3. ASSUME NEW c \in Clients, NEW right \in {c, "raw"}, StartRequest(c, right)
      PROVE  SessionShapes'
  BY <1>3 DEF StartRequest
<1>4. NoProver \in Provers
  BY DEF NoProver, Provers
<1>5. ASSUME NEW c \in Clients, ProofFails(c) \/ AwaitResponse(c)
      PROVE  SessionShapes'
  BY <1>4, <1>5 DEF ProofFails, AwaitResponse, ProverFails, SetStage, Stages
<1>6. ASSUME NEW c \in Clients, SendChunk(c) PROVE SessionShapes'
  <2>1. prover' \in [Clients -> Provers]
    <3>1. prover[c].pc \in {"send"} /\ prover[c].of \in Nat /\ prover[c].chunk \in Nat
      BY <1>6 DEF SendChunk, Provers
    <3>2. [prover[c] EXCEPT !.chunk = @ + 1,
              !.pc = IF prover[c].chunk = Chunks THEN "sent" ELSE @] \in Provers
      <4>1. ASSUME NEW r \in Provers, NEW n \in Nat, NEW x \in {"send", "sent"}
            PROVE  [r EXCEPT !.chunk = n, !.pc = x] \in Provers
        BY DEF Provers
      <4>2. prover[c] \in Provers /\ prover[c].chunk + 1 \in Nat
        BY <3>1
      <4>3. CASE prover[c].chunk = Chunks
        BY <4>1, <4>2, <4>3
      <4>4. CASE prover[c].chunk # Chunks
        BY <3>1, <4>1, <4>2, <4>4
      <4> QED
        BY <4>3, <4>4
    <3>3. prover' = [prover EXCEPT ![c] = NoProver] \/
          prover' = [prover EXCEPT ![c] = [prover[c] EXCEPT !.chunk = @ + 1,
              !.pc = IF prover[c].chunk = Chunks THEN "sent" ELSE @]]
      BY <1>6 DEF SendChunk, ProverFails
    <3> QED
      BY <1>4, <3>2, <3>3
  <2> QED
    BY <1>6, <2>1 DEF SendChunk, ProverFails, SetStage, Stages
<1>7. ASSUME NEW c \in Clients, PollTicket(c) PROVE SessionShapes'
  BY <1>7 DEF PollTicket, SetStage, Stages
<1>8. ASSUME NEW c \in Clients, OnSignerResponse(c) PROVE SessionShapes'
  <2>1. Head(down[c]) \in DownFrames /\ Head(down[c]).type = "Response"
    BY <1>8, FrameFacts DEF OnSignerResponse
  <2>2. Head(down[c]).of \in Nat
    BY <2>1 DEF DownFrames
  <2>3. [pc |-> "finalize", of |-> Head(down[c]).of, chunk |-> 0] \in Provers
    BY <2>2 DEF Provers
  <2>4. prover' \in [Clients -> Provers] /\ ticket' \in [Clients -> Nat]
    BY <1>8, <2>2, <2>3 DEF OnSignerResponse
  <2>5. stage' \in [Clients -> Stages]
    BY <1>8 DEF OnSignerResponse, SetStage, Stages
  <2> QED
    BY <1>8, <2>4, <2>5 DEF OnSignerResponse
<1>9. ASSUME NEW c \in Clients, Finalize(c) PROVE SessionShapes'
  <2>1. prover[c].of \in Nat
    BY DEF Provers
  <2> QED
    <3>1. prover' = [prover EXCEPT ![c] = NoProver]
          /\ \E x \in {"Ready", "Failed"} : stage' = [stage EXCEPT ![c] = x]
      BY <1>9 DEF Finalize, Ready, ProverFails, SetStage
    <3>2. prover' \in [Clients -> Provers] /\ stage' \in [Clients -> Stages]
      BY <1>4, <3>1 DEF Stages
    <3>3. credential' \in [Clients -> Nat] /\ ticket' \in [Clients -> Nat]
      BY <1>9, <2>1 DEF Finalize, Ready
    <3> QED
      BY <1>9, <3>2, <3>3 DEF Finalize
<1>10. CASE UNCHANGED <<asks, session>>
  BY <1>10 DEF session
<1> QED
  BY <1>1, <1>2, <1>3, <1>5, <1>6, <1>7, <1>8, <1>9, <1>10
  DEF Next, ClientStep, MediatorStep, WorkerStep, vars, HandleInfoRequest,
      AddChunk, RefuseChunk, SubmitRequest, HandlePoll, Drop, Reconnect,
      RefuseProof, TakeJob, Claim, WriteMarker, CountTickets, StoreTicket,
      SignTicket, Crash

\* Every step keeps the types of what is on the wire.
LEMMA WireShapesStep == Shapes /\ Known /\ [Next]_vars => WireShapes'
<1> SUFFICES ASSUME Shapes, Known, [Next]_vars PROVE WireShapes'
  OBVIOUS
<1>0. WireShapes
  BY DEF Shapes
<1> DEFINE UpOK == up' \in [Clients -> Seq(UpFrames)]
           DownOK == down' \in [Clients -> Seq(DownFrames)]
           ConnOK == conn' \in [Clients -> Nat]
<1> SUFFICES UpOK /\ DownOK /\ ConnOK
  BY DEF WireShapes
<1>1. UNCHANGED up => UpOK
  BY <1>0 DEF WireShapes
<1>2. UNCHANGED down => DownOK
  BY <1>0 DEF WireShapes
<1>3. UNCHANGED conn => ConnOK
  BY <1>0 DEF WireShapes
<1>4. [type |-> "Info"] \in UpFrames /\ [type |-> "Info"] \in DownFrames
  BY DEF UpFrames, DownFrames
<1>5. Response("Refused", 0) \in DownFrames
  BY ResponseShape
<1>6. \A c \in Clients : up[c] # <<>> /\ Consume(c) => UpOK
  BY <1>0, ConsumeShape
<1>7. \A c \in Clients : down[c] # <<>> /\ down' = [down EXCEPT ![c] = Tail(@)]
                            => DownOK
  <2>1. \A c \in Clients : down[c] # <<>> => Tail(down[c]) \in Seq(DownFrames)
    BY <1>0, FrameFacts
  <2> QED
    BY <1>0, <2>1 DEF WireShapes
<1>8. \A c \in Clients : \A f \in DownFrames : Reply(c, conn[c], f) => DownOK
  BY <1>0, ReplyShape
<1>9. ASSUME NEW w \in Workers, NEW status \in {"Pending", "Refused"},
             ~At(w, "idle"), Answer(w, status)
      PROVE  DownOK
  <2>1. Ask(w) \in Asks /\ Ask(w) \in Nat
    BY <1>9, WorkFacts
  <2>2. Client(Ask(w)) \in Clients
    BY <2>1, AskFacts DEF Shapes
  <2>3. Response(status, IF status = "Pending" THEN Ask(w) ELSE 0) \in DownFrames
    BY <2>1, ResponseShape
  <2> QED
    BY <1>0, <1>9, <2>2, <2>3, ReplyShape DEF Answer
<1>10. ASSUME NEW c \in Clients, RequestInfo(c) PROVE UpOK /\ DownOK /\ ConnOK
  BY <1>0, <1>2, <1>3, <1>4, <1>10, SendShape DEF RequestInfo
<1>11. ASSUME NEW c \in Clients, OnInfoResponse(c) \/ OnSignerResponse(c)
       PROVE  UpOK /\ DownOK /\ ConnOK
  BY <1>1, <1>3, <1>7, <1>11 DEF OnInfoResponse, OnSignerResponse
<1>12. ASSUME NEW c \in Clients, SendChunk(c) PROVE UpOK /\ DownOK /\ ConnOK
  <2>1. [type |-> "Chunk", of |-> prover[c].of, index |-> prover[c].chunk] \in UpFrames
    BY DEF Shapes, SessionShapes, Provers, UpFrames
  <2> QED
    BY <1>0, <1>1, <1>2, <1>3, <1>12, <2>1, SendShape DEF SendChunk
<1>13. ASSUME NEW c \in Clients, PollTicket(c) PROVE UpOK /\ DownOK /\ ConnOK
  <2>1. [type |-> "Poll", of |-> ticket[c]] \in UpFrames
    BY DEF Shapes, SessionShapes, UpFrames
  <2> QED
    BY <1>0, <1>2, <1>3, <1>13, <2>1, SendShape DEF PollTicket
<1>14. ASSUME NEW c \in Clients, HandleInfoRequest(c) PROVE UpOK /\ DownOK /\ ConnOK
  BY <1>3, <1>4, <1>6, <1>8, <1>14 DEF HandleInfoRequest, Receives
<1>15. ASSUME NEW c \in Clients, AddChunk(c) \/ RefuseChunk(c)
       PROVE  UpOK /\ DownOK /\ ConnOK
  BY <1>0, <1>2, <1>3, <1>6, <1>15, ClosedShape
  DEF AddChunk, RefuseChunk, Receives
<1>16. ASSUME NEW c \in Clients, SubmitRequest(c) PROVE UpOK /\ DownOK /\ ConnOK
  BY <1>2, <1>3, <1>5, <1>6, <1>8, <1>16 DEF SubmitRequest, Receives
<1>17. ASSUME NEW c \in Clients, HandlePoll(c) PROVE UpOK /\ DownOK /\ ConnOK
  <2>1. Head(up[c]) \in UpFrames /\ Head(up[c]).type = "Poll"
    BY <1>0, <1>17, FrameFacts DEF HandlePoll, Receives
  <2>2. Head(up[c]).of \in Nat
    BY <2>1 DEF UpFrames
  <2> DEFINE a == Head(up[c]).of
             f == CASE Signed(a) -> Response("Ok", a)
                    [] Pending(a) -> Response("Pending", a)
                    [] OTHER -> Response("Refused", 0)
  <2>3. f \in DownFrames
    BY <1>5, <2>2, ResponseShape
  <2>4. Reply(c, conn[c], f)
    BY <1>17 DEF HandlePoll
  <2> QED
    BY <1>3, <1>6, <1>8, <1>17, <2>3, <2>4 DEF HandlePoll, Receives
<1>18. ASSUME NEW c \in Clients, Drop(c) \/ Reconnect(c)
       PROVE  UpOK /\ DownOK /\ ConnOK
  <2>1. CASE Drop(c)
    BY <1>0, <1>3, <2>1, ClosedShape DEF Drop
  <2>2. CASE Reconnect(c)
    BY <1>0, <1>1, <1>2, <2>2 DEF Reconnect, WireShapes
  <2> QED
    BY <1>18, <2>1, <2>2
<1>19. CASE RefuseProof
  <2>1. Head(queue) = queue[1] /\ 1 \in 1..Len(queue)
    BY <1>19 DEF RefuseProof, Shapes, SignerShapes
  <2>2. Client(Head(queue).of) \in Clients
    <3>1. Head(queue).of \in Nat /\ Queued(Head(queue).of)
      BY <2>1, QueueHead DEF Queued
    <3> QED
      BY <3>1, AskFacts DEF Known, Shapes
  <2> QED
    BY <1>0, <1>1, <1>3, <1>5, <1>19, <2>2, ReplyShape DEF RefuseProof
<1>20. ASSUME NEW w \in Workers, WorkerStep(w) PROVE UpOK /\ DownOK /\ ConnOK
  BY <1>1, <1>2, <1>3, <1>9, <1>20
  DEF WorkerStep, TakeJob, Claim, WriteMarker, CountTickets, StoreTicket, At, wire
<1>21. CASE Crash
  <2>1. <<>> \in Seq(UpFrames) /\ <<>> \in Seq(DownFrames)
    OBVIOUS
  <2> QED
    BY <1>3, <1>21, <2>1 DEF Crash
<1>22. CASE UNCHANGED wire
  BY <1>1, <1>2, <1>3, <1>22 DEF wire
<1> QED
  BY <1>10, <1>11, <1>12, <1>13, <1>14, <1>15, <1>16, <1>17, <1>18, <1>19,
     <1>20, <1>21, <1>22
  DEF Next, ClientStep, MediatorStep, vars, StartRequest, StartProver,
      ProofFails, AwaitResponse, Finalize, SignTicket

\* Each worker's job is a job and the queue keeps its capacity.
LEMMA SignerShapesStep == Shapes /\ Known /\ RightsInv /\ [Next]_vars => SignerShapes'
<1> SUFFICES ASSUME Shapes, Known, RightsInv, [Next]_vars PROVE SignerShapes'
  OBVIOUS
<1> USE DEF Shapes, SignerShapes
<1>1. Idle \in [pc : Pcs, job : Jobs]
  BY DEF Idle, NoJob, Pcs, Jobs
<1>2. ASSUME NEW c \in Clients, SubmitRequest(c) PROVE SignerShapes'
  <2>1. Head(up[c]) \in UpFrames /\ Head(up[c]).type = "Chunk"
    BY <1>2, FrameFacts DEF SubmitRequest, Receives
  <2>2. [of |-> Head(up[c]).of, conn |-> conn[c]] \in Jobs
    BY <2>1 DEF UpFrames, Jobs, WireShapes
  <2>3. queue' \in Seq(Jobs) /\ Len(queue') <= QueueCapacity
    <3>1. CASE UNCHANGED queue
      BY <3>1
    <3>2. CASE HasRoom /\ queue' = Append(queue, [of |-> Head(up[c]).of, conn |-> conn[c]])
      BY <2>2, <3>2, Bounds DEF HasRoom
    <3> QED
      BY <1>2, <3>1, <3>2 DEF SubmitRequest
  <2> QED
    BY <1>2, <2>3 DEF SubmitRequest, disk
<1>3. queue # <<>> => /\ Tail(queue) \in Seq(Jobs) /\ Len(Tail(queue)) <= QueueCapacity
                      /\ Head(queue) \in Jobs
  BY Bounds
<1>4. ASSUME NEW w \in Workers, TakeJob(w) PROVE SignerShapes'
  <2>1. [pc |-> IF UsesRight(Head(queue).of) THEN "claim" ELSE "count",
         job |-> Head(queue)] \in [pc : Pcs, job : Jobs]
    BY <1>3, <1>4 DEF TakeJob, Pcs
  <2> QED
    BY <1>3, <1>4, <2>1 DEF TakeJob, disk
<1>5. CASE RefuseProof
  BY <1>3, <1>5 DEF RefuseProof, disk
<1>6. ASSUME NEW w \in Workers, NEW pc \in Pcs, Goto(w, pc)
      PROVE  worker' \in [Workers -> [pc : Pcs, job : Jobs]]
  BY <1>6 DEF Goto
<1>7. ASSUME NEW w \in Workers, NEW status, Answer(w, status)
      PROVE  worker' \in [Workers -> [pc : Pcs, job : Jobs]]
  BY <1>1, <1>7 DEF Answer
<1>8. ASSUME NEW w \in Workers, ~At(w, "idle"), UsesRight(Ask(w))
      PROVE  Right(Ask(w)) \in Clients
  BY <1>8, WorkFacts, AskFacts
<1>b. ASSUME NEW w \in Workers, Right(Ask(w)) \in Clients, Burn(w)
      PROVE  burnt' \subseteq Clients
  BY <1>b DEF Burn
<1>9. ASSUME NEW w \in Workers, Claim(w) PROVE SignerShapes'
  <2>1. Right(Ask(w)) \in Clients
    BY <1>8, <1>9 DEF Claim, At, RightsInv
  <2>2. worker' \in [Workers -> [pc : Pcs, job : Jobs]]
    BY <1>6, <1>7, <1>9 DEF Claim, Pcs
  <2> QED
    BY <1>9, <2>1, <2>2 DEF Claim
<1>10. ASSUME NEW w \in Workers, WriteMarker(w) PROVE SignerShapes'
  <2>1. Right(Ask(w)) \in Clients
    BY <1>8, <1>10 DEF WriteMarker, At, RightsInv
  <2>2. worker' \in [Workers -> [pc : Pcs, job : Jobs]]
    BY <1>6, <1>7, <1>10 DEF WriteMarker, Pcs
  <2>3. marker' \in [Clients -> {"none", "torn", "whole"}] /\ burnt' \subseteq Clients
    BY <1>b, <1>10, <2>1 DEF WriteMarker
  <2> QED
    BY <1>10, <2>2, <2>3 DEF WriteMarker
<1>11. ASSUME NEW w \in Workers, CountTickets(w) \/ StoreTicket(w)
       PROVE  SignerShapes'
  <2>1. UsesRight(Ask(w)) => Right(Ask(w)) \in Clients
    BY <1>8, <1>11 DEF CountTickets, StoreTicket, At
  <2>2. worker' \in [Workers -> [pc : Pcs, job : Jobs]]
    BY <1>6, <1>7, <1>11 DEF CountTickets, StoreTicket, Pcs
  <2>3. marker' \in [Clients -> {"none", "torn", "whole"}] /\ burnt' \subseteq Clients
    BY <1>b, <1>11, <2>1 DEF CountTickets, StoreTicket, Rollback
  <2> QED
    BY <1>11, <2>2, <2>3 DEF CountTickets, StoreTicket
<1>12. CASE Crash
  <2>1. <<>> \in Seq(Jobs) /\ Len(<<>>) <= QueueCapacity
    BY Bounds
  <2> QED
    BY <1>1, <1>12, <2>1 DEF Crash, disk
<1>13. CASE UNCHANGED <<queue, worker, marker, burnt>>
  BY <1>13
<1> QED
  BY <1>2, <1>4, <1>5, <1>9, <1>10, <1>11, <1>12, <1>13, ZenonT(40)
  DEF Next, ClientStep, MediatorStep, WorkerStep, vars, signer, disk,
      RequestInfo, OnInfoResponse, StartRequest, StartProver, ProofFails,
      SendChunk, AwaitResponse, PollTicket, OnSignerResponse, Finalize,
      HandleInfoRequest, AddChunk, RefuseChunk, HandlePoll, Drop, Reconnect,
      SignTicket

-----------------------------------------------------------------------------
(* How a step moves the requests that are on the way.  At most one place   *)
(* gains a request, and then the place before it loses it.                 *)

\* A place that gains nothing.
SendKept(c) == \A a \in Nat : Sends(c, a)' => Sends(c, a)
WireKept(c) == (\A a \in Nat : Wired(c, a)' => Wired(c, a))
               /\ (OnceWired(c) => OnceWired(c)')
QueueKept == (\A a \in Nat : Queued(a)' => Queued(a)) /\ (OnceQueued => OnceQueued')
WorkKept(w) == \A a \in Nat : Works(w, a)' => Works(w, a)

SendQuiet == \A c \in Clients : SendKept(c)
WireQuiet == \A c \in Clients : WireKept(c)
WorkQuiet == \A w \in Workers : WorkKept(w)

Quiet == SendQuiet /\ WireQuiet /\ QueueKept /\ WorkQuiet /\ issued' = issued

\* One that gains request a, where the place before loses it.
Starts(c, a) ==
    /\ a = Len(asks) + 1 /\ Len(asks') = a /\ asks'[a].client = c
    /\ \A b \in Nat : Sends(c, b)' => Sends(c, b) \/ b = a
    /\ \A d \in Clients \ {c} : SendKept(d)
    /\ WireQuiet /\ QueueKept /\ WorkQuiet /\ issued' = issued

SendsLast(c, a) ==
    /\ Sends(c, a) /\ SendQuiet /\ ~Sends(c, a)'
    /\ \A b \in Nat : Wired(c, b)' => Wired(c, b) \/ b = a
    /\ OnceWired(c) /\ ~Wired(c, a) => OnceWired(c)'
    /\ \A d \in Clients \ {c} : WireKept(d)
    /\ QueueKept /\ WorkQuiet /\ issued' = issued

Submits(c, a) ==
    /\ Wired(c, a) /\ WireQuiet /\ (OnceWired(c) => ~Wired(c, a)')
    /\ \A b \in Nat : Queued(b)' => Queued(b) \/ b = a
    /\ OnceQueued /\ ~Queued(a) => OnceQueued'
    /\ SendQuiet /\ WorkQuiet /\ issued' = issued

Takes(w, a) ==
    /\ Queued(a) /\ QueueKept /\ (OnceQueued => ~Queued(a)')
    /\ \A b \in Nat : Works(w, b)' => b = a
    /\ \A v \in Workers \ {w} : WorkKept(v)
    /\ SendQuiet /\ WireQuiet /\ issued' = issued

Stores(w, a) ==
    /\ Works(w, a) /\ WorkQuiet /\ ~Works(w, a)'
    /\ issued' = issued \cup {a}
    /\ SendQuiet /\ WireQuiet /\ QueueKept

\* A frame is lost, taken, or sent: no last chunk appears on the wire.
LEMMA UpFacts ==
    ASSUME Shapes, NEW c \in Clients
    PROVE  /\ up'[c] = up[c] => WireKept(c)
           /\ up'[c] = <<>> => WireKept(c)
           /\ up[c] # <<>> /\ up'[c] = Tail(up[c]) => WireKept(c)
           /\ \A f \in UpFrames :
                 ~Final(f) /\ up'[c] = Append(up[c], f) => WireKept(c)
<1>0. up[c] \in Seq(UpFrames)
  BY DEF Shapes, WireShapes
<1> USE DEF WireKept, Wired, OnceWired, Final
<1>1. up'[c] = up[c] => WireKept(c)
  OBVIOUS
<1>2. up'[c] = <<>> => WireKept(c)
  OBVIOUS
<1>3. ASSUME up[c] # <<>>, up'[c] = Tail(up[c]) PROVE WireKept(c)
  <2>1. \A i \in 1..Len(up'[c]) :
           i + 1 \in 1..Len(up[c]) /\ up'[c][i] = up[c][i + 1]
    BY <1>0, <1>3
  <2>2. ASSUME NEW a \in Nat, Wired(c, a)' PROVE Wired(c, a)
    BY <2>1, <2>2
  <2>3. ASSUME OnceWired(c), NEW i \in 1..Len(up'[c]), NEW j \in 1..Len(up'[c]),
               Final(up'[c][i]), Final(up'[c][j]), up'[c][i].of = up'[c][j].of
        PROVE  i = j
    <3>1. i + 1 = j + 1
      BY <2>1, <2>3
    <3> QED
      BY <3>1
  <2> QED
    BY <2>2, <2>3
<1>4. ASSUME NEW f \in UpFrames, ~Final(f), up'[c] = Append(up[c], f)
      PROVE  WireKept(c)
  <2>1. \A i \in 1..Len(up'[c]) : up'[c][i] # f =>
           i \in 1..Len(up[c]) /\ up'[c][i] = up[c][i]
    BY <1>0, <1>4
  <2> QED
    BY <1>4, <2>1
<1> QED
  BY <1>1, <1>2, <1>3, <1>4

\* A job is lost, taken, or queued.
LEMMA QueueFacts ==
    ASSUME Shapes
    PROVE  /\ queue' = queue => QueueKept
           /\ queue' = <<>> => QueueKept
           /\ queue # <<>> /\ queue' = Tail(queue) =>
                 QueueKept /\ Queued(Head(queue).of)
                 /\ (OnceQueued => \A a \in Nat : Queued(a)' => a # Head(queue).of)
           /\ \A j \in Jobs : queue' = Append(queue, j) =>
                 /\ \A a \in Nat : Queued(a)' => Queued(a) \/ a = j.of
                 /\ OnceQueued /\ ~Queued(j.of) => OnceQueued'
<1>0. queue \in Seq(Jobs)
  BY DEF Shapes, SignerShapes
<1> USE DEF QueueKept, Queued, OnceQueued
<1>1. queue' = queue => QueueKept
  OBVIOUS
<1>2. queue' = <<>> => QueueKept
  OBVIOUS
<1>3. ASSUME queue # <<>>, queue' = Tail(queue)
      PROVE  /\ QueueKept /\ Queued(Head(queue).of)
             /\ (OnceQueued => \A a \in Nat : Queued(a)' => a # Head(queue).of)
  <2>1. \A i \in 1..Len(queue') :
           i + 1 \in 1..Len(queue) /\ i + 1 # 1 /\ queue'[i] = queue[i + 1]
    BY <1>0, <1>3
  <2>2. Head(queue) = queue[1] /\ 1 \in 1..Len(queue)
    BY <1>0, <1>3
  <2>3. ASSUME NEW a \in Nat, Queued(a)' PROVE Queued(a)
    BY <2>1, <2>3
  <2>4. ASSUME OnceQueued, NEW i \in 1..Len(queue'), NEW j \in 1..Len(queue'),
               queue'[i].of = queue'[j].of
        PROVE  i = j
    <3>1. i + 1 = j + 1
      BY <2>1, <2>4
    <3> QED
      BY <3>1
  <2>5. ASSUME OnceQueued, NEW a \in Nat, Queued(a)' PROVE a # Head(queue).of
    BY <2>1, <2>2, <2>5
  <2> QED
    BY <2>2, <2>3, <2>4, <2>5
<1>4. ASSUME NEW j \in Jobs, queue' = Append(queue, j)
      PROVE  /\ \A a \in Nat : Queued(a)' => Queued(a) \/ a = j.of
             /\ OnceQueued /\ ~Queued(j.of) => OnceQueued'
  <2>1. \A i \in 1..Len(queue') :
           \/ i \in 1..Len(queue) /\ queue'[i] = queue[i]
           \/ i = Len(queue) + 1 /\ queue'[i] = j
    BY <1>0, <1>4
  <2> QED
    BY <2>1
<1> QED
  BY <1>1, <1>2, <1>3, <1>4

\* Which steps put no last chunk on the wire.
LEMMA WireQuietFacts ==
    ASSUME Shapes
    PROVE  /\ up' = up => WireQuiet
           /\ \A c \in Clients : up[c] # <<>> /\ Consume(c) => WireQuiet
           /\ \A c \in Clients : Closed(c) => WireQuiet
           /\ \A c \in Clients : \A f \in UpFrames : ~Final(f) /\ Send(c, f) => WireQuiet
           /\ up' = [c \in Clients |-> <<>>] => WireQuiet
<1>0. up \in [Clients -> Seq(UpFrames)]
  BY DEF Shapes, WireShapes
<1> USE DEF WireQuiet
<1>1. up' = up => WireQuiet
  BY UpFacts
<1>2. \A c \in Clients : up[c] # <<>> /\ Consume(c) => WireQuiet
  BY <1>0, UpFacts DEF Consume
<1>3. \A c \in Clients : Closed(c) => WireQuiet
  BY <1>0, UpFacts DEF Closed
<1>4. \A c \in Clients : \A f \in UpFrames : ~Final(f) /\ Send(c, f) => WireQuiet
  BY <1>0, UpFacts DEF Send
<1>5. up' = [c \in Clients |-> <<>>] => WireQuiet
  BY <1>0, UpFacts
<1> QED
  BY <1>1, <1>2, <1>3, <1>4, <1>5

\* Every step is of one of these kinds.
LEMMA Moves ==
    ASSUME Shapes, Known, [Next]_vars
    PROVE  \/ Quiet
           \/ \E c \in Clients, a \in Nat :
                 Starts(c, a) \/ SendsLast(c, a) \/ Submits(c, a)
           \/ \E w \in Workers, a \in Nat : Takes(w, a) \/ Stores(w, a)
<1>0. /\ prover \in [Clients -> Provers] /\ worker \in [Workers -> [pc : Pcs, job : Jobs]]
      /\ up \in [Clients -> Seq(UpFrames)]
  BY DEF Shapes, SessionShapes, SignerShapes, WireShapes
<1>1. UNCHANGED prover => SendQuiet
  BY DEF SendQuiet, SendKept, Sends
<1>2. UNCHANGED worker => WorkQuiet
  BY DEF WorkQuiet, WorkKept, Works, At, Ask
<1>3. UNCHANGED queue => QueueKept
  BY QueueFacts
<1>4. \A c \in Clients : \A x : x.pc # "send" /\ prover' = [prover EXCEPT ![c] = x]
         => SendQuiet
  BY <1>0 DEF SendQuiet, SendKept, Sends
<1>5. NoProver.pc # "send" /\ Idle.pc = "idle"
  BY DEF NoProver, Idle
<1>6. ASSUME NEW c \in Clients, RequestInfo(c) \/ PollTicket(c) PROVE Quiet
  <2>1. ticket[c] \in Nat
    BY DEF Shapes, SessionShapes
  <2>2. /\ [type |-> "Info"] \in UpFrames /\ ~Final([type |-> "Info"])
        /\ [type |-> "Poll", of |-> ticket[c]] \in UpFrames
        /\ ~Final([type |-> "Poll", of |-> ticket[c]])
    BY <2>1 DEF UpFrames, Final
  <2>3. WireQuiet
    BY <1>6, <2>2, WireQuietFacts DEF RequestInfo, PollTicket
  <2> QED
    BY <1>1, <1>2, <1>3, <1>6, <2>3 DEF RequestInfo, PollTicket, Quiet, signer, disk
<1>7. ASSUME NEW c \in Clients, OnInfoResponse(c) \/ AwaitResponse(c) \/ ProofFails(c)
      PROVE  Quiet
  <2>1. SendQuiet
    BY <1>1, <1>4, <1>5, <1>7
    DEF OnInfoResponse, AwaitResponse, ProofFails, ProverFails
  <2> QED
    BY <1>2, <1>3, <1>7, <2>1, WireQuietFacts
    DEF OnInfoResponse, AwaitResponse, ProofFails, Quiet, wire, signer, disk
<1>8. ASSUME NEW c \in Clients, NEW right \in {c, "raw"}, StartRequest(c, right)
      PROVE  Quiet
  BY <1>1, <1>2, <1>3, <1>8, WireQuietFacts
  DEF StartRequest, Quiet, wire, signer, disk
<1>9. ASSUME NEW c \in Clients, StartProver(c) PROVE Starts(c, Len(asks) + 1)
  <2>1. WireQuiet /\ QueueKept /\ WorkQuiet /\ issued' = issued
    BY <1>2, <1>3, <1>9, WireQuietFacts DEF StartProver, wire, signer, disk
  <2>2. \A d \in Clients \ {c} : SendKept(d)
    BY <1>0, <1>9 DEF StartProver, SendKept, Sends
  <2>3. \A b \in Nat : Sends(c, b)' => b = Len(asks) + 1
    BY <1>0, <1>9 DEF StartProver, Sends
  <2>4. asks'[Len(asks) + 1].client = c /\ Len(asks') = Len(asks) + 1
    BY <1>9 DEF StartProver, Shapes, SessionShapes
  <2> QED
    BY <2>1, <2>2, <2>3, <2>4 DEF Starts
<1>10. ASSUME NEW c \in Clients, SendChunk(c)
       PROVE  Quiet \/ \E a \in Nat : SendsLast(c, a)
  <2> DEFINE f == [type |-> "Chunk", of |-> prover[c].of, index |-> prover[c].chunk]
  <2>1. f \in UpFrames /\ prover[c].of \in Nat
    BY <1>0 DEF Provers, UpFrames
  <2>2. WorkQuiet /\ QueueKept /\ issued' = issued
    BY <1>2, <1>3, <1>10 DEF SendChunk, signer, disk
  <2>3. CASE ~connected[c]
    <3>1. SendQuiet /\ WireQuiet
      BY <1>4, <1>5, <1>10, <2>3, WireQuietFacts DEF SendChunk, ProverFails
    <3> QED
      BY <2>2, <3>1 DEF Quiet
  <2>4. ASSUME connected[c]
        PROVE  /\ Send(c, f) /\ prover[c].pc = "send"
               /\ prover'[c] = [prover[c] EXCEPT !.chunk = @ + 1,
                           !.pc = IF prover[c].chunk = Chunks THEN "sent" ELSE @]
               /\ \A d \in Clients \ {c} : prover'[d] = prover[d]
    BY <1>0, <1>10, <2>4 DEF SendChunk
  <2>5. ASSUME connected[c] PROVE SendQuiet
    <3>1. prover'[c].of = prover[c].of
      <4>1. prover[c] \in Provers
        BY <1>0
      <4>2. \A x : [prover[c] EXCEPT !.chunk = @ + 1, !.pc = x].of = prover[c].of
        BY <4>1 DEF Provers
      <4>3. PICK x : prover'[c] = [prover[c] EXCEPT !.chunk = @ + 1, !.pc = x]
        BY <2>4, <2>5
      <4> QED
        BY <4>2, <4>3
    <3> QED
      BY <2>4, <2>5, <3>1 DEF SendQuiet, SendKept, Sends
  <2>6. CASE connected[c] /\ prover[c].chunk # Chunks
    <3>1. ~Final(f)
      BY <2>6 DEF Final
    <3>2. WireQuiet
      <4> HIDE DEF f
      <4> QED
        BY <2>1, <2>4, <2>6, <3>1, WireQuietFacts
    <3> QED
      BY <2>2, <2>5, <2>6, <3>2 DEF Quiet
  <2>7. CASE connected[c] /\ prover[c].chunk = Chunks
    <3>1. f.of = prover[c].of
      OBVIOUS
    <3>2. up'[c] = Append(up[c], f) /\ \A d \in Clients \ {c} : up'[d] = up[d]
      BY <1>0, <2>4, <2>7 DEF Send
    <3>3. prover'[c].pc # "send"
      BY <1>0, <2>4, <2>7 DEF Provers
    <3>4. \A i \in 1..Len(up'[c]) :
             \/ i \in 1..Len(up[c]) /\ up'[c][i] = up[c][i]
             \/ i = Len(up[c]) + 1 /\ up'[c][i] = f
      <4> HIDE DEF f
      <4> QED
        BY <1>0, <2>1, <3>2
    <3>5. /\ \A b \in Nat : Wired(c, b)' => Wired(c, b) \/ b = prover[c].of
          /\ OnceWired(c) /\ ~Wired(c, prover[c].of) => OnceWired(c)'
      <4> HIDE DEF f
      <4> QED
        BY <3>1, <3>4, ZenonT(40) DEF Wired, OnceWired, Final
    <3>6. \A d \in Clients \ {c} : WireKept(d)
      BY <3>2, UpFacts
    <3>7. Sends(c, prover[c].of) /\ \A b \in Nat : ~Sends(c, b)'
      BY <2>4, <2>7, <3>3 DEF Sends
    <3>8. ASSUME NEW a \in Nat, a = prover[c].of PROVE SendsLast(c, a)
      BY <2>2, <2>5, <2>7, <3>5, <3>6, <3>7, <3>8 DEF SendsLast
    <3> QED
      BY <2>1, <3>8
  <2> QED
    BY <2>1, <2>3, <2>6, <2>7
<1>11. ASSUME NEW c \in Clients, OnSignerResponse(c) \/ Finalize(c) PROVE Quiet
  <2>1. SendQuiet
    BY <1>1, <1>4, <1>5, <1>11 DEF OnSignerResponse, Finalize, Ready, ProverFails
  <2> QED
    BY <1>2, <1>3, <1>11, <2>1, WireQuietFacts
    DEF OnSignerResponse, Finalize, Quiet, wire, signer, disk
<1>12. ASSUME NEW c \in Clients, HandleInfoRequest(c) \/ AddChunk(c) \/ HandlePoll(c)
       PROVE  Quiet
  BY <1>1, <1>2, <1>3, <1>12, WireQuietFacts
  DEF HandleInfoRequest, AddChunk, HandlePoll, Receives, Quiet, session, signer, disk
<1>13. ASSUME NEW c \in Clients, RefuseChunk(c) \/ Drop(c) \/ Reconnect(c) PROVE Quiet
  BY <1>1, <1>2, <1>3, <1>13, WireQuietFacts
  DEF RefuseChunk, Drop, Reconnect, Receives, Quiet, session, signer, disk
<1>14. ASSUME NEW c \in Clients, SubmitRequest(c)
       PROVE  Quiet \/ \E a \in Nat : Submits(c, a)
  <2>1. up[c] # <<>> /\ Consume(c) /\ UNCHANGED <<prover, worker, issued>>
    BY <1>14 DEF SubmitRequest, Receives, session, disk
  <2>2. CASE UNCHANGED queue
    BY <1>1, <1>2, <1>3, <2>1, <2>2, WireQuietFacts DEF Quiet
  <2>3. CASE queue' = Append(queue, [of |-> Head(up[c]).of, conn |-> conn[c]])
    <3>1. Final(Head(up[c]))
      BY <1>14 DEF SubmitRequest, Receives, Final
    <3>2. Head(up[c]) \in UpFrames
      BY <2>1, FrameFacts DEF Shapes
    <3>3. Head(up[c]).of \in Nat /\ conn[c] \in Nat
      BY <3>1, <3>2 DEF Shapes, WireShapes, UpFrames, Final
    <3> DEFINE j == [of |-> Head(up[c]).of, conn |-> conn[c]]
    <3>4. j \in Jobs /\ j.of = Head(up[c]).of
      BY <3>3 DEF Jobs
    <3>5. /\ \A b \in Nat : Queued(b)' => Queued(b) \/ b = Head(up[c]).of
          /\ OnceQueued /\ ~Queued(Head(up[c]).of) => OnceQueued'
      <4> HIDE DEF j
      <4>1. queue' = Append(queue, j)
        BY <2>3 DEF j
      <4> QED
        BY <3>4, <4>1, QueueFacts
    <3>6. /\ Head(up[c]) = up[c][1] /\ 1 \in 1..Len(up[c])
          /\ \A i \in 1..Len(up'[c]) :
                i + 1 \in 1..Len(up[c]) /\ i + 1 # 1 /\ up'[c][i] = up[c][i + 1]
      BY <1>0, <2>1 DEF Consume
    <3>7. Wired(c, Head(up[c]).of)
          /\ (OnceWired(c) => \A b \in Nat : Wired(c, b)' => b # Head(up[c]).of)
      <4>1. Wired(c, Head(up[c]).of)
        BY <3>1, <3>6 DEF Wired
      <4>2. ASSUME OnceWired(c), NEW b \in Nat, Wired(c, b)', b = Head(up[c]).of
            PROVE  FALSE
        <5>1. PICK i \in 1..Len(up'[c]) : Final(up'[c][i]) /\ up'[c][i].of = b
          BY <4>2 DEF Wired, Final
        <5>2. /\ i + 1 \in 1..Len(up[c]) /\ i + 1 # 1
              /\ Final(up[c][i + 1]) /\ up[c][i + 1].of = up[c][1].of
          BY <3>6, <4>2, <5>1
        <5> QED
          BY <3>1, <3>6, <4>2, <5>2 DEF OnceWired
      <4> QED
        BY <4>1, <4>2
    <3>8. ASSUME NEW a \in Nat, a = Head(up[c]).of PROVE Submits(c, a)
      BY <1>1, <1>2, <2>1, <3>5, <3>7, <3>8, WireQuietFacts DEF Submits
    <3> QED
      BY <3>3, <3>8
  <2> QED
    BY <1>14, <2>2, <2>3 DEF SubmitRequest
<1>15. CASE RefuseProof
  BY <1>1, <1>2, <1>15, QueueFacts, WireQuietFacts DEF RefuseProof, Quiet, session, disk
<1>16. ASSUME NEW w \in Workers, TakeJob(w)
       PROVE  \E a \in Nat : Takes(w, a)
  <2>1. /\ queue # <<>> /\ queue' = Tail(queue) /\ Head(queue).of \in Nat
        /\ UNCHANGED <<prover, up, issued>>
    <3>1. queue # <<>> /\ queue' = Tail(queue) /\ UNCHANGED <<prover, up, issued>>
      BY <1>16 DEF TakeJob, session, wire, disk
    <3>2. Head(queue) = queue[1] /\ 1 \in 1..Len(queue)
      BY <3>1 DEF Shapes, SignerShapes
    <3> QED
      BY <3>1, <3>2, QueueHead
  <2>2. \A b \in Nat : Works(w, b)' => b = Head(queue).of
    BY <1>0, <1>16 DEF TakeJob, Works, Ask
  <2>3. \A v \in Workers \ {w} : WorkKept(v)
    BY <1>0, <1>16 DEF TakeJob, WorkKept, Works, Ask, At
  <2>4. /\ Queued(Head(queue).of) /\ QueueKept
        /\ OnceQueued => \A b \in Nat : Queued(b)' => b # Head(queue).of
    BY <2>1, QueueFacts
  <2>5. ASSUME NEW a \in Nat, a = Head(queue).of PROVE Takes(w, a)
    BY <1>1, <2>1, <2>2, <2>3, <2>4, <2>5, WireQuietFacts DEF Takes
  <2> QED
    BY <2>1, <2>5
<1>17. ASSUME NEW w \in Workers, NEW pc, ~At(w, "idle"),
              Goto(w, pc) \/ worker' = [worker EXCEPT ![w] = Idle]
       PROVE  WorkQuiet
  BY <1>0, <1>5, <1>17, ZenonT(40) DEF Goto, WorkQuiet, WorkKept, Works, At, Ask
<1>18. ASSUME NEW w \in Workers, Claim(w) \/ WriteMarker(w) \/ CountTickets(w)
       PROVE  Quiet
  <2>1. WorkQuiet
    BY <1>17, <1>18 DEF Claim, WriteMarker, CountTickets, Answer, At
  <2> QED
    BY <1>1, <1>3, <1>18, <2>1, WireQuietFacts
    DEF Claim, WriteMarker, CountTickets, Quiet, session
<1>19. ASSUME NEW w \in Workers, StoreTicket(w)
       PROVE  Quiet \/ \E a \in Nat : Stores(w, a)
  <2>1. ~At(w, "idle") /\ worker' = [worker EXCEPT ![w] = Idle]
        /\ UNCHANGED <<prover, up, queue>>
    BY <1>19 DEF StoreTicket, Answer, At, session
  <2>2. CASE issued' = issued \cup {Ask(w)}
    <3>1. Ask(w) \in Nat /\ Works(w, Ask(w)) /\ \A b \in Nat : ~Works(w, b)'
      BY <1>0, <1>5, <2>1 DEF Ask, Jobs, Works, At
    <3>2. ASSUME NEW a \in Nat, a = Ask(w) PROVE Stores(w, a)
      BY <1>1, <1>3, <1>17, <2>1, <2>2, <3>1, <3>2, WireQuietFacts DEF Stores
    <3> QED
      BY <3>1, <3>2
  <2>3. CASE issued' = issued
    BY <1>1, <1>3, <1>17, <2>1, <2>3, WireQuietFacts DEF Quiet
  <2> QED
    BY <1>19, <2>2, <2>3 DEF StoreTicket
<1>20. CASE Crash
  <2>1. WorkQuiet
    BY <1>5, <1>20 DEF Crash, WorkQuiet, WorkKept, Works, At
  <2> QED
    BY <1>1, <1>20, <2>1, QueueFacts, WireQuietFacts DEF Crash, Quiet, session, disk
<1>21. CASE UNCHANGED vars \/ \E a \in Asks : SignTicket(a)
  BY <1>1, <1>2, <1>3, <1>21, WireQuietFacts
  DEF SignTicket, Quiet, vars, session, wire, signer, disk
<1> QED
  BY <1>6, <1>7, <1>8, <1>9, <1>10, <1>11, <1>12, <1>13, <1>14, <1>15, <1>16,
     <1>18, <1>19, <1>20, <1>21
  DEF Next, ClientStep, MediatorStep, WorkerStep

\* A request that is on its way is in one place, and moves on to the next.
LEMMA OnTheWayStep ==
    ASSUME Shapes, Known, OnTheWay, Once, [Next]_vars
    PROVE  OnTheWay' /\ Once'
<1> USE DEF SendQuiet, WireQuiet, WorkQuiet, SendKept, WireKept, QueueKept,
            WorkKept, OnTheWay, Once
<1>1. CASE Quiet
  BY <1>1 DEF Quiet
<1>2. ASSUME NEW c \in Clients, NEW a \in Nat, Starts(c, a) PROVE OnTheWay' /\ Once'
  <2>1. a \notin Asks /\ a \notin issued
    BY <1>2 DEF Asks, Starts, Known
  <2>2. /\ \A d \in Clients : ~Sends(d, a) /\ ~Wired(d, a)
        /\ \A w \in Workers : ~Works(w, a)
        /\ ~Queued(a)
    BY <2>1 DEF Known
  <2> QED
    BY <1>2, <2>1, <2>2 DEF Starts
<1>3. ASSUME NEW c \in Clients, NEW a \in Nat, SendsLast(c, a) PROVE OnTheWay' /\ Once'
  BY <1>3 DEF SendsLast
<1>4. ASSUME NEW c \in Clients, NEW a \in Nat, Submits(c, a) PROVE OnTheWay' /\ Once'
  BY <1>4 DEF Submits
<1>5. ASSUME NEW w \in Workers, NEW a \in Nat, Takes(w, a) PROVE OnTheWay' /\ Once'
  BY <1>5 DEF Takes
<1>6. ASSUME NEW w \in Workers, NEW a \in Nat, Stores(w, a) PROVE OnTheWay' /\ Once'
  BY <1>6 DEF Stores
<1> QED
  BY <1>1, <1>2, <1>3, <1>4, <1>5, <1>6, Moves

-----------------------------------------------------------------------------
(* The ticket files and the answers.                                       *)

\* A request gets its ticket file when a worker that holds it writes it, and
\* a ticket leaves the store only when it was signed.
LEMMA TicketsMove ==
    ASSUME Shapes, Known, OnTheWay, [Next]_vars
    PROVE  /\ issued \subseteq issued'
           /\ DOMAIN tickets' \subseteq issued' /\ issued' \subseteq Asks'
           /\ \A a : Gone(a) => Gone(a)'
<1>0. Asks \subseteq Asks' /\ DOMAIN tickets \subseteq issued /\ issued \subseteq Asks
  BY AsksGrow DEF Known, Shapes
<1>1. ASSUME NEW w \in Workers, StoreTicket(w),
             tickets' = [a \in DOMAIN tickets \cup {Ask(w)} |->
                           IF a = Ask(w) THEN "pending" ELSE tickets[a]],
             issued' = issued \cup {Ask(w)}
      PROVE  /\ issued \subseteq issued'
             /\ DOMAIN tickets' \subseteq issued' /\ issued' \subseteq Asks'
             /\ \A a : Gone(a) => Gone(a)'
  <2>1. ~At(w, "idle")
    BY <1>1 DEF StoreTicket, At
  <2>2. Ask(w) \in Asks /\ Ask(w) \in Nat
    BY <2>1, WorkFacts
  <2>3. Ask(w) \notin issued
    BY <2>1, <2>2 DEF OnTheWay, Works
  <2>4. DOMAIN tickets' = DOMAIN tickets \cup {Ask(w)}
    BY <1>1
  <2> QED
    BY <1>0, <1>1, <2>2, <2>3, <2>4 DEF Gone, Pending
<1> DEFINE Fewer == /\ issued' = issued /\ DOMAIN tickets' \subseteq DOMAIN tickets
                    /\ \A a \in DOMAIN tickets' : tickets'[a] \in {tickets[a], "signed"}
<1>2. CASE Fewer
  BY <1>0, <1>2 DEF Gone, Pending
<1>3. ASSUME NEW c \in Clients, HandlePoll(c) PROVE Fewer
  BY <1>3 DEF HandlePoll, Without
<1>4. ASSUME NEW a \in Asks, SignTicket(a) PROVE Fewer
  BY <1>4 DEF SignTicket
<1>5. \/ \E w \in Workers : /\ StoreTicket(w)
             /\ tickets' = [a \in DOMAIN tickets \cup {Ask(w)} |->
                           IF a = Ask(w) THEN "pending" ELSE tickets[a]]
             /\ issued' = issued \cup {Ask(w)}
      \/ \E c \in Clients : HandlePoll(c)
      \/ \E a \in Asks : SignTicket(a)
      \/ UNCHANGED <<tickets, issued>>
  BY ZenonT(40) DEF Next, ClientStep, MediatorStep, WorkerStep, vars, disk, RequestInfo,
         OnInfoResponse, StartRequest, StartProver, ProofFails, SendChunk,
         AwaitResponse, PollTicket, OnSignerResponse, Finalize,
         HandleInfoRequest, AddChunk, RefuseChunk, SubmitRequest, Drop,
         Reconnect, RefuseProof, TakeJob, Claim, WriteMarker, CountTickets,
         StoreTicket, Crash
<1> QED
  BY <1>1, <1>2, <1>3, <1>4, <1>5

\* No request is anywhere before it was drawn.
LEMMA KnownStep ==
    ASSUME Shapes, Known, OnTheWay, [Next]_vars
    PROVE  Known'
<1>0. /\ Asks \subseteq Asks' /\ \A a \in Asks : asks'[a] = asks[a]
      /\ asks \in Seq([client : Clients, right : Clients \cup {"raw"}])
  BY AsksGrow DEF Shapes, SessionShapes
<1> DEFINE Placed == \A a \in Nat :
             /\ \A c \in Clients : (Sends(c, a) \/ Wired(c, a))' => a \in Asks'
             /\ Queued(a)' => a \in Asks'
             /\ \A w \in Workers : Works(w, a)' => a \in Asks'
           Targets == \A c \in Clients : target'[c] # 0 =>
             target'[c] \in Asks' /\ asks'[target'[c]].client = c
<1>1. Placed
  <2> USE <1>0 DEF Known, SendQuiet, WireQuiet, WorkQuiet, SendKept, WireKept,
                   QueueKept, WorkKept
  <2>1. CASE Quiet
    BY <2>1 DEF Quiet
  <2>2. ASSUME NEW c \in Clients, NEW b \in Nat, Starts(c, b)
        PROVE  Placed
    <3>1. b \in Asks'
      BY <2>2 DEF Starts, Asks
    <3> QED
      BY <2>2, <3>1 DEF Starts
  <2>3. ASSUME NEW c \in Clients, NEW b \in Nat, SendsLast(c, b) \/ Submits(c, b)
        PROVE  Placed
    BY <2>3 DEF SendsLast, Submits
  <2>4. ASSUME NEW w \in Workers, NEW b \in Nat, Takes(w, b) \/ Stores(w, b)
        PROVE  Placed
    BY <2>4 DEF Takes, Stores
  <2> QED
    BY <2>1, <2>2, <2>3, <2>4, Moves
<1>2. DOMAIN tickets' \subseteq issued' /\ issued' \subseteq Asks'
  BY TicketsMove
<1>3. Targets
  <2>1. ASSUME NEW c \in Clients, StartProver(c) PROVE Targets
    <3>1. /\ Len(asks) + 1 \in Asks' /\ asks'[Len(asks) + 1].client = c
      BY <1>0, <2>1 DEF StartProver, Asks
    <3>2. target' = [target EXCEPT ![c] = Len(asks) + 1] /\ target \in [Clients -> Nat]
      BY <2>1 DEF StartProver, Shapes, SessionShapes
    <3> QED
      BY <1>0, <3>1, <3>2 DEF Known, Client
  <2>2. CASE UNCHANGED target
    BY <1>0, <2>2 DEF Known, Client
  <2>3. (\E c \in Clients : StartProver(c)) \/ UNCHANGED target
    BY ZenonT(40) DEF Next, ClientStep, MediatorStep, WorkerStep, vars, session, RequestInfo,
         OnInfoResponse, StartRequest, ProofFails, SendChunk,
         AwaitResponse, PollTicket, OnSignerResponse, Finalize,
         HandleInfoRequest, AddChunk, RefuseChunk, SubmitRequest, HandlePoll,
         Drop, Reconnect, RefuseProof, TakeJob, Claim, WriteMarker,
         CountTickets, StoreTicket, SignTicket, Crash
  <2> QED
    BY <2>1, <2>2, <2>3
<1> QED
  BY <1>1, <1>2, <1>3 DEF Known, Client

-----------------------------------------------------------------------------
(* The rights.                                                             *)

RightsSafe ==
    RightsInv /\ TicketsKeepTheirMarker /\ OneTicketPerRight /\ RightsAreGivenBack

\* A step of worker w keeps RightsInv when w itself is in order after it, the
\* marker of no other worker's right changes, and no such right gets a ticket.
LEMMA RightsFrame ==
    ASSUME RightsInv, NEW w \in Workers, asks' = asks,
           \A v \in Workers \ {w} : worker'[v] = worker[v],
           worker'[w].pc \in {"claim", "write"} => UsesRight(worker'[w].job.of),
           \A v \in Workers \ {w} : Holds(v) =>
               /\ marker'[Right(Ask(v))] = marker[Right(Ask(v))]
               /\ \A a \in issued' : Right(a) # Right(Ask(v)),
           worker'[w].pc \in {"write", "count", "store"} /\ UsesRight(worker'[w].job.of) =>
               /\ marker'[Right(worker'[w].job.of)] =
                     IF worker'[w].pc = "write" THEN "torn" ELSE "whole"
               /\ \A v \in Workers \ {w} : Holds(v) =>
                     Right(Ask(v)) # Right(worker'[w].job.of)
               /\ \A a \in issued' : Right(a) # Right(worker'[w].job.of)
    PROVE  RightsInv'
<1> DEFINE holds(v) == worker'[v].pc \in {"write", "count", "store"}
                          /\ UsesRight(worker'[v].job.of)
           right(v) == Right(worker'[v].job.of)
<1>1. \A v \in Workers \ {w} : /\ holds(v) <=> Holds(v)
                               /\ right(v) = Right(Ask(v))
                               /\ worker'[v].pc = worker[v].pc
  BY DEF Holds, Ask
<1>2. ASSUME NEW v \in Workers, worker'[v].pc \in {"claim", "write"}
      PROVE  UsesRight(worker'[v].job.of)
  <2>1. CASE v # w
    BY <1>2, <2>1 DEF RightsInv, Ask
  <2> QED
    BY <1>2, <2>1
<1>3. ASSUME NEW v \in Workers, holds(v)
      PROVE  marker'[right(v)] = IF worker'[v].pc = "write" THEN "torn" ELSE "whole"
  <2>1. CASE v # w
    <3>1. Holds(v) /\ v \in Workers \ {w}
      BY <1>1, <1>3, <2>1
    <3>2. marker[Right(Ask(v))] = IF worker[v].pc = "write" THEN "torn" ELSE "whole"
      BY <3>1 DEF RightsInv, At
    <3> QED
      BY <1>1, <3>1, <3>2
  <2> QED
    BY <1>3, <2>1
<1>4. ASSUME NEW u \in Workers, NEW v \in Workers, holds(u), holds(v), right(u) = right(v)
      PROVE  u = v
  <2>1. CASE u # w /\ v # w
    BY <1>1, <1>4, <2>1 DEF RightsInv
  <2>2. CASE u = w /\ v # w
    <3>1. Holds(v) /\ v \in Workers \ {w} /\ right(v) = Right(Ask(v))
      BY <1>1, <1>4, <2>2
    <3> QED
      BY <1>4, <2>2, <3>1
  <2>3. CASE u # w /\ v = w
    <3>1. Holds(u) /\ u \in Workers \ {w} /\ right(u) = Right(Ask(u))
      BY <1>1, <1>4, <2>3
    <3> QED
      BY <1>4, <2>3, <3>1
  <2> QED
    BY <2>1, <2>2, <2>3
<1>5. ASSUME NEW v \in Workers, NEW a \in issued', holds(v)
      PROVE  Right(a) # right(v)
  <2>1. CASE v # w
    <3>1. Holds(v) /\ v \in Workers \ {w} /\ right(v) = Right(Ask(v))
      BY <1>1, <1>5, <2>1
    <3> QED
      BY <3>1
  <2> QED
    BY <1>5, <2>1
<1> QED
  BY <1>2, <1>3, <1>4, <1>5 DEF RightsInv, Holds, At, Ask, Right, UsesRight

\* What the steps of the workers do to a worker and to the markers.
LEMMA RightsStep ==
    ASSUME Shapes, Known, RightsSafe, [Next]_vars
    PROVE  RightsSafe'
<1>0. /\ worker \in [Workers -> [pc : Pcs, job : Jobs]]
      /\ marker \in [Clients -> {"none", "torn", "whole"}]
      /\ "raw" \notin Clients /\ issued \subseteq Asks
      /\ \A a \in Asks : UsesRight(a) => Right(a) \in Clients
      /\ \A w \in Workers : ~At(w, "idle") => Ask(w) \in Asks
      /\ Idle.pc = "idle"
  BY Bounds, AskFacts, WorkFacts DEF Shapes, SignerShapes, Known, Idle
<1> USE DEF RightsSafe
<1>r. ASSUME NEW v \in Workers, Holds(v)
      PROVE  /\ UsesRight(Ask(v)) /\ Right(Ask(v)) \in Clients /\ Ask(v) \in Asks
             /\ marker[Right(Ask(v))] # "none"
             /\ \A a \in issued : Right(a) # Right(Ask(v))
  BY <1>0, <1>r DEF RightsInv, Holds, At
<1>u. ASSUME NEW u \in Workers, NEW v \in Workers, u # v, Holds(u), Holds(v)
      PROVE  Right(Ask(u)) # Right(Ask(v))
  BY <1>u DEF RightsInv
<1>1. CASE UNCHANGED <<worker, marker, burnt, issued, crashed>>
  <2>1. \A a \in Asks : asks'[a] = asks[a]
    BY AsksGrow DEF Shapes
  <2>2. \A v \in Workers : ~At(v, "idle") => asks'[Ask(v)] = asks[Ask(v)]
    BY <1>0, <2>1
  <2>3. \A a \in issued : asks'[a] = asks[a]
    BY <1>0, <2>1
  <2>4. RightsInv'
    <3>1. \A v \in Workers : worker[v].pc \in {"claim", "write", "count", "store"} =>
             asks'[worker[v].job.of] = asks[worker[v].job.of]
      BY <2>2 DEF At, Ask
    <3> QED
      BY <1>1, <2>3, <3>1, SMTT(30) DEF RightsInv, Holds, At, Ask, Right, UsesRight
  <2>5. TicketsKeepTheirMarker' /\ OneTicketPerRight'
    BY <1>1, <2>3 DEF TicketsKeepTheirMarker, OneTicketPerRight, Right, UsesRight
  <2>6. RightsAreGivenBack'
    BY <1>1, <2>2, <2>3 DEF RightsAreGivenBack, Working, At, Ask, Right
  <2> QED
    BY <2>4, <2>5, <2>6
<1>2. ASSUME NEW w \in Workers, TakeJob(w) PROVE RightsSafe'
  <2>1. /\ At(w, "idle") /\ UNCHANGED <<asks, marker, burnt, issued, crashed>>
        /\ \A v \in Workers \ {w} : worker'[v] = worker[v]
        /\ worker'[w].pc = IF UsesRight(worker'[w].job.of) THEN "claim" ELSE "count"
    BY <1>0, <1>2 DEF TakeJob, disk, budget
  <2>2. RightsInv'
    BY <1>r, <2>1, RightsFrame
  <2>3. TicketsKeepTheirMarker' /\ OneTicketPerRight'
    BY <2>1 DEF TicketsKeepTheirMarker, OneTicketPerRight, Right, UsesRight
  <2>4. RightsAreGivenBack'
    BY <2>1 DEF RightsAreGivenBack, Working, At, Ask, Right
  <2> QED
    BY <2>2, <2>3, <2>4
<1>3. ASSUME NEW w \in Workers, At(w, "claim"), UNCHANGED <<asks, burnt, issued, crashed>>,
             Unused(Right(Ask(w))), Goto(w, "write"),
             marker' = [marker EXCEPT ![Right(Ask(w))] = "torn"]
      PROVE  RightsSafe'
  <2>1. /\ \A v \in Workers \ {w} : worker'[v] = worker[v]
        /\ worker'[w].pc = "write" /\ worker'[w].job.of = Ask(w)
    BY <1>0, <1>3 DEF Goto, Ask
  <2>2. UsesRight(Ask(w)) /\ Right(Ask(w)) \in Clients /\ marker[Right(Ask(w))] = "none"
    BY <1>0, <1>3 DEF RightsInv, At, Unused
  <2>3. /\ marker'[Right(Ask(w))] = "torn"
        /\ \A r \in Clients \ {Right(Ask(w))} : marker'[r] = marker[r]
    BY <1>0, <1>3, <2>2
  <2>4. \A a \in issued : Right(a) # Right(Ask(w))
    BY <2>2 DEF TicketsKeepTheirMarker, UsesRight
  <2>5. \A v \in Workers \ {w} : Holds(v) => Right(Ask(v)) # Right(Ask(w))
    BY <1>r, <2>2
  <2>6. RightsInv'
    BY <1>3, <1>r, <2>1, <2>2, <2>3, <2>4, <2>5, RightsFrame
  <2>7. TicketsKeepTheirMarker' /\ OneTicketPerRight'
    <3>1. \A a \in issued : UsesRight(a) => marker'[Right(a)] = marker[Right(a)]
      BY <1>0, <2>3, <2>4
    <3> QED
      BY <1>3, <3>1 DEF TicketsKeepTheirMarker, OneTicketPerRight, Right, UsesRight
  <2>8. RightsAreGivenBack'
    <3>1. \A r \in Clients : marker'[r] # "none" => marker[r] # "none" \/ r = Right(Ask(w))
      BY <2>3
    <3> QED
      BY <1>3, <2>1, <3>1 DEF RightsAreGivenBack, Working, At, Ask, Right
  <2> QED
    BY <2>6, <2>7, <2>8
<1>4. ASSUME NEW w \in Workers, worker[w].pc = "claim",
             worker' = [worker EXCEPT ![w] = Idle],
             UNCHANGED <<asks, marker, burnt, issued, crashed>>
      PROVE  RightsSafe'
  <2>1. /\ \A v \in Workers \ {w} : worker'[v] = worker[v]
        /\ worker'[w].pc = "idle"
    BY <1>0, <1>4
  <2>2. RightsInv'
    BY <1>4, <1>r, <2>1, RightsFrame
  <2>3. TicketsKeepTheirMarker' /\ OneTicketPerRight'
    BY <1>4 DEF TicketsKeepTheirMarker, OneTicketPerRight, Right, UsesRight
  <2>4. RightsAreGivenBack'
    BY <1>4, <2>1 DEF RightsAreGivenBack, Working, At, Ask, Right
  <2> QED
    BY <2>2, <2>3, <2>4
<1>b. ASSUME NEW w \in Workers, worker[w].pc = "write", Burn(w),
             worker' = [worker EXCEPT ![w] = Idle], UNCHANGED <<asks, issued, crashed>>,
             marker' \in {marker, [marker EXCEPT ![Right(Ask(w))] = "whole"]}
      PROVE  RightsSafe'
  <2>1. /\ \A v \in Workers \ {w} : worker'[v] = worker[v]
        /\ worker'[w].pc = "idle"
    BY <1>0, <1>b
  <2>2. Holds(w)
    BY <1>b DEF RightsInv, Holds
  <2>3. \A r \in Clients \ {Right(Ask(w))} : marker'[r] = marker[r]
    BY <1>0, <1>b, <1>r, <2>2
  <2>4. RightsInv'
    <3>1. \A v \in Workers \ {w} : Holds(v) =>
             marker'[Right(Ask(v))] = marker[Right(Ask(v))]
      BY <1>r, <1>u, <2>2, <2>3
    <3> QED
      BY <1>b, <1>r, <2>1, <3>1, RightsFrame
  <2>5. TicketsKeepTheirMarker' /\ OneTicketPerRight'
    <3>1. \A a \in issued : UsesRight(a) => marker'[Right(a)] = marker[Right(a)]
      BY <1>0, <1>r, <2>2, <2>3
    <3> QED
      BY <1>b, <3>1 DEF TicketsKeepTheirMarker, OneTicketPerRight, Right, UsesRight
  <2>6. RightsAreGivenBack'
    BY <1>b, <2>1, <2>3 DEF RightsAreGivenBack, Working, Burn, Ask, Right
  <2> QED
    BY <2>4, <2>5, <2>6
<1>5. ASSUME NEW w \in Workers, At(w, "write"), UNCHANGED <<asks, burnt, issued, crashed>>,
             Goto(w, "count"), marker' = [marker EXCEPT ![Right(Ask(w))] = "whole"]
      PROVE  RightsSafe'
  <2>1. /\ \A v \in Workers \ {w} : worker'[v] = worker[v]
        /\ worker'[w].pc = "count" /\ worker'[w].job.of = Ask(w)
    BY <1>0, <1>5 DEF Goto, Ask
  <2>2. UsesRight(Ask(w)) /\ Holds(w)
    BY <1>5 DEF RightsInv, At, Holds
  <2>3. /\ marker'[Right(Ask(w))] = "whole"
        /\ \A r \in Clients \ {Right(Ask(w))} : marker'[r] = marker[r]
        /\ Right(Ask(w)) \in Clients
    BY <1>0, <1>5, <1>r, <2>2
  <2>4. RightsInv'
    BY <1>5, <1>r, <1>u, <2>1, <2>2, <2>3, RightsFrame
  <2>5. TicketsKeepTheirMarker' /\ OneTicketPerRight'
    <3>1. \A a \in issued : UsesRight(a) => marker'[Right(a)] = marker[Right(a)]
      BY <1>0, <1>r, <2>2, <2>3
    <3> QED
      BY <1>5, <3>1 DEF TicketsKeepTheirMarker, OneTicketPerRight, Right, UsesRight
  <2>6. RightsAreGivenBack'
    BY <1>5, <2>1, <2>3 DEF RightsAreGivenBack, Working, At, Ask, Right
  <2> QED
    BY <2>4, <2>5, <2>6
<1>6. ASSUME NEW w \in Workers, At(w, "count"), Goto(w, "store"),
             UNCHANGED <<asks, marker, burnt, issued, crashed>>
      PROVE  RightsSafe'
  <2>1. /\ \A v \in Workers \ {w} : worker'[v] = worker[v]
        /\ worker'[w].pc = "store" /\ worker'[w].job.of = Ask(w)
    BY <1>0, <1>6 DEF Goto, Ask
  <2>2. UsesRight(Ask(w)) => Holds(w) /\ marker[Right(Ask(w))] = "whole"
    BY <1>6 DEF RightsInv, At, Holds
  <2>3. RightsInv'
    BY <1>6, <1>r, <1>u, <2>1, <2>2, RightsFrame
  <2>4. TicketsKeepTheirMarker' /\ OneTicketPerRight'
    BY <1>6 DEF TicketsKeepTheirMarker, OneTicketPerRight, Right, UsesRight
  <2>5. RightsAreGivenBack'
    BY <1>6, <2>1 DEF RightsAreGivenBack, Working, At, Ask, Right
  <2> QED
    BY <2>3, <2>4, <2>5
<1>7. ASSUME NEW w \in Workers, worker[w].pc \in {"count", "store"}, Rollback(w),
             worker' = [worker EXCEPT ![w] = Idle], UNCHANGED <<asks, issued, crashed>>
      PROVE  RightsSafe'
  <2>1. /\ \A v \in Workers \ {w} : worker'[v] = worker[v]
        /\ worker'[w].pc = "idle"
    BY <1>0, <1>7
  <2>2. UsesRight(Ask(w)) => Holds(w)
    BY <1>7 DEF Holds
  <2>3. /\ \A r \in Clients : (UsesRight(Ask(w)) /\ r = Right(Ask(w))) \/ marker'[r] = marker[r]
        /\ burnt \subseteq burnt'
        /\ UsesRight(Ask(w)) =>
              marker'[Right(Ask(w))] = "none" \/ Right(Ask(w)) \in burnt'
    BY <1>0, <1>7, <1>r, <2>2 DEF Rollback, Burn
  <2>4. RightsInv'
    <3>1. \A v \in Workers \ {w} : Holds(v) =>
             marker'[Right(Ask(v))] = marker[Right(Ask(v))]
      BY <1>r, <1>u, <2>2, <2>3
    <3> QED
      BY <1>7, <1>r, <2>1, <3>1, RightsFrame
  <2>5. TicketsKeepTheirMarker' /\ OneTicketPerRight'
    <3>1. \A a \in issued : UsesRight(a) => marker'[Right(a)] = marker[Right(a)]
      BY <1>0, <1>r, <2>2, <2>3
    <3> QED
      BY <1>7, <3>1 DEF TicketsKeepTheirMarker, OneTicketPerRight, Right, UsesRight
  <2>6. RightsAreGivenBack'
    <3>1. ASSUME NEW r \in Clients, r \notin burnt', marker'[r] # "none", ~crashed
          PROVE  \/ \E v \in Workers \ {w} :
                       /\ worker[v].pc \in {"write", "count", "store"}
                       /\ Right(Ask(v)) = r
                 \/ \E a \in issued : Right(a) = r
      <4>1. marker[r] # "none" /\ r \notin burnt /\ ~(UsesRight(Ask(w)) /\ r = Right(Ask(w)))
        BY <2>3, <3>1
      <4>2. r # Right(Ask(w))
        BY <1>0, <4>1 DEF UsesRight
      <4> QED
        BY <3>1, <4>1, <4>2 DEF RightsAreGivenBack, Working
    <3> QED
      BY <1>7, <2>1, <3>1 DEF RightsAreGivenBack, Working, Ask, Right
  <2> QED
    BY <2>4, <2>5, <2>6
<1>8. ASSUME NEW w \in Workers, At(w, "store"), issued' = issued \cup {Ask(w)},
             worker' = [worker EXCEPT ![w] = Idle],
             UNCHANGED <<asks, marker, burnt, crashed>>
      PROVE  RightsSafe'
  <2>1. /\ \A v \in Workers \ {w} : worker'[v] = worker[v]
        /\ worker'[w].pc = "idle"
    BY <1>0, <1>8
  <2>2. UsesRight(Ask(w)) => Holds(w) /\ marker[Right(Ask(w))] = "whole"
    BY <1>8 DEF RightsInv, At, Holds
  <2>3. \A v \in Workers \ {w} : Holds(v) => Right(Ask(w)) # Right(Ask(v))
    <3>1. \A v \in Workers : Holds(v) => UsesRight(Ask(v))
      BY <1>r
    <3> QED
      BY <1>u, <2>2, <3>1 DEF UsesRight
  <2>4. RightsInv'
    BY <1>8, <1>r, <2>1, <2>3, RightsFrame
  <2>5. TicketsKeepTheirMarker' /\ OneTicketPerRight'
    <3>1. \A a \in issued : UsesRight(Ask(w)) => Right(a) # Right(Ask(w))
      BY <1>r, <2>2
    <3> QED
      BY <1>8, <2>2, <3>1 DEF TicketsKeepTheirMarker, OneTicketPerRight, Right, UsesRight
  <2>6. RightsAreGivenBack'
    BY <1>8, <2>1 DEF RightsAreGivenBack, Working, At, Ask, Right
  <2> QED
    BY <2>4, <2>5, <2>6
<1>9. CASE Crash
  <2>1. UNCHANGED <<asks, marker, burnt, issued>> /\ crashed' = TRUE
        /\ \A w \in Workers : worker'[w].pc = "idle"
    BY <1>0, <1>9 DEF Crash, disk
  <2> USE <2>1 DEF Right, UsesRight, At, Ask, Holds
  <2>2. RightsInv'
    BY DEF RightsInv
  <2>3. TicketsKeepTheirMarker' /\ OneTicketPerRight'
    BY DEF TicketsKeepTheirMarker, OneTicketPerRight
  <2>4. RightsAreGivenBack'
    BY DEF RightsAreGivenBack
  <2> QED
    BY <2>2, <2>3, <2>4
<1>10. ASSUME NEW w \in Workers, Claim(w) PROVE RightsSafe'
  BY <1>3, <1>4, <1>10 DEF Claim, Answer, At, budget, Fault
<1>11. ASSUME NEW w \in Workers, WriteMarker(w) PROVE RightsSafe'
  BY <1>5, <1>b, <1>11 DEF WriteMarker, Answer, At, budget, Fault
<1>12. ASSUME NEW w \in Workers, CountTickets(w) PROVE RightsSafe'
  BY <1>6, <1>7, <1>12 DEF CountTickets, Answer, At, budget
<1>13. ASSUME NEW w \in Workers, StoreTicket(w) PROVE RightsSafe'
  BY <1>7, <1>8, <1>13 DEF StoreTicket, Answer, At, budget, Fault
<1>14. \/ UNCHANGED <<worker, marker, burnt, issued, crashed>> \/ Crash
       \/ \E w \in Workers : WorkerStep(w)
  <2> DEFINE Still == UNCHANGED <<worker, marker, burnt, issued, crashed>>
  <2>1. ASSUME NEW c \in Clients, ClientStep(c) PROVE Still
    BY <2>1 DEF ClientStep, disk, signer, budget, Press, RequestInfo,
       OnInfoResponse, StartRequest, StartProver, ProofFails, SendChunk,
       AwaitResponse, PollTicket, OnSignerResponse, Finalize
  <2>2. ASSUME NEW c \in Clients, MediatorStep(c) \/ Drop(c) \/ Reconnect(c) PROVE Still
    BY <2>2 DEF MediatorStep, disk, signer, budget, HandleInfoRequest, AddChunk,
       RefuseChunk, SubmitRequest, HandlePoll, Drop, Reconnect
  <2>3. ASSUME RefuseProof \/ (\E a \in Asks : SignTicket(a)) \/ UNCHANGED vars PROVE Still
    BY <2>3 DEF RefuseProof, SignTicket, vars, disk, signer, budget
  <2> QED
    BY <2>1, <2>2, <2>3 DEF Next
<1> QED
  BY <1>1, <1>2, <1>9, <1>10, <1>11, <1>12, <1>13, <1>14 DEF WorkerStep

-----------------------------------------------------------------------------
(* The answers and the credentials.                                        *)

\* The frames of client c that a step leaves, or the one it adds.
OnlyOld(c) == \A a \in Nat : \A st \in {"Pending", "Ok"} :
    Answered(c, st, a)' => Answered(c, st, a)

\* An answer other than a refusal was true when it was queued.
Truthful(c) == \A a \in Nat :
    /\ Answered(c, "Pending", a)' => Answered(c, "Pending", a) \/ a \in issued'
    /\ Answered(c, "Ok", a)' => Answered(c, "Ok", a) \/ Gone(a)'

\* An answer is lost, read, or sent.
LEMMA DownFacts ==
    ASSUME Shapes, NEW c \in Clients
    PROVE  /\ down'[c] = down[c] => OnlyOld(c)
           /\ down'[c] = <<>> => OnlyOld(c)
           /\ down[c] # <<>> /\ down'[c] = Tail(down[c]) => OnlyOld(c)
           /\ \A f \in DownFrames : down'[c] = Append(down[c], f) =>
                 \A a \in Nat : \A st \in {"Pending", "Ok"} :
                    Answered(c, st, a)' => \/ Answered(c, st, a)
                                           \/ f.type = "Response" /\ f.status = st /\ f.of = a
<1>0. down[c] \in Seq(DownFrames)
  BY DEF Shapes, WireShapes
<1> USE DEF OnlyOld, Answered
<1>1. down'[c] = down[c] => OnlyOld(c)
  OBVIOUS
<1>2. down'[c] = <<>> => OnlyOld(c)
  OBVIOUS
<1>3. ASSUME down[c] # <<>>, down'[c] = Tail(down[c]) PROVE OnlyOld(c)
  <2>1. \A i \in 1..Len(down'[c]) :
           i + 1 \in 1..Len(down[c]) /\ down'[c][i] = down[c][i + 1]
    BY <1>0, <1>3
  <2> QED
    BY <2>1
<1>4. ASSUME NEW f \in DownFrames, down'[c] = Append(down[c], f),
             NEW a \in Nat, NEW st \in {"Pending", "Ok"}, Answered(c, st, a)',
             ~(f.type = "Response" /\ f.status = st /\ f.of = a)
      PROVE  Answered(c, st, a)
  <2>1. \A i \in 1..Len(down'[c]) :
           \/ i \in 1..Len(down[c]) /\ down'[c][i] = down[c][i]
           \/ down'[c][i] = f
    BY <1>0, <1>4
  <2> QED
    BY <1>4, <2>1
<1> HIDE DEF OnlyOld, Answered
<1> QED
  BY <1>1, <1>2, <1>3, <1>4

\* A reply adds its own answer and no other.
LEMMA ReplyFacts ==
    ASSUME Shapes, NEW d \in Clients, NEW k, NEW f \in DownFrames, Reply(d, k, f),
           NEW c \in Clients
    PROVE  \A a \in Nat : \A st \in {"Pending", "Ok"} :
              Answered(c, st, a)' => \/ Answered(c, st, a)
                                     \/ f.type = "Response" /\ f.status = st /\ f.of = a
<1>1. down'[c] = down[c] \/ down'[c] = Append(down[c], f)
  BY DEF Reply, Shapes, WireShapes
<1> QED
  BY <1>1, DownFacts DEF OnlyOld

\* An Ok is sent only for a ticket that an operator signed.
LEMMA DownStep ==
    ASSUME Shapes, Known, [Next]_vars, NEW c \in Clients
    PROVE  Truthful(c)
<1>1. OnlyOld(c) => Truthful(c)
  BY DEF OnlyOld, Truthful
<1>2. ASSUME NEW d \in Clients, NEW k, NEW f \in DownFrames, Reply(d, k, f),
             f.type = "Info" \/ f.status = "Refused"
      PROVE  OnlyOld(c)
  BY <1>2, ReplyFacts DEF OnlyOld
<1>3. UNCHANGED down => OnlyOld(c)
  BY DownFacts
<1>4. \A d \in Clients : Closed(d) => OnlyOld(c)
  BY DownFacts DEF Closed, Shapes, WireShapes
<1>5. \A d \in Clients : down[d] # <<>> /\ down' = [down EXCEPT ![d] = Tail(@)]
         => OnlyOld(c)
  BY DownFacts DEF Shapes, WireShapes
<1>6. [type |-> "Info"] \in DownFrames /\ [type |-> "Info"].type = "Info"
  BY DEF DownFrames
<1>7. Response("Refused", 0) \in DownFrames /\ Response("Refused", 0).status = "Refused"
  BY ResponseShape DEF Response
<1>8. ASSUME NEW w \in Workers, ~At(w, "idle"), Answer(w, "Refused") PROVE OnlyOld(c)
  BY <1>2, <1>7, <1>8, WorkFacts, AskFacts DEF Answer, Shapes
<1>9. ASSUME NEW d \in Clients, ClientStep(d) PROVE OnlyOld(c)
  BY <1>3, <1>5, <1>9 DEF ClientStep, wire, RequestInfo, OnInfoResponse,
     StartRequest, StartProver, ProofFails, SendChunk, AwaitResponse, PollTicket,
     OnSignerResponse, Finalize
<1>10. ASSUME NEW d \in Clients, HandleInfoRequest(d) PROVE OnlyOld(c)
  BY <1>2, <1>6, <1>10 DEF HandleInfoRequest
<1>11. ASSUME NEW d \in Clients, AddChunk(d) \/ RefuseChunk(d) \/ Drop(d) \/ Reconnect(d)
       PROVE  OnlyOld(c)
  BY <1>3, <1>4, <1>11 DEF AddChunk, RefuseChunk, Drop, Reconnect
<1>12. ASSUME NEW d \in Clients, SubmitRequest(d) PROVE OnlyOld(c)
  BY <1>2, <1>3, <1>7, <1>12 DEF SubmitRequest
<1>13. ASSUME NEW d \in Clients, HandlePoll(d) PROVE Truthful(c)
  <2> DEFINE b == Head(up[d]).of
  <2>1. b \in Nat
    <3>1. Head(up[d]) \in UpFrames /\ Head(up[d]).type = "Poll"
      BY <1>13, FrameFacts DEF HandlePoll, Receives, Shapes
    <3> QED
      BY <3>1 DEF UpFrames
  <2>2. CASE Signed(b)
    <3>1. Response("Ok", b) \in DownFrames /\ Reply(d, conn[d], Response("Ok", b))
      <4>1. ~Pending(b)
        BY <2>2 DEF Signed, Pending
      <4> QED
        BY <1>13, <2>1, <2>2, <4>1, ResponseShape DEF HandlePoll
    <3>2. b \in issued' /\ ~(b \in DOMAIN tickets' /\ tickets'[b] = "pending")
      BY <1>13, <2>2 DEF HandlePoll, Collects, Signed, Without, Known
    <3> HIDE DEF b
    <3>3. /\ Response("Ok", b).type = "Response" /\ Response("Ok", b).status = "Ok"
          /\ Response("Ok", b).of = b
      BY DEF Response
    <3>4. ASSUME NEW a \in Nat, NEW st \in {"Pending", "Ok"}, Answered(c, st, a)',
                 ~Answered(c, st, a)
          PROVE  st = "Ok" /\ a = b
      BY <3>1, <3>3, <3>4, ReplyFacts
    <3>5. \A a \in Nat : a = b => Gone(a)'
      BY <3>2 DEF Gone, Pending
    <3> QED
      BY <3>4, <3>5 DEF Truthful
  <2>3. CASE ~Signed(b) /\ Pending(b)
    <3>1. Response("Pending", b) \in DownFrames /\ Reply(d, conn[d], Response("Pending", b))
      BY <1>13, <2>1, <2>3, ResponseShape DEF HandlePoll
    <3>2. b \in issued'
      BY <1>13, <2>3 DEF HandlePoll, Pending, Known
    <3> HIDE DEF b
    <3>3. /\ Response("Pending", b).type = "Response"
          /\ Response("Pending", b).status = "Pending" /\ Response("Pending", b).of = b
      BY DEF Response
    <3>4. ASSUME NEW a \in Nat, NEW st \in {"Pending", "Ok"}, Answered(c, st, a)',
                 ~Answered(c, st, a)
          PROVE  st = "Pending" /\ a = b
      BY <3>1, <3>3, <3>4, ReplyFacts
    <3> QED
      BY <3>2, <3>4 DEF Truthful
  <2>4. CASE ~Signed(b) /\ ~Pending(b)
    <3>1. Reply(d, conn[d], Response("Refused", 0))
      BY <1>13, <2>4 DEF HandlePoll
    <3> QED
      BY <1>1, <1>2, <1>7, <3>1
  <2> QED
    BY <2>2, <2>3, <2>4
<1>14. CASE RefuseProof
  <2>1. Head(queue) = queue[1] /\ 1 \in 1..Len(queue)
    BY <1>14 DEF RefuseProof, Shapes, SignerShapes
  <2>2. Head(queue).of \in Nat /\ Queued(Head(queue).of)
    BY <2>1, QueueHead DEF Queued
  <2>3. Client(Head(queue).of) \in Clients
    BY <2>2, AskFacts DEF Known, Shapes
  <2> QED
    BY <1>1, <1>2, <1>7, <1>14, <2>3 DEF RefuseProof
<1>15. ASSUME NEW w \in Workers, TakeJob(w) \/ Claim(w) \/ WriteMarker(w) \/ CountTickets(w)
       PROVE  OnlyOld(c)
  BY <1>3, <1>8, <1>15 DEF TakeJob, Claim, WriteMarker, CountTickets, At, wire
<1>16. ASSUME NEW w \in Workers, StoreTicket(w) PROVE Truthful(c)
  <2>1. ~At(w, "idle")
    BY <1>16 DEF StoreTicket, At
  <2>2. CASE Answer(w, "Refused")
    BY <1>1, <1>8, <2>1, <2>2
  <2>3. CASE Answer(w, "Pending") /\ issued' = issued \cup {Ask(w)}
    <3>1. Ask(w) \in Nat /\ Client(Ask(w)) \in Clients
      BY <2>1, WorkFacts, AskFacts DEF Shapes
    <3>2. Response("Pending", Ask(w)) \in DownFrames
      BY <3>1, ResponseShape
    <3>3. Reply(Client(Ask(w)), worker[w].job.conn, Response("Pending", Ask(w)))
      BY <2>3 DEF Answer
    <3>4. /\ Response("Pending", Ask(w)).type = "Response"
          /\ Response("Pending", Ask(w)).status = "Pending"
          /\ Response("Pending", Ask(w)).of = Ask(w)
      BY DEF Response
    <3>5. ASSUME NEW a \in Nat, NEW st \in {"Pending", "Ok"}, Answered(c, st, a)',
                 ~Answered(c, st, a)
          PROVE  st = "Pending" /\ a = Ask(w)
      BY <3>1, <3>2, <3>3, <3>4, <3>5, ReplyFacts
    <3> QED
      BY <2>3, <3>5 DEF Truthful
  <2> QED
    BY <1>16, <2>2, <2>3 DEF StoreTicket
<1>17. CASE Crash
  BY <1>1, <1>17, DownFacts DEF Crash
<1>18. CASE UNCHANGED vars \/ \E a \in Asks : SignTicket(a)
  BY <1>1, <1>3, <1>18 DEF SignTicket, vars, wire
<1> QED
  BY <1>1, <1>9, <1>10, <1>11, <1>12, <1>13, <1>14, <1>15, <1>16, <1>17, <1>18
  DEF Next, MediatorStep, WorkerStep

\* A ticket that was collected is nowhere else and never waits for an operator
\* again.
LEMMA CollectedStep ==
    ASSUME Shapes, Known, OnTheWay, CollectedInv, [Next]_vars
    PROVE  CollectedInv'
<1>0. /\ issued \subseteq issued' /\ \A a : Gone(a) => Gone(a)'
      /\ prover \in [Clients -> Provers] /\ ticket \in [Clients -> Nat]
      /\ credential \in [Clients -> Nat] /\ target \in [Clients -> Nat]
  BY TicketsMove DEF Shapes, SessionShapes
<1> DEFINE out == {a \in issued' : ~(a \in DOMAIN tickets' /\ tickets'[a] = "pending")}
<1>g. \A a : Gone(a)' <=> a \in out
  BY DEF Gone, Pending
<1> HIDE DEF out
<1> DEFINE Parts ==
      /\ \A c \in Clients : ticket'[c] # 0 => ticket'[c] \in issued'
      /\ \A c \in Clients : prover'[c].pc = "finalize" =>
            prover'[c].of \in out
      /\ \A c \in Clients : credential'[c] # 0 =>
            credential'[c] = target'[c] /\ credential'[c] \in out
<1>1. \A a \in Nat : \A c \in Clients :
         /\ Answered(c, "Pending", a)' => a \in issued'
         /\ Answered(c, "Ok", a)' => Gone(a)'
  BY <1>0, DownStep DEF CollectedInv, Truthful
<1>2. \A c \in Clients :
         /\ ticket[c] # 0 => ticket[c] \in issued'
         /\ prover[c].pc = "finalize" => prover[c].of \in out
         /\ credential[c] # 0 => credential[c] = target[c] /\ credential[c] \in out
  BY <1>0, <1>g DEF CollectedInv
<1>3. ASSUME NEW c \in Clients, StartProver(c) PROVE Parts
  BY <1>0, <1>2, <1>3 DEF StartProver
<1>4. ASSUME NEW c \in Clients, NEW x, x.pc # "finalize",
             prover' = prover \/ prover' = [prover EXCEPT ![c] = x],
             UNCHANGED <<ticket, target, credential>>
      PROVE  Parts
  BY <1>0, <1>2, <1>4
<1>5. NoProver.pc # "finalize"
  BY DEF NoProver
<1>6. ASSUME NEW c \in Clients, ProofFails(c) \/ AwaitResponse(c) PROVE Parts
  BY <1>4, <1>5, <1>6 DEF ProofFails, AwaitResponse, ProverFails
<1>7. ASSUME NEW c \in Clients, SendChunk(c) PROVE Parts
  <2>1. UNCHANGED <<ticket, target, credential>> /\ prover[c].pc = "send"
    BY <1>7 DEF SendChunk
  <2>2. CASE ~connected[c]
    BY <1>4, <1>5, <1>7, <2>1, <2>2 DEF SendChunk, ProverFails
  <2>3. CASE connected[c]
    <3> DEFINE x == [prover[c] EXCEPT !.chunk = @ + 1,
                       !.pc = IF prover[c].chunk = Chunks THEN "sent" ELSE @]
    <3>1. prover' = [prover EXCEPT ![c] = x]
      BY <1>7, <2>3 DEF SendChunk
    <3>2. prover[c] \in Provers
      BY <1>0
    <3>3. x.pc \in {"sent", "send"}
      BY <2>1, <3>2 DEF Provers
    <3>4. x.pc # "finalize"
      BY <3>3
    <3> HIDE DEF x
    <3> QED
      BY <1>4, <2>1, <3>1, <3>4
  <2> QED
    BY <2>2, <2>3
<1>8. ASSUME NEW c \in Clients, OnSignerResponse(c) PROVE Parts
  <2> DEFINE r == Head(down[c])
  <2>1. r \in DownFrames /\ r.type = "Response" /\ r = down[c][1] /\ 1 \in 1..Len(down[c])
    <3>1. down[c] # <<>> /\ r.type = "Response"
      BY <1>8 DEF OnSignerResponse
    <3>2. down[c] \in Seq(DownFrames)
      BY DEF Shapes, WireShapes
    <3> QED
      BY <3>1, <3>2
  <2>2. r.of \in Nat /\ r.status \in {"Pending", "Ok", "Refused"}
    BY <2>1 DEF DownFrames
  <2>3. Answered(c, r.status, r.of)
    BY <2>1 DEF Answered
  <2>4. /\ r.status = "Pending" => r.of \in issued'
        /\ r.status = "Ok" => r.of \in out
    BY <1>0, <1>g, <2>2, <2>3 DEF CollectedInv
  <2>5. UNCHANGED <<target, credential>>
    BY <1>8 DEF OnSignerResponse
  <2>6. CASE UNCHANGED <<ticket, prover>>
    BY <1>2, <2>5, <2>6
  <2>7. CASE ticket' = [ticket EXCEPT ![c] = r.of] /\ r.status = "Pending" /\ UNCHANGED prover
    BY <1>0, <1>2, <2>4, <2>5, <2>7
  <2>8. CASE /\ prover' = [prover EXCEPT ![c] = [pc |-> "finalize", of |-> r.of, chunk |-> 0]]
             /\ r.status = "Ok" /\ UNCHANGED ticket
    BY <1>0, <1>2, <2>4, <2>5, <2>8
  <2> QED
    BY <1>8, <2>6, <2>7, <2>8 DEF OnSignerResponse
<1>9. ASSUME NEW c \in Clients, Finalize(c) PROVE Parts
  <2>1. CASE ProverFails(c) /\ UNCHANGED <<credential, ticket>>
    BY <1>4, <1>5, <1>9, <2>1 DEF ProverFails, Finalize
  <2>2. CASE Verifies(c) /\ Ready(c)
    <3>1. prover[c].pc = "finalize" /\ prover[c].of = target[c] /\ UNCHANGED target
      BY <1>9, <2>2 DEF Finalize, Verifies
    <3>2. /\ credential' = [credential EXCEPT ![c] = prover[c].of]
          /\ ticket' = [ticket EXCEPT ![c] = 0] /\ prover' = [prover EXCEPT ![c] = NoProver]
      BY <2>2 DEF Ready
    <3> QED
      BY <1>0, <1>2, <1>5, <3>1, <3>2
  <2> QED
    BY <1>9, <2>1, <2>2 DEF Finalize
<1>10. ASSUME UNCHANGED <<ticket, target, credential, prover>> PROVE Parts
  BY <1>2, <1>10
<1>11. Parts
  <2> HIDE DEF Parts
  <2>1. ASSUME NEW c \in Clients, ClientStep(c) PROVE Parts
    BY <1>3, <1>6, <1>7, <1>8, <1>9, <1>10, <2>1
    DEF ClientStep, RequestInfo, OnInfoResponse, StartRequest, PollTicket
  <2>2. ASSUME NEW c \in Clients, MediatorStep(c) \/ Drop(c) \/ Reconnect(c) PROVE Parts
    BY <1>10, <2>2 DEF MediatorStep, session, HandleInfoRequest, AddChunk,
       RefuseChunk, SubmitRequest, HandlePoll, Drop, Reconnect
  <2>3. ASSUME NEW w \in Workers, WorkerStep(w) PROVE Parts
    BY <1>10, <2>3 DEF WorkerStep, session, TakeJob, Claim, WriteMarker,
       CountTickets, StoreTicket
  <2>4. ASSUME RefuseProof \/ Crash \/ (\E a \in Asks : SignTicket(a)) \/ UNCHANGED vars
        PROVE  Parts
    BY <1>10, <2>4 DEF RefuseProof, Crash, SignTicket, vars, session
  <2> QED
    BY <2>1, <2>2, <2>3, <2>4 DEF Next
<1>12. CollectedInv'
  <2>1. /\ \A c \in Clients : ticket'[c] # 0 => ticket'[c] \in issued'
        /\ \A c \in Clients : prover'[c].pc = "finalize" => Gone(prover[c].of)'
        /\ \A c \in Clients : credential'[c] # 0 =>
              credential'[c] = target'[c] /\ Gone(credential[c])'
    BY <1>11 DEF out, Gone, Pending
  <2> QED
    BY <1>1, <2>1 DEF CollectedInv
<1> QED
  BY <1>12

-----------------------------------------------------------------------------
(* The theorems.                                                           *)

\* The invariant holds at the start.
LEMMA InitLemma == Init => IndInv
<1> SUFFICES ASSUME Init PROVE IndInv
  OBVIOUS
<1>1. asks = <<>> /\ queue = <<>> /\ tickets = <<>> /\ issued = {}
  BY DEF Init
<1>2. /\ NoProver \in Provers /\ Idle \in [pc : Pcs, job : Jobs]
      /\ NoProver.pc = "none" /\ Idle.pc = "idle"
  BY DEF NoProver, Provers, Idle, NoJob, Pcs, Jobs
<1>3. <<>> \in Seq(UpFrames) /\ <<>> \in Seq(DownFrames)
  OBVIOUS
<1>4. SessionShapes
  BY <1>2 DEF Init, SessionShapes, Stages
<1>5. WireShapes
  BY <1>3 DEF Init, WireShapes
<1>6. SignerShapes
  BY <1>2, Bounds DEF Init, SignerShapes
<1>7. \A c \in Clients : /\ prover[c].pc = "none" /\ up[c] = <<>> /\ down[c] = <<>>
                         /\ target[c] = 0 /\ ticket[c] = 0 /\ credential[c] = 0
                         /\ marker[c] = "none"
  BY <1>2 DEF Init
<1>8. \A w \in Workers : worker[w].pc = "idle"
  BY <1>2 DEF Init
<1>9. DOMAIN tickets = {}
  BY <1>1
<1>10. \A a \in Nat : /\ \A c \in Clients : ~Sends(c, a) /\ ~Wired(c, a)
                      /\ ~Queued(a) /\ \A w \in Workers : ~Works(w, a)
  BY <1>1, <1>7, <1>8 DEF Sends, Wired, Queued, Works, At
<1>11. Known
  BY <1>1, <1>7, <1>9, <1>10 DEF Known
<1>12. RightsInv /\ TicketsKeepTheirMarker /\ OneTicketPerRight /\ RightsAreGivenBack
  BY <1>1, <1>7, <1>8 DEF RightsInv, Holds, TicketsKeepTheirMarker,
     OneTicketPerRight, RightsAreGivenBack
<1>13. OnTheWay /\ Once
  BY <1>1, <1>7, <1>10 DEF OnTheWay, Once, OnceWired, OnceQueued
<1>14. CollectedInv
  BY <1>7 DEF CollectedInv, Answered
<1> QED
  BY <1>4, <1>5, <1>6, <1>11, <1>12, <1>13, <1>14 DEF IndInv, Shapes

\* The inductive invariant: the shapes, where each request is, who holds each
\* right, and what has left the store.
THEOREM Inductive == Spec => []IndInv
<1>1. IndInv /\ [Next]_vars => IndInv'
  BY SessionShapesStep, WireShapesStep, SignerShapesStep, KnownStep, RightsStep,
     OnTheWayStep, CollectedStep DEF IndInv, Shapes, RightsSafe
<1> QED
  BY InitLemma, <1>1, PTL DEF Spec

\* Types: every number that names a request is the number of one that was
\* made, the queue keeps queue_capacity_, tickets are only of issued requests.
THEOREM TypeCorrect == Spec => []TypeOK
<1>1. IndInv => TypeOK
  <2> SUFFICES ASSUME IndInv PROVE TypeOK
    OBVIOUS
  <2>1. /\ issued \subseteq Asks /\ DOMAIN tickets \subseteq issued
        /\ \A c \in Clients : target[c] # 0 => target[c] \in Asks
        /\ \A c \in Clients : ticket[c] # 0 => ticket[c] \in issued
        /\ \A c \in Clients : credential[c] # 0 => credential[c] \in issued
    BY DEF IndInv, Known, CollectedInv, Gone
  <2>2. \A w \in Workers : At(w, "idle") \/ Ask(w) \in Asks
    BY WorkFacts DEF IndInv
  <2>3. /\ asks \in Seq([client : Clients, right : Clients \cup {"raw"}])
        /\ stage \in [Clients -> Stages] /\ Len(queue) <= QueueCapacity
        /\ marker \in [Clients -> {"none", "torn", "whole"}]
        /\ burnt \subseteq Clients
    BY DEF IndInv, Shapes, SessionShapes, SignerShapes
  <2>4. /\ {ticket[c] : c \in Clients} \subseteq Asks \cup {0}
        /\ {target[c] : c \in Clients} \subseteq Asks \cup {0}
        /\ {credential[c] : c \in Clients} \subseteq Asks \cup {0}
    BY <2>1
  <2> QED
    BY <2>1, <2>2, <2>3, <2>4 DEF TypeOK
<1> QED
  BY Inductive, <1>1, PTL

\* A right never gets a second ticket, whichever workers take its requests in
\* whatever order, and across disk errors and restarts (process_job,
\* record_issuance).
THEOREM RightsUsedOnce == Spec => []OneTicketPerRight
  BY Inductive, PTL DEF IndInv

\* A right that has a marker has a ticket, or a worker is just writing it,
\* unless the process ended in between or the disk failed on the marker itself
\* (record_issuance, rollback_uncommitted_issuance).
THEOREM RightsGivenBack == Spec => []RightsAreGivenBack
  BY Inductive, PTL DEF IndInv

\* A credential is for the target that this client blinded last, for which the
\* mediator issued a ticket that an operator signed
\* (run_finalize_and_verify, Q7933TicketStore::remove).
THEOREM CredentialsOwn == Spec => []CredentialsAreOwn
<1>1. IndInv => CredentialsAreOwn
  BY DEF IndInv, Known, CollectedInv, Gone, CredentialsAreOwn, Pending
<1> QED
  BY Inductive, <1>1, PTL

-----------------------------------------------------------------------------
(* The refinement of Grant.                                                *)

\* GrantOf as a function of what it reads: the marker of the right, its
\* tickets, and the ticket files.
Grade(m, mine, files) ==
    IF m = "none" THEN "free"
    ELSE CASE mine = {} -> "claimed"
           [] \E a \in mine : a \in DOMAIN files /\ files[a] = "pending" -> "pending"
           [] \E a \in mine : a \in DOMAIN files /\ files[a] = "signed" -> "signed"
           [] OTHER -> "taken"

Mine(r) == {a \in issued : Right(a) = r}

\* The refinement mapping, as a function of marker, owner and files.
LEMMA GradeOf ==
    ASSUME NEW r
    PROVE  /\ GrantOf(r) = Grade(marker[r], Mine(r), tickets)
           /\ \A mine : mine = Mine(r)' => GrantOf(r)' = Grade(marker'[r], mine, tickets')
  BY DEF GrantOf, Grade, Mine, Pending, Signed

\* Without a marker the right is free.
LEMMA GradeFree == ASSUME NEW mine, NEW files PROVE Grade("none", mine, files) = "free"
  BY DEF Grade

\* A marker without a ticket is a claim.
LEMMA GradeClaimed ==
    ASSUME NEW m, m # "none", NEW files PROVE Grade(m, {}, files) = "claimed"
  BY DEF Grade

\* A marker with a ticket.
LEMMA GradeTicket ==
    ASSUME NEW m, m # "none", NEW a, NEW files
    PROVE  /\ a \in DOMAIN files /\ files[a] = "pending" => Grade(m, {a}, files) = "pending"
           /\ a \in DOMAIN files /\ files[a] = "signed" => Grade(m, {a}, files) = "signed"
           /\ a \notin DOMAIN files => Grade(m, {a}, files) = "taken"
  BY DEF Grade

\* The mapping only looks at the files of the right's own requests.
LEMMA GradeSame ==
    ASSUME NEW m, NEW n, (m = "none") <=> (n = "none"), NEW mine, NEW files, NEW after,
           \A a \in mine : /\ a \in DOMAIN files <=> a \in DOMAIN after
                           /\ files[a] = after[a]
    PROVE  Grade(m, mine, files) = Grade(n, mine, after)
<1>1. CASE m = "none"
  BY <1>1 DEF Grade
<1>2. CASE m # "none" /\ mine = {}
  BY <1>2 DEF Grade
<1>3. CASE m # "none" /\ mine # {}
  <2>1. /\ (\E a \in mine : a \in DOMAIN files /\ files[a] = "pending")
              <=> (\E a \in mine : a \in DOMAIN after /\ after[a] = "pending")
        /\ (\E a \in mine : a \in DOMAIN files /\ files[a] = "signed")
              <=> (\E a \in mine : a \in DOMAIN after /\ after[a] = "signed")
    OBVIOUS
  <2> QED
    BY <1>3, <2>1 DEF Grade
<1> QED
  BY <1>1, <1>2, <1>3

GrantSame(r) == GrantOf(r)' = GrantOf(r)

GrantMoves(r, from, to) == GrantOf(r) = from /\ GrantOf(r)' = to

\* One step moves one right by one stage, or none.
OneMove ==
    \/ \A r \in Clients : GrantSame(r)
    \/ \E q \in Clients :
          /\ \A r \in Clients \ {q} : GrantSame(r)
          /\ \/ GrantMoves(q, "free", "claimed") \/ GrantMoves(q, "claimed", "free")
             \/ GrantMoves(q, "claimed", "pending")
             \/ GrantMoves(q, "pending", "signed") \/ GrantMoves(q, "signed", "taken")

\* Every step moves at most one right.
LEMMA OneMoveStep == ASSUME IndInv, [Next]_vars PROVE OneMove
<1>0. /\ marker \in [Clients -> {"none", "torn", "whole"}] /\ "raw" \notin Clients
      /\ Shapes /\ Known /\ RightsInv /\ TicketsKeepTheirMarker /\ OneTicketPerRight
      /\ issued \subseteq Asks /\ DOMAIN tickets \subseteq issued
      /\ \A a \in Asks : asks'[a] = asks[a]
  BY Bounds, AsksGrow DEF IndInv, Shapes, SignerShapes, Known
<1>1. ASSUME NEW r \in Clients, issued' = issued,
             (marker[r] = "none") <=> (marker'[r] = "none"),
             \A a \in Mine(r) : /\ a \in DOMAIN tickets <=> a \in DOMAIN tickets'
                                /\ tickets[a] = tickets'[a]
      PROVE  GrantSame(r)
  <2>1. Mine(r) = Mine(r)'
    BY <1>0, <1>1 DEF Mine, Right
  <2> QED
    BY <1>1, <2>1, GradeOf, GradeSame DEF GrantSame
<1>2. ASSUME UNCHANGED <<marker, tickets, issued>> PROVE OneMove
  BY <1>1, <1>2 DEF OneMove
<1>3. \A a \in issued : UsesRight(a) => Right(a) \in Clients /\ Mine(Right(a)) = {a}
                                        /\ marker[Right(a)] # "none"
  BY <1>0, AskFacts DEF Shapes, Mine, OneTicketPerRight, TicketsKeepTheirMarker
<1>4. ASSUME NEW w \in Workers, Claim(w) PROVE OneMove
  <2>1. CASE UNCHANGED marker
    BY <1>2, <1>4, <2>1 DEF Claim
  <2>2. CASE Unused(Right(Ask(w))) /\ marker' = [marker EXCEPT ![Right(Ask(w))] = "torn"]
    <3> DEFINE q == Right(Ask(w))
    <3>1. q \in Clients /\ marker[q] = "none"
      <4>1. UsesRight(Ask(w)) /\ ~At(w, "idle")
        BY <1>0, <1>4 DEF Claim, RightsInv, At
      <4> QED
        BY <1>0, <2>2, <4>1, WorkFacts, AskFacts DEF Shapes, Unused
    <3>2. UNCHANGED <<asks, tickets, issued>>
      BY <1>4 DEF Claim
    <3>3. Mine(q) = {}
      BY <1>3, <3>1, <1>0 DEF Mine, UsesRight
    <3>4. /\ marker'[q] = "torn" /\ \A r \in Clients \ {q} : marker'[r] = marker[r]
      BY <1>0, <2>2, <3>1
    <3> HIDE DEF q
    <3>5. \A r \in Clients \ {q} : GrantSame(r)
      BY <1>1, <3>2, <3>4
    <3>6. ASSUME NEW r \in Clients, r = q PROVE GrantMoves(r, "free", "claimed")
      <4>1. Mine(r)' = {}
        BY <3>2, <3>3, <3>6 DEF Mine, Right
      <4> QED
        BY <3>1, <3>4, <3>6, <4>1, GradeOf, GradeFree, GradeClaimed DEF GrantMoves
    <3> QED
      BY <3>1, <3>5, <3>6 DEF OneMove
  <2> QED
    BY <1>4, <2>1, <2>2 DEF Claim
<1>5. ASSUME NEW w \in Workers, WriteMarker(w) PROVE OneMove
  <2>1. CASE UNCHANGED marker
    BY <1>2, <1>5, <2>1 DEF WriteMarker
  <2>2. CASE marker' = [marker EXCEPT ![Right(Ask(w))] = "whole"]
    <3>1. marker[Right(Ask(w))] = "torn"
      BY <1>0, <1>5 DEF WriteMarker, RightsInv, Holds, At
    <3>2. \A r \in Clients : (marker[r] = "none") <=> (marker'[r] = "none")
      BY <1>0, <2>2, <3>1
    <3> QED
      BY <1>1, <1>5, <3>2 DEF WriteMarker, OneMove
  <2> QED
    BY <1>5, <2>1, <2>2 DEF WriteMarker
<1>6. ASSUME NEW w \in Workers, worker[w].pc \in {"count", "store"}, Rollback(w),
             UNCHANGED <<asks, tickets, issued>>
      PROVE  OneMove
  <2>1. CASE UNCHANGED marker
    BY <1>2, <1>6, <2>1
  <2>2. CASE UsesRight(Ask(w)) /\ marker' = [marker EXCEPT ![Right(Ask(w))] = "none"]
    <3> DEFINE q == Right(Ask(w))
    <3>1. q \in Clients /\ marker[q] = "whole"
      <4>1. ~At(w, "idle") /\ Holds(w)
        BY <1>6, <2>2 DEF At, Holds
      <4> QED
        BY <1>0, <1>6, <2>2, <4>1, WorkFacts, AskFacts DEF Shapes, RightsInv, At
    <3>2. Mine(q) = {}
      BY <1>0, <1>6, <2>2 DEF Mine, RightsInv, Holds
    <3>3. marker'[q] = "none" /\ \A r \in Clients \ {q} : marker'[r] = marker[r]
      BY <1>0, <2>2, <3>1
    <3> HIDE DEF q
    <3>4. \A r \in Clients \ {q} : GrantSame(r)
      BY <1>1, <1>6, <3>3
    <3>5. ASSUME NEW r \in Clients, r = q PROVE GrantMoves(r, "claimed", "free")
      BY <3>1, <3>2, <3>3, <3>5, GradeOf, GradeFree, GradeClaimed DEF GrantMoves
    <3> QED
      BY <3>1, <3>4, <3>5 DEF OneMove
  <2> QED
    BY <1>6, <2>1, <2>2 DEF Rollback
<1>7. ASSUME NEW w \in Workers, At(w, "store"), UNCHANGED <<asks, marker>>,
             issued' = issued \cup {Ask(w)},
             tickets' = [a \in DOMAIN tickets \cup {Ask(w)} |->
                           IF a = Ask(w) THEN "pending" ELSE tickets[a]]
      PROVE  OneMove
  <2> DEFINE b == Ask(w)
             q == Right(b)
  <2>1. /\ b \in DOMAIN tickets' /\ tickets'[b] = "pending"
        /\ \A a : a # b => /\ a \in DOMAIN tickets <=> a \in DOMAIN tickets'
                           /\ a \in DOMAIN tickets => tickets[a] = tickets'[a]
    BY <1>7
  <2>2. ASSUME NEW r \in Clients, r # q PROVE GrantSame(r)
    <3>1. Mine(r)' = Mine(r) /\ b \notin Mine(r)
      BY <1>7, <2>2 DEF Mine, Right
    <3>2. Grade(marker[r], Mine(r), tickets) = Grade(marker[r], Mine(r), tickets')
      <4>1. \A a \in Mine(r) : a \in DOMAIN tickets <=> a \in DOMAIN tickets'
        BY <2>1, <3>1
      <4>2. \A a \in Mine(r) : a \in DOMAIN tickets => tickets[a] = tickets'[a]
        BY <2>1, <3>1
      <4> QED
        BY <4>1, <4>2 DEF Grade
    <3> QED
      BY <1>7, <3>1, <3>2, GradeOf DEF GrantSame
  <2>3. CASE ~UsesRight(b)
    BY <1>0, <2>2, <2>3 DEF OneMove, UsesRight
  <2>4. CASE UsesRight(b)
    <3>1. q \in Clients /\ marker[q] = "whole" /\ Mine(q) = {}
      <4>1. ~At(w, "idle") /\ Holds(w)
        BY <1>7, <2>4 DEF At, Holds
      <4> QED
        BY <1>0, <1>7, <2>4, <4>1, WorkFacts, AskFacts DEF Shapes, RightsInv, At, Mine
    <3>2. Mine(q) \cup {b} = {a \in issued' : asks'[a].right = q}
      BY <1>7 DEF Mine, Right
    <3>3. ASSUME NEW r \in Clients, r = q PROVE GrantMoves(r, "claimed", "pending")
      <4>1. Mine(r)' = {b}
        BY <3>1, <3>2, <3>3 DEF Mine, Right
      <4>2. marker'[r] = "whole" /\ marker[r] = "whole" /\ Mine(r) = {}
        BY <1>7, <3>1, <3>3
      <4> HIDE DEF b
      <4>3. GrantOf(r) = "claimed"
        BY <4>2, GradeOf, GradeClaimed
      <4>4. GrantOf(r)' = Grade("whole", {b}, tickets')
        BY <4>1, <4>2, GradeOf
      <4>5. Grade("whole", {b}, tickets') = "pending"
        BY <2>1, GradeTicket
      <4> QED
        BY <4>3, <4>4, <4>5 DEF GrantMoves
    <3> QED
      BY <2>2, <3>1, <3>3 DEF OneMove
  <2> QED
    BY <2>3, <2>4
<1>8. ASSUME NEW a \in DOMAIN tickets, UNCHANGED <<asks, marker, issued>>,
             \A d : d # a => /\ d \in DOMAIN tickets <=> d \in DOMAIN tickets'
                             /\ d \in DOMAIN tickets => tickets[d] = tickets'[d],
             \/ /\ tickets[a] = "pending"
                /\ a \in DOMAIN tickets' /\ tickets'[a] = "signed"
             \/ tickets[a] = "signed" /\ a \notin DOMAIN tickets'
      PROVE  OneMove
  <2> DEFINE q == Right(a)
  <2>1. ASSUME NEW r \in Clients, r # q PROVE GrantSame(r)
    <3>1. Mine(r)' = Mine(r) /\ a \notin Mine(r)
      BY <1>8, <2>1 DEF Mine, Right
    <3>2. Grade(marker[r], Mine(r), tickets) = Grade(marker[r], Mine(r), tickets')
      <4>1. \A d \in Mine(r) : d \in DOMAIN tickets <=> d \in DOMAIN tickets'
        BY <1>8, <3>1
      <4>2. \A d \in Mine(r) : d \in DOMAIN tickets => tickets[d] = tickets'[d]
        BY <1>8, <3>1
      <4> QED
        BY <4>1, <4>2 DEF Grade
    <3> QED
      BY <1>8, <3>1, <3>2, GradeOf DEF GrantSame
  <2>2. CASE ~UsesRight(a)
    BY <1>0, <2>1, <2>2 DEF OneMove, UsesRight
  <2>3. CASE UsesRight(a)
    <3>1. q \in Clients /\ Mine(q) = {a} /\ marker[q] # "none"
      BY <1>0, <1>3, <1>8, <2>3
    <3>2. ASSUME NEW r \in Clients, r = q
          PROVE  GrantMoves(r, "pending", "signed") \/ GrantMoves(r, "signed", "taken")
      <4>1. Mine(r)' = {a}
        BY <1>8, <3>1, <3>2 DEF Mine, Right
      <4>2. marker'[r] # "none" /\ marker[r] # "none" /\ Mine(r) = {a}
        BY <1>8, <3>1, <3>2
      <4>3. /\ GrantOf(r) = Grade(marker[r], {a}, tickets)
            /\ GrantOf(r)' = Grade(marker'[r], {a}, tickets')
        BY <4>1, <4>2, GradeOf
      <4>4. CASE tickets[a] = "pending" /\ a \in DOMAIN tickets' /\ tickets'[a] = "signed"
        <5>1. Grade(marker[r], {a}, tickets) = "pending"
          BY <1>8, <4>2, <4>4, GradeTicket
        <5>2. Grade(marker'[r], {a}, tickets') = "signed"
          BY <4>2, <4>4, GradeTicket
        <5> QED
          BY <4>3, <5>1, <5>2 DEF GrantMoves
      <4>5. CASE tickets[a] = "signed" /\ a \notin DOMAIN tickets'
        <5>1. Grade(marker[r], {a}, tickets) = "signed"
          BY <1>8, <4>2, <4>5, GradeTicket
        <5>2. Grade(marker'[r], {a}, tickets') = "taken"
          BY <4>2, <4>5, GradeTicket
        <5> QED
          BY <4>3, <5>1, <5>2 DEF GrantMoves
      <4> QED
        BY <1>8, <4>4, <4>5
    <3> QED
      BY <2>1, <3>1, <3>2 DEF OneMove
  <2> QED
    BY <2>2, <2>3
<1>9. ASSUME NEW a \in Asks, SignTicket(a) PROVE OneMove
  BY <1>8, <1>9 DEF SignTicket, Pending
<1>10. ASSUME NEW c \in Clients, HandlePoll(c) PROVE OneMove
  <2>1. CASE ~Signed(Head(up[c]).of)
    BY <1>2, <1>10, <2>1 DEF HandlePoll, Collects
  <2>0. CASE UNCHANGED tickets
    BY <1>2, <1>10, <2>0 DEF HandlePoll
  <2>2. CASE Signed(Head(up[c]).of) /\ tickets' = Without(tickets, Head(up[c]).of)
    <3>1. UNCHANGED <<asks, marker, issued>>
      BY <1>10 DEF HandlePoll
    <3> QED
      BY <1>8, <2>2, <3>1 DEF Signed, Without
  <2> QED
    BY <1>10, <2>0, <2>1, <2>2 DEF HandlePoll
<1>11. ASSUME NEW w \in Workers, CountTickets(w) PROVE OneMove
  BY <1>2, <1>6, <1>11 DEF CountTickets, At
<1>12. ASSUME NEW w \in Workers, StoreTicket(w) PROVE OneMove
  BY <1>6, <1>7, <1>12 DEF StoreTicket, At
<1> QED
  <2> DEFINE Still == UNCHANGED <<marker, tickets, issued>>
  <2>1. ASSUME NEW c \in Clients, ClientStep(c) PROVE Still
    BY <2>1 DEF ClientStep, disk, RequestInfo,
       OnInfoResponse, StartRequest, StartProver, ProofFails, SendChunk,
       AwaitResponse, PollTicket, OnSignerResponse, Finalize
  <2>2. ASSUME NEW c \in Clients, MediatorStep(c) \/ Drop(c) \/ Reconnect(c)
        PROVE  Still \/ HandlePoll(c)
    BY <2>2 DEF MediatorStep, disk, HandleInfoRequest, AddChunk, RefuseChunk,
       SubmitRequest, Drop, Reconnect
  <2>3. ASSUME RefuseProof \/ Crash \/ (\E w \in Workers : TakeJob(w)) \/ UNCHANGED vars
        PROVE  Still
    BY <2>3 DEF RefuseProof, Crash, TakeJob, vars, disk
  <2> QED
    BY <1>2, <1>4, <1>5, <1>9, <1>10, <1>11, <1>12, <2>1, <2>2, <2>3
    DEF Next, WorkerStep

\* The signer with its queue, its workers and its two stores implements Grant,
\* for any number of workers and through every crash and disk error: a right
\* goes from free to taken one stage at a time, and back to free only before
\* it has a ticket.
THEOREM GrantRefined == Spec => ImplementsGrant
<1>1. Init => GrantSpec!Init
  <2> SUFFICES ASSUME Init PROVE \A r \in Rights : GrantOf(r) = "free"
    BY DEF GrantSpec!Init
  <2> QED
    BY DEF Init, Rights, GrantOf
<1>2. IndInv /\ [Next]_vars => [GrantSpec!Next]_([r \in Rights |-> GrantOf(r)])
  <2> SUFFICES ASSUME IndInv, [Next]_vars
               PROVE  GrantSpec!Next \/ \A r \in Rights : GrantOf(r)' = GrantOf(r)
    BY DEF Rights
  <2>1. Rights \subseteq Clients
    BY DEF Rights
  <2>2. CASE \A r \in Clients : GrantSame(r)
    BY <2>1, <2>2 DEF GrantSame
  <2>3. ASSUME NEW q \in Clients, NEW from, NEW to,
               \A r \in Clients \ {q} : GrantSame(r), GrantMoves(q, from, to), q \in Rights
        PROVE  GrantSpec!Move(q, from, to)
    BY <2>1, <2>3 DEF GrantSpec!Move, GrantSame, GrantMoves, Rights
  <2>4. ASSUME NEW q \in Clients, \A r \in Clients \ {q} : GrantSame(r), q \notin Rights
        PROVE  \A r \in Rights : GrantOf(r)' = GrantOf(r)
    BY <2>1, <2>4 DEF GrantSame
  <2> QED
    BY <2>2, <2>3, <2>4, OneMoveStep
    DEF OneMove, GrantSpec!Next, GrantSpec!Claim, GrantSpec!Release,
        GrantSpec!Issue, GrantSpec!Sign, GrantSpec!Take
<1> QED
  BY Inductive, <1>1, <1>2, PTL DEF Spec, ImplementsGrant, GrantSpec!Spec
=============================================================================

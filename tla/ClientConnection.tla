-------------------------- MODULE ClientConnection --------------------------
(***************************************************************************)
(* One connection of the lobby: struct Client with its queue of outgoing   *)
(* frames, its wake pipe and its strikes, and the thread that runs         *)
(* client_loop.  Other threads queue frames at any time, the peer sends    *)
(* frames or hangs up at any time, and any read or write may fail.         *)
(*                                                                         *)
(* Frames are told apart by who queued them: "room" by another thread,     *)
(* "reply" by a handler of this connection, "last" the Error that explains *)
(* the final strike.  The pipe is non-blocking and only its emptiness is   *)
(* ever looked at; a write to it fails only when it is full.               *)
(***************************************************************************)
EXTENDS Naturals, Sequences

CONSTANTS Others,            \* other threads that address this client
          MaxQueuedFrames,   \* kMaxQueuedFrames
          MaxStrikes,        \* bad messages that end a connection
          MaxBatch,          \* frames handled before the next flush
          MaxInbox           \* bound on frames the peer has under way

ASSUME ConnectionAssumption ==
    {MaxQueuedFrames, MaxStrikes, MaxBatch, MaxInbox} \subseteq Nat \ {0}

VARIABLES
    pc,          \* where client_loop is
    alive, outgoing, pipe, bad_messages,
    waking,      \* threads that have queued a frame and not written the pipe
    inbox,       \* frames of the peer that wait to be read
    processed,   \* frames handled in this batch
    readable,    \* what poll said about the socket
    taken,       \* frames that flush_outgoing is sending
    after,       \* where flush_outgoing returns to
    failed,      \* history: the channel failed or the peer hung up
    last         \* history: the final Error is "none", "queued" or "sent"

queue == <<alive, outgoing, pipe, waking>>
loop == <<pc, bad_messages, processed, readable, taken, after>>
vars == <<queue, loop, inbox, failed, last>>

Init ==
    /\ pc = "welcome"
    /\ alive = TRUE /\ outgoing = <<>> /\ pipe = FALSE /\ waking = {}
    /\ bad_messages = 0 /\ processed = 0 /\ readable = FALSE
    /\ taken = <<>> /\ after = "top"
    /\ inbox = 0
    /\ failed = FALSE
    /\ last = "none"

-----------------------------------------------------------------------------
\* Client::enqueue under queue_mutex: dead, overflowing, or accepted.
Accepts == alive /\ Len(outgoing) < MaxQueuedFrames

Push(frame) ==
    /\ alive' = Accepts
    /\ outgoing' = IF Accepts THEN Append(outgoing, frame) ELSE outgoing

\* enqueue by another thread; wake() comes after the mutex is released, but
\* before it when the queue overflows.
EnqueueByOther(t) ==
    /\ t \notin waking
    /\ Push("room")
    /\ waking' = IF Accepts THEN waking \cup {t} ELSE waking
    /\ pipe' = (pipe \/ (alive /\ ~Accepts))
    /\ UNCHANGED <<loop, inbox, failed, last>>

Wake(t) ==
    /\ t \in waking
    /\ waking' = waking \ {t}
    /\ pipe' = TRUE
    /\ UNCHANGED <<alive, outgoing, loop, inbox, failed, last>>

\* The peer sends a frame.
PeerSends ==
    /\ inbox < MaxInbox
    /\ inbox' = inbox + 1
    /\ UNCHANGED <<queue, loop, failed, last>>

-----------------------------------------------------------------------------
\* An exception leaves the loop.
Fail ==
    /\ pc \in {"welcome", "poll", "receive", "send"}
    /\ pc' = "closing"
    /\ failed' = TRUE
    /\ UNCHANGED <<queue, bad_messages, processed, readable, taken, after,
                   inbox, last>>

Welcome ==
    /\ pc = "welcome"
    /\ pc' = "top"
    /\ UNCHANGED <<queue, bad_messages, processed, readable, taken, after,
                   inbox, failed, last>>

\* The loop does not look at `alive`.
TopMutant ==
    /\ pc = "top"
    /\ pc' = "poll"
    /\ UNCHANGED <<queue, bad_messages, processed, readable, taken, after,
                   inbox, failed, last>>

Top ==
    /\ pc = "top"
    /\ pc' = IF alive THEN "poll" ELSE "closing"
    /\ UNCHANGED <<queue, bad_messages, processed, readable, taken, after,
                   inbox, failed, last>>

\* poll() returns with what is ready, or after its timeout.
Poll ==
    /\ pc = "poll"
    /\ readable' = (inbox > 0)
    /\ pc' = IF pipe THEN "drain" ELSE "socket"
    /\ UNCHANGED <<queue, bad_messages, processed, taken, after, inbox, failed,
                   last>>

\* poll() is interrupted by a signal.
Interrupted ==
    /\ pc = "poll"
    /\ pc' = "top"
    /\ UNCHANGED <<queue, bad_messages, processed, readable, taken, after,
                   inbox, failed, last>>

\* flush_outgoing: take the whole queue, then send frame by frame.
Flush(return) ==
    /\ taken' = outgoing
    /\ outgoing' = <<>>
    /\ after' = return
    /\ pc' = "send"

DrainWakePipe ==
    /\ pc = "drain"
    /\ pipe' = FALSE
    /\ pc' = "drained"
    /\ UNCHANGED <<alive, outgoing, waking, bad_messages, processed, readable,
                   taken, after, inbox, failed, last>>

FlushOnWake ==
    /\ pc = "drained"
    /\ Flush("socket")
    /\ UNCHANGED <<alive, pipe, waking, bad_messages, processed, readable,
                   inbox, failed, last>>

\* The pipe is drained after the flush instead of before it.
SendFrameMutant ==
    /\ pc = "send"
    /\ IF taken = <<>>
       THEN pc' = after /\ pipe' = FALSE /\ UNCHANGED <<taken, last>>
       ELSE /\ taken' = Tail(taken)
            /\ last' = IF Head(taken) = "last" THEN "sent" ELSE last
            /\ UNCHANGED <<pc, pipe>>
    /\ UNCHANGED <<alive, outgoing, waking, bad_messages, processed, readable,
                   after, inbox, failed>>

\* send_frame of the next frame, or the end of flush_outgoing.
SendFrame ==
    /\ pc = "send"
    /\ IF taken = <<>>
       THEN pc' = after /\ UNCHANGED <<taken, last>>
       ELSE /\ taken' = Tail(taken)
            /\ last' = IF Head(taken) = "last" THEN "sent" ELSE last
            /\ UNCHANGED pc
    /\ UNCHANGED <<queue, bad_messages, processed, readable, after, inbox,
                   failed>>

\* The peer may have hung up; otherwise read if there is something to read.
Socket ==
    /\ pc = "socket"
    /\ \/ pc' = "closing" /\ failed' = TRUE
       \/ pc' = (IF readable THEN "receive" ELSE "flush") /\ UNCHANGED failed
    /\ processed' = 0
    /\ UNCHANGED <<queue, bad_messages, readable, taken, after, inbox, last>>

-----------------------------------------------------------------------------
\* After a frame: the next one, if the channel has already decrypted it
\* (has_pending_input), or the flush.
Continue(living, pending) ==
    /\ processed' = processed + 1
    /\ \/ pc' = "receive" /\ living /\ pending > 0 /\ processed + 1 < MaxBatch
       \/ pc' = "flush"

Received ==
    /\ pc = "receive"
    /\ inbox > 0
    /\ inbox' = inbox - 1
    /\ UNCHANGED <<waking, readable, taken, after, failed>>

ReceiveDisconnect ==
    /\ Received
    /\ alive' = FALSE
    /\ pc' = "flush"
    /\ UNCHANGED <<outgoing, pipe, processed, bad_messages, last>>

\* A request goes to its handler, which may queue frames for this client (an
\* answer, the news of its room, or the Error of a benign rejection).
ReceiveRequest ==
    /\ Received
    /\ pc' = "handle"
    /\ UNCHANGED <<alive, outgoing, pipe, bad_messages, processed, last>>

Reply ==
    /\ pc = "handle"
    /\ Push("reply")
    /\ pipe' = (pipe \/ alive)
    /\ UNCHANGED <<waking, loop, inbox, failed, last>>

HandlerReturns ==
    /\ pc = "handle"
    /\ Continue(alive, inbox)
    /\ UNCHANGED <<queue, bad_messages, readable, taken, after, inbox, failed,
                   last>>

\* A bad message: an Error is queued, and the last strike ends the connection.
ReceiveBad ==
    /\ Received
    /\ bad_messages + 1 < MaxStrikes
    /\ bad_messages' = bad_messages + 1
    /\ Push("reply")
    /\ pipe' = (pipe \/ alive)
    /\ Continue(Accepts, inbox - 1)
    /\ UNCHANGED last

ReceiveLastStrike ==
    /\ Received
    /\ bad_messages + 1 >= MaxStrikes
    /\ bad_messages' = bad_messages + 1
    /\ outgoing' = IF Accepts THEN Append(outgoing, "last") ELSE outgoing
    /\ last' = IF Accepts THEN "queued" ELSE last
    /\ pipe' = (pipe \/ alive)
    /\ alive' = FALSE
    /\ pc' = "flush"
    /\ UNCHANGED processed

\* A connection that is over is not flushed any more.
FlushBatchMutant ==
    /\ pc = "flush"
    /\ IF alive THEN Flush("top")
       ELSE pc' = "top" /\ UNCHANGED <<taken, outgoing, after>>
    /\ UNCHANGED <<alive, pipe, waking, bad_messages, processed, readable,
                   inbox, failed, last>>

\* The unconditional flush at the end of the loop body.
FlushBatch ==
    /\ pc = "flush"
    /\ Flush("top")
    /\ UNCHANGED <<alive, pipe, waking, bad_messages, processed, readable,
                   inbox, failed, last>>

\* After the loop: remove_client and close.
Close ==
    /\ pc = "closing"
    /\ alive' = FALSE
    /\ pc' = "removed"
    /\ UNCHANGED <<outgoing, pipe, waking, bad_messages, processed, readable,
                   taken, after, inbox, failed, last>>

-----------------------------------------------------------------------------
LoopStep ==
    \/ Fail \/ Welcome \/ Top \/ Poll \/ Interrupted
    \/ DrainWakePipe \/ FlushOnWake
    \/ SendFrame \/ Socket \/ ReceiveDisconnect \/ ReceiveRequest \/ Reply
    \/ HandlerReturns \/ ReceiveBad \/ ReceiveLastStrike \/ FlushBatch \/ Close

Next ==
    \/ LoopStep
    \/ PeerSends
    \/ \E t \in Others : EnqueueByOther(t) \/ Wake(t)

\* The threads run; the peer and the other handlers do as they please.
Spec == Init /\ [][Next]_vars /\ WF_vars(LoopStep)
             /\ \A t \in Others : WF_vars(Wake(t))

-----------------------------------------------------------------------------
Frames == {"room", "reply", "last"}

TypeOK ==
    /\ pc \in {"welcome", "top", "poll", "drain", "drained", "send", "socket",
               "receive", "handle", "flush", "closing", "removed"}
    /\ alive \in BOOLEAN /\ pipe \in BOOLEAN /\ readable \in BOOLEAN
    /\ \A i \in DOMAIN outgoing : outgoing[i] \in Frames
    /\ \A i \in DOMAIN taken : taken[i] \in Frames
    /\ Len(outgoing) <= MaxQueuedFrames /\ Len(taken) <= MaxQueuedFrames
    /\ bad_messages \in 0..MaxStrikes
    /\ processed \in 0..MaxBatch
    /\ waking \subseteq Others
    /\ inbox \in 0..MaxInbox
    /\ after \in {"top", "socket"}
    /\ failed \in BOOLEAN
    /\ last \in {"none", "queued", "sent"}

\* No lost wake-up: when the loop goes to sleep in poll with frames in the
\* queue, the pipe is readable or a thread is about to make it so, so a queued
\* frame never waits for the poll timeout.
NoLostWake ==
    pc = "poll" /\ outgoing # <<>> /\ waking = {} => pipe

\* "The very Error explaining a disconnect-triggering rejection must still go
\* out before the socket closes": a final Error that was queued has been sent
\* when the connection closes, unless the channel itself failed.
LastWordDelivered ==
    pc = "removed" /\ ~failed => last # "queued"

\* A client that is marked dead, by its own frames or by another thread whose
\* frame overflows its queue, is eventually removed from the lobby.
DeadClientsLeave == ~alive ~> pc = "removed"
=============================================================================

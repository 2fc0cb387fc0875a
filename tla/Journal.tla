------------------------------- MODULE Journal -------------------------------
(***************************************************************************)
(* A client's own journal of a trade (journal.cpp): an append-only,        *)
(* hash-chained log, signed checkpoints in it and a head-pointer file      *)
(* beside it, written while the process may be killed at any moment or a   *)
(* write may fail for lack of space.  The journal follows party A of a     *)
(* session at the mediator, which goes on while the client is down, and    *)
(* recovery.cpp compares the two.                                          *)
(*                                                                         *)
(* A hash stands for all it was computed from: the hash of an entry is the *)
(* sequence of entries up to it.  Signatures verify, since nobody but the  *)
(* client writes the files.  The caller is the client that journal.hpp     *)
(* describes: it records each local state it sees.                         *)
(***************************************************************************)
EXTENDS SessionCore, Sequences, SequencesExt

CONSTANTS Rounds,           \* rounds of the deal
          FeeConfigs,       \* [fee, confirm, position] of the session
          EntrySize,        \* bytes of an entry record, in some unit
          CheckSize,        \* bytes of a checkpoint record
          MaxCheckpoints,   \* bound on the checkpoints of one behaviour
          MaxCrashes,       \* bound on the crashes of the client
          MaxHeadErrors,    \* bound on the head files that cannot be replaced
          MaxWriteErrors    \* bound on the writes to the log that fail

ASSUME JournalAssumption ==
    /\ {Rounds, EntrySize, CheckSize} \subseteq Nat \ {0}
    /\ {MaxCheckpoints, MaxCrashes, MaxHeadErrors, MaxWriteErrors} \subseteq Nat
    /\ FeeConfigs \subseteq [fee : BOOLEAN, confirm : BOOLEAN,
                              position : FeePositions]

VARIABLES
    session,    \* the mediator's session of this trade
    log,        \* log_path: complete and torn records, in file order
    head,       \* head_path: index of its checkpoint, -1 if there is no file
    journal,    \* the open Journal object: entries_ and the last checkpoint
    open,       \* "closed", "open" or the error that open() threw
    signing,    \* checkpoint() has written its record but not the head file
    faults,     \* how many checkpoints, crashes, failed writes so far
    returned,   \* history: entries for which append() returned
    taken       \* history: the Sent signals of A that the mediator accepted

vars == <<session, log, head, journal, open, signing, faults, returned, taken>>

-----------------------------------------------------------------------------
\* JournalEntryFields, as far as anything reads them: the local state, and
\* whether the entry is about the client's own Sent and if that is answered.
Fields == [state : SessionStates, round : 0..Rounds, sent : BOOLEAN,
           ack : {"NotApplicable", "Pending", "Acknowledged"}]

\* A record in the file.  have < size: the write was cut short.
EntryRecord(prev, f) ==
    [kind |-> "entry", index |-> Len(prev), prev |-> prev, fields |-> f,
     have |-> EntrySize, size |-> EntrySize]

CheckRecord(entries) ==
    [kind |-> "check", index |-> Len(entries) - 1, prev |-> entries,
     fields |-> Last(entries), have |-> CheckSize, size |-> CheckSize]

\* As before the gate of the final receipt was added to the sessions.
IsValidTransitionMutant(from, to) ==
    \/ from = to
    \/ to = "Aborted" /\ from \notin {"Complete", "Aborted"}
    \/ from = "WaitingForPeer" /\ to = "WaitingForSent"
    \/ from = "WaitingForSent" /\ to = "WaitingForReceived"
    \/ /\ from = "WaitingForReceived"
       /\ to \in {"WaitingForSent", "WaitingForFeeSent", "Complete"}
    \/ /\ from = "WaitingForFeeSent"
       /\ to \in {"Complete", "WaitingForFeeConfirmation"}
    \/ from = "WaitingForFeeConfirmation" /\ to = "Complete"

\* The local states that may follow each other in one trade.
IsValidTransition(from, to) ==
    \/ from = to
    \/ /\ from = "WaitingForPeer"
       /\ to \in {"WaitingForSent", "Aborted"}
    \/ /\ from = "WaitingForSent"
       /\ to \in {"WaitingForReceived", "Aborted"}
    \/ /\ from = "WaitingForReceived"
       /\ to \in {"WaitingForSent", "WaitingForFinalReceiptAck", "Complete",
                  "Aborted"}
    \/ /\ from = "WaitingForFinalReceiptAck"
       /\ to \in {"WaitingForSent", "WaitingForFeeSent", "Aborted"}
    \/ /\ from = "WaitingForFeeSent"
       /\ to \in {"Complete", "WaitingForFeeConfirmation", "Aborted"}
    \/ /\ from = "WaitingForFeeConfirmation"
       /\ to \in {"Complete", "Aborted"}

\* The state check of append() and of the replay in open().
Accepts(entries, f) ==
    IF entries = <<>> THEN f.state = "WaitingForPeer"
    ELSE IsValidTransition(Last(entries).state, f.state)

Closed == [entries |-> <<>>, check |-> -1]

Init ==
    /\ \E c \in FeeConfigs, first \in Parties :
           session = NewSession([rounds |-> Rounds, first_sender |-> first,
                                 total |-> [p \in Parties |-> Rounds]],
                                c.fee, c.confirm, c.position)
    /\ log = <<>>
    /\ head = -1
    /\ journal = Closed
    /\ open = "closed"
    /\ signing = FALSE
    /\ faults = [checks |-> 0, crashes |-> 0, heads |-> 0, errors |-> 0]
    /\ returned = <<>>
    /\ taken = {}

-----------------------------------------------------------------------------
\* Journal::open replays the log record by record.
BytesAfter(i) == FoldLeft(LAMBDA n, x : n + x.have, 0,
                          SubSeq(log, i + 1, Len(log)))

\* Where parsing stops: a record that was cut short swallows the bytes after
\* it.  If there are not enough of them it is taken for the torn tail, else
\* the bytes of several writes are read as one record.
Cut(i) == log[i].have < log[i].size
TornTail(i) == Cut(i) /\ log[i].have + BytesAfter(i) < log[i].size

\* The records the replay gets to see.
FirstCut == SelectInSeq(log, LAMBDA x : x.have < x.size)
Parsed == IF FirstCut = 0 THEN log ELSE SubSeq(log, 1, FirstCut - 1)

\* One record against the journal replayed so far; an error stays.
Replay(j, x) ==
    IF "error" \in DOMAIN j THEN j
    ELSE IF x.kind = "entry"
         THEN IF x.index = Len(j.entries) /\ x.prev = j.entries
                 /\ Accepts(j.entries, x.fields)
              THEN [j EXCEPT !.entries = Append(@, x.fields)]
              ELSE [error |-> "Tamper"]
         ELSE IF /\ x.index < Len(j.entries)
                 /\ x.prev = SubSeq(j.entries, 1, x.index + 1)
                 /\ x.index >= j.check
              THEN [j EXCEPT !.check = x.index]
              ELSE [error |-> "Tamper"]

Replayed == FoldLeft(Replay, Closed, Parsed)

\* The cross-check with the head-pointer file.
HeadAhead(j) == head # -1 /\ (j.check = -1 \/ head > j.check)

\* What open() can end in.  Bytes of several writes read as one record are
\* malformed or do not match their hash.
OpenResults ==
    IF FirstCut # 0 /\ ~TornTail(FirstCut) THEN {"Format", "Tamper"}
    ELSE IF "error" \in DOMAIN Replayed THEN {Replayed.error}
    ELSE IF HeadAhead(Replayed) THEN {"Rollback"}
    ELSE {"open"}

\* The torn tail is left in the file.
TruncatedMutant == log

\* ftruncate back to the last complete record.
Truncated == IF FirstCut # 0 /\ TornTail(FirstCut) THEN Parsed ELSE log

Open ==
    /\ open = "closed"
    /\ \E result \in OpenResults :
          /\ open' = result
          /\ journal' = IF result = "open" THEN Replayed ELSE Closed
          /\ log' = IF result \in {"open", "Rollback"} THEN Truncated ELSE log
    /\ UNCHANGED <<session, head, signing, faults, returned, taken>>

-----------------------------------------------------------------------------
\* The session as the client sees it, and what it last recorded.
Local == [state |-> session.state, round |-> session.round]
Started == journal.entries # <<>>
LastEntry == Last(journal.entries)
Recorded == /\ Started
            /\ Local = [state |-> LastEntry.state, round |-> LastEntry.round]

\* An entry about a state, or about the client's Sent in it.
Noted(sent, ack) ==
    [state |-> session.state, round |-> session.round, sent |-> sent, ack |-> ack]

\* It is the client's turn to say that it has sent.
MyTurn == /\ session.state \in {"WaitingForSent", "WaitingForFeeSent"}
          /\ CurrentSender(session) = "A"

\* The next entry the client has to record, if any: a new state (the answer to
\* its own Sent, when it recorded that before), or that it is about to send.
Due ==
    IF ~Recorded
    THEN {Noted(Started /\ LastEntry.ack = "Pending",
                IF Started /\ LastEntry.ack = "Pending" THEN "Acknowledged"
                                                       ELSE "NotApplicable")}
    ELSE IF MyTurn /\ LastEntry.ack # "Pending" THEN {Noted(TRUE, "Pending")}
    ELSE {}

Appendable == {f \in Due : Accepts(journal.entries, f)}

ReadyToAppend == open = "open" /\ ~signing

\* append() after its checks: one write of the whole record and fsync, then
\* the memory follows.
AppendEntry ==
    /\ ReadyToAppend
    /\ \E f \in Appendable :
          /\ log' = Append(log, EntryRecord(journal.entries, f))
          /\ journal' = [journal EXCEPT !.entries = Append(@, f)]
    /\ returned' = journal'.entries
    /\ UNCHANGED <<session, head, open, signing, faults, taken>>

\* checkpoint() and checkpoint_mldsa65(): the record in the log first ...
CheckpointRecord ==
    /\ ReadyToAppend
    /\ Started
    /\ faults.checks < MaxCheckpoints
    /\ log' = Append(log, CheckRecord(journal.entries))
    /\ signing' = TRUE
    /\ faults' = [faults EXCEPT !.checks = @ + 1]
    /\ UNCHANGED <<session, head, journal, open, returned, taken>>

\* ... then the head-pointer file, by write_replace_atomic.
CheckpointHead ==
    /\ signing
    /\ head' = Len(journal.entries) - 1
    /\ journal' = [journal EXCEPT !.check = Len(journal.entries) - 1]
    /\ signing' = FALSE
    /\ UNCHANGED <<session, log, open, faults, returned, taken>>

\* What may be in the file of a record whose write did not end: any part of
\* its bytes, or all of them.
Fragments(x) == {[x EXCEPT !.have = n] : n \in 1..x.size}

Writable ==
    {EntryRecord(journal.entries, f) : f \in Appendable}
        \cup (IF Started THEN {CheckRecord(journal.entries)} ELSE {})

\* The process dies, perhaps in the middle of a write to the log.
Crash ==
    /\ open = "open"
    /\ faults.crashes < MaxCrashes
    /\ \/ log' = log
       \/ /\ ~signing
          /\ \E x \in Writable : \E y \in Fragments(x) : log' = Append(log, y)
    /\ journal' = Closed
    /\ open' = "closed"
    /\ signing' = FALSE
    /\ faults' = [faults EXCEPT !.crashes = @ + 1]
    /\ UNCHANGED <<session, head, returned, taken>>

\* A write of an entry or of a checkpoint record fails after some of its
\* bytes: write_all_and_sync throws, the process goes on.
WriteFails ==
    /\ ReadyToAppend
    /\ faults.errors < MaxWriteErrors
    /\ \/ log' = log
       \/ \E x \in Writable : \E y \in Fragments(x) :
             y.have < y.size /\ log' = Append(log, y)
    /\ faults' = [faults EXCEPT !.errors = @ + 1]
    /\ UNCHANGED <<session, head, journal, open, signing, returned, taken>>

\* The head file cannot be replaced: checkpoint() throws, the old one stays.
HeadWriteFails ==
    /\ signing
    /\ faults.heads < MaxHeadErrors
    /\ signing' = FALSE
    /\ faults' = [faults EXCEPT !.heads = @ + 1]
    /\ UNCHANGED <<session, log, head, journal, open, returned, taken>>

-----------------------------------------------------------------------------
Signal == [round |-> session.round, sender |-> CurrentSender(session)]

\* A call of party p on the session, or of the operator.
SessionStep(p) ==
    \/ JoinAccepted(session) /\ session' = Join(session)
    \/ SentAccepted(session, p, Signal) /\ session' = SenderReportedSent(session)
    \/ /\ ReceivedAccepted(session, p, Signal)
       /\ session' = ReceiverReportedReceived(session)
    \/ AckAccepted(session, p) /\ session' = AcknowledgeFinalReceipt(session, p)
    \/ ConfirmAccepted(session) /\ session' = ConfirmFeeReceived(session)
    \/ /\ AbortAccepted(session) /\ session.state # "Aborted"
       /\ session' = Abort(session)

\* While the client runs it records each state, and its own Sent before it
\* goes out.
TradeOnline ==
    /\ ReadyToAppend
    /\ Recorded
    /\ \/ \E p \in Parties : SessionStep(p) /\ ~(p = "A" /\ MyTurn)
       \/ /\ MyTurn
          /\ LastEntry.ack = "Pending"
          /\ session' = SenderReportedSent(session)
    /\ taken' = IF MyTurn /\ session'.state # "Aborted" THEN taken \cup {Local}
                                                        ELSE taken
    /\ UNCHANGED <<log, head, journal, open, signing, faults, returned>>

\* While it is down only the other party and the operator act.
TradeOffline ==
    /\ open # "open"
    /\ SessionStep("B")
    /\ UNCHANGED <<log, head, journal, open, signing, faults, returned, taken>>

Next == \/ Open \/ AppendEntry \/ CheckpointRecord \/ CheckpointHead
        \/ Crash \/ HeadWriteFails \/ TradeOnline \/ TradeOffline

Spec == Init /\ [][Next]_vars

\* The same with a disk that may run full while the process goes on.
FaultySpec == Init /\ [][Next \/ WriteFails]_vars

-----------------------------------------------------------------------------
\* classify_recovery_action, with the mediator's answer about the room: it
\* forgets rooms that are over.
IsValueBearing(f) == f.sent

\* The rounds are compared the wrong way round at the boundary.
ClassifyMutant(f) ==
    IF session.round >= f.round THEN "AlreadyCommitted"
    ELSE "UnknownRequiresReconciliation"

Classify(f) ==
    IF session.state \in {"Complete", "Aborted"}
    THEN IF f.state \in {"Complete", "Aborted"} THEN "AlreadyCommitted"
         ELSE "UnknownRequiresReconciliation"
    ELSE IF session.round > f.round THEN "AlreadyCommitted"
    ELSE IF session.round < f.round THEN "UnknownRequiresReconciliation"
    ELSE CASE f.ack = "Acknowledged" -> "AlreadyCommitted"
           [] f.ack = "Pending" -> IF IsValueBearing(f)
                                   THEN "UnsafeRequiresConfirmation"
                                   ELSE "SafeIdempotentRetry"
           [] OTHER -> "UnknownRequiresReconciliation"

-----------------------------------------------------------------------------
TypeOK ==
    /\ open \in {"closed", "open", "Format", "Tamper", "Rollback"}
    /\ journal.entries \in Seq(Fields)
    /\ journal.check \in -1..(Len(journal.entries) - 1)
    /\ head \in -1..(Len(log) - 1)
    /\ signing => open = "open"
    /\ \A i \in DOMAIN log : log[i].have \in 1..log[i].size

\* A crash in the middle of a write must be a recoverable event: whatever
\* crash cut off a write to the log or came between the two writes of a
\* checkpoint, open() succeeds.
CrashesAreRecoverable == open \in {"closed", "open"}

\* append() returns only what is durable: an opened journal has every entry
\* that was ever returned, in order.
ReturnedEntriesSurvive ==
    open = "open" => IsPrefix(returned, journal.entries)

\* The head-pointer file is never ahead of the log, so the rollback check of
\* open() raises no false alarm at any moment.
HeadNeverAhead ==
    head # -1 => \E i \in DOMAIN log : /\ log[i].kind = "check"
                                       /\ log[i].have = log[i].size
                                       /\ log[i].index >= head

\* is_valid_transition mirrors SessionState's legal transitions: a client
\* that has recorded every state so far can record the next one too.
NextStateRecordable ==
    [][TradeOnline => Accepts(journal.entries, [state |-> session'.state])]_vars

\* classify_recovery_action after any crash: a pending Sent that is called
\* already committed was accepted by the mediator, and one that was accepted
\* is never called safe to repeat.
RecoveryTellsTruth ==
    (open = "open" /\ Started /\ LastEntry.ack = "Pending") =>
        LET signal == [state |-> LastEntry.state, round |-> LastEntry.round]
        IN  /\ Classify(LastEntry) = "AlreadyCommitted" => signal \in taken
            /\ signal \in taken => Classify(LastEntry) # "SafeIdempotentRetry"
=============================================================================

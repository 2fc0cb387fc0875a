# A TLA+ verification project for tradep2p (UMBRA)

tradep2p lets two strangers exchange assets in many small rounds. A mediator
holds no assets: it only keeps track of whose turn it is and who reported
`sent` and `received`. This directory holds TLA+ models of the mediator and of
the programs around it, the TLC configurations that check them, and proofs that
TLAPS checks. Paths below are relative to the repository root.

## 1. Inventory

| Component | State | Operations | Talks to |
|---|---|---|---|
| `MediatorSession` (`mediator.cpp`) | state, round, leg, two acknowledgement flags; fee, fee position, confirmation flag | `join`, `sender_reported_sent`, `receiver_reported_received`, `confirm_fee_received`, `acknowledge_final_receipt`, `abort`, `restore` | called by the lobby with the room's mutex held |
| Lobby (`lobby.cpp`, `LobbyServer::Impl`) | `clients_`, `offers_`, `rooms_` under `hub_mutex_`; a mutex per room; `persisted_rooms_`; `fee_`; price history | one handler per message type, admin commands, fee plugin poll, disconnect | one thread per client, an admin thread, a plugin thread, a snapshot thread |
| Client connection (`Client`, `client_loop`) | queue of at most 128 frames, wake pipe, `alive`, strikes | enqueue (any thread), poll, read, dispatch, flush, close | lobby handlers, TLS channel |
| Room persistence (`room_persistence.cpp`) | one file with a snapshot of every open room | replace the whole file, load at start | lobby |
| Receipts (`receipt.cpp`) | stage-3 and stage-4 receipts of a room, chained | issue, verify | lobby, clients |
| Registry (`registry.cpp`) | pending and approved mediators, expiry, cached listings of peers | register, approve, reject, list, gossip pull | dashboards, mediators, other registries |
| Journal and recovery (`journal.cpp`, `recovery.cpp`) | append-only log and head file of a trade | append, checkpoint, open, classify | client, mediator's recovery answer |
| Trading client (`dashboard_client.cpp`) | `rooms_`, `outgoing_`, `connected_`, recognition tracker | what the user clicks, worker loop, frame handler, reconnect | mediator, dashboards |
| Identity, recognition, history (`keystore.cpp`, `recognition.cpp`, `history.cpp`, `http_dashboard.cpp`) | keystore files, history files, the loaded identity | create, unlock, lock, destroy, recognise, block, record | trading client's worker, browser |
| Web client (`http_webclient.cpp`, `login.cpp`) | accounts, sessions, attempt counts, login challenges | register, log in by password or key, log out, reap | trading client, browser |
| Blind signatures, experimental (`blindsig_*_q7933.cpp`, `q7933_issuance_store.cpp`) | client stage, queue, tickets, issuance markers | request, process, sign, poll, collect | lobby, prover process |

What is hard here:

* *Threads.* Every client has a thread, and four more run beside them. A
  handler takes a pointer to a room, releases the hub, locks the room, releases
  it, writes to disk, sends messages. Anything can happen between two of these.
* *Crashes.* A room's progress is on disk; its keys, receipts,
  acknowledgements and the fee position are not.
* *Ends.* A room can be ended by the last report, by the operator's
  confirmation, by an abort, by a disconnect: all at the same time.
* *Lost connections.* A client forgets its rooms at a reconnect; clicks, answers
  and signatures that were under way must not count for something else.
* *Disks.* Each program rewrites or appends to files that a crash or a full disk
  can cut short, while what it told others stands.
* *Boundaries.* One-round deals, the last round, totals the rounds do not
  divide, a fee leg in one of three places, a full queue.

What makes each part correct: a session never lets one side get more than one
tranche ahead, moves the totals exactly, gates the final transfer and puts the
fee leg where it was agreed; a room has one outcome, is the same in memory and
on disk, never waits for a client that is gone, and is cleaned up once it is
over; a client is never told what a crash could undo; the threads do not
deadlock; a connection loses no wake-up and no last word. A click counts for
the leg it was made for; a journal can be opened after any crash and tells the
truth; a registry lists nobody who is long gone, and a registration that was
listed and approved keeps the certificate the operator saw; an account has one
session and a session one owner; a login challenge is not tried twice; a right
to a credential is used once and not lost; a block stays in the file of the
identity that made it.

## 2. Modules

| Module | Models | Used by |
|---|---|---|
| `SessionCore` | class `MediatorSession` as values: a record and an operator per method | the next, `Lobby`, `TradeClient`, `Journal` |
| `MediatorSession` | one session as a state machine, any call in any order, with restarts | run `session`, proofs |
| `Exchange` | what a settlement promises, without turns, gates, restarts | refined by `MediatorSession` |
| `Lobby`, `MC_Lobby` | hub, rooms, handlers, disk, operator, failed writes, crash | runs `lobby`, `lobby_live` |
| `LobbyLocks`, `MC_LobbyLocks` | the mutexes of `lobby.cpp` and the order in which each handler takes them | runs `locks`, `locks_disconnect` |
| `ClientConnection` | queue, wake pipe, strikes and loop of one connection | run `connection` |
| `TradeClient`, `MC_TradeClient` | `DashboardClient` in a room, with the mediator's threads that tell it | run `client` |
| `Journal`, `MC_Journal` | journal file, head file and recovery of a client | run `journal` |
| `Registry`, `MC_Registry` | registries that register, approve and gossip | run `registry` |
| `WebClient`, `MC_WebClient` | accounts, logins, sessions, reaper | run `web` |
| `Recognition`, `MC_Recognition` | identity, challenges, history of a dashboard | run `recognition` |
| `BlindTickets`, `MC_BlindTickets` | client, signer and stores of the q7933 credentials | run `tickets` |
| `Grant` | the life of one right to a credential | refined by `BlindTickets` |
| `MediatorSession_proofs`, `Lobby_proofs`, `TradeClient_proofs`, `WebClient_proofs`, `Recognition_proofs`, `BlindTickets_proofs` | the theorems about the module each is named after | TLAPS |
| `LobbyThreads_proofs` | the theorems about `LobbyLocks` and `ClientConnection` | TLAPS |
| `Records_proofs` | the theorems about `Journal` and `Registry` | TLAPS |

Operators whose names end in `Mutant` are plausible faults of the definition
that follows them. No specification uses them; they serve to see that each
property notices such a fault.

### SessionCore and MediatorSession

`session` is a record with the fields of the class (`state`, `round`, `leg`,
`acked`, and the constants of the room). A method is a guard (`SentAccepted`:
the checks after which it no longer throws) and an effect
(`SenderReportedSent`). A call that throws changes nothing in the class, so it
is no step. Signals range over every round and sender, so wrong signals are
tried too. Amounts are exact: `TrancheAmount` is `tranche_amount`; `validate_terms`
bounds totals far below overflow, so no width is modelled.

The history variables `sent`, `value`, `got`, `fees`, `confirmed`, `agreed` record
what the parties did, independently of the session's own counters; the
properties compare the two. `Restart` is persist and `restore` under the same
configuration; `ReconfiguredRestart`, in `ReconfiguredSpec` only, under any.

`Exchange` has neither rounds nor states of a session: instalments fly one at a
time and land, never further on one side than one; fees are paid at most once;
the outcome is settled only when everything landed. `TheExchange` maps the
session and its history variables to it.

### Lobby

A handler is cut where it releases a lock: each critical section is one action,
and `task[a]` says where thread `a` continues. For example `handle_sent` is
`FindRoomFor` (hub), `HandleSent` (room and disk), `AnnounceStep`, or on
completion `Prune`, `EraseRoom`, `TellOutcome`. `remove_client` is `RemoveClient`
(hub), then `LeaveRoom` for each room, `Prune`, `TellOutcome`, `LeaveDone`. The
admin thread and the plugin thread are `Operators` that run `FindPendingFee`,
`ConfirmFee`. A thread runs one handler at a time. `CrashAndRestart` drops
everything but `disk` and the configuration. Each write of the room file may
fail (`PersistThen`): `image` is `persisted_rooms_`, which has the change already,
so the next write of any room carries it along. In `remove_client` a failed
write ends the process (`PruneFailsLeaving`).

`entry[r]` is the `RoomEntry` object, kept after `rooms` forgets it because
handlers hold shared pointers. `version` counts accepted session calls, so that
"what was told", "what is in memory" and "what is on disk" can be compared.
Reading requests (`ListOffers`, `GetCandles`, recovery state, relays) change
nothing and are left out. All deals have the same terms; what terms do is
`MediatorSession`'s subject.

### LobbyLocks

Each handler is the sequence of lock and unlock operations of one path through
it; `queue_mutex` is a leaf and left out.

### ClientConnection

`client_loop` step by step (`pc`), with `enqueue` by other threads split into the
push and the later write to the pipe. Every read, write and poll may fail.

### TradeClient

The path of one click: the HTTP thread copies the turn under `state_mutex_`,
looks at `connected_`, pushes to `outgoing_` (three steps, `pressed`); the worker
swaps the queue out and sends it (`batch`, `up`); a mediator thread takes it and
then tells the parties one by one (`task`, `down`). The other party acts on what
it was told. The connection may be lost with frames under way, be noticed
late, and come back as a new client. `accepted` records for which turn each
accepted signal was given.

### Journal

The log is a sequence of complete and torn records with sizes; a write may be
cut off at any unit of it, the head file is replaced as a whole. `Open` is
`Journal::open` with its lenient tail, its checks of chain, checkpoints and
head. The mediator's session goes on while the client is down, and `Classify`
is `classify_recovery_action`.

### Registry

An entry carries the ticks it has left. A pull is two actions, the peer's
listing and the merge, with up to `Timeout` ticks between them; times to live are
rounded to seconds as in the code. The operator's work is two actions as well:
`ListPending` is what LISTPENDING shows, kept in `seen` until the next listing, and
`Approve` names an endpoint only, so anything may happen between the two. The
fields `shown`, `vetted` and `hops` of an entry are history: it was on a listing
while it was pending; the pin of the listing it was approved from; how many
registries it was passed on by. A listing names the copies a registry holds too,
so a copy may be copied (disagreement 13).

`ApprovalKeepsPin` speaks of direct registrations that were on a listing while
they were pending. It leaves out what the code does not protect: a registration
that took the place of the listed one after it expired or was rejected
(disagreement 14), and copies, whose pin each pull replaces (disagreement 15).

### WebClient

A request is cut where it releases `SessionManager`'s mutex, the limiter's or
the account store's. Whoever drops the last reference to a session's client
runs its destructor and waits for its worker.

`LoginChallengeTracker` has no lock, and every HTTP thread uses the one there is.
Its calls are separate steps: issue looks for room (`StartChallenge`) and then
pushes (`IssueChallenge`), so two threads may both find the last place; verify
peeks, consumes and then judges what it peeked. Two threads in the tracker at
once are a data race; of its outcomes the model has those that lose an entry or
keep one that was consumed (`Tracked`). `tried` and `retried` record the challenges
that were judged once and more than once, `raced` those that were outstanding
while two threads were in the tracker. A challenge outside `raced` is judged at
most once, whatever came of its signature (`ChallengesTriedOnce`); inside it this
fails (disagreement 16).

### Recognition

One dashboard: requests of the browser under the identity's mutex, the worker
that handles frames and calls back without a lock, a counterparty that
challenges and answers, well or badly, or never. A keystore is its master
secret, a history file its secret and entries. `credits` and `wanted` record what
the identity that was unlocked earned and asked for; the files are compared
with them. Writes of the history file fail, the link breaks, the dashboard
dies.

### BlindTickets

A request is a number; target, randomness and ticket belong to it. The prover
thread sends chunks; the lobby queues the job; workers claim the marker, store
the ticket or roll back; the operator signs; polls collect. `GrantOf` reads the
state of a right off the two stores and is the refinement mapping to `Grant`.

The disk may fail at every step. A marker that could not be written, synced or
closed stays, torn or whole, and nobody rolls it back; a rollback may fail to
remove the marker and ignores that. `burnt` records the rights to which one of the
two happened. `RightsAreGivenBack` is about the others: a full store, a ticket that
cannot be written, a lost connection cost nobody a right. (A marker that is
whole although its sync or close failed answers the next request as a normal
duplicate, where the comment at `q7933_issuance_store.cpp:90` expects it to be
rejected as corrupt. Either way the request is refused.)

## 3. Runs

| Run | Shows | Bounds |
|---|---|---|
| `session` | inductive invariant, theft cap, exact settlement, gate, fee position, defined turns, only forward; cooperating parties always get to Complete; the session implements `Exchange` | 3 rounds: a first, a middle, a last one, both alternations; totals up to 5: every remainder; 1 restart |
| `lobby` | one outcome, Complete means settled for the agreed fee, no orphaned room, chained receipts, disk equals memory unless a write failed, told implies durable | 3 clients (2 at a time), 1 operator, 1 room, 1 round, 1 crash or failed write |
| `lobby_live` | rooms that are over are cleaned up | 2 clients, no fault |
| `locks` | no deadlock while nobody disconnects | 3 threads, 2 rooms: a cycle through the hub, the persistence mutex and two rooms fits |
| `locks_disconnect` | finding 1 | the same |
| `connection` | no lost wake-up, last Error delivered, dead clients leave | queue of 3, 3 strikes, batch of 2, 2 other threads |
| `client` | signals count for their turn, a room shown as complete has both receipts in chain order, a receipt is offered only when it is due | a deal of 2 rounds and one of 1 round with a confirmed fee, 4 clicks, 1 lost connection, 1 late key |
| `journal` | recoverable after every crash, nothing returned is lost, recovery tells the truth, every next state recordable | a deal of 1 round with and without a confirmed fee, 2 crashes, 2 checkpoints, 1 failed head file; records of 2 and 4 units, so that every cut happens |
| `registry` | a listed registration, once approved, keeps the pin it was listed with; no listing older than the time to live and what each hop adds | 2 registries that pull each other, 2 endpoints, 2 pins, pools of 1, 3 hops told apart, 2 ticks a second: what rounding loses is seen; a pause of 5 ticks, in which the other registry may change and pull; shorter ones have up to three times the states and are left to the theorems |
| `web` | one session per account, no leaked connection, bounded guesses, no challenge tried twice | 2 users, 2 threads, 1 session at a time, 3 sessions in all, 1 attempt, 1 challenge, 1 tick |
| `tickets` | one ticket per right, rights given back unless the disk fails on the marker, own credentials; implements `Grant` | a dashboard and a command-line client, queue of 1, store of 1, 2 workers, 2 chunks, 1 lost connection, crash or disk error |
| `recognition` | encounters counted once, blocks in the right file, one answer per challenge | 1 room, 1 key, 2 challenges here and 1 from the peer, 2 files, 2 secrets, 1 crash, lost link or failed write |

One room is enough for the lobby's properties: every action but the disconnect
and the restart touches one room, and those two treat rooms one by one. (Two
rooms exceed sixteen million states.) One round still has both legs, the gate,
every fee position; longer deals are the session's subject. The third client
can join after a first party has left. The operator's configurations are
grouped: `lobby` leaves out the confirmed early fee, which is disagreement 3
below, and of the early positions keeps the one before the first round: with one
round the other is the same place. In `recognition` one room with two challenges has a repeated recognition
and a late answer; two rooms only add to a count and exceed ten million states.
In `web` every duration is shorter than the tick: before it all guesses, challenges
and sessions are fresh, after it each may be stale or renewed. That some guesses
leave the window while others stay is left to the theorem `GuessesBounded`. One
challenge is enough to be tried twice; a second, issued at the same time, only
takes a place in the tracker.

Each module also has a `TypeOK`, which says what its variables hold, and some have
an auxiliary invariant (`OpenOffersHaveCreators`, `HeadNeverAhead`, `PoolsBounded`,
`TicketsKeepTheirMarker`). They hold under the same configurations, and where the
module has proofs its `TypeOK` is a theorem (`TypeCorrect`); only the session's, a
conjunct of `IndInv`, is part of a run: the runs are kept for what can go wrong in
more than one step. The inductive invariants of `MediatorSession`, `Lobby`,
`ClientConnection`, `LobbyLocks` and `Recognition` were checked by TLC on the instances
of their runs as well, and so were those of `Registry` (1.6 million states),
`Journal` (1.2 million) and `TradeClient` (completely for three clicks, and with
five clicks for some millions of states, late, early and no fee). Those of
`BlindTickets` and `WebClient` quantify over `Nat`, which TLC cannot enumerate.

Runs that bound what happens (clicks, requests, clocks, a session that is over)
come to rest and say `CHECK_DEADLOCK FALSE`: `session`, `client`, `journal`, `web`,
`tickets`. Every other run checks deadlock.

*Fairness.* `FairSpec` of `Lobby` assumes weak fairness of the steps of a handler
under way: the operating system schedules threads, and no step waits for
another party (deadlocks are `LobbyLocks`' subject). Nothing is assumed of
clients, operators or crashes. `ClientConnection` assumes the same of its loop
and of a thread between push and wake. `CooperativeSpec` of `MediatorSession` is
different: the code cannot make people act, so fairness of the parties and the
operator is the hypothesis under which the session itself must not be stuck;
aborting is never forced.

## 4. Findings

1. `locks_disconnect`, a run that TLC refutes: `remove_client` takes hub then
   room, `handle_sent` takes room then hub (`lobby.cpp:2700`).

The following configurations are kept beside the runs; TLC refutes each of them
too (`tlc -config MC_<name>.cfg <module>`).

2. `session_reconf` (`MediatorSession`): a session restored under another fee
   position may complete without trading (`mediator.cpp:199`, against
   `mediator.hpp:109`).
3. `lobby_early_confirm` (`MC_Lobby`): confirming an early fee ends the room as
   Complete (`lobby.cpp:1973`, against README "Combines with any fee position.").
4. `lobby_abort_persisted` (`MC_Lobby`): an abort between a room's creation and
   its first write leaves an Aborted room on disk (`lobby.cpp:1651`).
5. `lobby_final_received` (`MC_Lobby`): the last Received is forwarded before the
   end of the room is durable (`lobby.cpp:2171`).
6. `lobby_restored_fee` (`MC_Lobby`): a room restored in WaitingForFeeConfirmation
   has no keys for its receipt; confirming it leaves it dead and on disk
   (`lobby.cpp:2415`).
7. `lobby_parked` (`MC_Lobby`): a disconnect that overlaps the fee's Sent aborts a
   room that should wait for the operator (`lobby.cpp:2737`).
8. `client_late_turn` (`MC_TradeClient`): a Sent overtakes the Turn that another
   mediator thread has still to enqueue, and the page waits for a Sent that has
   come (`lobby.cpp:2474`, against `dashboard_client.hpp:87`).
9. `journal_full_disk` (`MC_Journal`): a write that fails while the process lives
   leaves a fragment in the middle of the log, and the next open() cuts off
   durable entries behind it (`journal.cpp:387`, against `journal.cpp:631`).
10. `tickets_lost` (`MC_BlindTickets`): a signed ticket is removed when the answer is
    queued; a connection lost then takes it along (`lobby.cpp:1562`, against
    `blindsig_ticket_store_q7933.hpp:112`).
11. `web_reaper` (`MC_WebClient`): the reaper joins a worker with the mutex held
    for which the worker waits (`http_webclient.cpp:876`, against
    `dashboard_client.hpp:262`).
12. `journal_early_fee` (`MC_Journal`): the journal has no step from WaitingForPeer to
    WaitingForFeeSent, so it refuses the first state of a deal whose fee comes
    before the first round (`journal.cpp:320`, against `journal.hpp:210` "mirroring
    tradep2p::SessionState's legal transitions").
13. `registry_hops` (`MC_Registry`): a registry lists the copies it holds, and its
    peers copy them again (`registry.cpp:429`, against `registry.cpp:130` "Single-hop
    only").
14. `registry_relist` (`MC_Registry`): a registration expires or is rejected after the
    operator listed it, its endpoint is registered again with another pin, and
    APPROVE, which names no pin, approves that one (`registry.cpp:587`, against
    README.md:670 "until an operator explicitly approves it").
15. `registry_gossip_pin` (`MC_Registry`): a later pull replaces the pin of a cached
    copy and keeps its approval (`registry.cpp:658`; a direct registration is
    refused its new pin at `registry.cpp:377`, and README.md:742 says that a copy
    needs approval "exactly like a direct registration").
16. `web_single_use` (`MC_WebClient`): two threads peek at one challenge before
    either consumes it, and both logins are judged (`http_webclient.cpp:1706`,
    against `http_webclient.cpp:1707` "unconditional - single-use either way").

Two properties of `TradeClient` hold under a condition that the code does not
enforce, and TLC finds the counterexample without it. If the other party
announces a second key between the two receipts (`MaxKeys = 2`), the receipts name
different keys and `verify_receipt_chain` refuses them, so
`CompleteRoomsHaveReceipts` fails. If the fee comes before the first round, a
second click on the fee's Sent counts for the first tranche, which has the same
round and the same sender and which `validate_signal` cannot tell apart, so
`SignalsMeanTheirTurn` fails.

## 5. Proofs

TLC checks small instances; the theorems below hold for every value of the
constants, from the one named `ASSUME` of each module. Those assumptions say that
limits are naturals (positive where the code has a positive constant), that
sentinels such as `NoRoom` or `None` are not ordinary values, and no more; TLC
evaluates them in the runs. In `WebClient` the set of HTTP threads is finite, as
in any server, because a bound counts them.

Each proof module has an inductive invariant (`IndInv`, in `Lobby_proofs` `Inv`),
lemmas for what the actions do to its parts, and a theorem `Inductive` that it
always holds, from which the properties follow. None of the properties is inductive by itself.

**MediatorSession** (any deal, any number of restarts). `TheftCapped`,
`SettlementExact`, `GateHolds`, `FeeLegOnTime`, `TurnsDefined`, the action property
`NeverBack`, and `ExchangeRefined`: the session implements `Exchange`, each call
being a step of the exchange or a stutter. "At most one tranche ahead" needs to
know who may send now, "exact settlement" the units sent so far, the gate the
states in which it has been passed. `IndInv` adds, beside types:

* `TranchesInv`: the tranches that arrived are exactly `round` of each party, one
  more for the party that went first once the second leg has begun; at most
  one tranche is in flight, the current sender's, in WaitingForReceived (or
  when the session was aborted there);
* `ValueInv`: the units a party sent are the closed form `Cumulative` of its
  tranches. `CumulativeStep` and `CumulativeAll` show that tranche after tranche
  adds up to it and that all rounds give the total;
* `PhaseInv`: at which round and leg each state can occur;
* `FeeInv`: when the fee has been paid and confirmed, and when it has not;
* `GateInv`: where both acknowledgements must have been given, although a
  restart forgets them.

**Lobby** (any number of clients, operators, rooms and rounds, any limits, any
number of crashes and failed writes). `OutcomeDecidedOnce`, `RoomsHaveTheirParties`,
`LiveRoomsSaved`, `NothingToldIsForgotten`, `CompleteIsSettled`, `ReceiptsChained`. A
step is first put into one of nine kinds (a thread talks, a room is opened,
saved, moved on, finished, removed, the mediator restarts, ...), and the parts of
the invariant are preserved kind by kind. The argument for one outcome is
`EndInv` with `OutcomeInv`: whoever clears `active` ends the room, alone, and nobody
knows an outcome before that thread tells it. It survives any number of crashes
because nobody ends a restored room: its parties are clients of an earlier
process and it has no keys (`MembersInv`). Durability needs `VersionInv` and
`SafeInv`: what a thread is about to tell is in the file, or the end of the room
is. `CompleteIsSettled` and `ReceiptsChained` have the hypothesis `Trailing`, that an
operator confirms only fees paid after the last round: for confirmed early fees
they are false (disagreement 3).

**LobbyLocks** (`LobbyThreads_proofs`, any number of threads and rooms). `LocksNeverDeadlock`, for handlers
other than `remove_client`, which finding 1 is about. Mutexes are ranked: rooms,
then `hub_mutex_`, then the other three. A handler is built from critical
sections and so is the argument: `Around` and `Concat` show that each is `Neat`, it
takes locks only above what it holds and gives everything back. `IndInv` says
the same of what a thread has left to do. Ranks grow along a chain of threads
that wait for each other, and there are three.

**ClientConnection** (`LobbyThreads_proofs`, any limits, any number of threads that
enqueue).
`WakesAreNeverLost`: a queued frame has a byte in the pipe, a thread about to write
it, or a flush ahead of it (`WakeInv`). `LastWordSent`: the last Error is in the
queue when the flush is due and in the batch after it (`LastWordInv`).

**BlindTickets** (any number of clients, workers, requests, chunks, failures).
`RightsUsedOnce`, `RightsGivenBack` (for rights on whose marker no call to the disk
failed), `CredentialsOwn`, and `GrantRefined`: the signer with its queue, workers and
two stores implements `Grant`. `RightsInv`: between the
marker and the ticket a right is in one worker's hands. `OnTheWay`: a request is
in one place at a time from the prover to the ticket file, so a ticket that was
collected is never written again.

**WebClient** (any number of users, HTTP threads, sessions, attempts).
`AccountsHaveOneSession`: `SessionsInv` adds that the session an account is attached
to is its own; otherwise another account's logout would take it away.
`ConnectionsAccounted`: `LeaksInv` names an owner of each connection, and the bound
on their number comes from an injection of the connections without a session
into the threads. `GuessesBounded`: `TryingInv` counts the threads let through
together with the failures. `NoChallengeTwice`: a challenge that was judged is
outstanding no more, nor found by another thread, unless it was raced
(`ChallengesInv`).

**Recognition** (any number of rooms, keys, challenges, files, identities,
crashes, lost links, failed writes). `AnsweredOnce`, `BlocksKept`,
`EncountersCounted`. A challenge, and the end of a room, is in one place at a time
(`ChallengesInv`, `EndsInv`); a master secret lives at one path and the open history
is the loaded identity's (`HomeInv`); the open history says what its file says,
and the file what it should (`BlockedInv`, `CountedInv`).

**Journal** (`Records_proofs`, any number of rounds, records, checkpoints, crashes and
failed head files, any cut of a write). `CrashesAreHarmless`, `EntriesSurvive`,
`RecoveryIsRight`, `StatesRecordable`. `Durable` is what a restart would read:
the log without a torn tail, replayed. `LogInv` says that only the last record may
be cut and that the replay succeeds; `MemoryInv` that the open journal, the head
file and the caller know nothing that is not durable; `PendingInv` that a pending
Sent was accepted, is void, or is still the session's turn. `StatesRecordable` has
the hypothesis that fees come after the last round (disagreement 12).

**Registry** (`Records_proofs`, any registries, endpoints, pins, limits, any graph of
peers). `ApprovalIsForItsPin`, `NothingStaleIsListed`. `ApprovalInv`: as long as an
entry that was shown is pending, the last listing has it with the pin it has, so
this is the pin it is approved for, and no registration changes it. `EntriesInv`
ties what is left of an entry to the age of its last heartbeat, `GossipInv` allows
a copy what its hops add, and `PullInv` says the same of a listing that is on its
way, where the time it has travelled counts.

Both modules fold over a sequence: a log, a listing. That the fold keeps what
each step keeps is induction over the sequence, done for the fold at hand as an
argument about the least counterexample (`LeastOf`, `ReplayFoldExists` and its
counterpart for `Merge`).

**TradeClient** (any deal, any number of clicks, lost connections and frames on the
way). `TradeSound` says where a session may be and which receipts exist then.
Three arguments rest on it.

* `ClicksMeanTheirTurn`. The session compares the round and the sender of a signal
  but not whether the leg is a fee. `TurnsInv`: in every turn that anybody has
  heard or will hear, the round tells the fee leg from a tranche. This needs the
  fee after the last round (section 4).
* `ReceiptsBeforeTheEnd`. Both receipts may be under way in different threads.
  `GateInv`: the thread that opened the gate has told its receipt before the other
  party can bring about the last one. `ChainInv` and `TaskInv`: the client has
  received, or will receive, each receipt once and in order, and the last one
  ahead of Complete. It assumes one key of each party (section 4).
* `OffersAreDue`. `KnowInv`: every turn heard is the current one or one the trade
  has passed. `LatestInv`: the current one is on its way to the page or shown.
  `SentInv`: a Sent under way is for the current turn, there is one at a time, and
  what the page offers then is due. The hypothesis is again a fee after the last
  round; that nobody confirms before the offer is part of the property.

Only model-checked: liveness (`EventuallySettled`, `OverRoomsCleanedUp`,
`DeadClientsLeave`), which is out of the prover's reach. Every safety property of a
run is a theorem, some under the hypotheses named above.

## 6. Not modelled

* Cryptography, byte formats, TLS, SOCKS and HTTP (`identity.cpp`, `protocol.cpp`'s
  codecs, `secure_channel.cpp`, the pages of the dashboards): pure functions or
  input and output, with no state that could go wrong in an order. The models
  say whether a signature verifies and what a frame means.
* The lattice code, the provers and the research prototypes: arithmetic on
  polynomials of degree 512, out of TLC's reach. The q12289 variant of the blind
  signatures has no tickets; its request and answer are those of q7933 without
  stores.
* `main.cpp`: the command-line client waits for each answer in one thread; what it
  adds to `TradeClient` is text.
* `lobby_old.cpp` is not compiled; the invite handlers of `lobby.cpp` are never
  dispatched; `httplib.h` and `third_party/` are vendored. These, with the codecs and
  pages, are most of the repository's lines, so the share of lines the modules
  stand for is small although every program with state has a module.
* Of modelled parts: price history and offer pages of the lobby; notes and
  evidence of the history; rotation, backup and passphrase of the keystore;
  selective disclosure, which only reads receipts; the account file of the web
  client.

## 7. Plan

1. An abstract room life cycle (open, running, parked, over, told once) that
   `Lobby` implements; `Lobby_proofs` already has what a step may do to a room.
2. Which ephemeral key is bound by which receipt when a party announces a
   second one; disclosure of receipt chains.
3. The account file of the web client and the lobby's price history.

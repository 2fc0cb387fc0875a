----------------------------- MODULE WebClient -----------------------------
(***************************************************************************)
(* The hosted web client (http_webclient.cpp): its HTTP threads log users  *)
(* in by password or by a signed challenge, under a limit of attempts; the *)
(* session manager keeps one session, with one DashboardClient, for each   *)
(* account; the reaper thread removes idle sessions; and the worker of     *)
(* each DashboardClient calls back into the session manager when a         *)
(* counterparty asks for recognition or a room ends.  The keystore and the *)
(* history of a session, which the callbacks read, are those of            *)
(* Recognition.                                                            *)
(*                                                                         *)
(* Whoever drops the last reference to a DashboardClient runs its          *)
(* destructor, which waits for the worker.  What the worker does otherwise *)
(* is the subject of TradeClient.                                          *)
(***************************************************************************)
EXTENDS Integers, Sequences, FiniteSets, SequencesExt

CONSTANTS Users,
          Threads,        \* threads of the HTTP server
          MaxSessions,    \* max_sessions_
          MaxAttempts,    \* kMaxAttempts
          Window,         \* kWindow, in ticks of the clock
          IdleTimeout,    \* idle_timeout_, in ticks of the clock
          ChallengeTtl,   \* kLoginChallengeTtlSeconds, in ticks of the clock
          MaxOutstanding, \* kLoginMaxOutstandingChallenges
          MaxClock,       \* bound on the ticks of a behaviour
          MaxTokens,      \* bound on the sessions of a behaviour
          MaxChallenges,  \* bound on the challenges of a behaviour
          NoToken

ASSUME WebClientAssumption ==
    /\ {MaxSessions, MaxAttempts, Window, IdleTimeout, ChallengeTtl,
        MaxOutstanding, MaxClock, MaxTokens, MaxChallenges} \subseteq Nat
    /\ MaxAttempts > 0
    /\ NoToken \notin 1..MaxTokens
    /\ IsFiniteSet(Threads)

Tokens == 1..MaxTokens

VARIABLES
    clock,
    accounts,     \* usernames in the account store
    enrolled,     \* accounts with a login key
    failures,     \* failures_: times of the failed attempts of each username
    outstanding,  \* outstanding_ of the login challenge tracker
    issued,       \* challenges issued so far
    sessions,     \* sessions_: live token -> [user, seen]
    active,       \* active_by_user_
    worker,       \* the worker of the DashboardClient of each token
    thread,       \* what each HTTP thread is doing
    reaper,       \* what the reaper is doing
    mutex,        \* the mutex_ of the session manager: held by the reaper?
    tried,        \* history: challenges that a login was attempted with,
    retried,      \* ... and those that a second one was,
    raced         \* ... and those that were outstanding while one thread
                  \* changed the tracker and another was at it

tracker == <<outstanding, issued, tried, retried, raced>>
auth == <<accounts, enrolled, failures, tracker>>
vars == <<clock, auth, sessions, active, worker, thread, reaper, mutex>>

-----------------------------------------------------------------------------
Idle == <<"idle">>
Doing(t, what) == thread[t][1] = what
Goes(t, to) == thread' = [thread EXCEPT ![t] = to]

Init ==
    /\ clock = 0
    /\ accounts = {} /\ enrolled = {}
    /\ failures = [u \in Users |-> <<>>]
    /\ outstanding = {} /\ issued = 0
    /\ sessions = <<>>
    /\ active = [u \in Users |-> NoToken]
    /\ worker = [k \in Tokens |-> "none"]
    /\ thread = [t \in Threads |-> Idle]
    /\ reaper = Idle
    /\ mutex = "free"
    /\ tried = {} /\ retried = {} /\ raced = {}

-----------------------------------------------------------------------------
\* AuthRateLimiter.  Attempts are pushed in the order of time, so that those
\* before the cutoff, which remove_if drops, come first.
Recent(attempts, cutoff) ==
    LET old == {i \in DOMAIN attempts : attempts[i] < cutoff}
    IN  SubSeq(attempts, Cardinality(old) + 1, Len(attempts))

\* prune_locked runs before each look at failures_; it is done here as time
\* passes.
Tick ==
    /\ clock < MaxClock
    /\ clock' = clock + 1
    /\ failures' = [u \in Users |-> Recent(failures[u], clock' - Window)]
    /\ UNCHANGED <<accounts, enrolled, tracker, sessions, active,
                   worker, thread, reaper, mutex>>

\* One attempt more.
AllowedMutant(u) == Len(failures[u]) <= MaxAttempts

Allowed(u) == Len(failures[u]) < MaxAttempts
RecordFailure(u) == failures' = [failures EXCEPT ![u] = Append(@, clock)]
RecordSuccess(u) == failures' = [failures EXCEPT ![u] = <<>>]

-----------------------------------------------------------------------------
\* The routes that end in SessionManager::login.
Register(t, u) ==
    /\ Doing(t, "idle") /\ u \notin accounts
    /\ accounts' = accounts \cup {u}
    /\ Goes(t, <<"login", u>>)
    /\ UNCHANGED <<clock, enrolled, failures, tracker, sessions, active,
                   worker, reaper, mutex>>

StartLogin(t, u) ==
    /\ Doing(t, "idle")
    /\ Allowed(u)
    /\ Goes(t, <<"verify", u>>)
    /\ UNCHANGED <<clock, auth, sessions, active, worker, reaper, mutex>>

\* accounts.verify, and what it says of the attempt.
VerifyPassword(t) ==
    /\ Doing(t, "verify")
    /\ LET u == thread[t][2]
       IN  \/ /\ RecordFailure(u)
              /\ Goes(t, Idle)
           \/ /\ u \in accounts
              /\ RecordSuccess(u)
              /\ Goes(t, <<"login", u>>)
    /\ UNCHANGED <<clock, accounts, enrolled, tracker, sessions, active,
                   worker, reaper, mutex>>

\* The tracker has no mutex: when another thread is at it at the same time, the
\* vector of challenges may lose entries or keep one that was to go.
AtTracker(t) == Doing(t, "issuing") \/ Doing(t, "peeked")

Tracked(t, entries, others) ==
    IF \E o \in Threads \ {t} : AtTracker(o)
    THEN /\ outstanding' \in SUBSET (entries \cup others)
         /\ raced' = raced \cup {c.id : c \in outstanding}
    ELSE outstanding' = entries /\ UNCHANGED raced

\* /api/login/key/challenge: issue() looks at the number of challenges first ...
StartChallenge(t, u) ==
    /\ Doing(t, "idle")
    /\ Allowed(u)
    /\ Cardinality(outstanding) < MaxOutstanding
    /\ Goes(t, <<"issuing", u>>)
    /\ UNCHANGED <<clock, auth, sessions, active, worker, reaper, mutex>>

\* ... and adds one when it has drawn the numbers, which may fail.
IssueChallenge(t) ==
    /\ Doing(t, "issuing")
    /\ \/ /\ issued < MaxChallenges
          /\ issued' = issued + 1
          /\ Tracked(t, outstanding \cup
                {[id |-> issued + 1, user |-> thread[t][2],
                  expires |-> clock + ChallengeTtl]}, {})
          /\ UNCHANGED <<tried, retried>>
       \/ UNCHANGED tracker
    /\ Goes(t, Idle)
    /\ UNCHANGED <<clock, accounts, enrolled, failures, sessions, active, worker,
                   reaper, mutex>>

\* /api/login/key/verify: peek ...
PeekChallenge(t, u, id) ==
    /\ Doing(t, "idle")
    /\ Allowed(u)
    /\ Goes(t, <<"peeked", u, id,
                 {c \in outstanding : c.id = id /\ clock <= c.expires}>>)
    /\ UNCHANGED <<clock, auth, sessions, active, worker, reaper, mutex>>

\* expire_stale: only what has expired goes.
ConsumedMutant(id) == {c \in outstanding : c.id # id \/ clock <= c.expires}

\* consume.
Consumed(id) == {c \in outstanding : c.id # id}

\* ... then consume, whatever was found ...
ConsumeChallenge(t) ==
    /\ Doing(t, "peeked")
    /\ LET u == thread[t][2]
           id == thread[t][3]
           found == thread[t][4]
           try == {c.id : c \in found}
       IN  /\ Tracked(t, Consumed(id), outstanding)
           /\ tried' = tried \cup try
           /\ retried' = retried \cup (try \cap tried)
           /\ Goes(t, <<"judged", u, \E c \in found : c.user = u>>)
    /\ UNCHANGED <<clock, accounts, enrolled, failures, issued, sessions, active,
                   worker, reaper, mutex>>

\* ... and the verdict on the signature, which needs challenge_matches.
VerifyChallenge(t) ==
    /\ Doing(t, "judged")
    /\ LET u == thread[t][2]
           matches == thread[t][3] /\ u \in enrolled
       IN  \/ /\ RecordFailure(u)
              /\ Goes(t, Idle)
           \/ /\ matches
              /\ RecordSuccess(u)
              /\ Goes(t, <<"login", u>>)
    /\ UNCHANGED <<clock, accounts, enrolled, tracker, sessions, active, worker,
                   reaper, mutex>>

\* active_by_user_ still names a session: it is taken up again.
Reattach(u) ==
    /\ active[u] \in DOMAIN sessions
    /\ sessions' = [sessions EXCEPT ![active[u]].seen = clock]
    /\ UNCHANGED <<active, worker>>

Open(u) ==
    /\ active[u] \notin DOMAIN sessions
    /\ Cardinality(DOMAIN sessions) < MaxSessions
    /\ \E k \in Tokens :
           /\ worker[k] = "none" /\ \A j \in Tokens : j < k => worker[j] # "none"
           /\ sessions' = [j \in DOMAIN sessions \cup {k} |->
                              IF j = k THEN [user |-> u, seen |-> clock]
                              ELSE sessions[j]]
           /\ active' = [active EXCEPT ![u] = k]
           /\ worker' = [worker EXCEPT ![k] = "running"]

\* At capacity; nothing but an entry of a session that is gone is erased.
Refuse(u) ==
    /\ active[u] \notin DOMAIN sessions
    /\ Cardinality(DOMAIN sessions) >= MaxSessions
    /\ active' = [active EXCEPT ![u] = NoToken]
    /\ UNCHANGED <<sessions, worker>>

\* SessionManager::login.
Login(t) ==
    /\ Doing(t, "login") /\ mutex = "free"
    /\ LET u == thread[t][2] IN Reattach(u) \/ Open(u) \/ Refuse(u)
    /\ Goes(t, Idle)
    /\ UNCHANGED <<clock, auth, reaper, mutex>>

-----------------------------------------------------------------------------
\* A request with a session cookie: touch hands out a reference to the client.
Touch(t, k) ==
    /\ Doing(t, "idle") /\ mutex = "free"
    /\ k \in DOMAIN sessions
    /\ sessions' = [sessions EXCEPT ![k].seen = clock]
    /\ Goes(t, <<"handle", k>>)
    /\ UNCHANGED <<clock, auth, active, worker, reaper, mutex>>

\* /api/account/enroll-key.
EnrollKey(t) ==
    /\ Doing(t, "handle")
    /\ thread[t][2] \in DOMAIN sessions
    /\ enrolled' = enrolled \cup {sessions[thread[t][2]].user}
    /\ UNCHANGED <<clock, accounts, failures, tracker, sessions, active,
                   worker, thread, reaper, mutex>>

Erase(k) ==
    /\ sessions' = [j \in DOMAIN sessions \ {k} |-> sessions[j]]
    /\ active' = [active EXCEPT ![sessions[k].user] = NoToken]

\* logout leaves the entry of the user.
LogoutMutant(t) ==
    /\ Doing(t, "handle") /\ mutex = "free"
    /\ thread[t][2] \in DOMAIN sessions
    /\ sessions' = [j \in DOMAIN sessions \ {thread[t][2]} |-> sessions[j]]
    /\ UNCHANGED <<clock, auth, active, worker, thread, reaper, mutex>>

\* SessionManager::logout; the request still refers to the client.
Logout(t) ==
    /\ Doing(t, "handle") /\ mutex = "free"
    /\ thread[t][2] \in DOMAIN sessions
    /\ Erase(thread[t][2])
    /\ UNCHANGED <<clock, auth, worker, thread, reaper, mutex>>

Holds(t, k) == Doing(t, "handle") /\ thread[t][2] = k

\* The destructor is left to nobody.
LastReferenceMutant(t, k) == k \in DOMAIN sessions /\ \A o \in Threads \ {t} : ~Holds(o, k)

\* t is the last to refer to the client of token k.
LastReference(t, k) == k \notin DOMAIN sessions /\ \A o \in Threads \ {t} : ~Holds(o, k)

\* stop_ is set; the destructor waits for the worker.
Stop(k) == worker' = [worker EXCEPT ![k] = IF @ = "callback" THEN "stopping_callback"
                                                             ELSE "stopping"]

\* The handler returns.
Release(t) ==
    /\ Doing(t, "handle")
    /\ LET k == thread[t][2]
       IN  IF LastReference(t, k)
           THEN Stop(k) /\ Goes(t, <<"join", k>>)
           ELSE Goes(t, Idle) /\ UNCHANGED worker
    /\ UNCHANGED <<clock, auth, sessions, active, reaper, mutex>>

Joined(t) ==
    /\ Doing(t, "join") /\ worker[thread[t][2]] = "ended"
    /\ Goes(t, Idle)
    /\ UNCHANGED <<clock, auth, sessions, active, worker, reaper, mutex>>

-----------------------------------------------------------------------------
\* reap_idle: the time is read before the mutex is taken.
ReapStart ==
    /\ reaper = Idle
    /\ reaper' = <<"wait", clock>>
    /\ UNCHANGED <<clock, auth, sessions, active, worker, thread, mutex>>

ReapLock ==
    /\ reaper[1] = "wait" /\ mutex = "free"
    /\ reaper' = <<"scan", reaper[2]>>
    /\ mutex' = "reaper"
    /\ UNCHANGED <<clock, auth, sessions, active, worker, thread>>

IsIdle(k, now) == now - sessions[k].seen > IdleTimeout

\* One idle session; its client dies here unless a request refers to it.
ReapOne ==
    /\ reaper[1] = "scan"
    /\ \E k \in DOMAIN sessions :
           /\ IsIdle(k, reaper[2])
           /\ Erase(k)
           /\ IF \A t \in Threads : ~Holds(t, k)
              THEN Stop(k) /\ reaper' = <<"join", reaper[2], k>>
              ELSE UNCHANGED <<worker, reaper>>
    /\ UNCHANGED <<clock, auth, thread, mutex>>

ReapJoined ==
    /\ reaper[1] = "join" /\ worker[reaper[3]] = "ended"
    /\ reaper' = <<"scan", reaper[2]>>
    /\ UNCHANGED <<clock, auth, sessions, active, worker, thread, mutex>>

ReapDone ==
    /\ reaper[1] = "scan"
    /\ \A k \in DOMAIN sessions : ~IsIdle(k, reaper[2])
    /\ reaper' = Idle
    /\ mutex' = "free"
    /\ UNCHANGED <<clock, auth, sessions, active, worker, thread>>

-----------------------------------------------------------------------------
\* The worker of k has a challenge to answer or an outcome to report ...
WorkerCalls(k) ==
    /\ worker[k] = "running"
    /\ worker' = [worker EXCEPT ![k] = "callback"]
    /\ UNCHANGED <<clock, auth, sessions, active, thread, reaper, mutex>>

\* ... for which the callback takes the mutex of the session manager.
CallbackDone(k) ==
    /\ worker[k] \in {"callback", "stopping_callback"} /\ mutex = "free"
    /\ worker' = [worker EXCEPT ![k] = IF @ = "callback" THEN "running" ELSE "stopping"]
    /\ UNCHANGED <<clock, auth, sessions, active, thread, reaper, mutex>>

\* session_loop ends once stop_ is set.
WorkerEnds(k) ==
    /\ worker[k] = "stopping"
    /\ worker' = [worker EXCEPT ![k] = "ended"]
    /\ UNCHANGED <<clock, auth, sessions, active, thread, reaper, mutex>>

Next ==
    \/ Tick
    \/ \E t \in Threads :
          \/ \E u \in Users : \/ Register(t, u) \/ StartLogin(t, u)
                              \/ StartChallenge(t, u)
                              \/ \E id \in 1..MaxChallenges : PeekChallenge(t, u, id)
          \/ VerifyPassword(t) \/ Login(t)
          \/ IssueChallenge(t) \/ ConsumeChallenge(t) \/ VerifyChallenge(t)
          \/ \E k \in Tokens : Touch(t, k)
          \/ EnrollKey(t) \/ Logout(t) \/ Release(t) \/ Joined(t)
    \/ ReapStart \/ ReapLock \/ ReapOne \/ ReapJoined \/ ReapDone
    \/ \E k \in Tokens : WorkerCalls(k) \/ CallbackDone(k) \/ WorkerEnds(k)

Spec == Init /\ [][Next]_vars

-----------------------------------------------------------------------------
Live == {k \in Tokens : worker[k] \notin {"none", "ended"}}

TypeOK ==
    /\ clock \in 0..MaxClock
    /\ enrolled \subseteq accounts /\ accounts \subseteq Users
    /\ DOMAIN sessions \subseteq Live
    /\ \A u \in Users : active[u] \in Tokens \cup {NoToken}
    /\ mutex = "reaper" <=> reaper[1] \in {"scan", "join"}

\* "One running mediator connection per logged-in account": whatever requests,
\* logouts and the reaper do at the same time, each session is the one its
\* account is attached to, and an account is attached to no session that is
\* gone; so none is left that nobody can log out of.
OneSessionPerAccount ==
    /\ \A k \in DOMAIN sessions : active[sessions[k].user] = k
    /\ \A u \in Users : active[u] # NoToken => active[u] \in DOMAIN sessions

\* Every connection to the mediator that is open belongs to a session, or to a
\* thread that still has a request of it or is closing it; there are never
\* more than max_sessions_ and one for each thread.
NoConnectionLeaks ==
    /\ \A k \in Live : \/ k \in DOMAIN sessions
                       \/ \E t \in Threads : Holds(t, k) \/ thread[t] = <<"join", k>>
                       \/ reaper[1] = "join" /\ reaper[3] = k
    /\ Cardinality(Live) <= MaxSessions + Cardinality(Threads)

\* "It does stop credential stuffing or online guessing against one account":
\* no username has more failed attempts within a window than the limit, and
\* one for each other thread that had passed the check before they counted.
AttemptsBounded ==
    \A u \in Users : Len(failures[u]) <= MaxAttempts + Cardinality(Threads) - 1

\* "The challenge is consumed unconditionally (success or failure) so it can
\* never be retried": no second login is attempted with a challenge, whoever
\* answers it, in time or late, before or after the verdict on the first one;
\* unless the tracker was changed by one thread while another was at it and the
\* challenge was outstanding.
ChallengesTriedOnce == retried \subseteq raced

\* "single-use either way", without that condition.
SingleUse == retried = {}

\* The destructor of a client is never waited for by a thread that holds the
\* mutex which the client's worker is waiting for.
NoDeadlock ==
    ~(reaper[1] = "join" /\ worker[reaper[3]] = "stopping_callback")
=============================================================================

-------------------------- MODULE WebClient_proofs --------------------------
(***************************************************************************)
(* Theorems about the hosted web client, for any number of users, HTTP     *)
(* threads, sessions and attempts.                                         *)
(*                                                                         *)
(* The properties are about different parts of the state and have their    *)
(* own invariants: who is logged in as whom (SessionsInv), who keeps a     *)
(* connection open (LeaksInv, RoomInv), how many threads have passed the   *)
(* check of the limiter (TryingInv) and which challenges may still be      *)
(* found (ChallengesInv).                                                  *)
(***************************************************************************)
EXTENDS WebClient, TLAPS, FiniteSetTheorems

Challenges == [id : Nat, user : Users, expires : Nat]

\* What an HTTP thread can be doing.
Tasks ==
    {Idle} \cup ({"verify"} \X Users) \cup ({"login"} \X accounts)
        \cup ({"handle", "join"} \X Tokens)
        \cup ({"issuing"} \X Users)
        \cup ({"peeked"} \X Users \X Nat \X SUBSET Challenges)
        \cup ({"judged"} \X Users \X BOOLEAN)

WorkerStates ==
    {"none", "running", "callback", "stopping", "stopping_callback", "ended"}

AuthShapes ==
    /\ clock \in 0..MaxClock
    /\ accounts \subseteq Users /\ enrolled \subseteq accounts
    /\ failures \in [Users -> Seq(Int)]
    /\ issued \in Nat

SessionShapes ==
    /\ DOMAIN sessions \subseteq Tokens
    /\ sessions \in [DOMAIN sessions -> [user : accounts, seen : Nat]]
    /\ active \in [Users -> Tokens \cup {NoToken}]
    /\ worker \in [Tokens -> WorkerStates]

ReaperShapes ==
    /\ \/ reaper = Idle
       \/ \E now \in Nat : \/ reaper = <<"wait", now>> \/ reaper = <<"scan", now>>
                           \/ \E k \in Tokens : reaper = <<"join", now, k>>
    /\ mutex \in {"free", "reaper"}
    /\ mutex = "reaper" <=> reaper[1] \in {"scan", "join"}

Shapes ==
    /\ AuthShapes /\ SessionShapes /\ ReaperShapes
    /\ thread \in [Threads -> Tasks]

-----------------------------------------------------------------------------
\* A client that a session or a request refers to is not being stopped.
Serving(k) == worker[k] \in {"running", "callback"}

\* The session an account is attached to is its own: OneSessionPerAccount alone
\* lets a second account name it, and would not survive its logout.
SessionsInv ==
    /\ OneSessionPerAccount
    /\ \A u \in Users : active[u] # NoToken => sessions[active[u]].user = u
    /\ \A k \in DOMAIN sessions : Serving(k)
    /\ \A t \in Threads, k \in Tokens : Holds(t, k) => Serving(k)

\* Somebody refers to each client that is alive, or waits for its worker.
Kept(k) == \/ k \in DOMAIN sessions
           \/ \E t \in Threads : Holds(t, k) \/ thread[t] = <<"join", k>>
           \/ reaper[1] = "join" /\ reaper[3] = k

LeaksInv == \A k \in Live : Kept(k)

\* While the reaper closes a client nobody logs in, so that the client still
\* has its session's place.
Closing == IF reaper[1] = "join" THEN 1 ELSE 0

RoomInv == Cardinality(DOMAIN sessions) + Closing <= MaxSessions

\* The threads that have been let through for u and have not been judged yet.
Trying(u) == {t \in Threads : /\ Doing(t, "verify") \/ Doing(t, "peeked") \/ Doing(t, "judged")
                              /\ thread[t][2] = u}

TryingInv == \A u \in Users :
    Len(failures[u]) + Cardinality(Trying(u))
        <= MaxAttempts + Cardinality(Threads) - 1

Ids(challenges) == {c.id : c \in challenges}

\* Nobody raced for a challenge, and a login was attempted with it: it is gone.
\* What a thread has found and nobody raced for is still there: if it had been
\* consumed since, this thread would have been at the tracker.
ChallengesInv ==
    /\ outstanding \subseteq Challenges
    /\ \A c \in outstanding : c.id <= issued
    /\ \A i \in tried : i \in Nat /\ i <= issued
    /\ \A i \in tried : i \notin raced => i \notin Ids(outstanding)
    /\ \A t \in Threads : Doing(t, "peeked") =>
          /\ \A c \in thread[t][4] : c.id = thread[t][3] /\ c.id <= issued
          /\ thread[t][4] # {} /\ thread[t][3] \notin raced
                => thread[t][3] \in Ids(outstanding)
    /\ ChallengesTriedOnce

IndInv == Shapes /\ SessionsInv /\ LeaksInv /\ RoomInv /\ TryingInv /\ ChallengesInv

-----------------------------------------------------------------------------
\* What the constants are.
LEMMA Constants ==
    /\ MaxSessions \in Nat /\ MaxAttempts \in Nat /\ MaxAttempts > 0
    /\ MaxOutstanding \in Nat /\ MaxClock \in Nat /\ MaxTokens \in Nat
    /\ Window \in Nat /\ ChallengeTtl \in Nat
    /\ NoToken \notin Tokens /\ IsFiniteSet(Threads)
    /\ Cardinality(Threads) \in Nat
<1>1. IsFiniteSet(Threads)
  BY WebClientAssumption
<1>2. Cardinality(Threads) \in Nat
  BY <1>1, FS_CardinalityType
<1> QED
  BY <1>1, <1>2, WebClientAssumption DEF Tokens

\* A task, by its first component.
LEMMA TaskCases ==
    ASSUME Shapes, NEW t \in Threads
    PROVE  /\ \/ thread[t] = Idle
              \/ \E u \in Users : thread[t] = <<"verify", u>> \/ thread[t] = <<"issuing", u>>
              \/ \E u \in accounts : thread[t] = <<"login", u>>
              \/ \E k \in Tokens : \/ thread[t] = <<"handle", k>>
                                   \/ thread[t] = <<"join", k>>
              \/ \E u \in Users, id \in Nat, found \in SUBSET Challenges :
                    thread[t] = <<"peeked", u, id, found>>
              \/ \E u \in Users, b \in BOOLEAN : thread[t] = <<"judged", u, b>>
           /\ thread[t] \in Tasks
<1>1. thread[t] \in Tasks
  BY DEF Shapes
<1> QED
  BY <1>1 DEF Tasks

\* What a thread carries along, by what it is doing.
LEMMA TaskFacts ==
    ASSUME Shapes, NEW t \in Threads
    PROVE  /\ Doing(t, "idle") => thread[t] = Idle
           /\ Doing(t, "verify") => thread[t][2] \in Users
           /\ Doing(t, "login") => thread[t][2] \in accounts
           /\ Doing(t, "handle") => thread[t][2] \in Tokens
                                    /\ thread[t] = <<"handle", thread[t][2]>>
           /\ Doing(t, "join") => thread[t][2] \in Tokens
                                  /\ thread[t] = <<"join", thread[t][2]>>
           /\ Doing(t, "peeked") => /\ thread[t][2] \in Users
                                    /\ thread[t][3] \in Nat
                                    /\ thread[t][4] \in SUBSET Challenges
           /\ Doing(t, "issuing") => thread[t][2] \in Users
           /\ Doing(t, "judged") => thread[t][2] \in Users
  BY TaskCases DEF Doing, Idle

\* What a thread is told to do next is something it can do.
LEMMA NewTasks ==
    /\ Idle \in Tasks
    /\ \A u \in Users : <<"verify", u>> \in Tasks
    /\ \A u \in accounts : <<"login", u>> \in Tasks
    /\ \A k \in Tokens : <<"handle", k>> \in Tasks /\ <<"join", k>> \in Tasks
    /\ \A u \in Users, id \in Nat, found \in SUBSET Challenges :
          <<"peeked", u, id, found>> \in Tasks
    /\ \A u \in Users : <<"issuing", u>> \in Tasks
    /\ \A u \in Users, b \in BOOLEAN : <<"judged", u, b>> \in Tasks
  BY DEF Tasks

\* Goes changes one thread and leaves the others where they are.
LEMMA GoesFacts ==
    ASSUME Shapes, NEW t \in Threads, NEW x, Goes(t, x)
    PROVE  /\ thread'[t] = x
           /\ \A o \in Threads : o # t => thread'[o] = thread[o]
           /\ accounts \subseteq accounts' /\ x \in Tasks'
                 => thread' \in [Threads -> Tasks']
<1>1. /\ thread'[t] = x
      /\ \A o \in Threads : o # t => thread'[o] = thread[o]
      /\ thread' = [o \in Threads |-> thread'[o]]
  BY DEF Shapes, Goes
<1>2. ASSUME accounts \subseteq accounts' PROVE Tasks \subseteq Tasks'
  BY <1>2 DEF Tasks
<1>3. \A o \in Threads : thread[o] \in Tasks
  BY DEF Shapes
<1> QED
  BY <1>1, <1>2, <1>3

\* The limiter only forgets, in prune_locked.
LEMMA RecentFacts ==
    ASSUME NEW s \in Seq(Int), NEW cutoff \in Int
    PROVE  Recent(s, cutoff) \in Seq(Int) /\ Len(Recent(s, cutoff)) <= Len(s)
<1> DEFINE old == {i \in DOMAIN s : s[i] < cutoff}
<1>1. IsFiniteSet(1..Len(s))
  BY FS_Interval
<1>2. old \in SUBSET (1..Len(s))
  OBVIOUS
<1>3. Cardinality(old) \in Nat
  BY <1>1, <1>2, FS_Subset, FS_CardinalityType
<1>4. Recent(s, cutoff) = SubSeq(s, Cardinality(old) + 1, Len(s))
  BY DEF Recent
<1> HIDE DEF old
<1> QED
  BY <1>3, <1>4

\* No request removes an account.
LEMMA AccountsGrow ==
    ASSUME [Next]_vars
    PROVE  accounts \subseteq accounts'
<1>1. \A t \in Threads, u \in Users : Register(t, u) => accounts \subseteq accounts'
  BY DEF Register
<1>2. UNCHANGED vars => accounts' = accounts
  BY DEF vars, auth
<1>3. Tick => accounts' = accounts
  BY DEF Tick
<1>4. \A t \in Threads : VerifyPassword(t) \/ VerifyChallenge(t) \/ Login(t)
         \/ IssueChallenge(t) \/ ConsumeChallenge(t) \/ EnrollKey(t) \/ Logout(t) \/ Release(t) \/ Joined(t)
         => accounts' = accounts
  BY DEF VerifyPassword, VerifyChallenge, Login, IssueChallenge, ConsumeChallenge,
     EnrollKey, Logout, Release, Joined, auth
<1>5. \A t \in Threads, u \in Users : StartLogin(t, u) \/ StartChallenge(t, u)
         => accounts' = accounts
  BY DEF StartLogin, StartChallenge, auth
<1>6. \A t \in Threads, u \in Users, id \in 1..MaxChallenges :
         PeekChallenge(t, u, id) => accounts' = accounts
  BY DEF PeekChallenge, auth
<1>7. \A t \in Threads, k \in Tokens : Touch(t, k) => accounts' = accounts
  BY DEF Touch, auth
<1>8. ReapStart \/ ReapLock \/ ReapOne \/ ReapJoined \/ ReapDone
         => accounts' = accounts
  BY DEF ReapStart, ReapLock, ReapOne, ReapJoined, ReapDone, auth
<1>9. \A k \in Tokens : WorkerCalls(k) \/ CallbackDone(k) \/ WorkerEnds(k)
         => accounts' = accounts
  BY DEF WorkerCalls, CallbackDone, WorkerEnds, auth
<1> QED
  BY <1>1, <1>2, <1>3, <1>4, <1>5, <1>6, <1>7, <1>8, <1>9 DEF Next

\* Every step keeps the types of the threads.
LEMMA ThreadsStep ==
    ASSUME Shapes, ChallengesInv, [Next]_vars
    PROVE  thread' \in [Threads -> Tasks']
<1> DEFINE Goal == thread' \in [Threads -> Tasks']
<1>1. accounts \subseteq accounts'
  BY AccountsGrow
<1>2. /\ Idle \in Tasks'
      /\ \A u \in Users : <<"verify", u>> \in Tasks'
      /\ \A u \in accounts' : <<"login", u>> \in Tasks'
      /\ \A k \in Tokens : <<"handle", k>> \in Tasks' /\ <<"join", k>> \in Tasks'
      /\ \A u \in Users, id \in Nat, found \in SUBSET Challenges :
            <<"peeked", u, id, found>> \in Tasks'
      /\ \A u \in Users : <<"issuing", u>> \in Tasks'
      /\ \A u \in Users, b \in BOOLEAN : <<"judged", u, b>> \in Tasks'
  BY DEF Tasks
<1>3. ASSUME thread' = thread PROVE Goal
  <2>1. Tasks \subseteq Tasks'
    BY <1>1 DEF Tasks
  <2> QED
    BY <1>3, <2>1 DEF Shapes
<1>4. ASSUME NEW t \in Threads, NEW x \in Tasks', Goes(t, x) PROVE Goal
  BY <1>1, <1>4, GoesFacts
<1> HIDE DEF Goal
<1>5. ASSUME NEW t \in Threads, NEW u \in Users,
             Register(t, u) \/ StartLogin(t, u) \/ StartChallenge(t, u)
      PROVE  Goal
  BY <1>5, <1>2, <1>4 DEF Register, StartLogin, StartChallenge
<1>6. ASSUME NEW t \in Threads, VerifyPassword(t) \/ VerifyChallenge(t)
      PROVE  Goal
  <2>1. \/ Goes(t, Idle)
        \/ \E u \in accounts : Goes(t, <<"login", u>>)
    BY <1>6 DEF VerifyPassword, VerifyChallenge, Shapes, AuthShapes
  <2> QED
    BY <2>1, <1>1, <1>2, <1>4
<1>7. ASSUME NEW t \in Threads, NEW u \in Users, NEW id \in 1..MaxChallenges,
             PeekChallenge(t, u, id)
      PROVE  Goal
  <2>1. {c \in outstanding : c.id = id /\ clock <= c.expires} \in SUBSET Challenges
    BY DEF ChallengesInv
  <2> QED
    BY <2>1, <1>7, <1>2, <1>4 DEF PeekChallenge
<1>8. ASSUME NEW t \in Threads, Login(t) \/ Joined(t) \/ IssueChallenge(t) PROVE Goal
  BY <1>8, <1>2, <1>4 DEF Login, Joined, IssueChallenge
<1>c. ASSUME NEW t \in Threads, ConsumeChallenge(t) PROVE Goal
  <2>1. thread[t][2] \in Users
    BY <1>c, TaskFacts DEF ConsumeChallenge
  <2> DEFINE b == \E c \in thread[t][4] : c.user = thread[t][2]
  <2>2. Goes(t, <<"judged", thread[t][2], b>>) /\ b \in BOOLEAN
    BY <1>c DEF ConsumeChallenge
  <2> HIDE DEF b
  <2> QED
    BY <2>1, <2>2, <1>2, <1>4
<1>9. ASSUME NEW t \in Threads, NEW k \in Tokens, Touch(t, k) PROVE Goal
  BY <1>9, <1>2, <1>4 DEF Touch
<1>10. ASSUME NEW t \in Threads, Release(t) PROVE Goal
  <2>1. thread[t][2] \in Tokens
    BY <1>10, TaskFacts DEF Release
  <2>2. Goes(t, Idle) \/ Goes(t, <<"join", thread[t][2]>>)
    BY <1>10 DEF Release
  <2> QED
    BY <2>1, <2>2, <1>2, <1>4
<1>11. ASSUME \/ UNCHANGED vars \/ Tick
              \/ \E t \in Threads : EnrollKey(t) \/ Logout(t)
              \/ ReapStart \/ ReapLock \/ ReapOne \/ ReapJoined \/ ReapDone
              \/ \E k \in Tokens : WorkerCalls(k) \/ CallbackDone(k) \/ WorkerEnds(k)
       PROVE  thread' = thread
  BY <1>11 DEF vars, Tick, EnrollKey, Logout, ReapStart, ReapLock, ReapOne, ReapJoined, ReapDone, WorkerCalls, CallbackDone, WorkerEnds
<1>12. Goal
  BY <1>3, <1>5, <1>6, <1>7, <1>8, <1>c, <1>9, <1>10, <1>11 DEF Next
<1> QED
  BY <1>12 DEF Goal

-----------------------------------------------------------------------------
\* The steps that are about passwords, challenges and accounts.
LEMMA AuthCases ==
    ASSUME [Next]_vars
    PROVE  \/ UNCHANGED <<clock, auth>>
           \/ Tick
           \/ \E t \in Threads, u \in Users : Register(t, u)
           \/ \E t \in Threads : \/ VerifyPassword(t) \/ VerifyChallenge(t)
                                 \/ IssueChallenge(t) \/ ConsumeChallenge(t)
                                 \/ EnrollKey(t)
<1> DEFINE Same == UNCHANGED <<clock, auth>>
<1>1. UNCHANGED vars => Same
  BY DEF vars
<1>2. \A t \in Threads : Login(t) \/ Logout(t) \/ Release(t) \/ Joined(t) => Same
  BY DEF Login, Logout, Release, Joined
<1>3. \A t \in Threads, u \in Users : StartLogin(t, u) \/ StartChallenge(t, u) => Same
  BY DEF StartLogin, StartChallenge
<1>4. \A t \in Threads, u \in Users, id \in 1..MaxChallenges :
         PeekChallenge(t, u, id) => Same
  BY DEF PeekChallenge
<1>5. \A t \in Threads, k \in Tokens : Touch(t, k) => Same
  BY DEF Touch
<1>6. ReapStart \/ ReapLock \/ ReapOne \/ ReapJoined \/ ReapDone => Same
  BY DEF ReapStart, ReapLock, ReapOne, ReapJoined, ReapDone
<1>7. \A k \in Tokens : WorkerCalls(k) \/ CallbackDone(k) \/ WorkerEnds(k) => Same
  BY DEF WorkerCalls, CallbackDone, WorkerEnds
<1> HIDE DEF Same
<1>8. \/ Same \/ Tick
      \/ \E t \in Threads, u \in Users : Register(t, u)
      \/ \E t \in Threads : \/ VerifyPassword(t) \/ VerifyChallenge(t)
                            \/ IssueChallenge(t) \/ ConsumeChallenge(t)
                            \/ EnrollKey(t)
  BY <1>1, <1>2, <1>3, <1>4, <1>5, <1>6, <1>7 DEF Next
<1> QED
  BY <1>8 DEF Same

\* Every step keeps the types of accounts and attempts.
LEMMA AuthStep ==
    ASSUME Shapes, [Next]_vars
    PROVE  AuthShapes'
<1> USE DEF Shapes, AuthShapes
<1>a. clock \in Int
  BY Constants
<1>b. ASSUME NEW u \in Users, RecordFailure(u) \/ RecordSuccess(u)
      PROVE  failures' \in [Users -> Seq(Int)]
  <2>1. Append(failures[u], clock) \in Seq(Int) /\ <<>> \in Seq(Int)
    BY <1>a
  <2> QED
    BY <1>b, <2>1 DEF RecordFailure, RecordSuccess
<1>1. CASE UNCHANGED <<clock, auth>>
  BY <1>1 DEF auth, tracker
<1>2. CASE Tick
  <2>1. clock' \in 0..MaxClock
    BY <1>2, Constants DEF Tick
  <2>2. \A u \in Users : Recent(failures[u], clock' - Window) \in Seq(Int)
    <3>1. clock' - Window \in Int
      BY <2>1, Constants
    <3> QED
      BY <3>1, RecentFacts
  <2> QED
    BY <1>2, <2>1, <2>2 DEF Tick, tracker
<1>3. ASSUME NEW t \in Threads, NEW u \in Users, Register(t, u)
      PROVE  AuthShapes'
  BY <1>3 DEF Register, tracker
<1>6. ASSUME NEW t \in Threads, IssueChallenge(t) \/ ConsumeChallenge(t)
      PROVE  AuthShapes'
  <2>1. /\ UNCHANGED <<clock, accounts, enrolled, failures>>
        /\ issued' = issued \/ issued' = issued + 1
    BY <1>6 DEF IssueChallenge, ConsumeChallenge, tracker
  <2> QED
    BY <2>1
<1>4. ASSUME NEW t \in Threads, VerifyPassword(t) \/ VerifyChallenge(t)
      PROVE  AuthShapes'
  <2>1. thread[t][2] \in Users
    BY <1>4, TaskFacts DEF VerifyPassword, VerifyChallenge
  <2>2. /\ RecordFailure(thread[t][2]) \/ RecordSuccess(thread[t][2])
        /\ UNCHANGED <<clock, accounts, enrolled, issued>>
    BY <1>4 DEF VerifyPassword, VerifyChallenge, tracker
  <2>3. failures' \in [Users -> Seq(Int)]
    BY <2>1, <2>2, <1>b
  <2> QED
    BY <2>2, <2>3
<1>5. ASSUME NEW t \in Threads, EnrollKey(t) PROVE AuthShapes'
  <2>1. sessions[thread[t][2]].user \in accounts
    BY <1>5 DEF EnrollKey, SessionShapes
  <2> QED
    BY <1>5, <2>1 DEF EnrollKey, tracker
<1> QED
  BY <1>1, <1>2, <1>3, <1>4, <1>5, <1>6, AuthCases

\* A thread is counted for at most one user, and there are finitely many.
LEMMA TryingFacts ==
    ASSUME NEW S, S \subseteq Threads
    PROVE  /\ IsFiniteSet(S) /\ Cardinality(S) \in Nat
           /\ Cardinality(S) <= Cardinality(Threads)
           /\ \A T \in SUBSET S : Cardinality(T) <= Cardinality(S)
           /\ \A t \in S : Cardinality(S \ {t}) = Cardinality(S) - 1
<1>1. IsFiniteSet(S) /\ Cardinality(S) <= Cardinality(Threads)
  BY Constants, FS_Subset
<1>2. Cardinality(S) \in Nat
  BY <1>1, FS_CardinalityType
<1>3. \A T \in SUBSET S : Cardinality(T) <= Cardinality(S)
  BY <1>1, FS_Subset
<1>4. \A t \in S : Cardinality(S \ {t}) = Cardinality(S) - 1
  BY <1>1, FS_RemoveElement
<1> QED
  BY <1>1, <1>2, <1>3, <1>4

\* Whoever is let through finds fewer failures than the limit, and whoever is
\* judged no longer tries: a failure takes the place of a try.
LEMMA TryingStep ==
    ASSUME Shapes, TryingInv, [Next]_vars
    PROVE  TryingInv'
<1> SUFFICES ASSUME NEW u \in Users
             PROVE  Len(failures'[u]) + Cardinality(Trying(u)')
                        <= MaxAttempts + Cardinality(Threads) - 1
  BY DEF TryingInv
<1> DEFINE Bound == Len(failures'[u]) + Cardinality(Trying(u)')
                        <= MaxAttempts + Cardinality(Threads) - 1
<1>a. /\ Trying(u) \subseteq Threads /\ Trying(u)' \subseteq Threads
      /\ Len(failures[u]) \in Nat /\ failures[u] \in Seq(Int)
      /\ Len(failures[u]) + Cardinality(Trying(u))
            <= MaxAttempts + Cardinality(Threads) - 1
      /\ Cardinality(Trying(u)) \in Nat /\ Cardinality(Trying(u)') \in Nat
      /\ Cardinality(Trying(u)') <= Cardinality(Threads)
      /\ Cardinality(Threads) \in Nat /\ MaxAttempts \in Nat
  BY TryingFacts, Constants DEF Trying, Shapes, AuthShapes, TryingInv
<1>b. ASSUME Trying(u)' \subseteq Trying(u), Len(failures'[u]) <= Len(failures[u]),
             Len(failures'[u]) \in Nat
      PROVE  Bound
  <2>1. Cardinality(Trying(u)') <= Cardinality(Trying(u))
    BY <1>a, <1>b, TryingFacts
  <2> QED
    BY <2>1, <1>a, <1>b
<1>c. ASSUME NEW t \in Threads, NEW x, Goes(t, x),
             x[1] \notin {"verify", "peeked", "judged"}
      PROVE  /\ Trying(u)' \subseteq Trying(u) \ {t}
  BY <1>c, GoesFacts DEF Trying, Doing
<1>d. ASSUME failures' = failures, Len(failures[u]) < MaxAttempts PROVE Bound
  BY <1>a, <1>d
<1>1. ASSUME thread' = thread, failures' = failures PROVE Bound
  <2>1. Trying(u)' = Trying(u)
    BY <1>1 DEF Trying, Doing
  <2> QED
    BY <2>1, <1>1, <1>a
<1>2. ASSUME Tick PROVE Bound
  <2>1. Trying(u)' = Trying(u)
    BY <1>2 DEF Tick, Trying, Doing
  <2>2. clock' - Window \in Int
    BY <1>2, Constants DEF Tick, Shapes, AuthShapes
  <2>3. failures'[u] = Recent(failures[u], clock' - Window)
    BY <1>2 DEF Tick
  <2> QED
    BY <2>1, <2>2, <2>3, <1>a, RecentFacts
<1>3. ASSUME NEW t \in Threads, NEW v \in Users, StartLogin(t, v) PROVE Bound
  <2>1. CASE v = u
    BY <1>3, <2>1, <1>d DEF StartLogin, Allowed, auth
  <2>2. CASE v # u
    <3>1. /\ thread'[t] = <<"verify", v>>
          /\ \A o \in Threads : o # t => thread'[o] = thread[o]
      BY <1>3, GoesFacts DEF StartLogin
    <3>2. Trying(u)' \subseteq Trying(u)
      BY <2>2, <3>1 DEF Trying, Doing
    <3> QED
      BY <1>3, <3>2, <1>a, <1>b DEF StartLogin, auth
  <2> QED
    BY <2>1, <2>2
<1>4. ASSUME NEW t \in Threads, NEW v \in Users, NEW id, PeekChallenge(t, v, id)
      PROVE  Bound
  <2>1. CASE v = u
    BY <1>4, <2>1, <1>d DEF PeekChallenge, Allowed, auth
  <2>2. CASE v # u
    <3>1. /\ thread'[t] = <<"peeked", v, id,
                {c \in outstanding : c.id = id /\ clock <= c.expires}>>
          /\ \A o \in Threads : o # t => thread'[o] = thread[o]
      BY <1>4, GoesFacts DEF PeekChallenge
    <3>2. thread'[t][2] = v
      BY <3>1
    <3>3. Trying(u)' \subseteq Trying(u)
      BY <2>2, <3>1, <3>2 DEF Trying, Doing
    <3> QED
      BY <1>4, <3>3, <1>a, <1>b DEF PeekChallenge, auth
  <2> QED
    BY <2>1, <2>2
<1>5. ASSUME NEW t \in Threads, VerifyPassword(t) \/ VerifyChallenge(t)
      PROVE  Bound
  <2>1. /\ thread[t][2] \in Users
        /\ Doing(t, "verify") \/ Doing(t, "judged")
    BY <1>5, TaskFacts DEF VerifyPassword, VerifyChallenge
  <2> DEFINE v == thread[t][2]
  <2>2. /\ RecordFailure(v) \/ RecordSuccess(v)
        /\ Goes(t, Idle) \/ Goes(t, <<"login", v>>)
    BY <1>5 DEF VerifyPassword, VerifyChallenge
  <2>3. Trying(u)' \subseteq Trying(u) \ {t}
    BY <2>2, <1>c DEF Idle
  <2>4. CASE v # u
    <3>1. failures'[u] = failures[u]
      BY <2>2, <2>4 DEF RecordFailure, RecordSuccess, Shapes, AuthShapes
    <3> QED
      BY <3>1, <2>3, <1>a, <1>b
  <2>5. CASE v = u
    <3>1. t \in Trying(u)
      BY <2>1, <2>5 DEF Trying
    <3>2. Cardinality(Trying(u)') <= Cardinality(Trying(u)) - 1
      <4>1. Cardinality(Trying(u) \ {t}) = Cardinality(Trying(u)) - 1
        BY <3>1, <1>a, TryingFacts
      <4>2. Trying(u) \ {t} \subseteq Threads
        BY <1>a
      <4>3. Cardinality(Trying(u)') <= Cardinality(Trying(u) \ {t})
        BY <2>3, <4>2, TryingFacts
      <4> QED
        BY <4>1, <4>3
    <3>3. failures'[u] = Append(failures[u], clock) \/ failures'[u] = <<>>
      BY <2>2, <2>5 DEF RecordFailure, RecordSuccess, Shapes, AuthShapes
    <3>4. Len(failures'[u]) \in Nat /\ Len(failures'[u]) <= Len(failures[u]) + 1
      BY <3>3, <1>a, Constants DEF Shapes, AuthShapes
    <3>5. /\ Len(failures[u]) \in Nat /\ Cardinality(Trying(u)) \in Nat
          /\ Cardinality(Trying(u)') \in Nat
          /\ Cardinality(Threads) \in Nat /\ MaxAttempts \in Nat
          /\ Len(failures[u]) + Cardinality(Trying(u))
                <= MaxAttempts + Cardinality(Threads) - 1
      BY <1>a
    <3> QED
      BY <3>2, <3>4, <3>5
  <2> QED
    BY <2>4, <2>5
<1>6. ASSUME NEW t \in Threads, NEW v \in Users, Register(t, v) PROVE Bound
  <2>1. failures' = failures /\ Goes(t, <<"login", v>>)
    BY <1>6 DEF Register
  <2>2. Trying(u)' \subseteq Trying(u) \ {t}
    BY <2>1, <1>c
  <2> QED
    BY <2>1, <2>2, <1>a, <1>b
<1>7. ASSUME NEW t \in Threads, Login(t) \/ Joined(t) \/ IssueChallenge(t) PROVE Bound
  <2>1. failures' = failures /\ Goes(t, Idle)
    BY <1>7 DEF Login, Joined, IssueChallenge, auth
  <2>2. Trying(u)' \subseteq Trying(u) \ {t}
    BY <2>1, <1>c DEF Idle
  <2> QED
    BY <2>1, <2>2, <1>a, <1>b
<1>12. ASSUME NEW t \in Threads, NEW v \in Users, StartChallenge(t, v) PROVE Bound
  <2>1. failures' = failures /\ Goes(t, <<"issuing", v>>)
    BY <1>12 DEF StartChallenge, auth
  <2>2. Trying(u)' \subseteq Trying(u) \ {t}
    BY <2>1, <1>c
  <2> QED
    BY <2>1, <2>2, <1>a, <1>b
<1>13. ASSUME NEW t \in Threads, ConsumeChallenge(t) PROVE Bound
  <2> DEFINE v == thread[t][2] b == \E c \in thread[t][4] : c.user = thread[t][2]
  <2>1. failures' = failures /\ Goes(t, <<"judged", v, b>>) /\ Doing(t, "peeked")
    BY <1>13 DEF ConsumeChallenge
  <2>2. /\ thread'[t] = <<"judged", v, b>>
        /\ \A o \in Threads : o # t => thread'[o] = thread[o]
    BY <2>1, GoesFacts
  <2>3. thread'[t][2] = thread[t][2]
    BY <2>2
  <2>4. Trying(u)' \subseteq Trying(u)
    BY <2>1, <2>2, <2>3 DEF Trying, Doing
  <2> QED
    BY <2>1, <2>4, <1>a, <1>b
<1>8. ASSUME NEW t \in Threads, NEW k \in Tokens, Touch(t, k) PROVE Bound
  <2>1. failures' = failures /\ Goes(t, <<"handle", k>>)
    BY <1>8 DEF Touch, auth
  <2>2. Trying(u)' \subseteq Trying(u) \ {t}
    BY <2>1, <1>c
  <2> QED
    BY <2>1, <2>2, <1>a, <1>b
<1>9. ASSUME NEW t \in Threads, Release(t) PROVE Bound
  <2>1. /\ failures' = failures
        /\ Goes(t, Idle) \/ Goes(t, <<"join", thread[t][2]>>)
    BY <1>9 DEF Release, auth
  <2>2. Trying(u)' \subseteq Trying(u) \ {t}
    BY <2>1, <1>c DEF Idle
  <2> QED
    BY <2>1, <2>2, <1>a, <1>b
<1>10. ASSUME \/ UNCHANGED vars
              \/ \E t \in Threads : EnrollKey(t) \/ Logout(t)
              \/ ReapStart \/ ReapLock \/ ReapOne \/ ReapJoined \/ ReapDone
              \/ \E k \in Tokens : WorkerCalls(k) \/ CallbackDone(k) \/ WorkerEnds(k)
       PROVE  thread' = thread /\ failures' = failures
  BY <1>10 DEF vars, auth, EnrollKey, Logout, ReapStart, ReapLock,
     ReapOne, ReapJoined, ReapDone, WorkerCalls, CallbackDone, WorkerEnds
<1> HIDE DEF Bound
<1>11. Bound
  BY <1>1, <1>2, <1>3, <1>4, <1>5, <1>6, <1>7, <1>8, <1>9, <1>10, <1>12, <1>13 DEF Next
<1> QED
  BY <1>11 DEF Bound

\* A thread that is at the tracker when another one changes it makes the change
\* a race for everything that is outstanding.
LEMMA TrackedFacts ==
    ASSUME NEW t \in Threads, NEW E, NEW O, Tracked(t, E, O)
    PROVE  /\ raced \subseteq raced'
           /\ \/ outstanding' = E /\ raced' = raced
              \/ outstanding' \subseteq E \cup O /\ Ids(outstanding) \subseteq raced'
           /\ \A o \in Threads \ {t} : Doing(o, "peeked") => Ids(outstanding) \subseteq raced'
  BY DEF Tracked, AtTracker, Ids

\* So what another thread has found is still there, or was raced for.
LEMMA OthersFound ==
    ASSUME Shapes, ChallengesInv, NEW t \in Threads, NEW E, NEW O, Tracked(t, E, O),
           issued' = issued \/ issued' = issued + 1,
           NEW x, Goes(t, x), x[1] # "peeked"
    PROVE  \A o \in Threads : thread'[o][1] = "peeked" =>
              /\ \A c \in thread'[o][4] : c.id = thread'[o][3] /\ c.id <= issued'
              /\ thread'[o][4] # {} /\ thread'[o][3] \notin raced'
                    => thread'[o][3] \in Ids(outstanding')
<1> SUFFICES ASSUME NEW o \in Threads, thread'[o][1] = "peeked"
             PROVE  /\ \A c \in thread'[o][4] : c.id = thread'[o][3] /\ c.id <= issued'
                    /\ thread'[o][4] = {} \/ thread'[o][3] \in raced'
  OBVIOUS
<1>1. o # t /\ thread'[o] = thread[o]
  BY GoesFacts
<1>2. Doing(o, "peeked")
  BY <1>1 DEF Doing
<1>3. raced \subseteq raced' /\ Ids(outstanding) \subseteq raced'
  BY <1>1, <1>2, TrackedFacts
<1>4. /\ \A c \in thread[o][4] : c.id = thread[o][3] /\ c.id <= issued
      /\ thread[o][4] = {} \/ thread[o][3] \in raced \/ thread[o][3] \in Ids(outstanding)
  BY <1>2 DEF ChallengesInv
<1>5. \A c \in thread[o][4] : c.id \in Nat
  BY <1>2, TaskFacts DEF Challenges
<1>6. issued \in Nat
  BY DEF Shapes, AuthShapes
<1> QED
  BY <1>1, <1>3, <1>4, <1>5, <1>6

\* A challenge is drawn with a new id.
LEMMA IssueStep ==
    ASSUME Shapes, ChallengesInv, NEW t \in Threads, IssueChallenge(t),
           issued' = issued + 1
    PROVE  ChallengesInv'
<1> DEFINE new == [id |-> issued + 1, user |-> thread[t][2], expires |-> clock + ChallengeTtl]
<1>1. new \in Challenges /\ new.id = issued + 1 /\ issued \in Nat
  <2>1. thread[t][2] \in Users
    BY TaskFacts DEF IssueChallenge
  <2> QED
    BY <2>1, Constants DEF Challenges, Shapes, AuthShapes
<1>2. Tracked(t, outstanding \cup {new}, {}) /\ UNCHANGED <<tried, retried>> /\ Goes(t, Idle)
  BY <1>1 DEF IssueChallenge, tracker
<1> HIDE DEF new
<1>3. raced \subseteq raced' /\ outstanding' \subseteq outstanding \cup {new}
  BY <1>2, TrackedFacts
<1>4. outstanding' \subseteq Challenges /\ \A c \in outstanding' : c.id <= issued'
  BY <1>1, <1>3 DEF ChallengesInv, Challenges
<1>5. \A i \in tried' : i \in Nat /\ i <= issued'
  BY <1>1, <1>2 DEF ChallengesInv
<1>6. \A i \in tried' : i \notin raced' => i \notin Ids(outstanding')
  <2>1. ASSUME NEW i \in tried, i \notin raced', NEW c \in outstanding' PROVE c.id # i
    <3>1. i \in Nat /\ i <= issued /\ i \notin Ids(outstanding)
      BY <2>1, <1>3 DEF ChallengesInv
    <3>2. CASE c = new
      BY <3>1, <3>2, <1>1
    <3>3. CASE c \in outstanding
      BY <3>1, <3>3 DEF Ids
    <3> QED
      BY <3>2, <3>3, <1>3
  <2> QED
    BY <2>1, <1>2 DEF Ids
<1>7. \A o \in Threads : thread'[o][1] = "peeked" =>
         /\ \A c \in thread'[o][4] : c.id = thread'[o][3] /\ c.id <= issued'
         /\ thread'[o][4] # {} /\ thread'[o][3] \notin raced'
               => thread'[o][3] \in Ids(outstanding')
  <2>1. Idle[1] # "peeked"
    BY DEF Idle
  <2> QED
    BY <2>1, <1>2, OthersFound
<1>8. ChallengesTriedOnce'
  BY <1>2, <1>3 DEF ChallengesInv, ChallengesTriedOnce
<1> QED
  BY <1>4, <1>5, <1>6, <1>7, <1>8 DEF ChallengesInv, Doing, Ids

\* What a login is attempted with is gone, or was raced for.
LEMMA ConsumeStep ==
    ASSUME Shapes, ChallengesInv, NEW t \in Threads, ConsumeChallenge(t)
    PROVE  ChallengesInv'
<1> DEFINE u == thread[t][2] id == thread[t][3] found == thread[t][4]
           b == \E c \in found : c.user = u
<1>1. /\ Doing(t, "peeked")
      /\ Tracked(t, Consumed(id), outstanding)
      /\ tried' = tried \cup Ids(found)
      /\ retried' = retried \cup (Ids(found) \cap tried)
      /\ Goes(t, <<"judged", u, b>>)
      /\ issued' = issued
  BY DEF ConsumeChallenge, Ids
<1>2. /\ id \in Nat /\ found \in SUBSET Challenges
      /\ \A c \in found : c.id = id /\ c.id <= issued
      /\ found # {} /\ id \notin raced => id \in Ids(outstanding)
  BY <1>1, TaskFacts DEF ChallengesInv
<1>3. Ids(found) \subseteq {id} /\ (Ids(found) # {} => found # {} /\ id <= issued)
  BY <1>2 DEF Ids
<1>4. raced \subseteq raced' /\ outstanding' \subseteq outstanding
  BY <1>1, TrackedFacts DEF Consumed
<1>5. id \in Ids(found) => id \in raced' \/ id \notin Ids(outstanding')
  <2>1. CASE outstanding' = Consumed(id)
    BY <2>1 DEF Consumed, Ids
  <2>2. CASE Ids(outstanding) \subseteq raced'
    BY <2>2, <1>2, <1>3, <1>4
  <2> QED
    BY <2>1, <2>2, <1>1, TrackedFacts
<1>6. Ids(outstanding') \subseteq Ids(outstanding)
  BY <1>4 DEF Ids
<1>7. ASSUME NEW i \in tried', i \notin raced' PROVE i \notin Ids(outstanding')
  <2>1. CASE i \in tried
    BY <2>1, <1>4, <1>6, <1>7 DEF ChallengesInv
  <2>2. CASE i \in Ids(found)
    BY <2>2, <1>3, <1>5, <1>7
  <2> QED
    BY <2>1, <2>2, <1>1
<1>8. \A i \in tried' : i \in Nat /\ i <= issued'
  BY <1>1, <1>2, <1>3 DEF ChallengesInv
<1>9. retried' \subseteq raced'
  <2>1. ASSUME NEW i \in Ids(found) \cap tried PROVE i \in raced
    BY <2>1, <1>2, <1>3 DEF ChallengesInv
  <2> QED
    BY <2>1, <1>1, <1>4 DEF ChallengesInv, ChallengesTriedOnce
<1>10. outstanding' \subseteq Challenges /\ \A c \in outstanding' : c.id <= issued'
  BY <1>1, <1>4 DEF ChallengesInv
<1>11. \A o \in Threads : thread'[o][1] = "peeked" =>
         /\ \A c \in thread'[o][4] : c.id = thread'[o][3] /\ c.id <= issued'
         /\ thread'[o][4] # {} /\ thread'[o][3] \notin raced'
               => thread'[o][3] \in Ids(outstanding')
  <2>1. <<"judged", u, b>>[1] # "peeked"
    OBVIOUS
  <2> DEFINE x == <<"judged", u, b>>
  <2>2. Goes(t, x) /\ x[1] # "peeked"
    BY <1>1, <2>1
  <2> HIDE DEF x, u, b, found
  <2> QED
    BY <2>2, <1>1, OthersFound
<1> QED
  BY <1>7, <1>8, <1>9, <1>10, <1>11 DEF ChallengesInv, ChallengesTriedOnce, Doing, Ids

\* The other steps leave the tracker as it is, and find no more in it than is
\* there.
LEMMA ChallengesStep ==
    ASSUME Shapes, ChallengesInv, [Next]_vars
    PROVE  ChallengesInv'
<1>a. ASSUME UNCHANGED tracker,
             \A o \in Threads : thread'[o][1] = "peeked" =>
                \/ thread'[o] = thread[o]
                \/ \A c \in thread'[o][4] : c \in outstanding /\ c.id = thread'[o][3]
      PROVE  ChallengesInv'
  <2>1. UNCHANGED <<outstanding, issued, tried, retried, raced>>
    BY <1>a DEF tracker
  <2>2. ASSUME NEW o \in Threads, thread'[o][1] = "peeked"
        PROVE  /\ \A c \in thread'[o][4] : c.id = thread'[o][3] /\ c.id <= issued
               /\ thread'[o][4] # {} /\ thread'[o][3] \notin raced
                     => thread'[o][3] \in Ids(outstanding)
    <3>1. CASE thread'[o] = thread[o]
      BY <3>1, <2>2 DEF ChallengesInv, Doing
    <3>2. CASE \A c \in thread'[o][4] : c \in outstanding /\ c.id = thread'[o][3]
      BY <3>2 DEF ChallengesInv, Ids
    <3> QED
      BY <1>a, <2>2, <3>1, <3>2
  <2> QED
    BY <2>1, <2>2 DEF ChallengesInv, ChallengesTriedOnce, Doing, Ids
<1>b. ASSUME UNCHANGED tracker, NEW t \in Threads, NEW x, Goes(t, x), x[1] # "peeked"
      PROVE  ChallengesInv'
  BY <1>a, <1>b, GoesFacts
<1>1. ASSUME NEW t \in Threads, IssueChallenge(t) PROVE ChallengesInv'
  <2>1. CASE issued' = issued + 1
    BY <1>1, <2>1, IssueStep
  <2>2. CASE UNCHANGED tracker /\ Goes(t, Idle)
    <3>1. Idle[1] # "peeked"
      BY DEF Idle
    <3> QED
      BY <2>2, <3>1, <1>b
  <2> QED
    BY <1>1, <2>1, <2>2 DEF IssueChallenge
<1>2. ASSUME NEW t \in Threads, ConsumeChallenge(t) PROVE ChallengesInv'
  BY <1>2, ConsumeStep
<1>3. ASSUME NEW t \in Threads, NEW u \in Users, NEW id, PeekChallenge(t, u, id)
      PROVE  ChallengesInv'
  <2> DEFINE found == {c \in outstanding : c.id = id /\ clock <= c.expires}
  <2>1. /\ thread'[t] = <<"peeked", u, id, found>>
        /\ \A o \in Threads : o # t => thread'[o] = thread[o]
        /\ UNCHANGED tracker
    BY <1>3, GoesFacts DEF PeekChallenge, auth
  <2>2. thread'[t][3] = id /\ thread'[t][4] = found
    BY <2>1
  <2>3. \A c \in found : c \in outstanding /\ c.id = id
    OBVIOUS
  <2> HIDE DEF found
  <2> QED
    BY <2>1, <2>2, <2>3, <1>a
<1>4. ASSUME NEW t \in Threads, NEW u \in Users,
             Register(t, u) \/ StartLogin(t, u) \/ StartChallenge(t, u)
      PROVE  ChallengesInv'
  <2>1. /\ \/ Goes(t, <<"login", u>>) \/ Goes(t, <<"verify", u>>) \/ Goes(t, <<"issuing", u>>)
        /\ UNCHANGED tracker
    BY <1>4 DEF Register, StartLogin, StartChallenge, auth
  <2>2. <<"login", u>>[1] # "peeked" /\ <<"verify", u>>[1] # "peeked" /\ <<"issuing", u>>[1] # "peeked"
    OBVIOUS
  <2> QED
    BY <2>1, <2>2, <1>b
<1>5. ASSUME NEW t \in Threads,
             \/ VerifyPassword(t) \/ VerifyChallenge(t) \/ Login(t)
             \/ Release(t) \/ Joined(t)
      PROVE  ChallengesInv'
  <2> DEFINE v == thread[t][2]
  <2>1. /\ Goes(t, Idle) \/ Goes(t, <<"login", v>>) \/ Goes(t, <<"join", v>>)
        /\ UNCHANGED tracker
    BY <1>5 DEF VerifyPassword, VerifyChallenge, Login, Release, Joined, auth
  <2>2. /\ Idle[1] # "peeked"
        /\ <<"login", v>>[1] # "peeked" /\ <<"join", v>>[1] # "peeked"
    BY DEF Idle
  <2> HIDE DEF v
  <2> QED
    BY <2>1, <2>2, <1>b
<1>6. ASSUME NEW t \in Threads, NEW k \in Tokens, Touch(t, k) PROVE ChallengesInv'
  <2>1. Goes(t, <<"handle", k>>) /\ <<"handle", k>>[1] # "peeked" /\ UNCHANGED tracker
    BY <1>6 DEF Touch, auth
  <2> QED
    BY <2>1, <1>b
<1>7. ASSUME \/ UNCHANGED vars \/ Tick
             \/ \E t \in Threads : EnrollKey(t) \/ Logout(t)
             \/ ReapStart \/ ReapLock \/ ReapOne \/ ReapJoined \/ ReapDone
             \/ \E k \in Tokens : WorkerCalls(k) \/ CallbackDone(k) \/ WorkerEnds(k)
      PROVE  ChallengesInv'
  <2>1. UNCHANGED tracker /\ thread' = thread
    BY <1>7 DEF vars, auth, Tick, EnrollKey, Logout, ReapStart, ReapLock, ReapOne,
       ReapJoined, ReapDone, WorkerCalls, CallbackDone, WorkerEnds
  <2> QED
    BY <2>1, <1>a
<1> QED
  BY <1>1, <1>2, <1>3, <1>4, <1>5, <1>6, <1>7 DEF Next

-----------------------------------------------------------------------------
\* The steps that touch no session, client or reaper, and no request of one.
Elsewhere ==
    /\ UNCHANGED <<sessions, active, worker, reaper, mutex>>
    /\ \A t \in Threads : \/ thread'[t] = thread[t]
                          \/ /\ thread[t][1] \notin {"handle", "join"}
                             /\ thread'[t][1] \notin {"handle", "join"}

\* The steps that can change who keeps a connection open; every other step
\* leaves sessions, workers and the threads that hold or join one alone.
LEMMA SessionCases ==
    ASSUME Shapes, [Next]_vars
    PROVE  \/ Elsewhere
           \/ \E t \in Threads : \/ Login(t) \/ Logout(t) \/ Release(t) \/ Joined(t)
                                 \/ \E k \in Tokens : Touch(t, k)
           \/ ReapStart \/ ReapLock \/ ReapOne \/ ReapJoined \/ ReapDone
           \/ \E k \in Tokens : WorkerCalls(k) \/ CallbackDone(k) \/ WorkerEnds(k)
<1>a. ASSUME NEW t \in Threads, NEW x, Goes(t, x), x[1] \notin {"handle", "join"},
             thread[t][1] \notin {"handle", "join"},
             UNCHANGED <<sessions, active, worker, reaper, mutex>>
      PROVE  Elsewhere
  BY <1>a, GoesFacts DEF Elsewhere
<1>1. ASSUME \/ UNCHANGED vars \/ Tick \/ \E t \in Threads : EnrollKey(t)
      PROVE  Elsewhere
  BY <1>1 DEF Elsewhere, vars, Tick, EnrollKey
<1>2. ASSUME NEW t \in Threads, NEW u \in Users,
             Register(t, u) \/ StartLogin(t, u) \/ StartChallenge(t, u)
      PROVE  Elsewhere
  <2>1. /\ Goes(t, <<"login", u>>) \/ Goes(t, <<"verify", u>>) \/ Goes(t, <<"issuing", u>>)
        /\ thread[t][1] = "idle"
        /\ UNCHANGED <<sessions, active, worker, reaper, mutex>>
    BY <1>2 DEF Register, StartLogin, StartChallenge, Doing
  <2>2. /\ <<"login", u>>[1] \notin {"handle", "join"}
        /\ <<"verify", u>>[1] \notin {"handle", "join"}
        /\ <<"issuing", u>>[1] \notin {"handle", "join"}
    OBVIOUS
  <2> QED
    BY <2>1, <2>2, <1>a
<1>3. ASSUME NEW t \in Threads, NEW u \in Users, NEW id, PeekChallenge(t, u, id)
      PROVE  Elsewhere
  <2> DEFINE x == <<"peeked", u, id,
                    {c \in outstanding : c.id = id /\ clock <= c.expires}>>
  <2>1. /\ Goes(t, x) /\ thread[t][1] = "idle"
        /\ UNCHANGED <<sessions, active, worker, reaper, mutex>>
    BY <1>3 DEF PeekChallenge, Doing
  <2>2. x[1] \notin {"handle", "join"}
    OBVIOUS
  <2> HIDE DEF x
  <2> QED
    BY <2>1, <2>2, <1>a
<1>5. ASSUME NEW t \in Threads, ConsumeChallenge(t) PROVE Elsewhere
  <2> DEFINE x == <<"judged", thread[t][2], \E c \in thread[t][4] : c.user = thread[t][2]>>
  <2>1. /\ Goes(t, x) /\ thread[t][1] = "peeked"
        /\ UNCHANGED <<sessions, active, worker, reaper, mutex>>
    BY <1>5 DEF ConsumeChallenge, Doing
  <2>2. x[1] \notin {"handle", "join"}
    OBVIOUS
  <2> HIDE DEF x
  <2> QED
    BY <2>1, <2>2, <1>a
<1>4. ASSUME NEW t \in Threads, VerifyPassword(t) \/ VerifyChallenge(t) \/ IssueChallenge(t)
      PROVE  Elsewhere
  <2> DEFINE v == thread[t][2]
  <2>1. /\ Goes(t, Idle) \/ Goes(t, <<"login", v>>)
        /\ thread[t][1] \in {"verify", "judged", "issuing"}
        /\ UNCHANGED <<sessions, active, worker, reaper, mutex>>
    BY <1>4 DEF VerifyPassword, VerifyChallenge, IssueChallenge, Doing
  <2>2. /\ <<"login", v>>[1] \notin {"handle", "join"}
        /\ Idle[1] \notin {"handle", "join"}
    BY DEF Idle
  <2> HIDE DEF v
  <2> QED
    BY <2>1, <2>2, <1>a
<1> QED
  BY <1>1, <1>2, <1>3, <1>4, <1>5 DEF Next

\* The reaper holds the mutex exactly while it looks at the sessions.
LEMMA ReaperStep ==
    ASSUME Shapes, [Next]_vars
    PROVE  ReaperShapes'
<1> USE DEF Shapes, ReaperShapes
<1>a. clock \in Nat /\ Idle[1] = "idle"
  BY Constants DEF AuthShapes, Idle
<1>b. UNCHANGED <<reaper, mutex>> => ReaperShapes'
  OBVIOUS
<1>1. ASSUME NEW t \in Threads,
             \/ Login(t) \/ Logout(t) \/ Release(t) \/ Joined(t)
             \/ \E k \in Tokens : Touch(t, k)
      PROVE  UNCHANGED <<reaper, mutex>>
  BY <1>1 DEF Login, Logout, Release, Joined, Touch
<1>2. ASSUME NEW k \in Tokens, WorkerCalls(k) \/ CallbackDone(k) \/ WorkerEnds(k)
      PROVE  UNCHANGED <<reaper, mutex>>
  BY <1>2 DEF WorkerCalls, CallbackDone, WorkerEnds
<1>3. CASE ReapStart
  BY <1>3, <1>a DEF ReapStart
<1>4. CASE ReapLock
  BY <1>4, <1>a DEF ReapLock
<1>5. CASE ReapOne
  <2>1. PICK now \in Nat : reaper = <<"scan", now>>
    BY <1>5, <1>a DEF ReapOne
  <2>2. /\ mutex' = mutex /\ reaper[2] = now
        /\ reaper' = reaper \/ \E k \in Tokens : reaper' = <<"join", now, k>>
    BY <1>5, <2>1 DEF ReapOne, SessionShapes
  <2> QED
    BY <2>1, <2>2, <1>b
<1>6. CASE ReapJoined
  <2>1. PICK now \in Nat, k \in Tokens : reaper = <<"join", now, k>>
    BY <1>6, <1>a DEF ReapJoined
  <2>2. mutex' = mutex /\ reaper[2] = now /\ reaper' = <<"scan", now>>
    BY <1>6, <2>1 DEF ReapJoined
  <2> QED
    BY <2>1, <2>2
<1>7. CASE ReapDone
  BY <1>7, <1>a DEF ReapDone
<1>8. Elsewhere => UNCHANGED <<reaper, mutex>>
  BY DEF Elsewhere
<1> QED
  BY <1>b, <1>1, <1>2, <1>3, <1>4, <1>5, <1>6, <1>7, <1>8, SessionCases

\* What Erase does.
LEMMA EraseFacts ==
    ASSUME Shapes, OneSessionPerAccount, NEW k \in DOMAIN sessions, Erase(k)
    PROVE  /\ DOMAIN sessions' = DOMAIN sessions \ {k}
           /\ \A j \in DOMAIN sessions' : sessions'[j] = sessions[j]
           /\ sessions' \in [DOMAIN sessions' -> [user : accounts, seen : Nat]]
           /\ active' \in [Users -> Tokens \cup {NoToken}]
           /\ \A u \in Users : active'[u] = IF u = sessions[k].user THEN NoToken
                                            ELSE active[u]
  BY DEF Erase, Shapes, SessionShapes, AuthShapes

\* What Stop does.
LEMMA StopFacts ==
    ASSUME Shapes, NEW k \in Tokens, Stop(k)
    PROVE  /\ worker' \in [Tokens -> WorkerStates]
           /\ \A j \in Tokens : j # k => worker'[j] = worker[j]
  BY DEF Stop, Shapes, SessionShapes, WorkerStates

\* What login does, in its three cases.
LEMMA LoginFacts ==
    ASSUME Shapes, NEW u \in accounts,
           \/ Reattach(u) \/ Open(u) \/ Refuse(u)
    PROVE  \/ /\ UNCHANGED <<active, worker>>
              /\ DOMAIN sessions' = DOMAIN sessions
              /\ sessions' \in [DOMAIN sessions -> [user : accounts, seen : Nat]]
              /\ \A j \in DOMAIN sessions : sessions'[j].user = sessions[j].user
           \/ /\ active[u] \notin DOMAIN sessions
              /\ UNCHANGED <<sessions, worker>>
              /\ active' = [active EXCEPT ![u] = NoToken]
           \/ \E k \in Tokens :
              /\ active[u] \notin DOMAIN sessions
              /\ Cardinality(DOMAIN sessions) < MaxSessions
              /\ worker[k] = "none" /\ worker' = [worker EXCEPT ![k] = "running"]
              /\ DOMAIN sessions' = DOMAIN sessions \cup {k}
              /\ sessions' \in [DOMAIN sessions' -> [user : accounts, seen : Nat]]
              /\ sessions'[k].user = u
              /\ \A j \in DOMAIN sessions : j # k => sessions'[j] = sessions[j]
              /\ active' = [active EXCEPT ![u] = k]
<1>a. clock \in Nat /\ u \in Users
  BY Constants DEF Shapes, AuthShapes
<1>1. CASE Reattach(u)
  BY <1>1, <1>a DEF Reattach, Shapes, SessionShapes
<1>2. CASE Refuse(u)
  BY <1>2 DEF Refuse
<1>3. CASE Open(u)
  <2>1. PICK k \in Tokens :
           /\ worker[k] = "none"
           /\ sessions' = [j \in DOMAIN sessions \cup {k} |->
                              IF j = k THEN [user |-> u, seen |-> clock]
                              ELSE sessions[j]]
           /\ active' = [active EXCEPT ![u] = k]
           /\ worker' = [worker EXCEPT ![k] = "running"]
    BY <1>3 DEF Open
  <2>2. /\ DOMAIN sessions' = DOMAIN sessions \cup {k}
        /\ sessions' \in [DOMAIN sessions' -> [user : accounts, seen : Nat]]
        /\ sessions'[k].user = u
        /\ \A j \in DOMAIN sessions : j # k => sessions'[j] = sessions[j]
    BY <2>1, <1>a DEF Shapes, SessionShapes
  <2> QED
    BY <1>3, <2>1, <2>2 DEF Open
<1> QED
  BY <1>1, <1>2, <1>3

\* One session for an account, and no client is stopped that is referred to;
\* with it the types of sessions and clients.
LEMMA SessionsStep ==
    ASSUME Shapes, SessionsInv, [Next]_vars
    PROVE  SessionShapes' /\ SessionsInv'
<1> DEFINE
      Shaped == /\ DOMAIN sessions' \subseteq Tokens
                /\ sessions' \in [DOMAIN sessions' -> [user : accounts, seen : Nat]]
                /\ active' \in [Users -> Tokens \cup {NoToken}]
                /\ worker' \in [Tokens -> WorkerStates]
      Attached == /\ \A k \in DOMAIN sessions' : active'[sessions'[k].user] = k
                  /\ \A u \in Users : active'[u] # NoToken =>
                        /\ active'[u] \in DOMAIN sessions'
                        /\ sessions'[active'[u]].user = u
      Served == \A k \in DOMAIN sessions' : worker'[k] \in {"running", "callback"}
      Held == \A t \in Threads, k \in Tokens :
                 thread'[t][1] = "handle" /\ thread'[t][2] = k
                     => worker'[k] \in {"running", "callback"}
      Goal == Shaped /\ Attached /\ Served /\ Held
<1>a. /\ DOMAIN sessions \subseteq Tokens
      /\ sessions \in [DOMAIN sessions -> [user : accounts, seen : Nat]]
      /\ active \in [Users -> Tokens \cup {NoToken}]
      /\ worker \in [Tokens -> WorkerStates]
      /\ accounts \subseteq Users
      /\ \A k \in DOMAIN sessions : active[sessions[k].user] = k
      /\ \A u \in Users : active[u] # NoToken => /\ active[u] \in DOMAIN sessions
                                                /\ sessions[active[u]].user = u
      /\ \A k \in DOMAIN sessions : worker[k] \in {"running", "callback"}
      /\ \A t \in Threads, k \in Tokens :
            thread[t][1] = "handle" /\ thread[t][2] = k
                => worker[k] \in {"running", "callback"}
  BY DEF Shapes, SessionShapes, AuthShapes, SessionsInv, OneSessionPerAccount,
     Serving, Holds, Doing
<1>1. ASSUME Elsewhere PROVE Goal
  BY <1>1, <1>a DEF Elsewhere
<1>2. ASSUME NEW t \in Threads, Login(t) PROVE Goal
  <2> DEFINE u == thread[t][2]
  <2>1. /\ u \in accounts /\ u \in Users
        /\ Reattach(u) \/ Open(u) \/ Refuse(u)
    BY <1>2, <1>a, TaskFacts DEF Login
  <2>2. /\ thread'[t] = Idle
        /\ \A o \in Threads : o # t => thread'[o] = thread[o]
    BY <1>2, GoesFacts DEF Login
  <2>3. Idle[1] # "handle"
    BY DEF Idle
  <2> HIDE DEF u
  <2>4. CASE /\ UNCHANGED <<active, worker>>
             /\ DOMAIN sessions' = DOMAIN sessions
             /\ sessions' \in [DOMAIN sessions -> [user : accounts, seen : Nat]]
             /\ \A j \in DOMAIN sessions : sessions'[j].user = sessions[j].user
    <3>1. Shaped /\ Served
      BY <2>4, <1>a
    <3>2. Attached
      BY <2>4, <1>a
    <3>3. Held
      BY <2>2, <2>3, <2>4, <1>a
    <3> QED
      BY <3>1, <3>2, <3>3
  <2>5. CASE /\ active[u] \notin DOMAIN sessions
             /\ UNCHANGED <<sessions, worker>>
             /\ active' = [active EXCEPT ![u] = NoToken]
    <3>1. Shaped /\ Served
      BY <2>1, <2>5, <1>a
    <3>2. Attached
      BY <2>1, <2>5, <1>a, Constants
    <3>3. Held
      BY <2>2, <2>3, <2>5, <1>a
    <3> QED
      BY <3>1, <3>2, <3>3
  <2>6. ASSUME NEW k \in Tokens,
               active[u] \notin DOMAIN sessions,
               worker[k] = "none", worker' = [worker EXCEPT ![k] = "running"],
               DOMAIN sessions' = DOMAIN sessions \cup {k},
               sessions' \in [DOMAIN sessions' -> [user : accounts, seen : Nat]],
               sessions'[k].user = u,
               \A j \in DOMAIN sessions : j # k => sessions'[j] = sessions[j],
               active' = [active EXCEPT ![u] = k]
        PROVE  Goal
    <3>1. k \notin DOMAIN sessions
      BY <2>6, <1>a
    <3>2. \A j \in DOMAIN sessions : sessions[j].user # u
      BY <2>6, <1>a
    <3>3. Shaped
      BY <2>1, <2>6, <1>a DEF WorkerStates
    <3>4. Served
      BY <2>6, <1>a
    <3>5. Attached
      <4>1. \A j \in DOMAIN sessions : j # k /\ sessions'[j].user = sessions[j].user
        BY <2>6, <3>1
      <4>2. /\ active'[u] = k
            /\ \A v \in Users : v # u => active'[v] = active[v]
        BY <2>1, <2>6, <1>a
      <4>3. \A j \in DOMAIN sessions : sessions[j].user \in Users
        BY <1>a
      <4>4. \A j \in DOMAIN sessions' : active'[sessions'[j].user] = j
        BY <2>6, <3>2, <4>1, <4>2, <4>3, <1>a
      <4> QED
        BY <2>6, <4>2, <4>4, <1>a
    <3>6. Held
      BY <2>2, <2>3, <2>6, <1>a
    <3> QED
      BY <3>3, <3>4, <3>5, <3>6
  <2> HIDE DEF Goal
  <2> QED
    BY <2>1, <2>4, <2>5, <2>6, LoginFacts
<1>3. ASSUME NEW t \in Threads, NEW k \in Tokens, Touch(t, k) PROVE Goal
  <2>1. /\ thread'[t] = <<"handle", k>>
        /\ \A o \in Threads : o # t => thread'[o] = thread[o]
    BY <1>3, GoesFacts DEF Touch
  <2>2. /\ k \in DOMAIN sessions /\ UNCHANGED <<active, worker>>
        /\ DOMAIN sessions' = DOMAIN sessions
        /\ sessions' \in [DOMAIN sessions -> [user : accounts, seen : Nat]]
        /\ \A j \in DOMAIN sessions : sessions'[j].user = sessions[j].user
    <3>1. clock \in Nat
      BY Constants DEF Shapes, AuthShapes
    <3>2. k \in DOMAIN sessions /\ UNCHANGED <<active, worker>>
          /\ sessions' = [sessions EXCEPT ![k].seen = clock]
      BY <1>3 DEF Touch
    <3> QED
      BY <3>1, <3>2, <1>a
  <2>3. Shaped /\ Served
    BY <2>2, <1>a
  <2>4. Attached
    BY <2>2, <1>a
  <2>5. Held
    BY <2>1, <2>2, <1>a
  <2> QED
    BY <2>3, <2>4, <2>5
<1>b. ASSUME NEW k \in DOMAIN sessions, Erase(k) PROVE Attached
  <2>1. /\ DOMAIN sessions' = DOMAIN sessions \ {k}
        /\ \A j \in DOMAIN sessions' : sessions'[j] = sessions[j]
        /\ \A u \in Users : active'[u] = IF u = sessions[k].user THEN NoToken
                                         ELSE active[u]
    BY <1>b, EraseFacts DEF SessionsInv
  <2>2. \A j \in DOMAIN sessions' :
           sessions[j].user # sessions[k].user /\ sessions[j].user \in Users
    BY <2>1, <1>a
  <2>4. ASSUME NEW u \in Users, active'[u] # NoToken
        PROVE  active'[u] \in DOMAIN sessions' /\ sessions'[active'[u]].user = u
    <3>1. u # sessions[k].user /\ active'[u] = active[u]
      BY <2>1, <2>4
    <3>2. active[u] \in DOMAIN sessions /\ sessions[active[u]].user = u
      BY <3>1, <2>4, <1>a
    <3> QED
      BY <3>1, <3>2, <2>1, <1>a
  <2> QED
    BY <2>1, <2>2, <2>4, <1>a
<1>4. ASSUME NEW t \in Threads, Logout(t) PROVE Goal
  <2>1. thread[t][2] \in DOMAIN sessions /\ Erase(thread[t][2])
        /\ UNCHANGED <<worker, thread>>
    BY <1>4 DEF Logout
  <2>2. Attached
    BY <2>1, <1>b
  <2>3. /\ DOMAIN sessions' = DOMAIN sessions \ {thread[t][2]}
        /\ sessions' \in [DOMAIN sessions' -> [user : accounts, seen : Nat]]
        /\ active' \in [Users -> Tokens \cup {NoToken}]
    BY <2>1, EraseFacts DEF SessionsInv
  <2>4. Shaped /\ Served
    BY <2>1, <2>3, <1>a
  <2>5. Held
    BY <2>1, <1>a
  <2> QED
    BY <2>2, <2>4, <2>5
<1>5. ASSUME NEW t \in Threads, Release(t) PROVE Goal
  <2> DEFINE k == thread[t][2]
  <2>1. k \in Tokens /\ thread[t] = <<"handle", k>>
    BY <1>5, TaskFacts DEF Release
  <2>2. UNCHANGED <<sessions, active>>
    BY <1>5 DEF Release
  <2>3. Attached
    BY <2>2, <1>a
  <2>4. CASE LastReference(t, k)
    <3>1. Stop(k) /\ Goes(t, <<"join", k>>)
      BY <1>5, <2>4 DEF Release
    <3>2. /\ k \notin DOMAIN sessions
          /\ \A o \in Threads : o # t => ~(thread[o][1] = "handle" /\ thread[o][2] = k)
      BY <2>4 DEF LastReference, Holds, Doing
    <3> HIDE DEF k
    <3>3. /\ thread'[t] = <<"join", k>>
          /\ \A o \in Threads : o # t => thread'[o] = thread[o]
      BY <3>1, GoesFacts
    <3>4. /\ worker' \in [Tokens -> WorkerStates]
          /\ \A j \in Tokens : j # k => worker'[j] = worker[j]
      BY <2>1, <3>1, StopFacts
    <3>5. Shaped /\ Served
      BY <2>2, <3>2, <3>4, <1>a
    <3>6. Held
      BY <3>2, <3>3, <3>4, <1>a
    <3> QED
      BY <2>3, <3>5, <3>6
  <2>5. CASE ~LastReference(t, k)
    <3>1. worker' = worker /\ Goes(t, Idle)
      BY <1>5, <2>5 DEF Release
    <3>2. /\ thread'[t] = Idle /\ Idle[1] # "handle"
          /\ \A o \in Threads : o # t => thread'[o] = thread[o]
      BY <3>1, GoesFacts DEF Idle
    <3> QED
      BY <2>2, <2>3, <3>1, <3>2, <1>a
  <2> QED
    BY <2>4, <2>5
<1>6. ASSUME NEW t \in Threads, Joined(t) PROVE Goal
  <2>1. /\ thread'[t] = Idle /\ Idle[1] # "handle"
        /\ \A o \in Threads : o # t => thread'[o] = thread[o]
        /\ UNCHANGED <<sessions, active, worker>>
    BY <1>6, GoesFacts DEF Joined, Idle
  <2> QED
    BY <2>1, <1>a
<1>7. ASSUME ReapStart \/ ReapLock \/ ReapJoined \/ ReapDone PROVE Goal
  <2>1. UNCHANGED <<sessions, active, worker, thread>>
    BY <1>7 DEF ReapStart, ReapLock, ReapJoined, ReapDone
  <2> QED
    BY <2>1, <1>a
<1>8. ASSUME ReapOne PROVE Goal
  <2>1. PICK k \in DOMAIN sessions :
           /\ Erase(k) /\ thread' = thread
           /\ \/ worker' = worker
              \/ Stop(k) /\ \A t \in Threads : ~Holds(t, k)
    BY <1>8 DEF ReapOne
  <2>2. Attached
    BY <2>1, <1>b
  <2>3. k \in Tokens /\ DOMAIN sessions' = DOMAIN sessions \ {k}
        /\ sessions' \in [DOMAIN sessions' -> [user : accounts, seen : Nat]]
        /\ active' \in [Users -> Tokens \cup {NoToken}]
    BY <2>1, <1>a, EraseFacts DEF SessionsInv
  <2>4. CASE worker' = worker
    BY <2>1, <2>2, <2>3, <2>4, <1>a
  <2>5. CASE Stop(k) /\ \A t \in Threads : ~Holds(t, k)
    <3>1. /\ worker' \in [Tokens -> WorkerStates]
          /\ \A j \in Tokens : j # k => worker'[j] = worker[j]
      BY <2>3, <2>5, StopFacts
    <3>2. \A t \in Threads : ~(thread[t][1] = "handle" /\ thread[t][2] = k)
      BY <2>5 DEF Holds, Doing
    <3>3. Shaped /\ Served
      BY <2>3, <3>1, <1>a
    <3>4. Held
      BY <2>1, <3>1, <3>2, <1>a
    <3> QED
      BY <2>2, <3>3, <3>4
  <2> QED
    BY <2>1, <2>4, <2>5
<1>9. ASSUME NEW k \in Tokens, WorkerCalls(k) \/ CallbackDone(k) \/ WorkerEnds(k)
      PROVE  Goal
  <2>1. UNCHANGED <<sessions, active, thread>>
    BY <1>9 DEF WorkerCalls, CallbackDone, WorkerEnds
  <2>2. /\ worker' \in [Tokens -> WorkerStates]
        /\ \A j \in Tokens : worker[j] \in {"running", "callback"}
                                => worker'[j] \in {"running", "callback"}
    BY <1>9, <1>a DEF WorkerCalls, CallbackDone, WorkerEnds, WorkerStates
  <2> QED
    BY <2>1, <2>2, <1>a
<1>10. Goal
  <2> HIDE DEF Goal
  <2> QED
    BY <1>1, <1>2, <1>3, <1>4, <1>5, <1>6, <1>7, <1>8, <1>9, SessionCases
<1>11. accounts \subseteq accounts'
  BY AccountsGrow
<1>12. SessionShapes'
  <2>1. [user : accounts, seen : Nat] \subseteq [user : accounts', seen : Nat]
    BY <1>11
  <2> QED
    BY <1>10, <2>1 DEF SessionShapes
<1> QED
  BY <1>10, <1>12 DEF SessionsInv, OneSessionPerAccount, Serving, Holds, Doing

\* Whoever drops a reference that is the last one stays to stop the client.
LEMMA LeaksStep ==
    ASSUME Shapes, SessionsInv, LeaksInv, [Next]_vars
    PROVE  LeaksInv'
<1> DEFINE
      Was(k) == \/ k \in DOMAIN sessions
                \/ \E t \in Threads : \/ thread[t][1] = "handle" /\ thread[t][2] = k
                                      \/ thread[t] = <<"join", k>>
                \/ reaper[1] = "join" /\ reaper[3] = k
      Is(k) == \/ k \in DOMAIN sessions'
               \/ \E t \in Threads : \/ thread'[t][1] = "handle" /\ thread'[t][2] = k
                                     \/ thread'[t] = <<"join", k>>
               \/ reaper'[1] = "join" /\ reaper'[3] = k
<1> SUFFICES ASSUME NEW k \in Tokens, worker'[k] \notin {"none", "ended"}
             PROVE  Is(k)
  BY DEF LeaksInv, Live, Kept, Holds, Doing
<1>a. worker[k] \notin {"none", "ended"} => Was(k)
  BY DEF LeaksInv, Live, Kept, Holds, Doing
<1>1. ASSUME Elsewhere PROVE Is(k)
  <2>1. <<"join", k>>[1] = "join"
    OBVIOUS
  <2>2. Was(k) => Is(k)
    BY <1>1, <2>1 DEF Elsewhere
  <2> QED
    BY <1>1, <2>2, <1>a DEF Elsewhere
<1>2. ASSUME NEW t \in Threads, Login(t) PROVE Is(k)
  <2> DEFINE u == thread[t][2]
  <2>1. /\ u \in accounts /\ (Reattach(u) \/ Open(u) \/ Refuse(u))
        /\ thread[t][1] = "login" /\ reaper' = reaper
    BY <1>2, TaskFacts DEF Login, Doing
  <2>2. \A o \in Threads : o # t => thread'[o] = thread[o]
    BY <1>2, GoesFacts DEF Login
  <2>3. /\ DOMAIN sessions \subseteq DOMAIN sessions'
        /\ k \in DOMAIN sessions' \/ worker'[k] = worker[k]
    <3>1. worker \in [Tokens -> WorkerStates]
      BY DEF Shapes, SessionShapes
    <3> HIDE DEF u
    <3> QED
      BY <2>1, <3>1, LoginFacts, ZenonT(40)
  <2>4. <<"join", k>>[1] = "join"
    OBVIOUS
  <2>5. Was(k) => Is(k)
    BY <2>1, <2>2, <2>3, <2>4
  <2> QED
    BY <2>3, <2>5, <1>a
<1>3. ASSUME NEW t \in Threads, NEW j \in Tokens, Touch(t, j) PROVE Is(k)
  <2>1. /\ thread[t][1] = "idle" /\ reaper' = reaper /\ worker' = worker
        /\ DOMAIN sessions' = DOMAIN sessions
    BY <1>3 DEF Touch, Doing, Shapes, SessionShapes
  <2>2. \A o \in Threads : o # t => thread'[o] = thread[o]
    BY <1>3, GoesFacts DEF Touch
  <2>3. <<"join", k>>[1] = "join"
    OBVIOUS
  <2>4. Was(k) => Is(k)
    BY <2>1, <2>2, <2>3
  <2> QED
    BY <2>1, <2>4, <1>a
<1>4. ASSUME NEW t \in Threads, Logout(t) PROVE Is(k)
  <2>1. /\ thread[t][1] = "handle" /\ thread' = thread
        /\ thread[t][2] \in DOMAIN sessions /\ Erase(thread[t][2])
        /\ reaper' = reaper /\ worker' = worker
    BY <1>4 DEF Logout, Doing
  <2>2. DOMAIN sessions' = DOMAIN sessions \ {thread[t][2]}
    BY <2>1, EraseFacts DEF SessionsInv
  <2> QED
    BY <2>1, <2>2, <1>a
<1>5. ASSUME NEW t \in Threads, Release(t) PROVE Is(k)
  <2> DEFINE j == thread[t][2]
  <2>1. /\ j \in Tokens /\ thread[t] = <<"handle", j>> /\ thread[t][1] = "handle"
        /\ sessions' = sessions /\ reaper' = reaper
    BY <1>5, TaskFacts DEF Release, Doing
  <2>0. <<"join", k>>[1] = "join"
    OBVIOUS
  <2>2. CASE LastReference(t, j)
    <3>1. Stop(j) /\ Goes(t, <<"join", j>>)
      BY <1>5, <2>2 DEF Release
    <3> HIDE DEF j
    <3>2. /\ thread'[t] = <<"join", j>>
          /\ \A o \in Threads : o # t => thread'[o] = thread[o]
          /\ \A i \in Tokens : i # j => worker'[i] = worker[i]
      BY <2>1, <3>1, GoesFacts, StopFacts
    <3>3. CASE k = j
      BY <3>2, <3>3
    <3>4. CASE k # j
      <4>1. Was(k)
        BY <3>2, <3>4, <1>a
      <4>2. ~(thread[t][1] = "handle" /\ thread[t][2] = k) /\ thread[t] # <<"join", k>>
        BY <2>0, <2>1, <3>4 DEF j
      <4> QED
        BY <4>1, <4>2, <2>1, <3>2
    <3> QED
      BY <3>3, <3>4
  <2>3. CASE ~LastReference(t, j)
    <3>1. worker' = worker /\ Goes(t, Idle)
      BY <1>5, <2>3 DEF Release
    <3>2. \A o \in Threads : o # t => thread'[o] = thread[o]
      BY <3>1, GoesFacts
    <3>3. \/ j \in DOMAIN sessions
          \/ \E o \in Threads : o # t /\ thread[o][1] = "handle" /\ thread[o][2] = j
      BY <2>3 DEF LastReference, Holds, Doing
    <3>4. Was(k)
      BY <3>1, <1>a
    <3>5. CASE k = j
      BY <3>2, <3>3, <3>5, <2>1
    <3>6. CASE k # j
      <4>1. ~(thread[t][1] = "handle" /\ thread[t][2] = k) /\ thread[t] # <<"join", k>>
        BY <2>0, <2>1, <3>6
      <4> QED
        BY <3>2, <3>4, <4>1, <2>1
    <3> QED
      BY <3>5, <3>6
  <2> QED
    BY <2>2, <2>3
<1>6. ASSUME NEW t \in Threads, Joined(t) PROVE Is(k)
  <2>1. /\ thread[t][1] = "join" /\ worker[thread[t][2]] = "ended"
        /\ UNCHANGED <<sessions, worker, reaper>>
        /\ \A o \in Threads : o # t => thread'[o] = thread[o]
    BY <1>6, GoesFacts DEF Joined, Doing
  <2>2. Was(k) /\ worker[k] # "ended"
    BY <2>1, <1>a
  <2>3. ~(thread[t][1] = "handle" /\ thread[t][2] = k) /\ thread[t] # <<"join", k>>
    BY <2>1, <2>2
  <2> QED
    BY <2>1, <2>2, <2>3
<1>7. ASSUME ReapStart \/ ReapLock \/ ReapDone PROVE Is(k)
  <2>1. UNCHANGED <<sessions, worker, thread>> /\ reaper[1] # "join"
    BY <1>7 DEF ReapStart, ReapLock, ReapDone, Idle
  <2> QED
    BY <2>1, <1>a
<1>8. ASSUME ReapOne PROVE Is(k)
  <2>1. PICK j \in DOMAIN sessions :
           /\ Erase(j) /\ thread' = thread
           /\ \/ /\ UNCHANGED <<worker, reaper>>
                 /\ \E t \in Threads : Holds(t, j)
              \/ Stop(j) /\ reaper' = <<"join", reaper[2], j>>
    BY <1>8 DEF ReapOne
  <2>2. DOMAIN sessions' = DOMAIN sessions \ {j} /\ j \in Tokens
        /\ reaper[1] # "join"
    BY <1>8, <2>1, EraseFacts DEF SessionsInv, Shapes, SessionShapes, ReapOne
  <2>3. CASE UNCHANGED <<worker, reaper>> /\ \E t \in Threads : Holds(t, j)
    BY <2>1, <2>2, <2>3, <1>a DEF Holds, Doing
  <2>4. CASE Stop(j) /\ reaper' = <<"join", reaper[2], j>>
    <3>1. \A i \in Tokens : i # j => worker'[i] = worker[i]
      BY <2>2, <2>4, StopFacts
    <3> QED
      BY <2>1, <2>2, <2>4, <3>1, <1>a
  <2> QED
    BY <2>1, <2>3, <2>4
<1>9. ASSUME ReapJoined PROVE Is(k)
  <2>1. /\ UNCHANGED <<sessions, worker, thread>>
        /\ worker[reaper[3]] = "ended"
    BY <1>9 DEF ReapJoined
  <2>2. Was(k) /\ reaper[3] # k
    BY <2>1, <1>a
  <2> QED
    BY <2>1, <2>2
<1>10. ASSUME NEW j \in Tokens, WorkerCalls(j) \/ CallbackDone(j) \/ WorkerEnds(j)
       PROVE  Is(k)
  <2>1. /\ UNCHANGED <<sessions, reaper, thread>>
        /\ worker[k] \notin {"none", "ended"}
    BY <1>10 DEF WorkerCalls, CallbackDone, WorkerEnds, Shapes, SessionShapes
  <2> QED
    BY <2>1, <1>a
<1> HIDE DEF Is
<1>11. Is(k)
  BY <1>1, <1>2, <1>3, <1>4, <1>5, <1>6, <1>7, <1>8, <1>9, <1>10, SessionCases
<1> QED
  BY <1>11 DEF Is

\* A session's place is free again only when its client is closed.
LEMMA RoomStep ==
    ASSUME Shapes, SessionsInv, RoomInv, [Next]_vars
    PROVE  RoomInv'
<1>a. /\ IsFiniteSet(DOMAIN sessions) /\ Cardinality(DOMAIN sessions) \in Nat
      /\ MaxSessions \in Nat
  <2>1. IsFiniteSet(Tokens)
    BY FS_Interval, Constants DEF Tokens
  <2> QED
    BY <2>1, FS_Subset, FS_CardinalityType, Constants DEF Shapes, SessionShapes
<1>b. /\ Closing \in {0, 1} /\ Closing' \in {0, 1}
      /\ Closing = 1 <=> reaper[1] = "join"
      /\ Closing' = 1 <=> reaper'[1] = "join"
      /\ Cardinality(DOMAIN sessions) + Closing <= MaxSessions
  BY DEF Closing, RoomInv
<1>c. ASSUME reaper' = reaper PROVE Closing' = Closing
  BY <1>c DEF Closing
<1>d. ASSUME NEW k \in DOMAIN sessions, Erase(k)
      PROVE  Cardinality(DOMAIN sessions') = Cardinality(DOMAIN sessions) - 1
  <2>1. DOMAIN sessions' = DOMAIN sessions \ {k}
    BY <1>d, EraseFacts DEF SessionsInv
  <2>2. Cardinality(DOMAIN sessions \ {k}) = Cardinality(DOMAIN sessions) - 1
    BY <1>d, <1>a, FS_RemoveElement
  <2> QED
    BY <2>1, <2>2
<1>1. ASSUME reaper' = reaper, DOMAIN sessions' = DOMAIN sessions PROVE RoomInv'
  BY <1>1, <1>b, <1>c DEF RoomInv
<1>2. ASSUME NEW t \in Threads, Login(t) PROVE RoomInv'
  <2> DEFINE u == thread[t][2]
  <2>1. /\ u \in accounts /\ (Reattach(u) \/ Open(u) \/ Refuse(u))
        /\ mutex = "free" /\ reaper' = reaper
    BY <1>2, TaskFacts DEF Login
  <2>2. Closing = 0
    BY <2>1, <1>b DEF Shapes, ReaperShapes
  <2>3. \/ DOMAIN sessions' = DOMAIN sessions
        \/ \E k : /\ DOMAIN sessions' = DOMAIN sessions \cup {k}
                  /\ Cardinality(DOMAIN sessions) < MaxSessions
    BY <2>1, LoginFacts
  <2>4. ASSUME NEW k, DOMAIN sessions' = DOMAIN sessions \cup {k},
               Cardinality(DOMAIN sessions) < MaxSessions
        PROVE  RoomInv'
    <3>1. \/ Cardinality(DOMAIN sessions') = Cardinality(DOMAIN sessions)
          \/ Cardinality(DOMAIN sessions') = Cardinality(DOMAIN sessions) + 1
      BY <2>4, <1>a, FS_AddElement
    <3> QED
      BY <2>1, <2>2, <2>4, <3>1, <1>a, <1>c DEF RoomInv
  <2> QED
    BY <2>1, <2>3, <2>4, <1>1
<1>3. ASSUME NEW t \in Threads, Logout(t) PROVE RoomInv'
  <2>1. /\ thread[t][2] \in DOMAIN sessions /\ Erase(thread[t][2])
        /\ reaper' = reaper
    BY <1>3 DEF Logout
  <2> QED
    BY <2>1, <1>a, <1>b, <1>c, <1>d DEF RoomInv
<1>4. ASSUME ReapOne PROVE RoomInv'
  <2>1. PICK k \in DOMAIN sessions : Erase(k)
    BY <1>4 DEF ReapOne
  <2>2. Closing = 0
    BY <1>4, <1>b DEF ReapOne
  <2> QED
    BY <2>1, <2>2, <1>a, <1>b, <1>d DEF RoomInv
<1>5. ASSUME ReapStart \/ ReapLock \/ ReapJoined \/ ReapDone PROVE RoomInv'
  <2>1. sessions' = sessions
    BY <1>5 DEF ReapStart, ReapLock, ReapJoined, ReapDone
  <2>2. Closing' = 0
    <3>1. reaper' = Idle \/ \E now : reaper' = <<"wait", now>> \/ reaper' = <<"scan", now>>
      BY <1>5 DEF ReapStart, ReapLock, ReapJoined, ReapDone
    <3>2. reaper'[1] # "join"
      BY <3>1 DEF Idle
    <3> QED
      BY <3>2, <1>b
  <2> QED
    BY <2>1, <2>2, <1>a, <1>b DEF RoomInv
<1>6. ASSUME \/ Elsewhere
             \/ \E t \in Threads : \/ Release(t) \/ Joined(t)
                                   \/ \E k \in Tokens : Touch(t, k)
             \/ \E k \in Tokens : WorkerCalls(k) \/ CallbackDone(k) \/ WorkerEnds(k)
      PROVE  reaper' = reaper /\ DOMAIN sessions' = DOMAIN sessions
  BY <1>6 DEF Elsewhere, Release, Joined, Touch, WorkerCalls, CallbackDone,
     WorkerEnds, Shapes, SessionShapes
<1> QED
  BY <1>1, <1>2, <1>3, <1>4, <1>5, <1>6, SessionCases

-----------------------------------------------------------------------------
\* The invariant holds when the server starts.
LEMMA InitInv == Init => IndInv
<1> SUFFICES ASSUME Init PROVE IndInv
  OBVIOUS
<1>1. Idle[1] = "idle" /\ \A t \in Threads : thread[t] = Idle
  BY DEF Init, Idle
<1>2. DOMAIN sessions = {} /\ Cardinality(DOMAIN sessions) = 0
  BY FS_EmptySet DEF Init
<1>3. Shapes
  <2>1. AuthShapes
    BY Constants DEF Init, AuthShapes
  <2>2. SessionShapes
    BY <1>2 DEF Init, SessionShapes, WorkerStates
  <2>3. ReaperShapes
    BY <1>1 DEF Init, ReaperShapes
  <2>4. thread \in [Threads -> Tasks]
    BY NewTasks DEF Init
  <2> QED
    BY <2>1, <2>2, <2>3, <2>4 DEF Shapes
<1>4. SessionsInv
  BY <1>1, <1>2 DEF Init, SessionsInv, OneSessionPerAccount, Holds, Doing
<1>5. LeaksInv
  BY DEF Init, LeaksInv, Live
<1>6. RoomInv
  BY <1>1, <1>2, Constants DEF Init, RoomInv, Closing
<1>7. TryingInv
  <2>1. \A u \in Users : Trying(u) = {} /\ Len(failures[u]) = 0
    BY <1>1 DEF Trying, Doing, Init
  <2>2. Cardinality({}) = 0
    BY FS_EmptySet
  <2> QED
    <3>1. ASSUME NEW u \in Users PROVE Len(failures[u]) + Cardinality(Trying(u)) = 0
      <4>1. Trying(u) = {} /\ Len(failures[u]) = 0
        BY <2>1
      <4>2. Cardinality(Trying(u)) = 0
        BY <2>2, <4>1
      <4> QED
        BY <4>1, <4>2
    <3>2. 0 <= MaxAttempts + Cardinality(Threads) - 1
      BY Constants
    <3> QED
      BY <3>1, <3>2 DEF TryingInv
<1>8. ChallengesInv
  BY <1>1 DEF Init, ChallengesInv, ChallengesTriedOnce, Doing
<1> QED
  BY <1>3, <1>4, <1>5, <1>6, <1>7, <1>8 DEF IndInv

\* Every step preserves it.
LEMMA StepInv == IndInv /\ [Next]_vars => IndInv'
<1> SUFFICES ASSUME IndInv, [Next]_vars PROVE IndInv'
  OBVIOUS
<1> USE DEF IndInv
<1>1. AuthShapes' /\ ReaperShapes' /\ thread' \in [Threads -> Tasks']
  BY AuthStep, ReaperStep, ThreadsStep
<1>2. SessionShapes' /\ SessionsInv'
  BY SessionsStep
<1>3. Shapes'
  BY <1>1, <1>2 DEF Shapes
<1>4. LeaksInv' /\ RoomInv'
  BY LeaksStep, RoomStep
<1>5. TryingInv' /\ ChallengesInv'
  BY TryingStep, ChallengesStep
<1> QED
  BY <1>2, <1>3, <1>4, <1>5

\* The inductive invariant of the web client holds at all times.
THEOREM Inductive == Spec => []IndInv
  BY InitInv, StepInv, PTL DEF Spec

\* The types; among them that only accounts have login keys, that sessions have
\* running clients and that the reaper holds the mutex while it scans.
THEOREM TypeCorrect == Spec => []TypeOK
<1>1. IndInv => TypeOK
  <2> SUFFICES ASSUME IndInv PROVE TypeOK
    OBVIOUS
  <2>1. DOMAIN sessions \subseteq Live
    BY DEF IndInv, Shapes, SessionShapes, SessionsInv, Serving, Live
  <2> QED
    BY <2>1 DEF IndInv, Shapes, AuthShapes, SessionShapes, ReaperShapes, TypeOK
<1> QED
  BY <1>1, Inductive, PTL

\* Logins, logouts and the reaper, in any order on any number of threads, leave
\* each account with at most one session, which it can log out of.
THEOREM AccountsHaveOneSession == Spec => []OneSessionPerAccount
<1>1. IndInv => OneSessionPerAccount
  BY DEF IndInv, SessionsInv
<1> QED
  BY <1>1, Inductive, PTL

\* /api/login/key/verify: whatever the threads of the server do in between, no
\* second login is attempted with a challenge that was never outstanding while
\* two of them met in the tracker.
THEOREM NoChallengeTwice == Spec => []ChallengesTriedOnce
<1>1. IndInv => ChallengesTriedOnce
  BY DEF IndInv, ChallengesInv
<1> QED
  BY <1>1, Inductive, PTL

\* The limit of attempts holds up to the threads that were let through together,
\* however many there are.
THEOREM GuessesBounded == Spec => []AttemptsBounded
<1>1. IndInv => AttemptsBounded
  <2> SUFFICES ASSUME IndInv, NEW u \in Users
               PROVE  Len(failures[u]) <= MaxAttempts + Cardinality(Threads) - 1
    BY DEF AttemptsBounded
  <2>1. Trying(u) \subseteq Threads
    BY DEF Trying
  <2>2. Cardinality(Trying(u)) \in Nat
    BY <2>1, TryingFacts
  <2>3. Len(failures[u]) \in Nat
    BY DEF IndInv, Shapes, AuthShapes
  <2> QED
    BY <2>2, <2>3, Constants DEF IndInv, TryingInv
<1> QED
  BY <1>1, Inductive, PTL

\* No connection to the mediator is left behind, and there are never more of
\* them than sessions and threads: a client that is still alive without a
\* session occupies a thread of its own, or its session's place.
THEOREM ConnectionsAccounted == Spec => []NoConnectionLeaks
<1>1. IndInv => NoConnectionLeaks
  <2> SUFFICES ASSUME IndInv PROVE NoConnectionLeaks
    OBVIOUS
  <2> DEFINE R == IF reaper[1] = "join" THEN {reaper[3]} ELSE {}
             Places == DOMAIN sessions \cup R
             Bare == Live \ Places
             Serves(t, k) == Holds(t, k) \/ thread[t] = <<"join", k>>
             host == [k \in Bare |-> CHOOSE t \in Threads : Serves(t, k)]
  <2>1. IsFiniteSet(Tokens) /\ IsFiniteSet(DOMAIN sessions)
    <3>1. IsFiniteSet(Tokens)
      BY FS_Interval, Constants DEF Tokens
    <3> QED
      BY <3>1, FS_Subset DEF IndInv, Shapes, SessionShapes
  <2>2. IsFiniteSet(Places) /\ Cardinality(Places) <= MaxSessions
        /\ Cardinality(Places) \in Nat
    <3>1. Cardinality(DOMAIN sessions) \in Nat
      BY <2>1, FS_CardinalityType
    <3>2. CASE reaper[1] = "join"
      <4>1. Places = DOMAIN sessions \cup {reaper[3]}
        BY <3>2
      <4>2. /\ IsFiniteSet(Places)
            /\ Cardinality(Places) <= Cardinality(DOMAIN sessions) + 1
            /\ Cardinality(Places) \in Nat
        <5>1. /\ IsFiniteSet(Places)
              /\ \/ Cardinality(Places) = Cardinality(DOMAIN sessions)
                 \/ Cardinality(Places) = Cardinality(DOMAIN sessions) + 1
          BY <2>1, <4>1, FS_AddElement
        <5> HIDE DEF Places
        <5> QED
          BY <3>1, <5>1
      <4>3. Cardinality(DOMAIN sessions) + 1 <= MaxSessions
        BY <3>2 DEF IndInv, RoomInv, Closing
      <4> HIDE DEF Places
      <4> QED
        BY <3>1, <4>2, <4>3, Constants
    <3>3. CASE reaper[1] # "join"
      <4>1. Places = DOMAIN sessions
        BY <3>3
      <4>2. Cardinality(DOMAIN sessions) <= MaxSessions
        BY <3>1, <3>3 DEF IndInv, RoomInv, Closing
      <4> QED
        BY <2>1, <3>1, <4>1, <4>2
    <3> QED
      BY <3>2, <3>3
  <2>3. \A k \in Bare : \E t \in Threads : Serves(t, k)
    BY DEF IndInv, LeaksInv, Kept
  <2>4. \A k \in Bare : host[k] \in Threads /\ Serves(host[k], k)
    BY <2>3
  <2>5. \A j, k : \A t \in Threads : Serves(t, j) /\ Serves(t, k) => j = k
    <3> SUFFICES ASSUME NEW j, NEW k, NEW t \in Threads, Serves(t, j), Serves(t, k)
                 PROVE  j = k
      OBVIOUS
    <3>1. thread[t][2] = j
      BY DEF Holds
    <3>2. thread[t][2] = k
      BY DEF Holds
    <3> QED
      BY <3>1, <3>2
  <2>6. host \in Injection(Bare, Threads)
    <3>1. host \in [Bare -> Threads]
      BY <2>4
    <3>2. \A j, k \in Bare : host[j] = host[k] => j = k
      <4> HIDE DEF Serves, host, Bare
      <4> QED
        BY <2>4, <2>5
    <3> HIDE DEF host, Bare
    <3> QED
      BY <3>1, <3>2 DEF Injection, IsInjective
  <2>7. IsFiniteSet(Bare) /\ Cardinality(Bare) <= Cardinality(Threads)
    <3> HIDE DEF host, Bare
    <3> QED
      BY <2>6, FS_Injection, Constants
  <2>8. Cardinality(Bare) \in Nat
    BY <2>7, FS_CardinalityType
  <2>9. /\ IsFiniteSet(Places \cup Bare)
        /\ Cardinality(Places \cup Bare) <= Cardinality(Places) + Cardinality(Bare)
        /\ Cardinality(Places \cup Bare) \in Nat
    <3> HIDE DEF Places, Bare
    <3>1. /\ IsFiniteSet(Places \cup Bare)
          /\ Cardinality(Places \cup Bare) =
                Cardinality(Places) + Cardinality(Bare) - Cardinality(Places \cap Bare)
      BY <2>2, <2>7, FS_Union
    <3>2. IsFiniteSet(Places \cap Bare)
      BY <2>2, FS_Intersection
    <3>3. Cardinality(Places \cap Bare) \in Nat /\ Cardinality(Places \cup Bare) \in Nat
      BY <3>1, <3>2, FS_CardinalityType
    <3> QED
      BY <3>1, <3>3, <2>2, <2>8
  <2>10. Live \in SUBSET (Places \cup Bare)
    OBVIOUS
  <2>11. Cardinality(Live) <= Cardinality(Places \cup Bare)
         /\ Cardinality(Live) \in Nat
    <3> HIDE DEF Places, Bare
    <3> QED
      BY <2>9, <2>10, FS_Subset, FS_CardinalityType
  <2>12. Cardinality(Live) <= MaxSessions + Cardinality(Threads)
    <3> HIDE DEF Places, Bare
    <3> QED
      BY <2>2, <2>7, <2>8, <2>9, <2>11, Constants
  <2> QED
    BY <2>12 DEF IndInv, LeaksInv, Kept, NoConnectionLeaks
<1> QED
  BY <1>1, Inductive, PTL

=============================================================================

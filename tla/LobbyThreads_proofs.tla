------------------------ MODULE LobbyThreads_proofs ------------------------
(***************************************************************************)
(* What the threads of the lobby guarantee, whatever their number.  The    *)
(* first part is about the mutexes, the second about one connection, for   *)
(* any limits on its queue, its strikes and its batch.                     *)
(***************************************************************************)
EXTENDS LobbyLocks, ClientConnection, SequenceTheorems, TLAPS

-----------------------------------------------------------------------------
(***************************************************************************)
(* The mutexes of lobby.cpp cannot deadlock, for any number of threads and *)
(* rooms, as long as remove_client does not run: rooms come before         *)
(* hub_mutex_, and hub_mutex_ before the other three, in every handler.    *)
(*                                                                         *)
(* The handlers are built from Locked and \o, and so is the argument: a    *)
(* handler is Neat(n) when each lock it takes has rank n or more, a higher *)
(* rank than any mutex it then holds, and it ends with none held.          *)
(***************************************************************************)
Steps == [do : {"lock", "unlock"}, mutex : Mutexes]

Rank(m) == IF m \in Rooms THEN 1 ELSE IF m = "hub" THEN 2 ELSE 3

Locks(s, i, m) == s[i].do = "lock" /\ s[i].mutex = m
Unlocks(s, i, m) == s[i].do = "unlock" /\ s[i].mutex = m

\* A thread that holds H and has s to do holds m when it comes to step i.
HeldAt(s, H, i, m) ==
    \/ m \in H /\ \A k \in 1..(i - 1) : ~Unlocks(s, k, m)
    \/ \E j \in 1..(i - 1) : /\ Locks(s, j, m)
                             /\ \A k \in (j + 1)..(i - 1) : ~Unlocks(s, k, m)

\* Each lock ranks above what is held when it is taken ...
Ordered(s, H) ==
    \A i \in 1..Len(s) : s[i].do = "lock" =>
        \A m \in Mutexes : HeldAt(s, H, i, m) => Rank(m) < Rank(s[i].mutex)

\* ... and nothing is held at the end.
Closed(s, H) == \A m \in Mutexes : ~HeldAt(s, H, Len(s) + 1, m)

Neat(s, n) ==
    /\ s \in Seq(Steps)
    /\ Ordered(s, {}) /\ Closed(s, {})
    /\ \A i \in 1..Len(s) : s[i].do = "lock" => n <= Rank(s[i].mutex)

LocksInv ==
    /\ rest \in [Threads -> Seq(Steps)]
    /\ held \in [Threads -> SUBSET Mutexes]
    /\ \A t \in Threads : Ordered(rest[t], held[t]) /\ Closed(rest[t], held[t])

-----------------------------------------------------------------------------
\* Ranks are 1 for rooms, 2 for the hub and 3 for the rest.
LEMMA RankFacts ==
    /\ \A m : Rank(m) \in {1, 2, 3}
    /\ \A r \in Rooms : Rank(r) = 1 /\ r \in Mutexes
    /\ Rank("hub") = 2 /\ "hub" \in Mutexes
    /\ \A m \in {"persistence", "fee", "prices"} : Rank(m) = 3 /\ m \in Mutexes
  BY LocksAssumption DEF Rank, Mutexes, ImplMutexes

\* A handler that takes no lower lock takes none that is lower still.
LEMMA Weaken ==
    ASSUME NEW n \in Nat, NEW s, Neat(s, n), NEW k \in Nat, k <= n
    PROVE  Neat(s, k)
<1>1. s \in Seq(Steps) /\ \A i \in 1..Len(s) : Rank(s[i].mutex) \in Nat
  BY RankFacts DEF Neat
<1> QED
  BY <1>1 DEF Neat

\* Nothing to do is neat.
LEMMA EmptyNeat == \A n \in Nat : Neat(<<>>, n)
<1>1. <<>> \in Seq(Steps) /\ Len(<<>>) = 0
  OBVIOUS
<1> QED
  BY <1>1 DEF Neat, Ordered, Closed, HeldAt

\* One neat part after the other is neat.
LEMMA Concat ==
    ASSUME NEW n \in Nat, NEW s, NEW t, Neat(s, n), Neat(t, n)
    PROVE  Neat(s \o t, n)
<1> DEFINE u == s \o t
<1>1. s \in Seq(Steps) /\ t \in Seq(Steps)
  BY DEF Neat
<1>2. /\ Len(s) \in Nat /\ Len(t) \in Nat
      /\ u \in Seq(Steps) /\ Len(u) = Len(s) + Len(t)
      /\ \A i \in 1..Len(s) : u[i] = s[i]
      /\ \A i \in 1..Len(t) : u[Len(s) + i] = t[i]
  BY <1>1
<1> HIDE DEF u
<1>3. ASSUME NEW i \in 1..(Len(u) + 1), NEW m \in Mutexes, HeldAt(u, {}, i, m)
      PROVE  \/ i <= Len(s) /\ HeldAt(s, {}, i, m)
             \/ i > Len(s) /\ HeldAt(t, {}, i - Len(s), m)
  <2>1. PICK j \in 1..(i - 1) : /\ Locks(u, j, m)
                                /\ \A k \in (j + 1)..(i - 1) : ~Unlocks(u, k, m)
    BY <1>3 DEF HeldAt
  <2>2. CASE i <= Len(s)
    <3>1. \A k \in 1..(i - 1) : k \in 1..Len(s) /\ u[k] = s[k]
      BY <1>2, <2>2
    <3>2. Locks(s, j, m) /\ \A k \in (j + 1)..(i - 1) : ~Unlocks(s, k, m)
      BY <2>1, <3>1 DEF Locks, Unlocks
    <3> QED
      BY <2>2, <3>2 DEF HeldAt
  <2>3. CASE i > Len(s) /\ j <= Len(s)
    <3>1. j \in 1..Len(s) /\ Locks(s, j, m)
      BY <1>2, <2>1, <2>3 DEF Locks
    <3>2. \A k \in (j + 1)..Len(s) : ~Unlocks(s, k, m)
      BY <1>2, <2>1, <2>3 DEF Unlocks
    <3>3. HeldAt(s, {}, Len(s) + 1, m)
      BY <1>2, <3>1, <3>2 DEF HeldAt
    <3> QED
      BY <3>3 DEF Neat, Closed
  <2>4. CASE i > Len(s) /\ j > Len(s)
    <3>1. j - Len(s) \in 1..(i - Len(s) - 1) /\ Locks(t, j - Len(s), m)
      <4>1. j - Len(s) \in 1..Len(t) /\ j - Len(s) \in 1..(i - Len(s) - 1)
        BY <1>2, <2>1, <2>4
      <4>2. u[Len(s) + (j - Len(s))] = t[j - Len(s)] /\ Len(s) + (j - Len(s)) = j
        BY <1>2, <4>1
      <4> QED
        BY <2>1, <4>1, <4>2 DEF Locks
    <3>2. ASSUME NEW k \in (j - Len(s) + 1)..(i - Len(s) - 1)
          PROVE  ~Unlocks(t, k, m)
      <4>1. k \in 1..Len(t) /\ Len(s) + k \in (j + 1)..(i - 1)
        BY <1>2, <2>1, <2>4
      <4> QED
        BY <1>2, <2>1, <4>1 DEF Unlocks
    <3> QED
      BY <1>2, <2>4, <3>1, <3>2 DEF HeldAt
  <2> QED
    BY <1>2, <2>1, <2>2, <2>3, <2>4
<1>4. ASSUME NEW i \in 1..Len(u), u[i].do = "lock"
      PROVE  /\ n <= Rank(u[i].mutex)
             /\ \A m \in Mutexes : HeldAt(u, {}, i, m) => Rank(m) < Rank(u[i].mutex)
  <2>1. CASE i <= Len(s)
    BY <1>2, <1>3, <1>4, <2>1 DEF Neat, Ordered
  <2>2. CASE i > Len(s)
    <3>1. i - Len(s) \in 1..Len(t) /\ Len(s) + (i - Len(s)) = i
      BY <1>2, <2>2
    <3>2. u[i] = t[i - Len(s)]
      BY <1>2, <3>1
    <3>3. \A m \in Mutexes : HeldAt(u, {}, i, m) => HeldAt(t, {}, i - Len(s), m)
      BY <1>2, <1>3, <2>2
    <3>4. t[i - Len(s)].do = "lock"
      BY <1>4, <3>2
    <3> QED
      BY <3>1, <3>2, <3>3, <3>4 DEF Neat, Ordered
  <2> QED
    BY <1>2, <2>1, <2>2
<1>5. ASSUME NEW m \in Mutexes, HeldAt(u, {}, Len(u) + 1, m)
      PROVE  FALSE
  <2>1. HeldAt(t, {}, Len(t) + 1, m)
    <3>1. Len(u) + 1 > Len(s) /\ Len(u) + 1 - Len(s) = Len(t) + 1
          /\ Len(u) + 1 \in 1..(Len(u) + 1)
      BY <1>2
    <3> QED
      BY <1>2, <1>3, <1>5, <3>1
  <2> QED
    BY <2>1 DEF Neat, Closed
<1> QED
  BY <1>2, <1>4, <1>5 DEF Neat, Ordered, Closed, u

\* A critical section around higher locks is neat.
LEMMA Around ==
    ASSUME NEW n \in Nat, NEW b, Neat(b, n), NEW m \in Mutexes, Rank(m) < n
    PROVE  Neat(Locked(m, b), Rank(m))
<1> DEFINE s == Locked(m, b)
           l == [do |-> "lock", mutex |-> m]
           u == [do |-> "unlock", mutex |-> m]
<1>1. /\ b \in Seq(Steps) /\ Len(b) \in Nat
      /\ l \in Steps /\ u \in Steps
      /\ Rank(m) \in Nat /\ \A i : Rank(b[i].mutex) \in Nat
  BY RankFacts DEF Neat, Steps
<1>2. /\ s \in Seq(Steps) /\ Len(s) = Len(b) + 2
      /\ s[1] = l /\ s[Len(b) + 2] = u
      /\ \A i \in 1..Len(b) : s[i + 1] = b[i]
  <2> DEFINE f == <<l>> \o b
  <2>1. /\ f \in Seq(Steps) /\ Len(f) = Len(b) + 1
        /\ f[1] = l /\ \A i \in 1..Len(b) : f[i + 1] = b[i]
    BY <1>1
  <2>2. s = f \o <<u>>
    BY DEF Locked
  <2> HIDE DEF f, s
  <2>3. /\ s \in Seq(Steps) /\ Len(s) = Len(f) + 1
        /\ s[Len(f) + 1] = u /\ \A i \in 1..Len(f) : s[i] = f[i]
    BY <1>1, <2>1, <2>2
  <2> QED
    BY <1>1, <2>1, <2>3, SMTT(30)
<1> HIDE DEF s
<1>3. ASSUME NEW k \in 1..(Len(b) + 1), NEW x \in Mutexes,
             NEW j \in 2..k, Locks(s, j, x),
             \A i \in (j + 1)..k : ~Unlocks(s, i, x)
      PROVE  HeldAt(b, {}, k, x)
  <2>1. j - 1 \in 1..(k - 1) /\ j - 1 \in 1..Len(b) /\ (j - 1) + 1 = j
    BY <1>1
  <2>2. s[j] = b[j - 1]
    BY <1>2, <2>1
  <2>3. Locks(b, j - 1, x)
    BY <1>3, <2>2 DEF Locks
  <2>4. ASSUME NEW i \in ((j - 1) + 1)..(k - 1)
        PROVE  ~Unlocks(b, i, x)
    <3>1. i + 1 \in (j + 1)..k /\ i \in 1..Len(b)
      BY <1>1, <2>1, SMTT(30)
    <3> QED
      BY <1>2, <1>3, <3>1 DEF Unlocks
  <2> QED
    BY <2>1, <2>3, <2>4 DEF HeldAt
<1>4. ASSUME NEW i \in 1..Len(s), s[i].do = "lock"
      PROVE  /\ Rank(m) <= Rank(s[i].mutex)
             /\ \A x \in Mutexes : HeldAt(s, {}, i, x) => Rank(x) < Rank(s[i].mutex)
  <2>1. CASE i = 1
    BY <1>1, <1>2, <2>1 DEF HeldAt
  <2>2. CASE i = Len(b) + 2
    BY <1>2, <1>4, <2>2
  <2>3. CASE i # 1 /\ i # Len(b) + 2
    <3>1. i - 1 \in 1..Len(b) /\ (i - 1) + 1 = i
      BY <1>1, <1>2, <2>3
    <3>2. s[i] = b[i - 1]
      BY <1>2, <3>1
    <3>3. n <= Rank(s[i].mutex)
      BY <1>4, <3>1, <3>2 DEF Neat
    <3>4. ASSUME NEW x \in Mutexes, HeldAt(s, {}, i, x)
          PROVE  Rank(x) < Rank(s[i].mutex)
      <4>1. PICK j \in 1..(i - 1) : /\ Locks(s, j, x)
                                    /\ \A k \in (j + 1)..(i - 1) : ~Unlocks(s, k, x)
        BY <3>4 DEF HeldAt
      <4>2. CASE j = 1
        BY <1>1, <1>2, <3>2, <3>3, <4>1, <4>2 DEF Locks
      <4>3. CASE j # 1
        <5>1. i - 1 \in 1..(Len(b) + 1) /\ j \in 2..(i - 1)
          BY <1>1, <3>1, <4>1, <4>3
        <5>2. HeldAt(b, {}, i - 1, x)
          BY <1>3, <4>1, <5>1
        <5> QED
          BY <1>4, <3>1, <3>2, <5>2 DEF Neat, Ordered
      <4> QED
        BY <4>2, <4>3
    <3> QED
      BY <1>1, <3>2, <3>3, <3>4
  <2> QED
    BY <2>1, <2>2, <2>3
<1>5. ASSUME NEW x \in Mutexes, HeldAt(s, {}, Len(s) + 1, x)
      PROVE  FALSE
  <2>1. PICK j \in 1..(Len(b) + 2) : /\ Locks(s, j, x)
                                     /\ \A k \in (j + 1)..(Len(b) + 2) : ~Unlocks(s, k, x)
    <3>1. (Len(s) + 1) - 1 = Len(b) + 2
      BY <1>1, <1>2
    <3> QED
      BY <1>5, <3>1 DEF HeldAt
  <2>2. j # Len(b) + 2
    BY <1>2, <2>1 DEF Locks
  <2>3. CASE j = 1
    <3>1. x = m /\ Len(b) + 2 \in (j + 1)..(Len(b) + 2)
      BY <1>1, <1>2, <2>1, <2>3 DEF Locks
    <3> QED
      BY <1>2, <2>1, <3>1 DEF Unlocks
  <2>4. CASE j # 1
    <3>1. /\ Len(b) + 1 \in 1..(Len(b) + 1) /\ j \in 2..(Len(b) + 1)
          /\ \A i \in (j + 1)..(Len(b) + 1) : i \in (j + 1)..(Len(b) + 2)
      BY <1>1, <2>1, <2>2, <2>4
    <3>2. HeldAt(b, {}, Len(b) + 1, x)
      BY <1>3, <2>1, <3>1
    <3> QED
      BY <3>2 DEF Neat, Closed
  <2> QED
    BY <2>3, <2>4
<1> QED
  BY <1>2, <1>4, <1>5 DEF Neat, Ordered, Closed, s

\* An empty critical section is neat.
LEMMA TouchNeat ==
    ASSUME NEW m \in Mutexes
    PROVE  Neat(Touch(m), Rank(m))
<1>1. Rank(m) < 4
  BY RankFacts
<1> QED
  BY <1>1, Around, EmptyNeat DEF Touch

\* What one critical section after another may be put into.
LEMMA Touches ==
    /\ \A m \in Mutexes : Neat(Touch(m), 1)
    /\ Neat(Touch("hub"), 2) /\ Neat(Touch("persistence"), 2)
    /\ \A m \in {"persistence", "fee", "prices"} : Neat(Touch(m), 3)
<1>1. ASSUME NEW m \in Mutexes
      PROVE  Neat(Touch(m), Rank(m)) /\ Neat(Touch(m), 1)
  <2>1. Rank(m) \in Nat /\ 1 <= Rank(m)
    BY RankFacts
  <2>2. Neat(Touch(m), Rank(m))
    BY TouchNeat
  <2> QED
    BY <2>1, <2>2, Weaken
<1>2. \A m \in {"persistence", "fee", "prices"} : Neat(Touch(m), 3)
  BY <1>1, RankFacts
<1>3. Neat(Touch("hub"), 2)
  BY <1>1, RankFacts
<1>4. Neat(Touch("persistence"), 2)
  BY <1>2, Weaken
<1> QED
  BY <1>1, <1>2, <1>3, <1>4

\* Every handler but remove_client is neat.
LEMMA HandlersNeat ==
    ASSUME NEW h \in AllHandlers, h # "removeClient", NEW r \in Rooms
    PROVE  Neat(Program(h, r), 1)
<1> DEFINE N(s) == Neat(s, 1)
<1>1. ASSUME NEW s, NEW t, N(s), N(t)
      PROVE  N(s \o t)
  BY <1>1, Concat
<1>2. /\ N(Touch("hub")) /\ N(Touch("persistence")) /\ N(Touch("fee"))
      /\ N(Touch("prices")) /\ N(Touch(r))
  BY Touches, RankFacts
<1>3. ASSUME NEW b, Neat(b, 2)
      PROVE  N(Locked(r, b))
  <2>1. r \in Mutexes /\ Rank(r) = 1
    BY RankFacts
  <2> QED
    BY <1>3, <2>1, Around
<1>4. ASSUME NEW b, Neat(b, 3)
      PROVE  N(Locked("hub", b))
  <2>1. "hub" \in Mutexes /\ Rank("hub") = 2
    BY RankFacts
  <2>2. Neat(Locked("hub", b), 2)
    BY <1>4, <2>1, Around
  <2> QED
    BY <2>2, Weaken
<1>5. /\ N(Locked("hub", Touch("fee"))) /\ N(Locked("hub", Touch("persistence")))
      /\ N(Locked(r, Touch("persistence"))) /\ N(Locked(r, Touch("hub")))
      /\ N(Locked(r, Touch("hub") \o Touch("persistence")))
  <2>1. Neat(Touch("hub") \o Touch("persistence"), 2)
    BY Touches, Concat
  <2> QED
    BY <1>3, <1>4, <2>1, Touches
<1> HIDE DEF N
<1>6. N(FinishRoom) /\ N(AbortRoom(r))
  BY <1>1, <1>2 DEF FinishRoom, AbortRoom, RecordCompletedTrade,
     PersistRoomRemove, EraseRoom, SendToRoom
<1>7. /\ N(HandleOffers) /\ N(SetFee) /\ N(InspectRooms(r)) /\ N(LoadPersistedRooms)
      /\ N(HandleJoinOffer(r))
  BY <1>1, <1>2, <1>5 DEF HandleOffers, SetFee, InspectRooms, LoadPersistedRooms,
     HandleJoinOffer, CurrentFee, PersistRoomUpsert, SendToRoom
<1>8. N(ReportContinues(r)) /\ N(ReportCompletes(r)) /\ N(ReportPeerGone(r))
  BY <1>1, <1>2, <1>5, <1>6 DEF ReportContinues, ReportCompletes, ReportPeerGone,
     FindRoomFor, ClientForParty, PersistRoomUpsert, SendToRoom
<1>9. N(HandleReceiptAck(r)) /\ N(HandleTradeEphemeralKey(r)) /\ N(HandleAbort(r))
  BY <1>1, <1>2, <1>5, <1>6 DEF HandleReceiptAck, HandleTradeEphemeralKey,
     HandleAbort, FindRoomFor, ClientForParty, PersistRoomUpsert, SendToRoom
<1>10. N(HandleRecoveryStateRequest(r)) /\ N(TryConfirmFee(r))
  BY <1>1, <1>2, <1>6 DEF HandleRecoveryStateRequest, TryConfirmFee, ClientForParty
<1>11. N(Program(h, r))
  BY <1>7, <1>8, <1>9, <1>10 DEF Program, AllHandlers
<1> QED
  BY <1>11 DEF N

-----------------------------------------------------------------------------
\* A step of a thread that holds H and has s to do: whatever it holds later, it
\* would have held there before the step.
LEMMA StepHeld ==
    ASSUME NEW s \in Seq(Steps), s # <<>>, NEW H \in SUBSET Mutexes,
           NEW G \in SUBSET Mutexes,
           \/ Head(s).do = "lock" /\ G = H \cup {Head(s).mutex}
           \/ Head(s).do = "unlock" /\ G = H \ {Head(s).mutex},
           NEW i \in 1..(Len(Tail(s)) + 1), NEW x \in Mutexes,
           HeldAt(Tail(s), G, i, x)
    PROVE  HeldAt(s, H, i + 1, x)
<1>1. /\ Len(s) \in Nat \ {0} /\ Tail(s) \in Seq(Steps) /\ Len(Tail(s)) = Len(s) - 1
      /\ Head(s) = s[1] /\ \A k \in 1..(Len(s) - 1) : Tail(s)[k] = s[k + 1]
  OBVIOUS
<1>2. CASE x \in G /\ \A k \in 1..(i - 1) : ~Unlocks(Tail(s), k, x)
  <2>1. ASSUME NEW k \in 2..i
        PROVE  ~Unlocks(s, k, x)
    <3>1. k - 1 \in 1..(i - 1) /\ k - 1 \in 1..(Len(s) - 1) /\ (k - 1) + 1 = k
      BY <1>1
    <3> QED
      BY <1>1, <1>2, <3>1 DEF Unlocks
  <2>2. CASE x \in H /\ ~Unlocks(s, 1, x)
    <3>1. \A k \in 1..((i + 1) - 1) : k = 1 \/ k \in 2..i
      OBVIOUS
    <3> QED
      BY <2>1, <2>2, <3>1 DEF HeldAt
  <2>3. CASE Locks(s, 1, x)
    <3>1. /\ 1 \in 1..((i + 1) - 1)
          /\ \A k \in (1 + 1)..((i + 1) - 1) : k \in 2..i
      OBVIOUS
    <3> QED
      BY <2>1, <2>3, <3>1 DEF HeldAt
  <2> QED
    BY <1>1, <1>2, <2>2, <2>3 DEF Locks, Unlocks
<1>3. CASE \E j \in 1..(i - 1) : /\ Locks(Tail(s), j, x)
                                 /\ \A k \in (j + 1)..(i - 1) : ~Unlocks(Tail(s), k, x)
  <2>1. PICK j \in 1..(i - 1) : /\ Locks(Tail(s), j, x)
                                /\ \A k \in (j + 1)..(i - 1) : ~Unlocks(Tail(s), k, x)
    BY <1>3
  <2>2. j + 1 \in 1..((i + 1) - 1) /\ Locks(s, j + 1, x)
    BY <1>1, <2>1 DEF Locks
  <2>3. ASSUME NEW k \in ((j + 1) + 1)..((i + 1) - 1)
        PROVE  ~Unlocks(s, k, x)
    <3>1. k - 1 \in (j + 1)..(i - 1) /\ k - 1 \in 1..(Len(s) - 1) /\ (k - 1) + 1 = k
      BY <1>1, <2>1
    <3> QED
      BY <1>1, <2>1, <3>1 DEF Unlocks
  <2> QED
    BY <2>2, <2>3 DEF HeldAt
<1> QED
  BY <1>2, <1>3 DEF HeldAt

\* So the rest of what it has to do stays in order.
LEMMA StepOrdered ==
    ASSUME NEW s \in Seq(Steps), s # <<>>, NEW H \in SUBSET Mutexes,
           NEW G \in SUBSET Mutexes,
           \/ Head(s).do = "lock" /\ G = H \cup {Head(s).mutex}
           \/ Head(s).do = "unlock" /\ G = H \ {Head(s).mutex},
           Ordered(s, H), Closed(s, H)
    PROVE  Ordered(Tail(s), G) /\ Closed(Tail(s), G)
<1>1. /\ Len(s) \in Nat \ {0} /\ Len(Tail(s)) = Len(s) - 1
      /\ \A k \in 1..(Len(s) - 1) : Tail(s)[k] = s[k + 1]
  OBVIOUS
<1>2. \A i \in 1..(Len(Tail(s)) + 1), x \in Mutexes :
         HeldAt(Tail(s), G, i, x) => HeldAt(s, H, i + 1, x)
  BY StepHeld
<1>3. ASSUME NEW i \in 1..Len(Tail(s)), Tail(s)[i].do = "lock",
             NEW x \in Mutexes, HeldAt(Tail(s), G, i, x)
      PROVE  Rank(x) < Rank(Tail(s)[i].mutex)
  <2>1. i + 1 \in 1..Len(s) /\ i \in 1..(Len(Tail(s)) + 1) /\ Tail(s)[i] = s[i + 1]
    BY <1>1
  <2>2. HeldAt(s, H, i + 1, x) /\ s[i + 1].do = "lock"
    BY <1>2, <1>3, <2>1
  <2> QED
    BY <2>1, <2>2 DEF Ordered
<1>4. ASSUME NEW x \in Mutexes, HeldAt(Tail(s), G, Len(Tail(s)) + 1, x)
      PROVE  FALSE
  <2>1. /\ Len(Tail(s)) + 1 \in 1..(Len(Tail(s)) + 1)
        /\ (Len(Tail(s)) + 1) + 1 = Len(s) + 1
    BY <1>1
  <2>2. HeldAt(s, H, Len(s) + 1, x)
    BY <1>2, <1>4, <2>1
  <2> QED
    BY <2>2 DEF Closed
<1> QED
  BY <1>3, <1>4 DEF Ordered, Closed

\* The parts of LocksInv are kept by every step of every thread.
LEMMA NextIndInv ==
    ASSUME "removeClient" \notin Handlers, LocksInv, [LocksNext]_lockVars
    PROVE  LocksInv'
<1>1. CASE UNCHANGED lockVars
  BY <1>1 DEF LocksInv, lockVars
<1>2. ASSUME NEW t \in Threads, NEW h \in Handlers, NEW r \in Rooms, Begin(t, h, r)
      PROVE  LocksInv'
  <2>1. h \in AllHandlers /\ h # "removeClient"
    BY LocksAssumption
  <2>2. Neat(Program(h, r), 1)
    BY <2>1, HandlersNeat
  <2>3. held[t] = {}
    <3>1. Closed(<<>>, held[t]) /\ held[t] \in SUBSET Mutexes
      BY <1>2 DEF LocksInv, Begin
    <3>2. \A x \in held[t] : HeldAt(<<>>, held[t], Len(<<>>) + 1, x)
      BY DEF HeldAt
    <3> QED
      BY <3>1, <3>2 DEF Closed
  <2>4. /\ rest' \in [Threads -> Seq(Steps)] /\ held' = held
        /\ rest'[t] = Program(h, r) /\ \A u \in Threads \ {t} : rest'[u] = rest[u]
    BY <1>2, <2>2 DEF LocksInv, Begin, Neat
  <2>5. \A u \in Threads : Ordered(rest'[u], held'[u]) /\ Closed(rest'[u], held'[u])
    BY <2>2, <2>3, <2>4 DEF LocksInv, Neat
  <2> QED
    BY <2>4, <2>5 DEF LocksInv
<1>3. ASSUME NEW t \in Threads, Lock(t) \/ Unlock(t)
      PROVE  LocksInv'
  <2>1. /\ rest[t] \in Seq(Steps) /\ rest[t] # <<>> /\ held[t] \in SUBSET Mutexes
        /\ Ordered(rest[t], held[t]) /\ Closed(rest[t], held[t])
    BY <1>3 DEF LocksInv, Lock, Unlock
  <2>2. /\ Head(rest[t]) \in Steps /\ Head(rest[t]).mutex \in Mutexes
        /\ Tail(rest[t]) \in Seq(Steps)
    <3>1. Head(rest[t]) \in Steps /\ Tail(rest[t]) \in Seq(Steps)
      BY <2>1
    <3> QED
      BY <3>1 DEF Steps
  <2>3. /\ rest' = [rest EXCEPT ![t] = Tail(rest[t])]
        /\ \/ Head(rest[t]).do = "lock"
              /\ held' = [held EXCEPT ![t] = held[t] \cup {Head(rest[t]).mutex}]
           \/ Head(rest[t]).do = "unlock"
              /\ held' = [held EXCEPT ![t] = held[t] \ {Head(rest[t]).mutex}]
    BY <1>3 DEF Lock, Unlock, Wants
  <2>4. /\ rest' \in [Threads -> Seq(Steps)] /\ held' \in [Threads -> SUBSET Mutexes]
        /\ rest'[t] = Tail(rest[t])
        /\ \A u \in Threads \ {t} : rest'[u] = rest[u] /\ held'[u] = held[u]
        /\ \/ Head(rest[t]).do = "lock" /\ held'[t] = held[t] \cup {Head(rest[t]).mutex}
           \/ Head(rest[t]).do = "unlock" /\ held'[t] = held[t] \ {Head(rest[t]).mutex}
    <3>1. rest' \in [Threads -> Seq(Steps)] /\ rest'[t] = Tail(rest[t])
      BY <2>2, <2>3 DEF LocksInv
    <3>2. held' \in [Threads -> SUBSET Mutexes]
      BY <2>1, <2>2, <2>3 DEF LocksInv
    <3>3. \A u \in Threads \ {t} : rest'[u] = rest[u] /\ held'[u] = held[u]
      BY <2>3 DEF LocksInv
    <3>4. \/ Head(rest[t]).do = "lock" /\ held'[t] = held[t] \cup {Head(rest[t]).mutex}
          \/ Head(rest[t]).do = "unlock" /\ held'[t] = held[t] \ {Head(rest[t]).mutex}
      BY <2>3 DEF LocksInv
    <3> QED
      BY <3>1, <3>2, <3>3, <3>4
  <2>5. Ordered(Tail(rest[t]), held'[t]) /\ Closed(Tail(rest[t]), held'[t])
    <3>1. held'[t] \in SUBSET Mutexes
      BY <2>4
    <3> QED
      BY <2>1, <2>4, <3>1, StepOrdered
  <2>6. \A u \in Threads : Ordered(rest'[u], held'[u]) /\ Closed(rest'[u], held'[u])
    BY <2>4, <2>5 DEF LocksInv
  <2> QED
    BY <2>4, <2>6 DEF LocksInv
<1> QED
  BY <1>1, <1>2, <1>3 DEF LocksNext

\* A thread that waits for a mutex holds only mutexes of lower rank, so the
\* ranks grow along a chain of waiting threads, and there are three.
LEMMA NobodyWaitsInACircle ==
    ASSUME LocksInv
    PROVE  NoDeadlock
<1> SUFFICES ASSUME NEW S \in SUBSET Threads, S # {},
                    \A t \in S : \E u \in S : Waits(t, u)
             PROVE  FALSE
  BY DEF NoDeadlock
<1>1. ASSUME NEW t \in S, NEW x \in held[t]
      PROVE  \E u \in S : \E y \in held[u] : Rank(x) < Rank(y)
  <2>1. PICK u \in S : \E y \in held[u] : Wants(t, y)
    BY DEF Waits
  <2>2. PICK y \in held[u] : Wants(t, y)
    BY <2>1
  <2>3. /\ rest[t] \in Seq(Steps) /\ rest[t] # <<>> /\ x \in Mutexes
        /\ Ordered(rest[t], held[t])
    BY <2>2 DEF LocksInv, Wants
  <2>4. 1 \in 1..Len(rest[t]) /\ rest[t][1].do = "lock" /\ rest[t][1].mutex = y
    BY <2>2, <2>3 DEF Wants
  <2>5. HeldAt(rest[t], held[t], 1, x)
    BY DEF HeldAt
  <2> QED
    BY <2>3, <2>4, <2>5 DEF Ordered
<1>2. PICK t1 \in S : \E x \in held[t1] : TRUE
  BY DEF Waits
<1>3. PICK x1 \in held[t1] : TRUE
  BY <1>2
<1>4. PICK t2 \in S : \E y \in held[t2] : Rank(x1) < Rank(y)
  BY <1>1
<1>5. PICK x2 \in held[t2] : Rank(x1) < Rank(x2)
  BY <1>4
<1>6. PICK t3 \in S : \E y \in held[t3] : Rank(x2) < Rank(y)
  BY <1>1
<1>7. PICK x3 \in held[t3] : Rank(x2) < Rank(x3)
  BY <1>6
<1>8. \E u \in S : \E y \in held[u] : Rank(x3) < Rank(y)
  BY <1>1
<1>9. \A m : Rank(m) \in {1, 2, 3}
  BY RankFacts
<1> QED
  BY <1>5, <1>7, <1>8, <1>9

\* Unless a client disconnects, what each thread of the lobby has left to lock
\* ranks above what it holds by then, and it gives everything back.
THEOREM LocksInductive ==
    ASSUME "removeClient" \notin Handlers
    PROVE  LocksSpec => []LocksInv
<1>1. LocksInit => LocksInv
  <2> SUFFICES ASSUME LocksInit PROVE LocksInv
    OBVIOUS
  <2>1. /\ rest \in [Threads -> Seq(Steps)] /\ held \in [Threads -> SUBSET Mutexes]
        /\ \A t \in Threads : rest[t] = <<>> /\ held[t] = {}
    BY DEF LocksInit
  <2>2. Ordered(<<>>, {}) /\ Closed(<<>>, {})
    BY EmptyNeat DEF Neat
  <2> QED
    BY <2>1, <2>2 DEF LocksInv
<1>2. LocksInv /\ [LocksNext]_lockVars => LocksInv'
  BY NextIndInv
<1> QED
  BY <1>1, <1>2, PTL DEF LocksSpec

\* The lock order of lobby.cpp: without remove_client, the handler that takes
\* hub_mutex_ before a room's mutex, no set of threads waits for itself,
\* however many threads and rooms there are.
THEOREM LocksNeverDeadlock ==
    ASSUME "removeClient" \notin Handlers
    PROVE  LocksSpec => []NoDeadlock
<1>1. LocksSpec => []LocksInv
  BY LocksInductive
<1>2. LocksInv => NoDeadlock
  BY NobodyWaitsInACircle
<1> QED
  BY <1>1, <1>2, PTL

-----------------------------------------------------------------------------
(***************************************************************************)
(* One connection: the inductive invariant.                                *)
(***************************************************************************)
Flags ==
    /\ alive \in BOOLEAN /\ pipe \in BOOLEAN
    /\ readable \in BOOLEAN /\ failed \in BOOLEAN

Types ==
    /\ pc \in {"welcome", "top", "poll", "drain", "drained", "send", "socket",
               "receive", "handle", "flush", "closing", "removed"}
    /\ outgoing \in Seq(Frames) /\ Len(outgoing) <= MaxQueuedFrames
    /\ taken \in Seq(Frames) /\ Len(taken) <= MaxQueuedFrames
    /\ bad_messages \in 0..MaxStrikes
    /\ processed \in 0..MaxBatch
    /\ waking \subseteq Others
    /\ inbox \in 0..MaxInbox
    /\ after \in {"top", "socket"}
    /\ last \in {"none", "queued", "sent"}

\* A frame is read only while the batch and the strikes leave room for it: the
\* last strike marks the client dead, and the loop ends at its next top.
LimitsInv ==
    /\ pc \in {"receive", "handle"} => processed < MaxBatch
    /\ bad_messages = MaxStrikes =>
          /\ ~alive
          /\ pc \in {"flush", "send", "top", "closing", "removed"}
          /\ pc = "send" => after = "top"

\* A frame in the queue has a wake-up ahead of it, wherever the loop is: one
\* byte in the pipe, a thread about to write it, or the flush after the drain.
WakeInv ==
    outgoing # <<>> => pipe \/ waking # {} \/ pc = "drained"

\* The final Error, once queued, moves with the next flush: it is in the
\* queue when that is due and in the batch being sent after it.
Contains(s, frame) == \E i \in DOMAIN s : s[i] = frame

LastWordInv ==
    last = "queued" /\ ~failed =>
        \/ pc = "flush" /\ Contains(outgoing, "last")
        \/ pc = "send" /\ Contains(taken, "last")

IndInv == Flags /\ Types /\ LimitsInv /\ WakeInv /\ LastWordInv

-----------------------------------------------------------------------------
\* The limits are positive numbers.
LEMMA Limits ==
    /\ MaxQueuedFrames \in Nat /\ MaxQueuedFrames > 0
    /\ MaxStrikes \in Nat /\ MaxStrikes > 0
    /\ MaxBatch \in Nat /\ MaxBatch > 0
    /\ MaxInbox \in Nat /\ MaxInbox > 0
  BY ConnectionAssumption

\* Client::enqueue appends one frame or leaves the queue alone.
LEMMA PushFacts ==
    ASSUME Flags, Types, NEW frame \in Frames, Push(frame)
    PROVE  /\ alive' = Accepts
           /\ outgoing' \in Seq(Frames) /\ Len(outgoing') <= MaxQueuedFrames
           /\ Accepts => outgoing' = Append(outgoing, frame)
           /\ ~Accepts => outgoing' = outgoing
           /\ \A f \in Frames : Contains(outgoing, f) => Contains(outgoing, f)'
<1>1. alive' = Accepts
  BY DEF Push
<1>2. CASE Accepts
  <2>1. outgoing' = Append(outgoing, frame)
    BY <1>2 DEF Push
  <2>2. outgoing' \in Seq(Frames) /\ Len(outgoing') = Len(outgoing) + 1
    BY <2>1 DEF Types
  <2>3. Len(outgoing) < MaxQueuedFrames
    BY <1>2 DEF Accepts
  <2>4. \A f \in Frames : Contains(outgoing, f) => Contains(outgoing, f)'
    BY <2>1 DEF Types, Contains
  <2> QED
    BY <1>1, <1>2, <2>1, <2>2, <2>3, <2>4, Limits DEF Types
<1>3. CASE ~Accepts
  BY <1>1, <1>3 DEF Push, Types, Contains
<1> QED
  BY <1>2, <1>3

\* Every step keeps the flags Boolean.
LEMMA FlagsStep == IndInv /\ [Next]_vars => Flags'
<1> SUFFICES ASSUME Flags, [Next]_vars PROVE Flags'
  BY DEF IndInv
<1> USE DEF Flags, queue, loop, vars
<1>1. ASSUME NEW t \in Others, EnqueueByOther(t) \/ Wake(t) PROVE Flags'
  BY <1>1 DEF EnqueueByOther, Push, Accepts, Wake
<1>2. CASE PeerSends \/ Fail \/ Welcome \/ Top \/ Interrupted \/ Socket
  BY <1>2 DEF PeerSends, Fail, Welcome, Top, Interrupted, Socket
<1>3. CASE DrainWakePipe \/ FlushOnWake \/ FlushBatch \/ SendFrame \/ Close
  BY <1>3 DEF DrainWakePipe, FlushOnWake, FlushBatch, Flush, SendFrame, Close
<1>4. CASE ReceiveDisconnect \/ ReceiveRequest \/ HandlerReturns
  BY <1>4 DEF ReceiveDisconnect, ReceiveRequest, Received, HandlerReturns
<1>5. CASE Reply \/ ReceiveBad \/ ReceiveLastStrike
  BY <1>5 DEF Reply, ReceiveBad, ReceiveLastStrike, Received, Push, Accepts
<1>6. CASE Poll
  <2>1. readable' \in BOOLEAN
    BY <1>6 DEF Poll
  <2> QED
    BY <1>6, <2>1 DEF Poll
<1>7. CASE UNCHANGED vars
  BY <1>7
<1> QED
  BY <1>1, <1>2, <1>3, <1>4, <1>5, <1>6, <1>7 DEF Next, LoopStep

\* Every step keeps the types and the limits.
LEMMA TypesStep == IndInv /\ [Next]_vars => Types' /\ LimitsInv'
<1> SUFFICES ASSUME IndInv, [Next]_vars PROVE Types' /\ LimitsInv'
  OBVIOUS
<1> USE Limits DEF IndInv, LimitsInv, queue, loop, vars
<1>1. ASSUME NEW t \in Others, EnqueueByOther(t) PROVE Types' /\ LimitsInv'
  <2>1. Push("room") /\ "room" \in Frames
    BY <1>1 DEF EnqueueByOther, Frames
  <2> QED
    BY <1>1, <2>1, PushFacts DEF EnqueueByOther, Types, Accepts
<1>2. ASSUME NEW t \in Others, Wake(t) PROVE Types' /\ LimitsInv'
  BY <1>2 DEF Wake, Types
<1>3. CASE PeerSends
  BY <1>3 DEF PeerSends, Types
<1>4. CASE Fail
  BY <1>4 DEF Fail, Types
<1>5. CASE Welcome \/ Top \/ Poll \/ Interrupted \/ DrainWakePipe
  BY <1>5 DEF Welcome, Top, Poll, Interrupted, DrainWakePipe, Types
<1>6. CASE FlushOnWake \/ FlushBatch
  <2>1. outgoing' \in Seq(Frames) /\ Len(outgoing') = 0 /\ taken' = outgoing
    <3>1. outgoing' = <<>> /\ taken' = outgoing
      BY <1>6 DEF FlushOnWake, FlushBatch, Flush
    <3> QED
      BY <3>1
  <2>2. /\ pc' = "send" /\ (pc = "flush" => after' = "top")
        /\ after' \in {"top", "socket"} /\ pc \in {"flush", "drained"}
        /\ UNCHANGED <<alive, waking, bad_messages, processed, inbox, last>>
    BY <1>6 DEF FlushOnWake, FlushBatch, Flush
  <2> QED
    BY <2>1, <2>2 DEF Types
<1>7. CASE SendFrame
  <2>1. taken # <<>> => Tail(taken) \in Seq(Frames) /\ Len(Tail(taken)) <= Len(taken)
    BY DEF Types
  <2> QED
    <3>1. CASE taken = <<>>
      BY <1>7, <3>1 DEF SendFrame, Types
    <3>2. CASE taken # <<>>
      BY <1>7, <3>2, <2>1, SMTT(30) DEF SendFrame, Types
    <3> QED
      BY <3>1, <3>2
<1>8. CASE Socket
  BY <1>8 DEF Socket, Types
<1>9. CASE ReceiveDisconnect
  BY <1>9 DEF ReceiveDisconnect, Received, Types
<1>10. CASE ReceiveRequest
  BY <1>10 DEF ReceiveRequest, Received, Types
<1>11. CASE Reply
  <2>1. Push("reply") /\ "reply" \in Frames
    BY <1>11 DEF Reply, Frames
  <2> QED
    BY <1>11, <2>1, PushFacts DEF Reply, Types, Accepts
<1>12. CASE HandlerReturns
  BY <1>12 DEF HandlerReturns, Continue, Types
<1>13. CASE ReceiveBad
  <2>1. Push("reply") /\ "reply" \in Frames
    BY <1>13 DEF ReceiveBad, Frames
  <2> QED
    BY <1>13, <2>1, PushFacts DEF ReceiveBad, Received, Continue, Types
<1>14. CASE ReceiveLastStrike
  <2>1. Accepts => /\ Append(outgoing, "last") \in Seq(Frames)
                   /\ Len(Append(outgoing, "last")) <= MaxQueuedFrames
    BY DEF Accepts, Types, Frames
  <2>2. bad_messages < MaxStrikes
    BY <1>14 DEF ReceiveLastStrike, Received, Types
  <2> QED
    BY <1>14, <2>1, <2>2 DEF ReceiveLastStrike, Received, Types
<1>15. CASE Close
  BY <1>15 DEF Close, Types
<1>16. CASE UNCHANGED vars
  BY <1>16 DEF Types
<1> QED
  BY <1>1, <1>2, <1>3, <1>4, <1>5, <1>6, <1>7, <1>8, <1>9, <1>10, <1>11, <1>12,
     <1>13, <1>14, <1>15, <1>16 DEF Next, LoopStep

\* Every step keeps a wake-up ahead of what is queued.
LEMMA WakeStep == IndInv /\ [Next]_vars => WakeInv'
<1> SUFFICES ASSUME IndInv, [Next]_vars PROVE WakeInv'
  OBVIOUS
<1> USE DEF IndInv, WakeInv, Flags, Types, queue, loop, vars
<1>1. ASSUME NEW t \in Others, EnqueueByOther(t) PROVE WakeInv'
  BY <1>1 DEF EnqueueByOther, Push, Accepts
<1>2. ASSUME NEW t \in Others, Wake(t) PROVE WakeInv'
  BY <1>2 DEF Wake
<1>3. CASE PeerSends \/ Fail \/ Welcome \/ Top \/ Poll \/ Interrupted \/ Socket
  BY <1>3 DEF PeerSends, Fail, Welcome, Top, Poll, Interrupted, Socket
<1>4. CASE DrainWakePipe \/ FlushOnWake \/ FlushBatch \/ SendFrame
  BY <1>4 DEF DrainWakePipe, FlushOnWake, FlushBatch, Flush, SendFrame
<1>5. CASE ReceiveDisconnect \/ ReceiveRequest \/ HandlerReturns \/ Close
  BY <1>5 DEF ReceiveDisconnect, ReceiveRequest, Received, HandlerReturns,
              Continue, Close
<1>6. CASE Reply \/ ReceiveBad \/ ReceiveLastStrike
  BY <1>6 DEF Reply, ReceiveBad, ReceiveLastStrike, Received, Continue, Push,
              Accepts
<1>7. CASE UNCHANGED vars
  BY <1>7
<1> QED
  BY <1>1, <1>2, <1>3, <1>4, <1>5, <1>6, <1>7 DEF Next, LoopStep

\* Every step keeps a queued last word on its way.
LEMMA LastWordStep == IndInv /\ [Next]_vars => LastWordInv'
<1> SUFFICES ASSUME IndInv, [Next]_vars PROVE LastWordInv'
  OBVIOUS
<1> USE DEF IndInv, LastWordInv, queue, loop, vars
<1>1. ASSUME NEW t \in Others, EnqueueByOther(t) PROVE LastWordInv'
  <2>1. Push("room") /\ "room" \in Frames /\ "last" \in Frames
    BY <1>1 DEF EnqueueByOther, Frames
  <2>2. Contains(outgoing, "last") => Contains(outgoing, "last")'
    BY <2>1, PushFacts
  <2> QED
    BY <1>1, <2>2 DEF EnqueueByOther, Contains
<1>2. ASSUME NEW t \in Others, Wake(t) PROVE LastWordInv'
  BY <1>2 DEF Wake, Contains
<1>3. CASE PeerSends \/ Fail \/ Welcome \/ Top \/ Poll \/ Interrupted \/ Socket
  BY <1>3 DEF PeerSends, Fail, Welcome, Top, Poll, Interrupted, Socket, Contains
<1>4. CASE DrainWakePipe \/ FlushOnWake \/ FlushBatch
  BY <1>4 DEF DrainWakePipe, FlushOnWake, FlushBatch, Flush, Contains
<1>5. CASE SendFrame
  <2>1. CASE taken = <<>>
    <3>1. ~Contains(taken, "last")
      BY <2>1 DEF Contains
    <3> QED
      BY <1>5, <2>1, <3>1 DEF SendFrame
  <2>2. CASE taken # <<>>
    <3>1. taken \in Seq(Frames)
      BY DEF Types
    <3>2. Contains(taken, "last") /\ Head(taken) # "last"
             => Contains(Tail(taken), "last")
      <4> SUFFICES ASSUME NEW i \in DOMAIN taken, taken[i] = "last",
                          Head(taken) # "last"
                   PROVE  Contains(Tail(taken), "last")
        BY DEF Contains
      <4>1. i \in 2..Len(taken)
        BY <3>1, <2>2
      <4>2. i - 1 \in DOMAIN Tail(taken) /\ Tail(taken)[i - 1] = taken[i]
        BY <3>1, <2>2, <4>1
      <4> QED
        BY <4>2 DEF Contains
    <3> QED
      BY <1>5, <2>2, <3>2 DEF SendFrame, Contains
  <2> QED
    BY <2>1, <2>2
<1>6. CASE ReceiveDisconnect \/ ReceiveRequest \/ HandlerReturns \/ Close \/ Reply
  BY <1>6 DEF ReceiveDisconnect, ReceiveRequest, Received, HandlerReturns,
              Continue, Close, Reply, Contains
<1>7. CASE ReceiveBad
  BY <1>7 DEF ReceiveBad, Received
<1>8. CASE ReceiveLastStrike
  <2>1. Accepts => Contains(Append(outgoing, "last"), "last")
    <3>1. outgoing \in Seq(Frames)
      BY DEF Types
    <3>2. /\ Len(outgoing) + 1 \in DOMAIN Append(outgoing, "last")
          /\ Append(outgoing, "last")[Len(outgoing) + 1] = "last"
      BY <3>1
    <3> QED
      BY <3>2 DEF Contains
  <2> QED
    BY <1>8, <2>1 DEF ReceiveLastStrike, Received, Contains
<1>9. CASE UNCHANGED vars
  BY <1>9 DEF Contains
<1> QED
  BY <1>1, <1>2, <1>3, <1>4, <1>5, <1>6, <1>7, <1>8, <1>9 DEF Next, LoopStep

-----------------------------------------------------------------------------
\* A connection always satisfies the inductive invariant.
THEOREM Inductive == Spec => []IndInv
<1>1. Init => IndInv
  <2> SUFFICES ASSUME Init PROVE IndInv
    OBVIOUS
  <2>1. Flags
    BY DEF Init, Flags
  <2>2. outgoing \in Seq(Frames) /\ Len(outgoing) = 0 /\ taken = outgoing
    BY DEF Init
  <2>3. Types /\ LimitsInv
    BY <2>2, Limits DEF Init, Types, LimitsInv
  <2>4. WakeInv /\ LastWordInv
    BY DEF Init, WakeInv, LastWordInv
  <2> QED
    BY <2>1, <2>3, <2>4 DEF IndInv
<1>2. IndInv /\ [Next]_vars => IndInv'
  BY FlagsStep, TypesStep, WakeStep, LastWordStep DEF IndInv
<1> QED
  BY <1>1, <1>2, PTL DEF Spec

\* The queue never holds more than kMaxQueuedFrames, a batch never handles
\* more frames than it may, and no strike is counted after the last one.
THEOREM TypeCorrect == Spec => []TypeOK
<1>1. IndInv => TypeOK
  BY DEF IndInv, Flags, Types, TypeOK
<1> QED
  BY <1>1, Inductive, PTL

\* client_loop never goes to sleep in poll on a queue that nobody will wake it
\* for, however many threads enqueue frames.
THEOREM WakesAreNeverLost == Spec => []NoLostWake
<1>1. IndInv => NoLostWake
  BY DEF IndInv, WakeInv, NoLostWake
<1> QED
  BY <1>1, Inductive, PTL

\* The Error that explains the final strike is sent before the connection is
\* closed, whatever the other threads queue behind it.
THEOREM LastWordSent == Spec => []LastWordDelivered
<1>1. IndInv => LastWordDelivered
  BY DEF IndInv, LastWordInv, LastWordDelivered
<1> QED
  BY <1>1, Inductive, PTL

=============================================================================

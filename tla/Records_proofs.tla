--------------------------- MODULE Records_proofs ---------------------------
(***************************************************************************)
(* The two programs that keep records and read them one after the other:   *)
(* the journal of a client, for any deal and any number of crashes and     *)
(* checkpoints, and the directory of mediators, for any number of          *)
(* registries, endpoints and pulls.                                        *)
(*                                                                         *)
(* Both fold over a sequence.  What the fold computes is shown by          *)
(* induction over the sequence, in the form "a set of naturals that is not *)
(* empty has a least element".                                             *)
(***************************************************************************)
EXTENDS Journal, Registry, FiniteSetTheorems, SequenceTheorems,
        WellFoundedInduction, TLAPS

-----------------------------------------------------------------------------
(***************************************************************************)
(* Folding Replay over a log.                                              *)
(***************************************************************************)
\* A set of naturals that is not empty has a least element.
LEMMA LeastOf ==
  ASSUME NEW T \in SUBSET Nat, T # {}
  PROVE  \E m \in T : \A k \in T : m <= k
<1>1. PICK m \in T : \A k \in T : ~(<<k, m>> \in OpToRel(<, Nat))
  BY WFMin, NatLessThanWellFounded
<1>2. ASSUME NEW k \in T, k < m PROVE FALSE
  <2>1. <<k, m>> \in Nat \X Nat OBVIOUS
  <2>2. <<k, m>>[1] < <<k, m>>[2] BY <1>2
  <2>3. <<k, m>> \in OpToRel(<, Nat) BY <2>1, <2>2, Zenon DEF OpToRel
  <2> QED BY <2>3, <1>1
<1>3. \A k \in T : m \in Nat /\ k \in Nat OBVIOUS
<1> QED BY <1>2, <1>3

\* The last index is the one that a fold takes first.
LEMMA MaxOf ==
  ASSUME NEW n \in Nat, NEW s \in SUBSET (1..n), n \in s
  PROVE  Max(s) = n
<1>1. n \in s /\ \A y \in s : n >= y OBVIOUS
<1>2. \A x \in s : (\A y \in s : x >= y) => x = n OBVIOUS
<1> QED BY <1>1, <1>2 DEF Max

\* The function that FoldLeft defines recursively to replay the first n
\* records of seq, on all sets of their indices.
ReplayFold(f, seq, n) ==
    f = [s \in SUBSET (1..n) |->
            IF s = {} THEN Closed ELSE Replay(f[s \ {Max(s)}], seq[Max(s)])]

\* There is such a function: by induction on n, its least counterexample being
\* the one after the last n that has one.
LEMMA ReplayFoldExists ==
  ASSUME NEW seq, NEW n \in Nat
  PROVE  \E f : ReplayFold(f, seq, n)
<1> DEFINE T == {m \in Nat : ~ \E f : ReplayFold(f, seq, m)}
<1>1. SUFFICES ASSUME T # {} PROVE FALSE OBVIOUS
<1>2. PICK m \in T : \A k \in T : m <= k BY <1>1, LeastOf
<1>3. CASE m = 0
  <2>1. ReplayFold([s \in SUBSET (1..0) |-> Closed], seq, 0) BY DEF ReplayFold
  <2> QED BY <2>1, <1>2, <1>3
<1>4. CASE m # 0
  <2>1. m \in Nat /\ m - 1 \in Nat /\ m - 1 \notin T BY <1>2, <1>4
  <2>2. PICK g : ReplayFold(g, seq, m - 1) BY <2>1
  <2> DEFINE h == [s \in SUBSET (1..m) |->
                      IF s = {} THEN Closed
                      ELSE IF m \in s THEN Replay(g[s \ {m}], seq[m]) ELSE g[s]]
             rhs == [s \in SUBSET (1..m) |->
                       IF s = {} THEN Closed ELSE Replay(h[s \ {Max(s)}], seq[Max(s)])]
  <2>e. {} \in SUBSET (1..(m - 1)) OBVIOUS
  <2>3. g[{}] = Closed BY <2>2, <2>e, Zenon DEF ReplayFold
  <2>4. ASSUME NEW s \in SUBSET (1..m) PROVE h[s] = rhs[s]
    <3>1. CASE s = {} BY <3>1
    <3>2. CASE m \in s
      <4>1. Max(s) = m BY <3>2, <2>1, MaxOf
      <4>2. s \ {m} \in SUBSET (1..m) /\ m \notin s \ {m} OBVIOUS
      <4>3. h[s \ {m}] = g[s \ {m}] BY <4>2, <2>3
      <4>4. h[s] = Replay(g[s \ {m}], seq[m]) BY <3>2
      <4>5. rhs[s] = Replay(h[s \ {m}], seq[m]) BY <3>2, <4>1
      <4> QED BY <4>3, <4>4, <4>5
    <3>3. CASE s # {} /\ m \notin s
      <4>1. s \in SUBSET (1..(m - 1)) BY <3>3, <2>1
      <4>2. g[s] = Replay(g[s \ {Max(s)}], seq[Max(s)]) BY <4>1, <3>3, <2>2, Zenon DEF ReplayFold
      <4>3. h[s \ {Max(s)}] = g[s \ {Max(s)}] BY <3>3, <2>3
      <4>4. h[s] = g[s] BY <3>3
      <4>5. rhs[s] = Replay(h[s \ {Max(s)}], seq[Max(s)]) BY <3>3
      <4> QED BY <4>2, <4>3, <4>4, <4>5
    <3> QED BY <3>1, <3>2, <3>3
  <2>5. h = rhs
    <3> HIDE DEF h
    <3>1. h = [s \in SUBSET (1..m) |-> h[s]] BY DEF h
    <3> QED BY <2>4, <3>1
  <2> HIDE DEF h
  <2>6. ReplayFold(h, seq, m) BY <2>5 DEF ReplayFold
  <2> QED BY <2>6, <1>2
<1> QED BY <1>3, <1>4

\* Two of them agree on the common part of their sequences.
LEMMA ReplayFoldUnique ==
  ASSUME NEW seq1, NEW seq2, NEW n1 \in Nat, NEW n2 \in Nat, NEW f, NEW g,
         ReplayFold(f, seq1, n1), ReplayFold(g, seq2, n2),
         NEW k \in Nat, k <= n1, k <= n2, \A i \in 1..k : seq1[i] = seq2[i]
  PROVE  f[1..k] = g[1..k]
<1> DEFINE T == {m \in 0..k : f[1..m] # g[1..m]}
<1>1. SUFFICES ASSUME T # {} PROVE FALSE OBVIOUS
<1>0. T \in SUBSET Nat OBVIOUS
<1>2. PICK m \in T : \A j \in T : m <= j
  <2> HIDE DEF T
  <2> QED BY <1>0, <1>1, LeastOf
<1>3. 1..m \in SUBSET (1..n1) /\ 1..m \in SUBSET (1..n2) BY <1>2
<1>4. CASE m = 0
  <2>1. 1..m = {} BY <1>4
  <2> QED BY <2>1, <1>2, <1>3 DEF ReplayFold
<1>5. CASE m # 0
  <2>1. 1..m # {} /\ m \in 1..m /\ m \in Nat BY <1>2, <1>5
  <2>2. Max(1..m) = m BY <2>1, MaxOf
  <2>3. (1..m) \ {m} = 1..(m - 1) BY <2>1
  <2>4. f[1..m] = Replay(f[1..(m - 1)], seq1[m])
    <3>1. f[1..m] = IF 1..m = {} THEN Closed
                    ELSE Replay(f[(1..m) \ {Max(1..m)}], seq1[Max(1..m)])
      BY <1>3, Zenon DEF ReplayFold
    <3> QED BY <3>1, <2>1, <2>2, <2>3
  <2>5. g[1..m] = Replay(g[1..(m - 1)], seq2[m])
    <3>1. g[1..m] = IF 1..m = {} THEN Closed
                    ELSE Replay(g[(1..m) \ {Max(1..m)}], seq2[Max(1..m)])
      BY <1>3, Zenon DEF ReplayFold
    <3> QED BY <3>1, <2>1, <2>2, <2>3
  <2>6. f[1..(m - 1)] = g[1..(m - 1)] BY <1>2, <2>1
  <2>7. seq1[m] = seq2[m] BY <1>2, <2>1
  <2> QED BY <2>4, <2>5, <2>6, <2>7, <1>2
<1> QED BY <1>4, <1>5

\* FoldLeft is a value of such a function.
LEMMA ReplayFoldIs ==
  ASSUME NEW X, NEW seq \in Seq(X)
  PROVE  \E f : ReplayFold(f, seq, Len(seq)) /\ FoldLeft(Replay, Closed, seq) = f[1..Len(seq)]
<1> DEFINE S == DOMAIN seq
           R(f) == f = [s \in SUBSET S |-> IF s = {} THEN Closed
                                           ELSE Replay(f[s \ {Max(s)}], seq[Max(s)])]
           it == CHOOSE f : R(f)
<1>1. FoldLeft(Replay, Closed, seq) = it[S] BY Zenon DEF FoldLeft, MapThenFoldSet
<1>2. S = 1..Len(seq) /\ Len(seq) \in Nat OBVIOUS
<1>3. \E f : R(f)
  <2>1. PICK f : ReplayFold(f, seq, Len(seq)) BY <1>2, ReplayFoldExists
  <2>2. R(f) BY <2>1, <1>2 DEF ReplayFold
  <2> QED BY <2>2
<1>4. R(it) BY <1>3, Zenon
<1> HIDE DEF it
<1>5. ReplayFold(it, seq, Len(seq)) BY <1>4, <1>2 DEF ReplayFold
<1> QED BY <1>5, <1>1, <1>2

\* The replay of an empty log is an empty journal ...
LEMMA ReplayEmpty == FoldLeft(Replay, Closed, <<>>) = Closed
<1>1. <<>> \in Seq({}) /\ Len(<<>>) = 0 OBVIOUS
<1>2. PICK f : ReplayFold(f, <<>>, 0) /\ FoldLeft(Replay, Closed, <<>>) = f[1..0] BY <1>1, ReplayFoldIs
<1>3. 1..0 = {} /\ {} \in SUBSET (1..0) OBVIOUS
<1> QED BY <1>2, <1>3 DEF ReplayFold

\* ... and one record more is one step of Replay more.
LEMMA ReplayAppend ==
  ASSUME NEW X, NEW seq \in Seq(X), NEW x \in X
  PROVE  FoldLeft(Replay, Closed, Append(seq, x)) = Replay(FoldLeft(Replay, Closed, seq), x)
<1> DEFINE n == Len(seq) a == Append(seq, x)
<1>0. n \in Nat /\ Len(a) = n + 1 /\ a \in Seq(X) /\ a[n + 1] = x /\ \A i \in 1..n : a[i] = seq[i] OBVIOUS
<1>1. PICK f : ReplayFold(f, seq, n) /\ FoldLeft(Replay, Closed, seq) = f[1..n] BY ReplayFoldIs
<1>2. PICK g : ReplayFold(g, a, n + 1) /\ FoldLeft(Replay, Closed, a) = g[1..(n + 1)] BY <1>0, ReplayFoldIs
<1>3. f[1..n] = g[1..n] 
  <2>1. n + 1 \in Nat /\ n <= n + 1 /\ n <= n BY <1>0
  <2> HIDE DEF n, a
  <2> QED BY <1>0, <1>1, <1>2, <2>1, ReplayFoldUnique
<1>4. g[1..(n + 1)] = Replay(g[1..n], a[n + 1])
  <2> HIDE DEF n, a
  <2>0. n + 1 \in 1..(n + 1) BY <1>0
  <2>1. 1..(n + 1) # {} BY <2>0
  <2>3. (1..(n + 1)) \ {n + 1} = 1..n BY <1>0
  <2>2. Max(1..(n + 1)) = n + 1 BY <1>0, <2>0, MaxOf
  <2> QED BY <1>2, <2>1, <2>2, <2>3, Zenon DEF ReplayFold
<1> QED BY <1>0, <1>1, <1>2, <1>3, <1>4

-----------------------------------------------------------------------------
(***************************************************************************)
(* The inductive invariant of the journal.                                 *)
(***************************************************************************)
\* A log whose last record was cut short, and what there is before it.
Torn(l) == l # <<>> /\ l[Len(l)].have < l[Len(l)].size
BodyOf(l) == IF Torn(l) THEN SubSeq(l, 1, Len(l) - 1) ELSE l

Record == [kind : {"entry", "check"}, index : Int, prev : Seq(Fields),
           fields : Fields, have : Nat, size : Nat]

Contents == [entries : Seq(Fields), check : Int]

\* Only the last record of a log may be incomplete.
LogShape(l) ==
    /\ l \in Seq(Record)
    /\ \A i \in 1..Len(l) : /\ 0 < l[i].have /\ l[i].have <= l[i].size
                            /\ i < Len(l) => l[i].have = l[i].size

\* What a restart would read.
DurableIn(l) == FoldLeft(Replay, Closed, BodyOf(l))
Durable == DurableIn(log)

\* The contents of a log and the checkpoints that are in it.
LogInv ==
    /\ LogShape(log)
    /\ Durable \in Contents
    /\ Durable.check \in -1..(Len(Durable.entries) - 1)
    /\ Len(Durable.entries) <= Len(BodyOf(log))
    /\ Durable.check # -1 =>
          \E i \in 1..Len(log) : /\ log[i].kind = "check"
                                 /\ log[i].have = log[i].size
                                 /\ log[i].index = Durable.check

\* The open journal, the head file and the caller know nothing that is not there.
MemoryInv ==
    /\ open \in {"closed", "open"}
    /\ signing \in BOOLEAN
    /\ head \in -1..Durable.check
    /\ returned \in Seq(Fields) /\ IsPrefix(returned, Durable.entries)
    /\ journal \in Contents
    /\ journal.check \in -1..Durable.check
    /\ open = "open" => ~Torn(log) /\ journal.entries = Durable.entries
    /\ open = "closed" => ~signing /\ journal = Closed
    /\ signing => Durable.check = Len(Durable.entries) - 1

ClientSession == [terms : [rounds : {Rounds}, first_sender : Parties, total : [Parties -> {Rounds}]],
                  fee : BOOLEAN, confirm : BOOLEAN, position : FeePositions,
                  state : SessionStates, round : 0..Rounds, leg : {0, 1},
                  acked : SUBSET Parties]

\* The phases of the session.
PhasesInv ==
    /\ session \in ClientSession
    /\ session.state = "WaitingForPeer" => session.round = 0
    /\ session.state \in {"WaitingForSent", "WaitingForReceived"}
          => session.round < Rounds
    /\ session.state = "WaitingForFinalReceiptAck"
          => session.round < Rounds \/ GateIsFeeLeg(session)
    /\ session.state \in {"WaitingForFeeSent", "WaitingForFeeConfirmation"}
          => session.fee /\ (session.position = "AfterLastRound" \/ session.round < Rounds)

\* A Sent that was recorded and not answered was accepted, or is still to come.
PendingInv ==
    (Durable.entries # <<>> /\ Last(Durable.entries).ack = "Pending") =>
        LET last == Last(Durable.entries)
            signal == [state |-> last.state, round |-> last.round]
        IN  /\ last.sent
            /\ last.state \in {"WaitingForSent", "WaitingForFeeSent"}
            /\ \/ signal \in taken
               \/ session.state = "Aborted"
               \/ MyTurn /\ signal = Local

JournalInv == LogInv /\ MemoryInv /\ PhasesInv /\ PendingInv

-----------------------------------------------------------------------------
\* The part of a log that is whole.
LEMMA BodyFacts ==
  ASSUME NEW l, LogShape(l)
  PROVE  /\ l \in Seq(Record) /\ BodyOf(l) \in Seq(Record)
         /\ Len(l) \in Nat /\ DOMAIN l = 1..Len(l)
         /\ \A i \in 1..Len(l) : l[i] \in Record
  BY DEF LogShape, BodyOf, Torn

\* A write after a whole record: it is read if it is whole itself.
LEMMA WriteBody ==
  ASSUME NEW l, LogShape(l), ~Torn(l), NEW y \in Record, 0 < y.have, y.have <= y.size
  PROVE  /\ LogShape(Append(l, y))
         /\ y.have = y.size => ~Torn(Append(l, y)) /\ BodyOf(Append(l, y)) = Append(BodyOf(l), y)
         /\ y.have < y.size => Torn(Append(l, y)) /\ BodyOf(Append(l, y)) = BodyOf(l)
<1>0. l \in Seq(Record) /\ Len(l) \in Nat BY BodyFacts
<1> DEFINE a == Append(l, y)
<1>1. /\ a \in Seq(Record) /\ Len(a) = Len(l) + 1 /\ a[Len(l) + 1] = y /\ a # <<>>
      /\ \A i \in 1..Len(l) : a[i] = l[i]
  BY <1>0
<1>2. \A i \in 1..Len(l) : l[i].have = l[i].size
  <2>1. ASSUME NEW i \in 1..Len(l) PROVE l[i].have = l[i].size
    <3>1. CASE i < Len(l) BY <3>1 DEF LogShape
    <3>2. CASE i = Len(l)
      <4>1. l # <<>> BY <3>2, <1>0
      <4>2. l[i] \in Record BY <1>0
      <4> QED BY <3>2, <4>1, <4>2 DEF Torn, LogShape, Record
    <3> QED BY <3>1, <3>2, <1>0
  <2> QED BY <2>1
<1>3. LogShape(a)
  <2>1. ASSUME NEW i \in 1..Len(a)
        PROVE /\ 0 < a[i].have /\ a[i].have <= a[i].size
              /\ i < Len(a) => a[i].have = a[i].size
    <3>1. CASE i \in 1..Len(l) 
      <4>1. a[i] = l[i] BY <3>1, <1>1
      <4> QED BY <4>1, <3>1, <1>2 DEF LogShape
    <3>2. CASE i = Len(l) + 1 BY <3>2, <1>1, <1>0
    <3> QED BY <3>1, <3>2, <1>1, <1>0
  <2> QED BY <2>1, <1>1 DEF LogShape
<1>4. SubSeq(a, 1, Len(a) - 1) = l BY <1>0, <1>1
<1>5. BodyOf(l) = l BY DEF BodyOf
<1>6. Torn(a) <=> y.have < y.size BY <1>1 DEF Torn
<1>7. y.have \in Nat /\ y.size \in Nat BY DEF Record
<1>8. a = Append(l, y) OBVIOUS
<1> HIDE DEF a
<1>9. BodyOf(a) = IF Torn(a) THEN l ELSE a BY <1>4 DEF BodyOf
<1> QED BY <1>3, <1>5, <1>6, <1>7, <1>8, <1>9

\* Where the parsing of a log stops.
LEMMA CutFacts ==
  ASSUME LogShape(log)
  PROVE  /\ FirstCut = IF Torn(log) THEN Len(log) ELSE 0
         /\ Parsed = BodyOf(log)
<1> DEFINE I == {i \in 1..Len(log) : log[i].have < log[i].size}
<1>0. Len(log) \in Nat /\ log \in Seq(Record) BY BodyFacts
<1>1. FirstCut = IF I # {} THEN Min(I) ELSE 0 BY DEF FirstCut, SelectInSeq
<1>2. CASE Torn(log)
  <2>1. Len(log) \in I /\ Len(log) # 0 BY <1>2, <1>0 DEF Torn
  <2>2. \A i \in I : i = Len(log)
    <3> TAKE i \in I
    <3>1. i < Len(log) => log[i].have = log[i].size BY DEF LogShape
    <3>2. log[i] \in Record BY <1>0
    <3>3. log[i].have \in Nat /\ log[i].size \in Nat BY <3>2 DEF Record
    <3>4. log[i].have # log[i].size BY <3>3
    <3>5. ~(i < Len(log)) BY <3>1, <3>4
    <3> QED BY <3>5, <1>0
  <2>4. Min(I) = Len(log)
    <3>1. Len(log) \in I /\ \A j \in I : Len(log) <= j BY <2>1, <2>2, <1>0
    <3>2. \A k \in I : (\A j \in I : k <= j) => k = Len(log) BY <2>2
    <3> HIDE DEF I
    <3> QED BY <3>1, <3>2 DEF Min
  <2>5. FirstCut = Len(log)
    <3> HIDE DEF I
    <3>1. I # {} BY <2>1
    <3> QED BY <1>1, <3>1, <2>4
  <2> QED BY <2>5, <2>1, <1>2 DEF Parsed, BodyOf
<1>3. CASE ~Torn(log)
  <2>1. ASSUME NEW i \in I PROVE FALSE
    <3>1. i < Len(log) => log[i].have = log[i].size BY DEF LogShape
    <3>2. log[i] \in Record BY <1>0
    <3>a. log[i].have \in Nat /\ log[i].size \in Nat BY <3>2 DEF Record
    <3>b. log[i].have # log[i].size BY <3>a
    <3>c. ~(i < Len(log)) BY <3>1, <3>b
    <3>3. i = Len(log) BY <3>c, <1>0
    <3>4. log # <<>> BY <3>3, <1>0
    <3> QED BY <3>3, <3>4, <1>3 DEF Torn
  <2>2. I = {} BY <2>1
  <2>3. FirstCut = 0 BY <1>1, <2>2
  <2> QED BY <2>3, <1>3 DEF Parsed, BodyOf
<1> QED BY <1>2, <1>3

\* The bytes after the last record are none, so that a torn record at the end
\* is taken for what it is.
LEMMA TornTailFacts ==
  ASSUME LogShape(log), Torn(log)
  PROVE  TornTail(FirstCut)
<1>0. Len(log) \in Nat /\ log \in Seq(Record) BY BodyFacts
<1>1. FirstCut = Len(log) BY CutFacts
<1>2. Len(log) \in 1..Len(log) BY <1>0 DEF Torn
<1>3. log[Len(log)].have < log[Len(log)].size BY DEF Torn
<1>4. BytesAfter(Len(log)) = 0
  <2>1. SubSeq(log, Len(log) + 1, Len(log)) = <<>> BY <1>0
  <2> DEFINE add(n, x) == n + x.have
             R(f) == f = [s \in SUBSET {} |-> IF s = {} THEN 0
                            ELSE add(f[s \ {Max(s)}], <<>>[Max(s)])]
             it == CHOOSE f : R(f)
  <2>2. BytesAfter(Len(log)) = FoldLeft(add, 0, <<>>) BY <2>1 DEF BytesAfter
  <2>3. DOMAIN <<>> = {} OBVIOUS
  <2>4. FoldLeft(add, 0, <<>>) = it[{}] BY <2>3, Zenon DEF FoldLeft, MapThenFoldSet
  <2>5. R([s \in SUBSET {} |-> 0]) OBVIOUS
  <2>6. R(it) BY <2>5, Zenon
  <2> HIDE DEF it
  <2>7. it[{}] = 0 BY <2>6
  <2> QED BY <2>2, <2>4, <2>7
<1>5. log[Len(log)] \in Record BY <1>0, <1>2
<1> QED BY <1>1, <1>3, <1>4, <1>5 DEF TornTail, Cut, Record

\* What an open log is read as.
LEMMA ReadFacts ==
  ASSUME LogShape(log), Durable \in Contents, head \in -1..Durable.check
  PROVE  /\ Replayed = Durable
         /\ OpenResults = {"open"}
         /\ Truncated = BodyOf(log)
<1>1. Replayed = Durable BY CutFacts DEF Replayed, Durable, DurableIn
<1>2. FirstCut # 0 => TornTail(FirstCut) BY CutFacts, TornTailFacts
<1>3. "error" \notin DOMAIN Durable BY DEF Contents
<1>4. ~HeadAhead(Durable) 
  <2>1. Durable.check \in Int BY DEF Contents
  <2> QED BY <2>1 DEF HeadAhead
<1>5. Truncated = BodyOf(log)
  <2>1. CASE Torn(log)
    <3>1. Len(log) # 0 BY <2>1, BodyFacts DEF Torn
    <3> QED BY <2>1, <3>1, <1>2, CutFacts DEF Truncated
  <2>2. CASE ~Torn(log) BY <2>2, CutFacts DEF Truncated, BodyOf
  <2> QED BY <2>1, <2>2
<1> QED BY <1>1, <1>2, <1>3, <1>4, <1>5 DEF OpenResults

\* A record more of a log that is whole is replayed after the others.
LEMMA DurableMore ==
  ASSUME NEW l, LogShape(l), ~Torn(l), NEW y \in Record, 0 < y.have, y.have <= y.size
  PROVE  DurableIn(Append(l, y)) = IF y.have = y.size THEN Replay(DurableIn(l), y) ELSE DurableIn(l)
<1>1. BodyOf(l) \in Seq(Record) BY BodyFacts
<1>2. FoldLeft(Replay, Closed, Append(BodyOf(l), y)) = Replay(FoldLeft(Replay, Closed, BodyOf(l)), y) BY <1>1, ReplayAppend
<1>3. y.have \in Nat /\ y.size \in Nat BY DEF Record
<1>4. CASE y.have = y.size
  <2>1. BodyOf(Append(l, y)) = Append(BodyOf(l), y) BY <1>4, WriteBody
  <2> QED BY <1>4, <2>1, <1>2 DEF DurableIn
<1>5. CASE y.have < y.size
  <2>1. BodyOf(Append(l, y)) = BodyOf(l) BY <1>5, WriteBody
  <2>2. y.have # y.size BY <1>5, <1>3
  <2> QED BY <2>1, <2>2 DEF DurableIn
<1> QED BY <1>3, <1>4, <1>5

\* An entry that append() accepts is accepted by the replay.
LEMMA ReplayEntry ==
  ASSUME NEW j \in Contents, NEW f \in Fields, Accepts(j.entries, f), NEW n
  PROVE  Replay(j, [EntryRecord(j.entries, f) EXCEPT !.have = n]) = [entries |-> Append(j.entries, f), check |-> j.check]
<1> DEFINE x == [EntryRecord(j.entries, f) EXCEPT !.have = n]
<1>1. x.kind = "entry" /\ x.index = Len(j.entries) /\ x.prev = j.entries /\ x.fields = f BY DEF EntryRecord
<1>2. "error" \notin DOMAIN j BY DEF Contents
<1> HIDE DEF x
<1>3. Replay(j, x) = [j EXCEPT !.entries = Append(@, x.fields)] BY <1>1, <1>2 DEF Replay
<1>4. Replay(j, x) = [entries |-> Append(j.entries, f), check |-> j.check] BY <1>3, <1>1 DEF Contents
<1> QED BY <1>4 DEF x

\* So is a checkpoint of all the entries.
LEMMA ReplayCheck ==
  ASSUME NEW j \in Contents, j.entries # <<>>, j.check <= Len(j.entries) - 1, NEW n
  PROVE  Replay(j, [CheckRecord(j.entries) EXCEPT !.have = n]) = [entries |-> j.entries, check |-> Len(j.entries) - 1]
<1> DEFINE x == [CheckRecord(j.entries) EXCEPT !.have = n]
<1>1. x.kind = "check" /\ x.index = Len(j.entries) - 1 /\ x.prev = j.entries BY DEF CheckRecord
<1>2. "error" \notin DOMAIN j BY DEF Contents
<1>3. j.entries \in Seq(Fields) /\ j.check \in Int /\ Len(j.entries) \in Nat BY DEF Contents
<1>4. SubSeq(j.entries, 1, Len(j.entries)) = j.entries BY <1>3
<1> HIDE DEF x
<1>5. x.index + 1 = Len(j.entries) BY <1>1, <1>3
<1>6. x.prev = SubSeq(j.entries, 1, x.index + 1) BY <1>1, <1>4, <1>5
<1>7. x.index < Len(j.entries) /\ x.index >= j.check BY <1>1, <1>3
<1>8. Replay(j, x) = [j EXCEPT !.check = x.index] BY <1>1, <1>2, <1>6, <1>7, Zenon DEF Replay
<1>9. Replay(j, x) = [entries |-> j.entries, check |-> Len(j.entries) - 1] BY <1>8, <1>1 DEF Contents
<1> QED BY <1>9 DEF x

\* The records that a client writes: an entry ...
LEMMA EntryTypes ==
  ASSUME NEW e \in Seq(Fields), NEW f \in Fields, NEW n \in Nat
  PROVE  /\ [EntryRecord(e, f) EXCEPT !.have = n] \in Record
         /\ [EntryRecord(e, f) EXCEPT !.have = n].have = n
         /\ [EntryRecord(e, f) EXCEPT !.have = n].size = EntrySize
         /\ EntryRecord(e, f) = [EntryRecord(e, f) EXCEPT !.have = EntrySize]
<1>1. EntrySize \in Nat /\ Len(e) \in Nat BY JournalAssumption
<1> HIDE DEF Fields
<1> QED BY <1>1 DEF EntryRecord, Record

\* ... or a checkpoint.
LEMMA CheckTypes ==
  ASSUME NEW e \in Seq(Fields), e # <<>>, NEW n \in Nat
  PROVE  /\ [CheckRecord(e) EXCEPT !.have = n] \in Record
         /\ [CheckRecord(e) EXCEPT !.have = n].have = n
         /\ [CheckRecord(e) EXCEPT !.have = n].size = CheckSize
         /\ CheckRecord(e) = [CheckRecord(e) EXCEPT !.have = CheckSize]
<1>1. CheckSize \in Nat /\ Len(e) \in Nat BY JournalAssumption
<1>2. Last(e) \in Fields BY <1>1 DEF Last
<1> HIDE DEF Fields
<1> QED BY <1>1, <1>2 DEF CheckRecord, Record

\* Writing an entry, all of it or n units of it.
LEMMA WriteEntry ==
  ASSUME LogInv, ~Torn(log), NEW f \in Fields, Accepts(Durable.entries, f),
         NEW n \in 1..EntrySize,
         log' = Append(log, [EntryRecord(Durable.entries, f) EXCEPT !.have = n])
  PROVE  /\ LogInv'
         /\ n < EntrySize => Durable' = Durable
         /\ n = EntrySize => /\ Durable' = [entries |-> Append(Durable.entries, f), check |-> Durable.check]
                             /\ ~Torn(log')
<1> DEFINE y == [EntryRecord(Durable.entries, f) EXCEPT !.have = n]
<1>p. Durable \in Contents /\ LogShape(log) BY DEF LogInv
<1>q. Durable.entries \in Seq(Fields) BY <1>p DEF Contents
<1>r. EntrySize \in Nat /\ n \in Nat /\ 0 < n /\ n <= EntrySize
  <2> HIDE DEF y
  <2> QED BY JournalAssumption
<1>0. Durable \in Contents /\ Durable.entries \in Seq(Fields) /\ LogShape(log) /\ EntrySize \in Nat /\ n \in Nat /\ 0 < n /\ n <= EntrySize
  BY <1>p, <1>q, <1>r
<1>1. y \in Record /\ y.have = n /\ y.size = EntrySize
  <2> HIDE DEF y
  <2>1. Durable.entries \in Seq(Fields) /\ n \in Nat BY <1>0
  <2>2. /\ [EntryRecord(Durable.entries, f) EXCEPT !.have = n] \in Record
        /\ [EntryRecord(Durable.entries, f) EXCEPT !.have = n].have = n
        /\ [EntryRecord(Durable.entries, f) EXCEPT !.have = n].size = EntrySize
    BY <2>1, EntryTypes
  <2> QED BY <2>2 DEF y
<1>9. y.kind = "entry" BY DEF EntryRecord
<1>2. Replay(Durable, y) = [entries |-> Append(Durable.entries, f), check |-> Durable.check] BY <1>0, ReplayEntry
<1>l. log' = Append(log, y) OBVIOUS
<1> HIDE DEF y
<1>3. Durable' = IF n = EntrySize THEN Replay(Durable, y) ELSE Durable BY <1>0, <1>1, <1>l, DurableMore DEF Durable
<1>4. /\ LogShape(log')
      /\ n = EntrySize => ~Torn(log') /\ BodyOf(log') = Append(BodyOf(log), y)
      /\ n < EntrySize => BodyOf(log') = BodyOf(log)
  BY <1>0, <1>1, <1>l, WriteBody
<1>5. log \in Seq(Record) /\ BodyOf(log) \in Seq(Record) BY <1>0, BodyFacts
<1>6. Len(log') = Len(log) + 1 /\ \A i \in 1..Len(log) : log'[i] = log[i] /\ i \in 1..Len(log') BY <1>5, <1>l
<1>a. Durable.check # -1 => \E i \in 1..Len(log) : log[i].kind = "check" /\ log[i].have = log[i].size /\ log[i].index = Durable.check
  BY DEF LogInv
<1>b. Durable.check # -1 => \E i \in 1..Len(log') : log'[i].kind = "check" /\ log'[i].have = log'[i].size /\ log'[i].index = Durable.check
  BY <1>a, <1>6
<1>c. Durable.check \in -1..(Len(Durable.entries) - 1) /\ Len(Durable.entries) <= Len(BodyOf(log)) BY DEF LogInv
<1>7. CASE n = EntrySize
  <2>1. Durable' = [entries |-> Append(Durable.entries, f), check |-> Durable.check] BY <1>7, <1>2, <1>3
  <2>2. /\ Durable'.check = Durable.check /\ Durable'.entries = Append(Durable.entries, f)
        /\ Len(Durable'.entries) = Len(Durable.entries) + 1 /\ Len(Durable.entries) \in Nat
        /\ Durable'.entries \in Seq(Fields) /\ Durable.check \in Int
    BY <2>1, <1>0 DEF Contents
  <2>3. Len(BodyOf(log')) = Len(BodyOf(log)) + 1 /\ Len(BodyOf(log)) \in Nat BY <1>4, <1>5, <1>7, <1>1
  <2>4. Durable' \in Contents BY <2>1, <2>2 DEF Contents
  <2>5. Durable'.check \in -1..(Len(Durable'.entries) - 1) /\ Len(Durable'.entries) <= Len(BodyOf(log')) BY <1>c, <2>2, <2>3
  <2>6. LogInv' BY <2>4, <2>5, <2>2, <1>b, <1>4 DEF LogInv
  <2> QED BY <2>6, <2>1, <1>4, <1>7
<1>8. CASE n # EntrySize
  <2>1. Durable' = Durable /\ n < EntrySize BY <1>8, <1>3, <1>0
  <2>2. BodyOf(log') = BodyOf(log) BY <2>1, <1>4
  <2>3. LogInv' BY <2>1, <2>2, <1>b, <1>c, <1>4, <1>0 DEF LogInv
  <2> QED BY <2>1, <2>3, <1>8
<1> QED BY <1>7, <1>8

\* Writing a checkpoint of all the entries.
LEMMA WriteCheck ==
  ASSUME LogInv, ~Torn(log), Durable.entries # <<>>, NEW n \in 1..CheckSize,
         log' = Append(log, [CheckRecord(Durable.entries) EXCEPT !.have = n])
  PROVE  /\ LogInv'
         /\ n < CheckSize => Durable' = Durable
         /\ n = CheckSize => /\ Durable' = [entries |-> Durable.entries, check |-> Len(Durable.entries) - 1]
                             /\ ~Torn(log')
<1> DEFINE y == [CheckRecord(Durable.entries) EXCEPT !.have = n]
<1>p. Durable \in Contents /\ LogShape(log) BY DEF LogInv
<1>q. Durable.entries \in Seq(Fields) BY <1>p DEF Contents
<1>r. CheckSize \in Nat /\ n \in Nat /\ 0 < n /\ n <= CheckSize
  <2> HIDE DEF y
  <2> QED BY JournalAssumption
<1>0. Durable \in Contents /\ Durable.entries \in Seq(Fields) /\ LogShape(log) /\ CheckSize \in Nat /\ n \in Nat /\ 0 < n /\ n <= CheckSize
  BY <1>p, <1>q, <1>r
<1>c. Durable.check \in -1..(Len(Durable.entries) - 1) /\ Len(Durable.entries) <= Len(BodyOf(log)) BY DEF LogInv
<1>f. Last(Durable.entries) \in Fields /\ Len(Durable.entries) \in Nat /\ Len(Durable.entries) # 0 BY <1>0 DEF Last
<1>1. y \in Record /\ y.have = n /\ y.size = CheckSize BY <1>0, <1>f, CheckTypes
<1>9. y.kind = "check" /\ y.index = Len(Durable.entries) - 1 BY DEF CheckRecord
<1>2. Replay(Durable, y) = [entries |-> Durable.entries, check |-> Len(Durable.entries) - 1]
  <2>1. Durable.check <= Len(Durable.entries) - 1 BY <1>c, <1>f, <1>0
  <2> QED BY <1>0, <2>1, ReplayCheck, Zenon
<1>l. log' = Append(log, y) OBVIOUS
<1> HIDE DEF y
<1>3. Durable' = IF n = CheckSize THEN Replay(Durable, y) ELSE Durable BY <1>0, <1>1, <1>l, DurableMore DEF Durable
<1>4. /\ LogShape(log')
      /\ n = CheckSize => ~Torn(log') /\ BodyOf(log') = Append(BodyOf(log), y)
      /\ n < CheckSize => BodyOf(log') = BodyOf(log)
  BY <1>0, <1>1, <1>l, WriteBody
<1>5. log \in Seq(Record) /\ BodyOf(log) \in Seq(Record) /\ Len(log) \in Nat BY <1>0, BodyFacts
<1>6. Len(log') = Len(log) + 1 /\ log'[Len(log) + 1] = y /\ \A i \in 1..Len(log) : log'[i] = log[i] /\ i \in 1..Len(log') BY <1>5, <1>l
<1>7. CASE n = CheckSize
  <2>1. Durable' = [entries |-> Durable.entries, check |-> Len(Durable.entries) - 1] BY <1>7, <1>2, <1>3
  <2>2. Durable'.check = Len(Durable.entries) - 1 /\ Durable'.entries = Durable.entries BY <2>1
  <2>3. Len(BodyOf(log')) = Len(BodyOf(log)) + 1 /\ Len(BodyOf(log)) \in Nat BY <1>4, <1>5, <1>7, <1>1
  <2>4. Durable' \in Contents BY <2>1, <1>0, <1>f DEF Contents
  <2>5. Durable'.check \in -1..(Len(Durable'.entries) - 1) /\ Len(Durable'.entries) <= Len(BodyOf(log')) BY <1>c, <1>f, <2>2, <2>3
  <2>7. \E i \in 1..Len(log') : log'[i].kind = "check" /\ log'[i].have = log'[i].size /\ log'[i].index = Durable'.check
    <3>1. Len(log) + 1 \in 1..Len(log') BY <1>5, <1>6
    <3> QED BY <3>1, <1>6, <1>9, <1>1, <1>7, <2>2
  <2>6. LogInv' BY <2>4, <2>5, <2>7, <1>4 DEF LogInv
  <2> QED BY <2>6, <2>1, <1>4, <1>7
<1>8. CASE n # CheckSize
  <2>1. Durable' = Durable /\ n < CheckSize BY <1>8, <1>3, <1>0
  <2>2. BodyOf(log') = BodyOf(log) BY <2>1, <1>4
  <2>a. Durable.check # -1 => \E i \in 1..Len(log) : log[i].kind = "check" /\ log[i].have = log[i].size /\ log[i].index = Durable.check
    BY DEF LogInv
  <2>b. Durable.check # -1 => \E i \in 1..Len(log') : log'[i].kind = "check" /\ log'[i].have = log'[i].size /\ log'[i].index = Durable.check
    BY <2>a, <1>6
  <2>3. LogInv' BY <2>1, <2>2, <2>b, <1>c, <1>4, <1>0 DEF LogInv
  <2> QED BY <2>1, <2>3, <1>8
<1> QED BY <1>7, <1>8

\* Cutting off what is torn.
LEMMA TruncateFacts ==
  ASSUME LogInv, log' = BodyOf(log)
  PROVE  LogInv' /\ Durable' = Durable /\ ~Torn(log')
<1>0. LogShape(log) /\ log \in Seq(Record) /\ Len(log) \in Nat BY BodyFacts DEF LogInv
<1>1. CASE Torn(log)
  <2>0. Len(log) # 0 BY <1>1, <1>0 DEF Torn
  <2>1. log' = SubSeq(log, 1, Len(log) - 1) BY <1>1 DEF BodyOf
  <2>a. Len(log') = Len(log) - 1 /\ Len(log') \in Nat
    <3>1. Len(log) - 1 \in Nat BY <2>0, <1>0
    <3>2. Len(SubSeq(log, 1, Len(log) - 1)) = Len(log) - 1 BY <3>1, <1>0
    <3> QED BY <3>1, <3>2, <2>1
  <2>2. Len(log') = Len(log) - 1 /\ \A i \in 1..Len(log') : log'[i] = log[i] /\ i \in 1..Len(log) /\ i < Len(log)
    <3>1. ASSUME NEW i \in 1..Len(log') PROVE log'[i] = log[i] /\ i \in 1..Len(log) /\ i < Len(log)
      <4>1. i \in 1..(Len(log) - 1) BY <2>a
      <4>2. i \in 1..Len(log) /\ i < Len(log) BY <4>1, <1>0
      <4>3. SubSeq(log, 1, Len(log) - 1)[i] = log[i] BY <4>1, <1>0
      <4> QED BY <4>2, <4>3, <2>1
    <3> QED BY <3>1, <2>a
  <2>3. LogShape(log')
    <3>1. ASSUME NEW i \in 1..Len(log')
          PROVE  0 < log'[i].have /\ log'[i].have <= log'[i].size /\ log'[i].have = log'[i].size
      <4>1. log'[i] = log[i] /\ i \in 1..Len(log) /\ i < Len(log) BY <2>2
      <4>2. 0 < log[i].have /\ log[i].have <= log[i].size /\ log[i].have = log[i].size
        BY <4>1, <1>0 DEF LogShape
      <4> QED BY <4>1, <4>2
    <3>2. log' \in Seq(Record)
      <4>1. \A i \in 1..(Len(log) - 1) : log[i] \in Record
        <5> TAKE i \in 1..(Len(log) - 1)
        <5> QED BY <1>0
      <4> QED BY <4>1, <2>1, <2>a
    <3> QED BY <3>1, <3>2 DEF LogShape
  <2>4. ~Torn(log')
    <3>1. SUFFICES ASSUME log' # <<>> PROVE ~(log'[Len(log')].have < log'[Len(log')].size) BY DEF Torn
    <3>2. Len(log') \in 1..Len(log') BY <3>1, <2>1, <1>0
    <3>3. log[Len(log')].have = log[Len(log')].size /\ log'[Len(log')] = log[Len(log')] /\ log[Len(log')] \in Record
      BY <3>2, <2>2, <1>0 DEF LogShape
    <3> QED BY <3>3 DEF Record
  <2>5. BodyOf(log') = BodyOf(log) BY <2>4 DEF BodyOf
  <2>6. Durable' = Durable BY <2>5 DEF Durable, DurableIn
  <2>7. Durable.check # -1 => \E i \in 1..Len(log') : log'[i].kind = "check" /\ log'[i].have = log'[i].size /\ log'[i].index = Durable.check
    <3> HAVE Durable.check # -1
    <3>1. PICK i \in 1..Len(log) : log[i].kind = "check" /\ log[i].have = log[i].size /\ log[i].index = Durable.check BY DEF LogInv
    <3>2. i # Len(log)
      <4>1. log[Len(log)] \in Record BY <2>0, <1>0
      <4>2. log[Len(log)].have # log[Len(log)].size BY <4>1, <1>1 DEF Torn, Record
      <4> QED BY <3>1, <4>2
    <3>3. i \in 1..Len(log') BY <3>2, <2>2, <1>0
    <3> QED BY <3>1, <3>3, <2>2
  <2>8. LogInv' BY <2>3, <2>5, <2>6, <2>7 DEF LogInv
  <2> QED BY <2>4, <2>6, <2>8
<1>2. CASE ~Torn(log)
  <2>1. log' = log BY <1>2 DEF BodyOf
  <2>2. Durable' = Durable BY <2>1 DEF Durable
  <2> QED BY <2>1, <2>2, <1>2 DEF LogInv
<1> QED BY <1>1, <1>2

-----------------------------------------------------------------------------
\* A call on the session is one of these.
LEMMA SessionMoves ==
  ASSUME NEW p, SessionStep(p)
  PROVE  \/ JoinAccepted(session) /\ session' = Join(session)
         \/ /\ session.state \in {"WaitingForFeeSent", "WaitingForSent"}
            /\ p = CurrentSender(session)
            /\ session' = SenderReportedSent(session)
         \/ session.state = "WaitingForReceived" /\ session' = AdvanceAfterReceipt(session)
         \/ session.state = "WaitingForFinalReceiptAck" /\ session' = AcknowledgeFinalReceipt(session, p)
         \/ ConfirmAccepted(session) /\ session' = ConfirmFeeReceived(session)
         \/ session.state \notin {"Complete", "Aborted"} /\ session' = Abort(session)
  BY DEF SessionStep, SentAccepted, ReceivedAccepted, AckAccepted, AbortAccepted, ReceiverReportedReceived

\* Every call keeps the phases.
LEMMA PhasesStep ==
  ASSUME PhasesInv, NEW p \in Parties,
         SessionStep(p) \/ (MyTurn /\ session' = SenderReportedSent(session))
  PROVE  PhasesInv'
<1>0. /\ session \in ClientSession /\ Rounds \in Nat \ {0}
      /\ session.terms.rounds = Rounds
  BY JournalAssumption DEF PhasesInv, ClientSession
<1>1. /\ session.round \in 0..Rounds /\ session.leg \in {0, 1} /\ session.acked \in SUBSET Parties
      /\ session.state \in SessionStates
  BY <1>0 DEF ClientSession
<1> DEFINE Phases(s) ==
        /\ s \in ClientSession
        /\ s.state = "WaitingForPeer" => s.round = 0
        /\ s.state \in {"WaitingForSent", "WaitingForReceived"} => s.round < Rounds
        /\ s.state = "WaitingForFinalReceiptAck" => s.round < Rounds \/ GateIsFeeLeg(s)
        /\ s.state \in {"WaitingForFeeSent", "WaitingForFeeConfirmation"}
              => s.fee /\ (s.position = "AfterLastRound" \/ s.round < Rounds)
<1>p. Phases(session) BY DEF PhasesInv
<1>2. SUFFICES Phases(session') BY DEF PhasesInv, GateIsFeeLeg
<1>3. ASSUME JoinAccepted(session), session' = Join(session) PROVE Phases(session')
  <2>1. session.state = "WaitingForPeer" BY <1>3 DEF JoinAccepted
  <2>2. session' = [session EXCEPT !.state = session'.state] /\ session'.state \in {"WaitingForFeeSent", "WaitingForSent"}
    BY <1>3, <1>0 DEF Join, ClientSession
  <2>3. session' \in ClientSession BY <2>2, <1>0 DEF ClientSession, SessionStates
  <2>4. session'.state = "WaitingForFeeSent" => session.fee BY <1>3, <1>0 DEF Join, ClientSession, FeeDueBeforeAnyRound
  <2>5. session'.round = session.round /\ session'.fee = session.fee BY <2>2, <1>0 DEF ClientSession
  <2> QED BY <2>1, <2>2, <2>3, <2>4, <2>5, <1>p, <1>0
<1>4. ASSUME session.state \in {"WaitingForFeeSent", "WaitingForSent"}, session' = SenderReportedSent(session) PROVE Phases(session')
  <2>1. session' = [session EXCEPT !.state = session'.state]
        /\ session'.state \in {"WaitingForReceived", "WaitingForFeeConfirmation", "Complete", "WaitingForSent"}
    BY <1>4, <1>0 DEF SenderReportedSent, ClientSession
  <2>2. session' \in ClientSession BY <2>1, <1>0 DEF ClientSession, SessionStates
  <2>3. session'.round = session.round /\ session'.fee = session.fee /\ session'.position = session.position BY <2>1, <1>0 DEF ClientSession
  <2>4. /\ session'.state = "WaitingForReceived" => session.state = "WaitingForSent"
        /\ session'.state = "WaitingForFeeConfirmation" => session.state = "WaitingForFeeSent"
        /\ session'.state = "WaitingForSent" => session.state = "WaitingForFeeSent" /\ session.position # "AfterLastRound"
    BY <1>4, <1>0 DEF SenderReportedSent, ClientSession
  <2> QED BY <2>1, <2>2, <2>3, <2>4, <1>p, <1>0, <1>1
<1>5. ASSUME session.state = "WaitingForReceived", session' = AdvanceAfterReceipt(session) PROVE Phases(session')
  <2>0. session.round < Rounds BY <1>5, <1>p
  <2>1. CASE session.leg = 0
    <3>1. session' = [session EXCEPT !.leg = 1, !.acked = session'.acked, !.state = session'.state]
          /\ session'.acked \in SUBSET Parties
          /\ session'.state \in {"WaitingForFinalReceiptAck", "WaitingForSent"}
      BY <1>5, <2>1, <1>0 DEF AdvanceAfterReceipt, AfterFirstLeg, ClientSession
    <3>2. session' \in ClientSession BY <3>1, <1>0 DEF ClientSession, SessionStates
    <3>3. session'.round = session.round BY <3>1, <1>0 DEF ClientSession
    <3> QED BY <3>1, <3>2, <3>3, <2>0
  <2>2. CASE session.leg = 1
    <3>1. /\ session' = [session EXCEPT !.leg = 0, !.round = session.round + 1, !.acked = session'.acked, !.state = session'.state]
          /\ session'.acked \in SUBSET Parties
          /\ session'.state \in {"WaitingForFinalReceiptAck", "WaitingForSent", "WaitingForFeeSent", "Complete"}
          /\ session'.state = "WaitingForFeeSent" => session.fee /\ session.round + 1 = Rounds - 1
          /\ session'.state = "WaitingForFinalReceiptAck" => session.fee /\ session.position = "AfterLastRound" /\ session.round + 1 = Rounds
          /\ session'.state = "WaitingForSent" => session.round + 1 # Rounds
      BY <1>5, <2>2, <1>0 DEF AdvanceAfterReceipt, AfterSecondLeg, ClientSession
    <3>2. session' \in ClientSession
      <4>1. session.round + 1 \in 0..Rounds /\ session'.state \in SessionStates BY <3>1, <2>0, <1>0, <1>1 DEF SessionStates
      <4>2. session'.acked \in SUBSET Parties BY <3>1
      <4>3. session' = [session EXCEPT !.leg = 0, !.round = session.round + 1, !.acked = session'.acked, !.state = session'.state] BY <3>1
      <4> QED BY <4>1, <4>2, <4>3, <1>0 DEF ClientSession
    <3>3. session'.round = session.round + 1 /\ session'.fee = session.fee /\ session'.position = session.position
          /\ session'.terms = session.terms
      BY <3>1, <1>0 DEF ClientSession
    <3> QED BY <3>1, <3>2, <3>3, <2>0, <1>0, <1>1 DEF GateIsFeeLeg
  <2> QED BY <2>1, <2>2, <1>1
<1>6. ASSUME session.state = "WaitingForFinalReceiptAck", session' = AcknowledgeFinalReceipt(session, p) PROVE Phases(session')
  <2>1. /\ session' = [session EXCEPT !.acked = session'.acked, !.state = session'.state]
        /\ session'.acked = session.acked \cup {p}
        /\ session'.state \in {"WaitingForFinalReceiptAck", "WaitingForFeeSent", "WaitingForSent"}
        /\ session'.state = "WaitingForFeeSent" => GateIsFeeLeg(session)
        /\ session'.state = "WaitingForSent" => ~GateIsFeeLeg(session)
    BY <1>6, <1>0 DEF AcknowledgeFinalReceipt, ClientSession
  <2>2. session' \in ClientSession
    <3>1. session'.acked \in SUBSET Parties /\ session'.state \in SessionStates BY <2>1, <1>1 DEF SessionStates
    <3> QED BY <2>1, <3>1, <1>0 DEF ClientSession
  <2>3. session'.round = session.round /\ session'.fee = session.fee /\ session'.position = session.position
        /\ session'.terms = session.terms
    BY <2>1, <1>0 DEF ClientSession
  <2> QED BY <2>1, <2>2, <2>3, <1>6, <1>p DEF GateIsFeeLeg
<1>7. ASSUME ConfirmAccepted(session), session' = ConfirmFeeReceived(session) PROVE Phases(session')
  <2>1. /\ session' = [session EXCEPT !.state = session'.state]
        /\ session.state = "WaitingForFeeConfirmation"
        /\ session'.state \in {"Complete", "WaitingForSent"}
        /\ session'.state = "WaitingForSent" => session.position # "AfterLastRound"
    BY <1>7, <1>0 DEF ConfirmAccepted, ConfirmFeeReceived, ClientSession
  <2>2. session' \in ClientSession BY <2>1, <1>0 DEF ClientSession, SessionStates
  <2>3. session'.round = session.round BY <2>1, <1>0 DEF ClientSession
  <2> QED BY <2>1, <2>2, <2>3, <1>p
<1>8. ASSUME session' = Abort(session) PROVE Phases(session')
  <2>1. session' = [session EXCEPT !.state = "Aborted"] BY <1>8 DEF Abort
  <2>2. session' \in ClientSession /\ session'.state = "Aborted" BY <2>1, <1>0 DEF ClientSession, SessionStates
  <2> QED BY <2>2
<1>9. MyTurn => session.state \in {"WaitingForFeeSent", "WaitingForSent"} BY DEF MyTurn
<1> HIDE DEF Phases
<1>10. SessionStep(p) => Phases(session') BY <1>3, <1>4, <1>5, <1>6, <1>7, <1>8, SessionMoves
<1> QED BY <1>10, <1>4, <1>9

\* With the fee at the end, a call moves the session as the journal allows.
LEMMA StepIsValid ==
  ASSUME PhasesInv, session.fee => session.position = "AfterLastRound", NEW p \in Parties,
         SessionStep(p) \/ (MyTurn /\ session' = SenderReportedSent(session))
  PROVE  IsValidTransition(session.state, session'.state)
<1>0. session \in ClientSession BY DEF PhasesInv
<1>1. ASSUME JoinAccepted(session), session' = Join(session) PROVE IsValidTransition(session.state, session'.state)
  BY <1>1, <1>0 DEF JoinAccepted, Join, FeeDueBeforeAnyRound, ClientSession, IsValidTransition
<1>2. ASSUME session.state \in {"WaitingForFeeSent", "WaitingForSent"}, session' = SenderReportedSent(session)
      PROVE IsValidTransition(session.state, session'.state)
  <2>1. session'.state = IF session.state = "WaitingForSent" THEN "WaitingForReceived"
        ELSE IF session.confirm THEN "WaitingForFeeConfirmation"
        ELSE IF session.position = "AfterLastRound" THEN "Complete"
        ELSE "WaitingForSent"
    BY <1>2, <1>0 DEF SenderReportedSent, ClientSession
  <2>2. session.state = "WaitingForFeeSent" => session.position = "AfterLastRound" BY DEF PhasesInv
  <2> QED BY <2>1, <2>2, <1>2 DEF IsValidTransition
<1>3. ASSUME session.state = "WaitingForReceived", session' = AdvanceAfterReceipt(session)
      PROVE IsValidTransition(session.state, session'.state)
  <2>1. session'.state \in {"WaitingForSent", "WaitingForFinalReceiptAck", "Complete"}
    <3>1. CASE session.leg = 0 BY <3>1, <1>3, <1>0 DEF AdvanceAfterReceipt, AfterFirstLeg, ClientSession
    <3>2. CASE session.leg # 0 BY <3>2, <1>3, <1>0 DEF AdvanceAfterReceipt, AfterSecondLeg, ClientSession
    <3> QED BY <3>1, <3>2
  <2> QED BY <2>1, <1>3 DEF IsValidTransition
<1>4. ASSUME session.state = "WaitingForFinalReceiptAck", session' = AcknowledgeFinalReceipt(session, p)
      PROVE IsValidTransition(session.state, session'.state)
  <2>1. session'.state \in {"WaitingForFinalReceiptAck", "WaitingForFeeSent", "WaitingForSent"}
    BY <1>4, <1>0 DEF AcknowledgeFinalReceipt, ClientSession
  <2> QED BY <2>1, <1>4 DEF IsValidTransition
<1>5. ASSUME ConfirmAccepted(session), session' = ConfirmFeeReceived(session)
      PROVE IsValidTransition(session.state, session'.state)
  <2>1. session.state = "WaitingForFeeConfirmation" /\ session.position = "AfterLastRound" BY <1>5 DEF ConfirmAccepted, PhasesInv
  <2>2. session'.state = "Complete" BY <2>1, <1>5, <1>0 DEF ConfirmFeeReceived, ClientSession
  <2> QED BY <2>1, <2>2 DEF IsValidTransition
<1>6. ASSUME session.state \notin {"Complete", "Aborted"}, session' = Abort(session)
      PROVE IsValidTransition(session.state, session'.state)
  <2>1. session'.state = "Aborted" BY <1>6, <1>0 DEF Abort, ClientSession
  <2>2. session.state \in SessionStates BY <1>0 DEF ClientSession
  <2> QED BY <2>1, <2>2, <1>6 DEF IsValidTransition, SessionStates
<1>7. MyTurn => session.state \in {"WaitingForFeeSent", "WaitingForSent"} BY DEF MyTurn
<1> QED BY <1>1, <1>2, <1>3, <1>4, <1>5, <1>6, <1>7, SessionMoves

\* While it is A's turn to send, only A's Sent or an abort moves the session;
\* nothing moves one that was aborted.
LEMMA MyTurnMoves ==
  ASSUME PhasesInv, NEW p \in Parties, SessionStep(p)
  PROVE  /\ session.state # "Aborted"
         /\ MyTurn => p = "A" \/ session'.state = "Aborted"
<1>0. session \in ClientSession BY DEF PhasesInv
<1>1. session' = Abort(session) => session'.state = "Aborted" BY <1>0 DEF Abort, ClientSession
<1>2. MyTurn => session.state \in {"WaitingForSent", "WaitingForFeeSent"} /\ CurrentSender(session) = "A" BY DEF MyTurn
<1> QED BY <1>1, <1>2, SessionMoves DEF JoinAccepted, ConfirmAccepted

\* What is recorded about a Sent stays true when the session moves on.
LEMMA PendingTrade ==
  ASSUME PendingInv, PhasesInv, log' = log, taken \subseteq taken',
         \/ \E p \in Parties : SessionStep(p) /\ ~(p = "A" /\ MyTurn)
         \/ MyTurn /\ session' = SenderReportedSent(session) /\ Local \in taken'
  PROVE  PendingInv'
<1>1. Durable' = Durable BY DEF Durable
<1>2. SUFFICES ASSUME Durable.entries # <<>> /\ Last(Durable.entries).ack = "Pending"
               PROVE LET last == Last(Durable.entries)
                         signal == [state |-> last.state, round |-> last.round]
                     IN  /\ last.sent
                         /\ last.state \in {"WaitingForSent", "WaitingForFeeSent"}
                         /\ signal \in taken' \/ session'.state = "Aborted"
  BY <1>1 DEF PendingInv
<1> DEFINE last == Last(Durable.entries)
           signal == [state |-> last.state, round |-> last.round]
<1>3. /\ last.sent
      /\ last.state \in {"WaitingForSent", "WaitingForFeeSent"}
      /\ \/ signal \in taken
         \/ session.state = "Aborted"
         \/ MyTurn /\ signal = Local
  BY <1>2 DEF PendingInv
<1>4. session.state # "Aborted" BY MyTurnMoves DEF MyTurn
<1>5. MyTurn => Local \in taken' \/ session'.state = "Aborted" BY MyTurnMoves
<1> QED BY <1>3, <1>4, <1>5

\* A recorded Sent is about the turn that is on.
LEMMA PendingAppend ==
  ASSUME PhasesInv, journal \in Contents, NEW f \in Appendable
  PROVE  /\ f \in Fields
         /\ Accepts(journal.entries, f)
         /\ f.ack = "Pending" => f.sent /\ MyTurn /\ [state |-> f.state, round |-> f.round] = Local
<1>0. /\ session \in ClientSession /\ session.state \in SessionStates /\ session.round \in 0..Rounds
      /\ f \in Due /\ Accepts(journal.entries, f)
  BY DEF PhasesInv, ClientSession, Appendable
<1>1. CASE f = Noted(Started /\ LastEntry.ack = "Pending",
                IF Started /\ LastEntry.ack = "Pending" THEN "Acknowledged"
                                                       ELSE "NotApplicable")
  <2>1. (Started /\ LastEntry.ack = "Pending") \in BOOLEAN OBVIOUS
  <2>2. f.ack \in {"Acknowledged", "NotApplicable"} BY <1>1 DEF Noted
  <2>3. f \in Fields BY <1>0, <1>1, <2>1, <2>2 DEF Noted, Fields
  <2> QED BY <2>2, <2>3, <1>0
<1>2. CASE MyTurn /\ f = Noted(TRUE, "Pending")
  BY <1>0, <1>2 DEF Noted, Fields, Local
<1> QED BY <1>0, <1>1, <1>2 DEF Due

\* PendingInv when an entry was added to what is durable.
LEMMA PendingMore ==
  ASSUME LogInv, NEW f \in Fields, Durable' = [entries |-> Append(Durable.entries, f), check |-> Durable.check],
         f.ack = "Pending" => f.sent /\ MyTurn /\ [state |-> f.state, round |-> f.round] = Local,
         UNCHANGED <<session, taken>>
  PROVE  PendingInv'
<1>1. Durable.entries \in Seq(Fields) BY DEF LogInv, Contents
<1>2. Last(Durable'.entries) = f BY <1>1 DEF Last
<1>3. f.ack = "Pending" => (MyTurn => session.state \in {"WaitingForSent", "WaitingForFeeSent"}) BY DEF MyTurn
<1>4. f.ack = "Pending" => f.state = session.state BY DEF Local
<1> QED BY <1>2, <1>3, <1>4 DEF PendingInv, MyTurn, Local

\* Appending keeps a prefix.
LEMMA PrefixMore ==
  ASSUME NEW s \in Seq(Fields), NEW t \in Seq(Fields), IsPrefix(s, t), NEW f \in Fields
  PROVE  IsPrefix(s, Append(t, f))
<1> HIDE DEF Fields
<1>1. SubSeq(Append(t, f), 1, Len(s)) = SubSeq(t, 1, Len(s))
  <2>1. Len(s) \in Nat /\ Len(t) \in Nat /\ Len(s) <= Len(t) BY DEF IsPrefix
  <2> QED BY <2>1
<1>2. Len(Append(t, f)) = Len(t) + 1 /\ Len(s) \in Nat /\ Len(t) \in Nat OBVIOUS
<1> QED BY <1>1, <1>2 DEF IsPrefix

LEMMA PrefixSelf ==
  ASSUME NEW s \in Seq(Fields) PROVE IsPrefix(s, s)
<1>1. Len(s) \in Nat OBVIOUS
<1> QED BY <1>1 DEF IsPrefix

-----------------------------------------------------------------------------
\* The steps keep the invariant.
LEMMA JournalInitInv == Init => JournalInv
<1> SUFFICES ASSUME Init PROVE JournalInv OBVIOUS
<1>1. log = <<>> /\ head = -1 /\ journal = Closed /\ open = "closed" /\ signing = FALSE /\ returned = <<>> BY DEF Init
<1>2. ~Torn(log) BY <1>1 DEF Torn
<1>3. BodyOf(log) = <<>> BY <1>1, <1>2 DEF BodyOf
<1>4. Durable = Closed BY <1>3, ReplayEmpty DEF Durable, DurableIn
<1>5. Closed \in Contents /\ Closed.check = -1 /\ Closed.entries = <<>> BY DEF Closed, Contents
<1>6. LogInv
  <2>1. LogShape(log) BY <1>1 DEF LogShape
  <2> QED BY <2>1, <1>3, <1>4, <1>5 DEF LogInv
<1>7. MemoryInv
  <2>1. IsPrefix(<<>>, <<>>) BY DEF IsPrefix
  <2>2. returned \in Seq(Fields) /\ IsPrefix(returned, Durable.entries) BY <2>1, <1>1, <1>4, <1>5
  <2>3. head \in -1..Durable.check /\ journal.check \in -1..Durable.check BY <1>1, <1>4, <1>5
  <2> QED BY <2>2, <2>3, <1>1, <1>4, <1>5 DEF MemoryInv
<1>8. PhasesInv
  <2>1. PICK c \in FeeConfigs, first \in Parties :
           session = NewSession([rounds |-> Rounds, first_sender |-> first,
                                 total |-> [q \in Parties |-> Rounds]],
                                c.fee, c.confirm, c.position)
    BY DEF Init
  <2>2. c \in [fee : BOOLEAN, confirm : BOOLEAN, position : FeePositions] /\ Rounds \in Nat \ {0} BY JournalAssumption
  <2>3. [rounds |-> Rounds, first_sender |-> first, total |-> [q \in Parties |-> Rounds]]
           \in [rounds : {Rounds}, first_sender : Parties, total : [Parties -> {Rounds}]]
    OBVIOUS
  <2>4. session \in ClientSession BY <2>1, <2>2, <2>3 DEF NewSession, ClientSession, SessionStates
  <2>5. session.state = "WaitingForPeer" /\ session.round = 0 BY <2>1 DEF NewSession
  <2> QED BY <2>4, <2>5 DEF PhasesInv
<1>9. PendingInv BY <1>4, <1>5 DEF PendingInv
<1> QED BY <1>6, <1>7, <1>8, <1>9 DEF JournalInv

LEMMA OpenInv == ASSUME JournalInv, Open PROVE JournalInv'
<1>0. LogInv /\ MemoryInv /\ PhasesInv /\ PendingInv BY DEF JournalInv
<1>a. Durable \in Contents /\ LogShape(log) /\ head \in -1..Durable.check /\ Durable.check \in Int BY <1>0 DEF LogInv, MemoryInv, Contents
<1>1. Replayed = Durable /\ OpenResults = {"open"} /\ Truncated = BodyOf(log) BY <1>a, ReadFacts
<1>2. /\ open' = "open" /\ journal' = Durable /\ log' = BodyOf(log)
      /\ UNCHANGED <<session, head, signing, faults, returned, taken>>
      /\ open = "closed"
  BY <1>1 DEF Open
<1>3. LogInv' /\ Durable' = Durable /\ ~Torn(log') BY <1>2, <1>0, TruncateFacts
<1>4. ~signing BY <1>2, <1>0 DEF MemoryInv
<1>5. MemoryInv'
  <2>1. journal'.check \in -1..Durable'.check BY <1>2, <1>3, <1>0, <1>a DEF LogInv
  <2> QED BY <2>1, <1>2, <1>3, <1>4, <1>0, <1>a DEF MemoryInv
<1>6. PhasesInv' BY <1>2, <1>0 DEF PhasesInv, GateIsFeeLeg
<1>7. PendingInv' BY <1>2, <1>3, <1>0 DEF PendingInv, MyTurn, Local
<1> QED BY <1>3, <1>5, <1>6, <1>7 DEF JournalInv

\* What an open journal is.
LEMMA OpenFacts ==
  ASSUME JournalInv, open = "open"
  PROVE  /\ ~Torn(log) /\ journal.entries = Durable.entries
         /\ journal \in Contents /\ Durable \in Contents /\ Durable.entries \in Seq(Fields)
         /\ Durable.check \in Int
  BY DEF JournalInv, LogInv, MemoryInv, Contents

LEMMA AppendEntryInv == ASSUME JournalInv, AppendEntry PROVE JournalInv'
<1>0. LogInv /\ MemoryInv /\ PhasesInv /\ PendingInv BY DEF JournalInv
<1>1. open = "open" /\ ~signing BY DEF AppendEntry, ReadyToAppend
<1>2. PICK f \in Appendable : /\ log' = Append(log, EntryRecord(journal.entries, f))
                              /\ journal' = [journal EXCEPT !.entries = Append(@, f)]
  BY DEF AppendEntry
<1>3. returned' = journal'.entries /\ UNCHANGED <<session, head, open, signing, faults, taken>> BY DEF AppendEntry
<1>4. f \in Fields /\ Accepts(Durable.entries, f)
      /\ (f.ack = "Pending" => f.sent /\ MyTurn /\ [state |-> f.state, round |-> f.round] = Local)
  BY <1>0, <1>1, OpenFacts, PendingAppend
<1>5. EntrySize \in Nat /\ EntrySize \in 1..EntrySize BY JournalAssumption
<1>6. log' = Append(log, [EntryRecord(Durable.entries, f) EXCEPT !.have = EntrySize])
  BY <1>1, <1>2, <1>4, <1>5, OpenFacts, EntryTypes
<1>7. /\ LogInv' /\ ~Torn(log')
      /\ Durable' = [entries |-> Append(Durable.entries, f), check |-> Durable.check]
  BY <1>0, <1>1, <1>4, <1>5, <1>6, OpenFacts, WriteEntry
<1>8. PendingInv' BY <1>0, <1>4, <1>7, <1>3, PendingMore
<1>9. journal' = [entries |-> Append(Durable.entries, f), check |-> journal.check]
  BY <1>1, <1>2, OpenFacts DEF Contents
<1>10. MemoryInv'
  <2>1. /\ Durable'.check = Durable.check /\ Durable'.entries = Append(Durable.entries, f)
        /\ journal'.check = journal.check /\ journal'.entries = Append(Durable.entries, f)
    BY <1>7, <1>9
  <2>2. Append(Durable.entries, f) \in Seq(Fields) /\ journal.check \in Int BY <1>1, <1>4, OpenFacts DEF Contents
  <2>3. journal' \in Contents BY <2>2, <1>9 DEF Contents
  <2>4. IsPrefix(Append(Durable.entries, f), Append(Durable.entries, f)) BY <2>2, PrefixSelf
  <2> QED BY <2>1, <2>2, <2>3, <2>4, <1>0, <1>1, <1>3, <1>7 DEF MemoryInv
<1>11. PhasesInv' BY <1>3, <1>0 DEF PhasesInv, GateIsFeeLeg
<1> QED BY <1>7, <1>8, <1>10, <1>11 DEF JournalInv

LEMMA CheckpointRecordInv == ASSUME JournalInv, CheckpointRecord PROVE JournalInv'
<1>0. LogInv /\ MemoryInv /\ PhasesInv /\ PendingInv BY DEF JournalInv
<1>1. /\ open = "open" /\ ~signing /\ journal.entries # <<>>
      /\ log' = Append(log, CheckRecord(journal.entries)) /\ signing' = TRUE
      /\ UNCHANGED <<session, head, journal, open, returned, taken>>
  BY DEF CheckpointRecord, ReadyToAppend, Started
<1>2. CheckSize \in Nat /\ CheckSize \in 1..CheckSize BY JournalAssumption
<1>3. log' = Append(log, [CheckRecord(Durable.entries) EXCEPT !.have = CheckSize])
  <2>1. Durable.entries \in Seq(Fields) /\ Durable.entries # <<>> /\ journal.entries = Durable.entries BY <1>1, OpenFacts
  <2>2. CheckRecord(Durable.entries) = [CheckRecord(Durable.entries) EXCEPT !.have = CheckSize] BY <2>1, <1>2, CheckTypes
  <2> QED BY <2>1, <2>2, <1>1
<1>4. /\ LogInv' /\ ~Torn(log')
      /\ Durable' = [entries |-> Durable.entries, check |-> Len(Durable.entries) - 1]
  BY <1>0, <1>1, <1>2, <1>3, OpenFacts, WriteCheck
<1>5. /\ Durable'.check = Len(Durable.entries) - 1 /\ Durable'.entries = Durable.entries BY <1>4
<1>6. Durable.check \in -1..Durable'.check /\ Durable'.check \in Int BY <1>5, <1>0 DEF LogInv, Contents
<1>7. MemoryInv'
  <2>1. head' \in -1..Durable'.check /\ journal'.check \in -1..Durable'.check BY <1>0, <1>1, <1>6 DEF MemoryInv
  <2> QED BY <2>1, <1>0, <1>1, <1>4, <1>5 DEF MemoryInv
<1>8. PendingInv' BY <1>5, <1>1, <1>0 DEF PendingInv, MyTurn, Local
<1>9. PhasesInv' BY <1>1, <1>0 DEF PhasesInv, GateIsFeeLeg
<1> QED BY <1>4, <1>7, <1>8, <1>9 DEF JournalInv

LEMMA CheckpointHeadInv ==
  ASSUME JournalInv, CheckpointHead \/ HeadWriteFails PROVE JournalInv'
<1>0. LogInv /\ MemoryInv /\ PhasesInv /\ PendingInv BY DEF JournalInv
<1>1. signing /\ signing' = FALSE /\ UNCHANGED <<session, log, open, returned, taken>> BY DEF CheckpointHead, HeadWriteFails
<1>2. open = "open" /\ Durable.check = Len(Durable.entries) - 1 /\ Durable.check \in -1..Durable.check
  <2>1. open = "open" /\ Durable.check = Len(Durable.entries) - 1 BY <1>1, <1>0 DEF MemoryInv
  <2>2. Durable.check \in -1..(Len(Durable.entries) - 1) /\ Durable.check \in Int BY <1>0 DEF LogInv, Contents
  <2> QED BY <2>1, <2>2
<1>3. \/ head' = Durable.check /\ journal' = [journal EXCEPT !.check = Durable.check]
      \/ UNCHANGED <<head, journal>>
  BY <1>2, OpenFacts DEF CheckpointHead, HeadWriteFails
<1>4. Durable' = Durable BY <1>1 DEF Durable
<1>5. LogInv' BY <1>0, <1>1, <1>4 DEF LogInv
<1>6. head' \in -1..Durable.check /\ journal' \in Contents /\ journal'.check \in -1..Durable.check /\ journal'.entries = journal.entries
  <2>1. CASE UNCHANGED <<head, journal>> BY <2>1, <1>0 DEF MemoryInv
  <2>2. CASE head' = Durable.check /\ journal' = [journal EXCEPT !.check = Durable.check]
    BY <2>2, <1>0, <1>2, OpenFacts DEF Contents
  <2> QED BY <1>3, <2>1, <2>2
<1>7. MemoryInv' BY <1>0, <1>1, <1>2, <1>4, <1>6 DEF MemoryInv
<1>8. PendingInv' BY <1>4, <1>1, <1>0 DEF PendingInv, MyTurn, Local
<1>9. PhasesInv' BY <1>1, <1>0 DEF PhasesInv, GateIsFeeLeg
<1> QED BY <1>5, <1>7, <1>8, <1>9 DEF JournalInv

\* A crash leaves in the log what it had, or the beginning of one record more.
LEMMA CrashInv == ASSUME JournalInv, Crash PROVE JournalInv'
<1>0. LogInv /\ MemoryInv /\ PhasesInv /\ PendingInv BY DEF JournalInv
<1>1. /\ open = "open" /\ journal' = Closed /\ open' = "closed" /\ signing' = FALSE
      /\ UNCHANGED <<session, head, returned, taken>>
  BY DEF Crash
<1>2. /\ ~Torn(log) /\ journal.entries = Durable.entries /\ journal \in Contents /\ Durable \in Contents
      /\ Durable.entries \in Seq(Fields) /\ Durable.check \in Int
  BY <1>1, OpenFacts
<1>c. EntrySize \in Nat \ {0} /\ CheckSize \in Nat \ {0} BY JournalAssumption
<1>3. SUFFICES /\ LogInv' /\ PendingInv'
               /\ Durable.check <= Durable'.check
               /\ IsPrefix(returned, Durable'.entries)
  <2>1. /\ LogInv' /\ PendingInv' /\ Durable.check <= Durable'.check
        /\ IsPrefix(returned, Durable'.entries)
    BY <1>3
  <2>2. Durable'.check \in Int BY <2>1 DEF LogInv, Contents
  <2>3. head \in -1..Durable.check /\ returned \in Seq(Fields) BY <1>0 DEF MemoryInv
  <2>4. head \in -1..Durable'.check /\ -1 \in -1..Durable'.check BY <2>1, <2>2, <2>3, <1>2
  <2>5. Closed \in Contents /\ Closed.check = -1 BY DEF Closed, Contents
  <2>6. MemoryInv' BY <1>1, <2>1, <2>3, <2>4, <2>5 DEF MemoryInv
  <2>7. PhasesInv' BY <1>1, <1>0 DEF PhasesInv, GateIsFeeLeg
  <2> QED BY <2>1, <2>6, <2>7 DEF JournalInv
<1>4. \/ log' = log
      \/ \E f \in Appendable : \E n \in 1..EntrySize :
            log' = Append(log, [EntryRecord(Durable.entries, f) EXCEPT !.have = n])
      \/ /\ Durable.entries # <<>>
         /\ \E n \in 1..CheckSize :
               log' = Append(log, [CheckRecord(Durable.entries) EXCEPT !.have = n])
  <2>1. CASE log' = log BY <2>1
  <2>2. CASE \E x \in Writable : \E y \in Fragments(x) : log' = Append(log, y)
    <3>0. PICK x \in Writable : \E y \in Fragments(x) : log' = Append(log, y) BY <2>2
    <3>1. PICK y \in Fragments(x) : log' = Append(log, y) BY <3>0
    <3>2. PICK n \in 1..x.size : y = [x EXCEPT !.have = n] BY DEF Fragments
    <3>3. CASE \E f \in Appendable : x = EntryRecord(journal.entries, f)
      <4>1. PICK f \in Appendable : x = EntryRecord(journal.entries, f) BY <3>3
      <4>2. x.size = EntrySize BY <4>1 DEF EntryRecord
      <4> QED BY <3>1, <3>2, <4>1, <4>2, <1>2
    <3>4. CASE Started /\ x = CheckRecord(journal.entries)
      <4>2. x.size = CheckSize BY <3>4 DEF CheckRecord
      <4> QED BY <3>1, <3>2, <3>4, <4>2, <1>2 DEF Started
    <3> QED BY <3>3, <3>4 DEF Writable
  <2> QED BY <2>1, <2>2 DEF Crash
<1>5. ASSUME UNCHANGED log
      PROVE  LogInv' /\ PendingInv' /\ Durable' = Durable
  <2>1. Durable' = Durable BY <1>5 DEF Durable
  <2>2. LogInv' BY <2>1, <1>0, <1>5 DEF LogInv
  <2>3. PendingInv' BY <2>1, <1>0, <1>1 DEF PendingInv, MyTurn, Local
  <2> QED BY <2>1, <2>2, <2>3
<1>p. IsPrefix(returned, Durable.entries) /\ returned \in Seq(Fields) BY <1>0 DEF MemoryInv
<1>s. Durable' = Durable => PendingInv' BY <1>0, <1>1 DEF PendingInv, MyTurn, Local
<1>6. CASE log' = log BY <1>5, <1>6, <1>p, <1>2
<1>7. ASSUME NEW f \in Appendable, NEW n \in 1..EntrySize,
             log' = Append(log, [EntryRecord(Durable.entries, f) EXCEPT !.have = n])
      PROVE  /\ LogInv' /\ PendingInv'
             /\ Durable.check <= Durable'.check
             /\ IsPrefix(returned, Durable'.entries)
  <2>1. f \in Fields /\ Accepts(Durable.entries, f)
        /\ (f.ack = "Pending" => f.sent /\ MyTurn /\ [state |-> f.state, round |-> f.round] = Local)
    BY <1>0, <1>2, PendingAppend
  <2>2. /\ LogInv'
        /\ n < EntrySize => Durable' = Durable
        /\ n = EntrySize => Durable' = [entries |-> Append(Durable.entries, f), check |-> Durable.check]
    BY <1>0, <1>2, <1>7, <2>1, WriteEntry
  <2>3. n < EntrySize \/ n = EntrySize BY <1>c
  <2>4. CASE n < EntrySize BY <2>2, <2>4, <1>s, <1>p, <1>2
  <2>5. CASE n = EntrySize
    <3>1. Durable' = [entries |-> Append(Durable.entries, f), check |-> Durable.check] BY <2>5, <2>2
    <3>2. PendingInv' BY <1>0, <1>1, <2>1, <3>1, PendingMore
    <3>3. IsPrefix(returned, Append(Durable.entries, f)) BY <1>p, <1>2, <2>1, PrefixMore
    <3> QED BY <3>1, <3>2, <3>3, <2>2, <1>2
  <2> QED BY <2>3, <2>4, <2>5
<1>8. ASSUME Durable.entries # <<>>, NEW n \in 1..CheckSize,
             log' = Append(log, [CheckRecord(Durable.entries) EXCEPT !.have = n])
      PROVE  /\ LogInv' /\ PendingInv'
             /\ Durable.check <= Durable'.check
             /\ IsPrefix(returned, Durable'.entries)
  <2>2. /\ LogInv'
        /\ n < CheckSize => Durable' = Durable
        /\ n = CheckSize => Durable' = [entries |-> Durable.entries, check |-> Len(Durable.entries) - 1]
    BY <1>0, <1>2, <1>8, WriteCheck
  <2>3. n < CheckSize \/ n = CheckSize BY <1>c
  <2>4. CASE n < CheckSize BY <2>2, <2>4, <1>s, <1>p, <1>2
  <2>5. CASE n = CheckSize
    <3>1. Durable'.entries = Durable.entries /\ Durable'.check = Len(Durable.entries) - 1 BY <2>5, <2>2
    <3>2. PendingInv' BY <1>0, <1>1, <3>1 DEF PendingInv, MyTurn, Local
    <3>3. Durable.check <= Durable'.check BY <3>1, <1>0, <1>2 DEF LogInv
    <3> QED BY <3>1, <3>2, <3>3, <2>2, <1>p
  <2> QED BY <2>3, <2>4, <2>5
<1> QED BY <1>4, <1>6, <1>7, <1>8

LEMMA TradeInv == ASSUME JournalInv, TradeOnline \/ TradeOffline PROVE JournalInv'
<1>0. LogInv /\ MemoryInv /\ PhasesInv /\ PendingInv BY DEF JournalInv
<1>1. UNCHANGED <<log, head, journal, open, signing, returned>> BY DEF TradeOnline, TradeOffline
<1>2. Durable' = Durable BY <1>1 DEF Durable
<1>3. LogInv' BY <1>0, <1>1, <1>2 DEF LogInv
<1>4. MemoryInv' BY <1>0, <1>1, <1>2 DEF MemoryInv
<1>5. \/ \E p \in Parties : SessionStep(p) /\ ~(p = "A" /\ MyTurn)
      \/ MyTurn /\ session' = SenderReportedSent(session) /\ Local \in taken'
  <2>1. CASE TradeOffline BY <2>1 DEF TradeOffline, Parties
  <2>2. CASE TradeOnline /\ MyTurn /\ session' = SenderReportedSent(session)
    <3>1. session'.state # "Aborted"
      <4>1. session \in ClientSession BY <1>0 DEF PhasesInv
      <4> QED BY <4>1, <2>2 DEF SenderReportedSent, ClientSession
    <3> QED BY <2>2, <3>1 DEF TradeOnline
  <2> QED BY <2>1, <2>2 DEF TradeOnline
<1>6. taken \subseteq taken' BY DEF TradeOnline, TradeOffline
<1>7. PendingInv' BY <1>0, <1>1, <1>5, <1>6, PendingTrade
<1>8. PhasesInv'
  <2>1. CASE \E p \in Parties : SessionStep(p) BY <2>1, <1>0, PhasesStep
  <2>2. CASE MyTurn /\ session' = SenderReportedSent(session)
    <3>1. "A" \in Parties BY DEF Parties
    <3> QED BY <2>2, <3>1, <1>0, PhasesStep
  <2> QED BY <1>5, <2>1, <2>2
<1> QED BY <1>3, <1>4, <1>7, <1>8 DEF JournalInv

LEMMA JournalNextInv == ASSUME JournalInv, [Next]_vars PROVE JournalInv'
<1>1. CASE UNCHANGED vars
  <2>0. UNCHANGED <<session, log, head, journal, open, signing, returned, taken>> BY <1>1 DEF vars
  <2>1. Durable' = Durable BY <2>0 DEF Durable
  <2>2. LogInv' BY <2>0, <2>1 DEF JournalInv, LogInv
  <2>3. MemoryInv' BY <2>0, <2>1 DEF JournalInv, MemoryInv
  <2>4. PhasesInv' BY <2>0 DEF JournalInv, PhasesInv, GateIsFeeLeg
  <2>5. PendingInv' BY <2>0, <2>1 DEF JournalInv, PendingInv, MyTurn, Local
  <2> QED BY <2>2, <2>3, <2>4, <2>5 DEF JournalInv
<1> QED
  BY <1>1, OpenInv, AppendEntryInv, CheckpointRecordInv, CheckpointHeadInv, CrashInv, TradeInv DEF Next

\* The log, the memory and the session fit together, however often the client
\* is killed in the middle of a write.
THEOREM JournalSound == Spec => []JournalInv
<1>1. Init => JournalInv BY JournalInitInv
<1>2. JournalInv /\ [Next]_vars => JournalInv' BY JournalNextInv
<1> QED BY <1>1, <1>2, PTL DEF Spec

\* The journal and the files have their types, and the index in the head file
\* is within the log.
THEOREM JournalTypes == Spec => []TypeOK
<1>1. JournalInv => TypeOK
  <2>1. SUFFICES ASSUME JournalInv PROVE TypeOK OBVIOUS
  <2>2. LogInv /\ MemoryInv BY <2>1 DEF JournalInv
  <2>3. log \in Seq(Record) /\ BodyOf(log) \in Seq(Record) /\ Len(log) \in Nat /\ LogShape(log) BY <2>2, BodyFacts DEF LogInv
  <2>4. journal.entries \in Seq(Fields) /\ journal.check \in -1..(Len(journal.entries) - 1)
    <3>1. CASE open = "open"
      <4>1. Len(Durable.entries) \in Nat /\ Durable.check \in Int /\ journal.entries = Durable.entries /\ journal.entries \in Seq(Fields)
        BY <3>1, <2>1, OpenFacts
      <4> QED BY <4>1, <2>2 DEF LogInv, MemoryInv
    <3>2. CASE open = "closed"
      <4>1. journal = Closed BY <3>2, <2>2 DEF MemoryInv
      <4> QED BY <4>1 DEF Closed
    <3> QED BY <3>1, <3>2, <2>2 DEF MemoryInv
  <2>5. head \in -1..(Len(log) - 1)
    <3>1. Len(BodyOf(log)) <= Len(log) BY <2>3 DEF BodyOf, Torn
    <3>2. Len(Durable.entries) \in Nat /\ Durable.check \in Int BY <2>2 DEF LogInv, Contents
    <3>3. head \in -1..Durable.check /\ Durable.check \in -1..(Len(Durable.entries) - 1) /\ Len(Durable.entries) <= Len(BodyOf(log))
      BY <2>2 DEF LogInv, MemoryInv
    <3> QED BY <3>1, <3>2, <3>3, <2>3
  <2>6. \A i \in DOMAIN log : log[i].have \in 1..log[i].size
    <3>1. ASSUME NEW i \in 1..Len(log) PROVE log[i].have \in 1..log[i].size
      <4>1. log[i] \in Record BY <2>3
      <4>2. 0 < log[i].have /\ log[i].have <= log[i].size BY <2>3 DEF LogShape
      <4> QED BY <4>1, <4>2 DEF Record
    <3> QED BY <3>1, <2>3
  <2> QED BY <2>2, <2>4, <2>5, <2>6 DEF TypeOK, MemoryInv
<1> QED BY <1>1, JournalSound, PTL

\* Journal::open never fails for a crash alone: neither a record that was cut
\* short nor a head file that lags behind is taken for tampering or rollback.
THEOREM CrashesAreHarmless == Spec => []CrashesAreRecoverable
<1>1. JournalInv => CrashesAreRecoverable BY DEF JournalInv, MemoryInv, CrashesAreRecoverable
<1> QED BY <1>1, JournalSound, PTL

\* append() returns only what is durable.
THEOREM EntriesSurvive == Spec => []ReturnedEntriesSurvive
<1>1. JournalInv => ReturnedEntriesSurvive BY DEF JournalInv, MemoryInv, ReturnedEntriesSurvive
<1> QED BY <1>1, JournalSound, PTL

\* The head file is replaced only after its checkpoint is in the log.
THEOREM HeadBehindLog == Spec => []HeadNeverAhead
<1>1. JournalInv => HeadNeverAhead
  <2>1. SUFFICES ASSUME JournalInv, head # -1 PROVE \E i \in DOMAIN log : log[i].kind = "check" /\ log[i].have = log[i].size /\ log[i].index >= head
    BY DEF HeadNeverAhead
  <2>2. LogInv /\ head \in -1..Durable.check /\ Durable.check \in Int BY <2>1 DEF JournalInv, LogInv, MemoryInv, Contents
  <2>3. Durable.check # -1 /\ Durable.check >= head BY <2>1, <2>2
  <2>4. DOMAIN log = 1..Len(log) BY <2>2, BodyFacts DEF LogInv
  <2> QED BY <2>2, <2>3, <2>4 DEF LogInv
<1> QED BY <1>1, JournalSound, PTL

\* classify_recovery_action calls a pending Sent committed only if the mediator
\* took it, and one that it took never safe to repeat.
THEOREM RecoveryIsRight == Spec => []RecoveryTellsTruth
<1>1. JournalInv => RecoveryTellsTruth
  <2>1. SUFFICES ASSUME JournalInv, open = "open", Started, LastEntry.ack = "Pending"
                 PROVE  LET signal == [state |-> LastEntry.state, round |-> LastEntry.round]
                        IN  /\ Classify(LastEntry) = "AlreadyCommitted" => signal \in taken
                            /\ signal \in taken => Classify(LastEntry) # "SafeIdempotentRetry"
    BY DEF RecoveryTellsTruth
  <2>2. LastEntry = Last(Durable.entries) /\ Durable.entries # <<>> BY <2>1, OpenFacts DEF LastEntry, Started
  <2> DEFINE signal == [state |-> LastEntry.state, round |-> LastEntry.round]
  <2>3. /\ LastEntry.sent
        /\ LastEntry.state \in {"WaitingForSent", "WaitingForFeeSent"}
        /\ \/ signal \in taken
           \/ session.state = "Aborted"
           \/ MyTurn /\ signal = Local
    BY <2>1, <2>2 DEF JournalInv, PendingInv
  <2>4. session \in ClientSession BY <2>1 DEF JournalInv, PhasesInv
  <2>5. session.round \in Int BY <2>4, JournalAssumption DEF ClientSession
  <2>6. Classify(LastEntry) # "SafeIdempotentRetry" BY <2>1, <2>3 DEF Classify, IsValueBearing
  <2>7. session.state = "Aborted" => Classify(LastEntry) # "AlreadyCommitted" BY <2>3 DEF Classify
  <2>8. MyTurn /\ signal = Local => Classify(LastEntry) # "AlreadyCommitted"
    BY <2>1, <2>5 DEF Classify, MyTurn, Local, IsValueBearing
  <2> QED BY <2>3, <2>6, <2>7, <2>8
<1> QED BY <1>1, JournalSound, PTL

\* is_valid_transition lets a client record every state that its session goes
\* through, if a fee is paid after the last round.
THEOREM StatesRecordable ==
  ASSUME \A c \in FeeConfigs : c.fee => c.position = "AfterLastRound"
  PROVE  Spec => NextStateRecordable
<1> DEFINE FeeAtEnd == session.fee => session.position = "AfterLastRound"
<1>1. Init => FeeAtEnd
  <2>1. SUFFICES ASSUME Init PROVE FeeAtEnd OBVIOUS
  <2>2. PICK c \in FeeConfigs : session.fee = c.fee /\ session.position = c.position
    BY <2>1 DEF Init, NewSession
  <2> QED BY <2>2
<1>2. JournalInv /\ FeeAtEnd /\ [Next]_vars => FeeAtEnd'
  <2>1. SUFFICES ASSUME JournalInv, FeeAtEnd, [Next]_vars PROVE FeeAtEnd' OBVIOUS
  <2>2. session \in ClientSession BY <2>1 DEF JournalInv, PhasesInv
  <2>3. ASSUME NEW p \in Parties, SessionStep(p) PROVE session'.fee = session.fee /\ session'.position = session.position
    <3>1. \/ session' = Join(session)
          \/ session' = SenderReportedSent(session)
          \/ session' = ReceiverReportedReceived(session)
          \/ session' = AcknowledgeFinalReceipt(session, p)
          \/ session' = ConfirmFeeReceived(session)
          \/ session' = Abort(session)
      BY <2>3 DEF SessionStep
    <3>2. CASE session' = Join(session)
      BY <3>2, <2>2 DEF Join, ClientSession
    <3>3. CASE session' = SenderReportedSent(session)
      BY <3>3, <2>2 DEF SenderReportedSent, ClientSession
    <3>4. CASE session' = ReceiverReportedReceived(session)
      BY <3>4, <2>2 DEF ReceiverReportedReceived, AdvanceAfterReceipt, AfterFirstLeg, AfterSecondLeg, ClientSession
    <3>5. CASE session' = AcknowledgeFinalReceipt(session, p)
      BY <3>5, <2>2 DEF AcknowledgeFinalReceipt, ClientSession
    <3>6. CASE session' = ConfirmFeeReceived(session)
      BY <3>6, <2>2 DEF ConfirmFeeReceived, ClientSession
    <3>7. CASE session' = Abort(session)
      BY <3>7, <2>2 DEF Abort, ClientSession
    <3> QED BY <3>1, <3>2, <3>3, <3>4, <3>5, <3>6, <3>7
  <2>4. session' = SenderReportedSent(session) => session'.fee = session.fee /\ session'.position = session.position
    BY <2>2 DEF SenderReportedSent, ClientSession
  <2>5. \/ UNCHANGED session
        \/ \E p \in Parties : SessionStep(p)
        \/ session' = SenderReportedSent(session)
    BY <2>1 DEF Next, vars, Open, AppendEntry, CheckpointRecord, CheckpointHead, Crash, HeadWriteFails, TradeOnline, TradeOffline, Parties
  <2> QED BY <2>1, <2>3, <2>4, <2>5
<1>3. JournalInv /\ FeeAtEnd /\ [Next]_vars => [TradeOnline => Accepts(journal.entries, [state |-> session'.state])]_vars
  <2>1. SUFFICES ASSUME JournalInv, FeeAtEnd, TradeOnline PROVE Accepts(journal.entries, [state |-> session'.state]) OBVIOUS
  <2>2. PhasesInv BY <2>1 DEF JournalInv
  <2>3. journal.entries # <<>> /\ Last(journal.entries).state = session.state BY <2>1 DEF TradeOnline, Recorded, Started, Local, LastEntry
  <2>4. PICK p \in Parties : SessionStep(p) \/ (MyTurn /\ session' = SenderReportedSent(session)) BY <2>1 DEF TradeOnline, Parties
  <2>5. IsValidTransition(session.state, session'.state) BY <2>1, <2>2, <2>4, StepIsValid
  <2> QED BY <2>3, <2>5 DEF Accepts
<1> HIDE DEF FeeAtEnd
<1> QED BY <1>1, <1>2, <1>3, JournalSound, PTL DEF Spec, NextStateRecordable

-----------------------------------------------------------------------------
(***************************************************************************)
(* The inductive invariant of the directory.                               *)
(***************************************************************************)
\* A pull, idle or waiting.
PullType == [peer : Registries \cup {NoEntry}, nodes : SUBSET Node, waited : 0..Timeout]

\* What registered directly: its time to live ends no later than that of its
\* last heartbeat.
EntriesInv ==
    \A r \in Registries : \A k \in Endpoints : entries[r][k] # NoEntry =>
        /\ entries[r][k].hops = 0
        /\ entries[r][k].left > 0 => age[k] + entries[r][k].left <= Lifetime

\* A copy lives longer than that by what its hops may add ...
GossipInv ==
    \A r \in Registries : \A k \in Endpoints :
        (gossip[r][k] # NoEntry /\ gossip[r][k].left > 0 /\ gossip[r][k].hops < MaxHops) =>
            age[k] + gossip[r][k].left <= Lifetime + gossip[r][k].hops * HopGain

\* ... and so would a copy made of a listing that is on its way.
PullInv ==
    \A r \in Registries :
        /\ IsFiniteSet(pull[r].nodes)
        /\ \A n \in pull[r].nodes : n.hops + 1 < MaxHops =>
              age[n.key] + CopyLifetime(n.ttl)
                 <= Lifetime + n.hops * HopGain + TicksPerSecond + pull[r].waited

RegistryInv ==
    /\ RegistryTypeOK
    /\ pull \in [Registries -> PullType]
    /\ EntriesInv
    /\ GossipInv
    /\ PullInv

-----------------------------------------------------------------------------
(***************************************************************************)
(* Folding Merge over a listing, as Replay over a log.                     *)
(***************************************************************************)
\* All that one iteration of the merging loop makes of the maps so far.
MergeEach(r, p, maps, n) == UNION {Merge(r, p, g, n) : g \in maps}

MergeAll(r, p, map, seq) ==
    FoldLeft(LAMBDA maps, n : UNION {Merge(r, p, g, n) : g \in maps}, {map}, seq)

MergeFold(f, r, p, map, seq, n) ==
    f = [s \in SUBSET (1..n) |->
            IF s = {} THEN {map} ELSE MergeEach(r, p, f[s \ {Max(s)}], seq[Max(s)])]

LEMMA MergeFoldExists ==
  ASSUME NEW r, NEW p, NEW map, NEW seq, NEW n \in Nat
  PROVE  \E f : MergeFold(f, r, p, map, seq, n)
<1> DEFINE T == {m \in Nat : ~ \E f : MergeFold(f, r, p, map, seq, m)}
<1>1. SUFFICES ASSUME T # {} PROVE FALSE OBVIOUS
<1>2. PICK m \in T : \A k \in T : m <= k BY <1>1, LeastOf
<1>3. CASE m = 0
  <2>1. MergeFold([s \in SUBSET (1..0) |-> {map}], r, p, map, seq, 0) BY DEF MergeFold
  <2> QED BY <2>1, <1>2, <1>3
<1>4. CASE m # 0
  <2>1. m \in Nat /\ m - 1 \in Nat /\ m - 1 \notin T BY <1>2, <1>4
  <2>2. PICK g : MergeFold(g, r, p, map, seq, m - 1) BY <2>1
  <2> DEFINE h == [s \in SUBSET (1..m) |->
                      IF s = {} THEN {map}
                      ELSE IF m \in s THEN MergeEach(r, p, g[s \ {m}], seq[m]) ELSE g[s]]
             rhs == [s \in SUBSET (1..m) |->
                       IF s = {} THEN {map} ELSE MergeEach(r, p, h[s \ {Max(s)}], seq[Max(s)])]
  <2>e. {} \in SUBSET (1..(m - 1)) OBVIOUS
  <2>3. g[{}] = {map} BY <2>2, <2>e, Zenon DEF MergeFold
  <2>4. ASSUME NEW s \in SUBSET (1..m) PROVE h[s] = rhs[s]
    <3>1. CASE s = {} BY <3>1
    <3>2. CASE m \in s
      <4>1. Max(s) = m BY <3>2, <2>1, MaxOf
      <4>2. s \ {m} \in SUBSET (1..m) /\ m \notin s \ {m} OBVIOUS
      <4>3. h[s \ {m}] = g[s \ {m}] BY <4>2, <2>3
      <4>4. h[s] = MergeEach(r, p, g[s \ {m}], seq[m]) BY <3>2
      <4>5. rhs[s] = MergeEach(r, p, h[s \ {m}], seq[m]) BY <3>2, <4>1
      <4> QED BY <4>3, <4>4, <4>5
    <3>3. CASE s # {} /\ m \notin s
      <4>1. s \in SUBSET (1..(m - 1)) BY <3>3, <2>1
      <4>2. g[s] = MergeEach(r, p, g[s \ {Max(s)}], seq[Max(s)]) BY <4>1, <3>3, <2>2, Zenon DEF MergeFold
      <4>3. h[s \ {Max(s)}] = g[s \ {Max(s)}] BY <3>3, <2>3
      <4>4. h[s] = g[s] BY <3>3
      <4>5. rhs[s] = MergeEach(r, p, h[s \ {Max(s)}], seq[Max(s)]) BY <3>3
      <4> QED BY <4>2, <4>3, <4>4, <4>5
    <3> QED BY <3>1, <3>2, <3>3
  <2>5. h = rhs
    <3> HIDE DEF h
    <3>1. h = [s \in SUBSET (1..m) |-> h[s]] BY DEF h
    <3> QED BY <2>4, <3>1
  <2> HIDE DEF h
  <2>6. MergeFold(h, r, p, map, seq, m) BY <2>5 DEF MergeFold
  <2> QED BY <2>6, <1>2
<1> QED BY <1>3, <1>4

LEMMA MergeFoldIs ==
  ASSUME NEW r, NEW p, NEW map, NEW X, NEW seq \in Seq(X)
  PROVE  \E f : /\ MergeFold(f, r, p, map, seq, Len(seq))
                /\ MergeAll(r, p, map, seq) = f[1..Len(seq)]
<1> DEFINE S == DOMAIN seq
           R(f) == f = [s \in SUBSET S |-> IF s = {} THEN {map}
                           ELSE UNION {Merge(r, p, g, seq[Max(s)]) : g \in f[s \ {Max(s)}]}]
           it == CHOOSE f : R(f)
<1>1. MergeAll(r, p, map, seq) = it[S] BY Zenon DEF MergeAll, FoldLeft, MapThenFoldSet
<1>2. S = 1..Len(seq) /\ Len(seq) \in Nat OBVIOUS
<1>3. \E f : R(f)
  <2>1. PICK f : MergeFold(f, r, p, map, seq, Len(seq)) BY <1>2, MergeFoldExists
  <2>2. R(f) BY <2>1, <1>2, Zenon DEF MergeFold, MergeEach
  <2> QED BY <2>2
<1>4. R(it) BY <1>3, Zenon
<1> HIDE DEF it
<1>5. MergeFold(it, r, p, map, seq, Len(seq)) BY <1>4, <1>2, Zenon DEF MergeFold, MergeEach
<1> QED BY <1>5, <1>1, <1>2

\* What a copy of a node of a listing is in the cache of a registry.
CopyOf(e, n) ==
    /\ e.pin = n.pin
    /\ e.left = CopyLifetime(n.ttl)
    /\ e.hops = Smaller(n.hops + 1, MaxHops)

\* What merging may have made of a map: nothing is in it that was not there
\* before or was not listed.
Merged(map, nodes, m) ==
    /\ m \in [Endpoints -> Entry \cup {NoEntry}]
    /\ \A k \in Endpoints : \/ m[k] = NoEntry
                            \/ m[k] = map[k]
                            \/ \E n \in nodes : n.key = k /\ CopyOf(m[k], n)

\* Arithmetic about times to live.
LEMMA Bounds ==
  /\ TicksPerSecond \in Nat \ {0} /\ Ttl \in Nat \ {0} /\ Period \in Nat \ {0}
  /\ MaxHops \in Nat \ {0} /\ Timeout \in Nat
  /\ Lifetime \in Nat /\ HopGain \in Nat /\ OldAge \in Nat
  /\ Endpoints \subseteq Nat /\ IsFiniteSet(Endpoints) /\ NoEntry \notin Entry
<1>1. /\ TicksPerSecond \in Nat \ {0} /\ Ttl \in Nat \ {0} /\ Period \in Nat \ {0}
      /\ MaxHops \in Nat \ {0} /\ Timeout \in Nat
      /\ Endpoints \subseteq Nat /\ IsFiniteSet(Endpoints)
  BY RegistryAssumption
<1>2. Lifetime \in Nat /\ HopGain \in Nat BY <1>1 DEF Lifetime, HopGain
<1>3. MaxHops - 1 \in Nat /\ (MaxHops - 1) * HopGain \in Nat BY <1>1, <1>2
<1>4. OldAge \in Nat BY <1>1, <1>2, <1>3 DEF OldAge
<1>5. Entry \subseteq [pin : Pins, left : Nat, status : {"Pending", "Approved"},
                       shown : BOOLEAN, vetted : Pins \cup {NoPin}, hops : Nat]
  BY <1>1, <1>2 DEF Entry
<1>6. NoEntry \notin Entry BY <1>5, RegistryAssumption
<1> QED BY <1>1, <1>2, <1>4, <1>6

LEMMA TimesMonotone ==
  ASSUME NEW a \in Nat, NEW b \in Nat, NEW c \in Nat, a <= b
  PROVE  c * a <= c * b
<1>1. PICK d \in Nat : b = a + d
  <2>1. b - a \in Nat /\ b = a + (b - a) OBVIOUS
  <2> QED BY <2>1
<1>2. c * b = c * a + c * d /\ c * d \in Nat /\ c * a \in Nat BY <1>1
<1> QED BY <1>2

LEMMA DivBounds ==
  ASSUME NEW l \in Nat, NEW d \in Nat \ {0}, NEW b \in Nat, l <= b * d
  PROVE  /\ l \div d \in 0..b
         /\ d * (l \div d) <= l
         /\ l < d => l \div d = 0
<1> DEFINE q == l \div d
<1>1. q \in Nat /\ l = d * q + (l % d) /\ l % d \in 0..(d - 1) OBVIOUS
<1> HIDE DEF q
<1>2. d * q <= l
  <2>1. d * q \in Nat BY <1>1
  <2> QED BY <1>1, <2>1
<1>3. q <= b
  <2>1. SUFFICES ASSUME q >= b + 1 PROVE FALSE BY <1>1
  <2>2. d * (b + 1) <= d * q BY <2>1, <1>1, TimesMonotone
  <2>3. d * (b + 1) = b * d + d /\ b * d \in Nat /\ d * q \in Nat BY <1>1
  <2> QED BY <2>2, <2>3, <1>2
<1>4. l < d => q = 0
  <2>1. SUFFICES ASSUME l < d, q >= 1 PROVE FALSE BY <1>1
  <2>2. d * 1 <= d * q BY <2>1, <1>1, TimesMonotone
  <2>3. d * q \in Nat BY <1>1
  <2> QED BY <2>1, <2>2, <2>3, <1>2
<1> QED BY <1>1, <1>2, <1>3, <1>4 DEF q

\* The life of a copy is at least a second and no longer than a registration's.
LEMMA CopyLifetimeFacts ==
  ASSUME NEW ttl \in 1..Ttl
  PROVE  CopyLifetime(ttl) = TicksPerSecond * ttl /\ CopyLifetime(ttl) \in 0..Lifetime
<1>0. TicksPerSecond \in Nat /\ Ttl \in Nat /\ ttl \in Nat BY Bounds
<1>1. Larger(1, Smaller(ttl, Ttl)) = ttl BY <1>0 DEF Larger, Smaller
<1>2. TicksPerSecond * ttl <= TicksPerSecond * Ttl BY <1>0, TimesMonotone
<1>3. TicksPerSecond * Ttl = Lifetime BY <1>0 DEF Lifetime
<1>4. TicksPerSecond * ttl \in Nat BY <1>0
<1> QED BY <1>1, <1>2, <1>3, <1>4, Bounds DEF CopyLifetime

\* What is listed for so long lives less than a second longer as a copy.
LEMMA ListedTtl ==
  ASSUME NEW left \in 1..Lifetime
  PROVE  LET ttl == Larger(1, left \div TicksPerSecond)
         IN  ttl \in 1..Ttl /\ CopyLifetime(ttl) <= left + TicksPerSecond
<1>0. TicksPerSecond \in Nat \ {0} /\ Ttl \in Nat \ {0} /\ left \in Nat /\ left <= Ttl * TicksPerSecond BY Bounds DEF Lifetime
<1> DEFINE q == left \div TicksPerSecond
<1>1. q \in 0..Ttl /\ TicksPerSecond * q <= left BY <1>0, DivBounds
<1> HIDE DEF q
<1>2. Larger(1, q) \in 1..Ttl BY <1>0, <1>1 DEF Larger
<1>3. CopyLifetime(Larger(1, q)) = TicksPerSecond * Larger(1, q) BY <1>2, CopyLifetimeFacts
<1>4. TicksPerSecond * Larger(1, q) <= left + TicksPerSecond
  <2>1. CASE q >= 1
    <3>1. Larger(1, q) = q BY <2>1, <1>1, <1>0 DEF Larger
    <3> QED BY <3>1, <1>0, <1>1
  <2>2. CASE q < 1
    <3>1. Larger(1, q) = 1 BY <2>2, <1>1, <1>0 DEF Larger
    <3> QED BY <3>1, <1>0
  <2> QED BY <2>1, <2>2, <1>0, <1>1
<1> QED BY <1>2, <1>3, <1>4 DEF q

\* One more hop.
LEMMA OneHopMore ==
  ASSUME NEW h \in Nat
  PROVE  h * HopGain \in Nat /\ (h + 1) * HopGain = h * HopGain + Timeout + TicksPerSecond
<1>1. HopGain \in Nat /\ HopGain = Timeout + TicksPerSecond /\ Timeout \in Nat /\ TicksPerSecond \in Nat BY Bounds DEF HopGain
<1>2. (h + 1) * HopGain = h * HopGain + HopGain /\ h * HopGain \in Nat BY <1>1
<1> QED BY <1>1, <1>2

\* One iteration of the merging loop.
LEMMA MergeOne ==
  ASSUME NEW map \in [Endpoints -> Entry \cup {NoEntry}], NEW nodes \in SUBSET Node,
         NEW r, NEW p, NEW g, Merged(map, nodes, g), NEW n \in nodes, NEW m \in Merge(r, p, g, n)
  PROVE  Merged(map, nodes, m)
<1>0. n \in Node /\ n.key \in Endpoints /\ n.ttl \in 1..Ttl /\ n.pin \in Pins /\ n.hops \in 0..MaxHops BY DEF Node
<1>1. g \in [Endpoints -> Entry \cup {NoEntry}] BY DEF Merged
<1> DEFINE copy == IF g[n.key] # NoEntry THEN g[n.key] ELSE FirstCopy(r, p, n)
           e == [copy EXCEPT !.pin = n.pin, !.left = CopyLifetime(n.ttl), !.hops = Smaller(n.hops + 1, MaxHops)]
<1>2. PICK h \in RoomFor(g, n.key) : m = [h EXCEPT ![n.key] = e] BY DEF Merge
<1>3. /\ h \in [Endpoints -> Entry \cup {NoEntry}]
      /\ \A k \in Endpoints : h[k] = g[k] \/ h[k] = NoEntry
  <2>1. CASE h = g BY <2>1, <1>1
  <2>2. CASE \E k : h = [g EXCEPT ![k] = NoEntry] BY <2>2, <1>1
  <2>3. h = g \/ \E k : h = [g EXCEPT ![k] = NoEntry] BY DEF RoomFor, Evictions
  <2> QED BY <2>1, <2>2, <2>3
<1>4. e \in Entry
  <2>1. FirstCopy(r, p, n) \in Entry BY <1>0, Bounds DEF FirstCopy, Entry
  <2>2. copy \in Entry BY <2>1, <1>0, <1>1
  <2>3. CopyLifetime(n.ttl) \in 0..Lifetime BY <1>0, CopyLifetimeFacts
  <2>4. Smaller(n.hops + 1, MaxHops) \in 0..MaxHops BY <1>0, Bounds DEF Smaller
  <2> HIDE DEF copy
  <2> QED BY <2>2, <2>3, <2>4, <1>0 DEF Entry
<1>5. CopyOf(e, n)
  <2>1. FirstCopy(r, p, n) \in Entry BY <1>0, Bounds DEF FirstCopy, Entry
  <2>2. copy \in Entry BY <2>1, <1>0, <1>1
  <2> HIDE DEF copy
  <2> QED BY <2>2 DEF CopyOf, Entry
<1> HIDE DEF copy, e
<1>6. m \in [Endpoints -> Entry \cup {NoEntry}] BY <1>2, <1>3, <1>4
<1>7. ASSUME NEW k \in Endpoints
      PROVE  m[k] = NoEntry \/ m[k] = map[k] \/ \E x \in nodes : x.key = k /\ CopyOf(m[k], x)
  <2>1. CASE k = n.key
    <3>1. m[k] = e BY <2>1, <1>0, <1>2, <1>3
    <3> QED BY <3>1, <1>5, <2>1
  <2>2. CASE k # n.key
    <3>1. m[k] = h[k] BY <2>2, <1>2, <1>3
    <3>2. m[k] = g[k] \/ m[k] = NoEntry BY <3>1, <1>3
    <3> QED BY <3>2 DEF Merged
  <2> QED BY <2>1, <2>2
<1> QED BY <1>6, <1>7 DEF Merged

\* All of them.
LEMMA MergeAllMerged ==
  ASSUME NEW map \in [Endpoints -> Entry \cup {NoEntry}], NEW nodes \in SUBSET Node,
         NEW r, NEW p, NEW seq \in Seq(nodes), NEW m \in MergeAll(r, p, map, seq)
  PROVE  Merged(map, nodes, m)
<1> DEFINE n == Len(seq)
<1>0. n \in Nat /\ \A i \in 1..n : seq[i] \in nodes OBVIOUS
<1>1. PICK f : MergeFold(f, r, p, map, seq, n) /\ MergeAll(r, p, map, seq) = f[1..n] BY MergeFoldIs
<1> DEFINE T == {j \in 0..n : ~ \A g \in f[1..j] : Merged(map, nodes, g)}
<1>2. T = {}
  <2>0. SUFFICES ASSUME T # {} PROVE FALSE OBVIOUS
  <2>a. T \in SUBSET Nat OBVIOUS
  <2>1. PICK j \in T : \A k \in T : j <= k
    <3> HIDE DEF T
    <3> QED BY <2>0, <2>a, LeastOf
  <2>2. j \in 0..n /\ j \in Nat OBVIOUS
  <2>3. 1..j \in SUBSET (1..n) BY <2>2, <1>0
  <2>4. CASE j = 0
    <3>1. 1..j = {} BY <2>4
    <3>2. f[1..j] = {map} BY <3>1, <2>3, <1>1, Zenon DEF MergeFold
    <3>3. Merged(map, nodes, map) BY DEF Merged
    <3> QED BY <3>2, <3>3
  <2>5. CASE j # 0
    <3>1. j \in 1..j /\ 1..j # {}
      <4> HIDE DEF T, n
      <4>1. j \in 1..j BY <2>2, <2>5
      <4> QED BY <4>1
    <3>2. Max(1..j) = j BY <3>1, <2>2, MaxOf
    <3>3. (1..j) \ {j} = 1..(j - 1) BY <2>2
    <3>4. f[1..j] = MergeEach(r, p, f[1..(j - 1)], seq[j]) BY <3>1, <3>2, <3>3, <2>3, <1>1, Zenon DEF MergeFold
    <3>5. j - 1 \in 0..n /\ j - 1 \notin T
      <4> HIDE DEF T, n
      <4> QED BY <2>1, <2>2, <2>5, <1>0
    <3>6. \A g \in f[1..(j - 1)] : Merged(map, nodes, g) BY <3>5
    <3>7. seq[j] \in nodes BY <2>2, <2>5, <1>0
    <3>8. ASSUME NEW g \in f[1..j] PROVE Merged(map, nodes, g)
      <4>1. PICK h \in f[1..(j - 1)] : g \in Merge(r, p, h, seq[j]) BY <3>4 DEF MergeEach
      <4>2. Merged(map, nodes, h) BY <3>6
      <4> HIDE DEF T, n
      <4> QED BY <4>1, <4>2, <3>7, MergeOne
    <3> QED BY <3>8
  <2> QED BY <2>4, <2>5
<1>3. n \in 0..n BY <1>0
<1> QED BY <1>1, <1>2, <1>3

-----------------------------------------------------------------------------
\* The parts of the type invariant, in the form that the steps use.
LEMMA RegistryFacts ==
  ASSUME RegistryInv
  PROVE  /\ entries \in [Registries -> [Endpoints -> Entry \cup {NoEntry}]]
         /\ gossip \in [Registries -> [Endpoints -> Entry \cup {NoEntry}]]
         /\ pull \in [Registries -> PullType]
         /\ seen \in [Registries -> Lines]
         /\ age \in [Endpoints -> 0..OldAge]
         /\ \A k \in Endpoints : age[k] \in Nat
  BY Bounds DEF RegistryInv, RegistryTypeOK

LEMMA UnexpiredFacts ==
  ASSUME NEW map \in [Endpoints -> Entry \cup {NoEntry}]
  PROVE  /\ Unexpired(map) \in [Endpoints -> Entry \cup {NoEntry}]
         /\ \A k \in Endpoints : \/ Unexpired(map)[k] = map[k]
                                 \/ Unexpired(map)[k] = NoEntry
         /\ \A k \in Endpoints : Unexpired(map)[k] # NoEntry =>
               Unexpired(map)[k] = map[k] /\ map[k] \in Entry /\ map[k].left \in 1..Lifetime
<1>1. DOMAIN map = Endpoints OBVIOUS
<1>2. \A k \in Endpoints : Unexpired(map)[k] = IF map[k] # NoEntry /\ map[k].left = 0 THEN NoEntry ELSE map[k]
  BY <1>1 DEF Unexpired
<1>3. Unexpired(map) \in [Endpoints -> Entry \cup {NoEntry}] BY <1>1, <1>2 DEF Unexpired
<1>4. \A k \in Endpoints : map[k] # NoEntry => map[k] \in Entry OBVIOUS
<1>5. \A e \in Entry : e.left # 0 => e.left \in 1..Lifetime BY Bounds DEF Entry
<1> QED BY <1>2, <1>3, <1>4, <1>5

\* Maps that only lost entries keep what is said about the entries of a map.
LEMMA FewerEntries ==
  ASSUME RegistryInv,
         entries' \in [Registries -> [Endpoints -> Entry \cup {NoEntry}]],
         \A r \in Registries : \A k \in Endpoints :
             entries'[r][k] = NoEntry \/ entries'[r][k] = entries[r][k],
         age' = age
  PROVE  EntriesInv'
  BY DEF EntriesInv, RegistryInv

LEMMA FewerCopies ==
  ASSUME RegistryInv,
         gossip' \in [Registries -> [Endpoints -> Entry \cup {NoEntry}]],
         \A r \in Registries : \A k \in Endpoints :
             gossip'[r][k] = NoEntry \/ gossip'[r][k] = gossip[r][k],
         age' = age
  PROVE  GossipInv'
  BY DEF GossipInv, RegistryInv

LEMMA SamePulls ==
  ASSUME RegistryInv, pull' = pull, age' = age PROVE PullInv'
  BY DEF PullInv, RegistryInv

\* What a map lists.
LEMMA ListedFacts ==
  ASSUME NEW map \in [Endpoints -> Entry \cup {NoEntry}]
  PROVE  /\ IsFiniteSet(Listed(map))
         /\ Listed(map) \subseteq Node
         /\ \A n \in Listed(map) : \E k \in Endpoints :
               /\ map[k] # NoEntry /\ map[k] \in Entry /\ map[k].left \in 1..Lifetime
               /\ map[k].status = "Approved"
               /\ n.key = k /\ n.hops = map[k].hops /\ n.pin = map[k].pin
               /\ CopyLifetime(n.ttl) <= map[k].left + TicksPerSecond
<1> DEFINE Ks == {k \in Keys(Unexpired(map)) : map[k].status = "Approved"}
           node == [k \in Ks |-> [key |-> k, pin |-> map[k].pin, hops |-> map[k].hops,
                                  ttl |-> Larger(1, map[k].left \div TicksPerSecond)]]
<1>1. ASSUME NEW k \in Ks
      PROVE  /\ k \in Endpoints /\ map[k] # NoEntry /\ map[k] \in Entry /\ map[k].left \in 1..Lifetime
             /\ map[k].status = "Approved"
  <2>1. DOMAIN Unexpired(map) = Endpoints BY UnexpiredFacts
  <2>2. k \in Endpoints /\ Unexpired(map)[k] # NoEntry BY <2>1 DEF Keys
  <2> QED BY <2>2, UnexpiredFacts
<1>2. Listed(map) = {node[k] : k \in Ks} BY DEF Listed
<1>3. IsFiniteSet(Ks)
  <2>1. Ks \in SUBSET Endpoints BY <1>1
  <2> QED BY <2>1, FS_Subset, Bounds
<1>4. ASSUME NEW k \in Ks
      PROVE  /\ node[k] \in Node /\ node[k].key = k /\ node[k].hops = map[k].hops /\ node[k].pin = map[k].pin
             /\ CopyLifetime(node[k].ttl) <= map[k].left + TicksPerSecond
  <2>1. node[k] = [key |-> k, pin |-> map[k].pin, hops |-> map[k].hops,
                   ttl |-> Larger(1, map[k].left \div TicksPerSecond)]
    OBVIOUS
  <2> HIDE DEF node
  <2>2. node[k].ttl \in 1..Ttl /\ CopyLifetime(node[k].ttl) <= map[k].left + TicksPerSecond BY <1>1, <2>1, ListedTtl
  <2>3. map[k].pin \in Pins /\ map[k].hops \in 0..MaxHops BY <1>1 DEF Entry
  <2> QED BY <2>1, <2>2, <2>3, <1>1 DEF Node
<1> HIDE DEF node, Ks
<1>5. node \in Surjection(Ks, Listed(map))
  <2>1. DOMAIN node = Ks /\ node = [k \in Ks |-> node[k]] BY DEF node
  <2> QED BY <2>1, <1>2 DEF Surjection
<1>6. IsFiniteSet(Listed(map)) BY <1>3, <1>5, FS_Surjection
<1>7. Listed(map) \subseteq Node BY <1>2, <1>4
<1>8. ASSUME NEW n \in Listed(map)
      PROVE  \E k \in Endpoints :
               /\ map[k] # NoEntry /\ map[k] \in Entry /\ map[k].left \in 1..Lifetime
               /\ map[k].status = "Approved"
               /\ n.key = k /\ n.hops = map[k].hops /\ n.pin = map[k].pin
               /\ CopyLifetime(n.ttl) <= map[k].left + TicksPerSecond
  <2>1. PICK k \in Ks : n = node[k] BY <1>2
  <2> QED BY <2>1, <1>1, <1>4
<1> QED BY <1>6, <1>7, <1>8

\* The answer of a registry: finite, and nothing in it is stale.
LEMMA SnapshotFacts ==
  ASSUME RegistryInv, NEW r \in Registries
  PROVE  /\ IsFiniteSet(Snapshot(r)) /\ Snapshot(r) \subseteq Node
         /\ \A n \in Snapshot(r) : n.hops < MaxHops =>
               /\ age[n.key] <= Lifetime + n.hops * HopGain
               /\ age[n.key] + CopyLifetime(n.ttl) <= Lifetime + n.hops * HopGain + TicksPerSecond
<1>0. entries[r] \in [Endpoints -> Entry \cup {NoEntry}] /\ gossip[r] \in [Endpoints -> Entry \cup {NoEntry}]
  BY RegistryFacts
<1>1. /\ IsFiniteSet(Listed(entries[r])) /\ Listed(entries[r]) \subseteq Node
      /\ IsFiniteSet(Listed(gossip[r])) /\ Listed(gossip[r]) \subseteq Node
  BY <1>0, ListedFacts
<1>2. IsFiniteSet(Snapshot(r)) /\ Snapshot(r) \subseteq Node BY <1>1, FS_Union DEF Snapshot
<1>3. ASSUME NEW n \in Snapshot(r), n.hops < MaxHops
      PROVE  /\ age[n.key] <= Lifetime + n.hops * HopGain
             /\ age[n.key] + CopyLifetime(n.ttl) <= Lifetime + n.hops * HopGain + TicksPerSecond
  <2>0. n \in Node /\ n.key \in Endpoints /\ n.ttl \in 1..Ttl /\ n.hops \in Nat BY <1>2, Bounds DEF Node
  <2>1. \E l \in Nat : l >= 1 /\ age[n.key] + l <= Lifetime + n.hops * HopGain /\ CopyLifetime(n.ttl) <= l + TicksPerSecond
    <3>1. CASE n \in Listed(entries[r])
      <4>1. PICK k \in Endpoints :
               /\ entries[r][k] # NoEntry /\ entries[r][k].left \in 1..Lifetime
               /\ n.key = k /\ n.hops = entries[r][k].hops
               /\ CopyLifetime(n.ttl) <= entries[r][k].left + TicksPerSecond
        BY <3>1, <1>0, ListedFacts
      <4>2. n.hops = 0 /\ age[k] + entries[r][k].left <= Lifetime BY <4>1, Bounds DEF RegistryInv, EntriesInv
      <4>3. 0 * HopGain = 0 BY Bounds
      <4> QED BY <4>1, <4>2, <4>3, Bounds
    <3>2. CASE n \in Listed(gossip[r])
      <4>1. PICK k \in Endpoints :
               /\ gossip[r][k] # NoEntry /\ gossip[r][k].left \in 1..Lifetime
               /\ n.key = k /\ n.hops = gossip[r][k].hops
               /\ CopyLifetime(n.ttl) <= gossip[r][k].left + TicksPerSecond
        BY <3>2, <1>0, ListedFacts
      <4>2. age[k] + gossip[r][k].left <= Lifetime + n.hops * HopGain BY <4>1, <1>3, Bounds DEF RegistryInv, GossipInv
      <4> QED BY <4>1, <4>2, Bounds
    <3> QED BY <3>1, <3>2 DEF Snapshot
  <2>2. n.hops * HopGain \in Nat BY <2>0, OneHopMore
  <2>4. CopyLifetime(n.ttl) \in 0..Lifetime BY <2>0, CopyLifetimeFacts
  <2>5. age[n.key] \in Nat BY <2>0, RegistryFacts
  <2>3. age[n.key] \in Nat /\ CopyLifetime(n.ttl) \in Nat BY <2>4, <2>5, Bounds
  <2> QED BY <2>1, <2>2, <2>3, Bounds
<1> QED BY <1>2, <1>3

-----------------------------------------------------------------------------
\* The steps keep the invariant.
LEMMA RegistryInitInv == RegistryInit => RegistryInv
<1> SUFFICES ASSUME RegistryInit PROVE RegistryInv OBVIOUS
<1>1. /\ entries = [r \in Registries |-> [k \in Endpoints |-> NoEntry]]
      /\ gossip = [r \in Registries |-> [k \in Endpoints |-> NoEntry]]
      /\ pull = [r \in Registries |-> Idle]
      /\ todo = Peers /\ sleep = [r \in Registries |-> 0] /\ seen = [r \in Registries |-> NoLines]
      /\ age = [k \in Endpoints |-> OldAge]
  BY DEF RegistryInit
<1>2. Idle \in PullType /\ Idle.nodes = {} /\ Idle.peer = NoEntry /\ Idle.waited = 0 BY Bounds DEF Idle, PullType
<1>3. pull \in [Registries -> PullType] BY <1>1, <1>2
<1>4. RegistryTypeOK
  <2>1. todo \in [Registries -> SUBSET Registries] BY <1>1, RegistryAssumption
  <2>2. sleep \in [Registries -> 0..Period] /\ age \in [Endpoints -> 0..OldAge] BY <1>1, Bounds
  <2>3. /\ entries \in [Registries -> [Endpoints -> Entry \cup {NoEntry}]]
        /\ gossip \in [Registries -> [Endpoints -> Entry \cup {NoEntry}]]
    BY <1>1
  <2>4. ASSUME NEW r \in Registries
        PROVE pull[r].peer \in Peers[r] \cup {NoEntry} /\ pull[r].nodes \subseteq Node /\ pull[r].waited \in 0..Timeout
    <3>1. pull[r] = Idle BY <1>1
    <3> QED BY <3>1, <1>2, Bounds
  <2>5. NoLines \in Lines BY DEF NoLines, Lines
  <2>6. seen \in [Registries -> Lines] BY <2>5, <1>1
  <2> QED BY <2>1, <2>2, <2>3, <2>4, <2>6 DEF RegistryTypeOK
<1>5. EntriesInv /\ GossipInv BY <1>1 DEF EntriesInv, GossipInv
<1>6. PullInv
  <2>1. ASSUME NEW r \in Registries PROVE pull[r].nodes = {} BY <1>1, <1>2
  <2> QED BY <2>1, FS_EmptySet DEF PullInv
<1> QED BY <1>3, <1>4, <1>5, <1>6 DEF RegistryInv

\* Collecting what has expired.
LEMMA CollectFacts ==
  ASSUME RegistryInv, NEW r \in Registries,
         \/ entries' = entries
         \/ entries' = [entries EXCEPT ![r] = Unexpired(@)],
         \/ gossip' = gossip
         \/ gossip' = [gossip EXCEPT ![r] = Unexpired(@)],
         age' = age
  PROVE  /\ entries' \in [Registries -> [Endpoints -> Entry \cup {NoEntry}]]
         /\ gossip' \in [Registries -> [Endpoints -> Entry \cup {NoEntry}]]
         /\ EntriesInv' /\ GossipInv'
<1>1. /\ entries \in [Registries -> [Endpoints -> Entry \cup {NoEntry}]]
      /\ gossip \in [Registries -> [Endpoints -> Entry \cup {NoEntry}]]
  BY RegistryFacts
<1>2. ASSUME NEW map \in [Endpoints -> Entry \cup {NoEntry}]
      PROVE  /\ Unexpired(map) \in [Endpoints -> Entry \cup {NoEntry}]
             /\ \A k \in Endpoints : Unexpired(map)[k] = NoEntry \/ Unexpired(map)[k] = map[k]
  BY UnexpiredFacts
<1>3. /\ entries' \in [Registries -> [Endpoints -> Entry \cup {NoEntry}]]
      /\ \A q \in Registries : \A k \in Endpoints :
             entries'[q][k] = NoEntry \/ entries'[q][k] = entries[q][k]
  <2>1. CASE entries' = entries BY <2>1, <1>1
  <2>2. CASE entries' = [entries EXCEPT ![r] = Unexpired(@)]
    <3>1. entries[r] \in [Endpoints -> Entry \cup {NoEntry}] BY <1>1
    <3>2. /\ Unexpired(entries[r]) \in [Endpoints -> Entry \cup {NoEntry}]
          /\ \A k \in Endpoints : Unexpired(entries[r])[k] = NoEntry \/ Unexpired(entries[r])[k] = entries[r][k]
      BY <3>1, <1>2
    <3> QED BY <2>2, <3>2, <1>1
  <2> QED BY <2>1, <2>2
<1>4. /\ gossip' \in [Registries -> [Endpoints -> Entry \cup {NoEntry}]]
      /\ \A q \in Registries : \A k \in Endpoints :
             gossip'[q][k] = NoEntry \/ gossip'[q][k] = gossip[q][k]
  <2>1. CASE gossip' = gossip BY <2>1, <1>1
  <2>2. CASE gossip' = [gossip EXCEPT ![r] = Unexpired(@)]
    <3>1. gossip[r] \in [Endpoints -> Entry \cup {NoEntry}] BY <1>1
    <3>2. /\ Unexpired(gossip[r]) \in [Endpoints -> Entry \cup {NoEntry}]
          /\ \A k \in Endpoints : Unexpired(gossip[r])[k] = NoEntry \/ Unexpired(gossip[r])[k] = gossip[r][k]
      BY <3>1, <1>2
    <3> QED BY <2>2, <3>2, <1>1
  <2> QED BY <2>1, <2>2
<1> QED BY <1>3, <1>4, FewerEntries, FewerCopies

\* A refresh of an entry.
LEMMA RefreshedEntry ==
  ASSUME NEW e \in Entry, NEW pin \in Pins
  PROVE  /\ [e EXCEPT !.pin = pin, !.left = Lifetime] \in Entry
         /\ [e EXCEPT !.pin = pin, !.left = Lifetime].left = Lifetime
         /\ [e EXCEPT !.pin = pin, !.left = Lifetime].pin = pin
         /\ [e EXCEPT !.pin = pin, !.left = Lifetime].hops = e.hops
         /\ [e EXCEPT !.pin = pin, !.left = Lifetime].status = e.status
         /\ [e EXCEPT !.pin = pin, !.left = Lifetime].shown = e.shown
         /\ [e EXCEPT !.pin = pin, !.left = Lifetime].vetted = e.vetted
<1>1. Lifetime \in 0..Lifetime BY Bounds
<1> QED BY <1>1 DEF Entry

LEMMA RegisterNodeInv ==
  ASSUME RegistryInv, NEW q \in Requests, RegisterNode(q[1], q[2], q[3]) PROVE RegistryInv'
<1>0. q[1] \in Registries /\ q[2] \in Endpoints /\ q[3] \in Pins BY RegistryAssumption
<1> DEFINE r == q[1] k == q[2] pin == q[3] live == Unexpired(entries[r])
<1>1. /\ PinUnchanged(live, k, pin)
      /\ entries' = [entries EXCEPT ![r] = [live EXCEPT ![k] = Refreshed(live, k, pin)]]
      /\ gossip' = [gossip EXCEPT ![r] = Unexpired(@)]
      /\ age' = [age EXCEPT ![k] = 0]
      /\ UNCHANGED <<pull, todo, sleep, seen>>
  BY DEF RegisterNode
<1>2. entries[r] \in [Endpoints -> Entry \cup {NoEntry}] /\ gossip[r] \in [Endpoints -> Entry \cup {NoEntry}]
  BY <1>0, RegistryFacts
<1>3. /\ live \in [Endpoints -> Entry \cup {NoEntry}]
      /\ \A x \in Endpoints : live[x] = NoEntry \/ live[x] = entries[r][x]
  BY <1>2, UnexpiredFacts
<1>4. age \in [Endpoints -> Nat] /\ age \in [Endpoints -> 0..OldAge] /\ age' \in [Endpoints -> 0..OldAge]
      /\ \A x \in Endpoints : age'[x] \in Nat /\ age[x] \in Nat /\ age'[x] <= age[x]
  BY <1>0, <1>1, RegistryFacts, Bounds
<1> DEFINE new == Refreshed(live, k, pin)
<1>e. ASSUME live[k] # NoEntry PROVE live[k] \in Entry /\ live[k].pin = pin /\ live[k] = entries[r][k]
  BY <1>e, <1>0, <1>1, <1>3 DEF PinUnchanged
<1>5. new \in Entry /\ new # NoEntry /\ new.hops = 0 /\ new.left = Lifetime
  <2>1. CASE live[k] # NoEntry
    <3>1. new = [live[k] EXCEPT !.pin = pin, !.left = Lifetime] BY <2>1 DEF Refreshed
    <3>2. new \in Entry /\ new.left = Lifetime /\ new.hops = live[k].hops
      <4>1. live[k] \in Entry /\ pin \in Pins BY <2>1, <1>e, <1>0
      <4> HIDE DEF live, k, pin, new
      <4> QED BY <3>1, <4>1, RefreshedEntry
    <3>3. live[k].hops = 0
      BY <2>1, <1>e, <1>0 DEF RegistryInv, EntriesInv
    <3> QED BY <3>2, <3>3, <1>e, <2>1, Bounds
  <2>2. CASE live[k] = NoEntry
    <3>1. new = [pin |-> pin, left |-> Lifetime, status |-> "Pending", shown |-> FALSE, vetted |-> NoPin, hops |-> 0]
      BY <2>2 DEF Refreshed
    <3>2. new \in Entry BY <3>1, <1>0, Bounds DEF Entry
    <3>3. new.hops = 0 /\ new.left = Lifetime BY <3>1
    <3> HIDE DEF new
    <3> QED BY <3>2, <3>3, Bounds
  <2> QED BY <2>1, <2>2
<1> HIDE DEF new, live, r, k, pin
<1>z. r \in Registries /\ k \in Endpoints BY <1>0 DEF r, k
<1>6. entries' = [entries EXCEPT ![r] = [live EXCEPT ![k] = new]] BY <1>1 DEF new, r, k, live, pin
<1>7. entries' \in [Registries -> [Endpoints -> Entry \cup {NoEntry}]] BY <1>6, <1>5, <1>3, <1>z, RegistryFacts
<1>8. EntriesInv'
  <2>1. ASSUME NEW s \in Registries, NEW x \in Endpoints, entries'[s][x] # NoEntry
        PROVE  /\ entries'[s][x].hops = 0
               /\ entries'[s][x].left > 0 => age'[x] + entries'[s][x].left <= Lifetime
    <3>1. CASE s = r /\ x = k
      <4>1. entries'[s][x] = new BY <3>1, <1>6, <1>3, <1>z, RegistryFacts
      <4>2. age'[x] = 0 BY <3>1, <1>1, <1>4, <1>z DEF k
      <4> QED BY <4>1, <4>2, <1>5, Bounds
    <3>2. CASE ~(s = r /\ x = k)
      <4>1. entries'[s][x] = entries[s][x]
        <5>1. CASE s = r BY <5>1, <3>2, <2>1, <1>6, <1>3, <1>z, RegistryFacts
        <5>2. CASE s # r BY <5>2, <1>6, <1>z, RegistryFacts
        <5> QED BY <5>1, <5>2
      <4>2. entries[s][x] \in Entry /\ entries[s][x].left \in Nat BY <4>1, <2>1, RegistryFacts, Bounds DEF Entry
      <4>3. /\ entries[s][x].hops = 0
            /\ entries[s][x].left > 0 => age[x] + entries[s][x].left <= Lifetime
        BY <4>1, <2>1 DEF RegistryInv, EntriesInv
      <4> QED BY <4>1, <4>2, <4>3, <1>4, Bounds
    <3> QED BY <3>1, <3>2
  <2> QED BY <2>1 DEF EntriesInv
<1>9. gossip' \in [Registries -> [Endpoints -> Entry \cup {NoEntry}]]
      /\ \A s \in Registries : \A x \in Endpoints : gossip'[s][x] = NoEntry \/ gossip'[s][x] = gossip[s][x]
  <2>1. Unexpired(gossip[r]) \in [Endpoints -> Entry \cup {NoEntry}]
        /\ \A x \in Endpoints : Unexpired(gossip[r])[x] = NoEntry \/ Unexpired(gossip[r])[x] = gossip[r][x]
    BY <1>2, UnexpiredFacts
  <2> QED BY <2>1, <1>1, <1>z, RegistryFacts DEF r
<1>10. GossipInv'
  <2>1. ASSUME NEW s \in Registries, NEW x \in Endpoints,
               gossip'[s][x] # NoEntry, gossip'[s][x].left > 0, gossip'[s][x].hops < MaxHops
        PROVE  age'[x] + gossip'[s][x].left <= Lifetime + gossip'[s][x].hops * HopGain
    <3>1. gossip'[s][x] = gossip[s][x] BY <2>1, <1>9
    <3>2. age[x] + gossip[s][x].left <= Lifetime + gossip[s][x].hops * HopGain BY <3>1, <2>1 DEF RegistryInv, GossipInv
    <3>3. gossip[s][x] \in Entry BY <3>1, <2>1, RegistryFacts
    <3>4. gossip[s][x].left \in Nat /\ gossip[s][x].hops \in Nat BY <3>3, Bounds DEF Entry
    <3>5. gossip[s][x].hops * HopGain \in Nat BY <3>4, OneHopMore
    <3> QED BY <3>1, <3>2, <3>4, <3>5, <1>4, Bounds
  <2> QED BY <2>1 DEF GossipInv
<1>11. PullInv'
  <2>1. ASSUME NEW s \in Registries, NEW n \in pull[s].nodes, n.hops + 1 < MaxHops
        PROVE  age'[n.key] + CopyLifetime(n.ttl) <= Lifetime + n.hops * HopGain + TicksPerSecond + pull[s].waited
    <3>1. age[n.key] + CopyLifetime(n.ttl) <= Lifetime + n.hops * HopGain + TicksPerSecond + pull[s].waited
      BY <2>1 DEF RegistryInv, PullInv
    <3>2. n \in Node /\ pull[s].waited \in Nat BY RegistryFacts, Bounds DEF PullType
    <3>3. n.key \in Endpoints /\ n.hops \in Nat /\ n.ttl \in 1..Ttl BY <3>2, Bounds DEF Node
    <3>4. CopyLifetime(n.ttl) \in 0..Lifetime /\ n.hops * HopGain \in Nat BY <3>3, CopyLifetimeFacts, OneHopMore
    <3>5. age'[n.key] \in Nat /\ age[n.key] \in Nat /\ age'[n.key] <= age[n.key] BY <3>3, <1>4
    <3>6. Lifetime \in Nat /\ TicksPerSecond \in Nat /\ CopyLifetime(n.ttl) \in Nat BY <3>4, Bounds
    <3> QED BY <3>1, <3>2, <3>4, <3>5, <3>6
  <2> QED BY <2>1, <1>1 DEF PullInv, RegistryInv
<1>12. RegistryTypeOK' BY <1>1, <1>4, <1>7, <1>9 DEF RegistryInv, RegistryTypeOK
<1>13. (pull \in [Registries -> PullType])' BY <1>1, RegistryFacts
<1> QED BY <1>8, <1>10, <1>11, <1>12, <1>13 DEF RegistryInv

\* Steps that only remove what has expired, or a pull without its answer.
LEMMA CollectExpiredInv ==
  ASSUME RegistryInv, NEW r \in Registries, CollectExpired(r) PROVE RegistryInv'
<1>1. /\ entries' = [entries EXCEPT ![r] = Unexpired(@)]
      /\ gossip' = [gossip EXCEPT ![r] = Unexpired(@)]
      /\ UNCHANGED <<pull, todo, sleep, seen, age>>
  BY DEF CollectExpired, RemoveExpired
<1>2. /\ entries' \in [Registries -> [Endpoints -> Entry \cup {NoEntry}]]
      /\ gossip' \in [Registries -> [Endpoints -> Entry \cup {NoEntry}]]
      /\ EntriesInv' /\ GossipInv'
  BY <1>1, CollectFacts
<1>3. RegistryTypeOK' BY <1>1, <1>2 DEF RegistryInv, RegistryTypeOK
<1>4. PullInv' BY <1>1, SamePulls
<1> QED BY <1>1, <1>2, <1>3, <1>4 DEF RegistryInv

\* An entry that the operator approves.
LEMMA ApprovedFacts ==
  ASSUME NEW map \in [Endpoints -> Entry \cup {NoEntry}], NEW k \in Endpoints, map[k] # NoEntry,
         NEW pins \in [Endpoints -> Pins \cup {NoPin}]
  PROVE  LET new == Approved(map, k, pins)[k]
         IN  /\ Approved(map, k, pins) = [map EXCEPT ![k] = new]
             /\ new \in Entry /\ new.status = "Approved"
             /\ new.hops = map[k].hops /\ new.left = map[k].left
             /\ new.pin = map[k].pin /\ new.shown = map[k].shown
             /\ new.vetted = IF map[k].status = "Pending" THEN pins[k] ELSE map[k].vetted
<1> DEFINE pin == IF IsPending(map, k) THEN pins[k] ELSE map[k].vetted
           e == [map[k] EXCEPT !.status = "Approved", !.vetted = pin]
<1>1. map[k] \in Entry /\ pins[k] \in Pins \cup {NoPin} OBVIOUS
<1>2. pin \in Pins \cup {NoPin} /\ pin = IF map[k].status = "Pending" THEN pins[k] ELSE map[k].vetted
  BY <1>1 DEF IsPending, Entry
<1>3. Approved(map, k, pins) = [map EXCEPT ![k] = e] BY DEF Approved
<1> HIDE DEF pin
<1>4. /\ e \in Entry /\ e.status = "Approved" /\ e.vetted = pin /\ e.hops = map[k].hops /\ e.left = map[k].left
      /\ e.pin = map[k].pin /\ e.shown = map[k].shown
  BY <1>1, <1>2 DEF Entry
<1> HIDE DEF e
<1>5. Approved(map, k, pins)[k] = e BY <1>3
<1> QED BY <1>2, <1>3, <1>4, <1>5

LEMMA ApproveInv ==
  ASSUME RegistryInv, NEW r \in Registries, NEW k \in Endpoints, Approve(r, k) PROVE RegistryInv'
<1>0. UNCHANGED <<pull, todo, sleep, seen, age>> BY DEF Approve
<1>t. /\ entries \in [Registries -> [Endpoints -> Entry \cup {NoEntry}]]
      /\ gossip \in [Registries -> [Endpoints -> Entry \cup {NoEntry}]]
  BY RegistryFacts
<1>p. PullInv' /\ (pull \in [Registries -> PullType])' BY <1>0, SamePulls DEF RegistryInv
<1>1. CASE entries[r][k] # NoEntry
  <2>1. entries' = [entries EXCEPT ![r] = Approved(@, k, seen[r].direct)] /\ gossip' = gossip BY <1>1 DEF Approve
  <2> DEFINE e == entries[r][k] new == Approved(entries[r], k, seen[r].direct)[k]
  <2>2. e = entries[r][k] OBVIOUS
  <2>n. new = Approved(entries[r], k, seen[r].direct)[k] OBVIOUS
  <2>d. entries[r] \in [Endpoints -> Entry \cup {NoEntry}] /\ seen[r].direct \in [Endpoints -> Pins \cup {NoPin}]
    BY <1>t, RegistryFacts DEF Lines
  <2> HIDE DEF e, new
  <2>4. /\ Approved(entries[r], k, seen[r].direct) = [entries[r] EXCEPT ![k] = new]
        /\ new \in Entry /\ new.hops = e.hops /\ new.left = e.left
    BY <1>1, <2>2, <2>n, <2>d, ApprovedFacts
  <2>3. entries' = [entries EXCEPT ![r] = [entries[r] EXCEPT ![k] = new]] BY <2>1, <2>4, <1>t
  <2>5. entries' \in [Registries -> [Endpoints -> Entry \cup {NoEntry}]] BY <2>3, <2>4, <1>t
  <2>6. EntriesInv'
    <3>1. ASSUME NEW s \in Registries, NEW x \in Endpoints, entries'[s][x] # NoEntry
          PROVE  /\ entries'[s][x].hops = 0
                 /\ entries'[s][x].left > 0 => age[x] + entries'[s][x].left <= Lifetime
      <4>1. CASE s = r /\ x = k
        <5>1. entries'[s][x] = new BY <4>1, <2>3, <1>t
        <5>2. e.hops = 0 /\ (e.left > 0 => age[x] + e.left <= Lifetime) BY <4>1, <1>1, <2>2 DEF RegistryInv, EntriesInv
        <5> QED BY <5>1, <5>2, <2>4
      <4>2. CASE ~(s = r /\ x = k)
        <5>1. entries'[s][x] = entries[s][x] BY <4>2, <2>3, <1>t
        <5> QED BY <5>1, <3>1 DEF RegistryInv, EntriesInv
      <4> QED BY <4>1, <4>2
    <3> QED BY <3>1, <1>0 DEF EntriesInv
  <2>7. GossipInv' BY <2>1, <1>0 DEF RegistryInv, GossipInv
  <2>8. RegistryTypeOK' BY <2>1, <2>5, <1>0 DEF RegistryInv, RegistryTypeOK
  <2> QED BY <2>6, <2>7, <2>8, <1>p DEF RegistryInv
<1>2. CASE entries[r][k] = NoEntry
  <2>1. gossip' = [gossip EXCEPT ![r] = Approved(@, k, seen[r].copies)] /\ entries' = entries /\ gossip[r][k] # NoEntry
    BY <1>2 DEF Approve
  <2> DEFINE e == gossip[r][k] new == Approved(gossip[r], k, seen[r].copies)[k]
  <2>2. e = gossip[r][k] OBVIOUS
  <2>n. new = Approved(gossip[r], k, seen[r].copies)[k] OBVIOUS
  <2>d. gossip[r] \in [Endpoints -> Entry \cup {NoEntry}] /\ seen[r].copies \in [Endpoints -> Pins \cup {NoPin}]
    BY <1>t, RegistryFacts DEF Lines
  <2> HIDE DEF e, new
  <2>4. /\ Approved(gossip[r], k, seen[r].copies) = [gossip[r] EXCEPT ![k] = new]
        /\ new \in Entry /\ new.hops = e.hops /\ new.left = e.left
    BY <2>1, <2>2, <2>n, <2>d, ApprovedFacts
  <2>3. gossip' = [gossip EXCEPT ![r] = [gossip[r] EXCEPT ![k] = new]] BY <2>1, <2>4, <1>t
  <2>5. gossip' \in [Registries -> [Endpoints -> Entry \cup {NoEntry}]] BY <2>3, <2>4, <1>t
  <2>6. GossipInv'
    <3>1. ASSUME NEW s \in Registries, NEW x \in Endpoints,
                 gossip'[s][x] # NoEntry, gossip'[s][x].left > 0, gossip'[s][x].hops < MaxHops
          PROVE  age[x] + gossip'[s][x].left <= Lifetime + gossip'[s][x].hops * HopGain
      <4>1. CASE s = r /\ x = k
        <5>1. gossip'[s][x] = new BY <4>1, <2>3, <1>t
        <5>2. gossip[s][x] = e /\ gossip[s][x] # NoEntry BY <4>1, <2>1, <2>2
        <5> QED BY <5>1, <5>2, <2>4, <3>1 DEF RegistryInv, GossipInv
      <4>2. CASE ~(s = r /\ x = k)
        <5>1. gossip'[s][x] = gossip[s][x] BY <4>2, <2>3, <1>t
        <5> QED BY <5>1, <3>1 DEF RegistryInv, GossipInv
      <4> QED BY <4>1, <4>2
    <3> QED BY <3>1, <1>0 DEF GossipInv
  <2>7. EntriesInv' BY <2>1, <1>0 DEF RegistryInv, EntriesInv
  <2>8. RegistryTypeOK' BY <2>1, <2>5, <1>0 DEF RegistryInv, RegistryTypeOK
  <2> QED BY <2>6, <2>7, <2>8, <1>p DEF RegistryInv
<1> QED BY <1>1, <1>2

LEMMA RejectInv ==
  ASSUME RegistryInv, NEW r \in Registries, NEW k \in Endpoints, Reject(r, k) PROVE RegistryInv'
<1>0. UNCHANGED <<pull, todo, sleep, seen, age>> BY DEF Reject
<1>t. /\ entries \in [Registries -> [Endpoints -> Entry \cup {NoEntry}]]
      /\ gossip \in [Registries -> [Endpoints -> Entry \cup {NoEntry}]]
  BY RegistryFacts
<1>1. entries' = entries \/ entries' = [entries EXCEPT ![r][k] = NoEntry] BY DEF Reject
<1>2. gossip' = gossip \/ gossip' = [gossip EXCEPT ![r][k] = NoEntry] BY DEF Reject
<1>3. /\ entries' \in [Registries -> [Endpoints -> Entry \cup {NoEntry}]]
      /\ \A s \in Registries : \A x \in Endpoints :
             entries'[s][x] = NoEntry \/ entries'[s][x] = entries[s][x]
  <2>1. CASE entries' = entries BY <2>1, <1>t
  <2>2. CASE entries' = [entries EXCEPT ![r][k] = NoEntry] BY <2>2, <1>t
  <2> QED BY <1>1, <2>1, <2>2
<1>4. /\ gossip' \in [Registries -> [Endpoints -> Entry \cup {NoEntry}]]
      /\ \A s \in Registries : \A x \in Endpoints :
             gossip'[s][x] = NoEntry \/ gossip'[s][x] = gossip[s][x]
  <2>1. CASE gossip' = gossip BY <2>1, <1>t
  <2>2. CASE gossip' = [gossip EXCEPT ![r][k] = NoEntry] BY <2>2, <1>t
  <2> QED BY <1>2, <2>1, <2>2
<1>5. EntriesInv' /\ GossipInv' BY <1>0, <1>3, <1>4, FewerEntries, FewerCopies
<1>6. PullInv' /\ (pull \in [Registries -> PullType])' BY <1>0, SamePulls DEF RegistryInv
<1>7. RegistryTypeOK' BY <1>0, <1>3, <1>4 DEF RegistryInv, RegistryTypeOK
<1> QED BY <1>5, <1>6, <1>7 DEF RegistryInv

\* What the operator's listing leaves of a map.
LEMMA ShownFacts ==
  ASSUME NEW map \in [Endpoints -> Entry \cup {NoEntry}]
  PROVE  /\ Shown(map) \in [Endpoints -> Entry \cup {NoEntry}]
         /\ PinsOf(map) \in [Endpoints -> Pins \cup {NoPin}]
         /\ \A k \in Endpoints : Shown(map)[k] # NoEntry =>
               /\ map[k] # NoEntry /\ Shown(map)[k].hops = map[k].hops /\ Shown(map)[k].left = map[k].left
               /\ Shown(map)[k].status = map[k].status
               /\ Shown(map)[k].vetted = map[k].vetted /\ Shown(map)[k].pin = map[k].pin
               /\ map[k].status # "Pending" => Shown(map)[k].shown = map[k].shown
               /\ map[k].status = "Pending" => PinsOf(map)[k] = map[k].pin
<1> DEFINE Raised(e) == [e EXCEPT !.shown = TRUE]
           AsBefore(e, o) ==
             /\ o.hops = e.hops /\ o.left = e.left /\ o.status = e.status
             /\ o.vetted = e.vetted /\ o.pin = e.pin
<1>1. ASSUME NEW e \in Entry PROVE Raised(e) \in Entry /\ AsBefore(e, Raised(e)) BY DEF Entry
<1>2. ASSUME NEW k \in Endpoints
      PROVE  Shown(map)[k] = (IF IsPending(map, k) THEN Raised(map[k]) ELSE map[k])
  BY DEF Shown
<1>3. ASSUME NEW k \in Endpoints PROVE PinsOf(map)[k] = (IF IsPending(map, k) THEN map[k].pin ELSE NoPin)
  BY DEF PinsOf
<1>4. ASSUME NEW k \in Endpoints, map[k] # NoEntry PROVE map[k] \in Entry /\ map[k].pin \in Pins
  <2>1. map[k] \in Entry BY <1>4
  <2> QED BY <2>1 DEF Entry
<1> HIDE DEF Raised, AsBefore
<1>5. ASSUME NEW k \in Endpoints
      PROVE  Shown(map)[k] \in Entry \cup {NoEntry} /\ PinsOf(map)[k] \in Pins \cup {NoPin}
  <2>1. CASE IsPending(map, k)
    <3>1. map[k] # NoEntry BY <2>1 DEF IsPending
    <3> QED BY <2>1, <3>1, <1>1, <1>2, <1>3, <1>4
  <2>2. CASE ~IsPending(map, k) BY <2>2, <1>2, <1>3
  <2> QED BY <2>1, <2>2
<1>6. ASSUME NEW k \in Endpoints, Shown(map)[k] # NoEntry
      PROVE  /\ map[k] # NoEntry /\ AsBefore(map[k], Shown(map)[k])
             /\ map[k].status # "Pending" => Shown(map)[k].shown = map[k].shown
             /\ map[k].status = "Pending" => PinsOf(map)[k] = map[k].pin
  <2>1. CASE IsPending(map, k)
    <3>1. map[k] # NoEntry /\ map[k].status = "Pending" BY <2>1 DEF IsPending
    <3>2. AsBefore(map[k], Shown(map)[k]) BY <2>1, <3>1, <1>1, <1>2, <1>4
    <3> QED BY <2>1, <3>1, <3>2, <1>3
  <2>2. CASE ~IsPending(map, k)
    <3>1. Shown(map)[k] = map[k] BY <2>2, <1>2
    <3>2. map[k] # NoEntry /\ map[k].status # "Pending" BY <3>1, <1>6, <2>2 DEF IsPending
    <3> QED BY <3>1, <3>2 DEF AsBefore
  <2> QED BY <2>1, <2>2
<1>7. /\ Shown(map) = [k \in Endpoints |-> Shown(map)[k]]
      /\ PinsOf(map) = [k \in Endpoints |-> PinsOf(map)[k]]
  BY DEF Shown, PinsOf
<1>8. Shown(map) \in [Endpoints -> Entry \cup {NoEntry}] /\ PinsOf(map) \in [Endpoints -> Pins \cup {NoPin}]
  BY <1>5, <1>7
<1> QED BY <1>6, <1>8 DEF AsBefore

LEMMA ListPendingInv ==
  ASSUME RegistryInv, NEW r \in Registries, ListPending(r) PROVE RegistryInv'
<1> DEFINE direct == Unexpired(entries[r]) copies == Unexpired(gossip[r])
<1>0. /\ entries' = [entries EXCEPT ![r] = Shown(direct)]
      /\ gossip' = [gossip EXCEPT ![r] = Shown(copies)]
      /\ seen' = [seen EXCEPT ![r] = [direct |-> PinsOf(direct), copies |-> PinsOf(copies)]]
      /\ UNCHANGED <<pull, todo, sleep, age>>
  BY DEF ListPending
<1>t. /\ entries \in [Registries -> [Endpoints -> Entry \cup {NoEntry}]]
      /\ gossip \in [Registries -> [Endpoints -> Entry \cup {NoEntry}]]
      /\ seen \in [Registries -> Lines]
  BY RegistryFacts
<1>1. /\ direct \in [Endpoints -> Entry \cup {NoEntry}]
      /\ \A x \in Endpoints : direct[x] # NoEntry => direct[x] = entries[r][x]
      /\ copies \in [Endpoints -> Entry \cup {NoEntry}]
      /\ \A x \in Endpoints : copies[x] # NoEntry => copies[x] = gossip[r][x]
  BY <1>t, UnexpiredFacts
<1> HIDE DEF direct, copies
<1>2. /\ Shown(direct) \in [Endpoints -> Entry \cup {NoEntry}]
      /\ Shown(copies) \in [Endpoints -> Entry \cup {NoEntry}]
      /\ PinsOf(direct) \in [Endpoints -> Pins \cup {NoPin}]
      /\ PinsOf(copies) \in [Endpoints -> Pins \cup {NoPin}]
  BY <1>1, ShownFacts
<1>3. /\ entries' \in [Registries -> [Endpoints -> Entry \cup {NoEntry}]]
      /\ gossip' \in [Registries -> [Endpoints -> Entry \cup {NoEntry}]]
  BY <1>0, <1>2, <1>t
<1>4. seen' \in [Registries -> Lines]
  <2>1. [direct |-> PinsOf(direct), copies |-> PinsOf(copies)] \in Lines BY <1>2 DEF Lines
  <2> QED BY <2>1, <1>0, <1>t
<1>5. EntriesInv'
  <2>1. ASSUME NEW s \in Registries, NEW x \in Endpoints, entries'[s][x] # NoEntry
        PROVE  /\ entries'[s][x].hops = 0
               /\ entries'[s][x].left > 0 => age[x] + entries'[s][x].left <= Lifetime
    <3>1. CASE s = r
      <4>1. entries'[s][x] = Shown(direct)[x] BY <3>1, <1>0, <1>t
      <4>2. /\ entries[s][x] # NoEntry
            /\ entries'[s][x].hops = entries[s][x].hops /\ entries'[s][x].left = entries[s][x].left
        BY <4>1, <3>1, <2>1, <1>1, ShownFacts
      <4> QED BY <4>2 DEF RegistryInv, EntriesInv
    <3>2. CASE s # r
      <4>1. entries'[s][x] = entries[s][x] BY <3>2, <1>0, <1>t
      <4> QED BY <4>1, <2>1 DEF RegistryInv, EntriesInv
    <3> QED BY <3>1, <3>2
  <2> QED BY <2>1, <1>0 DEF EntriesInv
<1>6. GossipInv'
  <2>1. ASSUME NEW s \in Registries, NEW x \in Endpoints,
               gossip'[s][x] # NoEntry, gossip'[s][x].left > 0, gossip'[s][x].hops < MaxHops
        PROVE  age[x] + gossip'[s][x].left <= Lifetime + gossip'[s][x].hops * HopGain
    <3>1. CASE s = r
      <4>1. gossip'[s][x] = Shown(copies)[x] BY <3>1, <1>0, <1>t
      <4>2. /\ gossip[s][x] # NoEntry
            /\ gossip'[s][x].hops = gossip[s][x].hops /\ gossip'[s][x].left = gossip[s][x].left
        BY <4>1, <3>1, <2>1, <1>1, ShownFacts
      <4> QED BY <4>2, <2>1 DEF RegistryInv, GossipInv
    <3>2. CASE s # r
      <4>1. gossip'[s][x] = gossip[s][x] BY <3>2, <1>0, <1>t
      <4> QED BY <4>1, <2>1 DEF RegistryInv, GossipInv
    <3> QED BY <3>1, <3>2
  <2> QED BY <2>1, <1>0 DEF GossipInv
<1>7. PullInv' /\ (pull \in [Registries -> PullType])' BY <1>0, SamePulls DEF RegistryInv
<1>8. RegistryTypeOK' BY <1>0, <1>3, <1>4 DEF RegistryInv, RegistryTypeOK
<1> QED BY <1>5, <1>6, <1>7, <1>8 DEF RegistryInv

\* A pull takes the peer's listing.
LEMMA PullListingInv ==
  ASSUME RegistryInv, NEW r \in Registries, NEW p \in Peers[r], PullListing(r, p) PROVE RegistryInv'
<1>0. /\ pull' = [pull EXCEPT ![r] = [peer |-> p, nodes |-> Snapshot(p), waited |-> 0]]
      /\ entries' = [entries EXCEPT ![p] = Unexpired(@)]
      /\ gossip' = [gossip EXCEPT ![p] = Unexpired(@)]
      /\ UNCHANGED <<todo, sleep, seen, age>>
  BY DEF PullListing
<1>p. p \in Registries BY RegistryAssumption
<1>1. /\ entries' \in [Registries -> [Endpoints -> Entry \cup {NoEntry}]]
      /\ gossip' \in [Registries -> [Endpoints -> Entry \cup {NoEntry}]]
      /\ EntriesInv' /\ GossipInv'
  BY <1>0, <1>p, CollectFacts
<1>2. /\ IsFiniteSet(Snapshot(p)) /\ Snapshot(p) \in SUBSET Node
      /\ \A n \in Snapshot(p) : n.hops < MaxHops =>
            age[n.key] + CopyLifetime(n.ttl) <= Lifetime + n.hops * HopGain + TicksPerSecond
  BY <1>p, SnapshotFacts
<1> DEFINE new == [peer |-> p, nodes |-> Snapshot(p), waited |-> 0]
<1>3. new \in PullType /\ new.nodes = Snapshot(p) /\ new.waited = 0 /\ new.peer = p BY <1>2, <1>p, Bounds DEF PullType
<1> HIDE DEF new
<1>4. /\ pull' \in [Registries -> PullType] /\ pull'[r] = new
      /\ \A s \in Registries : s # r => pull'[s] = pull[s]
  BY <1>0, <1>3, RegistryFacts DEF new
<1>5. PullInv'
  <2>1. ASSUME NEW s \in Registries
        PROVE  /\ IsFiniteSet(pull'[s].nodes)
               /\ \A n \in pull'[s].nodes : n.hops + 1 < MaxHops =>
                     age[n.key] + CopyLifetime(n.ttl) <= Lifetime + n.hops * HopGain + TicksPerSecond + pull'[s].waited
    <3>1. CASE s = r
      <4>1. pull'[s] = new BY <3>1, <1>4
      <4>2. ASSUME NEW n \in Snapshot(p), n.hops + 1 < MaxHops
            PROVE  age[n.key] + CopyLifetime(n.ttl) <= Lifetime + n.hops * HopGain + TicksPerSecond + 0
        <5>1. n \in Node BY <1>2
        <5>2. n.hops \in Nat /\ n.key \in Endpoints BY <5>1, Bounds DEF Node
        <5>3. n.hops < MaxHops BY <5>2, <4>2, Bounds
        <5>4. n.hops * HopGain \in Nat /\ Lifetime \in Nat /\ TicksPerSecond \in Nat BY <5>2, OneHopMore, Bounds
        <5> QED BY <5>3, <5>4, <1>2
      <4> QED BY <4>1, <4>2, <1>2, <1>3
    <3>2. CASE s # r
      <4>1. pull'[s] = pull[s] BY <3>2, <1>4
      <4> QED BY <4>1 DEF RegistryInv, PullInv
    <3> QED BY <3>1, <3>2
  <2> QED BY <2>1, <1>0 DEF PullInv
<1>6. RegistryTypeOK'
  <2>1. ASSUME NEW s \in Registries
        PROVE pull'[s].peer \in Peers[s] \cup {NoEntry} /\ pull'[s].nodes \subseteq Node /\ pull'[s].waited \in 0..Timeout
    <3>1. CASE s = r BY <3>1, <1>3, <1>4, <1>2, Bounds
    <3>2. CASE s # r BY <3>2, <1>4 DEF RegistryInv, RegistryTypeOK
    <3> QED BY <3>1, <3>2
  <2> QED BY <2>1, <1>0, <1>1 DEF RegistryInv, RegistryTypeOK
<1> QED BY <1>1, <1>4, <1>5, <1>6 DEF RegistryInv

\* What the end of a pull leaves.
LEMMA PullDoneFacts ==
  ASSUME RegistryInv, NEW r \in Registries, PullDone(r), age' = age
  PROVE  /\ (pull \in [Registries -> PullType])' /\ PullInv'
         /\ todo' \in [Registries -> SUBSET Registries] /\ sleep' \in [Registries -> 0..Period]
         /\ \A s \in Registries :
               pull'[s].peer \in Peers[s] \cup {NoEntry} /\ pull'[s].nodes \subseteq Node /\ pull'[s].waited \in 0..Timeout
<1>1. Idle \in PullType /\ Idle.nodes = {} /\ Idle.peer = NoEntry /\ Idle.waited = 0 BY Bounds DEF Idle, PullType
<1>2. pull' = [pull EXCEPT ![r] = Idle] BY DEF PullDone
<1>3. /\ pull' \in [Registries -> PullType] /\ pull'[r] = Idle
      /\ \A s \in Registries : s # r => pull'[s] = pull[s]
  BY <1>1, <1>2, RegistryFacts
<1>4. PullInv'
  <2>1. ASSUME NEW s \in Registries
        PROVE  /\ IsFiniteSet(pull'[s].nodes)
               /\ \A n \in pull'[s].nodes : n.hops + 1 < MaxHops =>
                     age[n.key] + CopyLifetime(n.ttl) <= Lifetime + n.hops * HopGain + TicksPerSecond + pull'[s].waited
    <3>1. CASE s = r BY <3>1, <1>1, <1>3, FS_EmptySet
    <3>2. CASE s # r
      <4>1. pull'[s] = pull[s] BY <3>2, <1>3
      <4> QED BY <4>1 DEF RegistryInv, PullInv
    <3> QED BY <3>1, <3>2
  <2> QED BY <2>1 DEF PullInv
<1>5. /\ todo \in [Registries -> SUBSET Registries] /\ sleep \in [Registries -> 0..Period]
      /\ Peers \in [Registries -> SUBSET Registries]
  BY RegistryAssumption DEF RegistryInv, RegistryTypeOK
<1>6. todo' \in [Registries -> SUBSET Registries] /\ sleep' \in [Registries -> 0..Period]
  <2>1. Period \in 0..Period /\ 0 \in 0..Period BY Bounds
  <2> QED BY <2>1, <1>5 DEF PullDone
<1>7. ASSUME NEW s \in Registries
      PROVE pull'[s].peer \in Peers[s] \cup {NoEntry} /\ pull'[s].nodes \subseteq Node /\ pull'[s].waited \in 0..Timeout
  <2>1. CASE s = r BY <2>1, <1>1, <1>3, Bounds
  <2>2. CASE s # r BY <2>2, <1>3 DEF RegistryInv, RegistryTypeOK
  <2> QED BY <2>1, <2>2
<1> QED BY <1>3, <1>4, <1>6, <1>7

LEMMA PullFailsInv ==
  ASSUME RegistryInv, NEW r \in Registries, PullFails(r) PROVE RegistryInv'
<1>0. PullDone(r) /\ UNCHANGED <<entries, gossip, seen, age>> BY DEF PullFails
<1>1. /\ (pull \in [Registries -> PullType])' /\ PullInv'
      /\ todo' \in [Registries -> SUBSET Registries] /\ sleep' \in [Registries -> 0..Period]
      /\ \A s \in Registries :
            pull'[s].peer \in Peers[s] \cup {NoEntry} /\ pull'[s].nodes \subseteq Node /\ pull'[s].waited \in 0..Timeout
  BY <1>0, PullDoneFacts
<1>2. EntriesInv' /\ GossipInv' BY <1>0 DEF RegistryInv, EntriesInv, GossipInv
<1>3. RegistryTypeOK' BY <1>0, <1>1 DEF RegistryInv, RegistryTypeOK
<1> QED BY <1>1, <1>2, <1>3 DEF RegistryInv

\* The answer is merged: a copy of a listed node took at most Timeout to arrive.
LEMMA MergeListingInv ==
  ASSUME RegistryInv, NEW r \in Registries, MergeListing(r) PROVE RegistryInv'
<1>0. PullDone(r) /\ UNCHANGED <<entries, seen, age>> BY DEF MergeListing
<1>1. /\ (pull \in [Registries -> PullType])' /\ PullInv'
      /\ todo' \in [Registries -> SUBSET Registries] /\ sleep' \in [Registries -> 0..Period]
      /\ \A s \in Registries :
            pull'[s].peer \in Peers[s] \cup {NoEntry} /\ pull'[s].nodes \subseteq Node /\ pull'[s].waited \in 0..Timeout
  BY <1>0, PullDoneFacts
<1> DEFINE nodes == pull[r].nodes
<1>2. nodes \in SUBSET Node /\ IsFiniteSet(nodes) /\ gossip[r] \in [Endpoints -> Entry \cup {NoEntry}]
      /\ pull[r].waited \in 0..Timeout
  BY RegistryFacts DEF PullType, RegistryInv, PullInv
<1>3. PICK s \in Sorted(nodes) : \E m \in MergeAll(r, pull[r].peer, gossip[r], s) : gossip' = [gossip EXCEPT ![r] = m]
  BY DEF MergeListing, MergeAll
<1>4. PICK m \in MergeAll(r, pull[r].peer, gossip[r], s) : gossip' = [gossip EXCEPT ![r] = m] BY <1>3
<1>5. s \in Seq(nodes)
  <2> HIDE DEF nodes
  <2>1. Cardinality(nodes) \in Nat BY <1>2, FS_CardinalityType
  <2>2. s \in [1..Cardinality(nodes) -> nodes] BY DEF Sorted, SetToSeqs
  <2> QED BY <2>1, <2>2, SeqDef
<1>6. Merged(gossip[r], nodes, m)
  <2> HIDE DEF nodes
  <2> QED BY <1>2, <1>5, MergeAllMerged
<1>7. /\ gossip' \in [Registries -> [Endpoints -> Entry \cup {NoEntry}]] /\ gossip'[r] = m
      /\ \A q \in Registries : q # r => gossip'[q] = gossip[q]
  <2>1. m \in [Endpoints -> Entry \cup {NoEntry}] BY <1>6 DEF Merged
  <2> QED BY <2>1, <1>4, RegistryFacts
<1>8. GossipInv'
  <2>1. ASSUME NEW q \in Registries, NEW x \in Endpoints,
               gossip'[q][x] # NoEntry, gossip'[q][x].left > 0, gossip'[q][x].hops < MaxHops
        PROVE  age[x] + gossip'[q][x].left <= Lifetime + gossip'[q][x].hops * HopGain
    <3>1. CASE gossip'[q][x] = gossip[q][x]
      BY <3>1, <2>1 DEF RegistryInv, GossipInv
    <3>2. CASE q = r /\ \E n \in nodes : n.key = x /\ CopyOf(m[x], n)
      <4>1. PICK n \in nodes : n.key = x /\ CopyOf(m[x], n) BY <3>2
      <4>2. n \in Node BY <1>2
      <4>3. n.hops \in Nat /\ n.ttl \in 1..Ttl /\ MaxHops \in Nat BY <4>2, Bounds DEF Node
      <4>4. gossip'[q][x] = m[x] BY <3>2, <1>7
      <4>5. m[x].left = CopyLifetime(n.ttl) /\ m[x].hops = Smaller(n.hops + 1, MaxHops) BY <4>1 DEF CopyOf
      <4>6. n.hops + 1 < MaxHops /\ m[x].hops = n.hops + 1 BY <4>3, <4>4, <4>5, <2>1 DEF Smaller
      <4>7. age[x] + CopyLifetime(n.ttl) <= Lifetime + n.hops * HopGain + TicksPerSecond + pull[r].waited
        BY <4>1, <4>6 DEF RegistryInv, PullInv
      <4>8. m[x].hops * HopGain = n.hops * HopGain + Timeout + TicksPerSecond /\ n.hops * HopGain \in Nat
        BY <4>3, <4>6, OneHopMore
      <4>9. age[x] \in Nat /\ CopyLifetime(n.ttl) \in Nat
        <5>1. CopyLifetime(n.ttl) \in 0..Lifetime BY <4>3, CopyLifetimeFacts
        <5> QED BY <5>1, RegistryFacts, Bounds
      <4>a. pull[r].waited \in Nat /\ pull[r].waited <= Timeout /\ Timeout \in Nat /\ TicksPerSecond \in Nat /\ Lifetime \in Nat
        BY <1>2, Bounds
      <4>b. PICK h \in Nat : h = n.hops * HopGain BY <4>8
      <4>c. age[x] + CopyLifetime(n.ttl) <= Lifetime + (h + Timeout + TicksPerSecond) BY <4>7, <4>9, <4>a, <4>b
      <4> QED BY <4>c, <4>4, <4>5, <4>8, <4>b
    <3>3. gossip'[q][x] = gossip[q][x] \/ (q = r /\ \E n \in nodes : n.key = x /\ CopyOf(m[x], n))
      <4>1. CASE q # r BY <4>1, <1>7
      <4>2. CASE q = r
        <5>1. gossip'[q][x] = m[x] BY <4>2, <1>7
        <5> QED BY <5>1, <4>2, <1>6, <2>1 DEF Merged
      <4> QED BY <4>1, <4>2
    <3> QED BY <3>1, <3>2, <3>3
  <2> QED BY <2>1, <1>0 DEF GossipInv
<1>9. EntriesInv' BY <1>0 DEF RegistryInv, EntriesInv
<1>10. RegistryTypeOK' BY <1>0, <1>1, <1>7 DEF RegistryInv, RegistryTypeOK
<1> QED BY <1>1, <1>8, <1>9, <1>10 DEF RegistryInv

\* What a tick makes of a map.
LEMMA OlderFacts ==
  ASSUME NEW map \in [Endpoints -> Entry \cup {NoEntry}]
  PROVE  /\ Older(map) \in [Endpoints -> Entry \cup {NoEntry}]
         /\ \A k \in Endpoints : Older(map)[k] # NoEntry =>
               /\ map[k] # NoEntry /\ map[k] \in Entry /\ Older(map)[k].hops = map[k].hops
               /\ Older(map)[k].status = map[k].status
               /\ Older(map)[k].vetted = map[k].vetted /\ Older(map)[k].pin = map[k].pin
               /\ Older(map)[k].shown = map[k].shown
               /\ Older(map)[k].left > 0 => map[k].left > 0 /\ Older(map)[k].left = map[k].left - 1
<1> DEFINE Aged(e) == [e EXCEPT !.left = Larger(0, e.left - 1)]
           Follows(e, o) ==
             /\ o \in Entry /\ o.hops = e.hops /\ o.status = e.status /\ o.vetted = e.vetted /\ o.pin = e.pin /\ o.shown = e.shown
             /\ o.left > 0 => e.left > 0 /\ o.left = e.left - 1
<1>1. ASSUME NEW e \in Entry PROVE Follows(e, Aged(e))
  <2>1. e.left \in 0..Lifetime /\ Lifetime \in Nat BY Bounds DEF Entry
  <2>2. Larger(0, e.left - 1) \in 0..Lifetime /\ (Larger(0, e.left - 1) > 0 => e.left > 0 /\ Larger(0, e.left - 1) = e.left - 1)
    BY <2>1 DEF Larger
  <2> QED BY <2>2 DEF Entry
<1>2. \A k \in Endpoints : Older(map)[k] = IF map[k] = NoEntry THEN NoEntry ELSE [map[k] EXCEPT !.left = Larger(0, @ - 1)]
  BY DEF Older
<1>3. ASSUME NEW k \in Endpoints
      PROVE  /\ Older(map)[k] \in Entry \cup {NoEntry}
             /\ Older(map)[k] # NoEntry =>
                   /\ map[k] # NoEntry /\ map[k] \in Entry /\ Older(map)[k].hops = map[k].hops
                   /\ Older(map)[k].status = map[k].status
                   /\ Older(map)[k].vetted = map[k].vetted /\ Older(map)[k].pin = map[k].pin
                   /\ Older(map)[k].shown = map[k].shown
                   /\ Older(map)[k].left > 0 => map[k].left > 0 /\ Older(map)[k].left = map[k].left - 1
  <2>1. CASE map[k] = NoEntry BY <2>1, <1>2
  <2>2. CASE map[k] # NoEntry
    <3>1. map[k] \in Entry BY <2>2
    <3>2. Older(map)[k] = Aged(map[k]) BY <1>2, <2>2
    <3>3. PICK o : o = Older(map)[k] OBVIOUS
    <3>4. PICK e : e = map[k] OBVIOUS
    <3>5. Follows(map[k], Aged(map[k]))
      <4> HIDE DEF Aged, Follows
      <4> QED BY <3>1, <1>1
    <3>6. Follows(e, o)
      <4> HIDE DEF Aged, Follows
      <4> QED BY <3>2, <3>3, <3>4, <3>5
    <3>7. map[k] # NoEntry BY <2>2
    <3> QED BY <3>1, <3>3, <3>4, <3>6, <3>7, ZenonT(40)
  <2> QED BY <2>1, <2>2
<1>4. Older(map) = [k \in Endpoints |-> Older(map)[k]] BY DEF Older
<1> QED BY <1>3, <1>4

LEMMA TickInv == ASSUME RegistryInv, Tick PROVE RegistryInv'
<1>0. /\ entries' = [r \in Registries |-> Older(entries[r])]
      /\ gossip' = [r \in Registries |-> Older(gossip[r])]
      /\ pull' = [r \in Registries |-> IF pull[r] = Idle THEN Idle ELSE [pull[r] EXCEPT !.waited = @ + 1]]
      /\ sleep' = [r \in Registries |-> Larger(0, sleep[r] - 1)]
      /\ age' = [k \in Endpoints |-> Smaller(age[k] + 1, OldAge)]
      /\ UNCHANGED <<todo, seen>>
      /\ \A r \in Registries : pull[r] # Idle => pull[r].waited < Timeout
  BY DEF Tick
<1>1. /\ age' \in [Endpoints -> 0..OldAge]
      /\ \A k \in Endpoints : age'[k] \in Nat /\ age'[k] <= age[k] + 1 /\ age[k] \in Nat
  <2>1. ASSUME NEW k \in Endpoints PROVE Smaller(age[k] + 1, OldAge) \in 0..OldAge /\ Smaller(age[k] + 1, OldAge) <= age[k] + 1 /\ age[k] \in Nat
    BY RegistryFacts, Bounds DEF Smaller
  <2> QED BY <2>1, <1>0, Bounds
<1>2. /\ entries' \in [Registries -> [Endpoints -> Entry \cup {NoEntry}]]
      /\ gossip' \in [Registries -> [Endpoints -> Entry \cup {NoEntry}]]
  <2>1. ASSUME NEW r \in Registries
        PROVE  Older(entries[r]) \in [Endpoints -> Entry \cup {NoEntry}] /\ Older(gossip[r]) \in [Endpoints -> Entry \cup {NoEntry}]
    BY RegistryFacts, OlderFacts
  <2> QED BY <2>1, <1>0
<1>3. EntriesInv'
  <2>1. ASSUME NEW r \in Registries, NEW k \in Endpoints, entries'[r][k] # NoEntry
        PROVE  /\ entries'[r][k].hops = 0
               /\ entries'[r][k].left > 0 => age'[k] + entries'[r][k].left <= Lifetime
    <3>1. entries'[r] = Older(entries[r]) BY <1>0
    <3>2. entries[r] \in [Endpoints -> Entry \cup {NoEntry}] BY RegistryFacts
    <3>3. /\ entries[r][k] # NoEntry /\ entries[r][k] \in Entry /\ entries'[r][k].hops = entries[r][k].hops
          /\ entries'[r][k].status = entries[r][k].status
          /\ entries'[r][k].vetted = entries[r][k].vetted /\ entries'[r][k].pin = entries[r][k].pin
          /\ entries'[r][k].left > 0 => entries[r][k].left > 0 /\ entries'[r][k].left = entries[r][k].left - 1
      BY <3>1, <3>2, <2>1, OlderFacts
    <3>4. /\ entries[r][k].hops = 0
          /\ entries[r][k].left > 0 => age[k] + entries[r][k].left <= Lifetime
      BY <3>3 DEF RegistryInv, EntriesInv
    <3>5. entries[r][k].left \in Nat BY <3>3, Bounds DEF Entry
    <3>6. entries'[r][k].left > 0 => age'[k] + entries'[r][k].left <= Lifetime BY <3>3, <3>4, <3>5, <1>1, Bounds
    <3> QED BY <3>3, <3>4, <3>6
  <2> QED BY <2>1 DEF EntriesInv
<1>4. GossipInv'
  <2>1. ASSUME NEW r \in Registries, NEW k \in Endpoints,
               gossip'[r][k] # NoEntry, gossip'[r][k].left > 0, gossip'[r][k].hops < MaxHops
        PROVE  age'[k] + gossip'[r][k].left <= Lifetime + gossip'[r][k].hops * HopGain
    <3>1. gossip'[r] = Older(gossip[r]) BY <1>0
    <3>2. gossip[r] \in [Endpoints -> Entry \cup {NoEntry}] BY RegistryFacts
    <3>3. /\ gossip[r][k] # NoEntry /\ gossip[r][k] \in Entry /\ gossip'[r][k].hops = gossip[r][k].hops
          /\ gossip[r][k].left > 0 /\ gossip'[r][k].left = gossip[r][k].left - 1
      BY <3>1, <3>2, <2>1, OlderFacts
    <3>4. age[k] + gossip[r][k].left <= Lifetime + gossip[r][k].hops * HopGain BY <3>3, <2>1 DEF RegistryInv, GossipInv
    <3>5. gossip[r][k].left \in Nat /\ gossip[r][k].hops \in Nat BY <3>3, Bounds DEF Entry
    <3>6. PICK h \in Nat : h = gossip[r][k].hops * HopGain BY <3>5, OneHopMore
    <3>7. age'[k] + (gossip[r][k].left - 1) <= Lifetime + h BY <3>4, <3>5, <3>6, <1>1, Bounds
    <3> QED BY <3>3, <3>6, <3>7
  <2> QED BY <2>1 DEF GossipInv
<1>5. ASSUME NEW r \in Registries
      PROVE  /\ pull'[r] \in PullType /\ pull'[r].nodes = pull[r].nodes /\ pull'[r].peer = pull[r].peer
             /\ pull'[r].nodes # {} => pull'[r].waited = pull[r].waited + 1 /\ pull[r].waited \in Nat
  <2>0. pull[r] \in PullType /\ Timeout \in Nat BY RegistryFacts, Bounds
  <2>1. CASE pull[r] = Idle
    <3>1. pull'[r] = Idle BY <2>1, <1>0
    <3>2. Idle.nodes = {} BY DEF Idle
    <3> QED BY <2>0, <2>1, <3>1, <3>2
  <2>2. CASE pull[r] # Idle
    <3>1. pull'[r] = [pull[r] EXCEPT !.waited = @ + 1] /\ pull[r].waited < Timeout BY <2>2, <1>0
    <3>2. pull[r].waited \in 0..Timeout BY <2>0 DEF PullType
    <3>3. pull[r].waited + 1 \in 0..Timeout BY <3>1, <3>2, <2>0
    <3> QED BY <3>1, <3>2, <3>3, <2>0 DEF PullType
  <2> QED BY <2>1, <2>2
<1>6. pull' \in [Registries -> PullType]
  <2>1. pull' = [r \in Registries |-> pull'[r]] BY <1>0
  <2> QED BY <2>1, <1>5
<1>7. PullInv'
  <2>1. ASSUME NEW r \in Registries, NEW n \in pull'[r].nodes, n.hops + 1 < MaxHops
        PROVE  age'[n.key] + CopyLifetime(n.ttl) <= Lifetime + n.hops * HopGain + TicksPerSecond + pull'[r].waited
    <3>1. n \in pull[r].nodes /\ pull'[r].waited = pull[r].waited + 1 /\ pull[r].waited \in Nat BY <1>5
    <3>2. age[n.key] + CopyLifetime(n.ttl) <= Lifetime + n.hops * HopGain + TicksPerSecond + pull[r].waited
      BY <3>1, <2>1 DEF RegistryInv, PullInv
    <3>3. n \in Node BY <3>1, RegistryFacts DEF PullType
    <3>4. n.key \in Endpoints /\ n.hops \in Nat /\ n.ttl \in 1..Ttl BY <3>3, Bounds DEF Node
    <3>5. CopyLifetime(n.ttl) \in 0..Lifetime /\ Lifetime \in Nat BY <3>4, CopyLifetimeFacts, Bounds
    <3>6. PICK h \in Nat : h = n.hops * HopGain BY <3>4, OneHopMore
    <3>7. age'[n.key] \in Nat /\ age'[n.key] <= age[n.key] + 1 /\ age[n.key] \in Nat BY <3>4, <1>1
    <3>8. age'[n.key] + CopyLifetime(n.ttl) <= Lifetime + h + TicksPerSecond + (pull[r].waited + 1)
      BY <3>1, <3>2, <3>5, <3>6, <3>7, Bounds
    <3> QED BY <3>1, <3>6, <3>8
  <2>2. ASSUME NEW r \in Registries PROVE IsFiniteSet(pull'[r].nodes) BY <1>5 DEF RegistryInv, PullInv
  <2> QED BY <2>1, <2>2 DEF PullInv
<1>8. RegistryTypeOK'
  <2>1. ASSUME NEW r \in Registries
        PROVE pull'[r].peer \in Peers[r] \cup {NoEntry} /\ pull'[r].nodes \subseteq Node /\ pull'[r].waited \in 0..Timeout
    <3>1. pull'[r].waited \in 0..Timeout BY <1>5 DEF PullType
    <3> QED BY <3>1, <1>5 DEF RegistryInv, RegistryTypeOK
  <2>2. sleep' \in [Registries -> 0..Period]
    <3>1. ASSUME NEW r \in Registries PROVE Larger(0, sleep[r] - 1) \in 0..Period
      <4>1. sleep[r] \in 0..Period /\ Period \in Nat BY Bounds DEF RegistryInv, RegistryTypeOK
      <4> QED BY <4>1 DEF Larger
    <3> QED BY <3>1, <1>0
  <2> QED BY <2>1, <2>2, <1>0, <1>1, <1>2 DEF RegistryInv, RegistryTypeOK
<1> QED BY <1>3, <1>4, <1>6, <1>7, <1>8 DEF RegistryInv

LEMMA RegistryNextInv == ASSUME RegistryInv, [RegistryNext]_registryVars PROVE RegistryInv'
<1>1. CASE UNCHANGED registryVars
  <2>0. UNCHANGED <<entries, gossip, pull, todo, sleep, seen, age>> BY <1>1 DEF registryVars
  <2>1. RegistryTypeOK' BY <2>0 DEF RegistryInv, RegistryTypeOK
  <2>2. EntriesInv' /\ GossipInv' /\ PullInv' BY <2>0 DEF RegistryInv, EntriesInv, GossipInv, PullInv
  <2> QED BY <2>0, <2>1, <2>2 DEF RegistryInv
<1> QED
  BY <1>1, RegisterNodeInv, ApproveInv, RejectInv, CollectExpiredInv, PullListingInv, MergeListingInv,
     PullFailsInv, ListPendingInv, TickInv DEF RegistryNext

\* The directory is as its invariant says, for any registries that pull from
\* each other in any way.
THEOREM RegistrySound == RegistrySpec => []RegistryInv
<1>1. RegistryInit => RegistryInv BY RegistryInitInv
<1>2. RegistryInv /\ [RegistryNext]_registryVars => RegistryInv' BY RegistryNextInv
<1> QED BY <1>1, <1>2, PTL DEF RegistrySpec

\* Entries, copies and pulls have their types.
THEOREM RegistryTypes == RegistrySpec => []RegistryTypeOK
<1>1. RegistryInv => RegistryTypeOK BY DEF RegistryInv
<1> QED BY <1>1, RegistrySound, PTL

-----------------------------------------------------------------------------
(***************************************************************************)
(* What approvals are for.                                                 *)
(***************************************************************************)
\* A registration that the operator was shown is approved for its pin or, as
\* long as it is pending, has the pin that the last listing gave for it.
Kept(e, line) ==
    e.shown => /\ e.status = "Approved" => e.vetted = e.pin
               /\ e.status = "Pending" => line = e.pin

ApprovalInv ==
    \A r \in Registries : \A k \in Endpoints :
        entries[r][k] # NoEntry => Kept(entries[r][k], seen[r].direct[k])

\* Steps after which a registration is as it was, or is gone, keep that.
LEMMA SameApprovals ==
  ASSUME ApprovalInv, seen' = seen,
         \A r \in Registries : \A k \in Endpoints : entries'[r][k] # NoEntry =>
             /\ entries[r][k] # NoEntry
             /\ entries'[r][k].pin = entries[r][k].pin /\ entries'[r][k].shown = entries[r][k].shown
             /\ entries'[r][k].status = entries[r][k].status /\ entries'[r][k].vetted = entries[r][k].vetted
  PROVE  ApprovalInv'
  BY DEF ApprovalInv, Kept

LEMMA FewerApprovals ==
  ASSUME RegistryInv, ApprovalInv, NEW r \in Registries, seen' = seen,
         \/ entries' = entries
         \/ entries' = [entries EXCEPT ![r] = Unexpired(@)]
         \/ \E k \in Endpoints : entries' = [entries EXCEPT ![r][k] = NoEntry]
  PROVE  ApprovalInv'
<1>0. entries \in [Registries -> [Endpoints -> Entry \cup {NoEntry}]] BY RegistryFacts
<1>1. \A x \in Endpoints : Unexpired(entries[r])[x] = NoEntry \/ Unexpired(entries[r])[x] = entries[r][x]
  BY <1>0, UnexpiredFacts
<1>2. \A s \in Registries : \A x \in Endpoints : entries'[s][x] = NoEntry \/ entries'[s][x] = entries[s][x]
  <2>1. CASE entries' = entries BY <2>1
  <2>2. CASE entries' = [entries EXCEPT ![r] = Unexpired(@)] BY <2>2, <1>0, <1>1
  <2>3. CASE \E k \in Endpoints : entries' = [entries EXCEPT ![r][k] = NoEntry] BY <2>3, <1>0
  <2> QED BY <2>1, <2>2, <2>3
<1> QED BY <1>2, SameApprovals

\* register_node refuses another pin for what is registered, and what it
\* registers anew was shown to nobody.
LEMMA RegisterApproval ==
  ASSUME RegistryInv, ApprovalInv, NEW q \in Requests, RegisterNode(q[1], q[2], q[3]) PROVE ApprovalInv'
<1>0. q[1] \in Registries /\ q[2] \in Endpoints /\ q[3] \in Pins BY RegistryAssumption
<1> DEFINE r == q[1] k == q[2] pin == q[3] live == Unexpired(entries[r]) new == Refreshed(live, k, pin)
<1>1. /\ PinUnchanged(live, k, pin)
      /\ entries' = [entries EXCEPT ![r] = [live EXCEPT ![k] = new]]
      /\ seen' = seen
  BY DEF RegisterNode
<1>2. entries \in [Registries -> [Endpoints -> Entry \cup {NoEntry}]] BY RegistryFacts
<1>3. /\ live \in [Endpoints -> Entry \cup {NoEntry}]
      /\ \A x \in Endpoints : live[x] = NoEntry \/ live[x] = entries[r][x]
  BY <1>0, <1>2, UnexpiredFacts
<1>4. Kept(new, seen[r].direct[k])
  <2>1. CASE live[k] # NoEntry
    <3>1. live[k] \in Entry /\ live[k].pin = pin /\ live[k] = entries[r][k]
      BY <2>1, <1>0, <1>1, <1>3 DEF PinUnchanged
    <3>2. new = [live[k] EXCEPT !.pin = pin, !.left = Lifetime] BY <2>1 DEF Refreshed
    <3>3. Kept(live[k], seen[r].direct[k]) BY <2>1, <3>1, <1>0 DEF ApprovalInv
    <3>p. live[k] \in Entry /\ pin \in Pins BY <3>1, <1>0
    <3> HIDE DEF live, r, k, pin, new
    <3>4. /\ new.pin = pin /\ new.shown = live[k].shown
          /\ new.status = live[k].status /\ new.vetted = live[k].vetted
      BY <3>p, <3>2, RefreshedEntry
    <3> QED BY <3>1, <3>3, <3>4 DEF Kept
  <2>2. CASE live[k] = NoEntry BY <2>2 DEF Refreshed, Kept
  <2> QED BY <2>1, <2>2
<1>5. r \in Registries /\ k \in Endpoints BY <1>0
<1> HIDE DEF live, r, k, pin, new
<1>6. ASSUME NEW s \in Registries, NEW x \in Endpoints, entries'[s][x] # NoEntry
      PROVE  Kept(entries'[s][x], seen'[s].direct[x])
  <2>1. CASE s = r /\ x = k
    <3>1. entries'[s][x] = new BY <2>1, <1>1, <1>2, <1>3, <1>5
    <3> QED BY <3>1, <2>1, <1>1, <1>4
  <2>2. CASE ~(s = r /\ x = k)
    <3>1. entries'[s][x] = entries[s][x]
      <4>1. CASE s = r BY <4>1, <2>2, <1>6, <1>1, <1>2, <1>3, <1>5
      <4>2. CASE s # r BY <4>2, <1>1, <1>2, <1>5
      <4> QED BY <4>1, <4>2
    <3> QED BY <3>1, <1>6, <1>1 DEF ApprovalInv
  <2> QED BY <2>1, <2>2
<1> QED BY <1>6 DEF ApprovalInv

\* LISTPENDING gives the operator the pins of what is pending.
LEMMA ListApproval ==
  ASSUME RegistryInv, ApprovalInv, NEW r \in Registries, ListPending(r) PROVE ApprovalInv'
<1> DEFINE direct == Unexpired(entries[r]) copies == Unexpired(gossip[r])
           lines == [direct |-> PinsOf(direct), copies |-> PinsOf(copies)]
<1>0. /\ entries' = [entries EXCEPT ![r] = Shown(direct)]
      /\ seen' = [seen EXCEPT ![r] = lines]
  BY DEF ListPending
<1>1. entries \in [Registries -> [Endpoints -> Entry \cup {NoEntry}]] /\ seen \in [Registries -> Lines]
  BY RegistryFacts
<1>2. /\ direct \in [Endpoints -> Entry \cup {NoEntry}]
      /\ \A x \in Endpoints : direct[x] # NoEntry => direct[x] = entries[r][x] /\ direct[x] \in Entry
  BY <1>1, UnexpiredFacts
<1>3. lines.direct = PinsOf(direct) OBVIOUS
<1> HIDE DEF direct, copies, lines
<1>4. ASSUME NEW s \in Registries, NEW x \in Endpoints, entries'[s][x] # NoEntry
      PROVE  Kept(entries'[s][x], seen'[s].direct[x])
  <2>1. CASE s = r
    <3>1. entries'[s][x] = Shown(direct)[x] /\ seen'[s].direct[x] = PinsOf(direct)[x]
      BY <2>1, <1>0, <1>1, <1>3
    <3>2. /\ direct[x] # NoEntry /\ entries'[s][x].status = direct[x].status
          /\ entries'[s][x].vetted = direct[x].vetted /\ entries'[s][x].pin = direct[x].pin
          /\ direct[x].status # "Pending" => entries'[s][x].shown = direct[x].shown
          /\ direct[x].status = "Pending" => PinsOf(direct)[x] = direct[x].pin
      BY <3>1, <1>2, <1>4, ShownFacts
    <3>3. Kept(direct[x], seen[s].direct[x]) BY <3>2, <1>2, <2>1 DEF ApprovalInv
    <3> QED BY <3>1, <3>2, <3>3 DEF Kept
  <2>2. CASE s # r
    <3>1. entries'[s] = entries[s] /\ seen'[s] = seen[s] BY <2>2, <1>0, <1>1
    <3> QED BY <3>1, <1>4 DEF ApprovalInv
  <2> QED BY <2>1, <2>2
<1> QED BY <1>4 DEF ApprovalInv

\* APPROVE approves what the listing says of the endpoint.
LEMMA ApproveApproval ==
  ASSUME RegistryInv, ApprovalInv, NEW r \in Registries, NEW k \in Endpoints, Approve(r, k) PROVE ApprovalInv'
<1>0. seen' = seen BY DEF Approve
<1>1. entries \in [Registries -> [Endpoints -> Entry \cup {NoEntry}]] /\ seen \in [Registries -> Lines]
  BY RegistryFacts
<1>2. CASE entries[r][k] = NoEntry
  <2>1. entries' = entries BY <1>2 DEF Approve
  <2> QED BY <2>1, <1>0 DEF ApprovalInv
<1>3. CASE entries[r][k] # NoEntry
  <2> DEFINE new == Approved(entries[r], k, seen[r].direct)[k]
  <2>1. entries' = [entries EXCEPT ![r] = Approved(@, k, seen[r].direct)] BY <1>3 DEF Approve
  <2>2. entries[r] \in [Endpoints -> Entry \cup {NoEntry}] /\ seen[r].direct \in [Endpoints -> Pins \cup {NoPin}]
    BY <1>1 DEF Lines
  <2>3. /\ Approved(entries[r], k, seen[r].direct) = [entries[r] EXCEPT ![k] = new]
        /\ new.status = "Approved" /\ new.pin = entries[r][k].pin /\ new.shown = entries[r][k].shown
        /\ new.vetted = IF entries[r][k].status = "Pending" THEN seen[r].direct[k] ELSE entries[r][k].vetted
    BY <1>3, <2>2, ApprovedFacts
  <2> HIDE DEF new
  <2>4. entries' = [entries EXCEPT ![r] = [entries[r] EXCEPT ![k] = new]] BY <2>1, <2>3, <1>1
  <2>5. Kept(entries[r][k], seen[r].direct[k]) BY <1>3 DEF ApprovalInv
  <2>6. entries[r][k].status \in {"Pending", "Approved"}
    <3>1. entries[r][k] \in Entry BY <1>3, <2>2
    <3> QED BY <3>1 DEF Entry
  <2>7. Kept(new, seen[r].direct[k]) BY <2>3, <2>5, <2>6 DEF Kept
  <2>8. ASSUME NEW s \in Registries, NEW x \in Endpoints, entries'[s][x] # NoEntry
        PROVE  Kept(entries'[s][x], seen'[s].direct[x])
    <3>1. CASE s = r /\ x = k
      <4>1. entries'[s][x] = new BY <3>1, <2>4, <1>1
      <4> QED BY <4>1, <3>1, <2>7, <1>0
    <3>2. CASE ~(s = r /\ x = k)
      <4>1. entries'[s][x] = entries[s][x] BY <3>2, <2>4, <1>1
      <4> QED BY <4>1, <2>8, <1>0 DEF ApprovalInv
    <3> QED BY <3>1, <3>2
  <2> QED BY <2>8 DEF ApprovalInv
<1> QED BY <1>2, <1>3

\* Time changes no approval.
LEMMA TickApproval == ASSUME RegistryInv, ApprovalInv, Tick PROVE ApprovalInv'
<1>1. ASSUME NEW r \in Registries, NEW k \in Endpoints, entries'[r][k] # NoEntry
      PROVE  /\ entries[r][k] # NoEntry
             /\ entries'[r][k].pin = entries[r][k].pin /\ entries'[r][k].shown = entries[r][k].shown
             /\ entries'[r][k].status = entries[r][k].status /\ entries'[r][k].vetted = entries[r][k].vetted
  <2>1. entries'[r] = Older(entries[r]) BY DEF Tick
  <2>2. entries[r] \in [Endpoints -> Entry \cup {NoEntry}] BY RegistryFacts
  <2> QED BY <2>1, <2>2, <1>1, OlderFacts
<1>2. seen' = seen BY DEF Tick
<1> QED BY <1>1, <1>2, SameApprovals

LEMMA ApprovalStep ==
  ASSUME RegistryInv, ApprovalInv, [RegistryNext]_registryVars PROVE ApprovalInv'
<1>1. CASE UNCHANGED registryVars BY <1>1 DEF registryVars, ApprovalInv
<1>2. ASSUME NEW q \in Requests, RegisterNode(q[1], q[2], q[3]) PROVE ApprovalInv'
  BY <1>2, RegisterApproval
<1>3. ASSUME NEW r \in Registries, NEW k \in Endpoints, Approve(r, k) \/ Reject(r, k) PROVE ApprovalInv'
  <2>1. CASE Approve(r, k) BY <2>1, ApproveApproval
  <2>2. CASE Reject(r, k) BY <2>2, FewerApprovals DEF Reject
  <2> QED BY <1>3, <2>1, <2>2
<1>4. ASSUME NEW r \in Registries, CollectExpired(r) PROVE ApprovalInv'
  BY <1>4, FewerApprovals DEF CollectExpired, RemoveExpired
<1>5. ASSUME NEW r \in Registries, ListPending(r) PROVE ApprovalInv' BY <1>5, ListApproval
<1>6. ASSUME NEW r \in Registries, NEW p \in Peers[r], PullListing(r, p) PROVE ApprovalInv'
  <2>1. p \in Registries BY RegistryAssumption
  <2> QED BY <1>6, <2>1, FewerApprovals DEF PullListing
<1>7. ASSUME NEW r \in Registries, MergeListing(r) \/ PullFails(r) PROVE ApprovalInv'
  <2>1. UNCHANGED <<entries, seen>> BY <1>7 DEF MergeListing, PullFails
  <2> QED BY <2>1 DEF ApprovalInv
<1>8. CASE Tick BY <1>8, TickApproval
<1> QED BY <1>1, <1>2, <1>3, <1>4, <1>5, <1>6, <1>7, <1>8 DEF RegistryNext

\* register_node, LISTPENDING and APPROVE: a registration that the operator was
\* shown, and approved, has the pin that the listing had for it.
THEOREM ApprovalIsForItsPin == RegistrySpec => []ApprovalKeepsPin
<1>1. RegistryInit => ApprovalInv BY DEF RegistryInit, ApprovalInv
<1>2. RegistryInv /\ ApprovalInv /\ [RegistryNext]_registryVars => ApprovalInv' BY ApprovalStep
<1>3. RegistryInv /\ ApprovalInv => ApprovalKeepsPin
  <2>1. SUFFICES ASSUME RegistryInv, ApprovalInv, NEW r \in Registries, NEW k \in Keys(entries[r]),
                        entries[r][k].status = "Approved", entries[r][k].shown
                 PROVE  entries[r][k].vetted = entries[r][k].pin
    BY DEF ApprovalKeepsPin
  <2>2. DOMAIN entries[r] = Endpoints BY <2>1, RegistryFacts
  <2>3. k \in Endpoints /\ entries[r][k] # NoEntry BY <2>2 DEF Keys
  <2> QED BY <2>1, <2>3 DEF ApprovalInv, Kept
<1> QED BY <1>1, <1>2, <1>3, RegistrySound, PTL DEF RegistrySpec

\* snapshot() and gossip_loop: an endpoint without a heartbeat leaves every
\* listing after its time to live and what each hop of its copies adds.
THEOREM NothingStaleIsListed == RegistrySpec => []NoStaleListing
<1>1. RegistryInv => NoStaleListing BY SnapshotFacts DEF NoStaleListing
<1> QED BY <1>1, RegistrySound, PTL

=============================================================================

--------------------------- MODULE EventLog_proofs --------------------------
(***************************************************************************)
(* What holds of EventLog for any number of transactions and of events.    *)
(*                                                                         *)
(* That the log has no gaps is not inductive: it says nothing of what the  *)
(* open transactions are about to commit.  GapInv does: the events of an   *)
(* open transaction follow the committed ones without a gap, which only    *)
(* one transaction at a time can claim, since all others that insert wait  *)
(* for the number after the last committed one.                            *)
(***************************************************************************)
EXTENDS EventLog, FiniteSetTheorems, TLAPS

Shapes ==
    /\ phase \in [Writer -> {"idle", "open", "insert"}]
    /\ own \in [Writer -> SUBSET Nat]
    /\ pick \in [Writer -> Nat]

\* w has inserted nothing: its number is at most the next one.
Empty(w, n) == own[w] = {} /\ pick[w] <= n + 1

\* w has inserted the k events after the n committed ones.
Inserted(w, n, k) == own[w] = n + 1 .. n + k /\ (phase[w] = "insert" => pick[w] = n + k + 1)

\* The open transactions over a log of n events.
OpenOver(n) ==
    /\ \A w \in Writer : Empty(w, n) \/ \E k \in Nat \ {0} : Inserted(w, n, k)
    /\ \A v, w \in Writer : own[v] # {} /\ own[w] # {} => v = w

GapInv ==
    /\ Shapes
    /\ \A w \in Writer : phase[w] = "insert" => pick[w] # 0
    /\ \E n \in Nat : committed = 1 .. n /\ OpenOver(n)

-----------------------------------------------------------------------------

LEMMA TopOfInterval == ASSUME NEW n \in Nat PROVE Top(1 .. n) = n
<1>1. CASE n = 0
  BY <1>1 DEF Top
<1>2. CASE n # 0
  <2>1. n \in 1 .. n /\ \A i \in 1 .. n : i <= n
    BY <1>2
  <2> DEFINE t == CHOOSE m \in 1 .. n : \A i \in 1 .. n : i <= m
  <2>2. t \in 1 .. n /\ \A i \in 1 .. n : i <= t
    BY <2>1
  <2>3. t = n
    BY <2>1, <2>2
  <2> QED
    BY <2>1, <2>3 DEF Top
<1> QED
  BY <1>1, <1>2

LEMMA GapInit == Init => GapInv
<1> SUFFICES ASSUME Init PROVE GapInv
  OBVIOUS
<1>1. Shapes /\ \A w \in Writer : phase[w] # "insert"
  BY DEF Init, Shapes
<1>2. committed = 1 .. 0 /\ OpenOver(0)
  BY DEF Init, OpenOver, Empty
<1> QED
  BY <1>1, <1>2 DEF GapInv

\* A step of w that takes nothing from the others.
LEMMA OthersOpen ==
    ASSUME NEW w \in Writer, NEW n \in Nat, OpenOver(n), Shapes,
           \A v \in Writer \ {w} : phase'[v] = phase[v] /\ own'[v] = own[v] /\ pick'[v] = pick[v],
           Empty(w, n)' \/ \E k \in Nat \ {0} : Inserted(w, n, k)',
           own'[w] = {} \/ own[w] # {} \/ \A v \in Writer \ {w} : own[v] = {}
    PROVE  OpenOver(n)'
<1>1. ASSUME NEW v \in Writer \ {w}
      PROVE  Empty(v, n)' \/ \E k \in Nat \ {0} : Inserted(v, n, k)'
  <2>1. Empty(v, n) => Empty(v, n)'
    BY DEF Empty
  <2>2. ASSUME NEW k \in Nat \ {0}, Inserted(v, n, k) PROVE Inserted(v, n, k)'
    BY <2>2 DEF Inserted
  <2>3. Empty(v, n) \/ \E k \in Nat \ {0} : Inserted(v, n, k)
    BY DEF OpenOver
  <2> QED
    BY <2>1, <2>2, <2>3
<1>2. \A u, v \in Writer : own'[u] # {} /\ own'[v] # {} => u = v
  BY DEF OpenOver
<1> QED
  BY <1>1, <1>2 DEF OpenOver

LEMMA GapStep == GapInv /\ [Next]_vars => GapInv'
<1> SUFFICES ASSUME GapInv, [Next]_vars PROVE GapInv'
  OBVIOUS
<1>n. PICK n \in Nat : committed = 1 .. n /\ OpenOver(n)
  BY DEF GapInv
<1> USE DEF GapInv
<1>1. ASSUME NEW w \in Writer, Begin(w) PROVE GapInv'
  <2>1. phase'[w] = "open" /\ \A v \in Writer \ {w} : phase'[v] = phase[v]
    BY <1>1 DEF Begin, Shapes
  <2>2. Empty(w, n)' \/ \E k \in Nat \ {0} : Inserted(w, n, k)'
    BY <1>1, <1>n, <2>1 DEF Begin, OpenOver, Empty, Inserted
  <2>3. OpenOver(n)'
    BY <1>1, <1>n, <2>1, <2>2, OthersOpen DEF Begin
  <2> QED
    BY <1>1, <1>n, <2>1, <2>3 DEF Begin, Shapes
<1>2. ASSUME NEW w \in Writer, ReadMax(w) PROVE GapInv'
  <2>1. /\ phase'[w] = "insert" /\ pick'[w] = Top(committed \cup own[w]) + 1
        /\ own' = own /\ committed' = committed
        /\ \A v \in Writer \ {w} : phase'[v] = phase[v] /\ pick'[v] = pick[v]
    BY <1>2 DEF ReadMax, Shapes
  <2>2. CASE own[w] = {}
    <3>1. pick'[w] = n + 1
      BY <1>n, <2>1, <2>2, TopOfInterval
    <3> QED
      <4>1. OpenOver(n)'
        BY <1>n, <2>1, <2>2, <3>1, OthersOpen DEF Empty
      <4>2. pick' \in [Writer -> Nat] /\ phase' \in [Writer -> {"idle", "open", "insert"}]
        BY <1>2, <2>1, <3>1 DEF ReadMax, Shapes
      <4> QED
        BY <1>n, <2>1, <3>1, <4>1, <4>2 DEF Shapes
  <2>3. CASE own[w] # {}
    <3>1. PICK k \in Nat \ {0} : Inserted(w, n, k)
      BY <1>n, <2>3 DEF OpenOver, Empty
    <3>2. committed \cup own[w] = 1 .. n + k
      BY <1>n, <3>1 DEF Inserted
    <3>3. pick'[w] = n + k + 1
      <4>1. n + k \in Nat
        OBVIOUS
      <4>2. Top(1 .. n + k) = n + k
        BY <4>1, TopOfInterval
      <4> QED
        BY <2>1, <3>2, <4>2
    <3>4. Inserted(w, n, k)'
      BY <2>1, <3>1, <3>3 DEF Inserted
    <3>5. OpenOver(n)'
      BY <1>n, <2>1, <2>3, <3>4, OthersOpen
    <3>6. pick' \in [Writer -> Nat] /\ phase' \in [Writer -> {"idle", "open", "insert"}]
      BY <1>2, <2>1, <3>3 DEF ReadMax, Shapes
    <3> QED
      BY <1>n, <2>1, <3>3, <3>5, <3>6 DEF Shapes
  <2> QED
    BY <2>2, <2>3
<1>3. ASSUME NEW w \in Writer, Insert(w) PROVE GapInv'
  <2>1. /\ phase'[w] = "open" /\ own'[w] = own[w] \cup {pick[w]} /\ pick'[w] = 0
        /\ committed' = committed
        /\ \A v \in Writer \ {w} : phase'[v] = phase[v] /\ own'[v] = own[v] /\ pick'[v] = pick[v]
    BY <1>3 DEF Insert, Shapes
  <2>2. Shapes'
    BY <1>3 DEF Insert, Shapes
  <2>3. pick[w] \in Nat \ {0} /\ pick[w] \notin 1 .. n
    BY <1>3, <1>n DEF Insert, Shapes
  <2>4. CASE own[w] = {}
    <3>1. pick[w] = n + 1
      <4>1. Empty(w, n)
        <5>1. ASSUME NEW k \in Nat \ {0}, Inserted(w, n, k) PROVE FALSE
          <6>1. n + 1 \in own[w]
            BY <5>1 DEF Inserted
          <6> QED
            BY <2>4, <6>1
        <5> QED
          BY <1>n, <5>1 DEF OpenOver
      <4> QED
        BY <2>3, <4>1 DEF Empty
    <3>2. ASSUME NEW v \in Writer \ {w} PROVE own[v] = {}
      <4>1. n + 1 \notin own[v]
        BY <1>3, <3>1 DEF Insert
      <4> QED
        BY <1>n, <4>1 DEF OpenOver, Empty, Inserted
    <3>3. own'[w] = n + 1 .. n + 1
      BY <2>1, <2>4, <3>1
    <3>4. Inserted(w, n, 1)'
      BY <2>1, <3>3 DEF Inserted
    <3>5. OpenOver(n)'
      BY <1>n, <2>1, <3>2, <3>4, OthersOpen
    <3> QED
      BY <1>n, <2>1, <2>2, <3>5
  <2>5. CASE own[w] # {}
    <3>1. PICK k \in Nat \ {0} : Inserted(w, n, k)
      BY <1>n, <2>5 DEF OpenOver, Empty
    <3>2. own'[w] = n + 1 .. n + (k + 1)
      <4>1. own'[w] = (n + 1 .. n + k) \cup {n + k + 1}
        BY <1>3, <2>1, <3>1 DEF Insert, Inserted
      <4>2. (n + 1 .. n + k) \cup {n + k + 1} = n + 1 .. n + (k + 1)
        OBVIOUS
      <4> QED
        BY <4>1, <4>2
    <3>3. Inserted(w, n, k + 1)' /\ k + 1 \in Nat \ {0}
      BY <2>1, <3>2 DEF Inserted
    <3>4. OpenOver(n)'
      BY <1>n, <2>1, <2>5, <3>3, OthersOpen
    <3> QED
      BY <1>n, <2>1, <2>2, <3>4
  <2> QED
    BY <2>4, <2>5
\* A transaction that is rolled back.
<1>4. ASSUME NEW w \in Writer, Abandon(w), UNCHANGED committed PROVE GapInv'
  <2>1. /\ phase'[w] = "idle" /\ own'[w] = {} /\ pick'[w] = 0
        /\ \A v \in Writer \ {w} : phase'[v] = phase[v] /\ own'[v] = own[v] /\ pick'[v] = pick[v]
    BY <1>4 DEF Abandon, Shapes
  <2>2. Shapes'
    BY <1>4 DEF Abandon, Shapes
  <2>3. OpenOver(n)'
    BY <1>n, <2>1, OthersOpen DEF Empty
  <2> QED
    BY <1>4, <1>n, <2>1, <2>2, <2>3
<1>5. ASSUME NEW w \in Writer, NEW st \in Status, Commit(w, st) PROVE GapInv'
  <2>1. /\ phase'[w] = "idle" /\ own'[w] = {} /\ pick'[w] = 0
        /\ \A v \in Writer \ {w} : phase'[v] = phase[v] /\ own'[v] = own[v] /\ pick'[v] = pick[v]
        /\ committed' = committed \cup own[w]
    BY <1>5 DEF Commit, Abandon, Shapes
  <2>2. Shapes'
    BY <1>5 DEF Commit, Abandon, Shapes
  <2>3. PICK k \in Nat \ {0} : Inserted(w, n, k)
    BY <1>5, <1>n DEF Commit, OpenOver, Empty
  <2>4. committed' = 1 .. n + k
    BY <1>n, <2>1, <2>3 DEF Inserted
  <2>5. \A v \in Writer : Empty(v, n + k)'
    <3>1. \A v \in Writer \ {w} : own[v] = {}
      BY <1>5, <1>n DEF Commit, OpenOver
    <3>2. ASSUME NEW v \in Writer \ {w} PROVE pick[v] <= n + 1
      <4>1. Empty(v, n) \/ \E j \in Nat \ {0} : Inserted(v, n, j)
        BY <1>n DEF OpenOver
      <4>2. ASSUME NEW j \in Nat \ {0}, Inserted(v, n, j) PROVE FALSE
        <5>1. n + 1 \in own[v]
          BY <4>2 DEF Inserted
        <5> QED
          BY <3>1, <5>1
      <4> QED
        BY <4>1, <4>2 DEF Empty
    <3> QED
      BY <2>1, <3>1, <3>2 DEF Empty, Shapes
  <2>6. OpenOver(n + k)'
    BY <2>5 DEF OpenOver, Empty
  <2> QED
    BY <2>1, <2>2, <2>4, <2>6
<1>6. ASSUME UNCHANGED writers PROVE GapInv'
  <2>1. UNCHANGED <<committed, phase, own, pick>>
    BY <1>6 DEF writers
  <2>2. OpenOver(n)'
    BY <1>n, <2>1 DEF OpenOver, Empty, Inserted
  <2>3. Shapes'
    BY <2>1 DEF Shapes
  <2> QED
    BY <1>n, <2>1, <2>2, <2>3
<1>7. CASE \E r \in Reader : Follow(r)
  BY <1>6, <1>7 DEF Follow, Connect, Poll, ReadStatus, ReadEvents, Receive, Drop
<1>8. CASE UNCHANGED vars
  BY <1>6, <1>8 DEF vars
<1> QED
  BY <1>1, <1>2, <1>3, <1>4, <1>5, <1>7, <1>8 DEF Next, Emit, InsertFails, Rollback

\* The committed numbers of a log are 1 to n, however many transactions chose theirs by
\* a read without a lock and whichever of them are rolled back (_emit).
THEOREM NoGapsSafe == Spec => []LogHasNoGaps
<1>1. GapInv => LogHasNoGaps
  <2> SUFFICES ASSUME NEW n \in Nat, committed = 1 .. n PROVE committed = 1 .. Cardinality(committed)
    BY DEF GapInv, LogHasNoGaps
  <2>1. Cardinality(1 .. n) = n
    BY FS_Interval
  <2> QED
    BY <2>1
<1> QED
  BY GapInit, GapStep, <1>1, PTL DEF Spec

-----------------------------------------------------------------------------
(***************************************************************************)
(* The stream.  What a client was handed and what is in flight to it are   *)
(* together 1, 2, 3, ..., and the cursor of an open stream is the last of  *)
(* them: a client that comes back with its last id is sent what follows.   *)
(* A stream that ended with the run had sent all that its status read owed *)
(***************************************************************************)

StreamShapes ==
    /\ conn \in [Reader -> {"closed", "status", "events"}]
    /\ last \in [Reader -> Nat]
    /\ owed \in [Reader -> Nat]
    /\ DOMAIN seen = Reader
    /\ why \in [Reader -> {"open", "terminal", "parked", "dropped"}]
    /\ wire \in [Reader -> Seq(Nat)]
    /\ got \in [Reader -> Seq(Nat)]

\* What r was handed is 1 to Len(got[r]), and what is in flight follows it.
Follows(r) ==
    /\ \A i \in 1 .. Len(got[r]) : got[r][i] = i
    /\ \A i \in 1 .. Len(wire[r]) : wire[r][i] = Len(got[r]) + i

\* The cursor of an open stream is the last event it has sent.
CursorAtEnd(r) == conn[r] # "closed" => last[r] = Len(got[r]) + Len(wire[r])

\* What the last poll owed is committed, and sent if the stream ended with the run.
Owes(r) ==
    /\ 1 .. owed[r] \subseteq committed
    /\ why[r] = "terminal" /\ conn[r] = "closed" => last[r] >= owed[r]

StreamInv == StreamShapes /\ \A r \in Reader : Follows(r) /\ CursorAtEnd(r) /\ Owes(r)

\* What ReadEvents sends after cursor a from a log of n events.
LEMMA AscendingOfInterval ==
    ASSUME NEW a \in Nat, NEW n \in Nat, a < n
    PROVE  Ascending(a + 1 .. n) = [i \in 1 .. n - a |-> a + i]
<1> DEFINE S == a + 1 .. n
<1>1. Cardinality(S) = n - a
  BY FS_Interval
<1>2. ASSUME NEW k \in S PROVE Cardinality({m \in S : m < k}) = k - a - 1
  <2>1. {m \in S : m < k} = a + 1 .. k - 1
    OBVIOUS
  <2>2. Cardinality(a + 1 .. k - 1) = IF a + 1 > k - 1 THEN 0 ELSE (k - 1) - (a + 1) + 1
    BY FS_Interval
  <2>3. k \in Int /\ k >= a + 1
    OBVIOUS
  <2>4. (IF a + 1 > k - 1 THEN 0 ELSE (k - 1) - (a + 1) + 1) = k - a - 1
    BY <2>3
  <2> QED
    BY <2>1, <2>2, <2>4
<1>3. ASSUME NEW i \in 1 .. n - a
      PROVE  (CHOOSE k \in S : Cardinality({m \in S : m < k}) = i - 1) = a + i
  <2> DEFINE P(k) == Cardinality({m \in S : m < k}) = i - 1
  <2>1. a + i \in S
    OBVIOUS
  <2>2. P(a + i)
    BY <2>1, <1>2
  <2>3. \A k \in S : P(k) => k = a + i
    BY <1>2
  <2> HIDE DEF S, P
  <2>4. (CHOOSE k \in S : P(k)) = a + i
    BY <2>1, <2>2, <2>3
  <2> QED
    BY <2>4 DEF P
<1>4. Ascending(S) =
        [i \in 1 .. n - a |-> CHOOSE k \in S : Cardinality({m \in S : m < k}) = i - 1]
  BY <1>1 DEF Ascending
<1> QED
  BY <1>3, <1>4

LEMMA AscendingOfNothing == Ascending({}) = <<>>
<1>1. Cardinality({}) = 0 /\ 1 .. 0 = {}
  BY FS_EmptySet
<1> QED
  BY <1>1 DEF Ascending

LEMMA TopAfter ==
    ASSUME NEW a \in Nat, NEW n \in Nat, a < n
    PROVE  Top(a + 1 .. n) = n
<1> DEFINE S == a + 1 .. n
           t == CHOOSE m \in S : \A i \in S : i <= m
<1>1. n \in S /\ \A i \in S : i <= n
  OBVIOUS
<1>2. t \in S /\ \A i \in S : i <= t
  BY <1>1
<1>3. t = n
  BY <1>1, <1>2
<1> QED
  BY <1>1, <1>3 DEF Top

\* A poll sends to a client at g, with w in flight to it, what is after the cursor in a
\* log of n events.
LEMMA SendsOn ==
    ASSUME NEW g \in Nat, NEW w \in Seq(Nat), NEW n \in Nat,
           \A i \in 1 .. Len(w) : w[i] = g + i
    PROVE  LET new == {i \in 1 .. n : i > g + Len(w)}
               end == IF new = {} THEN g + Len(w) ELSE Top(new)
               sent == w \o Ascending(new)
           IN  /\ end \in Nat /\ end >= n /\ sent \in Seq(Nat) /\ end = g + Len(sent)
               /\ \A i \in 1 .. Len(sent) : sent[i] = g + i
<1> DEFINE a == g + Len(w)
           new == {i \in 1 .. n : i > a}
           end == IF new = {} THEN a ELSE Top(new)
           sent == w \o Ascending(new)
<1>a. a \in Nat /\ Len(w) \in Nat
  OBVIOUS
<1>1. ASSUME a >= n
      PROVE  /\ end \in Nat /\ end >= n /\ sent \in Seq(Nat) /\ end = g + Len(sent)
             /\ \A i \in 1 .. Len(sent) : sent[i] = g + i
  <2>1. new = {}
    BY <1>1, <1>a
  <2>2. sent = w
    <3>1. Ascending(new) = <<>>
      BY <2>1, AscendingOfNothing
    <3>2. w \o <<>> = w
      OBVIOUS
    <3> QED
      BY <3>1, <3>2
  <2> QED
    BY <2>1, <2>2, <1>1, <1>a
<1>2. ASSUME a < n
      PROVE  /\ end \in Nat /\ end >= n /\ sent \in Seq(Nat) /\ end = g + Len(sent)
             /\ \A i \in 1 .. Len(sent) : sent[i] = g + i
  <2> DEFINE tail == [i \in 1 .. n - a |-> a + i]
  <2>1. new = a + 1 .. n /\ n \in new
    BY <1>2, <1>a
  <2>2. Ascending(new) = tail
    BY <2>1, <1>2, <1>a, AscendingOfInterval
  <2>3. Top(new) = n
    BY <2>1, <1>2, <1>a, TopAfter
  <2>4. end = n
    BY <2>1, <2>3
  <2>5. sent = w \o tail
    BY <2>2
  <2>6. tail \in Seq(Nat) /\ Len(tail) = n - a
    <3>1. n - a \in Nat
      BY <1>2, <1>a
    <3>2. \A i \in 1 .. n - a : a + i \in Nat
      BY <1>a
    <3> QED
      BY <3>1, <3>2
  <2>7. \A i \in 1 .. n - a : tail[i] = a + i
    OBVIOUS
  <2> HIDE DEF new, end, sent, tail
  <2>8. sent \in Seq(Nat) /\ Len(sent) = Len(w) + (n - a)
    BY <2>5, <2>6
  <2>9. ASSUME NEW i \in 1 .. Len(sent) PROVE sent[i] = g + i
    <3>1. CASE i <= Len(w)
      <4>1. sent[i] = w[i] /\ i \in 1 .. Len(w)
        BY <3>1, <2>5, <2>6, <2>8
      <4> QED
        BY <4>1
    <3>2. CASE i > Len(w)
      <4>1. sent[i] = tail[i - Len(w)] /\ i - Len(w) \in 1 .. n - a
        BY <3>2, <1>a, <2>5, <2>6, <2>8
      <4>2. sent[i] = a + (i - Len(w))
        BY <4>1, <2>7
      <4> QED
        BY <4>2, <1>a
    <3> QED
      BY <3>1, <3>2, <1>a
  <2> QED
    BY <1>2, <1>a, <2>4, <2>8, <2>9
<1>3. a >= n \/ a < n
  BY <1>a
<1> HIDE DEF new, end, sent
<1> QED
  BY <1>1, <1>2, <1>3 DEF new, end, sent

LEMMA StreamInit == Init => StreamInv
  BY DEF Init, StreamInv, StreamShapes, Follows, CursorAtEnd, Owes

\* A step of the writers adds to the log.
LEMMA WritersKeepStream ==
    ASSUME StreamInv, UNCHANGED readers, committed \subseteq committed'
    PROVE  StreamInv'
<1>1. /\ conn' = conn /\ last' = last /\ seen' = seen /\ owed' = owed
      /\ why' = why /\ wire' = wire /\ got' = got
  BY DEF readers
<1> QED
  BY <1>1 DEF StreamInv, StreamShapes, Follows, CursorAtEnd, Owes

\* A step of one reader leaves the streams of the others and the log alone.
LEMMA OtherStreams ==
    ASSUME NEW r \in Reader, StreamInv, StreamShapes', committed' = committed,
           \A q \in Reader \ {r} :
               /\ conn'[q] = conn[q] /\ last'[q] = last[q] /\ owed'[q] = owed[q]
               /\ why'[q] = why[q] /\ wire'[q] = wire[q] /\ got'[q] = got[q],
           Follows(r)', CursorAtEnd(r)', Owes(r)'
    PROVE  StreamInv'
<1>1. ASSUME NEW q \in Reader \ {r} PROVE Follows(q)' /\ CursorAtEnd(q)' /\ Owes(q)'
  <2>1. Follows(q) /\ CursorAtEnd(q) /\ Owes(q)
    BY <1>1 DEF StreamInv
  <2>2. Follows(q)'
    BY <1>1, <2>1 DEF Follows
  <2>3. CursorAtEnd(q)' /\ Owes(q)'
    BY <1>1, <2>1 DEF CursorAtEnd, Owes
  <2> QED
    BY <2>2, <2>3
<1> QED
  BY <1>1 DEF StreamInv

LEMMA StreamStep == GapInv /\ StreamInv /\ [Next]_vars => StreamInv'
<1> SUFFICES ASSUME GapInv, StreamInv, [Next]_vars PROVE StreamInv'
  OBVIOUS
<1>n. PICK n \in Nat : committed = 1 .. n
  BY DEF GapInv
<1>1. CASE \E w \in Writer : Emit(w)
  <2>1. UNCHANGED readers /\ committed \subseteq committed'
    BY <1>1 DEF Emit, Begin, ReadMax, Insert, InsertFails, Commit, Rollback
  <2> QED
    BY <2>1, WritersKeepStream
<1>2. ASSUME NEW r \in Reader, Connect(r) PROVE StreamInv'
  <2>1. Follows(r) /\ got[r] \in Seq(Nat) /\ wire[r] = <<>>
    BY <1>2 DEF Connect, StreamInv, StreamShapes
  <2>2. ToSet(got[r]) = 1 .. Len(got[r])
    BY <2>1 DEF Follows, ToSet
  <2>3. Top(ToSet(got[r])) = Len(got[r]) /\ Len(got[r]) \in Nat
    BY <2>1, <2>2, TopOfInterval
  <2>4. /\ conn'[r] = "status" /\ last'[r] = Len(got[r])
        /\ owed' = owed /\ why' = why /\ wire' = wire /\ got' = got /\ committed' = committed
        /\ \A q \in Reader \ {r} : conn'[q] = conn[q] /\ last'[q] = last[q]
    BY <1>2, <2>3 DEF Connect, writers, StreamInv, StreamShapes
  <2>5. StreamShapes'
    BY <1>2, <2>3 DEF Connect, StreamInv, StreamShapes
  <2>6. Follows(r)' /\ CursorAtEnd(r)' /\ Owes(r)'
    <3>1. wire'[r] = <<>> /\ got'[r] = got[r] /\ Len(wire'[r]) = 0
      BY <2>1, <2>4
    <3>2. Follows(r)'
      BY <2>1, <3>1 DEF Follows
    <3>3. CursorAtEnd(r)'
      BY <2>3, <2>4, <3>1 DEF CursorAtEnd
    <3>4. Owes(r)'
      BY <2>4 DEF Owes, StreamInv
    <3> QED
      BY <3>2, <3>3, <3>4
  <2> QED
    BY <2>4, <2>5, <2>6, OtherStreams
<1>3. ASSUME NEW r \in Reader, ReadStatus(r) PROVE StreamInv'
  <2>1. Cardinality(committed) = n
    BY <1>n, FS_Interval
  <2>2. /\ conn[r] = "status" /\ conn'[r] = "events" /\ owed'[r] = n
        /\ last' = last /\ why' = why /\ wire' = wire /\ got' = got /\ committed' = committed
        /\ \A q \in Reader \ {r} : conn'[q] = conn[q] /\ owed'[q] = owed[q]
    BY <1>3, <2>1 DEF ReadStatus, writers, StreamInv, StreamShapes
  <2>3. StreamShapes'
    BY <1>3, <2>1 DEF ReadStatus, StreamInv, StreamShapes
  <2>4. Follows(r)' /\ CursorAtEnd(r)' /\ Owes(r)'
    BY <1>n, <2>2 DEF Follows, CursorAtEnd, Owes, StreamInv
  <2> QED
    BY <2>2, <2>3, <2>4, OtherStreams
<1>4. ASSUME NEW r \in Reader, ReadEvents(r) PROVE StreamInv'
  <2> DEFINE new == {i \in committed : i > last[r]}
             verdict == Verdict(seen[r], new)
             end == IF new = {} THEN last[r] ELSE Top(new)
             sent == wire[r] \o Ascending(new)
  <2>1. /\ Follows(r) /\ got[r] \in Seq(Nat) /\ wire[r] \in Seq(Nat) /\ last[r] \in Nat
        /\ last[r] = Len(got[r]) + Len(wire[r]) /\ 1 .. owed[r] \subseteq 1 .. n
        /\ owed[r] \in Nat
    BY <1>4, <1>n DEF ReadEvents, StreamInv, StreamShapes, CursorAtEnd, Owes
  <2>2. /\ end \in Nat /\ end >= n /\ sent \in Seq(Nat)
        /\ end = Len(got[r]) + Len(sent)
        /\ \A i \in 1 .. Len(sent) : sent[i] = Len(got[r]) + i
    <3>1. new = {i \in 1 .. n : i > Len(got[r]) + Len(wire[r])}
      BY <1>n, <2>1
    <3>2. Len(got[r]) \in Nat /\ \A i \in 1 .. Len(wire[r]) : wire[r][i] = Len(got[r]) + i
      BY <2>1 DEF Follows
    <3> HIDE DEF new
    <3>3. LET all == {i \in 1 .. n : i > Len(got[r]) + Len(wire[r])}
              to == IF all = {} THEN Len(got[r]) + Len(wire[r]) ELSE Top(all)
              out == wire[r] \o Ascending(all)
          IN  /\ to \in Nat /\ to >= n /\ out \in Seq(Nat) /\ to = Len(got[r]) + Len(out)
              /\ \A i \in 1 .. Len(out) : out[i] = Len(got[r]) + i
      BY <2>1, <3>2, SendsOn
    <3> QED
      BY <2>1, <3>1, <3>3
  <2>3. verdict \in {"terminal", "parked", "open"}
    BY DEF Verdict
  <2>4. /\ wire' = [wire EXCEPT ![r] = sent] /\ last' = [last EXCEPT ![r] = end]
        /\ conn' = [conn EXCEPT ![r] = IF verdict = "open" THEN "status" ELSE "closed"]
        /\ why' = [why EXCEPT ![r] = verdict]
        /\ seen' = seen /\ owed' = owed /\ got' = got /\ committed' = committed
    BY <1>4 DEF ReadEvents, writers, StreamInv, StreamShapes
  <2> HIDE DEF new, verdict, end, sent
  <2>5. /\ wire'[r] = sent /\ last'[r] = end
        /\ \A q \in Reader \ {r} :
               wire'[q] = wire[q] /\ last'[q] = last[q] /\ conn'[q] = conn[q] /\ why'[q] = why[q]
    BY <2>4 DEF StreamInv, StreamShapes
  <2>6. StreamShapes'
    BY <2>2, <2>3, <2>4 DEF StreamInv, StreamShapes
  <2>7. Follows(r)' /\ CursorAtEnd(r)'
    BY <2>1, <2>2, <2>4, <2>5 DEF Follows, CursorAtEnd
  <2>8. Owes(r)'
    <3>1. n >= owed[r]
      BY <2>1
    <3> QED
      BY <1>n, <2>1, <2>2, <2>4, <2>5, <3>1 DEF Owes
  <2> QED
    BY <2>4, <2>5, <2>6, <2>7, <2>8, OtherStreams
<1>5. ASSUME NEW r \in Reader, Receive(r) PROVE StreamInv'
  <2>1. /\ Follows(r) /\ CursorAtEnd(r) /\ got[r] \in Seq(Nat) /\ wire[r] \in Seq(Nat)
        /\ wire[r] # <<>> /\ last[r] \in Nat
    BY <1>5 DEF Receive, StreamInv, StreamShapes
  <2>2. /\ got'[r] = Append(got[r], Head(wire[r])) /\ wire'[r] = Tail(wire[r])
        /\ conn' = conn /\ last' = last /\ owed' = owed /\ why' = why /\ committed' = committed
        /\ \A q \in Reader \ {r} : got'[q] = got[q] /\ wire'[q] = wire[q]
    BY <1>5 DEF Receive, writers, StreamInv, StreamShapes
  <2>3. Head(wire[r]) = Len(got[r]) + 1 /\ Len(wire[r]) \in Nat \ {0}
    <3>1. Len(wire[r]) \in Nat \ {0} /\ Head(wire[r]) = wire[r][1]
      BY <2>1
    <3> QED
      BY <2>1, <3>1 DEF Follows
  <2> DEFINE g == Len(got[r])
             w == Len(wire[r])
  <2>4. /\ got'[r] \in Seq(Nat) /\ wire'[r] \in Seq(Nat)
        /\ Len(got'[r]) = g + 1 /\ Len(wire'[r]) = w - 1
    BY <2>1, <2>2, <2>3
  <2>5. StreamShapes'
    BY <1>5, <2>2, <2>4 DEF Receive, StreamInv, StreamShapes
  <2>6. ASSUME NEW i \in 1 .. Len(got'[r]) PROVE got'[r][i] = i
    BY <2>1, <2>2, <2>3, <2>4 DEF Follows
  <2>7. ASSUME NEW i \in 1 .. Len(wire'[r]) PROVE wire'[r][i] = Len(got'[r]) + i
    <3>1. i + 1 \in 1 .. Len(wire[r]) /\ wire'[r][i] = wire[r][i + 1]
      BY <2>1, <2>2, <2>3, <2>4
    <3> QED
      BY <2>1, <2>4, <3>1 DEF Follows
  <2>8. Follows(r)' /\ CursorAtEnd(r)' /\ Owes(r)'
    <3>1. Follows(r)'
      BY <2>6, <2>7 DEF Follows
    <3>2. CursorAtEnd(r)'
      <4>1. g \in Nat /\ w \in Nat
        BY <2>1
      <4> HIDE DEF g, w
      <4>2. Len(got'[r]) + Len(wire'[r]) = g + w
        BY <2>4, <4>1
      <4>3. conn[r] # "closed" => last[r] = g + w
        BY <2>1 DEF CursorAtEnd, g, w
      <4> QED
        BY <2>2, <4>2, <4>3 DEF CursorAtEnd
    <3>3. Owes(r)'
      BY <2>2 DEF Owes, StreamInv
    <3> QED
      BY <3>1, <3>2, <3>3
  <2> QED
    BY <2>2, <2>5, <2>8, OtherStreams
<1>6. ASSUME NEW r \in Reader, Drop(r) PROVE StreamInv'
  <2>1. /\ conn'[r] = "closed" /\ why'[r] = "dropped" /\ wire'[r] = <<>>
        /\ last' = last /\ owed' = owed /\ got' = got /\ committed' = committed
        /\ \A q \in Reader \ {r} : conn'[q] = conn[q] /\ why'[q] = why[q] /\ wire'[q] = wire[q]
    BY <1>6 DEF Drop, writers, StreamInv, StreamShapes
  <2>2. StreamShapes'
    BY <1>6 DEF Drop, StreamInv, StreamShapes
  <2>3. Follows(r)' /\ CursorAtEnd(r)' /\ Owes(r)'
    <3>1. Follows(r) /\ got'[r] = got[r] /\ Len(wire'[r]) = 0
      BY <2>1 DEF StreamInv
    <3>2. Follows(r)'
      BY <3>1 DEF Follows
    <3>3. CursorAtEnd(r)' /\ Owes(r)'
      BY <2>1 DEF CursorAtEnd, Owes, StreamInv
    <3> QED
      BY <3>2, <3>3
  <2> QED
    BY <2>1, <2>2, <2>3, OtherStreams
<1>7. CASE UNCHANGED vars
  BY <1>7, WritersKeepStream DEF vars, writers
<1> QED
  BY <1>1, <1>2, <1>3, <1>4, <1>5, <1>6, <1>7 DEF Next, Follow, Poll

\* What a client was handed is the log from its start, each event once and in order,
\* across lost connections, and to its end when the run is over (_event_stream).
THEOREM StreamSafe == Spec => []StreamIsLog
<1>1. StreamInv => StreamIsLog
  BY DEF StreamInv, Follows, Owes, StreamIsLog, StreamInOrder, TerminalStreamIsComplete
<1>2. GapInv /\ StreamInv /\ [Next]_vars => (GapInv /\ StreamInv)'
  BY GapStep, StreamStep
<1> QED
  BY GapInit, StreamInit, <1>1, <1>2, PTL DEF Spec
=============================================================================
